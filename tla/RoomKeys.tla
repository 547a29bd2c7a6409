------------------------------ MODULE RoomKeys ------------------------------
(***************************************************************************)
(* Digital room keys over PostgreSQL.  Two endpoints issue them: a check-in *)
(* with passport and selfie for a stay, and POST /keys/hotel for a hotel    *)
(* purchase, which returns the key of the purchase's stay if it finds one.  *)
(* Each request is one transaction: it looks the stay up, looks for a key,  *)
(* and inserts, with an await between each two.  The only uniqueness the    *)
(* database enforces is that of stays.external_ref, which the stay of a     *)
(* purchase has that was made before purchases named their stays.           *)
(***************************************************************************)
EXTENDS Naturals, FiniteSets

CONSTANTS
    Requests,       \* the HTTP requests that arrive, each handled once
    Purchases,      \* the callers' wallet purchases
    Hotels,         \* those of kind hotel
    Stays,          \* the stays in the database at first
    Named,          \* Named[p]: the stay the details of p name, or NoStay
    RefStay,        \* RefStay[p]: the stay with external_ref wallet:p, once there is one
    Unknown,        \* a purchase that is not the caller's, a stay that does not exist
    NoStay,         \* no stay
    NoRequest       \* no request and no key

RefStays == {RefStay[p] : p \in Purchases}
StayIds == Stays \cup RefStays

ASSUME RoomKeysAssumption ==
    /\ Hotels \subseteq Purchases
    /\ Named \in [Purchases -> Stays \cup {NoStay}]
    /\ \A p, q \in Purchases : RefStay[p] = RefStay[q] => p = q
    /\ RefStays \cap Stays = {}
    /\ NoStay \notin StayIds /\ Unknown \notin StayIds \cup Purchases
    /\ NoRequest \notin Requests

VARIABLES
    stays,      \* committed stays
    checkIns,   \* committed check_ins, by the request that made them
    keys,       \* committed digital_keys, by the request that issued them
    holder,     \* holder[s]: the request whose open transaction inserted stay s
    pc,         \* pc[r]: where request r stands
    tx,         \* tx[r]: what request r has read and written, see Tx
    given       \* given[r]: the key request r was answered with

db == <<stays, checkIns, keys>>
vars == <<db, holder, pc, tx, given>>

-----------------------------------------------------------------------------
(* Check-in policy *)

Evidence == [passport : {"valid", "expired", "checksum"}, selfie : BOOLEAN,
             face : {"none", "failed", "single", "old", "passed"}]

\* The passport first, then a challenge passed in two captures at least, within
\* ten minutes, with the selfie enclosed.
Verdict(e) ==
    IF e.passport = "valid" /\ e.selfie /\ e.face = "passed" THEN "verified" ELSE "rejected"

\* digital_keys JOIN check_ins on one stay.
KeysOf(s) == {k \in keys : checkIns[k].stay = s}

\* The stay a purchase is about.
StayOf(p) == IF Named[p] # NoStay THEN Named[p] ELSE RefStay[p]

-----------------------------------------------------------------------------
(* Transactions *)

\* asked: the purchase of a key request; stay: the stay it is about; fresh: it has
\* to insert that stay; status: of the check_ins row it inserts; key: the key it
\* will answer with; seen: the keys of the stay when the request arrived.
CleanTx == [asked |-> Unknown, stay |-> NoStay, fresh |-> FALSE, status |-> "none",
            key |-> NoRequest, seen |-> {}]

InFlight == {"findstay", "findkey", "issue", "lookup", "commit"}
Answered == {"done", "refused", "failed"}

\* A fresh random id and a token signed for the stay: no two requests issue the same.
NewKey(r) == r

\* The row a transaction adds to check_ins.
CheckInRow(r) == [stay |-> tx[r].stay, status |-> tx[r].status]

\* COMMIT and ROLLBACK both end the wait for what the transaction inserted.
Unlock(r) == holder' = [s \in RefStays |-> IF holder[s] = r THEN NoRequest ELSE holder[s]]

\* Variant: the check_ins row is saved outside the request's transaction.
Rollback_KeepsCheckIn(r, answer) ==
    /\ pc' = [pc EXCEPT ![r] = answer]
    /\ checkIns' = IF tx[r].status = "none" THEN checkIns
                   ELSE [c \in DOMAIN checkIns \cup {r} |->
                            IF c = r THEN CheckInRow(r) ELSE checkIns[c]]
    /\ tx' = [tx EXCEPT ![r] = CleanTx]
    /\ Unlock(r)
    /\ UNCHANGED <<stays, keys, given>>

\* The exception handler of get_session.
Rollback(r, answer) ==
    /\ pc' = [pc EXCEPT ![r] = answer]
    /\ tx' = [tx EXCEPT ![r] = CleanTx]
    /\ Unlock(r)
    /\ UNCHANGED <<db, given>>

-----------------------------------------------------------------------------
Init ==
    /\ stays = Stays
    /\ checkIns = [c \in {} |-> CleanTx]
    /\ keys = {}
    /\ holder = [s \in RefStays |-> NoRequest]
    /\ pc = [r \in Requests |-> "idle"]
    /\ tx = [r \in Requests |-> CleanTx]
    /\ given = [r \in Requests |-> NoRequest]

\* POST /keys/hotel: somebody else's purchase is a 404, one that is no hotel a 422.
AskKey(r) ==
    /\ pc[r] = "idle"
    /\ \E p \in Purchases \cup {Unknown} :
         IF p \in Hotels
         THEN /\ pc' = [pc EXCEPT ![r] = "findstay"]
              /\ tx' = [tx EXCEPT ![r].asked = p, ![r].seen = KeysOf(StayOf(p))]
         ELSE /\ pc' = [pc EXCEPT ![r] = "refused"]
              /\ UNCHANGED tx
    /\ UNCHANGED <<db, holder, given>>

\* POST /check-ins.
ReceiveCheckIn(r) ==
    /\ pc[r] = "idle"
    /\ \E s \in StayIds \cup {Unknown} : tx' = [tx EXCEPT ![r].stay = s]
    /\ pc' = [pc EXCEPT ![r] = "lookup"]
    /\ UNCHANGED <<db, holder, given>>

\* The stay the details name, else the one with the purchase's external_ref, else
\* a new one.
FindStay(r) ==
    /\ pc[r] = "findstay"
    /\ LET s == StayOf(tx[r].asked) IN
       /\ tx' = [tx EXCEPT ![r].stay = s, ![r].fresh = s \notin stays]
       /\ pc' = [pc EXCEPT ![r] = IF s \in stays THEN "findkey" ELSE "issue"]
    /\ UNCHANGED <<db, holder, given>>

\* Variant: a key that is there is not looked for.
FindKey_Never(r) ==
    /\ pc[r] = "findkey"
    /\ pc' = [pc EXCEPT ![r] = "issue"]
    /\ UNCHANGED <<db, holder, tx, given>>

\* scalar_one_or_none: no key, the key, or MultipleResultsFound.
FindKey(r) ==
    /\ pc[r] = "findkey"
    /\ \/ /\ KeysOf(tx[r].stay) = {}
          /\ pc' = [pc EXCEPT ![r] = "issue"]
          /\ UNCHANGED <<db, holder, tx, given>>
       \/ \E k \in keys :
            /\ KeysOf(tx[r].stay) = {k}
            /\ tx' = [tx EXCEPT ![r].key = k]
            /\ pc' = [pc EXCEPT ![r] = "commit"]
            /\ UNCHANGED <<db, holder, given>>
       \/ /\ \E k, l \in KeysOf(tx[r].stay) : k # l
          /\ Rollback(r, "failed")

\* The inserts of IssueKey: the check-in and its key, and the stay if it is fresh.
Insert(r) ==
    /\ tx' = [tx EXCEPT ![r].status = "VERIFIED", ![r].key = NewKey(r)]
    /\ pc' = [pc EXCEPT ![r] = "commit"]
    /\ holder' = IF tx[r].fresh THEN [holder EXCEPT ![tx[r].stay] = r] ELSE holder
    /\ UNCHANGED <<db, given>>

\* Variant: external_ref is not unique.
IssueKey_Anyway(r) ==
    /\ pc[r] = "issue"
    /\ Insert(r)

\* The flush of issue_hotel_key.  The INSERT of a fresh stay waits for another one
\* with the same external_ref; once that has committed it is a unique violation.
IssueKey(r) ==
    /\ pc[r] = "issue"
    /\ \/ /\ ~tx[r].fresh
          /\ Insert(r)
       \/ /\ tx[r].fresh
          /\ holder[tx[r].stay] = NoRequest
          /\ IF tx[r].stay \in stays THEN Rollback(r, "failed") ELSE Insert(r)

\* create_check_in: an unknown stay is a 404; else the verdict is stored, with a
\* key if it is good.
CheckIn(r) ==
    /\ pc[r] = "lookup"
    /\ \/ /\ tx[r].stay \notin stays
          /\ Rollback(r, "refused")
       \/ /\ tx[r].stay \in stays
          /\ \E v \in {Verdict(e) : e \in Evidence} :
               tx' = [tx EXCEPT ![r].status = v,
                                ![r].key = IF v = "verified" THEN NewKey(r) ELSE NoRequest]
          /\ pc' = [pc EXCEPT ![r] = "commit"]
          /\ UNCHANGED <<db, holder, given>>

\* Everything the transaction wrote becomes visible at once, and the key is answered.
Commit(r) ==
    /\ pc[r] = "commit"
    /\ stays' = IF tx[r].fresh THEN stays \cup {tx[r].stay} ELSE stays
    /\ checkIns' =
           IF tx[r].status = "none" THEN checkIns
           ELSE [c \in DOMAIN checkIns \cup {r} |->
                    IF c = r THEN CheckInRow(r) ELSE checkIns[c]]
    /\ keys' = IF tx[r].key = NewKey(r) THEN keys \cup {NewKey(r)} ELSE keys
    /\ given' = [given EXCEPT ![r] = tx[r].key]
    /\ pc' = [pc EXCEPT ![r] = "done"]
    /\ Unlock(r)
    /\ UNCHANGED tx

\* A lost connection, a client gone, the process killed.
Fail(r) ==
    /\ pc[r] \in InFlight
    /\ Rollback(r, "failed")

Proceed(r) == FindStay(r) \/ FindKey(r) \/ IssueKey(r) \/ CheckIn(r) \/ Commit(r)

Next == \E r \in Requests : AskKey(r) \/ ReceiveCheckIn(r) \/ Proceed(r) \/ Fail(r)

Spec == Init /\ [][Next]_vars

-----------------------------------------------------------------------------
(* Properties *)

Tx == [asked : Purchases \cup {Unknown}, stay : StayIds \cup {NoStay, Unknown},
       fresh : BOOLEAN, status : {"none", "VERIFIED", "verified", "rejected"},
       key : Requests \cup {NoRequest}, seen : SUBSET Requests]

\* The types of the tables, the locks and the sessions.
TypeOK ==
    /\ stays \subseteq StayIds
    /\ DOMAIN checkIns \subseteq Requests
    /\ \A c \in DOMAIN checkIns :
           checkIns[c] \in [stay : StayIds, status : {"VERIFIED", "verified", "rejected"}]
    /\ keys \subseteq Requests
    /\ holder \in [RefStays -> Requests \cup {NoRequest}]
    /\ pc \in [Requests -> {"idle"} \cup InFlight \cup Answered]
    /\ tx \in [Requests -> Tx]
    /\ given \in [Requests -> Requests \cup {NoRequest}]

\* A check-in has a key exactly if it was verified, and its stay exists, whichever
\* requests fail between the insert and the commit.
KeyIffVerified ==
    /\ keys = {c \in DOMAIN checkIns : checkIns[c].status # "rejected"}
    /\ \A c \in DOMAIN checkIns : checkIns[c].stay \in stays

\* The key of an answer is in the tables and opens the stay that was asked for, and
\* not the one of somebody's other booking.
AnswerOpens ==
    \A r \in Requests : given[r] # NoRequest =>
        /\ given[r] \in keys
        /\ checkIns[given[r]].stay = tx[r].stay
        /\ tx[r].asked # Unknown => tx[r].stay = StayOf(tx[r].asked)

\* A hotel booking gets a second key only from requests that overlap: one that
\* arrives after a key was committed never issues another.
SecondKeyTakesOverlap ==
    \A k \in keys : checkIns[k].status = "VERIFIED" => tx[k].seen = {}

\* For purchases without a stay of their own even overlapping requests issue one key
\* only: the unique external_ref lets one of them through.
OneKeyPerLegacyPurchase ==
    \A k, l \in keys :
        /\ checkIns[k].status = "VERIFIED" /\ checkIns[l].status = "VERIFIED"
        /\ checkIns[k].stay = checkIns[l].stay
        /\ checkIns[k].stay \in RefStays
        => k = l

\* What keys.py says of issuance: it is idempotent per purchase, a purchase asked
\* for again returns the same key.  The lookup can do so only while that key is the
\* one key of the stay.
IdempotentPerPurchase ==
    \A r \in Requests :
        given[r] # NoRequest /\ tx[r].asked # Unknown => KeysOf(tx[r].stay) = {given[r]}

=============================================================================
