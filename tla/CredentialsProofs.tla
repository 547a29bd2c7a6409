--------------------------- MODULE CredentialsProofs ---------------------------
(***************************************************************************)
(* What the properties of the two credentials rest on, proved for every    *)
(* set of requests, purchases, stays, cards and controls.  For room keys   *)
(* Inv is inductive: beside the tables it says what a request knows        *)
(* between two awaits.  A lookup that found nothing was right at that time *)
(* only; what stays true is that a stay under an external_ref has a key    *)
(* from the moment it exists, and that the request which has inserted such *)
(* a stay holds off every other one.  For cards CardsInv is: the copy a    *)
(* request loaded is as frozen as the card while no toggle was committed.  *)
(***************************************************************************)
EXTENDS Credentials, TLAPS

\* A request adds to the tables when it commits.
NothingCommitted(r) == pc[r] # "done" => r \notin DOMAIN checkIns /\ given[r] = NoRequest

\* A request that was not received, or was rolled back, has no transaction.
NoTxYet(r) == pc[r] \in {"idle", "refused", "failed"} =>
    /\ tx[r].status = "none" /\ tx[r].key = NoRequest
    /\ tx[r].asked = Unknown /\ ~tx[r].fresh

\* Nothing is written before the inserts.
NothingWritten(r) == pc[r] \in {"findstay", "findkey", "issue", "lookup"} =>
    tx[r].status = "none" /\ tx[r].key = NoRequest

\* A key request is about a hotel purchase, and the keys it saw are still there.
AskedFor(r) == tx[r].asked # Unknown =>
    /\ tx[r].asked \in Hotels
    /\ tx[r].seen \subseteq KeysOf(StayOf(tx[r].asked))
    /\ pc[r] \in {"findkey", "issue", "commit", "done"} => tx[r].stay = StayOf(tx[r].asked)

\* What the lookups of the two endpoints established.
Looking(r) ==
    /\ pc[r] \in {"findstay", "findkey", "issue"} => tx[r].asked # Unknown
    /\ pc[r] \in {"findstay", "findkey", "lookup"} => ~tx[r].fresh
    /\ pc[r] = "findkey" => tx[r].stay \in stays
    /\ pc[r] = "lookup" => tx[r].asked = Unknown

\* A request about to insert: it saw no key, and only a stay that is not there is new.
Issuing(r) == pc[r] = "issue" =>
    /\ tx[r].seen = {}
    /\ IF tx[r].fresh THEN tx[r].stay \in RefStays ELSE tx[r].stay \in stays \ RefStays

\* What a request is about to commit.
Committing(r) == pc[r] = "commit" =>
    /\ tx[r].fresh => /\ tx[r].status = "VERIFIED"
                      /\ tx[r].stay \in RefStays \ stays
                      /\ holder[tx[r].stay] = r
    /\ ~tx[r].fresh => tx[r].stay \in stays
    /\ tx[r].status = "VERIFIED" => /\ tx[r].asked # Unknown /\ tx[r].seen = {}
                                    /\ tx[r].key = NewKey(r)
                                    /\ ~tx[r].fresh => tx[r].stay \notin RefStays
    /\ tx[r].status = "none" => tx[r].key \in KeysOf(tx[r].stay)
    /\ tx[r].status = "verified" => tx[r].key = NewKey(r)
    /\ tx[r].status = "rejected" => tx[r].key = NoRequest

\* What a request has committed.
Committed(r) == pc[r] = "done" =>
    /\ r \in DOMAIN checkIns => checkIns[r] = CheckInRow(r)
    /\ tx[r].status = "VERIFIED" => tx[r].seen = {}
    /\ given[r] # NoRequest => given[r] \in keys /\ checkIns[given[r]].stay = tx[r].stay

Session(r) ==
    /\ NothingCommitted(r) /\ NoTxYet(r) /\ NothingWritten(r) /\ AskedFor(r)
    /\ Looking(r) /\ Issuing(r) /\ Committing(r) /\ Committed(r)

\* No stay is lost, and one under an external_ref comes with its key.
StaysHaveKeys == Stays \subseteq stays /\ \A s \in RefStays \cap stays : KeysOf(s) # {}

Tables == KeyIffVerified /\ StaysHaveKeys /\ OneKeyPerLegacyPurchase

Inv == TypeOK /\ Tables /\ \A r \in Requests : Session(r)

-----------------------------------------------------------------------------
\* A session another request's step does not touch keeps its invariant, as long as
\* the tables only grow and the stay it inserted stays its own.
LEMMA Undisturbed ==
    ASSUME NEW q \in Requests, TypeOK, KeyIffVerified, Session(q),
           pc'[q] = pc[q], tx'[q] = tx[q], given'[q] = given[q],
           stays \subseteq stays', keys \subseteq keys',
           \A c \in DOMAIN checkIns : c \in DOMAIN checkIns' /\ checkIns'[c] = checkIns[c],
           q \in DOMAIN checkIns' => q \in DOMAIN checkIns,
           pc[q] = "commit" /\ tx[q].fresh =>
               tx[q].stay \notin stays' /\ holder'[tx[q].stay] = q
    PROVE  Session(q)'
<1>1. keys \subseteq DOMAIN checkIns
    BY DEF KeyIffVerified
<1>2. /\ NothingCommitted(q)' /\ NoTxYet(q)' /\ NothingWritten(q)'
      /\ Looking(q)' /\ Issuing(q)'
    BY DEF Session, NothingCommitted, NoTxYet, NothingWritten, Looking, Issuing
<1>3. AskedFor(q)'
    BY <1>1 DEF Session, AskedFor, KeysOf, StayOf
<1>4. Committing(q)'
    BY <1>1 DEF Session, Committing, KeysOf, NewKey
<1>5. Committed(q)'
  <2>1. q \in DOMAIN checkIns' => checkIns'[q] = CheckInRow(q)' \/ pc[q] # "done"
      BY DEF Session, Committed, CheckInRow
  <2>2. given[q] \in keys => given[q] \in DOMAIN checkIns
      BY <1>1
  <2> QED
      BY <2>1, <2>2 DEF Session, Committed
<1> QED
    BY <1>2, <1>3, <1>4, <1>5 DEF Session

\* A step of one request that leaves the tables alone preserves the invariant if it
\* preserves that request's part of it.
LEMMA SessionStep ==
    ASSUME NEW r \in Requests, Inv, TypeOK', Session(r)', UNCHANGED <<db, given>>,
           \A q \in Requests \ {r} : pc'[q] = pc[q] /\ tx'[q] = tx[q],
           \A q \in Requests \ {r}, s \in RefStays : holder[s] = q => holder'[s] = q
    PROVE  Inv'
<1>1. Tables'
    BY DEF Inv, Tables, KeyIffVerified, StaysHaveKeys, OneKeyPerLegacyPurchase, KeysOf, db
<1>2. ASSUME NEW q \in Requests PROVE Session(q)'
  <2>1. CASE q = r
      BY <2>1
  <2>2. CASE q # r
    <3>1. pc[q] = "commit" /\ tx[q].fresh =>
              tx[q].stay \notin stays' /\ holder'[tx[q].stay] = q
        BY <2>2 DEF Inv, Session, Committing, db
    <3> QED
        BY <2>2, <3>1, Undisturbed DEF Inv, Tables, db
  <2> QED
      BY <2>1, <2>2
<1> QED
    BY <1>1, <1>2 DEF Inv

LEMMA InitInv == Init => Inv
<1> SUFFICES ASSUME Init PROVE Inv
    OBVIOUS
<1>1. TypeOK
    BY RoomKeysAssumption DEF Init, TypeOK, CleanTx, Tx, StayIds, InFlight, Answered
<1>2. Tables
    BY RoomKeysAssumption
    DEF Init, Tables, KeyIffVerified, StaysHaveKeys, OneKeyPerLegacyPurchase, KeysOf
<1>3. ASSUME NEW r \in Requests PROVE Session(r)
    BY DEF Init, Session, NothingCommitted, NoTxYet, NothingWritten, AskedFor, Looking,
           Issuing, Committing, Committed, CleanTx
<1> QED
    BY <1>1, <1>2, <1>3 DEF Inv

-----------------------------------------------------------------------------
\* The stay of a purchase is one there can be; a new one is under its external_ref.
LEMMA StayOfType == \A p \in Purchases : StayOf(p) \in StayIds /\ StayOf(p) # NoStay
BY RoomKeysAssumption DEF StayOf, StayIds, RefStays

LEMMA RollbackInv ==
    ASSUME NEW r \in Requests, Inv, pc[r] # "done", NEW answer \in {"refused", "failed"},
           Rollback(r, answer)
    PROVE  Inv'
<1>1. TypeOK'
  <2>1. CleanTx \in Tx
      BY DEF CleanTx, Tx
  <2>2. UNCHANGED <<stays, checkIns, keys, given>>
      BY DEF Rollback, db
  <2>3. pc' \in [Requests -> {"idle"} \cup InFlight \cup Answered]
      BY DEF Rollback, Inv, TypeOK, Answered
  <2>4. tx' \in [Requests -> Tx]
      BY <2>1 DEF Rollback, Inv, TypeOK
  <2>5. holder' \in [RefStays -> Requests \cup {NoRequest}]
      BY DEF Rollback, Unlock, Inv, TypeOK
  <2> QED
      BY <2>2, <2>3, <2>4, <2>5 DEF Inv, TypeOK
<1>2. pc'[r] = answer /\ tx'[r] = CleanTx
    BY DEF Rollback, Inv, TypeOK
<1>3. Session(r)'
    BY <1>2 DEF Inv, Session, NothingCommitted, NoTxYet, NothingWritten, AskedFor, Looking,
                Issuing, Committing, Committed, CleanTx, Rollback, db
<1>4. \A q \in Requests \ {r} : pc'[q] = pc[q] /\ tx'[q] = tx[q]
    BY DEF Rollback, Inv, TypeOK
<1>5. \A q \in Requests \ {r}, s \in RefStays : holder[s] = q => holder'[s] = q
    BY DEF Rollback, Unlock
<1> QED
    BY <1>1, <1>3, <1>4, <1>5, SessionStep DEF Rollback

LEMMA AskKeyInv ==
    ASSUME NEW r \in Requests, Inv, AskKey(r)
    PROVE  Inv'
<1>1. PICK p \in Purchases \cup {Unknown} :
        IF p \in Hotels
        THEN /\ pc' = [pc EXCEPT ![r] = "findstay"]
             /\ tx' = [tx EXCEPT ![r].asked = p, ![r].seen = KeysOf(StayOf(p))]
        ELSE pc' = [pc EXCEPT ![r] = "refused"] /\ UNCHANGED tx
    BY DEF AskKey
<1>2. KeysOf(StayOf(p)) \subseteq Requests
    BY DEF Inv, TypeOK, KeysOf
<1>3. TypeOK'
    BY <1>1, <1>2 DEF AskKey, Inv, TypeOK, Tx, InFlight, Answered, db
<1>4. \A q \in Requests \ {r} : pc'[q] = pc[q] /\ tx'[q] = tx[q]
    BY <1>1 DEF Inv, TypeOK
<1>5. Session(r)'
  <2>1. pc[r] = "idle" /\ pc[r] # "done" /\ Session(r)
      BY DEF AskKey, Inv
  <2>2. CASE p \in Hotels
    <3>1. /\ pc'[r] = "findstay"
          /\ tx'[r] = [tx[r] EXCEPT !.asked = p, !.seen = KeysOf(StayOf(p))]
        BY <1>1, <2>2 DEF Inv, TypeOK
    <3>2. /\ tx'[r].asked = p /\ tx'[r].seen = KeysOf(StayOf(p))
          /\ tx'[r].status = tx[r].status /\ tx'[r].key = tx[r].key
          /\ tx'[r].fresh = tx[r].fresh
        BY <3>1 DEF Inv, TypeOK, Tx
    <3>3. p # Unknown
        BY <2>2, RoomKeysAssumption
    <3>4. KeysOf(StayOf(p))' = KeysOf(StayOf(p))
        BY DEF AskKey, KeysOf, StayOf, db
    <3> QED
        BY <2>1, <2>2, <3>1, <3>2, <3>3, <3>4
        DEF Session, NothingCommitted, NoTxYet, NothingWritten, AskedFor, Looking, Issuing,
            Committing, Committed, AskKey, db, KeysOf, StayOf
  <2>3. CASE p \notin Hotels
    <3>1. pc'[r] = "refused" /\ tx'[r] = tx[r]
        BY <1>1, <2>3 DEF Inv, TypeOK
    <3> QED
        BY <2>1, <3>1
        DEF Session, NothingCommitted, NoTxYet, NothingWritten, AskedFor, Looking, Issuing,
            Committing, Committed, AskKey, db
  <2> QED
      BY <2>2, <2>3
<1> QED
    BY <1>3, <1>4, <1>5, SessionStep DEF AskKey

LEMMA ReceiveCheckInInv ==
    ASSUME NEW r \in Requests, Inv, ReceiveCheckIn(r)
    PROVE  Inv'
<1>1. PICK s \in StayIds \cup {Unknown} : tx' = [tx EXCEPT ![r].stay = s]
    BY DEF ReceiveCheckIn
<1>2. TypeOK'
    BY <1>1 DEF ReceiveCheckIn, Inv, TypeOK, Tx, InFlight, Answered, db
<1>3. \A q \in Requests \ {r} : pc'[q] = pc[q] /\ tx'[q] = tx[q]
    BY <1>1 DEF ReceiveCheckIn, Inv, TypeOK
<1>4. Session(r)'
  <2>1. /\ pc[r] = "idle" /\ pc'[r] = "lookup" /\ Session(r)
        /\ tx'[r].status = tx[r].status /\ tx'[r].key = tx[r].key
        /\ tx'[r].fresh = tx[r].fresh /\ tx'[r].asked = tx[r].asked
      BY <1>1 DEF ReceiveCheckIn, Inv, TypeOK, Tx
  <2> QED
      BY <2>1
      DEF Session, NothingCommitted, NoTxYet, NothingWritten, AskedFor, Looking, Issuing,
          Committing, Committed, ReceiveCheckIn, db
<1> QED
    BY <1>2, <1>3, <1>4, SessionStep DEF ReceiveCheckIn

LEMMA FindStayInv ==
    ASSUME NEW r \in Requests, Inv, FindStay(r)
    PROVE  Inv'
<1>1. /\ pc[r] = "findstay" /\ Session(r)
      /\ tx[r].asked \in Hotels /\ tx[r].asked # Unknown /\ tx[r].asked \in Purchases
    BY RoomKeysAssumption DEF FindStay, Inv, Session, Looking, AskedFor
<1>2. PICK s \in StayIds : s = StayOf(tx[r].asked)
    BY <1>1, StayOfType
<1>3. PICK new \in BOOLEAN : new = (s \notin stays) /\ (new <=> s \notin stays)
  <2>1. CASE s \in stays
      BY <2>1, (s \notin stays) = FALSE
  <2>2. CASE s \notin stays
      BY <2>2, (s \notin stays) = TRUE
  <2> QED
      BY <2>1, <2>2
<1>4. tx' = [tx EXCEPT ![r].stay = s, ![r].fresh = new]
  <2>1. tx' = [tx EXCEPT ![r].stay = s, ![r].fresh = s \notin stays]
      BY <1>2 DEF FindStay
  <2> QED
      BY <2>1, <1>3, Zenon
<1>5. /\ pc' = [pc EXCEPT ![r] = IF s \in stays THEN "findkey" ELSE "issue"]
      /\ UNCHANGED <<stays, checkIns, keys, holder, given>>
  <2>1. /\ pc' = [pc EXCEPT ![r] = IF s \in stays THEN "findkey" ELSE "issue"]
        /\ UNCHANGED <<db, holder, given>>
      BY <1>2, Zenon DEF FindStay
  <2> QED
      BY <2>1 DEF db
<1>6. TypeOK'
  <2>1. tx' \in [Requests -> Tx]
    <3>1. \A t \in Tx : [t EXCEPT !.stay = s, !.fresh = new] \in Tx
        BY DEF Tx
    <3>2. tx' = [tx EXCEPT ![r] = [tx[r] EXCEPT !.stay = s, !.fresh = new]]
        BY <1>4 DEF Inv, TypeOK
    <3> QED
        BY <3>1, <3>2 DEF Inv, TypeOK
  <2>2. pc' \in [Requests -> {"idle"} \cup InFlight \cup Answered]
      BY <1>4, <1>5 DEF Inv, TypeOK, InFlight
  <2> QED
      BY <2>1, <2>2, <1>4, <1>5 DEF Inv, TypeOK
<1>7. \A q \in Requests \ {r} : pc'[q] = pc[q] /\ tx'[q] = tx[q]
    BY <1>4, <1>5 DEF Inv, TypeOK
<1>8. /\ pc'[r] = IF s \in stays THEN "findkey" ELSE "issue"
      /\ tx'[r].asked = tx[r].asked /\ tx'[r].seen = tx[r].seen
      /\ tx'[r].status = tx[r].status /\ tx'[r].key = tx[r].key
      /\ tx'[r].stay = s /\ tx'[r].fresh = new
    BY <1>4, <1>5 DEF Inv, TypeOK, Tx
<1>9. KeysOf(s)' = KeysOf(s)
    BY <1>4, <1>5 DEF KeysOf
<1>10. new => KeysOf(s) = {} /\ s \in RefStays
    BY <1>2, <1>3 DEF KeysOf, Inv, Tables, KeyIffVerified, StaysHaveKeys, StayIds
<1>11. Session(r)'
  <2>1. StayOf(tx'[r].asked) = s
      BY <1>2, <1>8
  <2>2. AskedFor(r)'
      BY <1>1, <1>2, <1>8, <1>9, <2>1 DEF Session, AskedFor
  <2>3. Issuing(r)'
      BY <1>1, <1>2, <1>3, <1>4, <1>5, <1>8, <1>10 DEF Session, AskedFor, Issuing
  <2>4. Looking(r)'
      BY <1>1, <1>3, <1>4, <1>5, <1>8 DEF Session, Looking
  <2> QED
      BY <2>2, <2>3, <2>4, <1>1, <1>4, <1>5, <1>8
      DEF Session, NothingCommitted, NoTxYet, NothingWritten, Committing, Committed
<1> QED
    BY <1>4, <1>5, <1>6, <1>7, <1>11, SessionStep DEF db

LEMMA FindKeyInv ==
    ASSUME NEW r \in Requests, Inv, FindKey(r)
    PROVE  Inv'
<1>1. /\ pc[r] = "findkey" /\ Session(r) /\ tx[r].stay \in stays /\ ~tx[r].fresh
      /\ tx[r].asked \in Hotels /\ tx[r].asked # Unknown
      /\ tx[r].stay = StayOf(tx[r].asked)
      /\ tx[r].seen \subseteq KeysOf(tx[r].stay)
    BY DEF FindKey, Inv, Session, Looking, AskedFor
<1>2. CASE /\ KeysOf(tx[r].stay) = {}
           /\ pc' = [pc EXCEPT ![r] = "issue"]
           /\ UNCHANGED <<db, holder, tx, given>>
  <2>1. TypeOK'
      BY <1>2 DEF Inv, TypeOK, InFlight, db
  <2>2. pc'[r] = "issue" /\ \A q \in Requests \ {r} : pc'[q] = pc[q]
      BY <1>2 DEF Inv, TypeOK
  <2>3. tx[r].stay \notin RefStays
      BY <1>1, <1>2 DEF Inv, Tables, StaysHaveKeys
  <2>4. Session(r)'
    <3>1. AskedFor(r)'
        BY <1>1, <1>2 DEF AskedFor, Session, KeysOf, db
    <3> QED
        BY <1>1, <1>2, <2>2, <2>3, <3>1
        DEF Session, NothingCommitted, NoTxYet, NothingWritten, Looking, Issuing,
            Committing, Committed, db
  <2> QED
      BY <1>2, <2>1, <2>2, <2>4, SessionStep
<1>3. ASSUME NEW k \in keys, KeysOf(tx[r].stay) = {k},
             tx' = [tx EXCEPT ![r].key = k], pc' = [pc EXCEPT ![r] = "commit"],
             UNCHANGED <<db, holder, given>>
      PROVE  Inv'
  <2>1. TypeOK'
      BY <1>3 DEF Inv, TypeOK, InFlight, Tx, db
  <2>2. \A q \in Requests \ {r} : pc'[q] = pc[q] /\ tx'[q] = tx[q]
      BY <1>3 DEF Inv, TypeOK
  <2>3. /\ pc'[r] = "commit" /\ tx'[r].key = k /\ tx'[r].status = tx[r].status
        /\ tx'[r].stay = tx[r].stay /\ tx'[r].fresh = tx[r].fresh
        /\ tx'[r].asked = tx[r].asked /\ tx'[r].seen = tx[r].seen
      BY <1>3 DEF Inv, TypeOK, Tx
  <2>4. Session(r)'
    <3>1. tx[r].status = "none"
        BY <1>1 DEF Session, NothingWritten
    <3>2. AskedFor(r)'
        BY <1>1, <1>3, <2>3 DEF AskedFor, Session, KeysOf, db
    <3>3. Committing(r)'
        BY <1>1, <1>3, <2>3, <3>1 DEF Committing, KeysOf, db
    <3> QED
        BY <1>1, <1>3, <2>3, <3>2, <3>3
        DEF Session, NothingCommitted, NoTxYet, NothingWritten, Looking, Issuing,
            Committed, db
  <2> QED
      BY <1>3, <2>1, <2>2, <2>4, SessionStep
<1>4. CASE Rollback(r, "failed")
    BY <1>1, <1>4, RollbackInv
<1> QED
    BY <1>2, <1>3, <1>4 DEF FindKey

LEMMA InsertInv ==
    ASSUME NEW r \in Requests, Inv, pc[r] = "issue", Insert(r),
           tx[r].fresh => tx[r].stay \notin stays /\ holder[tx[r].stay] = NoRequest
    PROVE  Inv'
<1>1. /\ Session(r) /\ tx[r].asked # Unknown /\ tx[r].seen = {}
      /\ IF tx[r].fresh THEN tx[r].stay \in RefStays ELSE tx[r].stay \in stays \ RefStays
    BY DEF Inv, Session, Looking, Issuing
<1>2. TypeOK'
  <2>1. tx' \in [Requests -> Tx]
    <3>1. \A t \in Tx : [t EXCEPT !.status = "VERIFIED", !.key = r] \in Tx
        BY DEF Tx
    <3>2. tx' = [tx EXCEPT ![r] = [tx[r] EXCEPT !.status = "VERIFIED", !.key = r]]
        BY DEF Insert, NewKey, Inv, TypeOK
    <3> QED
        BY <3>1, <3>2 DEF Inv, TypeOK
  <2>2. pc' \in [Requests -> {"idle"} \cup InFlight \cup Answered]
      BY DEF Insert, Inv, TypeOK, InFlight
  <2>3. holder' \in [RefStays -> Requests \cup {NoRequest}]
      BY <1>1 DEF Insert, Inv, TypeOK
  <2> QED
      BY <2>1, <2>2, <2>3 DEF Insert, Inv, TypeOK, db
<1>3. \A q \in Requests \ {r} : pc'[q] = pc[q] /\ tx'[q] = tx[q]
    BY DEF Insert, Inv, TypeOK
<1>4. /\ pc'[r] = "commit" /\ tx'[r].key = NewKey(r) /\ tx'[r].status = "VERIFIED"
      /\ tx'[r].stay = tx[r].stay /\ tx'[r].fresh = tx[r].fresh
      /\ tx'[r].asked = tx[r].asked /\ tx'[r].seen = tx[r].seen
    BY DEF Insert, Inv, TypeOK, Tx
<1>5. Session(r)'
  <2>1. AskedFor(r)'
      BY <1>1, <1>4 DEF AskedFor, Session, KeysOf, Insert, db
  <2>2. tx[r].fresh => holder'[tx[r].stay] = r
      BY <1>1 DEF Insert, Inv, TypeOK
  <2>3. stays' = stays /\ NewKey(r)' = NewKey(r)
      BY DEF Insert, db, NewKey
  <2>4. Committing(r)'
      BY <1>1, <1>4, <2>2, <2>3 DEF Committing
  <2> QED
      BY <1>1, <1>4, <2>1, <2>4
      DEF Session, NothingCommitted, NoTxYet, NothingWritten, Looking, Issuing, Committed,
          Insert, db
<1>6. \A q \in Requests \ {r}, s \in RefStays : holder[s] = q => holder'[s] = q
    BY RoomKeysAssumption DEF Insert, Inv, TypeOK
<1> QED
    BY <1>2, <1>3, <1>5, <1>6, SessionStep DEF Insert

LEMMA IssueKeyInv ==
    ASSUME NEW r \in Requests, Inv, IssueKey(r)
    PROVE  Inv'
<1>1. CASE ~tx[r].fresh /\ Insert(r)
    BY <1>1, InsertInv DEF IssueKey
<1>2. CASE tx[r].fresh /\ holder[tx[r].stay] = NoRequest /\ tx[r].stay \notin stays /\ Insert(r)
    BY <1>2, InsertInv DEF IssueKey
<1>3. CASE Rollback(r, "failed")
    BY <1>3, RollbackInv DEF IssueKey
<1> QED
    BY <1>1, <1>2, <1>3 DEF IssueKey

LEMMA CheckInInv ==
    ASSUME NEW r \in Requests, Inv, CheckIn(r)
    PROVE  Inv'
<1>1. pc[r] = "lookup" /\ Session(r) /\ tx[r].asked = Unknown /\ ~tx[r].fresh
    BY DEF CheckIn, Inv, Session, Looking
<1>2. CASE Rollback(r, "refused")
    BY <1>1, <1>2, RollbackInv
<1>3. ASSUME tx[r].stay \in stays, NEW v \in {Verdict(e) : e \in Evidence},
             tx' = [tx EXCEPT ![r].status = v,
                              ![r].key = IF v = "verified" THEN NewKey(r) ELSE NoRequest],
             pc' = [pc EXCEPT ![r] = "commit"], UNCHANGED <<db, holder, given>>
      PROVE  Inv'
  <2>1. v \in {"verified", "rejected"}
      BY DEF Verdict
  <2>2. PICK k \in Requests \cup {NoRequest} :
          k = IF v = "verified" THEN r ELSE NoRequest
      OBVIOUS
  <2>3. tx' = [tx EXCEPT ![r] = [tx[r] EXCEPT !.status = v, !.key = k]]
      BY <1>3, <2>2 DEF NewKey, Inv, TypeOK
  <2>4. TypeOK'
    <3>1. \A t \in Tx : [t EXCEPT !.status = v, !.key = k] \in Tx
        BY <2>1 DEF Tx
    <3>2. tx' \in [Requests -> Tx]
        BY <2>3, <3>1 DEF Inv, TypeOK
    <3>3. pc' \in [Requests -> {"idle"} \cup InFlight \cup Answered]
        BY <1>3 DEF Inv, TypeOK, InFlight
    <3> QED
        BY <1>3, <3>2, <3>3 DEF Inv, TypeOK, db
  <2>5. \A q \in Requests \ {r} : pc'[q] = pc[q] /\ tx'[q] = tx[q]
      BY <1>3, <2>3 DEF Inv, TypeOK
  <2>6. /\ pc'[r] = "commit" /\ tx'[r].key = k /\ tx'[r].status = v
        /\ tx'[r].stay = tx[r].stay /\ tx'[r].fresh = tx[r].fresh
        /\ tx'[r].asked = tx[r].asked /\ tx'[r].seen = tx[r].seen
    <3>1. pc'[r] = "commit" /\ tx'[r] = [tx[r] EXCEPT !.status = v, !.key = k]
        BY <1>3, <2>3 DEF Inv, TypeOK
    <3>2. tx[r] \in Tx
        BY DEF Inv, TypeOK
    <3> QED
        BY <3>1, <3>2 DEF Tx
  <2>7. Session(r)'
    <3>1. NewKey(r)' = r
        BY DEF NewKey
    <3>2. Committing(r)'
        BY <1>1, <1>3, <2>1, <2>2, <2>6, <3>1 DEF Committing, db
    <3> QED
        BY <1>1, <1>3, <2>6, <3>2
        DEF Session, NothingCommitted, NoTxYet, NothingWritten, AskedFor, Looking, Issuing,
            Committed, db
  <2> QED
      BY <1>3, <2>4, <2>5, <2>7, SessionStep
<1> QED
    BY <1>2, <1>3 DEF CheckIn

-----------------------------------------------------------------------------
\* What a commit does to the tables: they grow, by at most the row and the key of r.
LEMMA CommitGrows ==
    ASSUME NEW r \in Requests, Inv, Commit(r)
    PROVE  /\ stays \subseteq stays' /\ keys \subseteq keys'
           /\ keys' \subseteq keys \cup {r} /\ r \notin keys
           /\ r \notin DOMAIN checkIns
           /\ DOMAIN checkIns' \subseteq DOMAIN checkIns \cup {r}
           /\ IF tx[r].status = "none"
              THEN stays' = stays /\ checkIns' = checkIns /\ keys' = keys
              ELSE /\ DOMAIN checkIns' = DOMAIN checkIns \cup {r}
                   /\ checkIns'[r] = CheckInRow(r)
                   /\ r \in keys' <=> tx[r].status # "rejected"
                   /\ tx[r].stay \in stays'
           /\ \A c \in DOMAIN checkIns : c \in DOMAIN checkIns' /\ checkIns'[c] = checkIns[c]
<1>1. Session(r) /\ r \notin DOMAIN checkIns /\ pc[r] = "commit"
    BY DEF Inv, Session, NothingCommitted, Commit
<1>2. r \notin keys
    BY <1>1 DEF Inv, Tables, KeyIffVerified
<1>3. tx[r] \in Tx
    BY DEF Inv, TypeOK
<1>4. CASE tx[r].status = "none"
  <2>1. tx[r].key \in keys /\ ~tx[r].fresh
      BY <1>1, <1>4 DEF Session, Committing, KeysOf
  <2>2. stays' = stays /\ checkIns' = checkIns /\ keys' = keys
      BY <1>2, <1>4, <2>1 DEF Commit, NewKey
  <2> QED
      BY <1>1, <1>2, <1>4, <2>2
<1>5. CASE tx[r].status # "none"
  <2>1. checkIns' = [c \in DOMAIN checkIns \cup {r} |->
                        IF c = r THEN CheckInRow(r) ELSE checkIns[c]]
      BY <1>5 DEF Commit
  <2>2. /\ DOMAIN checkIns' = DOMAIN checkIns \cup {r} /\ checkIns'[r] = CheckInRow(r)
        /\ \A c \in DOMAIN checkIns : c \in DOMAIN checkIns' /\ checkIns'[c] = checkIns[c]
      BY <1>1, <2>1
  <2>3. r \in keys' <=> tx[r].status # "rejected"
      BY <1>1, <1>2, <1>3, <1>5, RoomKeysAssumption DEF Commit, Session, Committing, NewKey, Tx
  <2>4. /\ stays \subseteq stays' /\ keys \subseteq keys' /\ keys' \subseteq keys \cup {r}
        /\ tx[r].stay \in stays'
      BY <1>1 DEF Commit, Session, Committing, NewKey
  <2> QED
      BY <1>1, <1>2, <1>5, <2>2, <2>3, <2>4
<1> QED
    BY <1>4, <1>5

LEMMA CommitInv ==
    ASSUME NEW r \in Requests, Inv, Commit(r)
    PROVE  Inv'
<1>1. /\ Session(r) /\ pc[r] = "commit" /\ tx[r] \in Tx
      /\ CheckInRow(r).stay = tx[r].stay /\ CheckInRow(r).status = tx[r].status
    BY DEF Inv, Commit, TypeOK, CheckInRow
<1>2. /\ pc'[r] = "done" /\ tx' = tx /\ given'[r] = tx[r].key
      /\ \A q \in Requests \ {r} : pc'[q] = pc[q] /\ given'[q] = given[q]
    BY DEF Commit, Inv, TypeOK
<1>3. \A s : KeysOf(s) \subseteq KeysOf(s)'
    BY CommitGrows DEF KeysOf, Inv, Tables, KeyIffVerified
<1>4. TypeOK'
  <2>1. stays' \subseteq StayIds
    <3>1. tx[r].fresh => tx[r].stay \in StayIds
        BY <1>1 DEF Session, Committing, StayIds
    <3> QED
        BY <3>1 DEF Commit, Inv, TypeOK
  <2>2. /\ DOMAIN checkIns' \subseteq Requests
        /\ \A c \in DOMAIN checkIns' :
               checkIns'[c] \in [stay : StayIds, status : {"VERIFIED", "verified", "rejected"}]
    <3>1. tx[r].status # "none" =>
              CheckInRow(r) \in [stay : StayIds, status : {"VERIFIED", "verified", "rejected"}]
        BY <1>1, <2>1, CommitGrows DEF CheckInRow, Tx
    <3>2. \A c \in DOMAIN checkIns' : c \in DOMAIN checkIns \/ c = r
        BY CommitGrows
    <3>3. \A c \in DOMAIN checkIns : checkIns'[c] = checkIns[c]
        BY CommitGrows
    <3>4. r \in DOMAIN checkIns' =>
              tx[r].status # "none" /\ checkIns'[r] = CheckInRow(r)
        BY CommitGrows
    <3>5. DOMAIN checkIns' \subseteq Requests
        BY <3>2 DEF Inv, TypeOK
    <3>6. ASSUME NEW c \in DOMAIN checkIns'
          PROVE  checkIns'[c] \in [stay : StayIds, status : {"VERIFIED", "verified", "rejected"}]
      <4>1. CASE c \in DOMAIN checkIns
          BY <4>1, <3>3 DEF Inv, TypeOK
      <4>2. CASE c = r
          BY <4>2, <3>1, <3>4, <3>6
      <4> QED
          BY <4>1, <4>2, <3>2
    <3> QED
        BY <3>5, <3>6
  <2>3. keys' \subseteq Requests
      BY CommitGrows DEF Inv, TypeOK
  <2>4. holder' \in [RefStays -> Requests \cup {NoRequest}]
      BY DEF Commit, Unlock, Inv, TypeOK
  <2>5. pc' \in [Requests -> {"idle"} \cup InFlight \cup Answered]
      BY DEF Commit, Inv, TypeOK, Answered
  <2>6. given' \in [Requests -> Requests \cup {NoRequest}]
      BY <1>1 DEF Commit, Inv, TypeOK, Tx
  <2> QED
      BY <1>2, <2>1, <2>2, <2>3, <2>4, <2>5, <2>6 DEF Inv, TypeOK
<1>5. KeyIffVerified'
  <2>1. CASE tx[r].status = "none"
      BY <2>1, CommitGrows DEF Inv, Tables, KeyIffVerified
  <2>2. CASE tx[r].status # "none"
    <3>1. /\ DOMAIN checkIns' = DOMAIN checkIns \cup {r} /\ r \notin DOMAIN checkIns
          /\ \A c \in DOMAIN checkIns : checkIns'[c] = checkIns[c]
          /\ checkIns'[r].stay = tx[r].stay /\ checkIns'[r].status = tx[r].status
          /\ tx[r].stay \in stays' /\ stays \subseteq stays'
        BY <1>1, <2>2, CommitGrows
    <3>2. /\ r \in keys' <=> tx[r].status # "rejected"
          /\ keys \subseteq keys' /\ keys' \subseteq keys \cup {r} /\ r \notin keys
        BY <2>2, CommitGrows
    <3> QED
        BY <3>1, <3>2 DEF Inv, Tables, KeyIffVerified
  <2> QED
      BY <2>1, <2>2
<1>6. StaysHaveKeys'
  <2>1. ASSUME NEW s \in RefStays, s \in stays' PROVE KeysOf(s)' # {}
    <3>1. CASE s \in stays
        BY <1>3, <3>1 DEF Inv, Tables, StaysHaveKeys
    <3>2. CASE s \notin stays
      <4>1. tx[r].fresh /\ s = tx[r].stay /\ tx[r].status = "VERIFIED"
          BY <1>1, <2>1, <3>2 DEF Commit, Session, Committing
      <4>2. r \in keys' /\ checkIns'[r].stay = s
          BY <1>1, <4>1, CommitGrows
      <4>3. r \in KeysOf(s)'
          BY <4>2 DEF KeysOf
      <4> QED
          BY <4>3
    <3> QED
        BY <3>1, <3>2
  <2> QED
      BY <2>1, CommitGrows DEF Inv, Tables, StaysHaveKeys
<1>7. OneKeyPerLegacyPurchase'
  <2>1. ASSUME NEW l \in keys, r \in keys', tx[r].status = "VERIFIED",
               tx[r].stay \in RefStays
        PROVE  checkIns[l].stay # tx[r].stay
      BY <1>1, <2>1 DEF Session, Committing, Inv, Tables, KeyIffVerified
  <2>2. r \in keys' => checkIns'[r].stay = tx[r].stay /\ checkIns'[r].status = tx[r].status
      BY <1>1, CommitGrows
  <2>3. \A k \in keys : checkIns'[k] = checkIns[k]
      BY CommitGrows DEF Inv, Tables, KeyIffVerified
  <2>4. keys' \subseteq keys \cup {r}
      BY CommitGrows
  <2> QED
      BY <2>1, <2>2, <2>3, <2>4 DEF Inv, Tables, OneKeyPerLegacyPurchase
<1>8. Session(r)'
  <2>1. AskedFor(r)'
      BY <1>1, <1>2, <1>3 DEF Session, AskedFor, StayOf
  <2>2. Committed(r)'
    <3>1. r \in DOMAIN checkIns' => checkIns'[r] = CheckInRow(r)'
        BY <1>2, CommitGrows DEF CheckInRow
    <3>2. tx[r].status = "VERIFIED" => tx[r].seen = {}
        BY <1>1 DEF Session, Committing
    <3>3. ASSUME tx[r].key # NoRequest
          PROVE  tx[r].key \in keys' /\ checkIns'[tx[r].key].stay = tx[r].stay
      <4>1. CASE tx[r].status = "none"
          BY <1>1, <4>1, CommitGrows DEF Session, Committing, KeysOf
      <4>2. CASE tx[r].status # "none"
        <5>1. tx[r].key = r /\ tx[r].status # "rejected"
            BY <1>1, <3>3, <4>2 DEF Session, Committing, NewKey, Tx
        <5> QED
            BY <1>1, <4>2, <5>1, CommitGrows
      <4> QED
          BY <4>1, <4>2
    <3> QED
        BY <1>2, <3>1, <3>2, <3>3 DEF Committed
  <2> QED
      BY <1>1, <1>2, <2>1, <2>2
      DEF Session, NothingCommitted, NoTxYet, NothingWritten, Looking, Issuing, Committing
<1>9. ASSUME NEW q \in Requests \ {r} PROVE Session(q)'
  <2>1. ASSUME pc[q] = "commit", tx[q].fresh
        PROVE  tx[q].stay \notin stays' /\ holder'[tx[q].stay] = q
    <3>1. tx[q].stay \in RefStays \ stays /\ holder[tx[q].stay] = q
        BY <2>1 DEF Inv, Session, Committing
    <3>2. tx[r].fresh => tx[r].stay # tx[q].stay
        BY <1>1, <3>1 DEF Session, Committing
    <3> QED
        BY <3>1, <3>2 DEF Commit, Unlock
  <2> QED
      BY <1>2, <2>1, CommitGrows, Undisturbed DEF Inv, Tables
<1> QED
    BY <1>4, <1>5, <1>6, <1>7, <1>8, <1>9 DEF Inv, Tables

-----------------------------------------------------------------------------
\* Inv is inductive.
LEMMA NextInv == Inv /\ [Next]_vars => Inv'
<1> SUFFICES ASSUME Inv, [Next]_vars PROVE Inv'
    OBVIOUS
<1>1. ASSUME NEW r \in Requests, AskKey(r) PROVE Inv'
    BY <1>1, AskKeyInv
<1>2. ASSUME NEW r \in Requests, ReceiveCheckIn(r) PROVE Inv'
    BY <1>2, ReceiveCheckInInv
<1>3. ASSUME NEW r \in Requests, Proceed(r) PROVE Inv'
    BY <1>3, FindStayInv, FindKeyInv, IssueKeyInv, CheckInInv, CommitInv DEF Proceed
<1>4. ASSUME NEW r \in Requests, Fail(r) PROVE Inv'
    BY <1>4, RollbackInv DEF Fail, InFlight
<1>5. CASE UNCHANGED vars
    BY <1>5
    DEF vars, db, Inv, TypeOK, Tables, KeyIffVerified, StaysHaveKeys,
        OneKeyPerLegacyPurchase, KeysOf, StayOf, Session, NothingCommitted, NoTxYet,
        NothingWritten, AskedFor, Looking, Issuing, Committing, Committed, CheckInRow, NewKey
<1> QED
    BY <1>1, <1>2, <1>3, <1>4, <1>5 DEF Next

LEMMA Invariant == Spec => []Inv
<1> QED
    BY InitInv, NextInv, PTL DEF Spec

\* The tables, locks and sessions of create_check_in and issue_hotel_key keep their
\* types, whatever requests and purchases there are.
THEOREM TypeCorrect == Spec => []TypeOK
<1>1. Inv => TypeOK
    BY DEF Inv
<1> QED
    BY Invariant, <1>1, PTL

\* In every committed state a check-in has a key exactly if it was verified, and its
\* stay exists: the rows of one request are committed together or not at all.
THEOREM KeysVerified == Spec => []KeyIffVerified
<1>1. Inv => KeyIffVerified
    BY DEF Inv, Tables
<1> QED
    BY Invariant, <1>1, PTL

\* However many requests race in issue_hotel_key, a purchase whose stay is found by
\* its external_ref gets one key: the unique constraint serialises the inserts.
THEOREM OneLegacyKey == Spec => []OneKeyPerLegacyPurchase
<1>1. Inv => OneKeyPerLegacyPurchase
    BY DEF Inv, Tables
<1> QED
    BY Invariant, <1>1, PTL

\* A key issued by issue_hotel_key is issued by a request that found none when it
\* arrived, so that a second key of one stay takes two requests that overlap.
THEOREM SecondKeysOverlap == Spec => []SecondKeyTakesOverlap
<1>1. Inv => SecondKeyTakesOverlap
  <2> SUFFICES ASSUME Inv, NEW k \in keys, checkIns[k].status = "VERIFIED"
               PROVE  tx[k].seen = {}
      BY DEF SecondKeyTakesOverlap
  <2>1. k \in DOMAIN checkIns /\ k \in Requests
      BY DEF Inv, Tables, KeyIffVerified, TypeOK
  <2>2. pc[k] = "done" /\ checkIns[k] = CheckInRow(k)
      BY <2>1 DEF Inv, Session, NothingCommitted, Committed
  <2> QED
      BY <2>1, <2>2 DEF Inv, Session, Committed, CheckInRow
<1> QED
    BY Invariant, <1>1, PTL

\* The key a request is answered with is committed and opens the stay it asked for.
THEOREM KeyOpensStay == Spec => []AnswerOpens
<1>1. Inv => AnswerOpens
  <2> SUFFICES ASSUME Inv, NEW r \in Requests, given[r] # NoRequest
               PROVE  /\ given[r] \in keys
                      /\ checkIns[given[r]].stay = tx[r].stay
                      /\ tx[r].asked # Unknown => tx[r].stay = StayOf(tx[r].asked)
      BY DEF AnswerOpens
  <2>1. pc[r] = "done"
      BY DEF Inv, Session, NothingCommitted
  <2> QED
      BY <2>1 DEF Inv, Session, Committed, AskedFor
<1> QED
    BY Invariant, <1>1, PTL

-----------------------------------------------------------------------------
(* PaxCards *)

CardRow == [frozen : BOOLEAN, programmed : BOOLEAN, controls : [Controls -> BOOLEAN]]
Settings == C!Requested \cup {<<>>}
CardSession == [op : {"none", "issue", "freeze", "program", "controls"}, asked : Settings,
                row : CardRow, seen : Nat, frozen : SUBSET BOOLEAN, programmed : SUBSET BOOLEAN,
                sets : Settings]
CardStages == {"idle", "load", "flush", "commit", "done", "refused", "failed"}
Token == [card : C!Cards, froze : BOOLEAN, late : BOOLEAN]

\* The types of the cards, their toggles and locks, and of the requests about them.
CardsTypeOK ==
    /\ DOMAIN cards \subseteq C!Cards /\ cards \in [DOMAIN cards -> CardRow]
    /\ flips \in [C!Cards -> Nat] /\ raced \subseteq C!Cards /\ tokens \subseteq Token
    /\ lock \in [C!Cards -> CardRequests \cup {Free}]
    /\ at \in [CardRequests -> CardStages]
    /\ session \in [CardRequests -> CardSession]
    /\ restarts \in Nat

\* Only a card that was issued is toggled, and a card is what its toggles say.
Toggled ==
    /\ \A c \in C!Cards \ DOMAIN cards : flips[c] = 0 /\ c \notin raced
    /\ \A c \in DOMAIN cards \ raced : cards[c].frozen <=> (flips[c] % 2 = 1)

\* What request r at stage p may rely on, with the session s and the row locks: the
\* copy it loaded is frozen like the card, as long as no toggle was committed since.
Editing(r, p, s, locks) ==
    LET c == CardOf[r] IN
    /\ p \notin {"load", "flush", "commit"} => s = C!CleanSession
    /\ p \in {"load", "flush"} => s.op # "issue"
    /\ p \in {"flush", "commit"} /\ s.op # "issue" =>
           /\ c \in DOMAIN cards /\ s.seen <= flips[c]
           /\ s.seen = flips[c] => (s.row.frozen <=> cards[c].frozen)
           /\ s.op = "program" => ~s.row.frozen
    /\ p = "commit" =>
           /\ s.op = "issue" => c \notin DOMAIN cards /\ locks[c] = r
           /\ s.op = "freeze" => s.frozen # {} /\ (TRUE \in s.frozen <=> ~s.row.frozen)
           /\ s.op # "freeze" => s.frozen = {}
           /\ \A k \in DOMAIN s.sets : k \in DOMAIN s.asked /\ s.sets[k] = s.asked[k]

EditsOK ==
    \A r \in CardRequests, p \in CardStages, s \in CardSession :
        at[r] = p /\ session[r] = s => Editing(r, p, s, lock)

CardsInv == CardsTypeOK /\ Toggled /\ FrozenTokenTakesOverlap /\ EditsOK

LEMMA SettingsOver ==
    /\ \A S \in SUBSET Controls : \A f \in [S -> BOOLEAN] : f \in Settings
    /\ \A f \in Settings : DOMAIN f \subseteq Controls /\ \A k \in DOMAIN f : f[k] \in BOOLEAN
    /\ <<>> \in Settings /\ DOMAIN <<>> = {}
<1>1. \A S \in SUBSET Controls : \A f \in [S -> BOOLEAN] : f \in C!Requested
  BY DEF C!Requested
<1>2. ASSUME NEW f \in Settings PROVE DOMAIN f \subseteq Controls /\ \A k \in DOMAIN f : f[k] \in BOOLEAN
  <2>1. CASE f \in C!Requested
    <3>1. PICK S \in SUBSET Controls : f \in [S -> BOOLEAN]
      BY <2>1 DEF C!Requested
    <3> QED
      BY <3>1
  <2>2. CASE f = <<>>
    BY <2>2
  <2> QED
    BY <2>1, <2>2 DEF Settings
<1> QED
  BY <1>1, <1>2 DEF Settings

LEMMA CardConstants ==
    /\ C!NewCard \in CardRow /\ C!NewCard.frozen = FALSE
    /\ C!CleanSession \in CardSession
    /\ C!CleanSession.op = "none" /\ C!CleanSession.frozen = {} /\ C!CleanSession.sets = <<>>
    /\ \A r \in CardRequests : CardOf[r] \in C!Cards
    /\ SeedCards \subseteq C!Cards
    /\ Free \notin CardRequests
<1>1. C!NewCard \in CardRow /\ C!NewCard.frozen = FALSE
  BY CredentialsAssumption DEF C!NewCard, CardRow, C!CardsAssumption
<1>2. C!CleanSession \in CardSession
  BY <1>1, SettingsOver DEF C!CleanSession, CardSession
<1>3. C!CleanSession.op = "none" /\ C!CleanSession.frozen = {} /\ C!CleanSession.sets = <<>>
  BY DEF C!CleanSession
<1> QED
  BY <1>1, <1>2, <1>3, CredentialsAssumption DEF C!Cards, C!CardsAssumption

\* A step of one request that commits nothing.
LEMMA CardStep ==
    ASSUME CardsInv, NEW r \in CardRequests, NEW p \in CardStages, NEW u \in CardSession,
           at' = [at EXCEPT ![r] = p], session' = [session EXCEPT ![r] = u],
           lock' \in [C!Cards -> CardRequests \cup {Free}],
           \A c \in C!Cards : lock'[c] = lock[c] \/ lock[c] = r \/ lock[c] = Free,
           UNCHANGED <<cards, flips, raced, tokens, restarts>>, Editing(r, p, u, lock')
    PROVE  CardsInv'
<1>1. CardsTypeOK'
  BY DEF CardsInv, CardsTypeOK
<1>2. Toggled' /\ FrozenTokenTakesOverlap'
  BY DEF CardsInv, Toggled, FrozenTokenTakesOverlap, C!FrozenTokenTakesOverlap
<1>3. EditsOK'
  <2> SUFFICES ASSUME NEW q \in CardRequests, NEW l \in CardStages, NEW s \in CardSession,
                      at'[q] = l, session'[q] = s
               PROVE  Editing(q, l, s, lock)'
    BY DEF EditsOK
  <2>1. CASE q = r
    <3>1. l = p /\ s = u
      BY <2>1 DEF CardsInv, CardsTypeOK
    <3> QED
      BY <2>1, <3>1 DEF Editing
  <2>2. CASE q # r
    <3>1. at[q] = l /\ session[q] = s
      BY <2>2 DEF CardsInv, CardsTypeOK
    <3>2. Editing(q, l, s, lock)
      BY <3>1 DEF CardsInv, EditsOK
    <3>3. lock[CardOf[q]] = q => lock'[CardOf[q]] = q
      BY <2>2, CardConstants
    <3> QED
      BY <3>2, <3>3 DEF Editing
  <2> QED
    BY <2>1, <2>2
<1> QED
  BY <1>1, <1>2, <1>3 DEF CardsInv

\* Where a request stands.
LEMMA CardNow ==
    ASSUME CardsInv, NEW r \in CardRequests
    PROVE  \E s \in CardSession :
               /\ s = session[r] /\ at[r] \in CardStages /\ Editing(r, at[r], s, lock)
               /\ CardOf[r] \in C!Cards
BY CardConstants DEF CardsInv, CardsTypeOK, EditsOK

LEMMA CardRollback ==
    ASSUME CardsInv, NEW r \in CardRequests, NEW answer \in {"refused", "failed"},
           C!Rollback(r, answer)
    PROVE  CardsInv'
<1>1. /\ at' = [at EXCEPT ![r] = answer] /\ session' = [session EXCEPT ![r] = C!CleanSession]
      /\ lock' = [c \in C!Cards |-> IF lock[c] = r THEN Free ELSE lock[c]]
      /\ UNCHANGED <<cards, flips, raced, tokens, restarts>>
  BY DEF C!Rollback, C!Unlock, C!table
<1>2. /\ lock' \in [C!Cards -> CardRequests \cup {Free}]
      /\ \A c \in C!Cards : lock'[c] = lock[c] \/ lock[c] = r \/ lock[c] = Free
  BY <1>1 DEF CardsInv, CardsTypeOK
<1>3. answer \in CardStages /\ Editing(r, answer, C!CleanSession, lock')
  BY DEF CardStages, Editing
<1> QED
  BY <1>1, <1>2, <1>3, CardConstants, CardStep

LEMMA IssueCardStep == ASSUME CardsInv, NEW r \in CardRequests, C!IssueCard(r) PROVE CardsInv'
<1>1. PICK s \in CardSession : s = session[r] /\ Editing(r, at[r], s, lock) /\ CardOf[r] \in C!Cards
  BY CardNow
<1>2. /\ at[r] = "idle" /\ CardOf[r] \notin DOMAIN cards /\ lock[CardOf[r]] = Free
      /\ session' = [session EXCEPT ![r].op = "issue"]
      /\ lock' = [lock EXCEPT ![CardOf[r]] = r] /\ at' = [at EXCEPT ![r] = "commit"]
      /\ UNCHANGED <<cards, flips, raced, tokens, restarts>>
  BY DEF C!IssueCard, C!table
<1> DEFINE u == [s EXCEPT !.op = "issue"]
<1>3. session' = [session EXCEPT ![r] = u]
  BY <1>1, <1>2
<1>4. u \in CardSession /\ u.op = "issue" /\ u.sets = s.sets /\ u.frozen = s.frozen
  BY DEF CardSession
<1> HIDE DEF u
<1>5. s.sets = <<>> /\ s.frozen = {}
  BY <1>1, <1>2, CardConstants DEF Editing
<1>6. /\ lock' \in [C!Cards -> CardRequests \cup {Free}]
      /\ \A c \in C!Cards : lock'[c] = lock[c] \/ lock[c] = r \/ lock[c] = Free
      /\ lock'[CardOf[r]] = r
  BY <1>1, <1>2 DEF CardsInv, CardsTypeOK
<1>7. Editing(r, "commit", u, lock')
  BY <1>2, <1>4, <1>5, <1>6, SettingsOver DEF Editing
<1> QED
  BY <1>2, <1>3, <1>4, <1>6, <1>7, CardStep DEF CardStages

LEMMA AskCardStep == ASSUME CardsInv, NEW r \in CardRequests, C!AskCard(r) PROVE CardsInv'
<1>1. PICK s \in CardSession : s = session[r]
  BY CardNow
<1>2. /\ at' = [at EXCEPT ![r] = "load"] /\ UNCHANGED <<cards, flips, raced, tokens, lock, restarts>>
  BY DEF C!AskCard, C!table
<1>3. PICK u \in CardSession : session' = [session EXCEPT ![r] = u] /\ u.op # "issue"
  <2>1. CASE session' = [session EXCEPT ![r].op = "freeze"]
    <3> DEFINE u == [s EXCEPT !.op = "freeze"]
    <3>1. session' = [session EXCEPT ![r] = u]
      BY <1>1, <2>1
    <3>2. u \in CardSession /\ u.op = "freeze"
      BY DEF CardSession
    <3> HIDE DEF u
    <3> QED
      BY <3>1, <3>2
  <2>2. CASE session' = [session EXCEPT ![r].op = "program"]
    <3> DEFINE u == [s EXCEPT !.op = "program"]
    <3>1. session' = [session EXCEPT ![r] = u]
      BY <1>1, <2>2
    <3>2. u \in CardSession /\ u.op = "program"
      BY DEF CardSession
    <3> HIDE DEF u
    <3> QED
      BY <3>1, <3>2
  <2>3. CASE \E asked \in C!Requested :
                session' = [session EXCEPT ![r].op = "controls", ![r].asked = asked]
    <3>1. PICK asked \in Settings :
              session' = [session EXCEPT ![r].op = "controls", ![r].asked = asked]
      BY <2>3 DEF Settings
    <3> DEFINE u == [s EXCEPT !.op = "controls", !.asked = asked]
    <3>2. session' = [session EXCEPT ![r] = u]
      BY <1>1, <3>1
    <3>3. u \in CardSession /\ u.op = "controls"
      BY DEF CardSession
    <3> HIDE DEF u
    <3> QED
      BY <3>2, <3>3
  <2> QED
    BY <2>1, <2>2, <2>3 DEF C!AskCard
<1>4. Editing(r, "load", u, lock')
  BY <1>3 DEF Editing
<1>5. lock' \in [C!Cards -> CardRequests \cup {Free}]
  BY <1>2 DEF CardsInv, CardsTypeOK
<1> QED
  BY <1>2, <1>3, <1>4, <1>5, CardStep DEF CardStages

LEMMA LoadCardStep == ASSUME CardsInv, NEW r \in CardRequests, C!LoadCard(r) PROVE CardsInv'
<1>1. PICK s \in CardSession : s = session[r] /\ Editing(r, at[r], s, lock) /\ CardOf[r] \in C!Cards
  BY CardNow
<1> DEFINE c == CardOf[r]
<1>2. CASE C!Rollback(r, "refused")
  BY <1>2, CardRollback
<1>3. CASE ~C!Rollback(r, "refused")
  <2>1. /\ at[r] = "load" /\ c \in DOMAIN cards /\ ~(s.op = "program" /\ cards[c].frozen)
        /\ session' = [session EXCEPT ![r].row = cards[c], ![r].seen = flips[c]]
        /\ at' = [at EXCEPT ![r] = "flush"]
        /\ UNCHANGED <<cards, flips, raced, tokens, lock, restarts>>
    BY <1>1, <1>3 DEF C!LoadCard, C!table
  <2> DEFINE u == [s EXCEPT !.row = cards[c], !.seen = flips[c]]
  <2>2. session' = [session EXCEPT ![r] = u]
    BY <1>1, <2>1
  <2>3. cards[c] \in CardRow /\ flips[c] \in Nat
    BY <1>1, <2>1 DEF CardsInv, CardsTypeOK
  <2>4. u \in CardSession /\ u.op = s.op /\ u.row = cards[c] /\ u.seen = flips[c]
    BY <2>3 DEF CardSession
  <2> HIDE DEF u
  <2>5. Editing(r, "flush", u, lock')
    BY <1>1, <2>1, <2>3, <2>4 DEF Editing
  <2>6. lock' \in [C!Cards -> CardRequests \cup {Free}]
    BY <2>1 DEF CardsInv, CardsTypeOK
  <2> QED
    BY <2>1, <2>2, <2>4, <2>5, <2>6, CardStep DEF CardStages
<1> QED
  BY <1>2, <1>3

\* The columns a flush writes are those of its request.
LEMMA FlushCardStep == ASSUME CardsInv, NEW r \in CardRequests, C!FlushCard(r) PROVE CardsInv'
<1>1. PICK s \in CardSession : s = session[r] /\ Editing(r, at[r], s, lock) /\ CardOf[r] \in C!Cards
  BY CardNow
<1> DEFINE c == CardOf[r]
           frozen == IF s.op = "freeze" THEN {C!FreezeTo(s.row)} ELSE {}
           programmed == IF s.op = "program" THEN {TRUE} \ {s.row.programmed} ELSE {}
           sets == IF s.op = "controls" THEN C!Changed(r) ELSE <<>>
           u == [s EXCEPT !.frozen = frozen, !.programmed = programmed, !.sets = sets]
<1>2. /\ at[r] = "flush" /\ at' = [at EXCEPT ![r] = "commit"]
      /\ session' = [session EXCEPT ![r] = u]
      /\ lock' = lock \/ (lock[c] \in {Free, r} /\ lock' = [lock EXCEPT ![c] = r])
      /\ UNCHANGED <<cards, flips, raced, tokens, restarts>>
  BY <1>1 DEF C!FlushCard, C!table
<1>3. /\ frozen \in SUBSET BOOLEAN
      /\ s.op = "freeze" => frozen # {} /\ (TRUE \in frozen <=> ~s.row.frozen)
      /\ s.op # "freeze" => frozen = {}
  <2>1. s.row.frozen \in BOOLEAN
    BY DEF CardSession, CardRow
  <2>2. C!FreezeTo(s.row) \in BOOLEAN /\ (C!FreezeTo(s.row) <=> ~s.row.frozen)
    BY <2>1 DEF C!FreezeTo
  <2> QED
    BY <2>2
<1>4. programmed \in SUBSET BOOLEAN
  OBVIOUS
<1>5. /\ sets \in Settings
      /\ \A k \in DOMAIN sets : k \in DOMAIN s.asked /\ sets[k] = s.asked[k]
  <2>1. CASE s.op = "controls"
    <3> DEFINE S == {k \in DOMAIN s.asked : s.asked[k] # s.row.controls[k]}
    <3>1. sets = [k \in S |-> s.asked[k]]
      BY <1>1, <2>1 DEF C!Changed
    <3>2. s.asked \in Settings
      BY DEF CardSession
    <3>3. S \in SUBSET Controls /\ [k \in S |-> s.asked[k]] \in [S -> BOOLEAN]
      BY <3>2, SettingsOver
    <3> HIDE DEF sets
    <3> QED
      BY <3>1, <3>3, SettingsOver
  <2>2. CASE s.op # "controls"
    BY <2>2, SettingsOver
  <2> QED
    BY <2>1, <2>2
<1> HIDE DEF frozen, programmed, sets
<1>6. /\ u \in CardSession /\ u.op = s.op /\ u.row = s.row /\ u.seen = s.seen /\ u.asked = s.asked
      /\ u.frozen = frozen /\ u.sets = sets
  BY <1>3, <1>4, <1>5 DEF CardSession
<1> HIDE DEF u
<1>7. Editing(r, "commit", u, lock')
  BY <1>1, <1>2, <1>3, <1>5, <1>6 DEF Editing
<1>8. /\ lock' \in [C!Cards -> CardRequests \cup {Free}]
      /\ \A d \in C!Cards : lock'[d] = lock[d] \/ lock[d] = r \/ lock[d] = Free
  BY <1>1, <1>2 DEF CardsInv, CardsTypeOK
<1> QED
  BY <1>2, <1>6, <1>7, <1>8, CardStep DEF CardStages

\* The row that is committed: a new card, the toggled one, or one as frozen as it was.
LEMMA RowCommitted ==
    ASSUME CardsInv, NEW r \in CardRequests, NEW s \in CardSession, s = session[r],
           Editing(r, "commit", s, lock)
    PROVE  /\ C!Row(r) \in CardRow
           /\ s.op = "issue" => ~C!Row(r).frozen
           /\ s.op = "freeze" => (C!Row(r).frozen <=> ~s.row.frozen)
           /\ s.op \notin {"issue", "freeze"} => (C!Row(r).frozen <=> cards[CardOf[r]].frozen)
<1> DEFINE old == cards[CardOf[r]]
           frozen == IF s.frozen = {} THEN old.frozen ELSE TRUE \in s.frozen
           programmed == old.programmed \/ s.programmed # {}
           controls == [k \in Controls |-> IF k \in DOMAIN s.sets THEN s.sets[k] ELSE old.controls[k]]
           new == [frozen |-> frozen, programmed |-> programmed, controls |-> controls]
<1>1. CASE s.op = "issue"
  <2>1. C!Row(r) = C!NewCard
    BY <1>1 DEF C!Row
  <2> QED
    BY <1>1, <2>1, CardConstants
<1>2. CASE s.op # "issue"
  <2>1. C!Row(r) = new
    BY <1>2 DEF C!Row
  <2>2. old \in CardRow
    BY <1>2 DEF Editing, CardsInv, CardsTypeOK
  <2>3. frozen \in BOOLEAN
    <3>1. old.frozen \in BOOLEAN
      BY <2>2 DEF CardRow
    <3>2. (TRUE \in s.frozen) \in BOOLEAN
      OBVIOUS
    <3> HIDE DEF old
    <3>3. CASE s.frozen = {}
      BY <3>1, <3>3
    <3>4. CASE s.frozen # {}
      <4>1. frozen = (TRUE \in s.frozen)
        BY <3>4
      <4> HIDE DEF frozen
      <4> QED
        BY <3>2, <4>1, Zenon
    <3> QED
      BY <3>3, <3>4
  <2>4. programmed \in BOOLEAN
    OBVIOUS
  <2>5. controls \in [Controls -> BOOLEAN]
    <3>1. \A k \in DOMAIN s.sets : s.sets[k] \in BOOLEAN
      BY SettingsOver DEF CardSession
    <3> QED
      BY <2>2, <3>1 DEF CardRow
  <2>6. /\ s.op = "freeze" => (frozen <=> ~s.row.frozen)
        /\ s.op # "freeze" => (frozen <=> old.frozen)
    BY <2>2 DEF Editing, CardRow
  <2> HIDE DEF frozen, programmed, controls, old
  <2>7. new \in CardRow /\ new.frozen = frozen
    BY <2>3, <2>4, <2>5 DEF CardRow
  <2> HIDE DEF new
  <2> QED
    BY <1>2, <2>1, <2>6, <2>7 DEF old
<1> QED
  BY <1>1, <1>2

LEMMA CommitCardStep == ASSUME CardsInv, NEW r \in CardRequests, C!CommitCard(r) PROVE CardsInv'
<1>1. PICK s \in CardSession : s = session[r] /\ Editing(r, at[r], s, lock) /\ CardOf[r] \in C!Cards
  BY CardNow
<1> DEFINE c == CardOf[r]
           new == C!Row(r)
<1>2. /\ at[r] = "commit" /\ at' = [at EXCEPT ![r] = "done"]
      /\ session' = [session EXCEPT ![r] = C!CleanSession]
      /\ cards' = [d \in DOMAIN cards \cup {c} |-> IF d = c THEN new ELSE cards[d]]
      /\ flips' = IF s.op = "freeze" THEN [flips EXCEPT ![c] = @ + 1] ELSE flips
      /\ raced' = IF s.op = "freeze" /\ flips[c] # s.seen THEN raced \cup {c} ELSE raced
      /\ tokens' = IF s.op = "program"
                   THEN tokens \cup {[card |-> c, froze |-> cards[c].frozen, late |-> flips[c] # s.seen]}
                   ELSE tokens
      /\ lock' = [d \in C!Cards |-> IF lock[d] = r THEN Free ELSE lock[d]]
      /\ UNCHANGED restarts
  BY <1>1 DEF C!CommitCard, C!Unlock
<1>3. /\ new \in CardRow
      /\ s.op = "issue" => ~new.frozen
      /\ s.op = "freeze" => (new.frozen <=> ~s.row.frozen)
      /\ s.op \notin {"issue", "freeze"} => (new.frozen <=> cards[c].frozen)
  BY <1>1, <1>2, RowCommitted
<1>4. /\ s.op # "issue" => /\ c \in DOMAIN cards /\ s.seen <= flips[c]
                           /\ s.seen = flips[c] => (s.row.frozen <=> cards[c].frozen)
                           /\ s.op = "program" => ~s.row.frozen
      /\ s.op = "issue" => c \notin DOMAIN cards /\ lock[c] = r
  BY <1>1, <1>2 DEF Editing
<1> HIDE DEF new
<1>5. /\ DOMAIN cards' = DOMAIN cards \cup {c} /\ cards'[c] = new
      /\ \A d \in DOMAIN cards \ {c} : cards'[d] = cards[d]
  BY <1>2
<1>6. /\ flips' \in [C!Cards -> Nat]
      /\ flips'[c] = IF s.op = "freeze" THEN flips[c] + 1 ELSE flips[c]
      /\ \A d \in C!Cards \ {c} : flips'[d] = flips[d]
      /\ flips[c] \in Nat /\ s.seen \in Nat
  BY <1>1, <1>2 DEF CardsInv, CardsTypeOK, CardSession
<1>7. tokens' \subseteq Token /\ FrozenTokenTakesOverlap'
  <2>1. CASE s.op = "program"
    <3> DEFINE froze == cards[c].frozen
               late == flips[c] # s.seen
               t == [card |-> c, froze |-> froze, late |-> late]
    <3>1. froze \in BOOLEAN /\ (froze => late)
      BY <1>4, <2>1 DEF CardsInv, CardsTypeOK, CardRow
    <3>2. late \in BOOLEAN
      OBVIOUS
    <3>3. tokens' = tokens \cup {t}
      BY <1>2, <2>1
    <3> HIDE DEF froze, late
    <3>4. t \in Token /\ (t.froze => t.late)
      BY <1>1, <3>1, <3>2 DEF Token
    <3> HIDE DEF t
    <3> QED
      BY <3>3, <3>4 DEF CardsInv, CardsTypeOK, FrozenTokenTakesOverlap, C!FrozenTokenTakesOverlap
  <2>2. CASE s.op # "program"
    BY <1>2, <2>2 DEF CardsInv, CardsTypeOK, FrozenTokenTakesOverlap, C!FrozenTokenTakesOverlap
  <2> QED
    BY <2>1, <2>2
<1>8. CardsTypeOK'
  <2>1. DOMAIN cards' \subseteq C!Cards /\ cards' \in [DOMAIN cards' -> CardRow]
    BY <1>1, <1>2, <1>3, <1>5 DEF CardsInv, CardsTypeOK
  <2>2. raced' \subseteq C!Cards /\ lock' \in [C!Cards -> CardRequests \cup {Free}] /\ restarts' \in Nat
    BY <1>1, <1>2 DEF CardsInv, CardsTypeOK
  <2>3. at' \in [CardRequests -> CardStages] /\ session' \in [CardRequests -> CardSession]
    BY <1>2, CardConstants DEF CardsInv, CardsTypeOK, CardStages
  <2> QED
    BY <1>6, <1>7, <2>1, <2>2, <2>3 DEF CardsTypeOK
<1>9. Toggled'
  <2>1. ASSUME NEW d \in C!Cards \ DOMAIN cards' PROVE flips'[d] = 0 /\ d \notin raced'
    BY <1>2, <1>5, <1>6 DEF CardsInv, Toggled
  <2>2. ASSUME NEW d \in DOMAIN cards' \ raced' PROVE cards'[d].frozen <=> (flips'[d] % 2 = 1)
    <3>1. CASE d # c
      <4>1. d \in DOMAIN cards \ raced /\ d \in C!Cards
        BY <1>2, <1>5, <2>2, <3>1 DEF CardsInv, CardsTypeOK
      <4> QED
        BY <1>5, <1>6, <3>1, <4>1 DEF CardsInv, Toggled
    <3>2. CASE d = c /\ s.op = "issue"
      <4>1. flips'[c] = 0
        BY <1>1, <1>4, <1>6, <3>2 DEF CardsInv, Toggled
      <4> QED
        BY <1>3, <1>5, <3>2, <4>1
    <3>3. CASE d = c /\ s.op = "freeze"
      <4>1. flips[c] = s.seen /\ c \notin raced /\ c \in DOMAIN cards
        BY <1>2, <1>4, <2>2, <3>3
      <4>2. s.row.frozen <=> (flips[c] % 2 = 1)
        BY <1>4, <3>3, <4>1 DEF CardsInv, Toggled
      <4>3. (flips[c] + 1) % 2 = 1 <=> ~(flips[c] % 2 = 1)
        BY <1>6
      <4> QED
        BY <1>3, <1>5, <1>6, <3>3, <4>2, <4>3
    <3>4. CASE d = c /\ s.op \notin {"issue", "freeze"}
      <4>1. c \notin raced /\ c \in DOMAIN cards
        BY <1>2, <1>4, <2>2, <3>4
      <4>2. cards[c].frozen <=> (flips[c] % 2 = 1)
        BY <4>1 DEF CardsInv, Toggled
      <4> QED
        BY <1>3, <1>5, <1>6, <3>4, <4>2
    <3> QED
      BY <3>1, <3>2, <3>3, <3>4
  <2> QED
    BY <2>1, <2>2 DEF Toggled
<1>10. EditsOK'
  <2> SUFFICES ASSUME NEW q \in CardRequests, NEW p \in CardStages, NEW u \in CardSession,
                      at'[q] = p, session'[q] = u
               PROVE  Editing(q, p, u, lock)'
    BY DEF EditsOK
  <2>1. CASE q = r
    <3>1. p = "done" /\ u = C!CleanSession
      BY <1>2, <2>1 DEF CardsInv, CardsTypeOK
    <3> QED
      BY <3>1 DEF Editing
  <2>2. CASE q # r
    <3> DEFINE d == CardOf[q]
    <3>1. at[q] = p /\ session[q] = u
      BY <1>2, <2>2 DEF CardsInv, CardsTypeOK
    <3>2. Editing(q, p, u, lock) /\ d \in C!Cards
      BY <3>1, CardConstants DEF CardsInv, EditsOK
    <3>3. ASSUME p \in {"flush", "commit"}, u.op # "issue"
          PROVE  /\ d \in DOMAIN cards' /\ u.seen <= flips'[d]
                 /\ u.seen = flips'[d] => (u.row.frozen <=> cards'[d].frozen)
                 /\ u.op = "program" => ~u.row.frozen
      <4>1. /\ d \in DOMAIN cards /\ u.seen <= flips[d] /\ flips[d] \in Nat /\ u.seen \in Nat
            /\ u.seen = flips[d] => (u.row.frozen <=> cards[d].frozen)
            /\ u.op = "program" => ~u.row.frozen
        BY <3>2, <3>3 DEF Editing, CardsInv, CardsTypeOK, CardSession
      <4>2. CASE d # c
        BY <1>5, <1>6, <3>2, <4>1, <4>2
      <4>3. CASE d = c
        <5>1. s.op # "issue"
          BY <1>4, <4>1, <4>3
        <5>2. CASE s.op = "freeze"
          BY <1>5, <1>6, <4>1, <4>3, <5>2
        <5>3. CASE s.op # "freeze"
          BY <1>3, <1>5, <1>6, <4>1, <4>3, <5>1, <5>3
        <5> QED
          BY <5>2, <5>3
      <4> QED
        BY <4>2, <4>3
    <3>4. p = "commit" /\ u.op = "issue" => d \notin DOMAIN cards' /\ lock'[d] = q
      <4> SUFFICES ASSUME p = "commit", u.op = "issue" PROVE d \notin DOMAIN cards' /\ lock'[d] = q
        OBVIOUS
      <4>1. d \notin DOMAIN cards /\ lock[d] = q
        BY <3>2 DEF Editing
      <4>2. d # c
        BY <1>4, <2>2, <4>1
      <4> QED
        BY <1>2, <1>5, <2>2, <3>2, <4>1, <4>2
    <3> QED
      BY <3>2, <3>3, <3>4 DEF Editing
  <2> QED
    BY <2>1, <2>2
<1> QED
  BY <1>7, <1>8, <1>9, <1>10 DEF CardsInv

\* The seed thaws its cards, and their toggles are counted anew.
LEMMA RestartStep == ASSUME CardsInv, C!Restart PROVE CardsInv'
<1>1. /\ restarts' = restarts + 1
      /\ cards' = [c \in DOMAIN cards |-> IF c \in SeedCards THEN C!SeedRow(c) ELSE cards[c]]
      /\ flips' = [c \in C!Cards |-> IF c \in SeedCards THEN 0 ELSE flips[c]]
      /\ raced' = raced \ SeedCards
      /\ at' = [r \in CardRequests |-> IF at[r] \in C!Busy THEN "failed" ELSE at[r]]
      /\ session' = [r \in CardRequests |-> C!CleanSession]
      /\ lock' = [c \in C!Cards |-> Free]
      /\ UNCHANGED tokens
  BY DEF C!Restart
<1>2. \A c \in DOMAIN cards : /\ cards[c] \in CardRow
                              /\ C!SeedRow(c) \in CardRow /\ C!SeedRow(c).frozen = FALSE
  BY DEF C!SeedRow, CardRow, CardsInv, CardsTypeOK
<1>3. \A r \in CardRequests : at'[r] \in CardStages \ {"load", "flush", "commit"}
  BY <1>1 DEF C!Busy, CardStages, CardsInv, CardsTypeOK
<1>4. CardsTypeOK'
  <2>1. DOMAIN cards' \subseteq C!Cards /\ cards' \in [DOMAIN cards' -> CardRow]
    BY <1>1, <1>2 DEF CardsInv, CardsTypeOK
  <2>2. /\ flips' \in [C!Cards -> Nat] /\ raced' \subseteq C!Cards /\ tokens' \subseteq Token
        /\ lock' \in [C!Cards -> CardRequests \cup {Free}] /\ restarts' \in Nat
    BY <1>1 DEF CardsInv, CardsTypeOK
  <2>3. session' \in [CardRequests -> CardSession]
    BY <1>1, CardConstants
  <2>4. at' \in [CardRequests -> CardStages]
    BY <1>1, <1>3
  <2> QED
    BY <2>1, <2>2, <2>3, <2>4 DEF CardsTypeOK
<1>5. Toggled'
  <2>1. DOMAIN cards' = DOMAIN cards /\ DOMAIN cards \subseteq C!Cards
    BY <1>1 DEF CardsInv, CardsTypeOK
  <2>2. ASSUME NEW c \in C!Cards \ DOMAIN cards PROVE flips'[c] = 0 /\ c \notin raced'
    BY <1>1, <2>2 DEF CardsInv, Toggled
  <2>3. ASSUME NEW c \in DOMAIN cards \ raced' PROVE cards'[c].frozen <=> (flips'[c] % 2 = 1)
    <3>1. CASE c \in SeedCards
      <4>1. cards'[c].frozen = FALSE /\ flips'[c] = 0
        BY <1>1, <1>2, <2>1, <3>1
      <4> QED
        BY <4>1
    <3>2. CASE c \notin SeedCards
      <4>1. cards'[c] = cards[c] /\ flips'[c] = flips[c] /\ c \notin raced
        BY <1>1, <2>1, <2>3, <3>2
      <4> QED
        BY <2>3, <4>1 DEF CardsInv, Toggled
    <3> QED
      BY <3>1, <3>2
  <2> QED
    BY <2>1, <2>2, <2>3 DEF Toggled
<1>6. FrozenTokenTakesOverlap'
  BY <1>1 DEF CardsInv, FrozenTokenTakesOverlap, C!FrozenTokenTakesOverlap
<1>7. EditsOK'
  <2> SUFFICES ASSUME NEW q \in CardRequests, NEW p \in CardStages, NEW u \in CardSession,
                      at'[q] = p, session'[q] = u
               PROVE  Editing(q, p, u, lock)'
    BY DEF EditsOK
  <2> QED
    BY <1>1, <1>3 DEF Editing
<1> QED
  BY <1>4, <1>5, <1>6, <1>7 DEF CardsInv

LEMMA CardsStart == C!Init => CardsInv
<1> SUFFICES ASSUME C!Init PROVE CardsInv
  OBVIOUS
<1>1. CardsTypeOK
  BY CardConstants DEF C!Init, CardsTypeOK, CardStages
<1>2. Toggled
  BY CardConstants DEF C!Init, Toggled
<1>3. FrozenTokenTakesOverlap
  BY DEF C!Init, FrozenTokenTakesOverlap, C!FrozenTokenTakesOverlap
<1>4. EditsOK
  <2> SUFFICES ASSUME NEW q \in CardRequests, NEW p \in CardStages, NEW u \in CardSession,
                      at[q] = p, session[q] = u
               PROVE  Editing(q, p, u, lock)
    BY DEF EditsOK
  <2>1. p = "idle" /\ u = C!CleanSession
    BY DEF C!Init
  <2> QED
    BY <2>1 DEF Editing
<1> QED
  BY <1>1, <1>2, <1>3, <1>4 DEF CardsInv

LEMMA CardsInvariance == CredentialsSpec => []CardsInv
<1>1. CredentialsInit => CardsInv
  BY CardsStart DEF CredentialsInit
<1>2. ASSUME CardsInv, [CredentialsNext]_credentialVars PROVE CardsInv'
  <2>1. ASSUME NEW r \in CardRequests, C!IssueCard(r) PROVE CardsInv'
    BY <1>2, <2>1, IssueCardStep
  <2>2. ASSUME NEW r \in CardRequests, C!AskCard(r) PROVE CardsInv'
    BY <1>2, <2>2, AskCardStep
  <2>3. ASSUME NEW r \in CardRequests, C!LoadCard(r) PROVE CardsInv'
    BY <1>2, <2>3, LoadCardStep
  <2>4. ASSUME NEW r \in CardRequests, C!FlushCard(r) PROVE CardsInv'
    BY <1>2, <2>4, FlushCardStep
  <2>5. ASSUME NEW r \in CardRequests, C!CommitCard(r) PROVE CardsInv'
    BY <1>2, <2>5, CommitCardStep
  <2>6. ASSUME NEW r \in CardRequests, C!FailCard(r) PROVE CardsInv'
    BY <1>2, <2>6, CardRollback DEF C!FailCard
  <2>7. CASE C!Restart
    BY <1>2, <2>7, RestartStep
  <2>8. CASE UNCHANGED cardVars
    <3>1. UNCHANGED <<cards, flips, raced, tokens, lock, at, session, restarts>>
      BY <2>8 DEF cardVars
    <3>2. CardsTypeOK' /\ Toggled'
      BY <1>2, <3>1 DEF CardsInv, CardsTypeOK, Toggled
    <3>3. FrozenTokenTakesOverlap'
      BY <1>2, <3>1 DEF CardsInv, FrozenTokenTakesOverlap, C!FrozenTokenTakesOverlap
    <3>4. EditsOK'
      <4> SUFFICES ASSUME NEW q \in CardRequests, NEW p \in CardStages, NEW u \in CardSession,
                          at'[q] = p, session'[q] = u
                   PROVE  Editing(q, p, u, lock)'
        BY DEF EditsOK
      <4>1. Editing(q, p, u, lock)
        BY <1>2, <3>1 DEF CardsInv, EditsOK
      <4> QED
        BY <3>1, <4>1 DEF Editing
    <3> QED
      BY <3>2, <3>3, <3>4 DEF CardsInv
  <2>9. C!Next \/ UNCHANGED cardVars
    BY <1>2 DEF CredentialsNext, credentialVars
  <2> QED
    BY <2>1, <2>2, <2>3, <2>4, <2>5, <2>6, <2>7, <2>8, <2>9 DEF C!Next
<1> QED
  BY <1>1, <1>2, PTL DEF CredentialsSpec

\* The tables, locks and requests of PaxCards keep their types.
THEOREM CardsTyped == CredentialsSpec => []CardsTypeOK
BY CardsInvariance, PTL DEF CardsInv

\* freeze_card negates a copy.  Even so a card is frozen exactly if it was toggled an odd
\* number of times, except one of which two toggles overlapped: any other copy that is
\* negated is frozen like the card.
THEOREM TogglesCount == CredentialsSpec => []FrozenByToggles
<1>1. CardsInv => FrozenByToggles
  <2> SUFFICES ASSUME CardsInv, NEW c \in DOMAIN cards \ raced
               PROVE  cards[c].frozen = (flips[c] % 2 = 1)
    BY DEF FrozenByToggles, C!FrozenByToggles
  <2>1. cards[c].frozen \in BOOLEAN
    BY DEF CardsInv, CardsTypeOK, CardRow
  <2>2. cards[c].frozen <=> (flips[c] % 2 = 1)
    BY DEF CardsInv, Toggled
  <2> QED
    BY <2>1, <2>2
<1> QED
  BY <1>1, CardsInvariance, PTL

\* A token is answered for a frozen card only if the freeze was committed between the
\* load and the commit of program_card.
THEOREM TokensOverlap == CredentialsSpec => []FrozenTokenTakesOverlap
BY CardsInvariance, PTL DEF CardsInv

\* Whatever PATCHes, toggles and restarts overlap, a control changes only by the commit
\* of a request that names it, to the value it names.
THEOREM ControlsNamed == CredentialsSpec => OnlyNamedControlsChange
<1> DEFINE Named1 == \A c \in DOMAIN cards, k \in Controls :
               cards'[c].controls[k] # cards[c].controls[k] =>
                   \E r \in CardRequests :
                       /\ at[r] = "commit" /\ at'[r] = "done"
                       /\ CardOf[r] = c
                       /\ k \in DOMAIN session[r].asked
                       /\ cards'[c].controls[k] = session[r].asked[k]
<1>1. ASSUME CardsInv, NEW r \in CardRequests, C!CommitCard(r) PROVE Named1
  <2> SUFFICES ASSUME NEW c \in DOMAIN cards, NEW k \in Controls,
                      cards'[c].controls[k] # cards[c].controls[k]
               PROVE  /\ at[r] = "commit" /\ at'[r] = "done" /\ CardOf[r] = c
                      /\ k \in DOMAIN session[r].asked
                      /\ cards'[c].controls[k] = session[r].asked[k]
    OBVIOUS
  <2>1. PICK s \in CardSession : s = session[r] /\ Editing(r, at[r], s, lock)
    BY <1>1, CardNow
  <2>2. /\ at[r] = "commit" /\ at'[r] = "done"
        /\ cards' = [d \in DOMAIN cards \cup {CardOf[r]} |-> IF d = CardOf[r] THEN C!Row(r) ELSE cards[d]]
    BY <1>1 DEF C!CommitCard, CardsInv, CardsTypeOK
  <2>3. CardOf[r] = c /\ cards'[c] = C!Row(r)
    BY <2>2
  <2>4. s.op # "issue"
    BY <2>1, <2>2, <2>3 DEF Editing
  <2>5. C!Row(r).controls = [j \in Controls |->
            IF j \in DOMAIN s.sets THEN s.sets[j] ELSE cards[CardOf[r]].controls[j]]
    BY <2>1, <2>4 DEF C!Row
  <2>6. k \in DOMAIN s.sets /\ cards'[c].controls[k] = s.sets[k]
    BY <2>3, <2>5
  <2>7. k \in DOMAIN s.asked /\ s.sets[k] = s.asked[k]
    BY <2>1, <2>2, <2>6 DEF Editing
  <2> QED
    BY <2>1, <2>2, <2>3, <2>6, <2>7
<1>2. ASSUME CardsInv, C!Restart PROVE Named1
  <2> SUFFICES ASSUME NEW c \in DOMAIN cards PROVE cards'[c].controls = cards[c].controls
    OBVIOUS
  <2>1. cards' = [d \in DOMAIN cards |-> IF d \in SeedCards THEN C!SeedRow(d) ELSE cards[d]]
    BY <1>2 DEF C!Restart
  <2>2. cards[c] \in CardRow
    BY <1>2 DEF CardsInv, CardsTypeOK
  <2>3. C!SeedRow(c).controls = cards[c].controls
    BY <2>2 DEF C!SeedRow, CardRow
  <2> QED
    BY <2>1, <2>3
<1>3. ASSUME UNCHANGED cards PROVE Named1
  BY <1>3
<1>4. ASSUME CardsInv, C!Next PROVE Named1
  BY <1>1, <1>2, <1>3, <1>4
     DEF C!Next, C!IssueCard, C!AskCard, C!LoadCard, C!FlushCard, C!FailCard, C!Rollback, C!table
<1>5. CardsInv /\ [CredentialsNext]_credentialVars => [Named1]_(C!cardVars)
  <2> SUFFICES ASSUME CardsInv, [CredentialsNext]_credentialVars PROVE Named1 \/ UNCHANGED C!cardVars
    OBVIOUS
  <2>1. C!Next \/ UNCHANGED cardVars
    BY DEF CredentialsNext, credentialVars
  <2> QED
    BY <1>4, <2>1 DEF cardVars, C!cardVars, C!table
<1> HIDE DEF Named1
<1>6. CredentialsSpec => [][Named1]_(C!cardVars)
  BY <1>5, CardsInvariance, PTL DEF CredentialsSpec
<1> QED
  BY <1>6 DEF Named1, OnlyNamedControlsChange, C!OnlyNamedControlsChange

\* A behaviour about either credential is one of RoomKeys, whose theorems it inherits.
THEOREM KeysComposed == CredentialsSpec => Spec
<1>1. CredentialsInit => Init
  BY DEF CredentialsInit
<1>2. [CredentialsNext]_credentialVars => [Next]_vars
  BY DEF CredentialsNext, credentialVars
<1> QED
  BY <1>1, <1>2, PTL DEF CredentialsSpec, Spec

=============================================================================
