--------------------------- MODULE GatewayProofs ---------------------------
(***************************************************************************)
(* Proofs about the process, for any requests, emails, prices and limits:   *)
(* the limiter implements Quota, for all window lengths, clients and sizes  *)
(* of its table, and behind it there is one login per email and one guest   *)
(* per login, with names that agree, a ledger of points that is explained,  *)
(* and polls that tell the truth.                                           *)
(***************************************************************************)
EXTENDS Gateway, SetFacts, Sequences, TLAPS

-----------------------------------------------------------------------------
(* The limiter: windows *)

\* What quotient and remainder are.
LEMMA Division ==
    ASSUME NEW a \in Nat, NEW m \in Nat \ {0}
    PROVE  /\ a \div m \in Nat /\ a % m \in Nat /\ a % m < m
           /\ a = (a \div m) * m + (a % m)
  BY SMT

\* A later window begins at least one window's length later.
LEMMA Multiples ==
    ASSUME NEW x \in Nat, NEW y \in Nat, NEW m \in Nat \ {0}, x + 1 <= y
    PROVE  x * m + m <= y * m
<1>1. PICK d \in Nat : y = x + 1 + d
  <2>1. y - x - 1 \in Nat /\ y = x + 1 + (y - x - 1)
    OBVIOUS
  <2> QED
    BY <2>1
<1>2. y * m = x * m + m + d * m /\ d * m >= 0
  BY <1>1, SMT
<1> QED
  BY <1>2

\* Ends of windows are ordered as the windows are.
LEMMA Ordered ==
    ASSUME NEW x \in Nat, NEW y \in Nat, NEW m \in Nat \ {0}, x <= y
    PROVE  (x + 1) * m <= (y + 1) * m
<1>1. CASE x = y
  BY <1>1
<1>2. CASE x + 1 <= y
  <2>1. x * m + m <= y * m
    BY <1>2, Multiples
  <2> QED
    BY <2>1
<1> QED
  BY <1>1, <1>2

\* Time does not go back to an earlier window.
LEMMA WindowsGrow ==
    ASSUME NEW a \in Nat, NEW b \in Nat, NEW m \in Nat \ {0}, a <= b
    PROVE  a \div m <= b \div m
<1>1. SUFFICES ASSUME b \div m + 1 <= a \div m PROVE FALSE
  BY Division
<1>2. (b \div m) * m + m <= (a \div m) * m
  BY <1>1, Division, Multiples
<1> QED
  BY <1>2, Division

\* Where Retry-After leads to.
LEMMA NextWindow ==
    ASSUME NEW a \in Nat, NEW m \in Nat \ {0}
    PROVE  /\ a + (m - (a % m)) \in Nat
           /\ a + (m - (a % m)) = (a \div m + 1) * m
           /\ a + (m - (a % m)) <= a + m
<1> DEFINE q == a \div m
           r == a % m
<1>1. q \in Nat /\ r \in Nat /\ r < m /\ a = q * m + r
  BY Division
<1> HIDE DEF q, r
<1>2. a + (m - r) \in Nat /\ a + (m - r) <= a + m
  BY <1>1
<1>3. a + (m - r) = (q + 1) * m
  BY <1>1
<1> QED
  BY <1>2, <1>3 DEF q, r

-----------------------------------------------------------------------------
(* The limiter: counters *)

\* The table never holds a window of the future, so a new window starts empty.
Inv == TypeOK /\ \A k \in DOMAIN hits : hits[k].window <= Window(now)

\* The table is empty at first.
LEMMA InitInv == Init => Inv
  BY RateLimitAssumption DEF Init, Inv, TypeOK, Window, Entry, Keys

\* Every key has a limit.
LEMMA KeyLimit == \A k \in Keys : Limit[k[2]] \in Nat
  BY RateLimitAssumption DEF Keys

\* Counts are numbers.
LEMMA CountedType == ASSUME Inv PROVE \A k \in Keys : Counted(k) \in Nat
  BY DEF Inv, TypeOK, Counted, Entry

\* One request more, in whatever table, pruned or not.
LEMMA Counting ==
    ASSUME Inv, NEW k \in Keys, Increment(k)
    PROVE  /\ DOMAIN hits' \subseteq Keys
           /\ \A j \in DOMAIN hits' : hits'[j] \in Entry /\ hits'[j].window <= Window(now)
           /\ \A j \in Keys : (IF j \in DOMAIN hits' /\ hits'[j].window = Window(now)
                               THEN hits'[j].count ELSE 0)
                              = IF j = k THEN Counted(k) + 1 ELSE Counted(j)
<1> DEFINE table == [j \in DOMAIN hits \cup {k} |->
                        IF j = k THEN [window |-> Window(now), count |-> Counted(k) + 1]
                        ELSE hits[j]]
<1>1. Window(now) \in Nat
  BY Division, RateLimitAssumption DEF Inv, TypeOK, Window
<1>2. Counted(k) \in Nat
  BY CountedType
<1>3. /\ DOMAIN table \subseteq Keys
      /\ \A j \in DOMAIN table : table[j] \in Entry /\ table[j].window <= Window(now)
  BY <1>1, <1>2 DEF Inv, TypeOK, Entry
<1>4. \A j \in Keys : (IF j \in DOMAIN table /\ table[j].window = Window(now)
                       THEN table[j].count ELSE 0)
                      = IF j = k THEN Counted(k) + 1 ELSE Counted(j)
  BY <1>2 DEF Counted
<1>5. hits' = table \/ hits' = Prune(table)
  BY DEF Increment
<1> HIDE DEF table
<1>6. /\ DOMAIN Prune(table) = {j \in DOMAIN table : table[j].window = Window(now)}
      /\ \A j \in DOMAIN Prune(table) : Prune(table)[j] = table[j]
  BY DEF Prune, Restrict
<1> QED
  BY <1>3, <1>4, <1>5, <1>6

\* A clock that moves on leaves the table in the past.
LEMMA Later ==
    ASSUME Inv, now' \in Nat, now <= now'
    PROVE  Window(now) \in Nat /\ Window(now)' \in Nat /\ Window(now) <= Window(now)'
  BY Division, WindowsGrow, RateLimitAssumption DEF Inv, TypeOK, Window

\* Every request, tick and restart keeps the table out of the future.
LEMMA StepInv == ASSUME Inv, [Next]_limitVars PROVE Inv'
<1>1. CASE UNCHANGED limitVars
  BY <1>1 DEF limitVars, Inv, TypeOK, Window
<1>2. CASE Tick
  <2>1. now' \in Nat /\ now <= now' /\ hits' = hits /\ answer' = answer
    BY <1>2 DEF Tick, Inv, TypeOK
  <2>2. \A j \in DOMAIN hits : hits[j].window <= Window(now)'
    BY <2>1, Later DEF Inv, TypeOK, Entry
  <2> QED
    BY <2>1, <2>2 DEF Inv, TypeOK
<1>3. CASE Restart
  BY <1>3 DEF Restart, Inv, TypeOK, Window
<1>4. ASSUME NEW k \in Keys, Admit(k) PROVE Inv'
  <2>1. Increment(k) /\ now' = now
    BY <1>4 DEF Admit
  <2>2. answer' \in [Keys -> [verdict : {"none", "admitted", "limited"}, until : Nat]]
    BY <1>4 DEF Admit, Inv, TypeOK
  <2>3. Window(now)' = Window(now)
    BY <2>1 DEF Window
  <2> QED
    BY <2>1, <2>2, <2>3, Counting DEF Inv, TypeOK
<1>5. ASSUME NEW k \in Keys, Refuse(k) PROVE Inv'
  <2>1. Increment(k) /\ now' \in Nat /\ now <= now'
    BY <1>5 DEF Refuse, Inv, TypeOK
  <2>2. now' + (Minute - (now' % Minute)) \in Nat
    BY <2>1, NextWindow, RateLimitAssumption
  <2>3. answer' \in [Keys -> [verdict : {"none", "admitted", "limited"}, until : Nat]]
    BY <1>5, <2>2 DEF Refuse, Inv, TypeOK
  <2>4. \A j \in DOMAIN hits' : hits'[j] \in Entry /\ hits'[j].window <= Window(now)'
    BY <2>1, Counting, Later DEF Entry
  <2> QED
    BY <2>1, <2>3, <2>4, Counting DEF Inv, TypeOK
<1> QED
  BY <1>1, <1>2, <1>3, <1>4, <1>5 DEF Next

\* The clock, the table and the answers of the limiter have their types, for all
\* parameters of RateLimitMiddleware.
THEOREM TypeCorrect == Spec => []TypeOK
<1>1. Init => Inv
  BY InitInv
<1>2. Inv /\ [Next]_limitVars => Inv'
  BY StepInv
<1>3. Inv => TypeOK
  BY DEF Inv
<1> QED
  BY <1>1, <1>2, <1>3, PTL DEF Spec

-----------------------------------------------------------------------------
(* The limiter: the refinement *)

Admitted == [k \in Keys |-> Admissions(k)]

\* The count of a window that has not begun is nothing.
LEMMA Empty ==
    ASSUME Inv, now' \in Nat, now <= now', hits' = hits
    PROVE  Admitted' = IF Window(now)' = Window(now) THEN Admitted ELSE [k \in Keys |-> 0]
<1>1. \A k \in Keys : Counted(k)' = IF Window(now)' = Window(now) THEN Counted(k) ELSE 0
  BY Later DEF Counted, Inv, TypeOK, Entry
<1>2. \A k \in Keys : Admissions(k)' = IF Window(now)' = Window(now) THEN Admissions(k) ELSE 0
  BY <1>1, KeyLimit DEF Admissions
<1> QED
  BY <1>2 DEF Admitted

\* An admitted request is one admission more in this window.
LEMMA AdmitImplements ==
    ASSUME Inv, NEW k \in Keys, Admit(k)
    PROVE  Q!Admit(k)
<1>1. Window(now)' = Window(now) /\ Increment(k)
  BY DEF Admit, Window
<1>2. \A j \in Keys : Counted(j)' = IF j = k THEN Counted(k) + 1 ELSE Counted(j)
  BY <1>1, Counting DEF Counted
<1>3. Counted(k) \in Nat /\ Limit[k[2]] \in Nat /\ Counted(k) + 1 <= Limit[k[2]]
  BY CountedType, KeyLimit DEF Admit
<1>4. Admissions(k) = Counted(k) /\ Admissions(k)' = Counted(k) + 1
  BY <1>2, <1>3 DEF Admissions
<1>5. \A j \in Keys \ {k} : Admissions(j)' = Admissions(j)
  BY <1>2 DEF Admissions
<1>6. Admitted' = [Admitted EXCEPT ![k] = @ + 1]
  BY <1>4, <1>5 DEF Admitted
<1> QED
  BY <1>3, <1>4, <1>6 DEF Admit, Q!Admit, Q!Admission, Admitted

\* A refused request finds the limit used up and is told a time in a later window.
LEMMA RefuseImplements ==
    ASSUME Inv, NEW k \in Keys, Refuse(k)
    PROVE  Q!Refuse(k)
<1>1. Increment(k) /\ now' \in Nat /\ now <= now'
  BY DEF Refuse, Inv, TypeOK
<1>2. Counted(k) \in Nat /\ Limit[k[2]] \in Nat /\ Counted(k) + 1 > Limit[k[2]]
  BY CountedType, KeyLimit DEF Refuse
<1>3. Admissions(k) = Limit[k[2]]
  BY <1>2 DEF Admissions
<1>4. Admitted' = IF Window(now)' = Window(now) THEN Admitted ELSE [j \in Keys |-> 0]
  <2>1. CASE Window(now)' = Window(now)
    <3>1. \A j \in Keys : Counted(j)' = IF j = k THEN Counted(k) + 1 ELSE Counted(j)
      BY <1>1, <2>1, Counting DEF Counted
    <3>2. \A j \in Keys : Admissions(j)' = Admissions(j)
      BY <1>2, <3>1 DEF Admissions
    <3> QED
      BY <2>1, <3>2 DEF Admitted
  <2>2. CASE Window(now)' # Window(now)
    <3>1. \A j \in Keys : Counted(j)' = 0
      BY <1>1, <2>2, Counting, Later DEF Counted, Entry
    <3>2. \A j \in Keys : Admissions(j)' = 0
      BY <3>1, KeyLimit DEF Admissions
    <3> QED
      BY <2>2, <3>2 DEF Admitted
  <2> QED
    BY <2>1, <2>2
<1>5. now' + (Minute - (now' % Minute)) \in (now \div Minute + 1) * Minute .. now' + Minute
  <2>1. /\ now' = (now' \div Minute) * Minute + (now' % Minute)
        /\ now' \div Minute \in Nat /\ now' % Minute \in Nat /\ now' % Minute < Minute
    BY <1>1, Division, RateLimitAssumption
  <2>2. now \div Minute \in Nat /\ now \div Minute <= now' \div Minute
    BY <1>1, Later DEF Window
  <2>3. (now \div Minute + 1) * Minute <= (now' \div Minute + 1) * Minute
    BY <2>1, <2>2, Ordered, RateLimitAssumption
  <2>4. (now' \div Minute + 1) * Minute = now' + (Minute - (now' % Minute))
    BY <1>1, NextWindow, RateLimitAssumption
  <2> QED
    BY <2>1, <2>2, <2>3, <2>4, <1>1, RateLimitAssumption
<1> QED
  BY <1>1, <1>3, <1>4, <1>5 DEF Refuse, Q!Refuse, Q!Advance, Admitted, Window

\* Every step of the limiter is one of Quota, or a stutter.
LEMMA StepImplements ==
    ASSUME Inv, [Next]_limitVars
    PROVE  [Q!Next]_(Q!quotaVars)
<1>1. CASE UNCHANGED limitVars
  <2>1. Admitted' = Admitted
    BY <1>1 DEF limitVars, Admitted, Admissions, Counted, Window
  <2> QED
    BY <1>1, <2>1 DEF limitVars, Q!quotaVars, Admitted
<1>2. CASE Tick
  <2>1. now' \in Nat /\ now <= now' /\ hits' = hits /\ answer' = answer
    BY <1>2 DEF Tick, Inv, TypeOK
  <2>2. Admitted' = IF Window(now)' = Window(now) THEN Admitted ELSE [k \in Keys |-> 0]
    BY <2>1, Empty
  <2> QED
    BY <2>1, <2>2 DEF Q!Next, Q!Pass, Q!Advance, Admitted, Window
<1>3. CASE Restart
  <2>1. \A k \in Keys : Admissions(k)' = 0
    BY <1>3, KeyLimit DEF Restart, Admissions, Counted
  <2> QED
    BY <1>3, <2>1 DEF Restart, Q!Next, Q!Forget
<1>4. ASSUME NEW k \in Keys, Admit(k) PROVE Q!Next
  BY <1>4, AdmitImplements DEF Q!Next
<1>5. ASSUME NEW k \in Keys, Refuse(k) PROVE Q!Next
  BY <1>5, RefuseImplements DEF Q!Next
<1> QED
  BY <1>1, <1>2, <1>3, <1>4, <1>5 DEF Next

\* RateLimitMiddleware keeps what Quota promises, for every limit, every length of the
\* window, every number of clients and whatever it prunes: in each fixed window exactly
\* the limit is admitted, and Retry-After leads into a new one.
THEOREM QuotaImplemented == Spec => ImplementsQuota
<1>1. Init => Inv
  BY InitInv
<1>2. Inv /\ [Next]_limitVars => Inv'
  BY StepInv
<1>3. Init => Q!Init
  <2>1. SUFFICES ASSUME Init PROVE Q!Init
    OBVIOUS
  <2>2. \A k \in Keys : Admissions(k) = 0
    BY <2>1, KeyLimit DEF Init, Admissions, Counted
  <2> QED
    BY <2>1, <2>2 DEF Init, Q!Init, Q!NoReply
<1>4. Inv /\ [Next]_limitVars => [Q!Next]_(Q!quotaVars)
  BY StepImplements
<1> QED
  BY <1>1, <1>2, <1>3, <1>4, PTL DEF Spec, ImplementsQuota, Q!Spec

-----------------------------------------------------------------------------
(* Logins and guests *)

Stages == {"idle", "done", "refused", "failed"} \cup I!InFlight
Logins == Registrations \cup I!SeedUsers
Given == [email : Emails \cup {NoRequest}, name : Names \cup {NoName},
          user : Logins \cup {NoRequest}, mine : Names \cup {NoName}, its : Names \cup {NoName}]

IdentityTypeOK ==
    /\ users \in [DOMAIN users -> [email : Emails, name : Names, guest : I!GuestIds]]
    /\ DOMAIN users \subseteq Logins
    /\ guests \in [DOMAIN guests -> Names] /\ DOMAIN guests \subseteq I!GuestIds
    /\ holder \in [Emails -> Registrations \cup {NoRequest}]
    /\ writer \in [I!GuestIds -> Updates \cup {NoRequest}]
    /\ pc \in [I!Requests -> Stages]
    /\ tx \in [I!Requests -> Given]
    /\ parted \subseteq DOMAIN users

\* A guest of a registration is its login's, and one of the seed belongs to the email
\* that the seed gives it.
GuestsOwned ==
    /\ \A u \in DOMAIN users : users[u].guest \in Registrations => users[u].guest = u
    /\ \A u \in DOMAIN users \cap I!SeedUsers : users[u].email = SeedEmail[u]
    /\ \A u \in DOMAIN users, v \in I!SeedUsers :
           users[u].guest = SeedGuest[v] => users[u].email = SeedEmail[v] /\ v \in {u, DemoUser}

\* A registration that is about to commit holds its email, which nobody has yet.
Registering(r) ==
    /\ pc[r] \notin {"load", "flush"}
    /\ r \in DOMAIN users \cup DOMAIN guests => pc[r] = "done"
    /\ pc[r] \in {"insert", "commit"} => tx[r].email \in Emails /\ tx[r].name \in Names
    /\ pc[r] = "commit" => holder[tx[r].email] = r /\ I!Owners(tx[r].email) = {}

\* A change of a name that nothing overlaps has read what is there.
Changing(r) ==
    LET u == tx[r].user IN
    /\ pc[r] # "insert"
    /\ pc[r] \in I!InFlight =>
           /\ u \in DOMAIN users
           /\ u \notin parted /\ tx[r].name # NoName =>
                  /\ I!Renaming(u) = {r}
                  /\ tx[r].mine = users[u].name
                  /\ pc[r] # "load" => tx[r].its = guests[users[u].guest]

\* The seed runs while nothing else does.
NothingRunsWhileDown == ~up => \A r \in I!Requests : pc[r] \notin I!InFlight

IdentityInv ==
    /\ IdentityTypeOK /\ GuestsOwned /\ NothingRunsWhileDown
    /\ OneLoginOneGuest /\ NamesPaired
    /\ \A r \in Registrations : Registering(r)
    /\ \A r \in Updates : Changing(r)

-----------------------------------------------------------------------------
(* Payments *)

Events == [checkout : Checkouts, type : {"completed", "expired", "settled"},
          status : {"paid", "unpaid"}]
PollState == [pc : {"idle", "asked", "told", "done", "failed"},
              checkout : Checkouts \cup {NoCheckout}, status : {"paid", "unpaid"},
              confirmed : BOOLEAN]

PaymentsTypeOK ==
    /\ stripe \in [Checkouts -> {"none", "open", "processing", "paid", "expired"}]
    /\ pending \subseteq Events
    /\ verified \subseteq Checkouts
    /\ poll \in [Polls -> PollState]

\* Whoever speaks of a payment, an event, the store or an answer, Stripe has it.
PaymentsInv ==
    /\ PaymentsTypeOK
    /\ \A e \in pending : e.status = "paid" => stripe[e.checkout] = "paid"
    /\ \A s \in verified : stripe[s] = "paid"
    /\ \A r \in Polls :
           /\ poll[r].pc = "idle" => poll[r] = P!IdlePoll
           /\ poll[r].pc # "idle" => poll[r].checkout \in Checkouts
    /\ PollTruth

-----------------------------------------------------------------------------
(* Points *)

Demo == SeedGuest[DemoUser]
Draft == [pc : {"idle", "refused", "failed", "done"} \cup O!Written,
          guest : I!GuestIds \cup {Unknown}, subtotal : Nat, total : Nat, points : Nat,
          wrote : SUBSET {"credit", "purchase"}, shown : Nat]

PointsTypeOK ==
    /\ catalogue \in BOOLEAN /\ openings \in {0, 1}
    /\ orders \in [DOMAIN orders -> [subtotal : Nat, total : Nat]] /\ DOMAIN orders \subseteq Orders
    /\ bookings \in [DOMAIN bookings -> [guest : I!GuestIds, total : Nat, points : Nat]]
    /\ DOMAIN bookings \subseteq Bookings
    /\ credits \in [DOMAIN credits -> [guest : I!GuestIds, amount : Nat]]
    /\ desk \in [O!Requests -> Draft]

\* What order or booking r has computed and written when its draft is d.
Owed(r, d) ==
    d.pc \in O!Written =>
        /\ d.guest \in DOMAIN guests
        /\ d.pc = "commit" => "credit" \in d.wrote
        /\ r \in Orders =>
               d.pc # "balance" /\ d.guest = Demo /\ d.points = d.total \div 100
        /\ r \in Bookings =>
               /\ d.points = Multiplier * (d.total \div 100)
               /\ d.pc # "earn" => "credit" \in d.wrote
               /\ d.pc = "commit" => d.points <= d.shown /\ d.shown <= O!Balance(d.guest) + d.points

AtDesk(r) ==
    /\ r \in DOMAIN credits => desk[r].pc = "done"
    /\ desk[r].pc = "idle" => desk[r] = O!CleanDraft
    /\ Owed(r, desk[r])

\* Points are of guests there are, and the demo guest is there once the catalogue is.
CreditsOwned ==
    /\ \A r \in DOMAIN credits : credits[r].guest \in DOMAIN guests
    /\ catalogue => Demo \in DOMAIN guests

PointsInv ==
    /\ PointsTypeOK /\ CreditsOwned /\ LedgerExplained
    /\ \A r \in O!Requests : AtDesk(r)

GatewayInv == Inv /\ IdentityInv /\ PaymentsInv /\ PointsInv

-----------------------------------------------------------------------------
(* The steps of a registration and of a change of the profile *)

LEMMA SomeAssumptions ==
    /\ NoRequest \notin Registrations /\ NoRequest \notin Updates
    /\ Registrations \cap Updates = {} /\ I!CleanTx \in Given
BY GatewayAssumption DEF I!IdentityAssumption, I!CleanTx, Given

LEMMA IdentityStart == I!Init /\ ~up => IdentityInv
<1> SUFFICES ASSUME I!Init, ~up PROVE IdentityInv
  OBVIOUS
<1>1. /\ users = [u \in {} |-> I!CleanTx] /\ guests = [g \in {} |-> NoName] /\ parted = {}
      /\ DOMAIN users = {} /\ DOMAIN guests = {}
      /\ \A r \in I!Requests : pc[r] = "idle"
  BY DEF I!Init
<1>2. IdentityTypeOK
  <2>1. users \in [DOMAIN users -> [email : Emails, name : Names, guest : I!GuestIds]]
        /\ guests \in [DOMAIN guests -> Names]
    BY <1>1
  <2>2. /\ holder \in [Emails -> Registrations \cup {NoRequest}]
        /\ writer \in [I!GuestIds -> Updates \cup {NoRequest}]
        /\ pc \in [I!Requests -> Stages] /\ tx \in [I!Requests -> Given]
    BY SomeAssumptions DEF I!Init, Stages
  <2> QED
    BY <1>1, <2>1, <2>2 DEF IdentityTypeOK
<1>3. GuestsOwned /\ NothingRunsWhileDown /\ OneLoginOneGuest /\ NamesPaired
  BY <1>1 DEF GuestsOwned, NothingRunsWhileDown, I!InFlight, OneLoginOneGuest,
              I!OneLoginOneGuest, NamesPaired, I!NamesPaired
<1>4. \A r \in Registrations : Registering(r)
  BY <1>1 DEF Registering, I!Requests
<1>5. \A r \in Updates : Changing(r)
  BY <1>1 DEF Changing, I!Requests, I!InFlight
<1> QED
  BY <1>2, <1>3, <1>4, <1>5 DEF IdentityInv

\* A step of r that commits nothing has to account for r only, and for being the only
\* one that renames, unless it notes otherwise.
LEMMA QuietIdentity ==
    ASSUME IdentityInv, up, up', NEW r \in I!Requests, NEW stage \in Stages, NEW t \in Given,
           users' = users, guests' = guests,
           pc' = [pc EXCEPT ![r] = stage], tx' = [tx EXCEPT ![r] = t],
           holder' \in [Emails -> Registrations \cup {NoRequest}],
           writer' \in [I!GuestIds -> Updates \cup {NoRequest}],
           \A q \in Registrations \ {r}, e \in Emails : holder[e] = q => holder'[e] = q,
           parted \subseteq parted', parted' \subseteq DOMAIN users,
           r \in Updates /\ stage \in I!InFlight /\ t.name # NoName /\ t.user \notin parted' =>
               I!Renaming(t.user) \subseteq {r},
           r \in Registrations /\ pc'[r] = stage /\ tx'[r] = t => Registering(r)',
           r \in Updates /\ pc'[r] = stage /\ tx'[r] = t => Changing(r)'
    PROVE  IdentityInv'
<1>1. /\ pc'[r] = stage /\ tx'[r] = t
      /\ \A q \in I!Requests \ {r} : pc'[q] = pc[q] /\ tx'[q] = tx[q]
  BY DEF IdentityInv, IdentityTypeOK
<1>2. IdentityTypeOK'
  <2>1. pc' \in [I!Requests -> Stages] /\ tx' \in [I!Requests -> Given]
    BY DEF IdentityInv, IdentityTypeOK
  <2> QED
    BY <2>1 DEF IdentityInv, IdentityTypeOK
<1>3. GuestsOwned' /\ NothingRunsWhileDown' /\ OneLoginOneGuest' /\ NamesPaired'
  BY DEF IdentityInv, GuestsOwned, NothingRunsWhileDown, OneLoginOneGuest,
         I!OneLoginOneGuest, NamesPaired, I!NamesPaired
<1>4. ASSUME NEW q \in Registrations PROVE Registering(q)'
  <2>1. CASE q = r
    BY <1>1, <2>1
  <2>2. CASE q # r
    <3>1. pc'[q] = pc[q] /\ tx'[q] = tx[q] /\ Registering(q)
      BY <1>1, <2>2 DEF IdentityInv, I!Requests
    <3> QED
      BY <2>2, <3>1 DEF Registering, I!Owners
  <2> QED
    BY <2>1, <2>2
<1>5. ASSUME NEW q \in Updates PROVE Changing(q)'
  <2>1. CASE q = r
    BY <1>1, <2>1
  <2>2. CASE q # r
    <3>1. pc'[q] = pc[q] /\ tx'[q] = tx[q] /\ Changing(q)
      BY <1>1, <2>2 DEF IdentityInv, I!Requests
    <3>2. ASSUME pc[q] \in I!InFlight, tx[q].name # NoName, tx[q].user \notin parted',
                 I!Renaming(tx[q].user) = {q}
          PROVE  I!Renaming(tx[q].user)' = {q}
      <4>1. ~(r \in Updates /\ stage \in I!InFlight /\ t.name # NoName /\ t.user = tx[q].user)
        BY <2>2, <3>2
      <4>2. \A p \in Updates : p \in I!Requests
        BY DEF I!Requests
      <4>3. \A p \in Updates :
                p \in I!Renaming(tx[q].user)' <=> p \in I!Renaming(tx[q].user)
        BY <1>1, <2>2, <3>1, <3>2, <4>1, <4>2 DEF I!Renaming
      <4> QED
        BY <3>1, <3>2, <4>3 DEF I!Renaming
    <3> QED
      BY <3>1, <3>2 DEF Changing
  <2> QED
    BY <2>1, <2>2
<1> QED
  BY <1>2, <1>3, <1>4, <1>5 DEF IdentityInv

LEMMA RegisterStep ==
    ASSUME IdentityInv, up, up', NEW r, I!Register(r) PROVE IdentityInv'
<1>1. /\ r \in Registrations /\ r \in I!Requests /\ r \notin Updates /\ pc[r] = "idle"
      /\ tx[r] \in Given /\ Registering(r)
      /\ users' = users /\ guests' = guests /\ holder' = holder /\ writer' = writer
      /\ parted' = parted
  BY SomeAssumptions DEF I!Register, I!rows, I!Requests, IdentityInv, IdentityTypeOK
<1>2. PICK e \in Emails, n \in Names :
         IF I!Owners(e) # {}
         THEN pc' = [pc EXCEPT ![r] = "refused"] /\ UNCHANGED tx
         ELSE /\ pc' = [pc EXCEPT ![r] = "insert"]
              /\ tx' = [tx EXCEPT ![r].email = e, ![r].name = n]
  BY DEF I!Register
<1>3. r \notin DOMAIN users \cup DOMAIN guests
  BY <1>1 DEF Registering
<1>4. CASE I!Owners(e) # {}
  <2>1. pc' = [pc EXCEPT ![r] = "refused"] /\ tx' = [tx EXCEPT ![r] = tx[r]]
    BY <1>2, <1>4 DEF IdentityInv, IdentityTypeOK
  <2>2. pc'[r] = "refused" => Registering(r)'
    BY <1>1, <1>3 DEF Registering
  <2> QED
    BY <1>1, <2>1, <2>2, QuietIdentity DEF IdentityInv, IdentityTypeOK, Stages
<1>5. CASE I!Owners(e) = {}
  <2> DEFINE t == [tx[r] EXCEPT !.email = e, !.name = n]
  <2>1. t \in Given /\ t.email = e /\ t.name = n
    BY <1>1 DEF Given
  <2>2. pc' = [pc EXCEPT ![r] = "insert"] /\ tx' = [tx EXCEPT ![r] = t]
    BY <1>2, <1>5
  <2> HIDE DEF t
  <2>3. pc'[r] = "insert" /\ tx'[r] = t => Registering(r)'
    BY <1>1, <1>3, <2>1 DEF Registering
  <2> QED
    BY <1>1, <2>1, <2>2, <2>3, QuietIdentity DEF IdentityInv, IdentityTypeOK, Stages, I!InFlight
<1> QED
  BY <1>4, <1>5

\* The locks that end with a transaction are its own.
LEMMA UnlockTypes ==
    ASSUME IdentityTypeOK, NEW r, I!Unlock(r)
    PROVE  /\ holder' \in [Emails -> Registrations \cup {NoRequest}]
           /\ writer' \in [I!GuestIds -> Updates \cup {NoRequest}]
           /\ \A e \in Emails : holder[e] # r => holder'[e] = holder[e]
BY DEF IdentityTypeOK, I!Unlock

LEMMA InsertStep ==
    ASSUME IdentityInv, up, up', NEW r \in I!Requests, I!Insert(r) PROVE IdentityInv'
<1>1. /\ pc[r] = "insert" /\ holder[tx[r].email] = NoRequest
      /\ tx[r] \in Given /\ users' = users /\ guests' = guests /\ parted' = parted
  BY DEF I!Insert, I!Rollback, I!rows, IdentityInv, IdentityTypeOK
<1>2. r \in Registrations /\ r \notin Updates /\ Registering(r)
  BY <1>1, SomeAssumptions DEF I!Requests, IdentityInv, Changing
<1>3. r \notin DOMAIN users \cup DOMAIN guests /\ tx[r].email \in Emails /\ tx[r].name \in Names
  BY <1>1, <1>2 DEF Registering
<1>4. CASE I!Owners(tx[r].email) # {}
  <2>1. /\ pc' = [pc EXCEPT ![r] = "failed"] /\ tx' = [tx EXCEPT ![r] = I!CleanTx] /\ I!Unlock(r)
    BY <1>4 DEF I!Insert, I!Rollback
  <2>2. /\ holder' \in [Emails -> Registrations \cup {NoRequest}]
        /\ writer' \in [I!GuestIds -> Updates \cup {NoRequest}]
        /\ \A q \in Registrations \ {r}, e \in Emails : holder[e] = q => holder'[e] = q
    BY <2>1, UnlockTypes DEF IdentityInv
  <2>3. pc'[r] = "failed" => Registering(r)'
    BY <1>1, <1>3 DEF Registering
  <2>4. "failed" \in Stages /\ parted' \subseteq DOMAIN users
    BY <1>1 DEF Stages, IdentityInv, IdentityTypeOK
  <2> QED
    BY <1>1, <1>2, <2>1, <2>2, <2>3, <2>4, SomeAssumptions, QuietIdentity
<1>5. CASE I!Owners(tx[r].email) = {}
  <2>1. /\ pc' = [pc EXCEPT ![r] = "commit"] /\ tx' = [tx EXCEPT ![r] = tx[r]]
        /\ holder' = [holder EXCEPT ![tx[r].email] = r] /\ writer' = writer
    BY <1>5 DEF I!Insert, IdentityInv, IdentityTypeOK
  <2>2. /\ holder' \in [Emails -> Registrations \cup {NoRequest}] /\ holder'[tx[r].email] = r
        /\ \A q \in Registrations \ {r}, e \in Emails : holder[e] = q => holder'[e] = q
    BY <1>1, <1>2, <1>3, <2>1, SomeAssumptions DEF IdentityInv, IdentityTypeOK
  <2>3. pc'[r] = "commit" /\ tx'[r] = tx[r] => Registering(r)'
    BY <1>1, <1>3, <1>5, <2>2 DEF Registering, I!Owners
  <2> QED
    BY <1>1, <1>2, <2>1, <2>2, <2>3, QuietIdentity
       DEF IdentityInv, IdentityTypeOK, Stages, I!InFlight
<1> QED
  BY <1>4, <1>5

LEMMA AuthenticateStep ==
    ASSUME IdentityInv, up, up', NEW r, I!Authenticate(r) PROVE IdentityInv'
<1>1. /\ r \in Updates /\ r \in I!Requests /\ r \notin Registrations /\ pc[r] = "idle"
      /\ tx[r] \in Given /\ users' = users /\ guests' = guests /\ holder' = holder
      /\ writer' = writer /\ pc' = [pc EXCEPT ![r] = "load"]
  BY SomeAssumptions DEF I!Authenticate, I!rows, I!Requests, IdentityInv, IdentityTypeOK
<1>2. PICK u \in DOMAIN users, n \in Names \cup {NoName} :
         /\ tx' = [tx EXCEPT ![r].user = u, ![r].name = n, ![r].mine = users[u].name]
         /\ parted' = IF I!Renaming(u) \ {r} # {} /\ n # NoName THEN parted \cup {u} ELSE parted
  BY DEF I!Authenticate
<1> DEFINE t == [tx[r] EXCEPT !.user = u, !.name = n, !.mine = users[u].name]
<1>3. t \in Given /\ t.user = u /\ t.name = n /\ t.mine = users[u].name
  BY <1>1 DEF Given, IdentityInv, IdentityTypeOK
<1>4. tx' = [tx EXCEPT ![r] = t]
  BY <1>2
<1> HIDE DEF t
<1>5. r \notin I!Renaming(u)
  BY <1>1 DEF I!Renaming, I!InFlight
<1>6. n # NoName /\ u \notin parted' => I!Renaming(u) = {} /\ u \notin parted
  BY <1>2, <1>5
<1>7. ASSUME pc'[r] = "load", tx'[r] = t PROVE Changing(r)'
  <2>1. ASSUME n # NoName, u \notin parted' PROVE I!Renaming(u)' = {r}
    <3>1. \A q \in Updates \ {r} : pc'[q] = pc[q] /\ tx'[q] = tx[q]
      BY <1>1, <1>4 DEF IdentityInv, IdentityTypeOK, I!Requests
    <3>2. \A q \in Updates : q \in I!Renaming(u)' <=> q = r
      BY <1>1, <1>3, <1>6, <1>7, <2>1, <3>1 DEF I!Renaming, I!InFlight
    <3> QED
      BY <1>1, <3>2 DEF I!Renaming
  <2> QED
    BY <1>1, <1>3, <1>7, <2>1 DEF Changing
<1>8. parted \subseteq parted' /\ parted' \subseteq DOMAIN users
  BY <1>2 DEF IdentityInv, IdentityTypeOK
<1>9. /\ t.name # NoName /\ t.user \notin parted' => I!Renaming(t.user) \subseteq {r}
      /\ "load" \in Stages
  BY <1>3, <1>6 DEF Stages, I!InFlight
<1> QED
  BY <1>1, <1>3, <1>4, <1>7, <1>8, <1>9, QuietIdentity DEF IdentityInv, IdentityTypeOK

\* A change that is under way goes on as it is.
LEMMA ChangeStep ==
    ASSUME IdentityInv, up, up', NEW r \in Updates, pc[r] \in I!InFlight,
           NEW stage \in {"flush", "commit"}, NEW t \in Given,
           t.user = tx[r].user, t.name = tx[r].name, t.mine = tx[r].mine,
           UNCHANGED <<users, guests, holder, parted>>,
           pc' = [pc EXCEPT ![r] = stage], tx' = [tx EXCEPT ![r] = t],
           writer' \in [I!GuestIds -> Updates \cup {NoRequest}],
           t.name # NoName /\ t.user \notin parted =>
               t.its = guests[users[t.user].guest]
    PROVE  IdentityInv'
<1>1. Changing(r) /\ r \in I!Requests /\ r \notin Registrations
  BY SomeAssumptions DEF IdentityInv, I!Requests
<1>2. t.name # NoName /\ t.user \notin parted => I!Renaming(t.user) = {r}
  BY <1>1 DEF Changing
<1>3. ASSUME pc'[r] = stage, tx'[r] = t PROVE Changing(r)'
  <2>1. ASSUME t.name # NoName, I!Renaming(t.user) = {r} PROVE I!Renaming(t.user)' = {r}
    <3>1. \A q \in Updates \ {r} : pc'[q] = pc[q] /\ tx'[q] = tx[q]
      BY DEF IdentityInv, IdentityTypeOK, I!Requests
    <3>2. \A q \in Updates \ {r} : q \notin I!Renaming(t.user)
      BY <2>1
    <3>3. \A q \in Updates \ {r} : q \notin I!Renaming(t.user)'
      BY <3>1, <3>2 DEF I!Renaming
    <3>4. r \in I!Renaming(t.user)'
      BY <1>3, <2>1 DEF I!Renaming, I!InFlight
    <3> QED
      BY <3>3, <3>4 DEF I!Renaming
  <2>2. tx[r].user \in DOMAIN users
    BY <1>1 DEF Changing
  <2>3. t.name # NoName /\ t.user \notin parted => t.mine = users[t.user].name
    BY <1>1 DEF Changing
  <2> QED
    BY <1>2, <1>3, <2>1, <2>2, <2>3 DEF Changing
<1>4. stage \in Stages /\ parted \subseteq DOMAIN users
  BY DEF Stages, I!InFlight, IdentityInv, IdentityTypeOK
<1> QED
  BY <1>1, <1>2, <1>3, <1>4, QuietIdentity DEF IdentityInv, IdentityTypeOK

LEMMA LoadGuestStep ==
    ASSUME IdentityInv, up, up', NEW r \in I!Requests, I!LoadGuest(r) PROVE IdentityInv'
<1>1. /\ pc[r] = "load" /\ pc' = [pc EXCEPT ![r] = "flush"] /\ tx[r] \in Given
      /\ UNCHANGED <<users, guests, holder, writer, parted>>
  BY DEF I!LoadGuest, I!rows, IdentityInv, IdentityTypeOK
<1>2. r \in Updates /\ pc[r] \in I!InFlight
  BY <1>1 DEF I!Requests, I!InFlight, IdentityInv, Registering
<1>3. tx[r].user \in DOMAIN users
  BY <1>2 DEF IdentityInv, Changing
<1>4. guests[users[tx[r].user].guest] \in Names
  BY <1>3 DEF IdentityInv, IdentityTypeOK, OneLoginOneGuest, I!OneLoginOneGuest
<1> DEFINE t == IF tx[r].name = NoName THEN tx[r]
                ELSE [tx[r] EXCEPT !.its = guests[users[tx[r].user].guest]]
<1>5. tx' = [tx EXCEPT ![r] = t]
  BY DEF I!LoadGuest, IdentityInv, IdentityTypeOK
<1>6. /\ t \in Given /\ t.user = tx[r].user /\ t.name = tx[r].name /\ t.mine = tx[r].mine
      /\ t.name # NoName => t.its = guests[users[t.user].guest]
  BY <1>1, <1>4 DEF Given
<1> HIDE DEF t
<1> QED
  BY <1>1, <1>2, <1>5, <1>6, ChangeStep DEF IdentityInv, IdentityTypeOK

LEMMA FlushStep ==
    ASSUME IdentityInv, up, up', NEW r \in I!Requests, I!Flush(r) PROVE IdentityInv'
<1>1. /\ pc[r] = "flush" /\ pc' = [pc EXCEPT ![r] = "commit"] /\ tx[r] \in Given
      /\ tx' = [tx EXCEPT ![r] = tx[r]]
      /\ UNCHANGED <<users, guests, holder, parted>>
  BY DEF I!Flush, I!rows, IdentityInv, IdentityTypeOK
<1>2. r \in Updates /\ pc[r] \in I!InFlight
  BY <1>1 DEF I!Requests, I!InFlight, IdentityInv, Registering
<1>3. writer' \in [I!GuestIds -> Updates \cup {NoRequest}]
  BY <1>2 DEF I!Flush, IdentityInv, IdentityTypeOK
<1>4. tx[r].name # NoName /\ tx[r].user \notin parted =>
          tx[r].its = guests[users[tx[r].user].guest]
  BY <1>1, <1>2 DEF IdentityInv, Changing
<1> QED
  BY <1>1, <1>2, <1>3, <1>4, ChangeStep

LEMMA CommitRegistration ==
    ASSUME IdentityInv, up, up', NEW r \in Registrations, I!Commit(r) PROVE IdentityInv'
<1> DEFINE row == [email |-> tx[r].email, name |-> tx[r].name, guest |-> r]
<1>1. /\ pc[r] = "commit" /\ pc' = [pc EXCEPT ![r] = "done"] /\ tx' = tx /\ parted' = parted
      /\ users' = [u \in DOMAIN users \cup {r} |-> IF u = r THEN row ELSE users[u]]
      /\ guests' = [g \in DOMAIN guests \cup {r} |-> IF g = r THEN tx[r].name ELSE guests[g]]
      /\ I!Unlock(r)
  BY DEF I!Commit, I!With
<1>2. /\ r \notin DOMAIN users /\ r \notin DOMAIN guests /\ r \notin Updates
      /\ tx[r].email \in Emails /\ tx[r].name \in Names
      /\ holder[tx[r].email] = r /\ I!Owners(tx[r].email) = {}
      /\ r \in I!Requests /\ r \in I!GuestIds
  BY <1>1, SomeAssumptions DEF IdentityInv, Registering, I!Requests, I!GuestIds
<1>3. /\ DOMAIN users' = DOMAIN users \cup {r} /\ DOMAIN guests' = DOMAIN guests \cup {r}
      /\ users'[r] = row /\ guests'[r] = tx[r].name
      /\ \A u \in DOMAIN users : u # r /\ users'[u] = users[u]
      /\ \A g \in DOMAIN guests : g # r /\ guests'[g] = guests[g]
  BY <1>1, <1>2
<1>4. /\ row \in [email : Emails, name : Names, guest : I!GuestIds]
      /\ row.email = tx[r].email /\ row.name = tx[r].name /\ row.guest = r
  BY <1>2
<1> HIDE DEF row
<1>5. IdentityTypeOK'
  <2>1. /\ users' \in [DOMAIN users' -> [email : Emails, name : Names, guest : I!GuestIds]]
        /\ guests' \in [DOMAIN guests' -> Names]
    BY <1>1, <1>2, <1>4 DEF IdentityInv, IdentityTypeOK
  <2>2. DOMAIN users' \subseteq Logins /\ DOMAIN guests' \subseteq I!GuestIds
    BY <1>2, <1>3 DEF IdentityInv, IdentityTypeOK, Logins
  <2>3. /\ holder' \in [Emails -> Registrations \cup {NoRequest}]
        /\ writer' \in [I!GuestIds -> Updates \cup {NoRequest}]
    BY <1>1, UnlockTypes DEF IdentityInv
  <2>4. pc' \in [I!Requests -> Stages] /\ tx' \in [I!Requests -> Given] /\ parted' \subseteq DOMAIN users'
    BY <1>1, <1>3 DEF IdentityInv, IdentityTypeOK, Stages
  <2> QED
    BY <2>1, <2>2, <2>3, <2>4 DEF IdentityTypeOK
<1>6. \A u \in DOMAIN users :
          /\ users[u].guest \in DOMAIN guests /\ users[u].guest # r
          /\ users[u].email # tx[r].email
  BY <1>2, <1>3 DEF IdentityInv, OneLoginOneGuest, I!OneLoginOneGuest, I!Owners
<1>7. OneLoginOneGuest'
  <2>1. \A u \in DOMAIN users' : users'[u].guest \in DOMAIN guests'
    BY <1>3, <1>4, <1>6
  <2>2. ASSUME NEW u \in DOMAIN users', NEW v \in DOMAIN users',
               users'[u].email = users'[v].email \/ users'[u].guest = users'[v].guest
        PROVE  u = v
    <3>1. u \in DOMAIN users \/ u = r
      BY <1>3
    <3>2. v \in DOMAIN users \/ v = r
      BY <1>3
    <3> QED
      BY <1>3, <1>4, <1>6, <2>2, <3>1, <3>2 DEF IdentityInv, OneLoginOneGuest, I!OneLoginOneGuest
  <2> QED
    BY <2>1, <2>2 DEF OneLoginOneGuest, I!OneLoginOneGuest
<1>8. NamesPaired'
  BY <1>1, <1>3, <1>4, <1>6 DEF IdentityInv, NamesPaired, I!NamesPaired
<1>9. GuestsOwned'
  <2>1. r \notin I!SeedUsers /\ \A v \in I!SeedUsers : SeedGuest[v] # r
    BY GatewayAssumption DEF I!IdentityAssumption
  <2> QED
    BY <1>3, <1>4, <2>1 DEF IdentityInv, GuestsOwned
<1>10. ASSUME NEW q \in Registrations PROVE Registering(q)'
  <2>1. CASE q = r
    BY <1>1, <1>2, <2>1 DEF Registering, IdentityInv, IdentityTypeOK
  <2>2. CASE q # r
    <3>1. pc'[q] = pc[q] /\ tx'[q] = tx[q] /\ Registering(q)
      BY <1>1, <2>2 DEF IdentityInv, IdentityTypeOK, I!Requests
    <3>2. ASSUME pc[q] = "commit"
          PROVE  holder'[tx[q].email] = q /\ I!Owners(tx[q].email)' = {}
      <4>1. tx[q].email \in Emails /\ holder[tx[q].email] = q /\ I!Owners(tx[q].email) = {}
        BY <3>1, <3>2 DEF Registering
      <4>2. holder'[tx[q].email] = q /\ tx[q].email # tx[r].email
        BY <1>1, <1>2, <2>2, <4>1, UnlockTypes DEF IdentityInv
      <4>3. \A u \in DOMAIN users' : users'[u].email # tx[q].email
        BY <1>3, <1>4, <4>1, <4>2 DEF I!Owners
      <4> QED
        BY <3>1, <4>2, <4>3 DEF I!Owners
    <3>3. q \in DOMAIN users' \cup DOMAIN guests' => q \in DOMAIN users \cup DOMAIN guests
      BY <1>3, <2>2
    <3> QED
      BY <3>1, <3>2, <3>3 DEF Registering
  <2> QED
    BY <2>1, <2>2
<1>11. ASSUME NEW q \in Updates PROVE Changing(q)'
  <2>1. \A p \in Updates : pc'[p] = pc[p] /\ tx'[p] = tx[p]
    BY <1>1, <1>2 DEF IdentityInv, IdentityTypeOK, I!Requests
  <2>2. I!Renaming(tx[q].user)' = I!Renaming(tx[q].user)
    BY <2>1 DEF I!Renaming
  <2> QED
    BY <1>1, <1>3, <1>6, <2>1, <2>2 DEF IdentityInv, Changing
<1> QED
  BY <1>5, <1>7, <1>8, <1>9, <1>10, <1>11 DEF IdentityInv, NothingRunsWhileDown

\* A change writes both names or neither, unless it was overlapped.
LEMMA CommitChange ==
    ASSUME IdentityInv, up, up', NEW r \in Updates, I!Commit(r) PROVE IdentityInv'
<1> DEFINE u == tx[r].user
           mine == I!Written(r, tx[r].mine)
           its == I!Written(r, tx[r].its)
<1>1. /\ pc[r] = "commit" /\ pc' = [pc EXCEPT ![r] = "done"] /\ tx' = tx /\ parted' = parted
      /\ users' = IF mine THEN [users EXCEPT ![u].name = tx[r].name] ELSE users
      /\ guests' = IF its THEN [guests EXCEPT ![users[u].guest] = tx[r].name] ELSE guests
      /\ I!Unlock(r) /\ r \notin Registrations /\ r \in I!Requests
  BY SomeAssumptions DEF I!Commit, I!Rename, I!Requests
<1>2. /\ Changing(r) /\ u \in DOMAIN users /\ users[u].guest \in DOMAIN guests
      /\ tx[r].name \in Names \cup {NoName} /\ (mine \/ its => tx[r].name \in Names)
  BY <1>1 DEF IdentityInv, Changing, I!InFlight, OneLoginOneGuest, I!OneLoginOneGuest,
              IdentityTypeOK, Given, I!Written
<1>3. /\ DOMAIN users' = DOMAIN users /\ DOMAIN guests' = DOMAIN guests
      /\ \A v \in DOMAIN users : users'[v].email = users[v].email /\ users'[v].guest = users[v].guest
      /\ \A v \in DOMAIN users \ {u} : users'[v] = users[v]
      /\ \A g \in DOMAIN guests \ {users[u].guest} : guests'[g] = guests[g]
      /\ users' \in [DOMAIN users -> [email : Emails, name : Names, guest : I!GuestIds]]
      /\ guests' \in [DOMAIN guests -> Names]
  <2>1. /\ users \in [DOMAIN users -> [email : Emails, name : Names, guest : I!GuestIds]]
        /\ guests \in [DOMAIN guests -> Names]
    BY DEF IdentityInv, IdentityTypeOK
  <2> HIDE DEF mine, its
  <2>2. /\ DOMAIN users' = DOMAIN users
        /\ \A v \in DOMAIN users : users'[v].email = users[v].email /\ users'[v].guest = users[v].guest
        /\ \A v \in DOMAIN users \ {u} : users'[v] = users[v]
        /\ users' \in [DOMAIN users -> [email : Emails, name : Names, guest : I!GuestIds]]
    BY <1>1, <1>2, <2>1
  <2>3. /\ DOMAIN guests' = DOMAIN guests
        /\ \A g \in DOMAIN guests \ {users[u].guest} : guests'[g] = guests[g]
        /\ guests' \in [DOMAIN guests -> Names]
    BY <1>1, <1>2, <2>1
  <2> QED
    BY <2>2, <2>3
<1>4. \A v \in DOMAIN users \ {u} :
          users[v].guest \in DOMAIN guests /\ guests'[users[v].guest] = guests[users[v].guest]
  BY <1>2, <1>3 DEF IdentityInv, OneLoginOneGuest, I!OneLoginOneGuest
<1>5. IdentityTypeOK'
  <2>1. /\ holder' \in [Emails -> Registrations \cup {NoRequest}]
        /\ writer' \in [I!GuestIds -> Updates \cup {NoRequest}]
    BY <1>1, UnlockTypes DEF IdentityInv
  <2>2. pc' \in [I!Requests -> Stages] /\ tx' \in [I!Requests -> Given]
    BY <1>1 DEF IdentityInv, IdentityTypeOK, Stages
  <2> QED
    BY <1>1, <1>3, <2>1, <2>2 DEF IdentityInv, IdentityTypeOK
<1>6. OneLoginOneGuest' /\ GuestsOwned'
  BY <1>3 DEF IdentityInv, OneLoginOneGuest, I!OneLoginOneGuest, GuestsOwned
<1>7. NamesPaired'
  <2>1. ASSUME u \notin parted PROVE guests'[users[u].guest] = users'[u].name
    <3>1. guests[users[u].guest] = users[u].name
      BY <1>2, <2>1 DEF IdentityInv, NamesPaired, I!NamesPaired
    <3>2. CASE tx[r].name = NoName
      BY <1>1, <3>1, <3>2 DEF I!Written
    <3>3. CASE tx[r].name # NoName
      <4>1. tx[r].mine = users[u].name /\ tx[r].its = users[u].name
        BY <1>1, <1>2, <2>1, <3>1, <3>3 DEF Changing, I!InFlight
      <4>2. (mine <=> tx[r].name # users[u].name) /\ (its <=> tx[r].name # users[u].name)
        BY <3>3, <4>1 DEF I!Written
      <4>3. users \in [DOMAIN users -> [email : Emails, name : Names, guest : I!GuestIds]]
        BY DEF IdentityInv, IdentityTypeOK
      <4> HIDE DEF mine, its
      <4> QED
        BY <1>1, <1>2, <3>1, <4>2, <4>3
    <3> QED
      BY <3>2, <3>3
  <2> QED
    BY <1>1, <1>3, <1>4, <2>1 DEF IdentityInv, NamesPaired, I!NamesPaired
<1>8. ASSUME NEW q \in Registrations PROVE Registering(q)'
  <2>1. pc'[q] = pc[q] /\ tx'[q] = tx[q] /\ Registering(q) /\ q # r
    BY <1>1 DEF IdentityInv, IdentityTypeOK, I!Requests
  <2>2. I!Owners(tx[q].email)' = I!Owners(tx[q].email)
    BY <1>3, <2>1 DEF I!Owners
  <2>3. \A e \in Emails : holder[e] = q => holder'[e] = q
    BY <1>1, <2>1, UnlockTypes DEF IdentityInv
  <2> QED
    BY <1>3, <2>1, <2>2, <2>3 DEF Registering
<1>9. ASSUME NEW q \in Updates PROVE Changing(q)'
  <2>1. CASE q = r
    BY <1>1, <2>1 DEF Changing, I!InFlight, IdentityInv, IdentityTypeOK
  <2>2. CASE q # r
    <3> DEFINE v == tx[q].user
    <3>1. /\ pc'[r] = "done" /\ Changing(q)
          /\ \A p \in Updates \ {r} : pc'[p] = pc[p] /\ tx'[p] = tx[p]
      BY <1>1 DEF IdentityInv, IdentityTypeOK, I!Requests
    <3>2. ASSUME pc[q] \in I!InFlight, v \notin parted, tx[q].name # NoName
          PROVE  /\ I!Renaming(v)' = {q} /\ users'[v].name = users[v].name
                 /\ guests'[users'[v].guest] = guests[users[v].guest]
      <4>1. I!Renaming(v) = {q} /\ v \in DOMAIN users
        BY <3>1, <3>2 DEF Changing
      <4>2. \A p \in Updates : p \in I!Renaming(v)' <=> p = q
        BY <2>2, <3>1, <3>2, <4>1 DEF I!Renaming, I!InFlight
      <4>3. I!Renaming(v)' = {q}
        BY <3>1, <4>2 DEF I!Renaming
      <4>4. CASE v = u
        <5>1. tx[r].name = NoName
          BY <1>1, <2>2, <4>1, <4>4 DEF I!Renaming, I!InFlight
        <5> QED
          BY <1>1, <4>3, <5>1 DEF I!Written
      <4>5. CASE v # u
        BY <1>3, <1>4, <4>1, <4>3, <4>5
      <4> QED
        BY <4>4, <4>5
    <3> QED
      BY <1>1, <1>3, <2>2, <3>1, <3>2 DEF Changing
  <2> QED
    BY <2>1, <2>2
<1> QED
  BY <1>5, <1>6, <1>7, <1>8, <1>9 DEF IdentityInv, NothingRunsWhileDown

-----------------------------------------------------------------------------
(* Starts and stops *)

LEMMA SeedAssumptions ==
    /\ \A u, v \in I!SeedUsers : SeedEmail[u] = SeedEmail[v] \/ SeedGuest[u] = SeedGuest[v] => u = v
    /\ DemoUser \in I!SeedUsers
    /\ \A u \in I!SeedUsers :
           /\ u \notin Registrations /\ SeedGuest[u] \notin Registrations
           /\ SeedEmail[u] \in Emails /\ SeedName[u] \in Names /\ SeedGuest[u] \in I!GuestIds
BY GatewayAssumption DEF I!IdentityAssumption, I!SeedUsers, I!GuestIds

\* The seed's guests get the seed's names.
LEMMA SeedGuestsNamed ==
    /\ DOMAIN I!SeedGuests = {SeedGuest[u] : u \in I!SeedUsers}
    /\ \A u \in I!SeedUsers : I!SeedGuests[SeedGuest[u]] = SeedName[u]
<1>1. ASSUME NEW u \in I!SeedUsers
      PROVE  (CHOOSE v \in I!SeedUsers : SeedGuest[v] = SeedGuest[u]) = u
  BY SeedAssumptions
<1>2. \A u \in I!SeedUsers : SeedGuest[u] \in {SeedGuest[v] : v \in I!SeedUsers}
  OBVIOUS
<1> QED
  BY <1>1, <1>2 DEF I!SeedGuests

\* Whoever has the demo email is adopted.
LEMMA AdoptedOwner == IdentityInv => I!Adopted = I!Owners(SeedEmail[DemoUser])
BY SeedAssumptions
   DEF IdentityInv, GuestsOwned, OneLoginOneGuest, I!OneLoginOneGuest, I!Adopted, I!Owners

LEMMA SeedStep == ASSUME IdentityInv, ~up, I!Seed PROVE IdentityInv'
<1> DEFINE Name(g) == IF g \in DOMAIN I!SeedGuests THEN I!SeedGuests[g] ELSE guests[g]
<1>1. /\ \A u \in I!Fresh : u \in I!SeedUsers /\ u \notin DOMAIN users
      /\ \A u \in I!Fresh : \A v \in DOMAIN users : users[v].email # SeedEmail[u]
      /\ \A u \in DOMAIN users : u \in I!Adopted <=> users[u].email = SeedEmail[DemoUser]
      /\ holder' = holder /\ writer' = writer /\ pc' = pc /\ tx' = tx
      /\ \A r \in I!Requests : pc[r] \notin I!InFlight
  BY AdoptedOwner DEF I!Seed, I!SeedFits, I!Fresh, I!Owners, IdentityInv, NothingRunsWhileDown
<1>2. /\ DOMAIN users' = DOMAIN users \cup I!Fresh
      /\ \A u \in I!Fresh : users'[u] = I!SeedLogin(u)
      /\ \A u \in DOMAIN users : u \in I!Adopted =>
             users'[u] = [users[u] EXCEPT !.guest = SeedGuest[DemoUser]]
      /\ \A u \in DOMAIN users : u \notin I!Adopted => users'[u] = users[u]
      /\ users' = [u \in DOMAIN users' |-> users'[u]]
  BY <1>1 DEF I!Seed
<1>3. /\ \A u \in I!Fresh :
             /\ users'[u].email = SeedEmail[u] /\ users'[u].name = SeedName[u]
             /\ users'[u].guest = SeedGuest[u]
      /\ \A u \in DOMAIN users :
             /\ users'[u].email = users[u].email /\ users'[u].name = users[u].name
             /\ u \in I!Adopted => users'[u].guest = SeedGuest[DemoUser]
             /\ u \notin I!Adopted => users'[u].guest = users[u].guest
      /\ \A u \in DOMAIN users' :
             users'[u] \in [email : Emails, name : Names, guest : I!GuestIds]
  <2>1. \A u \in DOMAIN users : users[u] \in [email : Emails, name : Names, guest : I!GuestIds]
    BY DEF IdentityInv, IdentityTypeOK
  <2>2. \A u \in I!Fresh :
            I!SeedLogin(u) \in [email : Emails, name : Names, guest : I!GuestIds]
    BY <1>1, SeedAssumptions DEF I!SeedLogin
  <2>3. SeedGuest[DemoUser] \in I!GuestIds
    BY SeedAssumptions
  <2> QED
    BY <1>2, <2>1, <2>2, <2>3 DEF I!SeedLogin
<1>4. /\ DOMAIN guests' = DOMAIN guests \cup DOMAIN I!SeedGuests
      /\ guests' = [g \in DOMAIN guests' |-> Name(g)]
      /\ \A g \in DOMAIN guests' : guests'[g] = Name(g)
  BY DEF I!Seed
<1>5. DOMAIN guests' \subseteq I!GuestIds /\ guests' \in [DOMAIN guests' -> Names]
  <2>1. \A g \in DOMAIN I!SeedGuests : g \in I!GuestIds /\ I!SeedGuests[g] \in Names
    BY SeedGuestsNamed, SeedAssumptions
  <2>2. \A g \in DOMAIN guests : g \in I!GuestIds /\ guests[g] \in Names
    BY DEF IdentityInv, IdentityTypeOK
  <2> QED
    BY <1>4, <2>1, <2>2
<1>6. IdentityTypeOK'
  <2>1. users' \in [DOMAIN users' -> [email : Emails, name : Names, guest : I!GuestIds]]
    BY <1>2, <1>3
  <2>2. DOMAIN users' \subseteq Logins
    BY <1>1, <1>2 DEF IdentityInv, IdentityTypeOK, Logins
  <2>3. parted' \subseteq DOMAIN users'
    BY <1>2 DEF I!Seed, IdentityInv, IdentityTypeOK
  <2> QED
    BY <1>1, <1>5, <2>1, <2>2, <2>3 DEF IdentityInv, IdentityTypeOK
<1>7. GuestsOwned'
  <2>1. ASSUME NEW u \in DOMAIN users', users'[u].guest \in Registrations
        PROVE  users'[u].guest = u
    BY <1>1, <1>2, <1>3, <2>1, SeedAssumptions DEF IdentityInv, GuestsOwned
  <2>2. ASSUME NEW u \in DOMAIN users' \cap I!SeedUsers PROVE users'[u].email = SeedEmail[u]
    BY <1>2, <1>3 DEF IdentityInv, GuestsOwned
  <2>3. ASSUME NEW u \in DOMAIN users', NEW v \in I!SeedUsers, users'[u].guest = SeedGuest[v]
        PROVE  users'[u].email = SeedEmail[v] /\ v \in {u, DemoUser}
    <3>1. CASE u \in I!Fresh
      BY <1>1, <1>3, <2>3, <3>1, SeedAssumptions
    <3>2. CASE u \in DOMAIN users /\ u \in I!Adopted
      BY <1>1, <1>3, <2>3, <3>2, SeedAssumptions
    <3>3. CASE u \in DOMAIN users /\ u \notin I!Adopted
      BY <1>3, <2>3, <3>3 DEF IdentityInv, GuestsOwned
    <3> QED
      BY <1>2, <3>1, <3>2, <3>3
  <2> QED
    BY <2>1, <2>2, <2>3 DEF GuestsOwned
<1>8. OneLoginOneGuest'
  <2>1. ASSUME NEW u \in DOMAIN users', NEW v \in DOMAIN users',
               users'[u].email = users'[v].email
        PROVE  u = v
    BY <1>1, <1>2, <1>3, <2>1, SeedAssumptions
       DEF IdentityInv, OneLoginOneGuest, I!OneLoginOneGuest
  <2>2. \A u \in DOMAIN users' :
            u \in I!Fresh \/ u \in I!Adopted =>
                \E s \in I!SeedUsers : users'[u].guest = SeedGuest[s] /\ users'[u].email = SeedEmail[s]
    BY <1>1, <1>2, <1>3, SeedAssumptions
  <2>3. ASSUME NEW u \in DOMAIN users', NEW v \in DOMAIN users',
               users'[u].guest = users'[v].guest
        PROVE  u = v
    <3>1. CASE u \in I!Fresh \/ u \in I!Adopted
      BY <1>7, <2>1, <2>2, <2>3, <3>1 DEF GuestsOwned
    <3>2. CASE v \in I!Fresh \/ v \in I!Adopted
      BY <1>7, <2>1, <2>2, <2>3, <3>2 DEF GuestsOwned
    <3>3. CASE ~(u \in I!Fresh \/ u \in I!Adopted) /\ ~(v \in I!Fresh \/ v \in I!Adopted)
      BY <1>2, <2>3, <3>3 DEF IdentityInv, OneLoginOneGuest, I!OneLoginOneGuest
    <3> QED
      BY <3>1, <3>2, <3>3
  <2>4. ASSUME NEW u \in DOMAIN users' PROVE users'[u].guest \in DOMAIN guests'
    <3>1. CASE u \in I!Fresh \/ u \in I!Adopted
      BY <1>4, <2>2, <3>1, SeedGuestsNamed
    <3>2. CASE ~(u \in I!Fresh \/ u \in I!Adopted)
      BY <1>2, <1>4, <3>2 DEF IdentityInv, OneLoginOneGuest, I!OneLoginOneGuest
    <3> QED
      BY <3>1, <3>2
  <2> QED
    BY <2>1, <2>3, <2>4 DEF OneLoginOneGuest, I!OneLoginOneGuest
<1>9. NamesPaired'
  <2>1. parted' = parted \cup {u \in DOMAIN users \cap (I!SeedUsers \cup I!Adopted) :
                                   guests'[users'[u].guest] # users[u].name}
    BY DEF I!Seed
  <2>2. ASSUME NEW u \in DOMAIN users' \ parted' PROVE guests'[users'[u].guest] = users'[u].name
    <3>1. CASE u \in I!Fresh
      <4>1. SeedGuest[u] \in DOMAIN I!SeedGuests /\ I!SeedGuests[SeedGuest[u]] = SeedName[u]
        BY <1>1, <3>1, SeedGuestsNamed
      <4> QED
        BY <1>3, <1>4, <3>1, <4>1
    <3>2. CASE u \in DOMAIN users /\ (u \in I!SeedUsers \/ u \in I!Adopted)
      BY <1>3, <2>1, <3>2
    <3>3. CASE u \in DOMAIN users /\ u \notin I!SeedUsers /\ u \notin I!Adopted
      <4>1. users'[u].guest = users[u].guest /\ users[u].guest \in DOMAIN guests
        BY <1>3, <3>3 DEF IdentityInv, OneLoginOneGuest, I!OneLoginOneGuest
      <4>2. users[u].guest \notin DOMAIN I!SeedGuests
        BY <1>1, <3>3, SeedGuestsNamed, SeedAssumptions DEF IdentityInv, GuestsOwned
      <4>3. u \notin parted
        BY <2>1
      <4> QED
        BY <1>3, <1>4, <3>3, <4>1, <4>2, <4>3 DEF IdentityInv, NamesPaired, I!NamesPaired
    <3> QED
      BY <1>2, <3>1, <3>2, <3>3
  <2> QED
    BY <2>2 DEF NamesPaired, I!NamesPaired
<1>10. ASSUME NEW r \in Registrations PROVE Registering(r)'
  <2>1. Registering(r) /\ pc[r] \notin I!InFlight /\ pc'[r] = pc[r] /\ tx'[r] = tx[r]
    BY <1>1 DEF IdentityInv, I!Requests
  <2>2. r \notin I!Fresh /\ r \notin DOMAIN I!SeedGuests
    BY <1>1, SeedGuestsNamed, SeedAssumptions
  <2> QED
    BY <1>2, <1>4, <2>1, <2>2 DEF Registering, I!InFlight
<1>11. ASSUME NEW r \in Updates PROVE Changing(r)'
  BY <1>1 DEF IdentityInv, I!Requests, Changing
<1>12. NothingRunsWhileDown'
  BY <1>1 DEF NothingRunsWhileDown
<1> QED
  BY <1>6, <1>7, <1>8, <1>9, <1>10, <1>11, <1>12 DEF IdentityInv

LEMMA IdentityCrash == ASSUME IdentityInv, I!Crash PROVE IdentityInv'
<1>1. /\ users' = users /\ guests' = guests /\ parted' = parted
      /\ \A r \in I!Requests : pc'[r] \notin I!InFlight /\ (pc[r] \notin I!InFlight => pc'[r] = pc[r])
  BY DEF I!Crash, I!rows, I!InFlight
<1>2. IdentityTypeOK'
  <2>1. /\ holder' \in [Emails -> Registrations \cup {NoRequest}]
        /\ writer' \in [I!GuestIds -> Updates \cup {NoRequest}]
    BY DEF I!Crash
  <2>2. pc' \in [I!Requests -> Stages] /\ tx' \in [I!Requests -> Given]
    BY SomeAssumptions DEF I!Crash, IdentityInv, IdentityTypeOK, Stages
  <2> QED
    BY <1>1, <2>1, <2>2 DEF IdentityInv, IdentityTypeOK
<1>3. GuestsOwned' /\ NothingRunsWhileDown' /\ OneLoginOneGuest' /\ NamesPaired'
  BY <1>1 DEF IdentityInv, GuestsOwned, NothingRunsWhileDown, OneLoginOneGuest,
              I!OneLoginOneGuest, NamesPaired, I!NamesPaired
<1>4. ASSUME NEW r \in Registrations PROVE Registering(r)'
  <2>1. r \in I!Requests /\ Registering(r)
    BY DEF IdentityInv, I!Requests
  <2> QED
    BY <1>1, <2>1 DEF Registering, I!InFlight
<1>5. ASSUME NEW r \in Updates PROVE Changing(r)'
  <2>1. r \in I!Requests /\ Changing(r)
    BY DEF IdentityInv, I!Requests
  <2> QED
    BY <1>1, <2>1 DEF Changing, I!InFlight
<1> QED
  BY <1>2, <1>3, <1>4, <1>5 DEF IdentityInv

\* Other steps leave it alone, also one that starts the process without the seed.
LEMMA IdentityIdle ==
    ASSUME IdentityInv, UNCHANGED identityVars, up' \/ up' = up PROVE IdentityInv'
<1>1. /\ users' = users /\ guests' = guests /\ holder' = holder /\ writer' = writer
      /\ pc' = pc /\ tx' = tx /\ parted' = parted
  BY DEF identityVars
<1>2. IdentityTypeOK' /\ GuestsOwned' /\ NothingRunsWhileDown' /\ OneLoginOneGuest' /\ NamesPaired'
  BY <1>1 DEF IdentityInv, IdentityTypeOK, GuestsOwned, NothingRunsWhileDown, OneLoginOneGuest,
              I!OneLoginOneGuest, NamesPaired, I!NamesPaired
<1>3. \A r \in Registrations : Registering(r)'
  BY <1>1 DEF IdentityInv, Registering, I!Owners
<1>4. \A r \in Updates : Changing(r)'
  BY <1>1 DEF IdentityInv, Changing, I!Renaming
<1> QED
  BY <1>2, <1>3, <1>4 DEF IdentityInv

-----------------------------------------------------------------------------
(* Payments *)

LEMMA PaymentsStart == P!Init => PaymentsInv
<1> SUFFICES ASSUME P!Init PROVE PaymentsInv
  OBVIOUS
<1>1. P!IdlePoll \in PollState /\ P!IdlePoll.status = "unpaid" /\ P!IdlePoll.confirmed = FALSE
      /\ P!IdlePoll.pc = "idle"
  BY DEF P!IdlePoll, PollState
<1> QED
  BY <1>1 DEF P!Init, PaymentsInv, PaymentsTypeOK, PollTruth, P!PollTruth

\* A payment that Stripe has stays.
LEMMA StripeStep ==
    ASSUME PaymentsInv, NEW s \in Checkouts, P!CreateCheckout(s) \/ P!StripeMoves(s)
    PROVE  PaymentsInv'
<1>1. verified' = verified /\ poll' = poll
  BY DEF P!CreateCheckout, P!StripeMoves
<1>2. PICK to \in {"open", "processing", "paid", "expired"} :
          /\ stripe[s] # "paid" /\ stripe' = [stripe EXCEPT ![s] = to]
          /\ \/ pending' = pending
             \/ \E type \in {"completed", "expired", "settled"} :
                    pending' = pending \cup
                        {P!Event(s, type, IF to = "paid" THEN "paid" ELSE "unpaid")}
  <2>1. CASE P!CreateCheckout(s)
    BY <2>1 DEF P!CreateCheckout
  <2>2. CASE P!StripeMoves(s)
    <3>1. PICK m \in P!Moves :
             /\ stripe[s] = m[1] /\ stripe' = [stripe EXCEPT ![s] = m[2]]
             /\ pending' = pending \cup {P!Event(s, m[3], IF m[2] = "paid" THEN "paid" ELSE "unpaid")}
      BY <2>2 DEF P!StripeMoves
    <3>2. /\ m[1] # "paid" /\ m[2] \in {"open", "processing", "paid", "expired"}
          /\ m[3] \in {"completed", "expired", "settled"}
      BY DEF P!Moves
    <3> QED
      BY <3>1, <3>2
  <2> QED
    BY <2>1, <2>2
<1>3. /\ stripe' \in [Checkouts -> {"none", "open", "processing", "paid", "expired"}]
      /\ stripe'[s] = to /\ \A c \in Checkouts : stripe[c] = "paid" => stripe'[c] = "paid"
  BY <1>2 DEF PaymentsInv, PaymentsTypeOK
<1>4. \A e \in pending' : e \in Events /\ (e.status = "paid" => stripe'[e.checkout] = "paid")
  <2>1. \A e \in pending : e \in Events /\ (e.status = "paid" => stripe[e.checkout] = "paid")
    BY DEF PaymentsInv, PaymentsTypeOK
  <2>2. \A type \in {"completed", "expired", "settled"}, status \in {"paid", "unpaid"} :
            LET e == P!Event(s, type, status) IN
            e \in Events /\ e.status = status /\ e.checkout = s
    BY DEF P!Event, Events
  <2>3. \A e \in Events : e.checkout \in Checkouts
    BY DEF Events
  <2> QED
    BY <1>2, <1>3, <2>1, <2>2, <2>3
<1>5. \A r \in Polls :
          poll[r].status = "paid" \/ poll[r].confirmed => stripe'[poll[r].checkout] = "paid"
  <2>1. \A r \in Polls : poll[r].pc = "idle" => poll[r].status = "unpaid" /\ poll[r].confirmed = FALSE
    BY DEF PaymentsInv, P!IdlePoll
  <2> QED
    BY <1>3, <2>1 DEF PaymentsInv, PollTruth, P!PollTruth
<1>6. \A c \in verified : stripe'[c] = "paid"
  BY <1>3 DEF PaymentsInv, PaymentsTypeOK
<1> QED
  BY <1>1, <1>3, <1>4, <1>5, <1>6 DEF PaymentsInv, PaymentsTypeOK, PollTruth, P!PollTruth

\* The store takes what a paid event says.
LEMMA WebhookStep ==
    ASSUME PaymentsInv, NEW e, P!Webhook(e) PROVE PaymentsInv'
<1>1. /\ e \in Events /\ stripe' = stripe /\ poll' = poll /\ pending' \subseteq pending
      /\ e.status = "paid" => stripe[e.checkout] = "paid"
  BY DEF P!Webhook, PaymentsInv, PaymentsTypeOK
<1>2. /\ verified' \subseteq verified \cup {e.checkout}
      /\ e.checkout \in verified' => e.checkout \in verified \/ e.status = "paid"
  BY DEF P!Webhook, P!MarkPaid
<1>3. e.checkout \in Checkouts
  BY <1>1 DEF Events
<1> QED
  BY <1>1, <1>2, <1>3 DEF PaymentsInv, PaymentsTypeOK, PollTruth, P!PollTruth

\* A poll repeats what it was told.
LEMMA PollStep ==
    ASSUME PaymentsInv, NEW r \in Polls, P!Ask(r) \/ P!StripeAnswers(r) \/ P!Answer(r)
    PROVE  PaymentsInv'
<1>1. /\ stripe' = stripe /\ pending' = pending /\ verified' = verified
      /\ poll[r] \in PollState /\ poll \in [Polls -> PollState]
  BY DEF P!Ask, P!StripeAnswers, P!Answer, PaymentsInv, PaymentsTypeOK
<1>2. PICK p \in PollState :
          /\ poll' = [poll EXCEPT ![r] = p]
          /\ p.pc # "idle" /\ p.checkout \in Checkouts
          /\ p.status = "paid" \/ p.confirmed => stripe[p.checkout] = "paid"
  <2>1. CASE P!Ask(r)
    <3>1. PICK s \in Checkouts : poll' = [poll EXCEPT ![r].pc = "asked", ![r].checkout = s]
      BY <2>1 DEF P!Ask
    <3> DEFINE p == [poll[r] EXCEPT !.pc = "asked", !.checkout = s]
    <3>2. poll[r].status = "unpaid" /\ poll[r].confirmed = FALSE
      BY <2>1 DEF P!Ask, PaymentsInv, P!IdlePoll
    <3>3. p \in PollState /\ p.pc = "asked" /\ p.checkout = s
      BY <1>1 DEF PollState
    <3>4. p.status = poll[r].status /\ p.confirmed = poll[r].confirmed
      BY <1>1 DEF PollState
    <3>5. poll' = [poll EXCEPT ![r] = p]
      BY <3>1
    <3> HIDE DEF p
    <3> QED
      BY <3>2, <3>3, <3>4, <3>5
  <2>2. CASE P!StripeAnswers(r)
    <3> DEFINE status == P!PaymentStatus(poll[r].checkout)
    <3>0. /\ poll[r].checkout \in Checkouts
          /\ poll[r].status = "paid" \/ poll[r].confirmed => stripe[poll[r].checkout] = "paid"
          /\ status \in {"paid", "unpaid"}
          /\ status = "paid" => stripe[poll[r].checkout] = "paid"
      BY <2>2 DEF P!StripeAnswers, PaymentsInv, PollTruth, P!PollTruth, P!PaymentStatus
    <3> HIDE DEF status
    <3>1. CASE poll' = [poll EXCEPT ![r].pc = "told", ![r].status = status]
      <4> DEFINE p == [poll[r] EXCEPT !.pc = "told", !.status = status]
      <4>1. p \in PollState /\ p.pc = "told" /\ p.status = status
        BY <1>1, <3>0 DEF PollState
      <4>2. p.checkout = poll[r].checkout /\ p.confirmed = poll[r].confirmed
        BY <1>1 DEF PollState
      <4>3. poll' = [poll EXCEPT ![r] = p]
        BY <3>1
      <4> HIDE DEF p
      <4> QED
        BY <3>0, <4>1, <4>2, <4>3
    <3>2. CASE poll' = [poll EXCEPT ![r].pc = "failed"]
      <4> DEFINE p == [poll[r] EXCEPT !.pc = "failed"]
      <4>1. p \in PollState /\ p.pc = "failed"
        BY <1>1 DEF PollState
      <4>2. p.checkout = poll[r].checkout /\ p.status = poll[r].status
            /\ p.confirmed = poll[r].confirmed
        BY <1>1 DEF PollState
      <4>3. poll' = [poll EXCEPT ![r] = p]
        BY <3>2
      <4> HIDE DEF p
      <4> QED
        BY <3>0, <4>1, <4>2, <4>3
    <3>3. \/ poll' = [poll EXCEPT ![r].pc = "told", ![r].status = status]
          \/ poll' = [poll EXCEPT ![r].pc = "failed"]
      BY <2>2 DEF P!StripeAnswers, status
    <3> QED
      BY <3>1, <3>2, <3>3
  <2>3. CASE P!Answer(r)
    <3> DEFINE known == poll[r].checkout \in verified
               p == [poll[r] EXCEPT !.pc = "done", !.confirmed = known]
    <3>0. known \in BOOLEAN
      OBVIOUS
    <3> HIDE DEF known
    <3>1. p \in PollState /\ p.pc = "done" /\ p.confirmed = known
      BY <1>1, <3>0 DEF PollState
    <3>2. p.checkout = poll[r].checkout /\ p.status = poll[r].status
      BY <1>1 DEF PollState
    <3>3. poll' = [poll EXCEPT ![r] = p]
      BY <2>3 DEF P!Answer, known
    <3>4. /\ poll[r].checkout \in Checkouts
          /\ known => stripe[poll[r].checkout] = "paid"
          /\ poll[r].status = "paid" => stripe[poll[r].checkout] = "paid"
      BY <2>3 DEF P!Answer, PaymentsInv, PollTruth, P!PollTruth, known
    <3> HIDE DEF p
    <3> QED
      BY <3>1, <3>2, <3>3, <3>4
  <2> QED
    BY <2>1, <2>2, <2>3
<1>3. poll' \in [Polls -> PollState] /\ poll'[r] = p /\ \A q \in Polls \ {r} : poll'[q] = poll[q]
  BY <1>1, <1>2
<1> QED
  BY <1>1, <1>2, <1>3 DEF PaymentsInv, PaymentsTypeOK, PollTruth, P!PollTruth

LEMMA PaymentsCrash == ASSUME PaymentsInv, P!Crash PROVE PaymentsInv'
<1>1. stripe' = stripe /\ pending' = pending /\ verified' = {}
  BY DEF P!Crash
<1>2. ASSUME NEW r \in Polls
      PROVE  /\ poll'[r] \in PollState
             /\ poll'[r] = poll[r] \/ (poll[r].pc # "idle" /\ poll'[r].pc = "failed")
             /\ poll'[r].status = poll[r].status /\ poll'[r].confirmed = poll[r].confirmed
             /\ poll'[r].checkout = poll[r].checkout
  BY DEF P!Crash, PaymentsInv, PaymentsTypeOK, PollState
<1>3. poll' \in [Polls -> PollState]
  BY <1>2 DEF P!Crash
<1> QED
  BY <1>1, <1>2, <1>3 DEF PaymentsInv, PaymentsTypeOK, PollTruth, P!PollTruth

LEMMA PaymentsIdle == ASSUME PaymentsInv, UNCHANGED paymentVars PROVE PaymentsInv'
BY DEF PaymentsInv, PaymentsTypeOK, paymentVars, PollTruth, P!PollTruth

-----------------------------------------------------------------------------
(* The ledger *)

Amounts(ledger) == [r \in DOMAIN ledger |-> ledger[r].amount]
RowsOf(ledger, g) == {r \in DOMAIN ledger : ledger[r].guest = g}

LEMMA EarnedSum ==
    \A ledger, g : O!Earned(ledger, g) = SumFunctionOnSet(Amounts(ledger), RowsOf(ledger, g))
BY DEF Amounts, RowsOf, O!Earned, O!SumFunctionOnSet, O!FoldFunctionOnSet, O!MapThenFoldSet,
       SumFunctionOnSet, FoldFunctionOnSet, MapThenFoldSet

\* What a guest has earned is a number of points.
LEMMA EarnedType ==
    ASSUME NEW ledger, IsFiniteSet(DOMAIN ledger), \A r \in DOMAIN ledger : ledger[r].amount \in Nat,
           NEW g
    PROVE  O!Earned(ledger, g) \in Nat
<1>1. RowsOf(ledger, g) \subseteq DOMAIN ledger /\ IsFiniteSet(RowsOf(ledger, g))
  BY FS_Subset DEF RowsOf
<1>2. \A r \in RowsOf(ledger, g) : Amounts(ledger)[r] \in Nat
  BY <1>1 DEF Amounts
<1>3. SumFunctionOnSet(Amounts(ledger), RowsOf(ledger, g)) \in Nat
  BY <1>1, <1>2, SumType
<1> QED
  BY <1>3, EarnedSum

\* A new row is its guest's, and of nobody else.
LEMMA EarnedWith ==
    ASSUME NEW ledger, IsFiniteSet(DOMAIN ledger), \A q \in DOMAIN ledger : ledger[q].amount \in Nat,
           NEW r, r \notin DOMAIN ledger, NEW row, row.amount \in Nat, NEW g
    PROVE  O!Earned(O!With(ledger, r, row), g)
           = O!Earned(ledger, g) + IF row.guest = g THEN row.amount ELSE 0
<1> DEFINE more == O!With(ledger, r, row)
           S == RowsOf(ledger, g)
           T == RowsOf(more, g)
<1>1. /\ DOMAIN more = DOMAIN ledger \cup {r} /\ more[r] = row
      /\ \A q \in DOMAIN ledger : more[q] = ledger[q]
  BY DEF O!With
<1> HIDE DEF more
<1>2. /\ S \subseteq DOMAIN ledger /\ IsFiniteSet(S) /\ r \notin S
      /\ T = (IF row.guest = g THEN S \cup {r} ELSE S)
  BY <1>1, FS_Subset DEF RowsOf
<1>3. IsFiniteSet(T)
  BY <1>2, FS_AddElement
<1>4. /\ \A q \in S : Amounts(more)[q] = Amounts(ledger)[q] /\ Amounts(ledger)[q] \in Nat
      /\ Amounts(more)[r] = row.amount
  BY <1>1, <1>2 DEF Amounts
<1> HIDE DEF S, T
<1>5. SumFunctionOnSet(Amounts(more), S) = SumFunctionOnSet(Amounts(ledger), S)
  BY <1>2, <1>4, SumSame
<1>6. CASE row.guest = g
  <2>1. T \ {r} = S /\ r \in T /\ \A q \in T : Amounts(more)[q] \in Int
    BY <1>2, <1>4, <1>6
  <2>2. SumFunctionOnSet(Amounts(more), T)
        = Amounts(more)[r] + SumFunctionOnSet(Amounts(more), T \ {r})
    BY <1>3, <2>1, SumElement
  <2>3. O!Earned(ledger, g) \in Nat
    BY EarnedType
  <2>4. /\ O!Earned(ledger, g) = SumFunctionOnSet(Amounts(ledger), S)
        /\ O!Earned(more, g) = SumFunctionOnSet(Amounts(more), T)
    BY EarnedSum DEF S, T
  <2>5. O!Earned(more, g) = O!Earned(ledger, g) + row.amount
    BY <1>4, <1>5, <2>1, <2>2, <2>3, <2>4
  <2> QED
    BY <1>6, <2>5 DEF more
<1>7. CASE row.guest # g
  <2>1. O!Earned(ledger, g) \in Nat
    BY EarnedType
  <2> QED
    BY <1>2, <1>5, <1>7, <2>1, EarnedSum DEF S, T, more
<1> QED
  BY <1>6, <1>7

-----------------------------------------------------------------------------
(* Orders and bookings *)

LEMMA PointsConstants ==
    /\ Multiplier \in Nat /\ Opening \in Nat
    /\ Orders \cap Bookings = {} /\ IsFiniteSet(Orders) /\ IsFiniteSet(Bookings)
    /\ \A t \in DOMAIN BasePrice : BasePrice[t] \in Nat
    /\ \A i \in DOMAIN Price : Price[i] \in Nat
<1>1. O!PointsAssumption
  BY GatewayAssumption
<1>2. Price \in [DOMAIN Price -> Nat] /\ BasePrice \in [DOMAIN BasePrice -> Nat]
  BY <1>1, Zenon DEF O!PointsAssumption
<1>3. /\ Multiplier \in Nat /\ Opening \in Nat
      /\ Orders \cap Bookings = {} /\ IsFiniteSet(Orders) /\ IsFiniteSet(Bookings)
  BY <1>1, Zenon DEF O!PointsAssumption, O!IsFiniteSet, IsFiniteSet
<1> QED
  BY <1>2, <1>3

LEMMA CartsType == \A cart \in Carts : cart \in Seq([item : DOMAIN Price, quantity : Nat \ {0}])
<1>1. O!PointsAssumption
  BY GatewayAssumption
<1> QED
  BY <1>1, Zenon DEF O!PointsAssumption

LEMMA DemoType == Demo \in {SeedGuest[u] : u \in I!SeedUsers} /\ Demo \in I!GuestIds
BY DEF Demo, I!SeedUsers, I!GuestIds

\* A discount is no more than what it is of.
LEMMA DiscountBound ==
    ASSUME NEW s \in Nat PROVE O!Discount(s) \in Nat /\ s - O!Discount(s) \in Nat
<1> DEFINE q == (15 * s) \div 100
           r == (15 * s) % 100
<1>1. q \in Nat /\ r \in Nat /\ 15 * s = 100 * q + r
  BY Division
<1>2. O!Discount(s) = q \/ (O!Discount(s) = q + 1 /\ r >= 50)
  BY <1>1 DEF O!Discount
<1> HIDE DEF q, r
<1>3. q <= s /\ (r >= 50 => q + 1 <= s)
  BY <1>1
<1> QED
  BY <1>1, <1>2, <1>3

LEMMA SubtotalType == ASSUME NEW cart \in Carts PROVE O!Subtotal(cart) \in Nat
<1> DEFINE w == [i \in DOMAIN cart |-> Price[cart[i].item] * cart[i].quantity]
<1> DEFINE Line == [item : DOMAIN Price, quantity : Nat \ {0}]
<1>0. cart \in Seq(Line)
  BY CartsType, Zenon
<1> HIDE DEF Line
<1>1. PICK n \in Nat : DOMAIN cart = 1..n
  BY <1>0
<1>2. IsFiniteSet(DOMAIN cart)
  BY <1>1, FS_Interval
<1>3. \A i \in DOMAIN cart : cart[i] \in Line
  BY <1>0
<1>4. \A i \in DOMAIN cart : w[i] \in Nat
  <2>1. \A i \in DOMAIN cart : Price[cart[i].item] \in Nat /\ cart[i].quantity \in Nat
    BY <1>3, PointsConstants DEF Line
  <2>2. \A a, b \in Nat : a * b \in Nat
    OBVIOUS
  <2> QED
    BY <2>1, <2>2
<1>5. DOMAIN w = DOMAIN cart
  OBVIOUS
<1> HIDE DEF w
<1>6. SumFunctionOnSet(w, DOMAIN w) \in Nat
  BY <1>2, <1>4, <1>5, SumType
<1> QED
  BY <1>6 DEF w, O!Subtotal, O!SumFunction, O!SumFunctionOnSet, O!FoldFunctionOnSet, O!MapThenFoldSet,
              SumFunctionOnSet, FoldFunctionOnSet, MapThenFoldSet

\* The rows of the ledger are those of orders and bookings, so they are finitely many.
LEMMA BalanceType ==
    ASSUME PointsTypeOK, DOMAIN credits \subseteq Orders \cup Bookings
    PROVE  /\ IsFiniteSet(DOMAIN credits) /\ \A r \in DOMAIN credits : credits[r].amount \in Nat
           /\ \A g : O!Earned(credits, g) \in Nat /\ O!Balance(g) \in Nat
<1>1. IsFiniteSet(DOMAIN credits)
  BY PointsConstants, FS_Union, FS_Subset
<1>2. \A r \in DOMAIN credits : credits[r].amount \in Nat
  BY DEF PointsTypeOK
<1>3. \A g : O!Earned(credits, g) \in Nat
  BY <1>1, <1>2, EarnedType
<1>4. openings * Opening \in Nat
  BY PointsConstants DEF PointsTypeOK
<1> QED
  BY <1>1, <1>2, <1>3, <1>4 DEF O!Balance

LEMMA PointsStart == O!Init /\ DOMAIN guests = {} => PointsInv
<1> SUFFICES ASSUME O!Init, DOMAIN guests = {} PROVE PointsInv
  OBVIOUS
<1>1. /\ catalogue = FALSE /\ openings = 0
      /\ orders = [r \in {} |-> 0] /\ bookings = [r \in {} |-> 0] /\ credits = [r \in {} |-> 0]
      /\ DOMAIN orders = {} /\ DOMAIN bookings = {} /\ DOMAIN credits = {}
      /\ desk = [r \in O!Requests |-> O!CleanDraft]
  BY DEF O!Init
<1>2. O!CleanDraft \in Draft /\ O!CleanDraft.pc = "idle"
  BY DEF O!CleanDraft, Draft
<1>3. PointsTypeOK
  BY <1>1, <1>2 DEF PointsTypeOK
<1>4. CreditsOwned /\ LedgerExplained
  BY <1>1, <1>2 DEF CreditsOwned, LedgerExplained, O!LedgerExplained, Demo, O!Requests
<1>5. \A r \in O!Requests : AtDesk(r)
  BY <1>1, <1>2 DEF AtDesk, Owed, O!Written
<1> QED
  BY <1>3, <1>4, <1>5 DEF PointsInv

\* A request that stays as it is has what it wrote, whatever comes to the ledger.
LEMMA DeskKept ==
    ASSUME PointsInv, DOMAIN guests \subseteq DOMAIN guests', NEW q \in O!Requests,
           \A g : O!Balance(g) \in Nat /\ O!Balance(g)' \in Nat /\ O!Balance(g) <= O!Balance(g)',
           desk'[q] = desk[q], q \in DOMAIN credits' => q \in DOMAIN credits
    PROVE  /\ AtDesk(q)'
           /\ q \in Bookings /\ desk'[q].pc = "done" =>
                  desk'[q].points <= desk'[q].shown /\ desk'[q].shown <= O!Balance(desk[q].guest)'
<1>1. PICK d \in Draft : d = desk[q]
  BY DEF PointsInv, PointsTypeOK
<1>2. /\ AtDesk(q) /\ d.points \in Nat /\ d.shown \in Nat
      /\ q \in Bookings /\ d.pc = "done" => d.points <= d.shown /\ d.shown <= O!Balance(d.guest)
  BY <1>1 DEF PointsInv, LedgerExplained, O!LedgerExplained, Draft
<1>3. O!Balance(d.guest) \in Nat /\ O!Balance(d.guest)' \in Nat
      /\ O!Balance(d.guest) <= O!Balance(d.guest)'
  OBVIOUS
<1>4. Owed(q, d)'
  BY <1>1, <1>2, <1>3 DEF AtDesk, Owed
<1>5. O!Balance(desk[q].guest)' = O!Balance(d.guest)'
  BY <1>1 DEF O!Balance
<1>6. AtDesk(q)'
  <2>1. desk'[q] = d /\ AtDesk(q)
    BY <1>1, <1>2
  <2>2. Owed(q, desk[q])'
    BY <1>4, <2>1 DEF Owed, O!Balance
  <2> QED
    BY <1>1, <2>1, <2>2 DEF AtDesk
<1>7. d.shown <= O!Balance(d.guest) => d.shown <= O!Balance(d.guest)'
  BY <1>2, <1>3
<1> QED
  BY <1>1, <1>2, <1>5, <1>6, <1>7

\* A step of one request that commits nothing.
LEMMA DeskStep ==
    ASSUME PointsInv, NEW r \in O!Requests, NEW d \in Draft, r \notin DOMAIN credits,
           d.pc \notin {"idle", "done"}, Owed(r, d),
           UNCHANGED <<guests, catalogue, orders, bookings, credits, openings>>,
           desk' = [desk EXCEPT ![r] = d]
    PROVE  PointsInv'
<1>1. PointsTypeOK'
  BY DEF PointsInv, PointsTypeOK
<1>2. \A g : O!Balance(g) \in Nat /\ O!Balance(g)' = O!Balance(g)
  <2>1. DOMAIN credits \subseteq Orders \cup Bookings
    BY DEF PointsInv, PointsTypeOK, LedgerExplained, O!LedgerExplained
  <2> QED
    BY <2>1, BalanceType DEF PointsInv, O!Balance
<1>3. ASSUME NEW q \in O!Requests, q # r
      PROVE  /\ AtDesk(q)'
             /\ q \in Bookings /\ desk'[q].pc = "done" =>
                    desk'[q].points <= desk'[q].shown /\ desk'[q].shown <= O!Balance(desk[q].guest)'
  <2>1. desk'[q] = desk[q]
    BY <1>3 DEF PointsInv, PointsTypeOK
  <2>2. \A g : O!Balance(g) \in Nat /\ O!Balance(g)' \in Nat /\ O!Balance(g) <= O!Balance(g)'
    BY <1>2
  <2> QED
    BY <2>1, <2>2, DeskKept
<1>4. desk'[r] = d
  BY DEF PointsInv, PointsTypeOK
<1>5. AtDesk(r)'
  <2>1. Owed(r, desk[r])'
    BY <1>4 DEF Owed, O!Balance
  <2> QED
    BY <1>4, <2>1 DEF AtDesk
<1>6. LedgerExplained'
  <2>1. \A q \in Bookings : desk'[q].pc = "done" =>
            desk'[q].points <= desk'[q].shown /\ desk'[q].shown <= O!Balance(desk[q].guest)'
    BY <1>3, <1>4 DEF O!Requests
  <2> QED
    BY <2>1 DEF PointsInv, LedgerExplained, O!LedgerExplained
<1> QED
  BY <1>1, <1>3, <1>5, <1>6 DEF PointsInv, CreditsOwned

\* What a request that has not committed looks like.
LEMMA OpenDesk ==
    ASSUME PointsInv, NEW r \in O!Requests, desk[r].pc # "done"
    PROVE  /\ desk \in [O!Requests -> Draft] /\ desk[r] \in Draft /\ r \notin DOMAIN credits
           /\ Owed(r, desk[r]) /\ (desk[r].pc = "idle" => desk[r] = O!CleanDraft)
BY DEF PointsInv, PointsTypeOK, AtDesk

LEMMA RefusePoints ==
    ASSUME PointsInv, NEW r \in O!Requests, desk[r].pc = "idle", O!Refuse(r),
           UNCHANGED <<guests, catalogue, orders, bookings, credits, openings>>
    PROVE  PointsInv'
<1> DEFINE d == [desk[r] EXCEPT !.pc = "refused"]
<1>1. r \notin DOMAIN credits /\ desk[r] \in Draft
  BY OpenDesk
<1>2. d \in Draft /\ d.pc = "refused"
  BY <1>1 DEF Draft
<1>3. desk' = [desk EXCEPT ![r] = d]
  BY DEF O!Refuse
<1> HIDE DEF d
<1>4. Owed(r, d)
  BY <1>2 DEF Owed, O!Written
<1> QED
  BY <1>1, <1>2, <1>3, <1>4, DeskStep

LEMMA PlaceOrderStep ==
    ASSUME PointsInv, UNCHANGED guests, NEW r, O!PlaceOrder(r) PROVE PointsInv'
<1>1. /\ r \in Orders /\ r \in O!Requests /\ r \notin Bookings /\ desk[r].pc = "idle"
      /\ UNCHANGED <<guests, catalogue, orders, bookings, credits, openings>>
  BY PointsConstants DEF O!PlaceOrder, O!Requests
<1>2. CASE O!Refuse(r)
  BY <1>1, <1>2, RefusePoints
<1>3. CASE ~O!Refuse(r)
  <2>1. PICK cart \in Carts :
          LET subtotal == O!Subtotal(cart)
              total == subtotal - O!Discount(subtotal)
          IN  desk' = [desk EXCEPT ![r].pc = "save", ![r].guest = Demo,
                           ![r].subtotal = subtotal, ![r].total = total,
                           ![r].points = O!ComputePoints(total, 1)]
    BY <1>3 DEF O!PlaceOrder, Demo
  <2> DEFINE subtotal == O!Subtotal(cart)
             total == subtotal - O!Discount(subtotal)
             points == O!ComputePoints(total, 1)
             d == [desk[r] EXCEPT !.pc = "save", !.guest = Demo, !.subtotal = subtotal,
                                  !.total = total, !.points = points]
  <2>2. subtotal \in Nat /\ total \in Nat
    BY SubtotalType, DiscountBound
  <2>3. points \in Nat /\ points = total \div 100
    <3> HIDE DEF total
    <3>1. total \div 100 \in Nat
      BY <2>2, Division
    <3> QED
      BY <3>1 DEF O!ComputePoints
  <2>4. catalogue /\ Demo \in DOMAIN guests
    BY <1>3 DEF O!PlaceOrder, PointsInv, CreditsOwned
  <2>5. desk' = [desk EXCEPT ![r] = d]
    BY <2>1
  <2>6. r \notin DOMAIN credits /\ desk[r] \in Draft
    BY <1>1, OpenDesk
  <2> HIDE DEF subtotal, total, points
  <2>7. d \in Draft /\ d.pc = "save" /\ d.guest = Demo /\ d.total = total /\ d.points = points
    BY <2>2, <2>3, <2>6, DemoType DEF Draft, O!Written
  <2> HIDE DEF d
  <2>8. Owed(r, d)
    BY <1>1, <2>3, <2>4, <2>7 DEF Owed
  <2> QED
    BY <1>1, <2>5, <2>6, <2>7, <2>8, DeskStep
<1> QED
  BY <1>2, <1>3

LEMMA BookStep ==
    ASSUME PointsInv, DOMAIN guests \subseteq I!GuestIds, UNCHANGED guests, NEW r, O!Book(r)
    PROVE  PointsInv'
<1>1. /\ r \in Bookings /\ r \in O!Requests /\ r \notin Orders /\ desk[r].pc = "idle"
      /\ UNCHANGED <<guests, catalogue, orders, bookings, credits, openings>>
  BY PointsConstants DEF O!Book, O!Requests
<1>2. CASE O!Refuse(r)
  BY <1>1, <1>2, RefusePoints
<1>3. CASE ~O!Refuse(r)
  <2>1. PICK g \in DOMAIN guests, t \in DOMAIN BasePrice :
          desk' = [desk EXCEPT ![r].pc = "earn", ![r].guest = g, ![r].total = BasePrice[t],
                               ![r].points = O!ComputePoints(BasePrice[t], Multiplier)]
    BY <1>3 DEF O!Book
  <2> DEFINE total == BasePrice[t]
             points == O!ComputePoints(total, Multiplier)
             d == [desk[r] EXCEPT !.pc = "earn", !.guest = g, !.total = total, !.points = points]
  <2>2. total \in Nat
    BY PointsConstants
  <2> HIDE DEF total
  <2>3. points \in Nat /\ points = Multiplier * (total \div 100)
    <3>1. total \div 100 \in Nat
      BY <2>2, Division
    <3>2. \A a, b \in Nat : a * b \in Nat /\ a * b = b * a
      OBVIOUS
    <3> QED
      BY <3>1, <3>2, PointsConstants DEF O!ComputePoints
  <2>4. desk' = [desk EXCEPT ![r] = d]
    BY <2>1 DEF total
  <2>5. r \notin DOMAIN credits /\ desk[r] \in Draft /\ g \in I!GuestIds
    BY <1>1, OpenDesk
  <2> HIDE DEF points
  <2>6. d \in Draft /\ d.pc = "earn" /\ d.guest = g /\ d.total = total /\ d.points = points
    BY <2>2, <2>3, <2>5 DEF Draft, O!Written
  <2> HIDE DEF d
  <2>7. Owed(r, d)
    BY <1>1, <2>1, <2>3, <2>6 DEF Owed
  <2> QED
    BY <1>1, <2>4, <2>5, <2>6, <2>7, DeskStep
<1> QED
  BY <1>2, <1>3

LEMMA EarnStep ==
    ASSUME PointsInv, UNCHANGED guests, NEW r \in O!Requests, O!Earn(r) PROVE PointsInv'
<1> DEFINE next == IF r \in Orders THEN "commit" ELSE "save"
           wrote == desk[r].wrote \cup {"credit"}
           d == [desk[r] EXCEPT !.pc = next, !.wrote = wrote]
<1>1. /\ desk[r].pc = "earn" /\ desk' = [desk EXCEPT ![r] = d]
      /\ UNCHANGED <<guests, catalogue, orders, bookings, credits, openings>>
  BY DEF O!Earn
<1>2. r \notin DOMAIN credits /\ desk[r] \in Draft /\ Owed(r, desk[r])
  BY <1>1, OpenDesk
<1>3. next \in {"commit", "save"} /\ (r \in Bookings => next = "save")
  BY PointsConstants
<1>4. wrote \in SUBSET {"credit", "purchase"} /\ "credit" \in wrote
  BY <1>2 DEF Draft
<1> HIDE DEF next, wrote
<1>5. d \in Draft /\ d.pc = next /\ d.wrote = wrote
  BY <1>2, <1>3, <1>4 DEF Draft, O!Written
<1>6. d.guest = desk[r].guest /\ d.total = desk[r].total /\ d.points = desk[r].points
  BY <1>2 DEF Draft
<1> HIDE DEF d
<1>7. Owed(r, d)
  BY <1>1, <1>2, <1>3, <1>4, <1>5, <1>6 DEF Owed, O!Written
<1> QED
  BY <1>1, <1>2, <1>3, <1>5, <1>7, DeskStep

LEMMA SaveStep ==
    ASSUME PointsInv, UNCHANGED guests, NEW r \in O!Requests, O!Save(r) PROVE PointsInv'
<1>1. /\ desk[r].pc = "save"
      /\ UNCHANGED <<guests, catalogue, orders, bookings, credits, openings>>
  BY DEF O!Save
<1>2. r \notin DOMAIN credits /\ desk[r] \in Draft /\ Owed(r, desk[r])
  BY <1>1, OpenDesk
<1>3. CASE desk' = [desk EXCEPT ![r] = O!Failed]
  <2>1. O!Failed \in Draft /\ O!Failed.pc = "failed"
    BY DEF O!Failed, O!CleanDraft, Draft
  <2>2. Owed(r, O!Failed)
    BY <2>1 DEF Owed, O!Written
  <2> QED
    BY <1>1, <1>2, <1>3, <2>1, <2>2, DeskStep
<1>4. CASE desk' # [desk EXCEPT ![r] = O!Failed]
  <2> DEFINE next == IF r \in Orders THEN "earn" ELSE "balance"
             wrote == desk[r].wrote \cup {"purchase"}
             d == [desk[r] EXCEPT !.pc = next, !.wrote = wrote]
  <2>1. desk' = [desk EXCEPT ![r] = d]
    BY <1>4 DEF O!Save
  <2>2. /\ next \in {"earn", "balance"}
        /\ r \in Bookings => next = "balance"
        /\ r \in Orders => next = "earn"
    BY PointsConstants
  <2>3. /\ wrote \in SUBSET {"credit", "purchase"}
        /\ "credit" \in desk[r].wrote => "credit" \in wrote
    BY <1>2 DEF Draft
  <2> HIDE DEF next, wrote
  <2>4. d \in Draft /\ d.pc = next /\ d.wrote = wrote
    BY <1>2, <2>2, <2>3 DEF Draft, O!Written
  <2>5. d.guest = desk[r].guest /\ d.total = desk[r].total /\ d.points = desk[r].points
    BY <1>2 DEF Draft
  <2> HIDE DEF d
  <2>6. Owed(r, d)
    BY <1>1, <1>2, <2>2, <2>3, <2>4, <2>5 DEF Owed, O!Written
  <2> QED
    BY <1>1, <1>2, <2>1, <2>2, <2>4, <2>6, DeskStep
<1> QED
  BY <1>3, <1>4

\* The balance shown has the row of the booking once.
LEMMA ReadBalanceStep ==
    ASSUME PointsInv, UNCHANGED guests, NEW r \in O!Requests, O!ReadBalance(r) PROVE PointsInv'
<1> DEFINE shown == O!Shown(r)
           d == [desk[r] EXCEPT !.pc = "commit", !.shown = shown]
<1>1. /\ desk[r].pc = "balance" /\ desk' = [desk EXCEPT ![r] = d]
      /\ UNCHANGED <<guests, catalogue, orders, bookings, credits, openings>>
  BY DEF O!ReadBalance
<1>2. r \notin DOMAIN credits /\ desk[r] \in Draft /\ Owed(r, desk[r])
  BY <1>1, OpenDesk
<1>3. O!Balance(desk[r].guest) \in Nat /\ desk[r].points \in Nat
  <2>1. DOMAIN credits \subseteq Orders \cup Bookings
    BY DEF PointsInv, PointsTypeOK, LedgerExplained, O!LedgerExplained
  <2> QED
    BY <1>2, <2>1, BalanceType DEF PointsInv, Draft
<1>4. /\ shown \in Nat
      /\ "credit" \in desk[r].wrote => shown = O!Balance(desk[r].guest) + desk[r].points
  BY <1>3 DEF O!Shown
<1> HIDE DEF shown
<1>5. d \in Draft /\ d.pc = "commit" /\ d.shown = shown
  BY <1>2, <1>4 DEF Draft, O!Written
<1>6. d.guest = desk[r].guest /\ d.total = desk[r].total /\ d.points = desk[r].points
      /\ d.wrote = desk[r].wrote
  BY <1>2 DEF Draft
<1> HIDE DEF d
<1>7. r \in Bookings => "credit" \in desk[r].wrote
  BY <1>1, <1>2 DEF Owed, O!Written
<1>8. Owed(r, d)
  <2>1. CASE r \in Bookings
    <3>1. "credit" \in d.wrote /\ d.points <= d.shown /\ d.shown <= O!Balance(d.guest) + d.points
      BY <2>1, <1>3, <1>4, <1>5, <1>6, <1>7
    <3> QED
      BY <1>1, <1>2, <1>5, <1>6, <2>1, <3>1, PointsConstants DEF Owed, O!Written
  <2>2. CASE r \in Orders
    <3> QED
      BY <1>1, <1>2, <1>5, <1>6, <2>2, PointsConstants DEF Owed, O!Written
  <2> QED
    BY <2>1, <2>2 DEF O!Requests
<1> QED
  BY <1>1, <1>2, <1>5, <1>8, DeskStep

\* A commit brings the purchase and its row together.
LEMMA CommitPoints ==
    ASSUME PointsInv, DOMAIN guests \subseteq I!GuestIds, UNCHANGED guests,
           NEW r \in O!Requests, O!Commit(r)
    PROVE  PointsInv'
<1>1. PICK d \in Draft : d = desk[r]
  BY DEF PointsInv, PointsTypeOK
<1> DEFINE row == [guest |-> d.guest, amount |-> d.points]
           order == [subtotal |-> d.subtotal, total |-> d.total]
           booking == [guest |-> d.guest, total |-> d.total, points |-> d.points]
           ended == [d EXCEPT !.pc = "done"]
<1>2. d.pc = "commit" /\ r \notin DOMAIN credits /\ Owed(r, d)
  BY <1>1, OpenDesk DEF O!Commit
<1>3. /\ "credit" \in d.wrote /\ d.guest \in DOMAIN guests /\ d.guest \in I!GuestIds
      /\ d.points \in Nat /\ d.total \in Nat /\ d.subtotal \in Nat /\ d.shown \in Nat
      /\ r \in Orders => d.guest = Demo /\ d.points = d.total \div 100
      /\ r \in Bookings => /\ d.points = Multiplier * (d.total \div 100)
                           /\ d.points <= d.shown /\ d.shown <= O!Balance(d.guest) + d.points
  BY <1>2 DEF Owed, O!Written, Draft
<1>4. /\ credits' = O!With(credits, r, row)
      /\ orders' = (IF r \in Orders THEN O!With(orders, r, order) ELSE orders)
      /\ bookings' = (IF r \in Bookings THEN O!With(bookings, r, booking) ELSE bookings)
      /\ UNCHANGED <<catalogue, openings, guests>>
  BY <1>1, <1>3 DEF O!Commit
<1>5. desk' = [desk EXCEPT ![r] = ended]
  BY <1>1 DEF O!Commit
<1>6. /\ row.guest = d.guest /\ row.amount = d.points /\ row \in [guest : I!GuestIds, amount : Nat]
      /\ order.total = d.total /\ order \in [subtotal : Nat, total : Nat]
      /\ booking.guest = d.guest /\ booking.total = d.total /\ booking.points = d.points
      /\ booking \in [guest : I!GuestIds, total : Nat, points : Nat]
      /\ row = [guest |-> d.guest, amount |-> d.points]
  BY <1>3
<1>7. /\ ended \in Draft /\ ended.pc = "done" /\ ended.points = d.points /\ ended.shown = d.shown
      /\ ended.guest = d.guest
  BY DEF Draft
<1> HIDE DEF row, order, booking, ended
<1>8. /\ DOMAIN credits' = DOMAIN credits \cup {r} /\ credits'[r] = row
      /\ \A q \in DOMAIN credits : credits'[q] = credits[q]
  BY <1>2, <1>4 DEF O!With
<1>9. /\ DOMAIN orders' = (IF r \in Orders THEN DOMAIN orders \cup {r} ELSE DOMAIN orders)
      /\ r \in Orders => orders'[r] = order
      /\ \A q \in DOMAIN orders \ {r} : orders'[q] = orders[q]
      /\ r \notin Orders => orders' = orders
      /\ orders' \in [DOMAIN orders' -> [subtotal : Nat, total : Nat]]
  BY <1>4, <1>6 DEF O!With, PointsInv, PointsTypeOK
<1>10. /\ DOMAIN bookings' = (IF r \in Bookings THEN DOMAIN bookings \cup {r} ELSE DOMAIN bookings)
       /\ r \in Bookings => bookings'[r] = booking
       /\ \A q \in DOMAIN bookings \ {r} : bookings'[q] = bookings[q]
       /\ r \notin Bookings => bookings' = bookings
       /\ bookings' \in [DOMAIN bookings' -> [guest : I!GuestIds, total : Nat, points : Nat]]
  <2> DEFINE Row == [guest : I!GuestIds, total : Nat, points : Nat]
  <2>1. bookings \in [DOMAIN bookings -> Row] /\ booking \in Row
    BY <1>6 DEF PointsInv, PointsTypeOK
  <2> HIDE DEF Row
  <2>2. bookings' \in [DOMAIN bookings' -> Row]
    BY <1>4, <2>1 DEF O!With
  <2>3. bookings' \in [DOMAIN bookings' -> [guest : I!GuestIds, total : Nat, points : Nat]]
    BY <2>2 DEF Row
  <2> QED
    BY <1>4, <2>3 DEF O!With
<1>11. credits' \in [DOMAIN credits' -> [guest : I!GuestIds, amount : Nat]]
  <2> DEFINE Row == [guest : I!GuestIds, amount : Nat]
  <2>1. credits \in [DOMAIN credits -> Row] /\ row \in Row
    BY <1>6 DEF PointsInv, PointsTypeOK
  <2> HIDE DEF Row
  <2>2. credits' \in [DOMAIN credits' -> Row]
    BY <1>4, <2>1 DEF O!With
  <2> QED
    BY <2>2 DEF Row
<1>12. desk' \in [O!Requests -> Draft] /\ desk'[r] = ended
       /\ \A q \in O!Requests \ {r} : desk'[q] = desk[q]
  BY <1>5, <1>7 DEF PointsInv, PointsTypeOK
<1>13. PointsTypeOK'
  BY <1>4, <1>9, <1>10, <1>11, <1>12 DEF PointsInv, PointsTypeOK
<1>14. /\ \A g : O!Balance(g) \in Nat /\ O!Balance(g)' \in Nat /\ O!Balance(g) <= O!Balance(g)'
       /\ O!Balance(d.guest)' = O!Balance(d.guest) + d.points
  <2>1. DOMAIN credits \subseteq Orders \cup Bookings
    BY DEF PointsInv, PointsTypeOK, LedgerExplained, O!LedgerExplained
  <2>2. /\ IsFiniteSet(DOMAIN credits) /\ \A q \in DOMAIN credits : credits[q].amount \in Nat
        /\ \A g : O!Earned(credits, g) \in Nat /\ O!Balance(g) \in Nat
    BY <2>1, BalanceType DEF PointsInv
  <2>3. \A g : O!Earned(credits', g) = O!Earned(credits, g) + IF row.guest = g THEN row.amount ELSE 0
    BY <1>2, <1>3, <1>4, <1>6, <2>2, EarnedWith
  <2>4. \A g : O!Balance(g)' = O!Balance(g) + IF d.guest = g THEN d.points ELSE 0
    <3> SUFFICES ASSUME NEW g
                 PROVE  O!Balance(g)' = O!Balance(g) + IF d.guest = g THEN d.points ELSE 0
      OBVIOUS
    <3> DEFINE opening == IF g = Demo THEN openings * Opening ELSE 0
    <3>1. opening \in Nat
      BY PointsConstants DEF PointsInv, PointsTypeOK
    <3>2. /\ O!Balance(g) = O!Earned(credits, g) + opening
          /\ O!Balance(g)' = O!Earned(credits', g) + opening
      BY <1>4 DEF O!Balance, Demo
    <3> HIDE DEF opening
    <3> QED
      BY <1>3, <1>6, <2>2, <2>3, <3>1, <3>2
  <2> QED
    BY <1>3, <2>2, <2>4
<1>15. ASSUME NEW q \in O!Requests, q # r
       PROVE  /\ AtDesk(q)'
              /\ q \in Bookings /\ desk'[q].pc = "done" =>
                     desk'[q].points <= desk'[q].shown /\ desk'[q].shown <= O!Balance(desk[q].guest)'
  BY <1>4, <1>8, <1>12, <1>14, <1>15, DeskKept
<1>16. AtDesk(r)'
  BY <1>7, <1>12 DEF AtDesk, Owed, O!Written
<1>17. r \in Bookings => desk'[r].points <= desk'[r].shown /\ desk'[r].shown <= O!Balance(desk[r].guest)'
  <2>1. O!Balance(desk[r].guest)' = O!Balance(d.guest)'
    BY <1>7, <1>12 DEF O!Balance
  <2> QED
    BY <1>3, <1>7, <1>12, <1>14, <2>1
<1>18. LedgerExplained'
  <2>1. DOMAIN credits' = DOMAIN orders' \cup DOMAIN bookings'
    BY <1>8, <1>9, <1>10 DEF PointsInv, LedgerExplained, O!LedgerExplained, O!Requests
  <2>2. \A q \in DOMAIN orders' :
            credits'[q] = [guest |-> Demo, amount |-> orders'[q].total \div 100]
    <3>1. \A q \in DOMAIN orders :
              /\ credits[q] = [guest |-> Demo, amount |-> orders[q].total \div 100]
              /\ q \in DOMAIN credits /\ q # r
      BY <1>2 DEF PointsInv, LedgerExplained, O!LedgerExplained, Demo
    <3>2. r \in Orders => credits'[r] = [guest |-> Demo, amount |-> orders'[r].total \div 100]
      BY <1>3, <1>6, <1>8, <1>9
    <3> QED
      BY <1>8, <1>9, <3>1, <3>2
  <2>3. \A q \in DOMAIN bookings' :
            /\ credits'[q] = [guest |-> bookings'[q].guest, amount |-> bookings'[q].points]
            /\ bookings'[q].points = Multiplier * (bookings'[q].total \div 100)
    <3>1. \A q \in DOMAIN bookings :
              /\ credits[q] = [guest |-> bookings[q].guest, amount |-> bookings[q].points]
              /\ bookings[q].points = Multiplier * (bookings[q].total \div 100)
              /\ q \in DOMAIN credits /\ q # r
      BY <1>2 DEF PointsInv, LedgerExplained, O!LedgerExplained
    <3>2. r \in Bookings =>
              /\ credits'[r] = [guest |-> bookings'[r].guest, amount |-> bookings'[r].points]
              /\ bookings'[r].points = Multiplier * (bookings'[r].total \div 100)
      BY <1>3, <1>6, <1>8, <1>10
    <3> QED
      BY <1>8, <1>10, <3>1, <3>2
  <2>4. openings' = (IF Demo \in DOMAIN guests' THEN 1 ELSE 0)
    BY <1>4 DEF PointsInv, LedgerExplained, O!LedgerExplained, Demo
  <2>5. \A q \in Bookings : desk'[q].pc = "done" =>
            desk'[q].points <= desk'[q].shown /\ desk'[q].shown <= O!Balance(desk[q].guest)'
    BY <1>15, <1>17 DEF O!Requests
  <2> QED
    BY <2>1, <2>2, <2>3, <2>4, <2>5 DEF LedgerExplained, O!LedgerExplained, Demo
<1>19. CreditsOwned'
  BY <1>3, <1>4, <1>6, <1>8 DEF PointsInv, CreditsOwned
<1> QED
  <2>1. \A q \in O!Requests : AtDesk(q)'
    BY <1>15, <1>16
  <2> QED
    BY <1>13, <1>18, <1>19, <2>1 DEF PointsInv

\* The seed brings the demo guest and the opening rows together, and the rows only once.
LEMMA SeedPoints ==
    ASSUME PointsInv, I!Seed, O!Seed PROVE PointsInv'
<1>1. /\ catalogue' /\ UNCHANGED <<orders, bookings, credits, desk>>
      /\ openings' = (IF openings = 0 /\ \A r \in DOMAIN credits : credits[r].guest # Demo
                      THEN 1 ELSE openings)
  BY DEF O!Seed, O!SeedLedger, Demo
<1>2. catalogue' = TRUE
  BY DEF O!Seed
<1>3. DOMAIN guests \subseteq DOMAIN guests' /\ Demo \in DOMAIN guests'
  BY SeedGuestsNamed, DemoType DEF I!Seed
<1>4. /\ openings = (IF Demo \in DOMAIN guests THEN 1 ELSE 0)
      /\ \A r \in DOMAIN credits : credits[r].guest \in DOMAIN guests
      /\ DOMAIN credits \subseteq Orders \cup Bookings
  BY DEF PointsInv, CreditsOwned, LedgerExplained, O!LedgerExplained, Demo, PointsTypeOK
<1>5. openings' = 1
  BY <1>1, <1>4
<1>6. \A g : O!Balance(g) \in Nat /\ O!Balance(g)' \in Nat /\ O!Balance(g) <= O!Balance(g)'
  <2> SUFFICES ASSUME NEW g
               PROVE  O!Balance(g) \in Nat /\ O!Balance(g)' \in Nat /\ O!Balance(g) <= O!Balance(g)'
    OBVIOUS
  <2>1. O!Earned(credits, g) \in Nat
    BY <1>4, BalanceType DEF PointsInv
  <2>2. /\ O!Balance(g) = O!Earned(credits, g) + (IF g = Demo THEN openings * Opening ELSE 0)
        /\ O!Balance(g)' = O!Earned(credits, g) + (IF g = Demo THEN openings' * Opening ELSE 0)
    BY <1>1 DEF O!Balance, Demo
  <2>3. openings * Opening \in {0, Opening} /\ openings' * Opening = Opening
    BY <1>4, <1>5, PointsConstants
  <2> QED
    BY <2>1, <2>2, <2>3, PointsConstants
<1>7. \A q \in O!Requests :
          /\ AtDesk(q)'
          /\ q \in Bookings /\ desk'[q].pc = "done" =>
                 desk'[q].points <= desk'[q].shown /\ desk'[q].shown <= O!Balance(desk[q].guest)'
  BY <1>1, <1>3, <1>6, DeskKept
<1>8. PointsTypeOK'
  BY <1>1, <1>2, <1>5 DEF PointsInv, PointsTypeOK
<1>9. CreditsOwned'
  BY <1>1, <1>3, <1>4 DEF CreditsOwned
<1>10. LedgerExplained'
  <2>1. \A q \in Bookings : desk'[q].pc = "done" =>
            desk'[q].points <= desk'[q].shown /\ desk'[q].shown <= O!Balance(desk[q].guest)'
    BY <1>7 DEF O!Requests
  <2> QED
    BY <1>1, <1>3, <1>5, <2>1 DEF PointsInv, LedgerExplained, O!LedgerExplained, Demo
<1> QED
  BY <1>7, <1>8, <1>9, <1>10 DEF PointsInv

\* The steps of others leave it alone, also those that bring a guest who is not the demo.
LEMMA PointsIdle ==
    ASSUME PointsInv, UNCHANGED pointsVars, DOMAIN guests \subseteq DOMAIN guests',
           Demo \in DOMAIN guests' => Demo \in DOMAIN guests
    PROVE  PointsInv'
<1>1. UNCHANGED <<catalogue, orders, bookings, credits, openings, desk>>
  BY DEF pointsVars
<1>2. \A g : O!Balance(g) \in Nat /\ O!Balance(g)' \in Nat /\ O!Balance(g) <= O!Balance(g)'
  <2>1. DOMAIN credits \subseteq Orders \cup Bookings
    BY DEF PointsInv, PointsTypeOK, LedgerExplained, O!LedgerExplained
  <2>2. \A g : O!Balance(g) \in Nat /\ O!Balance(g)' = O!Balance(g)
    BY <1>1, <2>1, BalanceType DEF PointsInv, O!Balance
  <2> QED
    BY <2>2
<1>3. \A q \in O!Requests :
          /\ AtDesk(q)'
          /\ q \in Bookings /\ desk'[q].pc = "done" =>
                 desk'[q].points <= desk'[q].shown /\ desk'[q].shown <= O!Balance(desk[q].guest)'
  BY <1>1, <1>2, DeskKept
<1>4. PointsTypeOK' /\ CreditsOwned'
  BY <1>1 DEF PointsInv, PointsTypeOK, CreditsOwned
<1>5. LedgerExplained'
  <2>1. \A q \in Bookings : desk'[q].pc = "done" =>
            desk'[q].points <= desk'[q].shown /\ desk'[q].shown <= O!Balance(desk[q].guest)'
    BY <1>3 DEF O!Requests
  <2> QED
    BY <1>1, <2>1 DEF PointsInv, LedgerExplained, O!LedgerExplained, Demo
<1> QED
  BY <1>3, <1>4, <1>5 DEF PointsInv

\* What the end of the process takes has written nothing yet.
LEMMA PointsCrash ==
    ASSUME PointsInv, UNCHANGED guests, O!Crash PROVE PointsInv'
<1>1. /\ UNCHANGED <<catalogue, orders, bookings, credits, openings>>
      /\ desk' = [r \in O!Requests |-> IF desk[r].pc \in O!Written THEN O!Failed ELSE desk[r]]
  BY DEF O!Crash
<1>2. O!Failed \in Draft /\ O!Failed.pc = "failed"
  BY DEF O!Failed, O!CleanDraft, Draft
<1>3. PointsTypeOK' /\ CreditsOwned'
  BY <1>1, <1>2 DEF PointsInv, PointsTypeOK, CreditsOwned
<1>4. \A g : O!Balance(g) \in Nat /\ O!Balance(g)' \in Nat /\ O!Balance(g) <= O!Balance(g)'
  <2>1. DOMAIN credits \subseteq Orders \cup Bookings
    BY DEF PointsInv, PointsTypeOK, LedgerExplained, O!LedgerExplained
  <2>2. \A g : O!Balance(g) \in Nat /\ O!Balance(g)' = O!Balance(g)
    BY <1>1, <2>1, BalanceType DEF PointsInv, O!Balance
  <2> QED
    BY <2>2
<1>5. \A q \in O!Requests :
          /\ AtDesk(q)'
          /\ q \in Bookings /\ desk'[q].pc = "done" =>
                 desk'[q].points <= desk'[q].shown /\ desk'[q].shown <= O!Balance(desk[q].guest)'
  <2> SUFFICES ASSUME NEW q \in O!Requests
               PROVE  /\ AtDesk(q)'
                      /\ q \in Bookings /\ desk'[q].pc = "done" =>
                             /\ desk'[q].points <= desk'[q].shown
                             /\ desk'[q].shown <= O!Balance(desk[q].guest)'
    OBVIOUS
  <2>1. CASE desk[q].pc \in O!Written
    <3>1. desk'[q] = O!Failed /\ q \notin DOMAIN credits'
      BY <1>1, <2>1, OpenDesk DEF O!Written
    <3> QED
      BY <1>2, <3>1 DEF AtDesk, Owed, O!Written
  <2>2. CASE desk[q].pc \notin O!Written
    BY <1>1, <1>4, <2>2, DeskKept
  <2> QED
    BY <2>1, <2>2
<1>6. LedgerExplained'
  <2>1. \A q \in Bookings : desk'[q].pc = "done" =>
            desk'[q].points <= desk'[q].shown /\ desk'[q].shown <= O!Balance(desk[q].guest)'
    BY <1>5 DEF O!Requests
  <2> QED
    BY <1>1, <2>1 DEF PointsInv, LedgerExplained, O!LedgerExplained, Demo
<1> QED
  BY <1>3, <1>5, <1>6 DEF PointsInv

-----------------------------------------------------------------------------
(* The process *)

LEMMA GatewayStart == GatewayInit => GatewayInv
<1> SUFFICES ASSUME GatewayInit PROVE GatewayInv
  OBVIOUS
<1>1. Init /\ I!Init /\ P!Init /\ O!Init /\ ~up
  BY DEF GatewayInit
<1>2. DOMAIN guests = {}
  BY <1>1 DEF I!Init
<1> QED
  BY <1>1, <1>2, InitInv, IdentityStart, PaymentsStart, PointsStart DEF GatewayInv

\* The key the limiter counts request r by.
LEMMA KeyOf == \A r \in DOMAIN Address : <<Address[r], Bucket(r)>> \in Keys
BY GatewayAssumption DEF Keys, Bucket

\* Whatever the process does, the limiter steps or is left alone.
LEMMA LimiterSteps == ASSUME [GatewayNext]_vars PROVE [Next]_limitVars
<1>1. CASE UNCHANGED vars
  BY <1>1 DEF vars
<1>2. CASE Start
  BY <1>2 DEF Start
<1>3. CASE Stop
  BY <1>3 DEF Stop, Next
<1>4. CASE Outside
  BY <1>4 DEF Outside, Next
<1>5. ASSUME NEW r \in DOMAIN Address, Arrive(r) \/ TurnAway(r) \/ Proceed(r)
      PROVE  [Next]_limitVars
  BY <1>5, KeyOf DEF Arrive, TurnAway, Proceed, Next
<1>6. ASSUME NEW s, Checkout(s) PROVE [Next]_limitVars
  BY <1>6 DEF Checkout
<1>7. ASSUME NEW e, Deliver(e) PROVE [Next]_limitVars
  BY <1>7 DEF Deliver
<1> QED
  BY <1>1, <1>2, <1>3, <1>4, <1>5, <1>6, <1>7 DEF GatewayNext

\* A request of a login proceeds, and only its registration brings a guest.
LEMMA IdentityProceeds ==
    ASSUME IdentityInv, up, up', NEW r \in I!Requests, I!Proceed(r) PROVE IdentityInv'
<1>1. CASE I!Insert(r)
  BY <1>1, InsertStep
<1>2. CASE I!LoadGuest(r)
  BY <1>2, LoadGuestStep
<1>3. CASE I!Flush(r)
  BY <1>3, FlushStep
<1>4. CASE I!Commit(r)
  BY <1>4, CommitRegistration, CommitChange DEF I!Requests
<1> QED
  BY <1>1, <1>2, <1>3, <1>4 DEF I!Proceed

LEMMA GuestsGrow ==
    ASSUME IdentityInv, NEW r \in I!Requests, I!Proceed(r)
    PROVE  DOMAIN guests \subseteq DOMAIN guests' /\ (Demo \in DOMAIN guests' => Demo \in DOMAIN guests)
<1>1. Demo \notin Registrations
  BY SeedAssumptions DEF Demo
<1>2. CASE I!Commit(r)
  BY <1>1, <1>2 DEF I!Commit, I!With, I!Rename
<1>3. CASE ~I!Commit(r)
  BY <1>3 DEF I!Proceed, I!Insert, I!LoadGuest, I!Flush, I!Rollback, I!rows
<1> QED
  BY <1>2, <1>3

LEMMA GuestsStay ==
    UNCHANGED guests =>
        DOMAIN guests \subseteq DOMAIN guests' /\ (Demo \in DOMAIN guests' => Demo \in DOMAIN guests)
OBVIOUS

\* Identity and Payments keep theirs, whoever steps.
LEMMA IdentityKept == ASSUME IdentityInv, [GatewayNext]_vars PROVE IdentityInv'
<1>1. CASE UNCHANGED identityVars /\ (up' \/ up' = up)
  BY <1>1, IdentityIdle
<1>2. CASE Start
  BY <1>2, <1>1, SeedStep DEF Start
<1>3. CASE Stop
  BY <1>3, IdentityCrash DEF Stop
<1>4. CASE Outside \/ UNCHANGED vars
  BY <1>1, <1>4 DEF Outside, vars
<1>5. ASSUME NEW r \in DOMAIN Address, Arrive(r) PROVE IdentityInv'
  BY <1>5, <1>1, RegisterStep, AuthenticateStep DEF Arrive
<1>6. ASSUME NEW r \in DOMAIN Address, TurnAway(r) PROVE IdentityInv'
  BY <1>6, <1>1 DEF TurnAway
<1>7. ASSUME NEW r \in DOMAIN Address, Proceed(r) PROVE IdentityInv'
  BY <1>7, <1>1, IdentityProceeds DEF Proceed
<1>8. ASSUME NEW s, Checkout(s) PROVE IdentityInv'
  BY <1>8, <1>1 DEF Checkout
<1>9. ASSUME NEW e, Deliver(e) PROVE IdentityInv'
  BY <1>9, <1>1 DEF Deliver
<1> QED
  BY <1>2, <1>3, <1>4, <1>5, <1>6, <1>7, <1>8, <1>9 DEF GatewayNext

LEMMA PaymentsKept == ASSUME PaymentsInv, [GatewayNext]_vars PROVE PaymentsInv'
<1>1. CASE UNCHANGED paymentVars
  BY <1>1, PaymentsIdle
<1>2. CASE Start \/ UNCHANGED vars
  BY <1>1, <1>2 DEF Start, vars
<1>3. CASE Stop
  BY <1>3, PaymentsCrash DEF Stop
<1>4. CASE Outside
  BY <1>1, <1>4, StripeStep DEF Outside
<1>5. ASSUME NEW r \in DOMAIN Address, Arrive(r) PROVE PaymentsInv'
  BY <1>5, <1>1, PollStep DEF Arrive
<1>6. ASSUME NEW r \in DOMAIN Address, TurnAway(r) PROVE PaymentsInv'
  BY <1>6, <1>1 DEF TurnAway
<1>7. ASSUME NEW r \in DOMAIN Address, Proceed(r) PROVE PaymentsInv'
  BY <1>7, <1>1, PollStep DEF Proceed
<1>8. ASSUME NEW s \in Checkouts, Checkout(s) PROVE PaymentsInv'
  BY <1>8, StripeStep DEF Checkout
<1>9. ASSUME NEW e, Deliver(e) PROVE PaymentsInv'
  BY <1>9, WebhookStep DEF Deliver
<1> QED
  BY <1>2, <1>3, <1>4, <1>5, <1>6, <1>7, <1>8, <1>9 DEF GatewayNext

\* The ledger is explained, whatever becomes of the guests meanwhile.
LEMMA PointsKept == ASSUME PointsInv, IdentityInv, [GatewayNext]_vars PROVE PointsInv'
<1>0. DOMAIN guests \subseteq I!GuestIds
  BY DEF IdentityInv, IdentityTypeOK
<1>1. CASE UNCHANGED <<pointsVars, identityVars>>
  BY <1>1, PointsIdle, GuestsStay DEF identityVars
<1>2. CASE Start
  BY <1>2, <1>1, SeedPoints DEF Start
<1>3. CASE Stop
  BY <1>3, PointsCrash DEF Stop, I!Crash, I!rows
<1>4. CASE Outside \/ UNCHANGED vars
  BY <1>1, <1>4 DEF Outside, vars
<1>5. ASSUME NEW r \in DOMAIN Address, Arrive(r) PROVE PointsInv'
  <2>1. CASE I!Register(r) \/ I!Authenticate(r)
    <3>1. UNCHANGED guests
      BY <2>1 DEF I!Register, I!Authenticate, I!rows
    <3>2. CASE UNCHANGED pointsVars
      BY <3>1, <3>2, PointsIdle, GuestsStay
    <3>3. CASE UNCHANGED identityVars
      BY <1>0, <3>1, <3>3, <1>5, <1>1, PlaceOrderStep, BookStep DEF Arrive
    <3> QED
      BY <1>5, <3>2, <3>3 DEF Arrive
  <2>2. CASE UNCHANGED identityVars
    <3>1. UNCHANGED guests
      BY <2>2 DEF identityVars
    <3> QED
      BY <1>0, <1>1, <1>5, <2>2, <3>1, PlaceOrderStep, BookStep DEF Arrive
  <2> QED
    BY <1>5, <2>1, <2>2 DEF Arrive
<1>6. ASSUME NEW r \in DOMAIN Address, TurnAway(r) PROVE PointsInv'
  BY <1>6, <1>1 DEF TurnAway
<1>7. ASSUME NEW r \in DOMAIN Address, Proceed(r) PROVE PointsInv'
  <2>1. CASE r \in I!Requests /\ I!Proceed(r) /\ UNCHANGED pointsVars
    BY <2>1, GuestsGrow, PointsIdle
  <2>2. CASE UNCHANGED <<identityVars, pointsVars>>
    BY <1>1, <2>2
  <2>3. CASE r \in O!Requests /\ O!Proceed(r) /\ UNCHANGED identityVars
    <3>1. UNCHANGED guests
      BY <2>3 DEF identityVars
    <3> QED
      BY <1>0, <2>3, <3>1, EarnStep, SaveStep, ReadBalanceStep, CommitPoints DEF O!Proceed
  <2> QED
    BY <1>7, <2>1, <2>2, <2>3 DEF Proceed
<1>8. ASSUME NEW s, Checkout(s) PROVE PointsInv'
  BY <1>8, <1>1 DEF Checkout
<1>9. ASSUME NEW e, Deliver(e) PROVE PointsInv'
  BY <1>9, <1>1 DEF Deliver
<1> QED
  BY <1>2, <1>3, <1>4, <1>5, <1>6, <1>7, <1>8, <1>9 DEF GatewayNext

LEMMA GatewayStep == ASSUME GatewayInv, [GatewayNext]_vars PROVE GatewayInv'
<1>1. Inv' /\ IdentityInv'
  BY LimiterSteps, StepInv, IdentityKept DEF GatewayInv
<1>2. PaymentsInv' /\ PointsInv'
  BY PaymentsKept, PointsKept DEF GatewayInv
<1> QED
  BY <1>1, <1>2 DEF GatewayInv

LEMMA GatewayAlways == GatewaySpec => []GatewayInv
<1>1. GatewayInit => GatewayInv
  BY GatewayStart
<1>2. GatewayInv /\ [GatewayNext]_vars => GatewayInv'
  BY GatewayStep
<1> QED
  BY <1>1, <1>2, PTL DEF GatewaySpec

\* Whatever races, is seeded or fails, no email has two logins and no guest two either
\* (auth_service.register, user_repo.create, seed).
THEOREM LoginsUnique == GatewaySpec => []OneLoginOneGuest
<1>1. GatewayInv => OneLoginOneGuest
  BY DEF GatewayInv, IdentityInv
<1> QED
  BY <1>1, GatewayAlways, PTL

\* A login and its guest have one name unless changes of it overlapped or the seed wrote
\* the guest's (update_profile, seed).
THEOREM NamesAgree == GatewaySpec => []NamesPaired
<1>1. GatewayInv => NamesPaired
  BY DEF GatewayInv, IdentityInv
<1> QED
  BY <1>1, GatewayAlways, PTL

\* Each order and booking has its row of points, each row its order or booking, and the
\* opening rows come once (place_order, create_booking, earn, _seed_loyalty_ledger).
THEOREM PointsExplained == GatewaySpec => []LedgerExplained
<1>1. GatewayInv => LedgerExplained
  BY DEF GatewayInv, PointsInv
<1> QED
  BY <1>1, GatewayAlways, PTL

\* What a poll says of a payment is so at Stripe, whatever was delivered twice, late or to
\* a process that has ended since (get_checkout_session, stripe_webhook).
THEOREM PollsTruthful == GatewaySpec => []PollTruth
<1>1. GatewayInv => PollTruth
  BY DEF GatewayInv, PaymentsInv
<1> QED
  BY <1>1, GatewayAlways, PTL

\* The limiter counts as its abstract specification does in the whole process too, with
\* requests, restarts and the clock interleaved as they come (RateLimitMiddleware.dispatch).
THEOREM GatewayLimited == GatewaySpec => ImplementsQuota
<1>1. GatewayInit => Init
  BY DEF GatewayInit
<1>2. [GatewayNext]_vars => [Next]_limitVars
  BY LimiterSteps
<1>3. GatewaySpec => Spec
  BY <1>1, <1>2, PTL DEF GatewaySpec, Spec
<1> QED
  BY <1>3, QuotaImplemented

=============================================================================
