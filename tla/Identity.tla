------------------------------ MODULE Identity ------------------------------
(***************************************************************************)
(* Logins and the loyalty guest each of them owns.  A registration looks    *)
(* its email up and inserts both rows; a change of the profile renames both *)
(* from copies read one after the other; and the seed, run before the       *)
(* service starts, creates the demo accounts, or adopts a login that        *)
(* already has the demo email.  A start command without the seed is         *)
(* documented too, so logins may be older than the first seed.              *)
(***************************************************************************)
EXTENDS Naturals, FiniteSets

CONSTANTS
    Registrations,  \* POST /auth/register requests, each handled once
    Updates,        \* PATCH /auth/me requests, each handled once
    Emails, Names,
    NoName,         \* of a patch of the phone number alone
    DemoUser,       \* the id of the seeded demo login
    Companions,     \* the ids of its seeded companions
    SeedEmail,      \* SeedEmail[u]: the email of seeded login u
    SeedGuest,      \* SeedGuest[u]: the id of its guest
    SeedName,       \* SeedName[u]: the name of both
    NoRequest

SeedUsers == {DemoUser} \cup Companions
GuestIds == Registrations \cup {SeedGuest[u] : u \in SeedUsers}

\* What the constants must be; a module that uses this one assumes it of its own.
IdentityAssumption ==
    /\ SeedEmail \in [SeedUsers -> Emails] /\ SeedName \in [SeedUsers -> Names]
    /\ \A u, v \in SeedUsers : SeedEmail[u] = SeedEmail[v] \/ SeedGuest[u] = SeedGuest[v] => u = v
    /\ Registrations \cap (SeedUsers \cup {SeedGuest[u] : u \in SeedUsers}) = {}
    /\ Registrations \cap Updates = {}
    /\ NoRequest \notin Registrations \cup Updates

VARIABLES
    users,      \* committed users: email, name and guest, by id
    guests,     \* committed names of guests, by id
    holder,     \* holder[e]: the open transaction that inserted email e
    writer,     \* writer[g]: the open transaction that wrote the rows of guest g
    pc,         \* pc[r]: where request r stands
    tx,         \* tx[r]: what it was given and has read
    parted      \* logins whose updates overlapped, or whose guest the seed has renamed

rows == <<users, guests>>
identityVars == <<rows, holder, writer, pc, tx, parted>>

Requests == Registrations \cup Updates

\* email, name: of the request; user: the login it is about; mine, its: the names of
\* that login and its guest as they were read.
CleanTx == [email |-> NoRequest, name |-> NoName, user |-> NoRequest,
            mine |-> NoName, its |-> NoName]

InFlight == {"insert", "load", "flush", "commit"}

\* The changes of the name of login u that are under way.
Renaming(u) == {q \in Updates : pc[q] \in InFlight /\ tx[q].user = u /\ tx[q].name # NoName}

Owners(e) == {u \in DOMAIN users : users[u].email = e}

\* The seed makes the guests whose names it knows.
SeedGuests == [g \in {SeedGuest[u] : u \in SeedUsers} |->
                  SeedName[CHOOSE u \in SeedUsers : SeedGuest[u] = g]]

SeedLogin(u) == [email |-> SeedEmail[u], name |-> SeedName[u], guest |-> SeedGuest[u]]

Unlock(r) ==
    /\ holder' = [e \in Emails |-> IF holder[e] = r THEN NoRequest ELSE holder[e]]
    /\ writer' = [g \in GuestIds |-> IF writer[g] = r THEN NoRequest ELSE writer[g]]

Rollback(r, end) ==
    /\ pc' = [pc EXCEPT ![r] = end]
    /\ tx' = [tx EXCEPT ![r] = CleanTx]
    /\ Unlock(r)
    /\ UNCHANGED <<rows, parted>>

-----------------------------------------------------------------------------
Init ==
    /\ users = [u \in {} |-> CleanTx]
    /\ guests = [g \in {} |-> NoName]
    /\ holder = [e \in Emails |-> NoRequest]
    /\ writer = [g \in GuestIds |-> NoRequest]
    /\ pc = [r \in Requests |-> "idle"]
    /\ tx = [r \in Requests |-> CleanTx]
    /\ parted = {}

\* AuthService.register: an email that is taken is a 409.
Register(r) ==
    /\ r \in Registrations /\ pc[r] = "idle"
    /\ \E e \in Emails, n \in Names :
         IF Owners(e) # {}
         THEN pc' = [pc EXCEPT ![r] = "refused"] /\ UNCHANGED tx
         ELSE /\ pc' = [pc EXCEPT ![r] = "insert"]
              /\ tx' = [tx EXCEPT ![r].email = e, ![r].name = n]
    /\ UNCHANGED <<rows, holder, writer, parted>>

\* Variant: users.email is not unique.
Insert_Anyway(r) ==
    /\ pc[r] = "insert"
    /\ holder' = [holder EXCEPT ![tx[r].email] = r]
    /\ pc' = [pc EXCEPT ![r] = "commit"]
    /\ UNCHANGED <<rows, writer, tx, parted>>

\* UserRepository.create: the INSERT waits for another one of the email and is a
\* unique violation once that has committed.
Insert(r) ==
    /\ pc[r] = "insert"
    /\ holder[tx[r].email] = NoRequest
    /\ IF Owners(tx[r].email) # {}
       THEN Rollback(r, "failed")
       ELSE /\ holder' = [holder EXCEPT ![tx[r].email] = r]
            /\ pc' = [pc EXCEPT ![r] = "commit"]
            /\ UNCHANGED <<rows, writer, tx, parted>>

\* get_current_user reads the login of the token.  A history variable notes when
\* another change of its name is under way.
Authenticate(r) ==
    /\ r \in Updates /\ pc[r] = "idle"
    /\ \E u \in DOMAIN users, n \in Names \cup {NoName} :
         /\ tx' = [tx EXCEPT ![r].user = u, ![r].name = n, ![r].mine = users[u].name]
         /\ parted' = IF Renaming(u) \ {r} # {} /\ n # NoName THEN parted \cup {u} ELSE parted
    /\ pc' = [pc EXCEPT ![r] = "load"]
    /\ UNCHANGED <<rows, holder, writer>>

\* update_profile: for a new name the guest of the login is read.
LoadGuest(r) ==
    /\ pc[r] = "load"
    /\ tx' = IF tx[r].name = NoName THEN tx
             ELSE [tx EXCEPT ![r].its = guests[users[tx[r].user].guest]]
    /\ pc' = [pc EXCEPT ![r] = "flush"]
    /\ UNCHANGED <<rows, holder, writer, parted>>

\* The name an attribute is given is written if it is not the one that was read.
Written(r, read) == tx[r].name \notin {read, NoName}

\* The flush waits for another transaction that has written the rows; one that changes
\* nothing writes nothing.
Flush(r) ==
    /\ pc[r] = "flush"
    /\ LET g == users[tx[r].user].guest
           renames == Written(r, tx[r].mine) \/ Written(r, tx[r].its)
       IN  \/ ~renames /\ UNCHANGED writer
           \/ /\ renames \/ tx[r].name = NoName
              /\ writer[g] = NoRequest
              /\ writer' = [writer EXCEPT ![g] = r]
    /\ pc' = [pc EXCEPT ![r] = "commit"]
    /\ UNCHANGED <<rows, holder, tx, parted>>

\* Variant: the guest keeps its name.
Rename_LoginOnly(r) ==
    /\ users' = [users EXCEPT ![tx[r].user].name = tx[r].name]
    /\ UNCHANGED guests

With(table, id, row) == [x \in DOMAIN table \cup {id} |-> IF x = id THEN row ELSE table[x]]

\* What an update has written.
Rename(r) ==
    LET u == tx[r].user IN
    /\ users' = IF Written(r, tx[r].mine) THEN [users EXCEPT ![u].name = tx[r].name] ELSE users
    /\ guests' = IF Written(r, tx[r].its) THEN [guests EXCEPT ![users[u].guest] = tx[r].name]
                 ELSE guests

Commit(r) ==
    /\ pc[r] = "commit"
    /\ IF r \in Registrations
       THEN /\ users' = With(users, r, [email |-> tx[r].email, name |-> tx[r].name, guest |-> r])
            /\ guests' = With(guests, r, tx[r].name)
       ELSE Rename(r)
    /\ pc' = [pc EXCEPT ![r] = "done"]
    /\ Unlock(r)
    /\ UNCHANGED <<tx, parted>>

Proceed(r) == Insert(r) \/ LoadGuest(r) \/ Flush(r) \/ Commit(r)

-----------------------------------------------------------------------------
\* The login that gets the demo guest: the seeded one, else one with its email.
Adopted == IF DemoUser \in DOMAIN users THEN {DemoUser} ELSE Owners(SeedEmail[DemoUser])

\* The logins the seed inserts.
Fresh == {u \in SeedUsers \ DOMAIN users : u = DemoUser => Adopted = {}}

\* An INSERT of an email that is taken fails, and the whole seed with it.
SeedFits == \A u \in Fresh : Owners(SeedEmail[u]) = {}

\* seed: guests are written again, logins are not.
Seed ==
    /\ SeedFits
    /\ users' = [u \in DOMAIN users \cup Fresh |->
                    IF u \in Fresh THEN SeedLogin(u)
                    ELSE IF u \in Adopted THEN [users[u] EXCEPT !.guest = SeedGuest[DemoUser]]
                    ELSE users[u]]
    /\ guests' = [g \in DOMAIN guests \cup DOMAIN SeedGuests |->
                     IF g \in DOMAIN SeedGuests THEN SeedGuests[g] ELSE guests[g]]
    /\ parted' = parted \cup {u \in DOMAIN users \cap (SeedUsers \cup Adopted) :
                                  guests'[users'[u].guest] # users[u].name}
    /\ UNCHANGED <<holder, writer, pc, tx>>

\* The end of the process ends its transactions.
Crash ==
    /\ pc' = [r \in Requests |-> IF pc[r] \in InFlight THEN "failed" ELSE pc[r]]
    /\ tx' = [r \in Requests |-> IF pc[r] \in InFlight THEN CleanTx ELSE tx[r]]
    /\ holder' = [e \in Emails |-> NoRequest]
    /\ writer' = [g \in GuestIds |-> NoRequest]
    /\ UNCHANGED <<rows, parted>>

-----------------------------------------------------------------------------
(* Properties *)

\* However registrations race and whoever the seed adopts, an email has one login, and
\* every login a guest of its own that exists.
OneLoginOneGuest ==
    /\ \A u, v \in DOMAIN users :
           users[u].email = users[v].email \/ users[u].guest = users[v].guest => u = v
    /\ \A u \in DOMAIN users : users[u].guest \in DOMAIN guests

\* A login and its guest have one name, but for overlapping changes of it (the second
\* compares with a guest read later than the login) and guests the seed has renamed.
NamesPaired ==
    \A u \in DOMAIN users \ parted : guests[users[u].guest] = users[u].name

=============================================================================
