------------------------------ MODULE UserSeats ------------------------------
(***************************************************************************)
(* Seats follow accounts: creating, archiving and unarchiving a user of    *)
(* one organization, as UsersService and SeatsService do it, while project *)
(* staffing (ProjectsService) links the seats to projects and takes them   *)
(* off again.                                                              *)
(*                                                                         *)
(* An HTTP request is a process: it holds what it has read in its own      *)
(* record and takes one step per round trip to MongoDB, so other requests  *)
(* run between any two of its steps.  Creation allocates the seat inside a *)
(* MongoDB transaction (snapshot reads, write locks until the commit);     *)
(* everything else writes one document after the other with no transaction *)
(* and saves seats over what they have become since they were read.        *)
(***************************************************************************)
EXTENDS SeatStore

CONSTANTS
    Requests,        \* requests the API servers handle at a time
    MaxHistory,      \* bound: no grant or link starts once the histories together
                     \* are this long
    Overlap,         \* TRUE: two requests in flight may concern the same user
    Faults           \* what disturbs the requests: "crash", "org", "hold", "batch"

ASSUME UserSeatsAssumption ==
    /\ MaxHistory \in Nat
    /\ Overlap \in BOOLEAN
    /\ Faults \subseteq {"crash", "org", "hold", "batch"}

VARIABLES
    users,   \* each account: "none" (no document), "live" or "archived"
    held,    \* accounts with legalHold
    org,     \* the organization's archivedAt and legalHold
    seats,   \* the seats collection, committed state
    req      \* what each request is doing

vars == <<users, held, org, seats, req>>

-----------------------------------------------------------------------------
(* Requests *)

\* Transaction steps carry the prefix txn.
InTxnPC == {"txn.org", "txn.alloc", "txn.commit"}

PC == InTxnPC \cup
      {"idle", "seed.org", "seed.find", "seed.insert", "txn.begin",
       "arch.save", "rel.org", "rel.find", "rel.save",
       "alloc.org", "alloc", "unarch.save",
       "find.org", "link.find", "link.org", "link.read", "link.save",
       "clear.org", "clear.read", "clear.save"}

Request ==
    [pc:      PC,
     op:      {"none", "seed", "create", "archive", "unarchive", "link", "clear"},
     user:    Users \cup {None},
     project: Projects \cup {None},    \* the project to link or clear
     todo:    SUBSET SeatNo,           \* seat numbers insertMany has still to try
     clean:   SUBSET SeatNo,           \* vacant in the snapshot, unwritten since
     seat:    SeatNo \cup {0},         \* the seat being written
     seen:    Seat \cup {Absent},      \* that seat as the request has read it
     fresh:   BOOLEAN]                 \* its __v is still the one read

Idle == [pc |-> "idle", op |-> "none", user |-> None, project |-> None, todo |-> {},
         clean |-> {}, seat |-> 0, seen |-> Absent, fresh |-> TRUE]

InFlight(r) == req[r].pc # "idle"
InTxn(r)    == req[r].pc \in InTxnPC

\* The seats a transaction has written and not committed.
Locked(n) == \E r \in Requests : req[r].pc = "txn.commit" /\ req[r].seat = n

OrgActive == ~org.archived /\ ~org.hold

Goto(r, pc) == req' = [req EXCEPT ![r].pc = pc]
Finish(r)   == req' = [req EXCEPT ![r] = Idle]

\* req after a write of seat n: r moves on to `record`, the write is a conflict
\* for every transaction that has n in its snapshot, and if it moves the
\* document's __v, whoever has read the document has read an old one.
Wrote(n, r, record, moves) ==
    req' = [q \in Requests |->
              IF q = r THEN record
              ELSE [req[q] EXCEPT !.clean = @ \ {n},
                                  !.fresh = @ /\ ~(moves /\ req[q].seat = n)]]

\* r has read seat n and is about to save it.
HasRead(r, n, pc) ==
    req' = [req EXCEPT ![r].pc = pc, ![r].seat = n, ![r].seen = seats[n], ![r].fresh = TRUE]

Init ==
    /\ users = [u \in Users |-> "none"]
    /\ held = {}
    /\ org = [archived |-> FALSE, hold |-> FALSE]
    /\ seats = [n \in SeatNo |-> Absent]
    /\ req = [r \in Requests |-> Idle]

-----------------------------------------------------------------------------
(* A request arrives *)

Begin(r, record) ==
    /\ ~InFlight(r)
    /\ Overlap \/ record.user = None \/ \A q \in Requests : req[q].user # record.user
    /\ req' = [req EXCEPT ![r] = record]
    /\ UNCHANGED <<users, held, org, seats>>

HistoryBounded ==
    Cardinality(UNION {{n} \X DOMAIN seats[n].history : n \in SeatNo}) < MaxHistory

\* GET /seats and /seats/summary, and the end of organizations.create.
BeginSeed(r) == Begin(r, [Idle EXCEPT !.pc = "seed.org", !.op = "seed"])

BeginCreate(r, u) ==
    /\ HistoryBounded
    /\ Begin(r, [Idle EXCEPT !.pc = "seed.org", !.op = "create", !.user = u])

\* findById and the early returns: unknown, on hold, already archived.
BeginArchive(r, u) ==
    /\ users[u] = "live" /\ u \notin held
    /\ Begin(r, [Idle EXCEPT !.pc = "arch.save", !.op = "archive", !.user = u])

BeginUnarchive(r, u) ==
    /\ users[u] = "archived" /\ u \notin held
    /\ HistoryBounded
    /\ Begin(r, [Idle EXCEPT !.pc = "seed.org", !.op = "unarchive", !.user = u])

\* Staffing puts the account of a person on a project.
BeginLink(r, u, p) ==
    /\ users[u] # "none"
    /\ HistoryBounded
    /\ Begin(r, [Idle EXCEPT !.pc = "find.org", !.op = "link", !.user = u, !.project = p])

\* Staffing takes the seat of an assignment off the project, whoever holds it
\* by now.
BeginClear(r, n, p) ==
    /\ \E i \in DOMAIN seats[n].history : seats[n].history[i].project = p
    /\ Begin(r, [Idle EXCEPT !.pc = "clear.org", !.op = "clear", !.user = seats[n].user,
                             !.project = p, !.seat = n])

-----------------------------------------------------------------------------
(* ensureOrgActive, which opens every SeatsService call *)

AfterOrg ==
    [pc \in {"seed.org", "txn.org", "alloc.org", "rel.org",
             "find.org", "link.org", "clear.org"} |->
        CASE pc = "seed.org"  -> "seed.find"
          [] pc = "txn.org"   -> "txn.alloc"
          [] pc = "alloc.org" -> "alloc"
          [] pc = "rel.org"   -> "rel.find"
          [] pc = "find.org"  -> "link.find"
          [] pc = "link.org"  -> "link.read"
          [] pc = "clear.org" -> "clear.read"]

\* Not found or on hold: the call throws and the request ends there,
\* aborting the transaction it may have open.
CheckOrg(r) ==
    /\ req[r].pc \in DOMAIN AfterOrg
    /\ IF OrgActive THEN Goto(r, AfterOrg[req[r].pc]) ELSE Finish(r)
    /\ UNCHANGED <<users, held, org, seats>>

-----------------------------------------------------------------------------
(* ensureOrgSeats *)

\* req when ensureOrgSeats returns.
Seeded(r) ==
    CASE req[r].op = "seed"      -> Finish(r)
      [] req[r].op = "create"    -> req' = [req EXCEPT ![r].pc = "txn.begin", ![r].todo = {}]
      [] req[r].op = "unarchive" -> req' = [req EXCEPT ![r].pc = "alloc.org", ![r].todo = {}]

SeedFind(r) ==
    LET missing == SeatNo \ Existing(seats) IN
    /\ req[r].pc = "seed.find"
    /\ IF missing = {}
         THEN Seeded(r)
         ELSE req' = [req EXCEPT ![r].pc = "seed.insert", ![r].todo = missing]
    /\ UNCHANGED <<users, held, org, seats>>

\* One document of the unordered insertMany.  A duplicate key does not stop
\* the ones behind it, and the error is swallowed at the end.
SeedInsert(r) ==
    /\ req[r].pc = "seed.insert"
    /\ \E n \in req[r].todo :
         /\ \A m \in req[r].todo : n <= m
         /\ seats' = IF CanInsert(seats, n) THEN [seats EXCEPT ![n] = NewSeat] ELSE seats
         /\ IF req[r].todo = {n}
              THEN Seeded(r)
              ELSE req' = [req EXCEPT ![r].todo = @ \ {n}]
    /\ UNCHANGED <<users, held, org>>

-----------------------------------------------------------------------------
(* users.create: the user and its seat in one transaction *)

\* findOne({email}) takes the snapshot and the insert follows.  A committed
\* account, or another open transaction inserting it, ends the request.
TxnBegin(r) ==
    LET u == req[r].user
        taken == \/ users[u] # "none"
                 \/ \E q \in Requests \ {r} : InTxn(q) /\ req[q].user = u
    IN
    /\ req[r].pc = "txn.begin"
    /\ IF taken
         THEN Finish(r)
         ELSE req' = [req EXCEPT ![r].pc = "txn.org", ![r].clean = Vacant(seats)]
    /\ UNCHANGED <<users, held, org, seats>>

\* Variants: the session is not passed on to allocateSeat, which writes at
\* once; the query has lost its status filter.
TxnAllocOutside(r) ==
    /\ req[r].pc = "txn.alloc"
    /\ \E n \in Vacant(seats) :
         /\ ~Locked(n)
         /\ seats' = [seats EXCEPT ![n] = Allocated(@, req[r].user, None)]
         /\ Wrote(n, r, [req[r] EXCEPT !.pc = "txn.commit", !.seat = n], FALSE)
    /\ UNCHANGED <<users, held, org>>

TxnAllocAny(r) ==
    /\ req[r].pc = "txn.alloc"
    /\ \E n \in Existing(seats) :
         req' = [req EXCEPT ![r].pc = "txn.commit", ![r].seat = n]
    /\ UNCHANGED <<users, held, org, seats>>

\* allocateSeat with the session: a seat vacant in the snapshot that nobody
\* has written since, or a write conflict / "No available seats".
TxnAlloc(r) ==
    LET free == {n \in req[r].clean : ~Locked(n)} IN
    /\ req[r].pc = "txn.alloc"
    /\ \/ /\ free = {}
          /\ Finish(r)
       \/ \E n \in free :
            req' = [req EXCEPT ![r].pc = "txn.commit", ![r].seat = n]
    /\ UNCHANGED <<users, held, org, seats>>

TxnCommit(r) ==
    LET n == req[r].seat
        u == req[r].user
    IN
    /\ req[r].pc = "txn.commit"
    /\ users' = [users EXCEPT ![u] = "live"]
    /\ seats' = [seats EXCEPT ![n] = Allocated(@, u, None)]
    /\ Wrote(n, r, Idle, FALSE)
    /\ UNCHANGED <<held, org>>

-----------------------------------------------------------------------------
(* archiveUser *)

\* Variant: the seat is given back without closing the account first.
ArchSaveMissing(r) ==
    /\ req[r].pc = "arch.save"
    /\ Goto(r, "rel.org")
    /\ UNCHANGED <<users, held, org, seats>>

\* user.save() writes archivedAt by _id, whatever the user has become.
ArchSave(r) ==
    /\ req[r].pc = "arch.save"
    /\ users' = [users EXCEPT ![req[r].user] = "archived"]
    /\ Goto(r, "rel.org")
    /\ UNCHANGED <<held, org, seats>>

\* releaseSeatForUser reads the seat of the user ...
RelFind(r) ==
    LET u == req[r].user
        mine == {n \in Existing(seats) : seats[n].user = u}
    IN
    /\ req[r].pc = "rel.find"
    /\ \/ /\ mine = {}
          /\ Finish(r)
       \/ \E n \in mine : HasRead(r, n, "rel.save")
    /\ UNCHANGED <<users, held, org, seats>>

\* ... and saves it, waiting for a transaction that holds the document.  The
\* save fails with a duplicate key when another seat is vacant, and with a
\* version error when it closes an entry of a history that has been moved.
RelSave(r) ==
    LET n == req[r].seat
        closes == LastOpenOf(req[r].seen.history, req[r].seen.user)
    IN
    /\ req[r].pc = "rel.save"
    /\ ~Locked(n)
    /\ IF KeyFree(seats, n, None) /\ (closes = {} \/ req[r].fresh)
         THEN /\ seats' = [seats EXCEPT ![n] = Released(@, req[r].seen)]
              /\ Wrote(n, r, Idle, FALSE)
         ELSE /\ seats' = seats
              /\ Finish(r)
    /\ UNCHANGED <<users, held, org>>

-----------------------------------------------------------------------------
(* unarchiveUser *)

\* allocateSeat without a session: one atomic findOneAndUpdate, which waits
\* for a transaction that holds the document.  The index refuses a second
\* seat for the same user.  Staffing calls it too.
Alloc(r) ==
    LET u    == req[r].user
        next == IF req[r].op = "link" THEN "link.org" ELSE "unarch.save"
    IN
    /\ req[r].pc = "alloc"
    /\ \/ /\ Vacant(seats) = {}
          /\ Finish(r) /\ seats' = seats
       \/ \E n \in Vacant(seats) :
            /\ ~Locked(n)
            /\ IF KeyFree(seats, n, u)
                 THEN /\ seats' = [seats EXCEPT ![n] = Allocated(@, u, None)]
                      /\ Wrote(n, r, [req[r] EXCEPT !.pc = next, !.seat = n], FALSE)
                 ELSE /\ seats' = seats
                      /\ Finish(r)
    /\ UNCHANGED <<users, held, org>>

UnarchSave(r) ==
    /\ req[r].pc = "unarch.save"
    /\ users' = [users EXCEPT ![req[r].user] = "live"]
    /\ Finish(r)
    /\ UNCHANGED <<held, org, seats>>

\* The save is refused (validation, a lost connection): the catch block
\* releases the seat.
UnarchSaveRejected(r) ==
    /\ req[r].pc = "unarch.save"
    /\ Goto(r, "rel.org")
    /\ UNCHANGED <<users, held, org, seats>>

-----------------------------------------------------------------------------
(* Staffing (syncStaffingAssignments) links a seat and clears it *)

\* findActiveSeatForUser; without one, allocateSeat.  A seat that works for
\* another project ends the request.
LinkFind(r) ==
    LET mine == HeldBy(seats, req[r].user) IN
    /\ req[r].pc = "link.find"
    /\ \/ /\ mine = {}
          /\ Goto(r, "alloc.org")
       \/ \E n \in mine :
            IF seats[n].project \in {None, req[r].project}
              THEN req' = [req EXCEPT ![r].pc = "link.org", ![r].seat = n]
              ELSE Finish(r)
    /\ UNCHANGED <<users, held, org, seats>>

\* assignSeatToProject reads the seat anew and wants it active ...
LinkRead(r) ==
    LET n == req[r].seat IN
    /\ req[r].pc = "link.read"
    /\ IF seats[n].status = "active" /\ seats[n].user # None
         THEN HasRead(r, n, "link.save")
         ELSE Finish(r)
    /\ UNCHANGED <<users, held, org, seats>>

\* ... and saves it.  A push goes to whatever the history has become; a
\* history written as a whole must have the __v that was read.  Both move it.
LinkSave(r) ==
    LET n == req[r].seat
        p == req[r].project
    IN
    /\ req[r].pc = "link.save"
    /\ ~Locked(n)
    /\ IF EndedBy(req[r].seen, p) = {} \/ req[r].fresh
         THEN /\ seats' = [seats EXCEPT ![n] = Linked(@, req[r].seen, p)]
              /\ Wrote(n, r, Idle, TRUE)
         ELSE /\ seats' = seats
              /\ Finish(r)
    /\ UNCHANGED <<users, held, org>>

ClearRead(r) ==
    /\ req[r].pc = "clear.read"
    /\ HasRead(r, req[r].seat, "clear.save")
    /\ UNCHANGED <<users, held, org, seats>>

\* clearSeatProject saves what it has found to change, if anything.
ClearSave(r) ==
    LET n == req[r].seat
        p == req[r].project
        closes == LastOpenFor(req[r].seen.history, p)
    IN
    /\ req[r].pc = "clear.save"
    /\ ~Locked(n)
    /\ IF \/ closes = {} /\ req[r].seen.project = p
          \/ closes # {} /\ req[r].fresh
         THEN /\ seats' = [seats EXCEPT ![n] = Cleared(@, req[r].seen, p)]
              /\ Wrote(n, r, Idle, FALSE)
         ELSE /\ seats' = seats
              /\ Finish(r)
    /\ UNCHANGED <<users, held, org>>

-----------------------------------------------------------------------------
(* Failures and the rest of the application *)

\* The server dies, or the database call throws: whatever the request had
\* not written is never written, and its transaction is discarded.
Fail(r) ==
    /\ "crash" \in Faults
    /\ InFlight(r)
    /\ Finish(r)
    /\ UNCHANGED <<users, held, org, seats>>

OrgSetLegalHold ==
    /\ "org" \in Faults
    /\ org' = [org EXCEPT !.hold = ~@]
    /\ UNCHANGED <<users, held, seats, req>>

OrgArchive ==
    /\ "org" \in Faults
    /\ ~org.hold /\ ~org.archived
    /\ org' = [org EXCEPT !.archived = TRUE]
    /\ UNCHANGED <<users, held, seats, req>>

OrgUnarchive ==
    /\ "org" \in Faults
    /\ org.archived
    /\ org' = [org EXCEPT !.archived = FALSE]
    /\ UNCHANGED <<users, held, seats, req>>

\* compliance.setLegalHold on a user, archived or not.
UserSetLegalHold(u) ==
    /\ "hold" \in Faults
    /\ users[u] # "none"
    /\ held' = IF u \in held THEN held \ {u} ELSE held \cup {u}
    /\ UNCHANGED <<users, org, seats, req>>

\* compliance.batchArchive writes archivedAt and leaves the seat alone.
BatchArchive(u) ==
    /\ "batch" \in Faults
    /\ users[u] # "none" /\ u \notin held
    /\ \E archive \in BOOLEAN :
         users' = [users EXCEPT ![u] = IF archive THEN "archived" ELSE "live"]
    /\ UNCHANGED <<held, org, seats, req>>

Step(r) ==
    \/ CheckOrg(r)
    \/ SeedFind(r) \/ SeedInsert(r)
    \/ TxnBegin(r) \/ TxnAlloc(r) \/ TxnCommit(r)
    \/ ArchSave(r) \/ RelFind(r) \/ RelSave(r)
    \/ Alloc(r) \/ UnarchSave(r) \/ UnarchSaveRejected(r)
    \/ LinkFind(r) \/ LinkRead(r) \/ LinkSave(r)
    \/ ClearRead(r) \/ ClearSave(r)

Arrive(r) ==
    \/ BeginSeed(r)
    \/ \E u \in Users : BeginCreate(r, u) \/ BeginArchive(r, u) \/ BeginUnarchive(r, u)
    \/ \E p \in Projects :
          \/ \E u \in Users : BeginLink(r, u, p)
          \/ \E n \in SeatNo : BeginClear(r, n, p)

Environment ==
    \/ OrgSetLegalHold \/ OrgArchive \/ OrgUnarchive
    \/ \E u \in Users : UserSetLegalHold(u) \/ BatchArchive(u)

Next ==
    \/ \E r \in Requests : Arrive(r) \/ Step(r) \/ Fail(r)
    \/ Environment

Spec == Init /\ [][Next]_vars

-----------------------------------------------------------------------------
(* Properties *)

\* Every variable keeps its shape; a history is a sequence of whole entries.
TypeOK ==
    /\ users \in [Users -> {"none", "live", "archived"}]
    /\ held \subseteq Users
    /\ org \in [archived: BOOLEAN, hold: BOOLEAN]
    /\ seats \in Seats
    /\ req \in [Requests -> Request]

\* No account ever holds two seats, whatever the requests interleave: what the
\* unique index promises, although a transaction decides on a snapshot and
\* saves write over documents that have changed (seat.schema.ts, the index).
UniqueHolder ==
    \A m, n \in Existing(seats) :
        m # n /\ seats[m].status = "active" /\ seats[n].status = "active" =>
            seats[m].user # seats[n].user

\* A taken seat always names an account that exists: creation writes both or
\* neither (users.service.ts, the transaction of create).
SeatHeldByAccount ==
    \A n \in SeatNo : seats[n].status = "active" =>
        seats[n].user \in Users /\ users[seats[n].user] # "none"

\* A live account holds a seat at every moment, in the middle of a request
\* too: archiving closes the account before it gives the seat back, and
\* unarchiving takes the seat before it reopens the account.
LiveUserKeepsSeat ==
    \A u \in Users : users[u] = "live" => HeldBy(seats, u) # {}

\* A grant that was followed at once by a link to a project.
LinkFollows(history, i) == i < Len(history) /\ history[i + 1].project # None

\* The history of a seat tells who holds it: the last grant of an active seat
\* is its holder's and open, whatever projects came and went.  A grant that is
\* over is closed, or it was followed by a link: a release closes one entry,
\* the last open one of the holder (seats.service.ts:119-124), which may be a
\* link's.
HistoryMatchesSeat ==
    \A n \in Existing(seats) :
        LET h == seats[n].history
            grants == {i \in DOMAIN h : h[i].project = None}
        IN
        \A i \in grants :
            IF seats[n].status = "active" /\ \A j \in grants : j <= i
              THEN h[i].open /\ h[i].user = seats[n].user
              ELSE h[i].open => LinkFollows(h, i)

\* The requests implement the abstract licences: whatever step MongoDB or a
\* failure cuts a request at, a seat is taken only when vacant, given back
\* only by an account that is closed, and no account is opened without one.
holderOf  == [n \in SeatNo |-> IF seats[n].status = "active" THEN seats[n].user ELSE None]
liveUsers == {u \in Users : users[u] = "live"}

Licences == INSTANCE SeatLicences WITH
    Licence <- SeatNo, Account <- Users, Nobody <- None,
    holder <- holderOf, live <- liveUsers

ImplementsLicences == Licences!Spec

\* What a history has recorded stays recorded: no step drops an entry, turns it
\* into another's or reopens a grant that is over, not even a save that writes
\* the whole history as it was read (seats.service.ts, assignSeatToProject).
HistoryIsAppendOnly ==
    [][\A n \in SeatNo :
          LET h == seats[n].history
              k == seats'[n].history
          IN /\ Len(h) <= Len(k)
             /\ \A i \in DOMAIN h :
                   /\ h[i].user = k[i].user /\ h[i].project = k[i].project
                   /\ h[i].project = None => (k[i].open => h[i].open)]_vars
=============================================================================
