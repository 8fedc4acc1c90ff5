--------------------------- MODULE UserSeatsProofs ---------------------------
(***************************************************************************)
(* Theorems about UserSeats, for every set of accounts and requests, any   *)
(* number of seats and any bound on the histories.  The second half is     *)
(* about careful operation (Serial): no two requests in flight concern the *)
(* same account, and compliance archives no accounts behind UsersService.  *)
(***************************************************************************)
EXTENDS UserSeats, TLAPS

-----------------------------------------------------------------------------
(* What the store's operators return *)

\* A new document, a granted seat and a released seat are documents.
LEMMA NewSeatType == NewSeat \in Seat /\ Absent \notin Seat
<1>1. << >> \in Seq(Entry)
  OBVIOUS
<1> QED
  BY <1>1 DEF NewSeat, Absent, Seat

LEMMA AllocatedType ==
    ASSUME NEW s \in Seat, NEW u \in Users
    PROVE  Allocated(s, u, None) \in Seat
<1> DEFINE e == [user |-> u, project |-> None, open |-> TRUE]
<1>1. e \in Entry
  BY DEF Entry
<1>2. s.history \in Seq(Entry)
  BY DEF Seat
<1>3. Append(s.history, e) \in Seq(Entry)
  BY <1>1, <1>2
<1>4. Allocated(s, u, None) =
        [s EXCEPT !.status = "active", !.user = u, !.project = None,
                  !.history = Append(s.history, e)]
  BY DEF Allocated, Seat
<1> HIDE DEF e
<1> QED
  BY <1>3, <1>4 DEF Seat

\* Closing entries changes neither the length nor the kind of a history.
LEMMA ClosedType ==
    ASSUME NEW h \in Seq(Entry), NEW I
    PROVE  Closed(h, I) \in Seq(Entry) /\ Len(Closed(h, I)) = Len(h)
<1>1. DOMAIN h = 1 .. Len(h) /\ Len(h) \in Nat
  OBVIOUS
<1>2. \A i \in 1 .. Len(h) :
         (IF i \in I THEN [h[i] EXCEPT !.open = FALSE] ELSE h[i]) \in Entry
  <2> TAKE i \in 1 .. Len(h)
  <2>1. h[i] \in Entry
    OBVIOUS
  <2>2. [h[i] EXCEPT !.open = FALSE] \in Entry
    BY <2>1 DEF Entry
  <2> QED
    BY <2>1, <2>2
<1> QED
  BY <1>1, <1>2 DEF Closed

LEMMA ReleasedType ==
    ASSUME NEW s \in Seat, NEW seen
    PROVE  /\ Released(s, seen) \in Seat
           /\ Released(s, seen).status = "vacant" /\ Released(s, seen).user = None
           /\ Released(s, seen).history = Closed(s.history, LastOpenOf(seen.history, seen.user))
<1> DEFINE h == Closed(s.history, LastOpenOf(seen.history, seen.user))
           p == IF seen.project = None THEN s.project ELSE None
<1>1. s.history \in Seq(Entry) /\ p \in Projects \cup {None}
  BY DEF Seat
<1>2. h \in Seq(Entry)
  BY <1>1, ClosedType
<1>3. Released(s, seen) = [s EXCEPT !.status = "vacant", !.user = None, !.project = p,
                                    !.history = h]
  BY DEF Released, Seat
<1> HIDE DEF h, p
<1> QED
  BY <1>1, <1>2, <1>3 DEF Seat, h

LEMMA LinkedType ==
    ASSUME NEW s \in Seat, NEW seen \in Seat, seen.user \in Users, NEW p \in Projects
    PROVE  /\ Linked(s, seen, p) \in Seat
           /\ Linked(s, seen, p).status = s.status /\ Linked(s, seen, p).user = s.user
           /\ Linked(s, seen, p).history =
                 Append(IF EndedBy(seen, p) = {} THEN s.history
                        ELSE Closed(seen.history, EndedBy(seen, p)),
                        [user |-> seen.user, project |-> p, open |-> TRUE])
<1> DEFINE e == [user |-> seen.user, project |-> p, open |-> TRUE]
           base == IF EndedBy(seen, p) = {} THEN s.history
                   ELSE Closed(seen.history, EndedBy(seen, p))
           q == IF seen.project = p THEN s.project ELSE p
<1>1. s.history \in Seq(Entry) /\ seen.history \in Seq(Entry) /\ e \in Entry
      /\ q \in Projects \cup {None}
  BY DEF Seat, Entry
<1>2. base \in Seq(Entry)
  BY <1>1, ClosedType
<1> HIDE DEF e, base, q
<1>3. Append(base, e) \in Seq(Entry)
  BY <1>1, <1>2
<1>4. Linked(s, seen, p) = [s EXCEPT !.project = q, !.history = Append(base, e)]
  BY DEF Linked, q, e, base
<1> QED
  BY <1>1, <1>3, <1>4 DEF Seat, base, e

LEMMA ClearedType ==
    ASSUME NEW s \in Seat, NEW seen, NEW p
    PROVE  /\ Cleared(s, seen, p) \in Seat
           /\ Cleared(s, seen, p).status = s.status /\ Cleared(s, seen, p).user = s.user
           /\ Cleared(s, seen, p).history = Closed(s.history, LastOpenFor(seen.history, p))
<1> DEFINE h == Closed(s.history, LastOpenFor(seen.history, p))
           q == IF seen.project = p THEN None ELSE s.project
<1>1. s.history \in Seq(Entry) /\ q \in Projects \cup {None}
  BY DEF Seat
<1>2. h \in Seq(Entry)
  BY <1>1, ClosedType
<1>3. Cleared(s, seen, p) = [s EXCEPT !.project = q, !.history = h]
  BY DEF Cleared
<1> HIDE DEF h, q
<1> QED
  BY <1>1, <1>2, <1>3 DEF Seat, h

-----------------------------------------------------------------------------
(* The inductive invariant *)

\* The steps of staffing, and those of any request that is busy with one seat.
LinkPC  == {"find.org", "link.find", "link.org", "link.read", "link.save"}
ClearPC == {"clear.org", "clear.read", "clear.save"}
OnSeat  == {"rel.save", "link.org", "link.read", "link.save"} \cup ClearPC
SavePC  == {"rel.save", "link.save", "clear.save"}

USE DEF LinkPC, ClearPC, OnSeat, SavePC

\* What a request knows at each of its steps, whatever the others do.
RequestOK(r) ==
    LET q == req[r] IN
    /\ q.pc \in {"seed.find", "seed.insert"} => q.op \in {"seed", "create", "unarchive"}
    /\ q.pc = "seed.org" => q.op \in {"seed", "create", "unarchive"}
    /\ q.pc \in {"txn.begin"} \cup InTxnPC => q.op = "create"
    /\ q.pc = "arch.save" => q.op = "archive"
    /\ q.pc \in {"rel.org", "rel.find", "rel.save"} => q.op \in {"archive", "unarchive"}
    /\ q.pc \in {"alloc.org", "alloc"} => q.op \in {"unarchive", "link"}
    /\ q.pc = "unarch.save" => q.op = "unarchive"
    /\ q.pc \in LinkPC => q.op = "link"
    /\ q.pc \in ClearPC => q.op = "clear"
    /\ q.op \in {"create", "archive", "unarchive", "link"} => q.user \in Users
    /\ q.op \in {"archive", "unarchive", "link"} => users[q.user] # "none"
    /\ q.op \in {"link", "clear"} => q.project \in Projects
    /\ q.pc \in OnSeat => q.seat \in Existing(seats)
    /\ q.pc \in SavePC => q.seen \in Seat
    /\ q.pc = "link.save" => q.seen.user \in Users
    /\ q.pc = "txn.commit" => q.seat \in Vacant(seats)
    /\ InTxn(r) => q.clean \subseteq Vacant(seats) /\ users[q.user] = "none"

\* Open transactions create different accounts and lock different seats.
TransactionsDisjoint ==
    \A q, r \in Requests : q # r /\ InTxn(q) /\ InTxn(r) =>
        /\ req[q].user # req[r].user
        /\ req[q].pc = "txn.commit" /\ req[r].pc = "txn.commit" =>
              req[q].seat # req[r].seat

\* Only an active seat has a holder, and the holder is an account.
SeatShape ==
    \A n \in SeatNo :
        IF seats[n].status = "active"
          THEN seats[n].user \in Users /\ users[seats[n].user] # "none"
          ELSE seats[n].user = None

\* The unique index: no two documents with one userId, null included.
KeysUnique ==
    \A m, n \in Existing(seats) : m # n => seats[m].user # seats[n].user

IndInv ==
    /\ TypeOK
    /\ \A r \in Requests : RequestOK(r)
    /\ TransactionsDisjoint
    /\ SeatShape
    /\ KeysUnique

-----------------------------------------------------------------------------
(* Steps that write nothing: only the request's own record moves *)

LEMMA IdleType == Idle \in Request
BY DEF Idle, Request, PC, InTxnPC

LEMMA OwnRecordMoves ==
    ASSUME IndInv, NEW r \in Requests, NEW q \in Request,
           req' = [req EXCEPT ![r] = q],
           UNCHANGED <<users, held, org, seats>>,
           RequestOK(r)',
           q.pc \in InTxnPC =>
              \A p \in Requests \ {r} : InTxn(p) =>
                 /\ req[p].user # q.user
                 /\ req[p].pc = "txn.commit" /\ q.pc = "txn.commit" => req[p].seat # q.seat
    PROVE  IndInv'
<1>1. TypeOK'
  BY DEF IndInv, TypeOK
<1>2. req'[r] = q /\ \A p \in Requests \ {r} : req'[p] = req[p]
  BY DEF IndInv, TypeOK
<1>3. \A p \in Requests : RequestOK(p)'
  <2> SUFFICES ASSUME NEW p \in Requests, p # r PROVE RequestOK(p)'
    OBVIOUS
  <2> QED
    BY <1>2 DEF IndInv, RequestOK, InTxn
<1>4. TransactionsDisjoint'
  BY <1>2 DEF IndInv, TransactionsDisjoint, InTxn
<1>5. SeatShape' /\ KeysUnique'
  BY DEF IndInv, SeatShape, KeysUnique, Existing
<1> QED
  BY <1>1, <1>3, <1>4, <1>5 DEF IndInv

LEMMA FinishKeeps ==
    ASSUME IndInv, NEW r \in Requests, Finish(r),
           UNCHANGED <<users, held, org, seats>>
    PROVE  IndInv'
<1>1. req'[r] = Idle
  BY DEF Finish, IndInv, TypeOK
<1>2. RequestOK(r)'
  BY <1>1 DEF RequestOK, Idle, InTxn, InTxnPC
<1> QED
  BY <1>2, IdleType, OwnRecordMoves DEF Finish, Idle, InTxnPC

\* What ensureOrgSeats leaves behind, seats aside.
LEMMA SeededKeeps ==
    ASSUME IndInv, NEW r \in Requests, req[r].pc \in {"seed.find", "seed.insert"},
           Seeded(r), UNCHANGED <<users, held, org, seats>>
    PROVE  IndInv'
<1>1. req[r] \in Request /\ RequestOK(r)
  BY DEF IndInv, TypeOK
<1>2. CASE req[r].op = "seed"
  BY <1>2, FinishKeeps DEF Seeded
<1>3. CASE req[r].op = "create"
  <2> DEFINE q == [req[r] EXCEPT !.pc = "txn.begin", !.todo = {}]
  <2>1. req' = [req EXCEPT ![r] = q]
    BY <1>3 DEF Seeded, IndInv, TypeOK
  <2>2. q \in Request
    BY <1>1 DEF Request, PC
  <2>3. req'[r] = q
    BY <2>1 DEF IndInv, TypeOK
  <2>4. RequestOK(r)'
    BY <1>1, <1>3, <2>3 DEF RequestOK, InTxn, InTxnPC, Request
  <2> QED
    BY <1>1, <2>1, <2>2, <2>4, OwnRecordMoves DEF InTxnPC, Request
<1>4. CASE req[r].op = "unarchive"
  <2> DEFINE q == [req[r] EXCEPT !.pc = "alloc.org", !.todo = {}]
  <2>1. req' = [req EXCEPT ![r] = q]
    BY <1>4 DEF Seeded, IndInv, TypeOK
  <2>2. q \in Request
    BY <1>1 DEF Request, PC
  <2>3. req'[r] = q
    BY <2>1 DEF IndInv, TypeOK
  <2>4. RequestOK(r)'
    BY <1>1, <1>4, <2>3 DEF RequestOK, InTxn, InTxnPC, Request
  <2> QED
    BY <1>1, <2>1, <2>2, <2>4, OwnRecordMoves DEF InTxnPC, Request
<1> QED
  BY <1>1, <1>2, <1>3, <1>4 DEF RequestOK

LEMMA BeginKeeps ==
    ASSUME IndInv, NEW r \in Requests, Arrive(r)
    PROVE  IndInv'
<1>0. \A n \in SeatNo, p \in Projects :
        (\E i \in DOMAIN seats[n].history : seats[n].history[i].project = p) =>
           n \in Existing(seats) /\ seats[n].user \in Users \cup {None}
  BY DEF IndInv, TypeOK, Seats, Seat, Existing, Absent
<1>1. req \in [Requests -> Request]
  BY DEF IndInv, TypeOK
<1>2. ASSUME BeginSeed(r) PROVE IndInv'
  <2> DEFINE q == [Idle EXCEPT !.pc = "seed.org", !.op = "seed"]
  <2>1. q \in Request
    BY <1>0, <1>2 DEF Idle, Request, PC, InTxnPC, BeginSeed
  <2>2. req'[r] = q /\ UNCHANGED <<users, held, org, seats>>
    BY <1>1, <1>2 DEF BeginSeed, Begin
  <2>3. RequestOK(r)'
    BY <1>0, <1>2, <2>2 DEF RequestOK, Idle, InTxn, InTxnPC, BeginSeed
  <2>4. req' = [req EXCEPT ![r] = q] /\ q.pc \notin InTxnPC
    BY <1>2 DEF BeginSeed, Begin, Idle, InTxnPC
  <2> HIDE DEF q
  <2> QED
    BY <2>1, <2>2, <2>3, <2>4, OwnRecordMoves
<1>3. ASSUME NEW u \in Users, BeginCreate(r, u) PROVE IndInv'
  <2> DEFINE q == [Idle EXCEPT !.pc = "seed.org", !.op = "create", !.user = u]
  <2>1. q \in Request
    BY <1>0, <1>3 DEF Idle, Request, PC, InTxnPC, BeginCreate
  <2>2. req'[r] = q /\ UNCHANGED <<users, held, org, seats>>
    BY <1>1, <1>3 DEF BeginCreate, Begin
  <2>3. RequestOK(r)'
    BY <1>0, <1>3, <2>2 DEF RequestOK, Idle, InTxn, InTxnPC, BeginCreate
  <2>4. req' = [req EXCEPT ![r] = q] /\ q.pc \notin InTxnPC
    BY <1>3 DEF BeginCreate, Begin, Idle, InTxnPC
  <2> HIDE DEF q
  <2> QED
    BY <2>1, <2>2, <2>3, <2>4, OwnRecordMoves
<1>4. ASSUME NEW u \in Users, BeginArchive(r, u) PROVE IndInv'
  <2> DEFINE q == [Idle EXCEPT !.pc = "arch.save", !.op = "archive", !.user = u]
  <2>1. q \in Request
    BY <1>0, <1>4 DEF Idle, Request, PC, InTxnPC, BeginArchive
  <2>2. req'[r] = q /\ UNCHANGED <<users, held, org, seats>>
    BY <1>1, <1>4 DEF BeginArchive, Begin
  <2>3. RequestOK(r)'
    BY <1>0, <1>4, <2>2 DEF RequestOK, Idle, InTxn, InTxnPC, BeginArchive
  <2>4. req' = [req EXCEPT ![r] = q] /\ q.pc \notin InTxnPC
    BY <1>4 DEF BeginArchive, Begin, Idle, InTxnPC
  <2> HIDE DEF q
  <2> QED
    BY <2>1, <2>2, <2>3, <2>4, OwnRecordMoves
<1>5. ASSUME NEW u \in Users, BeginUnarchive(r, u) PROVE IndInv'
  <2> DEFINE q == [Idle EXCEPT !.pc = "seed.org", !.op = "unarchive", !.user = u]
  <2>1. q \in Request
    BY <1>0, <1>5 DEF Idle, Request, PC, InTxnPC, BeginUnarchive
  <2>2. req'[r] = q /\ UNCHANGED <<users, held, org, seats>>
    BY <1>1, <1>5 DEF BeginUnarchive, Begin
  <2>3. RequestOK(r)'
    BY <1>0, <1>5, <2>2 DEF RequestOK, Idle, InTxn, InTxnPC, BeginUnarchive
  <2>4. req' = [req EXCEPT ![r] = q] /\ q.pc \notin InTxnPC
    BY <1>5 DEF BeginUnarchive, Begin, Idle, InTxnPC
  <2> HIDE DEF q
  <2> QED
    BY <2>1, <2>2, <2>3, <2>4, OwnRecordMoves
<1>6. ASSUME NEW u \in Users, NEW p \in Projects, BeginLink(r, u, p) PROVE IndInv'
  <2> DEFINE q == [Idle EXCEPT !.pc = "find.org", !.op = "link", !.user = u, !.project = p]
  <2>1. q \in Request
    BY <1>0, <1>6 DEF Idle, Request, PC, InTxnPC, BeginLink
  <2>2. req'[r] = q /\ UNCHANGED <<users, held, org, seats>>
    BY <1>1, <1>6 DEF BeginLink, Begin
  <2>3. RequestOK(r)'
    BY <1>0, <1>6, <2>2 DEF RequestOK, Idle, InTxn, InTxnPC, BeginLink
  <2>4. req' = [req EXCEPT ![r] = q] /\ q.pc \notin InTxnPC
    BY <1>6 DEF BeginLink, Begin, Idle, InTxnPC
  <2> HIDE DEF q
  <2> QED
    BY <2>1, <2>2, <2>3, <2>4, OwnRecordMoves
<1>7. ASSUME NEW n \in SeatNo, NEW p \in Projects, BeginClear(r, n, p) PROVE IndInv'
  <2> DEFINE q == [Idle EXCEPT !.pc = "clear.org", !.op = "clear", !.user = seats[n].user,
                           !.project = p, !.seat = n]
  <2>1. q \in Request
    BY <1>0, <1>7 DEF Idle, Request, PC, InTxnPC, BeginClear
  <2>2. req'[r] = q /\ UNCHANGED <<users, held, org, seats>>
    BY <1>1, <1>7 DEF BeginClear, Begin
  <2>3. RequestOK(r)'
    BY <1>0, <1>7, <2>2 DEF RequestOK, Idle, InTxn, InTxnPC, BeginClear
  <2>4. req' = [req EXCEPT ![r] = q] /\ q.pc \notin InTxnPC
    BY <1>7 DEF BeginClear, Begin, Idle, InTxnPC
  <2> HIDE DEF q
  <2> QED
    BY <2>1, <2>2, <2>3, <2>4, OwnRecordMoves
<1> QED
  BY <1>2, <1>3, <1>4, <1>5, <1>6, <1>7 DEF Arrive

LEMMA CheckOrgKeeps ==
    ASSUME IndInv, NEW r \in Requests, CheckOrg(r)
    PROVE  IndInv'
<1>1. req[r] \in Request /\ RequestOK(r) /\ req \in [Requests -> Request]
  BY DEF IndInv, TypeOK
<1>2. CASE ~OrgActive
  BY <1>2, FinishKeeps DEF CheckOrg
<1>3. CASE OrgActive
  <2> DEFINE pc == AfterOrg[req[r].pc]
             q == [req[r] EXCEPT !.pc = pc]
  <2>1. req[r].pc \in {"seed.org", "txn.org", "alloc.org", "rel.org", "find.org", "link.org", "clear.org"}
    BY DEF CheckOrg, AfterOrg
  <2>2. /\ req[r].pc = "seed.org"  => pc = "seed.find"
        /\ req[r].pc = "txn.org"   => pc = "txn.alloc"
        /\ req[r].pc = "alloc.org" => pc = "alloc"
        /\ req[r].pc = "rel.org"   => pc = "rel.find"
        /\ req[r].pc = "find.org"  => pc = "link.find"
        /\ req[r].pc = "link.org"  => pc = "link.read"
        /\ req[r].pc = "clear.org" => pc = "clear.read"
    BY <2>1 DEF AfterOrg
  <2> HIDE DEF pc
  <2>3. req' = [req EXCEPT ![r] = q] /\ UNCHANGED <<users, held, org, seats>>
    BY <1>1, <1>3 DEF CheckOrg, Goto, pc
  <2>4. q \in Request
    <3>1. pc \in PC
      BY <2>1, <2>2 DEF PC, InTxnPC
    <3> QED
      BY <1>1, <3>1 DEF Request
  <2>5. req'[r] = q
    BY <1>1, <2>3
  <2>6. /\ q.pc = pc /\ q.op = req[r].op /\ q.user = req[r].user /\ q.seat = req[r].seat
        /\ q.clean = req[r].clean /\ q.project = req[r].project /\ q.seen = req[r].seen
    BY <1>1 DEF Request
  <2> HIDE DEF q
  <2>7. RequestOK(r)'
    BY <1>1, <2>1, <2>2, <2>3, <2>5, <2>6 DEF RequestOK, InTxn, InTxnPC, Vacant, Existing
  <2>8. \A p \in Requests \ {r} : q.pc \in InTxnPC /\ InTxn(p) => req[p].user # q.user
    BY <1>1, <2>1, <2>2, <2>6 DEF IndInv, TransactionsDisjoint, InTxn, InTxnPC
  <2>9. q.pc # "txn.commit"
    BY <2>1, <2>2, <2>6
  <2> QED
    BY <2>3, <2>4, <2>7, <2>8, <2>9, OwnRecordMoves
<1> QED
  BY <1>2, <1>3

LEMMA SeedFindKeeps ==
    ASSUME IndInv, NEW r \in Requests, SeedFind(r)
    PROVE  IndInv'
<1>1. req[r] \in Request /\ RequestOK(r) /\ req \in [Requests -> Request]
  BY DEF IndInv, TypeOK
<1> DEFINE missing == SeatNo \ Existing(seats)
<1>2. CASE missing = {}
  BY <1>2, SeededKeeps DEF SeedFind
<1>3. CASE missing # {}
  <2> DEFINE q == [req[r] EXCEPT !.pc = "seed.insert", !.todo = missing]
  <2>1. req' = [req EXCEPT ![r] = q] /\ UNCHANGED <<users, held, org, seats>>
    BY <1>1, <1>3 DEF SeedFind
  <2>2. q \in Request
    BY <1>1 DEF Request, PC
  <2>3. RequestOK(r)'
    BY <1>1, <2>1 DEF SeedFind, RequestOK, InTxn, InTxnPC, Request
  <2> QED
    BY <1>1, <2>1, <2>2, <2>3, OwnRecordMoves DEF InTxnPC, Request
<1> QED
  BY <1>2, <1>3

LEMMA TxnBeginKeeps ==
    ASSUME IndInv, NEW r \in Requests, TxnBegin(r)
    PROVE  IndInv'
<1>1. req[r] \in Request /\ RequestOK(r) /\ req \in [Requests -> Request]
  BY DEF IndInv, TypeOK
<1> DEFINE u == req[r].user
           taken == \/ users[u] # "none"
                    \/ \E p \in Requests \ {r} : InTxn(p) /\ req[p].user = u
<1>2. CASE taken
  BY <1>2, FinishKeeps DEF TxnBegin
<1>3. CASE ~taken
  <2> DEFINE q == [req[r] EXCEPT !.pc = "txn.org", !.clean = Vacant(seats)]
  <2>1. req' = [req EXCEPT ![r] = q] /\ UNCHANGED <<users, held, org, seats>>
    BY <1>1, <1>3 DEF TxnBegin
  <2>2. q \in Request
    BY <1>1 DEF Request, PC, InTxnPC, Vacant
  <2>3. RequestOK(r)'
    BY <1>1, <1>3, <2>1 DEF TxnBegin, RequestOK, InTxn, InTxnPC, Request
  <2>4. \A p \in Requests \ {r} : InTxn(p) => req[p].user # q.user
    BY <1>1, <1>3 DEF Request
  <2>5. q.pc # "txn.commit"
    BY <1>1 DEF Request
  <2> HIDE DEF q, u, taken
  <2> QED
    BY <2>1, <2>2, <2>3, <2>4, <2>5, OwnRecordMoves
<1> QED
  BY <1>2, <1>3

LEMMA TxnAllocKeeps ==
    ASSUME IndInv, NEW r \in Requests, TxnAlloc(r)
    PROVE  IndInv'
<1>1. req[r] \in Request /\ RequestOK(r) /\ req \in [Requests -> Request]
  BY DEF IndInv, TypeOK
<1>2. CASE Finish(r)
  BY <1>2, FinishKeeps DEF TxnAlloc
<1>3. CASE ~Finish(r)
  <2>1. PICK n \in req[r].clean :
           /\ ~Locked(n)
           /\ req' = [req EXCEPT ![r].pc = "txn.commit", ![r].seat = n]
    BY <1>3 DEF TxnAlloc
  <2> DEFINE q == [req[r] EXCEPT !.pc = "txn.commit", !.seat = n]
  <2>2. req' = [req EXCEPT ![r] = q] /\ UNCHANGED <<users, held, org, seats>>
    BY <1>1, <2>1 DEF TxnAlloc
  <2>3. n \in SeatNo /\ n \in Vacant(seats) /\ req[r].pc = "txn.alloc"
    BY <1>1, <2>1 DEF TxnAlloc, RequestOK, InTxn, InTxnPC, Vacant
  <2>4. q \in Request
    BY <1>1, <2>3 DEF Request, PC, InTxnPC
  <2>5. RequestOK(r)'
    BY <1>1, <2>2, <2>3 DEF RequestOK, InTxn, InTxnPC, Request
  <2>6. \A p \in Requests \ {r} : InTxn(p) =>
           /\ req[p].user # q.user
           /\ req[p].pc = "txn.commit" => req[p].seat # q.seat
    BY <1>1, <2>1, <2>3 DEF IndInv, TransactionsDisjoint, InTxn, InTxnPC, Locked, Request
  <2> HIDE DEF q
  <2> QED
    BY <2>2, <2>4, <2>5, <2>6, OwnRecordMoves
<1> QED
  BY <1>2, <1>3

\* Seats that are taken or have a history are documents.
LEMMA ExistingIsSeat ==
    ASSUME IndInv, NEW n \in Existing(seats)
    PROVE  n \in SeatNo /\ seats[n] \in Seat
BY DEF IndInv, TypeOK, Seats, Existing, Absent

\* A request has read a seat it will save.
LEMMA HasReadKeeps ==
    ASSUME IndInv, NEW r \in Requests, NEW n \in Existing(seats), NEW pc \in SavePC,
           HasRead(r, n, pc), UNCHANGED <<users, held, org, seats>>,
           pc = "rel.save" => req[r].op \in {"archive", "unarchive"},
           pc = "link.save" => req[r].op = "link" /\ seats[n].user \in Users,
           pc = "clear.save" => req[r].op = "clear"
    PROVE  /\ IndInv'
           /\ \A p \in Requests \ {r} : req'[p] = req[p]
           /\ req'[r].pc = pc /\ req'[r].op = req[r].op /\ req'[r].user = req[r].user
           /\ req'[r].seat = n /\ req'[r].seen = seats[n] /\ req'[r].project = req[r].project
<1> DEFINE q == [req[r] EXCEPT !.pc = pc, !.seat = n, !.seen = seats[n], !.fresh = TRUE]
<1>1. req[r] \in Request /\ RequestOK(r) /\ req \in [Requests -> Request]
  BY DEF IndInv, TypeOK
<1>2. n \in SeatNo /\ seats[n] \in Seat
  BY ExistingIsSeat
<1>3. req' = [req EXCEPT ![r] = q]
  BY <1>1 DEF HasRead
<1>4. /\ q \in Request
      /\ q.pc = pc /\ q.op = req[r].op /\ q.user = req[r].user
      /\ q.seat = n /\ q.seen = seats[n] /\ q.project = req[r].project
  <2>1. pc \in PC
    BY DEF PC
  <2> QED
    BY <1>1, <1>2, <2>1 DEF Request
<1> HIDE DEF q
<1>5. req'[r] = q /\ \A p \in Requests \ {r} : req'[p] = req[p]
  BY <1>1, <1>3
<1>6. RequestOK(r)'
  BY <1>1, <1>2, <1>4, <1>5 DEF RequestOK, InTxn, InTxnPC
<1>7. q.pc \notin InTxnPC
  BY <1>4 DEF InTxnPC
<1>8. IndInv'
  BY <1>3, <1>4, <1>6, <1>7, OwnRecordMoves
<1> QED
  BY <1>4, <1>5, <1>8

LEMMA RelFindKeeps ==
    ASSUME IndInv, NEW r \in Requests, RelFind(r)
    PROVE  IndInv'
<1>1. RequestOK(r) /\ req[r].pc = "rel.find" /\ UNCHANGED <<users, held, org, seats>>
  BY DEF IndInv, RelFind
<1>2. CASE Finish(r)
  BY <1>1, <1>2, FinishKeeps
<1>3. ASSUME NEW n \in Existing(seats), HasRead(r, n, "rel.save") PROVE IndInv'
  BY <1>1, <1>3, HasReadKeeps DEF RequestOK
<1> QED
  BY <1>2, <1>3 DEF RelFind

LEMMA LinkReadKeeps ==
    ASSUME IndInv, NEW r \in Requests, LinkRead(r)
    PROVE  IndInv'
<1>1. RequestOK(r) /\ req[r].pc = "link.read" /\ UNCHANGED <<users, held, org, seats>>
  BY DEF IndInv, LinkRead
<1>2. CASE Finish(r)
  BY <1>1, <1>2, FinishKeeps
<1>3. CASE ~Finish(r)
  <2> DEFINE n == req[r].seat
  <2>1. HasRead(r, n, "link.save") /\ seats[n].status = "active"
    BY <1>3 DEF LinkRead
  <2>2. n \in Existing(seats) /\ n \in SeatNo /\ req[r].op = "link"
    BY <1>1, ExistingIsSeat DEF RequestOK
  <2> HIDE DEF n
  <2>3. seats[n].user \in Users
    BY <2>1, <2>2 DEF IndInv, SeatShape
  <2> QED
    BY <1>1, <2>1, <2>2, <2>3, HasReadKeeps
<1> QED
  BY <1>2, <1>3

LEMMA ClearReadKeeps ==
    ASSUME IndInv, NEW r \in Requests, ClearRead(r)
    PROVE  IndInv'
<1>1. /\ req[r].seat \in Existing(seats) /\ req[r].op = "clear"
      /\ HasRead(r, req[r].seat, "clear.save") /\ UNCHANGED <<users, held, org, seats>>
  BY DEF IndInv, RequestOK, ClearRead
<1> QED
  BY <1>1, HasReadKeeps

LEMMA LinkFindKeeps ==
    ASSUME IndInv, NEW r \in Requests, LinkFind(r)
    PROVE  IndInv'
<1>1. /\ req[r] \in Request /\ RequestOK(r) /\ req \in [Requests -> Request]
      /\ req[r].pc = "link.find" /\ UNCHANGED <<users, held, org, seats>>
  BY DEF IndInv, TypeOK, LinkFind
<1>2. CASE Finish(r)
  BY <1>1, <1>2, FinishKeeps
<1>3. ASSUME NEW q \in Request, req' = [req EXCEPT ![r] = q], q.pc \in {"alloc.org", "link.org"},
             q.op = req[r].op, q.user = req[r].user, q.project = req[r].project,
             q.pc = "link.org" => q.seat \in Existing(seats)
      PROVE  IndInv'
  <2>1. req'[r] = q
    BY <1>1, <1>3
  <2>2. RequestOK(r)'
    BY <1>1, <1>3, <2>1 DEF RequestOK, InTxn, InTxnPC
  <2> QED
    BY <1>1, <1>3, <2>2, OwnRecordMoves DEF InTxnPC
<1>4. CASE Goto(r, "alloc.org")
  <2> DEFINE q == [req[r] EXCEPT !.pc = "alloc.org"]
  <2>1. q \in Request /\ q.pc = "alloc.org" /\ q.op = req[r].op /\ q.user = req[r].user
        /\ q.project = req[r].project
    BY <1>1 DEF Request, PC
  <2>2. req' = [req EXCEPT ![r] = q]
    BY <1>1, <1>4 DEF Goto
  <2> HIDE DEF q
  <2> QED
    BY <1>3, <2>1, <2>2
<1>5. ASSUME NEW n \in HeldBy(seats, req[r].user),
             req' = [req EXCEPT ![r].pc = "link.org", ![r].seat = n]
      PROVE  IndInv'
  <2> DEFINE q == [req[r] EXCEPT !.pc = "link.org", !.seat = n]
  <2>1. n \in SeatNo /\ n \in Existing(seats)
    BY DEF HeldBy, Existing
  <2>2. q \in Request /\ q.pc = "link.org" /\ q.op = req[r].op /\ q.user = req[r].user
        /\ q.project = req[r].project /\ q.seat = n
    BY <1>1, <2>1 DEF Request, PC
  <2>3. req' = [req EXCEPT ![r] = q]
    BY <1>1, <1>5
  <2> HIDE DEF q
  <2> QED
    BY <1>3, <2>1, <2>2, <2>3
<1> QED
  BY <1>2, <1>4, <1>5 DEF LinkFind

LEMMA UnarchSaveRejectedKeeps ==
    ASSUME IndInv, NEW r \in Requests, UnarchSaveRejected(r)
    PROVE  IndInv'
<1>1. req[r] \in Request /\ RequestOK(r) /\ req \in [Requests -> Request]
  BY DEF IndInv, TypeOK
<1> DEFINE q == [req[r] EXCEPT !.pc = "rel.org"]
<1>2. req' = [req EXCEPT ![r] = q]
  BY <1>1 DEF UnarchSaveRejected, Goto
<1>3. q \in Request
  BY <1>1 DEF Request, PC
<1>4. RequestOK(r)'
  BY <1>1, <1>2 DEF UnarchSaveRejected, RequestOK, InTxn, InTxnPC, Request
<1> QED
  BY <1>1, <1>2, <1>3, <1>4, OwnRecordMoves DEF UnarchSaveRejected, InTxnPC, Request

-----------------------------------------------------------------------------
(* Steps that write a seat *)

LEMMA SeatWriteKeeps ==
    ASSUME IndInv, NEW r \in Requests, NEW n \in SeatNo, NEW s \in Seat,
           NEW record \in Request, record.pc \notin InTxnPC, NEW moves \in BOOLEAN,
           seats' = [seats EXCEPT ![n] = s],
           Wrote(n, r, record, moves),
           UNCHANGED <<held, org>>,
           users' \in [Users -> {"none", "live", "archived"}],
           \A u \in Users : users[u] # "none" => users'[u] # "none",
           \A p \in Requests \ {r} : InTxn(p) => users'[req[p].user] = "none",
           \A p \in Requests \ {r} : req[p].pc = "txn.commit" => req[p].seat # n,
           RequestOK(r)',
           IF s.status = "active"
             THEN s.user \in Users /\ users'[s.user] # "none"
             ELSE s.user = None,
           KeyFree(seats, n, s.user)
    PROVE  IndInv'
<1>1. /\ req \in [Requests -> Request] /\ seats \in Seats
      /\ \A p \in Requests : RequestOK(p)
  BY DEF IndInv, TypeOK
<1>2. /\ req'[r] = record
      /\ \A p \in Requests \ {r} :
            req'[p] = [req[p] EXCEPT !.clean = @ \ {n},
                                     !.fresh = @ /\ ~(moves /\ req[p].seat = n)]
  BY DEF Wrote
<1>3. ASSUME NEW p \in Requests \ {r}
      PROVE  /\ req'[p] \in Request
             /\ req'[p].pc = req[p].pc /\ req'[p].op = req[p].op
             /\ req'[p].user = req[p].user /\ req'[p].seat = req[p].seat
             /\ req'[p].project = req[p].project /\ req'[p].seen = req[p].seen
             /\ req'[p].clean = req[p].clean \ {n}
  <2> DEFINE fresh == req[p].fresh /\ ~(moves /\ req[p].seat = n)
  <2>1. req[p] \in Request
    BY <1>1
  <2>2. req'[p] = [req[p] EXCEPT !.clean = req[p].clean \ {n}, !.fresh = fresh]
    BY <1>2
  <2>3. req[p].clean \ {n} \in SUBSET SeatNo /\ fresh \in BOOLEAN
    BY <2>1 DEF Request
  <2> HIDE DEF fresh
  <2> QED
    BY <2>1, <2>2, <2>3 DEF Request
<1>4. req' \in [Requests -> Request]
  BY <1>2, <1>3 DEF Wrote
<1>5. /\ seats'[n] = s
      /\ \A m \in SeatNo \ {n} : seats'[m] = seats[m]
      /\ seats' \in Seats
  BY <1>1 DEF Seats
<1>6. s.status # "absent"
  BY DEF Seat
<1>7. Existing(seats') = Existing(seats) \cup {n}
  BY <1>5, <1>6 DEF Existing
<1>8. Vacant(seats) \ {n} \subseteq Vacant(seats')
  BY <1>5 DEF Vacant
<1>9. TypeOK'
  BY <1>4, <1>5 DEF IndInv, TypeOK
<1>10. \A p \in Requests : RequestOK(p)'
  <2> SUFFICES ASSUME NEW p \in Requests \ {r} PROVE RequestOK(p)'
    OBVIOUS
  <2>1. RequestOK(p) /\ InTxn(p)' = InTxn(p)
    BY <1>1, <1>3 DEF InTxn
  <2>2. req[p].op \in {"archive", "unarchive", "link"} => users'[req[p].user] # "none"
    BY <2>1 DEF RequestOK
  <2>3. req[p].pc \in OnSeat => req[p].seat \in Existing(seats')
    BY <1>7, <2>1 DEF RequestOK
  <2>4. req[p].pc = "txn.commit" => req[p].seat \in Vacant(seats')
    BY <1>8, <2>1 DEF RequestOK
  <2>5. InTxn(p) => req[p].clean \ {n} \subseteq Vacant(seats') /\ users'[req[p].user] = "none"
    BY <1>8, <2>1 DEF RequestOK
  <2>6. /\ req'[p].pc = req[p].pc /\ req'[p].op = req[p].op
        /\ req'[p].user = req[p].user /\ req'[p].seat = req[p].seat
        /\ req'[p].project = req[p].project /\ req'[p].seen = req[p].seen
        /\ req'[p].clean = req[p].clean \ {n}
    BY <1>3
  <2> QED
    BY <2>1, <2>2, <2>3, <2>4, <2>5, <2>6 DEF RequestOK
<1>11. TransactionsDisjoint'
  <2> SUFFICES ASSUME NEW p \in Requests, NEW q \in Requests, p # q, InTxn(p)', InTxn(q)'
               PROVE  /\ req'[p].user # req'[q].user
                      /\ req'[p].pc = "txn.commit" /\ req'[q].pc = "txn.commit" =>
                            req'[p].seat # req'[q].seat
    BY DEF TransactionsDisjoint
  <2>1. p # r /\ q # r
    BY <1>2 DEF InTxn
  <2>2. InTxn(p) /\ InTxn(q)
    BY <1>3, <2>1 DEF InTxn
  <2> QED
    BY <1>3, <2>1, <2>2 DEF IndInv, TransactionsDisjoint
<1>12. SeatShape'
  BY <1>5 DEF IndInv, SeatShape
<1>13. KeysUnique'
  BY <1>5, <1>7 DEF IndInv, KeysUnique, KeyFree, Existing
<1> QED
  BY <1>9, <1>10, <1>11, <1>12, <1>13 DEF IndInv

LEMMA TxnCommitKeeps ==
    ASSUME IndInv, NEW r \in Requests, TxnCommit(r)
    PROVE  IndInv'
<1> DEFINE n == req[r].seat
           u == req[r].user
           s == Allocated(seats[n], u, None)
<1>1. /\ req \in [Requests -> Request] /\ RequestOK(r)
      /\ users \in [Users -> {"none", "live", "archived"}]
      /\ seats \in Seats
  BY DEF IndInv, TypeOK
<1>2. /\ n \in SeatNo /\ n \in Vacant(seats) /\ u \in Users
      /\ users[u] = "none" /\ InTxn(r)
  BY <1>1 DEF TxnCommit, RequestOK, InTxn, InTxnPC, Vacant
<1>3. seats[n] \in Seat
  BY <1>2, ExistingIsSeat DEF Vacant, Existing
<1>4. s \in Seat
  BY <1>2, <1>3, AllocatedType
<1>5. s.status = "active" /\ s.user = u
  BY <1>3 DEF Allocated, Seat
<1>6. users' = [users EXCEPT ![u] = "live"]
  BY DEF TxnCommit
<1>7. KeyFree(seats, n, u)
  BY <1>2, SeatStoreAssumption DEF KeyFree, IndInv, SeatShape, Existing
<1>8. \A p \in Requests \ {r} :
         /\ InTxn(p) => users'[req[p].user] = "none"
         /\ req[p].pc = "txn.commit" => req[p].seat # n
  <2> TAKE p \in Requests \ {r}
  <2>1. InTxn(p) => req[p].user # u /\ users[req[p].user] = "none" /\ req[p].user \in Users
    BY <1>2 DEF IndInv, TransactionsDisjoint, RequestOK, InTxn, InTxnPC
  <2>2. req[p].pc = "txn.commit" => req[p].seat # n
    BY <1>2 DEF IndInv, TransactionsDisjoint, InTxn, InTxnPC, TxnCommit
  <2> QED
    BY <1>1, <1>6, <2>1, <2>2
<1>9. RequestOK(r)'
  BY DEF TxnCommit, Wrote, RequestOK, Idle, InTxn, InTxnPC
<1>10. seats' = [seats EXCEPT ![n] = s] /\ Wrote(n, r, Idle, FALSE) /\ UNCHANGED <<held, org>>
  BY DEF TxnCommit
<1>11. users' \in [Users -> {"none", "live", "archived"}] /\ users'[u] = "live"
       /\ \A v \in Users : users[v] # "none" => users'[v] # "none"
  BY <1>1, <1>2, <1>6
<1>12. Idle.pc \notin InTxnPC
  BY DEF Idle, InTxnPC
<1> HIDE DEF n, u, s
<1> QED
  BY <1>2, <1>4, <1>5, <1>7, <1>8, <1>9, <1>10, <1>11, <1>12, IdleType, SeatWriteKeeps

LEMMA AllocKeeps ==
    ASSUME IndInv, NEW r \in Requests, Alloc(r)
    PROVE  IndInv'
<1> DEFINE u == req[r].user
           pc == IF req[r].op = "link" THEN "link.org" ELSE "unarch.save"
<1>1. /\ req \in [Requests -> Request] /\ req[r] \in Request /\ RequestOK(r)
      /\ users \in [Users -> {"none", "live", "archived"}]
  BY DEF IndInv, TypeOK
<1>2. u \in Users /\ users[u] # "none" /\ req[r].op \in {"unarchive", "link"}
  BY <1>1 DEF Alloc, RequestOK
<1>3. UNCHANGED <<users, held, org>>
  BY DEF Alloc
<1>4. CASE Finish(r) /\ seats' = seats
  BY <1>3, <1>4, FinishKeeps
<1>5. CASE ~(Finish(r) /\ seats' = seats)
  <2>1. PICK n \in Vacant(seats) :
           /\ ~Locked(n)
           /\ KeyFree(seats, n, u)
           /\ seats' = [seats EXCEPT ![n] = Allocated(@, u, None)]
           /\ Wrote(n, r, [req[r] EXCEPT !.pc = pc, !.seat = n], FALSE)
    BY <1>5 DEF Alloc
  <2> DEFINE s == Allocated(seats[n], u, None)
             record == [req[r] EXCEPT !.pc = pc, !.seat = n]
  <2>2. n \in SeatNo /\ seats[n] \in Seat
    BY ExistingIsSeat DEF Vacant, Existing
  <2>3. s \in Seat /\ s.status = "active" /\ s.user = u
    BY <1>2, <2>2, AllocatedType DEF Allocated, Seat
  <2>4. /\ record \in Request /\ record.pc = pc /\ record.op = req[r].op
        /\ record.user = u /\ record.project = req[r].project /\ record.seat = n
        /\ record.pc \notin InTxnPC
    <3>1. pc \in PC \ InTxnPC
      BY DEF PC, InTxnPC
    <3> HIDE DEF pc
    <3> QED
      BY <1>1, <2>2, <3>1 DEF Request
  <2>5. seats' = [seats EXCEPT ![n] = s] /\ Wrote(n, r, record, FALSE)
    BY <2>1
  <2> HIDE DEF s, record
  <2>6. n \in Existing(seats')
    <3>1. seats'[n] = s
      BY <2>2, <2>5 DEF IndInv, TypeOK, Seats
    <3> QED
      BY <2>2, <2>3, <3>1 DEF Existing
  <2>7. RequestOK(r)'
    <3>1. req'[r] = record
      BY <2>5 DEF Wrote
    <3> QED
      BY <1>1, <1>2, <1>3, <2>4, <2>6, <3>1 DEF RequestOK, InTxn, InTxnPC
  <2>8. \A p \in Requests \ {r} :
           /\ InTxn(p) => users'[req[p].user] = "none"
           /\ req[p].pc = "txn.commit" => req[p].seat # n
    BY <1>3, <2>1 DEF IndInv, RequestOK, Locked
  <2>9. /\ KeyFree(seats, n, s.user)
        /\ IF s.status = "active" THEN s.user \in Users /\ users'[s.user] # "none"
                                 ELSE s.user = None
        /\ \A v \in Users : users[v] # "none" => users'[v] # "none"
    BY <1>2, <1>3, <2>1, <2>3
  <2> HIDE DEF u, pc
  <2> QED
    BY <1>1, <1>3, <2>2, <2>3, <2>4, <2>5, <2>7, <2>8, <2>9, SeatWriteKeeps
<1> QED
  BY <1>4, <1>5

\* A request saves a document and is done.
LEMMA LastWriteKeeps ==
    ASSUME IndInv, NEW r \in Requests, NEW n \in SeatNo, NEW s \in Seat, NEW moves \in BOOLEAN,
           ~Locked(n), seats' = [seats EXCEPT ![n] = s], Wrote(n, r, Idle, moves),
           UNCHANGED <<users, held, org>>,
           IF s.status = "active"
             THEN s.user \in Users /\ users[s.user] # "none"
             ELSE s.user = None,
           KeyFree(seats, n, s.user)
    PROVE  IndInv'
<1>1. RequestOK(r)'
  BY DEF Wrote, RequestOK, Idle, InTxn, InTxnPC
<1>2. \A p \in Requests \ {r} :
         /\ InTxn(p) => users'[req[p].user] = "none"
         /\ req[p].pc = "txn.commit" => req[p].seat # n
  BY DEF IndInv, RequestOK, Locked
<1>3. Idle.pc \notin InTxnPC /\ users \in [Users -> {"none", "live", "archived"}]
  BY DEF Idle, InTxnPC, IndInv, TypeOK
<1> QED
  BY <1>1, <1>2, <1>3, IdleType, SeatWriteKeeps

LEMMA RelSaveKeeps ==
    ASSUME IndInv, NEW r \in Requests, RelSave(r)
    PROVE  IndInv'
<1> DEFINE n == req[r].seat
           s == Released(seats[n], req[r].seen)
<1>1. n \in SeatNo /\ seats[n] \in Seat
  BY ExistingIsSeat DEF IndInv, RelSave, RequestOK
<1>2. UNCHANGED <<users, held, org>> /\ ~Locked(n)
  BY DEF RelSave
<1>3. CASE Finish(r) /\ seats' = seats
  BY <1>2, <1>3, FinishKeeps
<1>4. CASE ~(Finish(r) /\ seats' = seats)
  <2>1. s \in Seat /\ s.status = "vacant" /\ s.user = None
    BY <1>1, ReleasedType
  <2>2. /\ KeyFree(seats, n, None)
        /\ seats' = [seats EXCEPT ![n] = s] /\ Wrote(n, r, Idle, FALSE)
    BY <1>4 DEF RelSave
  <2> HIDE DEF n, s
  <2> QED
    BY <1>1, <1>2, <2>1, <2>2, LastWriteKeeps
<1> QED
  BY <1>3, <1>4

\* Staffing writes neither the status nor the holder of a seat.
LEMMA StaffingWriteKeeps ==
    ASSUME IndInv, NEW r \in Requests, NEW n \in Existing(seats), NEW s \in Seat,
           s.status = seats[n].status, s.user = seats[n].user, NEW moves \in BOOLEAN,
           ~Locked(n), seats' = [seats EXCEPT ![n] = s], Wrote(n, r, Idle, moves),
           UNCHANGED <<users, held, org>>
    PROVE  IndInv'
<1>1. n \in SeatNo
  BY ExistingIsSeat
<1>2. IF s.status = "active"
        THEN s.user \in Users /\ users[s.user] # "none"
        ELSE s.user = None
  BY <1>1 DEF IndInv, SeatShape
<1>3. KeyFree(seats, n, s.user)
  BY <1>1 DEF IndInv, KeysUnique, KeyFree
<1> QED
  BY <1>1, <1>2, <1>3, LastWriteKeeps

\* What a link or its end writes, if it writes.
LEMMA LinkSaves ==
    ASSUME IndInv, NEW r \in Requests, LinkSave(r), ~(Finish(r) /\ seats' = seats)
    PROVE  LET n == req[r].seat
               s == Linked(seats[n], req[r].seen, req[r].project) IN
           /\ n \in Existing(seats) /\ n \in SeatNo /\ seats[n] \in Seat
           /\ s \in Seat /\ s.status = seats[n].status /\ s.user = seats[n].user
           /\ seats' = [seats EXCEPT ![n] = s] /\ Wrote(n, r, Idle, TRUE)
<1> DEFINE n == req[r].seat
           s == Linked(seats[n], req[r].seen, req[r].project)
<1>1. /\ n \in Existing(seats) /\ n \in SeatNo /\ seats[n] \in Seat /\ req[r].seen \in Seat
      /\ req[r].seen.user \in Users /\ req[r].project \in Projects
  BY ExistingIsSeat DEF IndInv, LinkSave, RequestOK
<1>2. s \in Seat /\ s.status = seats[n].status /\ s.user = seats[n].user
  BY <1>1, LinkedType
<1>3. seats' = [seats EXCEPT ![n] = s] /\ Wrote(n, r, Idle, TRUE)
  BY DEF LinkSave
<1> QED
  BY <1>1, <1>2, <1>3

LEMMA ClearSaves ==
    ASSUME IndInv, NEW r \in Requests, ClearSave(r), ~(Finish(r) /\ seats' = seats)
    PROVE  LET n == req[r].seat
               s == Cleared(seats[n], req[r].seen, req[r].project) IN
           /\ n \in Existing(seats) /\ n \in SeatNo /\ seats[n] \in Seat
           /\ s \in Seat /\ s.status = seats[n].status /\ s.user = seats[n].user
           /\ seats' = [seats EXCEPT ![n] = s] /\ Wrote(n, r, Idle, FALSE)
<1> DEFINE n == req[r].seat
           s == Cleared(seats[n], req[r].seen, req[r].project)
<1>1. n \in Existing(seats) /\ n \in SeatNo /\ seats[n] \in Seat
  BY ExistingIsSeat DEF IndInv, ClearSave, RequestOK
<1>2. s \in Seat /\ s.status = seats[n].status /\ s.user = seats[n].user
  BY <1>1, ClearedType
<1>3. seats' = [seats EXCEPT ![n] = s] /\ Wrote(n, r, Idle, FALSE)
  BY DEF ClearSave
<1> QED
  BY <1>1, <1>2, <1>3

LEMMA LinkSaveKeeps ==
    ASSUME IndInv, NEW r \in Requests, LinkSave(r)
    PROVE  IndInv'
<1>1. UNCHANGED <<users, held, org>> /\ ~Locked(req[r].seat)
  BY DEF LinkSave
<1>2. CASE Finish(r) /\ seats' = seats
  BY <1>1, <1>2, FinishKeeps
<1>3. CASE ~(Finish(r) /\ seats' = seats)
  BY <1>1, <1>3, LinkSaves, StaffingWriteKeeps
<1> QED
  BY <1>2, <1>3

LEMMA ClearSaveKeeps ==
    ASSUME IndInv, NEW r \in Requests, ClearSave(r)
    PROVE  IndInv'
<1>1. UNCHANGED <<users, held, org>> /\ ~Locked(req[r].seat)
  BY DEF ClearSave
<1>2. CASE Finish(r) /\ seats' = seats
  BY <1>1, <1>2, FinishKeeps
<1>3. CASE ~(Finish(r) /\ seats' = seats)
  BY <1>1, <1>3, ClearSaves, StaffingWriteKeeps
<1> QED
  BY <1>2, <1>3

\* Inserting a vacant document disturbs no request: the ones under way hold
\* seats that already exist.
LEMMA SeedInsertKeeps ==
    ASSUME IndInv, NEW r \in Requests, SeedInsert(r)
    PROVE  IndInv'
<1>1. /\ req \in [Requests -> Request] /\ req[r] \in Request /\ RequestOK(r)
      /\ seats \in Seats
  BY DEF IndInv, TypeOK
<1>2. PICK n \in req[r].todo :
         /\ seats' = IF CanInsert(seats, n) THEN [seats EXCEPT ![n] = NewSeat] ELSE seats
         /\ IF req[r].todo = {n}
              THEN Seeded(r)
              ELSE req' = [req EXCEPT ![r].todo = @ \ {n}]
  BY DEF SeedInsert
<1>3. n \in SeatNo /\ UNCHANGED <<users, held, org>> /\ req[r].pc = "seed.insert"
  BY <1>1 DEF SeedInsert, Request
<1>4. /\ seats' \in Seats
      /\ \A m \in Existing(seats) : m \in Existing(seats') /\ seats'[m] = seats[m]
      /\ \A m \in SeatNo \ Existing(seats) :
            seats'[m] = seats[m] \/ (m = n /\ CanInsert(seats, n) /\ seats'[m] = NewSeat)
  BY <1>1, <1>2, <1>3, NewSeatType DEF Seats, CanInsert, Existing
<1>5. \A m \in Vacant(seats) : m \in Vacant(seats') /\ m \in Existing(seats)
  BY <1>4 DEF Vacant, Existing
<1>6. SeatShape'
  <2>1. NewSeat.status = "vacant" /\ NewSeat.user = None
    BY DEF NewSeat, Absent
  <2> QED
    BY <1>3, <1>4, <2>1 DEF IndInv, SeatShape
<1>7. KeysUnique'
  <2>1. NewSeat.user = None
    BY DEF NewSeat, Absent
  <2>2. \A m \in Existing(seats') :
           m \in Existing(seats) \/ (m = n /\ CanInsert(seats, n) /\ seats'[m] = NewSeat)
    BY <1>4 DEF Existing
  <2> QED
    BY <1>4, <2>1, <2>2 DEF IndInv, KeysUnique, CanInsert, KeyFree
<1>8. /\ req' \in [Requests -> Request]
      /\ \A p \in Requests \ {r} : req'[p] = req[p]
      /\ req'[r].pc \notin InTxnPC
      /\ RequestOK(r)'
  <2>1. CASE req[r].todo # {n}
    <3> DEFINE q == [req[r] EXCEPT !.todo = req[r].todo \ {n}]
    <3>1. req' = [req EXCEPT ![r] = q]
      BY <1>1, <1>2, <2>1
    <3>2. req[r].todo \ {n} \in SUBSET SeatNo
      BY <1>1 DEF Request
    <3>3. q \in Request /\ q.pc = "seed.insert" /\ q.op = req[r].op /\ q.user = req[r].user
      BY <1>1, <1>3, <3>2 DEF Request
    <3>4. req'[r] = q
      BY <1>1, <3>1
    <3> HIDE DEF q
    <3> QED
      BY <1>1, <1>3, <3>1, <3>3, <3>4 DEF RequestOK, InTxn, InTxnPC
  <2>2. CASE req[r].todo = {n} /\ req[r].op = "seed"
    <3>1. req' = [req EXCEPT ![r] = Idle]
      BY <1>2, <2>2 DEF Seeded, Finish
    <3> QED
      BY <1>1, <3>1, IdleType DEF RequestOK, Idle, InTxn, InTxnPC
  <2>3. CASE req[r].todo = {n} /\ req[r].op \in {"create", "unarchive"}
    <3> DEFINE pc == IF req[r].op = "create" THEN "txn.begin" ELSE "alloc.org"
               q == [req[r] EXCEPT !.pc = pc, !.todo = {}]
    <3>1. req' = [req EXCEPT ![r] = q]
      BY <1>1, <1>2, <2>3 DEF Seeded
    <3>4. pc \in PC /\ {} \in SUBSET SeatNo
      BY DEF PC
    <3> HIDE DEF pc
    <3>2. q \in Request /\ q.pc = pc /\ q.op = req[r].op /\ q.user = req[r].user
      BY <1>1, <3>4 DEF Request
    <3>3. req'[r] = q
      BY <1>1, <3>1
    <3> USE DEF pc
    <3> HIDE DEF q
    <3> QED
      BY <1>1, <1>3, <2>3, <3>1, <3>2, <3>3 DEF RequestOK, InTxn, InTxnPC
  <2> QED
    BY <1>1, <1>3, <2>1, <2>2, <2>3 DEF RequestOK
<1>9. TypeOK'
  BY <1>3, <1>4, <1>8 DEF IndInv, TypeOK
<1>10. \A p \in Requests : RequestOK(p)'
  <2> SUFFICES ASSUME NEW p \in Requests \ {r} PROVE RequestOK(p)'
    BY <1>8
  <2>1. RequestOK(p) /\ req'[p] = req[p]
    BY <1>8 DEF IndInv
  <2> QED
    BY <1>3, <1>4, <1>5, <2>1 DEF RequestOK, InTxn
<1>11. TransactionsDisjoint'
  BY <1>8 DEF IndInv, TransactionsDisjoint, InTxn, InTxnPC
<1> QED
  BY <1>6, <1>7, <1>9, <1>10, <1>11 DEF IndInv

-----------------------------------------------------------------------------
(* Steps that write an account, and the environment *)

\* Reopening or closing an account that exists leaves the invariant alone,
\* whether a request does it or the compliance batch.
LEMMA AccountWriteKeeps ==
    ASSUME IndInv, NEW u \in Users, users[u] # "none", NEW v \in {"live", "archived"},
           users' = [users EXCEPT ![u] = v],
           UNCHANGED <<held, org, seats>>,
           req' \in [Requests -> Request],
           \A p \in Requests :
              \/ req'[p] = req[p]
              \/ req'[p].pc \notin InTxnPC /\ RequestOK(p)'
    PROVE  IndInv'
<1>1. users \in [Users -> {"none", "live", "archived"}] /\ seats \in Seats
  BY DEF IndInv, TypeOK
<1>2. users' \in [Users -> {"none", "live", "archived"}]
      /\ \A w \in Users : users'[w] = "none" <=> users[w] = "none"
  BY <1>1
<1>3. TypeOK'
  BY <1>2 DEF IndInv, TypeOK
<1>4. \A p \in Requests : RequestOK(p)'
  <2> SUFFICES ASSUME NEW p \in Requests, req'[p] = req[p] PROVE RequestOK(p)'
    OBVIOUS
  <2>1. RequestOK(p)
    BY DEF IndInv
  <2>2. InTxn(p) => req[p].user \in Users
    BY <2>1 DEF RequestOK, InTxn, InTxnPC
  <2> QED
    BY <1>2, <2>1, <2>2 DEF RequestOK, InTxn
<1>5. TransactionsDisjoint'
  BY DEF IndInv, TransactionsDisjoint, InTxn, InTxnPC
<1>6. SeatShape'
  BY <1>2 DEF IndInv, SeatShape
<1>7. KeysUnique'
  BY DEF IndInv, KeysUnique
<1> QED
  BY <1>3, <1>4, <1>5, <1>6, <1>7 DEF IndInv

LEMMA ArchSaveKeeps ==
    ASSUME IndInv, NEW r \in Requests, ArchSave(r)
    PROVE  IndInv'
<1> DEFINE q == [req[r] EXCEPT !.pc = "rel.org"]
<1>1. req \in [Requests -> Request] /\ req[r] \in Request /\ RequestOK(r)
      /\ users \in [Users -> {"none", "live", "archived"}]
  BY DEF IndInv, TypeOK
<1>2. req[r].op = "archive" /\ req[r].user \in Users /\ users[req[r].user] # "none"
  BY <1>1 DEF ArchSave, RequestOK
<1>3. /\ users' = [users EXCEPT ![req[r].user] = "archived"]
      /\ req' = [req EXCEPT ![r] = q]
      /\ UNCHANGED <<held, org, seats>>
  BY <1>1 DEF ArchSave, Goto
<1>4. q \in Request /\ q.pc = "rel.org" /\ q.op = "archive" /\ q.user = req[r].user
  BY <1>1, <1>2 DEF Request, PC
<1>5. req'[r] = q /\ \A p \in Requests \ {r} : req'[p] = req[p]
  BY <1>1, <1>3
<1>6. users'[req[r].user] = "archived"
  BY <1>1, <1>2, <1>3
<1> HIDE DEF q
<1>7. RequestOK(r)' /\ req'[r].pc \notin InTxnPC
  BY <1>2, <1>4, <1>5, <1>6 DEF RequestOK, InTxn, InTxnPC
<1> QED
  BY <1>1, <1>2, <1>3, <1>4, <1>5, <1>7, AccountWriteKeeps

LEMMA UnarchSaveKeeps ==
    ASSUME IndInv, NEW r \in Requests, UnarchSave(r)
    PROVE  IndInv'
<1>1. req \in [Requests -> Request] /\ req[r] \in Request /\ RequestOK(r)
  BY DEF IndInv, TypeOK
<1>2. req[r].user \in Users /\ users[req[r].user] # "none"
  BY <1>1 DEF UnarchSave, RequestOK
<1>3. /\ users' = [users EXCEPT ![req[r].user] = "live"]
      /\ req' = [req EXCEPT ![r] = Idle]
      /\ UNCHANGED <<held, org, seats>>
  BY DEF UnarchSave, Finish
<1>4. req'[r] = Idle /\ \A p \in Requests \ {r} : req'[p] = req[p]
  BY <1>1, <1>3
<1>5. RequestOK(r)' /\ req'[r].pc \notin InTxnPC
  BY <1>4 DEF RequestOK, Idle, InTxn, InTxnPC
<1> QED
  BY <1>1, <1>2, <1>3, <1>4, <1>5, IdleType, AccountWriteKeeps

LEMMA EnvironmentKeeps ==
    ASSUME IndInv, Environment
    PROVE  IndInv'
<1>1. ASSUME NEW u \in Users, BatchArchive(u) PROVE IndInv'
  <2>1. PICK v \in {"live", "archived"} : users' = [users EXCEPT ![u] = v]
    BY <1>1 DEF BatchArchive
  <2> QED
    BY <1>1, <2>1, AccountWriteKeeps DEF BatchArchive, IndInv, TypeOK
<1>2. ASSUME UNCHANGED <<users, seats, req>>, held' \subseteq Users,
             org' \in [archived: BOOLEAN, hold: BOOLEAN]
      PROVE  IndInv'
  BY <1>2 DEF IndInv, TypeOK, RequestOK, TransactionsDisjoint, SeatShape, KeysUnique,
              InTxn, Vacant, Existing
<1>3. org \in [archived: BOOLEAN, hold: BOOLEAN] /\ held \subseteq Users
  BY DEF IndInv, TypeOK
<1>4. ASSUME OrgSetLegalHold \/ OrgArchive \/ OrgUnarchive PROVE IndInv'
  BY <1>2, <1>3, <1>4 DEF OrgSetLegalHold, OrgArchive, OrgUnarchive
<1>5. ASSUME NEW u \in Users, UserSetLegalHold(u) PROVE IndInv'
  BY <1>2, <1>3, <1>5 DEF UserSetLegalHold
<1> QED
  BY <1>1, <1>4, <1>5 DEF Environment

-----------------------------------------------------------------------------
(* The theorems *)

LEMMA InitInv == Init => IndInv
<1> SUFFICES ASSUME Init PROVE IndInv
  OBVIOUS
<1>1. TypeOK
  BY IdleType DEF Init, TypeOK, Seats
<1>2. \A r \in Requests : RequestOK(r)
  BY DEF Init, RequestOK, Idle, InTxn, InTxnPC
<1>3. TransactionsDisjoint
  BY DEF Init, TransactionsDisjoint, Idle, InTxn, InTxnPC
<1>4. SeatShape /\ KeysUnique
  BY DEF Init, SeatShape, KeysUnique, Existing, Absent
<1> QED
  BY <1>1, <1>2, <1>3, <1>4 DEF IndInv

LEMMA NextInv == IndInv /\ [Next]_vars => IndInv'
<1> SUFFICES ASSUME IndInv, [Next]_vars PROVE IndInv'
  OBVIOUS
<1>1. ASSUME NEW r \in Requests, Step(r) PROVE IndInv'
  BY <1>1, CheckOrgKeeps, SeedFindKeeps, SeedInsertKeeps, TxnBeginKeeps, TxnAllocKeeps,
     TxnCommitKeeps, ArchSaveKeeps, RelFindKeeps, RelSaveKeeps, AllocKeeps,
     UnarchSaveKeeps, UnarchSaveRejectedKeeps, LinkFindKeeps, LinkReadKeeps, LinkSaveKeeps,
     ClearReadKeeps, ClearSaveKeeps DEF Step
<1>2. ASSUME NEW r \in Requests, Fail(r) PROVE IndInv'
  BY <1>2, FinishKeeps DEF Fail
<1>3. CASE UNCHANGED vars
  BY <1>3 DEF vars, IndInv, TypeOK, RequestOK, TransactionsDisjoint, SeatShape,
              KeysUnique, InTxn, Vacant, Existing
<1> QED
  BY <1>1, <1>2, <1>3, BeginKeeps, EnvironmentKeeps DEF Next

THEOREM Inductive == Spec => []IndInv
BY InitInv, NextInv, PTL DEF Spec

\* Every variable keeps its shape, for any number of accounts, requests and
\* seats, whatever fails and whatever overlaps.
THEOREM TypeCorrect == Spec => []TypeOK
<1>1. IndInv => TypeOK
  BY DEF IndInv
<1> QED
  BY <1>1, Inductive, PTL

\* No account ever holds two seats (seat.schema.ts, the unique index).
THEOREM HolderUnique == Spec => []UniqueHolder
<1>1. IndInv => UniqueHolder
  BY DEF IndInv, KeysUnique, UniqueHolder
<1> QED
  BY <1>1, Inductive, PTL

\* A taken seat always names an account that exists (users.service.ts, the
\* transaction of create).
THEOREM SeatsOfAccounts == Spec => []SeatHeldByAccount
<1>1. IndInv => SeatHeldByAccount
  BY DEF IndInv, SeatShape, SeatHeldByAccount
<1> QED
  BY <1>1, Inductive, PTL

-----------------------------------------------------------------------------
(* Careful operation: a live account always holds a seat, and the requests    *)
(* implement SeatLicences                                                     *)

Serial == Overlap = FALSE /\ "batch" \notin Faults

-----------------------------------------------------------------------------
(* The invariant *)

\* The steps at which a request is busy with the seat of its own account.
OwnSeatPC == {"rel.save", "link.org", "link.read", "link.save"}

USE DEF OwnSeatPC

\* What a request knows about its own account, which nobody else touches.
OwnAccountOK(r) ==
    LET q == req[r] IN
    /\ q.pc = "arch.save" => users[q.user] = "live"
    /\ q.op = "archive" /\ q.pc # "arch.save" => users[q.user] = "archived"
    /\ q.op = "unarchive" => users[q.user] = "archived"
    /\ q.pc = "unarch.save" => HeldBy(seats, q.user) # {}
    /\ q.pc \in OwnSeatPC => q.seat \in HeldBy(seats, q.user)

OneRequestPerAccount ==
    \A q, r \in Requests : q # r => req[q].user # req[r].user \/ req[q].user = None

SerialInv ==
    /\ \A r \in Requests : OwnAccountOK(r)
    /\ OneRequestPerAccount
    /\ LiveUserKeepsSeat

-----------------------------------------------------------------------------
(* A step of r moves nobody else's request, account or seat *)

OthersStay(r) ==
    /\ \A p \in Requests \ {r} :
          /\ req'[p].pc = req[p].pc /\ req'[p].op = req[p].op
          /\ req'[p].user = req[p].user /\ req'[p].seat = req[p].seat
    /\ \A u \in Users : u # req[r].user => users'[u] = users[u]
    /\ \A u \in Users : u # req[r].user => HeldBy(seats, u) \subseteq HeldBy(seats', u)
    /\ req'[r].user \in {req[r].user, None}

LEMMA StepKeepsSerial ==
    ASSUME IndInv, SerialInv, NEW r \in Requests, OthersStay(r), OwnAccountOK(r)',
           \A u \in Users : u = req[r].user =>
              (users'[u] = "live" => HeldBy(seats', u) # {})
    PROVE  SerialInv'
<1>1. \A p \in Requests : OwnAccountOK(p)'
  <2> SUFFICES ASSUME NEW p \in Requests \ {r} PROVE OwnAccountOK(p)'
    OBVIOUS
  <2>1. OwnAccountOK(p) /\ RequestOK(p)
    BY DEF SerialInv, IndInv
  <2>2. CASE req[p].op \in {"archive", "unarchive", "link"}
    <3>1. req[p].user \in Users /\ req[p].user # req[r].user
      BY <2>1, <2>2, SeatStoreAssumption DEF RequestOK, SerialInv, OneRequestPerAccount
    <3> QED
      BY <2>1, <3>1 DEF OwnAccountOK, OthersStay
  <2>3. CASE req[p].op \notin {"archive", "unarchive", "link"}
    BY <2>1, <2>3 DEF OwnAccountOK, OthersStay, RequestOK
  <2> QED
    BY <2>2, <2>3
<1>2. OneRequestPerAccount'
  BY DEF OthersStay, SerialInv, OneRequestPerAccount
<1>3. LiveUserKeepsSeat'
  BY DEF OthersStay, SerialInv, LiveUserKeepsSeat
<1> QED
  BY <1>1, <1>2, <1>3 DEF SerialInv

\* Only the request's own record moves.
LEMMA OwnMoveKeepsSerial ==
    ASSUME IndInv, SerialInv, NEW r \in Requests, NEW q \in Request,
           req' = [req EXCEPT ![r] = q], UNCHANGED <<users, seats>>,
           q.user \in {req[r].user, None},
           OwnAccountOK(r)'
    PROVE  SerialInv'
<1>1. req'[r] = q /\ \A p \in Requests \ {r} : req'[p] = req[p]
  BY DEF IndInv, TypeOK
<1>2. OthersStay(r)
  BY <1>1 DEF OthersStay
<1>3. \A u \in Users : users'[u] = "live" => HeldBy(seats', u) # {}
  BY DEF SerialInv, LiveUserKeepsSeat
<1> QED
  BY <1>2, <1>3, StepKeepsSerial

LEMMA FinishKeepsSerial ==
    ASSUME IndInv, SerialInv, NEW r \in Requests, Finish(r), UNCHANGED <<users, seats>>
    PROVE  SerialInv'
<1>1. req' = [req EXCEPT ![r] = Idle] /\ Idle.user = None
  BY DEF Finish, Idle
<1>2. req'[r] = Idle
  BY <1>1 DEF IndInv, TypeOK
<1>3. OwnAccountOK(r)'
  BY <1>2 DEF OwnAccountOK, Idle
<1> QED
  BY <1>1, <1>3, IdleType, OwnMoveKeepsSerial

\* A new request concerns an account no other request is busy with.
LEMMA BeginKeepsSerial ==
    ASSUME Serial, IndInv, SerialInv, NEW r \in Requests, Arrive(r)
    PROVE  SerialInv'
<1>1. req \in [Requests -> Request]
  BY DEF IndInv, TypeOK
<1>2. ASSUME NEW q, Begin(r, q),
             q.pc = "arch.save" => users[q.user] = "live",
             q.op = "archive" => q.pc = "arch.save",
             q.op = "unarchive" => users[q.user] = "archived",
             q.pc \notin {"unarch.save"} \cup OwnSeatPC
      PROVE  SerialInv'
  <2>1. UNCHANGED <<users, held, org, seats>>
    BY <1>2 DEF Begin
  <2>2. req'[r] = q /\ \A p \in Requests \ {r} : req'[p] = req[p]
    BY <1>1, <1>2 DEF Begin
  <2>3. q.user = None \/ \A p \in Requests : req[p].user # q.user
    BY <1>2 DEF Begin, Serial
  <2>4. \A p \in Requests : OwnAccountOK(p)'
    BY <1>2, <2>1, <2>2 DEF SerialInv, OwnAccountOK
  <2>5. OneRequestPerAccount'
    BY <2>2, <2>3 DEF SerialInv, OneRequestPerAccount
  <2>6. LiveUserKeepsSeat'
    BY <2>1 DEF SerialInv, LiveUserKeepsSeat
  <2> QED
    BY <2>4, <2>5, <2>6 DEF SerialInv
<1>3. ASSUME BeginSeed(r) PROVE SerialInv'
  BY <1>2, <1>3 DEF BeginSeed, Idle
<1>4. ASSUME NEW u \in Users, BeginCreate(r, u) PROVE SerialInv'
  BY <1>2, <1>4 DEF BeginCreate, Idle
<1>5. ASSUME NEW u \in Users, BeginArchive(r, u) PROVE SerialInv'
  BY <1>2, <1>5 DEF BeginArchive, Idle
<1>6. ASSUME NEW u \in Users, BeginUnarchive(r, u) PROVE SerialInv'
  BY <1>2, <1>6 DEF BeginUnarchive, Idle
<1>7. ASSUME NEW u \in Users, NEW p \in Projects, BeginLink(r, u, p) PROVE SerialInv'
  BY <1>2, <1>7 DEF BeginLink, Idle
<1>8. ASSUME NEW n \in SeatNo, NEW p \in Projects, BeginClear(r, n, p) PROVE SerialInv'
  BY <1>2, <1>8 DEF BeginClear, Idle
<1> QED
  BY <1>3, <1>4, <1>5, <1>6, <1>7, <1>8 DEF Arrive

-----------------------------------------------------------------------------
(* Steps that write neither an account nor a granted seat *)

LEMMA SeededMoves ==
    ASSUME IndInv, NEW r \in Requests,
           req[r].pc \in {"seed.find", "seed.insert"}, Seeded(r)
    PROVE  /\ \A p \in Requests \ {r} : req'[p] = req[p]
           /\ \/ req'[r] = Idle
              \/ /\ req'[r].op = req[r].op /\ req'[r].user = req[r].user
                 /\ req'[r].pc \in {"txn.begin", "alloc.org"}
<1>1. req[r] \in Request /\ RequestOK(r) /\ req \in [Requests -> Request]
  BY DEF IndInv, TypeOK
<1>2. CASE req[r].op = "seed"
  BY <1>1, <1>2 DEF Seeded, Finish
<1>3. CASE req[r].op = "create"
  <2>1. req' = [req EXCEPT ![r].pc = "txn.begin", ![r].todo = {}]
    BY <1>3 DEF Seeded
  <2> QED
    BY <1>1, <2>1 DEF Request
<1>4. CASE req[r].op = "unarchive"
  <2>1. req' = [req EXCEPT ![r].pc = "alloc.org", ![r].todo = {}]
    BY <1>4 DEF Seeded
  <2> QED
    BY <1>1, <2>1 DEF Request
<1> QED
  BY <1>1, <1>2, <1>3, <1>4 DEF RequestOK

LEMMA CheckOrgKeepsSerial ==
    ASSUME IndInv, SerialInv, NEW r \in Requests, CheckOrg(r)
    PROVE  SerialInv'
<1>1. req[r] \in Request /\ req \in [Requests -> Request] /\ OwnAccountOK(r) /\ RequestOK(r)
  BY DEF IndInv, TypeOK, SerialInv
<1>2. CASE ~OrgActive
  BY <1>2, FinishKeepsSerial DEF CheckOrg
<1>3. CASE OrgActive
  <2> DEFINE pc == AfterOrg[req[r].pc]
             q == [req[r] EXCEPT !.pc = pc]
  <2>1. /\ req[r].pc \in {"seed.org", "txn.org", "alloc.org", "rel.org", "find.org", "link.org", "clear.org"}
        /\ pc \in {"seed.find", "txn.alloc", "alloc", "rel.find", "link.find", "link.read", "clear.read"}
        /\ pc = "link.read" => req[r].pc = "link.org"
    BY DEF CheckOrg, AfterOrg
  <2> HIDE DEF pc
  <2>2. req' = [req EXCEPT ![r] = q] /\ UNCHANGED <<users, held, org, seats>>
    BY <1>1, <1>3 DEF CheckOrg, Goto, pc
  <2>3. q \in Request /\ q.pc = pc /\ q.op = req[r].op /\ q.user = req[r].user
        /\ q.seat = req[r].seat
    BY <1>1, <2>1 DEF Request, PC, InTxnPC
  <2>4. req'[r] = q
    BY <1>1, <2>2
  <2> HIDE DEF q
  <2>5. OwnAccountOK(r)'
    BY <1>1, <2>1, <2>2, <2>3, <2>4 DEF OwnAccountOK
  <2> QED
    BY <2>2, <2>3, <2>5, OwnMoveKeepsSerial
<1> QED
  BY <1>2, <1>3

LEMMA SeedFindKeepsSerial ==
    ASSUME IndInv, SerialInv, NEW r \in Requests, SeedFind(r)
    PROVE  SerialInv'
<1>1. req[r] \in Request /\ req \in [Requests -> Request] /\ OwnAccountOK(r)
  BY DEF IndInv, TypeOK, SerialInv
<1>2. /\ \A p \in Requests \ {r} : req'[p] = req[p]
      /\ req'[r].user \in {req[r].user, None}
      /\ (req'[r].op = req[r].op /\ req'[r].user = req[r].user) \/ req'[r] = Idle
      /\ req'[r].pc \in {"idle", "txn.begin", "alloc.org", "seed.insert"}
  <2>1. CASE SeatNo \ Existing(seats) = {}
    <3>1. Seeded(r) /\ req[r].pc = "seed.find"
      BY <2>1 DEF SeedFind
    <3>2. Idle.user = None /\ Idle.pc = "idle"
      BY DEF Idle
    <3> QED
      BY <3>1, <3>2, SeededMoves
  <2>2. CASE SeatNo \ Existing(seats) # {}
    <3> DEFINE q == [req[r] EXCEPT !.pc = "seed.insert", !.todo = SeatNo \ Existing(seats)]
    <3>1. req' = [req EXCEPT ![r] = q]
      BY <1>1, <2>2 DEF SeedFind
    <3>2. q.pc = "seed.insert" /\ q.op = req[r].op /\ q.user = req[r].user
      BY <1>1 DEF Request
    <3> HIDE DEF q
    <3> QED
      BY <1>1, <3>1, <3>2
  <2> QED
    BY <2>1, <2>2
<1>3. UNCHANGED <<users, held, org, seats>> /\ req[r].pc = "seed.find"
  BY DEF SeedFind
<1>4. OwnAccountOK(r)'
  BY <1>1, <1>2, <1>3 DEF OwnAccountOK, Idle
<1>5. OthersStay(r)
  BY <1>2, <1>3 DEF OthersStay
<1> QED
  BY <1>3, <1>4, <1>5, StepKeepsSerial DEF SerialInv, LiveUserKeepsSeat

LEMMA SeedInsertKeepsSerial ==
    ASSUME IndInv, SerialInv, NEW r \in Requests, SeedInsert(r)
    PROVE  SerialInv'
<1>1. req[r] \in Request /\ req \in [Requests -> Request] /\ OwnAccountOK(r) /\ RequestOK(r)
      /\ seats \in Seats
  BY DEF IndInv, TypeOK, SerialInv
<1>2. PICK n \in req[r].todo :
         /\ seats' = IF CanInsert(seats, n) THEN [seats EXCEPT ![n] = NewSeat] ELSE seats
         /\ IF req[r].todo = {n}
              THEN Seeded(r)
              ELSE req' = [req EXCEPT ![r].todo = @ \ {n}]
  BY DEF SeedInsert
<1>3. UNCHANGED <<users, held, org>> /\ req[r].pc = "seed.insert"
  BY DEF SeedInsert
<1>4. \A u \in Users : HeldBy(seats, u) \subseteq HeldBy(seats', u)
  BY <1>1, <1>2 DEF HeldBy, CanInsert, Existing, Seats
<1>5. /\ \A p \in Requests \ {r} : req'[p] = req[p]
      /\ req'[r].user \in {req[r].user, None}
      /\ (req'[r].op = req[r].op /\ req'[r].user = req[r].user) \/ req'[r] = Idle
      /\ req'[r].pc \in {"idle", "txn.begin", "alloc.org", "seed.insert"}
  <2>1. CASE req[r].todo = {n}
    <3>1. Idle.user = None /\ Idle.pc = "idle"
      BY DEF Idle
    <3> QED
      BY <1>2, <1>3, <2>1, <3>1, SeededMoves
  <2>2. CASE req[r].todo # {n}
    <3> DEFINE q == [req[r] EXCEPT !.todo = req[r].todo \ {n}]
    <3>1. req' = [req EXCEPT ![r] = q]
      BY <1>1, <1>2, <2>2
    <3>2. q.pc = "seed.insert" /\ q.op = req[r].op /\ q.user = req[r].user
      BY <1>1, <1>3 DEF Request
    <3> HIDE DEF q
    <3> QED
      BY <1>1, <3>1, <3>2
  <2> QED
    BY <2>1, <2>2
<1>6. OwnAccountOK(r)'
  BY <1>1, <1>3, <1>5 DEF OwnAccountOK, Idle
<1>7. OthersStay(r)
  BY <1>3, <1>4, <1>5 DEF OthersStay
<1>8. \A u \in Users : users'[u] = "live" => HeldBy(seats', u) # {}
  BY <1>3, <1>4 DEF SerialInv, LiveUserKeepsSeat
<1> QED
  BY <1>6, <1>7, <1>8, StepKeepsSerial

\* A step of a create request knows nothing about its account but its name.
LEMMA CreateMoveKeepsSerial ==
    ASSUME IndInv, SerialInv, NEW r \in Requests, NEW q \in Request,
           req' = [req EXCEPT ![r] = q], UNCHANGED <<users, seats>>,
           q.user = req[r].user, q.op = "create", q.pc \in InTxnPC
    PROVE  SerialInv'
<1>1. req'[r] = q
  BY DEF IndInv, TypeOK
<1>2. OwnAccountOK(r)'
  BY <1>1 DEF OwnAccountOK, InTxnPC
<1> QED
  BY <1>2, OwnMoveKeepsSerial

LEMMA TxnBeginKeepsSerial ==
    ASSUME IndInv, SerialInv, NEW r \in Requests, TxnBegin(r)
    PROVE  SerialInv'
<1>1. req[r] \in Request /\ req \in [Requests -> Request] /\ req[r].op = "create"
  BY DEF IndInv, TypeOK, RequestOK, TxnBegin
<1>2. UNCHANGED <<users, held, org, seats>>
  BY DEF TxnBegin
<1>3. CASE Finish(r)
  BY <1>2, <1>3, FinishKeepsSerial
<1>4. CASE ~Finish(r)
  <2> DEFINE q == [req[r] EXCEPT !.pc = "txn.org", !.clean = Vacant(seats)]
  <2>1. req' = [req EXCEPT ![r] = q]
    BY <1>1, <1>4 DEF TxnBegin
  <2>2. q \in Request /\ q.user = req[r].user /\ q.op = "create" /\ q.pc \in InTxnPC
    BY <1>1 DEF Request, PC, InTxnPC, Vacant
  <2> HIDE DEF q
  <2> QED
    BY <1>2, <2>1, <2>2, CreateMoveKeepsSerial
<1> QED
  BY <1>3, <1>4

LEMMA TxnAllocKeepsSerial ==
    ASSUME IndInv, SerialInv, NEW r \in Requests, TxnAlloc(r)
    PROVE  SerialInv'
<1>1. req[r] \in Request /\ req \in [Requests -> Request] /\ req[r].op = "create"
  BY DEF IndInv, TypeOK, RequestOK, TxnAlloc, InTxnPC
<1>2. UNCHANGED <<users, held, org, seats>>
  BY DEF TxnAlloc
<1>3. CASE Finish(r)
  BY <1>2, <1>3, FinishKeepsSerial
<1>4. CASE ~Finish(r)
  <2>1. PICK n \in req[r].clean :
           req' = [req EXCEPT ![r].pc = "txn.commit", ![r].seat = n]
    BY <1>4 DEF TxnAlloc
  <2> DEFINE q == [req[r] EXCEPT !.pc = "txn.commit", !.seat = n]
  <2>2. n \in SeatNo
    BY <1>1 DEF Request
  <2>3. req' = [req EXCEPT ![r] = q]
    BY <1>1, <2>1
  <2>4. q \in Request /\ q.user = req[r].user /\ q.op = "create" /\ q.pc \in InTxnPC
    BY <1>1, <2>2 DEF Request, PC, InTxnPC
  <2> HIDE DEF q
  <2> QED
    BY <1>2, <2>3, <2>4, CreateMoveKeepsSerial
<1> QED
  BY <1>3, <1>4

\* The request goes on with its operation; nothing else moves.
LEMMA ReadKeepsSerial ==
    ASSUME IndInv, SerialInv, NEW r \in Requests, UNCHANGED <<users, seats>>,
           \A p \in Requests \ {r} : req'[p] = req[p],
           req'[r].user = req[r].user, OwnAccountOK(r)'
    PROVE  SerialInv'
<1>1. OthersStay(r)
  BY DEF OthersStay
<1> QED
  BY <1>1, StepKeepsSerial DEF SerialInv, LiveUserKeepsSeat

\* Only an active seat names a user, so the seat releaseSeatForUser finds is
\* the one its account holds.
LEMMA RelFindKeepsSerial ==
    ASSUME IndInv, SerialInv, NEW r \in Requests, RelFind(r)
    PROVE  SerialInv'
<1>1. OwnAccountOK(r) /\ RequestOK(r)
  BY DEF IndInv, SerialInv
<1>2. UNCHANGED <<users, held, org, seats>> /\ req[r].pc = "rel.find"
  BY DEF RelFind
<1>3. CASE Finish(r)
  BY <1>2, <1>3, FinishKeepsSerial
<1>4. ASSUME NEW n \in Existing(seats), seats[n].user = req[r].user, HasRead(r, n, "rel.save")
      PROVE  SerialInv'
  <2>1. req[r].op \in {"archive", "unarchive"} /\ req[r].user # None
    BY <1>1, <1>2, SeatStoreAssumption DEF RequestOK
  <2>2. n \in HeldBy(seats, req[r].user)
    BY <1>4, <2>1 DEF IndInv, SeatShape, HeldBy, Existing
  <2>3. /\ \A p \in Requests \ {r} : req'[p] = req[p]
        /\ req'[r].pc = "rel.save" /\ req'[r].op = req[r].op
        /\ req'[r].user = req[r].user /\ req'[r].seat = n
    BY <1>2, <1>4, <2>1, HasReadKeeps
  <2>4. OwnAccountOK(r)'
    BY <1>1, <1>2, <2>2, <2>3 DEF OwnAccountOK
  <2> QED
    BY <1>2, <2>3, <2>4, ReadKeepsSerial
<1> QED
  BY <1>3, <1>4 DEF RelFind

LEMMA LinkFindKeepsSerial ==
    ASSUME IndInv, SerialInv, NEW r \in Requests, LinkFind(r)
    PROVE  SerialInv'
<1>1. /\ req[r] \in Request /\ req \in [Requests -> Request] /\ req[r].op = "link"
      /\ UNCHANGED <<users, held, org, seats>>
  BY DEF IndInv, TypeOK, RequestOK, LinkFind
<1>2. CASE Finish(r)
  BY <1>1, <1>2, FinishKeepsSerial
<1>3. CASE Goto(r, "alloc.org")
  <2>1. /\ \A p \in Requests \ {r} : req'[p] = req[p]
        /\ req'[r].pc = "alloc.org" /\ req'[r].op = "link" /\ req'[r].user = req[r].user
    BY <1>1, <1>3 DEF Goto, Request
  <2>2. OwnAccountOK(r)'
    BY <2>1 DEF OwnAccountOK
  <2> QED
    BY <1>1, <2>1, <2>2, ReadKeepsSerial
<1>4. ASSUME NEW n \in HeldBy(seats, req[r].user),
             req' = [req EXCEPT ![r].pc = "link.org", ![r].seat = n]
      PROVE  SerialInv'
  <2>1. /\ \A p \in Requests \ {r} : req'[p] = req[p]
        /\ req'[r].pc = "link.org" /\ req'[r].op = "link" /\ req'[r].user = req[r].user
        /\ req'[r].seat = n
    BY <1>1, <1>4 DEF Request
  <2>2. OwnAccountOK(r)'
    BY <1>1, <2>1 DEF OwnAccountOK
  <2> QED
    BY <1>1, <2>1, <2>2, ReadKeepsSerial
<1> QED
  BY <1>2, <1>3, <1>4 DEF LinkFind

LEMMA LinkReadKeepsSerial ==
    ASSUME IndInv, SerialInv, NEW r \in Requests, LinkRead(r)
    PROVE  SerialInv'
<1> DEFINE n == req[r].seat
<1>1. /\ req[r].op = "link" /\ n \in Existing(seats) /\ n \in HeldBy(seats, req[r].user)
      /\ req[r].user \in Users /\ UNCHANGED <<users, held, org, seats>>
  BY DEF IndInv, RequestOK, SerialInv, OwnAccountOK, LinkRead
<1>2. CASE Finish(r)
  BY <1>1, <1>2, FinishKeepsSerial
<1>3. CASE ~Finish(r)
  <2>1. HasRead(r, n, "link.save")
    BY <1>3 DEF LinkRead
  <2> HIDE DEF n
  <2>2. seats[n].user \in Users
    BY <1>1 DEF HeldBy
  <2>3. /\ \A p \in Requests \ {r} : req'[p] = req[p]
        /\ req'[r].pc = "link.save" /\ req'[r].op = "link"
        /\ req'[r].user = req[r].user /\ req'[r].seat = n
    BY <1>1, <2>1, <2>2, HasReadKeeps
  <2>4. OwnAccountOK(r)'
    BY <1>1, <2>3 DEF OwnAccountOK
  <2> QED
    BY <1>1, <2>3, <2>4, ReadKeepsSerial
<1> QED
  BY <1>2, <1>3

LEMMA ClearReadKeepsSerial ==
    ASSUME IndInv, SerialInv, NEW r \in Requests, ClearRead(r)
    PROVE  SerialInv'
<1>1. /\ req[r].op = "clear" /\ req[r].seat \in Existing(seats)
      /\ HasRead(r, req[r].seat, "clear.save") /\ UNCHANGED <<users, held, org, seats>>
  BY DEF IndInv, RequestOK, ClearRead
<1>2. /\ \A p \in Requests \ {r} : req'[p] = req[p]
      /\ req'[r].pc = "clear.save" /\ req'[r].op = "clear" /\ req'[r].user = req[r].user
  BY <1>1, HasReadKeeps
<1>3. OwnAccountOK(r)'
  BY <1>2 DEF OwnAccountOK
<1> QED
  BY <1>1, <1>2, <1>3, ReadKeepsSerial

LEMMA UnarchSaveRejectedKeepsSerial ==
    ASSUME IndInv, SerialInv, NEW r \in Requests, UnarchSaveRejected(r)
    PROVE  SerialInv'
<1>1. req[r] \in Request /\ req \in [Requests -> Request] /\ OwnAccountOK(r) /\ RequestOK(r)
  BY DEF IndInv, TypeOK, SerialInv
<1> DEFINE q == [req[r] EXCEPT !.pc = "rel.org"]
<1>2. req' = [req EXCEPT ![r] = q] /\ UNCHANGED <<users, seats>>
  BY <1>1 DEF UnarchSaveRejected, Goto
<1>3. q \in Request /\ q.pc = "rel.org" /\ q.user = req[r].user /\ q.op = "unarchive"
  BY <1>1 DEF UnarchSaveRejected, RequestOK, Request, PC
<1>4. users[q.user] = "archived"
  BY <1>1, <1>3 DEF UnarchSaveRejected, OwnAccountOK, RequestOK
<1> HIDE DEF q
<1>5. OwnAccountOK(r)'
  BY <1>1, <1>2, <1>3, <1>4 DEF OwnAccountOK
<1> QED
  BY <1>2, <1>3, <1>5, OwnMoveKeepsSerial

-----------------------------------------------------------------------------
(* Steps that write an account or its seat *)

LEMMA GrantHolds ==
    ASSUME IndInv, NEW n \in Vacant(seats), NEW u \in Users, 
           seats' = [seats EXCEPT ![n] = Allocated(@, u, None)]
    PROVE  /\ n \in HeldBy(seats', u)
           /\ \A v \in Users : HeldBy(seats, v) \subseteq HeldBy(seats', v)
<1>1. n \in SeatNo /\ seats[n] \in Seat /\ seats \in Seats
  BY ExistingIsSeat DEF Vacant, Existing, IndInv, TypeOK
<1>2. seats'[n].status = "active" /\ seats'[n].user = u
  BY <1>1 DEF Allocated, Seat, Seats
<1> QED
  BY <1>1, <1>2 DEF HeldBy, Vacant, Seats

\* After a write of a seat, every other request is where it was.
LEMMA WroteStays ==
    ASSUME IndInv, NEW r \in Requests, NEW n \in SeatNo, NEW record, NEW moves \in BOOLEAN,
           Wrote(n, r, record, moves)
    PROVE  /\ req'[r] = record
           /\ \A p \in Requests \ {r} :
                 /\ req'[p].pc = req[p].pc /\ req'[p].op = req[p].op
                 /\ req'[p].user = req[p].user /\ req'[p].seat = req[p].seat
                 /\ req'[p].seen = req[p].seen /\ req'[p].project = req[p].project
<1>1. req'[r] = record
  BY DEF Wrote
<1>2. ASSUME NEW p \in Requests \ {r}
      PROVE  /\ req'[p].pc = req[p].pc /\ req'[p].op = req[p].op
             /\ req'[p].user = req[p].user /\ req'[p].seat = req[p].seat
             /\ req'[p].seen = req[p].seen /\ req'[p].project = req[p].project
  <2> DEFINE fresh == req[p].fresh /\ ~(moves /\ req[p].seat = n)
  <2>1. req[p] \in Request
    BY DEF IndInv, TypeOK
  <2>2. req'[p] = [req[p] EXCEPT !.clean = req[p].clean \ {n}, !.fresh = fresh]
    BY DEF Wrote
  <2> HIDE DEF fresh
  <2> QED
    BY <2>1, <2>2 DEF Request
<1> QED
  BY <1>1, <1>2

LEMMA TxnCommitKeepsSerial ==
    ASSUME IndInv, SerialInv, NEW r \in Requests, TxnCommit(r)
    PROVE  SerialInv'
<1> DEFINE n == req[r].seat
           u == req[r].user
<1>1. RequestOK(r) /\ users \in [Users -> {"none", "live", "archived"}]
  BY DEF IndInv, TypeOK
<1>2. n \in Vacant(seats) /\ n \in SeatNo /\ u \in Users
  BY <1>1 DEF TxnCommit, RequestOK, InTxnPC, Vacant
<1>3. /\ seats' = [seats EXCEPT ![n] = Allocated(@, u, None)]
      /\ users' = [users EXCEPT ![u] = "live"]
      /\ Wrote(n, r, Idle, FALSE)
  BY DEF TxnCommit
<1> HIDE DEF n, u
<1>4. /\ n \in HeldBy(seats', u)
      /\ \A v \in Users : HeldBy(seats, v) \subseteq HeldBy(seats', v)
  BY <1>2, <1>3, GrantHolds
<1>5. req'[r] = Idle
  BY <1>2, <1>3, IdleType, WroteStays
<1>6. OwnAccountOK(r)'
  BY <1>5 DEF OwnAccountOK, Idle
<1>7. OthersStay(r)
  <2>1. Idle.user = None /\ Idle \in Request
    BY IdleType DEF Idle
  <2>2. \A v \in Users \ {u} : users'[v] = users[v]
    BY <1>1, <1>3
  <2>3. \A p \in Requests \ {r} : /\ req'[p].pc = req[p].pc /\ req'[p].op = req[p].op
                                  /\ req'[p].user = req[p].user /\ req'[p].seat = req[p].seat
    BY <1>2, <1>3, <2>1, WroteStays
  <2> QED
    BY <1>4, <1>5, <2>1, <2>2, <2>3 DEF OthersStay, u
<1> QED
  BY <1>4, <1>6, <1>7, StepKeepsSerial DEF u

LEMMA AllocKeepsSerial ==
    ASSUME IndInv, SerialInv, NEW r \in Requests, Alloc(r)
    PROVE  SerialInv'
<1> DEFINE u == req[r].user
           pc == IF req[r].op = "link" THEN "link.org" ELSE "unarch.save"
           record(n) == [req[r] EXCEPT !.pc = pc, !.seat = n]
<1>1. req[r] \in Request /\ RequestOK(r) /\ OwnAccountOK(r) /\ UNCHANGED <<users, held, org>>
  BY DEF IndInv, TypeOK, SerialInv, Alloc
<1>2. /\ u \in Users /\ req[r].op \in {"unarchive", "link"}
      /\ req[r].op = "unarchive" => users[u] = "archived"
  BY <1>1 DEF Alloc, RequestOK, OwnAccountOK
<1>3. CASE Finish(r) /\ seats' = seats
  BY <1>1, <1>3, FinishKeepsSerial
<1>4. CASE ~(Finish(r) /\ seats' = seats)
  <2>1. PICK n \in Vacant(seats) :
           /\ seats' = [seats EXCEPT ![n] = Allocated(@, u, None)]
           /\ Wrote(n, r, record(n), FALSE)
    BY <1>4 DEF Alloc
  <2>2. /\ record(n).pc = pc /\ record(n).user = u /\ record(n).seat = n
        /\ record(n).op = req[r].op /\ n \in SeatNo
    BY <1>1, <1>2 DEF Request, Vacant
  <2>3. pc \in {"link.org", "unarch.save"}
    OBVIOUS
  <2> HIDE DEF u, record, pc
  <2>4. /\ n \in HeldBy(seats', u)
        /\ \A v \in Users : HeldBy(seats, v) \subseteq HeldBy(seats', v)
    BY <1>2, <2>1, GrantHolds
  <2>5. req'[r] = record(n) /\ n \in SeatNo
    BY <2>1, <2>2, WroteStays
  <2>6. OwnAccountOK(r)'
    <3>1. /\ req'[r].pc \in {"link.org", "unarch.save"} /\ req'[r].user = u
          /\ req'[r].seat = n /\ req'[r].op = req[r].op
      BY <2>2, <2>3, <2>5
    <3> QED
      BY <1>1, <1>2, <2>4, <3>1 DEF OwnAccountOK
  <2>7. OthersStay(r)
    BY <1>1, <2>1, <2>2, <2>4, <2>5, WroteStays DEF OthersStay, u
  <2> QED
    BY <2>4, <2>6, <2>7, StepKeepsSerial DEF u
<1> QED
  BY <1>3, <1>4

\* The seat given back is the request's own: the account is archived, and no
\* other account loses what it holds.
LEMMA RelSaveKeepsSerial ==
    ASSUME IndInv, SerialInv, NEW r \in Requests, RelSave(r)
    PROVE  SerialInv'
<1> DEFINE n == req[r].seat
           u == req[r].user
<1>1. /\ RequestOK(r) /\ OwnAccountOK(r) /\ UNCHANGED <<users, held, org>>
      /\ seats \in Seats /\ req[r].pc = "rel.save"
  BY DEF IndInv, TypeOK, SerialInv, RelSave
<1>2. u \in Users /\ users[u] = "archived" /\ n \in HeldBy(seats, u) /\ n \in SeatNo
  BY <1>1 DEF RequestOK, OwnAccountOK, HeldBy
<1>3. CASE Finish(r) /\ seats' = seats
  BY <1>1, <1>3, FinishKeepsSerial
<1>4. CASE ~(Finish(r) /\ seats' = seats)
  <2>1. /\ seats' = [seats EXCEPT ![n] = Released(@, req[r].seen)]
        /\ Wrote(n, r, Idle, FALSE)
    BY <1>4 DEF RelSave
  <2> HIDE DEF n, u
  <2>2. \A v \in Users : v # u => HeldBy(seats, v) \subseteq HeldBy(seats', v)
    BY <1>1, <1>2, <2>1 DEF HeldBy, Seats
  <2>3. req'[r] = Idle /\ Idle.user = None
    BY <1>2, <2>1, WroteStays DEF Idle
  <2>4. OwnAccountOK(r)'
    BY <2>3 DEF OwnAccountOK, Idle
  <2>5. OthersStay(r)
    BY <1>1, <1>2, <2>1, <2>2, <2>3, WroteStays DEF OthersStay, u
  <2> QED
    BY <1>1, <1>2, <2>4, <2>5, StepKeepsSerial DEF u
<1> QED
  BY <1>3, <1>4

\* A write of staffing leaves every seat with its holder.
LEMMA HoldersStay ==
    ASSUME IndInv, NEW n \in Existing(seats), NEW s \in Seat,
           s.status = seats[n].status, s.user = seats[n].user,
           seats' = [seats EXCEPT ![n] = s]
    PROVE  /\ \A m \in SeatNo : seats'[m].status = seats[m].status /\ seats'[m].user = seats[m].user
           /\ \A v \in Users : HeldBy(seats', v) = HeldBy(seats, v)
<1>1. n \in SeatNo /\ seats \in Seats
  BY ExistingIsSeat DEF IndInv, TypeOK
<1> QED
  BY <1>1 DEF HeldBy, Seats

LEMMA StaffingWriteKeepsSerial ==
    ASSUME IndInv, SerialInv, NEW r \in Requests, NEW n \in Existing(seats), NEW s \in Seat,
           s.status = seats[n].status, s.user = seats[n].user, NEW moves \in BOOLEAN,
           seats' = [seats EXCEPT ![n] = s], Wrote(n, r, Idle, moves),
           UNCHANGED <<users, held, org>>
    PROVE  SerialInv'
<1>1. \A v \in Users : HeldBy(seats', v) = HeldBy(seats, v)
  BY HoldersStay
<1>2. n \in SeatNo /\ Idle.user = None
  BY ExistingIsSeat DEF Idle
<1>3. req'[r] = Idle
  BY <1>2, WroteStays
<1>4. OwnAccountOK(r)'
  BY <1>3 DEF OwnAccountOK, Idle
<1>5. OthersStay(r)
  <2>1. \A p \in Requests \ {r} :
           /\ req'[p].pc = req[p].pc /\ req'[p].op = req[p].op
           /\ req'[p].user = req[p].user /\ req'[p].seat = req[p].seat
    BY <1>2, WroteStays
  <2> QED
    BY <1>1, <1>2, <1>3, <2>1 DEF OthersStay
<1>6. \A v \in Users : users'[v] = "live" => HeldBy(seats', v) # {}
  BY <1>1 DEF SerialInv, LiveUserKeepsSeat
<1> QED
  BY <1>4, <1>5, <1>6, StepKeepsSerial

LEMMA LinkSaveKeepsSerial ==
    ASSUME IndInv, SerialInv, NEW r \in Requests, LinkSave(r)
    PROVE  SerialInv'
<1>1. UNCHANGED <<users, held, org>>
  BY DEF LinkSave
<1>2. CASE Finish(r) /\ seats' = seats
  BY <1>1, <1>2, FinishKeepsSerial
<1>3. CASE ~(Finish(r) /\ seats' = seats)
  BY <1>1, <1>3, LinkSaves, StaffingWriteKeepsSerial
<1> QED
  BY <1>2, <1>3

LEMMA ClearSaveKeepsSerial ==
    ASSUME IndInv, SerialInv, NEW r \in Requests, ClearSave(r)
    PROVE  SerialInv'
<1>1. UNCHANGED <<users, held, org>>
  BY DEF ClearSave
<1>2. CASE Finish(r) /\ seats' = seats
  BY <1>1, <1>2, FinishKeepsSerial
<1>3. CASE ~(Finish(r) /\ seats' = seats)
  BY <1>1, <1>3, ClearSaves, StaffingWriteKeepsSerial
<1> QED
  BY <1>2, <1>3

LEMMA ArchSaveKeepsSerial ==
    ASSUME IndInv, SerialInv, NEW r \in Requests, ArchSave(r)
    PROVE  SerialInv'
<1> DEFINE u == req[r].user
           q == [req[r] EXCEPT !.pc = "rel.org"]
<1>1. /\ req[r] \in Request /\ req \in [Requests -> Request] /\ RequestOK(r)
      /\ users \in [Users -> {"none", "live", "archived"}] /\ req[r].pc = "arch.save"
  BY DEF IndInv, TypeOK, ArchSave
<1>2. u \in Users /\ req[r].op = "archive"
  BY <1>1 DEF RequestOK
<1>3. users' = [users EXCEPT ![u] = "archived"] /\ UNCHANGED seats /\ req' = [req EXCEPT ![r] = q]
  BY <1>1 DEF ArchSave, Goto
<1>4. q.pc = "rel.org" /\ q.op = "archive" /\ q.user = u
  BY <1>1, <1>2 DEF Request
<1> HIDE DEF q, u
<1>5. req'[r] = q /\ \A p \in Requests \ {r} : req'[p] = req[p]
  BY <1>1, <1>3
<1>6. users'[u] = "archived" /\ \A v \in Users : v # u => users'[v] = users[v]
  BY <1>1, <1>2, <1>3
<1>7. OwnAccountOK(r)'
  BY <1>4, <1>5, <1>6 DEF OwnAccountOK
<1>8. OthersStay(r)
  BY <1>3, <1>4, <1>5, <1>6 DEF OthersStay, u
<1> QED
  BY <1>6, <1>7, <1>8, StepKeepsSerial DEF u

LEMMA UnarchSaveKeepsSerial ==
    ASSUME IndInv, SerialInv, NEW r \in Requests, UnarchSave(r)
    PROVE  SerialInv'
<1> DEFINE u == req[r].user
<1>1. /\ req \in [Requests -> Request] /\ RequestOK(r) /\ OwnAccountOK(r)
      /\ users \in [Users -> {"none", "live", "archived"}] /\ req[r].pc = "unarch.save"
  BY DEF IndInv, TypeOK, SerialInv, UnarchSave
<1>2. u \in Users /\ HeldBy(seats, u) # {}
  BY <1>1 DEF RequestOK, OwnAccountOK
<1>3. users' = [users EXCEPT ![u] = "live"] /\ UNCHANGED seats /\ req' = [req EXCEPT ![r] = Idle]
  BY DEF UnarchSave, Finish
<1> HIDE DEF u
<1>4. req'[r] = Idle /\ Idle.user = None /\ \A p \in Requests \ {r} : req'[p] = req[p]
  BY <1>1, <1>3 DEF Idle
<1>5. OwnAccountOK(r)'
  BY <1>4 DEF OwnAccountOK, Idle
<1>6. OthersStay(r)
  BY <1>1, <1>3, <1>4 DEF OthersStay, u
<1> QED
  BY <1>2, <1>3, <1>5, <1>6, StepKeepsSerial DEF u

LEMMA EnvironmentKeepsSerial ==
    ASSUME Serial, SerialInv, Environment
    PROVE  SerialInv'
<1>1. UNCHANGED <<users, seats, req>>
  BY DEF Environment, OrgSetLegalHold, OrgArchive, OrgUnarchive, UserSetLegalHold,
         BatchArchive, Serial
<1> QED
  BY <1>1 DEF SerialInv, OwnAccountOK, OneRequestPerAccount, LiveUserKeepsSeat

-----------------------------------------------------------------------------
(* A live account keeps its seat *)

LEMMA InitSerial == Init => SerialInv
BY DEF Init, SerialInv, OwnAccountOK, OneRequestPerAccount, LiveUserKeepsSeat, Idle

LEMMA NextSerial ==
    ASSUME Serial
    PROVE  IndInv /\ SerialInv /\ [Next]_vars => SerialInv'
<1> SUFFICES ASSUME IndInv, SerialInv, [Next]_vars PROVE SerialInv'
  OBVIOUS
<1>1. ASSUME NEW r \in Requests, Step(r) PROVE SerialInv'
  BY <1>1, CheckOrgKeepsSerial, SeedFindKeepsSerial, SeedInsertKeepsSerial,
     TxnBeginKeepsSerial, TxnAllocKeepsSerial, TxnCommitKeepsSerial, ArchSaveKeepsSerial,
     RelFindKeepsSerial, RelSaveKeepsSerial, AllocKeepsSerial, UnarchSaveKeepsSerial,
     UnarchSaveRejectedKeepsSerial, LinkFindKeepsSerial, LinkReadKeepsSerial,
     LinkSaveKeepsSerial, ClearReadKeepsSerial, ClearSaveKeepsSerial DEF Step
<1>2. ASSUME NEW r \in Requests, Fail(r) PROVE SerialInv'
  BY <1>2, FinishKeepsSerial DEF Fail
<1>3. CASE UNCHANGED vars
  BY <1>3 DEF vars, SerialInv, OwnAccountOK, OneRequestPerAccount, LiveUserKeepsSeat
<1> QED
  BY <1>1, <1>2, <1>3, BeginKeepsSerial, EnvironmentKeepsSerial, SMTT(30) DEF Next

\* A live account holds a seat at every moment, whatever fails in the middle
\* of its own or another's request (users.service.ts, archiveUser and
\* unarchiveUser).
THEOREM LiveUsersSeated ==
    ASSUME Serial
    PROVE  Spec => []LiveUserKeepsSeat
<1>1. Init => IndInv /\ SerialInv
  BY InitInv, InitSerial
<1>2. IndInv /\ SerialInv /\ [Next]_vars => (IndInv /\ SerialInv)'
  BY NextInv, NextSerial
<1>3. SerialInv => LiveUserKeepsSeat
  BY DEF SerialInv
<1> QED
  BY <1>1, <1>2, <1>3, PTL DEF Spec

-----------------------------------------------------------------------------
(* The requests implement SeatLicences *)

LEMMA HeldIsHolds ==
    ASSUME NEW u \in Users
    PROVE  Licences!Holds(u) <=> HeldBy(seats, u) # {}
BY SeatStoreAssumption DEF Licences!Holds, holderOf, HeldBy

LEMMA InitRefines == Init => Licences!Init
BY DEF Init, Licences!Init, holderOf, liveUsers, Absent

\* Steps that leave every account and every granted seat alone.
LEMMA QuietSteps ==
    ASSUME users' = users,
           \A n \in SeatNo : holderOf'[n] = holderOf[n]
    PROVE  UNCHANGED Licences!vars
BY DEF Licences!vars, holderOf, liveUsers

LEMMA SeedInsertRefines ==
    ASSUME IndInv, NEW r \in Requests, SeedInsert(r)
    PROVE  UNCHANGED Licences!vars
<1>1. seats \in Seats /\ users' = users
  BY DEF IndInv, TypeOK, SeedInsert
<1>2. PICK n \in req[r].todo :
         seats' = IF CanInsert(seats, n) THEN [seats EXCEPT ![n] = NewSeat] ELSE seats
  BY DEF SeedInsert
<1>3. \A m \in SeatNo : holderOf'[m] = holderOf[m]
  BY <1>1, <1>2 DEF holderOf, CanInsert, Existing, NewSeat, Absent, Seats
<1> QED
  BY <1>1, <1>3, QuietSteps

\* What a write of a granted seat does to the licences.
LEMMA GrantRefines ==
    ASSUME IndInv, NEW n \in Vacant(seats), NEW u \in Users, HeldBy(seats, u) = {},
           seats' = [seats EXCEPT ![n] = Allocated(@, u, None)]
    PROVE  n \in SeatNo /\ Licences!Grant(n, u)
<1>1. n \in SeatNo /\ seats[n] \in Seat /\ seats \in Seats
  BY ExistingIsSeat DEF Vacant, Existing, IndInv, TypeOK
<1>2. seats'[n].status = "active" /\ seats'[n].user = u
  BY <1>1 DEF Allocated, Seat, Seats
<1>3. holderOf[n] = None
  BY <1>1 DEF holderOf, Vacant
<1>4. ~Licences!Holds(u)
  BY HeldIsHolds
<1>5. holderOf' = [holderOf EXCEPT ![n] = u]
  BY <1>1, <1>2 DEF holderOf, Seats
<1> QED
  BY <1>1, <1>3, <1>4, <1>5 DEF Licences!Grant

LEMMA TxnCommitRefines ==
    ASSUME IndInv, NEW r \in Requests, TxnCommit(r)
    PROVE  Licences!Next
<1> DEFINE n == req[r].seat
           u == req[r].user
<1>1. RequestOK(r) /\ users \in [Users -> {"none", "live", "archived"}]
  BY DEF IndInv, TypeOK
<1>2. n \in Vacant(seats) /\ u \in Users /\ users[u] = "none"
  BY <1>1 DEF TxnCommit, RequestOK, InTxn, InTxnPC
<1>3. /\ seats' = [seats EXCEPT ![n] = Allocated(@, u, None)]
      /\ users' = [users EXCEPT ![u] = "live"]
  BY DEF TxnCommit
<1> HIDE DEF n, u
<1>4. HeldBy(seats, u) = {}
  BY <1>2 DEF HeldBy, IndInv, SeatShape
<1>5. n \in SeatNo /\ Licences!Grant(n, u)
  BY <1>2, <1>3, <1>4, GrantRefines
<1>6. liveUsers' = liveUsers \cup {u}
  BY <1>1, <1>2, <1>3 DEF liveUsers
<1> QED
  BY <1>2, <1>5, <1>6 DEF Licences!Register, Licences!Next

LEMMA AllocRefines ==
    ASSUME IndInv, NEW r \in Requests, Alloc(r)
    PROVE  Licences!Next \/ UNCHANGED Licences!vars
<1> DEFINE u == req[r].user
<1>1. RequestOK(r) /\ UNCHANGED users
  BY DEF IndInv, Alloc
<1>2. u \in Users
  BY <1>1 DEF Alloc, RequestOK
<1>3. CASE seats' = seats
  BY <1>1, <1>3, QuietSteps DEF holderOf
<1>4. CASE seats' # seats
  <2>1. PICK n \in Vacant(seats) :
           /\ KeyFree(seats, n, u)
           /\ seats' = [seats EXCEPT ![n] = Allocated(@, u, None)]
    BY <1>4 DEF Alloc
  <2> HIDE DEF u
  <2>2. HeldBy(seats, u) = {}
    BY <1>2, <2>1 DEF HeldBy, KeyFree, Existing, Vacant
  <2>3. n \in SeatNo /\ Licences!Grant(n, u)
    BY <1>2, <2>1, <2>2, GrantRefines
  <2>4. liveUsers' = liveUsers
    BY <1>1 DEF liveUsers
  <2> QED
    BY <1>2, <2>3, <2>4 DEF Licences!Reserve, Licences!Next
<1> QED
  BY <1>3, <1>4

LEMMA RelSaveRefines ==
    ASSUME IndInv, SerialInv, NEW r \in Requests, RelSave(r)
    PROVE  Licences!Next \/ UNCHANGED Licences!vars
<1> DEFINE n == req[r].seat
           u == req[r].user
<1>1. /\ RequestOK(r) /\ OwnAccountOK(r) /\ UNCHANGED <<users, held, org>>
      /\ seats \in Seats /\ req[r].pc = "rel.save"
  BY DEF IndInv, TypeOK, SerialInv, RelSave
<1>2. u \in Users /\ users[u] = "archived" /\ n \in HeldBy(seats, u) /\ n \in SeatNo
  BY <1>1 DEF RequestOK, OwnAccountOK, HeldBy
<1>3. CASE seats' = seats
  BY <1>1, <1>3, QuietSteps DEF holderOf
<1>4. CASE seats' # seats
  <2>1. seats' = [seats EXCEPT ![n] = Released(@, req[r].seen)]
    BY <1>4 DEF RelSave
  <2> HIDE DEF n, u
  <2>2. holderOf[n] = u /\ u \notin liveUsers
    BY <1>2 DEF holderOf, HeldBy, liveUsers
  <2>3. seats'[n].status = "vacant"
    <3>1. n \in Existing(seats)
      BY <1>2 DEF HeldBy, Existing
    <3>2. seats[n] \in Seat
      BY <3>1, ExistingIsSeat
    <3>3. seats'[n] = Released(seats[n], req[r].seen)
      BY <1>1, <1>2, <2>1 DEF Seats
    <3> QED
      BY <3>2, <3>3, ReleasedType
  <2>4. holderOf' = [holderOf EXCEPT ![n] = None]
    BY <1>1, <1>2, <2>1, <2>3 DEF holderOf, Seats
  <2>5. liveUsers' = liveUsers
    BY <1>1 DEF liveUsers
  <2> QED
    BY <1>2, <2>2, <2>4, <2>5 DEF Licences!Revoke, Licences!Next
<1> QED
  BY <1>3, <1>4

LEMMA StaffingRefines ==
    ASSUME IndInv, NEW r \in Requests, LinkSave(r) \/ ClearSave(r)
    PROVE  UNCHANGED Licences!vars
<1>1. UNCHANGED users
  BY DEF LinkSave, ClearSave
<1>2. CASE seats' = seats
  BY <1>1, <1>2, QuietSteps DEF holderOf
<1>3. CASE seats' # seats
  <2>1. \A m \in SeatNo : seats'[m].status = seats[m].status /\ seats'[m].user = seats[m].user
    <3>1. PICK n \in Existing(seats), t \in Seat :
             /\ t.status = seats[n].status /\ t.user = seats[n].user
             /\ seats' = [seats EXCEPT ![n] = t]
      BY <1>3, LinkSaves, ClearSaves
    <3> QED
      BY <3>1, HoldersStay
  <2>2. \A m \in SeatNo : holderOf'[m] = holderOf[m]
    BY <2>1 DEF holderOf
  <2> QED
    BY <1>1, <2>2, QuietSteps
<1> QED
  BY <1>2, <1>3

LEMMA ArchSaveRefines ==
    ASSUME IndInv, NEW r \in Requests, ArchSave(r)
    PROVE  Licences!Next
<1> DEFINE u == req[r].user
<1>1. RequestOK(r) /\ users \in [Users -> {"none", "live", "archived"}]
  BY DEF IndInv, TypeOK
<1>2. u \in Users /\ users' = [users EXCEPT ![u] = "archived"] /\ seats' = seats
  BY <1>1 DEF ArchSave, RequestOK
<1> HIDE DEF u
<1>3. liveUsers' = liveUsers \ {u} /\ holderOf' = holderOf
  BY <1>1, <1>2 DEF liveUsers, holderOf
<1> QED
  BY <1>2, <1>3 DEF Licences!Deactivate, Licences!Next

LEMMA UnarchSaveRefines ==
    ASSUME IndInv, SerialInv, NEW r \in Requests, UnarchSave(r)
    PROVE  Licences!Next
<1> DEFINE u == req[r].user
<1>1. RequestOK(r) /\ OwnAccountOK(r) /\ users \in [Users -> {"none", "live", "archived"}]
  BY DEF IndInv, TypeOK, SerialInv
<1>2. /\ u \in Users /\ HeldBy(seats, u) # {}
      /\ users' = [users EXCEPT ![u] = "live"] /\ seats' = seats
  BY <1>1 DEF UnarchSave, RequestOK, OwnAccountOK
<1> HIDE DEF u
<1>3. liveUsers' = liveUsers \cup {u} /\ holderOf' = holderOf /\ Licences!Holds(u)
  BY <1>1, <1>2, HeldIsHolds DEF liveUsers, holderOf
<1> QED
  BY <1>2, <1>3 DEF Licences!Activate, Licences!Next

LEMMA NextRefines ==
    ASSUME Serial
    PROVE  IndInv /\ SerialInv /\ [Next]_vars => [Licences!Next]_(Licences!vars)
<1> SUFFICES ASSUME IndInv, SerialInv, [Next]_vars
             PROVE  Licences!Next \/ UNCHANGED Licences!vars
  OBVIOUS
<1>1. ASSUME users' = users, seats' = seats PROVE UNCHANGED Licences!vars
  BY <1>1, QuietSteps DEF holderOf
<1>2. ASSUME NEW r \in Requests, Step(r)
      PROVE  Licences!Next \/ UNCHANGED Licences!vars
  <2>1. CASE \/ CheckOrg(r) \/ SeedFind(r) \/ TxnBegin(r) \/ TxnAlloc(r) \/ RelFind(r)
             \/ UnarchSaveRejected(r) \/ LinkFind(r) \/ LinkRead(r) \/ ClearRead(r)
    BY <1>1, <2>1 DEF CheckOrg, SeedFind, TxnBegin, TxnAlloc, RelFind, UnarchSaveRejected,
                      LinkFind, LinkRead, ClearRead
  <2> QED
    BY <1>2, <2>1, SeedInsertRefines, TxnCommitRefines, AllocRefines, RelSaveRefines,
       ArchSaveRefines, UnarchSaveRefines, StaffingRefines DEF Step
<1>3. ASSUME NEW r \in Requests, Arrive(r) \/ Fail(r) PROVE UNCHANGED Licences!vars
  BY <1>1, <1>3 DEF Arrive, Fail, BeginSeed, BeginCreate, BeginArchive, BeginUnarchive,
                    BeginLink, BeginClear, Begin
<1>4. ASSUME Environment PROVE UNCHANGED Licences!vars
  BY <1>1, <1>4 DEF Environment, OrgSetLegalHold, OrgArchive, OrgUnarchive,
                    UserSetLegalHold, BatchArchive, Serial
<1>5. CASE UNCHANGED vars
  BY <1>1, <1>5 DEF vars
<1> QED
  BY <1>2, <1>3, <1>4, <1>5 DEF Next

\* Wherever MongoDB or a failure cuts a request, a seat is taken only when
\* vacant, given back only by a closed account, and no account is opened
\* without one.
THEOREM RequestsImplementLicences ==
    ASSUME Serial
    PROVE  Spec => ImplementsLicences
<1>1. Init => IndInv /\ SerialInv
  BY InitInv, InitSerial
<1>2. IndInv /\ SerialInv /\ [Next]_vars => (IndInv /\ SerialInv)'
  BY NextInv, NextSerial
<1>3. IndInv /\ SerialInv /\ [Next]_vars => [Licences!Next]_(Licences!vars)
  BY NextRefines
<1> QED
  BY <1>1, <1>2, <1>3, InitRefines, PTL DEF Spec, ImplementsLicences, Licences!Spec

-----------------------------------------------------------------------------
(* Histories                                                                  *)

\* What a step may do to the seats: seed one, grant a vacant one, or save one
\* as released, linked or cleared by request r.
Seeding == \E n \in SeatNo \ Existing(seats) : seats' = [seats EXCEPT ![n] = NewSeat]

Granting ==
    \E n \in Vacant(seats), u \in Users : seats' = [seats EXCEPT ![n] = Allocated(seats[n], u, None)]

Saving(r, pc, s) == req[r].pc = pc /\ seats' = [seats EXCEPT ![req[r].seat] = s]

Releasing(r) == Saving(r, "rel.save", Released(seats[req[r].seat], req[r].seen))
Linking(r)   == Saving(r, "link.save", Linked(seats[req[r].seat], req[r].seen, req[r].project))
Clearing(r)  == Saving(r, "clear.save", Cleared(seats[req[r].seat], req[r].seen, req[r].project))

LEMMA RequestWrites ==
    ASSUME IndInv, NEW r \in Requests, Arrive(r) \/ Step(r) \/ Fail(r)
    PROVE  seats' = seats \/ Seeding \/ Granting \/ Releasing(r) \/ Linking(r) \/ Clearing(r)
<1>1. ASSUME SeedInsert(r) PROVE seats' = seats \/ Seeding
  <2>1. req[r].todo \subseteq SeatNo
    BY DEF IndInv, TypeOK, Request
  <2> QED
    BY <1>1, <2>1 DEF SeedInsert, CanInsert, Seeding
<1>2. ASSUME TxnCommit(r) PROVE Granting
  <2>1. req[r].seat \in Vacant(seats) /\ req[r].user \in Users
    BY <1>2 DEF IndInv, RequestOK, TxnCommit, InTxnPC
  <2> QED
    BY <1>2, <2>1 DEF TxnCommit, Granting
<1>3. ASSUME Alloc(r) PROVE seats' = seats \/ Granting
  <2>1. req[r].user \in Users
    BY <1>3 DEF IndInv, RequestOK, Alloc
  <2> QED
    BY <1>3, <2>1 DEF Alloc, Granting
<1>4. ASSUME RelSave(r) \/ LinkSave(r) \/ ClearSave(r)
      PROVE  seats' = seats \/ Releasing(r) \/ Linking(r) \/ Clearing(r)
  BY <1>4 DEF RelSave, LinkSave, ClearSave, Releasing, Linking, Clearing, Saving
<1>5. ASSUME \/ CheckOrg(r) \/ SeedFind(r) \/ TxnBegin(r) \/ TxnAlloc(r) \/ ArchSave(r)
             \/ RelFind(r) \/ UnarchSave(r) \/ UnarchSaveRejected(r) \/ LinkFind(r)
             \/ LinkRead(r) \/ ClearRead(r) \/ Fail(r) \/ Arrive(r)
      PROVE  seats' = seats
  BY <1>5 DEF CheckOrg, SeedFind, TxnBegin, TxnAlloc, ArchSave, RelFind, UnarchSave,
              UnarchSaveRejected, LinkFind, LinkRead, ClearRead, Fail, Arrive, BeginSeed,
              BeginCreate, BeginArchive, BeginUnarchive, BeginLink, BeginClear, Begin
<1> QED
  BY <1>1, <1>2, <1>3, <1>4, <1>5 DEF Step

-----------------------------------------------------------------------------
(* What the writes do to a history *)

\* History h has become k: nothing dropped, turned into another's or granted
\* again.
Grows(h, k) ==
    /\ Len(h) <= Len(k)
    /\ \A i \in DOMAIN h :
          /\ h[i].user = k[i].user /\ h[i].project = k[i].project
          /\ h[i].project = None => (k[i].open => h[i].open)

\* The same entries, and the same grants open.
Same(h, k) ==
    /\ Len(h) = Len(k)
    /\ \A i \in DOMAIN h :
          /\ h[i].user = k[i].user /\ h[i].project = k[i].project
          /\ h[i].project = None => (k[i].open <=> h[i].open)

LEMMA SameIsEquivalence ==
    ASSUME NEW h \in Seq(Entry), NEW k \in Seq(Entry), NEW l \in Seq(Entry)
    PROVE  /\ Same(h, h)
           /\ Same(h, k) => Same(k, h)
           /\ Same(h, k) /\ Same(k, l) => Same(h, l)
<1>1. DOMAIN h = 1 .. Len(h) /\ DOMAIN k = 1 .. Len(k) /\ DOMAIN l = 1 .. Len(l)
  OBVIOUS
<1>2. Same(h, h) /\ (Same(h, k) => Same(k, h))
  BY <1>1 DEF Same
<1>3. Same(h, k) /\ Same(k, l) => Same(h, l)
  BY <1>1 DEF Same
<1> QED
  BY <1>2, <1>3

LEMMA GrowsIsOrder ==
    ASSUME NEW h \in Seq(Entry), NEW k \in Seq(Entry), NEW l \in Seq(Entry)
    PROVE  /\ Same(h, k) => Grows(h, k)
           /\ Grows(h, k) /\ Grows(k, l) => Grows(h, l)
<1>1. /\ DOMAIN h = 1 .. Len(h) /\ DOMAIN k = 1 .. Len(k)
      /\ Len(h) \in Nat /\ Len(k) \in Nat /\ Len(l) \in Nat
  OBVIOUS
<1>2. Same(h, k) => Grows(h, k)
  BY <1>1 DEF Same, Grows
<1>3. Grows(h, k) /\ Grows(k, l) => Grows(h, l)
  <2> SUFFICES ASSUME Grows(h, k), Grows(k, l) PROVE Grows(h, l)
    OBVIOUS
  <2>1. Len(h) <= Len(l)
    BY <1>1 DEF Grows
  <2>2. ASSUME NEW i \in DOMAIN h
        PROVE  /\ h[i].user = l[i].user /\ h[i].project = l[i].project
               /\ h[i].project = None => (l[i].open => h[i].open)
    <3>1. i \in DOMAIN k
      BY <1>1, <2>2 DEF Grows
    <3> QED
      BY <2>2, <3>1 DEF Grows
  <2> QED
    BY <2>1, <2>2 DEF Grows
<1> QED
  BY <1>2, <1>3

LEMMA AppendGrows ==
    ASSUME NEW h \in Seq(Entry), NEW e \in Entry
    PROVE  Append(h, e) \in Seq(Entry) /\ Grows(h, Append(h, e))
BY DEF Grows

\* Closing entries takes nothing back; closing links leaves the grants alone.
LEMMA CloseGrows ==
    ASSUME NEW h \in Seq(Entry), NEW I
    PROVE  /\ Closed(h, I) \in Seq(Entry)
           /\ Grows(h, Closed(h, I))
           /\ (\A i \in DOMAIN h : i \in I => h[i].project # None) => Same(h, Closed(h, I))
<1>1. \A i \in DOMAIN h :
        /\ Closed(h, I)[i].user = h[i].user /\ Closed(h, I)[i].project = h[i].project
        /\ Closed(h, I)[i].open => h[i].open
        /\ i \notin I => Closed(h, I)[i].open = h[i].open
  <2> TAKE i \in DOMAIN h
  <2>1. h[i] \in Entry
    OBVIOUS
  <2>2. Closed(h, I)[i] = IF i \in I THEN [h[i] EXCEPT !.open = FALSE] ELSE h[i]
    BY DEF Closed
  <2> QED
    BY <2>1, <2>2 DEF Entry
<1>2. Closed(h, I) \in Seq(Entry) /\ Len(Closed(h, I)) = Len(h) /\ Len(h) \in Nat
  BY ClosedType
<1>3. Grows(h, Closed(h, I))
  BY <1>1, <1>2 DEF Grows
<1>4. (\A i \in DOMAIN h : i \in I => h[i].project # None) => Same(h, Closed(h, I))
  BY <1>1, <1>2 DEF Same
<1> QED
  BY <1>2, <1>3, <1>4

LEMMA GrantGrows ==
    ASSUME NEW s \in Seat, NEW u \in Users
    PROVE  LET e == [user |-> u, project |-> None, open |-> TRUE]
               t == Allocated(s, u, None) IN
           /\ t.history = Append(s.history, e) /\ t.status = "active" /\ t.user = u
           /\ Grows(s.history, t.history)
<1> DEFINE e == [user |-> u, project |-> None, open |-> TRUE]
           t == Allocated(s, u, None)
<1>1. s.history \in Seq(Entry) /\ e \in Entry
  BY DEF Seat, Entry
<1>2. t.history = Append(s.history, e) /\ t.status = "active" /\ t.user = u
  BY DEF Allocated, Seat
<1> HIDE DEF e, t
<1>3. Grows(s.history, Append(s.history, e))
  BY <1>1, AppendGrows
<1> QED
  BY <1>2, <1>3 DEF e, t

\* A link adds its entry to the grants that are there, provided the history
\* has changed only in its links since it was read.
LEMMA LinkGrows ==
    ASSUME NEW s \in Seat, NEW seen \in Seat, seen.user \in Users, NEW p \in Projects,
           Same(seen.history, s.history)
    PROVE  \E k \in Seq(Entry) :
              /\ Same(s.history, k) /\ Grows(s.history, Linked(s, seen, p).history)
              /\ Linked(s, seen, p).history =
                    Append(k, [user |-> seen.user, project |-> p, open |-> TRUE])
<1> DEFINE e == [user |-> seen.user, project |-> p, open |-> TRUE]
           I == EndedBy(seen, p)
           k == IF I = {} THEN s.history ELSE Closed(seen.history, I)
<1>1. s.history \in Seq(Entry) /\ seen.history \in Seq(Entry) /\ e \in Entry
  BY DEF Seat, Entry
<1>2. \A i \in I : seen.history[i].project # None
  BY DEF EndedBy, LastOpenLink, Latest
<1>3. k \in Seq(Entry) /\ Same(s.history, k)
  <2>1. Same(s.history, s.history) /\ Same(s.history, seen.history)
    BY <1>1, SameIsEquivalence
  <2>2. Closed(seen.history, I) \in Seq(Entry) /\ Same(seen.history, Closed(seen.history, I))
    BY <1>1, <1>2, CloseGrows
  <2>3. Same(s.history, Closed(seen.history, I))
    BY <1>1, <2>1, <2>2, SameIsEquivalence
  <2> QED
    BY <1>1, <2>1, <2>2, <2>3
<1>4. Linked(s, seen, p).history = Append(k, e)
  BY LinkedType
<1> HIDE DEF e, k
<1>5. Grows(s.history, k) /\ Grows(k, Append(k, e)) /\ Append(k, e) \in Seq(Entry)
  BY <1>1, <1>3, AppendGrows, GrowsIsOrder
<1>6. Grows(s.history, Append(k, e))
  BY <1>1, <1>3, <1>5, GrowsIsOrder
<1> QED
  BY <1>3, <1>4, <1>6 DEF e

\* The end of a link leaves the grants alone, though the history may have
\* grown since it was read.
LEMMA ClearSame ==
    ASSUME NEW s \in Seat, NEW seen \in Seat, NEW p \in Projects, Grows(seen.history, s.history)
    PROVE  Same(s.history, Cleared(s, seen, p).history)
<1> DEFINE I == LastOpenFor(seen.history, p)
<1>1. s.history \in Seq(Entry) /\ seen.history \in Seq(Entry)
  BY DEF Seat
<1>2. \A i \in I : s.history[i].project # None
  BY SeatStoreAssumption DEF LastOpenFor, Latest, Grows
<1>3. Cleared(s, seen, p).history = Closed(s.history, I)
  BY ClearedType
<1> HIDE DEF I
<1> QED
  BY <1>1, <1>2, <1>3, CloseGrows

-----------------------------------------------------------------------------
(* Who holds a seat, as its history tells *)

Grants(h) == {i \in DOMAIN h : h[i].project = None}

Told(s) ==
    \A i \in Grants(s.history) :
      IF s.status = "active" /\ \A j \in Grants(s.history) : j <= i
        THEN s.history[i].open /\ s.history[i].user = s.user
        ELSE s.history[i].open => LinkFollows(s.history, i)

\* What a request that is about to save a seat knows of it.
SeenOK(r) ==
    /\ req[r].pc \in SavePC => Grows(req[r].seen.history, seats[req[r].seat].history)
    /\ req[r].pc \in {"rel.save", "link.save"} =>
          /\ Same(req[r].seen.history, seats[req[r].seat].history)
          /\ req[r].seen.user = req[r].user

HistoryInv ==
    /\ \A n \in Existing(seats) : Told(seats[n])
    /\ \A r \in Requests : SeenOK(r)

\* Told is about the grants, which links come and go between.
LEMMA SameTold ==
    ASSUME NEW s \in Seat, NEW t \in Seat, t.status = s.status, t.user = s.user,
           Same(s.history, t.history), Told(s)
    PROVE  Told(t)
<1>1. /\ s.history \in Seq(Entry) /\ t.history \in Seq(Entry)
      /\ DOMAIN s.history = DOMAIN t.history /\ Len(s.history) = Len(t.history)
      /\ DOMAIN s.history = 1 .. Len(s.history) /\ Len(s.history) \in Nat
  BY DEF Seat, Same
<1>2. Grants(t.history) = Grants(s.history)
  BY <1>1 DEF Grants, Same
<1>3. \A i \in DOMAIN s.history : LinkFollows(s.history, i) => LinkFollows(t.history, i)
  BY <1>1 DEF LinkFollows, Same
<1>4. \A i \in Grants(s.history) :
        /\ i \in DOMAIN s.history /\ t.history[i].user = s.history[i].user
        /\ t.history[i].open <=> s.history[i].open
  BY DEF Grants, Same
<1> QED
  BY <1>2, <1>3, <1>4 DEF Told

LEMMA PushLinkTold ==
    ASSUME NEW s \in Seat, NEW t \in Seat, t.status = s.status, t.user = s.user, Told(s),
           NEW e \in Entry, e.project # None, t.history = Append(s.history, e)
    PROVE  Told(t)
<1> DEFINE h == s.history
           k == t.history
<1>1. /\ h \in Seq(Entry) /\ Len(h) \in Nat /\ DOMAIN h = 1 .. Len(h)
      /\ Len(k) = Len(h) + 1 /\ DOMAIN k = 1 .. Len(h) + 1 /\ k[Len(h) + 1] = e
      /\ \A i \in 1 .. Len(h) : k[i] = h[i]
  BY DEF Seat
<1> HIDE DEF h, k
<1>2. Grants(k) = Grants(h) /\ \A i \in Grants(h) : k[i] = h[i] /\ i \in 1 .. Len(h)
  BY <1>1 DEF Grants
<1>3. \A i \in 1 .. Len(h) : LinkFollows(h, i) => LinkFollows(k, i)
  <2> SUFFICES ASSUME NEW i \in 1 .. Len(h), LinkFollows(h, i) PROVE LinkFollows(k, i)
    OBVIOUS
  <2>1. i + 1 \in 1 .. Len(h)
    BY <1>1 DEF LinkFollows
  <2> QED
    BY <1>1, <2>1 DEF LinkFollows
<1> QED
  BY <1>2, <1>3 DEF Told, h, k

LEMMA GrantTold ==
    ASSUME NEW s \in Seat, NEW u \in Users, s.status = "vacant", Told(s)
    PROVE  Told(Allocated(s, u, None))
<1> DEFINE e == [user |-> u, project |-> None, open |-> TRUE]
           t == Allocated(s, u, None)
           h == s.history
           k == t.history
<1>1. k = Append(h, e) /\ t.status = "active" /\ t.user = u
  BY GrantGrows
<1>2. h \in Seq(Entry) /\ e \in Entry /\ e.open = TRUE /\ e.user = u /\ e.project = None
  BY DEF Seat, Entry
<1> HIDE DEF e, t, h, k
<1>3. /\ DOMAIN k = 1 .. Len(h) + 1 /\ Len(k) = Len(h) + 1 /\ Len(h) \in Nat
      /\ DOMAIN h = 1 .. Len(h)
      /\ k[Len(h) + 1] = e /\ \A i \in 1 .. Len(h) : k[i] = h[i]
  BY <1>1, <1>2
<1>4. Len(h) + 1 \in Grants(k) /\ \A i \in Grants(k) : i # Len(h) + 1 => i \in Grants(h)
  BY <1>2, <1>3 DEF Grants
<1>5. \A i \in Grants(h) : i \in 1 .. Len(h) /\ (h[i].open => LinkFollows(h, i))
  BY <1>3 DEF Told, Grants, h
<1>6. \A i \in Grants(h) : k[i].open => LinkFollows(k, i)
  <2> SUFFICES ASSUME NEW i \in Grants(h), k[i].open PROVE LinkFollows(k, i)
    OBVIOUS
  <2>1. LinkFollows(h, i) /\ i \in 1 .. Len(h)
    BY <1>3, <1>5
  <2>2. i + 1 \in 1 .. Len(h)
    BY <1>3, <2>1 DEF LinkFollows
  <2> QED
    BY <1>3, <2>1, <2>2 DEF LinkFollows
<1>7. ASSUME NEW i \in Grants(k)
      PROVE  IF t.status = "active" /\ \A j \in Grants(k) : j <= i
               THEN k[i].open /\ k[i].user = t.user
               ELSE k[i].open => LinkFollows(k, i)
  <2>1. CASE i = Len(h) + 1
    <3>1. \A j \in Grants(k) : j <= i
      BY <1>3, <2>1 DEF Grants
    <3> QED
      BY <1>1, <1>2, <1>3, <2>1, <3>1
  <2>2. CASE i # Len(h) + 1
    <3>1. i \in Grants(h) /\ ~(Len(h) + 1 <= i)
      BY <1>3, <1>4, <1>5, <1>7, <2>2
    <3> QED
      BY <1>4, <1>6, <3>1
  <2> QED
    BY <2>1, <2>2
<1> QED
  BY <1>7 DEF Told, t, k

\* A release closes the last open entry of the holder: the grant itself, or a
\* link that came after it.
LEMMA ReleaseTold ==
    ASSUME NEW s \in Seat, NEW seen \in Seat, s.status = "active", seen.user = s.user, Told(s),
           Same(seen.history, s.history)
    PROVE  Told(Released(s, seen))
<1> DEFINE I == LastOpenOf(seen.history, seen.user)
           h == s.history
           t == Released(s, seen)
           k == t.history
<1>1. k = Closed(h, I) /\ t.status = "vacant"
  BY ReleasedType
<1>2. /\ h \in Seq(Entry) /\ seen.history \in Seq(Entry) /\ Len(h) \in Nat
      /\ DOMAIN h = 1 .. Len(h) /\ DOMAIN seen.history = 1 .. Len(h)
  BY DEF Seat, Same
<1>3. \A i \in 1 .. Len(h) :
         /\ seen.history[i].user = h[i].user
         /\ h[i].project = None => (seen.history[i].open <=> h[i].open)
  BY <1>2 DEF Same
<1> HIDE DEF h, t, k
<1>4. /\ Len(k) = Len(h) /\ DOMAIN k = 1 .. Len(h)
      /\ \A i \in 1 .. Len(h) :
            /\ k[i].project = h[i].project
            /\ k[i].open => h[i].open
            /\ i \in I => ~k[i].open
  <2>1. ASSUME NEW i \in 1 .. Len(h)
        PROVE  /\ k[i].project = h[i].project
               /\ k[i].open => h[i].open
               /\ i \in I => ~k[i].open
    <3>1. h[i] \in Entry
      BY <1>2
    <3>2. k[i] = IF i \in I THEN [h[i] EXCEPT !.open = FALSE] ELSE h[i]
      BY <1>1, <1>2 DEF Closed
    <3> QED
      BY <3>1, <3>2 DEF Entry
  <2>2. Len(k) = Len(h) /\ k \in Seq(Entry)
    BY <1>1, <1>2, ClosedType
  <2> QED
    BY <2>1, <2>2
<1>5. Grants(k) = Grants(h) /\ \A i \in Grants(h) : i \in 1 .. Len(h) /\ h[i].project = None
  BY <1>2, <1>4 DEF Grants
<1>6. ASSUME NEW i \in Grants(h), k[i].open PROVE LinkFollows(k, i)
  <2>1. i \in 1 .. Len(h) /\ h[i].open /\ i \notin I
    BY <1>4, <1>5, <1>6
  <2>2. CASE i < Len(h) /\ i + 1 \notin Grants(h)
    <3>1. i + 1 \in 1 .. Len(h)
      BY <1>2, <2>1, <2>2
    <3> QED
      BY <1>2, <1>4, <2>2, <3>1 DEF Grants, LinkFollows
  <2>3. CASE i < Len(h) /\ i + 1 \in Grants(h)
    <3>1. ~(\A j \in Grants(h) : j <= i)
      BY <2>1, <2>3
    <3>2. LinkFollows(h, i)
      BY <1>6, <2>1, <3>1 DEF Told, h
    <3> QED
      BY <1>2, <2>3, <3>2 DEF LinkFollows, Grants
  <2>4. CASE ~(i < Len(h))
    <3> DEFINE l == Len(h)
    <3>6. l \in Nat
      BY <1>2
    <3> HIDE DEF l
    <3>7. \A j \in 1 .. l : j <= l /\ (j < l \/ j = l)
      BY <3>6
    <3>0. \A j \in 1 .. Len(h) : j <= Len(h) /\ (j < Len(h) \/ j = Len(h))
      BY <3>7 DEF l
    <3>1. i = Len(h) /\ \A j \in Grants(h) : j <= i
      BY <1>5, <2>1, <2>4, <3>0
    <3>2. h[i].user = s.user
      BY <1>6, <3>1 DEF Told, h
    <3>3. seen.history[i].open /\ seen.history[i].user = seen.user
      BY <1>3, <1>5, <2>1, <3>2
    <3>4. \A j \in DOMAIN seen.history : j <= i
      BY <1>2, <3>1
    <3>5. i \in I
      BY <1>2, <2>1, <3>3, <3>4 DEF LastOpenOf, Latest
    <3> QED
      BY <2>1, <3>5
  <2> QED
    BY <2>2, <2>3, <2>4
<1>7. \A i \in Grants(k) : t.status # "active" /\ (k[i].open => LinkFollows(k, i))
  BY <1>1, <1>5, <1>6
<1> QED
  BY <1>7 DEF Told, t, k

LEMMA LinkTold ==
    ASSUME NEW s \in Seat, NEW seen \in Seat, seen.user \in Users, NEW p \in Projects,
           Same(seen.history, s.history), Told(s)
    PROVE  Told(Linked(s, seen, p))
<1> DEFINE e == [user |-> seen.user, project |-> p, open |-> TRUE]
           t == Linked(s, seen, p)
<1>1. PICK k \in Seq(Entry) : Same(s.history, k) /\ t.history = Append(k, e)
  BY LinkGrows
<1>2. t \in Seat /\ t.status = s.status /\ t.user = s.user
  BY LinkedType
<1>3. e \in Entry /\ e.project # None
  BY SeatStoreAssumption DEF Entry
<1> DEFINE m == [s EXCEPT !.history = k]
<1>4. m \in Seat /\ m.status = s.status /\ m.user = s.user /\ m.history = k
  BY DEF Seat
<1> HIDE DEF e, t, m
<1>5. Told(m)
  BY <1>1, <1>4, SameTold
<1>6. Told(t)
  BY <1>1, <1>2, <1>3, <1>4, <1>5, PushLinkTold
<1> QED
  BY <1>6 DEF t

-----------------------------------------------------------------------------
(* Every step                                                                 *)

\* A request that is about to save a seat, and what it knows of it.
LEMMA SavingKnows ==
    ASSUME IndInv, SerialInv, HistoryInv, NEW r \in Requests, req[r].pc \in SavePC
    PROVE  /\ req[r].seat \in Existing(seats) /\ req[r].seat \in SeatNo
           /\ seats[req[r].seat] \in Seat /\ req[r].seen \in Seat
           /\ Grows(req[r].seen.history, seats[req[r].seat].history)
           /\ req[r].pc \in {"link.save", "clear.save"} => req[r].project \in Projects
           /\ req[r].pc \in {"rel.save", "link.save"} =>
                 /\ Same(req[r].seen.history, seats[req[r].seat].history)
                 /\ req[r].seen.user = req[r].user /\ req[r].user \in Users
                 /\ req[r].seat \in HeldBy(seats, req[r].user)
<1>1. RequestOK(r) /\ OwnAccountOK(r) /\ SeenOK(r)
  BY DEF IndInv, SerialInv, HistoryInv
<1>2. req[r].seat \in Existing(seats)
  BY <1>1 DEF RequestOK
<1>3. req[r].seat \in SeatNo /\ seats[req[r].seat] \in Seat
  BY <1>2, ExistingIsSeat
<1> QED
  BY <1>1, <1>2, <1>3 DEF RequestOK, OwnAccountOK, SeenOK

LEMMA SeatWrites ==
    ASSUME IndInv, [Next]_vars
    PROVE  \/ seats' = seats \/ Seeding \/ Granting
           \/ \E r \in Requests : Releasing(r) \/ Linking(r) \/ Clearing(r)
<1>1. ASSUME Environment PROVE seats' = seats
  BY <1>1 DEF Environment, OrgSetLegalHold, OrgArchive, OrgUnarchive, UserSetLegalHold, BatchArchive
<1>2. CASE UNCHANGED vars
  BY <1>2 DEF vars
<1> QED
  BY <1>1, <1>2, RequestWrites DEF Next

HistoriesGrow == \A n \in SeatNo : Grows(seats[n].history, seats'[n].history)

LEMMA StepGrows ==
    ASSUME IndInv, SerialInv, HistoryInv, [Next]_vars
    PROVE  HistoriesGrow
<1>1. seats \in [SeatNo -> Seat \cup {Absent}] /\ Absent.history = << >> /\ NewSeat.history = << >>
  BY DEF IndInv, TypeOK, Seats, Absent, NewSeat
<1>2. \A n \in SeatNo : Grows(seats[n].history, seats[n].history)
  <2> TAKE n \in SeatNo
  <2>1. << >> \in Seq(Entry) /\ (seats[n] = Absent \/ seats[n] \in Seat)
    BY <1>1
  <2>2. seats[n].history \in Seq(Entry)
    BY <1>1, <2>1 DEF Seat
  <2> QED
    BY <2>2, SameIsEquivalence, GrowsIsOrder
<1>3. ASSUME NEW n \in SeatNo, NEW s, Grows(seats[n].history, s.history),
             seats' = [seats EXCEPT ![n] = s]
      PROVE  HistoriesGrow
  <2>1. seats'[n] = s /\ \A m \in SeatNo \ {n} : seats'[m] = seats[m]
    BY <1>1, <1>3
  <2> QED
    BY <1>2, <1>3, <2>1 DEF HistoriesGrow
<1>4. CASE seats' = seats
  BY <1>2, <1>4 DEF HistoriesGrow
<1>5. CASE Seeding
  <2>1. PICK n \in SeatNo \ Existing(seats) : seats' = [seats EXCEPT ![n] = NewSeat]
    BY <1>5 DEF Seeding
  <2>2. seats[n] = Absent
    BY <1>1 DEF Existing, Seat
  <2> HIDE DEF Absent, NewSeat
  <2>3. Grows(seats[n].history, NewSeat.history)
    BY <1>1, <1>2, <2>2
  <2> QED
    BY <1>3, <2>1, <2>3
<1>6. CASE Granting
  <2>1. PICK n \in Vacant(seats), u \in Users : seats' = [seats EXCEPT ![n] = Allocated(seats[n], u, None)]
    BY <1>6 DEF Granting
  <2>2. n \in SeatNo /\ seats[n] \in Seat
    BY ExistingIsSeat DEF Vacant, Existing
  <2>3. Grows(seats[n].history, Allocated(seats[n], u, None).history)
    BY <2>2, GrantGrows
  <2> QED
    BY <1>3, <2>1, <2>2, <2>3
<1>7. ASSUME NEW r \in Requests, Releasing(r) \/ Linking(r) \/ Clearing(r) PROVE HistoriesGrow
  <2> DEFINE n == req[r].seat
             s == seats[n]
  <2>1. /\ n \in SeatNo /\ s \in Seat /\ req[r].seen \in Seat
        /\ Grows(req[r].seen.history, s.history)
        /\ req[r].pc \in {"link.save", "clear.save"} => req[r].project \in Projects
        /\ req[r].pc = "link.save" =>
              Same(req[r].seen.history, s.history) /\ req[r].seen.user \in Users
    BY <1>7, SavingKnows DEF Releasing, Linking, Clearing, Saving
  <2>2. s.history \in Seq(Entry)
    BY <2>1 DEF Seat
  <2>3. CASE Releasing(r)
    <3>1. Grows(s.history, Released(s, req[r].seen).history)
      BY <2>1, <2>2, ReleasedType, CloseGrows
    <3> QED
      BY <1>3, <2>1, <2>3, <3>1 DEF Releasing, Saving
  <2>4. CASE Linking(r)
    <3>1. Grows(s.history, Linked(s, req[r].seen, req[r].project).history)
      BY <2>1, <2>4, LinkGrows DEF Linking, Saving
    <3> QED
      BY <1>3, <2>1, <2>4, <3>1 DEF Linking, Saving
  <2>5. CASE Clearing(r)
    <3> DEFINE t == Cleared(s, req[r].seen, req[r].project)
    <3>1. req[r].project \in Projects
      BY <2>1, <2>5 DEF Clearing, Saving
    <3>2. Same(s.history, t.history) /\ t \in Seat
      BY <2>1, <3>1, ClearSame, ClearedType
    <3> HIDE DEF t
    <3>3. Grows(s.history, t.history)
      BY <2>2, <3>2, GrowsIsOrder DEF Seat
    <3> QED
      BY <1>3, <2>1, <2>5, <3>3 DEF Clearing, Saving, t
  <2> QED
    BY <1>7, <2>3, <2>4, <2>5
<1> QED
  BY <1>4, <1>5, <1>6, <1>7, SeatWrites

\* A step of r leaves the other requests where they are, as far as seats go, and
\* makes r ready to save only by reading.
Moves(r) ==
    /\ \A p \in Requests \ {r} :
          /\ req'[p].pc = req[p].pc /\ req'[p].user = req[p].user
          /\ req'[p].seat = req[p].seat /\ req'[p].seen = req[p].seen
          /\ req'[p].project = req[p].project
    /\ req'[r].pc \notin SavePC

LEMMA RecordMoves ==
    ASSUME IndInv, NEW r \in Requests, NEW q, q.pc \notin SavePC, req' = [req EXCEPT ![r] = q]
    PROVE  Moves(r)
BY DEF IndInv, TypeOK, Moves

LEMMA FinishMoves ==
    ASSUME IndInv, NEW r \in Requests, Finish(r)
    PROVE  Moves(r)
<1>1. Idle.pc \notin SavePC
  BY DEF Idle
<1> QED
  BY <1>1, RecordMoves DEF Finish

LEMMA GotoMoves ==
    ASSUME IndInv, NEW r \in Requests, NEW pc, pc \notin SavePC, Goto(r, pc)
    PROVE  Moves(r)
<1> DEFINE q == [req[r] EXCEPT !.pc = pc]
<1>1. req' = [req EXCEPT ![r] = q] /\ q.pc = pc
  BY DEF Goto, IndInv, TypeOK, Request
<1> HIDE DEF q
<1> QED
  BY <1>1, RecordMoves

LEMMA WriteMoves ==
    ASSUME IndInv, NEW r \in Requests, NEW n \in SeatNo, NEW record, record.pc \notin SavePC,
           NEW moves \in BOOLEAN, Wrote(n, r, record, moves)
    PROVE  Moves(r)
BY WroteStays DEF Moves

LEMMA SeedingMoves ==
    ASSUME IndInv, NEW r \in Requests, req[r].pc \in {"seed.find", "seed.insert"}, Seeded(r)
    PROVE  Moves(r)
BY SeededMoves DEF Moves, Idle

LEMMA SavesMove ==
    ASSUME IndInv, NEW r \in Requests, Arrive(r) \/ Step(r) \/ Fail(r)
    PROVE  RelFind(r) \/ LinkRead(r) \/ ClearRead(r) \/ Moves(r)
<1>1. req \in [Requests -> Request] /\ req[r] \in Request /\ RequestOK(r)
  BY DEF IndInv, TypeOK
<1>2. Idle.pc \notin SavePC /\ Idle \in Request
  BY IdleType DEF Idle
<1>3. CASE Arrive(r)
  <2>1. ASSUME NEW q, q.pc \notin SavePC, Begin(r, q) PROVE Moves(r)
    BY <2>1, RecordMoves DEF Begin
  <2>2. /\ [Idle EXCEPT !.pc = "seed.org", !.op = "seed"].pc \notin SavePC
        /\ \A u \in Users :
              /\ [Idle EXCEPT !.pc = "seed.org", !.op = "create", !.user = u].pc \notin SavePC
              /\ [Idle EXCEPT !.pc = "arch.save", !.op = "archive", !.user = u].pc \notin SavePC
              /\ [Idle EXCEPT !.pc = "seed.org", !.op = "unarchive", !.user = u].pc \notin SavePC
        /\ \A u \in Users, p \in Projects :
              [Idle EXCEPT !.pc = "find.org", !.op = "link", !.user = u, !.project = p].pc \notin SavePC
        /\ \A n \in SeatNo, p \in Projects :
              [Idle EXCEPT !.pc = "clear.org", !.op = "clear", !.user = seats[n].user,
                           !.project = p, !.seat = n].pc \notin SavePC
    BY <1>2 DEF Request
  <2>3. ASSUME BeginSeed(r) PROVE Moves(r)
    BY <2>1, <2>2, <2>3 DEF BeginSeed
  <2>4. ASSUME NEW u \in Users, BeginCreate(r, u) \/ BeginArchive(r, u) \/ BeginUnarchive(r, u)
        PROVE  Moves(r)
    BY <2>1, <2>2, <2>4 DEF BeginCreate, BeginArchive, BeginUnarchive
  <2>5. ASSUME NEW p \in Projects,
               \/ \E u \in Users : BeginLink(r, u, p)
               \/ \E n \in SeatNo : BeginClear(r, n, p)
        PROVE  Moves(r)
    BY <2>1, <2>2, <2>5 DEF BeginLink, BeginClear
  <2> QED
    BY <1>3, <2>3, <2>4, <2>5 DEF Arrive
<1>4. CASE CheckOrg(r)
  <2>1. \A pc \in DOMAIN AfterOrg : AfterOrg[pc] \notin SavePC
    BY DEF AfterOrg
  <2> QED
    BY <1>4, <2>1, FinishMoves, GotoMoves DEF CheckOrg
<1>5. CASE SeedFind(r)
  <2> DEFINE q == [req[r] EXCEPT !.pc = "seed.insert", !.todo = SeatNo \ Existing(seats)]
  <2>1. q.pc \notin SavePC
    BY <1>1 DEF Request
  <2>2. Seeded(r) \/ req' = [req EXCEPT ![r] = q]
    BY <1>5 DEF SeedFind
  <2> HIDE DEF q
  <2>3. req[r].pc = "seed.find"
    BY <1>5 DEF SeedFind
  <2> QED
    BY <2>1, <2>2, <2>3, RecordMoves, SeedingMoves
<1>6. CASE SeedInsert(r)
  <2>1. PICK n \in req[r].todo : Seeded(r) \/ req' = [req EXCEPT ![r].todo = @ \ {n}]
    BY <1>6 DEF SeedInsert
  <2> DEFINE q == [req[r] EXCEPT !.todo = req[r].todo \ {n}]
  <2>2. req[r].pc = "seed.insert"
    BY <1>6 DEF SeedInsert
  <2>3. q.pc \notin SavePC
    BY <1>1, <2>2 DEF Request
  <2>4. Seeded(r) \/ req' = [req EXCEPT ![r] = q]
    BY <2>1
  <2> HIDE DEF q
  <2> QED
    BY <2>2, <2>3, <2>4, RecordMoves, SeedingMoves
<1>7. CASE TxnBegin(r)
  <2> DEFINE q == [req[r] EXCEPT !.pc = "txn.org", !.clean = Vacant(seats)]
  <2>1. q.pc \notin SavePC
    BY <1>1 DEF Request
  <2>2. Finish(r) \/ req' = [req EXCEPT ![r] = q]
    BY <1>7 DEF TxnBegin
  <2> HIDE DEF q
  <2> QED
    BY <2>1, <2>2, RecordMoves, FinishMoves
<1>8. ASSUME NEW pc \in {"txn.commit", "link.org"}, NEW n,
             req' = [req EXCEPT ![r].pc = pc, ![r].seat = n]
      PROVE  Moves(r)
  <2> DEFINE q == [req[r] EXCEPT !.pc = pc, !.seat = n]
  <2>1. q.pc \notin SavePC
    BY <1>1 DEF Request
  <2>2. req' = [req EXCEPT ![r] = q]
    BY <1>8
  <2> HIDE DEF q
  <2> QED
    BY <2>1, <2>2, RecordMoves
<1>9. CASE TxnAlloc(r)
  <2>1. Finish(r) \/ \E n : req' = [req EXCEPT ![r].pc = "txn.commit", ![r].seat = n]
    BY <1>9 DEF TxnAlloc
  <2> QED
    BY <1>8, <2>1, FinishMoves
<1>10. CASE LinkFind(r)
  <2>1. \/ Finish(r) \/ Goto(r, "alloc.org")
        \/ \E n : req' = [req EXCEPT ![r].pc = "link.org", ![r].seat = n]
    BY <1>10 DEF LinkFind
  <2>2. "alloc.org" \notin SavePC
    OBVIOUS
  <2> QED
    BY <1>8, <2>1, <2>2, FinishMoves, GotoMoves
<1>11. CASE TxnCommit(r)
  <2>1. req[r].seat \in SeatNo
    BY <1>1, <1>11 DEF TxnCommit, RequestOK, Vacant
  <2> QED
    BY <1>2, <1>11, <2>1, WriteMoves DEF TxnCommit
<1>12. CASE ArchSave(r) \/ UnarchSaveRejected(r)
  <2>1. Goto(r, "rel.org") /\ "rel.org" \notin SavePC
    BY <1>12 DEF ArchSave, UnarchSaveRejected
  <2> QED
    BY <2>1, GotoMoves
<1>13. CASE RelSave(r) \/ LinkSave(r) \/ ClearSave(r)
  <2>1. req[r].seat \in SeatNo
    BY <1>1, <1>13, ExistingIsSeat DEF RelSave, LinkSave, ClearSave, RequestOK
  <2>2. Finish(r) \/ \E moves \in BOOLEAN : Wrote(req[r].seat, r, Idle, moves)
    BY <1>13 DEF RelSave, LinkSave, ClearSave
  <2> QED
    BY <1>2, <2>1, <2>2, FinishMoves, WriteMoves
<1>14. CASE Alloc(r)
  <2>1. Finish(r) \/ \E n \in Vacant(seats), pc \in {"link.org", "unarch.save"} :
           Wrote(n, r, [req[r] EXCEPT !.pc = pc, !.seat = n], FALSE)
    BY <1>14 DEF Alloc
  <2>2. ASSUME NEW n \in Vacant(seats), NEW pc \in {"link.org", "unarch.save"},
               Wrote(n, r, [req[r] EXCEPT !.pc = pc, !.seat = n], FALSE)
        PROVE  Moves(r)
    <3> DEFINE q == [req[r] EXCEPT !.pc = pc, !.seat = n]
    <3>1. q.pc \notin SavePC
      BY <1>1 DEF Request
    <3>2. n \in SeatNo
      BY DEF Vacant
    <3> HIDE DEF q
    <3>3. Wrote(n, r, q, FALSE)
      BY <2>2 DEF q
    <3> QED
      BY <3>1, <3>2, <3>3, WriteMoves
  <2> QED
    BY <2>1, <2>2, FinishMoves
<1>15. CASE UnarchSave(r) \/ Fail(r)
  BY <1>15, FinishMoves DEF UnarchSave, Fail
<1> QED
  BY <1>3, <1>4, <1>5, <1>6, <1>7, <1>9, <1>10, <1>11, <1>12, <1>13, <1>14, <1>15 DEF Step

\* A step of r leaves alone the grants of a seat that another request is about
\* to release or to link.
LEMMA SeatsLeft ==
    ASSUME IndInv, SerialInv, HistoryInv, NEW r \in Requests, Arrive(r) \/ Step(r) \/ Fail(r),
           NEW p \in Requests \ {r}, req[p].pc \in {"rel.save", "link.save"}
    PROVE  Same(seats[req[p].seat].history, seats'[req[p].seat].history)
<1> DEFINE m == req[p].seat
<1>1. /\ m \in SeatNo /\ seats[m] \in Seat /\ seats \in [SeatNo -> Seat \cup {Absent}]
      /\ req[p].user \in Users /\ m \in HeldBy(seats, req[p].user)
  BY SavingKnows DEF IndInv, TypeOK, Seats
<1> HIDE DEF m
<1>2. Same(seats[m].history, seats[m].history)
  BY <1>1, SameIsEquivalence DEF Seat
<1>3. CASE seats'[m] = seats[m]
  BY <1>2, <1>3 DEF m
<1>4. CASE Seeding
  BY <1>1, <1>3, <1>4 DEF Seeding, HeldBy, Existing
<1>5. CASE Granting
  BY <1>1, <1>3, <1>5 DEF Granting, HeldBy, Vacant
<1>6. CASE Releasing(r) \/ Linking(r)
  <2>1. req[r].pc \in {"rel.save", "link.save"}
    BY <1>6 DEF Releasing, Linking, Saving
  <2>2. req[r].seat \in HeldBy(seats, req[r].user) /\ req[r].user \in Users
    BY <2>1, SavingKnows
  <2>3. req[r].user # req[p].user
    BY <1>1, SeatStoreAssumption DEF SerialInv, OneRequestPerAccount
  <2>4. req[r].seat # m
    BY <1>1, <2>2, <2>3 DEF HeldBy
  <2>5. seats'[m] = seats[m]
    BY <1>1, <1>6, <2>4 DEF Releasing, Linking, Saving
  <2> QED
    BY <1>3, <2>5
<1>7. CASE Clearing(r)
  <2>1. CASE req[r].seat = m
    <3> DEFINE t == Cleared(seats[m], req[r].seen, req[r].project)
    <3>1. req[r].seen \in Seat /\ req[r].project \in Projects /\ Grows(req[r].seen.history, seats[m].history)
      BY <1>7, <2>1, SavingKnows DEF Clearing, Saving
    <3>2. Same(seats[m].history, t.history)
      BY <1>1, <3>1, ClearSame
    <3>3. seats'[m] = t
      BY <1>1, <1>7, <2>1 DEF Clearing, Saving
    <3> HIDE DEF t
    <3> QED
      BY <3>2, <3>3 DEF m
  <2>2. CASE req[r].seat # m
    BY <1>1, <1>3, <1>7, <2>2 DEF Clearing, Saving
  <2> QED
    BY <2>1, <2>2
<1> QED
  BY <1>2, <1>3, <1>4, <1>5, <1>6, <1>7, RequestWrites

LEMMA SeatsTold ==
    ASSUME IndInv, SerialInv, HistoryInv, [Next]_vars
    PROVE  \A n \in Existing(seats') : Told(seats'[n])
<1>1. /\ seats \in [SeatNo -> Seat \cup {Absent}]
      /\ \A n \in Existing(seats) : n \in SeatNo /\ seats[n] \in Seat /\ Told(seats[n])
  BY ExistingIsSeat DEF IndInv, TypeOK, Seats, HistoryInv
<1>2. ASSUME NEW n \in SeatNo, NEW s, seats' = [seats EXCEPT ![n] = s], Told(s)
      PROVE  \A m \in Existing(seats') : Told(seats'[m])
  <2>1. seats'[n] = s /\ \A m \in SeatNo \ {n} : seats'[m] = seats[m]
    BY <1>1, <1>2
  <2> QED
    BY <1>1, <1>2, <2>1 DEF Existing
<1>3. CASE seats' = seats
  BY <1>1, <1>3
<1>4. CASE Seeding
  <2>1. NewSeat.history = << >>
    BY DEF NewSeat, Absent
  <2>2. Told(NewSeat)
    BY <2>1 DEF Told, Grants
  <2> QED
    BY <1>2, <1>4, <2>2 DEF Seeding
<1>5. CASE Granting
  <2>1. PICK n \in Vacant(seats), u \in Users : seats' = [seats EXCEPT ![n] = Allocated(seats[n], u, None)]
    BY <1>5 DEF Granting
  <2>2. n \in Existing(seats) /\ seats[n].status = "vacant"
    BY DEF Vacant, Existing
  <2>3. Told(Allocated(seats[n], u, None))
    BY <1>1, <2>2, GrantTold
  <2> QED
    BY <1>1, <1>2, <2>1, <2>2, <2>3
<1>6. ASSUME NEW r \in Requests, Releasing(r) \/ Linking(r) \/ Clearing(r)
      PROVE  \A n \in Existing(seats') : Told(seats'[n])
  <2> DEFINE n == req[r].seat
             seen == req[r].seen
             p == req[r].project
  <2>1. req[r].pc \in SavePC
    BY <1>6 DEF Releasing, Linking, Clearing, Saving
  <2>2. /\ n \in Existing(seats) /\ n \in SeatNo /\ seats[n] \in Seat /\ seen \in Seat
        /\ Grows(seen.history, seats[n].history) /\ Told(seats[n])
    BY <1>1, <2>1, SavingKnows
  <2>3. CASE Releasing(r)
    <3>1. req[r].pc = "rel.save" /\ seats' = [seats EXCEPT ![n] = Released(seats[n], seen)]
      BY <2>3 DEF Releasing, Saving
    <3>2. /\ Same(seen.history, seats[n].history)
          /\ seen.user = req[r].user /\ n \in HeldBy(seats, req[r].user)
      BY <2>1, <3>1, SavingKnows
    <3>3. seats[n].status = "active" /\ seats[n].user = seen.user
      BY <3>2 DEF HeldBy
    <3>4. Told(Released(seats[n], seen))
      BY <2>2, <3>2, <3>3, ReleaseTold
    <3> QED
      BY <1>2, <2>2, <3>1, <3>4
  <2>4. CASE Linking(r)
    <3>1. req[r].pc = "link.save" /\ seats' = [seats EXCEPT ![n] = Linked(seats[n], seen, p)]
      BY <2>4 DEF Linking, Saving
    <3>2. Same(seen.history, seats[n].history) /\ seen.user \in Users /\ p \in Projects
      BY <2>1, <3>1, SavingKnows
    <3>3. Told(Linked(seats[n], seen, p))
      BY <2>2, <3>2, LinkTold
    <3> QED
      BY <1>2, <2>2, <3>1, <3>3
  <2>5. CASE Clearing(r)
    <3> DEFINE t == Cleared(seats[n], seen, p)
    <3>1. req[r].pc = "clear.save" /\ seats' = [seats EXCEPT ![n] = t]
      BY <2>5 DEF Clearing, Saving
    <3>2. p \in Projects
      BY <2>1, <3>1, SavingKnows
    <3>3. /\ Same(seats[n].history, t.history) /\ t \in Seat
          /\ t.status = seats[n].status /\ t.user = seats[n].user
      BY <2>2, <3>2, ClearSame, ClearedType
    <3> HIDE DEF t
    <3>4. Told(t)
      BY <2>2, <3>3, SameTold
    <3> QED
      BY <1>2, <2>2, <3>1, <3>4
  <2> QED
    BY <1>6, <2>3, <2>4, <2>5
<1> QED
  BY <1>3, <1>4, <1>5, <1>6, SeatWrites

\* What a request has read goes on holding while others take their steps.
LEMMA SeenStays ==
    ASSUME IndInv, SerialInv, HistoryInv, [Next]_vars, IndInv',
           NEW r \in Requests, Arrive(r) \/ Step(r) \/ Fail(r),
           NEW p \in Requests \ {r},
           req'[p].pc = req[p].pc, req'[p].user = req[p].user,
           req'[p].seat = req[p].seat, req'[p].seen = req[p].seen
    PROVE  SeenOK(p)'
<1> DEFINE m == req[p].seat
<1> SUFFICES ASSUME req[p].pc \in SavePC PROVE SeenOK(p)'
  BY DEF SeenOK
<1>1. /\ m \in SeatNo /\ seats[m] \in Seat /\ req[p].seen \in Seat
      /\ Grows(req[p].seen.history, seats[m].history)
      /\ req[p].pc \in {"rel.save", "link.save"} =>
            /\ Same(req[p].seen.history, seats[m].history)
            /\ req[p].seen.user = req[p].user
  BY SavingKnows
<1>2. Grows(seats[m].history, seats'[m].history)
  BY <1>1, StepGrows DEF HistoriesGrow
<1>3. req[p].pc \in {"rel.save", "link.save"} => Same(seats[m].history, seats'[m].history)
  BY SeatsLeft
<1>4. seats'[m] \in Seat \cup {Absent} /\ Absent.history = << >> /\ << >> \in Seq(Entry)
  BY <1>1 DEF IndInv, TypeOK, Seats, Absent
<1> HIDE DEF m, Absent
<1>5. /\ req[p].seen.history \in Seq(Entry) /\ seats[m].history \in Seq(Entry)
      /\ seats'[m].history \in Seq(Entry)
  BY <1>1, <1>4 DEF Seat
<1>6. Grows(req[p].seen.history, seats'[m].history)
  BY <1>1, <1>2, <1>5, GrowsIsOrder
<1>7. req[p].pc \in {"rel.save", "link.save"} => Same(req[p].seen.history, seats'[m].history)
  BY <1>1, <1>3, <1>5, SameIsEquivalence
<1> QED
  BY <1>1, <1>6, <1>7 DEF SeenOK, m

\* What a request has just read is what is there.
LEMMA SeenRead ==
    ASSUME IndInv, SerialInv, NEW r \in Requests, NEW n \in Existing(seats), NEW pc \in SavePC,
           seats' = seats, req'[r].pc = pc, req'[r].seat = n, req'[r].seen = seats[n],
           req'[r].user = req[r].user,
           pc \in {"rel.save", "link.save"} => seats[n].user = req[r].user
    PROVE  SeenOK(r)'
<1>1. seats[n] \in Seat
  BY ExistingIsSeat
<1>2. seats[n].history \in Seq(Entry)
  BY <1>1 DEF Seat
<1>3. Same(seats[n].history, seats[n].history) /\ Grows(seats[n].history, seats[n].history)
  BY <1>2, SameIsEquivalence, GrowsIsOrder
<1> QED
  BY <1>3 DEF SeenOK

LEMMA ReadsSeen ==
    ASSUME IndInv, SerialInv, NEW r \in Requests, RelFind(r) \/ LinkRead(r) \/ ClearRead(r)
    PROVE  SeenOK(r)' /\ \A p \in Requests \ {r} : req'[p] = req[p]
<1>1. RequestOK(r) /\ OwnAccountOK(r) /\ req \in [Requests -> Request]
  BY DEF IndInv, TypeOK, SerialInv
<1>2. UNCHANGED <<users, held, org, seats>>
  BY DEF RelFind, LinkRead, ClearRead
<1>3. CASE Finish(r)
  BY <1>1, <1>3 DEF Finish, SeenOK, Idle
<1>4. ASSUME RelFind(r), ~Finish(r)
      PROVE  SeenOK(r)' /\ \A p \in Requests \ {r} : req'[p] = req[p]
  <2>1. PICK n \in Existing(seats) : seats[n].user = req[r].user /\ HasRead(r, n, "rel.save")
    BY <1>4 DEF RelFind
  <2>2. req[r].op \in {"archive", "unarchive"}
    BY <1>1, <1>4 DEF RelFind, RequestOK
  <2> QED
    BY <1>2, <2>1, <2>2, HasReadKeeps, SeenRead
<1>5. ASSUME LinkRead(r), ~Finish(r)
      PROVE  SeenOK(r)' /\ \A p \in Requests \ {r} : req'[p] = req[p]
  <2> DEFINE n == req[r].seat
  <2>1. HasRead(r, n, "link.save") /\ req[r].pc = "link.read"
    BY <1>5 DEF LinkRead
  <2>2. /\ n \in Existing(seats) /\ req[r].op = "link" /\ req[r].user \in Users
        /\ n \in HeldBy(seats, req[r].user)
    BY <1>1, <2>1 DEF RequestOK, OwnAccountOK
  <2> HIDE DEF n
  <2>3. seats[n].user = req[r].user
    BY <2>2 DEF HeldBy
  <2> QED
    BY <1>2, <2>1, <2>2, <2>3, HasReadKeeps, SeenRead
<1>6. ASSUME ClearRead(r)
      PROVE  SeenOK(r)' /\ \A p \in Requests \ {r} : req'[p] = req[p]
  <2> DEFINE n == req[r].seat
  <2>1. HasRead(r, n, "clear.save") /\ n \in Existing(seats) /\ req[r].op = "clear"
    BY <1>1, <1>6 DEF ClearRead, RequestOK
  <2> HIDE DEF n
  <2> QED
    BY <1>2, <2>1, HasReadKeeps, SeenRead
<1> QED
  BY <1>1, <1>3, <1>4, <1>5, <1>6 DEF Finish

LEMMA NextHistory ==
    ASSUME Serial
    PROVE  IndInv /\ SerialInv /\ HistoryInv /\ [Next]_vars => HistoryInv'
<1> SUFFICES ASSUME IndInv, SerialInv, HistoryInv, [Next]_vars PROVE HistoryInv'
  OBVIOUS
<1>1. IndInv'
  BY NextInv
<1>2. ASSUME NEW r \in Requests, Arrive(r) \/ Step(r) \/ Fail(r)
      PROVE  \A p \in Requests : SeenOK(p)'
  <2>1. CASE Moves(r)
    <3>1. SeenOK(r)'
      BY <2>1 DEF Moves, SeenOK
    <3>2. ASSUME NEW p \in Requests \ {r} PROVE SeenOK(p)'
      BY <1>1, <1>2, <2>1, SeenStays DEF Moves
    <3> QED
      BY <3>1, <3>2
  <2>2. CASE RelFind(r) \/ LinkRead(r) \/ ClearRead(r)
    <3>1. SeenOK(r)' /\ \A p \in Requests \ {r} : req'[p] = req[p]
      BY <2>2, ReadsSeen
    <3>2. ASSUME NEW p \in Requests \ {r} PROVE SeenOK(p)'
      BY <1>1, <1>2, <3>1, SeenStays
    <3> QED
      BY <3>1, <3>2
  <2> QED
    BY <1>2, <2>1, <2>2, SavesMove
<1>3. ASSUME Environment \/ UNCHANGED vars
      PROVE  \A p \in Requests : SeenOK(p)'
  <2>1. UNCHANGED <<req, seats>>
    BY <1>3 DEF Environment, OrgSetLegalHold, OrgArchive, OrgUnarchive, UserSetLegalHold, BatchArchive, vars
  <2> QED
    BY <2>1 DEF HistoryInv, SeenOK
<1>4. \A p \in Requests : SeenOK(p)'
  BY <1>2, <1>3 DEF Next
<1>5. (\A n \in Existing(seats) : Told(seats[n]))'
  BY SeatsTold
<1> QED
  BY <1>4, <1>5 DEF HistoryInv

HistoryIndInv == IndInv /\ SerialInv /\ HistoryInv

LEMMA InductiveHistory ==
    ASSUME Serial
    PROVE  Spec => []HistoryIndInv
<1>1. Init => HistoryIndInv
  <2>1. Init => HistoryInv
    BY DEF Init, HistoryInv, SeenOK, Existing, Absent, Idle
  <2> QED
    BY <2>1, InitInv, InitSerial DEF HistoryIndInv
<1>2. HistoryIndInv /\ [Next]_vars => HistoryIndInv'
  BY NextInv, NextSerial, NextHistory DEF HistoryIndInv
<1> QED
  BY <1>1, <1>2, PTL DEF Spec

\* What a history has recorded stays recorded while no two requests concern
\* one account: no entry is dropped or turned into another's and no grant that
\* is over is reopened, although a link may write the whole history as it was
\* read (seats.service.ts).
THEOREM RecordsLast ==
    ASSUME Serial
    PROVE  Spec => HistoryIsAppendOnly
<1>1. HistoryIndInv /\ [Next]_vars => [HistoriesGrow]_vars
  BY StepGrows DEF HistoryIndInv
<1>2. [HistoriesGrow]_vars <=>
        [\A n \in SeatNo :
          LET h == seats[n].history
              k == seats'[n].history
          IN /\ Len(h) <= Len(k)
             /\ \A i \in DOMAIN h :
                   /\ h[i].user = k[i].user /\ h[i].project = k[i].project
                   /\ h[i].project = None => (k[i].open => h[i].open)]_vars
  BY DEF HistoriesGrow, Grows
<1> QED
  BY <1>1, <1>2, InductiveHistory, PTL DEF Spec, HistoryIsAppendOnly

\* The history of a seat tells who holds it while no two requests concern one
\* account: the last grant of an active seat is its holder's and open, and a
\* grant that is over is closed or was followed by a link.
THEOREM HistoriesMatch ==
    ASSUME Serial
    PROVE  Spec => []HistoryMatchesSeat
<1>1. HistoryInv => HistoryMatchesSeat
  BY DEF HistoryInv, HistoryMatchesSeat, Told, Grants
<1> QED
  BY <1>1, InductiveHistory, PTL DEF HistoryIndInv
=============================================================================
