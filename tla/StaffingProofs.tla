---------------------------- MODULE StaffingProofs ----------------------------
(***************************************************************************)
(* Theorems about Staffing, for any projects, seats, people and estimates  *)
(* and any number of requests.  That a project's staffing and its          *)
(* assignments agree, that a seat's project is on record and that          *)
(* revisions are not used twice holds whatever the requests do to one      *)
(* another; that no seat is taken from a project holds as long as staffing *)
(* updates take turns.                                                     *)
(***************************************************************************)
EXTENDS Staffing, SequenceTheorems, WellFoundedInduction, TLAPS

-----------------------------------------------------------------------------
(* The history of a seat                                                      *)

LEMMA LeastExists ==
    ASSUME NEW T, T \subseteq Nat, T # {}
    PROVE  \E k \in T : \A m \in T : ~(m < k)
<1>1. PICK k \in T : \A m \in T : <<m, k>> \notin OpToRel(<, Nat)
  BY WFMin, NatLessThanWellFounded
<1> QED
  BY <1>1 DEF OpToRel

\* Finitely many positions have a last one: among the distances from the end
\* there is a least.
LEMMA LastExists ==
    ASSUME NEW n \in Nat, NEW at, at \subseteq 1 .. n, at # {}
    PROVE  \E i \in at : \A j \in at : j <= i
<1> DEFINE D == {d \in 0 .. n : n - d \in at}
<1>1. D \subseteq Nat
  OBVIOUS
<1>2. PICK d \in D : \A c \in D : ~(c < d)
  <2>1. D # {}
    <3>1. PICK i \in at : TRUE
      OBVIOUS
    <3>2. i \in 1 .. n /\ n - i \in 0 .. n /\ n - (n - i) = i
      BY <3>1
    <3>3. n - i \in D
      BY <3>1, <3>2
    <3> QED
      BY <3>3
  <2> HIDE DEF D
  <2> QED
    BY <1>1, <2>1, LeastExists
<1>3. \A j \in at : j <= n - d
  <2> SUFFICES ASSUME NEW j \in at PROVE j <= n - d
    OBVIOUS
  <2>1. j \in 1 .. n /\ n - j \in 0 .. n /\ n - (n - j) = j
    OBVIOUS
  <2>2. n - j \in D
    BY <2>1
  <2>3. ~(n - j < d) /\ d \in 0 .. n
    BY <1>2, <2>2
  <2> QED
    BY <2>1, <2>3
<1>4. n - d \in at
  OBVIOUS
<1> QED
  BY <1>3, <1>4

\* Closing the last of some entries leaves a history, with all the others.
LEMMA ClosedType ==
    ASSUME NEW T, NEW open \in Seq(T), NEW mine
    PROVE  /\ CloseLast(open, mine) \in Seq(T)
           /\ \A i \in DOMAIN open : open[i] \notin mine =>
                \E j \in DOMAIN CloseLast(open, mine) : CloseLast(open, mine)[j] = open[i]
<1> DEFINE at == {i \in DOMAIN open : open[i] \in mine}
           k == CHOOSE i \in at : \A j \in at : j <= i
           n == Len(open)
<1>1. n \in Nat /\ DOMAIN open = 1 .. n /\ at \subseteq 1 .. n /\ \A i \in 1 .. n : open[i] \in T
  OBVIOUS
<1>2. CloseLast(open, mine) = IF at = {} THEN open ELSE RemoveAt(open, k)
  BY DEF CloseLast
<1>3. CASE at = {}
  <2>1. CloseLast(open, mine) = open
    BY <1>2, <1>3
  <2> QED
    BY <1>1, <2>1
<1>4. CASE at # {}
  <2>1. k \in at
    <3>1. \E i \in at : \A j \in at : j <= i
      <4> HIDE DEF at, n, k
      <4> QED
        BY <1>1, <1>4, LastExists
    <3> HIDE DEF at
    <3> QED
      BY <3>1
  <2>2. k \in 1 .. n /\ open[k] \in mine
    BY <2>1
  <2>3. CloseLast(open, mine) = RemoveAt(open, k)
    BY <1>2, <1>4
  <2> HIDE DEF at, k
  <2> DEFINE a == SubSeq(open, 1, k - 1)
             b == SubSeq(open, k + 1, n)
             c == a \o b
  <2>4. /\ a \in Seq(T) /\ Len(a) = k - 1
        /\ \A i \in 1 .. k - 1 : a[i] = open[i]
    BY <1>1, <2>2
  <2>5. /\ b \in Seq(T) /\ Len(b) = n - k
        /\ \A i \in 1 .. n - k : b[i] = open[k + i]
    <3>1. k + 1 \in Int /\ n \in Int /\ \A i \in k + 1 .. n : open[i] \in T
      BY <1>1, <2>2
    <3>2. /\ b \in Seq(T) /\ Len(b) = IF k + 1 <= n THEN n - (k + 1) + 1 ELSE 0
          /\ \A i \in 1 .. n - (k + 1) + 1 : b[i] = open[(k + 1) + i - 1]
      <4> HIDE DEF n
      <4> QED
        BY <3>1, SubSeqProperties
    <3>3. n - (k + 1) + 1 = n - k /\ \A i \in 1 .. n - k : (k + 1) + i - 1 = k + i
      BY <1>1, <2>2
    <3>4. Len(b) = n - k
      <4> HIDE DEF b, n
      <4> QED
        BY <1>1, <2>2, <3>2
    <3> HIDE DEF b
    <3> QED
      BY <3>2, <3>3, <3>4
  <2>6. CloseLast(open, mine) = c
    BY <2>3 DEF RemoveAt
  <2> HIDE DEF a, b
  <2>7. /\ c \in Seq(T) /\ Len(c) = (k - 1) + (n - k)
        /\ \A i \in 1 .. (k - 1) + (n - k) : c[i] = IF i <= k - 1 THEN a[i] ELSE b[i - (k - 1)]
    <3>1. /\ c \in Seq(T) /\ Len(c) = Len(a) + Len(b)
          /\ \A i \in 1 .. Len(a) + Len(b) : c[i] = IF i <= Len(a) THEN a[i] ELSE b[i - Len(a)]
      BY <2>4, <2>5, ConcatProperties
    <3> HIDE DEF c
    <3> QED
      BY <2>4, <2>5, <3>1
  <2> HIDE DEF c
  <2>8. ASSUME NEW i \in 1 .. n, open[i] \notin mine
        PROVE  \E j \in 1 .. Len(c) : c[j] = open[i]
    <3>1. i # k
      BY <2>2, <2>8
    <3>2. CASE i < k
      <4>1. i \in 1 .. k - 1 /\ i \in 1 .. Len(c) /\ c[i] = a[i]
        BY <1>1, <2>2, <2>7, <3>2
      <4> QED
        BY <2>4, <4>1
    <3>3. CASE i > k
      <4>1. i - k \in 1 .. n - k /\ i - 1 \in 1 .. Len(c) /\ c[i - 1] = b[i - k] /\ k + (i - k) = i
        BY <1>1, <2>2, <2>7, <3>3
      <4> QED
        BY <2>5, <4>1
    <3> QED
      BY <1>1, <2>2, <3>1, <3>2, <3>3
  <2>9. DOMAIN c = 1 .. Len(c)
    BY <2>7
  <2> QED
    BY <1>1, <2>6, <2>7, <2>8, <2>9
<1> QED
  BY <1>3, <1>4

Entry == [user: Persons, project: Projects]

\* An entry for the project comes last, whatever was there.
LEMMA OpenedType ==
    ASSUME NEW u \in Persons, NEW p \in Projects, NEW open \in Seq(Entry)
    PROVE  /\ Opened(u, open, p) \in Seq(Entry)
           /\ \E i \in DOMAIN Opened(u, open, p) : Opened(u, open, p)[i].project = p
<1> DEFINE h == [user |-> u, project |-> p]
           o == IF open # << >> /\ Last(open).project # p THEN Front(open) ELSE open
<1>1. h \in Entry /\ h.project = p
  BY DEF Entry
<1>2. Opened(u, open, p) = Append(o, h)
  BY DEF Opened
<1>3. o \in Seq(Entry)
  <2>1. CASE open # << >>
    <3>1. Len(open) \in Nat /\ Len(open) # 0 /\ \A i \in 1 .. Len(open) : open[i] \in Entry
      BY <2>1
    <3>2. Front(open) \in Seq(Entry)
      BY <3>1 DEF Front
    <3> QED
      BY <3>2
  <2>2. CASE open = << >>
    BY <2>2
  <2> QED
    BY <2>1, <2>2
<1> HIDE DEF h, o
<1>4. /\ Append(o, h) \in Seq(Entry) /\ Len(Append(o, h)) = Len(o) + 1
      /\ Append(o, h)[Len(o) + 1] = h /\ Len(o) \in Nat
  BY <1>1, <1>3, AppendProperties
<1>5. Len(o) + 1 \in DOMAIN Append(o, h)
  BY <1>4
<1> QED
  BY <1>1, <1>2, <1>4, <1>5

-----------------------------------------------------------------------------
(* The inductive invariants                                                   *)

OnePerPost(S) == \A x, y \in S : PostOf(x) = PostOf(y) => x = y

\* What a request has in hand; an estimate was read with its total in order.
WellFormed(q) ==
    /\ q.pc \in {"sync", "link"} <=> q.p \in Projects
    /\ q.pc = "link" => q.seat \in Seats /\ q.post \in Post
    /\ q.pc = "estimate" => /\ q.e \in Estimates /\ q.change \in Changes /\ q.seen.project # None
                            /\ ~q.seen.stripped => q.seen.total = Sum(q.seen.items)

\* What may become of an estimate: with the same __v it has the same line items,
\* and the same total unless compliance has been there.
Onward(a, b) ==
    /\ a.v <= b.v
    /\ a.v = b.v => b.items = a.items /\ (b.total = a.total \/ b.stripped)
    /\ a.stripped => b.stripped
    /\ a.project # None => b.project # None

IndInv ==
    /\ TypeOK
    /\ \A r \in Requests : WellFormed(req[r])
    /\ \A r \in Requests : req[r].pc = "estimate" => Onward(req[r].seen, estimate[req[r].e])
    /\ ProjectOnRecord
    /\ TotalOfItems

\* Staffing updates take turns.
InTurn == "overlap" \notin Liberties

\* One update at a time, and the seat it is about to link is free or the
\* project's; a seat nobody holds is not at work on anything.
TurnInv ==
    /\ \A q, r \in Requests : Staffs(q) /\ Staffs(r) => q = r
    /\ \A r \in Requests : req[r].pc = "link" => seat[req[r].seat].project \in {None, req[r].p}
    /\ \A s \in Seats : seat[s].user = None => seat[s].project = None

\* It began with the assignments the project has; its list has one for each
\* post, and none yet for the post being assigned.
InHand(q) ==
    /\ q.current /\ q.was = project[q.p].assigned
    /\ OnePerPost(q.doc)
    /\ q.pc = "link" => \A x \in q.doc : PostOf(x) # q.post

StaffInv ==
    /\ StaffingMatchesAssignments
    /\ \A r \in Requests : Staffs(r) => InHand(req[r])

-----------------------------------------------------------------------------
(* Documents and requests                                                     *)

Moves(r, q) ==
    /\ req' \in [Requests -> Request] /\ req'[r] = q
    /\ \A o \in Requests \ {r} : req'[o] = req[o]

LEMMA RequestMoves ==
    ASSUME TypeOK, NEW r \in Requests, NEW q \in Request, req' = [req EXCEPT ![r] = q]
    PROVE  Moves(r, q)
BY DEF TypeOK, Moves

LEMMA EstimateType ==
    /\ NoEstimate \in Estimate /\ NoEstimate.project = None /\ ~NoEstimate.stripped
    /\ NoEstimate.total = 0 /\ NoEstimate.items = None
BY StaffingAssumption DEF NoEstimate, Estimate

LEMMA SumType == \A list \in Amounts \cup {None} : Sum(list) \in Amounts
BY StaffingAssumption DEF Sum

LEMMA IdleType ==
    /\ Idle \in Request /\ WellFormed(Idle)
    /\ Idle.pc = "idle" /\ Idle.doc = {} /\ Idle.p = None
<1>1. NoEstimate \in Estimate
  BY EstimateType
<1> HIDE DEF NoEstimate
<1>2. Idle \in Request /\ Idle.pc = "idle" /\ Idle.doc = {} /\ Idle.p = None
  BY <1>1 DEF Idle, Request
<1> QED
  BY <1>2, StaffingAssumption DEF WellFormed

LEMMA FinishMoves ==
    ASSUME TypeOK, NEW r \in Requests, Finish(r)
    PROVE  Moves(r, Idle)
BY IdleType, RequestMoves DEF Finish

LEMMA Typed ==
    ASSUME IndInv
    PROVE  /\ project \in [Projects -> Project] /\ seat \in [Seats -> Seat]
           /\ estimate \in [Estimates -> Estimate] /\ req \in [Requests -> Request]
           /\ \A r \in Requests : req[r] \in Request /\ WellFormed(req[r])
           /\ \A s \in Seats : seat[s] \in Seat
           /\ \A p \in Projects : project[p] \in Project
           /\ TypeOK
BY DEF IndInv, TypeOK

LEMMA OnwardThrough ==
    ASSUME NEW a \in Estimate, NEW b \in Estimate, NEW c \in Estimate, Onward(a, b), Onward(b, c)
    PROVE  Onward(a, c)
<1>1. a.v \in Nat /\ b.v \in Nat /\ c.v \in Nat
  BY DEF Estimate
<1> QED
  BY <1>1 DEF Onward

\* What has become of the estimates.
EstimatesMove ==
    /\ estimate' \in [Estimates -> Estimate] /\ TotalOfItems'
    /\ \A e \in Estimates : estimate[e].project # None => Onward(estimate[e], estimate'[e])

LEMMA EstimatesKeep ==
    ASSUME IndInv, UNCHANGED estimate
    PROVE  EstimatesMove
<1>1. \A d \in Estimate : Onward(d, d)
  BY DEF Onward, Estimate
<1> QED
  BY <1>1, Typed DEF EstimatesMove, IndInv, TotalOfItems

\* An estimate that has been read goes on.
LEMMA ReadsKeep ==
    ASSUME IndInv, EstimatesMove, NEW r \in Requests, req[r].pc = "estimate"
    PROVE  req[r].e \in Estimates /\ Onward(req[r].seen, estimate'[req[r].e])
<1>1. /\ req[r] \in Request /\ req[r].e \in Estimates /\ req[r].seen \in Estimate
      /\ Onward(req[r].seen, estimate[req[r].e]) /\ req[r].seen.project # None
  BY Typed DEF IndInv, WellFormed, Request
<1>2. estimate[req[r].e] \in Estimate /\ estimate'[req[r].e] \in Estimate /\ estimate[req[r].e].project # None
  BY <1>1, Typed DEF EstimatesMove, Onward
<1>3. Onward(estimate[req[r].e], estimate'[req[r].e])
  BY <1>1, <1>2 DEF EstimatesMove
<1> QED
  BY <1>1, <1>2, <1>3, OnwardThrough

\* Steps of one request: the invariant, part by part.
LEMMA RequestKeeps ==
    ASSUME IndInv, NEW r \in Requests, NEW q, Moves(r, q), WellFormed(q),
           q.pc = "estimate" => Onward(q.seen, estimate'[q.e]),
           project' \in [Projects -> Project],
           seat' \in [Seats -> Seat], ProjectOnRecord',
           EstimatesMove
    PROVE  IndInv'
<1>1. TypeOK'
  BY DEF TypeOK, Moves, EstimatesMove
<1>2. \A o \in Requests : WellFormed(req'[o])
  BY DEF IndInv, Moves
<1>3. \A o \in Requests : req'[o].pc = "estimate" => Onward(req'[o].seen, estimate'[req'[o].e])
  BY ReadsKeep DEF Moves
<1>4. \A o \in Requests : WellFormed(req[o])'
  BY <1>2 DEF WellFormed, Sum
<1>5. \A o \in Requests : (req[o].pc = "estimate" => Onward(req[o].seen, estimate[req[o].e]))'
  BY <1>3 DEF Onward
<1> QED
  BY <1>1, <1>4, <1>5 DEF IndInv, EstimatesMove

\* The staffings and assignments of all projects are as they were.
StaffKept == \A p \in Projects : /\ project'[p].staffing = project[p].staffing
                                 /\ project'[p].assigned = project[p].assigned

LEMMA ProjectsKeep ==
    ASSUME IndInv, UNCHANGED project
    PROVE  project' \in [Projects -> Project] /\ StaffKept
BY Typed DEF StaffKept

\* One project changes, and neither its staffing nor its assignments.
LEMMA StatusKeeps ==
    ASSUME IndInv, NEW p \in Projects, NEW d \in Project, project' = [project EXCEPT ![p] = d],
           d.staffing = project[p].staffing, d.assigned = project[p].assigned
    PROVE  project' \in [Projects -> Project] /\ StaffKept
BY Typed DEF StaffKept

\* The same update of the same project, begun with the same assignments.
Carries(r, q) ==
    /\ req[r].pc \in {"sync", "link"} /\ q.p = req[r].p
    /\ q.current = req[r].current /\ q.was = req[r].was

LEMMA SeatsKeep ==
    ASSUME IndInv, UNCHANGED seat
    PROVE  seat' \in [Seats -> Seat] /\ ProjectOnRecord'
BY Typed DEF IndInv, ProjectOnRecord

\* One seat changes, and what it says of itself is on its own record.
OnRecord(d) == d.project # None => \E i \in DOMAIN d.open : d.open[i].project = d.project

LEMMA SeatKeeps ==
    ASSUME IndInv, NEW s \in Seats, NEW d \in Seat, seat' = [seat EXCEPT ![s] = d], OnRecord(d)
    PROVE  /\ seat' \in [Seats -> Seat] /\ ProjectOnRecord'
           /\ seat'[s] = d /\ \A o \in Seats \ {s} : seat'[o] = seat[o]
<1>1. seat' \in [Seats -> Seat] /\ seat'[s] = d /\ \A o \in Seats \ {s} : seat'[o] = seat[o]
  BY Typed
<1>2. ProjectOnRecord'
  BY <1>1 DEF IndInv, ProjectOnRecord, OnRecord
<1> QED
  BY <1>1, <1>2

-----------------------------------------------------------------------------
(* The steps of a staffing update                                             *)

\* An update begins with the project's own assignments.
LEMMA StartMoves ==
    ASSUME IndInv, NEW r \in Requests, NEW p \in Projects, Start(r, p)
    PROVE  /\ Moves(r, req'[r]) /\ WellFormed(req'[r]) /\ req'[r].pc = "sync" /\ req'[r].p = p
           /\ req'[r].current /\ req'[r].was = project[p].assigned /\ req'[r].doc = project[p].assigned
<1>1. PICK posts \in Staffings :
         req' = [req EXCEPT ![r] = [Idle EXCEPT !.pc = "sync", !.p = p, !.todo = posts,
                                      !.was = project[p].assigned, !.doc = project[p].assigned]]
  BY DEF Start
<1>2. posts \in SUBSET Post /\ project[p].assigned \in SUBSET Assignment
  BY Typed DEF Staffings, Project
<1> DEFINE q == [Idle EXCEPT !.pc = "sync", !.p = p, !.todo = posts,
                   !.was = project[p].assigned, !.doc = project[p].assigned]
<1>3. /\ q \in Request /\ q.pc = "sync" /\ q.p = p /\ q.current
      /\ q.was = project[p].assigned /\ q.doc = project[p].assigned
  <2>1. NoEstimate \in Estimate
    BY EstimateType
  <2> HIDE DEF NoEstimate
  <2> QED
    BY <1>2, <2>1 DEF Idle, Request
<1> HIDE DEF q
<1>4. Moves(r, q) /\ req'[r] = q
  BY <1>1, <1>3, Typed, RequestMoves DEF q, Moves
<1> QED
  BY <1>3, <1>4 DEF WellFormed

LEMMA CreateStep ==
    ASSUME IndInv, NEW r \in Requests, NEW p \in Projects, Create(r, p) \/ Update(r, p)
    PROVE  /\ IndInv' /\ Moves(r, req'[r]) /\ req'[r].pc = "sync" /\ req'[r].p = p /\ Alone /\ UNCHANGED seat
           /\ req'[r].current /\ req'[r].was = project[p].assigned /\ req'[r].doc = project[p].assigned
           /\ StaffKept
<1>1. Start(r, p) /\ Alone /\ UNCHANGED <<seat, estimate>>
  BY DEF Create, Update, Start
<1>2. /\ Moves(r, req'[r]) /\ WellFormed(req'[r]) /\ req'[r].pc = "sync" /\ req'[r].p = p
      /\ req'[r].current /\ req'[r].was = project[p].assigned /\ req'[r].doc = project[p].assigned
  BY <1>1, StartMoves
<1>3. project' \in [Projects -> Project] /\ StaffKept
  <2>1. CASE Create(r, p)
    <3> DEFINE d == [project[p] EXCEPT !.status = "live"]
    <3>1. project' = [project EXCEPT ![p] = d]
      BY <2>1 DEF Create
    <3>2. d \in Project /\ d.staffing = project[p].staffing /\ d.assigned = project[p].assigned
      BY Typed DEF Project
    <3> QED
      BY <3>1, <3>2, StatusKeeps
  <2>2. CASE Update(r, p)
    BY <2>2, ProjectsKeep DEF Update
  <2> QED
    BY <2>1, <2>2
<1> QED
  BY <1>1, <1>2, <1>3, SeatsKeep, EstimatesKeep, RequestKeeps

\* A seat that is cleared of the project keeps any other on its record.
LEMMA ClearStep ==
    ASSUME IndInv, NEW r \in Requests, Clear(r)
    PROVE  /\ IndInv' /\ Moves(r, req'[r]) /\ req[r].pc = "sync" /\ req'[r].pc = "sync"
           /\ Carries(r, req'[r]) /\ req'[r].doc \subseteq req[r].doc /\ StaffKept
           /\ \A s \in Seats : seat'[s].project \in {None, seat[s].project} /\ seat'[s].user = seat[s].user
<1>1. PICK x \in Superfluous(r) :
         /\ seat' = [seat EXCEPT ![x.seat].project = IF @ = req[r].p THEN None ELSE @,
                                 ![x.seat].open = CloseLast(@, {h \in Range(@) : h.project = req[r].p})]
         /\ req' = [req EXCEPT ![r].doc = @ \ {x}]
  BY DEF Clear
<1>2. /\ req[r].pc = "sync" /\ req[r] \in Request /\ WellFormed(req[r]) /\ UNCHANGED <<project, estimate>>
  BY Typed DEF Clear
<1>3. x \in Assignment /\ x.seat \in Seats /\ x \in req[r].doc /\ req[r].p \in Projects
  BY <1>2 DEF Superfluous, Request, Assignment, WellFormed
<1> DEFINE t == x.seat
           p == req[r].p
           mine == {h \in Range(seat[t].open) : h.project = p}
           now == IF seat[t].project = p THEN None ELSE seat[t].project
           m == [seat[t] EXCEPT !.project = now]
           d == [m EXCEPT !.open = CloseLast(seat[t].open, mine)]
           q == [req[r] EXCEPT !.doc = @ \ {x}]
<1>4. seat' = [seat EXCEPT ![t] = d]
  BY <1>1, <1>3, Typed
<1>5. seat[t] \in Seat /\ seat[t].open \in Seq(Entry)
  BY <1>3, Typed DEF Seat, Entry
<1>6. m \in Seat /\ m.project = now /\ m.user = seat[t].user /\ now \in {None, seat[t].project}
  BY <1>5 DEF Seat
<1>7. /\ CloseLast(seat[t].open, mine) \in Seq(Entry)
      /\ \A i \in DOMAIN seat[t].open : seat[t].open[i] \notin mine =>
            \E j \in DOMAIN CloseLast(seat[t].open, mine) : CloseLast(seat[t].open, mine)[j] = seat[t].open[i]
  <2> HIDE DEF mine, t
  <2> QED
    BY <1>5, ClosedType
<1> HIDE DEF m
<1>8. d \in Seat /\ d.project = now /\ d.user = seat[t].user /\ d.open = CloseLast(seat[t].open, mine)
  <2> HIDE DEF mine, now, t
  <2> QED
    BY <1>6, <1>7 DEF Seat, Entry
<1> HIDE DEF d
<1>9. OnRecord(d)
  <2> SUFFICES ASSUME d.project # None PROVE \E j \in DOMAIN d.open : d.open[j].project = d.project
    BY DEF OnRecord
  <2>1. seat[t].project # p /\ d.project = seat[t].project
    BY <1>8
  <2>2. PICK i \in DOMAIN seat[t].open : seat[t].open[i].project = seat[t].project
    BY <1>3, <1>8, <2>1 DEF IndInv, ProjectOnRecord
  <2>3. seat[t].open[i] \notin mine
    BY <2>1, <2>2
  <2> HIDE DEF mine
  <2> QED
    BY <1>7, <1>8, <2>1, <2>2, <2>3
<1>10. /\ seat' \in [Seats -> Seat] /\ ProjectOnRecord'
       /\ seat'[t] = d /\ \A o \in Seats \ {t} : seat'[o] = seat[o]
  BY <1>3, <1>4, <1>8, <1>9, SeatKeeps
<1>11. q \in Request /\ q.pc = "sync" /\ Carries(r, q) /\ q.doc \subseteq req[r].doc
  BY <1>2 DEF Request, Carries
<1>12. req' = [req EXCEPT ![r] = q]
  BY <1>1, Typed
<1> HIDE DEF q
<1>13. Moves(r, q) /\ req'[r] = q /\ WellFormed(q)
  BY <1>2, <1>11, <1>12, Typed, RequestMoves DEF Moves, WellFormed, Carries
<1>14. IndInv'
  BY <1>2, <1>10, <1>11, <1>13, ProjectsKeep, EstimatesKeep, RequestKeeps
<1> QED
  BY <1>2, <1>6, <1>8, <1>10, <1>11, <1>13, <1>14, ProjectsKeep

\* A request that is about to link a seat.
Links(r, s, y) == req' = [req EXCEPT ![r].pc = "link", ![r].seat = s, ![r].post = y]

LEMMA LinksMoves ==
    ASSUME IndInv, NEW r \in Requests, req[r].pc = "sync", NEW s \in Seats, NEW y \in Missing(r), Links(r, s, y)
    PROVE  /\ Moves(r, req'[r]) /\ WellFormed(req'[r])
           /\ req'[r].pc = "link" /\ req'[r].seat = s /\ req'[r].p = req[r].p
           /\ Carries(r, req'[r]) /\ req'[r].doc = req[r].doc
           /\ \A x \in req[r].doc : PostOf(x) # req'[r].post
<1> DEFINE q == [req[r] EXCEPT !.pc = "link", !.seat = s, !.post = y]
<1>1. req[r] \in Request /\ y \in Post /\ (\A x \in req[r].doc : PostOf(x) # y) /\ WellFormed(req[r])
  BY Typed DEF Missing, Request
<1>2. /\ q \in Request /\ q.pc = "link" /\ q.seat = s /\ q.post = y
      /\ q.p = req[r].p /\ q.doc = req[r].doc /\ Carries(r, q)
  BY <1>1 DEF Request, Carries
<1>3. req' = [req EXCEPT ![r] = q]
  BY Typed DEF Links
<1> HIDE DEF q
<1>4. Moves(r, q) /\ req'[r] = q
  BY <1>2, <1>3, Typed, RequestMoves DEF Moves
<1>5. WellFormed(q)
  BY <1>1, <1>2 DEF WellFormed
<1> QED
  BY <1>1, <1>2, <1>4, <1>5

\* The seat found is free or the project's, or comes out of the pool.
LEMMA FindStep ==
    ASSUME IndInv, NEW r \in Requests, Find(r)
    PROVE  /\ IndInv' /\ Moves(r, req'[r]) /\ req[r].pc = "sync" /\ StaffKept
           /\ req'[r] # Idle => /\ Carries(r, req'[r]) /\ req'[r].doc = req[r].doc
                                /\ \A x \in req[r].doc : PostOf(x) # req'[r].post
           /\ \/ req'[r] = Idle /\ UNCHANGED seat
              \/ /\ req'[r].pc = "link" /\ UNCHANGED seat
                 /\ seat[req'[r].seat].project \in {None, req'[r].p}
              \/ \E s \in Seats :
                   /\ req'[r].pc = "link" /\ req'[r].seat = s
                   /\ seat[s].user = None /\ seat'[s].user # None /\ seat'[s].project = seat[s].project
                   /\ \A o \in Seats \ {s} : seat'[o] = seat[o]
<1>1. req[r].pc = "sync" /\ UNCHANGED <<project, estimate>> /\ StaffKept
  BY ProjectsKeep DEF Find
<1>2. PICK y \in Missing(r) :
         \/ /\ \E s \in SeatOf(y.person) :
                 req' = IF seat[s].project \in {None, req[r].p}
                        THEN [req EXCEPT ![r].pc = "link", ![r].seat = s, ![r].post = y]
                        ELSE [req EXCEPT ![r] = Idle]
            /\ UNCHANGED seat
         \/ /\ SeatOf(y.person) = {}
            /\ \E s \in SeatOf(None) :
                 /\ seat' = [seat EXCEPT ![s].user = y.person]
                 /\ req' = [req EXCEPT ![r].pc = "link", ![r].seat = s, ![r].post = y]
         \/ /\ SeatOf(y.person) \cup SeatOf(None) = {}
            /\ Finish(r) /\ UNCHANGED seat
  BY DEF Find
<1>3. y.person \in Persons /\ None \notin Persons
  BY Typed, StaffingAssumption DEF Missing, Request, Post, Persons
<1>4. ASSUME Finish(r), UNCHANGED seat
      PROVE  IndInv' /\ Moves(r, req'[r]) /\ req'[r] = Idle
  <2>1. Moves(r, Idle) /\ req'[r] = Idle
    BY <1>4, Typed, FinishMoves DEF Moves
  <2> QED
    BY <1>1, <1>4, <2>1, IdleType, ProjectsKeep, SeatsKeep, EstimatesKeep, RequestKeeps
<1>5. CASE /\ \E s \in SeatOf(y.person) :
                 req' = IF seat[s].project \in {None, req[r].p}
                        THEN [req EXCEPT ![r].pc = "link", ![r].seat = s, ![r].post = y]
                        ELSE [req EXCEPT ![r] = Idle]
           /\ UNCHANGED seat
  <2>1. PICK s \in Seats :
           req' = IF seat[s].project \in {None, req[r].p}
                        THEN [req EXCEPT ![r].pc = "link", ![r].seat = s, ![r].post = y]
                        ELSE [req EXCEPT ![r] = Idle]
    BY <1>5 DEF SeatOf
  <2>2. CASE seat[s].project \in {None, req[r].p}
    <3>1. Links(r, s, y)
      BY <2>1, <2>2 DEF Links
    <3>2. /\ Moves(r, req'[r]) /\ WellFormed(req'[r])
          /\ req'[r].pc = "link" /\ req'[r].seat = s /\ req'[r].p = req[r].p
          /\ Carries(r, req'[r]) /\ req'[r].doc = req[r].doc
          /\ \A x \in req[r].doc : PostOf(x) # req'[r].post
      BY <1>1, <3>1, LinksMoves
    <3>3. IndInv'
      BY <1>1, <1>5, <3>2, ProjectsKeep, SeatsKeep, EstimatesKeep, RequestKeeps
    <3> QED
      BY <1>1, <1>5, <2>2, <3>2, <3>3
  <2>3. CASE seat[s].project \notin {None, req[r].p}
    <3>1. Finish(r)
      BY <2>1, <2>3 DEF Finish
    <3> QED
      BY <1>1, <1>4, <1>5, <3>1
  <2> QED
    BY <2>2, <2>3
<1>6. CASE \E s \in SeatOf(None) :
                 /\ seat' = [seat EXCEPT ![s].user = y.person]
                 /\ req' = [req EXCEPT ![r].pc = "link", ![r].seat = s, ![r].post = y]
  <2>1. PICK s \in Seats :
           /\ seat[s].user = None
           /\ seat' = [seat EXCEPT ![s].user = y.person]
           /\ Links(r, s, y)
    BY <1>6 DEF SeatOf, Links
  <2>2. /\ Moves(r, req'[r]) /\ WellFormed(req'[r])
        /\ req'[r].pc = "link" /\ req'[r].seat = s /\ req'[r].p = req[r].p
        /\ Carries(r, req'[r]) /\ req'[r].doc = req[r].doc
        /\ \A x \in req[r].doc : PostOf(x) # req'[r].post
    BY <1>1, <2>1, LinksMoves
  <2> DEFINE d == [seat[s] EXCEPT !.user = y.person]
  <2>3. /\ seat[s] \in Seat /\ d \in Seat /\ d.user = y.person
        /\ d.project = seat[s].project /\ d.open = seat[s].open
    BY <1>3, Typed DEF Seat
  <2>4. seat' = [seat EXCEPT ![s] = d]
    BY <2>1, Typed
  <2> HIDE DEF d
  <2>5. OnRecord(d)
    BY <2>3 DEF OnRecord, IndInv, ProjectOnRecord
  <2>6. /\ seat' \in [Seats -> Seat] /\ ProjectOnRecord'
        /\ seat'[s] = d /\ \A o \in Seats \ {s} : seat'[o] = seat[o]
    BY <2>3, <2>4, <2>5, SeatKeeps
  <2>7. IndInv'
    BY <1>1, <2>2, <2>6, ProjectsKeep, EstimatesKeep, RequestKeeps
  <2> QED
    BY <1>1, <1>3, <2>1, <2>2, <2>3, <2>6, <2>7
<1>7. CASE Finish(r) /\ UNCHANGED seat
  BY <1>1, <1>4, <1>7
<1> QED
  BY <1>2, <1>5, <1>6, <1>7

\* The project goes on the seat and on its record together.
LEMMA LinkStep ==
    ASSUME IndInv, NEW r \in Requests, Link(r)
    PROVE  /\ IndInv' /\ Moves(r, req'[r]) /\ req[r].pc = "link" /\ req'[r].pc \in {"sync", "idle"}
           /\ req[r].seat \in Seats
           /\ \A s \in Seats : \/ seat'[s] = seat[s]
                               \/ s = req[r].seat /\ seat'[s].project = req[r].p /\ seat'[s].user # None
           /\ StaffKept
           /\ req'[r].pc = "sync" =>
                 /\ Carries(r, req'[r])
                 /\ \E a : req'[r].doc = req[r].doc \cup {a} /\ PostOf(a) = req[r].post
<1> DEFINE s == req[r].seat
           p == req[r].p
           y == req[r].post
<1>1. /\ req[r].pc = "link" /\ s \in Seats /\ p \in Projects /\ y \in Post /\ UNCHANGED <<project, estimate>>
      /\ req[r] \in Request /\ WellFormed(req[r]) /\ seat[s] \in Seat /\ StaffKept
  BY Typed, ProjectsKeep DEF Link, WellFormed
<1>2. CASE seat[s].user = None
  <2>1. Moves(r, Idle) /\ req'[r] = Idle /\ UNCHANGED seat
    BY <1>2, Typed, FinishMoves DEF Link, Moves
  <2>2. IndInv'
    BY <1>1, <2>1, IdleType, ProjectsKeep, SeatsKeep, EstimatesKeep, RequestKeeps
  <2> QED
    BY <1>1, <2>1, <2>2, IdleType
<1>3. CASE seat[s].user # None
  <2> DEFINE a == [person |-> y.person, role |-> y.role, seat |-> s]
             u == seat[s].user
             o == Opened(u, seat[s].open, p)
             m == [seat[s] EXCEPT !.project = p]
             d == [m EXCEPT !.open = o]
             n == [req[r] EXCEPT !.pc = "sync", !.seat = None, !.post = None]
             q == [n EXCEPT !.doc = @ \cup {a}]
  <2>1. /\ seat' = [seat EXCEPT ![s].project = p, ![s].open = Opened(u, @, p)]
        /\ req' = [req EXCEPT ![r].pc = "sync", ![r].seat = None, ![r].post = None, ![r].doc = @ \cup {a}]
    BY <1>3 DEF Link
  <2>2. seat' = [seat EXCEPT ![s] = d] /\ req' = [req EXCEPT ![r] = q]
    BY <1>1, <2>1, Typed, ZenonT(30)
  <2>3. u \in Persons /\ seat[s].open \in Seq(Entry)
    BY <1>1, <1>3 DEF Seat, Entry
  <2>4. o \in Seq(Entry) /\ \E i \in DOMAIN o : o[i].project = p
    <3> HIDE DEF u, s, p
    <3> QED
      BY <1>1, <2>3, OpenedType
  <2> HIDE DEF o
  <2>5. m \in Seat /\ m.user = u /\ m.project = p
    BY <1>1 DEF Seat
  <2> HIDE DEF m
  <2>6. d \in Seat /\ d.user = u /\ d.project = p /\ d.open = o
    BY <2>4, <2>5 DEF Seat, Entry
  <2> HIDE DEF d
  <2>7. /\ seat' \in [Seats -> Seat] /\ ProjectOnRecord'
        /\ seat'[s] = d /\ \A z \in Seats \ {s} : seat'[z] = seat[z]
    <3>1. OnRecord(d)
      BY <2>4, <2>6 DEF OnRecord
    <3> HIDE DEF s
    <3> QED
      BY <1>1, <2>2, <2>6, <3>1, SeatKeeps
  <2>8. a \in Assignment /\ PostOf(a) = y
    BY <1>1 DEF Assignment, Post, PostOf
  <2>9. n \in Request /\ n.pc = "sync" /\ n.p = p /\ n.doc = req[r].doc /\ Carries(r, n)
    BY <1>1 DEF Request, Carries
  <2> HIDE DEF a, n
  <2>10. q \in Request /\ q.pc = "sync" /\ q.p = p /\ q.doc = req[r].doc \cup {a} /\ Carries(r, q)
    BY <2>8, <2>9 DEF Request, Carries
  <2> HIDE DEF q
  <2>11. Moves(r, q) /\ req'[r] = q
    BY <2>2, <2>10, Typed, RequestMoves DEF Moves
  <2>12. WellFormed(q)
    BY <1>1, <2>10 DEF WellFormed
  <2>13. IndInv'
    BY <1>1, <2>7, <2>10, <2>11, <2>12, ProjectsKeep, EstimatesKeep, RequestKeeps
  <2>14. None \notin Persons
    BY StaffingAssumption DEF Persons
  <2> QED
    BY <1>1, <2>3, <2>6, <2>7, <2>8, <2>10, <2>11, <2>13, <2>14
<1> QED
  BY <1>2, <1>3

\* A save leaves the others their own, but for whether what they have read still
\* is what there is.
LEMMA SaveStep ==
    ASSUME IndInv, NEW r \in Requests, Save(r)
    PROVE  /\ IndInv' /\ UNCHANGED seat /\ Staffs(r)
           /\ req'[r] = Idle /\ req' \in [Requests -> Request]
           /\ \A o \in Requests \ {r} : ~Staffs(o) => req'[o] = req[o]
<1> DEFINE q == req[r]
           removed == q.was \ q.doc
           pushed == q.doc \ q.was
           now == project[q.p].assigned
           all == IF removed # {} /\ pushed # {} THEN q.doc ELSE (now \ removed) \cup pushed
           still(o) == req[o].current /\ (req[o].p = q.p => pushed = {})
           m == [project[q.p] EXCEPT !.staffing = q.todo]
           d == [m EXCEPT !.assigned = all]
<1>1. /\ q.pc = "sync" /\ UNCHANGED <<seat, estimate>> /\ q \in Request /\ WellFormed(q) /\ q.p \in Projects
      /\ \/ Finish(r) /\ UNCHANGED project
         \/ /\ project' = [project EXCEPT ![q.p].staffing = q.todo, ![q.p].assigned = all]
            /\ req' = [o \in Requests |-> IF o = r THEN Idle ELSE [req[o] EXCEPT !.current = still(o)]]
  BY Typed DEF Save, WellFormed
<1>2. CASE Finish(r) /\ UNCHANGED project
  <2>1. Moves(r, Idle)
    BY <1>2, Typed, FinishMoves
  <2> QED
    BY <1>1, <1>2, <2>1, IdleType, ProjectsKeep, SeatsKeep, EstimatesKeep, RequestKeeps DEF Moves, Staffs
<1>3. CASE /\ project' = [project EXCEPT ![q.p].staffing = q.todo, ![q.p].assigned = all]
           /\ req' = [o \in Requests |-> IF o = r THEN Idle ELSE [req[o] EXCEPT !.current = still(o)]]
  <2>1. project[q.p] \in Project /\ q.todo \in SUBSET Post /\ all \in SUBSET Assignment
    BY <1>1, Typed DEF Project, Request
  <2>2. project' \in [Projects -> Project]
    <3>1. project' = [project EXCEPT ![q.p] = d]
      BY <1>1, <1>3, Typed
    <3> HIDE DEF q, all
    <3>2. m \in Project
      BY <2>1 DEF Project
    <3> HIDE DEF m
    <3>3. d \in Project
      BY <2>1, <3>2 DEF Project
    <3> HIDE DEF d
    <3> QED
      BY <1>1, <3>1, <3>3, Typed
  <2>3. req'[r] = Idle /\ \A o \in Requests \ {r} : req'[o] = [req[o] EXCEPT !.current = still(o)]
    BY <1>3
  <2>4. ASSUME NEW o \in Requests \ {r}
        PROVE  /\ req'[o] \in Request /\ WellFormed(req'[o])
               /\ req'[o].pc = req[o].pc /\ req'[o].seen = req[o].seen /\ req'[o].e = req[o].e
               /\ ~Staffs(o) => req'[o] = req[o]
    <3>1. /\ req[o] \in Request /\ WellFormed(req[o]) /\ still(o) \in BOOLEAN
          /\ req'[o] = [req[o] EXCEPT !.current = still(o)]
      BY <2>3, Typed DEF Request
    <3>2. ~Staffs(o) => still(o) = req[o].current
      BY <1>1, <3>1 DEF Staffs, WellFormed, Request
    <3> HIDE DEF still
    <3>3. /\ req'[o] \in Request /\ req'[o].pc = req[o].pc /\ req'[o].p = req[o].p
          /\ req'[o].seat = req[o].seat /\ req'[o].post = req[o].post /\ req'[o].e = req[o].e
          /\ req'[o].change = req[o].change /\ req'[o].seen = req[o].seen
      BY <3>1 DEF Request
    <3>4. still(o) = req[o].current => req'[o] = req[o]
      BY <3>1 DEF Request
    <3> QED
      BY <3>1, <3>2, <3>3, <3>4 DEF WellFormed
  <2>5. req' \in [Requests -> Request]
    <3>1. \A o \in Requests : req'[o] \in Request
      BY <2>3, <2>4, IdleType
    <3>2. req' = [o \in Requests |-> req'[o]]
      BY <1>3
    <3> QED
      BY <3>1, <3>2
  <2>6. ProjectOnRecord' /\ seat' \in [Seats -> Seat] /\ EstimatesMove
    BY <1>1, SeatsKeep, EstimatesKeep
  <2>7. TypeOK'
    BY <2>2, <2>5, <2>6 DEF TypeOK, EstimatesMove
  <2>8. \A o \in Requests : WellFormed(req'[o]) /\ (req'[o].pc = "estimate" => Onward(req'[o].seen, estimate'[req'[o].e]))
    BY <2>3, <2>4, <2>6, IdleType, ReadsKeep
  <2>9. /\ \A o \in Requests : WellFormed(req[o])'
        /\ \A o \in Requests : (req[o].pc = "estimate" => Onward(req[o].seen, estimate[req[o].e]))'
    BY <2>8 DEF WellFormed, Sum, Onward
  <2>10. IndInv'
    BY <2>6, <2>7, <2>9 DEF IndInv, EstimatesMove
  <2> QED
    BY <1>1, <2>3, <2>4, <2>5, <2>10 DEF Staffs
<1> QED
  BY <1>1, <1>2, <1>3

LEMMA DieStep ==
    ASSUME IndInv, NEW r \in Requests, Die(r)
    PROVE  IndInv' /\ Moves(r, Idle) /\ UNCHANGED seat /\ StaffKept
<1>1. Moves(r, Idle) /\ UNCHANGED <<project, seat, estimate>>
  BY Typed, FinishMoves DEF Die
<1> QED
  BY <1>1, IdleType, ProjectsKeep, SeatsKeep, EstimatesKeep, RequestKeeps

\* Steps without a request
LEMMA NoRequestKeeps ==
    ASSUME IndInv, UNCHANGED req,
           project' \in [Projects -> Project],
           seat' \in [Seats -> Seat], ProjectOnRecord',
           EstimatesMove
    PROVE  IndInv'
<1>1. TypeOK'
  BY DEF IndInv, TypeOK, EstimatesMove
<1>2. \A r \in Requests : WellFormed(req[r])'
  BY DEF IndInv, WellFormed, Sum
<1>3. \A r \in Requests : (req[r].pc = "estimate" => Onward(req[r].seen, estimate[req[r].e]))'
  BY ReadsKeep DEF Onward
<1> QED
  BY <1>1, <1>2, <1>3 DEF IndInv, EstimatesMove

\* archive, unarchive and holds leave staffing and seats alone.
LEMMA StatusStep ==
    ASSUME IndInv, NEW p \in Projects, Archive(p) \/ Unarchive(p) \/ SetHold(p)
    PROVE  IndInv' /\ UNCHANGED <<seat, req>> /\ StaffKept
<1>1. UNCHANGED <<seat, estimate, req>>
  BY DEF Archive, Unarchive, SetHold
<1>2. PICK d \in Project : /\ project' = [project EXCEPT ![p] = d]
                           /\ d.staffing = project[p].staffing /\ d.assigned = project[p].assigned
  <2>1. project[p] \in Project
    BY Typed
  <2>2. CASE Archive(p)
    <3> DEFINE d == [project[p] EXCEPT !.status = "archived"]
    <3>1. d \in Project /\ d.staffing = project[p].staffing /\ d.assigned = project[p].assigned
      BY <2>1 DEF Project
    <3>2. project' = [project EXCEPT ![p] = d]
      BY <2>2 DEF Archive
    <3> HIDE DEF d
    <3> QED
      BY <3>1, <3>2
  <2>3. CASE Unarchive(p)
    <3> DEFINE d == [project[p] EXCEPT !.status = "live"]
    <3>1. d \in Project /\ d.staffing = project[p].staffing /\ d.assigned = project[p].assigned
      BY <2>1 DEF Project
    <3>2. project' = [project EXCEPT ![p] = d]
      BY <2>3 DEF Unarchive
    <3> HIDE DEF d
    <3> QED
      BY <3>1, <3>2
  <2>4. CASE SetHold(p)
    <3> DEFINE d == [project[p] EXCEPT !.hold = ~@]
    <3>1. d \in Project /\ d.staffing = project[p].staffing /\ d.assigned = project[p].assigned
      BY <2>1 DEF Project
    <3>2. project' = [project EXCEPT ![p] = d]
      BY <2>4 DEF SetHold
    <3> HIDE DEF d
    <3> QED
      BY <3>1, <3>2
  <2> QED
    BY <2>2, <2>3, <2>4
<1> QED
  BY <1>1, <1>2, StatusKeeps, SeatsKeep, EstimatesKeep, NoRequestKeeps

\* A released seat is at work on nothing.
LEMMA ReleaseStep ==
    ASSUME IndInv, NEW s \in Seats, Release(s)
    PROVE  /\ IndInv' /\ UNCHANGED req /\ StaffKept
           /\ seat'[s].project = None /\ \A o \in Seats \ {s} : seat'[o] = seat[o]
<1> DEFINE open == seat[s].open
           mine == {h \in Range(open) : h.user = seat[s].user}
           d == [VacantSeat EXCEPT !.open = CloseLast(open, mine)]
<1>1. UNCHANGED <<project, estimate, req>> /\ seat' = [seat EXCEPT ![s] = d]
  BY DEF Release
<1>2. open \in Seq(Entry)
  BY Typed DEF Seat, Entry
<1>3. CloseLast(open, mine) \in Seq(Entry)
  <2> HIDE DEF open, mine
  <2> QED
    BY <1>2, ClosedType
<1>4. d \in Seat /\ d.project = None
  <2> HIDE DEF open, mine
  <2> QED
    BY <1>3 DEF VacantSeat, Seat, Entry
<1> HIDE DEF d
<1>5. /\ seat' \in [Seats -> Seat] /\ ProjectOnRecord'
      /\ seat'[s] = d /\ \A o \in Seats \ {s} : seat'[o] = seat[o]
  BY <1>1, <1>4, SeatKeeps DEF OnRecord
<1> QED
  BY <1>1, <1>4, <1>5, ProjectsKeep, EstimatesKeep, NoRequestKeeps

-----------------------------------------------------------------------------
(* The steps of an estimate                                                   *)

InOrder(d) == ~d.stripped => d.total = Sum(d.items)

LEMMA EstimateKeeps ==
    ASSUME IndInv, NEW e \in Estimates, NEW d \in Estimate, InOrder(d),
           estimate[e].project # None => Onward(estimate[e], d),
           estimate' = [estimate EXCEPT ![e] = d]
    PROVE  EstimatesMove
<1>1. estimate' \in [Estimates -> Estimate] /\ estimate'[e] = d /\ \A o \in Estimates \ {e} : estimate'[o] = estimate[o]
  BY Typed
<1>2. \A o \in Estimates : Onward(estimate[o], estimate[o])
  BY Typed DEF Onward, Estimate
<1>3. TotalOfItems'
  BY <1>1 DEF IndInv, TotalOfItems, InOrder, Sum
<1>4. \A o \in Estimates : estimate[o].project # None => Onward(estimate[o], estimate'[o])
  BY <1>1, <1>2
<1> QED
  BY <1>1, <1>3, <1>4 DEF EstimatesMove

LEMMA EstimateCreateStep ==
    ASSUME IndInv, NEW e \in Estimates, EstimateCreate(e)
    PROVE  IndInv' /\ UNCHANGED <<seat, req>> /\ StaffKept
<1>1. UNCHANGED <<project, seat, req>> /\ estimate[e].project = None
  BY DEF EstimateCreate
<1>2. PICK p \in Projects, list \in Amounts \cup {None} :
         estimate' = [estimate EXCEPT ![e] = [NoEstimate EXCEPT !.project = p, !.items = list, !.total = Sum(list)]]
  BY DEF EstimateCreate
<1> DEFINE d == [NoEstimate EXCEPT !.project = p, !.items = list, !.total = Sum(list)]
<1>3. d \in Estimate /\ InOrder(d)
  <2>1. NoEstimate \in Estimate /\ Sum(list) \in Amounts
    BY EstimateType, SumType
  <2> HIDE DEF NoEstimate, Sum
  <2> QED
    BY <2>1 DEF Estimate, InOrder
<1>4. estimate' = [estimate EXCEPT ![e] = d]
  BY <1>2
<1> HIDE DEF d
<1>5. EstimatesMove
  BY <1>1, <1>3, <1>4, EstimateKeeps
<1> QED
  BY <1>1, <1>5, ProjectsKeep, SeatsKeep, NoRequestKeeps

LEMMA EstimateLoadStep ==
    ASSUME IndInv, NEW r \in Requests, NEW e \in Estimates, EstimateLoad(r, e)
    PROVE  IndInv' /\ Moves(r, req'[r]) /\ UNCHANGED seat /\ req'[r].pc = "estimate" /\ StaffKept
<1>1. UNCHANGED <<project, seat, estimate>>
  BY DEF EstimateLoad
<1> DEFINE doc == estimate[e]
<1>2. PICK change \in Changes, list \in Amounts \cup {None} :
         req' = [req EXCEPT ![r] = [Idle EXCEPT !.pc = "estimate", !.e = e, !.change = change,
                                      !.list = list, !.seen = doc]]
  BY DEF EstimateLoad
<1>3. /\ doc \in Estimate /\ (~doc.stripped => doc.total = Sum(doc.items)) /\ doc.project # None
      /\ Onward(doc, doc)
  BY Typed DEF IndInv, TotalOfItems, EstimateLoad, Onward, Estimate
<1>4. Onward(doc, estimate'[e])
  BY <1>1, <1>3
<1> HIDE DEF doc
<1> DEFINE q == [Idle EXCEPT !.pc = "estimate", !.e = e, !.change = change, !.list = list, !.seen = doc]
<1>5. /\ q \in Request /\ q.pc = "estimate" /\ q.e = e /\ q.change = change /\ q.seen = doc /\ q.p = None
  <2>1. NoEstimate \in Estimate
    BY EstimateType
  <2> HIDE DEF NoEstimate
  <2> QED
    BY <1>3, <2>1 DEF Idle, Request
<1>6. req' = [req EXCEPT ![r] = q]
  BY <1>2
<1> HIDE DEF q
<1>7. Moves(r, q) /\ req'[r] = q /\ WellFormed(q)
  BY <1>3, <1>5, <1>6, Typed, RequestMoves, StaffingAssumption DEF Moves, WellFormed
<1> QED
  BY <1>1, <1>4, <1>5, <1>7, ProjectsKeep, SeatsKeep, EstimatesKeep, RequestKeeps

\* What a save makes of an estimate that has the __v that was read, or whose
\* items it does not replace.
LEMMA ChangedType ==
    ASSUME NEW q \in Request, NEW now \in Estimate, WellFormed(q), q.pc = "estimate",
           Onward(q.seen, now), InOrder(now),
           Replaces(q) => now.v < MaxVersion /\ now.v = q.seen.v
    PROVE  Changed(q, now) \in Estimate /\ InOrder(Changed(q, now)) /\ Onward(now, Changed(q, now))
<1> DEFINE its == IF Replaces(q) THEN q.list ELSE now.items
           ver == IF Replaces(q) THEN now.v + 1 ELSE now.v
           m == [now EXCEPT !.items = its, !.v = ver]
           sum == IF q.seen.total = Sum(q.list) THEN now.total ELSE Sum(q.list)
           st == IF q.seen.status = q.change THEN now.status ELSE q.change
           un == IF q.seen.status = "archived" THEN "draft" ELSE now.status
<1>1. /\ q.seen \in Estimate /\ q.list \in Amounts \cup {None} /\ q.change \in Changes
      /\ (~q.seen.stripped => q.seen.total = Sum(q.seen.items)) /\ Sum(q.list) \in Amounts
  BY SumType DEF Request, WellFormed
<1>2. /\ its \in Amounts \cup {None} /\ ver \in 0 .. MaxVersion /\ now.v <= ver
      /\ ver = now.v => its = now.items
  BY <1>1, StaffingAssumption DEF Estimate
<1>3. /\ m \in Estimate /\ m.items = its /\ m.v = ver /\ m.total = now.total
      /\ m.stripped = now.stripped /\ m.project = now.project
  <2> HIDE DEF its, ver
  <2> QED
    BY <1>2 DEF Estimate
<1>4. CASE q.change = "items"
  <2> DEFINE d == [m EXCEPT !.total = sum]
  <2>1. Changed(q, now) = d
    BY <1>4 DEF Changed
  <2>2. sum \in Amounts
    BY <1>1 DEF Estimate
  <2>3. ~now.stripped => sum = Sum(its) /\ (ver = now.v => sum = now.total)
    <3> SUFFICES ASSUME ~now.stripped PROVE sum = Sum(its) /\ (ver = now.v => sum = now.total)
      OBVIOUS
    <3>1. q.seen.total = Sum(q.seen.items) /\ now.total = Sum(now.items)
      BY <1>1 DEF Onward, InOrder
    <3>2. CASE Replaces(q)
      <4>1. now.total = q.seen.total
        BY <3>2 DEF Onward
      <4>2. its = q.list /\ ver # now.v
        BY <3>2 DEF Estimate
      <4> QED
        BY <4>1, <4>2
    <3>3. CASE ~Replaces(q)
      <4>1. q.seen.items = None /\ q.list = None
        BY <1>4, <3>3 DEF Replaces
      <4>2. sum = now.total /\ its = now.items
        BY <3>1, <3>3, <4>1
      <4> QED
        BY <3>1, <4>2
    <3> QED
      BY <3>2, <3>3
  <2> HIDE DEF sum, m, its, ver
  <2>4. d \in Estimate /\ d.items = its /\ d.v = ver /\ d.total = sum
        /\ d.stripped = now.stripped /\ d.project = now.project
    BY <1>3, <2>2 DEF Estimate
  <2> QED
    BY <1>2, <2>1, <2>3, <2>4 DEF InOrder, Onward
<1>5. CASE q.change = "strip"
  <2> DEFINE d == [m EXCEPT !.stripped = TRUE]
  <2>1. Changed(q, now) = d
    BY <1>5 DEF Changed
  <2> HIDE DEF m, its, ver
  <2>2. d \in Estimate /\ d.items = its /\ d.v = ver /\ d.stripped /\ d.project = now.project
    BY <1>3 DEF Estimate
  <2> HIDE DEF d
  <2> QED
    BY <1>2, <2>1, <2>2 DEF InOrder, Onward
<1>6. ASSUME NEW d \in Estimate, d.items = now.items, d.total = now.total, d.v = now.v,
             d.stripped = now.stripped, d.project = now.project
      PROVE  InOrder(d) /\ Onward(now, d)
  BY <1>6 DEF InOrder, Onward, Estimate
<1>7. CASE q.change \in {"final", "draft"}
  <2> DEFINE d == [now EXCEPT !.status = st]
  <2>1. Changed(q, now) = d
    BY <1>7 DEF Changed
  <2>2. st \in {"draft", "final", "archived"}
    BY <1>7 DEF Estimate
  <2> HIDE DEF st
  <2>3. /\ d \in Estimate /\ d.items = now.items /\ d.total = now.total /\ d.v = now.v
        /\ d.stripped = now.stripped /\ d.project = now.project
    BY <2>2 DEF Estimate
  <2> HIDE DEF d
  <2> QED
    BY <1>6, <2>1, <2>3
<1>8. CASE q.change = "archive"
  <2> DEFINE d == [now EXCEPT !.archived = TRUE, !.status = "archived"]
  <2>1. Changed(q, now) = d
    BY <1>8 DEF Changed
  <2>2. /\ d \in Estimate /\ d.items = now.items /\ d.total = now.total /\ d.v = now.v
        /\ d.stripped = now.stripped /\ d.project = now.project
    BY DEF Estimate
  <2> HIDE DEF d
  <2> QED
    BY <1>6, <2>1, <2>2
<1>9. CASE q.change = "unarchive"
  <2> DEFINE d == [now EXCEPT !.archived = FALSE, !.status = un]
  <2>1. Changed(q, now) = d
    BY <1>9 DEF Changed
  <2>2. un \in {"draft", "final", "archived"}
    BY DEF Estimate
  <2> HIDE DEF un
  <2>3. /\ d \in Estimate /\ d.items = now.items /\ d.total = now.total /\ d.v = now.v
        /\ d.stripped = now.stripped /\ d.project = now.project
    BY <2>2 DEF Estimate
  <2> HIDE DEF d
  <2> QED
    BY <1>6, <2>1, <2>3
<1> QED
  BY <1>1, <1>4, <1>5, <1>7, <1>8, <1>9 DEF Changes

\* Replacing the items asks for the __v that was read, with which items and total
\* are as they were read.
LEMMA EstimateSaveStep ==
    ASSUME IndInv, NEW r \in Requests, EstimateSave(r)
    PROVE  IndInv' /\ Moves(r, Idle) /\ UNCHANGED seat /\ StaffKept
<1> DEFINE q == req[r]
           now == estimate[q.e]
<1>1. /\ q.pc = "estimate" /\ Finish(r) /\ UNCHANGED <<project, seat>>
      /\ q \in Request /\ WellFormed(q) /\ q.e \in Estimates
      /\ Replaces(q) => now.v < MaxVersion
      /\ \/ UNCHANGED estimate
         \/ estimate' = [estimate EXCEPT ![q.e] = Changed(q, now)] /\ (Replaces(q) => now.v = q.seen.v)
  BY Typed DEF EstimateSave, WellFormed
<1>2. now \in Estimate /\ InOrder(now) /\ Onward(q.seen, now)
  BY <1>1, Typed DEF IndInv, TotalOfItems, InOrder
<1>3. EstimatesMove
  <2>1. CASE UNCHANGED estimate
    BY <2>1, EstimatesKeep
  <2>2. CASE estimate' = [estimate EXCEPT ![q.e] = Changed(q, now)] /\ (Replaces(q) => now.v = q.seen.v)
    <3>1. Changed(q, now) \in Estimate /\ InOrder(Changed(q, now)) /\ Onward(now, Changed(q, now))
      <4> HIDE DEF q, now
      <4> QED
        BY <1>1, <1>2, <2>2, ChangedType
    <3> QED
      BY <1>1, <2>2, <3>1, EstimateKeeps
  <2> QED
    BY <1>1, <2>1, <2>2
<1>4. Moves(r, Idle)
  BY <1>1, Typed, FinishMoves
<1> QED
  BY <1>1, <1>3, <1>4, IdleType, ProjectsKeep, SeatsKeep, RequestKeeps

-----------------------------------------------------------------------------
(* The theorems                                                               *)

LEMMA InitInv == Init => IndInv
<1> SUFFICES ASSUME Init PROVE IndInv
  OBVIOUS
<1>1. NoProject \in Project /\ VacantSeat \in Seat /\ NoEstimate \in Estimate
  BY EstimateType DEF NoProject, Project, VacantSeat, Seat
<1>2. TypeOK
  BY <1>1, IdleType DEF Init, TypeOK
<1>3. \A r \in Requests : WellFormed(req[r])
  BY IdleType DEF Init
<1>4. \A r \in Requests : req[r].pc # "estimate"
  BY IdleType DEF Init
<1>5. ProjectOnRecord
  BY DEF Init, ProjectOnRecord, VacantSeat
<1>6. TotalOfItems
  BY EstimateType DEF Init, TotalOfItems, Sum
<1> QED
  BY <1>2, <1>3, <1>4, <1>5, <1>6 DEF IndInv

LEMMA StutterKeeps ==
    ASSUME IndInv, UNCHANGED vars
    PROVE  IndInv'
BY ProjectsKeep, SeatsKeep, EstimatesKeep, NoRequestKeeps DEF vars

LEMMA NextKeeps ==
    ASSUME IndInv, Next
    PROVE  IndInv'
<1>1. ASSUME NEW r \in Requests, NEW p \in Projects, Create(r, p) \/ Update(r, p) PROVE IndInv'
  BY <1>1, CreateStep
<1>2. ASSUME NEW r \in Requests, Clear(r) \/ Find(r) \/ Link(r) \/ Save(r) \/ Die(r) PROVE IndInv'
  BY <1>2, ClearStep, FindStep, LinkStep, SaveStep, DieStep
<1>3. ASSUME NEW r \in Requests, NEW e \in Estimates, EstimateLoad(r, e) PROVE IndInv'
  BY <1>3, EstimateLoadStep
<1>4. ASSUME NEW r \in Requests, EstimateSave(r) PROVE IndInv'
  BY <1>4, EstimateSaveStep
<1>5. ASSUME NEW p \in Projects, Archive(p) \/ Unarchive(p) \/ SetHold(p) PROVE IndInv'
  BY <1>5, StatusStep
<1>6. ASSUME NEW s \in Seats, Release(s) PROVE IndInv'
  BY <1>6, ReleaseStep
<1>7. ASSUME NEW e \in Estimates, EstimateCreate(e) PROVE IndInv'
  BY <1>7, EstimateCreateStep
<1> QED
  BY <1>1, <1>2, <1>3, <1>4, <1>5, <1>6, <1>7 DEF Next

\* What holds of projects, seats and estimates between any two steps, however
\* requests overlap and wherever they break off.
THEOREM Inductive == Spec => []IndInv
<1>1. Init => IndInv
  BY InitInv
<1>2. IndInv /\ [Next]_vars => IndInv'
  BY NextKeeps, StutterKeeps
<1> QED
  BY <1>1, <1>2, PTL DEF Spec

\* Types: projects, seats and estimates are of the shape their schemas have.
THEOREM TypeCorrect == Spec => []TypeOK
<1>1. IndInv => TypeOK
  BY DEF IndInv
<1> QED
  BY <1>1, Inductive, PTL

\* assignSeatToProject, clearSeatProject and releaseSeatForUser keep the project
\* a seat is at work on open in its history.
THEOREM OnTheRecord == Spec => []ProjectOnRecord
<1>1. IndInv => ProjectOnRecord
  BY DEF IndInv
<1> QED
  BY <1>1, Inductive, PTL

\* EstimatesService.update writes line items and total from one and the same
\* reading, or neither; compliance's stripPii marks what it empties.
THEOREM TotalsInOrder == Spec => []TotalOfItems
<1>1. IndInv => TotalOfItems
  BY DEF IndInv
<1> QED
  BY <1>1, Inductive, PTL

-----------------------------------------------------------------------------
(* Updates that take turns                                                    *)

\* The step of the one update in progress, or of the first, or of a request
\* that is no update.
LEMMA TurnKeeps ==
    ASSUME TurnInv, NEW r \in Requests, NEW q, Moves(r, q),
           \/ Staffs(r) \/ \A o \in Requests : ~Staffs(o)
           \/ q.pc \notin {"sync", "link"} /\ UNCHANGED seat,
           q.pc = "link" => seat'[q.seat].project \in {None, q.p},
           \A s \in Seats : seat'[s].user = None => seat'[s].project = None
    PROVE  TurnInv'
<1>1. req'[r] = q /\ \A o \in Requests \ {r} : req'[o] = req[o]
  BY DEF Moves
<1>2. \A o, z \in Requests : Staffs(o) /\ Staffs(z) => o = z
  BY DEF TurnInv
<1>3. CASE Staffs(r) \/ \A o \in Requests : ~Staffs(o)
  <2>1. \A o \in Requests \ {r} : req'[o].pc \notin {"sync", "link"}
    BY <1>1, <1>2, <1>3 DEF Staffs
  <2> QED
    BY <1>1, <2>1 DEF TurnInv, Staffs
<1>4. CASE q.pc \notin {"sync", "link"} /\ UNCHANGED seat
  BY <1>1, <1>2, <1>4 DEF TurnInv, Staffs
<1> QED
  BY <1>3, <1>4

\* The update that saves is the only one.
LEMMA SaveAlone ==
    ASSUME IndInv, TurnInv, NEW r \in Requests, Save(r)
    PROVE  Moves(r, Idle)
<1>1. /\ Staffs(r) /\ req'[r] = Idle /\ req' \in [Requests -> Request]
      /\ \A o \in Requests \ {r} : ~Staffs(o) => req'[o] = req[o]
  BY SaveStep
<1>2. \A o \in Requests \ {r} : ~Staffs(o)
  BY <1>1 DEF TurnInv
<1> QED
  BY <1>1, <1>2 DEF Moves

\* Steps without a request at most free a seat.
LEMMA FreeKeeps ==
    ASSUME TurnInv, UNCHANGED req,
           \A s \in Seats : seat'[s] = seat[s] \/ seat'[s].project = None,
           \A r \in Requests : req[r].pc = "link" => req[r].seat \in Seats
    PROVE  TurnInv'
BY DEF TurnInv, Staffs

\* A seat at work on a project is at work on it after the step, or on nothing.
Kept == \A s \in Seats : seat[s].project # None => seat'[s].project \in {None, seat[s].project}

LEMMA TurnStep ==
    ASSUME InTurn, IndInv, TurnInv, Next
    PROVE  TurnInv' /\ Kept
<1>1. \A s \in Seats : seat[s].user = None => seat[s].project = None
  BY DEF TurnInv
<1>2. ASSUME NEW r \in Requests, NEW p \in Projects, Create(r, p) \/ Update(r, p) PROVE TurnInv' /\ Kept
  <2>1. Moves(r, req'[r]) /\ req'[r].pc = "sync" /\ Alone /\ UNCHANGED seat
    BY <1>2, CreateStep
  <2>2. \A o \in Requests : ~Staffs(o)
    BY <2>1 DEF Alone, InTurn
  <2> QED
    BY <1>1, <2>1, <2>2, TurnKeeps DEF Kept
<1>3. ASSUME NEW r \in Requests, Clear(r) PROVE TurnInv' /\ Kept
  <2>1. /\ Moves(r, req'[r]) /\ Staffs(r) /\ req'[r].pc = "sync"
        /\ \A s \in Seats : seat'[s].project \in {None, seat[s].project} /\ seat'[s].user = seat[s].user
    BY <1>3, ClearStep DEF Staffs
  <2> QED
    BY <1>1, <2>1, TurnKeeps DEF Kept
<1>4. ASSUME NEW r \in Requests, Find(r) PROVE TurnInv' /\ Kept
  <2>1. /\ Moves(r, req'[r]) /\ Staffs(r)
        /\ \/ req'[r] = Idle /\ UNCHANGED seat
           \/ /\ req'[r].pc = "link" /\ UNCHANGED seat
              /\ seat[req'[r].seat].project \in {None, req'[r].p}
           \/ \E s \in Seats :
                /\ req'[r].pc = "link" /\ req'[r].seat = s
                /\ seat[s].user = None /\ seat'[s].user # None /\ seat'[s].project = seat[s].project
                /\ \A o \in Seats \ {s} : seat'[o] = seat[o]
    BY <1>4, FindStep DEF Staffs
  <2>2. CASE req'[r] = Idle /\ UNCHANGED seat
    BY <1>1, <2>1, <2>2, IdleType, TurnKeeps DEF Kept
  <2>3. CASE /\ req'[r].pc = "link" /\ UNCHANGED seat
             /\ seat[req'[r].seat].project \in {None, req'[r].p}
    BY <1>1, <2>1, <2>3, TurnKeeps DEF Kept
  <2>4. CASE \E s \in Seats :
                /\ req'[r].pc = "link" /\ req'[r].seat = s
                /\ seat[s].user = None /\ seat'[s].user # None /\ seat'[s].project = seat[s].project
                /\ \A o \in Seats \ {s} : seat'[o] = seat[o]
    <3>1. PICK s \in Seats :
                /\ req'[r].pc = "link" /\ req'[r].seat = s
                /\ seat[s].user = None /\ seat'[s].user # None /\ seat'[s].project = seat[s].project
                /\ \A o \in Seats \ {s} : seat'[o] = seat[o]
      BY <2>4
    <3>2. seat[s].project = None /\ seat'[s].project = None
      BY <1>1, <3>1
    <3>3. \A o \in Seats : seat'[o].user = None => seat'[o].project = None
      BY <1>1, <3>1
    <3> QED
      BY <2>1, <3>1, <3>2, <3>3, TurnKeeps DEF Kept
  <2> QED
    BY <2>1, <2>2, <2>3, <2>4
<1>5. ASSUME NEW r \in Requests, Link(r) PROVE TurnInv' /\ Kept
  <2>1. /\ Moves(r, req'[r]) /\ Staffs(r) /\ req'[r].pc \in {"sync", "idle"} /\ req[r].pc = "link"
        /\ \A s \in Seats : \/ seat'[s] = seat[s]
                            \/ s = req[r].seat /\ seat'[s].project = req[r].p /\ seat'[s].user # None
    BY <1>5, LinkStep DEF Staffs
  <2>2. seat[req[r].seat].project \in {None, req[r].p}
    BY <2>1 DEF TurnInv
  <2>3. Kept
    BY <2>1, <2>2 DEF Kept
  <2>4. \A s \in Seats : seat'[s].user = None => seat'[s].project = None
    BY <1>1, <2>1
  <2> QED
    BY <2>1, <2>3, <2>4, TurnKeeps
<1>6. ASSUME NEW r \in Requests, Save(r) \/ Die(r) \/ EstimateSave(r) PROVE TurnInv' /\ Kept
  <2>1. Moves(r, Idle) /\ UNCHANGED seat
    BY <1>6, SaveStep, SaveAlone, DieStep, EstimateSaveStep
  <2> QED
    BY <1>1, <2>1, IdleType, TurnKeeps DEF Kept
<1>7. ASSUME NEW r \in Requests, NEW e \in Estimates, EstimateLoad(r, e) PROVE TurnInv' /\ Kept
  <2>1. Moves(r, req'[r]) /\ UNCHANGED seat /\ req'[r].pc = "estimate"
    BY <1>7, EstimateLoadStep
  <2> QED
    BY <1>1, <2>1, TurnKeeps DEF Kept
<1>8. \A r \in Requests : req[r].pc = "link" => req[r].seat \in Seats
  BY Typed DEF WellFormed
<1>9. ASSUME NEW p \in Projects, Archive(p) \/ Unarchive(p) \/ SetHold(p) PROVE TurnInv' /\ Kept
  BY <1>8, <1>9, StatusStep, FreeKeeps DEF Kept
<1>10. ASSUME NEW s \in Seats, Release(s) PROVE TurnInv' /\ Kept
  <2>1. UNCHANGED req /\ \A o \in Seats : seat'[o] = seat[o] \/ seat'[o].project = None
    BY <1>10, ReleaseStep
  <2> QED
    BY <1>8, <2>1, FreeKeeps DEF Kept
<1>11. ASSUME NEW e \in Estimates, EstimateCreate(e) PROVE TurnInv' /\ Kept
  BY <1>8, <1>11, EstimateCreateStep, FreeKeeps DEF Kept
<1> QED
  BY <1>2, <1>3, <1>4, <1>5, <1>6, <1>7, <1>9, <1>10, <1>11 DEF Next

\* Staffing and assignments of the projects stay, and so does what the others
\* have in hand.
LEMMA StaffKeeps ==
    ASSUME IndInv, StaffInv, StaffKept, NEW r \in Requests, NEW q, Moves(r, q),
           q.pc \in {"sync", "link"} =>
              /\ q.current /\ q.p \in Projects /\ q.was = project[q.p].assigned
              /\ OnePerPost(q.doc)
              /\ q.pc = "link" => \A x \in q.doc : PostOf(x) # q.post
    PROVE  StaffInv'
<1>1. StaffingMatchesAssignments'
  BY DEF StaffInv, StaffingMatchesAssignments, StaffKept, PostOf
<1>2. ASSUME NEW o \in Requests, req'[o].pc \in {"sync", "link"}
      PROVE  /\ req'[o].current /\ req'[o].was = project'[req'[o].p].assigned
             /\ OnePerPost(req'[o].doc)
             /\ req'[o].pc = "link" => \A x \in req'[o].doc : PostOf(x) # req'[o].post
  <2>1. CASE o = r
    BY <1>2, <2>1 DEF Moves, StaffKept
  <2>2. CASE o # r
    <3>1. req'[o] = req[o] /\ Staffs(o) /\ req[o].p \in Projects
      BY <1>2, <2>2, Typed DEF Moves, Staffs, WellFormed
    <3>2. InHand(req[o])
      BY <3>1 DEF StaffInv
    <3> QED
      BY <3>1, <3>2 DEF InHand, StaffKept
  <2> QED
    BY <2>1, <2>2
<1>3. \A o \in Requests : (Staffs(o) => InHand(req[o]))'
  BY <1>2 DEF Staffs, InHand, OnePerPost, PostOf
<1> QED
  BY <1>1, <1>3 DEF StaffInv

LEMMA StaffStays ==
    ASSUME IndInv, StaffInv, StaffKept, UNCHANGED req
    PROVE  StaffInv'
<1>1. StaffingMatchesAssignments'
  BY DEF StaffInv, StaffingMatchesAssignments, StaffKept, PostOf
<1>2. \A o \in Requests : Staffs(o) => InHand(req[o]) /\ req[o].p \in Projects
  BY Typed DEF StaffInv, Staffs, WellFormed
<1>3. \A o \in Requests : (Staffs(o) => InHand(req[o]))'
  BY <1>2 DEF Staffs, InHand, OnePerPost, PostOf, StaffKept
<1> QED
  BY <1>1, <1>3 DEF StaffInv

\* Begun with the assignments there still are, removals and additions leave just
\* the list in memory; with nothing superfluous and nothing missing, it is the
\* staffing.
LEMMA SaveStaffs ==
    ASSUME IndInv, TurnInv, StaffInv, NEW r \in Requests, Save(r)
    PROVE  StaffInv'
<1> DEFINE q == req[r]
           removed == q.was \ q.doc
           pushed == q.doc \ q.was
           now == project[q.p].assigned
           all == IF removed # {} /\ pushed # {} THEN q.doc ELSE (now \ removed) \cup pushed
<1>1. /\ Staffs(r) /\ q \in Request /\ q.p \in Projects /\ Superfluous(r) = {} /\ Missing(r) = {}
      /\ q.current /\ q.was = now /\ OnePerPost(q.doc)
  BY Typed DEF Save, Staffs, WellFormed, StaffInv, InHand
<1>2. project' = [project EXCEPT ![q.p].staffing = q.todo, ![q.p].assigned = all]
  BY <1>1 DEF Save
<1>3. all = q.doc
  BY <1>1
<1> HIDE DEF all
<1>4. /\ project'[q.p].staffing = q.todo /\ project'[q.p].assigned = q.doc
      /\ \A o \in Projects \ {q.p} : project'[o] = project[o]
  <2>1. project[q.p] \in Project /\ project \in [Projects -> Project]
    BY <1>1, Typed
  <2> DEFINE m == [project[q.p] EXCEPT !.staffing = q.todo]
             d == [m EXCEPT !.assigned = q.doc]
  <2>2. project' = [project EXCEPT ![q.p] = d]
    BY <1>1, <1>2, <1>3, <2>1
  <2> HIDE DEF q
  <2>3. d.staffing = q.todo /\ d.assigned = q.doc
    BY <2>1 DEF Project
  <2> HIDE DEF d
  <2> QED
    BY <1>1, <2>1, <2>2, <2>3
<1>5. {PostOf(x) : x \in q.doc} = q.todo
  <2>1. \A x \in q.doc : PostOf(x) \in q.todo
    BY <1>1 DEF Superfluous
  <2>2. \A y \in q.todo : \E x \in q.doc : PostOf(x) = y
    BY <1>1 DEF Missing
  <2> QED
    BY <2>1, <2>2
<1>6. StaffingMatchesAssignments'
  <2> SUFFICES ASSUME NEW o \in Projects
               PROVE  /\ {PostOf(x) : x \in project'[o].assigned} = project'[o].staffing
                      /\ \A x, y \in project'[o].assigned : PostOf(x) = PostOf(y) => x = y
    BY DEF StaffingMatchesAssignments, PostOf
  <2>1. CASE o = q.p
    BY <1>1, <1>4, <1>5, <2>1 DEF OnePerPost
  <2>2. CASE o # q.p
    BY <1>4, <2>2 DEF StaffInv, StaffingMatchesAssignments
  <2> QED
    BY <2>1, <2>2
<1>7. \A o \in Requests : req'[o].pc \notin {"sync", "link"}
  <2>1. Moves(r, Idle)
    BY SaveAlone
  <2> QED
    BY <1>1, <2>1, IdleType DEF Moves, TurnInv, Staffs
<1> QED
  BY <1>6, <1>7 DEF StaffInv, Staffs

LEMMA StaffStep ==
    ASSUME InTurn, IndInv, TurnInv, StaffInv, Next
    PROVE  StaffInv'
<1>1. \A r \in Requests : Staffs(r) => InHand(req[r]) /\ req[r].p \in Projects
  BY Typed DEF StaffInv, Staffs, WellFormed
<1>2. ASSUME NEW r \in Requests, NEW p \in Projects, Create(r, p) \/ Update(r, p) PROVE StaffInv'
  <2>1. /\ Moves(r, req'[r]) /\ req'[r].pc = "sync" /\ req'[r].p = p /\ StaffKept
        /\ req'[r].current /\ req'[r].was = project[p].assigned /\ req'[r].doc = project[p].assigned
    BY <1>2, CreateStep
  <2>2. OnePerPost(project[p].assigned)
    BY DEF StaffInv, StaffingMatchesAssignments, OnePerPost
  <2> QED
    BY <2>1, <2>2, StaffKeeps
<1>3. ASSUME NEW r \in Requests, Clear(r) PROVE StaffInv'
  <2>1. /\ Moves(r, req'[r]) /\ req'[r].pc = "sync" /\ Staffs(r) /\ StaffKept
        /\ Carries(r, req'[r]) /\ req'[r].doc \subseteq req[r].doc
    BY <1>3, ClearStep DEF Staffs
  <2>2. OnePerPost(req'[r].doc)
    BY <1>1, <2>1 DEF InHand, OnePerPost
  <2> QED
    BY <1>1, <2>1, <2>2, StaffKeeps DEF Carries, InHand
<1>4. ASSUME NEW r \in Requests, Find(r) PROVE StaffInv'
  <2>1. /\ Moves(r, req'[r]) /\ Staffs(r) /\ StaffKept
        /\ req'[r] # Idle => /\ Carries(r, req'[r]) /\ req'[r].doc = req[r].doc
                             /\ \A x \in req[r].doc : PostOf(x) # req'[r].post
    BY <1>4, FindStep DEF Staffs
  <2>2. CASE req'[r] = Idle
    BY <2>1, <2>2, IdleType, StaffKeeps
  <2>3. CASE req'[r] # Idle
    BY <1>1, <2>1, <2>3, StaffKeeps DEF Carries, InHand
  <2> QED
    BY <2>2, <2>3
<1>5. ASSUME NEW r \in Requests, Link(r) PROVE StaffInv'
  <2>1. /\ Moves(r, req'[r]) /\ Staffs(r) /\ StaffKept /\ req[r].pc = "link" /\ req'[r].pc \in {"sync", "idle"}
        /\ req'[r].pc = "sync" =>
             /\ Carries(r, req'[r])
             /\ \E a : req'[r].doc = req[r].doc \cup {a} /\ PostOf(a) = req[r].post
    BY <1>5, LinkStep DEF Staffs
  <2>2. CASE req'[r].pc = "idle"
    BY <2>1, <2>2, StaffKeeps
  <2>3. CASE req'[r].pc = "sync"
    <3>1. OnePerPost(req'[r].doc)
      BY <1>1, <2>1, <2>3 DEF InHand, OnePerPost
    <3> QED
      BY <1>1, <2>1, <2>3, <3>1, StaffKeeps DEF Carries, InHand
  <2> QED
    BY <2>1, <2>2, <2>3
<1>6. ASSUME NEW r \in Requests, Die(r) \/ EstimateSave(r) PROVE StaffInv'
  <2>1. Moves(r, Idle) /\ StaffKept
    BY <1>6, DieStep, EstimateSaveStep
  <2> QED
    BY <2>1, IdleType, StaffKeeps
<1>7. ASSUME NEW r \in Requests, NEW e \in Estimates, EstimateLoad(r, e) PROVE StaffInv'
  <2>1. Moves(r, req'[r]) /\ req'[r].pc = "estimate" /\ StaffKept
    BY <1>7, EstimateLoadStep
  <2> QED
    BY <2>1, StaffKeeps
<1>8. ASSUME NEW p \in Projects, Archive(p) \/ Unarchive(p) \/ SetHold(p) PROVE StaffInv'
  BY <1>8, StatusStep, StaffStays
<1>9. ASSUME NEW s \in Seats, Release(s) PROVE StaffInv'
  BY <1>9, ReleaseStep, StaffStays
<1>10. ASSUME NEW e \in Estimates, EstimateCreate(e) PROVE StaffInv'
  BY <1>10, EstimateCreateStep, StaffStays
<1> QED
  BY <1>2, <1>3, <1>4, <1>5, <1>6, <1>7, <1>8, <1>9, <1>10, SaveStaffs DEF Next

\* Between any two steps, as long as staffing updates take turns.
THEOREM InductiveInTurn ==
    ASSUME InTurn
    PROVE  Spec => [](TurnInv /\ StaffInv)
<1>1. Init => TurnInv /\ StaffInv
  BY IdleType DEF Init, TurnInv, StaffInv, StaffingMatchesAssignments, Staffs, VacantSeat, NoProject
<1>2. IndInv /\ (TurnInv /\ StaffInv) /\ [Next]_vars => (TurnInv /\ StaffInv)'
  <2>1. IndInv /\ TurnInv /\ StaffInv /\ Next => TurnInv' /\ StaffInv'
    BY TurnStep, StaffStep
  <2>2. TurnInv /\ UNCHANGED vars => TurnInv'
    BY DEF vars, TurnInv, Staffs
  <2>3. IndInv /\ StaffInv /\ UNCHANGED vars => StaffInv'
    BY StaffStays DEF vars, StaffKept
  <2> QED
    BY <2>1, <2>2, <2>3
<1> QED
  BY <1>1, <1>2, Inductive, PTL DEF Spec

\* As long as staffing updates take turns, whatever breaks off between them,
\* syncStaffingAssignments leaves one active assignment for each post of the
\* staffing it saves, and no other.
THEOREM StaffingAssigned ==
    ASSUME InTurn
    PROVE  Spec => []StaffingMatchesAssignments
<1>1. StaffInv => StaffingMatchesAssignments
  BY DEF StaffInv
<1> QED
  BY <1>1, InductiveInTurn, PTL

\* As long as staffing updates take turns, a seat leaves a project before it
\* joins another, also when its holder is released or an update breaks off
\* between the check of the seat and its assignment.
THEOREM SeatsNotTaken ==
    ASSUME InTurn
    PROVE  Spec => NoTheft
<1>1. IndInv /\ TurnInv /\ [Next]_vars => [Kept]_vars
  BY TurnStep
<1>2. Spec => [][Kept]_vars
  BY <1>1, Inductive, InductiveInTurn, PTL DEF Spec
<1>3. [Kept]_vars <=> [\A s \in Seats : seat[s].project # None => seat'[s].project \in {None, seat[s].project}]_vars
  BY DEF Kept
<1> QED
  BY <1>2, <1>3, PTL DEF NoTheft
=============================================================================
