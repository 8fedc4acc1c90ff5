------------------------------ MODULE Staffing ------------------------------
(***************************************************************************)
(* Projects, the people who staff them, the seats they bring along and the *)
(* estimates made for them: ProjectsService with the project half of       *)
(* SeatsService, and EstimatesService.                                     *)
(*                                                                         *)
(* A staffing update works through the project's seats one by one, each a  *)
(* document of its own in a write of its own, and saves the project last;  *)
(* a refusal half-way leaves what has been written.  A person stands for   *)
(* the account it is linked to.  Descriptive fields, budgets, quantities,  *)
(* revision numbers (bumped, and looked at by nothing), the legal hold of  *)
(* an estimate and whoever lacks the role, or the project's name, are left *)
(* out.                                                                    *)
(***************************************************************************)
EXTENDS Naturals, Sequences, FiniteSets, SequencesExt

CONSTANTS
    Projects, Estimates, Seats, None,
    Staff,          \* persons of type internal_staff
    Union,          \* persons of type internal_union
    Requests,       \* requests in flight
    MaxOpen,        \* open project entries in a seat's history (bound)
    Amounts,        \* what the line items of an estimate can come to
    MaxVersion,     \* replacements of an estimate's line items (bound)
    Liberties       \* "overlap", "die", "release": what the code leaves to luck

ASSUME StaffingAssumption ==
    /\ Staff \cap Union = {}
    /\ MaxOpen \in Nat /\ MaxVersion \in Nat
    /\ Amounts \subseteq Nat /\ 0 \in Amounts
    /\ None \notin Projects \cup Seats \cup Staff \cup Union \cup Amounts

Persons == Staff \cup Union

Roles == {"pm", "superintendent", "foreman"}

VARIABLES
    project,     \* the projects
    seat,        \* the seats
    estimate,    \* the estimates
    req          \* requests in flight

vars == <<project, seat, estimate, req>>

-----------------------------------------------------------------------------
(* Documents *)

\* A person in a role; and the seat assigned for it (an entry of
\* seatAssignments without removedAt; removed ones are never read again).
Post == [person: Persons, role: Roles]

Assignment == [person: Persons, role: Roles, seat: Seats]

PostOf(x) == [person |-> x.person, role |-> x.role]

\* ensurePersonAssignable
Fit(post) ==
    CASE post.role = "pm" -> post.person \in Staff
      [] post.role = "superintendent" -> post.person \in Persons
      [] post.role = "foreman" -> post.person \in Union

\* What UpdateProjectDto.staffing may ask for: one project manager, one
\* superintendent, any foremen.
Staffings ==
    {posts \in SUBSET Post :
        /\ \A x \in posts : Fit(x)
        /\ \A x, y \in posts : x.role = y.role /\ x.role # "foreman" => x = y}

Project == [status: {"none", "live", "archived"}, hold: BOOLEAN,
            staffing: SUBSET Post, assigned: SUBSET Assignment]

NoProject == [status |-> "none", hold |-> FALSE, staffing |-> {}, assigned |-> {}]

\* open: the history entries for a project that have not been removed, oldest
\* first; the entry every allocation makes has no project and is left out.
Seat == [user: Persons \cup {None}, project: Projects \cup {None},
         open: Seq([user: Persons, project: Projects])]

VacantSeat == [user |-> None, project |-> None, open |-> << >>]

\* items: what the line items come to, None when there are none; total: what is
\* written down as their total; v: mongoose's __v, which counts how often the
\* list has been replaced.
Estimate == [project: Projects \cup {None}, status: {"draft", "final", "archived"},
             archived: BOOLEAN, items: Amounts \cup {None}, total: Amounts,
             stripped: BOOLEAN, v: 0 .. MaxVersion]

NoEstimate == [project |-> None, status |-> "draft", archived |-> FALSE,
               items |-> None, total |-> 0, stripped |-> FALSE, v |-> 0]

Idle == [pc |-> "idle", p |-> None, todo |-> {}, was |-> {}, doc |-> {}, current |-> TRUE,
         seat |-> None, post |-> None, e |-> None, change |-> None, list |-> None, seen |-> NoEstimate]

Changes == {"items", "final", "draft", "archive", "unarchive", "strip"}

Request == [pc: {"idle", "sync", "link", "estimate"},
            p:       Projects \cup {None},
            todo:    SUBSET Post,               \* desired
            was:     SUBSET Assignment,         \* active assignments, as read
            doc:     SUBSET Assignment,         \* the same in memory
            current: BOOLEAN,                   \* the project still has the __v that was read
            seat:    Seats \cup {None},
            post:    Post \cup {None},          \* being assigned
            e:       Estimates \cup {None},
            change:  Changes \cup {None},
            list:    Amounts \cup {None},       \* the line items sent
            seen:    Estimate]

TypeOK ==
    /\ project \in [Projects -> Project]
    /\ seat \in [Seats -> Seat]
    /\ estimate \in [Estimates -> Estimate]
    /\ req \in [Requests -> Request]

Init ==
    /\ project = [p \in Projects |-> NoProject]
    /\ seat = [s \in Seats |-> VacantSeat]
    /\ estimate = [e \in Estimates |-> NoEstimate]
    /\ req = [r \in Requests |-> Idle]

Finish(r) == req' = [req EXCEPT ![r] = Idle]

-----------------------------------------------------------------------------
(* Projects: create and update with a staffing *)

Staffs(r) == req[r].pc \in {"sync", "link"}

Alone == "overlap" \in Liberties \/ \A r \in Requests : ~Staffs(r)

Start(r, p) ==
    /\ req[r] = Idle /\ Alone
    /\ \E posts \in Staffings :
         req' = [req EXCEPT ![r] = [Idle EXCEPT !.pc = "sync", !.p = p, !.todo = posts,
                                    !.was = project[p].assigned, !.doc = project[p].assigned]]

\* The project is inserted before anyone is assigned.
Create(r, p) ==
    /\ project[p].status = "none"
    /\ project' = [project EXCEPT ![p].status = "live"]
    /\ Start(r, p)
    /\ UNCHANGED <<seat, estimate>>

Update(r, p) ==
    /\ project[p].status = "live" /\ ~project[p].hold
    /\ Start(r, p)
    /\ UNCHANGED <<project, seat, estimate>>

Superfluous(r) == {x \in req[r].doc : PostOf(x) \notin req[r].todo}

Missing(r) == {y \in req[r].todo : \A x \in req[r].doc : PostOf(x) # y}

\* open without the last of its entries that are in mine.
CloseLast(open, mine) ==
    LET at == {i \in DOMAIN open : open[i] \in mine} IN
    IF at = {} THEN open
    ELSE RemoveAt(open, CHOOSE i \in at : \A j \in at : j <= i)

\* The first loop of syncStaffingAssignments, with clearSeatProject.
Clear(r) ==
    LET p == req[r].p IN
    /\ req[r].pc = "sync"
    /\ \E x \in Superfluous(r) :
         /\ seat' = [seat EXCEPT ![x.seat].project = IF @ = p THEN None ELSE @,
                                 ![x.seat].open = CloseLast(@, {h \in Range(@) : h.project = p})]
         /\ req' = [req EXCEPT ![r].doc = @ \ {x}]
    /\ UNCHANGED <<project, estimate>>

SeatOf(u) == {s \in Seats : seat[s].user = u}

\* The second loop: find the person's seat, or allocate one, and check it.
FindUnchecked(r) ==
    /\ req[r].pc = "sync" /\ Superfluous(r) = {}
    /\ \E y \in Missing(r) :
         \/ /\ \E s \in SeatOf(y.person) :
                 req' = [req EXCEPT ![r].pc = "link", ![r].seat = s, ![r].post = y]
            /\ UNCHANGED seat
         \/ /\ SeatOf(y.person) = {}
            /\ \E s \in SeatOf(None) :
                 /\ seat' = [seat EXCEPT ![s].user = y.person]
                 /\ req' = [req EXCEPT ![r].pc = "link", ![r].seat = s, ![r].post = y]
    /\ UNCHANGED <<project, estimate>>

Find(r) ==
    /\ req[r].pc = "sync" /\ Superfluous(r) = {}
    /\ \E y \in Missing(r) :
         \/ /\ \E s \in SeatOf(y.person) :
                 req' = IF seat[s].project \in {None, req[r].p}
                        THEN [req EXCEPT ![r].pc = "link", ![r].seat = s, ![r].post = y]
                        ELSE [req EXCEPT ![r] = Idle]
            /\ UNCHANGED seat
         \/ /\ SeatOf(y.person) = {}
            /\ \E s \in SeatOf(None) :
                 /\ seat' = [seat EXCEPT ![s].user = y.person]
                 /\ req' = [req EXCEPT ![r].pc = "link", ![r].seat = s, ![r].post = y]
         \/ /\ SeatOf(y.person) \cup SeatOf(None) = {}
            /\ Finish(r) /\ UNCHANGED seat
    /\ UNCHANGED <<project, estimate>>

\* Closes the last entry without a look at its project.
OpenedNoMore(u, open, p) ==
    IF open # << >> THEN Front(open) ELSE <<[user |-> u, project |-> p]>>

\* The last open entry, if it is another project's, is closed.
Opened(u, open, p) ==
    Append(IF open # << >> /\ Last(open).project # p THEN Front(open) ELSE open,
           [user |-> u, project |-> p])

\* assignSeatToProject, and the entry for the project.
Link(r) ==
    LET s == req[r].seat
        p == req[r].p
        y == req[r].post
    IN
    /\ req[r].pc = "link"
    /\ IF seat[s].user = None THEN Finish(r) /\ UNCHANGED seat
       ELSE /\ Len(seat[s].open) < MaxOpen
            /\ seat' = [seat EXCEPT ![s].project = p, ![s].open = Opened(seat[s].user, @, p)]
            /\ req' = [req EXCEPT ![r].pc = "sync", ![r].seat = None, ![r].post = None,
                         ![r].doc = @ \cup {[person |-> y.person, role |-> y.role, seat |-> s]}]
    /\ UNCHANGED <<project, estimate>>

\* The staffing as asked for, the assignments as they were.
SaveStaffing(r) ==
    /\ req[r].pc = "sync" /\ Superfluous(r) = {} /\ Missing(r) = {}
    /\ project' = [project EXCEPT ![req[r].p].staffing = req[r].todo,
                                  ![req[r].p].assigned = @ \cup req[r].doc]
    /\ Finish(r)
    /\ UNCHANGED <<seat, estimate>>

\* The staffing is written whole.  Of the assignments mongoose writes the marks
\* of the removed, which asks for the __v that was read, or pushes the new,
\* which raises it; both at once replace the list, ask and raise.  (Equal
\* assignments, which only overlapping updates push, count as one.)
Save(r) ==
    LET q == req[r]
        removed == q.was \ q.doc
        pushed == q.doc \ q.was
    IN
    /\ q.pc = "sync" /\ Superfluous(r) = {} /\ Missing(r) = {}
    /\ IF removed # {} /\ ~q.current THEN Finish(r) /\ UNCHANGED project
       ELSE /\ project' = [project EXCEPT
                 ![q.p].staffing = q.todo,
                 ![q.p].assigned = IF removed # {} /\ pushed # {} THEN q.doc
                                   ELSE (@ \ removed) \cup pushed]
            /\ req' = [o \in Requests |-> IF o = r THEN Idle ELSE
                         [req[o] EXCEPT !.current = @ /\ (req[o].p = q.p => pushed = {})]]
    /\ UNCHANGED <<seat, estimate>>

\* archive and unarchive leave staffing and seats alone; a legal hold is
\* compliance's.
Archive(p) ==
    /\ project[p].status = "live" /\ ~project[p].hold
    /\ project' = [project EXCEPT ![p].status = "archived"]
    /\ UNCHANGED <<seat, estimate, req>>

Unarchive(p) ==
    /\ project[p].status = "archived" /\ ~project[p].hold
    /\ project' = [project EXCEPT ![p].status = "live"]
    /\ UNCHANGED <<seat, estimate, req>>

SetHold(p) ==
    /\ project[p].status # "none"
    /\ project' = [project EXCEPT ![p].hold = ~@]
    /\ UNCHANGED <<seat, estimate, req>>

\* The organization is held or archived, or the server stops, half-way.
Die(r) ==
    /\ "die" \in Liberties
    /\ req[r] # Idle
    /\ Finish(r)
    /\ UNCHANGED <<project, seat, estimate>>

\* releaseSeatForUser: the account is archived, and the last entry it has open
\* is closed.
Release(s) ==
    LET u == seat[s].user IN
    /\ "release" \in Liberties
    /\ u # None
    /\ seat' = [seat EXCEPT ![s] = [VacantSeat EXCEPT
                  !.open = CloseLast(seat[s].open, {h \in Range(seat[s].open) : h.user = u})]]
    /\ UNCHANGED <<project, estimate, req>>

-----------------------------------------------------------------------------
(* Estimates *)

Writable(p) == project[p].status = "live" /\ ~project[p].hold

Sum(list) == IF list = None THEN 0 ELSE list

EstimateCreate(e) ==
    /\ estimate[e].project = None
    /\ \E p \in Projects, list \in Amounts \cup {None} :
         /\ Writable(p)
         /\ estimate' = [estimate EXCEPT ![e] = [NoEstimate EXCEPT
                           !.project = p, !.items = list, !.total = Sum(list)]]
    /\ UNCHANGED <<project, seat, req>>

\* update, archive, unarchive, and compliance's stripPii: load and check ...
EstimateLoad(r, e) ==
    LET doc == estimate[e] IN
    /\ req[r] = Idle
    /\ doc.project # None
    /\ \E change \in Changes, list \in Amounts \cup {None} :
         /\ change # "strip" => Writable(doc.project)
         /\ change \in {"items", "final", "draft", "archive"} => ~doc.archived
         /\ change = "unarchive" => doc.archived
         /\ change # "items" => list = None
         /\ req' = [req EXCEPT ![r] = [Idle EXCEPT !.pc = "estimate", !.e = e, !.change = change,
                                         !.list = list, !.seen = doc]]
    /\ UNCHANGED <<project, seat, estimate>>

\* ... and save what changed, in documents that may have moved on.  A list that
\* is and stays empty has not changed.
Replaces(q) == q.change \in {"items", "strip"} /\ (q.seen.items # None \/ q.list # None)

Changed(q, now) ==
    LET items == [now EXCEPT !.items = IF Replaces(q) THEN q.list ELSE @,
                             !.v = IF Replaces(q) THEN @ + 1 ELSE @]
    IN
    CASE q.change = "items" -> [items EXCEPT !.total = IF q.seen.total = Sum(q.list) THEN @ ELSE Sum(q.list)]
      [] q.change = "strip" -> [items EXCEPT !.stripped = TRUE]
      [] q.change \in {"final", "draft"} ->
           [now EXCEPT !.status = IF q.seen.status = q.change THEN @ ELSE q.change]
      [] q.change = "archive" -> [now EXCEPT !.archived = TRUE, !.status = "archived"]
      [] q.change = "unarchive" ->
           [now EXCEPT !.archived = FALSE, !.status = IF q.seen.status = "archived" THEN "draft" ELSE @]

\* The last one wins.
EstimateSaveBlind(r) ==
    LET q == req[r] IN
    /\ q.pc = "estimate"
    /\ Replaces(q) => estimate[q.e].v < MaxVersion
    /\ estimate' = [estimate EXCEPT ![q.e] = Changed(q, @)]
    /\ Finish(r)
    /\ UNCHANGED <<project, seat>>

\* Replacing an array, mongoose asks for the __v that was read, or refuses.
EstimateSave(r) ==
    LET q == req[r] IN
    /\ q.pc = "estimate"
    /\ Replaces(q) => estimate[q.e].v < MaxVersion
    /\ estimate' = IF Replaces(q) /\ estimate[q.e].v # q.seen.v THEN estimate
                   ELSE [estimate EXCEPT ![q.e] = Changed(q, @)]
    /\ Finish(r)
    /\ UNCHANGED <<project, seat>>

-----------------------------------------------------------------------------
Next ==
    \/ \E r \in Requests :
         \/ \E p \in Projects : Create(r, p) \/ Update(r, p)
         \/ Clear(r) \/ Find(r) \/ Link(r) \/ Save(r) \/ Die(r)
         \/ \E e \in Estimates : EstimateLoad(r, e)
         \/ EstimateSave(r)
    \/ \E p \in Projects : Archive(p) \/ Unarchive(p) \/ SetHold(p)
    \/ \E s \in Seats : Release(s)
    \/ \E e \in Estimates : EstimateCreate(e)

Spec == Init /\ [][Next]_vars

-----------------------------------------------------------------------------
(* Properties *)

\* However many updates a project has been through, and however many of them
\* broke off, it has one active assignment for each post, and no other.  (While
\* updates take turns: of two that overlap, one can write a staffing, and the
\* other take away the assignments for it.)
StaffingMatchesAssignments ==
    \A p \in Projects :
      /\ {PostOf(x) : x \in project[p].assigned} = project[p].staffing
      /\ \A x, y \in project[p].assigned : PostOf(x) = PostOf(y) => x = y

\* A seat at work on a project has the project open in its history, whatever
\* became of the requests that put it there and of its earlier holders.
ProjectOnRecord ==
    \A s \in Seats : seat[s].project # None => \E i \in DOMAIN seat[s].open : seat[s].open[i].project = seat[s].project

\* A seat leaves a project before it joins another ("Seat is already assigned
\* to another project").
NoTheft ==
    [][\A s \in Seats : seat[s].project # None => seat'[s].project \in {None, seat[s].project}]_vars

\* Until compliance has emptied it, the total an estimate shows is that of its
\* line items, however updates that began with other items overlap: each writes
\* a total only if it is not the one it has read.
TotalOfItems ==
    \A e \in Estimates : ~estimate[e].stripped => estimate[e].total = Sum(estimate[e].items)
=============================================================================
