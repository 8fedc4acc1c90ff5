------------------------------ MODULE SeatStore ------------------------------
(***************************************************************************)
(* The seats collection of one organization: its documents, the unique     *)
(* index the schema declares on it, and what each SeatsService call writes *)
(* into a document.  Every query of the service is scoped by orgId, so one *)
(* organization is the whole world of these definitions.                   *)
(*                                                                         *)
(* The module has no variables.  State machines that keep the collection   *)
(* in a variable (UserSeats) apply these operators to it.                  *)
(***************************************************************************)
EXTENDS Naturals, Sequences, FiniteSets

CONSTANTS
    Users,        \* accounts of the organization, named by their e-mail
    Projects,     \* projects a seat can be linked to
    DefaultSeats, \* seatConfig.defaultSeatsPerOrg, the target of ensureOrgSeats
    None          \* an unset userId or projectId

ASSUME SeatStoreAssumption ==
    /\ DefaultSeats \in Nat
    /\ None \notin Users
    /\ None \notin Projects

-----------------------------------------------------------------------------
(* Documents *)

SeatNo == 1 .. DefaultSeats

Entry == [user: Users, project: Projects \cup {None}, open: BOOLEAN]

\* Roles and dates are left out: no code branches on them; removedAt is
\* kept as `open` (removedAt = null).
Seat == [status:  {"vacant", "active"},
         user:    Users \cup {None},
         project: Projects \cup {None},
         history: Seq(Entry)]

\* An entry is a grant (project = None), pushed by allocateSeat, whose callers
\* pass no project, or a link, pushed by assignSeatToProject.

\* A seat number with no document yet.
Absent == [status  |-> "absent",
           user    |-> None,
           project |-> None,
           history |-> << >>]

NewSeat == [Absent EXCEPT !.status = "vacant"]

Seats == [SeatNo -> Seat \cup {Absent}]

Existing(seats) == {n \in SeatNo : seats[n].status # "absent"}
Vacant(seats)   == {n \in SeatNo : seats[n].status = "vacant"}
HeldBy(seats, u) == {n \in SeatNo : seats[n].status = "active" /\ seats[n].user = u}

-----------------------------------------------------------------------------
(* The unique index {orgId, userId} *)

\* The index is sparse, but a compound sparse index holds every document
\* that has at least one of its keys, and orgId is always set: a document
\* without userId is indexed under null, so None is a key like any other.
\* Variant: the index is declared without unique.
NoIndex(seats, n, key) == TRUE

KeyFree(seats, n, key) == \A m \in Existing(seats) \ {n} : seats[m].user # key

CanInsert(seats, n) == n \notin Existing(seats) /\ KeyFree(seats, n, None)

-----------------------------------------------------------------------------
(* What the calls write *)

\* Variants: the history replaced instead of extended; the holder's id
\* written to the wrong field.
AllocatedFresh(seat, u, p) ==
    [seat EXCEPT !.status  = "active", !.user = u, !.project = p,
                 !.history = << [user |-> u, project |-> p, open |-> TRUE] >>]

AllocatedCrossed(seat, u, p) ==
    [seat EXCEPT !.status  = "active", !.user = p, !.project = u,
                 !.history = Append(@, [user |-> u, project |-> p, open |-> TRUE])]

\* allocateSeat: $set of the holder and $push of an entry, in one update.
Allocated(seat, u, p) ==
    [seat EXCEPT !.status  = "active",
                 !.user    = u,
                 !.project = p,
                 !.history = Append(@, [user |-> u, project |-> p, open |-> TRUE])]

\* The position [...history].reverse().find(...) stops at, of the set I of
\* those that match: none, or the last.
Latest(I) == {i \in I : \A j \in I : j <= i}

\* Variant: the first entry of u, as a search without reverse() and without
\* the removedAt test would pick.
FirstOf(history, u) ==
    {i \in DOMAIN history :
        history[i].user = u /\ \A j \in DOMAIN history : j < i => history[j].user # u}

\* What the searches of a release, of a link and of its end pick.
LastOpenOf(history, u) ==
    Latest({i \in DOMAIN history : history[i].user = u /\ history[i].open})

LastOpenLink(history) ==
    Latest({i \in DOMAIN history : history[i].project # None /\ history[i].open})

LastOpenFor(history, p) ==
    Latest({i \in DOMAIN history : history[i].project = p /\ history[i].open})

Closed(history, I) ==
    [i \in DOMAIN history |->
        IF i \in I THEN [history[i] EXCEPT !.open = FALSE] ELSE history[i]]

\* save() writes by _id, over whatever the document has become since it was
\* read as `seen`, and only what differs from `seen`: an unset project stays
\* out of the write, and a closed entry is written by its position.

\* releaseSeatForUser.
Released(seat, seen) ==
    [seat EXCEPT !.status  = "vacant",
                 !.user    = None,
                 !.project = IF seen.project = None THEN @ ELSE None,
                 !.history = Closed(@, LastOpenOf(seen.history, seen.user))]

\* The link to another project that assignSeatToProject(p) ends.
EndedBy(seen, p) == {i \in LastOpenLink(seen.history) : seen.history[i].project # p}

\* assignSeatToProject pushes its entry.  When it has closed another one too,
\* mongoose writes the array as a whole, as it was read.
Linked(seat, seen, p) ==
    LET ended == EndedBy(seen, p)
        base  == IF ended = {} THEN seat.history ELSE Closed(seen.history, ended)
    IN
    [seat EXCEPT !.project = IF seen.project = p THEN @ ELSE p,
                 !.history = Append(base, [user |-> seen.user, project |-> p, open |-> TRUE])]

\* clearSeatProject.
Cleared(seat, seen, p) ==
    [seat EXCEPT !.project = IF seen.project = p THEN None ELSE @,
                 !.history = Closed(@, LastOpenFor(seen.history, p))]
=============================================================================
