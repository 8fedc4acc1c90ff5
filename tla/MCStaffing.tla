----------------------------- MODULE MCStaffing -----------------------------
(* Model values and the state constraint for the run of Staffing. *)
EXTENDS Staffing, TLC

Symmetric == Permutations(Projects) \cup Permutations(Seats) \cup Permutations(Requests)

\* Estimates never touch a seat and staffing never touches an estimate; they
\* meet in the project's status.  The run explores estimates of projects that
\* have no staff, and staffing while there are no estimates, not the product.
Apart ==
    \/ \A e \in Estimates : estimate[e] = NoEstimate
    \/ /\ \A s \in Seats : seat[s] = VacantSeat
       /\ \A p \in Projects : project[p].assigned = {}
       /\ \A r \in Requests : ~Staffs(r)

\* One legal hold at a time, and no request beside it: a request looks at a hold
\* as it begins, and not again.
OneHold ==
    LET held == {p \in Projects : project[p].hold} IN
    /\ Cardinality(held) <= 1
    /\ held # {} => \A r \in Requests : req[r] = Idle

Focus == Apart /\ OneHold
=============================================================================
