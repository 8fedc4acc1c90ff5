---------------------------- MODULE MCUserSeats ----------------------------
(* Model values and symmetry for the runs of UserSeats. *)
EXTENDS UserSeats, TLC

\* Accounts are interchangeable, and so are requests and projects.
Symmetry == Permutations(Users) \cup Permutations(Requests) \cup Permutations(Projects)
=============================================================================
