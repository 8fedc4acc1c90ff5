------------------------ MODULE MCDatastoreMigration ------------------------
(* Symmetry for the runs of DatastoreMigration. *)
EXTENDS DatastoreMigration, TLC

\* Requests are interchangeable.
Symmetry == Permutations(Requests)
=============================================================================
