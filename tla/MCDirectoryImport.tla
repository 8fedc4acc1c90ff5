------------------------- MODULE MCDirectoryImport --------------------------
(* Model values for the run of DirectoryImport. *)
EXTENDS DirectoryImport, TLC

CONSTANTS x1, n1, n2, e1

NoKey == [ext |-> None, name |-> None]
K(x, n) == [ext |-> x, name |-> n]

Bare == [email |-> None, company |-> NoKey, location |-> NoKey, office |-> NoKey, archive |-> FALSE,
         hold |-> FALSE]

\* A name; an external id with either name; a location; an office, held or archived.
MCRows ==
    {[Bare EXCEPT !.company = K(None, n1), !.email = e1],
     [Bare EXCEPT !.company = K(x1, n1), !.location = K(x1, n1)],
     [Bare EXCEPT !.company = K(x1, n2), !.office = K(None, n1), !.hold = TRUE],
     [Bare EXCEPT !.email = e1, !.office = K(None, n1), !.archive = TRUE]}

MCExts == {x1}
MCNames == {n1, n2}
MCEmails == {e1}

Symmetric == Permutations(Companies) \cup Permutations(People)
=============================================================================
