------------------------ MODULE MCContactMigration --------------------------
(* Model values for the run of ContactMigration. *)
EXTENDS ContactMigration, TLC

CONSTANTS e1, f1, n1, u1

Plain == [kind |-> "individual", live |-> TRUE, email |-> Nothing, phone |-> Nothing,
          company |-> Nothing, manager |-> 0, user |-> Nothing]

MCProfiles ==
    {[Plain EXCEPT !.email = e1, !.manager = 2],
     [Plain EXCEPT !.phone = f1, !.company = n1],
     [Plain EXCEPT !.phone = f1, !.manager = 1],
     [Plain EXCEPT !.live = FALSE, !.email = e1],
     [Plain EXCEPT !.user = u1, !.manager = 2],
     [Plain EXCEPT !.kind = "business", !.company = n1]}

MCLast == 2
MCEmails == {e1}
MCPhones == {f1}
MCNames == {n1}
MCUsers == {u1}

Symmetric == Permutations(People)
=============================================================================
