------------------------------ MODULE MCSignup ------------------------------
(* Two colleagues of one company, for the run of Signup. *)
EXTENDS Signup, TLC

CONSTANTS e1, e2, d1

MCEmails == {e1, e2}
MCDomains == {d1}
MCDomainOf == e1 :> d1 @@ e2 :> d1

Symmetric == Permutations(MCEmails) \cup Permutations(OrgIds) \cup Permutations(InviteIds) \cup Permutations(Requests)
=============================================================================
