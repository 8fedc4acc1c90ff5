----------------------------- MODULE TenantData -----------------------------
(***************************************************************************)
(* What an organization may expect of its documents, wherever they are     *)
(* stored: a document changes when the tenant writes it, one version after *)
(* another, and at no other time.  Where the organization's data lives and *)
(* whether it is being moved does not appear here.                         *)
(***************************************************************************)
EXTENDS Naturals

CONSTANT Document

VARIABLE data      \* the version of each document the tenant sees, 0: none

Init == data = [d \in Document |-> 0]

Write(d) == data' = [data EXCEPT ![d] = @ + 1]

Next == \E d \in Document : Write(d)

Spec == Init /\ [][Next]_data
=============================================================================
