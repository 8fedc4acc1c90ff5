--------------------------- MODULE MCAccountAccess ---------------------------
(* Two users, one of them the administrator, for the run of AccountAccess. *)
EXTENDS AccountAccess, TLC

CONSTANTS admin, user

MCUsers == {admin, user}

Symmetric == Permutations(Sids) \cup Permutations(Tokens) \cup Permutations(Requests)

Updated ==
    \/ \E p \in Requests : req[p].op = "update" /\ req[p].pc \in {"handler", "save"}
    \/ \E u \in Users : account[u].exists /\ (account[u].hold \/ account[u].archived \/ ~account[u].verified)

Alive == \A s \in given : store[s] # None \/ \E p \in Requests : req[p].sid = s

\* The parts of the system take turns: sessions end where there is no token, no
\* document and no account under change, and only there is a third one; tokens
\* and changes to accounts need no more than one session, and two sessions see
\* one version published.
Focus ==
    /\ issued # {} \/ docs # <<>> \/ Updated => Alive /\ loose = {} /\ Cardinality(given) <= 2
    /\ issued # {} \/ Updated => docs = <<>> /\ Cardinality(given) <= 1
    /\ Cardinality(issued) <= 1 \/ ~Updated
    /\ Cardinality(given) <= 1 \/ Len(docs) <= 1
=============================================================================
