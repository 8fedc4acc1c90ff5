---------------------------- MODULE SeatLicences ----------------------------
(***************************************************************************)
(* What the seats of an organization promise, with no requests, database   *)
(* or failures in sight: a fixed set of licences, each with at most one    *)
(* holder; an account is live only while it holds one; a licence is taken  *)
(* back only from an account that is not live.                             *)
(***************************************************************************)
CONSTANTS
    Licence,
    Account,
    Nobody    \* the holder of a free licence, no account

VARIABLES
    holder,   \* who holds each licence
    live      \* the accounts that may sign in

vars == <<holder, live>>

Holds(a) == \E l \in Licence : holder[l] = a

Init ==
    /\ holder = [l \in Licence |-> Nobody]
    /\ live = {}

Grant(l, a) ==
    /\ holder[l] = Nobody /\ ~Holds(a)
    /\ holder' = [holder EXCEPT ![l] = a]

\* A new account goes live with the licence; a closed one first waits.
Register(l, a) == Grant(l, a) /\ live' = live \cup {a}
Reserve(l, a)  == Grant(l, a) /\ live' = live

Activate(a) ==
    /\ Holds(a)
    /\ live' = live \cup {a}
    /\ UNCHANGED holder

Deactivate(a) ==
    /\ live' = live \ {a}
    /\ UNCHANGED holder

Revoke(l) ==
    /\ holder[l] \notin live
    /\ holder' = [holder EXCEPT ![l] = Nobody]
    /\ UNCHANGED live

Next ==
    \/ \E l \in Licence, a \in Account : Register(l, a) \/ Reserve(l, a)
    \/ \E a \in Account : Activate(a) \/ Deactivate(a)
    \/ \E l \in Licence : Revoke(l)

Spec == Init /\ [][Next]_vars

-----------------------------------------------------------------------------
\* Each account holds at most one licence, and each live one exactly one.
OneLicenceEach ==
    \A l, m \in Licence : holder[l] = holder[m] /\ holder[l] # Nobody => l = m

LiveAreLicensed == \A a \in live : Holds(a)
=============================================================================
