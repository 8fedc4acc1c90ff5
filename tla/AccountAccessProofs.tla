------------------------- MODULE AccountAccessProofs -------------------------
(***************************************************************************)
(* Theorems about AccountAccess, for any users, sessions, tokens, versions *)
(* and dates, and any number of requests: nothing of the bounds of the     *)
(* runs remains, where the parts of the module take turns.                 *)
(***************************************************************************)
EXTENDS AccountAccess, WellFoundedInduction, TLAPS

-----------------------------------------------------------------------------
(* The latest of finitely many                                             *)

LEMMA LeastExists ==
    ASSUME NEW T, T \subseteq Nat, T # {}
    PROVE  \E k \in T : \A m \in T : ~(m < k)
<1>1. PICK k \in T : \A m \in T : <<m, k>> \notin OpToRel(<, Nat)
  BY WFMin, NatLessThanWellFounded
<1> QED
  BY <1>1 DEF OpToRel

\* The last of the greatest members of a sequence of numbers exists: otherwise
\* there would be a shortest prefix that has none.
LEMMA LatestExists ==
    ASSUME NEW n \in Nat, n # 0, NEW f \in [1 .. n -> Nat]
    PROVE  \E i \in 1 .. n : \A j \in 1 .. n : f[i] > f[j] \/ (f[i] = f[j] /\ i >= j)
<1> DEFINE Latest(i, k) == \A j \in 1 .. k : f[i] > f[j] \/ (f[i] = f[j] /\ i >= j)
           T == {k \in Nat : k \in 1 .. n /\ ~ \E i \in 1 .. k : Latest(i, k)}
<1> SUFFICES ASSUME n \in T PROVE FALSE
  OBVIOUS
<1>1. PICK k \in T : \A m \in T : ~(m < k)
  <2>1. T \subseteq Nat /\ T # {}
    OBVIOUS
  <2> HIDE DEF T
  <2> QED
    BY <2>1, LeastExists
<1>2. k \in 1 .. n /\ (~ \E i \in 1 .. k : Latest(i, k)) /\ f[k] \in Nat
  OBVIOUS
<1>3. \A m \in 1 .. n : m < k => \E i \in 1 .. m : Latest(i, m)
  <2> HIDE DEF Latest
  <2> SUFFICES ASSUME NEW m \in 1 .. n, m < k, m \notin T PROVE \E i \in 1 .. m : Latest(i, m)
    BY <1>1
  <2> QED
    OBVIOUS
<1> HIDE DEF T
<1>4. CASE k = 1
  <2>1. Latest(1, 1)
    BY <1>2, <1>4
  <2> QED
    BY <1>2, <1>4, <2>1
<1>5. CASE k # 1
  <2>1. k - 1 \in 1 .. n /\ k - 1 < k
    BY <1>2, <1>5
  <2>2. PICK i \in 1 .. (k - 1) : Latest(i, k - 1)
    BY <1>3, <2>1
  <2>3. i \in 1 .. k /\ i < k /\ f[i] \in Nat /\ \A j \in 1 .. k : j = k \/ j \in 1 .. (k - 1)
    BY <1>2, <2>1
  <2>4. \A j \in 1 .. (k - 1) : f[j] \in Nat
    BY <1>2, <2>1
  <2>5. CASE f[i] > f[k]
    <3>1. Latest(i, k)
      BY <2>2, <2>3, <2>5
    <3> QED
      BY <1>2, <2>3, <3>1
  <2>6. CASE ~(f[i] > f[k])
    <3>1. Latest(k, k)
      BY <1>2, <2>2, <2>3, <2>4, <2>6
    <3> QED
      BY <1>2, <3>1
  <2> QED
    BY <2>5, <2>6
<1> QED
  BY <1>4, <1>5

\* The version in force is a version that has been published.
LEMMA InForceType ==
    ASSUME docs \in Seq(Doc), docs # <<>>
    PROVE  InForce \in Versions
<1> DEFINE n == Len(docs)
           f == [i \in 1 .. n |-> docs[i].at]
           later(i, j) == docs[i].at > docs[j].at \/ (docs[i].at = docs[j].at /\ i >= j)
<1>1. n \in Nat /\ n # 0 /\ DOMAIN docs = 1 .. n /\ \A i \in 1 .. n : docs[i] \in Doc
  OBVIOUS
<1>2. f \in [1 .. n -> Nat]
  BY <1>1, AccessAssumption DEF Doc
<1>3. \E i \in 1 .. n : \A j \in 1 .. n : later(i, j)
  <2>1. \E i \in 1 .. n : \A j \in 1 .. n : f[i] > f[j] \/ (f[i] = f[j] /\ i >= j)
    <3> HIDE DEF n, f
    <3> QED
      BY <1>1, <1>2, LatestExists
  <2> QED
    BY <1>1, <2>1
<1>4. (CHOOSE i \in DOMAIN docs : \A j \in DOMAIN docs : later(i, j)) \in 1 .. n
  BY <1>1, <1>3
<1>5. InForce = docs[CHOOSE i \in DOMAIN docs : \A j \in DOMAIN docs : later(i, j)].version
  BY DEF InForce
<1> HIDE DEF later, n, f
<1> QED
  BY <1>1, <1>4, <1>5 DEF Doc

LEMMA DefaultVersionType == DefaultVersion \in Versions
<1>1. Versions \subseteq Nat /\ Versions # {}
  BY AccessAssumption
<1>2. PICK v \in Versions : \A w \in Versions : ~(w < v)
  BY <1>1, LeastExists
<1>3. \A w \in Versions : v <= w
  BY <1>1, <1>2
<1> QED
  BY <1>3 DEF DefaultVersion

\* What acceptanceStatus takes for accepted has been accepted.
LEMMA CurrentAccepted ==
    ASSUME NEW u \in Users, accepted[u] \in Seq(Versions), NEW v \in Current(u)
    PROVE  v = None \/ v \in Range(accepted[u])
<1> DEFINE s == accepted[u]
           n == Len(s)
<1>1. n \in Nat /\ DOMAIN s = 1 .. n /\ \A i \in 1 .. n : s[i] \in Versions
  OBVIOUS
<1>2. CASE s = <<>>
  BY <1>2 DEF Current
<1>3. CASE s # <<>>
  <2>1. n # 0
    BY <1>3
  <2>2. Last(s) \in Range(s)
    BY <1>1, <2>1 DEF Last, Range
  <2>3. \E w \in Range(s) : \A x \in Range(s) : w >= x
    <3>1. s \in [1 .. n -> Nat]
      <4>1. s \in [1 .. n -> Versions] /\ Versions \subseteq Nat
        BY AccessAssumption
      <4> HIDE DEF s, n
      <4> QED
        BY <4>1
    <3>2. PICK i \in 1 .. n : \A j \in 1 .. n : s[i] > s[j] \/ (s[i] = s[j] /\ i >= j)
      <4> HIDE DEF n, s
      <4> QED
        BY <1>1, <2>1, <3>1, LatestExists
    <3>3. \A x \in Range(s) : s[i] >= x
      BY <1>1, <3>1, <3>2 DEF Range
    <3> QED
      BY <1>1, <3>3 DEF Range
  <2>4. (CHOOSE w \in Range(s) : \A x \in Range(s) : w >= x) \in Range(s)
    BY <2>3
  <2> QED
    BY <1>3, <2>2, <2>4 DEF Current
<1> QED
  BY <1>2, <1>3

-----------------------------------------------------------------------------
(* The inductive invariants.  Types and what a request has in hand:           *)

WellFormed(r) ==
    /\ r.pc \in {"guard", "status", "enlist", "multi", "destroy", "save"} \/ (r.pc = "handler" /\ r.op # "boot")
         => r.sid \in Sids /\ r.user \in Users
    /\ r.pc = "guard" => r.doc = None
    /\ r.pc \in {"status", "create"} => r.doc \in Versions
    /\ r.pc = "create" /\ r.op = "accept" => r.user \in Users
    /\ r.pc = "remove" => r.sid \in Sids /\ r.user = None
    /\ r.pc \in {"remove", "regenerate", "write", "save"} => r.target \in Users
    /\ r.pc = "write" => r.token \in Tokens
    /\ r.pc = "save" => r.field \in {"verified", "hold", "archived"}

TypeInv == TypeOK /\ \A p \in Requests : WellFormed(req[p])

(* Sessions.  Who claims a session: its record, the lists, the requests that  *)
(* have it loaded or are about to enter it.                                   *)

Claims(s, u) ==
    \/ store[s] = u
    \/ s \in sets[u]
    \/ \E p \in Requests : req[p].sid = s /\ req[p].user = u

OneClaim == \A s \in Sids, u, v \in Users : Claims(s, u) /\ Claims(s, v) => u = v

ClaimsGiven == \A s \in Sids, u \in Users : Claims(s, u) => s \in given

\* Who saves his session at the end finds it in the list.
Saves(r) == r.sid \in Sids /\ r.user \in Users /\ r.pc \notin {"regenerate", "enlist", "destroy"}

SavesListed ==
    \A p \in Requests : Saves(req[p]) => req[p].sid \in loose \/ req[p].sid \in sets[req[p].user]

SessionInv == OneClaim /\ ClaimsGiven /\ SavesListed /\ SessionsRevocable

(* Tokens.  A token is in one place: in flight, or in one field of one        *)
(* account, or nowhere any more.                                              *)

Writing(p, op) == req[p].pc = "write" /\ req[p].op = op

Held(t) == \E u \in Users : t \in {account[u].reset, account[u].verify}

OnePlace ==
    \A t \in Tokens, u, v \in Users :
       /\ account[u].reset = t => account[v].verify # t /\ (account[v].reset = t => u = v)
       /\ account[u].verify = t /\ account[v].verify = t => u = v

TokenOK(p) ==
    LET r == req[p] IN
    /\ r.pc = "write" => r.token \in issued
    /\ Writing(p, "forgot") =>
         /\ r.token \notin spent /\ ~Held(r.token)
         /\ \A q \in Requests \ {p} : req[q].pc = "write" => req[q].token # r.token
    /\ Writing(p, "reset") =>
         \A u \in Users : account[u].verify # r.token /\ (account[u].reset = r.token => u = r.target)
    /\ Writing(p, "verify") =>
         \A u \in Users : account[u].reset # r.token /\ (account[u].verify = r.token => u = r.target)

TokenInv ==
    /\ \A t \in Tokens : Held(t) => t \in issued \ spent
    /\ OnePlace
    /\ \A p \in Requests : TokenOK(p)

-----------------------------------------------------------------------------
(* How a request's record moves                                               *)

PCs == {"idle", "guard", "status", "handler", "regenerate", "enlist", "remove", "multi",
        "destroy", "create", "write", "save", "end"}

Moves(p, r) ==
    /\ req' \in [Requests -> Request] /\ req'[p] = r
    /\ \A q \in Requests \ {p} : req'[q] = req[q]

LEMMA IdleType == Idle \in Request /\ WellFormed(Idle) /\ Idle.user = None /\ Idle.pc = "idle"
BY DEF Idle, Request, NoAccount, Account, WellFormed

LEMMA RequestMoves ==
    ASSUME TypeOK, NEW p \in Requests, NEW r \in Request, req' = [req EXCEPT ![p] = r]
    PROVE  Moves(p, r)
BY DEF TypeOK, Moves

LEMMA FinishMoves ==
    ASSUME TypeOK, NEW p \in Requests, Finish(p)
    PROVE  Moves(p, Idle)
BY IdleType, RequestMoves DEF Finish

LEMMA GotoMoves ==
    ASSUME TypeOK, NEW p \in Requests, NEW pc \in PCs, Goto(p, pc)
    PROVE  /\ Moves(p, req'[p])
           /\ req'[p] = [req[p] EXCEPT !.pc = pc]
           /\ req'[p].pc = pc /\ req'[p].op = req[p].op
           /\ req'[p].sid = req[p].sid /\ req'[p].user = req[p].user /\ req'[p].doc = req[p].doc
<1> DEFINE r == [req[p] EXCEPT !.pc = pc]
<1>1. req[p] \in Request
  BY DEF TypeOK
<1>2. /\ r \in Request /\ r.pc = pc /\ r.op = req[p].op
      /\ r.sid = req[p].sid /\ r.user = req[p].user /\ r.doc = req[p].doc
  BY <1>1 DEF Request, PCs
<1>3. req' = [req EXCEPT ![p] = r]
  BY DEF Goto
<1> HIDE DEF r
<1>4. Moves(p, r)
  BY <1>2, <1>3, RequestMoves
<1>5. req'[p] = r
  BY <1>4 DEF Moves
<1> QED
  BY <1>2, <1>4, <1>5 DEF r

LEMMA RespondMoves ==
    ASSUME TypeOK, NEW p \in Requests, Respond(p)
    PROVE  /\ Moves(p, req'[p]) /\ WellFormed(req'[p])
           /\ req'[p].pc = "end" /\ req'[p].sid = req[p].sid /\ req'[p].user = req[p].user
<1> DEFINE r == [Idle EXCEPT !.pc = "end", !.sid = req[p].sid, !.user = req[p].user]
<1>1. req[p].sid \in Sids \cup {None} /\ req[p].user \in Users \cup {None}
  BY DEF TypeOK, Request
<1>2. r \in Request /\ r.pc = "end" /\ r.sid = req[p].sid /\ r.user = req[p].user
  BY <1>1 DEF Request, Idle, NoAccount, Account
<1>3. req' = [req EXCEPT ![p] = r]
  BY DEF Respond
<1> HIDE DEF r
<1>4. Moves(p, r) /\ WellFormed(r)
  BY <1>2, <1>3, RequestMoves DEF WellFormed
<1>5. req'[p] = r
  BY <1>4 DEF Moves
<1> QED
  BY <1>2, <1>4, <1>5

\* The types after a step that moves one record.
LEMMA TypeKeeps ==
    ASSUME TypeInv, NEW p \in Requests, NEW r, Moves(p, r), WellFormed(r),
           account' \in [Users -> Account],
           issued' \subseteq Tokens, expired' \subseteq issued', spent' \subseteq issued',
           store' \in [Sids -> Users \cup {None}], sets' \in [Users -> SUBSET Sids],
           given' \subseteq Sids, loose' \subseteq Sids,
           docs' \in Seq(Doc), accepted' \in [Users -> Seq(Versions)]
    PROVE  TypeInv'
<1>1. TypeOK'
  BY DEF TypeOK, Moves
<1>2. \A q \in Requests : WellFormed(req'[q])
  BY DEF TypeInv, Moves
<1> QED
  BY <1>1, <1>2 DEF TypeInv, WellFormed

LEMMA Typed ==
    ASSUME TypeInv
    PROVE  /\ account \in [Users -> Account]
           /\ issued \subseteq Tokens /\ expired \subseteq issued /\ spent \subseteq issued
           /\ store \in [Sids -> Users \cup {None}] /\ sets \in [Users -> SUBSET Sids]
           /\ given \subseteq Sids /\ loose \subseteq Sids
           /\ docs \in Seq(Doc) /\ accepted \in [Users -> Seq(Versions)]
           /\ req \in [Requests -> Request] /\ \A p \in Requests : req[p] \in Request /\ WellFormed(req[p])
           /\ TypeOK
BY DEF TypeInv, TypeOK

-----------------------------------------------------------------------------
(* Steps that leave sessions, tokens and accounts alone                       *)

\* The request goes on, or ends, with the session it had.
Quiet(p) ==
    /\ Moves(p, req'[p])
    /\ UNCHANGED <<sessions, accounts>>
    /\ \/ req'[p].user = None
       \/ /\ req'[p].sid = req[p].sid /\ req'[p].user = req[p].user
          /\ Saves(req'[p]) => Saves(req[p])
    /\ req'[p].pc # "write"

HandOn(p, pc, d) == req' = [req EXCEPT ![p].pc = pc, ![p].doc = d]

LEMMA HandOnMoves ==
    ASSUME TypeOK, NEW p \in Requests, NEW pc \in PCs, NEW d \in Versions \cup {None}, HandOn(p, pc, d)
    PROVE  /\ Moves(p, req'[p])
           /\ req'[p].pc = pc /\ req'[p].doc = d /\ req'[p].op = req[p].op
           /\ req'[p].sid = req[p].sid /\ req'[p].user = req[p].user
<1> DEFINE m == [req[p] EXCEPT !.pc = pc]
           n == [m EXCEPT !.doc = d]
<1>1. req[p] \in Request
  BY DEF TypeOK
<1>2. m \in Request /\ m.pc = pc /\ m.op = req[p].op /\ m.sid = req[p].sid /\ m.user = req[p].user
  BY <1>1 DEF Request, PCs
<1>3. req' = [req EXCEPT ![p] = n]
  BY DEF HandOn, TypeOK
<1> HIDE DEF m
<1>4. n \in Request /\ n.pc = m.pc /\ n.doc = d /\ n.op = m.op /\ n.sid = m.sid /\ n.user = m.user
  BY <1>2 DEF Request
<1> HIDE DEF n
<1>5. Moves(p, n) /\ req'[p] = n
  BY <1>3, <1>4, RequestMoves DEF Moves
<1> QED
  BY <1>2, <1>4, <1>5

LEMMA GuardDocsStep ==
    ASSUME TypeInv, NEW p \in Requests, GuardDocs(p)
    PROVE  /\ TypeInv' /\ Quiet(p) /\ UNCHANGED accepted
           /\ req'[p].pc = "status" \/ req'[p].doc = None
<1>1. req[p].pc = "guard" /\ req[p] \in Request /\ UNCHANGED <<accounts, sessions, legal>>
  BY Typed DEF GuardDocs
<1>2. PICK pc \in PCs, d \in Versions \cup {None} :
         /\ (pc = "handler" /\ d = None) \/ (pc = "status" /\ d \in Versions)
         /\ HandOn(p, pc, d)
  <2>1. CASE docs # <<>> /\ HandOn(p, "status", InForce)
    <3>1. InForce \in Versions
      BY <2>1, Typed, InForceType
    <3> QED
      BY <2>1, <3>1 DEF PCs
  <2>2. CASE Goto(p, "handler")
    <3>1. HandOn(p, "handler", None)
      <4> DEFINE r == [req[p] EXCEPT !.pc = "handler"]
      <4>1. req[p].doc = None
        BY <1>1, Typed DEF WellFormed
      <4>2. r = [r EXCEPT !.doc = None]
        BY <1>1, <4>1 DEF Request
      <4>3. req' = [req EXCEPT ![p] = r]
        BY <2>2 DEF Goto
      <4> QED
        BY <4>2, <4>3, Typed DEF HandOn
    <3> QED
      BY <3>1 DEF PCs
  <2> QED
    BY <2>1, <2>2 DEF GuardDocs, HandOn
<1>3. /\ Moves(p, req'[p])
      /\ req'[p].pc = pc /\ req'[p].doc = d /\ req'[p].op = req[p].op
      /\ req'[p].sid = req[p].sid /\ req'[p].user = req[p].user
  BY <1>2, Typed, HandOnMoves
<1>4. WellFormed(req'[p])
  BY <1>1, <1>2, <1>3, Typed DEF WellFormed
<1>5. TypeInv'
  BY <1>1, <1>3, <1>4, Typed, TypeKeeps DEF accounts, sessions, legal
<1>6. Quiet(p)
  BY <1>1, <1>2, <1>3 DEF Quiet, Saves
<1> QED
  BY <1>1, <1>2, <1>3, <1>5, <1>6 DEF legal

\* What passing a request on, and answering it, have in common.
LEMMA RespondStep ==
    ASSUME TypeInv, NEW p \in Requests, Respond(p), UNCHANGED <<accounts, sessions, docs, accepted>>,
           req[p].pc \notin {"regenerate", "enlist", "destroy"}
    PROVE  TypeInv' /\ Quiet(p) /\ req'[p].pc = "end"
<1>1. /\ Moves(p, req'[p]) /\ WellFormed(req'[p])
      /\ req'[p].pc = "end" /\ req'[p].sid = req[p].sid /\ req'[p].user = req[p].user
  BY Typed, RespondMoves
<1>2. TypeInv'
  BY <1>1, Typed, TypeKeeps DEF accounts, sessions
<1>3. Quiet(p)
  BY <1>1 DEF Quiet, Saves
<1> QED
  BY <1>1, <1>2, <1>3

LEMMA GuardStatusStep ==
    ASSUME TypeInv, NEW p \in Requests, GuardStatus(p)
    PROVE  /\ TypeInv' /\ Quiet(p) /\ UNCHANGED accepted
           /\ \/ req'[p].pc = "end"
              \/ req'[p].user = req[p].user /\ req'[p].doc \in Current(req[p].user)
<1>1. req[p].pc = "status" /\ UNCHANGED <<accounts, sessions, docs, accepted>>
  BY DEF GuardStatus, legal
<1>2. PICK v \in Current(req[p].user) : IF v = req[p].doc THEN Goto(p, "handler") ELSE Respond(p)
  BY DEF GuardStatus
<1>3. CASE v # req[p].doc
  BY <1>1, <1>2, <1>3, RespondStep
<1>4. CASE v = req[p].doc
  <2>1. /\ Moves(p, req'[p]) /\ req'[p].pc = "handler" /\ req'[p].op = req[p].op
        /\ req'[p].sid = req[p].sid /\ req'[p].user = req[p].user /\ req'[p].doc = req[p].doc
    BY <1>2, <1>4, Typed, GotoMoves DEF PCs
  <2>2. WellFormed(req'[p])
    BY <1>1, <2>1, Typed DEF WellFormed
  <2>3. TypeInv'
    BY <1>1, <2>1, <2>2, Typed, TypeKeeps DEF accounts, sessions
  <2>4. Quiet(p)
    BY <1>1, <2>1 DEF Quiet, Saves
  <2> QED
    BY <1>1, <1>4, <2>1, <2>3, <2>4
<1> QED
  BY <1>3, <1>4

LEMMA PublishStep ==
    ASSUME TypeInv, NEW p \in Requests, PublishFind(p) \/ PublishCreate(p)
    PROVE  TypeInv' /\ Quiet(p) /\ UNCHANGED accepted /\ req'[p].pc \in {"end", "create"}
<1>1. UNCHANGED <<accounts, sessions, accepted>>
  BY DEF PublishFind, PublishCreate, legal
<1>2. CASE PublishFind(p)
  <2>1. UNCHANGED docs /\ req[p].pc = "handler" /\ req[p].op \in {"publish", "boot"}
    BY <1>2 DEF PublishFind, legal
  <2>2. PICK v \in Versions : IF v \in Published THEN Respond(p)
                              ELSE req' = [req EXCEPT ![p].pc = "create", ![p].doc = v]
    BY <1>2, DefaultVersionType DEF PublishFind
  <2>3. CASE v \in Published
    BY <1>1, <2>1, <2>2, <2>3, RespondStep
  <2>4. CASE v \notin Published
    <3>1. HandOn(p, "create", v)
      BY <2>2, <2>4 DEF HandOn
    <3>2. /\ Moves(p, req'[p])
          /\ req'[p].pc = "create" /\ req'[p].doc = v /\ req'[p].op = req[p].op
          /\ req'[p].sid = req[p].sid /\ req'[p].user = req[p].user
      BY <3>1, Typed, HandOnMoves DEF PCs
    <3>3. WellFormed(req'[p])
      BY <2>1, <3>2, Typed DEF WellFormed
    <3>4. TypeInv'
      BY <1>1, <2>1, <3>2, <3>3, Typed, TypeKeeps DEF accounts, sessions
    <3>5. Quiet(p)
      BY <1>1, <2>1, <3>2 DEF Quiet, Saves
    <3> QED
      BY <1>1, <3>2, <3>4, <3>5
  <2> QED
    BY <2>3, <2>4
<1>3. CASE PublishCreate(p)
  <2>1. /\ Respond(p) /\ req[p].pc = "create" /\ req[p].doc \in Versions
        /\ \/ UNCHANGED docs
           \/ \E d \in Dates : docs' = Append(docs, [version |-> req[p].doc, at |-> d])
    BY <1>3, Typed DEF PublishCreate, WellFormed
  <2>2. docs' \in Seq(Doc)
    <3>1. docs \in Seq(Doc)
      BY Typed
    <3>2. ASSUME NEW d \in Dates, docs' = Append(docs, [version |-> req[p].doc, at |-> d])
          PROVE  docs' \in Seq(Doc)
      <4>1. [version |-> req[p].doc, at |-> d] \in Doc
        BY <2>1 DEF Doc
      <4> QED
        BY <3>1, <3>2, <4>1
    <3> QED
      BY <2>1, <3>1, <3>2
  <2>3. /\ Moves(p, req'[p]) /\ WellFormed(req'[p])
        /\ req'[p].pc = "end" /\ req'[p].sid = req[p].sid /\ req'[p].user = req[p].user
    BY <2>1, Typed, RespondMoves
  <2>4. TypeInv'
    BY <1>1, <2>2, <2>3, Typed, TypeKeeps DEF accounts, sessions
  <2>5. Quiet(p)
    BY <1>1, <2>1, <2>3 DEF Quiet, Saves
  <2> QED
    BY <1>1, <2>3, <2>4, <2>5
<1> QED
  BY <1>2, <1>3

\* Acceptances are added, never taken away.
LEMMA AcceptStep ==
    ASSUME TypeInv, NEW p \in Requests, AcceptFind(p) \/ AcceptCreate(p)
    PROVE  /\ TypeInv' /\ Quiet(p) /\ req'[p].pc \in {"end", "create"}
           /\ \A u \in Users : Range(accepted[u]) \subseteq Range(accepted'[u])
<1>1. UNCHANGED <<accounts, sessions, docs>>
  BY DEF AcceptFind, AcceptCreate, legal
<1>2. CASE AcceptFind(p)
  <2>1. UNCHANGED accepted /\ req[p].pc = "handler" /\ req[p].op = "accept"
    BY <1>2 DEF AcceptFind, legal
  <2>2. PICK v \in Published : IF v \in Range(accepted[req[p].user]) THEN Respond(p)
                               ELSE req' = [req EXCEPT ![p].pc = "create", ![p].doc = v]
    BY <1>2 DEF AcceptFind
  <2>3. CASE v \in Range(accepted[req[p].user])
    BY <1>1, <2>1, <2>2, <2>3, RespondStep
  <2>4. CASE v \notin Range(accepted[req[p].user])
    <3>1. v \in Versions
      <4>1. \A i \in DOMAIN docs : docs[i] \in Doc
        BY Typed
      <4> QED
        BY <4>1 DEF Published, Doc
    <3>2. HandOn(p, "create", v)
      BY <2>2, <2>4 DEF HandOn
    <3>3. /\ Moves(p, req'[p])
          /\ req'[p].pc = "create" /\ req'[p].doc = v /\ req'[p].op = req[p].op
          /\ req'[p].sid = req[p].sid /\ req'[p].user = req[p].user
      BY <3>1, <3>2, Typed, HandOnMoves DEF PCs
    <3>4. WellFormed(req'[p])
      BY <2>1, <3>1, <3>3, Typed DEF WellFormed
    <3>5. TypeInv'
      BY <1>1, <2>1, <3>3, <3>4, Typed, TypeKeeps DEF accounts, sessions
    <3>6. Quiet(p)
      BY <1>1, <2>1, <3>3 DEF Quiet, Saves
    <3> QED
      BY <2>1, <3>3, <3>5, <3>6
  <2> QED
    BY <2>3, <2>4
<1>3. CASE AcceptCreate(p)
  <2> DEFINE u == req[p].user
             s == Append(accepted[u], req[p].doc)
  <2>1. /\ Respond(p) /\ req[p].pc = "create" /\ req[p].doc \in Versions /\ u \in Users
        /\ accepted' = accepted \/ accepted' = [accepted EXCEPT ![u] = s]
    BY <1>3, Typed DEF AcceptCreate, WellFormed
  <2>2. s \in Seq(Versions) /\ Range(accepted[u]) \subseteq Range(s)
    <3>1. accepted[u] \in Seq(Versions)
      BY <2>1, Typed
    <3>2. /\ s \in Seq(Versions) /\ Len(s) = Len(accepted[u]) + 1
          /\ \A i \in 1 .. Len(accepted[u]) : s[i] = accepted[u][i]
      BY <2>1, <3>1
    <3>3. DOMAIN accepted[u] = 1 .. Len(accepted[u]) /\ DOMAIN s = 1 .. Len(s) /\ Len(accepted[u]) \in Nat
      BY <3>1, <3>2
    <3> QED
      BY <3>2, <3>3 DEF Range
  <2> HIDE DEF s
  <2>3. /\ accepted' \in [Users -> Seq(Versions)]
        /\ \A v \in Users : Range(accepted[v]) \subseteq Range(accepted'[v])
    BY <2>1, <2>2, Typed
  <2>4. /\ Moves(p, req'[p]) /\ WellFormed(req'[p])
        /\ req'[p].pc = "end" /\ req'[p].sid = req[p].sid /\ req'[p].user = req[p].user
    BY <2>1, Typed, RespondMoves
  <2>5. TypeInv'
    BY <1>1, <2>3, <2>4, Typed, TypeKeeps DEF accounts, sessions
  <2>6. Quiet(p)
    BY <1>1, <2>1, <2>4 DEF Quiet, Saves
  <2> QED
    BY <2>3, <2>4, <2>5, <2>6
<1> QED
  BY <1>2, <1>3

LEMMA RevokeAllStep ==
    ASSUME TypeInv, NEW p \in Requests, RevokeAll(p)
    PROVE  TypeInv' /\ Quiet(p) /\ UNCHANGED accepted /\ req'[p].pc = "multi"
<1> DEFINE r == [req[p] EXCEPT !.pc = "multi", !.ids = sets[req[p].user]]
<1>1. /\ req[p].pc = "handler" /\ req[p].op = "all" /\ req[p].sid \in Sids /\ req[p].user \in Users
      /\ req[p] \in Request /\ sets[req[p].user] \subseteq Sids
      /\ UNCHANGED <<accounts, sessions, legal>>
  BY Typed DEF RevokeAll, WellFormed
<1>2. r \in Request /\ r.pc = "multi" /\ r.sid = req[p].sid /\ r.user = req[p].user
  BY <1>1 DEF Request
<1>3. req' = [req EXCEPT ![p] = r]
  BY Typed DEF RevokeAll
<1> HIDE DEF r
<1>4. Moves(p, r) /\ req'[p] = r /\ WellFormed(r)
  BY <1>1, <1>2, <1>3, Typed, RequestMoves DEF Moves, WellFormed
<1>5. TypeInv'
  BY <1>1, <1>4, Typed, TypeKeeps DEF accounts, sessions, legal
<1>6. Quiet(p)
  BY <1>1, <1>2, <1>4 DEF Quiet, Saves
<1> QED
  BY <1>1, <1>2, <1>4, <1>5, <1>6 DEF legal

\* A MULTI that fails leaves the session as the request has it, or there is none.
LEMMA MultiFailsStep ==
    ASSUME TypeInv, NEW p \in Requests, MultiFails(p)
    PROVE  TypeInv' /\ Quiet(p) /\ UNCHANGED accepted /\ req'[p].pc # "handler"
<1>1. UNCHANGED <<accounts, sessions, docs, accepted>>
  BY DEF MultiFails, legal
<1>2. CASE req[p].pc = "remove" /\ Finish(p)
  <2>1. Moves(p, Idle) /\ req'[p] = Idle
    BY <1>2, Typed, FinishMoves DEF Moves
  <2>2. TypeInv'
    BY <1>1, <2>1, IdleType, Typed, TypeKeeps DEF accounts, sessions
  <2> QED
    BY <1>1, <2>1, <2>2, IdleType DEF Quiet
<1>3. CASE req[p].pc \in {"multi", "handler"} /\ Respond(p)
  BY <1>1, <1>3, RespondStep
<1> QED
  BY <1>2, <1>3 DEF MultiFails

LEMMA UserLoadStep ==
    ASSUME TypeInv, NEW p \in Requests, UserLoad(p)
    PROVE  TypeInv' /\ Quiet(p) /\ UNCHANGED accepted /\ req'[p].pc = "save"
<1>1. /\ req[p].pc = "handler" /\ req[p].op = "update" /\ req[p].sid \in Sids /\ req[p].user \in Users
      /\ req[p] \in Request /\ UNCHANGED <<accounts, sessions, legal>>
  BY Typed DEF UserLoad, WellFormed
<1>2. PICK u \in Users, f \in {"verified", "hold", "archived"} :
         req' = [req EXCEPT ![p].pc = "save", ![p].target = u, ![p].field = f,
                            ![p].copy = [account[u] EXCEPT ![f] = ~@]]
  BY DEF UserLoad
<1>3. PICK c \in Account :
         req' = [req EXCEPT ![p].pc = "save", ![p].target = u, ![p].field = f, ![p].copy = c]
  <2>1. account[u] \in Account
    BY Typed
  <2>2. [account[u] EXCEPT ![f] = ~@] \in Account
    <3>1. CASE f = "verified"
      BY <2>1, <3>1 DEF Account
    <3>2. CASE f = "hold"
      BY <2>1, <3>2 DEF Account
    <3>3. CASE f = "archived"
      BY <2>1, <3>3 DEF Account
    <3> QED
      BY <3>1, <3>2, <3>3
  <2> QED
    BY <1>2, <2>2
<1> DEFINE m == [req[p] EXCEPT !.pc = "save", !.target = u]
           r == [m EXCEPT !.field = f, !.copy = c]
<1>4. m \in Request /\ m.pc = "save" /\ m.target = u /\ m.sid = req[p].sid /\ m.user = req[p].user
  BY <1>1 DEF Request
<1>5. req' = [req EXCEPT ![p] = r]
  BY <1>3, Typed
<1> HIDE DEF m
<1>6. /\ r \in Request /\ r.pc = m.pc /\ r.target = m.target /\ r.field = f
      /\ r.sid = m.sid /\ r.user = m.user
  BY <1>4, ZenonT(30) DEF Request
<1> HIDE DEF r
<1>7. Moves(p, r) /\ req'[p] = r /\ WellFormed(r)
  BY <1>1, <1>4, <1>5, <1>6, Typed, RequestMoves DEF Moves, WellFormed
<1>8. TypeInv'
  BY <1>1, <1>7, Typed, TypeKeeps DEF accounts, sessions, legal
<1>9. Quiet(p)
  BY <1>1, <1>4, <1>6, <1>7 DEF Quiet, Saves
<1> QED
  BY <1>1, <1>4, <1>6, <1>7, <1>8, <1>9 DEF legal

\* The fields an administrator changes are not those that hold tokens.
LEMMA UserSaveStep ==
    ASSUME TypeInv, NEW p \in Requests, UserSave(p)
    PROVE  /\ TypeInv' /\ Moves(p, req'[p])
           /\ UNCHANGED <<issued, expired, spent, sessions, legal>>
           /\ \A u \in Users : account'[u].reset = account[u].reset /\ account'[u].verify = account[u].verify
           /\ Saves(req[p]) /\ req'[p].pc = "end"
           /\ req'[p].sid = req[p].sid /\ req'[p].user = req[p].user
<1> DEFINE u == req[p].target
           f == req[p].field
           c == req[p].copy
<1>1. /\ req[p].pc = "save" /\ u \in Users /\ f \in {"verified", "hold", "archived"} /\ c \in Account
      /\ req[p].sid \in Sids /\ req[p].user \in Users /\ account \in [Users -> Account]
      /\ account' = [account EXCEPT ![u][f] = c[f]] /\ Respond(p)
      /\ UNCHANGED <<issued, expired, spent, sessions, legal>>
  BY Typed DEF UserSave, WellFormed, Request
<1> HIDE DEF u, f, c
<1>2. PICK a \in Account : /\ account' = [account EXCEPT ![u] = a]
                           /\ a.reset = account[u].reset /\ a.verify = account[u].verify
  <2> DEFINE a == [account[u] EXCEPT ![f] = c[f]]
  <2>1. account[u] \in Account /\ account' = [account EXCEPT ![u] = a]
    BY <1>1
  <2>2. a \in Account /\ a.reset = account[u].reset /\ a.verify = account[u].verify
    <3>1. CASE f = "verified"
      BY <1>1, <2>1, <3>1 DEF Account
    <3>2. CASE f = "hold"
      BY <1>1, <2>1, <3>2 DEF Account
    <3>3. CASE f = "archived"
      BY <1>1, <2>1, <3>3 DEF Account
    <3> QED
      BY <1>1, <3>1, <3>2, <3>3
  <2> HIDE DEF a
  <2> QED
    BY <2>1, <2>2
<1>3. /\ account' \in [Users -> Account]
      /\ \A v \in Users : account'[v].reset = account[v].reset /\ account'[v].verify = account[v].verify
  BY <1>1, <1>2
<1>4. /\ Moves(p, req'[p]) /\ WellFormed(req'[p])
      /\ req'[p].pc = "end" /\ req'[p].sid = req[p].sid /\ req'[p].user = req[p].user
  BY <1>1, Typed, RespondMoves
<1>5. TypeInv'
  BY <1>1, <1>3, <1>4, Typed, TypeKeeps DEF sessions, legal
<1> QED
  BY <1>1, <1>3, <1>4, <1>5 DEF Saves

-----------------------------------------------------------------------------
(* Steps with which a request begins                                          *)

Loaded(p) ==
    \/ req'[p].sid = None /\ req'[p].user = None
    \/ req'[p].sid \in Sids /\ req'[p].user \in Users /\ store[req'[p].sid] = req'[p].user

LEMMA ArriveStep ==
    ASSUME TypeInv, NEW p \in Requests, Arrive(p)
    PROVE  /\ TypeInv' /\ Moves(p, req'[p]) /\ Loaded(p)
           /\ UNCHANGED <<accounts, sessions, accepted>>
           /\ req'[p].pc # "write" /\ req'[p].doc = None
<1>1. UNCHANGED <<accounts, sessions, legal>>
  BY DEF Arrive
<1>2. PICK s \in Sids, op \in {"logout", "me", "revoke", "all", "publish", "accept", "update"} :
         /\ store[s] # None
         /\ op \in {"publish", "update"} => store[s] = Admin
         /\ Begin(p, [Idle EXCEPT !.op = op, !.sid = s, !.user = store[s],
                        !.pc = CASE op \notin Open -> "guard" [] op = "me" -> "end" [] OTHER -> "handler"])
  BY Zenon DEF Arrive
<1> DEFINE at == CASE op \notin Open -> "guard" [] op = "me" -> "end" [] OTHER -> "handler"
<1>3. at \in {"guard", "end", "handler"}
  OBVIOUS
<1> HIDE DEF at
<1>4. PICK pc \in {"guard", "end", "handler"} :
         req' = [req EXCEPT ![p] = [Idle EXCEPT !.op = op, !.sid = s, !.user = store[s], !.pc = pc]]
  BY <1>2, <1>3 DEF Begin, at
<1> DEFINE r == [Idle EXCEPT !.op = op, !.sid = s, !.user = store[s], !.pc = pc]
<1>5. store[s] \in Users
  BY <1>2, Typed
<1>6. r \in Request /\ r.pc = pc /\ r.sid = s /\ r.user = store[s] /\ r.doc = None /\ r.op = op
  BY <1>5 DEF Idle, Request, NoAccount, Account
<1> HIDE DEF r
<1>7. Moves(p, r) /\ req'[p] = r /\ WellFormed(r)
  BY <1>4, <1>5, <1>6, Typed, RequestMoves DEF r, Moves, WellFormed
<1>8. TypeInv'
  BY <1>1, <1>7, Typed, TypeKeeps DEF accounts, sessions, legal
<1> QED
  BY <1>1, <1>5, <1>6, <1>7, <1>8 DEF Loaded, legal

LEMMA VisitMoves ==
    ASSUME TypeInv, NEW p \in Requests, NEW r \in Request, Visit(p, r)
    PROVE  /\ Moves(p, req'[p]) /\ Loaded(p)
           /\ req'[p].pc = r.pc /\ req'[p].target = r.target /\ req'[p].op = r.op
<1>1. PICK s \in {None} \cup {t \in Sids : store[t] # None} :
         Begin(p, [r EXCEPT !.sid = s, !.user = IF s = None THEN None ELSE store[s]])
  BY DEF Visit
<1>2. PICK u \in Users \cup {None} :
         /\ (s = None /\ u = None) \/ (s \in Sids /\ u \in Users /\ store[s] = u)
         /\ req' = [req EXCEPT ![p] = [r EXCEPT !.sid = s, !.user = u]]
  BY <1>1, Typed DEF Begin
<1> DEFINE n == [r EXCEPT !.sid = s, !.user = u]
<1>3. /\ n \in Request /\ n.sid = s /\ n.user = u
      /\ n.pc = r.pc /\ n.target = r.target /\ n.op = r.op
  BY <1>1 DEF Request
<1> HIDE DEF n
<1>4. Moves(p, n) /\ req'[p] = n
  BY <1>2, <1>3, Typed, RequestMoves DEF n, Moves
<1> QED
  BY <1>2, <1>3, <1>4 DEF Loaded

LEMMA LoginStep ==
    ASSUME TypeInv, NEW p \in Requests, Login(p)
    PROVE  /\ TypeInv' /\ Moves(p, req'[p]) /\ Loaded(p)
           /\ UNCHANGED <<accounts, sessions, accepted>>
           /\ req'[p].pc = "regenerate"
<1>1. UNCHANGED <<accounts, sessions, legal>>
  BY DEF Login
<1>2. PICK u \in Users : Visit(p, [Idle EXCEPT !.op = "login", !.pc = "regenerate", !.target = u])
  BY DEF Login
<1> DEFINE r == [Idle EXCEPT !.op = "login", !.pc = "regenerate", !.target = u]
<1>3. r \in Request /\ r.pc = "regenerate" /\ r.target = u
  BY DEF Idle, Request, NoAccount, Account
<1> HIDE DEF r
<1>4. Visit(p, r)
  BY <1>2 DEF r
<1>5. Moves(p, req'[p]) /\ Loaded(p) /\ req'[p].pc = "regenerate" /\ req'[p].target = u
  BY <1>3, <1>4, VisitMoves
<1>6. WellFormed(req'[p])
  BY <1>5 DEF WellFormed
<1>7. TypeInv'
  BY <1>1, <1>5, <1>6, Typed, TypeKeeps DEF accounts, sessions, legal
<1> QED
  BY <1>1, <1>5, <1>7 DEF legal

LEMMA RegisterStep ==
    ASSUME TypeInv, NEW p \in Requests, Register(p)
    PROVE  /\ TypeInv' /\ Moves(p, req'[p]) /\ Loaded(p)
           /\ UNCHANGED <<expired, spent, sessions, accepted>>
           /\ req'[p].pc = "regenerate"
           /\ \E u \in Users, t \in {None} \cup (Tokens \ issued) :
                /\ issued' = issued \cup ({t} \ {None})
                /\ account'[u].reset = None /\ account'[u].verify = t
                /\ \A v \in Users \ {u} : account'[v] = account[v]
<1>1. UNCHANGED <<expired, spent, sessions, legal>>
  BY DEF Register
<1>2. PICK u \in Users, t \in {None} \cup (Tokens \ issued) :
         /\ account' = [account EXCEPT ![u] = [NoAccount EXCEPT !.exists = TRUE, !.verified = (t = None), !.verify = t]]
         /\ issued' = issued \cup ({t} \ {None})
         /\ Visit(p, [Idle EXCEPT !.op = "register", !.pc = "regenerate", !.target = u])
  BY DEF Register
<1> DEFINE r == [Idle EXCEPT !.op = "register", !.pc = "regenerate", !.target = u]
           a == [NoAccount EXCEPT !.exists = TRUE, !.verified = (t = None), !.verify = t]
<1>3. r \in Request /\ r.pc = "regenerate" /\ r.target = u
  BY DEF Idle, Request, NoAccount, Account
<1>4. a \in Account /\ a.reset = None /\ a.verify = t
  <2>1. t \in Tokens \cup {None} /\ (t = None) \in BOOLEAN
    OBVIOUS
  <2> QED
    BY <2>1 DEF NoAccount, Account
<1> HIDE DEF r, a
<1>5. Visit(p, r) /\ account' = [account EXCEPT ![u] = a]
  BY <1>2 DEF r, a
<1>6. Moves(p, req'[p]) /\ Loaded(p) /\ req'[p].pc = "regenerate" /\ req'[p].target = u
  BY <1>3, <1>5, VisitMoves
<1>7. WellFormed(req'[p])
  BY <1>6 DEF WellFormed
<1>8. /\ account' \in [Users -> Account] /\ account'[u] = a
      /\ \A v \in Users \ {u} : account'[v] = account[v]
  BY <1>4, <1>5, Typed
<1>9. issued' \subseteq Tokens /\ expired' \subseteq issued' /\ spent' \subseteq issued'
  BY <1>1, <1>2, Typed
<1>10. TypeInv'
  BY <1>1, <1>6, <1>7, <1>8, <1>9, Typed, TypeKeeps DEF sessions, legal
<1> QED
  BY <1>1, <1>2, <1>4, <1>6, <1>8, <1>10 DEF legal

LEMMA BootStep ==
    ASSUME TypeInv, NEW p \in Requests, Boot(p)
    PROVE  TypeInv' /\ Quiet(p) /\ UNCHANGED accepted /\ req'[p].doc = None
<1> DEFINE r == [Idle EXCEPT !.op = "boot", !.pc = "handler"]
<1>1. r \in Request /\ r.pc = "handler" /\ r.op = "boot" /\ r.user = None /\ r.doc = None
  BY DEF Idle, Request, NoAccount, Account
<1>2. req' = [req EXCEPT ![p] = r] /\ UNCHANGED <<accounts, sessions, legal>>
  BY DEF Boot, Begin
<1> HIDE DEF r
<1>3. Moves(p, r) /\ req'[p] = r /\ WellFormed(r)
  BY <1>1, <1>2, Typed, RequestMoves DEF Moves, WellFormed
<1>4. TypeInv'
  BY <1>2, <1>3, Typed, TypeKeeps DEF accounts, sessions, legal
<1> QED
  BY <1>1, <1>2, <1>3, <1>4 DEF Quiet, legal

-----------------------------------------------------------------------------
(* Steps that change sessions                                                 *)

\* As every such step leaves the rest of the state.
Apart == UNCHANGED <<accounts, legal>>

LEMMA SessionKeeps ==
    ASSUME TypeInv, NEW p \in Requests, NEW r, Moves(p, r), WellFormed(r), Apart,
           store' \in [Sids -> Users \cup {None}], sets' \in [Users -> SUBSET Sids],
           given' \subseteq Sids, loose' \subseteq Sids
    PROVE  TypeInv'
BY Typed, TypeKeeps DEF Apart, accounts, legal

\* Everything but the one record is as it was.
Deleted(s) == store' = [store EXCEPT ![s] = None]

LEMMA DeletedType ==
    ASSUME TypeInv, NEW s \in Sids, Deleted(s)
    PROVE  /\ store' \in [Sids -> Users \cup {None}]
           /\ store'[s] = None /\ \A t \in Sids \ {s} : store'[t] = store[t]
BY Typed DEF Deleted

LEMMA DropType ==
    ASSUME TypeInv, NEW p \in Requests, NEW u \in Users, NEW ids \in SUBSET Sids, Drop(p, u, ids)
    PROVE  /\ store' \in [Sids -> Users \cup {None}] /\ sets' \in [Users -> SUBSET Sids]
           /\ loose' \subseteq Sids
           /\ \A s \in Sids : IF s \in ids THEN store'[s] = None ELSE store'[s] = store[s]
           /\ \A v \in Users : IF v = u THEN sets'[v] = sets[v] \ ids ELSE sets'[v] = sets[v]
<1>1. store' \in [Sids -> Users \cup {None}] /\ \A s \in Sids : IF s \in ids THEN store'[s] = None ELSE store'[s] = store[s]
  BY Typed DEF Drop
<1>2. sets' \in [Users -> SUBSET Sids] /\ \A v \in Users : IF v = u THEN sets'[v] = sets[v] \ ids ELSE sets'[v] = sets[v]
  BY Typed DEF Drop
<1>3. loose' \subseteq Sids
  BY Typed DEF Drop
<1> QED
  BY <1>1, <1>2, <1>3

\* The record is written as the request has it.
LEMMA EndStep ==
    ASSUME TypeInv, NEW p \in Requests, End(p)
    PROVE  /\ TypeInv' /\ Moves(p, Idle) /\ Apart /\ UNCHANGED <<sets, given, loose>>
           /\ req[p].pc = "end"
           /\ \A s \in Sids : store'[s] = store[s] \/ (s = req[p].sid /\ store'[s] = req[p].user)
<1>1. /\ req[p].pc = "end" /\ UNCHANGED <<accounts, sets, given, loose, legal>>
      /\ req[p].sid \in Sids \cup {None} /\ req[p].user \in Users \cup {None}
      /\ store' = IF req[p].sid = None THEN store ELSE [store EXCEPT ![req[p].sid] = req[p].user]
  BY Typed DEF End, Request
<1>2. Moves(p, Idle)
  BY Typed, FinishMoves DEF End
<1>3. /\ store' \in [Sids -> Users \cup {None}]
      /\ \A s \in Sids : store'[s] = store[s] \/ (s = req[p].sid /\ store'[s] = req[p].user)
  BY <1>1, Typed
<1>4. TypeInv'
  BY <1>1, <1>2, <1>3, IdleType, Typed, SessionKeeps DEF Apart
<1> QED
  BY <1>1, <1>2, <1>3, <1>4 DEF Apart

\* Whoever signs in gets an id that nobody has had.
LEMMA RegenerateStep ==
    ASSUME TypeInv, NEW p \in Requests, Regenerate(p)
    PROVE  /\ TypeInv' /\ Moves(p, req'[p]) /\ Apart /\ UNCHANGED <<sets, loose>>
           /\ req'[p].pc = "enlist" /\ req'[p].user \in Users
           /\ req'[p].sid \in Sids \ given /\ given' = given \cup {req'[p].sid}
           /\ \A s \in Sids : store'[s] \in {None, store[s]}
<1>1. /\ req[p].pc = "regenerate" /\ req[p].target \in Users /\ req[p] \in Request
      /\ UNCHANGED <<accounts, sets, loose, legal>>
      /\ store' = [t \in Sids |-> IF t = req[p].sid THEN None ELSE store[t]]
  BY Typed DEF Regenerate, WellFormed
<1>2. PICK s \in Sids \ given :
         /\ given' = given \cup {s}
         /\ req' = [req EXCEPT ![p].pc = "enlist", ![p].sid = s, ![p].user = req[p].target, ![p].target = None]
  BY DEF Regenerate
<1> DEFINE u == req[p].target
           m == [req[p] EXCEPT !.pc = "enlist", !.sid = s]
           r == [m EXCEPT !.user = u, !.target = None]
<1>3. m \in Request /\ m.pc = "enlist" /\ m.sid = s
  BY <1>1 DEF Request
<1>4. req' = [req EXCEPT ![p] = r]
  BY <1>2, Typed
<1> HIDE DEF m
<1>5. r \in Request /\ r.pc = "enlist" /\ r.sid = s /\ r.user = u
  BY <1>1, <1>3 DEF Request
<1> HIDE DEF r
<1>6. Moves(p, r) /\ req'[p] = r /\ WellFormed(r)
  BY <1>1, <1>4, <1>5, Typed, RequestMoves DEF Moves, WellFormed
<1>7. store' \in [Sids -> Users \cup {None}] /\ \A t \in Sids : store'[t] \in {None, store[t]}
  BY <1>1, Typed
<1>8. TypeInv'
  <2>1. sets' = sets /\ loose' = loose /\ given' \subseteq Sids /\ Apart
    BY <1>1, <1>2, Typed DEF Apart
  <2> QED
    BY <2>1, <1>6, <1>7, Typed, SessionKeeps
<1> QED
  BY <1>1, <1>2, <1>5, <1>6, <1>7, <1>8 DEF Apart

LEMMA EnlistStep ==
    ASSUME TypeInv, NEW p \in Requests, Enlist(p)
    PROVE  /\ TypeInv' /\ Moves(p, req'[p]) /\ Apart /\ UNCHANGED <<store, given, loose>>
           /\ req[p].sid \in Sids /\ req[p].user \in Users
           /\ req'[p].pc = "end" /\ req'[p].sid = req[p].sid /\ req'[p].user = req[p].user
           /\ \A u \in Users : sets'[u] = IF u = req[p].user THEN sets[u] \cup {req[p].sid} ELSE sets[u]
<1> DEFINE u == req[p].user
           s == req[p].sid
<1>1. /\ req[p].pc = "enlist" /\ s \in Sids /\ u \in Users
      /\ UNCHANGED <<accounts, store, given, loose, legal>>
      /\ sets' = [sets EXCEPT ![u] = @ \cup {s}] /\ Respond(p)
  BY Typed DEF Enlist, WellFormed
<1>2. /\ Moves(p, req'[p]) /\ WellFormed(req'[p])
      /\ req'[p].pc = "end" /\ req'[p].sid = s /\ req'[p].user = u
  BY <1>1, Typed, RespondMoves
<1> HIDE DEF u, s
<1>3. /\ sets' \in [Users -> SUBSET Sids]
      /\ \A v \in Users : sets'[v] = IF v = u THEN sets[v] \cup {s} ELSE sets[v]
  BY <1>1, Typed
<1>4. TypeInv'
  BY <1>1, <1>2, <1>3, Typed, SessionKeeps DEF Apart
<1> QED
  BY <1>1, <1>2, <1>3, <1>4 DEF Apart, u, s

LEMMA EnlistFailsStep ==
    ASSUME TypeInv, NEW p \in Requests, EnlistFails(p)
    PROVE  /\ TypeInv' /\ Moves(p, req'[p]) /\ Apart /\ UNCHANGED <<store, sets, given>>
           /\ loose' = loose \cup {req[p].sid}
           /\ req'[p].pc = "end" /\ req'[p].sid = req[p].sid /\ req'[p].user = req[p].user
<1>1. /\ req[p].sid \in Sids /\ loose' = loose \cup {req[p].sid}
      /\ UNCHANGED <<accounts, store, sets, given, legal>> /\ Respond(p)
  BY Typed DEF EnlistFails, WellFormed
<1>2. /\ Moves(p, req'[p]) /\ WellFormed(req'[p])
      /\ req'[p].pc = "end" /\ req'[p].sid = req[p].sid /\ req'[p].user = req[p].user
  BY <1>1, Typed, RespondMoves
<1>3. TypeInv'
  BY <1>1, <1>2, Typed, SessionKeeps DEF Apart
<1> QED
  BY <1>1, <1>2, <1>3 DEF Apart

LEMMA LogoutStep ==
    ASSUME TypeInv, NEW p \in Requests, Logout(p)
    PROVE  /\ TypeInv' /\ Moves(p, req'[p]) /\ Apart /\ UNCHANGED <<sets, given, loose>>
           /\ req[p].sid \in Sids /\ Deleted(req[p].sid)
           /\ req'[p].user = None /\ req'[p].pc = "remove"
<1>1. /\ req[p].pc = "handler" /\ req[p].op = "logout" /\ req[p].sid \in Sids /\ req[p].user \in Users
      /\ req[p] \in Request /\ Deleted(req[p].sid)
      /\ UNCHANGED <<accounts, sets, given, loose, legal>>
      /\ req' = [req EXCEPT ![p].pc = "remove", ![p].user = None, ![p].target = req[p].user]
  BY Typed DEF Logout, WellFormed, Deleted
<1> DEFINE u == req[p].user
           r == [req[p] EXCEPT !.pc = "remove", !.user = None, !.target = u]
<1>2. r \in Request /\ r.pc = "remove" /\ r.sid = req[p].sid /\ r.user = None /\ r.target = u
  BY <1>1 DEF Request
<1>3. req' = [req EXCEPT ![p] = r]
  BY <1>1, Typed
<1> HIDE DEF r
<1>4. Moves(p, r) /\ req'[p] = r /\ WellFormed(r)
  BY <1>1, <1>2, <1>3, Typed, RequestMoves DEF Moves, WellFormed
<1>5. store' \in [Sids -> Users \cup {None}]
  BY <1>1, DeletedType
<1>6. TypeInv'
  BY <1>1, <1>4, <1>5, Typed, SessionKeeps DEF Apart
<1> QED
  BY <1>1, <1>2, <1>4, <1>6 DEF Apart

\* Sessions are dropped, and the request does not save one of them.
Drops(p) == \E u \in Users, ids \in SUBSET Sids :
    /\ Drop(p, u, ids)
    /\ \/ req'[p].user = None
       \/ /\ req'[p].sid = req[p].sid /\ req'[p].user = req[p].user
          /\ Saves(req'[p]) => Saves(req[p]) /\ req[p].sid \notin ids

LEMMA DropStep ==
    ASSUME TypeInv, NEW p \in Requests, LogoutRemove(p) \/ Revoke(p) \/ RevokeAllMulti(p)
    PROVE  /\ TypeInv' /\ Moves(p, req'[p]) /\ Drops(p) /\ Apart /\ UNCHANGED given
           /\ req'[p].pc \in {"idle", "destroy", "end"}
<1>1. Apart /\ UNCHANGED given /\ req[p] \in Request
  BY Typed DEF LogoutRemove, Revoke, RevokeAllMulti, Apart
<1>2. CASE LogoutRemove(p)
  <2>1. req[p].target \in Users /\ {req[p].sid} \in SUBSET Sids
    BY <1>2, Typed DEF LogoutRemove, WellFormed
  <2>2. Drop(p, req[p].target, {req[p].sid})
    BY <1>2 DEF LogoutRemove
  <2>3. Moves(p, Idle) /\ req'[p] = Idle
    BY <1>2, Typed, FinishMoves DEF LogoutRemove, Moves
  <2>4. TypeInv'
    BY <1>1, <2>1, <2>2, <2>3, IdleType, DropType, Typed, SessionKeeps, SMTT(30)
  <2>5. Drops(p)
    BY <2>1, <2>2, <2>3, IdleType DEF Drops
  <2> QED
    BY <1>1, <2>3, <2>4, <2>5, IdleType
<1>3. CASE Revoke(p)
  <2>1. req[p].pc = "handler" /\ req[p].user \in Users /\ req[p].sid \in Sids
    BY <1>3, Typed DEF Revoke, WellFormed
  <2>2. PICK s \in given : /\ Drop(p, req[p].user, {s})
                           /\ IF s = req[p].sid THEN Goto(p, "destroy") ELSE Respond(p)
    BY <1>3 DEF Revoke
  <2>3. {s} \in SUBSET Sids
    BY Typed
  <2>4. /\ Moves(p, req'[p]) /\ WellFormed(req'[p])
        /\ req'[p].sid = req[p].sid /\ req'[p].user = req[p].user
        /\ req'[p].pc = "destroy" \/ (req'[p].pc = "end" /\ s # req[p].sid)
    <3>1. CASE s = req[p].sid
      <4>1. /\ Moves(p, req'[p])
            /\ req'[p].pc = "destroy" /\ req'[p].sid = req[p].sid /\ req'[p].user = req[p].user
        BY <2>2, <3>1, Typed, GotoMoves DEF PCs
      <4> QED
        BY <2>1, <4>1 DEF WellFormed
    <3>2. CASE s # req[p].sid
      BY <2>2, <3>2, Typed, RespondMoves
    <3> QED
      BY <3>1, <3>2
  <2>5. TypeInv'
    BY <1>1, <2>1, <2>2, <2>3, <2>4, DropType, Typed, SessionKeeps, SMTT(30)
  <2>6. Drops(p)
    BY <2>1, <2>2, <2>3, <2>4 DEF Drops, Saves
  <2> QED
    BY <1>1, <2>4, <2>5, <2>6
<1>4. CASE RevokeAllMulti(p)
  <2>1. /\ req[p].pc = "multi" /\ req[p].user \in Users /\ req[p].sid \in Sids
        /\ req[p].ids \in SUBSET Sids
    BY <1>1, <1>4, Typed DEF RevokeAllMulti, WellFormed, Request
  <2>2. Drop(p, req[p].user, req[p].ids)
    BY <1>4 DEF RevokeAllMulti
  <2>3. /\ Moves(p, req'[p])
        /\ req'[p].pc = "destroy" /\ req'[p].sid = req[p].sid /\ req'[p].user = req[p].user
    BY <1>4, Typed, GotoMoves DEF PCs, RevokeAllMulti
  <2>4. WellFormed(req'[p])
    BY <2>1, <2>3 DEF WellFormed
  <2>5. TypeInv'
    BY <1>1, <2>1, <2>2, <2>3, <2>4, DropType, Typed, SessionKeeps, SMTT(30)
  <2>6. Drops(p)
    BY <2>1, <2>2, <2>3 DEF Drops, Saves
  <2> QED
    BY <1>1, <2>3, <2>5, <2>6
<1> QED
  BY <1>2, <1>3, <1>4

LEMMA DestroyStep ==
    ASSUME TypeInv, NEW p \in Requests, Destroy(p)
    PROVE  /\ TypeInv' /\ Moves(p, req'[p]) /\ Apart /\ UNCHANGED <<sets, given, loose>>
           /\ req[p].sid \in Sids /\ Deleted(req[p].sid)
           /\ req'[p].user = None /\ req'[p].pc = "idle"
<1>1. /\ req[p].sid \in Sids /\ Deleted(req[p].sid) /\ Finish(p)
      /\ UNCHANGED <<accounts, sets, given, loose, legal>>
  BY Typed DEF Destroy, WellFormed, Deleted
<1>2. Moves(p, Idle) /\ req'[p] = Idle
  BY <1>1, Typed, FinishMoves DEF Moves
<1>3. store' \in [Sids -> Users \cup {None}]
  BY <1>1, DeletedType
<1>4. TypeInv'
  BY <1>1, <1>2, <1>3, IdleType, Typed, SessionKeeps DEF Apart
<1> QED
  BY <1>1, <1>2, <1>4, IdleType DEF Apart

LEMMA ExpiresStep ==
    ASSUME TypeInv, NEW s \in Sids, SessionExpires(s)
    PROVE  TypeInv' /\ Apart /\ UNCHANGED <<sets, given, loose, req>> /\ Deleted(s)
<1>1. /\ Deleted(s) /\ UNCHANGED <<accounts, sets, given, loose, legal, req>>
  BY DEF SessionExpires, Deleted
<1>2. store' \in [Sids -> Users \cup {None}]
  BY <1>1, DeletedType
<1>3. TypeOK'
  BY <1>1, <1>2, Typed DEF TypeOK, accounts, legal
<1>4. TypeInv'
  BY <1>1, <1>3, Typed DEF TypeInv, WellFormed
<1> QED
  BY <1>1, <1>4 DEF Apart

LEMMA TokenExpiresStep ==
    ASSUME TypeInv, NEW t \in Tokens, TokenExpires(t)
    PROVE  TypeInv' /\ UNCHANGED <<account, issued, spent, sessions, legal, req>>
<1>1. t \in issued /\ expired' = expired \cup {t} /\ UNCHANGED <<account, issued, spent, sessions, legal, req>>
  BY DEF TokenExpires
<1>2. TypeOK'
  BY <1>1, Typed DEF TypeOK, sessions, legal
<1>3. TypeInv'
  BY <1>1, <1>2, Typed DEF TypeInv, WellFormed
<1> QED
  BY <1>1, <1>3

-----------------------------------------------------------------------------
(* Steps that change tokens                                                   *)

\* A step that begins or ends a request without a session.
LEMMA TokenKeeps ==
    ASSUME TypeInv, NEW p \in Requests, NEW r, Moves(p, r), WellFormed(r),
           UNCHANGED <<expired, sessions, legal>>, account' \in [Users -> Account],
           issued \subseteq issued', issued' \subseteq Tokens, spent' \subseteq issued'
    PROVE  TypeInv'
<1>1. expired' \subseteq issued'
  BY Typed
<1> QED
  BY <1>1, Typed, TypeKeeps DEF sessions, legal

\* What a request that has found an account will write to it.
Taken(p, op, u, t) ==
    /\ req'[p].op = op /\ req'[p].pc = "write" /\ req'[p].target = u /\ req'[p].token = t
    /\ req'[p].user = None

LEMMA TakenMoves ==
    ASSUME TypeInv, NEW p \in Requests, NEW op \in {"forgot", "reset", "verify"},
           NEW u \in Users, NEW t \in Tokens,
           Begin(p, [Idle EXCEPT !.op = op, !.pc = "write", !.target = u, !.token = t])
    PROVE  Moves(p, req'[p]) /\ WellFormed(req'[p]) /\ Taken(p, op, u, t)
<1> DEFINE r == [Idle EXCEPT !.op = op, !.pc = "write", !.target = u, !.token = t]
<1>1. /\ r \in Request /\ r.op = op /\ r.pc = "write" /\ r.target = u /\ r.token = t /\ r.user = None
  BY DEF Idle, Request, NoAccount, Account
<1>2. req' = [req EXCEPT ![p] = r]
  BY DEF Begin
<1> HIDE DEF r
<1>3. Moves(p, r) /\ req'[p] = r /\ WellFormed(r)
  BY <1>1, <1>2, Typed, RequestMoves DEF Moves, WellFormed
<1> QED
  BY <1>1, <1>3 DEF Taken

LEMMA ForgotStep ==
    ASSUME TypeInv, NEW p \in Requests, Forgot(p)
    PROVE  /\ TypeInv' /\ Moves(p, req'[p]) /\ UNCHANGED <<account, spent, sessions, legal>>
           /\ \E u \in Users, t \in Tokens \ issued : Taken(p, "forgot", u, t) /\ issued' = issued \cup {t}
<1>1. UNCHANGED <<account, expired, spent, sessions, legal>>
  BY DEF Forgot
<1>2. PICK u \in Users, t \in Tokens \ issued :
         /\ Begin(p, [Idle EXCEPT !.op = "forgot", !.pc = "write", !.target = u, !.token = t])
         /\ issued' = issued \cup {t}
  BY DEF Forgot
<1>3. Moves(p, req'[p]) /\ WellFormed(req'[p]) /\ Taken(p, "forgot", u, t)
  BY <1>2, TakenMoves
<1>4. TypeInv'
  BY <1>1, <1>2, <1>3, Typed, TokenKeeps
<1> QED
  BY <1>1, <1>2, <1>3, <1>4

LEMMA FindStep ==
    ASSUME TypeInv, NEW p \in Requests, Reset(p) \/ Verify(p)
    PROVE  /\ TypeInv' /\ Moves(p, req'[p]) /\ UNCHANGED <<accounts, sessions, legal>>
           /\ \E u \in Users, t \in issued :
                \/ Taken(p, "reset", u, t) /\ account[u].reset = t
                \/ Taken(p, "verify", u, t) /\ account[u].verify = t
<1>1. UNCHANGED <<accounts, sessions, legal>>
  BY DEF Reset, Verify
<1>2. PICK u \in Users, t \in Tokens, op \in {"reset", "verify"} :
         /\ t \in issued
         /\ (op = "reset" /\ account[u].reset = t) \/ (op = "verify" /\ account[u].verify = t)
         /\ Begin(p, [Idle EXCEPT !.op = op, !.pc = "write", !.target = u, !.token = t])
  <2>1. CASE Reset(p)
    BY <2>1 DEF Reset, Valid
  <2>2. CASE Verify(p)
    BY <2>2 DEF Verify, Valid
  <2> QED
    BY <2>1, <2>2
<1>3. Moves(p, req'[p]) /\ WellFormed(req'[p]) /\ Taken(p, op, u, t)
  BY <1>2, TakenMoves
<1>4. TypeInv'
  BY <1>1, <1>3, Typed, TokenKeeps DEF accounts
<1> QED
  BY <1>1, <1>2, <1>3, <1>4

\* Which fields of the one account the three of them write.
LEMMA WriteStep ==
    ASSUME TypeInv, NEW p \in Requests, TokenOK(p), ForgotWrite(p) \/ ResetWrite(p) \/ VerifyWrite(p)
    PROVE  /\ TypeInv' /\ Moves(p, Idle) /\ req'[p] = Idle /\ UNCHANGED <<issued, sessions, legal>>
           /\ req[p].pc = "write" /\ req[p].target \in Users /\ req[p].token \in Tokens
           /\ \A v \in Users \ {req[p].target} : account'[v] = account[v]
           /\ LET u == req[p].target
                  t == req[p].token IN
              \/ /\ req[p].op = "forgot" /\ spent' = spent
                 /\ account'[u].reset = t /\ account'[u].verify = account[u].verify
              \/ /\ req[p].op = "reset" /\ spent' = spent \cup {t}
                 /\ account'[u].reset = None /\ account'[u].verify = account[u].verify
              \/ /\ req[p].op = "verify" /\ spent' = spent \cup {t}
                 /\ account'[u].verify = None /\ account'[u].reset = account[u].reset

<1> DEFINE u == req[p].target
           t == req[p].token
<1>1. PICK op \in {"forgot", "reset", "verify"} :
         /\ req[p].pc = "write" /\ req[p].op = op /\ Finish(p) /\ UNCHANGED <<issued, expired, sessions, legal>>
         /\ \/ op = "forgot" /\ account' = [account EXCEPT ![u].reset = t] /\ spent' = spent
            \/ op = "reset" /\ account' = [account EXCEPT ![u].reset = None] /\ spent' = spent \cup {t}
            \/ /\ op = "verify" /\ spent' = spent \cup {t}
               /\ account' = [account EXCEPT ![u].verify = None, ![u].verified = TRUE]
  <2>1. CASE ForgotWrite(p)
    BY <2>1 DEF ForgotWrite
  <2>2. CASE ResetWrite(p)
    BY <2>2 DEF ResetWrite
  <2>3. CASE VerifyWrite(p)
    BY <2>3 DEF VerifyWrite
  <2> QED
    BY <2>1, <2>2, <2>3
<1>2. u \in Users /\ t \in Tokens /\ t \in issued
  BY <1>1, Typed DEF WellFormed, TokenOK
<1>3. Moves(p, Idle) /\ req'[p] = Idle
  BY <1>1, Typed, FinishMoves DEF Moves
<1> HIDE DEF u, t
<1>4. PICK a \in Account :
         /\ account' = [account EXCEPT ![u] = a]
         /\ \/ op = "forgot" /\ a.reset = t /\ a.verify = account[u].verify
            \/ op = "reset" /\ a.reset = None /\ a.verify = account[u].verify
            \/ op = "verify" /\ a.verify = None /\ a.reset = account[u].reset
  <2>1. account[u] \in Account
    BY <1>2, Typed
  <2>2. CASE op = "forgot"
    <3> DEFINE a == [account[u] EXCEPT !.reset = t]
    <3>1. a \in Account /\ a.reset = t /\ a.verify = account[u].verify
      BY <1>2, <2>1 DEF Account
    <3>2. account' = [account EXCEPT ![u] = a]
      BY <1>1, <2>2
    <3> HIDE DEF a
    <3> QED
      BY <2>2, <3>1, <3>2
  <2>3. CASE op = "reset"
    <3> DEFINE a == [account[u] EXCEPT !.reset = None]
    <3>1. a \in Account /\ a.reset = None /\ a.verify = account[u].verify
      BY <1>2, <2>1 DEF Account
    <3>2. account' = [account EXCEPT ![u] = a]
      BY <1>1, <2>3
    <3> HIDE DEF a
    <3> QED
      BY <2>3, <3>1, <3>2
  <2>4. CASE op = "verify"
    <3> DEFINE a == [account[u] EXCEPT !.verify = None, !.verified = TRUE]
    <3>1. a \in Account /\ a.verify = None /\ a.reset = account[u].reset
      BY <1>2, <2>1 DEF Account
    <3>2. account' = [account EXCEPT ![u] = a]
      BY <1>1, <1>2, <2>4, Typed
    <3> HIDE DEF a
    <3> QED
      BY <2>4, <3>1, <3>2
  <2> QED
    BY <2>2, <2>3, <2>4
<1>5. /\ account' \in [Users -> Account] /\ account'[u] = a
      /\ \A v \in Users \ {u} : account'[v] = account[v]
  BY <1>2, <1>4, Typed
<1>6. spent' \subseteq issued' /\ issued' = issued /\ issued \subseteq Tokens
  BY <1>1, <1>2, Typed
<1>7. TypeInv'
  BY <1>1, <1>3, <1>5, <1>6, IdleType, TokenKeeps
<1> QED
  BY <1>1, <1>2, <1>3, <1>4, <1>5, <1>7 DEF u, t

-----------------------------------------------------------------------------
(* The sessions                                                               *)

\* Most steps keep a session where it was.
SameSession(p) ==
    /\ Moves(p, req'[p])
    /\ UNCHANGED sessions
    /\ \/ req'[p].user = None
       \/ /\ req'[p].sid = req[p].sid /\ req'[p].user = req[p].user
          /\ Saves(req'[p]) => Saves(req[p])

\* No step but signing in makes a session anybody's who did not claim it.
LEMMA ClaimsShrink ==
    ASSUME SessionInv, given \subseteq given', \A s \in Sids, u \in Users : Claims(s, u)' => Claims(s, u)
    PROVE  OneClaim' /\ ClaimsGiven'
BY DEF SessionInv, OneClaim, ClaimsGiven

LEMMA SameSessionKeeps ==
    ASSUME TypeInv, SessionInv, NEW p \in Requests, SameSession(p)
    PROVE  SessionInv'
<1>1. /\ Moves(p, req'[p]) /\ store' = store /\ sets' = sets /\ given' = given /\ loose' = loose
  BY DEF SameSession, sessions
<1>2. \A q \in Requests : \/ req'[q].user = None
                          \/ /\ req'[q].sid = req[q].sid /\ req'[q].user = req[q].user
                             /\ Saves(req'[q]) => Saves(req[q])
  BY <1>1 DEF SameSession, Moves
<1>3. None \notin Users
  BY AccessAssumption
<1>4. OneClaim' /\ ClaimsGiven'
  <2>1. \A s \in Sids, u \in Users : Claims(s, u)' => Claims(s, u)
    BY <1>1, <1>2, <1>3 DEF Claims
  <2> QED
    BY <1>1, <2>1, ClaimsShrink
<1>5. SavesListed'
  BY <1>1, <1>2, <1>3 DEF SessionInv, SavesListed, Saves
<1>6. SessionsRevocable'
  BY <1>1 DEF SessionInv, SessionsRevocable
<1> QED
  BY <1>4, <1>5, <1>6 DEF SessionInv

\* A session is loaded as its record has it.
LEMMA LoadedKeeps ==
    ASSUME TypeInv, SessionInv, NEW p \in Requests, Moves(p, req'[p]), Loaded(p), UNCHANGED sessions
    PROVE  SessionInv'
<1>1. store' = store /\ sets' = sets /\ given' = given /\ loose' = loose /\ None \notin Users \cup Sids
  BY AccessAssumption DEF sessions
<1>2. OneClaim' /\ ClaimsGiven'
  <2>1. ASSUME NEW s \in Sids, NEW u \in Users, Claims(s, u)' PROVE Claims(s, u)
    <3>1. \A q \in Requests \ {p} : req'[q] = req[q]
      BY DEF Moves
    <3>2. CASE req'[p].sid = s /\ req'[p].user = u
      BY <1>1, <3>2 DEF Loaded, Claims
    <3>3. CASE ~(req'[p].sid = s /\ req'[p].user = u)
      BY <1>1, <2>1, <3>1, <3>3 DEF Claims
    <3> QED
      BY <3>2, <3>3
  <2> QED
    BY <1>1, <2>1, ClaimsShrink
<1>3. SavesListed'
  <2> SUFFICES ASSUME NEW q \in Requests, Saves(req'[q])
               PROVE  req'[q].sid \in loose \/ req'[q].sid \in sets[req'[q].user]
    BY <1>1 DEF SavesListed, Saves
  <2>1. CASE q # p
    BY <2>1 DEF Moves, SessionInv, SavesListed
  <2>2. CASE q = p
    BY <1>1, <2>2 DEF Loaded, Saves, SessionInv, SessionsRevocable
  <2> QED
    BY <2>1, <2>2
<1>4. SessionsRevocable'
  BY <1>1 DEF SessionInv, SessionsRevocable
<1> QED
  BY <1>2, <1>3, <1>4 DEF SessionInv

\* What the request writes it has claimed, and listed.
LEMMA EndKeeps ==
    ASSUME TypeInv, SessionInv, NEW p \in Requests, End(p)
    PROVE  SessionInv'
<1>1. /\ Moves(p, Idle) /\ sets' = sets /\ given' = given /\ loose' = loose /\ req[p].pc = "end"
      /\ \A s \in Sids : store'[s] = store[s] \/ (s = req[p].sid /\ store'[s] = req[p].user)
  BY EndStep
<1>2. /\ req'[p].user = None /\ \A q \in Requests \ {p} : req'[q] = req[q]
      /\ None \notin Users
  BY <1>1, IdleType, AccessAssumption DEF Moves
<1>3. OneClaim' /\ ClaimsGiven'
  <2>1. \A s \in Sids, u \in Users : Claims(s, u)' => Claims(s, u)
    BY <1>1, <1>2 DEF Claims
  <2> QED
    BY <1>1, <2>1, ClaimsShrink
<1>4. SavesListed'
  BY <1>1, <1>2 DEF SessionInv, SavesListed, Saves
<1>5. SessionsRevocable'
  <2> SUFFICES ASSUME NEW s \in Sids, s \notin loose, store'[s] # None, store'[s] # store[s]
               PROVE  s \in sets[store'[s]]
    BY <1>1 DEF SessionInv, SessionsRevocable
  <2>1. s = req[p].sid /\ store'[s] = req[p].user
    BY <1>1
  <2>2. Saves(req[p])
    <3>1. req[p].user \in Users \cup {None}
      BY Typed DEF Request
    <3> QED
      BY <1>1, <2>1, <3>1 DEF Saves
  <2> QED
    BY <2>1, <2>2 DEF SessionInv, SavesListed
<1> QED
  BY <1>3, <1>4, <1>5 DEF SessionInv

LEMMA RegenerateKeepsSessions ==
    ASSUME TypeInv, SessionInv, NEW p \in Requests, Regenerate(p)
    PROVE  SessionInv'
<1> DEFINE n == req'[p].sid
<1>1. /\ Moves(p, req'[p]) /\ sets' = sets /\ loose' = loose
      /\ req'[p].pc = "enlist" /\ n \in Sids \ given /\ given' = given \cup {n}
      /\ \A s \in Sids : store'[s] \in {None, store[s]}
  BY RegenerateStep
<1> HIDE DEF n
<1>2. \A q \in Requests \ {p} : req'[q] = req[q]
  BY <1>1 DEF Moves
<1>3. None \notin Users
  BY AccessAssumption
<1>4. \A s \in Sids, u \in Users : Claims(s, u)' => Claims(s, u) \/ (s = n /\ u = req'[p].user)
  BY <1>1, <1>2, <1>3 DEF Claims, n
<1>5. \A u \in Users : ~Claims(n, u)
  BY <1>1 DEF SessionInv, ClaimsGiven
<1>6. OneClaim'
  BY <1>4, <1>5 DEF SessionInv, OneClaim
<1>7. ClaimsGiven'
  BY <1>1, <1>4 DEF SessionInv, ClaimsGiven
<1>8. SavesListed'
  BY <1>1, <1>2 DEF SessionInv, SavesListed, Saves
<1>9. SessionsRevocable'
  BY <1>1 DEF SessionInv, SessionsRevocable
<1> QED
  BY <1>6, <1>7, <1>8, <1>9 DEF SessionInv

LEMMA EnlistKeeps ==
    ASSUME TypeInv, SessionInv, NEW p \in Requests, Enlist(p)
    PROVE  SessionInv'
<1> DEFINE n == req[p].sid
           w == req[p].user
<1>1. /\ Moves(p, req'[p]) /\ store' = store /\ given' = given /\ loose' = loose
      /\ n \in Sids /\ w \in Users
      /\ req'[p].sid = n /\ req'[p].user = w
      /\ \A u \in Users : sets'[u] = IF u = w THEN sets[u] \cup {n} ELSE sets[u]
  BY EnlistStep
<1>2. \A q \in Requests : req'[q].sid = req[q].sid /\ req'[q].user = req[q].user /\ (q # p => req'[q] = req[q])
  BY <1>1 DEF Moves
<1>3. OneClaim' /\ ClaimsGiven'
  <2>1. ASSUME NEW s \in Sids, NEW u \in Users, Claims(s, u)' PROVE Claims(s, u)
    <3>1. CASE store'[s] = u
      BY <1>1, <3>1 DEF Claims
    <3>2. CASE s \in sets'[u]
      <4>1. s \in sets[u] \/ (req[p].sid = s /\ req[p].user = u)
        BY <1>1, <3>2
      <4> QED
        BY <4>1 DEF Claims
    <3>3. CASE \E q \in Requests : req'[q].sid = s /\ req'[q].user = u
      BY <1>2, <3>3 DEF Claims
    <3> QED
      BY <2>1, <3>1, <3>2, <3>3 DEF Claims
  <2> QED
    BY <1>1, <2>1, ClaimsShrink
<1> HIDE DEF n, w
<1>4. \A u \in Users : sets[u] \subseteq sets'[u]
  BY <1>1
<1>5. SavesListed'
  <2> SUFFICES ASSUME NEW q \in Requests, Saves(req'[q])
               PROVE  req'[q].sid \in loose \/ req'[q].sid \in sets'[req'[q].user]
    BY <1>1 DEF SavesListed, Saves
  <2>1. CASE q # p
    BY <1>2, <1>4, <2>1 DEF SessionInv, SavesListed, Saves
  <2>2. CASE q = p
    BY <1>1, <2>2
  <2> QED
    BY <2>1, <2>2
<1>6. SessionsRevocable'
  <2>1. \A s \in Sids : store[s] \in Users \cup {None}
    BY Typed
  <2> QED
    BY <1>1, <1>4, <2>1 DEF SessionInv, SessionsRevocable
<1> QED
  BY <1>3, <1>5, <1>6 DEF SessionInv

\* A session that could not be enlisted is known to be loose.
LEMMA EnlistFailsKeeps ==
    ASSUME TypeInv, SessionInv, NEW p \in Requests, EnlistFails(p)
    PROVE  SessionInv'
<1>1. /\ Moves(p, req'[p]) /\ store' = store /\ sets' = sets /\ given' = given
      /\ loose' = loose \cup {req[p].sid}
      /\ req'[p].sid = req[p].sid /\ req'[p].user = req[p].user
  BY EnlistFailsStep
<1>2. \A q \in Requests : req'[q].sid = req[q].sid /\ req'[q].user = req[q].user /\ (q # p => req'[q] = req[q])
  BY <1>1 DEF Moves
<1>3. OneClaim' /\ ClaimsGiven'
  <2>1. \A s \in Sids, u \in Users : Claims(s, u)' => Claims(s, u)
    BY <1>1, <1>2 DEF Claims
  <2> QED
    BY <1>1, <2>1, ClaimsShrink
<1>4. SavesListed'
  BY <1>1, <1>2 DEF SessionInv, SavesListed, Saves
<1>5. SessionsRevocable'
  BY <1>1 DEF SessionInv, SessionsRevocable
<1> QED
  BY <1>3, <1>4, <1>5 DEF SessionInv

\* A record is deleted, and its request does not save it.
LEMMA DeletedKeeps ==
    ASSUME TypeInv, SessionInv, NEW s \in Sids, Deleted(s), UNCHANGED <<sets, given, loose>>,
           \A q \in Requests : req'[q] = req[q] \/ req'[q].user = None
    PROVE  SessionInv'
<1>1. store'[s] = None /\ (\A t \in Sids \ {s} : store'[t] = store[t]) /\ None \notin Users
  BY DeletedType, AccessAssumption
<1>2. OneClaim' /\ ClaimsGiven'
  <2>1. \A t \in Sids, u \in Users : Claims(t, u)' => Claims(t, u)
    BY <1>1 DEF Claims
  <2> QED
    BY <2>1, ClaimsShrink
<1>3. SavesListed'
  BY <1>1 DEF SessionInv, SavesListed, Saves
<1>4. SessionsRevocable'
  BY <1>1 DEF SessionInv, SessionsRevocable
<1> QED
  BY <1>2, <1>3, <1>4 DEF SessionInv

\* Whoever else has a dropped session loaded carries it.
LEMMA DropsKeeps ==
    ASSUME TypeInv, SessionInv, NEW p \in Requests, Moves(p, req'[p]), Drops(p), UNCHANGED given
    PROVE  SessionInv'
<1>1. PICK w \in Users, ids \in SUBSET Sids :
         /\ Drop(p, w, ids)
         /\ \/ req'[p].user = None
            \/ /\ req'[p].sid = req[p].sid /\ req'[p].user = req[p].user
               /\ Saves(req'[p]) => Saves(req[p]) /\ req[p].sid \notin ids
  BY DEF Drops
<1>2. /\ \A s \in Sids : IF s \in ids THEN store'[s] = None ELSE store'[s] = store[s]
      /\ \A v \in Users : IF v = w THEN sets'[v] = sets[v] \ ids ELSE sets'[v] = sets[v]
  BY <1>1, DropType
<1>3. loose' = loose \cup {s \in ids : \E q \in Requests \ {p} : req[q].sid = s /\ req[q].user # None}
  BY <1>1 DEF Drop
<1>4. None \notin Users /\ \A q \in Requests \ {p} : req'[q] = req[q]
  BY AccessAssumption DEF Moves
<1>5. OneClaim' /\ ClaimsGiven'
  <2>1. \A s \in Sids, u \in Users : Claims(s, u)' => Claims(s, u)
    <3> SUFFICES ASSUME NEW s \in Sids, NEW u \in Users, Claims(s, u)' PROVE Claims(s, u)
      OBVIOUS
    <3>1. CASE store'[s] = u
      BY <1>2, <1>4, <3>1 DEF Claims
    <3>2. CASE s \in sets'[u]
      BY <1>2, <3>2 DEF Claims
    <3>3. CASE \E q \in Requests : req'[q].sid = s /\ req'[q].user = u
      BY <1>1, <1>4, <3>3 DEF Claims
    <3> QED
      BY <3>1, <3>2, <3>3 DEF Claims
  <2> QED
    BY <2>1, ClaimsShrink
<1>6. SavesListed'
  <2> SUFFICES ASSUME NEW q \in Requests, Saves(req'[q])
               PROVE  req'[q].sid \in loose' \/ req'[q].sid \in sets'[req'[q].user]
    BY DEF SavesListed, Saves
  <2>1. CASE q # p
    <3>1. req'[q] = req[q] /\ req[q].sid \in Sids /\ req[q].user \in Users
      BY <1>4, <2>1 DEF Saves
    <3>2. req[q].sid \in loose \/ req[q].sid \in sets[req[q].user]
      BY <3>1 DEF SessionInv, SavesListed
    <3>3. CASE req[q].sid \in ids
      BY <1>3, <1>4, <2>1, <3>1, <3>3
    <3>4. CASE req[q].sid \notin ids
      BY <1>2, <1>3, <3>1, <3>2, <3>4
    <3> QED
      BY <3>3, <3>4
  <2>2. CASE q = p
    <3>1. /\ req'[p].sid = req[p].sid /\ req'[p].user = req[p].user
          /\ Saves(req[p]) /\ req[p].sid \notin ids
      BY <1>1, <1>4, <2>2 DEF Saves
    <3>2. req[p].sid \in loose \/ req[p].sid \in sets[req[p].user]
      BY <3>1 DEF SessionInv, SavesListed
    <3> QED
      BY <1>2, <1>3, <2>2, <3>1, <3>2 DEF Saves
  <2> QED
    BY <2>1, <2>2
<1>7. SessionsRevocable'
  <2> SUFFICES ASSUME NEW s \in Sids, s \notin loose', store'[s] # None
               PROVE  s \in sets'[store'[s]]
    BY DEF SessionsRevocable
  <2>1. s \notin ids /\ store'[s] = store[s] /\ s \notin loose
    BY <1>2, <1>3
  <2>2. s \in sets[store[s]] /\ store[s] \in Users
    BY <2>1, Typed DEF SessionInv, SessionsRevocable
  <2> QED
    BY <1>2, <2>1, <2>2
<1> QED
  BY <1>5, <1>6, <1>7 DEF SessionInv

-----------------------------------------------------------------------------
(* The tokens                                                                 *)

SameTokens ==
    /\ \A u \in Users : account'[u].reset = account[u].reset /\ account'[u].verify = account[u].verify
    /\ issued \subseteq issued' /\ spent' = spent

\* Who does not write to an account leaves the tokens where they are.
LEMMA SameTokensKeep ==
    ASSUME TypeInv, TokenInv, SameTokens,
           \A q \in Requests : req'[q] = req[q] \/ req'[q].pc # "write"
    PROVE  TokenInv'
<1>1. \A t \in Tokens : Held(t)' <=> Held(t)
  BY DEF SameTokens, Held
<1>2. \A t \in Tokens : Held(t)' => (t \in issued \ spent)'
  BY <1>1 DEF SameTokens, TokenInv
<1>3. OnePlace'
  BY DEF SameTokens, TokenInv, OnePlace
<1>4. ASSUME NEW q \in Requests PROVE TokenOK(q)'
  <2>1. CASE req'[q].pc # "write"
    BY <2>1 DEF TokenOK, Writing
  <2>2. CASE req'[q].pc = "write"
    <3>1. req'[q] = req[q] /\ TokenOK(q) /\ req[q].token \in Tokens /\ req[q].pc = "write"
      BY <2>2, Typed DEF TokenInv, WellFormed
    <3>2. /\ req[q].op = "forgot" =>
               /\ req[q].token \notin spent /\ ~Held(req[q].token)
               /\ \A v \in Requests \ {q} : req[v].pc = "write" => req[v].token # req[q].token
          /\ req[q].op = "reset" =>
               \A u \in Users : account[u].verify # req[q].token /\ (account[u].reset = req[q].token => u = req[q].target)
          /\ req[q].op = "verify" =>
               \A u \in Users : account[u].reset # req[q].token /\ (account[u].verify = req[q].token => u = req[q].target)
          /\ req[q].token \in issued
      BY <3>1 DEF TokenOK, Writing
    <3>3. \A v \in Requests \ {q} : req'[v].pc = "write" => req[v].pc = "write" /\ req'[v].token = req[v].token
      OBVIOUS
    <3>4. Writing(q, "forgot")' =>
               /\ req'[q].token \notin spent' /\ ~Held(req[q].token)'
               /\ \A v \in Requests \ {q} : req'[v].pc = "write" => req'[v].token # req'[q].token
      BY <1>1, <3>1, <3>2, <3>3 DEF Writing, SameTokens
    <3> QED
      BY <3>1, <3>2, <3>4 DEF TokenOK, Writing, SameTokens, Held
  <2> QED
    BY <2>1, <2>2
<1> QED
  BY <1>2, <1>3, <1>4 DEF TokenInv

\* What TokenOK says of a request that is about to write, part by part.
LEMMA TokenOKParts ==
    ASSUME TypeInv, TokenInv, NEW q \in Requests, req[q].pc = "write"
    PROVE  /\ req[q].token \in issued /\ req[q].token \in Tokens
           /\ req[q].op = "forgot" =>
               /\ req[q].token \notin spent
               /\ \A u \in Users : req[q].token \notin {account[u].reset, account[u].verify}
               /\ \A v \in Requests \ {q} : req[v].pc = "write" => req[v].token # req[q].token
           /\ req[q].op = "reset" =>
               \A u \in Users : account[u].verify # req[q].token /\ (account[u].reset = req[q].token => u = req[q].target)
           /\ req[q].op = "verify" =>
               \A u \in Users : account[u].reset # req[q].token /\ (account[u].verify = req[q].token => u = req[q].target)
<1>1. TokenOK(q)
  BY DEF TokenInv
<1> QED
  BY <1>1, Typed DEF TokenOK, Writing, Held

\* The token a registration mails is new.
LEMMA RegisterKeepsTokens ==
    ASSUME TypeInv, TokenInv, NEW p \in Requests, Register(p)
    PROVE  TokenInv'
<1>1. /\ Moves(p, req'[p]) /\ spent' = spent /\ req'[p].pc = "regenerate"
  BY RegisterStep
<1>2. PICK w \in Users, n \in {None} \cup (Tokens \ issued) :
         /\ issued' = issued \cup ({n} \ {None})
         /\ account'[w].reset = None /\ account'[w].verify = n
         /\ \A v \in Users \ {w} : account'[v] = account[v]
  BY RegisterStep
<1>3. None \notin Tokens /\ spent \subseteq issued /\ \A q \in Requests \ {p} : req'[q] = req[q]
  BY <1>1, AccessAssumption, Typed DEF Moves
<1>4. \A u \in Users : (account[u].reset # n /\ account[u].verify # n) \/ n = None
  BY DEF TokenInv, Held
<1>5. \A t \in Tokens : Held(t)' => (t \in issued \ spent)'
  <2>1. \A t \in Tokens : Held(t)' => Held(t) \/ t = n
    BY <1>2, <1>3 DEF Held
  <2>2. \A t \in Tokens : Held(t) => t \in issued \ spent
    BY DEF TokenInv
  <2> QED
    BY <1>1, <1>2, <1>3, <2>1, <2>2
<1>6. OnePlace'
  <2>1. \A t \in Tokens, u \in Users : account'[u].reset = t => u # w /\ account[u].reset = t /\ t # n
    BY <1>2, <1>3, <1>4
  <2>2. \A t \in Tokens, u \in Users : account'[u].verify = t =>
           (u = w /\ t = n) \/ (u # w /\ account[u].verify = t /\ t # n)
    BY <1>2, <1>3, <1>4
  <2>3. OnePlace
    BY DEF TokenInv
  <2> QED
    BY <2>1, <2>2, <2>3 DEF OnePlace
<1>7. ASSUME NEW q \in Requests PROVE TokenOK(q)'
  <2>1. CASE req'[q].pc # "write"
    BY <2>1 DEF TokenOK, Writing
  <2>2. CASE req'[q].pc = "write"
    <3> DEFINE t == req[q].token
    <3>1. q # p /\ req'[q] = req[q] /\ req[q].pc = "write" /\ t # n /\ t # None /\ t \in issued
      BY <1>1, <1>2, <1>3, <2>2, TokenOKParts
    <3>2. \A u \in Users : /\ account'[u].reset = t => account[u].reset = t
                           /\ account'[u].verify = t => account[u].verify = t
      BY <1>2, <3>1
    <3>3. \A v \in Requests \ {q} : req'[v].pc = "write" => req[v].pc = "write" /\ req'[v].token = req[v].token
      BY <1>1, <1>3
    <3>4. Writing(q, "forgot")' =>
               /\ req'[q].token \notin spent' /\ ~Held(req[q].token)'
               /\ \A v \in Requests \ {q} : req'[v].pc = "write" => req'[v].token # req'[q].token
      BY <1>1, <3>1, <3>2, <3>3, TokenOKParts DEF Writing, Held
    <3>5. /\ req'[q].token \in issued'
          /\ Writing(q, "reset")' =>
               \A u \in Users : account'[u].verify # t /\ (account'[u].reset = t => u = req'[q].target)
          /\ Writing(q, "verify")' =>
               \A u \in Users : account'[u].reset # t /\ (account'[u].verify = t => u = req'[q].target)
      BY <1>2, <3>1, <3>2, TokenOKParts DEF Writing
    <3> QED
      BY <3>1, <3>4, <3>5 DEF TokenOK
  <2> QED
    BY <2>1, <2>2
<1> QED
  BY <1>5, <1>6, <1>7 DEF TokenInv

\* So is the one a reset mails, and no account has it before it is written.
LEMMA ForgotKeepsTokens ==
    ASSUME TypeInv, TokenInv, NEW p \in Requests, Forgot(p)
    PROVE  TokenInv'
<1>1. Moves(p, req'[p]) /\ account' = account /\ spent' = spent
  BY ForgotStep
<1>2. PICK w \in Users, n \in Tokens \ issued : Taken(p, "forgot", w, n) /\ issued' = issued \cup {n}
  BY ForgotStep
<1>3. spent \subseteq issued /\ \A q \in Requests \ {p} : req'[q] = req[q]
  BY <1>1, Typed DEF Moves
<1>4. ~Held(n)
  BY <1>2 DEF TokenInv
<1>5. \A t \in Tokens : Held(t)' => (t \in issued \ spent)'
  BY <1>1, <1>2 DEF TokenInv, Held
<1>6. OnePlace'
  BY <1>1 DEF TokenInv, OnePlace
<1>7. ASSUME NEW q \in Requests PROVE TokenOK(q)'
  <2>1. CASE req'[q].pc # "write"
    BY <2>1 DEF TokenOK, Writing
  <2>2. CASE q = p
    <3>1. req'[p].op = "forgot" /\ req'[p].token = n
      BY <1>2 DEF Taken
    <3>2. n \notin spent' /\ ~Held(n)' /\ n \in issued'
      BY <1>1, <1>2, <1>3, <1>4 DEF Held
    <3>3. \A v \in Requests \ {p} : req'[v].pc = "write" => req'[v].token # n
      BY <1>2, <1>3, TokenOKParts
    <3> QED
      BY <2>2, <3>1, <3>2, <3>3 DEF TokenOK, Writing
  <2>3. CASE req'[q].pc = "write" /\ q # p
    <3> DEFINE t == req[q].token
    <3>1. q # p /\ req'[q] = req[q] /\ req[q].pc = "write" /\ t # n /\ t \in issued
      BY <1>2, <1>3, <2>3, TokenOKParts
    <3>2. \A v \in Requests \ {q} : req'[v].pc = "write" =>
             \/ req[v].pc = "write" /\ req'[v].token = req[v].token
             \/ req'[v].token = n
      BY <1>2, <1>3 DEF Taken
    <3>3. Writing(q, "forgot")' =>
               /\ req'[q].token \notin spent' /\ ~Held(req[q].token)'
               /\ \A v \in Requests \ {q} : req'[v].pc = "write" => req'[v].token # req'[q].token
      BY <1>1, <3>1, <3>2, TokenOKParts DEF Writing, Held
    <3>4. /\ req'[q].token \in issued'
          /\ Writing(q, "reset")' =>
               \A u \in Users : account'[u].verify # t /\ (account'[u].reset = t => u = req'[q].target)
          /\ Writing(q, "verify")' =>
               \A u \in Users : account'[u].reset # t /\ (account'[u].verify = t => u = req'[q].target)
      BY <1>1, <1>2, <3>1, TokenOKParts DEF Writing
    <3> QED
      BY <3>1, <3>3, <3>4 DEF TokenOK
  <2> QED
    BY <2>1, <2>2, <2>3
<1> QED
  BY <1>5, <1>6, <1>7 DEF TokenInv

\* A token that is found is in one field of one account.
LEMMA FindKeepsTokens ==
    ASSUME TypeInv, TokenInv, NEW p \in Requests, Reset(p) \/ Verify(p)
    PROVE  TokenInv'
<1>1. Moves(p, req'[p]) /\ account' = account /\ issued' = issued /\ spent' = spent
  BY FindStep DEF accounts
<1>2. PICK w \in Users, n \in issued :
         \/ Taken(p, "reset", w, n) /\ account[w].reset = n
         \/ Taken(p, "verify", w, n) /\ account[w].verify = n
  BY FindStep
<1>3. n \in Tokens /\ \A q \in Requests \ {p} : req'[q] = req[q]
  BY <1>1, Typed DEF Moves
<1>4. \A t \in Tokens : Held(t)' => (t \in issued \ spent)'
  BY <1>1 DEF TokenInv, Held
<1>5. OnePlace'
  BY <1>1 DEF TokenInv, OnePlace
<1>6. ASSUME NEW q \in Requests PROVE TokenOK(q)'
  <2>1. CASE req'[q].pc # "write"
    BY <2>1 DEF TokenOK, Writing
  <2>2. CASE q = p
    <3>1. OnePlace
      BY DEF TokenInv
    <3>2. CASE Taken(p, "reset", w, n) /\ account[w].reset = n
      <4>1. \A u \in Users : account[u].verify # n /\ (account[u].reset = n => u = w)
        BY <1>3, <3>1, <3>2 DEF OnePlace
      <4> QED
        BY <1>1, <2>2, <3>2, <4>1 DEF TokenOK, Writing, Taken
    <3>3. CASE Taken(p, "verify", w, n) /\ account[w].verify = n
      <4>1. \A u \in Users : account[u].reset # n /\ (account[u].verify = n => u = w)
        BY <1>3, <3>1, <3>3 DEF OnePlace
      <4> QED
        BY <1>1, <2>2, <3>3, <4>1 DEF TokenOK, Writing, Taken
    <3> QED
      BY <1>2, <3>2, <3>3
  <2>3. CASE req'[q].pc = "write" /\ q # p
    <3> DEFINE t == req[q].token
    <3>1. req'[q] = req[q] /\ req[q].pc = "write" /\ t \in issued /\ (req[q].op = "forgot" => t # n)
      BY <1>2, <1>3, <2>3, TokenOKParts
    <3>2. \A v \in Requests \ {q} : req'[v].pc = "write" =>
             \/ req[v].pc = "write" /\ req'[v].token = req[v].token
             \/ req'[v].token = n
      BY <1>2, <1>3 DEF Taken
    <3>3. Writing(q, "forgot")' =>
               /\ req'[q].token \notin spent' /\ ~Held(req[q].token)'
               /\ \A v \in Requests \ {q} : req'[v].pc = "write" => req'[v].token # req'[q].token
      BY <1>1, <3>1, <3>2, TokenOKParts DEF Writing, Held
    <3>4. /\ req'[q].token \in issued'
          /\ Writing(q, "reset")' =>
               \A u \in Users : account'[u].verify # t /\ (account'[u].reset = t => u = req'[q].target)
          /\ Writing(q, "verify")' =>
               \A u \in Users : account'[u].reset # t /\ (account'[u].verify = t => u = req'[q].target)
      BY <1>1, <3>1, TokenOKParts DEF Writing
    <3> QED
      BY <3>1, <3>3, <3>4 DEF TokenOK
  <2> QED
    BY <2>1, <2>2, <2>3
<1> QED
  BY <1>4, <1>5, <1>6 DEF TokenInv

\* What is written is new, and what is cleared was in that account alone.
LEMMA WriteKeepsTokens ==
    ASSUME TypeInv, TokenInv, NEW p \in Requests, ForgotWrite(p) \/ ResetWrite(p) \/ VerifyWrite(p)
    PROVE  TokenInv'
<1> DEFINE w == req[p].target
           n == req[p].token
<1>1. /\ Moves(p, Idle) /\ req'[p] = Idle /\ issued' = issued
      /\ req[p].pc = "write" /\ w \in Users /\ n \in Tokens
      /\ \A v \in Users \ {w} : account'[v] = account[v]
      /\ \/ /\ req[p].op = "forgot" /\ spent' = spent
            /\ account'[w].reset = n /\ account'[w].verify = account[w].verify
         \/ /\ req[p].op = "reset" /\ spent' = spent \cup {n}
            /\ account'[w].reset = None /\ account'[w].verify = account[w].verify
         \/ /\ req[p].op = "verify" /\ spent' = spent \cup {n}
            /\ account'[w].verify = None /\ account'[w].reset = account[w].reset
  <2>1. TokenOK(p)
    BY DEF TokenInv
  <2> QED
    BY <2>1, WriteStep
<1>2. None \notin Tokens /\ \A q \in Requests \ {p} : req'[q] = req[q]
  BY <1>1, AccessAssumption DEF Moves
<1>3. /\ n \in issued
      /\ req[p].op = "forgot" =>
               /\ n \notin spent
               /\ \A u \in Users : account[u].reset # n /\ account[u].verify # n
               /\ \A v \in Requests \ {p} : req[v].pc = "write" => req[v].token # n
      /\ req[p].op = "reset" => \A u \in Users : account[u].verify # n /\ (account[u].reset = n => u = w)
      /\ req[p].op = "verify" => \A u \in Users : account[u].reset # n /\ (account[u].verify = n => u = w)
  BY <1>1, TokenOKParts
<1> HIDE DEF w, n
<1>4. \A t \in Tokens, u \in Users :
         /\ account'[u].reset = t => account[u].reset = t \/ (u = w /\ t = n /\ req[p].op = "forgot")
         /\ account'[u].verify = t => account[u].verify = t
  BY <1>1, <1>2
<1>5. req[p].op # "forgot" => \A u \in Users : account'[u].reset # n /\ account'[u].verify # n
  BY <1>1, <1>2, <1>3
<1>6. \A t \in Tokens : Held(t)' => (t \in issued \ spent)'
  <2> SUFFICES ASSUME NEW t \in Tokens, Held(t)' PROVE t \in issued /\ t \notin spent'
    BY <1>1
  <2>1. Held(t) \/ (t = n /\ req[p].op = "forgot")
    BY <1>4 DEF Held
  <2>2. Held(t) => t \in issued \ spent
    BY DEF TokenInv
  <2>3. t = n => req[p].op = "forgot"
    BY <1>5 DEF Held
  <2> QED
    BY <1>1, <1>3, <2>1, <2>2, <2>3
<1>7. OnePlace'
  <2>1. OnePlace
    BY DEF TokenInv
  <2> QED
    BY <1>3, <1>4, <2>1 DEF OnePlace
<1>8. ASSUME NEW q \in Requests PROVE TokenOK(q)'
  <2>1. CASE req'[q].pc # "write"
    BY <2>1 DEF TokenOK, Writing
  <2>2. CASE req'[q].pc = "write"
    <3> DEFINE t == req[q].token
    <3>1. /\ q # p /\ req'[q] = req[q] /\ req[q].pc = "write" /\ t \in issued /\ t \in Tokens
          /\ req[q].op = "forgot" => t # n
          /\ req[p].op = "forgot" => t # n
      <4>1. q # p
        BY <1>1, <2>2, IdleType
      <4>2. req'[q] = req[q] /\ req[q].pc = "write"
        BY <1>2, <2>2, <4>1
      <4>3. req[q].op = "forgot" => t # n
        <5>1. req[q].op = "forgot" => \A v \in Requests \ {q} : req[v].pc = "write" => req[v].token # t
          BY <4>2, TokenOKParts
        <5> QED
          BY <1>1, <4>1, <5>1 DEF n
      <4> QED
        BY <1>3, <4>1, <4>2, <4>3, TokenOKParts
    <3>2. \A v \in Requests \ {q} : req'[v].pc = "write" => req[v].pc = "write" /\ req'[v].token = req[v].token
      BY <1>1, <1>2, IdleType
    <3>3. \A u \in Users : /\ account'[u].reset = t => account[u].reset = t
                           /\ account'[u].verify = t => account[u].verify = t
      BY <1>4, <3>1
    <3>4. Writing(q, "forgot")' =>
               /\ req'[q].token \notin spent' /\ ~Held(req[q].token)'
               /\ \A v \in Requests \ {q} : req'[v].pc = "write" => req'[v].token # req'[q].token
      BY <1>1, <3>1, <3>2, <3>3, TokenOKParts DEF Writing, Held
    <3>5. /\ req'[q].token \in issued'
          /\ Writing(q, "reset")' =>
               \A u \in Users : account'[u].verify # t /\ (account'[u].reset = t => u = req'[q].target)
          /\ Writing(q, "verify")' =>
               \A u \in Users : account'[u].reset # t /\ (account'[u].verify = t => u = req'[q].target)
      BY <1>1, <3>1, <3>3, TokenOKParts DEF Writing
    <3> QED
      BY <3>1, <3>4, <3>5 DEF TokenOK
  <2> QED
    BY <2>1, <2>2
<1> QED
  BY <1>6, <1>7, <1>8 DEF TokenInv

-----------------------------------------------------------------------------
(* The guard                                                                  *)

\* A request past the guard, with a version in hand, and its user's acceptances.
UseOK(r, acc) ==
    r.pc = "handler" /\ r.op \in {"revoke", "all", "update"} /\ r.doc # None
        => r.doc \in Range(acc[r.user])

\* Acceptances are never taken back, and who is let through now has one.
LEMMA UseKeeps ==
    ASSUME TypeInv, AcceptedBeforeUse, NEW p \in Requests,
           \A q \in Requests \ {p} : req'[q] = req[q],
           \A u \in Users : Range(accepted[u]) \subseteq Range(accepted'[u]),
           UseOK(req'[p], accepted')
    PROVE  AcceptedBeforeUse'
<1> SUFFICES ASSUME NEW q \in Requests PROVE UseOK(req'[q], accepted')
  BY DEF AcceptedBeforeUse, UseOK
<1>1. CASE q = p
  BY <1>1
<1>2. CASE q # p
  <2>1. req'[q] = req[q] /\ UseOK(req[q], accepted) /\ WellFormed(req[q])
    BY <1>2, Typed DEF AcceptedBeforeUse, UseOK
  <2>2. req[q].pc = "handler" /\ req[q].op \in {"revoke", "all", "update"} => req[q].user \in Users
    BY <2>1 DEF WellFormed
  <2> QED
    BY <2>1, <2>2 DEF UseOK
<1> QED
  BY <1>1, <1>2

\* No other step passes a request on to a handler with a version in hand.
LEMMA UseKeepsApart ==
    ASSUME TypeInv, AcceptedBeforeUse, NEW p \in Requests,
           \A q \in Requests \ {p} : req'[q] = req[q], UNCHANGED accepted,
           req'[p].pc # "handler" \/ req'[p].doc = None
    PROVE  AcceptedBeforeUse'
BY UseKeeps DEF UseOK

\* The guard lets pass whose acceptance is of the version in force.
LEMMA GuardKeepsUse ==
    ASSUME TypeInv, AcceptedBeforeUse, NEW p \in Requests, GuardStatus(p)
    PROVE  AcceptedBeforeUse'
<1>1. /\ Moves(p, req'[p]) /\ UNCHANGED accepted
      /\ \/ req'[p].pc = "end"
         \/ req'[p].user = req[p].user /\ req'[p].doc \in Current(req[p].user)
  BY GuardStatusStep DEF Quiet
<1>2. req[p].user \in Users
  BY Typed DEF GuardStatus, WellFormed
<1>3. UseOK(req'[p], accepted')
  <2>1. \A v \in Current(req[p].user) : v = None \/ v \in Range(accepted[req[p].user])
    BY <1>2, Typed, CurrentAccepted
  <2> QED
    BY <1>1, <2>1 DEF UseOK
<1> QED
  BY <1>1, <1>3, UseKeeps DEF Moves

-----------------------------------------------------------------------------
(* The invariant                                                              *)

\* Sessions, tokens and the guard do not rest on one another, but a session is
\* read off the accounts' types, and the types of what is spent off the tokens.
IndInv == TypeInv /\ SessionInv /\ TokenInv /\ AcceptedBeforeUse

LEMMA InitInv == Init => IndInv
<1> SUFFICES ASSUME Init PROVE IndInv
  OBVIOUS
<1>1. TypeInv
  <2>1. account \in [Users -> Account]
    <3> DEFINE a == [NoAccount EXCEPT !.exists = TRUE, !.verified = TRUE]
               b == [u \in Users |-> NoAccount]
    <3>1. NoAccount \in Account /\ a \in Account
      BY DEF NoAccount, Account
    <3>2. account = [b EXCEPT ![Admin] = a]
      BY AccessAssumption DEF Init
    <3> HIDE DEF a
    <3> QED
      BY <3>1, <3>2
  <2>2. TypeOK
    BY <2>1, IdleType DEF Init, TypeOK
  <2>3. \A p \in Requests : WellFormed(req[p])
    BY IdleType DEF Init
  <2> QED
    BY <2>2, <2>3 DEF TypeInv
<1>2. \A p \in Requests : req[p].user = None /\ req[p].pc = "idle"
  BY IdleType DEF Init
<1>3. SessionInv
  <2>1. \A s \in Sids, u \in Users : ~Claims(s, u)
    BY <1>2, AccessAssumption DEF Init, Claims
  <2>2. \A p \in Requests : ~Saves(req[p])
    BY <1>2, AccessAssumption DEF Saves
  <2>3. SessionsRevocable
    BY DEF Init, SessionsRevocable
  <2> QED
    BY <2>1, <2>2, <2>3 DEF SessionInv, OneClaim, ClaimsGiven, SavesListed
<1>4. TokenInv
  <2>1. \A u \in Users : account[u].reset = None /\ account[u].verify = None
    <3>1. NoAccount.reset = None /\ NoAccount.verify = None
      BY DEF NoAccount
    <3>2. CASE Admin \in Users
      BY <3>1, <3>2 DEF Init, NoAccount
    <3> QED
      BY <3>2, AccessAssumption
  <2>2. \A p \in Requests : TokenOK(p)
    BY <1>2 DEF TokenOK, Writing
  <2> QED
    BY <2>1, <2>2, AccessAssumption DEF TokenInv, Held, OnePlace
<1>5. AcceptedBeforeUse
  BY <1>2 DEF AcceptedBeforeUse
<1> QED
  BY <1>1, <1>3, <1>4, <1>5 DEF IndInv

\* Steps that change no session, token or account.
LEMMA QuietKeeps ==
    ASSUME IndInv, NEW p \in Requests, Quiet(p)
    PROVE  SessionInv' /\ TokenInv'
<1>1. SameSession(p)
  BY DEF Quiet, SameSession
<1>2. SameTokens /\ \A q \in Requests : req'[q] = req[q] \/ req'[q].pc # "write"
  BY DEF Quiet, SameTokens, accounts, Moves
<1> QED
  BY <1>1, <1>2, SameSessionKeeps, SameTokensKeep DEF IndInv

\* Steps that change sessions alone.
LEMMA ApartKeeps ==
    ASSUME IndInv, NEW p \in Requests, Moves(p, req'[p]), Apart, req'[p].pc \notin {"write", "handler"}
    PROVE  TokenInv' /\ AcceptedBeforeUse'
<1>1. SameTokens /\ (\A q \in Requests : req'[q] = req[q] \/ req'[q].pc # "write") /\ UNCHANGED accepted
  BY DEF Apart, SameTokens, accounts, legal, Moves
<1> QED
  BY <1>1, SameTokensKeep, UseKeepsApart DEF IndInv, Moves

\* Steps of a request without a session.
LEMMA TokenStepKeeps ==
    ASSUME IndInv, NEW p \in Requests, Moves(p, req'[p]), req'[p].user = None, UNCHANGED <<sessions, legal>>,
           req'[p].pc # "handler"
    PROVE  SessionInv' /\ AcceptedBeforeUse'
<1>1. SameSession(p)
  BY DEF SameSession
<1> QED
  BY <1>1, SameSessionKeeps, UseKeepsApart DEF IndInv, Moves, legal

LEMMA GuardAndLegalKeep ==
    ASSUME IndInv, NEW p \in Requests,
           \/ GuardDocs(p) \/ GuardStatus(p) \/ Boot(p) \/ PublishFind(p) \/ PublishCreate(p)
           \/ AcceptFind(p) \/ AcceptCreate(p) \/ RevokeAll(p) \/ MultiFails(p) \/ UserLoad(p)
    PROVE  IndInv'
<1> USE DEF IndInv
<1>1. ASSUME TypeInv', Quiet(p), AcceptedBeforeUse' PROVE IndInv'
  BY <1>1, QuietKeeps
<1>2. ASSUME Quiet(p), UNCHANGED accepted, req'[p].pc # "handler" \/ req'[p].doc = None
      PROVE  AcceptedBeforeUse'
  BY <1>2, UseKeepsApart DEF Quiet, Moves
<1>3. CASE GuardDocs(p)
  BY <1>1, <1>2, <1>3, GuardDocsStep
<1>4. CASE GuardStatus(p)
  BY <1>1, <1>4, GuardStatusStep, GuardKeepsUse
<1>5. CASE Boot(p)
  BY <1>1, <1>2, <1>5, BootStep
<1>6. CASE PublishFind(p) \/ PublishCreate(p)
  BY <1>1, <1>2, <1>6, PublishStep
<1>7. CASE AcceptFind(p) \/ AcceptCreate(p)
  <2>1. /\ TypeInv' /\ Quiet(p) /\ req'[p].pc \in {"end", "create"}
        /\ \A u \in Users : Range(accepted[u]) \subseteq Range(accepted'[u])
    BY <1>7, AcceptStep
  <2>2. AcceptedBeforeUse'
    BY <2>1, UseKeeps DEF Quiet, Moves, UseOK
  <2> QED
    BY <1>1, <2>1, <2>2
<1>8. CASE RevokeAll(p)
  BY <1>1, <1>2, <1>8, RevokeAllStep
<1>9. CASE UserLoad(p)
  BY <1>1, <1>2, <1>9, UserLoadStep
<1>10. CASE MultiFails(p)
  BY <1>1, <1>2, <1>10, MultiFailsStep
<1> QED
  BY <1>3, <1>4, <1>5, <1>6, <1>7, <1>8, <1>9, <1>10

LEMMA SessionStepsKeep ==
    ASSUME IndInv, NEW p \in Requests,
           \/ Arrive(p) \/ Login(p) \/ End(p) \/ Regenerate(p) \/ Enlist(p) \/ EnlistFails(p) \/ Logout(p)
           \/ LogoutRemove(p) \/ Revoke(p) \/ RevokeAllMulti(p) \/ Destroy(p)
    PROVE  IndInv'
<1> USE DEF IndInv
<1>1. CASE Arrive(p) \/ Login(p)
  <2>1. /\ TypeInv' /\ Moves(p, req'[p]) /\ Loaded(p)
        /\ UNCHANGED <<accounts, sessions, accepted>>
        /\ req'[p].pc # "write" /\ (req'[p].pc # "handler" \/ req'[p].doc = None)
    BY <1>1, ArriveStep, LoginStep
  <2>2. SessionInv'
    BY <2>1, LoadedKeeps
  <2>3. TokenInv'
    BY <2>1, SameTokensKeep DEF SameTokens, accounts, Moves
  <2>4. AcceptedBeforeUse'
    BY <2>1, UseKeepsApart DEF Moves
  <2> QED
    BY <2>1, <2>2, <2>3, <2>4
<1>2. CASE End(p)
  <2>1. TypeInv' /\ Moves(p, req'[p]) /\ Apart /\ req'[p].pc = "idle"
    BY <1>2, EndStep, IdleType DEF Moves
  <2> QED
    BY <1>2, <2>1, EndKeeps, ApartKeeps
<1>3. CASE Regenerate(p)
  BY <1>3, RegenerateStep, RegenerateKeepsSessions, ApartKeeps
<1>4. CASE Enlist(p)
  BY <1>4, EnlistStep, EnlistKeeps, ApartKeeps
<1>5. CASE Logout(p) \/ Destroy(p)
  <2>1. /\ TypeInv' /\ Moves(p, req'[p]) /\ Apart /\ UNCHANGED <<sets, given, loose>>
        /\ req[p].sid \in Sids /\ Deleted(req[p].sid)
        /\ req'[p].user = None /\ req'[p].pc \in {"remove", "idle"}
    BY <1>5, LogoutStep, DestroyStep
  <2>2. SessionInv'
    BY <2>1, DeletedKeeps DEF Moves
  <2> QED
    BY <2>1, <2>2, ApartKeeps
<1>6. CASE LogoutRemove(p) \/ Revoke(p) \/ RevokeAllMulti(p)
  BY <1>6, DropStep, DropsKeeps, ApartKeeps
<1>7. CASE EnlistFails(p)
  BY <1>7, EnlistFailsStep, EnlistFailsKeeps, ApartKeeps
<1> QED
  BY <1>1, <1>2, <1>3, <1>4, <1>5, <1>6, <1>7

LEMMA TokenStepsKeep ==
    ASSUME IndInv, NEW p \in Requests,
           \/ Register(p) \/ Forgot(p) \/ Reset(p) \/ Verify(p)
           \/ ForgotWrite(p) \/ ResetWrite(p) \/ VerifyWrite(p) \/ UserSave(p)
    PROVE  IndInv'
<1> USE DEF IndInv
<1>1. CASE Register(p)
  <2>1. /\ TypeInv' /\ Moves(p, req'[p]) /\ Loaded(p) /\ UNCHANGED <<sessions, accepted>>
        /\ req'[p].pc = "regenerate"
    BY <1>1, RegisterStep
  <2>2. SessionInv' /\ AcceptedBeforeUse'
    BY <2>1, LoadedKeeps, UseKeepsApart DEF Moves
  <2> QED
    BY <1>1, <2>1, <2>2, RegisterKeepsTokens
<1>2. CASE Forgot(p)
  <2>1. /\ TypeInv' /\ Moves(p, req'[p]) /\ UNCHANGED <<sessions, legal>>
        /\ req'[p].pc = "write" /\ req'[p].user = None
    BY <1>2, ForgotStep DEF Taken
  <2> QED
    BY <1>2, <2>1, TokenStepKeeps, ForgotKeepsTokens
<1>3. CASE Reset(p) \/ Verify(p)
  <2>1. /\ TypeInv' /\ Moves(p, req'[p]) /\ UNCHANGED <<sessions, legal>>
        /\ req'[p].pc = "write" /\ req'[p].user = None
    BY <1>3, FindStep DEF Taken
  <2> QED
    BY <1>3, <2>1, TokenStepKeeps, FindKeepsTokens
<1>4. CASE ForgotWrite(p) \/ ResetWrite(p) \/ VerifyWrite(p)
  <2>1. TypeInv' /\ Moves(p, Idle) /\ req'[p] = Idle /\ UNCHANGED <<sessions, legal>>
    <3>1. TokenOK(p)
      BY DEF TokenInv
    <3> QED
      BY <1>4, <3>1, WriteStep
  <2>2. Moves(p, req'[p]) /\ req'[p].user = None /\ req'[p].pc = "idle"
    BY <2>1, IdleType
  <2> QED
    BY <1>4, <2>1, <2>2, TokenStepKeeps, WriteKeepsTokens
<1>5. CASE UserSave(p)
  <2>1. /\ TypeInv' /\ Moves(p, req'[p]) /\ UNCHANGED <<issued, expired, spent, sessions, legal>>
        /\ \A u \in Users : account'[u].reset = account[u].reset /\ account'[u].verify = account[u].verify
        /\ Saves(req[p]) /\ req'[p].pc = "end"
        /\ req'[p].sid = req[p].sid /\ req'[p].user = req[p].user
    BY <1>5, UserSaveStep
  <2>2. SessionInv'
    BY <2>1, SameSessionKeeps DEF SameSession
  <2>3. TokenInv'
    BY <2>1, SameTokensKeep DEF SameTokens, Moves
  <2>4. AcceptedBeforeUse'
    BY <2>1, UseKeepsApart DEF legal, Moves
  <2> QED
    BY <2>1, <2>2, <2>3, <2>4
<1> QED
  BY <1>1, <1>2, <1>3, <1>4, <1>5

LEMMA ExpiriesKeep ==
    ASSUME IndInv, (\E s \in Sids : SessionExpires(s)) \/ (\E t \in Tokens : TokenExpires(t))
    PROVE  IndInv'
<1> USE DEF IndInv
<1>1. CASE \E s \in Sids : SessionExpires(s)
  <2>1. PICK s \in Sids : SessionExpires(s)
    BY <1>1
  <2>2. TypeInv' /\ Apart /\ UNCHANGED <<sets, given, loose, req>> /\ Deleted(s)
    BY <2>1, ExpiresStep
  <2>3. SessionInv'
    BY <2>2, DeletedKeeps
  <2>4. TokenInv'
    BY <2>2, SameTokensKeep DEF SameTokens, Apart, accounts
  <2>5. AcceptedBeforeUse'
    BY <2>2 DEF AcceptedBeforeUse, Apart, legal
  <2> QED
    BY <2>2, <2>3, <2>4, <2>5
<1>2. CASE \E t \in Tokens : TokenExpires(t)
  <2>1. PICK t \in Tokens : TokenExpires(t)
    BY <1>2
  <2>2. TypeInv' /\ UNCHANGED <<account, issued, spent, sessions, legal, req>>
    BY <2>1, TokenExpiresStep
  <2>3. SessionInv'
    BY <2>2 DEF SessionInv, OneClaim, ClaimsGiven, Claims, SavesListed, Saves, SessionsRevocable, sessions
  <2>4. TokenInv'
    BY <2>2, SameTokensKeep DEF SameTokens
  <2>5. AcceptedBeforeUse'
    BY <2>2 DEF AcceptedBeforeUse, legal
  <2> QED
    BY <2>2, <2>3, <2>4, <2>5
<1> QED
  BY <1>1, <1>2

LEMMA StutterKeeps ==
    ASSUME IndInv, UNCHANGED vars
    PROVE  IndInv'
<1>1. /\ account' = account /\ issued' = issued /\ expired' = expired /\ store' = store /\ sets' = sets
      /\ given' = given /\ docs' = docs /\ accepted' = accepted /\ req' = req /\ spent' = spent
      /\ loose' = loose
  BY DEF vars
<1>2. TypeInv'
  BY <1>1 DEF IndInv, TypeInv, TypeOK, WellFormed
<1>3. SessionInv'
  BY <1>1 DEF IndInv, SessionInv, OneClaim, ClaimsGiven, Claims, SavesListed, Saves, SessionsRevocable
<1>4. TokenInv'
  BY <1>1, SameTokensKeep DEF IndInv, SameTokens
<1>5. AcceptedBeforeUse'
  BY <1>1 DEF IndInv, AcceptedBeforeUse
<1> QED
  BY <1>2, <1>3, <1>4, <1>5 DEF IndInv

\* What holds of sessions, tokens and acceptances between any two steps of any
\* requests; every theorem below is read off it.
THEOREM Inductive == Spec => []IndInv
<1>1. Init => IndInv
  BY InitInv
<1>2. IndInv /\ [Next]_vars => IndInv'
  <2> SUFFICES ASSUME IndInv, [Next]_vars PROVE IndInv'
    OBVIOUS
  <2>1. CASE UNCHANGED vars
    BY <2>1, StutterKeeps
  <2>2. CASE Next
    <3>1. CASE (\E s \in Sids : SessionExpires(s)) \/ (\E t \in Tokens : TokenExpires(t))
      BY <3>1, ExpiriesKeep
    <3>2. ASSUME NEW p \in Requests,
                 \/ GuardDocs(p) \/ GuardStatus(p) \/ Boot(p) \/ PublishFind(p) \/ PublishCreate(p)
                 \/ AcceptFind(p) \/ AcceptCreate(p) \/ RevokeAll(p) \/ MultiFails(p) \/ UserLoad(p)
          PROVE  IndInv'
      BY <3>2, GuardAndLegalKeep
    <3>3. ASSUME NEW p \in Requests,
                 \/ Arrive(p) \/ Login(p) \/ End(p) \/ Regenerate(p) \/ Enlist(p) \/ EnlistFails(p) \/ Logout(p)
                 \/ LogoutRemove(p) \/ Revoke(p) \/ RevokeAllMulti(p) \/ Destroy(p)
          PROVE  IndInv'
      BY <3>3, SessionStepsKeep
    <3>4. ASSUME NEW p \in Requests,
                 \/ Register(p) \/ Forgot(p) \/ Reset(p) \/ Verify(p)
                 \/ ForgotWrite(p) \/ ResetWrite(p) \/ VerifyWrite(p) \/ UserSave(p)
          PROVE  IndInv'
      BY <3>4, TokenStepsKeep
    <3> QED
      BY <2>2, <3>1, <3>2, <3>3, <3>4 DEF Next, Session
  <2> QED
    BY <2>1, <2>2
<1> QED
  BY <1>1, <1>2, PTL DEF Spec

\* Types: what AuthService, SessionsService, LegalService and UsersService
\* store is of the shape they read it in.
THEOREM TypeCorrect == Spec => []TypeOK
<1>1. IndInv => TypeOK
  BY DEF IndInv, TypeInv
<1> QED
  BY <1>1, Inductive, PTL

\* A session in the list of a user is that user's.  A session id is claimed, by
\* its record, by a list or by a request that has it loaded, for one user from
\* the moment session.regenerate draws it.
THEOREM OwnSessions == Spec => []SessionsOwned
<1>1. IndInv => SessionsOwned
  <2> SUFFICES ASSUME IndInv, NEW u \in Users, NEW s \in sets[u], store[s] # None PROVE store[s] = u
    BY DEF SessionsOwned
  <2>1. s \in Sids /\ store[s] \in Users
    BY Typed DEF IndInv
  <2>2. Claims(s, u) /\ Claims(s, store[s])
    BY DEF Claims
  <2> QED
    BY <2>1, <2>2 DEF IndInv, SessionInv, OneClaim
<1> QED
  BY <1>1, Inductive, PTL

\* revokeAll reaches every live session, but for those revoked while another
\* request had them loaded and those registerSession failed to list.
THEOREM Revocable == Spec => []SessionsRevocable
<1>1. IndInv => SessionsRevocable
  BY DEF IndInv, SessionInv
<1> QED
  BY <1>1, Inductive, PTL

\* A token resetPassword or verifyEmail has used is never in an account again.
THEOREM SpentTokens == Spec => []SpentTokensStayDead
<1>1. IndInv => SpentTokensStayDead
  <2> SUFFICES ASSUME IndInv, NEW t \in spent, NEW u \in Users, t \in {account[u].reset, account[u].verify}
               PROVE  FALSE
    BY DEF SpentTokensStayDead
  <2>1. t \in Tokens /\ Held(t)
    BY Typed DEF IndInv, Held
  <2> QED
    BY <2>1 DEF IndInv, TokenInv
<1> QED
  BY <1>1, Inductive, PTL

\* LegalGuard lets nobody act who has not accepted the version it has read; it
\* lets everybody act when it fails to read one.
THEOREM GuardedUse == Spec => []AcceptedBeforeUse
<1>1. IndInv => AcceptedBeforeUse
  BY DEF IndInv
<1> QED
  BY <1>1, Inductive, PTL
=============================================================================
