---------------------------- MODULE SignupProofs ----------------------------
(***************************************************************************)
(* Theorems about Signup, for any addresses, domains, organizations,       *)
(* invites and requests, and whatever dies, expires or finds no seat.      *)
(***************************************************************************)
EXTENDS Signup, FiniteSetTheorems, TLAPS

-----------------------------------------------------------------------------
(* The inductive invariant *)

Exists(o) == o \in OrgIds /\ orgs[o].status # "none"

\* A registration that is about to insert the founder of its organization.
Founding(r) == req[r].pc = "user" /\ req[r].mine

Founder(e) == users[e].owns

\* What a registration has in hand at each step.
RequestOK(r) ==
    LET q == req[r] IN
    /\ q.pc \notin {"idle", "save"} => q.email \in Emails
    /\ q.pc = "claim" => ~q.mine /\ (q.org = None \/ Exists(q.org))
    /\ q.pc \in {"user", "owner"} => Exists(q.org)
    /\ q.pc = "owner" => users[q.email] = [org |-> q.org, owns |-> TRUE]
    /\ Founding(r) => \A e \in Emails : Founder(e) => users[e].org # q.org

\* What has been created by one registration is nobody else's to found.
FoundingsApart ==
    \A q, r \in Requests : q # r /\ Founding(q) /\ Founding(r) => req[q].org # req[r].org

FoundersSeated == \A e \in Emails : Founder(e) => Exists(users[e].org)

IndInv ==
    /\ TypeOK
    /\ \A r \in Requests : RequestOK(r)
    /\ FoundingsApart
    /\ FoundersSeated
    /\ OwnerBelongs
    /\ OneFounder

-----------------------------------------------------------------------------
(* Documents have their types *)

LEMMA DocumentTypes ==
    /\ NoOrg \in Org /\ NoOrg.status = "none" /\ NoOrg.owner = None
    /\ NoUser \in User /\ ~NoUser.owns
    /\ NoInvite \in Invite
    /\ Idle \in Request /\ Idle.pc = "idle" /\ ~Idle.mine
    /\ NoTask \in Task
BY DEF NoOrg, Org, NoUser, User, NoInvite, Invite, Idle, Request, NoTask, Task

LEMMA NewOrgType ==
    ASSUME NEW d \in Domains \cup {None}
    PROVE  LET n == [NoOrg EXCEPT !.status = "live", !.domain = d]
           IN  n \in Org /\ n.status = "live" /\ n.owner = None
BY DEF NoOrg, Org

-----------------------------------------------------------------------------
(* Frames *)

\* Organizations do not disappear and accounts do not change.
Grows ==
    /\ \A o \in OrgIds : Exists(o) => Exists(o)'
    /\ \A e \in Emails : users[e] # NoUser => users'[e] = users[e]

\* What another request p has in hand, a step leaves it, provided that no
\* founder of p's organization appears.
LEMMA OthersKeep ==
    ASSUME IndInv, Grows, NEW p \in Requests, req'[p] = req[p],
           Founding(p) => \A e \in Emails : Founder(e)' => Founder(e) \/ users'[e].org # req[p].org
    PROVE  RequestOK(p)'
<1>1. RequestOK(p) /\ req[p] \in Request /\ users \in [Emails -> User]
  BY DEF IndInv, TypeOK
<1>2. req[p].org \in OrgIds \cup {None} /\ req[p].email \in Emails \cup {None}
  BY <1>1 DEF Request
<1>3. req[p].pc \in {"user", "owner"} => Exists(req[p].org)'
  BY <1>1, <1>2 DEF RequestOK, Grows, Exists
<1>4. req[p].pc = "claim" => req[p].org = None \/ Exists(req[p].org)'
  BY <1>1, <1>2 DEF RequestOK, Grows, Exists
<1>5. req[p].pc = "owner" => users'[req[p].email] = [org |-> req[p].org, owns |-> TRUE]
  BY <1>1, <1>2 DEF RequestOK, Grows, NoUser
<1>6. Founding(p) => \A e \in Emails : Founder(e)' => users'[e].org # req[p].org
  <2> SUFFICES ASSUME Founding(p), NEW e \in Emails, Founder(e)' PROVE users'[e].org # req[p].org
    OBVIOUS
  <2>1. CASE Founder(e)
    <3>1. users[e] # NoUser
      BY <2>1, DocumentTypes DEF Founder
    <3> QED
      BY <1>1, <2>1, <3>1 DEF Grows, RequestOK
  <2>2. CASE users'[e].org # req[p].org
    BY <2>2
  <2> QED
    BY <2>1, <2>2
<1> QED
  BY <1>1, <1>3, <1>4, <1>5, <1>6 DEF RequestOK, Founding, Exists

\* Steps that touch no registration, organization or account.
LEMMA RegistrationsStay ==
    ASSUME IndInv, TypeOK', UNCHANGED <<orgs, users, req>>
    PROVE  IndInv'
BY DEF IndInv, RequestOK, Exists, Founding, Founder, FoundingsApart, FoundersSeated,
       OwnerBelongs, OneFounder

\* Steps that move one registration's own record and found nothing.
LEMMA OwnRecordMoves ==
    ASSUME IndInv, NEW r \in Requests, NEW q \in Request,
           req' = [req EXCEPT ![r] = q], UNCHANGED <<orgs, users>>, TypeOK',
           RequestOK(r)', ~(q.pc = "user" /\ q.mine)
    PROVE  IndInv'
<1>1. req'[r] = q /\ \A p \in Requests \ {r} : req'[p] = req[p]
  BY DEF IndInv, TypeOK
<1>2. \A p \in Requests : RequestOK(p)'
  <2> SUFFICES ASSUME NEW p \in Requests \ {r} PROVE RequestOK(p)'
    OBVIOUS
  <2> QED
    BY <1>1, OthersKeep DEF Grows, Exists, Founder
<1>3. FoundingsApart'
  BY <1>1 DEF IndInv, FoundingsApart, Founding
<1>4. FoundersSeated' /\ OwnerBelongs' /\ OneFounder'
  BY DEF IndInv, FoundersSeated, OwnerBelongs, OneFounder, Founder, Exists
<1> QED
  BY <1>2, <1>3, <1>4 DEF IndInv

LEMMA FinishKeeps ==
    ASSUME IndInv, NEW r \in Requests, Finish(r), UNCHANGED <<orgs, users>>, TypeOK'
    PROVE  IndInv'
<1>1. req' = [req EXCEPT ![r] = Idle] /\ req'[r] = Idle
  BY DEF Finish, IndInv, TypeOK
<1>2. RequestOK(r)'
  BY <1>1, DocumentTypes DEF RequestOK, Founding
<1> QED
  BY <1>1, <1>2, DocumentTypes, OwnRecordMoves

-----------------------------------------------------------------------------
(* Steps of a registration that write no organization and no account *)

LEMMA RegisterKeeps ==
    ASSUME IndInv, NEW r \in Requests, Register(r)
    PROVE  IndInv'
<1>1. PICK e \in Emails, o \in {None} \cup {p \in OrgIds : orgs[p].status # "none"} :
         req' = [req EXCEPT ![r] = [Idle EXCEPT !.pc = "claim", !.email = e, !.org = o]]
  BY DEF Register
<1> DEFINE q == [Idle EXCEPT !.pc = "claim", !.email = e, !.org = o]
<1>2. /\ q \in Request /\ q.pc = "claim" /\ q.email = e /\ q.org = o /\ ~q.mine
      /\ UNCHANGED <<orgs, users, claims, invites, admin>>
  BY DEF Idle, Request, Register
<1> HIDE DEF q
<1>3. req' = [req EXCEPT ![r] = q] /\ req'[r] = q /\ TypeOK'
  BY <1>1, <1>2 DEF q, IndInv, TypeOK
<1>4. RequestOK(r)'
  BY <1>2, <1>3 DEF RequestOK, Founding, Exists
<1> QED
  BY <1>2, <1>3, <1>4, OwnRecordMoves

LEMMA ClaimKeeps ==
    ASSUME IndInv, NEW r \in Requests, Claim(r)
    PROVE  IndInv'
<1> DEFINE d == DomainOf[req[r].email]
<1>1. req[r] \in Request /\ RequestOK(r) /\ req[r].pc = "claim" /\ req \in [Requests -> Request]
  BY DEF IndInv, TypeOK, Claim
<1>2. d \in Domains
  BY <1>1, SignupAssumption DEF RequestOK
<1> HIDE DEF d
<1>3. CASE d \in claims
  <2>1. Finish(r) /\ UNCHANGED <<orgs, users, claims, invites, admin>>
    BY <1>3 DEF Claim, d
  <2>2. TypeOK'
    BY <2>1, DocumentTypes DEF IndInv, TypeOK, Finish
  <2> QED
    BY <2>1, <2>2, FinishKeeps
<1>4. CASE d \notin claims
  <2> DEFINE pc == IF req[r].org = None THEN "org" ELSE "user"
             q == [req[r] EXCEPT !.pc = pc]
  <2>1. /\ req' = [req EXCEPT ![r] = q] /\ claims' = claims \cup {d}
        /\ UNCHANGED <<orgs, users, invites, admin>>
    BY <1>1, <1>4 DEF Claim, Goto, d
  <2>2. pc \in {"org", "user"} /\ (pc = "user" => req[r].org # None)
    OBVIOUS
  <2> HIDE DEF pc
  <2>3. q \in Request /\ q.pc = pc /\ q.email = req[r].email /\ q.org = req[r].org /\ ~q.mine
    BY <1>1, <2>2 DEF Request, RequestOK
  <2> HIDE DEF q
  <2>4. req'[r] = q /\ TypeOK'
    BY <1>1, <1>2, <2>1, <2>3 DEF IndInv, TypeOK
  <2>5. RequestOK(r)'
    BY <1>1, <2>1, <2>2, <2>3, <2>4 DEF RequestOK, Founding, Exists
  <2> QED
    BY <2>1, <2>3, <2>4, <2>5, OwnRecordMoves
<1> QED
  BY <1>3, <1>4

\* What a registration does when it gives up.
LEMMA GotoReleaseKeeps ==
    ASSUME IndInv, NEW r \in Requests, req[r].pc \in {"org", "user", "owner"}, Goto(r, "release"),
           UNCHANGED <<orgs, users, claims, invites, admin>>
    PROVE  IndInv'
<1> DEFINE q == [req[r] EXCEPT !.pc = "release"]
<1>1. req[r] \in Request /\ RequestOK(r) /\ req \in [Requests -> Request]
  BY DEF IndInv, TypeOK
<1>2. q \in Request /\ q.pc = "release" /\ q.email = req[r].email
  BY <1>1 DEF Request
<1>3. req' = [req EXCEPT ![r] = q]
  BY <1>1 DEF Goto
<1> HIDE DEF q
<1>4. req'[r] = q /\ TypeOK'
  BY <1>1, <1>2, <1>3 DEF IndInv, TypeOK
<1>5. RequestOK(r)'
  BY <1>1, <1>2, <1>4 DEF RequestOK, Founding
<1> QED
  BY <1>2, <1>3, <1>4, <1>5, OwnRecordMoves

LEMMA ReleaseKeeps ==
    ASSUME IndInv, NEW r \in Requests, Release(r) \/ Die(r) \/ AcceptSave(r)
    PROVE  IndInv'
<1>1. Finish(r) /\ UNCHANGED <<orgs, users, invites, admin>> /\ claims' \subseteq claims
  BY DEF Release, Die, AcceptSave
<1>2. TypeOK'
  BY <1>1, DocumentTypes DEF Finish, IndInv, TypeOK
<1> QED
  BY <1>1, <1>2, FinishKeeps

-----------------------------------------------------------------------------
(* Steps that write an organization *)

\* A document that is filled in was no one's: nobody is its founder, nobody is
\* about to be.
LEMMA NewOrgIsNobodys ==
    ASSUME IndInv, NEW o \in OrgIds, orgs[o] = NoOrg
    PROVE  /\ ~Exists(o)
           /\ \A r \in Requests : req[r].pc \in {"user", "owner"} => req[r].org # o
           /\ \A e \in Emails : Founder(e) => users[e].org # o
BY DocumentTypes DEF IndInv, Exists, RequestOK, FoundersSeated

\* What a step on an organization leaves of the accounts and their owners.
LEMMA OrgMoves ==
    ASSUME IndInv, TypeOK', UNCHANGED users,
           \A o \in OrgIds : Exists(o) => Exists(o)',
           \A o \in OrgIds : orgs'[o].owner \in {orgs[o].owner, None}
    PROVE  /\ Grows
           /\ FoundersSeated' /\ OwnerBelongs' /\ OneFounder'
<1>1. Grows
  BY DEF Grows
<1>2. FoundersSeated' /\ OneFounder'
  BY DEF IndInv, FoundersSeated, OneFounder, Founder, Exists
<1>3. OwnerBelongs'
  BY DEF IndInv, OwnerBelongs
<1> QED
  BY <1>1, <1>2, <1>3

\* orgs.create found the domain free, by the unique index, and the document is
\* new: the registration is the only one to have it.
LEMMA CreateOrgKeeps ==
    ASSUME IndInv, NEW r \in Requests, CreateOrg(r)
    PROVE  IndInv'
<1> DEFINE d == DomainOf[req[r].email]
<1>1. /\ req[r] \in Request /\ RequestOK(r) /\ req[r].pc = "org" /\ req \in [Requests -> Request]
      /\ UNCHANGED <<users, claims, invites, admin>>
  BY DEF IndInv, TypeOK, CreateOrg
<1>2. d \in Domains
  BY <1>1, SignupAssumption DEF RequestOK
<1> HIDE DEF d
<1>3. CASE Taken(d)
  <2>1. Goto(r, "release") /\ UNCHANGED orgs
    BY <1>3 DEF CreateOrg, d
  <2> QED
    BY <1>1, <2>1, GotoReleaseKeeps
<1>4. CASE ~Taken(d)
  <2> DEFINE n == [NoOrg EXCEPT !.status = "live", !.domain = d]
  <2>1. PICK o \in OrgIds :
           /\ orgs[o] = NoOrg
           /\ orgs' = [orgs EXCEPT ![o] = n]
           /\ req' = [req EXCEPT ![r].pc = "user", ![r].org = o, ![r].mine = TRUE]
    BY <1>4 DEF CreateOrg, d
  <2> DEFINE q == [req[r] EXCEPT !.pc = "user", !.org = o, !.mine = TRUE]
  <2>2. n \in Org /\ n.status = "live" /\ n.owner = None
    BY <1>2, NewOrgType
  <2>3. q \in Request /\ q.pc = "user" /\ q.org = o /\ q.mine /\ q.email = req[r].email
    BY <1>1 DEF Request
  <2>4. req' = [req EXCEPT ![r] = q]
    BY <1>1, <2>1
  <2> HIDE DEF n, q
  <2>5. /\ req'[r] = q /\ \A p \in Requests \ {r} : req'[p] = req[p]
        /\ orgs'[o] = n /\ \A p \in OrgIds \ {o} : orgs'[p] = orgs[p]
        /\ TypeOK'
    <3>1. orgs' = [orgs EXCEPT ![o] = n] /\ orgs \in [OrgIds -> Org]
      BY <2>1 DEF IndInv, TypeOK
    <3>2. req' \in [Requests -> Request] /\ req'[r] = q /\ \A p \in Requests \ {r} : req'[p] = req[p]
      BY <1>1, <2>3, <2>4
    <3> QED
      BY <1>1, <2>2, <3>1, <3>2 DEF IndInv, TypeOK
  <2>6. Grows /\ FoundersSeated' /\ OwnerBelongs' /\ OneFounder' /\ Exists(o)'
    <3>1. (\A p \in OrgIds : Exists(p) => Exists(p)') /\ Exists(o)'
      BY <2>2, <2>5 DEF Exists
    <3>2. \A p \in OrgIds : orgs'[p].owner \in {orgs[p].owner, None}
      BY <2>2, <2>5
    <3> QED
      BY <1>1, <2>5, <3>1, <3>2, OrgMoves
  <2>7. /\ \A p \in Requests : req[p].pc \in {"user", "owner"} => req[p].org # o
        /\ \A e \in Emails : Founder(e) => users[e].org # o
    BY <2>1, NewOrgIsNobodys
  <2>8. \A p \in Requests : RequestOK(p)'
    <3>1. RequestOK(r)'
      BY <1>1, <2>3, <2>5, <2>6, <2>7 DEF RequestOK, Founding, Founder
    <3>2. ASSUME NEW p \in Requests \ {r} PROVE RequestOK(p)'
      BY <1>1, <2>5, <2>6, OthersKeep DEF Founder
    <3> QED
      BY <3>1, <3>2
  <2>9. FoundingsApart'
    BY <2>3, <2>5, <2>7 DEF IndInv, FoundingsApart, Founding
  <2> QED
    BY <2>5, <2>6, <2>8, <2>9 DEF IndInv
<1> QED
  BY <1>3, <1>4

\* The owner is the account that the same request has inserted.
LEMMA SetOwnerKeeps ==
    ASSUME IndInv, NEW r \in Requests, SetOwner(r)
    PROVE  IndInv'
<1> DEFINE o == req[r].org
           e == req[r].email
           q == [req[r] EXCEPT !.pc = "release"]
<1>1. /\ req[r] \in Request /\ RequestOK(r) /\ req[r].pc = "owner" /\ req \in [Requests -> Request]
      /\ orgs \in [OrgIds -> Org]
      /\ UNCHANGED <<users, claims, invites, admin>>
      /\ Goto(r, "release")
  BY DEF IndInv, TypeOK, SetOwner
<1>2. o \in OrgIds /\ e \in Emails /\ Exists(o) /\ users[e] = [org |-> o, owns |-> TRUE]
  BY <1>1 DEF RequestOK, Exists
<1>3. CASE orgs[o].hold
  BY <1>1, <1>3, GotoReleaseKeeps DEF SetOwner
<1>4. CASE ~orgs[o].hold
  <2> DEFINE n == [orgs[o] EXCEPT !.owner = e]
  <2>1. orgs' = [orgs EXCEPT ![o] = n]
    BY <1>1, <1>4 DEF SetOwner
  <2>2. n \in Org /\ n.status = orgs[o].status /\ n.owner = e
    BY <1>1, <1>2 DEF Org
  <2>3. q \in Request /\ q.pc = "release" /\ q.email = e /\ req' = [req EXCEPT ![r] = q]
    BY <1>1 DEF Request, Goto
  <2> HIDE DEF n, q, o, e
  <2>4. /\ req'[r] = q /\ \A p \in Requests \ {r} : req'[p] = req[p]
        /\ orgs'[o] = n /\ \A p \in OrgIds \ {o} : orgs'[p] = orgs[p]
        /\ TypeOK'
    BY <1>1, <1>2, <2>1, <2>2, <2>3 DEF IndInv, TypeOK
  <2>5. Grows
    BY <1>1, <2>2, <2>4 DEF Grows, Exists
  <2>6. \A p \in Requests : RequestOK(p)'
    <3>1. RequestOK(r)'
      BY <1>2, <2>3, <2>4 DEF RequestOK, Founding
    <3>2. ASSUME NEW p \in Requests \ {r} PROVE RequestOK(p)'
      BY <1>1, <2>4, <2>5, OthersKeep DEF Founder
    <3> QED
      BY <3>1, <3>2
  <2>7. FoundingsApart'
    BY <2>3, <2>4 DEF IndInv, FoundingsApart, Founding
  <2>8. FoundersSeated' /\ OneFounder'
    BY <1>1, <2>5 DEF IndInv, FoundersSeated, OneFounder, Founder, Grows, Exists
  <2>9. OwnerBelongs'
    <3>1. orgs'[o].owner = e /\ users' = users
      BY <1>1, <2>2, <2>4
    <3>2. \A p \in OrgIds \ {o} : orgs'[p].owner = orgs[p].owner
      BY <2>4
    <3>3. OwnerBelongs
      BY DEF IndInv
    <3> QED
      BY <1>2, <3>1, <3>2, <3>3 DEF OwnerBelongs
  <2> QED
    BY <2>4, <2>6, <2>7, <2>8, <2>9 DEF IndInv
<1> QED
  BY <1>3, <1>4

\* The administration writes organizations under the feet of registrations.
LEMMA OrgMovesAlone ==
    ASSUME IndInv, TypeOK', UNCHANGED <<users, req>>,
           \A o \in OrgIds : Exists(o) => Exists(o)',
           \A o \in OrgIds : orgs'[o].owner \in {orgs[o].owner, None}
    PROVE  IndInv'
<1>1. Grows /\ FoundersSeated' /\ OwnerBelongs' /\ OneFounder'
  BY OrgMoves
<1>2. \A p \in Requests : RequestOK(p)'
  BY <1>1, OthersKeep DEF Founder
<1>3. FoundingsApart'
  BY DEF IndInv, FoundingsApart, Founding
<1> QED
  BY <1>1, <1>2, <1>3 DEF IndInv

LEMMA OrgCreateKeeps ==
    ASSUME IndInv, OrgCreate
    PROVE  IndInv'
<1>1. PICK o \in OrgIds, d \in Domains \cup {None} :
         /\ orgs[o] = NoOrg
         /\ orgs' = [orgs EXCEPT ![o] = [NoOrg EXCEPT !.status = "live", !.domain = d]]
  BY DEF OrgCreate
<1> DEFINE n == [NoOrg EXCEPT !.status = "live", !.domain = d]
<1>2. n \in Org /\ n.status = "live" /\ n.owner = None
  BY NewOrgType
<1> HIDE DEF n
<1>3. orgs' = [orgs EXCEPT ![o] = n] /\ UNCHANGED <<users, claims, invites, req, admin>>
  BY <1>1 DEF n, OrgCreate
<1>4. /\ orgs'[o] = n /\ \A p \in OrgIds \ {o} : orgs'[p] = orgs[p]
      /\ TypeOK'
  BY <1>2, <1>3 DEF IndInv, TypeOK
<1>5. \A p \in OrgIds : Exists(p) => Exists(p)'
  BY <1>2, <1>4 DEF Exists
<1>6. \A p \in OrgIds : orgs'[p].owner \in {orgs[p].owner, None}
  BY <1>2, <1>4
<1> QED
  BY <1>3, <1>4, <1>5, <1>6, OrgMovesAlone

LEMMA OrgSaveKeeps ==
    ASSUME IndInv, NEW x \in Admins, OrgSave(x)
    PROVE  IndInv'
<1> DEFINE t == admin[x]
<1>1. /\ t \in Task /\ admin' = [admin EXCEPT ![x] = NoTask]
      /\ UNCHANGED <<users, claims, invites, req>>
      /\ orgs \in [OrgIds -> Org]
  BY DEF OrgSave, IndInv, TypeOK
<1>2. PICK n : /\ orgs' = [orgs EXCEPT ![t.org] = n]
               /\ t.org \in OrgIds =>
                    /\ n \in Org /\ n.owner = orgs[t.org].owner
                    /\ n.status \in {orgs[t.org].status, "live", "archived"}
  <2>1. CASE t.op = "hold"
    <3> DEFINE n == [orgs[t.org] EXCEPT !.hold = t.on]
    <3>1. orgs' = [orgs EXCEPT ![t.org] = n]
      BY <2>1 DEF OrgSave
    <3>2. t.org \in OrgIds => n \in Org /\ n.owner = orgs[t.org].owner /\ n.status = orgs[t.org].status
      BY <1>1 DEF Org, Task
    <3> QED
      BY <3>1, <3>2
  <2>2. CASE t.op \in {"archive", "unarchive"}
    <3> DEFINE s == IF t.op = "archive" THEN "archived" ELSE "live"
               n == [orgs[t.org] EXCEPT !.status = s]
    <3>1. s \in {"archived", "live"} /\ orgs' = [orgs EXCEPT ![t.org] = n]
      BY <2>2 DEF OrgSave
    <3> HIDE DEF s
    <3>2. t.org \in OrgIds => n \in Org /\ n.owner = orgs[t.org].owner /\ n.status = s
      BY <1>1, <3>1 DEF Org
    <3> QED
      BY <3>1, <3>2
  <2> QED
    BY <2>1, <2>2 DEF OrgSave
<1>3. TypeOK'
  BY <1>1, <1>2, DocumentTypes DEF IndInv, TypeOK
<1>4. \A o \in OrgIds : Exists(o) => Exists(o)'
  BY <1>1, <1>2 DEF Exists
<1>5. \A o \in OrgIds : orgs'[o].owner \in {orgs[o].owner, None}
  BY <1>1, <1>2
<1> QED
  BY <1>1, <1>3, <1>4, <1>5, OrgMovesAlone

-----------------------------------------------------------------------------
(* Steps that insert an account *)

\* An insertion changes no account: the address was free, and the account goes
\* to an organization that is live.
LEMMA InsertKeepsAccounts ==
    ASSUME IndInv, UNCHANGED orgs, NEW e \in Emails, NEW o \in OrgIds, NEW own \in BOOLEAN,
           CanCreate(e, o), users' = [users EXCEPT ![e] = [org |-> o, owns |-> own]],
           own => \A f \in Emails : Founder(f) => users[f].org # o
    PROVE  /\ users' \in [Emails -> User] /\ users'[e] = [org |-> o, owns |-> own]
           /\ Exists(o)
           /\ Grows
           /\ \A f \in Emails : Founder(f)' => Founder(f) \/ (own /\ users'[f].org = o)
           /\ FoundersSeated' /\ OwnerBelongs' /\ OneFounder'
<1> DEFINE u == [org |-> o, owns |-> own]
<1>1. u \in User /\ u.org = o /\ u.owns = own /\ u # NoUser
  BY SignupAssumption DEF User, NoUser
<1>2. Exists(o) /\ users[e] = NoUser /\ users \in [Emails -> User]
  BY DEF CanCreate, Active, Registered, Exists, IndInv, TypeOK
<1> HIDE DEF u
<1>3. users' = [users EXCEPT ![e] = u]
  BY DEF u
<1>4. /\ users' \in [Emails -> User] /\ users'[e] = u
      /\ \A f \in Emails \ {e} : users'[f] = users[f]
  BY <1>1, <1>2, <1>3
<1>5. Grows
  BY <1>2, <1>4 DEF Grows, Exists
<1>6. \A f \in Emails : Founder(f)' => Founder(f) \/ (own /\ f = e /\ users'[f].org = o)
  BY <1>1, <1>4 DEF Founder
<1>7. FoundersSeated'
  BY <1>1, <1>2, <1>4 DEF IndInv, FoundersSeated, Founder, Exists
<1>8. OwnerBelongs'
  BY <1>2, <1>4, SignupAssumption DEF IndInv, OwnerBelongs, NoUser, TypeOK, Org
<1>9. OneFounder'
  BY <1>1, <1>2, <1>4 DEF IndInv, OneFounder, Founder
<1> QED
  BY <1>1, <1>2, <1>4, <1>5, <1>6, <1>7, <1>8, <1>9 DEF u

LEMMA CreateUserKeeps ==
    ASSUME IndInv, NEW r \in Requests, CreateUser(r)
    PROVE  IndInv'
<1> DEFINE e == req[r].email
           o == req[r].org
           own == req[r].mine
           pc == IF own THEN "owner" ELSE "release"
           q == [req[r] EXCEPT !.pc = pc]
<1>1. /\ req[r] \in Request /\ RequestOK(r) /\ req[r].pc = "user" /\ req \in [Requests -> Request]
      /\ UNCHANGED <<orgs, claims, invites, admin>>
  BY DEF IndInv, TypeOK, CreateUser
<1>2. e \in Emails /\ o \in OrgIds /\ own \in BOOLEAN /\ (own => Founding(r))
  BY <1>1 DEF RequestOK, Exists, Request, Founding
<1>3. CASE ~CanCreate(e, o)
  BY <1>1, <1>3, GotoReleaseKeeps DEF CreateUser
<1>4. CASE CanCreate(e, o)
  <2>1. /\ users' = [users EXCEPT ![e] = [org |-> o, owns |-> own]]
        /\ Goto(r, pc)
    BY <1>4 DEF CreateUser
  <2>2. own => \A f \in Emails : Founder(f) => users[f].org # o
    BY <1>1, <1>2 DEF RequestOK
  <2>3. /\ users' \in [Emails -> User] /\ users'[e] = [org |-> o, owns |-> own]
        /\ Exists(o)
        /\ Grows
        /\ \A f \in Emails : Founder(f)' => Founder(f) \/ (own /\ users'[f].org = o)
        /\ FoundersSeated' /\ OwnerBelongs' /\ OneFounder'
    BY <1>1, <1>2, <1>4, <2>1, <2>2, InsertKeepsAccounts
  <2>4. pc \in {"owner", "release"} /\ (pc = "owner" => own)
    OBVIOUS
  <2> HIDE DEF pc
  <2>5. /\ q \in Request /\ q.pc = pc /\ q.email = e /\ q.org = o
        /\ req' = [req EXCEPT ![r] = q]
    BY <1>1, <2>1, <2>4 DEF Request, Goto
  <2> HIDE DEF q
  <2>6. /\ req' \in [Requests -> Request] /\ req'[r] = q
        /\ \A p \in Requests \ {r} : req'[p] = req[p]
    BY <1>1, <2>5
  <2>7. TypeOK'
    BY <1>1, <2>3, <2>6 DEF IndInv, TypeOK
  <2>8. \A p \in Requests : RequestOK(p)'
    <3>1. RequestOK(r)'
      BY <1>1, <1>2, <2>3, <2>4, <2>5, <2>6 DEF RequestOK, Founding, Exists
    <3>2. ASSUME NEW p \in Requests \ {r} PROVE RequestOK(p)'
      <4>1. Founding(p) /\ own => req[p].org # o
        BY <1>2 DEF IndInv, FoundingsApart
      <4>2. Founding(p) => \A f \in Emails : Founder(f)' => Founder(f) \/ users'[f].org # req[p].org
        BY <2>3, <4>1
      <4> QED
        BY <2>3, <2>6, <4>2, OthersKeep
    <3> QED
      BY <3>1, <3>2
  <2>9. FoundingsApart'
    BY <2>4, <2>5, <2>6 DEF IndInv, FoundingsApart, Founding
  <2> QED
    BY <2>3, <2>7, <2>8, <2>9 DEF IndInv
<1> QED
  BY <1>3, <1>4

LEMMA UserCreateKeeps ==
    ASSUME IndInv, UserCreate
    PROVE  IndInv'
<1>1. PICK e \in Emails, o \in OrgIds :
         CanCreate(e, o) /\ users' = [users EXCEPT ![e] = [org |-> o, owns |-> FALSE]]
  BY DEF UserCreate
<1>2. UNCHANGED <<orgs, claims, invites, req, admin>>
  BY DEF UserCreate
<1>3. /\ users' \in [Emails -> User] /\ Grows
      /\ \A f \in Emails : Founder(f)' => Founder(f)
      /\ FoundersSeated' /\ OwnerBelongs' /\ OneFounder'
  BY <1>1, <1>2, InsertKeepsAccounts
<1>4. \A p \in Requests : RequestOK(p)'
  BY <1>2, <1>3, OthersKeep
<1>5. TypeOK' /\ FoundingsApart'
  BY <1>2, <1>3 DEF IndInv, TypeOK, FoundingsApart, Founding
<1> QED
  BY <1>3, <1>4, <1>5 DEF IndInv

-----------------------------------------------------------------------------
(* Invites and tasks *)

LEMMA AcceptKeeps ==
    ASSUME IndInv, NEW r \in Requests, Accept(r)
    PROVE  IndInv'
<1> DEFINE swept == [i \in InviteIds |-> IF Stale(i) THEN [invites[i] EXCEPT !.status = "expired"]
                                         ELSE invites[i]]
<1>1. invites' = swept /\ UNCHANGED <<orgs, users, claims, admin>>
  BY DEF Accept
<1>2. swept \in [InviteIds -> Invite]
  BY DEF IndInv, TypeOK, Invite
<1>3. PICK i \in InviteIds :
         req' = [req EXCEPT ![r] =
                IF swept[i].status = "pending" /\ CanCreate(swept[i].email, swept[i].org)
                THEN [Idle EXCEPT !.pc = "save", !.email = swept[i].email] ELSE Idle]
  BY DEF Accept
<1> DEFINE q == IF swept[i].status = "pending" /\ CanCreate(swept[i].email, swept[i].org)
                THEN [Idle EXCEPT !.pc = "save", !.email = swept[i].email] ELSE Idle
<1>4. q \in Request /\ q.pc \in {"idle", "save"}
  <2>1. swept[i].email \in Emails \cup {None}
    BY <1>2 DEF Invite
  <2> HIDE DEF swept
  <2> QED
    BY <2>1 DEF Idle, Request
<1> HIDE DEF swept, q
<1>5. req' = [req EXCEPT ![r] = q]
  BY <1>3 DEF q
<1>6. req'[r] = q /\ TypeOK'
  BY <1>1, <1>2, <1>4, <1>5 DEF IndInv, TypeOK
<1>7. RequestOK(r)'
  BY <1>4, <1>6 DEF RequestOK, Founding
<1> QED
  BY <1>1, <1>4, <1>5, <1>6, <1>7, OwnRecordMoves

LEMMA ExpiredType ==
    ASSUME TypeOK, NEW o
    PROVE  Expired(o) \in [InviteIds -> Invite]
BY DEF Expired, TypeOK, Invite

LEMMA InvitationKeeps ==
    ASSUME IndInv, NEW x \in Admins,
           InviteStart(x) \/ InviteIssue(x) \/ InviteRenew(x)
    PROVE  IndInv'
<1>1. UNCHANGED <<orgs, users, claims, req>>
  BY DEF InviteStart, InviteIssue, InviteRenew
<1>2. admin \in [Admins -> Task] /\ invites \in [InviteIds -> Invite]
  BY DEF IndInv, TypeOK
<1>3. invites' \in [InviteIds -> Invite] /\ admin' \in [Admins -> Task]
  <2>1. CASE InviteStart(x)
    <3>1. PICK o \in OrgIds :
             /\ invites' = Expired(o)
             /\ \E i \in InviteIds, e \in Emails :
                  \/ /\ invites[i] = NoInvite /\ CanInvite(o, e)
                     /\ admin' = [admin EXCEPT ![x] = [NoTask EXCEPT !.op = "issue", !.org = o, !.invite = i, !.email = e]]
                  \/ /\ invites[i].org = o /\ invites[i].email = e
                     /\ admin' = [admin EXCEPT ![x] = [NoTask EXCEPT !.op = "renew", !.org = o, !.invite = i, !.email = e]]
      BY <2>1 DEF InviteStart
    <3>2. \A i \in InviteIds, e \in Emails :
             /\ [NoTask EXCEPT !.op = "issue", !.org = o, !.invite = i, !.email = e] \in Task
             /\ [NoTask EXCEPT !.op = "renew", !.org = o, !.invite = i, !.email = e] \in Task
      BY DEF NoTask, Task
    <3> QED
      BY <1>2, <3>1, <3>2, ExpiredType DEF IndInv
  <2>2. CASE InviteIssue(x)
    <3> DEFINE t == admin[x]
               n == [status |-> "pending", org |-> t.org, email |-> t.email, due |-> FALSE]
    <3>1. t \in Task /\ n \in Invite
      BY <1>2 DEF Task, Invite
    <3>2. invites' = [invites EXCEPT ![t.invite] = n] /\ admin' = [admin EXCEPT ![x] = NoTask]
      BY <2>2 DEF InviteIssue
    <3> HIDE DEF n, t
    <3> QED
      BY <1>2, <3>1, <3>2, DocumentTypes
  <2>3. CASE InviteRenew(x)
    <3> DEFINE i == admin[x].invite
               n == [invites[i] EXCEPT !.due = FALSE]
    <3>1. (invites' = invites \/ invites' = [invites EXCEPT ![i] = n]) /\ admin' = [admin EXCEPT ![x] = NoTask]
      BY <2>3 DEF InviteRenew
    <3>2. i \in InviteIds => n \in Invite
      BY <1>2 DEF Invite
    <3> HIDE DEF n, i
    <3>3. invites' \in [InviteIds -> Invite]
      BY <1>2, <3>1, <3>2
    <3> QED
      BY <1>2, <3>1, <3>3, DocumentTypes
  <2> QED
    BY <2>1, <2>2, <2>3
<1> QED
  BY <1>1, <1>3, RegistrationsStay DEF IndInv, TypeOK

LEMMA OrgLoadKeeps ==
    ASSUME IndInv, NEW x \in Admins, OrgLoad(x)
    PROVE  IndInv'
<1>1. UNCHANGED <<orgs, users, claims, invites, req>>
  BY DEF OrgLoad
<1>2. PICK k \in Task : admin' = [admin EXCEPT ![x] = k]
  <2>1. PICK o \in OrgIds :
         \/ \E on \in BOOLEAN : admin' = [admin EXCEPT ![x] = [NoTask EXCEPT !.op = "hold", !.org = o, !.on = on]]
         \/ admin' = [admin EXCEPT ![x] = [NoTask EXCEPT !.op = "archive", !.org = o]]
         \/ admin' = [admin EXCEPT ![x] = [NoTask EXCEPT !.op = "unarchive", !.org = o]]
    BY DEF OrgLoad
  <2>2. /\ \A on \in BOOLEAN : [NoTask EXCEPT !.op = "hold", !.org = o, !.on = on] \in Task
        /\ [NoTask EXCEPT !.op = "archive", !.org = o] \in Task
        /\ [NoTask EXCEPT !.op = "unarchive", !.org = o] \in Task
    BY DEF NoTask, Task
  <2> QED
    BY <2>1, <2>2
<1>3. TypeOK'
  BY <1>1, <1>2 DEF IndInv, TypeOK
<1> QED
  BY <1>1, <1>3, RegistrationsStay

LEMMA TimeKeeps ==
    ASSUME IndInv,
           \/ \E d \in Domains : ClaimExpires(d)
           \/ \E i \in InviteIds : InviteDue(i) \/ InviteGone(i)
    PROVE  IndInv'
<1>1. UNCHANGED <<orgs, users, req, admin>>
  BY DEF ClaimExpires, InviteDue, InviteGone
<1>2. claims' \subseteq claims
  BY DEF ClaimExpires, InviteDue, InviteGone
<1>3. invites' \in [InviteIds -> Invite]
  <2>1. invites \in [InviteIds -> Invite]
    BY DEF IndInv, TypeOK
  <2>2. ASSUME NEW i \in InviteIds, InviteDue(i) PROVE invites' \in [InviteIds -> Invite]
    <3>1. [invites[i] EXCEPT !.due = TRUE] \in Invite
      BY <2>1 DEF Invite
    <3> QED
      BY <2>1, <2>2, <3>1 DEF InviteDue
  <2>3. ASSUME NEW i \in InviteIds, InviteGone(i) PROVE invites' \in [InviteIds -> Invite]
    BY <2>1, <2>3, DocumentTypes DEF InviteGone
  <2>4. ASSUME NEW d \in Domains, ClaimExpires(d) PROVE invites' \in [InviteIds -> Invite]
    BY <2>1, <2>4 DEF ClaimExpires
  <2> QED
    BY <2>2, <2>3, <2>4
<1> QED
  BY <1>1, <1>2, <1>3, RegistrationsStay DEF IndInv, TypeOK

-----------------------------------------------------------------------------
(* The theorems on accounts and owners *)

LEMMA InitInv == Init => IndInv
<1> SUFFICES ASSUME Init PROVE IndInv
  OBVIOUS
<1>1. TypeOK
  BY DocumentTypes DEF Init, TypeOK
<1>2. \A r \in Requests : RequestOK(r)
  BY DocumentTypes DEF Init, RequestOK, Founding
<1>3. FoundingsApart /\ FoundersSeated /\ OneFounder
  BY DocumentTypes DEF Init, FoundingsApart, Founding, FoundersSeated, Founder, OneFounder
<1>4. OwnerBelongs
  BY DocumentTypes DEF Init, OwnerBelongs
<1> QED
  BY <1>1, <1>2, <1>3, <1>4 DEF IndInv

LEMMA NextInv == IndInv /\ [Next]_vars => IndInv'
<1> SUFFICES ASSUME IndInv, [Next]_vars PROVE IndInv'
  OBVIOUS
<1>1. ASSUME NEW r \in Requests, Registration(r) PROVE IndInv'
  BY <1>1, ClaimKeeps, CreateOrgKeeps, CreateUserKeeps, SetOwnerKeeps, ReleaseKeeps DEF Registration
<1>2. ASSUME NEW r \in Requests, NoSeat(r) PROVE IndInv'
  BY <1>2, GotoReleaseKeeps DEF NoSeat
<1>3. ASSUME NEW r \in Requests, Register(r) \/ Die(r) \/ Accept(r) \/ AcceptSave(r) PROVE IndInv'
  BY <1>3, RegisterKeeps, ReleaseKeeps, AcceptKeeps
<1>4. ASSUME NEW x \in Admins,
             OrgLoad(x) \/ OrgSave(x) \/ InviteStart(x) \/ InviteIssue(x) \/ InviteRenew(x)
      PROVE  IndInv'
  BY <1>4, OrgLoadKeeps, OrgSaveKeeps, InvitationKeeps
<1>5. CASE UNCHANGED vars
  BY <1>5, RegistrationsStay DEF vars, IndInv, TypeOK
<1> QED
  BY <1>1, <1>2, <1>3, <1>4, <1>5, OrgCreateKeeps, UserCreateKeeps, TimeKeeps DEF Next

THEOREM Inductive == Spec => []IndInv
BY InitInv, NextInv, PTL DEF Spec

\* Every variable keeps its shape.
THEOREM TypeCorrect == Spec => []TypeOK
<1>1. IndInv => TypeOK
  BY DEF IndInv
<1> QED
  BY <1>1, Inductive, PTL

\* The owner of an organization is an account that was inserted as its founder,
\* wherever a registration dies, loses its claim or finds no seat
\* (auth.service.ts, register).
THEOREM OwnersBelong == Spec => []OwnerBelongs
<1>1. IndInv => OwnerBelongs
  BY DEF IndInv
<1> QED
  BY <1>1, Inductive, PTL

\* However many registrations of a domain overlap, an organization has one
\* founder (auth.service.ts, register; organization.schema.ts, the unique index).
THEOREM FoundersApart == Spec => []OneFounder
<1>1. IndInv => OneFounder
  BY DEF IndInv
<1> QED
  BY <1>1, Inductive, PTL

-----------------------------------------------------------------------------
(* Invitations, when those who invite to an organization take turns: expiry,  *)
(* checks and write are three operations, and no index forbids a second       *)
(* pending invite.                                                            *)

InTurn == "stale" \notin Liberties

\* Due or not, until someone notices.
Standing(i) == invites[i].status = "pending"

OneStanding ==
    \A i, j \in InviteIds :
       Standing(i) /\ Standing(j) /\ invites[i].org = invites[j].org
          /\ invites[i].email = invites[j].email => i = j

\* The invite about to be written is the only one of its address.
IssueOK(x) ==
    LET t == admin[x] IN
    t.op = "issue" /\ t.invite # None =>
       \A i \in InviteIds : Standing(i) => invites[i].org # t.org \/ invites[i].email # t.email

InvitersApart ==
    \A x, y \in Admins : x # y /\ admin[x].invite # None /\ admin[y].invite # None =>
       admin[x].org # admin[y].org

InviteInv ==
    /\ OneStanding
    /\ \A x \in Admins : IssueOK(x)
    /\ InvitersApart

-----------------------------------------------------------------------------
(* No invite comes to stand but by InviteIssue *)

NoneStands ==
    \A i \in InviteIds : Standing(i)' =>
       Standing(i) /\ invites'[i].org = invites[i].org /\ invites'[i].email = invites[i].email

LEMMA NoneStandsKeeps ==
    ASSUME InviteInv, NoneStands,
           \A x \in Admins : admin'[x] = admin[x] \/ admin'[x].invite = None
    PROVE  InviteInv'
<1>1. OneStanding'
  BY DEF InviteInv, OneStanding, NoneStands
<1>2. \A x \in Admins : IssueOK(x)'
  BY DEF InviteInv, IssueOK, NoneStands
<1>3. InvitersApart'
  BY DEF InviteInv, InvitersApart
<1> QED
  BY <1>1, <1>2, <1>3 DEF InviteInv

LEMMA AdminMoves ==
    ASSUME TypeOK, NEW x \in Admins, NEW k \in Task, admin' = [admin EXCEPT ![x] = k]
    PROVE  admin'[x] = k /\ \A y \in Admins \ {x} : admin'[y] = admin[y]
BY DEF TypeOK

\* The stale invites of the organization have expired, so the check that finds
\* none pending finds none standing.
LEMMA InviteStartInv ==
    ASSUME InTurn, TypeOK, InviteInv, NEW x \in Admins, InviteStart(x)
    PROVE  InviteInv'
<1>1. PICK o \in OrgIds :
         /\ \A y \in Admins : admin[y].invite = None \/ admin[y].org # o
         /\ invites' = Expired(o)
         /\ \E i \in InviteIds, e \in Emails :
              \/ /\ invites[i] = NoInvite /\ CanInvite(o, e)
                 /\ admin' = [admin EXCEPT ![x] = [NoTask EXCEPT !.op = "issue", !.org = o, !.invite = i, !.email = e]]
              \/ /\ invites[i].org = o /\ invites[i].email = e
                 /\ admin' = [admin EXCEPT ![x] = [NoTask EXCEPT !.op = "renew", !.org = o, !.invite = i, !.email = e]]
  BY DEF InviteStart, InTurn
<1>2. NoneStands
  <2>1. \A i \in InviteIds : invites'[i] = invites[i] \/ invites'[i].status = "expired"
    BY <1>1 DEF Expired, TypeOK, Invite
  <2> QED
    BY <2>1 DEF NoneStands, Standing
<1>3. PICK e \in Emails, i \in InviteIds :
         /\ admin'[x].org = o /\ admin'[x].email = e /\ admin'[x].invite = i
         /\ admin'[x].op = "issue" => CanInvite(o, e)
         /\ \A y \in Admins \ {x} : admin'[y] = admin[y]
  <2>1. PICK i \in InviteIds, e \in Emails :
              \/ /\ invites[i] = NoInvite /\ CanInvite(o, e)
                 /\ admin' = [admin EXCEPT ![x] = [NoTask EXCEPT !.op = "issue", !.org = o, !.invite = i, !.email = e]]
              \/ /\ invites[i].org = o /\ invites[i].email = e
                 /\ admin' = [admin EXCEPT ![x] = [NoTask EXCEPT !.op = "renew", !.org = o, !.invite = i, !.email = e]]
    BY <1>1
  <2>2. PICK k \in Task :
          /\ admin' = [admin EXCEPT ![x] = k]
          /\ k.org = o /\ k.email = e /\ k.invite = i
          /\ k.op = "issue" => CanInvite(o, e)
    <3> DEFINE K(op) == [NoTask EXCEPT !.op = op, !.org = o, !.invite = i, !.email = e]
    <3>1. ASSUME NEW op \in {"issue", "renew"}
          PROVE  K(op) \in Task /\ K(op).org = o /\ K(op).email = e /\ K(op).invite = i /\ K(op).op = op
      BY DEF NoTask, Task
    <3>2. \/ CanInvite(o, e) /\ admin' = [admin EXCEPT ![x] = K("issue")]
          \/ admin' = [admin EXCEPT ![x] = K("renew")]
      BY <2>1
    <3> HIDE DEF K
    <3> QED
      BY <3>1, <3>2
  <2>3. admin'[x] = k /\ \A y \in Admins \ {x} : admin'[y] = admin[y]
    BY <2>2, AdminMoves
  <2> QED
    BY <2>2, <2>3
<1>4. OneStanding'
  BY <1>2 DEF InviteInv, OneStanding, NoneStands
<1>5. \A y \in Admins : IssueOK(y)'
  <2>1. ASSUME NEW y \in Admins \ {x} PROVE IssueOK(y)'
    BY <1>2, <1>3 DEF InviteInv, IssueOK, NoneStands
  <2>2. ASSUME admin'[x].op = "issue", NEW j \in InviteIds, Standing(j)', invites'[j].org = o, invites'[j].email = e
        PROVE  FALSE
    <3>1. Standing(j) /\ invites[j].org = o /\ invites[j].email = e
      BY <1>2, <2>2 DEF NoneStands
    <3>2. invites[j] \in Invite
      BY DEF TypeOK
    <3>3. ~Stale(j)
      BY <1>1, <2>2, <3>1, <3>2 DEF Expired, Standing, Invite
    <3>4. j \in Pending(o, e)
      BY <3>1, <3>3 DEF Pending, Standing, Stale
    <3> QED
      BY <1>3, <2>2, <3>4 DEF CanInvite
  <2> QED
    BY <1>3, <2>1, <2>2 DEF IssueOK
<1>6. InvitersApart'
  BY <1>1, <1>3 DEF InviteInv, InvitersApart
<1> QED
  BY <1>4, <1>5, <1>6 DEF InviteInv

LEMMA InviteIssueInv ==
    ASSUME TypeOK, InviteInv, NEW x \in Admins, InviteIssue(x)
    PROVE  InviteInv'
<1> DEFINE t == admin[x]
           n == [status |-> "pending", org |-> t.org, email |-> t.email, due |-> FALSE]
<1>1. /\ t.op = "issue" /\ IssueOK(x)
      /\ invites' = [invites EXCEPT ![t.invite] = n] /\ invites \in [InviteIds -> Invite]
      /\ admin' = [admin EXCEPT ![x] = NoTask]
  BY DEF InviteIssue, TypeOK, InviteInv
<1>2. n.org = t.org /\ n.email = t.email
  OBVIOUS
<1> HIDE DEF n
<1>3. \A i \in InviteIds : invites'[i] = IF i = t.invite THEN n ELSE invites[i]
  BY <1>1
<1>4. admin'[x] = NoTask /\ NoTask.invite = None /\ \A y \in Admins \ {x} : admin'[y] = admin[y]
  <2>1. NoTask.invite = None
    BY DEF NoTask
  <2> QED
    BY <1>1, <2>1, AdminMoves, DocumentTypes
<1>5. CASE t.invite \notin InviteIds
  <2>1. NoneStands
    BY <1>3, <1>5 DEF NoneStands, Standing
  <2> QED
    BY <1>4, <2>1, NoneStandsKeeps
<1>6. CASE t.invite \in InviteIds
  <2>1. \A i \in InviteIds : Standing(i) => invites[i].org # t.org \/ invites[i].email # t.email
    BY <1>1, <1>6, SignupAssumption DEF IssueOK
  <2>2. OneStanding'
    BY <1>2, <1>3, <2>1 DEF InviteInv, OneStanding, Standing
  <2>3. \A y \in Admins : IssueOK(y)'
    <3> SUFFICES ASSUME NEW y \in Admins, admin'[y].op = "issue", admin'[y].invite # None,
                        NEW i \in InviteIds, Standing(i)'
                 PROVE  invites'[i].org # admin'[y].org \/ invites'[i].email # admin'[y].email
      BY DEF IssueOK
    <3>1. y # x /\ admin'[y] = admin[y]
      BY <1>4
    <3>2. CASE i = t.invite
      BY <1>2, <1>3, <1>6, <3>1, <3>2, SignupAssumption DEF InviteInv, InvitersApart
    <3>3. CASE i # t.invite
      BY <1>3, <3>1, <3>3 DEF InviteInv, IssueOK, Standing
    <3> QED
      BY <3>2, <3>3
  <2>4. InvitersApart'
    BY <1>4 DEF InviteInv, InvitersApart
  <2> QED
    BY <2>2, <2>3, <2>4 DEF InviteInv
<1> QED
  BY <1>5, <1>6

\* All other steps.
LEMMA OthersInv ==
    ASSUME TypeOK, InviteInv, NoneStands,
           \/ UNCHANGED admin
           \/ \E x \in Admins, k \in Task : admin' = [admin EXCEPT ![x] = k] /\ k.invite = None
    PROVE  InviteInv'
<1>1. \A x \in Admins : admin'[x] = admin[x] \/ admin'[x].invite = None
  BY AdminMoves
<1> QED
  BY <1>1, NoneStandsKeeps

LEMMA InviteRenewInv ==
    ASSUME TypeOK, InviteInv, NEW x \in Admins, InviteRenew(x)
    PROVE  InviteInv'
<1>1. NoTask \in Task /\ NoTask.invite = None
  BY DocumentTypes DEF NoTask
<1>2. NoneStands
  BY DEF InviteRenew, TypeOK, Invite, NoneStands, Standing
<1> QED
  BY <1>1, <1>2, OthersInv DEF InviteRenew

LEMMA OrgTasksInv ==
    ASSUME TypeOK, InviteInv, NEW x \in Admins, OrgLoad(x) \/ OrgSave(x)
    PROVE  InviteInv'
<1>1. UNCHANGED invites
  BY DEF OrgLoad, OrgSave
<1>2. NoneStands
  BY <1>1 DEF NoneStands, Standing
<1>3. \E k \in Task : admin' = [admin EXCEPT ![x] = k] /\ k.invite = None
  <2>1. CASE OrgLoad(x)
    <3>1. PICK o \in OrgIds :
         \/ \E on \in BOOLEAN : admin' = [admin EXCEPT ![x] = [NoTask EXCEPT !.op = "hold", !.org = o, !.on = on]]
         \/ admin' = [admin EXCEPT ![x] = [NoTask EXCEPT !.op = "archive", !.org = o]]
         \/ admin' = [admin EXCEPT ![x] = [NoTask EXCEPT !.op = "unarchive", !.org = o]]
      BY <2>1 DEF OrgLoad
    <3>2. /\ \A on \in BOOLEAN : LET k == [NoTask EXCEPT !.op = "hold", !.org = o, !.on = on]
                                 IN  k \in Task /\ k.invite = None
          /\ LET k == [NoTask EXCEPT !.op = "archive", !.org = o] IN k \in Task /\ k.invite = None
          /\ LET k == [NoTask EXCEPT !.op = "unarchive", !.org = o] IN k \in Task /\ k.invite = None
      BY DEF NoTask, Task
    <3> QED
      BY <3>1, <3>2
  <2>2. CASE OrgSave(x)
    BY <2>2, DocumentTypes DEF OrgSave, NoTask
  <2> QED
    BY <2>1, <2>2
<1> QED
  BY <1>2, <1>3, OthersInv

LEMMA AcceptInv ==
    ASSUME TypeOK, InviteInv, NEW r \in Requests, Accept(r)
    PROVE  InviteInv'
<1>1. invites' = [i \in InviteIds |-> IF Stale(i) THEN [invites[i] EXCEPT !.status = "expired"] ELSE invites[i]]
      /\ UNCHANGED admin
  BY DEF Accept
<1>2. \A i \in InviteIds : invites'[i] = invites[i] \/ invites'[i].status = "expired"
  BY <1>1 DEF TypeOK, Invite
<1>3. NoneStands
  BY <1>2 DEF NoneStands, Standing
<1> QED
  BY <1>1, <1>3, OthersInv

LEMMA TimeInv ==
    ASSUME TypeOK, InviteInv, NEW i \in InviteIds, InviteDue(i) \/ InviteGone(i)
    PROVE  InviteInv'
<1>1. UNCHANGED admin
  BY DEF InviteDue, InviteGone
<1>2. NoneStands
  <2>1. CASE InviteDue(i)
    BY <2>1 DEF InviteDue, TypeOK, Invite, NoneStands, Standing
  <2>2. CASE InviteGone(i)
    BY <2>2 DEF InviteGone, TypeOK, NoneStands, Standing, NoInvite
  <2> QED
    BY <2>1, <2>2
<1> QED
  BY <1>1, <1>2, OthersInv

-----------------------------------------------------------------------------
(* The theorem on invitations *)

LEMMA InitInvite == Init => InviteInv
BY DEF Init, InviteInv, OneStanding, Standing, IssueOK, InvitersApart, NoInvite, NoTask

LEMMA NextInvite == InTurn /\ TypeOK /\ InviteInv /\ [Next]_vars => InviteInv'
<1> SUFFICES ASSUME InTurn, TypeOK, InviteInv, [Next]_vars PROVE InviteInv'
  OBVIOUS
<1>1. CASE UNCHANGED <<invites, admin>>
  BY <1>1, OthersInv DEF NoneStands, Standing
<1>2. ASSUME NEW r \in Requests, Registration(r) \/ Register(r) \/ NoSeat(r) \/ Die(r) \/ AcceptSave(r)
      PROVE  UNCHANGED <<invites, admin>>
  BY <1>2 DEF Registration, Register, Claim, CreateOrg, CreateUser, SetOwner, Release, NoSeat, Die, AcceptSave
<1>3. OrgCreate \/ UserCreate \/ UNCHANGED vars \/ (\E d \in Domains : ClaimExpires(d))
      => UNCHANGED <<invites, admin>>
  BY DEF OrgCreate, UserCreate, vars, ClaimExpires
<1>4. ASSUME NEW x \in Admins,
             OrgLoad(x) \/ OrgSave(x) \/ InviteStart(x) \/ InviteIssue(x) \/ InviteRenew(x)
      PROVE  InviteInv'
  BY <1>4, OrgTasksInv, InviteStartInv, InviteIssueInv, InviteRenewInv
<1> QED
  BY <1>1, <1>2, <1>3, <1>4, AcceptInv, TimeInv DEF Next

\* At most one standing invite is at most one that can be accepted.
LEMMA OneStandingSuffices == InviteInv => OneInvitation
<1> SUFFICES ASSUME InviteInv, NEW o \in OrgIds, NEW e \in Emails
             PROVE  Cardinality(Pending(o, e)) <= 1
  BY DEF OneInvitation
<1>1. \A i, j \in Pending(o, e) : i = j
  BY DEF InviteInv, OneStanding, Standing, Pending
<1>2. CASE Pending(o, e) = {}
  BY <1>2, FS_EmptySet
<1>3. CASE Pending(o, e) # {}
  <2>1. PICK i : Pending(o, e) = {i}
    BY <1>1, <1>3
  <2> QED
    BY <2>1, FS_Singleton
<1> QED
  BY <1>2, <1>3

\* An address has one invitation that it can accept: however invites fall due,
\* are renewed, expired by an acceptance or deleted between the checks and the
\* write of another (invites.service.ts, create and resend).
THEOREM InvitationsApart ==
    ASSUME InTurn
    PROVE  Spec => []OneInvitation
<1>1. TypeOK /\ InviteInv /\ [Next]_vars => InviteInv'
  BY NextInvite
<1> QED
  BY <1>1, InitInvite, TypeCorrect, OneStandingSuffices, PTL DEF Spec
=============================================================================
