------------------------------- MODULE Signup -------------------------------
(***************************************************************************)
(* How accounts and organizations come to be: AuthService.register with    *)
(* the domain claims of WaitlistService, the operations on organizations,  *)
(* UsersService.create and InvitesService.                                 *)
(*                                                                         *)
(* register is a chain of writes without a transaction around it: a claim  *)
(* in Redis, the organization, the account with its seat (a transaction of *)
(* UserSeats, one step here), the owner.  It runs concurrently with itself, *)
(* with the administration of organizations and with invitations.          *)
(*                                                                         *)
(* An account is known by its e-mail address, which the collection keeps   *)
(* unique.  That a caller passes the invite gate, has a strong password or *)
(* a person fit to be invited is a free choice; names of organizations are *)
(* taken to differ.                                                        *)
(***************************************************************************)
EXTENDS Naturals, FiniteSets

CONSTANTS
    Emails,
    Domains,
    DomainOf,       \* normalizeDomainFromEmail, by address
    OrgIds,
    InviteIds,
    Requests,       \* registrations and acceptances in flight
    Admins,         \* operations on organizations and invites in flight
    None,
    Liberties       \* "die", "noseat", "stale": what the code leaves to luck

ASSUME SignupAssumption ==
    /\ DomainOf \in [Emails -> Domains]
    /\ None \notin Emails \cup Domains \cup OrgIds \cup InviteIds

VARIABLES
    orgs,      \* the organizations
    users,     \* the accounts, by address
    claims,    \* waitlist:domain:claim:* in Redis
    invites,   \* the invites
    req,       \* registrations and acceptances in flight
    admin      \* administration in flight

vars == <<orgs, users, claims, invites, req, admin>>

-----------------------------------------------------------------------------
(* Documents *)

Org == [status: {"none", "live", "archived"}, domain: Domains \cup {None},
        owner: Emails \cup {None}, hold: BOOLEAN]

NoOrg == [status |-> "none", domain |-> None, owner |-> None, hold |-> FALSE]

User == [org: OrgIds \cup {None}, owns: BOOLEAN]

NoUser == [org |-> None, owns |-> FALSE]

\* due: tokenExpires has passed.
Invite == [status: {"none", "pending", "expired"}, org: OrgIds \cup {None},
           email: Emails \cup {None}, due: BOOLEAN]

NoInvite == [status |-> "none", org |-> None, email |-> None, due |-> FALSE]

Idle == [pc |-> "idle", email |-> None, org |-> None, mine |-> FALSE]

Request == [pc: {"idle", "claim", "org", "user", "owner", "release", "save"},
            email: Emails \cup {None}, org: OrgIds \cup {None},
            mine: BOOLEAN]                       \* createdOrgId is set

NoTask == [op |-> None, org |-> None, invite |-> None, email |-> None, on |-> FALSE]

Task == [op: {None, "hold", "archive", "unarchive", "renew", "issue"}, org: OrgIds \cup {None},
         invite: InviteIds \cup {None}, email: Emails \cup {None}, on: BOOLEAN]

TypeOK ==
    /\ orgs \in [OrgIds -> Org]
    /\ users \in [Emails -> User]
    /\ claims \subseteq Domains
    /\ invites \in [InviteIds -> Invite]
    /\ req \in [Requests -> Request]
    /\ admin \in [Admins -> Task]

Init ==
    /\ orgs = [o \in OrgIds |-> NoOrg]
    /\ users = [e \in Emails |-> NoUser]
    /\ claims = {}
    /\ invites = [i \in InviteIds |-> NoInvite]
    /\ req = [r \in Requests |-> Idle]
    /\ admin = [x \in Admins |-> NoTask]

Registered(e) == users[e] # NoUser

\* ensureOrgActive, of seats and of invites
Active(o) == orgs[o].status = "live" /\ ~orgs[o].hold

\* findByDomain sees live organizations, the unique index archived ones too.
LiveOrgOf(d) == {o \in OrgIds : orgs[o].status = "live" /\ orgs[o].domain = d}

Taken(d) == \E o \in OrgIds : orgs[o].domain = d

Goto(r, pc) == req' = [req EXCEPT ![r].pc = pc]
Finish(r) == req' = [req EXCEPT ![r] = Idle]

-----------------------------------------------------------------------------
(* register *)

Register(r) ==
    /\ req[r] = Idle
    /\ \E e \in Emails, o \in {None} \cup {p \in OrgIds : orgs[p].status # "none"} :
         /\ LiveOrgOf(DomainOf[e]) = {}
         /\ req' = [req EXCEPT ![r] = [Idle EXCEPT !.pc = "claim", !.email = e, !.org = o]]
    /\ UNCHANGED <<orgs, users, claims, invites, admin>>

\* acquireDomainClaim: SET NX with a time to live
Claim(r) ==
    LET d == DomainOf[req[r].email] IN
    /\ req[r].pc = "claim"
    /\ IF d \in claims THEN Finish(r) /\ UNCHANGED claims
       ELSE /\ claims' = claims \cup {d}
            /\ Goto(r, IF req[r].org = None THEN "org" ELSE "user")
    /\ UNCHANGED <<orgs, users, invites, admin>>

\* Looks up the domain itself and joins what it finds.
FindOrCreateOrg(r) ==
    LET d == DomainOf[req[r].email] IN
    /\ req[r].pc = "org"
    /\ \E o \in OrgIds :
         /\ IF Taken(d) THEN orgs[o].domain = d /\ UNCHANGED orgs
            ELSE orgs[o] = NoOrg /\ orgs' = [orgs EXCEPT ![o] = [NoOrg EXCEPT !.status = "live", !.domain = d]]
         /\ req' = [req EXCEPT ![r].pc = "user", ![r].org = o, ![r].mine = TRUE]
    /\ UNCHANGED <<users, claims, invites, admin>>

\* orgs.create; the seats it adds are refused if the organization has been
\* archived or put on hold meanwhile, as are those of the next step.
CreateOrg(r) ==
    LET d == DomainOf[req[r].email] IN
    /\ req[r].pc = "org"
    /\ IF Taken(d) THEN Goto(r, "release") /\ UNCHANGED orgs
       ELSE \E o \in OrgIds :
              /\ orgs[o] = NoOrg
              /\ orgs' = [orgs EXCEPT ![o] = [NoOrg EXCEPT !.status = "live", !.domain = d]]
              /\ req' = [req EXCEPT ![r].pc = "user", ![r].org = o, ![r].mine = TRUE]
    /\ UNCHANGED <<users, claims, invites, admin>>

\* UsersService.create: the account and its seat, or neither.
CanCreate(e, o) == ~Registered(e) /\ Active(o)

\* Goes on to the owner though the account was refused.
CreateUserAnyhow(r) ==
    LET e == req[r].email IN
    /\ req[r].pc = "user"
    /\ users' = IF CanCreate(e, req[r].org) THEN [users EXCEPT ![e] = [org |-> req[r].org, owns |-> req[r].mine]] ELSE users
    /\ Goto(r, IF req[r].mine THEN "owner" ELSE "release")
    /\ UNCHANGED <<orgs, claims, invites, admin>>

CreateUser(r) ==
    LET e == req[r].email
        o == req[r].org
    IN
    /\ req[r].pc = "user"
    /\ IF CanCreate(e, o)
       THEN /\ users' = [users EXCEPT ![e] = [org |-> o, owns |-> req[r].mine]]
            /\ Goto(r, IF req[r].mine THEN "owner" ELSE "release")
       ELSE Goto(r, "release") /\ UNCHANGED users
    /\ UNCHANGED <<orgs, claims, invites, admin>>

\* No vacant seat: the transaction is rolled back.
NoSeat(r) ==
    /\ "noseat" \in Liberties
    /\ req[r].pc = "user"
    /\ Goto(r, "release")
    /\ UNCHANGED <<orgs, users, claims, invites, admin>>

\* setOwner, then markActivated (see Waitlist)
SetOwner(r) ==
    LET o == req[r].org IN
    /\ req[r].pc = "owner"
    /\ orgs' = IF orgs[o].hold THEN orgs ELSE [orgs EXCEPT ![o].owner = req[r].email]
    /\ Goto(r, "release")
    /\ UNCHANGED <<users, claims, invites, admin>>

\* The finally block: the claim goes, whoever's it is by now.
Release(r) ==
    /\ req[r].pc = "release"
    /\ claims' = claims \ {DomainOf[req[r].email]}
    /\ Finish(r)
    /\ UNCHANGED <<orgs, users, invites, admin>>

ClaimExpires(d) ==
    /\ d \in claims
    /\ claims' = claims \ {d}
    /\ UNCHANGED <<orgs, users, invites, req, admin>>

Die(r) ==
    /\ "die" \in Liberties
    /\ req[r] # Idle
    /\ Finish(r)
    /\ UNCHANGED <<orgs, users, claims, invites, admin>>

-----------------------------------------------------------------------------
(* Invitations.  Nothing but TTL removes an invite; the mail carries the   *)
(* token that the invite's hash is of.                                     *)

Stale(i) == invites[i].status = "pending" /\ invites[i].due

\* expireStale
Expired(o) == [i \in InviteIds |-> IF invites[i].org = o /\ Stale(i)
                                   THEN [invites[i] EXCEPT !.status = "expired"] ELSE invites[i]]

Pending(o, e) == {i \in InviteIds : invites[i].org = o /\ invites[i].email = e
                                      /\ invites[i].status = "pending" /\ ~invites[i].due}

CanInvite(o, e) == ~Registered(e) /\ Pending(o, e) = {}

\* create and resend: expireStale, then the checks; the write comes later.
InviteStart(x) ==
    /\ admin[x] = NoTask
    /\ \E o \in OrgIds :
         /\ Active(o)
         /\ "stale" \in Liberties \/ \A y \in Admins : admin[y].invite = None \/ admin[y].org # o
         /\ invites' = Expired(o)
         /\ \E i \in InviteIds, e \in Emails :
              \/ /\ invites[i] = NoInvite /\ CanInvite(o, e)
                 /\ admin' = [admin EXCEPT ![x] = [NoTask EXCEPT !.op = "issue", !.org = o, !.invite = i, !.email = e]]
              \/ /\ invites[i].org = o /\ invites[i].email = e
                 /\ admin' = [admin EXCEPT ![x] = [NoTask EXCEPT !.op = "renew", !.org = o, !.invite = i, !.email = e]]
    /\ UNCHANGED <<orgs, users, claims, req>>

InviteIssue(x) ==
    LET t == admin[x] IN
    /\ t.op = "issue" /\ invites[t.invite] = NoInvite
    /\ invites' = [invites EXCEPT ![t.invite] =
                      [status |-> "pending", org |-> t.org, email |-> t.email, due |-> FALSE]]
    /\ admin' = [admin EXCEPT ![x] = NoTask]
    /\ UNCHANGED <<orgs, users, claims, req>>

\* As pending as a new one.
InviteReissue(x) ==
    LET t == admin[x] IN
    /\ t.op = "renew"
    /\ invites' = IF invites[t.invite] = NoInvite THEN invites
                  ELSE [invites EXCEPT ![t.invite].due = FALSE, ![t.invite].status = "pending"]
    /\ admin' = [admin EXCEPT ![x] = NoTask]
    /\ UNCHANGED <<orgs, users, claims, req>>

\* resend saves a new hash and a new date; an expired invite stays expired.
InviteRenew(x) ==
    LET t == admin[x] IN
    /\ t.op = "renew"
    /\ invites' = IF invites[t.invite] = NoInvite THEN invites
                  ELSE [invites EXCEPT ![t.invite].due = FALSE]
    /\ admin' = [admin EXCEPT ![x] = NoTask]
    /\ UNCHANGED <<orgs, users, claims, req>>

\* accept: every stale invite of every organization expires, then the token's
\* own is looked up.  Its checks are repeated in the transaction, which goes on
\* to insert the account.
Accept(r) ==
    LET swept == [i \in InviteIds |-> IF Stale(i) THEN [invites[i] EXCEPT !.status = "expired"] ELSE invites[i]] IN
    /\ req[r] = Idle
    /\ invites' = swept
    /\ \E i \in InviteIds :
         /\ invites[i] # NoInvite
         /\ req' = [req EXCEPT ![r] =
                IF swept[i].status = "pending" /\ CanCreate(swept[i].email, swept[i].org)
                THEN [Idle EXCEPT !.pc = "save", !.email = swept[i].email] ELSE Idle]
    /\ UNCHANGED <<orgs, users, claims, admin>>

\* inviteTx.save with tokenHash null: the schema requires a tokenHash, so the
\* document does not validate and the transaction is rolled back.
AcceptSave(r) ==
    /\ req[r].pc = "save"
    /\ Finish(r)
    /\ UNCHANGED <<orgs, users, claims, invites, admin>>

-----------------------------------------------------------------------------
(* Administration *)

\* POST /organizations, with or without a domain; POST /users
OrgCreate ==
    /\ \E o \in OrgIds, d \in Domains \cup {None} :
         /\ orgs[o] = NoOrg
         /\ d = None \/ ~Taken(d)
         /\ orgs' = [orgs EXCEPT ![o] = [NoOrg EXCEPT !.status = "live", !.domain = d]]
    /\ UNCHANGED <<users, claims, invites, req, admin>>

UserCreate ==
    /\ \E e \in Emails, o \in OrgIds :
         /\ CanCreate(e, o)
         /\ users' = [users EXCEPT ![e] = [org |-> o, owns |-> FALSE]]
    /\ UNCHANGED <<orgs, claims, invites, req, admin>>

\* setLegalHold, archive and unarchive load the organization, check it, and
\* save the one field they change.
OrgLoad(x) ==
    /\ admin[x] = NoTask
    /\ \E o \in OrgIds :
         /\ orgs[o].status # "none"
         /\ \/ \E on \in BOOLEAN : /\ on # orgs[o].hold
                                   /\ admin' = [admin EXCEPT ![x] = [NoTask EXCEPT !.op = "hold", !.org = o, !.on = on]]
            \/ /\ orgs[o].status = "live" /\ ~orgs[o].hold
               /\ admin' = [admin EXCEPT ![x] = [NoTask EXCEPT !.op = "archive", !.org = o]]
            \/ /\ orgs[o].status = "archived"
               /\ admin' = [admin EXCEPT ![x] = [NoTask EXCEPT !.op = "unarchive", !.org = o]]
    /\ UNCHANGED <<orgs, users, claims, invites, req>>

OrgSave(x) ==
    LET t == admin[x] IN
    /\ \/ t.op = "hold"      /\ orgs' = [orgs EXCEPT ![t.org].hold = t.on]
       \/ t.op = "archive"   /\ orgs' = [orgs EXCEPT ![t.org].status = "archived"]
       \/ t.op = "unarchive" /\ orgs' = [orgs EXCEPT ![t.org].status = "live"]
    /\ admin' = [admin EXCEPT ![x] = NoTask]
    /\ UNCHANGED <<users, claims, invites, req>>

-----------------------------------------------------------------------------
(* Time *)

InviteDue(i) ==
    /\ invites[i] # NoInvite /\ ~invites[i].due
    /\ invites' = [invites EXCEPT ![i].due = TRUE]
    /\ UNCHANGED <<orgs, users, claims, req, admin>>

\* The TTL index deletes what is past tokenExpires, sooner or later.
InviteGone(i) ==
    /\ invites[i].due
    /\ invites' = [invites EXCEPT ![i] = NoInvite]
    /\ UNCHANGED <<orgs, users, claims, req, admin>>

Registration(r) ==
    Claim(r) \/ CreateOrg(r) \/ CreateUser(r) \/ SetOwner(r) \/ Release(r)

Next ==
    \/ \E r \in Requests : \/ Register(r) \/ Registration(r) \/ NoSeat(r) \/ Die(r)
                           \/ Accept(r) \/ AcceptSave(r)
    \/ \E x \in Admins : OrgLoad(x) \/ OrgSave(x) \/ InviteStart(x) \/ InviteIssue(x) \/ InviteRenew(x)
    \/ OrgCreate \/ UserCreate
    \/ \E d \in Domains : ClaimExpires(d)
    \/ \E i \in InviteIds : InviteDue(i) \/ InviteGone(i)

Spec == Init /\ [][Next]_vars

-----------------------------------------------------------------------------
(* Properties *)

\* The owner of an organization has an account of it, and came in by founding
\* it: no crash, lost claim or refused seat gives an organization to a stranger.
OwnerBelongs ==
    \A o \in OrgIds : LET e == orgs[o].owner IN
      e # None => users[e] = [org |-> o, owns |-> TRUE]

\* Registrations of one domain that overlap, outlive their claim or delete
\* another's never make two founders of one organization.
OneFounder ==
    \A e, f \in Emails : users[e].owns /\ users[f].owns /\ e # f => users[e].org # users[f].org

\* An address has one invitation to an organization that it can accept.
OneInvitation ==
    \A o \in OrgIds, e \in Emails : Cardinality(Pending(o, e)) <= 1
=============================================================================
