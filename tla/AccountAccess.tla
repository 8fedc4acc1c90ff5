---------------------------- MODULE AccountAccess ----------------------------
(***************************************************************************)
(* How people get at their accounts: AuthController and AuthService        *)
(* (sign-up, login, logout, verification and reset of passwords),          *)
(* SessionsService, LegalService with the guard in front of every route,   *)
(* and the changes UsersService makes to an account meanwhile.             *)
(*                                                                         *)
(* A session lives in two places of Redis that no transaction joins: its   *)
(* record, which express-session reads when a request arrives and writes   *)
(* when the request ends (the middleware of main.ts touches every session, *)
(* so every request writes), and the set of its user's sessions, which     *)
(* SessionsService keeps to list and revoke them.                          *)
(*                                                                         *)
(* A session that nobody is signed in to is left out: no guard lets it     *)
(* pass.  Whether a caller knows a password is his free choice; accounts   *)
(* are known by their id, and one legal document stands for both.          *)
(***************************************************************************)
EXTENDS Naturals, FiniteSets, Sequences, SequencesExt

CONSTANTS
    Users,
    Admin,        \* the user whose role lets him publish and administer
    Sids,         \* session ids
    Tokens,       \* random tokens, mailed to verify or to reset
    Versions,     \* versions of the document, numbers
    Dates,        \* its dates of effect, numbers
    Requests,     \* requests in flight
    None

ASSUME AccessAssumption ==
    /\ Admin \in Users
    /\ None \notin Users \cup Sids \cup Tokens \cup Versions
    /\ Versions \subseteq Nat /\ Versions # {} /\ Dates \subseteq Nat

VARIABLES
    account,    \* the users collection
    issued,     \* tokens drawn so far
    expired,    \* tokens past their date
    store,      \* sess:*, the user each session is of
    sets,       \* user:sessions:*
    given,      \* session ids given out so far
    docs,       \* the versions published, in that order
    accepted,   \* versions accepted, by user, in that order
    req,        \* requests in flight
    spent,      \* history: tokens that have been used
    loose       \* history: sessions revoked while another request had them loaded,
                \* and those Redis failed to enlist

legal == <<docs, accepted>>
sessions == <<store, sets, given, loose>>
accounts == <<account, issued, expired, spent>>
vars == <<account, issued, expired, store, sets, given, docs, accepted, req, spent, loose>>

-----------------------------------------------------------------------------
(* Documents *)

Account == [exists: BOOLEAN, verified: BOOLEAN, hold: BOOLEAN, archived: BOOLEAN,
            verify: Tokens \cup {None}, reset: Tokens \cup {None}]

NoAccount == [exists |-> FALSE, verified |-> FALSE, hold |-> FALSE, archived |-> FALSE,
              verify |-> None, reset |-> None]

Doc == [version: Versions, at: Dates]

\* sid, user: req.sessionID and req.session.user;  doc: the version in hand;
\* ids: what SMEMBERS returned;  copy, field: a document loaded to be changed.
Request == [op: {None, "login", "register", "logout", "me", "revoke", "all", "publish", "boot",
                 "accept", "update", "verify", "reset", "forgot"},
            pc: {"idle", "guard", "status", "handler", "regenerate", "enlist", "remove", "multi",
                 "destroy", "create", "write", "save", "end"},
            sid: Sids \cup {None}, user: Users \cup {None}, target: Users \cup {None},
            token: Tokens \cup {None}, doc: Versions \cup {None}, ids: SUBSET Sids,
            copy: Account, field: {None, "verified", "hold", "archived"}]

Idle == [op |-> None, pc |-> "idle", sid |-> None, user |-> None, target |-> None,
         token |-> None, doc |-> None, ids |-> {}, copy |-> NoAccount, field |-> None]

TypeOK ==
    /\ account \in [Users -> Account]
    /\ issued \subseteq Tokens /\ expired \subseteq issued /\ spent \subseteq issued
    /\ store \in [Sids -> Users \cup {None}]
    /\ sets \in [Users -> SUBSET Sids]
    /\ given \subseteq Sids /\ loose \subseteq Sids
    /\ docs \in Seq(Doc)
    /\ accepted \in [Users -> Seq(Versions)]
    /\ req \in [Requests -> Request]

\* The first platform administrator comes with a seeding script.
Init ==
    /\ account = [[u \in Users |-> NoAccount] EXCEPT ![Admin].exists = TRUE, ![Admin].verified = TRUE]
    /\ issued = {} /\ expired = {} /\ spent = {}
    /\ store = [s \in Sids |-> None]
    /\ sets = [u \in Users |-> {}]
    /\ given = {} /\ loose = {}
    /\ docs = <<>>
    /\ accepted = [u \in Users |-> <<>>]
    /\ req = [p \in Requests |-> Idle]

Begin(p, r) == req[p] = Idle /\ req' = [req EXCEPT ![p] = r]
Goto(p, pc) == req' = [req EXCEPT ![p].pc = pc]
Finish(p) == req' = [req EXCEPT ![p] = Idle]

\* Nothing is left to do but to respond.
Respond(p) == req' = [req EXCEPT ![p] = [Idle EXCEPT !.pc = "end", !.sid = req[p].sid, !.user = req[p].user]]

Usable(u) == account[u].exists /\ ~account[u].archived /\ ~account[u].hold

-----------------------------------------------------------------------------
(* A request arrives and ends *)

\* Routes under /auth and /legal are open to those who have yet to accept.
Open == {"logout", "me", "publish", "accept"}

\* express-session loads the session the cookie names; SessionGuard wants a
\* user in it, RolesGuard the administrator for some routes.
Arrive(p) ==
    /\ \E s \in Sids, op \in {"logout", "me", "revoke", "all", "publish", "accept", "update"} :
         /\ store[s] # None
         /\ op \in {"publish", "update"} => store[s] = Admin
         /\ Begin(p, [Idle EXCEPT !.op = op, !.sid = s, !.user = store[s],
                        !.pc = CASE op \notin Open -> "guard" [] op = "me" -> "end" [] OTHER -> "handler"])
    /\ UNCHANGED <<accounts, sessions, legal>>

\* latestDoc sorts by the date of effect, past or future, then by creation.
InForce ==
    LET later(i, j) == docs[i].at > docs[j].at \/ (docs[i].at = docs[j].at /\ i >= j)
    IN docs[CHOOSE i \in DOMAIN docs : \A j \in DOMAIN docs : later(i, j)].version

\* acceptanceStatus keeps one version per document, the last the cursor
\* returns: by insertion or by version, as the index the query runs on has it.
Current(u) ==
    IF accepted[u] = <<>> THEN {None}
    ELSE {Last(accepted[u]), CHOOSE v \in Range(accepted[u]) : \A w \in Range(accepted[u]) : v >= w}

\* LegalGuard: the documents first; an error of that query counts as if there
\* were no document to accept,
GuardDocs(p) ==
    /\ req[p].pc = "guard"
    /\ \/ docs # <<>> /\ req' = [req EXCEPT ![p].pc = "status", ![p].doc = InForce]
       \/ Goto(p, "handler")
    /\ UNCHANGED <<accounts, sessions, legal>>

\* As if it were enough to have accepted some version.
GuardStatusAny(p) ==
    /\ req[p].pc = "status"
    /\ IF accepted[req[p].user] # <<>> THEN Goto(p, "handler") ELSE Respond(p)
    /\ UNCHANGED <<accounts, sessions, legal>>

\* then the user's acceptances.
GuardStatus(p) ==
    /\ req[p].pc = "status"
    /\ \E v \in Current(req[p].user) : IF v = req[p].doc THEN Goto(p, "handler") ELSE Respond(p)
    /\ UNCHANGED <<accounts, sessions, legal>>

\* The response ends and the session is saved as this request has it, whatever
\* has become of its record.
End(p) ==
    LET r == req[p] IN
    /\ r.pc = "end"
    /\ store' = IF r.sid = None THEN store ELSE [store EXCEPT ![r.sid] = r.user]
    /\ Finish(p)
    /\ UNCHANGED <<accounts, sets, given, loose, legal>>

-----------------------------------------------------------------------------
(* Signing in and out *)

Visit(p, r) == \E s \in {None} \cup {t \in Sids : store[t] # None} :
    Begin(p, [r EXCEPT !.sid = s, !.user = IF s = None THEN None ELSE store[s]])

\* AuthService.login has read the account and found the password right.
Login(p) ==
    /\ \E u \in Users :
         /\ Usable(u) /\ account[u].verified
         /\ Visit(p, [Idle EXCEPT !.op = "login", !.pc = "regenerate", !.target = u])
    /\ UNCHANGED <<accounts, sessions, legal>>

\* AuthService.register (see Signup): behind the invite gate the address counts
\* as verified, without it a token is mailed; either way it signs in.
Register(p) ==
    /\ \E u \in Users, t \in {None} \cup (Tokens \ issued) :
         /\ ~account[u].exists
         /\ account' = [account EXCEPT ![u] = [NoAccount EXCEPT !.exists = TRUE, !.verified = (t = None), !.verify = t]]
         /\ issued' = issued \cup ({t} \ {None})
         /\ Visit(p, [Idle EXCEPT !.op = "register", !.pc = "regenerate", !.target = u])
    /\ UNCHANGED <<expired, spent, sessions, legal>>

\* As if the session were kept, with its id, for the user who signs in.
RegenerateKeeps(p) ==
    LET r == req[p] IN
    /\ r.pc = "regenerate"
    /\ \E s \in IF r.sid = None THEN Sids \ given ELSE {r.sid} :
         /\ given' = given \cup {s}
         /\ req' = [req EXCEPT ![p].pc = "enlist", ![p].sid = s, ![p].user = r.target, ![p].target = None]
    /\ UNCHANGED <<accounts, store, sets, loose, legal>>

\* session.regenerate destroys the session of the cookie and draws a new id.
Regenerate(p) ==
    LET r == req[p] IN
    /\ r.pc = "regenerate"
    /\ \E s \in Sids \ given :
         /\ given' = given \cup {s}
         /\ store' = [t \in Sids |-> IF t = r.sid THEN None ELSE store[t]]
         /\ req' = [req EXCEPT ![p].pc = "enlist", ![p].sid = s, ![p].user = r.target, ![p].target = None]
    /\ UNCHANGED <<accounts, sets, loose, legal>>

\* registerSession, before the session itself is saved
Enlist(p) ==
    LET r == req[p] IN
    /\ r.pc = "enlist"
    /\ sets' = [sets EXCEPT ![r.user] = @ \cup {r.sid}]
    /\ Respond(p)
    /\ UNCHANGED <<accounts, store, given, loose, legal>>

\* registerSession fails when the user is in the session already: the response
\* is an error, at whose end the session is saved all the same.
EnlistFails(p) ==
    LET r == req[p] IN
    /\ r.pc = "enlist"
    /\ loose' = loose \cup {r.sid}
    /\ Respond(p)
    /\ UNCHANGED <<accounts, store, sets, given, legal>>

\* DEL and SREM of sessions in one MULTI
Drop(p, u, ids) ==
    /\ store' = [s \in Sids |-> IF s \in ids THEN None ELSE store[s]]
    /\ sets' = [sets EXCEPT ![u] = @ \ ids]
    /\ loose' = loose \cup {s \in ids : \E q \in Requests \ {p} : req[q].sid = s /\ req[q].user # None}

\* logout: session.destroy, then removeSession
Logout(p) ==
    LET r == req[p] IN
    /\ r.pc = "handler" /\ r.op = "logout"
    /\ store' = [store EXCEPT ![r.sid] = None]
    /\ req' = [req EXCEPT ![p].pc = "remove", ![p].user = None, ![p].target = r.user]
    /\ UNCHANGED <<accounts, sets, given, loose, legal>>

LogoutRemove(p) ==
    /\ req[p].pc = "remove"
    /\ Drop(p, req[p].target, {req[p].sid})
    /\ Finish(p)
    /\ UNCHANGED <<accounts, given, legal>>

\* revokeSession deletes the id it is given, whoever's it is.
Revoke(p) ==
    LET r == req[p] IN
    /\ r.pc = "handler" /\ r.op = "revoke"
    /\ \E s \in given : /\ Drop(p, r.user, {s})
                          /\ IF s = r.sid THEN Goto(p, "destroy") ELSE Respond(p)
    /\ UNCHANGED <<accounts, given, legal>>

\* revokeAll: SMEMBERS,
RevokeAll(p) ==
    LET r == req[p] IN
    /\ r.pc = "handler" /\ r.op = "all"
    /\ req' = [req EXCEPT ![p].pc = "multi", ![p].ids = sets[r.user]]
    /\ UNCHANGED <<accounts, sessions, legal>>

\* As if it deleted the set, not the members it has read.
RevokeAllMultiKey(p) ==
    LET r == req[p] IN
    /\ r.pc = "multi"
    /\ store' = [s \in Sids |-> IF s \in r.ids THEN None ELSE store[s]]
    /\ sets' = [sets EXCEPT ![r.user] = {}]
    /\ loose' = loose \cup {s \in sets[r.user] : \E q \in Requests \ {p} : req[q].sid = s /\ req[q].user # None}
    /\ Goto(p, "destroy")
    /\ UNCHANGED <<accounts, given, legal>>

\* then one MULTI over what it returned.
RevokeAllMulti(p) ==
    /\ req[p].pc = "multi"
    /\ Drop(p, req[p].user, req[p].ids)
    /\ Goto(p, "destroy")
    /\ UNCHANGED <<accounts, given, legal>>

\* The MULTI of logout, of revoke or of revokeAll fails: after a logout no
\* session is left to be saved.
MultiFails(p) ==
    LET r == req[p] IN
    /\ r.pc \in {"remove", "multi"} \/ (r.pc = "handler" /\ r.op = "revoke")
    /\ IF r.pc = "remove" THEN Finish(p) ELSE Respond(p)
    /\ UNCHANGED <<accounts, sessions, legal>>

\* The session of the request itself: gone, and not saved at the end.
Destroy(p) ==
    /\ req[p].pc = "destroy"
    /\ store' = [store EXCEPT ![req[p].sid] = None]
    /\ Finish(p)
    /\ UNCHANGED <<accounts, sets, given, loose, legal>>

\* The record has a time to live, the set has none.
SessionExpires(s) ==
    /\ store[s] # None
    /\ store' = [store EXCEPT ![s] = None]
    /\ UNCHANGED <<accounts, sets, given, loose, legal, req>>

-----------------------------------------------------------------------------
(* Tokens *)

\* forgotPassword looks the account up and then stores a new token.
Forgot(p) ==
    /\ \E u \in Users, t \in Tokens \ issued :
         /\ Usable(u)
         /\ Begin(p, [Idle EXCEPT !.op = "forgot", !.pc = "write", !.target = u, !.token = t])
         /\ issued' = issued \cup {t}
    /\ UNCHANGED <<account, expired, spent, sessions, legal>>

ForgotWrite(p) ==
    /\ req[p].pc = "write" /\ req[p].op = "forgot"
    /\ account' = [account EXCEPT ![req[p].target].reset = req[p].token]
    /\ Finish(p)
    /\ UNCHANGED <<issued, expired, spent, sessions, legal>>

\* The filter of findByResetToken and findByVerificationToken
Valid(u, t) == Usable(u) /\ t \in issued \ expired

\* resetPassword finds the token's account and hashes the new password,
Reset(p) ==
    /\ \E u \in Users, t \in Tokens :
         /\ Valid(u, t) /\ account[u].reset = t
         /\ Begin(p, [Idle EXCEPT !.op = "reset", !.pc = "write", !.target = u, !.token = t])
    /\ UNCHANGED <<accounts, sessions, legal>>

\* then sets it by the user's id, whatever token is there by now.
ResetWrite(p) ==
    LET r == req[p] IN
    /\ r.pc = "write" /\ r.op = "reset"
    /\ account' = [account EXCEPT ![r.target].reset = None]
    /\ spent' = spent \cup {r.token}
    /\ Finish(p)
    /\ UNCHANGED <<issued, expired, sessions, legal>>

\* verifyEmail, in the same two steps
Verify(p) ==
    /\ \E u \in Users, t \in Tokens :
         /\ Valid(u, t) /\ account[u].verify = t
         /\ Begin(p, [Idle EXCEPT !.op = "verify", !.pc = "write", !.target = u, !.token = t])
    /\ UNCHANGED <<accounts, sessions, legal>>

VerifyWrite(p) ==
    LET r == req[p] IN
    /\ r.pc = "write" /\ r.op = "verify"
    /\ account' = [account EXCEPT ![r.target].verify = None, ![r.target].verified = TRUE]
    /\ spent' = spent \cup {r.token}
    /\ Finish(p)
    /\ UNCHANGED <<issued, expired, sessions, legal>>

TokenExpires(t) ==
    /\ t \in issued \ expired
    /\ expired' = expired \cup {t}
    /\ UNCHANGED <<account, issued, spent, sessions, legal, req>>

\* update, archiveUser and unarchiveUser load the document, check it, change it,
UserLoad(p) ==
    /\ req[p].pc = "handler" /\ req[p].op = "update"
    /\ \E u \in Users, f \in {"verified", "hold", "archived"} :
         LET a == account[u] IN
         /\ a.exists
         /\ IF f = "archived" THEN ~a.hold ELSE ~a.archived
         /\ req' = [req EXCEPT ![p].pc = "save", ![p].target = u, ![p].field = f, ![p].copy = [a EXCEPT ![f] = ~@]]
    /\ UNCHANGED <<accounts, sessions, legal>>

\* As if the whole document were written back.
UserSaveWhole(p) ==
    /\ req[p].pc = "save"
    /\ account' = [account EXCEPT ![req[p].target] = req[p].copy]
    /\ Respond(p)
    /\ UNCHANGED <<issued, expired, spent, sessions, legal>>

\* and save the paths that have been modified.
UserSave(p) ==
    LET r == req[p] IN
    /\ r.pc = "save"
    /\ account' = [account EXCEPT ![r.target][r.field] = r.copy[r.field]]
    /\ Respond(p)
    /\ UNCHANGED <<issued, expired, spent, sessions, legal>>

-----------------------------------------------------------------------------
(* Legal documents *)

Published == {docs[i].version : i \in DOMAIN docs}

\* ensureDefaultDocs runs as an instance starts, before it serves requests.
Boot(p) ==
    /\ Begin(p, [Idle EXCEPT !.op = "boot", !.pc = "handler"])
    /\ UNCHANGED <<accounts, sessions, legal>>

DefaultVersion == CHOOSE v \in Versions : \A w \in Versions : v <= w

\* createDoc and ensureDefaultDocs look for the version,
PublishFind(p) ==
    LET r == req[p] IN
    /\ r.pc = "handler" /\ r.op \in {"publish", "boot"}
    /\ \E v \in IF r.op = "boot" THEN {DefaultVersion} ELSE Versions :
         IF v \in Published THEN Respond(p)
         ELSE req' = [req EXCEPT ![p].pc = "create", ![p].doc = v]
    /\ UNCHANGED <<accounts, sessions, legal>>

\* then create it, unless the unique index refuses.
PublishCreate(p) ==
    LET r == req[p] IN
    /\ r.pc = "create" /\ r.op \in {"publish", "boot"}
    /\ IF r.doc \in Published THEN UNCHANGED docs
       ELSE \E d \in Dates : docs' = Append(docs, [version |-> r.doc, at |-> d])
    /\ Respond(p)
    /\ UNCHANGED <<accounts, sessions, accepted>>

\* accept: the version named, or the one in force
AcceptFind(p) ==
    LET r == req[p] IN
    /\ r.pc = "handler" /\ r.op = "accept"
    /\ \E v \in Published :
         IF v \in Range(accepted[r.user]) THEN Respond(p)
         ELSE req' = [req EXCEPT ![p].pc = "create", ![p].doc = v]
    /\ UNCHANGED <<accounts, sessions, legal>>

AcceptCreate(p) ==
    LET r == req[p] IN
    /\ r.pc = "create" /\ r.op = "accept"
    /\ accepted' = IF r.doc \in Range(accepted[r.user]) THEN accepted
                   ELSE [accepted EXCEPT ![r.user] = Append(@, r.doc)]
    /\ Respond(p)
    /\ UNCHANGED <<accounts, sessions, docs>>

-----------------------------------------------------------------------------

Session(p) == Regenerate(p) \/ Enlist(p) \/ EnlistFails(p) \/ Logout(p) \/ LogoutRemove(p)
                \/ Revoke(p) \/ RevokeAll(p) \/ RevokeAllMulti(p) \/ MultiFails(p) \/ Destroy(p)

Next ==
    \/ \E p \in Requests :
         \/ Arrive(p) \/ GuardDocs(p) \/ GuardStatus(p) \/ End(p)
         \/ Login(p) \/ Register(p) \/ Session(p)
         \/ Forgot(p) \/ ForgotWrite(p) \/ Reset(p) \/ ResetWrite(p) \/ Verify(p) \/ VerifyWrite(p)
         \/ UserLoad(p) \/ UserSave(p)
         \/ Boot(p) \/ PublishFind(p) \/ PublishCreate(p) \/ AcceptFind(p) \/ AcceptCreate(p)
    \/ \E s \in Sids : SessionExpires(s)
    \/ \E t \in Tokens : TokenExpires(t)

Spec == Init /\ [][Next]_vars

-----------------------------------------------------------------------------
(* Properties *)

\* A session in the list of a user is that user's: whoever signs in on top of
\* another's session, and however requests overlap, nobody's devices show up
\* among somebody else's.
SessionsOwned ==
    \A u \in Users : \A s \in sets[u] : store[s] \in {u, None}

\* "Log out everywhere" can reach every live session, for it is in its user's
\* list, but for two kinds: those revoked while a request had them loaded, which
\* that request saved again, and those whose registration Redis failed.
SessionsRevocable ==
    \A s \in Sids \ loose : store[s] # None => s \in sets[store[s]]

\* A token that has reset a password or verified an address is never in an
\* account again, whatever else is writing to it.
SpentTokensStayDead ==
    \A t \in spent, u \in Users : t \notin {account[u].reset, account[u].verify}

\* Who is let past the guard on a document it could read has accepted the version
\* it found in force, whatever is published or accepted between its two queries;
\* when the query for the document fails the guard lets everyone past.
AcceptedBeforeUse ==
    \A p \in Requests :
      LET r == req[p] IN
      r.pc = "handler" /\ r.op \in {"revoke", "all", "update"} /\ r.doc # None
        => r.doc \in Range(accepted[r.user])
=============================================================================
