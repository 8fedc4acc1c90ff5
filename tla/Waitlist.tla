------------------------------ MODULE Waitlist ------------------------------
(***************************************************************************)
(* The waiting list: WaitlistService with its scheduler and mail worker,   *)
(* and the e-mail verification of ContactInquiriesService, which a         *)
(* submission to the waiting list trusts.                                  *)
(*                                                                         *)
(* An address is verified over two channels, e-mail and phone.  The entry  *)
(* (MongoDB) holds statuses and totals, Redis the current codes and the    *)
(* tries at each.  A request is a chain of awaits over both stores; the    *)
(* scheduler of every server invites verified entries meanwhile.           *)
(*                                                                         *)
(* A code is represented by the address or phone it is sent to; whether a  *)
(* guess matches it is a free choice.  Codes and blocks run out in actions *)
(* of their own.  What only refuses or delays (rate limiters, cooldown of  *)
(* a resend, delayHours, the invite window), the display statistics and    *)
(* the fields nobody reads (verifyCode, verifyAttempts) are left out.      *)
(***************************************************************************)
EXTENDS Naturals, Sequences, FiniteSets, SequencesExt

CONSTANTS
    Addresses, Phones, None,
    Requests,            \* HTTP requests in flight at a time
    Servers,             \* processes that run the scheduler
    Modes,               \* "bcc", "token": invite.sendMode
    MaxAttempts,         \* verification.maxAttempts
    MaxTotalAttempts,    \* verification.maxTotalAttempts
    MaxTotalResends,     \* verification.maxTotalResends
    BatchLimit,          \* invite.batchLimit
    Liberties            \* "overlap", "die": what the code leaves to luck

ASSUME WaitlistAssumption ==
    /\ Modes \subseteq {"bcc", "token"}
    /\ {MaxAttempts, MaxTotalAttempts, MaxTotalResends, BatchLimit} \subseteq Nat \ {0}
    /\ None \notin Addresses \cup Phones \cup {"email", "phone"}

VARIABLES
    mode,      \* invite.sendMode of the deployment
    entry,     \* the waitlist collection
    code,      \* waitlist:verify:* in Redis, by address and channel
    contact,   \* addresses with contact:verify:status "verified" in Redis
    line,      \* addresses by createdAt
    users,     \* addresses with an account
    mailed,    \* addresses whose invite mail has been queued
    req,       \* requests in flight
    batch      \* invitations in flight, by server

vars == <<mode, entry, code, contact, line, users, mailed, req, batch>>

-----------------------------------------------------------------------------
(* Documents and keys *)

Channels == {"email", "phone"}

Channel == [status:  {"unverified", "verified", "blocked"},
            barred:  BOOLEAN,                 \* verifyBlockedUntil is to come
            expires: BOOLEAN,                 \* verifyExpiresAt is set
            total:   0 .. MaxTotalAttempts + Cardinality(Requests),  \* verifyAttemptTotal
            resends: 0 .. MaxTotalResends + Cardinality(Requests)]   \* verifyResends

Entry == [status: {"none", "pending-cohort", "invited", "activated"},
          phone:  Phones \cup {None},
          ch:     [Channels -> Channel]]

FreshChannel == [status |-> "unverified", barred |-> FALSE, expires |-> FALSE,
                 total |-> 0, resends |-> 0]

NoEntry == [status |-> "none", phone |-> None,
            ch |-> [c \in Channels |-> FreshChannel]]

\* A code, by the address or phone it is for, and the tries at it (one more
\* than allowed stands for any more).
NoCode == [sent |-> None, tries |-> 0]

CodeSlot == [sent: Addresses \cup Phones \cup {None}, tries: 0 .. MaxAttempts + 1]

Target(e, a, c) == IF c = "email" THEN a ELSE e.phone

Smaller(m, n) == IF m < n THEN m ELSE n

Exists(a) == entry[a].status # "none"

\* Channels as a request goes through them.
InOrder(cs) == (IF "email" \in cs THEN <<"email">> ELSE << >>) \o (IF "phone" \in cs THEN <<"phone">> ELSE << >>)

FullyVerified(e) == \A c \in Channels : e.ch[c].status = "verified"

Idle == [pc |-> "idle", op |-> None, a |-> None, c |-> None, phone |-> None,
         doc |-> NoEntry, todo |-> << >>, code |-> None]

Request == [pc:    {"idle", "lift", "bar", "proof", "clear", "save", "set", "reset",
                    "fetch", "bump", "over", "wrong", "forget", "confirm", "renew", "reload"},
            op:    {None, "start", "verify", "resend"},
            a:     Addresses \cup {None},
            c:     Channels \cup {None},       \* the channel of a verify or resend
            phone: Phones \cup {None},         \* dto.phone
            doc:   Entry,                      \* the entry as it was loaded
            todo:  Seq(Channels),              \* channels still to unblock or to send codes for
            code:  Addresses \cup Phones \cup {None}]

NoBatch == [pc |-> "idle", todo |-> << >>, only |-> FALSE]

Batch == [pc: {"idle", "send", "save"}, todo: Seq(Addresses), only: BOOLEAN]

TypeOK ==
    /\ mode \in Modes
    /\ entry \in [Addresses -> Entry]
    /\ code \in [Addresses -> [Channels -> CodeSlot]]
    /\ contact \subseteq Addresses
    /\ line \in Seq(Addresses)
    /\ users \subseteq Addresses
    /\ mailed \subseteq Addresses
    /\ req \in [Requests -> Request]
    /\ batch \in [Servers -> Batch]

Init ==
    /\ mode \in Modes
    /\ entry = [a \in Addresses |-> NoEntry]
    /\ code = [a \in Addresses |-> [c \in Channels |-> NoCode]]
    /\ contact = {}
    /\ line = << >>
    /\ users = {}
    /\ mailed = {}
    /\ req = [r \in Requests |-> Idle]
    /\ batch = [s \in Servers |-> NoBatch]

-----------------------------------------------------------------------------
(* What every request does first: load the entry, lift blocks that have    *)
(* ended, and block again whoever has used up a total.                     *)

Finish(r) == req' = [req EXCEPT ![r] = Idle]

Goto(r, pc) == req' = [req EXCEPT ![r].pc = pc]

Keep == UNCHANGED <<mode, contact, users, mailed, batch>>

UsedUp(doc, c) == doc.ch[c].total >= MaxTotalAttempts \/ doc.ch[c].resends >= MaxTotalResends

\* assertTotalLimits: the channel it blocks, or None.
Excess(doc) == IF UsedUp(doc, "email") THEN "email" ELSE IF UsedUp(doc, "phone") THEN "phone" ELSE None

\* Variant: the totals are not looked at.
AdmittedUnchecked(q) ==
    IF q.op = "start" THEN [q EXCEPT !.pc = "proof"]
    ELSE IF q.doc.ch[q.c].status = "verified" THEN Idle
    ELSE [q EXCEPT !.pc = IF q.op = "verify" THEN "fetch" ELSE "renew"]

\* A request that has passed ensureNotBlocked: what it does next.
Admitted(q) ==
    LET excess == Excess(q.doc) IN
    IF excess # None THEN [q EXCEPT !.pc = "bar", !.c = excess, !.doc = NoEntry]
    ELSE IF q.op = "start" THEN [q EXCEPT !.pc = "proof"]
    ELSE IF q.doc.ch[q.c].status = "verified" THEN Idle
    ELSE [q EXCEPT !.pc = IF q.op = "verify" THEN "fetch" ELSE "renew"]

\* A request, from its arrival to the entry it has loaded.
Loaded(q) ==
    LET doc == entry[q.a]
        asked == IF q.op = "start" THEN Channels ELSE {q.c}
        blocked == InOrder({c \in asked : doc.ch[c].status = "blocked"})
        loaded == [q EXCEPT !.pc = "lift", !.doc = doc, !.todo = blocked]
    IN  IF doc.status = "none" THEN IF q.op = "start" THEN [q EXCEPT !.pc = "proof"] ELSE Idle
        ELSE IF blocked = << >> THEN Admitted(loaded) ELSE loaded

Asking(a, op, c, p) == [Idle EXCEPT !.op = op, !.a = a, !.c = c, !.phone = p]

Begin(r) ==
    /\ req[r] = Idle
    /\ \E a \in Addresses :
         /\ "overlap" \in Liberties \/ \A q \in Requests : req[q].a # a
         /\ \/ /\ a \notin users                                   \* hasActiveUser
               /\ \E p \in Phones : req' = [req EXCEPT ![r] = Loaded(Asking(a, "start", None, p))]
            \/ \E op \in {"verify", "resend"}, c \in Channels :
                 req' = [req EXCEPT ![r] = Loaded(Asking(a, op, c, None))]
    /\ UNCHANGED <<entry, code, line>> /\ Keep

\* ensureNotBlocked, ensurePhoneNotBlocked: refuse, or lift a block that has
\* run out.  The lifted entry they return is not used.
Lift(r) ==
    LET a == req[r].a
        c == Head(req[r].todo)
        q == [req[r] EXCEPT !.todo = Tail(@)]
    IN
    /\ req[r].pc = "lift"
    /\ \/ entry[a].ch[c].barred /\ Finish(r) /\ UNCHANGED entry
       \/ /\ ~entry[a].ch[c].barred
          /\ entry' = [entry EXCEPT ![a].ch[c] = [@ EXCEPT !.status = "unverified", !.resends = 0]]
          /\ req' = [req EXCEPT ![r] = IF q.todo = << >> THEN Admitted(q) ELSE q]
    /\ UNCHANGED <<code, line>> /\ Keep

\* maybeBlock, maybeBlockPhone
Bar(r) ==
    LET c == req[r].c IN
    /\ req[r].pc = "bar"
    /\ entry' = [entry EXCEPT ![req[r].a].ch[c] =
                    [@ EXCEPT !.status = "blocked", !.barred = TRUE, !.expires = FALSE]]
    /\ Finish(r)
    /\ UNCHANGED <<code, line>> /\ Keep

-----------------------------------------------------------------------------
(* start: join, or join again *)

ProofOfContact(r) ==
    LET done == req[r].a \in contact IN
    /\ req[r].pc = "proof"
    /\ req' = [req EXCEPT ![r].pc = IF done THEN "clear" ELSE "save",
                          ![r].todo = IF done THEN <<"phone">> ELSE <<"email", "phone">>]
    /\ UNCHANGED <<entry, code, line>> /\ Keep

\* The channels that need no code: todo becomes those that do.
Proof(r) ==
    LET a == req[r].a
        doc == req[r].doc
        done == {c \in Channels :
                   \/ c = "email" /\ a \in contact
                   \/ doc.ch[c].status = "verified" /\ (c = "phone" => doc.phone = req[r].phone)}
    IN
    /\ req[r].pc = "proof"
    /\ req' = [req EXCEPT ![r].pc = IF done # {} THEN "clear" ELSE "save",
                          ![r].todo = InOrder(Channels \ done)]
    /\ UNCHANGED <<entry, code, line>> /\ Keep

Clear(r) ==
    LET a == req[r].a IN
    /\ req[r].pc = "clear"
    /\ code' = [code EXCEPT ![a] = [c \in Channels |-> IF c \in ToSet(req[r].todo) THEN @[c] ELSE NoCode]]
    /\ Goto(r, "save")
    /\ UNCHANGED <<entry, line>> /\ Keep

\* The channel after a submission that sends a code for it, or not.
Resubmitted(ch, sends) ==
    [ch EXCEPT !.status = IF sends THEN "unverified" ELSE "verified",
               !.expires = sends]

\* The entry after it: todo are the channels that get a code.
Submitted(e, q) ==
    [e EXCEPT !.status = IF q.doc.status \in {"invited", "activated"} THEN q.doc.status ELSE "pending-cohort",
              !.phone = q.phone,
              !.ch = [c \in Channels |-> Resubmitted(e.ch[c], c \in ToSet(q.todo))]]

\* findOneAndUpdate with upsert
Save(r) ==
    LET a == req[r].a
        sends == ToSet(req[r].todo)
    IN
    /\ req[r].pc = "save"
    /\ entry' = [entry EXCEPT ![a] = Submitted(@, req[r])]
    /\ line' = IF Exists(a) THEN line ELSE Append(line, a)
    /\ IF sends = {} THEN Finish(r)
       ELSE req' = [req EXCEPT ![r].pc = "set",
                    ![r].doc = NoEntry, ![r].c = Head(req[r].todo),
                    ![r].code = IF Head(req[r].todo) = "email" THEN a ELSE req[r].phone]
    /\ UNCHANGED code /\ Keep

\* storeVerificationCode: SET, then DEL of the tries, then the mail or text.
SetCode(r) ==
    /\ req[r].pc = "set"
    /\ code' = [code EXCEPT ![req[r].a][req[r].c].sent = req[r].code]
    /\ Goto(r, "reset")
    /\ UNCHANGED <<entry, line>> /\ Keep

ResetTries(r) ==
    LET a == req[r].a IN
    /\ req[r].pc = "reset"
    /\ code' = [code EXCEPT ![a][req[r].c].tries = 0]
    /\ IF req[r].op = "start" /\ req[r].todo = <<"email", "phone">>
       THEN req' = [req EXCEPT ![r].pc = "set", ![r].todo = <<"phone">>,
                               ![r].c = "phone", ![r].code = req[r].phone]
       ELSE Finish(r)
    /\ UNCHANGED <<entry, line>> /\ Keep

-----------------------------------------------------------------------------
(* verify, verifyPhone *)

Fetch(r) ==
    LET a == req[r].a
        c == req[r].c
    IN
    /\ req[r].pc = "fetch"
    /\ IF code[a][c].sent = None \/ ~req[r].doc.ch[c].expires
       THEN Finish(r)
       ELSE req' = [req EXCEPT ![r].pc = "bump", ![r].code = code[a][c].sent]
    /\ UNCHANGED <<entry, code, line>> /\ Keep

\* bumpVerifyAttempt, then the comparison.
Bump(r) ==
    LET a == req[r].a
        c == req[r].c
        tries == Smaller(code[a][c].tries + 1, MaxAttempts + 1)
    IN
    /\ req[r].pc = "bump"
    /\ code' = [code EXCEPT ![a][c].tries = tries]
    /\ \/ tries > MaxAttempts /\ Goto(r, "over")
       \/ tries <= MaxAttempts /\ \E pc \in {"wrong", "forget"} : Goto(r, pc)
    /\ UNCHANGED <<entry, line>> /\ Keep

\* $inc: { verifyAttemptTotal: 1 }
Counted(ch) == [ch EXCEPT !.total = @ + 1]

\* One try too many at a code: counted, then maybeBlock.
Over(r) ==
    /\ req[r].pc = "over"
    /\ entry' = [entry EXCEPT ![req[r].a].ch[req[r].c] = Counted(@)]
    /\ Goto(r, "bar")
    /\ UNCHANGED <<code, line>> /\ Keep

\* A wrong code: the totals are checked again on the updated entry.
Wrong(r) ==
    LET a == req[r].a
        doc == [entry[a] EXCEPT !.ch[req[r].c] = Counted(@)]
    IN
    /\ req[r].pc = "wrong"
    /\ entry' = [entry EXCEPT ![a] = doc]
    /\ req' = [req EXCEPT ![r] = IF Excess(doc) = None THEN Idle
                                ELSE [@ EXCEPT !.pc = "bar", !.c = Excess(doc), !.doc = NoEntry]]
    /\ UNCHANGED <<code, line>> /\ Keep

\* The right code: clearVerificationState, then the entry.
Forget(r) ==
    /\ req[r].pc = "forget"
    /\ code' = [code EXCEPT ![req[r].a][req[r].c] = NoCode]
    /\ Goto(r, "confirm")
    /\ UNCHANGED <<entry, line>> /\ Keep

\* The channel is verified, and verify writes the status as it was loaded.
Proven(ch) == [ch EXCEPT !.status = "verified", !.expires = FALSE]

Confirmed(e, q) ==
    [e EXCEPT !.status = IF q.c = "email" THEN q.doc.status ELSE @,
              !.ch[q.c] = Proven(@)]

Confirm(r) ==
    /\ req[r].pc = "confirm"
    /\ entry' = [entry EXCEPT ![req[r].a] = Confirmed(@, req[r])]
    /\ Finish(r)
    /\ UNCHANGED <<code, line>> /\ Keep

-----------------------------------------------------------------------------
(* resend, resendPhone *)

\* A new code is to come: it lasts ttlMinutes, and counts.
Resent(ch) == [ch EXCEPT !.expires = TRUE, !.resends = @ + 1]

Renew(r) ==
    LET a == req[r].a
        c == req[r].c
    IN
    /\ req[r].pc = "renew"
    /\ entry' = [entry EXCEPT ![a].ch[c] = Resent(@)]
    /\ req' = [req EXCEPT ![r].pc = "reload", ![r].code = Target(req[r].doc, a, c)]
    /\ UNCHANGED <<code, line>> /\ Keep

\* The totals are checked again on the refreshed entry; then the code is sent.
Reload(r) ==
    LET excess == Excess(entry[req[r].a]) IN
    /\ req[r].pc = "reload"
    /\ req' = [req EXCEPT ![r].pc = IF excess = None THEN "set" ELSE "bar",
                          ![r].c = IF excess = None THEN @ ELSE excess,
                          ![r].doc = NoEntry]
    /\ UNCHANGED <<entry, code, line>> /\ Keep

\* A request dies or a store refuses it between two steps.
Die(r) ==
    /\ "die" \in Liberties
    /\ req[r] # Idle
    /\ Finish(r)
    /\ UNCHANGED <<entry, code, line>> /\ Keep

Start(r) == Proof(r) \/ Clear(r) \/ Save(r) \/ SetCode(r) \/ ResetTries(r)

Attempt(r) == Fetch(r) \/ Bump(r) \/ Over(r) \/ Wrong(r) \/ Forget(r) \/ Confirm(r)
Again(r) == Renew(r) \/ Reload(r) \/ SetCode(r) \/ ResetTries(r)

Verify(r)      == req[r].c = "email" /\ Attempt(r)
VerifyPhone(r) == req[r].c = "phone" /\ Attempt(r)
Resend(r)      == req[r].c = "email" /\ Again(r)
ResendPhone(r) == req[r].c = "phone" /\ Again(r)

Step(r) ==
    \/ Lift(r) \/ Bar(r)
    \/ req[r].op = "start" /\ Start(r)
    \/ req[r].op = "verify" /\ (Verify(r) \/ VerifyPhone(r))
    \/ req[r].op = "resend" /\ (Resend(r) \/ ResendPhone(r))

-----------------------------------------------------------------------------
(* ContactInquiriesService: a code of its own, whose confirmation a later  *)
(* start accepts.                                                          *)

Rest == UNCHANGED <<mode, entry, code, line, users, mailed, req, batch>>

\* sendVerification starts over; the verified status also runs out.
ContactUnverified(a) ==
    /\ contact' = contact \ {a}
    /\ Rest

\* confirmVerification with the right code
ContactConfirm(a) ==
    /\ contact' = contact \cup {a}
    /\ Rest

-----------------------------------------------------------------------------
(* Invitations: processInviteBatch and markInvited; the end of             *)
(* AuthService.register.                                                   *)

EligibleOnce(a) ==
    entry[a].status = "pending-cohort" /\ FullyVerified(entry[a]) /\ a \notin mailed

Eligible(a) ==
    entry[a].status = "pending-cohort" /\ FullyVerified(entry[a])

BatchKeep == UNCHANGED <<mode, code, contact, users, line, req>>

BatchRead(s) ==
    LET eligible == SelectSeq(line, Eligible)
    IN
    /\ batch[s] = NoBatch
    /\ eligible # << >>
    /\ batch' = [batch EXCEPT ![s] = [pc |-> "send", todo |-> SubSeq(eligible, 1, Smaller(BatchLimit, Len(eligible))), only |-> FALSE]]
    /\ UNCHANGED <<entry, mailed>> /\ BatchKeep

\* markInvited, by an administrator
Approve(s) ==
    /\ batch[s] = NoBatch
    /\ \E a \in Addresses :
         /\ Exists(a) /\ FullyVerified(entry[a])
         /\ batch' = [batch EXCEPT ![s] = [pc |-> "send", todo |-> <<a>>, only |-> TRUE]]
    /\ UNCHANGED <<entry, mailed>> /\ BatchKeep

\* One mail for the whole batch ("bcc"), or one for the next in it ("token").
Round(s) == IF mode = "bcc" /\ ~batch[s].only THEN ToSet(batch[s].todo) ELSE {Head(batch[s].todo)}

Remaining(s) ==
    LET todo == SelectSeq(batch[s].todo, LAMBDA a : a \notin Round(s)) IN
    IF todo = << >> THEN NoBatch ELSE [batch[s] EXCEPT !.pc = "send", !.todo = todo]

SendLater(s) ==
    /\ batch[s].pc = "send"
    /\ batch' = [batch EXCEPT ![s].pc = "save"]
    /\ UNCHANGED <<entry, mailed>> /\ BatchKeep

Send(s) ==
    /\ batch[s].pc = "send"
    /\ mailed' = mailed \cup Round(s)
    /\ batch' = [batch EXCEPT ![s].pc = "save"]
    /\ UNCHANGED entry /\ BatchKeep

\* The queue refuses the mail; inviteFailureCount is all that changes.
SendFails(s) ==
    /\ batch[s].pc = "send" /\ "die" \in Liberties
    /\ batch' = [batch EXCEPT ![s] = Remaining(s)]
    /\ UNCHANGED <<entry, mailed>> /\ BatchKeep

\* The server stops; its scheduler starts over.
BatchDies(s) ==
    /\ batch[s] # NoBatch /\ "die" \in Liberties
    /\ batch' = [batch EXCEPT ![s] = NoBatch]
    /\ UNCHANGED <<entry, mailed>> /\ BatchKeep

\* What an invitation writes to the entry.
Invited(e) ==
    [e EXCEPT !.status = "invited", !.ch = [c \in Channels |-> [e.ch[c] EXCEPT !.expires = FALSE]]]

\* A batch updates only entries still pending; markInvited updates any.
Invite(s) ==
    /\ batch[s].pc = "save"
    /\ entry' = [a \in Addresses |->
         IF a \in Round(s) /\ (batch[s].only \/ entry[a].status = "pending-cohort")
         THEN Invited(entry[a]) ELSE entry[a]]
    /\ batch' = [batch EXCEPT ![s] = Remaining(s)]
    /\ UNCHANGED mailed /\ BatchKeep

\* register, which passed the invite gate, and markActivated
Activate(a) ==
    /\ entry[a].status = "invited" /\ FullyVerified(entry[a]) /\ a \notin users
    /\ users' = users \cup {a}
    /\ entry' = [entry EXCEPT ![a].status = "activated"]
    /\ UNCHANGED <<mode, code, contact, line, mailed, req, batch>>

-----------------------------------------------------------------------------
(* Time *)

TimeKeep == UNCHANGED <<mode, contact, line, users, mailed, req, batch>>

\* ttlMinutes: Redis drops the code and the tries at it.
CodeExpires(a, c) ==
    /\ code[a][c] # NoCode
    /\ code' = [code EXCEPT ![a][c] = NoCode]
    /\ UNCHANGED entry /\ TimeKeep

\* blockMinutes
BlockEnds(a, c) ==
    /\ entry[a].ch[c].barred
    /\ entry' = [entry EXCEPT ![a].ch[c] = [@ EXCEPT !.barred = FALSE]]
    /\ UNCHANGED code /\ TimeKeep

-----------------------------------------------------------------------------
Next ==
    \/ \E r \in Requests : Begin(r) \/ Step(r) \/ Die(r)
    \/ \E s \in Servers : BatchRead(s) \/ Approve(s) \/ Send(s) \/ SendFails(s) \/ Invite(s) \/ BatchDies(s)
    \/ \E a \in Addresses :
         \/ ContactUnverified(a) \/ ContactConfirm(a) \/ Activate(a)
         \/ \E c \in Channels : CodeExpires(a, c) \/ BlockEnds(a, c)

\* The scheduler runs again every ten seconds, and the window opens every day.
Fairness ==
    \A s \in Servers : WF_vars(BatchRead(s)) /\ SF_vars(Send(s)) /\ SF_vars(Invite(s))

Spec == Init /\ [][Next]_vars /\ Fairness

-----------------------------------------------------------------------------
(* Properties *)

\* An entry never counts more wrong tries than maxTotalAttempts in its lifetime,
\* nor more resends than maxTotalResends between blocks, whichever path a request
\* takes, wherever it dies and however often a block runs out.  The codes that
\* start sends to who joins again are in neither count: the code does not bound
\* them (only a rate limiter delays them), and neither does this property.
TotalsBounded ==
    \A a \in Addresses, c \in Channels :
      entry[a].ch[c].total <= MaxTotalAttempts /\ entry[a].ch[c].resends <= MaxTotalResends

\* A verified e-mail address stays verified, and a verified phone as long as it
\* is the phone: joining again does not undo it.
VerificationKept ==
    [][\A a \in Addresses, c \in Channels :
         entry[a].ch[c].status = "verified" /\ Target(entry'[a], a, c) = Target(entry[a], a, c)
           => entry'[a].ch[c].status = "verified"]_vars

\* Whoever is invited has had the mail put in the queue, whatever dies.
InvitedWasMailed ==
    \A a \in Addresses : entry[a].status \in {"invited", "activated"} => a \in mailed

\* A verified company is invited, unless it changes its phone meanwhile.
VerifiedGetsInvited ==
    \A a \in Addresses :
      entry[a].status = "pending-cohort" /\ FullyVerified(entry[a]) ~>
        entry[a].status # "pending-cohort" \/ ~FullyVerified(entry[a])
=============================================================================
