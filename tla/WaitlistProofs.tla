---------------------------- MODULE WaitlistProofs ----------------------------
(***************************************************************************)
(* Theorems about Waitlist, for any addresses, requests, servers and       *)
(* limits.  That nobody is invited without a mail holds whatever requests  *)
(* and servers do to one another; the totals, and that a verification      *)
(* lasts, hold as long as an address has one request in flight.            *)
(*                                                                         *)
(* Nothing is said of the line, nor of who is in a batch taken from it:    *)
(* what SelectSeq returns is beyond the provers.                           *)
(***************************************************************************)
EXTENDS Waitlist, SequenceTheorems, TLAPS

-----------------------------------------------------------------------------
(* The inductive invariants                                                   *)

\* The types, with no bound on the totals.
ChannelDoc == [status: {"unverified", "verified", "blocked"}, barred: BOOLEAN, expires: BOOLEAN,
               total: Nat, resends: Nat]

EntryDoc == [status: {"none", "pending-cohort", "invited", "activated"},
             phone: Phones \cup {None}, ch: [Channels -> ChannelDoc]]

Todos == {<< >>, <<"email">>, <<"phone">>, <<"email", "phone">>}

Pcs == {"idle", "lift", "bar", "proof", "clear", "save", "set", "reset",
        "fetch", "bump", "over", "wrong", "forget", "confirm", "renew", "reload"}

RequestDoc == [pc: Pcs, op: {None, "start", "verify", "resend"}, a: Addresses \cup {None},
               c: Channels \cup {None}, phone: Phones \cup {None}, doc: EntryDoc, todo: Todos,
               code: Addresses \cup Phones \cup {None}]

\* Steps of a request that act on the channel it is about, and those that
\* still use the entry as it was loaded.
OnChannel == {"fetch", "bump", "over", "wrong", "forget", "confirm", "renew"}

OnSubmission == {"proof", "clear", "save"}

RequestOK(q) ==
    /\ q.pc = "idle" <=> q.a = None
    /\ q.pc # "idle" /\ q.op # "start" => q.op \in {"verify", "resend"} /\ q.c \in Channels
    /\ q.pc \in {"bar", "set", "reset"} => q.c \in Channels
    /\ q.pc \in OnChannel \cup {"reload"} => q.op # "start"
    /\ q.pc = "lift" => q.todo # << >>

InvitedStatus == {"invited", "activated"}

\* A mail went out before any trace of an invitation.
MailInv ==
    /\ InvitedWasMailed
    /\ \A r \in Requests : req[r].doc.status \in InvitedStatus => req[r].a \in mailed
    /\ \A s \in Servers : batch[s].pc = "save" => Round(s) \subseteq mailed

IndInv ==
    /\ entry \in [Addresses -> EntryDoc]
    /\ code \in [Addresses -> [Channels -> CodeSlot]]
    /\ req \in [Requests -> RequestDoc]
    /\ \A r \in Requests : RequestOK(req[r])
    /\ batch = [s \in Servers |-> batch[s]]
    /\ \A s \in Servers : DOMAIN batch[s] = {"pc", "todo", "only"}
    /\ MailInv

\* One request at a time for an address.
InTurn == "overlap" \notin Liberties

OneEach == \A q, r \in Requests : req[q].a # None /\ req[q].a = req[r].a => q = r

\* The totals are kept, and a channel that has used up one is not verified.
Within(e) ==
    \A c \in Channels :
      /\ e.ch[c].total <= MaxTotalAttempts /\ e.ch[c].resends <= MaxTotalResends
      /\ e.ch[c].status = "verified" => ~UsedUp(e, c)

Untouched(e) ==
    e.phone = None /\ \A c \in Channels :
      e.ch[c].status = "unverified" /\ e.ch[c].total = 0 /\ e.ch[c].resends = 0

\* d, as loaded, still tells the entry but for the channels unblocked since.
Tracks(d, e) ==
    /\ d.phone = e.phone
    /\ \A c \in Channels :
         /\ d.ch[c].total = e.ch[c].total
         /\ \/ d.ch[c].status = e.ch[c].status /\ d.ch[c].resends = e.ch[c].resends
            \/ d.ch[c].status = "blocked" /\ e.ch[c].status = "unverified" /\ e.ch[c].resends = 0

\* What a request may rely on: that nothing it judged by has changed.
Works(e, q) ==
    /\ q.pc \notin OnSubmission => e.status # "none"
    /\ q.pc \in OnChannel \cup {"lift"} => q.doc.status # "none"
    /\ q.pc \in OnChannel \cup OnSubmission \cup {"lift"} => Tracks(q.doc, e)
    /\ q.pc \in OnChannel \cup OnSubmission => \A c \in Channels : ~UsedUp(q.doc, c)
    /\ q.pc \in OnChannel => q.doc.ch[q.c].status # "verified"
    /\ q.pc = "lift" => \A c \in ToSet(q.todo) : q.doc.ch[c].status = "blocked"
    /\ q.pc = "bar" => e.ch[q.c].status # "verified"
    /\ q.pc \in {"clear", "save"} =>
         \A c \in Channels : e.ch[c].status = "verified" /\ (c = "phone" => e.phone = q.phone)
                               => c \notin ToSet(q.todo)

TurnInv ==
    /\ OneEach
    /\ \A a \in Addresses : Within(entry[a]) /\ (entry[a].status = "none" => Untouched(entry[a]))
    /\ \A r \in Requests : req[r].a # None => Works(entry[req[r].a], req[r])

-----------------------------------------------------------------------------
(* Channels, entries and requests                                             *)

LEMMA Limits ==
    /\ MaxAttempts \in Nat \ {0} /\ MaxTotalAttempts \in Nat \ {0} /\ MaxTotalResends \in Nat \ {0}
    /\ None \notin Addresses /\ None \notin Phones /\ None \notin Channels
BY WaitlistAssumption DEF Channels

LEMMA Typed ==
    ASSUME IndInv
    PROVE  /\ entry \in [Addresses -> EntryDoc] /\ code \in [Addresses -> [Channels -> CodeSlot]]
           /\ req \in [Requests -> RequestDoc]
           /\ \A a \in Addresses : entry[a] \in EntryDoc
           /\ \A r \in Requests : req[r] \in RequestDoc /\ RequestOK(req[r])
           /\ MailInv
BY DEF IndInv

LEMMA NoEntryType ==
    /\ NoEntry \in EntryDoc /\ NoEntry.status = "none" /\ Untouched(NoEntry)
    /\ \A c \in Channels : ~UsedUp(NoEntry, c)
<1>1. NoEntry \in EntryDoc /\ NoEntry.status = "none" /\ NoEntry.phone = None
  BY DEF NoEntry, EntryDoc, ChannelDoc, FreshChannel
<1>2. \A c \in Channels : NoEntry.ch[c] = FreshChannel
  BY DEF NoEntry
<1> QED
  BY <1>1, <1>2, Limits DEF Untouched, UsedUp, FreshChannel

LEMMA IdleType ==
    /\ Idle \in RequestDoc /\ RequestOK(Idle)
    /\ Idle.pc = "idle" /\ Idle.a = None /\ Idle.doc = NoEntry
<1>1. NoEntry \in EntryDoc
  BY NoEntryType
<1> HIDE DEF NoEntry
<1>2. Idle \in RequestDoc /\ Idle.pc = "idle" /\ Idle.a = None /\ Idle.doc = NoEntry
  BY <1>1 DEF Idle, RequestDoc, Pcs, Todos
<1> QED
  BY <1>2 DEF RequestOK, OnChannel

LEMMA Lists ==
    /\ ToSet(<< >>) = {} /\ ToSet(<<"email">>) = {"email"} /\ ToSet(<<"phone">>) = {"phone"}
    /\ ToSet(<<"email", "phone">>) = {"email", "phone"}
    /\ << >> \o << >> = << >> /\ <<"email">> \o << >> = <<"email">> /\ << >> \o <<"phone">> = <<"phone">>
    /\ <<"email">> \o <<"phone">> = <<"email", "phone">>
    /\ << >> # <<"email">> /\ << >> # <<"phone">> /\ << >> # <<"email", "phone">>
    /\ Head(<<"email">>) = "email" /\ Tail(<<"email">>) = << >>
    /\ Head(<<"phone">>) = "phone" /\ Tail(<<"phone">>) = << >>
    /\ Head(<<"email", "phone">>) = "email" /\ Tail(<<"email", "phone">>) = <<"phone">>
<1>1. ToSet(<< >>) = {} /\ ToSet(<<"email">>) = {"email"} /\ ToSet(<<"phone">>) = {"phone"}
  BY DEF ToSet
<1>2. ToSet(<<"email", "phone">>) = {"email", "phone"}
  <2> DEFINE s == <<"email", "phone">>
  <2>1. DOMAIN s = {1, 2} /\ s[1] = "email" /\ s[2] = "phone"
    OBVIOUS
  <2> HIDE DEF s
  <2>2. ToSet(s) = {"email", "phone"}
    BY <2>1 DEF ToSet
  <2> QED
    BY <2>2 DEF s
<1>3. /\ << >> \o << >> = << >> /\ <<"email">> \o << >> = <<"email">> /\ << >> \o <<"phone">> = <<"phone">>
      /\ << >> # <<"email">> /\ << >> # <<"phone">> /\ << >> # <<"email", "phone">>
  OBVIOUS
<1>4. <<"email">> \o <<"phone">> = <<"email", "phone">>
  <2> DEFINE s == <<"email">> \o <<"phone">>
             t == <<"email", "phone">>
  <2>1. s \in Seq(Channels) /\ Len(s) = 2 /\ s[1] = "email" /\ s[2] = "phone"
    BY DEF Channels
  <2>2. t \in Seq(Channels) /\ Len(t) = 2 /\ t[1] = "email" /\ t[2] = "phone"
    BY DEF Channels
  <2> HIDE DEF s, t
  <2>3. \A i \in 1 .. Len(s) : s[i] = t[i]
    BY <2>1, <2>2
  <2>4. s = t
    BY <2>1, <2>2, <2>3, SeqEqual
  <2> QED
    BY <2>4 DEF s, t
<1>5. /\ Head(<<"email">>) = "email" /\ Tail(<<"email">>) = << >>
      /\ Head(<<"phone">>) = "phone" /\ Tail(<<"phone">>) = << >>
  OBVIOUS
<1>6. Head(<<"email", "phone">>) = "email" /\ Tail(<<"email", "phone">>) = <<"phone">>
  OBVIOUS
<1> QED
  BY <1>1, <1>2, <1>3, <1>4, <1>5, <1>6

LEMMA Ordered ==
    ASSUME NEW cs \in SUBSET Channels
    PROVE  InOrder(cs) \in Todos /\ ToSet(InOrder(cs)) = cs /\ (InOrder(cs) = << >> <=> cs = {})
<1>1. CASE "email" \in cs /\ "phone" \in cs
  <2>1. InOrder(cs) = <<"email", "phone">> /\ cs = {"email", "phone"}
    BY <1>1, Lists DEF InOrder, Channels
  <2> QED
    BY <2>1, Lists DEF Todos
<1>2. CASE "email" \in cs /\ "phone" \notin cs
  <2>1. InOrder(cs) = <<"email">> /\ cs = {"email"}
    BY <1>2, Lists DEF InOrder, Channels
  <2> QED
    BY <2>1, Lists DEF Todos
<1>3. CASE "email" \notin cs /\ "phone" \in cs
  <2>1. InOrder(cs) = <<"phone">> /\ cs = {"phone"}
    BY <1>3, Lists DEF InOrder, Channels
  <2> QED
    BY <2>1, Lists DEF Todos
<1>4. CASE "email" \notin cs /\ "phone" \notin cs
  <2>1. InOrder(cs) = << >> /\ cs = {}
    BY <1>4, Lists DEF InOrder, Channels
  <2> QED
    BY <2>1, Lists DEF Todos
<1> QED
  BY <1>1, <1>2, <1>3, <1>4

LEMMA Shorter ==
    ASSUME NEW t \in Todos, t # << >>
    PROVE  /\ Head(t) \in Channels /\ Head(t) \in ToSet(t) /\ ToSet(t) \subseteq Channels
           /\ Tail(t) \in Todos /\ ToSet(Tail(t)) \subseteq ToSet(t)
<1>1. t \in {<<"email">>, <<"phone">>, <<"email", "phone">>}
  BY DEF Todos
<1>2. CASE t = <<"email">>
  BY <1>2, Lists DEF Todos, Channels
<1>3. CASE t = <<"phone">>
  BY <1>3, Lists DEF Todos, Channels
<1>4. CASE t = <<"email", "phone">>
  BY <1>4, Lists DEF Todos, Channels
<1> QED
  BY <1>1, <1>2, <1>3, <1>4

\* An entry with one channel rewritten.
Put(e, c, x) == [e EXCEPT !.ch = [e.ch EXCEPT ![c] = x]]

LEMMA PutType ==
    ASSUME NEW e \in EntryDoc, NEW c \in Channels, NEW x \in ChannelDoc
    PROVE  /\ Put(e, c, x) \in EntryDoc
           /\ Put(e, c, x).status = e.status /\ Put(e, c, x).phone = e.phone
           /\ Put(e, c, x).ch[c] = x
           /\ \A k \in Channels \ {c} : Put(e, c, x).ch[k] = e.ch[k]
<1> DEFINE chs == [e.ch EXCEPT ![c] = x]
<1>1. chs \in [Channels -> ChannelDoc] /\ chs[c] = x /\ \A k \in Channels \ {c} : chs[k] = e.ch[k]
  BY DEF EntryDoc
<1> HIDE DEF chs
<1>2. Put(e, c, x) = [e EXCEPT !.ch = chs]
  BY DEF Put, chs
<1> QED
  BY <1>1, <1>2 DEF EntryDoc

To(q, pc) == [q EXCEPT !.pc = pc]

LEMMA ToType ==
    ASSUME NEW q \in RequestDoc, NEW pc \in Pcs
    PROVE  /\ To(q, pc) \in RequestDoc /\ To(q, pc).pc = pc
           /\ To(q, pc).op = q.op /\ To(q, pc).a = q.a /\ To(q, pc).c = q.c
           /\ To(q, pc).phone = q.phone /\ To(q, pc).doc = q.doc /\ To(q, pc).todo = q.todo
BY DEF To, RequestDoc

-----------------------------------------------------------------------------
(* What a step needs to keep the invariants                                   *)

\* The verification of an entry is kept.
Stays(a, e, f) ==
    \A c \in Channels : e.ch[c].status = "verified" /\ Target(f, a, c) = Target(e, a, c)
                          => f.ch[c].status = "verified"

Kept == \A a \in Addresses, c \in Channels :
          entry[a].ch[c].status = "verified" /\ Target(entry'[a], a, c) = Target(entry[a], a, c)
            => entry'[a].ch[c].status = "verified"

\* Request r, which is about a, becomes q, and the entry becomes e.
Does(r, a, e, q) ==
    /\ a \in Addresses /\ e \in EntryDoc /\ q \in RequestDoc /\ RequestOK(q) /\ q.a \in {a, None}
    /\ entry' = [entry EXCEPT ![a] = e] /\ req' = [req EXCEPT ![r] = q]
    /\ code' \in [Addresses -> [Channels -> CodeSlot]]
    /\ UNCHANGED <<mode, mailed, batch>>
    /\ e.status \in InvitedStatus => a \in mailed
    /\ q.doc.status \in InvitedStatus => q.a \in mailed

LEMMA DoesMoves ==
    ASSUME IndInv, NEW r \in Requests, NEW a, NEW e, NEW q, Does(r, a, e, q)
    PROVE  /\ entry' \in [Addresses -> EntryDoc] /\ entry'[a] = e
           /\ \A o \in Addresses \ {a} : entry'[o] = entry[o]
           /\ req' \in [Requests -> RequestDoc] /\ req'[r] = q
           /\ \A o \in Requests \ {r} : req'[o] = req[o]
BY Typed DEF Does

LEMMA RoundStays ==
    ASSUME UNCHANGED <<mode, batch>>, NEW s
    PROVE  Round(s)' = Round(s)
BY DEF Round

LEMMA DoesKeeps ==
    ASSUME IndInv, NEW r \in Requests, NEW a, NEW e, NEW q, Does(r, a, e, q)
    PROVE  IndInv'
<1>1. /\ entry' \in [Addresses -> EntryDoc] /\ entry'[a] = e
      /\ \A o \in Addresses \ {a} : entry'[o] = entry[o]
      /\ req' \in [Requests -> RequestDoc] /\ req'[r] = q
      /\ \A o \in Requests \ {r} : req'[o] = req[o]
  BY DoesMoves
<1>2. /\ RequestOK(q) /\ code' \in [Addresses -> [Channels -> CodeSlot]]
      /\ UNCHANGED <<mode, mailed, batch>>
      /\ e.status \in InvitedStatus => a \in mailed
      /\ q.doc.status \in InvitedStatus => q.a \in mailed
  BY DEF Does
<1>3. InvitedWasMailed'
  BY <1>1, <1>2 DEF IndInv, MailInv, InvitedWasMailed, InvitedStatus
<1>4. \A o \in Requests : req'[o].doc.status \in InvitedStatus => req'[o].a \in mailed'
  BY <1>1, <1>2 DEF IndInv, MailInv
<1>5. \A s \in Servers : batch'[s].pc = "save" => Round(s)' \subseteq mailed'
  BY <1>2, RoundStays DEF IndInv, MailInv
<1>6. \A o \in Requests : RequestOK(req'[o])
  BY <1>1, <1>2 DEF IndInv
<1> QED
  BY <1>1, <1>2, <1>3, <1>4, <1>5, <1>6 DEF IndInv, MailInv

\* It has judged by what still is the case.
Judged(r, a, e, q) ==
    /\ \A o \in Requests \ {r} : req[o].a # a
    /\ Within(e) /\ (e.status = "none" => Untouched(e))
    /\ q.a # None => Works(e, q)
    /\ Stays(a, entry[a], e)

LEMMA JudgedKeeps ==
    ASSUME IndInv, TurnInv, NEW r \in Requests, NEW a, NEW e, NEW q,
           Does(r, a, e, q), Judged(r, a, e, q)
    PROVE  TurnInv' /\ Kept
<1>1. /\ a \in Addresses /\ q.a \in {a, None} /\ entry'[a] = e
      /\ \A o \in Addresses \ {a} : entry'[o] = entry[o]
      /\ req'[r] = q /\ \A o \in Requests \ {r} : req'[o] = req[o]
  BY DoesMoves DEF Does
<1>2. OneEach'
  BY <1>1 DEF TurnInv, OneEach, Judged
<1>3. \A b \in Addresses : Within(entry'[b]) /\ (entry'[b].status = "none" => Untouched(entry'[b]))
  BY <1>1 DEF TurnInv, Judged
<1>4. ASSUME NEW o \in Requests, req'[o].a # None PROVE Works(entry'[req'[o].a], req'[o])
  <2>1. CASE o = r
    BY <1>1, <1>4, <2>1 DEF Judged
  <2>2. CASE o # r
    <3>1. req'[o] = req[o] /\ req[o].a \in Addresses \ {a}
      BY <1>1, <1>4, <2>2, Typed DEF Judged, RequestDoc
    <3> QED
      BY <1>1, <1>4, <3>1 DEF TurnInv
  <2> QED
    BY <2>1, <2>2
<1>5. Kept
  <2> SUFFICES ASSUME NEW b \in Addresses, NEW c \in Channels, entry[b].ch[c].status = "verified",
                      Target(entry'[b], b, c) = Target(entry[b], b, c)
               PROVE  entry'[b].ch[c].status = "verified"
    BY DEF Kept
  <2>1. CASE b = a
    BY <1>1, <2>1 DEF Judged, Stays
  <2>2. CASE b # a
    BY <1>1, <2>2
  <2> QED
    BY <2>1, <2>2
<1> QED
  BY <1>2, <1>3, <1>4, <1>5 DEF TurnInv

\* What invitations, accounts and time leave of an entry.
Spares(e, f) ==
    /\ f.phone = e.phone /\ (f.status = "none" => e.status = "none")
    /\ \A c \in Channels : /\ f.ch[c].status = e.ch[c].status
                           /\ f.ch[c].total = e.ch[c].total /\ f.ch[c].resends = e.ch[c].resends

LEMMA SparesKeeps ==
    ASSUME TurnInv, IndInv, UNCHANGED req, \A a \in Addresses : Spares(entry[a], entry'[a])
    PROVE  TurnInv' /\ Kept
<1>1. ASSUME NEW e, NEW f, Spares(e, f)
      PROVE  /\ Within(e) => Within(f)
             /\ (e.status = "none" => Untouched(e)) => (f.status = "none" => Untouched(f))
             /\ \A q : RequestOK(q) /\ Works(e, q) => Works(f, q)
  <2>1. Within(e) => Within(f)
    BY <1>1 DEF Spares, Within, UsedUp
  <2>2. (e.status = "none" => Untouched(e)) => (f.status = "none" => Untouched(f))
    BY <1>1 DEF Spares, Untouched
  <2>3. \A d : Tracks(d, e) => Tracks(d, f)
    BY <1>1 DEF Spares, Tracks
  <2>4. ASSUME NEW q, RequestOK(q), Works(e, q) PROVE Works(f, q)
    <3>1. q.pc = "bar" => q.c \in Channels
      BY <2>4 DEF RequestOK
    <3> QED
      BY <1>1, <2>3, <2>4, <3>1 DEF Works, Spares
  <2> QED
    BY <2>1, <2>2, <2>4
<1>2. OneEach'
  BY DEF TurnInv, OneEach
<1>3. \A r \in Requests : req[r].a # None => Works(entry'[req[r].a], req[r])
  <2> SUFFICES ASSUME NEW r \in Requests, req[r].a # None PROVE Works(entry'[req[r].a], req[r])
    OBVIOUS
  <2>1. req[r].a \in Addresses /\ RequestOK(req[r])
    BY Typed DEF RequestDoc
  <2> QED
    BY <1>1, <2>1 DEF TurnInv
<1>4. \A a \in Addresses : Within(entry'[a]) /\ (entry'[a].status = "none" => Untouched(entry'[a]))
  BY <1>1 DEF TurnInv
<1>5. Kept
  BY DEF Kept, Spares
<1> QED
  BY <1>2, <1>3, <1>4, <1>5 DEF TurnInv

-----------------------------------------------------------------------------
(* Load, lift and bar                                                         *)

\* A request under way.
Addressed(q) ==
    q.a \in Addresses /\ (q.op # "start" => q.op \in {"verify", "resend"} /\ q.c \in Channels)

Barred(q, c) == [q EXCEPT !.pc = "bar", !.c = c, !.doc = NoEntry]

LEMMA BarredType ==
    ASSUME NEW q \in RequestDoc, NEW c \in Channels, Addressed(q)
    PROVE  /\ Barred(q, c) \in RequestDoc /\ RequestOK(Barred(q, c))
           /\ Barred(q, c).pc = "bar" /\ Barred(q, c).c = c /\ Barred(q, c).a = q.a
           /\ Barred(q, c).doc = NoEntry
<1>1. NoEntry \in EntryDoc
  BY NoEntryType
<1> HIDE DEF NoEntry
<1> DEFINE m == [q EXCEPT !.pc = "bar", !.c = c]
           n == [m EXCEPT !.doc = NoEntry]
<1>2. m \in RequestDoc /\ m.pc = "bar" /\ m.c = c /\ m.a = q.a /\ m.op = q.op
  BY DEF RequestDoc, Pcs
<1>3. Barred(q, c) = n
  BY DEF Barred
<1> HIDE DEF m
<1>4. n \in RequestDoc /\ n.pc = "bar" /\ n.c = c /\ n.a = q.a /\ n.op = q.op /\ n.doc = NoEntry
  BY <1>1, <1>2 DEF RequestDoc
<1> HIDE DEF n
<1> QED
  BY <1>3, <1>4, Limits DEF Addressed, RequestOK, OnChannel

\* What an admitted request has been told by the entry it has loaded.
LEMMA AdmittedCases ==
    ASSUME NEW q \in RequestDoc, Addressed(q)
    PROVE  \/ \E c \in Channels : UsedUp(q.doc, c) /\ Admitted(q) = Barred(q, c)
           \/ /\ \A c \in Channels : ~UsedUp(q.doc, c)
              /\ \/ q.op = "start" /\ Admitted(q) = To(q, "proof")
                 \/ q.op # "start" /\ Admitted(q) = Idle
                 \/ /\ q.op # "start" /\ q.doc.ch[q.c].status # "verified"
                    /\ \E pc \in {"fetch", "renew"} : Admitted(q) = To(q, pc)
BY Limits DEF Admitted, Excess, Barred, To, Channels

LEMMA AdmittedOK ==
    ASSUME NEW q \in RequestDoc, Addressed(q)
    PROVE  /\ Admitted(q) \in RequestDoc /\ RequestOK(Admitted(q)) /\ Admitted(q).a \in {q.a, None}
           /\ Admitted(q).doc = NoEntry \/ (Admitted(q).doc = q.doc /\ Admitted(q).a = q.a)
           /\ \A e : Tracks(q.doc, e) /\ Within(e) /\ q.doc.status # "none" /\ e.status # "none"
                       /\ Admitted(q).a # None => Works(e, Admitted(q))
<1> SUFFICES ASSUME NEW m, m = Admitted(q)
             PROVE  /\ m \in RequestDoc /\ RequestOK(m) /\ m.a \in {q.a, None}
                    /\ m.doc = NoEntry \/ (m.doc = q.doc /\ m.a = q.a)
                    /\ \A e : Tracks(q.doc, e) /\ Within(e) /\ q.doc.status # "none" /\ e.status # "none"
                                /\ m.a # None => Works(e, m)
  OBVIOUS
<1>1. CASE \E c \in Channels : UsedUp(q.doc, c) /\ m = Barred(q, c)
  <2>1. PICK c \in Channels : UsedUp(q.doc, c) /\ m = Barred(q, c)
    BY <1>1
  <2>2. m \in RequestDoc /\ RequestOK(m) /\ m.pc = "bar" /\ m.c = c /\ m.a = q.a /\ m.doc = NoEntry
    BY <2>1, BarredType
  <2>3. ASSUME NEW e, Tracks(q.doc, e), Within(e), e.status # "none" PROVE Works(e, m)
    <3>1. e.ch[c].status # "verified"
      BY <2>1, <2>3 DEF Tracks, Within, UsedUp
    <3> QED
      BY <2>2, <2>3, <3>1 DEF Works, OnChannel, OnSubmission
  <2> QED
    BY <2>2, <2>3
<1>2. CASE m = Idle
  BY <1>2, IdleType
<1>3. CASE (\A c \in Channels : ~UsedUp(q.doc, c)) /\ q.op = "start" /\ m = To(q, "proof")
  <2>1. m \in RequestDoc /\ m.pc = "proof" /\ m.a = q.a /\ m.doc = q.doc /\ m.op = q.op
    BY <1>3, ToType DEF Pcs
  <2>2. RequestOK(m)
    BY <1>3, <2>1, Limits DEF Addressed, RequestOK, OnChannel
  <2>3. \A e : Tracks(q.doc, e) => Works(e, m)
    BY <1>3, <2>1 DEF Works, OnChannel, OnSubmission
  <2> QED
    BY <2>1, <2>2, <2>3
<1>4. CASE /\ \A c \in Channels : ~UsedUp(q.doc, c)
           /\ q.op # "start" /\ q.doc.ch[q.c].status # "verified"
           /\ \E pc \in {"fetch", "renew"} : m = To(q, pc)
  <2>1. PICK pc \in {"fetch", "renew"} : m = To(q, pc)
    BY <1>4
  <2>2. m \in RequestDoc /\ m.pc = pc /\ m.a = q.a /\ m.doc = q.doc /\ m.op = q.op /\ m.c = q.c
    BY <2>1, ToType DEF Pcs
  <2>3. RequestOK(m)
    BY <1>4, <2>2, Limits DEF Addressed, RequestOK, OnChannel
  <2>4. \A e : Tracks(q.doc, e) /\ q.doc.status # "none" /\ e.status # "none" => Works(e, m)
    BY <1>4, <2>2 DEF Works, OnChannel, OnSubmission
  <2> QED
    BY <2>2, <2>3, <2>4
<1> QED
  BY <1>1, <1>2, <1>3, <1>4, AdmittedCases

\* What is known of a request under way, and of its entry.
LEMMA Busy ==
    ASSUME IndInv, NEW r \in Requests, req[r].pc # "idle"
    PROVE  /\ req[r] \in RequestDoc /\ RequestOK(req[r]) /\ Addressed(req[r])
           /\ req[r].a # None /\ req[r].a \in Addresses
           /\ entry[req[r].a] \in EntryDoc
           /\ req[r].doc.status \in InvitedStatus => req[r].a \in mailed
           /\ entry[req[r].a].status \in InvitedStatus => req[r].a \in mailed
           /\ TurnInv => /\ Within(entry[req[r].a]) /\ Works(entry[req[r].a], req[r])
                         /\ entry[req[r].a].status = "none" => Untouched(entry[req[r].a])
                         /\ \A o \in Requests \ {r} : req[o].a # req[r].a
<1>1. req[r] \in RequestDoc /\ RequestOK(req[r])
  BY Typed
<1>2. Addressed(req[r]) /\ req[r].a # None /\ req[r].a \in Addresses
  BY <1>1 DEF RequestOK, RequestDoc, Addressed
<1>3. /\ req[r].doc.status \in InvitedStatus => req[r].a \in mailed
      /\ entry[req[r].a].status \in InvitedStatus => req[r].a \in mailed
  BY <1>2, Typed DEF MailInv, InvitedWasMailed, InvitedStatus
<1>4. TurnInv => \A o \in Requests \ {r} : req[o].a # req[r].a
  BY <1>2 DEF TurnInv, OneEach
<1> QED
  BY <1>1, <1>2, <1>3, <1>4, Typed DEF TurnInv

\* A step of a request that leaves the entry as e and the request as m.
LEMMA Acts ==
    ASSUME IndInv, NEW r \in Requests, req[r].pc # "idle",
           NEW e \in EntryDoc, NEW m \in RequestDoc, RequestOK(m), m.a \in {req[r].a, None},
           m.doc = NoEntry \/ (m.doc = req[r].doc /\ m.a = req[r].a),
           entry' = [entry EXCEPT ![req[r].a] = e], req' = [req EXCEPT ![r] = m],
           code' \in [Addresses -> [Channels -> CodeSlot]], UNCHANGED <<mode, mailed, batch>>,
           e.status \in InvitedStatus => req[r].a \in mailed,
           TurnInv => /\ Within(e) /\ (e.status = "none" => Untouched(e))
                      /\ Stays(req[r].a, entry[req[r].a], e)
                      /\ m.a # None => Works(e, m)
    PROVE  IndInv' /\ (TurnInv => TurnInv' /\ Kept)
<1>1. m.doc.status \in InvitedStatus => m.a \in mailed
  BY Busy, NoEntryType DEF InvitedStatus
<1>2. Does(r, req[r].a, e, m)
  BY <1>1, Busy DEF Does
<1>3. TurnInv => Judged(r, req[r].a, e, m)
  BY Busy DEF Judged
<1> QED
  BY <1>2, <1>3, DoesKeeps, JudgedKeeps

\* A step that leaves the entry alone.
LEMMA Proceeds ==
    ASSUME IndInv, NEW r \in Requests, req[r].pc # "idle",
           NEW m \in RequestDoc, RequestOK(m), m.a \in {req[r].a, None},
           m.doc = NoEntry \/ (m.doc = req[r].doc /\ m.a = req[r].a),
           UNCHANGED entry, req' = [req EXCEPT ![r] = m],
           code' \in [Addresses -> [Channels -> CodeSlot]], UNCHANGED <<mode, mailed, batch>>,
           TurnInv /\ m.a # None => Works(entry[req[r].a], m)
    PROVE  IndInv' /\ (TurnInv => TurnInv' /\ Kept)
<1> DEFINE e == entry[req[r].a]
<1>1. entry' = [entry EXCEPT ![req[r].a] = e] /\ Stays(req[r].a, e, e)
  BY Typed DEF Stays
<1> HIDE DEF e
<1>2. e = entry[req[r].a]
  BY DEF e
<1> QED
  BY <1>1, <1>2, Busy, Acts

-----------------------------------------------------------------------------
(* The steps of a request                                                     *)

\* The entry tells whoever has just loaded it.
LEMMA SelfTracks == \A e : Tracks(e, e)
BY DEF Tracks

Lifting(q, d, t) == [q EXCEPT !.pc = "lift", !.doc = d, !.todo = t]

LEMMA AskingType ==
    ASSUME NEW a \in Addresses, NEW op \in {"start", "verify", "resend"},
           NEW c \in Channels \cup {None}, NEW p \in Phones \cup {None}, op # "start" => c \in Channels
    PROVE  LET q == Asking(a, op, c, p) IN
           /\ q \in RequestDoc /\ Addressed(q) /\ q.a = a /\ q.doc = NoEntry /\ q.op = op /\ q.c = c
<1>1. NoEntry \in EntryDoc
  BY NoEntryType
<1> HIDE DEF NoEntry
<1> DEFINE m == [Idle EXCEPT !.op = op, !.a = a]
           n == [m EXCEPT !.c = c, !.phone = p]
<1>2. m \in RequestDoc /\ m.op = op /\ m.a = a /\ m.doc = NoEntry
  BY <1>1 DEF Idle, RequestDoc, Pcs, Todos
<1>3. Asking(a, op, c, p) = n
  BY DEF Asking
<1> HIDE DEF m
<1>4. n \in RequestDoc /\ n.op = op /\ n.a = a /\ n.doc = NoEntry /\ n.c = c
  BY <1>2 DEF RequestDoc
<1> HIDE DEF n
<1> QED
  BY <1>3, <1>4 DEF Addressed

LEMMA LiftingType ==
    ASSUME NEW q \in RequestDoc, Addressed(q), NEW d \in EntryDoc, NEW t \in Todos
    PROVE  LET l == Lifting(q, d, t) IN
           /\ l \in RequestDoc /\ Addressed(l) /\ (t # << >> => RequestOK(l))
           /\ l.pc = "lift" /\ l.a = q.a /\ l.doc = d /\ l.todo = t
<1> DEFINE l == Lifting(q, d, t)
<1>1. l \in RequestDoc /\ l.pc = "lift" /\ l.a = q.a /\ l.doc = d /\ l.todo = t /\ l.op = q.op /\ l.c = q.c
  BY DEF Lifting, RequestDoc, Pcs
<1> HIDE DEF l
<1>2. Addressed(l) /\ (t # << >> => RequestOK(l))
  BY <1>1, Limits DEF Addressed, RequestOK, OnChannel
<1> QED
  BY <1>1, <1>2 DEF l

\* What loading the entry makes of a request.
LEMMA LoadedOK ==
    ASSUME NEW q \in RequestDoc, Addressed(q), q.doc = NoEntry, entry[q.a] \in EntryDoc,
           NEW m, m = Loaded(q)
    PROVE  /\ m \in RequestDoc /\ RequestOK(m) /\ m.a \in {q.a, None}
           /\ m.doc = NoEntry \/ (m.doc = entry[q.a] /\ m.a = q.a)
           /\ Within(entry[q.a]) /\ (entry[q.a].status = "none" => Untouched(entry[q.a])) /\ m.a # None
                => Works(entry[q.a], m)
<1> DEFINE d == entry[q.a]
           asked == IF q.op = "start" THEN Channels ELSE {q.c}
           cs == {c \in asked : d.ch[c].status = "blocked"}
           t == InOrder(cs)
           l == Lifting(q, d, t)
<1>1. m = IF d.status = "none" THEN IF q.op = "start" THEN To(q, "proof") ELSE Idle
          ELSE IF t = << >> THEN Admitted(l) ELSE l
  BY DEF Loaded, Lifting, To
<1>2. cs \in SUBSET Channels /\ \A c \in cs : d.ch[c].status = "blocked"
  BY DEF Addressed
<1> HIDE DEF cs
<1>3. t \in Todos /\ \A c \in ToSet(t) : d.ch[c].status = "blocked"
  BY <1>2, Ordered
<1> HIDE DEF t
<1>4. /\ l \in RequestDoc /\ Addressed(l) /\ (t # << >> => RequestOK(l))
      /\ l.pc = "lift" /\ l.a = q.a /\ l.doc = d /\ l.todo = t
  BY <1>3, LiftingType
<1> HIDE DEF l
<1>5. CASE d.status = "none" /\ q.op # "start"
  BY <1>1, <1>5, IdleType
<1>6. CASE d.status = "none" /\ q.op = "start"
  <2>1. m \in RequestDoc /\ m.pc = "proof" /\ m.a = q.a /\ m.doc = NoEntry /\ m.op = "start"
    BY <1>1, <1>6, ToType DEF Pcs
  <2>2. RequestOK(m)
    BY <2>1, Limits DEF Addressed, RequestOK, OnChannel
  <2>3. Untouched(d) => Tracks(NoEntry, d)
    BY NoEntryType DEF Untouched, Tracks
  <2>4. Untouched(d) => Works(d, m)
    BY <2>1, <2>3, NoEntryType DEF Works, OnChannel, OnSubmission
  <2> QED
    BY <1>6, <2>1, <2>2, <2>4
<1>7. CASE d.status # "none" /\ t = << >>
  <2>1. m = Admitted(l) /\ Tracks(d, d)
    BY <1>1, <1>7, SelfTracks
  <2> HIDE DEF d
  <2>2. /\ m \in RequestDoc /\ RequestOK(m) /\ m.a \in {l.a, None}
        /\ m.doc = NoEntry \/ (m.doc = l.doc /\ m.a = l.a)
        /\ Tracks(l.doc, d) /\ Within(d) /\ l.doc.status # "none" /\ d.status # "none"
             /\ m.a # None => Works(d, m)
    BY <1>4, <2>1, AdmittedOK
  <2>3. d = entry[q.a]
    BY DEF d
  <2> QED
    BY <1>4, <1>7, <2>1, <2>2, <2>3
<1>8. CASE d.status # "none" /\ t # << >>
  <2>1. m = l /\ Tracks(d, d)
    BY <1>1, <1>8, SelfTracks
  <2>2. Works(d, m)
    BY <1>3, <1>4, <1>8, <2>1 DEF Works, OnChannel, OnSubmission
  <2> QED
    BY <1>4, <1>8, <2>1, <2>2
<1> QED
  BY <1>5, <1>6, <1>7, <1>8

LEMMA BeginStep ==
    ASSUME IndInv, NEW r \in Requests, Begin(r)
    PROVE  IndInv' /\ (InTurn /\ TurnInv => TurnInv' /\ Kept)
<1>1. PICK a \in Addresses, op \in {"start", "verify", "resend"},
           c \in Channels \cup {None}, p \in Phones \cup {None} :
         /\ req' = [req EXCEPT ![r] = Loaded(Asking(a, op, c, p))]
         /\ "overlap" \in Liberties \/ \A q \in Requests : req[q].a # a
         /\ op # "start" => c \in Channels
  BY DEF Begin
<1> DEFINE q == Asking(a, op, c, p)
           e == entry[a]
<1>2. q \in RequestDoc /\ Addressed(q) /\ q.a = a /\ q.doc = NoEntry
  BY <1>1, AskingType
<1> HIDE DEF q
<1>3. PICK m : m = Loaded(q)
  OBVIOUS
<1>4. e \in EntryDoc
  BY Typed
<1>5. /\ m \in RequestDoc /\ RequestOK(m) /\ m.a \in {a, None}
      /\ m.doc = NoEntry \/ (m.doc = e /\ m.a = a)
      /\ Within(e) /\ (e.status = "none" => Untouched(e)) /\ m.a # None => Works(e, m)
  BY <1>2, <1>3, <1>4, LoadedOK
<1>6. req' = [req EXCEPT ![r] = m] /\ UNCHANGED <<mode, entry, code, mailed, batch>>
  BY <1>1, <1>3 DEF q, Begin, Keep
<1>7. entry' = [entry EXCEPT ![a] = e] /\ Stays(a, e, e) /\ (e.status \in InvitedStatus => a \in mailed)
  BY <1>6, Typed DEF Stays, MailInv, InvitedWasMailed, InvitedStatus
<1>8. m.doc.status \in InvitedStatus => m.a \in mailed
  BY <1>5, <1>7, NoEntryType DEF InvitedStatus
<1>9. code' \in [Addresses -> [Channels -> CodeSlot]]
  BY <1>6, Typed
<1> HIDE DEF e
<1>10. Does(r, a, e, m)
  BY <1>4, <1>5, <1>6, <1>7, <1>8, <1>9, Typed DEF e, Does
<1>11. InTurn /\ TurnInv => Judged(r, a, e, m)
  <2> SUFFICES ASSUME InTurn, TurnInv PROVE Judged(r, a, e, m)
    OBVIOUS
  <2>1. \A o \in Requests : req[o].a # a
    BY <1>1 DEF InTurn
  <2>2. Within(e) /\ (e.status = "none" => Untouched(e))
    BY DEF TurnInv, e
  <2>3. e = entry[a]
    BY DEF e
  <2> QED
    BY <1>5, <1>7, <2>1, <2>2, <2>3 DEF Judged
<1> QED
  BY <1>10, <1>11, DoesKeeps, JudgedKeeps

LEMMA FinishStep ==
    ASSUME IndInv, NEW r \in Requests, req[r].pc # "idle", Finish(r), UNCHANGED <<entry, code>>, Keep
    PROVE  IndInv' /\ (TurnInv => TurnInv' /\ Kept)
BY IdleType, Typed, Proceeds DEF Finish, Keep

\* One channel of the entry is rewritten, and it is not a verified one, or
\* stays verified.
LEMMA ChannelWritten ==
    ASSUME NEW a \in Addresses, NEW e \in EntryDoc, NEW c \in Channels, NEW x \in ChannelDoc,
           Within(e), e.status # "none",
           x.total <= MaxTotalAttempts, x.resends <= MaxTotalResends,
           e.ch[c].status = "verified" => x.status = "verified",
           x.status = "verified" => x.total < MaxTotalAttempts /\ x.resends < MaxTotalResends
    PROVE  LET f == Put(e, c, x) IN
           Within(f) /\ f.status # "none" /\ Stays(a, e, f)
<1> DEFINE f == Put(e, c, x)
<1>1. /\ f \in EntryDoc /\ f.status = e.status /\ f.phone = e.phone /\ f.ch[c] = x
      /\ \A k \in Channels \ {c} : f.ch[k] = e.ch[k]
  BY PutType
<1> HIDE DEF f
<1>2. x.total \in Nat /\ x.resends \in Nat
  BY DEF ChannelDoc
<1>3. Within(f)
  BY <1>1, <1>2, Limits DEF Within, UsedUp
<1>4. Stays(a, e, f)
  BY <1>1 DEF Stays
<1> QED
  BY <1>1, <1>3, <1>4 DEF f

LEMMA LiftStep ==
    ASSUME IndInv, NEW r \in Requests, Lift(r)
    PROVE  IndInv' /\ (TurnInv => TurnInv' /\ Kept)
<1> DEFINE q == req[r]
           a == q.a
           c == Head(q.todo)
           t == Tail(q.todo)
           e == entry[a]
           x == [e.ch[c] EXCEPT !.status = "unverified", !.resends = 0]
           f == Put(e, c, x)
           n == [q EXCEPT !.todo = t]
           m == IF n.todo = << >> THEN Admitted(n) ELSE n
<1>1. q.pc = "lift"
  BY DEF Lift
<1>2. /\ q \in RequestDoc /\ RequestOK(q) /\ Addressed(q) /\ a # None /\ a \in Addresses /\ e \in EntryDoc
      /\ e.status \in InvitedStatus => a \in mailed
      /\ TurnInv => Within(e) /\ Works(e, q)
  BY <1>1, Busy
<1>3. CASE Finish(r) /\ UNCHANGED entry
  BY <1>1, <1>3, FinishStep DEF Lift
<1>4. CASE entry' = [entry EXCEPT ![a].ch[c] = x] /\ req' = [req EXCEPT ![r] = m]
  <2>1. c \in Channels /\ c \in ToSet(q.todo) /\ t \in Todos /\ ToSet(t) \subseteq ToSet(q.todo)
    BY <1>1, <1>2, Shorter DEF RequestOK, RequestDoc
  <2>2. e.ch[c] \in ChannelDoc
    BY <1>2, <2>1 DEF EntryDoc
  <2>3. x \in ChannelDoc /\ x.status = "unverified" /\ x.resends = 0 /\ x.total = e.ch[c].total
    BY <2>2 DEF ChannelDoc
  <2>5. n \in RequestDoc /\ Addressed(n) /\ n.a = a /\ n.pc = "lift" /\ n.todo = t /\ n.doc = q.doc
    BY <1>1, <1>2, <2>1 DEF RequestDoc, Addressed
  <2>6. t # << >> => RequestOK(n)
    BY <2>5, Limits DEF RequestOK, Addressed, OnChannel
  <2> HIDE DEF x, n
  <2>4. entry' = [entry EXCEPT ![a] = f]
    BY <1>4, Zenon DEF Put
  <2>7. /\ f \in EntryDoc /\ f.status = e.status /\ f.phone = e.phone /\ f.ch[c] = x
        /\ \A k \in Channels \ {c} : f.ch[k] = e.ch[k]
    BY <1>2, <2>1, <2>3, PutType
  <2>8. TurnInv => /\ Within(f) /\ f.status # "none" /\ Stays(a, e, f)
                   /\ Tracks(q.doc, f) /\ q.doc.status # "none"
                   /\ \A k \in ToSet(t) : q.doc.ch[k].status = "blocked"
    <3> SUFFICES ASSUME TurnInv
                 PROVE  /\ Within(f) /\ f.status # "none" /\ Stays(a, e, f)
                        /\ Tracks(q.doc, f) /\ q.doc.status # "none"
                        /\ \A k \in ToSet(t) : q.doc.ch[k].status = "blocked"
      OBVIOUS
    <3>1. /\ Within(e) /\ e.status # "none" /\ Tracks(q.doc, e) /\ q.doc.status # "none"
          /\ \A k \in ToSet(q.todo) : q.doc.ch[k].status = "blocked"
      BY <1>1, <1>2 DEF Works, OnSubmission
    <3>2. e.ch[c].status # "verified"
      BY <2>1, <3>1 DEF Tracks
    <3> HIDE DEF e, c
    <3>3. x.total <= MaxTotalAttempts /\ x.resends <= MaxTotalResends
      BY <2>1, <2>3, <3>1, Limits DEF Within
    <3>4. Within(f) /\ f.status # "none" /\ Stays(a, e, f)
      BY <1>2, <2>1, <2>3, <3>1, <3>2, <3>3, ChannelWritten
    <3> HIDE DEF f
    <3>5. Tracks(q.doc, f)
      BY <2>1, <2>3, <2>7, <3>1 DEF Tracks
    <3> QED
      BY <2>1, <3>1, <3>4, <3>5
  <2>9. PICK o : o = m
    OBVIOUS
  <2> HIDE DEF f
  <2>10. /\ o \in RequestDoc /\ RequestOK(o) /\ o.a \in {a, None}
         /\ o.doc = NoEntry \/ (o.doc = q.doc /\ o.a = a)
         /\ TurnInv /\ o.a # None => Works(f, o)
    <3>1. CASE t = << >>
      <4>1. o = Admitted(n)
        BY <2>5, <2>9, <3>1
      <4> QED
        BY <2>5, <2>7, <2>8, <4>1, AdmittedOK
    <3>2. CASE t # << >>
      <4>1. o = n
        BY <2>5, <2>9, <3>2
      <4>2. TurnInv => Works(f, n)
        BY <2>5, <2>8 DEF Works, OnChannel, OnSubmission
      <4> QED
        BY <2>5, <2>6, <3>2, <4>1, <4>2
    <3> QED
      BY <3>1, <3>2
  <2>11. req' = [req EXCEPT ![r] = o] /\ UNCHANGED <<mode, mailed, batch>> /\ code' \in [Addresses -> [Channels -> CodeSlot]]
    BY <1>4, <2>9, Typed DEF Lift, Keep
  <2> QED
    BY <1>1, <1>2, <2>4, <2>7, <2>8, <2>10, <2>11, Acts
<1>5. \/ Finish(r) /\ UNCHANGED entry
      \/ entry' = [entry EXCEPT ![a].ch[c] = x] /\ req' = [req EXCEPT ![r] = m]
  BY DEF Lift
<1> QED
  BY <1>3, <1>4, <1>5

\* A step that rewrites one channel of an entry.
LEMMA ActsOnChannel ==
    ASSUME IndInv, NEW r \in Requests, req[r].pc # "idle",
           NEW c \in Channels, NEW x \in ChannelDoc, NEW f, f = Put(entry[req[r].a], c, x),
           NEW m \in RequestDoc, RequestOK(m), m.a \in {req[r].a, None},
           m.doc = NoEntry \/ (m.doc = req[r].doc /\ m.a = req[r].a),
           entry' = [entry EXCEPT ![req[r].a] = f], req' = [req EXCEPT ![r] = m],
           UNCHANGED code, Keep,
           TurnInv => /\ entry[req[r].a].status # "none"
                      /\ x.total <= MaxTotalAttempts /\ x.resends <= MaxTotalResends
                      /\ entry[req[r].a].ch[c].status = "verified" => x.status = "verified"
                      /\ x.status = "verified" => x.total < MaxTotalAttempts /\ x.resends < MaxTotalResends
                      /\ m.a # None => Works(f, m)
    PROVE  IndInv' /\ (TurnInv => TurnInv' /\ Kept)
<1>1. PICK e : e = entry[req[r].a]
  OBVIOUS
<1>2. /\ e \in EntryDoc /\ req[r].a \in Addresses /\ (e.status \in InvitedStatus => req[r].a \in mailed)
      /\ TurnInv => Within(e)
  BY <1>1, Busy
<1>3. f \in EntryDoc /\ f.status = e.status
  BY <1>1, <1>2, PutType
<1>4. TurnInv => Within(f) /\ f.status # "none" /\ Stays(req[r].a, e, f)
  BY <1>1, <1>2, ChannelWritten
<1>5. code' \in [Addresses -> [Channels -> CodeSlot]] /\ UNCHANGED <<mode, mailed, batch>>
  BY Typed DEF Keep
<1> QED
  BY <1>1, <1>2, <1>3, <1>4, <1>5, Acts

LEMMA BarStep ==
    ASSUME IndInv, NEW r \in Requests, Bar(r)
    PROVE  IndInv' /\ (TurnInv => TurnInv' /\ Kept)
<1> DEFINE c == req[r].c
           e == entry[req[r].a]
           x == [e.ch[c] EXCEPT !.status = "blocked", !.barred = TRUE, !.expires = FALSE]
           f == Put(e, c, x)
<1>1. req[r].pc = "bar" /\ Finish(r) /\ UNCHANGED code /\ Keep
  BY DEF Bar
<1>2. e \in EntryDoc /\ c \in Channels /\ (TurnInv => Within(e) /\ Works(e, req[r]))
  BY <1>1, Busy DEF RequestOK
<1>3. e.ch[c] \in ChannelDoc
  BY <1>2 DEF EntryDoc
<1>4. x \in ChannelDoc /\ x.status = "blocked" /\ x.total = e.ch[c].total /\ x.resends = e.ch[c].resends
  BY <1>3 DEF ChannelDoc
<1>5. entry' = [entry EXCEPT ![req[r].a].ch[c] = x]
  BY DEF Bar
<1> HIDE DEF x
<1>6. entry' = [entry EXCEPT ![req[r].a] = f]
  BY <1>5, Zenon DEF Put
<1>7. TurnInv => /\ e.status # "none" /\ e.ch[c].status # "verified"
                 /\ x.total <= MaxTotalAttempts /\ x.resends <= MaxTotalResends
  <2> HIDE DEF e
  <2> QED
    BY <1>1, <1>2, <1>4 DEF Works, Within, OnSubmission
<1> HIDE DEF f
<1> QED
  BY <1>1, <1>2, <1>4, <1>6, <1>7, IdleType, ActsOnChannel DEF f, Finish

\* A channel whose verification the submission leaves as it is needs no code.
LEMMA ProofStep ==
    ASSUME IndInv, NEW r \in Requests, Proof(r), req[r].op = "start"
    PROVE  IndInv' /\ (TurnInv => TurnInv' /\ Kept)
<1> DEFINE q == req[r]
           done == {c \in Channels :
                      \/ c = "email" /\ q.a \in contact
                      \/ q.doc.ch[c].status = "verified" /\ (c = "phone" => q.doc.phone = q.phone)}
           t == InOrder(Channels \ done)
<1>1. PICK pc \in {"clear", "save"} : req' = [req EXCEPT ![r] = [q EXCEPT !.pc = pc, !.todo = t]]
  <2>1. req' = [req EXCEPT ![r].pc = IF done # {} THEN "clear" ELSE "save", ![r].todo = t]
    BY DEF Proof
  <2> HIDE DEF t, done
  <2> QED
    BY <2>1, Typed
<1>2. q.pc = "proof" /\ UNCHANGED <<entry, code, line>> /\ Keep
  BY DEF Proof
<1>3. /\ q \in RequestDoc /\ RequestOK(q) /\ q.a \in Addresses
      /\ TurnInv => Works(entry[q.a], q)
  BY <1>2, Busy
<1>4. t \in Todos /\ ToSet(t) = Channels \ done
  <2> HIDE DEF done
  <2> QED
    BY Ordered
<1> DEFINE m == [q EXCEPT !.pc = pc, !.todo = t]
<1>5. /\ m \in RequestDoc /\ m.pc = pc /\ m.todo = t /\ m.a = q.a /\ m.doc = q.doc /\ m.op = q.op
      /\ m.phone = q.phone
  <2> HIDE DEF t
  <2> QED
    BY <1>3, <1>4 DEF RequestDoc, Pcs
<1>6. req' = [req EXCEPT ![r] = m]
  BY <1>1
<1> HIDE DEF m
<1>7. RequestOK(m)
  BY <1>2, <1>3, <1>5 DEF RequestOK, OnChannel
<1>8. ASSUME TurnInv PROVE Works(entry[q.a], m)
  <2>1. /\ Tracks(q.doc, entry[q.a]) /\ \A c \in Channels : ~UsedUp(q.doc, c)
    BY <1>2, <1>3, <1>8 DEF Works, OnSubmission
  <2>2. ASSUME NEW c \in Channels, entry[q.a].ch[c].status = "verified",
               c = "phone" => entry[q.a].phone = q.phone
        PROVE  c \notin ToSet(t)
    BY <1>4, <2>1, <2>2 DEF Tracks
  <2> HIDE DEF t
  <2> QED
    BY <1>5, <2>1, <2>2 DEF Works, OnSubmission, OnChannel
<1>9. code' \in [Addresses -> [Channels -> CodeSlot]] /\ UNCHANGED <<mode, mailed, batch>>
  BY <1>2, Typed DEF Keep
<1> QED
  BY <1>2, <1>5, <1>6, <1>7, <1>8, <1>9, Proceeds

LEMMA ClearStep ==
    ASSUME IndInv, NEW r \in Requests, Clear(r), req[r].op = "start"
    PROVE  IndInv' /\ (TurnInv => TurnInv' /\ Kept)
<1> DEFINE q == req[r]
           m == To(q, "save")
           slots == [c \in Channels |-> IF c \in ToSet(q.todo) THEN code[q.a][c] ELSE NoCode]
<1>1. /\ q.pc = "clear" /\ UNCHANGED <<entry, line>> /\ Keep
      /\ code' = [code EXCEPT ![q.a] = slots] /\ req' = [req EXCEPT ![r] = m]
  BY DEF Clear, Goto, To
<1>2. /\ q \in RequestDoc /\ RequestOK(q) /\ q.a \in Addresses
      /\ TurnInv => Works(entry[q.a], q)
  BY <1>1, Busy
<1>3. slots \in [Channels -> CodeSlot]
  <2>1. NoCode \in CodeSlot
    BY Limits DEF NoCode, CodeSlot
  <2>2. code[q.a] \in [Channels -> CodeSlot]
    BY <1>2, Typed
  <2> QED
    BY <2>1, <2>2
<1> HIDE DEF slots
<1>4. code' \in [Addresses -> [Channels -> CodeSlot]] /\ UNCHANGED <<mode, mailed, batch>>
  BY <1>1, <1>2, <1>3, Typed DEF Keep
<1>5. /\ m \in RequestDoc /\ m.pc = "save" /\ m.todo = q.todo /\ m.a = q.a /\ m.doc = q.doc /\ m.op = q.op
      /\ m.phone = q.phone
  BY <1>2, ToType DEF Pcs
<1> HIDE DEF m
<1>6. RequestOK(m)
  BY <1>1, <1>2, <1>5 DEF RequestOK, OnChannel
<1>7. TurnInv => Works(entry[q.a], m)
  BY <1>1, <1>2, <1>5 DEF Works, OnSubmission, OnChannel
<1> QED
  BY <1>1, <1>4, <1>5, <1>6, <1>7, Proceeds

\* A request about to send a code.
Sending(q, c, k) == [q EXCEPT !.pc = "set", !.doc = NoEntry, !.c = c, !.code = k]

LEMMA SendingType ==
    ASSUME NEW q \in RequestDoc, Addressed(q), NEW c \in Channels, NEW k \in Addresses \cup Phones \cup {None}
    PROVE  LET m == Sending(q, c, k) IN
           /\ m \in RequestDoc /\ RequestOK(m) /\ m.pc = "set" /\ m.a = q.a /\ m.doc = NoEntry
<1>1. NoEntry \in EntryDoc
  BY NoEntryType
<1> HIDE DEF NoEntry
<1> DEFINE n == [q EXCEPT !.pc = "set", !.doc = NoEntry]
           m == [n EXCEPT !.c = c, !.code = k]
<1>2. n \in RequestDoc /\ n.pc = "set" /\ n.a = q.a /\ n.doc = NoEntry /\ n.op = q.op
  BY <1>1 DEF RequestDoc, Pcs
<1>3. Sending(q, c, k) = m
  BY DEF Sending
<1> HIDE DEF n
<1>4. m \in RequestDoc /\ m.pc = "set" /\ m.a = q.a /\ m.doc = NoEntry /\ m.op = q.op /\ m.c = c
  BY <1>2 DEF RequestDoc
<1> HIDE DEF m
<1>5. RequestOK(m)
  BY <1>4, Limits DEF RequestOK, Addressed, OnChannel
<1> QED
  BY <1>3, <1>4, <1>5

\* Neither the totals nor the verifications the submission goes by have changed
\* since it looked.
LEMMA SaveStep ==
    ASSUME IndInv, NEW r \in Requests, Save(r), req[r].op = "start"
    PROVE  IndInv' /\ (TurnInv => TurnInv' /\ Kept)
<1> DEFINE q == req[r]
           e == entry[q.a]
           sends == ToSet(q.todo)
           status == IF q.doc.status \in {"invited", "activated"} THEN q.doc.status ELSE "pending-cohort"
           chs == [c \in Channels |-> Resubmitted(e.ch[c], c \in sends)]
           f == Submitted(e, q)
           k == IF Head(q.todo) = "email" THEN q.a ELSE q.phone
<1>1. q.pc = "save" /\ UNCHANGED code /\ Keep
  BY DEF Save
<1>2. /\ q \in RequestDoc /\ RequestOK(q) /\ Addressed(q) /\ q.a \in Addresses /\ e \in EntryDoc
      /\ q.doc.status \in InvitedStatus => q.a \in mailed
      /\ TurnInv => Works(e, q) /\ Within(e)
  BY <1>1, Busy
<1>3. /\ entry' = [entry EXCEPT ![q.a] = f]
      /\ req' = [req EXCEPT ![r] = IF sends = {} THEN Idle ELSE Sending(q, Head(q.todo), k)]
  <2>1. entry' = [entry EXCEPT ![q.a] = f]
    BY DEF Save
  <2>2. CASE sends = {}
    BY <2>1, <2>2 DEF Save, Finish
  <2>3. CASE sends # {}
    <3>1. req' = [req EXCEPT ![r].pc = "set", ![r].doc = NoEntry, ![r].c = Head(q.todo), ![r].code = k]
      BY <2>3 DEF Save
    <3>2. Sending(q, Head(q.todo), k) = [q EXCEPT !.pc = "set", !.doc = NoEntry, !.c = Head(q.todo), !.code = k]
      BY DEF Sending
    <3> HIDE DEF k, NoEntry
    <3>3. req' = [req EXCEPT ![r] = [q EXCEPT !.pc = "set", !.doc = NoEntry, !.c = Head(q.todo), !.code = k]]
      BY <3>1, Typed
    <3> QED
      BY <2>1, <2>3, <3>2, <3>3
  <2> QED
    BY <2>2, <2>3
<1>4. /\ chs \in [Channels -> ChannelDoc]
      /\ \A c \in Channels : /\ chs[c].total = e.ch[c].total /\ chs[c].resends = e.ch[c].resends
                             /\ chs[c].status = IF c \in sends THEN "unverified" ELSE "verified"
  <2>1. \A c \in Channels : e.ch[c] \in ChannelDoc
    BY <1>2 DEF EntryDoc
  <2>2. \A c \in Channels : chs[c] = Resubmitted(e.ch[c], c \in sends)
    OBVIOUS
  <2>3. ASSUME NEW x \in ChannelDoc, NEW s \in BOOLEAN
        PROVE  /\ Resubmitted(x, s) \in ChannelDoc
               /\ Resubmitted(x, s).total = x.total /\ Resubmitted(x, s).resends = x.resends
               /\ Resubmitted(x, s).status = IF s THEN "unverified" ELSE "verified"
    BY <2>3 DEF Resubmitted, ChannelDoc
  <2>4. \A c \in Channels : (c \in sends) \in BOOLEAN
    OBVIOUS
  <2>5. \A c \in Channels : chs[c] \in ChannelDoc
    BY <2>1, <2>2, <2>3, <2>4
  <2> QED
    BY <2>1, <2>2, <2>3, <2>4, <2>5, ZenonT(30)
<1> HIDE DEF chs
<1>5. /\ f \in EntryDoc /\ f.status = status /\ f.phone = q.phone /\ f.ch = chs
      /\ f.status # "none" /\ (f.status \in InvitedStatus => q.a \in mailed)
  <2>1. /\ status \in {"pending-cohort", "invited", "activated"} /\ q.phone \in Phones \cup {None}
        /\ status \in InvitedStatus => q.a \in mailed
    BY <1>2 DEF RequestDoc, InvitedStatus
  <2>2. f = [e EXCEPT !.status = status, !.phone = q.phone, !.ch = chs]
    BY DEF Submitted, chs
  <2> HIDE DEF e, status, f
  <2> QED
    BY <1>2, <1>4, <2>1, <2>2 DEF EntryDoc
<1> HIDE DEF f
<1>6. ASSUME TurnInv PROVE Within(f) /\ Stays(q.a, e, f)
  <2>1. /\ Tracks(q.doc, e) /\ Within(e) /\ \A c \in Channels : ~UsedUp(q.doc, c)
        /\ \A c \in Channels : e.ch[c].status = "verified" /\ (c = "phone" => e.phone = q.phone) => c \notin sends
    BY <1>1, <1>2, <1>6 DEF Works, OnSubmission
  <2>2. q.doc \in EntryDoc /\ \A c \in Channels : q.doc.ch[c] \in ChannelDoc /\ e.ch[c] \in ChannelDoc
    BY <1>2 DEF RequestDoc, EntryDoc
  <2>3. \A c \in Channels : ~UsedUp(e, c)
    <3> HIDE DEF e, q
    <3> QED
      BY <2>1, <2>2, Limits DEF Tracks, UsedUp, ChannelDoc
  <2>4. Within(f)
    BY <1>4, <1>5, <2>1, <2>3 DEF Within, UsedUp
  <2>5. Stays(q.a, e, f)
    <3> SUFFICES ASSUME NEW c \in Channels, e.ch[c].status = "verified", Target(f, q.a, c) = Target(e, q.a, c)
                 PROVE  f.ch[c].status = "verified"
      BY DEF Stays
    <3>1. c = "phone" => e.phone = q.phone
      BY <1>5 DEF Target
    <3> QED
      BY <1>4, <1>5, <2>1, <3>1
  <2> QED
    BY <2>4, <2>5
<1>7. PICK m : m = IF sends = {} THEN Idle ELSE Sending(q, Head(q.todo), k)
  OBVIOUS
<1>8. /\ m \in RequestDoc /\ RequestOK(m) /\ m.a \in {q.a, None} /\ m.doc = NoEntry
      /\ m.a # None => m.pc = "set"
  <2>1. CASE sends = {}
    BY <1>7, <2>1, IdleType
  <2>2. CASE sends # {}
    <3>1. Head(q.todo) \in Channels
      BY <1>2, <2>2, Shorter, Lists DEF RequestDoc
    <3>2. k \in Addresses \cup Phones \cup {None}
      BY <1>2 DEF RequestDoc
    <3> HIDE DEF k
    <3> QED
      BY <1>2, <1>7, <2>2, <3>1, <3>2, SendingType
  <2> QED
    BY <2>1, <2>2
<1>9. m.a # None => Works(f, m)
  BY <1>5, <1>8 DEF Works, OnSubmission, OnChannel
<1>10. code' \in [Addresses -> [Channels -> CodeSlot]] /\ UNCHANGED <<mode, mailed, batch>>
  BY <1>1, Typed DEF Keep
<1>11. req' = [req EXCEPT ![r] = m] /\ e = entry[q.a]
  BY <1>3, <1>7
<1> HIDE DEF e, sends, k
<1> QED
  BY <1>1, <1>2, <1>3, <1>5, <1>6, <1>8, <1>9, <1>10, <1>11, Acts

\* Redis: one slot is rewritten.
LEMMA SlotWritten ==
    ASSUME IndInv, NEW a \in Addresses, NEW c \in Channels, NEW x \in CodeSlot,
           code' = [code EXCEPT ![a][c] = x]
    PROVE  code' \in [Addresses -> [Channels -> CodeSlot]]
BY Typed

LEMMA SlotType ==
    ASSUME IndInv, NEW a \in Addresses, NEW c \in Channels
    PROVE  code[a][c] \in CodeSlot
BY Typed

\* A step that only moves a request on, at a channel of an entry that is there.
LEMMA GoesOn ==
    ASSUME IndInv, NEW r \in Requests, req[r].pc # "idle", req[r].c \in Channels,
           NEW pc \in Pcs \ {"idle", "lift"}, Goto(r, pc), UNCHANGED entry, Keep,
           code' \in [Addresses -> [Channels -> CodeSlot]],
           pc \in OnChannel => req[r].pc \in OnChannel,
           pc = "reset" => req[r].pc = "set",
           pc = "bar" => req[r].pc \in OnChannel,
           pc \notin OnSubmission \cup {"reload"}, req[r].pc \notin OnSubmission
    PROVE  IndInv' /\ (TurnInv => TurnInv' /\ Kept)
<1> DEFINE q == req[r]
           m == To(q, pc)
<1>1. /\ q \in RequestDoc /\ RequestOK(q) /\ Addressed(q) /\ q.a \in Addresses
      /\ TurnInv => Works(entry[q.a], q)
  BY Busy
<1>2. req' = [req EXCEPT ![r] = m]
  BY DEF Goto, To
<1>3. m \in RequestDoc /\ m.pc = pc /\ m.a = q.a /\ m.doc = q.doc /\ m.op = q.op /\ m.c = q.c
  BY <1>1, ToType
<1> HIDE DEF m
<1>4. RequestOK(m)
  BY <1>1, <1>3, Limits DEF RequestOK, OnChannel, Addressed
<1>5. ASSUME TurnInv PROVE Works(entry[q.a], m)
  <2>1. Works(entry[q.a], q)
    BY <1>1, <1>5
  <2>2. q.pc \in OnChannel => entry[q.a].ch[q.c].status # "verified"
    BY <2>1 DEF Works, Tracks
  <2> QED
    BY <1>3, <2>1, <2>2 DEF Works, OnSubmission, OnChannel, Pcs
<1> QED
  BY <1>1, <1>2, <1>3, <1>4, <1>5, Proceeds DEF Keep

LEMMA SendCodeSteps ==
    ASSUME IndInv, NEW r \in Requests, SetCode(r) \/ ResetTries(r)
    PROVE  IndInv' /\ (TurnInv => TurnInv' /\ Kept)
<1> DEFINE q == req[r]
           a == q.a
           c == q.c
<1>1. q.pc \in {"set", "reset"} /\ UNCHANGED entry /\ Keep
  BY DEF SetCode, ResetTries
<1>2. /\ q \in RequestDoc /\ RequestOK(q) /\ Addressed(q) /\ a \in Addresses /\ c \in Channels /\ a # None
      /\ TurnInv => Works(entry[a], q)
  BY <1>1, Busy DEF RequestOK
<1>3. code[a][c] \in CodeSlot
  BY <1>2, SlotType
<1>4. CASE SetCode(r)
  <2> DEFINE x == [code[a][c] EXCEPT !.sent = q.code]
  <2>1. x \in CodeSlot
    BY <1>2, <1>3 DEF CodeSlot, RequestDoc
  <2>2. code' = [code EXCEPT ![a][c] = x] /\ q.pc = "set" /\ Goto(r, "reset")
    BY <1>4 DEF SetCode
  <2> HIDE DEF x
  <2>3. code' \in [Addresses -> [Channels -> CodeSlot]]
    BY <1>2, <2>1, <2>2, SlotWritten
  <2> QED
    BY <1>1, <1>2, <2>2, <2>3, GoesOn DEF Pcs, OnChannel, OnSubmission
<1>5. CASE ResetTries(r)
  <2> DEFINE x == [code[a][c] EXCEPT !.tries = 0]
             m == [q EXCEPT !.pc = "set", !.todo = <<"phone">>, !.c = "phone", !.code = q.phone]
  <2>1. x \in CodeSlot
    BY <1>3, Limits DEF CodeSlot
  <2>2. code' = [code EXCEPT ![a][c] = x]
    BY <1>5 DEF ResetTries
  <2> HIDE DEF x
  <2>3. code' \in [Addresses -> [Channels -> CodeSlot]] /\ UNCHANGED <<mode, mailed, batch>>
    BY <1>1, <1>2, <2>1, <2>2, SlotWritten DEF Keep
  <2>4. CASE Finish(r)
    <3>1. req' = [req EXCEPT ![r] = Idle]
      BY <2>4 DEF Finish
    <3> QED
      BY <1>1, <1>2, <2>3, <3>1, IdleType, Proceeds
  <2>5. CASE req' = [req EXCEPT ![r].pc = "set", ![r].todo = <<"phone">>, ![r].c = "phone", ![r].code = q.phone]
    <3>1. req' = [req EXCEPT ![r] = m]
      BY <2>5, Typed
    <3>2. m \in RequestDoc /\ m.pc = "set" /\ m.a = a /\ m.doc = q.doc /\ m.op = q.op /\ m.c = "phone"
      BY <1>2 DEF RequestDoc, Pcs, Todos, Channels
    <3> HIDE DEF m
    <3>3. RequestOK(m)
      BY <1>2, <3>2, Limits DEF RequestOK, OnChannel, Addressed, Channels
    <3>4. TurnInv => Works(entry[a], m)
      BY <1>1, <1>2, <3>2 DEF Works, OnSubmission, OnChannel
    <3> QED
      BY <1>1, <1>2, <2>3, <3>1, <3>2, <3>3, <3>4, Proceeds
  <2> QED
    BY <1>5, <2>4, <2>5 DEF ResetTries
<1> QED
  BY <1>4, <1>5

LEMMA FetchStep ==
    ASSUME IndInv, NEW r \in Requests, Fetch(r)
    PROVE  IndInv' /\ (TurnInv => TurnInv' /\ Kept)
<1> DEFINE q == req[r]
           k == code[q.a][q.c].sent
           m == [q EXCEPT !.pc = "bump", !.code = k]
<1>1. q.pc = "fetch" /\ UNCHANGED <<entry, code>> /\ Keep
  BY DEF Fetch
<1>2. /\ q \in RequestDoc /\ RequestOK(q) /\ Addressed(q) /\ q.a \in Addresses /\ q.c \in Channels /\ q.a # None
      /\ TurnInv => Works(entry[q.a], q)
  BY <1>1, Busy DEF RequestOK, OnChannel, Addressed
<1>3. CASE Finish(r)
  BY <1>1, <1>3, FinishStep
<1>4. CASE req' = [req EXCEPT ![r].pc = "bump", ![r].code = k]
  <2>1. k \in Addresses \cup Phones \cup {None}
    BY <1>2, SlotType DEF CodeSlot
  <2> HIDE DEF k
  <2>2. req' = [req EXCEPT ![r] = m]
    BY <1>4, Typed
  <2>3. m \in RequestDoc /\ m.pc = "bump" /\ m.a = q.a /\ m.doc = q.doc /\ m.op = q.op /\ m.c = q.c
    BY <1>2, <2>1 DEF RequestDoc, Pcs
  <2> HIDE DEF m
  <2>4. RequestOK(m)
    BY <1>1, <1>2, <2>3, Limits DEF RequestOK, OnChannel, Addressed
  <2>5. TurnInv => Works(entry[q.a], m)
    BY <1>1, <1>2, <2>3 DEF Works, OnSubmission, OnChannel
  <2>6. code' \in [Addresses -> [Channels -> CodeSlot]] /\ UNCHANGED <<mode, mailed, batch>>
    BY <1>1, Typed DEF Keep
  <2> QED
    BY <1>1, <1>2, <2>2, <2>3, <2>4, <2>5, <2>6, Proceeds
<1> QED
  BY <1>3, <1>4 DEF Fetch

LEMMA TryCodeSteps ==
    ASSUME IndInv, NEW r \in Requests, Bump(r) \/ Forget(r)
    PROVE  IndInv' /\ (TurnInv => TurnInv' /\ Kept)
<1> DEFINE q == req[r]
           a == q.a
           c == q.c
<1>1. q.pc \in {"bump", "forget"} /\ UNCHANGED entry /\ Keep
  BY DEF Bump, Forget
<1>2. /\ q \in RequestDoc /\ a \in Addresses /\ c \in Channels /\ q.pc \in OnChannel
  BY <1>1, Busy DEF RequestOK, OnChannel, Addressed
<1>3. code[a][c] \in CodeSlot
  BY <1>2, SlotType
<1>4. CASE Bump(r)
  <2> DEFINE n == Smaller(code[a][c].tries + 1, MaxAttempts + 1)
             x == [code[a][c] EXCEPT !.tries = n]
  <2>1. n \in 0 .. MaxAttempts + 1
    BY <1>3, Limits DEF CodeSlot, Smaller
  <2>2. code' = [code EXCEPT ![a][c] = x] /\ \E pc \in {"over", "wrong", "forget"} : Goto(r, pc)
    BY <1>4 DEF Bump
  <2> HIDE DEF n
  <2>3. x \in CodeSlot
    BY <1>3, <2>1 DEF CodeSlot
  <2> HIDE DEF x
  <2>4. code' \in [Addresses -> [Channels -> CodeSlot]]
    BY <1>2, <2>2, <2>3, SlotWritten
  <2> QED
    BY <1>1, <1>2, <2>2, <2>4, GoesOn DEF Pcs, OnChannel, OnSubmission
<1>5. CASE Forget(r)
  <2>1. code' = [code EXCEPT ![a][c] = NoCode] /\ Goto(r, "confirm") /\ NoCode \in CodeSlot
    BY <1>5, Limits DEF Forget, NoCode, CodeSlot
  <2>2. code' \in [Addresses -> [Channels -> CodeSlot]]
    BY <1>2, <2>1, SlotWritten
  <2> QED
    BY <1>1, <1>2, <2>1, <2>2, GoesOn DEF Pcs, OnChannel, OnSubmission
<1> QED
  BY <1>4, <1>5

\* What a request that acts on a channel knows of it: it is not verified, and
\* there is one more to each total.
LEMMA OnChannelKnows ==
    ASSUME IndInv, NEW r \in Requests, req[r].pc \in OnChannel, TurnInv
    PROVE  LET e == entry[req[r].a]
               ch == e.ch[req[r].c] IN
           /\ e.status # "none" /\ req[r].doc.status # "none"
           /\ ch.status # "verified" /\ ch.total < MaxTotalAttempts /\ ch.resends < MaxTotalResends
           /\ \A k \in Channels : ~UsedUp(e, k)
<1> DEFINE q == req[r]
           e == entry[q.a]
<1>1. /\ q \in RequestDoc /\ q.c \in Channels /\ e \in EntryDoc /\ Works(e, q)
  BY Busy DEF RequestOK, OnChannel, Addressed
<1>2. /\ e.status # "none" /\ q.doc.status # "none" /\ Tracks(q.doc, e)
      /\ \A c \in Channels : ~UsedUp(q.doc, c)
      /\ q.doc.ch[q.c].status # "verified"
  BY <1>1 DEF Works, OnChannel, OnSubmission
<1>3. \A c \in Channels : q.doc.ch[c] \in ChannelDoc /\ e.ch[c] \in ChannelDoc
  BY <1>1 DEF RequestDoc, EntryDoc
<1> HIDE DEF e, q
<1>4. \A c \in Channels : ~UsedUp(e, c)
  BY <1>2, <1>3, Limits DEF Tracks, UsedUp, ChannelDoc
<1>5. e.ch[q.c].status # "verified"
  BY <1>1, <1>2 DEF Tracks
<1>6. e.ch[q.c].total < MaxTotalAttempts /\ e.ch[q.c].resends < MaxTotalResends
  BY <1>1, <1>3, <1>4, Limits DEF UsedUp, ChannelDoc
<1> QED
  BY <1>2, <1>4, <1>5, <1>6 DEF e, q

LEMMA CountedKeeps ==
    ASSUME NEW ch \in ChannelDoc
    PROVE  /\ Counted(ch) \in ChannelDoc /\ Counted(ch).status = ch.status
           /\ Counted(ch).total = ch.total + 1 /\ Counted(ch).resends = ch.resends
<1> DEFINE n == ch.total + 1
<1>1. n \in Nat
  BY DEF ChannelDoc
<1> HIDE DEF n
<1>2. [ch EXCEPT !.total = n] \in ChannelDoc
  BY <1>1 DEF ChannelDoc
<1>3. /\ [ch EXCEPT !.total = n].status = ch.status
      /\ [ch EXCEPT !.total = n].total = n
      /\ [ch EXCEPT !.total = n].resends = ch.resends
  BY DEF ChannelDoc
<1>4. Counted(ch) = [ch EXCEPT !.total = n]
  BY DEF Counted, n
<1> QED
  BY <1>2, <1>3, <1>4 DEF n

\* A wrong code, or one too many: the total grows by one.
LEMMA CountSteps ==
    ASSUME IndInv, NEW r \in Requests, Over(r) \/ Wrong(r)
    PROVE  IndInv' /\ (TurnInv => TurnInv' /\ Kept)
<1> DEFINE q == req[r]
           e == entry[q.a]
           c == q.c
           x == Counted(e.ch[c])
           f == Put(e, c, x)
<1>1. q.pc \in {"over", "wrong"} /\ UNCHANGED code /\ Keep
  BY DEF Over, Wrong
<1>2. /\ q \in RequestDoc /\ RequestOK(q) /\ Addressed(q) /\ q.a \in Addresses /\ q.a # None
      /\ c \in Channels /\ e \in EntryDoc /\ q.pc \in OnChannel
  BY <1>1, Busy DEF RequestOK, OnChannel, Addressed
<1>3. e.ch[c] \in ChannelDoc
  BY <1>2 DEF EntryDoc
<1>4. x \in ChannelDoc /\ x.status = e.ch[c].status /\ x.total = e.ch[c].total + 1 /\ x.resends = e.ch[c].resends
  BY <1>3, CountedKeeps
<1>5. TurnInv => /\ e.status # "none" /\ e.ch[c].status # "verified"
                 /\ e.ch[c].total < MaxTotalAttempts /\ e.ch[c].resends < MaxTotalResends
  BY <1>2, OnChannelKnows
<1>6. TurnInv => x.total <= MaxTotalAttempts /\ x.resends <= MaxTotalResends /\ x.status # "verified"
  <2>1. e.ch[c].total \in Nat /\ e.ch[c].resends \in Nat
    BY <1>3 DEF ChannelDoc
  <2> HIDE DEF e, c, x
  <2> QED
    BY <1>4, <1>5, <2>1, Limits
<1>7. PICK g : g = f
  OBVIOUS
<1>8. entry' = [entry EXCEPT ![q.a] = g]
  <2>1. CASE Over(r)
    <3>1. entry' = [entry EXCEPT ![q.a].ch[c] = x]
      BY <2>1 DEF Over
    <3> HIDE DEF x
    <3> QED
      BY <1>7, <3>1, Zenon DEF Put
  <2>2. CASE Wrong(r)
    <3>1. entry' = [entry EXCEPT ![q.a] = [e EXCEPT !.ch[c] = x]]
      BY <2>2 DEF Wrong
    <3> HIDE DEF x
    <3> QED
      BY <1>7, <3>1, Zenon DEF Put
  <2> QED
    BY <2>1, <2>2
<1>9. g \in EntryDoc /\ g.status = e.status /\ g.ch[c] = x /\ \A k \in Channels \ {c} : g.ch[k] = e.ch[k]
  <2> HIDE DEF e, c, x
  <2> QED
    BY <1>2, <1>4, <1>7, PutType
<1>10. PICK m : /\ m \in RequestDoc /\ RequestOK(m) /\ m.a \in {q.a, None}
                /\ m.doc = NoEntry \/ (m.doc = q.doc /\ m.a = q.a)
                /\ req' = [req EXCEPT ![r] = m]
                /\ TurnInv /\ m.a # None => Works(g, m)
  <2>1. CASE Over(r)
    <3> DEFINE m == To(q, "bar")
    <3>1. req' = [req EXCEPT ![r] = m]
      BY <2>1 DEF Over, Goto, To
    <3>2. m \in RequestDoc /\ m.pc = "bar" /\ m.a = q.a /\ m.doc = q.doc /\ m.op = q.op /\ m.c = c
      BY <1>2, ToType DEF Pcs
    <3> HIDE DEF m
    <3>3. RequestOK(m)
      BY <1>2, <3>2, Limits DEF RequestOK, OnChannel, Addressed
    <3>4. TurnInv => Works(g, m)
      BY <1>5, <1>6, <1>9, <3>2 DEF Works, OnSubmission, OnChannel
    <3> QED
      BY <3>1, <3>2, <3>3, <3>4
  <2>2. CASE Wrong(r)
    <3>1. req' = [req EXCEPT ![r] = IF Excess(g) = None THEN Idle ELSE Barred(q, Excess(g))]
      <4>1. [e EXCEPT !.ch[c] = x] = g
        BY <1>7 DEF Put
      <4> QED
        BY <2>2, <4>1 DEF Wrong, Barred
    <3>2. CASE Excess(g) = None
      BY <3>1, <3>2, IdleType
    <3>3. CASE Excess(g) # None
      <4>1. PICK k \in Channels : k = Excess(g) /\ UsedUp(g, k)
        BY <3>3 DEF Excess, Channels
      <4> DEFINE m == Barred(q, k)
      <4>2. /\ m \in RequestDoc /\ RequestOK(m) /\ m.pc = "bar" /\ m.c = k /\ m.a = q.a /\ m.doc = NoEntry
        BY <1>2, BarredType
      <4> HIDE DEF m
      <4>3. ASSUME TurnInv PROVE Works(g, m)
        <5>1. \A b \in Channels : ~UsedUp(e, b)
          BY <1>2, <4>3, OnChannelKnows
        <5>2. k = c
          BY <1>9, <4>1, <5>1 DEF UsedUp
        <5> QED
          BY <1>5, <1>6, <1>9, <4>2, <4>3, <5>2 DEF Works, OnSubmission, OnChannel
      <4>4. req' = [req EXCEPT ![r] = m]
        BY <3>1, <3>3, <4>1 DEF m
      <4> QED
        BY <4>2, <4>3, <4>4
    <3> QED
      BY <3>2, <3>3
  <2> QED
    BY <2>1, <2>2
<1> HIDE DEF x
<1>11. g = Put(entry[q.a], c, x)
  BY <1>7
<1> QED
  BY <1>1, <1>2, <1>4, <1>5, <1>6, <1>8, <1>10, <1>11, ActsOnChannel

\* A resend that may still be made: the total of resends grows by one.
LEMMA RenewStep ==
    ASSUME IndInv, NEW r \in Requests, Renew(r)
    PROVE  IndInv' /\ (TurnInv => TurnInv' /\ Kept)
<1> DEFINE q == req[r]
           e == entry[q.a]
           c == q.c
           k == Target(q.doc, q.a, c)
           x == Resent(e.ch[c])
           m == [q EXCEPT !.pc = "reload", !.code = k]
<1>1. q.pc = "renew" /\ UNCHANGED code /\ Keep
  BY DEF Renew
<1>2. /\ q \in RequestDoc /\ RequestOK(q) /\ Addressed(q) /\ q.a \in Addresses /\ q.a # None
      /\ c \in Channels /\ e \in EntryDoc /\ q.pc \in OnChannel
  BY <1>1, Busy DEF RequestOK, OnChannel, Addressed
<1>3. e.ch[c] \in ChannelDoc
  BY <1>2 DEF EntryDoc
<1>4. x \in ChannelDoc /\ x.status = e.ch[c].status /\ x.total = e.ch[c].total /\ x.resends = e.ch[c].resends + 1
  <2>1. ASSUME NEW y \in ChannelDoc
        PROVE  /\ Resent(y) \in ChannelDoc /\ Resent(y).status = y.status
               /\ Resent(y).total = y.total /\ Resent(y).resends = y.resends + 1
    <3> DEFINE z == [y EXCEPT !.expires = TRUE]
    <3>1. z \in ChannelDoc /\ z.status = y.status /\ z.total = y.total /\ z.resends = y.resends
      BY DEF ChannelDoc
    <3>2. Resent(y) = [z EXCEPT !.resends = y.resends + 1] /\ y.resends + 1 \in Nat
      BY DEF Resent, ChannelDoc
    <3> HIDE DEF z
    <3> QED
      BY <3>1, <3>2 DEF ChannelDoc
  <2> QED
    BY <1>3, <2>1
<1>5. TurnInv => /\ e.status # "none" /\ e.ch[c].status # "verified"
                 /\ e.ch[c].total < MaxTotalAttempts /\ e.ch[c].resends < MaxTotalResends
  BY <1>2, OnChannelKnows
<1>6. TurnInv => x.total <= MaxTotalAttempts /\ x.resends <= MaxTotalResends /\ x.status # "verified"
  <2>1. e.ch[c].total \in Nat /\ e.ch[c].resends \in Nat
    BY <1>3 DEF ChannelDoc
  <2> HIDE DEF e, c, x
  <2> QED
    BY <1>4, <1>5, <2>1, Limits
<1>7. PICK g : g = Put(e, c, x)
  OBVIOUS
<1>8. entry' = [entry EXCEPT ![q.a] = g]
  <2>1. entry' = [entry EXCEPT ![q.a].ch[c] = x]
    BY DEF Renew
  <2> HIDE DEF x
  <2> QED
    BY <1>7, <2>1, Zenon DEF Put
<1>9. g.status = e.status
  <2> HIDE DEF e, c, x
  <2> QED
    BY <1>2, <1>4, <1>7, PutType
<1>10. k \in Addresses \cup Phones \cup {None}
  BY <1>2 DEF Target, RequestDoc, EntryDoc
<1>11. req' = [req EXCEPT ![r] = m]
  <2>1. req' = [req EXCEPT ![r].pc = "reload", ![r].code = k]
    BY DEF Renew
  <2> HIDE DEF k
  <2> QED
    BY <2>1, Typed
<1>12. m \in RequestDoc /\ m.pc = "reload" /\ m.a = q.a /\ m.doc = q.doc /\ m.op = q.op /\ m.c = c
  <2> HIDE DEF k
  <2> QED
    BY <1>2, <1>10 DEF RequestDoc, Pcs
<1> HIDE DEF m
<1>13. RequestOK(m)
  BY <1>1, <1>2, <1>12, Limits DEF RequestOK, OnChannel, Addressed
<1>14. TurnInv => Works(g, m)
  BY <1>5, <1>9, <1>12 DEF Works, OnSubmission, OnChannel
<1> HIDE DEF x
<1>15. g = Put(entry[q.a], c, x)
  BY <1>7
<1> QED
  BY <1>1, <1>2, <1>4, <1>5, <1>6, <1>8, <1>11, <1>12, <1>13, <1>14, <1>15, ActsOnChannel

\* Whoever is over a total by now is blocked: a channel that has used one up
\* is not a verified one.
LEMMA ReloadStep ==
    ASSUME IndInv, NEW r \in Requests, Reload(r)
    PROVE  IndInv' /\ (TurnInv => TurnInv' /\ Kept)
<1> DEFINE q == req[r]
           e == entry[q.a]
           excess == Excess(e)
<1>1. q.pc = "reload" /\ UNCHANGED <<entry, code>> /\ Keep
  BY DEF Reload
<1>2. /\ q \in RequestDoc /\ RequestOK(q) /\ Addressed(q) /\ q.a \in Addresses /\ q.a # None
      /\ q.c \in Channels /\ e \in EntryDoc
      /\ TurnInv => Works(e, q) /\ Within(e)
  BY <1>1, Busy DEF RequestOK, Addressed, OnChannel
<1>3. excess = None \/ (excess \in Channels /\ UsedUp(e, excess))
  BY DEF Excess, Channels
<1>4. PICK c : c = IF excess = None THEN q.c ELSE excess
  OBVIOUS
<1>5. PICK pc : pc = IF excess = None THEN "set" ELSE "bar"
  OBVIOUS
<1>6. req' = [req EXCEPT ![r] = [q EXCEPT !.pc = pc, !.c = c, !.doc = NoEntry]]
  <2>1. req' = [req EXCEPT ![r].pc = pc, ![r].c = c, ![r].doc = NoEntry]
    BY <1>4, <1>5 DEF Reload
  <2> HIDE DEF NoEntry
  <2> QED
    BY <2>1, Typed
<1>7. c \in Channels /\ pc \in {"set", "bar"} /\ (pc = "bar" => UsedUp(e, c))
  BY <1>2, <1>3, <1>4, <1>5
<1> DEFINE m == [q EXCEPT !.pc = pc, !.c = c, !.doc = NoEntry]
<1>8. m \in RequestDoc /\ m.pc = pc /\ m.a = q.a /\ m.doc = NoEntry /\ m.op = q.op /\ m.c = c
  <2> DEFINE n == [q EXCEPT !.pc = pc, !.c = c]
  <2>1. NoEntry \in EntryDoc
    BY NoEntryType
  <2> HIDE DEF NoEntry
  <2>2. n \in RequestDoc /\ n.pc = pc /\ n.a = q.a /\ n.op = q.op /\ n.c = c
    BY <1>2, <1>7 DEF RequestDoc, Pcs
  <2>3. m = [n EXCEPT !.doc = NoEntry]
    OBVIOUS
  <2> HIDE DEF n, m
  <2> QED
    BY <2>1, <2>2, <2>3 DEF RequestDoc
<1>9. req' = [req EXCEPT ![r] = m]
  BY <1>6
<1> HIDE DEF m, excess
<1>10. RequestOK(m)
  BY <1>2, <1>7, <1>8, Limits DEF RequestOK, OnChannel, Addressed
<1>11. TurnInv => Works(e, m)
  BY <1>1, <1>2, <1>7, <1>8 DEF Works, Within, OnSubmission, OnChannel
<1>12. code' \in [Addresses -> [Channels -> CodeSlot]] /\ UNCHANGED <<mode, mailed, batch>>
  BY <1>1, Typed DEF Keep
<1> QED
  BY <1>1, <1>8, <1>9, <1>10, <1>11, <1>12, Proceeds

\* Verified at last: the channel had used up neither total.
LEMMA ConfirmStep ==
    ASSUME IndInv, NEW r \in Requests, Confirm(r)
    PROVE  IndInv' /\ (TurnInv => TurnInv' /\ Kept)
<1> DEFINE q == req[r]
           e == entry[q.a]
           c == q.c
           x == Proven(e.ch[c])
           g == Put(e, c, x)
           status == IF c = "email" THEN q.doc.status ELSE e.status
           f == [g EXCEPT !.status = status]
<1>1. q.pc = "confirm" /\ Finish(r) /\ UNCHANGED code /\ Keep
  BY DEF Confirm
<1>2. /\ q \in RequestDoc /\ RequestOK(q) /\ Addressed(q) /\ q.a \in Addresses /\ q.a # None
      /\ c \in Channels /\ e \in EntryDoc /\ q.pc \in OnChannel
      /\ q.doc.status \in InvitedStatus => q.a \in mailed
      /\ e.status \in InvitedStatus => q.a \in mailed
      /\ TurnInv => Within(e)
  BY <1>1, Busy DEF RequestOK, OnChannel, Addressed
<1>3. e.ch[c] \in ChannelDoc
  BY <1>2 DEF EntryDoc
<1>4. x \in ChannelDoc /\ x.status = "verified" /\ x.total = e.ch[c].total /\ x.resends = e.ch[c].resends
  BY <1>3 DEF ChannelDoc, Proven
<1>5. TurnInv => /\ e.status # "none" /\ q.doc.status # "none"
                 /\ e.ch[c].total < MaxTotalAttempts /\ e.ch[c].resends < MaxTotalResends
  BY <1>2, OnChannelKnows
<1>6. /\ status \in {"none", "pending-cohort", "invited", "activated"}
      /\ status \in InvitedStatus => q.a \in mailed
      /\ TurnInv => status # "none"
  BY <1>2, <1>5 DEF EntryDoc, RequestDoc
<1>7. entry' = [entry EXCEPT ![q.a] = f]
  <2>1. entry' = [entry EXCEPT ![q.a] = Confirmed(e, q)]
    BY DEF Confirm
  <2>2. Confirmed(e, q) = f
    <3>1. Confirmed(e, q) = [e EXCEPT !.status = status, !.ch[c] = x]
      BY DEF Confirmed
    <3> HIDE DEF x, status
    <3>2. f = [[e EXCEPT !.ch = [e.ch EXCEPT ![c] = x]] EXCEPT !.status = status]
      BY DEF Put
    <3> HIDE DEF f, g, e
    <3> QED
      BY <1>2, <3>1, <3>2 DEF EntryDoc
  <2> QED
    BY <2>1, <2>2
<1> HIDE DEF x, status
<1>8. /\ g \in EntryDoc /\ g.phone = e.phone /\ g.ch[c] = x
      /\ \A k \in Channels \ {c} : g.ch[k] = e.ch[k]
  <2> HIDE DEF e, c
  <2> QED
    BY <1>2, <1>4, PutType
<1> HIDE DEF g
<1>9. f \in EntryDoc /\ f.status = status /\ f.phone = e.phone /\ f.ch = g.ch
  BY <1>6, <1>8 DEF EntryDoc
<1> HIDE DEF f
<1>10. ASSUME TurnInv PROVE Within(f) /\ f.status # "none" /\ Stays(q.a, e, f)
  <2>1. Within(f)
    <3>1. x.total \in Nat /\ x.resends \in Nat
      BY <1>4 DEF ChannelDoc
    <3> HIDE DEF e, c
    <3> QED
      BY <1>2, <1>4, <1>5, <1>8, <1>9, <1>10, <3>1, Limits DEF Within, UsedUp
  <2>2. Stays(q.a, e, f)
    <3> HIDE DEF e, c
    <3> QED
      BY <1>4, <1>8, <1>9 DEF Stays
  <2> QED
    BY <1>6, <1>9, <1>10, <2>1, <2>2
<1>11. code' \in [Addresses -> [Channels -> CodeSlot]] /\ UNCHANGED <<mode, mailed, batch>>
  BY <1>1, Typed DEF Keep
<1>12. req' = [req EXCEPT ![r] = Idle] /\ e = entry[q.a]
  BY <1>1 DEF Finish
<1>13. f.status \in InvitedStatus => q.a \in mailed
  BY <1>6, <1>9
<1> HIDE DEF e
<1> QED
  BY <1>1, <1>2, <1>7, <1>9, <1>10, <1>11, <1>12, <1>13, IdleType, Acts

\* Every step of a request, and its end.
LEMMA RequestSteps ==
    ASSUME IndInv, NEW r \in Requests, Begin(r) \/ Step(r) \/ Die(r)
    PROVE  IndInv' /\ (InTurn /\ TurnInv => TurnInv' /\ Kept)
<1>1. CASE Begin(r)
  BY <1>1, BeginStep
<1>2. CASE Step(r)
  <2>1. CASE Lift(r) \/ Bar(r)
    BY <2>1, LiftStep, BarStep
  <2>2. CASE req[r].op = "start" /\ Start(r)
    BY <2>2, ProofStep, ClearStep, SaveStep, SendCodeSteps DEF Start
  <2>3. CASE Attempt(r)
    BY <2>3, FetchStep, TryCodeSteps, CountSteps, ConfirmStep DEF Attempt
  <2>4. CASE Again(r)
    BY <2>4, RenewStep, ReloadStep, SendCodeSteps DEF Again
  <2> QED
    BY <1>2, <2>1, <2>2, <2>3, <2>4 DEF Step, Verify, VerifyPhone, Resend, ResendPhone
<1>3. CASE Die(r)
  <2>1. CASE req[r].pc = "idle"
    <3>1. req[r].a = None /\ req' = [req EXCEPT ![r] = Idle] /\ UNCHANGED <<entry, code>> /\ Keep
      BY <1>3, <2>1, Typed DEF Die, Finish, RequestOK
    <3>2. /\ req' \in [Requests -> RequestDoc] /\ \A o \in Requests : RequestOK(req'[o])
          /\ \A o \in Requests : o # r => req'[o] = req[o]
          /\ req'[r] = Idle
      BY <3>1, IdleType, Typed
    <3>3. MailInv'
      BY <3>1, <3>2, IdleType, NoEntryType, Typed, RoundStays
         DEF Keep, MailInv, InvitedWasMailed, InvitedStatus
    <3>4. IndInv'
      BY <3>1, <3>2, <3>3 DEF IndInv, Keep
    <3>5. TurnInv => TurnInv'
      BY <3>1, <3>2, IdleType DEF TurnInv, OneEach
    <3> QED
      BY <3>1, <3>4, <3>5 DEF Kept
  <2>2. CASE req[r].pc # "idle"
    BY <1>3, <2>2, FinishStep DEF Die
  <2> QED
    BY <2>1, <2>2
<1> QED
  BY <1>1, <1>2, <1>3

-----------------------------------------------------------------------------
(* Invitations, accounts and time                                             *)

\* A step that leaves the requests alone.
LEMMA OthersKeep ==
    ASSUME IndInv, UNCHANGED req, mailed \subseteq mailed',
           entry' \in [Addresses -> EntryDoc], code' \in [Addresses -> [Channels -> CodeSlot]],
           \A a \in Addresses : Spares(entry[a], entry'[a]),
           \A a \in Addresses : entry'[a].status \in InvitedStatus => a \in mailed',
           batch' = [s \in Servers |-> batch'[s]],
           \A s \in Servers : DOMAIN batch'[s] = {"pc", "todo", "only"},
           \A s \in Servers : batch'[s].pc = "save" => Round(s)' \subseteq mailed'
    PROVE  IndInv' /\ (TurnInv => TurnInv' /\ Kept)
<1>1. MailInv'
  BY Typed DEF MailInv, InvitedWasMailed, InvitedStatus
<1>2. IndInv'
  BY <1>1 DEF IndInv
<1> QED
  BY <1>2, SparesKeeps

LEMMA SparesItself == \A e : Spares(e, e)
BY DEF Spares

\* A server's batch becomes b.
LEMMA Batched ==
    ASSUME IndInv, NEW s \in Servers, NEW b, DOMAIN b = {"pc", "todo", "only"},
           batch' = [batch EXCEPT ![s] = b], UNCHANGED mode
    PROVE  /\ batch' = [o \in Servers |-> batch'[o]] /\ batch'[s] = b
           /\ \A o \in Servers : DOMAIN batch'[o] = {"pc", "todo", "only"}
           /\ \A o \in Servers \ {s} : batch'[o] = batch[o] /\ Round(o)' = Round(o)
<1>1. batch' = [o \in Servers |-> IF o = s THEN b ELSE batch[o]]
  BY DEF IndInv
<1>2. batch' = [o \in Servers |-> batch'[o]]
  BY <1>1
<1>3. batch'[s] = b /\ \A o \in Servers \ {s} : batch'[o] = batch[o]
  BY <1>1
<1>4. \A o \in Servers \ {s} : Round(o)' = Round(o)
  BY <1>3 DEF Round
<1> QED
  BY <1>2, <1>3, <1>4 DEF IndInv

\* A step of a server that touches no entry: it is not about to save, or has
\* just mailed those it is about to save.
LEMMA BatchMoves ==
    ASSUME IndInv, NEW s \in Servers, NEW b, DOMAIN b = {"pc", "todo", "only"},
           batch' = [batch EXCEPT ![s] = b], UNCHANGED entry, BatchKeep, mailed \subseteq mailed',
           b.pc = "save" => Round(s)' \subseteq mailed'
    PROVE  IndInv' /\ (TurnInv => TurnInv' /\ Kept)
<1>1. /\ batch' = [o \in Servers |-> batch'[o]] /\ batch'[s] = b
      /\ \A o \in Servers : DOMAIN batch'[o] = {"pc", "todo", "only"}
      /\ \A o \in Servers \ {s} : batch'[o] = batch[o] /\ Round(o)' = Round(o)
  BY Batched DEF BatchKeep
<1>2. \A o \in Servers : batch'[o].pc = "save" => Round(o)' \subseteq mailed'
  BY <1>1, Typed DEF MailInv
<1>3. \A a \in Addresses : entry'[a].status \in InvitedStatus => a \in mailed'
  BY Typed DEF MailInv, InvitedWasMailed, InvitedStatus
<1>4. UNCHANGED <<req, code>> /\ \A a \in Addresses : Spares(entry[a], entry'[a])
  BY SparesItself DEF BatchKeep
<1> QED
  BY <1>1, <1>2, <1>3, <1>4, Typed, OthersKeep

LEMMA RemainingType ==
    ASSUME IndInv, NEW s \in Servers
    PROVE  DOMAIN Remaining(s) = {"pc", "todo", "only"} /\ Remaining(s).pc # "save"
<1>1. DOMAIN batch[s] = {"pc", "todo", "only"}
  BY DEF IndInv
<1>2. DOMAIN NoBatch = {"pc", "todo", "only"} /\ NoBatch.pc = "idle"
  BY DEF NoBatch
<1> HIDE DEF NoBatch
<1>3. PICK t : Remaining(s) = IF t = << >> THEN NoBatch ELSE [batch[s] EXCEPT !.pc = "send", !.todo = t]
  BY DEF Remaining
<1>4. ASSUME NEW f, DOMAIN f = {"pc", "todo", "only"}
      PROVE  LET g == [f EXCEPT !.pc = "send", !.todo = t] IN
             DOMAIN g = {"pc", "todo", "only"} /\ g.pc = "send"
  BY <1>4
<1> QED
  BY <1>1, <1>2, <1>3, <1>4

LEMMA BatchSteps ==
    ASSUME IndInv, NEW s \in Servers, BatchRead(s) \/ Approve(s) \/ Send(s) \/ SendFails(s) \/ BatchDies(s)
    PROVE  IndInv' /\ (TurnInv => TurnInv' /\ Kept)
<1>1. CASE BatchRead(s)
  <2>1. PICK t : batch' = [batch EXCEPT ![s] = [pc |-> "send", todo |-> t, only |-> FALSE]]
    BY <1>1 DEF BatchRead
  <2>2. UNCHANGED <<entry, mailed>> /\ BatchKeep
    BY <1>1 DEF BatchRead
  <2> QED
    BY <2>1, <2>2, BatchMoves
<1>2. CASE Approve(s)
  <2>1. PICK a : batch' = [batch EXCEPT ![s] = [pc |-> "send", todo |-> <<a>>, only |-> TRUE]]
    BY <1>2 DEF Approve
  <2>2. UNCHANGED <<entry, mailed>> /\ BatchKeep
    BY <1>2 DEF Approve
  <2> QED
    BY <2>1, <2>2, BatchMoves
<1>3. CASE Send(s)
  <2> DEFINE b == [batch[s] EXCEPT !.pc = "save"]
  <2>1. /\ batch' = [batch EXCEPT ![s] = b] /\ mailed' = mailed \cup Round(s)
        /\ UNCHANGED entry /\ BatchKeep
    BY <1>3 DEF Send
  <2>2. DOMAIN batch[s] = {"pc", "todo", "only"}
    BY DEF IndInv
  <2>3. DOMAIN b = {"pc", "todo", "only"} /\ b.todo = batch[s].todo /\ b.only = batch[s].only
    BY <2>2
  <2> HIDE DEF b
  <2>4. batch'[s] = b /\ UNCHANGED mode
    BY <2>1, <2>3, Batched DEF BatchKeep
  <2>5. Round(s)' = Round(s)
    BY <2>3, <2>4 DEF Round
  <2> QED
    BY <2>1, <2>3, <2>5, BatchMoves
<1>4. CASE SendFails(s)
  <2>1. batch' = [batch EXCEPT ![s] = Remaining(s)] /\ UNCHANGED <<entry, mailed>> /\ BatchKeep
    BY <1>4 DEF SendFails
  <2> QED
    BY <2>1, RemainingType, BatchMoves
<1>5. CASE BatchDies(s)
  <2>1. batch' = [batch EXCEPT ![s] = NoBatch] /\ UNCHANGED <<entry, mailed>> /\ BatchKeep
    BY <1>5 DEF BatchDies
  <2>2. DOMAIN NoBatch = {"pc", "todo", "only"} /\ NoBatch.pc # "save"
    BY DEF NoBatch
  <2> HIDE DEF NoBatch
  <2> QED
    BY <2>1, <2>2, BatchMoves
<1> QED
  BY <1>1, <1>2, <1>3, <1>4, <1>5

LEMMA InvitedType ==
    ASSUME NEW e \in EntryDoc
    PROVE  Invited(e) \in EntryDoc /\ Spares(e, Invited(e))
<1> DEFINE chs == [c \in Channels |-> [e.ch[c] EXCEPT !.expires = FALSE]]
           f == [e EXCEPT !.status = "invited", !.ch = chs]
<1>1. ASSUME NEW c \in Channels
      PROVE  /\ chs[c] \in ChannelDoc /\ chs[c].status = e.ch[c].status
             /\ chs[c].total = e.ch[c].total /\ chs[c].resends = e.ch[c].resends
  <2>1. e.ch[c] \in ChannelDoc
    BY DEF EntryDoc
  <2>2. chs[c] = [e.ch[c] EXCEPT !.expires = FALSE]
    OBVIOUS
  <2> QED
    BY <2>1, <2>2 DEF ChannelDoc
<1>2. chs \in [Channels -> ChannelDoc]
  BY <1>1
<1> HIDE DEF chs
<1>3. f \in EntryDoc /\ f.status = "invited" /\ f.phone = e.phone /\ f.ch = chs
  BY <1>2 DEF EntryDoc
<1>4. Invited(e) = f
  BY DEF Invited, chs
<1> HIDE DEF f
<1> QED
  BY <1>1, <1>3, <1>4 DEF Spares

\* Whoever is marked as invited is of the round that was mailed.
LEMMA InviteStep ==
    ASSUME IndInv, NEW s \in Servers, Invite(s)
    PROVE  IndInv' /\ (TurnInv => TurnInv' /\ Kept)
<1>1. /\ batch[s].pc = "save" /\ batch' = [batch EXCEPT ![s] = Remaining(s)]
      /\ UNCHANGED mailed /\ BatchKeep
  BY DEF Invite
<1>2. /\ entry' \in [Addresses -> EntryDoc]
      /\ \A a \in Addresses : Spares(entry[a], entry'[a])
      /\ \A a \in Addresses : entry'[a] = entry[a] \/ a \in Round(s)
  <2>1. \A a \in Addresses : \/ entry'[a] = entry[a]
                             \/ a \in Round(s) /\ entry'[a] = Invited(entry[a])
    BY DEF Invite
  <2>2. entry' = [a \in Addresses |-> entry'[a]]
    BY DEF Invite
  <2>3. ASSUME NEW a \in Addresses PROVE entry'[a] \in EntryDoc /\ Spares(entry[a], entry'[a])
    BY <2>1, Typed, SparesItself, InvitedType
  <2> QED
    BY <2>1, <2>2, <2>3
<1>3. /\ batch' = [o \in Servers |-> batch'[o]] /\ batch'[s] = Remaining(s)
      /\ \A o \in Servers : DOMAIN batch'[o] = {"pc", "todo", "only"}
      /\ \A o \in Servers \ {s} : batch'[o] = batch[o] /\ Round(o)' = Round(o)
  BY <1>1, RemainingType, Batched DEF BatchKeep
<1>4. \A o \in Servers : batch'[o].pc = "save" => Round(o)' \subseteq mailed'
  BY <1>1, <1>3, Typed, RemainingType DEF MailInv
<1>5. \A a \in Addresses : entry'[a].status \in InvitedStatus => a \in mailed'
  BY <1>1, <1>2, Typed DEF MailInv, InvitedWasMailed, InvitedStatus
<1>6. UNCHANGED req /\ code' \in [Addresses -> [Channels -> CodeSlot]]
  BY <1>1, Typed DEF BatchKeep
<1> QED
  BY <1>1, <1>2, <1>3, <1>4, <1>5, <1>6, OthersKeep

\* A step that leaves requests and servers alone.
LEMMA Otherwise ==
    ASSUME IndInv, UNCHANGED <<mode, mailed, req, batch>>, NEW a \in Addresses, NEW f \in EntryDoc,
           entry' = [entry EXCEPT ![a] = f], Spares(entry[a], f),
           f.status \in InvitedStatus => a \in mailed,
           code' \in [Addresses -> [Channels -> CodeSlot]]
    PROVE  IndInv' /\ (TurnInv => TurnInv' /\ Kept)
<1>1. /\ entry' \in [Addresses -> EntryDoc] /\ entry'[a] = f
      /\ \A o \in Addresses \ {a} : entry'[o] = entry[o]
  BY Typed
<1>2. \A o \in Addresses : Spares(entry[o], entry'[o])
  BY <1>1, SparesItself
<1>3. \A o \in Addresses : entry'[o].status \in InvitedStatus => o \in mailed'
  BY <1>1, Typed DEF MailInv, InvitedWasMailed, InvitedStatus
<1>4. \A s \in Servers : batch'[s].pc = "save" => Round(s)' \subseteq mailed'
  BY Typed, RoundStays DEF MailInv
<1>5. batch' = [s \in Servers |-> batch'[s]] /\ \A s \in Servers : DOMAIN batch'[s] = {"pc", "todo", "only"}
  BY DEF IndInv
<1> QED
  BY <1>1, <1>2, <1>3, <1>4, <1>5, OthersKeep

LEMMA AddressSteps ==
    ASSUME IndInv, NEW a \in Addresses,
           \/ ContactUnverified(a) \/ ContactConfirm(a) \/ Activate(a)
           \/ \E c \in Channels : CodeExpires(a, c) \/ BlockEnds(a, c)
    PROVE  IndInv' /\ (TurnInv => TurnInv' /\ Kept)
<1> DEFINE e == entry[a]
<1>1. /\ e \in EntryDoc /\ Spares(e, e) /\ (e.status \in InvitedStatus => a \in mailed)
      /\ entry = [entry EXCEPT ![a] = e]
  BY Typed, SparesItself DEF MailInv, InvitedWasMailed, InvitedStatus
<1>2. CASE ContactUnverified(a) \/ ContactConfirm(a)
  <2>1. UNCHANGED <<mode, entry, code, mailed, req, batch>>
    BY <1>2 DEF ContactUnverified, ContactConfirm, Rest
  <2> HIDE DEF e
  <2>2. e = entry[a] /\ entry' = [entry EXCEPT ![a] = e]
    BY <1>1, <2>1 DEF e
  <2> QED
    BY <1>1, <2>1, <2>2, Typed, Otherwise
<1>3. CASE Activate(a)
  <2> DEFINE f == [e EXCEPT !.status = "activated"]
  <2>1. /\ entry' = [entry EXCEPT ![a] = f] /\ UNCHANGED <<mode, code, mailed, req, batch>>
        /\ e.status = "invited"
    BY <1>3 DEF Activate
  <2>2. f \in EntryDoc /\ f.status = "activated" /\ f.phone = e.phone /\ f.ch = e.ch
    BY <1>1 DEF EntryDoc
  <2> HIDE DEF f
  <2>3. Spares(e, f)
    BY <2>2 DEF Spares
  <2> QED
    BY <1>1, <2>1, <2>2, <2>3, Typed, Otherwise DEF InvitedStatus
<1>4. ASSUME NEW c \in Channels, CodeExpires(a, c)
      PROVE  IndInv' /\ (TurnInv => TurnInv' /\ Kept)
  <2>1. UNCHANGED <<mode, entry, mailed, req, batch>> /\ code' = [code EXCEPT ![a][c] = NoCode]
    BY <1>4 DEF CodeExpires, TimeKeep
  <2>2. NoCode \in CodeSlot
    BY Limits DEF NoCode, CodeSlot
  <2>3. code' \in [Addresses -> [Channels -> CodeSlot]]
    BY <2>1, <2>2, SlotWritten
  <2> HIDE DEF e
  <2>4. e = entry[a] /\ entry' = [entry EXCEPT ![a] = e]
    BY <1>1, <2>1 DEF e
  <2> QED
    BY <1>1, <2>1, <2>3, <2>4, Otherwise
<1>5. ASSUME NEW c \in Channels, BlockEnds(a, c)
      PROVE  IndInv' /\ (TurnInv => TurnInv' /\ Kept)
  <2> DEFINE x == [e.ch[c] EXCEPT !.barred = FALSE]
             f == Put(e, c, x)
  <2>1. UNCHANGED <<mode, code, mailed, req, batch>> /\ entry' = [entry EXCEPT ![a].ch[c] = x]
    BY <1>5 DEF BlockEnds, TimeKeep
  <2>2. e.ch[c] \in ChannelDoc
    BY <1>1 DEF EntryDoc
  <2>3. /\ x \in ChannelDoc /\ x.status = e.ch[c].status
        /\ x.total = e.ch[c].total /\ x.resends = e.ch[c].resends
    BY <2>2 DEF ChannelDoc
  <2> HIDE DEF x
  <2>4. entry' = [entry EXCEPT ![a] = f]
    BY <2>1, Zenon DEF Put
  <2> HIDE DEF e
  <2>5. /\ f \in EntryDoc /\ f.status = e.status /\ f.phone = e.phone /\ f.ch[c] = x
        /\ \A k \in Channels \ {c} : f.ch[k] = e.ch[k]
    BY <1>1, <2>3, PutType
  <2> HIDE DEF f
  <2>6. Spares(e, f)
    BY <2>3, <2>5 DEF Spares
  <2>7. e = entry[a]
    BY DEF e
  <2> QED
    BY <1>1, <2>1, <2>4, <2>5, <2>6, <2>7, Typed, Otherwise
<1> QED
  BY <1>2, <1>3, <1>4, <1>5

-----------------------------------------------------------------------------
(* Theorems                                                                   *)

LEMMA InitHolds ==
    ASSUME Init
    PROVE  IndInv /\ TurnInv
<1>1. /\ \A a \in Addresses : entry[a] = NoEntry
      /\ entry = [a \in Addresses |-> NoEntry] /\ req = [r \in Requests |-> Idle]
      /\ code = [a \in Addresses |-> [c \in Channels |-> NoCode]]
      /\ batch = [s \in Servers |-> NoBatch]
      /\ \A r \in Requests : req[r] = Idle
  BY DEF Init
<1>2. NoCode \in CodeSlot
  BY Limits DEF NoCode, CodeSlot
<1>3. DOMAIN NoBatch = {"pc", "todo", "only"} /\ NoBatch.pc = "idle"
  BY DEF NoBatch
<1> HIDE DEF NoEntry, NoCode, NoBatch, Idle
<1>4. entry \in [Addresses -> EntryDoc] /\ req \in [Requests -> RequestDoc] /\ \A r \in Requests : RequestOK(req[r])
  BY <1>1, NoEntryType, IdleType
<1>5. code \in [Addresses -> [Channels -> CodeSlot]]
  BY <1>1, <1>2
<1>6. MailInv
  BY <1>1, <1>3, NoEntryType, IdleType DEF MailInv, InvitedWasMailed, InvitedStatus
<1>7. Within(NoEntry) /\ Untouched(NoEntry)
  BY NoEntryType, Limits DEF Within, Untouched
<1>8. TurnInv
  BY <1>1, <1>7, IdleType DEF TurnInv, OneEach
<1>9. batch = [s \in Servers |-> batch[s]] /\ \A s \in Servers : DOMAIN batch[s] = {"pc", "todo", "only"}
  BY <1>1, <1>3
<1> QED
  BY <1>4, <1>5, <1>6, <1>8, <1>9 DEF IndInv

LEMMA StepKeeps ==
    ASSUME IndInv, [Next]_vars
    PROVE  IndInv' /\ (InTurn /\ TurnInv => TurnInv' /\ [Kept]_vars)
<1>1. CASE Next
  BY <1>1, RequestSteps, BatchSteps, InviteStep, AddressSteps DEF Next
<1>2. CASE UNCHANGED vars
  <2>1. UNCHANGED <<mode, entry, code, mailed, req, batch>>
    BY <1>2 DEF vars
  <2>2. MailInv'
    BY <2>1, RoundStays, Typed DEF MailInv, InvitedWasMailed
  <2>3. IndInv'
    BY <2>1, <2>2 DEF IndInv
  <2>4. TurnInv => TurnInv'
    BY <2>1 DEF TurnInv, OneEach
  <2> QED
    BY <1>2, <2>3, <2>4
<1> QED
  BY <1>1, <1>2

\* The invariant holds whatever requests and servers do to one another.
THEOREM Inductive == Spec => []IndInv
<1>1. Init => IndInv
  BY InitHolds
<1>2. IndInv /\ [Next]_vars => IndInv'
  BY StepKeeps
<1> QED
  BY <1>1, <1>2, PTL DEF Spec

\* Nobody is marked as invited, nor activated, before the mail of the batch, or
\* the administrator's, has been queued: processInviteBatch saves after it has
\* sent, and a request that writes back a status it loaded writes one that was.
THEOREM MailedFirst == Spec => []InvitedWasMailed
<1>1. IndInv => InvitedWasMailed
  BY DEF IndInv, MailInv
<1> QED
  BY <1>1, Inductive, PTL

LEMMA TurnHolds ==
    ASSUME InTurn
    PROVE  Spec => [](IndInv /\ TurnInv)
<1>1. Init => IndInv /\ TurnInv
  BY InitHolds
<1>2. (IndInv /\ TurnInv) /\ [Next]_vars => (IndInv /\ TurnInv)'
  BY StepKeeps
<1> QED
  BY <1>1, <1>2, PTL DEF Spec

\* As long as an address has one request in flight, neither total is passed,
\* wherever a request dies: each step that counts follows a look at the totals
\* of an entry no other request has changed since.
THEOREM TotalsKept ==
    ASSUME InTurn
    PROVE  Spec => []TotalsBounded
<1>1. TurnInv => TotalsBounded
  BY DEF TurnInv, Within, TotalsBounded
<1> QED
  BY <1>1, TurnHolds, PTL

\* And a verified address stays verified, a phone as long as it is the phone:
\* start asks for a code only where Proof found no verification, and blocks
\* only a channel whose totals are used up, which is no verified one.
THEOREM VerifiedStays ==
    ASSUME InTurn
    PROVE  Spec => VerificationKept
<1>1. (IndInv /\ TurnInv) /\ [Next]_vars => [Kept]_vars
  BY StepKeeps
<1>2. [Kept]_vars <=> [\A a \in Addresses, c \in Channels :
         entry[a].ch[c].status = "verified" /\ Target(entry'[a], a, c) = Target(entry[a], a, c)
           => entry'[a].ch[c].status = "verified"]_vars
  BY DEF Kept
<1> QED
  BY <1>1, <1>2, TurnHolds, PTL DEF Spec, VerificationKept
=============================================================================
