-------------------------- MODULE MigrationProofs ---------------------------
(***************************************************************************)
(* Theorems about the two migrations: of an organization's data between    *)
(* datastores (DatastoreMigration), and of its legacy contacts into people *)
(* (ContactMigration).  They have no state in common; each part begins     *)
(* with its own inductive invariant.                                       *)
(*                                                                         *)
(* The first part is about any databases, collections, documents, chunk    *)
(* sizes, requests and bounds.  It assumes the careful operator of the     *)
(* runbook; the server may die in any start or finalize.                   *)
(*                                                                         *)
(* The second is about any contacts, people and invites, any number of     *)
(* runs, and any edits.  That a contact has one live person, and that a    *)
(* completed run leaves nothing out, holds whatever others do during a     *)
(* run; that live people share no key needs them not to add any.           *)
(***************************************************************************)
EXTENDS DatastoreMigration, ContactMigration, FiniteSetTheorems, TLAPS

Careful == Liberties \subseteq {"crash"}

-----------------------------------------------------------------------------
(* The datastores: the inductive invariant *)

Running(r)   == req[r].pc \in Starting \ Opening
Finalizing(r) == req[r].pc \in {"final.org", "final.save"}
NoOther(r)     == \A q \in Requests \ {r} : ~InFlight(q)

CopyLoop == {"copy.begin", "copy.find", "copy.write", "copy.record"}

\* The source of a migration in a direction, while the organization stays.
SourceOf(dir) == IF dir = "dedicated_to_shared" THEN org.uri ELSE Shared

AllTransferred(m) == \A c \in Copied, i \in Ids : Transferred(m, c, i)

Prefix(m, progress) == \A c \in Copied : \A i \in 1 .. progress[c] : Transferred(m, c, i)

\* At most one migration is open.
OneOpen == \A m, n \in DOMAIN migs : IsOpen(m) /\ IsOpen(n) => m = n

OrgOK == org.dedicated => org.uri # None

\* Where an open migration leads, and where the organization is meanwhile.
MigrationOK(m) ==
    IsOpen(m) =>
        /\ migs[m].dir = "dedicated_to_shared" =>
             org.uri # None /\ migs[m].target = Shared
        /\ migs[m].dir = "shared_to_dedicated" =>
             /\ migs[m].target \in Dedicated \cup {None}
             /\ org.dedicated => org.uri = migs[m].target
        /\ migs[m].target = None =>
             migs[m].progress = NoProgress /\ migs[m].status # "ready_for_cutover"
        /\ migs[m].status = "ready_for_cutover" => ~migs[m].dry

\* A start that has not opened its migration yet: nobody else is about to
\* open one, and the organization is at the source.
OpeningOK(r) ==
    LET ask == req[r].doc IN
    /\ ask.status = "in_progress" /\ ask.progress = NoProgress
    /\ \A q \in Requests \ {r} : InFlight(q) => Running(q) /\ ~req[q].doc.dry /\ ~ask.dry
    /\ req[r].source = SourceOf(ask.dir) /\ req[r].source = Live
    /\ ask.dir = "dedicated_to_shared" => ask.target = Shared /\ org.uri # None
    /\ ask.dir = "shared_to_dedicated" => ask.target \in Dedicated \cup {None} /\ ~org.dedicated
    /\ req[r].given => ask.target # None
    /\ req[r].pc = "start.find" => req[r].mig = 0
    /\ \A m \in DOMAIN migs : IsOpen(m) =>
         /\ migs[m].dir = ask.dir
         /\ req[r].given => migs[m].target \in {None, ask.target}
    /\ req[r].pc = "start.open" =>
         \/ /\ req[r].mig = 0 /\ Len(migs) < MaxMigrations
            /\ \A m \in DOMAIN migs : ~IsOpen(m)
         \/ /\ req[r].mig \in DOMAIN migs /\ IsOpen(req[r].mig)
            /\ req[r].loaded.dir = migs[req[r].mig].dir
            /\ req[r].loaded.target = migs[req[r].mig].target
            /\ req[r].loaded.dry = migs[req[r].mig].dry
            /\ ask.dry => req[r].loaded.status = migs[req[r].mig].status
            /\ req[r].loaded.target = None => req[r].loaded.progress = NoProgress
            /\ req[r].loaded.target # None => Prefix(req[r].mig, req[r].loaded.progress)

\* A start that copies, wherever it is in the loop.
RunningBase(r) ==
    LET m == req[r].mig IN
    /\ m \in DOMAIN migs /\ IsOpen(m)
    /\ req[r].doc.dir = migs[m].dir /\ req[r].doc.dry = migs[m].dry
    /\ req[r].doc.target = migs[m].target /\ migs[m].target # None
    /\ req[r].source = Source(m) /\ req[r].source = Live
    /\ Prefix(m, req[r].doc.progress)
    /\ req[r].doc.dry => NoOther(r)

\* What it has passed is in the target.
RunningOK(r) ==
    LET m == req[r].mig
        c == Entities[req[r].at]
    IN
    /\ RunningBase(r)
    /\ req[r].pc = "dry.count" => req[r].doc.dry /\ req[r].at \in DOMAIN Entities
    /\ req[r].pc \in CopyLoop =>
         /\ ~req[r].doc.dry /\ req[r].at \in DOMAIN Entities
         /\ \A k \in 1 .. req[r].at - 1, i \in Ids : Transferred(m, Entities[k], i)
         /\ req[r].pc # "copy.write" => \A i \in 1 .. req[r].last : Transferred(m, c, i)
         /\ req[r].pc = "copy.write" =>
              /\ \A d \in req[r].batch : d[2] = dbs[req[r].source][c][d[1]]
              /\ \A i \in 1 .. req[r].last :
                   Transferred(m, c, i) \/ <<i, dbs[req[r].source][c][i]>> \in req[r].batch
    /\ req[r].pc = "start.ready" /\ ~req[r].doc.dry => AllTransferred(m)

FinalizingOK(r) ==
    /\ NoOther(r)
    /\ req[r].mig \in DOMAIN migs /\ req[r].doc = migs[req[r].mig]
    /\ req[r].doc.status = "ready_for_cutover" /\ ~req[r].doc.dry

AbortingOK(r) ==
    /\ NoOther(r)
    /\ req[r].mig \in DOMAIN migs /\ req[r].doc = migs[req[r].mig]
    /\ IsOpen(req[r].mig) /\ req[r].doc.target # Live
    /\ req[r].pc = "abort.clean" => req[r].doc.target # None /\ req[r].at \in DOMAIN Entities

RequestOK(r) ==
    /\ ~InFlight(r) => req[r] = Idle
    /\ req[r].pc \in Opening => OpeningOK(r)
    /\ Running(r) => RunningOK(r)
    /\ Finalizing(r) => FinalizingOK(r)
    /\ Aborting(r) => AbortingOK(r)

\* Of the documents that move with the organization no database has a newer
\* version than the one it lives in.
LiveIsNewest ==
    \A d \in DB, c \in Portable, i \in Ids : dbs[d][c][i] <= dbs[Live][c][i]

IndInv ==
    /\ TypeOK
    /\ OneOpen
    /\ OrgOK
    /\ \A m \in DOMAIN migs : MigrationOK(m)
    /\ \A r \in Requests : RequestOK(r)
    /\ ReadyMeansCopied
    /\ ProgressIsCopied
    /\ LiveIsNewest
-----------------------------------------------------------------------------
(* Constants and records *)

\* The collections a migration copies, in order: one or two.
LEMMA EntitiesFacts ==
    /\ DOMAIN Entities = 1 .. Len(Entities)
    /\ Len(Entities) \in 1 .. 2
    /\ \A k \in DOMAIN Entities : Entities[k] \in Copied
    /\ \A c \in Copied : \E k \in DOMAIN Entities : Entities[k] = c
    /\ Copied \subseteq Collections
<1>1. CASE "users" \in Collections /\ "contacts" \in Collections
  <2>1. Entities = <<"users", "contacts">>
    BY <1>1 DEF Entities
  <2> QED
    BY <1>1, <2>1 DEF Copied
<1>2. CASE "users" \in Collections /\ "contacts" \notin Collections
  <2>1. Entities = <<"users">>
    BY <1>2 DEF Entities
  <2> QED
    BY <1>2, <2>1 DEF Copied
<1>3. CASE "users" \notin Collections /\ "contacts" \in Collections
  <2>1. Entities = <<"contacts">>
    BY <1>3 DEF Entities
  <2> QED
    BY <1>3, <2>1 DEF Copied
<1> QED
  BY <1>1, <1>2, <1>3, DatastoreMigrationAssumption

LEMMA Constants ==
    /\ Ids \subseteq Nat /\ MaxId \in Nat /\ MaxVersion \in Nat /\ MaxMigrations \in Nat
    /\ Shared \in DB /\ None \notin DB /\ Dedicated \subseteq DB /\ Shared \notin Dedicated
BY DatastoreMigrationAssumption DEF Ids, DB

LEMMA BlankType == Blank \in Migration /\ NoProgress \in [Collections -> 0 .. MaxId]
BY Constants DEF Blank, Migration, NoProgress, Directions, Open

LEMMA IdleType == Idle \in Request
BY BlankType, Constants DEF Idle, Request, PC


-----------------------------------------------------------------------------
(* Frames *)

\* What a step of one request leaves true of the others: the migrations they
\* work on stay open and lead the same way, nothing transferred is lost, no
\* source changes, and no request starts beside one that must be alone.
LEMMA OthersKeep ==
    ASSUME TypeOK, TypeOK', NEW r \in Requests, NEW p \in Requests \ {r}, RequestOK(p),
           \A q \in Requests \ {r} : req'[q] = req[q],
           InFlight(p) =>
             /\ ~Finalizing(p) /\ ~Aborting(p) /\ ~req[p].doc.dry
             /\ req[p].pc \in Opening /\ InFlight(r)' => Running(r)' /\ ~req'[r].doc.dry
             /\ org' = org
             /\ Len(migs') = Len(migs)
             /\ \A m \in DOMAIN migs :
                  /\ IsOpen(m)' <=> IsOpen(m)
                  /\ migs'[m].dir = migs[m].dir /\ migs'[m].dry = migs[m].dry
                  /\ migs'[m].target = migs[m].target
                  /\ IsOpen(m) /\ migs[m].target # None =>
                       /\ dbs'[Source(m)] = dbs[Source(m)]
                       /\ \A c \in Copied, i \in Ids : Transferred(m, c, i) => Transferred(m, c, i)'
    PROVE  RequestOK(p)'
<1>1. CASE ~InFlight(p)
  BY <1>1 DEF RequestOK, InFlight, Idle, Running, Finalizing, Aborting, Starting, Opening, Copying
<1>2. req'[p] = req[p] /\ DOMAIN migs = 1 .. Len(migs) /\ DOMAIN migs' = 1 .. Len(migs')
  BY DEF TypeOK
<1>3. ASSUME NEW m \in DOMAIN migs, IsOpen(m), migs[m].target # None, NEW progress,
             progress \in [Collections -> 0 .. MaxId], Prefix(m, progress), InFlight(p)
      PROVE  Prefix(m, progress)'
  <2>1. \A c \in Copied : 1 .. progress[c] \subseteq Ids
    BY <1>3, EntitiesFacts, Constants DEF Ids
  <2> QED
    BY <1>3, <2>1 DEF Prefix
<1>4. CASE req[p].pc \in Opening
  <2>1. InFlight(p) /\ ~Running(p)' /\ ~Finalizing(p)' /\ ~Aborting(p)'
    BY <1>2, <1>4 DEF InFlight, Running, Finalizing, Aborting, Opening
  <2>2. OpeningOK(p)
    BY <1>4 DEF RequestOK
  <2> DEFINE ask == req[p].doc
             m == req[p].mig
             loaded == req[p].loaded
  <2>a. org' = org /\ Live' = Live /\ SourceOf(ask.dir)' = SourceOf(ask.dir)
    BY <1>2, <2>1 DEF Live, SourceOf
  <2>b. \A q \in Requests \ {p} : InFlight(q)' => Running(q)' /\ ~req'[q].doc.dry /\ ~ask.dry
    <3> SUFFICES ASSUME NEW q \in Requests \ {p}, InFlight(q)'
                 PROVE  Running(q)' /\ ~req'[q].doc.dry /\ ~ask.dry
      OBVIOUS
    <3>1. CASE q = r
      BY <1>4, <2>1, <3>1
    <3>2. CASE q # r
      BY <2>2, <3>2 DEF OpeningOK, InFlight, Running
    <3> QED
      BY <3>1, <3>2
  <2>c. \A n \in DOMAIN migs' : IsOpen(n)' =>
          /\ n \in DOMAIN migs /\ IsOpen(n)
          /\ migs'[n].dir = ask.dir
          /\ req[p].given => migs'[n].target \in {None, ask.target}
    BY <1>2, <2>1, <2>2 DEF OpeningOK
  <2>d. req[p].pc = "start.open" =>
         \/ /\ m = 0 /\ Len(migs') < MaxMigrations
            /\ \A n \in DOMAIN migs' : ~IsOpen(n)'
         \/ /\ m \in DOMAIN migs' /\ IsOpen(m)'
            /\ loaded.dir = migs'[m].dir
            /\ loaded.target = migs'[m].target
            /\ loaded.dry = migs'[m].dry
            /\ ask.dry => loaded.status = migs'[m].status
            /\ loaded.target = None => loaded.progress = NoProgress
            /\ loaded.target # None => Prefix(m, loaded.progress)'
    <3> SUFFICES ASSUME req[p].pc = "start.open",
                        ~(m = 0 /\ Len(migs) < MaxMigrations /\ \A n \in DOMAIN migs : ~IsOpen(n))
                 PROVE  /\ m \in DOMAIN migs' /\ IsOpen(m)'
                        /\ loaded.dir = migs'[m].dir
                        /\ loaded.target = migs'[m].target
                        /\ loaded.dry = migs'[m].dry
                        /\ loaded.target = None => loaded.progress = NoProgress
                        /\ loaded.target # None => Prefix(m, loaded.progress)'
      BY <1>2, <2>1, <2>c
    <3>1. /\ m \in DOMAIN migs /\ IsOpen(m)
          /\ loaded.dir = migs[m].dir
          /\ loaded.target = migs[m].target
          /\ loaded.dry = migs[m].dry
          /\ loaded.target = None => loaded.progress = NoProgress
          /\ loaded.target # None => Prefix(m, loaded.progress)
      BY <2>2 DEF OpeningOK
    <3>2. loaded.progress \in [Collections -> 0 .. MaxId]
      BY DEF TypeOK, Request, Migration
    <3>3. loaded.target # None => Prefix(m, loaded.progress)'
      BY <1>3, <2>1, <3>1, <3>2
    <3> QED
      BY <1>2, <2>1, <3>1, <3>3
  <2>3. OpeningOK(p)'
    BY <1>2, <2>2, <2>a, <2>b, <2>c, <2>d, ZenonT(30) DEF OpeningOK
  <2> QED
    BY <1>2, <1>4, <2>1, <2>3 DEF RequestOK, InFlight
<1>5. CASE Running(p)
  <2>1. InFlight(p) /\ req'[p].pc \notin Opening /\ ~Finalizing(p)' /\ ~Aborting(p)'
    BY <1>2, <1>5 DEF InFlight, Running, Finalizing, Aborting, Opening, Starting, Copying
  <2>2. RunningOK(p)
    BY <1>5 DEF RequestOK
  <2> DEFINE m == req[p].mig
             c == Entities[req[p].at]
  <2>a. /\ m \in DOMAIN migs /\ IsOpen(m) /\ migs[m].target # None
        /\ m \in DOMAIN migs' /\ IsOpen(m)'
        /\ migs'[m].dir = migs[m].dir /\ migs'[m].dry = migs[m].dry
        /\ migs'[m].target = migs[m].target
        /\ dbs'[Source(m)] = dbs[Source(m)]
        /\ \A d \in Copied, i \in Ids : Transferred(m, d, i) => Transferred(m, d, i)'
    BY <1>2, <2>1, <2>2 DEF RunningOK, RunningBase
  <2>b. Source(m)' = Source(m) /\ Live' = Live
    BY <2>1, <2>a DEF Source, Live
  <2>c. Prefix(m, req[p].doc.progress)'
    <3>1. req[p].doc.progress \in [Collections -> 0 .. MaxId]
      BY DEF TypeOK, Request, Migration
    <3> QED
      BY <1>3, <2>1, <2>2, <2>a, <3>1 DEF RunningOK, RunningBase
  <2>d. ~req[p].doc.dry
    BY <2>1
  <2>e. ASSUME req[p].pc \in CopyLoop
        PROVE  /\ \A k \in 1 .. req[p].at - 1, i \in Ids : Transferred(m, Entities[k], i)'
               /\ req[p].pc # "copy.write" => \A i \in 1 .. req[p].last : Transferred(m, c, i)'
               /\ req[p].pc = "copy.write" =>
                    /\ \A d \in req[p].batch : d[2] = dbs'[req[p].source][c][d[1]]
                    /\ \A i \in 1 .. req[p].last :
                         Transferred(m, c, i)' \/ <<i, dbs'[req[p].source][c][i]>> \in req[p].batch
    <3>1. req[p].at \in DOMAIN Entities /\ req[p].source = Source(m)
      BY <2>2, <2>e DEF RunningOK, RunningBase
    <3>2. c \in Copied /\ \A k \in 1 .. req[p].at - 1 : Entities[k] \in Copied
      BY <3>1, EntitiesFacts
    <3>3. 1 .. req[p].last \subseteq Ids
      BY Constants DEF TypeOK, Request, Ids
    <3>4. dbs'[req[p].source] = dbs[req[p].source]
      BY <2>a, <3>1
    <3> QED
      BY <2>2, <2>a, <2>e, <3>2, <3>3, <3>4 DEF RunningOK, RunningBase
  <2>f. req[p].pc = "start.ready" => AllTransferred(m)'
    BY <2>2, <2>a, <2>d DEF RunningOK, RunningBase, AllTransferred
  <2>3. RunningOK(p)'
    BY <1>2, <2>2, <2>a, <2>b, <2>c, <2>d, <2>e, <2>f DEF RunningOK, RunningBase
  <2> QED
    BY <1>2, <1>5, <2>1, <2>3 DEF RequestOK, InFlight, Running
<1> QED
  BY <1>1, <1>4, <1>5 DEF TypeOK, Request, PC, InFlight, Running, Finalizing, Aborting, Opening

\* Beside a request in flight nobody finalizes, aborts or runs dry, and who
\* is about to open a migration meets only starts that copy.
LEMMA Company ==
    ASSUME IndInv, NEW r \in Requests, InFlight(r), NEW p \in Requests \ {r}, InFlight(p)
    PROVE  /\ ~Finalizing(p) /\ ~Aborting(p) /\ ~req[p].doc.dry
           /\ req[p].pc \in Opening => Running(r) /\ ~req[r].doc.dry
<1>1. RequestOK(p) /\ r \in Requests \ {p} /\ req[p].doc.dry \in BOOLEAN
  BY DEF IndInv, TypeOK, Request, Migration
<1>2. ~Finalizing(p) /\ ~Aborting(p)
  BY <1>1 DEF RequestOK, FinalizingOK, AbortingOK, NoOther
<1>3. CASE req[p].pc \in Opening
  BY <1>1, <1>2, <1>3 DEF RequestOK, OpeningOK
<1>4. CASE Running(p)
  BY <1>1, <1>2, <1>4 DEF RequestOK, RunningOK, RunningBase, NoOther, Running
<1> QED
  BY <1>2, <1>3, <1>4 DEF IndInv, TypeOK, Request, PC, InFlight, Running, Finalizing, Aborting

\* A step that moves only its own record.
LEMMA RecordMoves ==
    ASSUME IndInv, NEW r \in Requests, NEW q \in Request,
           req' = [req EXCEPT ![r] = q], UNCHANGED <<dbs, org, migs>>,
           RequestOK(r)',
           Aborting(r) => q.pc \in {"abort.clean", "abort.save"} /\ q.mig = req[r].mig,
           \A p \in Requests \ {r} : InFlight(p) =>
             /\ ~Finalizing(p) /\ ~Aborting(p) /\ ~req[p].doc.dry
             /\ req[p].pc \in Opening /\ q.pc # "idle" => q.pc \in Starting \ Opening /\ ~q.doc.dry
    PROVE  IndInv'
<1>1. TypeOK /\ TypeOK'
  BY DEF IndInv, TypeOK
<1>2. req'[r] = q /\ \A p \in Requests \ {r} : req'[p] = req[p]
  BY DEF IndInv, TypeOK
<1>3. \A m : Source(m)' = Source(m) /\ \A c, i : Transferred(m, c, i)' <=> Transferred(m, c, i)
  BY DEF Source, Transferred
<1>4. Live' = Live /\ (\A m : IsOpen(m)' <=> IsOpen(m))
  BY DEF Live, IsOpen
<1>5. \A p \in Requests : RequestOK(p)'
  <2> SUFFICES ASSUME NEW p \in Requests \ {r} PROVE RequestOK(p)'
    OBVIOUS
  <2>1. RequestOK(p)
    BY DEF IndInv
  <2>2. InFlight(r)' => q.pc # "idle"
    BY <1>2 DEF InFlight
  <2>3. q.pc \in Starting \ Opening => Running(r)'
    BY <1>2 DEF Running
  <2> QED
    BY <1>1, <1>2, <1>3, <1>4, <2>1, <2>2, <2>3, OthersKeep
<1>6. \A m : BeingAborted(m) => BeingAborted(m)'
  BY <1>2 DEF BeingAborted, Aborting
<1>7. ReadyMeansCopied' /\ ProgressIsCopied'
  BY <1>3, <1>4, <1>6 DEF IndInv, ReadyMeansCopied, ProgressIsCopied
<1>8. OneOpen' /\ OrgOK' /\ (\A m \in DOMAIN migs' : MigrationOK(m)') /\ LiveIsNewest'
  BY <1>4 DEF IndInv, OneOpen, OrgOK, MigrationOK, LiveIsNewest
<1> QED
  BY <1>1, <1>5, <1>7, <1>8 DEF IndInv

\* A start that goes on copying, by its own record.
LEMMA RunningMoves ==
    ASSUME IndInv, NEW r \in Requests, NEW q \in Request, Running(r),
           req' = [req EXCEPT ![r] = q], UNCHANGED <<dbs, org, migs>>,
           q.pc \in Starting \ Opening, q.doc = req[r].doc,
           RunningOK(r)'
    PROVE  IndInv'
<1>1. req'[r] = q
  BY DEF IndInv, TypeOK
<1>2. InFlight(r) /\ ~Aborting(r)
  BY DEF Running, InFlight, Aborting, Starting, Opening, Copying
<1>3. RequestOK(r)'
  BY <1>1 DEF RequestOK, InFlight, Running, Finalizing, Aborting, Starting, Opening, Copying
<1> QED
  BY <1>2, <1>3, Company, RecordMoves

\* A request that answers, or dies, with nothing to undo.
LEMMA FinishKeeps ==
    ASSUME IndInv, NEW r \in Requests, InFlight(r), ~Aborting(r), Finish(r),
           UNCHANGED <<dbs, org, migs>>
    PROVE  IndInv'
<1>1. req'[r] = Idle
  BY DEF Finish, IndInv, TypeOK
<1>2. RequestOK(r)'
  BY <1>1 DEF RequestOK, InFlight, Running, Finalizing, Aborting, Starting, Opening, Copying, Idle
<1> QED
  BY <1>2, IdleType, Company, RecordMoves DEF Finish, Idle

-----------------------------------------------------------------------------
(* start: steps that write nothing *)

\* Where the loop goes after the collections before `at`.
LEMMA CollectionNext ==
    ASSUME IndInv, NEW r \in Requests, Running(r), NEW at \in 1 .. Len(Entities) + 1,
           ~req[r].doc.dry =>
             \A k \in 1 .. at - 1, i \in Ids : Transferred(req[r].mig, Entities[k], i),
           Collection(r, at)
    PROVE  \E q \in Request :
             /\ req' = [req EXCEPT ![r] = q]
             /\ q.pc \in {"dry.count", "copy.begin", "start.ready"}
             /\ q.doc = req[r].doc /\ q.mig = req[r].mig /\ q.source = req[r].source
             /\ q.pc = "dry.count" => q.doc.dry /\ q.at \in DOMAIN Entities
             /\ q.pc = "copy.begin" =>
                  ~q.doc.dry /\ q.at = at /\ at \in DOMAIN Entities
                  /\ q.last = q.doc.progress[Entities[at]]
             /\ q.pc = "start.ready" /\ ~q.doc.dry => AllTransferred(q.mig)
<1> DEFINE done == at > Len(Entities)
           q == [req[r] EXCEPT
                   !.at = IF done THEN 1 ELSE at,
                   !.batch = {},
                   !.pc = IF done THEN "start.ready"
                          ELSE IF req[r].doc.dry THEN "dry.count" ELSE "copy.begin",
                   !.last = IF done THEN 0 ELSE req[r].doc.progress[Entities[at]]]
<1>1. req[r] \in Request /\ req \in [Requests -> Request]
  BY DEF IndInv, TypeOK
<1>2. req' = [req EXCEPT ![r] = q]
  BY <1>1 DEF Collection
<1>3. ~done => at \in DOMAIN Entities /\ Entities[at] \in Collections
  BY EntitiesFacts
<1>4. q \in Request
  <2>1. (IF done THEN 1 ELSE at) \in 1 .. 3
    <3>1. at \in 1 .. 3 /\ (~done => at <= Len(Entities))
      BY EntitiesFacts
    <3> HIDE DEF done
    <3> QED
      BY <3>1
  <2>2. (IF done THEN 0 ELSE req[r].doc.progress[Entities[at]]) \in 0 .. MaxId
    BY <1>1, <1>3, Constants DEF Request, Migration
  <2>3. {} \in SUBSET (Ids \X (0 .. MaxVersion))
    OBVIOUS
  <2> HIDE DEF done
  <2> QED
    BY <1>1, <2>1, <2>2, <2>3 DEF Request, PC, Starting, Copying
<1>5. done /\ ~req[r].doc.dry => AllTransferred(req[r].mig)
  <2> SUFFICES ASSUME done, ~req[r].doc.dry, NEW c \in Copied, NEW i \in Ids
               PROVE  Transferred(req[r].mig, c, i)
    BY DEF AllTransferred
  <2>1. PICK k \in DOMAIN Entities : Entities[k] = c
    BY EntitiesFacts
  <2>2. k \in 1 .. at - 1
    BY EntitiesFacts
  <2> QED
    BY <2>1, <2>2
<1>6. /\ q.pc = IF done THEN "start.ready" ELSE IF req[r].doc.dry THEN "dry.count" ELSE "copy.begin"
      /\ q.doc = req[r].doc /\ q.mig = req[r].mig /\ q.source = req[r].source
      /\ q.at = (IF done THEN 1 ELSE at)
      /\ q.last = IF done THEN 0 ELSE req[r].doc.progress[Entities[at]]
  BY <1>1 DEF Request
<1> HIDE DEF q, done
<1> QED
  BY <1>2, <1>3, <1>4, <1>5, <1>6

\* What holds of a start wherever it is stays true of a step that moves only
\* its own record.
LEMMA BaseKept ==
    ASSUME IndInv, NEW r \in Requests, Running(r), NEW q \in Request,
           req' = [req EXCEPT ![r] = q], UNCHANGED <<dbs, org, migs>>,
           q.doc = req[r].doc, q.mig = req[r].mig, q.source = req[r].source
    PROVE  /\ RunningBase(r)' /\ req'[r] = q
           /\ \A m : \A c, i : Transferred(m, c, i)' <=> Transferred(m, c, i)
<1>1. req'[r] = q /\ \A p \in Requests \ {r} : req'[p] = req[p]
  BY DEF IndInv, TypeOK
<1>2. RunningOK(r)
  BY DEF IndInv, RequestOK
<1>3. \A m : Source(m)' = Source(m) /\ (IsOpen(m)' <=> IsOpen(m))
  BY DEF Source, IsOpen
<1>4. \A m : \A c, i : Transferred(m, c, i)' <=> Transferred(m, c, i)
  BY <1>3 DEF Transferred
<1>5. Live' = Live
  BY DEF Live
<1>6. Prefix(q.mig, q.doc.progress)'
  BY <1>2, <1>4 DEF RunningOK, RunningBase, Prefix
<1>7. req[r].doc.dry => NoOther(r)'
  BY <1>1, <1>2 DEF RunningOK, RunningBase, NoOther, InFlight
<1> QED
  BY <1>1, <1>2, <1>3, <1>4, <1>5, <1>6, <1>7 DEF RunningOK, RunningBase

LEMMA CollectionKeeps ==
    ASSUME IndInv, NEW r \in Requests, Running(r), NEW at \in 1 .. Len(Entities) + 1,
           ~req[r].doc.dry =>
             \A k \in 1 .. at - 1, i \in Ids : Transferred(req[r].mig, Entities[k], i),
           Collection(r, at), UNCHANGED <<dbs, org, migs>>
    PROVE  IndInv'
<1>1. PICK q \in Request :
             /\ req' = [req EXCEPT ![r] = q]
             /\ q.pc \in {"dry.count", "copy.begin", "start.ready"}
             /\ q.doc = req[r].doc /\ q.mig = req[r].mig /\ q.source = req[r].source
             /\ q.pc = "dry.count" => q.doc.dry /\ q.at \in DOMAIN Entities
             /\ q.pc = "copy.begin" =>
                  ~q.doc.dry /\ q.at = at /\ at \in DOMAIN Entities
                  /\ q.last = q.doc.progress[Entities[at]]
             /\ q.pc = "start.ready" /\ ~q.doc.dry => AllTransferred(q.mig)
  BY CollectionNext
<1>2. /\ RunningBase(r)' /\ req'[r] = q
      /\ \A m : \A c, i : Transferred(m, c, i)' <=> Transferred(m, c, i)
  BY <1>1, BaseKept
<1>3. q.pc = "copy.begin" => \A i \in 1 .. q.last : Transferred(q.mig, Entities[at], i)'
  BY <1>1, <1>2, EntitiesFacts DEF RunningBase, Prefix
<1>4. q.pc = "start.ready" /\ ~q.doc.dry => AllTransferred(q.mig)'
  BY <1>1, <1>2 DEF AllTransferred
<1>5. RunningOK(r)'
  BY <1>1, <1>2, <1>3, <1>4 DEF RunningOK, RunningBase, CopyLoop
<1> QED
  BY <1>1, <1>5, RunningMoves DEF Starting, Opening, Copying

LEMMA StartConnectKeeps ==
    ASSUME IndInv, NEW r \in Requests, StartConnect(r)
    PROVE  IndInv'
<1>1. Running(r) /\ 1 \in 1 .. Len(Entities) + 1 /\ Collection(r, 1) /\ UNCHANGED <<dbs, org, migs>>
  BY EntitiesFacts DEF StartConnect, Running, Starting, Opening
<1>2. \A k \in 1 .. 1 - 1, i \in Ids : Transferred(req[r].mig, Entities[k], i)
  OBVIOUS
<1> QED
  BY <1>1, <1>2, CollectionKeeps

LEMMA StartErrorKeeps ==
    ASSUME IndInv, NEW r \in Requests, StartError(r)
    PROVE  IndInv'
<1> DEFINE q == [req[r] EXCEPT !.pc = "start.failed"]
<1>1. req[r] \in Request /\ req \in [Requests -> Request]
  BY DEF IndInv, TypeOK
<1>2. req' = [req EXCEPT ![r] = q] /\ UNCHANGED <<dbs, org, migs>> /\ Running(r)
  BY <1>1 DEF StartError, Goto, Running, Starting, Opening, Copying
<1>3. q \in Request /\ q.pc = "start.failed" /\ q.doc = req[r].doc /\ q.mig = req[r].mig
      /\ q.source = req[r].source
  BY <1>1 DEF Request, PC, Starting
<1> HIDE DEF q
<1>4. RunningBase(r)' /\ req'[r] = q
  BY <1>2, <1>3, BaseKept
<1>5. RunningOK(r)'
  BY <1>3, <1>4 DEF RunningOK, CopyLoop
<1> QED
  BY <1>2, <1>3, <1>5, RunningMoves DEF Starting, Opening

LEMMA CopyFindKeeps ==
    ASSUME IndInv, NEW r \in Requests, CopyFind(r)
    PROVE  IndInv'
<1> DEFINE m == req[r].mig
           c == Entities[req[r].at]
           docs == dbs[req[r].source][c]
           rest == Rest(docs, req[r].last)
<1>1. req[r] \in Request /\ req \in [Requests -> Request] /\ req[r].last \in Nat
  BY Constants DEF IndInv, TypeOK, Request
<1>2. Running(r) /\ RunningOK(r) /\ req[r].pc = "copy.find" /\ UNCHANGED <<dbs, org, migs>>
  BY DEF CopyFind, Running, Starting, Opening, Copying, IndInv, RequestOK
<1>3. /\ ~req[r].doc.dry /\ req[r].at \in DOMAIN Entities
      /\ \A k \in 1 .. req[r].at - 1, i \in Ids : Transferred(m, Entities[k], i)
      /\ \A i \in 1 .. req[r].last : Transferred(m, c, i)
      /\ req[r].source = Source(m)
  BY <1>2 DEF RunningOK, RunningBase, CopyLoop
<1>4. \A i \in Ids : docs[i] = 0 => Transferred(m, c, i)
  BY <1>3 DEF Transferred
<1>5. CASE rest = {} /\ Collection(r, req[r].at + 1)
  <2>1. \A i \in Ids : Transferred(m, c, i)
    <3> SUFFICES ASSUME NEW i \in Ids PROVE Transferred(m, c, i)
      OBVIOUS
    <3>1. i \in 1 .. req[r].last \/ i > req[r].last
      BY <1>1 DEF Ids
    <3> QED
      BY <1>3, <1>4, <1>5, <3>1 DEF Rest
  <2>2. req[r].at + 1 \in 1 .. Len(Entities) + 1 /\ req[r].at \in Nat
    BY <1>3, EntitiesFacts
  <2>3. \A k \in 1 .. (req[r].at + 1) - 1, i \in Ids : Transferred(m, Entities[k], i)
    <3> SUFFICES ASSUME NEW k \in 1 .. (req[r].at + 1) - 1, NEW i \in Ids
                 PROVE  Transferred(m, Entities[k], i)
      OBVIOUS
    <3>1. k \in 1 .. req[r].at - 1 \/ k = req[r].at
      BY <2>2
    <3> QED
      BY <1>3, <2>1, <3>1
  <2> QED
    BY <1>2, <1>5, <2>2, <2>3, CollectionKeeps
<1>6. CASE \E chunk \in SUBSET rest, last \in rest :
            /\ IsChunk(chunk, rest) /\ last \in chunk /\ \A i \in chunk : i <= last
            /\ req' = [req EXCEPT ![r].pc = "copy.write",
                                  ![r].batch = {<<i, docs[i]>> : i \in chunk},
                                  ![r].last = last]
  <2>1. PICK chunk \in SUBSET rest, last \in rest :
            /\ IsChunk(chunk, rest) /\ last \in chunk /\ \A i \in chunk : i <= last
            /\ req' = [req EXCEPT ![r].pc = "copy.write",
                                  ![r].batch = {<<i, docs[i]>> : i \in chunk},
                                  ![r].last = last]
    BY <1>6
  <2> DEFINE batch == {<<i, docs[i]>> : i \in chunk}
             q == [req[r] EXCEPT !.pc = "copy.write", !.batch = batch, !.last = last]
  <2>2. req' = [req EXCEPT ![r] = q]
    BY <1>1, <2>1
  <2>3. rest \subseteq Ids
    BY DEF Rest
  <2>4. \A i \in Ids : docs[i] \in 0 .. MaxVersion
    <3>1. c \in Collections /\ req[r].source \in DB
      BY <1>1, <1>3, EntitiesFacts DEF Request
    <3> QED
      BY <3>1 DEF IndInv, TypeOK
  <2>5. batch \in SUBSET (Ids \X (0 .. MaxVersion))
    <3> HIDE DEF docs, rest
    <3>1. \A i \in chunk : i \in Ids /\ docs[i] \in 0 .. MaxVersion
      BY <2>3, <2>4
    <3> QED
      BY <3>1
  <2>6. q \in Request
    <3> HIDE DEF batch
    <3>1. last \in 0 .. MaxId
      BY <2>3, Constants DEF Ids
    <3> QED
      BY <1>1, <2>5, <3>1 DEF Request, PC, Starting, Copying
  <2>7. q.pc = "copy.write" /\ q.doc = req[r].doc /\ q.mig = m /\ q.source = req[r].source
        /\ q.at = req[r].at /\ q.batch = batch /\ q.last = last
    BY <1>1 DEF Request
  <2>8. \A d \in batch : d[2] = docs[d[1]]
    <3> HIDE DEF docs, rest
    <3> QED
      OBVIOUS
  <2>9. \A i \in 1 .. last : Transferred(m, c, i) \/ <<i, docs[i]>> \in batch
    <3> SUFFICES ASSUME NEW i \in 1 .. last PROVE Transferred(m, c, i) \/ i \in chunk
      OBVIOUS
    <3>1. i \in Ids /\ last \in Ids
      BY <2>3, Constants DEF Ids
    <3>2. CASE i <= req[r].last
      BY <1>1, <1>3, <3>1, <3>2 DEF Ids
    <3>3. CASE i > req[r].last /\ docs[i] = 0
      BY <1>4, <3>1, <3>3
    <3>4. CASE i \in rest
      <4> HIDE DEF rest
      <4>1. i \notin chunk => last < i
        BY <2>1, <3>4 DEF IsChunk
      <4> QED
        BY <3>1, <4>1, Constants
    <3> QED
      BY <1>1, <3>1, <3>2, <3>3, <3>4, Constants DEF Rest
  <2> HIDE DEF q, batch
  <2>10. /\ RunningBase(r)' /\ req'[r] = q
         /\ \A n : \A d, i : Transferred(n, d, i)' <=> Transferred(n, d, i)
    BY <1>2, <2>2, <2>6, <2>7, BaseKept
  <2>11. RunningOK(r)'
    BY <1>2, <1>3, <2>7, <2>8, <2>9, <2>10 DEF RunningOK, CopyLoop
  <2> QED
    BY <1>2, <2>2, <2>6, <2>7, <2>11, RunningMoves DEF Starting, Opening, Copying
<1> QED
  BY <1>5, <1>6 DEF CopyFind

LEMMA CrashKeeps ==
    ASSUME Careful, IndInv, NEW r \in Requests, Crash(r)
    PROVE  IndInv'
<1>1. ~Aborting(r)
  BY DEF Crash, Careful
<1> QED
  BY <1>1, FinishKeeps DEF Crash

LEMMA BeginStartKeeps ==
    ASSUME Careful, IndInv, NEW r \in Requests, NEW dir \in Directions, NEW dry \in BOOLEAN,
           NEW t \in Dedicated \cup {None}, BeginStart(r, dir, dry, t)
    PROVE  IndInv'
<1> DEFINE target == IF dir = "dedicated_to_shared" THEN Shared
                     ELSE IF t # None THEN t ELSE org.uri
           source == IF dir = "dedicated_to_shared" THEN org.uri ELSE Shared
           doc == [Blank EXCEPT !.dir = dir, !.dry = dry, !.target = target]
           q == [Idle EXCEPT !.pc = "start.find", !.doc = doc, !.given = (t # None), !.source = source]
<1>1. req \in [Requests -> Request] /\ org \in [dedicated : BOOLEAN, uri : Dedicated \cup {None}]
  BY DEF IndInv, TypeOK
<1>2. ~InFlight(r) /\ MayStart(dir, dry, t) /\ UNCHANGED <<dbs, org, migs>>
      /\ (dir = "dedicated_to_shared" => org.dedicated /\ org.uri # None /\ t = None)
  BY DEF BeginStart
<1>3. req[r] = Idle
  BY <1>2 DEF IndInv, RequestOK
<1>4. req' = [req EXCEPT ![r] = q]
  BY <1>1, <1>3 DEF BeginStart
<1>5. /\ \A p \in Requests : InFlight(p) => Running(p) /\ ~req[p].doc.dry /\ ~dry
      /\ dir = "dedicated_to_shared" \/ ~org.dedicated
      /\ \A m \in DOMAIN migs : IsOpen(m) =>
           migs[m].dir = dir /\ (t # None => migs[m].target \in {None, t})
  BY <1>2 DEF MayStart, Careful, Running
<1>6. target \in DB \cup {None} /\ source \in DB
  BY <1>1, <1>2, Constants
<1>7. doc \in Migration /\ doc.dir = dir /\ doc.dry = dry /\ doc.target = target
      /\ doc.status = "in_progress" /\ doc.progress = NoProgress
  <2> HIDE DEF target
  <2> QED
    BY <1>6, BlankType DEF Blank, Migration
<1>8. q \in Request /\ q.pc = "start.find" /\ q.doc = doc /\ q.given = (t # None) /\ q.source = source
      /\ q.mig = 0
  <2> HIDE DEF doc, source
  <2> QED
    BY <1>6, <1>7, IdleType DEF Idle, Request, PC, Starting, Opening
<1>9. source = SourceOf(dir)' /\ source = Live'
  BY <1>1, <1>2, <1>5 DEF SourceOf, Live
<1>10. req'[r] = q /\ \A p \in Requests \ {r} : req'[p] = req[p]
  BY <1>1, <1>4
<1>11. /\ dir = "dedicated_to_shared" => target = Shared /\ org.uri # None
       /\ dir = "shared_to_dedicated" => target \in Dedicated \cup {None} /\ ~org.dedicated
       /\ t # None => target # None /\ target = t
  BY <1>1, <1>2, <1>5, DatastoreMigrationAssumption DEF Directions
<1> HIDE DEF q, doc, target, source
<1>12. OpeningOK(r)'
  <2>1. \A p \in Requests \ {r} : InFlight(p)' => Running(p)' /\ ~req'[p].doc.dry /\ ~dry
    BY <1>5, <1>10 DEF InFlight, Running
  <2>2. \A m \in DOMAIN migs' : IsOpen(m)' => IsOpen(m) /\ migs'[m] = migs[m]
    BY <1>2 DEF IsOpen
  <2> QED
    BY <1>2, <1>5, <1>7, <1>8, <1>9, <1>10, <1>11, <2>1, <2>2 DEF OpeningOK
<1>13. RequestOK(r)'
  BY <1>8, <1>10, <1>12 DEF RequestOK, InFlight, Running, Finalizing, Aborting, Opening
<1>14. \A p \in Requests \ {r} : InFlight(p) =>
         ~Finalizing(p) /\ ~Aborting(p) /\ ~req[p].doc.dry /\ req[p].pc \notin Opening
  BY <1>5 DEF Running, Finalizing, Aborting, Starting, Opening, Copying
<1>15. ~Aborting(r)
  BY <1>2 DEF InFlight, Aborting
<1> QED
  BY <1>2, <1>4, <1>8, <1>13, <1>14, <1>15, RecordMoves

LEMMA StartFindKeeps ==
    ASSUME IndInv, NEW r \in Requests, StartFind(r)
    PROVE  IndInv'
<1> DEFINE ask == req[r].doc
           found == Found(ask.dir)
<1>1. req \in [Requests -> Request] /\ req[r] \in Request /\ migs \in Seq(Migration)
      /\ Len(migs) <= MaxMigrations
  BY DEF IndInv, TypeOK
<1>2. req[r].pc = "start.find" /\ UNCHANGED <<dbs, org, migs>> /\ InFlight(r) /\ ~Aborting(r)
      /\ ~Running(r)
  BY DEF StartFind, InFlight, Aborting, Running, Opening
<1>3. OpeningOK(r)
  BY <1>2 DEF IndInv, RequestOK, Opening
<1>4. ASSUME NEW q \in Request, req' = [req EXCEPT ![r] = q],
             q.pc = "start.open", q.doc = ask, q.given = req[r].given, q.source = req[r].source,
             \/ q.mig = 0 /\ found = {} /\ Len(migs) < MaxMigrations
             \/ q.mig \in found /\ q.loaded = migs[q.mig]
      PROVE  IndInv'
  <2>1. req'[r] = q /\ \A p \in Requests \ {r} : req'[p] = req[p]
    BY <1>1, <1>4
  <2>2. Live' = Live /\ (\A dir : SourceOf(dir)' = SourceOf(dir)) /\ (\A m : IsOpen(m)' <=> IsOpen(m))
        /\ \A m : \A progress : Prefix(m, progress)' <=> Prefix(m, progress)
    BY <1>2 DEF Live, SourceOf, IsOpen, Prefix, Transferred, Source
  <2>3. CASE q.mig = 0 /\ found = {} /\ Len(migs) < MaxMigrations
    <3>1. \A m \in DOMAIN migs : ~IsOpen(m)
      BY <1>3, <2>3 DEF OpeningOK, Found
    <3>2. OpeningOK(r)'
      BY <1>2, <1>3, <1>4, <2>1, <2>2, <2>3, <3>1 DEF OpeningOK, InFlight, Running
    <3>3. RequestOK(r)'
      BY <1>4, <2>1, <3>2 DEF RequestOK, InFlight, Running, Finalizing, Aborting, Opening
    <3> QED
      BY <1>2, <1>4, <3>3, Company, RecordMoves
  <2>4. CASE q.mig \in found /\ q.loaded = migs[q.mig]
    <3>1. q.mig \in DOMAIN migs /\ IsOpen(q.mig)
      BY <2>4 DEF Found
    <3>2. ~BeingAborted(q.mig)
      BY <1>2, Company DEF BeingAborted, Aborting, InFlight
    <3>3. Prefix(q.mig, q.loaded.progress)
      BY <2>4, <3>1, <3>2 DEF IndInv, ProgressIsCopied, Prefix
    <3>4. q.loaded.target = None => q.loaded.progress = NoProgress
      BY <2>4, <3>1 DEF IndInv, MigrationOK
    <3>5. OpeningOK(r)'
      <4>1. \A p \in Requests \ {r} : InFlight(p)' => Running(p)' /\ ~req'[p].doc.dry /\ ~ask.dry
        BY <1>3, <2>1 DEF OpeningOK, InFlight, Running
      <4>2. \A n \in DOMAIN migs' : IsOpen(n)' =>
              migs'[n].dir = ask.dir /\ (q.given => migs'[n].target \in {None, ask.target})
        BY <1>2, <1>3, <1>4, <2>2 DEF OpeningOK
      <4>3. /\ q.mig \in DOMAIN migs' /\ IsOpen(q.mig)' /\ q.loaded = migs'[q.mig]
            /\ Prefix(q.mig, q.loaded.progress)'
        <5>1. PICK m, progress : m = q.mig /\ progress = q.loaded.progress
          OBVIOUS
        <5>2. Prefix(m, progress)' /\ IsOpen(m)'
          BY <2>2, <3>1, <3>3, <5>1
        <5> QED
          BY <1>2, <2>4, <3>1, <5>1, <5>2
      <4>4. /\ ask.status = "in_progress" /\ ask.progress = NoProgress
            /\ req[r].source = SourceOf(ask.dir) /\ req[r].source = Live
            /\ ask.dir = "dedicated_to_shared" => ask.target = Shared /\ org.uri # None
            /\ ask.dir = "shared_to_dedicated" => ask.target \in Dedicated \cup {None} /\ ~org.dedicated
            /\ req[r].given => ask.target # None
        BY <1>3 DEF OpeningOK
      <4> HIDE DEF ask
      <4> QED
        BY <1>2, <1>4, <2>1, <2>2, <3>4, <4>1, <4>2, <4>3, <4>4, ZenonT(30) DEF OpeningOK
    <3>6. RequestOK(r)'
      BY <1>4, <2>1, <3>5 DEF RequestOK, InFlight, Running, Finalizing, Aborting, Opening
    <3> QED
      BY <1>2, <1>4, <3>6, Company, RecordMoves
  <2> QED
    BY <1>4, <2>3, <2>4
<1>5. CASE found = {} /\ Len(migs) < MaxMigrations /\ Goto(r, "start.open")
  <2> DEFINE q == [req[r] EXCEPT !.pc = "start.open"]
  <2>1. req' = [req EXCEPT ![r] = q]
    BY <1>1, <1>5 DEF Goto
  <2>2. q \in Request
    BY <1>1 DEF Request, PC, Starting, Opening
  <2>3. q.pc = "start.open" /\ q.doc = ask /\ q.given = req[r].given
        /\ q.source = req[r].source /\ q.mig = req[r].mig
    BY <1>1 DEF Request
  <2>4. req[r].mig = 0
    BY <1>2, <1>3 DEF OpeningOK
  <2> HIDE DEF q
  <2> QED
    BY <1>4, <1>5, <2>1, <2>2, <2>3, <2>4
<1>6. CASE Finish(r)
  BY <1>2, <1>6, FinishKeeps
<1>7. CASE \E m \in found :
             /\ \A k \in found : k <= m
             /\ req' = [req EXCEPT ![r].pc = "start.open", ![r].mig = m, ![r].loaded = migs[m]]
  <2>1. PICK m \in found :
             req' = [req EXCEPT ![r].pc = "start.open", ![r].mig = m, ![r].loaded = migs[m]]
    BY <1>7
  <2> DEFINE q == [req[r] EXCEPT !.pc = "start.open", !.mig = m, !.loaded = migs[m]]
  <2>2. req' = [req EXCEPT ![r] = q]
    BY <1>1, <2>1
  <2>3. m \in 0 .. MaxMigrations /\ migs[m] \in Migration
    BY <1>1, Constants DEF Found
  <2>4. q \in Request
    BY <1>1, <2>3 DEF Request, PC, Starting, Opening
  <2>5. q.pc = "start.open" /\ q.doc = ask /\ q.given = req[r].given
        /\ q.source = req[r].source /\ q.mig = m /\ q.loaded = migs[m]
    BY <1>1 DEF Request
  <2> HIDE DEF q
  <2> QED
    BY <1>4, <2>2, <2>4, <2>5
<1> QED
  BY <1>5, <1>6, <1>7 DEF StartFind

-----------------------------------------------------------------------------
(* finalize and abort: steps that write nothing *)

LEMMA BeginFinalizeKeeps ==
    ASSUME Careful, IndInv, NEW r \in Requests, NEW m \in DOMAIN migs, BeginFinalize(r, m)
    PROVE  IndInv'
<1> DEFINE q == [req[r] EXCEPT !.pc = "final.org", !.mig = m, !.doc = migs[m]]
<1>1. req \in [Requests -> Request] /\ req[r] \in Request /\ migs \in Seq(Migration)
      /\ Len(migs) <= MaxMigrations
  BY DEF IndInv, TypeOK
<1>2. /\ \A p \in Requests : ~InFlight(p)
      /\ migs[m].status = "ready_for_cutover" /\ ~migs[m].dry
      /\ UNCHANGED <<dbs, org, migs>>
  BY DEF BeginFinalize, MayFinish, Careful
<1>3. req' = [req EXCEPT ![r] = q]
  BY <1>1 DEF BeginFinalize
<1>4. m \in 0 .. MaxMigrations /\ migs[m] \in Migration
  BY <1>1, Constants
<1>5. q \in Request /\ q.pc = "final.org" /\ q.mig = m /\ q.doc = migs[m]
  BY <1>1, <1>4 DEF Request, PC
<1> HIDE DEF q
<1>6. req'[r] = q /\ \A p \in Requests \ {r} : req'[p] = req[p]
  BY <1>1, <1>3
<1>7. FinalizingOK(r)'
  BY <1>2, <1>5, <1>6 DEF FinalizingOK, NoOther, InFlight
<1>8. RequestOK(r)'
  BY <1>5, <1>6, <1>7 DEF RequestOK, InFlight, Running, Finalizing, Aborting, Starting, Opening, Copying
<1>9. ~Aborting(r)
  BY <1>2 DEF InFlight, Aborting
<1> QED
  BY <1>2, <1>3, <1>5, <1>8, <1>9, RecordMoves

LEMMA BeginAbortKeeps ==
    ASSUME Careful, IndInv, NEW r \in Requests, NEW m \in DOMAIN migs, BeginAbort(r, m)
    PROVE  IndInv'
<1> DEFINE pc == IF migs[m].dry \/ migs[m].target = None THEN "abort.save" ELSE "abort.clean"
           q == [req[r] EXCEPT !.pc = pc, !.mig = m, !.doc = migs[m]]
<1>1. req \in [Requests -> Request] /\ req[r] \in Request /\ migs \in Seq(Migration)
      /\ Len(migs) <= MaxMigrations
  BY DEF IndInv, TypeOK
<1>2. /\ \A p \in Requests : ~InFlight(p)
      /\ IsOpen(m) /\ migs[m].target # Live
      /\ UNCHANGED <<dbs, org, migs>>
  BY DEF BeginAbort, MayFinish, MayAbort, Careful
<1>3. req' = [req EXCEPT ![r] = q]
  BY <1>1 DEF BeginAbort
<1>4. m \in 0 .. MaxMigrations /\ migs[m] \in Migration
  BY <1>1, Constants
<1>5. pc \in {"abort.save", "abort.clean"} /\ (pc = "abort.clean" => migs[m].target # None)
  OBVIOUS
<1> HIDE DEF pc
<1>6. q \in Request /\ q.pc = pc /\ q.mig = m /\ q.doc = migs[m] /\ q.at = req[r].at
  BY <1>1, <1>4, <1>5 DEF Request, PC
<1> HIDE DEF q
<1>7. req'[r] = q /\ \A p \in Requests \ {r} : req'[p] = req[p]
  BY <1>1, <1>3
<1>8. req[r].at = 1 /\ 1 \in DOMAIN Entities
  <2>1. req[r] = Idle
    BY <1>2 DEF IndInv, RequestOK
  <2> QED
    BY <2>1, EntitiesFacts DEF Idle
<1>9. AbortingOK(r)'
  BY <1>2, <1>5, <1>6, <1>7, <1>8 DEF AbortingOK, NoOther, InFlight, IsOpen, Live
<1>10. RequestOK(r)'
  BY <1>5, <1>6, <1>7, <1>9 DEF RequestOK, InFlight, Running, Finalizing, Aborting, Starting,
     Opening, Copying
<1>11. ~Aborting(r)
  BY <1>2 DEF InFlight, Aborting
<1> QED
  BY <1>2, <1>3, <1>6, <1>10, <1>11, RecordMoves

LEMMA AbortCleanErrorKeeps ==
    ASSUME IndInv, NEW r \in Requests, AbortCleanError(r)
    PROVE  IndInv'
<1> DEFINE q == [req[r] EXCEPT !.pc = "abort.save", !.at = 1]
<1>1. req \in [Requests -> Request] /\ req[r] \in Request
  BY DEF IndInv, TypeOK
<1>2. Aborting(r) /\ InFlight(r) /\ AbortingOK(r) /\ UNCHANGED <<dbs, org, migs>>
  BY DEF AbortCleanError, Aborting, InFlight, IndInv, RequestOK
<1>3. req' = [req EXCEPT ![r] = q]
  BY <1>1 DEF AbortCleanError
<1>4. q \in Request /\ q.pc = "abort.save" /\ q.mig = req[r].mig /\ q.doc = req[r].doc
  <2>1. 1 \in 1 .. 3 /\ "abort.save" \in PC
    BY DEF PC
  <2> QED
    BY <1>1, <2>1 DEF Request
<1> HIDE DEF q
<1>5. req'[r] = q /\ \A p \in Requests \ {r} : req'[p] = req[p]
  BY <1>1, <1>3
<1>6. AbortingOK(r)'
  BY <1>2, <1>4, <1>5 DEF AbortingOK, NoOther, InFlight, IsOpen, Live
<1>7. RequestOK(r)'
  BY <1>4, <1>5, <1>6 DEF RequestOK, InFlight, Running, Finalizing, Aborting, Starting, Opening, Copying
<1>8. \A p \in Requests \ {r} : ~InFlight(p)
  BY <1>2 DEF AbortingOK, NoOther
<1> QED
  BY <1>2, <1>3, <1>4, <1>7, <1>8, RecordMoves

-----------------------------------------------------------------------------
(* start: steps that write the migration it works on *)

\* What such a step leaves of the migrations, when it only changes progress
\* or status.
SameRoute(m, x) ==
    x.dir = migs[m].dir /\ x.dry = migs[m].dry /\ x.target = migs[m].target

LEMMA RouteKept ==
    ASSUME TypeOK, NEW m \in DOMAIN migs, NEW x \in Migration, SameRoute(m, x),
           migs' = [migs EXCEPT ![m] = x], UNCHANGED <<dbs, org>>
    PROVE  /\ Len(migs') = Len(migs) /\ DOMAIN migs' = DOMAIN migs
           /\ migs' \in Seq(Migration)
           /\ migs'[m] = x /\ \A n \in DOMAIN migs \ {m} : migs'[n] = migs[n]
           /\ Live' = Live
           /\ \A n \in DOMAIN migs :
                /\ migs'[n].dir = migs[n].dir /\ migs'[n].dry = migs[n].dry
                /\ migs'[n].target = migs[n].target
                /\ Source(n)' = Source(n)
                /\ \A c, i : Transferred(n, c, i)' <=> Transferred(n, c, i)
<1>1. migs \in Seq(Migration)
  BY DEF TypeOK
<1>2. Len(migs') = Len(migs) /\ DOMAIN migs' = DOMAIN migs /\ migs' \in Seq(Migration)
      /\ migs'[m] = x /\ \A n \in DOMAIN migs \ {m} : migs'[n] = migs[n]
  BY <1>1
<1>3. \A n \in DOMAIN migs :
        migs'[n].dir = migs[n].dir /\ migs'[n].dry = migs[n].dry /\ migs'[n].target = migs[n].target
  BY <1>2 DEF SameRoute
<1>4. \A n \in DOMAIN migs : Source(n)' = Source(n)
  BY <1>3 DEF Source
<1>5. \A n \in DOMAIN migs : \A c, i : Transferred(n, c, i)' <=> Transferred(n, c, i)
  BY <1>3, <1>4 DEF Transferred
<1> QED
  BY <1>2, <1>3, <1>4, <1>5 DEF Live

LEMMA SaveKeeps ==
    ASSUME IndInv, NEW r \in Requests, Running(r), NEW q \in Request, NEW x \in Migration,
           NEW m, m = req[r].mig,
           SameRoute(m, x), x.status \in Open, Prefix(m, x.progress),
           x.status = "ready_for_cutover" /\ migs[m].status # "ready_for_cutover" =>
             ~x.dry /\ AllTransferred(m),
           migs' = [migs EXCEPT ![m] = x],
           req' = [req EXCEPT ![r] = q], UNCHANGED <<dbs, org>>,
           q = Idle \/ (Running(r)' /\ RunningOK(r)' /\ q.doc.dry = req[r].doc.dry)
    PROVE  IndInv'
<1>1. TypeOK /\ RunningOK(r) /\ InFlight(r) /\ ~Aborting(r)
  BY DEF IndInv, RequestOK, Running, InFlight, Aborting, Starting, Opening, Copying
<1>2. m \in DOMAIN migs /\ IsOpen(m) /\ migs[m].target # None
      /\ req[r].doc.dry = migs[m].dry
  BY <1>1 DEF RunningOK, RunningBase
<1>3. /\ Len(migs') = Len(migs) /\ DOMAIN migs' = DOMAIN migs
      /\ migs' \in Seq(Migration)
      /\ migs'[m] = x /\ \A n \in DOMAIN migs \ {m} : migs'[n] = migs[n]
      /\ Live' = Live
      /\ \A n \in DOMAIN migs :
           /\ migs'[n].dir = migs[n].dir /\ migs'[n].dry = migs[n].dry
           /\ migs'[n].target = migs[n].target
           /\ Source(n)' = Source(n)
           /\ \A c, i : Transferred(n, c, i)' <=> Transferred(n, c, i)
  BY <1>1, <1>2, RouteKept
<1>4. req'[r] = q /\ (\A p \in Requests \ {r} : req'[p] = req[p]) /\ TypeOK'
  BY <1>1, <1>3 DEF TypeOK
<1>5. \A n \in DOMAIN migs : IsOpen(n)' <=> IsOpen(n)
  BY <1>2, <1>3 DEF IsOpen
<1>6. RequestOK(r)'
  <2>1. CASE q = Idle
    BY <1>4, <2>1 DEF RequestOK, InFlight, Running, Finalizing, Aborting, Starting, Opening, Copying, Idle
  <2>2. CASE Running(r)' /\ RunningOK(r)'
    BY <2>2 DEF RequestOK, InFlight, Running, Finalizing, Aborting, Starting, Opening, Copying
  <2> QED
    BY <2>1, <2>2
<1>7. ASSUME NEW p \in Requests \ {r} PROVE RequestOK(p)'
  <2>1. CASE ~InFlight(p)
    BY <1>4, <2>1 DEF IndInv, RequestOK, InFlight, Running, Finalizing, Aborting, Starting,
       Opening, Copying, Idle
  <2>2. CASE InFlight(p)
    <3>1. /\ ~Finalizing(p) /\ ~Aborting(p) /\ ~req[p].doc.dry
          /\ req[p].pc \in Opening => Running(r) /\ ~req[r].doc.dry
      BY <1>1, <2>2, Company
    <3>2. InFlight(r)' => q # Idle
      BY <1>4 DEF InFlight, Idle
    <3> QED
      BY <1>1, <1>3, <1>4, <1>5, <2>2, <3>1, <3>2, OthersKeep DEF IndInv
  <2> QED
    BY <2>1, <2>2
<1>8. \A n : ~BeingAborted(n) /\ ~BeingAborted(n)'
  <2>1. \A p \in Requests : ~Aborting(p)
    BY <1>1, Company DEF InFlight, Aborting
  <2>2. \A p \in Requests : ~Aborting(p)'
    BY <1>4, <2>1 DEF Aborting, Idle, Running, Starting, Opening, Copying
  <2> QED
    BY <2>1, <2>2 DEF BeingAborted
<1>9. OneOpen' /\ OrgOK' /\ LiveIsNewest'
  BY <1>3, <1>5 DEF IndInv, OneOpen, OrgOK, LiveIsNewest
<1>10. \A n \in DOMAIN migs' : MigrationOK(n)'
  <2>1. MigrationOK(m)'
    BY <1>2, <1>3, <1>5 DEF IndInv, MigrationOK
  <2>2. \A n \in DOMAIN migs \ {m} : MigrationOK(n)'
    BY <1>3, <1>5 DEF IndInv, MigrationOK
  <2> QED
    BY <1>3, <2>1, <2>2
<1>11. ReadyMeansCopied'
  <2>1. ASSUME NEW n \in DOMAIN migs, migs'[n].status = "ready_for_cutover", ~migs'[n].dry
        PROVE  \A c \in Copied, i \in Ids : Transferred(n, c, i)
    BY <1>3, <1>8, <2>1 DEF IndInv, ReadyMeansCopied, AllTransferred
  <2> QED
    BY <1>3, <2>1 DEF ReadyMeansCopied
<1>12. ProgressIsCopied'
  <2>1. \A n \in DOMAIN migs : IsOpen(n) => Prefix(n, migs'[n].progress)
    BY <1>2, <1>3, <1>8 DEF IndInv, ProgressIsCopied, Prefix
  <2> QED
    BY <1>3, <1>5, <2>1 DEF ProgressIsCopied, Prefix
<1> QED
  BY <1>4, <1>6, <1>7, <1>9, <1>10, <1>11, <1>12 DEF IndInv

\* What holds of a start wherever it is stays true when it saves.
LEMMA BaseSaved ==
    ASSUME IndInv, NEW r \in Requests, Running(r), NEW q \in Request, NEW x \in Migration,
           NEW m, m = req[r].mig, SameRoute(m, x), x.status \in Open,
           migs' = [migs EXCEPT ![m] = x],
           req' = [req EXCEPT ![r] = q], UNCHANGED <<dbs, org>>,
           q.doc = req[r].doc, q.mig = m, q.source = req[r].source
    PROVE  /\ RunningBase(r)' /\ req'[r] = q
           /\ \A c, i : Transferred(m, c, i)' <=> Transferred(m, c, i)
<1>1. req'[r] = q /\ (\A p \in Requests \ {r} : req'[p] = req[p]) /\ TypeOK
  BY DEF IndInv, TypeOK
<1>2. RunningOK(r)
  BY DEF IndInv, RequestOK
<1>3. m \in DOMAIN migs
  BY <1>2 DEF RunningOK, RunningBase
<1>4. /\ DOMAIN migs' = DOMAIN migs /\ migs'[m] = x /\ Live' = Live
      /\ migs'[m].dir = migs[m].dir /\ migs'[m].dry = migs[m].dry
      /\ migs'[m].target = migs[m].target
      /\ Source(m)' = Source(m)
      /\ \A c, i : Transferred(m, c, i)' <=> Transferred(m, c, i)
  BY <1>1, <1>3, RouteKept
<1>5. Prefix(m, q.doc.progress)'
  BY <1>2, <1>4 DEF RunningOK, RunningBase, Prefix
<1>6. req[r].doc.dry => NoOther(r)'
  BY <1>1, <1>2 DEF RunningOK, RunningBase, NoOther, InFlight
<1>7. IsOpen(m)'
  BY <1>4 DEF IsOpen
<1> QED
  BY <1>1, <1>2, <1>3, <1>4, <1>5, <1>6, <1>7, ZenonT(60) DEF RunningOK, RunningBase

\* The saved progress: a collection's lastId, with what is below it copied.
LEMMA ProgressSaved ==
    ASSUME IndInv, NEW r \in Requests, Running(r), NEW m, m = req[r].mig,
           req[r].at \in DOMAIN Entities, NEW lastId \in 0 .. MaxId,
           \A i \in 1 .. lastId : Transferred(m, Entities[req[r].at], i),
           RecordProgress(r, lastId)
    PROVE  \E x \in Migration :
             /\ migs' = [migs EXCEPT ![m] = x]
             /\ SameRoute(m, x) /\ x.status = migs[m].status /\ x.status \in Open
             /\ Prefix(m, x.progress)
<1> DEFINE c == Entities[req[r].at]
           x == [migs[m] EXCEPT !.progress[c] = lastId]
<1>1. RunningOK(r) /\ migs \in Seq(Migration) /\ InFlight(r) /\ ~Aborting(r)
  BY DEF IndInv, TypeOK, RequestOK, Running, InFlight, Aborting, Starting, Opening, Copying
<1>2. m \in DOMAIN migs /\ IsOpen(m) /\ migs[m] \in Migration
  BY <1>1 DEF RunningOK, RunningBase
<1>3. c \in Copied /\ c \in Collections
  BY EntitiesFacts
<1>4. migs' = [migs EXCEPT ![m] = x]
  BY <1>1, <1>2 DEF RecordProgress
<1>5. /\ x \in Migration /\ SameRoute(m, x) /\ x.status = migs[m].status
      /\ x.progress = [migs[m].progress EXCEPT ![c] = lastId]
  <2> HIDE DEF c
  <2> QED
    BY <1>2, <1>3 DEF Migration, SameRoute
<1>6. Prefix(m, migs[m].progress)
  <2>1. ~BeingAborted(m)
    BY <1>1, Company DEF BeingAborted, InFlight, Aborting
  <2> QED
    BY <1>2, <2>1 DEF IndInv, ProgressIsCopied, Prefix
<1>7. migs[m].progress \in [Collections -> 0 .. MaxId]
  BY <1>2 DEF Migration
<1> HIDE DEF x, c
<1>8. Prefix(m, x.progress)
  <2> SUFFICES ASSUME NEW d \in Copied, NEW i \in 1 .. x.progress[d] PROVE Transferred(m, d, i)
    BY DEF Prefix
  <2>1. CASE d = c
    BY <1>3, <1>5, <1>7, <2>1 DEF c
  <2>2. CASE d # c
    BY <1>5, <1>6, <1>7, <2>2, EntitiesFacts DEF Prefix
  <2> QED
    BY <2>1, <2>2
<1> QED
  BY <1>2, <1>4, <1>5, <1>8 DEF IsOpen

LEMMA DryCountKeeps ==
    ASSUME IndInv, NEW r \in Requests, DryCount(r)
    PROVE  IndInv'
<1>1. Running(r) /\ RunningOK(r) /\ req[r].pc = "dry.count" /\ UNCHANGED <<dbs, org>>
  BY DEF DryCount, Running, Starting, Opening, Copying, IndInv, RequestOK
<1>2. req[r].doc.dry /\ req[r].at \in DOMAIN Entities
  BY <1>1 DEF RunningOK
<1>3. req[r].at + 1 \in 1 .. Len(Entities) + 1 /\ 0 \in 0 .. MaxId
  BY <1>2, EntitiesFacts, Constants
<1>4. PICK m : m = req[r].mig
  OBVIOUS
<1>5. PICK x \in Migration :
        /\ migs' = [migs EXCEPT ![m] = x]
        /\ SameRoute(m, x) /\ x.status = migs[m].status /\ x.status \in Open
        /\ Prefix(m, x.progress)
  <2>1. \A i \in 1 .. 0 : Transferred(m, Entities[req[r].at], i)
    OBVIOUS
  <2> QED
    BY <1>1, <1>2, <1>3, <1>4, <2>1, ProgressSaved DEF DryCount
<1>6. PICK q \in Request :
         /\ req' = [req EXCEPT ![r] = q]
         /\ q.pc \in {"dry.count", "copy.begin", "start.ready"}
         /\ q.doc = req[r].doc /\ q.mig = req[r].mig /\ q.source = req[r].source
         /\ q.pc = "dry.count" => q.doc.dry /\ q.at \in DOMAIN Entities
         /\ q.pc = "copy.begin" => ~q.doc.dry
  BY <1>1, <1>2, <1>3, CollectionNext DEF DryCount
<1>7. RunningBase(r)' /\ req'[r] = q
  BY <1>1, <1>4, <1>5, <1>6, BaseSaved
<1>8. Running(r)' /\ RunningOK(r)'
  BY <1>2, <1>6, <1>7 DEF RunningOK, Running, Starting, Opening, Copying, CopyLoop
<1> QED
  BY <1>1, <1>4, <1>5, <1>6, <1>8, SaveKeeps

\* CopyBegin and CopyRecord.
LEMMA RecordKeeps ==
    ASSUME IndInv, NEW r \in Requests, CopyBegin(r) \/ CopyRecord(r)
    PROVE  IndInv'
<1> DEFINE q == [req[r] EXCEPT !.pc = "copy.find"]
<1>1. /\ Running(r) /\ RunningOK(r) /\ req[r].pc \in {"copy.begin", "copy.record"}
      /\ RecordProgress(r, req[r].last) /\ Goto(r, "copy.find") /\ UNCHANGED <<dbs, org>>
  BY DEF CopyBegin, CopyRecord, Running, Starting, Opening, Copying, IndInv, RequestOK
<1>2. req \in [Requests -> Request] /\ req[r] \in Request /\ req[r].last \in 0 .. MaxId
  BY DEF IndInv, TypeOK, Request
<1>3. PICK m : m = req[r].mig
  OBVIOUS
<1>4. /\ ~req[r].doc.dry /\ req[r].at \in DOMAIN Entities
      /\ \A k \in 1 .. req[r].at - 1, i \in Ids : Transferred(m, Entities[k], i)
      /\ \A i \in 1 .. req[r].last : Transferred(m, Entities[req[r].at], i)
  BY <1>1, <1>3 DEF RunningOK, CopyLoop
<1>5. PICK x \in Migration :
        /\ migs' = [migs EXCEPT ![m] = x]
        /\ SameRoute(m, x) /\ x.status = migs[m].status /\ x.status \in Open
        /\ Prefix(m, x.progress)
  BY <1>1, <1>2, <1>3, <1>4, ProgressSaved
<1>6. req' = [req EXCEPT ![r] = q]
  BY <1>1, <1>2 DEF Goto
<1>7. q \in Request /\ q.pc = "copy.find" /\ q.doc = req[r].doc /\ q.mig = m
      /\ q.source = req[r].source /\ q.at = req[r].at /\ q.last = req[r].last
  BY <1>2, <1>3 DEF Request, PC, Starting, Copying
<1> HIDE DEF q
<1>8. /\ RunningBase(r)' /\ req'[r] = q
      /\ \A c, i : Transferred(m, c, i)' <=> Transferred(m, c, i)
  BY <1>1, <1>3, <1>5, <1>6, <1>7, BaseSaved
<1>9. Running(r)' /\ RunningOK(r)'
  BY <1>4, <1>7, <1>8 DEF RunningOK, Running, Starting, Opening, Copying, CopyLoop
<1> QED
  BY <1>1, <1>3, <1>5, <1>6, <1>7, <1>9, SaveKeeps

\* A request that is alone and closes its migration.
LEMMA CloseKeeps ==
    ASSUME IndInv, NEW r \in Requests, InFlight(r), NoOther(r), NEW m \in DOMAIN migs,
           m = req[r].mig, NEW status \in {"completed", "aborted"},
           migs' = [migs EXCEPT ![m].status = status], Finish(r), UNCHANGED <<dbs, org>>
    PROVE  IndInv'
<1> DEFINE x == [migs[m] EXCEPT !.status = status]
<1>1. TypeOK /\ migs \in Seq(Migration) /\ migs[m] \in Migration
  BY DEF IndInv, TypeOK
<1>2. x \in Migration /\ SameRoute(m, x) /\ x.status = status /\ migs' = [migs EXCEPT ![m] = x]
  BY <1>1 DEF Migration, SameRoute
<1> HIDE DEF x
<1>3. /\ Len(migs') = Len(migs) /\ DOMAIN migs' = DOMAIN migs
      /\ migs' \in Seq(Migration)
      /\ migs'[m] = x /\ \A n \in DOMAIN migs \ {m} : migs'[n] = migs[n]
      /\ Live' = Live
      /\ \A n \in DOMAIN migs : \A c, i : Transferred(n, c, i)' <=> Transferred(n, c, i)
  BY <1>1, <1>2, RouteKept
<1>4. req'[r] = Idle /\ (\A p \in Requests \ {r} : req'[p] = req[p]) /\ TypeOK'
  BY <1>1, <1>3, IdleType DEF TypeOK, Finish
<1>5. ~IsOpen(m)' /\ \A n \in DOMAIN migs \ {m} : IsOpen(n)' <=> IsOpen(n)
  BY <1>2, <1>3 DEF IsOpen, Open
<1>6. \A p \in Requests : req'[p] = Idle
  BY <1>4 DEF IndInv, NoOther, RequestOK
<1>7. ASSUME NEW p \in Requests PROVE RequestOK(p)'
  <2>1. req'[p] = Idle
    BY <1>6
  <2>2. Idle.pc = "idle"
    BY DEF Idle
  <2> QED
    BY <2>1, <2>2 DEF RequestOK, InFlight, Running, Finalizing, Aborting, Starting, Opening, Copying
<1>8. \A n \in DOMAIN migs \ {m} : ~BeingAborted(n)
  BY DEF BeingAborted, NoOther, InFlight, Aborting
<1>9. OneOpen' /\ OrgOK' /\ LiveIsNewest' /\ \A n \in DOMAIN migs' : MigrationOK(n)'
  BY <1>3, <1>5 DEF IndInv, OneOpen, OrgOK, LiveIsNewest, MigrationOK
<1>10. ReadyMeansCopied'
  <2>1. migs'[m].status # "ready_for_cutover"
    BY <1>2, <1>3
  <2> QED
    BY <1>3, <1>8, <2>1 DEF IndInv, ReadyMeansCopied
<1>11. ProgressIsCopied'
  BY <1>3, <1>5, <1>8 DEF IndInv, ProgressIsCopied
<1> QED
  BY <1>4, <1>7, <1>9, <1>10, <1>11 DEF IndInv

\* StartReady and StartFailed.
LEMMA StartEndKeeps ==
    ASSUME IndInv, NEW r \in Requests, StartReady(r) \/ StartFailed(r)
    PROVE  IndInv'
<1>1. /\ Running(r) /\ RunningOK(r) /\ InFlight(r) /\ ~Aborting(r)
      /\ Finish(r) /\ UNCHANGED <<dbs, org>>
  BY DEF StartReady, StartFailed, Running, InFlight, Aborting, Starting, Opening, Copying,
         IndInv, RequestOK
<1>2. PICK m : m = req[r].mig
  OBVIOUS
<1>3. m \in DOMAIN migs /\ IsOpen(m) /\ migs[m].dry = req[r].doc.dry /\ migs[m] \in Migration
  BY <1>1, <1>2 DEF RunningOK, RunningBase, IndInv, TypeOK
<1>4. CASE StartReady(r) /\ req[r].doc.dry
  <2>1. migs' = [migs EXCEPT ![m].status = "completed"] /\ NoOther(r)
    BY <1>1, <1>2, <1>4 DEF StartReady, RunningOK, RunningBase
  <2> QED
    BY <1>1, <1>2, <1>3, <2>1, CloseKeeps
<1>5. ASSUME NEW status \in {"ready_for_cutover", "failed"},
             status = "ready_for_cutover" => ~migs[m].dry /\ AllTransferred(m),
             migs' = [migs EXCEPT ![m].status = status]
      PROVE  IndInv'
  <2> DEFINE x == [migs[m] EXCEPT !.status = status]
  <2>1. /\ x \in Migration /\ SameRoute(m, x) /\ x.status = status /\ x.status \in Open
        /\ x.progress = migs[m].progress /\ migs' = [migs EXCEPT ![m] = x]
        /\ x.dry = migs[m].dry
    BY <1>3, <1>5 DEF Migration, SameRoute, Open
  <2>2. Prefix(m, migs[m].progress)
    <3>1. ~BeingAborted(m)
      BY <1>1, Company DEF BeingAborted, InFlight, Aborting
    <3> QED
      BY <1>3, <3>1 DEF IndInv, ProgressIsCopied, Prefix
  <2> HIDE DEF x
  <2> QED
    BY <1>1, <1>2, <1>5, <2>1, <2>2, IdleType, SaveKeeps DEF Finish
<1>6. CASE StartReady(r) /\ ~req[r].doc.dry
  BY <1>1, <1>2, <1>3, <1>5, <1>6 DEF StartReady, RunningOK
<1>7. CASE StartFailed(r)
  BY <1>2, <1>5, <1>7 DEF StartFailed
<1> QED
  BY <1>4, <1>6, <1>7

LEMMA FinalizeSaveKeeps ==
    ASSUME IndInv, NEW r \in Requests, FinalizeSave(r)
    PROVE  IndInv'
<1>1. FinalizingOK(r) /\ InFlight(r)
  BY DEF FinalizeSave, IndInv, RequestOK, Finalizing, InFlight
<1> QED
  BY <1>1, CloseKeeps DEF FinalizeSave, FinalizingOK

LEMMA AbortSaveKeeps ==
    ASSUME IndInv, NEW r \in Requests, AbortSave(r)
    PROVE  IndInv'
<1>1. AbortingOK(r) /\ InFlight(r)
  BY DEF AbortSave, IndInv, RequestOK, Aborting, InFlight
<1>2. req[r].doc.status # "aborted"
  BY <1>1 DEF AbortingOK, IsOpen, Open
<1> QED
  BY <1>1, <1>2, CloseKeeps DEF AbortSave, AbortingOK

-----------------------------------------------------------------------------
(* Steps that write documents or move the organization *)

\* Who works on an open migration that leads somewhere: where it leads is not
\* where the organization is, while the organization is at the source.
LEMMA TargetApart ==
    ASSUME IndInv, NEW m \in DOMAIN migs, IsOpen(m), migs[m].target # None,
           Source(m) = Live
    PROVE  migs[m].target # Live /\ migs[m].target \in DB /\ Live \in DB
<1>1. MigrationOK(m) /\ migs[m] \in Migration
      /\ org \in [dedicated : BOOLEAN, uri : Dedicated \cup {None}]
  BY DEF IndInv, TypeOK
<1>2. Live \in DB
  BY <1>1, Constants DEF Live
<1>3. CASE migs[m].dir = "dedicated_to_shared"
  BY <1>1, <1>2, <1>3, Constants DEF MigrationOK, Source
<1>4. CASE migs[m].dir = "shared_to_dedicated"
  BY <1>1, <1>2, <1>4, Constants DEF MigrationOK, Source
<1> QED
  BY <1>1, <1>3, <1>4 DEF Migration, Directions

\* One document of one database written, and no other.
LEMMA DocWritten ==
    ASSUME NEW f \in [DB -> [Collections -> [Ids -> 0 .. MaxVersion]]],
           NEW db \in DB, NEW c \in Collections, NEW i \in Ids, NEW v \in 0 .. MaxVersion,
           NEW g, g = [f EXCEPT ![db][c][i] = v]
    PROVE  /\ g \in [DB -> [Collections -> [Ids -> 0 .. MaxVersion]]]
           /\ g[db][c][i] = v
           /\ \A e \in DB : e # db => g[e] = f[e]
           /\ \A e, h, j : <<e, h, j>> # <<db, c, i>> /\ e \in DB /\ h \in Collections /\ j \in Ids =>
                g[e][h][j] = f[e][h][j]
<1>1. f[db] \in [Collections -> [Ids -> 0 .. MaxVersion]]
  OBVIOUS
<1>2. g = [f EXCEPT ![db] = [f[db] EXCEPT ![c] = [f[db][c] EXCEPT ![i] = v]]]
  OBVIOUS
<1>3. [f[db][c] EXCEPT ![i] = v] \in [Ids -> 0 .. MaxVersion]
  BY <1>1
<1>4. [f[db] EXCEPT ![c] = [f[db][c] EXCEPT ![i] = v]] \in [Collections -> [Ids -> 0 .. MaxVersion]]
  BY <1>1, <1>3
<1>5. g \in [DB -> [Collections -> [Ids -> 0 .. MaxVersion]]]
  BY <1>2, <1>4
<1> QED
  BY <1>2, <1>5

LEMMA CopyWriteKeeps ==
    ASSUME IndInv, NEW r \in Requests, CopyWrite(r)
    PROVE  IndInv' /\ dbs'[Live] = dbs[Live]
<1>1. /\ Running(r) /\ RunningOK(r) /\ InFlight(r) /\ ~Aborting(r) /\ req[r].pc = "copy.write"
      /\ req \in [Requests -> Request] /\ req[r] \in Request
      /\ dbs \in [DB -> [Collections -> [Ids -> 0 .. MaxVersion]]] /\ UNCHANGED <<org, migs>>
  BY DEF CopyWrite, Running, InFlight, Aborting, Starting, Opening, Copying, IndInv, RequestOK, TypeOK
<1>2. PICK m, c : m = req[r].mig /\ c = Entities[req[r].at]
  OBVIOUS
<1>3. /\ m \in DOMAIN migs /\ IsOpen(m) /\ migs[m].target # None
      /\ req[r].doc.target = migs[m].target
      /\ req[r].source = Source(m) /\ Source(m) = Live
      /\ ~req[r].doc.dry /\ req[r].at \in DOMAIN Entities
      /\ \A k \in 1 .. req[r].at - 1, i \in Ids : Transferred(m, Entities[k], i)
      /\ \A d \in req[r].batch : d[2] = dbs[Source(m)][c][d[1]]
      /\ \A i \in 1 .. req[r].last :
           Transferred(m, c, i) \/ <<i, dbs[Source(m)][c][i]>> \in req[r].batch
  BY <1>1, <1>2 DEF RunningOK, RunningBase, CopyLoop
<1>4. PICK d \in req[r].batch :
        /\ dbs' = [dbs EXCEPT ![migs[m].target][c][d[1]] = d[2]]
        /\ req' = [req EXCEPT ![r].batch = @ \ {d},
                              ![r].pc = IF req[r].batch = {d} THEN "copy.record" ELSE @]
  BY <1>2, <1>3 DEF CopyWrite
<1>5. PICK target, i : target = migs[m].target /\ i = d[1]
  OBVIOUS
<1>6. i \in Ids /\ d = <<i, dbs[Live][c][i]>> /\ d[2] \in 0 .. MaxVersion
  BY <1>1, <1>3, <1>5 DEF Request
<1>7. c \in Copied /\ c \in Collections
  BY <1>2, <1>3, EntitiesFacts
<1>8. target # Live /\ target \in DB /\ Live \in DB
  BY <1>3, <1>5, TargetApart
<1>9. /\ dbs' \in [DB -> [Collections -> [Ids -> 0 .. MaxVersion]]]
      /\ dbs'[Live] = dbs[Live]
      /\ dbs'[target][c][i] = dbs[Live][c][i]
      /\ \A e, f, j : <<e, f, j>> # <<target, c, i>> /\ e \in DB /\ f \in Collections /\ j \in Ids =>
           dbs'[e][f][j] = dbs[e][f][j]
  <2>1. dbs' = [dbs EXCEPT ![target][c][i] = dbs[Live][c][i]]
    BY <1>4, <1>5, <1>6
  <2>2. dbs[Live][c][i] \in 0 .. MaxVersion
    BY <1>1, <1>6, <1>7, <1>8
  <2> QED
    BY <1>1, <1>6, <1>7, <1>8, <2>1, <2>2, DocWritten
<1>10. Source(m)' = Source(m) /\ Live' = Live /\ \A n : IsOpen(n)' <=> IsOpen(n)
  BY <1>1 DEF Source, Live, IsOpen
<1>11. ASSUME NEW f \in Collections, NEW j \in Ids, Transferred(m, f, j) \/ <<f, j>> = <<c, i>>
       PROVE  Transferred(m, f, j)'
  <2>1. dbs'[Live][f][j] = dbs[Live][f][j] /\ Source(m)' = Live /\ migs'[m].target = target
    BY <1>1, <1>3, <1>5, <1>9, <1>10
  <2>2. CASE <<f, j>> = <<c, i>>
    BY <1>9, <2>1, <2>2 DEF Transferred
  <2>3. CASE <<f, j>> # <<c, i>>
    <3>1. dbs'[target][f][j] = dbs[target][f][j]
      BY <1>8, <1>9, <2>3
    <3> QED
      BY <1>3, <1>5, <1>11, <2>1, <2>3, <3>1 DEF Transferred
  <2> QED
    BY <2>2, <2>3
<1>12. \A n \in DOMAIN migs : IsOpen(n) => n = m
  BY <1>3 DEF IndInv, OneOpen
<1> DEFINE q == [req[r] EXCEPT !.batch = @ \ {d},
                               !.pc = IF req[r].batch = {d} THEN "copy.record" ELSE @]
<1>13. req' = [req EXCEPT ![r] = q]
  BY <1>1, <1>4
<1>14. /\ q \in Request /\ q.batch = req[r].batch \ {d}
       /\ q.pc = IF req[r].batch = {d} THEN "copy.record" ELSE "copy.write"
       /\ q.doc = req[r].doc /\ q.mig = req[r].mig /\ q.source = req[r].source
       /\ q.at = req[r].at /\ q.last = req[r].last
  BY <1>1 DEF Request, PC, Starting, Copying
<1> HIDE DEF q
<1>15. req'[r] = q /\ (\A p \in Requests \ {r} : req'[p] = req[p]) /\ TypeOK'
  BY <1>1, <1>9, <1>13, <1>14 DEF IndInv, TypeOK
<1>16. RunningBase(r)'
  <2>1. PICK progress : progress = req[r].doc.progress
    OBVIOUS
  <2>2. progress \in [Collections -> 0 .. MaxId]
    BY <1>1, <2>1 DEF Request, Migration
  <2>3. \A f \in Copied : f \in Collections /\ 1 .. progress[f] \subseteq Ids
    BY <2>2, EntitiesFacts, Constants DEF Ids
  <2>4. Prefix(m, progress)
    BY <1>1, <1>2, <2>1 DEF RunningOK, RunningBase
  <2>5. Prefix(m, progress)'
    BY <1>11, <2>3, <2>4 DEF Prefix
  <2>6. req'[r].doc.progress = progress /\ req'[r].mig = m /\ req'[r].source = Source(m)
        /\ req'[r].doc = req[r].doc
    BY <1>2, <1>3, <1>14, <1>15, <2>1
  <2>7. Prefix(req[r].mig, req[r].doc.progress)'
    BY <2>5, <2>6 DEF Prefix
  <2>8. /\ req[r].doc.dir = migs[m].dir /\ req[r].doc.dry = migs[m].dry
    BY <1>1, <1>2 DEF RunningOK, RunningBase
  <2> QED
    BY <1>1, <1>3, <1>10, <2>6, <2>7, <2>8 DEF RunningBase
<1>17. RunningOK(r)'
  <2>1. \A k \in 1 .. q.at - 1, j \in Ids : Transferred(m, Entities[k], j)'
    <3>1. \A k \in 1 .. q.at - 1 : Entities[k] \in Collections
      BY <1>3, <1>14, EntitiesFacts
    <3> QED
      BY <1>3, <1>11, <1>14, <3>1
  <2>2. \A e \in q.batch : e[2] = dbs'[q.source][c][e[1]]
    BY <1>3, <1>9, <1>14
  <2>3. ASSUME NEW j \in 1 .. q.last
        PROVE  Transferred(m, c, j)' \/ <<j, dbs'[q.source][c][j]>> \in q.batch
    <3>1. j \in Ids
      BY <1>1, <1>14, Constants DEF Request, Ids
    <3>2. CASE Transferred(m, c, j) \/ j = i
      BY <1>7, <1>11, <3>1, <3>2
    <3>3. CASE j # i /\ <<j, dbs[Source(m)][c][j]>> \in req[r].batch
      <4>1. <<j, dbs[Live][c][j]>> # d
        BY <1>6, <3>3
      <4>2. <<j, dbs[Live][c][j]>> \in q.batch
        BY <1>3, <1>14, <3>3, <4>1
      <4>3. q.source = Live /\ dbs'[Live] = dbs[Live]
        BY <1>2, <1>3, <1>9, <1>14
      <4> QED
        BY <4>2, <4>3
    <3>4. j \in 1 .. req[r].last
      BY <1>14
    <3>5. Transferred(m, c, j) \/ <<j, dbs[Source(m)][c][j]>> \in req[r].batch
      BY <1>3, <3>4
    <3> QED
      BY <3>2, <3>3, <3>5
  <2>4. q.pc = "copy.record" => q.batch = {}
    BY <1>14
  <2> QED
    BY <1>2, <1>3, <1>14, <1>15, <1>16, <2>1, <2>2, <2>3, <2>4, ZenonT(60) DEF RunningOK, CopyLoop
<1>18. Running(r)' /\ RequestOK(r)'
  BY <1>14, <1>15, <1>17 DEF RequestOK, InFlight, Running, Finalizing, Aborting, Starting,
     Opening, Copying
<1>19. ASSUME NEW p \in Requests \ {r} PROVE RequestOK(p)'
  <2>1. CASE ~InFlight(p)
    <3>1. req'[p] = Idle
      BY <1>15, <2>1 DEF IndInv, RequestOK
    <3>2. Idle.pc = "idle"
      BY DEF Idle
    <3> QED
      BY <3>1, <3>2 DEF RequestOK, InFlight, Running, Finalizing, Aborting, Starting, Opening, Copying
  <2>2. CASE InFlight(p)
    <3>1. /\ ~Finalizing(p) /\ ~Aborting(p) /\ ~req[p].doc.dry
          /\ req[p].pc \in Opening => Running(r) /\ ~req[r].doc.dry
      BY <1>1, <2>2, Company
    <3>2. \A n \in DOMAIN migs : IsOpen(n) =>
            /\ dbs'[Source(n)] = dbs[Source(n)]
            /\ \A f \in Copied, j \in Ids : Transferred(n, f, j) => Transferred(n, f, j)'
      BY <1>3, <1>9, <1>11, <1>12, EntitiesFacts
    <3>3. TypeOK /\ RequestOK(p) /\ ~req'[r].doc.dry
      BY <1>3, <1>14, <1>15 DEF IndInv
    <3> QED
      BY <1>1, <1>10, <1>15, <1>18, <2>2, <3>1, <3>2, <3>3, OthersKeep
  <2> QED
    BY <2>1, <2>2
<1>20. OneOpen' /\ OrgOK' /\ \A n \in DOMAIN migs' : MigrationOK(n)'
  BY <1>1, <1>10 DEF IndInv, OneOpen, OrgOK, MigrationOK
<1>21. \A n : ~BeingAborted(n)
  BY <1>1, Company DEF BeingAborted, InFlight, Aborting
<1>22. ReadyMeansCopied'
  <2>1. migs[m].status = "ready_for_cutover" /\ ~migs[m].dry =>
          \A f \in Copied, j \in Ids : Transferred(m, f, j)'
    BY <1>3, <1>11, <1>21, EntitiesFacts DEF IndInv, ReadyMeansCopied
  <2>2. \A n \in DOMAIN migs : migs[n].status = "ready_for_cutover" => n = m
    BY <1>12 DEF IsOpen, Open
  <2> QED
    BY <1>1, <2>1, <2>2 DEF ReadyMeansCopied
<1>23. ProgressIsCopied'
  <2>1. migs[m].progress \in [Collections -> 0 .. MaxId]
    <3>1. migs[m] \in Migration
      BY <1>3 DEF IndInv, TypeOK
    <3> QED
      BY <3>1 DEF Migration
  <2>2. \A f \in Copied : f \in Collections /\ 1 .. migs[m].progress[f] \subseteq Ids
    BY <2>1, EntitiesFacts, Constants DEF Ids
  <2>3. \A f \in Copied : \A j \in 1 .. migs[m].progress[f] : Transferred(m, f, j)'
    BY <1>3, <1>11, <1>21, <2>2 DEF IndInv, ProgressIsCopied
  <2> QED
    BY <1>1, <1>10, <1>12, <2>3 DEF ProgressIsCopied
<1>24. LiveIsNewest'
  <2> SUFFICES ASSUME NEW e \in DB, NEW f \in Portable, NEW j \in Ids
               PROVE  dbs'[e][f][j] <= dbs'[Live][f][j]
    BY <1>10 DEF LiveIsNewest
  <2>1. f \in Collections
    BY EntitiesFacts DEF Portable
  <2>2. dbs[e][f][j] <= dbs[Live][f][j] /\ dbs[Live][f][j] \in Nat
    BY <1>1, <1>8, <2>1, Constants DEF IndInv, LiveIsNewest
  <2>3. CASE <<e, f, j>> = <<target, c, i>>
    BY <1>9, <2>2, <2>3
  <2>4. CASE <<e, f, j>> # <<target, c, i>>
    BY <1>9, <2>1, <2>2, <2>4
  <2> QED
    BY <2>3, <2>4
<1> QED
  BY <1>9, <1>15, <1>18, <1>19, <1>20, <1>22, <1>23, <1>24 DEF IndInv

LEMMA FinalizeOrgKeeps ==
    ASSUME IndInv, NEW r \in Requests, FinalizeOrg(r)
    PROVE  IndInv' /\ \A c \in Portable, i \in Ids : dbs'[Live'][c][i] = dbs[Live][c][i]
<1>1. /\ FinalizingOK(r) /\ req[r].pc = "final.org" /\ UNCHANGED <<dbs, migs>>
      /\ req \in [Requests -> Request] /\ req[r] \in Request
      /\ org \in [dedicated : BOOLEAN, uri : Dedicated \cup {None}]
      /\ dbs \in [DB -> [Collections -> [Ids -> 0 .. MaxVersion]]]
  BY DEF FinalizeOrg, IndInv, RequestOK, Finalizing, TypeOK
<1>2. PICK m : m = req[r].mig
  OBVIOUS
<1>3. /\ m \in DOMAIN migs /\ migs[m] = req[r].doc /\ migs[m] \in Migration
      /\ migs[m].status = "ready_for_cutover" /\ ~migs[m].dry /\ IsOpen(m)
      /\ migs[m].target # None /\ MigrationOK(m) /\ OrgOK
  BY <1>1, <1>2 DEF FinalizingOK, IndInv, TypeOK, IsOpen, Open, MigrationOK
<1>4. \A n : ~BeingAborted(n)
  BY <1>1 DEF FinalizingOK, NoOther, BeingAborted, Aborting, InFlight
<1>5. \A c \in Copied, i \in Ids : Transferred(m, c, i)
  BY <1>3, <1>4 DEF IndInv, ReadyMeansCopied
<1>6. /\ Live \in {Source(m), migs[m].target} /\ Live' = migs[m].target
      /\ Live \in DB /\ Live' \in DB /\ Source(m)' = Source(m)
      /\ org' \in [dedicated : BOOLEAN, uri : Dedicated \cup {None}] /\ OrgOK'
      /\ MigrationOK(m)'
  <2>1. CASE migs[m].dir = "dedicated_to_shared"
    <3>1. migs[m].target = Shared /\ org.uri # None /\ org' = [org EXCEPT !.dedicated = FALSE]
      BY <1>1, <1>3, <2>1 DEF MigrationOK, FinalizeOrg
    <3>2. org'.dedicated = FALSE /\ org'.uri = org.uri
          /\ org' \in [dedicated : BOOLEAN, uri : Dedicated \cup {None}]
      BY <1>1, <3>1
    <3> QED
      BY <1>1, <1>3, <2>1, <3>1, <3>2, Constants DEF MigrationOK, OrgOK, Source, Live, IsOpen
  <2>2. CASE migs[m].dir = "shared_to_dedicated"
    <3>1. /\ migs[m].target \in Dedicated /\ (org.dedicated => org.uri = migs[m].target)
          /\ org' = [dedicated |-> TRUE, uri |-> migs[m].target]
      BY <1>1, <1>3, <2>2 DEF MigrationOK, FinalizeOrg
    <3> QED
      BY <1>1, <1>3, <2>2, <3>1, Constants DEF MigrationOK, OrgOK, Source, Live, IsOpen
  <2> QED
    BY <1>3, <2>1, <2>2 DEF Migration, Directions
<1>7. ASSUME NEW c \in Portable, NEW i \in Ids
      PROVE  dbs[migs[m].target][c][i] = dbs[Live][c][i]
  <2>1. c \in Copied /\ c \in Collections
    BY EntitiesFacts DEF Portable
  <2>2. /\ dbs[migs[m].target][c][i] <= dbs[Live][c][i]
        /\ dbs[migs[m].target][c][i] \in Nat /\ dbs[Live][c][i] \in Nat
    BY <1>1, <1>6, <2>1, Constants DEF IndInv, LiveIsNewest
  <2> QED
    BY <1>5, <1>6, <2>1, <2>2 DEF Transferred
<1> DEFINE q == [req[r] EXCEPT !.pc = "final.save"]
<1>8. req' = [req EXCEPT ![r] = q]
  BY <1>1 DEF FinalizeOrg, Goto
<1>9. q \in Request /\ q.pc = "final.save" /\ q.mig = m /\ q.doc = req[r].doc
  BY <1>1, <1>2 DEF Request, PC
<1> HIDE DEF q
<1>10. req'[r] = q /\ (\A p \in Requests \ {r} : req'[p] = req[p]) /\ TypeOK'
  BY <1>1, <1>6, <1>8, <1>9 DEF IndInv, TypeOK
<1>11. FinalizingOK(r)'
  BY <1>1, <1>3, <1>9, <1>10 DEF FinalizingOK, NoOther, InFlight
<1>12. RequestOK(r)'
  BY <1>9, <1>10, <1>11 DEF RequestOK, InFlight, Running, Finalizing, Aborting, Starting, Opening, Copying
<1>13. ASSUME NEW p \in Requests \ {r} PROVE RequestOK(p)'
  <2>1. req'[p] = Idle
    BY <1>1, <1>10 DEF FinalizingOK, NoOther, IndInv, RequestOK
  <2>2. Idle.pc = "idle"
    BY DEF Idle
  <2> QED
    BY <2>1, <2>2 DEF RequestOK, InFlight, Running, Finalizing, Aborting, Starting, Opening, Copying
<1>14. (\A n : IsOpen(n)' <=> IsOpen(n)) /\ \A n \in DOMAIN migs : IsOpen(n) => n = m
  BY <1>1, <1>3 DEF IsOpen, IndInv, OneOpen
<1>15. \A c, i : Transferred(m, c, i)' <=> Transferred(m, c, i)
  BY <1>1, <1>6 DEF Transferred
<1>16. OneOpen' /\ \A n \in DOMAIN migs' : MigrationOK(n)'
  BY <1>1, <1>6, <1>14 DEF IndInv, OneOpen, MigrationOK
<1>17. ReadyMeansCopied'
  <2>1. \A n \in DOMAIN migs : migs[n].status = "ready_for_cutover" => n = m
    BY <1>14 DEF IsOpen, Open
  <2> QED
    BY <1>1, <1>5, <1>15, <2>1 DEF ReadyMeansCopied
<1>18. ProgressIsCopied'
  BY <1>1, <1>4, <1>14, <1>15 DEF IndInv, ProgressIsCopied
<1>19. LiveIsNewest'
  BY <1>1, <1>6, <1>7 DEF IndInv, LiveIsNewest
<1> QED
  BY <1>1, <1>6, <1>7, <1>10, <1>12, <1>13, <1>16, <1>17, <1>18, <1>19 DEF IndInv

LEMMA AbortCleanKeeps ==
    ASSUME IndInv, NEW r \in Requests, AbortClean(r)
    PROVE  IndInv' /\ dbs'[Live] = dbs[Live] /\ Live' = Live
<1>1. /\ AbortingOK(r) /\ req[r].pc = "abort.clean" /\ UNCHANGED <<org, migs>>
      /\ req \in [Requests -> Request] /\ req[r] \in Request
      /\ org \in [dedicated : BOOLEAN, uri : Dedicated \cup {None}]
      /\ dbs \in [DB -> [Collections -> [Ids -> 0 .. MaxVersion]]]
  BY DEF AbortClean, IndInv, RequestOK, Aborting, TypeOK
<1>2. PICK m, target, c : m = req[r].mig /\ target = req[r].doc.target /\ c = Entities[req[r].at]
  OBVIOUS
<1>3. /\ m \in DOMAIN migs /\ IsOpen(m) /\ target # Live /\ target \in DB
      /\ c \in Collections /\ req[r].at \in DOMAIN Entities
  BY <1>1, <1>2, EntitiesFacts DEF AbortingOK, Request, Migration
<1>4. dbs' = [dbs EXCEPT ![target][c] = [i \in Ids |-> 0]]
  BY <1>1, <1>2 DEF AbortClean
<1>5. /\ dbs' \in [DB -> [Collections -> [Ids -> 0 .. MaxVersion]]]
      /\ dbs'[Live] = dbs[Live]
      /\ \A d \in DB, f \in Collections, i \in Ids : dbs'[d][f][i] \in {0, dbs[d][f][i]}
  BY <1>1, <1>3, <1>4, Constants
<1>6. Live' = Live /\ (\A n : IsOpen(n)' <=> IsOpen(n)) /\ \A n \in DOMAIN migs : IsOpen(n) => n = m
  BY <1>1, <1>3 DEF Live, IsOpen, IndInv, OneOpen
<1> DEFINE at == IF req[r].at = Len(Entities) THEN 1 ELSE req[r].at + 1
           pc == IF req[r].at = Len(Entities) THEN "abort.save" ELSE "abort.clean"
           q == [req[r] EXCEPT !.at = at, !.pc = pc]
<1>7. req' = [req EXCEPT ![r] = q]
  BY <1>1 DEF AbortClean
<1>8. /\ at \in 1 .. 3 /\ at \in DOMAIN Entities
      /\ pc \in PC /\ pc \in {"abort.save", "abort.clean"}
  BY <1>3, EntitiesFacts DEF PC
<1> HIDE DEF at, pc
<1>9. q \in Request /\ q.pc = pc /\ q.at = at /\ q.mig = m /\ q.doc = req[r].doc
  BY <1>1, <1>2, <1>8 DEF Request
<1> HIDE DEF q
<1>10. req'[r] = q /\ (\A p \in Requests \ {r} : req'[p] = req[p]) /\ TypeOK'
  BY <1>1, <1>5, <1>7, <1>9 DEF IndInv, TypeOK
<1>11. AbortingOK(r)'
  <2>1. NoOther(r)' /\ req'[r].mig = m /\ req'[r].doc = migs'[m]
    BY <1>1, <1>2, <1>9, <1>10 DEF AbortingOK, NoOther, InFlight
  <2> QED
    BY <1>1, <1>2, <1>3, <1>6, <1>8, <1>9, <1>10, <2>1 DEF AbortingOK
<1>12. RequestOK(r)'
  BY <1>8, <1>9, <1>10, <1>11 DEF RequestOK, InFlight, Running, Finalizing, Aborting, Starting,
     Opening, Copying
<1>13. ASSUME NEW p \in Requests \ {r} PROVE RequestOK(p)'
  <2>1. req'[p] = Idle
    BY <1>1, <1>10 DEF AbortingOK, NoOther, IndInv, RequestOK
  <2>2. Idle.pc = "idle"
    BY DEF Idle
  <2> QED
    BY <2>1, <2>2 DEF RequestOK, InFlight, Running, Finalizing, Aborting, Starting, Opening, Copying
<1>14. OneOpen' /\ OrgOK' /\ \A n \in DOMAIN migs' : MigrationOK(n)'
  BY <1>1, <1>6 DEF IndInv, OneOpen, OrgOK, MigrationOK
<1>15. BeingAborted(m)'
  BY <1>8, <1>9, <1>10 DEF BeingAborted, Aborting
<1>16. ReadyMeansCopied' /\ ProgressIsCopied'
  BY <1>1, <1>6, <1>15 DEF ReadyMeansCopied, ProgressIsCopied, IsOpen, Open
<1>17. LiveIsNewest'
  <2> SUFFICES ASSUME NEW d \in DB, NEW f \in Portable, NEW i \in Ids
               PROVE  dbs'[d][f][i] <= dbs'[Live][f][i]
    BY <1>6 DEF LiveIsNewest
  <2>1. f \in Collections /\ Live \in DB
    BY <1>1, EntitiesFacts, Constants DEF Portable, Live
  <2>2. dbs[d][f][i] <= dbs[Live][f][i] /\ dbs[Live][f][i] \in Nat
    BY <1>1, <2>1, Constants DEF IndInv, LiveIsNewest
  <2>3. dbs'[d][f][i] \in {0, dbs[d][f][i]}
    BY <1>5, <2>1
  <2> QED
    BY <1>5, <2>2, <2>3
<1> QED
  BY <1>5, <1>6, <1>10, <1>12, <1>13, <1>14, <1>16, <1>17 DEF IndInv

LEMMA TenantWriteKeeps ==
    ASSUME Careful, IndInv, NEW c \in Collections, NEW i \in Ids, TenantWrite(c, i)
    PROVE  IndInv' /\ Live' = Live
<1>1. /\ (\A m \in DOMAIN migs : ~IsOpen(m)) /\ (\A r \in Requests : ~InFlight(r))
      /\ UNCHANGED <<org, migs, req>> /\ Seen(c, i) < MaxVersion
      /\ dbs' = [dbs EXCEPT ![Home(c)][c][i] = @ + 1]
      /\ dbs \in [DB -> [Collections -> [Ids -> 0 .. MaxVersion]]]
      /\ org \in [dedicated : BOOLEAN, uri : Dedicated \cup {None}]
  BY DEF TenantWrite, MayWrite, Careful, IndInv, TypeOK
<1>2. Live \in DB /\ Home(c) \in DB /\ (c \in Portable => Home(c) = Live)
  BY <1>1, Constants DEF Live, Home, Portable
<1>3. /\ Seen(c, i) \in Nat /\ Seen(c, i) + 1 \in 0 .. MaxVersion
      /\ dbs' = [dbs EXCEPT ![Home(c)][c][i] = Seen(c, i) + 1]
  BY <1>1, <1>2, Constants DEF Seen
<1>4. /\ dbs' \in [DB -> [Collections -> [Ids -> 0 .. MaxVersion]]]
      /\ dbs'[Home(c)][c][i] = dbs[Home(c)][c][i] + 1
      /\ \A e \in DB, f \in Collections, j \in Ids :
           <<e, f, j>> # <<Home(c), c, i>> => dbs'[e][f][j] = dbs[e][f][j]
  BY <1>1, <1>2, <1>3 DEF Seen
<1>5. Live' = Live
  BY <1>1 DEF Live
<1>6. TypeOK'
  BY <1>1, <1>4 DEF IndInv, TypeOK
<1>7. ASSUME NEW r \in Requests PROVE RequestOK(r)'
  <2>1. req'[r] = Idle
    BY <1>1 DEF IndInv, RequestOK
  <2>2. Idle.pc = "idle"
    BY DEF Idle
  <2> QED
    BY <2>1, <2>2 DEF RequestOK, InFlight, Running, Finalizing, Aborting, Starting, Opening, Copying
<1>8. \A m \in DOMAIN migs' : ~IsOpen(m)'
  BY <1>1 DEF IsOpen
<1>9. OneOpen' /\ OrgOK' /\ (\A m \in DOMAIN migs' : MigrationOK(m)')
      /\ ReadyMeansCopied' /\ ProgressIsCopied'
  BY <1>1, <1>8 DEF IndInv, OneOpen, OrgOK, MigrationOK, ReadyMeansCopied, ProgressIsCopied, IsOpen, Open
<1>10. LiveIsNewest'
  <2> SUFFICES ASSUME NEW d \in DB, NEW f \in Portable, NEW j \in Ids
               PROVE  dbs'[d][f][j] <= dbs'[Live][f][j]
    BY <1>5 DEF LiveIsNewest
  <2>1. f \in Collections
    BY EntitiesFacts DEF Portable
  <2>2. dbs[d][f][j] <= dbs[Live][f][j] /\ dbs[Live][f][j] \in Nat /\ dbs[d][f][j] \in Nat
    BY <1>1, <1>2, <2>1, Constants DEF IndInv, LiveIsNewest
  <2>3. CASE <<f, j>> # <<c, i>>
    BY <1>2, <1>4, <2>1, <2>2, <2>3
  <2>4. CASE <<f, j>> = <<c, i>>
    <3>1. dbs'[Live][f][j] = dbs[Live][f][j] + 1
      BY <1>2, <1>4, <2>4
    <3>2. d # Live => dbs'[d][f][j] = dbs[d][f][j]
      BY <1>2, <1>4, <2>1, <2>4
    <3> QED
      BY <2>2, <3>1, <3>2
  <2> QED
    BY <2>3, <2>4
<1> QED
  BY <1>5, <1>6, <1>7, <1>9, <1>10 DEF IndInv

-----------------------------------------------------------------------------
(* start: the migration is created or resumed *)

\* A new migration: no other is open, so the request is alone.
LEMMA CreateKeeps ==
    ASSUME IndInv, NEW r \in Requests, StartOpen(r), req[r].mig = 0
    PROVE  IndInv'
<1>1. /\ OpeningOK(r) /\ req[r].pc = "start.open" /\ UNCHANGED <<dbs, org>>
      /\ req \in [Requests -> Request] /\ req[r] \in Request /\ migs \in Seq(Migration)
  BY DEF StartOpen, IndInv, RequestOK, Opening, TypeOK
<1>2. PICK doc, m : doc = req[r].doc /\ m = Len(migs) + 1
  OBVIOUS
<1>3. /\ doc \in Migration /\ doc.status = "in_progress" /\ doc.progress = NoProgress
      /\ Len(migs) < MaxMigrations /\ \A n \in DOMAIN migs : ~IsOpen(n)
  BY <1>1, <1>2 DEF OpeningOK, Request
<1>4. migs' = Append(migs, doc)
  BY <1>2 DEF StartOpen
<1>5. /\ migs' \in Seq(Migration) /\ Len(migs') = Len(migs) + 1 /\ Len(migs') <= MaxMigrations
      /\ DOMAIN migs = 1 .. Len(migs) /\ DOMAIN migs' = DOMAIN migs \cup {m}
      /\ m \in DOMAIN migs' /\ m \in 0 .. MaxMigrations
      /\ migs'[m] = doc /\ \A n \in DOMAIN migs : n # m /\ migs'[n] = migs[n]
  <2>1. Len(migs) \in Nat
    BY <1>1
  <2> QED
    BY <1>1, <1>2, <1>3, <1>4, <2>1, Constants
<1>6. /\ doc.dir = "dedicated_to_shared" => doc.target = Shared /\ org.uri # None
      /\ doc.dir = "shared_to_dedicated" => doc.target \in Dedicated \cup {None} /\ ~org.dedicated
      /\ req[r].source = SourceOf(doc.dir) /\ req[r].source = Live
  BY <1>1, <1>2 DEF OpeningOK
<1>7. IsOpen(m)' /\ \A n \in DOMAIN migs : ~IsOpen(n)'
  BY <1>3, <1>5 DEF IsOpen, Open
<1>8. \A p \in Requests \ {r} : req[p] = Idle
  <2> SUFFICES ASSUME NEW p \in Requests \ {r}, InFlight(p) PROVE FALSE
    BY DEF IndInv, RequestOK
  <2>1. Running(p)
    BY <1>1 DEF OpeningOK
  <2> QED
    BY <1>3, <2>1 DEF IndInv, RequestOK, RunningOK, RunningBase
<1>9. PICK q \in Request :
        /\ req' = [req EXCEPT ![r] = q]
        /\ \/ q = Idle
           \/ /\ q.pc = "start.connect" /\ q.mig = m /\ q.doc = doc /\ q.source = req[r].source
              /\ doc.target # None
  <2> DEFINE q == [Idle EXCEPT !.pc = "start.connect", !.mig = m, !.doc = doc, !.source = req[r].source]
  <2>1. q \in Request /\ q.pc = "start.connect" /\ q.mig = m /\ q.doc = doc /\ q.source = req[r].source
    BY <1>1, <1>3, <1>5, IdleType, ZenonT(60) DEF Request, PC, Starting
  <2>2. \/ doc.target = None /\ req' = [req EXCEPT ![r] = Idle]
        \/ doc.target # None /\ req' = [req EXCEPT ![r] = q]
    BY <1>2 DEF StartOpen, Finish
  <2> HIDE DEF q
  <2> QED
    BY <2>1, <2>2, IdleType
<1>10. req'[r] = q /\ (\A p \in Requests \ {r} : req'[p] = Idle) /\ TypeOK'
  BY <1>1, <1>5, <1>8, <1>9 DEF IndInv, TypeOK
<1>11. Idle.pc = "idle"
  BY DEF Idle
<1>12. ASSUME NEW p \in Requests, req'[p] = Idle PROVE RequestOK(p)'
  BY <1>11, <1>12 DEF RequestOK, InFlight, Running, Finalizing, Aborting, Starting, Opening, Copying
<1>13. ASSUME q # Idle PROVE RequestOK(r)'
  <2>1. q.pc = "start.connect" /\ q.mig = m /\ q.doc = doc /\ q.source = req[r].source
        /\ doc.target # None
    BY <1>9, <1>13
  <2>2. Source(m)' = SourceOf(doc.dir) /\ Live' = Live
    BY <1>1, <1>5 DEF Source, SourceOf, Live
  <2>3. Prefix(m, doc.progress)'
    <3>1. \A c \in Copied : NoProgress[c] = 0
      BY EntitiesFacts DEF NoProgress
    <3> QED
      BY <1>3, <3>1 DEF Prefix
  <2>4. NoOther(r)'
    BY <1>10, <1>11 DEF NoOther, InFlight
  <2>5. RunningBase(r)'
    <3>1. Prefix(req[r].mig, req[r].doc.progress)'
      BY <1>10, <2>1, <2>3 DEF Prefix
    <3> QED
      BY <1>5, <1>6, <1>7, <1>10, <2>1, <2>2, <2>4, <3>1 DEF RunningBase
  <2>6. RunningOK(r)'
    BY <1>10, <2>1, <2>5 DEF RunningOK, CopyLoop
  <2> QED
    BY <1>10, <2>1, <2>6 DEF RequestOK, InFlight, Running, Finalizing, Aborting, Starting,
       Opening, Copying
<1>14. \A p \in Requests : RequestOK(p)'
  BY <1>10, <1>12, <1>13
<1>15. OneOpen' /\ OrgOK' /\ LiveIsNewest'
  BY <1>1, <1>5, <1>7 DEF IndInv, OneOpen, OrgOK, LiveIsNewest, Live
<1>16. \A n \in DOMAIN migs' : MigrationOK(n)'
  BY <1>1, <1>3, <1>5, <1>6, <1>7 DEF MigrationOK
<1>17. ReadyMeansCopied'
  <2>1. \A n \in DOMAIN migs' : migs'[n].status # "ready_for_cutover"
    BY <1>3, <1>5 DEF IsOpen, Open
  <2> QED
    BY <2>1 DEF ReadyMeansCopied
<1>18. ProgressIsCopied'
  <2>1. \A c \in Copied : migs'[m].progress[c] = 0
    BY <1>3, <1>5, EntitiesFacts DEF NoProgress
  <2> QED
    BY <1>5, <1>7, <2>1 DEF ProgressIsCopied
<1> QED
  BY <1>10, <1>14, <1>15, <1>16, <1>17, <1>18 DEF IndInv

\* A resumed one: the others in flight are starts that copy it too.
LEMMA ResumeKeeps ==
    ASSUME IndInv, NEW r \in Requests, StartOpen(r), req[r].mig # 0
    PROVE  IndInv'
<1>1. /\ OpeningOK(r) /\ req[r].pc = "start.open" /\ UNCHANGED <<dbs, org>> /\ TypeOK
      /\ req \in [Requests -> Request] /\ req[r] \in Request /\ migs \in Seq(Migration)
      /\ InFlight(r) /\ ~Aborting(r)
  BY DEF StartOpen, IndInv, RequestOK, Opening, TypeOK, InFlight, Aborting
<1>2. PICK m, ask, loaded, given : m = req[r].mig /\ ask = req[r].doc /\ loaded = req[r].loaded
                                   /\ given = req[r].given
  OBVIOUS
<1>3. /\ m \in DOMAIN migs /\ IsOpen(m) /\ migs[m] \in Migration
      /\ ask \in Migration /\ loaded \in Migration /\ given \in BOOLEAN
      /\ loaded.dir = migs[m].dir /\ loaded.target = migs[m].target /\ loaded.dry = migs[m].dry
      /\ ask.dry => loaded.status = migs[m].status
      /\ loaded.target = None => loaded.progress = NoProgress
      /\ loaded.target # None => Prefix(m, loaded.progress)
      /\ migs[m].dir = ask.dir
      /\ given => migs[m].target \in {None, ask.target} /\ ask.target # None
  BY <1>1, <1>2 DEF OpeningOK, Request
<1>4. /\ ask.dir = "dedicated_to_shared" => ask.target = Shared /\ org.uri # None
      /\ ask.dir = "shared_to_dedicated" => ask.target \in Dedicated \cup {None} /\ ~org.dedicated
      /\ req[r].source = SourceOf(ask.dir) /\ req[r].source = Live
      /\ \A p \in Requests \ {r} : InFlight(p) => Running(p) /\ ~req[p].doc.dry /\ ~ask.dry
  BY <1>1, <1>2 DEF OpeningOK
<1> DEFINE doc == Resumed(loaded, ask, given)
           x == Saved(migs[m], loaded, doc)
<1>5. /\ doc \in Migration /\ doc.dir = loaded.dir /\ doc.dry = ask.dry
      /\ doc.status = "in_progress" /\ doc.progress = loaded.progress
      /\ doc.target = IF migs[m].target = None THEN ask.target ELSE migs[m].target
  BY <1>3 DEF Resumed, Migration, Open
<1> HIDE DEF doc
<1>6. /\ x \in Migration /\ x.dir = migs[m].dir /\ x.dry = ask.dry
      /\ x.target = doc.target /\ x.progress = migs[m].progress
      /\ x.status \in {"in_progress", migs[m].status}
      /\ ask.dry => x.status = "in_progress"
  BY <1>3, <1>5, ZenonT(60) DEF Saved, Migration
<1>7. migs' = [migs EXCEPT ![m] = x]
  BY <1>1, <1>2 DEF StartOpen, doc
<1> HIDE DEF x
<1>8. /\ migs' \in Seq(Migration) /\ Len(migs') = Len(migs) /\ DOMAIN migs' = DOMAIN migs
      /\ migs'[m] = x /\ \A n \in DOMAIN migs \ {m} : migs'[n] = migs[n]
  BY <1>1, <1>3, <1>6, <1>7
<1>9. IsOpen(m)' /\ (\A n \in DOMAIN migs : IsOpen(n)' <=> IsOpen(n))
      /\ (\A n \in DOMAIN migs : IsOpen(n) => n = m)
  BY <1>3, <1>6, <1>8 DEF IsOpen, Open, IndInv, OneOpen
<1>10. m \in 0 .. MaxMigrations
  BY <1>1, <1>3, Constants DEF TypeOK
<1>11. PICK q \in Request :
        /\ req' = [req EXCEPT ![r] = q]
        /\ \/ q = Idle
           \/ /\ q.pc = "start.connect" /\ q.mig = m /\ q.doc = doc /\ q.source = req[r].source
              /\ doc.target # None
  <2> DEFINE q == [Idle EXCEPT !.pc = "start.connect", !.mig = m, !.doc = doc, !.source = req[r].source]
  <2>1. q \in Request /\ q.pc = "start.connect" /\ q.mig = m /\ q.doc = doc /\ q.source = req[r].source
    BY <1>1, <1>5, <1>10, IdleType, ZenonT(60) DEF Request, PC, Starting
  <2>2. \/ doc.target = None /\ req' = [req EXCEPT ![r] = Idle]
        \/ doc.target # None /\ req' = [req EXCEPT ![r] = q]
    BY <1>2 DEF StartOpen, Finish, doc
  <2> HIDE DEF q
  <2> QED
    BY <2>1, <2>2, IdleType
<1>12. req'[r] = q /\ (\A p \in Requests \ {r} : req'[p] = req[p]) /\ TypeOK'
  BY <1>1, <1>8, <1>11 DEF TypeOK
<1>13. Idle.pc = "idle"
  BY DEF Idle
<1>14. migs[m].target # None =>
         /\ x.target = migs[m].target
         /\ \A c, i : Transferred(m, c, i)' <=> Transferred(m, c, i)
  BY <1>1, <1>5, <1>6, <1>8 DEF Transferred, Source
<1>15. migs[m].target = None => migs[m].progress = NoProgress /\ migs[m].status # "ready_for_cutover"
  BY <1>3 DEF IndInv, MigrationOK
<1>16. ASSUME NEW progress, progress \in [Collections -> 0 .. MaxId],
              IF migs[m].target = None THEN progress = NoProgress ELSE Prefix(m, progress)
       PROVE  Prefix(m, progress)'
  <2>1. CASE migs[m].target = None
    <3>1. \A c \in Copied : NoProgress[c] = 0
      BY EntitiesFacts DEF NoProgress
    <3> QED
      BY <1>16, <2>1, <3>1 DEF Prefix
  <2>2. CASE migs[m].target # None
    BY <1>14, <1>16, <2>2 DEF Prefix
  <2> QED
    BY <2>1, <2>2
<1>17. ASSUME q # Idle PROVE Running(r)' /\ RequestOK(r)' /\ req'[r].doc.dry = ask.dry
  <2>1. q.pc = "start.connect" /\ q.mig = m /\ q.doc = doc /\ q.source = req[r].source
        /\ doc.target # None
    BY <1>11, <1>17
  <2>2. Source(m)' = SourceOf(ask.dir) /\ Live' = Live
    BY <1>1, <1>3, <1>6, <1>8 DEF Source, SourceOf, Live
  <2>3. Prefix(m, loaded.progress)'
    BY <1>3, <1>16 DEF Migration
  <2>4. ask.dry => NoOther(r)'
    BY <1>4, <1>12 DEF NoOther, InFlight
  <2>5. RunningBase(r)'
    <3>1. Prefix(req[r].mig, req[r].doc.progress)'
      BY <1>5, <1>12, <2>1, <2>3 DEF Prefix
    <3> QED
      BY <1>3, <1>4, <1>5, <1>6, <1>8, <1>9, <1>12, <2>1, <2>2, <2>4, <3>1 DEF RunningBase
  <2>6. RunningOK(r)'
    BY <1>12, <2>1, <2>5 DEF RunningOK, CopyLoop
  <2> QED
    BY <1>5, <1>12, <2>1, <2>6 DEF RequestOK, InFlight, Running, Finalizing, Aborting, Starting,
       Opening, Copying
<1>18. RequestOK(r)'
  <2>1. CASE q = Idle
    BY <1>12, <1>13, <2>1 DEF RequestOK, InFlight, Running, Finalizing, Aborting, Starting,
       Opening, Copying
  <2> QED
    BY <1>17, <2>1
<1>19. ASSUME NEW p \in Requests \ {r} PROVE RequestOK(p)'
  <2>1. CASE ~InFlight(p)
    <3>1. req'[p] = Idle
      BY <1>12, <2>1 DEF IndInv, RequestOK
    <3> QED
      BY <1>13, <3>1 DEF RequestOK, InFlight, Running, Finalizing, Aborting, Starting, Opening, Copying
  <2>2. CASE InFlight(p)
    <3>1. Running(p) /\ ~req[p].doc.dry /\ ~ask.dry /\ RunningOK(p)
      BY <1>4, <2>2 DEF IndInv, RequestOK
    <3>2. req[p].mig = m /\ migs[m].target # None /\ migs[m].dry = FALSE
      BY <1>3, <1>9, <3>1 DEF RunningOK, RunningBase, Migration
    <3>3. \A n \in DOMAIN migs :
            /\ migs'[n].dir = migs[n].dir /\ migs'[n].dry = migs[n].dry
            /\ migs'[n].target = migs[n].target
            /\ IsOpen(n) /\ migs[n].target # None =>
                 \A c \in Copied, i \in Ids : Transferred(n, c, i) => Transferred(n, c, i)'
      BY <1>3, <1>6, <1>8, <1>9, <1>14, <3>1, <3>2 DEF Migration
    <3>4. ~Finalizing(p) /\ ~Aborting(p) /\ req[p].pc \notin Opening
      BY <3>1 DEF Running, Finalizing, Aborting, Starting, Opening, Copying
    <3>5. TypeOK /\ RequestOK(p)
      BY DEF IndInv
    <3> QED
      BY <1>1, <1>8, <1>9, <1>12, <2>2, <3>1, <3>3, <3>4, <3>5, OthersKeep
  <2> QED
    BY <2>1, <2>2
<1>20. \A n : ~BeingAborted(n)
  BY <1>1, Company DEF BeingAborted, InFlight, Aborting
<1>21. OneOpen' /\ OrgOK' /\ LiveIsNewest'
  BY <1>1, <1>8, <1>9 DEF IndInv, OneOpen, OrgOK, LiveIsNewest, Live
<1>22. \A n \in DOMAIN migs' : MigrationOK(n)'
  <2>1. MigrationOK(m)
    BY <1>3 DEF IndInv
  <2>2. MigrationOK(m)'
    BY <1>1, <1>3, <1>4, <1>5, <1>6, <1>8, <1>15, <2>1 DEF MigrationOK
  <2>3. \A n \in DOMAIN migs \ {m} : MigrationOK(n)'
    BY <1>8, <1>9 DEF MigrationOK
  <2> QED
    BY <1>8, <2>2, <2>3
<1>23. ReadyMeansCopied'
  <2>1. ASSUME x.status = "ready_for_cutover"
        PROVE  \A c \in Copied, i \in Ids : Transferred(m, c, i)'
    <3>1. migs[m].status = "ready_for_cutover" /\ ~migs[m].dry
      BY <1>3, <1>6, <2>1 DEF IndInv, MigrationOK
    <3> QED
      BY <1>3, <1>14, <1>15, <1>20, <3>1 DEF IndInv, ReadyMeansCopied
  <2>2. \A n \in DOMAIN migs' : migs'[n].status = "ready_for_cutover" => n = m
    BY <1>8, <1>9 DEF IsOpen, Open
  <2> QED
    BY <1>8, <2>1, <2>2 DEF ReadyMeansCopied
<1>24. ProgressIsCopied'
  <2>1. PICK progress : progress = migs[m].progress
    OBVIOUS
  <2>2. progress \in [Collections -> 0 .. MaxId] /\ x.progress = progress
    BY <1>3, <1>6, <2>1 DEF Migration
  <2>3. Prefix(m, progress)
    BY <1>3, <1>20, <2>1 DEF IndInv, ProgressIsCopied, Prefix
  <2>4. Prefix(m, progress)'
    BY <1>15, <1>16, <2>1, <2>2, <2>3
  <2> QED
    BY <1>8, <1>9, <2>2, <2>4 DEF ProgressIsCopied, Prefix
<1> QED
  BY <1>12, <1>18, <1>19, <1>21, <1>22, <1>23, <1>24 DEF IndInv

-----------------------------------------------------------------------------
(* The invariant is inductive *)

LEMMA InitIndInv == Init => IndInv
<1> SUFFICES ASSUME Init PROVE IndInv
  OBVIOUS
<1>1. migs = << >> /\ DOMAIN migs = {} /\ \A r \in Requests : req[r] = Idle
  BY DEF Init
<1>2. Live \in DB
  BY Constants DEF Init, Live
<1>3. /\ dbs \in [DB -> [Collections -> [Ids -> 0 .. MaxVersion]]]
      /\ \A d \in DB, c \in Collections, i \in Ids : dbs[d][c][i] = 0
  BY Constants DEF Init
<1>4. org \in [dedicated : BOOLEAN, uri : Dedicated \cup {None}] /\ OrgOK
  <2>1. CASE org = [dedicated |-> FALSE, uri |-> None]
    BY <2>1 DEF OrgOK
  <2>2. CASE \E d \in Dedicated : org = [dedicated |-> TRUE, uri |-> d]
    BY <2>2, Constants DEF OrgOK
  <2> QED
    BY <2>1, <2>2 DEF Init
<1>5. TypeOK
  <2>1. migs \in Seq(Migration) /\ Len(migs) <= MaxMigrations
    BY <1>1, Constants
  <2>2. req \in [Requests -> Request]
    BY IdleType DEF Init
  <2> QED
    BY <1>3, <1>4, <2>1, <2>2 DEF TypeOK
<1>6. ASSUME NEW r \in Requests PROVE RequestOK(r)
  <2>1. Idle.pc = "idle"
    BY DEF Idle
  <2> QED
    BY <1>1, <2>1 DEF RequestOK, InFlight, Running, Finalizing, Aborting, Starting, Opening, Copying
<1>7. LiveIsNewest
  <2> SUFFICES ASSUME NEW d \in DB, NEW c \in Portable, NEW i \in Ids
               PROVE  dbs[d][c][i] <= dbs[Live][c][i]
    BY DEF LiveIsNewest
  <2>1. c \in Collections
    BY EntitiesFacts DEF Portable
  <2> QED
    BY <1>2, <1>3, <2>1
<1>8. OneOpen /\ (\A m \in DOMAIN migs : MigrationOK(m)) /\ ReadyMeansCopied /\ ProgressIsCopied
  BY <1>1 DEF OneOpen, ReadyMeansCopied, ProgressIsCopied
<1> QED
  BY <1>4, <1>5, <1>6, <1>7, <1>8 DEF IndInv

\* Nothing the tenant sees changes, in the collections that move with it.
Unseen == \A c \in Portable, i \in Ids : Seen(c, i)' = Seen(c, i)

LEMMA SameLive ==
    ASSUME \A c \in Portable, i \in Ids : dbs'[Live'][c][i] = dbs[Live][c][i]
    PROVE  Unseen
BY DEF Unseen, Seen, Home, Portable

LEMMA SameStore ==
    ASSUME UNCHANGED <<dbs, org>>
    PROVE  Unseen
BY SameLive DEF Live

LEMMA NextKeeps ==
    ASSUME Careful, IndInv, Next
    PROVE  IndInv' /\ (Unseen \/ \E c \in Collections, i \in Ids : TenantWrite(c, i))
<1> DEFINE Kept == IndInv' /\ (Unseen \/ \E c \in Collections, i \in Ids : TenantWrite(c, i))
<1>1. ASSUME NEW r \in Requests, NEW dir \in Directions, NEW dry \in BOOLEAN,
             NEW t \in Dedicated \cup {None}, BeginStart(r, dir, dry, t)
      PROVE  Kept
  BY <1>1, BeginStartKeeps, SameStore DEF BeginStart
<1>2. ASSUME NEW r \in Requests, NEW m \in DOMAIN migs, BeginFinalize(r, m) PROVE Kept
  BY <1>2, BeginFinalizeKeeps, SameStore DEF BeginFinalize
<1>3. ASSUME NEW r \in Requests, NEW m \in DOMAIN migs, BeginAbort(r, m) PROVE Kept
  BY <1>3, BeginAbortKeeps, SameStore DEF BeginAbort
<1>4. ASSUME NEW r \in Requests, StartFind(r) PROVE Kept
  BY <1>4, StartFindKeeps, SameStore DEF StartFind
<1>5. ASSUME NEW r \in Requests, StartOpen(r) PROVE Kept
  BY <1>5, CreateKeeps, ResumeKeeps, SameStore DEF StartOpen
<1>6. ASSUME NEW r \in Requests, StartConnect(r) PROVE Kept
  BY <1>6, StartConnectKeeps, SameStore DEF StartConnect
<1>7. ASSUME NEW r \in Requests, DryCount(r) PROVE Kept
  BY <1>7, DryCountKeeps, SameStore DEF DryCount
<1>8. ASSUME NEW r \in Requests, CopyBegin(r) \/ CopyRecord(r) PROVE Kept
  BY <1>8, RecordKeeps, SameStore DEF CopyBegin, CopyRecord
<1>9. ASSUME NEW r \in Requests, CopyFind(r) PROVE Kept
  BY <1>9, CopyFindKeeps, SameStore DEF CopyFind
<1>10. ASSUME NEW r \in Requests, CopyWrite(r) PROVE Kept
  <2>1. Live' = Live
    BY <1>10 DEF CopyWrite, Live
  <2> QED
    BY <1>10, <2>1, CopyWriteKeeps, SameLive
<1>11. ASSUME NEW r \in Requests, StartReady(r) \/ StartFailed(r) PROVE Kept
  BY <1>11, StartEndKeeps, SameStore DEF StartReady, StartFailed
<1>12. ASSUME NEW r \in Requests, StartError(r) PROVE Kept
  BY <1>12, StartErrorKeeps, SameStore DEF StartError
<1>13. ASSUME NEW r \in Requests, FinalizeOrg(r) PROVE Kept
  BY <1>13, FinalizeOrgKeeps, SameLive
<1>14. ASSUME NEW r \in Requests, FinalizeSave(r) PROVE Kept
  BY <1>14, FinalizeSaveKeeps, SameStore DEF FinalizeSave
<1>15. ASSUME NEW r \in Requests, AbortClean(r) PROVE Kept
  BY <1>15, AbortCleanKeeps, SameLive
<1>16. ASSUME NEW r \in Requests, AbortCleanError(r) PROVE Kept
  BY <1>16, AbortCleanErrorKeeps, SameStore DEF AbortCleanError
<1>17. ASSUME NEW r \in Requests, AbortSave(r) PROVE Kept
  BY <1>17, AbortSaveKeeps, SameStore DEF AbortSave
<1>18. ASSUME NEW r \in Requests, Crash(r) PROVE Kept
  BY <1>18, CrashKeeps, SameStore DEF Crash
<1>19. ASSUME NEW c \in Collections, NEW i \in Ids, TenantWrite(c, i) PROVE Kept
  BY <1>19, TenantWriteKeeps
<1> HIDE DEF Kept
<1>20. ASSUME NEW r \in Requests, Arrive(r) PROVE Kept
  BY <1>1, <1>2, <1>3, <1>20 DEF Arrive
<1>21. ASSUME NEW r \in Requests, Step(r) PROVE Kept
  BY <1>4, <1>5, <1>6, <1>7, <1>8, <1>9, <1>10, <1>11, <1>13, <1>14, <1>15, <1>17, <1>21 DEF Step
<1>22. Kept
  BY <1>12, <1>16, <1>18, <1>19, <1>20, <1>21 DEF Next
<1> QED
  BY <1>22 DEF Kept

LEMMA StutterKeeps ==
    ASSUME IndInv, UNCHANGED vars
    PROVE  IndInv'
<1>1. UNCHANGED <<dbs, org, migs, req>>
  BY DEF vars
<1>2. /\ TypeOK' /\ Live' = Live /\ (\A m : IsOpen(m)' <=> IsOpen(m))
      /\ (\A m : Source(m)' = Source(m)) /\ (\A dir : SourceOf(dir)' = SourceOf(dir))
      /\ (\A m : BeingAborted(m)' <=> BeingAborted(m))
      /\ (\A r : InFlight(r)' <=> InFlight(r)) /\ (\A r : Running(r)' <=> Running(r))
      /\ (\A r : Finalizing(r)' <=> Finalizing(r)) /\ (\A r : Aborting(r)' <=> Aborting(r))
  BY <1>1 DEF IndInv, TypeOK, Live, IsOpen, Source, SourceOf, BeingAborted, InFlight, Running,
              Finalizing, Aborting
<1>3. \A m : \A c, i : Transferred(m, c, i)' <=> Transferred(m, c, i)
  BY <1>1, <1>2 DEF Transferred
<1>4. /\ \A m : \A progress : Prefix(m, progress)' <=> Prefix(m, progress)
      /\ \A m : AllTransferred(m)' <=> AllTransferred(m)
      /\ \A r : NoOther(r)' <=> NoOther(r)
  BY <1>2, <1>3 DEF Prefix, AllTransferred, NoOther
<1>5. OneOpen' /\ OrgOK' /\ (\A m \in DOMAIN migs' : MigrationOK(m)')
      /\ ReadyMeansCopied' /\ ProgressIsCopied' /\ LiveIsNewest'
  BY <1>1, <1>2, <1>3 DEF IndInv, OneOpen, OrgOK, MigrationOK, ReadyMeansCopied, ProgressIsCopied,
     LiveIsNewest
<1>6. ASSUME NEW r \in Requests PROVE RequestOK(r)'
  <2>1. OpeningOK(r) => OpeningOK(r)'
    BY <1>1, <1>2, <1>4 DEF OpeningOK
  <2>2. RunningBase(r) => RunningBase(r)'
    BY <1>1, <1>2, <1>4 DEF RunningBase
  <2>3. RunningOK(r) => RunningOK(r)'
    BY <1>1, <1>3, <1>4, <2>2 DEF RunningOK
  <2>4. (FinalizingOK(r) => FinalizingOK(r)') /\ (AbortingOK(r) => AbortingOK(r)')
    BY <1>1, <1>2, <1>4 DEF FinalizingOK, AbortingOK
  <2> QED
    BY <1>1, <1>2, <2>1, <2>3, <2>4 DEF IndInv, RequestOK
<1> QED
  BY <1>2, <1>5, <1>6 DEF IndInv

-----------------------------------------------------------------------------
(* Theorems *)

\* The invariant holds in every state of a migration run with the operator's
\* care, whatever dies on the way.
THEOREM MigrationInvariant == ASSUME Careful PROVE Spec => []IndInv
<1>1. IndInv /\ [Next]_vars => IndInv'
  BY NextKeeps, StutterKeeps
<1> QED
  BY <1>1, InitIndInv, PTL DEF Spec

\* The databases, the organization, the tenantmigrations documents and the
\* requests stay in the types the code gives them, every lastId included.
THEOREM MigrationTypeOK == ASSUME Careful PROVE Spec => []TypeOK
<1>1. IndInv => TypeOK
  BY DEF IndInv
<1> QED
  BY <1>1, MigrationInvariant, PTL

\* What the runbook lets the operator conclude from "ready_for_cutover": the
\* target has every document of the copied collections, however often start
\* crashed, failed or was repeated.
THEOREM ReadyIsCopied == ASSUME Careful PROVE Spec => []ReadyMeansCopied
<1>1. IndInv => ReadyMeansCopied
  BY DEF IndInv
<1> QED
  BY <1>1, MigrationInvariant, PTL

\* The progress that copyCollection saves never runs ahead of what it wrote,
\* so a start that resumes there skips no document.
THEOREM ResumeSkipsNothing == ASSUME Careful PROVE Spec => []ProgressIsCopied
<1>1. IndInv => ProgressIsCopied
  BY DEF IndInv
<1> QED
  BY <1>1, MigrationInvariant, PTL

\* A step of the server is a write of the tenant or changes nothing it sees,
\* in the collections that move with it.
LEMMA StepIsWrite ==
    ASSUME Careful, IndInv, [Next]_vars
    PROVE  [Tenant!Next]_[d \in Portable \X Ids |-> Seen(d[1], d[2])]
<1> DEFINE data == [d \in Portable \X Ids |-> Seen(d[1], d[2])]
<1>1. CASE Unseen
  <2>1. \A d \in Portable \X Ids : Seen(d[1], d[2])' = Seen(d[1], d[2])
    BY <1>1 DEF Unseen
  <2>2. data' = data
    BY <2>1
  <2> QED
    BY <2>2
<1>2. CASE \E c \in Collections, i \in Ids : TenantWrite(c, i)
  <2>1. PICK c \in Collections, i \in Ids : TenantWrite(c, i)
    BY <1>2
  <2>2. /\ dbs' = [dbs EXCEPT ![Home(c)][c][i] = @ + 1]
        /\ dbs \in [DB -> [Collections -> [Ids -> 0 .. MaxVersion]]]
        /\ Live \in DB /\ Live' = Live
    BY <2>1, Constants DEF TenantWrite, IndInv, TypeOK, Live
  <2>3. \A f \in Portable : f \in Collections /\ f \in Routed
    BY EntitiesFacts DEF Portable
  <2>4. ASSUME NEW f \in Portable, NEW j \in Ids
        PROVE  /\ Seen(f, j) = dbs[Live][f][j] /\ Seen(f, j)' = dbs'[Live][f][j]
               /\ Seen(f, j)' = IF <<f, j>> = <<c, i>> THEN Seen(f, j) + 1 ELSE Seen(f, j)
    <3>1. Seen(f, j) = dbs[Live][f][j] /\ Seen(f, j)' = dbs'[Live][f][j]
      BY <2>2, <2>3 DEF Seen, Home
    <3>2. CASE <<f, j>> = <<c, i>>
      <4>1. Home(c) = Live
        BY <2>3, <3>2 DEF Home
      <4> QED
        BY <2>2, <3>1, <3>2, <4>1
    <3>3. CASE <<f, j>> # <<c, i>>
      <4>1. Home(c) \in DB
        BY <2>2, Constants DEF Home
      <4> QED
        BY <2>2, <2>3, <3>1, <3>3, <4>1
    <3> QED
      BY <3>1, <3>2, <3>3
  <2>5. CASE c \in Portable
    <3>1. data' = [data EXCEPT ![<<c, i>>] = @ + 1]
      <4>1. \A d \in Portable \X Ids :
              Seen(d[1], d[2])' = IF d = <<c, i>> THEN Seen(d[1], d[2]) + 1 ELSE Seen(d[1], d[2])
        BY <2>4
      <4>2. data' = [d \in Portable \X Ids |->
                       IF d = <<c, i>> THEN Seen(d[1], d[2]) + 1 ELSE Seen(d[1], d[2])]
        BY <4>1
      <4> QED
        BY <2>5, <4>2
    <3>2. <<c, i>> \in Portable \X Ids
      BY <2>5
    <3> QED
      BY <3>1, <3>2 DEF Tenant!Next, Tenant!Write
  <2>6. CASE c \notin Portable
    <3>1. \A d \in Portable \X Ids : Seen(d[1], d[2])' = Seen(d[1], d[2])
      BY <2>4, <2>6
    <3>2. data' = data
      BY <3>1
    <3> QED
      BY <3>2
  <2> QED
    BY <2>5, <2>6
<1>3. CASE UNCHANGED vars
  <2>1. Unseen
    BY <1>3, SameStore DEF vars
  <2> QED
    BY <1>1, <2>1
<1> QED
  BY <1>1, <1>2, <1>3, NextKeeps

\* Cutover is invisible to the tenant: DatastoreMigration implements
\* TenantData, whose only step is a write of the tenant.
THEOREM CutoverIsInvisible == ASSUME Careful PROVE Spec => ImplementsTenantData
<1>1. Init => Tenant!Init
  <2> SUFFICES ASSUME Init PROVE Tenant!Init
    OBVIOUS
  <2>1. \A c \in Portable : c \in Collections /\ c \in Routed
    BY EntitiesFacts DEF Portable
  <2>2. \A c \in Portable, i \in Ids : Seen(c, i) = 0
    BY <2>1, Constants DEF Init, Seen, Home, Live
  <2> QED
    BY <2>2 DEF Tenant!Init
<1>2. IndInv /\ [Next]_vars => [Tenant!Next]_[d \in Portable \X Ids |-> Seen(d[1], d[2])]
  BY StepIsWrite
<1> QED
  BY <1>1, <1>2, MigrationInvariant, PTL DEF Spec, ImplementsTenantData, Tenant!Spec

-----------------------------------------------------------------------------
(* The script: the inductive invariants                                       *)

RunDoc == [pc: Stages, dry: BOOLEAN, began: 0..MaxEdits, view: {<<>>} \cup [Contacts -> Contact],
           at: 0..LastContact + 1, cache: SUBSET Names, known: SUBSET People,
           emails: SUBSET Emails, phones: SUBSET Phones, found: People \cup {Nothing},
           link: [Contacts -> People \cup {Nothing, "dry"}], todo: SUBSET Invites]

Exists(ps, p) == ps[p].status # "none"

\* What a run has in hand, with the people as they are.
RunOK(r, ps) ==
    /\ r.pc # "idle" => r.view \in [Contacts -> Contact] /\ r.at \in 1..LastContact + 1
    /\ r.pc \in {"name", "claim", "make", "report"} => r.at \in Contacts
    /\ r.pc = "name" => r.view[r.at].company \in Names
    /\ r.pc = "claim" => r.found \in People /\ Exists(ps, r.found)
    /\ r.pc = "report" => /\ r.found \in People /\ r.found = r.link[r.at]
                          /\ r.view[r.at].manager # 0 /\ r.link[r.view[r.at].manager] \in People
    /\ ~r.dry => \A c \in Contacts : r.link[c] # "dry"
    /\ \A c \in Contacts : r.link[c] \in People => Exists(ps, r.link[c])
    /\ \A p \in r.known : Exists(ps, p)

\* The run knows the marks of the contacts to come, as far as people are alive.
MarksKnown(r, ps, out) ==
    /\ r.pc \in {"people", "claim", "make"} =>
         \A p \in People \ out : ps[p].status = "live" /\ ps[p].ext >= r.at => p \in r.known
    /\ r.pc \in {"claim", "make"} =>
         \A p \in People \ out : ps[p].status = "live" => ps[p].ext # r.at

Reports(r, ps, c) ==
    LET m == r.view[c].manager IN
    m # 0 /\ Nothing \notin {r.link[c], r.link[m]} /\ r.link[c] # r.link[m] =>
      ps[r.link[c]].manager # Nothing

\* What the third pass has done so far,
Reported(r, ps) ==
    ~r.dry =>
      /\ r.pc \in {"managers", "report"} => \A c \in Contacts : c < r.at => Reports(r, ps, c)
      /\ r.pc \in {"invites", "done"} => \A c \in Contacts : Reports(r, ps, c)

\* and the fourth.
Backfilled(r, is) ==
    /\ r.pc = "invites" => \A i \in r.todo : is[i].contact # 0
    /\ r.pc = "done" => r.todo = {}
    /\ ~r.dry /\ r.pc \in {"invites", "done"} =>
         \A i \in Invites \ r.todo :
           is[i].contact # 0 /\ r.link[is[i].contact] # Nothing => is[i].person # Nothing

ScriptInv ==
    /\ ScriptTypeOK /\ run \in RunDoc
    /\ RunOK(run, person)
    /\ OneLivePersonPerContact
    /\ MarksKnown(run, person, back)
    /\ Reported(run, person)
    /\ Backfilled(run, invite)

\* Nobody adds people during a run.
Undisturbed == "overlap" \notin ScriptLiberties

\* The run's lists have the keys of all who are alive.
Listed(r, ps) ==
    r.pc \in {"people", "claim", "make"} =>
      \A p \in People : ps[p].status = "live" =>
        ps[p].email \in r.emails \cup {Nothing} /\ ps[p].phone \in r.phones \cup {Nothing}

KeyInv == KeysApart /\ Listed(run, person)

-----------------------------------------------------------------------------
(* Documents and runs                                                         *)

LEMMA ScriptConstants ==
    /\ LastContact \in Nat /\ MaxEdits \in Nat /\ MaxRuns \in Nat
    /\ Nothing \notin People /\ "dry" \notin People /\ Nothing # "dry"
BY MigrationAssumption

LEMMA Idles ==
    /\ NoRun \in RunDoc /\ NoRun.pc = "idle" /\ NoRun.known = {}
    /\ NoRun.link = [c \in Contacts |-> Nothing]
BY ScriptConstants DEF NoRun, RunDoc, Stages, Contacts

LEMMA NobodyTyped == NoPerson \in Person
BY ScriptConstants DEF NoPerson, Person

\* A run that rests holds nothing, and nothing is asked of it.
LEMMA RestKeeps ==
    ASSUME NEW ps, NEW is, NEW out
    PROVE  /\ RunOK(NoRun, ps) /\ MarksKnown(NoRun, ps, out)
           /\ Reported(NoRun, ps) /\ Backfilled(NoRun, is)
<1>1. \A c \in Contacts : NoRun.link[c] = Nothing
  BY Idles
<1> QED
  BY <1>1, Idles, ScriptConstants DEF RunOK, MarksKnown, Reported, Backfilled

LEMMA InitInv == ScriptInit => ScriptInv
<1> SUFFICES ASSUME ScriptInit PROVE ScriptInv
  OBVIOUS
<1>1. \A p \in People : person[p] = NoPerson
  BY DEF ScriptInit
<1>2. OneLivePersonPerContact
  BY <1>1 DEF OneLivePersonPerContact, LivePerson, NoPerson
<1>3. contact \in [Contacts -> Contact] /\ person \in [People -> Person]
      /\ invite \in [Invites -> Invite] /\ 0 \in 0..MaxRuns /\ 0 \in 0..MaxEdits
  BY MigrationAssumption, NobodyTyped DEF ScriptInit
<1>4. ScriptTypeOK
  BY <1>3, Idles DEF ScriptInit, ScriptTypeOK, RunDoc
<1> QED
  BY <1>2, <1>4, RestKeeps, Idles DEF ScriptInit, ScriptInv

-----------------------------------------------------------------------------
(* What others do                                                             *)

\* No edit touches a mark or a manager, takes a document away, or brings a mark
\* to life but in someone archived before.
Gently ==
    /\ person' \in [People -> Person]
    /\ \A p \in People : Exists(person, p) =>
         Exists(person', p) /\ person'[p].ext = person[p].ext /\ person'[p].manager = person[p].manager
    /\ \A p \in People \ back' : person'[p].status = "live" =>
         (LivePerson(p) /\ person'[p].ext = person[p].ext) \/ person'[p].ext = 0
    /\ back \subseteq back' /\ back' \subseteq People

LEMMA EditKeeps ==
    ASSUME ScriptInv, Gently, UNCHANGED <<run, runs, invite>>, settled' = FALSE, edits' \in 0..MaxEdits,
           contact' \in [Contacts -> Contact], named' \subseteq Names
    PROVE  ScriptInv'
<1> DEFINE r == run
<1>1. ScriptTypeOK' /\ run' \in RunDoc
  BY DEF ScriptInv, ScriptTypeOK, Gently
<1>2. r.link \in [Contacts -> People \cup {Nothing, "dry"}] /\ r.known \subseteq People
      /\ r.at \in Nat
  BY ScriptConstants DEF ScriptInv, RunDoc
<1>3. RunOK(run', person')
  BY <1>2 DEF ScriptInv, RunOK, Gently
<1>4. OneLivePersonPerContact'
  BY DEF ScriptInv, OneLivePersonPerContact, LivePerson, Gently
<1>5. MarksKnown(run', person', back')
  <2>1. ASSUME r.pc \in {"people", "claim", "make"}, NEW p \in People \ back', person'[p].status = "live",
               person'[p].ext >= r.at
        PROVE  p \in r.known
    <3>1. r.at # 0
      BY <2>1 DEF ScriptInv, RunOK
    <3> QED
      BY <1>2, <2>1, <3>1 DEF ScriptInv, MarksKnown, Gently, LivePerson
  <2>2. ASSUME r.pc \in {"claim", "make"}, NEW p \in People \ back', person'[p].status = "live"
        PROVE  person'[p].ext # r.at
    <3>1. r.at # 0
      BY <2>2 DEF ScriptInv, RunOK
    <3> QED
      BY <2>2, <3>1 DEF ScriptInv, MarksKnown, Gently, LivePerson
  <2> QED
    BY <2>1, <2>2 DEF MarksKnown
<1>6. Reported(run', person')
  <2>1. ASSUME ~r.dry, NEW c \in Contacts, r.pc # "idle", Reports(r, person, c)
        PROVE  Reports(r, person', c)
    <3>1. r.link[c] \in People \cup {Nothing}
      BY <1>2, <2>1 DEF ScriptInv, RunOK
    <3>2. r.link[c] \in People => person'[r.link[c]].manager = person[r.link[c]].manager
      BY DEF ScriptInv, RunOK, Gently
    <3> QED
      BY <2>1, <3>1, <3>2 DEF Reports
  <2> QED
    BY <2>1 DEF ScriptInv, Reported
<1>7. Backfilled(run', invite')
  BY DEF ScriptInv
<1> QED
  BY <1>1, <1>3, <1>4, <1>5, <1>6, <1>7 DEF ScriptInv

LEMMA PersonEditKeeps ==
    ASSUME ScriptInv, NEW p \in People, PersonCreate(p) \/ PersonArchive(p) \/ PersonUnarchive(p)
    PROVE  ScriptInv'
<1>1. UNCHANGED <<run, runs, invite, contact, named>> /\ settled' = FALSE /\ edits' \in 0..MaxEdits
      /\ contact \in [Contacts -> Contact] /\ named \subseteq Names /\ back \subseteq People
      /\ person \in [People -> Person]
  <2>1. Edited /\ UNCHANGED <<contact, named, invite>>
    BY Zenon DEF PersonCreate, PersonArchive, PersonUnarchive
  <2> QED
    BY <2>1, ScriptConstants DEF Edited, ScriptInv, ScriptTypeOK
<1>2. ASSUME PersonCreate(p) PROVE Gently
  <2>1. PICK e \in Emails \cup {Nothing}, f \in Phones \cup {Nothing} :
          person' = [person EXCEPT ![p] = [NoPerson EXCEPT !.status = "live", !.email = e, !.phone = f]]
    BY <1>2 DEF PersonCreate
  <2>2. ~Exists(person, p) /\ back' = back
    BY <1>2 DEF PersonCreate, Exists
  <2>3. person'[p] \in Person /\ person'[p].ext = 0 /\ \A q \in People \ {p} : person'[q] = person[q]
    BY <1>1, <2>1, NobodyTyped DEF NoPerson, Person
  <2>4. person' \in [People -> Person]
    BY <1>1, <2>1, <2>3
  <2> QED
    BY <1>1, <2>2, <2>3, <2>4 DEF Gently, LivePerson, Exists
<1>3. ASSUME PersonArchive(p) PROVE Gently
  <2>1. person' = [person EXCEPT ![p].status = "archived"] /\ back' = back
    BY <1>3 DEF PersonArchive
  <2>2. person' \in [People -> Person]
    BY <1>1, <2>1 DEF Person
  <2>3. person'[p].status = "archived" /\ person'[p].ext = person[p].ext
          /\ person'[p].manager = person[p].manager
        /\ \A q \in People \ {p} : person'[q] = person[q]
    BY <1>1, <2>1 DEF Person
  <2> QED
    BY <1>1, <2>1, <2>2, <2>3 DEF Gently, LivePerson, Exists
<1>4. ASSUME PersonUnarchive(p) PROVE Gently
  <2>1. person' = [person EXCEPT ![p].status = "live"] /\ back' = back \cup {p}
    BY <1>4 DEF PersonUnarchive
  <2>2. person' \in [People -> Person]
    BY <1>1, <2>1 DEF Person
  <2>3. person'[p].status = "live" /\ person'[p].ext = person[p].ext
          /\ person'[p].manager = person[p].manager
        /\ \A q \in People \ {p} : person'[q] = person[q]
    BY <1>1, <2>1 DEF Person
  <2> QED
    BY <1>1, <2>1, <2>2, <2>3 DEF Gently, LivePerson, Exists
<1> QED
  BY <1>1, <1>2, <1>3, <1>4, EditKeeps

LEMMA StillGently ==
    ASSUME ScriptInv, UNCHANGED <<person, back>>
    PROVE  Gently
BY DEF ScriptInv, ScriptTypeOK, Gently, LivePerson

LEMMA OtherEditKeeps ==
    ASSUME ScriptInv,
           (\E n \in Names : CompanyEdit(n)) \/ (\E c \in Contacts : ContactBatch(c))
              \/ (\E i \in Invites : Repair(i))
    PROVE  ScriptInv'
<1>1. UNCHANGED <<run, runs, invite, back>> /\ settled' = FALSE /\ edits' \in 0..MaxEdits
      /\ contact \in [Contacts -> Contact] /\ named \subseteq Names /\ back \subseteq People
      /\ person \in [People -> Person] /\ invite \in [Invites -> Invite]
  BY ScriptConstants DEF CompanyEdit, ContactBatch, Repair, Edited, ScriptInv, ScriptTypeOK
<1>2. ASSUME NEW n \in Names, CompanyEdit(n) PROVE ScriptInv'
  <2>1. named' \subseteq Names /\ UNCHANGED <<person, contact>>
    BY <1>1, <1>2 DEF CompanyEdit
  <2> QED
    BY <1>1, <2>1, StillGently, EditKeeps
<1>3. ASSUME NEW c \in Contacts, ContactBatch(c) PROVE ScriptInv'
  <2>1. contact' = [contact EXCEPT ![c].live = ~@] /\ UNCHANGED <<person, named>>
    BY <1>3 DEF ContactBatch
  <2>2. [contact[c] EXCEPT !.live = ~@] \in Contact
    <3>1. ASSUME NEW d \in Contact PROVE [d EXCEPT !.live = ~@] \in Contact
      <4>1. ASSUME NEW b \in BOOLEAN PROVE [d EXCEPT !.live = b] \in Contact
        BY <4>1 DEF Contact
      <4>2. (~d.live) \in BOOLEAN
        OBVIOUS
      <4> QED
        BY <4>1, <4>2
    <3> QED
      BY <1>1, <3>1
  <2>3. contact' \in [Contacts -> Contact]
    BY <1>1, <2>1, <2>2
  <2> QED
    BY <1>1, <2>1, <2>3, StillGently, EditKeeps
<1>4. ASSUME NEW i \in Invites, Repair(i) PROVE ScriptInv'
  <2>1. PICK p \in PeopleOf(i) : person' = [person EXCEPT ![p].user = invite[i].user]
    BY <1>4 DEF Repair
  <2>2. p \in People /\ invite[i].user \in Users /\ UNCHANGED <<contact, named>>
    BY <1>1, <1>4, <2>1, ScriptConstants DEF Repair, PeopleOf, Invite
  <2>3. person' \in [People -> Person]
    BY <1>1, <2>1, <2>2 DEF Person
  <2>4. person'[p].status = person[p].status /\ person'[p].ext = person[p].ext
        /\ person'[p].manager = person[p].manager /\ \A q \in People \ {p} : person'[q] = person[q]
    BY <1>1, <2>1, <2>2 DEF Person
  <2>5. Gently
    BY <1>1, <2>3, <2>4 DEF Gently, LivePerson, Exists
  <2> QED
    BY <1>1, <2>2, <2>5, EditKeeps
<1> QED
  BY <1>2, <1>3, <1>4

-----------------------------------------------------------------------------
(* The script: steps that write no person                                     *)

LEMMA RunMoves ==
    ASSUME ScriptInv, UNCHANGED <<contact, person, invite, edits, back>>,
           named' \subseteq Names, runs' \in 0..MaxRuns, settled' \in BOOLEAN, run' \in RunDoc,
           RunOK(run', person), MarksKnown(run', person, back),
           Reported(run', person), Backfilled(run', invite)
    PROVE  ScriptInv'
<1>1. ScriptTypeOK'
  BY DEF ScriptInv, ScriptTypeOK, RunDoc
<1>2. OneLivePersonPerContact'
  BY DEF ScriptInv, OneLivePersonPerContact, LivePerson
<1> QED
  BY <1>1, <1>2 DEF ScriptInv

LEMMA Fields ==
    ASSUME NEW r \in RunDoc
    PROVE  /\ r.at \in Nat /\ r.link \in [Contacts -> People \cup {Nothing, "dry"}]
           /\ r.todo \subseteq Invites
           /\ r.known \subseteq People /\ r.emails \subseteq Emails /\ r.phones \subseteq Phones
           /\ r.cache \subseteq Names /\ r.dry \in BOOLEAN
BY ScriptConstants DEF RunDoc

LEMMA MineTyped ==
    ASSUME ScriptInv, run.pc # "idle", run.at <= LastContact
    PROVE  run.at \in Contacts /\ Mine \in Contact
BY ScriptConstants DEF ScriptInv, RunOK, Mine, Contacts

LEMMA StartKeeps ==
    ASSUME ScriptInv, NEW dry \in BOOLEAN, Start(dry)
    PROVE  ScriptInv'
<1>1. /\ run' = [NoRun EXCEPT !.pc = "companies", !.dry = dry, !.began = edits, !.view = contact,
         !.at = 1]
      /\ runs' = runs + 1 /\ runs < MaxRuns
      /\ UNCHANGED <<contact, person, named, invite, edits, back, settled>>
  BY DEF Start
<1>2. /\ contact \in [Contacts -> Contact] /\ runs' \in 0..MaxRuns /\ edits \in 0..MaxEdits
      /\ named \subseteq Names /\ settled \in BOOLEAN
  BY <1>1, ScriptConstants DEF ScriptInv, ScriptTypeOK
<1>3. run' \in RunDoc
  <2>1. NoRun \in RunDoc /\ 1 \in 0..LastContact + 1
    BY Idles, ScriptConstants
  <2> QED
    BY <1>1, <1>2, <2>1 DEF RunDoc, Stages
<1>4. /\ run'.pc = "companies" /\ run'.at = 1 /\ run'.view = contact
      /\ run'.known = {} /\ run'.link = [c \in Contacts |-> Nothing]
  BY <1>1 DEF NoRun
<1>5. RunOK(run', person)
  BY <1>2, <1>4, ScriptConstants DEF RunOK
<1>6. MarksKnown(run', person, back) /\ Reported(run', person) /\ Backfilled(run', invite)
  BY <1>4 DEF MarksKnown, Reported, Backfilled
<1> QED
  BY <1>1, <1>2, <1>3, <1>5, <1>6, RunMoves

\* The company of a contact that has one.
LEMMA FindCompanyKeeps ==
    ASSUME ScriptInv, FindCompany
    PROVE  ScriptInv'
<1> DEFINE n == Mine.company
<1>1. In("companies") /\ UNCHANGED <<contact, person, named, invite, runs, edits, back, settled>>
  BY DEF FindCompany
<1>2. run.pc = "companies" /\ run.at \in Contacts /\ Mine \in Contact /\ run \in RunDoc
      /\ run.at + 1 \in 1..LastContact + 1 /\ run.at + 1 \in 0..LastContact + 1
  BY <1>1, MineTyped, ScriptConstants DEF In, ScriptInv, Contacts
<1>3. n \in Names \cup {Nothing}
  BY <1>2 DEF Contact
<1>4. CASE run' = NextContact(run) /\ n \in {Nothing} \cup run.cache
  <2>1. run' \in RunDoc /\ run'.pc = run.pc /\ run'.at = run.at + 1 /\ run'.view = run.view
        /\ run'.known = run.known /\ run'.link = run.link /\ run'.dry = run.dry
    BY <1>2, <1>4 DEF NextContact, RunDoc
  <2>2. RunOK(run', person)
    BY <1>2, <2>1 DEF ScriptInv, RunOK
  <2>3. MarksKnown(run', person, back) /\ Reported(run', person) /\ Backfilled(run', invite)
    BY <1>2, <2>1 DEF MarksKnown, Reported, Backfilled
  <2> QED
    BY <1>1, <2>1, <2>2, <2>3, RunMoves DEF ScriptInv, ScriptTypeOK
<1>5. CASE run' = NextContact([run EXCEPT !.cache = @ \cup {n}]) /\ n \notin {Nothing}
  <2>1. run' \in RunDoc /\ run'.pc = run.pc /\ run'.at = run.at + 1 /\ run'.view = run.view
        /\ run'.known = run.known /\ run'.link = run.link /\ run'.dry = run.dry
    BY <1>2, <1>3, <1>5 DEF NextContact, RunDoc
  <2>2. RunOK(run', person)
    BY <1>2, <2>1 DEF ScriptInv, RunOK
  <2>3. MarksKnown(run', person, back) /\ Reported(run', person) /\ Backfilled(run', invite)
    BY <1>2, <2>1 DEF MarksKnown, Reported, Backfilled
  <2> QED
    BY <1>1, <2>1, <2>2, <2>3, RunMoves DEF ScriptInv, ScriptTypeOK
<1>6. CASE run' = [run EXCEPT !.pc = "name"] /\ n # Nothing
  <2>1. run' \in RunDoc /\ run'.pc = "name" /\ run'.at = run.at /\ run'.view = run.view
        /\ run'.known = run.known /\ run'.link = run.link /\ run'.dry = run.dry
    BY <1>2, <1>6 DEF RunDoc, Stages
  <2>2. RunOK(run', person)
    BY <1>2, <1>3, <1>6, <2>1 DEF ScriptInv, RunOK, Mine
  <2>3. MarksKnown(run', person, back) /\ Reported(run', person) /\ Backfilled(run', invite)
    BY <1>2, <2>1 DEF MarksKnown, Reported, Backfilled
  <2> QED
    BY <1>1, <2>1, <2>2, <2>3, RunMoves DEF ScriptInv, ScriptTypeOK
<1> QED
  BY <1>4, <1>5, <1>6 DEF FindCompany

LEMMA CreateCompanyKeeps ==
    ASSUME ScriptInv, CreateCompany
    PROVE  ScriptInv'
<1> DEFINE n == Mine.company
           r == [run EXCEPT !.pc = "companies", !.cache = @ \cup {n}]
<1>1. /\ In("name") /\ named' = named \cup {n} /\ settled' = settled
      /\ run' = NoRun \/ run' = NextContact(r)
      /\ UNCHANGED <<contact, person, invite, runs, edits, back>>
  BY DEF CreateCompany
<1>2. run.pc = "name" /\ run.at \in Contacts /\ run \in RunDoc
      /\ run.at + 1 \in 1..LastContact + 1 /\ run.at + 1 \in 0..LastContact + 1
      /\ n \in Names
  BY <1>1, MineTyped, ScriptConstants DEF In, ScriptInv, Contacts, RunOK, Mine
<1>3. named' \subseteq Names /\ runs' \in 0..MaxRuns /\ settled' \in BOOLEAN
  BY <1>1, <1>2 DEF ScriptInv, ScriptTypeOK
<1>4. CASE run' = NoRun
  BY <1>1, <1>3, <1>4, RestKeeps, Idles, RunMoves
<1>5. CASE run' = NextContact(r)
  <2>1. run' \in RunDoc /\ run'.pc = "companies" /\ run'.at = run.at + 1 /\ run'.view = run.view
        /\ run'.known = run.known /\ run'.link = run.link /\ run'.dry = run.dry
    BY <1>2, <1>5 DEF NextContact, RunDoc, Stages
  <2>2. RunOK(run', person)
    BY <1>2, <2>1 DEF ScriptInv, RunOK
  <2>3. MarksKnown(run', person, back) /\ Reported(run', person) /\ Backfilled(run', invite)
    BY <2>1 DEF MarksKnown, Reported, Backfilled
  <2> QED
    BY <1>1, <1>3, <2>1, <2>2, <2>3, RunMoves
<1> QED
  BY <1>1, <1>4, <1>5

\* A pass over the contacts begins.
LEMMA PassKeeps ==
    ASSUME ScriptInv, ToPeople \/ ToManagers
    PROVE  ScriptInv'
<1>1. /\ run.pc \in {"companies", "people"} /\ UNCHANGED <<contact, person, named, invite, runs,
         edits, back, settled>>
      /\ \E pc \in {"look", "managers"} : run' = [run EXCEPT !.pc = pc, !.at = 1]
  BY DEF ToPeople, ToManagers, Through
<1>2. PICK pc \in {"look", "managers"} : run' = [run EXCEPT !.pc = pc, !.at = 1]
  BY <1>1
<1>3. run \in RunDoc /\ 1 \in 1..LastContact + 1 /\ 1 \in 0..LastContact + 1
  BY ScriptConstants DEF ScriptInv
<1>4. run' \in RunDoc /\ run'.pc \in {"look", "managers"} /\ run'.at = 1 /\ run'.view = run.view
      /\ run'.known = run.known /\ run'.link = run.link /\ run'.dry = run.dry
  BY <1>2, <1>3 DEF RunDoc, Stages
<1>5. RunOK(run', person)
  BY <1>1, <1>3, <1>4 DEF ScriptInv, RunOK
<1>6. MarksKnown(run', person, back) /\ Reported(run', person) /\ Backfilled(run', invite)
  BY <1>4 DEF MarksKnown, Reported, Backfilled, Contacts
<1> QED
  BY <1>1, <1>4, <1>5, <1>6, RunMoves DEF ScriptInv, ScriptTypeOK

LEMMA LookKeeps ==
    ASSUME ScriptInv, LookAtPeople
    PROVE  ScriptInv'
<1> DEFINE live == {p \in People : LivePerson(p)}
           known == {p \in live : person[p].ext # 0}
           emails == {person[p].email : p \in live} \ {Nothing}
           phones == {person[p].phone : p \in live} \ {Nothing}
<1>1. run.pc = "look" /\ UNCHANGED <<contact, person, named, invite, runs, edits, back, settled>>
      /\ run' = [run EXCEPT !.pc = "people", !.known = known, !.emails = emails, !.phones = phones]
  BY DEF LookAtPeople
<1>2. \A p \in People : person[p] \in Person
  BY DEF ScriptInv, ScriptTypeOK
<1>3. known \subseteq People /\ emails \subseteq Emails /\ phones \subseteq Phones
  BY <1>2 DEF Person
<1>4. \A p \in known : Exists(person, p)
  BY DEF Exists, LivePerson
<1>5. \A p \in People : person[p].status = "live" /\ person[p].ext # 0 => p \in known
  BY DEF LivePerson
<1> HIDE DEF known, emails, phones
<1>6. run \in RunDoc /\ run.at \in 1..LastContact + 1 /\ run.view \in [Contacts -> Contact]
  BY <1>1 DEF ScriptInv, RunOK
<1>7. run' \in RunDoc /\ run'.pc = "people" /\ run'.at = run.at /\ run'.view = run.view
      /\ run'.known = known /\ run'.link = run.link /\ run'.dry = run.dry
  BY <1>1, <1>3, <1>6 DEF RunDoc, Stages
<1>8. RunOK(run', person)
  BY <1>4, <1>6, <1>7 DEF ScriptInv, RunOK
<1>9. MarksKnown(run', person, back)
  BY <1>2, <1>5, <1>6, <1>7, ScriptConstants DEF MarksKnown, Person
<1>10. Reported(run', person) /\ Backfilled(run', invite)
  BY <1>7 DEF Reported, Backfilled
<1> QED
  BY <1>1, <1>7, <1>8, <1>9, <1>10, RunMoves DEF ScriptInv, ScriptTypeOK

-----------------------------------------------------------------------------
(* The script: people                                                         *)

LEMMA LinkedDoc ==
    ASSUME NEW r \in RunDoc, r.at \in Contacts, NEW p \in People \cup {"dry"}
    PROVE  LET s == Linked(r, p) IN
           /\ s \in RunDoc /\ s.pc = "people" /\ s.at = r.at + 1 /\ s.view = r.view /\ s.dry = r.dry
           /\ s.known = r.known /\ s.emails = r.emails /\ s.phones = r.phones
           /\ s.link = [r.link EXCEPT ![r.at] = p]
<1> DEFINE l == [r.link EXCEPT ![r.at] = p]
           t == [r EXCEPT !.link[r.at] = p, !.pc = "people", !.found = Nothing]
           u == [r EXCEPT !.link = l, !.pc = "people", !.found = Nothing]
<1>1. r.link \in [Contacts -> People \cup {Nothing, "dry"}] /\ r.at + 1 \in 0..LastContact + 1
  BY ScriptConstants DEF RunDoc, Contacts
<1>2. l \in [Contacts -> People \cup {Nothing, "dry"}]
  BY <1>1
<1>3. t = u
  BY DEF RunDoc
<1> HIDE DEF l, t
<1>4. u \in RunDoc /\ u.pc = "people" /\ u.at = r.at /\ u.view = r.view /\ u.dry = r.dry
      /\ u.known = r.known /\ u.emails = r.emails /\ u.phones = r.phones /\ u.link = l
  BY <1>2 DEF RunDoc, Stages
<1> HIDE DEF u
<1>5. Linked(r, p) = NextContact(u)
  BY <1>3 DEF Linked, t
<1> QED
  BY <1>1, <1>4, <1>5 DEF NextContact, RunDoc, l

\* A contact becomes someone who is there, or nobody in a dry run.
LEMMA LinkedOK ==
    ASSUME NEW r \in RunDoc, r.pc # "idle", r.at \in Contacts, NEW ps, RunOK(r, ps),
           NEW p \in People \cup {"dry"}, p = "dry" => r.dry, p \in People => Exists(ps, p)
    PROVE  RunOK(Linked(r, p), ps)
<1> DEFINE s == Linked(r, p)
<1>1. /\ s.pc = "people" /\ s.at = r.at + 1 /\ s.view = r.view /\ s.dry = r.dry
      /\ s.known = r.known /\ s.link = [r.link EXCEPT ![r.at] = p]
  BY LinkedDoc
<1> HIDE DEF s
<1>2. r.at + 1 \in 1..LastContact + 1 /\ r.link \in [Contacts -> People \cup {Nothing, "dry"}]
  BY ScriptConstants DEF Contacts, RunDoc
<1>3. \A c \in Contacts : s.link[c] = IF c = r.at THEN p ELSE r.link[c]
  BY <1>1, <1>2
<1>4. s.pc # "idle" => s.view \in [Contacts -> Contact] /\ s.at \in 1..LastContact + 1
  BY <1>1, <1>2 DEF RunOK
<1>5. \A c \in Contacts : s.link[c] \in People => Exists(ps, s.link[c])
  BY <1>3 DEF RunOK
<1>6. ~s.dry => \A c \in Contacts : s.link[c] # "dry"
  BY <1>1, <1>3 DEF RunOK
<1>7. RunOK(s, ps)
  BY <1>1, <1>4, <1>5, <1>6 DEF RunOK
<1> QED
  BY <1>7 DEF s

LEMMA Passing ==
    ASSUME NEW r, r.pc \in {"look", "people", "claim", "make"}, NEW ps, NEW is
    PROVE  Reported(r, ps) /\ Backfilled(r, is)
BY DEF Reported, Backfilled

\* The next contact has the marks this one needed, and fewer to ask for.
LEMMA LinkedMarks ==
    ASSUME NEW r \in RunDoc, r.pc \in {"people", "claim", "make"}, r.at \in Contacts,
           person \in [People -> Person], MarksKnown(r, person, back), NEW p \in People \cup {"dry"}
    PROVE  MarksKnown(Linked(r, p), person, back)
<1>1. Linked(r, p).pc = "people" /\ Linked(r, p).at = r.at + 1 /\ Linked(r, p).known = r.known
  BY LinkedDoc
<1>2. \A q \in People : person[q].ext \in Nat /\ (person[q].ext >= r.at + 1 => person[q].ext >= r.at)
  BY ScriptConstants DEF Person, Contacts
<1> QED
  BY <1>1, <1>2 DEF MarksKnown

LEMMA MatchContactKeeps ==
    ASSUME ScriptInv, MatchContact
    PROVE  ScriptInv'
<1>1. run.pc = "people" /\ run.at <= LastContact
      /\ UNCHANGED <<contact, person, named, invite, runs, edits, back, settled>>
  BY DEF MatchContact, In
<1>2. /\ run.at \in Contacts /\ run \in RunDoc /\ person \in [People -> Person]
      /\ run.at + 1 \in 1..LastContact + 1 /\ run.at + 1 \in 0..LastContact + 1
      /\ RunOK(run, person) /\ MarksKnown(run, person, back)
      /\ named' \subseteq Names /\ runs' \in 0..MaxRuns /\ settled' \in BOOLEAN
  BY <1>1, MineTyped, ScriptConstants DEF ScriptInv, Contacts, ScriptTypeOK
<1>3. \A p \in People : person[p].ext \in Nat
  BY <1>2, ScriptConstants DEF Person
<1>4. CASE run' = NextContact(run)
  <2>1. run' \in RunDoc /\ run'.pc = "people" /\ run'.at = run.at + 1 /\ run'.view = run.view
        /\ run'.known = run.known /\ run'.link = run.link /\ run'.dry = run.dry
    BY <1>1, <1>2, <1>4 DEF NextContact, RunDoc
  <2>2. RunOK(run', person)
    BY <1>1, <1>2, <2>1 DEF RunOK
  <2>3. MarksKnown(run', person, back)
    BY <1>1, <1>2, <1>3, <2>1, ScriptConstants DEF MarksKnown, Contacts
  <2> QED
    BY <1>1, <1>2, <2>1, <2>2, <2>3, Passing, RunMoves
<1>5. ASSUME NEW p \in People, Exists(person, p), run' = Linked(run, p) PROVE ScriptInv'
  <2>1. run' \in RunDoc /\ run'.pc = "people" /\ RunOK(run', person) /\ MarksKnown(run', person, back)
    BY <1>1, <1>2, <1>5, LinkedDoc, LinkedOK, LinkedMarks, ScriptConstants
  <2> QED
    BY <1>1, <1>2, <2>1, Passing, RunMoves
<1>6. Marked # {} => \A p \in Marked : p \in People /\ Exists(person, p)
  BY <1>2, Fields DEF Marked, RunOK
<1>7. \A p \in Matches(Mine) : p \in People /\ Exists(person, p)
  BY DEF Matches, Exists, LivePerson
<1>8. Marked = {} => \A p \in People \ back : person[p].status = "live" => person[p].ext # run.at
  BY <1>1, <1>2, <1>3, ScriptConstants DEF Marked, MarksKnown, Contacts
<1>9. ASSUME NEW p \in People, Exists(person, p), Marked = {},
             run' = [run EXCEPT !.pc = "claim", !.found = p]
      PROVE  ScriptInv'
  <2>1. run' \in RunDoc /\ run'.pc = "claim" /\ run'.at = run.at /\ run'.view = run.view /\ run'.found = p
        /\ run'.known = run.known /\ run'.link = run.link /\ run'.dry = run.dry
    BY <1>2, <1>9 DEF RunDoc, Stages
  <2>2. RunOK(run', person)
    BY <1>1, <1>2, <1>9, <2>1 DEF RunOK
  <2>3. MarksKnown(run', person, back)
    BY <1>1, <1>2, <1>8, <1>9, <2>1 DEF MarksKnown
  <2> QED
    BY <1>1, <1>2, <2>1, <2>2, <2>3, Passing, RunMoves
<1>10. ASSUME Marked = {}, run' = [run EXCEPT !.pc = "make"]
       PROVE  ScriptInv'
  <2>1. run' \in RunDoc /\ run'.pc = "make" /\ run'.at = run.at /\ run'.view = run.view
        /\ run'.known = run.known /\ run'.link = run.link /\ run'.dry = run.dry
    BY <1>2, <1>10 DEF RunDoc, Stages
  <2>2. RunOK(run', person)
    BY <1>1, <1>2, <2>1 DEF RunOK
  <2>3. MarksKnown(run', person, back)
    BY <1>1, <1>2, <1>8, <1>10, <2>1 DEF MarksKnown
  <2> QED
    BY <1>1, <1>2, <2>1, <2>2, <2>3, Passing, RunMoves
<1> QED
  BY <1>4, <1>5, <1>6, <1>7, <1>9, <1>10 DEF MatchContact

Same(r, s) ==
    /\ r.pc = s.pc /\ r.dry = s.dry /\ r.view = s.view /\ r.at = s.at
    /\ r.known = s.known /\ r.found = s.found /\ r.link = s.link

LEMMA SameOK ==
    ASSUME NEW r, NEW s, Same(s, r), NEW ps, RunOK(r, ps)
    PROVE  RunOK(s, ps)
BY DEF Same, RunOK

\* The person in hand, found or made, gets the mark of the contact in hand,
\* which nobody alive has.
LEMMA MarkKeeps ==
    ASSUME ScriptInv, run.pc \in {"claim", "make"}, run.at \in Contacts,
           NEW p \in People, person' \in [People -> Person],
           \A q \in People \ {p} : person'[q] = person[q],
           person'[p].ext = run.at, Exists(person', p),
           UNCHANGED <<contact, named, invite, runs, edits, back, settled>>,
           NEW r \in RunDoc, Same(r, run), run' = Linked(r, p)
    PROVE  ScriptInv'
<1>1. r.at = run.at /\ r.pc = run.pc /\ r.known = run.known /\ run \in RunDoc
        /\ person \in [People -> Person]
      /\ RunOK(run, person) /\ MarksKnown(run, person, back) /\ OneLivePersonPerContact
  BY DEF Same, ScriptInv, ScriptTypeOK
<1>2. run' \in RunDoc /\ run'.pc = "people" /\ run'.at = run.at + 1 /\ run'.known = run.known
  <2>1. r.at \in Contacts /\ p \in People \cup {"dry"}
    BY <1>1
  <2> QED
    BY <1>1, <2>1, LinkedDoc, ZenonT(30)
<1>3. ScriptTypeOK'
  BY <1>2 DEF ScriptInv, ScriptTypeOK, RunDoc
<1>4. RunOK(run', person')
  <2>1. \A q \in People : Exists(person, q) => Exists(person', q)
    BY DEF Exists
  <2>2. run.link \in [Contacts -> People \cup {Nothing, "dry"}] /\ run.known \subseteq People
    BY <1>1, Fields
  <2>3. RunOK(run, person')
    BY <1>1, <2>1, <2>2 DEF RunOK
  <2>4. RunOK(r, person')
    BY <2>3, SameOK
  <2> QED
    BY <1>1, <2>4, LinkedOK, ScriptConstants
<1>5. \A q \in People : person'[q].ext \in Nat
  BY ScriptConstants DEF Person
<1>6. MarksKnown(run', person', back')
  <2>1. ASSUME NEW q \in People \ back, person'[q].status = "live", person'[q].ext >= run.at + 1
        PROVE  q \in run.known
    <3>1. run.at \in Nat
      BY ScriptConstants DEF Contacts
    <3>2. q # p /\ person'[q].ext >= run.at
      BY <1>5, <2>1, <3>1
    <3> QED
      BY <1>1, <2>1, <3>2 DEF MarksKnown
  <2> QED
    BY <1>2, <2>1 DEF MarksKnown
<1>7. OneLivePersonPerContact'
  BY <1>1 DEF MarksKnown, OneLivePersonPerContact, LivePerson
<1>8. Reported(run', person') /\ Backfilled(run', invite')
  BY <1>2, Passing
<1> QED
  BY <1>2, <1>3, <1>4, <1>6, <1>7, <1>8 DEF ScriptInv

LEMMA ClaimPersonKeeps ==
    ASSUME ScriptInv, ClaimPerson
    PROVE  ScriptInv'
<1>1. /\ run.pc = "claim" /\ run.at <= LastContact
      /\ person' = [person EXCEPT ![run.found].ext = run.at]
      /\ run' = Linked(run, run.found)
      /\ UNCHANGED <<contact, named, invite, runs, edits, back, settled>>
  BY DEF ClaimPerson, In
<1>2. run.at \in Contacts /\ run.at \in 0..LastContact /\ run \in RunDoc /\ run.found \in People
      /\ Exists(person, run.found) /\ person \in [People -> Person]
  BY <1>1, MineTyped, ScriptConstants DEF ScriptInv, RunOK, ScriptTypeOK, Contacts
<1>3. person' \in [People -> Person]
  BY <1>1, <1>2 DEF Person
<1>4. person'[run.found].ext = run.at /\ person'[run.found].status = person[run.found].status
      /\ \A q \in People \ {run.found} : person'[q] = person[q]
  BY <1>1, <1>2 DEF Person
<1>5. Same(run, run)
  BY DEF Same
<1> QED
  BY <1>1, <1>2, <1>3, <1>4, <1>5, MarkKeeps DEF Exists

LEMMA TakenDoc ==
    ASSUME NEW r \in RunDoc, NEW c \in Contact, Mine = c
    PROVE  LET s == Taken(r) IN
           /\ s \in RunDoc /\ Same(s, r)
           /\ r.emails \cup {c.email} \subseteq s.emails \cup {Nothing}
           /\ r.phones \cup {c.phone} \subseteq s.phones \cup {Nothing}
<1>1. c.email \in Emails \cup {Nothing} /\ c.phone \in Phones \cup {Nothing}
  BY DEF Contact
<1>2. r.emails \subseteq Emails /\ r.phones \subseteq Phones
  BY DEF RunDoc
<1> DEFINE e == r.emails \cup ({c.email} \ {Nothing})
           f == r.phones \cup ({c.phone} \ {Nothing})
<1>3. e \subseteq Emails /\ f \subseteq Phones /\ r.emails \cup {c.email} \subseteq e \cup {Nothing}
      /\ r.phones \cup {c.phone} \subseteq f \cup {Nothing}
  BY <1>1, <1>2
<1>4. Taken(r) = [r EXCEPT !.emails = e, !.phones = f]
  BY DEF Taken
<1> HIDE DEF e, f
<1>5. [r EXCEPT !.emails = e, !.phones = f] \in RunDoc /\ Taken(r).emails = e /\ Taken(r).phones = f
  BY <1>3, <1>4 DEF RunDoc
<1>6. Same(Taken(r), r)
  BY <1>4 DEF RunDoc, Same
<1> QED
  BY <1>3, <1>4, <1>5, <1>6

LEMMA PersonOfTyped ==
    ASSUME run \in RunDoc, run.at \in Contacts, Mine \in Contact
    PROVE  /\ PersonOf \in Person /\ PersonOf.ext = run.at
           /\ PersonOf.status = IF Mine.live THEN "live" ELSE "archived"
           /\ PersonOf.email = KeyFor(Mine.email, run.emails)
           /\ PersonOf.phone = KeyFor(Mine.phone, run.phones)
<1>1. KeyFor(Mine.email, run.emails) \in Emails \cup {Nothing}
      /\ KeyFor(Mine.phone, run.phones) \in Phones \cup {Nothing}
  BY DEF KeyFor, Contact
<1>2. Mine.company \in Names \cup {Nothing} /\ Mine.user \in Users \cup {Nothing}
        /\ run.at \in 0..LastContact
  BY ScriptConstants DEF Contact, Contacts
<1> QED
  BY <1>1, <1>2 DEF PersonOf, Person

\* In a dry run nothing is written but the run's own lists.
LEMMA MakePersonKeeps ==
    ASSUME ScriptInv, MakePerson
    PROVE  ScriptInv'
<1>1. /\ run.pc = "make" /\ run.at <= LastContact
      /\ UNCHANGED <<contact, named, invite, runs, edits, back, settled>>
  BY DEF MakePerson, In
<1>2. run.at \in Contacts /\ Mine \in Contact /\ run \in RunDoc /\ person \in [People -> Person]
      /\ RunOK(run, person) /\ MarksKnown(run, person, back)
      /\ named' \subseteq Names /\ runs' \in 0..MaxRuns
  BY <1>1, MineTyped DEF ScriptInv, ScriptTypeOK
<1>3. PICK r \in RunDoc : r = Taken(run) /\ Same(r, run)
  BY <1>2, TakenDoc
<1>4. r.pc = "make" /\ r.at = run.at /\ r.dry = run.dry
  BY <1>1, <1>3 DEF Same
<1>5. CASE run.dry /\ run' = Linked(r, "dry") /\ UNCHANGED person
  <2>1. RunOK(r, person) /\ MarksKnown(r, person, back)
    BY <1>2, <1>3, SameOK DEF Same, MarksKnown
  <2>2. r.at \in Contacts /\ r.dry /\ "dry" \in People \cup {"dry"} /\ "dry" \notin People
    BY <1>2, <1>4, <1>5, ScriptConstants
  <2>3. run' \in RunDoc /\ run'.pc = "people"
    BY <1>5, <2>2, LinkedDoc
  <2>4. RunOK(run', person)
    BY <1>4, <1>5, <2>1, <2>2, LinkedOK
  <2>5. MarksKnown(run', person, back)
    BY <1>2, <1>4, <1>5, <2>1, <2>2, LinkedMarks
  <2> QED
    BY <1>1, <1>2, <1>5, <2>3, <2>4, <2>5, Passing, RunMoves DEF ScriptInv, ScriptTypeOK
<1>6. ASSUME NEW p \in People, person[p].status = "none",
             person' = [person EXCEPT ![p] = PersonOf], run' = Linked(r, p)
      PROVE  ScriptInv'
  <2>1. person' \in [People -> Person] /\ person'[p] = PersonOf
          /\ \A q \in People \ {p} : person'[q] = person[q]
    BY <1>2, <1>6, PersonOfTyped
  <2>2. person'[p].ext = run.at /\ Exists(person', p)
    BY <1>2, <2>1, PersonOfTyped DEF Exists
  <2> QED
    BY <1>1, <1>2, <1>3, <1>6, <2>1, <2>2, MarkKeeps
<1> QED
  BY <1>3, <1>5, <1>6 DEF MakePerson

-----------------------------------------------------------------------------
(* The script: managers and invites                                           *)

\* A pass that has come past a contact has it reported.
LEMMA SeeManagerKeeps ==
    ASSUME ScriptInv, SeeManager
    PROVE  ScriptInv'
<1> DEFINE p == run.link[run.at]
           m == IF Mine.manager = 0 THEN Nothing ELSE run.link[Mine.manager]
<1>1. run.pc = "managers" /\ run.at <= LastContact
      /\ UNCHANGED <<contact, person, named, invite, runs, edits, back, settled>>
      /\ run' = IF p \in {Nothing, m} \/ m = Nothing \/ run.dry THEN NextContact(run)
                 ELSE IF person[p].manager \in {Nothing, m} THEN [run EXCEPT !.pc = "report", !.found = p]
                 ELSE NextContact(run)
  BY DEF SeeManager, In
<1>2. /\ run.at \in Contacts /\ Mine \in Contact /\ run \in RunDoc /\ person \in [People -> Person]
      /\ run.at + 1 \in 1..LastContact + 1 /\ run.at + 1 \in 0..LastContact + 1 /\ Mine = run.view[run.at]
      /\ RunOK(run, person) /\ Reported(run, person)
      /\ named' \subseteq Names /\ runs' \in 0..MaxRuns /\ settled' \in BOOLEAN
  <2>1. run.at \in Contacts /\ Mine \in Contact
    BY <1>1, MineTyped
  <2>2. run.at + 1 \in 1..LastContact + 1 /\ run.at + 1 \in 0..LastContact + 1
    BY <2>1, ScriptConstants DEF Contacts
  <2> QED
    BY <1>1, <2>1, <2>2 DEF ScriptInv, ScriptTypeOK, Mine
<1>3. ASSUME run' = NextContact(run), ~run.dry => Reports(run, person, run.at)
      PROVE  ScriptInv'
  <2>1. run' \in RunDoc /\ run'.pc = "managers" /\ run'.at = run.at + 1 /\ run'.view = run.view
        /\ run'.known = run.known /\ run'.link = run.link /\ run'.dry = run.dry
    BY <1>1, <1>2, <1>3 DEF NextContact, RunDoc
  <2>2. RunOK(run', person)
    BY <1>1, <1>2, <2>1 DEF RunOK
  <2>3. \A c \in Contacts : c < run.at + 1 => c < run.at \/ c = run.at
    BY <1>2 DEF Contacts
  <2>4. \A c \in Contacts : Reports(run', person, c) <=> Reports(run, person, c)
    BY <2>1 DEF Reports
  <2>5. Reported(run', person)
    BY <1>1, <1>2, <1>3, <2>1, <2>3, <2>4 DEF Reported
  <2>6. MarksKnown(run', person, back) /\ Backfilled(run', invite)
    BY <2>1 DEF MarksKnown, Backfilled
  <2> QED
    BY <1>1, <1>2, <2>1, <2>2, <2>5, <2>6, RunMoves
<1>4. CASE p \in {Nothing, m} \/ m = Nothing \/ run.dry
  <2>1. ~run.dry => Reports(run, person, run.at)
    BY <1>2, <1>4 DEF Reports
  <2> QED
    BY <1>1, <1>3, <1>4, <2>1
<1>5. CASE ~(p \in {Nothing, m} \/ m = Nothing \/ run.dry) /\ person[p].manager \notin {Nothing, m}
  <2>1. Reports(run, person, run.at)
    BY <1>2, <1>5 DEF Reports
  <2> QED
    BY <1>1, <1>3, <1>5, <2>1
<1>6. CASE ~(p \in {Nothing, m} \/ m = Nothing \/ run.dry) /\ person[p].manager \in {Nothing, m}
  <2>1. run' = [run EXCEPT !.pc = "report", !.found = p]
    BY <1>1, <1>6
  <2>2. p \in People /\ Mine.manager # 0 /\ run.link[Mine.manager] \in People
    <3>1. Mine.manager \in 0..LastContact /\ Mine.manager # 0
      BY <1>2, <1>6 DEF Contact
    <3>2. Mine.manager \in Contacts
      BY <3>1, ScriptConstants DEF Contacts
    <3> QED
      BY <1>2, <1>6, <3>1, <3>2, Fields DEF RunOK
  <2>3. run' \in RunDoc /\ run'.pc = "report" /\ run'.at = run.at /\ run'.view = run.view
          /\ run'.found = p
        /\ run'.known = run.known /\ run'.link = run.link /\ run'.dry = run.dry
    BY <1>2, <2>1, <2>2 DEF RunDoc, Stages
  <2>4. RunOK(run', person)
    BY <1>1, <1>2, <2>2, <2>3 DEF RunOK
  <2>5. \A c \in Contacts : Reports(run', person, c) <=> Reports(run, person, c)
    BY <2>3 DEF Reports
  <2>6. Reported(run', person)
    BY <1>1, <1>2, <2>3, <2>5 DEF Reported
  <2>7. MarksKnown(run', person, back) /\ Backfilled(run', invite)
    BY <2>3 DEF MarksKnown, Backfilled
  <2> QED
    BY <1>1, <1>2, <2>3, <2>4, <2>6, <2>7, RunMoves
<1> QED
  BY <1>4, <1>5, <1>6

LEMMA ReportToKeeps ==
    ASSUME ScriptInv, ReportTo
    PROVE  ScriptInv'
<1> DEFINE p == run.found
           m == run.link[Mine.manager]
<1>1. /\ run.pc = "report" /\ run.at <= LastContact
      /\ person' = [person EXCEPT ![p].manager = m]
      /\ run' = NextContact([run EXCEPT !.pc = "managers", !.found = Nothing])
      /\ UNCHANGED <<contact, named, invite, runs, edits, back, settled>>
  BY DEF ReportTo, In
<1>2. /\ run.at \in Contacts /\ run \in RunDoc /\ person \in [People -> Person]
      /\ run.at + 1 \in 1..LastContact + 1 /\ run.at + 1 \in 0..LastContact + 1 /\ Mine = run.view[run.at]
      /\ RunOK(run, person) /\ Reported(run, person) /\ OneLivePersonPerContact
  <2>1. run.at \in Contacts
    BY <1>1, MineTyped
  <2>2. run.at + 1 \in 1..LastContact + 1 /\ run.at + 1 \in 0..LastContact + 1
    BY <2>1, ScriptConstants DEF Contacts
  <2> QED
    BY <1>1, <2>1, <2>2 DEF ScriptInv, ScriptTypeOK, Mine
<1>3. p \in People /\ p = run.link[run.at] /\ m \in People /\ m # Nothing
  BY <1>1, <1>2, ScriptConstants DEF RunOK
<1> HIDE DEF p, m
<1>4. person' \in [People -> Person]
  <2>1. [person[p] EXCEPT !.manager = m] \in Person
    BY <1>2, <1>3 DEF Person
  <2>2. person' = [person EXCEPT ![p] = [person[p] EXCEPT !.manager = m]]
    BY <1>1
  <2> QED
    BY <1>2, <1>3, <2>1, <2>2
<1>5. /\ \A q \in People : person'[q].status = person[q].status /\ person'[q].ext = person[q].ext
      /\ \A q \in People : person[q].manager # Nothing => person'[q].manager # Nothing
      /\ person'[p].manager # Nothing
  BY <1>1, <1>2, <1>3, SMTT(30) DEF Person
<1>6. run' \in RunDoc /\ run'.pc = "managers" /\ run'.at = run.at + 1 /\ run'.view = run.view
      /\ run'.known = run.known /\ run'.link = run.link /\ run'.dry = run.dry
  <2>1. [run EXCEPT !.pc = "managers", !.found = Nothing] \in RunDoc
    BY <1>2 DEF RunDoc, Stages
  <2> QED
    BY <1>1, <1>2, <2>1 DEF NextContact, RunDoc
<1>7. ScriptTypeOK'
  BY <1>1, <1>4, <1>6 DEF ScriptInv, ScriptTypeOK, RunDoc
<1>8. RunOK(run', person')
  <2>1. run.link \in [Contacts -> People \cup {Nothing, "dry"}] /\ run.known \subseteq People
    BY <1>2, Fields
  <2> QED
    BY <1>1, <1>2, <1>5, <1>6, <2>1 DEF RunOK, Exists
<1>9. OneLivePersonPerContact'
  BY <1>1, <1>2, <1>5 DEF OneLivePersonPerContact, LivePerson
<1>10. Reported(run', person')
  <2>1. ASSUME ~run.dry, NEW c \in Contacts, c < run.at + 1 PROVE Reports(run', person', c)
    <3>1. c < run.at \/ c = run.at
      BY <1>2, <2>1 DEF Contacts
    <3>2. run.link[c] \in People \cup {Nothing}
      BY <1>2, <2>1, Fields DEF RunOK
    <3>3. CASE c = run.at
      BY <1>3, <1>5, <1>6, <3>3 DEF Reports
    <3>4. CASE c < run.at
      <4>1. Reports(run, person, c)
        BY <1>1, <1>2, <2>1, <3>4 DEF Reported
      <4> QED
        BY <1>5, <1>6, <3>2, <4>1 DEF Reports
    <3> QED
      BY <3>1, <3>3, <3>4
  <2> QED
    BY <1>6, <2>1 DEF Reported
<1>11. MarksKnown(run', person', back') /\ Backfilled(run', invite')
  BY <1>6 DEF MarksKnown, Backfilled
<1> QED
  BY <1>6, <1>7, <1>8, <1>9, <1>10, <1>11 DEF ScriptInv

LEMMA ToInvitesKeeps ==
    ASSUME ScriptInv, ToInvites
    PROVE  ScriptInv'
<1> DEFINE todo == {i \in Invites : invite[i].contact # 0 /\ invite[i].person = Nothing}
<1>1. run.pc = "managers" /\ run.at > LastContact
      /\ UNCHANGED <<contact, person, named, invite, runs, edits, back, settled>>
      /\ run' = [run EXCEPT !.pc = "invites", !.todo = todo]
  BY DEF ToInvites, Through
<1>2. run \in RunDoc /\ RunOK(run, person) /\ Reported(run, person)
  BY DEF ScriptInv
<1>3. todo \subseteq Invites /\ (\A i \in todo : invite[i].contact # 0)
      /\ \A i \in Invites \ todo : invite[i].contact = 0 \/ invite[i].person # Nothing
  OBVIOUS
<1> HIDE DEF todo
<1>4. run' \in RunDoc /\ run'.pc = "invites" /\ run'.at = run.at /\ run'.view = run.view
        /\ run'.todo = todo
      /\ run'.known = run.known /\ run'.link = run.link /\ run'.dry = run.dry
  BY <1>1, <1>2, <1>3 DEF RunDoc, Stages
<1>5. RunOK(run', person)
  BY <1>1, <1>2, <1>4 DEF RunOK
<1>6. Reported(run', person)
  <2>1. \A c \in Contacts : c < run.at
    BY <1>1, <1>2, ScriptConstants DEF Contacts, RunDoc
  <2>2. \A c \in Contacts : Reports(run', person, c) <=> Reports(run, person, c)
    BY <1>4 DEF Reports
  <2> QED
    BY <1>1, <1>2, <1>4, <2>1, <2>2 DEF Reported
<1>7. MarksKnown(run', person, back) /\ Backfilled(run', invite)
  BY <1>3, <1>4 DEF MarksKnown, Backfilled
<1> QED
  BY <1>1, <1>4, <1>5, <1>6, <1>7, RunMoves DEF ScriptInv, ScriptTypeOK

LEMMA BackfillInviteKeeps ==
    ASSUME ScriptInv, NEW i \in Invites, BackfillInvite(i)
    PROVE  ScriptInv'
<1> DEFINE c == invite[i].contact
           p == run.link[c]
<1>1. /\ run.pc = "invites" /\ i \in run.todo
      /\ run' = [run EXCEPT !.todo = @ \ {i}]
      /\ UNCHANGED <<contact, person, named, runs, edits, back, settled>>
      /\ invite' = IF p = Nothing \/ run.dry THEN invite ELSE [invite EXCEPT ![i].person = p]
  BY DEF BackfillInvite
<1>2. run \in RunDoc /\ RunOK(run, person) /\ Reported(run, person) /\ Backfilled(run, invite)
      /\ invite \in [Invites -> Invite] /\ OneLivePersonPerContact
  BY DEF ScriptInv, ScriptTypeOK
<1>3. run' \in RunDoc /\ run'.pc = "invites" /\ run'.at = run.at /\ run'.view = run.view
      /\ run'.todo = run.todo \ {i} /\ run'.known = run.known /\ run'.link = run.link
      /\ run'.dry = run.dry
  BY <1>1, <1>2 DEF RunDoc
<1>4. RunOK(run', person)
  BY <1>1, <1>2, <1>3 DEF RunOK
<1>5. Reported(run', person)
  <2>1. \A d \in Contacts : Reports(run', person, d) <=> Reports(run, person, d)
    BY <1>3 DEF Reports
  <2> QED
    BY <1>1, <1>2, <1>3, <2>1 DEF Reported
<1>6. MarksKnown(run', person, back)
  BY <1>3 DEF MarksKnown
<1>7. CASE p = Nothing \/ run.dry
  <2>1. Backfilled(run', invite)
    BY <1>1, <1>2, <1>3, <1>7 DEF Backfilled
  <2> QED
    BY <1>1, <1>3, <1>4, <1>5, <1>6, <1>7, <2>1, RunMoves DEF ScriptInv, ScriptTypeOK
<1>8. CASE ~(p = Nothing \/ run.dry) /\ c # 0
  <2>1. p \in People
    <3>1. c \in 0..LastContact
      BY <1>2 DEF Invite
    <3>2. c \in Contacts
      BY <1>8, <3>1, ScriptConstants DEF Contacts
    <3> QED
      BY <1>2, <1>8, <3>2, Fields DEF RunOK
  <2>2. invite' \in [Invites -> Invite]
    BY <1>1, <1>2, <1>8, <2>1 DEF Invite
  <2>3. invite'[i].person # Nothing /\ \A j \in Invites \ {i} : invite'[j] = invite[j]
    BY <1>1, <1>2, <1>8, <2>1, ScriptConstants DEF Invite
  <2>4. Backfilled(run', invite')
    <3>1. run.pc = "invites" /\ i \in run.todo
      BY <1>1
    <3>2. \A j \in Invites \ run'.todo : j = i \/ j \in Invites \ run.todo
      BY <1>3
    <3>3. \A j \in run'.todo : invite'[j].contact # 0
      BY <1>2, <1>3, <2>3, <3>1, Fields DEF Backfilled
    <3>4. ASSUME ~run.dry, NEW j \in Invites \ run'.todo, invite'[j].contact # 0,
                 run.link[invite'[j].contact] # Nothing
          PROVE  invite'[j].person # Nothing
      <4>1. CASE j = i
        BY <2>3, <4>1
      <4>2. CASE j # i
        <5>1. j \in Invites \ run.todo /\ invite'[j] = invite[j]
          BY <2>3, <3>2, <4>2
        <5> QED
          BY <1>2, <3>1, <3>4, <5>1 DEF Backfilled
      <4> QED
        BY <4>1, <4>2
    <3> QED
      BY <1>3, <3>3, <3>4 DEF Backfilled
  <2>5. ScriptTypeOK'
    BY <1>1, <1>3, <1>8, <2>2 DEF ScriptInv, ScriptTypeOK, RunDoc
  <2>6. OneLivePersonPerContact'
    BY <1>1, <1>2 DEF OneLivePersonPerContact, LivePerson
  <2> QED
    BY <1>1, <1>3, <1>4, <1>5, <1>6, <2>4, <2>5, <2>6 DEF ScriptInv
<1>9. c # 0
  BY <1>1, <1>2 DEF Backfilled
<1> QED
  BY <1>7, <1>8, <1>9

LEMMA LastStepsKeep ==
    ASSUME ScriptInv, Report \/ End \/ ScriptDies
    PROVE  ScriptInv'
<1>1. UNCHANGED <<contact, person, named, invite, runs, edits, back>>
  BY DEF Report, End, ScriptDies
<1>2. named' \subseteq Names /\ runs' \in 0..MaxRuns /\ settled' \in BOOLEAN /\ run \in RunDoc
      /\ RunOK(run, person) /\ Reported(run, person) /\ Backfilled(run, invite)
  <2>1. settled' \in BOOLEAN
    BY DEF Report, End, ScriptDies, ScriptInv, ScriptTypeOK
  <2> QED
    BY <1>1, <2>1 DEF ScriptInv, ScriptTypeOK
<1>3. CASE run' = NoRun
  BY <1>1, <1>2, <1>3, Idles, RestKeeps, RunMoves
<1>4. CASE Report
  <2>1. run.pc = "invites" /\ run.todo = {} /\ run' = [run EXCEPT !.pc = "done"]
    BY <1>4 DEF Report
  <2>2. run' \in RunDoc /\ run'.pc = "done" /\ run'.at = run.at /\ run'.view = run.view /\ run'.todo = {}
        /\ run'.known = run.known /\ run'.link = run.link /\ run'.dry = run.dry
    BY <1>2, <2>1 DEF RunDoc, Stages
  <2>3. RunOK(run', person)
    BY <1>2, <2>1, <2>2 DEF RunOK
  <2>4. Reported(run', person)
    <3>1. \A c \in Contacts : Reports(run', person, c) <=> Reports(run, person, c)
      BY <2>2 DEF Reports
    <3> QED
      BY <1>2, <2>1, <2>2, <3>1 DEF Reported
  <2>5. MarksKnown(run', person, back) /\ Backfilled(run', invite)
    BY <1>2, <2>1, <2>2 DEF MarksKnown, Backfilled
  <2> QED
    BY <1>1, <1>2, <2>2, <2>3, <2>4, <2>5, RunMoves
<1> QED
  BY <1>3, <1>4 DEF End, ScriptDies

LEMMA NextInv == ScriptInv /\ [ScriptNext]_scriptVars => ScriptInv'
<1> SUFFICES ASSUME ScriptInv, [ScriptNext]_scriptVars PROVE ScriptInv'
  OBVIOUS
<1>1. ASSUME Script PROVE ScriptInv'
  BY <1>1, FindCompanyKeeps, CreateCompanyKeeps, PassKeeps, LookKeeps, MatchContactKeeps,
     ClaimPersonKeeps,
     MakePersonKeeps, SeeManagerKeeps, ReportToKeeps, ToInvitesKeeps, BackfillInviteKeeps, LastStepsKeep
     DEF Script
<1>2. CASE UNCHANGED scriptVars
  <2>1. named' \subseteq Names /\ runs' \in 0..MaxRuns /\ settled' \in BOOLEAN /\ run' \in RunDoc
        /\ RunOK(run', person) /\ MarksKnown(run', person, back)
        /\ Reported(run', person) /\ Backfilled(run', invite)
    BY <1>2 DEF scriptVars, ScriptInv, ScriptTypeOK
  <2> QED
    BY <1>2, <2>1, RunMoves DEF scriptVars
<1> QED
  BY <1>1, <1>2, StartKeeps, LastStepsKeep, PersonEditKeeps, OtherEditKeeps DEF ScriptNext

\* What a run may rely on, and what it has done, at each of its steps.
THEOREM Inductive == ScriptSpec => []ScriptInv
BY InitInv, NextInv, PTL DEF ScriptSpec

\* Contacts, people, invites and the run of the script keep their types.
THEOREM TypeCorrect == ScriptSpec => []ScriptTypeOK
<1>1. ScriptInv => ScriptTypeOK
  BY DEF ScriptInv
<1> QED
  BY <1>1, Inductive, PTL

\* A run that was killed is taken up by the next: what it has marked, the next
\* finds marked before it looks for people or makes one, also when others add,
\* archive and repair people meanwhile.
THEOREM MarksAreOwn == ScriptSpec => []OneLivePersonPerContact
<1>1. ScriptInv => OneLivePersonPerContact
  BY DEF ScriptInv
<1> QED
  BY <1>1, Inductive, PTL

\* A run that comes to its end has linked whoever it could: managers in either
\* order, and every invite of a contact that has become a person.
THEOREM RunsAreComplete == ScriptSpec => []NothingLeftOut
<1>1. ScriptInv => NothingLeftOut
  <2> SUFFICES ASSUME ScriptInv, run.pc = "done", ~run.dry PROVE NothingLeftOut
    BY DEF NothingLeftOut
  <2>1. \A c \in Contacts : Reports(run, person, c)
    BY DEF ScriptInv, Reported
  <2>2. \A i \in Invites : invite[i].contact # 0 /\ run.link[invite[i].contact] # Nothing =>
          invite[i].person # Nothing
    BY DEF ScriptInv, Backfilled
  <2> QED
    BY <2>1, <2>2 DEF NothingLeftOut, Reports
<1> QED
  BY <1>1, Inductive, PTL

-----------------------------------------------------------------------------
(* Keys                                                                       *)

Working == {"people", "claim", "make"}

\* Nobody comes to life, no key changes, and the run's lists do not shrink.
LEMMA KeysStay ==
    ASSUME KeyInv,
           \A p \in People : person'[p].email = person[p].email /\ person'[p].phone = person[p].phone
                               /\ (person'[p].status = "live" => person[p].status = "live"),
           run'.pc \in Working => run.pc \in Working /\ run.emails \subseteq run'.emails
                                    /\ run.phones \subseteq run'.phones
    PROVE  KeyInv'
<1>1. KeysApart'
  BY DEF KeyInv, KeysApart, LivePerson, Someone
<1>2. Listed(run', person')
  BY DEF KeyInv, Listed, Working
<1> QED
  BY <1>1, <1>2 DEF KeyInv

\* While the script rests people come as the services let them.
LEMMA AddingKeepsKeys ==
    ASSUME ScriptInv, KeyInv, Undisturbed, NEW p \in People, PersonCreate(p) \/ PersonUnarchive(p)
    PROVE  KeyInv'
<1>1. run.pc = "idle" /\ run' = run /\ person \in [People -> Person]
  BY Zenon DEF PersonCreate, PersonUnarchive, Alone, Undisturbed, Edited, ScriptInv, ScriptTypeOK
<1>2. KeysFree(p, person'[p].email, person'[p].phone) /\ \A q \in People \ {p} : person'[q] = person[q]
  <2>1. CASE PersonCreate(p)
    <3>1. PICK e \in Emails \cup {Nothing}, f \in Phones \cup {Nothing} :
            /\ KeysFree(p, e, f)
            /\ person' = [person EXCEPT ![p] = [NoPerson EXCEPT !.status = "live", !.email = e,
               !.phone = f]]
      BY <2>1 DEF PersonCreate
    <3> DEFINE d == [NoPerson EXCEPT !.status = "live", !.email = e, !.phone = f]
    <3>2. d.email = e /\ d.phone = f
      BY DEF NoPerson
    <3>3. person' = [person EXCEPT ![p] = d]
      BY <3>1
    <3> HIDE DEF d
    <3> QED
      BY <1>1, <3>1, <3>2, <3>3
  <2>2. CASE PersonUnarchive(p)
    <3>1. KeysFree(p, person[p].email, person[p].phone) /\ person' = [person EXCEPT ![p].status = "live"]
      BY <2>2 DEF PersonUnarchive
    <3>2. person[p].email \in Emails \cup {Nothing} /\ person[p].phone \in Phones \cup {Nothing}
          /\ person'[p].email = person[p].email /\ person'[p].phone = person[p].phone
          /\ \A q \in People \ {p} : person'[q] = person[q]
      BY <1>1, <3>1 DEF Person
    <3> QED
      BY <3>1, <3>2
  <2> QED
    BY <2>1, <2>2
<1>3. KeysApart'
  BY <1>2 DEF KeyInv, KeysApart, KeysFree, LivePerson, Someone
<1>4. Listed(run', person')
  BY <1>1 DEF Listed
<1> QED
  BY <1>3, <1>4 DEF KeyInv

LEMMA LookKeepsKeys ==
    ASSUME ScriptInv, KeyInv, LookAtPeople
    PROVE  KeyInv'
<1> DEFINE live == {p \in People : LivePerson(p)}
           emails == {person[p].email : p \in live} \ {Nothing}
           phones == {person[p].phone : p \in live} \ {Nothing}
<1>1. person' = person /\ run'.emails = emails /\ run'.phones = phones
  BY DEF LookAtPeople, ScriptInv, RunDoc
<1>2. KeysApart'
  BY <1>1 DEF KeyInv, KeysApart, LivePerson
<1>3. Listed(run', person')
  BY <1>1 DEF Listed, LivePerson
<1> QED
  BY <1>2, <1>3 DEF KeyInv

\* A new person has what nobody on the lists has, and is put on them.
LEMMA MakingKeepsKeys ==
    ASSUME ScriptInv, KeyInv, MakePerson
    PROVE  KeyInv'
<1>1. run.pc = "make" /\ run.at <= LastContact
  BY DEF MakePerson, In
<1>2. run.at \in Contacts /\ Mine \in Contact /\ run \in RunDoc /\ person \in [People -> Person]
      /\ Listed(run, person) /\ KeysApart
  BY <1>1, MineTyped DEF ScriptInv, ScriptTypeOK, KeyInv
<1>3. PICK r \in RunDoc : /\ r = Taken(run) /\ r.at \in Contacts
                         /\ run.emails \cup {Mine.email} \subseteq r.emails \cup {Nothing}
                         /\ run.phones \cup {Mine.phone} \subseteq r.phones \cup {Nothing}
  BY <1>2, TakenDoc DEF Same
<1>4. \A p \in People \cup {"dry"} : Linked(r, p).emails = r.emails /\ Linked(r, p).phones = r.phones
  BY <1>3, LinkedDoc
<1>5. \A p \in People : person[p].status = "live" =>
         person[p].email \in r.emails \cup {Nothing} /\ person[p].phone \in r.phones \cup {Nothing}
  BY <1>1, <1>2, <1>3 DEF Listed
<1>6. CASE run' = Linked(r, "dry") /\ UNCHANGED person
  <2>1. Listed(run', person')
    BY <1>4, <1>5, <1>6 DEF Listed
  <2>2. KeysApart'
    BY <1>2, <1>6 DEF KeysApart, LivePerson
  <2> QED
    BY <2>1, <2>2 DEF KeyInv
<1>7. ASSUME NEW p \in People, person' = [person EXCEPT ![p] = PersonOf], run' = Linked(r, p)
      PROVE  KeyInv'
  <2>1. person'[p] = PersonOf /\ \A q \in People \ {p} : person'[q] = person[q]
    BY <1>2, <1>7
  <2>2. PersonOf.status = "live" =>
          /\ PersonOf.email \in (r.emails \cup {Nothing})
          /\ PersonOf.phone \in (r.phones \cup {Nothing})
          /\ PersonOf.email = Nothing \/ PersonOf.email \notin run.emails
          /\ PersonOf.phone = Nothing \/ PersonOf.phone \notin run.phones
    BY <1>2, <1>3, PersonOfTyped DEF KeyFor
  <2>3. Listed(run', person')
    BY <1>4, <1>5, <1>7, <2>1, <2>2 DEF Listed
  <2>4. KeysApart'
    BY <1>1, <1>2, <2>1, <2>2 DEF KeysApart, Listed, LivePerson, Someone
  <2> QED
    BY <2>3, <2>4 DEF KeyInv
<1> QED
  BY <1>3, <1>6, <1>7 DEF MakePerson

LEMMA OthersKeepKeys ==
    ASSUME ScriptInv, KeyInv,
           (\E p \in People : PersonArchive(p)) \/ (\E n \in Names : CompanyEdit(n))
              \/ (\E c \in Contacts : ContactBatch(c)) \/ (\E i \in Invites : Repair(i))
    PROVE  KeyInv'
<1>1. run' = run /\ person \in [People -> Person]
  BY Zenon DEF PersonArchive, CompanyEdit, ContactBatch, Repair, Edited, ScriptInv, ScriptTypeOK
<1>2. CASE person' = person
  BY <1>1, <1>2, KeysStay
<1>3. ASSUME NEW p \in People, PersonArchive(p) PROVE KeyInv'
  <2>1. person' = [person EXCEPT ![p].status = "archived"]
    BY <1>3 DEF PersonArchive
  <2>2. \A q \in People : person'[q].email = person[q].email /\ person'[q].phone = person[q].phone
                            /\ (person'[q].status = "live" => person[q].status = "live")
    BY <1>1, <2>1 DEF Person
  <2> QED
    BY <1>1, <2>2, KeysStay
<1>4. ASSUME NEW i \in Invites, Repair(i) PROVE KeyInv'
  <2>1. PICK p \in PeopleOf(i) : person' = [person EXCEPT ![p].user = invite[i].user]
    BY <1>4 DEF Repair
  <2>2. \A q \in People : person'[q].email = person[q].email /\ person'[q].phone = person[q].phone
                            /\ person'[q].status = person[q].status
    BY <1>1, <2>1 DEF Person
  <2> QED
    BY <1>1, <2>2, KeysStay
<1> QED
  BY <1>2, <1>3, <1>4 DEF CompanyEdit, ContactBatch

\* The rest of the script writes no key.
LEMMA RunningKeepsKeys ==
    ASSUME ScriptInv, KeyInv, Script, ~LookAtPeople, ~MakePerson
    PROVE  KeyInv'
<1>1. run \in RunDoc /\ person \in [People -> Person] /\ RunOK(run, person)
  BY DEF ScriptInv, ScriptTypeOK
<1>2. CASE FindCompany \/ CreateCompany \/ ToPeople \/ ToManagers \/ SeeManager \/ ToInvites
             \/ (\E i \in Invites : BackfillInvite(i)) \/ Report \/ End
  <2>1. person' = person
    BY <1>2 DEF FindCompany, CreateCompany, ToPeople, ToManagers, Through, SeeManager, ToInvites,
                BackfillInvite, Report, End
  <2>2. run'.pc \notin Working
    <3>1. ASSUME FindCompany PROVE run'.pc \notin Working
      <4>1. run.pc = "companies"
        BY <3>1 DEF FindCompany, In
      <4>2. NextContact(run).pc = "companies" /\ [run EXCEPT !.pc = "name"].pc = "name"
            /\ NextContact([run EXCEPT !.cache = @ \cup {Mine.company}]).pc = "companies"
        BY <1>1, <4>1 DEF NextContact, RunDoc
      <4> QED
        BY <3>1, <4>2 DEF FindCompany, Working
    <3>2. ASSUME CreateCompany PROVE run'.pc \notin Working
      <4>1. NextContact([run EXCEPT !.pc = "companies", !.cache = @ \cup {Mine.company}]).pc = "companies"
        BY <1>1 DEF NextContact, RunDoc
      <4> QED
        BY <3>2, <4>1, Idles DEF CreateCompany, Working
    <3>3. ASSUME End PROVE run'.pc \notin Working
      BY <3>3, Idles DEF End, Working
    <3>4. CASE ToPeople \/ ToManagers \/ ToInvites \/ Report
      BY <1>1, <3>4 DEF ToPeople, ToManagers, Through, ToInvites, Report, RunDoc, Working
    <3>5. CASE SeeManager \/ \E i \in Invites : BackfillInvite(i)
      BY <1>1, <3>5 DEF SeeManager, BackfillInvite, RunDoc, In, NextContact, Working
    <3> QED
      BY <1>2, <3>1, <3>2, <3>3, <3>4, <3>5
  <2> QED
    BY <2>1, <2>2, KeysStay
<1>3. CASE MatchContact
  <2>1. person' = person /\ run.pc \in Working /\ run.at \in Contacts
    BY <1>3, MineTyped DEF MatchContact, In, Working
  <2>2. \A p \in Marked \cup Matches(Mine) : p \in People
    BY <1>1, Fields DEF Marked, Matches
  <2>3. run'.emails = run.emails /\ run'.phones = run.phones
    <3>1. CASE \E p \in Marked \cup Matches(Mine) : run' = Linked(run, p)
      <4>1. PICK p \in People : run' = Linked(run, p)
        BY <2>2, <3>1
      <4> QED
        BY <1>1, <2>1, <4>1, LinkedDoc
    <3>2. CASE run' = NextContact(run) \/ run' = [run EXCEPT !.pc = "make"]
                 \/ \E p \in People : run' = [run EXCEPT !.pc = "claim", !.found = p]
      BY <1>1, <3>2 DEF NextContact, RunDoc
    <3> QED
      BY <1>3, <2>2, <3>1, <3>2 DEF MatchContact
  <2> QED
    BY <2>1, <2>3, KeysStay
<1>4. CASE ClaimPerson
  <2>1. /\ run.pc = "claim" /\ run.at <= LastContact /\ run' = Linked(run, run.found)
        /\ person' = [person EXCEPT ![run.found].ext = run.at]
    BY <1>4 DEF ClaimPerson, In
  <2>2. run.at \in Contacts /\ run.found \in People
    BY <1>1, <2>1, MineTyped DEF RunOK
  <2>3. run'.emails = run.emails /\ run'.phones = run.phones
    BY <1>1, <2>1, <2>2, LinkedDoc
  <2>4. \A q \in People : person'[q].email = person[q].email /\ person'[q].phone = person[q].phone
                            /\ person'[q].status = person[q].status
    BY <1>1, <2>1, <2>2 DEF Person
  <2> QED
    BY <2>1, <2>3, <2>4, KeysStay DEF Working
<1>5. CASE ReportTo
  <2>1. run.pc = "report" /\ \E m \in {run.link[Mine.manager]} : person' = [person EXCEPT ![run.found].manager = m]
    BY <1>5 DEF ReportTo, In
  <2>2. run'.pc = "managers"
    BY <1>1, <1>5 DEF ReportTo, NextContact, RunDoc
  <2>3. \A q \in People : person'[q].email = person[q].email /\ person'[q].phone = person[q].phone
                            /\ person'[q].status = person[q].status
    BY <1>1, <2>1 DEF Person
  <2> QED
    BY <2>2, <2>3, KeysStay DEF Working
<1> QED
  BY <1>2, <1>3, <1>4, <1>5 DEF Script

\* As long as nobody adds people during a run, no two live people share an
\* e-mail address or a phone number, although the script asks its own lists and
\* no index: the lists have all there were when it looked, and all it has added.
THEOREM KeysStayApart ==
    ASSUME Undisturbed
    PROVE  ScriptSpec => []KeysApart
<1>1. ScriptInit => KeyInv
  <2> SUFFICES ASSUME ScriptInit PROVE KeyInv
    OBVIOUS
  <2>1. (\A p \in People : person[p].status = "none") /\ run.pc = "idle"
    BY Idles DEF ScriptInit, NoPerson
  <2> QED
    BY <2>1 DEF KeyInv, KeysApart, Listed, LivePerson
<1>2. ScriptInv /\ KeyInv /\ [ScriptNext]_scriptVars => KeyInv'
  <2> SUFFICES ASSUME ScriptInv, KeyInv, [ScriptNext]_scriptVars PROVE KeyInv'
    OBVIOUS
  <2>1. CASE UNCHANGED scriptVars \/ ScriptDies \/ \E dry \in BOOLEAN : Start(dry)
    <3>1. person' = person
      BY <2>1 DEF scriptVars, ScriptDies, Start
    <3>2. run' = run \/ run'.pc \notin Working
      BY <2>1, Idles DEF scriptVars, ScriptDies, Start, NoRun, Working
    <3> QED
      BY <3>1, <3>2, KeysStay
  <2> QED
    BY <2>1, AddingKeepsKeys, OthersKeepKeys, LookKeepsKeys, MakingKeepsKeys, RunningKeepsKeys
       DEF ScriptNext
<1>3. KeyInv => KeysApart
  BY DEF KeyInv
<1> QED
  BY <1>1, <1>2, <1>3, Inductive, PTL DEF ScriptSpec

-----------------------------------------------------------------------------
(* A second run                                                               *)

\* Whichever way the script looks for someone, it finds one person at most: no
\* two are of one user, no two live ones share an address or a mark; and no two
\* contacts are of one user.
Unambiguous ==
    /\ \A p, q \in People : p # q /\ Exists(person, p) /\ Exists(person, q) =>
         /\ Someone(person[p].user) => person[p].user # person[q].user
         /\ LivePerson(p) /\ LivePerson(q) =>
              /\ Someone(person[p].email) => person[p].email # person[q].email
              /\ person[p].ext # 0 => person[p].ext # person[q].ext
    /\ \A c, d \in Contacts : c # d /\ Someone(contact[c].user) => contact[c].user # contact[d].user

Single(c) == contact[c].kind = "individual"

\* Those a run would find for a contact: by its mark, else as it matches people.
Bearers(c) == {p \in People : LivePerson(p) /\ person[p].ext = c}
Homes(c) == IF Bearers(c) # {} THEN Bearers(c) ELSE Matches(contact[c])

NobodyLive(c) ==
    /\ \A p \in Homes(c) : ~LivePerson(p)
    /\ contact[c].live => Homes(c) # {}

\* A run would find someone live who is marked, or has no reason to make anyone
\* live.
Housed(c) ==
    \/ \E p \in People : LivePerson(p) /\ Homes(c) = {p} /\ person[p].ext # 0
    \/ NobodyLive(c)

\* A run would have nothing to do among the living.
Quiet ==
    /\ \A c \in Contacts : contact[c].company \in named \cup {Nothing}
    /\ \A c \in Contacts : Single(c) => Housed(c)
    /\ \A c, d \in Contacts : Single(c) /\ Single(d) /\ contact[c].manager = d =>
         \A p \in Homes(c) : LivePerson(p) => person[p].manager # Nothing \/ Homes(d) = {p}
    /\ \A i \in Invites, c \in Contacts :
         invite[i].contact = c /\ Single(c) => invite[i].person # Nothing

\* A run with no edits since it began
Fresh == run.pc # "idle" /\ run.began = edits

\* has everyone on its lists,
Lists ==
    run.pc \in Working =>
      /\ \A p \in People : LivePerson(p) /\ person[p].ext >= run.at => p \in run.known
      /\ \A p \in run.known : LivePerson(p)
      /\ \A p \in People : LivePerson(p) => person[p].email \in run.emails \cup {Nothing}

\* decides on people as they are,
Decided ==
    /\ run.pc = "look" => run.at = 1
    /\ run.pc \in {"claim", "make"} => Single(run.at) /\ Bearers(run.at) = {}
    /\ run.pc = "claim" => run.found \in Matches(Mine) /\ person[run.found].ext = 0
    /\ run.pc = "make" => Matches(Mine) = {}
    /\ run.pc = "report" => /\ person[run.found].manager \in {Nothing, run.link[Mine.manager]}
                            /\ run.found # run.link[Mine.manager]
    /\ run.pc = "invites" => \A i \in run.todo : invite[i].person = Nothing

\* has the companies of the contacts it has seen,
Resolved ==
    /\ run.cache \subseteq named
    /\ \A c \in Contacts : run.pc \notin {"companies", "name"} \/ c < run.at =>
         contact[c].company \in run.cache \cup {Nothing}

\* and has linked contacts to whom another run would find.
LinkOK(c) ==
    /\ run.link[c] \in People
    /\ \/ /\ LivePerson(run.link[c]) /\ person[run.link[c]].ext # 0
          /\ Homes(c) = {run.link[c]}
       \/ /\ ~LivePerson(run.link[c]) /\ NobodyLive(c)
          /\ run.pc \in Working /\ Homes(c) = {} => contact[c].email \in run.emails \cup {Nothing}

Passed(c) == run.pc \in Working => c < run.at

Placed ==
    run.pc \in Working \cup {"managers", "report", "invites", "done"} =>
      \A c \in Contacts : Passed(c) /\ Single(c) => LinkOK(c)

Current ==
    /\ run.view = contact
    /\ run.pc \in {"name", "claim", "report"} => ~run.dry
    /\ \A c \in Contacts : run.link[c] # Nothing => Single(c)
    /\ Lists /\ Decided
    /\ ~run.dry => Resolved /\ Placed

QuietInv ==
    /\ run.pc # "idle" => run.began <= edits
    /\ Fresh => Current
    /\ settled => Quiet /\ run.pc # "name" /\ (run.pc = "idle" \/ Fresh)

\* What a step may do to the living once a run was completed.
Still ==
    settled /\ edits' = edits =>
      /\ UNCHANGED <<named, invite>>
      /\ \A p \in People : person'[p] # person[p] => person'[p].status = "archived"

-----------------------------------------------------------------------------
(* Looking people up                                                          *)

\* A contact's own user
ByUser(x) == {p \in People : person[p].status # "none" /\ person[p].user = x.user}
ByEmail(x) == {p \in People : LivePerson(p) /\ person[p].email = x.email}

LEMMA MatchesAre ==
    ASSUME NEW x
    PROVE  Matches(x) = IF x.user # Nothing /\ ByUser(x) # {} THEN ByUser(x)
                        ELSE IF x.email # Nothing THEN ByEmail(x) ELSE {}
BY DEF Matches, ByUser, ByEmail

LEMMA MatchesOne ==
    ASSUME Unambiguous, NEW x, NEW p \in Matches(x), NEW q \in Matches(x)
    PROVE  p = q /\ p \in People /\ Exists(person, p)
<1>1. CASE x.user # Nothing /\ ByUser(x) # {}
  BY <1>1, MatchesAre DEF ByUser, Unambiguous, Exists, Someone
<1>2. CASE ~(x.user # Nothing /\ ByUser(x) # {}) /\ x.email # Nothing
  BY <1>2, MatchesAre DEF ByEmail, Unambiguous, Exists, Someone, LivePerson
<1>3. CASE ~(x.user # Nothing /\ ByUser(x) # {}) /\ x.email = Nothing
  BY <1>3, MatchesAre
<1> QED
  BY <1>1, <1>2, <1>3

LEMMA BearersOne ==
    ASSUME Unambiguous, NEW c \in Contacts, NEW p \in Bearers(c)
    PROVE  Bearers(c) = {p} /\ Homes(c) = {p} /\ p \in People /\ LivePerson(p) /\ person[p].ext # 0
<1>1. c # 0
  BY DEF Contacts
<1>2. \A q \in Bearers(c) : q = p
  BY <1>1 DEF Bearers, Unambiguous, Exists, LivePerson
<1> QED
  BY <1>1, <1>2 DEF Bearers, Homes

\* Steps that leave everyone's status, mark, address and user alone.
LEMMA LookupsStay ==
    ASSUME UNCHANGED contact,
           \A p \in People : /\ person'[p].status = person[p].status /\ person'[p].ext = person[p].ext
                             /\ person'[p].email = person[p].email /\ person'[p].user = person[p].user
    PROVE  /\ \A p \in People : LivePerson(p)' <=> LivePerson(p)
           /\ \A x : Matches(x)' = Matches(x)
           /\ \A c : Bearers(c)' = Bearers(c) /\ Homes(c)' = Homes(c)
           /\ \A c : (NobodyLive(c)' <=> NobodyLive(c)) /\ (Single(c)' <=> Single(c))
<1>1. \A p \in People : LivePerson(p)' <=> LivePerson(p)
  BY DEF LivePerson
<1>2. \A x : ByUser(x)' = ByUser(x) /\ ByEmail(x)' = ByEmail(x)
  BY <1>1 DEF ByUser, ByEmail
<1>3. \A x : Matches(x)' = IF x.user # Nothing /\ ByUser(x)' # {} THEN ByUser(x)'
                        ELSE IF x.email # Nothing THEN ByEmail(x)' ELSE {}
  BY DEF Matches, ByUser, ByEmail
<1>4. \A x : Matches(x)' = Matches(x)
  BY <1>2, <1>3, MatchesAre
<1>5. \A c : Bearers(c)' = Bearers(c)
  BY <1>1 DEF Bearers
<1>6. \A c : Homes(c)' = Homes(c)
  BY <1>4, <1>5 DEF Homes
<1>7. \A c : Homes(c) \subseteq People
  BY MatchesAre DEF Homes, Bearers, ByUser, ByEmail
<1> QED
  BY <1>1, <1>4, <1>5, <1>6, <1>7 DEF NobodyLive, Single

LEMMA QuietStays ==
    ASSUME Quiet, UNCHANGED <<contact, person, named, invite>>
    PROVE  Quiet'
<1>1. /\ \A p \in People : LivePerson(p)' <=> LivePerson(p)
      /\ \A c : Homes(c)' = Homes(c)
      /\ \A c : (NobodyLive(c)' <=> NobodyLive(c)) /\ (Single(c)' <=> Single(c))
  BY LookupsStay
<1>2. \A c \in Contacts : Housed(c) => Housed(c)'
  BY <1>1 DEF Housed
<1>3. \A c \in Contacts : \A p \in Homes(c) : p \in People
  BY MatchesAre DEF Homes, Bearers, ByUser, ByEmail
<1> QED
  BY <1>1, <1>2, <1>3 DEF Quiet

LEMMA LinkStays ==
    ASSUME UNCHANGED contact,
           \A p \in People : /\ person'[p].status = person[p].status /\ person'[p].ext = person[p].ext
                             /\ person'[p].email = person[p].email /\ person'[p].user = person[p].user,
           NEW c \in Contacts, LinkOK(c), run'.link[c] = run.link[c],
           run'.pc \in Working => run.pc \in Working /\ run.emails \subseteq run'.emails
    PROVE  LinkOK(c)'
<1>1. /\ \A p \in People : LivePerson(p)' <=> LivePerson(p)
      /\ Homes(c)' = Homes(c) /\ (NobodyLive(c)' <=> NobodyLive(c))
  BY LookupsStay
<1> QED
  BY <1>1 DEF LinkOK

\* Edits end what a run knows, and what a completed run has promised.
LEMMA EditsQuietly ==
    ASSUME ScriptInv, QuietInv, Edited
    PROVE  QuietInv' /\ Still
<1>1. run' = run /\ edits' = edits + 1 /\ settled' = FALSE /\ edits \in Nat /\ run.began \in Nat
  BY ScriptConstants DEF Edited, ScriptInv, ScriptTypeOK
<1>2. (run'.pc # "idle" => run'.began <= edits') /\ ~Fresh'
  BY <1>1 DEF QuietInv, Fresh
<1> QED
  BY <1>1, <1>2 DEF QuietInv, Still

LEMMA RestQuietly ==
    ASSUME UNCHANGED <<contact, person, named, invite>>, run' = NoRun, settled' => Quiet
    PROVE  QuietInv' /\ Still
<1>1. run'.pc = "idle" /\ ~Fresh'
  BY Idles DEF Fresh
<1>2. settled' => Quiet'
  BY QuietStays
<1> QED
  BY <1>1, <1>2 DEF QuietInv, Still

\* A step of a run that writes nothing
LEMMA RunsQuietly ==
    ASSUME QuietInv, UNCHANGED <<contact, person, named, invite, edits, settled>>,
           run.pc # "idle", run'.began = run.began,
           settled => run'.pc # "name", Fresh => Current'
    PROVE  QuietInv' /\ Still
<1>1. Fresh' => Fresh
  BY DEF Fresh
<1>2. settled' => Quiet' /\ run'.pc # "name" /\ (run'.pc = "idle" \/ Fresh')
  BY QuietStays DEF QuietInv, Fresh
<1> QED
  BY <1>1, <1>2 DEF QuietInv, Still

LEMMA StartQuietly ==
    ASSUME ScriptInv, QuietInv, NEW dry \in BOOLEAN, Start(dry)
    PROVE  QuietInv' /\ Still
<1>1. /\ run' = [NoRun EXCEPT !.pc = "companies", !.dry = dry, !.began = edits, !.view = contact,
         !.at = 1]
      /\ UNCHANGED <<contact, person, named, invite, edits, back, settled>>
  BY DEF Start
<1>2. /\ run'.pc = "companies" /\ run'.began = edits /\ run'.view = contact /\ run'.at = 1
      /\ run'.cache = {} /\ run'.link = [c \in Contacts |-> Nothing]
  BY <1>1 DEF NoRun
<1>3. Current'
  <2>1. Lists' /\ Decided' /\ Placed'
    BY <1>2 DEF Lists, Decided, Placed, Working
  <2>2. \A c \in Contacts : ~(c < 1)
    BY DEF Contacts
  <2>3. Resolved'
    BY <1>2, <2>2 DEF Resolved
  <2> QED
    BY <1>1, <1>2, <2>1, <2>3 DEF Current
<1>4. edits \in Nat
  BY ScriptConstants DEF ScriptInv, ScriptTypeOK
<1>5. settled' => Quiet'
  BY <1>1, QuietStays DEF QuietInv
<1> QED
  BY <1>1, <1>2, <1>3, <1>4, <1>5 DEF QuietInv, Fresh, Still

-----------------------------------------------------------------------------
(* Companies                                                                  *)

\* A run over companies has its lists, decisions and links ahead of it.
LEMMA EarlyCurrent ==
    ASSUME Current, UNCHANGED <<contact, person, invite>>,
           run'.pc \in {"companies", "name", "look"}, run'.view = run.view, run'.dry = run.dry,
           run'.link = run.link, run'.pc = "name" => ~run.dry, run'.pc = "look" => run'.at = 1, ~run.dry => Resolved'
    PROVE  Current'
<1>1. Lists' /\ Decided' /\ Placed'
  BY DEF Lists, Decided, Placed, Working
<1> QED
  BY <1>1 DEF Current, Single

LEMMA FindCompanyQuietly ==
    ASSUME ScriptInv, QuietInv, FindCompany
    PROVE  QuietInv' /\ Still
<1> DEFINE n == Mine.company
<1>1. /\ run.pc = "companies" /\ run.at <= LastContact
      /\ UNCHANGED <<contact, person, named, invite, runs, edits, back, settled>>
      /\ run' = IF n \in {Nothing} \cup run.cache THEN NextContact(run)
                ELSE IF n \in named \/ run.dry
                  THEN NextContact([run EXCEPT !.cache = @ \cup {n}])
                ELSE [run EXCEPT !.pc = "name"]
  BY DEF FindCompany, In
<1>2. run.at \in Contacts /\ run \in RunDoc /\ Mine = run.view[run.at]
  BY <1>1, MineTyped DEF ScriptInv, Mine
<1> HIDE DEF n
<1>3. /\ run.cache \subseteq run'.cache /\ run'.dry = run.dry /\ run'.began = run.began
      /\ run'.view = run.view /\ run'.link = run.link
      /\ \/ /\ run'.pc = "companies" /\ run'.at = run.at + 1 /\ n \in run'.cache \cup {Nothing}
            /\ run.dry \/ run'.cache \subseteq run.cache \cup named
         \/ /\ run'.pc = "name" /\ run'.at = run.at /\ run'.cache = run.cache
            /\ ~run.dry /\ n \notin named \cup {Nothing}
  <2>1. CASE n \in {Nothing} \cup run.cache
    <3>1. run' = NextContact(run)
      BY <1>1, <2>1
    <3>2. run'.cache = run.cache
      BY <1>2, <3>1 DEF NextContact, RunDoc
    <3> QED
      BY <1>1, <1>2, <2>1, <3>1, <3>2 DEF NextContact, RunDoc
  <2>2. CASE n \notin {Nothing} \cup run.cache /\ (n \in named \/ run.dry)
    <3>1. run' = NextContact([run EXCEPT !.cache = run.cache \cup {n}])
      BY <1>1, <2>2
    <3>2. run'.cache = run.cache \cup {n}
      BY <1>2, <3>1 DEF NextContact, RunDoc
    <3> QED
      BY <1>1, <1>2, <2>2, <3>1, <3>2 DEF NextContact, RunDoc
  <2>3. CASE n \notin {Nothing} \cup run.cache /\ ~(n \in named \/ run.dry)
    BY <1>1, <1>2, <2>3 DEF RunDoc
  <2> QED
    BY <2>1, <2>2, <2>3
<1>4. Fresh => Current'
  <2> SUFFICES ASSUME Fresh PROVE Current'
    OBVIOUS
  <2>1. Current /\ n = contact[run.at].company
    BY <1>2 DEF QuietInv, Current, n
  <2>2. ASSUME ~run.dry PROVE Resolved'
    <3>1. run'.cache \subseteq named
      BY <1>3, <2>1, <2>2 DEF Current, Resolved
    <3>2. \A c \in Contacts : c < run.at + 1 => c < run.at \/ c = run.at
      BY <1>2 DEF Contacts
    <3>3. \A c \in Contacts : c < run.at => contact[c].company \in run.cache \cup {Nothing}
      BY <1>1, <2>1, <2>2 DEF Current, Resolved
    <3>4. \A c \in Contacts : c < run'.at => contact[c].company \in run'.cache \cup {Nothing}
      BY <1>3, <2>1, <3>2, <3>3
    <3> QED
      BY <1>1, <1>3, <3>1, <3>4 DEF Resolved
  <2> QED
    BY <1>1, <1>3, <2>1, <2>2, EarlyCurrent
<1>5. settled => run'.pc # "name"
  <2> SUFFICES ASSUME settled PROVE run'.pc # "name"
    OBVIOUS
  <2>1. Quiet /\ run.view = contact
    BY <1>1 DEF QuietInv, Current
  <2>2. n \in named \cup {Nothing}
    BY <1>2, <2>1 DEF Quiet, n
  <2> QED
    BY <1>3, <2>2
<1> QED
  BY <1>1, <1>3, <1>4, <1>5, RunsQuietly

LEMMA CreateCompanyQuietly ==
    ASSUME ScriptInv, QuietInv, CreateCompany
    PROVE  QuietInv' /\ Still
<1> DEFINE n == Mine.company
<1>1. /\ run.pc = "name" /\ run.at <= LastContact /\ named' = named \cup {n}
      /\ run' = IF n \in named THEN NoRun
                ELSE NextContact([run EXCEPT !.pc = "companies", !.cache = run.cache \cup {n}])
      /\ UNCHANGED <<contact, person, invite, runs, edits, back, settled>>
  BY DEF CreateCompany, In
<1>2. run.at \in Contacts /\ run \in RunDoc /\ Mine = run.view[run.at]
  BY <1>1, MineTyped DEF ScriptInv, Mine
<1>3. ~settled
  BY <1>1 DEF QuietInv
<1> HIDE DEF n
<1>4. CASE n \in named
  BY <1>1, <1>3, <1>4, RestQuietly
<1>5. CASE n \notin named
  <2>1. /\ run'.pc = "companies" /\ run'.at = run.at + 1 /\ run'.cache = run.cache \cup {n}
        /\ run'.dry = run.dry /\ run'.began = run.began /\ run'.view = run.view /\ run'.link = run.link
    BY <1>1, <1>2, <1>5 DEF NextContact, RunDoc
  <2>2. Fresh => Current'
    <3> SUFFICES ASSUME Fresh PROVE Current'
      OBVIOUS
    <3>1. Current /\ n = contact[run.at].company /\ ~run.dry /\ Resolved
      BY <1>1, <1>2 DEF QuietInv, Current, n
    <3>2. \A c \in Contacts : c < run.at + 1 => c < run.at \/ c = run.at
      BY <1>2 DEF Contacts
    <3>3. Resolved'
      BY <1>1, <2>1, <3>1, <3>2 DEF Resolved
    <3> QED
      BY <1>1, <2>1, <3>1, <3>3, EarlyCurrent
  <2> QED
    BY <1>1, <1>3, <2>1, <2>2 DEF QuietInv, Still, Fresh
<1> QED
  BY <1>4, <1>5

LEMMA ToPeopleQuietly ==
    ASSUME ScriptInv, QuietInv, ToPeople
    PROVE  QuietInv' /\ Still
<1>1. /\ run.pc = "companies" /\ run.at > LastContact /\ run' = [run EXCEPT !.pc = "look", !.at = 1]
      /\ UNCHANGED <<contact, person, named, invite, runs, edits, back, settled>>
  BY DEF ToPeople, Through
<1>2. run \in RunDoc /\ run.at \in Nat
  BY Fields DEF ScriptInv
<1>3. /\ run'.pc = "look" /\ run'.cache = run.cache /\ run'.at = 1
      /\ run'.dry = run.dry /\ run'.began = run.began /\ run'.view = run.view /\ run'.link = run.link
  BY <1>1, <1>2 DEF RunDoc
<1>4. Fresh => Current'
  <2> SUFFICES ASSUME Fresh PROVE Current'
    OBVIOUS
  <2>1. \A c \in Contacts : c < run.at
    BY <1>1, <1>2, ScriptConstants DEF Contacts
  <2>2. Current /\ (~run.dry => Resolved')
    BY <1>1, <1>3, <2>1 DEF QuietInv, Current, Resolved
  <2> QED
    BY <1>1, <1>3, <2>2, EarlyCurrent
<1> QED
  BY <1>1, <1>3, <1>4, RunsQuietly

-----------------------------------------------------------------------------
(* People                                                                     *)

LEMMA LookQuietly ==
    ASSUME ScriptInv, QuietInv, LookAtPeople
    PROVE  QuietInv' /\ Still
<1> DEFINE live == {p \in People : LivePerson(p)}
           known == {p \in live : person[p].ext # 0}
           emails == {person[p].email : p \in live} \ {Nothing}
<1>1. /\ run.pc = "look"
      /\ UNCHANGED <<contact, person, named, invite, runs, edits, back, settled>>
  BY DEF LookAtPeople
<1>2. /\ run'.pc = "people" /\ run'.known = known /\ run'.emails = emails /\ run'.cache = run.cache
      /\ run'.dry = run.dry /\ run'.began = run.began /\ run'.view = run.view /\ run'.link = run.link
      /\ run'.at = run.at
  BY DEF LookAtPeople, ScriptInv, RunDoc
<1>3. Fresh => Current'
  <2> SUFFICES ASSUME Fresh PROVE Current'
    OBVIOUS
  <2>1. Current /\ run'.at = 1
    BY <1>1, <1>2 DEF QuietInv, Current, Decided
  <2>2. Lists'
    <3>1. \A p \in People : LivePerson(p) => person[p].email \in emails \cup {Nothing}
      OBVIOUS
    <3>2. \A p \in People : LivePerson(p) /\ person[p].ext >= 1 => p \in known
      OBVIOUS
    <3> QED
      BY <1>1, <1>2, <2>1, <3>1, <3>2 DEF Lists, LivePerson
  <2>3. Decided'
    BY <1>2 DEF Decided
  <2>4. ~run.dry => Resolved'
    BY <1>1, <1>2, <2>1 DEF Current, Resolved
  <2>5. \A c \in Contacts : ~(c < 1)
    BY DEF Contacts
  <2>6. Placed'
    BY <1>2, <2>1, <2>5 DEF Placed, Passed, Working
  <2> QED
    BY <1>1, <1>2, <2>1, <2>2, <2>3, <2>4, <2>6 DEF Current, Single
<1> QED
  BY <1>1, <1>2, <1>3, RunsQuietly

LEMMA LinkedRest ==
    ASSUME NEW r \in RunDoc, r.at \in Contacts, NEW p \in People \cup {"dry"}
    PROVE  Linked(r, p).cache = r.cache /\ Linked(r, p).began = r.began
<1> DEFINE t == [r EXCEPT !.link[r.at] = p, !.pc = "people", !.found = Nothing]
<1>1. t.cache = r.cache /\ t.began = r.began /\ Linked(r, p) = [t EXCEPT !.at = @ + 1]
  BY DEF Linked, NextContact, RunDoc
<1>2. "cache" \in DOMAIN t /\ "began" \in DOMAIN t
  BY DEF RunDoc
<1> QED
  BY <1>1, <1>2

\* The contact in hand is linked, and the next one taken.
LEMMA LinkedCurrent ==
    ASSUME ScriptInv, Current, run.pc \in Working, NEW k \in Contacts, run.at = k, Single(k),
           UNCHANGED <<contact, named, invite>>,
           NEW r \in RunDoc, Same(r, run), r.cache = run.cache, NEW p \in People \cup {"dry"},
           run' = Linked(r, p),
           \A q \in People : LivePerson(q)' /\ person'[q].ext >= run.at + 1 => q \in run.known,
           \A q \in run.known : LivePerson(q)',
           \A q \in People : LivePerson(q)' => person'[q].email \in r.emails \cup {Nothing},
           ~run.dry => LinkOK(k)',
           ~run.dry => \A c \in Contacts : c < run.at /\ Single(c) /\ LinkOK(c) => LinkOK(c)'
    PROVE  Current'
<1>1. /\ r.at = run.at /\ r.pc = run.pc /\ r.known = run.known /\ r.view = run.view
      /\ r.link = run.link /\ r.dry = run.dry /\ run.at \in Nat
      /\ run.link \in [Contacts -> People \cup {Nothing, "dry"}]
  BY Fields DEF Same, ScriptInv
<1>2. /\ run'.pc = "people" /\ run'.at = run.at + 1 /\ run'.known = run.known /\ run'.emails = r.emails
      /\ run'.view = run.view /\ run'.dry = run.dry /\ run'.link = [run.link EXCEPT ![run.at] = p]
      /\ run'.cache = run.cache
  BY <1>1, LinkedDoc, LinkedRest
<1>3. Lists'
  BY <1>2 DEF Lists
<1>4. Decided'
  BY <1>2 DEF Decided
<1>5. ~run.dry => Resolved'
  BY <1>2 DEF Current, Resolved, Working
<1>6. ~run.dry => Placed'
  <2> SUFFICES ASSUME ~run.dry, NEW c \in Contacts, c < run.at + 1, Single(c) PROVE LinkOK(c)'
    BY <1>2 DEF Placed, Passed, Working, Single
  <2>1. c < run.at \/ c = run.at
    BY <1>1 DEF Contacts
  <2>2. c < run.at => LinkOK(c)
    BY DEF Current, Placed, Passed, Working
  <2> QED
    BY <2>1, <2>2
<1>7. \A c \in Contacts : run'.link[c] # Nothing => Single(c)
  BY <1>1, <1>2 DEF Current
<1> QED
  BY <1>2, <1>3, <1>4, <1>5, <1>6, <1>7 DEF Current, Single

\* A real run has linked the contact in hand as another would.
LEMMA LinkIs ==
    ASSUME NEW r \in RunDoc, NEW k \in Contacts, r.at = k, NEW p \in People, run' = Linked(r, p),
           \/ LivePerson(p)' /\ person'[p].ext # 0 /\ Homes(k)' = {p}
           \/ /\ ~LivePerson(p)' /\ NobodyLive(k)'
              /\ Homes(k)' = {} => contact'[k].email \in r.emails \cup {Nothing}
    PROVE  LinkOK(k)'
<1>1. run'.link = [r.link EXCEPT ![k] = p] /\ run'.emails = r.emails
      /\ r.link \in [Contacts -> People \cup {Nothing, "dry"}]
  BY LinkedDoc, Fields
<1>2. run'.link[k] = p
  BY <1>1
<1> QED
  BY <1>1, <1>2 DEF LinkOK

LEMMA LinkRemains ==
    ASSUME NEW r \in RunDoc, r.at = run.at, r.link = run.link, run.at \in Contacts, run.pc \in Working,
           NEW p \in People \cup {"dry"}, run' = Linked(r, p), run.emails \subseteq r.emails,
           NEW c \in Contacts, c # run.at
    PROVE  run'.link[c] = run.link[c] /\ run.emails \subseteq run'.emails
<1>1. run'.link = [r.link EXCEPT ![run.at] = p] /\ run'.emails = r.emails
      /\ r.link \in [Contacts -> People \cup {Nothing, "dry"}]
  BY LinkedDoc, Fields
<1> QED
  BY <1>1

LEMMA MatchContactQuietly ==
    ASSUME ScriptInv, QuietInv, Unambiguous, MatchContact
    PROVE  QuietInv' /\ Still
<1>1. /\ run.pc = "people" /\ run.at <= LastContact
      /\ UNCHANGED <<contact, person, named, invite, runs, edits, back, settled>>
  BY DEF MatchContact, In
<1>2. /\ run.at \in Contacts /\ run \in RunDoc /\ Mine = run.view[run.at] /\ run.at \in Nat
      /\ run.known \subseteq People /\ person \in [People -> Person]
  BY <1>1, MineTyped, Fields DEF ScriptInv, ScriptTypeOK, Mine
<1>3. \A p \in Matches(Mine) : p \in People
  BY MatchesOne
<1>4. /\ \A q \in People : (LivePerson(q)' <=> LivePerson(q))
      /\ \A x : Matches(x)' = Matches(x)
      /\ \A c : Homes(c)' = Homes(c) /\ Bearers(c)' = Bearers(c) /\ (NobodyLive(c)' <=> NobodyLive(c))
  BY <1>1, LookupsStay
<1>5. Same(run, run)
  BY DEF Same
\* Linking without a write: what another run would find has been found.
<1>6. ASSUME NEW p \in People, run' = Linked(run, p), Mine.kind = "individual",
             Fresh /\ ~run.dry => \/ LivePerson(p) /\ person[p].ext # 0 /\ Homes(run.at) = {p}
                                  \/ ~LivePerson(p) /\ NobodyLive(run.at) /\ Homes(run.at) # {}
      PROVE  QuietInv' /\ Still
  <2>1. Fresh => Current'
    <3> SUFFICES ASSUME Fresh PROVE Current'
      OBVIOUS
    <3>1. Current /\ Single(run.at) /\ Lists
      BY <1>2, <1>6 DEF QuietInv, Current, Single
    <3>0. PICK k \in Contacts : k = run.at
      BY <1>2
    <3>2. ~run.dry => LinkOK(k)'
      <4>1. ~run.dry => \/ LivePerson(p)' /\ person'[p].ext # 0 /\ Homes(k)' = {p}
                        \/ ~LivePerson(p)' /\ NobodyLive(k)' /\ Homes(k)' # {}
        BY <1>1, <1>4, <1>6, <3>0
      <4> QED
        BY <1>2, <1>6, <3>0, <4>1, LinkIs
    <3>3. ASSUME NEW c \in Contacts, c < run.at, LinkOK(c) PROVE LinkOK(c)'
      <4>1. run'.link[c] = run.link[c] /\ run.emails \subseteq run'.emails
        BY <1>1, <1>2, <1>6, <3>3, LinkRemains DEF Working
      <4> QED
        BY <1>1, <3>3, <4>1, LinkStays DEF Working
    <3>4. \A q \in People : person[q].ext \in Nat
      BY <1>2, ScriptConstants DEF Person
    <3>5. /\ \A q \in People : LivePerson(q)' /\ person'[q].ext >= run.at + 1 => q \in run.known
          /\ \A q \in run.known : LivePerson(q)'
          /\ \A q \in People : LivePerson(q)' => person'[q].email \in run.emails \cup {Nothing}
      BY <1>1, <1>2, <1>4, <3>1, <3>4 DEF Lists, Working
    <3> QED
      BY <1>1, <1>2, <1>5, <1>6, <3>0, <3>1, <3>2, <3>3, <3>5, LinkedCurrent DEF Working
  <2>2. run'.pc = "people" /\ run'.began = run.began
    BY <1>2, <1>6, LinkedDoc, LinkedRest
  <2> QED
    BY <1>1, <2>1, <2>2, RunsQuietly
\* Going to claim or to make someone.
<1>7. ASSUME run'.pc \in {"claim", "make"}, run'.at = run.at, run'.view = run.view, run'.dry = run.dry,
             run'.link = run.link, run'.cache = run.cache, run'.emails = run.emails,
             run'.known = run.known, run'.began = run.began, Mine.kind = "individual", Marked = {},
             run'.pc = "claim" => ~run.dry /\ run'.found \in Matches(Mine) /\ person[run'.found].ext = 0,
             run'.pc = "make" => Matches(Mine) = {}
      PROVE  QuietInv' /\ Still
  <2>1. Fresh => Current'
    <3> SUFFICES ASSUME Fresh PROVE Current'
      OBVIOUS
    <3>1. Current /\ Single(run.at) /\ Lists /\ Mine = contact[run.at]
      BY <1>2, <1>7 DEF QuietInv, Current, Single
    <3>2. Bearers(run.at) = {}
      <4>1. \A q \in People : LivePerson(q) /\ person[q].ext = run.at => q \in Marked
        BY <1>1, <1>2, <3>1 DEF Lists, Marked, Working
      <4> QED
        BY <1>7, <4>1 DEF Bearers
    <3>3. Mine' = Mine
      BY <1>7 DEF Mine
    <3>4. Matches(Mine)' = Matches(Mine)
      BY <1>1, <1>4, <1>7, <3>1, <3>3
    <3>5. Decided'
      BY <1>1, <1>4, <1>7, <3>1, <3>2, <3>4 DEF Decided, Single
    <3>6. Lists'
      BY <1>1, <1>2, <1>4, <1>7, <3>1 DEF Lists, Working
    <3>7. ~run.dry => Resolved' /\ Placed'
      <4> SUFFICES ASSUME ~run.dry PROVE Resolved' /\ Placed'
        OBVIOUS
      <4>1. Resolved'
        BY <1>1, <1>7, <3>1 DEF Current, Resolved
      <4>2. ASSUME NEW c \in Contacts, LinkOK(c) PROVE LinkOK(c)'
        BY <1>1, <1>7, <4>2, LinkStays DEF Working
      <4>3. Placed'
        BY <1>1, <1>7, <3>1, <4>2 DEF Current, Placed, Passed, Working, Single
      <4> QED
        BY <4>1, <4>3
    <3> QED
      BY <1>1, <1>7, <3>1, <3>5, <3>6, <3>7 DEF Current, Single
  <2> QED
    BY <1>1, <1>7, <2>1, RunsQuietly
<1>8. CASE Mine.kind = "business" /\ run' = NextContact(run)
  <2>1. /\ run'.pc = "people" /\ run'.at = run.at + 1 /\ run'.view = run.view /\ run'.dry = run.dry
        /\ run'.link = run.link /\ run'.cache = run.cache /\ run'.emails = run.emails
        /\ run'.known = run.known /\ run'.began = run.began
    BY <1>1, <1>2, <1>8 DEF NextContact, RunDoc
  <2>2. Fresh => Current'
    <3> SUFFICES ASSUME Fresh PROVE Current'
      OBVIOUS
    <3>1. Current /\ ~Single(run.at) /\ Lists
      BY <1>2, <1>8 DEF QuietInv, Current, Single
    <3>2. \A q \in People : person[q].ext \in Nat
      BY <1>2, ScriptConstants DEF Person
    <3>3. Lists'
      BY <1>1, <1>2, <1>4, <2>1, <3>1, <3>2 DEF Lists, Working
    <3>4. Decided'
      BY <2>1 DEF Decided
    <3>5. ~run.dry => Resolved' /\ Placed'
      <4> SUFFICES ASSUME ~run.dry PROVE Resolved' /\ Placed'
        OBVIOUS
      <4>1. Resolved'
        BY <1>1, <2>1, <3>1 DEF Current, Resolved
      <4>2. ASSUME NEW c \in Contacts, LinkOK(c) PROVE LinkOK(c)'
        BY <1>1, <2>1, <4>2, LinkStays DEF Working
      <4>3. \A c \in Contacts : c < run.at + 1 /\ Single(c) => c < run.at
        BY <1>2, <3>1 DEF Contacts
      <4>4. Placed'
        BY <1>1, <2>1, <3>1, <4>2, <4>3 DEF Current, Placed, Passed, Working, Single
      <4> QED
        BY <4>1, <4>4
    <3> QED
      BY <1>1, <2>1, <3>1, <3>3, <3>4, <3>5 DEF Current, Single
  <2> QED
    BY <1>1, <2>1, <2>2, RunsQuietly
<1>9. ASSUME NEW p \in Marked, Mine.kind = "individual", run' = Linked(run, p)
      PROVE  QuietInv' /\ Still
  <2>1. p \in People /\ person[p].ext = run.at
    BY <1>2, <1>9 DEF Marked
  <2>2. Fresh => LivePerson(p)
    BY <1>1, <1>9 DEF QuietInv, Current, Lists, Marked, Working
  <2>3. Fresh => LivePerson(p) /\ person[p].ext # 0 /\ Homes(run.at) = {p}
    BY <1>2, <2>1, <2>2, BearersOne DEF Bearers
  <2> QED
    BY <1>6, <1>9, <2>1, <2>3
<1>10. ASSUME NEW p \in Matches(Mine), Mine.kind = "individual", Marked = {},
              run' = IF person[p].ext = 0 /\ ~run.dry THEN [run EXCEPT !.pc = "claim", !.found = p]
                      ELSE Linked(run, p)
       PROVE  QuietInv' /\ Still
  <2>1. p \in People
    BY <1>3, <1>10
  <2>2. CASE person[p].ext = 0 /\ ~run.dry
    <3>1. /\ run'.pc = "claim" /\ run'.at = run.at /\ run'.view = run.view /\ run'.dry = run.dry
          /\ run'.link = run.link /\ run'.cache = run.cache /\ run'.emails = run.emails
          /\ run'.known = run.known /\ run'.began = run.began /\ run'.found = p
      BY <1>2, <1>10, <2>2 DEF RunDoc
    <3> QED
      BY <1>7, <1>10, <2>2, <3>1
  <2>3. CASE ~(person[p].ext = 0 /\ ~run.dry)
    <3>1. ASSUME Fresh, ~run.dry
          PROVE  \/ LivePerson(p) /\ person[p].ext # 0 /\ Homes(run.at) = {p}
                 \/ ~LivePerson(p) /\ NobodyLive(run.at) /\ Homes(run.at) # {}
      <4>1. Mine = contact[run.at] /\ Lists
        BY <1>2, <3>1 DEF QuietInv, Current
      <4>2. Bearers(run.at) = {}
        BY <1>1, <1>2, <1>10, <4>1 DEF Lists, Marked, Working, Bearers
      <4>3. Homes(run.at) = {p}
        BY <1>10, <4>1, <4>2, MatchesOne DEF Homes
      <4> QED
        BY <2>3, <3>1, <4>3 DEF NobodyLive
    <3> QED
      BY <1>6, <1>10, <2>1, <2>3, <3>1
  <2> QED
    BY <2>2, <2>3
<1>11. ASSUME Mine.kind = "individual", Marked = {}, Matches(Mine) = {}, run' = [run EXCEPT !.pc = "make"]
       PROVE  QuietInv' /\ Still
  <2>1. /\ run'.pc = "make" /\ run'.at = run.at /\ run'.view = run.view /\ run'.dry = run.dry
        /\ run'.link = run.link /\ run'.cache = run.cache /\ run'.emails = run.emails
        /\ run'.known = run.known /\ run'.began = run.began
    BY <1>2, <1>11 DEF RunDoc
  <2> QED
    BY <1>7, <1>11, <2>1
<1> QED
  BY <1>8, <1>9, <1>10, <1>11 DEF MatchContact

\* The person found gets its mark, and is found by it from now on.
LEMMA ClaimPersonQuietly ==
    ASSUME ScriptInv, QuietInv, Unambiguous, ClaimPerson
    PROVE  QuietInv' /\ Still
<1>1. /\ run.pc = "claim" /\ run.at <= LastContact
      /\ person' = [person EXCEPT ![run.found].ext = run.at]
      /\ run' = Linked(run, run.found)
      /\ UNCHANGED <<contact, named, invite, runs, edits, back, settled>>
  BY DEF ClaimPerson, In
<1>2. /\ run.at \in Contacts /\ run \in RunDoc /\ Mine = run.view[run.at] /\ run.at \in Nat
      /\ run.found \in People /\ Exists(person, run.found) /\ person \in [People -> Person]
      /\ run.known \subseteq People
  BY <1>1, MineTyped, Fields DEF ScriptInv, RunOK, ScriptTypeOK, Mine
<1>3. PICK k \in Contacts, f \in People : k = run.at /\ f = run.found
  BY <1>2
<1>4. run'.pc = "people" /\ run'.began = run.began
  BY <1>1, <1>2, LinkedDoc, LinkedRest
<1>5. /\ person'[f].ext = k /\ \A q \in People \ {f} : person'[q] = person[q]
      /\ \A q \in People : /\ person'[q].status = person[q].status /\ person'[q].email = person[q].email
                           /\ person'[q].user = person[q].user /\ person'[q].manager = person[q].manager
  BY <1>1, <1>2, <1>3 DEF Person
<1>6. \A q \in People : LivePerson(q)' <=> LivePerson(q)
  BY <1>5 DEF LivePerson
<1>7. \A x : Matches(x)' = Matches(x)
  <2>1. \A x : ByUser(x)' = ByUser(x) /\ ByEmail(x)' = ByEmail(x)
    BY <1>5, <1>6 DEF ByUser, ByEmail
  <2>2. \A x : Matches(x)' = IF x.user # Nothing /\ ByUser(x)' # {} THEN ByUser(x)'
                        ELSE IF x.email # Nothing THEN ByEmail(x)' ELSE {}
    BY DEF Matches, ByUser, ByEmail
  <2> QED
    BY <2>1, <2>2, MatchesAre
<1>8. CASE ~Fresh
  BY <1>1, <1>4, <1>8 DEF QuietInv, Fresh, Still
<1>9. CASE Fresh
  <2>1. /\ Current /\ Lists /\ Single(k) /\ Bearers(k) = {} /\ f \in Matches(contact[k])
        /\ person[f].ext = 0 /\ ~run.dry
    BY <1>1, <1>2, <1>3, <1>9 DEF QuietInv, Current, Decided
  <2>2. Matches(contact[k]) = {f} /\ Homes(k) = {f}
    BY <2>1, MatchesOne DEF Homes
  <2>3. Homes(k)' = {f}
    <3>1. Bearers(k)' = IF LivePerson(f) THEN {f} ELSE {}
      BY <1>5, <1>6, <2>1 DEF Bearers
    <3>2. Matches(contact[k])' = {f}
      BY <1>1, <1>7, <2>2
    <3>3. LivePerson(f) \/ Homes(k)' = Matches(contact[k])'
      BY <3>1 DEF Homes
    <3> QED
      BY <3>1, <3>2, <3>3 DEF Homes
  <2>4. \A c \in Contacts : Homes(c)' = Homes(c)
    <3> SUFFICES ASSUME NEW c \in Contacts, c # k PROVE Homes(c)' = Homes(c)
      BY <2>2, <2>3
    <3>1. c # 0
      BY DEF Contacts
    <3>2. Bearers(c)' = Bearers(c)
      BY <1>5, <1>6, <2>1, <3>1 DEF Bearers
    <3> QED
      BY <1>1, <1>7, <3>2 DEF Homes
  <2>5. \A c \in Contacts : NobodyLive(c)' <=> NobodyLive(c)
    <3>1. \A c : Homes(c) \subseteq People
      BY MatchesAre DEF Homes, Bearers, ByUser, ByEmail
    <3> QED
      BY <1>1, <1>6, <2>4, <3>1 DEF NobodyLive
  <2>6. \A q \in People : person[q].ext # 0 => person'[q].ext # 0
    BY <1>5 DEF Contacts
  <2>7. LinkOK(k)'
    <3>1. \/ LivePerson(f)' /\ person'[f].ext # 0 /\ Homes(k)' = {f}
          \/ ~LivePerson(f)' /\ NobodyLive(k)' /\ Homes(k)' # {}
      BY <1>5, <1>6, <2>2, <2>3, <2>5 DEF NobodyLive, Contacts
    <3> QED
      BY <1>1, <1>2, <1>3, <3>1, LinkIs
  <2>8. ASSUME NEW c \in Contacts, c < k, LinkOK(c) PROVE LinkOK(c)'
    <3>1. run'.link[c] = run.link[c] /\ run.emails \subseteq run'.emails
      <4>1. c # run.at
        BY <1>2, <1>3, <2>8
      <4> QED
        BY <1>1, <1>2, <4>1, LinkRemains DEF Working
    <3> QED
      BY <1>1, <1>4, <1>6, <2>4, <2>5, <2>6, <2>8, <3>1 DEF LinkOK, Working
  <2>9. Current'
    <3>1. \A q \in People : person[q].ext \in Nat
      BY <1>2, ScriptConstants DEF Person
    <3>2. /\ \A q \in People : LivePerson(q)' /\ person'[q].ext >= run.at + 1 => q \in run.known
          /\ \A q \in run.known : LivePerson(q)'
          /\ \A q \in People : LivePerson(q)' => person'[q].email \in run.emails \cup {Nothing}
      <4>1. ASSUME NEW q \in People, LivePerson(q)', person'[q].ext >= run.at + 1 PROVE q \in run.known
        <5>1. q # f /\ person[q].ext >= run.at
          BY <1>2, <1>3, <1>5, <3>1, <4>1
        <5> QED
          BY <1>1, <1>6, <2>1, <4>1, <5>1 DEF Lists, Working
      <4> QED
        BY <1>1, <1>2, <1>5, <1>6, <2>1, <4>1 DEF Lists, Working
    <3>3. Same(run, run)
      BY DEF Same
    <3> QED
      BY <1>1, <1>2, <1>3, <2>1, <2>7, <2>8, <3>2, <3>3, LinkedCurrent DEF Working
  <2>10. ASSUME settled PROVE Quiet' /\ person'[f].status = "archived"
    <3>1. Quiet /\ Housed(k)
      BY <2>1, <2>10 DEF QuietInv, Quiet
    <3>2. ~LivePerson(f)
      BY <2>1, <2>2, <3>1 DEF Housed, NobodyLive
    <3>3. person'[f].status = "archived"
      BY <1>2, <1>3, <1>5, <3>2 DEF Person, Exists, LivePerson
    <3>4. \A c \in Contacts : Housed(c) => Housed(c)'
      BY <1>6, <2>4, <2>5, <2>6 DEF Housed
    <3>5. \A c \in Contacts : Homes(c) \subseteq People
      BY MatchesAre DEF Homes, Bearers, ByUser, ByEmail
    <3>6. \A c, d \in Contacts : Single(c)' /\ Single(d)' /\ contact'[c].manager = d =>
            \A q \in Homes(c)' : LivePerson(q)' => person'[q].manager # Nothing \/ Homes(d)' = {q}
      BY <1>1, <1>5, <1>6, <2>4, <3>1, <3>5 DEF Quiet, Single
    <3>7. Quiet'
      BY <1>1, <3>1, <3>4, <3>6 DEF Quiet, Single
    <3> QED
      BY <3>3, <3>7
  <2>11. Fresh' /\ run'.pc # "name" /\ (settled' <=> settled)
    BY <1>1, <1>4, <1>9 DEF Fresh
  <2>12. QuietInv'
    BY <1>1, <1>4, <2>9, <2>10, <2>11 DEF QuietInv
  <2>13. Still
    BY <1>1, <1>5, <2>10 DEF Still
  <2> QED
    BY <2>12, <2>13
<1> QED
  BY <1>8, <1>9

\* Someone made is found for the contact in hand, and for no other.
LEMMA MadeForOne ==
    ASSUME Unambiguous, UNCHANGED contact, person \in [People -> Person],
           NEW k \in Contacts, NEW p \in People, person[p].status = "none",
           person'[p].status # "none", person'[p].ext = k, person'[p].user = contact[k].user,
           \A q \in People \ {p} : person'[q] = person[q],
           NEW E, \A q \in People : LivePerson(q) => person[q].email \in E \cup {Nothing},
           person'[p].status = "live" => person'[p].email \notin E,
           NEW c \in Contacts, c # k,
           person'[p].status = "live" /\ Homes(c) = {} => contact[c].email \in E \cup {Nothing}
    PROVE  Homes(c)' = Homes(c)
<1> DEFINE x == contact[c]
<1>1. Bearers(c)' = Bearers(c)
  BY DEF Bearers, LivePerson
<1>2. x.user # Nothing => x.user # contact[k].user
  BY DEF Unambiguous, Someone
<1>3. x.user # Nothing => ByUser(x)' = ByUser(x)
  <2>1. x' = x
    OBVIOUS
  <2> HIDE DEF x
  <2> QED
    BY <1>2, <2>1 DEF ByUser
<1>4. ASSUME person'[p].status # "live" \/ person'[p].email # x.email
      PROVE  ByEmail(x)' = ByEmail(x)
  <2>1. x' = x
    OBVIOUS
  <2> HIDE DEF x
  <2> QED
    BY <1>4, <2>1 DEF ByEmail, LivePerson
<1>5. x' = x /\ Matches(x) = IF x.user # Nothing /\ ByUser(x) # {} THEN ByUser(x)
                        ELSE IF x.email # Nothing THEN ByEmail(x) ELSE {}
  BY MatchesAre
<1>6. Matches(x)' = IF x'.user # Nothing /\ ByUser(x)' # {} THEN ByUser(x)'
                        ELSE IF x'.email # Nothing THEN ByEmail(x)' ELSE {}
  BY DEF Matches, ByUser, ByEmail
<1>7. Homes(c) = (IF Bearers(c) # {} THEN Bearers(c) ELSE Matches(x))
      /\ Homes(c)' = (IF Bearers(c)' # {} THEN Bearers(c)' ELSE Matches(x)')
  BY DEF Homes
<1>8. \A q \in ByEmail(x) : x.email \in E \cup {Nothing}
  BY DEF ByEmail
<1> HIDE DEF x
<1>9. CASE Bearers(c) # {}
  BY <1>1, <1>7, <1>9
<1>10. CASE x.user # Nothing /\ ByUser(x) # {}
  BY <1>1, <1>3, <1>5, <1>6, <1>7, <1>10
<1>11. CASE x.email = Nothing
  BY <1>1, <1>3, <1>5, <1>6, <1>7, <1>11
<1>12. CASE Bearers(c) = {} /\ ~(x.user # Nothing /\ ByUser(x) # {}) /\ x.email # Nothing
  <2>1. Homes(c) = ByEmail(x)
    BY <1>5, <1>7, <1>12
  <2>2. person'[p].status = "live" => x.email \in E
    <3>1. person'[p].status = "live" /\ Homes(c) = {} => x.email \in E \cup {Nothing}
      BY DEF x
    <3> QED
      BY <1>8, <1>12, <2>1, <3>1
  <2>3. ByEmail(x)' = ByEmail(x)
    BY <1>4, <2>2
  <2> QED
    BY <1>1, <1>3, <1>5, <1>6, <1>7, <2>3
<1> QED
  BY <1>9, <1>10, <1>11, <1>12

\* Once a run was completed nobody live is missing.
LEMMA MakePersonQuietly ==
    ASSUME ScriptInv, QuietInv, Unambiguous, MakePerson
    PROVE  QuietInv' /\ Still
<1>1. /\ run.pc = "make" /\ run.at <= LastContact
      /\ UNCHANGED <<contact, named, invite, runs, edits, back, settled>>
  BY DEF MakePerson, In
<1>2. /\ run.at \in Contacts /\ run \in RunDoc /\ Mine = run.view[run.at] /\ run.at \in Nat
      /\ person \in [People -> Person] /\ run.known \subseteq People
      /\ Mine \in Contact /\ run.emails \subseteq Emails /\ Nothing \notin Emails
  BY <1>1, MineTyped, Fields, MigrationAssumption DEF ScriptInv, ScriptTypeOK, Mine
<1>3. PICK k \in Contacts : k = run.at
  BY <1>2
<1>4. PICK r \in RunDoc : /\ r = Taken(run) /\ Same(r, run)
                         /\ run.emails \cup {Mine.email} \subseteq r.emails \cup {Nothing}
  BY <1>2, TakenDoc
<1>5. /\ r.at = k /\ r.link = run.link /\ r.dry = run.dry /\ run.emails \subseteq r.emails
      /\ r.cache = run.cache /\ r.began = run.began
  <2>1. r.cache = run.cache /\ r.began = run.began
    BY <1>2, <1>4 DEF Taken, RunDoc
  <2> QED
    BY <1>2, <1>3, <1>4, <2>1 DEF Same
<1>6. \A p \in People \cup {"dry"} : Linked(r, p).pc = "people" /\ Linked(r, p).began = run.began
  BY <1>5, LinkedDoc, LinkedRest
<1>7. \A q \in People : person[q].ext \in Nat
  BY <1>2, ScriptConstants DEF Person
<1>8. Fresh => /\ Current /\ Lists /\ Single(k) /\ Bearers(k) = {} /\ Matches(contact[k]) = {}
               /\ Homes(k) = {} /\ Mine = contact[k]
  BY <1>1, <1>2, <1>3 DEF QuietInv, Current, Decided, Homes
<1>9. CASE run.dry /\ run' = Linked(r, "dry") /\ UNCHANGED person
  <2>1. Fresh => Current'
    <3> SUFFICES ASSUME Fresh PROVE Current'
      OBVIOUS
    <3>1. \A q \in People : LivePerson(q)' <=> LivePerson(q)
      BY <1>9 DEF LivePerson
    <3>2. /\ \A q \in People : LivePerson(q)' /\ person'[q].ext >= run.at + 1 => q \in run.known
          /\ \A q \in run.known : LivePerson(q)'
          /\ \A q \in People : LivePerson(q)' => person'[q].email \in r.emails \cup {Nothing}
      BY <1>1, <1>2, <1>5, <1>7, <1>8, <1>9, <3>1 DEF Lists, Working
    <3> QED
      BY <1>1, <1>3, <1>4, <1>5, <1>8, <1>9, <3>2, LinkedCurrent DEF Working
  <2> QED
    BY <1>1, <1>6, <1>9, <2>1, RunsQuietly
<1>10. ASSUME NEW p \in People, ~run.dry, person[p].status = "none",
              person' = [person EXCEPT ![p] = PersonOf], run' = Linked(r, p)
       PROVE  QuietInv' /\ Still
  <2>1. /\ person'[p] = PersonOf /\ \A q \in People \ {p} : person'[q] = person[q]
        /\ PersonOf.ext = k /\ PersonOf.status = IF Mine.live THEN "live" ELSE "archived"
        /\ PersonOf.email = KeyFor(Mine.email, run.emails) /\ PersonOf.user = Mine.user
    <3>1. PersonOf.user = Mine.user
      BY DEF PersonOf
    <3> QED
      BY <1>2, <1>3, <1>10, <3>1, PersonOfTyped
  <2>2. CASE ~Fresh
    BY <1>1, <1>6, <1>10, <2>2 DEF QuietInv, Fresh, Still
  <2>3. CASE Fresh
    <3>1. /\ person'[p].status # "none" /\ person'[p].ext = k /\ person'[p].user = contact[k].user
          /\ person'[p].status = "live" => contact[k].live /\ person'[p].email \notin run.emails
      BY <1>2, <1>8, <2>1, <2>3 DEF KeyFor
    <3>2. \A q \in People : (LivePerson(q)' <=> LivePerson(q) \/ (q = p /\ person'[p].status = "live"))
      BY <1>10, <2>1 DEF LivePerson
    <3>3. \A q \in People : LivePerson(q) => person[q].email \in run.emails \cup {Nothing} /\ q # p
      BY <1>1, <1>8, <1>10, <2>3 DEF Lists, Working, LivePerson
    <3>4. ASSUME NEW c \in Contacts, c # k,
                 person'[p].status = "live" /\ Homes(c) = {} => contact[c].email \in run.emails \cup {Nothing}
          PROVE  Homes(c)' = Homes(c) /\ (NobodyLive(c)' <=> NobodyLive(c)) /\ p \notin Homes(c)
      <4>1. Homes(c)' = Homes(c)
        <5>1. \A q \in People : LivePerson(q) => person[q].email \in run.emails \cup {Nothing}
          BY <3>3
        <5>2. person'[p].status = "live" => person'[p].email \notin run.emails
          BY <3>1
        <5>3. \A q \in People \ {p} : person'[q] = person[q]
          BY <2>1
        <5>4. contact' = contact /\ person \in [People -> Person] /\ person[p].status = "none"
          BY <1>1, <1>2, <1>10
        <5> QED
          BY <3>1, <3>4, <5>1, <5>2, <5>3, <5>4, MadeForOne
      <4>2. p \notin Homes(c) /\ Homes(c) \subseteq People
        BY <1>10, MatchesAre DEF Homes, Bearers, LivePerson, ByUser, ByEmail
      <4> QED
        BY <1>1, <3>2, <4>1, <4>2 DEF NobodyLive
    <3>5. /\ \A q \in Homes(k)' : q = p
          /\ person'[p].status = "live" => Homes(k)' = {p}
      <4>1. Bearers(k)' = IF person'[p].status = "live" THEN {p} ELSE {}
        <5>1. \A q \in People : LivePerson(q) => person[q].ext # k
          BY <1>8, <2>3 DEF Bearers
        <5>2. ASSUME NEW q \in People
              PROVE  (LivePerson(q)' /\ person'[q].ext = k) <=> (q = p /\ person'[p].status = "live")
          <6>1. CASE q = p
            BY <3>1, <6>1 DEF LivePerson
          <6>2. CASE q # p
            <7>1. person'[q] = person[q] /\ (LivePerson(q)' <=> LivePerson(q))
              BY <2>1, <6>2 DEF LivePerson
            <7> QED
              BY <5>1, <6>2, <7>1
          <6> QED
            BY <6>1, <6>2
        <5> QED
          BY <5>2 DEF Bearers
      <4>2. ASSUME NEW q \in People, q # p, NEW x, x = contact[k] PROVE q \notin Matches(x)'
        <5>1. x.user # Nothing => ByUser(x) = {}
          BY <1>8, <2>3, <4>2, MatchesAre
        <5>2. ~(x.user # Nothing /\ ByUser(x) # {}) /\ x.email # Nothing => ByEmail(x) = {}
          BY <1>8, <2>3, <4>2, MatchesAre
        <5>3. x.user # Nothing => q \notin ByUser(x)'
          BY <2>1, <4>2, <5>1 DEF ByUser
        <5>4. x.email # Nothing => q \notin ByEmail(x)'
          BY <2>1, <3>2, <4>2, <5>1, <5>2 DEF ByEmail
        <5>5. Matches(x)' = IF x.user # Nothing /\ ByUser(x)' # {} THEN ByUser(x)'
                        ELSE IF x.email # Nothing THEN ByEmail(x)' ELSE {}
          BY DEF Matches, ByUser, ByEmail
        <5> QED
          BY <5>3, <5>4, <5>5
      <4>3. \A x : Matches(x)' \subseteq People
        BY DEF Matches
      <4>4. Matches(contact[k])' \subseteq {p}
        BY <1>1, <4>2, <4>3
      <4> QED
        BY <4>1, <4>4 DEF Homes
    <3>6. Current'
      <4>1. /\ \A q \in People : LivePerson(q)' /\ person'[q].ext >= run.at + 1 => q \in run.known
            /\ \A q \in run.known : LivePerson(q)'
            /\ \A q \in People : LivePerson(q)' => person'[q].email \in r.emails \cup {Nothing}
        <5>1. ASSUME NEW q \in People, LivePerson(q)', person'[q].ext >= run.at + 1 PROVE q \in run.known
          <6>1. q # p
            BY <1>2, <1>3, <3>1, <5>1
          <6>2. LivePerson(q) /\ person[q].ext >= run.at
            BY <1>2, <1>7, <2>1, <3>2, <5>1, <6>1
          <6> QED
            BY <1>1, <1>8, <2>3, <6>2 DEF Lists, Working
        <5>2. person'[p].email \in r.emails \cup {Nothing}
          BY <1>4, <2>1 DEF KeyFor
        <5> QED
          BY <1>1, <1>2, <1>5, <1>8, <2>1, <2>3, <3>2, <5>1, <5>2 DEF Lists, Working
      <4>2. LinkOK(k)'
        <5>1. contact'[k].email \in r.emails \cup {Nothing}
          BY <1>1, <1>4, <1>8, <2>3
        <5>2. LivePerson(p)' => person'[p].ext # 0 /\ Homes(k)' = {p}
          BY <3>1, <3>5 DEF LivePerson, Contacts
        <5>3. ~LivePerson(p)' => NobodyLive(k)'
          <6>1. ~LivePerson(p)' => ~contact'[k].live
            BY <1>1, <1>8, <2>1, <2>3 DEF LivePerson
          <6> QED
            BY <3>5, <6>1 DEF NobodyLive
        <5> QED
          BY <1>5, <1>10, <5>1, <5>2, <5>3, LinkIs
      <4>3. ASSUME NEW c \in Contacts, c < run.at, LinkOK(c) PROVE LinkOK(c)'
        <5>1. c # run.at /\ c # k
          BY <1>2, <1>3, <4>3
        <5>2. run'.link[c] = run.link[c] /\ run.emails \subseteq run'.emails
          BY <1>1, <1>3, <1>5, <1>10, <5>1, LinkRemains DEF Working
        <5>3. Homes(c) = {} => contact[c].email \in run.emails \cup {Nothing}
          BY <1>1, <4>3 DEF LinkOK, Working
        <5>4. Homes(c)' = Homes(c) /\ (NobodyLive(c)' <=> NobodyLive(c))
          BY <3>4, <5>1, <5>3
        <5>5. run.link[c] \in People /\ run.link[c] # p
          BY <1>10, <4>3 DEF LinkOK, ScriptInv, RunOK, Exists
        <5> QED
          BY <1>1, <2>1, <3>2, <4>3, <5>2, <5>3, <5>4, <5>5 DEF LinkOK
      <4> QED
        BY <1>1, <1>3, <1>4, <1>5, <1>8, <1>10, <2>3, <4>1, <4>2, <4>3, LinkedCurrent DEF Working
    <3>7. ASSUME settled PROVE Quiet' /\ person'[p].status = "archived"
      <4>1. Quiet /\ Housed(k)
        BY <1>8, <2>3, <3>7 DEF QuietInv, Quiet
      <4>2. ~contact[k].live /\ person'[p].status = "archived" /\ ~LivePerson(p)'
        BY <1>8, <2>1, <2>3, <4>1 DEF Housed, NobodyLive, LivePerson
      <4>3. \A q \in People : LivePerson(q)' <=> LivePerson(q)
        BY <3>2, <4>2
      <4>4. \A c \in Contacts : c # k => /\ Homes(c)' = Homes(c) /\ p \notin Homes(c)
                                         /\ (NobodyLive(c)' <=> NobodyLive(c))
        BY <3>4, <4>2
      <4>5. NobodyLive(k)'
        BY <1>1, <3>5, <4>2 DEF NobodyLive
      <4>6. \A c \in Contacts : Housed(c) => Housed(c)'
        <5>1. ASSUME NEW c \in Contacts, c # k, Housed(c) PROVE Housed(c)'
          BY <2>1, <4>2, <4>3, <4>4, <5>1 DEF Housed
        <5> QED
          BY <4>5, <5>1 DEF Housed
      <4>7. ASSUME NEW c \in Contacts, NEW d \in Contacts, Single(c)', Single(d)', contact'[c].manager = d,
                   NEW q \in Homes(c)', LivePerson(q)'
            PROVE  person'[q].manager # Nothing \/ Homes(d)' = {q}
        <5>1. q # p /\ c # k
          BY <3>5, <4>2, <4>7
        <5>2. q \in Homes(c) /\ q \in People /\ LivePerson(q)
          <6>1. Homes(c) \subseteq People
            BY MatchesAre DEF Homes, Bearers, ByUser, ByEmail
          <6> QED
            BY <4>3, <4>4, <4>7, <5>1, <6>1
        <5>3. person[q].manager # Nothing \/ Homes(d) = {q}
          BY <1>1, <4>1, <4>7, <5>2 DEF Quiet, Single
        <5>4. d = k => Homes(d) # {q}
          BY <1>8, <2>3
        <5> QED
          BY <2>1, <4>4, <5>1, <5>2, <5>3, <5>4
      <4>8. Quiet'
        BY <1>1, <4>1, <4>6, <4>7 DEF Quiet, Single
      <4> QED
        BY <4>2, <4>8
    <3>8. Fresh' /\ run'.pc # "name" /\ (settled' <=> settled) /\ run'.began = run.began
      BY <1>1, <1>6, <1>10, <2>3 DEF Fresh
    <3>9. QuietInv'
      BY <1>1, <3>6, <3>7, <3>8 DEF QuietInv
    <3>10. Still
      BY <1>1, <2>1, <3>7 DEF Still
    <3> QED
      BY <3>9, <3>10
  <2> QED
    BY <2>2, <2>3
<1> QED
  BY <1>4, <1>9, <1>10 DEF MakePerson

-----------------------------------------------------------------------------
(* Managers and invites                                                       *)

Late == {"managers", "report", "invites", "done"}

\* From the third pass on the links are complete.
LEMMA LateCurrent ==
    ASSUME Current, UNCHANGED <<contact, named>>, run.pc \in {"people"} \cup Late, run'.pc \in Late,
           run.pc = "people" => \A c \in Contacts : c < run.at,
           \A p \in People : /\ person'[p].status = person[p].status /\ person'[p].ext = person[p].ext
                             /\ person'[p].email = person[p].email /\ person'[p].user = person[p].user,
           run'.view = run.view, run'.dry = run.dry, run'.link = run.link, run'.cache = run.cache,
           run'.pc = "report" => ~run.dry, Decided'
    PROVE  Current'
<1>1. Lists'
  BY DEF Lists, Working, Late
<1>2. \A c \in Contacts : Single(c)' <=> Single(c)
  BY DEF Single
<1>3. ~run.dry => Resolved'
  BY DEF Current, Resolved, Late
<1>4. ~run.dry => Placed'
  <2> SUFFICES ASSUME ~run.dry, NEW c \in Contacts, Single(c) PROVE LinkOK(c)'
    BY <1>2 DEF Placed
  <2>1. LinkOK(c)
    BY DEF Current, Placed, Passed, Working, Late
  <2> QED
    BY <2>1, LinkStays DEF Working, Late
<1> QED
  BY <1>1, <1>2, <1>3, <1>4 DEF Current, Late

LEMMA ToManagersQuietly ==
    ASSUME ScriptInv, QuietInv, ToManagers
    PROVE  QuietInv' /\ Still
<1>1. /\ run.pc = "people" /\ run.at > LastContact /\ run' = [run EXCEPT !.pc = "managers", !.at = 1]
      /\ UNCHANGED <<contact, person, named, invite, runs, edits, back, settled>>
  BY DEF ToManagers, Through
<1>2. run \in RunDoc /\ run.at \in Nat
  BY Fields DEF ScriptInv
<1>3. /\ run'.pc = "managers" /\ run'.cache = run.cache
      /\ run'.dry = run.dry /\ run'.began = run.began /\ run'.view = run.view /\ run'.link = run.link
  BY <1>1, <1>2 DEF RunDoc
<1>4. \A c \in Contacts : c < run.at
  BY <1>1, <1>2, ScriptConstants DEF Contacts
<1>5. Decided'
  BY <1>3 DEF Decided
<1>6. Fresh => Current'
  BY <1>1, <1>3, <1>4, <1>5, LateCurrent DEF QuietInv, Late
<1> QED
  BY <1>1, <1>3, <1>6, RunsQuietly

LEMMA SeeManagerQuietly ==
    ASSUME ScriptInv, QuietInv, SeeManager
    PROVE  QuietInv' /\ Still
<1> DEFINE p == run.link[run.at]
           m == IF Mine.manager = 0 THEN Nothing ELSE run.link[Mine.manager]
<1>1. run.pc = "managers" /\ run.at <= LastContact
      /\ UNCHANGED <<contact, person, named, invite, runs, edits, back, settled>>
      /\ run' = IF p \in {Nothing, m} \/ m = Nothing \/ run.dry THEN NextContact(run)
                 ELSE IF person[p].manager \in {Nothing, m} THEN [run EXCEPT !.pc = "report", !.found = p]
                 ELSE NextContact(run)
  BY DEF SeeManager, In
<1>2. run.at \in Contacts /\ run \in RunDoc /\ Mine = run.view[run.at]
  BY <1>1, MineTyped DEF ScriptInv, Mine
<1>3. ASSUME run'.pc \in Late, Decided', run'.cache = run.cache, run'.dry = run.dry,
             run'.began = run.began, run'.view = run.view, run'.link = run.link,
             run'.pc = "report" => ~run.dry
      PROVE  QuietInv' /\ Still
  <2>1. Fresh => Current'
    BY <1>1, <1>3, LateCurrent DEF QuietInv, Late
  <2> QED
    BY <1>1, <1>3, <2>1, RunsQuietly DEF Late
<1>4. CASE run' = NextContact(run)
  <2>1. /\ run'.pc = "managers" /\ run'.cache = run.cache /\ run'.dry = run.dry
        /\ run'.began = run.began /\ run'.view = run.view /\ run'.link = run.link
    BY <1>1, <1>2, <1>4 DEF NextContact, RunDoc
  <2>2. Decided'
    BY <2>1 DEF Decided
  <2> QED
    BY <1>3, <2>1, <2>2 DEF Late
<1>5. CASE /\ run' = [run EXCEPT !.pc = "report", !.found = p] /\ person[p].manager \in {Nothing, m}
           /\ ~(p \in {Nothing, m} \/ m = Nothing \/ run.dry)
  <2>1. /\ run'.pc = "report" /\ run'.cache = run.cache /\ run'.dry = run.dry /\ run'.at = run.at
        /\ run'.began = run.began /\ run'.view = run.view /\ run'.link = run.link /\ run'.found = p
    BY <1>2, <1>5 DEF RunDoc
  <2>2. m = run.link[Mine.manager] /\ m = run'.link[Mine'.manager]
    BY <1>5, <2>1 DEF Mine
  <2>3. Decided'
    BY <1>1, <1>5, <2>1, <2>2 DEF Decided
  <2> QED
    BY <1>3, <1>5, <2>1, <2>3 DEF Late
<1> QED
  BY <1>1, <1>4, <1>5

\* Once a run was completed, a live person has the manager it is about to get.
LEMMA ReportToQuietly ==
    ASSUME ScriptInv, QuietInv, ReportTo
    PROVE  QuietInv' /\ Still
<1> DEFINE p == run.found
           m == run.link[Mine.manager]
<1>1. /\ run.pc = "report" /\ run.at <= LastContact
      /\ person' = [person EXCEPT ![p].manager = m]
      /\ run' = NextContact([run EXCEPT !.pc = "managers", !.found = Nothing])
      /\ UNCHANGED <<contact, named, invite, runs, edits, back, settled>>
  BY DEF ReportTo, In
<1>2. /\ run.at \in Contacts /\ run \in RunDoc /\ person \in [People -> Person] /\ Mine = run.view[run.at]
      /\ p \in People /\ p = run.link[run.at] /\ m \in People /\ Mine.manager # 0 /\ Exists(person, p)
      /\ Mine \in Contact
  BY <1>1, MineTyped DEF ScriptInv, ScriptTypeOK, RunOK, Mine
<1>3. PICK k \in Contacts, d \in Contacts : k = run.at /\ d = Mine.manager
  BY <1>2, ScriptConstants DEF Contact, Contacts
<1> HIDE DEF p, m
<1>4. /\ run'.pc = "managers" /\ run'.cache = run.cache /\ run'.dry = run.dry
      /\ run'.began = run.began /\ run'.view = run.view /\ run'.link = run.link
  <2>1. [run EXCEPT !.pc = "managers", !.found = Nothing] \in RunDoc
    BY <1>2 DEF RunDoc, Stages
  <2>2. /\ [run EXCEPT !.pc = "managers", !.found = Nothing].cache = run.cache
        /\ [run EXCEPT !.pc = "managers", !.found = Nothing].began = run.began
        /\ [run EXCEPT !.pc = "managers", !.found = Nothing].pc = "managers"
        /\ [run EXCEPT !.pc = "managers", !.found = Nothing].dry = run.dry
        /\ [run EXCEPT !.pc = "managers", !.found = Nothing].view = run.view
        /\ [run EXCEPT !.pc = "managers", !.found = Nothing].link = run.link
    BY <1>2 DEF RunDoc
  <2> QED
    BY <1>1, <2>1, <2>2 DEF NextContact, RunDoc
<1>5. /\ person'[p].manager = m /\ \A q \in People \ {p} : person'[q] = person[q]
      /\ \A q \in People : /\ person'[q].status = person[q].status /\ person'[q].ext = person[q].ext
                           /\ person'[q].email = person[q].email /\ person'[q].user = person[q].user
      /\ person[p].manager = m => person'[p] = person[p]
  <2>1. person'[p] = [person[p] EXCEPT !.manager = m] /\ \A q \in People \ {p} : person'[q] = person[q]
    BY <1>1, <1>2
  <2>2. /\ person'[p].manager = m
        /\ person'[p].status = person[p].status /\ person'[p].ext = person[p].ext
        /\ person'[p].email = person[p].email /\ person'[p].user = person[p].user
        /\ person[p].manager = m => person'[p] = person[p]
    <3>1. person[p] \in Person
      BY <1>2
    <3> QED
      BY <2>1, <3>1 DEF Person
  <2> QED
    BY <2>1, <2>2
<1>6. /\ \A q \in People : LivePerson(q)' <=> LivePerson(q)
      /\ \A c : Homes(c)' = Homes(c) /\ (NobodyLive(c)' <=> NobodyLive(c)) /\ (Single(c)' <=> Single(c))
  BY <1>1, <1>5, LookupsStay
<1>7. Decided'
  BY <1>4 DEF Decided
<1>8. Fresh => Current'
  BY <1>1, <1>4, <1>5, <1>7, LateCurrent DEF QuietInv, Late
<1>9. ASSUME settled, LivePerson(p) PROVE person'[p] = person[p]
  <2>1. /\ Fresh /\ Current /\ Quiet /\ ~run.dry /\ Placed
        /\ person[p].manager \in {Nothing, m} /\ p # m
    BY <1>1, <1>9 DEF QuietInv, Current, Decided, p, m
  <2>2. Single(k) /\ Single(d) /\ contact[k].manager = d /\ run.link[k] = p /\ run.link[d] = m
    BY <1>2, <1>3, <2>1, ScriptConstants DEF Current, m
  <2>3. LinkOK(k) /\ LinkOK(d)
    BY <1>1, <2>1, <2>2 DEF Placed, Passed, Working
  <2>4. Homes(k) = {p}
    BY <1>9, <2>2, <2>3 DEF LinkOK
  <2>5. Homes(d) # {p}
    BY <1>9, <2>1, <2>2, <2>3 DEF LinkOK, NobodyLive
  <2>6. person[p].manager # Nothing
    BY <1>9, <2>1, <2>2, <2>4, <2>5 DEF Quiet
  <2> QED
    BY <1>5, <2>1, <2>6
<1>10. ASSUME settled PROVE Quiet'
  <2>1. Quiet
    BY <1>10 DEF QuietInv
  <2>2. \A c : Homes(c) \subseteq People
    BY MatchesAre DEF Homes, Bearers, ByUser, ByEmail
  <2>3. \A c \in Contacts : Housed(c) => Housed(c)'
    BY <1>5, <1>6 DEF Housed
  <2>4. m # Nothing
    BY <1>2, ScriptConstants
  <2>5. \A q \in People : person[q].manager # Nothing => person'[q].manager # Nothing
    BY <1>5, <2>4
  <2>6. \A c, e \in Contacts : Single(c)' /\ Single(e)' /\ contact'[c].manager = e =>
          \A q \in Homes(c)' : LivePerson(q)' => person'[q].manager # Nothing \/ Homes(e)' = {q}
    BY <1>1, <1>6, <2>1, <2>2, <2>5 DEF Quiet
  <2> QED
    BY <1>1, <1>6, <2>1, <2>3, <2>6 DEF Quiet
<1>11. QuietInv'
  BY <1>1, <1>4, <1>8, <1>10 DEF QuietInv, Fresh
<1>12. Still
  <2>1. ~LivePerson(p) => person'[p].status = "archived"
    BY <1>2, <1>5 DEF LivePerson, Exists, Person
  <2> QED
    BY <1>1, <1>5, <1>9, <2>1 DEF Still
<1> QED
  BY <1>11, <1>12

LEMMA ToInvitesQuietly ==
    ASSUME ScriptInv, QuietInv, ToInvites
    PROVE  QuietInv' /\ Still
<1> DEFINE todo == {i \in Invites : invite[i].contact # 0 /\ invite[i].person = Nothing}
<1>1. /\ run.pc = "managers" /\ run' = [run EXCEPT !.pc = "invites", !.todo = todo]
      /\ UNCHANGED <<contact, person, named, invite, runs, edits, back, settled>>
  BY DEF ToInvites, Through
<1>2. run \in RunDoc
  BY DEF ScriptInv
<1>3. /\ run'.pc = "invites" /\ run'.cache = run.cache /\ run'.todo = todo
      /\ run'.dry = run.dry /\ run'.began = run.began /\ run'.view = run.view /\ run'.link = run.link
  BY <1>1, <1>2 DEF RunDoc
<1>4. Decided'
  BY <1>1, <1>3 DEF Decided
<1>5. Fresh => Current'
  BY <1>1, <1>3, <1>4, LateCurrent DEF QuietInv, Late
<1> QED
  BY <1>1, <1>3, <1>5, RunsQuietly

\* Once a run was completed, no invite of a contact that becomes a person is left.
LEMMA BackfillInviteQuietly ==
    ASSUME ScriptInv, QuietInv, NEW i \in Invites, BackfillInvite(i)
    PROVE  QuietInv' /\ Still
<1> DEFINE c == invite[i].contact
           p == run.link[c]
<1>1. /\ run.pc = "invites" /\ i \in run.todo /\ run' = [run EXCEPT !.todo = @ \ {i}]
      /\ invite' = IF p = Nothing \/ run.dry THEN invite ELSE [invite EXCEPT ![i].person = p]
      /\ UNCHANGED <<contact, person, named, runs, edits, back, settled>>
  BY DEF BackfillInvite
<1>2. /\ run \in RunDoc /\ invite \in [Invites -> Invite] /\ run.todo \subseteq Invites
      /\ c \in Contacts
  <2>1. c \in 0..LastContact /\ c # 0
    BY <1>1 DEF ScriptInv, ScriptTypeOK, Invite, Backfilled
  <2> QED
    BY <2>1, Fields, ScriptConstants DEF ScriptInv, ScriptTypeOK, Contacts
<1>3. /\ run'.pc = "invites" /\ run'.cache = run.cache /\ run'.todo = run.todo \ {i}
      /\ run'.dry = run.dry /\ run'.began = run.began /\ run'.view = run.view /\ run'.link = run.link
  BY <1>1, <1>2 DEF RunDoc
<1>4. \A j \in Invites \ {i} : invite'[j] = invite[j]
  BY <1>1, <1>2
<1>5. Fresh => Current'
  <2> SUFFICES ASSUME Fresh PROVE Current'
    OBVIOUS
  <2>1. Current /\ \A j \in run.todo : invite[j].person = Nothing
    BY <1>1 DEF QuietInv, Current, Decided
  <2>2. Decided'
    BY <1>2, <1>3, <1>4, <2>1 DEF Decided
  <2> QED
    BY <1>1, <1>3, <2>1, <2>2, LateCurrent DEF Late
<1>6. settled => invite' = invite
  <2> SUFFICES ASSUME settled, ~run.dry, p # Nothing PROVE FALSE
    BY <1>1
  <2>1. Current /\ Quiet /\ invite[i].person = Nothing
    BY <1>1 DEF QuietInv, Current, Decided
  <2>2. Single(c)
    BY <1>2, <2>1 DEF Current
  <2> QED
    BY <1>2, <2>1, <2>2 DEF Quiet
<1>7. settled => Quiet'
  BY <1>1, <1>6, QuietStays DEF QuietInv
<1> QED
  BY <1>1, <1>3, <1>5, <1>6, <1>7 DEF QuietInv, Fresh, Still

LEMMA ReportQuietly ==
    ASSUME ScriptInv, QuietInv, Report
    PROVE  QuietInv' /\ Still
<1>1. /\ run.pc = "invites" /\ run' = [run EXCEPT !.pc = "done"]
      /\ UNCHANGED <<contact, person, named, invite, runs, edits, back, settled>>
  BY DEF Report
<1>2. run \in RunDoc
  BY DEF ScriptInv
<1>3. /\ run'.pc = "done" /\ run'.cache = run.cache
      /\ run'.dry = run.dry /\ run'.began = run.began /\ run'.view = run.view /\ run'.link = run.link
  BY <1>1, <1>2 DEF RunDoc
<1>4. Decided'
  BY <1>3 DEF Decided
<1>5. Fresh => Current'
  BY <1>1, <1>3, <1>4, LateCurrent DEF QuietInv, Late
<1> QED
  BY <1>1, <1>3, <1>5, RunsQuietly

\* A real run that met no edit leaves nothing for another to do.
LEMMA EndQuietly ==
    ASSUME ScriptInv, QuietInv, End
    PROVE  QuietInv' /\ Still
<1>1. /\ run.pc = "done" /\ run' = NoRun
      /\ settled' = (settled \/ (~run.dry /\ run.began = edits))
      /\ UNCHANGED <<contact, person, named, invite, runs, edits, back>>
  BY DEF End
<1>2. ASSUME ~run.dry, run.began = edits PROVE Quiet
  <2>1. Current /\ Resolved /\ \A c \in Contacts : Single(c) => LinkOK(c)
    BY <1>1, <1>2 DEF QuietInv, Fresh, Current, Placed, Passed, Working
  <2>2. \A c \in Contacts : contact[c].company \in named \cup {Nothing}
    BY <1>1, <2>1 DEF Resolved
  <2>3. \A c \in Contacts : Single(c) => Housed(c)
    BY <2>1 DEF LinkOK, Housed
  <2>4. ASSUME NEW c \in Contacts, NEW d \in Contacts, Single(c), Single(d), contact[c].manager = d,
               NEW p \in Homes(c), LivePerson(p)
        PROVE  person[p].manager # Nothing \/ Homes(d) = {p}
    <3>1. run.link[c] = p /\ run.link[d] \in People
      BY <2>1, <2>4 DEF LinkOK, NobodyLive
    <3>2. CASE run.link[d] = p
      BY <2>1, <2>4, <3>2 DEF LinkOK
    <3>3. CASE run.link[d] # p
      <4>1. Reports(run, person, c)
        BY <1>1, <1>2 DEF ScriptInv, Reported
      <4>2. run.view[c].manager = d /\ d # 0
        BY <2>1, <2>4 DEF Current, Contacts
      <4>3. p # Nothing /\ run.link[d] # Nothing
        BY <2>1, <2>4, <3>1, ScriptConstants DEF LinkOK
      <4> QED
        BY <3>1, <3>3, <4>1, <4>2, <4>3 DEF Reports
    <3> QED
      BY <3>2, <3>3
  <2>5. ASSUME NEW i \in Invites, NEW c \in Contacts, invite[i].contact = c, Single(c)
        PROVE  invite[i].person # Nothing
    <3>1. c # 0 /\ run.link[c] # Nothing
      BY <2>1, <2>5, ScriptConstants DEF LinkOK, Contacts
    <3> QED
      BY <1>1, <1>2, <2>5, <3>1 DEF ScriptInv, Backfilled
  <2> QED
    BY <2>2, <2>3, <2>4, <2>5 DEF Quiet
<1>3. settled' => Quiet
  BY <1>1, <1>2 DEF QuietInv
<1> QED
  BY <1>1, <1>3, RestQuietly

LEMMA StepQuietly ==
    ScriptInv /\ QuietInv /\ Unambiguous /\ [ScriptNext]_scriptVars => QuietInv' /\ [Still]_scriptVars
<1> SUFFICES ASSUME ScriptInv, QuietInv, Unambiguous, [ScriptNext]_scriptVars
             PROVE  QuietInv' /\ [Still]_scriptVars
  OBVIOUS
<1>1. CASE Script
  BY <1>1, FindCompanyQuietly, CreateCompanyQuietly, ToPeopleQuietly, LookQuietly, MatchContactQuietly,
     ClaimPersonQuietly, MakePersonQuietly, ToManagersQuietly, SeeManagerQuietly, ReportToQuietly,
     ToInvitesQuietly, BackfillInviteQuietly, ReportQuietly, EndQuietly DEF Script
<1>2. CASE ScriptDies
  <2>1. run' = NoRun /\ UNCHANGED <<contact, person, named, invite, settled>>
    BY <1>2 DEF ScriptDies
  <2> QED
    BY <2>1, RestQuietly DEF QuietInv
<1>3. CASE Edited
  BY <1>3, EditsQuietly
<1>4. CASE UNCHANGED scriptVars
  <2>1. UNCHANGED <<contact, person, named, invite, run, edits, settled>>
    BY <1>4 DEF scriptVars
  <2>2. ASSUME Current PROVE Lists' /\ (Resolved => Resolved')
    BY <2>1, <2>2 DEF Current, Lists, Resolved, LivePerson
  <2>3. Mine' = Mine /\ Matches(Mine)' = Matches(Mine)
    BY <2>1 DEF Mine, Matches, LivePerson
  <2>4. Bearers(run.at)' = Bearers(run.at)
    BY <2>1 DEF Bearers, LivePerson
  <2>5. ASSUME Current PROVE Decided'
    BY <2>1, <2>3, <2>4, <2>5 DEF Current, Decided, Single
  <2>6. Placed => Placed'
    BY <2>1, LinkStays DEF Placed, Passed, Single
  <2>7. ASSUME Current PROVE Current'
    BY <2>1, <2>2, <2>5, <2>6, <2>7 DEF Current, Single
  <2>8. Quiet => Quiet'
    BY <2>1, QuietStays
  <2>9. QuietInv'
    BY <2>1, <2>7, <2>8 DEF QuietInv, Fresh
  <2> QED
    BY <1>4, <2>9
<1>5. \/ Script \/ ScriptDies \/ Edited \/ UNCHANGED scriptVars \/ \E dry \in BOOLEAN : Start(dry)
  BY DEF ScriptNext, PersonCreate, PersonArchive, PersonUnarchive, CompanyEdit, ContactBatch, Repair
<1> QED
  BY <1>1, <1>2, <1>3, <1>4, <1>5, StartQuietly

\* After a run that was completed for real and met no edit, another changes nothing
\* among the living, provided that the script finds one person at most whichever
\* way it looks.  It is the second run's own lookups that have to agree with the
\* first one's: two people of one user, or two contacts, may be found in turn.
THEOREM SecondRunChangesNothing ==
    ScriptSpec /\ []Unambiguous => SecondRunIsQuiet
<1>1. ScriptInit => QuietInv
  <2> SUFFICES ASSUME ScriptInit PROVE QuietInv
    OBVIOUS
  <2>1. run.pc = "idle" /\ ~settled
    BY Idles DEF ScriptInit
  <2> QED
    BY <2>1 DEF QuietInv, Fresh
<1>2. [Still]_scriptVars => [settled /\ edits' = edits =>
          /\ UNCHANGED <<named, invite>>
          /\ \A p \in People : person'[p] # person[p] => person'[p].status = "archived"]_scriptVars
  BY DEF Still
<1> QED
  BY <1>1, <1>2, StepQuietly, Inductive, PTL DEF ScriptSpec, SecondRunIsQuiet
=============================================================================
