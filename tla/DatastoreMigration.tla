------------------------- MODULE DatastoreMigration -------------------------
(***************************************************************************)
(* Moving one organization between the shared database and a dedicated one *)
(* (MigrationsService), and where its requests read and write meanwhile    *)
(* (TenantConnectionService.getModelForOrg).                               *)
(*                                                                         *)
(* start copies collection by collection in chunks ordered by _id, and     *)
(* records after each chunk the last _id it copied, so that a later start  *)
(* resumes there.  finalize repoints the organization; abort deletes what  *)
(* was copied.  Each is one HTTP request that runs step by step while      *)
(* other requests do.                                                      *)
(*                                                                         *)
(* The code does not coordinate the operator and the tenant.  Liberties    *)
(* names what the runbook leaves to the operator's care; the empty set is  *)
(* the careful operator.                                                   *)
(***************************************************************************)
EXTENDS Naturals, Sequences, FiniteSets, SequencesExt

CONSTANTS
    Shared,          \* the shared database
    Dedicated,       \* databases an organization can be moved to
    None,            \* no databaseUri, no targetUri
    Collections,     \* the collections followed, a subset of Kinds
    MaxId,           \* documents of a collection have _id 1 .. MaxId
    ChunkSize,       \* documents copied per batch
    Requests,        \* operator requests in flight at a time
    MaxMigrations,   \* bound: migrations created
    MaxVersion,      \* bound: writes to one document
    Liberties        \* "crash", "abort-crash", "write", "onward", "late", "overlap",
                     \* "retarget", "both"

\* One collection of each kind: "contacts" (and offices) is routed to the
\* organization's database and copied by a migration; "users" (and invites,
\* projects, eventLogs) is copied but always read from the shared database;
\* "persons" (and companies, locations, graph edges, cost codes, taxonomies,
\* templates, notifications) is routed but not copied.
Kinds == {"users", "contacts", "persons"}

ASSUME DatastoreMigrationAssumption ==
    /\ Shared \notin Dedicated
    /\ None \notin Dedicated \cup {Shared}
    /\ Collections \subseteq Kinds
    /\ Collections \cap {"users", "contacts"} # {}
    /\ MaxId \in Nat /\ MaxMigrations \in Nat /\ MaxVersion \in Nat
    /\ ChunkSize \in Nat \ {0}

VARIABLES
    dbs,     \* the version of each document in each database, 0: none
    org,     \* useDedicatedDb and databaseUri
    migs,    \* the tenantmigrations collection, oldest startedAt first
    req      \* what each operator request is doing

vars == <<dbs, org, migs, req>>

-----------------------------------------------------------------------------
(* Where documents live *)

Ids == 1 .. MaxId
DB  == Dedicated \cup {Shared}

Entities == IF "contacts" \notin Collections THEN <<"users">>
            ELSE IF "users" \notin Collections THEN <<"contacts">>
            ELSE <<"users", "contacts">>
Copied   == {Entities[k] : k \in DOMAIN Entities}
Routed   == Collections \cap {"contacts", "persons"}

\* getConnectionForOrg
Live == IF org.dedicated /\ org.uri # None THEN org.uri ELSE Shared

Home(c) == IF c \in Routed THEN Live ELSE Shared

Seen(c, i) == dbs[Home(c)][c][i]

-----------------------------------------------------------------------------
(* Migrations and requests *)

Directions == {"shared_to_dedicated", "dedicated_to_shared"}
Open == {"in_progress", "failed", "ready_for_cutover"}

Migration ==
    [dir:      Directions,
     status:   Open \cup {"completed", "aborted"},
     dry:      BOOLEAN,
     target:   DB \cup {None},
     progress: [Collections -> 0 .. MaxId]]     \* lastId, 0: null

NoProgress == [c \in Collections |-> 0]

Opening == {"start.find", "start.open"}
Copying == {"copy.begin", "copy.find", "copy.write", "copy.record", "dry.count", "start.ready"}
Starting == Opening \cup {"start.connect", "start.failed"} \cup Copying

PC == {"idle", "final.org", "final.save", "abort.clean", "abort.save"} \cup Starting

Request ==
    [pc:     PC,
     mig:    0 .. MaxMigrations,     \* the migration, 0: none found
     doc:    Migration,              \* what was asked, then the copy in memory
     loaded: Migration,              \* that document as it was read
     given:  BOOLEAN,                \* dto.targetUri is set
     source: DB,
     at:     1 .. 3,                 \* the collection being copied or cleaned
     last:   0 .. MaxId,             \* lastId, as the loop holds it
     batch:  SUBSET (Ids \X (0 .. MaxVersion))]  \* read, not yet written

Blank == [dir |-> "shared_to_dedicated", status |-> "in_progress", dry |-> FALSE,
          target |-> None, progress |-> NoProgress]

Idle == [pc |-> "idle", mig |-> 0, doc |-> Blank, loaded |-> Blank, given |-> FALSE,
         source |-> Shared, at |-> 1, last |-> 0, batch |-> {}]

InFlight(r) == req[r].pc # "idle"
Aborting(r) == req[r].pc \in {"abort.clean", "abort.save"}
IsOpen(m)   == migs[m].status \in Open

Goto(r, pc) == req' = [req EXCEPT ![r].pc = pc]
Finish(r)   == req' = [req EXCEPT ![r] = Idle]

\* doc.save(): the paths that differ from the document as it was loaded.
Saved(stored, loaded, doc) ==
    [stored EXCEPT
        !.status = IF doc.status = loaded.status THEN @ ELSE doc.status,
        !.dry    = IF doc.dry = loaded.dry THEN @ ELSE doc.dry,
        !.target = IF doc.target = loaded.target THEN @ ELSE doc.target]

Init ==
    /\ dbs = [d \in DB |-> [c \in Collections |-> [i \in Ids |-> 0]]]
    /\ org \in {[dedicated |-> FALSE, uri |-> None]} \cup
               {[dedicated |-> TRUE, uri |-> d] : d \in Dedicated}
    /\ migs = << >>
    /\ req = [r \in Requests |-> Idle]

-----------------------------------------------------------------------------
(* The careful operator and the tenant *)

\* Freeze the tenant while a migration is open.
MayWrite ==
    \/ "write" \in Liberties
    \/ /\ \A m \in DOMAIN migs : ~IsOpen(m)
       /\ \A r \in Requests : ~InFlight(r)

\* Repeat a start that has timed out, never one whose fate is still open,
\* never as a dry run and never towards another target; do not move to a
\* dedicated database from one; start nothing while a migration the other way
\* is open.
MayStart(dir, dry, t) ==
    /\ "overlap" \in Liberties
       \/ \A q \in Requests : InFlight(q) => /\ req[q].pc \in Starting \ Opening
                                             /\ ~req[q].doc.dry /\ ~dry
    /\ "onward" \in Liberties \/ dir = "dedicated_to_shared" \/ ~org.dedicated
    /\ \A m \in DOMAIN migs : IsOpen(m) =>
         /\ "both" \in Liberties \/ migs[m].dir = dir
         /\ "retarget" \in Liberties \/ migs[m].dir # dir \/ t = None
            \/ migs[m].target \in {None, t}

MayFinish == "overlap" \in Liberties \/ \A q \in Requests : ~InFlight(q)

\* Abort only a migration that is open and not cut over.
MayAbort(m) == "late" \in Liberties \/ (IsOpen(m) /\ migs[m].target # Live)

TenantWrite(c, i) ==
    /\ MayWrite
    /\ Seen(c, i) < MaxVersion
    /\ dbs' = [dbs EXCEPT ![Home(c)][c][i] = @ + 1]
    /\ UNCHANGED <<org, migs, req>>

-----------------------------------------------------------------------------
(* start *)

\* validateOrg and the direction check; t is dto.targetUri.  Moving back
\* always goes to mongoConfig.uri.
BeginStart(r, dir, dry, t) ==
    LET target == IF dir = "dedicated_to_shared" THEN Shared
                  ELSE IF t # None THEN t ELSE org.uri
        source == IF dir = "dedicated_to_shared" THEN org.uri ELSE Shared
    IN
    /\ ~InFlight(r) /\ MayStart(dir, dry, t)
    /\ dir = "dedicated_to_shared" => org.dedicated /\ org.uri # None /\ t = None
    /\ req' = [req EXCEPT ![r].pc = "start.find",
                          ![r].doc = [Blank EXCEPT !.dir = dir, !.dry = dry, !.target = target],
                          ![r].given = (t # None),
                          ![r].source = source]
    /\ UNCHANGED <<dbs, org, migs>>

Found(dir) == {m \in DOMAIN migs : migs[m].dir = dir /\ IsOpen(m)}

\* The newest open migration of the direction.  With none, a migration
\* started less than 30 seconds ago the other way refuses the request (and
\* so does the bound on migrations).
StartFind(r) ==
    LET found == Found(req[r].doc.dir)
        recent == migs # << >> /\ Last(migs).status \in {"in_progress", "ready_for_cutover"}
    IN
    /\ req[r].pc = "start.find"
    /\ \/ /\ found = {} /\ Len(migs) < MaxMigrations
          /\ Goto(r, "start.open")
       \/ /\ found = {} /\ (recent \/ Len(migs) >= MaxMigrations)
          /\ Finish(r)
       \/ \E m \in found :
            /\ \A k \in found : k <= m
            /\ req' = [req EXCEPT ![r].pc = "start.open", ![r].mig = m, ![r].loaded = migs[m]]
    /\ UNCHANGED <<dbs, org, migs>>

\* What a resumed migration becomes in memory.
Resumed(loaded, ask, given) ==
    [loaded EXCEPT !.status = "in_progress",
                   !.dry    = ask.dry,
                   !.target = IF given \/ loaded.target = None THEN ask.target ELSE @]

\* create, or save of the resumed document.  Without a target the request
\* is refused after that.
StartOpen(r) ==
    LET ask == req[r].doc
        doc == IF req[r].mig = 0 THEN ask ELSE Resumed(req[r].loaded, ask, req[r].given)
        m   == IF req[r].mig = 0 THEN Len(migs) + 1 ELSE req[r].mig
    IN
    /\ req[r].pc = "start.open"
    /\ migs' = IF req[r].mig = 0
                 THEN Append(migs, doc)
                 ELSE [migs EXCEPT ![m] = Saved(@, req[r].loaded, doc)]
    /\ IF doc.target = None
         THEN Finish(r)
         ELSE req' = [req EXCEPT ![r] = [Idle EXCEPT !.pc = "start.connect", !.mig = m,
                                                     !.doc = doc, !.source = req[r].source]]
    /\ UNCHANGED <<dbs, org>>

\* The collection at position `at` comes next, or all are done.
Collection(r, at) ==
    req' = [req EXCEPT
              ![r].at = IF at > Len(Entities) THEN 1 ELSE at,
              ![r].batch = {},
              ![r].pc = IF at > Len(Entities) THEN "start.ready"
                        ELSE IF req[r].doc.dry THEN "dry.count" ELSE "copy.begin",
              ![r].last = IF at > Len(Entities) THEN 0 ELSE req[r].doc.progress[Entities[at]]]

\* ping, and a save that finds nothing changed.
StartConnect(r) ==
    /\ req[r].pc = "start.connect"
    /\ Collection(r, 1)
    /\ UNCHANGED <<dbs, org, migs>>

RecordProgress(r, lastId) ==
    migs' = [migs EXCEPT ![req[r].mig].progress[Entities[req[r].at]] = lastId]

DryCount(r) ==
    /\ req[r].pc = "dry.count"
    /\ RecordProgress(r, 0)
    /\ Collection(r, req[r].at + 1)
    /\ UNCHANGED <<dbs, org>>

-----------------------------------------------------------------------------
(* copyCollection *)

CopyBegin(r) ==
    /\ req[r].pc = "copy.begin"
    /\ RecordProgress(r, req[r].last)
    /\ Goto(r, "copy.find")
    /\ UNCHANGED <<dbs, org>>

\* Variant: one document is left out.
RestAfterGap(docs, last) == {i \in Ids : (last = 0 \/ i > last + 1) /\ docs[i] # 0}

\* find({_id: {$gt: lastId}})
Rest(docs, last) == {i \in Ids : i > last /\ docs[i] # 0}

\* sort({_id: 1}).limit(chunkSize)
IsChunk(chunk, rest) ==
    /\ chunk # {}
    /\ \A i \in chunk, j \in rest \ chunk : i < j
    /\ Cardinality(chunk) <= ChunkSize
    /\ chunk = rest \/ Cardinality(chunk) = ChunkSize

\* Variant: progress is recorded before the chunk is written.
CopyFindRecording(r) ==
    LET docs == dbs[req[r].source][Entities[req[r].at]]
        rest == Rest(docs, req[r].last)
    IN
    /\ req[r].pc = "copy.find"
    /\ \/ /\ rest = {}
          /\ Collection(r, req[r].at + 1)
          /\ UNCHANGED migs
       \/ \E chunk \in SUBSET rest, last \in rest :
            /\ IsChunk(chunk, rest) /\ last \in chunk /\ \A i \in chunk : i <= last
            /\ req' = [req EXCEPT ![r].pc = "copy.write",
                                  ![r].batch = {<<i, docs[i]>> : i \in chunk},
                                  ![r].last = last]
            /\ RecordProgress(r, last)
    /\ UNCHANGED <<dbs, org>>

\* find().lean() reads the chunk, whose last _id becomes lastId once it is
\* written; an empty one ends the collection.
CopyFind(r) ==
    LET docs == dbs[req[r].source][Entities[req[r].at]]
        rest == Rest(docs, req[r].last)
    IN
    /\ req[r].pc = "copy.find"
    /\ \/ /\ rest = {}
          /\ Collection(r, req[r].at + 1)
       \/ \E chunk \in SUBSET rest, last \in rest :
            /\ IsChunk(chunk, rest) /\ last \in chunk /\ \A i \in chunk : i <= last
            /\ req' = [req EXCEPT ![r].pc = "copy.write",
                                  ![r].batch = {<<i, docs[i]>> : i \in chunk},
                                  ![r].last = last]
    /\ UNCHANGED <<dbs, org, migs>>

\* One of the concurrent replaceOne({upsert: true}).
CopyWrite(r) ==
    /\ req[r].pc = "copy.write"
    /\ \E d \in req[r].batch :
         /\ dbs' = [dbs EXCEPT ![req[r].doc.target][Entities[req[r].at]][d[1]] = d[2]]
         /\ req' = [req EXCEPT ![r].batch = @ \ {d},
                               ![r].pc = IF req[r].batch = {d} THEN "copy.record" ELSE @]
    /\ UNCHANGED <<org, migs>>

CopyRecord(r) ==
    /\ req[r].pc = "copy.record"
    /\ RecordProgress(r, req[r].last)
    /\ Goto(r, "copy.find")
    /\ UNCHANGED <<dbs, org>>

\* The last save of a start: the status has changed since it was opened.
StartReady(r) ==
    /\ req[r].pc = "start.ready"
    /\ migs' = [migs EXCEPT ![req[r].mig].status =
                  IF req[r].doc.dry THEN "completed" ELSE "ready_for_cutover"]
    /\ Finish(r)
    /\ UNCHANGED <<dbs, org>>

\* The target cannot be reached, or a query fails: caught, saved, rethrown.
StartError(r) ==
    /\ req[r].pc \in Copying \cup {"start.connect"}
    /\ Goto(r, "start.failed")
    /\ UNCHANGED <<dbs, org, migs>>

StartFailed(r) ==
    /\ req[r].pc = "start.failed"
    /\ migs' = [migs EXCEPT ![req[r].mig].status = "failed"]
    /\ Finish(r)
    /\ UNCHANGED <<dbs, org>>

-----------------------------------------------------------------------------
(* finalize *)

\* Variant: the status is not looked at.
BeginFinalizeUnready(r, m) ==
    /\ ~InFlight(r) /\ MayFinish
    /\ migs[m].target # None /\ ~migs[m].dry
    /\ req' = [req EXCEPT ![r].pc = "final.org", ![r].mig = m, ![r].doc = migs[m]]
    /\ UNCHANGED <<dbs, org, migs>>

BeginFinalize(r, m) ==
    /\ ~InFlight(r) /\ MayFinish
    /\ migs[m].status = "ready_for_cutover" /\ ~migs[m].dry
    /\ req' = [req EXCEPT ![r].pc = "final.org", ![r].mig = m, ![r].doc = migs[m]]
    /\ UNCHANGED <<dbs, org, migs>>

\* org.save(): the organization moves.  No cached connection is reset.
FinalizeOrg(r) ==
    LET doc == req[r].doc IN
    /\ req[r].pc = "final.org"
    /\ org' = IF doc.dir = "shared_to_dedicated"
                THEN [dedicated |-> TRUE, uri |-> doc.target]
                ELSE [org EXCEPT !.dedicated = FALSE]
    /\ Goto(r, "final.save")
    /\ UNCHANGED <<dbs, migs>>

FinalizeSave(r) ==
    /\ req[r].pc = "final.save"
    /\ migs' = [migs EXCEPT ![req[r].mig].status = "completed"]
    /\ Finish(r)
    /\ UNCHANGED <<dbs, org>>

-----------------------------------------------------------------------------
(* abort *)

\* Only a completed migration is refused.
BeginAbort(r, m) ==
    /\ ~InFlight(r) /\ MayFinish /\ MayAbort(m)
    /\ migs[m].status # "completed"
    /\ req' = [req EXCEPT ![r].pc = IF migs[m].dry \/ migs[m].target = None
                                      THEN "abort.save" ELSE "abort.clean",
                          ![r].mig = m, ![r].doc = migs[m]]
    /\ UNCHANGED <<dbs, org, migs>>

\* cleanupTargetData: deleteMany collection by collection.
AbortClean(r) ==
    LET c == Entities[req[r].at] IN
    /\ req[r].pc = "abort.clean"
    /\ dbs' = [dbs EXCEPT ![req[r].doc.target][c] = [i \in Ids |-> 0]]
    /\ req' = [req EXCEPT ![r].at = IF @ = Len(Entities) THEN 1 ELSE @ + 1,
                          ![r].pc = IF req[r].at = Len(Entities) THEN "abort.save" ELSE @]
    /\ UNCHANGED <<org, migs>>

\* A deleteMany that fails ends the cleanup and is only logged.
AbortCleanError(r) ==
    /\ req[r].pc = "abort.clean"
    /\ req' = [req EXCEPT ![r].pc = "abort.save", ![r].at = 1]
    /\ UNCHANGED <<dbs, org, migs>>

AbortSave(r) ==
    /\ req[r].pc = "abort.save"
    /\ migs' = [migs EXCEPT ![req[r].mig].status = IF req[r].doc.status = "aborted" THEN @ ELSE "aborted"]
    /\ Finish(r)
    /\ UNCHANGED <<dbs, org>>

-----------------------------------------------------------------------------
\* The server dies; what the request has written stays.
Crash(r) ==
    /\ InFlight(r)
    /\ (IF Aborting(r) THEN "abort-crash" ELSE "crash") \in Liberties
    /\ Finish(r)
    /\ UNCHANGED <<dbs, org, migs>>

Arrive(r) ==
    \/ \E dir \in Directions, dry \in BOOLEAN, t \in Dedicated \cup {None} :
         BeginStart(r, dir, dry, t)
    \/ \E m \in DOMAIN migs : BeginFinalize(r, m) \/ BeginAbort(r, m)

Step(r) ==
    \/ StartFind(r) \/ StartOpen(r) \/ StartConnect(r) \/ DryCount(r)
    \/ CopyBegin(r) \/ CopyFind(r) \/ CopyWrite(r) \/ CopyRecord(r)
    \/ StartReady(r) \/ StartFailed(r)
    \/ FinalizeOrg(r) \/ FinalizeSave(r)
    \/ AbortClean(r) \/ AbortSave(r)

Next ==
    \/ \E r \in Requests : Arrive(r) \/ Step(r) \/ StartError(r) \/ AbortCleanError(r) \/ Crash(r)
    \/ \E c \in Collections, i \in Ids : TenantWrite(c, i)

Spec == Init /\ [][Next]_vars

-----------------------------------------------------------------------------
(* Properties *)

TypeOK ==
    /\ dbs \in [DB -> [Collections -> [Ids -> 0 .. MaxVersion]]]
    /\ org \in [dedicated: BOOLEAN, uri: Dedicated \cup {None}]
    /\ migs \in Seq(Migration) /\ Len(migs) <= MaxMigrations
    /\ req \in [Requests -> Request]

\* The database a migration copies from, while the organization is there.
Source(m) == IF migs[m].dir = "dedicated_to_shared" THEN org.uri ELSE Shared

\* The target has what the source has of document i.
Transferred(m, c, i) ==
    dbs[Source(m)][c][i] \in {0, dbs[migs[m].target][c][i]}

BeingAborted(m) == \E r \in Requests : Aborting(r) /\ req[r].mig = m

\* A migration offered for cutover has everything: whatever crashed, failed,
\* was repeated or ran as a dry run on the way, no document of a copied
\* collection is missing in the target or older than in the source.
ReadyMeansCopied ==
    \A m \in DOMAIN migs :
        migs[m].status = "ready_for_cutover" /\ ~migs[m].dry /\ ~BeingAborted(m) =>
            \A c \in Copied, i \in Ids : Transferred(m, c, i)

\* The recorded progress is never ahead of the copy: up to lastId the target
\* of an open migration has what the source has, so a resumed start that begins
\* there skips nothing.
ProgressIsCopied ==
    \A m \in DOMAIN migs : IsOpen(m) /\ ~BeingAborted(m) =>
        \A c \in Copied : \A i \in 1 .. migs[m].progress[c] : Transferred(m, c, i)

\* Cutover is invisible to the tenant: in the collections that are both
\* copied and routed every step, finalize included, is a write of the tenant
\* or changes nothing it can see.
Portable == Copied \cap Routed

Tenant == INSTANCE TenantData WITH
    Document <- Portable \X Ids,
    data <- [d \in Portable \X Ids |-> Seen(d[1], d[2])]

ImplementsTenantData == Tenant!Spec

\* No document the tenant has written disappears or goes back to an older
\* version.
NoDocumentLost ==
    [][\A c \in Collections, i \in Ids : Seen(c, i) <= Seen(c, i)']_vars
=============================================================================
