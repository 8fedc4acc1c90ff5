--------------------------- MODULE CostCodeImport ---------------------------
(***************************************************************************)
(* The cost codes of one organization and the import jobs that replace     *)
(* them (CostCodesService, cost-code-import.queue).                        *)
(*                                                                         *)
(* startImport stores the workbook in a job and has it read, inline or by  *)
(* a BullMQ worker; the codes found are previewed; commitImport deletes    *)
(* every code of the organization and inserts the list.  seedPack replaces *)
(* the codes too, and users edit single codes all the while.  No step is   *)
(* in a transaction.                                                       *)
(*                                                                         *)
(* isUsed is false in every document, since no code in src sets it: the    *)
(* guards on it pass and are left out, as are descriptions and `active`.   *)
(***************************************************************************)
EXTENDS Naturals, Sequences

CONSTANTS
    Jobs,         \* import jobs that may be created
    Codes,        \* values of CostCode.code
    Lists,        \* normalized, nonempty lists a workbook or a user may give
    Pack,         \* STEEL_FIELD_PACK, one of the Lists
    Requests,     \* requests in flight at a time that take several steps
    Workers,      \* concurrency of the workers
    Modes,        \* "inline", "queue": COST_CODE_IMPORT_INLINE
    Absent, Manual, Seeded,  \* no such code; importJobId null: by hand, by seedPack
    NoJob,
    MaxFaults,    \* bound: faults
    Liberties     \* "overlap", "edit", "lost-reply", "blocked"

ASSUME CostCodeImportAssumption ==
    /\ \A l \in Lists : l \in Seq(Codes) /\ l # << >>
    /\ Pack \in Lists
    /\ Modes \subseteq {"inline", "queue"}
    /\ MaxFaults \in Nat
    /\ {Absent, Manual, Seeded, NoJob} \cap Jobs = {}

VARIABLES
    book,      \* where the organization's cost code comes from, by code
    job,       \* the costcodeimportjobs collection
    entry,     \* the job's entry in the BullMQ queue
    req,       \* what each request is doing
    run,       \* what each worker is doing
    faults     \* faults so far, by kind

vars == <<book, job, entry, req, run, faults>>

-----------------------------------------------------------------------------
(* Documents *)

\* {orgId, code} is unique, so a code names at most one document.
Sources == Jobs \cup {Absent, Manual, Seeded}

Job == [status:  {"none", "queued", "processing", "preview", "done", "failed"},
        file:    BOOLEAN,                \* fileBase64 is there
        preview: Lists \cup {<< >>}]

Unread == {"queued", "processing"}

Blank == [status |-> "none", file |-> FALSE, preview |-> << >>]

\* doc.save(): the paths that differ from the document as it was loaded.
Saved(stored, loaded, doc) ==
    [f \in DOMAIN stored |-> IF doc[f] = loaded[f] THEN stored[f] ELSE doc[f]]

Failed(doc) == [doc EXCEPT !.status = "failed", !.file = FALSE]
Previewed(doc, list) == [status |-> "preview", file |-> FALSE, preview |-> list]

\* BullMQ's side: a job is tried again after an error (attempts: 2) and
\* after the worker that held it died, at most once (maxStalledCount).
Attempts  == 2
MaxStalls == 1

Entry == [state: {"none", "waiting", "active", "over"},
          owner: Workers \cup {NoJob},
          attempts: 0 .. Attempts - 1,
          stalls: 0 .. MaxStalls]

NoEntry == [state |-> "none", owner |-> NoJob, attempts |-> 0, stalls |-> 0]
Over    == [NoEntry EXCEPT !.state = "over"]

Request == [pc: {"idle", "import.parse", "import.add", "import.refuse",
                 "commit.delete", "commit.insert", "commit.save",
                 "seed.delete", "seed.insert"},
            job: Jobs \cup {NoJob},
            list: Lists \cup {<< >>},
            at: Nat]                     \* the next code to insert

Run == [pc: {"idle", "load", "mark", "read", "save", "fail", "ack", "nack"},
        job: Jobs \cup {NoJob},
        loaded: Job, doc: Job]           \* as stored, as changed in memory

IdleReq == [pc |-> "idle", job |-> NoJob, list |-> << >>, at |-> 1]
IdleRun == [pc |-> "idle", job |-> NoJob, loaded |-> Blank, doc |-> Blank]

\* A worker or its lock is lost, a save of a worker fails, a request that
\* starts an import or one that replaces the codes is lost.
FaultKinds == {"worker", "write", "import", "replace"}

Init ==
    /\ book \in [Codes -> {Absent, Manual}]
    /\ job = [j \in Jobs |-> Blank]
    /\ entry = [j \in Jobs |-> NoEntry]
    /\ req = [r \in Requests |-> IdleReq]
    /\ run = [w \in Workers |-> IdleRun]
    /\ faults = [k \in FaultKinds |-> 0]

Fault(k) ==
    /\ faults.worker + faults.write + faults.import + faults.replace < MaxFaults
    /\ faults' = [faults EXCEPT ![k] = @ + 1]

Replacing(r) == req[r].pc \in {"commit.delete", "commit.insert", "commit.save",
                               "seed.delete", "seed.insert"}

\* What the code leaves to its users: one replacement of the codes at a
\* time, and no code renamed or removed meanwhile.
MayReplace == "overlap" \in Liberties \/ \A r \in Requests : ~Replacing(r)
MayEdit    == "edit" \in Liberties \/ \A r \in Requests : ~Replacing(r)

Goto(r, pc) == req' = [req EXCEPT ![r].pc = pc]
Finish(r)   == req' = [req EXCEPT ![r] = IdleReq]

-----------------------------------------------------------------------------
(* Single codes *)

Create(c) ==
    /\ book[c] = Absent
    /\ book' = [book EXCEPT ![c] = Manual]
    /\ UNCHANGED <<job, entry, req, run, faults>>

\* One updateOne of bulkUpsert's unordered bulkWrite: a code that is there
\* keeps its importJobId.
Upsert(c) ==
    /\ book' = [book EXCEPT ![c] = IF @ = Absent THEN Manual ELSE @]
    /\ UNCHANGED <<job, entry, req, run, faults>>

\* update with another code; a duplicate is refused.
Rename(c, d) ==
    /\ MayEdit
    /\ book[c] # Absent /\ book[d] = Absent
    /\ book' = [book EXCEPT ![c] = Absent, ![d] = book[c]]
    /\ UNCHANGED <<job, entry, req, run, faults>>

Remove(c) ==
    /\ MayEdit
    /\ book[c] # Absent
    /\ book' = [book EXCEPT ![c] = Absent]
    /\ UNCHANGED <<job, entry, req, run, faults>>

-----------------------------------------------------------------------------
(* startImport *)

BeginImport(r, j, mode) ==
    /\ req[r].pc = "idle" /\ job[j].status = "none"
    /\ job' = [job EXCEPT ![j] = [status |-> "queued", file |-> TRUE, preview |-> << >>]]
    /\ req' = [req EXCEPT ![r] = [IdleReq EXCEPT
                 !.pc = IF mode = "inline" THEN "import.parse" ELSE "import.add", !.job = j]]
    /\ UNCHANGED <<book, entry, run, faults>>

\* parseWorkbook succeeds, or it throws, or the save of the preview does.
ImportParse(r) ==
    LET j == req[r].job IN
    /\ req[r].pc = "import.parse"
    /\ \/ \E l \in Lists : job' = [job EXCEPT ![j] = Previewed(@, l)]
       \/ job' = [job EXCEPT ![j] = Failed(@)]
    /\ Finish(r)
    /\ UNCHANGED <<book, entry, run, faults>>

\* enqueueCostCodeImport is answered, fails, or loses its answer.
ImportAdd(r) ==
    /\ req[r].pc = "import.add"
    /\ \E added, answered \in BOOLEAN :
         /\ answered => added
         /\ added /\ ~answered => "lost-reply" \in Liberties
         /\ entry' = IF added THEN [entry EXCEPT ![req[r].job].state = "waiting"] ELSE entry
         /\ IF answered THEN Finish(r) ELSE Goto(r, "import.refuse")
    /\ UNCHANGED <<book, job, run, faults>>

\* Variant: the job is left as it is.
ImportRefuseUnsaved(r) ==
    /\ req[r].pc = "import.refuse"
    /\ Finish(r)
    /\ UNCHANGED <<book, job, entry, run, faults>>

ImportRefuse(r) ==
    /\ req[r].pc = "import.refuse"
    /\ job' = [job EXCEPT ![req[r].job] = Failed(@)]
    /\ Finish(r)
    /\ UNCHANGED <<book, entry, run, faults>>

-----------------------------------------------------------------------------
(* The worker *)

Take(w, j) ==
    /\ run[w].pc = "idle" /\ entry[j].state = "waiting"
    /\ entry' = [entry EXCEPT ![j].state = "active", ![j].owner = w]
    /\ run' = [run EXCEPT ![w].pc = "load", ![w].job = j]
    /\ UNCHANGED <<book, job, req, faults>>

\* Variant: a job is processed whatever its status.
LoadAny(w) ==
    LET stored == job[run[w].job] IN
    /\ run[w].pc = "load"
    /\ run' = [run EXCEPT ![w].pc = "mark", ![w].loaded = stored,
                          ![w].doc = [stored EXCEPT !.status = "processing"]]
    /\ UNCHANGED <<book, job, entry, req, faults>>

\* A job already previewed or committed is not processed again.
Load(w) ==
    LET stored == job[run[w].job] IN
    /\ run[w].pc = "load"
    /\ run' = IF stored.status \in {"preview", "done"}
                THEN [run EXCEPT ![w].pc = "ack"]
                ELSE [run EXCEPT ![w].pc = "mark", ![w].loaded = stored,
                                 ![w].doc = [stored EXCEPT !.status = "processing"]]
    /\ UNCHANGED <<book, job, entry, req, faults>>

\* The three saves of a run, and what comes after each.
AfterSave == [mark |-> "read", save |-> "ack", fail |-> "nack"]

Save(w) ==
    LET r == run[w] IN
    /\ r.pc \in DOMAIN AfterSave
    /\ job' = [job EXCEPT ![r.job] = Saved(@, r.loaded, r.doc)]
    /\ run' = [run EXCEPT ![w].pc = AfterSave[r.pc], ![w].loaded = r.doc]
    /\ UNCHANGED <<book, entry, req, faults>>

\* The workbook is read and codes extracted; without the file, or if the AI
\* service fails or finds none, the job fails.
Read(w) ==
    /\ run[w].pc = "read"
    /\ \/ /\ run[w].doc.file
          /\ \E l \in Lists :
               run' = [run EXCEPT ![w].pc = "save", ![w].doc = Previewed(@, l)]
       \/ run' = [run EXCEPT ![w].pc = "fail", ![w].doc = Failed(@)]
    /\ UNCHANGED <<book, job, entry, req, faults>>

\* A save that throws: in the try block it is caught and the job fails,
\* outside of it the attempt does.
SaveError(w) ==
    /\ run[w].pc \in DOMAIN AfterSave
    /\ Fault("write")
    /\ run' = IF run[w].pc = "save"
                THEN [run EXCEPT ![w].pc = "fail", ![w].doc = Failed(@)]
                ELSE [run EXCEPT ![w].pc = "nack"]
    /\ UNCHANGED <<book, job, entry, req>>

\* BullMQ hears of the end of a run only from the one that holds the lock.
Settle(w, e) ==
    LET j == run[w].job IN
    /\ entry' = IF entry[j].owner = w THEN [entry EXCEPT ![j] = e] ELSE entry
    /\ run' = [run EXCEPT ![w] = IdleRun]
    /\ UNCHANGED <<book, job, req, faults>>

Ack(w) ==
    /\ run[w].pc = "ack"
    /\ Settle(w, Over)

Nack(w) ==
    LET e == entry[run[w].job] IN
    /\ run[w].pc = "nack"
    /\ Settle(w, IF e.attempts + 1 < Attempts
                   THEN [e EXCEPT !.state = "waiting", !.owner = NoJob, !.attempts = @ + 1]
                   ELSE Over)

\* The worker dies, or blocks for so long that it loses the lock and runs on
\* beside the next one.
WorkerLost(w) ==
    LET j == run[w].job
        e == entry[j]
        again == [e EXCEPT !.state = "waiting", !.owner = NoJob, !.stalls = @ + 1]
    IN
    /\ run[w].pc # "idle" /\ e.owner = w
    /\ Fault("worker")
    /\ entry' = [entry EXCEPT ![j] = IF e.stalls + 1 <= MaxStalls THEN again ELSE Over]
    /\ \E blocked \in BOOLEAN :
         /\ blocked => "blocked" \in Liberties
         /\ run' = IF blocked THEN run ELSE [run EXCEPT ![w] = IdleRun]
    /\ UNCHANGED <<book, job, req>>

-----------------------------------------------------------------------------
(* commitImport and seedPack *)

\* The list is dto.codes, or the preview.
BeginCommit(r, j, l) ==
    /\ req[r].pc = "idle" /\ MayReplace
    /\ job[j].status = "preview"
    /\ req' = [req EXCEPT ![r] = [IdleReq EXCEPT !.pc = "commit.delete", !.job = j, !.list = l]]
    /\ UNCHANGED <<book, job, entry, run, faults>>

\* With replace: false existing codes refuse the seed; with none the codes
\* are inserted without deleting any.
BeginSeed(r, replace) ==
    /\ req[r].pc = "idle" /\ MayReplace
    /\ replace \/ \A c \in Codes : book[c] = Absent
    /\ req' = [req EXCEPT ![r] = [IdleReq EXCEPT
                 !.pc = IF replace THEN "seed.delete" ELSE "seed.insert", !.list = Pack]]
    /\ UNCHANGED <<book, job, entry, run, faults>>

DeleteMany(r) ==
    /\ req[r].pc \in {"commit.delete", "seed.delete"}
    /\ book' = [c \in Codes |-> Absent]
    /\ Goto(r, IF req[r].pc = "commit.delete" THEN "commit.insert" ELSE "seed.insert")
    /\ UNCHANGED <<job, entry, run, faults>>

\* Variant: duplicates are skipped.
InsertSkipping(r) ==
    LET q == req[r]
        c == q.list[q.at]
        commit == q.pc = "commit.insert"
    IN
    /\ q.pc \in {"commit.insert", "seed.insert"}
    /\ book' = [book EXCEPT ![c] = IF @ # Absent THEN @ ELSE IF commit THEN q.job ELSE Seeded]
    /\ IF q.at < Len(q.list)
         THEN req' = [req EXCEPT ![r].at = @ + 1]
         ELSE IF commit THEN Goto(r, "commit.save") ELSE Finish(r)
    /\ UNCHANGED <<job, entry, run, faults>>

\* insertMany, one document after another up to the first duplicate, which
\* ends the request.
Insert(r) ==
    LET q == req[r]
        c == q.list[q.at]
        commit == q.pc = "commit.insert"
    IN
    /\ q.pc \in {"commit.insert", "seed.insert"}
    /\ \/ /\ book[c] # Absent
          /\ Finish(r)
          /\ UNCHANGED book
       \/ /\ book[c] = Absent
          /\ book' = [book EXCEPT ![c] = IF commit THEN q.job ELSE Seeded]
          /\ IF q.at < Len(q.list)
               THEN req' = [req EXCEPT ![r].at = @ + 1]
               ELSE IF commit THEN Goto(r, "commit.save") ELSE Finish(r)
    /\ UNCHANGED <<job, entry, run, faults>>

CommitSave(r) ==
    /\ req[r].pc = "commit.save"
    /\ job' = [job EXCEPT ![req[r].job].status = "done"]
    /\ Finish(r)
    /\ UNCHANGED <<book, entry, run, faults>>

\* The server dies in the middle of a request - while it reads the workbook,
\* before the job is in the queue, between two writes of a replacement - or a
\* query fails that nothing catches, such as the save of a failure.
RequestLost(r) ==
    /\ req[r].pc # "idle"
    /\ Fault(IF Replacing(r) THEN "replace" ELSE "import")
    /\ Finish(r)
    /\ UNCHANGED <<book, job, entry, run>>

-----------------------------------------------------------------------------
Arrive(r) ==
    \/ \E j \in Jobs :
         \/ \E mode \in Modes : BeginImport(r, j, mode)
         \/ \E l \in Lists : BeginCommit(r, j, l)
    \/ \E replace \in BOOLEAN : BeginSeed(r, replace)

Step(r) ==
    \/ ImportParse(r) \/ ImportAdd(r) \/ ImportRefuse(r)
    \/ DeleteMany(r) \/ Insert(r) \/ CommitSave(r)

WorkerStep(w) ==
    \/ \E j \in Jobs : Take(w, j)
    \/ Load(w) \/ Save(w) \/ Read(w) \/ Ack(w) \/ Nack(w)

Edit ==
    \E c \in Codes : Create(c) \/ Upsert(c) \/ Remove(c) \/ \E d \in Codes : Rename(c, d)

Next ==
    \/ \E r \in Requests : Arrive(r) \/ Step(r) \/ RequestLost(r)
    \/ \E w \in Workers : WorkerStep(w) \/ SaveError(w) \/ WorkerLost(w)
    \/ Edit

Spec == Init /\ [][Next]_vars

\* The server goes on with a request it has begun, and a worker takes what
\* waits in the queue and finishes it.
FairSpec ==
    /\ Spec
    /\ \A r \in Requests : WF_vars(Step(r))
    /\ \A w \in Workers : WF_vars(WorkerStep(w))

-----------------------------------------------------------------------------
(* Properties *)

TypeOK ==
    /\ book \in [Codes -> Sources]
    /\ job \in [Jobs -> Job]
    /\ entry \in [Jobs -> Entry]
    /\ req \in [Requests -> Request]
    /\ run \in [Workers -> Run]
    /\ faults \in [FaultKinds -> 0 .. MaxFaults]

\* An import is committed once: whatever a worker does late or again, a job
\* that is done is never offered for commit again.
DoneIsFinal ==
    [][\A j \in Jobs : job[j].status = "done" => job'[j].status = "done"]_vars

\* A job is done only when its whole list is in the book, though others
\* create codes while it is inserted; a commit that failed half-way leaves
\* the job where it can be committed again.
DoneMeansImported ==
    [][\A r \in Requests :
         LET q == req[r] IN
         q.pc = "commit.save" /\ job'[q.job].status = "done" =>
             \A k \in DOMAIN q.list : book[q.list[k]] = q.job]_vars

\* Every import gets an answer, a preview or a failure, although the queue may
\* refuse its job, attempts fail and a worker is lost while it reads.  Three
\* things leave a job unread for ever, for nothing looks for such jobs: its
\* request is lost, a worker fails to save, or workers are lost once more than
\* the queue hands a stalled job out again.
ImportSettles ==
    \A j \in Jobs : job[j].status \in Unread ~>
        \/ job[j].status \notin Unread
        \/ faults.import > 0 \/ faults.write > 0 \/ faults.worker > MaxStalls
=============================================================================
