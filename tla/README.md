# Formal models of the MYTE estimating platform API

This directory specifies, model-checks and partly proves the behaviour of the
NestJS/MongoDB API in this repository (`src/`).  The modules follow the code:
every definition is mapped in `PROJECT.json` to the lines it stands for.

## 1. The system

Several API servers and one worker share a MongoDB replica set and a Redis.
Each HTTP request is a chain of awaited database calls; any other request may
run between two of them, on the same server or on another.  Transactions exist
in two places only (user creation and the acceptance of an invite).  What keeps
the rest consistent is unique indexes, the order of writes, and luck.

| Component | State it keeps | Operations that change it | Interacts with |
|---|---|---|---|
| Seats | numbered seats of an organization: status, holder, project, history; unique indexes `{orgId, seatNumber}` and sparse `{orgId, userId}` | seed, allocate, release, assign to / clear from project | called by users, invites, organizations, projects |
| Users | accounts: e-mail (unique), roles, archivedAt, legalHold, token hashes | create (transaction), archive, unarchive, update, roles, password and token updates | seats, auth, invites, compliance |
| Organizations | name, primaryDomain (unique), owner, datastore routing, archivedAt, legalHold | create, update, setOwner, updateDatastore, legal hold, archive, unarchive | seats, tenancy, auth |
| Tenant migrations | migration documents with per-collection progress | start/resume/dry run, finalize, abort | both databases, organizations |
| Tenant connections | per process: cached and pending connections by organization | lookup, connect, reset | every tenant-scoped service |
| Invites | pending/accepted/expired invites with token hash; TTL index | create, resend, accept (transaction) | users, seats, persons, e-mail |
| Waitlist | entries with verification codes, attempt counters, status, cohort; BullMQ queue | start, verify, resend, batch invite, activate | e-mail, Redis, auth |
| Auth and sessions | Redis sessions and a per-user index; domain claims with a TTL in Redis | register, login, logout, revoke all | users, organizations, waitlist |
| Projects and staffing | projects with seat assignments | create, update, archive; staffing writes seats one by one | seats, offices, cost codes |
| CRM records (persons, companies, locations, offices, taxonomy, graph edges) | documents with normalized keys and unique indexes | upserts, archive, links, imports | each other, compliance |
| Cost codes | codes and import jobs; BullMQ queue | preview, queue, process, commit, toggle, seed | worker, AI service |
| Estimates | estimates with line items, totals, revision and status | create, update, archive | projects |
| Compliance | legalHold, piiStripped, archivedAt of any entity | strip PII, set hold, batch archive | users, contacts, CRM, invites |
| Legal | documents by version, acceptances | create document, accept | guard on requests |
| Rate limiter | Redis counters with expiry | allow | auth, waitlist, bulk, inquiries |

The remaining parts (sending mail and SMS, templates, notifications, event log,
AI, ingestion, CRM context, rate limiter, development seed) write single
documents, call external services or only read; `PROJECT.json` lists each with
the reason it is left out.

### What is hard

* Two documents that belong together are written one after the other (account
  and seat, organization and migration, project and seats): a crash, a refused
  write or another request falls in between.
* A document is read, changed in memory and saved by `_id` later, over whatever
  it has become.
* Long operations run inside one HTTP request (the migration copy loop) and are
  repeated by whoever sees a timeout.
* Unique indexes are the only lock.  Two kinds of them mean something else than
  they seem to: `{orgId, userId}` is sparse but compound, and an index whose
  partial filter says `$ne` cannot be built at all.
* A session is in two places in Redis, its record and its user's list; every
  request that ends writes the record once more.
* Imports and migrations of data run row by row for minutes, remember what they
  have looked up, and are repeated after a crash.

### Properties that make the components correct

* Seats: no account with two seats, no seat lost to a closed account, a live
  account always seated, a history whose last grant is the holder's.
* Migrations: what is offered for cutover is complete; a resume skips nothing;
  the tenant cannot tell where its documents live; no document is lost.
* Sign-up: an organization has one founder, its owner is one of its accounts;
  an address has one invitation that it can accept.
* Waitlist: totals bound wrong tries and resends over any number of blocks; what
  is verified stays so; whoever is invited has been mailed, and whoever is verified
  is invited in the end.
* Access: sessions belong to the user whose list they are in and can all be
  revoked; a token works once; nobody passes the legal guard without having
  accepted the version it read.
* Staffing: a project's assignments and its staffing agree, a seat works for one
  project and has it in its history, an estimate's total is that of its items.
* CRM: one live record of a name, no key without a taxonomy, a person's location
  in the person's company, nothing changed under legal hold.
* Imports and migration of contacts: one person per contact, no shared keys, no
  second effect of a second run, nobody put into a place that was archived when
  the row was checked.

The code keeps some of these only in part; what is excepted is under "Known
divergences" below, and in the properties themselves.

## 2. The modules

### Seats and accounts

* `SeatStore` - the documents of the seats collection, its unique index, and
  what each SeatsService call writes.  No variables.
* `UserSeats` - requests as processes over it: seeding (`GET /seats`, the end of
  `organizations.create`), `users.create`, `archiveUser`, `unarchiveUser`, and the
  two calls of project staffing, `assignSeatToProject` and `clearSeatProject`
  (`link`, `clear`), which push and close entries of the same history; with
  organization holds, user holds, batch archiving and crashes around them.  One
  step per round trip to MongoDB: what a request has read is in its `seen`, and a
  save writes the fields it has changed over what the seat has become.  A
  transaction takes a snapshot of the vacant seats (`clean`), locks what it writes,
  and loses a seat another request has written since; the unique index is always
  checked against committed state.
* `SeatLicences` - the abstract promise: licences, holders, live accounts.
* `UserSeatsProofs` - theorems, also those for `Serial` operation.

An entry of a history is a grant (without a project) or a link.  `users` and
`seats` are the collections, `held` is `user.legalHold`, `org` holds the
organization's `archivedAt` and `legalHold`, `req[r]` is the stack frame of a
request.  Dates, roles and audit records are left out: nothing branches on them.
`batchArchive`, which loads and saves each record, is one step.

### Moving an organization between databases

* `DatastoreMigration` - `start` with its copy loop, resume and dry run,
  `finalize`, `abort`, and the tenant's own writes through `getModelForOrg`.
  `dbs` holds a version number per document and database, `org` the routing
  fields, `migs` the migration documents, `req[r]` an operator's request.  One
  collection stands for each kind: `contacts` (copied and routed), `users`
  (copied, always read from the shared database), `persons` (routed, not copied).
* `TenantData` - the abstract promise: documents change when the tenant writes.
* `MigrationProofs` - theorems about this migration and the one of contacts.

The code does not coordinate operator and tenant, so `Liberties` names what is
left to the operator's care.  The empty set is the careful operator: the tenant
does not write while a migration is open; a start is repeated only once the
first has opened its migration, never as a dry run, and never towards another
target; finalize and abort wait for running starts; only open migrations that
are not cut over are aborted; no move to a dedicated database from one, and no
start while a migration the other way is open.  `"crash"` lets the server die in
starts and finalizes, `"abort-crash"` in aborts, `"both"` admits a start beside
an open migration the other way, `"retarget"` a resume that names another
`targetUri`.  Left out: the organization's legal hold and archive guards (a
refused request does not arrive), `dto.targetUri` of a move back, the 30-second
throttle (a refusal that may or may not come).

### Importing cost codes

* `CostCodeImport` - the import jobs of an organization and its codes.
  `startImport` reads the workbook inline or queues it; the worker of
  `cost-code-import.queue.ts` takes the entry, loads the job, reads, saves,
  acknowledges; BullMQ retries a failed attempt and hands out a stalled entry
  again; `commitImport` and `seedPack` delete all codes and insert the new ones,
  one write after the other, while codes are created, upserted, renamed and
  removed.  `book` holds who gave each code its text, `job` the job documents,
  `entry` the queue's entries, `req` and `run` the stack frames of requests and
  workers.  A job's rows are a member of `Lists`: a sequence of codes, duplicates
  included.
* `ImportProofs` - theorems about these imports and those of the directory.

BullMQ and Mongoose are not part of `src/`; what they do (attempts, stalls,
saving the changed paths) is modelled from the options this code passes and
marked external in the map.  `Liberties` again names what the code leaves to
luck and the passing run excludes: overlapping replacements (`"overlap"`), edits
while one is under way (`"edit"`), a worker that runs on after losing its lock
(`"blocked"`), an enqueue whose answer is lost (`"lost-reply"`).  With either of
the first two TLC breaks `DoneMeansImported`.

### Signing up

* `Signup` - `AuthService.register` step by step (a claim of the domain in
  Redis, the organization, the account with its seat, the owner, the release of
  the claim), `organizations.create`, `update`, `setOwner`, archiving and holds,
  `users.create`, and invites with their renewal, resending, expiry and
  acceptance.  `orgs`, `users` and `invites` are the collections, `claims` the
  keys in Redis (they expire at any time), `req` and `admin` the stack frames.
  The transaction of an account and its seat is one step here; `UserSeats` opens
  it.  Acceptance ends in `AcceptSave`, where the schema refuses the document
  and the transaction is rolled back.
* `SignupProofs` - theorems.

### The waiting list

* `Waitlist` - `start`, verification and resending over both channels with the
  codes and tries in Redis and the totals in MongoDB, the scheduler's batches
  (`BatchRead`, `Round`, `Send`, `Invite`), approval and activation, and the
  e-mail verification of contact inquiries that a submission trusts.  `entry` is
  the collection, `code` the keys, `line` the order of creation, `batch` each
  scheduler's progress.  Rate limiters, the cooldown and the invite window only
  refuse or delay.
* `WaitlistProofs` - theorems.

### Sessions, tokens and legal documents

* `AccountAccess` - login, registration, logout, `revokeSession`, `revokeAll`,
  with the session middleware around every request: `store` is what
  express-session keeps, `sets` the list of each user.  Verification and reset of
  passwords (`findBy...` and the write after it are two steps), the changes of
  `UsersService.update` meanwhile, publication of documents, their seeding as an
  instance starts, acceptance, and `LegalGuard` with its two reads.  One document
  stands for both types.  Redis may fail as a session is listed or as sessions
  are deleted (`EnlistFails`, `MultiFails`), and the query for the document in
  front of the guard.  `spent` and `loose` are history variables.
* `AccountAccessProofs` - theorems.

### Projects, seats and estimates

* `Staffing` - `projects.create` and `update` with `syncStaffingAssignments` seat
  by seat, `assignSeatToProject`, `clearSeatProject`, `releaseSeatForUser`,
  archiving and holds, and estimates: their line items and total, which an update
  writes only where they are not what it has read, and `stripPii` empties.
  `seat[s].open` is the part of the seat's history that has not been removed.  A
  person stands for the account it is linked to.  A save writes `removedAt` of
  single assignments, pushes the new ones and writes the whole staffing; updates of
  staffing that overlap are a liberty (`"overlap"`) the run does not take.
* `StaffingProofs` - theorems.

### The directory

* `Crm` - companies, locations, offices, people and edges: each write is a load
  with its checks, `ensureKeysActive`, and a save of the changed fields, with
  other requests between; `OrgTaxonomyService.put` with the version check of its
  array; legal hold, `stripPii` (of people, companies, locations and offices) and
  `batchArchive` from `ComplianceService`.
  `Indexed` are the kinds whose unique index MongoDB builds.  Requests for one
  record do not overlap (`"same"`).
* `CrmProofs` - theorems.
* `ContactMigration` - `scripts/migrate_contacts_to_crm.ts` contact by contact,
  in its four passes, dry or not, killed anywhere, and
  `repair_invite_person_links.ts`, with edits between the runs.  `contact` is the
  legacy collection, `person`, `named` (companies) and `invite` what the script
  writes, `run` its memory; `settled` says that a real run has been completed and
  nothing edited since.
* `DirectoryImport` - people from files (preview, then confirm, in both formats)
  with the companies, locations and offices their rows name; companies with
  locations; offices in bulk.  `file` is the request's memory: the row, its
  places, the keys already resolved.  A look-up, or the checks of a person, and the
  write that follows are two steps: `plan` is what was decided on, with the
  document as it was found and, in `since`, what others have written after that.
  Others create, rename, archive and hold places and people between any two steps;
  a compliance officer brings archived places back without a look-up.  `loose` is a
  history variable: the places written on a look-up that no longer held.

The theorems of the last two are in `MigrationProofs` and `ImportProofs`, each of
which is about two modules that have no variable in common; that is why their
specifications have names of their own (`ScriptSpec`, `DirectorySpec`).

The three models are separate because they look at different grains: `Crm` at
writers that overlap inside one save, the other two at long jobs whose single
writes it has already covered.

## 3. The runs

| Run | Instance | What it shows |
|---|---|---|
| `user_seats_serial` | 3 accounts, 2 seats, 2 projects, 2 requests, histories up to 4 entries together, one request per account at a time, crashes | `TypeOK`, `LiveUserKeepsSeat`, `HistoryMatchesSeat`, `HistoryIsAppendOnly`, and the refinement `ImplementsLicences` |
| `user_seats_overlap` | 2 accounts, 2 seats, 1 project, 2 requests that may concern one account, histories up to 2, crashes, holds, batch archiving | `UniqueHolder`, `SeatHeldByAccount` survive stale saves |
| `datastore_migration` | 2 documents, chunks of 1, 2 versions, 2 migrations, 2 requests, crashes, migrations open both ways | `ReadyMeansCopied`, `ProgressIsCopied`, and the refinement `ImplementsTenantData` |
| `datastore_migration_abort` | an abort that dies | violation: `NoDocumentLost` |
| `cost_code_import` | 2 jobs (inline or queued), 2 codes, 1 commit or seed at a time, 1 worker, 2 faults, edits at any other time, fair steps | `DoneIsFinal`, `DoneMeansImported`, `ImportSettles` |
| `signup` | 2 colleagues of one domain, 1 organization, 2 invites, 2 registrations and 1 administrator at a time; deaths, no seat | `OwnerBelongs`, `OneFounder`, `OneInvitation` |
| `waitlist` | 1 address, 2 phones, 1 request beside 1 scheduler, limits of 1 and 2; deaths of both | `TotalsBounded`, `VerificationKept`, `InvitedWasMailed`, `VerifiedGetsInvited` |
| `account_access` | 2 users, 3 sessions, 2 tokens, 2 versions, 2 dates, 2 requests | `SessionsOwned`, `SessionsRevocable`, `SpentTokensStayDead`, `AcceptedBeforeUse` |
| `staffing` | 2 projects, 2 people, 1 seat, 1 estimate, 2 requests; deaths and closed accounts | `StaffingMatchesAssignments`, `ProjectOnRecord`, `NoTheft`, `TotalOfItems` |
| `crm` | any 3 records of 5 kinds, 1 name, 1 key, 2 requests, compliance both ways | `OneOfAName`, `KeysKept`, `LocationOfCompany`, `HoldFreezes` |
| `contact_migration` | 2 contacts of any of 6 profiles, 3 people, 2 runs, 2 edits | `OneLivePersonPerContact`, `KeysApart`, `NothingLeftOut`, `SecondRunIsQuiet` |
| `directory_import` | up to 2 files of up to 2 rows of 4 kinds, 2 companies, 3 files and edits in all | `OneOfAnExternalId`, `NameGoesToOneCompany`, `IntoLivePlaces`, `ImportsRespectHolds` |

Every property of a passing run has a mutant in `PROJECT.json`: a definition
changed the way a plausible mistake would change it, which breaks the property
under the same configuration.

The bounds.

* Seats: two seats and three accounts are enough for a full house, a refused
  allocation and a seat that changes hands; the index admits one vacant seat at a
  time, so more seats add only more full ones.  Four entries are a grant, links to
  two projects and the next holder's grant, in one seat or over two.
* Migration: two documents with chunks of one give a chunk boundary, a resume in
  the middle and a document behind `lastId`; two migrations give a move and the
  move back, or an abort and a fresh start.
* Cost codes: two jobs give a list that replaces another's codes, two codes a
  list with a duplicate; `MaxFaults` bounds lost requests, failed saves and lost
  workers together: two is a worker lost once more than the queue forgives.
* Sign-up: two colleagues are the smallest race for a domain; with one
  organization id the second founder can only get the first one's.
* Waitlist: limits of one and two let every limit be reached, reset and reached
  again; a second phone lets a verified one be replaced.  `MaxTotalAttempts` is
  twice `MaxAttempts`, so that a block falls between two tries.
* Access: three sessions are one to lose, one revoked under a request that has it
  loaded, and one drawn anew.  `Focus` in `MCAccountAccess` lets sessions, tokens
  and documents take turns, since no action reads two of them but the guard.
  A Redis that fails needs no bound, a failure ends its request.
* Staffing: two projects and one seat make every assignment a conflict.  `Focus`
  in `MCStaffing` keeps estimates and staffing apart (they meet only in the
  project's status) and admits one hold at a time with no request beside it (a
  request looks at holds as it begins); `MaxOpen` and `MaxVersion` bound the
  open history and the replacements of line items, `Amounts` what these come to.
* CRM: three records are a person, its company and the location that is archived
  or moved from under it, or two rivals for a name and an edge; `Focus` in
  `MCCrm` admits one hold at a time and puts taxonomies while few records exist.
* Contacts: two contacts that share a key, report to each other in either order,
  or name one company; two runs are an attempt and its repetition.  `MaxEdits`
  bounds what others do.  `SecondRunIsQuiet` holds here for any data; with
  three contacts or more edits it also needs that the script's lookups find one
  person at most (section 4).
* Imports: two rows are the first that finds and the second that remembers; two
  files are an import and a later one over its result.  `MaxActs` admits two edits
  before or in the middle of one file, or one edit and two files.

Two requests suffice throughout because each pair of steps that conflicts
belongs to two requests.

Fairness.  `cost_code_import` assumes weak fairness of the next step of each
request and worker, which the event loop gives as long as the process lives and
the database answers, and that BullMQ hands out its entries.  Faults are allowed
for by name: `ImportSettles` admits that a job stays unread when the request of an
import was lost, a worker failed to save, or workers were lost more than
`MaxStalls` times; one lost worker, refused jobs, failed attempts and lost
replacements do not excuse it.  `waitlist` assumes weak fairness of a scheduler's next batch
(`setInterval` fires again whatever happened) and strong fairness of queueing a
mail and saving the invitation: a server may die at either, but not for ever
each time.  Nothing is assumed of requests that have not arrived, of the tenant
or of errors.  The other modules state no liveness: the code does not retry what
they describe.

Where a deadlock is not looked for (`CHECK_DEADLOCK FALSE`), the system may
really stop: every account exists, every run is used up, and nobody asks for
anything more.

### What the violation shows

*An abort that dies arms a data loss* (`migrations.service.ts:383`).  The target
is emptied before the status is saved; the migration still finalizes, and the
organization is pointed at an empty database.

### Known divergences

These were met while modelling, are part of the models, and are not checked by a
run of their own.

* Seeding stops at one vacant seat (`seat.schema.ts:71`).  A sparse index on two
  keys holds every document that has either key, so all vacant seats share the
  key `(orgId, null)`.  `insertMany` creates one, the duplicate-key error of the
  others is swallowed.  Each later allocation makes room for one more.
* A release closes one entry of the history, the last open one of the holder
  (`seats.service.ts:119`).  Of a seat that is linked to a project it is the
  link's, and the grant stays open in the history of the vacant seat:
  `HistoryMatchesSeat` allows it where a link follows the grant at once.
* A link that ends another one writes the whole history as it was read, and
  neither a release nor an allocation moves the version that would refuse it
  (`seats.service.ts:171`).  If requests for one account overlap, the entry of the
  next holder may be lost.
* An archived account keeps its seat (`users.service.ts:299`).  The same index
  refuses a release while another seat is vacant, after the account has been
  saved as archived; the retry returns early, unarchiving is refused too.
* A move leaves collections behind (`migrations.service.ts:45`).  Persons,
  companies, cost codes and others are routed but never copied; the reverse holds
  for users, which are copied and never read there.
* A resume towards another target skips documents (`migrations.service.ts:269`):
  `targetUri` is replaced and `progress` kept (liberty `"retarget"`).
* An invite is never accepted (`invites.service.ts:237`).  `tokenHash` is set to
  null and saved, the schema requires it, and the transaction is rolled back.
  The test at `tests/invites.service.test.ts:507` uses a model without a schema.
* An import of cost codes may stay `queued` or `processing` for ever: a server that
  dies while it reads the workbook inline (`cost-codes.service.ts:471`), a failure
  that cannot be saved, or a second stall, after which BullMQ fails its entry and
  tells nobody.  Nothing looks for such jobs.
* A block of the waiting list that runs out, without a fresh code, blocks again
  at the next attempt: the totals that raised it are still there.
* Two live people may share an e-mail address.  The unique index on it has `$ne`
  in its partial filter, which MongoDB refuses; only the look-up before the save
  is left.  `OneOfAName` is therefore about the other kinds.
* The contact migration makes a second person of a contact whose person has been
  archived; bringing the first one back gives two live people of one contact.
* The import of companies does not look at legal holds, unlike
  `docs/security-hardening.md:25`; `ImportsRespectHolds` is about the others.
* A session revoked while a request has it loaded is saved again when the request
  ends, and no list names it any more.  So is one whose registration fails: the
  user is in `req.session` already when `registerSession` throws
  (`auth.controller.ts:66`), the login answers with an error, and express-session
  saves the session all the same.  `SessionsRevocable` is about the others; `loose`
  holds these two kinds.
* The legal guard lets everybody in while the query for the document fails
  (`legal.service.ts:96` takes any error for "no such document").
* `start` on the waiting list sends fresh codes each time somebody joins again
  (`waitlist.service.ts:523`), and counts them nowhere: `TotalsBounded` is about
  the tries and resends that are counted, and no total bounds the codes.
* Two updates of one project's staffing that overlap may leave a staffing without
  its assignments (`projects.service.ts:334`): each takes away the assignments it
  has read and does not want, and both write the list as a whole.
* The revision of an estimate tells no two lists of items apart
  (`estimates.service.ts:252`).  An update from no items to none bumps it with no
  check of the version, so that two may write the same number, and compliance
  empties a list and leaves it.  The model leaves revisions out.
* Two live places may share an external id.  Its index has `$ne` in its partial
  filter too; between a look-up and the write (`companies.service.ts:142`,
  `companies-import.service.ts:222`) somebody else may take the id, and
  `batchArchive` brings places back without looking (`compliance.service.ts:419`).
  `OneOfAnExternalId` says that nothing else leads there.
* A person may be put into a place that was archived between the checks of the
  person and its save (`persons.service.ts:241` and `:289`).
* The bulk update of offices looks at an office and then writes all of its fields
  (`bulk.service.ts:585`): a legal hold or an archive set in between is undone.
* A legal document with a date of effect in the future is in force at once, and
  who accepts an older version afterwards may be asked again for the current one.

## 4. The proofs

Each proof module extends the module it is about (`MigrationProofs` and
`ImportProofs` two unrelated ones) and nothing is assumed but the named
assumptions on the constants there and, where a theorem says so, its hypothesis.
The theorems hold for any sets of documents and requests and any value of the
bounds; what the `MC` modules add to make the instances small (one `Focus` at a
time, symmetry) is not in them.  There is one lemma per action, and one induction
for each inductive invariant.

| Theorem | Property | Holds |
|---|---|---|
| `HolderUnique`, `SeatsOfAccounts` | `UniqueHolder`, `SeatHeldByAccount` | always |
| `LiveUsersSeated`, `HistoriesMatch`, `RecordsLast`, `RequestsImplementLicences` | `LiveUserKeepsSeat`, `HistoryMatchesSeat`, `HistoryIsAppendOnly`, `ImplementsLicences` | `Serial` |
| `ReadyIsCopied`, `ResumeSkipsNothing`, `CutoverIsInvisible` | `ReadyMeansCopied`, `ProgressIsCopied`, `ImplementsTenantData` | `Careful` |
| `OwnersBelong`, `FoundersApart` | `OwnerBelongs`, `OneFounder` | always |
| `InvitationsApart` | `OneInvitation` | without `"stale"` |
| `MailedFirst` | `InvitedWasMailed` | always |
| `TotalsKept`, `VerifiedStays` | `TotalsBounded`, `VerificationKept` | without `"overlap"` |
| `OwnSessions`, `Revocable`, `SpentTokens`, `GuardedUse` | `SessionsOwned`, `SessionsRevocable`, `SpentTokensStayDead`, `AcceptedBeforeUse` | always |
| `OnTheRecord`, `TotalsInOrder` | `ProjectOnRecord`, `TotalOfItems` | always |
| `StaffingAssigned`, `SeatsNotTaken` | `StaffingMatchesAssignments`, `NoTheft` | without `"overlap"` |
| `NamesUnique`, `NoKeyForgotten` | `OneOfAName`, `KeysKept` | always |
| `PeoplePlaced`, `HeldStays` | `LocationOfCompany`, `HoldFreezes` | without `"same"` |
| `MarksAreOwn`, `RunsAreComplete` | `OneLivePersonPerContact`, `NothingLeftOut` | always |
| `KeysStayApart` | `KeysApart` | without `"overlap"` of the contact script |
| `SecondRunChangesNothing` | `SecondRunIsQuiet` | while lookups are `Unambiguous` |
| `OneExternalId`, `NameGoesToOne` | `OneOfAnExternalId`, `NameGoesToOneCompany` | always |
| `PeopleIntoLivePlaces`, `HoldsAreRespected` | `IntoLivePlaces`, `ImportsRespectHolds` | always |
| `DoneStaysDone` | `DoneIsFinal` | `Calm`: without `"lost-reply"` and `"blocked"` |
| `DoneIsImported` | `DoneMeansImported` | `Undivided`: without `"overlap"` and `"edit"` |

"Always" is for every value of `Liberties` and `Faults`.  The other hypotheses
are the values the runs have: what the code leaves to the callers (that requests
for one record, address or account take turns, that an operator is careful), and
without which the property is false.  With each hypothesis the proof says more
than the run: which of the code's promises stand on their own, and which lean on
requests that happen not to meet.

### Seats and accounts

`UserSeatsProofs`.  `TypeOK`, `UniqueHolder` and `SeatHeldByAccount` are not
inductive: a transaction commits on a decision taken earlier.  `IndInv` adds that
the seat a transaction is about to write is still vacant, locked and in no other
transaction's hands (`TransactionsDisjoint`), that vacant seats have no holder
(`SeatShape`), and what each program counter implies about its record
(`RequestOK`).

`Serial` is one request per account at a time and no batch archiving, the
assumption under which the code keeps accounts and seats in step.  `SerialInv`
says which account each phase of a request may find open or seated, and gives
`LiveUserKeepsSeat` and the refinement.  A seat is written in one of five ways,
seeded, granted, released, linked or cleared (`SeatWrites`), and three of them save
what was read before.  `HistoryInv` says of the history in hand that the one of the
seat has grown from it (`Grows`), and that for a release or a link the two are the
same but for links that were closed meanwhile (`Same`, `SeenOK`): only the
holder's own request pushes entries, but a clear names a seat and no account.  That
makes `HistoryMatchesSeat` and `HistoryIsAppendOnly` inductive.

### Moving an organization between databases

`MigrationProofs`, first part, assumes `Careful` (the operator above; starts and
finalizes may die at any step) and proves the properties for any databases,
documents, chunk sizes, requests and bounds.  The argument:

* at most one migration is open (`OneOpen`), because a start creates one only
  when it found none and nobody else is about to (`OpeningOK`);
* an open migration leads away from where the organization is, or the
  organization has already arrived (`MigrationOK`): so no copy writes the live
  database and none reads a database that changes;
* what a start has passed is in the target, in the collections behind it up to
  the end and in the current one up to `lastId`, the batch in its hands apart
  (`RunningOK`); a slower start that records an older `lastId` moves progress
  back, never ahead;
* no database has a newer version than the live one (`LiveIsNewest`), so when
  finalize moves the organization to a complete copy the two agree, document by
  document, and the tenant sees nothing.

`OthersKeep` is the frame: what a step of one request must leave alone for the
others' part of the invariant to survive.

### Importing cost codes

`ImportProofs`, second part.  `CodesInv` says what each stage of a request or a
worker holds, whatever goes wrong, and makes the types a theorem
(`CodesTypeCorrect`).

`DoneIsFinal` fails if a worker saves the job it loaded over one that has been
committed since.  `OneHand` excludes it: a job is with the request that imports
it, or with the worker that holds the lock of its entry, or with commits.  A job
without document has no entry (`Unstarted`), a queued one is offered once
(`ImportsHold`), commits are of jobs that were read (`CommitsHold`), a worker
that is under way owns the entry it was given (`RunsHold`), and the document in
its hands is that of a job nobody has committed (`DocsFit`).  An enqueue that
succeeded but whose answer is lost lets the request mark the job failed while a
worker has it, and a worker that lost its lock meets the next one: without
`Calm` there are two hands.

`DoneMeansImported` is about what a commit finds when it saves: `Put` says that
the part of the list it has inserted is in the book and is its own, `OneReplaces`
that no other commit or seed is deleting it meanwhile.  A code that a list names
twice fails as it is inserted again, and the job is not done.

### Signing up

`SignupProofs`.  What carries the owner is not the claim in Redis, which may run
out, but the insertion of the organization: only the request that made it is
`Founding` it, no two found the same one (`FoundingsApart`), and while one does
the organization has no founder yet (`RequestOK`).  That founders are seated in
organizations that exist (`FoundersSeated`) keeps a new one from having a founder
already; `OwnerBelongs` follows from the account that the request inserted in the
step before.

For `OneInvitation`, `InviteInv` speaks of the invites that are pending, due or
not (`OneStanding`): time alone must not make a second one acceptable.  `IssueOK`
says that an administrator about to write an invite knows of none other standing,
and `InvitersApart` that no two administrators of one organization have an invite
in hand.  The last is what excluding `"stale"` gives.

### The waiting list

`WaitlistProofs`.  `MailedFirst` needs to look into what requests and schedulers
have in hand, for `verify` and `start` write back the status they have loaded:
`MailInv` says a status that is `invited` or `activated` in a loaded entry was
mailed for, and that the round a scheduler is about to mark has been.

Without `"overlap"` an address has one request in flight.  `TurnInv` says its
loaded entry still is the entry (`Works`), but for a channel that was unblocked
since; that the totals are kept (`Within`); and that a channel which has used up
one is not verified, which is why a block never hits a verified channel.

### Sessions, tokens and legal documents

`AccountAccessProofs`.  A session id is claimed by its record in the store, by a
list, or by a request that has it loaded, and all claims are by one user
(`OneClaim`): a session saved after its revocation, or under a list that has lost
it, is the same user's.  `SessionsRevocable` needs that a request about to save a
session it loaded finds it listed or counts it as `loose` (`SavesListed`).

A token is in one account, in one place (`OnePlace`), was issued, and is not
spent; a request that has found an account by a token holds a token that was
(`TokenOK`).  That is what keeps a spent token dead through the find and the
write of a reset that races with an update or another reset.

`AcceptedBeforeUse` is a matter of the guard's reading order, for acceptances are
never taken back.

### Projects, seats and estimates

`StaffingProofs`.  Staffing and assignments are saved at once, but each save
removes and pushes what it found missing or superfluous: they agree because the
assignments it has read are those it writes over, as long as updates take turns
(`StaffInv`).  `TotalOfItems` needs no such thing: an update that replaces items
other than those it has read is refused by the version of the array, and one that
finds no items and leaves none writes neither items nor total.  `ProjectOnRecord` rests on
lemmas about the last entry of a history for a project (`LastExists`, an induction
over positions), since a clear closes the last and not all.  `SeatsNotTaken` needs
that between the check of a seat and its link nobody else links it, and that a
seat nobody holds is at work on nothing (`TurnInv`).

### The directory

`CrmProofs`.  `OneOfAName` holds against any interleaving because the index, not
the check, decides.  `KeysKept` needs that the keys of a record in hand are in the
taxonomy by the time it is saved (`RequestOK`), while puts archive and never
forget a key.  For `LocationOfCompany` and `HoldFreezes`, `ApartInv` says the
record in hand is the record as it is but for the fields about to be written
(`Fresh`), and that a location once there stays with its company.

`MigrationProofs`, second part.  `MarksAreOwn` rests on `MarksKnown`: of the
marks that live people have, those of the contacts still to come are in the run's
`known`, and while a person is being claimed or made nobody alive has the mark in
hand.
It looks ahead only, because `known` is read once and the run adds nobody to it:
the marks it makes are of contacts it has passed.  Edits cannot break it - they
create people without a mark, and unarchived ones are in `back`.
`RunsAreComplete` follows the third pass (`Reported`: every contact behind `at`
reports to someone if its manager became another person) and the fourth
(`Backfilled`), and holds under any edit, since none takes a manager or a person
from an invite.  `KeysStayApart` needs the run's lists to hold the keys of all
who are alive (`Listed`), which an addition during the run would break: what
`"overlap"` permits.

`SecondRunChangesNothing` compares two runs.  `Quiet` says what a completed run
leaves for the next: a contact's lookup finds one live person with a mark, or
nobody who is to live (`Housed`), and whoever has a manager to report to does.
`Current` says, of a run that no edit has met, that its view of the contacts and
its lists are what they would be if read now, and that the person it has linked
to a contact is the one whom another run would find (`LinkOK`).  When such a run
ends, `Quiet` holds; a run that begins in `Quiet` keeps it and writes nothing but
archived people, which it makes again for archived contacts.

It has the hypothesis `[]Unambiguous`: no two people of one user, no two live
people of one address or mark, no two contacts of one user.  It is a condition
on the data, true when the contacts come from accounts and people are not
duplicated by hand, and it is needed.  `findOne` has no sort in the script, and
the model picks any of those it may find; of two people of one user the second
run may find the one the first did not.  Of two contacts of one user the later
one takes over the person of the earlier, and a third that reports to either is
moved by a second run.  TLC shows both in instances larger than the run's: more
edits than the run has for the first, three contacts for the second.

`ImportProofs`, first part, is about any files and edits.  `PlanFits` says of a
pending write that what was found when it was decided on is still so, unless
somebody has written in between (`since`): the key is nowhere, the place found is
as it was, the places of a person are live, nothing is on hold.  Only edits get
between the two steps, for one file is read at a time, and every edit leaves its
mark.  `OneOfAnExternalId` and the two action properties follow, their exceptions
being exactly the writes that `PlanFits` says nothing about.
`NameGoesToOneCompany` needs the cache: it has one
place for a key, of the kind of the key (`CacheOK`), and every row that named its
company and nothing else went to what is remembered for that name (`WentOK`),
even if somebody has renamed or archived the company in between.  `FileOK` and
`StageOK` tie the row in hand to the decisions of the preview.

### Assumptions on the constants

They are in the module they are about and the runs evaluate them.  That
`None` is no document, address or key; that bounds are numbers; that people and
edges are not records of another kind (`CrmAssumption`: their collections are
others); that versions and dates are numbers, of which there is one
(`AccessAssumption`: the guard sorts by date); that `"dry"` is no person
(`MigrationAssumption`: a dry run links a placeholder string, never an id); that
companies, locations and offices are different documents (`ImportAssumption`).

### Only model-checked

* The liberty `"both"` of the migration: the run admits it, `Careful` does not.
* The type invariant of `Waitlist` and the contents of its line and batches: they
  come out of `SelectSeq`, about which the provers know nothing, and the bound on
  a batch is a cardinality of what it returns.
* `ImportSettles` and `VerifiedGetsInvited`: liveness.

The type invariants of the modules other than `UserSeats` are not among the
properties of the runs.  They were checked while the modules were written; all but
that of `Waitlist` are theorems.

Of the properties of the passing runs, `ImportSettles` and `VerifiedGetsInvited`
are the only ones without a theorem.

## 5. Not modelled

* Sessions without Redis: with no Redis configured `main.ts` keeps them in the
  memory of each server, where nothing can list or revoke them.
* The cache of connections in each process and its reset after a cutover.  Which
  database an organization is served by is a question of how long each process
  has lived; nothing in the code bounds it, and the migration's careful operator
  stands for a restart after a cutover.
* Rate limiters: one `INCR` with an expiry per window.  A refusal is a free
  choice wherever it can occur.
* Roles and the RBAC service: a table, a comparison with the caller's role, and
  one write.  A session keeps a copy of the roles until it is renewed; `me` and
  `set-org` change that copy only.
* Bulk import of users and projects, which calls the services modelled here row
  by row; exports and the parsing of files.
* Of the directory imports: two files at once; renaming offices; the queries of one
  look-up, and the checks of one person, as steps of their own.  What others have
  checked before they edit is not relied on (only the unique index refuses them),
  so that the gaps in their requests are covered.  The version that mongoose asks
  for when a list of e-mail addresses is replaced is taken to have changed if the
  address has.
* External ids in `Crm`: `OneOfAName` is about what an index keeps apart.  Doubled
  ones, through `batchArchive` or otherwise, are the subject of `DirectoryImport`.
* The pass of the people import over reporting lines, the tree of offices, labels
  and order of a taxonomy, budgets and quantities of projects and estimates,
  names of estimates: single-document fields that no other component reads to
  decide.
* `organizations.updateDatastore` by hand, which moves the routing without
  copying anything, and the legal-hold override of a migration.
* Sending mail and SMS, templates, notifications, the event log, the AI service,
  ingestion of pasted contacts, CRM context, statistics of the waiting list and
  the development seed: external services, text, reads, or one insert.
* The legacy contacts service: single-document writes of a collection that
  persons replace.  Its documents are the input of `ContactMigration`.
