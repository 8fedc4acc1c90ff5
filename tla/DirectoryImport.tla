-------------------------- MODULE DirectoryImport ---------------------------
(***************************************************************************)
(* Files read into the directory of an organization: people, with the      *)
(* companies, locations and offices their rows name, in the new and in the *)
(* old format; companies with their locations; and offices in bulk.        *)
(*                                                                         *)
(* A file of people is previewed, and confirmed later with what the        *)
(* preview proposed.  Rows are taken one after the other, in stages; in a  *)
(* stage a record is looked for, or the checks of a person are made, and   *)
(* then it is written, and others edit before either.  The queries of one  *)
(* look-up are one step, and so are the checks of one person.  What others *)
(* checked before they write is not relied on: only the unique index can   *)
(* refuse them.  A location is matched by external id and name as a        *)
(* company is, inside its company.  A person's ironworker number works as  *)
(* the e-mail address does; reporting lines, taxonomy keys and descriptive *)
(* columns are left out.                                                   *)
(***************************************************************************)
EXTENDS Naturals, Sequences, FiniteSets

CONSTANTS
    Companies, Locations, Offices, People,
    Names, Exts, Emails,
    None,
    Rows,          \* the rows there may be in a file
    MaxRows,       \* rows of a file (bound)
    MaxImports,    \* files (bound)
    MaxEdits,      \* what others do (bound)
    MaxActs        \* files and edits together (bound)

Kinds == {"company", "location", "office"}

PlacesOf(kind) == CASE kind = "company" -> Companies
                    [] kind = "location" -> Locations
                    [] kind = "office" -> Offices

Places == Companies \cup Locations \cup Offices

\* A key: an external id and a name, either of them optional.
Key == [ext: Exts \cup {None}, name: Names \cup {None}]

\* archive, hold: what those columns set, of an office.
Row == [email: Emails \cup {None}, company: Key, location: Key, office: Key,
        archive: BOOLEAN, hold: BOOLEAN]

\* Companies, locations and offices are collections of their own.
ASSUME ImportAssumption ==
    /\ Rows \subseteq Row
    /\ MaxRows \in Nat /\ MaxImports \in Nat /\ MaxEdits \in Nat /\ MaxActs \in Nat
    /\ None \notin Places \cup People \cup Names \cup Exts \cup Emails
    /\ \A k, l \in Kinds : k # l => PlacesOf(k) \cap PlacesOf(l) = {}

VARIABLES
    place,       \* companies, locations (of a company) and offices
    person,      \* people
    file,        \* the file in hand
    plan,        \* the write that is decided on and not made yet
    loose,       \* places written on what was no longer so
    imports,     \* files begun
    edits        \* edits made

directoryVars == <<place, person, file, plan, loose, imports, edits>>

-----------------------------------------------------------------------------
(* Documents *)

Statuses == {"none", "live", "archived"}

Place == [status: Statuses, hold: BOOLEAN, of: Companies \cup {None},
          ext: Exts \cup {None}, name: Names \cup {None}]

Person == [status: Statuses, hold: BOOLEAN, email: Emails \cup {None},
           company: Companies \cup {None}, location: Locations \cup {None},
           office: Offices \cup {None}]

Nowhere == [status |-> "none", hold |-> FALSE, of |-> None, ext |-> None, name |-> None]

Nobody == [status |-> "none", hold |-> FALSE, email |-> None, company |-> None,
           location |-> None, office |-> None]

Files == {"people", "legacy", "companies", "offices"}

\* do: what is done with each row; target: the person to update; at: the row in
\* hand; pc: its stage; got: its places; cache: keys already resolved; went: the
\* company each row so far was resolved to.
Idle == [pc |-> "idle", kind |-> "people", rows |-> <<>>, do |-> <<>>, target |-> <<>>, at |-> 1,
         got |-> [k \in Kinds |-> None], cache |-> {}, went |-> <<>>]

\* what: is a record made, or the one found (on) changed; seen: as it was found;
\* since: what others have written after that.
NoPlan == [what |-> "none", on |-> None, seen |-> Nowhere, since |-> {}]

Planned(what, on, seen) == [what |-> what, on |-> on, seen |-> seen, since |-> {}]

Outdated == plan.since \cap Places # {}

Cached == [kind: Kinds, of: Companies \cup {None}, by: {"ext", "name"}, key: Exts \cup Names,
           place: Places]

DirectoryTypeOK ==
    /\ place \in [Places -> Place]
    /\ person \in [People -> Person]
    /\ file.pc \in {"idle", "previewed", "person"} \cup Kinds
    /\ file.kind \in Files /\ Len(file.rows) <= MaxRows /\ file.at \in 1..MaxRows + 1
    /\ file.got \in [Kinds -> Places \cup {None}]
    /\ file.cache \subseteq Cached
    /\ plan.what \in {"none", "create", "update"} /\ plan.on \in Places \cup People \cup {None}
    /\ plan.seen \in Place \cup Person /\ plan.since \subseteq Places \cup People
    /\ loose \subseteq Places
    /\ imports \in 0..MaxImports /\ edits \in 0..MaxEdits

DirectoryInit ==
    /\ place = [p \in Places |-> Nowhere]
    /\ person = [p \in People |-> Nobody]
    /\ file = Idle /\ plan = NoPlan
    /\ loose = {}
    /\ imports = 0
    /\ edits = 0

LivePlace(p) == place[p].status = "live"

LivePerson(p) == person[p].status = "live"

-----------------------------------------------------------------------------
(* Writing a place *)

\* The unique index: one live place of a name.
NameFree(kind, p, of, name) ==
    \A q \in PlacesOf(kind) \ {p} : ~(LivePlace(q) /\ place[q].of = of /\ place[q].name = name)

Storable(kind, p, d) == d.status = "live" => NameFree(kind, p, d.of, d.name)

ExtFree(p, of, ext) ==
    ext = None \/ \A q \in Places \ {p} : ~(LivePlace(q) /\ place[q].of = of /\ place[q].ext = ext)

Stored(p, d, late) ==
    /\ place' = [place EXCEPT ![p] = d]
    /\ loose' = IF late THEN loose \cup {p} ELSE loose

Fresh(of, key) ==
    [Nowhere EXCEPT !.status = "live", !.of = of, !.ext = key.ext, !.name = key.name]

Unused(kind) == {p \in PlacesOf(kind) : place[p].status = "none"}

-----------------------------------------------------------------------------
(* Beginning *)

FilesOf == UNION {[1..n -> Rows] : n \in 1..MaxRows}

Begin ==
    /\ file.pc = "idle" /\ imports < MaxImports /\ imports + edits < MaxActs
    /\ imports' = imports + 1
    /\ UNCHANGED <<place, person, plan, loose, edits>>

\* Rows of one file that share an e-mail address are errors, all of them.
Duplicate(rows, i) ==
    rows[i].email # None /\ \E j \in DOMAIN rows \ {i} : rows[j].email = rows[i].email

Holders(e) == {p \in People : e # None /\ LivePerson(p) /\ person[p].email = e}

Suggested(rows, i) == IF Holders(rows[i].email) # {} THEN "update" ELSE "create"

\* Whom a row may be matched with.
Matches(e) == IF Holders(e) = {} THEN {None} ELSE Holders(e)

\* The rows that are errors will be skipped; the others do as the preview says.
PreviewPeople(rows, kind) ==
    LET bad(i) == kind = "people" /\ Duplicate(rows, i) IN
    /\ Begin
    /\ \E target \in [DOMAIN rows -> People \cup {None}] :
         /\ \A i \in DOMAIN rows : target[i] \in Matches(rows[i].email)
         /\ file' = [Idle EXCEPT
              !.pc = "previewed", !.kind = kind, !.rows = rows, !.target = target,
              !.do = [i \in DOMAIN rows |-> IF bad(i) THEN "skip" ELSE Suggested(rows, i)]]

\* Companies and offices are upserted: nothing of a preview is used.
Upload(rows, kind) ==
    /\ Begin
    /\ file' = [Idle EXCEPT !.pc = IF kind = "companies" THEN "company" ELSE "office",
                            !.kind = kind, !.rows = rows,
                            !.do = [i \in DOMAIN rows |-> "upsert"],
                            !.target = [i \in DOMAIN rows |-> None]]

Confirm ==
    /\ file.pc = "previewed"
    /\ file' = [file EXCEPT !.pc = "company"]
    /\ UNCHANGED <<place, person, plan, loose, imports, edits>>

Mine == file.rows[file.at]

\* On to the next row, or to the end and the audit entry.
RowDone(j) ==
    IF j.at = Len(j.rows) THEN Idle
    ELSE [j EXCEPT !.at = @ + 1, !.got = [k \in Kinds |-> None],
                   !.went = Append(@, j.got["company"]),
                   !.pc = IF j.kind = "offices" THEN "office" ELSE "company"]

Skip ==
    /\ file.pc = "company" /\ file.do[file.at] = "skip"
    /\ file' = RowDone(file)
    /\ UNCHANGED <<place, person, plan, loose, imports, edits>>

At(kind) == file.pc = kind /\ file.kind \in {"people", "legacy"} /\ file.do[file.at] # "skip"

-----------------------------------------------------------------------------
(* A row of people: its places *)

\* Rows of the old format name a company and nothing else.
Wanted(kind) ==
    IF file.kind = "legacy"
      THEN [ext |-> None, name |-> IF kind = "company" THEN Mine[kind].name ELSE None]
    ELSE IF kind = "office" THEN [Mine[kind] EXCEPT !.ext = None]
    ELSE Mine[kind]

Of(kind) == IF kind = "location" THEN file.got["company"] ELSE None

Wants(kind) ==
    /\ Wanted(kind) # [ext |-> None, name |-> None]
    /\ kind = "location" => file.got["company"] # None

Memo(kind, by, key, p) == [kind |-> kind, of |-> Of(kind), by |-> by, key |-> key, place |-> p]

\* What earlier rows of the file found for a key: its external id counts first.
Recalled(kind) ==
    LET key == Wanted(kind)
        byExt == {p \in Places : Memo(kind, "ext", key.ext, p) \in file.cache}
        byName == {p \in Places : Memo(kind, "name", key.name, p) \in file.cache}
    IN IF byExt # {} THEN byExt ELSE byName

\* Wrong: only external ids are remembered.
RememberedByExt(j, kind, p) ==
    LET key == Wanted(kind)
        new == {Memo(kind, by, key[by], p) : by \in {b \in {"ext"} : key[b] # None}}
    IN [j EXCEPT !.cache = {c \in @ : \A n \in new : [c EXCEPT !.place = p] # n} \cup new]

Remembered(j, kind, p) ==
    LET key == Wanted(kind)
        new == {Memo(kind, by, key[by], p) : by \in {b \in {"ext", "name"} : key[b] # None}}
    IN [j EXCEPT !.cache = {c \in @ : \A n \in new : [c EXCEPT !.place = p] # n} \cup new]

\* Wrong: the name counts first.
SoughtByName(kind, of, key) ==
    LET live == {p \in PlacesOf(kind) : LivePlace(p) /\ place[p].of = of}
        byExt == {p \in live : key.ext # None /\ place[p].ext = key.ext}
        byName == {p \in live : key.name # None /\ place[p].name = key.name}
    IN IF byName # {} THEN byName ELSE byExt

\* The live place with the external id, or else with the name.
Sought(kind, of, key) ==
    LET live == {p \in PlacesOf(kind) : LivePlace(p) /\ place[p].of = of}
        byExt == {p \in live : key.ext # None /\ place[p].ext = key.ext}
        byName == {p \in live : key.name # None /\ place[p].name = key.name}
    IN IF byExt # {} THEN byExt ELSE byName

After(kind) == CASE kind = "company" -> "location"
                 [] kind = "location" -> "office"
                 [] kind = "office" -> "person"

With(j, kind, p) == [j EXCEPT !.got[kind] = p, !.pc = After(kind)]

\* A key is looked up among the earlier rows, then in the database; what is
\* nowhere and has a name is to be created.
Resolve(kind) ==
    /\ At(kind) /\ plan = NoPlan
    /\ LET key == Wanted(kind)
           there == Sought(kind, Of(kind), key)
       IN \/ /\ ~Wants(kind)
             /\ file' = With(file, kind, None) /\ UNCHANGED plan
          \/ /\ Wants(kind)
             /\ \E p \in Recalled(kind) : file' = With(file, kind, p)
             /\ UNCHANGED plan
          \/ /\ Wants(kind) /\ Recalled(kind) = {}
             /\ \E p \in there : file' = With(Remembered(file, kind, p), kind, p)
             /\ UNCHANGED plan
          \/ /\ Wants(kind) /\ Recalled(kind) = {} /\ there = {}
             /\ IF key.name = None
                THEN file' = With(file, kind, None) /\ UNCHANGED plan
                ELSE plan' = Planned("create", None, Nowhere) /\ UNCHANGED file
    /\ UNCHANGED <<place, person, loose, imports, edits>>

\* When the index refuses a place the row is an error; in the old format that
\* ends the import.
Make(kind) ==
    /\ At(kind) /\ plan # NoPlan
    /\ LET d == Fresh(Of(kind), Wanted(kind)) IN
       \/ /\ Storable(kind, None, d)
          /\ \E p \in Unused(kind) :
               /\ Stored(p, d, Outdated)
               /\ file' = With(Remembered(file, kind, p), kind, p)
       \/ /\ ~Storable(kind, None, d)
          /\ file' = IF file.kind = "legacy" THEN Idle ELSE RowDone(file)
          /\ UNCHANGED <<place, loose>>
    /\ plan' = NoPlan
    /\ UNCHANGED <<person, imports, edits>>

-----------------------------------------------------------------------------
(* A row of people: the person *)

EmailFree(p, e) == Holders(e) \subseteq {p}

\* Wrong: a company found once is taken to be there still.
PlacesLiveThen(c, l, o) ==
    /\ l # None => LivePlace(l) /\ place[l].of = c
    /\ o # None => LivePlace(o)

\* What persons.create and persons.update demand of the places of a person.
PlacesLive(c, l, o) ==
    /\ c # None => LivePlace(c)
    /\ l # None => LivePlace(l) /\ place[l].of = c
    /\ o # None => LivePlace(o)

Got(kind) == file.got[kind]

Target == file.target[file.at]

PlacesFit == PlacesLive(Got("company"), Got("location"), Got("office"))

MayCreate ==
    /\ file.do[file.at] = "create"
    /\ PlacesFit /\ EmailFree(None, Mine.email)

\* Wrong: a legal hold is not looked at.
MayUpdateHeld ==
    /\ file.do[file.at] = "update"
    /\ LivePerson(Target)
    /\ PlacesFit /\ EmailFree(Target, Mine.email)

MayUpdate ==
    /\ file.do[file.at] = "update"
    /\ LivePerson(Target) /\ ~person[Target].hold
    /\ PlacesFit /\ EmailFree(Target, Mine.email)

Created == [Nobody EXCEPT !.status = "live", !.email = Mine.email, !.company = Got("company"),
                          !.location = Got("location"), !.office = Got("office")]

Or(new, old) == IF new = None THEN old ELSE new

\* Columns that are empty leave the person as it is, but a company without a
\* location takes the old location away.
Updated(d) ==
    [d EXCEPT !.email = Or(Mine.email, @), !.company = Or(Got("company"), @),
              !.location = IF Got("company") # None THEN Got("location") ELSE @,
              !.office = Or(Got("office"), @)]

\* A save writes the fields it has changed.
SavedPerson(new, seen, now) ==
    LET put(f) == IF new[f] # seen[f] THEN new[f] ELSE now[f]
    IN [now EXCEPT !.email = put("email"), !.company = put("company"),
                   !.location = put("location"), !.office = put("office")]

\* A list that was set meanwhile has another version: e-mail addresses are one.
VersionConflict ==
    /\ Updated(plan.seen).email # plan.seen.email
    /\ person[plan.on].email # plan.seen.email

\* A person that cannot be written is an error of its row; the places stay.
PersonCheck ==
    /\ file.pc = "person" /\ plan = NoPlan
    /\ \/ /\ MayCreate
          /\ plan' = Planned("create", None, Nobody) /\ UNCHANGED file
       \/ /\ MayUpdate
          /\ plan' = Planned("update", Target, person[Target]) /\ UNCHANGED file
       \/ /\ ~MayCreate /\ ~MayUpdate
          /\ file' = RowDone(file) /\ UNCHANGED plan
    /\ UNCHANGED <<place, person, loose, imports, edits>>

PersonSave ==
    /\ file.pc = "person" /\ plan # NoPlan
    /\ \/ /\ plan.what = "create"
          /\ \E p \in People :
               /\ person[p].status = "none"
               /\ person' = [person EXCEPT ![p] = Created]
       \/ /\ plan.what = "update" /\ ~VersionConflict
          /\ person' = [person EXCEPT ![plan.on] = SavedPerson(Updated(plan.seen), plan.seen, @)]
       \/ /\ plan.what = "update" /\ VersionConflict
          /\ UNCHANGED person
    /\ file' = RowDone(file) /\ plan' = NoPlan
    /\ UNCHANGED <<place, loose, imports, edits>>

-----------------------------------------------------------------------------
(* A row of companies *)

\* The row's external id is written even when there is none, and nobody asks
\* whether the place is held.
Overwritten(d, key) == [d EXCEPT !.ext = key.ext, !.name = Or(key.name, @)]

SavedPlace(new, seen, now) ==
    LET put(f) == IF new[f] # seen[f] THEN new[f] ELSE now[f]
    IN [now EXCEPT !.ext = put("ext"), !.name = put("name")]

\* A row without a company name is an error, as is a new location without one.
UpsertSeek(kind) ==
    /\ file.pc = kind /\ file.kind = "companies" /\ plan = NoPlan
    /\ LET key == Mine[kind]
           there == Sought(kind, Of(kind), key)
       IN \/ /\ key.name = None /\ (kind = "company" \/ there = {})
             /\ file' = RowDone(file) /\ UNCHANGED plan
          \/ /\ key.name # None \/ kind = "location"
             /\ \E p \in there : plan' = Planned("update", p, place[p])
             /\ UNCHANGED file
          \/ /\ key.name # None /\ there = {}
             /\ plan' = Planned("create", None, Nowhere) /\ UNCHANGED file
    /\ UNCHANGED <<place, person, loose, imports, edits>>

\* So is one the index refuses; what came before it in the row stays.
UpsertWrite(kind) ==
    /\ file.pc = kind /\ file.kind = "companies" /\ plan # NoPlan
    /\ LET key == Mine[kind]
           new == Fresh(Of(kind), key)
           old == SavedPlace(Overwritten(plan.seen, key), plan.seen, place[plan.on])
           done(p) == IF kind = "company" THEN With(file, kind, p) ELSE RowDone(file)
       IN \/ /\ plan.what = "create" /\ Storable(kind, None, new)
             /\ \E p \in Unused(kind) : Stored(p, new, Outdated) /\ file' = done(p)
          \/ /\ plan.what = "update" /\ Storable(kind, plan.on, old)
             /\ Stored(plan.on, old, Outdated) /\ file' = done(plan.on)
          \/ /\ IF plan.what = "create" THEN ~Storable(kind, None, new)
                                         ELSE ~Storable(kind, plan.on, old)
             /\ file' = RowDone(file) /\ UNCHANGED <<place, loose>>
    /\ plan' = NoPlan
    /\ UNCHANGED <<person, imports, edits>>

-----------------------------------------------------------------------------
(* A row of offices *)

\* Offices are found by the name as it is spelled, archived ones too.
Namesakes == {p \in Offices : place[p].status # "none" /\ place[p].name = Mine.office.name}

\* The columns archive an office and hold it, and never bring one back.
Columns(d) == [d EXCEPT !.status = IF Mine.archive THEN "archived" ELSE @,
                        !.hold = @ \/ Mine.hold]

\* A name spelled in another way is not found.
BulkSeek ==
    /\ file.pc = "office" /\ file.kind = "offices" /\ plan = NoPlan
    /\ \/ /\ Mine.office.name = None \/ \E p \in Namesakes : place[p].hold
          /\ file' = RowDone(file) /\ UNCHANGED plan
       \/ /\ \E p \in Namesakes : ~place[p].hold /\ plan' = Planned("update", p, place[p])
          /\ UNCHANGED file
       \/ /\ Mine.office.name # None
          /\ plan' = Planned("create", None, Nowhere) /\ UNCHANGED file
    /\ UNCHANGED <<place, person, loose, imports, edits>>

\* All fields are written, those no column sets as they were found.  An office
\* the index refuses ends the import: the rows before it stay, and nothing is
\* recorded.
BulkWrite ==
    /\ file.pc = "office" /\ file.kind = "offices" /\ plan # NoPlan
    /\ LET new == Columns(Fresh(None, [Mine.office EXCEPT !.ext = None]))
           put == Columns(plan.seen)
           old == [place[plan.on] EXCEPT !.status = put.status, !.hold = put.hold]
       IN \/ /\ plan.what = "create" /\ Storable("office", None, new)
             /\ \E p \in Unused("office") : Stored(p, new, FALSE)
             /\ file' = RowDone(file)
          \/ /\ plan.what = "update" /\ Storable("office", plan.on, old)
             /\ Stored(plan.on, old, FALSE) /\ file' = RowDone(file)
          \/ /\ IF plan.what = "create" THEN ~Storable("office", None, new)
                                         ELSE ~Storable("office", plan.on, old)
             /\ file' = Idle /\ UNCHANGED <<place, loose>>
    /\ plan' = NoPlan
    /\ UNCHANGED <<person, imports, edits>>

-----------------------------------------------------------------------------
(* What others do in the meantime *)

Edited(it) ==
    /\ edits < MaxEdits /\ imports + edits < MaxActs /\ edits' = edits + 1
    /\ plan' = IF plan = NoPlan THEN plan ELSE [plan EXCEPT !.since = @ \cup {it}]
    /\ UNCHANGED <<file, imports>>

\* Others looked for the external id before they write; a compliance officer who
\* brings records back does not.
Intrudes(p, d) ==
    /\ d.status = "live" /\ ~ExtFree(p, d.of, d.ext)
    /\ ~(LivePlace(p) /\ place[p].ext = d.ext)

PlaceEdit(kind, p, d) ==
    /\ Storable(kind, p, d) /\ Stored(p, d, Intrudes(p, d))
    /\ Edited(p) /\ UNCHANGED person

Made(p) == place[p].status # "none"

PlaceCreate(kind, p) ==
    /\ ~Made(p)
    /\ \E of \in IF kind = "location" THEN {c \in Companies : Made(c)} ELSE {None},
          ext \in IF kind = "office" THEN {None} ELSE Exts \cup {None}, name \in Names :
         PlaceEdit(kind, p, Fresh(of, [ext |-> ext, name |-> name]))

\* Of companies and locations.
PlaceUpdate(kind, p) ==
    /\ kind # "office" /\ Made(p)
    /\ \E ext \in Exts \cup {None}, name \in Names :
         PlaceEdit(kind, p, [place[p] EXCEPT !.ext = ext, !.name = name])

PlaceArchive(kind, p) ==
    LivePlace(p) /\ PlaceEdit(kind, p, [place[p] EXCEPT !.status = "archived"])

PlaceUnarchive(kind, p) ==
    place[p].status = "archived" /\ PlaceEdit(kind, p, [place[p] EXCEPT !.status = "live"])

PlaceHold(kind, p) ==
    Made(p) /\ PlaceEdit(kind, p, [place[p] EXCEPT !.hold = ~@])

PersonEdit(p) ==
    /\ person[p].status # "none"
    /\ \/ person' = [person EXCEPT ![p].status = "archived"]
       \/ \E e \in Emails : person' = [person EXCEPT ![p].email = e]
       \/ person' = [person EXCEPT ![p].hold = ~@]
    /\ Edited(p) /\ UNCHANGED <<place, loose>>

DirectoryNext ==
    \/ \E rows \in FilesOf :
         \/ \E kind \in {"people", "legacy"} : PreviewPeople(rows, kind)
         \/ \E kind \in {"companies", "offices"} : Upload(rows, kind)
    \/ Confirm \/ Skip
    \/ \E kind \in Kinds : Resolve(kind) \/ Make(kind)
    \/ PersonCheck \/ PersonSave
    \/ \E kind \in {"company", "location"} : UpsertSeek(kind) \/ UpsertWrite(kind)
    \/ BulkSeek \/ BulkWrite
    \/ \E kind \in Kinds : \E p \in PlacesOf(kind) :
         \/ PlaceCreate(kind, p) \/ PlaceUpdate(kind, p) \/ PlaceArchive(kind, p)
         \/ PlaceUnarchive(kind, p) \/ PlaceHold(kind, p)
    \/ \E p \in People : PersonEdit(p)

DirectorySpec == DirectoryInit /\ [][DirectoryNext]_directoryVars

-----------------------------------------------------------------------------
(* Properties *)

\* Importers look up external ids and names in turn, and write either of them.
\* No index keeps external ids apart: two live places of a company, or two live
\* companies, come to share one only where one of them was written, or brought
\* back, by somebody whose look-up was no longer true, or who made none.
OneOfAnExternalId ==
    \A p, q \in Places : p # q /\ LivePlace(p) /\ LivePlace(q) /\ place[p].of = place[q].of
        /\ place[p].ext # None /\ place[p].ext = place[q].ext => {p, q} \cap loose # {}

\* Rows of a file that name a company, and nothing else, are all of one company,
\* whoever archives, makes or renames companies while the file is read.
NameGoesToOneCompany ==
    LET went == file.went \o (IF file.pc \in {"location", "office", "person"}
                                THEN <<file.got["company"]>> ELSE <<>>)
        named(i) == [ext |-> None, name |-> file.rows[i].company.name]
    IN file.kind \in {"people", "legacy"} =>
         \A i, j \in DOMAIN went :
           /\ file.kind = "legacy" \/ {file.rows[i].company, file.rows[j].company} \subseteq {named(i)}
           /\ named(i) = named(j) /\ None \notin {went[i], went[j]}
           => went[i] = went[j]

\* Companies, locations and offices are remembered from earlier rows; nobody is
\* put into one that is archived, unless it was written after the row's checks.
IntoLivePlaces ==
    [][\A p \in People :
         \A k \in {person'[p].company, person'[p].location, person'[p].office} :
           \/ k \in {None, person[p].company, person[p].location, person[p].office}
           \/ LivePlace(k) \/ k \in plan.since]_directoryVars

\* Imports of people and of offices leave what is on legal hold as it is, unless
\* it was written (and so perhaps held) after they looked at it.
ImportsRespectHolds ==
    [][edits' = edits /\ file.kind # "companies" =>
         /\ \A p \in Places \ plan.since : place[p].hold => place'[p] = place[p]
         /\ \A p \in People \ plan.since : person[p].hold => person'[p] = person[p]]_directoryVars
=============================================================================
