---------------------------- MODULE ImportProofs ----------------------------
(***************************************************************************)
(* Theorems about what is imported into an organization: files read into   *)
(* its directory of people, companies and offices (DirectoryImport), and   *)
(* the jobs that replace its cost codes (CostCodeImport).  The two have no *)
(* state in common; each part begins with its own inductive invariant.     *)
(*                                                                         *)
(* The first part is about any rows, files and edits.  In the second the   *)
(* types hold whatever happens; that a job that is done stays done needs   *)
(* the queue to answer and a worker that lost its lock to be dead, and     *)
(* that a commit is complete needs one replacement of the codes at a time, *)
(* as the model's Liberties say.                                           *)
(***************************************************************************)
EXTENDS DirectoryImport, CostCodeImport, TLAPS

-----------------------------------------------------------------------------
(* The directory: the inductive invariant                                     *)

Stages == {"idle", "previewed", "person"} \cup Kinds
Doings == {"skip", "create", "update", "upsert"}

FileDoc == [pc: Stages, kind: Files, rows: Seq(Row), do: Seq(Doings), target: Seq(People \cup {None}),
           at: Nat, got: [Kinds -> Places \cup {None}], cache: SUBSET Cached,
           went: Seq(Companies \cup {None})]

\* A file in hand: every row has its decision, and rows before the one in hand
\* are recorded.
FileOK(j) ==
    /\ j.rows \in FilesOf /\ j.at \in 1..Len(j.rows)
    /\ DOMAIN j.do = DOMAIN j.rows /\ DOMAIN j.target = DOMAIN j.rows
    /\ \A i \in DOMAIN j.rows :
         /\ j.do[i] = "update" => j.target[i] \in People
         /\ j.kind \in {"companies", "offices"} => j.do[i] = "upsert"
    /\ Len(j.went) = j.at - 1

\* The stages a file of each kind goes through.
StageOK(j) ==
    /\ j.pc \in {"previewed", "person"} => j.kind \in {"people", "legacy"}
    /\ j.kind = "offices" => j.pc = "office"
    /\ j.kind = "companies" => j.pc \in {"company", "location"}
    /\ j.kind = "companies" /\ j.pc = "location" => j.got["company"] # None

GotOK(j) == \A k \in Kinds : j.got[k] \in PlacesOf(k) \cup {None}

\* What is remembered for a key is one place of its kind.
CacheOK(j) ==
    /\ \A c \in j.cache : c.key # None /\ c.place \in PlacesOf(c.kind)
    /\ \A c, d \in j.cache :
         c.kind = d.kind /\ c.of = d.of /\ c.by = d.by /\ c.key = d.key => c.place = d.place

\* A row that names a company and nothing else went to what is remembered.
NamedOnly(j, i) == j.kind = "legacy" \/ j.rows[i].company.ext = None

GoesTo(j, i, w) ==
    w # None /\ NamedOnly(j, i) =>
      [kind |-> "company", of |-> None, by |-> "name", key |-> j.rows[i].company.name, place |-> w]
        \in j.cache

WentOK(j) ==
    j.kind \in {"people", "legacy"} =>
      /\ \A i \in DOMAIN j.went : GoesTo(j, i, j.went[i])
      /\ GoesTo(j, j.at, j.got["company"])

FileInv ==
    /\ file \in FileDoc
    /\ file.pc = "idle" => file = Idle
    /\ file.pc # "idle" => FileOK(file) /\ StageOK(file) /\ GotOK(file) /\ CacheOK(file) /\ WentOK(file)

\* A document of its kind: locations are of a company, offices have no external id.
Shaped(p, d) ==
    /\ d.status = "none" => d = Nowhere
    /\ p \in Locations /\ d.status # "none" => d.of \in Companies
    /\ p \in Companies \cup Offices => d.of = None
    /\ p \in Offices => d.ext = None

PlaceInv ==
    /\ place \in [Places -> Place] /\ loose \subseteq Places
    /\ \A p \in Places : Shaped(p, place[p])
    /\ OneOfAnExternalId

PersonInv ==
    /\ person \in [People -> Person]
    /\ \A p \in People : person[p].status = "none" => person[p] = Nobody

CountInv == imports \in 0..MaxImports /\ edits \in 0..MaxEdits

PlanDoc == [what: {"none", "create", "update"}, on: Places \cup People \cup {None},
            seen: Place \cup Person, since: SUBSET (Places \cup People)]

\* Where a place of this kind and parent is looked for.
Sensible(kind, of, key) ==
    /\ kind \in Kinds /\ key \in Key
    /\ IF kind = "location" THEN of \in Companies ELSE of = None
    /\ kind = "office" => key.ext = None

\* What was found when a write was decided on is so until somebody writes.  A place
\* a row of people names was nowhere;
MakeFits(q, kind) ==
    /\ q.what = "create" /\ At(kind) /\ Wants(kind) /\ Recalled(kind) = {}
    /\ Wanted(kind).name # None
    /\ q.since \cap Places # {} \/ Sought(kind, Of(kind), Wanted(kind)) = {}

\* a row of companies found what it changes, or nothing;
UpsertFits(q, kind) ==
    /\ file.kind = "companies" /\ file.pc = kind /\ Sensible(kind, Of(kind), Mine[kind])
    /\ q.what = "create" =>
         /\ q.since \cap Places # {} \/ Sought(kind, Of(kind), Mine[kind]) = {}
         /\ Mine[kind].name # None
    /\ q.what = "update" =>
         /\ q.on \in PlacesOf(kind) /\ place[q.on].status # "none" /\ place[q.on].of = Of(kind)
         /\ q.seen \in Place
         /\ \/ q.since \cap Places # {}
            \/ q.on \in Sought(kind, Of(kind), Mine[kind]) /\ place[q.on] = q.seen

\* an office was not on hold;
BulkFits(q) ==
    /\ file.kind = "offices" /\ file.pc = "office"
    /\ q.what = "update" =>
         /\ q.on \in Offices /\ place[q.on].status # "none"
         /\ q.seen \in Place /\ q.seen.status # "none" /\ ~q.seen.hold
         /\ q.on \in q.since \/ place[q.on] = q.seen

\* nor was a person, and the places it is put into were live.
PersonFits(q) ==
    /\ file.pc = "person"
    /\ \A k \in Kinds : Got(k) = None \/ LivePlace(Got(k)) \/ Got(k) \in q.since
    /\ q.what = "update" =>
         /\ q.on \in People /\ person[q.on].status # "none"
         /\ q.seen \in Person /\ ~q.seen.hold
         /\ q.on \in q.since \/ person[q.on] = q.seen

PlanFits(q) ==
    /\ q.what # "none"
    /\ \/ \E kind \in Kinds : MakeFits(q, kind)
       \/ \E kind \in {"company", "location"} : UpsertFits(q, kind)
       \/ BulkFits(q)
       \/ PersonFits(q)

PlanInv ==
    /\ plan \in PlanDoc
    /\ plan # NoPlan => PlanFits(plan)

IndInv == FileInv /\ PlaceInv /\ PersonInv /\ PlanInv /\ CountInv

-----------------------------------------------------------------------------
(* Documents and files                                                        *)

LEMMA Kindly ==
    /\ \A k \in Kinds : PlacesOf(k) \subseteq Places
    /\ PlacesOf("company") = Companies /\ PlacesOf("location") = Locations
    /\ PlacesOf("office") = Offices
    /\ Companies \cap Locations = {} /\ Companies \cap Offices = {} /\ Locations \cap Offices = {}
    /\ None \notin Places
<1>1. /\ PlacesOf("company") = Companies /\ PlacesOf("location") = Locations
      /\ PlacesOf("office") = Offices
  BY DEF PlacesOf
<1>2. \A k \in Kinds : PlacesOf(k) \subseteq Places
  BY <1>1 DEF Kinds, Places
<1> QED
  BY <1>1, <1>2, ImportAssumption DEF Kinds

LEMMA FileTyped ==
    ASSUME NEW rows \in FilesOf
    PROVE  /\ rows \in Seq(Row) /\ Len(rows) \in 1..MaxRows /\ DOMAIN rows = 1..Len(rows)
           /\ \A i \in DOMAIN rows : rows[i] \in Row
<1>1. PICK n \in 1..MaxRows : rows \in [1..n -> Rows]
  BY DEF FilesOf
<1>2. rows \in [1..n -> Row] /\ n \in Nat
  BY <1>1, ImportAssumption
<1> QED
  BY <1>2

LEMMA IdleTyped ==
    Idle \in FileDoc /\ Idle.pc = "idle"
BY DEF Idle, FileDoc, Stages, Files

LEMMA NowhereTyped ==
    /\ Nowhere \in Place /\ Nowhere.status = "none" /\ Nowhere.of = None /\ Nowhere.ext = None
    /\ Nowhere.hold = FALSE
BY DEF Nowhere, Place, Statuses

LEMMA NobodyTyped ==
    Nobody \in Person /\ Nobody.status = "none" /\ Nobody.hold = FALSE
BY DEF Nobody, Person, Statuses

LEMMA NoPlanTyped ==
    NoPlan \in PlanDoc
BY NowhereTyped DEF NoPlan, PlanDoc

LEMMA InitInv ==
    ASSUME DirectoryInit
    PROVE  IndInv
<1>1. FileInv
  BY IdleTyped DEF DirectoryInit, FileInv
<1>2. place \in [Places -> Place] /\ \A p \in Places : place[p] = Nowhere
  BY NowhereTyped DEF DirectoryInit
<1>3. \A p \in Places : Shaped(p, Nowhere)
  BY NowhereTyped, Kindly DEF Shaped
<1>4. OneOfAnExternalId /\ loose \subseteq Places
  BY <1>2, NowhereTyped DEF OneOfAnExternalId, LivePlace, DirectoryInit
<1>6. PlanInv
  BY NoPlanTyped DEF DirectoryInit, PlanInv
<1>5. person \in [People -> Person] /\ \A p \in People : person[p] = Nobody
  BY NobodyTyped DEF DirectoryInit
<1> QED
  BY <1>1, <1>2, <1>3, <1>4, <1>5, <1>6, ImportAssumption DEF DirectoryInit, IndInv, PlaceInv,
     PersonInv, CountInv

-----------------------------------------------------------------------------
(* External ids                                                               *)

\* Whoever writes one place, and gives it no external id that a live one has,
\* unless the write is known to be late.
LEMMA WriteKeeps ==
    ASSUME PlaceInv, NEW p \in Places, NEW d \in Place, NEW late \in BOOLEAN, Stored(p, d, late),
           Shaped(p, d),
           \/ d.status # "live" \/ ExtFree(p, d.of, d.ext) \/ late
           \/ LivePlace(p) /\ place[p].of = d.of /\ place[p].ext = d.ext
    PROVE  PlaceInv'
<1>1. /\ place' \in [Places -> Place] /\ place'[p] = d /\ \A q \in Places \ {p} : place'[q] = place[q]
      /\ loose \subseteq loose' /\ loose' \subseteq Places /\ (late => p \in loose')
  BY DEF PlaceInv, Stored
<1>2. \A q \in Places : Shaped(q, place'[q])
  BY <1>1 DEF PlaceInv
<1>3. ASSUME NEW r \in Places \ {p}, place'[p].status = "live", place'[r].status = "live",
             place'[p].of = place'[r].of, place'[p].ext # None, place'[p].ext = place'[r].ext
      PROVE  {p, r} \cap loose' # {}
  <2>1. LivePlace(r) /\ place[r].of = d.of /\ place[r].ext = d.ext /\ d.ext # None
          /\ d.status = "live"
    BY <1>1, <1>3 DEF LivePlace
  <2>2. ~ExtFree(p, d.of, d.ext)
    BY <2>1 DEF ExtFree
  <2>3. CASE LivePlace(p) /\ place[p].of = d.of /\ place[p].ext = d.ext
    BY <1>1, <2>1, <2>3 DEF PlaceInv, OneOfAnExternalId
  <2> QED
    BY <1>1, <2>1, <2>2, <2>3
<1>4. OneOfAnExternalId'
  <2> SUFFICES ASSUME NEW q \in Places, NEW r \in Places, q # r,
                      place'[q].status = "live", place'[r].status = "live",
                      place'[q].of = place'[r].of, place'[q].ext # None,
                      place'[q].ext = place'[r].ext
               PROVE  {q, r} \cap loose' # {}
    BY DEF OneOfAnExternalId, LivePlace
  <2>1. CASE q # p /\ r # p
    <3>1. {q, r} \cap loose # {}
      BY <1>1, <2>1 DEF PlaceInv, OneOfAnExternalId, LivePlace
    <3> QED
      BY <1>1, <3>1
  <2>2. CASE q = p
    BY <1>3, <2>2
  <2>3. CASE r = p
    <3>1. {r, q} \cap loose' # {}
      BY <1>3, <2>3
    <3> QED
      BY <3>1
  <2> QED
    BY <2>1, <2>2, <2>3
<1> QED
  BY <1>1, <1>2, <1>4 DEF PlaceInv

\* What is not found has an external id nobody has,
LEMMA NotFoundFree ==
    ASSUME PlaceInv, NEW kind, NEW of, NEW key, Sensible(kind, of, key),
           Sought(kind, of, key) = {}, NEW p \in Places
    PROVE  ExtFree(p, of, key.ext)
<1> SUFFICES ASSUME key.ext # None, NEW q \in Places, LivePlace(q), place[q].of = of,
                    place[q].ext = key.ext
             PROVE  FALSE
  BY DEF ExtFree
<1>1. place[q].status = "live" /\ Shaped(q, place[q])
  BY DEF LivePlace, PlaceInv
<1>2. q \in PlacesOf(kind)
  <2>1. kind = "location" => q \in Locations
    BY <1>1, Kindly DEF Sensible, Shaped, Places
  <2>2. kind # "location" => q \notin Locations
    BY <1>1, Kindly DEF Sensible, Shaped, Places
  <2>3. q \notin Offices /\ kind # "office"
    BY <1>1 DEF Shaped, Sensible
  <2> QED
    BY <2>1, <2>2, <2>3, Kindly DEF Sensible, Kinds, Places
<1> QED
  BY <1>2 DEF Sought

\* and what is found has the external id it is looked for by, or may take it.
LEMMA FoundFits ==
    ASSUME PlaceInv, NEW kind, NEW of, NEW key, Sensible(kind, of, key),
           NEW p \in Sought(kind, of, key)
    PROVE  /\ p \in PlacesOf(kind) /\ p \in Places /\ LivePlace(p) /\ place[p].of = of
           /\ ExtFree(p, of, key.ext) \/ place[p].ext = key.ext
<1>1. p \in PlacesOf(kind) /\ LivePlace(p) /\ place[p].of = of
  BY DEF Sought
<1>2. p \in Places
  BY <1>1, Kindly DEF Sensible
<1>3. ASSUME key.ext # None, NEW q \in Places \ {p}, LivePlace(q), place[q].of = of,
             place[q].ext = key.ext, place[p].ext # key.ext
      PROVE  FALSE
  <2>1. {r \in PlacesOf(kind) : LivePlace(r) /\ place[r].of = of /\ place[r].ext = key.ext} = {}
    BY <1>3 DEF Sought
  <2>2. q \in Places /\ place[q].status = "live" /\ Shaped(q, place[q])
    BY <1>3 DEF LivePlace, PlaceInv
  <2>3. q \notin Offices /\ kind # "office"
    BY <1>3, <2>2 DEF Shaped, Sensible
  <2>4. kind = "location" => q \in Locations
    BY <1>3, <2>2, Kindly DEF Sensible, Shaped, Places
  <2>5. kind # "location" => q \notin Locations
    BY <1>3, <2>2, Kindly DEF Sensible, Shaped, Places
  <2>6. q \in PlacesOf(kind)
    BY <2>2, <2>3, <2>4, <2>5, Kindly DEF Sensible, Kinds, Places
  <2> QED
    BY <1>3, <2>1, <2>6
<1> QED
  BY <1>1, <1>2, <1>3 DEF ExtFree

LEMMA FreshTyped ==
    ASSUME NEW of \in Companies \cup {None}, NEW key \in Key
    PROVE  /\ Fresh(of, key) \in Place /\ Fresh(of, key).status = "live" /\ Fresh(of, key).of = of
           /\ Fresh(of, key).ext = key.ext /\ Fresh(of, key).hold = FALSE
BY NowhereTyped DEF Fresh, Place, Statuses, Key

\* A place made for a key that was not found, or late.
LEMMA FreshKeeps ==
    ASSUME PlaceInv, NEW kind, NEW of, NEW key, Sensible(kind, of, key), NEW late \in BOOLEAN,
           late \/ Sought(kind, of, key) = {}, NEW p \in Unused(kind), Stored(p, Fresh(of, key), late)
    PROVE  PlaceInv'
<1> DEFINE d == Fresh(of, key)
<1>1. p \in Places /\ p \in PlacesOf(kind) /\ Stored(p, d, late)
  BY Kindly DEF Sensible, Unused
<1>2. d \in Place /\ d.status = "live" /\ d.of = of /\ d.ext = key.ext
  <2>1. of \in Companies \cup {None} /\ key \in Key
    BY DEF Sensible
  <2>2. /\ Fresh(of, key) \in Place /\ Fresh(of, key).status = "live"
        /\ Fresh(of, key).of = of /\ Fresh(of, key).ext = key.ext
    BY ONLY <2>1, FreshTyped
  <2> QED
    BY ONLY <2>2 DEF d
<1> HIDE DEF d
<1>3. Shaped(p, d)
  BY <1>1, <1>2, Kindly DEF Sensible, Shaped, Kinds
<1>4. late \/ ExtFree(p, d.of, d.ext)
  BY <1>1, <1>2, NotFoundFree
<1> QED
  BY <1>1, <1>2, <1>3, <1>4, WriteKeeps

LEMMA SavedPlaceTyped ==
    ASSUME NEW key \in Key, NEW seen \in Place, NEW now \in Place
    PROVE  LET d == SavedPlace(Overwritten(seen, key), seen, now) IN
           /\ d \in Place /\ d.status = now.status /\ d.of = now.of /\ d.hold = now.hold
           /\ seen = now => d.ext = key.ext
<1> DEFINE new == Overwritten(seen, key)
           x == IF new.ext # seen.ext THEN new.ext ELSE now.ext
           n == IF new.name # seen.name THEN new.name ELSE now.name
           d == [now EXCEPT !.ext = x, !.name = n]
<1>1. Or(key.name, seen.name) \in Names \cup {None}
  BY DEF Or, Place, Key
<1>2. new \in Place /\ new.ext = key.ext
  BY <1>1 DEF Overwritten, Place, Key
<1>3. SavedPlace(new, seen, now) = d
  BY DEF SavedPlace
<1> HIDE DEF new
<1>4. x \in Exts \cup {None} /\ n \in Names \cup {None} /\ (seen = now => x = key.ext)
  BY <1>2 DEF Place
<1> HIDE DEF x, n
<1>5. d \in Place /\ d.status = now.status /\ d.of = now.of /\ d.hold = now.hold /\ d.ext = x
  BY <1>4 DEF Place
<1> QED
  BY <1>3, <1>4, <1>5 DEF new

\* A place that was found and is saved, or is saved late.
LEMMA SaveKeeps ==
    ASSUME PlaceInv, NEW kind \in {"company", "location"}, NEW of, NEW key,
           Sensible(kind, of, key), NEW p \in PlacesOf(kind), NEW seen \in Place,
           place[p].status # "none", place[p].of = of, NEW late \in BOOLEAN,
           late \/ (p \in Sought(kind, of, key) /\ place[p] = seen),
           Stored(p, SavedPlace(Overwritten(seen, key), seen, place[p]), late)
    PROVE  PlaceInv'
<1> DEFINE d == SavedPlace(Overwritten(seen, key), seen, place[p])
<1>1. p \in Places /\ place[p] \in Place /\ Shaped(p, place[p]) /\ key \in Key /\ Stored(p, d, late)
  BY Kindly DEF PlaceInv, Sensible
<1>2. d \in Place /\ d.status = place[p].status /\ d.of = of /\ (place[p] = seen => d.ext = key.ext)
  BY <1>1, SavedPlaceTyped
<1> HIDE DEF d
<1>3. Shaped(p, d)
  BY <1>1, <1>2, Kindly DEF Shaped, Sensible
<1>4. late \/ ExtFree(p, d.of, d.ext) \/ (LivePlace(p) /\ place[p].of = d.of /\ place[p].ext = d.ext)
  BY <1>2, FoundFits
<1> QED
  BY <1>1, <1>2, <1>3, <1>4, WriteKeeps

-----------------------------------------------------------------------------
(* The file in hand                                                           *)

LEMMA Held ==
    ASSUME FileInv, file.pc # "idle"
    PROVE  /\ file \in FileDoc /\ FileOK(file) /\ StageOK(file) /\ GotOK(file) /\ CacheOK(file)
           /\ WentOK(file)
           /\ file.at \in DOMAIN file.rows /\ Mine \in Row /\ Len(file.rows) \in Nat
           /\ file.got["company"] \in Companies \cup {None}
<1>1. file \in FileDoc /\ FileOK(file) /\ StageOK(file) /\ GotOK(file) /\ CacheOK(file) /\ WentOK(file)
  BY DEF FileInv
<1>2. file.at \in DOMAIN file.rows /\ file.rows[file.at] \in Row /\ Len(file.rows) \in Nat
  BY <1>1, FileTyped DEF FileOK
<1>3. file.got["company"] \in Companies \cup {None}
  BY <1>1, Kindly DEF GotOK, Kinds
<1> QED
  BY <1>1, <1>2, <1>3 DEF Mine

\* The next row begins with nothing in hand, or the file is at its end.
LEMMA RowDoneKeeps ==
    ASSUME FileInv, file.pc \notin {"idle", "previewed"}, file' = RowDone(file)
    PROVE  FileInv'
<1>1. CASE file.at = Len(file.rows)
  BY <1>1, IdleTyped DEF RowDone, FileInv
<1>2. CASE file.at # Len(file.rows)
  <2> DEFINE w == file.got["company"]
             pc == IF file.kind = "offices" THEN "office" ELSE "company"
             g == [k \in Kinds |-> None]
             j == [file EXCEPT !.at = file.at + 1, !.got = g, !.went = Append(file.went, w), !.pc = pc]
  <2>1. /\ file \in FileDoc /\ FileOK(file) /\ StageOK(file) /\ CacheOK(file) /\ WentOK(file)
        /\ file.at \in 1..Len(file.rows) /\ Len(file.rows) \in Nat /\ w \in Companies \cup {None}
        /\ file.went \in Seq(Companies \cup {None}) /\ Len(file.went) = file.at - 1
    BY Held DEF FileOK, FileDoc
  <2>2. file' = j
    BY <1>2 DEF RowDone
  <2>3. /\ Append(file.went, w) \in Seq(Companies \cup {None})
        /\ Len(Append(file.went, w)) = file.at
        /\ \A i \in 1..file.at : Append(file.went, w)[i] = IF i = file.at THEN w ELSE file.went[i]
        /\ DOMAIN file.went = 1..(file.at - 1) /\ DOMAIN Append(file.went, w) = 1..file.at
    BY <2>1
  <2>4. pc \in {"office", "company"} /\ g \in [Kinds -> Places \cup {None}]
          /\ \A k \in Kinds : g[k] = None
    OBVIOUS
  <2>5. file.at + 1 \in 1..Len(file.rows) /\ file.at + 1 \in Nat
    BY <1>2, <2>1
  <2> DEFINE ws == Append(file.went, w)
  <2> HIDE DEF w, pc, g, ws
  <2>6. /\ j \in FileDoc /\ j.pc = pc /\ j.kind = file.kind /\ j.rows = file.rows /\ j.do = file.do
        /\ j.target = file.target /\ j.at = file.at + 1 /\ j.got = g /\ j.cache = file.cache
        /\ j.went = ws
    BY <2>1, <2>3, <2>4, <2>5 DEF FileDoc, Stages, Kinds, ws
  <2> HIDE DEF j
  <2>7. FileOK(j)
    BY <2>1, <2>3, <2>5, <2>6 DEF FileOK, ws
  <2>8. StageOK(j)
    BY <2>1, <2>4, <2>6 DEF StageOK, pc
  <2>9. GotOK(j) /\ CacheOK(j)
    BY <2>1, <2>4, <2>6 DEF GotOK, CacheOK
  <2>10. \A i, v : GoesTo(j, i, v) <=> GoesTo(file, i, v)
    BY <2>6 DEF GoesTo, NamedOnly
  <2>11. WentOK(j)
    <3> SUFFICES ASSUME j.kind \in {"people", "legacy"}
                 PROVE  (\A i \in DOMAIN j.went : GoesTo(j, i, j.went[i]))
                          /\ GoesTo(j, j.at, j.got["company"])
      BY DEF WentOK
    <3>1. \A i \in DOMAIN file.went : GoesTo(file, i, file.went[i])
      BY <2>1, <2>6 DEF WentOK
    <3>2. GoesTo(file, file.at, w)
      BY <2>1, <2>6 DEF WentOK, w
    <3>3. \A i \in DOMAIN j.went : GoesTo(file, i, j.went[i])
      BY <2>1, <2>3, <2>6, <3>1, <3>2 DEF ws
    <3>4. GoesTo(j, j.at, j.got["company"])
      BY <2>4, <2>6 DEF GoesTo, Kinds
    <3> QED
      BY <2>10, <3>3, <3>4
  <2> QED
    BY <2>2, <2>4, <2>6, <2>7, <2>8, <2>9, <2>11 DEF FileInv
<1> QED
  BY <1>1, <1>2

\* A stage that has its place, with what it remembered, hands over to the next.
LEMMA WithKeeps ==
    ASSUME FileInv, NEW kind \in Kinds, file.pc = kind,
           NEW p \in PlacesOf(kind) \cup {None},
           \/ file.kind \in {"people", "legacy"}
           \/ file.kind = "companies" /\ kind = "company" /\ p # None,
           NEW j \in FileDoc, j = [file EXCEPT !.cache = j.cache], file.cache \subseteq j.cache,
           CacheOK(j),
           kind = "company" => GoesTo(j, file.at, p) \/ file.kind = "companies",
           file' = With(j, kind, p)
    PROVE  FileInv'
<1> DEFINE h == [j.got EXCEPT ![kind] = p]
           pc == After(kind)
           n == [j EXCEPT !.got = h, !.pc = pc]
<1>1. /\ file \in FileDoc /\ FileOK(file) /\ StageOK(file) /\ GotOK(file) /\ WentOK(file)
      /\ kind # "idle"
  BY Held DEF Kinds
<1>2. /\ j.pc = file.pc /\ j.kind = file.kind /\ j.rows = file.rows /\ j.do = file.do
      /\ j.target = file.target /\ j.at = file.at /\ j.got = file.got /\ j.went = file.went
  BY <1>1 DEF FileDoc
<1>3. file' = n
  BY <1>1, <1>2 DEF With, FileDoc
<1>4. pc \in {"location", "office", "person"} /\ (kind = "company" <=> pc = "location")
  BY DEF After, Kinds
<1>5. h \in [Kinds -> Places \cup {None}] /\ h[kind] = p /\ \A k \in Kinds \ {kind} : h[k] = file.got[k]
  BY <1>1, <1>2, Kindly DEF FileDoc
<1> HIDE DEF h, pc
<1>6. /\ n \in FileDoc /\ n.pc = pc /\ n.kind = file.kind /\ n.rows = file.rows /\ n.do = file.do
      /\ n.target = file.target /\ n.at = file.at /\ n.got = h /\ n.cache = j.cache /\ n.went = file.went
  BY <1>2, <1>4, <1>5 DEF FileDoc, Stages, Kinds
<1> HIDE DEF n
<1>7. FileOK(n) /\ CacheOK(n)
  BY <1>1, <1>6 DEF FileOK, CacheOK
<1>8. StageOK(n)
  BY <1>1, <1>4, <1>5, <1>6 DEF StageOK, Kinds
<1>9. GotOK(n)
  BY <1>1, <1>5, <1>6 DEF GotOK
<1>10. \A i, v : GoesTo(file, i, v) => GoesTo(n, i, v)
  BY <1>6 DEF GoesTo, NamedOnly
<1>11. \A i, v : GoesTo(j, i, v) => GoesTo(n, i, v)
  BY <1>2, <1>6 DEF GoesTo, NamedOnly
<1>12. WentOK(n)
  <2>1. CASE kind = "company"
    BY <1>1, <1>5, <1>6, <1>10, <1>11, <2>1 DEF WentOK
  <2>2. CASE kind # "company"
    BY <1>1, <1>5, <1>6, <1>10, <2>2 DEF WentOK, Kinds
  <2> QED
    BY <2>1, <2>2
<1> QED
  BY <1>3, <1>4, <1>6, <1>7, <1>8, <1>9, <1>12 DEF FileInv

-----------------------------------------------------------------------------
(* The places of a row                                                        *)

LEMMA WantedTyped ==
    ASSUME FileInv, NEW kind \in Kinds, At(kind)
    PROVE  /\ Wanted(kind) \in Key /\ Of(kind) \in Companies \cup {None}
           /\ kind = "company" /\ NamedOnly(file, file.at) =>
                Wanted(kind).ext = None /\ Wanted(kind).name = file.rows[file.at].company.name
           /\ Wants(kind) => Sensible(kind, Of(kind), Wanted(kind))
<1>1. /\ Mine \in Row /\ file.got["company"] \in Companies \cup {None}
      /\ file.kind \in {"people", "legacy"}
  BY Held DEF At, Kinds
<1>2. Mine.company \in Key /\ Mine.location \in Key /\ Mine.office \in Key
  BY <1>1 DEF Row
<1>3. Mine[kind] \in Key
  BY <1>2 DEF Kinds
<1>4. Wanted(kind) \in Key /\ (kind = "office" => Wanted(kind).ext = None)
  BY <1>2, <1>3 DEF Wanted, Key
<1>5. Of(kind) \in Companies \cup {None}
  BY <1>1 DEF Of
<1>6. ASSUME kind = "company", NamedOnly(file, file.at)
      PROVE  Wanted(kind).ext = None /\ Wanted(kind).name = file.rows[file.at].company.name
  BY <1>1, <1>2, <1>6 DEF Wanted, NamedOnly, Mine
<1>7. Wants(kind) => Sensible(kind, Of(kind), Wanted(kind))
  BY <1>1, <1>4 DEF Wants, Of, Sensible
<1> QED
  BY <1>4, <1>5, <1>6, <1>7

LEMMA EntryTyped ==
    ASSUME NEW kind \in Kinds, Of(kind) \in Companies \cup {None},
           NEW by \in {"ext", "name"}, NEW key \in Exts \cup Names, NEW p \in PlacesOf(kind)
    PROVE  Memo(kind, by, key, p) \in Cached
BY Kindly DEF Memo, Cached

\* What is remembered of a place was not remembered before.
LEMMA RememberedKeeps ==
    ASSUME FileInv, NEW kind \in Kinds, At(kind), Recalled(kind) = {},
           NEW p \in PlacesOf(kind)
    PROVE  LET j == Remembered(file, kind, p) IN
           /\ j \in FileDoc /\ j = [file EXCEPT !.cache = j.cache] /\ file.cache \subseteq j.cache
           /\ CacheOK(j)
           /\ kind = "company" /\ Wanted(kind).name # None => GoesTo(j, file.at, p)
<1> DEFINE key == Wanted(kind)
           bys == {b \in {"ext", "name"} : key[b] # None}
           new == {Memo(kind, by, key[by], p) : by \in bys}
           kept == {c \in file.cache : \A n \in new : [c EXCEPT !.place = p] # n}
           j == [file EXCEPT !.cache = kept \cup new]
<1>1. /\ file \in FileDoc /\ CacheOK(file) /\ file.cache \subseteq Cached
      /\ key \in Key /\ Of(kind) \in Companies \cup {None}
  BY Held, WantedTyped DEF At, Kinds, FileDoc
<1>2. /\ \A q \in Places : Memo(kind, "ext", key.ext, q) \notin file.cache
      /\ \A q \in Places : Memo(kind, "name", key.name, q) \notin file.cache
  BY DEF Recalled
<1>3. \A by \in bys : by \in {"ext", "name"} /\ key[by] # None /\ key[by] \in Exts \cup Names
  BY <1>1 DEF Key
<1>4. new \subseteq Cached
  BY <1>1, <1>3, EntryTyped
<1>5. kept = file.cache
  <2> SUFFICES ASSUME NEW c \in file.cache, NEW by \in bys,
                      [c EXCEPT !.place = p] = Memo(kind, by, key[by], p)
               PROVE  FALSE
    OBVIOUS
  <2>1. c \in Cached /\ c.place \in Places
    BY <1>1 DEF Cached
  <2>2. c = Memo(kind, by, key[by], c.place)
    BY <2>1 DEF Memo, Cached
  <2> QED
    BY <1>2, <1>3, <2>1, <2>2
<1>6. Remembered(file, kind, p) = j
  BY DEF Remembered
<1> DEFINE cache == file.cache \cup new
<1>7. j \in FileDoc /\ j.cache = cache /\ j = [file EXCEPT !.cache = cache] /\ j.rows = file.rows
        /\ j.kind = file.kind
  BY <1>1, <1>4, <1>5 DEF FileDoc
<1>8. \A n \in new : /\ n.kind = kind /\ n.of = Of(kind) /\ n.by \in bys
                         /\ n.key = key[n.by] /\ n.place = p
                     /\ n.key # None
  BY <1>3 DEF Memo
<1>9. \A c \in file.cache : \A n \in new :
        ~(c.kind = n.kind /\ c.of = n.of /\ c.by = n.by /\ c.key = n.key)
  <2> SUFFICES ASSUME NEW c \in file.cache, NEW n \in new,
                      c.kind = n.kind, c.of = n.of, c.by = n.by, c.key = n.key
               PROVE  FALSE
    OBVIOUS
  <2>1. c \in Cached /\ c.place \in Places
    BY <1>1 DEF Cached
  <2>2. c = Memo(kind, n.by, key[n.by], c.place)
    BY <1>8, <2>1 DEF Memo, Cached
  <2> QED
    BY <1>2, <1>3, <1>8, <2>1, <2>2
<1> HIDE DEF new, kept, j
<1>10. CacheOK(j)
  BY <1>1, <1>7, <1>8, <1>9 DEF CacheOK
<1>11. ASSUME kind = "company", key.name # None PROVE GoesTo(j, file.at, p)
  <2>1. CASE NamedOnly(file, file.at)
    <3>1. key.name = file.rows[file.at].company.name
      BY <1>11, <2>1, WantedTyped
    <3>2. Memo(kind, "name", key.name, p) \in new
      BY <1>11 DEF new
    <3>3. Memo(kind, "name", key.name, p) =
            [kind |-> "company", of |-> None, by |-> "name",
             key |-> file.rows[file.at].company.name, place |-> p]
      BY <1>11, <3>1 DEF Memo, Of
    <3> QED
      BY <1>7, <3>2, <3>3 DEF GoesTo
  <2>2. CASE ~NamedOnly(file, file.at)
    BY <1>7, <2>2 DEF GoesTo, NamedOnly
  <2> QED
    BY <2>1, <2>2
<1> QED
  BY <1>6, <1>7, <1>10, <1>11

\* A write that is made, or never was decided on.
LEMMA PlanDropped ==
    ASSUME plan' = NoPlan
    PROVE  PlanInv'
BY NoPlanTyped DEF PlanInv, PlanDoc

\* A write that is decided on.
LEMMA PlanMade ==
    ASSUME NEW q \in PlanDoc, plan' = q, PlanFits(q), UNCHANGED file, UNCHANGED place,
           UNCHANGED person
    PROVE  PlanInv'
<1>1. ASSUME NEW kind, MakeFits(q, kind) PROVE MakeFits(q, kind)'
  <2>1. At(kind)' = At(kind) /\ Wanted(kind)' = Wanted(kind) /\ Of(kind)' = Of(kind)
    BY DEF At, Wanted, Of, Mine
  <2>2. Wants(kind)' = Wants(kind) /\ Recalled(kind)' = Recalled(kind)
    BY <2>1 DEF Wants, Recalled, Memo
  <2>3. Sought(kind, Of(kind), Wanted(kind))' = Sought(kind, Of(kind), Wanted(kind))
    BY <2>1 DEF Sought, LivePlace
  <2> QED
    BY <1>1, <2>1, <2>2, <2>3 DEF MakeFits
<1>2. ASSUME NEW kind, UpsertFits(q, kind) PROVE UpsertFits(q, kind)'
  <2>1. Of(kind)' = Of(kind) /\ Mine[kind]' = Mine[kind]
    BY DEF Of, Mine
  <2>2. Sought(kind, Of(kind), Mine[kind])' = Sought(kind, Of(kind), Mine[kind])
    BY <2>1 DEF Sought, LivePlace
  <2>3. Sensible(kind, Of(kind), Mine[kind])' = Sensible(kind, Of(kind), Mine[kind])
    BY <2>1 DEF Sensible
  <2> QED
    BY <1>2, <2>1, <2>2, <2>3 DEF UpsertFits
<1>3. BulkFits(q) => BulkFits(q)'
  BY DEF BulkFits
<1>4. PersonFits(q) => PersonFits(q)'
  BY DEF PersonFits, Got, LivePlace
<1>5. PlanFits(q)'
  BY <1>1, <1>2, <1>3, <1>4 DEF PlanFits
<1>6. PlanFits(plan)'
  BY <1>5 DEF PlanFits, MakeFits, UpsertFits, BulkFits, PersonFits
<1> QED
  BY <1>6 DEF PlanInv, PlanDoc

LEMMA PlannedTyped ==
    ASSUME NEW what \in {"create", "update"}, NEW on \in Places \cup People \cup {None},
           NEW seen \in Place \cup Person
    PROVE  LET q == Planned(what, on, seen) IN
           /\ q \in PlanDoc /\ q.what = what /\ q.on = on /\ q.seen = seen /\ q.since = {}
BY DEF Planned, PlanDoc

\* The stage says what the pending write is.
LEMMA PlanIs ==
    ASSUME IndInv, plan # NoPlan
    PROVE  /\ plan.what \in {"create", "update"} /\ plan.since \subseteq Places \cup People
           /\ \A kind \in Kinds : At(kind) => MakeFits(plan, kind)
           /\ \A kind \in {"company", "location"} :
                file.pc = kind /\ file.kind = "companies" => UpsertFits(plan, kind)
           /\ file.kind = "offices" => BulkFits(plan)
           /\ file.pc = "person" => PersonFits(plan)
           /\ file.pc \in Kinds \cup {"person"} /\ file.pc # "idle"
           /\ file.pc \in Kinds => file.do[file.at] # "skip"
<1>1. PlanFits(plan) /\ plan \in PlanDoc
  BY DEF IndInv, PlanInv
<1>2. plan.what \in {"create", "update"} /\ plan.since \subseteq Places \cup People
  BY <1>1 DEF PlanDoc, PlanFits
<1>3. file.pc \in Kinds \cup {"person"} /\ file.pc # "idle"
  BY <1>1 DEF PlanFits, MakeFits, UpsertFits, BulkFits, PersonFits, At, Kinds
<1>4. StageOK(file) /\ FileOK(file) /\ file.at \in DOMAIN file.rows
  BY <1>3, Held DEF IndInv
<1>5. file.pc \in Kinds => file.do[file.at] # "skip"
  BY <1>1, <1>4 DEF PlanFits, MakeFits, UpsertFits, BulkFits, PersonFits, At, StageOK, FileOK, Kinds
<1>6. ASSUME NEW kind \in Kinds, At(kind) PROVE MakeFits(plan, kind)
  BY <1>1, <1>6 DEF PlanFits, MakeFits, UpsertFits, BulkFits, PersonFits, At, Kinds
<1>7. ASSUME NEW kind \in {"company", "location"}, file.pc = kind, file.kind = "companies"
      PROVE  UpsertFits(plan, kind)
  BY <1>1, <1>7 DEF PlanFits, MakeFits, UpsertFits, BulkFits, PersonFits, At, Kinds
<1>8. file.kind = "offices" => BulkFits(plan)
  BY <1>1, <1>4 DEF PlanFits, MakeFits, UpsertFits, BulkFits, PersonFits, At, StageOK
<1>9. file.pc = "person" => PersonFits(plan)
  BY <1>1 DEF PlanFits, MakeFits, UpsertFits, BulkFits, PersonFits, At, Kinds
<1> QED
  BY <1>2, <1>3, <1>5, <1>6, <1>7, <1>8, <1>9

LEMMA PlacesStay ==
    ASSUME PlaceInv, UNCHANGED place, UNCHANGED loose
    PROVE  PlaceInv'
BY DEF PlaceInv, OneOfAnExternalId, LivePlace

\* A stage of a row of people that has its place remembers it.
LEMMA RowGoesOn ==
    ASSUME FileInv, NEW kind \in Kinds, At(kind), NEW p \in PlacesOf(kind), Recalled(kind) = {},
           Wants(kind), file' = With(Remembered(file, kind, p), kind, p)
    PROVE  FileInv'
<1> DEFINE j == Remembered(file, kind, p)
<1>1. /\ file.pc = kind /\ file.kind \in {"people", "legacy"} /\ file \in FileDoc
  BY Held DEF At, Kinds
<1>2. /\ j \in FileDoc /\ j = [file EXCEPT !.cache = j.cache] /\ file.cache \subseteq j.cache
      /\ CacheOK(j)
      /\ kind = "company" /\ Wanted(kind).name # None => GoesTo(j, file.at, p)
  BY RememberedKeeps
<1>3. kind = "company" => Wanted(kind).name # None \/ ~NamedOnly(file, file.at)
  BY WantedTyped DEF Wants, Key
<1>4. kind = "company" => GoesTo(j, file.at, p)
  <2>1. j.kind = file.kind /\ j.rows = file.rows
    BY <1>1, <1>2 DEF FileDoc
  <2> QED
    BY <1>2, <1>3, <2>1 DEF GoesTo, NamedOnly
<1> HIDE DEF j
<1>5. file' = With(j, kind, p)
  BY DEF j
<1> QED
  BY <1>1, <1>2, <1>4, <1>5, WithKeeps

LEMMA ResolveKeeps ==
    ASSUME IndInv, NEW kind \in Kinds, Resolve(kind)
    PROVE  FileInv' /\ PlanInv'
<1> DEFINE key == Wanted(kind)
<1>1. /\ FileInv /\ PlaceInv /\ At(kind) /\ file.pc = kind /\ file.kind \in {"people", "legacy"}
      /\ file.pc # "idle" /\ plan = NoPlan /\ UNCHANGED place /\ UNCHANGED person
      /\ file \in FileDoc /\ CacheOK(file) /\ file = [file EXCEPT !.cache = file.cache]
  BY Held DEF IndInv, Resolve, At, Kinds, FileDoc
<1>2. ASSUME NEW p \in PlacesOf(kind) \cup {None}, file' = With(file, kind, p),
             kind = "company" => GoesTo(file, file.at, p)
      PROVE  FileInv'
  BY <1>1, <1>2, WithKeeps
<1>3. UNCHANGED plan => PlanInv'
  BY <1>1, PlanDropped
<1>4. CASE ~Wants(kind) /\ file' = With(file, kind, None) /\ UNCHANGED plan
  BY <1>2, <1>3, <1>4 DEF GoesTo
<1>5. ASSUME Wants(kind), NEW p \in Recalled(kind), file' = With(file, kind, p), UNCHANGED plan
      PROVE  FileInv' /\ PlanInv'
  <2>1. PICK by \in {"ext", "name"} : Memo(kind, by, key[by], p) \in file.cache
    BY <1>5 DEF Recalled
  <2>2. key[by] # None /\ p \in PlacesOf(kind)
    <3>1. /\ Memo(kind, by, key[by], p).key = key[by] /\ Memo(kind, by, key[by], p).place = p
          /\ Memo(kind, by, key[by], p).kind = kind
      BY DEF Memo
    <3> QED
      BY <1>1, <2>1, <3>1 DEF CacheOK
  <2>3. kind = "company" => GoesTo(file, file.at, p)
    <3> SUFFICES ASSUME kind = "company", NamedOnly(file, file.at)
                 PROVE  [kind |-> "company", of |-> None, by |-> "name",
                         key |-> file.rows[file.at].company.name, place |-> p] \in file.cache
      BY DEF GoesTo
    <3>1. by = "name" /\ key.name = file.rows[file.at].company.name
      BY <1>1, <2>1, <2>2, WantedTyped
    <3> QED
      BY <2>1, <3>1 DEF Memo, Of
  <2> QED
    BY <1>2, <1>3, <1>5, <2>2, <2>3
<1>6. ASSUME Wants(kind), Recalled(kind) = {}, NEW p \in Sought(kind, Of(kind), key),
             file' = With(Remembered(file, kind, p), kind, p), UNCHANGED plan
      PROVE  FileInv' /\ PlanInv'
  <2>1. p \in PlacesOf(kind)
    BY <1>1, <1>6, WantedTyped, FoundFits
  <2> QED
    BY <1>1, <1>3, <1>6, <2>1, RowGoesOn
<1>7. CASE key.name = None /\ file' = With(file, kind, None) /\ UNCHANGED plan
  BY <1>2, <1>3, <1>7 DEF GoesTo
<1>8. ASSUME Wants(kind), Recalled(kind) = {}, Sought(kind, Of(kind), key) = {}, key.name # None,
             plan' = Planned("create", None, Nowhere), UNCHANGED file
      PROVE  FileInv' /\ PlanInv'
  <2> DEFINE q == Planned("create", None, Nowhere)
  <2>1. q \in PlanDoc /\ q.what = "create"
    BY PlannedTyped, NowhereTyped
  <2>2. plan' = q
    BY <1>8
  <2> HIDE DEF q
  <2>3. PlanFits(q)
    BY <1>1, <1>8, <2>1 DEF PlanFits, MakeFits
  <2> QED
    BY <1>1, <1>8, <2>1, <2>2, <2>3, PlanMade DEF FileInv
<1> QED
  BY <1>4, <1>5, <1>6, <1>7, <1>8 DEF Resolve

LEMMA MakeKeeps ==
    ASSUME IndInv, NEW kind \in Kinds, Make(kind)
    PROVE  FileInv' /\ PlaceInv' /\ PlanInv'
<1> DEFINE key == Wanted(kind)
           late == Outdated
<1>1. /\ FileInv /\ PlaceInv /\ At(kind) /\ plan # NoPlan /\ late \in BOOLEAN
      /\ file.pc \notin {"idle", "previewed"}
  BY DEF IndInv, Make, At, Kinds, Outdated
<1>2. MakeFits(plan, kind) /\ Sensible(kind, Of(kind), key)
  BY <1>1, PlanIs, WantedTyped DEF MakeFits
<1>3. late \/ Sought(kind, Of(kind), key) = {}
  BY <1>2 DEF MakeFits, Outdated
<1>4. PlanInv'
  BY PlanDropped DEF Make
<1>5. ASSUME NEW p \in Unused(kind), Stored(p, Fresh(Of(kind), key), late),
             file' = With(Remembered(file, kind, p), kind, p)
      PROVE  FileInv' /\ PlaceInv'
  <2>1. PlaceInv'
    <3> HIDE DEF late, key
    <3> QED
      BY <1>1, <1>2, <1>3, <1>5, FreshKeeps
  <2>2. FileInv'
    BY <1>1, <1>2, <1>5, RowGoesOn DEF MakeFits, Unused
  <2> QED
    BY <2>1, <2>2
<1>6. ASSUME file' = Idle \/ file' = RowDone(file), UNCHANGED <<place, loose>>
      PROVE  FileInv' /\ PlaceInv'
  <2>1. PlaceInv'
    BY <1>1, <1>6, PlacesStay
  <2>2. FileInv'
    BY <1>1, <1>6, RowDoneKeeps, IdleTyped DEF FileInv
  <2> QED
    BY <2>1, <2>2
<1> QED
  BY <1>4, <1>5, <1>6 DEF Make

-----------------------------------------------------------------------------
(* Companies and offices                                                      *)

LEMMA UpsertSeekKeeps ==
    ASSUME IndInv, NEW kind \in {"company", "location"}, UpsertSeek(kind)
    PROVE  FileInv' /\ PlanInv'
<1> DEFINE key == Mine[kind]
<1>1. /\ FileInv /\ PlaceInv /\ file.pc = kind /\ file.kind = "companies" /\ plan = NoPlan
      /\ UNCHANGED place /\ UNCHANGED person /\ kind \in Kinds
      /\ file.pc \notin {"idle", "previewed"}
  BY DEF IndInv, UpsertSeek, Kinds
<1>2. Mine \in Row /\ StageOK(file) /\ file.got["company"] \in Companies \cup {None}
  BY <1>1, Held
<1>3. Sensible(kind, Of(kind), key)
  <2>1. key \in Key
    BY <1>2 DEF Row
  <2>2. IF kind = "location" THEN Of(kind) \in Companies ELSE Of(kind) = None
    BY <1>1, <1>2 DEF Of, StageOK
  <2> QED
    BY <1>1, <2>1, <2>2 DEF Sensible
<1>4. CASE file' = RowDone(file) /\ UNCHANGED plan
  BY <1>1, <1>4, RowDoneKeeps, PlanDropped
<1>5. ASSUME NEW p \in Sought(kind, Of(kind), key), plan' = Planned("update", p, place[p]), UNCHANGED file
      PROVE  FileInv' /\ PlanInv'
  <2> DEFINE q == Planned("update", p, place[p])
  <2>1. p \in PlacesOf(kind) /\ p \in Places /\ LivePlace(p) /\ place[p].of = Of(kind) /\ place[p] \in Place
    BY <1>1, <1>3, <1>5, FoundFits DEF PlaceInv
  <2>2. q \in PlanDoc /\ q.what = "update" /\ q.on = p /\ q.seen = place[p] /\ plan' = q
    BY <1>5, <2>1, PlannedTyped
  <2> HIDE DEF q
  <2>3. UpsertFits(q, kind)
    BY <1>1, <1>3, <1>5, <2>1, <2>2 DEF UpsertFits, LivePlace
  <2>4. PlanFits(q)
    BY <2>2, <2>3 DEF PlanFits
  <2> QED
    BY <1>1, <1>5, <2>2, <2>4, PlanMade DEF FileInv
<1>6. ASSUME key.name # None, Sought(kind, Of(kind), key) = {}, plan' = Planned("create", None, Nowhere),
             UNCHANGED file
      PROVE  FileInv' /\ PlanInv'
  <2> DEFINE q == Planned("create", None, Nowhere)
  <2>1. q \in PlanDoc /\ q.what = "create" /\ plan' = q
    BY <1>6, PlannedTyped, NowhereTyped
  <2> HIDE DEF q
  <2>2. PlanFits(q)
    BY <1>1, <1>3, <1>6, <2>1 DEF PlanFits, UpsertFits
  <2> QED
    BY <1>1, <1>6, <2>1, <2>2, PlanMade DEF FileInv
<1> QED
  BY <1>4, <1>5, <1>6 DEF UpsertSeek

LEMMA UpsertWriteKeeps ==
    ASSUME IndInv, NEW kind \in {"company", "location"}, UpsertWrite(kind)
    PROVE  FileInv' /\ PlaceInv' /\ PlanInv'
<1> DEFINE key == Mine[kind]
           late == Outdated
           new == Fresh(Of(kind), key)
           old == SavedPlace(Overwritten(plan.seen, key), plan.seen, place[plan.on])
           done(p) == IF kind = "company" THEN With(file, kind, p) ELSE RowDone(file)
<1>1. /\ FileInv /\ PlaceInv /\ file.pc = kind /\ file.kind = "companies" /\ plan # NoPlan
      /\ late \in BOOLEAN /\ kind \in Kinds /\ file.pc \notin {"idle", "previewed"}
  BY DEF IndInv, UpsertWrite, Kinds, Outdated
<1>2. UpsertFits(plan, kind) /\ Sensible(kind, Of(kind), key)
  BY <1>1, PlanIs DEF UpsertFits
<1>3. PlanInv'
  BY PlanDropped DEF UpsertWrite
<1>4. file \in FileDoc /\ CacheOK(file) /\ file = [file EXCEPT !.cache = file.cache]
  BY <1>1, Held DEF FileDoc
<1>5. ASSUME NEW p \in PlacesOf(kind), file' = done(p) PROVE FileInv'
  <2>1. p # None
    BY Kindly, <1>1
  <2>2. CASE kind = "company"
    BY <1>1, <1>4, <1>5, <2>1, <2>2, WithKeeps
  <2>3. CASE kind # "company"
    BY <1>1, <1>5, <2>3, RowDoneKeeps
  <2> QED
    BY <2>2, <2>3
<1>6. ASSUME plan.what = "create", NEW p \in Unused(kind), Stored(p, new, late), file' = done(p)
      PROVE  FileInv' /\ PlaceInv'
  <2>1. late \/ Sought(kind, Of(kind), key) = {}
    BY <1>2, <1>6 DEF UpsertFits, Outdated
  <2> HIDE DEF late, key
  <2>2. PlaceInv'
    BY <1>1, <1>2, <1>6, <2>1, FreshKeeps
  <2> QED
    BY <1>5, <1>6, <2>2 DEF Unused
<1>7. ASSUME plan.what = "update", Stored(plan.on, old, late), file' = done(plan.on)
      PROVE  FileInv' /\ PlaceInv'
  <2>1. /\ plan.on \in PlacesOf(kind) /\ place[plan.on].status # "none"
        /\ place[plan.on].of = Of(kind) /\ plan.seen \in Place
        /\ late \/ (plan.on \in Sought(kind, Of(kind), key) /\ place[plan.on] = plan.seen)
    BY <1>2, <1>7 DEF UpsertFits, Outdated
  <2> HIDE DEF late, key
  <2>2. PlaceInv'
    BY <1>1, <1>2, <1>7, <2>1, SaveKeeps
  <2> QED
    BY <1>5, <1>7, <2>1, <2>2
<1>8. ASSUME file' = RowDone(file), UNCHANGED place, UNCHANGED loose
      PROVE  FileInv' /\ PlaceInv'
  <2>1. FileInv'
    BY <1>1, <1>8, RowDoneKeeps
  <2> QED
    BY <1>1, <1>8, <2>1, PlacesStay
<1> QED
  BY <1>3, <1>6, <1>7, <1>8 DEF UpsertWrite

LEMMA BulkSeekKeeps ==
    ASSUME IndInv, BulkSeek
    PROVE  FileInv' /\ PlanInv'
<1>1. /\ FileInv /\ PlaceInv /\ file.pc = "office" /\ file.kind = "offices" /\ plan = NoPlan
      /\ UNCHANGED place /\ UNCHANGED person
  BY DEF IndInv, BulkSeek
<1>2. CASE file' = RowDone(file) /\ UNCHANGED plan
  BY <1>1, <1>2, RowDoneKeeps, PlanDropped
<1>3. ASSUME NEW p \in Namesakes, ~place[p].hold, plan' = Planned("update", p, place[p]), UNCHANGED file
      PROVE  FileInv' /\ PlanInv'
  <2> DEFINE q == Planned("update", p, place[p])
  <2>1. p \in Offices /\ p \in Places /\ place[p] \in Place /\ place[p].status # "none"
    BY <1>1, <1>3 DEF Namesakes, Places, PlaceInv
  <2>2. q \in PlanDoc /\ q.what = "update" /\ q.on = p /\ q.seen = place[p] /\ plan' = q
    BY <1>3, <2>1, PlannedTyped
  <2> HIDE DEF q
  <2>3. PlanFits(q)
    BY <1>1, <1>3, <2>1, <2>2 DEF PlanFits, BulkFits
  <2> QED
    BY <1>1, <1>3, <2>2, <2>3, PlanMade DEF FileInv
<1>4. ASSUME plan' = Planned("create", None, Nowhere), UNCHANGED file
      PROVE  FileInv' /\ PlanInv'
  <2> DEFINE q == Planned("create", None, Nowhere)
  <2>1. q \in PlanDoc /\ q.what = "create" /\ plan' = q
    BY <1>4, PlannedTyped, NowhereTyped
  <2> HIDE DEF q
  <2>2. PlanFits(q)
    BY <1>1, <2>1 DEF PlanFits, BulkFits
  <2> QED
    BY <1>1, <1>4, <2>1, <2>2, PlanMade DEF FileInv
<1> QED
  BY <1>2, <1>3, <1>4 DEF BulkSeek

LEMMA ColumnsTyped ==
    ASSUME NEW d \in Place, Mine \in Row
    PROVE  /\ Columns(d) \in Place /\ Columns(d).of = d.of /\ Columns(d).ext = d.ext
           /\ d.status # "none" => Columns(d).status # "none"
<1>1. Mine.archive \in BOOLEAN /\ Mine.hold \in BOOLEAN
  BY DEF Row
<1> QED
  BY <1>1 DEF Columns, Place, Statuses

LEMMA BulkWriteKeeps ==
    ASSUME IndInv, BulkWrite
    PROVE  FileInv' /\ PlaceInv' /\ PlanInv'
<1> DEFINE key == [Mine.office EXCEPT !.ext = None]
           new == Columns(Fresh(None, key))
           put == Columns(plan.seen)
           old == [place[plan.on] EXCEPT !.status = put.status, !.hold = put.hold]
<1>1. /\ FileInv /\ PlaceInv /\ file.pc = "office" /\ file.kind = "offices" /\ plan # NoPlan
      /\ file.pc \notin {"idle", "previewed"}
  BY DEF IndInv, BulkWrite
<1>2. Mine \in Row /\ Mine.office \in Key
  BY <1>1, Held DEF Row
<1>3. PlanInv'
  BY PlanDropped DEF BulkWrite
<1>4. file' = RowDone(file) \/ file' = Idle => FileInv'
  BY <1>1, RowDoneKeeps, IdleTyped DEF FileInv
<1>5. ASSUME NEW p \in Unused("office"), Stored(p, new, FALSE)
      PROVE  PlaceInv'
  <2>1. key \in Key /\ key.ext = None
    BY <1>2 DEF Key
  <2>2. new \in Place /\ new.of = None /\ new.ext = None /\ new.status # "none"
    <3> DEFINE d == Fresh(None, key)
    <3>1. new = Columns(d)
      OBVIOUS
    <3> HIDE DEF key
    <3>2. d \in Place /\ d.of = None /\ d.ext = None /\ d.status = "live"
      BY <2>1, FreshTyped
    <3> HIDE DEF d, new
    <3> QED
      BY <1>2, <3>1, <3>2, ColumnsTyped
  <2>3. p \in Offices /\ p \in Places
    BY Kindly DEF Unused, Places
  <2> HIDE DEF new
  <2>4. Shaped(p, new) /\ ExtFree(p, new.of, new.ext)
    BY <2>2, <2>3, Kindly DEF Shaped, ExtFree
  <2> QED
    BY <1>1, <1>5, <2>2, <2>3, <2>4, WriteKeeps
<1>6. ASSUME plan.what = "update", Stored(plan.on, old, FALSE)
      PROVE  PlaceInv'
  <2>1. plan.on \in Offices /\ plan.seen \in Place /\ plan.seen.status # "none" /\ plan.on \in Places
        /\ place[plan.on].status # "none"
    BY <1>1, <1>6, PlanIs DEF BulkFits, Places
  <2>2. place[plan.on] \in Place /\ Shaped(plan.on, place[plan.on])
    BY <1>1, <2>1 DEF PlaceInv
  <2>3. put \in Place /\ put.status # "none"
    BY <1>2, <2>1, ColumnsTyped
  <2> HIDE DEF put
  <2>4. /\ old \in Place /\ old.of = place[plan.on].of /\ old.ext = place[plan.on].ext
        /\ old.status # "none"
    BY <2>2, <2>3 DEF Place
  <2> HIDE DEF old
  <2>5. Shaped(plan.on, old) /\ ExtFree(plan.on, old.of, old.ext)
    BY <2>1, <2>2, <2>4, Kindly DEF Shaped, ExtFree
  <2> QED
    BY <1>1, <1>6, <2>1, <2>4, <2>5, WriteKeeps
<1>7. UNCHANGED <<place, loose>> => PlaceInv'
  BY <1>1, PlacesStay
<1> QED
  BY <1>3, <1>4, <1>5, <1>6, <1>7 DEF BulkWrite

-----------------------------------------------------------------------------
(* What others do                                                             *)

\* What somebody writes is in the way of a pending write, and nothing else is.
LEMMA EditedPlan ==
    ASSUME IndInv, NEW it \in Places \cup People, Edited(it),
           it \in Places \/ UNCHANGED place, it \in People \/ UNCHANGED person,
           \A p \in Places : p = it \/ place'[p] = place[p],
           \A p \in People : p = it \/ person'[p] = person[p],
           \A p \in Places : place[p].status # "none" =>
                              place'[p].status # "none" /\ place'[p].of = place[p].of,
           \A p \in People : person[p].status # "none" => person'[p].status # "none"
    PROVE  PlanInv'
<1>1. CASE plan = NoPlan
  BY <1>1, PlanDropped DEF Edited
<1>2. CASE plan # NoPlan
  <2>1. plan \in PlanDoc /\ PlanFits(plan)
    BY <1>2 DEF IndInv, PlanInv
  <2>0. PICK q : q = [plan EXCEPT !.since = plan.since \cup {it}]
    OBVIOUS
  <2>2. plan' = q /\ file' = file
    BY <1>2, <2>0 DEF Edited
  <2>3. /\ q \in PlanDoc /\ q.what = plan.what /\ q.on = plan.on /\ q.seen = plan.seen
        /\ q.since = plan.since \cup {it}
    BY <2>0, <2>1 DEF PlanDoc
  <2>4. ASSUME NEW kind \in Kinds, MakeFits(plan, kind) PROVE MakeFits(q, kind)'
    <3>1. /\ q.what = "create" /\ At(kind)' /\ Wants(kind)' /\ Recalled(kind)' = {}
          /\ Wanted(kind)'.name # None /\ Wanted(kind)' = Wanted(kind) /\ Of(kind)' = Of(kind)
      BY <2>2, <2>3, <2>4 DEF MakeFits, At, Wants, Wanted, Recalled, Memo, Of, Mine
    <3>2. CASE it \in Places
      BY <2>3, <3>1, <3>2 DEF MakeFits
    <3>3. CASE UNCHANGED place
      <4>1. Sought(kind, Of(kind), Wanted(kind))' = Sought(kind, Of(kind), Wanted(kind))
        BY <3>1, <3>3 DEF Sought, LivePlace
      <4> QED
        BY <2>3, <2>4, <3>1, <4>1 DEF MakeFits
    <3> QED
      BY <3>2, <3>3
  <2>5. ASSUME NEW kind \in {"company", "location"}, UpsertFits(plan, kind) PROVE UpsertFits(q, kind)'
    <3>1. kind \in Kinds /\ PlacesOf(kind) \subseteq Places
      BY Kindly DEF Kinds
    <3>2. /\ file'.kind = "companies" /\ file'.pc = kind /\ Mine[kind]' = Mine[kind]
          /\ Of(kind)' = Of(kind) /\ Sensible(kind, Of(kind), Mine[kind])'
      BY <2>2, <2>5 DEF UpsertFits, Of, Mine, Sensible
    <3>3. q.what = "update" =>
            /\ q.on \in PlacesOf(kind) /\ place'[q.on].status # "none" /\ place'[q.on].of = Of(kind)
            /\ q.seen \in Place
      BY <2>3, <2>5, <3>1 DEF UpsertFits
    <3>4. q.what = "create" => Mine[kind].name # None
      BY <2>3, <2>5 DEF UpsertFits
    <3>5. CASE it \in Places
      BY <2>3, <3>2, <3>3, <3>4, <3>5 DEF UpsertFits
    <3>6. CASE UNCHANGED place
      <4>1. Sought(kind, Of(kind), Mine[kind])' = Sought(kind, Of(kind), Mine[kind])
        BY <3>2, <3>6 DEF Sought, LivePlace
      <4>2. plan.since \cap Places # {} => q.since \cap Places # {}
        BY <2>3
      <4> QED
        BY <2>3, <2>5, <3>2, <3>3, <3>4, <3>6, <4>1, <4>2 DEF UpsertFits
    <3> QED
      BY <3>5, <3>6
  <2>6. ASSUME BulkFits(plan) PROVE BulkFits(q)'
    BY <2>2, <2>3, <2>6 DEF BulkFits, Places
  <2>7. ASSUME PersonFits(plan) PROVE PersonFits(q)'
    <3>1. \A k \in Kinds : Got(k)' = Got(k) /\ Got(k) \in Places \cup {None}
      BY <2>2, <2>7, Held DEF IndInv, Got, FileDoc, PersonFits
    <3>2. \A k \in Kinds : Got(k) = None \/ LivePlace(Got(k))' \/ Got(k) \in q.since
      BY <2>3, <2>7, <3>1 DEF PersonFits, LivePlace
    <3> QED
      BY <2>2, <2>3, <2>7, <3>1, <3>2 DEF PersonFits
  <2>8. PlanFits(q)'
    BY <2>1, <2>3, <2>4, <2>5, <2>6, <2>7 DEF PlanFits
  <2>9. PlanFits(plan)'
    BY <2>2, <2>8 DEF PlanFits, MakeFits, UpsertFits, BulkFits, PersonFits
  <2> QED
    BY <2>2, <2>3, <2>9 DEF PlanInv, PlanDoc
<1> QED
  BY <1>1, <1>2

LEMMA PlaceEdited ==
    ASSUME IndInv, NEW kind, NEW p \in Places, NEW d \in Place, PlaceEdit(kind, p, d), Shaped(p, d),
           d.status # "none", place[p].status # "none" => d.of = place[p].of
    PROVE  PlaceInv' /\ PlanInv'
<1> DEFINE late == Intrudes(p, d)
<1>1. PlaceInv /\ place \in [Places -> Place] /\ Shaped(p, place[p]) /\ late \in BOOLEAN
      /\ Stored(p, d, late) /\ Edited(p) /\ UNCHANGED person
  BY DEF IndInv, PlaceInv, PlaceEdit, Intrudes
<1>2. \/ d.status # "live" \/ ExtFree(p, d.of, d.ext) \/ late
      \/ LivePlace(p) /\ place[p].of = d.of /\ place[p].ext = d.ext
  BY DEF Intrudes, LivePlace
<1> HIDE DEF late
<1>3. PlaceInv'
  BY <1>1, <1>2, WriteKeeps
<1>4. place' = [place EXCEPT ![p] = d]
  BY <1>1 DEF Stored
<1>5. PlanInv'
  BY <1>1, <1>4, EditedPlan
<1> QED
  BY <1>3, <1>5

Editing(kind, p) ==
    \/ PlaceCreate(kind, p) \/ PlaceUpdate(kind, p) \/ PlaceArchive(kind, p)
    \/ PlaceUnarchive(kind, p) \/ PlaceHold(kind, p)

LEMMA EditingIs ==
    ASSUME NEW kind, NEW p, Editing(kind, p)
    PROVE  UNCHANGED file /\ UNCHANGED person /\ Edited(p)
BY DEF Editing, PlaceCreate, PlaceUpdate, PlaceArchive, PlaceUnarchive, PlaceHold, PlaceEdit, Edited

LEMMA PlaceEditKeeps ==
    ASSUME IndInv, NEW kind \in Kinds, NEW p \in PlacesOf(kind), Editing(kind, p)
    PROVE  PlaceInv' /\ PlanInv'
<1>1. /\ PlaceInv /\ p \in Places /\ place[p] \in Place /\ Shaped(p, place[p])
  BY Kindly DEF IndInv, PlaceInv
<1>2. CASE PlaceCreate(kind, p)
  <2>1. PICK of \in IF kind = "location" THEN {c \in Companies : Made(c)} ELSE {None},
             ext \in IF kind = "office" THEN {None} ELSE Exts \cup {None}, name \in Names :
          PlaceEdit(kind, p, Fresh(of, [ext |-> ext, name |-> name])) /\ ~Made(p)
    BY <1>2 DEF PlaceCreate
  <2> DEFINE key == [ext |-> ext, name |-> name]
             d == Fresh(of, key)
  <2>2. of \in Companies \cup {None} /\ ext \in Exts \cup {None} /\ key \in Key /\ key.ext = ext
    BY DEF Key
  <2>3. d \in Place /\ d.status = "live" /\ d.of = of /\ d.ext = ext
    <3> HIDE DEF key
    <3> QED
      BY ONLY <2>2, FreshTyped
  <2>4. PlaceEdit(kind, p, d) /\ place[p].status = "none"
    BY <2>1 DEF Made
  <2> HIDE DEF d
  <2>5. Shaped(p, d)
    BY <2>1, <2>3, Kindly DEF Shaped, Kinds
  <2> QED
    BY <1>1, <2>3, <2>4, <2>5, PlaceEdited
<1>3. CASE PlaceUpdate(kind, p)
  <2>1. PICK ext \in Exts \cup {None}, name \in Names :
          PlaceEdit(kind, p, [place[p] EXCEPT !.ext = ext, !.name = name])
            /\ kind # "office" /\ Made(p)
    BY <1>3 DEF PlaceUpdate
  <2> DEFINE d == [place[p] EXCEPT !.ext = ext, !.name = name]
  <2>2. d \in Place /\ d.status = place[p].status /\ d.of = place[p].of /\ d.status # "none"
    BY <1>1, <2>1 DEF Place, Made
  <2>3. PlaceEdit(kind, p, d)
    BY <2>1
  <2> HIDE DEF d
  <2>4. Shaped(p, d)
    BY <1>1, <2>1, <2>2, Kindly DEF Shaped, Kinds
  <2> QED
    BY <1>1, <2>2, <2>3, <2>4, PlaceEdited
<1>4. ASSUME NEW d \in Place, PlaceEdit(kind, p, d), place[p].status # "none", d.status # "none",
             d.of = place[p].of, d.ext = place[p].ext
      PROVE  PlaceInv' /\ PlanInv'
  <2>1. Shaped(p, d)
    BY <1>1, <1>4 DEF Shaped
  <2> QED
    BY <1>1, <1>4, <2>1, PlaceEdited
<1>5. CASE PlaceArchive(kind, p)
  <2> DEFINE d == [place[p] EXCEPT !.status = "archived"]
  <2>1. d \in Place /\ d.status = "archived" /\ d.of = place[p].of /\ d.ext = place[p].ext
    BY <1>1 DEF Place, Statuses
  <2>2. PlaceEdit(kind, p, d) /\ place[p].status # "none"
    BY <1>5 DEF PlaceArchive, LivePlace
  <2> QED
    BY <1>4, <2>1, <2>2
<1>6. CASE PlaceUnarchive(kind, p)
  <2> DEFINE d == [place[p] EXCEPT !.status = "live"]
  <2>1. d \in Place /\ d.status = "live" /\ d.of = place[p].of /\ d.ext = place[p].ext
    BY <1>1 DEF Place, Statuses
  <2>2. PlaceEdit(kind, p, d) /\ place[p].status # "none"
    BY <1>6 DEF PlaceUnarchive
  <2> QED
    BY <1>4, <2>1, <2>2
<1>7. CASE PlaceHold(kind, p)
  <2> DEFINE d == [place[p] EXCEPT !.hold = ~place[p].hold]
  <2>1. d \in Place /\ d.status = place[p].status /\ d.of = place[p].of /\ d.ext = place[p].ext
    BY <1>1 DEF Place
  <2>2. PlaceEdit(kind, p, d) /\ place[p].status # "none"
    BY <1>7 DEF PlaceHold, Made
  <2> QED
    BY <1>4, <2>1, <2>2
<1> QED
  BY <1>2, <1>3, <1>5, <1>6, <1>7 DEF Editing

-----------------------------------------------------------------------------
(* Files and people                                                           *)

LEMMA IdleIs ==
    /\ Idle \in FileDoc /\ Idle.at = 1 /\ Idle.cache = {} /\ Idle.went = << >>
    /\ Idle.got = [k \in Kinds |-> None]
BY IdleTyped DEF Idle

\* A file begins at its first row with nothing in hand.
LEMMA FileBegins ==
    ASSUME NEW rows \in FilesOf, NEW kind \in Files,
           NEW do \in [DOMAIN rows -> Doings], NEW target \in [DOMAIN rows -> People \cup {None}],
           \A i \in DOMAIN rows : do[i] = "update" => target[i] \in People,
           kind \in {"companies", "offices"} => \A i \in DOMAIN rows : do[i] = "upsert",
           NEW pc, kind \in {"people", "legacy"} => pc = "previewed",
           kind = "companies" => pc = "company", kind = "offices" => pc = "office",
           file' = [Idle EXCEPT !.pc = pc, !.kind = kind, !.rows = rows, !.do = do, !.target = target]
    PROVE  FileInv'
<1> DEFINE j == [Idle EXCEPT !.pc = pc, !.kind = kind, !.rows = rows, !.do = do, !.target = target]
<1>1. rows \in Seq(Row) /\ Len(rows) \in 1..MaxRows /\ DOMAIN rows = 1..Len(rows)
  BY FileTyped
<1>2. do \in Seq(Doings) /\ target \in Seq(People \cup {None}) /\ 1 \in 1..Len(rows)
  <2>1. Len(rows) \in Nat /\ 1 \in 1..Len(rows)
    BY <1>1, ImportAssumption
  <2>2. do \in [1..Len(rows) -> Doings]
    BY <1>1
  <2>3. target \in [1..Len(rows) -> People \cup {None}]
    BY <1>1
  <2>4. do \in Seq(Doings)
    BY <2>1, <2>2
  <2>5. target \in Seq(People \cup {None})
    BY <2>1, <2>3
  <2> QED
    BY <2>1, <2>4, <2>5
<1>4. kind \in {"people", "legacy", "companies", "offices"} /\ pc \in {"previewed", "company", "office"}
  BY DEF Files
<1>3. /\ j \in FileDoc /\ j.pc = pc /\ j.kind = kind /\ j.rows = rows /\ j.do = do /\ j.target = target
      /\ j.at = 1 /\ j.got = Idle.got /\ j.cache = Idle.cache /\ j.went = Idle.went
  BY <1>1, <1>2, <1>4, IdleIs DEF FileDoc, Stages, Kinds
<1>6. file' = j
  OBVIOUS
<1> HIDE DEF j
<1>5. j.cache = {} /\ Len(j.went) = 0 /\ DOMAIN j.went = {} /\ \A k \in Kinds : j.got[k] = None
  BY <1>3, IdleIs
<1>7. FileOK(j)
  BY <1>1, <1>2, <1>3, <1>5 DEF FileOK
<1>8. StageOK(j)
  BY <1>3, <1>4 DEF StageOK
<1>9. GotOK(j) /\ CacheOK(j)
  BY <1>5 DEF GotOK, CacheOK
<1>10. WentOK(j)
  BY <1>5 DEF WentOK, GoesTo, Kinds
<1> QED
  BY <1>3, <1>4, <1>6, <1>7, <1>8, <1>9, <1>10 DEF FileInv

LEMMA PreviewKeeps ==
    ASSUME NEW rows \in FilesOf, NEW kind \in {"people", "legacy"}, PreviewPeople(rows, kind)
    PROVE  FileInv'
<1> DEFINE do == [i \in DOMAIN rows |-> IF kind = "people" /\ Duplicate(rows, i) THEN "skip"
                                        ELSE Suggested(rows, i)]
<1>1. PICK target \in [DOMAIN rows -> People \cup {None}] :
        /\ \A i \in DOMAIN rows : target[i] \in Matches(rows[i].email)
        /\ file' = [Idle EXCEPT !.pc = "previewed", !.kind = kind, !.rows = rows, !.target = target,
                                !.do = do]
  BY DEF PreviewPeople
<1>2. do \in [DOMAIN rows -> Doings]
  BY DEF Suggested, Doings
<1>3. \A i \in DOMAIN rows : do[i] = "update" => target[i] \in People
  BY <1>1 DEF Suggested, Matches, Holders
<1> HIDE DEF do
<1>4. file' = [Idle EXCEPT !.pc = "previewed", !.kind = kind, !.rows = rows, !.do = do, !.target = target]
  BY <1>1 DEF Idle
<1> QED
  BY <1>2, <1>3, <1>4, FileBegins DEF Files

LEMMA UploadKeeps ==
    ASSUME NEW rows \in FilesOf, NEW kind \in {"companies", "offices"}, Upload(rows, kind)
    PROVE  FileInv'
<1> DEFINE do == [i \in DOMAIN rows |-> "upsert"]
           target == [i \in DOMAIN rows |-> None]
           pc == IF kind = "companies" THEN "company" ELSE "office"
<1>1. /\ do \in [DOMAIN rows -> Doings] /\ target \in [DOMAIN rows -> People \cup {None}]
      /\ \A i \in DOMAIN rows : do[i] = "update" => target[i] \in People
      /\ \A i \in DOMAIN rows : do[i] = "upsert"
  BY DEF Doings
<1>2. file' = [Idle EXCEPT !.pc = pc, !.kind = kind, !.rows = rows, !.do = do, !.target = target]
  BY DEF Upload
<1> HIDE DEF do, target
<1> QED
  BY <1>1, <1>2, FileBegins DEF Files

LEMMA ConfirmKeeps ==
    ASSUME FileInv, Confirm
    PROVE  FileInv'
<1> DEFINE j == [file EXCEPT !.pc = "company"]
<1>1. /\ file \in FileDoc /\ FileOK(file) /\ StageOK(file) /\ GotOK(file) /\ CacheOK(file) /\ WentOK(file)
      /\ file.pc = "previewed"
  BY Held DEF Confirm
<1>2. /\ j \in FileDoc /\ j.pc = "company" /\ j.kind = file.kind /\ j.rows = file.rows /\ j.do = file.do
      /\ j.target = file.target /\ j.at = file.at /\ j.got = file.got /\ j.cache = file.cache
      /\ j.went = file.went
  BY <1>1 DEF FileDoc, Stages, Kinds
<1>3. file' = j
  BY DEF Confirm
<1> HIDE DEF j
<1>4. FileOK(j) /\ StageOK(j) /\ GotOK(j) /\ CacheOK(j)
  BY <1>1, <1>2 DEF FileOK, StageOK, GotOK, CacheOK
<1>5. WentOK(j)
  BY <1>1, <1>2 DEF WentOK, GoesTo, NamedOnly
<1> QED
  BY <1>2, <1>3, <1>4, <1>5 DEF FileInv

\* What a row of people checks, and what is decided on then.
LEMMA PersonCheckKeeps ==
    ASSUME IndInv, PersonCheck
    PROVE  FileInv' /\ PlanInv'
<1>1. /\ FileInv /\ PersonInv /\ file.pc = "person" /\ plan = NoPlan
      /\ UNCHANGED place /\ UNCHANGED person
  BY DEF IndInv, PersonCheck
<1>2. /\ FileOK(file) /\ file.at \in DOMAIN file.rows
  BY <1>1, Held
<1>3. PlacesFit => \A k \in Kinds : Got(k) = None \/ LivePlace(Got(k))
  BY DEF PlacesFit, PlacesLive, Kinds
<1>4. ASSUME MayCreate, plan' = Planned("create", None, Nobody), UNCHANGED file
      PROVE  FileInv' /\ PlanInv'
  <2> DEFINE q == Planned("create", None, Nobody)
  <2>1. q \in PlanDoc /\ q.what = "create" /\ plan' = q
    BY <1>4, PlannedTyped, NobodyTyped
  <2> HIDE DEF q
  <2>2. PlanFits(q)
    BY <1>1, <1>3, <1>4, <2>1 DEF PlanFits, PersonFits, MayCreate
  <2> QED
    BY <1>1, <1>4, <2>1, <2>2, PlanMade DEF FileInv
<1>5. ASSUME MayUpdate, plan' = Planned("update", Target, person[Target]), UNCHANGED file
      PROVE  FileInv' /\ PlanInv'
  <2> DEFINE q == Planned("update", Target, person[Target])
  <2>1. /\ Target \in People /\ person[Target] \in Person /\ person[Target].status = "live"
        /\ ~person[Target].hold /\ PlacesFit
    BY <1>1, <1>2, <1>5 DEF MayUpdate, Target, FileOK, LivePerson, PersonInv
  <2>2. q \in PlanDoc /\ q.what = "update" /\ q.on = Target /\ q.seen = person[Target] /\ plan' = q
    BY <1>5, <2>1, PlannedTyped
  <2> HIDE DEF q
  <2>3. PlanFits(q)
    BY <1>1, <1>3, <2>1, <2>2 DEF PlanFits, PersonFits
  <2> QED
    BY <1>1, <1>5, <2>2, <2>3, PlanMade DEF FileInv
<1>6. CASE file' = RowDone(file) /\ UNCHANGED plan
  BY <1>1, <1>6, RowDoneKeeps, PlanDropped
<1> QED
  BY <1>4, <1>5, <1>6 DEF PersonCheck

LEMMA SavedPersonTyped ==
    ASSUME IndInv, file.pc = "person", NEW seen \in Person, NEW now \in Person
    PROVE  LET d == SavedPerson(Updated(seen), seen, now) IN
           /\ d \in Person /\ d.status = now.status
           /\ d.company \in {Got("company"), now.company}
           /\ d.location \in {None, Got("location"), now.location}
           /\ d.office \in {Got("office"), now.office}
<1>1. /\ Mine \in Row /\ GotOK(file)
  BY Held DEF IndInv
<1>2. /\ Got("company") \in Companies \cup {None} /\ Got("location") \in Locations \cup {None}
      /\ Got("office") \in Offices \cup {None} /\ Mine.email \in Emails \cup {None}
  BY <1>1, Kindly DEF GotOK, Got, Kinds, Row
<1> DEFINE new == Updated(seen)
           e == IF new.email # seen.email THEN new.email ELSE now.email
           c == IF new.company # seen.company THEN new.company ELSE now.company
           l == IF new.location # seen.location THEN new.location ELSE now.location
           o == IF new.office # seen.office THEN new.office ELSE now.office
           d == [now EXCEPT !.email = e, !.company = c, !.location = l, !.office = o]
<1>3. /\ new.email = Or(Mine.email, seen.email) /\ new.company = Or(Got("company"), seen.company)
      /\ new.location = (IF Got("company") # None THEN Got("location") ELSE seen.location)
      /\ new.office = Or(Got("office"), seen.office)
  BY DEF Updated, Person
<1>4. SavedPerson(new, seen, now) = d
  BY DEF SavedPerson
<1> HIDE DEF new
<1>5. /\ e \in Emails \cup {None} /\ c \in Companies \cup {None} /\ l \in Locations \cup {None}
      /\ o \in Offices \cup {None}
      /\ c \in {Got("company"), now.company} /\ l \in {Got("location"), now.location}
      /\ o \in {Got("office"), now.office}
  BY <1>2, <1>3 DEF Or, Person
<1> HIDE DEF e, c, l, o
<1>6. d \in Person /\ d.status = now.status /\ d.company = c /\ d.location = l /\ d.office = o
  BY <1>5 DEF Person
<1> QED
  BY <1>4, <1>5, <1>6 DEF new

\* What a row of people writes.
LEMMA SaveWrites ==
    ASSUME IndInv, PersonSave
    PROVE  /\ file' = RowDone(file) /\ file.pc = "person" /\ plan' = NoPlan /\ PersonFits(plan)
           /\ UNCHANGED place /\ UNCHANGED loose /\ edits' = edits
           /\ \/ UNCHANGED person
              \/ \E p \in People, d \in Person :
                   /\ person' = [person EXCEPT ![p] = d] /\ d.status # "none"
                   /\ person[p].status = "none" \/ ~person[p].hold \/ p \in plan.since
                   /\ d.company \in {Got("company"), person[p].company}
                   /\ d.location \in {None, Got("location"), person[p].location}
                   /\ d.office \in {Got("office"), person[p].office}
<1>1. /\ file' = RowDone(file) /\ file.pc = "person" /\ plan' = NoPlan /\ PersonFits(plan)
      /\ UNCHANGED place /\ UNCHANGED loose /\ edits' = edits
  BY PlanIs DEF PersonSave
<1>2. /\ Mine \in Row /\ GotOK(file) /\ person \in [People -> Person]
  BY <1>1, Held DEF IndInv, PersonInv
<1>3. ASSUME NEW p \in People, person[p].status = "none", person' = [person EXCEPT ![p] = Created]
      PROVE  \E q \in People, d \in Person :
               /\ person' = [person EXCEPT ![q] = d] /\ d.status # "none"
               /\ person[q].status = "none" \/ ~person[q].hold \/ q \in plan.since
               /\ d.company \in {Got("company"), person[q].company}
               /\ d.location \in {None, Got("location"), person[q].location}
               /\ d.office \in {Got("office"), person[q].office}
  <2>1. /\ Got("company") \in Companies \cup {None} /\ Got("location") \in Locations \cup {None}
        /\ Got("office") \in Offices \cup {None} /\ Mine.email \in Emails \cup {None}
    BY <1>2, Kindly DEF GotOK, Got, Kinds, Row
  <2>2. /\ Created \in Person /\ Created.status = "live" /\ Created.company = Got("company")
        /\ Created.location = Got("location") /\ Created.office = Got("office")
    BY <2>1, NobodyTyped DEF Created, Person, Statuses
  <2> QED
    BY <1>3, <2>2
<1>4. ASSUME plan.what = "update",
             person' = [person EXCEPT ![plan.on] = SavedPerson(Updated(plan.seen), plan.seen, @)]
      PROVE  \E q \in People, d \in Person :
               /\ person' = [person EXCEPT ![q] = d] /\ d.status # "none"
               /\ person[q].status = "none" \/ ~person[q].hold \/ q \in plan.since
               /\ d.company \in {Got("company"), person[q].company}
               /\ d.location \in {None, Got("location"), person[q].location}
               /\ d.office \in {Got("office"), person[q].office}
  <2> DEFINE q == plan.on
             d == SavedPerson(Updated(plan.seen), plan.seen, person[q])
  <2>1. /\ q \in People /\ person[q] \in Person /\ plan.seen \in Person /\ person[q].status # "none"
        /\ ~person[q].hold \/ q \in plan.since
    BY <1>1, <1>2, <1>4 DEF PersonFits
  <2>2. person' = [person EXCEPT ![q] = d]
    BY <1>2, <1>4, <2>1
  <2>3. /\ d \in Person /\ d.status = person[q].status
        /\ d.company \in {Got("company"), person[q].company}
        /\ d.location \in {None, Got("location"), person[q].location}
        /\ d.office \in {Got("office"), person[q].office}
    BY <1>1, <2>1, SavedPersonTyped
  <2> HIDE DEF q, d
  <2> QED
    BY <2>1, <2>2, <2>3
<1> QED
  BY <1>1, <1>3, <1>4 DEF PersonSave

LEMMA PeopleStay ==
    ASSUME PersonInv, UNCHANGED person
    PROVE  PersonInv'
BY DEF PersonInv

LEMMA PersonSaveKeeps ==
    ASSUME IndInv, PersonSave
    PROVE  FileInv' /\ PlaceInv' /\ PersonInv' /\ PlanInv'
<1>1. /\ file' = RowDone(file) /\ file.pc = "person" /\ UNCHANGED place /\ UNCHANGED loose
      /\ plan' = NoPlan
  BY SaveWrites
<1>2. FileInv' /\ PlaceInv' /\ PlanInv'
  BY <1>1, RowDoneKeeps, PlacesStay, PlanDropped DEF IndInv
<1>3. ASSUME NEW p \in People, NEW d \in Person, person' = [person EXCEPT ![p] = d], d.status # "none"
      PROVE  PersonInv'
  BY <1>3 DEF IndInv, PersonInv
<1> QED
  BY <1>2, <1>3, SaveWrites, PeopleStay DEF IndInv

LEMMA PersonEditKeeps ==
    ASSUME IndInv, NEW p \in People, PersonEdit(p)
    PROVE  /\ PersonInv' /\ PlanInv'
           /\ \A q \in People : /\ person'[q].company = person[q].company
                                /\ person'[q].location = person[q].location
                                /\ person'[q].office = person[q].office
<1>1. /\ person \in [People -> Person] /\ person[p] \in Person /\ person[p].status # "none"
      /\ \A q \in People : person[q].status = "none" => person[q] = Nobody
      /\ Edited(p) /\ UNCHANGED place
  BY DEF IndInv, PersonInv, PersonEdit
<1>2. ASSUME NEW d \in Person, person' = [person EXCEPT ![p] = d], d.status # "none",
             d.company = person[p].company, d.location = person[p].location, d.office = person[p].office
      PROVE  /\ PersonInv' /\ PlanInv'
             /\ \A q \in People : /\ person'[q].company = person[q].company
                                  /\ person'[q].location = person[q].location
                                  /\ person'[q].office = person[q].office
  <2>1. person'[p] = d /\ \A q \in People \ {p} : person'[q] = person[q]
    BY <1>1, <1>2
  <2>2. \A q \in People : person[q].status # "none" => person'[q].status # "none"
    BY <1>2, <2>1
  <2>3. \A q \in People : q = p \/ person'[q] = person[q]
    BY <2>1
  <2>4. PlanInv'
    BY <1>1, <2>2, <2>3, EditedPlan
  <2> QED
    BY <1>1, <1>2, <2>1, <2>4 DEF PersonInv
<1>3. CASE person' = [person EXCEPT ![p].status = "archived"]
  <2> DEFINE d == [person[p] EXCEPT !.status = "archived"]
  <2>1. /\ d \in Person /\ d.status # "none" /\ d.company = person[p].company
        /\ d.location = person[p].location /\ d.office = person[p].office
    BY <1>1 DEF Person, Statuses
  <2>2. person' = [person EXCEPT ![p] = d]
    BY <1>1, <1>3
  <2> QED
    BY <1>2, <2>1, <2>2
<1>4. ASSUME NEW e \in Emails, person' = [person EXCEPT ![p].email = e]
      PROVE  /\ PersonInv' /\ PlanInv'
             /\ \A q \in People : /\ person'[q].company = person[q].company
                                  /\ person'[q].location = person[q].location
                                  /\ person'[q].office = person[q].office
  <2> DEFINE d == [person[p] EXCEPT !.email = e]
  <2>1. /\ d \in Person /\ d.status # "none" /\ d.company = person[p].company
        /\ d.location = person[p].location /\ d.office = person[p].office
    BY <1>1, <1>4 DEF Person
  <2>2. person' = [person EXCEPT ![p] = d]
    BY <1>1, <1>4
  <2> QED
    BY <1>2, <2>1, <2>2
<1>5. CASE person' = [person EXCEPT ![p].hold = ~@]
  <2> DEFINE d == [person[p] EXCEPT !.hold = ~person[p].hold]
  <2>1. /\ d \in Person /\ d.status # "none" /\ d.company = person[p].company
        /\ d.location = person[p].location /\ d.office = person[p].office
    BY <1>1 DEF Person
  <2>2. person' = [person EXCEPT ![p] = d]
    BY <1>1, <1>5
  <2> QED
    BY <1>2, <2>1, <2>2
<1> QED
  BY <1>3, <1>4, <1>5 DEF PersonEdit

-----------------------------------------------------------------------------
(* Every step                                                                 *)

LEMMA FileStays ==
    ASSUME FileInv, UNCHANGED file
    PROVE  FileInv'
BY DEF FileInv

\* The counters stay inside their bounds.
LEMMA CountKeeps ==
    ASSUME CountInv, [DirectoryNext]_directoryVars
    PROVE  CountInv'
<1>1. \/ UNCHANGED <<imports, edits>>
      \/ imports < MaxImports /\ imports' = imports + 1 /\ edits' = edits
      \/ edits < MaxEdits /\ edits' = edits + 1 /\ imports' = imports
  <2>1. ASSUME NEW rows \in FilesOf, NEW kind, PreviewPeople(rows, kind) \/ Upload(rows, kind)
        PROVE  imports < MaxImports /\ imports' = imports + 1 /\ edits' = edits
    BY <2>1 DEF PreviewPeople, Upload, Begin
  <2>2. ASSUME NEW kind, NEW p, Editing(kind, p)
        PROVE  edits < MaxEdits /\ edits' = edits + 1 /\ imports' = imports
    BY <2>2, EditingIs DEF Edited
  <2>3. ASSUME NEW p \in People, PersonEdit(p)
        PROVE  edits < MaxEdits /\ edits' = edits + 1 /\ imports' = imports
    BY <2>3 DEF PersonEdit, Edited
  <2>4. CASE \/ Confirm \/ Skip \/ PersonCheck \/ PersonSave
             \/ BulkSeek \/ BulkWrite
             \/ \E kind \in {"company", "location"} : UpsertSeek(kind) \/ UpsertWrite(kind)
             \/ \E kind \in Kinds : Resolve(kind) \/ Make(kind)
    BY <2>4 DEF Confirm, Skip, PersonCheck, PersonSave, UpsertSeek, UpsertWrite, BulkSeek, BulkWrite,
       Resolve, Make
  <2> QED
    BY <2>1, <2>2, <2>3, <2>4 DEF DirectoryNext, directoryVars, Editing
<1> QED
  BY <1>1, ImportAssumption DEF CountInv

LEMMA NextKeeps ==
    ASSUME IndInv, [DirectoryNext]_directoryVars
    PROVE  IndInv'
<1>1. FileInv /\ PlaceInv /\ PersonInv /\ PlanInv /\ CountInv'
  BY CountKeeps DEF IndInv
<1> DEFINE Keeps == FileInv' /\ PlaceInv' /\ PersonInv' /\ PlanInv'
<1>2. ASSUME NEW rows \in FilesOf,
             (\E kind \in {"people", "legacy"} : PreviewPeople(rows, kind))
               \/ \E kind \in {"companies", "offices"} : Upload(rows, kind)
      PROVE  Keeps
  <2>1. FileInv' /\ UNCHANGED <<place, person, loose, plan>> /\ file.pc = "idle"
    BY <1>2, PreviewKeeps, UploadKeeps DEF PreviewPeople, Upload, Begin
  <2>2. plan = NoPlan
    BY <2>1, PlanIs
  <2> QED
    BY <1>1, <2>1, <2>2, PlacesStay, PeopleStay, PlanDropped
<1>3. ASSUME Confirm \/ Skip
      PROVE  Keeps
  <2>1. FileInv'
    BY <1>1, <1>3, ConfirmKeeps, RowDoneKeeps DEF Skip
  <2>2. UNCHANGED <<place, person, loose, plan>>
    BY <1>3 DEF Confirm, Skip
  <2>3. plan = NoPlan
    BY <1>3, PlanIs DEF Confirm, Skip, Kinds
  <2> QED
    BY <1>1, <2>1, <2>2, <2>3, PlacesStay, PeopleStay, PlanDropped
<1>4. ASSUME NEW kind \in Kinds, Resolve(kind)
      PROVE  Keeps
  <2>1. UNCHANGED <<place, person, loose>>
    BY <1>4 DEF Resolve
  <2> QED
    BY <1>1, <1>4, <2>1, ResolveKeeps, PlacesStay, PeopleStay
<1>5. ASSUME NEW kind \in Kinds, Make(kind)
      PROVE  Keeps
  <2>1. UNCHANGED person
    BY <1>5 DEF Make
  <2> QED
    BY <1>1, <1>5, <2>1, MakeKeeps, PeopleStay
<1>6. ASSUME NEW kind \in {"company", "location"}, UpsertSeek(kind) \/ UpsertWrite(kind)
      PROVE  Keeps
  <2>1. CASE UpsertSeek(kind)
    <3>1. UNCHANGED <<place, person, loose>>
      BY <2>1 DEF UpsertSeek
    <3> QED
      BY <1>1, <2>1, <3>1, UpsertSeekKeeps, PlacesStay, PeopleStay
  <2>2. CASE UpsertWrite(kind)
    <3>1. UNCHANGED person
      BY <2>2 DEF UpsertWrite
    <3> QED
      BY <1>1, <2>2, <3>1, UpsertWriteKeeps, PeopleStay
  <2> QED
    BY <1>6, <2>1, <2>2
<1>7. ASSUME BulkSeek \/ PersonCheck
      PROVE  Keeps
  <2>1. UNCHANGED <<place, person, loose>>
    BY <1>7 DEF BulkSeek, PersonCheck
  <2> QED
    BY <1>1, <1>7, <2>1, BulkSeekKeeps, PersonCheckKeeps, PlacesStay, PeopleStay
<1>8. ASSUME BulkWrite
      PROVE  Keeps
  <2>1. UNCHANGED person
    BY <1>8 DEF BulkWrite
  <2> QED
    BY <1>1, <1>8, <2>1, BulkWriteKeeps, PeopleStay
<1>9. ASSUME NEW kind \in Kinds, NEW p \in PlacesOf(kind), Editing(kind, p)
      PROVE  Keeps
  <2>1. UNCHANGED file /\ UNCHANGED person
    BY <1>9, EditingIs
  <2> QED
    BY <1>1, <1>9, <2>1, PlaceEditKeeps, FileStays, PeopleStay
<1>10. ASSUME NEW p \in People, PersonEdit(p)
      PROVE  Keeps
  <2>1. UNCHANGED <<file, place, loose>>
    BY <1>10 DEF PersonEdit, Edited
  <2> QED
    BY <1>1, <1>10, <2>1, PersonEditKeeps, FileStays, PlacesStay
<1>11. ASSUME UNCHANGED directoryVars
      PROVE  Keeps
  <2>1. UNCHANGED <<file, place, person, loose, plan>>
    BY <1>11 DEF directoryVars
  <2>2. PlanInv'
    <3>1. CASE plan = NoPlan
      BY <2>1, <3>1, PlanDropped
    <3>2. CASE plan # NoPlan
      BY <1>1, <2>1, <3>2, PlanMade DEF PlanInv
    <3> QED
      BY <3>1, <3>2
  <2> QED
    BY <1>1, <2>1, <2>2, FileStays, PlacesStay, PeopleStay
<1>12. Keeps
  <2> HIDE DEF Keeps
  <2> QED
    BY <1>2, <1>3, <1>4, <1>5, <1>6, <1>7, <1>8, <1>9, <1>10, <1>11, PersonSaveKeeps
       DEF DirectoryNext, Editing, Keeps
<1> QED
  BY <1>1, <1>12 DEF IndInv

\* The inductive invariant of an import and of those who edit meanwhile.
THEOREM Inductive ==
    DirectorySpec => []IndInv
<1>1. DirectoryInit => IndInv
  BY InitInv
<1>2. IndInv /\ [DirectoryNext]_directoryVars => IndInv'
  BY NextKeeps
<1> QED
  BY <1>1, <1>2, PTL DEF DirectorySpec

-----------------------------------------------------------------------------
(* What follows                                                               *)

\* Documents, the file in hand and the counters are what DirectoryTypeOK says.
THEOREM DirectoryTypeCorrect ==
    DirectorySpec => []DirectoryTypeOK
<1>1. ASSUME IndInv PROVE DirectoryTypeOK
  <2>1. /\ file.pc \in Stages /\ file.kind \in Files
        /\ file.got \in [Kinds -> Places \cup {None}] /\ file.cache \subseteq Cached
    BY <1>1 DEF IndInv, FileInv, FileDoc
  <2>2. Len(file.rows) <= MaxRows /\ file.at \in 1..MaxRows + 1
    <3>1. CASE file.pc = "idle"
      <4>1. file.rows = << >> /\ file.at = 1
        BY <1>1, <3>1 DEF IndInv, FileInv, Idle
      <4> QED
        BY <4>1, ImportAssumption
    <3>2. CASE file.pc # "idle"
      <4>1. file.rows \in FilesOf /\ file.at \in 1..Len(file.rows)
        BY <1>1, <3>2 DEF IndInv, FileInv, FileOK
      <4>2. Len(file.rows) \in 1..MaxRows
        BY <4>1, FileTyped
      <4> QED
        BY <4>1, <4>2, ImportAssumption
    <3> QED
      BY <3>1, <3>2
  <2>3. /\ plan.what \in {"none", "create", "update"} /\ plan.on \in Places \cup People \cup {None}
        /\ plan.seen \in Place \cup Person /\ plan.since \subseteq Places \cup People
    BY <1>1 DEF IndInv, PlanInv, PlanDoc
  <2> QED
    BY <1>1, <2>1, <2>2, <2>3 DEF IndInv, PlaceInv, PersonInv, CountInv, Stages, DirectoryTypeOK
<1> QED
  BY <1>1, Inductive, PTL

\* Two live places of one parent share an external id only where one of them was
\* written by somebody whose look-up was out of date, or brought back without one:
\* what a write relies on is so until another write comes in between.
THEOREM OneExternalId ==
    DirectorySpec => []OneOfAnExternalId
<1>1. IndInv => OneOfAnExternalId
  BY DEF IndInv, PlaceInv
<1> QED
  BY <1>1, Inductive, PTL

\* Rows of a file that name a company and nothing else are all of one company: the
\* first of them leaves what it found in the cache, and the others take it there.
THEOREM NameGoesToOne ==
    DirectorySpec => []NameGoesToOneCompany
<1> DEFINE went == file.went \o (IF file.pc \in {"location", "office", "person"}
                               THEN <<file.got["company"]>> ELSE << >>)
           bare(i) == [ext |-> None, name |-> file.rows[i].company.name]
<1>1. ASSUME IndInv, file.kind \in {"people", "legacy"}, NEW i \in DOMAIN went
      PROVE  GoesTo(file, i, went[i]) /\ CacheOK(file)
  <2>1. CASE file.pc = "idle"
    <3>1. file.went = << >> /\ file.pc = "idle"
      BY <1>1, <2>1, IdleIs DEF IndInv, FileInv
    <3>2. went = << >> \o << >>
      BY <3>1 DEF went
    <3> HIDE DEF went
    <3> QED
      BY <1>1, <3>2
  <2>2. CASE file.pc # "idle"
    <3> DEFINE w == file.got["company"]
    <3>1. /\ FileOK(file) /\ CacheOK(file) /\ WentOK(file) /\ w \in Companies \cup {None}
          /\ file.went \in Seq(Companies \cup {None})
      BY <1>1, <2>2, Held DEF IndInv, FileDoc
    <3>2. Len(file.went) = file.at - 1 /\ file.at \in Nat
      BY <1>1, <3>1, <2>2, Held DEF FileOK, IndInv, FileDoc
    <3>3. /\ \A k \in DOMAIN file.went : GoesTo(file, k, file.went[k])
          /\ GoesTo(file, file.at, w)
      BY <1>1, <3>1 DEF WentOK
    <3> HIDE DEF w, went
    <3>4. CASE went = file.went \o <<w>>
      <4>1. i \in 1..file.at
        BY <1>1, <3>1, <3>2, <3>4
      <4>2. i # file.at => i \in DOMAIN file.went /\ went[i] = file.went[i]
        BY <3>1, <3>2, <3>4, <4>1
      <4>3. i = file.at => went[i] = w
        BY <3>1, <3>2, <3>4, <4>1
      <4> QED
        BY <3>1, <3>3, <4>2, <4>3
    <3>5. CASE went = file.went \o << >>
      <4>1. i \in DOMAIN file.went /\ went[i] = file.went[i]
        BY <1>1, <3>1, <3>5
      <4> QED
        BY <3>1, <3>3, <4>1
    <3> QED
      BY <3>4, <3>5 DEF w, went
  <2> QED
    BY <2>1, <2>2
<1>2. IndInv => NameGoesToOneCompany
  <2> SUFFICES ASSUME IndInv, file.kind \in {"people", "legacy"}, NEW i \in DOMAIN went,
                      NEW j \in DOMAIN went,
                      file.kind = "legacy" \/
                        {file.rows[i].company, file.rows[j].company} \subseteq {bare(i)},
                      bare(i) = bare(j), None \notin {went[i], went[j]}
               PROVE  went[i] = went[j]
    BY DEF NameGoesToOneCompany
  <2>1. GoesTo(file, i, went[i]) /\ GoesTo(file, j, went[j]) /\ CacheOK(file)
    BY <1>1
  <2> DEFINE name == file.rows[i].company.name
             cached(w) == [kind |-> "company", of |-> None, by |-> "name", key |-> name, place |-> w]
  <2>2. file.rows[j].company.name = name
    <3>1. bare(i).name = name /\ bare(j).name = file.rows[j].company.name
      OBVIOUS
    <3> QED
      BY <3>1
  <2>3. NamedOnly(file, i) /\ NamedOnly(file, j)
    <3>1. bare(i).ext = None
      OBVIOUS
    <3> QED
      BY <3>1 DEF NamedOnly
  <2> HIDE DEF went, bare
  <2>4. cached(went[i]) \in file.cache /\ cached(went[j]) \in file.cache
    BY <2>1, <2>2, <2>3 DEF GoesTo
  <2> HIDE DEF name
  <2>5. \A w : /\ cached(w).kind = "company" /\ cached(w).of = None /\ cached(w).by = "name"
               /\ cached(w).key = name /\ cached(w).place = w
    OBVIOUS
  <2> HIDE DEF cached
  <2> QED
    BY <2>1, <2>4, <2>5 DEF CacheOK
<1> QED
  BY <1>2, Inductive, PTL

\* A row checks the places it found, however long ago the cache met them, and one
\* that is not live when the person is written was archived after these checks.
THEOREM PeopleIntoLivePlaces ==
    DirectorySpec => IntoLivePlaces
<1> DEFINE Kept(p) == \A k \in {person'[p].company, person'[p].location, person'[p].office} :
                        \/ k \in {None, person[p].company, person[p].location, person[p].office}
                        \/ LivePlace(k) \/ k \in plan.since
<1>1. IndInv /\ [DirectoryNext]_directoryVars => [\A p \in People : Kept(p)]_directoryVars
  <2> SUFFICES ASSUME IndInv, [DirectoryNext]_directoryVars, NEW p \in People
               PROVE  Kept(p)
    OBVIOUS
  <2>1. CASE UNCHANGED person
    BY <2>1
  <2>2. CASE PersonSave
    <3>1. \A k \in {Got("company"), Got("location"), Got("office")} :
            k = None \/ LivePlace(k) \/ k \in plan.since
      BY <2>2, SaveWrites DEF PersonFits, Kinds
    <3>2. ASSUME NEW q \in People, NEW d \in Person, person' = [person EXCEPT ![q] = d],
                 d.company \in {Got("company"), person[q].company},
                 d.location \in {None, Got("location"), person[q].location},
                 d.office \in {Got("office"), person[q].office}
          PROVE  Kept(p)
      <4>1. person'[p] = IF p = q THEN d ELSE person[p]
        BY <3>2 DEF IndInv, PersonInv
      <4> QED
        BY <3>1, <3>2, <4>1
    <3> QED
      BY <2>1, <2>2, <3>2, SaveWrites
  <2>3. CASE \E q \in People : PersonEdit(q)
    <3>1. /\ person'[p].company = person[p].company /\ person'[p].location = person[p].location
          /\ person'[p].office = person[p].office
      BY <2>3, PersonEditKeeps
    <3> QED
      BY <3>1
  <2>4. \/ UNCHANGED person \/ PersonSave \/ \E q \in People : PersonEdit(q)
    <3>1. \A kind, q : Editing(kind, q) => UNCHANGED person
      BY EditingIs
    <3> QED
      BY <3>1 DEF DirectoryNext, directoryVars, PreviewPeople, Upload, Begin, Confirm, Skip, Resolve, Make,
         PersonCheck, UpsertSeek, UpsertWrite, BulkSeek, BulkWrite, Editing
  <2> QED
    BY <2>1, <2>2, <2>3, <2>4
<1> QED
  BY <1>1, Inductive, PTL DEF DirectorySpec, IntoLivePlaces

\* An import of people or of offices writes no place and no person on legal hold
\* but one that somebody has written since the import looked at it.
THEOREM HoldsAreRespected ==
    DirectorySpec => ImportsRespectHolds
<1> DEFINE Respected == edits' = edits /\ file.kind # "companies" =>
             /\ \A p \in Places \ plan.since : place[p].hold => place'[p] = place[p]
             /\ \A p \in People \ plan.since : person[p].hold => person'[p] = person[p]
<1>1. IndInv /\ [DirectoryNext]_directoryVars => [Respected]_directoryVars
  <2> SUFFICES ASSUME IndInv, [DirectoryNext]_directoryVars, edits' = edits, file.kind # "companies"
               PROVE  Respected
    OBVIOUS
  <2>1. /\ place \in [Places -> Place] /\ person \in [People -> Person] /\ edits \in Nat
        /\ \A p \in Places : place[p].status = "none" => ~place[p].hold
        /\ \A p \in People : person[p].status = "none" => ~person[p].hold
    <3>1. edits \in Nat
      BY ImportAssumption DEF IndInv, CountInv
    <3> QED
      BY <3>1, NowhereTyped, NobodyTyped DEF IndInv, PlaceInv, PersonInv, Shaped
  <2>2. ASSUME NEW p \in Places, NEW d, ~place[p].hold \/ p \in plan.since,
               place' = [place EXCEPT ![p] = d], UNCHANGED person
        PROVE  Respected
    BY <2>1, <2>2
  <2>3. CASE UNCHANGED <<place, person>>
    BY <2>3
  <2>4. CASE PersonSave
    <3>1. ASSUME NEW q \in People, NEW d, person' = [person EXCEPT ![q] = d], UNCHANGED place,
                 ~person[q].hold \/ q \in plan.since
          PROVE  Respected
      BY <2>1, <3>1
    <3> QED
      BY <2>1, <2>3, <2>4, <3>1, SaveWrites
  <2>5. ASSUME NEW kind \in Kinds, Make(kind)
        PROVE  Respected
    <3>1. \A p \in Unused(kind) : p \in Places /\ ~place[p].hold
      BY <2>1, Kindly DEF Unused
    <3> QED
      BY <2>2, <2>3, <2>5, <3>1 DEF Make, Stored
  <2>6. CASE BulkWrite
    <3>1. \A p \in Unused("office") : p \in Places /\ ~place[p].hold
      BY <2>1, Kindly DEF Unused, Kinds
    <3>2. plan.what = "update" =>
            plan.on \in Places /\ (~place[plan.on].hold \/ plan.on \in plan.since)
      BY <2>6, PlanIs DEF BulkWrite, BulkFits, Places
    <3> QED
      BY <2>2, <2>3, <2>6, <3>1, <3>2 DEF BulkWrite, Stored
  <2>7. /\ ~\E kind \in Kinds : \E p \in PlacesOf(kind) : Editing(kind, p)
        /\ ~\E p \in People : PersonEdit(p)
    <3>1. \A it : ~Edited(it)
      BY <2>1 DEF Edited
    <3> QED
      BY <3>1, EditingIs DEF PersonEdit
  <2>8. UNCHANGED <<place, person>> \/ PersonSave \/ BulkWrite \/ \E kind \in Kinds : Make(kind)
    BY <2>7 DEF DirectoryNext, directoryVars, PreviewPeople, Upload, Begin, Confirm, Skip, Resolve,
       PersonCheck, UpsertSeek, UpsertWrite, BulkSeek, Editing
  <2> QED
    BY <2>3, <2>4, <2>5, <2>6, <2>8
<1> QED
  BY <1>1, Inductive, PTL DEF DirectorySpec, ImportsRespectHolds

-----------------------------------------------------------------------------
(* The cost codes: the inductive invariants                                   *)

Committing(r) == req[r].pc \in {"commit.delete", "commit.insert", "commit.save"}
Seeding(r) == req[r].pc \in {"seed.delete", "seed.insert"}
Importing(r) == req[r].pc \in {"import.parse", "import.add", "import.refuse"}
Inserting(r) == req[r].pc \in {"commit.insert", "seed.insert"}

\* A request that replaces the codes has a list, and one of a job has its job;
\* so has a worker.
ReqsOK ==
    /\ req \in [Requests -> Request]
    /\ \A r \in Requests :
         /\ Importing(r) \/ Committing(r) => req[r].job \in Jobs
         /\ Replacing(r) => req[r].list \in Lists /\ req[r].at \in 1..Len(req[r].list)

RunsOK ==
    /\ run \in [Workers -> Run]
    /\ \A w \in Workers : run[w].pc # "idle" => run[w].job \in Jobs

CodesInv ==
    /\ book \in [Codes -> Sources] /\ job \in [Jobs -> Job] /\ entry \in [Jobs -> Entry]
    /\ faults \in [FaultKinds -> 0 .. MaxFaults]
    /\ ReqsOK /\ RunsOK

\* No answer of the queue is lost, and no worker loses its lock and runs on.
Calm == "lost-reply" \notin Liberties /\ "blocked" \notin Liberties

\* What a worker has made of the job it loaded.
DocStatus == [mark |-> "processing", read |-> "processing", save |-> "preview", fail |-> "failed"]

\* A job is in one hand at a time: an import's, a worker's that holds the lock, or
\* commits'.  While an import or a worker has it, nobody commits it.
Unstarted == \A j \in Jobs : job[j].status = "none" => entry[j].state = "none"

ImportsHold ==
    \A r \in Requests : Importing(r) =>
        /\ job[req[r].job].status = "queued" /\ entry[req[r].job].state = "none"
        /\ \A s \in Requests : Importing(s) /\ req[s].job = req[r].job => s = r

CommitsHold ==
    \A r \in Requests : Committing(r) => job[req[r].job].status \in {"preview", "done"}

RunsHold ==
    \A w \in Workers : run[w].pc # "idle" =>
        entry[run[w].job].state = "active" /\ entry[run[w].job].owner = w

DocsFit ==
    \A w \in Workers : run[w].pc \in DOMAIN DocStatus =>
        /\ run[w].doc.status = DocStatus[run[w].pc]
        /\ job[run[w].job].status \in {"queued", "processing", "failed"}

OneHand == Unstarted /\ ImportsHold /\ CommitsHold /\ RunsHold /\ DocsFit

\* The codes are replaced by one request at a time, and not edited meanwhile.
Undivided == "overlap" \notin Liberties /\ "edit" \notin Liberties

\* The codes of the list that a commit has inserted are in the book, and are its own.
Put(r) ==
    /\ req[r].pc = "commit.delete" => req[r].at = 1
    /\ req[r].pc = "commit.insert" =>
         \A k \in 1..Len(req[r].list) : k < req[r].at => book[req[r].list[k]] = req[r].job
    /\ req[r].pc = "commit.save" =>
         \A k \in 1..Len(req[r].list) : book[req[r].list[k]] = req[r].job

OneReplaces == \A r, s \in Requests : Replacing(r) /\ Replacing(s) => r = s

BookInv == OneReplaces /\ \A r \in Requests : Put(r)

-----------------------------------------------------------------------------
(* Jobs, requests and workers                                                 *)

LEMMA BlankTyped ==
    /\ Blank \in Job /\ Blank.status = "none"
    /\ NoEntry \in Entry /\ NoEntry.state = "none"
    /\ Over \in Entry /\ Over.state = "over"
    /\ IdleReq \in Request /\ IdleReq.pc = "idle" /\ IdleReq.at = 1
    /\ IdleRun \in Run /\ IdleRun.pc = "idle"
<1>1. Blank \in Job /\ Blank.status = "none"
  BY DEF Blank, Job
<1>2. NoEntry \in Entry /\ NoEntry.state = "none"
  BY DEF NoEntry, Entry, Attempts, MaxStalls
<1>3. Over \in Entry /\ Over.state = "over"
  BY <1>2 DEF Over, Entry
<1>4. IdleReq \in Request /\ IdleReq.pc = "idle" /\ IdleReq.at = 1
  BY DEF IdleReq, Request
<1>5. IdleRun \in Run /\ IdleRun.pc = "idle"
  BY <1>1 DEF IdleRun, Run
<1> QED
  BY <1>1, <1>2, <1>3, <1>4, <1>5

LEMMA ListLong ==
    ASSUME NEW l \in Lists
    PROVE  /\ l \in Seq(Codes) /\ Len(l) \in Nat /\ 1 \in 1..Len(l) /\ DOMAIN l = 1..Len(l)
           /\ \A k \in 1..Len(l) : l[k] \in Codes
BY CostCodeImportAssumption

\* A save writes the fields that were changed, and leaves the others.
LEMMA SavedTyped ==
    ASSUME NEW stored \in Job, NEW loaded \in Job, NEW doc \in Job
    PROVE  /\ Saved(stored, loaded, doc) \in Job
           /\ Saved(stored, loaded, doc).status \in {stored.status, doc.status}
<1> DEFINE s == Saved(stored, loaded, doc)
<1>1. DOMAIN stored = {"status", "file", "preview"}
  BY DEF Job
<1>2. /\ s \in [{"status", "file", "preview"} -> {s["status"], s["file"], s["preview"]}]
      /\ s["status"] \in {stored.status, doc.status} /\ s["file"] \in {stored.file, doc.file}
      /\ s["preview"] \in {stored.preview, doc.preview}
  BY <1>1 DEF Saved
<1>3. s = [status |-> s["status"], file |-> s["file"], preview |-> s["preview"]]
  BY <1>1 DEF Saved
<1> QED
  BY <1>2, <1>3 DEF Job

-----------------------------------------------------------------------------
(* What each step does                                                        *)

ReqBecomes(r, pc, j, list, at) ==
    /\ req' \in [Requests -> Request] /\ \A s \in Requests \ {r} : req'[s] = req[s]
    /\ req'[r].pc = pc /\ req'[r].job = j /\ req'[r].list = list /\ req'[r].at = at

RunBecomes(w, pc, j, loaded, doc) ==
    /\ run' \in [Workers -> Run] /\ \A v \in Workers \ {w} : run'[v] = run[v]
    /\ run'[w].pc = pc /\ run'[w].job = j /\ run'[w].loaded = loaded /\ run'[w].doc = doc

JobBecomes(j, d) ==
    job' \in [Jobs -> Job] /\ job'[j] = d /\ \A k \in Jobs \ {j} : job'[k] = job[k]

EntryBecomes(j, state, owner) ==
    /\ entry' \in [Jobs -> Entry] /\ \A k \in Jobs \ {j} : entry'[k] = entry[k]
    /\ entry'[j].state = state /\ entry'[j].owner = owner

LEMMA GotoDoes ==
    ASSUME CodesInv, NEW r \in Requests,
           NEW pc \in {"commit.insert", "commit.save", "seed.insert", "import.refuse"}, Goto(r, pc)
    PROVE  ReqBecomes(r, pc, req[r].job, req[r].list, req[r].at)
<1> DEFINE q == [req[r] EXCEPT !.pc = pc]
<1>1. req \in [Requests -> Request] /\ req[r] \in Request
  BY DEF CodesInv, ReqsOK
<1>2. q \in Request /\ q.pc = pc /\ q.job = req[r].job /\ q.list = req[r].list /\ q.at = req[r].at
  BY <1>1 DEF Request
<1>3. req' = [req EXCEPT ![r] = q]
  BY <1>1 DEF Goto
<1> HIDE DEF q
<1> QED
  BY <1>1, <1>2, <1>3 DEF ReqBecomes

LEMMA FinishDoes ==
    ASSUME CodesInv, NEW r \in Requests, Finish(r)
    PROVE  req' \in [Requests -> Request] /\ req'[r] = IdleReq
             /\ \A s \in Requests \ {r} : req'[s] = req[s]
BY BlankTyped DEF CodesInv, ReqsOK, Finish

LEMMA BeginDoes ==
    ASSUME CodesInv, NEW r \in Requests,
           NEW pc \in {"import.parse", "import.add", "commit.delete", "seed.delete", "seed.insert"},
           NEW j \in Jobs \cup {NoJob}, NEW list \in Lists \cup {<< >>},
           NEW q \in Request, q.pc = pc, q.job = j, q.list = list, q.at = 1,
           req' = [req EXCEPT ![r] = q]
    PROVE  ReqBecomes(r, pc, j, list, 1)
BY DEF CodesInv, ReqsOK, ReqBecomes

LEMMA BeginImportDoes ==
    ASSUME CodesInv, NEW r \in Requests, NEW j \in Jobs, NEW mode \in Modes, BeginImport(r, j, mode)
    PROVE  /\ \E pc \in {"import.parse", "import.add"} : ReqBecomes(r, pc, j, << >>, 1)
           /\ job[j].status = "none" /\ \E d \in Job : d.status = "queued" /\ JobBecomes(j, d)
<1> DEFINE d == [status |-> "queued", file |-> TRUE, preview |-> << >>]
           pc == IF mode = "inline" THEN "import.parse" ELSE "import.add"
           q == [IdleReq EXCEPT !.pc = pc, !.job = j]
<1>1. d \in Job /\ d.status = "queued"
  BY DEF Job
<1>2. job' = [job EXCEPT ![j] = d] /\ job[j].status = "none" /\ req' = [req EXCEPT ![r] = q]
  BY DEF BeginImport
<1>3. pc \in {"import.parse", "import.add"}
  OBVIOUS
<1> HIDE DEF d, pc
<1>4. q \in Request /\ q.pc = pc /\ q.job = j /\ q.list = << >> /\ q.at = 1
  <2>1. IdleReq.list = << >>
    BY DEF IdleReq
  <2> QED
    BY <1>3, <2>1, BlankTyped DEF Request
<1> HIDE DEF q
<1>5. ReqBecomes(r, pc, j, << >>, 1)
  BY <1>2, <1>3, <1>4, BeginDoes
<1>6. JobBecomes(j, d)
  BY <1>1, <1>2 DEF JobBecomes, CodesInv
<1> QED
  BY <1>1, <1>2, <1>3, <1>5, <1>6

LEMMA BeginCommitDoes ==
    ASSUME CodesInv, NEW r \in Requests, NEW j \in Jobs, NEW l \in Lists, BeginCommit(r, j, l)
    PROVE  ReqBecomes(r, "commit.delete", j, l, 1)
<1> DEFINE q == [IdleReq EXCEPT !.pc = "commit.delete", !.job = j, !.list = l]
<1>1. q \in Request /\ q.pc = "commit.delete" /\ q.job = j /\ q.list = l /\ q.at = 1
  BY BlankTyped DEF Request
<1>2. req' = [req EXCEPT ![r] = q]
  BY DEF BeginCommit
<1> HIDE DEF q
<1> QED
  BY <1>1, <1>2, BeginDoes

LEMMA BeginSeedDoes ==
    ASSUME CodesInv, NEW r \in Requests, NEW replace \in BOOLEAN, BeginSeed(r, replace)
    PROVE  \E pc \in {"seed.delete", "seed.insert"} : ReqBecomes(r, pc, IdleReq.job, Pack, 1)
<1> DEFINE pc == IF replace THEN "seed.delete" ELSE "seed.insert"
           q == [IdleReq EXCEPT !.pc = pc, !.list = Pack]
<1>1. pc \in {"seed.delete", "seed.insert"} /\ Pack \in Lists
  BY CostCodeImportAssumption
<1>2. req' = [req EXCEPT ![r] = q]
  BY DEF BeginSeed
<1> HIDE DEF pc
<1>3. q \in Request /\ q.pc = pc /\ q.job = IdleReq.job /\ q.list = Pack /\ q.at = 1
  BY <1>1, BlankTyped DEF Request
<1>4. IdleReq.job \in Jobs \cup {NoJob}
  BY BlankTyped DEF Request
<1> HIDE DEF q
<1> QED
  BY <1>1, <1>2, <1>3, <1>4, BeginDoes

\* The answer of an import.
LEMMA ImportParseDoes ==
    ASSUME CodesInv, NEW r \in Requests, ImportParse(r)
    PROVE  /\ req[r].job \in Jobs
           /\ \E d \in Job : d.status \in {"preview", "failed"} /\ JobBecomes(req[r].job, d)
           /\ Importing(r) /\ Finish(r)
<1> DEFINE j == req[r].job
<1>1. Importing(r) /\ Finish(r) /\ j \in Jobs /\ job \in [Jobs -> Job] /\ job[j] \in Job
  BY DEF ImportParse, CodesInv, ReqsOK, Importing
<1>2. ASSUME NEW l \in Lists PROVE Previewed(job[j], l) \in Job /\ Previewed(job[j], l).status = "preview"
  BY DEF Previewed, Job
<1>3. Failed(job[j]) \in Job /\ Failed(job[j]).status = "failed"
  BY <1>1 DEF Failed, Job
<1>4. \E d \in Job : d.status \in {"preview", "failed"} /\ job' = [job EXCEPT ![j] = d]
  <2>1. CASE job' = [job EXCEPT ![j] = Failed(@)]
    BY <1>1, <1>3, <2>1
  <2>2. ASSUME NEW l \in Lists, job' = [job EXCEPT ![j] = Previewed(@, l)]
        PROVE  \E d \in Job : d.status \in {"preview", "failed"} /\ job' = [job EXCEPT ![j] = d]
    BY <1>1, <1>2, <2>2
  <2> QED
    BY <2>1, <2>2 DEF ImportParse
<1> QED
  BY <1>1, <1>4 DEF JobBecomes

LEMMA ImportRefuseDoes ==
    ASSUME CodesInv, NEW r \in Requests, ImportRefuse(r)
    PROVE  /\ req[r].job \in Jobs /\ \E d \in Job : d.status = "failed" /\ JobBecomes(req[r].job, d)
           /\ Importing(r) /\ Finish(r)
<1> DEFINE j == req[r].job
<1>1. Importing(r) /\ Finish(r) /\ j \in Jobs /\ job \in [Jobs -> Job] /\ job[j] \in Job
  BY DEF ImportRefuse, CodesInv, ReqsOK, Importing
<1>2. Failed(job[j]) \in Job /\ Failed(job[j]).status = "failed"
  BY <1>1 DEF Failed, Job
<1>3. job' = [job EXCEPT ![j] = Failed(job[j])]
  BY <1>1 DEF ImportRefuse
<1> QED
  BY <1>1, <1>2, <1>3 DEF JobBecomes

LEMMA ImportAddDoes ==
    ASSUME CodesInv, NEW r \in Requests, ImportAdd(r)
    PROVE  /\ req[r].job \in Jobs /\ Importing(r)
           /\ Finish(r) \/ Goto(r, "import.refuse")
           /\ UNCHANGED entry \/ EntryBecomes(req[r].job, "waiting", entry[req[r].job].owner)
           /\ Calm => Finish(r) \/ UNCHANGED entry
<1> DEFINE j == req[r].job
           e == [entry[j] EXCEPT !.state = "waiting"]
<1>1. Importing(r) /\ j \in Jobs /\ entry \in [Jobs -> Entry] /\ entry[j] \in Entry
  BY DEF ImportAdd, CodesInv, ReqsOK, Importing
<1>2. e \in Entry /\ e.state = "waiting" /\ e.owner = entry[j].owner
  BY <1>1 DEF Entry
<1>3. PICK added, answered \in BOOLEAN :
         /\ answered => added
         /\ added /\ ~answered => "lost-reply" \in Liberties
         /\ entry' = IF added THEN [entry EXCEPT ![j].state = "waiting"] ELSE entry
         /\ IF answered THEN Finish(r) ELSE Goto(r, "import.refuse")
  BY DEF ImportAdd
<1>4. added => entry' = [entry EXCEPT ![j] = e]
  BY <1>1, <1>3
<1> HIDE DEF e
<1>5. added => EntryBecomes(j, "waiting", entry[j].owner)
  BY <1>1, <1>2, <1>4 DEF EntryBecomes
<1> QED
  BY <1>1, <1>3, <1>5 DEF Calm

\* A worker takes a job and works on it.
LEMMA TakeDoes ==
    ASSUME CodesInv, NEW w \in Workers, NEW j \in Jobs, Take(w, j)
    PROVE  /\ entry[j].state = "waiting" /\ EntryBecomes(j, "active", w)
           /\ RunBecomes(w, "load", j, run[w].loaded, run[w].doc)
<1> DEFINE e == [entry[j] EXCEPT !.state = "active", !.owner = w]
           x == [run[w] EXCEPT !.pc = "load", !.job = j]
<1>1. entry \in [Jobs -> Entry] /\ entry[j] \in Entry /\ run \in [Workers -> Run] /\ run[w] \in Run
  BY DEF CodesInv, RunsOK
<1>2. e \in Entry /\ e.state = "active" /\ e.owner = w
  BY <1>1 DEF Entry
<1>3. x \in Run /\ x.pc = "load" /\ x.job = j /\ x.loaded = run[w].loaded /\ x.doc = run[w].doc
  BY <1>1 DEF Run
<1>4. entry' = [entry EXCEPT ![j] = e] /\ run' = [run EXCEPT ![w] = x] /\ entry[j].state = "waiting"
  BY <1>1 DEF Take
<1> HIDE DEF e, x
<1> QED
  BY <1>1, <1>2, <1>3, <1>4 DEF EntryBecomes, RunBecomes

LEMMA RunDoes ==
    ASSUME CodesInv, NEW w \in Workers, NEW pc, NEW j, NEW loaded, NEW doc,
           NEW x \in Run, x.pc = pc, x.job = j, x.loaded = loaded, x.doc = doc,
           run' = [run EXCEPT ![w] = x]
    PROVE  RunBecomes(w, pc, j, loaded, doc)
BY DEF CodesInv, RunsOK, RunBecomes

LEMMA Working ==
    ASSUME CodesInv, NEW w \in Workers, run[w].pc # "idle"
    PROVE  /\ run \in [Workers -> Run] /\ run[w] \in Run /\ run[w].job \in Jobs
           /\ run[w].loaded \in Job /\ run[w].doc \in Job
           /\ job[run[w].job] \in Job /\ entry[run[w].job] \in Entry
BY DEF CodesInv, RunsOK, Run

LEMMA LoadDoes ==
    ASSUME CodesInv, NEW w \in Workers, Load(w)
    PROVE  /\ run[w].pc = "load" /\ run[w].job \in Jobs
           /\ \/ /\ job[run[w].job].status \in {"preview", "done"}
                 /\ RunBecomes(w, "ack", run[w].job, run[w].loaded, run[w].doc)
              \/ /\ job[run[w].job].status \notin {"preview", "done"}
                 /\ \E doc \in Job : /\ doc.status = "processing"
                                     /\ RunBecomes(w, "mark", run[w].job, job[run[w].job], doc)
<1> DEFINE stored == job[run[w].job]
           doc == [stored EXCEPT !.status = "processing"]
           x == [run[w] EXCEPT !.pc = "ack"]
           y == [run[w] EXCEPT !.pc = "mark", !.loaded = stored, !.doc = doc]
<1>1. /\ run \in [Workers -> Run] /\ run[w] \in Run /\ run[w].job \in Jobs /\ stored \in Job
      /\ run[w].pc = "load"
  BY Working DEF Load
<1>2. doc \in Job /\ doc.status = "processing"
  BY <1>1 DEF Job
<1>3. x \in Run /\ x.pc = "ack" /\ x.job = run[w].job /\ x.loaded = run[w].loaded /\ x.doc = run[w].doc
  BY <1>1 DEF Run
<1>4. run' = IF stored.status \in {"preview", "done"} THEN [run EXCEPT ![w] = x]
             ELSE [run EXCEPT ![w] = y]
  BY <1>1 DEF Load
<1> HIDE DEF doc
<1>5. y \in Run /\ y.pc = "mark" /\ y.job = run[w].job /\ y.loaded = stored /\ y.doc = doc
  BY <1>1, <1>2 DEF Run
<1> HIDE DEF x, y
<1> QED
  BY <1>1, <1>2, <1>3, <1>4, <1>5, RunDoes

LEMMA SaveDoes ==
    ASSUME CodesInv, NEW w \in Workers, Save(w)
    PROVE  /\ run[w].pc \in {"mark", "save", "fail"} /\ run[w].job \in Jobs
           /\ \E d \in Job : /\ d.status \in {job[run[w].job].status, run[w].doc.status}
                             /\ JobBecomes(run[w].job, d)
           /\ RunBecomes(w, AfterSave[run[w].pc], run[w].job, run[w].doc, run[w].doc)
<1> DEFINE j == run[w].job
           d == Saved(job[j], run[w].loaded, run[w].doc)
           x == [run[w] EXCEPT !.pc = AfterSave[run[w].pc], !.loaded = run[w].doc]
<1>1. run[w].pc \in {"mark", "save", "fail"}
  BY DEF Save, AfterSave
<1>2. /\ run \in [Workers -> Run] /\ run[w] \in Run /\ j \in Jobs /\ job[j] \in Job
      /\ run[w].loaded \in Job /\ run[w].doc \in Job
  BY <1>1, Working
<1>3. AfterSave[run[w].pc] \in {"read", "ack", "nack"}
  BY <1>1 DEF AfterSave
<1>4. x \in Run /\ x.pc = AfterSave[run[w].pc] /\ x.job = j /\ x.loaded = run[w].doc /\ x.doc = run[w].doc
  BY <1>2, <1>3 DEF Run
<1>5. d \in Job /\ d.status \in {job[j].status, run[w].doc.status}
  BY <1>2, SavedTyped
<1>6. job' = [job EXCEPT ![j] = d] /\ run' = [run EXCEPT ![w] = x]
  BY <1>2 DEF Save, CodesInv
<1> HIDE DEF d, x
<1>7. JobBecomes(j, d)
  BY <1>2, <1>5, <1>6 DEF JobBecomes, CodesInv
<1> QED
  BY <1>1, <1>2, <1>4, <1>5, <1>6, <1>7, RunDoes

LEMMA ReadDoes ==
    ASSUME CodesInv, NEW w \in Workers, Read(w)
    PROVE  /\ run[w].pc = "read" /\ run[w].job \in Jobs
           /\ \E pc \in {"save", "fail"}, doc \in Job :
                doc.status = DocStatus[pc] /\ RunBecomes(w, pc, run[w].job, run[w].loaded, doc)
<1>1. /\ run \in [Workers -> Run] /\ run[w] \in Run /\ run[w].job \in Jobs /\ run[w].doc \in Job
      /\ run[w].pc = "read"
  BY Working DEF Read
<1>2. ASSUME NEW pc \in {"save", "fail"}, NEW doc \in Job, doc.status = DocStatus[pc],
             run' = [run EXCEPT ![w] = [run[w] EXCEPT !.pc = pc, !.doc = doc]]
      PROVE  \E q \in {"save", "fail"}, d \in Job :
                d.status = DocStatus[q] /\ RunBecomes(w, q, run[w].job, run[w].loaded, d)
  <2> DEFINE x == [run[w] EXCEPT !.pc = pc, !.doc = doc]
  <2>1. x \in Run /\ x.pc = pc /\ x.job = run[w].job /\ x.loaded = run[w].loaded /\ x.doc = doc
    BY <1>1 DEF Run
  <2> HIDE DEF x
  <2>2. run' = [run EXCEPT ![w] = x]
    BY <1>2 DEF x
  <2> QED
    BY <1>2, <2>1, <2>2, RunDoes
<1>3. ASSUME NEW l \in Lists, run' = [run EXCEPT ![w].pc = "save", ![w].doc = Previewed(@, l)]
      PROVE  \E q \in {"save", "fail"}, d \in Job :
                d.status = DocStatus[q] /\ RunBecomes(w, q, run[w].job, run[w].loaded, d)
  <2> DEFINE doc == [status |-> "preview", file |-> FALSE, preview |-> l]
  <2>1. doc \in Job /\ doc.status = DocStatus["save"]
    BY DEF Job, DocStatus
  <2>2. run' = [run EXCEPT ![w] = [run[w] EXCEPT !.pc = "save", !.doc = doc]]
    BY <1>1, <1>3 DEF Previewed
  <2> HIDE DEF doc
  <2> QED
    BY <1>2, <2>1, <2>2
<1>4. CASE run' = [run EXCEPT ![w].pc = "fail", ![w].doc = Failed(@)]
  <2> DEFINE doc == Failed(run[w].doc)
  <2>1. doc \in Job /\ doc.status = DocStatus["fail"]
    BY <1>1 DEF Failed, Job, DocStatus
  <2>2. run' = [run EXCEPT ![w] = [run[w] EXCEPT !.pc = "fail", !.doc = doc]]
    BY <1>1, <1>4 DEF Run
  <2> HIDE DEF doc
  <2>3. \E q \in {"save", "fail"}, d \in Job :
                d.status = DocStatus[q] /\ RunBecomes(w, q, run[w].job, run[w].loaded, d)
    BY <1>2, <2>1, <2>2
  <2> QED
    BY <1>1, <2>3
<1> QED
  BY <1>1, <1>3, <1>4 DEF Read

LEMMA SaveErrorDoes ==
    ASSUME CodesInv, NEW w \in Workers, SaveError(w)
    PROVE  /\ run[w].pc \in {"mark", "save", "fail"} /\ run[w].job \in Jobs
           /\ \E pc \in {"fail", "nack"}, doc \in Job :
                /\ pc = "fail" => run[w].pc = "save" /\ doc.status = DocStatus[pc]
                /\ RunBecomes(w, pc, run[w].job, run[w].loaded, doc)
<1> DEFINE doc == Failed(run[w].doc)
           x == [run[w] EXCEPT !.pc = "fail", !.doc = doc]
           y == [run[w] EXCEPT !.pc = "nack"]
<1>1. run[w].pc \in {"mark", "save", "fail"}
  BY DEF SaveError, AfterSave
<1>2. /\ run \in [Workers -> Run] /\ run[w] \in Run /\ run[w].job \in Jobs /\ run[w].doc \in Job
  BY <1>1, Working
<1>3. doc \in Job /\ doc.status = DocStatus["fail"]
  BY <1>2 DEF Failed, Job, DocStatus
<1>4. y \in Run /\ y.pc = "nack" /\ y.job = run[w].job /\ y.loaded = run[w].loaded /\ y.doc = run[w].doc
  BY <1>2 DEF Run
<1>5. run' = IF run[w].pc = "save" THEN [run EXCEPT ![w] = x] ELSE [run EXCEPT ![w] = y]
  BY <1>2 DEF SaveError
<1> HIDE DEF doc
<1>6. x \in Run /\ x.pc = "fail" /\ x.job = run[w].job /\ x.loaded = run[w].loaded /\ x.doc = doc
  BY <1>2, <1>3 DEF Run
<1> HIDE DEF x, y
<1> QED
  BY <1>1, <1>2, <1>3, <1>4, <1>5, <1>6, RunDoes

\* A run ends: BullMQ hears of it, or finds that the worker is gone.
LEMMA SettleDoes ==
    ASSUME CodesInv, NEW w \in Workers, NEW e \in Entry, run[w].pc # "idle", Settle(w, e)
    PROVE  /\ run' \in [Workers -> Run] /\ run'[w] = IdleRun /\ \A v \in Workers \ {w} : run'[v] = run[v]
           /\ run[w].job \in Jobs /\ entry' \in [Jobs -> Entry]
           /\ entry[run[w].job].owner = w => EntryBecomes(run[w].job, e.state, e.owner)
BY Working, BlankTyped DEF Settle, CodesInv, RunsOK, EntryBecomes

LEMMA EndDoes ==
    ASSUME CodesInv, NEW w \in Workers, Ack(w) \/ Nack(w)
    PROVE  /\ run[w].pc # "idle"
           /\ run' \in [Workers -> Run] /\ run'[w] = IdleRun /\ \A v \in Workers \ {w} : run'[v] = run[v]
           /\ run[w].job \in Jobs /\ entry' \in [Jobs -> Entry]
           /\ entry[run[w].job].owner = w =>
                \E state \in {"waiting", "over"}, owner \in Workers \cup {NoJob} :
                  EntryBecomes(run[w].job, state, owner)
<1>1. run[w].pc # "idle"
  BY DEF Ack, Nack
<1>2. CASE Ack(w)
  <2>1. Over \in Entry /\ Over.state = "over" /\ Over.owner \in Workers \cup {NoJob}
    BY BlankTyped DEF Entry
  <2> QED
    BY <1>1, <1>2, <2>1, SettleDoes DEF Ack
<1>3. CASE Nack(w)
  <2> DEFINE e == entry[run[w].job]
             again == [e EXCEPT !.state = "waiting", !.owner = NoJob, !.attempts = e.attempts + 1]
             f == IF e.attempts + 1 < Attempts THEN again ELSE Over
  <2>1. e \in Entry
    BY <1>1, Working
  <2>2. e.attempts + 1 < Attempts => again \in Entry /\ again.state = "waiting" /\ again.owner = NoJob
    <3>1. e.attempts + 1 < Attempts => e.attempts + 1 \in 0 .. Attempts - 1
      BY <2>1 DEF Entry, Attempts
    <3> HIDE DEF e
    <3>2. e.attempts + 1 < Attempts => again \in Entry
      BY <2>1, <3>1 DEF Entry
    <3> QED
      BY <2>1, <3>2 DEF Entry
  <2>3. Over \in Entry /\ Over.state = "over" /\ Over.owner \in Workers \cup {NoJob}
    BY BlankTyped DEF Entry
  <2>4. Settle(w, f)
    BY <1>3, <2>1 DEF Nack
  <2>5. f \in Entry /\ f.state \in {"waiting", "over"} /\ f.owner \in Workers \cup {NoJob}
    BY <2>2, <2>3
  <2> HIDE DEF f
  <2> QED
    BY <1>1, <2>4, <2>5, SettleDoes
<1> QED
  BY <1>2, <1>3

LEMMA WorkerLostDoes ==
    ASSUME CodesInv, NEW w \in Workers, WorkerLost(w)
    PROVE  /\ run[w].pc # "idle" /\ run[w].job \in Jobs
           /\ \E state \in {"waiting", "over"}, owner \in Workers \cup {NoJob} :
                EntryBecomes(run[w].job, state, owner)
           /\ \/ run' \in [Workers -> Run] /\ run'[w] = IdleRun
                 /\ \A v \in Workers \ {w} : run'[v] = run[v]
              \/ ~Calm /\ UNCHANGED run
<1> DEFINE j == run[w].job
           e == entry[j]
           again == [e EXCEPT !.state = "waiting", !.owner = NoJob, !.stalls = @ + 1]
           f == IF e.stalls + 1 <= MaxStalls THEN again ELSE Over
<1>1. /\ run[w].pc # "idle" /\ j \in Jobs /\ e \in Entry /\ entry \in [Jobs -> Entry]
      /\ run \in [Workers -> Run]
  BY Working DEF WorkerLost, CodesInv
<1>2. e.stalls + 1 <= MaxStalls => again \in Entry /\ again.state = "waiting" /\ again.owner = NoJob
  <2>1. e.stalls + 1 <= MaxStalls => e.stalls + 1 \in 0 .. MaxStalls
    BY <1>1 DEF Entry, MaxStalls
  <2> HIDE DEF e
  <2>2. e.stalls + 1 <= MaxStalls => again \in Entry
    BY <1>1, <2>1 DEF Entry
  <2> QED
    BY <1>1, <2>2 DEF Entry
<1>3. Over \in Entry /\ Over.state = "over" /\ Over.owner \in Workers \cup {NoJob}
  BY BlankTyped DEF Entry
<1>4. entry' = [entry EXCEPT ![j] = f]
  BY <1>1 DEF WorkerLost
<1>5. f \in Entry /\ f.state \in {"waiting", "over"} /\ f.owner \in Workers \cup {NoJob}
  BY <1>2, <1>3
<1> HIDE DEF f
<1>6. EntryBecomes(j, f.state, f.owner)
  BY <1>1, <1>4, <1>5 DEF EntryBecomes
<1>7. run' = [run EXCEPT ![w] = IdleRun] \/ ("blocked" \in Liberties /\ run' = run)
  BY DEF WorkerLost
<1> QED
  BY <1>1, <1>5, <1>6, <1>7, BlankTyped DEF Calm

\* A replacement of the codes.
LEMMA DeleteManyDoes ==
    ASSUME CodesInv, NEW r \in Requests, DeleteMany(r)
    PROVE  /\ Replacing(r) /\ ~Inserting(r) /\ book' \in [Codes -> Sources]
           /\ \E pc \in {"commit.insert", "seed.insert"} :
                /\ pc = "commit.insert" <=> req[r].pc = "commit.delete"
                /\ ReqBecomes(r, pc, req[r].job, req[r].list, req[r].at)
<1> DEFINE pc == IF req[r].pc = "commit.delete" THEN "commit.insert" ELSE "seed.insert"
<1>1. pc \in {"commit.insert", "seed.insert"} /\ (pc = "commit.insert" <=> req[r].pc = "commit.delete")
  OBVIOUS
<1>2. Goto(r, pc) /\ Replacing(r) /\ ~Inserting(r) /\ book' \in [Codes -> Sources]
  BY DEF DeleteMany, Replacing, Inserting, Sources
<1> HIDE DEF pc
<1> QED
  BY <1>1, <1>2, GotoDoes

LEMMA InsertDoes ==
    ASSUME CodesInv, NEW r \in Requests, Insert(r)
    PROVE  LET q == req[r]
               c == q.list[q.at]
           IN
           /\ Replacing(r) /\ Inserting(r) /\ c \in Codes
           /\ \/ UNCHANGED book /\ Finish(r)
              \/ /\ book[c] = Absent
                 /\ \E source \in Sources :
                      /\ book' = [book EXCEPT ![c] = source]
                      /\ q.pc = "commit.insert" => source = q.job
                 /\ \/ q.at < Len(q.list) /\ ReqBecomes(r, q.pc, q.job, q.list, q.at + 1)
                    \/ /\ q.at = Len(q.list) /\ q.pc = "commit.insert"
                       /\ ReqBecomes(r, "commit.save", q.job, q.list, q.at)
                    \/ q.pc = "seed.insert" /\ Finish(r)
<1> DEFINE q == req[r]
           c == q.list[q.at]
           source == IF q.pc = "commit.insert" THEN q.job ELSE Seeded
           x == [q EXCEPT !.at = @ + 1]
<1>1. /\ Replacing(r) /\ Inserting(r) /\ q.pc \in {"commit.insert", "seed.insert"}
      /\ q \in Request /\ req \in [Requests -> Request]
      /\ q.list \in Lists /\ q.at \in 1..Len(q.list) /\ (q.pc = "commit.insert" => q.job \in Jobs)
  BY DEF Insert, Replacing, Inserting, Committing, CodesInv, ReqsOK
<1>2. c \in Codes /\ Len(q.list) \in Nat
  BY <1>1, ListLong
<1>3. source \in Sources
  BY <1>1 DEF Sources
<1>4. x \in Request /\ x.pc = q.pc /\ x.job = q.job /\ x.list = q.list /\ x.at = q.at + 1
  BY <1>1, <1>2 DEF Request
<1>5. \/ UNCHANGED book /\ Finish(r)
      \/ /\ book[c] = Absent /\ book' = [book EXCEPT ![c] = source]
         /\ \/ q.at < Len(q.list) /\ req' = [req EXCEPT ![r].at = @ + 1]
            \/ ~(q.at < Len(q.list)) /\ q.pc = "commit.insert" /\ Goto(r, "commit.save")
            \/ q.pc # "commit.insert" /\ Finish(r)
  BY DEF Insert
<1> HIDE DEF source
<1>6. req' = [req EXCEPT ![r].at = @ + 1] => ReqBecomes(r, q.pc, q.job, q.list, q.at + 1)
  <2> SUFFICES ASSUME req' = [req EXCEPT ![r] = x]
               PROVE  ReqBecomes(r, q.pc, q.job, q.list, q.at + 1)
    OBVIOUS
  <2> HIDE DEF x
  <2> QED
    BY <1>1, <1>4 DEF ReqBecomes
<1>7. Goto(r, "commit.save") => ReqBecomes(r, "commit.save", q.job, q.list, q.at)
  BY GotoDoes
<1>8. ~(q.at < Len(q.list)) => q.at = Len(q.list)
  BY <1>1, <1>2
<1>9. q.pc = "commit.insert" => source = q.job
  BY DEF source
<1> QED
  BY <1>1, <1>2, <1>3, <1>5, <1>6, <1>7, <1>8, <1>9

LEMMA CommitSaveDoes ==
    ASSUME CodesInv, NEW r \in Requests, CommitSave(r)
    PROVE  /\ req[r].pc = "commit.save" /\ req[r].job \in Jobs /\ Finish(r)
           /\ \E d \in Job : d.status = "done" /\ JobBecomes(req[r].job, d)
<1> DEFINE j == req[r].job
           d == [job[j] EXCEPT !.status = "done"]
<1>1. req[r].pc = "commit.save" /\ Finish(r) /\ j \in Jobs /\ job \in [Jobs -> Job] /\ job[j] \in Job
  BY DEF CommitSave, CodesInv, ReqsOK, Committing
<1>2. d \in Job /\ d.status = "done"
  BY <1>1 DEF Job
<1>3. job' = [job EXCEPT ![j] = d]
  BY <1>1 DEF CommitSave
<1> HIDE DEF d
<1> QED
  BY <1>1, <1>2, <1>3 DEF JobBecomes

-----------------------------------------------------------------------------
(* The types                                                                  *)

LEMMA RequestKept ==
    ASSUME CodesInv, NEW r \in Requests, NEW pc, NEW j, NEW list, NEW at, ReqBecomes(r, pc, j, list, at),
           pc \in {"import.parse", "import.add", "import.refuse", "commit.delete", "commit.insert",
                   "commit.save"} => j \in Jobs,
           pc \in {"commit.delete", "commit.insert", "commit.save", "seed.delete", "seed.insert"} =>
             list \in Lists /\ at \in 1..Len(list)
    PROVE  ReqsOK'
BY DEF CodesInv, ReqsOK, ReqBecomes, Importing, Committing, Replacing

LEMMA RequestDone ==
    ASSUME CodesInv, NEW r \in Requests, Finish(r)
    PROVE  ReqsOK'
BY FinishDoes, BlankTyped DEF CodesInv, ReqsOK, Importing, Committing, Replacing

LEMMA RequestsAlone ==
    ASSUME CodesInv, UNCHANGED req
    PROVE  ReqsOK'
BY DEF CodesInv, ReqsOK, Importing, Committing, Replacing

LEMMA RunKept ==
    ASSUME CodesInv, NEW w \in Workers, NEW pc, NEW j \in Jobs, NEW loaded, NEW doc,
           RunBecomes(w, pc, j, loaded, doc)
    PROVE  RunsOK'
BY DEF CodesInv, RunsOK, RunBecomes

LEMMA RunDone ==
    ASSUME CodesInv, NEW w \in Workers,
           run' \in [Workers -> Run], run'[w] = IdleRun, \A v \in Workers \ {w} : run'[v] = run[v]
    PROVE  RunsOK'
BY BlankTyped DEF CodesInv, RunsOK

LEMMA FaultTyped ==
    ASSUME CodesInv, NEW k \in FaultKinds, Fault(k)
    PROVE  faults' \in [FaultKinds -> 0 .. MaxFaults]
<1>1. MaxFaults \in Nat
  BY CostCodeImportAssumption
<1>2. faults \in [FaultKinds -> 0 .. MaxFaults]
  BY DEF CodesInv
<1>3. faults["worker"] + faults["write"] + faults["import"] + faults["replace"] < MaxFaults
  BY DEF Fault
<1>4. faults[k] + 1 \in 0 .. MaxFaults
  <2> DEFINE a == faults["worker"]
             b == faults["write"]
             c == faults["import"]
             d == faults["replace"]
  <2>1. a \in 0 .. MaxFaults /\ b \in 0 .. MaxFaults /\ c \in 0 .. MaxFaults /\ d \in 0 .. MaxFaults
    BY <1>2 DEF FaultKinds
  <2>2. faults[k] \in {a, b, c, d}
    BY DEF FaultKinds
  <2> HIDE DEF a, b, c, d
  <2>3. a + b + c + d < MaxFaults
    BY <1>3 DEF a, b, c, d
  <2> QED
    BY <1>1, <2>1, <2>2, <2>3
<1> QED
  BY <1>2, <1>4 DEF Fault

LEMMA CodesInvInit ==
    ASSUME Init
    PROVE  CodesInv
<1>1. book \in [Codes -> Sources]
  BY DEF Init, Sources
<1>2. job \in [Jobs -> Job] /\ entry \in [Jobs -> Entry]
  BY BlankTyped DEF Init
<1>3. ReqsOK /\ RunsOK
  BY BlankTyped DEF Init, ReqsOK, RunsOK, Importing, Committing, Replacing
<1>4. faults \in [FaultKinds -> 0 .. MaxFaults]
  BY CostCodeImportAssumption DEF Init
<1> QED
  BY <1>1, <1>2, <1>3, <1>4 DEF CodesInv

LEMMA CodesInvByArrive ==
    ASSUME CodesInv, NEW r \in Requests, Arrive(r)
    PROVE  CodesInv'
<1>1. ASSUME NEW j \in Jobs, NEW mode \in Modes, BeginImport(r, j, mode)
      PROVE  CodesInv'
  <2>1. PICK pc \in {"import.parse", "import.add"} : ReqBecomes(r, pc, j, << >>, 1)
    BY <1>1, BeginImportDoes
  <2>2. ReqsOK'
    BY <2>1, RequestKept
  <2>3. job' \in [Jobs -> Job]
    BY <1>1, BeginImportDoes DEF JobBecomes
  <2> QED
    BY <1>1, <2>2, <2>3 DEF BeginImport, CodesInv, RunsOK
<1>2. ASSUME NEW j \in Jobs, NEW l \in Lists, BeginCommit(r, j, l)
      PROVE  CodesInv'
  <2>1. ReqBecomes(r, "commit.delete", j, l, 1)
    BY <1>2, BeginCommitDoes
  <2>2. ReqsOK'
    BY <2>1, ListLong, RequestKept
  <2> QED
    BY <1>2, <2>2 DEF BeginCommit, CodesInv, RunsOK
<1>3. ASSUME NEW replace \in BOOLEAN, BeginSeed(r, replace)
      PROVE  CodesInv'
  <2>1. PICK pc \in {"seed.delete", "seed.insert"} : ReqBecomes(r, pc, IdleReq.job, Pack, 1)
    BY <1>3, BeginSeedDoes
  <2>2. Pack \in Lists /\ 1 \in 1..Len(Pack)
    BY CostCodeImportAssumption, ListLong
  <2>3. ReqsOK'
    BY <2>1, <2>2, RequestKept
  <2> QED
    BY <1>3, <2>3 DEF BeginSeed, CodesInv, RunsOK
<1> QED
  BY <1>1, <1>2, <1>3 DEF Arrive

LEMMA CodesInvByStep ==
    ASSUME CodesInv, NEW r \in Requests, Step(r)
    PROVE  CodesInv'
<1>1. CASE ImportParse(r)
  BY <1>1, ImportParseDoes, RequestDone DEF ImportParse, CodesInv, RunsOK, JobBecomes
<1>2. CASE ImportAdd(r)
  <2>1. Finish(r) => ReqsOK'
    BY RequestDone
  <2>2. Goto(r, "import.refuse") => ReqsOK'
    BY <1>2, ImportAddDoes, GotoDoes, RequestKept
  <2>3. ReqsOK' /\ entry' \in [Jobs -> Entry]
    BY <1>2, <2>1, <2>2, ImportAddDoes DEF CodesInv, EntryBecomes
  <2> QED
    BY <1>2, <2>3 DEF ImportAdd, CodesInv, RunsOK
<1>3. CASE ImportRefuse(r)
  BY <1>3, ImportRefuseDoes, RequestDone DEF ImportRefuse, CodesInv, RunsOK, JobBecomes
<1>4. CASE DeleteMany(r)
  <2>1. PICK pc \in {"commit.insert", "seed.insert"} :
           /\ pc = "commit.insert" <=> req[r].pc = "commit.delete"
           /\ ReqBecomes(r, pc, req[r].job, req[r].list, req[r].at)
    BY <1>4, DeleteManyDoes
  <2>2. /\ req[r].list \in Lists /\ req[r].at \in 1..Len(req[r].list)
        /\ pc = "commit.insert" => req[r].job \in Jobs
    BY <1>4, <2>1, DeleteManyDoes DEF CodesInv, ReqsOK, Committing
  <2>3. ReqsOK'
    BY <2>1, <2>2, RequestKept
  <2> QED
    BY <1>4, <2>3, DeleteManyDoes DEF DeleteMany, CodesInv, RunsOK
<1>5. CASE Insert(r)
  <2> DEFINE q == req[r]
             c == q.list[q.at]
  <2>1. /\ q.pc \in {"commit.insert", "seed.insert"}
        /\ q.list \in Lists /\ Len(q.list) \in Nat /\ q.at \in 1..Len(q.list)
        /\ q.pc = "commit.insert" => q.job \in Jobs
    BY <1>5, InsertDoes, ListLong DEF Inserting, Committing, CodesInv, ReqsOK
  <2>2. CASE UNCHANGED book /\ Finish(r)
    BY <1>5, <2>2, RequestDone DEF Insert, CodesInv, RunsOK
  <2>3. CASE /\ \E source \in Sources : book' = [book EXCEPT ![c] = source]
             /\ \/ q.at < Len(q.list) /\ ReqBecomes(r, q.pc, q.job, q.list, q.at + 1)
                \/ q.pc = "commit.insert" /\ ReqBecomes(r, "commit.save", q.job, q.list, q.at)
                \/ Finish(r)
    <3>1. book' \in [Codes -> Sources]
      BY <1>5, <2>3, InsertDoes DEF CodesInv
    <3>2. q.at < Len(q.list) /\ ReqBecomes(r, q.pc, q.job, q.list, q.at + 1) => ReqsOK'
      <4>1. q.at < Len(q.list) => q.at + 1 \in 1..Len(q.list)
        BY <2>1
      <4> QED
        BY <2>1, <4>1, RequestKept
    <3>3. q.pc = "commit.insert" /\ ReqBecomes(r, "commit.save", q.job, q.list, q.at) => ReqsOK'
      BY <2>1, RequestKept
    <3>4. Finish(r) => ReqsOK'
      BY RequestDone
    <3>5. ReqsOK'
      BY <2>3, <3>2, <3>3, <3>4
    <3> QED
      BY <1>5, <3>1, <3>5 DEF Insert, CodesInv, RunsOK
  <2> QED
    BY <1>5, <2>2, <2>3, InsertDoes
<1>6. CASE CommitSave(r)
  BY <1>6, CommitSaveDoes, RequestDone DEF CommitSave, CodesInv, RunsOK, JobBecomes
<1> QED
  BY <1>1, <1>2, <1>3, <1>4, <1>5, <1>6 DEF Step

LEMMA CodesInvByWorker ==
    ASSUME CodesInv, NEW w \in Workers, WorkerStep(w) \/ SaveError(w) \/ WorkerLost(w)
    PROVE  CodesInv'
<1>1. ASSUME NEW j \in Jobs, Take(w, j)
      PROVE  CodesInv'
  <2>1. entry' \in [Jobs -> Entry] /\ RunBecomes(w, "load", j, run[w].loaded, run[w].doc)
    BY <1>1, TakeDoes DEF EntryBecomes
  <2>2. RunsOK'
    BY <2>1, RunKept
  <2> QED
    BY <1>1, <2>1, <2>2, RequestsAlone DEF Take, CodesInv
<1>2. CASE Load(w)
  <2>1. RunsOK'
    BY <1>2, LoadDoes, RunKept
  <2> QED
    BY <1>2, <2>1, RequestsAlone DEF Load, CodesInv
<1>3. CASE Save(w)
  <2>1. RunsOK'
    BY <1>3, SaveDoes, RunKept
  <2>2. job' \in [Jobs -> Job]
    BY <1>3, SaveDoes DEF JobBecomes
  <2> QED
    BY <1>3, <2>1, <2>2, RequestsAlone DEF Save, CodesInv
<1>4. CASE Read(w)
  <2>1. RunsOK'
    BY <1>4, ReadDoes, RunKept
  <2> QED
    BY <1>4, <2>1, RequestsAlone DEF Read, CodesInv
<1>5. CASE Ack(w) \/ Nack(w)
  <2>1. RunsOK' /\ entry' \in [Jobs -> Entry]
    BY <1>5, EndDoes, RunDone
  <2> QED
    BY <1>5, <2>1, RequestsAlone DEF Ack, Nack, Settle, CodesInv
<1>6. CASE SaveError(w)
  <2>1. RunsOK'
    BY <1>6, SaveErrorDoes, RunKept
  <2>2. faults' \in [FaultKinds -> 0 .. MaxFaults]
    BY <1>6, FaultTyped DEF SaveError, FaultKinds
  <2> QED
    BY <1>6, <2>1, <2>2, RequestsAlone DEF SaveError, CodesInv
<1>7. CASE WorkerLost(w)
  <2>1. RunsOK' /\ entry' \in [Jobs -> Entry]
    <3>1. UNCHANGED run => RunsOK'
      BY DEF CodesInv, RunsOK
    <3> QED
      BY <1>7, <3>1, WorkerLostDoes, RunDone DEF EntryBecomes
  <2>2. faults' \in [FaultKinds -> 0 .. MaxFaults]
    BY <1>7, FaultTyped DEF WorkerLost, FaultKinds
  <2> QED
    BY <1>7, <2>1, <2>2, RequestsAlone DEF WorkerLost, CodesInv
<1> QED
  BY <1>1, <1>2, <1>3, <1>4, <1>5, <1>6, <1>7 DEF WorkerStep

LEMMA CodesInvStep ==
    ASSUME CodesInv, [Next]_vars
    PROVE  CodesInv'
<1>1. ASSUME NEW r \in Requests, RequestLost(r)
      PROVE  CodesInv'
  <2>1. faults' \in [FaultKinds -> 0 .. MaxFaults]
    BY <1>1, FaultTyped DEF RequestLost, FaultKinds
  <2> QED
    BY <1>1, <2>1, RequestDone DEF RequestLost, CodesInv, RunsOK
<1>2. CASE Edit
  <2>1. /\ book' \in [Codes -> Sources] /\ UNCHANGED <<job, entry, req, run, faults>>
    BY <1>2 DEF Edit, Create, Upsert, Remove, Rename, CodesInv, Sources
  <2> QED
    BY <2>1 DEF CodesInv, ReqsOK, RunsOK, Importing, Committing, Replacing
<1>3. CASE UNCHANGED vars
  BY <1>3 DEF vars, CodesInv, ReqsOK, RunsOK, Importing, Committing, Replacing
<1> QED
  BY <1>1, <1>2, <1>3, CodesInvByArrive, CodesInvByStep, CodesInvByWorker DEF Next

\* Every reachable state has the declared types; a request that replaces codes
\* has its list and, if it commits, its job.
THEOREM CodesTypes == Spec => []CodesInv
BY CodesInvInit, CodesInvStep, PTL DEF Spec

THEOREM CodesTypeCorrect == Spec => []TypeOK
<1>1. CodesInv => TypeOK
  BY DEF CodesInv, ReqsOK, RunsOK, TypeOK
<1> QED
  BY <1>1, CodesTypes, PTL

-----------------------------------------------------------------------------
(* A job is in one hand                                                       *)

\* Who touches a job that a request or a worker has, touches it as its own.
LEMMA ImportersJob ==
    ASSUME CodesInv, OneHand, NEW r \in Requests, Importing(r)
    PROVE  /\ req[r].job \in Jobs
           /\ \A s \in Requests : Committing(s) => req[s].job # req[r].job
           /\ \A w \in Workers : run[w].pc # "idle" => run[w].job # req[r].job
BY DEF CodesInv, ReqsOK, OneHand, ImportsHold, CommitsHold, RunsHold

LEMMA WorkersJob ==
    ASSUME CodesInv, OneHand, NEW w \in Workers, run[w].pc # "idle"
    PROVE  /\ run[w].job \in Jobs /\ job[run[w].job].status # "none"
           /\ \A s \in Requests : Importing(s) => req[s].job # run[w].job
           /\ \A v \in Workers : run[v].pc # "idle" /\ run[v].job = run[w].job => v = w
BY DEF CodesInv, RunsOK, OneHand, Unstarted, ImportsHold, RunsHold

\* The requests.
LEMMA OneHandByArrive ==
    ASSUME CodesInv, OneHand, NEW r \in Requests, Arrive(r)
    PROVE  OneHand'
<1> USE DEF Importing, Committing
<1>1. ASSUME NEW j \in Jobs, NEW mode \in Modes, BeginImport(r, j, mode)
      PROVE  OneHand'
  <2>1. PICK pc \in {"import.parse", "import.add"} : ReqBecomes(r, pc, j, << >>, 1)
    BY <1>1, BeginImportDoes
  <2>2. PICK d \in Job : d.status = "queued" /\ JobBecomes(j, d)
    BY <1>1, BeginImportDoes
  <2>3. UNCHANGED <<entry, run>> /\ job[j].status = "none" /\ entry[j].state = "none"
    BY <1>1 DEF BeginImport, OneHand, Unstarted
  <2>4. Unstarted' /\ ImportsHold'
    BY <2>1, <2>2, <2>3 DEF OneHand, Unstarted, ImportsHold, CodesInv, ReqsOK, ReqBecomes, JobBecomes
  <2>5. CommitsHold' /\ RunsHold'
    BY <2>1, <2>2, <2>3 DEF OneHand, CommitsHold, RunsHold, CodesInv, ReqsOK, ReqBecomes, JobBecomes
  <2>6. DocsFit'
    BY <2>2, <2>3 DEF OneHand, DocsFit, CodesInv, RunsOK, JobBecomes, DocStatus
  <2> QED
    BY <2>4, <2>5, <2>6 DEF OneHand
<1>2. ASSUME NEW pc \in {"commit.delete", "seed.delete", "seed.insert"},
             NEW j, NEW list, ReqBecomes(r, pc, j, list, 1),
             pc = "commit.delete" => job[j].status = "preview", UNCHANGED <<job, entry, run>>
      PROVE  OneHand'
  BY <1>2 DEF OneHand, Unstarted, ImportsHold, CommitsHold, RunsHold, DocsFit, ReqBecomes
<1>3. ASSUME NEW j \in Jobs, NEW l \in Lists, BeginCommit(r, j, l)
      PROVE  OneHand'
  BY <1>2, <1>3, BeginCommitDoes DEF BeginCommit
<1>4. ASSUME NEW replace \in BOOLEAN, BeginSeed(r, replace)
      PROVE  OneHand'
  <2>1. PICK pc \in {"seed.delete", "seed.insert"} : ReqBecomes(r, pc, IdleReq.job, Pack, 1)
    BY <1>4, BeginSeedDoes
  <2> QED
    BY <1>2, <1>4, <2>1 DEF BeginSeed
<1> QED
  BY <1>1, <1>3, <1>4 DEF Arrive

LEMMA OneHandByStep ==
    ASSUME Calm, CodesInv, OneHand, NEW r \in Requests, Step(r)
    PROVE  OneHand'
<1> USE DEF Importing, Committing
<1> DEFINE j == req[r].job
<1>1. Finish(r) => req'[r].pc = "idle" /\ \A s \in Requests \ {r} : req'[s] = req[s]
  BY FinishDoes, BlankTyped
\* A request keeps its job, or is done with it.
<1>2. ASSUME UNCHANGED <<job, entry, run>>, NEW pc, pc \in {"idle", "seed.insert"} \/
                 (Importing(r) /\ pc = "import.refuse") \/
                 (Committing(r) /\ pc \in {"commit.insert", "commit.save"}),
             req'[r].pc = pc, req'[r].job = j \/ pc = "idle", \A s \in Requests \ {r} : req'[s] = req[s]
      PROVE  OneHand'
  BY <1>2 DEF OneHand, Unstarted, ImportsHold, CommitsHold, RunsHold, DocsFit
\* An import is answered.
<1>3. ASSUME Importing(r), Finish(r), NEW d \in Job, d.status \in {"preview", "failed"},
             JobBecomes(j, d), UNCHANGED <<entry, run>>
      PROVE  OneHand'
  <2>1. /\ j \in Jobs /\ \A s \in Requests : Committing(s) => req[s].job # j
        /\ \A w \in Workers : run[w].pc # "idle" => run[w].job # j
    BY <1>3, ImportersJob
  <2>2. Unstarted' /\ ImportsHold'
    BY <1>1, <1>3, <2>1 DEF OneHand, Unstarted, ImportsHold, CodesInv, ReqsOK, JobBecomes
  <2>3. CommitsHold' /\ RunsHold'
    BY <1>1, <1>3, <2>1 DEF OneHand, CommitsHold, RunsHold, CodesInv, ReqsOK, JobBecomes
  <2>4. DocsFit'
    BY <1>3, <2>1 DEF OneHand, DocsFit, CodesInv, RunsOK, JobBecomes, DocStatus
  <2> QED
    BY <2>2, <2>3, <2>4 DEF OneHand
<1>4. CASE ImportParse(r)
  BY <1>3, <1>4, ImportParseDoes DEF ImportParse
<1>5. CASE ImportRefuse(r)
  BY <1>3, <1>5, ImportRefuseDoes DEF ImportRefuse
<1>6. CASE ImportAdd(r)
  <2>1. Importing(r) /\ j \in Jobs /\ UNCHANGED <<job, run>> /\ (Finish(r) \/ UNCHANGED entry)
    BY <1>6, ImportAddDoes DEF ImportAdd
  <2>2. CASE UNCHANGED entry /\ Finish(r)
    BY <1>1, <1>2, <2>1, <2>2
  <2>3. CASE UNCHANGED entry /\ Goto(r, "import.refuse")
    BY <1>2, <2>1, <2>3, GotoDoes DEF ReqBecomes
  <2>4. CASE Finish(r) /\ EntryBecomes(j, "waiting", entry[j].owner)
    <3>1. /\ \A w \in Workers : run[w].pc # "idle" => run[w].job # j
          /\ job[j].status = "queued"
      BY <2>1, ImportersJob DEF OneHand, ImportsHold
    <3>2. Unstarted'
      BY <2>1, <2>4, <3>1 DEF OneHand, Unstarted, EntryBecomes
    <3>6. ImportsHold'
      BY <1>1, <2>1, <2>4 DEF OneHand, ImportsHold, CodesInv, ReqsOK, EntryBecomes
    <3>3. CommitsHold'
      BY <1>1, <2>1, <2>4, <3>1 DEF OneHand, CommitsHold, CodesInv, ReqsOK, EntryBecomes
    <3>4. RunsHold'
      BY <1>1, <2>1, <2>4, <3>1 DEF OneHand, RunsHold, CodesInv, RunsOK, EntryBecomes
    <3>5. DocsFit'
      BY <1>1, <2>1, <2>4, <3>1 DEF OneHand, DocsFit, CodesInv, RunsOK, EntryBecomes
    <3> QED
      BY <3>2, <3>3, <3>4, <3>5, <3>6 DEF OneHand
  <2> QED
    BY <1>6, <2>1, <2>2, <2>3, <2>4, ImportAddDoes
<1>7. CASE DeleteMany(r)
  BY <1>2, <1>7, DeleteManyDoes DEF DeleteMany, ReqBecomes
<1>8. CASE Insert(r)
  <2>1. UNCHANGED <<job, entry, run>> /\ req[r].pc \in {"commit.insert", "seed.insert"}
    BY <1>8 DEF Insert
  <2>2. Finish(r) => OneHand'
    BY <1>1, <1>2, <2>1
  <2>3. ASSUME NEW at, ReqBecomes(r, req[r].pc, j, req[r].list, at)
        PROVE  OneHand'
    BY <1>2, <2>1, <2>3 DEF ReqBecomes
  <2>4. ASSUME req[r].pc = "commit.insert", NEW at, ReqBecomes(r, "commit.save", j, req[r].list, at)
        PROVE  OneHand'
    BY <1>2, <2>1, <2>4 DEF ReqBecomes
  <2> QED
    BY <1>8, <2>2, <2>3, <2>4, InsertDoes
<1>9. CASE CommitSave(r)
  <2>1. PICK d \in Job : d.status = "done" /\ JobBecomes(j, d)
    BY <1>9, CommitSaveDoes
  <2>2. Finish(r) /\ j \in Jobs /\ Committing(r) /\ UNCHANGED <<entry, run>>
    BY <1>9, CommitSaveDoes DEF CommitSave
  <2>3. job[j].status \in {"preview", "done"}
    BY <2>2 DEF OneHand, CommitsHold
  <2>4. Unstarted'
    BY <2>1, <2>2, <2>3 DEF OneHand, Unstarted, JobBecomes
  <2>7. ImportsHold'
    BY <1>1, <2>1, <2>2, <2>3 DEF OneHand, ImportsHold, CodesInv, ReqsOK, JobBecomes
  <2>5. CommitsHold' /\ RunsHold'
    BY <1>1, <2>1, <2>2, <2>3 DEF OneHand, CommitsHold, RunsHold, CodesInv, ReqsOK, JobBecomes
  <2>6. DocsFit'
    BY <2>1, <2>2, <2>3 DEF OneHand, DocsFit, CodesInv, RunsOK, JobBecomes, DocStatus
  <2> QED
    BY <2>4, <2>5, <2>6, <2>7 DEF OneHand
<1> QED
  BY <1>4, <1>5, <1>6, <1>7, <1>8, <1>9 DEF Step

\* The workers.
LEMMA OneHandByRun ==
    ASSUME CodesInv, OneHand, NEW w \in Workers, WorkerStep(w) \/ SaveError(w)
    PROVE  OneHand'
<1> DEFINE j == run[w].job
<1> USE DEF Importing, Committing
\* A worker goes on with its job.
<1>1. ASSUME run[w].pc # "idle", UNCHANGED <<job, entry, req>>,
             NEW pc \in {"mark", "read", "save", "fail", "ack", "nack"}, NEW loaded, NEW doc,
             RunBecomes(w, pc, j, loaded, doc),
             pc \in DOMAIN DocStatus => /\ doc.status = DocStatus[pc]
                                        /\ job[j].status \in {"queued", "processing", "failed"}
      PROVE  OneHand'
  BY <1>1 DEF OneHand, Unstarted, ImportsHold, CommitsHold, RunsHold, DocsFit, RunBecomes
<1>2. ASSUME NEW k \in Jobs, Take(w, k)
      PROVE  OneHand'
  <2>1. /\ run[w].pc = "idle" /\ entry[k].state = "waiting" /\ EntryBecomes(k, "active", w)
        /\ RunBecomes(w, "load", k, run[w].loaded, run[w].doc) /\ UNCHANGED <<job, req>>
    BY <1>2, TakeDoes DEF Take
  <2>2. Unstarted' /\ ImportsHold' /\ CommitsHold'
    BY <2>1 DEF OneHand, Unstarted, ImportsHold, CommitsHold, CodesInv, ReqsOK, EntryBecomes
  <2>3. RunsHold'
    BY <2>1 DEF OneHand, RunsHold, CodesInv, RunsOK, EntryBecomes, RunBecomes
  <2>4. DocsFit'
    BY <2>1 DEF OneHand, DocsFit, RunBecomes, DocStatus
  <2> QED
    BY <2>2, <2>3, <2>4 DEF OneHand
<1>3. CASE Load(w)
  <2>1. run[w].pc = "load" /\ UNCHANGED <<job, entry, req>>
    BY <1>3 DEF Load
  <2>2. RunBecomes(w, "ack", j, run[w].loaded, run[w].doc) => OneHand'
    BY <1>1, <2>1 DEF DocStatus
  <2>3. ASSUME NEW doc \in Job, doc.status = "processing", job[j].status \notin {"preview", "done"},
               RunBecomes(w, "mark", j, job[j], doc)
        PROVE  OneHand'
    <3>1. job[j].status \in {"queued", "processing", "failed"}
      BY <2>1, <2>3, Working, WorkersJob DEF Job
    <3> QED
      BY <1>1, <2>1, <2>3, <3>1 DEF DocStatus
  <2> QED
    BY <1>3, <2>2, <2>3, LoadDoes
<1>4. CASE Save(w)
  <2>1. PICK d \in Job : d.status \in {job[j].status, run[w].doc.status} /\ JobBecomes(j, d)
    BY <1>4, SaveDoes
  <2>2. /\ run[w].pc \in {"mark", "save", "fail"} /\ UNCHANGED <<entry, req>>
        /\ RunBecomes(w, AfterSave[run[w].pc], j, run[w].doc, run[w].doc)
    BY <1>4, SaveDoes DEF Save
  <2>3. /\ j \in Jobs /\ job[j].status # "none"
        /\ \A s \in Requests : Importing(s) => req[s].job # j
        /\ \A v \in Workers : run[v].pc # "idle" /\ run[v].job = j => v = w
    BY <2>2, WorkersJob
  <2>4. /\ run[w].doc.status = DocStatus[run[w].pc]
        /\ job[j].status \in {"queued", "processing", "failed"}
    BY <2>2 DEF OneHand, DocsFit, DocStatus
  <2>5. Unstarted' /\ ImportsHold'
    BY <2>1, <2>2, <2>3, <2>4 DEF OneHand, Unstarted, ImportsHold, CodesInv, ReqsOK, JobBecomes, DocStatus
  <2>6. CommitsHold'
    BY <2>1, <2>2, <2>4 DEF OneHand, CommitsHold, CodesInv, ReqsOK, JobBecomes
  <2>7. RunsHold'
    BY <2>2, <2>3 DEF OneHand, RunsHold, RunBecomes
  <2>8. DocsFit'
    <3>1. SUFFICES ASSUME NEW v \in Workers, run'[v].pc \in DOMAIN DocStatus
                   PROVE  /\ run'[v].doc.status = DocStatus[run'[v].pc]
                          /\ job'[run'[v].job].status \in {"queued", "processing", "failed"}
      BY DEF DocsFit
    <3>2. CASE v = w
      BY <2>1, <2>2, <2>4, <3>1, <3>2 DEF DocStatus, AfterSave, RunBecomes, JobBecomes
    <3>3. CASE v # w
      BY <2>1, <2>2, <2>3, <3>1, <3>3 DEF OneHand, DocsFit, DocStatus, CodesInv, RunsOK,
         RunBecomes, JobBecomes
    <3> QED
      BY <3>2, <3>3
  <2> QED
    BY <2>5, <2>6, <2>7, <2>8 DEF OneHand
<1>5. CASE Read(w)
  <2>1. run[w].pc = "read" /\ UNCHANGED <<job, entry, req>>
    BY <1>5 DEF Read
  <2>2. job[j].status \in {"queued", "processing", "failed"}
    BY <2>1 DEF OneHand, DocsFit, DocStatus
  <2> QED
    BY <1>1, <1>5, <2>1, <2>2, ReadDoes
<1>6. CASE SaveError(w)
  <2>1. run[w].pc \in {"mark", "save", "fail"} /\ UNCHANGED <<job, entry, req>>
    BY <1>6, SaveErrorDoes DEF SaveError
  <2>2. job[j].status \in {"queued", "processing", "failed"}
    BY <2>1 DEF OneHand, DocsFit, DocStatus
  <2>3. "nack" \notin DOMAIN DocStatus
    BY DEF DocStatus
  <2> QED
    BY <1>1, <1>6, <2>1, <2>2, <2>3, SaveErrorDoes
<1>7. CASE Ack(w) \/ Nack(w)
  <2>1. PICK state \in {"waiting", "over"}, owner \in Workers \cup {NoJob} : EntryBecomes(j, state, owner)
    BY <1>7, EndDoes DEF OneHand, RunsHold
  <2>2. /\ run[w].pc # "idle" /\ run'[w].pc = "idle" /\ \A v \in Workers \ {w} : run'[v] = run[v]
        /\ UNCHANGED <<job, req>>
    BY <1>7, EndDoes, BlankTyped DEF Ack, Nack, Settle
  <2>3. /\ j \in Jobs /\ job[j].status # "none"
        /\ \A s \in Requests : Importing(s) => req[s].job # j
        /\ \A v \in Workers : run[v].pc # "idle" /\ run[v].job = j => v = w
    BY <2>2, WorkersJob
  <2>4. Unstarted' /\ ImportsHold' /\ CommitsHold'
    BY <2>1, <2>2, <2>3 DEF OneHand, Unstarted, ImportsHold, CommitsHold, CodesInv, ReqsOK, EntryBecomes
  <2>5. RunsHold'
    BY <2>1, <2>2, <2>3 DEF OneHand, RunsHold, CodesInv, RunsOK, EntryBecomes
  <2>6. DocsFit'
    BY <2>2 DEF OneHand, DocsFit, DocStatus
  <2> QED
    BY <2>4, <2>5, <2>6 DEF OneHand
<1> QED
  BY <1>2, <1>3, <1>4, <1>5, <1>6, <1>7 DEF WorkerStep

LEMMA OneHandByLoss ==
    ASSUME Calm, CodesInv, OneHand, NEW w \in Workers, WorkerLost(w)
    PROVE  OneHand'
<1> DEFINE j == run[w].job
<1>1. PICK state \in {"waiting", "over"}, owner \in Workers \cup {NoJob} : EntryBecomes(j, state, owner)
  BY WorkerLostDoes
<1>2. /\ run[w].pc # "idle" /\ run'[w].pc = "idle" /\ \A v \in Workers \ {w} : run'[v] = run[v]
      /\ UNCHANGED <<job, req>>
  BY WorkerLostDoes, BlankTyped DEF WorkerLost
<1>3. /\ j \in Jobs /\ job[j].status # "none"
      /\ \A s \in Requests : Importing(s) => req[s].job # j
      /\ \A v \in Workers : run[v].pc # "idle" /\ run[v].job = j => v = w
  BY <1>2, WorkersJob
<1>4. Unstarted' /\ ImportsHold' /\ CommitsHold'
  BY <1>1, <1>2, <1>3 DEF OneHand, Unstarted, ImportsHold, CommitsHold, CodesInv, ReqsOK, EntryBecomes,
                          Importing, Committing
<1>5. RunsHold'
  BY <1>1, <1>2, <1>3 DEF OneHand, RunsHold, CodesInv, RunsOK, EntryBecomes
<1>6. DocsFit'
  BY <1>2 DEF OneHand, DocsFit, DocStatus
<1> QED
  BY <1>4, <1>5, <1>6 DEF OneHand

LEMMA OneHandStep ==
    ASSUME Calm, CodesInv, OneHand, [Next]_vars
    PROVE  OneHand'
<1> USE DEF OneHand, Unstarted, ImportsHold, CommitsHold, RunsHold, DocsFit, Importing, Committing
<1>1. ASSUME NEW r \in Requests, RequestLost(r)
      PROVE  OneHand'
  BY <1>1, FinishDoes, BlankTyped DEF RequestLost
<1>2. CASE Edit
  <2>1. UNCHANGED <<job, entry, req, run>>
    BY <1>2 DEF Edit, Create, Upsert, Remove, Rename
  <2> QED
    BY <2>1
<1>3. CASE UNCHANGED vars
  BY <1>3 DEF vars
<1> QED
  BY <1>1, <1>2, <1>3, OneHandByArrive, OneHandByStep, OneHandByRun, OneHandByLoss DEF Next

LEMMA OneHandInit ==
    ASSUME Init
    PROVE  OneHand
BY BlankTyped
   DEF Init, OneHand, Unstarted, ImportsHold, CommitsHold, RunsHold, DocsFit, DocStatus,
       Importing, Committing

\* While no answer of the queue is lost and a worker that loses its lock is dead,
\* a job is in one hand at a time: no worker processes what a request offers for
\* commit.
THEOREM JobsInOneHand ==
    ASSUME Calm
    PROVE  Spec => []OneHand
BY CodesInvInit, CodesInvStep, OneHandInit, OneHandStep, CodesTypes, PTL DEF Spec

\* DoneIsFinal, the property: a job that is done is never taken back to preview,
\* by a worker that comes late or a job that is tried again.
THEOREM DoneStaysDone ==
    ASSUME Calm
    PROVE  Spec => DoneIsFinal
<1>1. ASSUME CodesInv, OneHand, Next, NEW j \in Jobs, job[j].status = "done"
      PROVE  job'[j].status = "done"
  <2>1. ASSUME NEW r \in Requests, NEW k \in Jobs, NEW mode \in Modes, BeginImport(r, k, mode)
        PROVE  job'[j].status = "done"
    BY <1>1, <2>1, BeginImportDoes DEF JobBecomes
  <2>2. ASSUME NEW r \in Requests, ImportParse(r) \/ ImportRefuse(r)
        PROVE  job'[j].status = "done"
    BY <1>1, <2>2, ImportParseDoes, ImportRefuseDoes DEF JobBecomes, OneHand, ImportsHold
  <2>3. ASSUME NEW r \in Requests, CommitSave(r)
        PROVE  job'[j].status = "done"
    BY <1>1, <2>3, CommitSaveDoes DEF JobBecomes
  <2>4. ASSUME NEW w \in Workers, Save(w)
        PROVE  job'[j].status = "done"
    BY <1>1, <2>4, SaveDoes DEF JobBecomes, OneHand, DocsFit, DocStatus
  <2>5. \/ \E r \in Requests : \/ \E k \in Jobs, mode \in Modes : BeginImport(r, k, mode)
                               \/ ImportParse(r) \/ ImportRefuse(r) \/ CommitSave(r)
        \/ \E w \in Workers : Save(w)
        \/ UNCHANGED job
    BY <1>1 DEF Next, Arrive, Step, WorkerStep, Edit, BeginCommit, BeginSeed, ImportAdd, DeleteMany,
                Insert, RequestLost, Take, Load, Read, Ack, Nack, Settle, SaveError, WorkerLost,
                Create, Upsert, Remove, Rename
  <2> QED
    BY <1>1, <2>1, <2>2, <2>3, <2>4, <2>5
<1>2. CodesInv /\ OneHand /\ [Next]_vars =>
        [\A j \in Jobs : job[j].status = "done" => job'[j].status = "done"]_vars
  BY <1>1
<1> QED
  BY <1>2, CodesTypes, JobsInOneHand, PTL DEF Spec, DoneIsFinal

-----------------------------------------------------------------------------
(* What a commit has inserted                                                 *)

\* The codes that were there stay as they were.
Kept == \A c \in Codes : book[c] # Absent => book'[c] = book[c]

LEMMA PutKept ==
    ASSUME CodesInv, NEW r \in Requests, Put(r), Kept, req'[r] = req[r]
    PROVE  Put(r)'
<1>1. ASSUME Committing(r), NEW k \in 1..Len(req[r].list), book[req[r].list[k]] = req[r].job
      PROVE  book'[req[r].list[k]] = req[r].job
  <2>1. req[r].list \in Lists /\ req[r].job \in Jobs
    BY <1>1 DEF Committing, Replacing, CodesInv, ReqsOK
  <2>2. req[r].list[k] \in Codes /\ req[r].job # Absent
    BY <2>1, ListLong, CostCodeImportAssumption
  <2> QED
    BY <1>1, <2>2 DEF Kept
<1> QED
  BY <1>1 DEF Put, Committing

\* A request that has not begun to replace, or that begins or ends one.
LEMMA PutIdle ==
    ASSUME NEW r \in Requests,
           \/ req'[r].pc \notin {"commit.delete", "commit.insert", "commit.save"}
           \/ req'[r].pc = "commit.delete" /\ req'[r].at = 1
    PROVE  Put(r)'
BY DEF Put

LEMMA BookKept ==
    ASSUME CodesInv, BookInv, Kept, NEW r \in Requests, \A s \in Requests \ {r} : req'[s] = req[s],
           \/ req'[r] = req[r]
           \/ req'[r].pc \in {"idle", "import.parse", "import.add", "import.refuse"}
    PROVE  BookInv'
<1>1. \A s \in Requests : Put(s)'
  <2>1. ASSUME NEW s \in Requests
        PROVE  Put(s)'
    <3>1. CASE req'[s] = req[s]
      BY <3>1, PutKept DEF BookInv
    <3>2. CASE req'[s].pc \in {"idle", "import.parse", "import.add", "import.refuse"}
      BY <3>2, PutIdle
    <3> QED
      BY <3>1, <3>2
  <2> QED
    BY <2>1
<1>2. OneReplaces'
  BY DEF BookInv, OneReplaces, Replacing
<1> QED
  BY <1>1, <1>2 DEF BookInv

LEMMA BookInvByArrive ==
    ASSUME Undivided, CodesInv, BookInv, NEW r \in Requests, Arrive(r)
    PROVE  BookInv'
<1>1. Kept
  BY DEF Arrive, BeginImport, BeginCommit, BeginSeed, Kept
<1>2. ASSUME NEW j \in Jobs, NEW mode \in Modes, BeginImport(r, j, mode)
      PROVE  BookInv'
  BY <1>1, <1>2, BeginImportDoes, BookKept DEF ReqBecomes
<1>3. ASSUME NEW pc \in {"commit.delete", "seed.delete", "seed.insert"},
             NEW j, NEW list, ReqBecomes(r, pc, j, list, 1), MayReplace
      PROVE  BookInv'
  <2>1. \A s \in Requests : ~Replacing(s)
    BY <1>3 DEF MayReplace, Undivided
  <2>2. OneReplaces'
    BY <1>3, <2>1 DEF OneReplaces, Replacing, ReqBecomes
  <2>3. \A s \in Requests : Put(s)'
    BY <1>3, <2>1, PutIdle DEF Replacing, ReqBecomes
  <2> QED
    BY <2>2, <2>3 DEF BookInv
<1>4. ASSUME NEW j \in Jobs, NEW l \in Lists, BeginCommit(r, j, l)
      PROVE  BookInv'
  BY <1>3, <1>4, BeginCommitDoes DEF BeginCommit
<1>5. ASSUME NEW replace \in BOOLEAN, BeginSeed(r, replace)
      PROVE  BookInv'
  <2>1. PICK pc \in {"seed.delete", "seed.insert"} : ReqBecomes(r, pc, IdleReq.job, Pack, 1)
    BY <1>5, BeginSeedDoes
  <2> QED
    BY <1>3, <1>5, <2>1 DEF BeginSeed
<1> QED
  BY <1>2, <1>4, <1>5 DEF Arrive

\* A replacement goes on: it is the only one.
LEMMA BookByReplace ==
    ASSUME BookInv, NEW r \in Requests, Replacing(r), \A s \in Requests \ {r} : req'[s] = req[s], Put(r)'
    PROVE  BookInv'
<1>1. \A s \in Requests \ {r} : ~Replacing(s) /\ ~Replacing(s)'
  BY DEF BookInv, OneReplaces, Replacing
<1>2. OneReplaces'
  BY <1>1 DEF OneReplaces
<1>3. \A s \in Requests : Put(s)'
  BY <1>1 DEF Put, Replacing
<1> QED
  BY <1>2, <1>3 DEF BookInv

LEMMA BookInvByInsert ==
    ASSUME CodesInv, BookInv, NEW r \in Requests, Insert(r)
    PROVE  BookInv'
<1> DEFINE q == req[r]
           c == q.list[q.at]
<1>1. /\ Replacing(r) /\ q.pc \in {"commit.insert", "seed.insert"}
      /\ q.list \in Lists /\ Len(q.list) \in Nat /\ q.at \in 1..Len(q.list)
      /\ q.pc = "commit.insert" => q.job \in Jobs
  BY InsertDoes, ListLong DEF Inserting, Committing, CodesInv, ReqsOK
<1>2. Finish(r) => BookInv'
  BY <1>1, FinishDoes, BlankTyped, PutIdle, BookByReplace
<1>3. ASSUME q.pc = "seed.insert", NEW at, ReqBecomes(r, q.pc, q.job, q.list, at)
      PROVE  BookInv'
  BY <1>1, <1>3, PutIdle, BookByReplace DEF ReqBecomes
\* The code at q.at joins the ones before it.
<1>4. ASSUME q.pc = "commit.insert", book[c] = Absent, NEW source, book' = [book EXCEPT ![c] = source],
             source = q.job, NEW k \in 1..Len(q.list), k <= q.at
      PROVE  book'[q.list[k]] = q.job
  <2>1. c \in Codes /\ q.list[k] \in Codes /\ book \in [Codes -> Sources] /\ q.job # Absent
    BY <1>1, <1>4, ListLong, CostCodeImportAssumption DEF CodesInv
  <2>2. k < q.at => book[q.list[k]] = q.job
    BY <1>4 DEF BookInv, Put
  <2>3. k < q.at \/ k = q.at
    BY <1>1, <1>4
  <2> QED
    BY <1>4, <2>1, <2>2, <2>3
<1>5. ASSUME q.pc = "commit.insert", book[c] = Absent, NEW source, book' = [book EXCEPT ![c] = source],
             source = q.job, q.at < Len(q.list), ReqBecomes(r, q.pc, q.job, q.list, q.at + 1)
      PROVE  BookInv'
  <2>1. \A k \in 1..Len(q.list) : k < q.at + 1 => k <= q.at
    BY <1>1
  <2>2. Put(r)'
    BY <1>4, <1>5, <2>1 DEF Put, ReqBecomes
  <2> QED
    BY <1>1, <1>5, <2>2, BookByReplace DEF ReqBecomes
<1>6. ASSUME q.pc = "commit.insert", book[c] = Absent, NEW source, book' = [book EXCEPT ![c] = source],
             source = q.job, q.at = Len(q.list), ReqBecomes(r, "commit.save", q.job, q.list, q.at)
      PROVE  BookInv'
  <2>1. \A k \in 1..Len(q.list) : k <= q.at
    BY <1>1, <1>6
  <2>2. Put(r)'
    BY <1>4, <1>6, <2>1 DEF Put, ReqBecomes
  <2> QED
    BY <1>1, <1>6, <2>2, BookByReplace DEF ReqBecomes
<1> QED
  BY <1>1, <1>2, <1>3, <1>5, <1>6, InsertDoes

LEMMA BookInvByStep ==
    ASSUME CodesInv, BookInv, NEW r \in Requests, Step(r)
    PROVE  BookInv'
<1>1. Finish(r) => req'[r].pc = "idle" /\ \A s \in Requests \ {r} : req'[s] = req[s]
  BY FinishDoes, BlankTyped
<1>2. CASE UNCHANGED book /\ Finish(r)
  BY <1>1, <1>2, BookKept DEF Kept
<1>3. CASE ImportAdd(r)
  <2>1. UNCHANGED book
    BY <1>3 DEF ImportAdd
  <2>2. Goto(r, "import.refuse") => BookInv'
    BY <2>1, GotoDoes, BookKept DEF Kept, ReqBecomes
  <2> QED
    BY <1>2, <1>3, <2>1, <2>2, ImportAddDoes
<1>4. CASE DeleteMany(r)
  <2>1. PICK pc \in {"commit.insert", "seed.insert"} :
           /\ pc = "commit.insert" <=> req[r].pc = "commit.delete"
           /\ ReqBecomes(r, pc, req[r].job, req[r].list, req[r].at)
    BY <1>4, DeleteManyDoes
  <2>2. Replacing(r) /\ (pc = "commit.insert" => req[r].at = 1)
    BY <1>4, <2>1, DeleteManyDoes DEF BookInv, Put
  <2>3. Put(r)'
    BY <2>1, <2>2 DEF Put, ReqBecomes
  <2> QED
    BY <2>1, <2>2, <2>3, BookByReplace DEF ReqBecomes
<1> QED
  BY <1>2, <1>3, <1>4, BookInvByInsert DEF Step, ImportParse, ImportRefuse, CommitSave

LEMMA BookInvStep ==
    ASSUME Undivided, CodesInv, BookInv, [Next]_vars
    PROVE  BookInv'
<1>1. ASSUME NEW r \in Requests, RequestLost(r)
      PROVE  BookInv'
  BY <1>1, FinishDoes, BlankTyped, BookKept DEF RequestLost, Kept
<1>2. ASSUME UNCHANGED req, Kept
      PROVE  BookInv'
  BY <1>2, PutKept DEF BookInv, OneReplaces, Replacing
<1>3. ASSUME UNCHANGED req, \A r \in Requests : ~Replacing(r)
      PROVE  BookInv'
  BY <1>3 DEF BookInv, OneReplaces, Replacing, Put
<1>4. ASSUME NEW w \in Workers, WorkerStep(w) \/ SaveError(w) \/ WorkerLost(w)
      PROVE  BookInv'
  <2>1. UNCHANGED <<book, req>>
    BY <1>4 DEF WorkerStep, Take, Load, Save, Read, Ack, Nack, Settle, SaveError, WorkerLost
  <2> QED
    BY <1>2, <2>1 DEF Kept
<1>5. CASE Edit
  <2>1. UNCHANGED req
    BY <1>5 DEF Edit, Create, Upsert, Remove, Rename
  <2>2. ASSUME NEW c \in Codes, Create(c) \/ Upsert(c)
        PROVE  Kept
    BY <2>2 DEF Create, Upsert, Kept, CodesInv
  <2>3. ASSUME NEW c \in Codes, Remove(c) \/ \E d \in Codes : Rename(c, d)
        PROVE  \A r \in Requests : ~Replacing(r)
    BY <2>3 DEF Remove, Rename, MayEdit, Undivided
  <2> QED
    BY <1>2, <1>3, <1>5, <2>1, <2>2, <2>3 DEF Edit
<1>6. CASE UNCHANGED vars
  BY <1>2, <1>6 DEF vars, Kept
<1> QED
  BY <1>1, <1>4, <1>5, <1>6, BookInvByArrive, BookInvByStep DEF Next

LEMMA BookInvInit ==
    ASSUME Init
    PROVE  BookInv
BY BlankTyped DEF Init, BookInv, OneReplaces, Replacing, Put

\* While the codes are replaced by one request at a time and not edited meanwhile,
\* what a commit has inserted so far is in the book.
THEOREM InsertedStays ==
    ASSUME Undivided
    PROVE  Spec => []BookInv
BY CodesInvInit, CodesInvStep, BookInvInit, BookInvStep, CodesTypes, PTL DEF Spec

\* DoneMeansImported, the property: when a commit makes its job done, every code of
\* its list is in the book and comes from that job.
THEOREM DoneIsImported ==
    ASSUME Undivided
    PROVE  Spec => DoneMeansImported
<1>1. ASSUME CodesInv, BookInv, NEW r \in Requests, req[r].pc = "commit.save"
      PROVE  \A k \in DOMAIN req[r].list : book[req[r].list[k]] = req[r].job
  <2>1. req[r].list \in Lists
    BY <1>1 DEF CodesInv, ReqsOK, Replacing
  <2>2. DOMAIN req[r].list = 1..Len(req[r].list)
    BY <2>1, ListLong
  <2> QED
    BY <1>1, <2>2 DEF BookInv, Put
<1>2. CodesInv /\ BookInv =>
        [\A r \in Requests :
           LET q == req[r] IN
           q.pc = "commit.save" /\ job'[q.job].status = "done" =>
             \A k \in DOMAIN q.list : book[q.list[k]] = q.job]_vars
  BY <1>1
<1> QED
  BY <1>2, CodesTypes, InsertedStays, PTL DEF DoneMeansImported
=============================================================================
