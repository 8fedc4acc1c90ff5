------------------------------ MODULE CrmProofs ------------------------------
(***************************************************************************)
(* Theorems about Crm, for any directory and any number of requests.  That *)
(* indexed names are unique and that the taxonomy knows every key in use   *)
(* holds whatever the requests do to one another; what a person's location *)
(* and a legal hold promise holds as long as no two requests have the same *)
(* record in hand.                                                         *)
(***************************************************************************)
EXTENDS Crm, TLAPS

-----------------------------------------------------------------------------
(* The inductive invariants                                                   *)

InHand(q) == q.pc \in {"ensure", "save"}

\* Keys a taxonomy knows; those of an edge are reserved ones, and in use.
Known(t, id, tags) ==
    IF id \in Edges THEN tags \subseteq Reserved \cap t["edge_type"].active
    ELSE tags \subseteq t["tag"].active \cup t["tag"].archived

\* A request with a record in hand is about to write one that is there, and if
\* it has new keys they are known by the time it saves.
RequestOK(t, q) ==
    /\ InHand(q) <=> q.id # None
    /\ InHand(q) => q.doc.status # "none"
    /\ q.pc = "ensure" => q.id \notin Edges
    /\ q.pc = "save" /\ "tags" \in q.fields => Known(t, q.id, q.doc.tags)

IndInv ==
    /\ TypeOK
    /\ \A r \in Requests : RequestOK(taxonomy, req[r])
    /\ OneOfAName
    /\ \A id \in Ids : Known(taxonomy, id, record[id].tags)

\* No two requests have the same record in hand.
Apart == "same" \notin Liberties

OneEach == \A q, r \in Requests : InHand(req[q]) /\ req[q].id = req[r].id => q = r

\* The location of a person, as recorded or about to be, is one of the company.
Located(recs, d) ==
    d.location # None => recs[d.location].status # "none" /\ recs[d.location].company = d.company

\* The record in hand is as it was read, and not under hold; a location that
\* is there stays with its company.
Fresh(recs, q) ==
    LET now == recs[q.id] IN
    /\ ~now.hold
    /\ \A f \in Fields \ q.fields : q.doc[f] = now[f]
    /\ q.id \in Locations => now.status = "none" \/ q.doc.company = now.company
    /\ q.id \in People => Located(recs, q.doc)

ApartInv ==
    /\ OneEach
    /\ \A r \in Requests : InHand(req[r]) => Fresh(record, req[r])
    /\ \A p \in People : Located(record, record[p])
    /\ \A id \in Ids : record[id].status = "none" => ~record[id].hold

-----------------------------------------------------------------------------
(* Documents and requests                                                     *)

LEMMA Typed ==
    ASSUME IndInv
    PROVE  /\ record \in [Ids -> Record] /\ taxonomy \in [Spaces -> Values]
           /\ \A id \in Ids : record[id] \in Record
           /\ \A ns \in Spaces : taxonomy[ns] \in Values
           /\ req \in [Requests -> Request]
           /\ \A r \in Requests : req[r] \in Request /\ RequestOK(taxonomy, req[r])
           /\ TypeOK
BY DEF IndInv, TypeOK

LEMMA Kinds ==
    /\ Companies \subseteq Ids /\ Locations \subseteq Ids /\ Offices \subseteq Ids
    /\ People \subseteq Ids /\ Edges \subseteq Ids /\ Indexed \subseteq Ids
    /\ None \notin Ids /\ People \cap Indexed = {} /\ People \cap Locations = {}
    /\ \A id \in Companies \cup Locations \cup Offices \cup People : id \notin Edges
BY CrmAssumption DEF Ids, Indexed

LEMMA NoRecordType == NoRecord \in Record /\ NoRecord.hold = FALSE /\ NoRecord.location = None
BY DEF NoRecord, Record

LEMMA IdleType ==
    /\ Idle \in Request /\ Idle.pc = "idle" /\ Idle.id = None /\ ~InHand(Idle)
    /\ \A t \in [Spaces -> Values] : RequestOK(t, Idle)
<1>1. NoRecord \in Record
  BY NoRecordType
<1> HIDE DEF NoRecord
<1>2. Idle \in Request /\ Idle.pc = "idle" /\ Idle.id = None
  BY <1>1 DEF Idle, Request, Spaces
<1> QED
  BY <1>2 DEF InHand, RequestOK

Moves(r, q) ==
    /\ req' \in [Requests -> Request] /\ req'[r] = q
    /\ \A o \in Requests \ {r} : req'[o] = req[o]

LEMMA RequestMoves ==
    ASSUME TypeOK, NEW r \in Requests, NEW q \in Request, req' = [req EXCEPT ![r] = q]
    PROVE  Moves(r, q)
BY DEF TypeOK, Moves

\* What save leaves of a record when the fields that changed are written.
Merged(now, d, fields) == [f \in DOMAIN now |-> IF f \in fields THEN d[f] ELSE now[f]]

LEMMA MergedType ==
    ASSUME NEW now \in Record, NEW d \in Record, NEW fields \in SUBSET Fields
    PROVE  LET m == Merged(now, d, fields) IN
           /\ m \in Record /\ m.hold = now.hold
           /\ m.status = IF "status" \in fields THEN d.status ELSE now.status
           /\ m.tags = IF "tags" \in fields THEN d.tags ELSE now.tags
           /\ m.company = IF "company" \in fields THEN d.company ELSE now.company
           /\ m.location = IF "location" \in fields THEN d.location ELSE now.location
<1> DEFINE m == Merged(now, d, fields)
<1>1. "hold" \notin fields
  BY DEF Fields
<1>2. DOMAIN now = {"status", "hold", "name", "tags", "company", "location", "from", "to"}
  BY DEF Record
<1>3. \A f \in DOMAIN now : m[f] = IF f \in fields THEN d[f] ELSE now[f]
  BY DEF Merged
<1>4. m = [status |-> m.status, hold |-> m.hold, name |-> m.name, tags |-> m.tags,
           company |-> m.company, location |-> m.location, from |-> m.from, to |-> m.to]
  BY <1>2 DEF Merged
<1> HIDE DEF m
<1>5. /\ m.status = (IF "status" \in fields THEN d.status ELSE now.status) /\ m.hold = now.hold
      /\ m.name = (IF "name" \in fields THEN d.name ELSE now.name)
      /\ m.tags = (IF "tags" \in fields THEN d.tags ELSE now.tags)
      /\ m.company = (IF "company" \in fields THEN d.company ELSE now.company)
      /\ m.location = (IF "location" \in fields THEN d.location ELSE now.location)
      /\ m.from = (IF "from" \in fields THEN d.from ELSE now.from)
      /\ m.to = (IF "to" \in fields THEN d.to ELSE now.to)
  BY <1>1, <1>2, <1>3
<1>6. m \in Record
  <2>1. /\ m.status \in {"none", "live", "archived"} /\ m.hold \in BOOLEAN
        /\ m.name \in Names \cup Ids \cup {None} /\ m.tags \in SUBSET Keys
        /\ m.company \in Companies \cup {None} /\ m.location \in Locations \cup {None}
        /\ m.from \in Ids \cup {None} /\ m.to \in Ids \cup {None}
    BY <1>5 DEF Record
  <2> QED
    BY <1>4, <2>1 DEF Record
<1> QED
  BY <1>5, <1>6 DEF m

-----------------------------------------------------------------------------
(* What the parts of the invariant need of a step                             *)

\* Names.  How two records are alike does not depend on which is looked at.
Alike(a, d, b, e) ==
    \/ a \in Companies /\ b \in Companies /\ SameCompany(d, e)
    \/ a \in Locations /\ b \in Locations /\ SameLocation(d, e)
    \/ a \in Offices /\ b \in Offices /\ SameOffice(d, e)
    \/ a \in People /\ b \in People /\ SamePerson(d, e)
    \/ a \in Edges /\ b \in Edges /\ SameEdge(d, e)

NoneAlike(recs) ==
    \A a \in Indexed, b \in Ids : a # b /\ recs[a].status = "live" /\ recs[b].status = "live"
        => ~Alike(a, recs[a], b, recs[b])

LEMMA NamesApart ==
    /\ OneOfAName <=> NoneAlike(record)
    /\ OneOfAName' <=> NoneAlike(record')
BY DEF OneOfAName, Unique, Live, Clash, NoneAlike, Alike

LEMMA AlikeSymmetric ==
    ASSUME NEW a, NEW d, NEW b, NEW e, Alike(a, d, b, e)
    PROVE  Alike(b, e, a, d)
BY DEF Alike, SameCompany, SameLocation, SameOffice, SamePerson, SameEdge

\* One record is written, and if it is live and indexed, then no other is like it.
LEMMA NamesKeep ==
    ASSUME OneOfAName, record \in [Ids -> Record], NEW id \in Ids, NEW d \in Record,
           record' = [record EXCEPT ![id] = d],
           d.status = "live" /\ id \in Indexed => Unique(id, d)
    PROVE  OneOfAName'
<1>1. record'[id] = d /\ \A o \in Ids \ {id} : record'[o] = record[o]
  OBVIOUS
<1> SUFFICES ASSUME NEW a \in Indexed, NEW b \in Ids, a # b,
                    record'[a].status = "live", record'[b].status = "live",
                    Alike(a, record'[a], b, record'[b])
             PROVE  FALSE
  BY NamesApart DEF NoneAlike
<1>2. a \in Ids
  BY Kinds
<1>3. CASE a # id /\ b # id
  BY <1>1, <1>2, <1>3, NamesApart DEF NoneAlike
<1>4. CASE a = id
  <2>1. Unique(a, d) /\ record[b].status = "live" /\ Alike(a, d, b, record[b])
    BY <1>1, <1>4
  <2> QED
    BY <1>4, <2>1 DEF Unique, Live, Clash, Alike
<1>5. CASE b = id /\ a # id
  <2>1. d.status = "live" /\ record[a].status = "live" /\ Alike(id, d, a, record[a])
    BY <1>1, <1>2, <1>5, AlikeSymmetric
  <2>2. id \in Indexed
    BY <2>1, Kinds DEF Alike, Indexed
  <2>3. Unique(id, d)
    BY <2>1, <2>2
  <2> QED
    BY <1>2, <1>5, <2>1, <2>3 DEF Unique, Live, Clash, Alike
<1> QED
  BY <1>3, <1>4, <1>5

\* Keys.  The taxonomy only forgets what is not reserved, and keeps that.
Grows ==
    /\ Reserved \cap taxonomy["edge_type"].active \subseteq taxonomy'["edge_type"].active
    /\ taxonomy["tag"].active \cup taxonomy["tag"].archived
         \subseteq taxonomy'["tag"].active \cup taxonomy'["tag"].archived

LEMMA KnownKeeps ==
    ASSUME Grows, NEW id, NEW tags, Known(taxonomy, id, tags)
    PROVE  Known(taxonomy', id, tags)
BY DEF Grows, Known

\* Types, of the taxonomy and of the records.
TaxonomyOK ==
    /\ taxonomy' \in [Spaces -> Values] /\ Grows
    /\ \A ns \in Spaces : taxonomy'[ns].active \cap taxonomy'[ns].archived = {}

LEMMA TaxonomyStays ==
    ASSUME IndInv, UNCHANGED taxonomy
    PROVE  TaxonomyOK
BY DEF IndInv, TypeOK, TaxonomyOK, Grows

RecordsOK ==
    /\ record' \in [Ids -> Record] /\ OneOfAName'
    /\ \A id \in Ids : Known(taxonomy, id, record'[id].tags)

LEMMA RecordsStay ==
    ASSUME IndInv, UNCHANGED record
    PROVE  RecordsOK
<1>1. OneOfAName'
  BY NamesApart DEF IndInv
<1> QED
  BY <1>1, Typed DEF IndInv, RecordsOK

LEMMA RecordWritten ==
    ASSUME IndInv, NEW id \in Ids, NEW d \in Record, record' = [record EXCEPT ![id] = d],
           d.status = "live" /\ id \in Indexed => Unique(id, d), Known(taxonomy, id, d.tags)
    PROVE  RecordsOK
<1>1. OneOfAName'
  BY Typed, NamesKeep DEF IndInv
<1>2. record' \in [Ids -> Record] /\ record'[id] = d /\ \A o \in Ids \ {id} : record'[o] = record[o]
  BY Typed
<1> QED
  BY <1>1, <1>2 DEF IndInv, RecordsOK

\* A step of one request
LEMMA RequestKeeps ==
    ASSUME IndInv, NEW r \in Requests, NEW q, Moves(r, q), RequestOK(taxonomy', q), RecordsOK, TaxonomyOK
    PROVE  IndInv'
<1>1. TypeOK'
  BY DEF IndInv, TypeOK, Moves, TaxonomyOK, RecordsOK
<1>2. \A o \in Requests : RequestOK(taxonomy, req[o]) => RequestOK(taxonomy', req[o])
  BY KnownKeeps DEF RequestOK, TaxonomyOK
<1>3. \A o \in Requests : RequestOK(taxonomy', req'[o])
  BY <1>2 DEF IndInv, Moves
<1>4. \A id \in Ids : Known(taxonomy', id, record'[id].tags)
  BY KnownKeeps DEF TaxonomyOK, RecordsOK
<1> QED
  BY <1>1, <1>3, <1>4 DEF IndInv, RecordsOK

\* A step of compliance
LEMMA NoRequestKeeps ==
    ASSUME IndInv, UNCHANGED <<req, taxonomy>>, RecordsOK
    PROVE  IndInv'
<1>1. TypeOK'
  BY DEF IndInv, TypeOK, RecordsOK
<1> QED
  BY <1>1 DEF IndInv, RecordsOK

-----------------------------------------------------------------------------
(* Load and check                                                             *)

PeopleLocated == \A p \in People : Located(record, record[p])

\* What all the services make sure of as they take a record in hand.
Takes(r, id, d) ==
    /\ Free(r, id) /\ Prepare(r, id, d) /\ UNCHANGED record
    /\ record[id].status = "none" \/ ~record[id].hold
    /\ d.status # "none" /\ ~d.hold
    /\ id \in Edges => d.tags = record[id].tags \/ d.tags \subseteq Reserved \cap taxonomy'["edge_type"].active
    /\ id \in Locations => record[id].status = "none" \/ d.company = record[id].company
    /\ id \in People /\ PeopleLocated => Located(record, d)

Checks(r) == TaxonomyOK /\ \E id \in Ids, d \in Record : Takes(r, id, d)

LEMMA CompanyChecks ==
    ASSUME IndInv, NEW r \in Requests, NEW c \in Companies, CompanyCreate(r, c) \/ CompanyUpdate(r, c)
    PROVE  Checks(r)
<1>1. c \in Ids /\ c \notin Edges /\ c \notin People
  BY Kinds, CrmAssumption
<1>2. record[c] \in Record /\ TaxonomyOK /\ UNCHANGED record /\ Free(r, c)
  BY <1>1, Typed, TaxonomyStays DEF CompanyCreate, CompanyUpdate
<1>3. CASE CompanyCreate(r, c)
  <2>1. PICK n \in Names, t \in Tags : Prepare(r, c, [NoRecord EXCEPT !.status = "live", !.name = n, !.tags = t])
    BY <1>3 DEF CompanyCreate
  <2> DEFINE d == [NoRecord EXCEPT !.status = "live", !.name = n, !.tags = t]
  <2>2. d \in Record /\ d.status = "live" /\ ~d.hold
    BY DEF NoRecord, Record, Tags
  <2>3. record[c].status = "none" /\ Prepare(r, c, d)
    BY <1>3, <2>1 DEF CompanyCreate, New
  <2> HIDE DEF d
  <2>4. Takes(r, c, d)
    BY <1>1, <1>2, <2>2, <2>3 DEF Takes
  <2> QED
    BY <1>1, <1>2, <2>2, <2>4 DEF Checks
<1>4. CASE CompanyUpdate(r, c)
  <2>1. Live(c) /\ ~record[c].hold
    BY <1>4 DEF CompanyUpdate, Editable
  <2>2. PICK d \in Record : Prepare(r, c, d) /\ d.status = "live" /\ ~d.hold /\ d.company = record[c].company
    <3>1. ASSUME NEW n \in Names, Prepare(r, c, [record[c] EXCEPT !.name = n])
          PROVE  \E d \in Record : Prepare(r, c, d) /\ d.status = "live" /\ ~d.hold /\ d.company = record[c].company
      <4> DEFINE d == [record[c] EXCEPT !.name = n]
      <4>1. d \in Record /\ d.status = "live" /\ ~d.hold /\ d.company = record[c].company
        BY <1>2, <2>1 DEF Record, Live
      <4>2. Prepare(r, c, d)
        BY <3>1
      <4> HIDE DEF d
      <4> QED
        BY <4>1, <4>2
    <3>2. ASSUME NEW t \in Tags, Prepare(r, c, [record[c] EXCEPT !.tags = t])
          PROVE  \E d \in Record : Prepare(r, c, d) /\ d.status = "live" /\ ~d.hold /\ d.company = record[c].company
      <4> DEFINE d == [record[c] EXCEPT !.tags = t]
      <4>1. d \in Record /\ d.status = "live" /\ ~d.hold /\ d.company = record[c].company
        BY <1>2, <2>1 DEF Record, Live, Tags
      <4>2. Prepare(r, c, d)
        BY <3>2
      <4> HIDE DEF d
      <4> QED
        BY <4>1, <4>2
    <3> QED
      BY <1>4, <3>1, <3>2 DEF CompanyUpdate
  <2>3. Takes(r, c, d)
    BY <1>1, <1>2, <2>1, <2>2 DEF Takes
  <2> QED
    BY <1>1, <1>2, <2>3 DEF Checks
<1> QED
  BY <1>3, <1>4

LEMMA LocationChecks ==
    ASSUME IndInv, NEW r \in Requests, NEW l \in Locations, LocationCreate(r, l) \/ LocationUpdate(r, l)
    PROVE  Checks(r)
<1>1. l \in Ids /\ l \notin Edges /\ l \notin People
  BY Kinds, CrmAssumption
<1>2. record[l] \in Record /\ TaxonomyOK /\ UNCHANGED record /\ Free(r, l)
  BY <1>1, Typed, TaxonomyStays DEF LocationCreate, LocationUpdate
<1>3. CASE LocationCreate(r, l)
  <2>1. PICK c \in Companies, n \in Names, t \in Tags :
           Prepare(r, l, [NoRecord EXCEPT !.status = "live", !.company = c, !.name = n, !.tags = t])
    BY <1>3 DEF LocationCreate
  <2> DEFINE d == [NoRecord EXCEPT !.status = "live", !.company = c, !.name = n, !.tags = t]
  <2>2. d \in Record /\ d.status = "live" /\ ~d.hold
    BY DEF NoRecord, Record, Tags
  <2>3. record[l].status = "none" /\ Prepare(r, l, d)
    BY <1>3, <2>1 DEF LocationCreate, New
  <2> HIDE DEF d
  <2>4. Takes(r, l, d)
    BY <1>1, <1>2, <2>2, <2>3 DEF Takes
  <2> QED
    BY <1>1, <1>2, <2>2, <2>4 DEF Checks
<1>4. CASE LocationUpdate(r, l)
  <2>1. Live(l) /\ ~record[l].hold
    BY <1>4 DEF LocationUpdate, Editable
  <2>2. PICK n \in Names : Prepare(r, l, [record[l] EXCEPT !.name = n])
    BY <1>4 DEF LocationUpdate
  <2> DEFINE d == [record[l] EXCEPT !.name = n]
  <2>3. d \in Record /\ d.status = "live" /\ ~d.hold /\ d.company = record[l].company
    BY <1>2, <2>1 DEF Record, Live
  <2>4. Prepare(r, l, d)
    BY <2>2
  <2> HIDE DEF d
  <2>5. Takes(r, l, d)
    BY <1>1, <1>2, <2>1, <2>3, <2>4 DEF Takes
  <2> QED
    BY <1>1, <1>2, <2>3, <2>5 DEF Checks
<1> QED
  BY <1>3, <1>4

LEMMA OfficeChecks ==
    ASSUME IndInv, NEW r \in Requests, NEW o \in Offices, OfficeCreate(r, o) \/ OfficeUpdate(r, o)
    PROVE  Checks(r)
<1>1. o \in Ids /\ o \notin Edges /\ o \notin People
  BY Kinds, CrmAssumption
<1>2. record[o] \in Record /\ TaxonomyOK /\ UNCHANGED record /\ Free(r, o)
  BY <1>1, Typed, TaxonomyStays DEF OfficeCreate, OfficeUpdate
<1>3. CASE OfficeCreate(r, o)
  <2>1. PICK n \in Names, t \in Tags : Prepare(r, o, [NoRecord EXCEPT !.status = "live", !.name = n, !.tags = t])
    BY <1>3 DEF OfficeCreate
  <2> DEFINE d == [NoRecord EXCEPT !.status = "live", !.name = n, !.tags = t]
  <2>2. d \in Record /\ d.status = "live" /\ ~d.hold
    BY DEF NoRecord, Record, Tags
  <2>3. record[o].status = "none" /\ Prepare(r, o, d)
    BY <1>3, <2>1 DEF OfficeCreate, New
  <2> HIDE DEF d
  <2>4. Takes(r, o, d)
    BY <1>1, <1>2, <2>2, <2>3 DEF Takes
  <2> QED
    BY <1>1, <1>2, <2>2, <2>4 DEF Checks
<1>4. CASE OfficeUpdate(r, o)
  <2>1. Live(o) /\ ~record[o].hold
    BY <1>4 DEF OfficeUpdate, Editable
  <2>2. PICK n \in Names : Prepare(r, o, [record[o] EXCEPT !.name = n])
    BY <1>4 DEF OfficeUpdate
  <2> DEFINE d == [record[o] EXCEPT !.name = n]
  <2>3. d \in Record /\ d.status = "live" /\ ~d.hold /\ d.company = record[o].company
    BY <1>2, <2>1 DEF Record, Live
  <2>4. Prepare(r, o, d)
    BY <2>2
  <2> HIDE DEF d
  <2>5. Takes(r, o, d)
    BY <1>1, <1>2, <2>1, <2>3, <2>4 DEF Takes
  <2> QED
    BY <1>1, <1>2, <2>3, <2>5 DEF Checks
<1> QED
  BY <1>3, <1>4

\* A location comes with its company, or is one of the company there is, or
\* stays with both.
LEMMA PersonChecks ==
    ASSUME IndInv, NEW r \in Requests, NEW p \in People,
           PersonCreate(r, p) \/ PersonMove(r, p) \/ PersonUpdate(r, p)
    PROVE  Checks(r)
<1>1. p \in Ids /\ p \notin Edges /\ p \notin Locations
  BY Kinds
<1>2. record[p] \in Record /\ TaxonomyOK /\ UNCHANGED record /\ Free(r, p)
  BY <1>1, Typed, TaxonomyStays DEF PersonCreate, PersonMove, PersonUpdate
<1>3. CASE PersonCreate(r, p)
  <2>1. PICK n \in Names \cup {None}, c \in Companies \cup {None}, l \in Locations \cup {None} :
           /\ Placed(c, l)
           /\ Prepare(r, p, [NoRecord EXCEPT !.status = "live", !.name = n, !.company = c, !.location = l])
    BY <1>3 DEF PersonCreate
  <2> DEFINE d == [NoRecord EXCEPT !.status = "live", !.name = n, !.company = c, !.location = l]
  <2>2. d \in Record /\ d.status = "live" /\ ~d.hold /\ d.company = c /\ d.location = l
    BY DEF NoRecord, Record
  <2>3. record[p].status = "none" /\ Prepare(r, p, d)
    BY <1>3, <2>1 DEF PersonCreate, New
  <2> HIDE DEF d
  <2>4. Located(record, d)
    BY <2>1, <2>2 DEF Located, Placed, Live
  <2>5. Takes(r, p, d)
    BY <1>1, <1>2, <2>2, <2>3, <2>4 DEF Takes
  <2> QED
    BY <1>1, <1>2, <2>2, <2>5 DEF Checks
<1>4. CASE PersonMove(r, p)
  <2>1. Live(p) /\ ~record[p].hold
    BY <1>4 DEF PersonMove, Editable
  <2>2. PICK d \in Record : Prepare(r, p, d) /\ d.status = "live" /\ ~d.hold /\ Located(record, d)
    <3>1. ASSUME NEW c \in Companies \cup {None}, NEW l \in Locations \cup {None},
                 Placed(c, l), Prepare(r, p, [record[p] EXCEPT !.company = c, !.location = l])
          PROVE  \E d \in Record : Prepare(r, p, d) /\ d.status = "live" /\ ~d.hold /\ Located(record, d)
      <4> DEFINE d == [record[p] EXCEPT !.company = c, !.location = l]
      <4>1. d \in Record /\ d.status = "live" /\ ~d.hold /\ d.company = c /\ d.location = l
        BY <1>2, <2>1 DEF Record, Live
      <4>2. Prepare(r, p, d)
        BY <3>1
      <4> HIDE DEF d
      <4>3. Located(record, d)
        BY <3>1, <4>1 DEF Located, Placed, Live
      <4> QED
        BY <4>1, <4>2, <4>3
    <3>2. ASSUME NEW l \in Locations, Live(l), record[p].company = record[l].company,
                 Prepare(r, p, [record[p] EXCEPT !.location = l])
          PROVE  \E d \in Record : Prepare(r, p, d) /\ d.status = "live" /\ ~d.hold /\ Located(record, d)
      <4> DEFINE d == [record[p] EXCEPT !.location = l]
      <4>1. d \in Record /\ d.status = "live" /\ ~d.hold /\ d.company = record[p].company /\ d.location = l
        BY <1>2, <2>1 DEF Record, Live
      <4>2. Prepare(r, p, d)
        BY <3>2
      <4> HIDE DEF d
      <4>3. Located(record, d)
        BY <3>2, <4>1 DEF Located, Live
      <4> QED
        BY <4>1, <4>2, <4>3
    <3> QED
      BY <1>4, <3>1, <3>2 DEF PersonMove
  <2>3. Takes(r, p, d)
    BY <1>1, <1>2, <2>1, <2>2 DEF Takes
  <2> QED
    BY <1>1, <1>2, <2>3 DEF Checks
<1>5. CASE PersonUpdate(r, p)
  <2>1. Live(p) /\ ~record[p].hold
    BY <1>5 DEF PersonUpdate, Editable
  <2>2. PICK n \in Names \cup {None} : Prepare(r, p, [record[p] EXCEPT !.name = n])
    BY <1>5 DEF PersonUpdate
  <2> DEFINE d == [record[p] EXCEPT !.name = n]
  <2>3. /\ d \in Record /\ d.status = "live" /\ ~d.hold
        /\ d.company = record[p].company /\ d.location = record[p].location
    BY <1>2, <2>1 DEF Record, Live
  <2>4. Prepare(r, p, d)
    BY <2>2
  <2> HIDE DEF d
  <2>5. PeopleLocated => Located(record, d)
    BY <2>3 DEF PeopleLocated, Located
  <2>6. Takes(r, p, d)
    BY <1>1, <1>2, <2>1, <2>3, <2>4, <2>5 DEF Takes
  <2> QED
    BY <1>1, <1>2, <2>3, <2>6 DEF Checks
<1> QED
  BY <1>3, <1>4, <1>5

\* The type of a new edge is reserved, and in use as of this step.
LEMMA EdgeChecks ==
    ASSUME IndInv, NEW r \in Requests, NEW e \in Edges, EdgeCreate(r, e)
    PROVE  Checks(r)
<1>1. e \in Ids /\ e \notin Locations /\ e \notin People
  BY Kinds
<1>2. record[e] \in Record /\ UNCHANGED record /\ Free(r, e) /\ record[e].status = "none"
  BY <1>1, Typed DEF EdgeCreate, New
<1>3. taxonomy["edge_type"] \in Values /\ Reserved \in SUBSET Keys
  BY Typed, CrmAssumption DEF Spaces
<1>4. /\ Got \in Values
      /\ Got.active = taxonomy["edge_type"].active \cup (Reserved \ taxonomy["edge_type"].archived)
      /\ Got.archived = taxonomy["edge_type"].archived
  BY <1>3 DEF Got, Values
<1>5. taxonomy' \in [Spaces -> Values] /\ taxonomy'["edge_type"] = Got /\ taxonomy'["tag"] = taxonomy["tag"]
  <2>1. taxonomy' = [taxonomy EXCEPT !["edge_type"] = Got]
    BY DEF EdgeCreate
  <2> HIDE DEF Got
  <2> QED
    BY <1>4, <2>1, Typed DEF Spaces
<1>6. TaxonomyOK
  <2>1. Got.active \cap Got.archived = {} /\ taxonomy["tag"].active \cap taxonomy["tag"].archived = {}
    BY <1>4, Typed DEF TypeOK, Spaces
  <2> HIDE DEF Got
  <2> QED
    BY <1>4, <1>5, <2>1 DEF TaxonomyOK, Grows, Spaces
<1>7. PICK k \in Reserved \cap Got.active, p \in People, x \in People \cup Companies \cup Locations :
         Prepare(r, e, [NoRecord EXCEPT !.status = "live", !.tags = {k}, !.from = p, !.to = x])
  BY DEF EdgeCreate
<1> DEFINE d == [NoRecord EXCEPT !.status = "live", !.tags = {k}, !.from = p, !.to = x]
<1>8. d \in Record /\ d.status = "live" /\ ~d.hold /\ d.tags = {k}
  <2>1. k \in Keys /\ p \in Ids /\ x \in Ids
    BY Kinds, CrmAssumption
  <2> HIDE DEF Got
  <2> QED
    BY <2>1 DEF NoRecord, Record
<1>9. Prepare(r, e, d)
  BY <1>7
<1> HIDE DEF d, Got
<1>10. Takes(r, e, d)
  BY <1>1, <1>2, <1>5, <1>7, <1>8, <1>9 DEF Takes
<1> QED
  BY <1>1, <1>6, <1>8, <1>10 DEF Checks

LEMMA ArchiveChecks ==
    ASSUME IndInv, NEW r \in Requests, NEW id \in Ids, Archive(r, id) \/ Unarchive(r, id)
    PROVE  Checks(r)
<1>1. record[id] \in Record /\ TaxonomyOK /\ UNCHANGED record /\ Free(r, id) /\ ~record[id].hold
  BY Typed, TaxonomyStays DEF Archive, Unarchive, Editable
<1>2. PICK st \in {"live", "archived"} : Prepare(r, id, [record[id] EXCEPT !.status = st])
  BY DEF Archive, Unarchive
<1> DEFINE d == [record[id] EXCEPT !.status = st]
<1>3. /\ d \in Record /\ d.status # "none" /\ ~d.hold /\ d.tags = record[id].tags
      /\ d.company = record[id].company /\ d.location = record[id].location
  BY <1>1 DEF Record
<1>4. Prepare(r, id, d)
  BY <1>2
<1> HIDE DEF d
<1>5. id \in People /\ PeopleLocated => Located(record, d)
  BY <1>3 DEF PeopleLocated, Located
<1>6. Takes(r, id, d)
  BY <1>1, <1>3, <1>4, <1>5 DEF Takes
<1> QED
  BY <1>1, <1>3, <1>6 DEF Checks

\* The keys are ensured first if they are new, and the record is no edge.
LEMMA PrepareMoves ==
    ASSUME TypeOK, NEW r \in Requests, NEW id \in Ids, NEW d \in Record, Prepare(r, id, d)
    PROVE  /\ Moves(r, req'[r]) /\ InHand(req'[r])
           /\ req'[r].id = id /\ req'[r].doc = d /\ req'[r].fields \subseteq Fields
           /\ \A f \in Fields : f \in req'[r].fields <=> d[f] # record[id][f]
           /\ req'[r].pc = "ensure" => id \notin Edges
           /\ req'[r].pc = "save" /\ "tags" \in req'[r].fields => d.tags = {} \/ id \in Edges
<1> DEFINE changed == {f \in Fields : d[f] # record[id][f]}
<1>1. PICK pc \in {"ensure", "save"} :
         /\ req' = [req EXCEPT ![r] = [Idle EXCEPT !.pc = pc, !.id = id, !.doc = d, !.fields = changed]]
         /\ pc = IF "tags" \in changed /\ d.tags # {} /\ id \notin Edges THEN "ensure" ELSE "save"
  BY DEF Prepare
<1>2. changed \in SUBSET Fields /\ \A f \in Fields : f \in changed <=> d[f] # record[id][f]
  OBVIOUS
<1> HIDE DEF changed
<1> DEFINE m == [Idle EXCEPT !.pc = pc, !.id = id]
           q == [m EXCEPT !.doc = d, !.fields = changed]
<1>3. m \in Request /\ m.pc = pc /\ m.id = id
  <2>1. NoRecord \in Record
    BY NoRecordType
  <2> HIDE DEF NoRecord
  <2> QED
    BY <2>1 DEF Idle, Request, Spaces
<1>4. req' = [req EXCEPT ![r] = q]
  BY <1>1
<1> HIDE DEF m
<1>5. q \in Request /\ q.pc = pc /\ q.id = id /\ q.doc = d /\ q.fields = changed
  BY <1>2, <1>3 DEF Request
<1> HIDE DEF q
<1>6. Moves(r, q) /\ req'[r] = q
  BY <1>4, <1>5, RequestMoves DEF Moves
<1> QED
  BY <1>1, <1>2, <1>5, <1>6 DEF InHand

LEMMA CheckStep ==
    ASSUME IndInv, NEW r \in Requests, Checks(r)
    PROVE  IndInv'
<1>1. PICK id \in Ids, d \in Record : Takes(r, id, d)
  BY DEF Checks
<1>2. TaxonomyOK /\ Prepare(r, id, d) /\ UNCHANGED record /\ d.status # "none"
  BY <1>1 DEF Checks, Takes
<1>3. /\ Moves(r, req'[r]) /\ InHand(req'[r])
      /\ req'[r].id = id /\ req'[r].doc = d /\ req'[r].fields \subseteq Fields
      /\ \A f \in Fields : f \in req'[r].fields <=> d[f] # record[id][f]
      /\ req'[r].pc = "ensure" => id \notin Edges
      /\ req'[r].pc = "save" /\ "tags" \in req'[r].fields => d.tags = {} \/ id \in Edges
  BY <1>2, Typed, PrepareMoves
<1>4. ASSUME req'[r].pc = "save", "tags" \in req'[r].fields
      PROVE  Known(taxonomy', id, d.tags)
  <2>1. CASE id \in Edges
    <3>1. d.tags # record[id].tags
      BY <1>3, <1>4 DEF Fields
    <3>2. d.tags \subseteq Reserved \cap taxonomy'["edge_type"].active
      BY <1>1, <2>1, <3>1 DEF Takes
    <3> QED
      BY <2>1, <3>2 DEF Known
  <2>2. CASE id \notin Edges
    BY <1>3, <1>4, <2>2 DEF Known
  <2> QED
    BY <2>1, <2>2
<1>5. RequestOK(taxonomy', req'[r])
  BY <1>2, <1>3, <1>4, Kinds DEF RequestOK
<1> QED
  BY <1>2, <1>3, <1>5, RecordsStay, RequestKeeps

-----------------------------------------------------------------------------
(* Taxonomy, save and compliance                                              *)

Goes(r, pc) == req' = [req EXCEPT ![r].pc = pc]

LEMMA EnsureStep ==
    ASSUME IndInv, NEW r \in Requests, Ensure(r)
    PROVE  /\ IndInv' /\ Moves(r, req'[r]) /\ UNCHANGED record
           /\ InHand(req[r]) /\ InHand(req'[r])
           /\ req'[r].id = req[r].id /\ req'[r].doc = req[r].doc /\ req'[r].fields = req[r].fields
<1> DEFINE id == req[r].id
           tags == req[r].doc.tags
           t == taxonomy["tag"]
           v == [active |-> t.active \cup tags, archived |-> t.archived \ tags]
           q == [req[r] EXCEPT !.pc = "save"]
<1>1. /\ req[r].pc = "ensure" /\ req[r] \in Request /\ RequestOK(taxonomy, req[r]) /\ UNCHANGED record
      /\ req' = [req EXCEPT ![r] = q]
  BY Typed DEF Ensure
<1>2. id \in Ids /\ id \notin Edges /\ req[r].doc \in Record /\ tags \in SUBSET Keys
  BY <1>1 DEF RequestOK, InHand, Request, Record
<1>3. SpaceOf(id) = "tag"
  BY <1>2 DEF SpaceOf
<1>4. taxonomy' = [taxonomy EXCEPT !["tag"] = v]
  BY <1>3 DEF Ensure
<1>5. t \in Values /\ v \in Values /\ v.active \cap v.archived = {}
  <2>1. t \in Values /\ t.active \cap t.archived = {}
    BY Typed DEF TypeOK, Spaces
  <2> QED
    BY <1>2, <2>1 DEF Values
<1>6. /\ taxonomy' \in [Spaces -> Values] /\ taxonomy'["tag"] = v /\ taxonomy'["edge_type"] = taxonomy["edge_type"]
      /\ v.active = t.active \cup tags /\ v.archived = t.archived \ tags
  <2> HIDE DEF v
  <2>1. taxonomy' \in [Spaces -> Values] /\ taxonomy'["tag"] = v /\ taxonomy'["edge_type"] = taxonomy["edge_type"]
    BY <1>4, <1>5, Typed DEF Spaces
  <2> QED
    BY <2>1 DEF v
<1> HIDE DEF v
<1>7. TaxonomyOK
  <2>1. taxonomy["edge_type"].active \cap taxonomy["edge_type"].archived = {}
    BY Typed DEF TypeOK, Spaces
  <2> QED
    BY <1>5, <1>6, <2>1 DEF TaxonomyOK, Grows, Spaces
<1>8. q \in Request /\ q.pc = "save" /\ q.id = id /\ q.doc = req[r].doc /\ q.fields = req[r].fields
  BY <1>1 DEF Request
<1> HIDE DEF q
<1>9. Moves(r, q) /\ req'[r] = q
  BY <1>1, <1>8, Typed, RequestMoves DEF Moves
<1>10. RequestOK(taxonomy', q)
  <2>1. Known(taxonomy', id, tags)
    BY <1>2, <1>6 DEF Known
  <2> QED
    BY <1>1, <1>8, <2>1 DEF RequestOK, InHand
<1> QED
  BY <1>1, <1>7, <1>8, <1>9, <1>10, RecordsStay, RequestKeeps DEF InHand

\* The record is as it was, if the index refuses, or has the fields that changed.
LEMMA SaveStep ==
    ASSUME IndInv, NEW r \in Requests, Save(r)
    PROVE  /\ IndInv' /\ Moves(r, Idle) /\ InHand(req[r]) /\ req[r].id \in Ids
           /\ \/ UNCHANGED record
              \/ record' = [record EXCEPT ![req[r].id] = Merged(record[req[r].id], req[r].doc, req[r].fields)]
<1> DEFINE id == req[r].id
           d == req[r].doc
           now == record[id]
           m == Merged(now, d, req[r].fields)
<1>1. /\ req[r].pc = "save" /\ req[r] \in Request /\ RequestOK(taxonomy, req[r]) /\ UNCHANGED taxonomy
      /\ req' = [req EXCEPT ![r] = Idle]
      /\ record' = IF m.status = "live" /\ id \in Indexed /\ ~Unique(id, m) THEN record
                   ELSE [record EXCEPT ![id] = m]
  BY Typed DEF Save, Merged
<1>2. id \in Ids /\ d \in Record /\ req[r].fields \in SUBSET Fields
  BY <1>1 DEF RequestOK, InHand, Request
<1>3. now \in Record
  BY <1>2, Typed
<1>4. m \in Record /\ m.tags = IF "tags" \in req[r].fields THEN d.tags ELSE now.tags
  <2> HIDE DEF now, d
  <2> QED
    BY <1>2, <1>3, MergedType
<1>5. Moves(r, Idle)
  BY <1>1, IdleType, Typed, RequestMoves
<1>6. RecordsOK
  <2>1. CASE m.status = "live" /\ id \in Indexed /\ ~Unique(id, m)
    BY <1>1, <2>1, RecordsStay
  <2>2. CASE ~(m.status = "live" /\ id \in Indexed /\ ~Unique(id, m))
    <3>1. record' = [record EXCEPT ![id] = m]
      BY <1>1, <2>2
    <3>2. Known(taxonomy, id, m.tags)
      <4>1. Known(taxonomy, id, now.tags)
        BY <1>2 DEF IndInv
      <4>2. "tags" \in req[r].fields => Known(taxonomy, id, d.tags)
        BY <1>1 DEF RequestOK
      <4> HIDE DEF now, d, m
      <4> QED
        BY <1>4, <4>1, <4>2
    <3> HIDE DEF id, m
    <3> QED
      BY <1>2, <1>4, <2>2, <3>1, <3>2, RecordWritten
  <2> QED
    BY <2>1, <2>2
<1>7. TaxonomyOK
  BY <1>1, TaxonomyStays
<1>8. RequestOK(taxonomy', Idle)
  BY <1>7, IdleType DEF TaxonomyOK
<1>9. IndInv'
  BY <1>5, <1>6, <1>7, <1>8, RequestKeeps
<1> QED
  BY <1>1, <1>2, <1>5, <1>9 DEF InHand

\* What a put leaves out is archived, never a reserved key.
LEMMA PutSteps ==
    ASSUME IndInv, NEW r \in Requests, PutLoad(r) \/ PutSave(r) \/ Fail(r)
    PROVE  IndInv' /\ Moves(r, req'[r]) /\ UNCHANGED record /\ ~InHand(req'[r]) /\ req'[r].id = None
<1>1. CASE PutLoad(r)
  <2>1. PICK ns \in Spaces, desired \in SUBSET Keys :
           req' = [req EXCEPT ![r] = [Idle EXCEPT !.pc = "put", !.ns = ns, !.seen = {taxonomy[ns]}, !.put = desired]]
    BY <1>1 DEF PutLoad
  <2> DEFINE seen == {taxonomy[ns]}
             q == [Idle EXCEPT !.pc = "put", !.ns = ns, !.seen = seen, !.put = desired]
  <2>2. seen \in SUBSET Values
    BY Typed
  <2>3. req' = [req EXCEPT ![r] = q] /\ UNCHANGED <<record, taxonomy>>
    BY <1>1, <2>1 DEF PutLoad
  <2> HIDE DEF seen
  <2>4. q \in Request /\ q.pc = "put" /\ q.id = None
    <3>1. NoRecord \in Record
      BY NoRecordType
    <3> HIDE DEF NoRecord
    <3> QED
      BY <2>2, <3>1 DEF Idle, Request
  <2> HIDE DEF q
  <2>5. Moves(r, q) /\ req'[r] = q /\ RequestOK(taxonomy', q)
    BY <2>3, <2>4, Typed, RequestMoves DEF Moves, RequestOK, InHand
  <2> QED
    BY <2>3, <2>4, <2>5, RecordsStay, TaxonomyStays, RequestKeeps DEF InHand
<1>2. CASE PutSave(r)
  <2> DEFINE ns == req[r].ns
             v == PutOf(ns, taxonomy[ns], req[r].put)
  <2>1. /\ req' = [req EXCEPT ![r] = Idle] /\ UNCHANGED record
        /\ taxonomy' = taxonomy \/ taxonomy' = [taxonomy EXCEPT ![ns] = v]
    BY <1>2 DEF PutSave
  <2>2. ns \in Spaces /\ req[r].put \in SUBSET Keys /\ Reserved \in SUBSET Keys /\ taxonomy[ns] \in Values
    BY Typed, CrmAssumption DEF Request
  <2>3. /\ v \in Values /\ v.active \cap v.archived = {} /\ ReservedIn(ns) \subseteq v.active
        /\ taxonomy[ns].active \cup taxonomy[ns].archived \subseteq v.active \cup v.archived
    <3>1. ReservedIn(ns) \in SUBSET Keys
      BY <2>2 DEF ReservedIn
    <3> HIDE DEF ns
    <3> QED
      BY <2>2, <3>1 DEF PutOf, Values
  <2> HIDE DEF v, ns
  <2>4. TaxonomyOK
    <3>1. CASE taxonomy' = taxonomy
      BY <3>1, TaxonomyStays
    <3>2. CASE taxonomy' = [taxonomy EXCEPT ![ns] = v]
      <4>1. /\ taxonomy' \in [Spaces -> Values] /\ taxonomy'[ns] = v
            /\ \A o \in Spaces \ {ns} : taxonomy'[o] = taxonomy[o]
        BY <2>2, <2>3, <3>2, Typed
      <4>2. \A o \in Spaces : taxonomy'[o].active \cap taxonomy'[o].archived = {}
        BY <2>3, <4>1, Typed DEF TypeOK
      <4>3. Grows
        <5>1. CASE ns = "edge_type"
          <6>1. ReservedIn(ns) = Reserved /\ taxonomy'["tag"] = taxonomy["tag"]
            BY <4>1, <5>1 DEF ReservedIn, Spaces
          <6> QED
            BY <2>3, <4>1, <5>1, <6>1 DEF Grows
        <5>2. CASE ns = "tag"
          <6>1. taxonomy'["edge_type"] = taxonomy["edge_type"]
            BY <4>1, <5>2 DEF Spaces
          <6> QED
            BY <2>3, <4>1, <5>2, <6>1 DEF Grows
        <5> QED
          BY <2>2, <5>1, <5>2 DEF Spaces
      <4> QED
        BY <4>1, <4>2, <4>3 DEF TaxonomyOK
    <3> QED
      BY <2>1, <3>1, <3>2
  <2>5. Moves(r, Idle) /\ req'[r] = Idle
    BY <2>1, IdleType, Typed, RequestMoves DEF Moves
  <2>6. RequestOK(taxonomy', Idle)
    BY <2>4, IdleType DEF TaxonomyOK
  <2> QED
    BY <2>1, <2>4, <2>5, <2>6, IdleType, RecordsStay, RequestKeeps
<1>3. CASE Fail(r)
  <2>1. req' = [req EXCEPT ![r] = Idle] /\ UNCHANGED <<record, taxonomy>>
    BY <1>3 DEF Fail
  <2>2. Moves(r, Idle) /\ req'[r] = Idle /\ TaxonomyOK
    BY <2>1, IdleType, Typed, RequestMoves, TaxonomyStays DEF Moves
  <2>3. RequestOK(taxonomy', Idle)
    BY <2>2, IdleType DEF TaxonomyOK
  <2> QED
    BY <2>1, <2>2, <2>3, IdleType, RecordsStay, RequestKeeps
<1> QED
  BY <1>1, <1>2, <1>3

\* Holds, stripped addresses and batches write one field of one record.
LEMMA ComplianceStep ==
    ASSUME IndInv, NEW id \in Ids, SetHold(id) \/ BatchArchive(id) \/ StripPii(id)
    PROVE  /\ IndInv' /\ UNCHANGED req /\ Quiet(id)
           /\ record[id].hold => ~record'[id].hold
           /\ \E d \in Record :
                /\ record' = [record EXCEPT ![id] = d]
                /\ d.status = "none" <=> record[id].status = "none"
                /\ d.hold => record[id].hold \/ record[id].status # "none"
                /\ d.company = record[id].company /\ d.location = record[id].location
<1>1. record[id] \in Record /\ UNCHANGED <<taxonomy, req>> /\ Quiet(id)
  BY Typed DEF SetHold, BatchArchive, StripPii
<1>2. Known(taxonomy, id, record[id].tags) /\ (Live(id) /\ id \in Indexed => Unique(id, record[id]))
  BY DEF IndInv, OneOfAName
<1>3. PICK d \in Record :
         /\ record' = [record EXCEPT ![id] = d] /\ (record[id].hold => ~d.hold)
         /\ d.status = "none" <=> record[id].status = "none"
         /\ d.hold => record[id].hold \/ record[id].status # "none"
         /\ d.company = record[id].company /\ d.location = record[id].location /\ d.tags = record[id].tags
         /\ d.status = "live" /\ id \in Indexed => Unique(id, d)
  <2>1. CASE SetHold(id)
    <3> DEFINE d == [record[id] EXCEPT !.hold = ~@]
    <3>1. /\ d \in Record /\ d.hold = ~record[id].hold /\ d.status = record[id].status
          /\ d.company = record[id].company /\ d.location = record[id].location /\ d.tags = record[id].tags
          /\ d.name = record[id].name /\ d.from = record[id].from /\ d.to = record[id].to
      BY <1>1 DEF Record
    <3>2. record' = [record EXCEPT ![id] = d] /\ record[id].status # "none"
      BY <2>1 DEF SetHold
    <3> HIDE DEF d
    <3>3. d.status = "live" /\ id \in Indexed => Unique(id, d)
      BY <1>2, <3>1 DEF Live, Unique, Clash, SameCompany, SameLocation, SameOffice, SamePerson, SameEdge
    <3> QED
      BY <3>1, <3>2, <3>3
  <2>2. CASE StripPii(id)
    <3> DEFINE d == [record[id] EXCEPT !.name = IF id \in People THEN None ELSE id]
    <3>1. /\ d \in Record /\ d.hold = record[id].hold /\ d.status = record[id].status
          /\ d.company = record[id].company /\ d.location = record[id].location /\ d.tags = record[id].tags
      BY <1>1 DEF Record
    <3>2. /\ record' = [record EXCEPT ![id] = d] /\ ~record[id].hold
          /\ id \in Indexed /\ Live(id) => Unique(id, d)
      BY <2>2 DEF StripPii
    <3> HIDE DEF d
    <3>3. d.status = "live" /\ id \in Indexed => Unique(id, d)
      BY <3>1, <3>2 DEF Live
    <3> QED
      BY <3>1, <3>2, <3>3
  <2>3. CASE BatchArchive(id) /\ record' = [record EXCEPT ![id].status = "archived"] /\ Live(id)
    <3> DEFINE d == [record[id] EXCEPT !.status = "archived"]
    <3>1. /\ d \in Record /\ d.hold = record[id].hold /\ d.status = "archived"
          /\ d.company = record[id].company /\ d.location = record[id].location /\ d.tags = record[id].tags
      BY <1>1 DEF Record
    <3>2. record' = [record EXCEPT ![id] = d] /\ ~record[id].hold /\ record[id].status = "live"
      BY <2>3 DEF BatchArchive, Live
    <3> HIDE DEF d
    <3> QED
      BY <3>1, <3>2
  <2>4. CASE /\ BatchArchive(id) /\ record' = [record EXCEPT ![id].status = "live"]
             /\ record[id].status = "archived" /\ (id \in Indexed => Unique(id, record[id]))
    <3> DEFINE d == [record[id] EXCEPT !.status = "live"]
    <3>1. /\ d \in Record /\ d.hold = record[id].hold /\ d.status = "live"
          /\ d.company = record[id].company /\ d.location = record[id].location /\ d.tags = record[id].tags
          /\ d.name = record[id].name /\ d.from = record[id].from /\ d.to = record[id].to
      BY <1>1 DEF Record
    <3>2. record' = [record EXCEPT ![id] = d] /\ ~record[id].hold
      BY <2>4 DEF BatchArchive
    <3> HIDE DEF d
    <3>3. id \in Indexed => Unique(id, d)
      BY <2>4, <3>1 DEF Unique, Clash, SameCompany, SameLocation, SameOffice, SamePerson, SameEdge
    <3> QED
      BY <2>4, <3>1, <3>2, <3>3
  <2> QED
    BY <2>1, <2>2, <2>3, <2>4 DEF BatchArchive
<1>4. RecordsOK
  BY <1>2, <1>3, RecordWritten
<1>5. IndInv' /\ record'[id] = d
  BY <1>1, <1>3, <1>4, Typed, NoRequestKeeps
<1> QED
  BY <1>1, <1>3, <1>5

-----------------------------------------------------------------------------
(* Every step                                                                 *)

LEMMA InitInv == Init => IndInv /\ ApartInv
<1> SUFFICES ASSUME Init PROVE IndInv /\ ApartInv
  OBVIOUS
<1>1. \A id \in Ids : record[id] = NoRecord
  BY DEF Init
<1>2. /\ record \in [Ids -> Record] /\ taxonomy \in [Spaces -> Values] /\ req \in [Requests -> Request]
      /\ \A ns \in Spaces : taxonomy[ns].active \cap taxonomy[ns].archived = {}
  <2>1. NoRecord \in Record /\ Idle \in Request
    BY NoRecordType, IdleType
  <2> QED
    BY <2>1 DEF Init, Values
<1>3. \A r \in Requests : ~InHand(req[r]) /\ RequestOK(taxonomy, req[r])
  BY <1>2, IdleType DEF Init
<1>4. OneOfAName
  BY <1>1, Kinds DEF OneOfAName, Live, NoRecord
<1>5. \A id \in Ids : Known(taxonomy, id, record[id].tags)
  BY <1>1 DEF Known, NoRecord
<1>6. (\A id \in Ids : ~record[id].hold) /\ \A p \in People : Located(record, record[p])
  BY <1>1, Kinds, NoRecordType DEF Located
<1> QED
  BY <1>2, <1>3, <1>4, <1>5, <1>6 DEF IndInv, TypeOK, ApartInv, OneEach

Steps(r) == Checks(r) \/ Ensure(r) \/ Save(r) \/ PutLoad(r) \/ PutSave(r) \/ Fail(r)

Reaches(id) == SetHold(id) \/ BatchArchive(id) \/ StripPii(id)

\* All the services' handlers are checks that take a record in hand.
LEMMA NextCases ==
    ASSUME IndInv, Next
    PROVE  (\E r \in Requests : Steps(r)) \/ (\E id \in Ids : Reaches(id))
<1>1. ASSUME NEW r \in Requests,
             \/ \E c \in Companies : CompanyCreate(r, c) \/ CompanyUpdate(r, c)
             \/ \E l \in Locations : LocationCreate(r, l) \/ LocationUpdate(r, l)
             \/ \E o \in Offices : OfficeCreate(r, o) \/ OfficeUpdate(r, o)
             \/ \E p \in People : PersonCreate(r, p) \/ PersonMove(r, p) \/ PersonUpdate(r, p)
             \/ \E e \in Edges : EdgeCreate(r, e)
             \/ \E id \in Ids : Archive(r, id) \/ Unarchive(r, id)
      PROVE  Checks(r)
  BY <1>1, CompanyChecks, LocationChecks, OfficeChecks, PersonChecks, EdgeChecks, ArchiveChecks
<1>2. ASSUME NEW id \in Ids \ Edges, StripPii(id) PROVE \E i \in Ids : Reaches(i)
  BY <1>2 DEF Reaches
<1> QED
  BY <1>1, <1>2 DEF Next, Steps, Reaches

LEMMA StepKeeps ==
    ASSUME IndInv, Next
    PROVE  IndInv'
BY NextCases, CheckStep, EnsureStep, SaveStep, PutSteps, ComplianceStep DEF Steps, Reaches

LEMMA StutterKeeps ==
    ASSUME IndInv, UNCHANGED vars
    PROVE  IndInv'
BY RecordsStay, NoRequestKeeps DEF vars

\* The types, the requests, the names and the keys hold one another up, whether
\* or not requests have the same record in hand, in every reachable state.
THEOREM Inductive == Spec => []IndInv
BY InitInv, StepKeeps, StutterKeeps, PTL DEF Spec

\* Records, taxonomy and requests keep their types, and no key is both in use
\* and archived.
THEOREM TypeCorrect == Spec => []TypeOK
<1>1. IndInv => TypeOK
  BY DEF IndInv
<1> QED
  BY <1>1, Inductive, PTL

\* Creates, updates and unarchives that all found a name free do not all get
\* it: there is one live company, location or office of a name and one live
\* edge of a type between two nodes.
THEOREM NamesUnique == Spec => []OneOfAName
<1>1. IndInv => OneOfAName
  BY DEF IndInv
<1> QED
  BY <1>1, Inductive, PTL

\* Whatever puts, ensures and saves do between one another's steps, the
\* taxonomy knows each key a record carries, and an edge's type is in use.
THEOREM NoKeyForgotten == Spec => []KeysKept
<1>1. IndInv => KeysKept
  BY DEF IndInv, KeysKept, Known, SpaceOf
<1> QED
  BY <1>1, Inductive, PTL

-----------------------------------------------------------------------------
(* One request for a record at a time                                         *)

Kept == \A id \in Ids : record[id].hold /\ record'[id].hold => record'[id] = record[id]

LEMMA InHandIds ==
    ASSUME IndInv
    PROVE  \A r \in Requests : IF InHand(req[r]) THEN req[r].id \in Ids ELSE req[r].id = None
BY Typed, Kinds DEF RequestOK, Request

\* A request takes a record in hand, or goes on with it.
LEMMA ApartTakes ==
    ASSUME IndInv, ApartInv, NEW r \in Requests, NEW q, Moves(r, q), UNCHANGED record,
           IF InHand(q) THEN Fresh(record, q) /\ \A o \in Requests \ {r} : req[o].id # q.id
           ELSE q.id = None
    PROVE  ApartInv' /\ Kept
<1>1. Kept
  BY DEF Kept
<1>2. OneEach'
  BY InHandIds, Kinds DEF ApartInv, OneEach, Moves
<1>3. \A o \in Requests : InHand(req'[o]) => Fresh(record, req'[o])
  BY DEF ApartInv, Moves
<1> QED
  BY <1>1, <1>2, <1>3 DEF ApartInv

\* A record nobody else has in hand is written: one that may be, and a location
\* that is there stays with its company.
LEMMA ApartWrites ==
    ASSUME IndInv, ApartInv, OneEach', NEW id \in Ids, NEW d \in Record,
           record' = [record EXCEPT ![id] = d],
           \A o \in Requests : InHand(req'[o]) => req'[o] = req[o] /\ req[o].id # id,
           id \in Locations /\ record[id].status # "none" =>
               d.status # "none" /\ d.company = record[id].company,
           id \in People => Located(record, d),
           record[id].hold \/ d.status = "none" => ~d.hold
    PROVE  ApartInv' /\ Kept
<1>1. record'[id] = d /\ \A o \in Ids \ {id} : record'[o] = record[o]
  BY Typed
<1>2. Kept
  BY <1>1 DEF Kept
<1>3. ASSUME NEW e \in Record, Located(record, e) PROVE Located(record', e)
  <2>1. e.location \in Locations \cup {None}
    BY DEF Record
  <2>2. \A l \in Locations : record[l].status # "none" =>
            record'[l].status # "none" /\ record'[l].company = record[l].company
    BY <1>1, Kinds
  <2> QED
    BY <1>3, <2>1, <2>2 DEF Located
<1>4. \A p \in People : Located(record', record'[p])
  BY <1>1, <1>3, Typed, Kinds DEF ApartInv
<1>5. ASSUME NEW o \in Requests, InHand(req'[o]) PROVE Fresh(record', req'[o])
  <2>1. req'[o] = req[o] /\ Fresh(record, req[o]) /\ req[o].id \in Ids /\ req[o].doc \in Record
    BY <1>5, InHandIds, Typed DEF ApartInv, Request
  <2>2. record'[req[o].id] = record[req[o].id]
    BY <1>1, <1>5, <2>1
  <2> QED
    BY <1>3, <2>1, <2>2 DEF Fresh
<1>6. \A o \in Ids : record'[o].status = "none" => ~record'[o].hold
  BY <1>1 DEF ApartInv
<1> QED
  BY <1>2, <1>4, <1>5, <1>6 DEF ApartInv

LEMMA ApartCheck ==
    ASSUME IndInv, ApartInv, Apart, NEW r \in Requests, Checks(r)
    PROVE  ApartInv' /\ Kept
<1>1. PICK id \in Ids, d \in Record : Takes(r, id, d)
  BY DEF Checks
<1>2. /\ Moves(r, req'[r]) /\ InHand(req'[r])
      /\ req'[r].id = id /\ req'[r].doc = d
      /\ \A f \in Fields : f \in req'[r].fields <=> d[f] # record[id][f]
      /\ UNCHANGED record
  BY <1>1, Typed, PrepareMoves DEF Takes
<1>3. \A o \in Requests \ {r} : req[o].id # id
  BY <1>1 DEF Takes, Free, Apart
<1>4. Fresh(record, req'[r])
  <2>1. ~record[id].hold
    BY <1>1 DEF Takes, ApartInv
  <2>2. id \in People => Located(record, d)
    BY <1>1 DEF Takes, ApartInv, PeopleLocated
  <2>3. id \in Locations => record[id].status = "none" \/ d.company = record[id].company
    BY <1>1 DEF Takes
  <2> QED
    BY <1>2, <2>1, <2>2, <2>3 DEF Fresh
<1> QED
  BY <1>2, <1>3, <1>4, ApartTakes

LEMMA ApartEnsure ==
    ASSUME IndInv, ApartInv, NEW r \in Requests, Ensure(r)
    PROVE  ApartInv' /\ Kept
<1>1. /\ Moves(r, req'[r]) /\ UNCHANGED record /\ InHand(req[r]) /\ InHand(req'[r])
      /\ req'[r].id = req[r].id /\ req'[r].doc = req[r].doc /\ req'[r].fields = req[r].fields
  BY EnsureStep
<1>2. Fresh(record, req'[r])
  BY <1>1 DEF ApartInv, Fresh
<1>3. \A o \in Requests \ {r} : req[o].id # req'[r].id
  BY <1>1 DEF ApartInv, OneEach
<1> QED
  BY <1>1, <1>2, <1>3, ApartTakes

\* The record has become what the request had in hand, since nothing else in it
\* has changed meanwhile.
LEMMA ApartSave ==
    ASSUME IndInv, ApartInv, NEW r \in Requests, Save(r)
    PROVE  ApartInv' /\ Kept
<1> DEFINE q == req[r]
           now == record[q.id]
           m == Merged(now, q.doc, q.fields)
<1>1. /\ Moves(r, Idle) /\ InHand(q) /\ q.id \in Ids
      /\ UNCHANGED record \/ record' = [record EXCEPT ![q.id] = m]
  BY SaveStep
<1>2. CASE UNCHANGED record
  BY <1>1, <1>2, IdleType, ApartTakes
<1>3. CASE record' = [record EXCEPT ![q.id] = m]
  <2>1. /\ now \in Record /\ q.doc \in Record /\ q.fields \in SUBSET Fields /\ q.doc.status # "none"
        /\ Fresh(record, q)
    BY <1>1, Typed DEF RequestOK, Request, ApartInv
  <2>2. /\ m \in Record /\ m.hold = now.hold
        /\ m.status = IF "status" \in q.fields THEN q.doc.status ELSE now.status
        /\ m.company = IF "company" \in q.fields THEN q.doc.company ELSE now.company
        /\ m.location = IF "location" \in q.fields THEN q.doc.location ELSE now.location
    <3> HIDE DEF now
    <3> QED
      BY <2>1, MergedType
  <2>3. /\ ~m.hold /\ m.status = q.doc.status /\ m.company = q.doc.company /\ m.location = q.doc.location
    BY <2>1, <2>2 DEF Fresh, Fields
  <2>4. q.id \in Locations /\ now.status # "none" => m.company = now.company
    BY <2>1, <2>3 DEF Fresh
  <2>5. q.id \in People => Located(record, m)
    BY <2>1, <2>3 DEF Fresh, Located
  <2>6. OneEach'
    BY <1>1, InHandIds, IdleType, Kinds DEF ApartInv, OneEach, Moves
  <2>7. \A o \in Requests : InHand(req'[o]) => req'[o] = req[o] /\ req[o].id # q.id
    BY <1>1, IdleType DEF ApartInv, OneEach, Moves
  <2> HIDE DEF m
  <2> QED
    BY <1>1, <1>3, <2>1, <2>2, <2>3, <2>4, <2>5, <2>6, <2>7, ApartWrites
<1> QED
  BY <1>1, <1>2, <1>3

LEMMA ApartPut ==
    ASSUME IndInv, ApartInv, NEW r \in Requests, PutLoad(r) \/ PutSave(r) \/ Fail(r)
    PROVE  ApartInv' /\ Kept
BY PutSteps, ApartTakes

LEMMA ApartReaches ==
    ASSUME IndInv, ApartInv, Apart, NEW id \in Ids, Reaches(id)
    PROVE  ApartInv' /\ Kept
<1>1. PICK d \in Record :
         /\ UNCHANGED req /\ Quiet(id) /\ record' = [record EXCEPT ![id] = d]
         /\ record[id].hold => ~d.hold
         /\ d.status = "none" <=> record[id].status = "none"
         /\ d.hold => record[id].hold \/ record[id].status # "none"
         /\ d.company = record[id].company /\ d.location = record[id].location
  BY ComplianceStep, Typed DEF Reaches
<1>2. \A o \in Requests : InHand(req'[o]) => req'[o] = req[o] /\ req[o].id # id
  BY <1>1 DEF Quiet, Apart
<1>3. id \in People => Located(record, d)
  BY <1>1 DEF ApartInv, Located
<1>4. OneEach'
  BY <1>1 DEF ApartInv, OneEach
<1>5. record[id].hold \/ d.status = "none" => ~d.hold
  BY <1>1 DEF ApartInv
<1> QED
  BY <1>1, <1>2, <1>3, <1>4, <1>5, ApartWrites

LEMMA ApartStep ==
    ASSUME Apart
    PROVE  IndInv /\ ApartInv /\ [Next]_vars => ApartInv' /\ [Kept]_vars
<1>1. IndInv /\ ApartInv /\ Next => ApartInv' /\ Kept
  BY NextCases, ApartCheck, ApartEnsure, ApartSave, ApartPut, ApartReaches DEF Steps
<1>2. ApartInv /\ UNCHANGED vars => ApartInv'
  BY DEF vars, ApartInv, OneEach
<1> QED
  BY <1>1, <1>2

\* As long as requests for one record take turns, a person is never left at a
\* location of another company than the person's own, whatever else is created,
\* moved, archived or broken off meanwhile.
THEOREM PeoplePlaced ==
    ASSUME Apart
    PROVE  Spec => []LocationOfCompany
<1>1. Spec => []ApartInv
  BY InitInv, ApartStep, Inductive, PTL DEF Spec
<1>2. ApartInv => LocationOfCompany
  BY DEF ApartInv, Located, LocationOfCompany
<1> QED
  BY <1>1, <1>2, PTL

\* As long as requests for one record take turns, what is under legal hold stays
\* as it is: no request that looked before the hold saves after it.
THEOREM HeldStays ==
    ASSUME Apart
    PROVE  Spec => HoldFreezes
<1>1. Spec => []ApartInv
  BY InitInv, ApartStep, Inductive, PTL DEF Spec
<1>2. Spec => [][Kept]_vars
  BY <1>1, ApartStep, Inductive, PTL DEF Spec
<1>3. [Kept]_vars <=> [\A id \in Ids : record[id].hold /\ record'[id].hold => record'[id] = record[id]]_vars
  BY DEF Kept
<1> QED
  BY <1>2, <1>3, PTL DEF HoldFreezes
=============================================================================
