-------------------------------- MODULE Crm ---------------------------------
(***************************************************************************)
(* The directory of one active organization: companies, their locations,   *)
(* offices, people and the edges between them, with the taxonomy of keys   *)
(* they are tagged with, and the three ways compliance reaches into them.  *)
(*                                                                         *)
(* Every write is a load with its checks, then the taxonomy, then a save   *)
(* of the fields that changed: only the unique indexes look twice.         *)
(* Descriptive fields are left out, and so are phones, ironworker numbers  *)
(* and external ids (which work as primary e-mails do), keys of people and *)
(* changed keys of locations and offices (as companies'), and references   *)
(* nothing reads again: a manager, a parent office, a person's office.     *)
(***************************************************************************)
EXTENDS Naturals, FiniteSets

CONSTANTS
    Companies, Locations, Offices, People, Edges,
    Names,          \* normalized names; for people, primary e-mails
    Keys,           \* taxonomy keys
    Reserved,       \* the keys no edge_type taxonomy may do without
    None,
    Requests,       \* requests in flight
    MaxRecords,     \* records there are, or are being made (bound)
    Liberties       \* "same": requests for one record overlap; "batch": compliance unarchives

Ids == Companies \cup Locations \cup Offices \cup People \cup Edges

\* Edges have a namespace of their own and people an e-mail that is not
\* indexed: neither is a record of another kind.
ASSUME CrmAssumption ==
    /\ Reserved \subseteq Keys /\ None \notin Ids \cup Names
    /\ Edges \cap (Companies \cup Locations \cup Offices \cup People) = {}
    /\ People \cap (Companies \cup Locations \cup Offices) = {}

VARIABLES
    record,      \* the records, of every kind
    taxonomy,    \* the keys of a namespace, in use and archived
    req          \* requests in flight

vars == <<record, taxonomy, req>>

-----------------------------------------------------------------------------
(* Documents *)

Fields == {"status", "name", "tags", "company", "location", "from", "to"}

\* name: the id stands for a name that has been redacted, which is made of it;
\* company: of a location or a person; from and to: of an edge, whose type is
\* its one tag.
Record == [status: {"none", "live", "archived"}, hold: BOOLEAN,
           name: Names \cup Ids \cup {None}, tags: SUBSET Keys,
           company: Companies \cup {None}, location: Locations \cup {None},
           from: Ids \cup {None}, to: Ids \cup {None}]

NoRecord == [status |-> "none", hold |-> FALSE, name |-> None, tags |-> {},
             company |-> None, location |-> None, from |-> None, to |-> None]

\* Edges have a namespace of their own; the others are not told apart.
Spaces == {"edge_type", "tag"}

SpaceOf(id) == IF id \in Edges THEN "edge_type" ELSE "tag"

Values == [active: SUBSET Keys, archived: SUBSET Keys]

ReservedIn(ns) == IF ns = "edge_type" THEN Reserved ELSE {}

\* doc is a record as it would be saved, and fields what has changed in it;
\* seen and put are a taxonomy as read and as it would be saved.
Idle == [pc |-> "idle", id |-> None, doc |-> NoRecord, fields |-> {},
         ns |-> "tag", seen |-> {}, put |-> {}]

Request == [pc: {"idle", "ensure", "save", "put"}, id: Ids \cup {None}, doc: Record,
            fields: SUBSET Fields, ns: Spaces, seen: SUBSET Values, put: SUBSET Keys]

TypeOK ==
    /\ record \in [Ids -> Record]
    /\ taxonomy \in [Spaces -> Values]
    /\ \A ns \in Spaces : taxonomy[ns].active \cap taxonomy[ns].archived = {}
    /\ req \in [Requests -> Request]

Init ==
    /\ record = [id \in Ids |-> NoRecord]
    /\ taxonomy = [ns \in Spaces |-> [active |-> {}, archived |-> {}]]
    /\ req = [r \in Requests |-> Idle]

-----------------------------------------------------------------------------
(* What may be there once *)

\* Each compares documents of one kind, as the collision queries do.
SameCompany(d, e) == d.name = e.name

SameLocation(d, e) == d.company = e.company /\ d.name = e.name

SameOffice(d, e) == d.name = e.name

SamePerson(d, e) == d.name # None /\ d.name = e.name

SameEdge(d, e) == d.tags = e.tags /\ d.from = e.from /\ d.to = e.to

Clash(id, d, other) ==
    \/ id \in Companies /\ other \in Companies /\ SameCompany(d, record[other])
    \/ id \in Locations /\ other \in Locations /\ SameLocation(d, record[other])
    \/ id \in Offices /\ other \in Offices /\ SameOffice(d, record[other])
    \/ id \in People /\ other \in People /\ SamePerson(d, record[other])
    \/ id \in Edges /\ other \in Edges /\ SameEdge(d, record[other])

Live(id) == record[id].status = "live"

Unique(id, d) == \A other \in Ids \ {id} : Live(other) => ~Clash(id, d, other)

\* The unique indexes MongoDB builds.  Those with a $ne in their partial filter,
\* on everything that is optional, a person's e-mail among them, it refuses.
Indexed == Companies \cup Locations \cup Offices \cup Edges

-----------------------------------------------------------------------------
(* Load and check *)

Free(r, id) ==
    /\ req[r] = Idle
    /\ "same" \in Liberties \/ \A q \in Requests : req[q].id # id

Editable(id) == Live(id) /\ ~record[id].hold

\* Keys are ensured before the record is saved, with what differs from it now.
Prepare(r, id, d) ==
    LET changed == {f \in Fields : d[f] # record[id][f]} IN
    req' = [req EXCEPT ![r] = [Idle EXCEPT
              !.pc = IF "tags" \in changed /\ d.tags # {} /\ id \notin Edges THEN "ensure" ELSE "save",
              !.id = id, !.doc = d, !.fields = changed]]

New(id) ==
    /\ record[id].status = "none"
    /\ Cardinality({x \in Ids : record[x].status # "none" \/ \E q \in Requests : req[q].id = x}) < MaxRecords

Tags == {{}} \cup {{k} : k \in Keys}

CompanyCreate(r, c) ==
    /\ Free(r, c) /\ New(c)
    /\ \E n \in Names, t \in Tags :
         LET d == [NoRecord EXCEPT !.status = "live", !.name = n, !.tags = t] IN
         Unique(c, d) /\ Prepare(r, c, d)
    /\ UNCHANGED <<record, taxonomy>>

CompanyUpdate(r, c) ==
    /\ Free(r, c) /\ Editable(c)
    /\ \/ \E n \in Names :
            LET d == [record[c] EXCEPT !.name = n] IN Unique(c, d) /\ Prepare(r, c, d)
       \/ \E t \in Tags : Prepare(r, c, [record[c] EXCEPT !.tags = t])
    /\ UNCHANGED <<record, taxonomy>>

LocationCreate(r, l) ==
    /\ Free(r, l) /\ New(l)
    /\ \E c \in Companies, n \in Names, t \in Tags :
         LET d == [NoRecord EXCEPT !.status = "live", !.company = c, !.name = n, !.tags = t] IN
         Live(c) /\ Unique(l, d) /\ Prepare(r, l, d)
    /\ UNCHANGED <<record, taxonomy>>

\* A location never changes company.
LocationUpdate(r, l) ==
    /\ Free(r, l) /\ Editable(l)
    /\ \E n \in Names :
         LET d == [record[l] EXCEPT !.name = n] IN Unique(l, d) /\ Prepare(r, l, d)
    /\ UNCHANGED <<record, taxonomy>>

OfficeCreate(r, o) ==
    /\ Free(r, o) /\ New(o)
    /\ \E n \in Names, t \in Tags :
         LET d == [NoRecord EXCEPT !.status = "live", !.name = n, !.tags = t] IN
         Unique(o, d) /\ Prepare(r, o, d)
    /\ UNCHANGED <<record, taxonomy>>

\* A name that has not changed is not looked up.
OfficeUpdate(r, o) ==
    /\ Free(r, o) /\ Editable(o)
    /\ \E n \in Names :
         LET d == [record[o] EXCEPT !.name = n] IN
         (n # record[o].name => Unique(o, d)) /\ Prepare(r, o, d)
    /\ UNCHANGED <<record, taxonomy>>

\* ensureCompanyActive, ensureCompanyLocationActive
Placed(c, l) ==
    /\ c # None => Live(c)
    /\ l # None => c # None /\ Live(l) /\ record[l].company = c

PersonCreate(r, p) ==
    /\ Free(r, p) /\ New(p)
    /\ \E n \in Names \cup {None}, c \in Companies \cup {None}, l \in Locations \cup {None} :
         LET d == [NoRecord EXCEPT !.status = "live", !.name = n, !.company = c, !.location = l] IN
         Placed(c, l) /\ Unique(p, d) /\ Prepare(r, p, d)
    /\ UNCHANGED <<record, taxonomy>>

\* The location kept when the company changes.
PersonMoveStays(r, p) ==
    /\ Free(r, p) /\ Editable(p) /\ Unique(p, record[p])
    /\ \E c \in Companies \cup {None}, l \in Locations \cup {None} :
         /\ Placed(c, None) /\ (l # record[p].location => Placed(c, l))
         /\ Prepare(r, p, [record[p] EXCEPT !.company = c, !.location = l])
    /\ UNCHANGED <<record, taxonomy>>

\* A new company takes away the location, unless one of its own comes with it;
\* or a location for the company there is, archived or not.
PersonMove(r, p) ==
    /\ Free(r, p) /\ Editable(p) /\ Unique(p, record[p])
    /\ \/ \E c \in Companies \cup {None}, l \in Locations \cup {None} :
            Placed(c, l) /\ Prepare(r, p, [record[p] EXCEPT !.company = c, !.location = l])
       \/ \E l \in Locations :
            /\ Live(l) /\ record[p].company = record[l].company
            /\ Prepare(r, p, [record[p] EXCEPT !.location = l])
    /\ UNCHANGED <<record, taxonomy>>

PersonUpdate(r, p) ==
    /\ Free(r, p) /\ Editable(p)
    /\ \E n \in Names \cup {None} :
         LET d == [record[p] EXCEPT !.name = n] IN Unique(p, d) /\ Prepare(r, p, d)
    /\ UNCHANGED <<record, taxonomy>>

\* OrgTaxonomyService.get, as ensureEdgeTypeAllowed calls it: the reserved keys
\* that are missing are added.
Got == [taxonomy["edge_type"] EXCEPT
          !.active = @ \cup (Reserved \ taxonomy["edge_type"].archived)]

EdgeCreate(r, e) ==
    /\ Free(r, e) /\ New(e)
    /\ taxonomy' = [taxonomy EXCEPT !["edge_type"] = Got]
    /\ \E k \in Reserved \cap Got.active, p \in People, x \in People \cup Companies \cup Locations :
         LET d == [NoRecord EXCEPT !.status = "live", !.tags = {k}, !.from = p, !.to = x] IN
         p # x /\ Live(p) /\ Live(x) /\ Unique(e, d) /\ Prepare(r, e, d)
    /\ UNCHANGED record

\* The same in all five services.
Archive(r, id) ==
    /\ Free(r, id) /\ Editable(id)
    /\ Prepare(r, id, [record[id] EXCEPT !.status = "archived"])
    /\ UNCHANGED <<record, taxonomy>>

Unarchive(r, id) ==
    /\ Free(r, id)
    /\ record[id].status = "archived" /\ ~record[id].hold
    /\ Unique(id, record[id])
    /\ Prepare(r, id, [record[id] EXCEPT !.status = "live"])
    /\ UNCHANGED <<record, taxonomy>>

-----------------------------------------------------------------------------
(* Taxonomy, and save *)

\* ensureKeysActive: what is archived comes back, what is missing is added.
Ensure(r) ==
    LET q == req[r] IN
    /\ q.pc = "ensure"
    /\ taxonomy' = [taxonomy EXCEPT ![SpaceOf(q.id)] =
                      [active |-> @.active \cup q.doc.tags, archived |-> @.archived \ q.doc.tags]]
    /\ req' = [req EXCEPT ![r].pc = "save"]
    /\ UNCHANGED record

\* Whatever is there already.
SaveUnindexed(r) ==
    LET q == req[r] IN
    /\ q.pc = "save"
    /\ record' = [record EXCEPT ![q.id] =
                    [f \in DOMAIN @ |-> IF f \in q.fields THEN q.doc[f] ELSE @[f]]]
    /\ req' = [req EXCEPT ![r] = Idle]
    /\ UNCHANGED taxonomy

\* mongoose writes the fields that changed; the index has the last word.
Save(r) ==
    LET q == req[r]
        now == record[q.id]
        next == [f \in DOMAIN now |-> IF f \in q.fields THEN q.doc[f] ELSE now[f]]
    IN
    /\ q.pc = "save"
    /\ record' = IF next.status = "live" /\ q.id \in Indexed /\ ~Unique(q.id, next) THEN record
                 ELSE [record EXCEPT ![q.id] = next]
    /\ req' = [req EXCEPT ![r] = Idle]
    /\ UNCHANGED taxonomy

\* OrgTaxonomyService.put: the keys wanted; others are archived, none is dropped.
PutLoad(r) ==
    /\ req[r] = Idle
    /\ \E ns \in Spaces, desired \in SUBSET Keys :
         req' = [req EXCEPT ![r] = [Idle EXCEPT !.pc = "put", !.ns = ns,
                                      !.seen = {taxonomy[ns]}, !.put = desired]]
    /\ UNCHANGED <<record, taxonomy>>

\* The keys wanted, and no word of the reserved ones.
PutOfBare(ns, seen, desired) ==
    [active |-> desired, archived |-> (seen.active \cup seen.archived) \ desired]

\* The keys wanted and the reserved ones; whatever else there was is archived.
PutOf(ns, seen, desired) ==
    LET active == desired \cup ReservedIn(ns) IN
    [active |-> active, archived |-> (seen.active \cup seen.archived) \ active]

\* The list is replaced as a whole: only if it still is the one that was read
\* (__v; an equal one does no harm).
PutSave(r) ==
    LET q == req[r] IN
    /\ q.pc = "put"
    /\ taxonomy' = IF taxonomy[q.ns] \notin q.seen THEN taxonomy
                   ELSE [taxonomy EXCEPT ![q.ns] = PutOf(q.ns, taxonomy[q.ns], q.put)]
    /\ req' = [req EXCEPT ![r] = Idle]
    /\ UNCHANGED record

-----------------------------------------------------------------------------
(* Compliance, and failure *)

Quiet(id) == "same" \in Liberties \/ \A q \in Requests : req[q].id # id

\* setLegalHold
SetHold(id) ==
    /\ record[id].status # "none" /\ Quiet(id)
    /\ record' = [record EXCEPT ![id].hold = ~@]
    /\ UNCHANGED <<taxonomy, req>>

\* stripPii: a person keeps no e-mail, a company, location or office a name that
\* says no more than its id.
StripPii(id) ==
    LET next == [record[id] EXCEPT !.name = IF id \in People THEN None ELSE id] IN
    /\ record[id].status # "none" /\ ~record[id].hold /\ Quiet(id)
    /\ id \in Indexed /\ Live(id) => Unique(id, next)
    /\ record' = [record EXCEPT ![id] = next]
    /\ UNCHANGED <<taxonomy, req>>

\* The hold is not looked at.
BatchArchiveAll(id) ==
    /\ Live(id) /\ Quiet(id)
    /\ record' = [record EXCEPT ![id].status = "archived"]
    /\ UNCHANGED <<taxonomy, req>>

\* batchArchive, one record of it: either way, and with no look at the others.
BatchArchive(id) ==
    /\ ~record[id].hold /\ Quiet(id)
    /\ \/ Live(id) /\ record' = [record EXCEPT ![id].status = "archived"]
       \/ /\ "batch" \in Liberties
          /\ record[id].status = "archived"
          /\ id \in Indexed => Unique(id, record[id])
          /\ record' = [record EXCEPT ![id].status = "live"]
    /\ UNCHANGED <<taxonomy, req>>

\* A later check refuses, or the server stops.
Fail(r) ==
    /\ req[r] # Idle
    /\ req' = [req EXCEPT ![r] = Idle]
    /\ UNCHANGED <<record, taxonomy>>

-----------------------------------------------------------------------------
Next ==
    \/ \E r \in Requests :
         \/ \E c \in Companies : CompanyCreate(r, c) \/ CompanyUpdate(r, c)
         \/ \E l \in Locations : LocationCreate(r, l) \/ LocationUpdate(r, l)
         \/ \E o \in Offices : OfficeCreate(r, o) \/ OfficeUpdate(r, o)
         \/ \E p \in People : PersonCreate(r, p) \/ PersonMove(r, p) \/ PersonUpdate(r, p)
         \/ \E e \in Edges : EdgeCreate(r, e)
         \/ \E id \in Ids : Archive(r, id) \/ Unarchive(r, id)
         \/ Ensure(r) \/ Save(r) \/ PutLoad(r) \/ PutSave(r) \/ Fail(r)
    \/ \E id \in Ids : SetHold(id) \/ BatchArchive(id)
    \/ \E id \in Ids \ Edges : StripPii(id)

Spec == Init /\ [][Next]_vars

-----------------------------------------------------------------------------
(* Properties *)

\* Two requests that both found a name free do not both get it, and neither
\* does an old record that comes back: one live record per name, and one live
\* edge of a type between two nodes, wherever the index exists.
OneOfAName ==
    \A id \in Indexed : Live(id) => Unique(id, record[id])

\* The taxonomy knows every key a record carries, in use or archived, however
\* puts, ensures and saves fall; and the type of an edge is always in use.
KeysKept ==
    \A id \in Ids :
      LET t == taxonomy[SpaceOf(id)] IN
      /\ record[id].tags \subseteq t.active \cup t.archived
      /\ id \in Edges => record[id].tags \subseteq t.active

\* A person's location is one of the person's company.  (While one person is
\* updated by one request at a time: two updates from one read can undo it.)
LocationOfCompany ==
    \A p \in People : record[p].location # None => record[record[p].location].company = record[p].company

\* Under legal hold a record stays as it is.
HoldFreezes ==
    [][\A id \in Ids : record[id].hold /\ record'[id].hold => record'[id] = record[id]]_vars
=============================================================================
