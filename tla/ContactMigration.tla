-------------------------- MODULE ContactMigration --------------------------
(***************************************************************************)
(* The script that turns the legacy contacts of an organization into       *)
(* companies and people, run again and again, dry or for real, and killed  *)
(* at any point; with the script that repairs the people of accepted       *)
(* invites, and the edits that come in between.                            *)
(*                                                                         *)
(* A run goes over a list of contacts it read once: companies first, then  *)
(* people, then who reports to whom, then invites.  Contacts are not       *)
(* written any more but by compliance.  An e-mail address also stands for  *)
(* an ironworker number, which works alike; companies are known by name.   *)
(***************************************************************************)
EXTENDS Naturals, FiniteSets

CONSTANTS
    LastContact,  \* contacts are 1..LastContact, in the order the script takes them
    Profiles,     \* what a contact may hold
    People, Names, Emails, Phones, Users, Invites,
    Nothing,
    MaxRuns,      \* runs of the script (bound)
    MaxEdits,     \* what others do (bound)
    ScriptLiberties  \* "overlap": people are added during a run

Contacts == 1..LastContact

Contact == [kind: {"individual", "business"}, live: BOOLEAN, email: Emails \cup {Nothing},
            phone: Phones \cup {Nothing}, company: Names \cup {Nothing},
            manager: 0..LastContact, user: Users \cup {Nothing}]

ASSUME MigrationAssumption ==
    /\ LastContact \in Nat /\ MaxRuns \in Nat /\ MaxEdits \in Nat
    /\ Profiles \subseteq Contact
    /\ Nothing \notin People \cup Names \cup Emails \cup Phones \cup Users
    /\ "dry" \notin People \cup {Nothing}

VARIABLES
    contact,     \* the legacy contacts
    person,      \* the people of the organization
    named,       \* the names live companies have
    invite,      \* invites that carry a contact, some of them accepted
    run,         \* the run of the script
    runs,        \* runs begun
    edits,       \* edits made
    back,        \* people who were archived and brought back
    settled      \* a run was completed, for real, and nothing was edited since

scriptVars == <<contact, person, named, invite, run, runs, edits, back, settled>>

-----------------------------------------------------------------------------
(* Documents *)

\* ext: the contact a person is marked with as its external id, 0 for none.
Person == [status: {"none", "live", "archived"}, ext: 0..LastContact, email: Emails \cup {Nothing},
           phone: Phones \cup {Nothing}, company: Names \cup {Nothing},
           user: Users \cup {Nothing}, manager: People \cup {Nothing}]

NoPerson == [status |-> "none", ext |-> 0, email |-> Nothing, phone |-> Nothing,
             company |-> Nothing, user |-> Nothing, manager |-> Nothing]

Invite == [contact: 0..LastContact, person: People \cup {Nothing}, email: Emails \cup {Nothing},
           user: Users \cup {Nothing}]

\* began: the edits there were at the start; view: the contacts as read; at: the
\* one in hand; cache: names resolved;
\* known, emails and phones: what the live people had; found: the person in hand;
\* link: the people contacts became (or "dry"); todo: invites left.
NoRun == [pc |-> "idle", dry |-> FALSE, began |-> 0, view |-> <<>>, at |-> 0,
          cache |-> {}, known |-> {}, emails |-> {}, phones |-> {}, found |-> Nothing,
          link |-> [c \in Contacts |-> Nothing], todo |-> {}]

Stages == {"idle", "companies", "name", "look", "people", "claim", "make",
           "managers", "report", "invites", "done"}

ScriptTypeOK ==
    /\ contact \in [Contacts -> Contact]
    /\ person \in [People -> Person]
    /\ named \subseteq Names
    /\ invite \in [Invites -> Invite]
    /\ run.pc \in Stages /\ run.dry \in BOOLEAN
    /\ run.began \in 0..MaxEdits /\ run.at \in 0..LastContact + 1
    /\ run.cache \subseteq Names /\ run.known \subseteq People /\ run.todo \subseteq Invites
    /\ run.emails \subseteq Emails /\ run.phones \subseteq Phones
    /\ run.found \in People \cup {Nothing}
    /\ run.link \in [Contacts -> People \cup {Nothing, "dry"}]
    /\ runs \in 0..MaxRuns /\ edits \in 0..MaxEdits /\ back \subseteq People /\ settled \in BOOLEAN

\* Acceptances are there from earlier versions: today's are rolled back (Signup).
ScriptInit ==
    /\ contact \in [Contacts -> Profiles]
    /\ person = [p \in People |-> NoPerson]
    /\ named = {}
    /\ invite \in [Invites -> {i \in Invite : i.contact # 0 /\ i.person = Nothing
                                                /\ (i.user = Nothing <=> i.email = Nothing)}]
    /\ run = NoRun
    /\ runs = 0
    /\ edits = 0
    /\ back = {}
    /\ settled = FALSE

LivePerson(p) == person[p].status = "live"

Someone(x) == x # Nothing

-----------------------------------------------------------------------------
(* A run: companies *)

Start(dry) ==
    /\ run.pc = "idle" /\ runs < MaxRuns
    /\ run' = [NoRun EXCEPT !.pc = "companies", !.dry = dry, !.began = edits,
                       !.view = contact, !.at = 1]
    /\ runs' = runs + 1
    /\ UNCHANGED <<contact, person, named, invite, edits, back, settled>>

In(pc) == run.pc = pc /\ run.at <= LastContact

Mine == run.view[run.at]

\* A stage that has seen every contact hands over to the next.
Through(pc, next, then) ==
    /\ run.pc = pc /\ run.at > LastContact
    /\ then
    /\ UNCHANGED <<contact, person, named, invite, runs, edits, back, settled>>

NextContact(r) == [r EXCEPT !.at = @ + 1]

\* The company a contact is of, or is itself when it is a business.
FindCompany ==
    /\ In("companies")
    /\ LET n == Mine.company IN
       run' = IF n \in {Nothing} \cup run.cache THEN NextContact(run)
              ELSE IF n \in named \/ run.dry
                THEN NextContact([run EXCEPT !.cache = @ \cup {n}])
              ELSE [run EXCEPT !.pc = "name"]
    /\ UNCHANGED <<contact, person, named, invite, runs, edits, back, settled>>

\* The unique index stops the run when someone else was faster.
CreateCompany ==
    /\ In("name")
    /\ named' = named \cup {Mine.company}
    /\ run' = IF Mine.company \in named THEN NoRun
              ELSE NextContact([run EXCEPT !.pc = "companies", !.cache = @ \cup {Mine.company}])
    /\ UNCHANGED <<contact, person, invite, runs, edits, back, settled>>

ToPeople == Through("companies", "look", run' = [run EXCEPT !.pc = "look", !.at = 1])

-----------------------------------------------------------------------------
(* A run: people *)

\* Wrong: the external id is not among the fields selected.
LookAtPeopleUnmarked ==
    /\ run.pc = "look"
    /\ LET live == {p \in People : LivePerson(p)} IN
       run' = [run EXCEPT !.pc = "people",
                          !.emails = {person[p].email : p \in live} \ {Nothing},
                          !.phones = {person[p].phone : p \in live} \ {Nothing}]
    /\ UNCHANGED <<contact, person, named, invite, runs, edits, back, settled>>

\* The marks and keys of the people who are live now.
LookAtPeople ==
    /\ run.pc = "look"
    /\ LET live == {p \in People : LivePerson(p)} IN
       run' = [run EXCEPT !.pc = "people",
                          !.known = {p \in live : person[p].ext # 0},
                          !.emails = {person[p].email : p \in live} \ {Nothing},
                          !.phones = {person[p].phone : p \in live} \ {Nothing}]
    /\ UNCHANGED <<contact, person, named, invite, runs, edits, back, settled>>

Linked(r, p) == NextContact([r EXCEPT !.link[r.at] = p, !.pc = "people", !.found = Nothing])

\* Marks are what they were when the run looked; a run adds none it looks up.
Marked == {p \in run.known : person[p].ext = run.at}

\* By its user whoever that is, else by e-mail among the live.
Matches(c) ==
    LET byUser == {p \in People : person[p].status # "none" /\ person[p].user = c.user}
        byEmail == {p \in People : LivePerson(p) /\ person[p].email = c.email}
    IN IF c.user # Nothing /\ byUser # {} THEN byUser
       ELSE IF c.email # Nothing THEN byEmail
       ELSE {}

\* Wrong: a person found is marked even if another contact's mark is there.
MatchContactRemarks ==
    /\ In("people")
    /\ \/ /\ Mine.kind = "business"
          /\ run' = NextContact(run)
       \/ /\ Mine.kind = "individual" /\ Marked # {}
          /\ \E p \in Marked : run' = Linked(run, p)
       \/ /\ Mine.kind = "individual" /\ Marked = {} /\ Matches(Mine) # {}
          /\ \E p \in Matches(Mine) :
               run' = IF ~run.dry THEN [run EXCEPT !.pc = "claim", !.found = p] ELSE Linked(run, p)
       \/ /\ Mine.kind = "individual" /\ Marked = {} /\ Matches(Mine) = {}
          /\ run' = [run EXCEPT !.pc = "make"]
    /\ UNCHANGED <<contact, person, named, invite, runs, edits, back, settled>>

MatchContact ==
    /\ In("people")
    /\ \/ /\ Mine.kind = "business"
          /\ run' = NextContact(run)
       \/ /\ Mine.kind = "individual" /\ Marked # {}
          /\ \E p \in Marked : run' = Linked(run, p)
       \/ /\ Mine.kind = "individual" /\ Marked = {} /\ Matches(Mine) # {}
          /\ \E p \in Matches(Mine) :
               run' = IF person[p].ext = 0 /\ ~run.dry THEN [run EXCEPT !.pc = "claim", !.found = p]
                      ELSE Linked(run, p)
       \/ /\ Mine.kind = "individual" /\ Marked = {} /\ Matches(Mine) = {}
          /\ run' = [run EXCEPT !.pc = "make"]
    /\ UNCHANGED <<contact, person, named, invite, runs, edits, back, settled>>

\* The person found gets the contact's mark.
ClaimPerson ==
    /\ In("claim")
    /\ person' = [person EXCEPT ![run.found].ext = run.at]
    /\ run' = Linked(run, run.found)
    /\ UNCHANGED <<contact, named, invite, runs, edits, back, settled>>

\* A live contact leaves out the keys that someone live has: a collision.
KeyFor(key, taken) == IF Mine.live /\ key \in taken THEN Nothing ELSE key

PersonOf ==
    [status |-> IF Mine.live THEN "live" ELSE "archived", ext |-> run.at,
     email |-> KeyFor(Mine.email, run.emails), phone |-> KeyFor(Mine.phone, run.phones),
     company |-> Mine.company, user |-> Mine.user, manager |-> Nothing]

\* Wrong: phone numbers are not remembered.
TakenEmail(r) == [r EXCEPT !.emails = @ \cup ({Mine.email} \ {Nothing})]

\* From here on the keys of this contact, archived or not, are taken too.
Taken(r) == [r EXCEPT !.emails = @ \cup ({Mine.email} \ {Nothing}),
                      !.phones = @ \cup ({Mine.phone} \ {Nothing})]

MakePerson ==
    /\ In("make")
    /\ \/ /\ run.dry
          /\ run' = Linked(Taken(run), "dry")
          /\ UNCHANGED person
       \/ /\ ~run.dry
          /\ \E p \in People :
               /\ person[p].status = "none"
               /\ person' = [person EXCEPT ![p] = PersonOf]
               /\ run' = Linked(Taken(run), p)
    /\ UNCHANGED <<contact, named, invite, runs, edits, back, settled>>

ToManagers == Through("people", "managers", run' = [run EXCEPT !.pc = "managers", !.at = 1])

-----------------------------------------------------------------------------
(* A run: managers and invites *)

\* Wrong: managers are looked up before later contacts have become people.
SeeManagerBefore ==
    /\ In("managers")
    /\ LET manager == Mine.manager
           p == run.link[run.at]
           m == IF manager = 0 \/ manager > run.at THEN Nothing ELSE run.link[manager]
       IN run' = IF p \in {Nothing, m} \/ m = Nothing \/ run.dry THEN NextContact(run)
                 ELSE IF person[p].manager \in {Nothing, m}
                   THEN [run EXCEPT !.pc = "report", !.found = p]
                 ELSE NextContact(run)
    /\ UNCHANGED <<contact, person, named, invite, runs, edits, back, settled>>

\* Nobody who reports to someone already is moved.
SeeManager ==
    /\ In("managers")
    /\ LET manager == Mine.manager
           p == run.link[run.at]
           m == IF manager = 0 THEN Nothing ELSE run.link[manager]
       IN run' = IF p \in {Nothing, m} \/ m = Nothing \/ run.dry THEN NextContact(run)
                 ELSE IF person[p].manager \in {Nothing, m}
                   THEN [run EXCEPT !.pc = "report", !.found = p]
                 ELSE NextContact(run)
    /\ UNCHANGED <<contact, person, named, invite, runs, edits, back, settled>>

ReportTo ==
    /\ In("report")
    /\ person' = [person EXCEPT ![run.found].manager = run.link[Mine.manager]]
    /\ run' = NextContact([run EXCEPT !.pc = "managers", !.found = Nothing])
    /\ UNCHANGED <<contact, named, invite, runs, edits, back, settled>>

ToInvites ==
    Through("managers", "invites",
            run' = [run EXCEPT !.pc = "invites",
                      !.todo = {i \in Invites :
                                  invite[i].contact # 0 /\ invite[i].person = Nothing}])

BackfillInvite(i) ==
    /\ run.pc = "invites" /\ i \in run.todo
    /\ run' = [run EXCEPT !.todo = @ \ {i}]
    /\ LET p == run.link[invite[i].contact] IN
       invite' = IF p = Nothing \/ run.dry THEN invite ELSE [invite EXCEPT ![i].person = p]
    /\ UNCHANGED <<contact, person, named, runs, edits, back, settled>>

Report ==
    /\ run.pc = "invites" /\ run.todo = {}
    /\ run' = [run EXCEPT !.pc = "done"]
    /\ UNCHANGED <<contact, person, named, invite, runs, edits, back, settled>>

End ==
    /\ run.pc = "done"
    /\ run' = NoRun
    /\ settled' = (settled \/ (~run.dry /\ run.began = edits))
    /\ UNCHANGED <<contact, person, named, invite, runs, edits, back>>

\* The process is killed, or MongoDB fails: nothing is undone.
ScriptDies ==
    /\ run.pc \notin {"idle", "done"}
    /\ run' = NoRun
    /\ UNCHANGED <<contact, person, named, invite, runs, edits, back, settled>>

-----------------------------------------------------------------------------
(* What others do in the meantime *)

Alone == run.pc = "idle" \/ "overlap" \in ScriptLiberties

Edited ==
    /\ edits < MaxEdits /\ edits' = edits + 1
    /\ settled' = FALSE
    /\ UNCHANGED <<run, runs>>

\* Live people share no key (the external id is not looked at).
KeysFree(p, e, f) ==
    \A q \in People \ {p} : LivePerson(q) =>
        /\ Someone(e) => person[q].email # e
        /\ Someone(f) => person[q].phone # f

PersonCreate(p) ==
    /\ Alone /\ person[p].status = "none"
    /\ \E e \in Emails \cup {Nothing}, f \in Phones \cup {Nothing} :
         /\ KeysFree(p, e, f)
         /\ person' = [person EXCEPT ![p] = [NoPerson EXCEPT !.status = "live", !.email = e, !.phone = f]]
    /\ Edited /\ UNCHANGED <<contact, named, invite, back>>

PersonArchive(p) ==
    /\ LivePerson(p)
    /\ person' = [person EXCEPT ![p].status = "archived"]
    /\ Edited /\ UNCHANGED <<contact, named, invite, back>>

PersonUnarchive(p) ==
    /\ Alone /\ person[p].status = "archived"
    /\ KeysFree(p, person[p].email, person[p].phone)
    /\ person' = [person EXCEPT ![p].status = "live"]
    /\ back' = back \cup {p}
    /\ Edited /\ UNCHANGED <<contact, named, invite>>

\* Companies come and go by hand.
CompanyEdit(n) ==
    /\ named' = IF n \in named THEN named \ {n} ELSE named \cup {n}
    /\ Edited /\ UNCHANGED <<contact, person, invite, back>>

ContactBatch(c) ==
    /\ contact' = [contact EXCEPT ![c].live = ~@]
    /\ Edited /\ UNCHANGED <<person, named, invite, back>>

\* The invite's person, or one with its e-mail, a live one first.
PeopleOf(i) ==
    LET same == {p \in People : person[p].status # "none" /\ invite[i].email # Nothing
                                   /\ person[p].email = invite[i].email}
    IN IF invite[i].person # Nothing THEN {invite[i].person}
       ELSE IF \E p \in same : LivePerson(p) THEN {p \in same : LivePerson(p)}
       ELSE same

\* Only a person without a user is given one.
Repair(i) ==
    /\ invite[i].user # Nothing
    /\ \E p \in PeopleOf(i) :
         /\ person[p].user = Nothing
         /\ person' = [person EXCEPT ![p].user = invite[i].user]
    /\ Edited /\ UNCHANGED <<contact, named, invite, back>>

Script ==
    \/ FindCompany \/ CreateCompany \/ ToPeople
    \/ LookAtPeople \/ MatchContact \/ ClaimPerson \/ MakePerson \/ ToManagers
    \/ SeeManager \/ ReportTo \/ ToInvites
    \/ \E i \in Invites : BackfillInvite(i)
    \/ Report \/ End

ScriptNext ==
    \/ \E dry \in BOOLEAN : Start(dry)
    \/ Script
    \/ ScriptDies
    \/ \E p \in People : PersonCreate(p) \/ PersonArchive(p) \/ PersonUnarchive(p)
    \/ \E n \in Names : CompanyEdit(n)
    \/ \E c \in Contacts : ContactBatch(c)
    \/ \E i \in Invites : Repair(i)

ScriptSpec == ScriptInit /\ [][ScriptNext]_scriptVars

-----------------------------------------------------------------------------
(* Properties *)

\* However often the script runs, and wherever it is killed, a contact has one
\* live person at most: a run finds the mark the last one left.  Only someone
\* archived and brought back, whose mark nothing compares, may be a second one.
OneLivePersonPerContact ==
    \A p, q \in People \ back :
        p # q /\ LivePerson(p) /\ LivePerson(q) /\ person[p].ext # 0 => person[p].ext # person[q].ext

\* No two live people share an e-mail address or a phone number, though no index
\* refuses it and the script checks against lists it made when it began.
KeysApart ==
    \A p, q \in People : p # q /\ LivePerson(p) /\ LivePerson(q) =>
        /\ Someone(person[p].email) => person[p].email # person[q].email
        /\ Someone(person[p].phone) => person[p].phone # person[q].phone

\* A completed run has left nothing out: a contact's person reports to someone
\* if the contact's manager became another person, whichever of the two came
\* first in the list, and the invites of linked contacts carry a person.
NothingLeftOut ==
    run.pc = "done" /\ ~run.dry =>
        /\ \A c \in Contacts :
             LET m == run.view[c].manager IN
             m # 0 /\ Nothing \notin {run.link[c], run.link[m]} /\ run.link[c] # run.link[m] =>
                 person[run.link[c]].manager # Nothing
        /\ \A i \in Invites : invite[i].contact # 0 /\ run.link[invite[i].contact] # Nothing =>
             invite[i].person # Nothing

\* After a completed run another changes nothing among the living: it makes no
\* live person, no company, and leaves live people and invites as they are.  So it
\* is as long as its lookups find what the first run's found: with two contacts of
\* one user, and a third to report to, they need not.
SecondRunIsQuiet ==
    [][settled /\ edits' = edits =>
          /\ UNCHANGED <<named, invite>>
          /\ \A p \in People : person'[p] # person[p] => person'[p].status = "archived"]_scriptVars
=============================================================================
