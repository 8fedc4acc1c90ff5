\* Two contacts of any of six kinds, three people, two runs with any crash.
SPECIFICATION ScriptSpec
CONSTANTS
    LastContact <- MCLast
    Profiles <- MCProfiles
    People = {p1, p2, p3}
    Names <- MCNames
    Emails <- MCEmails
    Phones <- MCPhones
    Users <- MCUsers
    Invites = {i1}
    Nothing = Nothing
    MaxRuns = 2
    MaxEdits = 2
    ScriptLiberties = {}
    e1 = e1
    f1 = f1
    n1 = n1
    u1 = u1
SYMMETRY Symmetric
CHECK_DEADLOCK FALSE
INVARIANT OneLivePersonPerContact
INVARIANT KeysApart
INVARIANT NothingLeftOut
PROPERTY SecondRunIsQuiet
