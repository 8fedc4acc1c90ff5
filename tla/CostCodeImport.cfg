\* Two jobs, inline or queued; one replacement of the codes at a time.
SPECIFICATION FairSpec
CONSTANTS
    Jobs = {j1, j2}
    c1 = c1
    c2 = c2
    Codes = {c1, c2}
    Lists <- ListsOfTwo
    Pack <- ListOfOne
    Requests = {r1}
    Workers = {w1}
    Modes = {"inline", "queue"}
    Absent = Absent
    Manual = Manual
    Seeded = Seeded
    NoJob = NoJob
    MaxFaults = 2
    Liberties = {}
PROPERTIES
    DoneIsFinal
    DoneMeansImported
    ImportSettles
