\* Any three records and two requests, one record in one request's hands at a time.
SPECIFICATION Spec
CONSTANTS
    Companies = {c1, c2}
    Locations = {l1, l2}
    Offices = {o1}
    People = {p1, p2}
    Edges = {e1}
    Names = {n1}
    Keys = {k1}
    Reserved = {k1}
    None = None
    Requests = {r1, r2}
    MaxRecords = 3
    Liberties = {"batch"}
SYMMETRY Symmetric
INVARIANTS
    OneOfAName
    KeysKept
    LocationOfCompany
PROPERTIES
    HoldFreezes
CONSTRAINT Focus
CHECK_DEADLOCK FALSE
