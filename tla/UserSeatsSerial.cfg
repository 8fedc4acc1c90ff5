\* One request at a time per account, staffing on two projects; crashes.
SPECIFICATION Spec
CONSTANTS
    Users = {u1, u2, u3}
    Projects = {p1, p2}
    DefaultSeats = 2
    None = None
    Requests = {r1, r2}
    MaxHistory = 4
    Overlap = FALSE
    Faults = {"crash"}
SYMMETRY Symmetry
INVARIANTS
    TypeOK
    
    HistoryMatchesSeat
PROPERTIES
    ImplementsLicences
    HistoryIsAppendOnly
