\* Two requests may concern one account; crashes, holds and batch archiving.
SPECIFICATION Spec
CONSTANTS
    Users = {u1, u2}
    Projects = {p1}
    DefaultSeats = 2
    None = None
    Requests = {r1, r2}
    MaxHistory = 2
    Overlap = TRUE
    Faults = {"crash", "org", "hold", "batch"}
SYMMETRY Symmetry
INVARIANTS
    UniqueHolder
    SeatHeldByAccount
