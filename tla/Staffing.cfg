\* Two projects, two people and one seat between them; updates break off anywhere.
SPECIFICATION Spec
CONSTANTS
    Projects = {p1, p2}
    Estimates = {e1}
    Seats = {s1}
    Staff = {m1}
    Union = {w1}
    None = None
    Requests = {r1, r2}
    MaxOpen = 2
    Amounts = {0, 1}
    MaxVersion = 2
    Liberties = {"die", "release"}
SYMMETRY Symmetric
INVARIANTS
    StaffingMatchesAssignments
    ProjectOnRecord
    TotalOfItems
PROPERTIES
    NoTheft
CONSTRAINT Focus
CHECK_DEADLOCK FALSE
