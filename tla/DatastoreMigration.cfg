\* The careful operator; starts repeat, overlap, fail and crash.
SPECIFICATION Spec
CONSTANTS
    Shared = shared
    Dedicated = {ded}
    None = None
    Collections = {"contacts"}
    MaxId = 2
    ChunkSize = 1
    Requests = {r1, r2}
    MaxMigrations = 2
    MaxVersion = 2
    Liberties = {"crash", "both"}
SYMMETRY Symmetry
INVARIANTS
    ReadyMeansCopied
    ProgressIsCopied
PROPERTIES
    ImplementsTenantData
