\* The careful operator, but the server dies during an abort.
SPECIFICATION Spec
CONSTANTS
    Shared = shared
    Dedicated = {ded}
    None = None
    Collections = {"contacts"}
    MaxId = 1
    ChunkSize = 1
    Requests = {r1}
    MaxMigrations = 1
    MaxVersion = 1
    Liberties = {"abort-crash"}
PROPERTIES
    NoDocumentLost
