\* One request at a time per address, batches beside it, requests and servers die.
SPECIFICATION Spec
CONSTANTS
    Addresses = {a1}
    Phones = {p1, p2}
    None = None
    Requests = {r1}
    Servers = {s1}
    Modes = {"bcc"}
    MaxAttempts = 1
    MaxTotalAttempts = 2
    MaxTotalResends = 1
    BatchLimit = 1
    Liberties = {"die"}
INVARIANTS
    TotalsBounded
    InvitedWasMailed
PROPERTIES
    VerificationKept
    VerifiedGetsInvited
CHECK_DEADLOCK FALSE
