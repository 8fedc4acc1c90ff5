\* Two requests at the sessions, the tokens and the documents of two users.
SPECIFICATION Spec
CONSTANTS
    admin = admin
    user = user
    None = None
    Users <- MCUsers
    Admin = admin
    Sids = {s1, s2, s3}
    Tokens = {t1, t2}
    Versions = {1, 2}
    Dates = {1, 2}
    Requests = {r1, r2}
SYMMETRY Symmetric
CONSTRAINT Focus
INVARIANTS
    SessionsOwned
    SessionsRevocable
    SpentTokensStayDead
    AcceptedBeforeUse
CHECK_DEADLOCK FALSE
