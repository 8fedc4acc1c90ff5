\* Two colleagues register at once, beside invitations and administration.
SPECIFICATION Spec
CONSTANTS
    e1 = e1
    e2 = e2
    d1 = d1
    None = None
    Emails <- MCEmails
    Domains <- MCDomains
    DomainOf <- MCDomainOf
    OrgIds = {o1}
    InviteIds = {i1, i2}
    Requests = {r1, r2}
    Admins = {x1}
    Liberties = {"die", "noseat"}
SYMMETRY Symmetric
INVARIANTS
    OwnerBelongs
    OneFounder
    
CHECK_DEADLOCK FALSE
