\* Two files of up to two rows of four kinds; two edits before or during one file,
\* or one edit and two files.
SPECIFICATION DirectorySpec
CONSTANTS
    Companies = {c1, c2}
    Locations = {l1}
    Offices = {o1}
    People = {p1, p2}
    Names <- MCNames
    Exts <- MCExts
    Emails <- MCEmails
    None = None
    Rows <- MCRows
    MaxRows = 2
    MaxImports = 2
    MaxEdits = 2
    MaxActs = 3
    x1 = x1
    n1 = n1
    n2 = n2
    e1 = e1
SYMMETRY Symmetric
CHECK_DEADLOCK FALSE
INVARIANT OneOfAnExternalId
INVARIANT NameGoesToOneCompany
PROPERTY IntoLivePlaces
PROPERTY ImportsRespectHolds
