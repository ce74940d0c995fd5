SPECIFICATION Spec
CONSTANTS
    x = x
    y = y
    n1 = n1
    n2 = n2
    d1 = d1
    d2 = d2
    h1 = h1
    mod = mod
    plus = plus
    usr = usr
    s1 = s1
    s2 = s2
    s3 = s3
    c1 = c1
    c2 = c2
    c3 = c3
    t1 = t1
    t2 = t2
    t3 = t3
    None = None
    Absent = Absent
    SystemCodes = {x, y}
    Names = {n1, n2}
    Dats = {d1, d2}
    Hashes = {h1}
    Users = {mod, plus, usr}
    RoleOf <- MCRoleOf
    DiscIds = {1, 2}
    SubIds = {s1}
    Tokens = {t1, t2}
    Clients = {c1, c2, c3}
    UserOf <- TwoModeratorsAndUser
    PageOf <- UserPages
    Forms <- DraftForms
    InitDiscs <- OneDisc
    InitSubs <- RevisionSubs
PROPERTIES
    ApprovesTheRevisionLoaded
CHECK_DEADLOCK FALSE
