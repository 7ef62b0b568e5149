SPECIFICATION Spec
CONSTANTS
    root = root
    part = part
    Names = {n1, n2}
    Emails = {e1, e2}
    Profiles = {p0, p1}
    Blank = p0
    ScopeNames = {root, part}
    Root = root
    Allowed <- MCAllowed
    Infix <- MCInfix
    Handlers = {h1, h2}
    Bearers = {h1}
    None = None
    MayFail = TRUE
    MaxUsers = 2
    MaxScopes = 2
SYMMETRY AccountSymmetry
INVARIANTS TypeOK AccountsDiffer LinksResolve
PROPERTIES DeletedForGood SettingsSaveProfileOnly RightsWereHeld
