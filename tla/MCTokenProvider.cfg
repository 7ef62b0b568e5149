\* Two concurrent handlers, one statement that fails, a crash at any point.
SPECIFICATION Spec
CONSTANTS
    u1 = u1
    u2 = u2
    c1 = c1
    c2 = c2
    s1 = s1
    Users = {u1, u2}
    Clients = {c1, c2}
    NoClient = NoClient
    Scopes = {s1, NoScopes}
    NoScopes = NoScopes
    Consents <- OneConsent
    Oversized = {}
    LongAddresses = TRUE
    Requests = {r1, r2}
    None = None
    Second = 2
    RefreshTTL = 4
    LateStamps = FALSE
    MaxTime = 5
    MaxGrants = 1
    MaxFaults = 1
SYMMETRY RequestSymmetry
INVARIANTS TypeOK ConsentedOnly DeletedUserHoldsNoSession
PROPERTIES DeadTokensStayDead OnlyEndedSessionsLeave EndedForGood
