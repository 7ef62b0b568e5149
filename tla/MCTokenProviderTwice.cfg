SPECIFICATION Spec
CONSTANTS
    u1 = u1
    u2 = u2
    c1 = c1
    c2 = c2
    s1 = s1
    Users = {u1}
    Clients = {c1}
    NoClient = NoClient
    Scopes = {s1, NoScopes}
    NoScopes = NoScopes
    Consents <- OneConsent
    Oversized = {}
    LongAddresses = FALSE
    Requests = {r1, r2}
    None = None
    Second = 1
    RefreshTTL = 4
    LateStamps = TRUE
    MaxTime = 3
    MaxGrants = 1
    MaxFaults = 0
INVARIANT SessionsNotMultiplied
