SPECIFICATION CodesSpec
CONSTANTS
    u1 = u1
    c1 = c1
    c2 = c2
    s1 = s1
    w1 = w1
    w2 = w2
    v1 = v1
    v2 = v2
    Users = {u1}
    Clients = {c1, c2}
    NoClient = NoClient
    Scopes = {s1, NoScopes}
    NoScopes = NoScopes
    Consents <- MCConsents
    Oversized = {}
    LongAddresses = TRUE
    Requests = {r1}
    None = None
    Second = 1
    RefreshTTL = 2
    LateStamps = TRUE
    MaxTime = 1
    MaxGrants = 2
    MaxFaults = 0
    CodeIds = {k1, k2}
    Consenters = {b1}
    URIs = {w1, w2}
    RedirectURIs <- MCRedirectURIs
    Permitted <- MCPermitted
    Selected <- AllColumns
    Challenges <- S256Challenge
    Verifiers = {v1, v2}
    LongParams = TRUE
    CodeTTL = 0
SYMMETRY CodeSymmetry
INVARIANTS CodesTypeOK EverySessionWasConsented OneExchangePerCode
PROPERTY CodesAreOneTime
