SPECIFICATION CodesSpec
CONSTANTS
    u1 = u1
    c1 = c1
    c2 = c2
    s1 = s1
    w1 = w1
    w2 = w2
    v1 = v1
    v2 = v2
    Users = {u1}
    Clients = {c1, c2}
    NoClient = NoClient
    Scopes = {s1, NoScopes}
    NoScopes = NoScopes
    Consents <- MCConsents
    Oversized = {}
    LongAddresses = TRUE
    Requests = {r1, r2}
    None = None
    Second = 1
    RefreshTTL = 2
    LateStamps = TRUE
    MaxTime = 0
    MaxGrants = 2
    MaxFaults = 1
    CodeIds = {k1}
    Consenters = {b1}
    URIs = {w1, w2}
    RedirectURIs <- MCRedirectURIs
    Permitted <- MCPermitted
    Selected <- AllColumns
    Challenges <- AllChallenges
    Verifiers = {v1, v2}
    LongParams = TRUE
    CodeTTL = 0
SYMMETRY RequestSymmetry
INVARIANT OneExchangePerCode
PROPERTIES CodesAreOneTime OneAttemptPerCode
