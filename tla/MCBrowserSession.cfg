SPECIFICATION FairBrowserSpec
CONSTANTS
    u1 = u1
    c1 = c1
    s1 = s1
    w1 = w1
    v1 = v1
    x1 = x1
    x2 = x2
    Users = {u1}
    Clients = {c1}
    NoClient = NoClient
    Scopes = {s1, NoScopes}
    NoScopes = NoScopes
    Consents <- MCConsents
    Oversized = {}
    LongAddresses = TRUE
    Requests = {}
    None = None
    Second = 1
    RefreshTTL = 1
    LateStamps = TRUE
    MaxTime = 1
    MaxGrants = 0
    MaxFaults = 0
    CodeIds = {k1}
    Consenters = {b1, b2}
    URIs = {w1}
    RedirectURIs <- MCRedirectURIs
    Permitted <- MCPermitted
    Selected <- MCSelected
    Challenges <- S256Challenge
    Verifiers = {v1}
    LongParams = TRUE
    CodeTTL = 0
    States = {x1, x2}
    Asked <- MCAsked
    SessionTTL = 1
    MaxSignIns = 2
INVARIANTS BrowserTypeOK RequestSurvives CodesForEnteredUsers
PROPERTIES NavigationsEnd NoCodeAfterLogout
