\* One handler after the other, no statement that fails.
SPECIFICATION FairSpec
CONSTANTS
    u1 = u1
    u2 = u2
    c1 = c1
    c2 = c2
    s1 = s1
    Users = {u1}
    Clients = {c1}
    NoClient = NoClient
    Scopes = {s1, NoScopes}
    NoScopes = NoScopes
    Consents <- TwoConsents
    Oversized <- LongScopes
    LongAddresses = TRUE
    Requests = {r1}
    None = None
    Second = 2
    RefreshTTL = 4
    LateStamps = TRUE
    MaxTime = 7
    MaxGrants = 2
    MaxFaults = 0
INVARIANT SessionsNotMultiplied
PROPERTIES RefreshInvalidatesOldToken EveryRequestEnds ExpiredRowsAreSwept
