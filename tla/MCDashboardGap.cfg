CONSTANTS
    p1 = p1
    p2 = p2
    p3 = p3
    aave = aave
    ens = ens
    all = all
    active = active
    closed = closed
    Branches = {"vector"}
    MaxRequests = 3
    MaxAttempts = 2
    Proposals = {p1, p2, p3}
    ProtocolOf <- MCProtocolOf
    Created <- MCCreated
    AtFirst = {p1, p2}
    States <- MCStates
    All = all
    Filters <- MCFilters
    PageSize = 1
    MaxFetches = 3
    MaxMoves = 1
    MaxVisits = 1
SPECIFICATION Spec
INVARIANTS
    LoadMoreReachesAll
CHECK_DEADLOCK FALSE
