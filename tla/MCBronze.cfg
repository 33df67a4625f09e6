CONSTANTS
    proposal = proposal
    topic = topic
    snapshot = snapshot
    forum = forum
    a = a
    b = b
    x = x
    y = y
    h1 = h1
    h2 = h2
    Entities <- MCEntities
    Contents = {a, b}
    Original <- MCOriginal
    Versions <- MCVersions
    Noise = {x, y}
    Units = {snapshot, forum}
    Forums = {forum}
    UnitOf <- MCUnitOf
    Harvesters = {h1, h2}
    Plan <- MCPlan
    Reach <- MCReach
SPECIFICATION FairSpec
INVARIANTS
    TypeOK
    RunAccountsForAll
    NewestIsFetched
PROPERTIES
    SettledStays
    ImplementsLog
    VersionsCaptured
