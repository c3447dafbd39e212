SPECIFICATION FairSpec
CONSTANTS
    m1 = m1
    m2 = m2
    r1 = r1
    Matches = {m1, m2}
    Narrow = {"lineups"}
    Broad = {"map_plan"}
    Requests = {r1}
    Dispatcher = dispatcher
    Unreachable = {m1}
    BatchLimit = 1
    MaxGeneration <- MCMaxGeneration
INVARIANTS
    TypeOK
    FreshWhenPublished
PROPERTIES
    PublishedMovesForward
    ReachableDelivered
CHECK_DEADLOCK FALSE
