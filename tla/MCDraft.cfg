SPECIFICATION Spec
CONSTANTS
    k1 = k1
    k2 = k2
    p = p
    q = q
    r = r
    q1 = q1
    q2 = q2
    o1 = o1
    o2 = o2
    Registrations <- MCRegistrations
    Approved <- MCApproved
    Willing <- MCWilling
    Position <- MCPosition
    Rank <- MCRank
    Teams = 2
    TotalRounds = 2
    StarterRounds = 1
    PositionLimit = 2
    RoundTimeout = 1
    Requests = {q1, q2}
    Captains = {c1}
    Operators = {o1}
    Cron = cron
    NoOne = NoOne
    MaxTime = 3
    TurnReserve = 0
INVARIANTS
    TypeOK
    PicksInSnakeOrder
    RostersMatchPicks
    PositionCap
    PlayingMeansFrozen
PROPERTIES
    RostersStayFrozen
    ImplementsSnakeDraft
SYMMETRY MCSymmetry
CHECK_DEADLOCK FALSE
