SPECIFICATION FairSpec
CONSTANTS
    k1 = k1
    k2 = k2
    p = p
    q = q
    r = r
    q1 = q1
    q2 = q2
    o1 = o1
    o2 = o2
    Registrations <- MCFew
    Approved <- MCFew
    Willing <- MCWilling
    Position <- MCPosition
    Rank <- MCFewRank
    Teams = 2
    TotalRounds = 2
    StarterRounds = 1
    PositionLimit = 2
    RoundTimeout = 1
    Requests = {q1}
    Captains = {c1}
    Operators = {o1}
    Cron = cron
    NoOne = NoOne
    MaxTime = 8
    TurnReserve = 2
PROPERTIES
    OverdueTurnEnds
CHECK_DEADLOCK FALSE
