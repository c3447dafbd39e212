SPECIFICATION Spec
CONSTANTS
    a = a
    b = b
    captainA = captainA
    starterA = starterA
    captainB = captainB
    tabA = tabA
    tabA2 = tabA2
    tabB = tabB
    m1 = m1
    m2 = m2
    m3 = m3
    m4 = m4
    EntryA = a
    EntryB = b
    NoEntry = NoEntry
    Maps = {m1, m2, m3, m4}
    Format <- MCMixed
    RoleTime = 1
    Users <- MCUsers
    EntryOf <- MCEntryOf
    Captain <- MCCaptain
    DefaultRep <- MCCaptain
    NoUser = NoUser
    Tabs = {tabA}
    UserOf <- MCUserOf
    InitialLineup = "ok"
    InitialPrivileged = a
    ScheduledAt = 0
    OpenWindow = 1
    ForceGrace = 0
    Settlement = 1
    Operations = {"pause", "rewind", "appeal", "play", "end"}
    MaxTime = 2
    MaxInterventions = 2
INVARIANTS
    TypeOK
    StepsFollowFormat
    PlanIsFair
    TurnIsOnTheClock
    TimeoutsOnRecord
    AppliedOnce
PROPERTIES
    RevisionNamesSession
    ImplementsVetoLog
    TurnsStartInOrder
SYMMETRY MCSymmetry
