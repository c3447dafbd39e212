SPECIFICATION FairSpec
CONSTANTS
    a = a
    b = b
    captainA = captainA
    starterA = starterA
    captainB = captainB
    tabA = tabA
    tabA2 = tabA2
    tabB = tabB
    m1 = m1
    m2 = m2
    m3 = m3
    m4 = m4
    EntryA = a
    EntryB = b
    NoEntry = NoEntry
    Maps = {m1, m2}
    Format <- MCShort
    RoleTime = 1
    Users <- MCUsers
    EntryOf <- MCEntryOf
    Captain <- MCCaptain
    DefaultRep <- MCStarterRep
    NoUser = NoUser
    Tabs = {tabA2}
    UserOf <- MCUserOf
    InitialLineup = "none"
    InitialPrivileged = NoEntry
    ScheduledAt = 0
    OpenWindow = 1
    ForceGrace = 0
    Settlement = 0
    Operations = {"privilege", "lineup", "eligibility", "other", "telemetry", "representative"}
    MaxTime = 2
    MaxInterventions = 2
PROPERTIES
    AgreedMatchStarts
    TurnEnds
    StartIsAgreed
