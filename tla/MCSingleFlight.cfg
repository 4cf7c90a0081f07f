SPECIFICATION FairSpec
CONSTANTS
    k1 = k1
    k2 = k2
    c1 = c1
    c2 = c2
    ch1 = ch1
    ch2 = ch2
    ch3 = ch3
    NoKey = NoKey
    NoChannel = NoChannel
    Keys <- Accounts
    Callers <- Calls2
    Channels <- Channels3
INVARIANTS
    TypeOK
    RegistryNamesLiveTasks
    OneWorkPerKey
PROPERTIES
    ResultReachesWaiters
    EveryCallReturns
    EveryFlightLands
