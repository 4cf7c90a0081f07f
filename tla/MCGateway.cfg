SPECIFICATION FairSpec
CONSTANTS
    Windows <- OneWindow
    Repairers <- OneRepairer
    Watchdog = "watchdog"
    Restorer = "restorer"
    Nobody = "nobody"
    Ports <- TwoPorts
    Configs <- ThreeConfigs
    MaxPid = 6
    MaxSaves = 1
    MaxRepairs = 1
    MaxFaults = 1
INVARIANTS
    TypeOK
    OneSidecar
    NoStrayHelper
    OneWebPerPort
    LocksFollowFlows
PROPERTIES
    StopIsComplete
    CommandsReturn
    ServesAgain
