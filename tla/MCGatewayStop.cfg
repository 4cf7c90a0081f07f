SPECIFICATION Spec
CONSTANTS
    Windows <- OneWindow
    Repairers <- OneRepairer
    Watchdog = "watchdog"
    Restorer = "restorer"
    Nobody = "nobody"
    Ports <- TwoPorts
    Configs <- ThreeConfigs
    MaxPid = 5
    MaxSaves = 1
    MaxRepairs = 1
    MaxFaults = 0
PROPERTY
    RepairLeavesStopped
