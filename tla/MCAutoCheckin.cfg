SPECIFICATION FairSpec
CONSTANTS
    a1 = a1
    a2 = a2
    NoAccount = NoAccount
    Scheduler = "scheduler"
    Accounts <- TwoAccounts
    Windows <- OneWindow
    Settings <- AllSettings
    Default <- Disabled
    MaxDay = 2
    MaxMinute = 1
    MaxSaves = 2
    MaxFaults = 2
INVARIANTS
    TypeOK
    OneCycle
    MarkMeansCheckedIn
    SchedulesFitWindow
PROPERTIES
    TodaysMarksKept
    EveryAccountCheckedIn
