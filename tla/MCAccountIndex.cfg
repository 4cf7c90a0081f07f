SPECIFICATION Spec
CONSTANTS
    c1 = c1
    c2 = c2
    u1 = u1
    u2 = u2
    e1 = e1
    Nobody = Nobody
    Unknown = Unknown
    Callers <- TwoCallers
    Uids <- TwoUids
    Emails <- OneEmail
    MaxJobs = 3
    MaxFaults = 2
INVARIANTS
    TypeOK
    ListSucceeds
PROPERTIES
    NothingDropped
    UidKept
    ImplementsSet
CHECK_DEADLOCK FALSE
