SPECIFICATION Spec
CONSTANTS
    c1 = c1
    c2 = c2
    ch1 = ch1
    ch2 = ch2
    tag = tag
    another = another
    AsReceived = AsReceived
    Id = Id
    NoChannel = NoChannel
    NoKey = NoKey
    NoAccount = NoAccount
    NoCreds = NoCreds
    NoToken = NoToken
    Callers <- OneCall
    Channels <- Tasks
    MaxPairs = 3
    Expiries <- OneExpiry
    MaxBackups = 0
    Tags <- NoTags
    Events <- TokenOnly
INVARIANTS
    AddedTokenKeepsRotation
SYMMETRY Interchangeable
