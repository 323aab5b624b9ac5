SPECIFICATION Spec
CONSTANTS
    short = short
    long = long
    alice = alice
    bob = bob
    put = put
    NoInfo = NoInfo
    AtStart = AtStart
    Loop = Loop
    Jobs <- MCJobs
    Timeout <- MCTimeout
    Lifetime = 1
    Ids = {1234567}
    Users <- MCUsers
    Places <- MCPlaces
    Typed <- MCTyped
    Dotted <- MCDotted
    Handlers <- MCHandlers
    Mixes <- MCPages
    MaxRestarts = 1
PROPERTIES
    EveryIdReachesPage
