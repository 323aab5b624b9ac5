SPECIFICATION FairSpec
CONSTANTS
    short = short
    long = long
    alice = alice
    bob = bob
    put = put
    NoInfo = NoInfo
    AtStart = AtStart
    Loop = Loop
    Jobs <- MCJobs
    Timeout <- MCTimeout
    Lifetime = 1
    Ids = {7}
    Users <- MCUsers
    Places <- MCPlaces
    Typed <- MCTyped
    Dotted <- MCDotted
    Handlers <- MCHandlers
    Mixes <- MCMixes
    MaxRestarts = 1
INVARIANTS
    TypeOK
    FilesInUseStay
    OutputBesideSource
PROPERTIES
    PageShowsOwnFile
    LeftoversGo
    FormsRegistered
