SPECIFICATION FairSpec
CONSTANTS
    a1 = a1
    a2 = a2
    b1 = b1
    alice = alice
    bob = bob
    NoSettings = NoSettings
    Jobs <- MCJobs
    Users <- MCUsers
    UserOf <- MCUserOf
    Settings <- MCSettings
    EndReasons <- MCEndReasons
INVARIANTS
    TypeOK
    Accounting
    LimitsRespected
PROPERTIES
    ImplementsSlotPool
    NoIdleCapacity
