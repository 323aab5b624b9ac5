SPECIFICATION FairSpec
CONSTANTS
    p1 = p1
    p2 = p2
    alice = alice
    NoTask = NoTask
    NoPath = NoPath
    NoUser = NoUser
    Pages <- MCPages
    UserOf <- MCUserOf
    MaxJobs = 2
    MaxRestarts = 1
INVARIANTS
    TypeOK
    ButtonsFollowHandler
    VerdictIsOwn
PROPERTIES
    CancelHitsOwn
    FormReturns
