SPECIFICATION FairSpec
CONSTANTS
    j1 = j1
    j2 = j2
    alice = alice
    bob = bob
    movie = movie
    out1 = out1
    out2 = out2
    NoSettings = NoSettings
    NoTask = NoTask
    NoPath = NoPath
    Absent = Absent
    AnyVersion = AnyVersion
    NoRequest = NoRequest
    Jobs <- MCJobs
    Users <- MCUsers
    UserOf <- MCUserOf
    Settings <- MCInTurn
    EndReasons <- MCEndReasons
    Paths <- MCPaths
    SourceOf <- MCSourceOf
    NamesOf <- MCNamesOf
    DeleteOriginal <- MCFirst
    FreePaths <- MCFreePaths
    EditPaths <- MCNoPaths
    MaxEdits = 0
    MaxRestarts = 0
INVARIANTS
    SlotsMatchWorkers
PROPERTIES
    CancelStopsWork
    VerdictStands
    ImplementsGate
    StoppedJobEnds
