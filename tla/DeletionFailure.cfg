SPECIFICATION Spec
CONSTANTS
    j1 = j1
    j2 = j2
    alice = alice
    bob = bob
    movie = movie
    out1 = out1
    out2 = out2
    NoSettings = NoSettings
    NoTask = NoTask
    NoPath = NoPath
    Absent = Absent
    AnyVersion = AnyVersion
    NoRequest = NoRequest
    Jobs <- MCOneJob
    Users <- MCUsers
    UserOf <- MCOneUserOf
    Settings <- MCTogether
    EndReasons <- MCEndReasons
    Paths <- MCPaths
    SourceOf <- MCOneSourceOf
    NamesOf <- MCOneNamesOf
    DeleteOriginal <- MCOneJob
    FreePaths <- MCFreePaths
    EditPaths <- MCNoPaths
    MaxEdits = 0
    MaxRestarts = 0
INVARIANTS
    DeletionFailureNamesOutput
