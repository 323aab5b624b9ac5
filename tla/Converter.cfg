SPECIFICATION Spec
CONSTANTS
    j1 = j1
    j2 = j2
    alice = alice
    bob = bob
    movie = movie
    out1 = out1
    out2 = out2
    NoSettings = NoSettings
    NoTask = NoTask
    NoPath = NoPath
    Absent = Absent
    AnyVersion = AnyVersion
    NoRequest = NoRequest
    Jobs <- MCJobs
    Users <- MCUsers
    UserOf <- MCUserOf
    Settings <- MCTogether
    EndReasons <- MCEndReasons
    Paths <- MCPaths
    SourceOf <- MCSourceOf
    NamesOf <- MCNamesOf
    DeleteOriginal <- MCJobs
    FreePaths <- MCFreePaths
    EditPaths <- MCPaths
    MaxEdits = 1
    MaxRestarts = 1
INVARIANTS
    TypeOK
    DoneMeansSaved
    NoZombieTask
    NoticeMatchesTask
    OneOutput
PROPERTIES
    FilesPreserved
