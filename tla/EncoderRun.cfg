SPECIFICATION FairSpec
CONSTANTS
    cpulimit = cpulimit
    limiter = limiter
    ffmpeg = ffmpeg
    Procs <- MCProcs
    Leader = cpulimit
    Encoder = ffmpeg
    Positions <- MCPositions
    MaxLines = 3
    PipeRoom = 2
    ChanRoom = 2
INVARIANTS
    TypeOK
    NothingLeftBehind
    SuccessIsReal
PROPERTIES
    ProgressNeverFalls
    RunEnds
    ImplementsContract
