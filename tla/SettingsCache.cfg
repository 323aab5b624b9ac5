SPECIFICATION Spec
CONSTANTS
    r1 = r1
    r2 = r2
    r3 = r3
    direct = direct
    Requests <- MCRequests
    Anonymous <- MCAnonymous
    Duration = 2
    MaxTime = 5
    MaxChanges = 2
    HugeAsInt <- MCHugeAsInt
    Cpus = 4
    Answers <- MCAnswers
SYMMETRY MCSymmetry
INVARIANTS
    TypeOK
    FreshSettings
    SettingsTakeEffect
