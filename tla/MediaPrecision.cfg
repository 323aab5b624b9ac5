SPECIFICATION Spec
CONSTANTS
    PixelFormats <- MCPixelFormats
    Marks <- MCMarks
    Bits <- MCBits
    Sources <- MCSources
INVARIANTS
    SourcePrecision
