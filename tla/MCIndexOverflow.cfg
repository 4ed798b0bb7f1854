SPECIFICATION Spec
CONSTANTS
    small = small
    other = other
    large = large
    NoFile = NoFile
    NoRank = NoRank
    Files <- MCFiles
    SizeOf <- MCSizeOf
    FileOf <- MCFileOf
    Targets <- MCTargets
    NProcs = 3
    ImageCount = 3
    BufferSize = 2
    Epochs = 2
    PrintSize = 3
    DecodeChoices = {FALSE}
    YieldChoices = {FALSE}
    FetchMayFail = FALSE
    CountModulus = 16
INVARIANT IndexAgreed
