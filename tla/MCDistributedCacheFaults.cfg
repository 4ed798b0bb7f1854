SPECIFICATION FairSpec
CONSTANTS
    small = small
    other = other
    large = large
    NoFile = NoFile
    NoRank = NoRank
    Files <- MCFiles
    SizeOf <- MCSizeOf
    FileOf <- MCFileOf
    Targets <- MCTargets
    NProcs = 3
    ImageCount = 4
    BufferSize = 2
    Epochs = 2
    PrintSize = 3
    DecodeChoices = {TRUE, FALSE}
    YieldChoices = {FALSE}
    FetchMayFail = TRUE
    CountModulus = 4096
INVARIANTS IndexPointsAtImages NeverAnotherImage CollectivesMatch DecodedHitsAreImages
PROPERTY AllFinishUndecoded
