SPECIFICATION FairSpec
CONSTANTS
    small = small
    other = other
    large = large
    NoFile = NoFile
    NoRank = NoRank
    Files <- MCFiles
    SizeOf <- MCSizeOf
    FileOf <- MCFileOf
    Targets <- MCTargets
    NProcs = 3
    ImageCount = 4
    BufferSize = 2
    Epochs = 3
    PrintSize = 3
    DecodeChoices = {FALSE}
    YieldChoices = {TRUE, FALSE}
    FetchMayFail = FALSE
    CountModulus = 4096
INVARIANTS ClusterHitsAreImages IndexAgreed
PROPERTIES HitsCountSources ImplementsLockstepReaders
