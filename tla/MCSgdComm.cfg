SPECIFICATION MCSpec
CONSTANTS
    Configs <- MCConfigs
    empty = empty
    small = small
    medium = medium
    large = large
    Files <- MCFiles
    SizeOf <- MCSizeOf
    NoFile = NoFile
    BufferSize = 4
    Masters = 3
    Size = 3
    N = 3
    K = 2
    Objects <- MCObjects
    HashFunctions <- MCClusteredHashFunctions
    Empty = 0
    EagerGet = FALSE
    RangeChecks = {TRUE, FALSE}
INVARIANTS
    LoadWithinBudget FullAtTheEnd EvenReplication StoredFilesIntact OneSlotEach ProbeChain
PROPERTIES
    ImplementsReadThroughCache AllDone
