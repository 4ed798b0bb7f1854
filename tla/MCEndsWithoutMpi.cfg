SPECIFICATION FairSpec
CONSTANTS
    WorldSize = 2
    BatchSize = 2
    TrainSize = 5
    Iters = 2
    LastLayer = 3
PROPERTY EndsWithoutMpi
