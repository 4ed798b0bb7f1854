SPECIFICATION MCTensorSpec
CONSTANTS
    WorldSize = 3
    BatchSize = 2
    TrainSize = 11
    Iters = 12
    LastLayer = 3
    NIn = 2
    NOut = 2
    Fn <- MCFn
    FnDerivative <- MCDerivative
    One = 4
    Worlds = {1, 2}
    BatchSizes = {1, 2, 3}
    TrainSets <- MCTrainSets
    TestSet <- MCTestSet
    Iterations = 2
    Shapes <- MCShapes
    Elements <- MCElements
    Metrics <- MCMetrics
    Durations <- MCDurations
    Rounds = 2
    NetSizes = {0, 1, 3}
    CountModulus = 64
PROPERTY PprintEnds
