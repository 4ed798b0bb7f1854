SPECIFICATION MCSpec
CONSTANTS
    NLoops = 5
    Interrupts = 2
    Workers = {1, 2}
    Requests = 2
    DurationsOf = {1, 3}
    CutPoints <- MCCutPoints
    Reports = 2
    ThreadCounts = {1, 2, 3}
    TotalNumbers = {0, 1, 3}
    WildSizes = {0, 9}
    WorldSizes = {1, 2, 3}
    Rates <- MCRates
    SleepNs = 2
    Late = {0, 1}
    Gaps = {0, 1, 9}
    IntLimit = 8
    Cycles = 3
    Printers = {1, 2}
    Lines = 2
    Texts <- MCTexts
    MaxPrime = 8
    LongMax = 1023
    Nnodes <- MCSizes
    Nssds <- MCSizes
    SsdSizes <- MCSizes
    Machines <- MCMachines
    PriceTables <- MCPriceTables
    Load <- MCLoad
    Screens <- MCScreens
    Fonts <- MCFonts
    WordModulus = 128
    Minute = 3
    len = 2
    Delays = {0, 1}
    Seconds = 7
INVARIANT
    AllCombinationsSearched
