SPECIFICATION Spec
CONSTANTS
    Size = 2
    N = 2
    K = 2
    Objects <- MCObjects
    HashFunctions <- MCHashFunctions
    Empty = 0
    EagerGet = TRUE
    RangeChecks = {FALSE}
INVARIANT NoRepetitions
