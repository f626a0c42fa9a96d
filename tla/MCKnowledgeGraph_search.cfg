SPECIFICATION GraphSpec
CONSTANTS
    n1 = n1
    n2 = n2
    x1 = x1
    x2 = x2
    Names = {n1, n2}
    Chunks = {k1, k2}
    Extractors = {x1, x2}
    MaxSteps = 3
    MAX_CHUNKS = 1
    MinFetch = 3
INVARIANTS
    SemanticHitsCount
SYMMETRY MCSymmetry
CHECK_DEADLOCK FALSE
