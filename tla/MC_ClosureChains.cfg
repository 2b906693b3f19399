CONSTANTS
    V <- MC_V
    MaxEdges <- MC_MaxEdges
SPECIFICATION Spec
INVARIANTS TypeOK ClosureIsTransitiveClosure
