\* Three stages, of every kind, writing up to two bytes through pipes of one.
CONSTANTS
    N = 3
    Capacity = 1
    Budget = 2
SPECIFICATION Spec
INVARIANTS
    NoDeadlock
    EndOfInputIsReal
PROPERTIES
    PipelineEnds
