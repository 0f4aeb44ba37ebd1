\* Two threads on a table of three slots, three open files.
CONSTANTS
    Descriptors = {d1, d2, d3}
    Threads = {t1, t2}
    None = None
    Max = 3
SPECIFICATION Spec
INVARIANTS
    NeverClosedInUse
PROPERTIES
    ImplementsTable
SYMMETRY Symmetry
