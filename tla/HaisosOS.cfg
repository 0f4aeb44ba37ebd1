\* Two processes, either of which may start the other.
CONSTANTS
    Procs = {p1, p2}
    OS = os
    Main = main
    Destruction = destruction
    NoProcess = noprocess
    MaxProcesses = 2
    MaxDrainPasses = 8
SPECIFICATION Spec
CHECK_DEADLOCK FALSE
INVARIANTS
    DestroyedOffRuntimeThreads
    NoUseAfterDestruction
    GoneOSStoppedItsProcesses
PROPERTIES
    NoStartAfterShutdown
    ProgramEnds
