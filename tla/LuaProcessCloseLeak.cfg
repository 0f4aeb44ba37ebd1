\* What is said of an aborted script, with coroutine.close.
CONSTANTS
    Coroutines = {c1, c2}
    Main = main
    MaxPCalls = 1
    HookPeriod = 2
    OwnCode = 4
    Closings = {TRUE}
    Unhooked = {FALSE}
SPECIFICATION Spec
\* A finished process does nothing more.
CHECK_DEADLOCK FALSE
PROPERTIES
    AbortIsAlwaysFinal
