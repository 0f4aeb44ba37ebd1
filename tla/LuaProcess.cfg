\* Scripts with two coroutines, some of which they may close, with and without
\* code that runs with the hooks off.
CONSTANTS
    Coroutines = {c1, c2}
    Main = main
    MaxPCalls = 1
    HookPeriod = 2
    OwnCode = 4
    Closings = {TRUE, FALSE}
    Unhooked = {TRUE, FALSE}
SPECIFICATION Spec
\* A finished process does nothing more.
CHECK_DEADLOCK FALSE
INVARIANTS
    CodeTellsEnding
PROPERTIES
    AbortIsFinal
    StopEndsScript
