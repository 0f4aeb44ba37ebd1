\* Programs of any length, whose commands nest up to six calls of the interpreter.
CONSTANTS
    MaxFrames = 6
    MaxLevels = 2
SPECIFICATION Spec
\* A shell that has ended does nothing more.
CHECK_DEADLOCK FALSE
INVARIANTS
    ControlKeepsItsDepth
PROPERTIES
    StopEndsShell
