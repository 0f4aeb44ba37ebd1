\* One loop is enough.
CONSTANTS
    MaxFrames = 4
    MaxLevels = 1
SPECIFICATION FiniteSpec
\* A shell that has ended does nothing more.
CHECK_DEADLOCK FALSE
PROPERTIES
    StopAlwaysEndsShell
