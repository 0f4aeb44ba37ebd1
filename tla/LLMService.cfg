\* Three agents, one level of subagents, and the end of the service while they
\* start, query and wait for one another.
CONSTANTS
    MaxDepth = 1
    MaxAgents = 3
    MaxCalls = 2
SPECIFICATION FairSpec
CHECK_DEADLOCK FALSE
INVARIANTS
    ServiceIsSafe
PROPERTIES
    DestructionEnds
