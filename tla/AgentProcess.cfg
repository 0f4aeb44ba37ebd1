\* An agent of either kind, as a process fed by a pipe or as a subagent, with two
\* commands and two rounds of two tool calls.
CONSTANTS
    Kinds = {TRUE, FALSE}
    MaxRounds = 2
    MaxToolCalls = 2
    MaxCommands = 2
    Texts = {"text", "empty"}
    PipeInput = TRUE
SPECIFICATION PFairSpec
CHECK_DEADLOCK FALSE
INVARIANTS
    ConversationWellFormed
    StopBoundsWork
    ProcessKeepsOrder
    ExitCodeTellsStop
PROPERTIES
    CommandsAreTaken
    AgentsFinish
