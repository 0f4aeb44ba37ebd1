---------------------------- MODULE AgentProcess ----------------------------
(***************************************************************************)
(* An agent process (AgentProcess.cpp) around one Agent: its creation, the *)
(* input loop that feeds an interactive agent the lines of its stdin       *)
(* (AgentInputLoop.cpp), the stops it is sent, the broken pipe its console *)
(* may meet (ProcessAgentConsole.cpp), and the exit code observers read.   *)
(*                                                                         *)
(* Its threads are the agent's conversation thread, the creating thread,   *)
(* the input loop's, one that stops the process and one that asks for its  *)
(* exit code.                                                              *)
(***************************************************************************)
EXTENDS Agent

CONSTANT
    PipeInput           \* stdin is a pipe, whose reads a stop token interrupts;
                        \* a console's read ends only with a line

ASSUME PipeInputAssumption == PipeInput \in BOOLEAN

VARIABLES
    cpc,                \* AgentProcess::Create: "hook", "post", "start", "created";
                        \* "none" around an agent that is no process, a subagent
    loop,               \* the input loop: "off", "top", "read", "line", "post", "stop",
                        \* "wait", "done"
    spc,                \* the stopper in TriggerStop: "idle", "seen", "agent"
    processStopped,     \* AgentProcess::m_stopRequested
    brokenPipe,         \* m_brokenPipe
    exitCode,           \* m_exitCode, NoCode while not latched
    stopBegunRunning,   \* history: a TriggerStop saw the process running
    stopDoneRunning,    \* history: one was carried out while it was running
    program             \* history: the number of the command that is the program, or 0

processVars == <<cpc, loop, spc, processStopped, brokenPipe, exitCode, stopBegunRunning,
                 stopDoneRunning, program>>
allVars == <<agentVars, processVars>>

NoCode == -1

\* AgentProcess::WaitToFinish(0).
ProcessFinished == finished /\ loop \in {"off", "done"} /\ cpc = "created"

PInit ==
    /\ Init
    /\ cpc \in {"hook", "none"}
    /\ loop = "off"
    /\ spc = "idle"
    /\ processStopped = FALSE
    /\ brokenPipe = FALSE
    /\ exitCode = NoCode
    /\ stopBegunRunning = FALSE
    /\ stopDoneRunning = FALSE
    /\ program = 0

-----------------------------------------------------------------------------
(* Create: the hook that releases the descriptors, the program, the loop.  *)

InstallHook ==
    /\ cpc = "hook"
    /\ SetFinishedHook
    /\ cpc' = "post"
    /\ UNCHANGED <<loop, spc, processStopped, brokenPipe, exitCode, stopBegunRunning,
                   stopDoneRunning, program>>

PostProgram ==
    /\ cpc = "post"
    /\ Post("text")
    /\ program' = posted + 1
    /\ cpc' = "start"
    /\ UNCHANGED <<loop, spc, processStopped, brokenPipe, exitCode, stopBegunRunning,
                   stopDoneRunning>>

\* Faulty variant: the loop may start before the program is posted.
StartLoopEarly ==
    /\ cpc \in {"post", "start"}
    /\ cpc' = IF cpc = "start" THEN "created" ELSE cpc
    /\ loop' = IF interactive /\ loop = "off" THEN "top" ELSE loop
    /\ UNCHANGED <<agentVars, spc, processStopped, brokenPipe, exitCode, stopBegunRunning,
                   stopDoneRunning, program>>

StartLoop ==
    /\ cpc = "start"
    /\ cpc' = "created"
    /\ loop' = IF interactive THEN "top" ELSE "off"
    /\ UNCHANGED <<agentVars, spc, processStopped, brokenPipe, exitCode, stopBegunRunning,
                   stopDoneRunning, program>>

-----------------------------------------------------------------------------
(* AgentInputLoop::Run.                                                    *)

LoopTo(from, to) ==
    /\ loop = from
    /\ loop' = to
    /\ UNCHANGED <<cpc, spc, processStopped, brokenPipe, exitCode, stopBegunRunning,
                   stopDoneRunning, program>>

LoopChecksAgent ==
    /\ LoopTo("top", IF finished THEN "done" ELSE "read")
    /\ UNCHANGED agentVars

LineArrives ==
    /\ LoopTo("read", "line")
    /\ UNCHANGED agentVars

\* End of input, or on a pipe the interruption of the read by the token.
InputEnds ==
    /\ LoopTo("read", "stop")
    /\ UNCHANGED agentVars

\* Faulty variant: the loop's thread carries no token.
ReadNotInterrupted == loop = "read" /\ FALSE /\ UNCHANGED allVars

ReadInterrupted ==
    /\ PipeInput /\ tokenStopped
    /\ LoopTo("read", "stop")
    /\ UNCHANGED agentVars

\* The line is dropped if the agent closed while it was being typed; the agent
\* may still close between this look and the post.
LoopChecksLine ==
    /\ LoopTo("line", IF finished THEN "done" ELSE "post")
    /\ UNCHANGED agentVars

LoopPosts ==
    /\ LoopTo("post", "top")
    /\ \E text \in Texts : Post(text)

\* Bound: a line beyond MaxCommands is not posted.
LoopDropsLine ==
    /\ posted = MaxCommands
    /\ LoopTo("post", "top")
    /\ UNCHANGED agentVars

LoopStopsAgent ==
    /\ IF stopRequested THEN UNCHANGED agentVars ELSE TriggerStop
    /\ LoopTo("stop", "wait")

LoopEnds ==
    /\ tokenStopped
    /\ LoopTo("wait", "done")
    /\ UNCHANGED agentVars

-----------------------------------------------------------------------------
(* AgentProcess::TriggerStop and StopForBrokenPipe.                        *)

\* Faulty variant: the stop of a finished process counts.
StopBeginsUnchecked ==
    /\ cpc = "created"
    /\ spc = "idle"
    /\ spc' = "seen"
    /\ stopBegunRunning' = (stopBegunRunning \/ ~ProcessFinished)
    /\ UNCHANGED <<agentVars, cpc, loop, processStopped, brokenPipe, exitCode,
                   stopDoneRunning, program>>

\* The check for "not finished yet" and the assignment are two steps.
StopBegins ==
    /\ cpc = "created"
    /\ spc = "idle"
    /\ spc' = IF ProcessFinished THEN "agent" ELSE "seen"
    /\ stopBegunRunning' = (stopBegunRunning \/ ~ProcessFinished)
    /\ UNCHANGED <<agentVars, cpc, loop, processStopped, brokenPipe, exitCode,
                   stopDoneRunning, program>>

StopLatches ==
    /\ spc = "seen"
    /\ spc' = "agent"
    /\ processStopped' = TRUE
    /\ stopDoneRunning' = ~ProcessFinished
    /\ UNCHANGED <<agentVars, cpc, loop, brokenPipe, exitCode, stopBegunRunning, program>>

StopReachesAgent ==
    /\ spc = "agent"
    /\ spc' = "done"
    /\ IF stopRequested THEN UNCHANGED agentVars ELSE TriggerStop
    /\ UNCHANGED <<cpc, loop, processStopped, brokenPipe, exitCode, stopBegunRunning,
                   stopDoneRunning, program>>

\* The console, on the agent's thread, writes a response or a diagnostic and
\* finds that nobody reads its stdout: the process stops itself and writes
\* nothing more.
ConsoleMeetsBrokenPipe ==
    /\ \/ apc \in {"write", "tool", "failed"}
       \/ apc = "round" /\ rounds = MaxRounds
    /\ ~brokenPipe
    /\ brokenPipe' = TRUE
    /\ IF stopRequested THEN UNCHANGED agentVars ELSE TriggerStop
    /\ UNCHANGED <<cpc, loop, spc, processStopped, exitCode, stopBegunRunning,
                   stopDoneRunning, program>>

-----------------------------------------------------------------------------
(* AgentProcess::ExitCode, asked by anybody at any time.                   *)

ReadExitCode ==
    /\ ProcessFinished
    /\ exitCode = NoCode
    /\ exitCode' = IF brokenPipe THEN 141
                   ELSE IF processStopped THEN 143
                   ELSE IF lastCommandFailed THEN 1 ELSE 0
    /\ UNCHANGED <<agentVars, cpc, loop, spc, processStopped, brokenPipe,
                   stopBegunRunning, stopDoneRunning, program>>

-----------------------------------------------------------------------------

CreateStep == InstallHook \/ PostProgram \/ StartLoop

LoopStep ==
    \/ LoopChecksAgent \/ ReadInterrupted \/ LoopChecksLine \/ LoopPosts \/ LoopDropsLine
    \/ LoopStopsAgent \/ LoopEnds

Input == LineArrives \/ InputEnds

ProcessStop == StopLatches \/ StopReachesAgent

PNext ==
    \/ (AgentStep \/ StopStep) /\ UNCHANGED processVars
    \/ cpc = "none" /\ Callers /\ UNCHANGED processVars
    \/ CreateStep \/ LoopStep \/ Input
    \/ StopBegins \/ ProcessStop \/ ConsoleMeetsBrokenPipe
    \/ ReadExitCode

PSpec == PInit /\ [][PNext]_allVars

\* Every thread that runs goes on; nobody has to type, stop or ask anything.
PFairness ==
    /\ WF_allVars(AgentStep /\ UNCHANGED processVars)
    /\ WF_allVars(StopStep /\ UNCHANGED processVars)
    /\ WF_allVars(CreateStep)
    /\ WF_allVars(LoopStep)
    /\ WF_allVars(ProcessStop)

PFairSpec == PSpec /\ PFairness

-----------------------------------------------------------------------------
(* Properties.                                                             *)

PTypeOK ==
    /\ TypeOK
    /\ cpc \in {"hook", "post", "start", "created", "none"}
    /\ loop \in {"off", "top", "read", "line", "post", "stop", "wait", "done"}
    /\ spc \in {"idle", "seen", "agent", "done"}
    /\ processStopped \in BOOLEAN
    /\ brokenPipe \in BOOLEAN
    /\ exitCode \in {NoCode, 0, 1, 141, 143}
    /\ stopBegunRunning \in BOOLEAN
    /\ stopDoneRunning \in BOOLEAN
    /\ program \in 0..MaxCommands

\* AgentProcess.cpp:72-91: whoever sees the process finished finds its descriptors
\* released, they are not released under a conversation that goes on, and the
\* first thing the agent was given to do is the program, not a line typed early.
ProcessKeepsOrder ==
    /\ PTypeOK
    /\ HookBeforeFinished
    /\ ProcessFinished => hookRuns = 1
    /\ cpc # "none" /\ hookRuns > 0 => apc \in {"finish", "ended"}
    /\ cpc # "none" /\ handled # <<>> => program # 0 /\ handled[1] = program

\* AgentProcess.cpp:141-148 and 165-169: a stop of a process that had finished does
\* not count, and one carried out before it finished does, unless the process died
\* of a broken pipe.
ExitCodeTellsStop ==
    /\ exitCode = 143 => stopBegunRunning
    /\ stopDoneRunning /\ exitCode # NoCode => exitCode \in {141, 143}

\* AgentInputLoop.cpp:67-101: a process that is stopped, or whose agent closes
\* itself, finishes, and with it the loop that may be blocked reading its stdin.
ProcessesFinish ==
    (PipeInput /\ cpc # "none" /\ (spc = "agent" \/ finished)) ~> ProcessFinished

\* Agent.cpp:444-465, AgentInputLoop.cpp:67-101: nobody has to stop a one-shot agent,
\* and nobody has to type for a process to end.
AgentsFinish == OneShotFinishes /\ ProcessesFinish
=============================================================================
