------------------------------- MODULE Agent -------------------------------
(***************************************************************************)
(* One agent (Agent.cpp): the conversation thread that takes commands off  *)
(* a queue (SynchronizedQueueEx.h), goes back and forth with the LLM and   *)
(* runs the tools it asks for, and the calls other threads make on it:     *)
(* Post, TriggerStop, SetFinishedHook.                                     *)
(*                                                                         *)
(* The LLM is external: it answers with any response the communicator can  *)
(* return, or the call throws.  What a message says is left out; how many  *)
(* tool calls it carries and how many results answer them is kept.         *)
(***************************************************************************)
EXTENDS Integers, Sequences, FiniteSets

CONSTANTS
    Kinds,              \* the kinds of agent: subset of BOOLEAN, TRUE for interactive
    MaxRounds,          \* MAX_LLM_ROUNDS
    MaxToolCalls,       \* bound: tool calls of one response
    MaxCommands,        \* bound: commands posted
    Texts               \* what a posted command may be, a subset of {"text", "empty"}

ASSUME AgentAssumption ==
    /\ Kinds \subseteq BOOLEAN
    /\ MaxRounds \in Nat \ {0}
    /\ MaxToolCalls \in Nat
    /\ MaxCommands \in Nat
    /\ Texts \subseteq {"text", "empty"}

VARIABLES
    interactive,        \* m_interactive, fixed for the agent's life
    queue, closed,      \* m_commandQueue: commands <<number, text>>, and its flag
    stopRequested,      \* m_stopRequested
    tokenStopped,       \* the agent's StopToken was signalled
    apc,                \* where the conversation thread is
    rounds,             \* ProcessCommand's counter
    response,           \* the tool calls of the response being handled
    results,            \* ExecuteToolCalls' results so far
    history,            \* m_history
    lastCommandFailed,
    finished,           \* m_finished
    hook, hookRuns,     \* m_finishedHook, and how often it was run
    handled,            \* history: numbers of the commands processed, in order
    posted,             \* history: how many commands were posted
    lateCommands,       \* history: commands taken since the stop,
    lateCalls, lateTools \* LLM calls and tools begun since the stop

queueVars == <<queue, closed, posted>>
stopVars == <<stopRequested, tokenStopped, interactive>>
roundVars == <<rounds, response, results, lateCalls, lateTools>>
hookVars == <<hook, hookRuns>>
takenVars == <<handled, lateCommands>>
agentVars == <<queueVars, stopVars, roundVars, hookVars, apc, history, lastCommandFailed,
               finished, takenVars>>

-----------------------------------------------------------------------------

Message(role, calls) == [role |-> role, calls |-> calls]

User == Message("user", 0)
ToolMessage == Message("tool", 0)
Assistant(n) == Message("assistant", n)

\* A response: how many tool calls it carries, whether its done reason is one
\* of the three error reasons (IsErrorResponse), whether it has content to show.
Responses == [calls : 0..MaxToolCalls, error : BOOLEAN, content : BOOLEAN]

Repeat(m, n) == [i \in 1..n |-> m]

Init ==
    /\ interactive \in Kinds
    /\ queue = <<>> /\ closed = FALSE /\ posted = 0
    /\ stopRequested = FALSE /\ tokenStopped = FALSE
    /\ apc = "pop"
    /\ rounds = 0 /\ response = 0 /\ results = 0
    /\ lateCommands = 0 /\ lateCalls = 0 /\ lateTools = 0
    /\ history = <<>>
    /\ lastCommandFailed = FALSE
    /\ finished = FALSE
    /\ hook = "none" /\ hookRuns = 0
    /\ handled = <<>>

-----------------------------------------------------------------------------
(* Calls of other threads.                                                 *)

\* SynchronizedQueue::Post never refuses, whether the queue is closed or not.
Post(text) ==
    /\ posted < MaxCommands
    /\ posted' = posted + 1
    /\ queue' = Append(queue, <<posted + 1, text>>)
    /\ UNCHANGED <<closed, stopVars, roundVars, hookVars, apc, history, lastCommandFailed,
                   finished, takenVars>>

\* TriggerStop: the flag, then the queue, then the token.  Each is idempotent,
\* so concurrent calls amount to one.
TriggerStop ==
    /\ ~stopRequested
    /\ stopRequested' = TRUE
    /\ UNCHANGED <<queueVars, tokenStopped, interactive, roundVars, hookVars, apc,
                   history, lastCommandFailed, finished, takenVars>>

CloseQueue ==
    /\ stopRequested /\ ~closed
    /\ closed' = TRUE
    /\ UNCHANGED <<queue, posted, stopVars, roundVars, hookVars, apc, history,
                   lastCommandFailed, finished, takenVars>>

SignalToken ==
    /\ closed /\ ~tokenStopped
    /\ tokenStopped' = TRUE
    /\ UNCHANGED <<queueVars, stopRequested, interactive, roundVars, hookVars, apc,
                   history, lastCommandFailed, finished, takenVars>>

\* A hook that comes after the thread took it runs on the caller's thread.
SetFinishedHook ==
    /\ hook \in {"none", "gone"}
    /\ hookRuns = 0
    /\ IF hook = "none" THEN hook' = "set" /\ UNCHANGED hookRuns
                        ELSE hookRuns' = 1 /\ UNCHANGED hook
    /\ UNCHANGED <<queueVars, stopVars, roundVars, apc, history, lastCommandFailed,
                   finished, takenVars>>

-----------------------------------------------------------------------------
(* The conversation thread.                                                *)

\* Pop waits until there is a command or the queue is closed, and hands out
\* what is queued even then.  An empty command is skipped.
TakeCommand ==
    /\ apc = "pop"
    /\ queue # <<>>
    /\ queue' = Tail(queue)
    /\ IF Head(queue)[2] = "empty"
       THEN UNCHANGED <<apc, rounds, history, lastCommandFailed, takenVars>>
       ELSE /\ apc' = "round"
            /\ rounds' = 0
            /\ lastCommandFailed' = FALSE
            /\ history' = Append(history, User)
            /\ handled' = Append(handled, Head(queue)[1])
            /\ lateCommands' = lateCommands + (IF stopRequested THEN 1 ELSE 0)
    /\ UNCHANGED <<closed, posted, stopVars, response, results, lateCalls, lateTools,
                   hookVars, finished>>

QueueClosed ==
    /\ apc = "pop"
    /\ queue = <<>> /\ closed
    /\ apc' = "hook"
    /\ UNCHANGED <<queueVars, stopVars, roundVars, hookVars, history, lastCommandFailed,
                   finished, takenVars>>

\* After a command a one-shot agent is done; an interactive one takes another.
AfterCommand == IF interactive THEN "pop" ELSE "hook"

TooManyRounds ==
    /\ apc = "round"
    /\ rounds = MaxRounds
    /\ lastCommandFailed' = TRUE
    /\ rounds' = 0
    /\ apc' = AfterCommand
    /\ UNCHANGED <<queueVars, stopVars, response, results, lateCalls, lateTools, hookVars,
                   history, finished, takenVars>>

CallLLM ==
    /\ apc = "round"
    /\ rounds < MaxRounds
    /\ rounds' = rounds + 1
    /\ lateCalls' = lateCalls + (IF stopRequested THEN 1 ELSE 0)
    /\ apc' = "calling"
    /\ UNCHANGED <<queueVars, stopVars, response, results, lateTools, hookVars, history,
                   lastCommandFailed, finished, takenVars>>

Responds(r) ==
    /\ apc = "calling"
    /\ response' = r.calls
    /\ lastCommandFailed' = (lastCommandFailed \/ r.error)
    /\ apc' = IF r.content THEN "write" ELSE "push"
    /\ UNCHANGED <<queueVars, stopVars, rounds, results, lateCalls, lateTools, hookVars,
                   history, finished, takenVars>>

\* The console writes through the process's descriptors, and may block.
ConsoleWrites ==
    /\ apc = "write"
    /\ apc' = "push"
    /\ UNCHANGED <<queueVars, stopVars, roundVars, hookVars, history, lastCommandFailed,
                   finished, takenVars>>

PushResponse ==
    /\ apc = "push"
    /\ history' = Append(history, Assistant(response))
    /\ IF response > 0 THEN apc' = "tools" /\ UNCHANGED rounds
                       ELSE apc' = AfterCommand /\ rounds' = 0
    /\ UNCHANGED <<queueVars, stopVars, response, results, lateCalls, lateTools, hookVars,
                   lastCommandFailed, finished, takenVars>>

\* A call that names no tool, or whose arguments are no object, or that comes
\* after a stop, gets its error result without a tool being run.
RefuseTool ==
    /\ apc = "tools"
    /\ results < response
    /\ results' = results + 1
    /\ UNCHANGED <<queueVars, stopVars, rounds, response, lateCalls, lateTools, hookVars,
                   apc, history, lastCommandFailed, finished, takenVars>>

\* Faulty variant: the stop is not looked at between two tools.
CheckNothing ==
    /\ apc = "tools"
    /\ results < response
    /\ apc' = "runTool"
    /\ UNCHANGED <<queueVars, stopVars, roundVars, hookVars, history, lastCommandFailed,
                   finished, takenVars>>

CheckStop ==
    /\ apc = "tools"
    /\ results < response
    /\ ~stopRequested
    /\ apc' = "runTool"
    /\ UNCHANGED <<queueVars, stopVars, roundVars, hookVars, history, lastCommandFailed,
                   finished, takenVars>>

\* The tool is started by what CheckStop saw, a moment earlier.
StartTool ==
    /\ apc = "runTool"
    /\ lateTools' = lateTools + (IF stopRequested THEN 1 ELSE 0)
    /\ apc' = "tool"
    /\ UNCHANGED <<queueVars, stopVars, rounds, response, results, lateCalls, hookVars,
                   history, lastCommandFailed, finished, takenVars>>

\* A result, an error, a throwing tool (caught) and an unknown tool all answer
\* the call.
ToolReturns ==
    /\ apc = "tool"
    /\ apc' = "tools"
    /\ results' = results + 1
    /\ UNCHANGED <<queueVars, stopVars, rounds, response, lateCalls, lateTools, hookVars,
                   history, lastCommandFailed, finished, takenVars>>

\* self_close calls TriggerStop on the agent's own thread.
ToolClosesAgent ==
    /\ apc = "tool"
    /\ stopRequested' = TRUE
    /\ apc' = "selfClose"
    /\ UNCHANGED <<queueVars, tokenStopped, interactive, roundVars, hookVars, history,
                   lastCommandFailed, finished, takenVars>>

SelfCloseReturns ==
    /\ apc = "selfClose"
    /\ tokenStopped
    /\ apc' = "tools"
    /\ results' = results + 1
    /\ UNCHANGED <<queueVars, stopVars, rounds, response, lateCalls, lateTools, hookVars,
                   history, lastCommandFailed, finished, takenVars>>

PushResults ==
    /\ apc = "tools"
    /\ results = response
    /\ history' = history \o Repeat(ToolMessage, results)
    /\ response' = 0 /\ results' = 0
    /\ apc' = "afterTools"
    /\ UNCHANGED <<queueVars, stopVars, rounds, lateCalls, lateTools, hookVars,
                   lastCommandFailed, finished, takenVars>>

EndRound ==
    /\ apc = "afterTools"
    /\ IF stopRequested THEN apc' = AfterCommand /\ rounds' = 0
                        ELSE apc' = "round" /\ UNCHANGED rounds
    /\ UNCHANGED <<queueVars, stopVars, response, results, lateCalls, lateTools, hookVars,
                   history, lastCommandFailed, finished, takenVars>>

\* The LLM call throws, or the console does: at a response's content, or at an
\* unknown tool, which loses the results collected so far.
CommandThrows ==
    /\ apc \in {"calling", "write", "tool"}
    /\ rounds' = 0 /\ response' = 0 /\ results' = 0
    /\ apc' = "failed"
    /\ UNCHANGED <<queueVars, stopVars, lateCalls, lateTools, hookVars, history,
                   lastCommandFailed, finished, takenVars>>

\* Faulty variant: the results already there are not counted.
AllCallsUnanswered ==
    LET asks == {i \in 1..Len(history) : history[i].role = "assistant"}
    IN  IF asks = {} THEN 0 ELSE history[CHOOSE i \in asks : \A j \in asks : j <= i].calls

\* AnswerUnansweredToolCalls: as many results as the last assistant message's
\* tool calls still lack.
Unanswered ==
    LET asks == {i \in 1..Len(history) : history[i].role = "assistant"}
        last == CHOOSE i \in asks : \A j \in asks : j <= i
        answers == {i \in last..Len(history) : history[i].role = "tool"}
    IN  IF asks = {} THEN 0 ELSE history[last].calls - Cardinality(answers)

\* Faulty variant: the exception is caught around the loop and ends the thread.
FailureEndsThread ==
    /\ apc = "failed"
    /\ lastCommandFailed' = TRUE
    /\ history' = history \o Repeat(ToolMessage, Unanswered)
    /\ apc' = "hook"
    /\ UNCHANGED <<queueVars, stopVars, roundVars, hookVars, finished, takenVars>>

OnCommandFailed ==
    /\ apc = "failed"
    /\ lastCommandFailed' = TRUE
    /\ history' = history \o Repeat(ToolMessage, Unanswered)
    /\ apc' = AfterCommand
    /\ UNCHANGED <<queueVars, stopVars, roundVars, hookVars, finished, takenVars>>

TakeHook ==
    /\ apc = "hook"
    /\ hook' = IF hook = "set" THEN "taken" ELSE "gone"
    /\ apc' = IF hook = "set" THEN "runHook" ELSE "finish"
    /\ UNCHANGED <<queueVars, stopVars, roundVars, hookRuns, history, lastCommandFailed,
                   finished, takenVars>>

RunHook ==
    /\ apc = "runHook"
    /\ hookRuns' = hookRuns + 1
    /\ apc' = "finish"
    /\ UNCHANGED <<queueVars, stopVars, roundVars, hook, history, lastCommandFailed,
                   finished, takenVars>>

Finish ==
    /\ apc = "finish"
    /\ finished' = TRUE
    /\ apc' = "ended"
    /\ UNCHANGED <<queueVars, stopVars, roundVars, hookVars, history, lastCommandFailed,
                   takenVars>>

-----------------------------------------------------------------------------

AgentStep ==
    \/ TakeCommand \/ QueueClosed \/ TooManyRounds \/ CallLLM
    \/ \E r \in Responses : Responds(r)
    \/ ConsoleWrites \/ PushResponse
    \/ RefuseTool \/ CheckStop \/ StartTool \/ ToolReturns
    \/ ToolClosesAgent \/ SelfCloseReturns \/ PushResults \/ EndRound
    \/ CommandThrows \/ OnCommandFailed
    \/ TakeHook \/ RunHook \/ Finish

StopStep == CloseQueue \/ SignalToken

Callers == TriggerStop \/ SetFinishedHook \/ \E text \in Texts : Post(text)

Next == AgentStep \/ StopStep \/ Callers

Spec == Init /\ [][Next]_agentVars

\* Every LLM call returns (the HTTP client times out) and so does every tool, and
\* a TriggerStop that began is carried through.
Fairness == WF_agentVars(AgentStep) /\ WF_agentVars(StopStep)

FairSpec == Spec /\ Fairness

-----------------------------------------------------------------------------
(* Properties.                                                             *)

Phases == {"pop", "round", "calling", "write", "push", "tools", "runTool", "tool",
           "selfClose", "afterTools", "failed", "hook", "runHook", "finish", "ended"}

TypeOK ==
    /\ queue \in Seq((1..MaxCommands) \X {"text", "empty"})
    /\ closed \in BOOLEAN
    /\ interactive \in Kinds
    /\ posted \in 0..MaxCommands
    /\ stopRequested \in BOOLEAN
    /\ tokenStopped \in BOOLEAN
    /\ apc \in Phases
    /\ rounds \in 0..MaxRounds
    /\ response \in 0..MaxToolCalls
    /\ results \in 0..MaxToolCalls
    /\ history \in Seq([role : {"user", "assistant", "tool"}, calls : 0..MaxToolCalls])
    /\ lastCommandFailed \in BOOLEAN
    /\ finished \in BOOLEAN
    /\ hook \in {"none", "set", "taken", "gone"}
    /\ hookRuns \in Nat
    /\ handled \in Seq(1..MaxCommands)
    /\ lateCommands \in Nat
    /\ lateCalls \in Nat
    /\ lateTools \in Nat

\* One result per tool call, right behind the message that asked for it.
WellFormed(h) ==
    /\ \A i \in 1..Len(h) : \A j \in (i + 1)..(i + h[i].calls) :
          j <= Len(h) /\ h[j].role = "tool"
    /\ \A j \in 1..Len(h) : h[j].role = "tool" =>
          \E i \in 1..(j - 1) : j <= i + h[i].calls

\* Agent.cpp:364-366 and Agent.h:101-106: the conversation sent to the LLM, and
\* the one an ended agent leaves behind, answers every tool call exactly once,
\* whatever was refused, stopped or thrown on the way.
ConversationWellFormed == apc \in {"calling", "ended"} => WellFormed(history)

\* Agent.cpp:158-163: a stop is noticed inside the command in flight: of that one,
\* at most the one tool or the one LLM call its check just let through is begun
\* after it.  The queue still hands out what it holds, and each further command an
\* interactive agent takes begins one more LLM call, and no tool.
StopBoundsWork ==
    /\ lateCalls + lateTools <= 1 + lateCommands
    /\ lateTools <= 1
    /\ ~interactive => lateCalls + lateTools <= 1

\* Agent.cpp:466-470: whoever sees the agent finished finds the work of a hook set
\* before the end done, and no hook runs twice.
HookBeforeFinished ==
    /\ hookRuns <= 1
    /\ finished => hook # "set" /\ (hook = "taken" => hookRuns = 1)

\* Agent.cpp:449-453: a command that fails takes only itself down.  An interactive
\* agent that nobody stops takes every command it was sent, whatever became of
\* those before; what a stop finds in the queue is not promised anything.
CommandsAreTaken ==
    \A n \in 1..MaxCommands :
        (interactive /\ posted >= n) ~>
            (stopRequested \/ \A i \in 1..Len(queue) : queue[i][1] # n)

\* Agent.cpp:444-465: a one-shot agent that has been given something to do
\* finishes by itself, also when it closes itself on the way.
OneShotFinishes ==
    (~interactive /\ \E i \in 1..Len(queue) : queue[i][2] = "text") ~> finished
=============================================================================
