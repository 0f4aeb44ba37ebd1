----------------------------- MODULE LLMService -----------------------------
(***************************************************************************)
(* The LLM service (LLMService.cpp): the list of agents it keeps alive,    *)
(* their creation by the OS and by the agent_start tool of other agents,   *)
(* the tools by which a parent looks at the children it started, and the   *)
(* service's destruction while all of that goes on.                        *)
(*                                                                         *)
(* Agents are numbered in the order of their creation; thread 0 is the     *)
(* one that owns the service and starts agent processes.  A conversation   *)
(* is kept only as far as it runs tools (Agent models the rest of it).     *)
(***************************************************************************)
EXTENDS Integers, FiniteSets

CONSTANTS
    MaxDepth,           \* MAX_SUBAGENT_DEPTH
    MaxAgents,          \* bound: agents ever created
    MaxCalls            \* bound: tools an agent runs for one command

ASSUME LLMServiceAssumption ==
    /\ MaxDepth \in Nat
    /\ MaxAgents \in Nat
    /\ MaxCalls \in Nat

Main == 0
Agents == 1..MaxAgents
Threads == {Main} \union Agents

VARIABLES
    agents,             \* m_agents
    service,            \* "up", "stop", "wait", "gone": where ~LLMService is
    taken, toStop,      \* the agents it swapped out, those still to be stopped
    created,            \* how many agents were ever begun to be created
    pc,                 \* where each thread is
    subject,            \* the agent a creation or a wait is about
    parent, children,   \* m_parent (0: none), m_children
    interactive,
    stopRequested,
    prompts,            \* commands in the agent's queue
    calls,              \* tools run for the command at hand
    held,               \* agents a process holds
    named,              \* the children whose names agent_start returned
    missed              \* history: <<parent, child, had it finished>> not found

serviceVars == <<agents, service, taken, toStop, created>>
treeVars == <<parent, children, interactive, held>>
convVars == <<stopRequested, prompts, calls>>
lookVars == <<named, missed>>
llmVars == <<serviceVars, treeVars, convVars, lookVars, pc, subject>>

-----------------------------------------------------------------------------

Finished(a) == pc[a] = "ended"

Ancestry[a \in Threads] == IF a = Main THEN {} ELSE {a} \union Ancestry[parent[a]]

\* GetDepth: the hops up to the top.
Depth(a) == Cardinality(Ancestry[a]) - 1

\* Somebody other than another agent holds a reference to a: the service, its
\* process, a creation under way, a tool at work on it, its own tool call.
Held(a) ==
    \/ a \in agents \union taken \union held
    \/ \E t \in Threads : subject[t] = a
    \/ pc[a] \in {"tool", "making", "made", "kept", "post", "wait"}

\* A child's m_parent is strong, so an agent lives as long as its descendants.
Referenced(a) == \E b \in Agents : Held(b) /\ a \in Ancestry[b]

Init ==
    /\ agents = {} /\ service = "up" /\ taken = {} /\ toStop = {} /\ created = 0
    /\ pc = [t \in Threads |-> IF t = Main THEN "out" ELSE "none"]
    /\ subject = [t \in Threads |-> Main]
    /\ parent = [a \in Agents |-> Main]
    /\ children = [a \in Agents |-> {}]
    /\ interactive = [a \in Agents |-> FALSE]
    /\ stopRequested = [a \in Agents |-> FALSE]
    /\ prompts = [a \in Agents |-> 0]
    /\ calls = [a \in Agents |-> 0]
    /\ held = {}
    /\ named = [a \in Agents |-> {}]
    /\ missed = {}

Go(t, from, to) == pc[t] = from /\ pc' = [pc EXCEPT ![t] = to]

\* Where a creation leads back to: the caller's own code, or the round of the
\* conversation that called the tool.
Home(t) == IF t = Main THEN "out" ELSE "busy"

-----------------------------------------------------------------------------
(* CreateAgent, on the owner's thread or inside agent_start.               *)

\* Faulty variant: one level too many.
AnyDepth(t) == t # Main => Depth(t) <= MaxDepth

MayCreate(t) == t # Main => Depth(t) < MaxDepth

\* agent_start's depth limit, then the first look at m_shuttingDown.
BeginCreate(t) ==
    /\ pc[t] = IF t = Main THEN "out" ELSE "tool"
    /\ created < MaxAgents
    /\ t = Main => service = "up"
    /\ IF service = "up" /\ MayCreate(t)
       THEN pc' = [pc EXCEPT ![t] = "making"] /\ created' = created + 1
       ELSE pc' = [pc EXCEPT ![t] = Home(t)] /\ UNCHANGED created
    /\ UNCHANGED <<agents, service, taken, toStop, treeVars, convVars, lookVars, subject>>

\* Agent::Create: the object and its thread, which waits for a command.
MakeAgent(t) ==
    LET a == CHOOSE b \in Agents : pc[b] = "none" /\ \A c \in 1..(b - 1) : pc[c] # "none" IN
    /\ pc[t] = "making"
    /\ pc' = [pc EXCEPT ![t] = "made", ![a] = "pop"]
    /\ subject' = [subject EXCEPT ![t] = a]
    /\ parent' = [parent EXCEPT ![a] = t]
    /\ \E i \in BOOLEAN : interactive' = [interactive EXCEPT ![a] = i]
    /\ UNCHANGED <<serviceVars, children, held, convVars, lookVars>>

\* Faulty variant: agents that were asked to stop are let go of, finished or not.
StoppedToo == {a \in agents : Finished(a) \/ stopRequested[a]}

\* CleanupFinishedAgents.
Finishing == {a \in agents : Finished(a)}

\* Faulty variant: m_shuttingDown is not looked at again.
KeepAnyway(t) ==
    /\ pc[t] = "made"
    /\ pc' = [pc EXCEPT ![t] = "kept"]
    /\ agents' = (agents \ Finishing) \union {subject[t]}
    /\ UNCHANGED <<service, taken, toStop, created, subject, stopRequested, prompts, calls,
                   treeVars, lookVars>>

\* The second lock: a service that is shutting down drops the new agent.
Keep(t) ==
    /\ pc[t] = "made"
    /\ IF service = "up"
       THEN /\ agents' = (agents \ Finishing) \union {subject[t]}
            /\ pc' = [pc EXCEPT ![t] = "kept"]
            /\ UNCHANGED <<subject, stopRequested>>
       ELSE /\ stopRequested' = [stopRequested EXCEPT ![subject[t]] = TRUE]
            /\ pc' = [pc EXCEPT ![t] = Home(t)]
            /\ subject' = [subject EXCEPT ![t] = Main]
            /\ UNCHANGED agents
    /\ UNCHANGED <<service, taken, toStop, created, prompts, calls, treeVars, lookVars>>

\* The parent's list of children, or the process that takes the agent over.
AddChild(t) ==
    /\ Go(t, "kept", "post")
    /\ IF t = Main
       THEN held' = held \union {subject[t]} /\ UNCHANGED children
       ELSE children' = [children EXCEPT ![t] = @ \union {subject[t]}] /\ UNCHANGED held
    /\ UNCHANGED <<serviceVars, parent, interactive, convVars, lookVars, subject>>

\* The program or the prompt is posted, and agent_start returns the name.
PostPrompt(t) ==
    /\ Go(t, "post", Home(t))
    /\ prompts' = [prompts EXCEPT ![subject[t]] = @ + 1]
    /\ subject' = [subject EXCEPT ![t] = Main]
    /\ named' = IF t = Main THEN named
                ELSE [named EXCEPT ![t] = @ \union {subject[t]}]
    /\ UNCHANGED <<serviceVars, treeVars, stopRequested, calls, missed>>

CreateStep(t) ==
    BeginCreate(t) \/ MakeAgent(t) \/ Keep(t) \/ AddChild(t) \/ PostPrompt(t)

-----------------------------------------------------------------------------
(* The agents.                                                             *)

TakeCommand(a) ==
    /\ prompts[a] > 0
    /\ Go(a, "pop", "busy")
    /\ prompts' = [prompts EXCEPT ![a] = @ - 1]
    /\ calls' = [calls EXCEPT ![a] = 0]
    /\ UNCHANGED <<serviceVars, treeVars, stopRequested, lookVars, subject>>

\* The check for a stop and the start of the tool; a stop may come in between.
CallTool(a) ==
    /\ ~stopRequested[a]
    /\ calls[a] < MaxCalls
    /\ Go(a, "busy", "tool")
    /\ calls' = [calls EXCEPT ![a] = @ + 1]
    /\ UNCHANGED <<serviceVars, treeVars, stopRequested, prompts, lookVars, subject>>

SelfClose(a) ==
    /\ Go(a, "tool", "busy")
    /\ stopRequested' = [stopRequested EXCEPT ![a] = TRUE]
    /\ UNCHANGED <<serviceVars, treeVars, prompts, calls, lookVars, subject>>

\* FindChildByName: weak references to destroyed children yield nothing.
Finds(a, c) == c \in children[a] /\ Referenced(c)

QueryAgent(a) ==
    /\ Go(a, "tool", "busy")
    /\ \E c \in named[a] :
          missed' = IF Finds(a, c) THEN missed ELSE missed \union {<<a, c, Finished(c)>>}
    /\ UNCHANGED <<serviceVars, treeVars, convVars, named, subject>>

WaitForAgent(a) ==
    /\ pc[a] = "tool"
    /\ \E c \in named[a] :
          IF Finds(a, c)
          THEN /\ pc' = [pc EXCEPT ![a] = "wait"]
               /\ subject' = [subject EXCEPT ![a] = c]
               /\ UNCHANGED missed
          ELSE /\ pc' = [pc EXCEPT ![a] = "busy"]
               /\ missed' = missed \union {<<a, c, Finished(c)>>}
               /\ UNCHANGED subject
    /\ UNCHANGED <<serviceVars, treeVars, convVars, named>>

WaitEnds(a) ==
    /\ Go(a, "wait", "busy")
    /\ subject' = [subject EXCEPT ![a] = Main]
    /\ UNCHANGED <<serviceVars, treeVars, convVars, lookVars>>

ChildFinished(a) == Finished(subject[a]) /\ WaitEnds(a)

EndCommand(a) ==
    /\ Go(a, "busy", IF interactive[a] THEN "pop" ELSE "ended")
    /\ UNCHANGED <<serviceVars, treeVars, convVars, lookVars, subject>>

QueueClosed(a) ==
    /\ stopRequested[a]
    /\ prompts[a] = 0
    /\ Go(a, "pop", "ended")
    /\ UNCHANGED <<serviceVars, treeVars, convVars, lookVars, subject>>

ToolStep(a) ==
    \/ SelfClose(a) \/ QueryAgent(a) \/ WaitForAgent(a) \/ ChildFinished(a) \/ CreateStep(a)

AgentStep(a) == TakeCommand(a) \/ CallTool(a) \/ ToolStep(a) \/ EndCommand(a) \/ QueueClosed(a)

\* The process wrapping a is stopped, and released once it has finished.
StopProcess(a) ==
    /\ a \in held
    /\ ~stopRequested[a]
    /\ stopRequested' = [stopRequested EXCEPT ![a] = TRUE]
    /\ UNCHANGED <<serviceVars, treeVars, prompts, calls, lookVars, pc, subject>>

ReleaseProcess(a) ==
    /\ a \in held
    /\ Finished(a)
    /\ held' = held \ {a}
    /\ UNCHANGED <<serviceVars, parent, children, interactive, convVars, lookVars, pc,
                   subject>>

-----------------------------------------------------------------------------
(* ~LLMService.                                                            *)

\* Faulty variant: only the agents without a parent are stopped.
StopTopLevel ==
    /\ service = "up"
    /\ pc[Main] = "out"
    /\ service' = "stop"
    /\ taken' = agents /\ agents' = {}
    /\ toStop' = {a \in agents : parent[a] = Main}
    /\ UNCHANGED <<created, treeVars, convVars, lookVars, pc, subject>>

BeginDestruction ==
    /\ service = "up"
    /\ pc[Main] = "out"
    /\ service' = "stop"
    /\ taken' = agents /\ toStop' = agents /\ agents' = {}
    /\ UNCHANGED <<created, treeVars, convVars, lookVars, pc, subject>>

\* Faulty variant: an agent is stopped only once the one stopped before it is done.
StopInTurn(a) ==
    /\ service = "stop"
    /\ a \in toStop
    /\ \A b \in taken \ toStop : Finished(b)
    /\ toStop' = toStop \ {a}
    /\ stopRequested' = [stopRequested EXCEPT ![a] = TRUE]
    /\ UNCHANGED <<agents, service, taken, created, treeVars, prompts, calls, lookVars, pc,
                   subject>>

StopAgent(a) ==
    /\ service = "stop"
    /\ a \in toStop
    /\ toStop' = toStop \ {a}
    /\ stopRequested' = [stopRequested EXCEPT ![a] = TRUE]
    /\ UNCHANGED <<agents, service, taken, created, treeVars, prompts, calls, lookVars, pc,
                   subject>>

AllStopped ==
    /\ service = "stop"
    /\ toStop = {}
    /\ service' = "wait"
    /\ UNCHANGED <<agents, taken, toStop, created, treeVars, convVars, lookVars, pc, subject>>

\* Each agent is waited for without a limit, then all are released.
EndDestruction ==
    /\ service = "wait"
    /\ \A a \in taken : Finished(a)
    /\ service' = "gone"
    /\ taken' = {}
    /\ UNCHANGED <<agents, toStop, created, treeVars, convVars, lookVars, pc, subject>>

DestructionStep == (\E a \in Agents : StopAgent(a)) \/ AllStopped \/ EndDestruction

-----------------------------------------------------------------------------

Next ==
    \/ CreateStep(Main)
    \/ \E a \in Agents : AgentStep(a) \/ WaitEnds(a) \/ StopProcess(a) \/ ReleaseProcess(a)
    \/ BeginDestruction
    \/ DestructionStep

Spec == Init /\ [][Next]_llmVars

\* Every thread goes on: LLM calls and tools return.  agent_wait_to_finish may be
\* given up (WaitEnds), but its limit is a day, so nothing relies on it; nor does
\* an idle agent get a command.
Fairness ==
    /\ \A a \in Agents : WF_llmVars(AgentStep(a))
    /\ WF_llmVars(CreateStep(Main) /\ pc[Main] # "out")
    /\ WF_llmVars(DestructionStep)

FairSpec == Spec /\ Fairness

-----------------------------------------------------------------------------
(* Properties.                                                             *)

TypeOK ==
    /\ agents \subseteq Agents
    /\ service \in {"up", "stop", "wait", "gone"}
    /\ taken \subseteq Agents
    /\ toStop \subseteq taken
    /\ created \in 0..MaxAgents
    /\ pc \in [Threads -> {"out", "none", "pop", "busy", "tool", "making", "made", "kept",
                           "post", "wait", "ended"}]
    /\ subject \in [Threads -> Threads]
    /\ parent \in [Agents -> Threads]
    /\ children \in [Agents -> SUBSET Agents]
    /\ interactive \in [Agents -> BOOLEAN]
    /\ stopRequested \in [Agents -> BOOLEAN]
    /\ prompts \in [Agents -> 0..1]
    /\ calls \in [Agents -> 0..MaxCalls]
    /\ held \subseteq Agents
    /\ named \in [Agents -> SUBSET Agents]
    /\ missed \subseteq Agents \X Agents \X BOOLEAN
    /\ \A a \in Agents : Depth(a) \in 0..MaxDepth

\* LLMService.cpp:44-58: once the service is gone no agent is, or will be, inside
\* a tool that uses it: none is at work, and none that waits has work left.
ServiceOutlivesItsUse ==
    service = "gone" =>
        \A a \in Agents : pc[a] \in {"none", "ended"} \/ (pc[a] = "pop" /\ prompts[a] = 0)

\* agent_query and agent_wait_to_finish know every child that is still running by
\* the name agent_start returned.
RunningChildIsFound == \A m \in missed : m[3]

\* LLMService.cpp:44-91: of the agents that may still use it, or be used, the
\* service lets go of none, while it lives and when it ends.
ServiceKeepsItsAgents == TypeOK /\ ServiceOutlivesItsUse /\ RunningChildIsFound

\* Nothing for a to do, or nothing it could do without another agent.
AgentWaits(a) ==
    \/ pc[a] \in {"none", "ended"}
    \/ pc[a] = "pop" /\ prompts[a] = 0 /\ ~stopRequested[a]
    \/ pc[a] = "wait" /\ ~Finished(subject[a])

DestructorWaits == service = "wait" /\ \E a \in taken : ~Finished(a)

\* LLMService.cpp:69-83: while the destructor waits, some agent it waits for can go
\* on: agents that wait for their children never wait in a circle, nor for an agent
\* that nobody has stopped.
DestructionGoesOn == DestructorWaits => \E a \in taken : ~AgentWaits(a)

\* LLMService.cpp:44-91: both, so that nothing is dropped while it is in use and the
\* drop is not held up for ever.
ServiceIsSafe == ServiceKeepsItsAgents /\ DestructionGoesOn

\* The destruction comes to an end without a wait of agent_wait_to_finish being
\* given up: a parent waiting for its child is released by the child's own stop.
DestructionEnds == service = "stop" ~> service = "gone"
=============================================================================
