------------------------------ MODULE HaisosOS ------------------------------
(***************************************************************************)
(* An OS and the processes it runs: starting a process (HaisosOS.cpp), who *)
(* holds references to the OS and to a process, on which thread the last   *)
(* of them is let go, and how the OS and its processes are then stopped    *)
(* and destroyed (DestroyOffRuntimeThreads.h) while the haisos program     *)
(* (main.cpp) ends.                                                        *)
(*                                                                         *)
(* A process here is a Lua or a builtin one: its destructor stops its      *)
(* thread and joins it.  (An agent's process leaves that to the agent,     *)
(* see module Agent.)  What its program does is any sequence of the calls  *)
(* that take or let go of references: os_* tools, and hsh's children.      *)
(***************************************************************************)
EXTENDS Integers, FiniteSets

CONSTANTS
    Procs,          \* the processes that can ever be started
    OS,             \* the OS, as an object
    Main,           \* the thread of main()
    Destruction,    \* the destruction thread
    MaxProcesses,   \* MAX_CONCURRENT_PROCESSES (1024 in the code)
    MaxDrainPasses, \* MAX_DRAIN_PASSES (8 in the code)
    NoProcess

Threads == Procs \union {Main}      \* a process's thread has the name of the process
Objects == Procs \union {OS}

ASSUME NamesAssumption ==
    /\ OS \notin Procs /\ Main \notin Procs /\ Destruction \notin Threads
    /\ NoProcess \notin Procs
ASSUME LimitsAssumption == MaxProcesses \in Nat \ {0} /\ MaxDrainPasses \in Nat \ {0, 1}
ASSUME FiniteAssumption == IsFiniteSet(Procs)

VARIABLES
    mainAt,         \* main(): "start" (the RUN entries), "release", "exiting" (static
                    \* destructors), "ended"
    life,           \* process -> its thread: "none", "running", "over"
    stop,           \* process -> it was asked to stop
    object,         \* object -> "none", "alive", "handed" (to the destruction thread),
                    \* "dying" (its destructor runs), "gone"
    destroyer,      \* object -> the thread its destructor runs on
    table,          \* m_processes
    holds,          \* thread -> the processes it holds a reference to
    door,           \* thread -> it holds a reference to the OS
    step,           \* thread -> where it is in StartProcess: "none", "checked", "created"
    started,        \* thread -> the process StartProcess has just created
    drained,        \* ~HaisosOS: the processes taken out of m_processes by this pass
    asked,          \* ~HaisosOS: those asked to stop so far
    awaited,        \* ~HaisosOS: the one waited for
    pass,           \* ~HaisosOS: the passes begun
    pending,        \* m_pending of the destruction thread
    destruction     \* the destruction thread: "unborn", "open", "ended"

startVars == <<step, started>>
drainVars == <<drained, asked, awaited, pass>>
objectVars == <<object, destroyer, pending, destruction>>
vars == <<mainAt, life, stop, objectVars, table, holds, door, startVars, drainVars>>

Init ==
    /\ mainAt = "start"
    /\ life = [p \in Procs |-> "none"]
    /\ stop = [p \in Procs |-> FALSE]
    /\ object = [o \in Objects |-> IF o = OS THEN "alive" ELSE "none"]
    /\ destroyer = [o \in Objects |-> Main]
    /\ table = {}
    /\ holds = [t \in Threads |-> {}]
    /\ door = [t \in Threads |-> t = Main]
    /\ step = [t \in Threads |-> "none"]
    /\ started = [t \in Threads |-> NoProcess]
    /\ drained = {} /\ asked = {} /\ awaited = NoProcess /\ pass = 0
    /\ pending = {}
    /\ destruction = "unborn"

-----------------------------------------------------------------------------
(* References.                                                             *)

\* RuntimeThreadScope marks the threads programs run on.
IsRuntime(t) == t \in Procs

\* What some shared_ptr keeps alive.
Referenced ==
    {o \in Objects :
        \/ o \in table \union drained
        \/ \E t \in Threads : o \in holds[t] \/ o = started[t] \/ (o = OS /\ door[t])}

\* Faulty variant: no deleter: every object is destroyed where it is let go.
LetGoOnTheSpot(t) ==
    LET last == {o \in Objects : object[o] = "alive" /\ o \notin Referenced'}
    IN  /\ object' = [o \in Objects |-> IF o \in last THEN "dying" ELSE object[o]]
        /\ destroyer' = [o \in Objects |-> IF o \in last THEN t ELSE destroyer[o]]
        /\ UNCHANGED <<pending, destruction>>

\* The deleter of what t has let go of last: on a runtime thread the object is
\* handed over (which starts the destruction thread), elsewhere its destructor runs.
LetGo(t) ==
    LET last == {o \in Objects : object[o] = "alive" /\ o \notin Referenced'}
    IN  IF IsRuntime(t)
        THEN /\ object' = [o \in Objects |-> IF o \in last THEN "handed" ELSE object[o]]
             /\ pending' = pending \union last
             /\ destruction' = IF last # {} /\ destruction = "unborn" THEN "open"
                               ELSE destruction
             /\ UNCHANGED destroyer
        ELSE /\ object' = [o \in Objects |-> IF o \in last THEN "dying" ELSE object[o]]
             /\ destroyer' = [o \in Objects |-> IF o \in last THEN t ELSE destroyer[o]]
             /\ UNCHANGED <<pending, destruction>>

\* Destructors run on t.
Busy(t) == \E o \in Objects : object[o] = "dying" /\ destroyer[o] = t

\* t is running its program, main's RUN entries among them.
Runs(t) == ~Busy(t) /\ IF t = Main THEN mainAt = "start" ELSE life[t] = "running"

\* Faulty variant: an OS that is gone can be reached as well.
EnterAlways(t) ==
    /\ IsRuntime(t) /\ Runs(t) /\ ~door[t]
    /\ door' = [door EXCEPT ![t] = TRUE]
    /\ \E self \in SUBSET ({t} \intersect Referenced) :
           holds' = [holds EXCEPT ![t] = @ \union self]

\* A call begins: the OS, and for a tool the calling process, are locked.
Enter(t) ==
    /\ IsRuntime(t) /\ Runs(t) /\ ~door[t]
    /\ OS \in Referenced
    /\ door' = [door EXCEPT ![t] = TRUE]
    /\ \E self \in SUBSET ({t} \intersect Referenced) :
           holds' = [holds EXCEPT ![t] = @ \union self]

EnterCall(t) ==
    /\ Enter(t)
    /\ UNCHANGED <<mainAt, life, stop, objectVars, table, startVars, drainVars>>

\* GetRunningProcesses hands out a snapshot.
GetRunningProcesses(t) ==
    /\ IsRuntime(t) /\ Runs(t) /\ door[t] /\ step[t] = "none"
    /\ ~(table \subseteq holds[t])
    /\ holds' = [holds EXCEPT ![t] = @ \union table]
    /\ UNCHANGED <<mainAt, life, stop, objectVars, table, door, startVars, drainVars>>

\* t may let go: in a program at any time, in main once it has waited.
LettingGo(t) == ~Busy(t) /\ IF t = Main THEN mainAt = "release" ELSE life[t] = "running"

LetGoOfProcess(t, p) ==
    /\ LettingGo(t)
    /\ p \in holds[t]
    /\ holds' = [holds EXCEPT ![t] = @ \ {p}]
    /\ UNCHANGED <<table, door, startVars, drainVars>>
    /\ LetGo(t)
    /\ UNCHANGED <<mainAt, life, stop>>

LetGoOfOS(t) ==
    /\ LettingGo(t)
    /\ door[t] /\ step[t] = "none"
    /\ t = Main => holds[Main] = {}
    /\ door' = [door EXCEPT ![t] = FALSE]
    /\ UNCHANGED <<table, holds, startVars, drainVars>>
    /\ LetGo(t)
    /\ UNCHANGED <<mainAt, life, stop>>

-----------------------------------------------------------------------------
(* StartProcess, on thread t.                                              *)

\* CleanupFinishedProcesses leaves these.
Unfinished == {p \in table : life[p] # "over"}

ShuttingDown == object[OS] \in {"dying", "gone"}

CheckLimit(t) ==
    /\ Runs(t) /\ door[t] /\ step[t] = "none"
    /\ ~ShuttingDown
    /\ table' = Unfinished
    /\ step' = [step EXCEPT ![t] = IF Cardinality(Unfinished) < MaxProcesses
                                   THEN "checked" ELSE "none"]
    /\ UNCHANGED <<holds, door, started, drainVars>>
    /\ LetGo(t)
    /\ UNCHANGED <<mainAt, life, stop>>

\* There is no such program, or its process could not be created.
StartFails(t) ==
    /\ Runs(t) /\ step[t] = "checked"
    /\ step' = [step EXCEPT ![t] = "none"]
    /\ UNCHANGED <<mainAt, life, stop, objectVars, table, holds, door, started, drainVars>>

\* The process's thread starts with it.
Create(t, p) ==
    /\ Runs(t) /\ step[t] = "checked"
    /\ object[p] = "none"
    /\ object' = [object EXCEPT ![p] = "alive"]
    /\ life' = [life EXCEPT ![p] = "running"]
    /\ started' = [started EXCEPT ![t] = p]
    /\ step' = [step EXCEPT ![t] = "created"]
    /\ UNCHANGED <<mainAt, stop, destroyer, pending, destruction, table, holds, door, drainVars>>

\* Faulty variant: the new process is returned, and never tracked.
Untracked(t) == Unfinished

\* m_processes after the push_back.
Tracked(t) == Unfinished \union {started[t]}

Push(t) ==
    /\ Runs(t) /\ step[t] = "created"
    /\ table' = Tracked(t)
    /\ holds' = [holds EXCEPT ![t] = @ \union {started[t]}]
    /\ started' = [started EXCEPT ![t] = NoProcess]
    /\ step' = [step EXCEPT ![t] = "none"]
    /\ UNCHANGED <<door, drainVars>>
    /\ LetGo(t)
    /\ UNCHANGED <<mainAt, life, stop>>

StartProcess(t) ==
    CheckLimit(t) \/ StartFails(t) \/ (\E p \in Procs : Create(t, p)) \/ Push(t)

-----------------------------------------------------------------------------
(* A process: what others do to it, and its end.                           *)

\* Faulty variant: nobody asks.
WaitOnly(p) == UNCHANGED stop

\* IProcess::TriggerStop.
AskToStop(p) == stop' = [stop EXCEPT ![p] = TRUE]

\* hsh passes a stop on to its children.
TriggerStop(t, p) ==
    /\ IsRuntime(t) /\ Runs(t)
    /\ p \in holds[t] \ {t} /\ ~stop[p]
    /\ AskToStop(p)
    /\ UNCHANGED <<mainAt, life, objectVars, table, holds, door, startVars, drainVars>>

\* The program is over and its thread returns.
Finish(p) ==
    /\ Runs(p) /\ holds[p] = {} /\ ~door[p] /\ step[p] = "none"
    /\ life' = [life EXCEPT ![p] = "over"]
    /\ UNCHANGED <<mainAt, stop, objectVars, table, holds, door, startVars, drainVars>>

\* Faulty variant: the destructor does not wait.
DestroyAtOnce(p) == object[p] = "dying" /\ stop[p]

\* The destructor has joined the process's thread.
Joined(p) == object[p] = "dying" /\ stop[p] /\ life[p] = "over"

\* ~LuaProcess and ~BuiltinProcess: stop the program, ...
StopDying(p) ==
    /\ object[p] = "dying" /\ ~stop[p]
    /\ AskToStop(p)
    /\ UNCHANGED <<mainAt, life, objectVars, table, holds, door, startVars, drainVars>>

\* ... and join its thread.
JoinDying(p) ==
    /\ Joined(p)
    /\ object' = [object EXCEPT ![p] = "gone"]
    /\ UNCHANGED <<mainAt, life, stop, destroyer, pending, destruction, table, holds, door,
                   startVars, drainVars>>

-----------------------------------------------------------------------------
(* ~HaisosOS.                                                              *)

\* Its thread is not in the destructor of a process it has let go of.
DestroysOS ==
    /\ object[OS] = "dying"
    /\ \A p \in Procs : ~(object[p] = "dying" /\ destroyer[p] = destroyer[OS])

\* A pass begins, and is the last one when it finds no process.
SwapTable ==
    /\ DestroysOS /\ drained = {} /\ pass < MaxDrainPasses
    /\ drained' = table /\ table' = {}
    /\ pass' = pass + 1
    /\ object' = [object EXCEPT ![OS] = IF table = {} THEN "gone" ELSE "dying"]
    /\ UNCHANGED <<mainAt, life, stop, destroyer, pending, destruction, holds, door, startVars,
                   asked, awaited>>

DrainProcess(p) ==
    /\ DestroysOS /\ awaited = NoProcess
    /\ p \in drained \ asked
    /\ AskToStop(p)
    /\ asked' = asked \union {p}
    /\ awaited' = p
    /\ UNCHANGED <<mainAt, life, objectVars, table, holds, door, startVars, drained, pass>>

\* The wait is over: the process has finished, or five seconds have passed.
DrainedOrTimedOut ==
    /\ DestroysOS /\ awaited # NoProcess
    /\ awaited' = NoProcess
    /\ UNCHANGED <<mainAt, life, stop, objectVars, table, holds, door, startVars, drained, asked,
                   pass>>

\* The pass ends, and lets go of its processes.
LetGoOfDrained(p) ==
    /\ DestroysOS /\ awaited = NoProcess
    /\ p \in drained /\ asked = drained
    /\ drained' = drained \ {p}
    /\ asked' = asked \ {p}
    /\ UNCHANGED <<table, holds, door, startVars, awaited, pass>>
    /\ LetGo(destroyer[OS])
    /\ UNCHANGED <<mainAt, life, stop>>

DestructorStep ==
    \/ SwapTable \/ DrainedOrTimedOut
    \/ \E p \in Procs :
           StopDying(p) \/ JoinDying(p) \/ DrainProcess(p) \/ LetGoOfDrained(p)

-----------------------------------------------------------------------------
(* The destruction thread, and the end of main.                            *)

TakePending(o) ==
    /\ destruction = "open" /\ ~Busy(Destruction)
    /\ o \in pending
    /\ pending' = pending \ {o}
    /\ object' = [object EXCEPT ![o] = "dying"]
    /\ destroyer' = [destroyer EXCEPT ![o] = Destruction]
    /\ UNCHANGED <<mainAt, life, stop, destruction, table, holds, door, startVars, drainVars>>

\* A thread told to close leaves when there is nothing left to destroy.
Emptied == ~Busy(Destruction) /\ pending = {}

DestructionEnds ==
    /\ destruction = "open" /\ mainAt = "exiting"
    /\ Emptied
    /\ destruction' = "ended"
    /\ UNCHANGED <<mainAt, life, stop, object, destroyer, pending, table, holds, door, startVars,
                   drainVars>>

\* main has waited for the processes of its RUN entries, or for a day.
WaitedForRuns ==
    /\ mainAt = "start" /\ ~Busy(Main) /\ step[Main] = "none"
    /\ mainAt' = "release"
    /\ UNCHANGED <<life, stop, objectVars, table, holds, door, startVars, drainVars>>

\* Its locals are gone, and with them its references.
Return ==
    /\ mainAt = "release" /\ ~Busy(Main)
    /\ ~door[Main] /\ holds[Main] = {}
    /\ mainAt' = "exiting"
    /\ UNCHANGED <<life, stop, objectVars, table, holds, door, startVars, drainVars>>

\* The last static destructor has run, ~DestructionThread among them.
Exit ==
    /\ mainAt = "exiting" /\ destruction # "open"
    /\ mainAt' = "ended"
    /\ UNCHANGED <<life, stop, objectVars, table, holds, door, startVars, drainVars>>

ProgramStep(t) ==
    \/ EnterCall(t) \/ GetRunningProcesses(t)
    \/ StartProcess(t)
    \/ LetGoOfOS(t)
    \/ \E p \in Procs : LetGoOfProcess(t, p) \/ TriggerStop(t, p)

MainStep == WaitedForRuns \/ Return \/ Exit

DestructionStep == DestructionEnds \/ \E o \in Objects : TakePending(o)

Next ==
    /\ mainAt # "ended"
    /\ \/ \E t \in Threads : ProgramStep(t)
       \/ \E p \in Procs : Finish(p)
       \/ DestructorStep
       \/ DestructionStep
       \/ MainStep

MainLetsGo ==
    mainAt # "ended" /\ (LetGoOfOS(Main) \/ \E p \in Procs : LetGoOfProcess(Main, p))

\* The threads that destroy and main go on.  Programs need not do anything, nor end
\* when they are asked to.
Spec ==
    /\ Init /\ [][Next]_vars
    /\ WF_vars(mainAt # "ended" /\ DestructorStep)
    /\ WF_vars(mainAt # "ended" /\ DestructionStep)
    /\ WF_vars(MainStep) /\ WF_vars(MainLetsGo)

-----------------------------------------------------------------------------
TypeOK ==
    /\ mainAt \in {"start", "release", "exiting", "ended"}
    /\ life \in [Procs -> {"none", "running", "over"}]
    /\ stop \in [Procs -> BOOLEAN]
    /\ object \in [Objects -> {"none", "alive", "handed", "dying", "gone"}]
    /\ destroyer \in [Objects -> Threads \union {Destruction}]
    /\ table \subseteq Procs
    /\ holds \in [Threads -> SUBSET Procs]
    /\ door \in [Threads -> BOOLEAN]
    /\ step \in [Threads -> {"none", "checked", "created"}]
    /\ started \in [Threads -> Procs \union {NoProcess}]
    /\ drained \subseteq Procs /\ asked \subseteq drained
    /\ awaited \in asked \union {NoProcess}
    /\ pass \in 0..MaxDrainPasses
    /\ pending \subseteq Objects
    /\ destruction \in {"unborn", "open", "ended"}

\* Nothing whose destructor waits for a runtime thread is destroyed on one
\* (DestroyOffRuntimeThreads.h), so no thread ever waits for itself.
DestroyedOffRuntimeThreads ==
    \A o \in Objects : object[o] = "dying" => ~IsRuntime(destroyer[o])

\* What is used is there: the process its own thread runs in, and whatever a
\* reference leads to.
NoUseAfterDestruction ==
    /\ \A p \in Procs : life[p] = "running" => object[p] # "gone"
    /\ \A o \in Objects : o \in Referenced => object[o] = "alive"

\* No process starts once the OS is being destroyed: whoever starts one holds it.
NoStartAfterShutdown ==
    [][object[OS] # "alive" => \A p \in Procs : life[p] = "none" => life'[p] = "none"]_vars

\* ... so the second pass of ~HaisosOS finds no process, and is the last one.
SecondPassFindsNothing == pass > 0 => table = {}

\* An OS that is gone has asked every process it ever started to stop.
GoneOSStoppedItsProcesses ==
    object[OS] = "gone" => \A p \in Procs : life[p] = "running" => stop[p]

\* The destructor of p waits for a program that was asked to stop and could go on.
WaitsForStopped(p) == object[p] = "dying" /\ stop[p] /\ Runs(p)

\* main, once it has waited, comes to its end (~BuiltinProcess, ~LuaProcess, ~HaisosOS,
\* ~DestructionThread): the only thing that can keep it is one program that was asked
\* to stop and never ends, on a thread that is free to.
ProgramEnds ==
    \/ mainAt = "release" ~> mainAt = "ended"
    \/ \E p \in Procs : <>[]WaitsForStopped(p)
=============================================================================
