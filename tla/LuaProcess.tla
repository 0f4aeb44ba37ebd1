----------------------------- MODULE LuaProcess -----------------------------
(***************************************************************************)
(* A process whose program is a Lua script (LuaProcess.cpp): how a kill,   *)
(* an exit() or a broken pipe ends the script whatever pcalls and          *)
(* coroutines it is in, what its thread does once the script is over, and  *)
(* the exit code it then reports.                                          *)
(*                                                                         *)
(* The script is any script: at each step its running Lua thread (the main *)
(* one or a coroutine) executes some instruction.  Of the interpreter the  *)
(* model keeps what the code relies on: a hook set on a Lua thread is run  *)
(* before an instruction of that thread, a new coroutine inherits the hook *)
(* of its creator, an error unwinds to the nearest pcall of its thread and *)
(* otherwise to whoever resumed it.  Some code of a script runs with the   *)
(* hooks off: message handlers of an error a hook raises, finalizers, and  *)
(* the __close handlers of a coroutine that died in its hook.  Where it    *)
(* may begin, what it may do and that it need not end is kept; the         *)
(* coroutines such code uses are its own.                                  *)
(***************************************************************************)
EXTENDS Integers, Sequences

CONSTANTS
    Coroutines,     \* the coroutines that can be there at a time
    Main,           \* the script's main Lua thread
    MaxPCalls,      \* how deep pcalls nest in one Lua thread
    HookPeriod,     \* instructions between two runs of the hook (1000 in the code)
    OwnCode,        \* the code the script's exit() asks for
    Closings,       \* whether there are scripts that call coroutine.close on coroutines
                    \* with to-be-closed variables, and scripts that do not
    Unhooked        \* whether there are scripts with code that runs with the hooks off,
                    \* and scripts without

ASSUME ThreadsAssumption == Main \notin Coroutines
ASSUME NumbersAssumption ==
    /\ MaxPCalls \in Nat
    /\ HookPeriod \in Nat \ {0}
    /\ OwnCode \in 0..255
    /\ Closings \subseteq BOOLEAN
    /\ Unhooked \subseteq BOOLEAN

LuaThreads == Coroutines \union {Main}

VARIABLES
    closing,        \* the script closes coroutines
    unhooked,       \* the script has code that runs with the hooks off
    phase,          \* the process's thread: "load", "run", "write" and "tool" (inside
                    \* print and a tool), "failed", "tell" (writing the error line),
                    \* "close", "released", "finished"
    chain,          \* the main Lua thread, the coroutine it resumed, and so on
    life,           \* coroutine -> "none", "suspended", "alive", "dead"
    entered,        \* coroutine -> how it was entered last: "resume", "wrap", "close"
    pcalls,         \* Lua thread -> pcalls it is in
    armed,          \* Lua thread -> its hook runs before every instruction
    count,          \* Lua thread -> instructions since its hook ran
    raising,        \* an error is unwinding
    off,            \* code of the script is running with the hooks off
    killed,         \* m_killed
    stopToken,      \* m_stopToken
    exitRequested,  \* m_exitRequested
    brokenPipe,     \* m_brokenPipe
    ranToEnd,       \* RunThread's ranToEnd
    exitCode,       \* m_exitCode, NoCode while empty
    aborting,       \* history: the script was aborted: a hook raised, or exit() was called
                    \* or print met a broken pipe with the hooks on
    effects,        \* history: parity of the script's effects (lines printed, tools called)
    ending          \* history: what ended the script: "none", "returned", "exit",
                    \* "stopped", "broken", "error"

scriptVars == <<chain, life, entered, pcalls, armed, count, raising, off>>
flagVars == <<killed, stopToken, exitRequested, brokenPipe>>
historyVars == <<aborting, effects, ending>>
vars == <<closing, unhooked, phase, scriptVars, flagVars, ranToEnd, exitCode, historyVars>>

NoCode == -1
CodeBrokenPipe == 141
CodeStopped == 143

Init ==
    /\ closing \in Closings /\ unhooked \in Unhooked
    /\ phase = "load"
    /\ chain = <<Main>>
    /\ life = [c \in Coroutines |-> "none"]
    /\ entered = [c \in Coroutines |-> "resume"]
    /\ pcalls = [t \in LuaThreads |-> 0]
    /\ armed = [t \in LuaThreads |-> FALSE]
    /\ count = [t \in LuaThreads |-> 0]
    /\ raising = FALSE /\ off = FALSE
    /\ killed = FALSE /\ stopToken = FALSE
    /\ exitRequested = FALSE /\ brokenPipe = FALSE
    /\ ranToEnd = FALSE
    /\ exitCode = NoCode
    /\ aborting = FALSE /\ effects = 0 /\ ending = "none"

-----------------------------------------------------------------------------
(* The hook.                                                               *)

Running == chain[Len(chain)]
Resumer == chain[Len(chain) - 1]

\* What KillHookTrampoline asks.
Latched == killed \/ exitRequested

ArmLatchedKillHook(t) == [armed EXCEPT ![t] = TRUE, ![Main] = TRUE]

HookDue == armed[Running] \/ count[Running] = HookPeriod - 1

HookRaises == HookDue /\ Latched

\* Where an error is raised with the hooks off, or the collector may run.
MayRunUnhooked == off' \in {FALSE, unhooked}

\* Faulty variant: the hook raises once, and is not armed for the next instruction.
HookRaisesOnce ==
    /\ phase = "run" /\ ~raising /\ HookRaises
    /\ raising' = TRUE
    /\ MayRunUnhooked
    /\ aborting' = TRUE
    /\ count' = [count EXCEPT ![Running] = 0]
    /\ UNCHANGED <<phase, chain, life, entered, pcalls, armed, flagVars, ranToEnd, exitCode,
                   effects, ending>>

\* The message handler of an xpcall runs inside luaL_error, before the stack unwinds.
KillHook ==
    /\ phase = "run" /\ ~raising /\ HookRaises
    /\ armed' = ArmLatchedKillHook(Running)
    /\ raising' = TRUE
    /\ MayRunUnhooked
    /\ aborting' = TRUE
    /\ UNCHANGED <<phase, chain, life, entered, pcalls, count, flagVars, ranToEnd, exitCode,
                   effects, ending>>

\* The running Lua thread executes an instruction: its hook let it.
Instruction ==
    /\ phase = "run" /\ ~raising /\ ~HookRaises
    /\ count' = [count EXCEPT ![Running] = (@ + 1) % HookPeriod]

-----------------------------------------------------------------------------
(* What the script does.                                                   *)

Compute ==
    /\ Instruction
    /\ UNCHANGED <<phase, chain, life, entered, pcalls, armed, raising, off, flagVars,
                   ranToEnd, exitCode, historyVars>>

Error ==
    /\ Instruction
    /\ raising' = TRUE
    /\ UNCHANGED <<phase, chain, life, entered, pcalls, armed, off, flagVars, ranToEnd,
                   exitCode, historyVars>>

PCall ==
    /\ Instruction
    /\ pcalls[Running] < MaxPCalls
    /\ pcalls' = [pcalls EXCEPT ![Running] = @ + 1]
    /\ UNCHANGED <<phase, chain, life, entered, armed, raising, off, flagVars, ranToEnd,
                   exitCode, historyVars>>

PCallReturns ==
    /\ Instruction
    /\ pcalls[Running] > 0
    /\ pcalls' = [pcalls EXCEPT ![Running] = @ - 1]
    /\ UNCHANGED <<phase, chain, life, entered, armed, raising, off, flagVars, ranToEnd,
                   exitCode, historyVars>>

\* exit() latches, and raises past every pcall because the hook is armed.
Exit ==
    /\ Instruction
    /\ exitRequested' = TRUE
    /\ armed' = ArmLatchedKillHook(Running)
    /\ raising' = TRUE
    /\ MayRunUnhooked
    /\ aborting' = TRUE
    /\ UNCHANGED <<phase, chain, life, entered, pcalls, killed, stopToken, brokenPipe,
                   ranToEnd, exitCode, effects, ending>>

\* coroutine.create and coroutine.wrap: the coroutine has its creator's hook.
Create(c) ==
    /\ phase = "run" /\ ~raising /\ ~HookRaises
    /\ life[c] \in {"none", "dead"}
    /\ life' = [life EXCEPT ![c] = "suspended"]
    /\ pcalls' = [pcalls EXCEPT ![c] = 0]
    /\ armed' = [armed EXCEPT ![c] = armed[Running]]
    /\ count' = [count EXCEPT ![c] = 0, ![Running] = (@ + 1) % HookPeriod]
    /\ UNCHANGED <<phase, chain, entered, raising, off, flagVars, ranToEnd, exitCode,
                   historyVars>>

Enter(c, how) ==
    /\ Instruction
    /\ chain' = Append(chain, c)
    /\ life' = [life EXCEPT ![c] = "alive"]
    /\ entered' = [entered EXCEPT ![c] = how]
    /\ UNCHANGED <<phase, armed, raising, flagVars, ranToEnd, exitCode, historyVars>>

\* coroutine.resume, and a call of what coroutine.wrap returned.
Resume(c) ==
    /\ life[c] = "suspended"
    /\ \E how \in {"resume", "wrap"} : Enter(c, how)
    /\ UNCHANGED <<pcalls, off>>

\* coroutine.close runs the coroutine's __close handlers in it: with the hooks
\* off when the coroutine died in its hook.
CloseCoroutine(c) ==
    /\ closing
    /\ life[c] \in {"suspended", "dead"}
    /\ Enter(c, "close")
    /\ off' \in {FALSE, unhooked /\ life[c] = "dead" /\ Latched}
    /\ pcalls' = [pcalls EXCEPT ![c] = 0]

\* Faulty variant: the wrappers do not arm the thread control comes back to.
ResumerForgotten == armed

\* The wrappers of resume and wrap arm the thread control comes back to.
ResumerArmed ==
    IF Latched /\ entered[Running] # "close"
    THEN ArmLatchedKillHook(Resumer) ELSE armed

ControlBack ==
    /\ chain' = SubSeq(chain, 1, Len(chain) - 1)
    /\ armed' = ResumerArmed
    /\ UNCHANGED <<phase, entered, flagVars, ranToEnd, exitCode, historyVars>>

Yield ==
    /\ Running # Main
    /\ entered[Running] # "close"
    /\ Instruction
    /\ life' = [life EXCEPT ![Running] = "suspended"]
    /\ ControlBack
    /\ UNCHANGED <<pcalls, raising, off>>

CoroutineReturns ==
    /\ Running # Main
    /\ pcalls[Running] = 0
    /\ Instruction
    /\ life' = [life EXCEPT ![Running] = "none"]
    /\ ControlBack
    /\ UNCHANGED <<pcalls, raising, off>>

ScriptReturns ==
    /\ Running = Main
    /\ pcalls[Main] = 0
    /\ Instruction
    /\ phase' = "close"
    /\ ranToEnd' = TRUE
    /\ ending' = "returned"
    /\ UNCHANGED <<chain, life, entered, pcalls, armed, raising, off, flagVars, exitCode,
                   aborting, effects>>

\* print or a tool starts; with its output cut off, print does nothing more.
WriteLine ==
    /\ Instruction
    /\ phase' = IF brokenPipe THEN "run" ELSE "write"
    /\ UNCHANGED <<chain, life, entered, pcalls, armed, raising, off, flagVars, ranToEnd,
                   exitCode, historyVars>>

CallTool ==
    /\ Instruction
    /\ phase' = "tool"
    /\ UNCHANGED <<chain, life, entered, pcalls, armed, raising, off, flagVars, ranToEnd,
                   exitCode, historyVars>>

\* An error reaches the nearest pcall of the thread it was raised in.
Caught ==
    /\ phase = "run" /\ raising
    /\ pcalls[Running] > 0
    /\ pcalls' = [pcalls EXCEPT ![Running] = @ - 1]
    /\ raising' = FALSE
    /\ UNCHANGED <<phase, chain, life, entered, armed, count, off, flagVars, ranToEnd,
                   exitCode, historyVars>>

\* Or ends its coroutine: resume and close hand it back, wrap closes it (with
\* the hooks off when it died in its hook) and raises it again.
CoroutineDies ==
    /\ phase = "run" /\ raising
    /\ Running # Main
    /\ pcalls[Running] = 0
    /\ life' = [life EXCEPT ![Running] = IF @ = "alive" /\ entered[Running] = "resume"
                                         THEN "dead" ELSE "none"]
    /\ raising' = (entered[Running] = "wrap")
    /\ off' \in {FALSE, unhooked /\ Latched /\ entered[Running] = "wrap"}
    /\ ControlBack
    /\ UNCHANGED <<pcalls, count>>

\* Or the script: the top-level pcall returns it.
ScriptFails ==
    /\ phase = "run" /\ raising
    /\ Running = Main
    /\ pcalls[Main] = 0
    /\ phase' = "failed"
    /\ UNCHANGED <<scriptVars, flagVars, ranToEnd, exitCode, historyVars>>

-----------------------------------------------------------------------------
(* Output and tools, which may block.                                      *)

\* LuaProcess::Kill on the process's own thread, or once the flag is seen set.
Kill == killed' = TRUE /\ stopToken' = TRUE

\* The line is out, the tool has done its work.
Effect ==
    /\ phase \in {"write", "tool"}
    /\ phase = "write" => ~brokenPipe
    /\ phase' = "run"
    /\ effects' = 1 - effects
    /\ UNCHANGED <<scriptVars, flagVars, ranToEnd, exitCode, aborting, ending>>

\* A blocked read or write is interrupted by the stop token; what it had to
\* say is dropped.
Interrupted ==
    /\ phase \in {"write", "tool"}
    /\ stopToken
    /\ phase' = "run"
    /\ UNCHANGED <<scriptVars, flagVars, ranToEnd, exitCode, historyVars>>

\* The pipe print writes into has lost its reader.
PrintMeetsBrokenPipe ==
    /\ phase = "write" /\ ~brokenPipe
    /\ phase' = "run"
    /\ brokenPipe' = TRUE
    /\ Kill
    /\ armed' = ArmLatchedKillHook(Running)
    /\ aborting' = TRUE
    /\ UNCHANGED <<chain, life, entered, pcalls, count, raising, off, exitRequested,
                   ranToEnd, exitCode, effects, ending>>

\* The error line ("lua: ...") is out.
Told ==
    /\ phase = "tell"
    /\ phase' = "close"
    /\ ending' = IF killed THEN "stopped" ELSE "error"
    /\ UNCHANGED <<scriptVars, flagVars, ranToEnd, exitCode, aborting, effects>>

\* It is dropped: the write was interrupted.
TellInterrupted == stopToken /\ Told

\* Its pipe has lost its reader.
TellMeetsBrokenPipe ==
    /\ phase = "tell"
    /\ phase' = "close"
    /\ ending' = "broken"
    /\ brokenPipe' = TRUE
    /\ Kill
    /\ UNCHANGED <<scriptVars, exitRequested, ranToEnd, exitCode, aborting, effects>>

-----------------------------------------------------------------------------
(* Code that runs with the hooks off.                                      *)

\* The collector runs finalizers at an instruction that allocates, while print
\* or a tool makes its text, and when the state is closed.
Collect ==
    /\ unhooked /\ ~off
    /\ \/ phase = "run" /\ ~raising /\ ~HookRaises
       \/ phase \in {"write", "tool", "close"}
    /\ off' = TRUE
    /\ UNCHANGED <<phase, chain, life, entered, pcalls, armed, count, raising, flagVars,
                   ranToEnd, exitCode, historyVars>>

\* It prints a line or calls a tool.
UnhookedEffect ==
    /\ off
    /\ effects' = 1 - effects
    /\ UNCHANGED <<phase, scriptVars, flagVars, ranToEnd, exitCode, aborting, ending>>

\* It calls exit(): the latch is set, the error goes no further than this code.
UnhookedExit ==
    /\ off
    /\ exitRequested' = TRUE
    /\ armed' = ArmLatchedKillHook(Running)
    /\ ending' = IF phase = "close" /\ ~brokenPipe THEN "exit" ELSE ending
    /\ UNCHANGED <<phase, chain, life, entered, pcalls, count, raising, off, killed, stopToken,
                   brokenPipe, ranToEnd, exitCode, aborting, effects>>

\* Its print meets a pipe that has lost its reader.
UnhookedBrokenPipe ==
    /\ off /\ ~brokenPipe
    /\ brokenPipe' = TRUE
    /\ Kill
    /\ armed' = ArmLatchedKillHook(Running)
    /\ ending' = IF phase = "close" THEN "broken" ELSE ending
    /\ UNCHANGED <<phase, chain, life, entered, pcalls, count, raising, off, exitRequested,
                   ranToEnd, exitCode, aborting, effects>>

\* It ends; how many instructions it took is not known.
ReturnsToHooked ==
    /\ off
    /\ off' = FALSE
    /\ \E n \in 0..(HookPeriod - 1) : count' = [count EXCEPT ![Running] = n]
    /\ UNCHANGED <<phase, chain, life, entered, pcalls, armed, raising, flagVars, ranToEnd,
                   exitCode, historyVars>>

-----------------------------------------------------------------------------
(* The process's thread around the script.                                 *)

Load ==
    /\ phase = "load"
    /\ phase' \in {"run", "tell"}
    /\ UNCHANGED <<scriptVars, flagVars, ranToEnd, exitCode, historyVars>>

\* What the error was: an exit(), a kill, or the script's own.
Diagnose ==
    /\ phase = "failed"
    /\ phase' = IF Latched THEN "close" ELSE "tell"
    /\ ending' = CASE brokenPipe -> "broken"
                   [] ~brokenPipe /\ exitRequested -> "exit"
                   [] ~brokenPipe /\ ~exitRequested /\ killed -> "stopped"
                   [] OTHER -> ending
    /\ UNCHANGED <<scriptVars, flagVars, ranToEnd, exitCode, aborting, effects>>

ReleaseDescriptors ==
    /\ phase = "close"
    /\ phase' = "released"
    /\ UNCHANGED <<scriptVars, flagVars, ranToEnd, exitCode, historyVars>>

\* Faulty variant: whether the script ran to its end is not asked.
StopAlways ==
    CASE brokenPipe -> CodeBrokenPipe
      [] ~brokenPipe /\ exitRequested -> OwnCode
      [] ~brokenPipe /\ ~exitRequested /\ killed -> CodeStopped
      [] OTHER -> IF ranToEnd THEN 0 ELSE 1

ChosenCode ==
    CASE brokenPipe -> CodeBrokenPipe
      [] ~brokenPipe /\ exitRequested -> OwnCode
      [] ~brokenPipe /\ ~exitRequested /\ killed /\ ~ranToEnd -> CodeStopped
      [] OTHER -> IF ranToEnd THEN 0 ELSE 1

Finish ==
    /\ phase = "released"
    /\ phase' = "finished"
    /\ exitCode' = ChosenCode
    /\ UNCHANGED <<scriptVars, flagVars, ranToEnd, historyVars>>

\* TriggerStop, from any other thread and at any time: the flag ...
KillBegins ==
    /\ ~killed
    /\ killed' = TRUE
    /\ UNCHANGED <<phase, scriptVars, stopToken, exitRequested, brokenPipe, ranToEnd,
                   exitCode, historyVars>>

\* ... and then the token.
KillEnds ==
    /\ killed /\ ~stopToken
    /\ Kill
    /\ UNCHANGED <<phase, scriptVars, exitRequested, brokenPipe, ranToEnd, exitCode,
                   historyVars>>

ScriptStep ==
    \/ KillHook
    \/ Compute \/ Error \/ PCall \/ PCallReturns \/ Exit
    \/ \E c \in Coroutines : Create(c) \/ Resume(c) \/ CloseCoroutine(c)
    \/ Yield \/ CoroutineReturns \/ ScriptReturns
    \/ WriteLine \/ CallTool
    \/ Caught \/ CoroutineDies \/ ScriptFails

ThreadStep ==
    \/ ScriptStep \/ Interrupted \/ TellInterrupted
    \/ Load \/ Diagnose \/ ReleaseDescriptors \/ Finish

Unblocked == Effect \/ PrintMeetsBrokenPipe \/ Told \/ TellMeetsBrokenPipe

UnhookedStep ==
    Collect \/ UnhookedEffect \/ UnhookedExit \/ UnhookedBrokenPipe \/ ReturnsToHooked

HookedStep == ~off /\ ThreadStep

Next ==
    /\ \/ HookedStep
       \/ ~off /\ Unblocked
       \/ UnhookedStep
       \/ KillBegins \/ KillEnds
    /\ UNCHANGED <<closing, unhooked>>

\* The process's thread goes on unless what it reads or writes blocks, and who
\* begins a kill ends it.  Code that runs with the hooks off need not end.
Spec == Init /\ [][Next]_vars
        /\ WF_vars(HookedStep /\ UNCHANGED <<closing, unhooked>>)
        /\ WF_vars(KillEnds /\ UNCHANGED <<closing, unhooked>>)

-----------------------------------------------------------------------------
ScriptTypes ==
    /\ chain \in Seq(LuaThreads) /\ chain # <<>> /\ chain[1] = Main
    /\ life \in [Coroutines -> {"none", "suspended", "alive", "dead"}]
    /\ entered \in [Coroutines -> {"resume", "wrap", "close"}]
    /\ pcalls \in [LuaThreads -> 0..MaxPCalls]
    /\ armed \in [LuaThreads -> BOOLEAN]
    /\ count \in [LuaThreads -> 0..(HookPeriod - 1)]

ProcessTypes ==
    /\ phase \in {"load", "run", "write", "tool", "failed", "tell", "close", "released",
                  "finished"}
    /\ raising \in BOOLEAN
    /\ killed \in BOOLEAN /\ stopToken \in BOOLEAN
    /\ exitRequested \in BOOLEAN /\ brokenPipe \in BOOLEAN /\ ranToEnd \in BOOLEAN
    /\ exitCode \in {NoCode, 0, 1, OwnCode, CodeBrokenPipe, CodeStopped}
    /\ aborting \in BOOLEAN /\ effects \in 0..1
    /\ ending \in {"none", "returned", "exit", "stopped", "broken", "error"}

TypeOK ==
    /\ closing \in BOOLEAN /\ unhooked \in BOOLEAN /\ off \in BOOLEAN
    /\ ScriptTypes /\ ProcessTypes

\* An aborted script (stopped, past its exit(), or cut off by a broken pipe) has
\* no further effect but through code Lua runs with the hooks off: whatever
\* pcalls catch the error, whatever coroutines it crosses and whatever such code
\* ran in between, no line is printed and no tool called, as long as it closes
\* no coroutine.
AbortIsFinal == [][aborting /\ ~closing /\ ~off => effects' = effects]_vars

\* The same of every script, as the comments in ArmLatchedKillHook and exit() have it.
AbortIsAlwaysFinal == [][aborting => effects' = effects]_vars

\* That is because the thread control comes back to is always armed already:
\* ArmLatchedKillHook armed it, or the wrapper it resumed the other one with.
AbortedRunsArmed ==
    aborting /\ phase \in {"run", "write", "tool"} =>
        phase = "run" /\ armed[Running] /\ Latched

\* Once the script is over a kill that arrives later -- while the error line goes
\* out, the state is closed or the descriptors are released -- does not change
\* what its exit code says, but for a script that failed by itself.  An exit() or
\* a broken pipe of a finalizer run by lua_close is taken for the script's own.
CodeTellsEnding ==
    phase = "finished" =>
        /\ ending = "returned" => exitCode = 0
        /\ ending = "exit" => exitCode = OwnCode
        /\ ending = "stopped" => exitCode = CodeStopped
        /\ ending = "broken" => exitCode = CodeBrokenPipe
        /\ ending = "error" => exitCode \in {1, CodeStopped}

\* A script asked to stop ends, whatever it catches and wherever it is blocked,
\* unless code that runs with the hooks off goes on: the hook cannot reach a loop
\* in the message handler of its own error, or in a finalizer.
StopEndsScript == <>[]~off => (killed ~> phase = "finished")
=============================================================================
