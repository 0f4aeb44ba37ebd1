-------------------------- MODULE LuaProcessProofs --------------------------
(***************************************************************************)
(* Proofs about LuaProcess, for any number of coroutines, any depth of     *)
(* pcalls and any period of the hook.                                      *)
(***************************************************************************)
EXTENDS LuaProcess, TLAPS

LEMMA RunningIsAThread ==
    ASSUME ScriptTypes
    PROVE  /\ Running \in LuaThreads
           /\ Len(chain) \in Nat \ {0}
           /\ Running # Main => /\ Running \in Coroutines
                                /\ Len(chain) - 1 \in 1..Len(chain)
                                /\ Resumer \in LuaThreads
  BY ThreadsAssumption DEF ScriptTypes, Running, Resumer, LuaThreads

\* Control given back leaves the rest of the chain, which ends in the resumer.
LEMMA PoppedChain ==
    ASSUME ScriptTypes, Running # Main, ControlBack
    PROVE  /\ chain' \in Seq(LuaThreads) /\ chain' # <<>> /\ chain'[1] = Main
           /\ Running' = Resumer
  <1>1. PICK n \in 1..Len(chain) : n = Len(chain) - 1
    BY RunningIsAThread
  <1>2. /\ chain' = SubSeq(chain, 1, n)
        /\ chain \in Seq(LuaThreads) /\ chain[1] = Main
    BY <1>1 DEF ControlBack, ScriptTypes
  <1>3. Resumer = chain[n]
    BY <1>1 DEF Resumer
  <1>4. /\ Len(chain') = n
        /\ \A i \in 1..n : chain'[i] = chain[i]
        /\ chain' \in Seq(LuaThreads)
    BY <1>1, <1>2
  <1>5. chain' # <<>> /\ chain'[1] = Main
    <2>1. n \in Nat /\ n > 0 /\ 1 \in 1..n
      BY <1>1, <1>2
    <2>2. chain' # <<>>
      BY <2>1, <1>4
    <2>3. chain'[1] = Main
      BY <2>1, <1>2, <1>4
    <2> QED
      BY <2>2, <2>3
  <1>6. Running' = chain[n]
    BY <1>1, <1>4 DEF Running
  <1> QED
    BY <1>3, <1>4, <1>5, <1>6

\* A coroutine entered is the running thread.
LEMMA PushedChain ==
    ASSUME ScriptTypes, NEW c \in Coroutines, chain' = Append(chain, c)
    PROVE  /\ chain' \in Seq(LuaThreads) /\ chain' # <<>> /\ chain'[1] = Main
           /\ Running' = c
  <1>1. /\ chain \in Seq(LuaThreads) /\ chain # <<>> /\ chain[1] = Main
        /\ c \in LuaThreads
    BY DEF ScriptTypes, LuaThreads
  <1>2. /\ Len(chain') = Len(chain) + 1
        /\ chain' \in Seq(LuaThreads)
        /\ chain'[Len(chain) + 1] = c
        /\ chain'[1] = chain[1]
    BY <1>1
  <1> QED
    BY <1>1, <1>2 DEF Running

LEMMA CountTypes ==
    ASSUME ScriptTypes
    PROVE  \A t \in LuaThreads :
              [count EXCEPT ![t] = (@ + 1) % HookPeriod] \in [LuaThreads -> 0..(HookPeriod - 1)]
  <1>1. \A n \in 0..(HookPeriod - 1) : (n + 1) % HookPeriod \in 0..(HookPeriod - 1)
    BY NumbersAssumption
  <1>2. count \in [LuaThreads -> 0..(HookPeriod - 1)]
    BY DEF ScriptTypes
  <1> QED
    BY <1>1, <1>2

LEMMA ArmedTypes ==
    ASSUME ScriptTypes
    PROVE  \A t \in LuaThreads :
              /\ ArmLatchedKillHook(t) \in [LuaThreads -> BOOLEAN]
              /\ ArmLatchedKillHook(t)[t] /\ ArmLatchedKillHook(t)[Main]
  BY DEF ArmLatchedKillHook, ScriptTypes, LuaThreads

LEMMA ResumerArmedTypes ==
    ASSUME ScriptTypes, Running # Main
    PROVE  ResumerArmed \in [LuaThreads -> BOOLEAN]
  <1>1. armed \in [LuaThreads -> BOOLEAN] /\ Resumer \in LuaThreads
    BY RunningIsAThread DEF ScriptTypes
  <1> QED
    BY <1>1, ArmedTypes DEF ResumerArmed

LEMMA TypeInitially == Init => TypeOK
  <1> SUFFICES ASSUME Init PROVE TypeOK
    OBVIOUS
  <1>1. chain \in Seq(LuaThreads) /\ chain # <<>> /\ chain[1] = Main
    BY DEF Init, LuaThreads
  <1>2. /\ pcalls \in [LuaThreads -> 0..MaxPCalls]
        /\ count \in [LuaThreads -> 0..(HookPeriod - 1)]
    BY NumbersAssumption DEF Init
  <1>3. ScriptTypes
    BY <1>1, <1>2 DEF Init, ScriptTypes
  <1>4. ProcessTypes
    <2>1. /\ phase = "load" /\ exitCode = NoCode /\ effects \in 0..1 /\ ending = "none"
          /\ raising = FALSE /\ killed = FALSE /\ stopToken = FALSE /\ exitRequested = FALSE
          /\ brokenPipe = FALSE /\ ranToEnd = FALSE /\ aborting = FALSE
      BY DEF Init
    <2> QED
      BY <2>1, Zenon DEF ProcessTypes
  <1>5. closing \in BOOLEAN /\ unhooked \in BOOLEAN /\ off \in BOOLEAN
    BY NumbersAssumption DEF Init
  <1> QED
    BY <1>3, <1>4, <1>5 DEF TypeOK

LEMMA ScriptTypesStep == TypeOK /\ [Next]_vars => ScriptTypes'
  <1> SUFFICES ASSUME ScriptTypes, [Next]_vars PROVE ScriptTypes'
    BY DEF TypeOK
  <1>run. Running \in LuaThreads
    BY RunningIsAThread
  <1>arm. /\ ArmLatchedKillHook(Running) \in [LuaThreads -> BOOLEAN]
    BY <1>run, ArmedTypes
  <1>ins. ASSUME Instruction
          PROVE  count' \in [LuaThreads -> 0..(HookPeriod - 1)]
    BY <1>ins, <1>run, CountTypes DEF Instruction
  <1>1. CASE KillHook
    BY <1>1, <1>arm DEF KillHook, ScriptTypes
  <1>2. CASE Compute \/ Error \/ ScriptReturns \/ WriteLine \/ CallTool
    <2>1. /\ Instruction
          /\ UNCHANGED <<chain, life, entered, pcalls, armed>>
      BY <1>2 DEF Compute, Error, ScriptReturns, WriteLine, CallTool
    <2> QED
      BY <2>1, <1>ins DEF ScriptTypes
  <1>3. CASE PCall \/ PCallReturns \/ Caught
    <2>1. pcalls' \in [LuaThreads -> 0..MaxPCalls]
      <3>1. pcalls \in [LuaThreads -> 0..MaxPCalls]
        BY DEF ScriptTypes
      <3> QED
        BY <1>3, <1>run, <3>1, NumbersAssumption DEF PCall, PCallReturns, Caught
    <2>2. /\ Instruction \/ UNCHANGED count
          /\ UNCHANGED <<chain, life, entered, armed>>
      BY <1>3 DEF PCall, PCallReturns, Caught
    <2> QED
      BY <2>1, <2>2, <1>ins DEF ScriptTypes
  <1>4. CASE Exit
    BY <1>4, <1>arm, <1>ins DEF Exit, ScriptTypes
  <1>5. ASSUME NEW c \in Coroutines, Create(c) PROVE ScriptTypes'
    <2> DEFINE later == [count EXCEPT ![Running] = (@ + 1) % HookPeriod]
    <2>1. later \in [LuaThreads -> 0..(HookPeriod - 1)]
      BY <1>run, CountTypes
    <2>2. c \in LuaThreads /\ c # Running => count' = [later EXCEPT ![c] = 0]
      BY <1>5, <1>run DEF Create, ScriptTypes, LuaThreads
    <2>3. c = Running => count' \in [LuaThreads -> 0..(HookPeriod - 1)]
      <3>1. \A n \in 0..(HookPeriod - 1) : (n + 1) % HookPeriod \in 0..(HookPeriod - 1)
        BY NumbersAssumption
      <3>2. count \in [LuaThreads -> 0..(HookPeriod - 1)] /\ 0 \in 0..(HookPeriod - 1)
        BY NumbersAssumption DEF ScriptTypes
      <3> QED
        BY <1>5, <1>run, <3>1, <3>2 DEF Create
    <2>4. count' \in [LuaThreads -> 0..(HookPeriod - 1)]
      <3>1. 0 \in 0..(HookPeriod - 1)
        BY NumbersAssumption
      <3> HIDE DEF later
      <3> QED
        BY <2>1, <2>2, <2>3, <3>1 DEF LuaThreads
    <2>5. /\ pcalls' \in [LuaThreads -> 0..MaxPCalls]
          /\ armed' \in [LuaThreads -> BOOLEAN]
      <3>1. c \in LuaThreads /\ armed[Running] \in BOOLEAN /\ 0 \in 0..MaxPCalls
        BY <1>run, NumbersAssumption DEF ScriptTypes, LuaThreads
      <3> QED
        BY <1>5, <3>1 DEF Create, ScriptTypes
    <2>6. life' \in [Coroutines -> {"none", "suspended", "alive", "dead"}]
      BY <1>5 DEF Create, ScriptTypes
    <2> QED
      BY <1>5, <2>4, <2>5, <2>6 DEF Create, ScriptTypes
  <1>6. ASSUME NEW c \in Coroutines, Resume(c) \/ CloseCoroutine(c) PROVE ScriptTypes'
    <2>1. PICK how \in {"resume", "wrap", "close"} : Enter(c, how)
      BY <1>6 DEF Resume, CloseCoroutine
    <2>2. chain' \in Seq(LuaThreads) /\ chain' # <<>> /\ chain'[1] = Main
      BY <2>1, PushedChain DEF Enter
    <2>3. /\ life' \in [Coroutines -> {"none", "suspended", "alive", "dead"}]
          /\ entered' \in [Coroutines -> {"resume", "wrap", "close"}]
      BY <2>1 DEF Enter, ScriptTypes
    <2>4. pcalls' \in [LuaThreads -> 0..MaxPCalls]
      <3>1. pcalls \in [LuaThreads -> 0..MaxPCalls] /\ 0 \in 0..MaxPCalls
        BY NumbersAssumption DEF ScriptTypes
      <3> QED
        BY <1>6, <3>1 DEF Resume, CloseCoroutine
    <2>5. /\ count' \in [LuaThreads -> 0..(HookPeriod - 1)]
          /\ UNCHANGED armed
      BY <2>1, <1>ins DEF Enter
    <2> QED
      BY <2>2, <2>3, <2>4, <2>5 DEF ScriptTypes
  <1>7. CASE Yield \/ CoroutineReturns \/ CoroutineDies
    <2>1. /\ ControlBack /\ Running # Main
          /\ Instruction \/ UNCHANGED count
          /\ UNCHANGED <<entered, pcalls>>
      BY <1>7 DEF Yield, CoroutineReturns, CoroutineDies, ControlBack
    <2>2. life' \in [Coroutines -> {"none", "suspended", "alive", "dead"}]
      BY <1>7 DEF Yield, CoroutineReturns, CoroutineDies, ScriptTypes
    <2>3. chain' \in Seq(LuaThreads) /\ chain' # <<>> /\ chain'[1] = Main
      BY <2>1, PoppedChain
    <2>4. armed' \in [LuaThreads -> BOOLEAN]
      BY <2>1, ResumerArmedTypes DEF ControlBack
    <2> QED
      BY <2>1, <2>2, <2>3, <2>4, <1>ins DEF ScriptTypes
  <1>8. CASE PrintMeetsBrokenPipe
    BY <1>8, <1>arm DEF PrintMeetsBrokenPipe, ScriptTypes
  <1>9. ASSUME UNCHANGED <<chain, life, entered, pcalls, armed, count>> PROVE ScriptTypes'
    BY <1>9 DEF ScriptTypes
  <1>10. CASE ScriptFails \/ Effect \/ Told \/ TellMeetsBrokenPipe \/ Interrupted
              \/ TellInterrupted \/ Load \/ Diagnose \/ ReleaseDescriptors \/ Finish
              \/ Collect \/ UnhookedEffect
    BY <1>9, <1>10
    DEF ScriptFails, Effect, Told, TellMeetsBrokenPipe, Interrupted, TellInterrupted, Load,
        Diagnose, ReleaseDescriptors, Finish, Collect, UnhookedEffect, scriptVars
  <1>11. CASE KillBegins \/ KillEnds \/ UNCHANGED vars
    BY <1>9, <1>11 DEF KillBegins, KillEnds, vars, scriptVars
  <1>12. CASE UnhookedExit \/ UnhookedBrokenPipe
    BY <1>12, <1>arm DEF UnhookedExit, UnhookedBrokenPipe, ScriptTypes
  <1>13. CASE ReturnsToHooked
    <2>1. count' \in [LuaThreads -> 0..(HookPeriod - 1)]
      <3>1. count \in [LuaThreads -> 0..(HookPeriod - 1)]
        BY DEF ScriptTypes
      <3> QED
        BY <1>13, <3>1 DEF ReturnsToHooked
    <2> QED
      BY <1>13, <2>1 DEF ReturnsToHooked, ScriptTypes
  <1> QED
    BY <1>1, <1>2, <1>3, <1>4, <1>5, <1>6, <1>7, <1>8, <1>10, <1>11, <1>12, <1>13
    DEF Next, HookedStep, ThreadStep, ScriptStep, Unblocked, UnhookedStep

LEMMA ProcessTypesStep == TypeOK /\ [Next]_vars => ProcessTypes'
  <1> SUFFICES ASSUME ProcessTypes, [Next]_vars PROVE ProcessTypes'
    BY DEF TypeOK
  <1> USE DEF flagVars, historyVars
  <1>1. CASE KillHook
    BY <1>1 DEF KillHook, ProcessTypes
  <1>2. CASE Compute \/ Error \/ PCall \/ PCallReturns
    <2>1. UNCHANGED <<phase, flagVars, ranToEnd, exitCode, historyVars>> /\ raising' \in BOOLEAN
      BY <1>2 DEF Compute, Error, PCall, PCallReturns, ProcessTypes
    <2> QED
      BY <2>1 DEF ProcessTypes
  <1>3. CASE Exit
    BY <1>3 DEF Exit, ProcessTypes
  <1>4. ASSUME NEW c \in Coroutines, Create(c) \/ Resume(c) \/ CloseCoroutine(c)
        PROVE  ProcessTypes'
    <2>1. UNCHANGED <<phase, raising, flagVars, ranToEnd, exitCode, historyVars>>
      BY <1>4 DEF Create, Resume, CloseCoroutine, Enter
    <2> QED
      BY <2>1 DEF ProcessTypes
  <1>5. CASE Yield \/ CoroutineReturns \/ CoroutineDies
    <2>1. UNCHANGED <<phase, flagVars, ranToEnd, exitCode, historyVars>> /\ raising' \in BOOLEAN
      BY <1>5 DEF Yield, CoroutineReturns, CoroutineDies, ControlBack, ProcessTypes
    <2> QED
      BY <2>1 DEF ProcessTypes
  <1>6. CASE ScriptReturns
    BY <1>6 DEF ScriptReturns, ProcessTypes
  <1>7. CASE WriteLine \/ CallTool \/ Caught
    <2>1. /\ UNCHANGED <<flagVars, ranToEnd, exitCode, historyVars>> /\ raising' \in BOOLEAN
          /\ phase' \in {"run", "write", "tool"}
      BY <1>7 DEF WriteLine, CallTool, Caught, ProcessTypes
    <2> QED
      BY <2>1 DEF ProcessTypes
  <1>8. CASE ScriptFails \/ Effect \/ Interrupted \/ Load \/ ReleaseDescriptors
    BY <1>8 DEF ScriptFails, Effect, Interrupted, Load, ReleaseDescriptors, scriptVars,
                ProcessTypes
  <1>9. CASE PrintMeetsBrokenPipe \/ TellMeetsBrokenPipe
    BY <1>9 DEF PrintMeetsBrokenPipe, TellMeetsBrokenPipe, Kill, scriptVars, ProcessTypes
  <1>10. CASE Told \/ TellInterrupted
    BY <1>10 DEF Told, TellInterrupted, scriptVars, ProcessTypes
  <1>11. CASE Diagnose
    BY <1>11 DEF Diagnose, scriptVars, ProcessTypes
  <1>12. CASE Finish
    BY <1>12 DEF Finish, ChosenCode, scriptVars, ProcessTypes
  <1>13. CASE KillBegins \/ KillEnds
    <2>1. /\ UNCHANGED <<phase, raising, exitRequested, brokenPipe, ranToEnd, exitCode,
                         aborting, effects, ending>>
          /\ killed' \in BOOLEAN /\ stopToken' \in BOOLEAN
      BY <1>13 DEF KillBegins, KillEnds, Kill, scriptVars, ProcessTypes
    <2> QED
      BY <2>1 DEF ProcessTypes
  <1>14. CASE UNCHANGED vars
    BY <1>14 DEF vars, scriptVars, ProcessTypes
  <1>15. CASE Collect \/ UnhookedEffect \/ ReturnsToHooked
    BY <1>15 DEF Collect, UnhookedEffect, ReturnsToHooked, scriptVars, ProcessTypes
  <1>16. CASE UnhookedExit \/ UnhookedBrokenPipe
    <2>1. /\ UNCHANGED <<phase, raising, ranToEnd, exitCode, aborting, effects>>
          /\ killed' \in BOOLEAN /\ stopToken' \in BOOLEAN
          /\ exitRequested' \in BOOLEAN /\ brokenPipe' \in BOOLEAN
      BY <1>16 DEF UnhookedExit, UnhookedBrokenPipe, Kill, ProcessTypes
    <2>2. ending' \in {ending, "exit", "broken"}
      BY <1>16 DEF UnhookedExit, UnhookedBrokenPipe
    <2> QED
      BY <2>1, <2>2 DEF ProcessTypes
  <1> QED
    BY <1>1, <1>2, <1>3, <1>4, <1>5, <1>6, <1>7, <1>8, <1>9, <1>10, <1>11, <1>12, <1>13,
       <1>14, <1>15, <1>16
    DEF Next, HookedStep, ThreadStep, ScriptStep, Unblocked, UnhookedStep

\* Where code with the hooks off can be running.
OffThere == off => phase \in {"run", "write", "tool", "close"}

LEMMA OffStep ==
    ASSUME off \in BOOLEAN, unhooked \in BOOLEAN, OffThere, [Next]_vars
    PROVE  off' \in BOOLEAN /\ OffThere'
  <1>1. CASE HookedStep \/ (~off /\ Unblocked)
    <2>1. off' = off \/ (phase = "run" /\ phase' = "run" /\ off' \in BOOLEAN)
      <3> USE DEF Instruction, MayRunUnhooked, Enter, ControlBack, scriptVars
      <3>1. CASE KillHook \/ Exit
        BY <3>1 DEF KillHook, Exit
      <3>2. CASE CoroutineDies
        BY <3>2 DEF CoroutineDies
      <3>3. ASSUME NEW c \in Coroutines, CloseCoroutine(c)
            PROVE  phase = "run" /\ phase' = "run" /\ off' \in BOOLEAN
        BY <3>3 DEF CloseCoroutine
      <3>4. ASSUME NEW c \in Coroutines, Create(c) \/ Resume(c) PROVE off' = off
        BY <3>4 DEF Create, Resume
      <3>5. CASE Compute \/ Error \/ PCall \/ PCallReturns \/ Yield \/ CoroutineReturns
                 \/ ScriptReturns \/ WriteLine \/ CallTool \/ Caught \/ ScriptFails
        <4>1. UNCHANGED off
          BY <3>5, Zenon
          DEF Compute, Error, PCall, PCallReturns, Yield, CoroutineReturns, ScriptReturns,
              WriteLine, CallTool, Caught, ScriptFails
        <4> QED
          BY <4>1
      <3>6. CASE Interrupted \/ TellInterrupted \/ Load \/ Diagnose \/ ReleaseDescriptors
                 \/ Finish \/ Effect \/ PrintMeetsBrokenPipe \/ Told \/ TellMeetsBrokenPipe
        <4>1. UNCHANGED off
          BY <3>6, Zenon
          DEF Interrupted, TellInterrupted, Load, Diagnose, ReleaseDescriptors, Finish,
              Effect, PrintMeetsBrokenPipe, Told, TellMeetsBrokenPipe
        <4> QED
          BY <4>1
      <3> QED
        BY <3>1, <3>2, <3>3, <3>4, <3>5, <3>6, <1>1
        DEF HookedStep, ThreadStep, ScriptStep, Unblocked
    <2>2. ~off
      BY <1>1 DEF HookedStep
    <2> QED
      BY <2>1, <2>2 DEF OffThere
  <1>2. CASE UnhookedStep
    BY <1>2
    DEF UnhookedStep, Collect, UnhookedEffect, UnhookedExit, UnhookedBrokenPipe,
        ReturnsToHooked, scriptVars, OffThere
  <1>3. CASE KillBegins \/ KillEnds \/ UNCHANGED vars
    BY <1>3 DEF KillBegins, KillEnds, vars, scriptVars, OffThere
  <1> QED
    BY <1>1, <1>2, <1>3 DEF Next

LEMMA TypeStep == TypeOK /\ OffThere /\ [Next]_vars => TypeOK' /\ OffThere'
  <1>1. [Next]_vars => closing' = closing /\ unhooked' = unhooked
    BY DEF Next, vars
  <1> QED
    BY <1>1, ScriptTypesStep, ProcessTypesStep, OffStep DEF TypeOK

\* The variables keep their types: the chain of Lua threads always begins with
\* the script's main one (lua_State and the coroutines resumed from it).
THEOREM TypeCorrect == Spec => []TypeOK
  <1>1. Init => OffThere
    BY DEF Init, OffThere
  <1> QED
    BY <1>1, TypeInitially, TypeStep, PTL DEF Spec

-----------------------------------------------------------------------------
(* What ends an aborted script.                                            *)

\* A coroutine is entered to be closed only by a script that closes coroutines.
NeverEnteredToClose == closing \/ \A c \in Coroutines : entered[c] # "close"

AbortInv ==
    /\ TypeOK
    /\ NeverEnteredToClose
    /\ AbortedRunsArmed
    /\ OffThere
    /\ phase = "load" => ~aborting

LEMMA AbortInvStep ==
    ASSUME ~closing, AbortInv, [Next]_vars
    PROVE  AbortInv' /\ (aborting /\ ~off => effects' = effects)
  <1>ty. TypeOK' /\ OffThere' /\ ScriptTypes /\ ScriptTypes'
    BY TypeStep DEF AbortInv, TypeOK
  <1>run. Running \in LuaThreads
    BY <1>ty, RunningIsAThread
  <1>inv. AbortedRunsArmed /\ \A c \in Coroutines : entered[c] # "close"
    BY DEF AbortInv, NeverEnteredToClose
  \* While the script is aborted its thread executes no instruction.
  <1>no. aborting /\ phase \in {"run", "write", "tool"} => phase = "run" /\ HookRaises
    BY <1>inv DEF AbortedRunsArmed, HookRaises, HookDue
  <1>arm. \A t \in LuaThreads : ArmLatchedKillHook(t)[t]
    BY <1>ty, ArmedTypes
  <1>same. ASSUME UNCHANGED <<entered, armed, aborting, effects>>, Running' = Running,
                  Latched => Latched',
                  aborting /\ phase' \in {"run", "write", "tool"} =>
                      phase' = "run" /\ phase \in {"run", "write", "tool"}
           PROVE  /\ NeverEnteredToClose' /\ AbortedRunsArmed'
                  /\ aborting /\ ~off => effects' = effects
    BY <1>same, <1>inv DEF NeverEnteredToClose, AbortedRunsArmed
  <1>goal. SUFFICES /\ NeverEnteredToClose' /\ AbortedRunsArmed'
                    /\ aborting /\ ~off => effects' = effects
    <2>1. phase' = "load" => phase = "load" /\ aborting' = aborting
      BY <1>ty
      DEF Next, HookedStep, ThreadStep, ScriptStep, Unblocked, UnhookedStep, Collect,
          UnhookedEffect, UnhookedExit, UnhookedBrokenPipe, ReturnsToHooked, KillHook,
          Compute, Error, PCall, PCallReturns, Exit, Create, Resume, CloseCoroutine, Enter, Yield, CoroutineReturns,
          ControlBack, ScriptReturns, WriteLine, CallTool, Caught, CoroutineDies, ScriptFails,
          Instruction, Effect, PrintMeetsBrokenPipe, Told, TellMeetsBrokenPipe, Interrupted,
          TellInterrupted, Load, Diagnose, ReleaseDescriptors, Finish, KillBegins, KillEnds,
          OffThere, AbortInv, vars, scriptVars, flagVars, historyVars
    <2> QED
      BY <1>ty, <2>1 DEF AbortInv
  <1>1. CASE KillHook
    <2>1. /\ armed' = ArmLatchedKillHook(Running) /\ Latched'
          /\ phase' = "run" /\ UNCHANGED <<chain, entered, effects>>
      BY <1>1 DEF KillHook, HookRaises, Latched, flagVars
    <2>2. Running' = Running
      BY <2>1 DEF Running
    <2> QED
      BY <2>1, <2>2, <1>arm, <1>run, <1>inv DEF NeverEnteredToClose, AbortedRunsArmed
  <1>2. CASE Exit
    <2>1. /\ armed' = ArmLatchedKillHook(Running) /\ Latched'
          /\ phase' = "run" /\ UNCHANGED <<chain, entered, effects>>
      BY <1>2 DEF Exit, Instruction, Latched
    <2>2. Running' = Running
      BY <2>1 DEF Running
    <2> QED
      BY <2>1, <2>2, <1>arm, <1>run, <1>inv DEF NeverEnteredToClose, AbortedRunsArmed
  <1>3. CASE PrintMeetsBrokenPipe
    <2>1. /\ armed' = ArmLatchedKillHook(Running) /\ Latched'
          /\ phase' = "run" /\ UNCHANGED <<chain, entered, effects>>
      BY <1>3 DEF PrintMeetsBrokenPipe, Kill, Latched
    <2>2. Running' = Running
      BY <2>1 DEF Running
    <2> QED
      BY <2>1, <2>2, <1>arm, <1>run, <1>inv DEF NeverEnteredToClose, AbortedRunsArmed
  \* An instruction is executed only by a script that is not aborted.
  <1>4. ASSUME Instruction, UNCHANGED aborting, UNCHANGED <<effects>>,
               \A c \in Coroutines : entered'[c] # "close"
        PROVE  /\ NeverEnteredToClose' /\ AbortedRunsArmed'
               /\ aborting /\ ~off => effects' = effects
    <2>1. ~aborting
      BY <1>4, <1>no DEF Instruction
    <2> QED
      BY <1>4, <2>1 DEF NeverEnteredToClose, AbortedRunsArmed
  <1>5. CASE Compute \/ Error \/ PCall \/ PCallReturns \/ Yield \/ CoroutineReturns
             \/ ScriptReturns \/ WriteLine \/ CallTool
    <2>1. Instruction /\ UNCHANGED <<entered, aborting, effects>>
      BY <1>5 DEF Compute, Error, PCall, PCallReturns, Yield, CoroutineReturns, ControlBack,
                  ScriptReturns, WriteLine, CallTool, historyVars
    <2> QED
      BY <2>1, <1>4, <1>inv
  <1>6. ASSUME NEW c \in Coroutines, Create(c)
        PROVE  /\ NeverEnteredToClose' /\ AbortedRunsArmed'
               /\ aborting /\ ~off => effects' = effects
    <2>1. ~aborting
      BY <1>6, <1>no DEF Create
    <2> QED
      BY <1>6, <2>1, <1>inv DEF Create, historyVars, NeverEnteredToClose, AbortedRunsArmed
  <1>7. ASSUME NEW c \in Coroutines, Resume(c) \/ CloseCoroutine(c)
        PROVE  /\ NeverEnteredToClose' /\ AbortedRunsArmed'
               /\ aborting /\ ~off => effects' = effects
    <2>1. PICK how \in {"resume", "wrap"} : Enter(c, how)
      BY <1>7 DEF Resume, CloseCoroutine
    <2>2. /\ Instruction /\ UNCHANGED <<aborting, effects>>
          /\ entered' = [entered EXCEPT ![c] = how]
      BY <2>1 DEF Enter, historyVars
    <2>3. \A d \in Coroutines : entered'[d] # "close"
      BY <2>2, <1>inv, <1>ty DEF ScriptTypes
    <2> QED
      BY <2>2, <2>3, <1>4
  <1>8. CASE Caught
    <2>1. /\ phase = "run" /\ phase' = "run"
          /\ UNCHANGED <<chain, entered, armed, aborting, effects, killed, exitRequested>>
      BY <1>8 DEF Caught, historyVars, flagVars
    <2> QED
      BY <2>1, <1>same DEF Running, Latched
  \* The error of a coroutine comes back to a thread its wrapper arms.
  <1>9. CASE CoroutineDies
    <2>1. /\ ControlBack /\ Running # Main
          /\ phase = "run" /\ phase' = "run"
          /\ UNCHANGED <<entered, aborting, effects, killed, exitRequested>>
      BY <1>9 DEF CoroutineDies, ControlBack, historyVars, flagVars
    <2>2. Running \in Coroutines /\ Resumer \in LuaThreads
      BY <2>1, <1>ty, RunningIsAThread
    <2>3. Running' = Resumer
      BY <2>1, <1>ty, PoppedChain
    <2>4. Latched => armed'[Resumer]
      BY <2>1, <2>2, <1>inv, <1>arm DEF ControlBack, ResumerArmed
    <2>5. aborting => Latched /\ Latched'
      BY <2>1, <1>inv DEF AbortedRunsArmed, Latched
    <2> QED
      BY <2>1, <2>3, <2>4, <2>5, <1>inv DEF NeverEnteredToClose, AbortedRunsArmed
  <1>10. CASE Effect
    <2>1. ~aborting
      BY <1>10, <1>no DEF Effect
    <2> QED
      BY <1>10, <2>1, <1>inv DEF Effect, scriptVars, NeverEnteredToClose, AbortedRunsArmed
  <1>11. CASE Interrupted
    <2>1. ~aborting
      BY <1>11, <1>no DEF Interrupted
    <2> QED
      BY <1>11, <2>1, <1>inv
      DEF Interrupted, scriptVars, historyVars, NeverEnteredToClose, AbortedRunsArmed
  <1>12. CASE ScriptFails \/ Told \/ TellInterrupted \/ TellMeetsBrokenPipe \/ Diagnose
              \/ ReleaseDescriptors \/ Finish
    <2>1. /\ phase' \notin {"run", "write", "tool"}
          /\ UNCHANGED <<entered, aborting, effects>>
      BY <1>12 DEF ScriptFails, Told, TellInterrupted, TellMeetsBrokenPipe, Diagnose,
                   ReleaseDescriptors, Finish, scriptVars, historyVars
    <2> QED
      BY <2>1, <1>inv DEF NeverEnteredToClose, AbortedRunsArmed
  <1>13. CASE Load
    <2>1. ~aborting
      BY <1>13 DEF Load, AbortInv
    <2> QED
      BY <1>13, <2>1, <1>inv
      DEF Load, scriptVars, historyVars, NeverEnteredToClose, AbortedRunsArmed
  <1>14. CASE KillBegins \/ KillEnds \/ UNCHANGED vars
    <2>1. /\ UNCHANGED <<phase, chain, entered, armed, aborting, effects>>
          /\ Latched => Latched'
      BY <1>14 DEF KillBegins, KillEnds, Kill, vars, scriptVars, flagVars, historyVars, Latched
    <2>2. aborting /\ phase \in {"run", "write", "tool"} => phase = "run"
      BY <1>no
    <2> QED
      BY <2>1, <2>2, <1>same DEF Running
  <1>15. CASE Collect \/ ReturnsToHooked
    <2>1. /\ UNCHANGED <<phase, chain, entered, armed, aborting, effects>>
          /\ Latched => Latched'
      BY <1>15 DEF Collect, ReturnsToHooked, flagVars, historyVars, Latched
    <2> QED
      BY <2>1, <1>no, <1>same DEF Running
  \* Only code with the hooks off has effects, and the script is armed behind it.
  <1>16. CASE UnhookedEffect
    <2>1. off /\ UNCHANGED <<phase, chain, entered, armed, aborting, killed, exitRequested>>
      BY <1>16 DEF UnhookedEffect, scriptVars, flagVars
    <2> QED
      BY <2>1, <1>inv DEF NeverEnteredToClose, AbortedRunsArmed, Running, Latched
  <1>17. CASE UnhookedExit \/ UnhookedBrokenPipe
    <2>1. /\ armed' = ArmLatchedKillHook(Running) /\ Latched'
          /\ UNCHANGED <<phase, chain, entered, aborting, effects>>
      BY <1>17 DEF UnhookedExit, UnhookedBrokenPipe, Kill, Latched
    <2>2. Running' = Running
      BY <2>1 DEF Running
    <2> QED
      BY <2>1, <2>2, <1>arm, <1>run, <1>inv DEF NeverEnteredToClose, AbortedRunsArmed
  <1> QED
    BY <1>1, <1>2, <1>3, <1>5, <1>6, <1>7, <1>8, <1>9, <1>10, <1>11, <1>12, <1>13, <1>14,
       <1>15, <1>16, <1>17
    DEF Next, HookedStep, ThreadStep, ScriptStep, Unblocked, UnhookedStep

LEMMA AbortInvHolds == Spec => [](closing \/ AbortInv)
  <1>1. Init => closing \/ AbortInv
    BY TypeInitially DEF Init, AbortInv, NeverEnteredToClose, AbortedRunsArmed, OffThere
  <1>2. (closing \/ AbortInv) /\ [Next]_vars => (closing \/ AbortInv)'
    <2>1. [Next]_vars => closing' = closing
      BY DEF Next, vars
    <2> QED
      BY <2>1, AbortInvStep
  <1> QED
    BY <1>1, <1>2, PTL DEF Spec

\* For a script that closes no coroutines: aborted by the kill hook, by its own
\* exit() or by a broken pipe in print, it has no further effect but through code
\* Lua runs with the hooks off, however deep in pcalls and coroutines it is and
\* whatever such code did before (KillHookTrampoline, LuaResumeTrampoline).
THEOREM AbortedScriptHasNoEffect == Spec => AbortIsFinal
  <1>1. Spec => [](closing \/ AbortInv)
    BY AbortInvHolds
  <1>2. (closing \/ AbortInv) /\ [Next]_vars
        => [aborting /\ ~closing /\ ~off => effects' = effects]_vars
    BY AbortInvStep
  <1> QED
    BY <1>1, <1>2, PTL DEF Spec, AbortIsFinal

\* And that is because the Lua thread it is in runs its hook at every instruction.
THEOREM AbortedScriptIsArmed == Spec => [](closing \/ AbortedRunsArmed)
  <1>1. AbortInv => AbortedRunsArmed
    BY DEF AbortInv
  <1> QED
    BY <1>1, AbortInvHolds, PTL
-----------------------------------------------------------------------------
(* What the exit code says.                                                *)

\* The script's main Lua thread is armed by whatever ends the script but a kill.
MainArmed ==
    phase \in {"run", "write", "tool", "failed"} =>
        /\ exitRequested \/ brokenPipe => armed[Main]
        /\ ending = "none" /\ ~ranToEnd

EndingFits ==
    /\ ending = "returned" => ranToEnd /\ ~exitRequested /\ ~brokenPipe
    /\ ending = "exit" => exitRequested /\ ~brokenPipe
    /\ ending = "stopped" => killed /\ ~ranToEnd /\ ~exitRequested /\ ~brokenPipe
    /\ ending = "broken" => brokenPipe
    /\ ending = "error" => ~ranToEnd /\ ~exitRequested /\ ~brokenPipe

EndingInv ==
    /\ TypeOK
    /\ OffThere
    /\ brokenPipe => killed
    /\ phase = "load" => ~exitRequested /\ ~brokenPipe
    /\ phase \in {"load", "tell"} =>
          ending = "none" /\ ~ranToEnd /\ ~exitRequested /\ ~brokenPipe
    /\ MainArmed
    /\ EndingFits
    /\ CodeTellsEnding

LEMMA EndingInitially == Init => EndingInv
  <1> SUFFICES ASSUME Init PROVE EndingInv
    OBVIOUS
  <1>1. TypeOK
    BY TypeInitially
  <1>2. /\ phase = "load" /\ ending = "none"
        /\ ~exitRequested /\ ~brokenPipe /\ ~ranToEnd
    BY DEF Init
  <1> QED
    BY <1>1, <1>2 DEF Init, OffThere, EndingInv, MainArmed, EndingFits, CodeTellsEnding

LEMMA EndingStep == EndingInv /\ [Next]_vars => EndingInv'
  <1> SUFFICES ASSUME EndingInv, [Next]_vars PROVE EndingInv'
    OBVIOUS
  <1> USE DEF flagVars, historyVars
  <1>ty. TypeOK' /\ OffThere' /\ ScriptTypes
    BY TypeStep DEF EndingInv, TypeOK
  <1>run. Running \in LuaThreads /\ (Running # Main => Resumer \in LuaThreads)
    BY <1>ty, RunningIsAThread
  <1>arm. \A t \in LuaThreads : ArmLatchedKillHook(t)[Main]
    BY <1>ty, ArmedTypes
  \* The script goes on, and nothing that ends it has come up.
  <1>on. ASSUME phase = "run", phase' \in {"run", "write", "tool", "failed"},
                armed[Main] => armed'[Main],
                UNCHANGED <<flagVars, ranToEnd, exitCode, ending>>
         PROVE  EndingInv'
    BY <1>on, <1>ty DEF EndingInv, MainArmed, EndingFits, CodeTellsEnding
  <1>1. CASE KillHook
    BY <1>1, <1>on, <1>arm, <1>run DEF KillHook
  <1>2. CASE Compute \/ Error \/ PCall \/ PCallReturns \/ WriteLine \/ CallTool \/ Caught
             \/ ScriptFails
    BY <1>2, <1>on
    DEF Compute, Error, PCall, PCallReturns, WriteLine, CallTool, Caught, ScriptFails,
        scriptVars, Instruction
  <1>3. CASE Exit \/ PrintMeetsBrokenPipe
    <2>1. /\ phase \in {"run", "write"} /\ phase' = "run" /\ armed'[Main]
          /\ UNCHANGED <<ranToEnd, exitCode, ending>>
          /\ brokenPipe' => killed'
      BY <1>3, <1>arm, <1>run
      DEF Exit, Instruction, PrintMeetsBrokenPipe, Kill, EndingInv
    <2> QED
      BY <2>1, <1>ty DEF EndingInv, MainArmed, EndingFits, CodeTellsEnding
  <1>4. ASSUME NEW c \in Coroutines, Create(c) PROVE EndingInv'
    <2>1. armed'[Main] = armed[Main]
      BY <1>4, <1>ty, ThreadsAssumption DEF Create, ScriptTypes, LuaThreads
    <2> QED
      BY <1>4, <2>1, <1>on DEF Create
  <1>5. ASSUME NEW c \in Coroutines, Resume(c) \/ CloseCoroutine(c) PROVE EndingInv'
    BY <1>5, <1>on DEF Resume, CloseCoroutine, Enter, Instruction
  <1>6. CASE Yield \/ CoroutineReturns \/ CoroutineDies
    <2>1. ControlBack /\ Running # Main /\ phase = "run"
      BY <1>6 DEF Yield, CoroutineReturns, CoroutineDies, Instruction
    <2>2. armed[Main] => armed'[Main]
      BY <2>1, <1>arm, <1>run DEF ControlBack, ResumerArmed
    <2> QED
      BY <2>1, <2>2, <1>on DEF ControlBack
  \* A main thread that is armed does not return: its hook raises.
  <1>7. CASE ScriptReturns
    <2>1. ~exitRequested /\ ~brokenPipe
      BY <1>7
      DEF ScriptReturns, Instruction, HookRaises, HookDue, Latched, EndingInv, MainArmed
    <2>2. /\ phase' = "close" /\ ending' = "returned" /\ ranToEnd'
          /\ UNCHANGED flagVars
      BY <1>7 DEF ScriptReturns
    <2> QED
      BY <2>1, <2>2, <1>ty DEF EndingInv, MainArmed, EndingFits, CodeTellsEnding
  <1>8. CASE Effect \/ Interrupted
    <2>1. /\ phase \in {"write", "tool"} /\ phase' = "run"
          /\ UNCHANGED <<armed, flagVars, ranToEnd, exitCode, ending>>
      BY <1>8 DEF Effect, Interrupted, scriptVars
    <2> QED
      BY <2>1, <1>ty DEF EndingInv, MainArmed, EndingFits, CodeTellsEnding
  <1>9. CASE Told \/ TellInterrupted
    <2>1. /\ phase = "tell" /\ phase' = "close"
          /\ ending' = IF killed THEN "stopped" ELSE "error"
          /\ UNCHANGED <<flagVars, ranToEnd, exitCode>>
      BY <1>9 DEF Told, TellInterrupted
    <2> QED
      BY <2>1, <1>ty DEF EndingInv, MainArmed, EndingFits, CodeTellsEnding
  <1>10. CASE TellMeetsBrokenPipe
    <2>1. /\ phase' = "close" /\ ending' = "broken" /\ brokenPipe' /\ killed'
      BY <1>10 DEF TellMeetsBrokenPipe, Kill
    <2> QED
      BY <2>1, <1>ty DEF EndingInv, MainArmed, EndingFits, CodeTellsEnding
  <1>11. CASE Load
    <2>1. /\ phase = "load" /\ phase' \in {"run", "tell"}
          /\ UNCHANGED <<flagVars, ranToEnd, exitCode, ending>>
      BY <1>11 DEF Load
    <2> QED
      BY <2>1, <1>ty DEF EndingInv, MainArmed, EndingFits, CodeTellsEnding
  <1>12. CASE Diagnose
    <2>1. /\ phase = "failed" /\ ending = "none" /\ ~ranToEnd
          /\ UNCHANGED <<flagVars, ranToEnd, exitCode>>
      BY <1>12 DEF Diagnose, EndingInv, MainArmed
    <2>2. CASE Latched
      <3>1. /\ phase' = "close"
            /\ ending' = CASE brokenPipe -> "broken"
                           [] ~brokenPipe /\ exitRequested -> "exit"
                           [] ~brokenPipe /\ ~exitRequested /\ killed -> "stopped"
                           [] OTHER -> "none"
        BY <1>12, <2>1, <2>2 DEF Diagnose
      <3> QED
        BY <2>1, <3>1, <1>ty DEF EndingInv, MainArmed, EndingFits, CodeTellsEnding
    <2>3. CASE ~Latched
      <3>1. ~exitRequested /\ ~killed /\ ~brokenPipe
        BY <2>3 DEF Latched, EndingInv
      <3>2. phase' = "tell" /\ ending' = "none"
        BY <1>12, <2>1, <2>3, <3>1 DEF Diagnose
      <3> QED
        BY <2>1, <3>1, <3>2, <1>ty DEF EndingInv, MainArmed, EndingFits, CodeTellsEnding
    <2> QED
      BY <2>2, <2>3
  <1>13. CASE ReleaseDescriptors
    <2>1. /\ phase = "close" /\ phase' = "released"
          /\ UNCHANGED <<flagVars, ranToEnd, exitCode, ending>>
      BY <1>13 DEF ReleaseDescriptors
    <2> QED
      BY <2>1, <1>ty DEF EndingInv, MainArmed, EndingFits, CodeTellsEnding
  <1>14. CASE Finish
    <2>1. /\ phase' = "finished" /\ exitCode' = ChosenCode
          /\ UNCHANGED <<flagVars, ranToEnd, ending>>
      BY <1>14 DEF Finish
    <2>2. EndingFits /\ (brokenPipe => killed)
      BY DEF EndingInv
    <2>3. CodeTellsEnding'
      BY <2>1, <2>2 DEF EndingFits, CodeTellsEnding, ChosenCode
    <2> QED
      BY <2>1, <2>2, <2>3, <1>ty DEF EndingInv, MainArmed, EndingFits
  <1>15. CASE KillBegins \/ KillEnds \/ UNCHANGED vars
    <2>1. /\ UNCHANGED <<phase, armed, exitRequested, brokenPipe, ranToEnd, exitCode, ending>>
          /\ killed => killed'
      BY <1>15 DEF KillBegins, KillEnds, Kill, vars, scriptVars
    <2> QED
      BY <2>1, <1>ty DEF EndingInv, MainArmed, EndingFits, CodeTellsEnding
  <1>16. CASE Collect \/ UnhookedEffect \/ ReturnsToHooked
    <2>1. UNCHANGED <<phase, armed, flagVars, ranToEnd, exitCode, ending>>
      BY <1>16 DEF Collect, UnhookedEffect, ReturnsToHooked, scriptVars
    <2> QED
      BY <2>1, <1>ty DEF EndingInv, MainArmed, EndingFits, CodeTellsEnding
  \* A finalizer run by lua_close is the last to set the flags.
  <1>17. CASE UnhookedExit \/ UnhookedBrokenPipe
    <2>1. /\ phase \in {"run", "write", "tool", "close"}
          /\ UNCHANGED <<phase, ranToEnd, exitCode>>
          /\ armed'[Main]
          /\ brokenPipe' => killed'
      BY <1>17, <1>arm, <1>run DEF UnhookedExit, UnhookedBrokenPipe, Kill, EndingInv, OffThere
    <2>2. CASE phase # "close"
      <3>1. ending' = ending /\ ending = "none"
        BY <1>17, <2>1, <2>2 DEF UnhookedExit, UnhookedBrokenPipe, EndingInv, MainArmed
      <3> QED
        BY <2>1, <2>2, <3>1, <1>ty DEF EndingInv, MainArmed, EndingFits, CodeTellsEnding
    <2>3. CASE phase = "close"
      <3>1. \/ exitRequested' /\ ~brokenPipe' /\ ending' = "exit"
            \/ brokenPipe' /\ ending' = "broken"
            \/ brokenPipe' /\ ending' = ending /\ brokenPipe
        BY <1>17, <2>3 DEF UnhookedExit, UnhookedBrokenPipe
      <3> QED
        BY <2>1, <2>3, <3>1, <1>ty DEF EndingInv, MainArmed, EndingFits, CodeTellsEnding
    <2> QED
      BY <2>2, <2>3
  <1> QED
    BY <1>1, <1>2, <1>3, <1>4, <1>5, <1>6, <1>7, <1>8, <1>9, <1>10, <1>11, <1>12, <1>13,
       <1>14, <1>15, <1>16, <1>17
    DEF Next, HookedStep, ThreadStep, ScriptStep, Unblocked, UnhookedStep

\* The exit code says how the script ended, whatever arrives after (RunThread's
\* decision, with its three flags set by other threads until the last moment).
THEOREM ExitCodeTellsEnding == Spec => []CodeTellsEnding
  <1>1. EndingInv => CodeTellsEnding
    BY DEF EndingInv
  <1> QED
    BY <1>1, EndingInitially, EndingStep, PTL DEF Spec
=============================================================================
