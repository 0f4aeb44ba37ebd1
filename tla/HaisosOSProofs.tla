--------------------------- MODULE HaisosOSProofs ---------------------------
(* What module HaisosOS promises, for any number of processes.             *)
EXTENDS HaisosOS, TLAPS

(***************************************************************************)
(* The inductive invariant: references lead to live objects, a process's   *)
(* thread runs in an object that is not gone, destructors run off the      *)
(* runtime threads, whoever starts a process holds the OS, and a process   *)
(* nobody has asked to stop is one ~HaisosOS will come by.                 *)
(***************************************************************************)
RefInv ==
    /\ \A o \in Objects : o \in Referenced => object[o] = "alive"
    /\ \A o \in pending : object[o] = "handed"

LifeInv ==
    /\ object[OS] # "none"
    /\ \A p \in Procs : object[p] = "none" => life[p] = "none"
    /\ \A p \in Procs : life[p] = "running" => object[p] # "gone"

StartInv ==
    \A t \in Threads :
        /\ step[t] # "none" => door[t]
        /\ step[t] = "created" <=> started[t] \in Procs

DrainInv ==
    /\ pass > 0 => table = {} /\ object[OS] \in {"dying", "gone"}
    /\ object[OS] = "gone" => pass > 0 /\ drained = {}

TrackedInv ==
    \A p \in Procs :
        life[p] = "running" /\ ~stop[p] =>
            p \in table \/ p \in drained \ asked \/ \E t \in Threads : started[t] = p

Inv ==
    /\ TypeOK /\ RefInv /\ LifeInv /\ DestroyedOffRuntimeThreads
    /\ StartInv /\ DrainInv /\ TrackedInv

-----------------------------------------------------------------------------
LEMMA InitInv == Init => Inv
<1> SUFFICES ASSUME Init PROVE Inv
  OBVIOUS
<1> USE NamesAssumption DEF Init
<1>1. TypeOK
  BY LimitsAssumption DEF TypeOK, Objects, Threads
<1>2. RefInv
  BY DEF RefInv, Referenced, Objects, Threads
<1>3. LifeInv
  BY DEF LifeInv, Objects
<1>4. DestroyedOffRuntimeThreads
  BY DEF DestroyedOffRuntimeThreads, Objects, IsRuntime
<1>5. StartInv
  BY DEF StartInv, Threads
<1>6. DrainInv
  BY DEF DrainInv, Objects
<1>7. TrackedInv
  BY DEF TrackedInv
<1> QED
  BY <1>1, <1>2, <1>3, <1>4, <1>5, <1>6, <1>7 DEF Inv

\* What the deleter does to the objects t lets go of.
LEMMA LetGoFacts ==
    ASSUME TypeOK, RefInv, NEW t \in Threads \union {Destruction}, LetGo(t)
    PROVE  /\ object' \in [Objects -> {"none", "alive", "handed", "dying", "gone"}]
           /\ destroyer' \in [Objects -> Threads \union {Destruction}]
           /\ pending' \subseteq Objects
           /\ destruction' \in {"unborn", "open", "ended"}
           /\ \A o \in Objects : object'[o] = object[o]
                                 \/ /\ object[o] = "alive" /\ o \notin Referenced'
                                    /\ object'[o] \in {"handed", "dying"}
           /\ \A o \in pending' : object'[o] = "handed"
           /\ \A o \in Objects : object'[o] = "dying" =>
                                 \/ object[o] = "dying" /\ destroyer'[o] = destroyer[o]
                                 \/ destroyer'[o] = t /\ t \notin Procs
<1> DEFINE last == {o \in Objects : object[o] = "alive" /\ o \notin Referenced'}
<1>1. /\ object \in [Objects -> {"none", "alive", "handed", "dying", "gone"}]
      /\ destroyer \in [Objects -> Threads \union {Destruction}]
      /\ pending \subseteq Objects
      /\ destruction \in {"unborn", "open", "ended"}
      /\ \A o \in pending : object[o] = "handed"
  BY DEF TypeOK, RefInv
<1>2. CASE IsRuntime(t)
  <2>1. /\ object' = [o \in Objects |-> IF o \in last THEN "handed" ELSE object[o]]
        /\ pending' = pending \union last
        /\ destruction' \in {destruction, "open"}
        /\ destroyer' = destroyer
    BY <1>2 DEF LetGo
  <2>2. last \subseteq Objects /\ \A o \in last : object[o] = "alive" /\ o \notin Referenced'
    OBVIOUS
  <2> HIDE DEF last
  <2> QED
    BY <1>1, <2>1, <2>2
<1>3. CASE ~IsRuntime(t)
  <2>1. /\ object' = [o \in Objects |-> IF o \in last THEN "dying" ELSE object[o]]
        /\ destroyer' = [o \in Objects |-> IF o \in last THEN t ELSE destroyer[o]]
        /\ pending' = pending /\ destruction' = destruction
        /\ t \notin Procs
    BY <1>3 DEF LetGo, IsRuntime
  <2>2. last \subseteq Objects /\ \A o \in last : object[o] = "alive" /\ o \notin Referenced'
    OBVIOUS
  <2> HIDE DEF last
  <2>3. \A o \in Objects : object'[o] = "dying" =>
            \/ object[o] = "dying" /\ destroyer'[o] = destroyer[o]
            \/ destroyer'[o] = t /\ t \notin Procs
    BY <1>1, <2>1, <2>2
  <2>4. \A o \in pending' : object'[o] = "handed"
    BY <1>1, <2>1, <2>2
  <2> QED
    BY <1>1, <2>1, <2>2, <2>3, <2>4
<1> QED
  BY <1>2, <1>3

\* Letting go never leaves a reference to what is destroyed.
LEMMA LetGoInv ==
    ASSUME Inv, NEW t \in Threads \union {Destruction}, LetGo(t),
           Referenced' \subseteq Referenced, UNCHANGED life
    PROVE  /\ RefInv' /\ LifeInv' /\ DestroyedOffRuntimeThreads'
           /\ object[OS] \in {"dying", "gone"} => object'[OS] = object[OS]
           /\ object'[OS] = "gone" => object[OS] = "gone"
<1>1. /\ \A o \in Objects : object'[o] = object[o]
                            \/ /\ object[o] = "alive" /\ o \notin Referenced'
                               /\ object'[o] \in {"handed", "dying"}
      /\ \A o \in pending' : object'[o] = "handed"
      /\ \A o \in Objects : object'[o] = "dying" =>
                            \/ object[o] = "dying" /\ destroyer'[o] = destroyer[o]
                            \/ destroyer'[o] = t /\ t \notin Procs
  BY LetGoFacts DEF Inv
<1>2. OS \in Objects /\ Procs \subseteq Objects
  BY DEF Objects
<1>3. RefInv'
  <2>1. \A o \in Objects : o \in Referenced => object[o] = "alive"
    BY DEF Inv, RefInv
  <2>2. \A o \in Objects : o \in Referenced' => object'[o] = "alive"
    BY <1>1, <2>1
  <2> QED
    BY <1>1, <2>2 DEF RefInv
<1>4. LifeInv'
  BY <1>1, <1>2 DEF Inv, LifeInv
<1>5. DestroyedOffRuntimeThreads'
  BY <1>1 DEF Inv, DestroyedOffRuntimeThreads, IsRuntime
<1> QED
  BY <1>1, <1>2, <1>3, <1>4, <1>5

\* A thread that is in a call finds the OS alive.
LEMMA DoorIsOpen ==
    ASSUME Inv, NEW t \in Threads, door[t]
    PROVE  object[OS] = "alive" /\ pass = 0
<1>1. OS \in Referenced /\ OS \in Objects
  BY DEF Referenced, Objects
<1>2. object[OS] = "alive"
  BY <1>1 DEF Inv, RefInv
<1> QED
  BY <1>2 DEF Inv, DrainInv, TypeOK

-----------------------------------------------------------------------------
(* One lemma for each group of actions.                                    *)

LEMMA CallInv ==
    ASSUME Inv, NEW t \in Threads, EnterCall(t) \/ GetRunningProcesses(t)
    PROVE  Inv'
<1>1. /\ holds' \in [Threads -> SUBSET Procs] /\ door' \in [Threads -> BOOLEAN]
      /\ UNCHANGED <<mainAt, life, stop, objectVars, table, startVars, drainVars>>
      /\ \A u \in Threads : door[u] => door'[u]
  <2>1. CASE EnterCall(t)
    <3>1. PICK self \in SUBSET ({t} \intersect Referenced) :
              holds' = [holds EXCEPT ![t] = @ \union self]
      BY <2>1 DEF EnterCall, Enter
    <3>2. t \in Procs
      BY <2>1 DEF EnterCall, Enter, IsRuntime
    <3> QED
      BY <2>1, <3>1, <3>2 DEF EnterCall, Enter, Inv, TypeOK
  <2>2. CASE GetRunningProcesses(t)
    BY <2>2 DEF GetRunningProcesses, Inv, TypeOK
  <2> QED
    BY <2>1, <2>2
<1>2. TypeOK'
  BY <1>1 DEF Inv, TypeOK, objectVars, startVars, drainVars
<1>3. Referenced' \subseteq Referenced
  <2>1. CASE EnterCall(t)
    <3>1. PICK self \in SUBSET ({t} \intersect Referenced) :
              holds' = [holds EXCEPT ![t] = @ \union self]
      BY <2>1 DEF EnterCall, Enter
    <3>2. /\ OS \in Referenced /\ door' = [door EXCEPT ![t] = TRUE]
          /\ UNCHANGED <<table, drained, started>>
      BY <2>1 DEF EnterCall, Enter, startVars, drainVars
    <3>3. \A o \in Referenced' : o = OS \/ o \in self \/ o \in Referenced
      BY <3>1, <3>2 DEF Referenced, Inv, TypeOK
    <3> QED
      BY <3>2, <3>3
  <2>2. CASE GetRunningProcesses(t)
    <3>1. /\ holds' = [holds EXCEPT ![t] = @ \union table]
          /\ UNCHANGED <<table, drained, started, door>>
      BY <2>2 DEF GetRunningProcesses, startVars, drainVars
    <3> QED
      BY <3>1 DEF Referenced, Inv, TypeOK
  <2> QED
    BY <2>1, <2>2
<1>4. RefInv' /\ LifeInv' /\ DestroyedOffRuntimeThreads'
  <2>1. UNCHANGED <<object, pending, destroyer, life>>
    BY <1>1 DEF objectVars
  <2>2. RefInv'
    BY <1>3, <2>1 DEF Inv, RefInv
  <2> QED
    BY <2>1, <2>2 DEF Inv, LifeInv, DestroyedOffRuntimeThreads
<1>5. StartInv' /\ DrainInv' /\ TrackedInv'
  BY <1>1 DEF Inv, StartInv, DrainInv, TrackedInv, objectVars, startVars, drainVars
<1> QED
  BY <1>2, <1>4, <1>5 DEF Inv

LEMMA LetGoOfProcessInv ==
    ASSUME Inv, NEW t \in Threads, NEW p \in Procs, LetGoOfProcess(t, p)
    PROVE  Inv'
<1>1. /\ holds' = [holds EXCEPT ![t] = @ \ {p}]
      /\ LetGo(t)
      /\ UNCHANGED <<mainAt, life, stop, table, door, step, started,
                     drained, asked, awaited, pass>>
  BY DEF LetGoOfProcess, startVars, drainVars
<1>2. TypeOK'
  <2>1. holds' \in [Threads -> SUBSET Procs]
    BY <1>1 DEF Inv, TypeOK
  <2> QED
    BY <1>1, <2>1, LetGoFacts DEF Inv, TypeOK
<1>3. Referenced' \subseteq Referenced
  BY <1>1 DEF Referenced, Inv, TypeOK
<1>4. StartInv' /\ TrackedInv'
  BY <1>1 DEF Inv, StartInv, TrackedInv
<1>5. DrainInv'
  BY <1>1, <1>3, LetGoInv DEF Inv, DrainInv
<1> QED
  BY <1>1, <1>2, <1>3, <1>4, <1>5, LetGoInv DEF Inv

LEMMA LetGoOfOSInv ==
    ASSUME Inv, NEW t \in Threads, LetGoOfOS(t)
    PROVE  Inv'
<1>1. /\ door' = [door EXCEPT ![t] = FALSE] /\ step[t] = "none"
      /\ LetGo(t)
      /\ UNCHANGED <<mainAt, life, stop, table, holds, step, started,
                     drained, asked, awaited, pass>>
  BY DEF LetGoOfOS, startVars, drainVars
<1>2. TypeOK'
  <2>1. door' \in [Threads -> BOOLEAN]
    BY <1>1 DEF Inv, TypeOK
  <2> QED
    BY <1>1, <2>1, LetGoFacts DEF Inv, TypeOK
<1>3. Referenced' \subseteq Referenced
  BY <1>1 DEF Referenced, Inv, TypeOK
<1>4. StartInv' /\ TrackedInv'
  BY <1>1 DEF Inv, StartInv, TrackedInv, TypeOK
<1>5. DrainInv'
  BY <1>1, <1>3, LetGoInv DEF Inv, DrainInv
<1> QED
  BY <1>1, <1>2, <1>3, <1>4, <1>5, LetGoInv DEF Inv

LEMMA StartProcessInv ==
    ASSUME Inv, NEW t \in Threads, StartProcess(t)
    PROVE  Inv'
<1>un. Unfinished \subseteq table /\ \A p \in table : life[p] = "running" => p \in Unfinished
  BY DEF Unfinished
<1>1. CASE CheckLimit(t)
  <2>1. /\ table' = Unfinished /\ door[t]
        /\ step' \in {[step EXCEPT ![t] = "checked"], [step EXCEPT ![t] = "none"]}
        /\ step[t] = "none"
        /\ LetGo(t)
        /\ UNCHANGED <<mainAt, life, stop, holds, door, started,
                       drained, asked, awaited, pass>>
    BY <1>1 DEF CheckLimit, drainVars
  <2>2. TypeOK'
    <3>1. table' \subseteq Procs /\ step' \in [Threads -> {"none", "checked", "created"}]
      BY <1>un, <2>1 DEF Inv, TypeOK
    <3> QED
      BY <2>1, <3>1, LetGoFacts DEF Inv, TypeOK
  <2>3. Referenced' \subseteq Referenced
    BY <1>un, <2>1 DEF Referenced
  <2>4. StartInv' /\ TrackedInv'
    BY <1>un, <2>1 DEF Inv, StartInv, TrackedInv, TypeOK
  <2>5. DrainInv'
    BY <2>1, DoorIsOpen, <2>3, LetGoInv DEF Inv, DrainInv
  <2> QED
    BY <2>1, <2>2, <2>3, <2>4, <2>5, LetGoInv DEF Inv
<1>2. CASE StartFails(t)
  <2>1. /\ step[t] = "checked" /\ step' = [step EXCEPT ![t] = "none"]
        /\ UNCHANGED <<mainAt, life, stop, object, destroyer, pending, destruction, table,
                       holds, door, started, drained, asked, awaited, pass>>
    BY <1>2 DEF StartFails, objectVars, drainVars
  <2>2. TypeOK'
    BY <2>1 DEF Inv, TypeOK
  <2>3. Referenced' = Referenced
    BY <2>1 DEF Referenced
  <2>4. StartInv'
    BY <2>1 DEF Inv, StartInv, TypeOK
  <2> QED
    BY <2>1, <2>2, <2>3, <2>4
       DEF Inv, RefInv, LifeInv, DestroyedOffRuntimeThreads, DrainInv, TrackedInv
<1>3. CASE \E p \in Procs : Create(t, p)
  <2> PICK p \in Procs : Create(t, p)
    BY <1>3
  <2>1. /\ step[t] = "checked" /\ object[p] = "none"
        /\ object' = [object EXCEPT ![p] = "alive"]
        /\ life' = [life EXCEPT ![p] = "running"]
        /\ started' = [started EXCEPT ![t] = p]
        /\ step' = [step EXCEPT ![t] = "created"]
        /\ UNCHANGED <<mainAt, stop, destroyer, pending, destruction, table,
                       holds, door, drained, asked, awaited, pass>>
    BY DEF Create, drainVars
  <2>2. TypeOK'
    <3>1. p \in Objects
      BY DEF Objects
    <3> QED
      BY <2>1, <3>1 DEF Inv, TypeOK
  <2>3. p \in Objects /\ OS \in Objects /\ p # OS /\ started[t] \notin Procs /\ door[t]
    BY <2>1, NamesAssumption DEF Objects, Inv, StartInv
  <2>4. RefInv'
    <3>1. \A o \in Referenced' : o = p \/ o \in Referenced
      BY <2>1, <2>3 DEF Referenced, Inv, TypeOK
    <3>2. \A o \in Objects : o \in Referenced' => object'[o] = "alive"
      BY <2>1, <2>3, <3>1 DEF Inv, RefInv, TypeOK
    <3>3. \A o \in pending' : object'[o] = "handed"
      BY <2>1 DEF Inv, RefInv, TypeOK
    <3> QED
      BY <3>2, <3>3 DEF RefInv
  <2>5. LifeInv'
    BY <2>1, <2>3 DEF Inv, LifeInv, TypeOK, Objects
  <2>6. DestroyedOffRuntimeThreads'
    BY <2>1, <2>3 DEF Inv, DestroyedOffRuntimeThreads, TypeOK
  <2>7. StartInv'
    BY <2>1, <2>3 DEF Inv, StartInv, TypeOK
  <2>8. DrainInv'
    BY <2>1, <2>3, DoorIsOpen DEF Inv, DrainInv, TypeOK
  <2>9. TrackedInv'
    <3> SUFFICES ASSUME NEW q \in Procs, life'[q] = "running", ~stop'[q]
                 PROVE  q \in table' \/ q \in drained' \ asked'
                        \/ \E u \in Threads : started'[u] = q
      BY DEF TrackedInv
    <3>1. CASE q = p
      BY <2>1, <3>1 DEF Inv, TypeOK
    <3>2. CASE q # p
      BY <2>1, <2>3, <3>2 DEF Inv, TrackedInv, TypeOK
    <3> QED
      BY <3>1, <3>2
  <2> QED
    BY <2>2, <2>4, <2>5, <2>6, <2>7, <2>8, <2>9 DEF Inv
<1>4. CASE Push(t)
  <2>1. /\ step[t] = "created"
        /\ table' = Unfinished \union {started[t]}
        /\ holds' = [holds EXCEPT ![t] = @ \union {started[t]}]
        /\ started' = [started EXCEPT ![t] = NoProcess]
        /\ step' = [step EXCEPT ![t] = "none"]
        /\ LetGo(t)
        /\ UNCHANGED <<mainAt, life, stop, door, drained, asked, awaited, pass>>
    BY <1>4 DEF Push, Tracked, drainVars
  <2>2. started[t] \in Procs /\ door[t]
    BY <2>1 DEF Inv, StartInv
  <2>3. TypeOK'
    <3>1. /\ table' \subseteq Procs /\ step' \in [Threads -> {"none", "checked", "created"}]
          /\ holds' \in [Threads -> SUBSET Procs]
          /\ started' \in [Threads -> Procs \union {NoProcess}]
      BY <1>un, <2>1, <2>2 DEF Inv, TypeOK
    <3> QED
      BY <2>1, <3>1, LetGoFacts DEF Inv, TypeOK
  <2>4. Referenced' \subseteq Referenced
    <3>1. started[t] \in Referenced
      BY <2>2 DEF Referenced, Objects
    <3>2. \A o \in Referenced' : o \in Referenced \/ o = started[t] \/ o = NoProcess
      BY <1>un, <2>1 DEF Referenced, Inv, TypeOK
    <3>3. NoProcess = OS \/ NoProcess \notin Objects
      BY NamesAssumption DEF Objects
    <3>4. \A o \in Objects : started'[t] # o \/ o = OS
      BY <2>1, <3>3 DEF Inv, TypeOK
    <3>5. OS \in Referenced
      BY <2>2 DEF Referenced, Objects
    <3> QED
      BY <3>1, <3>2, <3>3, <3>5 DEF Referenced
  <2>5. StartInv'
    BY <2>1, NamesAssumption DEF Inv, StartInv, TypeOK
  <2>6. TrackedInv'
    BY <1>un, <2>1 DEF Inv, TrackedInv, TypeOK
  <2>7. DrainInv'
    BY <2>1, <2>2, DoorIsOpen, <2>4, LetGoInv DEF Inv, DrainInv
  <2> QED
    BY <2>1, <2>3, <2>4, <2>5, <2>6, <2>7, LetGoInv DEF Inv
<1> QED
  BY <1>1, <1>2, <1>3, <1>4 DEF StartProcess

LEMMA ProcessInv ==
    ASSUME Inv, NEW p \in Procs,
           (\E t \in Threads : TriggerStop(t, p)) \/ Finish(p) \/ StopDying(p) \/ JoinDying(p)
    PROVE  Inv'
<1> DEFINE Rest == UNCHANGED <<mainAt, destroyer, pending, destruction, table, holds, door,
                               step, started, drained, asked, awaited, pass>>
<1>1. CASE (\E t \in Threads : TriggerStop(t, p)) \/ StopDying(p)
  <2>1. Rest /\ UNCHANGED <<life, object>> /\ stop' = [stop EXCEPT ![p] = TRUE]
    BY <1>1 DEF TriggerStop, StopDying, AskToStop, objectVars, startVars, drainVars
  <2>2. TypeOK'
    BY <2>1 DEF Inv, TypeOK
  <2>3. Referenced' = Referenced
    BY <2>1 DEF Referenced
  <2>4. TrackedInv'
    BY <2>1 DEF Inv, TrackedInv, TypeOK
  <2> QED
    BY <2>1, <2>2, <2>3, <2>4
       DEF Inv, RefInv, LifeInv, DestroyedOffRuntimeThreads, StartInv, DrainInv
<1>2. CASE Finish(p)
  <2>1. Rest /\ UNCHANGED <<stop, object>> /\ life' = [life EXCEPT ![p] = "over"]
        /\ life[p] = "running"
    BY <1>2, NamesAssumption DEF Finish, Runs, objectVars, startVars, drainVars
  <2>2. TypeOK'
    BY <2>1 DEF Inv, TypeOK
  <2>3. Referenced' = Referenced
    BY <2>1 DEF Referenced
  <2>4. TrackedInv' /\ LifeInv'
    BY <2>1 DEF Inv, TrackedInv, LifeInv, TypeOK
  <2> QED
    BY <2>1, <2>2, <2>3, <2>4
       DEF Inv, RefInv, DestroyedOffRuntimeThreads, StartInv, DrainInv
<1>3. CASE JoinDying(p)
  <2>1. Rest /\ UNCHANGED <<stop, life>> /\ object' = [object EXCEPT ![p] = "gone"]
        /\ object[p] = "dying" /\ life[p] = "over"
    BY <1>3 DEF JoinDying, Joined, startVars, drainVars
  <2>2. p \in Objects /\ p # OS /\ OS \in Objects
    BY NamesAssumption DEF Objects
  <2>3. TypeOK'
    BY <2>1, <2>2 DEF Inv, TypeOK
  <2>4. Referenced' = Referenced
    BY <2>1 DEF Referenced
  <2>5. RefInv'
    BY <2>1, <2>2, <2>4 DEF Inv, RefInv, TypeOK
  <2>6. LifeInv' /\ DestroyedOffRuntimeThreads'
    BY <2>1, <2>2 DEF Inv, LifeInv, DestroyedOffRuntimeThreads, TypeOK
  <2> QED
    BY <2>1, <2>2, <2>3, <2>5, <2>6 DEF Inv, StartInv, DrainInv, TrackedInv, TypeOK
<1> QED
  BY <1>1, <1>2, <1>3

LEMMA DestroysOSInv ==
    ASSUME Inv, SwapTable \/ DrainedOrTimedOut
                \/ \E p \in Procs : DrainProcess(p) \/ LetGoOfDrained(p)
    PROVE  Inv'
<1>os. OS \in Objects /\ \A p \in Procs : p # OS
  BY NamesAssumption DEF Objects
<1>1. CASE SwapTable
  <2>1. /\ object[OS] = "dying" /\ drained = {} /\ pass < MaxDrainPasses
        /\ drained' = table /\ table' = {} /\ pass' = pass + 1
        /\ object' = [object EXCEPT ![OS] = IF table = {} THEN "gone" ELSE "dying"]
        /\ UNCHANGED <<mainAt, life, stop, destroyer, pending, destruction, holds, door,
                       step, started, asked, awaited>>
    BY <1>1 DEF SwapTable, DestroysOS, startVars
  <2>2. TypeOK'
    <3>1. pass' \in 0..MaxDrainPasses
      BY <2>1, LimitsAssumption DEF Inv, TypeOK
    <3> QED
      BY <2>1, <3>1 DEF Inv, TypeOK
  <2>3. RefInv'
    <3>1. Referenced' = Referenced
      BY <2>1 DEF Referenced
    <3> QED
      BY <1>os, <2>1, <3>1 DEF Inv, RefInv, TypeOK
  <2>4. LifeInv' /\ DestroyedOffRuntimeThreads'
    BY <1>os, <2>1 DEF Inv, LifeInv, DestroyedOffRuntimeThreads, TypeOK
  <2>5. DrainInv'
    BY <1>os, <2>1 DEF Inv, DrainInv, TypeOK
  <2>6. TrackedInv'
    BY <2>1 DEF Inv, TrackedInv, TypeOK
  <2> QED
    BY <2>1, <2>2, <2>3, <2>4, <2>5, <2>6 DEF Inv, StartInv
<1>2. CASE DrainedOrTimedOut
  <2>1. awaited' = NoProcess
        /\ UNCHANGED <<mainAt, life, stop, object, destroyer, pending, destruction, table,
                       holds, door, step, started, drained, asked, pass>>
    BY <1>2 DEF DrainedOrTimedOut, objectVars, startVars
  <2>2. TypeOK' /\ Referenced' = Referenced
    BY <2>1 DEF Inv, TypeOK, Referenced
  <2> QED
    BY <2>1, <2>2 DEF Inv, RefInv, LifeInv, DestroyedOffRuntimeThreads, StartInv, DrainInv,
                      TrackedInv
<1>3. ASSUME NEW p \in Procs, DrainProcess(p)
      PROVE  Inv'
  <2>1. /\ p \in drained /\ asked' = asked \union {p} /\ awaited' = p
        /\ stop' = [stop EXCEPT ![p] = TRUE]
        /\ UNCHANGED <<mainAt, life, object, destroyer, pending, destruction, table,
                       holds, door, step, started, drained, pass>>
    BY <1>3 DEF DrainProcess, AskToStop, objectVars, startVars
  <2>2. TypeOK' /\ Referenced' = Referenced
    BY <2>1 DEF Inv, TypeOK, Referenced
  <2>3. TrackedInv'
    BY <2>1 DEF Inv, TrackedInv, TypeOK
  <2> QED
    BY <2>1, <2>2, <2>3 DEF Inv, RefInv, LifeInv, DestroyedOffRuntimeThreads, StartInv, DrainInv
<1>4. ASSUME NEW p \in Procs, LetGoOfDrained(p)
      PROVE  Inv'
  <2>1. /\ object[OS] = "dying" /\ awaited = NoProcess /\ asked = drained
        /\ drained' = drained \ {p} /\ asked' = asked \ {p}
        /\ LetGo(destroyer[OS])
        /\ UNCHANGED <<mainAt, life, stop, table, holds, door, step, started, awaited, pass>>
    BY <1>4 DEF LetGoOfDrained, DestroysOS, startVars
  <2>2. destroyer[OS] \in Threads \union {Destruction}
    BY <1>os DEF Inv, TypeOK
  <2>3. TypeOK'
    BY <2>1, <2>2, LetGoFacts DEF Inv, TypeOK
  <2>4. Referenced' \subseteq Referenced
    BY <2>1 DEF Referenced
  <2>5. StartInv' /\ TrackedInv'
    BY <2>1 DEF Inv, StartInv, TrackedInv
  <2>6. DrainInv'
    BY <2>1, <2>2, <2>4, LetGoInv DEF Inv, DrainInv
  <2> QED
    BY <2>1, <2>2, <2>3, <2>4, <2>5, <2>6, LetGoInv DEF Inv
<1> QED
  BY <1>1, <1>2, <1>3, <1>4

LEMMA EndInv ==
    ASSUME Inv, DestructionStep \/ MainStep
    PROVE  Inv'
<1>1. ASSUME NEW o \in Objects, TakePending(o)
      PROVE  Inv'
  <2>1. /\ o \in pending /\ pending' = pending \ {o}
        /\ object' = [object EXCEPT ![o] = "dying"]
        /\ destroyer' = [destroyer EXCEPT ![o] = Destruction]
        /\ UNCHANGED <<mainAt, life, stop, destruction, table, holds, door, step, started,
                       drained, asked, awaited, pass>>
    BY <1>1 DEF TakePending, startVars, drainVars
  <2>2. object[o] = "handed" /\ OS \in Objects /\ Procs \subseteq Objects
    BY <2>1 DEF Inv, RefInv, Objects
  <2>3. TypeOK'
    BY <2>1 DEF Inv, TypeOK
  <2>4. RefInv'
    <3>1. Referenced' = Referenced
      BY <2>1 DEF Referenced
    <3> QED
      BY <2>1, <2>2, <3>1 DEF Inv, RefInv, TypeOK
  <2>5. LifeInv'
    BY <2>1, <2>2 DEF Inv, LifeInv, TypeOK
  <2>6. DestroyedOffRuntimeThreads'
    <3>1. ~IsRuntime(Destruction)
      BY NamesAssumption DEF IsRuntime, Threads
    <3>2. \A u \in Objects : destroyer'[u] = IF u = o THEN Destruction ELSE destroyer[u]
      BY <2>1 DEF Inv, TypeOK
    <3>3. \A u \in Objects : object'[u] = "dying" => u = o \/ object[u] = "dying"
      BY <2>1 DEF Inv, TypeOK
    <3>4. \A u \in Objects : object'[u] = "dying" => ~IsRuntime(destroyer'[u])
      BY <3>1, <3>2, <3>3 DEF Inv, DestroyedOffRuntimeThreads, IsRuntime
    <3> QED
      BY <3>4 DEF DestroyedOffRuntimeThreads, IsRuntime
  <2>7. DrainInv'
    BY <2>1, <2>2 DEF Inv, DrainInv, TypeOK
  <2> QED
    BY <2>1, <2>3, <2>4, <2>5, <2>6, <2>7 DEF Inv, StartInv, TrackedInv
<1>2. CASE DestructionEnds \/ MainStep
  <2>1. /\ destruction' \in {"unborn", "open", "ended"}
        /\ mainAt' \in {"start", "release", "exiting", "ended"}
        /\ UNCHANGED <<life, stop, object, destroyer, pending, table, holds, door, step, started,
                       drained, asked, awaited, pass>>
    BY <1>2 DEF DestructionEnds, MainStep, WaitedForRuns, Return, Exit, Inv, TypeOK, objectVars,
                startVars, drainVars
  <2>2. TypeOK'
    BY <2>1 DEF Inv, TypeOK
  <2>3. Referenced' = Referenced
    BY <2>1 DEF Referenced
  <2> QED
    BY <2>1, <2>2, <2>3 DEF Inv, RefInv, LifeInv, DestroyedOffRuntimeThreads, StartInv, DrainInv,
                            TrackedInv
<1> QED
  BY <1>1, <1>2 DEF DestructionStep

LEMMA NextInv == Inv /\ [Next]_vars => Inv'
<1> SUFFICES ASSUME Inv, [Next]_vars PROVE Inv'
  OBVIOUS
<1>1. CASE \E t \in Threads : ProgramStep(t)
  BY <1>1, CallInv, StartProcessInv, LetGoOfOSInv, LetGoOfProcessInv, ProcessInv DEF ProgramStep
<1>2. CASE \E p \in Procs : Finish(p)
  BY <1>2, ProcessInv
<1>3. CASE DestructorStep
  BY <1>3, ProcessInv, DestroysOSInv DEF DestructorStep
<1>4. CASE DestructionStep \/ MainStep
  BY <1>4, EndInv
<1>5. CASE UNCHANGED vars
  <2>1. UNCHANGED <<mainAt, life, stop, object, destroyer, pending, destruction, table, holds,
                    door, step, started, drained, asked, awaited, pass>>
    BY <1>5 DEF vars, objectVars, startVars, drainVars
  <2>2. TypeOK' /\ Referenced' = Referenced
    BY <2>1 DEF Inv, TypeOK, Referenced
  <2> QED
    BY <2>1, <2>2 DEF Inv, RefInv, LifeInv, DestroyedOffRuntimeThreads, StartInv, DrainInv,
                      TrackedInv
<1> QED
  BY <1>1, <1>2, <1>3, <1>4, <1>5 DEF Next

LEMMA InvHolds == Spec => []Inv
<1> QED
  BY InitInv, NextInv, PTL DEF Spec

-----------------------------------------------------------------------------
(* The theorems.                                                           *)

\* The variables of the OS, its processes and the destruction thread keep their
\* types (HaisosOS.h, DestroyOffRuntimeThreads.h).
THEOREM TypeCorrect == Spec => []TypeOK
<1>1. Inv => TypeOK
  BY DEF Inv
<1> QED
  BY InvHolds, <1>1, PTL

\* The deleter keeps every destructor that waits off the runtime threads
\* (DestroyOffRuntimeThreads::operator()).
THEOREM NoThreadDestroysItsOwner == Spec => []DestroyedOffRuntimeThreads
<1>1. Inv => DestroyedOffRuntimeThreads
  BY DEF Inv
<1> QED
  BY InvHolds, <1>1, PTL

\* No thread uses a process or an OS that has been destroyed.
THEOREM ReferencesAreSafe == Spec => []NoUseAfterDestruction
<1>1. Inv => NoUseAfterDestruction
  BY DEF Inv, RefInv, LifeInv, NoUseAfterDestruction
<1> QED
  BY InvHolds, <1>1, PTL

\* ~HaisosOS needs no pass but the first: nobody can start a process any more.
THEOREM OnePassIsEnough == Spec => []SecondPassFindsNothing
<1>1. Inv => SecondPassFindsNothing
  BY DEF Inv, DrainInv, SecondPassFindsNothing
<1> QED
  BY InvHolds, <1>1, PTL

\* ~HaisosOS leaves no process running that it has not asked to stop.
THEOREM NoProcessIsForgotten == Spec => []GoneOSStoppedItsProcesses
<1>1. ASSUME Inv, object[OS] = "gone", NEW p \in Procs, life[p] = "running"
      PROVE  stop[p]
  <2>1. table = {} /\ drained = {}
    BY <1>1 DEF Inv, DrainInv
  <2>2. \A t \in Threads : ~door[t]
    BY <1>1, DoorIsOpen
  <2>3. \A t \in Threads : started[t] \notin Procs
    BY <1>1, <2>2 DEF Inv, StartInv
  <2>4. stop[p] \in BOOLEAN
    BY <1>1 DEF Inv, TypeOK
  <2> QED
    BY <1>1, <2>1, <2>3, <2>4 DEF Inv, TrackedInv
<1>2. Inv => GoneOSStoppedItsProcesses
  BY <1>1 DEF GoneOSStoppedItsProcesses
<1> QED
  BY InvHolds, <1>2, PTL

\* Once the OS is let go of no process starts: StartProcess needs a reference.
THEOREM NothingStartsAfterShutdown == Spec => NoStartAfterShutdown
<1>1. ASSUME Inv, [Next]_vars, object[OS] # "alive", NEW p \in Procs, life[p] = "none"
      PROVE  life'[p] = "none"
  <2>1. \A t \in Threads : step[t] = "none"
    BY <1>1, DoorIsOpen DEF Inv, StartInv
  <2>2. CASE UNCHANGED life
    BY <1>1, <2>2
  <2>3. CASE \E q \in Procs : Finish(q)
    <3>1. PICK q \in Procs : Finish(q)
      BY <2>3
    <3>2. life' = [life EXCEPT ![q] = "over"] /\ life[q] = "running"
      BY <3>1, NamesAssumption DEF Finish, Runs
    <3> QED
      BY <1>1, <3>2 DEF Inv, TypeOK
  <2>4. CASE \E t \in Threads : StartProcess(t)
    BY <2>1, <2>2, <2>4 DEF StartProcess, CheckLimit, StartFails, Create, Push
  <2>5. CASE \E t \in Threads :
                 EnterCall(t) \/ GetRunningProcesses(t) \/ LetGoOfOS(t)
                 \/ \E q \in Procs : LetGoOfProcess(t, q) \/ TriggerStop(t, q)
    BY <2>2, <2>5 DEF EnterCall, GetRunningProcesses, LetGoOfOS, LetGoOfProcess, TriggerStop
  <2>6. CASE DestructorStep
    BY <2>2, <2>6 DEF DestructorStep, SwapTable, DrainedOrTimedOut, StopDying, JoinDying,
                      DrainProcess, LetGoOfDrained
  <2>7. CASE DestructionStep \/ MainStep
    BY <2>2, <2>7 DEF DestructionStep, DestructionEnds, TakePending, MainStep, WaitedForRuns,
                      Return, Exit
  <2>8. CASE UNCHANGED vars
    BY <2>2, <2>8 DEF vars
  <2> QED
    BY <1>1, <2>3, <2>4, <2>5, <2>6, <2>7, <2>8 DEF Next, ProgramStep
<1>2. Inv /\ [Next]_vars =>
          (object[OS] # "alive" => \A p \in Procs : life[p] = "none" => life'[p] = "none")
  BY <1>1
<1> QED
  BY InvHolds, <1>2, PTL DEF Spec, NoStartAfterShutdown
=============================================================================
