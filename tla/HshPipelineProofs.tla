------------------------- MODULE HshPipelineProofs --------------------------
(***************************************************************************)
(* Proofs about HshPipeline for any number of stages, every combination of *)
(* programs and stages inside the shell, and pipes of any capacity.  The   *)
(* inductive invariant says, phase by phase, which stages have begun and   *)
(* which ends of the pipes the shell still holds for those that have not.  *)
(***************************************************************************)
EXTENDS HshPipeline, FiniteSetTheorems, TLAPS

\* Who has begun in each phase.
PhaseInv ==
    /\ phase = "pipes" => \A i \in Stages : at[i] = "new"
    /\ phase = "pipes" => shellReads = 1..made /\ shellWrites = 1..made
    /\ phase = "start" => \A i \in Stages : ~child[i] => at[i] = "new"
    /\ phase \in {"run", "wait"} => \A i \in Stages : child[i] => at[i] # "new"
    /\ phase = "wait" => \A i \in Stages : ~child[i] => at[i] = "over"
    /\ phase = "done" /\ ~childrenStopped => \A i \in Stages : at[i] # "running"
    /\ \A i \in Stages : ~child[i] /\ at[i] = "running" => phase = "run"

\* A read end the shell holds is for a stage that has not ended; the write end
\* of a stage that has not begun is the shell's.
EndsInv ==
    /\ phase # "pipes" =>
           \A p \in shellReads : at[p + 1] = "new" \/ (~child[p + 1] /\ at[p + 1] = "running")
    /\ phase \in {"start", "run", "wait"} =>
           \A p \in Pipes : at[p] = "new" => p \in shellWrites
    /\ phase \in {"stopping", "done"} => shellReads = {}

StopInv ==
    /\ phase = "stopping" => stopped /\ childrenStopped
    /\ childrenStopped => phase \in {"stopping", "done"}

Inv == TypeOK /\ PhaseInv /\ EndsInv /\ StopInv /\ EndOfInputIsReal

\* A byte in a pipe is one its writer has spent, and only a writer with bytes
\* left begins a write.
BytesInv ==
    /\ \A p \in Pipes : buffered[p] + budget[p] <= Budget
    /\ \A i \in Stages : op[i] = "write" => budget[i] > 0

\* The initial state satisfies it.
LEMMA InitInv == Init => Inv
<1> SUFFICES ASSUME Init PROVE Inv
  OBVIOUS
<1>1. TypeOK
  <2>1. /\ buffered \in [Pipes -> 0..Budget] /\ budget \in [Stages -> 0..Budget]
        /\ \A p \in Pipes : buffered[p] <= Capacity
        /\ made \in 0..(N - 1)
    BY StagesAssumption, BytesAssumption DEF Init
  <2> QED
    BY <2>1 DEF Init, TypeOK, ChildStages
<1>2. PhaseInv
  <2>1. 1..made = {}
    BY DEF Init
  <2> QED
    BY <2>1 DEF Init, PhaseInv
<1>3. EndsInv /\ StopInv
  BY DEF Init, EndsInv, StopInv
<1>4. EndOfInputIsReal
  BY DEF Init, EndOfInputIsReal, Stages
<1> QED
  BY <1>1, <1>2, <1>3, <1>4 DEF Inv

\* The types survive a step that leaves the pipes' bytes alone.
LEMMA SameBytes ==
    ASSUME TypeOK, UNCHANGED <<child, buffered>>
    PROVE  \A p \in Pipes : Unbounded(p)' \/ buffered'[p] <= Capacity
BY DEF TypeOK, Unbounded

\* A stop that leaves the pipeline keeps the invariant.
LEMMA UnwindInv ==
    ASSUME Inv, stopped, Unwind
    PROVE  Inv'
<1>1. TypeOK'
  BY SameBytes DEF Inv, Unwind, TypeOK
<1>2. PhaseInv' /\ EndsInv' /\ StopInv' /\ EndOfInputIsReal'
  BY DEF Inv, Unwind, TypeOK, PhaseInv, EndsInv, StopInv, EndOfInputIsReal, Stages
<1> QED
  BY <1>1, <1>2 DEF Inv

\* So does the end of a stage.
LEMMA EndInv ==
    ASSUME Inv, NEW i \in Stages, at[i] = "running", End(i)
    PROVE  Inv'
<1>1. TypeOK'
  BY SameBytes DEF Inv, End, ReleaseFor, shellVars, TypeOK
<1>2. at' = [at EXCEPT ![i] = "over"] /\ phase' = phase /\ UNCHANGED <<child, stopped, childrenStopped, eof>>
  BY DEF End, shellVars
<1>3. phase # "pipes"
  BY DEF Inv, PhaseInv
<1>4. PhaseInv'
  <2>1. \A j \in Stages : at'[j] = IF j = i THEN "over" ELSE at[j]
    BY <1>2 DEF Inv, TypeOK
  <2>2. phase \notin {"start"} \/ child[i]
    BY DEF Inv, PhaseInv
  <2> QED
    BY <1>2, <1>3, <2>1, <2>2 DEF Inv, PhaseInv
<1>5. EndsInv'
  <2>1. CASE child[i]
    <3>1. shellReads' = shellReads /\ shellWrites' = shellWrites
      BY <2>1 DEF End, shellVars
    <3>2. ASSUME NEW p \in shellReads PROVE p + 1 # i /\ p + 1 \in Stages
      <4>1. p + 1 \in Stages
        BY StagesAssumption DEF Inv, TypeOK, Pipes, Stages
      <4>2. at[p + 1] = "new" \/ ~child[p + 1]
        BY <1>3 DEF Inv, EndsInv
      <4> QED
        BY <2>1, <4>1, <4>2
    <3>3. \A j \in Stages : at'[j] = IF j = i THEN "over" ELSE at[j]
      BY <1>2 DEF Inv, TypeOK
    <3>4. \A p \in Pipes : p \in Stages
      BY StagesAssumption DEF Pipes, Stages
    <3> QED
      BY <1>2, <1>3, <3>1, <3>2, <3>3, <3>4 DEF Inv, EndsInv
  <2>2. CASE ~child[i]
    <3>1. shellReads' = shellReads \ {i - 1} /\ shellWrites' = shellWrites \ {i}
      BY <2>2 DEF End, ReleaseFor
    <3>2. \A p \in shellReads' : p + 1 # i
      BY <3>1 DEF Inv, TypeOK, Pipes, Stages
    <3> QED
      BY <1>2, <1>3, <3>1, <3>2 DEF Inv, TypeOK, EndsInv, Pipes, Stages
  <2> QED
    BY <2>1, <2>2
<1>6. StopInv'
  BY <1>2 DEF Inv, StopInv
<1>7. EndOfInputIsReal'
  BY <1>2 DEF Inv, TypeOK, EndOfInputIsReal, Stages
<1> QED
  BY <1>1, <1>4, <1>5, <1>6, <1>7 DEF Inv

\* A stage that goes on changes nothing the shell's invariants speak of.
LEMMA GoesOn ==
    ASSUME Inv, UNCHANGED <<child, shellVars, at, stopped, childrenStopped>>
    PROVE  PhaseInv' /\ EndsInv' /\ StopInv'
BY DEF Inv, shellVars, PhaseInv, EndsInv, StopInv

\* A reader reaches the end of its input only behind a stage that is over.
LEMMA EndIsReal ==
    ASSUME Inv, NEW i \in Stages, i > 1, at[i] = "running", ~WriteEndOpen(i - 1)
    PROVE  at[i - 1] = "over" \/ childrenStopped
<1>1. i - 1 \in Stages /\ i - 1 \in Pipes
  BY StagesAssumption DEF Stages, Pipes
<1>2. at[i - 1] # "running" /\ i - 1 \notin shellWrites
  BY DEF WriteEndOpen
<1>3. phase # "pipes"
  BY DEF Inv, PhaseInv
<1>4. phase \in {"start", "run", "wait"} => at[i - 1] # "new"
  BY <1>1, <1>2 DEF Inv, EndsInv
<1>5. phase \in {"stopping", "done"} => childrenStopped
  BY DEF Inv, StopInv, PhaseInv
<1> QED
  BY <1>1, <1>2, <1>3, <1>4, <1>5 DEF Inv, TypeOK

\* The steps of the shell keep the invariant.
LEMMA ShellInv ==
    ASSUME Inv, ShellStep
    PROVE  Inv'
<1>1. CASE MakePipe
  <2>1. TypeOK'
    BY <1>1, StagesAssumption, SameBytes
    DEF MakePipe, stageVars, Inv, TypeOK, Pipes
  <2>2. PhaseInv'
    <3>1. made \in Nat /\ 1..(made + 1) = (1..made) \union {made + 1}
      BY StagesAssumption DEF Inv, TypeOK
    <3> QED
      BY <1>1, <3>1 DEF MakePipe, stageVars, Inv, PhaseInv
  <2>3. EndsInv' /\ StopInv' /\ EndOfInputIsReal'
    BY <1>1 DEF MakePipe, stageVars, Inv, EndsInv, StopInv, EndOfInputIsReal
  <2> QED
    BY <2>1, <2>2, <2>3 DEF Inv
<1>2. CASE PipeFails
  <2>1. TypeOK'
    BY <1>2, SameBytes DEF PipeFails, stageVars, Inv, TypeOK
  <2>2. PhaseInv' /\ EndsInv' /\ StopInv' /\ EndOfInputIsReal'
    BY <1>2 DEF PipeFails, stageVars, Inv, PhaseInv, EndsInv, StopInv, EndOfInputIsReal
  <2> QED
    BY <2>1, <2>2 DEF Inv
<1>3. CASE PipesMade
  <2>1. TypeOK'
    BY <1>3, SameBytes DEF PipesMade, stageVars, Inv, TypeOK
  <2>2. PhaseInv' /\ StopInv' /\ EndOfInputIsReal'
    BY <1>3 DEF PipesMade, stageVars, Inv, PhaseInv, StopInv, EndOfInputIsReal
  <2>3. EndsInv'
    <3>1. shellReads = Pipes /\ shellWrites = Pipes
      BY <1>3 DEF PipesMade, Inv, PhaseInv, Pipes
    <3>2. \A q \in Pipes : q + 1 \in Stages
      BY StagesAssumption DEF Pipes, Stages
    <3> QED
      BY <1>3, <3>1, <3>2 DEF PipesMade, stageVars, Inv, PhaseInv, EndsInv
  <2> QED
    BY <2>1, <2>2, <2>3 DEF Inv
<1>4. ASSUME NEW i \in Stages, StartStage(i) PROVE Inv'
  <2>1. /\ \A j \in Stages \ {i} : at'[j] = at[j]
        /\ at'[i] \in {"running", "over"} /\ at[i] = "new" /\ child[i] /\ phase = "start"
        /\ shellReads' = shellReads \ {i - 1} /\ shellWrites' = shellWrites \ {i}
        /\ UNCHANGED <<child, phase, made, op, eof, budget, buffered, stopped, childrenStopped>>
    BY <1>4 DEF StartStage, ReleaseFor, Inv, TypeOK
  <2>2. TypeOK'
    BY <1>4, <2>1, SameBytes DEF StartStage, Inv, TypeOK
  <2>3. PhaseInv'
    BY <2>1 DEF Inv, PhaseInv
  <2>4. EndsInv'
    <3>1. ASSUME NEW p \in shellReads' PROVE p + 1 # i /\ p + 1 \in Stages /\ p \in shellReads
      BY <2>1, StagesAssumption DEF Inv, TypeOK, Pipes, Stages
    <3>2. \A p \in Pipes : p \in Stages
      BY StagesAssumption DEF Pipes, Stages
    <3> QED
      BY <2>1, <3>1, <3>2 DEF Inv, EndsInv
  <2>5. StopInv'
    BY <2>1 DEF Inv, StopInv
  <2>6. EndOfInputIsReal'
    <3>1. \A j \in 2..N : j - 1 \in Stages
      BY StagesAssumption DEF Stages
    <3> QED
      BY <2>1, <3>1 DEF Inv, EndOfInputIsReal
  <2> QED
    BY <2>2, <2>3, <2>4, <2>5, <2>6 DEF Inv
<1>5. CASE Started
  <2>1. TypeOK'
    BY <1>5, SameBytes DEF Started, stageVars, Inv, TypeOK
  <2>2. PhaseInv' /\ EndsInv' /\ StopInv' /\ EndOfInputIsReal'
    BY <1>5 DEF Started, stageVars, Inv, PhaseInv, EndsInv, StopInv, EndOfInputIsReal
  <2> QED
    BY <2>1, <2>2 DEF Inv
<1>6. ASSUME NEW i \in Stages, RunStage(i) PROVE Inv'
  <2>1. /\ \A j \in Stages \ {i} : at'[j] = at[j]
        /\ at'[i] = "running" /\ at[i] = "new" /\ ~child[i] /\ phase = "run"
        /\ UNCHANGED <<child, phase, made, shellReads, shellWrites, op, eof, budget,
                       buffered, stopped, childrenStopped>>
    BY <1>6 DEF RunStage, shellVars, Inv, TypeOK
  <2>2. TypeOK'
    BY <1>6, <2>1, SameBytes DEF RunStage, Inv, TypeOK
  <2>3. PhaseInv'
    BY <2>1 DEF Inv, PhaseInv
  <2>4. EndsInv'
    <3>1. \A p \in Pipes : p \in Stages /\ p + 1 \in Stages
      BY StagesAssumption DEF Pipes, Stages
    <3>2. \A p \in shellReads : p \in Pipes
      BY DEF Inv, TypeOK
    <3> QED
      BY <2>1, <3>1, <3>2 DEF Inv, EndsInv
  <2>5. StopInv'
    BY <2>1 DEF Inv, StopInv
  <2>6. EndOfInputIsReal'
    <3>1. \A j \in 2..N : j - 1 \in Stages
      BY StagesAssumption DEF Stages
    <3> QED
      BY <2>1, <3>1 DEF Inv, EndOfInputIsReal
  <2> QED
    BY <2>2, <2>3, <2>4, <2>5, <2>6 DEF Inv
<1>7. CASE HasRun
  <2>1. TypeOK'
    BY <1>7, SameBytes DEF HasRun, stageVars, Inv, TypeOK
  <2>2. PhaseInv' /\ EndsInv' /\ StopInv' /\ EndOfInputIsReal'
    BY <1>7 DEF HasRun, stageVars, Inv, PhaseInv, EndsInv, StopInv, EndOfInputIsReal
  <2> QED
    BY <2>1, <2>2 DEF Inv
<1>8. CASE StopSeen
  BY <1>8, UnwindInv DEF StopSeen
<1>9. CASE Waited
  <2>1. TypeOK'
    BY <1>9, SameBytes DEF Waited, stageVars, Inv, TypeOK
  <2>2. PhaseInv' /\ StopInv' /\ EndOfInputIsReal'
    BY <1>9 DEF Waited, stageVars, Inv, PhaseInv, StopInv, EndOfInputIsReal
  <2>3. EndsInv'
    <3>1. \A p \in shellReads : p + 1 \in Stages
      BY StagesAssumption DEF Inv, TypeOK, Pipes, Stages
    <3>2. shellReads = {}
      BY <1>9, <3>1 DEF Waited, Inv, EndsInv
    <3> QED
      BY <1>9, <3>2 DEF Waited, EndsInv
  <2> QED
    BY <2>1, <2>2, <2>3 DEF Inv
<1>10. CASE StopEnds
  <2>1. TypeOK'
    BY <1>10, SameBytes DEF StopEnds, stageVars, Inv, TypeOK
  <2>2. PhaseInv' /\ EndsInv' /\ StopInv' /\ EndOfInputIsReal'
    BY <1>10 DEF StopEnds, stageVars, Inv, PhaseInv, EndsInv, StopInv, EndOfInputIsReal
  <2> QED
    BY <2>1, <2>2 DEF Inv
<1> QED
  BY <1>1, <1>2, <1>3, <1>4, <1>5, <1>6, <1>7, <1>8, <1>9, <1>10 DEF ShellStep

\* The steps of a stage keep the invariant.
LEMMA StageInv ==
    ASSUME Inv, BytesInv, NEW i \in Stages, StageStep(i)
    PROVE  Inv'
<1>1. CASE Think(i)
  <2>1. TypeOK'
    BY <1>1, SameBytes DEF Think, shellVars, Inv, TypeOK
  <2>2. EndOfInputIsReal'
    BY <1>1 DEF Think, Inv, EndOfInputIsReal
  <2> QED
    BY <1>1, <2>1, <2>2, GoesOn DEF Think, Inv
<1>2. CASE Exit(i)
  BY <1>2, EndInv DEF Exit
<1>3. CASE Read(i)
  <2>0. at[i] = "running"
    BY <1>3 DEF Read
  <2>1. CASE /\ i > 1 /\ buffered[i - 1] > 0
             /\ buffered' = [buffered EXCEPT ![i - 1] = @ - 1]
             /\ op' = [op EXCEPT ![i] = "think"]
             /\ UNCHANGED <<child, shellVars, at, eof, budget, stopped, childrenStopped>>
    <3>1. i - 1 \in Pipes
      BY <2>1, StagesAssumption DEF Stages, Pipes
    <3>2. buffered[i - 1] \in 0..Budget /\ buffered[i - 1] - 1 \in 0..Budget
      BY <2>1, <3>1, BytesAssumption DEF Inv, TypeOK
    <3>3. \A p \in Pipes : Unbounded(p)' \/ buffered'[p] <= Capacity
      <4> SUFFICES ASSUME NEW p \in Pipes, ~Unbounded(p)' PROVE buffered'[p] <= Capacity
        OBVIOUS
      <4>1. buffered[p] <= Capacity /\ buffered[p] \in 0..Budget
        BY <2>1 DEF Inv, TypeOK, Unbounded
      <4>2. buffered'[p] = IF p = i - 1 THEN buffered[p] - 1 ELSE buffered[p]
        BY <2>1, <3>1 DEF Inv, TypeOK
      <4> QED
        BY <4>1, <4>2, BytesAssumption
    <3>4. TypeOK'
      BY <2>1, <3>1, <3>2, <3>3 DEF shellVars, Inv, TypeOK
    <3>5. EndOfInputIsReal'
      BY <2>1 DEF Inv, EndOfInputIsReal
    <3> QED
      BY <2>1, <3>4, <3>5, GoesOn DEF Inv
  <2>2. CASE /\ i > 1 => buffered[i - 1] = 0 /\ ~WriteEndOpen(i - 1)
             /\ eof' = [eof EXCEPT ![i] = TRUE]
             /\ op' = [op EXCEPT ![i] = "think"]
             /\ UNCHANGED <<child, shellVars, at, budget, buffered, stopped, childrenStopped>>
    <3>1. TypeOK'
      BY <2>2, SameBytes DEF shellVars, Inv, TypeOK
    <3>2. i > 1 => at[i - 1] = "over" \/ childrenStopped
      BY <2>0, <2>2, EndIsReal
    <3>3. EndOfInputIsReal'
      BY <2>2, <3>2, StagesAssumption DEF Inv, TypeOK, EndOfInputIsReal, Stages
    <3> QED
      BY <2>2, <3>1, <3>3, GoesOn DEF Inv
  <2>3. CASE Interrupted(i) /\ (IF child[i] THEN End(i) ELSE Unwind)
    BY <2>0, <2>3, EndInv, UnwindInv DEF Interrupted
  <2> QED
    BY <1>3, <2>1, <2>2, <2>3 DEF Read
<1>4. CASE Write(i)
  <2>0. at[i] = "running"
    BY <1>4 DEF Write
  <2>1. CASE /\ i < N => ReadEndOpen(i) /\ ~Full(i)
             /\ buffered' = IF i < N THEN [buffered EXCEPT ![i] = @ + 1] ELSE buffered
             /\ budget' = [budget EXCEPT ![i] = @ - 1]
             /\ op' = [op EXCEPT ![i] = "think"]
             /\ UNCHANGED <<child, shellVars, at, eof, stopped, childrenStopped>>
    <3>1. TypeOK'
      <4>1. budget[i] > 0 /\ budget' \in [Stages -> 0..Budget]
        BY <1>4, <2>1, BytesAssumption DEF Write, Inv, TypeOK, BytesInv
      <4>2. ASSUME i < N
            PROVE  /\ i \in Pipes /\ buffered[i] + 1 \in 0..Budget
                   /\ Unbounded(i) \/ buffered[i] + 1 <= Capacity
        <5>1. i \in Pipes /\ buffered[i] \in 0..Budget /\ budget[i] \in 0..Budget
          BY <4>2, StagesAssumption DEF Stages, Pipes, Inv, TypeOK
        <5>2. buffered[i] + budget[i] <= Budget /\ (Unbounded(i) \/ buffered[i] <= Capacity)
          BY <5>1 DEF BytesInv, Inv, TypeOK
        <5>3. Unbounded(i) \/ buffered[i] # Capacity
          BY <2>1, <4>2 DEF Full
        <5> QED
          BY <4>1, <5>1, <5>2, <5>3, BytesAssumption
      <4>3. buffered' \in [Pipes -> 0..Budget]
        BY <2>1, <4>2 DEF Inv, TypeOK
      <4>4. \A p \in Pipes : Unbounded(p)' \/ buffered'[p] <= Capacity
        BY <2>1, <4>2 DEF Inv, TypeOK, Unbounded
      <4> QED
        BY <2>1, <4>1, <4>3, <4>4 DEF shellVars, Inv, TypeOK
    <3>2. EndOfInputIsReal'
      BY <2>1 DEF Inv, EndOfInputIsReal
    <3> QED
      BY <2>1, <3>1, <3>2, GoesOn DEF Inv
  <2>2. CASE End(i)
    BY <2>0, <2>2, EndInv
  <2>3. CASE Interrupted(i) /\ (IF child[i] THEN End(i) ELSE Unwind)
    BY <2>0, <2>3, EndInv, UnwindInv DEF Interrupted
  <2> QED
    BY <1>4, <2>1, <2>2, <2>3 DEF Write, BrokenPipe
<1> QED
  BY <1>1, <1>2, <1>3, <1>4 DEF StageStep

\* Bytes enter a pipe only out of their writer's budget.
LEMMA BytesStep ==
    ASSUME TypeOK, BytesInv, [Next]_vars
    PROVE  BytesInv'
<1>1. CASE UNCHANGED <<op, budget, buffered>>
  BY <1>1 DEF BytesInv
<1>2. ASSUME NEW i \in Stages, StageStep(i), ~UNCHANGED <<op, budget, buffered>>
      PROVE  BytesInv'
  <2>0. /\ \A p \in Pipes : p \in Stages
        /\ buffered \in [Pipes -> Int] /\ budget \in [Stages -> Int]
    BY StagesAssumption, BytesAssumption DEF Pipes, Stages, TypeOK
  <2>1. CASE Think(i)
    BY <2>1 DEF Think, BytesInv, TypeOK
  <2>2. CASE Exit(i)
    BY <1>2, <2>2 DEF Exit, End
  <2>3. CASE Read(i)
    <3>1. /\ op' = [op EXCEPT ![i] = "think"] /\ UNCHANGED budget
          /\ \/ UNCHANGED buffered
             \/ i > 1 /\ buffered' = [buffered EXCEPT ![i - 1] = @ - 1]
      BY <1>2, <2>3 DEF Read, End, Unwind
    <3>2. \A p \in Pipes : buffered'[p] <= buffered[p]
      BY <2>0, <3>1
    <3>3. buffered' \in [Pipes -> Int]
      <4>1. CASE UNCHANGED buffered
        BY <2>0, <4>1
      <4>2. CASE buffered' = [buffered EXCEPT ![i - 1] = @ - 1]
        <5>1. \A p \in Pipes : [buffered EXCEPT ![i - 1] = @ - 1][p] \in Int
          BY <2>0
        <5> QED
          BY <2>0, <4>2, <5>1
      <4> QED
        BY <3>1, <4>1, <4>2
    <3> QED
      BY <2>0, <3>1, <3>2, <3>3, BytesAssumption DEF BytesInv, TypeOK
  <2>4. CASE Write(i)
    <3>1. /\ op' = [op EXCEPT ![i] = "think"] /\ budget' = [budget EXCEPT ![i] = @ - 1]
          /\ \/ buffered' = [buffered EXCEPT ![i] = @ + 1]
             \/ buffered' = buffered
      BY <1>2, <2>4 DEF Write, BrokenPipe, End, Unwind
    <3>2. \A p \in Pipes : buffered'[p] + budget'[p] <= buffered[p] + budget[p]
      BY <2>0, <3>1
    <3>3. \A p \in Pipes : buffered'[p] + budget'[p] \in Int
      BY <2>0, <3>1
    <3>4. \A p \in Pipes : buffered'[p] + budget'[p] <= Budget
      BY <2>0, <3>2, <3>3, BytesAssumption DEF BytesInv
    <3>5. \A j \in Stages : op'[j] = "write" => j # i /\ op[j] = "write" /\ budget'[j] = budget[j]
      BY <2>0, <3>1 DEF TypeOK
    <3> QED
      BY <3>4, <3>5 DEF BytesInv
  <2> QED
    BY <1>2, <2>1, <2>2, <2>3, <2>4 DEF StageStep
<1>3. CASE ShellStep
  BY <1>1, <1>3 DEF ShellStep, MakePipe, PipeFails, PipesMade, Started, HasRun, StopSeen,
     Unwind, Waited, StopEnds, StartStage, RunStage, stageVars
<1>4. CASE TriggerStop
  BY <1>1, <1>4 DEF TriggerStop, stageVars
<1> QED
  BY <1>1, <1>2, <1>3, <1>4 DEF Next, vars, stageVars

\* Every step keeps the invariant.
LEMMA NextInv == Inv /\ BytesInv /\ [Next]_vars => Inv'
<1> SUFFICES ASSUME Inv, BytesInv, [Next]_vars PROVE Inv'
  OBVIOUS
<1>1. CASE TriggerStop
  <2>1. TypeOK'
    BY <1>1, SameBytes DEF TriggerStop, stageVars, shellVars, Inv, TypeOK
  <2>2. PhaseInv' /\ EndsInv' /\ StopInv' /\ EndOfInputIsReal'
    BY <1>1 DEF TriggerStop, stageVars, shellVars, Inv, PhaseInv, EndsInv, StopInv, EndOfInputIsReal
  <2> QED
    BY <2>1, <2>2 DEF Inv
<1>2. CASE UNCHANGED vars
  <2>1. TypeOK'
    BY <1>2, SameBytes DEF vars, stageVars, shellVars, Inv, TypeOK
  <2>2. PhaseInv' /\ EndsInv' /\ StopInv' /\ EndOfInputIsReal'
    BY <1>2 DEF vars, stageVars, shellVars, Inv, PhaseInv, EndsInv, StopInv, EndOfInputIsReal
  <2> QED
    BY <2>1, <2>2 DEF Inv
<1> QED
  BY <1>1, <1>2, ShellInv, StageInv DEF Next

LEMMA InitBytes == Init => BytesInv
BY StagesAssumption, BytesAssumption DEF Init, BytesInv, Pipes, Stages

LEMMA InvHolds == Spec => []Inv
<1>1. Inv => TypeOK
  BY DEF Inv
<1>2. Inv /\ BytesInv /\ [Next]_vars => Inv' /\ BytesInv'
  BY <1>1, NextInv, BytesStep
<1> QED
  BY InitInv, InitBytes, <1>2, PTL DEF Spec

-----------------------------------------------------------------------------
(* Why the pipeline cannot deadlock.                                       *)

\* Pass 2 runs the stages inside the shell in their order, each to its end.
OrderInv ==
    \A i, j \in Stages : i < j /\ ~child[i] /\ ~child[j] /\ at[j] # "new" => at[i] = "over"

\* A write end the shell still holds is for a stage yet to begin, or for the one
\* that runs inside it.
WriteEndsInv ==
    phase \in {"start", "run", "wait"} =>
        \A p \in shellWrites : at[p] = "new" \/ (~child[p] /\ at[p] = "running")

PassInv == OrderInv /\ WriteEndsInv

LEMMA InitPass == Init => PassInv
BY DEF Init, PassInv, OrderInv, WriteEndsInv

\* The shell that leaves the pipeline has no pass left to run.
LEMMA UnwindPass ==
    ASSUME Inv, PassInv, Unwind
    PROVE  PassInv'
BY DEF Unwind, Inv, TypeOK, PassInv, OrderInv, WriteEndsInv

\* The end of a stage lets the next one inside the shell begin.
LEMMA EndPass ==
    ASSUME Inv, PassInv, NEW i \in Stages, at[i] = "running", End(i)
    PROVE  PassInv'
<1>1. /\ \A j \in Stages : at'[j] = IF j = i THEN "over" ELSE at[j]
      /\ UNCHANGED <<child, phase>>
  BY DEF End, shellVars, Inv, TypeOK
<1>2. OrderInv'
  BY <1>1 DEF PassInv, OrderInv
<1>3. WriteEndsInv'
  <2> SUFFICES ASSUME phase \in {"start", "run", "wait"}, NEW p \in shellWrites'
               PROVE  at'[p] = "new" \/ (~child[p] /\ at'[p] = "running")
    BY <1>1 DEF WriteEndsInv
  <2>1. p \in shellWrites /\ (~child[i] => p # i)
    BY DEF End, ReleaseFor, shellVars
  <2>2. p \in Stages
    BY <2>1, StagesAssumption DEF Inv, TypeOK, Pipes, Stages
  <2>3. at[p] = "new" \/ (~child[p] /\ at[p] = "running")
    BY <2>1 DEF PassInv, WriteEndsInv
  <2>4. p # i
    BY <2>1, <2>3
  <2> QED
    BY <1>1, <2>2, <2>3, <2>4
<1> QED
  BY <1>2, <1>3 DEF PassInv

\* Every step keeps the order of the passes.
LEMMA PassStep == Inv /\ PassInv /\ [Next]_vars => PassInv'
<1> SUFFICES ASSUME Inv, PassInv, [Next]_vars PROVE PassInv'
  OBVIOUS
<1>0. /\ \A p \in Pipes : p \in Stages
      /\ shellWrites \in SUBSET Pipes
      /\ at \in [Stages -> {"new", "running", "over"}]
  BY StagesAssumption DEF Pipes, Stages, Inv, TypeOK
<1>1. ASSUME UNCHANGED <<child, at, shellWrites>>,
             phase' = phase \/ phase' \in {"stopping", "done"} \/ phase \in {"start", "run"}
      PROVE  PassInv'
  BY <1>1 DEF PassInv, OrderInv, WriteEndsInv
<1>2. ASSUME MakePipe \/ PipeFails PROVE PassInv'
  BY <1>2 DEF MakePipe, PipeFails, stageVars, PassInv, OrderInv, WriteEndsInv
<1>3. ASSUME PipesMade PROVE PassInv'
  <2>1. UNCHANGED <<child, at, shellWrites>> /\ \A i \in Stages : at[i] = "new"
    BY <1>3 DEF PipesMade, stageVars, Inv, PhaseInv
  <2> QED
    BY <1>0, <2>1 DEF PassInv, OrderInv, WriteEndsInv
<1>4. ASSUME NEW i \in Stages, StartStage(i) PROVE PassInv'
  <2>1. /\ \A j \in Stages : j # i => at'[j] = at[j]
        /\ child[i] /\ shellWrites' = shellWrites \ {i} /\ UNCHANGED <<child, phase>>
    BY <1>0, <1>4 DEF StartStage, ReleaseFor
  <2>2. OrderInv'
    BY <2>1 DEF PassInv, OrderInv
  <2>3. WriteEndsInv'
    BY <1>0, <2>1 DEF PassInv, WriteEndsInv
  <2> QED
    BY <2>2, <2>3 DEF PassInv
<1>5. ASSUME NEW i \in Stages, RunStage(i) PROVE PassInv'
  <2>1. /\ \A j \in Stages : at'[j] = IF j = i THEN "running" ELSE at[j]
        /\ ~child[i] /\ UNCHANGED <<child, phase, shellWrites>>
        /\ \A j \in 1..(i - 1) : ~child[j] => at[j] = "over"
    BY <1>0, <1>5 DEF RunStage, shellVars
  <2>2. OrderInv'
    <3> SUFFICES ASSUME NEW j \in Stages, NEW k \in Stages, j < k, ~child[j], ~child[k],
                        at'[k] # "new"
                 PROVE  at'[j] = "over"
      BY <2>1 DEF OrderInv
    <3>1. CASE k = i
      <4>1. j \in 1..(i - 1) /\ j # i
        BY <3>1, StagesAssumption DEF Stages
      <4> QED
        BY <2>1, <4>1
    <3>2. CASE k # i
      <4>1. at[j] = "over"
        BY <2>1, <3>2 DEF PassInv, OrderInv
      <4>2. j # i
        BY <1>5, <4>1 DEF RunStage
      <4> QED
        BY <2>1, <4>1, <4>2
    <3> QED
      BY <3>1, <3>2
  <2>3. WriteEndsInv'
    BY <1>0, <2>1 DEF PassInv, WriteEndsInv
  <2> QED
    BY <2>2, <2>3 DEF PassInv
<1>6. ASSUME Started \/ HasRun \/ Waited \/ StopEnds PROVE PassInv'
  BY <1>1, <1>6 DEF Started, HasRun, Waited, StopEnds, stageVars
<1>7. ASSUME StopSeen PROVE PassInv'
  BY <1>7, UnwindPass DEF StopSeen
<1>8. ASSUME NEW i \in Stages, StageStep(i) PROVE PassInv'
  <2>1. at[i] = "running"
    BY <1>8 DEF StageStep, Think, Exit, Read, Write
  <2>2. \/ UNCHANGED <<child, phase, at, shellWrites>>
        \/ End(i)
        \/ Unwind
    BY <1>8 DEF StageStep, Think, Exit, Read, Write, BrokenPipe, shellVars
  <2> QED
    BY <1>1, <2>1, <2>2, EndPass, UnwindPass
<1>9. ASSUME TriggerStop \/ UNCHANGED vars PROVE PassInv'
  BY <1>1, <1>9 DEF TriggerStop, vars, shellVars, stageVars
<1> QED
  BY <1>2, <1>3, <1>4, <1>5, <1>6, <1>7, <1>8, <1>9 DEF Next, ShellStep

LEMMA PassHolds == Spec => []PassInv
<1>1. Inv /\ BytesInv /\ PassInv /\ [Next]_vars => Inv' /\ BytesInv' /\ PassInv'
  <2>1. Inv => TypeOK
    BY DEF Inv
  <2> QED
    BY <2>1, NextInv, BytesStep, PassStep
<1> QED
  BY InitInv, InitBytes, InitPass, <1>1, PTL DEF Spec

\* A set of numbers that is not empty has a least element.
LEMMA LeastElement ==
    ASSUME NEW T, T \subseteq Nat, T # {}
    PROVE  \E m \in T : \A n \in T : m <= n
<1> DEFINE F == {0..m : m \in T}
<1>1. \A m \in T : m \in Int /\ 0..m \subseteq Nat /\ IsFiniteSet(0..m)
  BY FS_Interval
<1>2. F \subseteq FiniteSubsetsOf(Nat) /\ F # {}
  BY <1>1 DEF FiniteSubsetsOf
<1>3. PICK f \in F : \A g \in F : ~(<<g, f>> \in StrictSubsetOrdering(Nat))
  <2> HIDE DEF F
  <2> QED
    BY <1>2, WFMin, FS_StrictSubsetOrderingWellFounded, Zenon
<1>4. PICK m \in T : f = 0..m
  OBVIOUS
<1>5. ASSUME NEW n \in T, n < m
      PROVE  FALSE
  <2>1. 0..n \subseteq 0..m /\ 0..n # 0..m
    BY <1>5
  <2>2. <<0..n, 0..m>> \in (SUBSET Nat) \X (SUBSET Nat)
    BY <1>1
  <2>3. <<0..n, 0..m>> \in StrictSubsetOrdering(Nat)
    BY <2>1, <2>2 DEF StrictSubsetOrdering
  <2>4. 0..n \in F
    OBVIOUS
  <2> QED
    BY <2>3, <2>4, <1>3, <1>4
<1> QED
  BY <1>5

-----------------------------------------------------------------------------
\* A bounded pipe never holds more than its capacity, and the shell holds ends
\* of the pipeline's own pipes only.
THEOREM TypeCorrect == Spec => []TypeOK
<1>1. Inv => TypeOK
  BY DEF Inv
<1> QED
  BY InvHolds, <1>1, PTL

\* A stage that waits for room has a reader that runs, or that the shell is about to
\* run with nothing before it in the way.
LEMMA RoomHasReader == Inv => BlockedWriterHasReader
<1> SUFFICES ASSUME Inv, NEW p \in Pipes, at[p] = "running", Full(p),
                    at[p + 1] # "running"
             PROVE  \/ phase = "start" /\ at[p + 1] = "new" /\ child[p + 1]
                    \/ /\ phase \in {"start", "run"} /\ at[p + 1] = "new"
                       /\ \A i \in 1..p : child[i]
  BY DEF BlockedWriterHasReader
<1>1. p \in shellReads /\ p \in Stages /\ p + 1 \in Stages
  BY StagesAssumption DEF Full, ReadEndOpen, Pipes, Stages
<1>2. phase # "pipes"
  BY <1>1 DEF Inv, PhaseInv
<1>3. at[p + 1] = "new"
  BY <1>1, <1>2 DEF Inv, EndsInv
<1>4. phase \in {"start", "run", "wait"}
  BY <1>1, <1>2 DEF Inv, TypeOK, EndsInv
<1>5. CASE child[p + 1]
  BY <1>1, <1>3, <1>4, <1>5 DEF Inv, PhaseInv
<1>6. CASE ~child[p + 1]
  <2>1. phase # "wait"
    BY <1>1, <1>3, <1>6 DEF Inv, PhaseInv
  <2>2. \A i \in 1..p : child[i]
    BY <1>6 DEF Full, Unbounded
  <2> QED
    BY <1>3, <1>4, <2>1, <2>2
<1> QED
  BY <1>5, <1>6

\* The argument the code gives for "why this cannot deadlock": whoever waits
\* for room in a pipe has a reader that runs, or that the shell is about to run
\* with nothing before it that could block.
THEOREM BlockedWritersHaveReaders == Spec => []BlockedWriterHasReader
BY InvHolds, RoomHasReader, PTL

\* The last of some stages.
LEMMA LastStage ==
    ASSUME NEW S, S \subseteq Stages, S # {}
    PROVE  \E m \in S : \A i \in S : i <= m
<1> DEFINE T == {N - i : i \in S}
<1>1. N \in Nat /\ \A i \in S : i \in 1..N
  BY StagesAssumption DEF Stages
<1>2. T \subseteq Nat /\ T # {}
  BY <1>1
<1>3. PICK n \in T : \A k \in T : n <= k
  <2> HIDE DEF T
  <2> QED
    BY <1>2, LeastElement
<1>4. PICK m \in S : n = N - m
  BY <1>3
<1>5. ASSUME NEW i \in S PROVE i <= m
  <2>1. N - m <= N - i
    BY <1>3, <1>4
  <2> QED
    BY <1>1, <2>1
<1> QED
  BY <1>5

\* Of the stages of a pipeline that is not over some can go on, if the shell cannot.
\* The last stage that waits for room would need a reader that does not run; the
\* first one that waits for bytes, a writer that neither runs nor is over.  The shell
\* runs both of these next, unless it waits for a stage that comes before them.
LEMMA NoCircle == Inv /\ PassInv => SomebodyGoesOn
<1> SUFFICES ASSUME Inv, PassInv, ~Finished, ShellWaits,
                    \A i \in Stages : at[i] = "running" => WaitsForBytes(i) \/ WaitsForRoom(i)
             PROVE  FALSE
  BY DEF SomebodyGoesOn
<1>0. /\ N \in Nat /\ N > 1 /\ Capacity \in Nat /\ Capacity > 0
      /\ \A i \in Stages : i \in 1..N
      /\ \A i \in 1..N : i \in Stages
      /\ \A p \in 1..(N - 1) : p \in Pipes
      /\ \A i \in Stages : at[i] \in {"new", "running", "over"}
  BY StagesAssumption, BytesAssumption DEF Stages, Pipes, Inv, TypeOK
<1>1. PICK r \in Stages : at[r] = "running"
  <2>1. CASE phase = "done"
    BY <2>1 DEF Finished
  <2>2. CASE phase = "run"
    BY <2>2 DEF ShellWaits
  <2>3. CASE phase = "wait"
    <3>1. PICK i \in Stages : at[i] # "over"
      BY <2>3 DEF ShellWaits
    <3>2. at[i] # "new"
      BY <2>3, <3>1 DEF Inv, PhaseInv
    <3> QED
      BY <1>0, <3>1, <3>2
  <2> QED
    BY <2>1, <2>2, <2>3 DEF ShellWaits
<1>2. phase \in {"run", "wait"}
  <2> SUFFICES ASSUME phase = "done" PROVE FALSE
    BY DEF ShellWaits
  <2>1. childrenStopped
    BY <1>1 DEF Inv, PhaseInv
  <2>2. child[r]
    BY <1>1 DEF Inv, PhaseInv
  <2>3. WaitsForBytes(r) \/ WaitsForRoom(r)
    BY <1>1
  <2> QED
    BY <2>1, <2>2, <2>3 DEF WaitsForBytes, WaitsForRoom, Interrupted
<1>3. phase = "run" => \E j \in Stages : ~child[j] /\ at[j] = "running"
  BY DEF ShellWaits
<1>4. \A p \in Stages : at[p] = "new" => phase = "run" /\ ~child[p]
  BY <1>2 DEF Inv, PhaseInv
<1>5. \A i \in Stages : ~WaitsForRoom(i)
  <2> DEFINE W == {i \in Stages : WaitsForRoom(i)}
  <2> SUFFICES ASSUME W # {} PROVE FALSE
    OBVIOUS
  <2>1. PICK m \in W : \A i \in W : i <= m
    <3>1. W \subseteq Stages
      OBVIOUS
    <3> HIDE DEF W
    <3> QED
      BY <3>1, LastStage
  <2>2. m \in Stages /\ WaitsForRoom(m) /\ at[m] = "running" /\ m < N
    BY <2>1 DEF WaitsForRoom
  <2>3. m \in Pipes /\ m + 1 \in Stages /\ m < m + 1 /\ m + 1 - 1 = m /\ ~(m + 1 <= m)
    BY <1>0, <2>2
  <2>4. at[m + 1] = "running" \/ (at[m + 1] = "new" /\ \A i \in 1..m : child[i])
    BY <1>2, <2>2, <2>3, RoomHasReader DEF BlockedWriterHasReader, WaitsForRoom
  <2>5. CASE at[m + 1] = "running"
    <3>1. buffered[m] # 0
      BY <1>0, <2>2 DEF WaitsForRoom, Full
    <3>2. ~WaitsForBytes(m + 1)
      <4> PICK k \in Stages : k = m + 1
        BY <2>3
      <4>1. k - 1 = m
        BY <2>3
      <4>2. ~WaitsForBytes(k)
        BY <3>1, <4>1 DEF WaitsForBytes
      <4> QED
        BY <4>2
    <3>3. m + 1 \in W
      BY <2>3, <2>5, <3>2
    <3> QED
      BY <2>1, <2>3, <3>3
  <2>6. CASE at[m + 1] = "new" /\ \A i \in 1..m : child[i]
    <3>1. phase = "run" /\ ~child[m + 1]
      BY <1>4, <2>3, <2>6
    <3>2. PICK j \in Stages : ~child[j] /\ at[j] = "running"
      BY <1>3, <3>1
    <3>3. m + 1 < j
      <4>1. ~(j \in 1..m) /\ j # m + 1
        BY <2>6, <3>2
      <4> QED
        BY <1>0, <2>2, <4>1
    <3>4. at[m + 1] = "over"
      BY <2>3, <3>1, <3>2, <3>3 DEF PassInv, OrderInv
    <3> QED
      BY <2>6, <3>4
  <2> QED
    BY <2>4, <2>5, <2>6
<1>6. PICK m \in Stages : at[m] = "running" /\ \A i \in Stages : at[i] = "running" => m <= i
  <2> DEFINE R == {i \in Stages : at[i] = "running"}
  <2>1. R \subseteq Nat /\ R # {}
    BY <1>0, <1>1
  <2>2. PICK m \in R : \A i \in R : m <= i
    <3> HIDE DEF R
    <3> QED
      BY <2>1, LeastElement
  <2> QED
    BY <2>2
<1>7. m > 1 /\ WriteEndOpen(m - 1)
  <2>1. WaitsForBytes(m)
    BY <1>5, <1>6
  <2> QED
    BY <2>1 DEF WaitsForBytes
<1>8. m - 1 \in Stages /\ m - 1 < m /\ ~(m <= m - 1)
  BY <1>0, <1>7
<1>9. at[m - 1] # "running"
  BY <1>6, <1>8
<1>10. m - 1 \in shellWrites
  BY <1>7, <1>9 DEF WriteEndOpen
<1>11. at[m - 1] = "new"
  BY <1>2, <1>9, <1>10 DEF PassInv, WriteEndsInv
<1>12. phase = "run" /\ ~child[m - 1]
  BY <1>4, <1>8, <1>11
<1>13. PICK j \in Stages : ~child[j] /\ at[j] = "running"
  BY <1>3, <1>12
<1>14. m - 1 < j
  <2>1. m <= j
    BY <1>6, <1>13
  <2> QED
    BY <1>0, <1>8, <2>1
<1>15. at[m - 1] = "over"
  BY <1>8, <1>12, <1>13, <1>14 DEF PassInv, OrderInv
<1> QED
  BY <1>11, <1>15

\* HshShell.cpp:386-398, "why this cannot deadlock", for pipelines of any length, any
\* mix of programs and stages inside the shell, and pipes of any capacity: at no time do
\* the shell and the stages all wait for one another.
THEOREM PipelinesCannotDeadlock == Spec => []NoDeadlock
<1>1. Inv /\ PassInv => NoDeadlock
  BY RoomHasReader, NoCircle DEF NoDeadlock
<1> QED
  BY InvHolds, PassHolds, <1>1, PTL

\* No stage sees the end of its input while the stage that feeds it has not
\* run, however the shell's passes and the programs interleave.
THEOREM EndsOfInputAreReal == Spec => []EndOfInputIsReal
<1>1. Inv => EndOfInputIsReal
  BY DEF Inv
<1> QED
  BY InvHolds, <1>1, PTL

\* The shell leaves a pipeline early only for a stop.
THEOREM OnlyStopsUnwind == Spec => []OnlyAStopUnwinds
<1>1. Inv => OnlyAStopUnwinds
  BY DEF Inv, StopInv, OnlyAStopUnwinds
<1> QED
  BY InvHolds, <1>1, PTL
=============================================================================
