---------------------------- MODULE HshPipeline -----------------------------
(***************************************************************************)
(* One pipeline of hsh (Shell::ExecutePipelinedStages): the shell makes    *)
(* the pipes, starts every stage that is a program (pass 1), runs the      *)
(* others itself, one after another, each in a subshell (pass 2), and      *)
(* waits for the programs (pass 3).  The stages read, write and end as     *)
(* they like; the shell may be asked to stop at any time.                  *)
(*                                                                         *)
(* A pipe is its number of buffered bytes: Pipe models its inside.  Pipe p *)
(* joins stage p to stage p + 1.  The first stage's input and the last     *)
(* one's output are files, which never block.                              *)
(***************************************************************************)
EXTENDS Integers

CONSTANTS
    N,          \* stages
    Capacity,   \* bytes a bounded pipe holds
    Budget      \* the most bytes a stage writes

ASSUME StagesAssumption == N \in Nat \ {0, 1}
ASSUME BytesAssumption == Capacity \in Nat \ {0} /\ Budget \in Nat

Stages == 1..N
Pipes == 1..(N - 1)

VARIABLES
    child,          \* stage -> IsChildStage
    phase,          \* what the shell does: "pipes", "start", "run", "wait", "stopping", "done"
    made,           \* pipes made so far
    shellReads,     \* the pipes whose read end the shell itself still holds
    shellWrites,    \* the pipes whose write end it still holds
    buffered,       \* pipe -> bytes in it
    at,             \* stage -> "new", "running", "over"
    op,             \* running stage -> "think", "read", "write"
    eof,            \* stage -> it has seen the end of its input
    budget,         \* stage -> bytes it may still write
    stopped,        \* the shell was asked to stop
    childrenStopped \* the shell has passed the stop on

shellVars == <<phase, made, shellReads, shellWrites>>
stageVars == <<at, op, eof, budget, buffered>>
vars == <<child, shellVars, stageVars, stopped, childrenStopped>>

\* Faulty variant: the writer itself is forgotten.
UnboundedAfterEarlier(p) == ~child[p + 1] /\ \E i \in 1..(p - 1) : ~child[i]

\* The reader runs inside the shell, and so does an earlier stage or the writer.
Unbounded(p) == ~child[p + 1] /\ \E i \in 1..p : ~child[i]

ReadEndOpen(p) == p \in shellReads \/ at[p + 1] = "running"
WriteEndOpen(p) == p \in shellWrites \/ at[p] = "running"

\* Somebody has to read before a write of one byte into p goes on.
Full(p) == ~Unbounded(p) /\ buffered[p] = Capacity /\ ReadEndOpen(p)

\* The stage's thread, or the shell's for a stage inside it, was asked to stop.
Interrupted(i) == IF child[i] THEN childrenStopped ELSE stopped

\* Which stages are programs: any, as the words of the commands decide.
ChildStages == [Stages -> BOOLEAN]

Init ==
    /\ child \in ChildStages
    /\ phase = "pipes" /\ made = 0
    /\ shellReads = {} /\ shellWrites = {}
    /\ buffered = [p \in Pipes |-> 0]
    /\ at = [i \in Stages |-> "new"]
    /\ op = [i \in Stages |-> "think"]
    /\ eof = [i \in Stages |-> FALSE]
    /\ budget = [i \in Stages |-> Budget]
    /\ stopped = FALSE /\ childrenStopped = FALSE

-----------------------------------------------------------------------------
(* The shell.                                                              *)

\* Faulty variant: the write ends stay with the shell.
ReleaseReadEnd(i) ==
    /\ shellReads' = shellReads \ {i - 1}
    /\ UNCHANGED shellWrites

\* Faulty variant: both ends of both pipes go.
ReleaseBothEnds(i) ==
    /\ shellReads' = shellReads \ {i - 1, i}
    /\ shellWrites' = shellWrites \ {i - 1, i}

\* Stage i has its ends: the shell drops its own.
ReleaseFor(i) ==
    /\ shellReads' = shellReads \ {i - 1}
    /\ shellWrites' = shellWrites \ {i}

\* The exception of a stop leaves the pipeline: the shell's ends go, the stage
\* inside it ends, and every live child is told.
Unwind ==
    /\ phase' = "stopping"
    /\ shellReads' = {} /\ shellWrites' = {}
    /\ at' = [i \in Stages |-> IF ~child[i] /\ at[i] = "running" THEN "over" ELSE at[i]]
    /\ childrenStopped' = TRUE
    /\ UNCHANGED <<child, made, op, eof, budget, buffered, stopped>>

MakePipe ==
    /\ phase = "pipes" /\ made < N - 1
    /\ made' = made + 1
    /\ shellReads' = shellReads \union {made + 1}
    /\ shellWrites' = shellWrites \union {made + 1}
    /\ UNCHANGED <<child, phase, stageVars, stopped, childrenStopped>>

\* "Pipe call failed": nothing is started.
PipeFails ==
    /\ phase = "pipes" /\ made < N - 1 /\ ~Unbounded(made + 1)
    /\ phase' = "done"
    /\ shellReads' = {} /\ shellWrites' = {}
    /\ UNCHANGED <<child, made, stageVars, stopped, childrenStopped>>

PipesMade ==
    /\ phase = "pipes" /\ made = N - 1
    /\ phase' = "start"
    /\ UNCHANGED <<child, made, shellReads, shellWrites, stageVars, stopped, childrenStopped>>

\* Pass 1, the next program: it runs, or could not be started.
StartStage(i) ==
    /\ phase = "start" /\ child[i] /\ at[i] = "new"
    /\ \A j \in 1..(i - 1) : child[j] => at[j] # "new"
    /\ ~stopped
    /\ \/ at' = [at EXCEPT ![i] = "running"]
       \/ at' = [at EXCEPT ![i] = "over"]
    /\ ReleaseFor(i)
    /\ UNCHANGED <<child, phase, made, op, eof, budget, buffered, stopped, childrenStopped>>

Started ==
    /\ phase = "start" /\ \A i \in Stages : child[i] => at[i] # "new"
    /\ phase' = "run"
    /\ UNCHANGED <<child, made, shellReads, shellWrites, stageVars, stopped, childrenStopped>>

\* Pass 2, the next stage inside the shell.
RunStage(i) ==
    /\ phase = "run" /\ ~child[i] /\ at[i] = "new"
    /\ \A j \in 1..(i - 1) : ~child[j] => at[j] = "over"
    /\ ~stopped
    /\ at' = [at EXCEPT ![i] = "running"]
    /\ UNCHANGED <<child, shellVars, op, eof, budget, buffered, stopped, childrenStopped>>

HasRun ==
    /\ phase = "run" /\ \A i \in Stages : ~child[i] => at[i] = "over"
    /\ phase' = "wait"
    /\ UNCHANGED <<child, made, shellReads, shellWrites, stageVars, stopped, childrenStopped>>

\* Every command begins with a look at the stop.
StopSeen ==
    /\ stopped
    /\ \/ \E i \in Stages : /\ phase = "start" /\ child[i] /\ at[i] = "new"
                            /\ \A j \in 1..(i - 1) : child[j] => at[j] # "new"
       \/ \E i \in Stages : /\ phase = "run" /\ ~child[i] /\ at[i] \in {"new", "running"}
                            /\ op[i] = "think"
                            /\ \A j \in 1..(i - 1) : ~child[j] => at[j] = "over"
       \/ phase = "wait"
    /\ Unwind

Waited ==
    /\ phase = "wait" /\ \A i \in Stages : at[i] = "over"
    /\ phase' = "done"
    /\ UNCHANGED <<child, made, shellReads, shellWrites, stageVars, stopped, childrenStopped>>

\* The stopped shell ends: its children have, or their grace is over.
StopEnds ==
    /\ phase = "stopping"
    /\ phase' = "done"
    /\ UNCHANGED <<child, made, shellReads, shellWrites, stageVars, stopped, childrenStopped>>

ShellStep ==
    \/ MakePipe \/ PipeFails \/ PipesMade \/ Started \/ HasRun \/ StopSeen \/ Waited \/ StopEnds
    \/ \E i \in Stages : StartStage(i) \/ RunStage(i)

TriggerStop ==
    /\ ~stopped /\ phase # "done"
    /\ stopped' = TRUE
    /\ UNCHANGED <<child, shellVars, stageVars, childrenStopped>>

-----------------------------------------------------------------------------
(* The stages.                                                             *)

\* The stage's program ends.  A stage inside the shell gives its slots back
\* and the shell drops its ends.
End(i) ==
    /\ at' = [at EXCEPT ![i] = "over"]
    /\ IF child[i] THEN UNCHANGED shellVars
       ELSE ReleaseFor(i) /\ UNCHANGED <<phase, made>>
    /\ UNCHANGED <<child, op, eof, budget, buffered, stopped, childrenStopped>>

Think(i) ==
    /\ at[i] = "running" /\ op[i] = "think"
    /\ \/ ~eof[i] /\ op' = [op EXCEPT ![i] = "read"]
       \/ budget[i] > 0 /\ op' = [op EXCEPT ![i] = "write"]
    /\ UNCHANGED <<child, shellVars, at, eof, budget, buffered, stopped, childrenStopped>>

Exit(i) == at[i] = "running" /\ op[i] = "think" /\ End(i)

\* One read: a byte, the end of the input, or the stop.
Read(i) ==
    /\ at[i] = "running" /\ op[i] = "read"
    /\ \/ /\ i > 1 /\ buffered[i - 1] > 0
          /\ buffered' = [buffered EXCEPT ![i - 1] = @ - 1]
          /\ op' = [op EXCEPT ![i] = "think"]
          /\ UNCHANGED <<child, shellVars, at, eof, budget, stopped, childrenStopped>>
       \/ /\ i > 1 => buffered[i - 1] = 0 /\ ~WriteEndOpen(i - 1)
          /\ eof' = [eof EXCEPT ![i] = TRUE]
          /\ op' = [op EXCEPT ![i] = "think"]
          /\ UNCHANGED <<child, shellVars, at, budget, buffered, stopped, childrenStopped>>
       \/ /\ i > 1 /\ buffered[i - 1] = 0 /\ WriteEndOpen(i - 1) /\ Interrupted(i)
          /\ IF child[i] THEN End(i) ELSE Unwind

\* A broken pipe ends the program, or only the subshell of a stage inside the
\* shell.
BrokenPipe(i) == End(i)

\* One write of a byte.
Write(i) ==
    /\ at[i] = "running" /\ op[i] = "write"
    /\ \/ /\ i < N => ReadEndOpen(i) /\ ~Full(i)
          /\ buffered' = IF i < N THEN [buffered EXCEPT ![i] = @ + 1] ELSE buffered
          /\ budget' = [budget EXCEPT ![i] = @ - 1]
          /\ op' = [op EXCEPT ![i] = "think"]
          /\ UNCHANGED <<child, shellVars, at, eof, stopped, childrenStopped>>
       \/ i < N /\ ~ReadEndOpen(i) /\ BrokenPipe(i)
       \/ /\ i < N /\ Full(i) /\ Interrupted(i)
          /\ IF child[i] THEN End(i) ELSE Unwind

StageStep(i) == Think(i) \/ Exit(i) \/ Read(i) \/ Write(i)

\* The shell and every program have ended.
Finished == phase = "done" /\ \A i \in Stages : at[i] # "running"

Next ==
    \/ ShellStep
    \/ TriggerStop
    \/ \E i \in Stages : StageStep(i)
    \/ Finished /\ UNCHANGED vars

\* The shell's thread and every program's are scheduled.
Spec ==
    /\ Init /\ [][Next]_vars
    /\ WF_vars(ShellStep)
    /\ \A i \in Stages : WF_vars(StageStep(i))

-----------------------------------------------------------------------------
\* A bounded pipe never holds more than it can, and ends are the pipes'.
TypeOK ==
    /\ child \in [Stages -> BOOLEAN]
    /\ phase \in {"pipes", "start", "run", "wait", "stopping", "done"}
    /\ made \in 0..(N - 1)
    /\ shellReads \in SUBSET Pipes /\ shellWrites \in SUBSET Pipes
    /\ buffered \in [Pipes -> 0..Budget]
    /\ \A p \in Pipes : Unbounded(p) \/ buffered[p] <= Capacity
    /\ at \in [Stages -> {"new", "running", "over"}]
    /\ op \in [Stages -> {"think", "read", "write"}]
    /\ eof \in [Stages -> BOOLEAN]
    /\ budget \in [Stages -> 0..Budget]
    /\ stopped \in BOOLEAN /\ childrenStopped \in BOOLEAN

\* "Why this cannot deadlock" (HshShell.cpp:386): a stage that waits for room
\* in a pipe waits for a reader that runs, or that the shell is about to run
\* without anything before it in the way.
BlockedWriterHasReader ==
    \A p \in Pipes :
        at[p] = "running" /\ op[p] = "write" /\ Full(p) =>
            \/ at[p + 1] = "running"
            \/ phase = "start" /\ at[p + 1] = "new" /\ child[p + 1]
            \/ phase \in {"start", "run"} /\ at[p + 1] = "new" /\ \A i \in 1..p : child[i]

\* Asleep in a read, or in a write, with nothing to wake it yet.
WaitsForBytes(i) ==
    /\ at[i] = "running" /\ op[i] = "read"
    /\ i > 1 /\ buffered[i - 1] = 0 /\ WriteEndOpen(i - 1) /\ ~Interrupted(i)

WaitsForRoom(i) ==
    /\ at[i] = "running" /\ op[i] = "write"
    /\ i < N /\ Full(i) /\ ~Interrupted(i)

\* The shell's own thread has returned, is in a stage, or joins the programs.
ShellWaits ==
    \/ phase = "done"
    \/ phase = "run" /\ \E i \in Stages : ~child[i] /\ at[i] = "running"
    \/ phase = "wait" /\ ~stopped /\ \E i \in Stages : at[i] # "over"

\* Until all is over somebody can go on without a stop: the stages and the shell
\* never all wait for one another.
SomebodyGoesOn ==
    \/ Finished
    \/ ~ShellWaits
    \/ \E i \in Stages : at[i] = "running" /\ ~WaitsForBytes(i) /\ ~WaitsForRoom(i)

NoDeadlock == BlockedWriterHasReader /\ SomebodyGoesOn

\* A stage sees the end of its input only when the stage before it is over
\* (or the pipeline is being torn down), never because the shell let go of an
\* end too early.
EndOfInputIsReal ==
    \A i \in 2..N : eof[i] => at[i - 1] = "over" \/ childrenStopped

\* A stage that dies of a broken pipe, even inside the shell, takes only
\* itself along: the shell leaves the pipeline early only for a stop.
OnlyAStopUnwinds == phase = "stopping" => stopped

\* Every pipeline ends, its programs too: nobody waits for bytes, room or an
\* end of file that never comes.
PipelineEnds == <>[]Finished
=============================================================================
