------------------------- MODULE AgentProcessProofs -------------------------
(***************************************************************************)
(* Proofs about Agent and AgentProcess for every bound on rounds, tool     *)
(* calls and commands.  Whatever a process does around its agent is, to    *)
(* the agent, a step of its own thread or a call of another one; so what   *)
(* concerns the agent alone is proved of AnyAgentStep, and what relates    *)
(* the agent and its process of PNext.                                     *)
(***************************************************************************)
EXTENDS AgentProcess, SequenceTheorems, FiniteSetTheorems, TLAPS

\* What may happen to an agent, in a process or outside of one.
AnyAgentStep ==
    AgentStep \/ StopStep \/ TriggerStop \/ SetFinishedHook
    \/ \E text \in {"text", "empty"} : Post(text)

\* A step of the process is one of these for its agent, or none.
LEMMA ProcessStepsAgent == [PNext]_allVars => [AnyAgentStep]_agentVars
<1> SUFFICES ASSUME [PNext]_allVars PROVE [AnyAgentStep]_agentVars
  OBVIOUS
<1> USE DEF AnyAgentStep
<1>1. CASE (AgentStep \/ StopStep) /\ UNCHANGED processVars
  BY <1>1
<1>2. CASE cpc = "none" /\ Callers /\ UNCHANGED processVars
  BY <1>2, AgentAssumption DEF Callers
<1>3. CASE CreateStep
  BY <1>3 DEF CreateStep, InstallHook, PostProgram, StartLoop
<1>4. CASE LoopStep
  BY <1>4, AgentAssumption
  DEF LoopStep, LoopChecksAgent, ReadInterrupted, LoopChecksLine, LoopPosts,
      LoopDropsLine, LoopStopsAgent, LoopEnds
<1>5. CASE Input
  BY <1>5 DEF Input, LineArrives, InputEnds
<1>6. CASE StopBegins \/ ProcessStop \/ ConsoleMeetsBrokenPipe
  BY <1>6
  DEF StopBegins, ProcessStop, StopLatches, StopReachesAgent, ConsoleMeetsBrokenPipe
<1>7. CASE ReadExitCode
  BY <1>7 DEF ReadExitCode
<1>8. CASE UNCHANGED allVars
  BY <1>8 DEF allVars
<1> QED
  BY <1>1, <1>2, <1>3, <1>4, <1>5, <1>6, <1>7, <1>8 DEF PNext

-----------------------------------------------------------------------------
(* Types.                                                                  *)

ToolPhases == {"tools", "runTool", "tool", "selfClose"}

\* While tools run, there are results for the calls before the one at hand;
\* otherwise for none.
RoundInv ==
    /\ results <= response
    /\ apc \in ToolPhases \ {"tools"} => results < response
    /\ apc \notin ToolPhases => results = 0
    /\ apc \notin ToolPhases \union {"write", "push"} => response = 0

TypeInv == TypeOK /\ RoundInv

Messages == [role : {"user", "assistant", "tool"}, calls : 0..MaxToolCalls]
Commands == (1..MaxCommands) \X {"text", "empty"}

\* Messages, and any number of the same one, are what a history is made of.
LEMMA MessageTypes ==
    /\ User \in Messages /\ ToolMessage \in Messages
    /\ \A n \in 0..MaxToolCalls : Assistant(n) \in Messages
    /\ \A n \in Int : Repeat(ToolMessage, n) \in Seq(Messages)
<1>1. /\ User \in Messages /\ ToolMessage \in Messages
      /\ \A n \in 0..MaxToolCalls : Assistant(n) \in Messages
  BY AgentAssumption DEF User, ToolMessage, Assistant, Message, Messages
<1>2. ASSUME NEW n \in Int PROVE Repeat(ToolMessage, n) \in Seq(Messages)
  <2>1. CASE n \in Nat
    <3> HIDE DEF ToolMessage, Messages
    <3>1. Repeat(ToolMessage, n) \in [1..n -> Messages]
      BY <1>1 DEF Repeat
    <3> QED
      BY <2>1, <3>1, SeqDef
  <2>2. CASE n \notin Nat
    <3>1. 1..n = 1..0
      BY <2>2
    <3>2. Repeat(ToolMessage, n) \in [1..0 -> Messages]
      BY <1>1, <3>1 DEF Repeat
    <3> QED
      BY <3>2, SeqDef
  <2> QED
    BY <2>1, <2>2
<1> QED
  BY <1>1, <1>2

-----------------------------------------------------------------------------
(* The invariants.                                                         *)

\* Nothing was begun after a stop while there is none.  A command taken after it
\* begins one LLM call, the one in flight one call or the tool it had checked for,
\* and an agent run once has only one command to begin something for.
LateInv ==
    /\ ~stopRequested => lateCommands = 0 /\ lateCalls = 0 /\ lateTools = 0
    /\ apc = "runTool" => lateCalls = 0 /\ lateTools = 0
    /\ lateTools <= 1
    /\ lateCalls + lateTools <= lateCommands + (IF apc = "round" THEN 0 ELSE 1)
    /\ ~interactive => /\ lateCalls + lateTools <= 1
                       /\ apc \in {"pop", "round"} => lateCalls = 0 /\ lateTools = 0

\* Nobody sets a hook twice, and the thread runs the one it took, once.
HookInv ==
    /\ hookRuns <= 1
    /\ finished <=> apc = "ended"
    /\ hook \in {"none", "set"} => hookRuns = 0 /\ apc \notin {"runHook", "finish", "ended"}
    /\ hook = "taken" => \/ apc = "runHook" /\ hookRuns = 0
                         \/ apc \in {"finish", "ended"} /\ hookRuns = 1
    /\ hook = "gone" => apc \in {"finish", "ended"}

\* The first command handled is number 1, and until it is handled it is next.
FirstCommand ==
    /\ handled = <<>> => queue # <<>> /\ queue[1] = <<1, "text">>
    /\ handled # <<>> => handled[1] = 1

\* A process's agent has nothing to do before it is given its program, and the
\* program is the first it is given.
CreateInv ==
    /\ cpc # "created" => loop = "off" /\ spc = "idle"
    /\ cpc = "none" => program = 0
    /\ cpc \in {"hook", "post"} =>
          /\ apc = "pop" /\ queue = <<>> /\ posted = 0 /\ handled = <<>>
          /\ ~stopRequested /\ ~closed /\ program = 0
    /\ cpc = "hook" => hook = "none"
    /\ cpc \in {"post", "start", "created"} => hook \in {"set", "taken"}
    /\ cpc \in {"start", "created"} => program = 1 /\ FirstCommand

\* A stop that counts saw the process running, and an exit code is only read of
\* a process that has finished.
CodeInv ==
    /\ processStopped \/ spc = "seen" => stopBegunRunning
    /\ stopDoneRunning => processStopped
    /\ exitCode # NoCode => ProcessFinished
    /\ ExitCodeTellsStop

\* The conversation ends with a message whose n tool calls nothing answers yet.
Pending(h, n) ==
    LET before == SubSeq(h, 1, Len(h) - 1)
    IN  h # <<>> /\ h = Append(before, Assistant(n)) /\ WellFormed(before)

OnlyAssistantsCall(h) == \A i \in 1..Len(h) : h[i].role # "assistant" => h[i].calls = 0

\* The calls of the last message are unanswered while tools run and, perhaps,
\* after the command failed; otherwise every call is answered.
ConversationInv ==
    /\ OnlyAssistantsCall(history)
    /\ apc \in ToolPhases => Pending(history, response)
    /\ apc = "failed" =>
          WellFormed(history) \/ \E n \in 0..MaxToolCalls : Pending(history, n)
    /\ apc \notin ToolPhases \union {"failed"} => WellFormed(history)

-----------------------------------------------------------------------------
(* Lemmas about histories.                                                 *)

\* A non-empty set of naturals below a bound has a largest element.
LEMMA LargestElement ==
    ASSUME NEW N \in Nat, NEW T, T \subseteq 0..N, T # {}
    PROVE  \E m \in T : \A n \in T : n <= m
<1> DEFINE F == {m..N : m \in T}
<1>1. \A m \in T : m \in Int /\ m..N \subseteq Nat /\ IsFiniteSet(m..N)
  BY FS_Interval
<1>2. F \subseteq FiniteSubsetsOf(Nat) /\ F # {}
  BY <1>1 DEF FiniteSubsetsOf
<1>3. PICK f \in F : \A g \in F : ~(<<g, f>> \in StrictSubsetOrdering(Nat))
  <2> HIDE DEF F
  <2> QED
    BY <1>2, WFMin, FS_StrictSubsetOrderingWellFounded, Zenon
<1>4. PICK m \in T : f = m..N
  OBVIOUS
<1>5. ASSUME NEW n \in T, m < n
      PROVE  FALSE
  <2>1. n..N \subseteq m..N /\ n..N # m..N
    BY <1>5
  <2>2. <<n..N, m..N>> \in (SUBSET Nat) \X (SUBSET Nat)
    BY <1>1
  <2>3. <<n..N, m..N>> \in StrictSubsetOrdering(Nat)
    BY <2>1, <2>2 DEF StrictSubsetOrdering
  <2>4. n..N \in F
    OBVIOUS
  <2> QED
    BY <2>3, <2>4, <1>3, <1>4
<1> QED
  BY <1>5

\* A sequence without its last element.
LEMMA Front ==
    ASSUME NEW S, NEW s \in Seq(S), Len(s) > 0
    PROVE  SubSeq(s, 1, Len(s) - 1) \in Seq(S) /\ Len(SubSeq(s, 1, Len(s) - 1)) = Len(s) - 1
<1> DEFINE k == Len(s) - 1
<1>1. k \in Nat /\ Len(s) = k + 1
  BY LenProperties
<1>2. \A i \in 1..k : s[i] \in S
  BY <1>1, ElementOfSeq
<1> HIDE DEF k
<1>3. SubSeq(s, 1, k) \in Seq(S) /\ Len(SubSeq(s, 1, k)) = IF 1 <= k THEN k - 1 + 1 ELSE 0
  BY <1>1, <1>2, SubSeqProperties
<1>4. Len(SubSeq(s, 1, k)) = k
  BY <1>1, <1>3
<1> QED
  BY <1>3, <1>4 DEF k

\* What OnCommandFailed finds unanswered: nothing after a conversation in order,
\* all the calls of a message nobody has answered.
LEMMA UnansweredCalls ==
    ASSUME history \in Seq(Messages), OnlyAssistantsCall(history)
    PROVE  /\ WellFormed(history) => Unanswered = 0
           /\ \A n \in 0..MaxToolCalls : Pending(history, n) => Unanswered = n
<1> DEFINE asks == {i \in 1..Len(history) : history[i].role = "assistant"}
           last == CHOOSE i \in asks : \A j \in asks : j <= i
           answers == {i \in last..Len(history) : history[i].role = "tool"}
<1>1. Len(history) \in Nat
  BY LenProperties
<1>2. \A i \in 1..Len(history) : history[i] \in Messages /\ history[i].calls \in Nat
  <2>1. \A i \in 1..Len(history) : history[i] \in Messages
    BY ElementOfSeq
  <2> QED
    BY <2>1 DEF Messages
<1>3. asks # {} => last \in asks /\ \A j \in asks : j <= last
  <2> SUFFICES ASSUME asks # {} PROVE last \in asks /\ \A j \in asks : j <= last
    OBVIOUS
  <2>1. \E i \in asks : \A j \in asks : j <= i
    <3>1. asks \subseteq 0..Len(history)
      BY <1>1
    <3> HIDE DEF asks
    <3> QED
      BY <1>1, <3>1, LargestElement
  <2> QED
    BY <2>1
<1>4. ASSUME WellFormed(history) PROVE Unanswered = 0
  <2>1. CASE asks = {}
    BY <2>1 DEF Unanswered
  <2>2. CASE asks # {}
    <3> DEFINE c == history[last].calls
    <3>1. last \in 1..Len(history) /\ history[last].role = "assistant" /\ c \in Nat
      BY <1>2, <1>3, <2>2
    <3>2. \A j \in (last + 1)..(last + c) : j \in 1..Len(history) /\ history[j].role = "tool"
      BY <1>1, <1>4, <3>1 DEF WellFormed
    <3>3. ASSUME NEW j \in answers PROVE j \in (last + 1)..(last + c)
      <4>1. j \in 1..Len(history) /\ history[j].role = "tool" /\ last < j
        BY <1>1, <3>1
      <4>2. PICK i \in 1..(j - 1) : j <= i + history[i].calls
        BY <1>4, <4>1 DEF WellFormed
      <4>3. i \in 1..Len(history) /\ history[i].calls \in Nat
        BY <1>1, <1>2, <4>1, <4>2
      <4>4. i \in asks
        BY <4>1, <4>2, <4>3 DEF OnlyAssistantsCall
      <4>5. i <= last
        BY <1>3, <2>2, <4>4
      <4>6. CASE i = last
        <5>1. last \in Int /\ c \in Int /\ j \in Int /\ last < j /\ j <= last + c
          BY <3>1, <4>1, <4>2, <4>6
        <5> HIDE DEF last, c
        <5> QED
          BY <5>1
      <4>7. CASE i < last
        <5>1. last \in (i + 1)..(i + history[i].calls)
          <6>1. PICK k \in Nat : k = history[i].calls
            BY <4>3
          <6>2. last \in Int /\ i \in Int /\ j \in Int /\ last < j /\ j <= i + k
            BY <3>1, <4>1, <4>2, <4>3, <6>1
          <6> HIDE DEF last
          <6>3. last \in (i + 1)..(i + k)
            BY <4>7, <6>2
          <6> QED
            BY <6>1, <6>3
        <5> QED
          BY <1>4, <3>1, <4>3, <5>1 DEF WellFormed
      <4> QED
        BY <3>1, <4>3, <4>5, <4>6, <4>7
    <3>4. answers = (last + 1)..(last + c)
      <4>1. \A j \in (last + 1)..(last + c) : j \in answers
        <5> HIDE DEF last, c
        <5> QED
          BY <1>1, <3>1, <3>2
      <4> HIDE DEF answers
      <4> QED
        BY <3>3, <4>1
    <3>5. Cardinality(answers) = c
      <4> HIDE DEF last, answers, c
      <4>1. last + 1 \in Int /\ last + c \in Int
        BY <3>1
      <4>2. Cardinality((last + 1)..(last + c)) = c
        BY <3>1, <4>1, FS_Interval
      <4> QED
        BY <3>4, <4>2
    <3>6. Unanswered = c - Cardinality(answers)
      BY <2>2 DEF Unanswered
    <3> HIDE DEF c, last, answers
    <3> QED
      BY <3>1, <3>5, <3>6
  <2> QED
    BY <2>1, <2>2
<1>5. ASSUME NEW n \in 0..MaxToolCalls, Pending(history, n) PROVE Unanswered = n
  <2> DEFINE L == Len(history)
  <2>1. L \in 1..L /\ history[L] = Assistant(n)
    <3>1. history # <<>> /\ history = Append(SubSeq(history, 1, L - 1), Assistant(n))
      BY <1>5 DEF Pending
    <3>2. L > 0
      BY <1>1, <3>1, EmptySeq
    <3>3. SubSeq(history, 1, L - 1) \in Seq(Messages)
          /\ Len(SubSeq(history, 1, L - 1)) = L - 1
      BY <1>1, <1>2, <3>2, Front
    <3> QED
      BY <1>1, <3>1, <3>2, <3>3, AppendProperties
  <2>2. history[L].role = "assistant" /\ history[L].calls = n
    BY <2>1 DEF Assistant, Message
  <2>3. last = L
    BY <1>1, <1>3, <2>1, <2>2
  <2>4. answers = {}
    BY <1>1, <2>1, <2>2, <2>3
  <2>5. Cardinality(answers) = 0
    BY <2>4, FS_EmptySet
  <2> QED
    BY <2>1, <2>2, <2>3, <2>5 DEF Unanswered
<1> QED
  BY <1>4, <1>5

\* A message that asks for nothing keeps a conversation in order.
LEMMA AppendSilent ==
    ASSUME NEW h \in Seq(Messages), NEW m \in Messages, WellFormed(h), m.calls = 0,
           m.role # "tool", OnlyAssistantsCall(h)
    PROVE  WellFormed(Append(h, m)) /\ OnlyAssistantsCall(Append(h, m))
<1> DEFINE g == Append(h, m)
           L == Len(h)
<1>1. L \in Nat /\ Len(g) = L + 1 /\ g[L + 1] = m /\ \A i \in 1..L : g[i] = h[i]
  BY AppendProperties, LenProperties
<1>2. \A i \in 1..L : h[i].calls \in Nat
  <2>1. \A i \in 1..L : h[i] \in Messages
    BY ElementOfSeq
  <2> QED
    BY <2>1 DEF Messages
<1>3. ASSUME NEW i \in 1..(L + 1), NEW j \in (i + 1)..(i + g[i].calls)
      PROVE  j <= L + 1 /\ g[j].role = "tool"
  <2> HIDE DEF g, L
  <2>1. i # L + 1
    BY <1>1
  <2>2. i \in 1..L /\ g[i] = h[i] /\ h[i].calls \in Nat
    BY <1>1, <1>2, <2>1
  <2>3. j <= L /\ h[j].role = "tool"
    BY <2>2 DEF WellFormed, L
  <2> QED
    BY <1>1, <2>2, <2>3
<1>4. ASSUME NEW j \in 1..(L + 1), g[j].role = "tool"
      PROVE  \E i \in 1..(j - 1) : j <= i + g[i].calls
  <2> HIDE DEF g, L
  <2>1. j # L + 1
    BY <1>1, <1>4
  <2>2. j \in 1..L /\ g[j] = h[j]
    BY <1>1, <2>1
  <2>3. PICK i \in 1..(j - 1) : j <= i + h[i].calls
    BY <1>4, <2>2 DEF WellFormed, L
  <2>4. i \in 1..L /\ g[i] = h[i]
    BY <1>1, <2>2, <2>3
  <2> QED
    BY <2>3, <2>4
<1>5. ASSUME NEW i \in 1..(L + 1), g[i].role # "assistant"
      PROVE  g[i].calls = 0
  <2> HIDE DEF g, L
  <2>1. CASE i = L + 1
    BY <1>1, <2>1
  <2>2. CASE i # L + 1
    <3>1. i \in 1..L /\ g[i] = h[i]
      BY <1>1, <2>2
    <3> QED
      BY <1>5, <3>1 DEF OnlyAssistantsCall, L
  <2> QED
    BY <2>1, <2>2
<1>6. WellFormed(g)
  <2> HIDE DEF g, L
  <2> QED
    BY <1>1, <1>3, <1>4 DEF WellFormed
<1>7. OnlyAssistantsCall(g)
  <2> HIDE DEF g, L
  <2> QED
    BY <1>1, <1>5 DEF OnlyAssistantsCall
<1> QED
  BY <1>6, <1>7

\* A response leaves its calls to be answered; one without calls leaves none.
LEMMA AppendResponse ==
    ASSUME NEW h \in Seq(Messages), NEW n \in 0..MaxToolCalls, WellFormed(h),
           OnlyAssistantsCall(h)
    PROVE  /\ OnlyAssistantsCall(Append(h, Assistant(n)))
           /\ Pending(Append(h, Assistant(n)), n)
           /\ n = 0 => WellFormed(Append(h, Assistant(n)))
<1> DEFINE m == Assistant(n)
           g == Append(h, m)
           L == Len(h)
<1>1. m \in Messages /\ m.role = "assistant" /\ m.calls = n
  BY MessageTypes DEF Assistant, Message
<1>2. g \in Seq(Messages) /\ L \in Nat /\ Len(g) = L + 1 /\ g[L + 1] = m
      /\ \A i \in 1..L : g[i] = h[i]
  <2> HIDE DEF m
  <2> QED
    BY <1>1, AppendProperties, LenProperties
<1>3. OnlyAssistantsCall(g)
  <2> HIDE DEF g, L, m
  <2>1. ASSUME NEW i \in 1..(L + 1), g[i].role # "assistant"
        PROVE  g[i].calls = 0
    <3>1. i # L + 1
      BY <1>1, <1>2, <2>1
    <3>2. i \in 1..L /\ g[i] = h[i]
      BY <1>2, <3>1
    <3> QED
      BY <2>1, <3>2 DEF OnlyAssistantsCall, L
  <2> QED
    BY <1>2, <2>1 DEF OnlyAssistantsCall
<1>4. Pending(g, n)
  <2>1. SubSeq(g, 1, L) = h
    <3> HIDE DEF m
    <3>1. SubSeq(g, 1, L) \in Seq(Messages) /\ Len(SubSeq(g, 1, L)) = L
          /\ \A i \in 1..L : SubSeq(g, 1, L)[i] = g[i]
      <4>1. 1 \in Int /\ L \in Int /\ \A i \in 1..L : g[i] \in Messages
        BY <1>2, ElementOfSeq
      <4> HIDE DEF g, L
      <4> QED
        BY <1>2, <4>1, SubSeqProperties
    <3> HIDE DEF g
    <3> QED
      BY <1>2, <3>1, SeqEqual
  <2>2. Len(g) - 1 = L
    BY <1>2
  <2>3. g # <<>>
    <3> HIDE DEF g, L, m
    <3> QED
      BY <1>2, EmptySeq
  <2> QED
    BY <2>1, <2>2, <2>3 DEF Pending
<1>5. CASE n = 0
  BY <1>1, <1>3, <1>4, <1>5, AppendSilent
<1> QED
  BY <1>3, <1>4, <1>5

\* The missing results put a conversation back in order.
LEMMA AppendResults ==
    ASSUME NEW h \in Seq(Messages), NEW n \in 0..MaxToolCalls, OnlyAssistantsCall(h),
           Pending(h, n)
    PROVE  /\ WellFormed(h \o Repeat(ToolMessage, n))
           /\ OnlyAssistantsCall(h \o Repeat(ToolMessage, n))
<1> DEFINE t == Repeat(ToolMessage, n)
           g == h \o t
           p == SubSeq(h, 1, Len(h) - 1)
           L == Len(h)
<1>1. n \in Nat /\ t \in Seq(Messages) /\ Len(t) = n
      /\ \A i \in 1..n : t[i].role = "tool" /\ t[i].calls = 0
  <2>1. n \in Nat /\ t \in Seq(Messages)
    BY MessageTypes, AgentAssumption
  <2>2. t = [i \in 1..n |-> ToolMessage]
    BY DEF Repeat
  <2>3. Len(t) = n
    BY <2>1, <2>2, LenProperties
  <2> QED
    BY <2>1, <2>2, <2>3 DEF ToolMessage, Message
<1>2. L \in Nat /\ L > 0
  BY EmptySeq, LenProperties DEF Pending
<1>3. p \in Seq(Messages) /\ Len(p) = L - 1 /\ WellFormed(p) /\ h = Append(p, Assistant(n))
  <2>1. p \in Seq(Messages) /\ Len(p) = L - 1
    BY <1>2, Front
  <2> QED
    BY <2>1 DEF Pending
<1>4. h[L] = Assistant(n) /\ \A i \in 1..(L - 1) : h[i] = p[i]
  <2> HIDE DEF p, L
  <2>1. Assistant(n) \in Messages
    BY MessageTypes
  <2> QED
    BY <1>2, <1>3, <2>1, AppendProperties
<1>5. h[L].role = "assistant" /\ h[L].calls = n
  BY <1>4 DEF Assistant, Message
<1>6. Len(g) = L + n /\ (\A i \in 1..L : g[i] = h[i])
      /\ \A i \in (L + 1)..(L + n) : g[i].role = "tool" /\ g[i].calls = 0
  <2> HIDE DEF t, L
  <2>1. Len(g) = L + n
        /\ \A i \in 1..(L + n) : g[i] = IF i <= L THEN h[i] ELSE t[i - L]
    BY <1>1, ConcatProperties DEF L
  <2>2. \A i \in (L + 1)..(L + n) : i - L \in 1..n
    BY <1>1, <1>2
  <2> HIDE DEF g
  <2> QED
    BY <1>1, <1>2, <2>1, <2>2
<1>7. \A i \in 1..(L - 1) : p[i].calls \in Nat
  <2> HIDE DEF p, L
  <2> SUFFICES ASSUME NEW i \in 1..(L - 1) PROVE p[i].calls \in Nat
    OBVIOUS
  <2>1. p[i] \in Messages
    BY <1>3, ElementOfSeq
  <2> QED
    BY ONLY <2>1, AgentAssumption DEF Messages
<1> HIDE DEF t, g, p, L
<1>8. ASSUME NEW i \in 1..(L + n), NEW j \in (i + 1)..(i + g[i].calls)
      PROVE  j <= L + n /\ g[j].role = "tool"
  <2>1. CASE i < L
    <3>1. i \in 1..(L - 1) /\ g[i] = p[i]
      BY <1>2, <1>4, <1>6, <2>1
    <3>2. j <= L - 1 /\ p[j].role = "tool"
      BY <1>3, <1>7, <3>1 DEF WellFormed
    <3>3. j \in 1..(L - 1) /\ g[j] = p[j]
      BY <1>2, <1>4, <1>6, <3>1, <3>2, <1>7
    <3> QED
      BY <1>1, <1>2, <3>2, <3>3
  <2>2. CASE i = L
    <3>1. g[i].calls = n
      BY <1>2, <1>5, <1>6, <2>2
    <3> QED
      BY <1>1, <1>2, <1>6, <2>2, <3>1
  <2>3. CASE i > L
    BY <1>1, <1>2, <1>6, <2>3
  <2> QED
    BY <1>1, <1>2, <2>1, <2>2, <2>3
<1>9. ASSUME NEW j \in 1..(L + n), g[j].role = "tool"
      PROVE  \E i \in 1..(j - 1) : j <= i + g[i].calls
  <2>1. CASE j < L
    <3>1. j \in 1..(L - 1) /\ g[j] = p[j]
      BY <1>2, <1>4, <1>6, <2>1
    <3>2. PICK i \in 1..(j - 1) : j <= i + p[i].calls
      BY <1>3, <1>9, <3>1 DEF WellFormed
    <3>3. i \in 1..(L - 1) /\ g[i] = p[i]
      BY <1>2, <1>4, <1>6, <3>1, <3>2
    <3> QED
      BY <3>2, <3>3
  <2>2. CASE j = L
    BY <1>2, <1>5, <1>6, <1>9, <2>2
  <2>3. CASE j > L
    <3>1. L \in 1..(j - 1) /\ g[L].calls = n
      <4>1. L \in 1..(j - 1)
        BY <1>1, <1>2, <2>3
      <4>2. g[L].calls = n
        <5>1. L \in 1..L
          BY <1>2
        <5> QED
          BY ONLY <1>5, <1>6, <5>1
      <4> QED
        BY <4>1, <4>2
    <3>2. j <= L + g[L].calls
      BY <1>1, <1>2, <3>1
    <3> QED
      BY <3>1, <3>2
  <2> QED
    BY <1>1, <1>2, <2>1, <2>2, <2>3
<1>10. ASSUME NEW i \in 1..(L + n), g[i].role # "assistant"
       PROVE  g[i].calls = 0
  <2>1. CASE i <= L
    <3>1. i \in 1..L /\ g[i] = h[i]
      BY <1>2, <1>6, <2>1
    <3> QED
      BY <1>10, <3>1 DEF OnlyAssistantsCall, L
  <2>2. CASE i > L
    BY <1>1, <1>2, <1>6, <2>2
  <2> QED
    BY <1>1, <1>2, <2>1, <2>2
<1> USE DEF t, g
<1> QED
  BY <1>6, <1>8, <1>9, <1>10 DEF WellFormed, OnlyAssistantsCall

-----------------------------------------------------------------------------
(* Types are invariant.                                                    *)

LEMMA PostType ==
    ASSUME TypeOK, NEW text \in {"text", "empty"}, Post(text)
    PROVE  TypeOK'
<1>1. posted \in Nat /\ <<posted + 1, text>> \in Commands
  BY AgentAssumption DEF TypeOK, Post, Commands
<1>2. queue' \in Seq(Commands)
  BY <1>1, AppendProperties DEF TypeOK, Post, Commands
<1>3. posted' \in 0..MaxCommands
  BY <1>1, AgentAssumption DEF TypeOK, Post
<1> QED
  BY <1>2, <1>3
  DEF TypeOK, Post, stopVars, roundVars, hookVars, takenVars, Commands

\* However many calls a failed command leaves, its results answer them.
LEMMA FailureAnswers ==
    ASSUME TypeOK, ConversationInv, apc = "failed"
    PROVE  /\ history \o Repeat(ToolMessage, Unanswered) \in Seq(Messages)
           /\ WellFormed(history \o Repeat(ToolMessage, Unanswered))
           /\ OnlyAssistantsCall(history \o Repeat(ToolMessage, Unanswered))
<1>1. history \in Seq(Messages)
  BY DEF TypeOK, Messages
<1>2. OnlyAssistantsCall(history)
      /\ (WellFormed(history) \/ \E n \in 0..MaxToolCalls : Pending(history, n))
  BY DEF ConversationInv
<1>3. CASE WellFormed(history)
  <2>1. Unanswered = 0
    BY <1>1, <1>2, <1>3, UnansweredCalls
  <2>2. Repeat(ToolMessage, 0) = <<>>
    BY DEF Repeat
  <2>3. history \o Repeat(ToolMessage, Unanswered) = history
    BY <1>1, <2>1, <2>2, ConcatEmptySeq
  <2> QED
    BY <1>1, <1>2, <1>3, <2>3
<1>4. CASE \E n \in 0..MaxToolCalls : Pending(history, n)
  <2>1. PICK n \in 0..MaxToolCalls : Pending(history, n)
    BY <1>4
  <2>2. Unanswered = n
    BY <1>1, <1>2, <2>1, UnansweredCalls
  <2>3. history \o Repeat(ToolMessage, n) \in Seq(Messages)
    BY <1>1, MessageTypes, ConcatProperties
  <2>4. WellFormed(history \o Repeat(ToolMessage, n))
        /\ OnlyAssistantsCall(history \o Repeat(ToolMessage, n))
    BY <1>1, <1>2, <2>1, AppendResults
  <2> QED
    BY <2>2, <2>3, <2>4
<1> QED
  BY <1>2, <1>3, <1>4

\* Every step of the conversation thread, and every call from outside, leaves
\* variables of their types.
LEMMA AgentTypeStep == TypeInv /\ ConversationInv /\ [AnyAgentStep]_agentVars => TypeInv'
<1> SUFFICES ASSUME TypeInv, ConversationInv, [AnyAgentStep]_agentVars PROVE TypeInv'
  OBVIOUS
<1> USE AgentAssumption
    DEF TypeInv, RoundInv, ToolPhases, TypeOK, Phases, queueVars, stopVars, roundVars,
        hookVars, takenVars
<1>1. AfterCommand \in {"pop", "hook"}
  BY DEF AfterCommand
<1>2. CASE TakeCommand
  <2>1. Head(queue) \in Commands /\ Tail(queue) \in Seq(Commands)
    BY <1>2, HeadTailProperties DEF TakeCommand, Commands
  <2>2. Head(queue)[1] \in 1..MaxCommands
    BY <2>1 DEF Commands
  <2>3. Append(history, User) \in Seq(Messages)
    BY MessageTypes, AppendProperties DEF Messages
  <2>4. Append(handled, Head(queue)[1]) \in Seq(1..MaxCommands)
    BY <2>2, AppendProperties
  <2>5. CASE Head(queue)[2] = "empty"
    BY <1>2, <2>1, <2>5 DEF TakeCommand, Commands
  <2>6. CASE Head(queue)[2] # "empty"
    <3>1. RoundInv'
      BY <1>2, <2>6 DEF TakeCommand
    <3>2. queue' \in Seq(Commands) /\ history' \in Seq(Messages)
      BY <1>2, <2>1, <2>3, <2>6, Zenon DEF TakeCommand
    <3>3. handled' \in Seq(1..MaxCommands)
      BY <1>2, <2>4, <2>6 DEF TakeCommand
    <3>4. rounds' = 0 /\ lastCommandFailed' = FALSE
          /\ lateCommands' = lateCommands + (IF stopRequested THEN 1 ELSE 0)
      BY <1>2, <2>6, Zenon DEF TakeCommand
    <3>5. apc' \in Phases
      BY <1>2, <2>6 DEF TakeCommand
    <3>6. UNCHANGED <<closed, posted, stopVars, response, results, lateCalls, lateTools,
                      hookVars, finished>>
      BY <1>2 DEF TakeCommand
    <3>7. /\ closed' \in BOOLEAN /\ interactive' \in Kinds
          /\ posted' \in 0..MaxCommands
          /\ stopRequested' \in BOOLEAN /\ tokenStopped' \in BOOLEAN
          /\ response' \in 0..MaxToolCalls /\ results' \in 0..MaxToolCalls
          /\ finished' \in BOOLEAN
          /\ hook' \in {"none", "set", "taken", "gone"} /\ hookRuns' \in Nat
          /\ lateCalls' \in Nat /\ lateTools' \in Nat
      BY <3>6, Zenon
    <3>8. rounds' \in 0..MaxRounds /\ lateCommands' \in Nat
      BY <3>4
    <3>9. lastCommandFailed' \in BOOLEAN
      BY <3>4, Zenon
    <3> QED
      BY <3>1, <3>2, <3>3, <3>5, <3>7, <3>8, <3>9, Zenon DEF Commands, Messages
  <2> QED
    BY <2>5, <2>6
<1>3. CASE QueueClosed
  BY <1>3 DEF QueueClosed
<1>4. CASE TooManyRounds
  BY <1>1, <1>4 DEF TooManyRounds
<1>5. CASE CallLLM
  BY <1>5 DEF CallLLM
<1>6. CASE \E r \in Responses : Responds(r)
  BY <1>6 DEF Responses, Responds
<1>7. CASE ConsoleWrites
  BY <1>7 DEF ConsoleWrites
<1>8. CASE PushResponse
  <2>1. Append(history, Assistant(response)) \in Seq(Messages)
    BY MessageTypes, AppendProperties DEF Messages
  <2> QED
    BY <1>1, <1>8, <2>1 DEF PushResponse, Messages
<1>9. CASE RefuseTool
  BY <1>9 DEF RefuseTool
<1>10. CASE CheckStop
  BY <1>10 DEF CheckStop
<1>11. CASE StartTool
  BY <1>11 DEF StartTool
<1>12. CASE ToolReturns
  BY <1>12 DEF ToolReturns
<1>13. CASE ToolClosesAgent
  BY <1>13 DEF ToolClosesAgent
<1>14. CASE SelfCloseReturns
  BY <1>14 DEF SelfCloseReturns
<1>15. CASE PushResults
  <2>1. Repeat(ToolMessage, results) \in Seq(Messages)
    BY MessageTypes
  <2>2. history \o Repeat(ToolMessage, results) \in Seq(Messages)
    BY <2>1, ConcatProperties DEF Messages
  <2> QED
    BY <1>15, <2>2 DEF PushResults, Messages
<1>16. CASE EndRound
  BY <1>1, <1>16 DEF EndRound
<1>17. CASE CommandThrows
  BY <1>17 DEF CommandThrows
<1>18. CASE OnCommandFailed
  <2>1. history \o Repeat(ToolMessage, Unanswered) \in Seq(Messages)
    BY <1>18, FailureAnswers DEF OnCommandFailed
  <2> QED
    BY <1>1, <1>18, <2>1 DEF OnCommandFailed, Messages
<1>19. CASE TakeHook
  BY <1>19 DEF TakeHook
<1>20. CASE RunHook
  BY <1>20 DEF RunHook
<1>21. CASE Finish
  BY <1>21 DEF Finish
<1>22. CASE CloseQueue
  BY <1>22 DEF CloseQueue
<1>23. CASE SignalToken
  BY <1>23 DEF SignalToken
<1>24. CASE TriggerStop
  BY <1>24 DEF TriggerStop
<1>25. CASE SetFinishedHook
  BY <1>25 DEF SetFinishedHook
<1>26. CASE \E text \in {"text", "empty"} : Post(text)
  BY <1>26, PostType DEF Post
<1>27. CASE UNCHANGED agentVars
  BY <1>27 DEF agentVars
<1> QED
  BY <1>2, <1>3, <1>4, <1>5, <1>6, <1>7, <1>8, <1>9, <1>10, <1>11, <1>12, <1>13, <1>14,
     <1>15, <1>16, <1>17, <1>18, <1>19, <1>20, <1>21, <1>22, <1>23, <1>24, <1>25, <1>26,
     <1>27
  DEF AnyAgentStep, AgentStep, StopStep

-----------------------------------------------------------------------------
(* The agent's invariants.                                                 *)

\* Every call is answered, right behind it, wherever the thread may go on.
LEMMA ConversationStep ==
    TypeInv /\ ConversationInv /\ [AnyAgentStep]_agentVars => ConversationInv'
<1> SUFFICES ASSUME TypeInv, ConversationInv, [AnyAgentStep]_agentVars
             PROVE  ConversationInv'
  OBVIOUS
<1> USE DEF ConversationInv, ToolPhases
<1>1. history \in Seq(Messages) /\ response \in 0..MaxToolCalls
  BY DEF TypeInv, TypeOK, Messages
<1>2. AfterCommand \notin ToolPhases \union {"failed"}
  BY DEF AfterCommand
<1>3. CASE TakeCommand
  <2>1. CASE Head(queue)[2] = "empty"
    BY <1>3, <2>1 DEF TakeCommand
  <2>2. CASE Head(queue)[2] # "empty"
    <3>1. history' = Append(history, User) /\ apc' = "round" /\ apc = "pop"
      BY <1>3, <2>2, Zenon DEF TakeCommand
    <3>2. User \in Messages /\ User.calls = 0 /\ User.role # "tool"
      BY MessageTypes DEF User, Message
    <3>3. WellFormed(history) /\ OnlyAssistantsCall(history)
      BY <3>1
    <3>4. WellFormed(history') /\ OnlyAssistantsCall(history')
      BY <1>1, <3>1, <3>2, <3>3, AppendSilent
    <3> QED
      BY <3>1, <3>4
  <2> QED
    BY <2>1, <2>2
<1>4. CASE PushResponse
  <2>1. history' = Append(history, Assistant(response)) /\ response' = response
    BY <1>4, Zenon DEF PushResponse
  <2>2. WellFormed(history) /\ OnlyAssistantsCall(history)
    BY <1>4 DEF PushResponse
  <2>3. /\ OnlyAssistantsCall(history')
        /\ Pending(history', response')
        /\ response = 0 => WellFormed(history')
    BY <1>1, <2>1, <2>2, AppendResponse
  <2>4. IF response > 0 THEN apc' = "tools" ELSE apc' = AfterCommand
    BY <1>4 DEF PushResponse
  <2>5. ~(response > 0) => response = 0
    BY <1>1
  <2> QED
    BY <1>2, <2>3, <2>4, <2>5
<1>5. CASE PushResults
  <2>1. Pending(history, response) /\ OnlyAssistantsCall(history)
        /\ history' = history \o Repeat(ToolMessage, response) /\ apc' = "afterTools"
    BY <1>5 DEF PushResults
  <2>2. WellFormed(history') /\ OnlyAssistantsCall(history')
    BY <1>1, <2>1, AppendResults
  <2> QED
    BY <2>1, <2>2
<1>6. CASE OnCommandFailed
  <2>1. WellFormed(history') /\ OnlyAssistantsCall(history')
    BY <1>6, FailureAnswers DEF OnCommandFailed, TypeInv
  <2> QED
    BY <1>2, <1>6, <2>1 DEF OnCommandFailed
<1>7. CASE CommandThrows
  BY <1>1, <1>7 DEF CommandThrows
<1>8. CASE QueueClosed \/ TooManyRounds \/ CallLLM \/ ConsoleWrites \/ EndRound
  BY <1>2, <1>8
  DEF QueueClosed, TooManyRounds, CallLLM, ConsoleWrites, EndRound, roundVars
<1>9. CASE \E r \in Responses : Responds(r)
  BY <1>9 DEF Responds
<1>10. CASE \/ RefuseTool \/ CheckStop \/ StartTool \/ ToolReturns \/ ToolClosesAgent
            \/ SelfCloseReturns
  BY <1>10
  DEF RefuseTool, CheckStop, StartTool, ToolReturns, ToolClosesAgent, SelfCloseReturns,
      roundVars
<1>11. CASE TakeHook \/ RunHook \/ Finish
  BY <1>11 DEF TakeHook, RunHook, Finish, roundVars
<1>12. CASE \/ StopStep \/ TriggerStop \/ SetFinishedHook
            \/ \E text \in {"text", "empty"} : Post(text)
  BY <1>12
  DEF StopStep, CloseQueue, SignalToken, TriggerStop, SetFinishedHook, Post, roundVars
<1>13. CASE UNCHANGED agentVars
  BY <1>13 DEF agentVars, roundVars
<1> QED
  BY <1>3, <1>4, <1>5, <1>6, <1>7, <1>8, <1>9, <1>10, <1>11, <1>12, <1>13
  DEF AnyAgentStep, AgentStep

\* Only the thread itself begins work, and it looks for a stop before each piece.
LEMMA LateStep == TypeInv /\ LateInv /\ [AnyAgentStep]_agentVars => LateInv'
<1> SUFFICES ASSUME TypeInv, LateInv, [AnyAgentStep]_agentVars PROVE LateInv'
  OBVIOUS
<1> USE DEF LateInv
<1>1. /\ lateCommands \in Nat /\ lateCalls \in Nat /\ lateTools \in Nat
      /\ AfterCommand = IF interactive THEN "pop" ELSE "hook"
  BY DEF TypeInv, TypeOK, AfterCommand
<1>2. CASE TakeCommand
  BY <1>1, <1>2 DEF TakeCommand, stopVars, takenVars
<1>3. CASE CallLLM
  BY <1>1, <1>3 DEF CallLLM, stopVars, takenVars
<1>4. CASE StartTool
  BY <1>1, <1>4 DEF StartTool, stopVars, takenVars
<1>5. CASE QueueClosed \/ TooManyRounds \/ ConsoleWrites \/ PushResponse
  BY <1>1, <1>5
  DEF QueueClosed, TooManyRounds, ConsoleWrites, PushResponse, roundVars, stopVars,
      takenVars
<1>6. CASE \E r \in Responses : Responds(r)
  BY <1>1, <1>6 DEF Responds, stopVars, takenVars
<1>7. CASE CheckStop
  BY <1>1, <1>7 DEF CheckStop, roundVars, stopVars, takenVars
<1>8. CASE RefuseTool \/ ToolReturns \/ SelfCloseReturns
  BY <1>1, <1>8 DEF RefuseTool, ToolReturns, SelfCloseReturns, stopVars, takenVars
<1>9. CASE ToolClosesAgent
  BY <1>1, <1>9 DEF ToolClosesAgent, roundVars, takenVars
<1>10. CASE PushResults \/ CommandThrows \/ OnCommandFailed
  BY <1>1, <1>10
  DEF PushResults, CommandThrows, OnCommandFailed, roundVars, stopVars, takenVars
<1>11. CASE EndRound
  BY <1>1, <1>11 DEF EndRound, stopVars, takenVars
<1>12. CASE TakeHook \/ RunHook \/ Finish
  BY <1>1, <1>12 DEF TakeHook, RunHook, Finish, roundVars, stopVars, takenVars
<1>13. CASE \/ CloseQueue \/ SignalToken \/ TriggerStop \/ SetFinishedHook
            \/ \E text \in {"text", "empty"} : Post(text)
  BY <1>1, <1>13
  DEF CloseQueue, SignalToken, TriggerStop, SetFinishedHook, Post, roundVars, stopVars,
      takenVars
<1>14. CASE UNCHANGED agentVars
  BY <1>14 DEF agentVars, roundVars, stopVars, takenVars
<1> QED
  BY <1>2, <1>3, <1>4, <1>5, <1>6, <1>7, <1>8, <1>9, <1>10, <1>11, <1>12, <1>13, <1>14
  DEF AnyAgentStep, AgentStep, StopStep

\* A hook is set before the thread looks for one, or run by whoever comes late.
LEMMA HookStep == TypeInv /\ HookInv /\ [AnyAgentStep]_agentVars => HookInv'
<1> SUFFICES ASSUME TypeInv, HookInv, [AnyAgentStep]_agentVars PROVE HookInv'
  OBVIOUS
<1> USE DEF HookInv
<1>1. /\ hookRuns \in Nat /\ finished \in BOOLEAN
      /\ hook \in {"none", "set", "taken", "gone"}
      /\ AfterCommand \in {"pop", "hook"}
  BY DEF TypeInv, TypeOK, AfterCommand
<1>2. CASE TakeHook
  BY <1>1, <1>2 DEF TakeHook
<1>3. CASE RunHook
  BY <1>1, <1>3 DEF RunHook
<1>4. CASE Finish
  BY <1>1, <1>4 DEF Finish, hookVars, takenVars
<1>5. CASE SetFinishedHook
  BY <1>1, <1>5 DEF SetFinishedHook
<1>6. CASE TakeCommand \/ QueueClosed \/ TooManyRounds \/ CallLLM \/ ConsoleWrites
  BY <1>1, <1>6
  DEF TakeCommand, QueueClosed, TooManyRounds, CallLLM, ConsoleWrites, hookVars,
      takenVars
<1>7. CASE \E r \in Responses : Responds(r)
  BY <1>1, <1>7 DEF Responds, hookVars, takenVars
<1>8. CASE PushResponse \/ RefuseTool \/ CheckStop \/ StartTool \/ ToolReturns
  BY <1>1, <1>8
  DEF PushResponse, RefuseTool, CheckStop, StartTool, ToolReturns, hookVars, takenVars
<1>9. CASE \/ ToolClosesAgent \/ SelfCloseReturns \/ PushResults \/ EndRound
           \/ CommandThrows \/ OnCommandFailed
  BY <1>1, <1>9
  DEF ToolClosesAgent, SelfCloseReturns, PushResults, EndRound, CommandThrows,
      OnCommandFailed, hookVars, takenVars
<1>10. CASE \/ CloseQueue \/ SignalToken \/ TriggerStop
            \/ \E text \in {"text", "empty"} : Post(text)
  BY <1>1, <1>10 DEF CloseQueue, SignalToken, TriggerStop, Post, hookVars, takenVars
<1>11. CASE UNCHANGED agentVars
  BY <1>11 DEF agentVars, hookVars, takenVars
<1> QED
  BY <1>2, <1>3, <1>4, <1>5, <1>6, <1>7, <1>8, <1>9, <1>10, <1>11
  DEF AnyAgentStep, AgentStep, StopStep

-----------------------------------------------------------------------------
(* The process around the agent.                                           *)

ProcessTypes ==
    /\ cpc \in {"hook", "post", "start", "created", "none"}
    /\ loop \in {"off", "top", "read", "line", "post", "stop", "wait", "done"}
    /\ spc \in {"idle", "seen", "agent", "done"}
    /\ processStopped \in BOOLEAN
    /\ brokenPipe \in BOOLEAN
    /\ exitCode \in {NoCode, 0, 1, 141, 143}
    /\ stopBegunRunning \in BOOLEAN
    /\ stopDoneRunning \in BOOLEAN
    /\ program \in 0..MaxCommands

\* The process's own variables keep their types.
LEMMA ProcessTypeStep ==
    TypeInv /\ ProcessTypes /\ [PNext]_allVars => ProcessTypes'
<1> SUFFICES ASSUME TypeInv, ProcessTypes, [PNext]_allVars PROVE ProcessTypes'
  OBVIOUS
<1> USE DEF ProcessTypes, NoCode
<1>1. CASE UNCHANGED processVars
  BY <1>1 DEF processVars
<1>2. CASE InstallHook
  BY <1>2 DEF InstallHook
<1>3. CASE PostProgram
  <2>1. posted \in Nat /\ posted < MaxCommands
    BY <1>3 DEF PostProgram, Post, TypeInv, TypeOK
  <2>2. program' \in 0..MaxCommands
    BY <1>3, <2>1, AgentAssumption DEF PostProgram
  <2> QED
    BY <1>3, <2>2 DEF PostProgram
<1>4. CASE StartLoop
  BY <1>4 DEF StartLoop
<1>5. CASE LoopStep
  BY <1>5
  DEF LoopStep, LoopTo, LoopChecksAgent, ReadInterrupted, LoopChecksLine, LoopPosts,
      LoopDropsLine, LoopStopsAgent, LoopEnds
<1>6. CASE Input
  BY <1>6 DEF Input, LoopTo, LineArrives, InputEnds
<1>7. CASE StopBegins
  <2>1. stopBegunRunning' \in BOOLEAN
    <3>1. stopBegunRunning' = (stopBegunRunning \/ ~ProcessFinished)
      BY <1>7 DEF StopBegins
    <3>2. (stopBegunRunning \/ ~ProcessFinished) \in BOOLEAN
      <4>1. CASE stopBegunRunning \/ ~ProcessFinished
        BY <4>1, Zenon
      <4>2. CASE ~(stopBegunRunning \/ ~ProcessFinished)
        BY <4>2, Zenon
      <4> QED
        BY <4>1, <4>2
    <3> QED
      BY <3>1, <3>2, Zenon
  <2> QED
    BY <1>7, <2>1 DEF StopBegins
<1>8. CASE StopLatches
  <2>1. stopDoneRunning' \in BOOLEAN
    <3>1. stopDoneRunning' = ~ProcessFinished
      BY <1>8, Zenon DEF StopLatches
    <3>2. (~ProcessFinished) \in BOOLEAN
      <4>1. CASE ProcessFinished
        BY <4>1, Zenon
      <4>2. CASE ~ProcessFinished
        BY <4>2, Zenon
      <4> QED
        BY <4>1, <4>2
    <3> QED
      BY <3>1, <3>2, Zenon
  <2> QED
    BY <1>8, <2>1 DEF StopLatches
<1>9. CASE StopReachesAgent
  BY <1>9 DEF StopReachesAgent
<1>10. CASE ConsoleMeetsBrokenPipe
  BY <1>10 DEF ConsoleMeetsBrokenPipe
<1>11. CASE ReadExitCode
  BY <1>11 DEF ReadExitCode
<1>12. CASE UNCHANGED allVars
  BY <1>12 DEF allVars, processVars
<1> QED
  BY <1>1, <1>2, <1>3, <1>4, <1>5, <1>6, <1>7, <1>8, <1>9, <1>10, <1>11, <1>12
  DEF PNext, CreateStep, ProcessStop

\* Commands are handled in the order they are posted.
LEMMA FirstCommandStays ==
    TypeInv /\ FirstCommand /\ [AnyAgentStep]_agentVars => FirstCommand'
<1> SUFFICES ASSUME TypeInv, FirstCommand, [AnyAgentStep]_agentVars PROVE FirstCommand'
  OBVIOUS
<1>1. queue \in Seq(Commands) /\ handled \in Seq(1..MaxCommands)
  BY DEF TypeInv, TypeOK, Commands
<1>2. CASE TakeCommand
  <2>1. queue # <<>> /\ Head(queue) = queue[1] /\ queue[1] \in Commands
    BY <1>1, <1>2, HeadTailProperties, ElementOfSeq, LenProperties, EmptySeq
    DEF TakeCommand
  <2>2. CASE handled = <<>>
    <3>1. Head(queue) = <<1, "text">>
      BY <2>1, <2>2 DEF FirstCommand
    <3>2. handled' = <<1>>
      BY <1>2, <2>2, <3>1 DEF TakeCommand
    <3> QED
      BY <3>2 DEF FirstCommand
  <2>3. CASE handled # <<>>
    <3>1. handled' = handled \/ handled' = Append(handled, Head(queue)[1])
      BY <1>2 DEF TakeCommand, takenVars
    <3>2. Head(queue)[1] \in 1..MaxCommands
      BY <2>1 DEF Commands
    <3>3. Len(handled) \in Nat /\ Len(handled) # 0
      BY <1>1, <2>3, EmptySeq, LenProperties
    <3>4. handled' # <<>> /\ handled'[1] = handled[1]
      BY <1>1, <2>3, <3>1, <3>2, <3>3, AppendProperties
    <3> QED
      BY <2>3, <3>4 DEF FirstCommand
  <2> QED
    BY <2>2, <2>3
<1>3. CASE \E text \in {"text", "empty"} : Post(text)
  <2>1. PICK text \in {"text", "empty"} : Post(text)
    BY <1>3
  <2>2. /\ handled' = handled
        /\ queue' = Append(queue, <<posted + 1, text>>)
        /\ posted < MaxCommands
    BY <2>1 DEF Post, takenVars
  <2>3. <<posted + 1, text>> \in Commands
    BY <2>2, AgentAssumption DEF Commands, TypeInv, TypeOK
  <2>4. queue # <<>> => queue' # <<>> /\ queue'[1] = queue[1]
    <3> SUFFICES ASSUME queue # <<>> PROVE queue' # <<>> /\ queue'[1] = queue[1]
      OBVIOUS
    <3>1. Len(queue) \in Nat /\ Len(queue) # 0
      BY <1>1, EmptySeq, LenProperties
    <3> QED
      BY <1>1, <2>2, <2>3, <3>1, AppendProperties
  <2> QED
    BY <2>2, <2>4 DEF FirstCommand
<1>4. CASE UNCHANGED <<queue, handled>>
  BY <1>4 DEF FirstCommand
<1>5. CASE AgentStep \/ StopStep \/ TriggerStop \/ SetFinishedHook
  BY <1>2, <1>4, <1>5
  DEF AgentStep, StopStep, QueueClosed, TooManyRounds, CallLLM, Responds, ConsoleWrites,
      PushResponse, RefuseTool, CheckStop, StartTool, ToolReturns, ToolClosesAgent,
      SelfCloseReturns, PushResults, EndRound, CommandThrows, OnCommandFailed, TakeHook,
      RunHook, Finish, CloseQueue, SignalToken, TriggerStop, SetFinishedHook, queueVars,
      takenVars
<1>6. CASE UNCHANGED agentVars
  BY <1>4, <1>6 DEF agentVars, queueVars, takenVars
<1> QED
  BY <1>3, <1>5, <1>6 DEF AnyAgentStep

\* A hook that was set is not lost, and an agent that has finished stays finished.
LEMMA HookIsKept ==
    ASSUME HookInv, [AnyAgentStep]_agentVars
    PROVE  /\ hook \in {"set", "taken"} => hook' \in {"set", "taken"}
           /\ finished => finished'
<1>1. CASE TakeHook
  BY <1>1 DEF TakeHook, HookInv
<1>2. CASE Finish
  BY <1>2 DEF Finish, hookVars, takenVars
<1>3. CASE SetFinishedHook
  BY <1>3 DEF SetFinishedHook
<1>4. CASE UNCHANGED <<hook, finished>>
  BY <1>4
<1> QED
  BY <1>1, <1>2, <1>3, <1>4
  DEF AnyAgentStep, AgentStep, StopStep, TakeCommand, QueueClosed, TooManyRounds,
      CallLLM, Responds, ConsoleWrites, PushResponse, RefuseTool, CheckStop, StartTool,
      ToolReturns, ToolClosesAgent, SelfCloseReturns, PushResults, EndRound,
      CommandThrows, OnCommandFailed, RunHook, CloseQueue, SignalToken, TriggerStop,
      Post, hookVars, takenVars, agentVars

ProcessInv == TypeInv /\ ProcessTypes /\ ConversationInv /\ LateInv /\ HookInv
              /\ CreateInv /\ CodeInv

\* An agent of which nothing was asked yet does nothing.
LEMMA IdleAgent ==
    ASSUME TypeInv, apc = "pop", queue = <<>>, ~stopRequested, ~closed,
           AgentStep \/ StopStep
    PROVE  FALSE
BY DEF AgentStep, StopStep, TakeCommand, QueueClosed, TooManyRounds, CallLLM, Responds,
       ConsoleWrites, PushResponse, RefuseTool, CheckStop, StartTool, ToolReturns,
       ToolClosesAgent, SelfCloseReturns, PushResults, EndRound, CommandThrows,
       OnCommandFailed, TakeHook, RunHook, Finish, CloseQueue, SignalToken

\* Create: the hook, then the program, then the loop; nothing overtakes them.
LEMMA CreateInvStep == ProcessInv /\ [PNext]_allVars => CreateInv'
<1> SUFFICES ASSUME ProcessInv, CreateInv, [PNext]_allVars PROVE CreateInv'
  BY DEF ProcessInv
<1> USE DEF CreateInv
<1>1. [AnyAgentStep]_agentVars
  BY ProcessStepsAgent
<1>2. /\ hook \in {"set", "taken"} => hook' \in {"set", "taken"}
      /\ FirstCommand => FirstCommand'
  BY <1>1, HookIsKept, FirstCommandStays DEF ProcessInv
<1>3. CASE (AgentStep \/ StopStep) /\ UNCHANGED processVars
  <2>1. cpc \notin {"hook", "post"}
    BY <1>3, IdleAgent DEF ProcessInv
  <2> QED
    BY <1>2, <1>3, <2>1 DEF processVars, ProcessInv, ProcessTypes
<1>4. CASE cpc = "none" /\ Callers /\ UNCHANGED processVars
  BY <1>4 DEF processVars
<1>5. CASE InstallHook
  BY <1>5 DEF InstallHook, SetFinishedHook, queueVars, stopVars, takenVars
<1>6. CASE PostProgram
  <2>1. posted = 0 /\ queue = <<>> /\ handled = <<>> /\ cpc = "post"
    BY <1>6 DEF PostProgram
  <2>2. program' = 1 /\ queue' = <<<<1, "text">>>> /\ handled' = <<>>
    BY <1>6, <2>1 DEF PostProgram, Post, takenVars
  <2>3. FirstCommand'
    BY <2>2 DEF FirstCommand
  <2>4. cpc' = "start" /\ loop' = "off" /\ spc' = "idle" /\ hook' \in {"set", "taken"}
    BY <1>2, <1>6, <2>1 DEF PostProgram
  <2> QED
    BY <2>2, <2>3, <2>4
<1>7. CASE StartLoop
  BY <1>2, <1>7 DEF StartLoop
<1>8. CASE LoopStep
  <2>1. loop # "off"
    BY <1>8
    DEF LoopStep, LoopChecksAgent, ReadInterrupted, LoopChecksLine, LoopPosts,
        LoopDropsLine, LoopStopsAgent, LoopEnds, LoopTo
  <2>2. UNCHANGED <<cpc, program>>
    BY <1>8
    DEF LoopStep, LoopChecksAgent, ReadInterrupted, LoopChecksLine, LoopPosts,
        LoopDropsLine, LoopStopsAgent, LoopEnds, LoopTo
  <2> QED
    BY <1>2, <2>1, <2>2
<1>9. CASE Input
  BY <1>2, <1>9 DEF Input, LineArrives, InputEnds, LoopTo
<1>10. CASE StopBegins
  BY <1>2, <1>10 DEF StopBegins
<1>11. CASE ProcessStop
  <2>1. cpc = "created" /\ UNCHANGED <<cpc, program>>
    BY <1>11 DEF ProcessStop, StopLatches, StopReachesAgent, ProcessInv
  <2> QED
    BY <1>2, <2>1
<1>12. CASE ConsoleMeetsBrokenPipe
  <2>1. cpc \notin {"hook", "post"} /\ UNCHANGED <<cpc, loop, spc, program>>
    BY <1>12 DEF ConsoleMeetsBrokenPipe
  <2> QED
    BY <1>2, <2>1 DEF ProcessInv, ProcessTypes
<1>13. CASE ReadExitCode
  BY <1>2, <1>13 DEF ReadExitCode, ProcessFinished
<1>14. CASE UNCHANGED allVars
  BY <1>2, <1>14
  DEF allVars, agentVars, processVars, queueVars, stopVars, hookVars, takenVars
<1> QED
  BY <1>3, <1>4, <1>5, <1>6, <1>7, <1>8, <1>9, <1>10, <1>11, <1>12, <1>13, <1>14
  DEF PNext, CreateStep

\* A process that has finished has finished for good.
LEMMA FinishedForGood ==
    ASSUME ProcessInv, [PNext]_allVars, ProcessFinished
    PROVE  ProcessFinished'
<1>1. finished'
  BY ProcessStepsAgent, HookIsKept DEF ProcessInv, ProcessFinished
<1>2. cpc' = "created" /\ loop' \in {"off", "done"}
  BY DEF ProcessFinished, PNext, CreateStep, InstallHook, PostProgram, StartLoop,
         LoopStep, LoopChecksAgent, ReadInterrupted, LoopChecksLine, LoopPosts,
         LoopDropsLine, LoopStopsAgent, LoopEnds, LoopTo, Input, LineArrives, InputEnds,
         StopBegins, ProcessStop, StopLatches, StopReachesAgent, ConsoleMeetsBrokenPipe,
         ReadExitCode, allVars, processVars
<1> QED
  BY <1>1, <1>2 DEF ProcessFinished

\* The flag, the code and the process's end are latched in this order.
LEMMA CodeInvStep == ProcessInv /\ [PNext]_allVars => CodeInv'
<1> SUFFICES ASSUME ProcessInv, [PNext]_allVars PROVE CodeInv'
  OBVIOUS
<1> USE DEF CodeInv, ExitCodeTellsStop, NoCode
<1>1. ProcessFinished => ProcessFinished'
  BY FinishedForGood
<1>2. CodeInv
  BY DEF ProcessInv
<1>3. CASE UNCHANGED <<spc, processStopped, exitCode, stopBegunRunning, stopDoneRunning>>
  BY <1>1, <1>2, <1>3
<1>4. CASE StopBegins
  BY <1>1, <1>2, <1>4 DEF StopBegins
<1>5. CASE StopLatches
  BY <1>1, <1>2, <1>5 DEF StopLatches
<1>6. CASE StopReachesAgent
  BY <1>1, <1>2, <1>6 DEF StopReachesAgent
<1>7. CASE ReadExitCode
  <2>1. /\ exitCode' \in {0, 1, 141, 143}
        /\ exitCode' = 143 => processStopped
        /\ processStopped => exitCode' \in {141, 143}
    BY <1>7, SMT DEF ReadExitCode
  <2>2. UNCHANGED <<spc, processStopped, stopBegunRunning, stopDoneRunning>>
    BY <1>7 DEF ReadExitCode
  <2>3. ProcessFinished'
    BY <1>1, <1>7 DEF ReadExitCode
  <2> QED
    BY <1>2, <2>1, <2>2, <2>3
<1> QED
  BY <1>3, <1>4, <1>5, <1>6, <1>7
  DEF PNext, CreateStep, InstallHook, PostProgram, StartLoop, LoopStep, LoopChecksAgent,
      ReadInterrupted, LoopChecksLine, LoopPosts, LoopDropsLine, LoopStopsAgent,
      LoopEnds, LoopTo, Input, LineArrives, InputEnds, ProcessStop,
      ConsoleMeetsBrokenPipe, allVars, processVars

\* The initial states.
LEMMA InitInv == PInit => ProcessInv
<1> SUFFICES ASSUME PInit PROVE ProcessInv
  OBVIOUS
<1> USE AgentAssumption DEF PInit, Init
<1>1. TypeInv
  <2>1. /\ queue \in Seq((1..MaxCommands) \X {"text", "empty"})
        /\ handled \in Seq(1..MaxCommands)
        /\ history \in Seq([role : {"user", "assistant", "tool"}, calls : 0..MaxToolCalls])
    BY EmptySeq
  <2>2. 0 \in 0..MaxCommands /\ 0 \in 0..MaxRounds /\ 0 \in 0..MaxToolCalls /\ 0 \in Nat
    BY <2>1
  <2>3. TypeOK
    BY <2>1, <2>2, Zenon DEF TypeOK, Phases
  <2>4. RoundInv
    BY DEF RoundInv, ToolPhases
  <2> QED
    BY <2>3, <2>4 DEF TypeInv
<1>2. ProcessTypes
  <2>1. 0 \in 0..MaxCommands
    OBVIOUS
  <2> QED
    BY <2>1, Zenon DEF ProcessTypes
<1>3. ConversationInv
  <2>1. WellFormed(<<>>) /\ OnlyAssistantsCall(<<>>)
    BY DEF WellFormed, OnlyAssistantsCall
  <2> QED
    BY <2>1 DEF ConversationInv, ToolPhases
<1>4. LateInv /\ HookInv
  BY DEF LateInv, HookInv
<1>5. CreateInv /\ CodeInv
  BY DEF CreateInv, CodeInv, ExitCodeTellsStop, NoCode
<1> QED
  BY <1>1, <1>2, <1>3, <1>4, <1>5 DEF ProcessInv

\* The invariant every property below follows from.
THEOREM Invariance == PSpec => []ProcessInv
<1>1. ProcessInv /\ [PNext]_allVars => ProcessInv'
  <2> SUFFICES ASSUME ProcessInv, [PNext]_allVars PROVE ProcessInv'
    OBVIOUS
  <2>1. [AnyAgentStep]_agentVars
    BY ProcessStepsAgent
  <2> QED
    BY <2>1, AgentTypeStep, ProcessTypeStep, ConversationStep, LateStep, HookStep,
       CreateInvStep, CodeInvStep
    DEF ProcessInv
<1> QED
  BY <1>1, InitInv, PTL DEF PSpec

-----------------------------------------------------------------------------
(* The theorems.                                                           *)

\* Agent.cpp:364-366 and Agent.h:101-106: whatever was refused, stopped or thrown
\* on the way, each conversation sent to the LLM answers every tool call exactly
\* once, right behind the message that asked for it.
THEOREM ConversationsWellFormed == PSpec => []ConversationWellFormed
<1>1. ProcessInv => ConversationWellFormed
  BY DEF ProcessInv, ConversationInv, ConversationWellFormed, ToolPhases
<1> QED
  BY <1>1, Invariance, PTL

\* Agent.cpp:158-163: after a stop, an agent run once begins at most one more LLM
\* call or tool, the one whose check had let it through; an interactive one at most
\* one more LLM call for each command it still takes, and one tool in all.
THEOREM StopsBoundWork == PSpec => []StopBoundsWork
<1>1. ProcessInv => StopBoundsWork
  <2> SUFFICES ASSUME ProcessInv PROVE StopBoundsWork
    OBVIOUS
  <2>1. lateCommands \in Nat /\ lateCalls \in Nat /\ lateTools \in Nat
    BY DEF ProcessInv, TypeInv, TypeOK
  <2> QED
    BY <2>1 DEF ProcessInv, LateInv, StopBoundsWork
<1> QED
  BY <1>1, Invariance, PTL

\* AgentProcess.cpp:72-91: a finished process has released its descriptors, once
\* and after its conversation, and its first command was its program.
THEOREM ProcessesKeepOrder == PSpec => []ProcessKeepsOrder
<1>1. ProcessInv => ProcessKeepsOrder
  <2> SUFFICES ASSUME ProcessInv PROVE ProcessKeepsOrder
    OBVIOUS
  <2> USE DEF ProcessInv
  <2>1. PTypeOK
    BY DEF PTypeOK, TypeInv, ProcessTypes
  <2>2. HookBeforeFinished
    BY DEF HookInv, HookBeforeFinished
  <2>3. ProcessFinished => hookRuns = 1
    BY DEF ProcessFinished, CreateInv, HookInv
  <2>4. cpc # "none" /\ hookRuns > 0 => apc \in {"finish", "ended"}
    <3>1. hook \in {"none", "set", "taken", "gone"}
      BY DEF TypeInv, TypeOK
    <3> QED
      BY <3>1 DEF HookInv
  <2>5. cpc # "none" /\ handled # <<>> => program # 0 /\ handled[1] = program
    BY DEF ProcessTypes, CreateInv, FirstCommand
  <2> QED
    BY <2>1, <2>2, <2>3, <2>4, <2>5 DEF ProcessKeepsOrder
<1> QED
  BY <1>1, Invariance, PTL

\* AgentProcess.cpp:141-148 and 165-169: exit code 143 means a stop that came in
\* time, and a stop that came in time shows in the exit code.
THEOREM ExitCodesTellStops == PSpec => []ExitCodeTellsStop
<1>1. ProcessInv => ExitCodeTellsStop
  BY DEF ProcessInv, CodeInv
<1> QED
  BY <1>1, Invariance, PTL
=============================================================================
