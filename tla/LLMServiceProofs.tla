-------------------------- MODULE LLMServiceProofs --------------------------
(***************************************************************************)
(* Proofs about LLMService for every number of agents, every depth and     *)
(* every number of tool calls.  The inductive invariant has one part for   *)
(* each of what must hold together: the tree of agents (TreeInv), its      *)
(* depth (DepthInv), the creations under way (CreationInv), the phases of  *)
(* the destruction (DestructionInv), and who still keeps an agent that may *)
(* have work to do (KeptInv).                                              *)
(***************************************************************************)
EXTENDS LLMService, FiniteSetTheorems, TLAPS

\* The types of the variables, without what the tree says of the depth.
Types ==
    /\ agents \subseteq Agents
    /\ service \in {"up", "stop", "wait", "gone"}
    /\ taken \subseteq Agents
    /\ toStop \subseteq taken
    /\ created \in 0..MaxAgents
    /\ pc \in [Threads -> {"out", "none", "pop", "busy", "tool", "making", "made", "kept",
                           "post", "wait", "ended"}]
    /\ subject \in [Threads -> Threads]
    /\ parent \in [Agents -> Threads]
    /\ children \in [Agents -> SUBSET Agents]
    /\ interactive \in [Agents -> BOOLEAN]
    /\ stopRequested \in [Agents -> BOOLEAN]
    /\ prompts \in [Agents -> 0..1]
    /\ calls \in [Agents -> 0..MaxCalls]
    /\ held \subseteq Agents
    /\ named \in [Agents -> SUBSET Agents]
    /\ missed \subseteq Agents \X Agents \X BOOLEAN

\* The agents that exist, and the threads that are about to create one.
Born == {a \in Agents : pc[a] # "none"}
Making == {t \in Threads : pc[t] = "making"}

\* Agents are born in the order of their numbers, after their parents, and each
\* creation begun bears at most one.
TreeInv ==
    /\ \A a, b \in Agents : a < b /\ b \in Born => a \in Born
    /\ \A a \in Agents : parent[a] < a /\ (parent[a] # Main => parent[a] \in Born)
    /\ Cardinality(Born) + Cardinality(Making) = created

\* No agent is too deep, and none that would bear one too deep is about to.
DepthInv ==
    /\ \A a \in Agents : Depth(a) \in 0..MaxDepth
    /\ \A t \in Agents : pc[t] = "making" => Depth(t) < MaxDepth

Creating(t) == pc[t] \in {"made", "kept", "post"}

\* Each creation under way has an agent of its own, which has no command yet.
CreationInv ==
    /\ \A t \in Threads : subject[t] # Main => subject[t] \in Born
    /\ \A t \in Threads : Creating(t) => subject[t] # Main /\ prompts[subject[t]] = 0
    /\ \A t, u \in Threads : Creating(t) /\ Creating(u) /\ subject[t] = subject[u] => t = u
    /\ \A a \in Agents : a \notin Born => prompts[a] = 0
    /\ \A a \in Agents : children[a] \subseteq Born /\ named[a] \subseteq children[a]
    /\ \A t \in Agents : pc[t] = "post" => subject[t] \in children[t]

\* What is left of the service in each phase of its destruction.
DestructionInv ==
    /\ service # "up" => agents = {} /\ pc[Main] = "out"
    /\ service = "up" => taken = {}
    /\ service \in {"wait", "gone"} => toStop = {}
    /\ service = "gone" => taken = {}

\* A new agent nobody but its creator knows: it has no command, and will get none
\* unless the service takes it in.
Fresh(a) ==
    /\ pc[a] = "pop" /\ prompts[a] = 0
    /\ \A t \in Threads : pc[t] \in {"kept", "post"} => subject[t] # a
    /\ \A b \in Agents : a \notin named[b]

\* An agent that may still have work to do is the service's.
KeptInv ==
    /\ \A a \in Agents : pc[a] \in {"none", "ended"} \/ a \in agents \union taken \/ Fresh(a)
    /\ RunningChildIsFound

ServiceInv ==
    Types /\ TreeInv /\ DepthInv /\ CreationInv /\ DestructionInv /\ KeptInv
-----------------------------------------------------------------------------
(* The tree.                                                               *)

\* Agents are positive numbers, and the main thread is none of them.
LEMMA Numbers ==
    /\ MaxAgents \in Nat /\ MaxDepth \in Nat /\ MaxCalls \in Nat
    /\ Main \notin Agents /\ Main \in Threads /\ Agents \subseteq Threads
    /\ \A a \in Agents : a \in Nat /\ a > 0 /\ a <= MaxAgents
    /\ \A t \in Threads : t \in Nat /\ (t # Main => t \in Agents)
    /\ \A n \in Nat : n > 0 /\ n <= MaxAgents => n \in Agents
    /\ IsFiniteSet(Agents) /\ Cardinality(Agents) = MaxAgents
    /\ IsFiniteSet(Threads)
<1>1. MaxAgents \in Nat /\ MaxDepth \in Nat /\ MaxCalls \in Nat
  BY LLMServiceAssumption
<1>2. /\ Main \notin Agents /\ Main \in Threads /\ Agents \subseteq Threads
      /\ \A a \in Agents : a \in Nat /\ a > 0 /\ a <= MaxAgents
      /\ \A t \in Threads : t \in Nat /\ (t # Main => t \in Agents)
      /\ \A n \in Nat : n > 0 /\ n <= MaxAgents => n \in Agents
  BY <1>1 DEF Main, Agents, Threads
<1>3. IsFiniteSet(Agents) /\ Cardinality(Agents) = MaxAgents
  <2>1. /\ IsFiniteSet(1..MaxAgents)
        /\ Cardinality(1..MaxAgents) = IF 1 > MaxAgents THEN 0 ELSE MaxAgents - 1 + 1
    BY <1>1, FS_Interval
  <2> QED
    BY <1>1, <2>1 DEF Agents
<1>4. IsFiniteSet(Threads)
  <2>1. IsFiniteSet({Main})
    BY FS_Singleton
  <2> QED
    BY <1>3, <2>1, FS_Union DEF Threads
<1> QED
  BY <1>1, <1>2, <1>3, <1>4

\* A set of numbers that is not empty has a least element.
LEMMA LeastElement ==
    ASSUME NEW T, T \subseteq Nat, T # {}
    PROVE  \E m \in T : \A n \in T : m <= n
<1> DEFINE F == {0..m : m \in T}
<1>1. \A m \in T : m \in Int /\ 0..m \subseteq Nat /\ IsFiniteSet(0..m)
  BY FS_Interval
<1>2. F \subseteq FiniteSubsetsOf(Nat) /\ F # {}
  BY <1>1 DEF FiniteSubsetsOf
<1>3. PICK f \in F : \A g \in F : ~(<<g, f>> \in StrictSubsetOrdering(Nat))
  <2> HIDE DEF F
  <2> QED
    BY <1>2, WFMin, FS_StrictSubsetOrderingWellFounded, Zenon
<1>4. PICK m \in T : f = 0..m
  OBVIOUS
<1>5. ASSUME NEW n \in T, n < m
      PROVE  FALSE
  <2>1. 0..n \subseteq 0..m /\ 0..n # 0..m
    BY <1>5
  <2>2. <<0..n, 0..m>> \in (SUBSET Nat) \X (SUBSET Nat)
    BY <1>1
  <2>3. <<0..n, 0..m>> \in StrictSubsetOrdering(Nat)
    BY <2>1, <2>2 DEF StrictSubsetOrdering
  <2>4. 0..n \in F
    OBVIOUS
  <2> QED
    BY <2>3, <2>4, <1>3, <1>4
<1> QED
  BY <1>5

\* Ancestry, for parents par.
AncestryIn(par) ==
    CHOOSE f : f = [a \in Threads |-> IF a = Main THEN {} ELSE {a} \union f[par[a]]]

\* Ancestry is what its definition says: one more at every hop.  The function exists,
\* for the smallest sets closed under par are one.
LEMMA AncestryEquation ==
    ASSUME NEW par \in [Agents -> Threads]
    PROVE  /\ AncestryIn(par)[Main] = {}
           /\ \A a \in Agents : AncestryIn(par)[a] = {a} \union AncestryIn(par)[par[a]]
<1> DEFINE Closed(S, a) == a \in S /\ \A x \in S : par[x] # Main => par[x] \in S
           Up(a) == {b \in Agents : \A S \in SUBSET Agents : Closed(S, a) => b \in S}
           g == [a \in Threads |-> IF a = Main THEN {} ELSE Up(a)]
<1>1. ASSUME NEW a \in Agents PROVE Up(a) = {a} \union g[par[a]]
  <2>0. par[a] \in Threads /\ (par[a] # Main => par[a] \in Agents)
    BY Numbers
  <2>1. CASE par[a] = Main
    <3>1. g[par[a]] = {} /\ Closed({a}, a) /\ {a} \in SUBSET Agents
      BY <2>1, Numbers
    <3> QED
      BY <3>1
  <2>2. CASE par[a] # Main
    <3> DEFINE p == par[a]
    <3>1. p \in Agents /\ g[p] = Up(p)
      BY <2>0, <2>2, Numbers
    <3>2. \A S \in SUBSET Agents : Closed(S, a) => Closed(S, p)
      BY <2>2
    <3>3. Closed({a} \union Up(p), a) /\ {a} \union Up(p) \in SUBSET Agents
      <4>1. p \in Up(p)
        BY <3>1
      <4>2. ASSUME NEW x \in Up(p), par[x] # Main PROVE par[x] \in Up(p)
        <5>1. x \in Agents /\ par[x] \in Agents
          BY <4>2, Numbers
        <5> QED
          BY <4>2, <5>1
      <4> HIDE DEF Up
      <4>3. Up(p) \subseteq Agents
        BY DEF Up
      <4> QED
        BY <4>1, <4>2, <4>3
    <3>4. Up(a) \subseteq {a} \union Up(p)
      BY <3>3
    <3>5. Up(p) \subseteq Up(a) /\ a \in Up(a)
      BY <3>2
    <3> QED
      BY <3>1, <3>4, <3>5
  <2> QED
    BY <2>1, <2>2
<1>2. g = [a \in Threads |-> IF a = Main THEN {} ELSE {a} \union g[par[a]]]
  <2>1. \A a \in Threads : a # Main => g[a] = {a} \union g[par[a]]
    <3> HIDE DEF Up
    <3> QED
      BY <1>1, Numbers
  <2>2. g[Main] = {}
    BY Numbers
  <2>3. g = [a \in Threads |-> g[a]]
    OBVIOUS
  <2> HIDE DEF g
  <2> QED
    BY <2>1, <2>2, <2>3
<1> HIDE DEF g
<1>3. AncestryIn(par) =
        [a \in Threads |-> IF a = Main THEN {} ELSE {a} \union AncestryIn(par)[par[a]]]
  BY <1>2 DEF AncestryIn
<1> DEFINE f == AncestryIn(par)
<1>4. f = [a \in Threads |-> IF a = Main THEN {} ELSE {a} \union f[par[a]]]
  BY <1>3
<1> HIDE DEF f
<1>5. f[Main] = {} /\ \A a \in Agents : f[a] = {a} \union f[par[a]]
  BY <1>4, Numbers
<1> QED
  BY <1>5 DEF f

\* Before and after a step.
LEMMA AncestryIs == Ancestry = AncestryIn(parent) /\ Ancestry' = AncestryIn(parent')
BY DEF Ancestry, AncestryIn

\* Parents come before their children.
Older(par) == \A a \in Agents : par[a] < a

\* An agent's ancestors are agents, itself one of them.
LEMMA AncestorsAreAgents ==
    ASSUME NEW par \in [Agents -> Threads], Older(par)
    PROVE  \A t \in Threads : /\ AncestryIn(par)[t] \subseteq Agents
                              /\ IsFiniteSet(AncestryIn(par)[t])
                              /\ t # Main => t \in AncestryIn(par)[t]
<1> DEFINE f == AncestryIn(par)
           Bad == {t \in Threads : ~(f[t] \subseteq Agents)}
<1>1. f[Main] = {} /\ \A a \in Agents : f[a] = {a} \union f[par[a]]
  BY AncestryEquation
<1> HIDE DEF f
<1>2. Bad = {}
  <2>1. SUFFICES ASSUME Bad # {} PROVE FALSE
    OBVIOUS
  <2>2. Bad \subseteq Nat
    BY Numbers
  <2>3. PICK m \in Bad : \A n \in Bad : m <= n
    <3> HIDE DEF Bad
    <3> QED
      BY <2>1, <2>2, LeastElement
  <2>4. m \in Agents
    BY <1>1, <2>3, Numbers
  <2>5. par[m] \in Threads /\ par[m] < m /\ m \in Nat /\ par[m] \in Nat
    BY <2>4, Numbers DEF Older
  <2>6. par[m] \notin Bad
    BY <2>3, <2>5
  <2> QED
    BY <1>1, <2>3, <2>4, <2>5, <2>6
<1>3. \A t \in Threads : f[t] \subseteq Agents
  BY <1>2
<1>4. \A t \in Threads : IsFiniteSet(f[t])
  BY <1>3, FS_Subset, Numbers
<1>5. \A t \in Threads : t # Main => t \in f[t]
  BY <1>1, Numbers
<1> QED
  BY <1>3, <1>4, <1>5 DEF f

\* A new leaf has its parent's ancestors and itself; everybody else keeps theirs.
LEMMA NewLeaf ==
    ASSUME NEW par \in [Agents -> Threads], Older(par),
           NEW a \in Agents, \A b \in Agents : par[b] # a,
           NEW t \in Threads, t < a,
           NEW par2 \in [Agents -> Threads],
           par2[a] = t, \A b \in Agents : b # a => par2[b] = par[b]
    PROVE  /\ Older(par2)
           /\ \A c \in Threads : c # a => AncestryIn(par2)[c] = AncestryIn(par)[c]
           /\ AncestryIn(par2)[a] = {a} \union AncestryIn(par)[t]
<1> DEFINE f == AncestryIn(par)
           f2 == AncestryIn(par2)
           Bad == {c \in Threads : c # a /\ f2[c] # f[c]}
<1>0. Older(par2)
  <2> SUFFICES ASSUME NEW b \in Agents PROVE par2[b] < b
    BY DEF Older
  <2> QED
    BY DEF Older
<1>1. f[Main] = {} /\ \A b \in Agents : f[b] = {b} \union f[par[b]]
  BY AncestryEquation
<1>2. f2[Main] = {} /\ \A b \in Agents : f2[b] = {b} \union f2[par2[b]]
  BY <1>0, AncestryEquation
<1> HIDE DEF f, f2
<1>3. Bad = {}
  <2>1. SUFFICES ASSUME Bad # {} PROVE FALSE
    OBVIOUS
  <2>2. Bad \subseteq Nat
    BY Numbers
  <2>3. PICK m \in Bad : \A n \in Bad : m <= n
    <3> HIDE DEF Bad
    <3> QED
      BY <2>1, <2>2, LeastElement
  <2>4. m \in Agents /\ m # a
    BY <1>1, <1>2, <2>3, Numbers
  <2>5. /\ par[m] \in Threads /\ par[m] < m /\ m \in Nat /\ par[m] \in Nat
        /\ par[m] # a /\ par2[m] = par[m]
    BY <2>4, Numbers DEF Older
  <2>6. par[m] \notin Bad
    BY <2>3, <2>5
  <2>7. f2[par[m]] = f[par[m]]
    BY <2>5, <2>6
  <2>8. f[m] = {m} \union f[par[m]] /\ f2[m] = {m} \union f2[par[m]]
    BY <1>1, <1>2, <2>4, <2>5
  <2> QED
    BY <2>3, <2>7, <2>8
<1>4. t # a /\ par2[a] = t
  BY Numbers
<1>5. f2[a] = {a} \union f[t]
  BY <1>2, <1>3, <1>4
<1> QED
  BY <1>0, <1>3, <1>5 DEF f, f2
-----------------------------------------------------------------------------
(* The steps.                                                              *)

\* The agent MakeAgent creates.
NextAgent ==
    CHOOSE b \in Agents : pc[b] = "none" /\ \A c \in 1..(b - 1) : pc[c] # "none"

\* There is one, later than every other and than its creator: a creation that was
\* begun has its place in the count.
LEMMA NextAgentExists ==
    ASSUME Types, TreeInv, NEW t \in Threads, pc[t] = "making"
    PROVE  /\ NextAgent \in Agents /\ NextAgent \notin Born /\ pc[NextAgent] = "none"
           /\ \A c \in Agents : c < NextAgent => c \in Born
           /\ NextAgent # t /\ t < NextAgent
           /\ \A b \in Agents : parent[b] # NextAgent
           /\ IsFiniteSet(Born) /\ IsFiniteSet(Making)
<1>1. IsFiniteSet(Born) /\ IsFiniteSet(Making) /\ Born \subseteq Agents
  BY FS_Subset, Numbers DEF Born, Making
<1>2. Cardinality(Making) \in Nat /\ Cardinality(Making) # 0
  <2>1. Making # {}
    BY DEF Making
  <2> QED
    BY <1>1, <2>1, FS_EmptySet, FS_CardinalityType
<1>3. Cardinality(Born) \in Nat /\ Cardinality(Born) < MaxAgents
  <2>1. created \in 0..MaxAgents /\ Cardinality(Born) + Cardinality(Making) = created
    BY DEF Types, TreeInv
  <2>2. Cardinality(Born) \in Nat
    BY <1>1, FS_CardinalityType
  <2> QED
    BY <1>2, <2>1, <2>2, Numbers
<1>4. Agents \ Born # {}
  <2>1. Born # Agents
    BY <1>3, Numbers
  <2> QED
    BY <1>1, <2>1
<1>5. PICK m \in Agents \ Born : \A n \in Agents \ Born : m <= n
  <2>1. Agents \ Born \subseteq Nat
    BY Numbers
  <2> QED
    BY <1>4, <2>1, LeastElement
<1>6. \A c \in 1..(m - 1) : c \in Agents /\ c < m
  BY Numbers DEF Agents
<1>7. pc[m] = "none" /\ \A c \in 1..(m - 1) : pc[c] # "none"
  <2>1. \A c \in 1..(m - 1) : c \in Born
    BY <1>5, <1>6, Numbers
  <2> QED
    BY <1>5, <2>1 DEF Born
<1>8. /\ NextAgent \in Agents /\ pc[NextAgent] = "none"
      /\ \A c \in 1..(NextAgent - 1) : pc[c] # "none"
  BY <1>5, <1>7 DEF NextAgent
<1> DEFINE a == NextAgent
<1> HIDE DEF a
<1>9. /\ a \in Agents /\ pc[a] = "none" /\ a \notin Born
      /\ \A c \in Agents : c < a => c \in Born
  <2>1. a \in Agents /\ pc[a] = "none" /\ \A c \in 1..(a - 1) : pc[c] # "none"
    BY <1>8 DEF a
  <2>2. \A c \in Agents : c < a => c \in 1..(a - 1)
    BY <2>1, Numbers
  <2> QED
    BY <2>1, <2>2 DEF Born
<1>10. a # t /\ t < a
  <2>1. a # t
    BY <1>9
  <2>2. CASE t = Main
    BY <1>9, <2>2, Numbers DEF Main
  <2>3. CASE t # Main
    <3>1. t \in Born
      BY <2>3, Numbers DEF Born
    <3> QED
      BY <1>9, <2>1, <3>1, Numbers DEF TreeInv, Born
  <2> QED
    BY <2>1, <2>2, <2>3
<1>11. \A b \in Agents : parent[b] # a
  BY <1>9, Numbers DEF TreeInv
<1> QED
  BY <1>1, <1>9, <1>10, <1>11 DEF a

\* What the creation of an agent changes.
LEMMA MakeAgentFacts ==
    ASSUME Types, TreeInv, NEW t \in Threads, MakeAgent(t)
    PROVE  /\ pc' = [pc EXCEPT ![t] = "made", ![NextAgent] = "pop"]
           /\ subject' = [subject EXCEPT ![t] = NextAgent]
           /\ parent' = [parent EXCEPT ![NextAgent] = t]
           /\ \E i \in BOOLEAN : interactive' = [interactive EXCEPT ![NextAgent] = i]
           /\ UNCHANGED <<agents, service, taken, toStop, created, children, held,
                          stopRequested, prompts, calls, named, missed>>
           /\ pc[t] = "making"
           /\ NextAgent \in Agents /\ NextAgent \in Threads
           /\ NextAgent \notin Born /\ pc[NextAgent] = "none"
           /\ NextAgent # t /\ t < NextAgent
           /\ \A c \in Agents : c < NextAgent => c \in Born
           /\ \A b \in Agents : parent[b] # NextAgent
BY NextAgentExists, Numbers
DEF MakeAgent, NextAgent, serviceVars, convVars, lookVars

\* The initial state.
LEMMA InitService == Init => ServiceInv
<1> SUFFICES ASSUME Init PROVE ServiceInv
  OBVIOUS
<1> USE DEF Init
<1>1. Types
  BY Numbers DEF Types
<1>2. Born = {} /\ Making = {}
  BY Numbers DEF Born, Making
<1>3. TreeInv
  <2>1. Cardinality(Born) = 0 /\ Cardinality(Making) = 0
    BY <1>2, FS_EmptySet
  <2>2. \A a \in Agents : parent[a] = Main /\ Main < a
    BY Numbers DEF Main
  <2> QED
    BY <1>2, <2>1, <2>2 DEF TreeInv
<1>4. DepthInv
  <2>1. parent \in [Agents -> Threads] /\ \A a \in Agents : parent[a] = Main
    BY Numbers
  <2>2. \A a \in Agents : Ancestry[a] = {a}
    BY <2>1, AncestryEquation, AncestryIs
  <2>3. \A a \in Agents : Depth(a) = 0
    <3> TAKE a \in Agents
    <3>1. Cardinality({a}) = 1
      BY FS_Singleton
    <3>2. Cardinality(Ancestry[a]) = 1
      BY <2>2, <3>1
    <3> QED
      BY <3>2 DEF Depth
  <2>4. \A t \in Agents : pc[t] # "making"
    BY Numbers
  <2> QED
    BY <2>3, <2>4, Numbers DEF DepthInv
<1>5. CreationInv
  BY <1>2, Numbers DEF CreationInv, Creating
<1>6. DestructionInv
  BY DEF DestructionInv
<1>7. KeptInv
  BY Numbers DEF KeptInv, RunningChildIsFound
<1> QED
  BY <1>1, <1>3, <1>4, <1>5, <1>6, <1>7 DEF ServiceInv

\* The types are kept.
LEMMA TypesStep == ServiceInv /\ [Next]_llmVars => Types'
<1> SUFFICES ASSUME ServiceInv, [Next]_llmVars PROVE Types'
  OBVIOUS
<1> USE Numbers DEF Types, serviceVars, treeVars, convVars, lookVars, Go, Home
<1>0. Types
  BY DEF ServiceInv
<1>1. ASSUME NEW t \in Threads, BeginCreate(t) PROVE Types'
  BY <1>0, <1>1 DEF BeginCreate
<1>2. ASSUME NEW t \in Threads, MakeAgent(t) PROVE Types'
  <2>1. TreeInv
    BY DEF ServiceInv
  <2> PICK n : n = NextAgent
    OBVIOUS
  <2>2. /\ pc' = [pc EXCEPT ![t] = "made", ![n] = "pop"]
        /\ subject' = [subject EXCEPT ![t] = n]
        /\ parent' = [parent EXCEPT ![n] = t]
        /\ n \in Agents /\ n \in Threads
    BY <1>0, <1>2, <2>1, MakeAgentFacts
  <2>3. PICK i \in BOOLEAN : interactive' = [interactive EXCEPT ![n] = i]
    BY <1>0, <1>2, <2>1, MakeAgentFacts
  <2>4. UNCHANGED <<agents, service, taken, toStop, created, children, held,
                    stopRequested, prompts, calls, named, missed>>
    BY <1>0, <1>2, <2>1, MakeAgentFacts
  <2>5. pc' \in [Threads -> {"out", "none", "pop", "busy", "tool", "making", "made", "kept",
                             "post", "wait", "ended"}]
    BY <1>0, <2>2
  <2>6. subject' \in [Threads -> Threads] /\ parent' \in [Agents -> Threads]
    BY <1>0, <2>2
  <2>7. interactive' \in [Agents -> BOOLEAN]
    BY <1>0, <2>3
  <2> QED
    BY ONLY <1>0, <2>4, <2>5, <2>6, <2>7 DEF Types
<1>3. ASSUME NEW t \in Threads, Keep(t) PROVE Types'
  <2>1. subject[t] \in Agents
    BY <1>3 DEF ServiceInv, CreationInv, Creating, Keep
  <2>2. CASE service = "up"
    <3>1. /\ agents' = (agents \ Finishing) \union {subject[t]}
          /\ pc' = [pc EXCEPT ![t] = "kept"]
          /\ UNCHANGED <<subject, stopRequested>>
      BY <1>3, <2>2 DEF Keep
    <3>2. UNCHANGED <<service, taken, toStop, created, prompts, calls, treeVars, lookVars>>
      BY <1>3 DEF Keep
    <3> QED
      BY <1>0, <2>1, <3>1, <3>2
  <2>3. CASE service # "up"
    <3>1. /\ stopRequested' = [stopRequested EXCEPT ![subject[t]] = TRUE]
          /\ pc' = [pc EXCEPT ![t] = Home(t)]
          /\ subject' = [subject EXCEPT ![t] = Main]
          /\ UNCHANGED agents
      BY <1>3, <2>3 DEF Keep
    <3>2. UNCHANGED <<service, taken, toStop, created, prompts, calls, treeVars, lookVars>>
      BY <1>3 DEF Keep
    <3> QED
      BY <1>0, <2>1, <3>1, <3>2
  <2> QED
    BY <2>2, <2>3
<1>4. ASSUME NEW t \in Threads, AddChild(t) PROVE Types'
  <2>1. subject[t] \in Agents
    BY <1>4 DEF ServiceInv, CreationInv, Creating, AddChild
  <2> QED
    BY <1>0, <1>4, <2>1 DEF AddChild
<1>5. ASSUME NEW t \in Threads, PostPrompt(t) PROVE Types'
  <2>1. subject[t] \in Agents /\ prompts[subject[t]] = 0
    BY <1>5 DEF ServiceInv, CreationInv, Creating, PostPrompt
  <2> QED
    BY <1>0, <1>5, <2>1 DEF PostPrompt
<1>6. ASSUME NEW a \in Agents, TakeCommand(a) PROVE Types'
  BY <1>0, <1>6 DEF TakeCommand
<1>7. ASSUME NEW a \in Agents, CallTool(a) PROVE Types'
  BY <1>0, <1>7 DEF CallTool
<1>8. ASSUME NEW a \in Agents, SelfClose(a) PROVE Types'
  BY <1>0, <1>8 DEF SelfClose
<1>9. ASSUME NEW a \in Agents, QueryAgent(a) PROVE Types'
  <2> PICK c \in named[a] :
         missed' = IF Finds(a, c) THEN missed ELSE missed \union {<<a, c, Finished(c)>>}
    BY <1>9 DEF QueryAgent
  <2>1. c \in Agents /\ Finished(c) \in BOOLEAN
    BY <1>0 DEF Finished
  <2>2. missed' \subseteq Agents \X Agents \X BOOLEAN
    BY <1>0, <2>1
  <2> QED
    BY <1>0, <1>9, <2>2 DEF QueryAgent
<1>10. ASSUME NEW a \in Agents, WaitForAgent(a) PROVE Types'
  <2> PICK c \in named[a] :
         \/ /\ pc' = [pc EXCEPT ![a] = "wait"] /\ subject' = [subject EXCEPT ![a] = c]
            /\ UNCHANGED missed
         \/ /\ pc' = [pc EXCEPT ![a] = "busy"] /\ UNCHANGED subject
            /\ missed' = missed \union {<<a, c, Finished(c)>>}
    BY <1>10 DEF WaitForAgent
  <2>1. c \in Agents /\ Finished(c) \in BOOLEAN
    BY <1>0 DEF Finished
  <2>2. missed' \subseteq Agents \X Agents \X BOOLEAN
    BY <1>0, <2>1
  <2> QED
    BY <1>0, <1>10, <2>1, <2>2 DEF WaitForAgent
<1>11. ASSUME NEW a \in Agents, WaitEnds(a) PROVE Types'
  BY <1>0, <1>11 DEF WaitEnds
<1>12. ASSUME NEW a \in Agents, EndCommand(a) PROVE Types'
  BY <1>0, <1>12 DEF EndCommand
<1>13. ASSUME NEW a \in Agents, QueueClosed(a) PROVE Types'
  BY <1>0, <1>13 DEF QueueClosed
<1>14. ASSUME NEW a \in Agents, StopProcess(a) \/ ReleaseProcess(a) PROVE Types'
  BY <1>0, <1>14 DEF StopProcess, ReleaseProcess
<1>15. ASSUME BeginDestruction PROVE Types'
  BY <1>0, <1>15 DEF BeginDestruction
<1>16. ASSUME NEW a \in Agents, StopAgent(a) PROVE Types'
  BY <1>0, <1>16 DEF StopAgent
<1>17. ASSUME AllStopped PROVE Types'
  BY <1>0, <1>17 DEF AllStopped
<1>18. ASSUME EndDestruction PROVE Types'
  <2>1. toStop = {}
    BY <1>18 DEF ServiceInv, DestructionInv, EndDestruction
  <2> QED
    BY <1>0, <1>18, <2>1 DEF EndDestruction
<1>19. CASE UNCHANGED llmVars
  BY <1>0, <1>19 DEF llmVars
<1> QED
  BY <1>1, <1>2, <1>3, <1>4, <1>5, <1>6, <1>7, <1>8, <1>9, <1>10, <1>11, <1>12, <1>13,
     <1>14, <1>15, <1>16, <1>17, <1>18, <1>19
  DEF Next, CreateStep, AgentStep, ToolStep, ChildFinished, DestructionStep

\* Steps that bear nobody, begin no creation and keep the parents keep the tree.
LEMMA SameTree ==
    ASSUME Types, TreeInv, UNCHANGED <<parent, created>>,
           \A a \in Agents : pc'[a] = "none" <=> pc[a] = "none",
           \A t \in Threads : pc'[t] = "making" <=> pc[t] = "making"
    PROVE  TreeInv' /\ Born' = Born
<1>1. Born' = Born /\ Making' = Making
  BY DEF Born, Making
<1> QED
  BY <1>1 DEF TreeInv

\* The agents are born in order, and as many as were begun.
LEMMA TreeStep == ServiceInv /\ [Next]_llmVars => TreeInv'
<1> SUFFICES ASSUME ServiceInv, [Next]_llmVars PROVE TreeInv'
  OBVIOUS
<1> USE Numbers
<1>0. Types /\ TreeInv
  BY DEF ServiceInv
<1>1. ASSUME NEW t \in Threads, BeginCreate(t) PROVE TreeInv'
  <2>1. parent' = parent /\ pc[t] \in {"out", "tool"}
    BY <1>1 DEF BeginCreate, treeVars
  <2>2. CASE pc' = [pc EXCEPT ![t] = "making"] /\ created' = created + 1
    <3>1. Born' = Born
      BY <1>0, <2>1, <2>2 DEF Born, Types
    <3>2. Making' = Making \union {t} /\ t \notin Making
      BY <1>0, <2>1, <2>2 DEF Making, Types
    <3>3. IsFiniteSet(Making) /\ IsFiniteSet(Born)
      BY FS_Subset DEF Making, Born
    <3>4. /\ Cardinality(Making') = Cardinality(Making) + 1
          /\ Cardinality(Making) \in Nat /\ Cardinality(Born) \in Nat
      BY <3>2, <3>3, FS_AddElement, FS_CardinalityType
    <3>5. Cardinality(Born') + Cardinality(Making') = created'
      BY <1>0, <2>2, <3>1, <3>4 DEF TreeInv
    <3> QED
      BY <1>0, <2>1, <3>1, <3>5 DEF TreeInv
  <2>3. CASE pc' = [pc EXCEPT ![t] = Home(t)] /\ created' = created
    <3>1. Home(t) \in {"out", "busy"} /\ pc \in [Threads -> {"out", "none", "pop", "busy",
             "tool", "making", "made", "kept", "post", "wait", "ended"}]
      BY <1>0 DEF Home, Types
    <3>2. \A a \in Agents : pc'[a] = "none" <=> pc[a] = "none"
      BY <2>1, <2>3, <3>1
    <3>3. \A u \in Threads : pc'[u] = "making" <=> pc[u] = "making"
      BY <2>1, <2>3, <3>1
    <3> QED
      BY <1>0, <2>1, <2>3, <3>2, <3>3, SameTree
  <2> QED
    BY <1>1, <2>2, <2>3 DEF BeginCreate
<1>2. ASSUME NEW t \in Threads, MakeAgent(t) PROVE TreeInv'
  <2> DEFINE a == NextAgent
  <2>0. /\ pc' = [pc EXCEPT ![t] = "made", ![a] = "pop"] /\ created' = created
        /\ parent' = [parent EXCEPT ![a] = t] /\ pc[t] = "making"
        /\ a \in Agents /\ a \in Threads /\ a \notin Born /\ pc[a] = "none"
        /\ a # t /\ t < a
        /\ \A c \in Agents : c < a => c \in Born
        /\ IsFiniteSet(Born) /\ IsFiniteSet(Making)
    BY <1>0, <1>2, MakeAgentFacts, NextAgentExists
  <2> HIDE DEF a
  <2>1. Born' = Born \union {a}
    BY <1>0, <2>0 DEF Born, Types
  <2>2. Making' = Making \ {t} /\ t \in Making
    BY <1>0, <2>0 DEF Making, Types
  <2>3. /\ Cardinality(Born') = Cardinality(Born) + 1 /\ Cardinality(Born) \in Nat
        /\ Cardinality(Making') = Cardinality(Making) - 1 /\ Cardinality(Making) \in Nat
    <3>1. IsFiniteSet(Born) /\ IsFiniteSet(Making) /\ a \notin Born /\ t \in Making
      BY <2>0, <2>2
    <3>2. Cardinality(Born) \in Nat /\ Cardinality(Making) \in Nat
      BY <3>1, FS_CardinalityType
    <3>3. Cardinality(Born \union {a}) = Cardinality(Born) + 1
      BY <3>1, FS_AddElement
    <3>4. Cardinality(Making \ {t}) = Cardinality(Making) - 1
      BY <3>1, FS_RemoveElement
    <3> QED
      BY ONLY <2>1, <2>2, <3>2, <3>3, <3>4
  <2>4. Cardinality(Born') + Cardinality(Making') = created'
    BY <1>0, <2>0, <2>3 DEF TreeInv
  <2>5. \A b, c \in Agents : b < c /\ c \in Born' => b \in Born'
    BY <1>0, <2>0, <2>1 DEF TreeInv
  <2>6. t # Main => t \in Born
    BY <2>0 DEF Born
  <2>7. \A b \in Agents : parent'[b] < b /\ (parent'[b] # Main => parent'[b] \in Born')
    <3> TAKE b \in Agents
    <3>1. CASE b = a
      BY <1>0, <2>0, <2>1, <2>6, <3>1 DEF Types
    <3>2. CASE b # a
      BY <1>0, <2>0, <2>1, <3>2 DEF TreeInv, Types
    <3> QED
      BY <3>1, <3>2
  <2> QED
    BY <2>4, <2>5, <2>7 DEF TreeInv
<1>3. ASSUME UNCHANGED <<parent, created>>, NEW t \in Threads, NEW v, pc' = [pc EXCEPT ![t] = v],
             pc[t] \notin {"none", "making"}, v \notin {"none", "making"}
      PROVE  TreeInv'
  BY <1>0, <1>3, SameTree DEF Types
<1>4. ASSUME UNCHANGED <<parent, created, pc>> PROVE TreeInv'
  BY <1>0, <1>4, SameTree
<1> USE DEF serviceVars, treeVars, convVars, lookVars, Go, Home
<1>5. ASSUME NEW t \in Threads, Keep(t) \/ AddChild(t) \/ PostPrompt(t) PROVE TreeInv'
  <2>1. /\ UNCHANGED <<parent, created>> /\ pc[t] \notin {"none", "making"}
        /\ \E v \in {"out", "busy", "kept", "post"} : pc' = [pc EXCEPT ![t] = v]
    BY <1>5 DEF Keep, AddChild, PostPrompt
  <2> QED
    BY <1>3, <2>1
<1>6. ASSUME NEW a \in Agents,
             \/ TakeCommand(a) \/ CallTool(a) \/ SelfClose(a) \/ QueryAgent(a)
             \/ WaitForAgent(a) \/ WaitEnds(a) \/ EndCommand(a) \/ QueueClosed(a)
      PROVE  TreeInv'
  <2>1. /\ UNCHANGED <<parent, created>> /\ pc[a] \notin {"none", "making"}
        /\ \E v \in {"busy", "tool", "wait", "pop", "ended"} : pc' = [pc EXCEPT ![a] = v]
    BY <1>6
    DEF TakeCommand, CallTool, SelfClose, QueryAgent, WaitForAgent, WaitEnds, EndCommand,
        QueueClosed
  <2> QED
    BY <1>3, <2>1
<1>7. ASSUME \/ \E a \in Agents : StopProcess(a) \/ ReleaseProcess(a) \/ StopAgent(a)
             \/ BeginDestruction \/ AllStopped \/ EndDestruction \/ UNCHANGED llmVars
      PROVE  TreeInv'
  <2>1. UNCHANGED <<parent, created, pc>>
    BY <1>7
    DEF StopProcess, ReleaseProcess, StopAgent, BeginDestruction, AllStopped,
        EndDestruction, llmVars
  <2> QED
    BY <1>4, <2>1
<1> QED
  BY <1>1, <1>2, <1>5, <1>6, <1>7
  DEF Next, CreateStep, AgentStep, ToolStep, ChildFinished, DestructionStep

\* No step but BeginCreate and MakeAgent changes the tree or prepares to.
LEMMA OtherStepsKeepTree ==
    ASSUME Types, [Next]_llmVars
    PROVE  \/ \E t \in Threads : BeginCreate(t) \/ MakeAgent(t)
           \/ /\ UNCHANGED <<parent, created>>
              /\ \A t \in Threads : pc'[t] = "making" => pc[t] = "making"
<1> USE Numbers DEF serviceVars, treeVars, convVars, lookVars, Go, Home
<1> DEFINE Same == /\ UNCHANGED <<parent, created>>
                   /\ \A t \in Threads : pc'[t] = "making" => pc[t] = "making"
<1>1. ASSUME NEW t \in Threads, Keep(t) \/ AddChild(t) \/ PostPrompt(t) PROVE Same
  BY <1>1 DEF Keep, AddChild, PostPrompt, Types
<1>2. ASSUME NEW a \in Agents,
             \/ TakeCommand(a) \/ CallTool(a) \/ SelfClose(a) \/ QueryAgent(a)
             \/ WaitForAgent(a) \/ WaitEnds(a) \/ EndCommand(a) \/ QueueClosed(a)
      PROVE  Same
  <2>1. /\ UNCHANGED <<parent, created>>
        /\ \E v \in {"busy", "tool", "wait", "pop", "ended"} : pc' = [pc EXCEPT ![a] = v]
    BY <1>2
    DEF TakeCommand, CallTool, SelfClose, QueryAgent, WaitForAgent, WaitEnds, EndCommand,
        QueueClosed
  <2> QED
    BY <2>1 DEF Types
<1>3. ASSUME \/ \E a \in Agents : StopProcess(a) \/ ReleaseProcess(a) \/ StopAgent(a)
             \/ BeginDestruction \/ AllStopped \/ EndDestruction \/ UNCHANGED llmVars
      PROVE  Same
  BY <1>3
  DEF StopProcess, ReleaseProcess, StopAgent, BeginDestruction, AllStopped,
      EndDestruction, llmVars
<1> HIDE DEF Same
<1>4. (\E t \in Threads : BeginCreate(t) \/ MakeAgent(t)) \/ Same
  BY <1>1, <1>2, <1>3
  DEF Next, CreateStep, AgentStep, ToolStep, ChildFinished, DestructionStep
<1> QED
  BY <1>4 DEF Same

\* Depths stay as they are while the parents do.
LEMMA SameDepth ==
    ASSUME UNCHANGED parent
    PROVE  \A a : Depth(a)' = Depth(a)
<1>1. Ancestry' = Ancestry
  BY AncestryIs
<1> QED
  BY <1>1 DEF Depth

\* A new agent is one level below its creator, and no other moves.
LEMMA DepthOfNewAgent ==
    ASSUME Types, TreeInv, NEW t \in Threads, MakeAgent(t), NEW a, a = NextAgent
    PROVE  /\ \A c \in Agents : c # a => Depth(c)' = Depth(c)
           /\ t = Main => Depth(a)' = 0
           /\ t # Main => Depth(a)' \in Nat /\ Depth(a)' <= Depth(t) + 1
<1>1. /\ parent \in [Agents -> Threads] /\ Older(parent)
      /\ a \in Agents /\ a \in Threads /\ t < a /\ parent' = [parent EXCEPT ![a] = t]
      /\ \A b \in Agents : parent[b] # a
  BY MakeAgentFacts DEF Types, TreeInv, Older
<1>2. /\ \A c \in Threads : c # a => Ancestry'[c] = Ancestry[c]
      /\ Ancestry'[a] = {a} \union Ancestry[t]
  <2>1. /\ parent' \in [Agents -> Threads] /\ parent'[a] = t
        /\ \A b \in Agents : b # a => parent'[b] = parent[b]
    BY <1>1
  <2>2. /\ \A c \in Threads : c # a => AncestryIn(parent')[c] = AncestryIn(parent)[c]
        /\ AncestryIn(parent')[a] = {a} \union AncestryIn(parent)[t]
    <3>1. PICK p \in [Agents -> Threads] : p = parent
      BY <1>1
    <3>2. PICK p2 \in [Agents -> Threads] : p2 = parent'
      BY <2>1
    <3>3. /\ Older(p) /\ t < a /\ p2[a] = t
          /\ \A b \in Agents : p[b] # a
          /\ \A b \in Agents : b # a => p2[b] = p[b]
      BY <1>1, <2>1, <3>1, <3>2
    <3>4. /\ \A c \in Threads : c # a => AncestryIn(p2)[c] = AncestryIn(p)[c]
          /\ AncestryIn(p2)[a] = {a} \union AncestryIn(p)[t]
      BY <1>1, <3>3, NewLeaf
    <3> QED
      BY <3>1, <3>2, <3>4
  <2> QED
    BY <2>2, AncestryIs
<1>3. \A c \in Agents : c # a => Depth(c)' = Depth(c)
  BY <1>2, Numbers DEF Depth
<1>4. Depth(a)' = Cardinality({a} \union Ancestry[t]) - 1
  <2>1. Depth(a)' = Cardinality(Ancestry'[a]) - 1
    BY DEF Depth
  <2> QED
    BY <1>2, <2>1
<1>5. ASSUME t = Main PROVE Depth(a)' = 0
  <2>1. Ancestry[t] = {}
    BY <1>1, <1>5, AncestryEquation, AncestryIs
  <2>2. {a} \union Ancestry[t] = {a} /\ Cardinality({a}) = 1
    BY <2>1, FS_Singleton
  <2> QED
    BY <1>4, <2>2
<1>6. ASSUME t # Main PROVE Depth(a)' \in Nat /\ Depth(a)' <= Depth(t) + 1
  <2>1. IsFiniteSet(Ancestry[t]) /\ t \in Ancestry[t]
    BY <1>1, <1>6, AncestorsAreAgents, AncestryIs
  <2>2. Cardinality(Ancestry[t]) \in Nat /\ Cardinality(Ancestry[t]) # 0
    BY <2>1, FS_CardinalityType, FS_EmptySet
  <2>3. Cardinality({a} \union Ancestry[t]) \in Cardinality(Ancestry[t])..(Cardinality(Ancestry[t]) + 1)
    <3>1. CASE a \in Ancestry[t]
      <4>1. {a} \union Ancestry[t] = Ancestry[t]
        BY <3>1
      <4>2. Cardinality({a} \union Ancestry[t]) = Cardinality(Ancestry[t])
        BY <4>1
      <4> QED
        BY <2>2, <4>2
    <3>2. CASE a \notin Ancestry[t]
      <4>1. {a} \union Ancestry[t] = Ancestry[t] \union {a}
        OBVIOUS
      <4>2. Cardinality(Ancestry[t] \union {a}) = Cardinality(Ancestry[t]) + 1
        BY <2>1, <3>2, FS_AddElement
      <4>3. Cardinality({a} \union Ancestry[t]) = Cardinality(Ancestry[t]) + 1
        BY <4>1, <4>2
      <4> QED
        BY <2>2, <4>3
    <3> QED
      BY <3>1, <3>2
  <2> QED
    BY <1>4, <2>2, <2>3 DEF Depth
<1> QED
  BY <1>3, <1>5, <1>6

\* agent_start's limit holds.
LEMMA DepthStep == ServiceInv /\ [Next]_llmVars => DepthInv'
<1> SUFFICES ASSUME ServiceInv, [Next]_llmVars PROVE DepthInv'
  OBVIOUS
<1>0. Types /\ TreeInv /\ DepthInv
  BY DEF ServiceInv
<1>1. ASSUME NEW t \in Threads, BeginCreate(t) PROVE DepthInv'
  <2>1. \A a : Depth(a)' = Depth(a)
    BY <1>1, SameDepth DEF BeginCreate, treeVars
  <2>2. /\ t \in Agents /\ pc'[t] = "making" => Depth(t) < MaxDepth
        /\ \A u \in Threads : u # t => pc'[u] = pc[u]
    BY <1>0, <1>1, Numbers DEF BeginCreate, MayCreate, Home, Types
  <2> QED
    BY <1>0, <2>1, <2>2, Numbers DEF DepthInv
<1>2. ASSUME NEW t \in Threads, MakeAgent(t) PROVE DepthInv'
  <2> PICK a : a = NextAgent
    OBVIOUS
  <2>1. /\ \A c \in Agents : c # a => Depth(c)' = Depth(c)
        /\ t = Main => Depth(a)' = 0
        /\ t # Main => Depth(a)' \in Nat /\ Depth(a)' <= Depth(t) + 1
    BY <1>0, <1>2, DepthOfNewAgent
  <2>2. pc[t] = "making" /\ pc' = [pc EXCEPT ![t] = "made", ![a] = "pop"]
    BY <1>0, <1>2, MakeAgentFacts
  <2>3. t # Main => Depth(t) < MaxDepth /\ Depth(t) \in Nat
    BY <1>0, <2>2, Numbers DEF DepthInv
  <2>4. Depth(a)' \in 0..MaxDepth
    BY <2>1, <2>3, Numbers
  <2>5. \A c \in Agents : pc'[c] = "making" => c # a /\ pc[c] = "making"
    BY <1>0, <2>2, Numbers DEF Types
  <2>6. \A c \in Agents : Depth(c)' \in 0..MaxDepth
    BY <1>0, <2>1, <2>4 DEF DepthInv
  <2>7. \A c \in Agents : pc'[c] = "making" => Depth(c)' < MaxDepth
    BY <1>0, <2>1, <2>5 DEF DepthInv
  <2>8. DepthInv' <=> /\ \A c \in Agents : Depth(c)' \in 0..MaxDepth
                      /\ \A c \in Agents : pc'[c] = "making" => Depth(c)' < MaxDepth
    BY DEF DepthInv
  <2> QED
    BY <2>6, <2>7, <2>8
<1>3. ASSUME UNCHANGED <<parent, created>>,
             \A t \in Threads : pc'[t] = "making" => pc[t] = "making"
      PROVE  DepthInv'
  BY <1>0, <1>3, SameDepth, Numbers DEF DepthInv
<1> QED
  BY <1>0, <1>1, <1>2, <1>3, OtherStepsKeepTree

\* The service's phases.
LEMMA DestructionStepKept == ServiceInv /\ [Next]_llmVars => DestructionInv'
<1> SUFFICES ASSUME ServiceInv, [Next]_llmVars PROVE DestructionInv'
  OBVIOUS
<1> USE Numbers DEF DestructionInv, serviceVars, treeVars, convVars, lookVars, Go, Home
<1>0. Types /\ TreeInv /\ DestructionInv
  BY DEF ServiceInv
<1>1. ASSUME NEW t \in Threads, BeginCreate(t) PROVE DestructionInv'
  BY <1>0, <1>1 DEF BeginCreate, Types
<1>2. ASSUME NEW t \in Threads, MakeAgent(t) PROVE DestructionInv'
  BY <1>0, <1>2, MakeAgentFacts DEF Types
<1>3. ASSUME NEW t \in Threads, Keep(t) PROVE DestructionInv'
  BY <1>0, <1>3 DEF Keep, Types
<1>4. ASSUME NEW t \in Threads, AddChild(t) \/ PostPrompt(t) PROVE DestructionInv'
  BY <1>0, <1>4 DEF AddChild, PostPrompt, Types
<1>5. ASSUME NEW a \in Agents,
             \/ TakeCommand(a) \/ CallTool(a) \/ SelfClose(a) \/ QueryAgent(a)
             \/ WaitForAgent(a) \/ WaitEnds(a) \/ EndCommand(a) \/ QueueClosed(a)
      PROVE  DestructionInv'
  <2>1. /\ UNCHANGED serviceVars
        /\ \E v \in {"busy", "tool", "wait", "pop", "ended"} : pc' = [pc EXCEPT ![a] = v]
    BY <1>5
    DEF TakeCommand, CallTool, SelfClose, QueryAgent, WaitForAgent, WaitEnds, EndCommand,
        QueueClosed
  <2> QED
    BY <1>0, <2>1 DEF Types
<1>6. ASSUME NEW a \in Agents, StopProcess(a) \/ ReleaseProcess(a) PROVE DestructionInv'
  BY <1>0, <1>6 DEF StopProcess, ReleaseProcess
<1>7. ASSUME NEW a \in Agents, StopAgent(a) PROVE DestructionInv'
  BY <1>0, <1>7 DEF StopAgent
<1>8. ASSUME BeginDestruction \/ AllStopped \/ EndDestruction \/ UNCHANGED llmVars
      PROVE  DestructionInv'
  BY <1>0, <1>8 DEF BeginDestruction, AllStopped, EndDestruction, llmVars
<1> QED
  BY <1>1, <1>2, <1>3, <1>4, <1>5, <1>6, <1>7, <1>8
  DEF Next, CreateStep, AgentStep, ToolStep, ChildFinished, DestructionStep

\* A thread that is not creating an agent, and does not finish a creation, disturbs none.
LEMMA CreatesNothing ==
    ASSUME Types, CreationInv, NEW a \in Threads,
           pc[a] \in {"out", "busy", "tool", "pop", "wait"},
           NEW q \in {"out", "busy", "tool", "pop", "making", "ended"},
           pc' = [pc EXCEPT ![a] = q],
           UNCHANGED <<prompts, children, named>>,
           UNCHANGED subject \/ subject' = [subject EXCEPT ![a] = Main]
    PROVE  CreationInv'
<1> USE Numbers
<1>1. \A u \in Threads : subject'[u] = Main \/ subject'[u] = subject[u]
  BY DEF Types
<1>2. \A u \in Threads : u # a => pc'[u] = pc[u] /\ subject'[u] = subject[u]
  BY DEF Types
<1>3. pc'[a] = q
  BY DEF Types
<1>4. \A u \in Agents : u \in Threads
  OBVIOUS
<1>5. Born' = Born
  <2>1. \A b \in Agents : pc'[b] = "none" <=> pc[b] = "none"
    BY <1>2, <1>3, <1>4
  <2> QED
    BY <2>1 DEF Born
<1>6. \A u \in Threads : Creating(u)' => u # a /\ Creating(u)
  BY <1>2, <1>3 DEF Creating
<1>7. \A u \in Agents : pc'[u] = "post" => u # a /\ pc[u] = "post"
  BY <1>2, <1>3, <1>4
<1>8. \A t \in Threads : subject'[t] # Main => subject'[t] \in Born'
  BY <1>1, <1>5 DEF CreationInv
<1>9. \A t \in Threads : Creating(t)' => subject'[t] # Main /\ prompts'[subject'[t]] = 0
  BY <1>2, <1>6 DEF CreationInv
<1>10. \A t, u \in Threads : Creating(t)' /\ Creating(u)' /\ subject'[t] = subject'[u] => t = u
  BY <1>2, <1>6 DEF CreationInv
<1>11. \A t \in Agents : pc'[t] = "post" => subject'[t] \in children'[t]
  BY <1>2, <1>4, <1>7 DEF CreationInv
<1> QED
  BY <1>5, <1>8, <1>9, <1>10, <1>11 DEF CreationInv

\* The creations under way.
LEMMA CreationStep == ServiceInv /\ [Next]_llmVars => CreationInv'
<1> SUFFICES ASSUME ServiceInv, [Next]_llmVars PROVE CreationInv'
  OBVIOUS
<1> USE Numbers DEF Creating, Born, serviceVars, treeVars, convVars, lookVars, Go, Home
<1>0. Types /\ TreeInv /\ CreationInv
  BY DEF ServiceInv
<1>1. ASSUME NEW t \in Threads, BeginCreate(t) PROVE CreationInv'
  <2>1. /\ \E q \in {"making", "out", "busy"} : pc' = [pc EXCEPT ![t] = q]
        /\ pc[t] \in {"out", "tool"} /\ UNCHANGED <<prompts, children, named, subject>>
    BY <1>1 DEF BeginCreate
  <2> QED
    BY <1>0, <2>1, CreatesNothing
<1>2. ASSUME NEW t \in Threads, MakeAgent(t) PROVE CreationInv'
  <2> PICK a : a = NextAgent
    OBVIOUS
  <2>1. /\ pc' = [pc EXCEPT ![t] = "made", ![a] = "pop"]
        /\ subject' = [subject EXCEPT ![t] = a]
        /\ UNCHANGED <<children, prompts, named>>
        /\ a \in Agents /\ a \in Threads /\ pc[a] = "none" /\ a # t /\ pc[t] = "making"
    BY <1>0, <1>2, MakeAgentFacts
  <2>2. \A u \in Threads : u # t => pc'[u] = IF u = a THEN "pop" ELSE pc[u]
    BY <1>0, <2>1 DEF Types
  <2>3. pc'[t] = "made" /\ subject'[t] = a /\ \A u \in Threads : u # t => subject'[u] = subject[u]
    BY <1>0, <2>1 DEF Types
  <2>4. prompts[a] = 0 /\ \A u \in Threads : subject[u] # a
    BY <1>0, <2>1 DEF CreationInv
  <2>5. \A b \in Agents : b \in Born => b \in Born'
    BY <1>0, <2>1, <2>2, <2>3 DEF Types
  <2>6. a \in Born' /\ \A u \in Threads : Creating(u)' => u = t \/ Creating(u)
    BY <1>0, <2>1, <2>2 DEF Types
  <2>7. \A u \in Threads : subject'[u] # Main => subject'[u] \in Born'
    <3> TAKE u \in Threads
    <3>1. CASE u = t
      BY <2>3, <2>6, <3>1
    <3>2. CASE u # t
      BY <1>0, <2>3, <2>5, <3>2 DEF CreationInv
    <3> QED
      BY <3>1, <3>2
  <2>8. \A u \in Threads : Creating(u)' => subject'[u] # Main /\ prompts[subject'[u]] = 0
    <3> TAKE u \in Threads
    <3>1. CASE u = t
      BY <2>1, <2>3, <2>4, <3>1
    <3>2. CASE u # t
      BY <1>0, <2>3, <2>6, <3>2 DEF CreationInv
    <3> QED
      BY <3>1, <3>2
  <2>9. \A u, v \in Threads :
           Creating(u)' /\ Creating(v)' /\ subject'[u] = subject'[v] => u = v
    <3> TAKE u, v \in Threads
    <3>1. CASE u # t /\ v # t
      BY <1>0, <2>3, <2>6, <3>1 DEF CreationInv
    <3>2. CASE u = t /\ v # t
      BY <2>3, <2>4, <3>2
    <3>3. CASE u # t /\ v = t
      BY <2>3, <2>4, <3>3
    <3> QED
      BY <3>1, <3>2, <3>3
  <2>10. \A b \in Agents : b \notin Born' => prompts[b] = 0
    BY <1>0, <2>5 DEF CreationInv
  <2>11. \A b \in Agents : children[b] \subseteq Born' /\ named[b] \subseteq children[b]
    BY <1>0, <2>5 DEF CreationInv
  <2>12. \A u \in Agents : pc'[u] = "post" => subject'[u] \in children[u]
    <3> TAKE u \in Agents
    <3>1. CASE u = t
      BY <2>3, <3>1
    <3>2. CASE u # t
      <4>1. pc'[u] = "post" => pc[u] = "post"
        BY <2>2, <3>2
      <4> QED
        BY <1>0, <2>3, <3>2, <4>1 DEF CreationInv
    <3> QED
      BY <3>1, <3>2
  <2> HIDE DEF Born, Creating
  <2> QED
    BY <2>1, <2>7, <2>8, <2>9, <2>10, <2>11, <2>12 DEF CreationInv
<1>3. ASSUME NEW t \in Threads, Keep(t) PROVE CreationInv'
  <2>1. /\ pc[t] = "made" /\ UNCHANGED <<prompts, children, named>>
        /\ \/ pc' = [pc EXCEPT ![t] = "kept"] /\ UNCHANGED subject
           \/ /\ pc' = [pc EXCEPT ![t] = Home(t)]
              /\ subject' = [subject EXCEPT ![t] = Main]
    BY <1>3 DEF Keep
  <2>2. CASE pc' = [pc EXCEPT ![t] = "kept"] /\ UNCHANGED subject
    BY <1>0, <2>1, <2>2 DEF Types, CreationInv
  <2>3. CASE /\ pc' = [pc EXCEPT ![t] = Home(t)]
             /\ subject' = [subject EXCEPT ![t] = Main]
    BY <1>0, <2>1, <2>3 DEF Types, CreationInv
  <2> QED
    BY <2>1, <2>2, <2>3
<1>4. ASSUME NEW t \in Threads, AddChild(t) PROVE CreationInv'
  <2>1. /\ pc[t] = "kept" /\ pc' = [pc EXCEPT ![t] = "post"]
        /\ UNCHANGED <<subject, prompts, named>>
    BY <1>4 DEF AddChild
  <2>2. subject[t] \in Born
    BY <1>0, <2>1 DEF CreationInv, Creating
  <2>3. \A a \in Agents : children'[a] = IF a = t THEN children[a] \union {subject[t]}
                                                 ELSE children[a]
    BY <1>0, <1>4 DEF AddChild, Types
  <2>4. \A u \in Threads : pc'[u] = IF u = t THEN "post" ELSE pc[u]
    BY <1>0, <2>1 DEF Types
  <2>5. Born' = Born /\ \A u \in Threads : Creating(u)' = Creating(u)
    BY <2>1, <2>4 DEF Born, Creating
  <2>6. \A a \in Agents : children'[a] \subseteq Born /\ named[a] \subseteq children'[a]
    <3>1. \A a \in Agents : children[a] \subseteq Born /\ named[a] \subseteq children[a]
      BY <1>0 DEF CreationInv
    <3> TAKE a \in Agents
    <3>2. children[a] \subseteq Born /\ named[a] \subseteq children[a]
      BY <3>1
    <3>3. CASE a = t
      <4>1. children'[a] = children[a] \union {subject[t]}
        BY <2>3, <3>3
      <4> QED
        BY <2>2, <3>2, <4>1
    <3>4. CASE a # t
      <4>1. children'[a] = children[a]
        BY <2>3, <3>4
      <4> QED
        BY <3>2, <4>1
    <3> QED
      BY <3>3, <3>4
  <2>7. \A u \in Agents : pc'[u] = "post" => subject[u] \in children'[u]
    <3>1. \A u \in Agents : pc[u] = "post" => subject[u] \in children[u]
      BY <1>0 DEF CreationInv
    <3>2. \A u \in Agents : u \in Threads
      OBVIOUS
    <3> QED
      BY ONLY <2>3, <2>4, <3>1, <3>2
  <2> QED
    BY <1>0, <2>1, <2>5, <2>6, <2>7 DEF CreationInv
<1>5. ASSUME NEW t \in Threads, PostPrompt(t) PROVE CreationInv'
  BY <1>0, <1>5 DEF PostPrompt, Types, CreationInv
<1>6. ASSUME NEW a \in Agents, TakeCommand(a) PROVE CreationInv'
  BY <1>0, <1>6 DEF TakeCommand, Types, CreationInv
<1>7. ASSUME NEW a \in Agents, CallTool(a) \/ SelfClose(a) \/ QueryAgent(a) PROVE CreationInv'
  <2>1. /\ \E q \in {"tool", "busy"} : pc' = [pc EXCEPT ![a] = q]
        /\ pc[a] \in {"busy", "tool"} /\ UNCHANGED <<prompts, children, named, subject>>
    BY <1>7 DEF CallTool, SelfClose, QueryAgent
  <2> QED
    BY <1>0, <2>1, CreatesNothing
<1>8. ASSUME NEW a \in Agents, WaitForAgent(a) PROVE CreationInv'
  <2>1. PICK c \in named[a] :
           /\ pc[a] = "tool" /\ UNCHANGED <<prompts, children, named>>
           /\ \/ pc' = [pc EXCEPT ![a] = "wait"] /\ subject' = [subject EXCEPT ![a] = c]
              \/ pc' = [pc EXCEPT ![a] = "busy"] /\ UNCHANGED subject
    BY <1>8 DEF WaitForAgent
  <2>2. c \in Born /\ c \in Threads
    BY <1>0 DEF CreationInv
  <2>3. CASE pc' = [pc EXCEPT ![a] = "wait"] /\ subject' = [subject EXCEPT ![a] = c]
    BY <1>0, <2>1, <2>2, <2>3 DEF Types, CreationInv
  <2>4. CASE pc' = [pc EXCEPT ![a] = "busy"] /\ UNCHANGED subject
    BY <1>0, <2>1, <2>4 DEF Types, CreationInv
  <2> QED
    BY <2>1, <2>3, <2>4
<1>9. ASSUME NEW a \in Agents, WaitEnds(a) \/ EndCommand(a) \/ QueueClosed(a)
      PROVE  CreationInv'
  <2>1. /\ \E q \in {"busy", "pop", "ended"} : pc' = [pc EXCEPT ![a] = q]
        /\ pc[a] \in {"wait", "busy", "pop"} /\ UNCHANGED <<prompts, children, named>>
        /\ UNCHANGED subject \/ subject' = [subject EXCEPT ![a] = Main]
    BY <1>9 DEF WaitEnds, EndCommand, QueueClosed
  <2> QED
    BY <1>0, <2>1, CreatesNothing
<1>10. ASSUME \/ \E a \in Agents : StopProcess(a) \/ ReleaseProcess(a) \/ StopAgent(a)
              \/ BeginDestruction \/ AllStopped \/ EndDestruction \/ UNCHANGED llmVars
       PROVE  CreationInv'
  BY <1>0, <1>10
  DEF StopProcess, ReleaseProcess, StopAgent, BeginDestruction, AllStopped,
      EndDestruction, llmVars, CreationInv
<1> QED
  BY <1>1, <1>2, <1>3, <1>4, <1>5, <1>6, <1>7, <1>8, <1>9, <1>10
  DEF Next, CreateStep, AgentStep, ToolStep, ChildFinished, DestructionStep

\* Who is not kept is fresh, or done.
Kept(a) == pc[a] \in {"none", "ended"} \/ a \in agents \union taken \/ Fresh(a)

\* An agent stays kept when the service keeps it, it makes no step that gives it work,
\* and nobody else learns of it.
LEMMA StaysKept ==
    ASSUME Types, KeptInv, NEW a \in Agents,
           pc[a] = "ended" => pc'[a] = "ended",
           pc[a] = "none" => pc'[a] = "none",
           pc'[a] # "ended" /\ a \in agents \union taken => a \in agents' \union taken',
           Fresh(a) => pc'[a] = "ended" \/ Fresh(a)'
    PROVE  Kept(a)'
BY DEF KeptInv, Kept

\* The service keeps whom it must.
LEMMA KeptStep == ServiceInv /\ [Next]_llmVars => \A a \in Agents : Kept(a)'
<1> SUFFICES ASSUME ServiceInv, [Next]_llmVars, NEW a \in Agents PROVE Kept(a)'
  OBVIOUS
<1> USE Numbers DEF serviceVars, treeVars, convVars, lookVars, Go, Home
<1>0. Types /\ TreeInv /\ CreationInv /\ DestructionInv /\ KeptInv
  BY DEF ServiceInv
<1>00. a \in Threads
  OBVIOUS
<1>1. ASSUME NEW t \in Threads, BeginCreate(t) PROVE Kept(a)'
  BY <1>0, <1>1, StaysKept DEF BeginCreate, Types, Fresh
<1>2. ASSUME NEW t \in Threads, MakeAgent(t) PROVE Kept(a)'
  <2> PICK n : n = NextAgent
    OBVIOUS
  <2>1. /\ pc' = [pc EXCEPT ![t] = "made", ![n] = "pop"]
        /\ subject' = [subject EXCEPT ![t] = n]
        /\ UNCHANGED <<agents, taken, children, prompts, named>>
        /\ n \in Agents /\ n \in Threads /\ n \notin Born /\ pc[n] = "none" /\ n # t
        /\ pc[t] = "making"
    BY <1>0, <1>2, MakeAgentFacts
  <2>2. /\ \A u \in Threads : u # t => /\ pc'[u] = IF u = n THEN "pop" ELSE pc[u]
                                       /\ subject'[u] = subject[u]
        /\ pc'[t] = "made"
    BY <1>0, <2>1 DEF Types
  <2>3. CASE a = n
    <3>1. /\ prompts[n] = 0 /\ \A u \in Threads : subject[u] # n
          /\ \A b \in Agents : n \notin named[b]
      BY <1>0, <2>1 DEF CreationInv
    <3>2. Fresh(a)'
      BY <2>1, <2>2, <2>3, <3>1 DEF Fresh
    <3> QED
      BY <3>2 DEF Kept
  <2>4. CASE a # n
    <3>1. pc'[a] = pc[a] \/ (a = t /\ pc[a] = "making" /\ pc'[a] = "made")
      BY <1>00, <2>1, <2>2, <2>4
    <3>2. ASSUME Fresh(a) PROVE Fresh(a)'
      <4>1. pc'[a] = "pop" /\ prompts'[a] = 0
        BY <1>00, <2>1, <2>2, <2>4, <3>2 DEF Fresh
      <4>2. ASSUME NEW u \in Threads, pc'[u] \in {"kept", "post"} PROVE subject'[u] # a
        <5>1. u # t /\ u # n
          BY <2>2, <4>2
        <5>2. pc'[u] = pc[u] /\ subject'[u] = subject[u]
          BY <2>2, <5>1
        <5> QED
          BY <3>2, <4>2, <5>2 DEF Fresh
      <4>3. \A b \in Agents : a \notin named'[b]
        BY <2>1, <3>2 DEF Fresh
      <4> QED
        BY <4>1, <4>2, <4>3 DEF Fresh
    <3> QED
      BY <1>0, <1>00, <2>1, <3>1, <3>2, StaysKept
  <2> QED
    BY <2>3, <2>4
<1>3. ASSUME NEW t \in Threads, Keep(t) PROVE Kept(a)'
  <2>1. CASE service = "up"
    <3>1. /\ agents' = (agents \ Finishing) \union {subject[t]}
          /\ pc' = [pc EXCEPT ![t] = "kept"] /\ pc[t] = "made"
          /\ UNCHANGED <<subject, taken, prompts, named>>
      BY <1>3, <2>1 DEF Keep
    <3>2. CASE a = subject[t]
      BY <3>1, <3>2 DEF Kept
    <3>3. CASE a # subject[t]
      BY <1>0, <1>00, <3>1, <3>3, StaysKept DEF Fresh, Finishing, Finished, Types
    <3> QED
      BY <3>2, <3>3
  <2>2. CASE service # "up"
    <3>1. /\ pc' = [pc EXCEPT ![t] = Home(t)] /\ pc[t] = "made"
          /\ subject' = [subject EXCEPT ![t] = Main]
          /\ UNCHANGED <<agents, taken, prompts, named>>
      BY <1>3, <2>2 DEF Keep
    <3> QED
      BY <1>0, <1>00, <3>1, StaysKept DEF Fresh, Types
  <2> QED
    BY <2>1, <2>2
<1>4. ASSUME NEW t \in Threads, AddChild(t) PROVE Kept(a)'
  BY <1>0, <1>00, <1>4, StaysKept DEF AddChild, Fresh, Types
<1>5. ASSUME NEW t \in Threads, PostPrompt(t) PROVE Kept(a)'
  <2>1. /\ pc' = [pc EXCEPT ![t] = Home(t)] /\ pc[t] = "post"
        /\ prompts' = [prompts EXCEPT ![subject[t]] = @ + 1]
        /\ subject' = [subject EXCEPT ![t] = Main]
        /\ named' = IF t = Main THEN named
                    ELSE [named EXCEPT ![t] = @ \union {subject[t]}]
        /\ UNCHANGED <<agents, taken>>
    BY <1>5 DEF PostPrompt
  <2>2. ASSUME Fresh(a) PROVE Fresh(a)'
    <3>1. subject[t] # a /\ pc[a] = "pop" /\ prompts[a] = 0 /\ a # t
      BY <2>1, <2>2 DEF Fresh
    <3>2. pc'[a] = "pop" /\ prompts'[a] = 0
      BY <1>0, <1>00, <2>1, <3>1 DEF Types
    <3>3. \A b \in Agents : a \notin named'[b]
      BY <1>0, <2>1, <2>2, <3>1 DEF Types, Fresh
    <3>4. \A u \in Threads : pc'[u] \in {"kept", "post"} => subject'[u] # a
      BY <1>0, <2>1, <2>2, <3>1 DEF Types, Fresh
    <3> QED
      BY <3>2, <3>3, <3>4 DEF Fresh
  <2>3. /\ pc[a] = "ended" => pc'[a] = "ended"
        /\ pc[a] = "none" => pc'[a] = "none"
    BY <1>0, <1>00, <2>1 DEF Types
  <2> QED
    BY <1>0, <2>1, <2>2, <2>3, StaysKept
<1>6. ASSUME NEW b \in Agents, TakeCommand(b) PROVE Kept(a)'
  <2>1. /\ pc' = [pc EXCEPT ![b] = "busy"] /\ pc[b] = "pop" /\ prompts[b] > 0
        /\ prompts' = [prompts EXCEPT ![b] = @ - 1]
        /\ UNCHANGED <<agents, taken, subject, named>>
    BY <1>6 DEF TakeCommand
  <2>2. ASSUME Fresh(a) PROVE a # b
    BY <2>1, <2>2 DEF Fresh
  <2> QED
    BY <1>0, <1>00, <2>1, <2>2, StaysKept DEF Fresh, Types
<1>7. ASSUME NEW b \in Agents,
             \/ CallTool(b) \/ SelfClose(b) \/ QueryAgent(b) \/ WaitForAgent(b)
             \/ WaitEnds(b) \/ EndCommand(b) \/ QueueClosed(b)
      PROVE  Kept(a)'
  <2>1. /\ \E v \in {"busy", "tool", "wait", "pop", "ended"} : pc' = [pc EXCEPT ![b] = v]
        /\ pc[b] \in {"busy", "tool", "wait"} \/ (pc'[b] = "ended" /\ pc[b] = "pop")
        /\ UNCHANGED <<agents, taken, prompts, named>>
        /\ \A u \in Threads : pc[u] \in {"kept", "post"} => subject'[u] = subject[u]
    BY <1>0, <1>7
    DEF CallTool, SelfClose, QueryAgent, WaitForAgent, WaitEnds, EndCommand, QueueClosed,
        Types
  <2>2. /\ pc[a] = "ended" => pc'[a] = "ended"
        /\ pc[a] = "none" => pc'[a] = "none"
        /\ pc[a] = "pop" => pc'[a] = "pop" \/ pc'[a] = "ended"
        /\ \A u \in Threads : pc'[u] \in {"kept", "post"} => pc[u] = pc'[u]
    BY <1>0, <1>00, <2>1 DEF Types
  <2> QED
    BY <1>0, <2>1, <2>2, StaysKept DEF Fresh
<1>8. ASSUME UNCHANGED <<pc, subject, prompts, named>>,
             agents \union taken \subseteq agents' \union taken'
      PROVE  Kept(a)'
  BY <1>0, <1>8, StaysKept DEF Fresh
<1>9. ASSUME NEW b \in Agents, StopProcess(b) \/ ReleaseProcess(b) \/ StopAgent(b)
      PROVE  Kept(a)'
  BY <1>8, <1>9 DEF StopProcess, ReleaseProcess, StopAgent
<1>10. ASSUME BeginDestruction PROVE Kept(a)'
  BY <1>0, <1>8, <1>10 DEF BeginDestruction, DestructionInv
<1>11. ASSUME AllStopped \/ UNCHANGED llmVars PROVE Kept(a)'
  BY <1>8, <1>11 DEF AllStopped, llmVars
<1>12. ASSUME EndDestruction PROVE Kept(a)'
  <2>1. /\ UNCHANGED <<pc, subject, prompts, named, agents>>
        /\ a \in taken => pc[a] = "ended"
    BY <1>12 DEF EndDestruction, Finished
  <2> QED
    BY <1>0, <2>1, StaysKept DEF Fresh
<1> QED
  BY <1>1, <1>2, <1>3, <1>4, <1>5, <1>6, <1>7, <1>9, <1>10, <1>11, <1>12
  DEF Next, CreateStep, AgentStep, ToolStep, ChildFinished, DestructionStep

\* A child whose name was returned and that is not found has finished: until it has,
\* the service holds it.
LEMMA NamedIsFound ==
    ASSUME ServiceInv, NEW a \in Agents, NEW c \in named[a], ~Finds(a, c)
    PROVE  c \in Agents /\ Finished(c)
<1>0. Types /\ TreeInv /\ CreationInv /\ KeptInv
  BY DEF ServiceInv
<1>1. c \in children[a] /\ c \in Born /\ c \in Agents
  BY <1>0 DEF CreationInv, Born
<1>2. ~Fresh(c) /\ pc[c] # "none"
  BY <1>1 DEF Fresh, Born
<1>3. SUFFICES ASSUME ~Finished(c) PROVE FALSE
  BY <1>1
<1>4. c \in agents \union taken
  BY <1>0, <1>1, <1>2, <1>3 DEF KeptInv, Finished
<1>5. Held(c)
  BY <1>4 DEF Held
<1>6. c \in Ancestry[c]
  <2>1. parent \in [Agents -> Threads] /\ Older(parent)
    BY <1>0 DEF Types, TreeInv, Older
  <2> QED
    BY <1>1, <2>1, AncestorsAreAgents, AncestryIs, Numbers
<1> QED
  BY <1>1, <1>5, <1>6 DEF Finds, Referenced

\* Every running child is found by name.
LEMMA FoundStep == ServiceInv /\ [Next]_llmVars => RunningChildIsFound'
<1> SUFFICES ASSUME ServiceInv, [Next]_llmVars PROVE RunningChildIsFound'
  OBVIOUS
<1>0. RunningChildIsFound
  BY DEF ServiceInv, KeptInv
<1>1. CASE missed' = missed
  BY <1>0, <1>1 DEF RunningChildIsFound
<1>2. ASSUME NEW a \in Agents, QueryAgent(a) \/ WaitForAgent(a) PROVE RunningChildIsFound'
  <2>1. \/ missed' = missed
        \/ \E c \in named[a] : /\ ~Finds(a, c)
                               /\ missed' = missed \union {<<a, c, Finished(c)>>}
    BY <1>2 DEF QueryAgent, WaitForAgent
  <2>2. ASSUME NEW c \in named[a], ~Finds(a, c),
               missed' = missed \union {<<a, c, Finished(c)>>}
        PROVE  RunningChildIsFound'
    <3>1. Finished(c) = TRUE
      <4>1. Finished(c)
        BY <2>2, NamedIsFound
      <4> QED
        BY <4>1 DEF Finished
    <3>2. \A m \in missed' : m \in missed \/ m = <<a, c, TRUE>>
      BY <2>2, <3>1
    <3> SUFFICES ASSUME NEW m \in missed' PROVE m[3]
      BY DEF RunningChildIsFound
    <3>3. CASE m \in missed
      BY <1>0, <3>3 DEF RunningChildIsFound
    <3>4. CASE m = <<a, c, TRUE>>
      BY <3>4
    <3> QED
      BY <3>2, <3>3, <3>4
  <2> QED
    BY <1>1, <2>1, <2>2
<1>3. \/ missed' = missed
      \/ \E a \in Agents : QueryAgent(a) \/ WaitForAgent(a)
  BY DEF Next, CreateStep, AgentStep, ToolStep, ChildFinished, DestructionStep,
         BeginCreate, MakeAgent, Keep, AddChild, PostPrompt, TakeCommand, CallTool,
         SelfClose, WaitEnds, EndCommand, QueueClosed, StopProcess, ReleaseProcess,
         BeginDestruction, StopAgent, AllStopped, EndDestruction, lookVars, llmVars
<1> QED
  BY <1>1, <1>2, <1>3
-----------------------------------------------------------------------------

\* ServiceInv is inductive.
LEMMA ServiceInvariance == Spec => []ServiceInv
<1>1. ServiceInv /\ [Next]_llmVars => ServiceInv'
  <2> SUFFICES ASSUME ServiceInv, [Next]_llmVars PROVE ServiceInv'
    OBVIOUS
  <2>1. KeptInv'
    BY KeptStep, FoundStep DEF KeptInv, Kept
  <2> QED
    BY <2>1, TypesStep, TreeStep, DepthStep, CreationStep, DestructionStepKept
    DEF ServiceInv
<1> QED
  BY <1>1, InitService, PTL DEF Spec

\* LLMService.cpp:44-91: for every number of agents and every depth of subagents, the
\* service lets go of no agent that may still use it or be asked for: once it is gone
\* none is at work, and a child that still runs is found by its name.
THEOREM ServiceKeepsAgents == Spec => []ServiceKeepsItsAgents
<1>1. ServiceInv => ServiceKeepsItsAgents
  <2> SUFFICES ASSUME ServiceInv PROVE ServiceKeepsItsAgents
    OBVIOUS
  <2>1. TypeOK
    BY DEF ServiceInv, Types, DepthInv, TypeOK
  <2>2. ServiceOutlivesItsUse
    BY DEF ServiceInv, DestructionInv, KeptInv, Fresh, ServiceOutlivesItsUse
  <2>3. RunningChildIsFound
    BY DEF ServiceInv, KeptInv
  <2> QED
    BY <2>1, <2>2, <2>3 DEF ServiceKeepsItsAgents
<1> QED
  BY <1>1, ServiceInvariance, PTL
-----------------------------------------------------------------------------
(* Why the destruction is never stuck.                                     *)

\* What the service holds are agents, and those its destructor is done asking have
\* been asked.
TakenInv ==
    /\ \A a \in agents \union taken : pc[a] # "none"
    /\ \A a \in taken \ toStop : stopRequested[a]

\* An agent's children, those it is about to have among them, are its own; it waits
\* for one of those whose names it was given.
ChildInv ==
    /\ \A a \in Agents : \A c \in children[a] : parent[c] = a
    /\ \A a \in Agents : Creating(a) => parent[subject[a]] = a
    /\ \A a \in Agents : pc[a] = "wait" => subject[a] \in named[a]

LEMMA InitWaits == Init => TakenInv /\ ChildInv
BY Numbers DEF Init, TakenInv, ChildInv, Creating

\* Nobody is unborn, or unasked, and the service takes in whom it was given.
LEMMA StaysTaken ==
    ASSUME Types, TakenInv,
           \A a \in Agents : pc'[a] = "none" => pc[a] = "none",
           \A a \in Agents : stopRequested[a] => stopRequested'[a],
           \A a \in agents' \union taken' : a \in agents \union taken \/ pc'[a] # "none",
           \A a \in taken' \ toStop' : a \in taken \ toStop \/ stopRequested'[a]
    PROVE  TakenInv'
<1>1. \A a \in agents \union taken : a \in Agents /\ pc'[a] # "none"
  BY DEF Types, TakenInv
<1>2. \A a \in taken \ toStop : stopRequested'[a]
  BY DEF Types, TakenInv
<1> QED
  BY <1>1, <1>2 DEF TakenInv

LEMMA TakenStep == ServiceInv /\ TakenInv /\ [Next]_llmVars => TakenInv'
<1> SUFFICES ASSUME ServiceInv, TakenInv, [Next]_llmVars PROVE TakenInv'
  OBVIOUS
<1> USE Numbers DEF serviceVars, treeVars, convVars, lookVars, Go, Home
<1>0. Types /\ TreeInv /\ CreationInv /\ DestructionInv
  BY DEF ServiceInv
<1>1. ASSUME NEW t \in Threads, BeginCreate(t) \/ AddChild(t) \/ PostPrompt(t)
      PROVE  TakenInv'
  <2>1. /\ UNCHANGED <<agents, taken, toStop, stopRequested>>
        /\ \E v \in {"making", "out", "busy", "post"} : pc' = [pc EXCEPT ![t] = v]
    BY <1>1 DEF BeginCreate, AddChild, PostPrompt
  <2>2. \A a \in Agents : pc'[a] = "none" => pc[a] = "none"
    BY <1>0, <2>1 DEF Types
  <2> QED
    BY <1>0, <2>1, <2>2, StaysTaken
<1>2. ASSUME NEW t \in Threads, MakeAgent(t) PROVE TakenInv'
  <2> PICK n : n = NextAgent
    OBVIOUS
  <2>1. /\ pc' = [pc EXCEPT ![t] = "made", ![n] = "pop"]
        /\ UNCHANGED <<agents, taken, toStop, stopRequested>>
    BY <1>0, <1>2, MakeAgentFacts
  <2>2. \A a \in Agents : pc'[a] = "none" => pc[a] = "none"
    BY <1>0, <2>1 DEF Types
  <2> QED
    BY <1>0, <2>1, <2>2, StaysTaken
<1>3. ASSUME NEW t \in Threads, Keep(t) PROVE TakenInv'
  <2>1. /\ UNCHANGED <<taken, toStop>> /\ pc[t] = "made"
        /\ \E v \in {"kept", "out", "busy"} : pc' = [pc EXCEPT ![t] = v]
        /\ agents' \subseteq agents \union {subject[t]}
        /\ \/ stopRequested' = stopRequested
           \/ stopRequested' = [stopRequested EXCEPT ![subject[t]] = TRUE]
    BY <1>3 DEF Keep, Finishing
  <2>2. \A a \in Agents : pc'[a] = "none" => pc[a] = "none"
    BY <1>0, <2>1 DEF Types
  <2>3. subject[t] \in Agents /\ pc[subject[t]] # "none"
    BY <1>0, <2>1 DEF CreationInv, Creating, Born
  <2>4. \A a \in Agents : stopRequested[a] => stopRequested'[a]
    BY <1>0, <2>1 DEF Types
  <2>5. \A a \in agents' \union taken' : a \in agents \union taken \/ pc'[a] # "none"
    BY <2>1, <2>2, <2>3
  <2> QED
    BY <1>0, <2>1, <2>2, <2>4, <2>5, StaysTaken
<1>4. ASSUME NEW b \in Agents,
             \/ TakeCommand(b) \/ CallTool(b) \/ SelfClose(b) \/ QueryAgent(b)
             \/ WaitForAgent(b) \/ WaitEnds(b) \/ EndCommand(b) \/ QueueClosed(b)
      PROVE  TakenInv'
  <2>1. /\ UNCHANGED <<agents, taken, toStop>>
        /\ \E v \in {"busy", "tool", "wait", "pop", "ended"} : pc' = [pc EXCEPT ![b] = v]
        /\ \/ stopRequested' = stopRequested
           \/ stopRequested' = [stopRequested EXCEPT ![b] = TRUE]
    BY <1>4
    DEF TakeCommand, CallTool, SelfClose, QueryAgent, WaitForAgent, WaitEnds, EndCommand,
        QueueClosed
  <2>2. \A a \in Agents : pc'[a] = "none" => pc[a] = "none"
    BY <1>0, <2>1 DEF Types
  <2>3. \A a \in Agents : stopRequested[a] => stopRequested'[a]
    BY <1>0, <2>1 DEF Types
  <2> QED
    BY <1>0, <2>1, <2>2, <2>3, StaysTaken
<1>5. ASSUME NEW b \in Agents, StopProcess(b) \/ ReleaseProcess(b) \/ StopAgent(b)
      PROVE  TakenInv'
  <2>1. /\ UNCHANGED <<agents, taken, pc>>
        /\ \/ UNCHANGED <<toStop, stopRequested>>
           \/ toStop' = toStop /\ stopRequested' = [stopRequested EXCEPT ![b] = TRUE]
           \/ toStop' = toStop \ {b} /\ stopRequested' = [stopRequested EXCEPT ![b] = TRUE]
    BY <1>5 DEF StopProcess, ReleaseProcess, StopAgent
  <2>2. /\ \A a \in Agents : stopRequested[a] => stopRequested'[a]
        /\ \A a \in taken \ toStop' : a \in taken \ toStop \/ stopRequested'[a]
    BY <1>0, <2>1 DEF Types
  <2> QED
    BY <1>0, <2>1, <2>2, StaysTaken
<1>6. ASSUME BeginDestruction PROVE TakenInv'
  <2>1. /\ UNCHANGED <<pc, stopRequested>>
        /\ taken' = agents /\ toStop' = agents /\ agents' = {}
    BY <1>6 DEF BeginDestruction
  <2> QED
    BY <1>0, <2>1, StaysTaken
<1>7. ASSUME AllStopped \/ EndDestruction \/ UNCHANGED llmVars PROVE TakenInv'
  <2>1. /\ UNCHANGED <<pc, stopRequested, agents, toStop>>
        /\ taken' \subseteq taken
    BY <1>7 DEF AllStopped, EndDestruction, llmVars
  <2> QED
    BY <1>0, <2>1, StaysTaken
<1> QED
  BY <1>1, <1>2, <1>3, <1>4, <1>5, <1>6, <1>7
  DEF Next, CreateStep, AgentStep, ToolStep, ChildFinished, DestructionStep

\* A step that leaves the families alone, and whose thread creates nobody any more, or
\* goes on with the agent it creates.
LEMMA SameFamilies ==
    ASSUME ChildInv, UNCHANGED <<children, parent>>,
           \A a \in Agents : named[a] \subseteq named'[a],
           \A a \in Agents : Creating(a)' => Creating(a) /\ subject'[a] = subject[a],
           \A a \in Agents : pc'[a] = "wait" =>
               subject'[a] \in named'[a] \/ (pc[a] = "wait" /\ subject'[a] = subject[a])
    PROVE  ChildInv'
<1>1. \A a \in Agents : \A c \in children'[a] : parent'[c] = a
  BY DEF ChildInv
<1>2. \A a \in Agents : Creating(a)' => parent'[subject'[a]] = a
  BY DEF ChildInv
<1>3. \A a \in Agents : pc'[a] = "wait" => subject'[a] \in named'[a]
  BY DEF ChildInv
<1> QED
  BY <1>1, <1>2, <1>3 DEF ChildInv

LEMMA ChildStep == ServiceInv /\ ChildInv /\ [Next]_llmVars => ChildInv'
<1> SUFFICES ASSUME ServiceInv, ChildInv, [Next]_llmVars PROVE ChildInv'
  OBVIOUS
<1> USE Numbers DEF serviceVars, treeVars, convVars, lookVars, Go, Home
<1>0. Types /\ TreeInv /\ CreationInv
  BY DEF ServiceInv
<1>1. ASSUME NEW t \in Threads, BeginCreate(t) PROVE ChildInv'
  <2>1. /\ UNCHANGED <<children, parent, named, subject>>
        /\ \E v \in {"making", "out", "busy"} : pc' = [pc EXCEPT ![t] = v]
    BY <1>1 DEF BeginCreate
  <2>2. \A a \in Agents : pc'[a] \in {"made", "kept", "post", "wait"} => pc'[a] = pc[a]
    BY <1>0, <2>1 DEF Types
  <2> QED
    BY <2>1, <2>2, SameFamilies DEF Creating
<1>2. ASSUME NEW t \in Threads, MakeAgent(t) PROVE ChildInv'
  <2> PICK n : n = NextAgent
    OBVIOUS
  <2>1. /\ pc' = [pc EXCEPT ![t] = "made", ![n] = "pop"]
        /\ subject' = [subject EXCEPT ![t] = n]
        /\ parent' = [parent EXCEPT ![n] = t]
        /\ UNCHANGED <<children, named>>
        /\ n \in Agents /\ n \in Threads /\ n \notin Born /\ n # t
    BY <1>0, <1>2, MakeAgentFacts
  <2>2. /\ \A u \in Threads : u # t => /\ pc'[u] = IF u = n THEN "pop" ELSE pc[u]
                                       /\ subject'[u] = subject[u]
        /\ pc'[t] = "made" /\ subject'[t] = n
        /\ \A c \in Agents : parent'[c] = IF c = n THEN t ELSE parent[c]
    BY <1>0, <2>1 DEF Types
  <2>3. ASSUME NEW a \in Agents, NEW c \in children'[a] PROVE parent'[c] = a
    <3>1. c \in children[a] /\ c \in Born /\ c \in Agents
      BY <1>0, <2>1 DEF CreationInv, Born
    <3>2. c # n /\ parent[c] = a
      BY <2>1, <3>1 DEF ChildInv
    <3> QED
      BY <2>2, <3>1, <3>2
  <2>4. ASSUME NEW a \in Agents, Creating(a)' PROVE parent'[subject'[a]] = a
    <3>1. CASE a = t
      BY <2>1, <2>2, <3>1
    <3>2. CASE a # t
      <4>1. Creating(a) /\ subject'[a] = subject[a]
        BY <2>2, <2>4, <3>2 DEF Creating
      <4>2. subject[a] \in Born
        BY <1>0, <4>1 DEF CreationInv
      <4>3. subject[a] \in Agents /\ subject[a] # n
        BY <2>1, <4>2 DEF Born
      <4>4. parent[subject[a]] = a
        BY <4>1 DEF ChildInv
      <4> QED
        BY <2>2, <4>1, <4>3, <4>4
    <3> QED
      BY <3>1, <3>2
  <2>5. ASSUME NEW a \in Agents, pc'[a] = "wait" PROVE subject'[a] \in named'[a]
    <3>1. pc[a] = "wait" /\ subject'[a] = subject[a]
      BY <2>2, <2>5
    <3> QED
      BY <2>1, <3>1 DEF ChildInv
  <2> QED
    BY <2>3, <2>4, <2>5 DEF ChildInv
<1>3. ASSUME NEW t \in Threads, Keep(t) PROVE ChildInv'
  <2>1. /\ UNCHANGED <<children, parent, named>> /\ pc[t] = "made"
        /\ \/ pc' = [pc EXCEPT ![t] = "kept"] /\ UNCHANGED subject
           \/ /\ \E v \in {"out", "busy"} : pc' = [pc EXCEPT ![t] = v]
              /\ subject' = [subject EXCEPT ![t] = Main]
    BY <1>3 DEF Keep
  <2>2. \A a \in Agents : a # t => pc'[a] = pc[a] /\ subject'[a] = subject[a]
    BY <1>0, <2>1 DEF Types
  <2>3. /\ pc'[t] \in {"kept", "out", "busy"}
        /\ pc'[t] = "kept" => subject'[t] = subject[t]
    BY <1>0, <2>1 DEF Types
  <2> QED
    BY <2>1, <2>2, <2>3, SameFamilies DEF Creating
<1>4. ASSUME NEW t \in Threads, AddChild(t) PROVE ChildInv'
  <2>1. /\ pc[t] = "kept" /\ pc' = [pc EXCEPT ![t] = "post"]
        /\ UNCHANGED <<parent, subject, named>>
    BY <1>4 DEF AddChild
  <2>2. \A a \in Agents : children'[a] = IF a = t THEN children[a] \union {subject[t]}
                                                 ELSE children[a]
    BY <1>0, <1>4 DEF AddChild, Types
  <2>3. \A a \in Agents : pc'[a] = IF a = t THEN "post" ELSE pc[a]
    BY <1>0, <2>1 DEF Types
  <2>4. t \in Agents => parent[subject[t]] = t
    BY <2>1 DEF ChildInv, Creating
  <2>5. ASSUME NEW a \in Agents, NEW c \in children'[a] PROVE parent[c] = a
    <3>1. c \in children[a] \/ (a = t /\ c = subject[t])
      BY <2>2
    <3> QED
      BY <2>4, <3>1 DEF ChildInv
  <2>6. \A a \in Agents : Creating(a)' => Creating(a)
    BY <2>1, <2>3 DEF Creating
  <2>7. \A a \in Agents : pc'[a] = "wait" => pc[a] = "wait"
    BY <2>3
  <2> QED
    BY <2>1, <2>5, <2>6, <2>7 DEF ChildInv
<1>5. ASSUME NEW t \in Threads, PostPrompt(t) PROVE ChildInv'
  <2>1. /\ UNCHANGED <<children, parent>> /\ pc[t] = "post"
        /\ \E v \in {"out", "busy"} : pc' = [pc EXCEPT ![t] = v]
        /\ subject' = [subject EXCEPT ![t] = Main]
        /\ \/ named' = named
           \/ t # Main /\ named' = [named EXCEPT ![t] = @ \union {subject[t]}]
    BY <1>5 DEF PostPrompt
  <2>2. \A a \in Agents : a # t => pc'[a] = pc[a] /\ subject'[a] = subject[a]
    BY <1>0, <2>1 DEF Types
  <2>3. pc'[t] \in {"out", "busy"}
    BY <1>0, <2>1 DEF Types
  <2>4. \A a \in Agents : named[a] \subseteq named'[a]
    BY <1>0, <2>1 DEF Types
  <2> QED
    BY <2>1, <2>2, <2>3, <2>4, SameFamilies DEF Creating
<1>6. ASSUME NEW b \in Agents,
             \/ TakeCommand(b) \/ CallTool(b) \/ SelfClose(b) \/ QueryAgent(b)
             \/ WaitForAgent(b) \/ WaitEnds(b) \/ EndCommand(b) \/ QueueClosed(b)
      PROVE  ChildInv'
  <2>1. /\ UNCHANGED <<children, parent, named>>
        /\ \/ /\ \E v \in {"busy", "tool", "pop", "ended"} : pc' = [pc EXCEPT ![b] = v]
              /\ subject' = subject \/ subject' = [subject EXCEPT ![b] = Main]
           \/ /\ pc' = [pc EXCEPT ![b] = "wait"]
              /\ \E c \in named[b] : subject' = [subject EXCEPT ![b] = c]
    BY <1>6
    DEF TakeCommand, CallTool, SelfClose, QueryAgent, WaitForAgent, WaitEnds, EndCommand,
        QueueClosed
  <2>2. \A a \in Agents : a # b => pc'[a] = pc[a] /\ subject'[a] = subject[a]
    BY <1>0, <2>1 DEF Types
  <2>3. \/ pc'[b] \in {"busy", "tool", "pop", "ended"}
        \/ pc'[b] = "wait" /\ subject'[b] \in named[b]
    BY <1>0, <2>1 DEF Types
  <2> QED
    BY <2>1, <2>2, <2>3, SameFamilies DEF Creating
<1>7. ASSUME UNCHANGED <<pc, subject, parent, children, named>> PROVE ChildInv'
  BY <1>7, SameFamilies DEF Creating
<1>8. ASSUME NEW b \in Agents, StopProcess(b) \/ ReleaseProcess(b) \/ StopAgent(b)
      PROVE  ChildInv'
  BY <1>7, <1>8 DEF StopProcess, ReleaseProcess, StopAgent
<1>9. ASSUME BeginDestruction \/ AllStopped \/ EndDestruction \/ UNCHANGED llmVars
      PROVE  ChildInv'
  BY <1>7, <1>9 DEF BeginDestruction, AllStopped, EndDestruction, llmVars
<1> QED
  BY <1>1, <1>2, <1>3, <1>4, <1>5, <1>6, <1>8, <1>9
  DEF Next, CreateStep, AgentStep, ToolStep, ChildFinished, DestructionStep

LEMMA WaitsInvariance == Spec => [](TakenInv /\ ChildInv)
<1>1. /\ ServiceInv /\ TakenInv /\ ChildInv /\ [Next]_llmVars =>
             TakenInv' /\ ChildInv'
  BY TakenStep, ChildStep
<1> QED
  BY <1>1, InitWaits, ServiceInvariance, PTL DEF Spec

\* The last of some agents.
LEMMA LastAgent ==
    ASSUME NEW S, S \subseteq Agents, S # {}
    PROVE  \E m \in S : \A a \in S : a <= m
<1> DEFINE T == {MaxAgents - a : a \in S}
<1>1. MaxAgents \in Nat /\ \A a \in S : a \in Nat /\ a <= MaxAgents
  BY Numbers
<1>2. T \subseteq Nat /\ T # {}
  BY <1>1
<1>3. PICK n \in T : \A k \in T : n <= k
  <2> HIDE DEF T
  <2> QED
    BY <1>2, LeastElement
<1>4. PICK m \in S : n = MaxAgents - m
  BY <1>3
<1>5. ASSUME NEW a \in S PROVE a <= m
  <2>1. MaxAgents - m <= MaxAgents - a
    BY <1>3, <1>4
  <2> QED
    BY <1>1, <2>1
<1> QED
  BY <1>5

\* Of the agents the destructor waits for, the last one born can go on: it has been
\* stopped, and the child it would wait for is not over either, so that the destructor
\* waits for it too, and it was born later still.
LEMMA NoCircle == ServiceInv /\ TakenInv /\ ChildInv => DestructionGoesOn
<1> SUFFICES ASSUME ServiceInv, TakenInv, ChildInv, service = "wait",
                    NEW x \in taken, ~Finished(x)
             PROVE  \E a \in taken : ~AgentWaits(a)
  BY DEF DestructionGoesOn, DestructorWaits
<1>0. Types /\ TreeInv /\ CreationInv /\ DestructionInv /\ KeptInv
  BY DEF ServiceInv
<1>1. taken \subseteq Agents /\ toStop = {} /\ agents = {}
  BY <1>0 DEF Types, DestructionInv
<1> DEFINE U == {a \in taken : ~Finished(a)}
<1>2. PICK m \in U : \A a \in U : a <= m
  <2>1. U \subseteq Agents /\ U # {}
    BY <1>1
  <2> HIDE DEF U
  <2> QED
    BY <2>1, LastAgent
<1>3. m \in taken /\ m \in Agents /\ pc[m] # "ended" /\ pc[m] # "none" /\ stopRequested[m]
  BY <1>1, <1>2 DEF Finished, TakenInv
<1>4. ~(pc[m] = "wait" /\ ~Finished(subject[m]))
  <2> SUFFICES ASSUME pc[m] = "wait", ~Finished(subject[m]) PROVE FALSE
    OBVIOUS
  <2> PICK c : c = subject[m]
    OBVIOUS
  <2>1. c \in named[m] /\ ~Finished(c)
    BY <1>3 DEF ChildInv
  <2>2. c \in children[m] /\ c \in Born
    BY <1>0, <1>3, <2>1 DEF CreationInv
  <2>3. c \in Agents /\ pc[c] # "none" /\ parent[c] = m
    BY <1>3, <2>2 DEF Born, ChildInv
  <2>4. c \in taken
    BY <1>0, <1>1, <1>3, <2>1, <2>3 DEF KeptInv, Fresh, Finished
  <2>5. c <= m
    BY <1>2, <2>1, <2>4
  <2>6. m < c
    BY <1>0, <2>3 DEF TreeInv
  <2> QED
    BY <1>3, <2>3, <2>5, <2>6, Numbers
<1>5. ~AgentWaits(m)
  BY <1>3, <1>4 DEF AgentWaits
<1> QED
  BY <1>3, <1>5

\* LLMService.cpp:44-91: as above, and the destructor, which waits for its agents without
\* a limit, never waits for agents that all wait for one another, however deep the tree
\* of agents is and whoever waits in it for whom.
THEOREM ServiceSafe == Spec => []ServiceIsSafe
<1>1. ServiceInv /\ TakenInv /\ ChildInv => DestructionGoesOn
  BY NoCircle
<1> QED
  BY <1>1, ServiceInvariance, WaitsInvariance, ServiceKeepsAgents, PTL DEF ServiceIsSafe
=============================================================================
