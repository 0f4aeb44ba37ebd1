-------------------------- MODULE HshControlProofs --------------------------
(***************************************************************************)
(* Proofs about HshControl for every nesting of calls and every operand of *)
(* break and continue.  Consistent says that the counters are what the     *)
(* stack of calls amounts to, and that every function and subshell on it   *)
(* has saved what its prefix of the stack amounts to; it is kept by a push *)
(* and by a pop, and every step of the shell is made of these.             *)
(***************************************************************************)
EXTENDS HshControl, SequenceTheorems, FiniteSetTheorems, TLAPS

Depths == [loop : Nat, function : Nat, dot : Nat, subshell : Nat, tested : Nat]

\* The calls of the interpreter.
Frame ==
    [kind : {"list"}, pipeline : Pipelines]
    \union [kind : {"text"}, role : Roles \union {"eval", "dot"}]
    \union [kind : {"if", "loop"}, testing : BOOLEAN]
    \union [kind : {"for", "words", "stages"}]
    \union [kind : {"function"}, loop : Nat]
    \union [kind : {"subshell"}, options : Options, depth : Depths]

\* The first n calls of s, counted.
LoopsIn(s, n) == {i \in 1..n : IsLoop(s[i]) /\ \A j \in 1..n : IsFunction(s[j]) => j < i}
FunctionsIn(s, n) == {i \in 1..n : IsFunction(s[i])}
DotsIn(s, n) == {i \in 1..n : IsDot(s[i])}
SubshellsIn(s, n) == {i \in 1..n : IsSubshell(s[i])}
TestsIn(s, n) == {i \in 1..n : Tested(s[i])}

Counts(s, n) ==
    [loop |-> Cardinality(LoopsIn(s, n)),
     function |-> Cardinality(FunctionsIn(s, n)),
     dot |-> Cardinality(DotsIn(s, n)),
     subshell |-> Cardinality(SubshellsIn(s, n)),
     tested |-> Cardinality(TestsIn(s, n))]

\* What a function or a subshell saves when it is entered with counters d.
Saves(f, d) ==
    /\ f.kind = "function" => f.loop = d.loop
    /\ f.kind = "subshell" => f.depth = d

Consistent(s, d) ==
    /\ s \in Seq(Frame)
    /\ d = Counts(s, Len(s))
    /\ \A i \in 1..Len(s) : Saves(s[i], Counts(s, i - 1))

\* Where an exception can still go, and what runs only in a list.
DoingInv ==
    /\ doing.to \in {"item", "done", "background"} => stack # <<>> /\ Top = List
    /\ doing.to = "throw" =>
          /\ doing = [to |-> "throw", what |-> doing.what, levels |-> doing.levels]
          /\ doing.levels \in Nat
          /\ doing.what \in LoopControls => doing.levels \in 1..depth.loop
          /\ doing.what = "return" => depth.function + depth.dot + depth.subshell > 0

ControlInv == Consistent(stack, depth) /\ options \in Options /\ DoingInv

-----------------------------------------------------------------------------
(* One more call.                                                          *)

\* The counters c once the call f is entered.
Plus(c, f) ==
    [loop |-> IF IsFunction(f) THEN 0 ELSE IF IsLoop(f) THEN c.loop + 1 ELSE c.loop,
     function |-> IF IsFunction(f) THEN c.function + 1 ELSE c.function,
     dot |-> IF IsDot(f) THEN c.dot + 1 ELSE c.dot,
     subshell |-> IF IsSubshell(f) THEN c.subshell + 1 ELSE c.subshell,
     tested |-> c.tested + Weight(f)]

\* A set of the first n calls, and what the next call makes of it.
LEMMA OneMore ==
    ASSUME NEW n \in Nat, NEW S, S \subseteq 1..n
    PROVE  /\ Cardinality(S) \in Nat
           /\ Cardinality(S \union {n + 1}) = Cardinality(S) + 1
<1>1. IsFiniteSet(S)
  BY FS_Interval, FS_Subset, 0 \in Int, 1 \in Int, n \in Int
<1>2. Cardinality(S) \in Nat
  BY <1>1, FS_CardinalityType
<1>3. n + 1 \notin S
  OBVIOUS
<1> QED BY <1>1, <1>2, <1>3, FS_AddElement

LEMMA CountsTyped ==
    ASSUME NEW s, NEW n \in Nat
    PROVE  Counts(s, n) \in Depths
<1>1. /\ LoopsIn(s, n) \subseteq 1..n
      /\ FunctionsIn(s, n) \subseteq 1..n
      /\ DotsIn(s, n) \subseteq 1..n
      /\ SubshellsIn(s, n) \subseteq 1..n
      /\ TestsIn(s, n) \subseteq 1..n
  BY DEF LoopsIn, FunctionsIn, DotsIn, SubshellsIn, TestsIn
<1>2. /\ Cardinality(LoopsIn(s, n)) \in Nat
      /\ Cardinality(FunctionsIn(s, n)) \in Nat
      /\ Cardinality(DotsIn(s, n)) \in Nat
      /\ Cardinality(SubshellsIn(s, n)) \in Nat
      /\ Cardinality(TestsIn(s, n)) \in Nat
  BY <1>1, OneMore
<1> QED BY <1>2 DEF Counts, Depths

LEMMA CountsOfNone ==
    ASSUME NEW s
    PROVE  Counts(s, 0) = [loop |-> 0, function |-> 0, dot |-> 0, subshell |-> 0, tested |-> 0]
<1>1. /\ LoopsIn(s, 0) = {} /\ FunctionsIn(s, 0) = {} /\ DotsIn(s, 0) = {}
      /\ SubshellsIn(s, 0) = {} /\ TestsIn(s, 0) = {}
  BY DEF LoopsIn, FunctionsIn, DotsIn, SubshellsIn, TestsIn
<1> QED BY <1>1, FS_EmptySet DEF Counts

LEMMA CountsOfSame ==
    ASSUME NEW s, NEW t, NEW n \in Nat, \A i \in 1..n : s[i] = t[i]
    PROVE  Counts(s, n) = Counts(t, n)
<1>1. LoopsIn(s, n) = LoopsIn(t, n)
  BY DEF LoopsIn
<1>2. FunctionsIn(s, n) = FunctionsIn(t, n)
  BY DEF FunctionsIn
<1>3. DotsIn(s, n) = DotsIn(t, n)
  BY DEF DotsIn
<1>4. SubshellsIn(s, n) = SubshellsIn(t, n)
  BY DEF SubshellsIn
<1>5. TestsIn(s, n) = TestsIn(t, n)
  BY DEF TestsIn
<1> QED BY <1>1, <1>2, <1>3, <1>4, <1>5 DEF Counts

LEMMA CountsNext ==
    ASSUME NEW s, NEW n \in Nat
    PROVE  Counts(s, n + 1) = Plus(Counts(s, n), s[n + 1])
<1> DEFINE f == s[n + 1]
<1>1. /\ LoopsIn(s, n) \subseteq 1..n
      /\ FunctionsIn(s, n) \subseteq 1..n
      /\ DotsIn(s, n) \subseteq 1..n
      /\ SubshellsIn(s, n) \subseteq 1..n
      /\ TestsIn(s, n) \subseteq 1..n
  BY DEF LoopsIn, FunctionsIn, DotsIn, SubshellsIn, TestsIn
<1>2. 1..(n + 1) = (1..n) \union {n + 1}
  OBVIOUS
<1>3. Cardinality(LoopsIn(s, n + 1)) =
          IF IsFunction(f) THEN 0
          ELSE IF IsLoop(f) THEN Cardinality(LoopsIn(s, n)) + 1 ELSE Cardinality(LoopsIn(s, n))
  <2>1. CASE IsFunction(f)
    <3>1. LoopsIn(s, n + 1) = {}
      BY <2>1 DEF LoopsIn
    <3> QED BY <2>1, <3>1, FS_EmptySet
  <2>2. CASE ~IsFunction(f) /\ IsLoop(f)
    <3>1. LoopsIn(s, n + 1) = LoopsIn(s, n) \union {n + 1}
      BY <2>2, <1>2 DEF LoopsIn
    <3> QED BY <2>2, <3>1, <1>1, OneMore
  <2>3. CASE ~IsFunction(f) /\ ~IsLoop(f)
    <3>1. LoopsIn(s, n + 1) = LoopsIn(s, n)
      BY <2>3, <1>2 DEF LoopsIn
    <3> QED BY <2>3, <3>1
  <2> QED BY <2>1, <2>2, <2>3
<1>4. Cardinality(FunctionsIn(s, n + 1)) =
          IF IsFunction(f) THEN Cardinality(FunctionsIn(s, n)) + 1
          ELSE Cardinality(FunctionsIn(s, n))
  <2>1. FunctionsIn(s, n + 1) = IF IsFunction(f) THEN FunctionsIn(s, n) \union {n + 1}
                                ELSE FunctionsIn(s, n)
    BY <1>2 DEF FunctionsIn
  <2> QED BY <2>1, <1>1, OneMore
<1>5. Cardinality(DotsIn(s, n + 1)) =
          IF IsDot(f) THEN Cardinality(DotsIn(s, n)) + 1 ELSE Cardinality(DotsIn(s, n))
  <2>1. DotsIn(s, n + 1) = IF IsDot(f) THEN DotsIn(s, n) \union {n + 1} ELSE DotsIn(s, n)
    BY <1>2 DEF DotsIn
  <2> QED BY <2>1, <1>1, OneMore
<1>6. Cardinality(SubshellsIn(s, n + 1)) =
          IF IsSubshell(f) THEN Cardinality(SubshellsIn(s, n)) + 1
          ELSE Cardinality(SubshellsIn(s, n))
  <2>1. SubshellsIn(s, n + 1) = IF IsSubshell(f) THEN SubshellsIn(s, n) \union {n + 1}
                                ELSE SubshellsIn(s, n)
    BY <1>2 DEF SubshellsIn
  <2> QED BY <2>1, <1>1, OneMore
<1>7. Cardinality(TestsIn(s, n + 1)) = Cardinality(TestsIn(s, n)) + Weight(f)
  <2>1. CASE Tested(f)
    <3>1. TestsIn(s, n + 1) = TestsIn(s, n) \union {n + 1}
      BY <2>1, <1>2 DEF TestsIn
    <3> QED BY <2>1, <3>1, <1>1, OneMore DEF Weight
  <2>2. CASE ~Tested(f)
    <3>1. TestsIn(s, n + 1) = TestsIn(s, n)
      BY <2>2, <1>2 DEF TestsIn
    <3>2. Cardinality(TestsIn(s, n)) \in Nat
      BY <1>1, OneMore
    <3> QED BY <2>2, <3>1, <3>2 DEF Weight
  <2> QED BY <2>1, <2>2
<1> QED BY <1>3, <1>4, <1>5, <1>6, <1>7 DEF Counts, Plus

-----------------------------------------------------------------------------
(* A call is entered and left.                                             *)

LEMMA Pushed ==
    ASSUME NEW s, NEW d, Consistent(s, d), NEW f \in Frame, Saves(f, d)
    PROVE  Consistent(Append(s, f), Plus(d, f))
<1> DEFINE t == Append(s, f)
           n == Len(s)
<1>1. /\ s \in Seq(Frame) /\ n \in Nat /\ d = Counts(s, n)
      /\ \A i \in 1..n : Saves(s[i], Counts(s, i - 1))
  BY DEF Consistent
<1>2. t \in Seq(Frame) /\ Len(t) = n + 1 /\ t[n + 1] = f /\ \A i \in 1..n : t[i] = s[i]
  BY <1>1
<1> HIDE DEF t, n
<1>3. \A k \in 0..n : Counts(t, k) = Counts(s, k)
  <2> TAKE k \in 0..n
  <2>1. k \in Nat /\ \A i \in 1..k : t[i] = s[i]
    BY <1>1, <1>2
  <2> QED BY <2>1, CountsOfSame
<1>4. Counts(t, n) = d
  BY <1>1, <1>3
<1>5. Counts(t, n + 1) = Plus(d, f)
  BY <1>1, <1>2, <1>4, CountsNext
<1>6. \A i \in 1..(n + 1) : Saves(t[i], Counts(t, i - 1))
  <2> TAKE i \in 1..(n + 1)
  <2>1. CASE i = n + 1
    <3>1. i - 1 = n
      BY <2>1, <1>1
    <3> QED BY <2>1, <3>1, <1>2, <1>4
  <2>2. CASE i # n + 1
    <3>1. i \in 1..n /\ i - 1 \in 0..n
      BY <2>2, <1>1
    <3> QED BY <3>1, <1>1, <1>2, <1>3
  <2> QED BY <2>1, <2>2
<1>7. Consistent(t, Plus(d, f))
  BY <1>2, <1>5, <1>6 DEF Consistent
<1> QED BY <1>7 DEF t

LEMMA Popped ==
    ASSUME NEW s, NEW d, Consistent(s, d), s # <<>>
    PROVE  \E c \in Depths :
               /\ s[Len(s)] \in Frame
               /\ d = Plus(c, s[Len(s)])
               /\ Saves(s[Len(s)], c)
               /\ Consistent(SubSeq(s, 1, Len(s) - 1), c)
<1> DEFINE n == Len(s)
           t == SubSeq(s, 1, n - 1)
           c == Counts(s, n - 1)
<1>1. /\ s \in Seq(Frame) /\ n \in Nat \ {0} /\ d = Counts(s, n)
      /\ \A i \in 1..n : Saves(s[i], Counts(s, i - 1))
  BY DEF Consistent
<1>2. t \in Seq(Frame) /\ Len(t) = n - 1 /\ \A i \in 1..(n - 1) : t[i] = s[i]
  <2>1. \A i \in 1..(n - 1) : s[i] \in Frame
    BY <1>1
  <2> HIDE DEF n
  <2>2. n - 1 \in Int /\ 1 \in Int
    BY <1>1
  <2>3. /\ t \in Seq(Frame)
        /\ Len(t) = IF 1 <= n - 1 THEN (n - 1) - 1 + 1 ELSE 0
        /\ \A i \in 1..((n - 1) - 1 + 1) : t[i] = s[1 + i - 1]
    BY <2>1, <2>2, SubSeqProperties
  <2>4. (n - 1) - 1 + 1 = n - 1 /\ \A i \in 1..(n - 1) : 1 + i - 1 = i
    BY <1>1
  <2> HIDE DEF t
  <2> QED BY <1>1, <2>3, <2>4
<1>3. s[n] \in Frame
  BY <1>1
<1> HIDE DEF t, n
<1>4. \A k \in 0..(n - 1) : Counts(t, k) = Counts(s, k)
  <2> TAKE k \in 0..(n - 1)
  <2>1. k \in Nat /\ \A i \in 1..k : t[i] = s[i]
    BY <1>1, <1>2
  <2> QED BY <2>1, CountsOfSame
<1>5. c \in Depths
  BY <1>1, CountsTyped, n - 1 \in Nat
<1>6. d = Plus(c, s[n])
  <2>1. n - 1 \in Nat /\ (n - 1) + 1 = n
    BY <1>1
  <2> QED BY <2>1, <1>1, CountsNext
<1>7. Saves(s[n], c)
  BY <1>1
<1>8. Consistent(t, c)
  <2>1. c = Counts(t, n - 1)
    BY <1>1, <1>4
  <2>2. \A i \in 1..(n - 1) : Saves(t[i], Counts(t, i - 1))
    <3> TAKE i \in 1..(n - 1)
    <3>1. i \in 1..n /\ i - 1 \in 0..(n - 1)
      BY <1>1
    <3> QED BY <3>1, <1>1, <1>2, <1>4
  <2> QED BY <2>1, <2>2, <1>2 DEF Consistent
<1> QED BY <1>3, <1>5, <1>6, <1>7, <1>8 DEF t, n

\* Calls entered together are entered one after the other.
LEMMA TwoCalls ==
    ASSUME NEW s \in Seq(Frame), NEW f \in Frame, NEW g \in Frame
    PROVE  /\ s \o <<f, g>> = Append(Append(s, f), g)
           /\ s \o <<f>> = Append(s, f)
           /\ s \o <<>> = s
<1>1. s \o <<f>> = Append(s, f) /\ s \o <<>> = s
  OBVIOUS
<1>2. Append(s, f) \o <<g>> = Append(Append(s, f), g)
  OBVIOUS
<1>3. s \o <<f, g>> = Append(Append(s, f), g)
  OBVIOUS
<1> QED BY <1>1, <1>3

LEMMA WeightOf ==
    ASSUME NEW f \in Frame
    PROVE  /\ Weight(f) \in {0, 1}
           /\ f.kind \notin {"list", "if", "loop"} => Weight(f) = 0
<1>1. Weight(f) \in {0, 1}
  BY DEF Weight
<1>2. ASSUME f.kind \notin {"list", "if", "loop"} PROVE ~Tested(f)
  BY <1>2 DEF Tested
<1> QED BY <1>1, <1>2 DEF Weight

LEMMA SameCounters ==
    ASSUME NEW c \in Depths, NEW e \in Depths,
           c.loop = e.loop, c.function = e.function, c.dot = e.dot,
           c.subshell = e.subshell, c.tested = e.tested
    PROVE  c = e
  BY DEF Depths

\* Two counters changed at once.
LEMMA LoopChanged ==
    ASSUME NEW c \in Depths, NEW x \in Nat, NEW y \in Nat, NEW e,
           e = [c EXCEPT !.loop = x, !.tested = y]
    PROVE  /\ e \in Depths
           /\ e.loop = x /\ e.function = c.function /\ e.dot = c.dot
           /\ e.subshell = c.subshell /\ e.tested = y
  BY DEF Depths

LEMMA FunctionChanged ==
    ASSUME NEW c \in Depths, NEW x \in Nat, NEW y \in Nat, NEW e,
           e = [c EXCEPT !.function = x, !.loop = y]
    PROVE  /\ e \in Depths
           /\ e.loop = y /\ e.function = x /\ e.dot = c.dot
           /\ e.subshell = c.subshell /\ e.tested = c.tested
  BY DEF Depths

\* What entering a call does to the counters, by the kind of the call.
LEMMA Entered ==
    ASSUME NEW c \in Depths, NEW f \in Frame
    PROVE  /\ f.kind \in {"list", "if", "words", "stages"} =>
                  Plus(c, f) = [c EXCEPT !.tested = @ + Weight(f)]
           /\ f.kind = "text" /\ f.role # "dot" => Plus(c, f) = c
           /\ f.kind = "text" /\ f.role = "dot" => Plus(c, f) = [c EXCEPT !.dot = @ + 1]
           /\ f.kind \in {"loop", "for"} =>
                  Plus(c, f) = [c EXCEPT !.loop = @ + 1, !.tested = @ + Weight(f)]
           /\ f.kind = "function" =>
                  Plus(c, f) = [c EXCEPT !.function = @ + 1, !.loop = 0]
           /\ f.kind = "subshell" => Plus(c, f) = [c EXCEPT !.subshell = @ + 1]
<1> DEFINE w == Weight(f)
           p == Plus(c, f)
<1>1. w \in Nat /\ (f.kind \notin {"list", "if", "loop"} => w = 0)
  BY WeightOf
<1>2. /\ c.loop \in Nat /\ c.function \in Nat /\ c.dot \in Nat
      /\ c.subshell \in Nat /\ c.tested \in Nat
  BY DEF Depths
<1>3. p = [loop |-> IF IsFunction(f) THEN 0 ELSE IF IsLoop(f) THEN c.loop + 1 ELSE c.loop,
           function |-> IF IsFunction(f) THEN c.function + 1 ELSE c.function,
           dot |-> IF IsDot(f) THEN c.dot + 1 ELSE c.dot,
           subshell |-> IF IsSubshell(f) THEN c.subshell + 1 ELSE c.subshell,
           tested |-> c.tested + w]
  BY DEF Plus
<1> HIDE DEF w, p
<1>4. ASSUME f.kind \in {"list", "if", "words", "stages"}
      PROVE  Plus(c, f) = [c EXCEPT !.tested = @ + w]
  <2> DEFINE e == [c EXCEPT !.tested = @ + w]
  <2>1. /\ e \in Depths
        /\ e.loop = c.loop /\ e.function = c.function /\ e.dot = c.dot
        /\ e.subshell = c.subshell /\ e.tested = c.tested + w
    BY <1>1, <1>2 DEF Depths
  <2>2. /\ p \in Depths
        /\ p.loop = c.loop /\ p.function = c.function /\ p.dot = c.dot
        /\ p.subshell = c.subshell /\ p.tested = c.tested + w
    BY <1>1, <1>2, <1>3, <1>4 DEF IsFunction, IsLoop, IsDot, IsSubshell, Depths
  <2> HIDE DEF e
  <2>3. p = e
    BY <2>1, <2>2, SameCounters
  <2> QED BY <2>3 DEF e, p
<1>6. ASSUME f.kind = "text", f.role = "dot"
      PROVE  Plus(c, f) = [c EXCEPT !.dot = @ + 1]
  <2> DEFINE e == [c EXCEPT !.dot = @ + 1]
  <2>1. /\ e \in Depths
        /\ e.loop = c.loop /\ e.function = c.function /\ e.dot = c.dot + 1
        /\ e.subshell = c.subshell /\ e.tested = c.tested
    BY <1>1, <1>2 DEF Depths
  <2>2. /\ p \in Depths
        /\ p.loop = c.loop /\ p.function = c.function /\ p.dot = c.dot + 1
        /\ p.subshell = c.subshell /\ p.tested = c.tested
    BY <1>1, <1>2, <1>3, <1>6 DEF IsFunction, IsLoop, IsDot, IsSubshell, Depths
  <2> HIDE DEF e
  <2>3. p = e
    BY <2>1, <2>2, SameCounters
  <2> QED BY <2>3 DEF e, p
<1>7. ASSUME f.kind \in {"loop", "for"}
      PROVE  Plus(c, f) = [c EXCEPT !.loop = @ + 1, !.tested = @ + w]
  <2> DEFINE e == [c EXCEPT !.loop = @ + 1, !.tested = @ + w]
  <2>1. /\ e \in Depths
        /\ e.loop = c.loop + 1 /\ e.function = c.function /\ e.dot = c.dot
        /\ e.subshell = c.subshell /\ e.tested = c.tested + w
    <3>1. PICK x \in Nat, y \in Nat : x = c.loop + 1 /\ y = c.tested + w
      BY <1>1, <1>2
    <3>2. e = [c EXCEPT !.loop = x, !.tested = y]
      BY <3>1
    <3> HIDE DEF e
    <3>3. /\ e \in Depths
          /\ e.loop = x /\ e.function = c.function /\ e.dot = c.dot
          /\ e.subshell = c.subshell /\ e.tested = y
      BY <3>2 DEF Depths
    <3> QED BY <3>1, <3>3
  <2>2. /\ p \in Depths
        /\ p.loop = c.loop + 1 /\ p.function = c.function /\ p.dot = c.dot
        /\ p.subshell = c.subshell /\ p.tested = c.tested + w
    BY <1>1, <1>2, <1>3, <1>7 DEF IsFunction, IsLoop, IsDot, IsSubshell, Depths
  <2> HIDE DEF e
  <2>3. p = e
    BY <2>1, <2>2, SameCounters
  <2> QED BY <2>3 DEF e, p
<1>8. ASSUME f.kind = "function"
      PROVE  Plus(c, f) = [c EXCEPT !.function = @ + 1, !.loop = 0]
  <2> DEFINE e == [c EXCEPT !.function = @ + 1, !.loop = 0]
  <2>1. /\ e \in Depths
        /\ e.loop = 0 /\ e.function = c.function + 1 /\ e.dot = c.dot
        /\ e.subshell = c.subshell /\ e.tested = c.tested
    <3>1. PICK x \in Nat, y \in Nat : x = c.function + 1 /\ y = 0
      BY <1>2
    <3>2. e = [c EXCEPT !.function = x, !.loop = y]
      BY <3>1
    <3> HIDE DEF e
    <3>3. /\ e \in Depths
          /\ e.loop = y /\ e.function = x /\ e.dot = c.dot
          /\ e.subshell = c.subshell /\ e.tested = c.tested
      BY <3>2 DEF Depths
    <3> QED BY <3>1, <3>3
  <2>2. /\ p \in Depths
        /\ p.loop = 0 /\ p.function = c.function + 1 /\ p.dot = c.dot
        /\ p.subshell = c.subshell /\ p.tested = c.tested
    BY <1>1, <1>2, <1>3, <1>8 DEF IsFunction, IsLoop, IsDot, IsSubshell, Depths
  <2> HIDE DEF e
  <2>3. p = e
    BY <2>1, <2>2, SameCounters
  <2> QED BY <2>3 DEF e, p
<1>9. ASSUME f.kind = "subshell"
      PROVE  Plus(c, f) = [c EXCEPT !.subshell = @ + 1]
  <2> DEFINE e == [c EXCEPT !.subshell = @ + 1]
  <2>1. /\ e \in Depths
        /\ e.loop = c.loop /\ e.function = c.function /\ e.dot = c.dot
        /\ e.subshell = c.subshell + 1 /\ e.tested = c.tested
    BY <1>1, <1>2 DEF Depths
  <2>2. /\ p \in Depths
        /\ p.loop = c.loop /\ p.function = c.function /\ p.dot = c.dot
        /\ p.subshell = c.subshell + 1 /\ p.tested = c.tested
    BY <1>1, <1>2, <1>3, <1>9 DEF IsFunction, IsLoop, IsDot, IsSubshell, Depths
  <2> HIDE DEF e
  <2>3. p = e
    BY <2>1, <2>2, SameCounters
  <2> QED BY <2>3 DEF e, p
<1>5. ASSUME f.kind = "text", f.role # "dot" PROVE Plus(c, f) = c
  <2>1. /\ p \in Depths
        /\ p.loop = c.loop /\ p.function = c.function /\ p.dot = c.dot
        /\ p.subshell = c.subshell /\ p.tested = c.tested
    BY <1>1, <1>2, <1>3, <1>5 DEF IsFunction, IsLoop, IsDot, IsSubshell, Depths
  <2>2. p = c
    BY <2>1, SameCounters
  <2> QED BY <2>2 DEF p
<1> QED BY <1>4, <1>5, <1>6, <1>7, <1>8, <1>9 DEF w

\* What is left when the innermost call ends, as each kind of call puts it back.
LEMMA Left ==
    ASSUME NEW s, NEW d, Consistent(s, d), s # <<>>
    PROVE  LET f == s[Len(s)]
               t == SubSeq(s, 1, Len(s) - 1)
           IN  /\ f \in Frame /\ t \in Seq(Frame)
               /\ f.kind \in {"list", "if", "words", "stages"} =>
                      Consistent(t, [d EXCEPT !.tested = @ - Weight(f)])
               /\ f.kind = "text" /\ f.role # "dot" => Consistent(t, d)
               /\ f.kind = "text" /\ f.role = "dot" =>
                      Consistent(t, [d EXCEPT !.dot = @ - 1])
               /\ f.kind \in {"loop", "for"} =>
                      Consistent(t, [d EXCEPT !.loop = @ - 1, !.tested = @ - Weight(f)])
               /\ f.kind = "function" =>
                      Consistent(t, [d EXCEPT !.function = @ - 1, !.loop = f.loop]) /\ d.loop = 0
               /\ f.kind = "subshell" => Consistent(t, f.depth) /\ f.options \in Options
<1> DEFINE f == s[Len(s)]
           t == SubSeq(s, 1, Len(s) - 1)
<1>1. PICK c \in Depths : /\ f \in Frame
                          /\ d = Plus(c, f)
                          /\ Saves(f, c)
                          /\ Consistent(t, c)
  BY Popped
<1> HIDE DEF f, t
<1>2. Weight(f) \in Nat
  BY <1>1, WeightOf
<1>3. /\ c.loop \in Nat /\ c.function \in Nat /\ c.dot \in Nat
      /\ c.subshell \in Nat /\ c.tested \in Nat
  BY DEF Depths
<1>d. d \in Depths
  BY CountsTyped DEF Consistent
<1>4. ASSUME f.kind \in {"list", "if", "words", "stages"}
      PROVE  [d EXCEPT !.tested = @ - Weight(f)] = c
  <2> DEFINE e == [d EXCEPT !.tested = @ - Weight(f)]
  <2>1. d = [c EXCEPT !.tested = @ + Weight(f)]
    BY <1>1, <1>4, Entered
  <2>3. /\ d.loop = c.loop /\ d.function = c.function /\ d.dot = c.dot
        /\ d.subshell = c.subshell /\ d.tested = c.tested + Weight(f)
    BY <1>2, <1>3, <2>1 DEF Depths
  <2>4. e \in Depths
    BY <1>2, <1>3, <1>d, <2>3 DEF Depths
  <2>5. /\ e.loop = c.loop /\ e.function = c.function /\ e.dot = c.dot
        /\ e.subshell = c.subshell /\ e.tested = c.tested
    BY <1>2, <1>3, <1>d, <2>3 DEF Depths
  <2> HIDE DEF e
  <2>6. e = c
    BY <2>4, <2>5, SameCounters
  <2> QED BY <2>3, <2>6 DEF e
<1>5. ASSUME f.kind = "text", f.role # "dot" PROVE d = c
  BY <1>1, <1>5, Entered
<1>6. ASSUME f.kind = "text", f.role = "dot"
      PROVE  [d EXCEPT !.dot = @ - 1] = c
  <2> DEFINE e == [d EXCEPT !.dot = @ - 1]
  <2>1. d = [c EXCEPT !.dot = @ + 1]
    BY <1>1, <1>6, Entered
  <2>3. /\ d.loop = c.loop /\ d.function = c.function /\ d.dot = c.dot + 1
        /\ d.subshell = c.subshell /\ d.tested = c.tested
    BY <1>2, <1>3, <2>1 DEF Depths
  <2>4. e \in Depths
    BY <1>2, <1>3, <1>d, <2>3 DEF Depths
  <2>5. /\ e.loop = c.loop /\ e.function = c.function /\ e.dot = c.dot
        /\ e.subshell = c.subshell /\ e.tested = c.tested
    BY <1>2, <1>3, <1>d, <2>3 DEF Depths
  <2> HIDE DEF e
  <2>6. e = c
    BY <2>4, <2>5, SameCounters
  <2> QED BY <2>3, <2>6 DEF e
<1>7. ASSUME f.kind \in {"loop", "for"}
      PROVE  [d EXCEPT !.loop = @ - 1, !.tested = @ - Weight(f)] = c
  <2> DEFINE e == [d EXCEPT !.loop = @ - 1, !.tested = @ - Weight(f)]
  <2>1. d = [c EXCEPT !.loop = @ + 1, !.tested = @ + Weight(f)]
    BY <1>1, <1>7, Entered
  <2>3. /\ d.loop = c.loop + 1 /\ d.function = c.function /\ d.dot = c.dot
        /\ d.subshell = c.subshell /\ d.tested = c.tested + Weight(f)
    BY <1>2, <1>3, <2>1 DEF Depths
  <2>4. e \in Depths
    <3>1. d.loop - 1 \in Nat /\ d.tested - Weight(f) \in Nat
      <4>1. c.loop \in Nat /\ c.tested \in Nat /\ Weight(f) \in Nat
        BY <1>2, <1>3
      <4> HIDE DEF Weight
      <4> QED
        BY ONLY <2>3, <4>1
    <3> QED BY <1>d, <3>1, LoopChanged
  <2>5. /\ e.loop = c.loop /\ e.function = c.function /\ e.dot = c.dot
        /\ e.subshell = c.subshell /\ e.tested = c.tested
    BY <1>2, <1>3, <1>d, <2>3 DEF Depths
  <2> HIDE DEF e
  <2>6. e = c
    BY <2>4, <2>5, SameCounters
  <2> QED BY <2>3, <2>6 DEF e
<1>8. ASSUME f.kind = "function"
      PROVE  [d EXCEPT !.function = @ - 1, !.loop = f.loop] = c /\ d.loop = 0
  <2> DEFINE e == [d EXCEPT !.function = @ - 1, !.loop = f.loop]
  <2>1. d = [c EXCEPT !.function = @ + 1, !.loop = 0]
    BY <1>1, <1>8, Entered
  <2>2. f.loop = c.loop
    BY <1>1, <1>8 DEF Saves
  <2>3. /\ d.loop = 0 /\ d.function = c.function + 1 /\ d.dot = c.dot
        /\ d.subshell = c.subshell /\ d.tested = c.tested
    BY <1>2, <1>3, <2>1 DEF Depths
  <2>4. e \in Depths
    <3>1. d.function - 1 \in Nat /\ f.loop \in Nat
      BY <1>3, <2>2, <2>3
    <3> QED BY <1>d, <3>1, FunctionChanged
  <2>5. /\ e.loop = c.loop /\ e.function = c.function /\ e.dot = c.dot
        /\ e.subshell = c.subshell /\ e.tested = c.tested
    BY <1>2, <1>3, <1>d, <2>2, <2>3 DEF Depths
  <2> HIDE DEF e
  <2>6. e = c
    BY <2>4, <2>5, SameCounters
  <2> QED BY <2>3, <2>6 DEF e
<1>9. ASSUME f.kind = "subshell" PROVE f.depth = c /\ f.options \in Options
  <2>1. f.depth = c
    BY <1>1, <1>9 DEF Saves
  <2>2. f.options \in Options
    BY <1>1, <1>9 DEF Frame
  <2> QED BY <2>1, <2>2
<1>10. t \in Seq(Frame)
  BY <1>1 DEF Consistent
<1> QED BY <1>1, <1>4, <1>5, <1>6, <1>7, <1>8, <1>9, <1>10 DEF f, t

LEMMA ConsistentTyped ==
    ASSUME NEW s, NEW d, Consistent(s, d)
    PROVE  /\ s \in Seq(Frame) /\ Len(s) \in Nat
           /\ d \in Depths
           /\ d = [loop |-> d.loop, function |-> d.function, dot |-> d.dot,
                   subshell |-> d.subshell, tested |-> d.tested]
           /\ d.loop \in Nat /\ d.function \in Nat /\ d.dot \in Nat
           /\ d.subshell \in Nat /\ d.tested \in Nat
<1>1. s \in Seq(Frame) /\ Len(s) \in Nat /\ d = Counts(s, Len(s))
  BY DEF Consistent
<1>2. d \in Depths
  BY <1>1, CountsTyped
<1> QED BY <1>1, <1>2 DEF Depths

\* The calls that count for nothing.
Uncounted(f) ==
    \/ f.kind \in {"words", "stages"}
    \/ f.kind = "text" /\ f.role # "dot"
    \/ f = List

LEMMA UncountedPlus ==
    ASSUME NEW c \in Depths, NEW f \in Frame, Uncounted(f)
    PROVE  Plus(c, f) = c
<1>1. c.tested \in Nat
  BY DEF Depths
<1>2. CASE f.kind = "text" /\ f.role # "dot"
  BY <1>2, Entered
<1>3. CASE f.kind \in {"words", "stages"} \/ f = List
  <2>1. Weight(f) = 0
    BY <1>3, WeightOf DEF Weight, Tested, List, Chain
  <2>2. f.kind \in {"list", "if", "words", "stages"}
    BY <1>3 DEF List, Chain
  <2>a. Plus(c, f) = [c EXCEPT !.tested = @ + Weight(f)]
    BY <2>2, Entered
  <2>3. Plus(c, f) = [c EXCEPT !.tested = @ + 0]
    BY ONLY <2>1, <2>a
  <2> QED BY <1>1, <2>3 DEF Depths
<1> QED BY <1>2, <1>3 DEF Uncounted

\* The calls and returns of the shell, in terms of its stack and its counters.
LEMMA Enters ==
    ASSUME NEW s, NEW d, Consistent(s, d), NEW f \in Frame
    PROVE  /\ Uncounted(f) => Consistent(Append(s, f), d)
           /\ f.kind = "if" => Consistent(Append(s, f), [d EXCEPT !.tested = @ + Weight(f)])
           /\ f.kind = "text" /\ f.role = "dot" =>
                  Consistent(Append(s, f), [d EXCEPT !.dot = @ + 1])
           /\ f.kind \in {"loop", "for"} =>
                  Consistent(Append(s, f), [d EXCEPT !.loop = @ + 1, !.tested = @ + Weight(f)])
           /\ f.kind = "function" /\ f.loop = d.loop =>
                  Consistent(Append(s, f), [d EXCEPT !.function = @ + 1, !.loop = 0])
           /\ f.kind = "subshell" /\ f.depth = d =>
                  Consistent(Append(s, f), [d EXCEPT !.subshell = @ + 1])
<1>1. d \in Depths
  BY ConsistentTyped
<1>2. ASSUME Saves(f, d) PROVE Consistent(Append(s, f), Plus(d, f))
  BY <1>2, Pushed
<1>3. ASSUME Uncounted(f) PROVE Consistent(Append(s, f), d)
  <2>1. Saves(f, d)
    BY <1>3 DEF Uncounted, Saves, List, Chain
  <2> QED BY <2>1, <1>1, <1>2, <1>3, UncountedPlus
<1>4. ASSUME f.kind = "if" PROVE Consistent(Append(s, f), [d EXCEPT !.tested = @ + Weight(f)])
  <2>1. Saves(f, d)
    BY <1>4 DEF Saves
  <2> QED BY <2>1, <1>1, <1>2, <1>4, Entered
<1>5. ASSUME f.kind = "text" /\ f.role = "dot"
      PROVE  Consistent(Append(s, f), [d EXCEPT !.dot = @ + 1])
  <2>1. Saves(f, d)
    BY <1>5 DEF Saves
  <2> QED BY <2>1, <1>1, <1>2, <1>5, Entered
<1>6. ASSUME f.kind \in {"loop", "for"}
      PROVE  Consistent(Append(s, f), [d EXCEPT !.loop = @ + 1, !.tested = @ + Weight(f)])
  <2>1. Saves(f, d)
    BY <1>6 DEF Saves
  <2> QED BY <2>1, <1>1, <1>2, <1>6, Entered
<1>7. ASSUME f.kind = "function" /\ f.loop = d.loop
      PROVE  Consistent(Append(s, f), [d EXCEPT !.function = @ + 1, !.loop = 0])
  <2>1. Saves(f, d)
    BY <1>7 DEF Saves
  <2> QED BY <2>1, <1>1, <1>2, <1>7, Entered
<1>8. ASSUME f.kind = "subshell" /\ f.depth = d
      PROVE  Consistent(Append(s, f), [d EXCEPT !.subshell = @ + 1])
  <2>1. Saves(f, d)
    BY <1>8 DEF Saves
  <2> QED BY <2>1, <1>1, <1>2, <1>8, Entered
<1> QED BY <1>3, <1>4, <1>5, <1>6, <1>7, <1>8

\* A call that goes on as another of its kind: the tested contexts may change.
LEMMA Replaced ==
    ASSUME NEW s, NEW d, Consistent(s, d), s # <<>>, NEW g \in Frame,
           g.kind \in {"list", "if", "loop"}, s[Len(s)].kind = g.kind
    PROVE  Consistent(Append(SubSeq(s, 1, Len(s) - 1), g),
                      [d EXCEPT !.tested = @ - Weight(s[Len(s)]) + Weight(g)])
<1> DEFINE f == s[Len(s)]
           t == SubSeq(s, 1, Len(s) - 1)
           e == [d EXCEPT !.tested = @ - Weight(f) + Weight(g)]
<1>1. PICK c \in Depths : f \in Frame /\ d = Plus(c, f) /\ Consistent(t, c)
  BY Popped
<1>2. f.kind = g.kind
  OBVIOUS
<1> HIDE DEF f, t
<1>3. Weight(f) \in Nat /\ Weight(g) \in Nat
  BY <1>1, WeightOf
<1>4. Saves(g, c)
  BY DEF Saves
<1>5. Consistent(Append(t, g), Plus(c, g))
  BY <1>1, <1>4, Pushed
<1>6. /\ Plus(c, g) \in Depths
      /\ d \in Depths
  BY <1>1, <1>5, ConsistentTyped
<1>7. /\ Plus(c, g).loop = d.loop /\ Plus(c, g).function = d.function
      /\ Plus(c, g).dot = d.dot /\ Plus(c, g).subshell = d.subshell
  BY <1>1, <1>2 DEF Plus, IsLoop, IsFunction, IsDot, IsSubshell
<1>8. d.tested = c.tested + Weight(f) /\ Plus(c, g).tested = c.tested + Weight(g)
  BY <1>1 DEF Plus
<1>9. Plus(c, g).tested = d.tested - Weight(f) + Weight(g)
  <2>1. c.tested \in Nat
    BY DEF Depths
  <2> QED BY <2>1, <1>3, <1>8
<1>10. /\ e \in Depths
       /\ e.loop = d.loop /\ e.function = d.function /\ e.dot = d.dot
       /\ e.subshell = d.subshell /\ e.tested = Plus(c, g).tested
  <2>1. Plus(c, g).tested \in Nat
    BY <1>6 DEF Depths
  <2> QED BY <2>1, <1>6, <1>9 DEF Depths
<1> HIDE DEF e
<1>11. Plus(c, g) = e
  BY <1>6, <1>7, <1>10, SameCounters
<1> QED BY <1>5, <1>11 DEF e, f, t

\* The calls that count for nothing leave the counters when they end.
LEMMA LeftUncounted ==
    ASSUME NEW s, NEW d, Consistent(s, d), s # <<>>, Uncounted(s[Len(s)])
    PROVE  Consistent(SubSeq(s, 1, Len(s) - 1), d)
<1>1. PICK c \in Depths : /\ s[Len(s)] \in Frame
                          /\ d = Plus(c, s[Len(s)])
                          /\ Consistent(SubSeq(s, 1, Len(s) - 1), c)
  BY Popped
<1>2. d = c
  BY <1>1, UncountedPlus
<1> QED BY <1>1, <1>2

LEMMA FrameOf ==
    /\ \A p \in Pipelines : Chain(p) \in Frame /\ Chain(p).kind = "list"
    /\ List \in Frame /\ List.kind = "list" /\ Uncounted(List)
    /\ \A r \in Roles \union {"eval", "dot"} :
           Text(r) \in Frame /\ Text(r).kind = "text" /\ Text(r).role = r
    /\ \A b \in BOOLEAN :
           /\ If(b) \in Frame /\ If(b).kind = "if" /\ Weight(If(b)) = IF b THEN 1 ELSE 0
           /\ Loop(b) \in Frame /\ Loop(b).kind = "loop"
           /\ Weight(Loop(b)) = IF b THEN 1 ELSE 0
    /\ For \in Frame /\ For.kind = "for" /\ Weight(For) = 0
    /\ Words \in Frame /\ Uncounted(Words)
    /\ Stages \in Frame /\ Uncounted(Stages)
    /\ Weight(List) = 0
<1>1. \A p \in Pipelines : Chain(p) \in Frame /\ Chain(p).kind = "list"
  BY DEF Chain, Frame
<1>2. List \in Frame /\ List.kind = "list" /\ Uncounted(List) /\ Weight(List) = 0
  BY <1>1 DEF List, Chain, Pipelines, Uncounted, Weight, Tested
<1>3. \A r \in Roles \union {"eval", "dot"} :
         Text(r) \in Frame /\ Text(r).kind = "text" /\ Text(r).role = r
  BY DEF Text, Frame
<1>4. \A b \in BOOLEAN :
         If(b) \in Frame /\ If(b).kind = "if" /\ Weight(If(b)) = IF b THEN 1 ELSE 0
  BY DEF If, Frame, Weight, Tested
<1>5. \A b \in BOOLEAN :
         Loop(b) \in Frame /\ Loop(b).kind = "loop" /\ Weight(Loop(b)) = IF b THEN 1 ELSE 0
  BY DEF Loop, Frame, Weight, Tested
<1>6. For \in Frame /\ For.kind = "for"
  BY DEF For, Frame
<1>7. Weight(For) = 0
  BY <1>6, WeightOf
<1>8. Words \in Frame /\ Uncounted(Words) /\ Stages \in Frame /\ Uncounted(Stages)
  BY DEF Words, Stages, Frame, Uncounted
<1> QED BY <1>1, <1>2, <1>3, <1>4, <1>5, <1>6, <1>7, <1>8

-----------------------------------------------------------------------------
(* What the shell does next.                                               *)

\* What needs neither a list nor a loop, a function, a dot script or a subshell.
Plain(d) ==
    \/ d.to \in {"next", "prompt", "read", "command", "simple", "wait", "return", "ended",
                 "escaped"}
    \/ d \in {Throw("exit"), Throw("stopped"), Throw("error")}

LEMMA PlainOf ==
    /\ \A s : Plain(NextCommand(s)) /\ Plain(Return(s)) /\ Plain(Wait(s))
    /\ Plain(Prompt) /\ Plain(Read)
    /\ Plain(Command) /\ Plain(Simple) /\ Plain(Ended) /\ Plain(Escaped)
    /\ Plain(Throw("exit")) /\ Plain(Throw("stopped")) /\ Plain(Throw("error"))
  BY DEF Plain, NextCommand, Prompt, Read, Return, Wait, Command, Simple, Ended, Escaped

LEMMA PlainKeeps ==
    ASSUME Plain(doing')
    PROVE  DoingInv'
<1>1. CASE doing'.to \in {"next", "prompt", "read", "command", "simple", "wait", "return",
                         "ended", "escaped"}
  BY <1>1 DEF DoingInv
<1>2. CASE doing' \in {Throw("exit"), Throw("stopped"), Throw("error")}
  BY <1>2 DEF DoingInv, Throw, LoopControls
<1> QED BY <1>1, <1>2 DEF Plain

LEMMA WriteIsPlain ==
    ASSUME NEW d, Plain(d), Write(d)
    PROVE  Plain(doing')
  BY PlainOf DEF Write

\* In a list.
LEMMA ListKeeps ==
    ASSUME doing'.to \in {"item", "done", "background"}, stack' # <<>>, Top' = List
    PROVE  DoingInv'
  BY DEF DoingInv

LEMMA TopOf ==
    ASSUME NEW s \in Seq(Frame), NEW f \in Frame
    PROVE  /\ Append(s, f) # <<>>
           /\ Append(s, f)[Len(Append(s, f))] = f
           /\ Append(s, f) \in Seq(Frame)
  OBVIOUS

\* A step that leaves the calls as they are.
LEMMA Stays ==
    ASSUME ControlInv, UNCHANGED <<stack, depth>>, options' \in Options, DoingInv'
    PROVE  ControlInv'
  BY DEF ControlInv

LEMMA Steps ==
    ASSUME Consistent(stack', depth'), options' \in Options, DoingInv'
    PROVE  ControlInv'
  BY DEF ControlInv

\* A call of a list, and the shell in it.
LEMMA ListEntered ==
    ASSUME NEW s, NEW d, Consistent(s, d), stack' = Append(s, List), depth' = d, doing' = Item
    PROVE  Consistent(stack', depth') /\ DoingInv'
<1>1. s \in Seq(Frame)
  BY ConsistentTyped
<1>2. Consistent(Append(s, List), d)
  BY Enters, FrameOf
<1>3. stack' # <<>> /\ Top' = List
  BY <1>1, TopOf, FrameOf DEF Top
<1>4. DoingInv'
  BY <1>3, ListKeeps DEF Item
<1> QED BY <1>2, <1>4

LEMMA StateTyped ==
    ASSUME ControlInv
    PROVE  /\ Consistent(stack, depth) /\ options \in Options /\ DoingInv
           /\ stack \in Seq(Frame) /\ Len(stack) \in Nat /\ depth \in Depths
           /\ depth.loop \in Nat /\ depth.function \in Nat /\ depth.dot \in Nat
           /\ depth.subshell \in Nat /\ depth.tested \in Nat
           /\ stack # <<>> =>
                 /\ Top \in Frame
                 /\ Uncounted(Top) => Consistent(Under, depth)
                 /\ Top.kind \in {"list", "if", "words", "stages"} =>
                        Consistent(Under, [depth EXCEPT !.tested = @ - Weight(Top)])
                 /\ Top.kind = "text" /\ Top.role = "dot" =>
                        Consistent(Under, [depth EXCEPT !.dot = @ - 1])
                 /\ Top.kind \in {"loop", "for"} =>
                        Consistent(Under, [depth EXCEPT !.loop = @ - 1,
                                                        !.tested = @ - Weight(Top)])
                 /\ Top.kind = "function" =>
                        /\ Consistent(Under, [depth EXCEPT !.function = @ - 1,
                                                           !.loop = Top.loop])
                        /\ depth.loop = 0
                 /\ Top.kind = "subshell" =>
                        Consistent(Under, Top.depth) /\ Top.options \in Options
<1>1. Consistent(stack, depth) /\ options \in Options /\ DoingInv
  BY DEF ControlInv
<1>2. ASSUME stack # <<>>, Uncounted(Top) PROVE Consistent(Under, depth)
  BY <1>1, <1>2, LeftUncounted DEF Top, Under
<1>3. stack # <<>> =>
         /\ Top \in Frame
         /\ Top.kind \in {"list", "if", "words", "stages"} =>
                Consistent(Under, [depth EXCEPT !.tested = @ - Weight(Top)])
         /\ Top.kind = "text" /\ Top.role = "dot" =>
                Consistent(Under, [depth EXCEPT !.dot = @ - 1])
         /\ Top.kind \in {"loop", "for"} =>
                Consistent(Under, [depth EXCEPT !.loop = @ - 1, !.tested = @ - Weight(Top)])
         /\ Top.kind = "function" =>
                /\ Consistent(Under, [depth EXCEPT !.function = @ - 1, !.loop = Top.loop])
                /\ depth.loop = 0
         /\ Top.kind = "subshell" =>
                Consistent(Under, Top.depth) /\ Top.options \in Options
  BY <1>1, Left DEF Top, Under
<1>4. /\ stack \in Seq(Frame) /\ Len(stack) \in Nat /\ depth \in Depths
      /\ depth.loop \in Nat /\ depth.function \in Nat /\ depth.dot \in Nat
      /\ depth.subshell \in Nat /\ depth.tested \in Nat
  BY <1>1, ConsistentTyped
<1> QED BY <1>1, <1>2, <1>3, <1>4

LEMMA TextSteps ==
    ASSUME ControlInv, TextStep
    PROVE  ControlInv'
<1>1. CASE ParsedCommand \/ CommandTyped
  <2>1. stack' = Append(stack, List) /\ doing' = Item /\ UNCHANGED <<depth, options>>
    BY <1>1, StateTyped, TwoCalls, FrameOf DEF ParsedCommand, CommandTyped, Call
  <2>2. Consistent(stack', depth') /\ DoingInv'
    BY <2>1, StateTyped, ListEntered
  <2> QED BY <2>1, <2>2, StateTyped, Steps
<1>2. CASE EndOfText
  <2>1. TopIs("text") /\ stack # <<>> /\ Top.kind = "text" /\ UNCHANGED options
    BY <1>2 DEF EndOfText, InText, TopIs
  <2>2. Plain(doing')
    BY <1>2, PlainOf DEF EndOfText
  <2>3. DoingInv'
    BY <2>2, PlainKeeps
  <2>4. CASE Top.role = "dot"
    <3>1. stack' = Under /\ depth' = [depth EXCEPT !.dot = @ - 1]
      BY <1>2, <2>4 DEF EndOfText, Roles
    <3>2. Consistent(stack', depth')
      BY <2>1, <2>4, <3>1, StateTyped
    <3> QED BY <2>1, <2>3, <3>2, StateTyped, Steps
  <2>5. CASE Top.role # "dot"
    <3>1. depth' = depth
      BY <1>2, <2>5, StateTyped DEF EndOfText, Depths
    <3>2. stack' = stack \/ stack' = Under
      BY <1>2 DEF EndOfText
    <3>3. Uncounted(Top)
      BY <2>1, <2>5 DEF Uncounted
    <3>4. Consistent(stack', depth')
      BY <2>1, <3>1, <3>2, <3>3, StateTyped
    <3> QED BY <2>1, <2>3, <3>4, StateTyped, Steps
  <2> QED BY <2>4, <2>5
<1>3. CASE SyntaxError
  <2>1. Plain(doing') /\ UNCHANGED <<stack, depth, options>>
    BY <1>3, PlainOf, WriteIsPlain DEF SyntaxError
  <2> QED BY <2>1, PlainKeeps, StateTyped, Stays
<1>4. CASE WritePrompt \/ NothingToRun \/ EndOfInput \/ InputInterrupted
  <2>1. Plain(doing') /\ UNCHANGED <<stack, depth, options>>
    BY <1>4, PlainOf, WriteIsPlain DEF WritePrompt, NothingToRun, EndOfInput, InputInterrupted
  <2> QED BY <2>1, PlainKeeps, StateTyped, Stays
<1>5. CASE TextGoesOn
  <2>1. Plain(doing') /\ UNCHANGED <<stack, depth, options>>
    BY <1>5, PlainOf DEF TextGoesOn
  <2> QED BY <2>1, PlainKeeps, StateTyped, Stays
<1> QED BY <1>1, <1>2, <1>3, <1>4, <1>5 DEF TextStep

LEMMA PipelineRuns ==
    ASSUME ControlInv, RunPipeline, TopIs("list"), UNCHANGED options
    PROVE  ControlInv'
<1>1. stack # <<>> /\ Top.kind = "list"
  BY DEF TopIs
<1>2. PICK p \in Pipelines :
         /\ stack' = Append(Under, Chain(p))
         /\ depth' = [depth EXCEPT !.tested = @ - Weight(Top) + Weight(Chain(p))]
         /\ doing' = Command
  BY DEF RunPipeline
<1>3. Consistent(stack', depth')
  <2>1. Chain(p) \in Frame /\ Chain(p).kind = "list"
    BY FrameOf
  <2> HIDE DEF Chain
  <2>2. Consistent(Append(Under, Chain(p)),
                   [depth EXCEPT !.tested = @ - Weight(Top) + Weight(Chain(p))])
    BY <1>1, <2>1, StateTyped, Replaced DEF Top, Under
  <2> QED BY <1>2, <2>2
<1>4. DoingInv'
  BY <1>2, PlainOf, PlainKeeps
<1> QED BY <1>3, <1>4, StateTyped, Steps

LEMMA ListSteps ==
    ASSUME ControlInv, ListStep
    PROVE  ControlInv'
<1> USE StateTyped
<1>1. doing.to \in {"item", "done", "background"} => stack # <<>> /\ Top = List
  BY DEF DoingInv
<1>2. ASSUME doing.to \in {"item", "done", "background"},
             UNCHANGED <<stack, depth, options>>,
             doing'.to \in {"item", "done", "background"} \/ Plain(doing')
      PROVE  ControlInv'
  <2>1. CASE Plain(doing')
    BY <1>2, <2>1, PlainKeeps, Stays
  <2>2. CASE doing'.to \in {"item", "done", "background"}
    <3>1. stack' # <<>> /\ Top' = List
      BY <1>1, <1>2 DEF Top
    <3>2. DoingInv'
      BY <2>2, <3>1, ListKeeps
    <3> QED BY <1>2, <3>2, Stays
  <2> QED BY <1>2, <2>1, <2>2
<1>3. CASE SkipItem
  BY <1>2, <1>3 DEF SkipItem, ItemDone
<1>4. CASE StartChain
  <2>1. TopIs("list")
    BY <1>1, <1>4, FrameOf DEF StartChain, TopIs
  <2> QED BY <1>4, <2>1, PipelineRuns DEF StartChain
<1>5. CASE StartBackgroundPipeline
  BY <1>2, <1>5, PlainOf DEF StartBackgroundPipeline, ItemDone
<1>6. CASE StartBackgroundShell
  BY <1>2, <1>6 DEF StartBackgroundShell, Background
<1>7. CASE BackgroundStarted
  BY <1>2, <1>7, PlainOf DEF BackgroundStarted, Write, ItemDone
<1>8. CASE ChainEnds
  <2>1. stack # <<>> /\ Top.kind = "list" /\ UNCHANGED options
    BY <1>8 DEF ChainEnds, TopIs
  <2>2. stack' = Append(Under, List) /\ depth' = [depth EXCEPT !.tested = @ - Weight(Top)]
    BY <1>8 DEF ChainEnds
  <2>3. Consistent(stack', depth')
    <3>1. Consistent(Append(Under, List),
                     [depth EXCEPT !.tested = @ - Weight(Top) + Weight(List)])
      BY <2>1, FrameOf, Replaced DEF Top, Under
    <3>2. Weight(Top) \in Nat /\ Weight(List) = 0
      BY <2>1, WeightOf, FrameOf
    <3>3. depth.tested - Weight(Top) + Weight(List) = depth.tested - Weight(Top)
      BY <3>2
    <3> QED BY <2>2, <3>1, <3>3
  <2>4. DoingInv'
    <3>1. CASE doing' = Throw("exit")
      BY <3>1, PlainOf, PlainKeeps
    <3>2. CASE doing'.to = "done"
      <4>1. Under \in Seq(Frame)
        BY <2>1, Left DEF Under
      <4>2. stack' # <<>> /\ Top' = List
        BY <2>2, <4>1, TopOf, FrameOf DEF Top
      <4> QED BY <3>2, <4>2, ListKeeps
    <3>3. doing' = Throw("exit") \/ doing'.to = "done"
      BY <1>8 DEF ChainEnds, ItemDone
    <3> QED BY <3>1, <3>2, <3>3
  <2> QED BY <2>1, <2>3, <2>4, Steps
<1>9. CASE ChainGoesOn
  BY <1>9, PipelineRuns DEF ChainGoesOn
<1>10. CASE ListGoesOn
  BY <1>2, <1>10 DEF ListGoesOn, Item
<1>11. CASE ListEnds
  <2>1. stack # <<>> /\ Top = List
    BY <1>1, <1>11 DEF ListEnds
  <2>2. Consistent(stack', depth')
    BY <1>11, <2>1, FrameOf DEF ListEnds
  <2>3. DoingInv'
    BY <1>11, PlainOf, PlainKeeps DEF ListEnds
  <2> QED BY <1>11, <2>2, <2>3, Steps DEF ListEnds
<1> QED BY <1>3, <1>4, <1>5, <1>6, <1>7, <1>8, <1>9, <1>10, <1>11 DEF ListStep

LEMMA SubshellEntered ==
    ASSUME ControlInv, NEW b, Consistent(b, depth), UNCHANGED options,
           EnterSubshell(b, <<List>>, Item) \/ EnterSubshell(b, <<>>, Command)
    PROVE  ControlInv'
<1>1. b \in Seq(Frame) /\ options \in Options /\ depth \in Depths
  BY StateTyped, ConsistentTyped
<1>2. Subshell \in Frame /\ Subshell.kind = "subshell" /\ Subshell.depth = depth
  BY <1>1 DEF Subshell, Frame
<1> DEFINE s == Append(b, Subshell)
           d == [depth EXCEPT !.subshell = @ + 1]
<1>3. Consistent(s, d)
  BY <1>2, Enters
<1>4. s \in Seq(Frame)
  BY <1>3, ConsistentTyped
<1>5. depth' = d
  BY DEF EnterSubshell
<1>6. CASE EnterSubshell(b, <<List>>, Item)
  <2>1. stack' = s \o <<List>> /\ doing' = Item
    BY <1>6 DEF EnterSubshell
  <2> HIDE DEF s, d
  <2>2. s \o <<List>> = Append(s, List)
    BY <1>4, TwoCalls, FrameOf
  <2>3. Consistent(stack', depth') /\ DoingInv'
    BY <1>3, <1>5, <2>1, <2>2, ListEntered
  <2> QED BY <1>1, <2>3, Steps
<1>7. CASE EnterSubshell(b, <<>>, Command)
  <2>1. stack' = s \o <<>> /\ doing' = Command
    BY <1>7 DEF EnterSubshell
  <2> HIDE DEF s, d
  <2>2. s \o <<>> = s
    BY <1>4, TwoCalls, FrameOf
  <2>3. Consistent(stack', depth')
    BY <1>3, <1>5, <2>1, <2>2
  <2>4. DoingInv'
    BY <2>1, PlainOf, PlainKeeps
  <2> QED BY <1>1, <2>3, <2>4, Steps
<1> QED BY <1>6, <1>7

LEMMA CommandSteps ==
    ASSUME ControlInv, CommandStep
    PROVE  ControlInv'
<1> USE StateTyped
<1>1. CASE StopSeen
  BY <1>1, PlainOf, PlainKeeps, Stays DEF StopSeen
<1>2. CASE LeafCommand
  <2>1. Plain(doing') /\ UNCHANGED <<stack, depth, options>>
    BY <1>2, PlainOf, WriteIsPlain DEF LeafCommand
  <2> QED BY <2>1, PlainKeeps, Stays
<1>3. CASE Group
  <2>1. stack' = Append(stack, List) /\ doing' = Item /\ UNCHANGED <<depth, options>>
    BY <1>3, TwoCalls, FrameOf DEF Group, Call
  <2>2. Consistent(stack', depth') /\ DoingInv'
    BY <2>1, ListEntered
  <2> QED BY <2>1, <2>2, Steps
<1>4. CASE IfCommand
  <2> DEFINE f == If(TRUE)
             d == [depth EXCEPT !.tested = @ + Weight(f)]
  <2>1. f \in Frame /\ f.kind = "if"
    BY FrameOf
  <2>2. stack' = stack \o <<f, List>> /\ doing' = Item /\ depth' = d /\ UNCHANGED options
    BY <1>4 DEF IfCommand, Call, TestedIn
  <2> HIDE DEF f
  <2>3. Consistent(Append(stack, f), d)
    BY <2>1, Enters
  <2>4. stack' = Append(Append(stack, f), List)
    BY <2>1, <2>2, TwoCalls, FrameOf
  <2> HIDE DEF d
  <2>5. Consistent(stack', depth') /\ DoingInv'
    BY <2>2, <2>3, <2>4, ListEntered
  <2> QED BY <2>2, <2>5, Steps
<1>5. CASE LoopCommand
  <2> DEFINE f == Loop(TRUE)
             d == [depth EXCEPT !.loop = @ + 1, !.tested = @ + Weight(f)]
  <2>1. f \in Frame /\ f.kind = "loop" /\ Weight(f) \in Nat
    <3>1. f \in Frame /\ f.kind = "loop"
      BY FrameOf
    <3> HIDE DEF f
    <3>2. Weight(f) \in {0, 1}
      BY <3>1, WeightOf
    <3> QED BY <3>1, <3>2
  <2>2. /\ stack' = stack \o <<f, List>> /\ doing' = Item /\ UNCHANGED options
        /\ depth' = [[depth EXCEPT !.tested = @ + Weight(f)] EXCEPT !.loop = @ + 1]
    BY <1>5 DEF LoopCommand, Call, TestedIn
  <2> HIDE DEF f
  <2>3. Consistent(Append(stack, f), d)
    BY <2>1, Enters
  <2>4. stack' = Append(Append(stack, f), List)
    BY <2>1, <2>2, TwoCalls, FrameOf
  <2>5. depth' = d
    <3>1. PICK x \in Nat, y \in Nat : x = depth.loop + 1 /\ y = depth.tested + Weight(f)
      BY <2>1
    <3>2. depth' = [[depth EXCEPT !.tested = y] EXCEPT !.loop = x]
      BY <2>2, <3>1 DEF Depths
    <3>3. d = [depth EXCEPT !.loop = x, !.tested = y]
      BY <3>1
    <3> HIDE DEF d
    <3>4. /\ d \in Depths
          /\ d.loop = x /\ d.function = depth.function /\ d.dot = depth.dot
          /\ d.subshell = depth.subshell /\ d.tested = y
      BY <3>3 DEF Depths
    <3>5. /\ depth' \in Depths
          /\ depth'.loop = x /\ depth'.function = depth.function /\ depth'.dot = depth.dot
          /\ depth'.subshell = depth.subshell /\ depth'.tested = y
      BY <3>2 DEF Depths
    <3> QED BY <3>4, <3>5, SameCounters
  <2> HIDE DEF d
  <2>6. Consistent(stack', depth') /\ DoingInv'
    BY <2>2, <2>3, <2>4, <2>5, ListEntered
  <2> QED BY <2>2, <2>6, Steps
<1>6. CASE ForCommand
  <2> DEFINE d == [depth EXCEPT !.loop = @ + 1]
  <2>1. For \in Frame /\ For.kind = "for" /\ Weight(For) = 0
    BY FrameOf
  <2>2. stack' = stack \o <<For, List>> /\ doing' = Item /\ depth' = d /\ UNCHANGED options
    BY <1>6 DEF ForCommand, Call
  <2>3. Consistent(Append(stack, For), d)
    <3>1. Consistent(Append(stack, For), [depth EXCEPT !.loop = @ + 1, !.tested = @ + Weight(For)])
      BY <2>1, Enters
    <3>2. PICK x \in Nat, y \in Nat : /\ x = depth.loop + 1
                                    /\ y = depth.tested + Weight(For) /\ y = depth.tested
      BY <2>1
    <3> DEFINE e == [depth EXCEPT !.loop = x, !.tested = y]
    <3>3. d = [depth EXCEPT !.loop = x]
      BY <3>2
    <3>4. /\ e \in Depths
          /\ e.loop = x /\ e.function = depth.function /\ e.dot = depth.dot
          /\ e.subshell = depth.subshell /\ e.tested = depth.tested
      BY <3>2 DEF Depths
    <3>5. /\ d \in Depths
          /\ d.loop = x /\ d.function = depth.function /\ d.dot = depth.dot
          /\ d.subshell = depth.subshell /\ d.tested = depth.tested
      BY <3>2, <3>3 DEF Depths
    <3> HIDE DEF d, e
    <3>6. d = e
      BY <3>4, <3>5, SameCounters
    <3>7. e = [depth EXCEPT !.loop = @ + 1, !.tested = @ + Weight(For)]
      BY <3>2 DEF e
    <3> QED BY <3>1, <3>6, <3>7
  <2>4. stack' = Append(Append(stack, For), List)
    BY <2>1, <2>2, TwoCalls, FrameOf
  <2> HIDE DEF d
  <2>5. Consistent(stack', depth') /\ DoingInv'
    BY <2>2, <2>3, <2>4, ListEntered
  <2> QED BY <2>2, <2>5, Steps
<1>7. CASE SubshellCommand
  BY <1>7, SubshellEntered DEF SubshellCommand
<1>8. CASE FirstStage
  <2>1. Consistent(Append(stack, Stages), depth)
    BY FrameOf, Enters
  <2> QED BY <1>8, <2>1, SubshellEntered DEF FirstStage
<1>9. CASE NextStage
  BY <1>9, SubshellEntered DEF NextStage
<1>10. CASE StagesEnd
  <2>1. stack # <<>> /\ Uncounted(Top)
    BY <1>10 DEF StagesEnd, TopIs, Uncounted
  <2>2. Consistent(stack', depth')
    BY <1>10, <2>1 DEF StagesEnd
  <2>3. Plain(doing')
    BY <1>10, PlainOf DEF StagesEnd, Plain
  <2> QED BY <1>10, <2>2, <2>3, PlainKeeps, Steps DEF StagesEnd
<1>11. CASE ExpandWords
  <2>1. CASE doing' = Simple /\ UNCHANGED <<stack, depth>>
    BY <1>11, <2>1, PlainOf, PlainKeeps, Stays DEF ExpandWords
  <2>2. CASE EnterSubshell(Append(stack, Words), <<List>>, Item)
    <3>1. Consistent(Append(stack, Words), depth)
      BY FrameOf, Enters
    <3> QED BY <1>11, <2>2, <3>1, SubshellEntered DEF ExpandWords
  <2> QED BY <1>11, <2>1, <2>2 DEF ExpandWords
<1>12. CASE NextSubstitution
  BY <1>12, SubshellEntered DEF NextSubstitution
<1>13. CASE WordsEnd
  <2>1. stack # <<>> /\ Uncounted(Top)
    BY <1>13 DEF WordsEnd, TopIs, Uncounted
  <2>2. Consistent(stack', depth')
    BY <1>13, <2>1 DEF WordsEnd
  <2>3. Plain(doing')
    BY <1>13, PlainOf DEF WordsEnd
  <2> QED BY <1>13, <2>2, <2>3, PlainKeeps, Steps DEF WordsEnd
<1> QED BY <1>1, <1>2, <1>3, <1>4, <1>5, <1>6, <1>7, <1>8, <1>9, <1>10, <1>11, <1>12, <1>13
        DEF CommandStep

LEMMA SimpleSteps ==
    ASSUME ControlInv, SimpleStep
    PROVE  ControlInv'
<1> USE StateTyped
<1>1. CASE PlainCommand
  <2>1. Plain(doing') /\ UNCHANGED <<stack, depth, options>>
    BY <1>1, PlainOf, WriteIsPlain DEF PlainCommand
  <2> QED BY <2>1, PlainKeeps, Stays
<1>2. CASE FatalError
  BY <1>2, PlainOf, PlainKeeps, Stays DEF FatalError
<1>3. CASE SetBuiltin
  BY <1>3, PlainOf, PlainKeeps, Stays DEF SetBuiltin
<1>4. CASE ExitBuiltin
  BY <1>4, PlainOf, PlainKeeps, Stays DEF ExitBuiltin
<1>5. CASE BreakContinue
  <2>1. CASE depth.loop = 0
    BY <1>5, <2>1, PlainOf, PlainKeeps, Stays DEF BreakContinue
  <2>2. CASE depth.loop # 0
    <3>1. PICK n \in 1..MaxLevels, isBreak \in BOOLEAN :
             doing' = LoopControl(IF n < depth.loop THEN n ELSE depth.loop, isBreak)
      BY <1>5, <2>2 DEF BreakContinue
    <3>2. PICK k : k = IF n < depth.loop THEN n ELSE depth.loop
      OBVIOUS
    <3>3. k \in 1..depth.loop
      BY <2>2, <3>2
    <3>4. /\ doing' = [to |-> "throw", what |-> IF isBreak THEN "break" ELSE "continue",
                      levels |-> k]
          /\ UNCHANGED <<stack, depth, options>>
      BY <1>5, <3>1, <3>2 DEF BreakContinue, LoopControl
    <3>5. DoingInv'
      BY <3>3, <3>4 DEF DoingInv, LoopControls
    <3> QED BY <3>4, <3>5, Stays
  <2> QED BY <2>1, <2>2
<1>6. CASE ReturnBuiltin
  <2>1. UNCHANGED <<stack, depth, options>>
    BY <1>6 DEF ReturnBuiltin
  <2>2. CASE depth.function > 0 \/ depth.dot > 0
    <3>1. doing' = [to |-> "throw", what |-> "return", levels |-> 0]
      BY <1>6, <2>2 DEF ReturnBuiltin, Throw
    <3>2. depth.function + depth.dot + depth.subshell > 0
      BY <2>2
    <3>3. DoingInv'
      BY <2>1, <3>1, <3>2 DEF DoingInv, LoopControls
    <3> QED BY <2>1, <3>3, Stays
  <2>3. CASE ~(depth.function > 0 \/ depth.dot > 0)
    <3>1. doing' = Throw("exit")
      BY <1>6, <2>3 DEF ReturnBuiltin
    <3> QED BY <2>1, <3>1, PlainOf, PlainKeeps, Stays
  <2> QED BY <2>2, <2>3
<1>7. CASE EvalBuiltin
  <2> DEFINE f == Text("eval")
  <2>1. f \in Frame /\ Uncounted(f)
    BY FrameOf DEF Uncounted
  <2>2. stack' = stack \o <<f>> /\ doing' = NextCommand(0) /\ UNCHANGED <<depth, options>>
    BY <1>7 DEF EvalBuiltin, Call
  <2> HIDE DEF f
  <2>3. stack' = Append(stack, f)
    BY <2>1, <2>2, TwoCalls
  <2>4. Consistent(Append(stack, f), depth)
    BY <2>1, Enters
  <2>5. Consistent(stack', depth')
    BY <2>2, <2>3, <2>4
  <2> QED BY <2>2, <2>5, PlainOf, PlainKeeps, Steps
<1>8. CASE DotBuiltin
  <2> DEFINE f == Text("dot")
  <2>1. f \in Frame /\ f.kind = "text" /\ f.role = "dot"
    BY FrameOf
  <2>2. /\ stack' = stack \o <<f>> /\ doing' = NextCommand(0) /\ UNCHANGED options
        /\ depth' = [depth EXCEPT !.dot = @ + 1]
    BY <1>8 DEF DotBuiltin, Call
  <2> HIDE DEF f
  <2>3. stack' = Append(stack, f)
    BY <2>1, <2>2, TwoCalls
  <2>4. Consistent(Append(stack, f), [depth EXCEPT !.dot = @ + 1])
    BY <2>1, Enters
  <2>5. Consistent(stack', depth')
    BY <2>2, <2>3, <2>4
  <2> QED BY <2>2, <2>5, PlainOf, PlainKeeps, Steps
<1>9. CASE CallFunction
  <2> DEFINE f == Function
  <2>1. f \in Frame /\ f.kind = "function" /\ f.loop = depth.loop
    BY DEF Function, Frame
  <2>2. /\ stack' = stack \o <<f>> /\ doing' = Command /\ UNCHANGED options
        /\ depth' = [depth EXCEPT !.function = @ + 1, !.loop = 0]
    BY <1>9 DEF CallFunction, Call
  <2> HIDE DEF f
  <2>3. stack' = Append(stack, f)
    BY <2>1, <2>2, TwoCalls
  <2>4. Consistent(Append(stack, f), [depth EXCEPT !.function = @ + 1, !.loop = 0])
    BY <2>1, Enters
  <2>5. Consistent(stack', depth')
    BY <2>2, <2>3, <2>4
  <2> QED BY <2>2, <2>5, PlainOf, PlainKeeps, Steps
<1>10. CASE StartChild
  BY <1>10, PlainOf, PlainKeeps, Stays DEF StartChild
<1>11. CASE WaitStopped
  BY <1>11, PlainOf, PlainKeeps, Stays DEF WaitStopped
<1> QED BY <1>1, <1>2, <1>3, <1>4, <1>5, <1>6, <1>7, <1>8, <1>9, <1>10, <1>11 DEF SimpleStep

\* A loop or an if goes on with another list.
LEMMA GoesOn ==
    ASSUME ControlInv, stack # <<>>, NEW g \in Frame, g.kind \in {"if", "loop"},
           Top.kind = g.kind, stack' = Under \o <<g, List>>, doing' = Item,
           depth' = [depth EXCEPT !.tested = @ - Weight(Top) + Weight(g)], UNCHANGED options
    PROVE  ControlInv'
<1> DEFINE s == Append(Under, g)
           d == [depth EXCEPT !.tested = @ - Weight(Top) + Weight(g)]
<1>1. Under \in Seq(Frame)
  BY StateTyped, Left DEF Under
<1>2. Consistent(s, d)
  BY StateTyped, Replaced DEF Top, Under
<1>3. stack' = Append(s, List)
  BY <1>1, TwoCalls, FrameOf
<1> HIDE DEF s, d
<1>4. depth' = d
  BY DEF d
<1>5. Consistent(stack', depth') /\ DoingInv'
  BY <1>2, <1>3, <1>4, ListEntered
<1> QED BY <1>5, StateTyped, Steps

LEMMA ReturnSteps ==
    ASSUME ControlInv, ReturnStep
    PROVE  ControlInv'
<1> USE StateTyped
<1>1. doing.to = "return" => Plain(doing)
  BY DEF Plain
<1>2. ASSUME doing' = doing, doing.to = "return" PROVE DoingInv'
  BY <1>1, <1>2, PlainKeeps
<1>3. CASE IfGoesOn
  <2>1. PICK testing \in BOOLEAN :
           /\ stack' = Under \o <<If(testing), List>>
           /\ doing' = Item
           /\ depth' = [depth EXCEPT !.tested = @ - 1 + Weight(If(testing))]
    BY <1>3 DEF IfGoesOn
  <2>2. stack # <<>> /\ Top.kind = "if" /\ Weight(Top) = 1 /\ UNCHANGED options
    BY <1>3 DEF IfGoesOn, TopIs, Weight, Tested
  <2>3. If(testing) \in Frame /\ If(testing).kind = "if"
    BY FrameOf
  <2> HIDE DEF If
  <2>4. depth' = [depth EXCEPT !.tested = @ - Weight(Top) + Weight(If(testing))]
    BY <2>1, <2>2
  <2> QED BY <2>1, <2>2, <2>3, <2>4, GoesOn
<1>4. CASE IfEnds
  <2>1. stack # <<>> /\ Top.kind = "if" /\ UNCHANGED options
    BY <1>4 DEF IfEnds, TopIs
  <2>2. Consistent(stack', depth')
    BY <1>4, <2>1 DEF IfEnds
  <2>3. Plain(doing')
    BY <1>1, <1>4, PlainOf DEF IfEnds
  <2> QED BY <2>1, <2>2, <2>3, PlainKeeps, Steps
<1>5. CASE LoopGoesOn
  <2>1. stack # <<>> /\ Top.kind = "loop" /\ Top \in Frame /\ UNCHANGED options
    BY <1>5 DEF LoopGoesOn, TopIs
  <2>2. Top.testing \in BOOLEAN
    BY <2>1 DEF Frame
  <2>3. CASE /\ stack' = Under \o <<Loop(~Top.testing), List>>
             /\ doing' = Item
             /\ depth' = [depth EXCEPT !.tested = @ - Weight(Top) + Weight(Loop(~Top.testing))]
    <3>1. PICK g : g = Loop(~Top.testing)
      OBVIOUS
    <3>2. g \in Frame /\ g.kind = "loop"
      BY <2>2, <3>1, FrameOf
    <3> QED BY <2>1, <2>3, <3>1, <3>2, GoesOn
  <2>4. CASE /\ Top.testing
             /\ stack' = Under
             /\ \E s \in Statuses : doing' = Return(s)
             /\ depth' = [depth EXCEPT !.tested = @ - 1, !.loop = @ - 1]
    <3>1. Weight(Top) = 1
      BY <2>1, <2>4 DEF Weight, Tested
    <3>2. Plain(doing')
      BY <2>4, PlainOf
    <3> DEFINE e == [depth EXCEPT !.loop = @ - 1, !.tested = @ - Weight(Top)]
    <3>3. Consistent(stack', e)
      BY <2>1, <2>4
    <3>4. depth' = e
      <4>1. /\ e \in Depths /\ e.loop \in Nat /\ e.tested \in Nat
        BY <3>3, ConsistentTyped
      <4>2. PICK x, y : x = depth.loop - 1 /\ y = depth.tested - Weight(Top)
        OBVIOUS
      <4>3. e = [depth EXCEPT !.loop = x, !.tested = y]
        BY <4>2
      <4>4. /\ e.loop = x /\ e.function = depth.function /\ e.dot = depth.dot
            /\ e.subshell = depth.subshell /\ e.tested = y
        <5> HIDE DEF e
        <5> QED BY <4>3 DEF Depths
      <4>5. x \in Nat /\ y \in Nat
        BY <4>1, <4>4
      <4>6. depth' = [depth EXCEPT !.tested = y, !.loop = x]
        BY <2>4, <3>1, <4>2
      <4>7. /\ depth' \in Depths
            /\ depth'.loop = x /\ depth'.function = depth.function /\ depth'.dot = depth.dot
            /\ depth'.subshell = depth.subshell /\ depth'.tested = y
        BY <4>5, <4>6 DEF Depths
      <4> HIDE DEF e
      <4> QED BY <4>1, <4>4, <4>7, SameCounters
    <3> HIDE DEF e
    <3>5. Consistent(stack', depth')
      BY <3>3, <3>4
    <3> QED BY <2>1, <3>2, <3>5, PlainKeeps, Steps
  <2> QED BY <1>5, <2>3, <2>4 DEF LoopGoesOn
<1>6. CASE ForGoesOn
  <2>1. CASE stack' = Append(stack, List) /\ doing' = Item /\ UNCHANGED depth
    <3>1. Consistent(stack', depth') /\ DoingInv'
      BY <2>1, ListEntered
    <3> QED BY <1>6, <3>1, Steps DEF ForGoesOn
  <2>2. CASE doing' = Throw("error") /\ UNCHANGED <<stack, depth>>
    BY <1>6, <2>2, PlainOf, PlainKeeps, Stays DEF ForGoesOn
  <2> QED BY <1>6, <2>1, <2>2 DEF ForGoesOn
<1>7. CASE ForEnds
  <2>1. /\ stack # <<>> /\ Top.kind = "for" /\ doing.to = "return"
        /\ stack' = Under /\ UNCHANGED <<doing, options>>
        /\ depth' = [depth EXCEPT !.loop = @ - 1]
    BY <1>7 DEF ForEnds, TopIs
  <2> DEFINE e == [depth EXCEPT !.loop = @ - 1, !.tested = @ - Weight(Top)]
  <2>2. Consistent(stack', e)
    BY <2>1
  <2>3. Weight(Top) = 0
    BY <2>1, WeightOf
  <2>4. depth' = e
    <3>1. e \in Depths /\ e.loop \in Nat
      BY <2>2, ConsistentTyped
    <3>2. PICK x, y : x = depth.loop - 1 /\ y = depth.tested - Weight(Top)
      OBVIOUS
    <3>3. e = [depth EXCEPT !.loop = x, !.tested = y] /\ y = depth.tested
      BY <2>3, <3>2
    <3>4. /\ e.loop = x /\ e.function = depth.function /\ e.dot = depth.dot
          /\ e.subshell = depth.subshell /\ e.tested = depth.tested
      <4> HIDE DEF e
      <4> QED BY <3>3 DEF Depths
    <3>5. x \in Nat /\ depth' = [depth EXCEPT !.loop = x]
      BY <2>1, <3>1, <3>2, <3>4
    <3>6. /\ depth' \in Depths
          /\ depth'.loop = x /\ depth'.function = depth.function /\ depth'.dot = depth.dot
          /\ depth'.subshell = depth.subshell /\ depth'.tested = depth.tested
      BY <3>5 DEF Depths
    <3> HIDE DEF e
    <3> QED BY <3>1, <3>4, <3>6, SameCounters
  <2> HIDE DEF e
  <2>5. Consistent(stack', depth')
    BY <2>2, <2>4
  <2> QED BY <1>2, <2>1, <2>5, Steps
<1>8. CASE FunctionReturns
  <2>1. /\ stack # <<>> /\ Top.kind = "function" /\ doing.to = "return"
        /\ LeaveFunction /\ UNCHANGED <<doing, options>>
    BY <1>8 DEF FunctionReturns, LeaveFunction, TopIs
  <2>2. Consistent(stack', depth')
    BY <2>1 DEF LeaveFunction
  <2> QED BY <1>2, <2>1, <2>2, Steps
<1>9. CASE SubshellReturns
  <2>1. /\ stack # <<>> /\ Top.kind = "subshell" /\ doing.to = "return"
        /\ LeaveSubshell /\ UNCHANGED doing
    BY <1>9 DEF SubshellReturns, TopIs
  <2>2. Consistent(stack', depth') /\ options' \in Options
    BY <2>1 DEF LeaveSubshell
  <2> QED BY <1>2, <2>1, <2>2, Steps
<1> QED BY <1>3, <1>4, <1>5, <1>6, <1>7, <1>8, <1>9 DEF ReturnStep

\* An exception on its way leaves a call that no break, continue or return is about.
LEMMA ThrownOn ==
    ASSUME ControlInv, doing.to = "throw", doing' = doing,
           doing.what \in LoopControls => depth'.loop = depth.loop,
           doing.what = "return" => /\ depth'.function = depth.function
                                    /\ depth'.dot = depth.dot
                                    /\ depth'.subshell = depth.subshell
    PROVE  DoingInv'
  BY StateTyped DEF DoingInv

\* A call of if, while, until or for ends, and its tested context with it.
LEMMA LoopLeft ==
    ASSUME ControlInv, stack # <<>>, Top.kind \in {"loop", "for"}, stack' = Under,
           depth' = [depth EXCEPT !.loop = @ - 1, !.tested = @ - Weight(Top)]
    PROVE  /\ Consistent(stack', depth')
           /\ depth'.loop = depth.loop - 1 /\ depth'.function = depth.function
           /\ depth'.dot = depth.dot /\ depth'.subshell = depth.subshell
<1>1. Consistent(stack', depth')
  BY StateTyped
<1>2. PICK x, y : x = depth.loop - 1 /\ y = depth.tested - Weight(Top)
  OBVIOUS
<1>3. depth' = [depth EXCEPT !.loop = x, !.tested = y] /\ depth \in Depths
  BY <1>2, StateTyped
<1>4. /\ depth'.loop = x /\ depth'.function = depth.function
      /\ depth'.dot = depth.dot /\ depth'.subshell = depth.subshell
  BY <1>3 DEF Depths
<1> QED BY <1>1, <1>2, <1>4

LEMMA ThrowSteps ==
    ASSUME ControlInv, ThrowStep
    PROVE  ControlInv'
<1> USE StateTyped
<1>1. CASE PassThrough
  <2>1. /\ stack # <<>> /\ doing.to = "throw" /\ stack' = Under
        /\ depth' = [depth EXCEPT !.tested = @ - Weight(Top)]
        /\ UNCHANGED <<doing, options>>
    BY <1>1 DEF PassThrough
  <2>2. Consistent(stack', depth')
    <3>1. CASE Top.kind \in {"list", "if", "words", "stages"}
      BY <2>1, <3>1
    <3>2. CASE Top.kind = "text" /\ Top.role = "eval"
      <4>1. Weight(Top) = 0
        BY <2>1, <3>2, WeightOf
      <4>2. depth' = depth
        BY <2>1, <4>1 DEF Depths
      <4>3. Uncounted(Top)
        BY <3>2 DEF Uncounted
      <4> QED BY <2>1, <4>2, <4>3
    <3> QED BY <1>1, <3>1, <3>2 DEF PassThrough
  <2>3. /\ depth'.loop = depth.loop /\ depth'.function = depth.function
        /\ depth'.dot = depth.dot /\ depth'.subshell = depth.subshell
    <3>1. PICK x : x = depth.tested - Weight(Top)
      OBVIOUS
    <3>2. depth' = [depth EXCEPT !.tested = x]
      BY <2>1, <3>1
    <3> QED BY <3>2 DEF Depths
  <2> QED BY <2>1, <2>2, <2>3, ThrownOn, Steps
<1>2. CASE LoopUnwinds
  <2>1. /\ stack # <<>> /\ Top.kind \in {"loop", "for"} /\ doing.to = "throw"
        /\ stack' = Under /\ UNCHANGED options
        /\ depth' = [depth EXCEPT !.loop = @ - 1, !.tested = @ - Weight(Top)]
        /\ doing.what \in LoopControls => doing.levels > 1
    BY <1>2 DEF LoopUnwinds, TopIs
  <2>2. /\ Consistent(stack', depth')
        /\ depth'.loop = depth.loop - 1 /\ depth'.function = depth.function
        /\ depth'.dot = depth.dot /\ depth'.subshell = depth.subshell
    BY <2>1, LoopLeft
  <2>3. DoingInv'
    <3>1. CASE doing.what \in LoopControls
      <4>1. doing' = [doing EXCEPT !.levels = @ - 1]
        BY <1>2, <3>1 DEF LoopUnwinds
      <4>2. /\ doing = [to |-> "throw", what |-> doing.what, levels |-> doing.levels]
            /\ doing.levels \in 2..depth.loop
        BY <2>1, <3>1 DEF DoingInv
      <4>3. doing' = [to |-> "throw", what |-> doing.what, levels |-> doing.levels - 1]
        BY <4>1, <4>2
      <4>4. doing'.levels \in 1..depth'.loop /\ doing'.what # "return" /\ doing'.to = "throw"
        BY <2>2, <3>1, <4>2, <4>3 DEF LoopControls
      <4>5. doing' = [to |-> "throw", what |-> doing'.what, levels |-> doing'.levels]
        BY <4>3
      <4> QED BY <4>4, <4>5 DEF DoingInv
    <3>2. CASE doing.what \notin LoopControls
      <4>1. doing' = doing
        BY <1>2, <3>2 DEF LoopUnwinds
      <4> QED BY <2>1, <2>2, <3>2, <4>1, ThrownOn
    <3> QED BY <3>1, <3>2
  <2> QED BY <2>1, <2>2, <2>3, Steps
<1>3. CASE LoopBreaks
  <2>1. /\ stack # <<>> /\ Top.kind \in {"loop", "for"}
        /\ stack' = Under /\ UNCHANGED options
        /\ depth' = [depth EXCEPT !.loop = @ - 1, !.tested = @ - Weight(Top)]
    BY <1>3 DEF LoopBreaks, TopIs
  <2>2. Consistent(stack', depth')
    BY <2>1, LoopLeft
  <2>3. Plain(doing')
    BY <1>3, PlainOf DEF LoopBreaks
  <2> QED BY <2>1, <2>2, <2>3, PlainKeeps, Steps
<1>4. CASE LoopContinues
  <2>1. UNCHANGED options
    BY <1>4 DEF LoopContinues
  <2>2. CASE /\ TopIs("loop")
             /\ stack' = Under \o <<Loop(TRUE), List>>
             /\ doing' = Item
             /\ depth' = [depth EXCEPT !.tested = @ - Weight(Top) + 1]
    <3>1. PICK g : g = Loop(TRUE)
      OBVIOUS
    <3>2. g \in Frame /\ g.kind = "loop" /\ Weight(g) = 1
      BY <3>1, FrameOf DEF Loop, Weight, Tested
    <3>3. stack # <<>> /\ Top.kind = "loop"
      BY <2>2 DEF TopIs
    <3>4. depth' = [depth EXCEPT !.tested = @ - Weight(Top) + Weight(g)]
      BY <2>2, <3>2
    <3> QED BY <2>1, <2>2, <3>1, <3>2, <3>3, <3>4, GoesOn
  <2>3. CASE doing' = Return(0) /\ UNCHANGED <<stack, depth>>
    BY <2>1, <2>3, PlainOf, PlainKeeps, Stays
  <2> QED BY <1>4, <2>2, <2>3 DEF LoopContinues
<1>5. CASE FunctionUnwinds
  <2>1. /\ stack # <<>> /\ Top.kind = "function" /\ doing.to = "throw"
        /\ LeaveFunction /\ UNCHANGED options
    BY <1>5 DEF FunctionUnwinds, LeaveFunction, TopIs
  <2>2. Consistent(stack', depth')
    BY <2>1 DEF LeaveFunction
  <2>3. DoingInv'
    <3>1. CASE doing.what = "return"
      <4>1. Plain(doing')
        BY <1>5, <3>1, PlainOf DEF FunctionUnwinds
      <4> QED BY <4>1, PlainKeeps
    <3>2. CASE doing.what # "return"
      <4>1. doing' = doing
        BY <1>5, <3>2 DEF FunctionUnwinds
      <4>2. depth.loop = 0
        BY <2>1
      <4>3. doing.what \notin LoopControls
        BY <2>1, <4>2 DEF DoingInv
      <4> QED BY <2>1, <3>2, <4>1, <4>3, ThrownOn
    <3> QED BY <3>1, <3>2
  <2> QED BY <2>1, <2>2, <2>3, Steps
<1>6. CASE DotUnwinds
  <2>1. /\ stack # <<>> /\ Top.kind = "text" /\ Top.role = "dot" /\ doing.to = "throw"
        /\ stack' = Under /\ depth' = [depth EXCEPT !.dot = @ - 1] /\ UNCHANGED options
    BY <1>6 DEF DotUnwinds, TopIs
  <2>2. Consistent(stack', depth')
    BY <2>1
  <2>3. DoingInv'
    <3>1. CASE doing.what = "return"
      <4>1. Plain(doing')
        BY <1>6, <3>1, PlainOf DEF DotUnwinds
      <4> QED BY <4>1, PlainKeeps
    <3>2. CASE doing.what # "return"
      <4>1. doing' = doing
        BY <1>6, <3>2 DEF DotUnwinds
      <4>2. depth'.loop = depth.loop
        BY <2>1 DEF Depths
      <4> QED BY <2>1, <3>2, <4>1, <4>2, ThrownOn
    <3> QED BY <3>1, <3>2
  <2> QED BY <2>1, <2>2, <2>3, Steps
<1>7. CASE SubshellUnwinds
  <2>1. /\ stack # <<>> /\ Top.kind = "subshell" /\ doing.to = "throw" /\ LeaveSubshell
    BY <1>7 DEF SubshellUnwinds, TopIs
  <2>2. Consistent(stack', depth') /\ options' \in Options
    BY <2>1 DEF LeaveSubshell
  <2>3. DoingInv'
    <3>1. CASE doing.what = "stopped"
      <4>1. doing' = doing
        BY <1>7, <3>1 DEF SubshellUnwinds, LoopControls
      <4> QED BY <2>1, <3>1, <4>1, ThrownOn DEF LoopControls
    <3>2. CASE doing.what = "error"
      <4>1. Plain(doing')
        BY <1>7, <3>2, PlainOf DEF SubshellUnwinds
      <4> QED BY <4>1, PlainKeeps
    <3>3. CASE doing.what \notin {"stopped", "error"}
      <4>1. Plain(doing')
        BY <1>7, <3>3, PlainOf DEF SubshellUnwinds
      <4> QED BY <4>1, PlainKeeps
    <3> QED BY <3>1, <3>2, <3>3
  <2> QED BY <2>2, <2>3, Steps
<1>8. CASE TopCatches
  <2>1. UNCHANGED <<stack, depth, options>>
    BY <1>8 DEF TopCatches
  <2>2. Plain(doing')
    <3>1. CASE doing.what \in {"exit", "stopped"}
      BY <1>8, <3>1, PlainOf DEF TopCatches
    <3>2. CASE doing.what = "error"
      <4>1. PICK d : /\ d = IF options.interactive THEN Return(1)
                            ELSE IF Top.role = "script" THEN Ended ELSE Escaped
                     /\ Write(d)
        BY <1>8, <3>2 DEF TopCatches
      <4>2. Plain(d)
        BY <4>1, PlainOf
      <4> QED BY <4>1, <4>2, WriteIsPlain
    <3>3. CASE doing.what \notin {"exit", "stopped", "error"}
      BY <1>8, <3>3, PlainOf DEF TopCatches
    <3> QED BY <3>1, <3>2, <3>3
  <2> QED BY <2>1, <2>2, PlainKeeps, Stays
<1> QED BY <1>1, <1>2, <1>3, <1>4, <1>5, <1>6, <1>7, <1>8 DEF ThrowStep

-----------------------------------------------------------------------------
(* The invariant of the shell.                                             *)

LEMMA ControlInitial == Init => ControlInv
<1> SUFFICES ASSUME Init PROVE ControlInv
  OBVIOUS
<1> DEFINE zero == [loop |-> 0, function |-> 0, dot |-> 0, subshell |-> 0, tested |-> 0]
<1>1. PICK role \in Roles : stack = <<Text(role)>>
  BY DEF Init
<1>2. options \in Options /\ depth = zero /\ doing \in {NextCommand(0), Prompt}
  BY DEF Init
<1> DEFINE f == Text(role)
<1>3. f \in Frame /\ Uncounted(f)
  BY FrameOf DEF Roles, Uncounted
<1>4. Consistent(<<>>, zero)
  <2>1. <<>> \in Seq(Frame) /\ Len(<<>>) = 0
    OBVIOUS
  <2> QED BY <2>1, CountsOfNone DEF Consistent
<1> HIDE DEF f, zero
<1>5. Consistent(Append(<<>>, f), zero)
  BY <1>3, <1>4, Enters
<1>6. stack = Append(<<>>, f)
  BY <1>1 DEF f
<1>7. Consistent(stack, depth)
  BY <1>2, <1>5, <1>6
<1>8. DoingInv
  BY <1>2 DEF DoingInv, NextCommand, Prompt
<1> QED BY <1>2, <1>7, <1>8 DEF ControlInv

LEMMA ControlNext == ControlInv /\ [Next]_vars => ControlInv'
<1> SUFFICES ASSUME ControlInv, [Next]_vars PROVE ControlInv'
  OBVIOUS
<1>1. CASE ShellStep
  BY <1>1, TextSteps, ListSteps, CommandSteps, SimpleSteps, ReturnSteps, ThrowSteps
     DEF ShellStep
<1>2. CASE ChildFinishes
  BY <1>2, StateTyped, PlainOf, PlainKeeps, Stays DEF ChildFinishes
<1>3. CASE RequestStop \/ UNCHANGED vars
  <2>1. UNCHANGED <<stack, doing, depth, options>>
    BY <1>3 DEF RequestStop, vars
  <2> QED BY <2>1 DEF ControlInv, DoingInv, Top
<1> QED BY <1>1, <1>2, <1>3 DEF Next

\* What the counters and the exception amount to.
LEMMA ControlImplies == ControlInv => ControlKeepsItsDepth
<1> SUFFICES ASSUME ControlInv PROVE ControlKeepsItsDepth
  OBVIOUS
<1> DEFINE n == Len(stack)
<1>1. n \in Nat /\ stack \in Seq(Frame) /\ depth = Counts(stack, n) /\ DOMAIN stack = 1..n
  BY StateTyped DEF Consistent
<1> HIDE DEF n
<1>2. /\ Frames(IsLoop) = {i \in 1..n : IsLoop(stack[i])}
      /\ Frames(IsFunction) = {i \in 1..n : IsFunction(stack[i])}
      /\ Frames(IsDot) = {i \in 1..n : IsDot(stack[i])}
      /\ Frames(IsSubshell) = {i \in 1..n : IsSubshell(stack[i])}
      /\ Frames(Tested) = {i \in 1..n : Tested(stack[i])}
  BY <1>1 DEF Frames
<1>3. /\ Frames(IsFunction) = FunctionsIn(stack, n)
      /\ Frames(IsDot) = DotsIn(stack, n)
      /\ Frames(IsSubshell) = SubshellsIn(stack, n)
      /\ Frames(Tested) = TestsIn(stack, n)
  BY <1>2 DEF FunctionsIn, DotsIn, SubshellsIn, TestsIn
<1>4. VisibleLoops = LoopsIn(stack, n)
  BY <1>2 DEF VisibleLoops, LoopsIn
<1>5. DepthsMatchCalls
  BY <1>1, <1>3, <1>4 DEF DepthsMatchCalls, Counts
<1>6. ControlIsCaught
  <2> SUFFICES ASSUME doing.to = "throw"
               PROVE  /\ doing.what \in LoopControls =>
                            /\ doing.levels <= Cardinality(VisibleLoops)
                            /\ doing.levels >= 1
                      /\ doing.what = "return" =>
                            Frames(IsFunction) \union Frames(IsDot)
                               \union Frames(IsSubshell) # {}
    BY DEF ControlIsCaught
  <2>1. ASSUME doing.what \in LoopControls
        PROVE  doing.levels <= Cardinality(VisibleLoops) /\ doing.levels >= 1
    <3>1. doing.levels \in 1..depth.loop /\ depth.loop \in Nat
      BY <2>1, StateTyped DEF DoingInv
    <3>2. depth.loop = Cardinality(VisibleLoops)
      BY <1>5 DEF DepthsMatchCalls
    <3> QED BY <3>1, <3>2
  <2>2. ASSUME doing.what = "return",
               Frames(IsFunction) \union Frames(IsDot) \union Frames(IsSubshell) = {}
        PROVE  FALSE
    <3>1. depth.function + depth.dot + depth.subshell > 0
      BY <2>2, StateTyped DEF DoingInv
    <3>2. Frames(IsFunction) = {} /\ Frames(IsDot) = {} /\ Frames(IsSubshell) = {}
      BY <2>2
    <3>3. depth.function = 0 /\ depth.dot = 0 /\ depth.subshell = 0
      BY <1>5, <3>2, FS_EmptySet DEF DepthsMatchCalls
    <3> QED BY <3>1, <3>3
  <2> QED BY <2>1, <2>2
<1> QED BY <1>5, <1>6 DEF ControlKeepsItsDepth

\* HshShell.cpp: whatever program runs, however deep its commands nest and
\* however each of them ends (a value, break, continue, return, exit, an error, a stop),
\* the shell's counters of loops, functions, dot scripts, subshells and tested contexts
\* are what surrounds the running command, and no break, continue or return leaves
\* what it is meant for.
THEOREM ControlKeepsDepth == Spec => []ControlKeepsItsDepth
<1>1. Init => ControlInv
  BY ControlInitial
<1>2. ControlInv /\ [Next]_vars => ControlInv'
  BY ControlNext
<1>3. ControlInv => ControlKeepsItsDepth
  BY ControlImplies
<1> QED BY <1>1, <1>2, <1>3, PTL DEF Spec
=============================================================================
