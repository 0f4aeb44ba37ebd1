----------------------------- MODULE PipeProofs -----------------------------
(***************************************************************************)
(* Proofs about Pipe for every number of threads and tokens, every         *)
(* capacity and every bound.  Three invariants: TypeInv types the          *)
(* variables; on top of it SyncInv relates the pipe's mutex, the tokens'   *)
(* callbacks and the wait sets, and DataInv the ring, the bytes read and   *)
(* written and the calls in progress, from which follows that the pipe     *)
(* implements PipeChannel.                                                 *)
(***************************************************************************)
EXTENDS Pipe, SequenceTheorems, FiniteSetTheorems, TLAPS

\* A ring index computed modulo the capacity is a ring index.
LEMMA ModRange ==
    ASSUME NEW a \in Int
    PROVE  a % Capacity \in 0..(Capacity - 1)
BY CapacityAssumption

\* A notification moves no thread outside the program counters.
LEMMA WakeType ==
    ASSUME NEW S \in SUBSET Threads, pc \in [Threads -> PCs]
    PROVE  Wake(S) \in [Threads -> PCs]
BY DEF Wake, PCs

\* The places of a call that is neither over nor unregistering.
InCall == {"register", "selfWake", "lock", "held", "toWait", "waiting"}

\* A call in progress is within the bound on calls and has something to write.
CallOK ==
    \A t \in Threads :
        /\ pc[t] \in InCall =>
            /\ Len(log[t]) < MaxCalls
            /\ written[t] < count[t]
            /\ t \in Writers => count[t] \in WriteCounts
        /\ pc[t] \in {"register", "selfWake", "unregister"} => HasToken(t)

\* Bytes are buffered only in storage that was allocated.
RingAllocated == size > 0 => storage # <<>>

TypeInv == TypeOK /\ CallOK /\ RingAllocated

\* The initial state is typed.
LEMMA InitType == Init => TypeInv
<1> SUFFICES ASSUME Init PROVE TypeInv
  OBVIOUS
<1>1. TypeOK
  BY CapacityAssumption, BoundsAssumption DEF Init, TypeOK, PCs
<1>2. CallOK
  BY DEF Init, CallOK, InCall
<1>3. RingAllocated
  BY DEF Init, RingAllocated
<1> QED
  BY <1>1, <1>2, <1>3 DEF TypeInv

\* What copying bytes in does to the ring's variables.
LEMMA CopyInType ==
    ASSUME TypeInv, NEW bs \in Seq(Byte), Len(bs) >= 1, size + Len(bs) <= Capacity,
           CopyIn(bs)
    PROVE  /\ storage' \in [1..Capacity -> Byte \union {Zero}]
           /\ storage' # <<>>
           /\ size' \in 0..Capacity
           /\ head' \in 0..(Capacity - 1)
           /\ accepted' \in Seq(Byte)
           /\ consumed' \in Seq(Byte \union {Zero})
<1> USE CapacityAssumption DEF TypeInv, TypeOK
<1>0. head \in Int /\ size \in Int
  OBVIOUS
<1>1. ASSUME NEW j \in 1..Capacity
      PROVE  (j - 1 - head - size) % Capacity \in 0..(Capacity - 1)
  <2> HIDE DEF TypeInv, TypeOK
  <2>1. j - 1 - head - size \in Int
    BY <1>0
  <2> QED
    BY <2>1, ModRange
<1>2. \A d \in Nat : d < Len(bs) => bs[d + 1] \in Byte
  <2>1. Len(bs) \in Nat
    BY LenProperties
  <2> QED
    BY <2>1, ElementOfSeq
<1>3. storage' \in [1..Capacity -> Byte \union {Zero}]
  <2> DEFINE B == Byte \union {Zero}
             d(j) == (j - 1 - head - size) % Capacity
             e(j) == IF d(j) < Len(bs) THEN bs[d(j) + 1]
                     ELSE IF storage = <<>> THEN Zero ELSE storage[j]
  <2>1. storage' = [j \in 1..Capacity |-> e(j)]
    BY DEF CopyIn
  <2>2. ASSUME NEW j \in 1..Capacity
        PROVE  e(j) \in B
    <3>1. d(j) \in Nat
      <4> HIDE DEF TypeInv, TypeOK
      <4> QED
        BY <1>1
    <3>2. d(j) < Len(bs) => bs[d(j) + 1] \in Byte
      <4> HIDE DEF d
      <4> QED
        BY <1>2, <3>1
    <3>3. storage # <<>> => storage[j] \in B
      OBVIOUS
    <3> QED
      BY <3>2, <3>3
  <2> HIDE DEF e, B
  <2>3. [j \in 1..Capacity |-> e(j)] \in [1..Capacity -> B]
    BY <2>2
  <2> QED
    BY <2>1, <2>3 DEF B
<1>4. DOMAIN storage' = 1..Capacity /\ 1 \in DOMAIN storage'
  BY <1>3
<1>5. storage' # <<>>
  BY <1>4
<1>6. Len(bs) \in Nat
  BY LenProperties
<1>7. size' \in 0..Capacity
  BY <1>6 DEF CopyIn
<1>8. accepted' \in Seq(Byte)
  BY ConcatProperties DEF CopyIn
<1> QED
  BY <1>3, <1>5, <1>7, <1>8 DEF CopyIn

\* What copying n buffered bytes out does to the ring's variables.
LEMMA CopyOutType ==
    ASSUME TypeInv, size > 0, NEW n \in 1..size, CopyOut(n)
    PROVE  /\ storage' \in {<<>>} \union [1..Capacity -> Byte \union {Zero}]
           /\ size' \in 0..Capacity
           /\ storage' # <<>>
           /\ head' \in 0..(Capacity - 1)
           /\ accepted' \in Seq(Byte)
           /\ consumed' \in Seq(Byte \union {Zero})
<1> USE CapacityAssumption DEF TypeInv, TypeOK
<1> DEFINE B == Byte \union {Zero}
<1>1. storage \in [1..Capacity -> B] /\ storage # <<>>
  BY DEF RingAllocated
<1>2. Len(storage) = Capacity
  <2>1. storage \in Seq(B)
    BY <1>1, SeqDef
  <2>2. DOMAIN storage = 1..Len(storage) /\ Len(storage) \in Nat
    BY <2>1, LenProperties
  <2> QED
    BY <1>1, <2>2
<1>0. head \in Int
  OBVIOUS
<1>3. ASSUME NEW i \in Nat
      PROVE  At(i) \in B
  <2>1. (head + i) % Capacity \in 0..(Capacity - 1)
    <3>1. head + i \in Int
      BY <1>0
    <3> HIDE DEF TypeInv, TypeOK
    <3> QED
      BY <3>1, ModRange
  <2>2. ((head + i) % Capacity) + 1 \in 1..Capacity
    BY <2>1
  <2> QED
    BY <1>1, <1>2, <2>2 DEF At
<1>4. [i \in 1..n |-> At(i - 1)] \in Seq(B)
  <2>1. [i \in 1..n |-> At(i - 1)] \in [1..n -> B]
    BY <1>3
  <2> QED
    BY <2>1, SeqDef
<1>5. consumed' \in Seq(B)
  BY <1>4, ConcatProperties DEF CopyOut
<1>6. head' \in 0..(Capacity - 1)
  <2>1. (head + n) % Capacity \in 0..(Capacity - 1)
    <3>1. head + n \in Int
      BY <1>0
    <3> HIDE DEF TypeInv, TypeOK
    <3> QED
      BY <3>1, ModRange
  <2> QED
    BY <1>2, <2>1 DEF CopyOut
<1>7. size' \in 0..Capacity
  BY DEF CopyOut
<1> QED
  BY <1>1, <1>5, <1>6, <1>7 DEF CopyOut

\* The part of the caller's buffer that is copied in is a sequence of n bytes.
LEMMA CallBytesType ==
    ASSUME TypeInv, NEW t \in Writers, pc[t] = "held", NEW n \in Nat \ {0}
    PROVE  /\ CallBytes(t, written[t] + 1, n) \in Seq(Byte)
           /\ Len(CallBytes(t, written[t] + 1, n)) = n
<1> DEFINE bs == CallBytes(t, written[t] + 1, n)
<1>1. /\ t \in Threads
      /\ count[t] \in WriteCounts /\ written[t] \in Nat
      /\ Len(log[t]) + 1 \in 1..MaxCalls
  <2>1. Len(log[t]) \in Nat
    BY LenProperties DEF TypeInv, TypeOK, Threads
  <2> QED
    BY <2>1, BoundsAssumption DEF TypeInv, TypeOK, CallOK, InCall, Threads
<1>2. bs \in [1..n -> Byte]
  <2>1. ASSUME NEW i \in 1..n PROVE <<t, Len(log[t]) + 1, count[t], written[t] + 1 + i - 1>> \in Byte
    <3>1. written[t] + 1 + i - 1 \in Nat \ {0}
      BY <1>1
    <3> QED
      BY <1>1, <3>1 DEF Byte
  <2> QED
    BY <2>1 DEF CallBytes
<1>3. bs \in Seq(Byte)
  BY <1>2, SeqDef
<1>4. DOMAIN bs = 1..n /\ DOMAIN bs = 1..Len(bs) /\ Len(bs) \in Nat
  BY <1>2, <1>3, LenProperties
<1> QED
  BY <1>3, <1>4

\* Leaving the loop keeps the types, and leaves only one call fewer in progress.
LEMMA FinishType ==
    ASSUME TypeInv, NEW t \in Threads, pc[t] = "held", NEW r \in Int,
           NEW S \in SUBSET Threads, Finish(t, r, S)
    PROVE  /\ mutex' \in Threads \union {NoThread}
           /\ log' \in [Threads -> Seq(Int)]
           /\ pc' \in [Threads -> PCs]
           /\ \A u \in Threads :
                /\ pc'[u] \in InCall =>
                     u # t /\ pc[u] \in InCall /\ log'[u] = log[u]
                /\ pc'[u] \in {"register", "selfWake", "unregister"} => HasToken(u)
<1>1. mutex' \in Threads \union {NoThread}
  BY DEF Finish
<1>2. log' \in [Threads -> Seq(Int)]
  <2>1. Append(log[t], r) \in Seq(Int)
    BY AppendProperties DEF TypeInv, TypeOK
  <2> QED
    BY <2>1 DEF Finish, TypeInv, TypeOK
<1>3. pc' \in [Threads -> PCs]
  BY WakeType DEF Finish, TypeInv, TypeOK, PCs
<1>4. ASSUME NEW u \in Threads
      PROVE  /\ pc'[u] \in InCall =>
                  u # t /\ pc[u] \in InCall /\ log'[u] = log[u]
             /\ pc'[u] \in {"register", "selfWake", "unregister"} => HasToken(u)
  BY DEF Finish, Wake, TypeInv, TypeOK, CallOK, InCall
<1> QED
  BY <1>1, <1>2, <1>3, <1>4

\* Every step preserves the types, one step of the proof per action.
LEMMA NextType == TypeInv /\ [Next]_vars => TypeInv'
<1> SUFFICES ASSUME TypeInv, [Next]_vars PROVE TypeInv'
  OBVIOUS
<1> USE DEF ringVars, endVars, tokenVars, callVars
<1>1. ASSUME NEW t \in Threads, Begin(t) PROVE TypeInv'
  <2> PICK n \in Nat : BeginCall(t, n) /\ (t \in Writers => n \in WriteCounts)
    BY <1>1, ThreadsAssumption, BoundsAssumption DEF Begin
  <2>1. CASE n = 0
    <3>1. log' \in [Threads -> Seq(Int)]
      <4>1. Append(log[t], 0) \in Seq(Int)
        BY AppendProperties DEF TypeInv, TypeOK
      <4> QED
        BY <2>1, <4>1 DEF BeginCall, TypeInv, TypeOK
    <3>2. TypeOK'
      BY <2>1, <3>1 DEF BeginCall, TypeInv, TypeOK
    <3>3. CallOK'
      <4>1. /\ pc[t] = "idle" /\ UNCHANGED <<pc, count, written>>
            /\ \A u \in Threads : u # t => log'[u] = log[u]
        BY <2>1 DEF BeginCall, TypeInv, TypeOK
      <4>2. ASSUME NEW u \in Threads
            PROVE  /\ pc'[u] \in InCall =>
                         /\ Len(log'[u]) < MaxCalls /\ written'[u] < count'[u]
                         /\ u \in Writers => count'[u] \in WriteCounts
                   /\ pc'[u] \in {"register", "selfWake", "unregister"} => HasToken(u)
        <5>1. CASE u = t
          BY <4>1, <5>1 DEF InCall
        <5>2. CASE u # t
          BY <4>1, <5>2 DEF TypeInv, CallOK
        <5> QED
          BY <5>1, <5>2
      <4> QED
        BY <4>2 DEF CallOK, HasToken
    <3> QED
      BY <3>2, <3>3 DEF BeginCall, TypeInv, RingAllocated
  <2>2. CASE n # 0
    <3>0. pc' \in [Threads -> PCs]
      <4>1. pc \in [Threads -> PCs]
        BY DEF TypeInv, TypeOK
      <4>2. PICK p \in PCs : pc' = [pc EXCEPT ![t] = p]
        BY <2>2 DEF BeginCall, PCs
      <4> QED
        BY <4>1, <4>2
    <3>a. count' \in [Threads -> Nat] /\ written' \in [Threads -> Nat]
      <4>1. count \in [Threads -> Nat] /\ written \in [Threads -> Nat]
        BY DEF TypeInv, TypeOK
      <4>2. count' = [count EXCEPT ![t] = n] /\ written' = [written EXCEPT ![t] = 0]
        BY <2>2 DEF BeginCall
      <4> QED
        BY <4>1, <4>2
    <3>1. TypeOK'
      BY <2>2, <3>0, <3>a DEF BeginCall, TypeInv, TypeOK
    <3>2. CallOK'
      <4>1. /\ log' = log /\ Len(log[t]) < MaxCalls /\ pc'[t] \in {"register", "lock"}
            /\ pc'[t] = "register" => HasToken(t)
            /\ count'[t] = n /\ written'[t] = 0 /\ 0 < n
        BY <2>2 DEF BeginCall, TypeInv, TypeOK
      <4>2. \A u \in Threads : u # t =>
               pc'[u] = pc[u] /\ count'[u] = count[u] /\ written'[u] = written[u]
        BY <2>2 DEF BeginCall, TypeInv, TypeOK
      <4>3. ASSUME NEW u \in Threads
            PROVE  /\ pc'[u] \in InCall =>
                         /\ Len(log'[u]) < MaxCalls /\ written'[u] < count'[u]
                         /\ u \in Writers => count'[u] \in WriteCounts
                   /\ pc'[u] \in {"register", "selfWake", "unregister"} => HasToken(u)
        <5>1. CASE u = t
          BY <4>1, <5>1
        <5>2. CASE u # t
          BY <4>1, <4>2, <5>2 DEF TypeInv, CallOK
        <5> QED
          BY <5>1, <5>2
      <4> QED
        BY <4>3 DEF CallOK, HasToken
    <3> QED
      BY <3>1, <3>2 DEF BeginCall, TypeInv, RingAllocated
  <2> QED
    BY <2>1, <2>2
<1>2. ASSUME NEW t \in Threads, Register(t) PROVE TypeInv'
  <2>1. TokenOf[t] \in Tokens
    BY <1>2 DEF Register, TypeInv, CallOK, HasToken
  <2>a. pc' \in [Threads -> PCs]
    <3>1. pc \in [Threads -> PCs]
      BY DEF TypeInv, TypeOK
    <3>2. PICK p \in PCs : pc' = [pc EXCEPT ![t] = p]
      BY <1>2 DEF Register, PCs
    <3> QED
      BY <3>1, <3>2
  <2>b. callbacks' \in [Tokens -> SUBSET Threads]
    <3>1. callbacks \in [Tokens -> SUBSET Threads]
      BY DEF TypeInv, TypeOK
    <3>2. \/ callbacks' = callbacks
          \/ callbacks' = [callbacks EXCEPT ![TokenOf[t]] = @ \union {t}]
      BY <1>2 DEF Register
    <3> QED
      BY <2>1, <3>1, <3>2
  <2>2. TypeOK'
    BY <1>2, <2>a, <2>b DEF Register, TypeInv, TypeOK
  <2>3. CallOK'
    BY <1>2, <2>1 DEF Register, TypeInv, TypeOK, CallOK, InCall, HasToken
  <2> QED
    BY <1>2, <2>2, <2>3 DEF Register, TypeInv, RingAllocated
<1>3. ASSUME NEW t \in Threads, SelfWake(t) PROVE TypeInv'
  <2>1. Wake(Threads) \in [Threads -> PCs]
    BY WakeType DEF TypeInv, TypeOK
  <2> QED
    BY <1>3, <2>1
    DEF SelfWake, Wake, TypeInv, TypeOK, CallOK, InCall, HasToken, PCs, RingAllocated
<1>4. ASSUME NEW t \in Threads, Acquire(t) PROVE TypeInv'
  BY <1>4 DEF Acquire, TypeInv, TypeOK, CallOK, InCall, HasToken, PCs, RingAllocated
<1>5. ASSUME NEW t \in Threads, ReadPass(t) PROVE TypeInv'
  <2>0. pc[t] = "held"
    BY <1>5 DEF ReadPass, InLoop
  <2>1. ASSUME ReadData(t) PROVE TypeInv'
    <3> DEFINE n == Smaller(count[t], size)
    <3>1. n \in 1..size
      BY <2>0, <2>1 DEF ReadData, Smaller, TypeInv, TypeOK, CallOK, InCall
    <3>2. size > 0 /\ CopyOut(n) /\ Finish(t, n, Writers)
      BY <2>1 DEF ReadData
    <3> HIDE DEF n
    <3>3. n \in Int
      BY <3>1 DEF TypeInv, TypeOK
    <3>4. Writers \in SUBSET Threads
      BY DEF Threads
    <3> QED
      BY <1>5, <2>0, <3>1, <3>2, <3>3, <3>4, CopyOutType, FinishType
      DEF ReadPass, TypeInv, TypeOK, CallOK, RingAllocated
  <2>2. ASSUME ReadEOF(t) \/ ReadInterrupted(t) PROVE TypeInv'
    <3> PICK r \in Int : Finish(t, r, {})
      BY <2>2 DEF ReadEOF, ReadInterrupted, kIOInterrupted
    <3> QED
      BY <1>5, <2>0, <2>2, FinishType
      DEF ReadPass, ReadEOF, ReadInterrupted, TypeInv, TypeOK, CallOK, RingAllocated
  <2>3. ASSUME ReadWait(t) PROVE TypeInv'
    BY <1>5, <2>0, <2>3
    DEF ReadPass, ReadWait, DecideToWait, TypeInv, TypeOK, CallOK, InCall, PCs, RingAllocated
  <2> QED
    BY <1>5, <2>1, <2>2, <2>3 DEF ReadPass
<1>6. ASSUME NEW t \in Threads, WritePass(t) PROVE TypeInv'
  <2>0. pc[t] = "held" /\ t \in Writers
    BY <1>6 DEF WritePass, InLoop
  <2>1. ASSUME WriteBroken(t) \/ WriteInterrupted(t) PROVE TypeInv'
    <3> PICK r \in Int : Finish(t, r, {})
      BY <2>1 DEF WriteBroken, WriteInterrupted, kIOInterrupted, kIOBrokenPipe, TypeInv, TypeOK
    <3> QED
      BY <1>6, <2>0, <2>1, FinishType
      DEF WritePass, WriteBroken, WriteInterrupted, TypeInv, TypeOK, CallOK, RingAllocated
  <2>2. ASSUME WriteCopy(t) PROVE TypeInv'
    <3> DEFINE n == Smaller(Room, count[t] - written[t])
               bs == CallBytes(t, written[t] + 1, n)
    <3>0. /\ count[t] \in Nat /\ written[t] \in Nat /\ written[t] < count[t]
          /\ size \in 0..Capacity /\ Capacity \in Nat
      BY <2>0, CapacityAssumption DEF TypeInv, TypeOK, CallOK, InCall
    <3>1. n \in Nat \ {0} /\ size + n <= Capacity /\ written[t] + n <= count[t]
      BY <2>2, <3>0 DEF WriteCopy, Need, Smaller, Room
    <3>2. CopyIn(bs) /\ written' = [written EXCEPT ![t] = @ + n] /\ count' = count
      BY <2>2 DEF WriteCopy
    <3>3. bs \in Seq(Byte) /\ Len(bs) = n
      BY <2>0, <3>1, CallBytesType
    <3>a. written' \in [Threads -> Nat] /\ written'[t] = written[t] + n
      BY <3>1, <3>2 DEF TypeInv, TypeOK
    <3> HIDE DEF n, bs
    <3>4. /\ storage' \in [1..Capacity -> Byte \union {Zero}] /\ storage' # <<>>
          /\ size' \in 0..Capacity /\ head' \in 0..(Capacity - 1)
          /\ accepted' \in Seq(Byte) /\ consumed' \in Seq(Byte \union {Zero})
      BY <3>1, <3>2, <3>3, CopyInType
    <3>5. ASSUME written'[t] = count[t], Finish(t, count[t], Readers) PROVE TypeInv'
      <4>1. Readers \in SUBSET Threads /\ count[t] \in Int
        BY <3>0 DEF Threads
      <4> QED
        BY <1>6, <2>0, <3>2, <3>4, <3>5, <3>a, <4>1, FinishType
        DEF WritePass, TypeInv, TypeOK, CallOK, RingAllocated
    <3>6. ASSUME written'[t] # count[t], pc' = Wake(Readers), UNCHANGED <<mutex, log>>
          PROVE  TypeInv'
      <4>1. pc' \in [Threads -> PCs]
        BY <3>6, WakeType DEF Threads, TypeInv, TypeOK
      <4>2. written'[t] < count'[t]
        BY <3>0, <3>1, <3>2, <3>6, <3>a
      <4>3. CallOK'
        BY <2>0, <3>2, <3>6, <3>a, <4>2 DEF Wake, CallOK, TypeInv, TypeOK, InCall
      <4> QED
        BY <1>6, <3>2, <3>4, <3>6, <3>a, <4>1, <4>3
        DEF WritePass, TypeInv, TypeOK, RingAllocated
    <3> QED
      BY <2>2, <3>5, <3>6 DEF WriteCopy
  <2>3. ASSUME WriteWait(t) PROVE TypeInv'
    BY <1>6, <2>0, <2>3
    DEF WritePass, WriteWait, DecideToWait, TypeInv, TypeOK, CallOK, InCall, PCs, RingAllocated
  <2> QED
    BY <1>6, <2>1, <2>2, <2>3 DEF WritePass
<1>7. ASSUME NEW t \in Threads, Wait(t) \/ SpuriousWake(t) PROVE TypeInv'
  <2>1. ASSUME Wait(t) PROVE TypeInv'
    BY <2>1 DEF Wait, TypeInv, TypeOK, CallOK, InCall, HasToken, PCs, RingAllocated
  <2>2. ASSUME SpuriousWake(t) PROVE TypeInv'
    BY <2>2, BoundsAssumption
    DEF SpuriousWake, TypeInv, TypeOK, CallOK, InCall, HasToken, PCs, RingAllocated
  <2> QED
    BY <1>7, <2>1, <2>2
<1>8. ASSUME NEW t \in Threads, Unregister(t) PROVE TypeInv'
  BY <1>8 DEF Unregister, TypeInv, TypeOK, CallOK, InCall, HasToken, PCs, RingAllocated
<1>9. ASSUME NEW t \in Threads, Release(t) PROVE TypeInv'
  BY <1>9 DEF Release, TypeInv, TypeOK, CallOK, InCall, HasToken, PCs, RingAllocated
<1>10. ASSUME NEW t \in Threads, CloseReadEnd(t) PROVE TypeInv'
  <2>1. Wake(Writers) \in [Threads -> PCs]
    BY WakeType DEF TypeInv, TypeOK, Threads
  <2>a. pc' \in [Threads -> PCs]
    BY <1>10, <2>1 DEF CloseReadEnd, PCs
  <2>b. storage' = <<>> /\ head' \in 0..(Capacity - 1) /\ size' \in 0..Capacity
    BY <1>10, CapacityAssumption DEF CloseReadEnd
  <2>2. TypeOK'
    BY <1>10, <2>a, <2>b DEF CloseReadEnd, TypeInv, TypeOK
  <2>3. CallOK'
    BY <1>10, <2>1 DEF CloseReadEnd, Wake, TypeInv, TypeOK, CallOK, InCall, HasToken
  <2> QED
    BY <1>10, <2>2, <2>3 DEF CloseReadEnd, TypeInv, RingAllocated
<1>11. ASSUME NEW t \in Threads, CloseWriteEnd(t) PROVE TypeInv'
  <2>1. Wake(Readers) \in [Threads -> PCs]
    BY WakeType DEF TypeInv, TypeOK, Threads
  <2> QED
    BY <1>11, <2>1
    DEF CloseWriteEnd, Wake, TypeInv, TypeOK, CallOK, InCall, HasToken, PCs, RingAllocated
<1>12. ASSUME NEW k \in Tokens, RequestStop(k) \/ RequestStopReturns(k) PROVE TypeInv'
  BY <1>12
  DEF RequestStop, RequestStopReturns, TypeInv, TypeOK, CallOK, RingAllocated
<1>13. ASSUME NEW k \in Tokens, NEW t \in Threads, RunCallback(k, t) PROVE TypeInv'
  <2>1. Wake(Threads) \in [Threads -> PCs]
    BY WakeType DEF TypeInv, TypeOK
  <2> QED
    BY <1>13, <2>1
    DEF RunCallback, Wake, TypeInv, TypeOK, CallOK, InCall, HasToken, PCs, RingAllocated
<1>14. ASSUME UNCHANGED vars PROVE TypeInv'
  BY <1>14 DEF vars, TypeInv, TypeOK, CallOK, RingAllocated
<1> QED
  BY <1>1, <1>2, <1>3, <1>4, <1>5, <1>6, <1>7, <1>8, <1>9, <1>10, <1>11, <1>12, <1>13, <1>14
  DEF Next, Step, StopStep

\* Every variable of the pipe (Pipe.h:42-54) keeps its type: the ring's indices stay inside it, and every
\* call in progress has something left to write.
THEOREM TypeCorrect == Spec => []TypeOK
<1>1. TypeInv => TypeOK
  BY DEF TypeInv
<1> QED
  BY InitType, NextType, <1>1, PTL DEF Spec

-----------------------------------------------------------------------------
(* The protocol between the two mutexes and the wait sets.                 *)

\* The pipe's mutex belongs to the thread inside the loop.
MutexInv == \A t \in Threads : pc[t] \in {"held", "toWait"} <=> mutex = t

\* Only a RequestStop in progress has callbacks to run, all registered.
StopInv ==
    \A k \in Tokens :
        /\ ~requesting[k] => toRun[k] = {}
        /\ toRun[k] \subseteq callbacks[k]

\* A registered callback belongs to a call on a thread of that token.
CallbackInv ==
    \A k \in Tokens : \A t \in callbacks[k] :
        /\ TokenOf[t] = k
        /\ pc[t] \in {"lock", "held", "toWait", "waiting", "unregister"}

\* A call on its way to wait has registered, unless the stop came first.
RegisteredInv ==
    \A t \in Threads :
        pc[t] \in {"selfWake", "lock", "held", "toWait", "waiting"} /\ HasToken(t) =>
            stopRequested[TokenOf[t]] \/ t \in callbacks[TokenOf[t]]

\* The reason to wait already holds when the thread has decided to wait.
WaitInv == \A t \in Threads : pc[t] \in {"toWait", "waiting"} => WaitsForGoodReason(t)

SyncInv == MutexInv /\ StopInv /\ CallbackInv /\ RegisteredInv /\ WaitInv

\* Nobody is in a call at first.
LEMMA InitSync == Init => SyncInv
BY ThreadsAssumption
DEF Init, SyncInv, MutexInv, StopInv, CallbackInv, RegisteredInv, WaitInv

\* Leaving the loop with S notified: whoever still waits did not belong to S.
LEMMA FinishSync ==
    ASSUME TypeInv, SyncInv, NEW t \in Threads, pc[t] = "held", NEW r, NEW S \in SUBSET Threads,
           Finish(t, r, S), UNCHANGED tokenVars
    PROVE  /\ MutexInv' /\ StopInv' /\ CallbackInv' /\ RegisteredInv'
           /\ \A u \in Threads : pc'[u] \in {"toWait", "waiting"} =>
                 u # t /\ u \notin S /\ pc[u] = "waiting"
<1> USE ThreadsAssumption DEF tokenVars
<1>0. mutex = t
  BY DEF SyncInv, MutexInv
<1>1. /\ mutex' = NoThread
      /\ pc'[t] = IF HasToken(t) THEN "unregister" ELSE "idle"
      /\ \A u \in Threads \ {t} :
            pc'[u] = IF u \in S /\ pc[u] = "waiting" THEN "lock" ELSE pc[u]
  BY DEF Finish, Wake, TypeInv, TypeOK
<1>2. MutexInv'
  BY <1>0, <1>1 DEF SyncInv, MutexInv
<1>3. StopInv'
  BY DEF SyncInv, StopInv
<1>4. CallbackInv'
  <2> SUFFICES ASSUME NEW k \in Tokens, NEW u \in callbacks[k]
               PROVE  /\ TokenOf[u] = k
                      /\ pc'[u] \in {"lock", "held", "toWait", "waiting", "unregister"}
    BY DEF CallbackInv
  <2>1. /\ TokenOf[u] = k /\ u \in Threads
        /\ pc[u] \in {"lock", "held", "toWait", "waiting", "unregister"}
    BY DEF SyncInv, CallbackInv, TypeInv, TypeOK
  <2> QED
    BY <1>1, <2>1 DEF HasToken
<1>5. RegisteredInv'
  BY <1>1 DEF SyncInv, RegisteredInv, HasToken
<1>6. \A u \in Threads : pc'[u] \in {"toWait", "waiting"} =>
          u # t /\ u \notin S /\ pc[u] = "waiting"
  BY <1>0, <1>1 DEF SyncInv, MutexInv
<1> QED
  BY <1>2, <1>3, <1>4, <1>5, <1>6

\* Deciding to wait: the mutex is kept, and the reason is the test just made.
LEMMA DecideSync ==
    ASSUME TypeInv, SyncInv, NEW t \in Threads, pc[t] = "held", DecideToWait(t),
           UNCHANGED <<endVars, tokenVars, callVars>>, WaitsForGoodReason(t)
    PROVE  SyncInv'
<1> USE ThreadsAssumption DEF ringVars, endVars, tokenVars, callVars
<1>1. MutexInv' /\ StopInv'
  BY DEF DecideToWait, TypeInv, TypeOK, SyncInv, MutexInv, StopInv
<1>2. CallbackInv'
  BY DEF DecideToWait, TypeInv, TypeOK, SyncInv, CallbackInv
<1>3. RegisteredInv'
  BY DEF DecideToWait, TypeInv, TypeOK, SyncInv, RegisteredInv, HasToken
<1>4. WaitInv'
  BY DEF DecideToWait, TypeInv, TypeOK, SyncInv, WaitInv, WaitsForGoodReason, StopSeen,
         HasToken, Need, Room
<1> QED
  BY <1>1, <1>2, <1>3, <1>4 DEF SyncInv

\* While nothing changes that a thread waits for, who still waits does so rightly.
LEMMA StillWaits ==
    ASSUME WaitInv, UNCHANGED <<size, readEndOpen, writeEndOpen, stopRequested, toRun>>,
           \A u \in Threads : pc'[u] \in {"toWait", "waiting"} =>
               pc[u] \in {"toWait", "waiting"} /\ count'[u] = count[u]
    PROVE  WaitInv'
BY DEF WaitInv, WaitsForGoodReason, StopSeen, HasToken, Need, Room

\* Every step preserves the lock protocol, one step of the proof per action.
LEMMA SubtractMore ==
    ASSUME NEW c \in Int, NEW a \in Int, NEW b \in Int, NEW n \in Int, a <= b, c - a < n
    PROVE  c - b < n
OBVIOUS

\* Bytes that enter the ring leave no more room than there was.
LEMMA LessRoom ==
    ASSUME NEW n \in Int, Room < n, size \in Nat, size' \in Nat, size <= size'
    PROVE  Room' < n
<1>1. size \in Int /\ size' \in Int /\ Capacity \in Int
  BY CapacityAssumption
<1> QED
  BY ONLY SubtractMore, <1>1, size <= size', Room < n, n \in Int DEF Room

LEMMA NextSync == TypeInv /\ SyncInv /\ [Next]_vars => SyncInv'
<1> SUFFICES ASSUME TypeInv, SyncInv, [Next]_vars PROVE SyncInv'
  OBVIOUS
<1> USE ThreadsAssumption DEF ringVars, endVars, tokenVars, callVars
<1>1. ASSUME NEW t \in Threads, Begin(t) PROVE SyncInv'
  <2>1. MutexInv'
    <3>1. PICK n \in Nat : BeginCall(t, n)
      BY <1>1, BoundsAssumption DEF Begin
    <3>2. /\ mutex' = mutex /\ pc[t] = "idle"
          /\ \/ pc' = pc
             \/ \E p \in {"register", "lock"} : pc' = [pc EXCEPT ![t] = p]
      BY <3>1 DEF BeginCall
    <3>3. \A u \in Threads : pc'[u] \in {"held", "toWait"} <=> pc[u] \in {"held", "toWait"}
      BY <3>2 DEF TypeInv, TypeOK
    <3> QED
      BY <3>2, <3>3 DEF SyncInv, MutexInv
  <2>2. StopInv'
    BY <1>1 DEF Begin, BeginCall, TypeInv, TypeOK, SyncInv, StopInv
  <2>3. CallbackInv'
    BY <1>1 DEF Begin, BeginCall, TypeInv, TypeOK, SyncInv, CallbackInv
  <2>4. RegisteredInv'
    BY <1>1 DEF Begin, BeginCall, TypeInv, TypeOK, SyncInv, RegisteredInv, HasToken
  <2>5. WaitInv'
    <3>1. PICK n \in Nat : BeginCall(t, n)
      BY <1>1, BoundsAssumption DEF Begin
    <3>2. \A u \in Threads : pc'[u] \in {"toWait", "waiting"} =>
             pc[u] \in {"toWait", "waiting"} /\ count'[u] = count[u]
      BY <3>1 DEF BeginCall, TypeInv, TypeOK
    <3>3. UNCHANGED <<size, readEndOpen, writeEndOpen, stopRequested, toRun>>
      BY <3>1 DEF BeginCall
    <3> QED
      BY <3>2, <3>3, StillWaits DEF SyncInv
  <2> QED
    BY <2>1, <2>2, <2>3, <2>4, <2>5 DEF SyncInv
<1>2. ASSUME NEW t \in Threads, Register(t) PROVE SyncInv'
  <2>1. MutexInv'
    BY <1>2 DEF Register, TypeInv, TypeOK, SyncInv, MutexInv
  <2>2. StopInv'
    BY <1>2 DEF Register, TypeInv, TypeOK, SyncInv, StopInv
  <2>a. TokenOf[t] \in Tokens /\ pc[t] = "register"
    BY <1>2 DEF Register, TypeInv, CallOK, HasToken
  <2>3. CallbackInv'
    <3>1. CASE stopRequested[TokenOf[t]]
      BY <1>2, <2>a, <3>1 DEF Register, TypeInv, TypeOK, SyncInv, CallbackInv
    <3>2. CASE ~stopRequested[TokenOf[t]]
      <4>1. /\ pc' = [pc EXCEPT ![t] = "lock"]
            /\ callbacks' = [callbacks EXCEPT ![TokenOf[t]] = @ \union {t}]
        BY <1>2, <3>2 DEF Register
      <4> QED
        BY <2>a, <4>1 DEF TypeInv, TypeOK, SyncInv, CallbackInv
    <3> QED
      BY <3>1, <3>2
  <2>4. RegisteredInv'
    <3>1. CASE stopRequested[TokenOf[t]]
      BY <1>2, <2>a, <3>1 DEF Register, TypeInv, TypeOK, SyncInv, RegisteredInv, HasToken
    <3>2. CASE ~stopRequested[TokenOf[t]]
      <4>1. /\ pc' = [pc EXCEPT ![t] = "lock"]
            /\ callbacks' = [callbacks EXCEPT ![TokenOf[t]] = @ \union {t}]
            /\ stopRequested' = stopRequested
        BY <1>2, <3>2 DEF Register
      <4> QED
        BY <2>a, <4>1 DEF TypeInv, TypeOK, SyncInv, RegisteredInv, HasToken
    <3> QED
      BY <3>1, <3>2
  <2>5. WaitInv'
    <3>1. /\ UNCHANGED <<size, readEndOpen, writeEndOpen, stopRequested, toRun>>
          /\ \A u \in Threads : pc'[u] \in {"toWait", "waiting"} =>
                pc[u] \in {"toWait", "waiting"} /\ count'[u] = count[u]
      BY <1>2 DEF Register, TypeInv, TypeOK
    <3> QED
      BY <3>1, StillWaits DEF SyncInv
  <2> QED
    BY <2>1, <2>2, <2>3, <2>4, <2>5 DEF SyncInv
<1>3. ASSUME NEW t \in Threads, SelfWake(t) PROVE SyncInv'
  <2>1. MutexInv'
    BY <1>3 DEF SelfWake, Wake, TypeInv, TypeOK, SyncInv, MutexInv
  <2>2. StopInv'
    BY <1>3 DEF SelfWake, Wake, TypeInv, TypeOK, SyncInv, StopInv
  <2>3. CallbackInv'
    BY <1>3 DEF SelfWake, Wake, TypeInv, TypeOK, SyncInv, CallbackInv
  <2>4. RegisteredInv'
    BY <1>3 DEF SelfWake, Wake, TypeInv, TypeOK, SyncInv, RegisteredInv, HasToken
  <2>5. WaitInv'
    <3>1. /\ UNCHANGED <<size, readEndOpen, writeEndOpen, stopRequested, toRun>>
          /\ \A u \in Threads : pc'[u] \in {"toWait", "waiting"} =>
                pc[u] \in {"toWait", "waiting"} /\ count'[u] = count[u]
      BY <1>3 DEF SelfWake, Wake, TypeInv, TypeOK
    <3> QED
      BY <3>1, StillWaits DEF SyncInv
  <2> QED
    BY <2>1, <2>2, <2>3, <2>4, <2>5 DEF SyncInv
<1>4. ASSUME NEW t \in Threads, Acquire(t) PROVE SyncInv'
  <2>1. MutexInv'
    BY <1>4 DEF Acquire, TypeInv, TypeOK, SyncInv, MutexInv
  <2>2. StopInv'
    BY <1>4 DEF Acquire, TypeInv, TypeOK, SyncInv, StopInv
  <2>3. CallbackInv'
    BY <1>4 DEF Acquire, TypeInv, TypeOK, SyncInv, CallbackInv
  <2>4. RegisteredInv'
    BY <1>4 DEF Acquire, TypeInv, TypeOK, SyncInv, RegisteredInv, HasToken
  <2>5. WaitInv'
    <3>1. /\ UNCHANGED <<size, readEndOpen, writeEndOpen, stopRequested, toRun>>
          /\ \A u \in Threads : pc'[u] \in {"toWait", "waiting"} =>
                pc[u] \in {"toWait", "waiting"} /\ count'[u] = count[u]
      BY <1>4 DEF Acquire, TypeInv, TypeOK
    <3> QED
      BY <3>1, StillWaits DEF SyncInv
  <2> QED
    BY <2>1, <2>2, <2>3, <2>4, <2>5 DEF SyncInv
<1>5. ASSUME NEW t \in Threads, ReadPass(t) PROVE SyncInv'
  <2>0. /\ pc[t] = "held" /\ t \in Readers /\ t \notin Writers
        /\ UNCHANGED <<endVars, tokenVars, callVars>>
    BY <1>5 DEF ReadPass, InLoop
  <2>1. ASSUME ReadData(t) PROVE SyncInv'
    <3>1. PICK r : Finish(t, r, Writers)
      BY <2>1 DEF ReadData
    <3>2. Writers \in SUBSET Threads /\ size > 0
      BY <2>1 DEF Threads, ReadData
    <3>3. /\ MutexInv' /\ StopInv' /\ CallbackInv' /\ RegisteredInv'
          /\ \A u \in Threads : pc'[u] \in {"toWait", "waiting"} =>
                u # t /\ u \notin Writers /\ pc[u] = "waiting"
      BY <2>0, <3>1, <3>2, FinishSync
    <3>4. \A u \in Threads : pc'[u] \notin {"toWait", "waiting"}
      BY <3>2, <3>3 DEF SyncInv, WaitInv, WaitsForGoodReason, Threads, TypeInv, TypeOK
    <3> QED
      BY <3>3, <3>4 DEF SyncInv, WaitInv
  <2>2. ASSUME ReadEOF(t) \/ ReadInterrupted(t) PROVE SyncInv'
    <3>1. PICK r : Finish(t, r, {})
      BY <2>2 DEF ReadEOF, ReadInterrupted
    <3>2. UNCHANGED ringVars
      BY <2>2 DEF ReadEOF, ReadInterrupted
    <3>3. /\ MutexInv' /\ StopInv' /\ CallbackInv' /\ RegisteredInv'
          /\ \A u \in Threads : pc'[u] \in {"toWait", "waiting"} =>
                u # t /\ pc[u] = "waiting"
      BY <2>0, <3>1, FinishSync
    <3> QED
      BY <2>0, <3>2, <3>3
      DEF SyncInv, WaitInv, WaitsForGoodReason, StopSeen, HasToken, Need, Room
  <2>3. ASSUME ReadWait(t) PROVE SyncInv'
    BY <2>0, <2>3, DecideSync DEF ReadWait, WaitsForGoodReason
  <2> QED
    BY <1>5, <2>1, <2>2, <2>3 DEF ReadPass
<1>6. ASSUME NEW t \in Threads, WritePass(t) PROVE SyncInv'
  <2>0. /\ pc[t] = "held" /\ t \in Writers /\ t \notin Readers
        /\ UNCHANGED <<endVars, tokenVars>>
    BY <1>6 DEF WritePass, InLoop
  <2>1. ASSUME WriteBroken(t) \/ WriteInterrupted(t) PROVE SyncInv'
    <3>1. PICK r : Finish(t, r, {})
      BY <2>1 DEF WriteBroken, WriteInterrupted
    <3>2. UNCHANGED <<ringVars, callVars>>
      BY <2>1 DEF WriteBroken, WriteInterrupted
    <3>3. /\ MutexInv' /\ StopInv' /\ CallbackInv' /\ RegisteredInv'
          /\ \A u \in Threads : pc'[u] \in {"toWait", "waiting"} =>
                u # t /\ pc[u] = "waiting"
      BY <2>0, <3>1, FinishSync
    <3> QED
      BY <2>0, <3>2, <3>3
      DEF SyncInv, WaitInv, WaitsForGoodReason, StopSeen, HasToken, Need, Room
  <2>2. ASSUME WriteCopy(t) PROVE SyncInv'
    <3>1. \A u \in Threads : u # t /\ pc[u] = "waiting" /\ u \notin Readers =>
              WaitsForGoodReason(u)'
      <4> SUFFICES ASSUME NEW u \in Threads, u # t, pc[u] = "waiting", u \notin Readers
                   PROVE  WaitsForGoodReason(u)'
        OBVIOUS
      <4>1. readEndOpen /\ Room < Need(u) /\ (StopSeen(u) => u \in toRun[TokenOf[u]])
        BY DEF SyncInv, WaitInv, WaitsForGoodReason
      <4>2. size' \in Nat /\ size <= size' /\ count' = count /\ readEndOpen' = readEndOpen
        <5>1. /\ size' = size + Len(CallBytes(t, written[t] + 1,
                                              Smaller(Room, count[t] - written[t])))
              /\ count' = count
          BY <2>2 DEF WriteCopy, CopyIn
        <5>2. Smaller(Room, count[t] - written[t]) \in Nat \ {0}
          <6>1. /\ count[t] \in Nat /\ written[t] \in Nat /\ written[t] < count[t]
                /\ size \in 0..Capacity /\ Capacity \in Nat
            BY <2>0, CapacityAssumption DEF TypeInv, TypeOK, CallOK, InCall
          <6> QED
            BY <2>2, <6>1 DEF WriteCopy, Need, Smaller, Room
        <5>3. /\ t \in Writers /\ pc[t] = "held" /\ size \in Nat
              /\ readEndOpen' = readEndOpen
          BY <2>0, <2>2, CapacityAssumption DEF TypeInv, TypeOK, WriteCopy, CopyIn
        <5> PICK n \in Nat \ {0} : n = Smaller(Room, count[t] - written[t])
          BY <5>2
        <5>4. Len(CallBytes(t, written[t] + 1, n)) = n
          BY <5>3, CallBytesType
        <5>5. size' = size + n
          BY <5>1, <5>4
        <5> QED
          BY ONLY <5>1, <5>3, <5>5, n \in Nat \ {0}
      <4>3. Room' < Need(u)'
        <5>1. Need(u)' = Need(u) /\ Need(u) \in Int
          BY <4>2 DEF Need, Atomic, TypeInv, TypeOK
        <5>2. size \in Nat
          BY DEF TypeInv, TypeOK
        <5> QED
          BY <4>1, <4>2, <5>1, <5>2, LessRoom
      <4> QED
        BY <2>0, <4>1, <4>2, <4>3 DEF WaitsForGoodReason, StopSeen
    <3>2. Readers \in SUBSET Threads
      BY DEF Threads
    <3>3. ASSUME Finish(t, count[t], Readers) PROVE SyncInv'
      <4>1. /\ MutexInv' /\ StopInv' /\ CallbackInv' /\ RegisteredInv'
            /\ \A u \in Threads : pc'[u] \in {"toWait", "waiting"} =>
                  u # t /\ u \notin Readers /\ pc[u] = "waiting"
        BY <2>0, <3>2, <3>3, FinishSync
      <4> QED
        BY <3>1, <4>1 DEF SyncInv, WaitInv
    <3>4. ASSUME pc' = Wake(Readers), UNCHANGED <<mutex, log>> PROVE SyncInv'
      <4>1. /\ mutex = t /\ pc'[t] = "held"
            /\ \A u \in Threads :
                  pc'[u] = IF u \in Readers /\ pc[u] = "waiting" THEN "lock" ELSE pc[u]
        BY <2>0, <3>4 DEF SyncInv, MutexInv, Wake
      <4>2. MutexInv' /\ StopInv'
        BY <2>0, <3>4, <4>1 DEF SyncInv, MutexInv, StopInv
      <4>3. CallbackInv'
        BY <2>0, <4>1 DEF SyncInv, CallbackInv, TypeInv, TypeOK
      <4>4. RegisteredInv'
        BY <2>0, <4>1 DEF SyncInv, RegisteredInv, HasToken
      <4>5. \A u \in Threads : pc'[u] \in {"toWait", "waiting"} =>
                u # t /\ u \notin Readers /\ pc[u] = "waiting"
        BY <4>1 DEF SyncInv, MutexInv
      <4> QED
        BY <3>1, <4>2, <4>3, <4>4, <4>5 DEF SyncInv, WaitInv
    <3> QED
      BY <2>2, <3>3, <3>4 DEF WriteCopy
  <2>3. ASSUME WriteWait(t) PROVE SyncInv'
    BY <2>0, <2>3, DecideSync DEF WriteWait, WaitsForGoodReason
  <2> QED
    BY <1>6, <2>1, <2>2, <2>3 DEF WritePass
<1>7. ASSUME NEW t \in Threads, Wait(t) PROVE SyncInv'
  <2>1. MutexInv'
    BY <1>7 DEF Wait, TypeInv, TypeOK, SyncInv, MutexInv
  <2>2. StopInv'
    BY <1>7 DEF Wait, TypeInv, TypeOK, SyncInv, StopInv
  <2>3. CallbackInv'
    BY <1>7 DEF Wait, TypeInv, TypeOK, SyncInv, CallbackInv
  <2>4. RegisteredInv'
    BY <1>7 DEF Wait, TypeInv, TypeOK, SyncInv, RegisteredInv, HasToken
  <2>5. WaitInv'
    <3>1. /\ UNCHANGED <<size, readEndOpen, writeEndOpen, stopRequested, toRun>>
          /\ \A u \in Threads : pc'[u] \in {"toWait", "waiting"} =>
                pc[u] \in {"toWait", "waiting"} /\ count'[u] = count[u]
      BY <1>7 DEF Wait, TypeInv, TypeOK
    <3> QED
      BY <3>1, StillWaits DEF SyncInv
  <2> QED
    BY <2>1, <2>2, <2>3, <2>4, <2>5 DEF SyncInv
<1>8. ASSUME NEW t \in Threads, SpuriousWake(t) PROVE SyncInv'
  <2>1. MutexInv'
    BY <1>8 DEF SpuriousWake, TypeInv, TypeOK, SyncInv, MutexInv
  <2>2. StopInv'
    BY <1>8 DEF SpuriousWake, TypeInv, TypeOK, SyncInv, StopInv
  <2>3. CallbackInv'
    BY <1>8 DEF SpuriousWake, TypeInv, TypeOK, SyncInv, CallbackInv
  <2>4. RegisteredInv'
    BY <1>8 DEF SpuriousWake, TypeInv, TypeOK, SyncInv, RegisteredInv, HasToken
  <2>5. WaitInv'
    <3>1. /\ UNCHANGED <<size, readEndOpen, writeEndOpen, stopRequested, toRun>>
          /\ \A u \in Threads : pc'[u] \in {"toWait", "waiting"} =>
                pc[u] \in {"toWait", "waiting"} /\ count'[u] = count[u]
      BY <1>8 DEF SpuriousWake, TypeInv, TypeOK
    <3> QED
      BY <3>1, StillWaits DEF SyncInv
  <2> QED
    BY <2>1, <2>2, <2>3, <2>4, <2>5 DEF SyncInv
<1>9. ASSUME NEW t \in Threads, Unregister(t) PROVE SyncInv'
  <2>1. MutexInv'
    BY <1>9 DEF Unregister, TypeInv, TypeOK, SyncInv, MutexInv
  <2>2. StopInv'
    BY <1>9 DEF Unregister, TypeInv, TypeOK, SyncInv, StopInv
  <2>3. CallbackInv'
    BY <1>9 DEF Unregister, TypeInv, TypeOK, SyncInv, CallbackInv
  <2>4. RegisteredInv'
    BY <1>9 DEF Unregister, TypeInv, TypeOK, SyncInv, RegisteredInv, HasToken
  <2>5. WaitInv'
    <3>1. /\ UNCHANGED <<size, readEndOpen, writeEndOpen, stopRequested, toRun>>
          /\ \A u \in Threads : pc'[u] \in {"toWait", "waiting"} =>
                pc[u] \in {"toWait", "waiting"} /\ count'[u] = count[u]
      BY <1>9 DEF Unregister, TypeInv, TypeOK
    <3> QED
      BY <3>1, StillWaits DEF SyncInv
  <2> QED
    BY <2>1, <2>2, <2>3, <2>4, <2>5 DEF SyncInv
<1>10. ASSUME NEW t \in Threads, Release(t) PROVE SyncInv'
  <2>1. MutexInv'
    BY <1>10 DEF Release, TypeInv, TypeOK, SyncInv, MutexInv
  <2>2. StopInv'
    BY <1>10 DEF Release, TypeInv, TypeOK, SyncInv, StopInv
  <2>3. CallbackInv'
    BY <1>10 DEF Release, TypeInv, TypeOK, SyncInv, CallbackInv
  <2>4. RegisteredInv'
    BY <1>10 DEF Release, TypeInv, TypeOK, SyncInv, RegisteredInv, HasToken
  <2>5. WaitInv'
    BY <1>10 DEF Release, TypeInv, TypeOK, SyncInv, MutexInv, StopInv, RegisteredInv, WaitInv,
                  WaitsForGoodReason, StopSeen, HasToken, Need, Room
  <2> QED
    BY <2>1, <2>2, <2>3, <2>4, <2>5 DEF SyncInv
<1>11. ASSUME NEW t \in Threads, CloseReadEnd(t) PROVE SyncInv'
  <2>1. MutexInv'
    BY <1>11 DEF CloseReadEnd, Wake, TypeInv, TypeOK, SyncInv, MutexInv
  <2>2. StopInv'
    BY <1>11 DEF CloseReadEnd, Wake, TypeInv, TypeOK, SyncInv, StopInv
  <2>3. CallbackInv'
    BY <1>11 DEF CloseReadEnd, Wake, TypeInv, TypeOK, SyncInv, CallbackInv
  <2>4. RegisteredInv'
    BY <1>11 DEF CloseReadEnd, Wake, TypeInv, TypeOK, SyncInv, RegisteredInv, HasToken
  <2>5. WaitInv'
    <3>1. /\ t \notin Writers /\ size' = 0 /\ pc' = [Wake(Writers) EXCEPT ![t] = "idle"]
          /\ UNCHANGED <<writeEndOpen, tokenVars, mutex>> /\ mutex = NoThread
      BY <1>11 DEF CloseReadEnd
    <3>2. \A u \in Threads : pc'[u] \in {"toWait", "waiting"} =>
              u \in Readers /\ pc[u] = "waiting"
      BY <3>1 DEF Wake, SyncInv, MutexInv, Threads
    <3> QED
      BY <3>1, <3>2 DEF SyncInv, WaitInv, WaitsForGoodReason, StopSeen, HasToken
  <2> QED
    BY <2>1, <2>2, <2>3, <2>4, <2>5 DEF SyncInv
<1>12. ASSUME NEW t \in Threads, CloseWriteEnd(t) PROVE SyncInv'
  <2>1. MutexInv'
    BY <1>12 DEF CloseWriteEnd, Wake, TypeInv, TypeOK, SyncInv, MutexInv
  <2>2. StopInv'
    BY <1>12 DEF CloseWriteEnd, Wake, TypeInv, TypeOK, SyncInv, StopInv
  <2>3. CallbackInv'
    BY <1>12 DEF CloseWriteEnd, Wake, TypeInv, TypeOK, SyncInv, CallbackInv
  <2>4. RegisteredInv'
    BY <1>12 DEF CloseWriteEnd, Wake, TypeInv, TypeOK, SyncInv, RegisteredInv, HasToken
  <2>5. WaitInv'
    BY <1>12 DEF CloseWriteEnd, Wake, TypeInv, TypeOK, SyncInv, MutexInv, StopInv, RegisteredInv, WaitInv,
                  WaitsForGoodReason, StopSeen, HasToken, Need, Room
  <2> QED
    BY <2>1, <2>2, <2>3, <2>4, <2>5 DEF SyncInv
<1>13. ASSUME NEW k \in Tokens, RequestStop(k) PROVE SyncInv'
  <2>1. MutexInv'
    BY <1>13 DEF RequestStop, TypeInv, TypeOK, SyncInv, MutexInv
  <2>2. StopInv'
    BY <1>13 DEF RequestStop, TypeInv, TypeOK, SyncInv, StopInv
  <2>3. CallbackInv'
    BY <1>13 DEF RequestStop, TypeInv, TypeOK, SyncInv, CallbackInv
  <2>4. RegisteredInv'
    BY <1>13 DEF RequestStop, TypeInv, TypeOK, SyncInv, RegisteredInv, HasToken
  <2>5. WaitInv'
    BY <1>13 DEF RequestStop, TypeInv, TypeOK, SyncInv, MutexInv, StopInv, RegisteredInv, WaitInv,
                  WaitsForGoodReason, StopSeen, HasToken, Need, Room
  <2> QED
    BY <2>1, <2>2, <2>3, <2>4, <2>5 DEF SyncInv
<1>14. ASSUME NEW k \in Tokens, RequestStopReturns(k) PROVE SyncInv'
  <2>1. MutexInv'
    BY <1>14 DEF RequestStopReturns, TypeInv, TypeOK, SyncInv, MutexInv
  <2>2. StopInv'
    BY <1>14 DEF RequestStopReturns, TypeInv, TypeOK, SyncInv, StopInv
  <2>3. CallbackInv'
    BY <1>14 DEF RequestStopReturns, TypeInv, TypeOK, SyncInv, CallbackInv
  <2>4. RegisteredInv'
    BY <1>14 DEF RequestStopReturns, TypeInv, TypeOK, SyncInv, RegisteredInv, HasToken
  <2>5. WaitInv'
    <3>1. /\ UNCHANGED <<size, readEndOpen, writeEndOpen, stopRequested, toRun>>
          /\ \A u \in Threads : pc'[u] \in {"toWait", "waiting"} =>
                pc[u] \in {"toWait", "waiting"} /\ count'[u] = count[u]
      BY <1>14 DEF RequestStopReturns, TypeInv, TypeOK
    <3> QED
      BY <3>1, StillWaits DEF SyncInv
  <2> QED
    BY <2>1, <2>2, <2>3, <2>4, <2>5 DEF SyncInv
<1>15. ASSUME NEW k \in Tokens, NEW u \in Threads, RunCallback(k, u) PROVE SyncInv'
  <2>1. MutexInv'
    BY <1>15 DEF RunCallback, Wake, TypeInv, TypeOK, SyncInv, MutexInv
  <2>2. StopInv'
    BY <1>15 DEF RunCallback, Wake, TypeInv, TypeOK, SyncInv, StopInv
  <2>3. CallbackInv'
    BY <1>15 DEF RunCallback, Wake, TypeInv, TypeOK, SyncInv, CallbackInv
  <2>4. RegisteredInv'
    BY <1>15 DEF RunCallback, Wake, TypeInv, TypeOK, SyncInv, RegisteredInv, HasToken
  <2>5. WaitInv'
    BY <1>15 DEF RunCallback, Wake, TypeInv, TypeOK, SyncInv, MutexInv, StopInv, RegisteredInv, WaitInv,
                  WaitsForGoodReason, StopSeen, HasToken, Need, Room
  <2> QED
    BY <2>1, <2>2, <2>3, <2>4, <2>5 DEF SyncInv
<1>16. ASSUME UNCHANGED vars PROVE SyncInv'
  <2>1. MutexInv'
    BY <1>16 DEF vars, TypeInv, TypeOK, SyncInv, MutexInv
  <2>2. StopInv'
    BY <1>16 DEF vars, TypeInv, TypeOK, SyncInv, StopInv
  <2>3. CallbackInv'
    BY <1>16 DEF vars, TypeInv, TypeOK, SyncInv, CallbackInv
  <2>4. RegisteredInv'
    BY <1>16 DEF vars, TypeInv, TypeOK, SyncInv, RegisteredInv, HasToken
  <2>5. WaitInv'
    <3>1. /\ UNCHANGED <<size, readEndOpen, writeEndOpen, stopRequested, toRun>>
          /\ \A u \in Threads : pc'[u] \in {"toWait", "waiting"} =>
                pc[u] \in {"toWait", "waiting"} /\ count'[u] = count[u]
      BY <1>16 DEF vars, TypeInv, TypeOK
    <3> QED
      BY <3>1, StillWaits DEF SyncInv
  <2> QED
    BY <2>1, <2>2, <2>3, <2>4, <2>5 DEF SyncInv
<1> QED
  BY <1>1, <1>2, <1>3, <1>4, <1>5, <1>6, <1>7, <1>8, <1>9, <1>10, <1>11, <1>12, <1>13, <1>14,
     <1>15, <1>16 DEF Next, Step, StopStep

\* No wake-up is lost in PipeBuffer::Read and Write (Pipe.cpp:31-164): whoever is
\* inside wait() has a reason to be, or the callback of the stop it is to see has
\* still to run.  For any number of readers, writers and tokens.
THEOREM WakeupsAreNotLost == Spec => []NoLostWakeup
<1>1. SyncInv => NoLostWakeup
  BY DEF SyncInv, WaitInv, NoLostWakeup
<1> QED
  BY InitType, NextType, InitSync, NextSync, <1>1, PTL DEF Spec

\* The guarantee StopToken.h:128-137 gives to ~StopCallback: no callback outlives
\* the call whose stack it refers to, however RequestStop is interleaved.
THEOREM CallbacksOutliveNoCall == Spec => []CallbackOwnerAlive
<1>1. SyncInv => CallbackOwnerAlive
  BY DEF SyncInv, StopInv, CallbackInv, CallbackOwnerAlive
<1> QED
  BY InitType, NextType, InitSync, NextSync, <1>1, PTL DEF Spec

-----------------------------------------------------------------------------
(* What the pipe carries.  RingInv says which bytes the ring holds,        *)
(* HolderInv who may still call, WritesInv how far every write has come.   *)

CurrentCall(t) == Len(log[t]) + 1

\* Whoever is inside a call holds its end, and an end closed after its last holder.
HolderInv ==
    /\ \A t \in Threads : pc[t] \notin {"idle", "closing"} => t \in holders
    /\ \A t \in Threads : pc[t] = "closing" => holders \intersect Side(t) = {}
    /\ ~writeEndOpen => holders \intersect Writers = {}

\* What was read is the beginning of what was written, and while the read end is
\* open the ring holds the rest, oldest first.
RingInv ==
    /\ Len(consumed) <= Len(accepted)
    /\ \A i \in 1..Len(consumed) : consumed[i] = accepted[i]
    /\ readEndOpen => Len(accepted) = Len(consumed) + size
    /\ ~readEndOpen => size = 0
    /\ \A i \in 0..(size - 1) : At(i) = accepted[Len(consumed) + i + 1]

\* A byte belongs to an earlier call, or to the part already written of one at hand.
BytesInv ==
    \A p \in 1..Len(accepted) :
        LET b == accepted[p] IN
        \/ b[2] <= Len(log[b[1]])
        \/ /\ pc[b[1]] \in InCall
           /\ b[2] = CurrentCall(b[1]) /\ b[3] = count[b[1]] /\ b[4] <= written[b[1]]

\* The bytes of one call enter in the order of the caller's buffer.
OrderInv ==
    \A q \in 1..Len(accepted) : \A p \in 1..(q - 1) :
        accepted[p][1] = accepted[q][1] /\ accepted[p][2] = accepted[q][2] =>
            accepted[p][4] < accepted[q][4]

\* The part already written of a call at hand is in the pipe, or was; that of an
\* atomic write is empty, for it is over with its first byte.
ProgressInv ==
    \A t \in Writers : pc[t] \in InCall =>
        /\ \A o \in 1..written[t] : \E p \in 1..Len(accepted) :
              accepted[p] = <<t, CurrentCall(t), count[t], o>>
        /\ Atomic(count[t]) => written[t] = 0

WritesInv == BytesInv /\ OrderInv /\ ProgressInv /\ AtomicWrites

\* The result of a finished call, and the progress of one at hand, count its bytes.
CountInv ==
    /\ ResultIsWhatEntered
    /\ \A t \in Writers : pc[t] \in InCall => AcceptedOf(t, CurrentCall(t)) = written[t]
-----------------------------------------------------------------------------
(* The steps, by what they mean to the bytes and to the calls.             *)

\* The threads of S are inside a call, or closing an end, after the step only if
\* they were before, and are in their calls still.
CallsGoOn(S) ==
    \A u \in S :
        /\ pc'[u] \in InCall <=> pc[u] \in InCall
        /\ pc'[u] = "closing" <=> pc[u] = "closing"
        /\ pc'[u] \notin {"idle", "closing"} => pc[u] \notin {"idle", "closing"}

Quiet == UNCHANGED <<ringVars, endVars, callVars, log>> /\ CallsGoOn(Threads)

\* A call begins, with n bytes to move.
Enters(t, n) ==
    /\ pc[t] = "idle" /\ t \in holders /\ n # 0
    /\ pc'[t] \in InCall /\ CallsGoOn(Threads \ {t})
    /\ count' = [count EXCEPT ![t] = n] /\ written' = [written EXCEPT ![t] = 0]
    /\ UNCHANGED <<ringVars, endVars, log>>

\* A call of no bytes returns at once.
ReturnsZero(t) ==
    /\ pc[t] = "idle" /\ log' = [log EXCEPT ![t] = Append(@, 0)]
    /\ UNCHANGED <<ringVars, endVars, callVars, pc>>

\* The call of t is over: t is between two calls, or destroys its StopCallback.
Leaves(t) == pc[t] = "held" /\ pc'[t] \in {"idle", "unregister"} /\ CallsGoOn(Threads \ {t})

\* A call returns r without having moved a byte since its last pass.
Returns(t, r) ==
    /\ Leaves(t) /\ log' = [log EXCEPT ![t] = Append(@, r)]
    /\ t \in Writers => IF written[t] > 0 THEN r = written[t] ELSE r < 0
    /\ UNCHANGED <<ringVars, endVars, callVars>>

\* A read returns with n bytes.
Reads(t, n) ==
    /\ t \in Readers /\ n \in 1..size /\ CopyOut(n)
    /\ Leaves(t) /\ log' = [log EXCEPT ![t] = Append(@, n)]
    /\ UNCHANGED <<endVars, callVars>>

\* A write copies its next n bytes, and returns if they were the last.
Writes(t, n) ==
    /\ t \in Writers /\ readEndOpen /\ pc[t] = "held"
    /\ n = Smaller(Room, count[t] - written[t]) /\ n > 0 /\ Room >= Need(t)
    /\ CopyIn(CallBytes(t, written[t] + 1, n))
    /\ written' = [written EXCEPT ![t] = @ + n]
    /\ IF written[t] + n = count[t]
       THEN Leaves(t) /\ log' = [log EXCEPT ![t] = Append(@, count[t])]
       ELSE pc'[t] = "held" /\ CallsGoOn(Threads) /\ UNCHANGED log
    /\ UNCHANGED <<endVars, count>>

\* To leave the loop is to leave the call, and keeps nobody else from going on.
LEMMA FinishLeaves ==
    ASSUME TypeInv, NEW t \in Threads, pc[t] = "held", NEW r, NEW S, Finish(t, r, S)
    PROVE  Leaves(t) /\ log' = [log EXCEPT ![t] = Append(@, r)]
BY DEF Finish, Leaves, CallsGoOn, Wake, InCall, TypeInv, TypeOK

\* A notification leaves everybody in the call they are in.
LEMMA WakeGoesOn ==
    ASSUME TypeInv, NEW S, pc' = Wake(S)
    PROVE  CallsGoOn(Threads) /\ \A t \in Threads : pc[t] = "held" => pc'[t] = "held"
BY DEF CallsGoOn, Wake, InCall, TypeInv, TypeOK

\* Every step is of one of these kinds.
LEMMA StepKinds ==
    TypeInv /\ [Next]_vars =>
        \/ Quiet
        \/ \E t \in Threads :
              \/ \E n \in Nat : Enters(t, n) \/ Reads(t, n) \/ Writes(t, n)
              \/ ReturnsZero(t)
              \/ \E r \in Int : Returns(t, r)
              \/ Release(t) \/ CloseReadEnd(t) \/ CloseWriteEnd(t)
<1> DEFINE Kind(t) ==
              \/ \E n \in Nat : Enters(t, n) \/ Reads(t, n) \/ Writes(t, n)
              \/ ReturnsZero(t)
              \/ \E r \in Int : Returns(t, r)
              \/ Release(t) \/ CloseReadEnd(t) \/ CloseWriteEnd(t)
<1> SUFFICES ASSUME TypeInv, [Next]_vars PROVE Quiet \/ \E t \in Threads : Kind(t)
  OBVIOUS
<1> USE DEF ringVars, endVars, tokenVars, callVars
<1>1. ASSUME NEW t \in Threads, Begin(t) PROVE Kind(t)
  <2> PICK n \in Nat : BeginCall(t, n)
    BY <1>1, BoundsAssumption DEF Begin
  <2>1. CASE n = 0
    BY <2>1 DEF BeginCall, ReturnsZero
  <2>2. CASE n # 0
    <3>1. Enters(t, n)
      BY <2>2 DEF BeginCall, Enters, CallsGoOn, InCall, TypeInv, TypeOK
    <3> QED
      BY <3>1
  <2> QED
    BY <2>1, <2>2
<1>2. ASSUME NEW t \in Threads, Register(t) PROVE Quiet
  BY <1>2 DEF Register, Quiet, CallsGoOn, InCall, TypeInv, TypeOK
<1>3. ASSUME NEW t \in Threads, SelfWake(t) PROVE Quiet
  BY <1>3 DEF SelfWake, Wake, Quiet, CallsGoOn, InCall, TypeInv, TypeOK
<1>4. ASSUME NEW t \in Threads, Acquire(t) PROVE Quiet
  BY <1>4 DEF Acquire, Quiet, CallsGoOn, InCall, TypeInv, TypeOK
<1>5. ASSUME NEW t \in Threads, ReadPass(t) PROVE Quiet \/ Kind(t)
  <2>0. pc[t] = "held" /\ t \in Readers /\ t \notin Writers
        /\ UNCHANGED <<endVars, callVars>>
    BY <1>5, ThreadsAssumption DEF ReadPass, InLoop
  <2>1. ASSUME ReadData(t) PROVE Kind(t)
    <3> DEFINE n == Smaller(count[t], size)
    <3>1. n \in 1..size /\ n \in Nat
      BY <2>0, <2>1 DEF ReadData, Smaller, TypeInv, TypeOK, CallOK, InCall
    <3>2. CopyOut(n) /\ Finish(t, n, Writers)
      BY <2>1 DEF ReadData
    <3> HIDE DEF n
    <3>3. Reads(t, n)
      BY <2>0, <3>1, <3>2, FinishLeaves DEF Reads
    <3> QED
      BY <3>1, <3>3
  <2>2. ASSUME ReadEOF(t) \/ ReadInterrupted(t) PROVE Kind(t)
    <3>1. PICK r \in Int : Finish(t, r, {})
      BY <2>2 DEF ReadEOF, ReadInterrupted, kIOInterrupted
    <3>2. Returns(t, r)
      BY <2>0, <2>2, <3>1, FinishLeaves DEF Returns, ReadEOF, ReadInterrupted
    <3> QED
      BY <3>2
  <2>3. ASSUME ReadWait(t) PROVE Quiet
    BY <2>0, <2>3 DEF ReadWait, DecideToWait, Quiet, CallsGoOn, InCall, TypeInv, TypeOK
  <2> QED
    BY <1>5, <2>1, <2>2, <2>3 DEF ReadPass
<1>6. ASSUME NEW t \in Threads, WritePass(t) PROVE Quiet \/ Kind(t)
  <2>0. pc[t] = "held" /\ t \in Writers /\ UNCHANGED endVars
    BY <1>6 DEF WritePass, InLoop
  <2>1. ASSUME WriteBroken(t) \/ WriteInterrupted(t) PROVE Kind(t)
    <3>1. PICK r \in Int : Finish(t, r, {}) /\ (IF written[t] > 0 THEN r = written[t] ELSE r < 0)
      BY <2>0, <2>1
      DEF WriteBroken, WriteInterrupted, kIOInterrupted, kIOBrokenPipe, TypeInv, TypeOK
    <3>2. Returns(t, r)
      BY <2>0, <2>1, <3>1, FinishLeaves DEF Returns, WriteBroken, WriteInterrupted
    <3> QED
      BY <3>2
  <2>2. ASSUME WriteCopy(t) PROVE Kind(t)
    <3> DEFINE n == Smaller(Room, count[t] - written[t])
    <3>0. /\ count[t] \in Nat /\ written[t] \in Nat /\ written[t] < count[t]
          /\ size \in 0..Capacity /\ Capacity \in Nat
      BY <2>0, CapacityAssumption DEF TypeInv, TypeOK, CallOK, InCall
    <3>1. n \in Nat /\ n > 0 /\ Room >= Need(t) /\ readEndOpen
      BY <2>2, <3>0 DEF WriteCopy, Need, Smaller, Room
    <3>2. /\ CopyIn(CallBytes(t, written[t] + 1, n))
          /\ written' = [written EXCEPT ![t] = @ + n] /\ count' = count
          /\ IF written'[t] = count[t] THEN Finish(t, count[t], Readers)
             ELSE pc' = Wake(Readers) /\ UNCHANGED <<mutex, log>>
      BY <2>2 DEF WriteCopy
    <3>3. written'[t] = written[t] + n
      BY <3>1, <3>2 DEF TypeInv, TypeOK
    <3>4. n = Smaller(Room, count[t] - written[t])
      OBVIOUS
    <3> HIDE DEF n
    <3>5. CASE written[t] + n = count[t]
      <4>1. Finish(t, count[t], Readers)
        BY <3>2, <3>3, <3>5
      <4>2. Writes(t, n)
        BY <2>0, <3>1, <3>2, <3>4, <3>5, <4>1, FinishLeaves DEF Writes
      <4> QED
        BY <3>1, <4>2
    <3>6. CASE written[t] + n # count[t]
      <4>1. pc' = Wake(Readers) /\ UNCHANGED log
        BY <3>2, <3>3, <3>6
      <4>2. Writes(t, n)
        BY <2>0, <3>1, <3>2, <3>4, <3>6, <4>1, WakeGoesOn DEF Writes
      <4> QED
        BY <3>1, <4>2
    <3> QED
      BY <3>5, <3>6
  <2>3. ASSUME WriteWait(t) PROVE Quiet
    BY <2>0, <2>3 DEF WriteWait, DecideToWait, Quiet, CallsGoOn, InCall, TypeInv, TypeOK
  <2> QED
    BY <1>6, <2>1, <2>2, <2>3 DEF WritePass
<1>7. ASSUME NEW t \in Threads, Wait(t) PROVE Quiet
  BY <1>7 DEF Wait, Quiet, CallsGoOn, InCall, TypeInv, TypeOK
<1>8. ASSUME NEW t \in Threads, SpuriousWake(t) PROVE Quiet
  BY <1>8 DEF SpuriousWake, Quiet, CallsGoOn, InCall, TypeInv, TypeOK
<1>9. ASSUME NEW t \in Threads, Unregister(t) PROVE Quiet
  BY <1>9 DEF Unregister, Quiet, CallsGoOn, InCall, TypeInv, TypeOK
<1>10. ASSUME NEW k \in Tokens, RequestStop(k) PROVE Quiet
  BY <1>10 DEF RequestStop, Quiet, CallsGoOn, InCall, TypeInv, TypeOK
<1>11. ASSUME NEW k \in Tokens, StopStep(k) PROVE Quiet
  BY <1>11, WakeGoesOn DEF StopStep, RequestStopReturns, RunCallback, Quiet, CallsGoOn
<1>12. ASSUME UNCHANGED vars PROVE Quiet
  BY <1>12 DEF vars, Quiet, CallsGoOn
<1> HIDE DEF Kind
<1>13. ASSUME NEW t \in Threads, Release(t) \/ CloseReadEnd(t) \/ CloseWriteEnd(t)
       PROVE  Kind(t)
  BY <1>13 DEF Kind
<1> QED
  BY <1>1, <1>2, <1>3, <1>4, <1>5, <1>6, <1>7, <1>8, <1>9, <1>10, <1>11, <1>12, <1>13
  DEF Next, Step
-----------------------------------------------------------------------------
(* Indices modulo the capacity.                                            *)

\* What the remainder and the quotient of a division are.
LEMMA DivMod ==
    ASSUME NEW C \in Nat \ {0}, NEW a \in Int
    PROVE  /\ (a % C) \in 0..(C - 1)
           /\ (a \div C) \in Int
           /\ a = C * (a \div C) + (a % C)
<1>1. (a % C) \in 0..(C - 1)
  OBVIOUS
<1>2. (a \div C) \in Int
  OBVIOUS
<1>3. a = C * (a \div C) + (a % C)
  OBVIOUS
<1> QED
  BY <1>1, <1>2, <1>3

\* A number has one remainder.
LEMMA OneRemainder ==
    ASSUME NEW C \in Nat \ {0}, NEW q1 \in Int, NEW r1 \in 0..(C - 1),
           NEW q2 \in Int, NEW r2 \in 0..(C - 1), C * q1 + r1 = C * q2 + r2
    PROVE  r1 = r2
<1>1. C * (q1 - q2) = r2 - r1
  OBVIOUS
<1>2. ASSUME q1 - q2 >= 1 PROVE FALSE
  <2>1. C * (q1 - q2) >= C
    BY <1>2
  <2> QED
    BY <1>1, <2>1
<1>3. ASSUME q1 - q2 <= -1 PROVE FALSE
  <2>1. C * (q1 - q2) <= -C
    BY <1>3
  <2> QED
    BY <1>1, <2>1
<1>4. q1 - q2 = 0
  BY <1>2, <1>3
<1>5. C * (q1 - q2) = 0
  BY <1>4
<1> QED
  BY <1>1, <1>5

\* Going on from an index of the ring is going on from where it came from.
LEMMA ModSum ==
    ASSUME NEW C \in Nat \ {0}, NEW a \in Int, NEW b \in Int
    PROVE  ((a % C) + b) % C = (a + b) % C
<1> DEFINE q == a \div C
           r == a % C
           p == (a + b) \div C
           x == (a + b) % C
           s == (r + b) \div C
           y == (r + b) % C
<1>1. q \in Int /\ r \in Int /\ a = C * q + r
  <2>1. (a % C) \in 0..(C - 1) /\ (a \div C) \in Int /\ a = C * (a \div C) + (a % C)
    BY DivMod
  <2> QED
    BY <2>1
<1>2. p \in Int /\ x \in 0..(C - 1) /\ a + b = C * p + x
  <2>1. a + b \in Int
    OBVIOUS
  <2> QED
    BY <2>1, DivMod
<1>3. s \in Int /\ y \in 0..(C - 1) /\ r + b = C * s + y
  <2>1. r + b \in Int
    BY <1>1
  <2> HIDE DEF r
  <2> QED
    BY <2>1, DivMod
<1> HIDE DEF q, r, p, x, s, y
<1>4. a + b = C * (q + s) + y
  <2>1. C * (q + s) = C * q + C * s
    BY <1>1, <1>3
  <2> QED
    BY <1>1, <1>3, <2>1
<1>5. q + s \in Int
  BY <1>1, <1>3
<1>6. C * (q + s) + y = C * p + x
  BY <1>2, <1>4
<1>7. y = x
  BY <1>2, <1>3, <1>5, <1>6, OneRemainder
<1> QED
  BY <1>7 DEF x, y, r

\* An index inside the ring is its own remainder, one below it comes from the end.
LEMMA ModSmall ==
    ASSUME NEW C \in Nat \ {0}
    PROVE  /\ \A a \in 0..(C - 1) : a % C = a
           /\ \A a \in (-C)..(-1) : a % C = a + C
<1>1. \A a \in 0..(C - 1) : a % C = a
  OBVIOUS
<1>2. \A a \in (-C)..(-1) : a % C = a + C
  OBVIOUS
<1> QED
  BY <1>1, <1>2

\* The storage, once allocated, has as many cells as the pipe has capacity.
LEMMA StorageLength ==
    ASSUME TypeInv, storage # <<>>
    PROVE  Len(storage) = Capacity /\ storage \in [1..Capacity -> Byte \union {Zero}]
<1>1. storage \in [1..Capacity -> Byte \union {Zero}]
  BY DEF TypeInv, TypeOK
<1>2. storage \in Seq(Byte \union {Zero})
  BY <1>1, CapacityAssumption, SeqDef
<1>3. DOMAIN storage = 1..Len(storage) /\ Len(storage) \in Nat
  BY <1>2, LenProperties
<1> QED
  BY <1>1, <1>3, CapacityAssumption

-----------------------------------------------------------------------------
(* The ring is a queue.                                                    *)

\* Nothing is in the pipe at first, and everybody holds an end.
LEMMA InitRing == Init => HolderInv /\ RingInv
<1> SUFFICES ASSUME Init PROVE HolderInv /\ RingInv
  OBVIOUS
<1>1. HolderInv
  BY DEF Init, HolderInv
<1>2. Len(accepted) = 0 /\ Len(consumed) = 0 /\ size = 0 /\ 0..(size - 1) = {}
      /\ 1..Len(consumed) = {}
  BY DEF Init
<1>3. RingInv
  BY <1>2 DEF RingInv
<1> QED
  BY <1>1, <1>3

\* The bytes copied out are those that have waited longest.
LEMMA CopyOutRing ==
    ASSUME TypeInv, RingInv, NEW n \in 1..size, CopyOut(n), UNCHANGED readEndOpen
    PROVE  /\ RingInv'
           /\ Len(consumed') = Len(consumed) + n
           /\ Len(consumed') <= Len(accepted)
           /\ consumed' = SubSeq(accepted, 1, Len(consumed) + n)
<1> DEFINE B == Byte \union {Zero}
           L == Len(consumed)
           seg == [i \in 1..n |-> At(i - 1)]
<1>0. /\ size \in Nat /\ size <= Capacity /\ head \in Nat /\ Capacity \in Nat \ {0}
      /\ consumed \in Seq(B) /\ accepted \in Seq(B)
      /\ L \in Nat /\ Len(accepted) \in Nat /\ readEndOpen \in BOOLEAN
  <2>1. Byte \subseteq B
    OBVIOUS
  <2>2. accepted \in Seq(B)
    BY <2>1, SeqMonotonic DEF TypeInv, TypeOK
  <2> QED
    BY <2>2, CapacityAssumption, LenProperties DEF TypeInv, TypeOK
<1>1. readEndOpen /\ Len(accepted) = L + size
  BY <1>0 DEF RingInv
<1>2. \A i \in 1..n : seg[i] = accepted[L + i]
  <2> SUFFICES ASSUME NEW i \in 1..n PROVE seg[i] = accepted[L + i]
    OBVIOUS
  <2>1. i - 1 \in 0..(size - 1)
    BY <1>0
  <2>2. At(i - 1) = accepted[L + (i - 1) + 1]
    BY <2>1 DEF RingInv
  <2>3. L + (i - 1) + 1 = L + i
    BY <1>0
  <2>4. seg[i] = At(i - 1)
    OBVIOUS
  <2> QED
    BY <2>2, <2>3, <2>4
<1>3. seg \in Seq(B) /\ Len(seg) = n
  <2>1. \A i \in 1..n : L + i \in 1..Len(accepted)
    BY <1>0, <1>1
  <2>2. \A i \in 1..n : accepted[L + i] \in B
    BY <1>0, <2>1, ElementOfSeq
  <2>3. \A i \in 1..n : At(i - 1) \in B
    <3> SUFFICES ASSUME NEW i \in 1..n PROVE At(i - 1) \in B
      OBVIOUS
    <3>1. seg[i] = At(i - 1)
      OBVIOUS
    <3> QED
      BY <1>2, <2>2, <3>1
  <2> HIDE DEF B
  <2>4. seg \in [1..n -> B]
    BY <2>3
  <2>5. n \in Nat
    BY <1>0
  <2> HIDE DEF seg
  <2>6. seg \in Seq(B)
    BY <2>4, <2>5, SeqDef
  <2>7. DOMAIN seg = 1..n /\ DOMAIN seg = 1..Len(seg) /\ Len(seg) \in Nat
    BY <2>4, <2>6, LenProperties
  <2> QED
    BY <2>5, <2>6, <2>7
<1>4. consumed' = consumed \o seg /\ accepted' = accepted /\ storage' = storage
      /\ size' = size - n /\ head' = (head + n) % Len(storage)
  BY DEF CopyOut
<1> HIDE DEF seg, B
<1>5. /\ Len(consumed') = L + n
      /\ consumed' \in Seq(B)
      /\ \A i \in 1..(L + n) : consumed'[i] = IF i <= L THEN consumed[i] ELSE seg[i - L]
  BY <1>0, <1>3, <1>4, ConcatProperties
<1>6. \A i \in 1..(L + n) : consumed'[i] = accepted[i]
  <2> SUFFICES ASSUME NEW i \in 1..(L + n) PROVE consumed'[i] = accepted[i]
    OBVIOUS
  <2>1. CASE i <= L
    <3>1. i \in 1..L
      BY <1>0, <2>1
    <3> QED
      BY <1>5, <2>1, <3>1 DEF RingInv
  <2>2. CASE i > L
    <3>1. i - L \in 1..n /\ L + (i - L) = i
      BY <1>0, <2>2
    <3>2. consumed'[i] = seg[i - L]
      BY <1>0, <1>5, <2>2
    <3>3. seg[i - L] = accepted[L + (i - L)]
      BY <1>2, <3>1
    <3> QED
      BY <3>1, <3>2, <3>3
  <2> QED
    BY <1>0, <2>1, <2>2
<1>7. ASSUME NEW i \in 0..(size' - 1)
      PROVE  At(i)' = accepted[Len(consumed') + i + 1]
  <2>1. storage # <<>>
    BY <1>0 DEF TypeInv, RingAllocated
  <2>2. Len(storage) = Capacity
    BY <2>1, StorageLength
  <2>3. At(i)' = storage[((((head + n) % Capacity) + i) % Capacity) + 1]
    BY <1>4, <2>2 DEF At
  <2>4. (((head + n) % Capacity) + i) % Capacity = (head + n + i) % Capacity
    <3>1. head + n \in Int /\ i \in Int
      BY <1>0
    <3> QED
      BY <1>0, <3>1, ModSum
  <2>5. At(n + i) = storage[((head + n + i) % Capacity) + 1]
    <3>1. head + (n + i) = head + n + i
      BY <1>0
    <3> QED
      BY <2>2, <3>1 DEF At
  <2>6. n + i \in 0..(size - 1)
    BY <1>0, <1>4
  <2>7. At(n + i) = accepted[L + (n + i) + 1]
    BY <2>6 DEF RingInv
  <2>8. L + (n + i) + 1 = Len(consumed') + i + 1
    BY <1>0, <1>5
  <2> QED
    BY <2>3, <2>4, <2>5, <2>7, <2>8
<1>8. RingInv'
  <2>1. Len(consumed') <= Len(accepted') /\ Len(accepted') = Len(consumed') + size'
    <3>1. Len(consumed') = L + n /\ size' = size - n /\ accepted' = accepted
      BY <1>4, <1>5
    <3>2. Len(accepted') = L + size
      BY <1>1, <3>1
    <3> HIDE DEF L
    <3> QED
      BY <1>0, <3>1, <3>2
  <2> QED
    BY <1>1, <1>4, <1>5, <1>6, <1>7, <2>1 DEF RingInv
<1>9. consumed' = SubSeq(accepted, 1, L + n)
  <2> DEFINE k == L + n
  <2>1. k \in Nat /\ k >= 1 /\ k <= Len(accepted)
    BY <1>0, <1>1
  <2>2. \A i \in 1..k : accepted[i] \in B
    BY <1>0, <2>1, ElementOfSeq
  <2>3. consumed' \in Seq(B) /\ Len(consumed') = k /\ \A i \in 1..k : consumed'[i] = accepted[i]
    BY <1>5, <1>6
  <2> HIDE DEF k
  <2>4. /\ SubSeq(accepted, 1, k) \in Seq(B)
        /\ Len(SubSeq(accepted, 1, k)) = k
        /\ \A i \in 1..k : SubSeq(accepted, 1, k)[i] = accepted[i]
    BY <2>1, <2>2, SubSeqProperties
  <2>5. consumed' = SubSeq(accepted, 1, k)
    BY <2>3, <2>4, SeqEqual
  <2> QED
    BY <2>5 DEF k
<1> QED
  BY <1>0, <1>1, <1>5, <1>8, <1>9
\* The bytes copied in come behind those already there.
LEMMA CopyInRing ==
    ASSUME TypeInv, RingInv, readEndOpen, UNCHANGED readEndOpen,
           NEW bs \in Seq(Byte), Len(bs) >= 1, size + Len(bs) <= Capacity, CopyIn(bs)
    PROVE  RingInv'
<1> DEFINE n == Len(bs)
           L == Len(consumed)
           A == Len(accepted)
<1>0. /\ size \in Nat /\ size <= Capacity /\ head \in Nat /\ Capacity \in Nat \ {0}
      /\ accepted \in Seq(Byte) /\ L \in Nat /\ A \in Nat /\ n \in Nat
      /\ readEndOpen \in BOOLEAN /\ A = L + size
  BY CapacityAssumption, LenProperties DEF TypeInv, TypeOK, RingInv
<1>1. /\ accepted' = accepted \o bs /\ size' = size + n /\ head' = head
      /\ consumed' = consumed
  BY DEF CopyIn
<1>2. /\ Len(accepted') = A + n
      /\ \A i \in 1..(A + n) : accepted'[i] = IF i <= A THEN accepted[i] ELSE bs[i - A]
  BY <1>0, <1>1, ConcatProperties
<1>3. DOMAIN storage' = 1..Capacity /\ Len(storage') = Capacity
  <2>1. storage' \in [1..Capacity -> Byte \union {Zero}]
    BY CopyInType
  <2>2. storage' \in Seq(Byte \union {Zero})
    BY <2>1, CapacityAssumption, SeqDef
  <2>3. DOMAIN storage' = 1..Len(storage') /\ Len(storage') \in Nat
    BY <2>2, LenProperties
  <2> QED
    BY <1>0, <2>1, <2>3
<1>4. ASSUME NEW i \in 0..(size' - 1)
      PROVE  At(i)' = accepted'[Len(consumed') + i + 1]
  <2> DEFINE c == (head + i) % Capacity
             d == (c - head - size) % Capacity
  <2>1. i \in 0..(size + n - 1) /\ head + i \in Int /\ c \in 0..(Capacity - 1)
    <3>1. i \in 0..(size + n - 1) /\ head + i \in Int
      BY <1>0, <1>1
    <3> QED
      BY <3>1, ModRange
  <2>2. d = (i - size) % Capacity
    <3>1. -head - size \in Int
      BY <1>0
    <3>2. (c + (-head - size)) % Capacity = (head + i + (-head - size)) % Capacity
      BY <1>0, <2>1, <3>1, ModSum
    <3>3. c + (-head - size) = c - head - size
      <4> HIDE DEF c
      <4> QED
        BY <1>0, <2>1
    <3>4. head + i + (-head - size) = i - size
      BY <1>0, <2>1
    <3> QED
      BY <3>2, <3>3, <3>4
  <2>3. At(i)' = storage'[c + 1] /\ Len(consumed') = L
    BY <1>1, <1>3 DEF At
  <2>4. c + 1 \in 1..Capacity /\ (c + 1) - 1 - head - size = c - head - size
    <3> HIDE DEF c
    <3> QED
      BY <1>0, <2>1
  <2>5. storage'[c + 1] = IF d < n THEN bs[d + 1]
                          ELSE IF storage = <<>> THEN Zero ELSE storage[c + 1]
    <3>1. \A k \in 1..Capacity : storage'[k] =
              IF (k - 1 - head - size) % Capacity < Len(bs)
              THEN bs[((k - 1 - head - size) % Capacity) + 1]
              ELSE IF storage = <<>> THEN Zero ELSE storage[k]
      BY DEF CopyIn
    <3> HIDE DEF c
    <3> QED
      BY <2>4, <3>1
  <2>6. CASE i < size
    <3>1. d = i - size + Capacity
      <4>1. i - size \in (-Capacity)..(-1)
        BY <1>0, <2>1, <2>6
      <4> QED
        BY <1>0, <2>2, <4>1, ModSmall
    <3>2. ~(d < n)
      <4> HIDE DEF d
      <4> QED
        BY <1>0, <2>1, <3>1
    <3>3. storage # <<>>
      BY <1>0, <2>1, <2>6 DEF TypeInv, RingAllocated
    <3>4. At(i) = storage[c + 1]
      BY <3>3, StorageLength DEF At
    <3>5. i \in 0..(size - 1)
      BY <1>0, <2>1, <2>6
    <3>6. At(i) = accepted[L + i + 1]
      BY <3>5 DEF RingInv
    <3>7. L + i + 1 \in 1..(A + n) /\ L + i + 1 <= A
      BY <1>0, <3>5
    <3>8. accepted'[L + i + 1] = accepted[L + i + 1]
      BY <1>2, <3>7
    <3> HIDE DEF d, c
    <3> QED
      BY <2>3, <2>5, <3>2, <3>3, <3>4, <3>6, <3>8
  <2>7. CASE i >= size
    <3>1. d = i - size
      <4>1. i - size \in 0..(Capacity - 1)
        BY <1>0, <2>1, <2>7
      <4> QED
        BY <1>0, <2>2, <4>1, ModSmall
    <3>2. d < n
      BY <1>0, <2>1, <3>1
    <3>3. L + i + 1 \in 1..(A + n) /\ ~(L + i + 1 <= A) /\ L + i + 1 - A = d + 1
      <4>1. /\ L + i + 1 \in 1..(A + n) /\ ~(L + i + 1 <= A)
            /\ L + i + 1 - A = i - size + 1
        <5> HIDE DEF d, c
        <5> QED
          BY <1>0, <2>1, <2>7
      <4> QED
        BY ONLY <3>1, <4>1
    <3>4. accepted'[L + i + 1] = bs[d + 1]
      <4>1. accepted'[L + i + 1] = bs[L + i + 1 - A]
        BY <1>2, <3>3
      <4> QED
        BY <3>3, <4>1
    <3> HIDE DEF d, c
    <3> QED
      BY <2>3, <2>5, <3>2, <3>4
  <2> QED
    BY <1>0, <2>1, <2>6, <2>7
<1>5. \A i \in 1..L : consumed'[i] = accepted'[i]
  <2> SUFFICES ASSUME NEW i \in 1..L PROVE consumed'[i] = accepted'[i]
    OBVIOUS
  <2>1. i \in 1..(A + n) /\ i <= A
    BY <1>0
  <2>2. accepted'[i] = accepted[i]
    BY <1>2, <2>1
  <2> QED
    BY <1>1, <2>2 DEF RingInv
<1>6. /\ Len(consumed') <= Len(accepted')
      /\ Len(accepted') = Len(consumed') + size'
  <2> HIDE DEF L, A, n
  <2>1. Len(consumed') = L
    BY <1>1 DEF L
  <2> QED
    BY <1>0, <1>1, <1>2, <2>1
<1> QED
  BY <1>1, <1>4, <1>5, <1>6 DEF RingInv

\* Who may call.
LEMMA HolderStep == TypeInv /\ HolderInv /\ [Next]_vars => HolderInv'
<1> SUFFICES ASSUME TypeInv, HolderInv, [Next]_vars PROVE HolderInv'
  OBVIOUS
<1> USE DEF HolderInv, Side, TypeInv, TypeOK
<1>1. CASE Quiet
  BY <1>1 DEF Quiet, CallsGoOn, endVars
<1>2. ASSUME NEW t \in Threads, NEW n \in Nat, Enters(t, n) PROVE HolderInv'
  BY <1>2 DEF Enters, CallsGoOn, endVars, InCall
<1>3. ASSUME NEW t \in Threads, Leaves(t), UNCHANGED endVars PROVE HolderInv'
  BY <1>3 DEF Leaves, CallsGoOn, endVars
<1>4. ASSUME NEW t \in Threads, NEW n \in Nat, Reads(t, n) PROVE HolderInv'
  BY <1>3, <1>4 DEF Reads
<1>5. ASSUME NEW t \in Threads, NEW n \in Nat, Writes(t, n) PROVE HolderInv'
  BY <1>3, <1>5 DEF Writes, CallsGoOn, endVars
<1>6. ASSUME NEW t \in Threads, NEW r \in Int, Returns(t, r) PROVE HolderInv'
  BY <1>3, <1>6 DEF Returns
<1>7. ASSUME NEW t \in Threads, ReturnsZero(t) PROVE HolderInv'
  BY <1>7 DEF ReturnsZero, endVars
<1>8. ASSUME NEW t \in Threads, Release(t) PROVE HolderInv'
  BY <1>8 DEF Release
<1>9. ASSUME NEW t \in Threads, CloseReadEnd(t) PROVE HolderInv'
  BY <1>9 DEF CloseReadEnd, Wake
<1>10. ASSUME NEW t \in Threads, CloseWriteEnd(t) PROVE HolderInv'
  BY <1>10 DEF CloseWriteEnd, Wake
<1> HIDE DEF HolderInv, Side, TypeInv, TypeOK
<1> QED
  BY <1>1, <1>2, <1>4, <1>5, <1>6, <1>7, <1>8, <1>9, <1>10, StepKinds

\* What a write is about to copy, and that there is room for it.
LEMMA WritesPart ==
    ASSUME TypeInv, NEW t \in Threads, NEW n \in Nat, Writes(t, n)
    PROVE  /\ CallBytes(t, written[t] + 1, n) \in Seq(Byte)
           /\ Len(CallBytes(t, written[t] + 1, n)) = n
           /\ size + n <= Capacity /\ n >= 1
           /\ count[t] \in WriteCounts /\ count[t] \in Nat /\ written[t] \in Nat
           /\ written[t] + n <= count[t]
           /\ CurrentCall(t) \in 1..MaxCalls
           /\ written'[t] = written[t] + n
           /\ written' \in [Threads -> Nat]
<1>0. /\ t \in Writers /\ pc[t] = "held" /\ n > 0 /\ n \in Nat \ {0}
      /\ written' = [written EXCEPT ![t] = @ + n]
      /\ n = Smaller(Room, count[t] - written[t])
  BY DEF Writes
<1>1. CallBytes(t, written[t] + 1, n) \in Seq(Byte)
      /\ Len(CallBytes(t, written[t] + 1, n)) = n
  BY <1>0, CallBytesType
<1>2. /\ count[t] \in Nat /\ written[t] \in Nat /\ written[t] < count[t]
      /\ count[t] \in WriteCounts /\ Len(log[t]) < MaxCalls
      /\ size \in 0..Capacity /\ Capacity \in Nat
      /\ written \in [Threads -> Nat] /\ log[t] \in Seq(Int)
  BY <1>0, CapacityAssumption DEF TypeInv, TypeOK, CallOK, InCall
<1>3. size + n <= Capacity /\ n >= 1 /\ written[t] + n <= count[t]
  BY <1>0, <1>2 DEF Smaller, Room
<1>4. CurrentCall(t) \in 1..MaxCalls
  <2>1. Len(log[t]) \in Nat
    BY <1>2, LenProperties
  <2> QED
    BY <1>2, <2>1, BoundsAssumption DEF CurrentCall
<1>5. written'[t] = written[t] + n /\ written' \in [Threads -> Nat]
  BY <1>0, <1>2
<1> QED
  BY <1>1, <1>2, <1>3, <1>4, <1>5

\* What the ring holds.
LEMMA RingStep == TypeInv /\ RingInv /\ [Next]_vars => RingInv'
<1> SUFFICES ASSUME TypeInv, RingInv, [Next]_vars PROVE RingInv'
  OBVIOUS
<1>1. ASSUME UNCHANGED <<ringVars, readEndOpen>> PROVE RingInv'
  BY <1>1 DEF ringVars, RingInv, At
<1>2. CASE Quiet
  BY <1>1, <1>2 DEF Quiet, endVars
<1>3. ASSUME NEW t \in Threads, NEW n \in Nat, Enters(t, n) PROVE RingInv'
  BY <1>1, <1>3 DEF Enters, endVars
<1>4. ASSUME NEW t \in Threads, NEW n \in Nat, Reads(t, n) PROVE RingInv'
  BY <1>4, CopyOutRing DEF Reads, endVars
<1>5. ASSUME NEW t \in Threads, NEW n \in Nat, Writes(t, n) PROVE RingInv'
  BY <1>5, WritesPart, CopyInRing DEF Writes, endVars
<1>6. ASSUME NEW t \in Threads, NEW r \in Int, Returns(t, r) PROVE RingInv'
  BY <1>1, <1>6 DEF Returns, endVars
<1>7. ASSUME NEW t \in Threads, ReturnsZero(t) PROVE RingInv'
  BY <1>1, <1>7 DEF ReturnsZero, endVars
<1>8. ASSUME NEW t \in Threads, Release(t) PROVE RingInv'
  BY <1>1, <1>8 DEF Release
<1>9. ASSUME NEW t \in Threads, CloseReadEnd(t) PROVE RingInv'
  <2>1. ~readEndOpen' /\ size' = 0 /\ UNCHANGED <<accepted, consumed>> /\ 0..(size' - 1) = {}
    BY <1>9 DEF CloseReadEnd
  <2> QED
    BY <2>1 DEF RingInv
<1>10. ASSUME NEW t \in Threads, CloseWriteEnd(t) PROVE RingInv'
  BY <1>1, <1>10 DEF CloseWriteEnd
<1> QED
  BY <1>2, <1>3, <1>4, <1>5, <1>6, <1>7, <1>8, <1>9, <1>10, StepKinds
-----------------------------------------------------------------------------
(* What every write has put into the pipe.                                 *)

\* The components of a byte.
LEMMA ByteParts ==
    ASSUME TypeInv, NEW p \in 1..Len(accepted)
    PROVE  /\ accepted[p] \in Byte
           /\ accepted[p] = <<accepted[p][1], accepted[p][2], accepted[p][3], accepted[p][4]>>
           /\ accepted[p][1] \in Writers /\ accepted[p][1] \in Threads
           /\ accepted[p][2] \in Nat /\ accepted[p][3] \in Nat
           /\ accepted[p][4] \in Nat /\ accepted[p][4] >= 1
<1>1. accepted[p] \in Byte
  BY ElementOfSeq DEF TypeInv, TypeOK
<1>2. PICK w \in Writers, c \in 1..MaxCalls, m \in WriteCounts, o \in Nat \ {0} :
         accepted[p] = <<w, c, m, o>>
  BY <1>1 DEF Byte
<1>3. /\ accepted[p][1] = w /\ accepted[p][2] = c
      /\ accepted[p][3] = m /\ accepted[p][4] = o
  BY <1>2
<1>4. w \in Threads /\ c \in Nat /\ m \in Nat /\ o \in Nat /\ o >= 1
  BY BoundsAssumption DEF Threads
<1> QED
  BY <1>1, <1>2, <1>3, <1>4

\* A call that returns is the last of its thread's log.
LEMMA LogGrows ==
    ASSUME TypeInv, NEW t \in Threads, NEW r \in Int,
           log' = [log EXCEPT ![t] = Append(@, r)]
    PROVE  /\ Len(log[t]) \in Nat
           /\ Len(log'[t]) = Len(log[t]) + 1
           /\ \A i \in 1..Len(log[t]) : log'[t][i] = log[t][i]
           /\ log'[t][Len(log[t]) + 1] = r
           /\ \A u \in Threads : u # t => log'[u] = log[u]
           /\ \A u \in Threads : Len(log[u]) \in Nat /\ Len(log[u]) <= Len(log'[u])
<1>1. \A u \in Threads : log[u] \in Seq(Int) /\ Len(log[u]) \in Nat
  BY LenProperties DEF TypeInv, TypeOK
<1>2. log'[t] = Append(log[t], r) /\ \A u \in Threads : u # t => log'[u] = log[u]
  BY DEF TypeInv, TypeOK
<1>3. /\ Len(log'[t]) = Len(log[t]) + 1
      /\ \A i \in 1..Len(log[t]) : log'[t][i] = log[t][i]
      /\ log'[t][Len(log[t]) + 1] = r
  BY <1>1, <1>2, AppendProperties
<1> QED
  BY <1>1, <1>2, <1>3

\* What a write adds to the bytes that have entered.
LEMMA AcceptedGrows ==
    ASSUME TypeInv, NEW t \in Threads, NEW n \in Nat, Writes(t, n)
    PROVE  /\ Len(accepted) \in Nat /\ Len(accepted') = Len(accepted) + n
           /\ \A p \in 1..Len(accepted) : accepted'[p] = accepted[p]
           /\ \A i \in 1..n : accepted'[Len(accepted) + i] =
                 <<t, CurrentCall(t), count[t], written[t] + i>>
<1> DEFINE bs == CallBytes(t, written[t] + 1, n)
           A == Len(accepted)
<1>1. /\ bs \in Seq(Byte) /\ Len(bs) = n /\ written[t] \in Nat
      /\ accepted \in Seq(Byte) /\ A \in Nat
  BY WritesPart, LenProperties DEF TypeInv, TypeOK
<1>2. accepted' = accepted \o bs
  BY DEF Writes, CopyIn
<1>3. \A i \in 1..n : bs[i] = <<t, CurrentCall(t), count[t], written[t] + i>>
  <2>1. \A i \in 1..n : written[t] + 1 + i - 1 = written[t] + i
    BY <1>1
  <2> QED
    BY <2>1 DEF CallBytes, CurrentCall
<1> HIDE DEF bs
<1>4. /\ Len(accepted') = A + n
      /\ \A p \in 1..(A + n) : accepted'[p] = IF p <= A THEN accepted[p] ELSE bs[p - A]
  BY <1>1, <1>2, ConcatProperties
<1>5. \A p \in 1..A : accepted'[p] = accepted[p]
  BY <1>1, <1>4
<1>6. ASSUME NEW i \in 1..n
      PROVE  accepted'[A + i] = <<t, CurrentCall(t), count[t], written[t] + i>>
  <2>1. A + i \in 1..(A + n) /\ ~(A + i <= A) /\ A + i - A = i
    BY <1>1
  <2>2. accepted'[A + i] = bs[A + i - A]
    BY <1>4, <2>1
  <2> QED
    BY <1>3, <2>1, <2>2
<1> QED
  BY <1>1, <1>4, <1>5, <1>6

\* A byte of the new sequence is an old one or one of those just written.
LEMMA OldOrNew ==
    ASSUME NEW A \in Nat, NEW n \in Nat, NEW p \in 1..(A + n)
    PROVE  p \in 1..A \/ \E i \in 1..n : p = A + i
<1>1. CASE p <= A
  BY <1>1
<1>2. CASE p > A
  <2>1. p - A \in 1..n /\ p = A + (p - A)
    BY <1>2
  <2> QED
    BY <2>1
<1> QED
  BY <1>1, <1>2

\* No write has put anything in at first.
LEMMA InitWrites == Init => WritesInv
<1> SUFFICES ASSUME Init PROVE WritesInv
  OBVIOUS
<1>1. 1..Len(accepted) = {} /\ \A t \in Threads : pc[t] = "idle"
  BY DEF Init
<1> QED
  BY <1>1 DEF WritesInv, BytesInv, OrderInv, ProgressInv, AtomicWrites, InCall, Threads

\* A step that moves no byte in leaves what was written as it is, when calls go on,
\* begin or return.
LEMMA OtherStepWrites ==
    ASSUME TypeInv, WritesInv, UNCHANGED accepted,
           \A u \in Threads : Len(log[u]) \in Nat /\ Len(log'[u]) \in Nat,
           \A u \in Threads :
              \/ /\ pc'[u] \in InCall <=> pc[u] \in InCall
                 /\ log'[u] = log[u] /\ count'[u] = count[u] /\ written'[u] = written[u]
              \/ /\ pc[u] \notin InCall /\ log'[u] = log[u] /\ written'[u] = 0
              \/ /\ pc'[u] \notin InCall /\ Len(log'[u]) = Len(log[u]) + 1
    PROVE  WritesInv'
<1>1. BytesInv'
  <2> SUFFICES ASSUME NEW p \in 1..Len(accepted)
               PROVE  LET b == accepted[p] IN
                      \/ b[2] <= Len(log'[b[1]])
                      \/ /\ pc'[b[1]] \in InCall
                         /\ b[2] = Len(log'[b[1]]) + 1 /\ b[3] = count'[b[1]]
                         /\ b[4] <= written'[b[1]]
    BY DEF BytesInv, CurrentCall
  <2> DEFINE b == accepted[p]
             u == b[1]
  <2>1. u \in Threads /\ b[2] \in Nat
    BY ByteParts
  <2>2. \/ b[2] <= Len(log[u])
        \/ /\ pc[u] \in InCall
           /\ b[2] = Len(log[u]) + 1 /\ b[3] = count[u] /\ b[4] <= written[u]
    BY DEF WritesInv, BytesInv, CurrentCall
  <2>3. Len(log[u]) \in Nat /\ Len(log'[u]) \in Nat
    BY <2>1
  <2>4. \/ /\ pc'[u] \in InCall <=> pc[u] \in InCall
           /\ log'[u] = log[u] /\ count'[u] = count[u] /\ written'[u] = written[u]
        \/ /\ pc[u] \notin InCall /\ log'[u] = log[u] /\ written'[u] = 0
        \/ /\ pc'[u] \notin InCall /\ Len(log'[u]) = Len(log[u]) + 1
    BY <2>1
  <2> HIDE DEF b, u
  <2>5. CASE /\ pc'[u] \in InCall <=> pc[u] \in InCall
             /\ log'[u] = log[u] /\ count'[u] = count[u] /\ written'[u] = written[u]
    <3>1. \/ b[2] <= Len(log'[u])
          \/ /\ pc'[u] \in InCall
             /\ b[2] = Len(log'[u]) + 1 /\ b[3] = count'[u] /\ b[4] <= written'[u]
      BY ONLY <2>2, <2>5
    <3> QED
      BY ONLY <3>1 DEF b, u
  <2>6. CASE pc[u] \notin InCall /\ log'[u] = log[u] /\ written'[u] = 0
    <3>1. b[2] <= Len(log'[u])
      BY ONLY <2>2, <2>6
    <3> QED
      BY ONLY <3>1 DEF b, u
  <2>7. CASE pc'[u] \notin InCall /\ Len(log'[u]) = Len(log[u]) + 1
    <3>1. b[2] <= Len(log[u]) + 1
      BY ONLY <2>1, <2>2, <2>3
    <3>2. b[2] <= Len(log'[u])
      BY ONLY <2>7, <3>1
    <3> QED
      BY ONLY <3>2 DEF b, u
  <2> QED
    BY ONLY <2>4, <2>5, <2>6, <2>7
<1>2. OrderInv'
  BY DEF WritesInv, OrderInv
<1>3. ProgressInv'
  <2> SUFFICES ASSUME NEW t \in Writers, pc'[t] \in InCall
               PROVE  /\ \A o \in 1..written'[t] : \E p \in 1..Len(accepted) :
                            accepted[p] = <<t, Len(log'[t]) + 1, count'[t], o>>
                      /\ Atomic(count'[t]) => written'[t] = 0
    BY DEF ProgressInv, CurrentCall, Atomic
  <2>1. t \in Threads
    BY DEF Threads
  <2>2. CASE written'[t] = 0
    <3>1. 1..written'[t] = {}
      BY <2>2
    <3> QED
      BY <2>2, <3>1
  <2>3. CASE written'[t] # 0
    <3>1. /\ pc[t] \in InCall /\ log'[t] = log[t] /\ count'[t] = count[t]
          /\ written'[t] = written[t]
      BY <2>1, <2>3
    <3> QED
      BY <3>1 DEF WritesInv, ProgressInv, CurrentCall
  <2> QED
    BY <2>2, <2>3
<1>4. AtomicWrites'
  BY DEF WritesInv, AtomicWrites, Atomic
<1> QED
  BY <1>1, <1>2, <1>3, <1>4 DEF WritesInv

\* What a write does to the calls: its own goes on or returns, the others go on.
LEMMA WritesCalls ==
    ASSUME TypeInv, NEW t \in Threads, NEW n \in Nat, Writes(t, n)
    PROVE  /\ \A u \in Threads : /\ Len(log[u]) \in Nat /\ Len(log'[u]) \in Nat
                                 /\ Len(log[u]) <= Len(log'[u])
           /\ \A u \in Threads : u # t =>
                /\ pc'[u] \in InCall <=> pc[u] \in InCall
                /\ log'[u] = log[u] /\ written'[u] = written[u]
           /\ count' = count /\ pc[t] \in InCall
           /\ \/ /\ written[t] + n = count[t] /\ pc'[t] \notin InCall
                 /\ log' = [log EXCEPT ![t] = Append(@, count[t])]
                 /\ Len(log'[t]) = Len(log[t]) + 1
              \/ /\ written[t] + n # count[t] /\ pc'[t] = "held" /\ log' = log
<1>0. \A u \in Threads : log[u] \in Seq(Int) /\ Len(log[u]) \in Nat
  BY LenProperties DEF TypeInv, TypeOK
<1>1. count' = count /\ pc[t] = "held" /\ written' = [written EXCEPT ![t] = @ + n]
  BY DEF Writes
<1>2. \A u \in Threads : u # t => written'[u] = written[u]
  BY <1>1 DEF TypeInv, TypeOK
<1>3. CASE written[t] + n = count[t]
  <2>1. Leaves(t) /\ log' = [log EXCEPT ![t] = Append(@, count[t])]
    BY <1>3 DEF Writes
  <2>2. /\ Len(log'[t]) = Len(log[t]) + 1
        /\ \A u \in Threads : u # t => log'[u] = log[u]
        /\ \A u \in Threads : Len(log[u]) <= Len(log'[u])
    <3>1. count[t] \in Int
      BY DEF TypeInv, TypeOK
    <3> QED
      BY <2>1, <3>1, LogGrows
  <2>3. pc'[t] \notin InCall
        /\ \A u \in Threads : u # t => (pc'[u] \in InCall <=> pc[u] \in InCall)
    BY <2>1 DEF Leaves, CallsGoOn, InCall
  <2>4. \A u \in Threads : Len(log'[u]) \in Nat
    BY <1>0, <2>2
  <2> QED
    BY <1>0, <1>1, <1>2, <1>3, <2>1, <2>2, <2>3, <2>4 DEF InCall
<1>4. CASE written[t] + n # count[t]
  <2>1. pc'[t] = "held" /\ CallsGoOn(Threads) /\ log' = log
    BY <1>4 DEF Writes
  <2> QED
    BY <1>0, <1>1, <1>2, <1>4, <2>1 DEF CallsGoOn, InCall
<1> QED
  BY <1>3, <1>4

\* An atomic write copies everything in its only pass.
LEMMA AtomicWritesAll ==
    ASSUME TypeInv, ProgressInv, NEW t \in Threads, NEW n \in Nat, Writes(t, n),
           Atomic(count[t])
    PROVE  written[t] = 0 /\ n = count[t]
<1>1. t \in Writers /\ pc[t] \in InCall /\ n = Smaller(Room, count[t] - written[t])
      /\ Room >= Need(t)
  BY DEF Writes, InCall
<1>2. written[t] = 0 /\ Need(t) = count[t]
  BY <1>1 DEF ProgressInv, Need
<1>3. count[t] \in Nat /\ Room \in Int
  BY CapacityAssumption DEF TypeInv, TypeOK, Room
<1> QED
  BY <1>1, <1>2, <1>3 DEF Smaller

\* A write names the bytes it puts in, after those of its call that are there.
LEMMA WritesKeepOrder ==
    ASSUME TypeInv, WritesInv, NEW t \in Threads, NEW n \in Nat, Writes(t, n)
    PROVE  WritesInv'
<1> DEFINE A == Len(accepted)
           c == CurrentCall(t)
           m == count[t]
           W == written[t]
<1>0. /\ A \in Nat /\ Len(accepted') = A + n /\ n >= 1
      /\ W \in Nat /\ m \in Nat /\ W + n <= m /\ written'[t] = W + n
      /\ c \in Nat /\ c = Len(log[t]) + 1 /\ Len(log[t]) \in Nat
      /\ t \in Writers /\ pc[t] \in InCall /\ count' = count
  <2>1. c \in 1..MaxCalls
    BY WritesPart
  <2>2. c \in Nat
    BY <2>1, BoundsAssumption
  <2> QED
    BY <2>2, AcceptedGrows, WritesPart, WritesCalls DEF Writes, CurrentCall
<1>1. \A p \in 1..A : accepted'[p] = accepted[p]
  BY AcceptedGrows
<1>2. \A i \in 1..n : accepted'[A + i] = <<t, c, m, W + i>>
  BY AcceptedGrows
<1>3. \A p \in 1..(A + n) : p \in 1..A \/ \E i \in 1..n : p = A + i
  BY <1>0, OldOrNew
<1>4. \A u \in Threads : Len(log[u]) \in Nat /\ Len(log'[u]) \in Nat
                         /\ Len(log[u]) <= Len(log'[u])
  BY WritesCalls
<1>5. \A u \in Threads : u # t =>
         /\ pc'[u] \in InCall <=> pc[u] \in InCall
         /\ log'[u] = log[u] /\ written'[u] = written[u]
  BY WritesCalls
<1>6. \/ W + n = m /\ pc'[t] \notin InCall /\ Len(log'[t]) = Len(log[t]) + 1
      \/ W + n # m /\ pc'[t] \in InCall /\ log' = log
  BY WritesCalls DEF InCall
<1>7. \A p \in 1..A : /\ accepted[p][1] \in Threads /\ accepted[p][2] \in Nat
                      /\ accepted[p][4] \in Nat
  BY ByteParts
<1> HIDE DEF A, c, m, W
<1>8. BytesInv'
  <2> SUFFICES ASSUME NEW p \in 1..(A + n)
               PROVE  LET b == accepted'[p] IN
                      \/ b[2] <= Len(log'[b[1]])
                      \/ /\ pc'[b[1]] \in InCall
                         /\ b[2] = Len(log'[b[1]]) + 1 /\ b[3] = count'[b[1]]
                         /\ b[4] <= written'[b[1]]
    BY <1>0 DEF BytesInv, CurrentCall
  <2>1. CASE p \in 1..A
    <3> DEFINE b == accepted[p]
               u == b[1]
    <3>1. accepted'[p] = b /\ u \in Threads /\ b[2] \in Nat /\ b[4] \in Nat
      BY <1>1, <1>7, <2>1
    <3>2. \/ b[2] <= Len(log[u])
          \/ /\ pc[u] \in InCall
             /\ b[2] = Len(log[u]) + 1 /\ b[3] = count[u] /\ b[4] <= written[u]
      BY <2>1 DEF WritesInv, BytesInv, CurrentCall, A
    <3> HIDE DEF b
    <3>3. \/ b[2] <= Len(log'[u])
          \/ /\ pc'[u] \in InCall
             /\ b[2] = Len(log'[u]) + 1 /\ b[3] = count'[u] /\ b[4] <= written'[u]
      <4>1. CASE u # t
        BY <1>0, <1>4, <1>5, <3>1, <3>2, <4>1
      <4>2. CASE u = t /\ b[2] <= Len(log[u])
        BY <1>4, <3>1, <4>2
      <4>3. CASE u = t /\ ~(b[2] <= Len(log[u]))
        <5>1. b[2] = Len(log[t]) + 1 /\ b[3] = count[t] /\ b[4] <= W
          BY <3>2, <4>3 DEF W
        <5>2. CASE W + n = m
          BY <1>6, <4>3, <5>1, <5>2, <1>0, <3>1
        <5>3. CASE W + n # m
          <6>1. pc'[t] \in InCall /\ log' = log
            BY <1>6, <5>3
          <6>2. b[4] <= written'[t]
            BY <1>0, <3>1, <5>1
          <6> QED
            BY <1>0, <4>3, <5>1, <6>1, <6>2
        <5> QED
          BY <5>2, <5>3
      <4> QED
        BY <4>1, <4>2, <4>3
    <3> QED
      BY <3>1, <3>3
  <2>2. ASSUME NEW i \in 1..n, p = A + i
        PROVE  LET b == accepted'[p] IN
               \/ b[2] <= Len(log'[b[1]])
               \/ /\ pc'[b[1]] \in InCall
                  /\ b[2] = Len(log'[b[1]]) + 1 /\ b[3] = count'[b[1]]
                  /\ b[4] <= written'[b[1]]
    <3>1. accepted'[p] = <<t, c, m, W + i>>
      BY <1>2, <2>2
    <3>2. CASE W + n = m
      <4>1. c <= Len(log'[t])
        BY <1>0, <1>6, <3>2
      <4> QED
        BY <3>1, <4>1
    <3>3. CASE W + n # m
      <4>1. pc'[t] \in InCall /\ c = Len(log'[t]) + 1 /\ m = count'[t]
        BY <1>0, <1>6, <3>3 DEF m
      <4>2. W + i <= written'[t]
        BY <1>0
      <4> QED
        BY <3>1, <4>1, <4>2
    <3> QED
      BY <3>2, <3>3
  <2> QED
    BY <1>3, <2>1, <2>2
<1>9. OrderInv'
  <2> SUFFICES ASSUME NEW q \in 1..(A + n), NEW p \in 1..(q - 1),
                      accepted'[p][1] = accepted'[q][1],
                      accepted'[p][2] = accepted'[q][2]
               PROVE  accepted'[p][4] < accepted'[q][4]
    BY <1>0 DEF OrderInv
  <2>0. p \in 1..(A + n) /\ p < q
    BY <1>0
  <2>1. CASE q \in 1..A
    <3>1. p \in 1..A
      BY <1>0, <2>1
    <3>2. accepted'[p] = accepted[p] /\ accepted'[q] = accepted[q]
      BY <1>1, <2>1, <3>1
    <3> QED
      BY <2>1, <3>2 DEF WritesInv, OrderInv, A
  <2>2. ASSUME NEW i \in 1..n, q = A + i PROVE accepted'[p][4] < accepted'[q][4]
    <3>1. accepted'[q] = <<t, c, m, W + i>>
      BY <1>2, <2>2
    <3>2. accepted'[q][4] = W + i /\ accepted'[p][1] = t /\ accepted'[p][2] = c
      BY <3>1
    <3>3. CASE p \in 1..A
      <4>1. accepted'[p] = accepted[p] /\ accepted[p][4] \in Nat
        BY <1>1, <1>7, <3>3
      <4>2. accepted[p][1] = t /\ accepted[p][2] = c
        BY <3>2, <4>1
      <4>3. accepted[p][4] <= written[t] \/ c <= Len(log[t])
        BY <3>3, <4>2 DEF WritesInv, BytesInv, A
      <4>4. accepted[p][4] <= W
        BY <1>0, <4>3 DEF W
      <4> QED
        BY <1>0, <3>2, <4>1, <4>4
    <3>4. ASSUME NEW j \in 1..n, p = A + j PROVE accepted'[p][4] < accepted'[q][4]
      <4>1. accepted'[p] = <<t, c, m, W + j>>
        BY <1>2, <3>4
      <4>2. accepted'[p][4] = W + j
        BY <4>1
      <4> QED
        BY <1>0, <2>0, <2>2, <3>2, <3>4, <4>2
    <3> QED
      BY <1>3, <2>0, <3>3, <3>4
  <2> QED
    BY <1>3, <2>1, <2>2
<1>10. ProgressInv'
  <2> SUFFICES ASSUME NEW u \in Writers, pc'[u] \in InCall
               PROVE  /\ \A o \in 1..written'[u] : \E p \in 1..(A + n) :
                            accepted'[p] = <<u, Len(log'[u]) + 1, count'[u], o>>
                      /\ Atomic(count'[u]) => written'[u] = 0
    BY <1>0 DEF ProgressInv, CurrentCall, Atomic
  <2>0. u \in Threads
    BY DEF Threads
  <2>1. \A p \in 1..A : p \in 1..(A + n)
    BY <1>0
  <2>2. CASE u # t
    <3>1. /\ pc[u] \in InCall /\ log'[u] = log[u] /\ written'[u] = written[u]
          /\ count'[u] = count[u]
      BY <1>0, <1>5, <2>0, <2>2
    <3>2. /\ \A o \in 1..written[u] : \E p \in 1..A :
                accepted[p] = <<u, Len(log[u]) + 1, count[u], o>>
          /\ Atomic(count[u]) => written[u] = 0
      BY <3>1 DEF WritesInv, ProgressInv, CurrentCall, A
    <3> QED
      BY <1>1, <2>1, <3>1, <3>2
  <2>3. CASE u = t
    <3>1. W + n # m /\ log' = log /\ count'[t] = m
      BY <1>0, <1>6, <2>3 DEF m
    <3>2. ~Atomic(m)
      <4>1. Atomic(m) => W = 0 /\ n = m
        BY AtomicWritesAll DEF WritesInv, m, W
      <4> QED
        BY <1>0, <3>1, <4>1
    <3>3. ASSUME NEW o \in 1..(W + n)
          PROVE  \E p \in 1..(A + n) : accepted'[p] = <<t, c, m, o>>
      <4>1. CASE o <= W
        <5>1. o \in 1..W
          BY <1>0, <4>1
        <5>2. \E p \in 1..A : accepted[p] = <<t, c, m, o>>
          BY <1>0, <5>1 DEF WritesInv, ProgressInv, A, c, m, W
        <5> QED
          BY <1>1, <2>1, <5>2
      <4>2. CASE ~(o <= W)
        <5>1. o - W \in 1..n /\ W + (o - W) = o /\ A + (o - W) \in 1..(A + n)
          BY <1>0, <4>2
        <5> QED
          BY <1>2, <5>1
      <4> QED
        BY <4>1, <4>2
    <3> QED
      BY <1>0, <2>3, <3>1, <3>2, <3>3
  <2> QED
    BY <2>2, <2>3
<1>11. AtomicWrites'
  <2> SUFFICES ASSUME NEW p \in 1..(A + n), Atomic(accepted'[p][3]),
                      NEW j \in 1..accepted'[p][3]
               PROVE  /\ p - accepted'[p][4] + j \in 1..(A + n)
                      /\ accepted'[p - accepted'[p][4] + j] =
                            <<accepted'[p][1], accepted'[p][2], accepted'[p][3], j>>
    BY <1>0 DEF AtomicWrites, Atomic
  <2>1. CASE p \in 1..A
    <3>1. accepted'[p] = accepted[p]
      BY <1>1, <2>1
    <3> DEFINE q == p - accepted[p][4] + j
    <3>2. /\ q \in 1..A
          /\ accepted[q] = <<accepted[p][1], accepted[p][2], accepted[p][3], j>>
      BY <2>1, <3>1 DEF WritesInv, AtomicWrites, A
    <3>3. accepted'[q] = accepted[q] /\ q \in 1..(A + n)
      <4> HIDE DEF q
      <4> QED
        BY <1>0, <1>1, <3>2
    <3> QED
      BY <3>1, <3>2, <3>3
  <2>2. ASSUME NEW i \in 1..n, p = A + i
        PROVE  /\ p - accepted'[p][4] + j \in 1..(A + n)
               /\ accepted'[p - accepted'[p][4] + j] =
                      <<accepted'[p][1], accepted'[p][2], accepted'[p][3], j>>
    <3>1. accepted'[p] = <<t, c, m, W + i>>
      BY <1>2, <2>2
    <3>2. /\ accepted'[p][1] = t /\ accepted'[p][2] = c
          /\ accepted'[p][3] = m /\ accepted'[p][4] = W + i
      BY <3>1
    <3>3. W = 0 /\ n = m
      <4>1. Atomic(m)
        BY <3>2
      <4> QED
        BY <4>1, AtomicWritesAll DEF WritesInv, m, W
    <3>4. j \in 1..n /\ p - accepted'[p][4] + j = A + j /\ A + j \in 1..(A + n)
      BY <1>0, <2>2, <3>2, <3>3
    <3>5. accepted'[A + j] = <<t, c, m, j>>
      <4>1. W + j = j
        BY <3>3, <3>4
      <4> QED
        BY <1>2, <3>4, <4>1
    <3> QED
      BY <3>2, <3>4, <3>5
  <2> QED
    BY <1>3, <2>1, <2>2
<1> QED
  BY <1>8, <1>9, <1>10, <1>11 DEF WritesInv

\* Every step keeps what was written as it was, or adds the next bytes of one call.
LEMMA WritesStep == TypeInv /\ WritesInv /\ [Next]_vars => WritesInv'
<1> SUFFICES ASSUME TypeInv, WritesInv, [Next]_vars PROVE WritesInv'
  OBVIOUS
<1>0. \A u \in Threads : Len(log[u]) \in Nat
  BY LenProperties DEF TypeInv, TypeOK
<1>1. ASSUME UNCHANGED <<accepted, callVars, log>>,
             \A u \in Threads : pc'[u] \in InCall <=> pc[u] \in InCall
      PROVE  WritesInv'
  <2>1. \A u \in Threads : /\ log'[u] = log[u] /\ count'[u] = count[u]
                           /\ written'[u] = written[u]
    BY <1>1 DEF callVars
  <2> QED
    BY <1>0, <1>1, <2>1, OtherStepWrites
<1>2. CASE Quiet
  BY <1>1, <1>2 DEF Quiet, CallsGoOn, ringVars
<1>3. ASSUME NEW t \in Threads, NEW n \in Nat, Enters(t, n) PROVE WritesInv'
  <2>1. /\ log' = log /\ accepted' = accepted /\ pc[t] \notin InCall /\ written'[t] = 0
        /\ \A u \in Threads : u # t => /\ count'[u] = count[u] /\ written'[u] = written[u]
                                       /\ pc'[u] \in InCall <=> pc[u] \in InCall
    BY <1>3 DEF Enters, CallsGoOn, InCall, ringVars, TypeInv, TypeOK
  <2> QED
    BY <1>0, <2>1, OtherStepWrites
<1>4. ASSUME NEW t \in Threads, NEW r \in Int, UNCHANGED <<accepted, callVars>>, Leaves(t),
             log' = [log EXCEPT ![t] = Append(@, r)]
      PROVE  WritesInv'
  <2>1. /\ Len(log'[t]) = Len(log[t]) + 1
        /\ \A u \in Threads : u # t => log'[u] = log[u]
    BY <1>4, LogGrows
  <2>2. pc'[t] \notin InCall
        /\ \A u \in Threads : u # t => (pc'[u] \in InCall <=> pc[u] \in InCall)
    BY <1>4 DEF Leaves, CallsGoOn, InCall
  <2>3. \A u \in Threads : Len(log'[u]) \in Nat
    BY <1>0, <2>1
  <2>4. \A u \in Threads : count'[u] = count[u] /\ written'[u] = written[u]
    BY <1>4 DEF callVars
  <2> QED
    BY <1>0, <1>4, <2>1, <2>2, <2>3, <2>4, OtherStepWrites
<1>5. ASSUME NEW t \in Threads, NEW n \in Nat, Reads(t, n) PROVE WritesInv'
  <2>1. n \in Int /\ UNCHANGED <<accepted, callVars>> /\ Leaves(t)
        /\ log' = [log EXCEPT ![t] = Append(@, n)]
    BY <1>5 DEF Reads, CopyOut
  <2> QED
    BY <1>4, <2>1
<1>6. ASSUME NEW t \in Threads, NEW r \in Int, Returns(t, r) PROVE WritesInv'
  <2>1. UNCHANGED <<accepted, callVars>> /\ Leaves(t)
        /\ log' = [log EXCEPT ![t] = Append(@, r)]
    BY <1>6 DEF Returns, ringVars
  <2> QED
    BY <1>4, <2>1
<1>7. ASSUME NEW t \in Threads, ReturnsZero(t) PROVE WritesInv'
  <2>1. /\ 0 \in Int /\ log' = [log EXCEPT ![t] = Append(@, 0)]
        /\ pc[t] \notin InCall /\ pc' = pc /\ UNCHANGED <<accepted, callVars>>
    BY <1>7 DEF ReturnsZero, InCall, ringVars
  <2>2. /\ Len(log'[t]) = Len(log[t]) + 1
        /\ \A u \in Threads : u # t => log'[u] = log[u]
    BY <2>1, LogGrows
  <2>3. \A u \in Threads : Len(log'[u]) \in Nat
    BY <1>0, <2>2
  <2>4. \A u \in Threads : count'[u] = count[u] /\ written'[u] = written[u]
    BY <2>1 DEF callVars
  <2> QED
    BY <1>0, <2>1, <2>2, <2>3, <2>4, OtherStepWrites
<1>8. ASSUME NEW t \in Threads, Release(t) PROVE WritesInv'
  <2>1. /\ UNCHANGED <<accepted, callVars, log>>
        /\ \A u \in Threads : pc'[u] \in InCall <=> pc[u] \in InCall
    BY <1>8 DEF Release, ringVars, InCall, TypeInv, TypeOK
  <2> QED
    BY <1>1, <2>1
<1>9. ASSUME NEW t \in Threads, CloseReadEnd(t) \/ CloseWriteEnd(t) PROVE WritesInv'
  <2>1. /\ UNCHANGED <<accepted, callVars, log>>
        /\ \A u \in Threads : pc'[u] \in InCall <=> pc[u] \in InCall
    BY <1>9 DEF CloseReadEnd, CloseWriteEnd, Wake, ringVars, InCall, TypeInv, TypeOK
  <2> QED
    BY <1>1, <2>1
<1> QED
  BY <1>2, <1>3, <1>5, <1>6, <1>7, <1>8, <1>9, StepKinds, WritesKeepOrder
-----------------------------------------------------------------------------
(* How many bytes of a call have entered.                                  *)

\* The places of the bytes of the c-th call of t.
PlacesOf(t, c) == {p \in 1..Len(accepted) : accepted[p][1] = t /\ accepted[p][2] = c}

\* They are finitely many.
LEMMA PlacesFinite ==
    ASSUME TypeInv, NEW t, NEW c
    PROVE  /\ IsFiniteSet(PlacesOf(t, c)) /\ Cardinality(PlacesOf(t, c)) \in Nat
           /\ AcceptedOf(t, c) = Cardinality(PlacesOf(t, c))
<1>1. Len(accepted) \in Nat
  BY LenProperties DEF TypeInv, TypeOK
<1>2. IsFiniteSet(1..Len(accepted))
  BY <1>1, FS_Interval
<1>3. PlacesOf(t, c) \subseteq 1..Len(accepted)
  BY DEF PlacesOf
<1> QED
  BY <1>2, <1>3, FS_Subset, FS_CardinalityType DEF PlacesOf, AcceptedOf

\* A write adds its n bytes to those of its own call, and to no other.
LEMMA PlacesGrow ==
    ASSUME TypeInv, NEW t \in Threads, NEW n \in Nat, Writes(t, n), NEW u \in Threads, NEW c
    PROVE  AcceptedOf(u, c)' =
             AcceptedOf(u, c) + (IF u = t /\ c = CurrentCall(t) THEN n ELSE 0)
<1> DEFINE A == Len(accepted)
           Old == PlacesOf(u, c)
           Now == {p \in 1..(A + n) : accepted'[p][1] = u /\ accepted'[p][2] = c}
           New == (A + 1)..(A + n)
<1>0. A \in Nat /\ Len(accepted') = A + n
  BY AcceptedGrows
<1>1. \A p \in 1..A : accepted'[p] = accepted[p]
  BY AcceptedGrows
<1>2. \A i \in 1..n : accepted'[A + i][1] = t /\ accepted'[A + i][2] = CurrentCall(t)
  <2>1. \A i \in 1..n : accepted'[A + i] = <<t, CurrentCall(t), count[t], written[t] + i>>
    BY AcceptedGrows
  <2> HIDE DEF A
  <2> SUFFICES ASSUME NEW i \in 1..n
               PROVE  accepted'[A + i][1] = t /\ accepted'[A + i][2] = CurrentCall(t)
    OBVIOUS
  <2>2. accepted'[A + i] = <<t, CurrentCall(t), count[t], written[t] + i>>
    BY <2>1
  <2> QED
    BY ONLY <2>2
<1>3. AcceptedOf(u, c)' = Cardinality(Now)
  BY <1>0 DEF AcceptedOf
<1>4. IsFiniteSet(Old) /\ Cardinality(Old) \in Nat /\ AcceptedOf(u, c) = Cardinality(Old)
  BY PlacesFinite
<1>5. IsFiniteSet(New) /\ Cardinality(New) = n
  <2>1. A + 1 \in Int /\ A + n \in Int
    BY <1>0
  <2>2. /\ IsFiniteSet(New)
        /\ Cardinality(New) = IF A + 1 > A + n THEN 0 ELSE A + n - (A + 1) + 1
    BY <2>1, FS_Interval
  <2> QED
    BY <1>0, <2>2
<1>6. \A p \in 1..(A + n) : \/ p \in 1..A /\ p \notin New
                            \/ p \in New /\ p \notin 1..A /\ \E i \in 1..n : p = A + i
  <2> TAKE p \in 1..(A + n)
  <2>1. CASE p \in 1..A
    BY <1>0, <2>1
  <2>2. CASE \E i \in 1..n : p = A + i
    BY <1>0, <2>2
  <2> QED
    BY <1>0, <2>1, <2>2, OldOrNew
<1>7. Old \subseteq 1..A /\ 1..A \subseteq 1..(A + n) /\ New \subseteq 1..(A + n)
      /\ Old \intersect New = {}
  <2>1. 1..A \subseteq 1..(A + n) /\ New \subseteq 1..(A + n)
    BY <1>0
  <2> QED
    BY <1>6, <2>1 DEF PlacesOf
<1>8. \A p \in 1..A : p \in Now <=> p \in Old
  BY <1>1, <1>7 DEF PlacesOf
<1>9. CASE u = t /\ c = CurrentCall(t)
  <2>1. \A p \in New : p \in Now
    <3> TAKE p \in New
    <3>1. PICK i \in 1..n : p = A + i
      BY <1>6, <1>7
    <3> QED
      BY <1>2, <1>7, <1>9, <3>1
  <2>2. Now = Old \union New
    <3> HIDE DEF New, Old
    <3>1. Now \subseteq 1..(A + n) /\ Old \subseteq 1..A
      BY <1>7
    <3> HIDE DEF Now
    <3> QED
      BY <1>6, <1>7, <1>8, <2>1, <3>1
  <2> HIDE DEF Now, Old, New
  <2>3. Cardinality(Now) = Cardinality(Old) + n - Cardinality(Old \intersect New)
    BY <1>4, <1>5, <2>2, FS_Union
  <2>4. Cardinality(Old \intersect New) = 0
    BY <1>7, FS_EmptySet
  <2> QED
    BY <1>3, <1>4, <1>9, <2>3, <2>4
<1>10. CASE ~(u = t /\ c = CurrentCall(t))
  <2>1. \A p \in New : p \notin Now
    <3> TAKE p \in New
    <3>1. PICK i \in 1..n : p = A + i
      BY <1>6, <1>7
    <3> QED
      BY <1>2, <1>10, <3>1
  <2>2. Now = Old
    <3> HIDE DEF New, Old
    <3>1. Now \subseteq 1..(A + n) /\ Old \subseteq 1..A
      BY <1>7
    <3> HIDE DEF Now
    <3> QED
      BY <1>6, <1>7, <1>8, <2>1, <3>1
  <2> HIDE DEF Now, Old
  <2>3. (IF u = t /\ c = CurrentCall(t) THEN n ELSE 0) = 0
    BY <1>10
  <2>4. AcceptedOf(u, c)' = AcceptedOf(u, c) /\ AcceptedOf(u, c) \in Nat
    BY <1>3, <1>4, <2>2
  <2> QED
    BY <2>3, <2>4
<1> QED
  BY <1>9, <1>10

\* No byte is yet of a call that has not begun.
LEMMA NoneYet ==
    ASSUME TypeInv, BytesInv, NEW t \in Threads, pc[t] \notin InCall
    PROVE  AcceptedOf(t, CurrentCall(t)) = 0
<1>1. ASSUME NEW p \in PlacesOf(t, CurrentCall(t)) PROVE FALSE
  <2>1. p \in 1..Len(accepted) /\ accepted[p][1] = t /\ accepted[p][2] = CurrentCall(t)
    BY DEF PlacesOf
  <2>2. accepted[p][2] <= Len(log[t])
    BY <2>1 DEF BytesInv
  <2>3. Len(log[t]) \in Nat
    BY LenProperties DEF TypeInv, TypeOK
  <2> QED
    BY <2>1, <2>2, <2>3 DEF CurrentCall
<1>2. PlacesOf(t, CurrentCall(t)) = {}
  BY <1>1
<1> QED
  BY <1>2, PlacesFinite, FS_EmptySet

\* The same, of calls named by number, before and after a step.
LEMMA CountInvParts ==
    /\ CountInv <=>
         \A u \in Writers : \A c :
            /\ c \in 1..Len(log[u]) =>
                  AcceptedOf(u, c) = IF log[u][c] > 0 THEN log[u][c] ELSE 0
            /\ pc[u] \in InCall /\ c = Len(log[u]) + 1 => AcceptedOf(u, c) = written[u]
    /\ CountInv' <=>
         \A u \in Writers : \A c :
            /\ c \in 1..Len(log'[u]) =>
                  AcceptedOf(u, c)' = IF log'[u][c] > 0 THEN log'[u][c] ELSE 0
            /\ pc'[u] \in InCall /\ c = Len(log'[u]) + 1 => AcceptedOf(u, c)' = written'[u]
<1>1. /\ CountInv <=>
           /\ \A u \in Writers : \A c \in 1..Len(log[u]) :
                 AcceptedOf(u, c) = IF log[u][c] > 0 THEN log[u][c] ELSE 0
           /\ \A u \in Writers : pc[u] \in InCall =>
                 AcceptedOf(u, Len(log[u]) + 1) = written[u]
      /\ CountInv' <=>
           /\ \A u \in Writers : \A c \in 1..Len(log'[u]) :
                 AcceptedOf(u, c)' = IF log'[u][c] > 0 THEN log'[u][c] ELSE 0
           /\ \A u \in Writers : pc'[u] \in InCall =>
                 AcceptedOf(u, Len(log[u]) + 1)' = written'[u]
  BY DEF CountInv, ResultIsWhatEntered, CurrentCall
<1>2. /\ \A u : \A c : c = Len(log[u]) + 1 => AcceptedOf(u, c) = AcceptedOf(u, Len(log[u]) + 1)
      /\ \A u : \A c : c = Len(log'[u]) + 1 =>
            AcceptedOf(u, c)' = AcceptedOf(u, Len(log[u]) + 1)'
  BY DEF AcceptedOf
<1> QED
  BY <1>1, <1>2

\* The counts stay right when no byte moves in and calls go on, begin or return what
\* is said of them.
LEMMA OtherStepCount ==
    ASSUME TypeInv, BytesInv, CountInv, UNCHANGED accepted,
           \A u \in Threads :
              \/ /\ pc'[u] \in InCall <=> pc[u] \in InCall
                 /\ log'[u] = log[u] /\ written'[u] = written[u]
              \/ /\ pc[u] \notin InCall /\ log'[u] = log[u] /\ written'[u] = 0
              \/ /\ pc'[u] \notin InCall
                 /\ \E r \in Int :
                      /\ log'[u] = Append(log[u], r)
                      /\ u \in Writers =>
                           AcceptedOf(u, CurrentCall(u)) = IF r > 0 THEN r ELSE 0
    PROVE  CountInv'
<1>1. \A u, c : AcceptedOf(u, c)' = AcceptedOf(u, c)
  BY DEF AcceptedOf
<1>2. SUFFICES ASSUME NEW u \in Writers, NEW c
               PROVE  /\ c \in 1..Len(log'[u]) =>
                            AcceptedOf(u, c) = IF log'[u][c] > 0 THEN log'[u][c] ELSE 0
                      /\ pc'[u] \in InCall /\ c = Len(log'[u]) + 1 =>
                            AcceptedOf(u, c) = written'[u]
  BY <1>1, CountInvParts
<1>3. /\ c \in 1..Len(log[u]) => AcceptedOf(u, c) = IF log[u][c] > 0 THEN log[u][c] ELSE 0
      /\ pc[u] \in InCall /\ c = Len(log[u]) + 1 => AcceptedOf(u, c) = written[u]
  BY CountInvParts
<1>4. u \in Threads /\ log[u] \in Seq(Int) /\ Len(log[u]) \in Nat
  BY LenProperties DEF Threads, TypeInv, TypeOK
<1>5. CASE /\ pc'[u] \in InCall <=> pc[u] \in InCall
           /\ log'[u] = log[u] /\ written'[u] = written[u]
  BY <1>3, <1>5
<1>6. CASE pc[u] \notin InCall /\ log'[u] = log[u] /\ written'[u] = 0
  <2>1. c = Len(log[u]) + 1 => AcceptedOf(u, c) = 0
    BY <1>4, <1>6, NoneYet DEF CurrentCall
  <2> QED
    BY <1>3, <1>6, <2>1
<1>7. ASSUME pc'[u] \notin InCall, NEW r \in Int, log'[u] = Append(log[u], r),
             AcceptedOf(u, CurrentCall(u)) = IF r > 0 THEN r ELSE 0,
             c \in 1..Len(log'[u])
      PROVE  AcceptedOf(u, c) = IF log'[u][c] > 0 THEN log'[u][c] ELSE 0
  <2>1. /\ Len(log'[u]) = Len(log[u]) + 1
        /\ \A i \in 1..Len(log[u]) : log'[u][i] = log[u][i]
        /\ log'[u][Len(log[u]) + 1] = r
    BY <1>4, <1>7, AppendProperties
  <2>2. c \in 1..Len(log[u]) \/ c = Len(log[u]) + 1
    BY <1>4, <1>7, <2>1
  <2>3. CASE c \in 1..Len(log[u])
    BY <1>3, <2>1, <2>3
  <2>4. CASE c = Len(log[u]) + 1
    BY <1>7, <2>1, <2>4 DEF CurrentCall
  <2> QED
    BY <2>2, <2>3, <2>4
<1> QED
  BY <1>4, <1>5, <1>6, <1>7

\* A write counts the bytes it puts in, and returns their number when it is over.
LEMMA WritesCount ==
    ASSUME TypeInv, CountInv, NEW t \in Threads, NEW n \in Nat, Writes(t, n)
    PROVE  CountInv'
<1>1. /\ Len(log[t]) \in Nat /\ CurrentCall(t) = Len(log[t]) + 1 /\ n >= 1
      /\ written[t] \in Nat /\ count[t] \in Nat /\ pc[t] \in InCall /\ t \in Writers
      /\ written'[t] = written[t] + n
  BY WritesCalls, WritesPart DEF CurrentCall, Writes
<1>2. SUFFICES ASSUME NEW u \in Writers, NEW c
               PROVE  /\ c \in 1..Len(log'[u]) =>
                            AcceptedOf(u, c)' = IF log'[u][c] > 0 THEN log'[u][c] ELSE 0
                      /\ pc'[u] \in InCall /\ c = Len(log'[u]) + 1 =>
                            AcceptedOf(u, c)' = written'[u]
  BY CountInvParts
<1>3. /\ c \in 1..Len(log[u]) => AcceptedOf(u, c) = IF log[u][c] > 0 THEN log[u][c] ELSE 0
      /\ pc[u] \in InCall /\ c = Len(log[u]) + 1 => AcceptedOf(u, c) = written[u]
  BY CountInvParts
<1>4. u \in Threads /\ AcceptedOf(u, c) \in Nat
  BY PlacesFinite DEF Threads
<1>5. AcceptedOf(u, c)' = AcceptedOf(u, c) + (IF u = t /\ c = CurrentCall(t) THEN n ELSE 0)
  BY <1>4, PlacesGrow
<1>6. CASE u = t /\ c = CurrentCall(t)
  <2>1. AcceptedOf(u, c)' = AcceptedOf(u, c) + n
    BY <1>5, <1>6
  <2>2. AcceptedOf(u, c) = written[t]
    BY <1>1, <1>3, <1>6
  <2>3. AcceptedOf(u, c)' = written[t] + n /\ written[t] + n > 0
    BY <1>1, <2>1, <2>2
  <2>4. ASSUME c \in 1..Len(log'[u])
        PROVE  AcceptedOf(u, c)' = IF log'[u][c] > 0 THEN log'[u][c] ELSE 0
    <3>1. c = Len(log[t]) + 1 /\ log' # log
      BY <1>1, <1>6, <2>4
    <3>2. written[t] + n = count[t] /\ log' = [log EXCEPT ![t] = Append(@, count[t])]
      BY <3>1, WritesCalls
    <3>3. log'[t][Len(log[t]) + 1] = count[t]
      <4>1. count[t] \in Int
        BY <1>1
      <4> QED
        BY <3>2, <4>1, LogGrows
    <3>4. log'[u][c] = count[t]
      BY <1>6, <3>1, <3>3
    <3> QED
      BY <2>3, <3>2, <3>4
  <2> QED
    BY <1>1, <1>6, <2>3, <2>4
<1>7. CASE ~(u = t /\ c = CurrentCall(t))
  <2>0. (IF u = t /\ c = CurrentCall(t) THEN n ELSE 0) = 0
    BY <1>7
  <2>1. AcceptedOf(u, c)' = AcceptedOf(u, c)
    BY <1>4, <1>5, <2>0
  <2>2. CASE u # t
    <3>1. /\ pc'[u] \in InCall <=> pc[u] \in InCall
          /\ log'[u] = log[u] /\ written'[u] = written[u]
      BY <1>4, <2>2, WritesCalls
    <3> QED
      BY <1>3, <2>1, <3>1
  <2>3. CASE u = t /\ log' = log
    <3>1. c # Len(log'[u]) + 1
      BY <1>1, <1>7, <2>3
    <3> QED
      BY <1>3, <2>1, <2>3, <3>1
  <2>4. CASE u = t /\ log' # log
    <3>1. /\ pc'[t] \notin InCall
          /\ log' = [log EXCEPT ![t] = Append(@, count[t])]
      BY <2>4, WritesCalls
    <3>2. /\ Len(log'[t]) = Len(log[t]) + 1
          /\ \A i \in 1..Len(log[t]) : log'[t][i] = log[t][i]
      <4>1. count[t] \in Int
        BY <1>1
      <4> QED
        BY <3>1, <4>1, LogGrows
    <3>3. c \in 1..Len(log'[t]) => c \in 1..Len(log[t])
      BY <1>1, <1>7, <2>4, <3>2
    <3> QED
      BY <1>3, <2>1, <2>4, <3>1, <3>2, <3>3
  <2> QED
    BY <2>2, <2>3, <2>4
<1> QED
  BY <1>6, <1>7

\* Nothing has been counted at first.
LEMMA InitCount == Init => CountInv
<1> SUFFICES ASSUME Init PROVE CountInv
  OBVIOUS
<1>1. \A u \in Writers : u \in Threads /\ 1..Len(log[u]) = {} /\ pc[u] = "idle"
  BY DEF Init, Threads
<1> QED
  BY <1>1 DEF CountInv, ResultIsWhatEntered, InCall

\* Every step keeps the counts.
LEMMA CountStep == TypeInv /\ BytesInv /\ CountInv /\ [Next]_vars => CountInv'
<1> SUFFICES ASSUME TypeInv, BytesInv, CountInv, [Next]_vars PROVE CountInv'
  OBVIOUS
<1>0. \A u \in Threads : written[u] \in Nat
  BY DEF TypeInv, TypeOK
<1>1. ASSUME UNCHANGED <<accepted, written, log>>,
             \A u \in Threads : pc'[u] \in InCall <=> pc[u] \in InCall
      PROVE  CountInv'
  <2>1. \A u \in Threads : log'[u] = log[u] /\ written'[u] = written[u]
    BY <1>1
  <2> QED
    BY <1>1, <2>1, OtherStepCount
<1>2. CASE Quiet
  BY <1>1, <1>2 DEF Quiet, CallsGoOn, ringVars, callVars
<1>3. ASSUME NEW t \in Threads, NEW n \in Nat, Enters(t, n) PROVE CountInv'
  <2>1. /\ log' = log /\ accepted' = accepted /\ pc[t] \notin InCall /\ written'[t] = 0
        /\ \A u \in Threads : u # t => /\ written'[u] = written[u]
                                       /\ pc'[u] \in InCall <=> pc[u] \in InCall
    BY <1>3 DEF Enters, CallsGoOn, InCall, ringVars, TypeInv, TypeOK
  <2> QED
    BY <2>1, OtherStepCount
<1>4. ASSUME NEW t \in Threads, NEW r \in Int, UNCHANGED <<accepted, written>>,
             log' = [log EXCEPT ![t] = Append(@, r)],
             pc'[t] \notin InCall,
             \A u \in Threads : u # t => (pc'[u] \in InCall <=> pc[u] \in InCall),
             t \in Writers => AcceptedOf(t, CurrentCall(t)) = IF r > 0 THEN r ELSE 0
      PROVE  CountInv'
  <2>1. log'[t] = Append(log[t], r) /\ \A u \in Threads : u # t => log'[u] = log[u]
    BY <1>4 DEF TypeInv, TypeOK
  <2>2. \A u \in Threads : u # t => written'[u] = written[u]
    BY <1>4
  <2> QED
    BY <1>4, <2>1, <2>2, OtherStepCount
<1>5. ASSUME NEW t \in Threads, Leaves(t)
      PROVE  /\ pc[t] \in InCall /\ pc'[t] \notin InCall
             /\ \A u \in Threads : u # t => (pc'[u] \in InCall <=> pc[u] \in InCall)
  BY <1>5 DEF Leaves, CallsGoOn, InCall
<1>6. ASSUME NEW t \in Threads, NEW n \in Nat, Reads(t, n) PROVE CountInv'
  <2>1. /\ n \in Int /\ UNCHANGED <<accepted, written>> /\ Leaves(t) /\ t \notin Writers
        /\ log' = [log EXCEPT ![t] = Append(@, n)]
    BY <1>6, ThreadsAssumption DEF Reads, CopyOut, callVars
  <2> QED
    BY <1>4, <1>5, <2>1
<1>7. ASSUME NEW t \in Threads, NEW r \in Int, Returns(t, r) PROVE CountInv'
  <2>1. /\ UNCHANGED <<accepted, written>> /\ Leaves(t)
        /\ log' = [log EXCEPT ![t] = Append(@, r)]
        /\ t \in Writers => IF written[t] > 0 THEN r = written[t] ELSE r < 0
    BY <1>7 DEF Returns, ringVars, callVars
  <2>2. t \in Writers => AcceptedOf(t, CurrentCall(t)) = written[t]
    BY <1>5, <2>1 DEF CountInv
  <2>3. t \in Writers => AcceptedOf(t, CurrentCall(t)) = IF r > 0 THEN r ELSE 0
    BY <1>0, <2>1, <2>2
  <2> QED
    BY <1>4, <1>5, <2>1, <2>3
<1>8. ASSUME NEW t \in Threads, ReturnsZero(t) PROVE CountInv'
  <2>1. /\ 0 \in Int /\ log' = [log EXCEPT ![t] = Append(@, 0)]
        /\ pc[t] \notin InCall /\ pc' = pc /\ UNCHANGED <<accepted, written>>
    BY <1>8 DEF ReturnsZero, InCall, ringVars, callVars
  <2>2. AcceptedOf(t, CurrentCall(t)) = 0
    BY <2>1, NoneYet
  <2> QED
    BY <1>4, <2>1, <2>2
<1>9. ASSUME NEW t \in Threads, Release(t) PROVE CountInv'
  <2>1. /\ UNCHANGED <<accepted, written, log>>
        /\ \A u \in Threads : pc'[u] \in InCall <=> pc[u] \in InCall
    BY <1>9 DEF Release, ringVars, callVars, InCall, TypeInv, TypeOK
  <2> QED
    BY <1>1, <2>1
<1>10. ASSUME NEW t \in Threads, CloseReadEnd(t) \/ CloseWriteEnd(t) PROVE CountInv'
  <2>1. /\ UNCHANGED <<accepted, written, log>>
        /\ \A u \in Threads : pc'[u] \in InCall <=> pc[u] \in InCall
    BY <1>10
    DEF CloseReadEnd, CloseWriteEnd, Wake, ringVars, callVars, InCall, TypeInv, TypeOK
  <2> QED
    BY <1>1, <2>1
<1> QED
  BY <1>2, <1>3, <1>6, <1>7, <1>8, <1>9, <1>10, StepKinds, WritesCount
-----------------------------------------------------------------------------

\* The strengthening all of the pipe's data properties follow from.
DataInv == HolderInv /\ RingInv /\ WritesInv /\ CountInv

\* TypeInv and DataInv together are inductive.
LEMMA DataInvariance == Spec => [](TypeInv /\ DataInv)
<1>1. Init => DataInv
  BY InitRing, InitWrites, InitCount DEF DataInv
<1>2. TypeInv /\ DataInv /\ [Next]_vars => DataInv'
  BY HolderStep, RingStep, WritesStep, CountStep DEF DataInv, WritesInv
<1> QED
  BY <1>1, <1>2, InitType, NextType, PTL DEF Spec

\* Pipe.cpp:106-148: what a writer is told of its bytes is what entered the pipe, and
\* small writes enter whole, whatever the capacity and however many write at once.
THEOREM WritesAreKept == Spec => []WritesKeepTheirWord
<1>1. DataInv => WritesKeepTheirWord
  BY DEF DataInv, WritesInv, CountInv, WritesKeepTheirWord
<1> QED
  BY <1>1, DataInvariance, PTL
-----------------------------------------------------------------------------
(* The pipe is the channel: each kind of step is a step of PipeChannel, or *)
(* changes nothing its users see.                                          *)

\* How far the channel says a call has come is how far the writer thinks it has: the
\* last of the call's bytes carries the offset it has reached.
LEMMA ProgressIsWritten ==
    ASSUME TypeInv, WritesInv, NEW t \in Writers, pc[t] \in InCall
    PROVE  Channel!Progress(t, CurrentCall(t), count[t]) = written[t]
<1> DEFINE c == CurrentCall(t)
           m == count[t]
           W == written[t]
           mine == {i \in 1..Len(accepted) :
                      <<accepted[i][1], accepted[i][2], accepted[i][3]>> = <<t, c, m>>}
<1>0. W \in Nat /\ c \in Nat /\ c > Len(log[t]) /\ Len(accepted) \in Nat
  BY LenProperties DEF Threads, TypeInv, TypeOK, CurrentCall
<1>1. \A i \in mine : /\ accepted[i][1] = t /\ accepted[i][2] = c
                      /\ i \in 1..Len(accepted)
                      /\ accepted[i][4] \in Nat /\ accepted[i][4] >= 1
                      /\ accepted[i][4] <= W
  <2> TAKE i \in mine
  <2>1. /\ accepted[i][1] = t /\ accepted[i][2] = c /\ i \in 1..Len(accepted)
        /\ Len(log[t]) \in Nat
    BY LenProperties DEF Threads, TypeInv, TypeOK
  <2>2. c <= Len(log[t]) \/ accepted[i][4] <= W
    BY <2>1 DEF WritesInv, BytesInv
  <2>3. accepted[i][4] <= W
    BY <1>0, <2>1, <2>2
  <2> QED
    BY <2>1, <2>3, ByteParts
<1>2. Channel!Progress(t, c, m) =
        IF mine = {} THEN 0 ELSE accepted[CHOOSE i \in mine : \A j \in mine : j <= i][4]
  BY DEF Channel!Progress
<1>3. CASE W = 0
  <2>1. \A i \in mine : FALSE
    <3> HIDE DEF mine, c, m, W
    <3> QED
      BY <1>1, <1>3
  <2>2. mine = {}
    BY <2>1
  <2> QED
    BY <1>2, <1>3, <2>2
<1>4. CASE W # 0
  <2>1. W \in 1..W
    BY <1>0, <1>4
  <2>2. PICK p \in 1..Len(accepted) : accepted[p] = <<t, c, m, W>>
    BY <2>1 DEF WritesInv, ProgressInv
  <2>3. p \in mine /\ accepted[p][4] = W
    BY <2>2
  <2>4. ASSUME NEW j \in mine PROVE j <= p
    <3>0. j \in 1..Len(accepted) /\ p \in 1..Len(accepted)
      BY <1>1, <2>4
    <3>1. SUFFICES ASSUME ~(j <= p) PROVE FALSE
      OBVIOUS
    <3>2. p \in 1..(j - 1)
      BY <1>0, <3>0, <3>1
    <3>3. accepted[p][4] < accepted[j][4]
      <4>1. accepted[p][1] = accepted[j][1] /\ accepted[p][2] = accepted[j][2]
        BY <1>1, <2>3
      <4> QED
        BY <3>0, <3>2, <4>1 DEF WritesInv, OrderInv
    <3>4. accepted[j][4] \in Nat /\ accepted[j][4] <= W
      BY <1>1
    <3> QED
      BY <1>0, <2>3, <3>3, <3>4
  <2>5. \A i \in mine : (\A j \in mine : j <= i) => i = p
    <3> TAKE i \in mine
    <3>1. i \in Int /\ p \in Int
      BY <1>1, <2>3
    <3> HIDE DEF mine
    <3> QED
      BY <2>3, <2>4, <3>1
  <2> HIDE DEF mine
  <2>6. (CHOOSE i \in mine : \A j \in mine : j <= i) = p
    BY <2>3, <2>4, <2>5
  <2>7. mine # {}
    BY <2>3
  <2> QED
    BY <1>2, <2>3, <2>6, <2>7
<1> QED
  BY <1>3, <1>4

\* The empty pipe is the empty channel.
LEMMA InitIsChannel == Init => Channel!Init
BY DEF Init, Channel!Init

\* What a write copies is the channel's next Put.
LEMMA WritesPut ==
    ASSUME TypeInv, DataInv, NEW t \in Threads, NEW n \in Nat, Writes(t, n)
    PROVE  /\ CurrentCall(t) \in 1..MaxCalls /\ count[t] \in WriteCounts /\ n \in 1..count[t]
           /\ Channel!Put(t, CurrentCall(t), count[t], n)
<1>1. /\ size + n <= Capacity /\ n >= 1 /\ count[t] \in WriteCounts
      /\ count[t] \in Nat /\ written[t] \in Nat /\ written[t] + n <= count[t]
      /\ CurrentCall(t) \in 1..MaxCalls
  BY WritesPart
<1>2. t \in Writers /\ readEndOpen /\ pc[t] = "held" /\ pc[t] \in InCall
      /\ UNCHANGED <<readEndOpen, writeEndOpen, consumed>>
      /\ accepted' = accepted \o CallBytes(t, written[t] + 1, n)
  BY DEF Writes, CopyIn, endVars, InCall
<1>3. writeEndOpen
  BY <1>2 DEF DataInv, HolderInv
<1>4. Channel!Progress(t, CurrentCall(t), count[t]) = written[t]
  BY <1>2, ProgressIsWritten DEF DataInv
<1>5. count[t] <= Smaller(AtomicSize, Capacity) => n = count[t]
  BY AtomicWritesAll DEF Atomic, DataInv, WritesInv
<1>6. Len(accepted) + n - Len(consumed) <= Capacity
  <2>1. Len(accepted) = Len(consumed) + size
    BY <1>2 DEF DataInv, RingInv
  <2>2. Len(consumed) \in Nat /\ size \in Nat
    BY LenProperties DEF TypeInv, TypeOK
  <2> QED
    BY <1>1, <2>1, <2>2, CapacityAssumption
<1>7. CallBytes(t, written[t] + 1, n) =
        [i \in 1..n |-> <<t, CurrentCall(t), count[t], written[t] + i>>]
  <2>1. \A i \in 1..n : written[t] + 1 + i - 1 = written[t] + i
    BY <1>1
  <2> QED
    BY <2>1 DEF CallBytes, CurrentCall
<1>8. n \in 1..count[t]
  BY <1>1
<1> QED
  BY <1>1, <1>2, <1>3, <1>4, <1>5, <1>6, <1>7, <1>8 DEF Channel!Put

\* What a read copies out is the channel's next Take.
LEMMA ReadsTake ==
    ASSUME TypeInv, DataInv, NEW t \in Threads, NEW n \in Nat, Reads(t, n)
    PROVE  n \in 1..Capacity /\ Channel!Take(n)
<1>1. n \in 1..size /\ CopyOut(n) /\ UNCHANGED <<readEndOpen, writeEndOpen, accepted>>
  BY DEF Reads, CopyOut, endVars
<1>2. size \in 0..Capacity /\ Capacity \in Nat /\ Len(consumed) \in Nat
      /\ Len(accepted) \in Nat /\ readEndOpen \in BOOLEAN
  BY LenProperties, CapacityAssumption DEF TypeInv, TypeOK
<1>3. size > 0
  BY <1>1, <1>2
<1>4. readEndOpen
  BY <1>2, <1>3 DEF DataInv, RingInv
<1>5. Len(accepted) = Len(consumed) + size
  BY <1>4 DEF DataInv, RingInv
<1>6. n \in 1..Capacity /\ Len(consumed) + n <= Len(accepted)
  BY <1>1, <1>2, <1>5
<1>7. consumed' = SubSeq(accepted, 1, Len(consumed) + n)
  BY <1>1, CopyOutRing DEF DataInv
<1> QED
  BY <1>1, <1>4, <1>6, <1>7 DEF Channel!Take

\* Every step maps to a step of the channel or to a stutter.
LEMMA NextIsChannel == TypeInv /\ DataInv /\ [Next]_vars => [Channel!Next]_(Channel!vars)
<1> SUFFICES ASSUME TypeInv, DataInv, [Next]_vars
             PROVE  Channel!Next \/ UNCHANGED Channel!vars
  OBVIOUS
<1>1. ASSUME UNCHANGED <<ringVars, endVars>> PROVE UNCHANGED Channel!vars
  BY <1>1 DEF ringVars, endVars, Channel!vars
<1>2. CASE Quiet
  BY <1>1, <1>2 DEF Quiet
<1>3. ASSUME NEW t \in Threads, NEW n \in Nat, Enters(t, n) PROVE UNCHANGED Channel!vars
  BY <1>1, <1>3 DEF Enters
<1>4. ASSUME NEW t \in Threads, NEW n \in Nat, Reads(t, n) PROVE Channel!Next
  BY <1>4, ReadsTake DEF Channel!Next
<1>5. ASSUME NEW t \in Threads, NEW n \in Nat, Writes(t, n) PROVE Channel!Next
  <2>1. t \in Writers
    BY <1>5 DEF Writes
  <2> QED
    BY <1>5, <2>1, WritesPut DEF Channel!Next
<1>6. ASSUME NEW t \in Threads, NEW r \in Int, Returns(t, r) PROVE UNCHANGED Channel!vars
  BY <1>1, <1>6 DEF Returns
<1>7. ASSUME NEW t \in Threads, ReturnsZero(t) PROVE UNCHANGED Channel!vars
  BY <1>1, <1>7 DEF ReturnsZero
<1>8. ASSUME NEW t \in Threads, Release(t) PROVE UNCHANGED Channel!vars
  BY <1>8 DEF Release, ringVars, Channel!vars
<1>9. ASSUME NEW t \in Threads, CloseReadEnd(t)
      PROVE  Channel!Next \/ UNCHANGED Channel!vars
  <2>1. readEndOpen' = FALSE /\ UNCHANGED <<accepted, consumed, writeEndOpen>>
    BY <1>9 DEF CloseReadEnd
  <2>2. readEndOpen \in BOOLEAN
    BY DEF TypeInv, TypeOK
  <2> QED
    BY <2>1, <2>2 DEF Channel!Next, Channel!CloseRead, Channel!vars
<1>10. ASSUME NEW t \in Threads, CloseWriteEnd(t)
       PROVE  Channel!Next \/ UNCHANGED Channel!vars
  <2>1. writeEndOpen' = FALSE /\ UNCHANGED <<accepted, consumed, readEndOpen>>
    BY <1>10 DEF CloseWriteEnd, ringVars
  <2>2. writeEndOpen \in BOOLEAN
    BY DEF TypeInv, TypeOK
  <2> QED
    BY <2>1, <2>2 DEF Channel!Next, Channel!CloseWrite, Channel!vars
<1> QED
  BY <1>2, <1>3, <1>4, <1>5, <1>6, <1>7, <1>8, <1>9, <1>10, StepKinds

\* IPipeService's promise, kept by Pipe.cpp for every number of readers and writers: the
\* pipe implements the first-in first-out channel of PipeChannel.
THEOREM PipeIsChannel == Spec => ImplementsChannel
BY DataInvariance, InitIsChannel, NextIsChannel, PTL
DEF Spec, ImplementsChannel, Channel!Spec
=============================================================================
