-------------------------------- MODULE Pipe --------------------------------
(***************************************************************************)
(* One pipe of the pipe service (PipeBuffer and its two ends, Pipe.cpp)     *)
(* and the stop tokens that interrupt the calls blocked in it              *)
(* (StopToken.h), at the granularity of their locks.                       *)
(*                                                                         *)
(* A thread inside Read or Write takes one step for each lock it acquires: *)
(* register the StopCallback (token mutex), lock the pipe (pipe mutex),    *)
(* one pass of the loop, join the condition variable's wait set, and at    *)
(* the end unregister (token mutex).  RequestStop holds the token mutex    *)
(* while it runs every registered callback, and each callback locks the    *)
(* pipe, so the two mutexes can deadlock and a wake-up can be lost.        *)
(***************************************************************************)
EXTENDS Integers, Sequences, FiniteSets

CONSTANTS
    Writers, Readers,   \* the threads that hold the write end, the read end
    Tokens,             \* the stop tokens of the processes involved
    TokenOf,            \* the token installed on each thread, or NoToken
    NoToken, NoThread,
    Capacity,           \* PipeBuffer::m_capacity
    AtomicSize,         \* kPipeAtomicWriteSize
    WriteCounts, ReadCounts, \* the counts calls are made with
    MaxCalls,           \* bound: calls made by one thread
    MaxSpurious         \* bound: spurious wake-ups of condition variables

Threads == Writers \union Readers

ASSUME ThreadsAssumption ==
    /\ Writers \intersect Readers = {}
    /\ NoThread \notin Threads
ASSUME TokensAssumption ==
    /\ NoToken \notin Tokens
    /\ TokenOf \in [Threads -> Tokens \union {NoToken}]
ASSUME CapacityAssumption ==
    /\ Capacity \in Nat \ {0}
    /\ AtomicSize \in Nat \ {0}
ASSUME BoundsAssumption ==
    /\ WriteCounts \subseteq Nat
    /\ ReadCounts \subseteq Nat
    /\ MaxCalls \in Nat
    /\ MaxSpurious \in Nat

VARIABLES
    storage, head, size,        \* the ring; storage is <<>> until allocated
    readEndOpen, writeEndOpen,
    mutex,                      \* the thread holding PipeBuffer::m_mutex
    pc,                         \* where each thread is in its call
    count, written,             \* the call's arguments and progress
    holders,                    \* the threads still holding a reference to their end
    stopRequested,              \* StopToken::m_stopRequested
    requesting,                 \* a RequestStop holds the token's mutex
    callbacks, toRun,           \* registered callbacks; those RequestStop still has to run
    spurious,                   \* spurious wake-ups so far
    accepted, consumed,         \* history: bytes ever copied into and out of the ring
    log                         \* history: the results of each thread's calls

ringVars == <<storage, head, size, accepted, consumed>>
endVars == <<readEndOpen, writeEndOpen, holders>>
tokenVars == <<stopRequested, requesting, callbacks, toRun>>
callVars == <<count, written>>
vars == <<ringVars, endVars, tokenVars, callVars, mutex, pc, spurious, log>>

-----------------------------------------------------------------------------
(* The results of a call other than a number of bytes (IFileDescriptor.h). *)

kIOBrokenPipe == -2
kIOInterrupted == -3

HasToken(t) == TokenOf[t] \in Tokens

\* The token test both loops make before they wait.
StopSeen(t) == HasToken(t) /\ stopRequested[TokenOf[t]]

\* A byte is named by the write call it belongs to: the writer, the number of
\* the call, its count, and the offset in the caller's buffer.
Byte == Writers \X (1..MaxCalls) \X WriteCounts \X (Nat \ {0})

\* What the cells of a freshly allocated ring hold.
Zero == <<>>

\* Faulty variant: every part of a write starts at the caller's first byte.
CallBytesFromStart(t, first, n) ==
    [i \in 1..n |-> <<t, Len(log[t]) + 1, count[t], i>>]

CallBytes(t, first, n) ==
    [i \in 1..n |-> <<t, Len(log[t]) + 1, count[t], first + i - 1>>]

-----------------------------------------------------------------------------
(* The ring.                                                               *)

At(i) == storage[((head + i) % Len(storage)) + 1]

Smaller(a, b) == IF a <= b THEN a ELSE b

Room == Capacity - size

Atomic(n) == n <= Smaller(AtomicSize, Capacity)

\* Faulty variant: any room lets an atomic write start.
NeedOne(t) == 1

Need(t) == IF Atomic(count[t]) THEN count[t] ELSE 1

CopyOut(n) ==
    /\ consumed' = consumed \o [i \in 1..n |-> At(i - 1)]
    /\ head' = (head + n) % Len(storage)
    /\ size' = size - n
    /\ UNCHANGED <<storage, accepted>>

\* Bytes bs are placed after the size bytes already there; the storage is
\* allocated by the first copy.
CopyIn(bs) ==
    /\ storage' =
         [j \in 1..Capacity |->
            LET d == (j - 1 - head - size) % Capacity
            IN  IF d < Len(bs) THEN bs[d + 1]
                ELSE IF storage = <<>> THEN Zero ELSE storage[j]]
    /\ size' = size + Len(bs)
    /\ accepted' = accepted \o bs
    /\ UNCHANGED <<head, consumed>>

-----------------------------------------------------------------------------
(* Program counters.  "waiting" is membership of a wait set: m_canRead's   *)
(* for a reader, m_canWrite's for a writer.                                *)

PCs == {"idle", "register", "selfWake", "lock", "held", "toWait", "waiting",
        "unregister", "closing"}

\* notify_all on the conditions the threads of S wait on: they go back to
\* acquire the mutex.
Wake(S) ==
    [u \in Threads |-> IF u \in S /\ pc[u] = "waiting" THEN "lock" ELSE pc[u]]

\* The thread leaves the loop with result r: it releases the mutex and goes
\* on to destroy its StopCallback.  S is notified on the way.
Finish(t, r, S) ==
    /\ mutex' = NoThread
    /\ log' = [log EXCEPT ![t] = Append(@, r)]
    /\ pc' = [Wake(S) EXCEPT ![t] = IF HasToken(t) THEN "unregister" ELSE "idle"]

Init ==
    /\ storage = <<>> /\ head = 0 /\ size = 0
    /\ accepted = <<>> /\ consumed = <<>>
    /\ readEndOpen = TRUE /\ writeEndOpen = TRUE
    /\ holders = Threads
    /\ mutex = NoThread
    /\ pc = [t \in Threads |-> "idle"]
    /\ count = [t \in Threads |-> 0]
    /\ written = [t \in Threads |-> 0]
    /\ log = [t \in Threads |-> <<>>]
    /\ stopRequested = [k \in Tokens |-> FALSE]
    /\ requesting = [k \in Tokens |-> FALSE]
    /\ callbacks = [k \in Tokens |-> {}]
    /\ toRun = [k \in Tokens |-> {}]
    /\ spurious = 0

-----------------------------------------------------------------------------
(* Entering a call.                                                        *)

\* A zero-length call returns 0 at once; any other constructs its StopCallback,
\* which does nothing on a thread that carries no token.
BeginCall(t, n) ==
    /\ pc[t] = "idle"
    /\ t \in holders
    /\ Len(log[t]) < MaxCalls
    /\ IF n = 0
       THEN /\ log' = [log EXCEPT ![t] = Append(@, 0)]
            /\ UNCHANGED <<pc, callVars>>
       ELSE /\ pc' = [pc EXCEPT ![t] = IF HasToken(t) THEN "register" ELSE "lock"]
            /\ count' = [count EXCEPT ![t] = n]
            /\ written' = [written EXCEPT ![t] = 0]
            /\ UNCHANGED log
    /\ UNCHANGED <<ringVars, endVars, tokenVars, mutex, spurious>>

Begin(t) ==
    \/ t \in Writers /\ \E n \in WriteCounts : BeginCall(t, n)
    \/ t \in Readers /\ \E n \in ReadCounts : BeginCall(t, n)

\* StopCallback's constructor: under the token's mutex, it registers the wake-up
\* unless the stop was requested already.
Register(t) ==
    LET k == TokenOf[t] IN
    /\ pc[t] = "register"
    /\ ~requesting[k]
    /\ IF stopRequested[k]
       THEN /\ pc' = [pc EXCEPT ![t] = "selfWake"]
            /\ UNCHANGED callbacks
       ELSE /\ pc' = [pc EXCEPT ![t] = "lock"]
            /\ callbacks' = [callbacks EXCEPT ![k] = @ \union {t}]
    /\ UNCHANGED <<ringVars, endVars, callVars, stopRequested, requesting, toRun,
                   mutex, spurious, log>>

\* A callback constructed after the stop runs at once, on this thread, with
\* the token's mutex released.
SelfWake(t) ==
    /\ pc[t] = "selfWake"
    /\ mutex = NoThread
    /\ pc' = [Wake(Threads) EXCEPT ![t] = "lock"]
    /\ UNCHANGED <<ringVars, endVars, tokenVars, callVars, mutex, spurious, log>>

Acquire(t) ==
    /\ pc[t] = "lock"
    /\ mutex = NoThread
    /\ mutex' = t
    /\ pc' = [pc EXCEPT ![t] = "held"]
    /\ UNCHANGED <<ringVars, endVars, tokenVars, callVars, spurious, log>>

-----------------------------------------------------------------------------
(* One pass of Read's loop, under the mutex.                               *)

InLoop(t) == pc[t] = "held" /\ mutex = t

\* The last test failed: the thread is going to wait.  It still holds the
\* mutex, but a stop may be requested from here on.
DecideToWait(t) ==
    /\ pc' = [pc EXCEPT ![t] = "toWait"]
    /\ UNCHANGED <<ringVars, mutex, log>>

ReadData(t) ==
    LET n == Smaller(count[t], size) IN
    /\ size > 0
    /\ CopyOut(n)
    /\ Finish(t, n, Writers)

ReadEOF(t) ==
    /\ size = 0
    /\ ~writeEndOpen
    /\ Finish(t, 0, {})
    /\ UNCHANGED ringVars

ReadInterrupted(t) ==
    /\ size = 0
    /\ writeEndOpen
    /\ StopSeen(t)
    /\ Finish(t, kIOInterrupted, {})
    /\ UNCHANGED ringVars

ReadWait(t) ==
    /\ size = 0
    /\ writeEndOpen
    /\ ~StopSeen(t)
    /\ DecideToWait(t)

ReadPass(t) ==
    /\ t \in Readers
    /\ InLoop(t)
    /\ ReadData(t) \/ ReadEOF(t) \/ ReadInterrupted(t) \/ ReadWait(t)
    /\ UNCHANGED <<endVars, tokenVars, callVars, spurious>>

-----------------------------------------------------------------------------
(* One pass of Write's loop, under the mutex.                              *)

WriteBroken(t) ==
    /\ ~readEndOpen
    /\ Finish(t, IF written[t] > 0 THEN written[t] ELSE kIOBrokenPipe, {})
    /\ UNCHANGED <<ringVars, callVars>>

\* Copies what fits; the call is over when nothing is left, and otherwise the
\* thread makes another pass, still holding the mutex.
WriteCopy(t) ==
    LET n == Smaller(Room, count[t] - written[t]) IN
    /\ readEndOpen
    /\ Room >= Need(t)
    /\ CopyIn(CallBytes(t, written[t] + 1, n))
    /\ written' = [written EXCEPT ![t] = @ + n]
    /\ UNCHANGED count
    /\ IF written'[t] = count[t]
       THEN Finish(t, count[t], Readers)
       ELSE /\ pc' = Wake(Readers)
            /\ UNCHANGED <<mutex, log>>

\* Faulty variant: an interrupted write forgets the part it has written.
WriteInterruptedNoPart(t) ==
    /\ readEndOpen
    /\ Room < Need(t)
    /\ StopSeen(t)
    /\ Finish(t, kIOInterrupted, {})
    /\ UNCHANGED <<ringVars, callVars>>

WriteInterrupted(t) ==
    /\ readEndOpen
    /\ Room < Need(t)
    /\ StopSeen(t)
    /\ Finish(t, IF written[t] > 0 THEN written[t] ELSE kIOInterrupted, {})
    /\ UNCHANGED <<ringVars, callVars>>

WriteWait(t) ==
    /\ readEndOpen
    /\ Room < Need(t)
    /\ ~StopSeen(t)
    /\ DecideToWait(t)
    /\ UNCHANGED callVars

WritePass(t) ==
    /\ t \in Writers
    /\ InLoop(t)
    /\ WriteBroken(t) \/ WriteCopy(t) \/ WriteInterrupted(t) \/ WriteWait(t)
    /\ UNCHANGED <<endVars, tokenVars, spurious>>

-----------------------------------------------------------------------------
(* Waiting.                                                                *)

\* wait() releases the mutex and joins the wait set in one step.
Wait(t) ==
    /\ pc[t] = "toWait"
    /\ mutex = t
    /\ mutex' = NoThread
    /\ pc' = [pc EXCEPT ![t] = "waiting"]
    /\ UNCHANGED <<ringVars, endVars, tokenVars, callVars, spurious, log>>

SpuriousWake(t) ==
    /\ pc[t] = "waiting"
    /\ spurious < MaxSpurious
    /\ spurious' = spurious + 1
    /\ pc' = [pc EXCEPT ![t] = "lock"]
    /\ UNCHANGED <<ringVars, endVars, tokenVars, callVars, mutex, log>>

\* Faulty variant: the callback is erased without the token's mutex.
UnregisterUnlocked(t) ==
    LET k == TokenOf[t] IN
    /\ pc[t] = "unregister"
    /\ callbacks' = [callbacks EXCEPT ![k] = @ \ {t}]
    /\ pc' = [pc EXCEPT ![t] = "idle"]
    /\ UNCHANGED <<ringVars, endVars, callVars, stopRequested, requesting, toRun,
                   mutex, spurious, log>>

\* ~StopCallback: without a registered callback there is nothing to do; else
\* it erases it under the token's mutex, which a RequestStop may hold.
Unregister(t) ==
    LET k == TokenOf[t] IN
    /\ pc[t] = "unregister"
    /\ t \in callbacks[k] => ~requesting[k]
    /\ callbacks' = [callbacks EXCEPT ![k] = @ \ {t}]
    /\ pc' = [pc EXCEPT ![t] = "idle"]
    /\ UNCHANGED <<ringVars, endVars, callVars, stopRequested, requesting, toRun,
                   mutex, spurious, log>>

-----------------------------------------------------------------------------
(* The ends.  Each is one object shared by its holders; the release of the *)
(* last reference runs its destructor, which closes the end.  A call in    *)
(* flight holds a reference, so only a thread between calls releases one.  *)

Side(t) == IF t \in Writers THEN Writers ELSE Readers

Release(t) ==
    /\ pc[t] = "idle"
    /\ t \in holders
    /\ holders' = holders \ {t}
    /\ pc' = [pc EXCEPT ![t] =
                IF holders \intersect Side(t) = {t} THEN "closing" ELSE "idle"]
    /\ UNCHANGED <<ringVars, readEndOpen, writeEndOpen, tokenVars, callVars, mutex,
                   spurious, log>>

\* Faulty variant: closing the read end wakes nobody.
CloseReadEndSilently(t) ==
    /\ t \in Readers
    /\ pc[t] = "closing"
    /\ mutex = NoThread
    /\ readEndOpen' = FALSE
    /\ storage' = <<>> /\ head' = 0 /\ size' = 0
    /\ pc' = [pc EXCEPT ![t] = "idle"]
    /\ UNCHANGED <<accepted, consumed, writeEndOpen, holders, tokenVars, callVars, mutex,
                   spurious, log>>

\* The buffered bytes are dropped with the ring: nobody can read them.
CloseReadEnd(t) ==
    /\ t \in Readers
    /\ pc[t] = "closing"
    /\ mutex = NoThread
    /\ readEndOpen' = FALSE
    /\ storage' = <<>> /\ head' = 0 /\ size' = 0
    /\ pc' = [Wake(Writers) EXCEPT ![t] = "idle"]
    /\ UNCHANGED <<accepted, consumed, writeEndOpen, holders, tokenVars, callVars, mutex,
                   spurious, log>>

CloseWriteEnd(t) ==
    /\ t \in Writers
    /\ pc[t] = "closing"
    /\ mutex = NoThread
    /\ writeEndOpen' = FALSE
    /\ pc' = [Wake(Readers) EXCEPT ![t] = "idle"]
    /\ UNCHANGED <<ringVars, readEndOpen, holders, tokenVars, callVars, mutex, spurious,
                   log>>

-----------------------------------------------------------------------------
(* StopToken::RequestStop: the flag is set and every registered callback   *)
(* is run with the token's mutex held.  A second request returns at once.  *)

RequestStop(k) ==
    /\ ~requesting[k]
    /\ ~stopRequested[k]
    /\ stopRequested' = [stopRequested EXCEPT ![k] = TRUE]
    /\ requesting' = [requesting EXCEPT ![k] = TRUE]
    /\ toRun' = [toRun EXCEPT ![k] = callbacks[k]]
    /\ UNCHANGED <<ringVars, endVars, callVars, callbacks, mutex, pc, spurious, log>>

\* Faulty variant: the callback notifies without the pipe's mutex.
RunCallbackUnlocked(k, t) ==
    /\ t \in toRun[k]
    /\ toRun' = [toRun EXCEPT ![k] = @ \ {t}]
    /\ pc' = Wake(Threads)
    /\ UNCHANGED <<ringVars, endVars, callVars, stopRequested, requesting, callbacks,
                   mutex, spurious, log>>

\* Faulty variant: the callback notifies m_canRead only.
RunCallbackHalf(k, t) ==
    /\ t \in toRun[k]
    /\ mutex = NoThread
    /\ toRun' = [toRun EXCEPT ![k] = @ \ {t}]
    /\ pc' = Wake(Readers)
    /\ UNCHANGED <<ringVars, endVars, callVars, stopRequested, requesting, callbacks,
                   mutex, spurious, log>>

\* A callback locks the pipe and notifies both conditions.
RunCallback(k, t) ==
    /\ t \in toRun[k]
    /\ mutex = NoThread
    /\ toRun' = [toRun EXCEPT ![k] = @ \ {t}]
    /\ pc' = Wake(Threads)
    /\ UNCHANGED <<ringVars, endVars, callVars, stopRequested, requesting, callbacks,
                   mutex, spurious, log>>

RequestStopReturns(k) ==
    /\ requesting[k]
    /\ toRun[k] = {}
    /\ requesting' = [requesting EXCEPT ![k] = FALSE]
    /\ UNCHANGED <<ringVars, endVars, callVars, stopRequested, callbacks, toRun, mutex,
                   pc, spurious, log>>

-----------------------------------------------------------------------------

\* What a thread does on its own once it is inside a call or a destructor.
Step(t) ==
    \/ Register(t) \/ SelfWake(t) \/ Acquire(t)
    \/ ReadPass(t) \/ WritePass(t) \/ Wait(t) \/ Unregister(t)
    \/ CloseReadEnd(t) \/ CloseWriteEnd(t)

StopStep(k) == RequestStopReturns(k) \/ \E t \in Threads : RunCallback(k, t)

Next ==
    \/ \E t \in Threads : Begin(t) \/ Step(t) \/ SpuriousWake(t) \/ Release(t)
    \/ \E k \in Tokens : RequestStop(k) \/ StopStep(k)

Spec == Init /\ [][Next]_vars

\* A thread inside a call runs, and std::mutex lets every thread in that asks
\* for it again and again; callers need not call, release or stop anything.
Fairness ==
    /\ \A t \in Threads : WF_vars(Step(t))
    /\ \A k \in Tokens : WF_vars(StopStep(k))

FairSpec == Spec /\ Fairness

-----------------------------------------------------------------------------
(* Properties.                                                             *)

TypeOK ==
    /\ storage \in {<<>>} \union [1..Capacity -> Byte \union {Zero}]
    /\ head \in 0..(Capacity - 1)
    /\ size \in 0..Capacity
    /\ readEndOpen \in BOOLEAN
    /\ writeEndOpen \in BOOLEAN
    /\ mutex \in Threads \union {NoThread}
    /\ pc \in [Threads -> PCs]
    /\ count \in [Threads -> Nat]
    /\ written \in [Threads -> Nat]
    /\ holders \subseteq Threads
    /\ stopRequested \in [Tokens -> BOOLEAN]
    /\ requesting \in [Tokens -> BOOLEAN]
    /\ callbacks \in [Tokens -> SUBSET Threads]
    /\ toRun \in [Tokens -> SUBSET Threads]
    /\ spurious \in 0..MaxSpurious
    /\ accepted \in Seq(Byte)
    /\ consumed \in Seq(Byte \union {Zero})
    /\ log \in [Threads -> Seq(Int)]

\* No lost wake-up (Pipe.cpp:35-41): a thread inside wait() would wait again if
\* it looked now, or the callback of the stop it is to see has still to run.
WaitsForGoodReason(t) ==
    /\ IF t \in Readers THEN size = 0 /\ writeEndOpen
                        ELSE readEndOpen /\ Room < Need(t)
    /\ StopSeen(t) => t \in toRun[TokenOf[t]]

NoLostWakeup == \A t \in Threads : pc[t] = "waiting" => WaitsForGoodReason(t)

\* StopToken.h:30-34: a callback RequestStop may still run belongs to a call that
\* has not returned, whose frame it refers to.
CallbackOwnerAlive ==
    \A k \in Tokens : \A t \in callbacks[k] \union toRun[k] :
        pc[t] \notin {"idle", "register", "closing"}

\* IPipeService's atomic writes: the bytes of a write of at most
\* min(kPipeAtomicWriteSize, capacity) enter together or not at all, with no
\* other writer's in between.
AtomicWrites ==
    \A p \in 1..Len(accepted) :
        LET b == accepted[p] IN
        Atomic(b[3]) =>
            \A j \in 1..b[3] :
                LET q == p - b[4] + j IN
                /\ q \in 1..Len(accepted)
                /\ accepted[q] = <<b[1], b[2], b[3], j>>

\* How many bytes of t's n-th call have entered the pipe.
AcceptedOf(t, n) ==
    Cardinality({p \in 1..Len(accepted) : accepted[p][1] = t /\ accepted[p][2] = n})

\* The count a write returned is what entered the pipe: a partial count after a
\* stop or a broken pipe names exactly the bytes to go on from, and a negative
\* result says that none did.
ResultIsWhatEntered ==
    \A t \in Writers : \A n \in 1..Len(log[t]) :
        AcceptedOf(t, n) = IF log[t][n] > 0 THEN log[t][n] ELSE 0

\* Pipe.cpp:106-148: what a writer is told of its bytes and what a reader will see
\* of them agree, and the small writes are whole.
WritesKeepTheirWord == AtomicWrites /\ ResultIsWhatEntered

\* The pipe is the channel IPipeService promises: the ring, the loops and the
\* wake-ups change nothing a user of the two ends can see.
Channel ==
    INSTANCE PipeChannel
        WITH AtomicLimit <- Smaller(AtomicSize, Capacity),
             sent <- accepted, received <- consumed,
             readOpen <- readEndOpen, writeOpen <- writeEndOpen

ImplementsChannel == Channel!Spec

\* A stopped thread's call returns, whatever the other threads do.
StoppedCallReturns ==
    \A t \in Threads : StopSeen(t) ~> pc[t] = "idle"

\* Once an end is gone nobody stays blocked at the other, stopped or not.
ClosedEndReleasesOther ==
    /\ \A t \in Readers : ~writeEndOpen ~> pc[t] = "idle"
    /\ \A t \in Writers : ~readEndOpen ~> pc[t] = "idle"

\* Pipe.cpp:35-41 and 166-183: neither a stop nor the end of the other side leaves
\* a thread blocked in a read or a write.
CallsReturn == StoppedCallReturns /\ ClosedEndReleasesOther
=============================================================================
