---------------------------- MODULE PipeChannel ----------------------------
(***************************************************************************)
(* What IPipeService promises of a pipe, without threads, locks or a ring: *)
(* a bounded first-in first-out channel of bytes between two ends.         *)
(***************************************************************************)
EXTENDS Integers, Sequences

CONSTANTS
    Writers,        \* who may write
    Capacity,       \* the most bytes the channel holds
    AtomicLimit,    \* writes up to this count enter whole
    WriteCounts, MaxCalls

VARIABLES
    sent, received,         \* every byte that entered, every byte that left
    readOpen, writeOpen

vars == <<sent, received, readOpen, writeOpen>>

Init ==
    /\ sent = <<>> /\ received = <<>>
    /\ readOpen = TRUE /\ writeOpen = TRUE

\* How far the c-th write of w, of n bytes, has come.
Progress(w, c, n) ==
    LET mine == {i \in 1..Len(sent) : <<sent[i][1], sent[i][2], sent[i][3]>> = <<w, c, n>>}
    IN  IF mine = {} THEN 0 ELSE sent[CHOOSE i \in mine : \A j \in mine : j <= i][4]

\* A write puts its next k bytes in, all of them at once when it is atomic.
Put(w, c, n, k) ==
    LET done == Progress(w, c, n) IN
    /\ readOpen /\ writeOpen
    /\ n <= AtomicLimit => k = n
    /\ done + k <= n
    /\ Len(sent) + k - Len(received) <= Capacity
    /\ sent' = sent \o [i \in 1..k |-> <<w, c, n, done + i>>]
    /\ UNCHANGED <<received, readOpen, writeOpen>>

\* A read takes the k bytes that have waited longest.
Take(k) ==
    /\ readOpen
    /\ Len(received) + k <= Len(sent)
    /\ received' = SubSeq(sent, 1, Len(received) + k)
    /\ UNCHANGED <<sent, readOpen, writeOpen>>

CloseRead == readOpen /\ readOpen' = FALSE /\ UNCHANGED <<sent, received, writeOpen>>

CloseWrite == writeOpen /\ writeOpen' = FALSE /\ UNCHANGED <<sent, received, readOpen>>

Next ==
    \/ \E w \in Writers, c \in 1..MaxCalls, n \in WriteCounts :
           \E k \in 1..n : Put(w, c, n, k)
    \/ \E k \in 1..Capacity : Take(k)
    \/ CloseRead
    \/ CloseWrite

Spec == Init /\ [][Next]_vars
=============================================================================
