-------------------------- MODULE DescriptorTable ---------------------------
(***************************************************************************)
(* What IFileIO promises of a process's descriptor table: a POSIX table of *)
(* Max numbered slots, each call one atomic step, the lowest free slot     *)
(* taken, a failed call changing nothing, and an open file closed only     *)
(* when no slot holds it.                                                  *)
(***************************************************************************)
EXTENDS Integers

CONSTANTS Descriptors, None, Max

VARIABLES
    table,      \* slot -> open file or None
    closed,     \* the open files whose last holder let go
    answer      \* the last call, with its arguments and what it returned

vars == <<table, closed, answer>>

Slots == 0..(Max - 1)
Open == Descriptors \ closed
Free == {fd \in Slots : table[fd] = None}
Used(fd) == fd \in Slots \ Free
Lowest(fd, S) == fd \in S /\ \A g \in S : fd <= g

Init ==
    /\ table = [fd \in Slots |-> None]
    /\ closed = {}
    /\ answer = <<>>

GetDescriptor(fd) ==
    /\ answer' = <<"GetDescriptor", fd, IF Used(fd) THEN table[fd] ELSE None>>
    /\ UNCHANGED <<table, closed>>

\* d in the lowest free slot, or -1 when there is none; call is what was asked.
Place(call, arg, d) ==
    /\ IF Free = {}
       THEN answer' = <<call, arg, -1>> /\ UNCHANGED table
       ELSE \E fd \in Free :
                /\ Lowest(fd, Free)
                /\ table' = [table EXCEPT ![fd] = d]
                /\ answer' = <<call, arg, fd>>
    /\ UNCHANGED closed

AddDescriptor(d) == Place("AddDescriptor", d, d)

Dup(fd) ==
    IF Used(fd)
    THEN Place("Dup", fd, table[fd])
    ELSE answer' = <<"Dup", fd, -1>> /\ UNCHANGED <<table, closed>>

Dup2(oldFd, newFd) ==
    /\ IF Used(oldFd) /\ newFd \in Slots
       THEN /\ table' = [table EXCEPT ![newFd] = table[oldFd]]
            /\ answer' = <<"Dup2", oldFd, newFd, newFd>>
       ELSE answer' = <<"Dup2", oldFd, newFd, -1>> /\ UNCHANGED table
    /\ UNCHANGED closed

CloseDescriptor(fd) ==
    /\ IF Used(fd)
       THEN /\ table' = [table EXCEPT ![fd] = None]
            /\ answer' = <<"CloseDescriptor", fd, 0>>
       ELSE answer' = <<"CloseDescriptor", fd, -1>> /\ UNCHANGED table
    /\ UNCHANGED closed

\* The read end in the lowest free slot and the write end in the next one, or
\* nothing at all.
CreatePipe(r, w) ==
    /\ IF \E f, g \in Free : f # g
       THEN \E f, g \in Free :
                /\ Lowest(f, Free)
                /\ Lowest(g, Free \ {f})
                /\ table' = [table EXCEPT ![f] = r, ![g] = w]
                /\ answer' = <<"CreatePipe", r, w, <<f, g>>>>
       ELSE answer' = <<"CreatePipe", r, w, None>> /\ UNCHANGED table
    /\ UNCHANGED closed

\* Slots 0, 1 and 2 of a table that holds nothing yet.
InstallStandardStreams(i, o, e) ==
    /\ IF Free = Slots
       THEN /\ table' = [fd \in Slots |->
                             IF fd = 0 THEN i ELSE IF fd = 1 THEN o
                             ELSE IF fd = 2 THEN e ELSE None]
            /\ answer' = <<"InstallStandardStreams", i, o, e, TRUE>>
       ELSE answer' = <<"InstallStandardStreams", i, o, e, FALSE>> /\ UNCHANGED table
    /\ UNCHANGED closed

ReleaseAllDescriptors ==
    /\ table' = [fd \in Slots |-> None]
    /\ answer' = <<"ReleaseAllDescriptors">>
    /\ UNCHANGED closed

\* The last holder of the open files D lets go of them.
LetGo(D) ==
    /\ \A fd \in Slots : table[fd] \notin D
    /\ closed' = closed \union D
    /\ UNCHANGED <<table, answer>>

\* The numbers a caller may pass: every slot, and one out of range at each side.
Numbers == -1..Max

Next ==
    \/ \E fd \in Numbers : GetDescriptor(fd) \/ Dup(fd) \/ CloseDescriptor(fd)
    \/ \E oldFd, newFd \in Numbers : Dup2(oldFd, newFd)
    \/ \E d \in Open : AddDescriptor(d)
    \/ \E r, w \in Open : CreatePipe(r, w)
    \/ \E i, o, e \in Open : InstallStandardStreams(i, o, e)
    \/ ReleaseAllDescriptors
    \/ \E D \in SUBSET Open : LetGo(D)

Spec == Init /\ [][Next]_vars
=============================================================================
