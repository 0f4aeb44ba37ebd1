--------------------------- MODULE ProcessFileIO ----------------------------
(***************************************************************************)
(* The descriptor table of one process (ProcessFileIO.cpp).  Its own       *)
(* thread and whoever inspects it call it concurrently.  A call is one     *)
(* section under the table's mutex, then, with the mutex let go, the drop  *)
(* of the references the call took out of the table or its caller holds;   *)
(* an open file closes when the last reference to it is dropped.           *)
(*                                                                         *)
(* The working directory and the operations that go to the file system are *)
(* not here.                                                               *)
(***************************************************************************)
EXTENDS SlotTable

CONSTANT Threads

\* The three standard streams have slots.
ASSUME RoomAssumption == Max >= 3

VARIABLES
    slots,      \* m_descriptors
    refs,       \* thread -> the open files its locals hold
    closed,     \* the open files whose destructor has run
    answer      \* the last call, with its arguments and what it returned

vars == <<slots, refs, closed, answer>>

Open == Descriptors \ closed

\* An open file nothing refers to yet: one a call has just made.
Fresh == Open \ (Held(slots) \union UNION {refs[t] : t \in Threads})

Numbers == -1..Max

Init ==
    /\ slots = <<>>
    /\ refs = [t \in Threads |-> {}]
    /\ closed = {}
    /\ answer = <<>>

Idle(t) == refs[t] = {}

Keep(t, ds) == refs' = [refs EXCEPT ![t] = ds] /\ UNCHANGED closed

GetDescriptor(t, fd) ==
    /\ Idle(t)
    /\ LET d == IF Occupied(slots, fd) THEN slots[fd + 1] ELSE None
       IN  /\ answer' = <<"GetDescriptor", fd, d>>
           /\ Keep(t, {d} \ {None})
    /\ UNCHANGED slots

\* AddDescriptorLocked: the lowest free slot, or -1.
AddLocked(call, arg, d) ==
    \/ \E fd \in Slots :
           /\ FreeSlot(slots, 0, fd)
           /\ slots' = Filled(slots, fd, d)
           /\ answer' = <<call, arg, fd>>
    \/ /\ NoFreeSlot(slots, 0)
       /\ answer' = <<call, arg, -1>>
       /\ UNCHANGED slots

\* The caller keeps its own reference for the length of the call.
AddDescriptor(t, d) ==
    /\ Idle(t)
    /\ AddLocked("AddDescriptor", d, d)
    /\ Keep(t, {d})

Dup(t, fd) ==
    /\ Idle(t)
    /\ \/ Occupied(slots, fd) /\ AddLocked("Dup", fd, slots[fd + 1])
       \/ /\ ~Occupied(slots, fd)
          /\ answer' = <<"Dup", fd, -1>>
          /\ UNCHANGED slots
    /\ UNCHANGED <<refs, closed>>

\* What slot newFd held leaves with the caller.
Dup2(t, oldFd, newFd) ==
    /\ Idle(t)
    /\ \/ /\ ~Occupied(slots, oldFd) \/ newFd \notin Slots
          /\ answer' = <<"Dup2", oldFd, newFd, -1>>
          /\ UNCHANGED <<slots, refs, closed>>
       \/ /\ Occupied(slots, oldFd) /\ newFd \in Slots
          /\ answer' = <<"Dup2", oldFd, newFd, newFd>>
          /\ IF oldFd = newFd THEN UNCHANGED <<slots, refs, closed>>
             ELSE /\ slots' = Duplicated(slots, oldFd, newFd)
                  /\ Keep(t, IF Occupied(slots, newFd) THEN {slots[newFd + 1]} ELSE {})

CloseDescriptor(t, fd) ==
    /\ Idle(t)
    /\ \/ /\ Occupied(slots, fd)
          /\ slots' = Emptied(slots, fd)
          /\ answer' = <<"CloseDescriptor", fd, 0>>
          /\ Keep(t, {slots[fd + 1]})
       \/ /\ ~Occupied(slots, fd)
          /\ answer' = <<"CloseDescriptor", fd, -1>>
          /\ UNCHANGED <<slots, refs, closed>>

\* The streams of a process about to start; on a refusal the caller is left
\* with them.
InstallStandardStreams(t, in, out, err) ==
    /\ Idle(t)
    /\ IF Held(slots) = {}
       THEN /\ slots' = <<in, out, err>>
            /\ answer' = <<"InstallStandardStreams", in, out, err, TRUE>>
            /\ UNCHANGED <<refs, closed>>
       ELSE /\ answer' = <<"InstallStandardStreams", in, out, err, FALSE>>
            /\ Keep(t, {in, out, err})
            /\ UNCHANGED slots

\* Both slots are found before either is filled; the ends not placed are
\* released as the call returns.
CreatePipe(t, r, w) ==
    /\ Idle(t)
    /\ \/ \E readSlot, writeSlot \in Slots :
              /\ FreeSlot(slots, 0, readSlot)
              /\ FreeSlot(slots, readSlot + 1, writeSlot)
              /\ slots' = Filled(Filled(slots, readSlot, r), writeSlot, w)
              /\ answer' = <<"CreatePipe", r, w, <<readSlot, writeSlot>>>>
              /\ UNCHANGED <<refs, closed>>
       \/ /\ \/ NoFreeSlot(slots, 0)
             \/ \E readSlot \in Slots :
                    FreeSlot(slots, 0, readSlot) /\ NoFreeSlot(slots, readSlot + 1)
          /\ answer' = <<"CreatePipe", r, w, None>>
          /\ Keep(t, {r, w})
          /\ UNCHANGED slots

ReleaseAllDescriptors(t) ==
    /\ Idle(t)
    /\ slots' = <<>>
    /\ answer' = <<"ReleaseAllDescriptors">>
    /\ Keep(t, Held(slots))

\* Faulty variant: the slots are asked, the other threads' locals are not.
LastHeldByTable(t) == {d \in refs[t] : d \notin Held(slots)}

\* The open files t is the last to hold.
LastHeldBy(t) ==
    {d \in refs[t] : d \notin Held(slots) /\ \A u \in Threads \ {t} : d \notin refs[u]}

\* With the mutex let go, t drops what it holds.
DropRefs(t) ==
    /\ refs[t] # {}
    /\ closed' = closed \union LastHeldBy(t)
    /\ refs' = [refs EXCEPT ![t] = {}]
    /\ UNCHANGED <<slots, answer>>

Next ==
    \E t \in Threads :
        \/ \E fd \in Numbers : GetDescriptor(t, fd) \/ Dup(t, fd) \/ CloseDescriptor(t, fd)
        \/ \E oldFd, newFd \in Numbers : Dup2(t, oldFd, newFd)
        \/ \E d \in Open : AddDescriptor(t, d)
        \/ \E r, w \in Fresh : r # w /\ CreatePipe(t, r, w)
        \/ \E in, out, err \in Open : InstallStandardStreams(t, in, out, err)
        \/ ReleaseAllDescriptors(t)
        \/ DropRefs(t)

Spec == Init /\ [][Next]_vars

-----------------------------------------------------------------------------
\* The vector never outgrows the table, and every reference is to an open file.
TypeOK ==
    /\ slots \in Seq(Descriptors \union {None})
    /\ Len(slots) <= Max
    /\ refs \in [Threads -> SUBSET Descriptors]
    /\ closed \in SUBSET Descriptors

\* What a slot holds, or a thread took out of the table and still uses, has
\* not been closed under it: a read on a descriptor another thread closes or
\* replaces, or the program's end releases, works on until it returns.
NeverClosedInUse ==
    /\ Held(slots) \intersect closed = {}
    /\ \A t \in Threads : refs[t] \intersect closed = {}

TableOf(s) == [fd \in Slots |-> IF fd < Len(s) THEN s[fd + 1] ELSE None]

Table == INSTANCE DescriptorTable WITH table <- TableOf(slots)

\* The vector with its holes and its growing implements the table IFileIO
\* promises: the lowest free slot, a pipe's two slots or none, a failed call
\* that changes nothing, an open file closed only once no slot holds it.
ImplementsTable == Table!Spec
=============================================================================
