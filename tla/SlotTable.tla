----------------------------- MODULE SlotTable ------------------------------
(***************************************************************************)
(* A process's descriptor vector (ProcessFileIO::m_descriptors) and what   *)
(* its helpers do to it.  The vector is a sequence whose element fd + 1 is *)
(* slot fd; an empty slot holds None, and slots past its end are empty.    *)
(***************************************************************************)
EXTENDS Integers, Sequences

CONSTANTS
    Descriptors,    \* the open files a slot may hold
    None,           \* a null shared_ptr
    Max             \* kMaxDescriptors

ASSUME NoneAssumption == None \notin Descriptors
ASSUME MaxAssumption == Max \in Nat \ {0}

Slots == 0..(Max - 1)

Occupied(s, fd) == fd \in 0..(Len(s) - 1) /\ s[fd + 1] # None

\* The open files some slot holds.
Held(s) == {s[i] : i \in 1..Len(s)} \ {None}

Holes(s, from) == {fd \in from..(Len(s) - 1) : s[fd + 1] = None}

Grown(s, from) == IF from > Len(s) THEN from ELSE Len(s)

\* Faulty variant: a scan that stops at any hole, not the first.
FreeSlotAnyHole(s, from, fd) ==
    \/ fd \in Holes(s, from)
    \/ Holes(s, from) = {} /\ fd = Grown(s, from) /\ fd < Max

\* NextFreeSlotLocked(from) returns fd: the first hole, else the slot by which
\* the vector may still grow.
FreeSlot(s, from, fd) ==
    \/ fd \in Holes(s, from) /\ \A g \in Holes(s, from) : fd <= g
    \/ Holes(s, from) = {} /\ fd = Grown(s, from) /\ fd < Max

\* NextFreeSlotLocked(from) returns -1.
NoFreeSlot(s, from) == Holes(s, from) = {} /\ Grown(s, from) >= Max

\* Slot fd filled, the vector growing by one when fd is its end.
Filled(s, fd, d) == IF fd = Len(s) THEN Append(s, d) ELSE [s EXCEPT ![fd + 1] = d]

Emptied(s, fd) == [s EXCEPT ![fd + 1] = None]

\* The vector long enough to have slot fd (resize).
Resized(s, fd) ==
    IF fd < Len(s) THEN s
    ELSE [i \in 1..(fd + 1) |-> IF i <= Len(s) THEN s[i] ELSE None]

\* Slot new made to hold slot old's descriptor.
Duplicated(s, old, new) == [Resized(s, new) EXCEPT ![new + 1] = s[old + 1]]
=============================================================================
