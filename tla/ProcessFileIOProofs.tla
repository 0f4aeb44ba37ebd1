------------------------ MODULE ProcessFileIOProofs -------------------------
(***************************************************************************)
(* Proofs about ProcessFileIO for every size of the table and every set of *)
(* threads and open files.  The invariant is TypeOK with NeverClosedInUse; *)
(* the refinement of DescriptorTable follows from it, one lemma about the  *)
(* vector at a time.                                                       *)
(***************************************************************************)
EXTENDS ProcessFileIO, TLAPS

Vectors == {s \in Seq(Descriptors \union {None}) : Len(s) <= Max}

\* What the first free slot is: within the vector or just past it (or just
\* past where the scan began).
LEMMA FreeSlotRange ==
    ASSUME NEW s \in Vectors, NEW from \in Nat, NEW fd \in Int, FreeSlot(s, from, fd)
    PROVE  /\ fd \in Slots
           /\ from <= fd
           /\ \/ fd < Len(s) /\ s[fd + 1] = None
              \/ fd = Grown(s, from)
BY MaxAssumption DEF FreeSlot, Holes, Grown, Slots, Vectors

\* Filling a slot of the vector, or the one past its end.
LEMMA FilledVector ==
    ASSUME NEW s \in Vectors, NEW fd \in Slots, fd <= Len(s), NEW d \in Descriptors
    PROVE  /\ Filled(s, fd, d) \in Vectors
           /\ Len(Filled(s, fd, d)) = IF fd = Len(s) THEN Len(s) + 1 ELSE Len(s)
           /\ \A i \in 1..Len(Filled(s, fd, d)) :
                  Filled(s, fd, d)[i] = IF i = fd + 1 THEN d ELSE s[i]
<1>1. CASE fd = Len(s)
  BY <1>1, MaxAssumption DEF Filled, Vectors, Slots
<1>2. CASE fd # Len(s)
  BY <1>2, MaxAssumption DEF Filled, Vectors, Slots
<1> QED
  BY <1>1, <1>2

\* Emptying a slot of the vector.
LEMMA EmptiedVector ==
    ASSUME NEW s \in Vectors, NEW fd \in 0..(Len(s) - 1)
    PROVE  /\ Emptied(s, fd) \in Vectors
           /\ Len(Emptied(s, fd)) = Len(s)
           /\ \A i \in 1..Len(s) : Emptied(s, fd)[i] = IF i = fd + 1 THEN None ELSE s[i]
BY DEF Emptied, Vectors

\* The vector made long enough for a slot.
LEMMA ResizedVector ==
    ASSUME NEW s \in Vectors, NEW fd \in Slots
    PROVE  /\ Resized(s, fd) \in Vectors
           /\ fd < Len(Resized(s, fd))
           /\ Len(s) <= Len(Resized(s, fd))
           /\ \A i \in 1..Len(Resized(s, fd)) :
                  Resized(s, fd)[i] = IF i <= Len(s) THEN s[i] ELSE None
<1>1. CASE fd < Len(s)
  BY <1>1 DEF Resized, Vectors, Slots
<1>2. CASE ~(fd < Len(s))
  <2> DEFINE r == [i \in 1..(fd + 1) |-> IF i <= Len(s) THEN s[i] ELSE None]
  <2>1. Resized(s, fd) = r
    BY <1>2 DEF Resized
  <2>2. r \in Seq(Descriptors \union {None}) /\ Len(r) = fd + 1
    <3>1. fd + 1 \in Nat
      BY DEF Slots
    <3>2. \A i \in 1..(fd + 1) : r[i] \in Descriptors \union {None}
      BY DEF Vectors
    <3> QED
      BY <3>1, <3>2
  <2> QED
    BY <1>2, <2>1, <2>2, MaxAssumption DEF Vectors, Slots
<1> QED
  BY <1>1, <1>2

\* One slot made to hold what another holds.
LEMMA DuplicatedVector ==
    ASSUME NEW s \in Vectors, NEW old \in 0..(Len(s) - 1), NEW new \in Slots
    PROVE  /\ Duplicated(s, old, new) \in Vectors
           /\ Len(Duplicated(s, old, new)) = Len(Resized(s, new))
           /\ \A i \in 1..Len(Duplicated(s, old, new)) :
                  Duplicated(s, old, new)[i] =
                      IF i = new + 1 THEN s[old + 1] ELSE Resized(s, new)[i]
<1>1. s[old + 1] \in Descriptors \union {None}
  BY DEF Vectors
<1> QED
  BY <1>1, ResizedVector DEF Duplicated, Vectors, Slots

-----------------------------------------------------------------------------
\* What the vector holds after each change.
LEMMA FilledHeld ==
    ASSUME NEW s \in Vectors, NEW fd \in Slots, fd <= Len(s), NEW d \in Descriptors
    PROVE  Held(Filled(s, fd, d)) \subseteq Held(s) \union {d}
BY FilledVector DEF Held, Vectors, Slots

LEMMA EmptiedHeld ==
    ASSUME NEW s \in Vectors, NEW fd \in 0..(Len(s) - 1)
    PROVE  Held(Emptied(s, fd)) \subseteq Held(s)
BY EmptiedVector DEF Held, Vectors

LEMMA DuplicatedHeld ==
    ASSUME NEW s \in Vectors, NEW old, NEW new \in Slots, Occupied(s, old)
    PROVE  Held(Duplicated(s, old, new)) \subseteq Held(s)
<1>1. old \in 0..(Len(s) - 1)
  BY DEF Occupied
<1>2. s[old + 1] \in Held(s)
  BY <1>1 DEF Occupied, Held, Vectors
<1> SUFFICES ASSUME NEW d \in Held(Duplicated(s, old, new)) PROVE d \in Held(s)
  OBVIOUS
<1>3. PICK i \in 1..Len(Duplicated(s, old, new)) :
         Duplicated(s, old, new)[i] = d /\ d # None
  BY DEF Held
<1>4. d = IF i = new + 1 THEN s[old + 1] ELSE Resized(s, new)[i]
  BY <1>1, <1>3, DuplicatedVector
<1>5. CASE i = new + 1
  BY <1>2, <1>4, <1>5
<1>6. CASE i # new + 1
  <2>1. i \in 1..Len(Resized(s, new)) /\ d = Resized(s, new)[i]
    BY <1>1, <1>3, <1>4, <1>6, DuplicatedVector
  <2>2. d = IF i <= Len(s) THEN s[i] ELSE None
    BY <2>1, ResizedVector
  <2>3. i \in Nat /\ i >= 1 /\ Len(s) \in Nat
    BY <2>1, ResizedVector DEF Vectors
  <2>4. i \in 1..Len(s) /\ d = s[i]
    BY <1>3, <2>2, <2>3
  <2> QED
    BY <1>3, <2>4 DEF Held
<1> QED
  BY <1>5, <1>6

LEMMA OccupiedHeld ==
    ASSUME NEW s \in Vectors, NEW fd, Occupied(s, fd)
    PROVE  s[fd + 1] \in Held(s) /\ s[fd + 1] \in Descriptors
BY DEF Occupied, Held, Vectors

-----------------------------------------------------------------------------
Inv == TypeOK /\ NeverClosedInUse

\* The initial table is typed and nothing is closed.
LEMMA InitInv == Init => Inv
BY MaxAssumption DEF Init, Inv, TypeOK, NeverClosedInUse, Held

\* A call keeps the invariant when the vector it leaves holds only what was
\* open, and its thread goes on with open files only.
LEMMA CallInv ==
    ASSUME Inv, NEW t \in Threads, NEW ds \in SUBSET Open,
           Keep(t, ds) \/ UNCHANGED <<refs, closed>>,
           slots' \in Vectors, Held(slots') \subseteq Open
    PROVE  Inv'
<1>1. closed' = closed
  BY DEF Keep
<1>2. refs' \in [Threads -> SUBSET Descriptors]
  BY DEF Keep, Inv, TypeOK, Open
<1>3. \A u \in Threads : refs'[u] \intersect closed = {}
  BY DEF Keep, Inv, TypeOK, NeverClosedInUse, Open
<1> QED
  BY <1>1, <1>2, <1>3 DEF Inv, TypeOK, NeverClosedInUse, Vectors, Open

\* What AddDescriptorLocked leaves in the vector.
LEMMA AddLockedVector ==
    ASSUME Inv, NEW call, NEW arg, NEW d \in Open, AddLocked(call, arg, d)
    PROVE  slots' \in Vectors /\ Held(slots') \subseteq Open
<1>1. slots \in Vectors /\ Held(slots) \subseteq Open /\ d \in Descriptors
  BY DEF Inv, TypeOK, NeverClosedInUse, Vectors, Open, Held
<1>2. CASE UNCHANGED slots
  BY <1>1, <1>2
<1>3. ASSUME NEW fd \in Slots, FreeSlot(slots, 0, fd), slots' = Filled(slots, fd, d)
      PROVE  slots' \in Vectors /\ Held(slots') \subseteq Open
  <2>1. fd <= Len(slots)
    BY <1>1, <1>3, FreeSlotRange DEF Grown, Vectors, Slots
  <2> QED
    BY <1>1, <1>3, <2>1, FilledVector, FilledHeld
<1> QED
  BY <1>2, <1>3 DEF AddLocked

\* Every step keeps the invariant.
LEMMA NextInv == Inv /\ [Next]_vars => Inv'
<1> SUFFICES ASSUME Inv, [Next]_vars PROVE Inv'
  OBVIOUS
<1>0. slots \in Vectors /\ Held(slots) \subseteq Open /\ Held(slots) \subseteq Descriptors
  BY DEF Inv, TypeOK, NeverClosedInUse, Vectors, Open, Held
<1>1. ASSUME NEW t \in Threads, NEW fd \in Numbers, GetDescriptor(t, fd) PROVE Inv'
  <2>1. (IF Occupied(slots, fd) THEN {slots[fd + 1]} ELSE {}) \subseteq Open
    BY <1>0, OccupiedHeld
  <2>2. CASE Occupied(slots, fd)
    <3>1. {slots[fd + 1]} \ {None} \in SUBSET Open
      BY <2>1, <2>2
    <3> QED
      BY <1>0, <1>1, <2>2, <3>1, CallInv DEF GetDescriptor
  <2>3. CASE ~Occupied(slots, fd)
    BY <1>0, <1>1, <2>3, CallInv DEF GetDescriptor
  <2> QED
    BY <2>2, <2>3
<1>2. ASSUME NEW t \in Threads, NEW fd \in Numbers, Dup(t, fd) PROVE Inv'
  <2>1. CASE Occupied(slots, fd) /\ AddLocked("Dup", fd, slots[fd + 1])
    <3>1. slots[fd + 1] \in Open
      BY <1>0, <2>1, OccupiedHeld
    <3>2. slots' \in Vectors /\ Held(slots') \subseteq Open
      BY <2>1, <3>1, AddLockedVector
    <3> QED
      BY <1>2, <3>2, CallInv DEF Dup
  <2>2. CASE UNCHANGED slots
    BY <1>0, <1>2, <2>2, CallInv DEF Dup
  <2> QED
    BY <1>2, <2>1, <2>2 DEF Dup
<1>3. ASSUME NEW t \in Threads, NEW fd \in Numbers, CloseDescriptor(t, fd) PROVE Inv'
  <2>1. CASE Occupied(slots, fd)
    <3>1. {slots[fd + 1]} \in SUBSET Open
      BY <1>0, <2>1, OccupiedHeld
    <3>2. slots' \in Vectors /\ Held(slots') \subseteq Open
      BY <1>0, <1>3, <2>1, EmptiedVector, EmptiedHeld DEF CloseDescriptor, Occupied
    <3> QED
      BY <1>3, <2>1, <3>1, <3>2, CallInv DEF CloseDescriptor
  <2>2. CASE ~Occupied(slots, fd)
    BY <1>0, <1>3, <2>2, CallInv DEF CloseDescriptor
  <2> QED
    BY <2>1, <2>2
<1>4. ASSUME NEW t \in Threads, NEW oldFd \in Numbers, NEW newFd \in Numbers,
             Dup2(t, oldFd, newFd)
      PROVE  Inv'
  <2>1. CASE UNCHANGED <<slots, refs, closed>>
    BY <1>0, <2>1, CallInv, <1>4
  <2>2. CASE /\ Occupied(slots, oldFd) /\ newFd \in Slots
             /\ slots' = Duplicated(slots, oldFd, newFd)
             /\ Keep(t, IF Occupied(slots, newFd) THEN {slots[newFd + 1]} ELSE {})
    <3>1. (IF Occupied(slots, newFd) THEN {slots[newFd + 1]} ELSE {}) \in SUBSET Open
      BY <1>0, OccupiedHeld
    <3>2. slots' \in Vectors /\ Held(slots') \subseteq Open
      BY <1>0, <2>2, DuplicatedVector, DuplicatedHeld DEF Occupied
    <3> QED
      BY <2>2, <3>1, <3>2, CallInv
  <2> QED
    BY <1>4, <2>1, <2>2 DEF Dup2
<1>5. ASSUME NEW t \in Threads, NEW d \in Open, AddDescriptor(t, d) PROVE Inv'
  <2>1. slots' \in Vectors /\ Held(slots') \subseteq Open
    BY <1>5, AddLockedVector DEF AddDescriptor
  <2> QED
    BY <1>5, <2>1, CallInv DEF AddDescriptor
<1>6. ASSUME NEW t \in Threads, NEW r \in Fresh, NEW w \in Fresh, CreatePipe(t, r, w)
      PROVE  Inv'
  <2>1. r \in Open /\ w \in Open /\ r \in Descriptors /\ w \in Descriptors
    BY DEF Fresh, Open
  <2>2. CASE UNCHANGED slots /\ Keep(t, {r, w})
    BY <1>0, <2>1, <2>2, CallInv
  <2>3. ASSUME NEW f \in Slots, NEW g \in Slots, FreeSlot(slots, 0, f),
               FreeSlot(slots, f + 1, g), slots' = Filled(Filled(slots, f, r), g, w)
        PROVE  slots' \in Vectors /\ Held(slots') \subseteq Open
    <3>1. f <= Len(slots) /\ f + 1 \in Nat
      BY <1>0, <2>3, FreeSlotRange DEF Grown, Vectors, Slots
    <3> DEFINE s1 == Filled(slots, f, r)
    <3>2. /\ s1 \in Vectors /\ Held(s1) \subseteq Open
          /\ Len(s1) = IF f = Len(slots) THEN Len(slots) + 1 ELSE Len(slots)
      BY <1>0, <2>1, <3>1, FilledVector, FilledHeld
    <3>3. g <= Len(s1)
      BY <1>0, <2>3, <3>1, <3>2, FreeSlotRange DEF Grown, Vectors, Slots
    <3>4. s1 \in Vectors /\ Held(s1) \subseteq Open
      BY <3>2
    <3>5. slots' = Filled(s1, g, w)
      BY <2>3
    <3> HIDE DEF s1
    <3> QED
      BY <2>1, <3>3, <3>4, <3>5, FilledVector, FilledHeld
  <2> QED
    BY <1>6, <2>2, <2>3, CallInv DEF CreatePipe
<1>7. ASSUME NEW t \in Threads, NEW in \in Open, NEW out \in Open, NEW err \in Open,
             InstallStandardStreams(t, in, out, err)
      PROVE  Inv'
  <2>1. CASE Held(slots) = {}
    <3>1. slots' = <<in, out, err>> /\ UNCHANGED <<refs, closed>>
      BY <1>7, <2>1 DEF InstallStandardStreams
    <3>2. slots' \in Vectors /\ Held(slots') \subseteq Open
      BY <3>1, RoomAssumption, MaxAssumption DEF Vectors, Held, Open
    <3> QED
      BY <3>1, <3>2, CallInv, <1>7
  <2>2. CASE Held(slots) # {}
    BY <1>0, <1>7, <2>2, CallInv DEF InstallStandardStreams
  <2> QED
    BY <2>1, <2>2
<1>8. ASSUME NEW t \in Threads, ReleaseAllDescriptors(t) PROVE Inv'
  <2>1. slots' \in Vectors /\ Held(slots') \subseteq Open
    BY <1>8, MaxAssumption DEF ReleaseAllDescriptors, Vectors, Held
  <2> QED
    BY <1>0, <1>8, <2>1, CallInv DEF ReleaseAllDescriptors
<1>9. ASSUME NEW t \in Threads, DropRefs(t) PROVE Inv'
  <2>1. refs' = [refs EXCEPT ![t] = {}] /\ slots' = slots
        /\ closed' = closed \union LastHeldBy(t)
    BY <1>9 DEF DropRefs
  <2>2. TypeOK'
    BY <2>1 DEF LastHeldBy, Inv, TypeOK
  <2>3. Held(slots') \intersect closed' = {}
    BY <2>1 DEF LastHeldBy, Inv, NeverClosedInUse
  <2>4. \A u \in Threads : refs'[u] \intersect closed' = {}
    BY <2>1 DEF LastHeldBy, Inv, TypeOK, NeverClosedInUse
  <2> QED
    BY <2>2, <2>3, <2>4 DEF Inv, NeverClosedInUse
<1>10. CASE UNCHANGED vars
  BY <1>10 DEF vars, Inv, TypeOK, NeverClosedInUse
<1> QED
  BY <1>1, <1>2, <1>3, <1>4, <1>5, <1>6, <1>7, <1>8, <1>9, <1>10 DEF Next

\* The table is typed: the vector never outgrows kMaxDescriptors.
THEOREM TypeCorrect == Spec => []TypeOK
<1>1. Inv => TypeOK
  BY DEF Inv
<1> QED
  BY InitInv, NextInv, <1>1, PTL DEF Spec

\* No open file is closed while a slot holds it or a call still uses it,
\* whatever the threads do to the table meanwhile.
THEOREM OpenWhileInUse == Spec => []NeverClosedInUse
<1>1. Inv => NeverClosedInUse
  BY DEF Inv
<1> QED
  BY InitInv, NextInv, <1>1, PTL DEF Spec

-----------------------------------------------------------------------------
(* The refinement.  A vector's free slots are its table's.                 *)
FreeOf(s) == {fd \in Slots : TableOf(s)[fd] = None}

LEMMA FreeAt ==
    ASSUME NEW s \in Vectors
    PROVE  \A fd : fd \in FreeOf(s) <=> fd \in Slots /\ (fd < Len(s) => s[fd + 1] = None)
BY DEF FreeOf, TableOf

\* A slot is used in the table exactly when it is occupied in the vector.
LEMMA UsedSlot ==
    ASSUME NEW s \in Vectors, NEW fd
    PROVE  /\ Occupied(s, fd) <=> fd \in Slots \ FreeOf(s)
           /\ Occupied(s, fd) => s[fd + 1] = TableOf(s)[fd]
BY MaxAssumption DEF Occupied, FreeOf, TableOf, Slots, Vectors

LEMMA TableFilled ==
    ASSUME NEW s \in Vectors, NEW fd \in Slots, fd <= Len(s), NEW d \in Descriptors
    PROVE  TableOf(Filled(s, fd, d)) = [TableOf(s) EXCEPT ![fd] = d]
<1> DEFINE r == Filled(s, fd, d)
<1>1. /\ Len(r) \in Nat /\ Len(s) \in Nat
      /\ Len(r) = IF fd = Len(s) THEN Len(s) + 1 ELSE Len(s)
      /\ \A i \in 1..Len(r) : r[i] = IF i = fd + 1 THEN d ELSE s[i]
  BY FilledVector DEF Vectors
<1> HIDE DEF r
<1>2. \A x \in Slots : (IF x < Len(r) THEN r[x + 1] ELSE None)
                       = IF x = fd THEN d ELSE IF x < Len(s) THEN s[x + 1] ELSE None
  <2> TAKE x \in Slots
  <2>1. x \in Int /\ x >= 0 /\ fd \in Int
    BY DEF Slots
  <2>2. x < Len(r) => r[x + 1] = IF x + 1 = fd + 1 THEN d ELSE s[x + 1]
    BY <1>1, <2>1
  <2> QED
    BY <1>1, <2>1, <2>2
<1> QED
  BY <1>2 DEF TableOf, r

LEMMA TableEmptied ==
    ASSUME NEW s \in Vectors, NEW fd \in 0..(Len(s) - 1)
    PROVE  TableOf(Emptied(s, fd)) = [TableOf(s) EXCEPT ![fd] = None]
<1> DEFINE r == Emptied(s, fd)
<1>1. /\ Len(r) = Len(s) /\ Len(s) \in Nat
      /\ \A i \in 1..Len(s) : r[i] = IF i = fd + 1 THEN None ELSE s[i]
  BY EmptiedVector DEF Vectors
<1> HIDE DEF r
<1>2. \A x \in Slots : (IF x < Len(r) THEN r[x + 1] ELSE None)
                       = IF x = fd THEN None ELSE IF x < Len(s) THEN s[x + 1] ELSE None
  <2> TAKE x \in Slots
  <2>1. x \in Int /\ x >= 0 /\ fd \in Int
    BY DEF Slots
  <2>2. x < Len(r) => r[x + 1] = IF x + 1 = fd + 1 THEN None ELSE s[x + 1]
    BY <1>1, <2>1
  <2> QED
    BY <1>1, <2>1, <2>2
<1> QED
  BY <1>2 DEF TableOf, r

LEMMA TableDuplicated ==
    ASSUME NEW s \in Vectors, NEW old, Occupied(s, old), NEW new \in Slots
    PROVE  TableOf(Duplicated(s, old, new)) = [TableOf(s) EXCEPT ![new] = TableOf(s)[old]]
<1> DEFINE r == Duplicated(s, old, new)
           q == Resized(s, new)
<1>1. old \in 0..(Len(s) - 1) /\ TableOf(s)[old] = s[old + 1]
  BY UsedSlot DEF Occupied
<1>2. /\ Len(r) = Len(q) /\ Len(q) \in Nat /\ Len(s) \in Nat
      /\ new < Len(q) /\ Len(s) <= Len(q)
      /\ \A i \in 1..Len(q) : r[i] = IF i = new + 1 THEN s[old + 1] ELSE q[i]
      /\ \A i \in 1..Len(q) : q[i] = IF i <= Len(s) THEN s[i] ELSE None
  BY <1>1, DuplicatedVector, ResizedVector DEF Vectors
<1> HIDE DEF r, q
<1>3. \A x \in Slots : (IF x < Len(r) THEN r[x + 1] ELSE None)
                       = IF x = new THEN s[old + 1]
                         ELSE IF x < Len(s) THEN s[x + 1] ELSE None
  <2> TAKE x \in Slots
  <2>1. x \in Int /\ x >= 0 /\ new \in Int
    BY DEF Slots
  <2>2. x < Len(r) => /\ r[x + 1] = IF x + 1 = new + 1 THEN s[old + 1] ELSE q[x + 1]
                      /\ q[x + 1] = IF x + 1 <= Len(s) THEN s[x + 1] ELSE None
    BY <1>2, <2>1
  <2> QED
    BY <1>2, <2>1, <2>2
<1> QED
  BY <1>1, <1>3 DEF TableOf, r

\* The scan finds the lowest free slot of the table, or there is none.
LEMMA LowestFree ==
    ASSUME NEW s \in Vectors, NEW fd \in Slots, FreeSlot(s, 0, fd)
    PROVE  fd \in FreeOf(s) /\ fd <= Len(s) /\ \A g \in FreeOf(s) : fd <= g
<1>1. Len(s) \in Nat
  BY DEF Vectors
<1>2. \A g : g \in Holes(s, 0) <=> g \in 0..(Len(s) - 1) /\ s[g + 1] = None
  BY DEF Holes
<1>3. CASE fd \in Holes(s, 0) /\ \A g \in Holes(s, 0) : fd <= g
  BY <1>1, <1>2, <1>3, FreeAt DEF Slots
<1>4. CASE Holes(s, 0) = {} /\ fd = Len(s)
  BY <1>1, <1>2, <1>4, FreeAt DEF Slots
<1> QED
  BY <1>1, <1>3, <1>4 DEF FreeSlot, Grown

LEMMA NoneFree ==
    ASSUME NEW s \in Vectors, NoFreeSlot(s, 0)
    PROVE  FreeOf(s) = {}
<1>1. Len(s) \in Nat /\ Len(s) >= Max
  BY DEF Vectors, NoFreeSlot, Grown
<1>2. \A g \in 0..(Len(s) - 1) : s[g + 1] # None
  BY DEF NoFreeSlot, Holes
<1> QED
  BY <1>1, <1>2, FreeAt, MaxAssumption DEF Slots

\* The same for the scan that starts past the slot just found.
LEMMA NextLowestFree ==
    ASSUME NEW s \in Vectors, NEW f \in Slots, NEW g \in Slots,
           FreeSlot(s, 0, f), FreeSlot(s, f + 1, g)
    PROVE  /\ g \in FreeOf(s) \ {f}
           /\ \A h \in FreeOf(s) \ {f} : g <= h
<1>1. f \in FreeOf(s) /\ f <= Len(s) /\ \A h \in FreeOf(s) : f <= h
  BY LowestFree
<1>2. Len(s) \in Nat /\ f \in Int /\ g \in Int
  BY DEF Vectors, Slots
<1>3. \A h : h \in Holes(s, f + 1) <=> h \in (f + 1)..(Len(s) - 1) /\ s[h + 1] = None
  BY DEF Holes
<1>4. CASE g \in Holes(s, f + 1) /\ \A h \in Holes(s, f + 1) : g <= h
  <2>1. g \in (f + 1)..(Len(s) - 1) /\ s[g + 1] = None
    BY <1>3, <1>4
  <2>2. g \in FreeOf(s) \ {f}
    BY <1>2, <2>1, FreeAt
  <2>3. ASSUME NEW h \in FreeOf(s) \ {f} PROVE g <= h
    <3>1. h \in Int /\ f + 1 <= h /\ (h < Len(s) => s[h + 1] = None)
      BY <1>1, <1>2, FreeAt DEF Slots
    <3>2. CASE h < Len(s)
      <4>1. h \in (f + 1)..(Len(s) - 1)
        BY <1>2, <3>1, <3>2
      <4> QED
        BY <1>3, <1>4, <3>1, <3>2, <4>1
    <3>3. CASE ~(h < Len(s))
      BY <1>2, <2>1, <3>1, <3>3
    <3> QED
      BY <3>2, <3>3
  <2> QED
    BY <2>2, <2>3
<1>5. CASE Holes(s, f + 1) = {} /\ g = Grown(s, f + 1)
  BY <1>1, <1>2, <1>3, <1>5, FreeAt DEF Slots, Grown
<1> QED
  BY <1>4, <1>5 DEF FreeSlot

LEMMA NoNextFree ==
    ASSUME NEW s \in Vectors, NEW f \in Slots, FreeSlot(s, 0, f), NoFreeSlot(s, f + 1)
    PROVE  FreeOf(s) \subseteq {f}
<1>1. f \in FreeOf(s) /\ f <= Len(s) /\ \A h \in FreeOf(s) : f <= h
  BY LowestFree
<1>2. Len(s) \in Nat /\ f \in Int /\ (Len(s) >= Max \/ f + 1 >= Max)
  BY MaxAssumption DEF Vectors, Slots, NoFreeSlot, Grown
<1>3. \A h \in (f + 1)..(Len(s) - 1) : s[h + 1] # None
  BY DEF NoFreeSlot, Holes
<1> QED
  BY <1>1, <1>2, <1>3, FreeAt, MaxAssumption DEF Slots

\* The vector holds nothing when the table is empty.
LEMMA EmptyTable ==
    ASSUME NEW s \in Vectors
    PROVE  Held(s) = {} <=> FreeOf(s) = Slots
<1>1. Len(s) \in Nat /\ Len(s) <= Max
  BY DEF Vectors
<1>2. ASSUME Held(s) = {}, NEW fd \in Slots, fd < Len(s) PROVE s[fd + 1] = None
  BY <1>1, <1>2 DEF Held, Slots
<1>3. ASSUME FreeOf(s) = Slots, NEW i \in 1..Len(s) PROVE s[i] = None
  <2>1. i - 1 \in Slots /\ i - 1 < Len(s) /\ (i - 1) + 1 = i
    BY <1>1, MaxAssumption DEF Slots
  <2>2. i - 1 \in FreeOf(s)
    BY <1>3, <2>1
  <2> QED
    BY <2>1, <2>2, FreeAt
<1> QED
  BY <1>2, <1>3, FreeAt DEF Held

\* Placing in the vector is placing in the table.
LEMMA AddLockedPlaces ==
    ASSUME Inv, NEW call, NEW arg, NEW d \in Descriptors,
           AddLocked(call, arg, d), UNCHANGED closed
    PROVE  Table!Place(call, arg, d)
<1>1. slots \in Vectors
  BY DEF Inv, TypeOK, Vectors
<1>2. Table!Free = FreeOf(slots) /\ Table!Slots = Slots
  BY DEF Table!Free, FreeOf, Table!Slots, Slots
<1>3. CASE NoFreeSlot(slots, 0) /\ answer' = <<call, arg, -1>> /\ UNCHANGED slots
  BY <1>1, <1>2, <1>3, NoneFree DEF Table!Place
<1>4. ASSUME NEW fd \in Slots, FreeSlot(slots, 0, fd), slots' = Filled(slots, fd, d),
             answer' = <<call, arg, fd>>
      PROVE  Table!Place(call, arg, d)
  <2>1. fd \in FreeOf(slots) /\ fd <= Len(slots) /\ \A g \in FreeOf(slots) : fd <= g
    BY <1>1, <1>4, LowestFree
  <2>2. TableOf(slots') = [TableOf(slots) EXCEPT ![fd] = d]
    BY <1>1, <1>4, <2>1, TableFilled
  <2> QED
    BY <1>2, <1>4, <2>1, <2>2 DEF Table!Place, Table!Lowest
<1> QED
  BY <1>3, <1>4 DEF AddLocked

\* The empty vector is the empty table.
LEMMA InitRefines == Init => Table!Init
BY DEF Init, Table!Init, TableOf, Table!Slots, Slots

\* Every step of the vector is a step of the table, or leaves it alone.
LEMMA NextRefines == Inv /\ [Next]_vars => [Table!Next]_(Table!vars)
<1> SUFFICES ASSUME Inv, [Next]_vars PROVE Table!Next \/ UNCHANGED Table!vars
  OBVIOUS
<1>0. /\ slots \in Vectors /\ Held(slots) \subseteq Open
      /\ Table!Free = FreeOf(slots) /\ Table!Slots = Slots
      /\ Table!Open = Open /\ Table!Numbers = Numbers
  BY DEF Inv, TypeOK, NeverClosedInUse, Vectors, Open, Held, Table!Free, FreeOf,
         Table!Slots, Slots, Table!Open, Table!Numbers, Numbers
<1>00. \A fd : Table!Used(fd) <=> Occupied(slots, fd)
  BY <1>0, UsedSlot DEF Table!Used
<1>1. ASSUME NEW t \in Threads, NEW fd \in Numbers, GetDescriptor(t, fd)
      PROVE  Table!GetDescriptor(fd)
  BY <1>0, <1>00, <1>1, UsedSlot DEF GetDescriptor, Keep, Table!GetDescriptor
<1>2. ASSUME NEW t \in Threads, NEW fd \in Numbers, Dup(t, fd)
      PROVE  Table!Dup(fd)
  <2>1. CASE Occupied(slots, fd) /\ AddLocked("Dup", fd, slots[fd + 1])
    <3>1. slots[fd + 1] \in Descriptors /\ slots[fd + 1] = TableOf(slots)[fd]
      BY <1>0, <2>1, OccupiedHeld, UsedSlot
    <3>2. Table!Place("Dup", fd, slots[fd + 1])
      BY <1>2, <2>1, <3>1, AddLockedPlaces DEF Dup
    <3> QED
      BY <1>00, <2>1, <3>1, <3>2 DEF Table!Dup
  <2>2. CASE ~Occupied(slots, fd) /\ answer' = <<"Dup", fd, -1>> /\ UNCHANGED slots
    BY <1>2, <1>00, <2>2 DEF Dup, Table!Dup
  <2> QED
    BY <1>2, <2>1, <2>2 DEF Dup
<1>3. ASSUME NEW t \in Threads, NEW fd \in Numbers, CloseDescriptor(t, fd)
      PROVE  Table!CloseDescriptor(fd)
  <2>1. CASE Occupied(slots, fd)
    <3>1. TableOf(slots') = [TableOf(slots) EXCEPT ![fd] = None]
      BY <1>0, <1>3, <2>1, TableEmptied DEF CloseDescriptor, Occupied
    <3> QED
      BY <1>3, <1>00, <2>1, <3>1 DEF CloseDescriptor, Keep, Table!CloseDescriptor
  <2>2. CASE ~Occupied(slots, fd)
    BY <1>3, <1>00, <2>2 DEF CloseDescriptor, Table!CloseDescriptor
  <2> QED
    BY <2>1, <2>2
<1>4. ASSUME NEW t \in Threads, NEW oldFd \in Numbers, NEW newFd \in Numbers,
             Dup2(t, oldFd, newFd)
      PROVE  Table!Dup2(oldFd, newFd)
  <2>1. CASE ~Occupied(slots, oldFd) \/ newFd \notin Slots
    BY <1>4, <1>0, <1>00, <2>1 DEF Dup2, Table!Dup2
  <2>2. CASE Occupied(slots, oldFd) /\ newFd \in Slots
    <3>1. answer' = <<"Dup2", oldFd, newFd, newFd>> /\ closed' = closed
      BY <1>4, <2>2 DEF Dup2, Keep
    <3>2. TableOf(slots') = [TableOf(slots) EXCEPT ![newFd] = TableOf(slots)[oldFd]]
      <4>1. CASE oldFd = newFd
        BY <1>4, <2>2, <4>1 DEF Dup2, TableOf
      <4>2. CASE oldFd # newFd
        BY <1>0, <1>4, <2>2, <4>2, TableDuplicated DEF Dup2
      <4> QED
        BY <4>1, <4>2
    <3> QED
      BY <1>0, <1>00, <2>2, <3>1, <3>2 DEF Table!Dup2
  <2> QED
    BY <2>1, <2>2
<1>5. ASSUME NEW t \in Threads, NEW d \in Open, AddDescriptor(t, d)
      PROVE  Table!AddDescriptor(d)
  BY <1>5, AddLockedPlaces DEF AddDescriptor, Keep, Table!AddDescriptor, Open
<1>6. ASSUME NEW t \in Threads, NEW r \in Fresh, NEW w \in Fresh, CreatePipe(t, r, w)
      PROVE  Table!CreatePipe(r, w) /\ r \in Table!Open /\ w \in Table!Open
  <2>1. r \in Descriptors /\ w \in Descriptors /\ r \in Table!Open /\ w \in Table!Open
    BY <1>0 DEF Fresh, Open
  <2>2. closed' = closed
    BY <1>6 DEF CreatePipe, Keep
  <2>3. ASSUME NEW f \in Slots, NEW g \in Slots, FreeSlot(slots, 0, f),
               FreeSlot(slots, f + 1, g), slots' = Filled(Filled(slots, f, r), g, w),
               answer' = <<"CreatePipe", r, w, <<f, g>>>>
        PROVE  Table!CreatePipe(r, w)
    <3>1. f \in FreeOf(slots) /\ f <= Len(slots) /\ \A h \in FreeOf(slots) : f <= h
      BY <1>0, <2>3, LowestFree
    <3>2. g \in FreeOf(slots) \ {f} /\ \A h \in FreeOf(slots) \ {f} : g <= h
      BY <1>0, <2>3, NextLowestFree
    <3> DEFINE s1 == Filled(slots, f, r)
    <3>3. /\ s1 \in Vectors /\ TableOf(s1) = [TableOf(slots) EXCEPT ![f] = r]
          /\ Len(s1) = IF f = Len(slots) THEN Len(slots) + 1 ELSE Len(slots)
      BY <1>0, <2>1, <3>1, FilledVector, TableFilled
    <3>4. g < Len(slots) \/ g = IF f + 1 > Len(slots) THEN f + 1 ELSE Len(slots)
      BY <2>3 DEF FreeSlot, Holes, Grown
    <3>5. g <= Len(s1) /\ slots' = Filled(s1, g, w)
      BY <1>0, <2>3, <3>1, <3>3, <3>4 DEF Vectors, Slots
    <3>6. s1 \in Vectors
      BY <3>3
    <3>7. TableOf(slots') = [TableOf(s1) EXCEPT ![g] = w]
      BY <2>1, <3>5, <3>6, TableFilled
    <3>8. TableOf(slots') = [TableOf(slots) EXCEPT ![f] = r, ![g] = w]
      BY <3>3, <3>7
    <3>9. f \in FreeOf(slots) /\ g \in FreeOf(slots) /\ f # g
      BY <3>1, <3>2
    <3> HIDE DEF s1
    <3> QED
      BY <1>0, <2>2, <2>3, <3>1, <3>2, <3>8, <3>9 DEF Table!CreatePipe, Table!Lowest
  <2>4. CASE /\ \/ NoFreeSlot(slots, 0)
                \/ \E f \in Slots : FreeSlot(slots, 0, f) /\ NoFreeSlot(slots, f + 1)
             /\ answer' = <<"CreatePipe", r, w, None>>
             /\ UNCHANGED slots
    <3>1. ~ \E f, g \in FreeOf(slots) : f # g
      BY <1>0, <2>4, NoneFree, NoNextFree
    <3> QED
      BY <1>0, <2>1, <2>2, <2>4, <3>1 DEF Table!CreatePipe
  <2> QED
    BY <1>6, <2>1, <2>3, <2>4 DEF CreatePipe
<1>7. ASSUME NEW t \in Threads, NEW in \in Open, NEW out \in Open, NEW err \in Open,
             InstallStandardStreams(t, in, out, err)
      PROVE  Table!InstallStandardStreams(in, out, err)
  <2>1. CASE Held(slots) = {}
    <3>1. slots' = <<in, out, err>> /\ UNCHANGED <<refs, closed>>
          /\ answer' = <<"InstallStandardStreams", in, out, err, TRUE>>
      BY <1>7, <2>1 DEF InstallStandardStreams
    <3>2. TableOf(slots') = [fd \in Slots |-> IF fd = 0 THEN in ELSE IF fd = 1 THEN out
                                              ELSE IF fd = 2 THEN err ELSE None]
      <4> SUFFICES ASSUME NEW fd \in Slots
                   PROVE  TableOf(slots')[fd] = IF fd = 0 THEN in ELSE IF fd = 1 THEN out
                                                ELSE IF fd = 2 THEN err ELSE None
        BY DEF TableOf
      <4> QED
        BY <3>1 DEF TableOf, Slots
    <3> QED
      BY <1>0, <2>1, <3>1, <3>2, EmptyTable DEF Table!InstallStandardStreams
  <2>2. CASE Held(slots) # {}
    BY <1>0, <1>7, <2>2, EmptyTable
    DEF InstallStandardStreams, Keep, Table!InstallStandardStreams
  <2> QED
    BY <2>1, <2>2
<1>8. ASSUME NEW t \in Threads, ReleaseAllDescriptors(t) PROVE Table!ReleaseAllDescriptors
  <2>1. TableOf(slots') = [fd \in Slots |-> None]
    BY <1>8 DEF ReleaseAllDescriptors, TableOf, Slots
  <2> QED
    BY <1>0, <1>8, <2>1 DEF ReleaseAllDescriptors, Keep, Table!ReleaseAllDescriptors
<1>9. ASSUME NEW t \in Threads, DropRefs(t)
      PROVE  Table!LetGo(LastHeldBy(t)) /\ LastHeldBy(t) \in SUBSET Table!Open
  <2>1. LastHeldBy(t) \in SUBSET Table!Open
    BY <1>0 DEF LastHeldBy, Inv, TypeOK, NeverClosedInUse, Open
  <2>2. \A fd \in Slots : TableOf(slots)[fd] \notin LastHeldBy(t)
    <3> SUFFICES ASSUME NEW fd \in Slots, TableOf(slots)[fd] \in LastHeldBy(t) PROVE FALSE
      OBVIOUS
    <3>1. TableOf(slots)[fd] # None
      BY NoneAssumption DEF LastHeldBy, Inv, TypeOK
    <3>2. Occupied(slots, fd) /\ slots[fd + 1] = TableOf(slots)[fd]
      BY <1>0, <3>1, UsedSlot DEF FreeOf
    <3> QED
      BY <1>0, <3>2, OccupiedHeld DEF LastHeldBy
  <2> QED
    BY <1>0, <1>9, <2>1, <2>2 DEF DropRefs, Table!LetGo
<1>10. CASE UNCHANGED vars
  BY <1>10 DEF vars, Table!vars, TableOf
<1> QED
  BY <1>0, <1>1, <1>2, <1>3, <1>4, <1>5, <1>6, <1>7, <1>8, <1>9, <1>10
  DEF Next, Table!Next

\* The vector implements the table IFileIO promises.
THEOREM ImplementsDescriptorTable == Spec => ImplementsTable
BY InitInv, NextInv, InitRefines, NextRefines, PTL DEF Spec, ImplementsTable, Table!Spec
=============================================================================
