---------------------------- MODULE MemoryProofs ----------------------------
(***************************************************************************)
(* Proofs about Memory, for every heap whose spaces hold a whole number of    *)
(* cells. The invariant of the collector is inductive: no reference dangles   *)
(* and no collection runs out of memory. And the heap implements Store: each  *)
(* operation of the mutator is the operation of Store on the named objects,   *)
(* the copy steps of a collection change nothing that Store has, and its end  *)
(* drops the objects that no root reaches.                                 *)
(***************************************************************************)
EXTENDS NamedMemory, FiniteSetTheorems, TLAPS

-----------------------------------------------------------------------------
(* Arithmetic of the two spaces.                                           *)

(* Two spaces of at least two cells fit in the heap.                       *)
LEMMA SpaceFacts ==
  ASSUME EvenSpace
  PROVE  /\ SpaceSize \in Nat /\ SpaceSize % 2 = 0
         /\ 4 <= SpaceSize /\ 2 * SpaceSize <= HeapSize
BY MemoryAssumption DEF EvenSpace, SpaceSize

(* The spaces do not overlap, and a cell of either lies inside of it.      *)
LEMMA CellFacts ==
  ASSUME EvenSpace, NEW a \in {0, SpaceSize}, NEW c \in Cells(a)
  PROVE  /\ c \in Nat /\ c % 2 = 0
         /\ a <= c /\ c + 1 < a + SpaceSize
         /\ c \in Slots /\ c + 1 \in Slots
         /\ c \notin Cells(SpaceSize - a) /\ c + 1 \notin Cells(SpaceSize - a)
BY SpaceFacts, MemoryAssumption DEF Cells, Slots

(* Half of the slots of a space are cells.                                 *)
LEMMA CellCount ==
  ASSUME EvenSpace, NEW a \in {0, SpaceSize}
  PROVE  IsFiniteSet(Cells(a)) /\ 2 * Cardinality(Cells(a)) = SpaceSize
<1>. DEFINE n == SpaceSize \div 2
            f == [k \in 1 .. n |-> a + 2 * (k - 1)]
<1>1. n \in Nat /\ 2 * n = SpaceSize
  BY SpaceFacts
<1>2. f \in Bijection(1 .. n, Cells(a))
  <2>1. f \in [1 .. n -> Cells(a)]
    BY <1>1, SpaceFacts DEF Cells
  <2>2. ASSUME NEW x \in 1 .. n, NEW y \in 1 .. n, f[x] = f[y] PROVE x = y
    BY <2>2, <1>1, SpaceFacts
  <2>3. ASSUME NEW c \in Cells(a) PROVE \E k \in 1 .. n : f[k] = c
    <3>. DEFINE k == (c - a) \div 2 + 1
    <3>1. /\ c \in Nat /\ a \in Nat /\ SpaceSize \in Nat
          /\ c % 2 = 0 /\ a % 2 = 0 /\ a <= c /\ c + 1 < a + SpaceSize
      BY SpaceFacts, CellFacts
    <3>2. k \in 1 .. n /\ a + 2 * (k - 1) = c
      BY <1>1, <3>1
    <3>. QED BY <3>2
  <2>. QED BY <2>1, <2>2, <2>3 DEF Bijection, Injection, Surjection, IsInjective
<1>3. ExistsBijection(1 .. n, Cells(a))
  BY <1>2 DEF ExistsBijection
<1>4. IsFiniteSet(1 .. n) /\ Cardinality(1 .. n) = n
  BY <1>1, FS_Interval
<1>. HIDE DEF n
<1>. QED
  BY <1>1, <1>3, <1>4, FS_Bijection, FS_CountingElements

-----------------------------------------------------------------------------
(* Values.                                                                 *)

(* NEVER, the poison, the atoms and the references are told apart.         *)
LEMMA ValueFacts ==
  /\ Never \notin Ref /\ Never # Poison /\ Never \notin Atoms
  /\ Poison \notin Ref /\ Poison \notin Atoms
  /\ \A v \in Ref : v \notin Atoms /\ v.index \in Nat /\ v.tag \in Tags
BY MemoryAssumption DEF Ref, Never

(* Setting a tag keeps the cell a reference refers to.                     *)
LEMMA SetTagFacts ==
  ASSUME NEW v \in Ref, NEW t \in Tags
  PROVE  SetTag(v, t) \in Ref /\ SetTag(v, t).index = v.index
BY ValueFacts DEF SetTag, Ref

(* A fresh cell is a cell of the active space, past the allocated ones.    *)
LEMMA FreshCell ==
  ASSUME EvenSpace, TypeOK, allocIdx % 2 = 0, ~IsOutOfMemory
  PROVE  /\ AllocEnd \in Cells(AllocStart)
         /\ AllocEnd \in Slots /\ AllocEnd + 1 \in Slots
         /\ allocIdx + 2 <= SpaceSize
         /\ NewRef \in Ref /\ NewRef.index = AllocEnd
<1>1. AllocStart \in {0, SpaceSize} /\ allocIdx \in Nat /\ allocIdx < SpaceSize
  BY SpaceFacts DEF AllocStart, TypeOK, IsOutOfMemory
<1>2. allocIdx + 2 <= SpaceSize
  BY <1>1, SpaceFacts DEF TypeOK
<1>3. AllocEnd \in Cells(AllocStart)
  BY <1>1, <1>2, SpaceFacts DEF AllocEnd, Cells, TypeOK
<1>4. NewRef \in Ref /\ NewRef.index = AllocEnd
  BY <1>1, SpaceFacts, MemoryAssumption DEF NewRef, Ref, AllocEnd
<1>. QED
  BY <1>1, <1>2, <1>3, <1>4, CellFacts

-----------------------------------------------------------------------------
(* One call of copy_cons, in a state the collector can be in.              *)

CopyState ==
  /\ EvenSpace /\ TypeOK /\ AllocationFits /\ allocIdx % 2 = 0
  /\ \A c \in Abandoned : OldCell(c)
  /\ allocIdx = 2 * Cardinality(MovedCells)

(* The cells of the two spaces, as the collector sees them.                *)
LEMMA AbandonedFacts ==
  ASSUME EvenSpace, TypeOK
  PROVE  /\ AllocStart \in {0, SpaceSize} /\ SpaceSize - AllocStart \in {0, SpaceSize}
         /\ \A c \in Abandoned : c \in Slots /\ c + 1 \in Slots
         /\ \A c \in Abandoned, d \in Cells(AllocStart) :
              c # d /\ c + 1 # d /\ c # d + 1 /\ c + 1 # d + 1
         /\ \A c, d \in Abandoned : c + 1 # d
         /\ IsFiniteSet(Abandoned) /\ 2 * Cardinality(Abandoned) = SpaceSize
<1>1. AllocStart \in {0, SpaceSize} /\ SpaceSize - AllocStart \in {0, SpaceSize}
  BY SpaceFacts DEF AllocStart, TypeOK
<1>2. IsFiniteSet(Abandoned) /\ 2 * Cardinality(Abandoned) = SpaceSize
  BY <1>1, CellCount DEF Abandoned
<1>3. \A c \in Abandoned : c \in Slots /\ c + 1 \in Slots
  BY <1>1, CellFacts DEF Abandoned
<1>4. \A c \in Abandoned, d \in Cells(AllocStart) :
        c # d /\ c + 1 # d /\ c # d + 1 /\ c + 1 # d + 1
  BY <1>1, SpaceFacts, SMTT(30) DEF Abandoned, Cells
<1>5. \A c, d \in Abandoned : c + 1 # d
  BY <1>1, SpaceFacts DEF Abandoned, Cells
<1>. QED
  BY <1>1, <1>2, <1>3, <1>4, <1>5

(* There is room for the copy of a cell that has not moved: the cells that  *)
(* have moved are then not all the cells of the abandoned space.           *)
LEMMA RoomForCopy ==
  ASSUME CopyState, NEW v, OldRef(v), ~Moved(v)
  PROVE  ~IsOutOfMemory
<1>. USE DEF CopyState
<1>1. MovedCells \subseteq Abandoned /\ v.index \in Abandoned \ MovedCells
  BY DEF MovedCells, OldRef, Moved, Car
<1>2. /\ IsFiniteSet(Abandoned) /\ Cardinality(Abandoned) \in Nat
      /\ IsFiniteSet(MovedCells) /\ Cardinality(MovedCells) \in Nat
      /\ Cardinality(MovedCells) < Cardinality(Abandoned)
  BY <1>1, AbandonedFacts, FS_Subset, FS_CardinalityType
<1>. QED
  BY <1>2, AbandonedFacts, SpaceFacts DEF IsOutOfMemory

(* Four writes to different slots.                                         *)
LEMMA FourWrites ==
  ASSUME NEW S, NEW T, NEW h \in [S -> T],
         NEW a \in S, NEW b \in S, NEW c \in S, NEW d \in S,
         a # c, a # d, b # c, b # d, a # b, c # d,
         NEW w, NEW x, NEW y, NEW z
  PROVE  [[h EXCEPT ![a] = w, ![b] = x] EXCEPT ![c] = y, ![d] = z]
         = [s \in S |-> IF s = c THEN y ELSE IF s = d THEN z
                        ELSE IF s = a THEN w ELSE IF s = b THEN x ELSE h[s]]
OBVIOUS

(* What copy_cons writes: nothing for NEVER and for a moved cell, otherwise *)
(* the two slots of the copy and the forward pointer.                      *)
LEMMA CopyFacts ==
  ASSUME CopyState, NEW v, v = Never \/ OldRef(v)
  PROVE  /\ ~CopyFails(v)
         /\ ~NeedsCopy(v) => CopyHeap(v) = heap /\ CopyAlloc(v) = allocIdx
         /\ NeedsCopy(v) =>
              /\ OldRef(v) /\ v.index \in Abandoned \ MovedCells
              /\ OldValue(Car(v)) /\ OldValue(Cdr(v))
              /\ ~IsOutOfMemory
              /\ CopyAlloc(v) = allocIdx + 2
              /\ CopyHeap(v) = [s \in Slots |->
                   IF s = v.index THEN Never
                   ELSE IF s = v.index + 1 THEN NewRef
                   ELSE IF s = AllocEnd THEN Car(v)
                   ELSE IF s = AllocEnd + 1 THEN Cdr(v) ELSE heap[s]]
         /\ CopyHeap(v) \in [Slots -> Ref \cup Atoms \cup {Never, Poison}]
<1>. USE DEF CopyState
<1>1. CASE ~NeedsCopy(v)
  BY <1>1 DEF CopyFails, CopyHeap, CopyAlloc, TypeOK
<1>2. CASE NeedsCopy(v)
  <2>1. OldRef(v) /\ ~Moved(v)
    BY <1>2 DEF NeedsCopy
  <2>2. ~IsOutOfMemory
    BY <2>1, RoomForCopy
  <2>3. /\ v.index \in Abandoned \ MovedCells
        /\ v.index \in Slots /\ v.index + 1 \in Slots /\ v.index + 1 # v.index
    BY <2>1, AbandonedFacts, ValueFacts DEF OldRef, Moved, Car, MovedCells
  <2>4. OldValue(Car(v)) /\ OldValue(Cdr(v))
    BY <2>1, <2>3 DEF OldRef, OldCell, Moved, Car, Cdr
  <2>5. /\ AllocEnd \in Slots /\ AllocEnd + 1 \in Slots /\ AllocEnd \in Nat
        /\ AllocEnd \in Cells(AllocStart) /\ NewRef \in Ref
    BY <2>2, FreshCell, MemoryAssumption DEF Slots
  <2>6. /\ v.index # AllocEnd /\ v.index + 1 # AllocEnd
        /\ v.index # AllocEnd + 1 /\ v.index + 1 # AllocEnd + 1
    BY <2>3, <2>5, AbandonedFacts
  <2>7. CopyHeap(v) = [s \in Slots |->
                   IF s = v.index THEN Never
                   ELSE IF s = v.index + 1 THEN NewRef
                   ELSE IF s = AllocEnd THEN Car(v)
                   ELSE IF s = AllocEnd + 1 THEN Cdr(v) ELSE heap[s]]
    <3>1. CopyHeap(v) = [[heap EXCEPT ![AllocEnd] = Car(v), ![AllocEnd + 1] = Cdr(v)]
                           EXCEPT ![v.index] = Never, ![v.index + 1] = NewRef]
      BY <1>2 DEF CopyHeap, WithCell
    <3>2. heap \in [Slots -> Ref \cup Atoms \cup {Never, Poison}]
      BY DEF TypeOK
    <3>3. AllocEnd # AllocEnd + 1
      BY <2>5
    <3>. QED
      BY <2>3, <2>5, <2>6, <3>1, <3>2, <3>3, FourWrites
  <2>8. Car(v) \in Ref \cup Atoms /\ Cdr(v) \in Ref \cup Atoms
    BY <2>4 DEF OldValue, OldRef
  <2>9. CopyHeap(v) \in [Slots -> Ref \cup Atoms \cup {Never, Poison}]
    BY <2>5, <2>7, <2>8 DEF TypeOK
  <2>. QED
    BY <1>2, <2>1, <2>2, <2>3, <2>4, <2>7, <2>9 DEF CopyFails, CopyAlloc
<1>. QED
  BY <1>1, <1>2

(* A step of the collector that copies v, and may store the result in a     *)
(* slot that is already allocated in the active space.                     *)
CopyStep(v) ==
  /\ v = Never \/ OldRef(v)
  /\ space' = space
  /\ allocIdx' = CopyAlloc(v)
  /\ \/ heap' = CopyHeap(v)
     \/ \E s \in AllocStart .. AllocEnd - 1 :
          heap' = [CopyHeap(v) EXCEPT ![s] = CopyRef(v)]

(* The allocated part of the active space lies outside of the abandoned one.*)
LEMMA AllocatedFacts ==
  ASSUME EvenSpace, TypeOK, AllocationFits
  PROVE  /\ AllocStart \in Nat /\ AllocEnd \in Nat /\ AllocEnd = AllocStart + allocIdx
         /\ AllocStart .. AllocEnd - 1 \subseteq Slots
         /\ \A s \in AllocStart .. AllocEnd - 1 :
              s # AllocEnd /\ s # AllocEnd + 1
              /\ \A c \in Abandoned : s # c /\ s # c + 1
         /\ Allocated = {c \in AllocStart .. AllocEnd - 1 : c % 2 = 0}
<1>1. AllocStart \in {0, SpaceSize} /\ allocIdx \in Nat /\ allocIdx <= SpaceSize
  BY AbandonedFacts DEF TypeOK, AllocationFits
<1>2. AllocStart \in Nat /\ AllocEnd \in Nat /\ AllocEnd = AllocStart + allocIdx
  BY <1>1, SpaceFacts DEF AllocEnd
<1>3. AllocStart .. AllocEnd - 1 \subseteq Slots
  BY <1>1, <1>2, SpaceFacts, MemoryAssumption DEF Slots
<1>4. ASSUME NEW s \in AllocStart .. AllocEnd - 1
      PROVE  s # AllocEnd /\ s # AllocEnd + 1
             /\ \A c \in Abandoned : s # c /\ s # c + 1
  BY <1>1, <1>2, SpaceFacts DEF Abandoned, Cells
<1>5. Allocated = {c \in AllocStart .. AllocEnd - 1 : c % 2 = 0}
  <2>1. SpaceSize \in Nat
    BY SpaceFacts
  <2>2. \A c \in Int : c \in Allocated <=> c \in AllocStart .. AllocEnd - 1 /\ c % 2 = 0
    <3>. SUFFICES ASSUME NEW c \in Int
                  PROVE  c \in Allocated <=> c \in AllocStart .. AllocEnd - 1 /\ c % 2 = 0
      OBVIOUS
    <3>1. c \in Cells(AllocStart)
          <=> AllocStart <= c /\ c <= AllocStart + SpaceSize - 1 /\ c % 2 = 0
      BY <1>2, <2>1 DEF Cells
    <3>. QED
      BY <1>1, <1>2, <2>1, <3>1 DEF Allocated
  <2>3. Allocated \subseteq Int /\ AllocStart .. AllocEnd - 1 \subseteq Int
    BY <1>2, <2>1 DEF Allocated, Cells
  <2>. QED BY <2>2, <2>3
<1>. QED
  BY <1>2, <1>3, <1>4, <1>5

(* The reference copy_cons returns is NEVER for NEVER, and otherwise refers *)
(* to an allocated cell of the active space.                               *)
LEMMA CopiedRefIsLive ==
  ASSUME CopyState, NEW v, CopyStep(v)
  PROVE  \/ CopyRef(v) = Never /\ v = Never
         \/ CopyRef(v) \in Ref /\ CopyRef(v).index \in Allocated'
<1>. USE DEF CopyState
<1>1. CASE v = Never
  BY <1>1 DEF CopyRef
<1>2. CASE v # Never /\ Moved(v)
  <2>1. OldRef(v) /\ v.index \in Abandoned /\ heap[v.index] = Never
    BY <1>2 DEF CopyStep, OldRef, Moved, Car
  <2>2. LiveRef(Cdr(v))
    BY <2>1, ValueFacts DEF OldCell, Cdr, OldValue, OldRef
  <2>3. CopyRef(v) \in Ref /\ CopyRef(v).index = Cdr(v).index
    BY <1>2, <2>1, <2>2, SetTagFacts, ValueFacts DEF CopyRef, LiveRef, OldRef
  <2>4. allocIdx' = allocIdx /\ space' = space
    BY <1>2, <2>1, CopyFacts DEF CopyStep, NeedsCopy
  <2>. QED
    BY <2>2, <2>3, <2>4 DEF LiveRef, Allocated, AllocEnd, AllocStart, Cells, SpaceSize
<1>3. CASE v # Never /\ ~Moved(v)
  <2>1. NeedsCopy(v) /\ OldRef(v) /\ allocIdx' = allocIdx + 2 /\ space' = space
    BY <1>3, CopyFacts DEF CopyStep, NeedsCopy
  <2>2. AllocEnd \in Cells(AllocStart) /\ NewRef \in Ref /\ NewRef.index = AllocEnd
    BY <2>1, CopyFacts, FreshCell
  <2>3. CopyRef(v) \in Ref /\ CopyRef(v).index = AllocEnd
    BY <1>3, <2>1, <2>2, SetTagFacts, ValueFacts DEF CopyRef, OldRef
  <2>4. AllocEnd \in Allocated'
    BY <2>1, <2>2, AllocatedFacts
       DEF Allocated, AllocEnd, AllocStart, Cells, SpaceSize, TypeOK
  <2>. QED
    BY <2>3, <2>4
<1>. QED
  BY <1>1, <1>2, <1>3

-----------------------------------------------------------------------------
(* What a copying step leaves alone and what it adds.                       *)

(* The heap keeps its type, the spaces stay, and outside of the slots that  *)
(* are already copied the heap is what copy_cons makes of it.              *)
LEMMA CopyStepFrame ==
  ASSUME CopyState, NEW v, CopyStep(v)
  PROVE  /\ heap' \in [Slots -> Ref \cup Atoms \cup {Never, Poison}]
         /\ AllocStart' = AllocStart /\ Abandoned' = Abandoned
         /\ AllocEnd' = AllocStart + allocIdx'
         /\ \A s \in Slots \ (AllocStart .. AllocEnd - 1) : heap'[s] = CopyHeap(v)[s]
<1>. USE DEF CopyState
<1>1. CopyHeap(v) \in [Slots -> Ref \cup Atoms \cup {Never, Poison}]
  BY CopyFacts DEF CopyStep
<1>2. CopyRef(v) \in Ref \cup {Never}
  BY CopiedRefIsLive
<1>3. AllocStart' = AllocStart /\ Abandoned' = Abandoned /\ AllocEnd' = AllocStart + allocIdx'
  BY DEF CopyStep, AllocStart, AllocEnd, Abandoned, Cells, SpaceSize
<1>4. CASE heap' = CopyHeap(v)
  BY <1>1, <1>3, <1>4
<1>5. ASSUME NEW s \in AllocStart .. AllocEnd - 1, heap' = [CopyHeap(v) EXCEPT ![s] = CopyRef(v)]
      PROVE  /\ heap' \in [Slots -> Ref \cup Atoms \cup {Never, Poison}]
             /\ \A t \in Slots \ (AllocStart .. AllocEnd - 1) : heap'[t] = CopyHeap(v)[t]
  BY <1>1, <1>2, <1>5
<1>. QED
  BY <1>3, <1>4, <1>5 DEF CopyStep

(* Live references stay live, references into the abandoned space stay      *)
(* references to cells that were allocated there, and the new slots hold    *)
(* what the copied cell held.                                              *)
LEMMA CopyStepReferences ==
  ASSUME CopyState, NEW v, CopyStep(v)
  PROVE  /\ \A w : LiveRef(w) => w \in Ref /\ w.index \in Allocated'
         /\ \A w : OldRef(w) => w \in Ref /\ w.index \in Abandoned' /\ heap'[w.index] # Poison
         /\ allocIdx' \in Nat /\ allocIdx' % 2 = 0 /\ allocIdx <= allocIdx'
         /\ allocIdx' <= SpaceSize
         /\ \A s \in AllocEnd .. AllocEnd' - 1 : s \in Slots /\ OldValue(heap'[s])
<1>. USE DEF CopyState
<1>1. /\ allocIdx' \in Nat /\ allocIdx' % 2 = 0 /\ allocIdx <= allocIdx'
      /\ allocIdx' <= SpaceSize
  <2>1. CASE ~NeedsCopy(v)
    BY <2>1, CopyFacts DEF CopyStep, TypeOK, AllocationFits
  <2>2. CASE NeedsCopy(v)
    BY <2>2, CopyFacts, FreshCell DEF CopyStep, TypeOK
  <2>. QED BY <2>1, <2>2
<1>2. Allocated \subseteq Allocated'
  BY <1>1, CopyStepFrame, AllocatedFacts DEF Allocated, AllocEnd, Cells, SpaceSize
<1>3. ASSUME NEW w, OldRef(w)
      PROVE  w \in Ref /\ w.index \in Abandoned' /\ heap'[w.index] # Poison
  <2>1. w.index \in Slots \ (AllocStart .. AllocEnd - 1)
    BY <1>3, AllocatedFacts, AbandonedFacts DEF OldRef
  <2>2. heap'[w.index] = CopyHeap(v)[w.index]
    BY <2>1, CopyStepFrame
  <2>3. CASE ~NeedsCopy(v)
    BY <1>3, <2>2, <2>3, CopyFacts, CopyStepFrame DEF CopyStep, OldRef
  <2>4. CASE NeedsCopy(v)
    <3>1. /\ v.index \in Abandoned /\ w.index \in Abandoned /\ w.index # v.index + 1
          /\ w.index # AllocEnd /\ w.index # AllocEnd + 1
      BY <1>3, <2>4, CopyFacts, AbandonedFacts, FreshCell DEF CopyStep, OldRef
    <3>2. heap'[w.index] = IF w.index = v.index THEN Never ELSE heap[w.index]
      BY <2>1, <2>2, <2>4, <3>1, CopyFacts DEF CopyStep
    <3>. QED
      BY <1>3, <3>2, CopyStepFrame, ValueFacts DEF OldRef
  <2>. QED BY <2>3, <2>4
<1>4. ASSUME NEW s \in AllocEnd .. AllocEnd' - 1
      PROVE  s \in Slots /\ OldValue(heap'[s])
  <2>1. NeedsCopy(v) /\ AllocEnd' = AllocEnd + 2
    BY <1>4, CopyFacts, CopyStepFrame, AllocatedFacts DEF CopyStep, AllocEnd, TypeOK
  <2>2. /\ AllocEnd \in Slots /\ AllocEnd + 1 \in Slots /\ AllocEnd \in Nat
        /\ AllocEnd \in Cells(AllocStart)
    BY <2>1, CopyFacts, FreshCell, AllocatedFacts DEF CopyStep
  <2>3. s = AllocEnd \/ s = AllocEnd + 1
    BY <1>4, <2>1, <2>2
  <2>4. /\ s \in Slots \ (AllocStart .. AllocEnd - 1)
        /\ s # v.index /\ s # v.index + 1
    <3>1. v.index \in Abandoned
      BY <2>1, CopyFacts DEF CopyStep
    <3>2. s # v.index /\ s # v.index + 1
      BY <2>2, <2>3, <3>1, AbandonedFacts
    <3>3. s \in Slots \ (AllocStart .. AllocEnd - 1)
      BY <2>2, <2>3, AllocatedFacts
    <3>. QED BY <3>2, <3>3
  <2>5. heap'[s] = CopyHeap(v)[s]
    BY <2>4, CopyStepFrame
  <2>6. heap'[s] = Car(v) \/ heap'[s] = Cdr(v)
    BY <2>1, <2>3, <2>4, <2>5, CopyFacts DEF CopyStep
  <2>. QED
    BY <2>1, <2>4, <2>6, CopyFacts DEF CopyStep
<1>. QED
  BY <1>1, <1>2, <1>3, <1>4 DEF LiveRef

(* Every abandoned cell stays whole, forwarded or unallocated, and the      *)
(* active space grows by one cell for each one that is forwarded.          *)
LEMMA CopyStepCells ==
  ASSUME CopyState, NEW v, CopyStep(v)
  PROVE  /\ \A c \in Abandoned : OldCell(c)'
         /\ allocIdx' = 2 * Cardinality(MovedCells')
<1>. USE DEF CopyState
<1>1. /\ Abandoned' = Abandoned
      /\ \A c \in Abandoned : heap'[c] = CopyHeap(v)[c] /\ heap'[c + 1] = CopyHeap(v)[c + 1]
  BY CopyStepFrame, AllocatedFacts, AbandonedFacts
<1>2. CASE ~NeedsCopy(v)
  <2>1. /\ \A c \in Abandoned : heap'[c] = heap[c] /\ heap'[c + 1] = heap[c + 1]
        /\ allocIdx' = allocIdx
    BY <1>1, <1>2, CopyFacts DEF CopyStep
  <2>2. \A c \in Abandoned : OldCell(c)'
    BY <1>1, <2>1, CopyStepReferences DEF OldCell, OldValue, OldRef, LiveRef
  <2>3. MovedCells' = MovedCells
    BY <1>1, <2>1 DEF MovedCells
  <2>. QED BY <2>1, <2>2, <2>3
<1>3. CASE NeedsCopy(v)
  <2>1. /\ v.index \in Abandoned \ MovedCells /\ v.index + 1 \in Slots
        /\ allocIdx' = allocIdx + 2
        /\ AllocEnd \in Allocated' /\ NewRef \in Ref /\ NewRef.index = AllocEnd
    <3>1. AllocEnd \in Cells(AllocStart) /\ NewRef \in Ref /\ NewRef.index = AllocEnd
      BY <1>3, CopyFacts, FreshCell DEF CopyStep
    <3>2. allocIdx' = allocIdx + 2 /\ v.index \in Abandoned \ MovedCells
      BY <1>3, CopyFacts DEF CopyStep
    <3>3. AllocEnd < AllocEnd'
      BY <3>2, CopyStepFrame, AllocatedFacts DEF TypeOK
    <3>4. AllocEnd \in Allocated'
      BY <3>1, <3>3, CopyStepFrame DEF Allocated, Cells, SpaceSize
    <3>. QED BY <3>1, <3>2, <3>4, AbandonedFacts
  <2>2. heap'[v.index] = Never /\ heap'[v.index + 1] = NewRef
    <3>1. v.index \in Slots /\ v.index # v.index + 1
      BY <2>1, AbandonedFacts
    <3>. QED BY <1>1, <1>3, <2>1, <3>1, CopyFacts DEF CopyStep
  <2>3. ASSUME NEW c \in Abandoned, c # v.index
        PROVE  heap'[c] = heap[c] /\ heap'[c + 1] = heap[c + 1]
    <3>1. /\ c \in Slots /\ c + 1 \in Slots /\ c \in Int /\ v.index \in Int
          /\ c # v.index + 1 /\ c + 1 # v.index /\ c + 1 # v.index + 1
          /\ c # AllocEnd /\ c # AllocEnd + 1 /\ c + 1 # AllocEnd /\ c + 1 # AllocEnd + 1
      BY <1>3, <2>1, <2>3, AbandonedFacts, CopyFacts, FreshCell, MemoryAssumption
         DEF Slots, CopyStep
    <3>. QED BY <1>1, <1>3, <2>3, <3>1, CopyFacts DEF CopyStep
  <2>4. ASSUME NEW c \in Abandoned PROVE OldCell(c)'
    <3>1. CASE c = v.index
      BY <2>1, <2>2, <3>1 DEF OldCell, LiveRef
    <3>2. CASE c # v.index
      BY <1>1, <2>3, <3>2, CopyStepReferences DEF OldCell, OldValue, OldRef, LiveRef
    <3>. QED BY <3>1, <3>2
  <2>5. MovedCells' = MovedCells \cup {v.index}
    BY <1>1, <2>1, <2>2, <2>3 DEF MovedCells
  <2>6. IsFiniteSet(MovedCells) /\ Cardinality(MovedCells) \in Nat
    BY AbandonedFacts, FS_Subset, FS_CardinalityType DEF MovedCells
  <2>7. Cardinality(MovedCells') = Cardinality(MovedCells) + 1
    BY <2>1, <2>5, <2>6, FS_AddElement
  <2>. QED BY <2>1, <2>4, <2>6, <2>7
<1>. QED
  BY <1>2, <1>3

-----------------------------------------------------------------------------
(* The invariant holds initially.                                          *)
LEMMA InitInvariant ==
  ASSUME EvenSpace, Init
  PROVE  HeapInvariant
<1>. USE DEF Init
<1>1. /\ SpaceSize \in Nat /\ 4 <= SpaceSize /\ 2 * SpaceSize <= HeapSize
      /\ HeapSize \in Nat /\ AllocStart = 0 /\ AllocEnd = 4
  BY SpaceFacts, MemoryAssumption DEF AllocStart, AllocEnd
<1>2. /\ [index |-> 0, tag |-> PairTag] \in Ref /\ [index |-> 2, tag |-> PairTag] \in Ref
      /\ Never \notin Ref
  BY ValueFacts, MemoryAssumption DEF Ref
<1>3. TypeOK
  BY <1>1, <1>2, MemoryAssumption DEF TypeOK, Roots, False
<1>4. Allocated = {0, 2} /\ {0, 1, 2, 3} \subseteq Slots
  BY <1>1 DEF Allocated, Cells, Slots
<1>5. NoDanglingReference
  BY <1>2, <1>4, MemoryAssumption DEF NoDanglingReference, LiveRef, LiveValue, Roots, False
<1>6. Unallocated
  BY <1>1 DEF Unallocated, Cells, Slots
<1>7. HalfCopied
  BY DEF HalfCopied, Collecting
<1>8. roots[False] # Never
  BY <1>2 DEF Roots, False
<1>. QED
  BY <1>1, <1>3, <1>5, <1>6, <1>7, <1>8 DEF HeapInvariant, AllocationFits

-----------------------------------------------------------------------------
(* The mutator's steps that allocate nothing.                              *)

(* It is enough that what such a step stores or reads is live.             *)
LEMMA MutatorFrame ==
  ASSUME EvenSpace, HeapInvariant, pc = "mutator", pc' = "mutator",
         UNCHANGED <<allocIdx, space, pushing, cursor>>,
         heap' \in [Slots -> Ref \cup Atoms \cup {Never, Poison}],
         roots' \in [Roots -> Ref \cup {Never}],
         roots'[False] # Never,
         \A r \in Roots : roots'[r] = Never \/ LiveRef(roots'[r]),
         \A v \in held' : LiveRef(v),
         \A c \in Allocated : LiveValue(heap'[c]) /\ LiveValue(heap'[c + 1]),
         \A c \in Cells(AllocStart) : c >= AllocEnd => heap'[c] = heap[c]
  PROVE  HeapInvariant'
<1>. USE DEF HeapInvariant
<1>1. /\ AllocStart' = AllocStart /\ AllocEnd' = AllocEnd /\ Allocated' = Allocated
      /\ Cells(AllocStart)' = Cells(AllocStart)
  BY DEF AllocStart, AllocEnd, Allocated, Cells, SpaceSize
<1>2. TypeOK'
  BY DEF TypeOK, LiveRef
<1>3. NoDanglingReference'
  BY <1>1 DEF NoDanglingReference, LiveRef, LiveValue
<1>4. HalfCopied' /\ (pc' = "allocated" => roots'[Result] # Never)
  BY DEF HalfCopied, Collecting
<1>5. Unallocated'
  BY <1>1 DEF Unallocated, Settled
<1>6. AllocationFits'
  BY DEF AllocationFits, SpaceSize
<1>. QED
  BY <1>2, <1>3, <1>4, <1>5, <1>6

(* What the mutator may use: its locals, the roots, and the fields of both. *)
LEMMA MutatorFacts ==
  ASSUME EvenSpace, HeapInvariant, pc = "mutator"
  PROVE  /\ \A r \in Roots : roots[r] = Never \/ LiveRef(roots[r])
         /\ \A v \in held : LiveRef(v)
         /\ \A c \in Allocated : LiveValue(heap[c]) /\ LiveValue(heap[c + 1])
         /\ \A c \in Allocated : c \in Int /\ c % 2 = 0 /\ c \in Slots /\ c + 1 \in Slots
         /\ heap \in [Slots -> Ref \cup Atoms \cup {Never, Poison}]
         /\ roots \in [Roots -> Ref \cup {Never}]
         /\ roots[False] # Never /\ held \subseteq Ref
<1>. USE DEF HeapInvariant
<1>1. /\ \A r \in Roots : roots[r] = Never \/ LiveRef(roots[r])
      /\ \A v \in held : LiveRef(v)
      /\ \A c \in Allocated : LiveValue(heap[c]) /\ LiveValue(heap[c + 1])
  BY DEF NoDanglingReference, Settled
<1>2. \A c \in Allocated : c \in Int /\ c % 2 = 0 /\ c \in Slots /\ c + 1 \in Slots
  BY AbandonedFacts, CellFacts DEF Allocated
<1>. QED
  BY <1>1, <1>2 DEF TypeOK

LEMMA FieldFacts ==
  ASSUME EvenSpace, HeapInvariant, pc = "mutator", NEW v, LiveRef(v), NEW field \in {0, 1}
  PROVE  /\ v.index \in Allocated /\ v.index + field \in Slots
         /\ LiveValue(heap[v.index + field])
<1>1. v.index \in Allocated
  BY DEF LiveRef
<1>2. v.index + 0 = v.index
  BY <1>1, MutatorFacts
<1>. QED
  BY <1>1, <1>2, MutatorFacts

LEMMA ReadInvariant ==
  ASSUME EvenSpace, HeapInvariant, MutatorReads
  PROVE  HeapInvariant'
<1>1. /\ pc = "mutator" /\ UNCHANGED <<heap, allocIdx, space, roots, pushing, pc, cursor>>
      /\ \A v \in held' : LiveRef(v)
  <2>1. ASSUME NEW r \in ClientRoots \cup {False}, ReadRoot(r)
        PROVE  /\ pc = "mutator" /\ UNCHANGED <<heap, allocIdx, space, roots, pushing, pc, cursor>>
               /\ \A v \in held' : LiveRef(v)
    <3>1. roots[r] \in Ref /\ r \in Roots /\ pc = "mutator"
      BY <2>1, MemoryAssumption DEF ReadRoot, Hold, Roots, False
    <3>2. LiveRef(roots[r])
      BY <3>1, MutatorFacts, ValueFacts
    <3>. QED
      BY <2>1, <3>1, <3>2, MutatorFacts DEF ReadRoot, Hold
  <2>2. ASSUME NEW v \in held, NEW field \in {0, 1}, Load(v, field)
        PROVE  /\ pc = "mutator" /\ UNCHANGED <<heap, allocIdx, space, roots, pushing, pc, cursor>>
               /\ \A w \in held' : LiveRef(w)
    <3>1. pc = "mutator" /\ LiveValue(heap[v.index + field]) /\ heap[v.index + field] \in Ref
      BY <2>2, MutatorFacts, FieldFacts DEF Load, Hold
    <3>2. LiveRef(heap[v.index + field])
      BY <3>1, ValueFacts DEF LiveValue
    <3>. QED
      BY <2>2, <3>1, <3>2, MutatorFacts DEF Load, Hold
  <2>. QED
    BY <2>1, <2>2 DEF MutatorReads
<1>. QED
  BY <1>1, MutatorFacts, MutatorFrame

LEMMA WriteInvariant ==
  ASSUME EvenSpace, HeapInvariant, MutatorWrites
  PROVE  HeapInvariant'
<1>1. ASSUME NEW v \in held, NEW field \in ClientFields, NEW w \in Values, SetField(v, field, w)
      PROVE  HeapInvariant'
  <2>. DEFINE i == v.index + field
              x == SetTag(w, TagOf(heap[i]))
  <2>1. /\ pc = "mutator" /\ i \in Slots /\ LiveValue(heap[i])
        /\ v.index \in Allocated /\ field \in {0, 1} /\ LiveValue(w)
        /\ heap \in [Slots -> Ref \cup Atoms \cup {Never, Poison}]
    <3>1. pc = "mutator" /\ field \in {0, 1} /\ LiveRef(v) /\ LiveValue(w)
      BY <1>1, MutatorFacts, MemoryAssumption DEF SetField, Values, LiveValue
    <3>. QED
      BY <3>1, MutatorFacts, FieldFacts
  <2>2. LiveValue(x)
    <3>1. TagOf(heap[i]) \in Tags
      BY <2>1, ValueFacts, MemoryAssumption DEF TagOf, LiveValue, LiveRef
    <3>2. CASE w \in Atoms
      BY <3>2 DEF SetTag, LiveValue
    <3>3. CASE w \notin Atoms
      BY <2>1, <3>1, <3>3, SetTagFacts DEF LiveValue, LiveRef
    <3>. QED BY <3>2, <3>3
  <2>3. heap' = [heap EXCEPT ![i] = x] /\ UNCHANGED <<allocIdx, space, roots, held, pushing, pc, cursor>>
    BY <1>1 DEF SetField
  <2>. HIDE DEF x
  <2>4. heap' \in [Slots -> Ref \cup Atoms \cup {Never, Poison}]
    BY <2>1, <2>2, <2>3 DEF LiveValue, LiveRef
  <2>5. \A s \in Slots : heap'[s] = heap[s] \/ LiveValue(heap'[s])
    BY <2>1, <2>2, <2>3
  <2>6. \A c \in Allocated : LiveValue(heap'[c]) /\ LiveValue(heap'[c + 1])
    BY <2>1, <2>5, MutatorFacts
  <2>7. \A c \in Cells(AllocStart) : c >= AllocEnd => heap'[c] = heap[c]
    <3>1. ASSUME NEW c \in Cells(AllocStart), c >= AllocEnd PROVE c # i
      <4>1. v.index \in Cells(AllocStart) /\ v.index < AllocEnd
        BY <2>1 DEF Allocated
      <4>2. /\ c \in Nat /\ c % 2 = 0 /\ v.index \in Nat /\ v.index % 2 = 0
            /\ AllocEnd \in Nat
        BY <3>1, <4>1, CellFacts, AllocatedFacts, AbandonedFacts DEF HeapInvariant
      <4>. QED BY <2>1, <3>1, <4>1, <4>2
    <3>. QED BY <2>1, <2>3, <3>1, AbandonedFacts, CellFacts DEF HeapInvariant
  <2>. QED
    BY <2>1, <2>3, <2>4, <2>6, <2>7, MutatorFacts, MutatorFrame
<1>2. ASSUME NEW r \in ClientRoots, NEW v \in held, SetRoot(r, v)
      PROVE  HeapInvariant'
  <2>1. pc = "mutator" /\ LiveRef(v) /\ v # Never /\ v \in Ref /\ r \in Roots
    BY <1>2, MutatorFacts, ValueFacts, MemoryAssumption DEF SetRoot, Roots, LiveRef
  <2>. QED
    BY <1>2, <2>1, MutatorFacts, MutatorFrame DEF SetRoot, Roots, False
<1>3. ASSUME SetRoot(Register, Never)
      PROVE  HeapInvariant'
  <2>1. pc = "mutator"
    BY <1>3 DEF SetRoot
  <2>. QED
    BY <1>3, <2>1, MutatorFacts, MutatorFrame DEF SetRoot, Roots, False, Register
<1>4. ASSUME Pop
      PROVE  HeapInvariant'
  <2>. DEFINE top == roots[Stack]
  <2>1. pc = "mutator" /\ LiveRef(top)
    BY <1>4, MutatorFacts DEF Pop, Roots, Stack
  <2>2. LiveValue(Car(top)) /\ LiveRef(Cdr(top))
    <3>1. LiveValue(heap[top.index + 0]) /\ LiveValue(heap[top.index + 1]) /\ top.index + 0 = top.index
      BY <2>1, MutatorFacts, FieldFacts
    <3>. QED
      BY <1>4, <2>1, <3>1, ValueFacts DEF Pop, Car, Cdr, LiveValue
  <2>3. \A v \in held' : LiveRef(v)
    BY <1>4, <2>1, <2>2, MutatorFacts, ValueFacts DEF Pop, Hold, LiveValue
  <2>4. /\ roots' = [roots EXCEPT ![Stack] = Cdr(top)] /\ Cdr(top) \in Ref
        /\ UNCHANGED <<heap, allocIdx, space, pushing, pc, cursor>>
    BY <1>4 DEF Pop
  <2>. QED
    BY <2>1, <2>2, <2>3, <2>4, MutatorFacts, MutatorFrame DEF Roots, Stack, False
<1>. QED
  BY <1>1, <1>2, <1>3, <1>4 DEF MutatorWrites

-----------------------------------------------------------------------------
(* Allocation.                                                             *)

LEMMA AllocateInvariant ==
  ASSUME EvenSpace, HeapInvariant, NEW car, NEW cdr, NEW push \in BOOLEAN,
         Allocate(car, cdr, push), LiveValue(car), LiveValue(cdr)
  PROVE  HeapInvariant'
<1>. USE DEF HeapInvariant, Allocate
<1>1. /\ AllocEnd \in Cells(AllocStart) /\ AllocEnd \in Slots /\ AllocEnd + 1 \in Slots
      /\ allocIdx + 2 <= SpaceSize /\ NewRef \in Ref /\ NewRef.index = AllocEnd
      /\ AllocEnd \in Nat /\ allocIdx \in Nat /\ AllocEnd = AllocStart + allocIdx
      /\ AllocStart \in Nat
  BY FreshCell, AllocatedFacts DEF TypeOK
<1>2. /\ AllocStart' = AllocStart /\ AllocEnd' = AllocEnd + 2
      /\ Cells(AllocStart)' = Cells(AllocStart)
  BY <1>1 DEF AllocStart, AllocEnd, Cells, SpaceSize
<1>3. \A c \in Cells(AllocStart) : c \in Nat /\ c % 2 = 0 /\ c \in Slots /\ c + 1 \in Slots
  BY AbandonedFacts, CellFacts
<1>4. Allocated' = Allocated \cup {AllocEnd} /\ AllocEnd % 2 = 0
  <2>1. \A c \in Cells(AllocStart) : c < AllocEnd + 2 <=> c < AllocEnd \/ c = AllocEnd
    BY <1>1, <1>3
  <2>. QED BY <1>1, <1>2, <1>3, <2>1 DEF Allocated
<1>5. /\ heap' \in [Slots -> Ref \cup Atoms \cup {Never, Poison}]
      /\ heap'[AllocEnd] = car /\ heap'[AllocEnd + 1] = cdr
      /\ \A s \in Slots : s # AllocEnd /\ s # AllocEnd + 1 => heap'[s] = heap[s]
  <2>1. car \in Ref \cup Atoms /\ cdr \in Ref \cup Atoms
    BY DEF LiveValue, LiveRef
  <2>. QED BY <1>1, <2>1 DEF WithCell, TypeOK
<1>6. roots' \in [Roots -> Ref \cup {Never}] /\ roots'[Result] = NewRef
      /\ \A r \in Roots : r # Result => roots'[r] = roots[r]
  BY <1>1 DEF TypeOK, Roots, Result
<1>7. TypeOK'
  BY <1>1, <1>5, <1>6 DEF TypeOK
<1>8. \A v : LiveRef(v) => v \in Ref /\ v.index \in Allocated'
  BY <1>4 DEF LiveRef
<1>9. NoDanglingReference'
  <2>1. \A r \in Roots : \/ roots'[r] = Never
                         \/ roots'[r] \in Ref /\ roots'[r].index \in Allocated'
    BY <1>1, <1>4, <1>6, <1>8, MutatorFacts
  <2>2. ASSUME NEW c \in Allocated' PROVE LiveValue(heap[c])' /\ LiveValue(heap[c + 1])'
    <3>1. CASE c = AllocEnd
      BY <1>5, <1>8, <3>1 DEF LiveValue, LiveRef
    <3>2. CASE c # AllocEnd
      <4>1. c \in Allocated /\ LiveValue(heap[c]) /\ LiveValue(heap[c + 1])
        BY <1>4, <3>2, MutatorFacts
      <4>2. heap'[c] = heap[c] /\ heap'[c + 1] = heap[c + 1]
        BY <1>1, <1>3, <1>4, <1>5, <3>2, <4>1 DEF Allocated
      <4>. QED BY <1>8, <4>1, <4>2 DEF LiveValue, LiveRef
    <3>. QED BY <3>1, <3>2
  <2>. QED BY <2>1, <2>2 DEF NoDanglingReference, LiveRef
<1>10. Unallocated'
  <2>1. ASSUME NEW c \in Cells(AllocStart), c >= AllocEnd + 2 PROVE heap'[c] = Poison
    BY <1>1, <1>3, <1>5, <2>1 DEF Unallocated, Settled
  <2>. QED BY <1>2, <2>1 DEF Unallocated
<1>11. roots'[False] # Never /\ roots'[Result] # Never
  BY <1>1, <1>6, ValueFacts DEF Roots, False, Result
<1>12. AllocationFits' /\ (allocIdx % 2 = 0)'
  BY <1>1 DEF AllocationFits, SpaceSize
<1>. QED
  BY <1>7, <1>9, <1>10, <1>11, <1>12 DEF HalfCopied, Collecting

LEMMA AllocationInvariant ==
  ASSUME EvenSpace, HeapInvariant, MutatorAllocates
  PROVE  HeapInvariant'
<1>1. pc = "mutator" /\ \A v \in Values : LiveValue(v)
  BY MutatorFacts DEF MutatorAllocates, Allocate, Values, LiveValue, HeapInvariant,
     NoDanglingReference, Settled
<1>2. ASSUME NEW v, LiveValue(v), NEW t \in Tags PROVE LiveValue(SetTag(v, t))
  <2>1. CASE v \in Atoms
    BY <2>1 DEF SetTag, LiveValue
  <2>2. CASE v \notin Atoms
    BY <1>2, <2>2, SetTagFacts DEF LiveValue, LiveRef
  <2>. QED BY <2>1, <2>2
<1>3. ASSUME NEW car \in Values, NEW cdr \in Values, NEW tag \in Tags,
             Allocate(car, SetTag(cdr, tag), FALSE)
      PROVE  HeapInvariant'
  BY <1>1, <1>2, <1>3, AllocateInvariant
<1>4. ASSUME NEW car \in Values, Consable(roots[Stack]),
             Allocate(car, SetTag(roots[Stack], PairTag), TRUE)
      PROVE  HeapInvariant'
  <2>1. LiveValue(SetTag(roots[Stack], PairTag))
    <3>1. CASE roots[Stack] # Never
      BY <1>1, <1>2, <3>1, MutatorFacts, MemoryAssumption DEF LiveValue, Roots, Stack
    <3>2. CASE roots[Stack] = Never
      <4>1. ~space /\ AllocStart = 0 /\ SetTag(Never, PairTag) = [index |-> 0, tag |-> PairTag]
        BY <1>4, <3>2, ValueFacts DEF Consable, AllocStart, SetTag, Never
      <4>2. \E c \in Allocated : TRUE
        BY <1>1, MutatorFacts DEF LiveRef, Roots, False
      <4>3. 0 \in Allocated
        BY <4>1, <4>2, AllocatedFacts DEF HeapInvariant
      <4>. QED BY <3>2, <4>1, <4>3, MemoryAssumption DEF LiveValue, LiveRef, Ref
    <3>. QED BY <3>1, <3>2
  <2>. QED BY <1>1, <1>4, <2>1, AllocateInvariant
<1>. QED
  BY <1>3, <1>4 DEF MutatorAllocates

LEMMA FinishAllocationInvariant ==
  ASSUME EvenSpace, HeapInvariant, FinishAllocation
  PROVE  HeapInvariant'
<1>. USE DEF HeapInvariant, FinishAllocation, Return
<1>1. LiveRef(roots[Result]) /\ roots[Result] \in Ref
  BY DEF NoDanglingReference, Settled, Roots, Result, LiveRef
<1>2. /\ AllocStart' = AllocStart /\ AllocEnd' = AllocEnd /\ Allocated' = Allocated
      /\ Cells(AllocStart)' = Cells(AllocStart)
  BY DEF AllocStart, AllocEnd, Allocated, Cells, SpaceSize
<1>3. /\ roots' \in [Roots -> Ref \cup {Never}]
      /\ \A r \in Roots : roots'[r] \in {roots[r], roots[Result], Never}
      /\ roots'[False] = roots[False]
  BY <1>1 DEF TypeOK, Roots, Stack, False, Result
<1>4. TypeOK'
  BY <1>1, <1>3 DEF TypeOK
<1>5. NoDanglingReference'
  BY <1>1, <1>2, <1>3 DEF NoDanglingReference, Settled, LiveRef, LiveValue
<1>6. Unallocated'
  BY <1>2 DEF Unallocated, Settled
<1>. QED
  BY <1>3, <1>4, <1>5, <1>6 DEF AllocationFits, SpaceSize, HalfCopied, Collecting

-----------------------------------------------------------------------------
(* Collection.                                                             *)

(* The spaces after they flipped.                                          *)
LEMMA FlipFacts ==
  ASSUME SpaceSize \in Nat, space \in BOOLEAN, space' = ~space, allocIdx' = 0
  PROVE  /\ AllocStart' = SpaceSize - AllocStart /\ SpaceSize - AllocStart' = AllocStart
         /\ AllocStart' \in Nat /\ (AllocStart .. AllocEnd - 1)' = {}
<1>1. SpaceSize' = SpaceSize
  BY DEF SpaceSize
<1>2. CASE space = TRUE
  <2>1. space' = FALSE
    BY <1>2
  <2>2. AllocStart = SpaceSize
    BY <1>2 DEF AllocStart
  <2>3. AllocStart' = 0
    BY <2>1 DEF AllocStart
  <2>4. AllocEnd' = 0
    BY <2>3 DEF AllocEnd
  <2>5. (AllocStart .. AllocEnd - 1)' = {}
    BY <2>3, <2>4
  <2>. QED BY <2>2, <2>3, <2>5
<1>3. CASE space = FALSE
  <2>1. space' = TRUE
    BY <1>3
  <2>2. AllocStart = 0
    BY <1>3 DEF AllocStart
  <2>3. AllocStart' = SpaceSize
    BY <1>1, <2>1 DEF AllocStart
  <2>4. AllocEnd' = SpaceSize
    BY <2>3 DEF AllocEnd
  <2>5. (AllocStart .. AllocEnd - 1)' = {}
    BY <2>3, <2>4
  <2>. QED BY <2>2, <2>3, <2>5
<1>. QED BY <1>2, <1>3

(* An interval cut in two.                                                 *)
LEMMA IntervalFacts ==
  ASSUME NEW a \in Int, NEW b \in Int, NEW c \in Int
  PROVE  \A s \in a .. c - 1 : s \in a .. b - 1 \/ s \in b .. c - 1
OBVIOUS

LEMMA StartInvariant ==
  ASSUME EvenSpace, HeapInvariant, StartCollection
  PROVE  HeapInvariant'
<1>. USE DEF HeapInvariant, StartCollection
<1>1. /\ Abandoned' = Cells(AllocStart) /\ AllocStart' \in Nat
      /\ (AllocStart .. AllocEnd - 1)' = {} /\ SpaceSize \in Nat
  <2>1. SpaceSize \in Nat /\ space \in BOOLEAN /\ space' = ~space /\ allocIdx' = 0
    BY SpaceFacts DEF TypeOK
  <2>2. /\ SpaceSize - AllocStart' = AllocStart
        /\ (AllocStart .. AllocEnd - 1)' = {} /\ AllocStart' \in Nat
    BY <2>1, FlipFacts
  <2>3. Abandoned' = Cells(SpaceSize - AllocStart')
    BY DEF Abandoned, Cells, SpaceSize
  <2>. QED BY <2>1, <2>2, <2>3
<1>2. ASSUME NEW c \in Cells(AllocStart)
      PROVE  \/ heap[c] = Poison
             \/ c \in Allocated /\ LiveValue(heap[c]) /\ LiveValue(heap[c + 1])
  <2>1. c \in Nat /\ AllocEnd \in Nat
    BY AbandonedFacts, CellFacts, AllocatedFacts
  <2>. QED BY <2>1 DEF Unallocated, Settled, NoDanglingReference, Allocated
<1>3. ASSUME NEW v, LiveRef(v) PROVE OldRef(v)'
  <2>1. v \in Ref /\ v.index \in Allocated /\ v.index \in Cells(AllocStart)
    BY <1>3 DEF LiveRef, Allocated
  <2>2. LiveValue(heap[v.index])
    BY <2>1 DEF NoDanglingReference, Settled
  <2>3. heap[v.index] # Poison
    BY <2>2, ValueFacts DEF LiveValue, LiveRef
  <2>. QED BY <1>1, <2>1, <2>3 DEF OldRef
<1>4. \A c \in Abandoned' : OldCell(c)' /\ heap'[c] # Never
  <2>1. ASSUME NEW c \in Cells(AllocStart) PROVE OldCell(c)' /\ heap'[c] # Never
    <3>1. CASE heap[c] = Poison
      BY <3>1, ValueFacts DEF OldCell
    <3>2. CASE LiveValue(heap[c]) /\ LiveValue(heap[c + 1])
      <4>1. OldValue(heap[c])' /\ OldValue(heap[c + 1])'
        BY <1>3, <3>2 DEF LiveValue, OldValue
      <4>2. heap[c] # Never
        BY <3>2, ValueFacts DEF LiveValue, LiveRef
      <4>. QED BY <4>1, <4>2 DEF OldCell
    <3>. QED BY <1>2, <3>1, <3>2
  <2>. QED BY <1>1, <2>1
<1>5. \A r \in Roots : RootOK(r)'
  <2>1. ASSUME NEW r \in Roots PROVE RootOK(r)'
    <3>1. roots[r] = Never \/ LiveRef(roots[r])
      BY DEF NoDanglingReference, Settled
    <3>2. cursor' <= r /\ pc' = "roots"
      BY DEF Roots, Code
    <3>. QED BY <1>3, <3>1, <3>2 DEF RootOK
  <2>. QED BY <2>1
<1>6. allocIdx' = 2 * Cardinality(MovedCells')
  BY <1>4, FS_EmptySet DEF MovedCells
<1>7. CursorOK' /\ \A s \in (AllocStart .. AllocEnd - 1)' : SlotOK(s)'
  <2>1. CursorOK'
    BY DEF CursorOK, Roots, Code
  <2>. QED BY <1>1, <2>1
<1>8. HalfCopied'
  BY <1>4, <1>5, <1>6, <1>7 DEF HalfCopied
<1>9. TypeOK' /\ NoDanglingReference' /\ Unallocated' /\ AllocationFits'
  BY <1>1 DEF TypeOK, NoDanglingReference, Unallocated, Settled, AllocationFits, SpaceSize, Code
<1>. QED
  BY <1>8, <1>9

(* The parts of the invariant that every copying step has in common.       *)
LEMMA CopyStepInvariant ==
  ASSUME EvenSpace, HeapInvariant, Collecting, NEW v, CopyStep(v),
         UNCHANGED <<held, pushing>>, Collecting',
         roots' \in [Roots -> Ref \cup {Never}], cursor' \in Nat,
         roots'[False] # Never, roots'[Result] # Never,
         CursorOK', \A r \in Roots : RootOK(r)',
         \A s \in AllocStart .. AllocEnd - 1 : SlotOK(s)',
         \A s \in AllocEnd .. AllocEnd' - 1 : ~(pc' = "scan" /\ s < cursor')
  PROVE  HeapInvariant'
<1>. USE DEF HeapInvariant
<1>1. CopyState
  BY DEF CopyState, HalfCopied
<1>2. TypeOK' /\ AllocationFits' /\ (allocIdx % 2 = 0)'
  BY <1>1, CopyStepFrame, CopyStepReferences
     DEF TypeOK, AllocationFits, SpaceSize, CopyStep, Collecting
<1>3. \A s \in AllocStart' .. AllocEnd' - 1 : SlotOK(s)'
  <2>1. ASSUME NEW s \in AllocEnd .. AllocEnd' - 1 PROVE SlotOK(s)'
    <3>1. OldValue(heap'[s])
      BY <1>1, CopyStepReferences
    <3>2. OldValue(heap[s])'
      BY <1>1, <3>1, CopyStepReferences DEF OldValue, OldRef
    <3>. QED BY <3>2 DEF SlotOK
  <2>2. /\ AllocStart \in Int /\ AllocEnd \in Int /\ AllocEnd' \in Int
        /\ AllocStart' = AllocStart
    BY <1>1, AllocatedFacts, CopyStepFrame, CopyStepReferences
  <2>3. ASSUME NEW s \in AllocStart' .. AllocEnd' - 1
        PROVE  s \in AllocStart .. AllocEnd - 1 \/ s \in AllocEnd .. AllocEnd' - 1
    BY <2>2, <2>3, IntervalFacts
  <2>. QED BY <2>1, <2>3
<1>4. HalfCopied'
  BY <1>1, <1>3, CopyStepCells, CopyStepFrame DEF HalfCopied
<1>5. NoDanglingReference' /\ Unallocated'
  BY DEF NoDanglingReference, Unallocated, Settled, Collecting
<1>. QED
  BY <1>2, <1>4, <1>5 DEF Collecting

(* copy_cons leaves the slots that are already allocated alone, and what    *)
(* they may hold stays what it is.                                         *)
LEMMA AllocatedSlots ==
  ASSUME CopyState, NEW v, CopyStep(v), NEW s \in AllocStart .. AllocEnd - 1
  PROVE  /\ s \in Slots /\ CopyHeap(v)[s] = heap[s]
         /\ heap'[s] = heap[s] /\ LiveValue(heap[s]) => LiveValue(heap[s])'
         /\ heap'[s] = heap[s] /\ OldValue(heap[s]) => OldValue(heap[s])'
<1>. USE DEF CopyState
<1>1. s \in Slots /\ CopyHeap(v)[s] = heap[s]
  <2>1. /\ s \in Slots /\ s # AllocEnd /\ s # AllocEnd + 1
        /\ \A c \in Abandoned : s # c /\ s # c + 1
    BY AllocatedFacts
  <2>. QED BY <2>1, CopyFacts DEF CopyStep
<1>2. heap'[s] = heap[s] /\ LiveValue(heap[s]) => LiveValue(heap[s])'
  BY CopyStepReferences DEF LiveValue, LiveRef
<1>3. heap'[s] = heap[s] /\ OldValue(heap[s]) => OldValue(heap[s])'
  BY CopyStepReferences DEF OldValue, OldRef
<1>. QED BY <1>1, <1>2, <1>3

LEMMA CopyRootInvariant ==
  ASSUME EvenSpace, HeapInvariant, CopyRoot
  PROVE  HeapInvariant'
<1>. DEFINE v == roots[cursor]
<1>1. /\ pc = "roots" /\ Collecting /\ CopyState /\ cursor \in Roots
      /\ v = Never \/ OldRef(v)
      /\ roots[False] # Never /\ roots[Result] # Never
      /\ roots \in [Roots -> Ref \cup {Never}]
  BY DEF HeapInvariant, HalfCopied, Collecting, CopyRoot, CopyState, CursorOK, RootOK,
         TypeOK, Roots
<1>2. ~CopyFails(v)
  BY <1>1, CopyFacts
<1>3. /\ heap' = CopyHeap(v) /\ allocIdx' = CopyAlloc(v)
      /\ roots' = [roots EXCEPT ![cursor] = CopyRef(v)]
      /\ pc' = IF cursor = Result THEN "scan" ELSE "roots"
      /\ cursor' = IF cursor = Result THEN AllocStart ELSE cursor + 1
      /\ UNCHANGED <<space, held, pushing>>
  BY <1>2 DEF CopyRoot
<1>4. CopyStep(v)
  BY <1>1, <1>3 DEF CopyStep
<1>5. \/ CopyRef(v) = Never /\ v = Never
      \/ CopyRef(v) \in Ref /\ CopyRef(v).index \in Allocated'
  BY <1>1, <1>4, CopiedRefIsLive
<1>6. /\ roots'[cursor] = CopyRef(v) /\ \A r \in Roots : r # cursor => roots'[r] = roots[r]
      /\ roots' \in [Roots -> Ref \cup {Never}]
  BY <1>1, <1>3, <1>5
<1>7. roots'[False] # Never /\ roots'[Result] # Never
  BY <1>1, <1>5, <1>6, ValueFacts DEF Roots, False, Result
<1>8. /\ AllocStart \in Nat /\ AllocEnd \in Nat /\ AllocStart' = AllocStart
      /\ AllocEnd' = AllocStart + allocIdx' /\ allocIdx' \in Nat
  BY <1>1, <1>4, AllocatedFacts, CopyStepFrame, CopyStepReferences DEF CopyState
<1>9. CursorOK' /\ cursor' \in Nat
  BY <1>1, <1>3, <1>8 DEF CursorOK, Roots, Result
<1>10. ASSUME NEW r \in Roots PROVE RootOK(r)'
  <2>1. CASE roots'[r] = Never
    BY <2>1 DEF RootOK
  <2>2. CASE r = cursor /\ roots'[r] # Never
    <3>1. LiveRef(roots[r])'
      BY <1>5, <1>6, <2>2 DEF LiveRef
    <3>2. ~(pc' = "roots" /\ cursor' <= r)
      BY <1>1, <1>3, <2>2 DEF Roots
    <3>. QED BY <3>1, <3>2 DEF RootOK
  <2>3. CASE r # cursor /\ roots'[r] # Never
    <3>1. roots'[r] = roots[r] /\ RootOK(r)
      BY <1>1, <1>6, <2>3 DEF HeapInvariant, HalfCopied
    <3>2. CASE cursor <= r
      <4>1. OldRef(roots[r]) /\ pc' = "roots" /\ cursor' <= r
        BY <1>1, <1>3, <2>3, <3>1, <3>2 DEF RootOK, Roots, Result
      <4>2. OldRef(roots[r])'
        BY <1>1, <1>4, <3>1, <4>1, CopyStepReferences DEF OldRef
      <4>. QED BY <4>1, <4>2 DEF RootOK
    <3>3. CASE ~(cursor <= r)
      <4>1. LiveRef(roots[r]) /\ ~(pc' = "roots" /\ cursor' <= r)
        BY <1>1, <1>3, <2>3, <3>1, <3>3 DEF RootOK, Roots, Result
      <4>2. LiveRef(roots[r])'
        BY <1>1, <1>4, <3>1, <4>1, CopyStepReferences DEF LiveRef
      <4>. QED BY <4>1, <4>2 DEF RootOK
    <3>. QED BY <3>2, <3>3
  <2>. QED BY <2>1, <2>2, <2>3
<1>11. ASSUME NEW s \in AllocStart .. AllocEnd - 1 PROVE SlotOK(s)'
  <2>1. OldValue(heap[s])
    BY <1>1 DEF HeapInvariant, HalfCopied, SlotOK
  <2>2. OldValue(heap[s])'
    BY <1>1, <1>3, <1>4, <2>1, AllocatedSlots
  <2>3. ~(pc' = "scan" /\ s < cursor')
    BY <1>1, <1>3, <1>8
  <2>. QED BY <2>2, <2>3 DEF SlotOK
<1>12. \A s \in AllocEnd .. AllocEnd' - 1 : ~(pc' = "scan" /\ s < cursor')
  <2>1. ASSUME NEW s \in Int, AllocEnd <= s PROVE ~(pc' = "scan" /\ s < cursor')
    <3>1. AllocStart <= AllocEnd
      BY <1>1, <1>8 DEF AllocEnd, CopyState, TypeOK
    <3>. QED BY <1>1, <1>3, <1>8, <2>1, <3>1
  <2>. QED BY <1>8, <2>1
<1>13. Collecting'
  BY <1>3 DEF Collecting
<1>. QED
  BY <1>1, <1>3, <1>4, <1>6, <1>7, <1>9, <1>10, <1>11, <1>12, <1>13, CopyStepInvariant

LEMMA ScanSlotInvariant ==
  ASSUME EvenSpace, HeapInvariant, ScanSlot
  PROVE  HeapInvariant'
<1>. DEFINE v == heap[cursor]
<1>1. /\ pc = "scan" /\ Collecting /\ CopyState /\ cursor < AllocEnd
      /\ AllocStart \in Nat /\ AllocEnd \in Nat /\ cursor \in AllocStart .. AllocEnd
      /\ roots[False] # Never /\ roots[Result] # Never
      /\ roots \in [Roots -> Ref \cup {Never}]
      /\ \A r \in Roots : RootOK(r)
      /\ \A s \in AllocStart .. AllocEnd - 1 : SlotOK(s)
  <2>1. /\ pc = "scan" /\ Collecting /\ CopyState /\ cursor < AllocEnd
        /\ cursor \in AllocStart .. AllocEnd
        /\ roots[False] # Never /\ roots[Result] # Never
        /\ roots \in [Roots -> Ref \cup {Never}]
        /\ \A r \in Roots : RootOK(r)
        /\ \A s \in AllocStart .. AllocEnd - 1 : SlotOK(s)
    BY DEF HeapInvariant, HalfCopied, Collecting, ScanSlot, CopyState, CursorOK, TypeOK
  <2>. QED BY <2>1, AllocatedFacts DEF CopyState
<1>2. /\ cursor \in AllocStart .. AllocEnd - 1 /\ OldValue(v) /\ cursor \in Nat
      /\ cursor \in Slots
  <2>1. cursor \in AllocStart .. AllocEnd - 1 /\ cursor \in Nat
    BY <1>1
  <2>2. OldValue(v)
    BY <1>1, <2>1 DEF SlotOK
  <2>. QED BY <1>1, <2>1, <2>2, AllocatedFacts DEF CopyState
<1>3. CASE v \in Atoms
  <2>1. /\ cursor' = cursor + 1
        /\ UNCHANGED <<heap, allocIdx, space, roots, held, pushing, pc>>
    BY <1>3 DEF ScanSlot
  <2>2. /\ AllocStart' = AllocStart /\ AllocEnd' = AllocEnd /\ Allocated' = Allocated
        /\ Abandoned' = Abandoned /\ MovedCells' = MovedCells
    BY <2>1 DEF AllocStart, AllocEnd, Allocated, Abandoned, Cells, SpaceSize, MovedCells
  <2>3. ASSUME NEW s \in AllocStart .. AllocEnd - 1 PROVE SlotOK(s)'
    <3>1. CASE s = cursor
      BY <1>1, <1>3, <2>1, <3>1 DEF SlotOK, LiveValue, OldValue
    <3>2. CASE s # cursor
      <4>1. SlotOK(s) /\ (s < cursor' <=> s < cursor)
        BY <1>1, <1>2, <2>1, <3>2
      <4>. QED
        BY <2>1, <2>2, <4>1 DEF SlotOK, LiveValue, LiveRef, OldValue, OldRef
    <3>. QED BY <3>1, <3>2
  <2>4. CursorOK' /\ cursor' \in Nat
    BY <1>1, <1>2, <2>1, <2>2 DEF CursorOK
  <2>5. ASSUME NEW r \in Roots PROVE RootOK(r)'
    BY <1>1, <2>1, <2>2 DEF RootOK, LiveRef, OldRef
  <2>6. \A c \in Abandoned' : OldCell(c)'
    BY <1>1, <2>1, <2>2 DEF CopyState, OldCell, OldValue, OldRef, LiveRef
  <2>7. HalfCopied'
    BY <1>1, <2>1, <2>2, <2>3, <2>4, <2>5, <2>6 DEF HalfCopied, CopyState
  <2>8. TypeOK' /\ AllocationFits'
    BY <1>1, <2>1, <2>4 DEF CopyState, TypeOK, AllocationFits, SpaceSize
  <2>. QED
    BY <1>1, <2>1, <2>7, <2>8
       DEF HeapInvariant, NoDanglingReference, Unallocated, Settled, CopyState
<1>4. CASE v \notin Atoms
  <2>1. OldRef(v) /\ v # Never
    BY <1>2, <1>4, ValueFacts DEF OldValue, OldRef
  <2>2. ~CopyFails(v)
    BY <1>1, <2>1, CopyFacts
  <2>3. /\ heap' = [CopyHeap(v) EXCEPT ![cursor] = CopyRef(v)]
        /\ allocIdx' = CopyAlloc(v) /\ cursor' = cursor + 1
        /\ UNCHANGED <<space, roots, held, pushing, pc>>
    BY <1>4, <2>2 DEF ScanSlot
  <2>4. CopyStep(v)
    BY <1>2, <2>1, <2>3 DEF CopyStep
  <2>5. CopyRef(v) \in Ref /\ CopyRef(v).index \in Allocated'
    BY <1>1, <2>1, <2>4, CopiedRefIsLive
  <2>6. CopyHeap(v) \in [Slots -> Ref \cup Atoms \cup {Never, Poison}]
    BY <1>1, <2>1, CopyFacts
  <2>7. /\ AllocStart' = AllocStart /\ AllocEnd' = AllocStart + allocIdx'
        /\ allocIdx' \in Nat /\ allocIdx \in Nat /\ allocIdx <= allocIdx'
        /\ AllocEnd = AllocStart + allocIdx
    BY <1>1, <2>4, AllocatedFacts, CopyStepFrame, CopyStepReferences DEF CopyState, TypeOK
  <2>8. CursorOK' /\ cursor' \in Nat
    BY <1>1, <1>2, <2>3, <2>7 DEF CursorOK
  <2>9. ASSUME NEW r \in Roots PROVE RootOK(r)'
    <3>1. roots[r] = Never \/ LiveRef(roots[r])
      BY <1>1 DEF RootOK
    <3>2. roots[r] = Never \/ LiveRef(roots[r])'
      BY <1>1, <2>3, <2>4, <3>1, CopyStepReferences DEF LiveRef
    <3>. QED BY <1>1, <2>3, <3>2 DEF RootOK
  <2>10. ASSUME NEW s \in AllocStart .. AllocEnd - 1 PROVE SlotOK(s)'
    <3>1. s \in Slots /\ CopyHeap(v)[s] = heap[s] /\ s \in Int
      BY <1>1, <2>4, AllocatedSlots
    <3>2. CASE s = cursor
      <4>1. heap'[s] = CopyRef(v)
        BY <1>2, <2>3, <2>6, <3>2
      <4>2. LiveValue(heap[s])' /\ s < cursor'
        BY <1>2, <2>3, <2>5, <3>2, <4>1 DEF LiveValue, LiveRef
      <4>. QED BY <1>1, <2>3, <4>2 DEF SlotOK
    <3>3. CASE s # cursor
      <4>1. SlotOK(s) /\ (s < cursor' <=> s < cursor) /\ heap'[s] = heap[s]
        BY <1>1, <1>2, <2>3, <2>6, <3>1, <3>3
      <4>2. CASE s < cursor
        <5>1. LiveValue(heap[s])'
          BY <1>1, <2>4, <4>1, <4>2, AllocatedSlots DEF SlotOK
        <5>. QED BY <1>1, <2>3, <4>1, <4>2, <5>1 DEF SlotOK
      <4>3. CASE ~(s < cursor)
        <5>1. OldValue(heap[s])'
          BY <1>1, <2>4, <4>1, <4>3, AllocatedSlots DEF SlotOK
        <5>. QED BY <1>1, <2>3, <4>1, <4>3, <5>1 DEF SlotOK
      <4>. QED BY <4>2, <4>3
    <3>. QED BY <3>2, <3>3
  <2>11. \A s \in AllocEnd .. AllocEnd' - 1 : ~(pc' = "scan" /\ s < cursor')
    <3>1. ASSUME NEW s \in Int, AllocEnd <= s PROVE ~(pc' = "scan" /\ s < cursor')
      BY <1>1, <1>2, <2>3, <3>1
    <3>. QED BY <1>1, <2>7, <3>1
  <2>12. Collecting'
    BY <1>1, <2>3 DEF Collecting
  <2>. QED
    BY <1>1, <2>3, <2>4, <2>8, <2>9, <2>10, <2>11, <2>12, CopyStepInvariant
<1>. QED BY <1>3, <1>4

LEMMA FinishCollectionInvariant ==
  ASSUME EvenSpace, HeapInvariant, FinishCollection
  PROVE  HeapInvariant'
<1>1. /\ pc = "scan" /\ pc' = "mutator" /\ cursor' = 0 /\ pushing' = FALSE
      /\ allocIdx' = allocIdx /\ space' = space
      /\ heap' = [s \in Slots |->
           IF s \in AllocStart .. AllocEnd - 1 THEN heap[s] ELSE Poison]
      /\ held' = IF pushing THEN {} ELSE {roots[Result]}
      /\ roots' = [roots EXCEPT ![Stack] = IF pushing THEN roots[Result] ELSE @,
                                ![Result] = Never]
  BY DEF FinishCollection, Return
<1>2. /\ TypeOK /\ AllocationFits /\ allocIdx % 2 = 0 /\ allocIdx \in Nat
      /\ AllocStart \in {0, SpaceSize} /\ AllocStart \in Nat /\ AllocEnd \in Nat
      /\ AllocEnd = AllocStart + allocIdx
      /\ AllocStart .. AllocEnd - 1 \subseteq Slots
      /\ Allocated = {c \in AllocStart .. AllocEnd - 1 : c % 2 = 0}
      /\ heap \in [Slots -> Ref \cup Atoms \cup {Never, Poison}]
  BY AllocatedFacts, AbandonedFacts DEF HeapInvariant, TypeOK
<1>3. /\ AllocStart' = AllocStart /\ AllocEnd' = AllocEnd /\ Allocated' = Allocated
      /\ Cells(AllocStart)' = Cells(AllocStart)
  BY <1>1 DEF AllocStart, AllocEnd, Allocated, Cells, SpaceSize
<1>4. \A s \in AllocStart .. AllocEnd - 1 : LiveValue(heap[s])
  <2>1. cursor = AllocEnd /\ \A s \in AllocStart .. AllocEnd - 1 : SlotOK(s)
    BY <1>1, <1>2 DEF HeapInvariant, HalfCopied, Collecting, CursorOK, FinishCollection
  <2>. QED BY <1>1, <1>2, <2>1 DEF SlotOK
<1>5. /\ \A r \in Roots : roots[r] = Never \/ LiveRef(roots[r])
      /\ roots[Result] # Never /\ roots[False] # Never
      /\ roots \in [Roots -> Ref \cup {Never}]
  BY <1>1 DEF HeapInvariant, HalfCopied, Collecting, RootOK, TypeOK
<1>6. LiveRef(roots[Result]) /\ roots[Result] \in Ref
  BY <1>5 DEF Roots, Result, LiveRef
<1>7. /\ roots' \in [Roots -> Ref \cup {Never}] /\ roots'[False] # Never
      /\ \A r \in Roots : roots'[r] \in {roots[r], roots[Result], Never}
  BY <1>1, <1>5, <1>6 DEF Roots, Stack, False, Result
<1>8. TypeOK'
  BY <1>1, <1>2, <1>6, <1>7, MemoryAssumption DEF TypeOK
<1>9. NoDanglingReference'
  <2>1. \A v : LiveRef(v) => v \in Ref /\ v.index \in Allocated'
    BY <1>3 DEF LiveRef
  <2>2. \A r \in Roots : \/ roots'[r] = Never
                         \/ roots'[r] \in Ref /\ roots'[r].index \in Allocated'
    BY <1>5, <1>6, <1>7, <2>1
  <2>3. ASSUME NEW c \in Allocated' PROVE LiveValue(heap[c])' /\ LiveValue(heap[c + 1])'
    <3>1. c \in AllocStart .. AllocEnd - 1 /\ c + 1 \in AllocStart .. AllocEnd - 1
      <4>1. c \in AllocStart .. AllocEnd - 1 /\ c % 2 = 0
        BY <1>2, <1>3
      <4>2. AllocEnd % 2 = 0
        BY <1>2, SpaceFacts
      <4>. QED BY <1>2, <4>1, <4>2
    <3>2. heap'[c] = heap[c] /\ heap'[c + 1] = heap[c + 1]
      BY <1>1, <1>2, <3>1
    <3>3. LiveValue(heap[c]) /\ LiveValue(heap[c + 1])
      BY <1>4, <3>1
    <3>. QED BY <2>1, <3>2, <3>3 DEF LiveValue, LiveRef
  <2>4. \A v \in held' : v \in Ref /\ v.index \in Allocated'
    BY <1>1, <1>6, <2>1
  <2>. QED BY <2>2, <2>3, <2>4 DEF NoDanglingReference, LiveRef
<1>10. Unallocated'
  <2>1. ASSUME NEW c \in Cells(AllocStart), c >= AllocEnd PROVE heap'[c] = Poison
    <3>1. c \in Slots /\ c \in Nat
      BY <1>2, CellFacts
    <3>. QED BY <1>1, <1>2, <2>1, <3>1
  <2>. QED BY <1>3, <2>1 DEF Unallocated
<1>11. AllocationFits'
  BY <1>1, <1>2 DEF AllocationFits, SpaceSize
<1>. QED
  BY <1>1, <1>2, <1>7, <1>8, <1>9, <1>10, <1>11
     DEF HeapInvariant, HalfCopied, Collecting

(* The allocator at work never fails, and a failed program stays as it is.  *)
LEMMA CollectorNeverFails ==
  ASSUME EvenSpace, HeapInvariant, Collecting
  PROVE  /\ pc = "roots" => ~CopyFails(roots[cursor])
         /\ pc = "scan" /\ cursor < AllocEnd /\ heap[cursor] \notin Atoms
              => ~CopyFails(heap[cursor])
<1>1. CopyState /\ AllocStart \in Nat /\ AllocEnd \in Nat
  BY AllocatedFacts DEF HeapInvariant, HalfCopied, CopyState
<1>2. ASSUME pc = "roots" PROVE ~CopyFails(roots[cursor])
  <2>1. roots[cursor] = Never \/ OldRef(roots[cursor])
    BY <1>1, <1>2 DEF HeapInvariant, HalfCopied, CursorOK, RootOK, Roots
  <2>. QED BY <1>1, <2>1, CopyFacts
<1>3. ASSUME pc = "scan", cursor < AllocEnd, heap[cursor] \notin Atoms
      PROVE  ~CopyFails(heap[cursor])
  <2>1. cursor \in AllocStart .. AllocEnd - 1
    BY <1>1, <1>3 DEF HeapInvariant, HalfCopied, CursorOK
  <2>2. OldRef(heap[cursor])
    BY <1>3, <2>1 DEF HeapInvariant, HalfCopied, SlotOK, OldValue
  <2>. QED BY <1>1, <2>2, CopyFacts
<1>. QED BY <1>2, <1>3

LEMMA FailInvariant ==
  ASSUME EvenSpace, HeapInvariant, OutOfMemory
  PROVE  HeapInvariant'
<1>1. pc' = "failed" /\ UNCHANGED <<heap, allocIdx, space, roots, held, pushing, cursor>>
  BY DEF OutOfMemory, Fail
<1>2. TypeOK' /\ AllocationFits'
  BY <1>1 DEF HeapInvariant, TypeOK, AllocationFits, SpaceSize
<1>. QED
  BY <1>1, <1>2 DEF HeapInvariant, NoDanglingReference, HalfCopied, Unallocated,
                    Settled, Collecting

-----------------------------------------------------------------------------
(* No step of the system breaks the invariant.                             *)
LEMMA StepInvariant ==
  ASSUME EvenSpace, HeapInvariant, [Next]_vars
  PROVE  HeapInvariant'
<1>1. CASE MutatorReads
  BY <1>1, ReadInvariant
<1>2. CASE MutatorWrites
  BY <1>2, WriteInvariant
<1>3. CASE MutatorAllocates
  BY <1>3, AllocationInvariant
<1>4. CASE OutOfMemory
  BY <1>4, FailInvariant
<1>5. CASE FinishAllocation
  BY <1>5, FinishAllocationInvariant
<1>6. CASE StartCollection
  BY <1>6, StartInvariant
<1>7. CASE CopyRoot
  BY <1>7, CopyRootInvariant
<1>8. CASE ScanSlot
  BY <1>8, ScanSlotInvariant
<1>9. CASE FinishCollection
  BY <1>9, FinishCollectionInvariant
<1>10. CASE UNCHANGED vars
  <2>1. UNCHANGED <<heap, allocIdx, space, roots, held, pushing, pc, cursor>>
    BY <1>10 DEF vars
  <2>2. /\ AllocStart' = AllocStart /\ AllocEnd' = AllocEnd /\ Allocated' = Allocated
        /\ Abandoned' = Abandoned /\ MovedCells' = MovedCells
        /\ Cells(AllocStart)' = Cells(AllocStart) /\ SpaceSize' = SpaceSize
    BY <2>1 DEF AllocStart, AllocEnd, Allocated, Abandoned, Cells, SpaceSize, MovedCells
  <2>3. TypeOK' /\ AllocationFits' /\ Unallocated' /\ (Collecting' <=> Collecting)
    BY <2>1, <2>2 DEF HeapInvariant, TypeOK, AllocationFits, Unallocated, Settled, Collecting
  <2>4. /\ \A v : LiveRef(v) <=> v \in Ref /\ v.index \in Allocated'
        /\ \A v : OldRef(v) <=> v \in Ref /\ v.index \in Abandoned' /\ heap'[v.index] # Poison
    BY <2>1, <2>2 DEF LiveRef, OldRef
  <2>5. NoDanglingReference'
    BY <2>1, <2>2, <2>4
       DEF HeapInvariant, NoDanglingReference, Settled, LiveRef, LiveValue
  <2>6. HalfCopied'
    <3>1. CursorOK' <=> CursorOK
      BY <2>1, <2>2 DEF CursorOK
    <3>2. ASSUME NEW r \in Roots, RootOK(r) PROVE RootOK(r)'
      BY <2>1, <2>2, <3>2 DEF RootOK, LiveRef, OldRef
    <3>3. ASSUME NEW s \in AllocStart .. AllocEnd - 1, SlotOK(s) PROVE SlotOK(s)'
      BY <2>1, <2>2, <3>3 DEF SlotOK, LiveValue, OldValue, LiveRef, OldRef
    <3>4. ASSUME NEW c \in Abandoned, OldCell(c) PROVE OldCell(c)'
      BY <2>1, <2>2, <3>4 DEF OldCell, OldValue, LiveRef, OldRef
    <3>. QED
      BY <2>1, <2>2, <2>3, <3>1, <3>2, <3>3, <3>4 DEF HeapInvariant, HalfCopied
  <2>. QED
    BY <2>1, <2>3, <2>5, <2>6 DEF HeapInvariant
<1>. QED
  BY <1>1, <1>2, <1>3, <1>4, <1>5, <1>6, <1>7, <1>8, <1>9, <1>10
     DEF Next, Mutator, Allocator, Halted

-----------------------------------------------------------------------------
(* In a heap whose spaces hold a whole number of cells, every state of the  *)
(* machine satisfies the invariant of the collector: between collections    *)
(* all reachable cells are allocated, and during one every cell is whole or *)
(* forwarded to its only copy (collect_garbages and copy_cons).             *)
THEOREM HeapInvariantHolds == EvenSpace => (Spec => []HeapInvariant)
<1>. SUFFICES ASSUME EvenSpace PROVE Spec => []HeapInvariant
  OBVIOUS
<1>1. Init => HeapInvariant
  BY InitInvariant
<1>2. HeapInvariant /\ [Next]_vars => HeapInvariant'
  BY StepInvariant
<1>. QED
  BY <1>1, <1>2, PTL DEF Spec

(* The fields of Memory keep their types.                                  *)
THEOREM TypeCorrect == EvenSpace => (Spec => []TypeOK)
<1>1. HeapInvariant => TypeOK
  BY DEF HeapInvariant
<1>. QED
  BY <1>1, HeapInvariantHolds, PTL

(* No operation and no collection leaves a root, a local of the mutator or  *)
(* a field with a reference to a cell that is not allocated.               *)
THEOREM NothingDangles == EvenSpace => (Spec => []NoDanglingReference)
<1>1. HeapInvariant => NoDanglingReference
  BY DEF HeapInvariant
<1>. QED
  BY <1>1, HeapInvariantHolds, PTL

(* The assertion of allocate_unchecked holds whenever it is evaluated.      *)
THEOREM SpaceIsNeverOverrun == EvenSpace => (Spec => []AllocationFits)
<1>1. HeapInvariant => AllocationFits
  BY DEF HeapInvariant
<1>. QED
  BY <1>1, HeapInvariantHolds, PTL

(* A half-done collection is consistent after each of its steps.           *)
THEOREM CollectionIsConsistent == EvenSpace => (Spec => []HalfCopied)
<1>1. HeapInvariant => HalfCopied
  BY DEF HeapInvariant
<1>. QED
  BY <1>1, HeapInvariantHolds, PTL

(* collect_garbages never returns Error::OutOfMemory: copy_cons finds room  *)
(* for every cell it copies.                                               *)
THEOREM CollectionNeverFails == EvenSpace => (Spec => CollectionSucceeds)
<1>. SUFFICES ASSUME EvenSpace PROVE Spec => CollectionSucceeds
  OBVIOUS
<1>1. HeapInvariant /\ [Next]_vars => [Collecting => pc' # "failed"]_vars
  <2>. SUFFICES ASSUME HeapInvariant, Next, Collecting PROVE pc' # "failed"
    BY DEF vars
  <2>1. pc = "roots" \/ pc = "scan"
    BY DEF Collecting
  <2>2. CASE CopyRoot
    BY <2>1, <2>2, CollectorNeverFails DEF CopyRoot
  <2>3. CASE ScanSlot
    BY <2>1, <2>3, CollectorNeverFails DEF ScanSlot
  <2>4. CASE FinishCollection
    BY <2>4 DEF FinishCollection, Return
  <2>. QED
    BY <2>1, <2>2, <2>3, <2>4
       DEF Next, Mutator, MutatorReads, MutatorWrites, MutatorAllocates, ReadRoot, Load,
           SetField, SetRoot, Pop, Allocate, OutOfMemory, Allocator, FinishAllocation,
           StartCollection, Halted
<1>. QED
  BY <1>1, HeapInvariantHolds, PTL DEF CollectionSucceeds, Spec

(***************************************************************************)
(* The refinement of Store.                                                *)
(***************************************************************************)

-----------------------------------------------------------------------------
(* The invariant of the names. No two slots share one. Between collections   *)
(* the allocated cells have them; during one the copies do, and the cells    *)
(* that wait to be copied. What has been copied can be reached, and nothing  *)
(* is in the locals of the mutator while an allocation runs.                *)

Waiting == {c \in Abandoned : heap[c] # Poison /\ heap[c] # Never}

NamesOnce ==
  /\ name \in [Slots -> Ids \cup {Unnamed}]
  /\ \A s, t \in Slots : name[s] # Unnamed /\ name[s] = name[t] => s = t

NamesGiven ==
  /\ Settled => \A s \in Slots : name[s] # Unnamed <=> s \in Allocated
  /\ Collecting => \A s \in Slots : name[s] # Unnamed <=> s \in Allocated \cup Waiting

CollectionDue ==
  Collecting => /\ Promise!Full \/ GcAlways
                /\ \A s \in Allocated : name[s] \in Promise!Reachable

LocalsLeft ==
  /\ IsFiniteSet(held)
  /\ pc \notin {"mutator", "failed"} => held = {}

Naming == NamesOnce /\ NamesGiven /\ CollectionDue /\ LocalsLeft

(* A value, where no cell has moved.                                        *)
Seen(v) ==
  IF v \in Atoms \/ v = Never THEN v ELSE [index |-> name[v.index], tag |-> v.tag]

(* A named cell is the object of its name.                                  *)
NamedCells ==
  /\ DOMAIN Objects = Names
  /\ \A s \in Slots : name[s] # Unnamed =>
       /\ name[s] \in Ids /\ name[s] \in Names
       /\ CellOf(name[s]) = s
       /\ Objects[name[s]] = [f \in {0, 1} |-> Resolve(heap[s + f])]
  /\ \A i \in Names : \E s \in Slots : name[s] = i /\ i # Unnamed

LEMMA NamesTell == NamesOnce => NamedCells
<1>. SUFFICES ASSUME NamesOnce PROVE NamedCells
  OBVIOUS
<1>1. \A s \in Slots : name[s] \in Ids \cup {Unnamed}
  BY DEF NamesOnce
<1>2. DOMAIN Objects = Names
  BY DEF Objects
<1>3. \A i \in Names : \E s \in Slots : name[s] = i /\ i # Unnamed
  BY DEF Names
<1>4. ASSUME NEW s \in Slots, name[s] # Unnamed
      PROVE  /\ name[s] \in Ids /\ name[s] \in Names
             /\ CellOf(name[s]) = s
             /\ Objects[name[s]] = [f \in {0, 1} |-> Resolve(heap[s + f])]
  <2>1. name[s] \in Ids /\ name[s] \in Names
    BY <1>1, <1>4 DEF Names
  <2>2. CellOf(name[s]) = s
    <3>1. \E t \in Slots : name[t] = name[s]
      OBVIOUS
    <3>2. CellOf(name[s]) \in Slots /\ name[CellOf(name[s])] = name[s]
      BY <3>1 DEF CellOf
    <3>. QED BY <1>4, <3>2 DEF NamesOnce
  <2>3. Objects[name[s]] = [f \in {0, 1} |-> Resolve(heap[s + f])]
    BY <2>1, <2>2 DEF Objects
  <2>. QED BY <2>1, <2>2, <2>3
<1>. QED BY <1>2, <1>3, <1>4 DEF NamedCells

(* Between collections nothing has moved.                                   *)
SettledView ==
  /\ Names = {name[s] : s \in Allocated}
  /\ \A v : LiveValue(v) \/ v = Never => Resolve(v) = Seen(v)
  /\ \A s \in Allocated :
       /\ s \in Slots /\ name[s] \in Ids /\ CellOf(name[s]) = s
       /\ \A t \in Allocated : name[s] = name[t] => s = t
       /\ Objects[name[s]] = [f \in {0, 1} |-> Seen(heap[s + f])]
  /\ DOMAIN Objects = Names
  /\ ObjectRoots = [r \in Roots |-> Seen(roots[r])]
  /\ ObjectsHeld = {Seen(v) : v \in held}

LEMMA SettledTells ==
  EvenSpace /\ HeapInvariant /\ Naming /\ Settled => SettledView
<1>. SUFFICES ASSUME EvenSpace, HeapInvariant, Naming, Settled PROVE SettledView
  OBVIOUS
<1>1. /\ \A r \in Roots : roots[r] = Never \/ LiveRef(roots[r])
      /\ \A v \in held : LiveRef(v)
      /\ \A c \in Allocated : LiveValue(heap[c]) /\ LiveValue(heap[c + 1])
  BY DEF HeapInvariant, NoDanglingReference
<1>2. \A c \in Allocated : c \in Int /\ c \in Slots /\ c + 1 \in Slots
  BY AbandonedFacts, CellFacts DEF Allocated, HeapInvariant
<1>3. NamesOnce /\ NamedCells
  BY NamesTell DEF Naming
<1>4. \A s \in Slots : name[s] # Unnamed <=> s \in Allocated
  BY DEF Naming, NamesGiven
<1>5. Names = {name[s] : s \in Allocated}
  BY <1>2, <1>4 DEF Names
<1>6. ASSUME NEW v, LiveValue(v) \/ v = Never
      PROVE  Resolve(v) = Seen(v)
  <2>1. CASE v \in Atoms \/ v = Never
    BY <2>1 DEF Resolve, Seen
  <2>2. CASE LiveRef(v)
    <3>1. v.index \in Allocated
      BY <2>2 DEF LiveRef
    <3>2. heap[v.index] # Never
      BY <1>1, <3>1, ValueFacts DEF LiveValue, LiveRef
    <3>3. NameAt(v.index) = name[v.index]
      BY <3>2 DEF NameAt
    <3>. QED BY <3>3 DEF Resolve, Seen
  <2>. QED BY <1>6, <2>1, <2>2 DEF LiveValue
<1>7. ASSUME NEW s \in Allocated
      PROVE  /\ s \in Slots /\ name[s] \in Ids /\ CellOf(name[s]) = s
             /\ \A t \in Allocated : name[s] = name[t] => s = t
             /\ Objects[name[s]] = [f \in {0, 1} |-> Seen(heap[s + f])]
  <2>1. s \in Slots /\ name[s] # Unnamed /\ s \in Int
    BY <1>2, <1>4
  <2>2. \A f \in {0, 1} : Resolve(heap[s + f]) = Seen(heap[s + f])
    <3>1. s + 0 = s
      BY <2>1
    <3>. QED BY <1>1, <1>6, <3>1
  <2>3. /\ name[s] \in Ids /\ CellOf(name[s]) = s
        /\ Objects[name[s]] = [f \in {0, 1} |-> Resolve(heap[s + f])]
    BY <1>3, <2>1 DEF NamedCells
  <2>4. \A t \in Allocated : name[s] = name[t] => s = t
    BY <1>2, <1>3, <2>1 DEF NamesOnce
  <2>. QED BY <2>1, <2>2, <2>3, <2>4
<1>8. ObjectRoots = [r \in Roots |-> Seen(roots[r])]
  BY <1>1, <1>6 DEF ObjectRoots, LiveValue
<1>9. ObjectsHeld = {Seen(v) : v \in held}
  BY <1>1, <1>6 DEF ObjectsHeld, LiveValue
<1>. QED BY <1>3, <1>5, <1>6, <1>7, <1>8, <1>9 DEF SettledView, NamedCells

(* The allocated cells are half of the allocated slots, and so are the       *)
(* objects: Store is full when the space is.                                *)
LEMMA AllocatedCount ==
  ASSUME EvenSpace, HeapInvariant
  PROVE  IsFiniteSet(Allocated) /\ 2 * Cardinality(Allocated) = allocIdx
<1>. DEFINE n == allocIdx \div 2
            f == [k \in 1 .. n |-> AllocStart + 2 * (k - 1)]
<1>1. /\ n \in Nat /\ 2 * n = allocIdx /\ allocIdx \in Nat /\ allocIdx <= SpaceSize
      /\ SpaceSize \in Nat /\ AllocStart \in Nat /\ AllocStart % 2 = 0
  <2>1. allocIdx \in Nat /\ allocIdx % 2 = 0 /\ allocIdx <= SpaceSize
    BY DEF HeapInvariant, TypeOK, AllocationFits
  <2>. QED BY <2>1, SpaceFacts DEF AllocStart
<1>2. /\ AllocEnd = AllocStart + allocIdx
      /\ Allocated = {c \in AllocStart .. AllocEnd - 1 : c % 2 = 0}
  <2>1. TypeOK /\ AllocationFits
    BY DEF HeapInvariant
  <2>. QED BY <2>1, AllocatedFacts
<1>3. f \in Bijection(1 .. n, Allocated)
  <2>1. f \in [1 .. n -> Allocated]
    <3>1. ASSUME NEW k \in 1 .. n
          PROVE  AllocStart + 2 * (k - 1) \in Allocated
      BY <1>1, <1>2
    <3>. QED BY <3>1
  <2>2. ASSUME NEW x \in 1 .. n, NEW y \in 1 .. n, f[x] = f[y] PROVE x = y
    BY <2>2, <1>1
  <2>3. ASSUME NEW c \in Allocated PROVE \E k \in 1 .. n : f[k] = c
    <3>. DEFINE k == (c - AllocStart) \div 2 + 1
    <3>0. c \in AllocStart .. AllocEnd - 1 /\ c % 2 = 0
      BY <1>2
    <3>1. c \in AllocStart .. AllocStart + allocIdx - 1 /\ c % 2 = 0
      BY <1>1, <1>2, <3>0
    <3>2. k \in 1 .. n /\ AllocStart + 2 * (k - 1) = c
      BY <1>1, <3>1
    <3>. QED BY <3>2
  <2>. QED BY <2>1, <2>2, <2>3 DEF Bijection, Injection, Surjection, IsInjective
<1>4. ExistsBijection(1 .. n, Allocated)
  BY <1>3 DEF ExistsBijection
<1>5. IsFiniteSet(1 .. n) /\ Cardinality(1 .. n) = n
  BY <1>1, FS_Interval
<1>. HIDE DEF n
<1>. QED BY <1>1, <1>4, <1>5, FS_Bijection, FS_CountingElements

LEMMA CapacityIs ==
  ASSUME EvenSpace
  PROVE  Capacity \in Nat /\ 2 * Capacity = SpaceSize /\ Capacity >= 2
BY SpaceFacts DEF Capacity

LEMMA NamesCount ==
  ASSUME EvenSpace, HeapInvariant, SettledView
  PROVE  /\ IsFiniteSet(Names) /\ 2 * Cardinality(Names) = allocIdx
         /\ Names \subseteq Ids
         /\ Promise!Full <=> IsOutOfMemory
<1>. DEFINE f == [s \in Allocated |-> name[s]]
<1>1. f \in Bijection(Allocated, Names)
  BY DEF SettledView, Bijection, Injection, Surjection, IsInjective
<1>2. ExistsBijection(Allocated, Names)
  BY <1>1 DEF ExistsBijection
<1>3. IsFiniteSet(Allocated) /\ 2 * Cardinality(Allocated) = allocIdx
  BY AllocatedCount
<1>4. IsFiniteSet(Names) /\ Cardinality(Names) = Cardinality(Allocated)
  BY <1>2, <1>3, FS_Bijection
<1>5. Names \subseteq Ids
  BY DEF SettledView
<1>6. Promise!Full <=> Cardinality(Names) = Capacity
  BY DEF SettledView, Promise!Full, Promise!Cardinality, Cardinality
<1>7. Promise!Full <=> IsOutOfMemory
  <2>1. /\ allocIdx <= SpaceSize /\ allocIdx \in Nat
        /\ Cardinality(Names) \in Nat
    BY <1>4, FS_CardinalityType DEF HeapInvariant, AllocationFits, TypeOK
  <2>. QED BY <1>3, <1>4, <1>6, <2>1, CapacityIs DEF IsOutOfMemory
<1>. QED BY <1>3, <1>4, <1>5, <1>7

-----------------------------------------------------------------------------
(* The operations of the mutator.                                           *)

(* Live values are values of Store.                                         *)
LEMMA SeenFacts ==
  ASSUME EvenSpace, SettledView, NEW v
  PROVE  /\ LiveRef(v) => /\ Seen(v) \in Promise!Ref /\ Seen(v) # Never /\ Seen(v) \notin Atoms
                         /\ Seen(v) = [index |-> name[v.index], tag |-> v.tag]
                         /\ Seen(v).index = name[v.index] /\ Seen(v).index \in Names
                         /\ Seen(v).tag = v.tag
         /\ v \in Atoms => Seen(v) = v
         /\ v = Never => Seen(v) = Never
<1>1. ASSUME LiveRef(v)
      PROVE  /\ Seen(v) \in Promise!Ref /\ Seen(v) # Never /\ Seen(v) \notin Atoms
             /\ Seen(v) = [index |-> name[v.index], tag |-> v.tag]
             /\ Seen(v).index = name[v.index] /\ Seen(v).index \in Names
             /\ Seen(v).tag = v.tag
  <2>1. /\ v \notin Atoms /\ v # Never /\ v.tag \in Tags
        /\ v.index \in Allocated /\ name[v.index] \in Ids /\ name[v.index] \in Names
    BY <1>1, ValueFacts DEF LiveRef, SettledView
  <2>2. Seen(v) = [index |-> name[v.index], tag |-> v.tag]
    BY <2>1 DEF Seen
  <2>3. Ids \subseteq Nat /\ 0 \notin Ids
    BY CapacityIs DEF Ids
  <2>4. Seen(v) \in Ref /\ Seen(v) \in Promise!Ref
    <3>. DEFINE i == name[v.index]
                t == v.tag
    <3>1. i \in Ids /\ i \in Nat /\ t \in Tags /\ Seen(v) = [index |-> i, tag |-> t]
      BY <2>1, <2>2, <2>3
    <3>. HIDE DEF i, t
    <3>. QED BY <3>1 DEF Ref, Promise!Ref
  <2>. QED BY <2>1, <2>2, <2>4, ValueFacts
<1>. QED BY <1>1 DEF Seen

LEMMA NeverIs == Promise!Never = Never
BY DEF Promise!Never, Never

(* What the mutator takes into a local it takes from Store.                  *)
LEMMA HoldMaps ==
  ASSUME EvenSpace, SettledView, SettledView', IsFiniteSet(held), MaxHeld \in Nat,
         NEW v, LiveRef(v), Hold(v), UNCHANGED name
  PROVE  Promise!Hold(Seen(v)) /\ IsFiniteSet(held')
<1>1. PICK kept \in SUBSET held : Cardinality(kept) < MaxHeld /\ held' = kept \cup {v}
  BY DEF Hold
<1>2. IsFiniteSet(kept)
  BY FS_Subset
<1>. DEFINE seen == {Seen(w) : w \in kept}
            f == [w \in kept |-> Seen(w)]
<1>3. IsFiniteSet(seen) /\ Cardinality(seen) <= Cardinality(kept)
  <2>1. f \in Surjection(kept, seen)
    BY DEF Surjection
  <2>. HIDE DEF f, seen
  <2>. QED BY <1>2, <2>1, FS_Surjection
<1>4. Cardinality(seen) < MaxHeld
  <2>1. Cardinality(seen) \in Nat /\ Cardinality(kept) \in Nat
    BY <1>2, <1>3, FS_CardinalityType
  <2>. HIDE DEF seen
  <2>. QED BY <1>1, <1>3, <2>1
<1>5. ObjectsHeld' = seen \cup {Seen(v)} /\ seen \in SUBSET ObjectsHeld
  <2>1. ObjectsHeld' = {Seen(w) : w \in held'}
    BY DEF SettledView, Seen
  <2>2. ObjectsHeld = {Seen(w) : w \in held}
    BY DEF SettledView
  <2>. QED BY <1>1, <2>1, <2>2
<1>6. Seen(v) \in Promise!Ref
  BY SeenFacts
<1>7. Promise!Hold(Seen(v))
  <2>. HIDE DEF seen
  <2>. QED BY <1>4, <1>5, <1>6 DEF Promise!Hold, Promise!Cardinality, Cardinality
<1>8. IsFiniteSet(held')
  <2>1. IsFiniteSet(kept \cup {v})
    BY <1>2, FS_AddElement
  <2>. QED BY <1>1, <2>1
<1>. QED BY <1>7, <1>8

(* A step that leaves the spaces and the names alone leaves their invariant. *)
LEMMA NamingStays ==
  ASSUME EvenSpace, Naming, UNCHANGED <<allocIdx, space, name>>,
         pc \in {"mutator", "allocated"}, pc' = "mutator", IsFiniteSet(held')
  PROVE  Naming'
<1>1. Allocated' = Allocated
  BY DEF Allocated, AllocEnd, AllocStart, Cells, SpaceSize
<1>2. NamesOnce'
  BY DEF Naming, NamesOnce, Slots, Ids, Capacity, SpaceSize
<1>3. NamesGiven'
  BY <1>1 DEF Naming, NamesGiven, Settled, Collecting
<1>4. CollectionDue' /\ LocalsLeft'
  BY DEF CollectionDue, LocalsLeft, Collecting
<1>. QED BY <1>2, <1>3, <1>4 DEF Naming

(* What is the same for Store when heap and names are.                       *)
LEMMA SameObjects ==
  ASSUME UNCHANGED <<heap, name>>
  PROVE  Objects' = Objects /\ Names' = Names
BY DEF Objects, Names, CellOf, Resolve, NameAt, Slots

Mutates ==
  /\ EvenSpace /\ HeapInvariant /\ HeapInvariant' /\ Naming
  /\ pc = "mutator" /\ SettledView

LEMMA MutatesFacts ==
  ASSUME Mutates
  PROVE  /\ \A r \in Roots : roots[r] = Never \/ LiveRef(roots[r])
         /\ \A v \in held : LiveRef(v)
         /\ \A c \in Allocated : LiveValue(heap[c]) /\ LiveValue(heap[c + 1])
         /\ ClientRoots \cup {False, Stack} \subseteq Roots
         /\ StoreMode = "mutator" /\ IsFiniteSet(held)
         /\ ObjectRoots = [r \in Roots |-> Seen(roots[r])]
         /\ \A r \in Roots : ObjectRoots[r] = Seen(roots[r])
         /\ \A v \in held : Seen(v) \in ObjectsHeld
<1>1. ClientRoots \cup {False, Stack} \subseteq Roots
  BY MemoryAssumption DEF Roots, False, Stack
<1>2. StoreMode = "mutator" /\ IsFiniteSet(held)
  BY DEF Mutates, StoreMode, Collecting, Naming, LocalsLeft
<1>3. ObjectRoots = [r \in Roots |-> Seen(roots[r])] /\ \A v \in held : Seen(v) \in ObjectsHeld
  BY DEF Mutates, SettledView
<1>. QED BY <1>1, <1>2, <1>3, MutatorFacts DEF Mutates

LEMMA NextView ==
  ASSUME EvenSpace, HeapInvariant', Naming', pc' \in {"mutator", "allocated"}
  PROVE  SettledView'
<1>1. EvenSpace'
  BY DEF EvenSpace, SpaceSize
<1>2. Settled'
  BY DEF Settled
<1>. QED BY <1>1, <1>2, SettledTells, PTL

LEMMA ReadsMap ==
  ASSUME Mutates, MutatorReads, UNCHANGED name
  PROVE  Naming' /\ Promise!Next
<1>. USE DEF Mutates
<1>1. ASSUME NEW v, LiveRef(v), Hold(v),
             UNCHANGED <<heap, allocIdx, space, roots, pushing, pc, cursor>>
      PROVE  /\ Naming' /\ Promise!Hold(Seen(v))
             /\ UNCHANGED <<Objects, ObjectRoots, pushing, StoreMode>>
  <2>1. IsFiniteSet(held')
    <3>1. PICK kept \in SUBSET held : held' = kept \cup {v}
      BY <1>1 DEF Hold
    <3>2. IsFiniteSet(kept)
      BY MutatesFacts, FS_Subset
    <3>. QED BY <3>1, <3>2, FS_AddElement
  <2>2. Naming'
    BY <1>1, <2>1, NamingStays
  <2>3. SettledView'
    BY <1>1, <2>2, NextView
  <2>4. Promise!Hold(Seen(v))
    BY <1>1, <2>3, MutatesFacts, MemoryAssumption, HoldMaps
  <2>5. UNCHANGED <<Objects, ObjectRoots, pushing, StoreMode>>
    <3>1. ObjectRoots' = ObjectRoots
      BY <1>1 DEF ObjectRoots, Resolve, NameAt, Roots
    <3>2. StoreMode' = StoreMode
      BY <1>1 DEF StoreMode, Collecting
    <3>. QED BY <1>1, <3>1, <3>2, SameObjects
  <2>. QED BY <2>2, <2>4, <2>5
<1>2. ASSUME NEW r \in ClientRoots \cup {False}, ReadRoot(r)
      PROVE  Naming' /\ Promise!Next
  <2>1. /\ Hold(roots[r]) /\ roots[r] \in Ref
        /\ UNCHANGED <<heap, allocIdx, space, roots, pushing, pc, cursor>>
    BY <1>2 DEF ReadRoot, Hold
  <2>2. LiveRef(roots[r])
    BY <2>1, MutatesFacts, ValueFacts
  <2>3. Promise!ReadRoot(r)
    BY <1>1, <2>1, <2>2, MutatesFacts DEF Promise!ReadRoot
  <2>. QED BY <1>1, <2>1, <2>2, <2>3 DEF Promise!Next, Promise!False, False
<1>3. ASSUME NEW v \in held, NEW field \in {0, 1}, Load(v, field)
      PROVE  Naming' /\ Promise!Next
  <2>. DEFINE w == heap[v.index + field]
  <2>1. /\ Hold(w) /\ w \in Ref
        /\ UNCHANGED <<heap, allocIdx, space, roots, pushing, pc, cursor>>
    BY <1>3 DEF Load, Hold
  <2>2. LiveRef(v) /\ v.index \in Allocated
    BY MutatesFacts DEF LiveRef
  <2>3. LiveRef(w)
    BY <2>1, <2>2, FieldFacts, ValueFacts DEF LiveValue
  <2>4. Objects[Seen(v).index][field] = Seen(w)
    <3>1. Seen(v).index = name[v.index]
      BY <2>2, SeenFacts
    <3>2. Objects[name[v.index]] = [f \in {0, 1} |-> Seen(heap[v.index + f])]
      BY <2>2 DEF SettledView
    <3>. QED BY <3>1, <3>2
  <2>5. Promise!Hold(Seen(w)) /\ UNCHANGED <<Objects, ObjectRoots, pushing, StoreMode>>
    BY <1>1, <2>1, <2>3
  <2>6. Promise!Load(Seen(v), field)
    BY <2>4, <2>5, MutatesFacts DEF Promise!Load
  <2>. QED BY <1>1, <2>1, <2>3, <2>6, MutatesFacts DEF Promise!Next
<1>. QED BY <1>2, <1>3 DEF MutatorReads

(* Tags are set and read the same on both sides.                            *)
LEMMA TagsSeen ==
  ASSUME EvenSpace, SettledView, NEW v, LiveValue(v)
  PROVE  /\ Promise!TagOf(Seen(v)) = TagOf(v)
         /\ \A t \in Tags : /\ Seen(SetTag(v, t)) = Promise!SetTag(Seen(v), t)
                           /\ LiveValue(SetTag(v, t))
<1>1. CASE v \in Atoms
  BY <1>1 DEF Seen, SetTag, TagOf, Promise!SetTag, Promise!TagOf, LiveValue
<1>2. CASE LiveRef(v)
  <2>1. /\ v \in Ref /\ v \notin Atoms /\ v.index \in Allocated
        /\ Seen(v) = [index |-> name[v.index], tag |-> v.tag]
        /\ Seen(v) \notin Atoms /\ Seen(v).tag = v.tag
    BY <1>2, SeenFacts, ValueFacts DEF LiveRef
  <2>2. Promise!TagOf(Seen(v)) = TagOf(v)
    BY <2>1 DEF TagOf, Promise!TagOf
  <2>3. ASSUME NEW t \in Tags
        PROVE  /\ Seen(SetTag(v, t)) = Promise!SetTag(Seen(v), t)
               /\ LiveValue(SetTag(v, t))
    <3>. DEFINE w == SetTag(v, t)
                i == name[v.index]
    <3>1. w \in Ref /\ w.index = v.index /\ w.tag = t
      BY <2>1, SetTagFacts DEF SetTag, Ref
    <3>2. LiveRef(w)
      BY <2>1, <3>1 DEF LiveRef
    <3>3. Seen(w) = [index |-> i, tag |-> t]
      BY <3>1, <3>2, SeenFacts
    <3>4. Promise!SetTag(Seen(v), t) = [index |-> i, tag |-> t]
      <4>1. Promise!SetTag(Seen(v), t) = [Seen(v) EXCEPT !.tag = t]
        BY <2>1 DEF Promise!SetTag
      <4>2. Seen(v) = [index |-> i, tag |-> v.tag]
        BY <2>1
      <4>. HIDE DEF i
      <4>. QED BY <4>1, <4>2
    <3>. QED BY <3>2, <3>3, <3>4 DEF LiveValue
  <2>. QED BY <2>2, <2>3
<1>. QED BY <1>1, <1>2 DEF LiveValue

(* Two functions on the names are the same when they are so on the cells.    *)
LEMMA OnCells ==
  ASSUME SettledView, NEW g, NEW h, DOMAIN g = Names, DOMAIN h = Names,
         g = [i \in Names |-> g[i]], h = [i \in Names |-> h[i]],
         \A s \in Allocated : g[name[s]] = h[name[s]]
  PROVE  g = h
<1>1. \A i \in Names : \E s \in Allocated : i = name[s]
  BY DEF SettledView
<1>2. \A i \in Names : g[i] = h[i]
  BY <1>1
<1>. QED BY <1>2

LEMMA FieldsMap ==
  ASSUME Mutates, NEW v \in held, NEW field \in {0, 1}, field \in ClientFields,
         NEW w \in Values, SetField(v, field, w), UNCHANGED name
  PROVE  Naming' /\ Promise!SetField(Seen(v), field, Seen(w)) /\ Seen(w) \in Promise!Values
<1>. USE DEF Mutates
<1>. DEFINE slot == v.index + field
            new == SetTag(w, TagOf(heap[slot]))
<1>1. /\ heap' = [heap EXCEPT ![slot] = new]
      /\ UNCHANGED <<allocIdx, space, roots, held, pushing, pc, cursor>>
  BY DEF SetField
<1>2. LiveRef(v) /\ v.index \in Allocated /\ slot \in Slots /\ LiveValue(heap[slot])
      /\ heap \in [Slots -> Ref \cup Atoms \cup {Never, Poison}]
      /\ \A c \in Allocated : c \in Int /\ c % 2 = 0 /\ c \in Slots /\ c + 1 \in Slots
  BY MutatesFacts, MutatorFacts, FieldFacts DEF LiveRef
<1>3. LiveValue(w) /\ Seen(w) \in Promise!Values
  BY MutatesFacts DEF Values, LiveValue, Promise!Values, Seen
<1>4. Naming'
  BY <1>1, MutatesFacts, NamingStays
<1>5. SettledView'
  BY <1>1, <1>4, NextView
<1>6. \A x : Seen(x)' = Seen(x)
  BY DEF Seen
<1>7. Allocated' = Allocated
  BY <1>1 DEF Allocated, AllocEnd, AllocStart, Cells, SpaceSize
<1>8. TagOf(heap[slot]) \in Tags
  BY <1>2, MemoryAssumption, ValueFacts DEF LiveValue, LiveRef, TagOf
<1>9. Seen(new) = Promise!SetTag(Seen(w), Promise!TagOf(Seen(heap[slot])))
  BY <1>2, <1>3, <1>8, TagsSeen
<1>10. /\ Seen(v).index = name[v.index] /\ name[v.index] \in Names
       /\ Objects[name[v.index]] = [f \in {0, 1} |-> Seen(heap[v.index + f])]
  BY <1>2, SeenFacts DEF SettledView
<1>. DEFINE i == name[v.index]
            target == [Objects EXCEPT ![i][field] = Promise!SetTag(Seen(w), Promise!TagOf(@))]
<1>11. target = [Objects EXCEPT ![i] = [Objects[i] EXCEPT ![field] = Seen(new)]]
  BY <1>9, <1>10
<1>12. Names' = Names /\ DOMAIN Objects = Names /\ DOMAIN Objects' = Names'
  BY <1>1, <1>5, <1>7 DEF SettledView
<1>13. ASSUME NEW s \in Allocated
       PROVE  Objects'[name[s]] = target[name[s]]
  <2>1. Objects[name[s]] = [f \in {0, 1} |-> Seen(heap[s + f])] /\ name[s] \in Names
    BY DEF SettledView
  <2>2. Objects'[name[s]] = [f \in {0, 1} |-> Seen(heap'[s + f])]
    BY <1>5, <1>6, <1>7 DEF SettledView
  <2>3. \A f \in {0, 1} : s + f \in Slots
    <3>1. s + 0 = s
      BY <1>2
    <3>. QED BY <1>2, <3>1
  <2>4. CASE s = v.index
    <3>1. \A f \in {0, 1} : heap'[s + f] = IF f = field THEN new ELSE heap[s + f]
      <4>1. \A f \in {0, 1} : s + f = slot <=> f = field
        BY <1>2, <2>4
      <4>. HIDE DEF slot, new
      <4>. QED BY <1>1, <1>2, <2>3, <4>1
    <3>2. Objects'[i] = [f \in {0, 1} |-> IF f = field THEN Seen(new) ELSE Seen(heap[s + f])]
      <4>. HIDE DEF new
      <4>. QED BY <2>2, <2>4, <3>1
    <3>3. Objects[i] = [f \in {0, 1} |-> Seen(heap[s + f])]
      BY <2>1, <2>4
    <3>4. target[i] = [Objects[i] EXCEPT ![field] = Seen(new)]
      <4>. HIDE DEF target, new
      <4>. QED BY <1>10, <1>11, <1>12
    <3>. HIDE DEF new, target
    <3>5. target[i] = [f \in {0, 1} |-> IF f = field THEN Seen(new) ELSE Seen(heap[s + f])]
      BY <3>3, <3>4
    <3>. QED BY <2>4, <3>2, <3>5
  <2>5. CASE s # v.index
    <3>1. \A f \in {0, 1} : s + f # slot
      <4>. DEFINE j == v.index
      <4>1. j \in Int /\ j % 2 = 0 /\ s \in Int /\ s % 2 = 0 /\ s # j
        BY <1>2, <2>5
      <4>. HIDE DEF j
      <4>2. \A f \in {0, 1} : s + f # j + field
        BY <4>1
      <4>. QED BY <4>2 DEF j
    <3>2. \A f \in {0, 1} : heap'[s + f] = heap[s + f]
      <4>. HIDE DEF slot, new
      <4>. QED BY <1>1, <1>2, <2>3, <3>1
    <3>3. Objects'[name[s]] = Objects[name[s]]
      BY <2>1, <2>2, <3>2
    <3>4. name[s] # i
      BY <1>2, <2>5 DEF SettledView
    <3>. HIDE DEF target, new
    <3>. QED BY <1>11, <1>12, <2>1, <3>3, <3>4
  <2>. QED BY <2>4, <2>5
<1>14. Objects' = target
  <2>1. DOMAIN target = Names /\ target = [j \in Names |-> target[j]]
    <3>1. Objects = [j \in Names |-> Objects[j]]
      BY <1>12 DEF Objects
    <3>. HIDE DEF new
    <3>. QED BY <1>11, <1>12, <3>1
  <2>2. Objects' = [j \in Names |-> Objects'[j]]
    BY <1>12 DEF Objects
  <2>. HIDE DEF target
  <2>. QED BY <1>12, <1>13, <2>1, <2>2, OnCells
<1>15. UNCHANGED <<ObjectRoots, ObjectsHeld, pushing, StoreMode>>
  <2>1. ObjectRoots' = ObjectRoots /\ ObjectsHeld' = ObjectsHeld
    BY <1>1, <1>5, <1>6 DEF SettledView
  <2>2. StoreMode' = StoreMode
    BY <1>1 DEF StoreMode, Collecting
  <2>. QED BY <1>1, <2>1, <2>2
<1>16. Promise!SetField(Seen(v), field, Seen(w))
  BY <1>10, <1>14, <1>15, MutatesFacts DEF Promise!SetField
<1>. QED BY <1>3, <1>4, <1>16

(* A root, or a pop of the stack.                                           *)
LEMMA RootsMap ==
  ASSUME Mutates, NEW r \in Roots, NEW v \in Ref \cup {Never}, v = Never \/ LiveRef(v),
         UNCHANGED <<heap, allocIdx, space, pushing, pc, name>>, IsFiniteSet(held'),
         roots' = [roots EXCEPT ![r] = v]
  PROVE  /\ Naming' /\ SettledView'
         /\ ObjectRoots' = [ObjectRoots EXCEPT ![r] = Seen(v)]
         /\ UNCHANGED <<Objects, pushing, StoreMode>>
<1>. USE DEF Mutates
<1>1. Naming'
  BY NamingStays
<1>2. SettledView'
  BY <1>1, NextView
<1>3. \A x : Seen(x)' = Seen(x)
  BY DEF Seen
<1>4. ObjectRoots' = [ObjectRoots EXCEPT ![r] = Seen(v)]
  <2>1. ObjectRoots' = [q \in Roots |-> Seen(roots'[q])]
    BY <1>2, <1>3 DEF SettledView
  <2>2. ObjectRoots = [q \in Roots |-> Seen(roots[q])]
    BY MutatesFacts
  <2>3. \A q \in Roots : roots'[q] = IF q = r THEN v ELSE roots[q]
    BY DEF HeapInvariant, TypeOK
  <2>4. ObjectRoots' = [q \in Roots |-> IF q = r THEN Seen(v) ELSE Seen(roots[q])]
    BY <2>1, <2>3
  <2>. QED BY <2>2, <2>4
<1>5. UNCHANGED <<Objects, StoreMode>>
  BY SameObjects DEF StoreMode, Collecting
<1>. QED BY <1>1, <1>2, <1>4, <1>5

LEMMA WritesMap ==
  ASSUME Mutates, MutatorWrites, UNCHANGED name
  PROVE  Naming' /\ Promise!Next
<1>. USE DEF Mutates
<1>1. ASSUME NEW v \in held, NEW field \in ClientFields, NEW w \in Values, SetField(v, field, w)
      PROVE  Naming' /\ Promise!Next
  <2>1. field \in {0, 1}
    BY MemoryAssumption
  <2>2. /\ Naming' /\ Promise!SetField(Seen(v), field, Seen(w))
        /\ Seen(w) \in Promise!Values
    BY <1>1, <2>1, FieldsMap
  <2>. QED BY <2>2, MutatesFacts DEF Promise!Next
<1>2. ASSUME NEW r \in ClientRoots, NEW v \in held \cup {Never}, SetRoot(r, v)
      PROVE  Naming' /\ Promise!Next
  <2>1. /\ roots' = [roots EXCEPT ![r] = v]
        /\ UNCHANGED <<heap, allocIdx, space, held, pushing, pc, cursor>>
    BY <1>2 DEF SetRoot
  <2>2. r \in Roots /\ (v = Never \/ LiveRef(v)) /\ v \in Ref \cup {Never} /\ IsFiniteSet(held')
    BY <2>1, MutatesFacts DEF LiveRef
  <2>3. /\ Naming' /\ SettledView'
        /\ ObjectRoots' = [ObjectRoots EXCEPT ![r] = Seen(v)]
        /\ UNCHANGED <<Objects, pushing, StoreMode>>
    BY <2>1, <2>2, RootsMap
  <2>4. ObjectsHeld' = ObjectsHeld
    BY <2>1, <2>3 DEF SettledView, Seen
  <2>5. Promise!SetRoot(r, Seen(v))
    BY <2>3, <2>4, MutatesFacts DEF Promise!SetRoot
  <2>6. Seen(v) \in ObjectsHeld \cup {Promise!Never}
    BY MutatesFacts, NeverIs DEF Seen
  <2>. QED BY <2>3, <2>5, <2>6 DEF Promise!Next
<1>3. ASSUME Pop
      PROVE  Naming' /\ Promise!Next
  <2>. DEFINE top == roots[Stack]
              car == heap[top.index]
              cdr == heap[top.index + 1]
              c == top.index
  <2>1. /\ top # Never /\ cdr \in Ref
        /\ roots' = [roots EXCEPT ![Stack] = cdr]
        /\ IF car \in Atoms THEN held' = held ELSE Hold(car)
        /\ UNCHANGED <<heap, allocIdx, space, pushing, pc, cursor>>
    BY <1>3 DEF Pop, Car, Cdr
  <2>2. /\ Stack \in Roots /\ LiveRef(top) /\ c \in Allocated
        /\ LiveValue(car) /\ LiveRef(cdr) /\ c + 0 = c
    BY <2>1, MutatesFacts, MutatorFacts, ValueFacts DEF LiveRef, LiveValue
  <2>3. IsFiniteSet(held')
    <3>1. CASE car \in Atoms
      BY <2>1, <3>1, MutatesFacts
    <3>2. CASE car \notin Atoms
      <4>1. PICK kept \in SUBSET held : held' = kept \cup {car}
        BY <2>1, <3>2 DEF Hold
      <4>2. IsFiniteSet(kept)
        BY MutatesFacts, FS_Subset
      <4>. HIDE DEF car
      <4>. QED BY <4>1, <4>2, FS_AddElement
    <3>. QED BY <3>1, <3>2
  <2>4. /\ Naming' /\ SettledView'
        /\ ObjectRoots' = [ObjectRoots EXCEPT ![Stack] = Seen(cdr)]
        /\ UNCHANGED <<Objects, pushing, StoreMode>>
    <3>1. cdr \in Ref \cup {Never}
      BY <2>1
    <3>. HIDE DEF cdr, car
    <3>. QED BY <2>1, <2>2, <2>3, <3>1, RootsMap
  <2>5. /\ ObjectRoots[Stack] = Seen(top) /\ Seen(top) # Never /\ Seen(top).index = name[c]
        /\ Objects[name[c]] = [f \in {0, 1} |-> Seen(heap[c + f])]
        /\ Seen(cdr) \in Promise!Ref
    BY <2>2, MutatesFacts, SeenFacts DEF SettledView
  <2>6. Objects[name[c]][0] = Seen(car) /\ Objects[name[c]][1] = Seen(cdr)
    BY <2>2, <2>5
  <2>7. IF Seen(car) \in Atoms THEN ObjectsHeld' = ObjectsHeld ELSE Promise!Hold(Seen(car))
    <3>1. CASE car \in Atoms
      <4>1. Seen(car) \in Atoms
        BY <3>1 DEF Seen
      <4>2. ObjectsHeld' = ObjectsHeld
        BY <2>1, <2>4, <3>1 DEF SettledView, Seen
      <4>. QED BY <4>1, <4>2
    <3>2. CASE car \notin Atoms
      <4>1. Hold(car) /\ LiveRef(car)
        BY <2>1, <2>2, <3>2 DEF LiveValue
      <4>2. Seen(car) \notin Atoms
        BY <4>1, SeenFacts
      <4>3. Promise!Hold(Seen(car))
        <5>. HIDE DEF car
        <5>. QED BY <2>4, <4>1, MutatesFacts, MemoryAssumption, HoldMaps
      <4>. QED BY <4>2, <4>3
    <3>. QED BY <3>1, <3>2
  <2>8. Promise!Pop
    <3>. DEFINE i == name[c]
    <3>1. /\ StoreMode = "mutator" /\ ObjectRoots[Stack] # Promise!Never
          /\ ObjectRoots[Stack].index = i
          /\ Objects[i][0] = Seen(car) /\ Objects[i][1] = Seen(cdr)
          /\ Objects[i][1] \in Promise!Ref
          /\ ObjectRoots' = [ObjectRoots EXCEPT ![Stack] = Objects[i][1]]
          /\ UNCHANGED <<Objects, pushing, StoreMode>>
      BY <2>4, <2>5, <2>6, MutatesFacts, NeverIs
    <3>2. IF Objects[i][0] \in Atoms THEN ObjectsHeld' = ObjectsHeld
          ELSE Promise!Hold(Objects[i][0])
      BY <2>7, <3>1
    <3>. HIDE DEF i, car, cdr, top, c
    <3>. QED BY <3>1, <3>2 DEF Promise!Pop, Promise!Stack, Stack
  <2>. QED BY <2>4, <2>8 DEF Promise!Next
<1>. QED BY <1>1, <1>2, <1>3 DEF MutatorWrites

(* While the space has room, Store has an identity to give.                  *)
LEMMA FreeNameIs ==
  ASSUME EvenSpace, HeapInvariant, SettledView, ~IsOutOfMemory
  PROVE  /\ FreeName \in Ids /\ FreeName \notin Names /\ FreeName # Unnamed
         /\ Cardinality(Names) < Capacity
<1>1. /\ IsFiniteSet(Names) /\ 2 * Cardinality(Names) = allocIdx /\ Names \subseteq Ids
      /\ Cardinality(Names) \in Nat /\ allocIdx \in Nat /\ allocIdx < SpaceSize
  BY NamesCount, SpaceFacts, FS_CardinalityType DEF IsOutOfMemory, HeapInvariant, TypeOK
<1>2. Cardinality(Names) < Capacity
  BY <1>1, CapacityIs
<1>3. Cardinality(Ids) = Capacity
  BY CapacityIs, FS_Interval DEF Ids
<1>4. Ids \ Names # {}
  <2>1. Names # Ids
    BY <1>2, <1>3, CapacityIs
  <2>. QED BY <1>1, <2>1
<1>5. FreeName \in Ids \ Names
  BY <1>4 DEF FreeName
<1>. QED BY <1>2, <1>5, UnnamedAssumption

(* The next cell of the active space is allocated.                          *)
LEMMA OneMoreCell ==
  ASSUME EvenSpace, TypeOK, AllocationFits, allocIdx % 2 = 0, ~IsOutOfMemory,
         allocIdx' = allocIdx + 2, space' = space
  PROVE  Allocated' = Allocated \cup {AllocEnd} /\ AllocEnd \notin Allocated
<1>. PICK c : c = AllocEnd
  OBVIOUS
<1>1. c \in Cells(AllocStart)
  BY FreshCell
<1>2. AllocStart \in Nat /\ c = AllocStart + allocIdx /\ allocIdx \in Nat
  BY AllocatedFacts DEF TypeOK
<1>3. \A d \in Cells(AllocStart) : d \in Nat /\ d % 2 = 0
  BY AbandonedFacts, CellFacts
<1>4. /\ AllocStart' = AllocStart /\ AllocEnd' = AllocStart + (allocIdx + 2)
      /\ Cells(AllocStart)' = Cells(AllocStart)
  BY DEF AllocStart, AllocEnd, Cells, SpaceSize
<1>5. c \in Nat /\ c % 2 = 0 /\ AllocEnd' = c + 2
  BY <1>1, <1>2, <1>3, <1>4
<1>6. \A d \in Cells(AllocStart) : d < c + 2 <=> d < c \/ d = c
  BY <1>3, <1>5
<1>7. Allocated = {d \in Cells(AllocStart) : d < c}
  BY DEF Allocated
<1>8. Allocated' = {d \in Cells(AllocStart) : d < c + 2}
  BY <1>4, <1>5 DEF Allocated
<1>9. ~(c < c)
  BY <1>5
<1>10. c \notin Allocated
  BY <1>7, <1>9
<1>11. Allocated' = Allocated \cup {c}
  BY <1>1, <1>6, <1>7, <1>8
<1>. QED BY <1>10, <1>11

LEMMA NewCellMaps ==
  ASSUME Mutates, NEW car, NEW cdr, LiveValue(car), LiveValue(cdr), NEW push,
         Allocate(car, cdr, push), name' = [name EXCEPT ![AllocEnd] = FreeName]
  PROVE  Naming' /\ FreeName \in Ids /\ Promise!Allocate(FreeName, Seen(car), Seen(cdr), push)
<1>. USE DEF Mutates
<1>01. PICK c : c = AllocEnd
  OBVIOUS
<1>02. PICK i : i = FreeName
  OBVIOUS
<1>1. /\ ~IsOutOfMemory /\ heap' = [heap EXCEPT ![c] = car, ![c + 1] = cdr]
      /\ allocIdx' = allocIdx + 2 /\ roots' = [roots EXCEPT ![Result] = NewRef]
      /\ held' = {} /\ pushing' = push /\ pc' = "allocated" /\ UNCHANGED <<space, cursor>>
  BY <1>01 DEF Allocate, WithCell
<1>2. /\ TypeOK /\ AllocationFits /\ allocIdx % 2 = 0
      /\ heap \in [Slots -> Ref \cup Atoms \cup {Never, Poison}]
  BY DEF HeapInvariant, TypeOK
<1>3. /\ c \in Cells(AllocStart) /\ c \in Slots /\ c + 1 \in Slots
      /\ NewRef \in Ref /\ NewRef.index = c
  BY <1>01, <1>1, <1>2, FreshCell
<1>4. c \in Int /\ c % 2 = 0 /\ AllocStart \in Nat /\ c = AllocStart + allocIdx
  <2>1. c \in Nat /\ c % 2 = 0
    BY <1>2, <1>3, AbandonedFacts, CellFacts
  <2>2. AllocStart \in Nat /\ c = AllocStart + allocIdx
    BY <1>01, <1>2, AllocatedFacts
  <2>. QED BY <2>1, <2>2
<1>5. \A s \in Allocated : s \in Int /\ s % 2 = 0 /\ s < c /\ s \in Slots /\ s + 1 \in Slots
  BY <1>01, MutatorFacts DEF Allocated
<1>6. Allocated' = Allocated \cup {c}
  BY <1>01, <1>1, <1>2, OneMoreCell
<1>7. i \in Ids /\ i \notin Names /\ i # Unnamed /\ Cardinality(Names) < Capacity
  BY <1>02, <1>1, FreeNameIs
<1>8. NamesOnce /\ NamesGiven /\ name \in [Slots -> Ids \cup {Unnamed}]
  BY DEF Naming, NamesOnce
<1>9. \A s \in Slots : name'[s] = IF s = c THEN i ELSE name[s]
  BY <1>01, <1>02, <1>3, <1>8
<1>10. \A s \in Slots : name[s] # i
  BY <1>7 DEF Names
<1>11. Naming'
  <2>1. NamesOnce'
    <3>1. name' \in [Slots -> Ids \cup {Unnamed}]
      BY <1>01, <1>02, <1>3, <1>7, <1>8
    <3>2. \A s, t \in Slots : name'[s] # Unnamed /\ name'[s] = name'[t] => s = t
      BY <1>8, <1>9, <1>10 DEF NamesOnce
    <3>. QED BY <3>1, <3>2 DEF NamesOnce, Slots, Ids, Capacity, SpaceSize
  <2>2. NamesGiven'
    <3>1. \A s \in Slots : name[s] # Unnamed <=> s \in Allocated
      BY <1>8 DEF NamesGiven, Settled
    <3>2. \A s \in Slots : name'[s] # Unnamed <=> s \in Allocated'
      BY <1>6, <1>7, <1>9, <3>1
    <3>. QED BY <1>1, <3>2 DEF NamesGiven, Settled, Collecting, Slots
  <2>3. CollectionDue' /\ LocalsLeft'
    BY <1>1, FS_EmptySet DEF CollectionDue, LocalsLeft, Collecting
  <2>. QED BY <2>1, <2>2, <2>3 DEF Naming
<1>12. SettledView'
  BY <1>1, <1>11, NextView
<1>13. \A v : LiveValue(v) \/ v = Never => Seen(v)' = Seen(v)
  <2>1. ASSUME NEW v, LiveRef(v)
        PROVE  Seen(v)' = Seen(v)
    <3>1. name'[v.index] = name[v.index]
      BY <1>5, <1>9, <2>1 DEF LiveRef
    <3>. QED BY <3>1 DEF Seen
  <2>. QED BY <2>1 DEF Seen, LiveValue
<1>14. Names' = Names \cup {i}
  <2>1. Names = {name[s] : s \in Allocated} /\ Names' = {name'[s] : s \in Allocated'}
    BY <1>12 DEF SettledView
  <2>2. name'[c] = i /\ \A s \in Allocated : name'[s] = name[s]
    BY <1>3, <1>5, <1>9
  <2>. QED BY <1>6, <2>1, <2>2
<1>15. /\ heap'[c] = car /\ heap'[c + 1] = cdr
       /\ \A s \in Allocated : heap'[s] = heap[s] /\ heap'[s + 1] = heap[s + 1]
  <2>1. \A s \in Slots : heap'[s] = IF s = c + 1 THEN cdr ELSE IF s = c THEN car ELSE heap[s]
    BY <1>1, <1>2, <1>3, <1>4
  <2>2. \A s \in Allocated : s # c /\ s # c + 1 /\ s + 1 # c /\ s + 1 # c + 1
    BY <1>4, <1>5
  <2>3. c # c + 1
    BY <1>4
  <2>. QED BY <1>3, <1>5, <2>1, <2>2, <2>3
<1>. DEFINE target == [j \in DOMAIN Objects \cup {i} |->
              IF j = i THEN [f \in {0, 1} |-> IF f = 0 THEN Seen(car) ELSE Seen(cdr)]
              ELSE Objects[j]]
<1>16. Objects' = target
  <2>1. DOMAIN Objects' = Names' /\ DOMAIN Objects = Names
    BY <1>12 DEF SettledView
  <2>2. Objects' = [j \in Names' |-> Objects'[j]]
    BY <2>1 DEF Objects
  <2>3. ASSUME NEW s \in Allocated'
        PROVE  Objects'[name'[s]] = target[name'[s]]
    <3>1. Objects'[name'[s]] = [f \in {0, 1} |-> Seen(heap[s + f])']
      BY <1>12 DEF SettledView
    <3>2. CASE s = c
      <4>1. name'[s] = i
        BY <1>3, <1>9, <3>2
      <4>2. \A f \in {0, 1} : Seen(heap[s + f])' = IF f = 0 THEN Seen(car) ELSE Seen(cdr)
        <5>1. s + 0 = c /\ s + 1 = c + 1
          BY <1>4, <3>2
        <5>2. Seen(heap[c])' = Seen(car) /\ Seen(heap[c + 1])' = Seen(cdr)
          <6>1. Seen(car)' = Seen(car) /\ Seen(cdr)' = Seen(cdr)
            BY <1>13
          <6>2. Seen(heap[c])' = Seen(car)' /\ Seen(heap[c + 1])' = Seen(cdr)'
            BY <1>15 DEF Seen
          <6>. QED BY <6>1, <6>2
        <5>3. \A f \in {0, 1} : f = 0 \/ f = 1
          OBVIOUS
        <5>4. Seen(heap[s + 0])' = Seen(heap[c])' /\ Seen(heap[s + 1])' = Seen(heap[c + 1])'
          BY <5>1 DEF Seen
        <5>. QED BY <5>2, <5>3, <5>4
      <4>. HIDE DEF target
      <4>3. target[i] = [f \in {0, 1} |-> IF f = 0 THEN Seen(car) ELSE Seen(cdr)]
        BY DEF target
      <4>. QED BY <3>1, <4>1, <4>2, <4>3
    <3>3. CASE s # c
      <4>1. s \in Allocated /\ name'[s] = name[s] /\ name[s] \in Names /\ name[s] # i
        BY <1>5, <1>6, <1>7, <1>9, <3>3 DEF SettledView
      <4>2. Objects[name[s]] = [f \in {0, 1} |-> Seen(heap[s + f])]
        BY <4>1 DEF SettledView
      <4>3. \A f \in {0, 1} : Seen(heap[s + f])' = Seen(heap[s + f])
        <5>1. s + 0 = s
          BY <1>5, <4>1
        <5>2. Seen(heap[s])' = Seen(heap[s]) /\ Seen(heap[s + 1])' = Seen(heap[s + 1])
          <6>1. LiveValue(heap[s]) /\ LiveValue(heap[s + 1])
            BY <4>1, MutatesFacts
          <6>. DEFINE x == heap[s]
                      y == heap[s + 1]
          <6>2. (IF x \in Atoms \/ x = Never THEN x ELSE [index |-> name'[x.index], tag |-> x.tag])
                = Seen(x)
            BY <1>13, <6>1 DEF Seen
          <6>3. (IF y \in Atoms \/ y = Never THEN y ELSE [index |-> name'[y.index], tag |-> y.tag])
                = Seen(y)
            BY <1>13, <6>1 DEF Seen
          <6>. QED BY <1>15, <4>1, <6>2, <6>3 DEF Seen
        <5>3. \A f \in {0, 1} : f = 0 \/ f = 1
          OBVIOUS
        <5>. QED BY <5>1, <5>2, <5>3
      <4>4. Objects'[name'[s]] = Objects[name[s]]
        BY <3>1, <4>2, <4>3
      <4>. QED BY <2>1, <4>1, <4>4
    <3>. QED BY <3>2, <3>3
  <2>4. target = [j \in Names' |-> target[j]]
    BY <1>14, <2>1
  <2>5. \A j \in Names' : \E s \in Allocated' : j = name'[s]
    BY <1>12 DEF SettledView
  <2>. HIDE DEF target
  <2>6. \A j \in Names' : Objects'[j] = target[j]
    BY <2>3, <2>5
  <2>. QED BY <2>2, <2>4, <2>6
<1>17. ObjectRoots' = [ObjectRoots EXCEPT ![Result] = [index |-> i, tag |-> PairTag]]
  <2>1. ASSUME NEW y, y = [index |-> c, tag |-> PairTag], y \notin Atoms, y # Never
        PROVE  Seen(y)' = [index |-> i, tag |-> PairTag]
    <3>1. name'[c] = i
      BY <1>3, <1>9
    <3>. QED BY <2>1, <3>1 DEF Seen
  <2>2. /\ roots'[Result] = [index |-> c, tag |-> PairTag]
        /\ roots'[Result] \notin Atoms /\ roots'[Result] # Never
        /\ \A r \in Roots : r # Result => roots'[r] = roots[r]
    <3>1. NewRef = [index |-> c, tag |-> PairTag] /\ NewRef \notin Atoms /\ NewRef # Never
      BY <1>01, <1>3, ValueFacts DEF NewRef
    <3>. QED BY <1>1, <1>2, <3>1 DEF TypeOK, Roots, Result
  <2>3. ASSUME NEW r \in Roots
        PROVE  Seen(roots[r])' = IF r = Result THEN [index |-> i, tag |-> PairTag]
                                 ELSE Seen(roots[r])
    <3>1. PICK x : x = roots'[r]
      OBVIOUS
    <3>2. Seen(roots[r])' = Seen(x)'
      BY <3>1 DEF Seen
    <3>3. CASE r = Result
      BY <2>1, <2>2, <3>1, <3>2, <3>3
    <3>4. CASE r # Result
      <4>1. x = roots[r] /\ (LiveValue(x) \/ x = Never)
        BY <2>2, <3>1, <3>4, MutatesFacts DEF LiveValue
      <4>2. Seen(x)' = Seen(x)
        BY <1>13, <4>1
      <4>. QED BY <3>2, <3>4, <4>1, <4>2
    <3>. QED BY <3>3, <3>4
  <2>4. ObjectRoots' = [r \in Roots |-> Seen(roots[r])'] /\ Roots = 1 .. 5
    BY <1>12 DEF SettledView, Roots
  <2>5. ObjectRoots = [r \in Roots |-> Seen(roots[r])]
    BY MutatesFacts
  <2>6. ObjectRoots' = [r \in Roots |-> IF r = Result THEN [index |-> i, tag |-> PairTag]
                                        ELSE Seen(roots[r])]
    BY <2>3, <2>4
  <2>. QED BY <2>5, <2>6
<1>18. ObjectsHeld' = {} /\ StoreMode' = "allocating"
  BY <1>1 DEF ObjectsHeld, StoreMode
<1>19. i \notin DOMAIN Objects /\ Cardinality(DOMAIN Objects) < Capacity
  BY <1>7 DEF SettledView
<1>20. Promise!Allocate(i, Seen(car), Seen(cdr), push)
  <2>. HIDE DEF target
  <2>1. /\ ObjectRoots' = [ObjectRoots EXCEPT ![Promise!Result] = [index |-> i, tag |-> PairTag]]
        /\ StoreMode = "mutator" /\ pushing' = push
    BY <1>1, <1>17, MutatesFacts DEF Promise!Result, Result
  <2>2. Promise!Cardinality(DOMAIN Objects) < Capacity
    BY <1>19 DEF Promise!Cardinality, Cardinality
  <2>. QED BY <1>16, <1>18, <1>19, <2>1, <2>2 DEF Promise!Allocate, target
<1>. QED BY <1>02, <1>7, <1>11, <1>20

LEMMA AllocatesMap ==
  ASSUME Mutates, MutatorAllocates, name' = [name EXCEPT ![AllocEnd] = FreeName]
  PROVE  Naming' /\ Promise!Next
<1>1. ASSUME NEW v \in Values PROVE LiveValue(v) /\ Seen(v) \in Promise!Values
  BY <1>1, MutatesFacts DEF Values, LiveValue, Promise!Values, Seen
<1>2. EvenSpace /\ SettledView /\ PairTag \in Tags /\ Stack \in Roots
  BY MemoryAssumption DEF Mutates, Roots, Stack
<1>3. ASSUME NEW car \in Values, NEW cdr \in Values, NEW tag \in Tags,
             Allocate(car, SetTag(cdr, tag), FALSE)
      PROVE  Naming' /\ Promise!Next
  <2>1. /\ LiveValue(SetTag(cdr, tag))
        /\ Seen(SetTag(cdr, tag)) = Promise!SetTag(Seen(cdr), tag)
    BY <1>1, <1>2, TagsSeen
  <2>. DEFINE new == SetTag(cdr, tag)
  <2>2. LiveValue(new) /\ Allocate(car, new, FALSE)
    BY <1>3, <2>1
  <2>3. /\ Naming' /\ FreeName \in Ids
        /\ Promise!Allocate(FreeName, Seen(car), Seen(new), FALSE)
    <3>. HIDE DEF new
    <3>. QED BY <1>1, <2>2, NewCellMaps
  <2>. QED BY <1>1, <2>1, <2>3 DEF Promise!Next
<1>4. ASSUME NEW car \in Values, Consable(roots[Stack]),
             Allocate(car, SetTag(roots[Stack], PairTag), TRUE)
      PROVE  Naming' /\ Promise!Next
  <2>. DEFINE top == roots[Stack]
              new == SetTag(top, PairTag)
  <2>1. /\ top = Never \/ LiveRef(top)
        /\ ObjectRoots[Stack] = Seen(top) /\ DOMAIN Objects = Names
    BY <1>2, MutatesFacts DEF SettledView
  <2>2. LiveValue(new) /\ Seen(new) \in Promise!StackCdr
    <3>1. CASE top # Never
      <4>1. LiveValue(top) /\ Seen(top) # Never
        BY <1>2, <2>1, <3>1, SeenFacts DEF LiveValue
      <4>2. LiveValue(new) /\ Seen(new) = Promise!SetTag(Seen(top), PairTag)
        BY <1>2, <4>1, TagsSeen
      <4>. HIDE DEF new, top
      <4>. QED BY <2>1, <4>1, <4>2, NeverIs DEF Promise!StackCdr, Promise!Stack, Stack
    <3>2. CASE top = Never
      <4>1. ~space /\ AllocStart = 0 /\ new = [index |-> 0, tag |-> PairTag]
        BY <1>4, <3>2, ValueFacts DEF Consable, AllocStart, SetTag, Never
      <4>2. \E c \in Allocated : TRUE
        BY MutatorFacts DEF Mutates, LiveRef, Roots, False
      <4>3. 0 \in Allocated
        BY <4>1, <4>2, AllocatedFacts DEF Mutates, HeapInvariant
      <4>4. LiveRef(new) /\ new.index = 0 /\ new.tag = PairTag
        BY <1>2, <4>1, <4>3 DEF LiveRef, Ref
      <4>5. Seen(new) = [index |-> name[0], tag |-> PairTag] /\ name[0] \in Names
        <5>. HIDE DEF new, top
        <5>. QED BY <1>2, <4>3, <4>4, SeenFacts DEF SettledView
      <4>6. ObjectRoots[Stack] = Never
        BY <2>1, <3>2 DEF Seen
      <4>7. LiveValue(new)
        BY <4>4 DEF LiveValue
      <4>. HIDE DEF new, top
      <4>. QED BY <2>1, <4>5, <4>6, <4>7, NeverIs DEF Promise!StackCdr, Promise!Stack, Stack
    <3>. QED BY <3>1, <3>2
  <2>3. /\ Naming' /\ FreeName \in Ids
        /\ Promise!Allocate(FreeName, Seen(car), Seen(new), TRUE)
    <3>1. Allocate(car, new, TRUE)
      BY <1>4
    <3>. HIDE DEF new
    <3>. QED BY <1>1, <2>2, <3>1, NewCellMaps
  <2>. QED BY <1>1, <2>2, <2>3 DEF Promise!Next
<1>. QED BY <1>3, <1>4 DEF MutatorAllocates

LEMMA FailureMaps ==
  ASSUME Mutates, OutOfMemory, UNCHANGED name
  PROVE  Naming' /\ Promise!Next
<1>. USE DEF Mutates
<1>1. /\ IsOutOfMemory /\ pc' = "failed"
      /\ UNCHANGED <<heap, allocIdx, space, roots, held, pushing, cursor>>
  BY DEF OutOfMemory, Fail
<1>2. Naming'
  BY <1>1 DEF Naming, NamesOnce, NamesGiven, CollectionDue, LocalsLeft, Settled, Collecting,
              Slots, Ids, Capacity, SpaceSize
<1>3. UNCHANGED <<Objects, ObjectRoots, ObjectsHeld, pushing>> /\ StoreMode' = "failed"
  <2>1. ObjectRoots' = ObjectRoots /\ ObjectsHeld' = ObjectsHeld
    BY <1>1 DEF ObjectRoots, ObjectsHeld, Resolve, NameAt, Roots
  <2>. QED BY <1>1, <2>1, SameObjects DEF StoreMode, Collecting
<1>4. Promise!Full
  BY <1>1, NamesCount
<1>. QED BY <1>2, <1>3, <1>4, MutatesFacts DEF Promise!OutOfMemory, Promise!Next

-----------------------------------------------------------------------------
(* The end of an allocation, and the collection that it may run.            *)

LEMMA ReturnMaps ==
  ASSUME roots \in [Roots -> Ref \cup {Never}], Return(roots[Result], pushing),
         \A x : x = Never \/ (\E r \in Roots : x = roots[r]) => Resolve(x)' = Resolve(x)
  PROVE  Promise!Return(ObjectRoots[Result], pushing)
<1>1. /\ held' = IF pushing THEN {} ELSE {roots[Result]}
      /\ roots' = [roots EXCEPT ![Stack] = IF pushing THEN roots[Result] ELSE @,
                                ![Result] = Never]
      /\ pushing' = FALSE /\ pc' = "mutator"
  BY DEF Return
<1>2. Result \in Roots /\ Stack \in Roots /\ Result # Stack
  BY DEF Result, Roots, Stack
<1>3. \A r \in Roots : roots'[r] = IF r = Result THEN Never
                                   ELSE IF r = Stack /\ pushing THEN roots[Result] ELSE roots[r]
  BY <1>1, <1>2
<1>4. \A r \in Roots : ObjectRoots[r] = Resolve(roots[r])
  BY DEF ObjectRoots
<1>5. ASSUME NEW r \in Roots
      PROVE  Resolve(roots[r])' =
             IF r = Result THEN Never
             ELSE IF r = Stack /\ pushing THEN ObjectRoots[Result] ELSE ObjectRoots[r]
  <2>1. PICK x : x = roots'[r]
    OBVIOUS
  <2>2. Resolve(roots[r])' = Resolve(x)'
    BY <2>1 DEF Resolve, NameAt
  <2>3. Resolve(x)' = Resolve(x)
    BY <1>2, <1>3, <2>1
  <2>4. Resolve(Never) = Never
    BY DEF Resolve
  <2>. QED BY <1>2, <1>3, <1>4, <2>1, <2>2, <2>3, <2>4
<1>6. ObjectRoots' = [r \in Roots |-> Resolve(roots[r])']
  BY DEF ObjectRoots, Roots
<1>7. ObjectRoots' = [ObjectRoots EXCEPT
        ![Stack] = IF pushing THEN ObjectRoots[Result] ELSE @, ![Result] = Never]
  <2>1. ObjectRoots = [r \in Roots |-> ObjectRoots[r]]
    BY DEF ObjectRoots
  <2>2. ObjectRoots' = [r \in Roots |-> IF r = Result THEN Never
             ELSE IF r = Stack /\ pushing THEN ObjectRoots[Result] ELSE ObjectRoots[r]]
    BY <1>5, <1>6
  <2>. QED BY <1>2, <2>1, <2>2
<1>8. ObjectsHeld' = IF pushing THEN {} ELSE {ObjectRoots[Result]}
  <2>1. PICK x : x = roots[Result]
    OBVIOUS
  <2>2. Resolve(x)' = ObjectRoots[Result]
    BY <1>2, <1>4, <2>1
  <2>3. held' = IF pushing THEN {} ELSE {x}
    BY <1>1, <2>1
  <2>4. ObjectsHeld' = {Resolve(w)' : w \in held'}
    BY DEF ObjectsHeld, Resolve, NameAt
  <2>. QED BY <2>2, <2>3, <2>4
<1>9. StoreMode' = "mutator"
  BY <1>1 DEF StoreMode, Collecting
<1>. QED BY <1>1, <1>7, <1>8, <1>9, NeverIs
         DEF Promise!Return, Promise!Stack, Promise!Result, Stack, Result

LEMMA FinishMaps ==
  ASSUME EvenSpace, HeapInvariant, Naming, FinishAllocation, UNCHANGED name
  PROVE  Naming' /\ Promise!Next
<1>1. /\ pc = "allocated" /\ ~IsOutOfMemory /\ ~GcAlways /\ Return(roots[Result], pushing)
      /\ UNCHANGED <<heap, allocIdx, space, cursor>>
  BY DEF FinishAllocation
<1>2. SettledView
  BY <1>1, SettledTells DEF Settled
<1>3. IsFiniteSet(held') /\ pc' = "mutator"
  BY <1>1, FS_EmptySet, FS_Singleton DEF Return
<1>4. Naming'
  BY <1>1, <1>3, NamingStays
<1>5. Promise!Return(ObjectRoots[Result], pushing)
  <2>1. \A x : Resolve(x)' = Resolve(x)
    BY <1>1 DEF Resolve, NameAt
  <2>. QED BY <1>1, <2>1, ReturnMaps DEF HeapInvariant, TypeOK
<1>6. ~Promise!Full /\ StoreMode = "allocating" /\ Objects' = Objects
  BY <1>1, <1>2, NamesCount, SameObjects DEF StoreMode
<1>7. Promise!FinishAllocation
  BY <1>1, <1>5, <1>6 DEF Promise!FinishAllocation, Promise!Result, Result
<1>. QED BY <1>4, <1>7 DEF Promise!Next

(* The variables of Store, as the heap has them.                            *)
Unseen == UNCHANGED <<Objects, ObjectRoots, ObjectsHeld, pushing, StoreMode>>

LEMMA StartMaps ==
  ASSUME EvenSpace, HeapInvariant, Naming, StartCollection, UNCHANGED name
  PROVE  Naming' /\ Unseen
<1>1. /\ pc = "allocated" /\ (IsOutOfMemory \/ GcAlways)
      /\ allocIdx' = 0 /\ space' = ~space /\ pc' = "roots"
      /\ UNCHANGED <<heap, roots, held, pushing>>
  BY DEF StartCollection
<1>2. SettledView
  BY <1>1, SettledTells DEF Settled
<1>3. Unseen
  <2>1. ObjectRoots' = ObjectRoots /\ ObjectsHeld' = ObjectsHeld
    BY <1>1 DEF ObjectRoots, ObjectsHeld, Resolve, NameAt, Roots
  <2>2. StoreMode' = StoreMode
    BY <1>1 DEF StoreMode, Collecting
  <2>. QED BY <1>1, <2>1, <2>2, SameObjects DEF Unseen
<1>4. /\ Abandoned' = Cells(AllocStart) /\ AllocStart' \in Nat
      /\ (AllocStart .. AllocEnd - 1)' = {}
  <2>1. SpaceSize \in Nat /\ space \in BOOLEAN
    BY SpaceFacts DEF HeapInvariant, TypeOK
  <2>2. /\ SpaceSize - AllocStart' = AllocStart
        /\ (AllocStart .. AllocEnd - 1)' = {} /\ AllocStart' \in Nat
    BY <1>1, <2>1, FlipFacts
  <2>3. Abandoned' = Cells(SpaceSize - AllocStart')
    BY DEF Abandoned, Cells, SpaceSize
  <2>. QED BY <2>2, <2>3
<1>5. Allocated' = {}
  <2>1. AllocEnd' = AllocStart' + 0 /\ SpaceSize' \in Nat
    BY <1>1, SpaceFacts DEF AllocEnd, SpaceSize
  <2>2. \A c \in AllocStart' .. AllocStart' + SpaceSize' - 1 : ~(c < AllocEnd')
    <3>1. \A a, n \in Nat : \A c \in a .. a + n - 1 : ~(c < a + 0)
      OBVIOUS
    <3>. QED BY <1>4, <2>1, <3>1
  <2>. QED BY <2>2 DEF Allocated, Cells
<1>6. Waiting' = Allocated
  <2>1. ASSUME NEW c \in Cells(AllocStart)
        PROVE  heap[c] # Poison /\ heap[c] # Never <=> c \in Allocated
    <3>1. c \in Nat /\ AllocEnd \in Nat
      BY AbandonedFacts, CellFacts, AllocatedFacts DEF HeapInvariant
    <3>2. CASE c < AllocEnd
      <4>1. c \in Allocated /\ LiveValue(heap[c])
        BY <1>1, <3>2 DEF Allocated, HeapInvariant, NoDanglingReference, Settled
      <4>. QED BY <4>1, ValueFacts DEF LiveValue, LiveRef
    <3>3. CASE ~(c < AllocEnd)
      BY <1>1, <3>1, <3>3 DEF Allocated, HeapInvariant, Unallocated, Settled
    <3>. QED BY <3>2, <3>3
  <2>2. Waiting' = {c \in Cells(AllocStart) : heap[c] # Poison /\ heap[c] # Never}
    BY <1>1, <1>4 DEF Waiting
  <2>. QED BY <2>1, <2>2 DEF Allocated
<1>7. NamesOnce'
  BY DEF Naming, NamesOnce, Slots, Ids, Capacity, SpaceSize
<1>8. NamesGiven'
  <2>1. \A s \in Slots : name[s] # Unnamed <=> s \in Allocated
    BY <1>1 DEF Naming, NamesGiven, Settled
  <2>. QED BY <1>1, <1>5, <1>6, <2>1 DEF NamesGiven, Settled, Collecting, Slots
<1>9. CollectionDue' /\ LocalsLeft'
  <2>1. Promise!Full \/ GcAlways
    BY <1>1, <1>2, NamesCount
  <2>2. Promise!Full' = Promise!Full
    BY <1>3 DEF Unseen, Promise!Full, Capacity, SpaceSize
  <2>. QED BY <1>1, <1>5, <2>1, <2>2 DEF CollectionDue, LocalsLeft, Naming
<1>. QED BY <1>3, <1>7, <1>8, <1>9 DEF Naming

-----------------------------------------------------------------------------
(* The steps of a collection.                                               *)

Known(x) == x \in Atoms \/ x = Never \/ LiveRef(x) \/ OldRef(x)

(* During a collection the copies and the waiting cells have a name, and a   *)
(* moved cell goes by the name of its copy.                                 *)
CollectView ==
  /\ \A r \in Roots : roots[r] = Never \/ LiveRef(roots[r]) \/ OldRef(roots[r])
  /\ \A s \in Allocated :
       /\ s \in Int /\ s \in Slots /\ s + 1 \in Slots /\ s \notin Abandoned
       /\ s \in AllocStart .. AllocEnd - 1 /\ s + 1 \in AllocStart .. AllocEnd - 1
       /\ LiveValue(heap[s]) \/ OldValue(heap[s])
       /\ LiveValue(heap[s + 1]) \/ OldValue(heap[s + 1])
       /\ heap[s] # Never /\ name[s] # Unnamed /\ NameAt(s) = name[s]
  /\ \A s \in Waiting :
       /\ s \in Int /\ s \in Slots /\ s + 1 \in Slots /\ s \in Abandoned
       /\ OldValue(heap[s]) /\ OldValue(heap[s + 1])
       /\ heap[s] # Never /\ name[s] # Unnamed /\ NameAt(s) = name[s]
  /\ \A s \in MovedCells :
       /\ s \in Slots /\ s + 1 \in Slots /\ s \in Abandoned
       /\ heap[s] = Never /\ LiveRef(heap[s + 1]) /\ NameAt(s) = name[heap[s + 1].index]
  /\ \A v : OldRef(v) => v.index \in Waiting \cup MovedCells
  /\ \A s \in Slots : name[s] # Unnamed <=> s \in Allocated \cup Waiting
  /\ CopyState /\ NamesOnce /\ NamedCells

LEMMA Successor ==
  ASSUME NEW a \in Nat, NEW b \in Nat, NEW s \in Nat,
         a % 2 = 0, b % 2 = 0, s % 2 = 0, a <= s, s < b
  PROVE  s + 1 >= a /\ s + 1 <= b - 1 /\ s <= b - 1
OBVIOUS

LEMMA CollectingTells ==
  ASSUME EvenSpace, HeapInvariant, Naming, Collecting
  PROVE  CollectView
<1>1. CopyState /\ TypeOK /\ AllocationFits /\ HalfCopied /\ allocIdx % 2 = 0
  BY DEF HeapInvariant, HalfCopied, CopyState
<1>2. /\ \A r \in Roots : RootOK(r)
      /\ \A s \in AllocStart .. AllocEnd - 1 : SlotOK(s)
      /\ \A c \in Abandoned : OldCell(c)
  BY <1>1 DEF HalfCopied
<1>3. NamesOnce /\ NamedCells /\ \A s \in Slots : name[s] # Unnamed <=> s \in Allocated \cup Waiting
  BY NamesTell DEF Naming, NamesGiven
<1>4. \A r \in Roots : roots[r] = Never \/ LiveRef(roots[r]) \/ OldRef(roots[r])
  BY <1>2 DEF RootOK
<1>5. ASSUME NEW s \in Allocated
      PROVE  /\ s \in Int /\ s \in Slots /\ s + 1 \in Slots /\ s \notin Abandoned
             /\ s \in AllocStart .. AllocEnd - 1 /\ s + 1 \in AllocStart .. AllocEnd - 1
             /\ LiveValue(heap[s]) \/ OldValue(heap[s])
             /\ LiveValue(heap[s + 1]) \/ OldValue(heap[s + 1])
             /\ heap[s] # Never /\ name[s] # Unnamed /\ NameAt(s) = name[s]
  <2>1. s \in AllocStart .. AllocEnd - 1 /\ s % 2 = 0 /\ AllocStart \in Nat /\ AllocEnd \in Nat
    BY <1>1, AllocatedFacts
  <2>2. AllocStart % 2 = 0 /\ AllocEnd % 2 = 0
    <3>1. AllocStart % 2 = 0
      BY SpaceFacts DEF AllocStart
    <3>2. allocIdx \in Nat /\ AllocEnd = AllocStart + allocIdx
      BY <1>1, AllocatedFacts DEF TypeOK
    <3>. QED BY <1>1, <2>1, <3>1, <3>2
  <2>3. s + 1 \in AllocStart .. AllocEnd - 1
    BY <2>1, <2>2, Successor
  <2>4. s \in Slots /\ s + 1 \in Slots /\ s \notin Abandoned
    BY <1>1, <2>1, <2>3, AllocatedFacts
  <2>5. /\ LiveValue(heap[s]) \/ OldValue(heap[s])
        /\ LiveValue(heap[s + 1]) \/ OldValue(heap[s + 1])
    BY <1>2, <2>1, <2>3 DEF SlotOK
  <2>6. heap[s] # Never
    BY <2>5, ValueFacts DEF LiveValue, OldValue, LiveRef, OldRef
  <2>. QED BY <1>3, <2>1, <2>3, <2>4, <2>5, <2>6 DEF NameAt
<1>6. ASSUME NEW s \in Waiting
      PROVE  /\ s \in Int /\ s \in Slots /\ s + 1 \in Slots /\ s \in Abandoned
             /\ OldValue(heap[s]) /\ OldValue(heap[s + 1])
             /\ heap[s] # Never /\ name[s] # Unnamed /\ NameAt(s) = name[s]
  <2>1. s \in Abandoned /\ heap[s] # Poison /\ heap[s] # Never
    BY DEF Waiting
  <2>2. s \in Slots /\ s + 1 \in Slots /\ s \in Int
    BY <1>1, <2>1, AbandonedFacts DEF Slots
  <2>3. OldValue(heap[s]) /\ OldValue(heap[s + 1])
    BY <1>2, <2>1 DEF OldCell
  <2>. QED BY <1>3, <2>1, <2>2, <2>3 DEF NameAt
<1>7. ASSUME NEW s \in MovedCells
      PROVE  /\ s \in Slots /\ s + 1 \in Slots /\ s \in Abandoned
             /\ heap[s] = Never /\ LiveRef(heap[s + 1])
             /\ NameAt(s) = name[heap[s + 1].index]
  <2>1. s \in Abandoned /\ heap[s] = Never
    BY DEF MovedCells
  <2>2. s \in Slots /\ s + 1 \in Slots
    BY <1>1, <2>1, AbandonedFacts
  <2>3. LiveRef(heap[s + 1])
    BY <1>2, <2>1, ValueFacts DEF OldCell, OldValue, OldRef
  <2>. QED BY <2>1, <2>2, <2>3 DEF NameAt
<1>8. \A v : OldRef(v) => v.index \in Waiting \cup MovedCells
  BY DEF OldRef, Waiting, MovedCells
<1>. QED BY <1>1, <1>3, <1>4, <1>5, <1>6, <1>7, <1>8 DEF CollectView

(* copy_cons, which may be asked to copy what an allocated slot refers to.   *)
Copies(v) ==
  /\ CopyStep(v) /\ MoveName(v)
  /\ \/ heap' = CopyHeap(v)
     \/ \E t \in AllocStart .. AllocEnd - 1 :
          heap[t] = v /\ OldRef(v) /\ heap' = [CopyHeap(v) EXCEPT ![t] = CopyRef(v)]

LEMMA CopyEffect ==
  ASSUME CollectView, NEW v, Copies(v), NEW c, c = AllocEnd
  PROVE  /\ \A s \in AllocStart .. AllocEnd - 1 :
              heap'[s] = heap[s] \/ (heap[s] = v /\ OldRef(v) /\ heap'[s] = CopyRef(v))
         /\ \A s \in Abandoned : ~(NeedsCopy(v) /\ s = v.index) =>
              heap'[s] = heap[s] /\ heap'[s + 1] = heap[s + 1]
         /\ NeedsCopy(v) =>
              /\ OldRef(v) /\ v.index \in Waiting /\ c \in Slots /\ c + 1 \in Slots
              /\ c \notin Allocated \cup Waiting
              /\ heap'[v.index] = Never /\ heap'[v.index + 1] = NewRef
              /\ NewRef = [index |-> c, tag |-> PairTag] /\ NewRef \in Ref
              /\ heap'[c] = heap[v.index] /\ heap'[c + 1] = heap[v.index + 1]
              /\ name' = [name EXCEPT ![c] = name[v.index], ![v.index] = Unnamed]
              /\ Allocated' = Allocated \cup {c} /\ Waiting' = Waiting \ {v.index}
         /\ ~NeedsCopy(v) => name' = name /\ Allocated' = Allocated /\ Waiting' = Waiting
<1>. DEFINE o == v.index
            Interval == AllocStart .. AllocEnd - 1
<1>1. CopyState /\ CopyStep(v) /\ (v = Never \/ OldRef(v))
  BY DEF CollectView, Copies, CopyStep
<1>2. /\ EvenSpace /\ TypeOK /\ AllocationFits /\ allocIdx % 2 = 0
      /\ Abandoned' = Abandoned
      /\ \A s \in Slots \ Interval : heap'[s] = CopyHeap(v)[s]
      /\ \A d \in Abandoned : d \in Slots /\ d + 1 \in Slots
      /\ \A s \in Interval, d \in Abandoned : s # d /\ s # d + 1
      /\ Interval \subseteq Slots
  BY <1>1, CopyStepFrame, AbandonedFacts, AllocatedFacts DEF CopyState
<1>3. ASSUME NEW s \in Interval
      PROVE  heap'[s] = heap[s] \/ (heap[s] = v /\ OldRef(v) /\ heap'[s] = CopyRef(v))
  <2>1. s \in Slots /\ CopyHeap(v)[s] = heap[s]
    BY <1>1, AllocatedSlots
  <2>2. CopyHeap(v) \in [Slots -> Ref \cup Atoms \cup {Never, Poison}]
    BY <1>1, CopyFacts
  <2>. QED BY <2>1, <2>2 DEF Copies
<1>4. v \notin Atoms
  BY <1>1, ValueFacts DEF OldRef
<1>5. \A s \in Abandoned : heap'[s] = CopyHeap(v)[s] /\ heap'[s + 1] = CopyHeap(v)[s + 1]
  BY <1>2
<1>6. CASE ~NeedsCopy(v)
  <2>1. CopyHeap(v) = heap /\ allocIdx' = allocIdx /\ space' = space
    BY <1>1, <1>6, CopyFacts DEF CopyStep
  <2>2. name' = name
    BY <1>6 DEF Copies, MoveName
  <2>3. Allocated' = Allocated
    BY <2>1 DEF Allocated, AllocEnd, AllocStart, Cells, SpaceSize
  <2>4. Waiting' = Waiting
    BY <1>2, <1>5, <2>1 DEF Waiting
  <2>. QED BY <1>3, <1>5, <1>6, <2>1, <2>2, <2>3, <2>4
<1>7. CASE NeedsCopy(v)
  <2>1. /\ OldRef(v) /\ o \in Abandoned /\ o \notin MovedCells /\ ~IsOutOfMemory
        /\ allocIdx' = allocIdx + 2 /\ space' = space
        /\ CopyHeap(v) = [s \in Slots |->
             IF s = o THEN Never
             ELSE IF s = o + 1 THEN NewRef
             ELSE IF s = c THEN heap[o]
             ELSE IF s = c + 1 THEN heap[o + 1] ELSE heap[s]]
    BY <1>1, <1>7, CopyFacts DEF CopyStep, Car, Cdr
  <2>2. /\ c \in Cells(AllocStart) /\ c \in Slots /\ c + 1 \in Slots
        /\ NewRef \in Ref /\ NewRef = [index |-> c, tag |-> PairTag]
        /\ Allocated' = Allocated \cup {c} /\ c \notin Allocated
    BY <1>2, <2>1, FreshCell, OneMoreCell DEF NewRef
  <2>3. /\ \A d \in Abandoned : c # d /\ c # d + 1 /\ c + 1 # d /\ c + 1 # d + 1
        /\ \A d, e \in Abandoned : d + 1 # e
        /\ c \notin Interval /\ c + 1 \notin Interval /\ c # c + 1 /\ o # o + 1
        /\ \A d \in Abandoned : d + 1 = o + 1 => d = o
    <3>1. /\ \A d \in Abandoned : d \in Int /\ d # d + 1
          /\ c \in Int /\ c # c + 1
      BY <1>2, <2>2 DEF Slots
    <3>2. \A d \in Abandoned : d + 1 = o + 1 => d = o
      BY <2>1, <3>1
    <3>3. c \notin Interval /\ c + 1 \notin Interval
      BY <1>2, <2>2, AllocatedFacts
    <3>. QED BY <1>2, <2>1, <2>2, <3>1, <3>2, <3>3, AbandonedFacts
  <2>4. o \in Waiting /\ c \notin Waiting
    <3>1. heap[o] # Poison /\ heap[o] # Never
      BY <2>1 DEF OldRef, MovedCells
    <3>. QED BY <2>1, <2>3, <3>1 DEF Waiting
  <2>5. /\ heap'[o] = Never /\ heap'[o + 1] = NewRef
        /\ heap'[c] = heap[o] /\ heap'[c + 1] = heap[o + 1]
    <3>1. o \in Slots /\ o + 1 \in Slots /\ o \notin Interval /\ o + 1 \notin Interval
      BY <1>2, <2>1
    <3>2. \A s \in {o, o + 1, c, c + 1} : heap'[s] = CopyHeap(v)[s]
      BY <1>2, <2>2, <2>3, <3>1
    <3>. HIDE DEF o, Interval
    <3>. QED BY <2>1, <2>2, <2>3, <3>1, <3>2
  <2>6. ASSUME NEW s \in Abandoned, s # o
        PROVE  heap'[s] = heap[s] /\ heap'[s + 1] = heap[s + 1]
    <3>1. s # o /\ s # o + 1 /\ s # c /\ s # c + 1 /\ s \in Slots /\ s + 1 \in Slots
      BY <1>2, <2>1, <2>3, <2>6
    <3>2. s + 1 # o /\ s + 1 # o + 1 /\ s + 1 # c /\ s + 1 # c + 1
      BY <2>1, <2>3, <2>6
    <3>. HIDE DEF o, Interval
    <3>. QED BY <1>5, <2>1, <3>1, <3>2
  <2>7. Waiting' = Waiting \ {o}
    <3>. HIDE DEF o, Interval
    <3>. QED BY <1>2, <2>1, <2>5, <2>6 DEF Waiting
  <2>8. name' = [name EXCEPT ![c] = name[o], ![o] = Unnamed]
    BY <1>4, <1>7 DEF Copies, MoveName
  <2>. HIDE DEF Interval
  <2>. QED BY <1>3, <1>7, <2>1, <2>2, <2>4, <2>5, <2>6, <2>7, <2>8 DEF Interval
<1>. QED BY <1>6, <1>7

(* A copy takes the name of its original, and no name is lost.               *)
LEMMA CopiedNames ==
  ASSUME CollectView, NEW v, Copies(v)
  PROVE  /\ NamesOnce' /\ Names' = Names
         /\ \A s \in Slots : name'[s] # Unnamed <=> s \in (Allocated \cup Waiting)'
         /\ \A s \in Allocated : name'[s] = name[s]
         /\ \A s \in Waiting : ~(NeedsCopy(v) /\ s = v.index) => name'[s] = name[s]
<1>. PICK c : c = AllocEnd
  OBVIOUS
<1>. DEFINE o == v.index
<1>1. /\ name \in [Slots -> Ids \cup {Unnamed}]
      /\ \A s, t \in Slots : name[s] # Unnamed /\ name[s] = name[t] => s = t
      /\ \A s \in Slots : name[s] # Unnamed <=> s \in Allocated \cup Waiting
  BY DEF CollectView, NamesOnce
<1>2. CASE ~NeedsCopy(v)
  <2>1. name' = name /\ Allocated' = Allocated /\ Waiting' = Waiting
    BY <1>2, CopyEffect
  <2>. QED BY <1>1, <2>1 DEF NamesOnce, Names, Slots, Ids, Capacity, SpaceSize
<1>3. CASE NeedsCopy(v)
  <2>1. /\ o \in Waiting /\ c \in Slots /\ c \notin Allocated \cup Waiting
        /\ name' = [name EXCEPT ![c] = name[o], ![o] = Unnamed]
        /\ Allocated' = Allocated \cup {c} /\ Waiting' = Waiting \ {o}
    BY <1>3, CopyEffect
  <2>2. o \in Slots /\ o # c /\ o \notin Allocated /\ name[o] # Unnamed /\ name[c] = Unnamed
        /\ name[o] \in Ids
    BY <1>1, <2>1 DEF CollectView
  <2>. HIDE DEF o
  <2>3. \A s \in Slots : name'[s] = IF s = o THEN Unnamed ELSE IF s = c THEN name[o] ELSE name[s]
    BY <1>1, <2>1, <2>2
  <2>4. name' \in [Slots -> Ids \cup {Unnamed}]
    BY <1>1, <2>1, <2>2
  <2>5. \A s, t \in Slots : name'[s] # Unnamed /\ name'[s] = name'[t] => s = t
    BY <1>1, <2>2, <2>3
  <2>6. NamesOnce'
    BY <2>4, <2>5 DEF NamesOnce, Slots, Ids, Capacity, SpaceSize
  <2>7. Names' = Names
    <3>1. {name'[s] : s \in Slots} \ {Unnamed} = {name[s] : s \in Slots} \ {Unnamed}
      BY <2>1, <2>2, <2>3
    <3>. QED BY <3>1 DEF Names, Slots
  <2>8. \A s \in Slots : name'[s] # Unnamed <=> s \in (Allocated \cup Waiting)'
    BY <1>1, <2>1, <2>2, <2>3
  <2>9. \A s \in Allocated \cup Waiting : s \in Slots
    BY DEF CollectView
  <2>10. \A s \in Allocated \cup Waiting : s # o => name'[s] = name[s]
    BY <2>1, <2>3, <2>9
  <2>. QED BY <1>3, <2>2, <2>6, <2>7, <2>8, <2>10 DEF o
<1>. QED BY <1>2, <1>3

(* Every value of the heap stands for the same object after the copy, and    *)
(* the reference to the copy for what the reference to the original did.     *)
LEMMA CopiedValues ==
  ASSUME CollectView, NEW v, Copies(v), NEW w, w = CopyRef(v)
  PROVE  /\ \A x : Known(x) => Resolve(x)' = Resolve(x)
         /\ Resolve(w)' = Resolve(v)
<1>. PICK c : c = AllocEnd
  OBVIOUS
<1>. DEFINE o == v.index
<1>1. CopyState /\ CopyStep(v) /\ (v = Never \/ OldRef(v))
  BY DEF CollectView, Copies, CopyStep
<1>2. v # Never => w # Never
  BY <1>1, CopiedRefIsLive, ValueFacts
<1>3. ASSUME NEW s \in Allocated
      PROVE  heap'[s] # Never /\ NameAt(s)' = NameAt(s) /\ NameAt(s) = name[s]
  <2>1. s \in AllocStart .. AllocEnd - 1 /\ heap[s] # Never /\ NameAt(s) = name[s]
    BY DEF CollectView
  <2>2. heap'[s] = heap[s] \/ (heap[s] = v /\ OldRef(v) /\ heap'[s] = CopyRef(v))
    BY <2>1, CopyEffect
  <2>3. heap'[s] # Never
    BY <1>2, <2>1, <2>2
  <2>4. name'[s] = name[s]
    BY CopiedNames
  <2>. QED BY <2>1, <2>3, <2>4 DEF NameAt
<1>4. ASSUME NEW s \in Waiting, ~(NeedsCopy(v) /\ s = o)
      PROVE  NameAt(s)' = NameAt(s)
  <2>1. s \in Abandoned /\ heap[s] # Never /\ NameAt(s) = name[s]
    BY DEF CollectView
  <2>2. heap'[s] = heap[s] /\ name'[s] = name[s]
    BY <1>4, <2>1, CopyEffect, CopiedNames
  <2>. QED BY <2>1, <2>2 DEF NameAt
<1>5. ASSUME NEW s \in MovedCells
      PROVE  NameAt(s)' = NameAt(s)
  <2>1. s \in Abandoned /\ heap[s] = Never /\ LiveRef(heap[s + 1])
    BY DEF CollectView
  <2>2. ~(NeedsCopy(v) /\ s = o)
    <3>1. NeedsCopy(v) => heap[o] # Never
      BY DEF NeedsCopy, Moved, Car
    <3>. QED BY <2>1, <3>1
  <2>3. heap'[s] = heap[s] /\ heap'[s + 1] = heap[s + 1]
    BY <2>1, <2>2, CopyEffect
  <2>4. heap[s + 1].index \in Allocated
    BY <2>1 DEF LiveRef
  <2>5. name'[heap[s + 1].index] = name[heap[s + 1].index]
    BY <2>4, CopiedNames
  <2>. QED BY <2>1, <2>3, <2>5 DEF NameAt
<1>6. ASSUME NeedsCopy(v)
      PROVE  NameAt(o)' = NameAt(o) /\ NameAt(c)' = NameAt(o)
  <2>1. /\ o \in Waiting /\ c \in Slots /\ c \notin Allocated \cup Waiting
        /\ heap'[o] = Never /\ heap'[o + 1] = NewRef
        /\ NewRef = [index |-> c, tag |-> PairTag]
        /\ heap'[c] = heap[o]
        /\ name' = [name EXCEPT ![c] = name[o], ![o] = Unnamed]
    BY <1>6, CopyEffect
  <2>2. heap[o] # Never /\ NameAt(o) = name[o] /\ o # c
    BY <2>1 DEF CollectView
  <2>3. name'[c] = name[o]
    BY <2>1, <2>2 DEF CollectView, NamesOnce
  <2>4. NewRef.index = c
    BY <2>1
  <2>. QED BY <2>1, <2>2, <2>3, <2>4 DEF NameAt
<1>7. ASSUME NEW x, Known(x)
      PROVE  Resolve(x)' = Resolve(x)
  <2>1. CASE x \in Atoms \/ x = Never
    BY <2>1 DEF Resolve
  <2>2. CASE LiveRef(x)
    <3>1. x.index \in Allocated
      BY <2>2 DEF LiveRef
    <3>2. NameAt(x.index)' = NameAt(x.index)
      BY <1>3, <3>1
    <3>. QED BY <3>2 DEF Resolve
  <2>3. CASE OldRef(x)
    <3>1. x.index \in Waiting \cup MovedCells
      BY <2>3 DEF CollectView
    <3>2. NameAt(x.index)' = NameAt(x.index)
      BY <1>4, <1>5, <1>6, <3>1
    <3>. QED BY <3>2 DEF Resolve
  <2>. QED BY <1>7, <2>1, <2>2, <2>3 DEF Known
<1>8. Resolve(w)' = Resolve(v)
  <2>1. CASE v = Never
    <3>1. w = Never
      BY <2>1 DEF CopyRef
    <3>. QED BY <2>1, <3>1 DEF Resolve
  <2>2. CASE OldRef(v) /\ NeedsCopy(v)
    <3>1. v \in Ref /\ NewRef \in Ref /\ NewRef.index = c /\ v # Never /\ v \notin Atoms /\ v.tag \in Tags
      <4>1. NewRef \in Ref /\ NewRef = [index |-> c, tag |-> PairTag]
        BY <2>2, CopyEffect
      <4>2. v \in Ref /\ v # Never /\ v \notin Atoms /\ v.tag \in Tags
        BY <2>2, ValueFacts DEF OldRef
      <4>. QED BY <4>1, <4>2
    <3>2. w = SetTag(NewRef, v.tag)
      BY <2>2, <3>1 DEF CopyRef, NeedsCopy
    <3>3. w \in Ref /\ w.index = c /\ w.tag = v.tag
      BY <3>1, <3>2, SetTagFacts, ValueFacts DEF SetTag, Ref
    <3>4. w \notin Atoms /\ w # Never
      BY <3>3, ValueFacts
    <3>5. NameAt(w.index)' = NameAt(o)
      BY <1>6, <2>2, <3>3
    <3>. QED BY <3>1, <3>3, <3>4, <3>5 DEF Resolve
  <2>3. CASE OldRef(v) /\ ~NeedsCopy(v)
    <3>1. v \in Ref /\ v # Never /\ v \notin Atoms /\ v.tag \in Tags /\ o \in Abandoned
      BY <2>3, ValueFacts DEF OldRef
    <3>2. heap[o] = Never /\ o \in MovedCells
      BY <2>3, <3>1 DEF NeedsCopy, Moved, Car, MovedCells
    <3>. DEFINE u == heap[o + 1]
    <3>3. LiveRef(u) /\ NameAt(o) = name[u.index]
      BY <3>2 DEF CollectView
    <3>4. u \in Ref /\ u.index \in Allocated /\ w = SetTag(u, v.tag)
      BY <2>3, <3>1, <3>2, <3>3 DEF LiveRef, CopyRef, Moved, Car, Cdr
    <3>5. w \in Ref /\ w.index = u.index /\ w.tag = v.tag
      BY <3>1, <3>4, SetTagFacts, ValueFacts DEF SetTag, Ref
    <3>6. w \notin Atoms /\ w # Never
      BY <3>5, ValueFacts
    <3>7. NameAt(w.index)' = NameAt(o)
      BY <1>3, <3>3, <3>4, <3>5
    <3>. QED BY <3>1, <3>5, <3>6, <3>7 DEF Resolve
  <2>. QED BY <1>1, <2>1, <2>2, <2>3
<1>. QED BY <1>7, <1>8

LEMMA CopiedObjects ==
  ASSUME CollectView, NEW v, Copies(v)
  PROVE  Objects' = Objects
<1>. PICK c : c = AllocEnd
  OBVIOUS
<1>. PICK w : w = CopyRef(v)
  OBVIOUS
<1>1. NamedCells /\ NamedCells' /\ Names' = Names
  <2>1. NamesOnce'
    BY CopiedNames
  <2>2. NamedCells'
    BY <2>1, NamesTell, PTL
  <2>. QED BY <2>2, CopiedNames DEF CollectView
<1>2. \A x : Known(x) => Resolve(x)' = Resolve(x)
  BY CopiedValues
<1>3. Resolve(w)' = Resolve(v)
  BY CopiedValues
<1>4. ASSUME NEW p, NEW q, heap'[p] = heap[q], Known(heap[q])
      PROVE  Resolve(heap[p])' = Resolve(heap[q])
  <2>1. PICK x : x = heap[q]
    OBVIOUS
  <2>2. Resolve(heap[p])' = Resolve(x)'
    BY <1>4, <2>1 DEF Resolve, NameAt
  <2>. QED BY <1>2, <1>4, <2>1, <2>2
<1>5. ASSUME NEW q, heap'[q] = CopyRef(v), heap[q] = v
      PROVE  Resolve(heap[q])' = Resolve(heap[q])
  <2>1. Resolve(heap[q])' = Resolve(w)'
    BY <1>5 DEF Resolve, NameAt
  <2>. QED BY <1>3, <1>5, <2>1
<1>6. ASSUME NEW i \in Names
      PROVE  Objects'[i] = Objects[i]
  <2>1. PICK s \in Slots : name[s] = i /\ i # Unnamed
    BY <1>1 DEF NamedCells
  <2>2. s \in Allocated \cup Waiting
    BY <2>1 DEF CollectView
  <2>3. Objects[i] = [f \in {0, 1} |-> Resolve(heap[s + f])]
    BY <1>1, <2>1 DEF NamedCells
  <2>4. /\ s \in Int /\ s + 0 = s /\ Known(heap[s]) /\ Known(heap[s + 1])
        /\ \A f \in {0, 1} : f = 0 \/ f = 1
    <3>1. s \in Int /\ Known(heap[s]) /\ Known(heap[s + 1])
      BY <2>2 DEF CollectView, Known, LiveValue, OldValue
    <3>. QED BY <3>1
  <2>5. CASE NeedsCopy(v) /\ s = v.index
    <3>1. /\ s \in Waiting /\ c \in Slots /\ c \notin Allocated \cup Waiting
          /\ heap'[c] = heap[s] /\ heap'[c + 1] = heap[s + 1]
          /\ name' = [name EXCEPT ![c] = name[s], ![s] = Unnamed]
      BY <2>5, CopyEffect
    <3>2. name'[c] = i /\ c + 0 = c
      <4>1. s # c
        BY <3>1
      <4>2. name \in [Slots -> Ids \cup {Unnamed}]
        BY DEF CollectView, NamesOnce
      <4>3. name'[c] = i
        BY <2>1, <3>1, <4>1, <4>2
      <4>. QED BY <3>1, <4>3 DEF Slots
    <3>3. Objects'[i] = [f \in {0, 1} |-> Resolve(heap[c + f])']
      <4>1. \A q \in Slots : name'[q] # Unnamed =>
              Objects'[name'[q]] = [f \in {0, 1} |-> Resolve(heap[q + f])']
        BY <1>1 DEF NamedCells, Slots
      <4>. QED BY <2>1, <3>1, <3>2, <4>1
    <3>4. \A f \in {0, 1} : Resolve(heap[c + f])' = Resolve(heap[s + f])
      <4>1. ASSUME NEW f \in {0, 1} PROVE Resolve(heap[c + f])' = Resolve(heap[s + f])
        <5>1. heap'[c + f] = heap[s + f] /\ Known(heap[s + f])
          BY <2>4, <3>1, <3>2
        <5>. QED BY <1>4, <5>1
      <4>. QED BY <4>1
    <3>. QED BY <2>3, <3>3, <3>4
  <2>6. CASE ~(NeedsCopy(v) /\ s = v.index)
    <3>1. name'[s] = i
      BY <2>1, <2>2, <2>6, CopiedNames
    <3>2. Objects'[i] = [f \in {0, 1} |-> Resolve(heap[s + f])']
      <4>1. \A q \in Slots : name'[q] # Unnamed =>
              Objects'[name'[q]] = [f \in {0, 1} |-> Resolve(heap[q + f])']
        BY <1>1 DEF NamedCells, Slots
      <4>. QED BY <2>1, <3>1, <4>1
    <3>3. \A f \in {0, 1} : Resolve(heap[s + f])' = Resolve(heap[s + f])
      <4>1. ASSUME NEW f \in {0, 1} PROVE Resolve(heap[s + f])' = Resolve(heap[s + f])
        <5>1. \/ heap'[s + f] = heap[s + f]
              \/ heap'[s + f] = CopyRef(v) /\ heap[s + f] = v
          <6>1. CASE s \in Allocated
            <7>1. s + f \in AllocStart .. AllocEnd - 1
              BY <2>4, <6>1 DEF CollectView
            <7>. QED BY <7>1, CopyEffect
          <6>2. CASE s \in Waiting
            <7>1. s \in Abandoned
              BY <6>2 DEF Waiting
            <7>2. heap'[s] = heap[s] /\ heap'[s + 1] = heap[s + 1]
              BY <2>6, <7>1, CopyEffect
            <7>. QED BY <2>4, <7>2
          <6>. QED BY <2>2, <6>1, <6>2
        <5>2. Known(heap[s + f])
          BY <2>4
        <5>. QED BY <1>4, <1>5, <5>1, <5>2
      <4>. QED BY <4>1
    <3>. QED BY <2>3, <3>2, <3>3
  <2>. QED BY <2>5, <2>6
<1>7. Objects = [i \in Names |-> Objects[i]] /\ Objects' = [i \in Names' |-> Objects'[i]]
  BY DEF Objects
<1>. QED BY <1>1, <1>6, <1>7

LEMMA ReachableFacts ==
  /\ Promise!Anchors \cap DOMAIN Objects \subseteq Promise!Reachable
  /\ \A i \in Promise!Reachable :
       Promise!References(Promise!Fields(i)) \cap DOMAIN Objects \subseteq Promise!Reachable
  /\ \A S \in SUBSET DOMAIN Objects : Promise!Closed(S) => Promise!Reachable \subseteq S
BY DEF Promise!Reachable, Promise!Closed

(* What Store reaches is the same when its objects and roots are.            *)
LEMMA SameReachable ==
  ASSUME Objects' = Objects, ObjectRoots' = ObjectRoots
  PROVE  /\ Promise!Reachable' = Promise!Reachable
         /\ Promise!Full' = Promise!Full
<1>1. Promise!Full' = Promise!Full
  BY DEF Promise!Full, Capacity, SpaceSize
<1>2. Promise!Anchors' = Promise!Anchors /\ \A i : Promise!Fields(i)' = Promise!Fields(i)
  BY DEF Promise!Anchors, Promise!Fields, Promise!References, Promise!Roots, Promise!Never
<1>3. \A S : Promise!Closed(S)' <=> Promise!Closed(S)
  BY <1>2 DEF Promise!Closed, Promise!References, Promise!Never
<1>. QED BY <1>1, <1>3 DEF Promise!Reachable

LEMMA CopyingMaps ==
  ASSUME EvenSpace, HeapInvariant, Naming, CollectView, Collecting, Collecting',
         NEW v, Copies(v), UNCHANGED <<held, pushing>>, ObjectRoots' = ObjectRoots,
         NeedsCopy(v) => name[v.index] \in Promise!Reachable
  PROVE  Naming' /\ Unseen
<1>. PICK c : c = AllocEnd
  OBVIOUS
<1>1. Objects' = Objects
  BY CopiedObjects
<1>2. /\ Promise!Reachable' = Promise!Reachable /\ Promise!Full' = Promise!Full
  BY <1>1, SameReachable
<1>3. held = {}
  BY DEF Naming, LocalsLeft, Collecting
<1>4. Unseen
  <2>1. ObjectsHeld' = ObjectsHeld
    BY <1>3 DEF ObjectsHeld
  <2>2. StoreMode' = StoreMode
    BY DEF StoreMode, Collecting
  <2>. QED BY <1>1, <2>1, <2>2 DEF Unseen
<1>5. NamesOnce'
  BY CopiedNames
<1>6. NamesGiven'
  <2>1. \A s \in Slots : name'[s] # Unnamed <=> s \in (Allocated \cup Waiting)'
    BY CopiedNames
  <2>. QED BY <2>1 DEF NamesGiven, Settled, Collecting, Slots
<1>7. ASSUME NEW s \in Allocated'
      PROVE  name'[s] \in Promise!Reachable
  <2>1. CASE s \in Allocated
    BY <2>1, CopiedNames DEF Naming, CollectionDue
  <2>2. CASE s \notin Allocated
    <3>1. NeedsCopy(v) /\ s = c
      BY <1>7, <2>2, CopyEffect
    <3>2. /\ v.index \in Waiting /\ c \in Slots /\ c \notin Allocated \cup Waiting
          /\ name' = [name EXCEPT ![c] = name[v.index], ![v.index] = Unnamed]
      BY <3>1, CopyEffect
    <3>3. v.index # c
      BY <3>2
    <3>4. name'[c] = name[v.index]
      BY <3>2, <3>3 DEF CollectView, NamesOnce
    <3>. QED BY <3>1, <3>4
  <2>. QED BY <2>1, <2>2
<1>8. CollectionDue'
  BY <1>2, <1>7 DEF Naming, CollectionDue
<1>9. LocalsLeft'
  BY <1>3, FS_EmptySet DEF LocalsLeft
<1>. QED BY <1>4, <1>5, <1>6, <1>8, <1>9 DEF Naming

(* A root that is copied keeps what it reaches reachable.                    *)
LEMMA RootsCopied ==
  ASSUME EvenSpace, HeapInvariant, Naming, CopyRoot, MoveName(roots[cursor])
  PROVE  Naming' /\ Unseen
<1>. PICK v : v = roots[cursor]
  OBVIOUS
<1>1. /\ pc = "roots" /\ Collecting /\ CopyState /\ cursor \in Roots
      /\ v = Never \/ OldRef(v)
      /\ roots \in [Roots -> Ref \cup {Never}]
  BY DEF HeapInvariant, HalfCopied, Collecting, CopyRoot, CopyState, CursorOK, RootOK,
         TypeOK, Roots
<1>2. ~CopyFails(v)
  BY <1>1, CopyFacts
<1>3. /\ heap' = CopyHeap(v) /\ allocIdx' = CopyAlloc(v)
      /\ roots' = [roots EXCEPT ![cursor] = CopyRef(v)]
      /\ pc' \in {"roots", "scan"} /\ UNCHANGED <<space, held, pushing>>
  BY <1>2 DEF CopyRoot
<1>4. Copies(v) /\ CollectView
  BY <1>1, <1>3, CollectingTells DEF Copies, CopyStep
<1>5. ObjectRoots' = ObjectRoots
  <2>1. ASSUME NEW r \in Roots PROVE Resolve(roots[r])' = Resolve(roots[r])
    <3>1. PICK x : x = roots'[r]
      OBVIOUS
    <3>2. Resolve(roots[r])' = Resolve(x)'
      BY <3>1 DEF Resolve, NameAt
    <3>3. CASE r = cursor
      <4>1. x = CopyRef(v)
        BY <1>1, <1>3, <3>1, <3>3
      <4>. QED BY <1>4, <3>2, <3>3, <4>1, CopiedValues
    <3>4. CASE r # cursor
      <4>1. x = roots[r] /\ Known(x)
        BY <1>1, <1>3, <1>4, <3>1, <3>4 DEF CollectView, Known
      <4>2. \E w : w = CopyRef(v)
        OBVIOUS
      <4>3. Resolve(x)' = Resolve(x)
        BY <1>4, <4>1, <4>2, CopiedValues
      <4>. QED BY <3>2, <4>1, <4>3
    <3>. QED BY <3>3, <3>4
  <2>2. ObjectRoots' = [r \in Roots |-> Resolve(roots[r])']
    BY DEF ObjectRoots, Roots
  <2>. QED BY <2>1, <2>2 DEF ObjectRoots
<1>6. ASSUME NeedsCopy(v)
      PROVE  name[v.index] \in Promise!Reachable
  <2>1. v.index \in Waiting /\ OldRef(v)
    BY <1>4, <1>6, CopyEffect
  <2>2. /\ NameAt(v.index) = name[v.index] /\ name[v.index] # Unnamed /\ v.index \in Slots
        /\ v \notin Atoms /\ v # Never
    BY <1>4, <2>1, ValueFacts DEF CollectView, OldRef
  <2>3. name[v.index] \in DOMAIN Objects /\ name[v.index] \in Ids
    BY <1>4, <2>2 DEF CollectView, NamedCells
  <2>4. ObjectRoots[cursor] = [index |-> name[v.index], tag |-> v.tag]
    BY <1>1, <2>2 DEF ObjectRoots, Resolve
  <2>5. ObjectRoots[cursor] # Never /\ ObjectRoots[cursor] \notin Atoms
    <3>1. name[v.index] \in Nat /\ v.tag \in Tags
      BY <2>1, <2>3, CapacityIs, ValueFacts DEF Ids, OldRef
    <3>2. ObjectRoots[cursor] \in Ref
      BY <2>4, <3>1 DEF Ref
    <3>. QED BY <3>2, ValueFacts
  <2>6. name[v.index] \in Promise!Anchors
    BY <1>1, <2>4, <2>5, NeverIs DEF Promise!Anchors, Promise!References, Promise!Roots, Roots
  <2>. QED BY <2>3, <2>6, ReachableFacts
<1>7. Collecting'
  BY <1>3 DEF Collecting
<1>. QED BY <1>1, <1>3, <1>4, <1>5, <1>6, <1>7, CopyingMaps

LEMMA Predecessor ==
  ASSUME NEW a \in Nat, NEW s \in Nat, a % 2 = 0, s % 2 # 0, a <= s
  PROVE  s - 1 \in Nat /\ (s - 1) % 2 = 0 /\ a <= s - 1 /\ (s - 1) + 1 = s
OBVIOUS

(* The slot that is scanned is a field of an allocated cell.                 *)
LEMMA SlotOfCell ==
  ASSUME CopyState, NEW s \in AllocStart .. AllocEnd - 1
  PROVE  \E d \in Allocated, f \in {0, 1} : s = d + f
<1>1. /\ AllocStart \in Nat /\ AllocEnd \in Nat /\ AllocStart % 2 = 0
      /\ Allocated = {d \in AllocStart .. AllocEnd - 1 : d % 2 = 0}
  BY SpaceFacts, AllocatedFacts DEF CopyState, AllocStart
<1>2. CASE s % 2 = 0
  <2>1. s \in Allocated /\ s = s + 0
    BY <1>1, <1>2
  <2>. QED BY <2>1
<1>3. CASE s % 2 # 0
  <2>1. s - 1 \in Nat /\ (s - 1) % 2 = 0 /\ AllocStart <= s - 1 /\ (s - 1) + 1 = s
    BY <1>1, <1>3, Predecessor
  <2>2. s - 1 \in Allocated
    BY <1>1, <2>1
  <2>. QED BY <2>1, <2>2
<1>. QED BY <1>2, <1>3

LEMMA SlotsCopied ==
  ASSUME EvenSpace, HeapInvariant, Naming, ScanSlot, MoveName(heap[cursor])
  PROVE  Naming' /\ Unseen
<1>. PICK v : v = heap[cursor]
  OBVIOUS
<1>1. /\ pc = "scan" /\ Collecting /\ CopyState /\ cursor \in AllocStart .. AllocEnd - 1
      /\ OldValue(v) /\ CollectView
  <2>1. /\ pc = "scan" /\ Collecting /\ CopyState /\ cursor < AllocEnd
        /\ cursor \in AllocStart .. AllocEnd
    BY DEF HeapInvariant, HalfCopied, Collecting, ScanSlot, CopyState, CursorOK
  <2>2. cursor \in AllocStart .. AllocEnd - 1 /\ ~(cursor < cursor)
    BY <2>1, AllocatedFacts DEF CopyState
  <2>3. OldValue(v)
    BY <2>1, <2>2 DEF HeapInvariant, HalfCopied, SlotOK
  <2>. QED BY <2>1, <2>2, <2>3, CollectingTells
<1>2. CASE v \in Atoms
  <2>1. /\ UNCHANGED <<heap, allocIdx, space, roots, held, pushing, pc, name>>
    BY <1>2 DEF ScanSlot, MoveName
  <2>2. Objects' = Objects /\ ObjectRoots' = ObjectRoots /\ ObjectsHeld' = ObjectsHeld
    BY <2>1, SameObjects DEF ObjectRoots, ObjectsHeld, Resolve, NameAt, Roots
  <2>3. Unseen
    BY <2>1, <2>2 DEF Unseen, StoreMode, Collecting
  <2>4. Allocated' = Allocated /\ Waiting' = Waiting
    BY <2>1 DEF Allocated, Waiting, Abandoned, AllocEnd, AllocStart, Cells, SpaceSize
  <2>5. NamesOnce' /\ NamesGiven' /\ LocalsLeft'
    BY <2>1, <2>4 DEF Naming, NamesOnce, NamesGiven, LocalsLeft, Settled, Collecting, Slots,
                      Ids, Capacity, SpaceSize
  <2>6. CollectionDue'
    BY <2>1, <2>2, <2>4, SameReachable DEF Naming, CollectionDue, Collecting
  <2>. QED BY <2>3, <2>5, <2>6 DEF Naming
<1>3. CASE v \notin Atoms
  <2>1. OldRef(v)
    BY <1>1, <1>3 DEF OldValue
  <2>2. ~CopyFails(v)
    BY <1>1, <2>1, CopyFacts
  <2>3. /\ heap' = [CopyHeap(v) EXCEPT ![cursor] = CopyRef(v)] /\ allocIdx' = CopyAlloc(v)
        /\ UNCHANGED <<space, roots, held, pushing, pc>>
    BY <1>3, <2>2 DEF ScanSlot
  <2>4. Copies(v)
    BY <1>1, <2>1, <2>3 DEF Copies, CopyStep
  <2>5. ObjectRoots' = ObjectRoots
    <3>1. ASSUME NEW r \in Roots PROVE Resolve(roots[r])' = Resolve(roots[r])
      <4>1. PICK x : x = roots[r]
        OBVIOUS
      <4>2. Resolve(roots[r])' = Resolve(x)'
        BY <2>3, <4>1 DEF Resolve, NameAt
      <4>3. Known(x) /\ \E w : w = CopyRef(v)
        BY <1>1, <4>1 DEF CollectView, Known
      <4>4. Resolve(x)' = Resolve(x)
        BY <1>1, <2>4, <4>3, CopiedValues
      <4>. QED BY <4>1, <4>2, <4>4
    <3>2. ObjectRoots' = [r \in Roots |-> Resolve(roots[r])']
      BY DEF ObjectRoots, Roots
    <3>. QED BY <3>1, <3>2 DEF ObjectRoots
  <2>6. ASSUME NeedsCopy(v)
        PROVE  name[v.index] \in Promise!Reachable
    <3>1. /\ v.index \in Waiting /\ NameAt(v.index) = name[v.index] /\ name[v.index] # Unnamed
          /\ v.index \in Slots /\ v \notin Atoms /\ v # Never
      BY <1>1, <2>1, <2>4, <2>6, CopyEffect, ValueFacts DEF CollectView, OldRef
    <3>2. name[v.index] \in DOMAIN Objects /\ name[v.index] \in Ids
      BY <1>1, <3>1 DEF CollectView, NamedCells
    <3>3. PICK d \in Allocated, f \in {0, 1} : cursor = d + f
      BY <1>1, SlotOfCell
    <3>4. /\ name[d] \in Promise!Reachable
          /\ Objects[name[d]] = [e \in {0, 1} |-> Resolve(heap[d + e])]
      BY <1>1 DEF CollectView, NamedCells, Naming, CollectionDue
    <3>5. Objects[name[d]][f] = [index |-> name[v.index], tag |-> v.tag]
      BY <3>1, <3>3, <3>4 DEF Resolve
    <3>6. Objects[name[d]][f] # Never /\ Objects[name[d]][f] \notin Atoms
      <4>1. name[v.index] \in Nat /\ v.tag \in Tags
        BY <2>1, <3>2, CapacityIs, ValueFacts DEF Ids, OldRef
      <4>2. Objects[name[d]][f] \in Ref
        BY <3>5, <4>1 DEF Ref
      <4>. QED BY <4>2, ValueFacts
    <3>7. Objects[name[d]][f] \in Promise!Fields(name[d])
      BY DEF Promise!Fields
    <3>8. name[v.index] \in Promise!References(Promise!Fields(name[d]))
      BY <3>5, <3>6, <3>7, NeverIs DEF Promise!References
    <3>. QED BY <3>2, <3>4, <3>8, ReachableFacts
  <2>7. Collecting'
    BY <1>1, <2>3 DEF Collecting
  <2>. QED BY <1>1, <2>3, <2>4, <2>5, <2>6, <2>7, CopyingMaps
<1>. QED BY <1>2, <1>3

(* When the scan is over, the copies are what the roots reach.               *)
Scanned ==
  /\ \A r \in Roots : roots[r] = Never \/ LiveRef(roots[r])
  /\ \A s \in Allocated : LiveValue(heap[s]) /\ LiveValue(heap[s + 1])

LEMMA CopiesAreReachable ==
  ASSUME EvenSpace, Naming, CollectView, Collecting, Scanned
  PROVE  Promise!Reachable = {name[s] : s \in Allocated}
<1>. DEFINE S == {name[s] : s \in Allocated}
<1>1. S \subseteq Promise!Reachable
  BY DEF Naming, CollectionDue
<1>2. S \in SUBSET DOMAIN Objects
  <2>1. /\ NamedCells /\ \A s \in Allocated : s \in Slots /\ name[s] # Unnamed
    BY DEF CollectView
  <2>. QED BY <2>1 DEF NamedCells
<1>3. ASSUME NEW v, v = Never \/ LiveValue(v)
      PROVE  Promise!References({Resolve(v)}) \subseteq S
  <2>1. CASE v = Never \/ v \in Atoms
    <3>1. Resolve(v) = v
      BY <2>1 DEF Resolve
    <3>. QED BY <2>1, <3>1, NeverIs DEF Promise!References
  <2>2. CASE v # Never /\ v \notin Atoms
    <3>1. v.index \in Allocated
      BY <1>3, <2>2 DEF LiveValue, LiveRef
    <3>2. Resolve(v) = [index |-> name[v.index], tag |-> v.tag]
      BY <2>2, <3>1 DEF CollectView, Resolve
    <3>3. Resolve(v).index = name[v.index]
      BY <3>2
    <3>. QED BY <3>1, <3>3 DEF Promise!References
  <2>. QED BY <2>1, <2>2
<1>4. Promise!Closed(S)
  <2>1. Promise!Anchors \subseteq S
    <3>1. ASSUME NEW r \in Promise!Roots
          PROVE  Promise!References({ObjectRoots[r]}) \subseteq S
      <4>1. r \in Roots
        BY DEF Promise!Roots, Roots
      <4>2. roots[r] = Never \/ LiveValue(roots[r])
        BY <4>1 DEF Scanned, LiveValue
      <4>3. ObjectRoots[r] = Resolve(roots[r])
        BY <4>1 DEF ObjectRoots
      <4>. HIDE DEF S
      <4>. QED BY <1>3, <4>2, <4>3
    <3>. HIDE DEF S
    <3>. QED BY <3>1 DEF Promise!Anchors, Promise!References
  <2>2. ASSUME NEW s \in Allocated
        PROVE  Promise!References(Promise!Fields(name[s])) \subseteq S
    <3>1. Objects[name[s]] = [f \in {0, 1} |-> Resolve(heap[s + f])] /\ s + 0 = s
      BY DEF CollectView, NamedCells
    <3>2. Promise!Fields(name[s]) = {Resolve(heap[s]), Resolve(heap[s + 1])}
      BY <3>1 DEF Promise!Fields
    <3>3. /\ Promise!References({Resolve(heap[s])}) \subseteq S
          /\ Promise!References({Resolve(heap[s + 1])}) \subseteq S
      <4>. HIDE DEF S
      <4>. QED BY <1>3 DEF Scanned
    <3>. HIDE DEF S
    <3>. QED BY <3>2, <3>3 DEF Promise!References
  <2>. QED BY <2>1, <2>2 DEF Promise!Closed
<1>5. Promise!Reachable \subseteq S
  <2>. HIDE DEF S
  <2>. QED BY <1>2, <1>4, ReachableFacts
<1>. QED BY <1>1, <1>5

LEMMA CollectionMaps ==
  ASSUME EvenSpace, HeapInvariant, HeapInvariant', Naming, FinishCollection,
         name' = [s \in Slots |-> IF s \in AllocStart .. AllocEnd - 1 THEN name[s] ELSE Unnamed]
  PROVE  Naming' /\ Promise!Next
<1>. DEFINE Interval == AllocStart .. AllocEnd - 1
<1>1. /\ pc = "scan" /\ Collecting /\ cursor >= AllocEnd /\ UNCHANGED <<allocIdx, space>>
      /\ heap' = [s \in Slots |-> IF s \in Interval THEN heap[s] ELSE Poison]
      /\ Return(roots[Result], pushing)
  BY DEF FinishCollection, Collecting
<1>2. CollectView /\ CopyState
  BY <1>1, CollectingTells DEF CollectView
<1>3. Scanned
  <2>1. \A s \in Interval : s < cursor
    <3>1. AllocEnd \in Nat /\ cursor \in Nat
      BY <1>2, AllocatedFacts DEF CopyState, TypeOK
    <3>. QED BY <1>1, <3>1
  <2>2. \A s \in Interval : LiveValue(heap[s])
    BY <1>1, <2>1 DEF HeapInvariant, HalfCopied, SlotOK
  <2>3. \A r \in Roots : roots[r] = Never \/ LiveRef(roots[r])
    BY <1>1 DEF HeapInvariant, HalfCopied, RootOK
  <2>. QED BY <1>2, <2>2, <2>3 DEF Scanned, CollectView
<1>4. Allocated' = Allocated
  BY <1>1 DEF Allocated, AllocEnd, AllocStart, Cells, SpaceSize
<1>5. /\ Interval \subseteq Slots /\ \A s \in Allocated : s \in Interval /\ s + 1 \in Interval
      /\ \A s \in Interval : s \notin Waiting
  <2>1. \A s \in Interval, d \in Abandoned : s # d
    BY <1>2, AllocatedFacts DEF CopyState
  <2>2. Interval \subseteq Slots
    BY <1>2, AllocatedFacts DEF CopyState
  <2>. QED BY <1>2, <2>1, <2>2 DEF CollectView, Waiting
<1>6. /\ \A s \in Allocated : name'[s] = name[s] /\ heap'[s] = heap[s] /\ heap'[s + 1] = heap[s + 1]
      /\ \A s \in Slots : name'[s] # Unnamed <=> s \in Allocated
      /\ \A s \in Slots : name'[s] \in {name[s], Unnamed}
      /\ \A s \in Allocated : s \in Slots
  <2>. HIDE DEF Interval
  <2>1. name' = [s \in Slots |-> IF s \in Interval THEN name[s] ELSE Unnamed]
    BY DEF Interval
  <2>. QED BY <1>1, <1>2, <1>5, <2>1 DEF CollectView
<1>7. NamesOnce'
  <2>1. /\ name \in [Slots -> Ids \cup {Unnamed}]
        /\ \A s, t \in Slots : name[s] # Unnamed /\ name[s] = name[t] => s = t
    BY <1>2 DEF CollectView, NamesOnce
  <2>2. name' \in [Slots -> Ids \cup {Unnamed}]
    BY <2>1
  <2>3. \A s, t \in Slots : name'[s] # Unnamed /\ name'[s] = name'[t] => s = t
    BY <1>6, <2>1
  <2>. QED BY <2>2, <2>3 DEF NamesOnce, Slots, Ids, Capacity, SpaceSize
<1>8. Naming'
  <2>1. NamesGiven' /\ CollectionDue'
    BY <1>1, <1>4, <1>6 DEF NamesGiven, CollectionDue, Return, Settled, Collecting, Slots
  <2>2. LocalsLeft'
    BY <1>1, FS_EmptySet, FS_Singleton DEF LocalsLeft, Return
  <2>. QED BY <1>7, <2>1, <2>2 DEF Naming
<1>9. Names' = {name[s] : s \in Allocated} /\ Promise!Reachable = Names'
  <2>1. Names' = {name'[s] : s \in Slots} \ {Unnamed}
    BY DEF Names, Slots
  <2>2. Names' = {name[s] : s \in Allocated}
    BY <1>6, <2>1
  <2>. QED BY <1>1, <1>2, <1>3, <2>2, CopiesAreReachable
<1>10. ASSUME NEW x, x = Never \/ LiveValue(x)
       PROVE  Resolve(x)' = Resolve(x)
  <2>1. CASE x = Never \/ x \in Atoms
    BY <2>1 DEF Resolve
  <2>2. CASE x # Never /\ x \notin Atoms
    <3>1. x.index \in Allocated
      BY <1>10, <2>2 DEF LiveValue, LiveRef
    <3>2. heap[x.index] # Never
      BY <1>2, <3>1 DEF CollectView
    <3>3. NameAt(x.index)' = NameAt(x.index)
      BY <1>6, <3>1, <3>2 DEF NameAt
    <3>. QED BY <3>3 DEF Resolve
  <2>. QED BY <2>1, <2>2
<1>11. \A s \in Allocated : Objects'[name[s]] = Objects[name[s]]
  <2>1. NamedCells /\ NamedCells'
    <3>1. NamedCells'
      BY <1>7, NamesTell, PTL
    <3>. QED BY <1>2, <3>1 DEF CollectView
  <2>2. ASSUME NEW s \in Allocated PROVE Objects'[name[s]] = Objects[name[s]]
    <3>1. /\ name[s] # Unnamed /\ name'[s] = name[s] /\ s \in Slots /\ s + 0 = s
          /\ heap'[s] = heap[s] /\ heap'[s + 1] = heap[s + 1]
          /\ LiveValue(heap[s]) /\ LiveValue(heap[s + 1])
      BY <1>2, <1>3, <1>6 DEF CollectView, Scanned
    <3>2. Objects[name[s]] = [f \in {0, 1} |-> Resolve(heap[s + f])]
      BY <2>1, <3>1 DEF NamedCells
    <3>3. Objects'[name[s]] = [f \in {0, 1} |-> Resolve(heap[s + f])']
      <4>1. \A q \in Slots : name'[q] # Unnamed =>
              Objects'[name'[q]] = [f \in {0, 1} |-> Resolve(heap[q + f])']
        BY <2>1 DEF NamedCells, Slots
      <4>. QED BY <3>1, <4>1
    <3>4. ASSUME NEW f \in {0, 1} PROVE Resolve(heap[s + f])' = Resolve(heap[s + f])
      <4>1. PICK x : x = heap[s + f]
        OBVIOUS
      <4>2. heap'[s + f] = x /\ LiveValue(x)
        BY <3>1, <4>1
      <4>3. Resolve(heap[s + f])' = Resolve(x)'
        BY <4>2 DEF Resolve, NameAt
      <4>. QED BY <1>10, <4>1, <4>2, <4>3
    <3>. QED BY <3>2, <3>3, <3>4
  <2>. QED BY <2>2
<1>12. Objects' = [i \in Promise!Reachable |-> Objects[i]]
  <2>1. Objects' = [i \in Names' |-> Objects'[i]]
    BY DEF Objects
  <2>2. \A i \in Names' : Objects'[i] = Objects[i]
    BY <1>9, <1>11
  <2>. QED BY <1>9, <2>1, <2>2
<1>13. Promise!Return(ObjectRoots[Result], pushing)
  <2>1. \A x : x = Never \/ (\E r \in Roots : x = roots[r]) => Resolve(x)' = Resolve(x)
    BY <1>3, <1>10 DEF Scanned, LiveValue
  <2>2. roots \in [Roots -> Ref \cup {Never}]
    BY <1>2 DEF CopyState, TypeOK
  <2>. QED BY <1>1, <2>1, <2>2, ReturnMaps
<1>14. Promise!Full \/ GcAlways
  BY <1>1 DEF Naming, CollectionDue
<1>15. StoreMode = "allocating"
  BY <1>1 DEF StoreMode
<1>16. Promise!Collect
  BY <1>12, <1>13, <1>14, <1>15 DEF Promise!Collect, Promise!Result, Result
<1>. QED BY <1>8, <1>16 DEF Promise!Next

-----------------------------------------------------------------------------
(* The initial state, the steps, and the theorem.                           *)

LEMMA InitMaps ==
  ASSUME EvenSpace, NamedInit
  PROVE  HeapInvariant /\ Naming /\ Promise!Init
<1>1. /\ Init /\ name = [s \in Slots |-> IF s = 0 THEN 1 ELSE IF s = 2 THEN 2 ELSE Unnamed]
      /\ HeapInvariant
  BY InitInvariant DEF NamedInit
<1>2. /\ pc = "mutator" /\ space = FALSE /\ allocIdx = 4 /\ held = {} /\ pushing = FALSE
      /\ heap = [s \in Slots |->
           IF s \in {0, 1} THEN Zero
           ELSE IF s \in {2, 3} THEN [index |-> 0, tag |-> PairTag] ELSE Poison]
      /\ roots = [r \in Roots |->
           IF r = False THEN [index |-> 2, tag |-> PairTag] ELSE Never]
  BY <1>1 DEF Init
<1>3. /\ SpaceSize \in Nat /\ 4 <= SpaceSize /\ HeapSize \in Nat /\ 8 <= HeapSize
      /\ 1 \in Ids /\ 2 \in Ids /\ 1 # Unnamed /\ 2 # Unnamed
      /\ 0 \in Slots /\ 1 \in Slots /\ 2 \in Slots /\ 3 \in Slots
  <2>1. SpaceSize \in Nat /\ 4 <= SpaceSize /\ HeapSize \in Nat /\ 8 <= HeapSize
    BY SpaceFacts, MemoryAssumption
  <2>2. 1 \in Ids /\ 2 \in Ids
    BY CapacityIs DEF Ids
  <2>. QED BY <2>1, <2>2, UnnamedAssumption DEF Slots
<1>4. Allocated = {0, 2}
  <2>1. AllocStart = 0 /\ AllocEnd = 4
    BY <1>2 DEF AllocStart, AllocEnd
  <2>2. Allocated = {c \in 0 .. 3 : c % 2 = 0}
    BY <1>1, <2>1, AllocatedFacts DEF HeapInvariant
  <2>. QED BY <2>2
<1>5. \A s \in Slots : name[s] = IF s = 0 THEN 1 ELSE IF s = 2 THEN 2 ELSE Unnamed
  BY <1>1
<1>6. Naming
  <2>1. name \in [Slots -> Ids \cup {Unnamed}]
    BY <1>1, <1>3
  <2>2. \A s, t \in Slots : name[s] # Unnamed /\ name[s] = name[t] => s = t
    BY <1>3, <1>5
  <2>3. NamesOnce
    BY <2>1, <2>2 DEF NamesOnce
  <2>4. NamesGiven
    BY <1>2, <1>3, <1>4, <1>5 DEF NamesGiven, Collecting
  <2>5. CollectionDue /\ LocalsLeft
    BY <1>2, FS_EmptySet DEF CollectionDue, LocalsLeft, Collecting
  <2>. QED BY <2>3, <2>4, <2>5 DEF Naming
<1>7. SettledView
  BY <1>1, <1>2, <1>6, SettledTells DEF Settled
<1>8. Names = {1, 2} /\ name[0] = 1 /\ name[2] = 2
  <2>1. name[0] = 1 /\ name[2] = 2
    BY <1>3, <1>5
  <2>. QED BY <1>4, <1>7, <2>1 DEF SettledView
<1>. DEFINE first == [index |-> 0, tag |-> PairTag]
            second == [index |-> 2, tag |-> PairTag]
<1>9. /\ Seen(first) = [index |-> 1, tag |-> PairTag]
      /\ Seen(second) = [index |-> 2, tag |-> PairTag] /\ Seen(Zero) = Zero
  <2>1. first \in Ref /\ second \in Ref /\ first.index = 0 /\ second.index = 2
        /\ first.tag = PairTag /\ second.tag = PairTag /\ Zero \in Atoms
    BY MemoryAssumption DEF Ref
  <2>2. first \notin Atoms /\ first # Never /\ second \notin Atoms /\ second # Never
    <3>. HIDE DEF first, second
    <3>. QED BY <2>1, ValueFacts
  <2>. HIDE DEF first, second
  <2>. QED BY <1>8, <2>1, <2>2 DEF Seen
<1>10. /\ Objects[1] = [f \in {0, 1} |-> Zero]
       /\ Objects[2] = [f \in {0, 1} |-> [index |-> 1, tag |-> PairTag]]
  <2>1. /\ Objects[1] = [f \in {0, 1} |-> Seen(heap[0 + f])]
        /\ Objects[2] = [f \in {0, 1} |-> Seen(heap[2 + f])]
    BY <1>4, <1>7, <1>8 DEF SettledView
  <2>2. \A f \in {0, 1} : heap[0 + f] = Zero /\ heap[2 + f] = first
    BY <1>2, <1>3
  <2>. HIDE DEF first
  <2>. QED BY <1>9, <2>1, <2>2
<1>11. Objects = [k \in {1, 2} |-> [f \in {0, 1} |->
         IF k = 1 THEN Zero ELSE [index |-> 1, tag |-> PairTag]]]
  <2>1. Objects = [k \in {1, 2} |-> Objects[k]]
    BY <1>8 DEF Objects
  <2>. QED BY <1>10, <2>1
<1>12. ObjectRoots = [r \in Roots |->
         IF r = False THEN [index |-> 2, tag |-> PairTag] ELSE Never]
  <2>1. ObjectRoots = [r \in Roots |-> Seen(roots[r])]
    BY <1>7 DEF SettledView
  <2>2. Seen(Never) = Never
    BY DEF Seen
  <2>3. \A r \in Roots : roots[r] = IF r = False THEN second ELSE Never
    BY <1>2
  <2>. HIDE DEF second
  <2>. QED BY <1>9, <2>1, <2>2, <2>3
<1>13. ObjectsHeld = {} /\ StoreMode = "mutator"
  BY <1>2 DEF ObjectsHeld, StoreMode, Collecting
<1>14. Promise!Init
  <2>1. /\ Zero \in Atoms /\ 1 # 2
        /\ ObjectRoots = [r \in Promise!Roots |->
             IF r = Promise!False THEN [index |-> 2, tag |-> PairTag] ELSE Promise!Never]
    BY <1>12, NeverIs, MemoryAssumption DEF Promise!Roots, Promise!False, Roots, False
  <2>. QED BY <1>2, <1>3, <1>11, <1>13, <2>1 DEF Promise!Init
<1>. QED BY <1>1, <1>6, <1>14

LEMMA NextMaps ==
  ASSUME EvenSpace, HeapInvariant, HeapInvariant', Naming, NamedNext
  PROVE  Naming' /\ (Promise!Next \/ Unseen)
<1>1. CASE pc = "mutator" /\ SettledView
  <2>1. Mutates
    BY <1>1 DEF Mutates
  <2>2. CASE MutatorReads /\ UNCHANGED name
    BY <2>1, <2>2, ReadsMap
  <2>3. CASE MutatorWrites /\ UNCHANGED name
    BY <2>1, <2>3, WritesMap
  <2>4. CASE OutOfMemory /\ UNCHANGED name
    BY <2>1, <2>4, FailureMaps
  <2>5. CASE MutatorAllocates /\ name' = [name EXCEPT ![AllocEnd] = FreeName]
    BY <2>1, <2>5, AllocatesMap
  <2>. QED BY <1>1, <2>2, <2>3, <2>4, <2>5
           DEF NamedNext, FinishAllocation, StartCollection, CopyRoot, ScanSlot,
               FinishCollection, Halted
<1>2. CASE pc # "mutator"
  <2>1. CASE Halted /\ UNCHANGED name
    <3>1. /\ UNCHANGED <<heap, allocIdx, space, roots, held, pushing, pc, cursor, name>>
          /\ pc = "failed"
      BY <2>1 DEF Halted, vars
    <3>2. Unseen
      BY <3>1, SameObjects
         DEF Unseen, ObjectRoots, ObjectsHeld, StoreMode, Resolve, NameAt, Roots, Collecting
    <3>3. Naming'
      BY <3>1 DEF Naming, NamesOnce, NamesGiven, CollectionDue, LocalsLeft, Settled, Collecting,
                  Slots, Ids, Capacity, SpaceSize
    <3>. QED BY <3>2, <3>3
  <2>2. CASE FinishAllocation /\ UNCHANGED name
    BY <2>2, FinishMaps
  <2>3. CASE StartCollection /\ UNCHANGED name
    BY <2>3, StartMaps
  <2>4. CASE CopyRoot /\ MoveName(roots[cursor])
    BY <2>4, RootsCopied
  <2>5. CASE ScanSlot /\ MoveName(heap[cursor])
    BY <2>5, SlotsCopied
  <2>6. CASE FinishCollection /\ name' = [s \in Slots |->
              IF s \in AllocStart .. AllocEnd - 1 THEN name[s] ELSE Unnamed]
    BY <2>6, CollectionMaps
  <2>. QED BY <1>2, <2>1, <2>2, <2>3, <2>4, <2>5, <2>6
           DEF NamedNext, MutatorReads, MutatorWrites, MutatorAllocates, OutOfMemory,
               ReadRoot, Load, SetField, SetRoot, Pop, Allocate
<1>3. pc = "mutator" => SettledView
  BY SettledTells DEF Settled
<1>. QED BY <1>1, <1>2, <1>3

(* Names never influence the heap.                                          *)
LEMMA NamedSteps ==
  ASSUME NamedNext
  PROVE  Next
BY DEF NamedNext, Next, Mutator, Allocator

(* The safety part of StorePromise: the moving collector cannot be told from *)
(* a store whose objects never move and that drops what nothing reaches.     *)
StoreSteps == Promise!Init /\ [][Promise!Next]_(Promise!vars)

(* For every heap of whole cells, each step of the memory is a step of the   *)
(* abstract store or none at all: a program over allocate, push, pop and the *)
(* accessors of vm/src/memory.rs never sees a collection, but for the memory *)
(* it frees.                                                                *)
THEOREM HeapImplementsStore == EvenSpace => (NamedSpec => StoreSteps)
<1>. SUFFICES ASSUME EvenSpace PROVE NamedSpec => StoreSteps
  OBVIOUS
<1>1. NamedInit => HeapInvariant /\ Naming /\ Promise!Init
  BY InitMaps
<1>2. HeapInvariant /\ Naming /\ [NamedNext]_named => HeapInvariant' /\ Naming' /\ [Promise!Next]_(Promise!vars)
  <2>1. ASSUME HeapInvariant, Naming, NamedNext
        PROVE  HeapInvariant' /\ Naming' /\ [Promise!Next]_(Promise!vars)
    <3>1. HeapInvariant'
      BY <2>1, NamedSteps, StepInvariant
    <3>2. Naming' /\ (Promise!Next \/ Unseen)
      BY <2>1, <3>1, NextMaps
    <3>. QED BY <3>1, <3>2 DEF Unseen, Promise!vars
  <2>2. ASSUME HeapInvariant, Naming, UNCHANGED named
        PROVE  HeapInvariant' /\ Naming' /\ [Promise!Next]_(Promise!vars)
    <3>1. UNCHANGED <<heap, allocIdx, space, roots, held, pushing, pc, cursor, name>> /\ UNCHANGED vars
      BY <2>2 DEF named, vars
    <3>2. HeapInvariant'
      BY <2>2, <3>1, StepInvariant
    <3>3. Unseen
      BY <3>1, SameObjects
         DEF Unseen, ObjectRoots, ObjectsHeld, StoreMode, Resolve, NameAt, Roots, Collecting
    <3>4. Allocated' = Allocated /\ Waiting' = Waiting
      BY <3>1 DEF Allocated, Waiting, Abandoned, AllocEnd, AllocStart, Cells, SpaceSize
    <3>5. Naming'
      <4>1. CollectionDue'
        BY <2>2, <3>1, <3>3, <3>4, SameReachable DEF Unseen, Naming, CollectionDue, Collecting
      <4>2. NamesOnce' /\ NamesGiven' /\ LocalsLeft'
        BY <2>2, <3>1, <3>4 DEF Naming, NamesOnce, NamesGiven, LocalsLeft, Settled, Collecting,
                               Slots, Ids, Capacity, SpaceSize
      <4>. QED BY <4>1, <4>2 DEF Naming
    <3>. QED BY <3>2, <3>3, <3>5 DEF Unseen, Promise!vars
  <2>. QED BY <2>1, <2>2
<1>. QED BY <1>1, <1>2, PTL DEF NamedSpec, StoreSteps
=============================================================================
