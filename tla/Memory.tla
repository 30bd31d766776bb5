------------------------------- MODULE Memory -------------------------------
(***************************************************************************)
(* The heap of the virtual machine (vm/src/memory.rs, vm/src/cons.rs) and   *)
(* its copying collector.                                                  *)
(*                                                                         *)
(* The heap is an array of HeapSize slots cut in two spaces. A cell is two *)
(* consecutive slots, car and cdr, and a reference (`Cons`) is the index of *)
(* a cell with a tag of its own. An allocation that fills the active space *)
(* flips the spaces, copies the roots and the new cell, and scans the      *)
(* copies for more cells to copy. Every copy step is a step of this module, *)
(* so that the half-copied heap is a state the invariants speak about.     *)
(*                                                                         *)
(* The mutator is any program over the methods of `Memory`. What it keeps  *)
(* in Rust locals is `held`: the values it read since its last allocation. *)
(* An allocation may move every cell, so it leaves the mutator only with   *)
(* the cell it returns.                                                    *)
(***************************************************************************)
EXTENDS Integers, FiniteSets

CONSTANTS
  HeapSize,     \* heap.len(), in slots
  Tags,         \* the tags the program puts on references
  PairTag,      \* Type::Pair, the tag of a reference allocate returns
  NeverTag,     \* Tag::MAX, the tag of NEVER
  Atoms,        \* values that are not references: numbers
  Zero,         \* Value::default()
  Poison,       \* contents of a slot outside of every allocated cell
  ClientRoots,  \* bound: the roots the mutator assigns
  ClientFields, \* bound: the fields it assigns, 0 for car and 1 for cdr
  MaxHeld,      \* bound: how many values the mutator keeps in locals
  GcAlways      \* the Cargo feature gc_always

Slots == 0 .. HeapSize - 1
Ref == [index : Nat, tag : Tags]
Never == [index |-> 0, tag |-> NeverTag]

ASSUME MemoryAssumption ==
  /\ HeapSize \in Nat /\ HeapSize >= 6
  /\ PairTag \in Tags /\ NeverTag \notin Tags
  /\ Zero \in Atoms
  /\ \A a \in Atoms \cup {Poison} : a # Never /\ a \notin [index : Nat, tag : Tags]
  /\ Poison \notin Atoms
  /\ ClientRoots \subseteq 1 .. 4
  /\ ClientFields \subseteq {0, 1}
  /\ MaxHeld \in Nat
  /\ GcAlways \in BOOLEAN

(* The fields of `Memory` that are roots, in the order they are copied; the *)
(* fifth is the cell an allocation is about to return.                     *)
Code == 1
Stack == 2
False == 3
Register == 4
Result == 5
Roots == 1 .. 5

VARIABLES
  heap,       \* heap: the slots
  allocIdx,   \* allocation_index: slots allocated in the active space
  space,      \* space: is the upper space active?
  roots,      \* code, stack, false, register, and the cell being returned
  held,       \* values in the locals of the mutator
  pushing,    \* does the running allocation come from push?
  pc,         \* "mutator", "allocated" (in allocate), "roots" and "scan"
              \* (in collect_garbages), or "failed"
  cursor      \* the root or the slot the collector handles next

vars == <<heap, allocIdx, space, roots, held, pushing, pc, cursor>>

SpaceSize == HeapSize \div 2
AllocStart == IF space THEN SpaceSize ELSE 0
AllocEnd == AllocStart + allocIdx
FullOnlyWhenOverrun == allocIdx > SpaceSize  \* mutant of IsOutOfMemory
IsOutOfMemory == allocIdx >= SpaceSize

-----------------------------------------------------------------------------
(* References and slots.                                                   *)

SetTag(v, t) == IF v \in Atoms THEN v ELSE [v EXCEPT !.tag = t]
TagOfNumberIsNever(v) == IF v \in Atoms THEN NeverTag ELSE v.tag  \* mutant of TagOf
TagOf(v) == IF v \in Atoms THEN PairTag ELSE v.tag

Car(v) == heap[v.index]
Cdr(v) == heap[v.index + 1]

(* allocate_unchecked takes the next two slots.                            *)
WithCell(h, car, cdr) == [h EXCEPT ![AllocEnd] = car, ![AllocEnd + 1] = cdr]
NewRef == [index |-> AllocEnd, tag |-> PairTag]

-----------------------------------------------------------------------------
(* copy_cons: the reference to the copy of a cell, and its effect.         *)

Moved(v) == Car(v) = Never
CopiesMovedCells(v) == v # Never  \* mutant of NeedsCopy
NeedsCopy(v) == v # Never /\ ~Moved(v)

(* Mutants of CopyRef: a forward pointer that is not followed, a tag that    *)
(* is lost.                                                                *)
CopyRefUnfollowed(v) ==
  IF v = Never THEN Never ELSE SetTag(IF Moved(v) THEN v ELSE NewRef, v.tag)

CopyRefUntagged(v) ==
  IF v = Never THEN Never ELSE IF Moved(v) THEN Cdr(v) ELSE NewRef

CopyRef(v) ==
  IF v = Never THEN Never
  ELSE SetTag(IF Moved(v) THEN Cdr(v) ELSE NewRef, v.tag)

(* Mutant of CopyHeap: no forward pointer.                                 *)
CopyHeapUnforwarded(v) ==
  IF NeedsCopy(v) THEN WithCell(heap, Car(v), Cdr(v)) ELSE heap

CopyHeap(v) ==
  IF NeedsCopy(v)
  THEN [WithCell(heap, Car(v), Cdr(v)) EXCEPT
          ![v.index] = Never, ![v.index + 1] = NewRef]
  ELSE heap

CopyAlloc(v) == IF NeedsCopy(v) THEN allocIdx + 2 ELSE allocIdx

CopyFailsEarly(v) == NeedsCopy(v) /\ allocIdx + 2 >= SpaceSize  \* mutant of CopyFails
CopyFails(v) == NeedsCopy(v) /\ IsOutOfMemory

-----------------------------------------------------------------------------
(* Memory::new                                                             *)

Init ==
  /\ space = FALSE
  /\ heap = [s \in Slots |->
       IF s \in {0, 1} THEN Zero
       ELSE IF s \in {2, 3} THEN [index |-> 0, tag |-> PairTag] ELSE Poison]
  /\ allocIdx = 4
  /\ roots = [r \in Roots |->
       IF r = False THEN [index |-> 2, tag |-> PairTag] ELSE Never]
  /\ held = {}
  /\ pushing = FALSE
  /\ pc = "mutator"
  /\ cursor = 0

-----------------------------------------------------------------------------
(* The operations of the mutator.                                          *)

(* A value is read into a local; the locals no longer used make room.      *)
Hold(v) ==
  /\ v \in Ref
  /\ \E kept \in SUBSET held :
       /\ Cardinality(kept) < MaxHeld
       /\ held' = kept \cup {v}

ReadRoot(r) ==
  /\ pc = "mutator"
  /\ Hold(roots[r])
  /\ UNCHANGED <<heap, allocIdx, space, roots, pushing, pc, cursor>>

Load(v, field) ==
  /\ pc = "mutator"
  /\ Hold(heap[v.index + field])
  /\ UNCHANGED <<heap, allocIdx, space, roots, pushing, pc, cursor>>

(* A field keeps its tag whatever is stored in it.                         *)
SetField(v, field, w) ==
  /\ pc = "mutator"
  /\ heap' = [heap EXCEPT ![v.index + field] = SetTag(w, TagOf(@))]
  /\ UNCHANGED <<allocIdx, space, roots, held, pushing, pc, cursor>>

SetRoot(r, v) ==
  /\ pc = "mutator"
  /\ roots' = [roots EXCEPT ![r] = v]
  /\ UNCHANGED <<heap, allocIdx, space, held, pushing, pc, cursor>>

Pop ==
  /\ pc = "mutator"
  /\ roots[Stack] # Never
  /\ Cdr(roots[Stack]) \in Ref
  /\ roots' = [roots EXCEPT ![Stack] = Cdr(roots[Stack])]
  /\ IF Car(roots[Stack]) \in Atoms
     THEN held' = held
     ELSE Hold(Car(roots[Stack]))
  /\ UNCHANGED <<heap, allocIdx, space, pushing, pc, cursor>>

(* What allocate hands back: the cell itself, or a stack with it on top.   *)
Return(cons, push) ==
  /\ held' = IF push THEN {} ELSE {cons}
  /\ roots' = [roots EXCEPT ![Stack] = IF push THEN cons ELSE @,
                            ![Result] = Never]
  /\ pushing' = FALSE
  /\ pc' = "mutator"

(* allocate: allocate_unchecked takes a cell ...                           *)
Allocate(car, cdr, push) ==
  /\ pc = "mutator"
  /\ ~IsOutOfMemory
  /\ heap' = WithCell(heap, car, cdr)
  /\ allocIdx' = allocIdx + 2
  /\ roots' = [roots EXCEPT ![Result] = NewRef]
  /\ held' = {}
  /\ pushing' = push
  /\ pc' = "allocated"
  /\ UNCHANGED <<space, cursor>>

(* ... and the cell is returned, unless it was the last one of the space.   *)
FinishAllocation ==
  /\ pc = "allocated"
  /\ ~IsOutOfMemory /\ ~GcAlways
  /\ Return(roots[Result], pushing)
  /\ UNCHANGED <<heap, allocIdx, space, cursor>>

(* Error::OutOfMemory ends the program.                                    *)
Fail ==
  /\ pc' = "failed"
  /\ UNCHANGED <<heap, allocIdx, space, roots, held, pushing, cursor>>

OutOfMemory ==
  /\ pc = "mutator"
  /\ IsOutOfMemory
  /\ Fail

-----------------------------------------------------------------------------
(* collect_garbages                                                        *)

StartCollection ==
  /\ pc = "allocated"
  /\ IsOutOfMemory \/ GcAlways
  /\ allocIdx' = 0
  /\ space' = ~space
  /\ pc' = "roots"
  /\ cursor' = Code
  /\ UNCHANGED <<heap, roots, held, pushing>>

CopyRoot ==
  /\ pc = "roots"
  /\ LET v == roots[cursor] IN
     IF CopyFails(v) THEN Fail
     ELSE /\ heap' = CopyHeap(v)
          /\ allocIdx' = CopyAlloc(v)
          /\ roots' = [roots EXCEPT ![cursor] = CopyRef(v)]
          /\ pc' = IF cursor = Result THEN "scan" ELSE "roots"
          /\ cursor' = IF cursor = Result THEN AllocStart ELSE cursor + 1
          /\ UNCHANGED <<space, held, pushing>>

ScanSlot ==
  /\ pc = "scan"
  /\ cursor < AllocEnd
  /\ LET v == heap[cursor] IN
     IF v \notin Atoms /\ CopyFails(v) THEN Fail
     ELSE /\ heap' = IF v \in Atoms THEN heap
                     ELSE [CopyHeap(v) EXCEPT ![cursor] = CopyRef(v)]
          /\ allocIdx' = IF v \in Atoms THEN allocIdx ELSE CopyAlloc(v)
          /\ cursor' = cursor + 1
          /\ UNCHANGED <<space, roots, held, pushing, pc>>

(* The loop ends. The code leaves the abandoned space as it is; the model  *)
(* poisons it, so that a stale reference into it cannot pass for a live one.*)
FinishCollection ==
  /\ pc = "scan"
  /\ cursor >= AllocEnd
  /\ heap' = [s \in Slots |->
       IF s \in AllocStart .. AllocEnd - 1 THEN heap[s] ELSE Poison]
  /\ Return(roots[Result], pushing)
  /\ cursor' = 0
  /\ UNCHANGED <<allocIdx, space>>

-----------------------------------------------------------------------------
ConsOntoAnything(v) == TRUE  \* mutant of Consable

(* A cons onto NEVER (an empty stack or dictionary) strips the tag that     *)
(* makes it NEVER and leaves an ordinary reference to the cell at index 0:  *)
(* the mutator does so only while the lower space is active.               *)
Consable(v) == v # Never \/ ~space

Values == held \cup Atoms

MutatorReads ==
  \/ \E r \in ClientRoots \cup {False} : ReadRoot(r)
  \/ \E v \in held, field \in {0, 1} : Load(v, field)

MutatorWrites ==
  \/ \E v \in held, field \in ClientFields, w \in Values : SetField(v, field, w)
  \/ \E r \in ClientRoots, v \in held : SetRoot(r, v)
  \/ Register \in ClientRoots /\ SetRoot(Register, Never)
  \/ Pop

MutatorAllocates ==
  \/ \E car \in Values, cdr \in Values, tag \in Tags :
       Allocate(car, SetTag(cdr, tag), FALSE)
  \/ \E car \in Values :
       /\ Consable(roots[Stack])
       /\ Allocate(car, SetTag(roots[Stack], PairTag), TRUE)

Mutator == MutatorReads \/ MutatorWrites \/ MutatorAllocates \/ OutOfMemory

Allocator ==
  \/ FinishAllocation
  \/ StartCollection \/ CopyRoot \/ ScanSlot \/ FinishCollection

Halted == pc = "failed" /\ UNCHANGED vars

Next == Mutator \/ Allocator \/ Halted

(* allocate runs to its end once it is called, the collection included.    *)
Spec == Init /\ [][Next]_vars /\ WF_vars(Allocator)

-----------------------------------------------------------------------------
(* Correctness.                                                            *)

Collecting == pc \in {"roots", "scan"}
Settled == pc \in {"mutator", "allocated"}

(* Every variable keeps the type its field has in the code.                *)
TypeOK ==
  /\ heap \in [Slots -> Ref \cup Atoms \cup {Never, Poison}]
  /\ allocIdx \in Nat
  /\ space \in BOOLEAN
  /\ roots \in [Roots -> Ref \cup {Never}]
  /\ held \subseteq Ref
  /\ pushing \in BOOLEAN
  /\ pc \in {"mutator", "allocated", "roots", "scan", "failed"}
  /\ cursor \in Nat

(* The assertion of allocate_unchecked: the cells of a space fit in it.    *)
AllocationFits == allocIdx <= SpaceSize

(* The cells of the spaces, when a space holds a whole number of them.     *)
EvenSpace == SpaceSize % 2 = 0

Cells(start) == {c \in start .. start + SpaceSize - 1 : c % 2 = 0}
Allocated == {c \in Cells(AllocStart) : c < AllocEnd}
Abandoned == Cells(SpaceSize - AllocStart)

LiveRef(v) == v \in Ref /\ v.index \in Allocated
LiveValue(v) == v \in Atoms \/ LiveRef(v)

(* Outside of a collection, everything the program can reach is allocated in *)
(* active space: what the roots and its locals refer to, and the fields of *)
(* every cell in turn. No collection leaves a reference behind, and NEVER  *)
(* is in no field, where it would mark the cell as moved.                  *)
NoDanglingReference ==
  Settled =>
    /\ \A r \in Roots : roots[r] = Never \/ LiveRef(roots[r])
    /\ \A v \in held : LiveRef(v)
    /\ \A c \in Allocated : LiveValue(heap[c]) /\ LiveValue(heap[c + 1])

-----------------------------------------------------------------------------
(* What a half-done collection looks like. `Abandoned` are the cells of the *)
(* space being left: moved ones (car is NEVER, cdr the copy), ones not yet  *)
(* reached, and ones never allocated.                                      *)

OldRef(v) == v \in Ref /\ v.index \in Abandoned /\ heap[v.index] # Poison
OldValue(v) == v \in Atoms \/ OldRef(v)
MovedCells == {c \in Abandoned : heap[c] = Never}

OldCell(c) ==
  \/ heap[c] = Poison
  \/ heap[c] = Never /\ LiveRef(heap[c + 1])
  \/ OldValue(heap[c]) /\ OldValue(heap[c + 1])

(* Roots before the cursor and slots before the scan refer to copies, the   *)
(* others to the abandoned space.                                          *)
RootOK(r) ==
  \/ roots[r] = Never
  \/ IF pc = "roots" /\ cursor <= r THEN OldRef(roots[r]) ELSE LiveRef(roots[r])

SlotOK(s) ==
  IF pc = "scan" /\ s < cursor THEN LiveValue(heap[s]) ELSE OldValue(heap[s])

CursorOK ==
  IF pc = "roots" THEN cursor \in Roots ELSE cursor \in AllocStart .. AllocEnd

(* At every step of a collection, each cell of the abandoned space is       *)
(* either whole or forwarded to its only copy, the copies fill the active   *)
(* space from its start without a gap, one per moved cell, and every        *)
(* reference is on the side of the move that the cursor says.              *)
HalfCopied ==
  Collecting =>
    /\ CursorOK
    /\ roots[Result] # Never
    /\ \A r \in Roots : RootOK(r)
    /\ \A s \in AllocStart .. AllocEnd - 1 : SlotOK(s)
    /\ \A c \in Abandoned : OldCell(c)
    /\ allocIdx = 2 * Cardinality(MovedCells)

(* Between collections the unallocated cells are the rest of the space.    *)
Unallocated ==
  Settled => \A c \in Cells(AllocStart) : c >= AllocEnd => heap[c] = Poison

HeapInvariant ==
  /\ TypeOK
  /\ roots[False] # Never
  /\ pc = "allocated" => roots[Result] # Never
  /\ AllocationFits
  /\ allocIdx % 2 = 0
  /\ NoDanglingReference
  /\ HalfCopied
  /\ Unallocated

-----------------------------------------------------------------------------
(* A collection never runs out of memory: the copies fit where the         *)
(* originals did, however the cells are shared.                            *)
CollectionSucceeds == [][Collecting => pc' # "failed"]_vars

(* A collection ends, cyclic data or not.                                  *)
CollectionEnds == Collecting ~> pc = "mutator"
=============================================================================
