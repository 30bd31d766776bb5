----------------------------- MODULE NamedMemory -----------------------------
(***************************************************************************)
(* Memory with an auxiliary variable that names every cell, and the         *)
(* refinement mapping from the heap to the objects of Store. A name is      *)
(* given at the allocation of a cell and follows the cell when it is copied;*)
(* the collector drops the names of the cells it leaves behind.            *)
(***************************************************************************)
EXTENDS Memory

CONSTANT Unnamed

Capacity == SpaceSize \div 2
Ids == 1 .. Capacity

ASSUME UnnamedAssumption == Unnamed \notin Ids

VARIABLE name
named == <<vars, name>>

Names == {name[s] : s \in Slots} \ {Unnamed}
FreeName == CHOOSE i \in Ids \ Names : TRUE

NamedInit ==
  /\ Init
  /\ name = [s \in Slots |-> IF s = 0 THEN 1 ELSE IF s = 2 THEN 2 ELSE Unnamed]

(* The copied cell hands its name over.                                    *)
MoveName(v) ==
  name' = IF v \notin Atoms /\ NeedsCopy(v)
          THEN [name EXCEPT ![AllocEnd] = name[v.index], ![v.index] = Unnamed]
          ELSE name

NamedNext ==
  \/ (MutatorReads \/ MutatorWrites \/ OutOfMemory \/ Halted
      \/ FinishAllocation \/ StartCollection) /\ UNCHANGED name
  \/ MutatorAllocates /\ name' = [name EXCEPT ![AllocEnd] = FreeName]
  \/ CopyRoot /\ MoveName(roots[cursor])
  \/ ScanSlot /\ MoveName(heap[cursor])
  \/ FinishCollection /\ name' = [s \in Slots |->
       IF s \in AllocStart .. AllocEnd - 1 THEN name[s] ELSE Unnamed]

NamedSpec == NamedInit /\ [][NamedNext]_named /\ WF_named(NamedNext /\ pc # "mutator")

-----------------------------------------------------------------------------
(* A reference to a moved cell stands for the object the cell moved to.    *)
NameAt(i) == IF heap[i] = Never THEN name[heap[i + 1].index] ELSE name[i]

Resolve(v) ==
  IF v \in Atoms \/ v = Never THEN v ELSE [index |-> NameAt(v.index), tag |-> v.tag]

CellOf(i) == CHOOSE s \in Slots : name[s] = i

Objects == [i \in Names |-> [f \in {0, 1} |-> Resolve(heap[CellOf(i) + f])]]

ObjectRoots == [r \in Roots |-> Resolve(roots[r])]
ObjectsHeld == {Resolve(v) : v \in held}
StoreMode == IF Collecting \/ pc = "allocated" THEN "allocating" ELSE pc

Promise == INSTANCE Store WITH
  objects <- Objects, roots <- ObjectRoots, held <- ObjectsHeld, mode <- StoreMode

(* The moving collector cannot be told from a store whose objects never     *)
(* move: the heap implements Store, and collections terminate.             *)
StorePromise == Promise!Spec
=============================================================================
