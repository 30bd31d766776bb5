------------------------------ MODULE Dynamic -------------------------------
(***************************************************************************)
(* The table of foreign values of dynamic/src/primitive_set.rs. A Rust       *)
(* function returns a value that Scheme cannot hold; the value goes into a   *)
(* slot of `values` and Scheme gets a cell with the number of the slot. The  *)
(* heap has a collector that knows nothing of the table: a slot is free      *)
(* again when a scan of the heap finds no cell with its number.              *)
(*                                                                         *)
(* Cells are kept as the set of those that lie in the current space, dead    *)
(* ones included until the heap is collected; `held` are those that the      *)
(* program can reach. Each cell has a name that it keeps for life.           *)
(***************************************************************************)
EXTENDS Integers, FiniteSets

CONSTANTS
  Capacity,   \* foreign cells that a space of the heap has room for
  MaxMade,    \* bound: values and cells that are made
  Forged      \* numbers in cells with a foreign tag that are something else

ASSUME CapacityAssumption == Capacity \in Nat
ASSUME ForgedAssumption == Forged \subseteq Nat

VARIABLES
  values,    \* the table: a function from its slots, 0 and up, to values or Free
  size,      \* its length
  cells,     \* the foreign cells in the space: records [name, index, owner], where
             \* owner is auxiliary: the value that the cell was made for, or Free
  held,      \* names of the cells that the program can reach
  made,      \* values made so far; a value has the name of its cell
  step,      \* of `operate`: "idle", "slot" or "cell"
  slot,      \* the slot that was filled, in step "cell", else 0
  outcome    \* how the last call ended

tableVars == <<values, size>>
heapVars == <<cells, held>>
vars == <<tableVars, heapVars, made, step, slot, outcome>>

Free == 0 - 1
Outcomes == {"ok", "ValueIndex", "OutOfMemory"}

Init ==
  /\ values = [i \in {} |-> Free] /\ size = 0
  /\ cells = {} /\ held = {} /\ made = 0
  /\ step = "idle" /\ slot = 0 /\ outcome = "ok"

-----------------------------------------------------------------------------
(* `operate`. The arguments are popped: some of them may be lost to the       *)
(* program with that. An argument with a foreign tag must name a slot in     *)
(* use, then the Rust function runs and returns a value: one that Scheme has  *)
(* (nothing to do here) or a foreign one.                                   *)

Legal(c) == c.index < size /\ values[c.index] # Free

Operate ==
  /\ step = "idle"
  /\ \E arguments \in SUBSET {c \in cells : c.name \in held} :
       /\ \E lost \in SUBSET {c.name : c \in arguments} : held' = held \ lost
       /\ IF \A c \in arguments : Legal(c)
          THEN /\ outcome' = "ok"
               /\ step' \in (IF made < MaxMade THEN {"idle", "slot"} ELSE {"idle"})
          ELSE outcome' = "ValueIndex" /\ UNCHANGED step
  /\ UNCHANGED <<tableVars, cells, made, slot>>

(* collect_garbages: the slots that no cell of the space names are freed.     *)
MarkedButLast ==  \* mutant of Marked: the scan ends one cell too early
  {c.index : c \in {d \in cells : d.name # made - 1}}

Marked == {c.index : c \in cells}
Collected == [i \in DOMAIN values |-> IF i \in Marked THEN values[i] ELSE Free]

FreeSlots(table) == {i \in DOMAIN table : table[i] = Free}
First(slots) == {i \in slots : \A j \in slots : i <= j}

PutInside(table, i) == [table EXCEPT ![i] = made]  \* mutant of Put: no new slot
Put(table, i) == [j \in DOMAIN table \cup {i} |-> IF j = i THEN made ELSE table[j]]

Take(table, i) == slot' = i /\ values' = Put(table, i)

(* Mutant of FillSlot: the table grows before garbage is looked for.          *)
FillSlotEager ==
  /\ step = "slot"
  /\ \/ \E i \in First(FreeSlots(values)) : Take(values, i) /\ UNCHANGED size
     \/ FreeSlots(values) = {} /\ Take(values, size) /\ size' = size + 1
  /\ step' = "cell" /\ made' = made + 1
  /\ UNCHANGED <<heapVars, outcome>>

(* allocate and the assignment after it: a free slot, else a slot that a      *)
(* collection frees, else a new one.                                        *)
FillSlot ==
  /\ step = "slot"
  /\ \/ \E i \in First(FreeSlots(values)) : Take(values, i) /\ UNCHANGED size
     \/ /\ FreeSlots(values) = {}
        /\ \E i \in First(FreeSlots(Collected)) : Take(Collected, i) /\ UNCHANGED size
     \/ /\ FreeSlots(Collected) = {}
        /\ Take(Collected, size) /\ size' = size + 1
  /\ step' = "cell" /\ made' = made + 1
  /\ UNCHANGED <<heapVars, outcome>>

(* Memory::allocate of the cell and the push of it, with a collection of the  *)
(* heap when the space is full. Other cells take space as well, so it may be  *)
(* full at any time; it is in any case when there are Capacity foreign cells. *)
Live == {c \in cells : c.name \in held}

NewCell(name, index, value, present) ==
  /\ Cardinality(present) < Capacity
  /\ cells' = present \cup {[name |-> name, index |-> index, owner |-> value]}

AllocateCell ==
  /\ step = "cell"
  /\ \E present \in {cells, Live} : NewCell(values[slot], slot, values[slot], present)
  /\ held' = held \cup {values[slot]}
  /\ step' = "idle" /\ slot' = 0
  /\ UNCHANGED <<tableVars, made, outcome>>

(* The cell does not fit, or the push of it: the value stays in its slot and  *)
(* the program has no cell for it.                                          *)
FailToAllocate ==
  /\ step = "cell"
  /\ \/ UNCHANGED cells
     \/ \E present \in {cells, Live} : NewCell(values[slot], slot, values[slot], present)
  /\ step' = "idle" /\ slot' = 0 /\ outcome' = "OutOfMemory"
  /\ UNCHANGED <<tableVars, held, made>>

-----------------------------------------------------------------------------
(* The rest of the program, as far as the table is concerned.                *)

Forget ==
  /\ step = "idle" /\ held # {}
  /\ \E n \in held : held' = held \ {n}
  /\ UNCHANGED <<tableVars, cells, made, step, slot, outcome>>

CollectHeap ==
  /\ step = "idle"
  /\ cells' = Live
  /\ UNCHANGED <<tableVars, held, made, step, slot, outcome>>

(* A cell with the foreign tag that is something else ("foreign type tags    *)
(* can be used for something else", primitive_set.rs:78).                    *)
Forge ==
  /\ step = "idle" /\ made < MaxMade
  /\ \E index \in Forged : NewCell(made, index, Free, cells)
  /\ held' = held \cup {made}
  /\ made' = made + 1
  /\ UNCHANGED <<tableVars, step, slot, outcome>>

(* Engine::run of the next module: nothing of the last one can be reached.    *)
RunNext ==
  /\ step = "idle"
  /\ held' = {}
  /\ UNCHANGED <<tableVars, cells, made, step, slot, outcome>>

Next ==
  \/ Operate \/ FillSlot \/ AllocateCell \/ FailToAllocate
  \/ Forget \/ CollectHeap \/ Forge \/ RunNext

Spec == Init /\ [][Next]_vars

-----------------------------------------------------------------------------
TypeOK ==
  /\ size \in Nat /\ made \in Nat /\ slot \in Nat
  /\ values \in [0 .. size - 1 -> 0 .. made - 1 \cup {Free}]
  /\ cells \subseteq [name : 0 .. made - 1, index : Nat, owner : 0 .. made - 1 \cup {Free}]
  /\ held \subseteq {c.name : c \in cells}
  /\ step \in {"idle", "slot", "cell"} /\ outcome \in Outcomes

Own == {c \in cells : c.owner # Free}

(* A foreign value lives as long as a cell names it: every cell that was       *)
(* made for a value, reachable or not, names a slot that holds this very      *)
(* value (convert_into_scheme, collect_garbages and the heap's collector      *)
(* together never give a slot away too early).                              *)
ValuesKept == \A c \in Own : c.index \in DOMAIN values /\ values[c.index] = c.owner

(* The table does not outgrow the heap: values whose cells are gone, even      *)
(* those whose cells were never made, give their slots back before another    *)
(* is added. One more is the value whose cell is still to be made.           *)
TableBounded == size <= Capacity + 1
=============================================================================
