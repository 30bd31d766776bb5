------------------------------- MODULE Cells --------------------------------
(***************************************************************************)
(* Values and cells as the virtual machine and the compiler see them: a    *)
(* value is a number or a reference to a cell, a cell has two fields and    *)
(* the tag of its cdr (vm/src/value.rs, vm/src/cons.rs, and `rib` in        *)
(* compile.scm). A tag is read in a cdr only, so it is a field of the cell. *)
(***************************************************************************)
EXTENDS Integers, Sequences

Number(n) == [type |-> "number", value |-> n]
Reference(i) == [type |-> "cons", value |-> i]
IsCons(v) == v.type = "cons"

(* Value::set_tag leaves numbers alone: only a reference carries a tag.     *)
Cell(car, cdr, tag) ==
  [car |-> car, cdr |-> cdr, tag |-> IF IsCons(cdr) THEN tag ELSE 0]

(* assume_cons of a number is DUMMY_INDEX, some cell that the caller did not *)
(* ask for; here the first one.                                            *)
Dummy == 1
AssumeCons(v) == IF IsCons(v) THEN v.value ELSE Dummy
AssumeNumber(v) == IF IsCons(v) THEN 0 ELSE v.value

(* Instruction, Type and StackSlot.                                        *)
Constant == 0
Get == 1
Set == 2
If == 3
Nop == 4
Call == 5

PairType == 0
NullType == 1
BooleanType == 2
ProcedureType == 3
SymbolType == 4
StringType == 5
CharType == 6
VectorType == 7

FrameSlot == 1

(* The cells of the constants in a heap that has just been filled.          *)
NullCell == 1
FalseCell == 2
TrueCell == 3
=============================================================================
