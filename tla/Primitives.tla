------------------------------ MODULE Primitives ------------------------------
(***************************************************************************)
(* The numbers of primitives. A primitive procedure of a program is a record  *)
(* with a number: those of compile.scm and prelude.scm, and from 1000 up one  *)
(* for each Rust function that (define-rust ...) names. The sets of           *)
(* primitives pass a number on, from that of the engine to SmallPrimitiveSet  *)
(* and from there to the set of a component, less the first number of the     *)
(* set, which counts from its own enumeration. The machine checks neither     *)
(* that the number means what the name says nor how many operands there are.  *)
(*                                                                         *)
(* `pushed` is the stack with its top first. What a value is does not matter  *)
(* here: it is told by who has pushed it.                                   *)
(***************************************************************************)
EXTENDS Integers, Sequences, SequencesExt

CONSTANTS
  Functions,   \* the Rust functions of the engine: a sequence of [name, arity]
  MaxPushed    \* bound: values on the stack before a call

VARIABLES
  engine, \* is the machine that of an engine, or has it only SmallPrimitiveSet?
  pushed, \* the stack
  ran     \* the last call: what was called with what, and what ran with what

primitiveVars == <<engine, pushed, ran>>

(* The discriminants of an enumeration.                                     *)
Numbered(first, names) == {<<first + i - 1, names[i]>> : i \in DOMAIN names}

NumberIn(enumeration, name) == CHOOSE n \in {p[1] : p \in enumeration} : <<n, name>> \in enumeration
NameIn(enumeration, n) ==
  IF \E p \in enumeration : p[1] = n THEN (CHOOSE p \in enumeration : p[1] = n)[2]
  ELSE "IllegalPrimitive"

-----------------------------------------------------------------------------
InexactPrimitive == Numbered(0, <<"Exponentiation", "Logarithm">>)
TypeCheckPrimitive == Numbered(0, <<"Null", "Pair">>)
ListPrimitive == Numbered(0, <<"Assq", "Cons", "Memq">>)
EqualPrimitive == Numbered(0, <<"Eqv", "EqualInner">>)
DevicePrimitive == Numbered(0, <<"Read", "Write", "WriteError">>)

FilePrimitiveSorted ==  \* mutant of FilePrimitive: the enumeration is sorted
  Numbered(0, <<"CloseFile", "DeleteFile", "ExistsFile", "OpenFile", "ReadFile", "WriteFile">>)

FilePrimitive ==
  Numbered(0, <<"OpenFile", "CloseFile", "ReadFile", "WriteFile", "DeleteFile", "ExistsFile">>)
ProcessContextPrimitive == Numbered(0, <<"CommandLine", "EnvironmentVariables">>)
TimePrimitive == Numbered(0, <<"CurrentJiffy">>)

SmallPrimitive == UNION {
  Numbered(0, <<"Rib", "Close", "IsRib", "Car", "Cdr", "Tag", "SetCar", "SetCdr", "Equal",
                "LessThan", "Add", "Subtract", "Multiply", "Divide", "Remainder",
                "Exponentiation", "Logarithm">>),
  Numbered(40, <<"Halt">>), Numbered(50, <<"Null", "Pair">>),
  Numbered(60, <<"Assq", "Cons", "Memq">>), Numbered(70, <<"Eqv", "EqualInner">>),
  Numbered(100, <<"Read", "Write", "WriteError">>),
  Numbered(200, <<"OpenFile", "CloseFile", "ReadFile", "WriteFile", "DeleteFile", "ExistsFile">>),
  Numbered(300, <<"CommandLine", "EnvironmentVariables">>), Numbered(400, <<"CurrentJiffy">>)}

(* The other sets: the names that SmallPrimitiveSet leaves to them.          *)
Delegate(names, set) == [names |-> ToSet(names), first |-> names[1], set |-> set]
Delegates ==
  {Delegate(<<"Exponentiation", "Logarithm">>, InexactPrimitive),
   Delegate(<<"Null", "Pair">>, TypeCheckPrimitive),
   Delegate(<<"Assq", "Cons", "Memq">>, ListPrimitive),
   Delegate(<<"Eqv", "EqualInner">>, EqualPrimitive),
   Delegate(<<"Read", "Write", "WriteError">>, DevicePrimitive),
   Delegate(<<"OpenFile", "CloseFile", "ReadFile", "WriteFile", "DeleteFile", "ExistsFile">>,
            FilePrimitive),
   Delegate(<<"CommandLine", "EnvironmentVariables">>, ProcessContextPrimitive),
   Delegate(<<"CurrentJiffy">>, TimePrimitive)}

SmallOperate(n) ==
  LET name == NameIn(SmallPrimitive, n)
      delegates == {d \in Delegates : name \in d.names}
  IN IF delegates = {} THEN name
     ELSE LET d == CHOOSE d \in delegates : TRUE
          IN NameIn(d.set, n - NumberIn(SmallPrimitive, d.first))

DynamicOffset == 1000
DynamicOperate(n) ==
  IF n + 1 \in DOMAIN Functions THEN Functions[n + 1].name ELSE "IllegalPrimitive"

Routine(n) ==
  IF engine /\ n >= DynamicOffset THEN DynamicOperate(n - DynamicOffset) ELSE SmallOperate(n)

(* How many values each routine pops. Write and WriteError only look at the  *)
(* top; it is their result.                                                *)
Pops(routine) ==
  CASE routine \in {"Halt", "Read", "CommandLine", "EnvironmentVariables", "CurrentJiffy"} -> 0
    [] routine \in {"Close", "IsRib", "Car", "Cdr", "Tag", "Exponentiation", "Logarithm",
                    "Null", "Pair", "CloseFile", "ReadFile", "DeleteFile", "ExistsFile",
                    "Write", "WriteError"} -> 1
    [] routine \in {"SetCar", "SetCdr", "Equal", "LessThan", "Add", "Subtract", "Multiply",
                    "Divide", "Remainder", "Assq", "Cons", "Memq", "Eqv", "EqualInner",
                    "OpenFile", "WriteFile"} -> 2
    [] routine = "Rib" -> 3
    [] OTHER -> (CHOOSE f \in ToSet(Functions) : f.name = routine).arity

(* pop_many: the last operand is on the top.                                *)
PopMany(stack, k) == Reverse(SubSeq(stack, 1, k))

-----------------------------------------------------------------------------
(* The procedures of programs: the number of each, and its operands in the    *)
(* calls of the prelude or, where it is exported, those its caller gives it.  *)

Procedure(name, number, operands, means) ==
  [name |-> name, number |-> number, operands |-> operands, means |-> means]

CompilerPrimitives ==
  {Procedure("$$rib", 0, 3, "Rib"), Procedure("$$close", 1, 1, "Close"),
   Procedure("$$<", 9, 2, "LessThan"), Procedure("$$+", 10, 2, "Add"),
   Procedure("$$-", 11, 2, "Subtract"), Procedure("$$*", 12, 2, "Multiply"),
   Procedure("$$/", 13, 2, "Divide")}

BasePrimitives ==
  {Procedure("close", 1, 1, "Close"), Procedure("rib?", 2, 1, "IsRib"),
   Procedure("rib-car", 3, 1, "Car"), Procedure("rib-cdr", 4, 1, "Cdr"),
   Procedure("rib-tag", 5, 1, "Tag"), Procedure("rib-set-car!", 6, 2, "SetCar"),
   Procedure("rib-set-cdr!", 7, 2, "SetCdr"), Procedure("eq?", 8, 2, "Equal"),
   Procedure("$<", 9, 2, "LessThan"), Procedure("$+", 10, 2, "Add"),
   Procedure("$-", 11, 2, "Subtract"), Procedure("$*", 12, 2, "Multiply"),
   Procedure("$/", 13, 2, "Divide"), Procedure("remainder", 14, 2, "Remainder"),
   Procedure("exp", 15, 1, "Exponentiation"), Procedure("$log", 16, 1, "Logarithm"),
   Procedure("null?", 50, 1, "Null"), Procedure("pair?", 51, 1, "Pair"),
   Procedure("assq", 60, 2, "Assq"), Procedure("cons", 61, 2, "Cons"),
   Procedure("memq", 62, 2, "Memq"), Procedure("eqv?", 70, 2, "Eqv"),
   Procedure("equal-inner?", 71, 2, "EqualInner")}

DevicePrimitives ==
  {Procedure("$halt", 40, 0, "Halt"), Procedure("$read-input", 100, 0, "Read"),
   Procedure("$write-output", 101, 1, "Write"), Procedure("$write-error", 102, 1, "WriteError")}

ContextPrimitives ==
  {Procedure("$command-line", 300, 0, "CommandLine"),
   Procedure("$get-environment-variables", 301, 0, "EnvironmentVariables")}

TimePrimitives == {Procedure("current-jiffy", 400, 0, "CurrentJiffy")}

FilePrimitives ==
  {Procedure("$open-file", 200, 2, "OpenFile"), Procedure("$close-file", 201, 1, "CloseFile"),
   Procedure("$read-file", 202, 1, "ReadFile"), Procedure("$write-file", 203, 2, "WriteFile"),
   Procedure("$delete-file", 204, 1, "DeleteFile"), Procedure("$exists-file", 205, 1, "ExistsFile")}

(* (define-rust name1 name2 ...) counts from 1000.                          *)
RustPrimitives ==
  {Procedure(Functions[i].name, 1000 + i - 1, Functions[i].arity, Functions[i].name) :
     i \in DOMAIN Functions}

Procedures ==
  UNION {CompilerPrimitives, BasePrimitives, DevicePrimitives, ContextPrimitives,
         TimePrimitives, FilePrimitives}
  \cup (IF engine THEN RustPrimitives ELSE {})

-----------------------------------------------------------------------------
NoCall == [routine |-> "none"]
Other == <<"other", 0>>

PrimitivesInit == engine \in BOOLEAN /\ pushed = <<>> /\ ran = NoCall

PushValue ==
  /\ Len(pushed) < MaxPushed
  /\ pushed' = <<Other>> \o pushed /\ ran' = NoCall
  /\ UNCHANGED engine

(* A call pushes its operands from the first to the last. Halt is an error.   *)
CallPrimitive(procedure) ==
  LET operands == [i \in 1 .. procedure.operands |-> <<procedure.name, i>>]
      stack == Reverse(operands) \o pushed
      routine == Routine(procedure.number)
  IN /\ Len(pushed) <= MaxPushed
     /\ ran' = [procedure |-> procedure, before |-> pushed, routine |-> routine,
                operands |-> IF routine = "IllegalPrimitive" THEN <<>>
                             ELSE PopMany(stack, Pops(routine))]
     /\ pushed' = IF routine \in {"IllegalPrimitive", "Halt"} THEN stack
                  ELSE <<Other>> \o SubSeq(stack, Pops(routine) + 1, Len(stack))
     /\ UNCHANGED engine

PrimitivesRun == ran.routine \notin {"IllegalPrimitive", "Halt"}

PrimitivesNext ==
  /\ PrimitivesRun
  /\ PushValue \/ \E procedure \in Procedures : CallPrimitive(procedure)

PrimitivesSpec == PrimitivesInit /\ [][PrimitivesNext]_primitiveVars

-----------------------------------------------------------------------------
(* What runs is what the name of the procedure says, with its operands in    *)
(* their order, and of the stack only they are replaced, by one value,        *)
(* whichever set the number was passed to: the numbers of the prelude and the *)
(* compiler, the enumerations of all the sets and the pops of every routine   *)
(* agree (r7rs/src/small.rs:139, engine/src/primitive_set.rs:50).            *)
PrimitivesAgree ==
  ran.routine # "none" =>
    /\ ran.routine = ran.procedure.means
    /\ ran.operands = [i \in 1 .. ran.procedure.operands |-> <<ran.procedure.name, i>>]
    /\ ran.routine # "Halt" => pushed = <<Other>> \o ran.before
=============================================================================
