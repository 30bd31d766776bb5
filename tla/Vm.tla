--------------------------------- MODULE Vm ---------------------------------
(***************************************************************************)
(* The instruction loop of the virtual machine (vm/src/vm.rs) with the      *)
(* primitives of r7rs/src/small.rs that only touch the heap.               *)
(*                                                                         *)
(* Memory is here what Store promises: cells with identities that nothing  *)
(* moves. An identity is a position in the sequence `heap`. What a moving  *)
(* collector does to the machine is kept in another way: an allocation     *)
(* makes every Rust local Stale but the one that receives its result.      *)
(*                                                                         *)
(* A program is what the decoder leaves: cells for code, constants and     *)
(* symbols. A code cell is (operand . next) and the tag of its cdr is the  *)
(* instruction.                                                            *)
(***************************************************************************)
EXTENDS Cells

CONSTANTS
  Programs,  \* decoded programs: [heap, false, code]
  MaxCells   \* bound: cells after which the memory is full

(* References stay inside of a heap.                                       *)
Values == [type : {"number"}, value : Int] \cup [type : {"cons"}, value : Nat]
CellSet == [car : Values, cdr : Values, tag : Int]
Refers(v, h) == IsCons(v) => v.value \in DOMAIN h
Closed(h) == \A i \in DOMAIN h : Refers(h[i].car, h) /\ Refers(h[i].cdr, h)

ASSUME ProgramsAssumption ==
  \A p \in Programs :
    /\ p.heap \in Seq(CellSet)
    /\ Closed(p.heap)
    /\ {Dummy, p.false, p.code} \subseteq DOMAIN p.heap

VARIABLES
  heap,      \* the cells
  false,     \* Memory::false, the cell (null . true)
  code,      \* Memory::code
  stack,     \* Memory::stack
  register,  \* Memory::register
  pc,        \* "run", a place in `call`, or the error that ended the run
  call,      \* the numbers and flags in the locals of `call`
  locals     \* the references in the locals of `call`

vars == <<heap, false, code, stack, register, pc, call, locals>>

Stale == 0  \* a reference that an allocation has invalidated, and NEVER

Null == AssumeCons(heap[false].car)
Boolean(b) == IF b THEN AssumeCons(heap[false].cdr) ELSE false

-----------------------------------------------------------------------------
(* Walking along the stack and the code.                                   *)

Cdr(h, i) == AssumeCons(h[i].cdr)

(* Memory::tail. The walk never leaves the heap; the test only says so.     *)
TailOf(list, index) ==
  LET walk[n \in 0 .. index] == IF n = 0 THEN list ELSE Cdr(heap, walk[n - 1])
  IN IF walk[index] \in DOMAIN heap THEN walk[index] ELSE Dummy

(* The frame nearest to the top of a stack.                                *)
FrameOf(h, top) ==
  LET walk[i \in DOMAIN h] == IF h[i].tag = FrameSlot THEN i ELSE walk[Cdr(h, i)]
  IN IF walk[top] \in DOMAIN h THEN walk[top] ELSE Dummy

Continuation(h, top) == AssumeCons(h[FrameOf(h, top)].car)

Instruction == heap[code].tag
Operand == heap[code].car
OperandCons ==
  IF IsCons(Operand) THEN Operand.value ELSE TailOf(stack, Operand.value)

Top == heap[stack].car
Popped == Cdr(heap, stack)

Pushed(h, s, v) == Append(h, Cell(v, Reference(s), PairType))

(* Memory::set_field keeps the tag of the field.                           *)
WithCar(h, i, v) == [h EXCEPT ![i].car = v]
WithCdr(h, i, v) == [h EXCEPT ![i] = Cell(@.car, v, @.tag)]

-----------------------------------------------------------------------------
(* advance_code, with the heap and the stack an instruction leaves. At the  *)
(* end of a procedure the top cell of the stack is taken over by the caller. *)
Advance(h, s) ==
  LET continuation == Continuation(h, s)
      shortened == WithCdr(h, s, h[continuation].cdr)
  IN /\ stack' = s
     /\ IF Cdr(h, code) = Null
        THEN /\ heap' = shortened
             /\ code' = Cdr(shortened, AssumeCons(shortened[continuation].car))
        ELSE heap' = h /\ code' = Cdr(h, code)

AdvanceWith(h, s, v) == Advance(Pushed(h, s, v), Len(h) + 1)

Fail(error) ==
  /\ pc' = error
  /\ UNCHANGED <<heap, false, code, stack, register, call, locals>>

HasMemory == Len(heap) < MaxCells
At(place) == pc = place /\ HasMemory

(* Vm::run stops at a null code.                                           *)
Fetches == At("run") /\ code # Null
Executes(instruction) == Fetches /\ Instruction = instruction
Simple == UNCHANGED <<false, register, pc, call, locals>>

ConstantStep ==
  /\ Executes(Constant)
  /\ AdvanceWith(heap, stack, Operand)
  /\ Simple

GetStep ==
  /\ Executes(Get)
  /\ AdvanceWith(heap, stack, heap[OperandCons].car)
  /\ Simple

SetStep ==
  /\ Executes(Set)
  /\ Advance(WithCar(heap, OperandCons, Top), Popped)
  /\ Simple

IfStep ==
  /\ Executes(If)
  /\ stack' = Popped
  /\ code' = IF Top = Reference(false) THEN Cdr(heap, code) ELSE AssumeCons(Operand)
  /\ UNCHANGED heap
  /\ Simple

NopStays ==  \* mutant of NopStep: the instruction does not advance
  /\ Executes(Nop)
  /\ UNCHANGED vars

NopStep ==
  /\ Executes(Nop)
  /\ Advance(heap, stack)
  /\ Simple

-----------------------------------------------------------------------------
(* call                                                                    *)

Count(arity) == arity \div 2
Variadic(arity) == arity % 2 = 1

NoCall == [count |-> 0, parameters |-> 0, variadic |-> FALSE,
           return |-> FALSE, primitive |-> 0]
NoLocals == [procedure |-> Stale, list |-> Stale, code |-> Stale,
             continuation |-> Stale]

(* What is left of the locals after an allocation: its result.             *)
Keep(name, i) == [NoLocals EXCEPT ![name] = i]

Calls == Fetches /\ Instruction >= Call
Arity == Instruction - Call
Procedure == AssumeCons(heap[OperandCons].car)
Lambda == heap[Procedure].car

ProcedureExpected ==
  /\ Calls
  /\ heap[Procedure].tag # ProcedureType
  /\ Fail("ProcedureExpected")

CallClosure ==
  /\ Calls
  /\ heap[Procedure].tag = ProcedureType
  /\ IsCons(Lambda)
  /\ LET parameters == AssumeNumber(heap[Lambda.value].car) IN
       call' = [count |-> Count(Arity),
                parameters |-> Count(parameters),
                variadic |-> Variadic(parameters),
                return |-> Cdr(heap, code) = Null,
                primitive |-> 0]
  /\ register' = Procedure
  /\ stack' = IF Variadic(Arity) THEN Popped ELSE stack
  /\ locals' = [NoLocals EXCEPT
       !.procedure = Procedure,
       !.list = IF Variadic(Arity) THEN AssumeCons(Top) ELSE Null]
  /\ pc' = "arguments"
  /\ UNCHANGED <<heap, false, code>>

CollectAnotherArgument ==  \* mutant of CollectArgument: one argument too many
  /\ At("arguments")
  /\ call.count >= 0
  /\ heap' = Append(heap, Cell(Top, Reference(locals.list), PairType))
  /\ stack' = Popped
  /\ call' = [call EXCEPT !.count = @ - 1]
  /\ locals' = Keep("list", Len(heap) + 1)
  /\ UNCHANGED <<false, code, register, pc>>

CollectArgument ==
  /\ At("arguments")
  /\ call.count > 0
  /\ heap' = Append(heap, Cell(Top, Reference(locals.list), PairType))
  /\ stack' = Popped
  /\ call' = [call EXCEPT !.count = @ - 1]
  /\ locals' = Keep("list", Len(heap) + 1)
  /\ UNCHANGED <<false, code, register, pc>>

(* Mutant of EnterProcedure: the local `procedure` instead of the register.                  *)
EnterProcedureByLocal ==
  /\ At("arguments")
  /\ call.count = 0
  /\ code' = locals.procedure
  /\ register' = locals.list
  /\ heap' = Append(heap, Cell(Reference(code), Reference(stack), PairType))
  /\ locals' = Keep("continuation", Len(heap) + 1)
  /\ pc' = "frame"
  /\ UNCHANGED <<false, stack, call>>

(* Mutant of EnterProcedure: a tail call that saves a continuation as other calls do.         *)
EnterProcedureDeeper ==
  /\ At("arguments")
  /\ call.count = 0
  /\ code' = register
  /\ register' = locals.list
  /\ heap' = Append(heap, Cell(Reference(code), Reference(stack), PairType))
  /\ locals' = Keep("continuation", Len(heap) + 1)
  /\ pc' = "frame"
  /\ UNCHANGED <<false, stack, call>>

(* The `code` field holds the procedure while the register holds the list.  *)
EnterProcedure ==
  /\ At("arguments")
  /\ call.count = 0
  /\ code' = register
  /\ register' = locals.list
  /\ IF call.return
     THEN /\ locals' = [locals EXCEPT !.code = code,
                          !.continuation = Continuation(heap, stack)]
          /\ UNCHANGED heap
     ELSE /\ heap' = Append(heap, Cell(Reference(code), Reference(stack), PairType))
          /\ locals' = Keep("continuation", Len(heap) + 1)
  /\ pc' = "frame"
  /\ UNCHANGED <<false, stack, call>>

PushFrame ==
  /\ At("frame")
  /\ heap' = Append(heap,
       Cell(Reference(locals.continuation), Reference(Cdr(heap, code)), FrameSlot))
  /\ stack' = Len(heap) + 1
  /\ code' = Cdr(heap, AssumeCons(heap[code].car))
  /\ locals' = NoLocals
  /\ pc' = "parameters"
  /\ UNCHANGED <<false, register, call>>

(* Parameters and the arguments of a primitive come from the list in the   *)
(* register, which every push keeps up to date.                            *)
PushFromRegister ==
  /\ heap' = Pushed(heap, stack, heap[register].car)
  /\ stack' = Len(heap) + 1
  /\ register' = Cdr(heap, register)

BindParameter ==
  /\ At("parameters")
  /\ call.parameters > 0
  /\ register # Null
  /\ PushFromRegister
  /\ call' = [call EXCEPT !.parameters = @ - 1]
  /\ UNCHANGED <<false, code, pc, locals>>

BindRest ==
  /\ At("parameters")
  /\ call.parameters = 0
  /\ call.variadic
  /\ heap' = Pushed(heap, stack, Reference(register))
  /\ stack' = Len(heap) + 1
  /\ call' = NoCall
  /\ pc' = "run"
  /\ UNCHANGED <<false, code, register, locals>>

StartBody ==
  /\ At("parameters")
  /\ call.parameters = 0
  /\ ~call.variadic
  /\ register = Null
  /\ call' = NoCall
  /\ pc' = "run"
  /\ UNCHANGED <<heap, false, code, stack, register, locals>>

ArgumentCount ==
  /\ At("parameters")
  /\ IF call.parameters > 0 THEN register = Null ELSE ~call.variadic /\ register # Null
  /\ Fail("ArgumentCount")

-----------------------------------------------------------------------------
(* Primitives. The numbers are those of r7rs/src/small/primitive.rs.        *)

CallPrimitive ==
  /\ Calls
  /\ heap[Procedure].tag = ProcedureType
  /\ ~IsCons(Lambda)
  /\ call' = [NoCall EXCEPT !.primitive = Lambda.value]
  /\ IF Variadic(Arity)
     THEN register' = AssumeCons(Top) /\ stack' = Popped /\ pc' = "spread"
     ELSE pc' = "operate" /\ UNCHANGED <<register, stack>>
  /\ UNCHANGED <<heap, false, code, locals>>

SpreadArgument ==
  /\ At("spread")
  /\ register # Null
  /\ PushFromRegister
  /\ UNCHANGED <<false, code, pc, call, locals>>

SpreadEnd ==
  /\ At("spread")
  /\ register = Null
  /\ pc' = "operate"
  /\ UNCHANGED <<heap, false, code, stack, register, call, locals>>

Operates(primitive) == At("operate") /\ call.primitive = primitive
Argument(n) == heap[TailOf(stack, n - 1)].car  \* the n-th from the top
Cell_(n) == AssumeCons(Argument(n))

Finish(h, s, v) ==
  /\ AdvanceWith(h, s, v)
  /\ pc' = "run"
  /\ call' = NoCall
  /\ UNCHANGED <<false, register, locals>>

FinishCell(s, cell) == Finish(Append(heap, cell), s, Reference(Len(heap) + 1))

Rib ==
  /\ Operates(0)
  /\ FinishCell(TailOf(stack, 3),
       Cell(Argument(3), Argument(2), AssumeNumber(Argument(1))))

(* CLOSE: the code of a procedure with the stack below it.                 *)
Close ==
  /\ Operates(1)
  /\ FinishCell(Popped,
       Cell(heap[Cell_(1)].car, Reference(Popped), ProcedureType))

ConsPair ==
  /\ Operates(61)
  /\ FinishCell(TailOf(stack, 2), Cell(Argument(2), Argument(1), PairType))

UnaryValue(primitive) ==
  CASE primitive = 2 -> Reference(Boolean(IsCons(Argument(1))))
    [] primitive = 3 -> heap[Cell_(1)].car
    [] primitive = 4 -> heap[Cell_(1)].cdr
    [] primitive = 5 -> Number(heap[Cell_(1)].tag)

Unary ==
  /\ At("operate")
  /\ call.primitive \in 2 .. 5
  /\ Finish(heap, Popped, UnaryValue(call.primitive))

SetCar ==
  /\ Operates(6)
  /\ Finish(WithCar(heap, Cell_(2), Argument(1)), TailOf(stack, 2), Argument(1))

SetCdr ==
  /\ Operates(7)
  /\ Finish(WithCdr(heap, Cell_(2), Argument(1)), TailOf(stack, 2), Argument(1))

BinaryValue(primitive) ==
  LET x == AssumeNumber(Argument(2))
      y == AssumeNumber(Argument(1))
  IN CASE primitive = 8 -> Reference(Boolean(Argument(2) = Argument(1)))
       [] primitive = 9 -> Reference(Boolean(x < y))
       [] primitive = 10 -> Number(x + y)
       [] primitive = 11 -> Number(x - y)
       [] primitive = 12 -> Number(x * y)

(* Mutant of Binary: the result takes the place of the first operand.      *)
BinaryInPlace ==
  /\ At("operate")
  /\ call.primitive \in 8 .. 12
  /\ Advance(WithCar(heap, Popped, BinaryValue(call.primitive)), Popped)
  /\ pc' = "run"
  /\ call' = NoCall
  /\ UNCHANGED <<false, register, locals>>

Binary ==
  /\ At("operate")
  /\ call.primitive \in 8 .. 12
  /\ Finish(heap, TailOf(stack, 2), BinaryValue(call.primitive))

Halt ==
  /\ Operates(40)
  /\ Fail("Halt")

IllegalPrimitive ==
  /\ At("operate")
  /\ call.primitive \notin 0 .. 12 \cup {40, 61}
  /\ Fail("IllegalPrimitive")

-----------------------------------------------------------------------------
Running == {"run", "arguments", "frame", "parameters", "spread", "operate"}
Errors == {"ProcedureExpected", "ArgumentCount", "Halt", "IllegalPrimitive", "OutOfMemory"}
Finished == pc \notin Running \/ (pc = "run" /\ code = Null)

OutOfMemory ==
  /\ ~Finished
  /\ ~HasMemory
  /\ Fail("OutOfMemory")

Next ==
  \/ ConstantStep \/ GetStep \/ SetStep \/ IfStep \/ NopStep
  \/ ProcedureExpected \/ CallClosure \/ CollectArgument \/ EnterProcedure
  \/ PushFrame \/ BindParameter \/ BindRest \/ StartBody \/ ArgumentCount
  \/ CallPrimitive \/ SpreadArgument \/ SpreadEnd
  \/ Rib \/ Close \/ ConsPair \/ Unary \/ SetCar \/ SetCdr \/ Binary
  \/ Halt \/ IllegalPrimitive \/ OutOfMemory

(* initialize: the decoded program and a frame that returns to nothing.    *)
Load(p) ==
  LET n == Len(p.heap)
      null == p.heap[p.false].car
      bottom == Append(p.heap, Cell(Number(0), null, PairType))
      returning == Append(bottom, Cell(Reference(n + 1), null, PairType))
  IN /\ heap = Append(returning, Cell(Reference(n + 2), null, FrameSlot))
     /\ false = p.false
     /\ code = p.code
     /\ stack = n + 3
     /\ register = Stale
     /\ pc = "run"
     /\ call = NoCall
     /\ locals = NoLocals

Init == \E p \in Programs : Load(p)

(* Nothing but the machine itself stops it.                                *)
Spec == Init /\ [][Next]_vars /\ WF_vars(Next)

-----------------------------------------------------------------------------
TypeOK ==
  /\ heap \in Seq(CellSet)
  /\ {false, code, stack, register} \subseteq Nat
  /\ pc \in Running \cup Errors
  /\ call \in [count : Nat, parameters : Int, variadic : BOOLEAN,
               return : BOOLEAN, primitive : Int]
  /\ locals \in [procedure : Nat, list : Nat, code : Nat, continuation : Nat]

(* No register, no field of a cell and no local of `call` that is still to   *)
(* be read refers to anything but a cell: "some routines look unnecessarily *)
(* complicated as we need to mark all volatile variables live across        *)
(* garbage collections" (vm.rs:53). A local that is used after the          *)
(* allocation that invalidated it leaves a Stale reference here.            *)
HeapClosed ==
  /\ Closed(heap)
  /\ {Dummy, false, code, stack} \subseteq DOMAIN heap
  /\ register \in DOMAIN heap \cup {Stale}
  /\ pc = "arguments" => {register, locals.list} \subseteq DOMAIN heap
  /\ pc = "frame" => {register, locals.continuation} \subseteq DOMAIN heap
  /\ pc \in {"parameters", "spread"} => register \in DOMAIN heap

(* A suspended caller finds its stack as it left it: no step relinks a cell  *)
(* of a stack that a frame will return to. The value that a return leaves   *)
(* on top, whose cdr advance_code writes in place, is shared with no one.   *)
Suspended ==
  {Cdr(heap, AssumeCons(heap[i].car)) :
     i \in {j \in DOMAIN heap : heap[j].tag = FrameSlot /\ j # Null}}

StackCells(top) ==
  LET walk[i \in DOMAIN heap] == IF i = Null THEN {} ELSE {i} \cup walk[Cdr(heap, i)]
  IN walk[top]

StacksKept ==
  [][\A top \in Suspended : \A i \in StackCells(top) : heap'[i].cdr = heap[i].cdr]_vars

(* Every run of a program that terminates comes to its end: no loop of the   *)
(* interpreter (over arguments, parameters, frames) goes on without one.    *)
Ends == <>Finished
=============================================================================
