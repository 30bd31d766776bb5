----------------------------- MODULE Execution ------------------------------
(***************************************************************************)
(* A program compiled (Compiler), run (Vm) and compared with its meaning    *)
(* (Scheme). The two machines share nothing: the virtual machine runs       *)
(* first, then the abstract one.                                           *)
(***************************************************************************)
EXTENDS Vm, Prelude

CONSTANTS
  Expressions,  \* programs
  MachineOnly,  \* those of them that only the machine runs
  Operators,    \* what Scheme has for primitives
  Variables     \* the global names that are variables of the programs

VARIABLES expression, control, env, store, frames

S == INSTANCE Scheme

meaningVars == <<expression, control, env, store, frames>>
execVars == <<vars, meaningVars>>

ExecInit == S!SchemeInit /\ Load(Program(expression))

(* The machine runs first, then the language's.                            *)
Runs(A) == A /\ UNCHANGED meaningVars
Means(A) == Finished /\ expression \notin MachineOnly /\ A /\ UNCHANGED vars

ExecNext ==
  \/ Runs(ConstantStep) \/ Runs(GetStep) \/ Runs(SetStep) \/ Runs(IfStep) \/ Runs(NopStep)
  \/ Runs(ProcedureExpected) \/ Runs(CallClosure) \/ Runs(CollectArgument)
  \/ Runs(EnterProcedure) \/ Runs(PushFrame) \/ Runs(BindParameter) \/ Runs(BindRest)
  \/ Runs(StartBody) \/ Runs(ArgumentCount) \/ Runs(CallPrimitive)
  \/ Runs(SpreadArgument) \/ Runs(SpreadEnd) \/ Runs(Rib) \/ Runs(Close)
  \/ Runs(ConsPair) \/ Runs(Unary) \/ Runs(SetCar) \/ Runs(SetCdr) \/ Runs(Binary)
  \/ Runs(Halt) \/ Runs(IllegalPrimitive) \/ Runs(OutOfMemory)
  \/ Means(S!EvaluateAtom) \/ Means(S!EvaluatePart) \/ Means(S!ResumeSet)
  \/ Means(S!ResumeIf) \/ Means(S!ResumeBegin) \/ Means(S!ResumeCall)
  \/ Means(S!ApplyClosure) \/ Means(S!ApplyContinuation) \/ Means(S!CallCc)
  \/ Means(S!ApplyPrimitive) \/ Means(S!ApplyOther)

ExecSpec == ExecInit /\ [][ExecNext]_execVars /\ WF_execVars(ExecNext)

BothFinished == Finished /\ S!SchemeFinished

(* A value of the machine shows a value of the language, as far as a        *)
(* program can tell without calling it or taking it apart.                 *)
Shows(v, meaning) ==
  CASE meaning.kind = "number" -> v = Number(meaning.n)
    [] meaning.kind = "boolean" -> v = Reference(Boolean(meaning.b))
    [] meaning.kind = "nil" -> v = Reference(Null)
    [] meaning.kind = "pair" -> IsCons(v) /\ heap[v.value].tag = PairType
    [] OTHER -> IsCons(v) /\ heap[v.value].tag = ProcedureType

(* A compiled program ends as its expression does: with the same error or   *)
(* the same value, and with the same values in the global variables. This   *)
(* is the promise of compile.scm and vm.rs together, over calls, tail       *)
(* calls, variadic procedures, assignments and re-entered continuations.    *)
MeaningKept ==
  BothFinished =>
    IF pc = "run"
    THEN /\ control.mode = "value"
         /\ Shows(Top, control.v)
         /\ \A x \in Variables :
              Shows(heap[SymbolCell(x)].car, store[S!Location(x)])
    ELSE control.mode = "failed" /\ control.why = pc
=============================================================================
