------------------------------- MODULE MCValues -------------------------------
(***************************************************************************)
(* Values from the machine word to the host: words (Words), data and the      *)
(* primitives that look at them (Natives), what the host sends (HostData) and *)
(* what it keeps for Scheme (Dynamic), and the primitives that programs call  *)
(* by number (Primitives). They share no variable: a behaviour is about one   *)
(* of them.                                                                *)
(***************************************************************************)
EXTENDS Words, Natives, HostData, Dynamic, Primitives

VARIABLE about  \* "words", "data", "host", "table" or "primitives"

mcVars == <<wordVars, dataVars, hostVars, vars, primitiveVars, about>>

MCInit ==
  /\ WordInit /\ DataInit /\ HostInit /\ Init /\ PrimitivesInit
  /\ about \in {"words", "data", "host", "table", "primitives"}
  /\ about # "primitives" => ~engine

On(part) == about = part /\ UNCHANGED about
OnWords(A) == On("words") /\ A /\ UNCHANGED <<dataVars, hostVars, vars, primitiveVars>>
OnData(A) == On("data") /\ A /\ UNCHANGED <<wordVars, hostVars, vars, primitiveVars>>
OnHost(A) == On("host") /\ A /\ UNCHANGED <<wordVars, dataVars, vars, primitiveVars>>
OnTable(A) == On("table") /\ A /\ UNCHANGED <<wordVars, dataVars, hostVars, primitiveVars>>
OnPrimitives(A) == On("primitives") /\ A /\ UNCHANGED <<wordVars, dataVars, hostVars, vars>>

MCNext ==
  \/ \E n \in Literals : OnWords(~trapped /\ Literal(n))
  \/ \E i \in Indices : OnWords(~trapped /\ Refer(i))
  \/ \E t \in TagsSet : OnWords(~trapped /\ Retag(t))
  \/ \E n \in Literals : OnWords(~trapped /\ Plus(n))
  \/ \E n \in Literals : OnWords(~trapped /\ Minus(n))
  \/ \E n \in Literals : OnWords(~trapped /\ Times(n))
  \/ \E n \in Literals : OnWords(~trapped /\ QuotientBy(n))
  \/ \E n \in Literals : OnWords(~trapped /\ ModuloBy(n))
  \/ \E n \in Literals : OnWords(~trapped /\ MaximumWith(n))
  \/ OnWords(~trapped /\ AbsoluteValue)
  \/ \E car, cdr \in Data : OnData(MakePair(car, cdr))
  \/ \E n \in DataNumbers : OnData(MakeCharacter(n))
  \/ OnData(MakeSymbol)
  \/ \E i \in Lists : OnData(MakeString(i))
  \/ \E i \in Lists : OnData(MakeVector(i))
  \/ \E kind \in Kinds, strings \in CommandLines : OnHost(CommandLine(kind, strings))
  \/ \E kind \in Kinds, variables \in Environments : OnHost(Environment(kind, variables))
  \/ \E a \in Arguments : OnHost(CallIdentity(a))
  \/ OnHost(AddCharacter)
  \/ OnHost(NextArgument)
  \/ OnHost(LinkArgument)
  \/ OnHost(MakeEntry)
  \/ OnHost(LinkEntry)
  \/ OnHost(SetName)
  \/ OnHost(SetVariable)
  \/ OnHost(Push)
  \/ OnHost(ReturnString)
  \/ OnHost(HostFail)
  \/ OnTable(Operate)
  \/ OnTable(FillSlot)
  \/ OnTable(AllocateCell)
  \/ OnTable(FailToAllocate)
  \/ OnTable(Forget)
  \/ OnTable(CollectHeap)
  \/ OnTable(Forge)
  \/ OnTable(RunNext)
  \/ OnPrimitives(PrimitivesRun /\ PushValue)
  \/ \E procedure \in Procedures : OnPrimitives(PrimitivesRun /\ CallPrimitive(procedure))

MCSpec == MCInit /\ [][MCNext]_mcVars

SomeNumbers == {-7, -1, 0, 1, 3, 10, 100}

Texts == {<<>>, <<1>>, <<1, 2>>}
SomeCommandLines == UNION {[1 .. n -> Texts] : n \in 0 .. 2}
SomeEnvironments ==
  {<<>>} \cup {<< <<<<1>>, v>> >> : v \in Texts}
         \cup {<< <<<<1>>, v>>, <<<<1, 2>>, w>> >> : v \in Texts, w \in Texts}

SomeFunctions == <<[name |-> "make", arity |-> 0], [name |-> "add", arity |-> 3]>>

Called(type, set) == {[type |-> type, value |-> v] : v \in set}
SomeArguments ==
  Called("string", Texts) \cup Called("integer", -9 .. 9) \cup Called("boolean", BOOLEAN)
=============================================================================
