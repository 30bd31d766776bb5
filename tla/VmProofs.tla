------------------------------ MODULE VmProofs ------------------------------
(***************************************************************************)
(* The virtual machine never follows or stores a reference that an          *)
(* allocation has invalidated, whatever the program.                       *)
(***************************************************************************)
EXTENDS Vm, TLAPS, SequenceTheorems

HeapOK(h) == h \in Seq(CellSet) /\ Closed(h) /\ Dummy \in DOMAIN h

-----------------------------------------------------------------------------
(* Cells and heaps.                                                        *)

LEMMA ValueFacts ==
  /\ \A n \in Int : Number(n) \in Values /\ ~IsCons(Number(n))
  /\ \A i \in Nat : Reference(i) \in Values /\ IsCons(Reference(i))
                    /\ Reference(i).value = i
  /\ \A v \in Values : IsCons(v) => v.value \in Nat
  /\ \A v \in Values : ~IsCons(v) => v.value \in Int
BY DEF Number, Reference, Values, IsCons

LEMMA CellFacts ==
  ASSUME NEW car \in Values, NEW cdr \in Values, NEW tag \in Int
  PROVE  /\ Cell(car, cdr, tag) \in CellSet
         /\ Cell(car, cdr, tag).car = car
         /\ Cell(car, cdr, tag).cdr = cdr
BY DEF Cell, CellSet

LEMMA Indices ==
  ASSUME NEW h \in Seq(CellSet)
  PROVE  /\ DOMAIN h = 1 .. Len(h)
         /\ Len(h) \in Nat
         /\ \A i \in DOMAIN h : h[i] \in CellSet /\ i \in Nat
<1>1. h \in [1 .. Len(h) -> CellSet] /\ Len(h) \in Nat
  BY LenProperties
<1> QED
  BY <1>1

LEMMA Extended ==
  ASSUME NEW h, HeapOK(h), NEW c \in CellSet, Refers(c.car, h), Refers(c.cdr, h)
  PROVE  /\ HeapOK(Append(h, c))
         /\ Len(Append(h, c)) = Len(h) + 1
         /\ Len(h) + 1 \in DOMAIN Append(h, c)
         /\ Len(h) + 1 \in Nat
         /\ DOMAIN h \subseteq DOMAIN Append(h, c)
<1> DEFINE g == Append(h, c)
<1>1. h \in Seq(CellSet)
  BY DEF HeapOK
<1>2. DOMAIN h = 1 .. Len(h) /\ Len(h) \in Nat
  BY <1>1, Indices
<1>3. /\ g \in Seq(CellSet)
      /\ Len(g) = Len(h) + 1
      /\ \A i \in 1 .. Len(h) : g[i] = h[i]
      /\ g[Len(h) + 1] = c
  BY <1>1, AppendProperties
<1>4. DOMAIN g = 1 .. Len(g)
  BY <1>3, Indices
<1>5. Closed(g)
  <2> SUFFICES ASSUME NEW i \in DOMAIN g
               PROVE  Refers(g[i].car, g) /\ Refers(g[i].cdr, g)
    BY DEF Closed
  <2>1. CASE i \in DOMAIN h
    BY <2>1, <1>2, <1>3, <1>4 DEF HeapOK, Closed, Refers
  <2>2. CASE i = Len(h) + 1
    BY <2>2, <1>2, <1>3, <1>4 DEF Refers
  <2> QED
    BY <2>1, <2>2, <1>2, <1>3, <1>4
<1>6. Dummy \in DOMAIN g
  BY <1>2, <1>3, <1>4 DEF HeapOK, Dummy
<1> QED
  BY <1>2, <1>3, <1>4, <1>5, <1>6 DEF HeapOK

LEMMA Overwritten ==
  ASSUME NEW h, HeapOK(h), NEW i \in DOMAIN h, NEW c \in CellSet,
         Refers(c.car, h), Refers(c.cdr, h)
  PROVE  HeapOK([h EXCEPT ![i] = c]) /\ DOMAIN [h EXCEPT ![i] = c] = DOMAIN h
<1> DEFINE g == [h EXCEPT ![i] = c]
<1>1. DOMAIN h = 1 .. Len(h) /\ Len(h) \in Nat /\ \A j \in DOMAIN h : h[j] \in CellSet
  BY Indices DEF HeapOK
<1>2. g \in Seq(CellSet) /\ DOMAIN g = DOMAIN h
  BY ExceptSeq, <1>1 DEF HeapOK
<1>3. \A j \in DOMAIN h : g[j] = IF j = i THEN c ELSE h[j]
  BY <1>1 DEF HeapOK
<1>4. Closed(g)
  BY <1>2, <1>3 DEF HeapOK, Closed, Refers
<1> QED
  BY <1>2, <1>4 DEF HeapOK

LEMMA CarWritten ==
  ASSUME NEW h, HeapOK(h), NEW i \in DOMAIN h, NEW v \in Values, Refers(v, h)
  PROVE  HeapOK(WithCar(h, i, v)) /\ DOMAIN WithCar(h, i, v) = DOMAIN h
<1> DEFINE c == [h[i] EXCEPT !.car = v]
<1>1. h[i] \in CellSet
  BY Indices DEF HeapOK
<1>2. c \in CellSet /\ c.car = v /\ c.cdr = h[i].cdr
  BY <1>1 DEF CellSet
<1>3. Refers(c.car, h) /\ Refers(c.cdr, h)
  BY <1>2 DEF HeapOK, Closed
<1>4. WithCar(h, i, v) = [h EXCEPT ![i] = c]
  BY DEF WithCar
<1> HIDE DEF c
<1>6. HeapOK([h EXCEPT ![i] = c]) /\ DOMAIN [h EXCEPT ![i] = c] = DOMAIN h
  BY <1>2, <1>3, Overwritten
<1> QED
  BY <1>4, <1>6

LEMMA CdrWritten ==
  ASSUME NEW h, HeapOK(h), NEW i \in DOMAIN h, NEW v \in Values, Refers(v, h)
  PROVE  HeapOK(WithCdr(h, i, v)) /\ DOMAIN WithCdr(h, i, v) = DOMAIN h
<1> DEFINE c == Cell(h[i].car, v, h[i].tag)
<1>1. h[i] \in CellSet
  BY Indices DEF HeapOK
<1>2. h[i].car \in Values /\ h[i].tag \in Int
  BY <1>1 DEF CellSet
<1>3. c \in CellSet /\ c.car = h[i].car /\ c.cdr = v
  BY <1>2, CellFacts
<1>4. Refers(c.car, h) /\ Refers(c.cdr, h)
  BY <1>3 DEF HeapOK, Closed
<1>5. WithCdr(h, i, v) = [h EXCEPT ![i] = c]
  BY DEF WithCdr
<1> HIDE DEF c
<1>6. HeapOK([h EXCEPT ![i] = c]) /\ DOMAIN [h EXCEPT ![i] = c] = DOMAIN h
  BY <1>3, <1>4, Overwritten
<1> QED
  BY <1>5, <1>6

LEMMA Fields ==
  ASSUME NEW h, HeapOK(h), NEW i \in DOMAIN h
  PROVE  /\ i \in Nat
         /\ h[i].car \in Values /\ Refers(h[i].car, h)
         /\ h[i].cdr \in Values /\ Refers(h[i].cdr, h)
         /\ h[i].tag \in Int
<1>1. h[i] \in CellSet /\ i \in Nat
  BY Indices DEF HeapOK
<1> QED
  BY <1>1 DEF HeapOK, Closed, CellSet

LEMMA Assumed ==
  ASSUME NEW h, HeapOK(h), NEW v \in Values, Refers(v, h)
  PROVE  AssumeCons(v) \in DOMAIN h /\ AssumeNumber(v) \in Int
BY ValueFacts DEF AssumeCons, AssumeNumber, Refers, HeapOK, IsCons

LEMMA Follow ==
  ASSUME NEW h, HeapOK(h), NEW i \in DOMAIN h
  PROVE  Cdr(h, i) \in DOMAIN h
BY Fields, Assumed DEF Cdr

-----------------------------------------------------------------------------
(* Walks, and what advance_code leaves.                                    *)

(* The part of the invariant that is about references.                     *)
Registers ==
  /\ HeapOK(heap)
  /\ {false, code, stack} \subseteq DOMAIN heap
  /\ register \in DOMAIN heap \cup {Stale}

LEMMA Walks ==
  ASSUME NEW h, HeapOK(h), NEW i \in DOMAIN h
  PROVE  /\ FrameOf(h, i) \in DOMAIN h
         /\ Continuation(h, i) \in DOMAIN h
<1>1. FrameOf(h, i) \in DOMAIN h
  BY DEF FrameOf, HeapOK
<1> QED
  BY <1>1, Fields, Assumed DEF Continuation

LEMMA TailFound ==
  ASSUME Registers, NEW list, NEW n
  PROVE  TailOf(list, n) \in DOMAIN heap
BY DEF TailOf, Registers, HeapOK

LEMMA Advanced ==
  ASSUME NEW h, HeapOK(h), NEW s \in DOMAIN h, code \in DOMAIN h, Advance(h, s)
  PROVE  /\ HeapOK(heap') /\ DOMAIN heap' = DOMAIN h
         /\ code' \in DOMAIN heap' /\ stack' \in DOMAIN heap'
<1> DEFINE k == Continuation(h, s)
           g == WithCdr(h, s, h[k].cdr)
<1>1. k \in DOMAIN h
  BY Walks
<1>2. h[k].cdr \in Values /\ Refers(h[k].cdr, h)
  BY <1>1, Fields
<1>3. HeapOK(g) /\ DOMAIN g = DOMAIN h
  BY <1>2, CdrWritten
<1>4. Cdr(h, code) \in DOMAIN h
  BY Follow
<1>5. g[k].car \in Values /\ Refers(g[k].car, g)
  BY <1>1, <1>3, Fields
<1>6. AssumeCons(g[k].car) \in DOMAIN g
  BY <1>3, <1>5, Assumed
<1>7. Cdr(g, AssumeCons(g[k].car)) \in DOMAIN g
  BY <1>3, <1>6, Follow
<1>8. /\ stack' = s
      /\ IF Cdr(h, code) = Null THEN heap' = g /\ code' = Cdr(g, AssumeCons(g[k].car))
         ELSE heap' = h /\ code' = Cdr(h, code)
  BY DEF Advance
<1> HIDE DEF g
<1> QED
  BY <1>3, <1>4, <1>7, <1>8

LEMMA PushedOK ==
  ASSUME NEW h, HeapOK(h), NEW s \in DOMAIN h, NEW v \in Values, Refers(v, h)
  PROVE  /\ HeapOK(Pushed(h, s, v))
         /\ Len(h) + 1 \in DOMAIN Pushed(h, s, v)
         /\ Len(h) + 1 \in Nat
         /\ DOMAIN h \subseteq DOMAIN Pushed(h, s, v)
<1> DEFINE c == Cell(v, Reference(s), PairType)
<1>1. s \in Nat
  BY Fields
<1>2. Reference(s) \in Values /\ Refers(Reference(s), h)
  BY <1>1, ValueFacts DEF Refers
<1>3. c \in CellSet /\ c.car = v /\ c.cdr = Reference(s)
  BY <1>2, CellFacts DEF PairType
<1>4. Pushed(h, s, v) = Append(h, c)
  BY DEF Pushed
<1> HIDE DEF c
<1> QED
  BY <1>2, <1>3, <1>4, Extended

LEMMA AdvancedWith ==
  ASSUME NEW h, HeapOK(h), NEW s \in DOMAIN h, NEW v \in Values, Refers(v, h),
         code \in DOMAIN h, AdvanceWith(h, s, v)
  PROVE  /\ HeapOK(heap') /\ DOMAIN h \subseteq DOMAIN heap'
         /\ code' \in DOMAIN heap' /\ stack' \in DOMAIN heap'
<1> DEFINE g == Pushed(h, s, v)
           n == Len(h) + 1
<1>1. HeapOK(g) /\ n \in DOMAIN g /\ DOMAIN h \subseteq DOMAIN g
  BY PushedOK
<1>2. Advance(g, n)
  BY DEF AdvanceWith
<1>3. code \in DOMAIN g
  BY <1>1
<1> HIDE DEF g, n
<1> QED
  BY <1>1, <1>2, <1>3, Advanced

-----------------------------------------------------------------------------
(* What a state of the invariant offers, and what the next one must.       *)

Inv == TypeOK /\ HeapClosed

CallRecords ==
  [count : Nat, parameters : Int, variadic : BOOLEAN, return : BOOLEAN, primitive : Int]
LocalRecords == [procedure : Nat, list : Nat, code : Nat, continuation : Nat]

LEMMA Available ==
  ASSUME Inv
  PROVE  /\ Registers
         /\ HeapOK(heap)
         /\ {code, stack, false} \subseteq DOMAIN heap
         /\ DOMAIN heap \subseteq Nat
         /\ call \in CallRecords
         /\ locals \in LocalRecords
<1>1. HeapOK(heap) /\ Registers
  BY DEF Inv, TypeOK, HeapClosed, HeapOK, Registers
<1>2. DOMAIN heap \subseteq Nat
  BY <1>1, Fields
<1> QED
  BY <1>1, <1>2 DEF Registers, Inv, TypeOK, CallRecords, LocalRecords

LEMMA Reads ==
  ASSUME Inv
  PROVE  /\ Null \in DOMAIN heap
         /\ Operand \in Values /\ Refers(Operand, heap)
         /\ AssumeCons(Operand) \in DOMAIN heap
         /\ Instruction \in Int
         /\ OperandCons \in DOMAIN heap
         /\ Top \in Values /\ Refers(Top, heap)
         /\ AssumeCons(Top) \in DOMAIN heap
         /\ Popped \in DOMAIN heap
         /\ Cdr(heap, code) \in DOMAIN heap
<1>1. Registers /\ HeapOK(heap) /\ {code, stack, false} \subseteq DOMAIN heap
  BY Available
<1>2. Null \in DOMAIN heap
  BY <1>1, Fields, Assumed DEF Null
<1>3. Operand \in Values /\ Refers(Operand, heap) /\ Instruction \in Int
  BY <1>1, Fields DEF Operand, Instruction
<1>4. AssumeCons(Operand) \in DOMAIN heap
  BY <1>1, <1>3, Assumed
<1>5. OperandCons \in DOMAIN heap
  BY <1>1, <1>3, TailFound DEF OperandCons, Refers
<1>6. Top \in Values /\ Refers(Top, heap)
  BY <1>1, Fields DEF Top
<1>7. AssumeCons(Top) \in DOMAIN heap
  BY <1>1, <1>6, Assumed
<1>8. Popped \in DOMAIN heap /\ Cdr(heap, code) \in DOMAIN heap
  BY <1>1, Follow DEF Popped
<1> QED
  BY <1>2, <1>3, <1>4, <1>5, <1>6, <1>7, <1>8

LEMMA Callee ==
  ASSUME Inv
  PROVE  /\ Procedure \in DOMAIN heap
         /\ Lambda \in Values /\ Refers(Lambda, heap)
<1>1. HeapOK(heap) /\ OperandCons \in DOMAIN heap
  BY Available, Reads
<1>2. Procedure \in DOMAIN heap
  BY <1>1, Fields, Assumed DEF Procedure
<1> QED
  BY <1>1, <1>2, Fields DEF Lambda

LEMMA Arguments ==
  ASSUME Inv, NEW n
  PROVE  /\ TailOf(stack, n) \in DOMAIN heap
         /\ Argument(n) \in Values /\ Refers(Argument(n), heap)
         /\ Cell_(n) \in DOMAIN heap
         /\ AssumeNumber(Argument(n)) \in Int
<1>1. Registers /\ HeapOK(heap)
  BY Available
<1>2. TailOf(stack, n) \in DOMAIN heap /\ TailOf(stack, n - 1) \in DOMAIN heap
  BY <1>1, TailFound
<1>3. Argument(n) \in Values /\ Refers(Argument(n), heap)
  BY <1>1, <1>2, Fields DEF Argument
<1>4. Cell_(n) \in DOMAIN heap /\ AssumeNumber(Argument(n)) \in Int
  BY <1>1, <1>3, Assumed DEF Cell_
<1> QED
  BY <1>2, <1>3, <1>4

LEMMA Empty == NoCall \in CallRecords /\ NoLocals \in LocalRecords
BY DEF NoCall, NoLocals, CallRecords, LocalRecords, Stale

LEMMA Restored ==
  ASSUME Inv,
         HeapOK(heap'), DOMAIN heap \subseteq DOMAIN heap', UNCHANGED false,
         code' \in DOMAIN heap', stack' \in DOMAIN heap',
         register' \in DOMAIN heap' \cup {Stale},
         pc' \in Running \cup Errors,
         call' \in CallRecords, locals' \in LocalRecords,
         pc' = "arguments" => {register', locals'.list} \subseteq DOMAIN heap',
         pc' = "frame" => {register', locals'.continuation} \subseteq DOMAIN heap',
         pc' \in {"parameters", "spread"} => register' \in DOMAIN heap'
  PROVE  Inv'
<1>1. false' \in DOMAIN heap'
  BY Available
<1>2. DOMAIN heap' \subseteq Nat
  BY Fields
<1>3. TypeOK'
  BY <1>1, <1>2 DEF TypeOK, HeapOK, CallRecords, LocalRecords, Stale
<1>4. HeapClosed'
  BY <1>1 DEF HeapClosed, HeapOK
<1> QED
  BY <1>3, <1>4 DEF Inv

(* Restored for a step that ends, or is, an instruction.                   *)
LEMMA Completed ==
  ASSUME Inv,
         HeapOK(heap'), DOMAIN heap \subseteq DOMAIN heap', UNCHANGED <<false, register>>,
         code' \in DOMAIN heap', stack' \in DOMAIN heap',
         pc' = "run", call' = call \/ call' = NoCall, UNCHANGED locals
  PROVE  Inv'
<1>1. register' \in DOMAIN heap' \cup {Stale}
  BY DEF Inv, HeapClosed
<1>2. call' \in CallRecords /\ locals' \in LocalRecords
  BY Available, Empty
<1> QED
  BY <1>1, <1>2, Restored DEF Running

LEMMA Failed ==
  ASSUME Inv, NEW error \in Errors, Fail(error)
  PROVE  Inv'
<1>1. UNCHANGED <<heap, false, code, stack, register, call, locals>> /\ pc' = error
  BY DEF Fail
<1>2. error \notin {"arguments", "frame", "parameters", "spread"}
  BY DEF Errors
<1>3. register \in DOMAIN heap \cup {Stale}
  BY DEF Inv, HeapClosed
<1> QED
  BY <1>1, <1>2, <1>3, Available, Restored

-----------------------------------------------------------------------------
(* The instructions.                                                       *)

LEMMA ConstantSafe == ASSUME Inv, ConstantStep PROVE Inv'
<1>1. /\ HeapOK(heap') /\ DOMAIN heap \subseteq DOMAIN heap'
      /\ code' \in DOMAIN heap' /\ stack' \in DOMAIN heap'
  BY Available, Reads, AdvancedWith DEF ConstantStep
<1> QED
  BY <1>1, Completed DEF ConstantStep, Simple, Executes, Fetches, At

LEMMA GetSafe == ASSUME Inv, GetStep PROVE Inv'
<1> DEFINE v == heap[OperandCons].car
<1>1. v \in Values /\ Refers(v, heap)
  BY Available, Reads, Fields
<1>2. AdvanceWith(heap, stack, v)
  BY DEF GetStep
<1> HIDE DEF v
<1>3. /\ HeapOK(heap') /\ DOMAIN heap \subseteq DOMAIN heap'
      /\ code' \in DOMAIN heap' /\ stack' \in DOMAIN heap'
  BY <1>1, <1>2, Available, AdvancedWith
<1> QED
  BY <1>3, Completed DEF GetStep, Simple, Executes, Fetches, At

LEMMA SetSafe == ASSUME Inv, SetStep PROVE Inv'
<1> DEFINE h == WithCar(heap, OperandCons, Top)
<1>1. HeapOK(h) /\ DOMAIN h = DOMAIN heap
  BY Available, Reads, CarWritten
<1>2. Advance(h, Popped)
  BY DEF SetStep
<1>3. code \in DOMAIN h /\ Popped \in DOMAIN h
  BY <1>1, Available, Reads
<1> HIDE DEF h
<1>4. /\ HeapOK(heap') /\ DOMAIN heap' = DOMAIN heap
      /\ code' \in DOMAIN heap' /\ stack' \in DOMAIN heap'
  BY <1>1, <1>2, <1>3, Advanced
<1> QED
  BY <1>4, Completed DEF SetStep, Simple, Executes, Fetches, At

LEMMA IfSafe == ASSUME Inv, IfStep PROVE Inv'
<1>1. code' \in DOMAIN heap' /\ stack' \in DOMAIN heap' /\ UNCHANGED heap
  BY Reads DEF IfStep
<1> QED
  BY <1>1, Available, Completed DEF IfStep, Simple, Executes, Fetches, At

LEMMA NopSafe == ASSUME Inv, NopStep PROVE Inv'
<1>1. /\ HeapOK(heap') /\ DOMAIN heap' = DOMAIN heap
      /\ code' \in DOMAIN heap' /\ stack' \in DOMAIN heap'
  BY Available, Advanced DEF NopStep
<1> QED
  BY <1>1, Completed DEF NopStep, Simple, Executes, Fetches, At

-----------------------------------------------------------------------------
(* A call of a procedure.                                                  *)

LEMMA CallTypes ==
  ASSUME Inv, NEW n \in Int
  PROVE  Count(n) \in Int /\ (n >= 0 => Count(n) \in Nat) /\ Variadic(n) \in BOOLEAN
BY DEF Count, Variadic

LEMMA CallRecord ==
  ASSUME NEW count \in Nat, NEW parameters \in Int, NEW variadic \in BOOLEAN,
         NEW return \in BOOLEAN
  PROVE  [count |-> count, parameters |-> parameters, variadic |-> variadic,
          return |-> return, primitive |-> 0] \in CallRecords
<1>1. 0 \in Int
  OBVIOUS
<1> QED
  BY <1>1, Zenon DEF CallRecords

LEMMA CallClosureSafe == ASSUME Inv, CallClosure PROVE Inv'
<1>1. /\ Arity \in Int /\ Arity >= 0
      /\ Lambda.value \in DOMAIN heap
      /\ Procedure \in DOMAIN heap
  BY Reads, Callee DEF CallClosure, Calls, Arity, Call, Refers
<1>2. heap[Lambda.value].car \in Values /\ Refers(heap[Lambda.value].car, heap)
  BY <1>1, Available, Fields
<1>3. AssumeNumber(heap[Lambda.value].car) \in Int
  BY <1>2, Available, Assumed
<1> DEFINE n == AssumeNumber(heap[Lambda.value].car)
           ret == Cdr(heap, code) = Null
           list == IF Variadic(Arity) THEN AssumeCons(Top) ELSE Null
<1>4. /\ call' = [count |-> Count(Arity), parameters |-> Count(n),
                  variadic |-> Variadic(n), return |-> ret, primitive |-> 0]
      /\ locals' = [NoLocals EXCEPT !.procedure = Procedure, !.list = list]
      /\ register' = Procedure
      /\ stack' = (IF Variadic(Arity) THEN Popped ELSE stack)
      /\ pc' = "arguments"
      /\ UNCHANGED <<heap, false, code>>
  BY DEF CallClosure
<1>5. list \in DOMAIN heap /\ stack' \in DOMAIN heap
  BY <1>4, Reads, Available
<1>6. Count(Arity) \in Nat /\ Count(n) \in Int /\ Variadic(n) \in BOOLEAN
  BY <1>1, <1>3, CallTypes
<1>7. ret \in BOOLEAN
  OBVIOUS
<1> HIDE DEF n, ret, list
<1>8. call' \in CallRecords
  BY <1>4, <1>6, <1>7, CallRecord
<1>9. locals' \in LocalRecords /\ locals'.list = list
  BY <1>1, <1>4, <1>5, Available DEF NoLocals, LocalRecords, Stale
<1> QED
  BY <1>1, <1>4, <1>5, <1>8, <1>9, Available, Restored DEF Running

LEMMA Appended ==
  ASSUME Inv, NEW v \in Values, Refers(v, heap), NEW w \in Values, Refers(w, heap),
         NEW tag \in Int, heap' = Append(heap, Cell(v, w, tag))
  PROVE  /\ HeapOK(heap')
         /\ DOMAIN heap \subseteq DOMAIN heap'
         /\ Len(heap) + 1 \in DOMAIN heap'
         /\ Len(heap) + 1 \in Nat
<1> DEFINE c == Cell(v, w, tag)
<1>1. c \in CellSet /\ c.car = v /\ c.cdr = w
  BY CellFacts
<1>2. heap' = Append(heap, c)
  OBVIOUS
<1> HIDE DEF c
<1> QED
  BY <1>1, <1>2, Available, Extended

LEMMA References ==
  ASSUME Inv, NEW i \in DOMAIN heap
  PROVE  Reference(i) \in Values /\ Refers(Reference(i), heap)
BY Available, ValueFacts DEF Refers

LEMMA CollectSafe == ASSUME Inv, CollectArgument PROVE Inv'
<1>1. pc = "arguments" /\ call.count > 0 /\ pc' = "arguments"
  BY DEF CollectArgument, At
<1>2. locals.list \in DOMAIN heap /\ register \in DOMAIN heap
  BY <1>1 DEF Inv, HeapClosed
<1>3. heap' = Append(heap, Cell(Top, Reference(locals.list), PairType))
  BY DEF CollectArgument
<1>4. /\ HeapOK(heap') /\ DOMAIN heap \subseteq DOMAIN heap'
      /\ Len(heap) + 1 \in DOMAIN heap' /\ Len(heap) + 1 \in Nat
  BY <1>2, <1>3, Reads, References, Appended DEF PairType
<1>5. call' \in CallRecords
  <2>1. call \in CallRecords /\ call' = [call EXCEPT !.count = @ - 1]
    BY Available DEF CollectArgument
  <2> QED
    BY <1>1, <2>1 DEF CallRecords
<1>6. locals' \in LocalRecords /\ locals'.list = Len(heap) + 1
  BY <1>4 DEF CollectArgument, Keep, NoLocals, LocalRecords, Stale
<1>7. stack' \in DOMAIN heap' /\ UNCHANGED <<false, code, register>>
  BY <1>4, Reads DEF CollectArgument
<1> QED
  BY <1>1, <1>2, <1>4, <1>5, <1>6, <1>7, Available, Restored DEF Running

LEMMA EnterSafe == ASSUME Inv, EnterProcedure PROVE Inv'
<1>1. /\ pc = "arguments" /\ pc' = "frame"
      /\ code' = register /\ register' = locals.list
      /\ UNCHANGED <<false, stack, call>>
  BY DEF EnterProcedure, At
<1>2. locals.list \in DOMAIN heap /\ register \in DOMAIN heap
  BY <1>1 DEF Inv, HeapClosed
<1>3. CASE call.return
  <2> DEFINE k == Continuation(heap, stack)
  <2>1. k \in DOMAIN heap /\ k \in Nat
    BY Available, Walks
  <2>2. locals' = [locals EXCEPT !.code = code, !.continuation = k] /\ UNCHANGED heap
    BY <1>3 DEF EnterProcedure
  <2> HIDE DEF k
  <2>3. locals' \in LocalRecords /\ locals'.continuation = k
    BY <2>1, <2>2, Available DEF LocalRecords
  <2> QED
    BY <1>1, <1>2, <2>1, <2>2, <2>3, Available, Restored DEF Running
<1>4. CASE ~call.return
  <2>1. /\ heap' = Append(heap, Cell(Reference(code), Reference(stack), PairType))
        /\ locals' = Keep("continuation", Len(heap) + 1)
    BY <1>4 DEF EnterProcedure
  <2>2. /\ HeapOK(heap') /\ DOMAIN heap \subseteq DOMAIN heap'
        /\ Len(heap) + 1 \in DOMAIN heap' /\ Len(heap) + 1 \in Nat
    BY <2>1, Available, References, Appended DEF PairType
  <2>3. locals' \in LocalRecords /\ locals'.continuation = Len(heap) + 1
    BY <2>1, <2>2 DEF Keep, NoLocals, LocalRecords, Stale
  <2> QED
    BY <1>1, <1>2, <2>2, <2>3, Available, Restored DEF Running
<1> QED
  BY <1>3, <1>4

LEMMA FrameSafe == ASSUME Inv, PushFrame PROVE Inv'
<1>1. pc = "frame" /\ pc' = "parameters" /\ UNCHANGED <<false, register, call>>
  BY DEF PushFrame, At
<1>2. locals.continuation \in DOMAIN heap /\ register \in DOMAIN heap
  BY <1>1 DEF Inv, HeapClosed
<1>3. heap' = Append(heap,
        Cell(Reference(locals.continuation), Reference(Cdr(heap, code)), FrameSlot))
  BY DEF PushFrame
<1>4. /\ HeapOK(heap') /\ DOMAIN heap \subseteq DOMAIN heap'
      /\ Len(heap) + 1 \in DOMAIN heap'
  BY <1>2, <1>3, Reads, References, Appended DEF FrameSlot
<1>5. code' \in DOMAIN heap
  <2>1. code' = Cdr(heap, AssumeCons(heap[code].car))
    BY DEF PushFrame
  <2>2. AssumeCons(heap[code].car) \in DOMAIN heap
    BY Reads DEF Operand
  <2> QED
    BY <2>1, <2>2, Available, Follow
<1>6. stack' = Len(heap) + 1 /\ locals' = NoLocals
  BY DEF PushFrame
<1> QED
  BY <1>1, <1>2, <1>4, <1>5, <1>6, Available, Empty, Restored DEF Running

(* PushFromRegister with a register that is a cell.                        *)
LEMMA RegisterPushed ==
  ASSUME Inv, register \in DOMAIN heap, PushFromRegister
  PROVE  /\ HeapOK(heap') /\ DOMAIN heap \subseteq DOMAIN heap'
         /\ {stack', register'} \subseteq DOMAIN heap'
<1> DEFINE v == heap[register].car
<1>1. v \in Values /\ Refers(v, heap)
  BY Available, Fields
<1>2. heap' = Pushed(heap, stack, v) /\ stack' = Len(heap) + 1
      /\ register' = Cdr(heap, register)
  BY DEF PushFromRegister
<1>3. Cdr(heap, register) \in DOMAIN heap
  BY Available, Follow
<1> HIDE DEF v
<1> QED
  BY <1>1, <1>2, <1>3, Available, PushedOK

LEMMA BindSafe == ASSUME Inv, BindParameter PROVE Inv'
<1>1. pc = "parameters" /\ PushFromRegister /\ UNCHANGED <<false, code, pc, locals>>
  BY DEF BindParameter, At
<1>2. register \in DOMAIN heap
  BY <1>1 DEF Inv, HeapClosed
<1>3. call' \in CallRecords
  <2>1. call \in CallRecords /\ call' = [call EXCEPT !.parameters = @ - 1]
    BY Available DEF BindParameter
  <2> QED
    BY <2>1 DEF CallRecords
<1> QED
  BY <1>1, <1>2, <1>3, Available, RegisterPushed, Restored DEF Running

LEMMA RestSafe == ASSUME Inv, BindRest PROVE Inv'
<1>1. /\ pc = "parameters" /\ pc' = "run" /\ call' = NoCall
      /\ heap' = Pushed(heap, stack, Reference(register))
      /\ stack' = Len(heap) + 1
      /\ UNCHANGED <<false, code, register, locals>>
  BY DEF BindRest, At
<1>2. register \in DOMAIN heap
  BY <1>1 DEF Inv, HeapClosed
<1>3. /\ HeapOK(heap') /\ DOMAIN heap \subseteq DOMAIN heap'
      /\ stack' \in DOMAIN heap'
  BY <1>1, <1>2, Available, References, PushedOK
<1> QED
  BY <1>1, <1>3, Available, Completed

LEMMA BodySafe == ASSUME Inv, StartBody PROVE Inv'
BY Available, Completed DEF StartBody

-----------------------------------------------------------------------------
(* Primitives.                                                             *)

LEMMA CallPrimitiveSafe == ASSUME Inv, CallPrimitive PROVE Inv'
<1>1. ~IsCons(Lambda) /\ call' = [NoCall EXCEPT !.primitive = Lambda.value]
      /\ UNCHANGED <<heap, false, code, locals>>
  BY DEF CallPrimitive
<1>2. Lambda.value \in Int
  BY <1>1, Callee, ValueFacts
<1>3. call' \in CallRecords
  BY <1>1, <1>2, Empty DEF CallRecords
<1>4. CASE Variadic(Arity)
  <2>1. register' = AssumeCons(Top) /\ stack' = Popped /\ pc' = "spread"
    BY <1>4 DEF CallPrimitive
  <2> QED
    BY <1>1, <1>3, <2>1, Reads, Available, Restored DEF Running
<1>5. CASE ~Variadic(Arity)
  <2>1. pc' = "operate" /\ UNCHANGED <<register, stack>>
    BY <1>5 DEF CallPrimitive
  <2>2. register \in DOMAIN heap \cup {Stale}
    BY DEF Inv, HeapClosed
  <2> QED
    BY <1>1, <1>3, <2>1, <2>2, Available, Restored DEF Running
<1> QED
  BY <1>4, <1>5

LEMMA SpreadSafe == ASSUME Inv, SpreadArgument PROVE Inv'
<1>1. pc = "spread" /\ PushFromRegister /\ UNCHANGED <<false, code, pc, call, locals>>
  BY DEF SpreadArgument, At
<1>2. register \in DOMAIN heap
  BY <1>1 DEF Inv, HeapClosed
<1> QED
  BY <1>1, <1>2, Available, RegisterPushed, Restored DEF Running

LEMMA SpreadEndSafe == ASSUME Inv, SpreadEnd PROVE Inv'
<1>1. /\ pc = "spread" /\ pc' = "operate"
      /\ UNCHANGED <<heap, false, code, stack, register, call, locals>>
  BY DEF SpreadEnd, At
<1>2. register \in DOMAIN heap
  BY <1>1 DEF Inv, HeapClosed
<1> QED
  BY <1>1, <1>2, Available, Restored DEF Running

(* A primitive that leaves a heap, a stack and a value.                    *)
LEMMA FinishSafe ==
  ASSUME Inv, NEW h, HeapOK(h), DOMAIN heap \subseteq DOMAIN h, NEW s \in DOMAIN h,
         NEW v \in Values, Refers(v, h), Finish(h, s, v)
  PROVE  Inv'
<1>1. /\ AdvanceWith(h, s, v) /\ pc' = "run" /\ call' = NoCall
      /\ UNCHANGED <<false, register, locals>>
  BY DEF Finish
<1>2. code \in DOMAIN h
  BY Available
<1>3. /\ HeapOK(heap') /\ DOMAIN h \subseteq DOMAIN heap'
      /\ code' \in DOMAIN heap' /\ stack' \in DOMAIN heap'
  BY <1>1, <1>2, AdvancedWith
<1> QED
  BY <1>1, <1>3, Completed

LEMMA FinishCellSafe ==
  ASSUME Inv, NEW s \in DOMAIN heap, NEW v \in Values, Refers(v, heap),
         NEW w \in Values, Refers(w, heap), NEW tag \in Int,
         FinishCell(s, Cell(v, w, tag))
  PROVE  Inv'
<1> DEFINE c == Cell(v, w, tag)
           h == Append(heap, c)
           n == Len(heap) + 1
<1>1. c \in CellSet /\ c.car = v /\ c.cdr = w
  BY CellFacts
<1> HIDE DEF c
<1>2. HeapOK(h) /\ n \in DOMAIN h /\ n \in Nat /\ DOMAIN heap \subseteq DOMAIN h
  BY <1>1, Available, Extended
<1>3. Finish(h, s, Reference(n))
  BY DEF FinishCell, c
<1> HIDE DEF h, n
<1>4. Reference(n) \in Values /\ Refers(Reference(n), h)
  BY <1>2, ValueFacts DEF Refers
<1> QED
  BY <1>2, <1>3, <1>4, FinishSafe

LEMMA RibSafe == ASSUME Inv, Rib PROVE Inv'
<1> DEFINE tag == AssumeNumber(Argument(1))
<1>1. tag \in Int
  BY Arguments
<1>2. FinishCell(TailOf(stack, 3), Cell(Argument(3), Argument(2), tag))
  BY DEF Rib
<1> HIDE DEF tag
<1> QED
  BY <1>1, <1>2, Arguments, FinishCellSafe

LEMMA CloseSafe == ASSUME Inv, Close PROVE Inv'
<1> DEFINE v == heap[Cell_(1)].car
           w == Reference(Popped)
<1>1. v \in Values /\ Refers(v, heap)
  BY Arguments, Available, Fields
<1>2. w \in Values /\ Refers(w, heap)
  BY Reads, References
<1>3. FinishCell(Popped, Cell(v, w, ProcedureType))
  BY DEF Close
<1> HIDE DEF v, w
<1>4. ProcedureType \in Int
  BY DEF ProcedureType
<1> QED
  BY <1>1, <1>2, <1>3, <1>4, Reads, FinishCellSafe

LEMMA ConsSafe == ASSUME Inv, ConsPair PROVE Inv'
<1>1. FinishCell(TailOf(stack, 2), Cell(Argument(2), Argument(1), PairType))
  BY DEF ConsPair
<1>2. PairType \in Int
  BY DEF PairType
<1> QED
  BY <1>1, <1>2, Arguments, FinishCellSafe

LEMMA BooleanFacts ==
  ASSUME Inv, NEW b
  PROVE  Reference(Boolean(b)) \in Values /\ Refers(Reference(Boolean(b)), heap)
<1>1. AssumeCons(heap[false].cdr) \in DOMAIN heap /\ false \in DOMAIN heap
  BY Available, Fields, Assumed
<1>2. Boolean(b) \in DOMAIN heap
  BY <1>1 DEF Boolean
<1> QED
  BY <1>2, References

LEMMA NumberFacts ==
  ASSUME NEW n \in Int
  PROVE  Number(n) \in Values /\ Refers(Number(n), heap)
BY ValueFacts DEF Refers

LEMMA UnarySafe == ASSUME Inv, Unary PROVE Inv'
<1> DEFINE p == call.primitive
           v == UnaryValue(p)
           i == Cell_(1)
<1>1. Finish(heap, Popped, v) /\ p \in 2 .. 5
  BY DEF Unary
<1>2. i \in DOMAIN heap
  BY Arguments
<1>3. /\ heap[i].car \in Values /\ Refers(heap[i].car, heap)
      /\ heap[i].cdr \in Values /\ Refers(heap[i].cdr, heap)
      /\ heap[i].tag \in Int
  BY <1>2, Available, Fields
<1>4. v \in Values /\ Refers(v, heap)
  <2>1. CASE p = 2
    BY <2>1, BooleanFacts DEF UnaryValue
  <2>2. CASE p = 3
    BY <2>2, <1>3 DEF UnaryValue
  <2>3. CASE p = 4
    BY <2>3, <1>3 DEF UnaryValue
  <2>4. CASE p = 5
    BY <2>4, <1>3, NumberFacts DEF UnaryValue
  <2> QED
    BY <1>1, <2>1, <2>2, <2>3, <2>4
<1> HIDE DEF p, v
<1> QED
  BY <1>1, <1>4, Available, Reads, FinishSafe

LEMMA SetCarSafe == ASSUME Inv, SetCar PROVE Inv'
<1> DEFINE h == WithCar(heap, Cell_(2), Argument(1))
<1>1. HeapOK(h) /\ DOMAIN h = DOMAIN heap
  BY Available, Arguments, CarWritten
<1>2. Finish(h, TailOf(stack, 2), Argument(1))
  BY DEF SetCar
<1> HIDE DEF h
<1>3. Refers(Argument(1), h)
  BY <1>1, Arguments DEF Refers
<1> QED
  BY <1>1, <1>2, <1>3, Arguments, FinishSafe

LEMMA SetCdrSafe == ASSUME Inv, SetCdr PROVE Inv'
<1> DEFINE h == WithCdr(heap, Cell_(2), Argument(1))
<1>1. HeapOK(h) /\ DOMAIN h = DOMAIN heap
  BY Available, Arguments, CdrWritten
<1>2. Finish(h, TailOf(stack, 2), Argument(1))
  BY DEF SetCdr
<1> HIDE DEF h
<1>3. Refers(Argument(1), h)
  BY <1>1, Arguments DEF Refers
<1> QED
  BY <1>1, <1>2, <1>3, Arguments, FinishSafe

LEMMA BinarySafe == ASSUME Inv, Binary PROVE Inv'
<1> DEFINE p == call.primitive
           v == BinaryValue(p)
           x == AssumeNumber(Argument(2))
           y == AssumeNumber(Argument(1))
<1>1. Finish(heap, TailOf(stack, 2), v) /\ p \in 8 .. 12
  BY DEF Binary
<1>2. x \in Int /\ y \in Int
  BY Arguments
<1>3. v \in Values /\ Refers(v, heap)
  <2>1. CASE p = 8
    BY <2>1, BooleanFacts DEF BinaryValue
  <2>2. CASE p = 9
    BY <2>2, BooleanFacts DEF BinaryValue
  <2>3. CASE p = 10
    BY <2>3, <1>2, NumberFacts DEF BinaryValue
  <2>4. CASE p = 11
    BY <2>4, <1>2, NumberFacts DEF BinaryValue
  <2>5. CASE p = 12
    BY <2>5, <1>2, NumberFacts DEF BinaryValue
  <2> QED
    BY <1>1, <2>1, <2>2, <2>3, <2>4, <2>5
<1> HIDE DEF p, v
<1> QED
  BY <1>1, <1>3, Available, Arguments, FinishSafe

LEMMA ErrorSafe ==
  ASSUME Inv,
         ProcedureExpected \/ ArgumentCount \/ Halt \/ IllegalPrimitive \/ OutOfMemory
  PROVE  Inv'
<1>1. PICK error \in Errors : Fail(error)
  BY DEF ProcedureExpected, ArgumentCount, Halt, IllegalPrimitive, OutOfMemory, Errors
<1> QED
  BY <1>1, Failed

-----------------------------------------------------------------------------
(* The specification.                                                      *)

LEMMA Initial == ASSUME Init PROVE Inv
<1>1. PICK p \in Programs : Load(p)
  BY DEF Init
<1> DEFINE h == p.heap
           n == Len(h)
           null == h[p.false].car
           a == Cell(Number(0), null, PairType)
           b == Cell(Reference(n + 1), null, PairType)
           c == Cell(Reference(n + 2), null, FrameSlot)
           h1 == Append(h, a)
           h2 == Append(h1, b)
           h3 == Append(h2, c)
<1>2. HeapOK(h) /\ p.false \in DOMAIN h /\ p.code \in DOMAIN h
  BY ProgramsAssumption DEF HeapOK
<1>3. null \in Values /\ Refers(null, h) /\ n \in Nat
  BY <1>2, Fields, Indices DEF HeapOK
<1>4. a \in CellSet /\ a.car = Number(0) /\ a.cdr = null
  <2>1. Number(0) \in Values /\ PairType \in Int
    BY ValueFacts DEF PairType
  <2> QED
    BY <1>3, <2>1, CellFacts
<1>5. Reference(n + 1) \in Values /\ Reference(n + 2) \in Values
  BY <1>3, ValueFacts
<1>6. b \in CellSet /\ b.car = Reference(n + 1) /\ b.cdr = null
  BY <1>3, <1>5, CellFacts DEF PairType
<1>7. c \in CellSet /\ c.car = Reference(n + 2) /\ c.cdr = null
  BY <1>3, <1>5, CellFacts DEF FrameSlot
<1>8. heap = h3
  BY <1>1 DEF Load
<1> HIDE DEF a, b, c, n
<1>9. Refers(a.car, h) /\ Refers(a.cdr, h)
  BY <1>3, <1>4, ValueFacts DEF Refers
<1>10. /\ HeapOK(h1) /\ Len(h1) = n + 1 /\ n + 1 \in DOMAIN h1
       /\ DOMAIN h \subseteq DOMAIN h1
  BY <1>2, <1>4, <1>9, Extended DEF n
<1>11. Refers(b.car, h1) /\ Refers(b.cdr, h1)
  BY <1>3, <1>6, <1>10, ValueFacts DEF Refers
<1> HIDE DEF h1
<1>12. /\ HeapOK(h2) /\ Len(h2) = n + 2 /\ n + 2 \in DOMAIN h2
       /\ DOMAIN h1 \subseteq DOMAIN h2
  BY <1>3, <1>6, <1>10, <1>11, Extended
<1>13. Refers(c.car, h2) /\ Refers(c.cdr, h2)
  BY <1>3, <1>7, <1>10, <1>12, ValueFacts DEF Refers
<1> HIDE DEF h2
<1>14. /\ HeapOK(h3) /\ n + 3 \in DOMAIN h3 /\ DOMAIN h2 \subseteq DOMAIN h3
  BY <1>3, <1>7, <1>12, <1>13, Extended
<1> HIDE DEF h3
<1>15. /\ false = p.false /\ code = p.code /\ stack = n + 3 /\ register = Stale
       /\ pc = "run" /\ call = NoCall /\ locals = NoLocals
  BY <1>1 DEF Load, n
<1>16. {false, code, stack} \subseteq DOMAIN heap
  BY <1>2, <1>8, <1>10, <1>12, <1>14, <1>15
<1>17. HeapOK(heap) /\ DOMAIN heap \subseteq Nat
  BY <1>8, <1>14, Fields
<1>18. TypeOK
  BY <1>15, <1>16, <1>17, Empty, SMTT(30) DEF TypeOK, HeapOK, CallRecords, LocalRecords, Stale, Running
<1>19. HeapClosed
  BY <1>15, <1>16, <1>17 DEF HeapClosed, HeapOK
<1> QED
  BY <1>18, <1>19 DEF Inv

LEMMA Inductive == ASSUME Inv, [Next]_vars PROVE Inv'
<1>1. CASE UNCHANGED vars
  BY <1>1 DEF vars, Inv, TypeOK, HeapClosed, Closed, Refers
<1>2. CASE ConstantStep \/ GetStep \/ SetStep \/ IfStep \/ NopStep
  BY <1>2, ConstantSafe, GetSafe, SetSafe, IfSafe, NopSafe
<1>3. CASE CallClosure \/ CollectArgument \/ EnterProcedure \/ PushFrame
  BY <1>3, CallClosureSafe, CollectSafe, EnterSafe, FrameSafe
<1>4. CASE BindParameter \/ BindRest \/ StartBody
  BY <1>4, BindSafe, RestSafe, BodySafe
<1>5. CASE CallPrimitive \/ SpreadArgument \/ SpreadEnd
  BY <1>5, CallPrimitiveSafe, SpreadSafe, SpreadEndSafe
<1>6. CASE Rib \/ Close \/ ConsPair \/ Unary \/ SetCar \/ SetCdr \/ Binary
  BY <1>6, RibSafe, CloseSafe, ConsSafe, UnarySafe, SetCarSafe, SetCdrSafe, BinarySafe
<1>7. CASE ProcedureExpected \/ ArgumentCount \/ Halt \/ IllegalPrimitive \/ OutOfMemory
  BY <1>7, ErrorSafe
<1> QED
  BY <1>1, <1>2, <1>3, <1>4, <1>5, <1>6, <1>7 DEF Next

LEMMA Invariance == Spec => []Inv
<1>1. Init => Inv
  BY Initial
<1>2. Inv /\ [Next]_vars => Inv'
  BY Inductive
<1> QED
  BY <1>1, <1>2, PTL DEF Spec

(* Every register of the machine, every cell and every local of a call has  *)
(* its type, for every decoded program and every size of the memory.       *)
THEOREM TypeCorrect == Spec => []TypeOK
<1>1. Inv => TypeOK
  BY DEF Inv
<1> QED
  BY <1>1, Invariance, PTL

(* The virtual machine never reads or keeps a reference that an allocation  *)
(* has invalidated, for every decoded program and every size of the memory: *)
(* what vm.rs:53 asks of `call` and of the primitives of small.rs.          *)
THEOREM NoStaleReference == Spec => []HeapClosed
<1>1. Inv => HeapClosed
  BY DEF Inv
<1> QED
  BY <1>1, Invariance, PTL
=============================================================================
