------------------------------- MODULE Scheme -------------------------------
(***************************************************************************)
(* What the expressions of Compiler mean: the abstract machine that the     *)
(* compiler and the virtual machine together implement. It has no cells,    *)
(* no stack and no code: an environment maps local names to locations, and  *)
(* call/cc makes a procedure of the continuation, a sequence of frames      *)
(* (R7RS 4.1 and 6.10, with operands from left to right).                  *)
(***************************************************************************)
EXTENDS Integers, SequencesExt

CONSTANTS
  Expressions,  \* programs
  Symbols,      \* global names, a sequence
  Operators     \* the global names that are primitive procedures

VARIABLES
  expression,  \* the program
  control,     \* what to do next: an expression, a value, a call, or failure
  env,         \* local names to locations
  store,       \* locations to values
  frames       \* the continuation, innermost frame first

schemeVars == <<expression, control, env, store, frames>>

Num(n) == [kind |-> "number", n |-> n]
Bool(b) == [kind |-> "boolean", b |-> b]
Nil == [kind |-> "nil"]
Pair(a, d) == [kind |-> "pair", car |-> a, cdr |-> d]

Evaluate(e) == [mode |-> "eval", e |-> e]
Return(v) == [mode |-> "value", v |-> v]
Apply(procedure, arguments) == [mode |-> "apply", f |-> procedure, x |-> arguments]
Failed(why) == [mode |-> "failed", why |-> why]

Location(x) == CHOOSE i \in DOMAIN Symbols : Symbols[i] = x
LocationIn(environment, x) == IF x \in DOMAIN environment THEN environment[x] ELSE Location(x)
GlobalStore ==
  [i \in DOMAIN Symbols |->
     IF Symbols[i] \in Operators THEN [kind |-> "primitive", name |-> Symbols[i]]
     ELSE Bool(FALSE)]

ListOf(s) == FoldRight(Pair, s, Nil)

RECURSIVE Elements(_)
Elements(list) == IF list = Nil THEN <<>> ELSE <<list.car>> \o Elements(list.cdr)

-----------------------------------------------------------------------------
SchemeStart(e) ==
  /\ control = Evaluate(e)
  /\ env = <<>>
  /\ store = GlobalStore
  /\ frames = <<>>

SchemeInit == expression \in Expressions /\ SchemeStart(expression)

E == control.e
Form == E[1]
Push(frame) == frames' = <<frame>> \o frames

EvaluateAtom ==
  /\ control.mode = "eval"
  /\ \/ Form = "const" /\ control' = Return(Num(E[2]))
     \/ Form = "bool" /\ control' = Return(Bool(E[2]))
     \/ Form = "var" /\ control' = Return(store[LocationIn(env, E[2])])
     \/ /\ Form = "lambda"
        /\ control' = Return([kind |-> "closure", parameters |-> E[2], rest |-> E[3],
                              body |-> E[4], env |-> env])
  /\ UNCHANGED <<expression, env, store, frames>>

EvaluatePart ==
  /\ control.mode = "eval"
  /\ \/ /\ Form = "set"
        /\ control' = Evaluate(E[3])
        /\ Push([kind |-> "set", location |-> LocationIn(env, E[2])])
     \/ /\ Form = "if"
        /\ control' = Evaluate(E[2])
        /\ Push([kind |-> "if", then |-> E[3], else |-> E[4], env |-> env])
     \/ /\ Form = "begin"
        /\ control' = Evaluate(Head(E[2]))
        /\ IF Len(E[2]) = 1 THEN UNCHANGED frames
           ELSE Push([kind |-> "begin", todo |-> Tail(E[2]), env |-> env])
     \/ /\ Form \in {"call", "apply"}
        /\ control' = Evaluate(Head(E[2]))
        /\ Push([kind |-> "call", done |-> <<>>, todo |-> Tail(E[2]), env |-> env,
                 spread |-> Form = "apply"])
  /\ UNCHANGED <<expression, env, store>>

Frame == Head(frames)
Resume(kind) == control.mode = "value" /\ frames # <<>> /\ Frame.kind = kind
Pop == frames' = Tail(frames)

ResumeSet ==
  /\ Resume("set")
  /\ store' = [store EXCEPT ![Frame.location] = control.v]
  /\ control' = Return(Bool(FALSE))
  /\ Pop
  /\ UNCHANGED <<expression, env>>

ResumeIf ==
  /\ Resume("if")
  /\ control' = Evaluate(IF control.v = Bool(FALSE) THEN Frame.else ELSE Frame.then)
  /\ env' = Frame.env
  /\ Pop
  /\ UNCHANGED <<expression, store>>

ResumeBegin ==
  /\ Resume("begin")
  /\ control' = Evaluate(Head(Frame.todo))
  /\ env' = Frame.env
  /\ frames' = IF Len(Frame.todo) = 1 THEN Tail(frames)
               ELSE <<[Frame EXCEPT !.todo = Tail(@)]>> \o Tail(frames)
  /\ UNCHANGED <<expression, store>>

ResumeCall ==
  /\ Resume("call")
  /\ LET done == Append(Frame.done, control.v)
         arguments == Tail(done)
     IN IF Frame.todo # <<>>
        THEN /\ control' = Evaluate(Head(Frame.todo))
             /\ frames' = <<[Frame EXCEPT !.done = done, !.todo = Tail(@)]>>
                          \o Tail(frames)
        ELSE /\ control' = Apply(Head(done),
                  IF Frame.spread THEN Front(arguments) \o Elements(Last(arguments))
                  ELSE arguments)
             /\ Pop
  /\ env' = Frame.env
  /\ UNCHANGED <<expression, store>>

Applies(kind) == control.mode = "apply" /\ control.f.kind = kind
F == control.f
X == control.x

ApplyClosure ==
  /\ Applies("closure")
  /\ LET count == Len(F.parameters)
         variadic == F.rest # ""
         names == F.parameters \o (IF variadic THEN <<F.rest>> ELSE <<>>)
         values == SubSeq(X, 1, count) \o
           (IF variadic THEN <<ListOf(SubSeq(X, count + 1, Len(X)))>> ELSE <<>>)
     IN IF Len(X) = count \/ (variadic /\ Len(X) > count)
        THEN /\ control' = Evaluate(F.body)
             /\ store' = store \o values
             /\ env' = [x \in DOMAIN F.env \cup ToSet(names) |->
                  IF x \in ToSet(names)
                  THEN Len(store) + (CHOOSE i \in DOMAIN names : names[i] = x)
                  ELSE F.env[x]]
        ELSE control' = Failed("ArgumentCount") /\ UNCHANGED <<env, store>>
  /\ UNCHANGED <<expression, frames>>

ApplyContinuation ==
  /\ Applies("continuation")
  /\ control' = Return(Head(X))
  /\ frames' = F.frames
  /\ UNCHANGED <<expression, env, store>>

(* Under the prelude's call/cc there is one that knows nothing of extents.  *)
CallCc ==
  /\ Applies("primitive")
  /\ F.name \in {"call/cc", "$call/cc"}
  /\ control' = Apply(Head(X), <<[kind |-> "continuation", frames |-> frames]>>)
  /\ UNCHANGED <<expression, env, store, frames>>

(* A record has an identity, and fields that nothing changes.               *)
MakeRecord ==
  /\ Applies("primitive")
  /\ F.name = "record"
  /\ control' = Return([kind |-> "record", location |-> Len(store) + 1])
  /\ store' = Append(store, X)
  /\ UNCHANGED <<expression, env, frames>>

Operations ==
  {"+", "-", "<", "cons", "rib-car", "rib-cdr", "list", "eq?", "pair?", "field", "halt", "illegal"}

Operation(name) ==
  CASE name = "+" -> Num(X[1].n + X[2].n)
    [] name = "-" -> Num(X[1].n - X[2].n)
    [] name = "<" -> Bool(X[1].n < X[2].n)
    [] name = "cons" -> Pair(X[1], X[2])
    [] name = "rib-car" -> X[1].car
    [] name = "rib-cdr" -> X[1].cdr
    [] name = "list" -> ListOf(X)
    [] name = "eq?" -> Bool(X[1] = X[2])
    [] name = "pair?" -> Bool(X[1].kind = "pair")
    [] name = "field" -> store[X[1].location][X[2].n]

ApplyPrimitive ==
  /\ Applies("primitive")
  /\ F.name \in Operations
  /\ control' = CASE F.name = "halt" -> Failed("Halt")
                  [] F.name = "illegal" -> Failed("IllegalPrimitive")
                  [] OTHER -> Return(Operation(F.name))
  /\ UNCHANGED <<expression, env, store, frames>>

ApplyOther ==
  /\ control.mode = "apply"
  /\ control.f.kind \notin {"closure", "continuation", "primitive"}
  /\ control' = Failed("ProcedureExpected")
  /\ UNCHANGED <<expression, env, store, frames>>

SchemeNext ==
  \/ EvaluateAtom \/ EvaluatePart
  \/ ResumeSet \/ ResumeIf \/ ResumeBegin \/ ResumeCall
  \/ ApplyClosure \/ ApplyContinuation \/ CallCc \/ MakeRecord \/ ApplyPrimitive
  \/ ApplyOther

SchemeFinished == control.mode = "failed" \/ (control.mode = "value" /\ frames = <<>>)
=============================================================================
