------------------------------ MODULE Compiler ------------------------------
(***************************************************************************)
(* The code generator (compile.scm, "Compilation") for programs whose       *)
(* macros are expanded.                                                    *)
(*                                                                         *)
(* An expression is a tuple that starts with the name of its form:         *)
(*   <<"const", n>>  <<"bool", b>>  <<"var", x>>  <<"set", x, e>>          *)
(*   <<"if", test, consequent, alternate>>  <<"begin", <<e, ...>>>>        *)
(*   <<"lambda", <<x, ...>>, rest, body>>, rest = "" for a fixed arity     *)
(*   <<"call", <<procedure, argument, ...>>>>                              *)
(*   <<"apply", <<procedure, argument, ..., list>>>>                       *)
(*                                                                         *)
(* The result is the heap of the decoded program. Every operator takes the *)
(* heap so far and the code to continue with, and returns [heap, at] where *)
(* `at` is the code it has put in front.                                   *)
(***************************************************************************)
EXTENDS Cells, SequencesExt

CONSTANTS
  Symbols,    \* the global names of the program, a sequence
  Primitives  \* the primitives among them: a function from names to numbers

(* The cells every program has: (), #f, #t and the cdr of (), then the       *)
(* primitives' procedures and the symbols.                                 *)
SymbolCell(x) == 4 + 2 * (CHOOSE i \in DOMAIN Symbols : Symbols[i] = x)

InitialValue(x) ==
  IF x \in DOMAIN Primitives THEN Reference(SymbolCell(x) - 1) ELSE Reference(FalseCell)

Constants ==
  <<Cell(Number(0), Reference(4), NullType),
    Cell(Reference(NullCell), Reference(TrueCell), BooleanType),
    Cell(Number(0), Reference(NullCell), BooleanType),
    Cell(Number(0), Number(0), PairType)>>

SymbolTable ==
  [i \in 1 .. 2 * Len(Symbols) |->
     LET x == Symbols[(i + 1) \div 2] IN
       IF i % 2 = 1
       THEN Cell(Number(IF x \in DOMAIN Primitives THEN Primitives[x] ELSE 0),
                 Reference(NullCell), ProcedureType)
       ELSE Cell(InitialValue(x), Reference(NullCell), SymbolType)]

-----------------------------------------------------------------------------
(* Contexts are sequences of local names, the top of the stack first.      *)

Unnamed == "#f"

Resolve(locals, x) ==
  LET positions == {i \in DOMAIN locals : locals[i] = x}
  IN IF positions = {} THEN Reference(SymbolCell(x))
     ELSE Number((CHOOSE i \in positions : \A j \in positions : i <= j) - 1)

CodeRib(h, tag, operand, continuation) ==
  [heap |-> Append(h, Cell(operand, Reference(continuation), tag)), at |-> Len(h) + 1]

ConstantRib(h, v, continuation) == CodeRib(h, Constant, v, continuation)

CompileArity(count, variadic) == 2 * count + (IF variadic THEN 1 ELSE 0)

IsDrop(h, code) == code # NullCell /\ h[code].tag = Set /\ h[code].car = Number(0)

CompileDrop(c) ==
  IF c.at = NullCell THEN c ELSE CodeRib(c.heap, Set, Number(0), c.at)

(* The value of a call replaces the procedure below it.                    *)
CompileUnbind(h, continuation) ==
  IF continuation = NullCell THEN [heap |-> h, at |-> continuation]
  ELSE CodeRib(h, Set, Number(1), continuation)

CompileUnspecified(h, continuation) ==
  IF IsDrop(h, continuation)
  THEN [heap |-> h, at |-> h[continuation].cdr.value]
  ELSE ConstantRib(h, Reference(FalseCell), continuation)

(* A procedure without an environment: ((arity . code) . ()).              *)
MakeProcedure(c, arity) ==
  LET n == Len(c.heap) IN
    [heap |-> c.heap \o
       <<Cell(Number(arity), Reference(c.at), PairType),
         Cell(Reference(n + 1), Reference(NullCell), ProcedureType)>>,
     at |-> n + 2]

RECURSIVE Compile(_, _, _, _), CompileSequence(_, _, _, _), CompileRawCall(_, _, _, _, _, _)

CompileSequence(h, locals, expressions, continuation) ==
  LET rest == CompileSequence(h, locals, Tail(expressions), continuation)
      next == IF Len(expressions) = 1 THEN [heap |-> h, at |-> continuation]
              ELSE CompileDrop(rest)
  IN Compile(next.heap, locals, Head(expressions), next.at)

CompileRawCall(h, locals, procedure, arguments, arity, continuation) ==
  IF arguments = <<>>
  THEN CodeRib(h, Call + arity, Resolve(locals, procedure), continuation)
  ELSE LET rest == CompileRawCall(h, <<Unnamed>> \o locals, procedure,
                                  Tail(arguments), arity, continuation)
       IN Compile(rest.heap, locals, Head(arguments), rest.at)

CompileCall(h, locals, expressions, variadic, continuation) ==
  LET procedure == Head(expressions)
      arguments == Tail(expressions)
      arity == CompileArity(Len(arguments) - (IF variadic THEN 1 ELSE 0), variadic)
      unbind == CompileUnbind(h, continuation)
      call == CompileRawCall(unbind.heap, <<"$procedure">> \o locals, "$procedure",
                             arguments, arity, unbind.at)
  IN IF procedure[1] = "var"
     THEN CompileRawCall(h, locals, procedure[2], arguments, arity, continuation)
     ELSE Compile(call.heap, locals, procedure, call.at)

CompileIf(h, locals, e, continuation) ==
  LET join == IF continuation = NullCell THEN [heap |-> h, at |-> continuation]
              ELSE CodeRib(h, Nop, Number(0), continuation)
      consequent == Compile(join.heap, locals, e[3], join.at)
      alternate == Compile(consequent.heap, locals, e[4], join.at)
      branch == CodeRib(alternate.heap, If, Reference(consequent.at), alternate.at)
  IN Compile(branch.heap, locals, e[2], branch.at)

CompileLambda(h, locals, e, continuation) ==
  LET names == <<Unnamed>> \o e[2] \o (IF e[3] = "" THEN <<>> ELSE <<e[3]>>)
      close == CodeRib(h, Call + CompileArity(1, FALSE),
                       Reference(SymbolCell("$$close")), continuation)
      body == Compile(close.heap, Reverse(names) \o locals, e[4], NullCell)
      procedure == MakeProcedure(body, CompileArity(Len(e[2]), e[3] # ""))
  IN ConstantRib(procedure.heap, Reference(procedure.at), close.at)

(* Mutant of CompileSet: the slot of the value on the stack is not counted.  *)
CompileSetUnshifted(h, locals, e, continuation) ==
  LET value == CompileUnspecified(h, continuation)
      set == CodeRib(value.heap, Set, Resolve(locals, e[2]), value.at)
  IN Compile(set.heap, locals, e[3], set.at)

CompileSet(h, locals, e, continuation) ==
  LET value == CompileUnspecified(h, continuation)
      set == CodeRib(value.heap, Set, Resolve(<<Unnamed>> \o locals, e[2]), value.at)
  IN Compile(set.heap, locals, e[3], set.at)

(* The continuation is built first; the test makes TLC do it in that order. *)
Compile(h, locals, e, continuation) ==
  CASE continuation \notin DOMAIN h -> [heap |-> h, at |-> continuation]
    [] e[1] = "var" -> CodeRib(h, Get, Resolve(locals, e[2]), continuation)
    [] e[1] = "const" -> ConstantRib(h, Number(e[2]), continuation)
    [] e[1] = "bool" ->
         ConstantRib(h, Reference(IF e[2] THEN TrueCell ELSE FalseCell), continuation)
    [] e[1] = "begin" -> CompileSequence(h, locals, e[2], continuation)
    [] e[1] = "if" -> CompileIf(h, locals, e, continuation)
    [] e[1] = "lambda" -> CompileLambda(h, locals, e, continuation)
    [] e[1] = "set" -> CompileSet(h, locals, e, continuation)
    [] e[1] = "call" -> CompileCall(h, locals, e[2], FALSE, continuation)
    [] e[1] = "apply" -> CompileCall(h, locals, e[2], TRUE, continuation)

CompileProgram(e) ==
  LET c == Compile(Constants \o SymbolTable, <<>>, e, NullCell)
  IN [heap |-> c.heap, false |-> FalseCell, code |-> c.at]
=============================================================================
