------------------------------ MODULE Prelude -------------------------------
(***************************************************************************)
(* What prelude.scm defines in Scheme, as expressions of Compiler.          *)
(***************************************************************************)
EXTENDS Compiler

(* Expressions. Corpus uses them, too.                                     *)
Var(x) == <<"var", x>>
N(n) == <<"const", n>>
Do(s) == <<"begin", s>>
To(x, e) == <<"set", x, e>>
Fn(ps, e) == <<"lambda", ps, "", e>>
FnRest(ps, rest, e) == <<"lambda", ps, rest, e>>
App(f, args) == <<"call", <<f>> \o args>>
Spread(f, args) == <<"apply", <<f>> \o args>>
Bin(op, a, b) == App(Var(op), <<a, b>>)
Branch(c, t, e) == <<"if", c, t, e>>
Let(x, e, body) == App(Fn(<<x>>, body), <<e>>)
CallWith(x, body) == App(Var("call/cc"), <<Fn(<<x>>, body)>>)
List(args) == App(Var("list"), args)

-----------------------------------------------------------------------------
(* Continuations. `close` captures the stack, so a procedure can read and    *)
(* replace the continuation in its own frame. There is one extent here;     *)
(* Control has the travel between extents.                                 *)

Apply1(f, x) == <<"call", <<Var(f), x>>>>
ClosedStack == Apply1("close", Var("dummy-procedure"))

DummyProcedure == <<"lambda", <<>>, "", <<"bool", FALSE>>>>

(* The continuation of the caller is in the frame under the receiver and    *)
(* the procedure of the let that is being evaluated.                       *)
CallerContinuation ==
  Apply1("rib-car", Apply1("rib-cdr", Apply1("rib-cdr", Apply1("rib-cdr", ClosedStack))))

(* A continuation puts its own continuation in the frame it runs in.       *)
Continue ==
  <<"lambda", <<"argument">>, "",
    <<"begin",
      <<<<"call", <<Var("rib-set-car!"), Apply1("rib-cdr", Apply1("rib-cdr", ClosedStack)),
                    Var("continuation")>>>>,
        Var("argument")>>>>>>

CallCc ==
  <<"lambda", <<"receiver">>, "",
    <<"call",
      <<<<"lambda", <<"continuation", "point">>, "",
          Apply1("receiver", Continue)>>,
        CallerContinuation, Var("current-point")>>>>>>

Definitions ==
  <<<<"set", "list", <<"lambda", <<>>, "xs", Var("xs")>>>>,
    <<"set", "dummy-procedure", DummyProcedure>>,
    <<"set", "call/cc", CallCc>>>>

(* A program after the libraries it imports.                               *)
Program(e) == CompileProgram(<<"begin", Append(Definitions, e)>>)
=============================================================================
