------------------------------ MODULE Control -------------------------------
(***************************************************************************)
(* The control operators of prelude.scm: dynamic-wind, continuations that    *)
(* travel between extents, parameters, handlers, guard and promises. They    *)
(* are Scheme code, run here by the machine of Scheme with a call/cc that    *)
(* knows nothing of extents; then Extents runs the same program. (That the    *)
(* virtual machine runs Scheme code rightly is what Execution is about.)     *)
(***************************************************************************)
EXTENDS Prelude

CONSTANTS
  Controls,        \* programs
  ControlNames,    \* global names, a sequence
  Observed         \* the global variables that are compared in the end

VARIABLES
  program,                       \* one of Controls, or Idle
  pControl, pEnv, pStore, pFrames,   \* the prelude's operators on the machine of Scheme
  eControl, eEnv, eStore, eFrames    \* the operators of Extents

P == INSTANCE Scheme WITH
  Expressions <- {}, Symbols <- ControlNames,
  Operators <- {"+", "-", "<", "cons", "rib-car", "rib-cdr", "list", "eq?", "pair?", "record",
                "field", "halt", "$call/cc"},
  expression <- program, control <- pControl, env <- pEnv, store <- pStore, frames <- pFrames

E == INSTANCE Extents WITH
  Expressions <- {}, Symbols <- ControlNames,
  Operators <- {"+", "-", "<", "cons", "list", "halt", "call/cc", "dynamic-wind",
                "make-parameter", "with-parameter", "with-exception-handler", "raise",
                "raise-continuable", "force"},
  expression <- program, control <- eControl, env <- eEnv, store <- eStore, frames <- eFrames

preludeVars == <<pControl, pEnv, pStore, pFrames>>
extentVars == <<eControl, eEnv, eStore, eFrames>>
controlVars == <<program, preludeVars, extentVars>>

-----------------------------------------------------------------------------
(* Points and dynamic-wind                                                 *)

Thunk(e) == Fn(<<>>, e)
Run(f) == App(f, <<>>)
False == <<"bool", FALSE>>

PointOf(depth, before, after, parent) == App(Var("record"), <<depth, before, after, parent>>)
PointDepth(x) == App(Var("field"), <<Var(x), N(1)>>)
PointBefore(x) == App(Var("field"), <<Var(x), N(2)>>)
PointAfter(x) == App(Var("field"), <<Var(x), N(3)>>)
PointParent(x) == App(Var("field"), <<Var(x), N(4)>>)
SetCurrentPoint(e) == App(Var("set-current-point!"), <<e>>)
TravelTo(from, to) == App(Var("travel-to-point!"), <<from, to>>)

DynamicWind ==
  Fn(<<"before", "thunk", "after">>,
     Do(<<Run(Var("before")),
          Let("point", Var("current-point"),
              Do(<<SetCurrentPoint(PointOf(Bin("+", PointDepth("point"), N(1)),
                                           Var("before"), Var("after"), Var("point"))),
                   Let("value", Run(Var("thunk")),
                       Do(<<SetCurrentPoint(Var("point")), Run(Var("after")),
                            Var("value")>>))>>))>>))

(* Mutant of TravelToPoint: outer extents are entered after inner ones.       *)
TravelInwards ==
  Fn(<<"from", "to">>,
     Branch(Bin("eq?", Var("from"), Var("to")), False,
       Branch(Bin("<", PointDepth("from"), PointDepth("to")),
         Do(<<Run(PointBefore("to")), TravelTo(Var("from"), PointParent("to"))>>),
         Do(<<Run(PointAfter("from")), TravelTo(PointParent("from"), Var("to"))>>))))

TravelToPoint ==
  Fn(<<"from", "to">>,
     Branch(Bin("eq?", Var("from"), Var("to")), False,
       Branch(Bin("<", PointDepth("from"), PointDepth("to")),
         Do(<<TravelTo(Var("from"), PointParent("to")), Run(PointBefore("to"))>>),
         Do(<<Run(PointAfter("from")), TravelTo(PointParent("from"), Var("to"))>>))))

(* The continuation itself is that of Prelude.                             *)
CallCcAtPoint ==
  Fn(<<"receiver">>,
     App(Var("$call/cc"),
       <<Fn(<<"continuation">>,
            Let("point", Var("current-point"),
                App(Var("receiver"),
                  <<Fn(<<"argument">>,
                       Do(<<TravelTo(Var("current-point"), Var("point")),
                            SetCurrentPoint(Var("point")),
                            App(Var("continuation"), <<Var("argument")>>)>>))>>)))>>))

-----------------------------------------------------------------------------
(* Parameters. The macro evaluates and converts the value on every entry,    *)
(* and gives the old one back by the same call.                            *)

MakeParameter ==
  FnRest(<<"x">>, "rest",
    Let("convert", Branch(Bin("pair?", Var("rest"), N(0)), Apply1("rib-car", Var("rest")),
                          Fn(<<"x">>, Var("x"))),
        Do(<<To("x", Apply1("convert", Var("x"))),
             FnRest(<<>>, "rest",
               Branch(Bin("pair?", Var("rest"), N(0)),
                      To("x", Apply1("convert", Apply1("rib-car", Var("rest")))),
                      Var("x")))>>)))

Parameterize(parameter, value, body) ==
  Let("parameter", parameter,
    Let("$old", Run(Var("parameter")),
      App(Var("dynamic-wind"),
        <<Thunk(Apply1("parameter", value)), Thunk(body), Thunk(Apply1("parameter", Var("$old")))>>)))

-----------------------------------------------------------------------------
(* Exceptions. Writing the message of an uncaught one is left out.            *)

ErrorObject == N(99)

ConvertExceptionHandler ==
  Fn(<<"handler">>,
    Fn(<<"pair">>,
      Let("exception", Apply1("rib-cdr", Var("pair")),
        Let("value", Apply1("handler", Var("exception")),
          Do(<<Branch(Apply1("rib-car", Var("pair")), False, Run(Var("error"))),
               Var("value")>>)))))

CurrentExceptionHandler ==
  Apply1("make-parameter",
    Apply1("convert-exception-handler",
      Fn(<<"exception">>, Apply1("unwind", Thunk(Run(Var("halt")))))))

WithExceptionHandler ==
  Fn(<<"handler", "thunk">>,
    Let("new", Apply1("convert-exception-handler", Var("handler")),
      Let("old", Run(Var("current-exception-handler")),
        Parameterize(Var("current-exception-handler"),
          Fn(<<"exception">>,
             Parameterize(Var("current-exception-handler"), Var("old"),
                          Apply1("new", Var("exception")))),
          Run(Var("thunk"))))))

RaiseValue ==
  Fn(<<"continuable">>,
    Fn(<<"value">>,
       App(Run(Var("current-exception-handler")), <<Bin("cons", Var("continuable"), Var("value"))>>)))

Guard(name, test, result, body) ==
  Run(CallWith("continue-guard",
    App(Var("with-exception-handler"),
      <<Fn(<<"exception">>,
           Run(CallWith("continue-handler",
             Apply1("continue-guard",
               Thunk(Let(name, Var("exception"),
                 Branch(test, result,
                   Apply1("continue-handler",
                          Thunk(Apply1("raise-continuable", Var(name))))))))))),
        Thunk(Let("$x", body, Apply1("continue-guard", Thunk(Var("$x")))))>>)))

(* The rest of the program is the continuation of this expression; whoever    *)
(* enters it stops the machine.                                            *)
Unwind ==
  Run(CallWith("continuation", Do(<<To("unwind", Var("continuation")), Thunk(False)>>)))

-----------------------------------------------------------------------------
(* Promises                                                                *)

Delay(body) ==
  Let("done", False,
    Let("value", False,
      Thunk(Branch(Var("done"), Var("value"),
        Do(<<To("value", body), To("done", <<"bool", TRUE>>), Var("value")>>)))))

Force == Fn(<<"x">>, Run(Var("x")))

-----------------------------------------------------------------------------
RECURSIVE Expand(_)
Expand(e) ==
  LET each(s) == [i \in DOMAIN s |-> Expand(s[i])] IN
  CASE e[1] = "parameterize" -> Parameterize(Expand(e[2]), Expand(e[3]), Expand(e[4]))
    [] e[1] = "guard" -> Guard(e[2], Expand(e[3]), Expand(e[4]), Expand(e[5]))
    [] e[1] = "delay" -> Delay(Expand(e[2]))
    [] e[1] = "set" -> To(e[2], Expand(e[3]))
    [] e[1] = "if" -> Branch(Expand(e[2]), Expand(e[3]), Expand(e[4]))
    [] e[1] = "lambda" -> FnRest(e[2], e[3], Expand(e[4]))
    [] e[1] \in {"begin", "call", "apply"} -> <<e[1], each(e[2])>>
    [] OTHER -> e

ControlDefinitions ==
  <<To("current-point", PointOf(N(0), False, False, False)),
    To("set-current-point!", Fn(<<"x">>, To("current-point", Var("x")))),
    To("travel-to-point!", TravelToPoint),
    To("call/cc", CallCcAtPoint),
    To("dynamic-wind", DynamicWind),
    To("make-parameter", MakeParameter),
    To("convert-exception-handler", ConvertExceptionHandler),
    To("current-exception-handler", CurrentExceptionHandler),
    To("with-exception-handler", WithExceptionHandler),
    To("raise-value", RaiseValue),
    To("raise", Apply1("raise-value", False)),
    To("raise-continuable", Apply1("raise-value", <<"bool", TRUE>>)),
    To("error", Thunk(Apply1("raise", ErrorObject))),
    Unwind,
    To("force", Force)>>

-----------------------------------------------------------------------------
Idle == <<"bool", FALSE>>

ControlInit ==
  /\ program \in Controls
  /\ P!SchemeStart(Do(Append(ControlDefinitions, Expand(program))))
  /\ E!SchemeStart(program)

ControlIdle ==
  /\ program = Idle
  /\ pControl = P!Return(P!Nil) /\ pEnv = <<>> /\ pStore = <<>> /\ pFrames = <<>>
  /\ eControl = E!Return(E!Nil) /\ eEnv = <<>> /\ eStore = <<>> /\ eFrames = <<>>

PreludeRuns(A) == program # Idle /\ ~P!SchemeFinished /\ A /\ UNCHANGED extentVars
ExtentsRun(A) == program # Idle /\ P!SchemeFinished /\ A /\ UNCHANGED preludeVars

ControlNext ==
  \/ PreludeRuns(P!EvaluateAtom) \/ PreludeRuns(P!EvaluatePart) \/ PreludeRuns(P!ResumeSet)
  \/ PreludeRuns(P!ResumeIf) \/ PreludeRuns(P!ResumeBegin) \/ PreludeRuns(P!ResumeCall)
  \/ PreludeRuns(P!ApplyClosure) \/ PreludeRuns(P!ApplyContinuation) \/ PreludeRuns(P!CallCc)
  \/ PreludeRuns(P!MakeRecord) \/ PreludeRuns(P!ApplyPrimitive)
  \/ ExtentsRun(E!EvaluateAtom) \/ ExtentsRun(E!EvaluatePart) \/ ExtentsRun(E!ResumeSet)
  \/ ExtentsRun(E!ResumeIf) \/ ExtentsRun(E!ResumeBegin) \/ ExtentsRun(E!ResumeCall)
  \/ ExtentsRun(E!ApplyClosure) \/ ExtentsRun(E!CallCc) \/ ExtentsRun(E!ApplyPrimitive)
  \/ ExtentsRun(E!ApplyJump) \/ ExtentsRun(E!Travel) \/ ExtentsRun(E!ResumeTravel)
  \/ ExtentsRun(E!DynamicWind) \/ ExtentsRun(E!Enter) \/ ExtentsRun(E!Leave) \/ ExtentsRun(E!Left)
  \/ ExtentsRun(E!ResumePass) \/ ExtentsRun(E!MakeParameter) \/ ExtentsRun(E!ResumeMaking)
  \/ ExtentsRun(E!Parameterize) \/ ExtentsRun(E!WithParameter) \/ ExtentsRun(E!ResumeBinding)
  \/ ExtentsRun(E!ApplyParameter) \/ ExtentsRun(E!WithExceptionHandler) \/ ExtentsRun(E!Guard)
  \/ ExtentsRun(E!Raise) \/ ExtentsRun(E!ResumeRaised) \/ ExtentsRun(E!RaiseAgain)
  \/ ExtentsRun(E!Delay) \/ ExtentsRun(E!Force) \/ ExtentsRun(E!ResumeForcing)

(* Data as a program can tell them apart without taking them apart.          *)
Seen(v) == IF v.kind \in {"number", "boolean", "pair"} THEN v ELSE "other"

Alike ==
  IF "failed" \in {pControl.mode, eControl.mode} THEN pControl = eControl
  ELSE Seen(pControl.v) = Seen(eControl.v)

(* Whatever a program makes of extents, parameters, handlers, guards and     *)
(* continuations that leave and enter them again, it goes on until it ends   *)
(* as the language says: `before` and `after` run for every extent that is    *)
(* entered and left, in order; a parameter and a handler are those of the    *)
(* extent the program is in; the clauses of a guard run where the guard is;   *)
(* and an object that no handler takes leaves all extents and stops.         *)
ExtentsKept ==
  program # Idle =>
    IF P!SchemeFinished /\ E!SchemeFinished
    THEN Alike /\ \A x \in Observed : Seen(pStore[P!Location(x)]) = Seen(eStore[E!Location(x)])
    ELSE ENABLED ControlNext
=============================================================================
