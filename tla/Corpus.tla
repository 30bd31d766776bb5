------------------------------- MODULE Corpus -------------------------------
(***************************************************************************)
(* The programs that the runs of Vm and Execution go through: small         *)
(* grammars that put every form in every position that matters. A program   *)
(* starts by giving its global variables numbers.                          *)
(***************************************************************************)
EXTENDS Prelude

PrimitiveNumbers ==
  [x \in {"$$rib", "$$close", "close", "rib?", "rib-car", "rib-cdr", "rib-tag",
          "rib-set-car!", "rib-set-cdr!", "eq?", "<", "+", "-", "*", "halt", "cons",
          "illegal"} |->
     CASE x = "$$rib" -> 0 [] x \in {"$$close", "close"} -> 1 [] x = "rib?" -> 2
       [] x = "rib-car" -> 3 [] x = "rib-cdr" -> 4 [] x = "rib-tag" -> 5
       [] x = "rib-set-car!" -> 6 [] x = "rib-set-cdr!" -> 7 [] x = "eq?" -> 8
       [] x = "<" -> 9 [] x = "+" -> 10 [] x = "-" -> 11 [] x = "*" -> 12
       [] x = "halt" -> 40 [] x = "cons" -> 61 [] x = "illegal" -> 99]

VariableNames == {"f", "n", "r", "k"}

GlobalNames ==
  <<"$$rib", "$$close", "close", "rib?", "rib-car", "rib-cdr", "rib-tag", "rib-set-car!",
    "rib-set-cdr!", "eq?", "<", "+", "-", "*", "halt", "cons", "illegal",
    "dummy-procedure", "current-point", "call/cc", "list", "f", "n", "r", "k">>

(* The names that Scheme knows as procedures.                              *)
SchemeOperators ==
  {"rib-car", "rib-cdr", "cons", "+", "-", "<", "call/cc", "list", "halt", "illegal"}

Start(s) == Do(<<To("n", N(1)), To("r", N(0))>> \o s)

-----------------------------------------------------------------------------
(* Expressions over a local x and an escape procedure k, nested twice.      *)

Leaves == {Var("x"), Var("n")}

Grow(A, B) ==
  {Bin("+", a, b) : a \in A, b \in B}
  \cup {Branch(Bin("<", a, N(2)), b, N(5)) : a \in A, b \in B}
  \cup {Let("x", a, b) : a \in A, b \in B}
  \cup {Do(<<To("x", a), b>>) : a \in A, b \in B}
  \cup {App(Var("k"), <<a>>) : a \in A}
  \cup {CallWith("k", a) : a \in A}
  \cup {App(Fn(<<>>, a), <<>>) : a \in A}

Small == Grow(Leaves, Leaves)
Nested == Grow(Small, {Var("x")}) \cup Grow({N(1)}, Small)

Escaping == {Start(<<Bin("+", N(10), CallWith("k", Let("x", N(2), e)))>>)
               : e \in Small \cup Nested}

-----------------------------------------------------------------------------
(* Calls with every arity, direct and with a list at the end.               *)

Procedures ==
  {Fn(ps, e) : ps \in {<<>>, <<"n">>, <<"x", "n">>}, e \in {Var("n"), N(7)}}
  \cup {FnRest(ps, "xs", e) : ps \in {<<>>, <<"n">>},
          e \in {Var("n"), Var("xs")}}
  \cup {N(3)}

Arguments == {<<>>, <<N(1)>>, <<N(1), N(2)>>, <<N(1), N(2), N(3)>>}

Calls1 ==
  {App(p, args) : p \in Procedures, args \in Arguments \ {<<>>}}
  \cup {Spread(p, <<List(args)>>) : p \in Procedures, args \in Arguments \ {<<>>}}
  \cup {Spread(p, <<N(4), List(args)>>) : p \in Procedures, args \in Arguments}
  \cup {Spread(Var("+"), <<List(<<N(1), N(2)>>)>>), Spread(Var("+"), <<N(1), List(<<N(2)>>)>>),
        App(Var("halt"), <<>>), App(Var("illegal"), <<>>), App(Var("r"), <<>>)}

(* As the last expression, as an operand, and in the body of a procedure.   *)
Calling ==
  {Start(<<c>>) : c \in Calls1}
  \cup {Start(<<To("r", c), N(9)>>) : c \in Calls1}
  \cup {Start(<<To("f", Fn(<<>>, c)), Bin("cons", N(0), App(Var("f"), <<>>))>>) : c \in Calls1}

-----------------------------------------------------------------------------
(* A continuation captured in a context and entered two more times.         *)

Capture == CallWith("c", Do(<<To("k", Var("c")), N(0)>>))

Contexts(H) ==
  {Bin("+", N(1), h) : h \in H} \cup {Bin("+", h, Var("n")) : h \in H}
  \cup {Bin("+", Var("n"), h) : h \in H}
  \cup {Branch(Bin("<", h, N(2)), Var("n"), N(5)) : h \in H}
  \cup {Do(<<To("r", h), Bin("+", Var("r"), N(1))>>) : h \in H}
  \cup {Let("x", Var("n"), Bin("+", Var("x"), h)) : h \in H}
  \cup {Let("x", N(1), Do(<<h, To("x", Bin("+", Var("x"), N(1))), Var("x")>>)) : h \in H}
  \cup {App(Fn(<<>>, h), <<>>) : h \in H}
  \cup {Spread(Var("+"), <<N(3), App(Var("list"), <<h>>)>>) : h \in H}

(* An operand of a procedure that is not a variable: let, most of all.      *)
LetContexts(H) == {Let("x", h, Bin("+", Var("x"), N(1))) : h \in H}

Reenter(e) ==
  Start(<<To("r", e), To("n", Bin("+", Var("n"), N(1))),
          Branch(Bin("<", Var("n"), N(4)), App(Var("k"), <<Var("n")>>), Var("r"))>>)

InProcedure(e) ==
  Start(<<To("f", Fn(<<>>, e)), To("r", App(Var("f"), <<>>)),
          To("n", Bin("+", Var("n"), N(1))),
          Branch(Bin("<", Var("n"), N(4)), App(Var("k"), <<Var("n")>>), Var("r"))>>)

Once == Contexts({Capture})
Reentering ==
  {Reenter(e) : e \in Once \cup Contexts(Once)}
  \cup {InProcedure(e) : e \in Once \cup LetContexts({Capture})}

ReenteringLet == {Reenter(e) : e \in LetContexts({Capture})}

-----------------------------------------------------------------------------
(* Loops that call themselves last: directly, in the branches of forms, by  *)
(* a list of arguments, and through another procedure.                     *)

Decremented(x) == Bin("-", Var(x), N(1))

LoopBodies ==
  {App(Var("f"), <<Decremented("i")>>),
   Spread(Var("f"), <<List(<<Decremented("i")>>)>>),
   Do(<<To("n", Var("i")), App(Var("f"), <<Decremented("i")>>)>>),
   Branch(Bin("<", Var("i"), N(3)), App(Var("f"), <<Decremented("i")>>),
          App(Var("f"), <<Bin("-", Var("i"), N(2))>>)),
   Let("j", Decremented("i"), App(Var("f"), <<Var("j")>>)),
   App(Fn(<<>>, App(Var("f"), <<Decremented("i")>>)), <<>>),
   App(Var("r"), <<Decremented("i")>>),
   App(Var("call/cc"), <<Fn(<<"c">>, App(Var("f"), <<Decremented("i")>>))>>)}

Loop(body, count) ==
  Do(<<To("f", Fn(<<"i">>, Branch(Bin("<", Var("i"), N(1)), N(0), body))),
       To("r", Fn(<<"i">>, App(Var("f"), <<Var("i")>>))),
       App(Var("f"), <<N(count)>>)>>)

Looping == {Loop(body, 16) : body \in LoopBodies}

(* What only the machine is asked about: no end, and pairs that are written. *)
Pairs == {Do(<<To("r", Bin("cons", N(1), N(2))), e>>) : e \in
  {Bin("rib-set-car!", Var("r"), N(3)), Bin("rib-set-cdr!", Var("r"), Var("r")),
   Bin("eq?", Var("r"), Var("r")), Bin("*", N(2), N(3)), App(Var("rib?"), <<Var("r")>>),
   App(Var("rib-tag"), <<Var("f")>>),
   App(Var("$$rib"), <<N(1), Var("r"), N(3)>>)}}

Endless == {Do(<<To("f", Fn(<<"i">>, Bin("+", Var("i"), App(Var("f"), <<Var("i")>>)))),
                 App(Var("f"), <<N(1)>>)>>)}

Everything == Escaping \cup Calling \cup Reentering \cup ReenteringLet \cup Looping
              \cup Pairs \cup Endless

-----------------------------------------------------------------------------
(* Programs for Control: layers of extents, parameters, handlers and guards  *)
(* around something that leaves them, raises, or captures a continuation.     *)
(* Whatever runs leaves a mark and the value of the parameter p.            *)

ControlGlobals ==
  <<"+", "-", "<", "cons", "rib-car", "rib-cdr", "list", "eq?", "pair?", "record", "field",
    "halt", "$call/cc", "call/cc", "current-point", "set-current-point!", "travel-to-point!",
    "dynamic-wind", "make-parameter", "with-parameter", "convert-exception-handler",
    "current-exception-handler", "with-exception-handler", "raise-value", "raise",
    "raise-continuable", "error", "unwind", "force", "r", "n", "k", "g", "p", "s">>

ObservedNames == {"r", "n"}

Mark(e) == To("r", Bin("cons", e, Var("r")))
MarkAt(d) == Mark(Bin("+", N(100 * d), App(Var("p"), <<>>)))
Next1(x) == To(x, Bin("+", Var(x), N(1)))
InThunk(e) == Fn(<<>>, e)
CaptureIn(x) == Do(<<Mark(CallWith("c", Do(<<To(x, Var("c")), N(3)>>))), MarkAt(1)>>)

Layer(kind, d, body) ==
  CASE kind = "extent" ->
         App(Var("dynamic-wind"), <<InThunk(MarkAt(d + 1)), InThunk(body), InThunk(MarkAt(d + 2))>>)
    [] kind = "parameter" -> <<"parameterize", Var("p"), N(d), body>>
    [] kind = "handler" ->
         App(Var("with-exception-handler"),
             <<Fn(<<"x">>, Do(<<Mark(Var("x")), MarkAt(d + 3), N(d)>>)), InThunk(body)>>)
    [] kind = "guard" ->
         <<"guard", "x", Bin("<", Var("x"), N(50)), Do(<<Mark(Var("x")), MarkAt(d + 4), N(d)>>), body>>

Within(layers, d, body) ==
  FoldRight(LAMBDA k, inner : Layer(layers[k], d + 10 * k, inner), [k \in DOMAIN layers |-> k], body)

Cores ==
  {MarkAt(1), CaptureIn("k"), App(Var("out"), <<N(5)>>),
   Do(<<To("s", <<"delay", Do(<<MarkAt(2), N(4)>>)>>),
        Mark(App(Var("force"), <<Var("s")>>)), Mark(App(Var("force"), <<Var("s")>>))>>)}

Raises ==
  {Do(<<Mark(App(Var(raise), <<N(n)>>)), MarkAt(1), N(6)>>)
     : raise \in {"raise", "raise-continuable"}, n \in {7, 60}}

Clamp == Fn(<<"x">>, Branch(Bin("<", Var("x"), N(12)), N(12), Var("x")))

Setting(s) ==
  Do(<<To("r", N(0)), To("n", N(0)), To("p", App(Var("make-parameter"), <<N(1), Clamp>>))>> \o s)

Again(x, bound) ==
  Do(<<Next1("n"), Branch(Bin("<", Var("n"), N(bound)),
                          Branch(Var(x), App(Var(x), <<Var("n")>>), N(0)), N(0))>>)

(* Every layer, and every pair with a handler or a guard in it that does      *)
(* not only bind the parameter outside.                                    *)
Kinds == {"extent", "parameter", "handler", "guard"}
Catching == {"handler", "guard"}
Pairings == {<<k, l>> : k \in Catching, l \in Kinds} \cup {<<"extent", k>> : k \in Catching}
Places == {<<>>, <<"extent">>, <<"extent", "extent">>, <<"extent", "parameter">>}

In(layers, core) ==
  Setting(<<Mark(CallWith("out", Within(layers, 20, core))), MarkAt(9), Again("k", 3)>>)

Layered ==
  {In(layers, core) : layers \in SeqOf(Kinds, 1), core \in Cores \cup Raises}
  \cup {In(layers, core) : layers \in Pairings, core \in Raises \cup {CaptureIn("k")}}

(* From one place in an extent to another one and back.                     *)
Travelling ==
  {Setting(<<Layer("extent", 80,
               Do(<<Within(one, 20, CaptureIn("k")),
                    Within(other, 50, Do(<<CaptureIn("g"), Again("k", 2)>>))>>)),
             Again("g", 3)>>)
     : one \in Places, other \in Places}

ControlPrograms == Layered \cup Travelling
=============================================================================
