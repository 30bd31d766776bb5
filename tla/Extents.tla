------------------------------ MODULE Extents -------------------------------
(***************************************************************************)
(* Dynamic extents in the language (R7RS 4.2.6, 4.2.7, 6.10, 6.11), on the  *)
(* machine of Scheme. There is no state but the continuation: its frames     *)
(* tell the extents that an expression is in, the parameters that are bound *)
(* there and the handlers that are installed. A continuation is entered by   *)
(* a jump, which goes through the extents between here and there.          *)
(***************************************************************************)
EXTENDS Scheme

Pass == {"parameter", "handlers"}

ExtentOperators ==
  {"dynamic-wind", "make-parameter", "with-parameter", "with-exception-handler",
   "raise", "raise-continuable", "force"}

Fresh == Len(store) + 1
Calls(name) == Applies("primitive") /\ F.name = name
Jump(to, then) == [mode |-> "jump", to |-> to, then |-> then]

(* An extent, parameter or handler ends when the value of its body is known. *)
ResumePass ==
  /\ \E kind \in Pass : Resume(kind)
  /\ Pop
  /\ UNCHANGED <<expression, control, env, store>>

-----------------------------------------------------------------------------
(* dynamic-wind and jumps                                                  *)

DynamicWind ==
  /\ Calls("dynamic-wind")
  /\ control' = Apply(X[1], <<>>)
  /\ Push([kind |-> "entering", before |-> X[1], thunk |-> X[2], after |-> X[3]])
  /\ UNCHANGED <<expression, env, store>>

(* Each entry is an extent of its own.                                     *)
Enter ==
  /\ Resume("entering")
  /\ control' = Apply(Frame.thunk, <<>>)
  /\ frames' = <<[kind |-> "extent", id |-> Fresh, before |-> Frame.before,
                  after |-> Frame.after]>> \o Tail(frames)
  /\ store' = Append(store, Bool(FALSE))
  /\ UNCHANGED <<expression, env>>

Leave ==
  /\ Resume("extent")
  /\ control' = Apply(Frame.after, <<>>)
  /\ frames' = <<[kind |-> "left", value |-> control.v]>> \o Tail(frames)
  /\ UNCHANGED <<expression, env, store>>

Left ==
  /\ Resume("left")
  /\ control' = Return(Frame.value)
  /\ Pop
  /\ UNCHANGED <<expression, env, store>>

(* Positions of the extents of fs that gs is not in, innermost first.        *)
Outside(fs, gs) == {i \in DOMAIN fs : fs[i].kind = "extent" /\ fs[i] \notin ToSet(gs)}
From(fs, i) == SubSeq(fs, i, Len(fs))
Below(fs, i) == From(fs, i + 1)

(* From the innermost extent out, then from the outermost extent in.         *)
Travel ==
  /\ control.mode = "jump"
  /\ LET here == Outside(frames, control.to)
         there == Outside(control.to, frames)
         via(rest, at) == <<[kind |-> "travel", to |-> control.to, then |-> control.then,
                             at |-> at]>> \o rest
     IN CASE here # {} ->
               \E i \in here : /\ \A j \in here : i <= j
                               /\ control' = Apply(frames[i].after, <<>>)
                               /\ frames' = via(Below(frames, i), Below(frames, i))
          [] here = {} /\ there # {} ->
               \E i \in there : /\ \A j \in there : i >= j
                                /\ control' = Apply(control.to[i].before, <<>>)
                                /\ frames' = via(Below(control.to, i), From(control.to, i))
          [] OTHER -> control' = control.then /\ frames' = control.to
  /\ UNCHANGED <<expression, env, store>>

ResumeTravel ==
  /\ Resume("travel")
  /\ control' = Jump(Frame.to, Frame.then)
  /\ frames' = Frame.at
  /\ UNCHANGED <<expression, env, store>>

ApplyJump ==
  /\ Applies("continuation")
  /\ control' = Jump(F.frames, Return(Head(X)))
  /\ UNCHANGED <<expression, env, store, frames>>

-----------------------------------------------------------------------------
(* Parameters. A value is converted once, where it is given.                *)

Identity ==
  [kind |-> "closure", parameters |-> <<"x">>, rest |-> "", body |-> <<"var", "x">>, env |-> <<>>]

MakeParameter ==
  /\ Calls("make-parameter")
  /\ LET convert == IF Len(X) = 2 THEN X[2] ELSE Identity
     IN /\ control' = Apply(convert, <<X[1]>>)
        /\ Push([kind |-> "making", convert |-> convert])
  /\ UNCHANGED <<expression, env, store>>

ResumeMaking ==
  /\ Resume("making")
  /\ control' = Return([kind |-> "dynamic", location |-> Fresh, convert |-> Frame.convert])
  /\ store' = Append(store, control.v)
  /\ Pop
  /\ UNCHANGED <<expression, env>>

Parameterize ==
  /\ control.mode = "eval" /\ Form = "parameterize"
  /\ control' = Evaluate(<<"call", <<<<"var", "with-parameter">>, E[2], E[3],
                                     <<"lambda", <<>>, "", E[4]>>>>>>)
  /\ UNCHANGED <<expression, env, store, frames>>

WithParameter ==
  /\ Calls("with-parameter")
  /\ control' = Apply(X[1].convert, <<X[2]>>)
  /\ Push([kind |-> "binding", location |-> X[1].location, thunk |-> X[3]])
  /\ UNCHANGED <<expression, env, store>>

ResumeBinding ==
  /\ Resume("binding")
  /\ control' = Apply(Frame.thunk, <<>>)
  /\ frames' = <<[kind |-> "parameter", location |-> Frame.location, value |-> control.v]>>
               \o Tail(frames)
  /\ UNCHANGED <<expression, env, store>>

ApplyParameter ==
  /\ Applies("dynamic")
  /\ LET bound == {i \in DOMAIN frames :
                     frames[i].kind = "parameter" /\ frames[i].location = F.location}
     IN control' = Return(IF bound = {} THEN store[F.location]
                          ELSE frames[CHOOSE i \in bound : \A j \in bound : i <= j].value)
  /\ UNCHANGED <<expression, env, store, frames>>

-----------------------------------------------------------------------------
(* Handlers. The current ones, innermost first, belong to a continuation.    *)

Current ==
  LET installed == {i \in DOMAIN frames : frames[i].kind = "handlers"}
  IN IF installed = {} THEN <<>>
     ELSE frames[CHOOSE i \in installed : \A j \in installed : i <= j].handlers

Install(handlers) == [kind |-> "handlers", handlers |-> handlers]

WithExceptionHandler ==
  /\ Calls("with-exception-handler")
  /\ control' = Apply(X[2], <<>>)
  /\ Push(Install(<<X[1]>> \o Current))
  /\ UNCHANGED <<expression, env, store>>

(* The clause of a guard runs where the guard is; if its test fails, the      *)
(* object is raised again where it was raised.                             *)
Guard ==
  /\ control.mode = "eval" /\ Form = "guard"
  /\ control' = Evaluate(E[5])
  /\ Push(Install(<<[kind |-> "guard", frames |-> frames,
                     clause |-> [kind |-> "closure", parameters |-> <<E[2], "raise again">>,
                                 rest |-> "", env |-> env,
                                 body |-> <<"if", E[3], E[4],
                                            <<"call", <<<<"var", "raise again">>>>>>>>]]>>
                  \o Current))
  /\ UNCHANGED <<expression, env, store>>

ErrorObject == Num(99)
RaiseContinuable == [kind |-> "primitive", name |-> "raise-continuable"]

(* A handler runs where the object was raised, under the outer handlers. No   *)
(* handler is left at the top of a program: it leaves all extents and stops. *)
Raise ==
  /\ \E continuable \in BOOLEAN :
       /\ Calls(IF continuable THEN "raise-continuable" ELSE "raise")
       /\ LET under == <<Install(Tail(Current))>> \o frames
              at == IF continuable THEN under ELSE <<[kind |-> "raised"]>> \o under
              handler == Head(Current)
          IN CASE Current = <<>> -> control' = Jump(<<>>, Failed("Halt")) /\ UNCHANGED frames
               [] Current # <<>> /\ Head(Current).kind = "guard" ->
                    /\ control' = Jump(handler.frames, Apply(handler.clause,
                         <<X[1], [kind |-> "again", frames |-> at, object |-> X[1]]>>))
                    /\ frames' = at
               [] OTHER -> control' = Apply(handler, <<X[1]>>) /\ frames' = at
  /\ UNCHANGED <<expression, env, store>>

(* A handler has returned and must not.                                     *)
ResumeRaised ==
  /\ Resume("raised")
  /\ control' = Apply([kind |-> "primitive", name |-> "raise"], <<ErrorObject>>)
  /\ Pop
  /\ UNCHANGED <<expression, env, store>>

RaiseAgain ==
  /\ Applies("again")
  /\ control' = Jump(F.frames, Apply(RaiseContinuable, <<F.object>>))
  /\ UNCHANGED <<expression, env, store, frames>>

-----------------------------------------------------------------------------
(* Promises. The first value stays.                                        *)

Pending == [kind |-> "pending"]

Delay ==
  /\ control.mode = "eval" /\ Form = "delay"
  /\ control' = Return([kind |-> "promise", location |-> Fresh, body |-> E[2], env |-> env])
  /\ store' = Append(store, Pending)
  /\ UNCHANGED <<expression, env, frames>>

Force ==
  /\ Calls("force")
  /\ IF store[X[1].location] # Pending
     THEN control' = Return(store[X[1].location]) /\ UNCHANGED <<env, frames>>
     ELSE /\ control' = Evaluate(X[1].body)
          /\ env' = X[1].env
          /\ Push([kind |-> "forcing", location |-> X[1].location])
  /\ UNCHANGED <<expression, store>>

ResumeForcing ==
  /\ Resume("forcing")
  /\ LET value == IF store[Frame.location] = Pending THEN control.v ELSE store[Frame.location]
     IN control' = Return(value) /\ store' = [store EXCEPT ![Frame.location] = value]
  /\ Pop
  /\ UNCHANGED <<expression, env>>

-----------------------------------------------------------------------------
ExtentNext ==
  \/ EvaluateAtom \/ EvaluatePart
  \/ ResumeSet \/ ResumeIf \/ ResumeBegin \/ ResumeCall
  \/ ApplyClosure \/ CallCc \/ ApplyPrimitive \/ ApplyJump
  \/ DynamicWind \/ Enter \/ Leave \/ Left \/ Travel \/ ResumeTravel \/ ResumePass
  \/ MakeParameter \/ ResumeMaking \/ Parameterize \/ WithParameter \/ ResumeBinding
  \/ ApplyParameter \/ WithExceptionHandler \/ Guard \/ Raise \/ ResumeRaised \/ RaiseAgain
  \/ Delay \/ Force \/ ResumeForcing
=============================================================================
