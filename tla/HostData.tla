------------------------------- MODULE HostData -------------------------------
(***************************************************************************)
(* Data that cross between Rust and Scheme: the command line and the          *)
(* environment of process_context/src/primitive_set.rs, and the conversions   *)
(* of dynamic/src/scheme_value.rs for a Rust function that returns its        *)
(* argument.                                                               *)
(*                                                                         *)
(* The routines build lists one allocation at a time, and any of these may   *)
(* move all cells: as in Vm, an allocation makes each reference in a Rust     *)
(* local Stale but the one that receives its result. Only the register of    *)
(* the machine is a root.                                                   *)
(***************************************************************************)
EXTENDS Cells, SequencesExt

CONSTANTS
  CommandLines,   \* sequences of texts; a text is a sequence of numbers
  Environments,   \* sequences of pairs of texts
  Arguments,      \* what the Rust function is called with: [type, value]
  IntegerBits     \* the width of the integer type of its parameter

VARIABLES
  ribs,      \* the cells
  root,      \* Memory::register
  routine,   \* "idle", "command-line", "environment" or "call"
  given,     \* what the host has, or the argument of the call
  todo,      \* what the iterator of the host has left
  text,      \* characters left of the string in hand
  list,      \* the local with the string that is built
  phase,     \* where the routine is
  answer     \* the value that it pushes

hostVars == <<ribs, root, routine, given, todo, text, list, phase, answer>>

Stale == 0
Nothing == Number(0)

(* What the host has: texts, which are sequences of the codes of characters,  *)
(* variables with a name and a value, and arguments of three Rust types.      *)
HalfRange == 2^(IntegerBits - 1)

ASSUME HostAssumption ==
  /\ CommandLines \subseteq Seq(Seq(Nat))
  /\ Environments \subseteq Seq(Seq(Nat) \X Seq(Nat))
  /\ \A a \in Arguments : \/ a.type = "string" /\ a.value \in Seq(Nat)
                          \/ a.type = "integer" /\ a.value \in Int
                          \/ a.type = "boolean" /\ a.value \in BOOLEAN
  /\ HalfRange \in Nat \ {0}

HostInit ==
  /\ ribs = <<Cell(Number(0), Reference(NullCell), NullType),
              Cell(Reference(NullCell), Reference(TrueCell), BooleanType),
              Cell(Number(0), Reference(NullCell), BooleanType)>>
  /\ root = Stale /\ list = Stale
  /\ routine = "idle" /\ given = <<>> /\ todo = <<>> /\ text = <<>>
  /\ phase = "idle" /\ answer = Nothing

New == Len(ribs) + 1

(* Memory::allocate. The fields are read before cells move.                  *)
Allocates(car, cdr, tag) == ribs' = Append(ribs, Cell(car, cdr, tag))

-----------------------------------------------------------------------------
(* build_string, and the same loop in String::into_scheme: from the last      *)
(* character to the first.                                                  *)
AddCharacter ==
  /\ phase = "string" /\ text # <<>>
  /\ Allocates(Number(Last(text)), Reference(list), PairType)
  /\ list' = New /\ text' = Front(text)
  /\ UNCHANGED <<root, routine, given, todo, phase, answer>>

Starts(s) == text' = s /\ list' = NullCell /\ phase' = "string"

(* The process contexts: what each makes of the arguments and the            *)
(* environment of the process, or of those in memory.                       *)
MemoryContext(strings, variables) ==
  [command_line_rev |-> Reverse(strings), environment_variables |-> variables]

OsContext(strings, variables) == MemoryContext(strings, variables)

LibcContext(strings, variables) ==
  [MemoryContext(strings, variables) EXCEPT !.environment_variables = <<>>]

VoidContext == [command_line_rev |-> <<>>, environment_variables |-> <<>>]

Context(kind, strings, variables) ==
  CASE kind = "memory" -> MemoryContext(strings, variables)
    [] kind = "os" -> OsContext(strings, variables)
    [] kind = "libc" -> LibcContext(strings, variables)
    [] kind = "void" -> VoidContext

Kinds == {"memory", "os", "libc", "void"}

(* COMMAND_LINE. The strings come from the last to the first.               *)
CommandLine(kind, strings) ==
  /\ routine = "idle"
  /\ routine' = "command-line" /\ given' = IF kind = "void" THEN <<>> ELSE strings
  /\ todo' = Context(kind, strings, <<>>).command_line_rev
  /\ root' = NullCell /\ phase' = "next"
  /\ UNCHANGED <<ribs, text, list, answer>>

NextArgument ==
  /\ routine = "command-line" /\ phase = "next" /\ todo # <<>>
  /\ Starts(Head(todo))
  /\ UNCHANGED <<ribs, root, routine, given, todo, answer>>

(* Mutant of LinkArgument: the list is in a local while a string is built.    *)
LinkLocal ==
  /\ routine = "command-line" /\ phase = "string" /\ text = <<>>
  /\ Allocates(Reference(list), Reference(IF Head(todo) = <<>> THEN root ELSE Stale), PairType)
  /\ root' = New
  /\ list' = Stale /\ todo' = Tail(todo) /\ phase' = "next"
  /\ UNCHANGED <<routine, given, text, answer>>

LinkArgument ==
  /\ routine = "command-line" /\ phase = "string" /\ text = <<>>
  /\ Allocates(Reference(list), Reference(root), PairType)
  /\ root' = New
  /\ list' = Stale /\ todo' = Tail(todo) /\ phase' = "next"
  /\ UNCHANGED <<routine, given, text, answer>>

(* ENVIRONMENT_VARIABLES. The pair of a variable is in the list before its   *)
(* strings are built, so that the register holds it.                        *)
Environment(kind, variables) ==
  /\ routine = "idle"
  /\ routine' = "environment"
  /\ given' = IF kind \in {"libc", "void"} THEN <<>> ELSE variables
  /\ todo' = Context(kind, <<>>, variables).environment_variables
  /\ root' = NullCell /\ phase' = "next"
  /\ UNCHANGED <<ribs, text, list, answer>>

MakeEntry ==
  /\ routine = "environment" /\ phase = "next" /\ todo # <<>>
  /\ Allocates(Reference(NullCell), Reference(NullCell), PairType)
  /\ list' = New /\ phase' = "link"
  /\ UNCHANGED <<root, routine, given, todo, text, answer>>

LinkEntry ==
  /\ phase = "link"
  /\ Allocates(Reference(list), Reference(root), PairType)
  /\ root' = New
  /\ Starts(Head(todo)[1])
  /\ UNCHANGED <<routine, given, todo, answer>>

Entry == ribs[root].car.value

SetName ==
  /\ routine = "environment" /\ phase = "string" /\ text = <<>> /\ Len(Head(todo)) = 2
  /\ ribs' = [ribs EXCEPT ![Entry].car = Reference(list)]
  /\ Starts(Head(todo)[2])
  /\ todo' = <<Tail(Head(todo))>> \o Tail(todo)
  /\ UNCHANGED <<root, routine, given, answer>>

SetVariable ==
  /\ routine = "environment" /\ phase = "string" /\ text = <<>> /\ Len(Head(todo)) = 1
  /\ ribs' = [ribs EXCEPT ![Entry].cdr = Reference(list)]
  /\ list' = Stale /\ todo' = Tail(todo) /\ phase' = "next"
  /\ UNCHANGED <<root, routine, given, text, answer>>

Push ==
  /\ phase = "next" /\ todo = <<>>
  /\ answer' = Reference(root) /\ phase' = "done"
  /\ UNCHANGED <<ribs, root, routine, given, todo, text, list>>

-----------------------------------------------------------------------------
(* SchemeValue: from_scheme of the argument, and into_scheme of the result.   *)

BooleanFromScheme(v) == v = Reference(FalseCell)
BooleanIntoScheme(b) == Reference(IF b THEN TrueCell ELSE FalseCell)

(* `as` of a number: what does not fit in the type is cut off.                *)
IntegerFromScheme(v) == ((v.value + HalfRange) % (2 * HalfRange)) - HalfRange

Items(at, Item(_)) ==
  LET walk[i \in 0 .. Len(ribs)] ==
        IF i \in {NullCell, Stale} THEN <<>>
        ELSE <<Item(ribs[i].car.value)>> \o walk[ribs[i].cdr.value]
  IN walk[at]

Characters(i) == Items(i, LAMBDA c : c)

StringFromScheme(v) == Characters(ribs[v.value].cdr.value)

CallIdentity(a) ==
  /\ routine = "idle"
  /\ routine' = "call" /\ given' = a
  /\ CASE a.type = "string" -> Starts(a.value) /\ UNCHANGED answer
       [] a.type = "integer" ->
            /\ answer' = Number(IntegerFromScheme(Number(a.value)))
            /\ phase' = "done" /\ UNCHANGED <<text, list>>
       [] a.type = "boolean" ->
            /\ answer' = BooleanIntoScheme(BooleanFromScheme(BooleanIntoScheme(a.value)))
            /\ phase' = "done" /\ UNCHANGED <<text, list>>
  /\ UNCHANGED <<ribs, root, todo>>

ReturnString ==
  /\ routine = "call" /\ phase = "string" /\ text = <<>>
  /\ Allocates(Number(Len(given.value)), Reference(list), StringType)
  /\ answer' = Reference(New) /\ list' = Stale /\ phase' = "done"
  /\ UNCHANGED <<root, routine, given, todo, text>>

(* An allocation that finds no room ends the routine and the program.        *)
HostFail ==
  /\ phase \in {"string", "link", "next"}
  /\ phase' = "failed"
  /\ UNCHANGED <<ribs, root, routine, given, todo, text, list, answer>>

HostNext ==
  \/ \E kind \in Kinds, strings \in CommandLines : CommandLine(kind, strings)
  \/ \E kind \in Kinds, variables \in Environments : Environment(kind, variables)
  \/ \E a \in Arguments : CallIdentity(a)
  \/ AddCharacter \/ NextArgument \/ LinkArgument
  \/ MakeEntry \/ LinkEntry \/ SetName \/ SetVariable \/ Push
  \/ ReturnString \/ HostFail

HostSpec == HostInit /\ [][HostNext]_hostVars

-----------------------------------------------------------------------------
Variable(i) == <<Characters(ribs[i].car.value), Characters(ribs[i].cdr.value)>>

(* The program gets what its process has (a libc machine has no variables and  *)
(* a void one nothing at all), wherever a collection strikes while             *)
(* the lists are built: the arguments in their order, every variable with its *)
(* own value (in reverse), strings with their length and integers that fit in *)
(* the type of the parameter (primitive_set.rs:34, scheme_value.rs:64).       *)
HostKept ==
  phase = "done" =>
    CASE routine = "command-line" -> Items(answer.value, Characters) = given
      [] routine = "environment" -> Items(answer.value, Variable) = Reverse(given)
      [] routine = "call" ->
           /\ given.type = "string" =>
                /\ StringFromScheme(answer) = given.value
                /\ ribs[answer.value].car = Number(Len(given.value))
           /\ given.type = "integer" /\ given.value \in -HalfRange .. HalfRange - 1 =>
                answer = Number(given.value)

(* "Values of such types are automatically marshalled when we pass them from   *)
(* Scheme to Rust, and vice versa" (dynamic/src/primitive_set.rs:53): a        *)
(* function that returns its boolean argument is the identity in Scheme.      *)
BooleansCross ==
  routine = "call" /\ given.type = "boolean" => answer = BooleanIntoScheme(given.value)
=============================================================================
