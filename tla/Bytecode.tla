------------------------------ MODULE Bytecode ------------------------------
(***************************************************************************)
(* How a program travels from the compiler (`encode` of compile.scm) to the *)
(* machine (`decode_ribs` of vm.rs): as a sequence of codes that builds the *)
(* graph of its cells bottom up. Values that occur more than once are sent  *)
(* once and then named by their place in a dictionary, which moves the last *)
(* used value to the front and drops a value at its last use. The two ends   *)
(* keep a dictionary each and never talk about it.                         *)
(*                                                                         *)
(* Each recursive function of the encoder is a loop over `todo`, what is     *)
(* left to do in order. The decoder takes a code as soon as it is there: it *)
(* depends on nothing but the codes. How a code becomes bytes is in Bytes.  *)
(***************************************************************************)
EXTENDS Cells, SequencesExt

CONSTANTS
  Sources,   \* the programs to send: records of a heap and the cell of the root
  Leftovers  \* what an earlier run of the machine left in code and stack

ASSUME SourcesAssumption ==
  \A s \in Sources :
    /\ s.root \in DOMAIN s.heap
    /\ \A c \in DOMAIN s.heap : \A v \in {s.heap[c].car, s.heap[c].cdr} :
         IF IsCons(v) THEN v = Reference(v.value) /\ v.value \in DOMAIN s.heap
         ELSE v = Number(v.value)

ASSUME LeftoversAssumption == \A l \in Leftovers : l \in Seq(Range(l))

VARIABLES
  source, leftover,  \* what is sent, and what the machine's lists end with
  phase,             \* "count", "encode", "done" or "failed"
  todo,              \* the encoder's work, first task first
  counts,            \* uses of each shared cell that are still to come
  dictionary,        \* the encoder's dictionary, a sequence of its cells
  codes,             \* codes that are written and not yet read
  memory,            \* the decoder's cells
  stack, register,   \* its value stack and its dictionary (`code`), top first
  loaded,            \* what decode_ribs returned, Number(0) before
  image              \* auxiliary: the decoded cell of each source cell

encoderVars == <<phase, todo, counts, dictionary>>
decoderVars == <<memory, stack, register, image>>
vars == <<source, leftover, encoderVars, codes, decoderVars, loaded>>

-----------------------------------------------------------------------------
Rib(c) == source.heap[c]
SmallNumbers == 0 .. 127

SharedTypesNoSymbol == {BooleanType, CharType, NullType, StringType}  \* mutant of SharedTypes
SharedTypes == {BooleanType, CharType, NullType, StringType, SymbolType, Nop}
SharedValue(c) == Rib(c).tag \in SharedTypes

NopCode(c) == Rib(c).tag = Nop /\ Rib(c).car = Number(0)

(* encode-context-null: the cell of () that #f, the car of the root, holds. *)
NullRib == Rib(Rib(source.root).car.value).car.value

Task(kind, v) == [kind |-> kind, value |-> v]
Todo(tasks) == todo' = tasks \o Tail(todo)
Doing(kind) == todo # <<>> /\ Head(todo).kind = kind
Current == Head(todo).value          \* the value of the task
Cel == Current.value                 \* its cell, when it is a reference

With(f, x, v) == [y \in DOMAIN f \cup {x} |-> IF y = x THEN v ELSE f[y]]

Init ==
  /\ source \in Sources /\ leftover \in Leftovers
  /\ phase = "count" /\ todo = <<Task("code", Reference(source.root))>>
  /\ counts = <<>> /\ dictionary = <<>> /\ codes = <<>>
  /\ memory = <<>> /\ stack = leftover /\ register = leftover
  /\ loaded = Number(0) /\ image = <<>>

-----------------------------------------------------------------------------
(* count-ribs!: how often each shared value occurs.                         *)

Incremented(c) == With(counts, c, IF c \in DOMAIN counts THEN counts[c] + 1 ELSE 1)

CountNumber ==
  /\ phase = "count" /\ (Doing("code") \/ Doing("data")) /\ ~IsCons(Current)
  /\ Todo(<<>>)
  /\ UNCHANGED counts

CountData ==
  /\ phase = "count" /\ Doing("data") /\ IsCons(Current)
  /\ LET parts == IF Rib(Cel).tag = ProcedureType THEN "code" ELSE "data"
         known == SharedValue(Cel) /\ Cel \in DOMAIN counts
     IN Todo((IF known THEN <<>>
              ELSE <<Task(parts, Rib(Cel).car), Task("data", Rib(Cel).cdr)>>)
             \o (IF SharedValue(Cel) THEN <<Task("increment", Current)>> ELSE <<>>))
  /\ UNCHANGED counts

Increment ==
  /\ phase = "count" /\ Doing("increment")
  /\ counts' = Incremented(Cel)
  /\ Todo(<<>>)

(* Code that ends in () or branches: nops mark where two branches meet.     *)
CountCode ==
  /\ phase = "count" /\ Doing("code") /\ IsCons(Current)
  /\ IF Cel = NullRib THEN Todo(<<Task("data", Current)>>)
     ELSE IF Rib(Cel).tag = Nop THEN Todo(<<Task("nop", Current)>>)
     ELSE Todo(<<Task(IF Rib(Cel).tag = If THEN "code" ELSE "data", Rib(Cel).car),
                 Task("code", Rib(Cel).cdr)>>)
  /\ UNCHANGED counts

(* Mutant of CountNop: the first arrival at a meeting point is not counted.  *)
CountNopLate ==
  /\ phase = "count" /\ Doing("nop")
  /\ IF NopCode(Cel) THEN Todo(<<Task("nop", Rib(Cel).cdr)>>) /\ UNCHANGED counts
     ELSE /\ counts' = IF Cel \in DOMAIN counts THEN Incremented(Cel) ELSE With(counts, Cel, 0)
          /\ Todo(IF Cel \in DOMAIN counts THEN <<>> ELSE <<Task("code", Current)>>)

(* A nop itself is not sent; what is shared is the code after it.           *)
CountNop ==
  /\ phase = "count" /\ Doing("nop")
  /\ IF NopCode(Cel) THEN Todo(<<Task("nop", Rib(Cel).cdr)>>) /\ UNCHANGED counts
     ELSE /\ counts' = Incremented(Cel)
          /\ Todo(IF Cel \in DOMAIN counts THEN <<>> ELSE <<Task("code", Current)>>)

(* Mutant of StartEncoding: values that occur once are kept.                 *)
StartEncodingAll ==
  /\ phase = "count" /\ todo = <<>>
  /\ phase' = "encode" /\ todo' = <<Task("rib", Reference(source.root))>>
  /\ UNCHANGED <<counts, dictionary>>

(* Values that occur once are not shared.                                   *)
StartEncoding ==
  /\ phase = "count" /\ todo = <<>>
  /\ phase' = "encode" /\ todo' = <<Task("rib", Reference(source.root))>>
  /\ counts' = [c \in {d \in DOMAIN counts : counts[d] > 1} |-> counts[c]]
  /\ UNCHANGED dictionary

Counting ==
  /\ CountNumber \/ CountData \/ Increment \/ CountCode \/ CountNop
  /\ UNCHANGED <<phase, dictionary>>

-----------------------------------------------------------------------------
(* encode-rib. A task "rib" sends a value, "small" and "shape" send a cell   *)
(* whose fields have been sent.                                            *)

Write(new) == codes' = codes \o new

EncodeNumber ==
  /\ phase = "encode" /\ Doing("rib") /\ ~IsCons(Current)
  /\ Write(<<[kind |-> "number", value |-> Current.value]>>)
  /\ Todo(<<>>)
  /\ UNCHANGED <<phase, counts, dictionary>>

StripNop ==
  /\ phase = "encode" /\ Doing("rib") /\ IsCons(Current) /\ NopCode(Cel)
  /\ Todo(<<Task("rib", Rib(Cel).cdr)>>)
  /\ UNCHANGED <<phase, counts, dictionary, codes>>

IsSmall(c) ==
  /\ c \notin DOMAIN counts
  /\ Rib(c).tag = 0 /\ ~IsCons(Rib(c).car) /\ Rib(c).car.value \in SmallNumbers

Sent(c) == c \in DOMAIN counts /\ Contains(dictionary, c)

(* encode-context-position: the first place of the value, from zero.        *)
Position(c) == SelectInSeq(dictionary, LAMBDA d : d = c) - 1

(* The fields first, then the cell.                                        *)
EncodeFields ==
  /\ phase = "encode" /\ Doing("rib") /\ IsCons(Current) /\ ~NopCode(Cel) /\ ~Sent(Cel)
  /\ Todo(IF IsSmall(Cel) THEN <<Task("rib", Rib(Cel).cdr), Task("small", Current)>>
          ELSE <<Task("rib", Rib(Cel).car), Task("rib", Rib(Cel).cdr), Task("shape", Current)>>)
  /\ UNCHANGED <<phase, counts, dictionary, codes>>

EncodeSmall ==
  /\ phase = "encode" /\ Doing("small")
  /\ Write(<<[kind |-> "small", value |-> Rib(Cel).car.value]>>)
  /\ Todo(<<>>)
  /\ UNCHANGED <<phase, counts, dictionary>>

EncodeShape ==
  /\ phase = "encode" /\ Doing("shape")
  /\ LET shape == [kind |-> "shape", value |-> Rib(Cel).tag] IN
       IF Cel \in DOMAIN counts
       THEN /\ dictionary' = <<Cel>> \o dictionary
            /\ counts' = [counts EXCEPT ![Cel] = @ - 1]
            /\ Write(<<shape, [kind |-> "share", value |-> 0]>>)
       ELSE Write(<<shape>>) /\ UNCHANGED <<counts, dictionary>>
  /\ Todo(<<>>)
  /\ UNCHANGED phase

EncodeReuse ==
  /\ phase = "encode" /\ Doing("rib") /\ IsCons(Current) /\ ~NopCode(Cel) /\ Sent(Cel)
  /\ LET index == Position(Cel)
         removed == counts[Cel] = 1
         rest == RemoveAt(dictionary, index + 1)
     IN /\ counts' = [counts EXCEPT ![Cel] = @ - 1]
        /\ dictionary' = IF removed THEN rest ELSE <<Cel>> \o rest
        /\ Write(<<[kind |-> "reuse", value |-> 2 * index + (IF removed THEN 0 ELSE 1)]>>)
  /\ Todo(<<>>)
  /\ UNCHANGED phase

Encoding ==
  EncodeNumber \/ StripNop \/ EncodeFields \/ EncodeSmall \/ EncodeShape \/ EncodeReuse

(* `encode` ends with two checks of its own counts, after all is written;   *)
(* decode_ribs pops the program when there are no more bytes, and           *)
(* `initialize` overwrites the two lists.                                  *)
Finish ==
  /\ phase = "encode" /\ todo = <<>> /\ codes = <<>>
  /\ phase' = IF dictionary # <<>> \/ \E c \in DOMAIN counts : counts[c] # 0
              THEN "failed" ELSE "done"
  /\ loaded' = Head(stack) /\ stack' = Tail(stack)
  /\ UNCHANGED <<source, leftover, todo, counts, dictionary, codes, memory, register, image>>

-----------------------------------------------------------------------------
(* decode_ribs, one turn of its loop per code.                              *)

Code == Head(codes)
Reading(kind) == codes # <<>> /\ Code.kind = kind

(* Memory::allocate, then push. What it is an image of is in `image`.       *)
Build(cell, rest) ==
  /\ memory' = Append(memory, cell)
  /\ stack' = <<Reference(Len(memory) + 1)>> \o rest

DecodeSmall ==
  /\ Reading("small")
  /\ Build(Cell(Number(Code.value), Head(stack), 0), Tail(stack))
  /\ UNCHANGED register

DecodeShare ==
  /\ Reading("share")
  /\ register' = <<Head(stack)>> \o register
  /\ UNCHANGED <<memory, stack>>

(* Mutant of DecodeReuse: the value stays where it is.                       *)
DecodeReuseInPlace ==
  /\ Reading("reuse")
  /\ LET index == Code.value \div 2 IN
       /\ stack' = <<register[index + 1]>> \o stack
       /\ register' = IF Code.value % 2 = 0 THEN RemoveAt(register, index + 1) ELSE register
  /\ UNCHANGED memory

(* The value at the index moves to the front, and goes at its last use.     *)
DecodeReuse ==
  /\ Reading("reuse")
  /\ LET index == Code.value \div 2
         front == <<register[index + 1]>> \o RemoveAt(register, index + 1)
     IN /\ stack' = <<Head(front)>> \o stack
        /\ register' = IF Code.value % 2 = 0 THEN Tail(front) ELSE front
  /\ UNCHANGED memory

DecodeShape ==
  /\ Reading("shape")
  /\ Build(Cell(stack[2], stack[1], Code.value), Tail(Tail(stack)))
  /\ UNCHANGED register

DecodeNumber ==
  /\ Reading("number")
  /\ stack' = <<Number(Code.value)>> \o stack
  /\ UNCHANGED <<memory, register>>

Decoding ==
  /\ DecodeSmall \/ DecodeShare \/ DecodeReuse \/ DecodeShape \/ DecodeNumber
  /\ codes' = Tail(codes)
  /\ UNCHANGED <<source, leftover, encoderVars, image, loaded>>

-----------------------------------------------------------------------------
Steps == Counting \/ StartEncoding

Next ==
  \/ /\ Steps
     /\ UNCHANGED <<source, leftover, codes, decoderVars, loaded>>
  \/ /\ codes = <<>> /\ Encoding
     /\ image' = IF Doing("small") \/ Doing("shape")
                 THEN With(image, Cel, Len(memory) + 1) ELSE image
     /\ UNCHANGED <<source, leftover, memory, stack, register, loaded>>
  \/ Decoding
  \/ Finish

Spec == Init /\ [][Next]_vars /\ WF_vars(Next)
-----------------------------------------------------------------------------
TaskKinds == {"code", "data", "increment", "nop", "rib", "small", "shape"}
CodeKinds == {"number", "small", "shape", "share", "reuse"}

(* The states of both ends have their types, and every reference leads to   *)
(* a cell of its own side.                                                 *)
TypeOK ==
  LET cells == DOMAIN source.heap
      Decoded(v) == IsCons(v) => v.value \in DOMAIN memory
  IN /\ source \in Sources /\ leftover \in Leftovers
     /\ phase \in {"count", "encode", "done", "failed"}
     /\ \A i \in DOMAIN todo : /\ todo[i].kind \in TaskKinds
                               /\ IsCons(todo[i].value) => todo[i].value.value \in cells
     /\ DOMAIN counts \subseteq cells /\ \A c \in DOMAIN counts : counts[c] \in Nat
     /\ Range(dictionary) \subseteq cells
     /\ \A i \in DOMAIN codes : codes[i].kind \in CodeKinds
     /\ \A i \in DOMAIN memory : Decoded(memory[i].car) /\ Decoded(memory[i].cdr)
     /\ \A v \in Range(stack) \cup Range(register) \cup {loaded} : Decoded(v)
     /\ DOMAIN image \subseteq cells

(* Whenever the decoder has read what was written, its dictionary holds the *)
(* decoded cells of the encoder's dictionary in the same order, on top of   *)
(* whatever an earlier run left there: the two ends move the same values to *)
(* the front and drop them at the same codes (encode-rib and decode_ribs).   *)
DictionariesAgree ==
  codes = <<>> /\ phase = "encode" =>
    register = [i \in DOMAIN dictionary |-> Reference(image[dictionary[i]])] \o leftover

(* The decoded cell of a value, nops left out.                              *)
Stripped ==
  LET strip[c \in DOMAIN source.heap] == IF NopCode(c) THEN strip[Rib(c).cdr.value] ELSE c
  IN strip
Image(v) == IF IsCons(v) THEN Reference(image[Stripped[v.value]]) ELSE v

(* The machine gets the program of the compiler: the decoded graph is the   *)
(* source graph without its nops, with its types and with its sharing. A     *)
(* value that both ends share is one cell (else an earlier parent would    *)
(* lead to another cell than the image), so symbols, booleans and the code  *)
(* after a branch are neither copied nor confused.                          *)
ProgramKept ==
  phase = "done" =>
    /\ loaded = Image(Reference(source.root))
    /\ \A c \in DOMAIN image :
         memory[image[c]] = Cell(Image(Rib(c).car), Image(Rib(c).cdr), Rib(c).tag)
=============================================================================
