------------------------------- MODULE Bytes --------------------------------
(***************************************************************************)
(* A code of Bytecode as bytes: the first byte has a kind in its low bits    *)
(* and the first digits of an integer in the others, more bytes have seven   *)
(* bits each, and the lowest bit of a group of digits tells if another byte  *)
(* follows. Written by compile.scm (`encode-rib` and its helpers), read by   *)
(* vm.rs (`decode_ribs`, `decode_integer_tail`, `decode_number`).            *)
(*                                                                         *)
(* A float is [negative, mantissa, exponent] with an odd mantissa and a      *)
(* negative exponent (else it is an integer); only builds with the feature    *)
(* `float` are sent any. The compiler counts exactly; the decoder has integers *)
(* of several widths, and a number that is too large for one loses its high   *)
(* bits. TLC has integers of 32 bits, so the precisions and all widths but    *)
(* those of tags, exponents and shifts are parameters.                       *)
(***************************************************************************)
EXTENDS Integers, Sequences

CONSTANTS
  Codes,           \* what is sent: [kind, value]; a float has fields of its own
  Following,       \* bytes that may follow a code
  Builds,          \* of the decoder: [checked, float]; a checked one is a debug
                   \* build, in which an integer that overflows panics
  FloatBits,       \* the logarithm of maximum-float-integer, 30
  InverseEpsilon,  \* 1 / epsilon, 10^15
  Precision,       \* bits of the mantissa of a number that is a float, 53
  TagSpan,         \* how many numbers a Tag has, 2^16,
  WordSpan,        \* and an i64, a u64 or a usize, 2^64,
  SumSpan          \* and a u128, 2^128

(* What can be sent, and bytes. The exponent of a normal float fits its bits. *)
ASSUME CodesAssumption ==
  /\ \A c \in Codes :
       \/ c \in [kind : {"small", "reuse", "shape"}, value : Nat]
       \/ c \in [kind : {"share"}, value : {0}]
       \/ c \in [kind : {"number"}, value : Int]
       \/ /\ c \in [kind : {"float"}, negative : BOOLEAN, mantissa : Nat, exponent : Int]
          /\ c.exponent >= -1023
  /\ \A s \in Following : s \in Seq(Nat)
  /\ Builds \subseteq [checked : BOOLEAN, float : BOOLEAN]

(* Halves and quarters of the widths are whole, and the widths are far apart.  *)
ASSUME WidthsAssumption ==
  /\ FloatBits \in Nat /\ InverseEpsilon \in Nat \ {0, 1} /\ Precision \in Nat
  /\ TagSpan \in Nat \ {0} /\ WordSpan \in Nat \ {0} /\ SumSpan \in Nat
  /\ WordSpan % 4 = 0 /\ SumSpan % 128 = 0
  /\ TagSpan <= WordSpan /\ 512 * WordSpan <= SumSpan

VARIABLES
  build,                     \* of the decoder
  sent, missing, following,  \* the code, bytes cut from its end, bytes after it
  input,                     \* bytes that are not read yet
  state,                     \* "head", "tail", "read", "end" (BytecodeEnd) or "panic"
  kind, part, total, base,   \* locals of decode_ribs and decode_integer_tail
  received                   \* the code that was read

locals == <<kind, part, total, base>>
given == <<build, sent, missing, following>>
byteVars == <<given, input, state, locals, received>>

IntegerBase == 128
NumberBase == 16
TagBase == 16
ShareBase == 31      \* one less, for the code "share"
ShiftWidth == 64     \* of 1u64 << exponent
ExponentBias == 1023
ExponentSpan == 2048

-----------------------------------------------------------------------------
(* The writer.                                                             *)

IntegerPart(n, b, bit) == bit + 2 * (n % b)
MoreThan(n, b) == IF n <= b THEN 0 ELSE 1  \* mutant of More
More(n, b) == IF n \div b = 0 THEN 0 ELSE 1
Digits(n, b) == IntegerPart(n, b, More(n, b))

EncodeIntegerTail[n \in Nat] ==
  IF n = 0 THEN <<>>
  ELSE <<Digits(n, IntegerBase)>> \o EncodeIntegerTail[n \div IntegerBase]

Log[n \in Nat] == IF n < 2 THEN 0 ELSE 1 + Log[n \div 2]

(* (The provers know no powers.)                                            *)
ASSUME PowersAssumption ==
  /\ 2^0 = 1
  /\ \A c \in Codes :
       c.kind = "float" => \A i \in 0 .. Log[c.mantissa] - 1 : 2^(i + 1) = 2 * 2^i

Truncated(m, d) == m \div 2^d  \* mutant of Rounded

(* m / 2^d to the nearest integer, a half to the even one.                   *)
Rounded(m, d) ==
  LET whole == m \div 2^d
      rest == 2 * (m % 2^d)
  IN IF rest > 2^d \/ (rest = 2^d /\ whole % 2 = 1) THEN whole + 1 ELSE whole

(* The loop of decompose-float drops bits of the mantissa: all but one first,   *)
(* then fewer, until the fraction is less than epsilon or there are more than   *)
(* FloatBits bits (two times over, as it looks at the exponent before).        *)
IsWhole(m, d) == (m % 2^d) * InverseEpsilon < 2^d
Stops(m, d) == IsWhole(m, d) \/ d <= Log[m] - (FloatBits + 2)
Dropped(m) ==
  CHOOSE d \in 0 .. Log[m] : Stops(m, d) /\ \A more \in d + 1 .. Log[m] : ~Stops(m, more)

DecomposeFloat(f) ==
  [mantissa |-> Rounded(f.mantissa, Dropped(f.mantissa)),
   exponent |-> f.exponent + Dropped(f.mantissa)]

EncodeFloat(f) ==
  LET d == DecomposeFloat(f)
  IN 3 + 4 * ((IF f.negative THEN 1 ELSE 0) + 2 * (d.exponent + ExponentBias)
              + 2 * ExponentSpan * d.mantissa)

(* However it is rounded, a float has far fewer bits than a u128 (48 at most). *)
ASSUME FloatsAssumption ==
  \A c \in Codes : c.kind = "float" => IntegerBase * EncodeFloat(c) < SumSpan

EncodeInteger(n) == IF n < 0 THEN 1 + 4 * (0 - n) ELSE 2 * n

Group(low, width, n, b) == <<low + width * Digits(n, b)>> \o EncodeIntegerTail[n \div b]

EncodeCode(c) ==
  CASE c.kind = "small" -> <<2 * c.value>>
    [] c.kind = "share" -> <<1>>
    [] c.kind = "reuse" -> <<1 + 4 * (1 + Digits(c.value, ShareBase))>>
                             \o EncodeIntegerTail[c.value \div ShareBase]
    [] c.kind = "shape" -> Group(3, 8, c.value, TagBase)
    [] c.kind = "number" -> Group(7, 8, EncodeInteger(c.value), NumberBase)
    [] c.kind = "float" -> Group(7, 8, EncodeFloat(c), NumberBase)

-----------------------------------------------------------------------------
(* The reader.                                                             *)

ByteInit ==
  /\ build \in Builds /\ sent \in Codes /\ missing \in 0 .. 1 /\ following \in Following
  /\ sent.kind = "float" => build.float
  /\ missing = 1 => following = <<>>
  /\ input = SubSeq(EncodeCode(sent), 1, Len(EncodeCode(sent)) - missing) \o following
  /\ state = "head" /\ kind = "none" /\ part = 0 /\ total = 0 /\ base = 0
  /\ received = [kind |-> "none"]

(* The kind is in the lowest bits that are not all ones.                    *)
StartTail(k, digits, b) ==
  /\ kind' = k /\ part' = digits /\ total' = digits \div 2 /\ base' = b
  /\ state' = "tail"
  /\ UNCHANGED received

ReadHead ==
  /\ state = "head" /\ input # <<>>
  /\ LET head == Head(input) IN
       CASE head % 2 = 0 ->
              /\ received' = [kind |-> "small", value |-> head \div 2]
              /\ state' = "read" /\ UNCHANGED locals
         [] head % 4 = 1 /\ head \div 4 = 0 ->
              /\ received' = [kind |-> "share", value |-> 0]
              /\ state' = "read" /\ UNCHANGED locals
         [] head % 4 = 1 /\ head \div 4 # 0 -> StartTail("reuse", head \div 4 - 1, ShareBase)
         [] head % 8 = 3 -> StartTail("shape", head \div 8, TagBase)
         [] head % 8 = 7 -> StartTail("number", head \div 8, NumberBase)
  /\ input' = Tail(input)
  /\ UNCHANGED given

(* One turn of the loop of decode_integer_tail. The base is multiplied whether  *)
(* it is used again or not (128 divides the width).                           *)
ReadTail ==
  /\ state = "tail" /\ part % 2 = 1
  /\ IF input = <<>> THEN state' = "end" /\ UNCHANGED <<input, part, total, base>>
     ELSE LET sum == total + (Head(input) \div 2) * base
              room == SumSpan \div IntegerBase
          IN /\ part' = Head(input) /\ total' = sum % SumSpan
             /\ base' = (base % room) * IntegerBase
             /\ input' = Tail(input)
             /\ state' = IF build.checked /\ (sum >= SumSpan \/ base >= room)
                         THEN "panic" ELSE state
  /\ UNCHANGED <<given, kind, received>>

(* `as`: the low bits of an integer, with the highest one as its sign.        *)
Signed(n, span) ==
  LET low == n % span IN IF low < span \div 2 THEN low ELSE low - span

(* The nearest number of Precision bits.                                     *)
Nearest(n) ==
  LET size == IF n < 0 THEN 0 - n ELSE n
      cut == Log[size] - (Precision - 1)
      rounded == Rounded(size, cut) * 2^cut
  IN IF cut <= 0 THEN n ELSE IF n < 0 THEN 0 - rounded ELSE rounded

(* Number::from_i64 keeps 63 bits, or makes a float.                         *)
FromI64(n) ==
  [kind |-> "number", value |-> IF build.float THEN Nearest(n) ELSE Signed(n, WordSpan \div 2)]

LeastI64 == 0 - (WordSpan \div 2)
Negated(n) == IF n = LeastI64 THEN n ELSE 0 - n

Exponent(n) == ((n \div 2) % ExponentSpan) - ExponentBias
Distance(n) == IF Exponent(n) < 0 THEN 0 - Exponent(n) ELSE Exponent(n)

(* The power of two that the mantissa is multiplied with or divided by: the   *)
(* shift of a release build takes its distance modulo the width.            *)
DecodeFloat(n) ==
  LET shift == Distance(n) % ShiftWidth
  IN [kind |-> "float", negative |-> n % 2 = 1, mantissa |-> n \div (2 * ExponentSpan),
      exponent |-> IF Exponent(n) < 0 THEN 0 - shift ELSE shift]

DecodeNumberCode(n) ==
  IF n % 2 = 0 THEN FromI64(Signed(n \div 2, WordSpan))
  ELSE IF n % 4 = 1 THEN FromI64(Negated(Signed(n \div 4, WordSpan)))
  ELSE DecodeFloat(n \div 4)

(* The index of a shared value counts from one, if it is not zero, and is a    *)
(* usize less one: where the cast makes it zero, that is the largest usize. Its *)
(* lowest bit tells whether the value leaves the dictionary.                  *)
DecodeIndex(n) ==
  LET index == n \div 2
      cast == index % WordSpan
  IN (n % 2) + 2 * (IF index > 0 /\ cast = 0 THEN WordSpan ELSE cast)

(* What a checked build does not do: negate the least i64, shift by the width  *)
(* or more, count down from a zero that was none before it was a usize.       *)
Overflows ==
  \/ kind = "number" /\ total % 4 = 1 /\ Signed(total \div 4, WordSpan) = LeastI64
  \/ kind = "number" /\ total % 4 = 3 /\ Distance(total \div 4) >= ShiftWidth
  \/ kind = "reuse" /\ total \div 2 > 0 /\ (total \div 2) % WordSpan = 0

FinishCode ==
  /\ state = "tail" /\ part % 2 = 0
  /\ received' = CASE kind = "number" -> DecodeNumberCode(total)
                   [] kind = "reuse" -> [kind |-> kind, value |-> DecodeIndex(total)]
                   [] kind = "shape" -> [kind |-> kind, value |-> total % TagSpan]
  /\ state' = IF build.checked /\ Overflows THEN "panic" ELSE "read"
  /\ UNCHANGED <<given, input, locals>>

ByteNext == ReadHead \/ ReadTail \/ FinishCode

ByteSpec == ByteInit /\ [][ByteNext]_byteVars

-----------------------------------------------------------------------------
(* What the decoder has room for: a tag, an index that is a usize, a number of  *)
(* 63 bits or, in a build with floats, one that a float has all bits of.       *)
Fits(c) ==
  CASE c.kind = "reuse" -> c.value \div 2 < WordSpan
    [] c.kind = "shape" -> c.value < TagSpan
    [] c.kind = "number" ->
         LET size == IF c.value < 0 THEN 0 - c.value ELSE c.value IN
         IF build.float THEN Log[size] < Precision /\ size < WordSpan \div 2
         ELSE c.value \in 0 - (WordSpan \div 4) .. (WordSpan \div 4) - 1
    [] OTHER -> TRUE

(* A code takes its own bytes and no other and is a code of its kind, whatever *)
(* its number, and if the decoder has room for that (Fits), it is read as it   *)
(* was written: encode-integer-parts and decode_integer_tail agree on bases,   *)
(* on the order of the digits and on where a number ends, and no cast and no   *)
(* sum takes a bit of it. Cut short, it is the error BytecodeEnd (vm.rs:458)   *)
(* and never another code. A checked build gives up only where a release build *)
(* would lose bits or shift too far.                                         *)
CodeKept ==
  /\ state = "read" => /\ missing = 0
                       /\ input = following
                       /\ sent.kind = received.kind
                       /\ sent.kind # "float" /\ Fits(sent) => received = sent
  /\ state = "end" => missing = 1
  /\ state = "panic" => build.checked /\ (sent.kind = "float" \/ ~Fits(sent))

(* A float arrives with its sign and magnitude: exactly, or rounded to the    *)
(* more than FloatBits bits that decompose-float leaves, or without a fraction *)
(* that is less than epsilon. (decode_number has to scale by every power of   *)
(* two that encode-number writes.)                                          *)
FloatKept ==
  sent.kind = "float" /\ state \in {"read", "panic"} =>
    LET cut == received.exponent - sent.exponent IN
      /\ state = "read"
      /\ received.negative = sent.negative
      /\ cut \in 0 .. Log[sent.mantissa]
      /\ LET error == received.mantissa * 2^cut - sent.mantissa IN
           /\ 2 * error <= 2^cut /\ 2 * error >= -(2^cut)
           /\ \/ cut = 0 \/ received.mantissa > 2^FloatBits
              \/ error <= 0 /\ (0 - error) * InverseEpsilon < 2^cut
=============================================================================
