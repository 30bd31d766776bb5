-------------------------------- MODULE Words ---------------------------------
(***************************************************************************)
(* Values as machine words in a build without floats: vm/src/number.rs,      *)
(* vm/src/value.rs and vm/src/cons.rs, the arithmetic of r7rs/src/small.rs    *)
(* and the procedures on numbers that prelude.scm builds from it.            *)
(*                                                                         *)
(* A word with the lowest bit set is a number of one bit less than a word    *)
(* (63 bits in the code); any other word is a reference, an index above its  *)
(* tag. A calculation has one register. `meaning` is what the register is    *)
(* supposed to hold: a number without a limit, or an index and a tag.        *)
(***************************************************************************)
EXTENDS Integers, Sequences, SequencesExt

CONSTANTS
  WordBits, TagBits,  \* 64 and 16 in the code
  Literals, Indices, TagsSet,  \* bound: the numbers, indices and tags that are used
  Limit,              \* bound: how far the exact number may go
  Debug               \* a build with overflow checks and debug assertions

VARIABLES
  word,     \* the register
  meaning,  \* [type |-> "number", value] or [type |-> "cons", index, tag]
  trapped   \* has an operation panicked?

wordVars == <<word, meaning, trapped>>

WordCount == 2^WordBits
TagCount == 2^TagBits

(* Tags and indices leave no bit of a word unused but the lowest, programs   *)
(* start from numbers that a word holds, and an index leaves room for its tag. *)
ASSUME WordsAssumption ==
  /\ WordCount \in Nat \ {0} /\ TagCount \in Nat \ {0}
  /\ TagCount % 2 = 0 /\ WordCount % (2 * TagCount) = 0
  /\ Literals \subseteq -(WordCount \div 4) .. (WordCount \div 4) - 1
  /\ \A i \in Indices : i \in Nat /\ 2 * TagCount * (i + 1) <= WordCount
  /\ TagsSet \subseteq 0 .. TagCount - 1

(* A word holds the number ten. (The provers know no powers.)                *)
ASSUME WordBitsAssumption ==
  /\ WordBits \in Nat \ {0} /\ WordCount > 40
  /\ \A i \in 0 .. WordBits - 1 : 2^(i + 1) = 2 * 2^i

Signed(w) == IF 2 * w < WordCount THEN w ELSE w - WordCount

-----------------------------------------------------------------------------
(* Number and Cons.                                                        *)

FromNumber(n) == ((2 * n) % WordCount) + 1  \* of number.rs: what does not fit is cut off
Representation(w) == Signed(w) \div 2

Box(n) == (2 * n) % WordCount
Unbox(w) == w \div 2
FromIndex(i) == Box(i * TagCount)
Index(w) == Unbox(w) \div TagCount
TagIn(w) == Unbox(w) % TagCount
ConsWithTag(w, t) == Box(Unbox(w) - TagIn(w) + (t % TagCount))

IsReference(w) == w % 2 = 0
WithTag(w, t) == IF IsReference(w) THEN ConsWithTag(w, t) ELSE w

(* Value::eq: references are equal whatever their tags are.                  *)
SameValue(v, w) ==
  \/ IsReference(v) /\ IsReference(w) /\ Index(v) = Index(w)
  \/ ~IsReference(v) /\ ~IsReference(w) /\ v = w

-----------------------------------------------------------------------------
(* The arithmetic primitives.                                              *)

Magnitude(n) == IF n < 0 THEN 0 - n ELSE n
Sign(n) == IF n < 0 THEN -1 ELSE 1
Truncated(a, b) == Sign(a) * Sign(b) * (Magnitude(a) \div Magnitude(b))

Add(v, w) == FromNumber(Representation(v) + Representation(w))
Subtract(v, w) == FromNumber(Representation(v) - Representation(w))
Multiply(v, w) == FromNumber(Representation(v) * Representation(w))
Divide(v, w) == FromNumber(Truncated(Representation(v), Representation(w)))
Remainder(v, w) ==
  LET a == Representation(v)
      b == Representation(w)
  IN FromNumber(a - b * Truncated(a, b))
Less(v, w) == Representation(v) < Representation(w)

Zero == FromNumber(0)

-----------------------------------------------------------------------------
(* prelude.scm                                                             *)

Negative(v) == Less(v, Zero)
Quotient(v, w) == Divide(Subtract(v, Remainder(v, w)), w)

ModuloOfSigns(v, w) ==  \* mutant of Modulo: a zero remainder is adjusted as well
  LET r == Remainder(v, w)
  IN IF Negative(v) <=> Negative(w) THEN r ELSE Add(r, w)

Modulo(v, w) ==
  LET r == Remainder(v, w)
  IN IF r = Zero \/ (Negative(v) <=> Negative(w)) THEN r ELSE Add(r, w)

Abs(v) == IF Negative(v) THEN Subtract(Zero, v) ELSE v
Maximum(v, w) == IF Less(w, v) THEN v ELSE w

(* number->string: a sign and digits, the last one first. The number of      *)
(* digits is bounded so that a loop that does not end can be told.          *)
Ten == FromNumber(10)
Positive(v) == Less(Zero, v)

DigitsLast(v) ==  \* mutant of Digits: the loop ends before the last digit
  LET rest[i \in 0 .. WordBits] == IF i = 0 THEN v ELSE Quotient(rest[i - 1], Ten)
      count == CHOOSE n \in 1 .. WordBits :
        (n = 1 \/ Less(Ten, rest[n - 1])) /\ ~Less(Ten, rest[n])
  IN [i \in 1 .. count |-> Representation(Remainder(rest[i - 1], Ten))]

Digits(v) ==
  LET rest[i \in 0 .. WordBits] == IF i = 0 THEN v ELSE Quotient(rest[i - 1], Ten)
      count == CHOOSE n \in 1 .. WordBits :
        (\A i \in 1 .. n - 1 : Positive(rest[i])) /\ ~Positive(rest[n])
  IN [i \in 1 .. count |-> Representation(Remainder(rest[i - 1], Ten))]

NumberToString(v) == [minus |-> Negative(v), digits |-> Digits(Abs(v))]

(* string->number, of characters that are digits.                           *)
StringToNumber(s) ==
  LET y == FoldRight(LAMBDA d, sum : Add(Multiply(Ten, sum), FromNumber(d)), s.digits, Zero)
  IN IF s.minus THEN Subtract(Zero, y) ELSE y

Readable(s) == \A i \in DOMAIN s.digits : s.digits[i] \in 0 .. 9

-----------------------------------------------------------------------------
(* Calculations.                                                           *)

Exactly(n) == [type |-> "number", value |-> n]

WordInit == word = Zero /\ meaning = Exactly(0) /\ trapped = FALSE

Literal(n) ==
  /\ word' = FromNumber(n) /\ meaning' = Exactly(n)
  /\ UNCHANGED trapped

Refer(i) ==
  /\ word' = FromIndex(i) /\ meaning' = [type |-> "cons", index |-> i, tag |-> 0]
  /\ UNCHANGED trapped

Retag(t) ==
  /\ word' = WithTag(word, t)
  /\ meaning' = IF meaning.type = "cons" THEN [meaning EXCEPT !.tag = t] ELSE meaning
  /\ UNCHANGED trapped

(* An operation takes a number: the primitives do not check their operands,  *)
(* programs do. It panics or has a result. A division of a number that was    *)
(* cut off is not one of the exact number: there `meaning` starts anew.      *)
Operand == ~IsReference(word)
CutOff == meaning.value # Representation(word)

Panic == trapped' = TRUE /\ UNCHANGED <<word, meaning>>

Result(result, exact) ==
  /\ word' = result /\ meaning' = Exactly(exact)
  /\ Magnitude(exact) <= Limit
  /\ UNCHANGED trapped

ResultOf(result, exact) == Result(result, IF CutOff THEN Representation(result) ELSE exact)

Plus(n) == Operand /\ Result(Add(word, FromNumber(n)), meaning.value + n)
Minus(n) == Operand /\ Result(Subtract(word, FromNumber(n)), meaning.value - n)

(* The only operation of two numbers whose result may not fit in a word.     *)
Overflows(n) == Debug /\ Signed(n % WordCount) # n

Times(n) ==
  /\ Operand
  /\ IF Overflows(Representation(word) * n) THEN Panic
     ELSE Result(Multiply(word, FromNumber(n)), meaning.value * n)

QuotientBy(n) ==
  /\ Operand
  /\ IF n = 0 THEN Panic
     ELSE ResultOf(Quotient(word, FromNumber(n)), Truncated(meaning.value, n))

ModuloBy(n) ==
  /\ Operand
  /\ IF n = 0 THEN Panic
     ELSE ResultOf(Modulo(word, FromNumber(n)),
                   Sign(n) * ((Sign(n) * meaning.value) % Magnitude(n)))

MaximumWith(n) ==
  /\ Operand
  /\ ResultOf(Maximum(word, FromNumber(n)), IF meaning.value < n THEN n ELSE meaning.value)

AbsoluteValue == Operand /\ ResultOf(Abs(word), Magnitude(meaning.value))

WordNext ==
  /\ ~trapped
  /\ \/ \E n \in Literals : Literal(n)
     \/ \E i \in Indices : Refer(i)
     \/ \E t \in TagsSet : Retag(t)
     \/ \E n \in Literals : Plus(n)
     \/ \E n \in Literals : Minus(n)
     \/ \E n \in Literals : Times(n)
     \/ \E n \in Literals : QuotientBy(n)
     \/ \E n \in Literals : ModuloBy(n)
     \/ \E n \in Literals : MaximumWith(n)
     \/ AbsoluteValue

WordSpec == WordInit /\ [][WordNext]_wordVars

-----------------------------------------------------------------------------
(* A word stands for what the calculation means: a reference for its index   *)
(* (it is the same value under every tag) and its last tag, a number for the  *)
(* exact number but for multiples of 2^63. Sums, differences and products may *)
(* leave the range on the way and are right again when the exact number is    *)
(* back in it; quotients round to zero, a modulo has the sign of its divisor  *)
(* (value.rs:122, number.rs:91, prelude.scm:720).                            *)
WordMeans ==
  IF meaning.type = "cons"
  THEN SameValue(word, FromIndex(meaning.index)) /\ TagIn(word) = meaning.tag
  ELSE /\ ~IsReference(word)
       /\ (2 * Representation(word)) % WordCount = (2 * meaning.value) % WordCount

(* A number that is printed and read again is the same (prelude.scm:1104 and *)
(* 1149), all but the least one: (abs x) of it is negative.                  *)
Least == -(WordCount \div 4)

TextKept ==
  ~IsReference(word) /\ Representation(word) # Least =>
    LET s == NumberToString(word) IN Readable(s) /\ StringToNumber(s) = word
=============================================================================
