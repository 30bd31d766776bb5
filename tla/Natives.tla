------------------------------- MODULE Natives --------------------------------
(***************************************************************************)
(* The primitives of native/src that look at data: null? and pair? of         *)
(* type_check.rs, memq, assq and cons of list.rs, eqv? and equal-inner? of    *)
(* equal.rs with the `equal?` that prelude.scm (627) builds from it.          *)
(*                                                                         *)
(* `data` are the cells that a program has made with the constructors of the *)
(* prelude, and `kinds` says which of them made each: it is what a cell is    *)
(* supposed to be.                                                         *)
(***************************************************************************)
EXTENDS Cells

CONSTANTS
  DataNumbers, \* bound: the numbers in data; also the codes of characters
  MaxData     \* bound: cells

ASSUME DataNumbersAssumption == DataNumbers \subseteq Int

VARIABLES data, kinds
dataVars == <<data, kinds>>

DataInit ==
  /\ data = <<Cell(Number(0), Reference(NullCell), NullType),
              Cell(Reference(NullCell), Reference(TrueCell), BooleanType),
              Cell(Number(0), Reference(NullCell), BooleanType)>>
  /\ kinds = <<"null", "false", "true">>

Data == {Number(n) : n \in DataNumbers} \cup {Reference(i) : i \in DOMAIN data}

-----------------------------------------------------------------------------
(* type_check.rs. The cdr of a cell has the type of the cell.                *)

NullCheck(v) == v = Reference(NullCell)
PairCheck(v) == IsCons(v) /\ data[v.value].tag = PairType

(* The lists: pairs that end in null.                                       *)
Lists ==
  LET proper[i \in DOMAIN data] ==
        \/ kinds[i] = "null"
        \/ kinds[i] = "pair" /\ IsCons(data[i].cdr) /\ proper[data[i].cdr.value]
  IN {i \in DOMAIN data : proper[i]}

(* The loops of list.rs, over a list that ends in null: a tail whose car is x, *)
(* an element whose car is x, or #f.                                        *)
Found(test(_), answer(_), list) ==
  LET loop[i \in Lists] ==
        IF i = NullCell THEN Reference(FalseCell)
        ELSE IF test(i) THEN answer(i) ELSE loop[data[i].cdr.value]
  IN loop[list.value]

MemqElement(x, xs) ==  \* mutant of Memq: the element instead of the tail
  Found(LAMBDA i : data[i].car = x, LAMBDA i : data[i].car, xs)

Memq(x, xs) == Found(LAMBDA i : data[i].car = x, LAMBDA i : Reference(i), xs)

Assq(x, xs) ==
  Found(LAMBDA i : data[data[i].car.value].car = x, LAMBDA i : data[i].car, xs)

(* equal.rs                                                                *)
Eqv(v, w) ==
  \/ v = w
  \/ /\ IsCons(v) /\ IsCons(w)
     /\ data[v.value].tag = CharType /\ data[w.value].tag = CharType
     /\ data[v.value].car = data[w.value].car

EqualInnerOfUnique(i, j) ==  \* mutant of EqualInner: unique values are compared as well
  data[i].tag = data[j].tag /\ (IsCons(data[i].car) \/ data[i].car = data[j].car)

EqualInner(i, j) ==
  /\ data[i].tag = data[j].tag
  /\ data[i].tag \notin {BooleanType, NullType, SymbolType}
  /\ IsCons(data[i].car) \/ data[i].car = data[j].car

Equal(v, w) ==
  LET equal[p \in (DOMAIN data) \X (DOMAIN data)] ==
        LET Fields(x, y) == x = y \/ (IsCons(x) /\ IsCons(y) /\ equal[<<x.value, y.value>>])
        IN /\ EqualInner(p[1], p[2])
           /\ Fields(data[p[1]].car, data[p[2]].car)
           /\ Fields(data[p[1]].cdr, data[p[2]].cdr)
  IN v = w \/ (IsCons(v) /\ IsCons(w) /\ equal[<<v.value, w.value>>])

-----------------------------------------------------------------------------
(* A program that makes data out of what it has.                            *)

Make(kind, cell) ==
  /\ Len(data) < MaxData
  /\ data' = Append(data, cell) /\ kinds' = Append(kinds, kind)

MakePair(car, cdr) == Make("pair", Cell(car, cdr, PairType))
MakeCharacter(n) == Make("character", Cell(Number(n), Reference(NullCell), CharType))
MakeSymbol == Make("symbol", Cell(Reference(FalseCell), Reference(NullCell), SymbolType))

Elements(list) ==
  LET elements[i \in Lists] ==
        IF i = NullCell THEN <<>> ELSE <<data[i].car>> \o elements[data[i].cdr.value]
  IN elements[list]

(* A string or a vector: the length and the list of its elements.            *)
MakeSequence(kind, type, i) ==
  Make(kind, Cell(Number(Len(Elements(i))), Reference(i), type))

MakeString(i) ==
  /\ \A k \in DOMAIN Elements(i) : ~IsCons(Elements(i)[k])
  /\ MakeSequence("string", StringType, i)

MakeVector(i) == MakeSequence("vector", VectorType, i)

DataNext ==
  \/ \E car, cdr \in Data : MakePair(car, cdr)
  \/ \E n \in DataNumbers : MakeCharacter(n)
  \/ MakeSymbol
  \/ \E i \in Lists : MakeString(i) \/ MakeVector(i)

DataSpec == DataInit /\ [][DataNext]_dataVars

-----------------------------------------------------------------------------
(* What `write` makes of a datum; a symbol and a boolean are what they are.    *)
Written(v) ==
  LET Field(written, x) == IF IsCons(x) THEN written[x.value] ELSE <<"number", x.value>>
      written[i \in DOMAIN data] ==
        IF kinds[i] \in {"null", "false", "true", "symbol"} THEN <<kinds[i], i>>
        ELSE IF kinds[i] = "pair"
        THEN <<"pair", Field(written, data[i].car), Field(written, data[i].cdr)>>
        ELSE IF kinds[i] = "character" THEN <<"character", data[i].car.value>>
        ELSE <<kinds[i], Field(written, data[i].cdr)>>
  IN Field(written, v)

(* The predicates tell data apart as their constructors and `write` do, by     *)
(* tags that the cells of constants and of improper lists carry as well:       *)
(* data are `equal?` just if they are written alike, and `eqv?` just if they   *)
(* are the same or the same character, whatever shortcuts equal-inner? takes  *)
(* on tags and numbers (equal.rs:36 and 54, type_check.rs:31).                *)
PredicatesTell ==
  \A v, w \in Data :
    /\ PairCheck(v) <=> IsCons(v) /\ kinds[v.value] = "pair"
    /\ NullCheck(v) <=> IsCons(v) /\ kinds[v.value] = "null"
    /\ Equal(v, w) <=> Written(v) = Written(w)
    /\ Eqv(v, w) <=> v = w \/ (Written(v) = Written(w) /\ Written(v)[1] = "character")

(* memq and assq answer with the first match in the list, or with #f when    *)
(* there is none (list.rs:42 and 64).                                       *)
FirstWhere(holds(_), s) ==
  {k \in DOMAIN s : holds(s[k]) /\ \A j \in 1 .. k - 1 : ~holds(s[j])}

SearchesFind ==
  \A xs \in Lists, x \in Data :
    LET s == Elements(xs)
        answer == Memq(x, Reference(xs))
    IN /\ IF \E k \in DOMAIN s : s[k] = x
          THEN /\ IsCons(answer) /\ answer.value \in Lists
               /\ \E k \in FirstWhere(LAMBDA y : y = x, s) :
                    Elements(answer.value) = SubSeq(s, k, Len(s))
          ELSE answer = Reference(FalseCell)
       /\ (\A k \in DOMAIN s : PairCheck(s[k])) =>
            LET matches == FirstWhere(LAMBDA y : data[y.value].car = x, s)
            IN Assq(x, Reference(xs)) =
                 IF matches = {} THEN Reference(FalseCell)
                 ELSE s[CHOOSE k \in matches : TRUE]
=============================================================================
