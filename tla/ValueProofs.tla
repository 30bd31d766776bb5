----------------------------- MODULE ValueProofs ------------------------------
(*****************************************************************************)
(* Values as the VM and its host hold them, for every width of a word and any*)
(* sizes. A register of Words stands for the number that the program computes,*)
(* modulo what a word holds; a number that is written in any base is read back*)
(* as itself. And a slot of Dynamic belongs to its cell, in a table that is no*)
(* larger than the heap. What crosses between Rust and Scheme in HostData arrives*)
(* for texts and lists of any length, wherever a collection moves the cells. *)
(* And the primitives of Natives answer by what the data are, for all data    *)
(* that a program makes: what the constructors made of each cell is inductive. *)
(*****************************************************************************)
EXTENDS
  Words, Natives, Dynamic, HostData,
  LoopTheorems, FiniteSetTheorems, SequenceTheorems, TLAPS

(* Words.                                                                  *)

-----------------------------------------------------------------------------
Quarter == WordCount \div 4
Words == 0 .. WordCount - 1
Numbers == -Quarter .. Quarter - 1
Agree(a, b) == (2 * a) % WordCount = (2 * b) % WordCount

LEMMA Quarters ==
  WordCount = 4 * Quarter /\ Quarter \in Nat \ {0} /\ WordCount \in Nat \ {0}
<1>1. PICK t \in Int : TagCount = 2 * t
  <2>1. TagCount \in Int /\ TagCount % 2 = 0
    BY WordsAssumption
  <2>2. TagCount \div 2 \in Int /\ TagCount = 2 * (TagCount \div 2)
    BY ONLY <2>1
  <2>. QED BY <2>2
<1>. DEFINE k == WordCount \div (2 * TagCount)
<1>2. WordCount = (2 * TagCount) * k /\ k \in Int
  <2>. DEFINE D == 2 * TagCount
  <2>1. D \in Nat \ {0} /\ WordCount \in Int /\ WordCount % D = 0
    BY WordsAssumption
  <2>. HIDE DEF D
  <2>2. WordCount = D * (WordCount \div D) + 0 /\ WordCount \div D \in Int
    BY <2>1, QuotientAndRest
  <2>3. WordCount = D * (WordCount \div D) /\ WordCount \div D \in Int
    BY <2>1, <2>2
  <2>. QED BY <2>3 DEF D
<1>. HIDE DEF k
<1>3. WordCount = 4 * (t * k) /\ t * k \in Int
  BY <1>1, <1>2
<1>. QED BY <1>3, WordsAssumption DEF Quarter

LEMMA AgreeIs ==
  ASSUME NEW a \in Int, NEW b \in Int
  PROVE  Agree(a, b) <=> \E k \in Int : 2 * a = 2 * b + WordCount * k
<1>1. 2 * a \in Int /\ 2 * b \in Int
  OBVIOUS
<1>. QED BY <1>1, SameRest, Quarters DEF Agree

(* A number in a word: it agrees with the number, and is it when it fits.    *)
LEMMA NumberInWord ==
  ASSUME NEW n \in Int
  PROVE  /\ FromNumber(n) \in Words /\ ~IsReference(FromNumber(n))
         /\ Representation(FromNumber(n)) \in Numbers
         /\ Agree(Representation(FromNumber(n)), n)
         /\ n \in Numbers => Representation(FromNumber(n)) = n
<1>. DEFINE d == (2 * n) \div WordCount
            r == (2 * n) % WordCount
            h == n - 2 * (Quarter * d)
<1>1. d \in Int /\ Quarter * d \in Int /\ r \in 0 .. WordCount - 1 /\ 2 * n = WordCount * d + r
  <2>1. 2 * n \in Int
    OBVIOUS
  <2>2. 2 * n = WordCount * d + r /\ r \in 0 .. WordCount - 1 /\ d \in Int
    BY ONLY <2>1, Quarters, QuotientAndRest
  <2>. HIDE DEF d, r
  <2>. QED BY <2>2, Quarters
<1>2. FromNumber(n) = r + 1
  BY DEF FromNumber
<1>. HIDE DEF d, r
<1>3. WordCount * d = 4 * (Quarter * d)
  BY <1>1, Quarters
<1>4. r = 2 * h /\ h \in Int /\ h \in 0 .. 2 * Quarter - 1
  <2>1. r = 2 * h
    BY <1>1, <1>3
  <2>. QED BY <2>1, <1>1, Quarters
<1>5. Representation(FromNumber(n)) = IF h < Quarter THEN h ELSE h - 2 * Quarter
  <2>. HIDE DEF h
  <2>1. CASE h < Quarter
    <3>1. Signed(r + 1) = 2 * h + 1
      BY <1>4, <2>1, Quarters DEF Signed
    <3>. QED BY <3>1, <1>2, <1>4, <2>1 DEF Representation
  <2>2. CASE ~(h < Quarter)
    <3>1. Signed(r + 1) = 2 * (h - 2 * Quarter) + 1
      BY <1>4, <2>2, Quarters DEF Signed
    <3>2. h - 2 * Quarter \in Int
      BY <1>4, Quarters
    <3>3. \A x \in Int : (2 * x + 1) \div 2 = x
      OBVIOUS
    <3>. QED BY <3>1, <3>2, <3>3, <1>2, <2>2 DEF Representation
  <2>. QED BY <2>1, <2>2
<1>6. FromNumber(n) \in Words /\ ~IsReference(FromNumber(n))
  <2>. HIDE DEF h
  <2>. QED BY <1>2, <1>4, Quarters DEF Words, IsReference
<1>7. Representation(FromNumber(n)) \in Numbers
  <2>. HIDE DEF h
  <2>. QED BY <1>4, <1>5, Quarters DEF Numbers
<1>8. Agree(Representation(FromNumber(n)), n)
  <2>. DEFINE k == IF h < Quarter THEN -d ELSE -d - 1
  <2>1. k \in Int
    BY <1>1
  <2>2. 2 * Representation(FromNumber(n)) = 2 * n + WordCount * k
    <3>1. CASE h < Quarter
      <4>1. WordCount * k = -4 * (Quarter * d)
        BY <3>1, <1>3, <1>1, Quarters
      <4>. QED BY <4>1, <3>1, <1>5, <1>1, <1>4
    <3>2. CASE ~(h < Quarter)
      <4>1. WordCount * k = -4 * (Quarter * d) - 4 * Quarter
        BY <3>2, <1>3, <1>1, Quarters
      <4>2. 2 * (h - 2 * Quarter) = 2 * n - 4 * (Quarter * d) - 4 * Quarter
        BY <1>1, Quarters
      <4>3. Representation(FromNumber(n)) = h - 2 * Quarter
        BY <3>2, <1>5
      <4>. HIDE DEF h, k
      <4>. QED BY <4>1, <4>2, <4>3, <1>1, Quarters
    <3>. QED BY <3>1, <3>2
  <2>3. Representation(FromNumber(n)) \in Int
    BY <1>7, Quarters DEF Numbers
  <2>. HIDE DEF k
  <2>. QED BY <2>1, <2>2, <2>3, AgreeIs
<1>9. ASSUME n \in Numbers  PROVE Representation(FromNumber(n)) = n
  <2>. DEFINE m == Representation(FromNumber(n))
  <2>1. PICK k \in Int : 2 * m = 2 * n + WordCount * k
    <3>1. m \in Int /\ Agree(m, n)
      BY <1>7, <1>8, Quarters DEF Numbers
    <3>. HIDE DEF m
    <3>. QED BY <3>1, AgreeIs
  <2>2. m \in Numbers
    BY <1>7
  <2>. HIDE DEF m
  <2>3. m - n = 2 * (Quarter * k)
    BY <2>1, <2>2, Quarters DEF Numbers
  <2>4. m - n < 2 * Quarter /\ m - n > -(2 * Quarter)
    BY <2>2, <1>9, Quarters DEF Numbers
  <2>5. Quarter * k < Quarter /\ Quarter * k > -Quarter /\ Quarter * k \in Int
    BY <2>3, <2>4, Quarters
  <2>6. k = 0
    <3>1. k >= 1 => Quarter * k >= Quarter
      BY Quarters
    <3>2. k <= -1 => Quarter * k <= -Quarter
      BY Quarters
    <3>. QED BY <3>1, <3>2, <2>5, Quarters
  <2>7. m = n
    BY <2>2, <2>3, <2>6, Quarters DEF Numbers
  <2>. QED BY <2>7 DEF m
<1>. QED BY <1>6, <1>7, <1>8, <1>9

LEMMA WordHasNumber ==
  ASSUME NEW w \in Words, ~IsReference(w)
  PROVE  Representation(w) \in Numbers /\ Representation(w) \in Int
<1>1. PICK h \in Int : w = 2 * h + 1
  <2>1. w = 2 * (w \div 2) + 1 /\ w \div 2 \in Int
    BY Quarters DEF Words, IsReference
  <2>. QED BY <2>1
<1>2. h \in 0 .. 2 * Quarter - 1
  BY <1>1, Quarters DEF Words
<1>3. \A x \in Int : (2 * x + 1) \div 2 = x
  OBVIOUS
<1>4. CASE 2 * w < WordCount
  BY <1>1, <1>2, <1>3, <1>4, Quarters DEF Representation, Signed, Numbers
<1>5. CASE ~(2 * w < WordCount)
  <2>1. Signed(w) = 2 * (h - 2 * Quarter) + 1 /\ h - 2 * Quarter \in Int
    BY <1>1, <1>2, <1>5, Quarters DEF Signed
  <2>. QED BY <1>1, <1>2, <1>3, <1>5, <2>1, Quarters DEF Representation, Numbers
<1>. QED BY <1>4, <1>5

(* Numbers that agree have sums, differences and products that agree.        *)
LEMMA AgreementIsKept ==
  ASSUME NEW a \in Int, NEW b \in Int, Agree(a, b), NEW n \in Int
  PROVE  Agree(a + n, b + n) /\ Agree(a - n, b - n) /\ Agree(a * n, b * n)
<1>1. PICK k \in Int : 2 * a = 2 * b + WordCount * k
  BY AgreeIs
<1>2. 2 * (a + n) = 2 * (b + n) + WordCount * k /\ 2 * (a - n) = 2 * (b - n) + WordCount * k
  BY <1>1, Quarters
<1>3. 2 * (a * n) = 2 * (b * n) + WordCount * (k * n)
  <2>1. 2 * (a * n) = (2 * a) * n
    OBVIOUS
  <2>2. (2 * b + WordCount * k) * n = 2 * (b * n) + WordCount * (k * n)
    BY Quarters
  <2>. QED BY <1>1, <2>1, <2>2
<1>4. a + n \in Int /\ a - n \in Int /\ a * n \in Int /\ k * n \in Int
      /\ b + n \in Int /\ b - n \in Int /\ b * n \in Int
  OBVIOUS
<1>. QED BY <1>1, <1>2, <1>3, <1>4, AgreeIs

LEMMA AgreementIsTransitive ==
  ASSUME NEW a, NEW b, NEW c, Agree(a, b), Agree(b, c)
  PROVE  Agree(a, c)
BY DEF Agree

-----------------------------------------------------------------------------
(* References: the index above the tag.                                    *)
TaggedIndex(i, t) == 2 * (TagCount * i + t)

LEMMA CellInWord ==
  ASSUME NEW i \in Indices, NEW t \in 0 .. TagCount - 1
  PROVE  /\ TaggedIndex(i, t) \in Words /\ IsReference(TaggedIndex(i, t))
         /\ TaggedIndex(i, t) % WordCount = TaggedIndex(i, t)
         /\ Unbox(TaggedIndex(i, t)) = TagCount * i + t
         /\ Index(TaggedIndex(i, t)) = i /\ TagIn(TaggedIndex(i, t)) = t
<1>1. TagCount \in Nat \ {0} /\ i \in Nat /\ 2 * TagCount * (i + 1) <= WordCount
  BY WordsAssumption
<1>. DEFINE x == TagCount * i + t
<1>2. x \in Nat /\ TagCount * i \in Nat
  BY <1>1
<1>3. 2 * x < WordCount
  <2>1. 2 * TagCount * (i + 1) = 2 * (TagCount * i) + 2 * TagCount
    BY <1>1
  <2>. QED BY <1>1, <1>2, <2>1, Quarters
<1>4. x \div TagCount = i /\ x % TagCount = t
  BY <1>1, OnlyRest
<1>. HIDE DEF x
<1>5. TaggedIndex(i, t) = 2 * x
  BY DEF TaggedIndex, x
<1>6. (2 * x) \div 2 = x /\ (2 * x) % 2 = 0
  BY <1>2
<1>7. Unbox(TaggedIndex(i, t)) = x
  BY <1>5, <1>6 DEF Unbox
<1>8. TaggedIndex(i, t) \in Words
  BY <1>2, <1>3, <1>5, Quarters DEF Words
<1>9. TaggedIndex(i, t) % WordCount = TaggedIndex(i, t)
  <2>1. TaggedIndex(i, t) = WordCount * 0 + TaggedIndex(i, t) /\ TaggedIndex(i, t) \in 0 .. WordCount - 1
    BY <1>8, Quarters DEF Words
  <2>. QED BY <2>1, Quarters, OnlyRest
<1>. QED BY <1>4, <1>5, <1>6, <1>7, <1>8, <1>9 DEF Index, TagIn, IsReference, x

LEMMA CellsAreMade ==
  ASSUME NEW i \in Indices
  PROVE  /\ FromIndex(i) = TaggedIndex(i, 0)
         /\ \A t, u \in 0 .. TagCount - 1 : WithTag(TaggedIndex(i, t), u) = TaggedIndex(i, u)
<1>1. TagCount \in Nat \ {0} /\ i \in Nat /\ TagCount * i \in Nat
  BY WordsAssumption
<1>2. FromIndex(i) = TaggedIndex(i, 0)
  <2>1. 2 * (i * TagCount) = TaggedIndex(i, 0) /\ 0 \in 0 .. TagCount - 1
    BY <1>1 DEF TaggedIndex
  <2>. QED BY <2>1, CellInWord DEF FromIndex, Box
<1>3. ASSUME NEW t \in 0 .. TagCount - 1, NEW u \in 0 .. TagCount - 1
      PROVE  WithTag(TaggedIndex(i, t), u) = TaggedIndex(i, u)
  <2>1. u % TagCount = u
    <3>1. u = TagCount * 0 + u
      BY <1>1
    <3>. QED BY <1>1, <3>1, OnlyRest
  <2>2. 2 * (Unbox(TaggedIndex(i, t)) - TagIn(TaggedIndex(i, t)) + (u % TagCount)) = TaggedIndex(i, u)
    <3>1. Unbox(TaggedIndex(i, t)) = TagCount * i + t /\ TagIn(TaggedIndex(i, t)) = t
      BY CellInWord
    <3>2. ((TagCount * i + t) - t) + u = TagCount * i + u
      BY <1>1
    <3>3. Unbox(TaggedIndex(i, t)) - TagIn(TaggedIndex(i, t)) + (u % TagCount) = TagCount * i + u
      <4>1. Unbox(TaggedIndex(i, t)) - TagIn(TaggedIndex(i, t)) + (u % TagCount) = ((TagCount * i + t) - t) + u
        BY <2>1, <3>1
      <4>. QED BY <3>2, <4>1
    <3>. QED BY <3>3 DEF TaggedIndex
  <2>. QED BY <2>2, CellInWord DEF WithTag, ConsWithTag, Box
<1>. QED BY <1>2, <1>3

-----------------------------------------------------------------------------
(* Division.                                                               *)
LEMMA TruncatedIs ==
  ASSUME NEW a \in Int, NEW b \in Int \ {0}
  PROVE  \E q \in Nat, s \in 0 .. Magnitude(b) - 1 :
           /\ Magnitude(a) = Magnitude(b) * q + s
           /\ Truncated(a, b) = IF (a < 0 <=> b < 0) THEN q ELSE -q
           /\ b * Truncated(a, b) = IF a < 0 THEN -(Magnitude(b) * q) ELSE Magnitude(b) * q
<1>. DEFINE A == Magnitude(a)
            B == Magnitude(b)
            q == A \div B
            s == A % B
<1>1. A \in Nat /\ B \in Nat \ {0}
  BY DEF Magnitude
<1>2. A = B * q + s /\ q \in Int /\ s \in 0 .. B - 1
  <2>. HIDE DEF A, B
  <2>. QED BY <1>1, QuotientAndRest
<1>3. q \in Nat
  <2>. HIDE DEF q, s, A, B
  <2>1. q < 0 => B * q <= -B
    BY <1>1, <1>2
  <2>. QED BY <1>1, <1>2, <2>1
<1>4. Truncated(a, b) = IF (a < 0 <=> b < 0) THEN q ELSE -q
  <2>1. Truncated(a, b) = Sign(a) * Sign(b) * q
    BY DEF Truncated
  <2>. HIDE DEF q
  <2>. QED BY <2>1, <1>3 DEF Sign
<1>5. b * Truncated(a, b) = IF a < 0 THEN -(Magnitude(b) * q) ELSE Magnitude(b) * q
  <2>. HIDE DEF q
  <2>1. b = IF b < 0 THEN -B ELSE B
    BY DEF Magnitude
  <2>. HIDE DEF B
  <2>2. (-B) * q = -(B * q) /\ B * (-q) = -(B * q) /\ (-B) * (-q) = B * q
    BY <1>1, <1>3
  <2>. QED BY <1>4, <2>1, <2>2 DEF B
<1>. HIDE DEF q, s
<1>. QED BY <1>2, <1>3, <1>4, <1>5

(* The primitives on two words with the numbers a and b.                     *)
LEMMA DivisionInWords ==
  ASSUME NEW v \in Words, ~IsReference(v), NEW w \in Words, ~IsReference(w),
         Representation(w) # 0
  PROVE  LET a == Representation(v)
             b == Representation(w)
         IN /\ Quotient(v, w) = FromNumber(Truncated(a, b))
            /\ Truncated(a, b) \in Int
            /\ Modulo(v, w) = FromNumber(Sign(b) * ((Sign(b) * a) % Magnitude(b)))
            /\ Sign(b) * ((Sign(b) * a) % Magnitude(b)) \in Int
<1>. DEFINE a == Representation(v)
            b == Representation(w)
            A == Magnitude(a)
            B == Magnitude(b)
<1>1. a \in Numbers /\ b \in Numbers /\ a \in Int /\ b \in Int \ {0}
  BY WordHasNumber
<1>. HIDE DEF a, b
<1>2. PICK q \in Nat, s \in 0 .. B - 1 :
        /\ A = B * q + s
        /\ Truncated(a, b) = IF (a < 0 <=> b < 0) THEN q ELSE -q
        /\ b * Truncated(a, b) = IF a < 0 THEN -(B * q) ELSE B * q
  BY <1>1, TruncatedIs
<1>3. A \in Nat /\ B \in Nat \ {0} /\ B * q \in Nat
      /\ a = (IF a < 0 THEN -A ELSE A) /\ b = (IF b < 0 THEN -B ELSE B)
  BY <1>1 DEF Magnitude
<1>. DEFINE r == IF a < 0 THEN -s ELSE s
            c == IF a < 0 THEN -(B * q) ELSE B * q
<1>4. /\ r \in Int /\ r \in Numbers /\ c \in Int /\ c \in Numbers
      /\ a - b * Truncated(a, b) = r /\ a - r = c
      /\ Truncated(a, b) \in Int
  <2>. HIDE DEF A, B
  <2>1. -B >= -Quarter /\ B <= Quarter
    BY <1>1, <1>3, Quarters DEF Numbers
  <2>2. a - b * Truncated(a, b) = r /\ a - r = c /\ r \in Int /\ c \in Int
    BY <1>1, <1>2, <1>3
  <2>3. r \in Numbers /\ c \in Numbers
    BY <1>1, <1>2, <1>3, <2>1, Quarters DEF Numbers
  <2>. QED BY <1>2, <2>2, <2>3
<1>5. Remainder(v, w) = FromNumber(r) /\ Representation(Remainder(v, w)) = r
  <2>1. Remainder(v, w) = FromNumber(a - b * Truncated(a, b))
    BY DEF Remainder, a, b
  <2>. HIDE DEF r, c
  <2>. QED BY <1>4, <2>1, NumberInWord
<1>6. Quotient(v, w) = FromNumber(Truncated(a, b))
  <2>1. Representation(Subtract(v, Remainder(v, w))) = c
    <3>1. Subtract(v, Remainder(v, w)) = FromNumber(a - r)
      BY <1>5 DEF Subtract, a
    <3>. HIDE DEF r, c
    <3>. QED BY <1>4, <3>1, NumberInWord
  <2>2. Truncated(c, b) = Truncated(a, b)
    <3>1. Magnitude(c) = B * q
      <4>. HIDE DEF B
      <4>. QED BY <1>3 DEF Magnitude
    <3>2. Magnitude(c) \div Magnitude(b) = q
      <4>1. Magnitude(c) = B * q + 0
        BY <1>3, <3>1
      <4>. HIDE DEF c, B
      <4>2. (B * q + 0) \div B = q
        BY <1>3, OnlyRest
      <4>. QED BY <4>1, <4>2 DEF B
    <3>3. q # 0 => B * q > 0
      <4>. HIDE DEF B
      <4>. QED BY <1>3
    <3>4. Truncated(c, b) = Sign(c) * Sign(b) * q
      <4>. HIDE DEF c
      <4>. QED BY <3>2 DEF Truncated
    <3>5. CASE q = 0
      <4>1. Sign(c) * Sign(b) \in Int
        <5>. HIDE DEF c
        <5>. QED BY DEF Sign
      <4>. QED BY <1>2, <3>4, <3>5, <4>1
    <3>6. CASE q # 0
      <4>1. Sign(c) = IF a < 0 THEN -1 ELSE 1
        <5>. HIDE DEF B
        <5>. QED BY <1>3, <3>3, <3>6 DEF Sign
      <4>. HIDE DEF c
      <4>. QED BY <1>2, <3>4, <4>1 DEF Sign
    <3>. QED BY <3>5, <3>6
  <2>3. Quotient(v, w) = FromNumber(Truncated(c, b))
    BY <2>1 DEF Quotient, Divide, b
  <2>. QED BY <2>2, <2>3
<1>7. Sign(b) * ((Sign(b) * a) % B) = IF r = 0 \/ (a < 0 <=> b < 0) THEN r ELSE r + b
  <2>. HIDE DEF A, B
  <2>1. CASE b < 0
    <3>1. Sign(b) = -1 /\ Sign(b) * a = -a
      BY <1>1, <2>1 DEF Sign
    <3>2. CASE a < 0
      <4>1. -a = B * q + s
        BY <1>1, <1>2, <1>3, <3>2
      <4>2. (B * q + s) % B = s
        BY <1>3, OnlyRest
      <4>3. (-a) % B = s
        BY <4>1, <4>2
      <4>. QED BY <2>1, <3>1, <3>2, <4>3
    <3>3. CASE ~(a < 0) /\ s = 0
      <4>1. -a = B * (-q) + 0 /\ -q \in Int /\ 0 \in 0 .. B - 1
        BY <1>1, <1>2, <1>3, <3>3
      <4>2. (-a) % B = 0
        BY <1>3, <4>1, OnlyRest
      <4>. QED BY <2>1, <3>1, <3>3, <4>2
    <3>4. CASE ~(a < 0) /\ s # 0
      <4>1. -a = B * (-q - 1) + (B - s) /\ -q - 1 \in Int /\ B - s \in 0 .. B - 1
        <5>1. B * (-q - 1) = -(B * q) - B
          BY <1>3
        <5>. QED BY <1>1, <1>2, <1>3, <3>4, <5>1
      <4>2. (B * (-q - 1) + (B - s)) % B = B - s
        BY <1>3, <4>1, OnlyRest
      <4>3. (-a) % B = B - s
        BY <4>1, <4>2
      <4>. QED BY <1>3, <2>1, <3>1, <3>4, <4>3
    <3>. QED BY <3>2, <3>3, <3>4
  <2>2. CASE ~(b < 0)
    <3>1. Sign(b) = 1 /\ Sign(b) * a = a /\ b = B
      BY <1>1, <1>3, <2>2 DEF Sign
    <3>2. CASE ~(a < 0)
      <4>1. a = B * q + s
        BY <1>1, <1>2, <1>3, <3>2
      <4>2. (B * q + s) % B = s
        BY <1>3, OnlyRest
      <4>3. a % B = s
        BY <4>1, <4>2
      <4>. QED BY <2>2, <3>1, <3>2, <4>3
    <3>3. CASE a < 0 /\ s = 0
      <4>1. a = B * (-q) + 0 /\ -q \in Int /\ 0 \in 0 .. B - 1
        BY <1>1, <1>2, <1>3, <3>3
      <4>2. a % B = 0
        BY <1>3, <4>1, OnlyRest
      <4>3. Sign(b) * ((Sign(b) * a) % B) = 1 * 0
        BY <3>1, <4>2, Zenon
      <4>4. r = 0
        <5>1. s \in Int /\ 0 - s = 0
          BY <1>3, <3>3
        <5>2. -s = 0 - s
          BY <5>1
        <5>. QED BY <5>1, <5>2, <3>3
      <4>. QED BY <4>3, <4>4
    <3>4. CASE a < 0 /\ s # 0
      <4>1. a = B * (-q - 1) + (B - s) /\ -q - 1 \in Int /\ B - s \in 0 .. B - 1
        <5>1. B * (-q - 1) = -(B * q) - B
          BY <1>3
        <5>. QED BY <1>1, <1>2, <1>3, <3>4, <5>1
      <4>2. (B * (-q - 1) + (B - s)) % B = B - s
        BY <1>3, <4>1, OnlyRest
      <4>3. a % B = B - s
        BY <4>1, <4>2
      <4>. QED BY <1>3, <2>2, <3>1, <3>4, <4>3
    <3>. QED BY <3>2, <3>3, <3>4
  <2>. QED BY <2>1, <2>2
<1>8. Modulo(v, w) = FromNumber(IF r = 0 \/ (a < 0 <=> b < 0) THEN r ELSE r + b)
  <2>1. Representation(Zero) = 0
    BY NumberInWord, Quarters DEF Zero, Numbers
  <2>2. (Negative(v) <=> a < 0) /\ (Negative(w) <=> b < 0)
    BY <2>1 DEF Negative, Less, a, b
  <2>. HIDE DEF r
  <2>3. Remainder(v, w) = Zero <=> r = 0
    BY <1>5, <2>1 DEF Zero
  <2>4. Add(Remainder(v, w), w) = FromNumber(r + b)
    BY <1>5 DEF Add, b
  <2>. QED BY <1>5, <2>2, <2>3, <2>4 DEF Modulo
<1>9. Sign(b) * ((Sign(b) * a) % B) \in Int
  <2>. HIDE DEF r
  <2>. QED BY <1>1, <1>4, <1>7
<1>. QED BY <1>4, <1>6, <1>7, <1>8, <1>9 DEF a, b

-----------------------------------------------------------------------------
(* The inductive invariant: the register is a word, and one for its meaning. *)
Meanings ==
  [type : {"number"}, value : Int]
  \cup [type : {"cons"}, index : Indices, tag : 0 .. TagCount - 1]

Stands(w, m) ==
  IF m.type = "cons" THEN w = TaggedIndex(m.index, m.tag)
  ELSE ~IsReference(w) /\ Agree(Representation(w), m.value)

WordInv == word \in Words /\ meaning \in Meanings /\ Stands(word, meaning)

LEMMA LiteralsFit ==
  ASSUME NEW n \in Literals
  PROVE  /\ n \in Int /\ n \in Numbers
         /\ FromNumber(n) \in Words /\ ~IsReference(FromNumber(n))
         /\ Representation(FromNumber(n)) = n
<1>1. n \in Numbers
  BY WordsAssumption DEF Numbers, Quarter
<1>2. n \in Int
  BY <1>1, Quarters DEF Numbers
<1>. QED BY <1>1, <1>2, NumberInWord

LEMMA OperandIsNumber ==
  ASSUME WordInv, Operand
  PROVE  /\ meaning.type = "number" /\ meaning.value \in Int
         /\ word \in Words /\ ~IsReference(word)
         /\ Representation(word) \in Int /\ Agree(Representation(word), meaning.value)
<1>1. CASE meaning \in [type : {"cons"}, index : Indices, tag : 0 .. TagCount - 1]
  <2>1. word = TaggedIndex(meaning.index, meaning.tag)
    BY <1>1 DEF WordInv, Stands
  <2>2. IsReference(word)
    BY <1>1, <2>1, CellInWord
  <2>. QED BY <2>2 DEF Operand
<1>2. CASE meaning \in [type : {"number"}, value : Int]
  BY <1>2, WordHasNumber DEF WordInv, Stands, Operand
<1>. QED BY <1>1, <1>2 DEF WordInv, Meanings

(* An operation whose result agrees with the exact one keeps the invariant.  *)
LEMMA ResultStands ==
  ASSUME NEW result \in Words, ~IsReference(result), NEW exact \in Int,
         Agree(Representation(result), exact), Result(result, exact)
  PROVE  WordInv'
<1>1. word' = result /\ meaning' = [type |-> "number", value |-> exact]
  BY DEF Result, Exactly
<1>2. [type |-> "number", value |-> exact] \in Meanings
  BY DEF Meanings
<1>3. Stands(result, [type |-> "number", value |-> exact])
  BY DEF Stands
<1>. QED BY <1>1, <1>2, <1>3 DEF WordInv

LEMMA ResultOfStands ==
  ASSUME WordInv, Operand, NEW result \in Words, ~IsReference(result), NEW exact \in Int,
         Representation(word) = meaning.value => Agree(Representation(result), exact),
         ResultOf(result, exact)
  PROVE  WordInv'
<1>1. Representation(result) \in Int /\ Agree(Representation(result), Representation(result))
  BY WordHasNumber DEF Agree
<1>2. CASE CutOff
  <2>1. Result(result, Representation(result))
    BY <1>2 DEF ResultOf
  <2>. QED BY <1>1, <2>1, ResultStands
<1>3. CASE ~CutOff
  <2>1. Result(result, exact)
    BY <1>3 DEF ResultOf
  <2>2. Agree(Representation(result), exact)
    BY <1>3 DEF CutOff
  <2>. QED BY <2>1, <2>2, ResultStands
<1>. QED BY <1>2, <1>3

LEMMA PlusMeans ==
  ASSUME WordInv, NEW n \in Literals, Plus(n) \/ Minus(n)
  PROVE  WordInv'
<1>. DEFINE a == Representation(word)
<1>1. Operand
  BY DEF Plus, Minus
<1>2. a \in Int /\ meaning.value \in Int /\ Agree(a, meaning.value)
  BY <1>1, OperandIsNumber
<1>3. n \in Int /\ Representation(FromNumber(n)) = n
  BY LiteralsFit
<1>. HIDE DEF a
<1>4. CASE Plus(n)
  <2>1. Result(FromNumber(a + n), meaning.value + n)
    BY <1>3, <1>4 DEF Plus, Add, a
  <2>2. a + n \in Int /\ meaning.value + n \in Int /\ Agree(a + n, meaning.value + n)
    BY <1>2, <1>3, AgreementIsKept
  <2>. QED BY <2>1, <2>2, NumberInWord, AgreementIsTransitive, ResultStands
<1>5. CASE Minus(n)
  <2>1. Result(FromNumber(a - n), meaning.value - n)
    BY <1>3, <1>5 DEF Minus, Subtract, a
  <2>2. a - n \in Int /\ meaning.value - n \in Int /\ Agree(a - n, meaning.value - n)
    BY <1>2, <1>3, AgreementIsKept
  <2>. QED BY <2>1, <2>2, NumberInWord, AgreementIsTransitive, ResultStands
<1>. QED BY <1>4, <1>5

LEMMA TimesMeans ==
  ASSUME WordInv, NEW n \in Literals, Times(n)
  PROVE  WordInv'
<1>. DEFINE a == Representation(word)
<1>1. Operand
  BY DEF Times
<1>2. a \in Int /\ meaning.value \in Int /\ Agree(a, meaning.value)
  BY <1>1, OperandIsNumber
<1>3. n \in Int /\ Representation(FromNumber(n)) = n
  BY LiteralsFit
<1>4. CASE Panic
  BY <1>4 DEF Panic, WordInv
<1>5. CASE Result(Multiply(word, FromNumber(n)), meaning.value * n)
  <2>. HIDE DEF a
  <2>1. Result(FromNumber(a * n), meaning.value * n)
    BY <1>3, <1>5 DEF Multiply, a
  <2>2. a * n \in Int /\ meaning.value * n \in Int /\ Agree(a * n, meaning.value * n)
    BY <1>2, <1>3, AgreementIsKept
  <2>. QED BY <2>1, <2>2, NumberInWord, AgreementIsTransitive, ResultStands
<1>. QED BY <1>4, <1>5 DEF Times

LEMMA DivisionMeans ==
  ASSUME WordInv, NEW n \in Literals, QuotientBy(n) \/ ModuloBy(n)
  PROVE  WordInv'
<1>. DEFINE a == Representation(word)
            w == FromNumber(n)
            v == meaning.value
<1>1. Operand
  BY DEF QuotientBy, ModuloBy
<1>2. a \in Int /\ v \in Int /\ word \in Words /\ ~IsReference(word)
  BY <1>1, OperandIsNumber
<1>3. n \in Int /\ w \in Words /\ ~IsReference(w) /\ Representation(w) = n
  BY LiteralsFit
<1>4. CASE Panic
  BY <1>4 DEF Panic, WordInv
<1>5. CASE n # 0 /\ ResultOf(Quotient(word, w), Truncated(v, n))
  <2>1. Quotient(word, w) = FromNumber(Truncated(a, n)) /\ Truncated(a, n) \in Int
    BY <1>2, <1>3, <1>5, DivisionInWords
  <2>2. Truncated(v, n) \in Int
    <3>1. n \in Int \ {0} /\ v \in Int
      BY <1>2, <1>3, <1>5
    <3>. HIDE DEF v
    <3>2. PICK q \in Nat : Truncated(v, n) \in {q, -q}
      BY <3>1, TruncatedIs, SMTT(30)
    <3>. QED BY <3>2
  <2>3. a = v => Agree(Representation(Quotient(word, w)), Truncated(v, n))
    BY <2>1, NumberInWord
  <2>4. Quotient(word, w) \in Words /\ ~IsReference(Quotient(word, w))
    BY <2>1, NumberInWord
  <2>. HIDE DEF w, v
  <2>. QED BY <1>1, <1>5, <2>2, <2>3, <2>4, ResultOfStands DEF v
<1>6. CASE n # 0 /\ ResultOf(Modulo(word, w), Sign(n) * ((Sign(n) * v) % Magnitude(n)))
  <2>. DEFINE exact == Sign(n) * ((Sign(n) * v) % Magnitude(n))
              m == Sign(n) * ((Sign(n) * a) % Magnitude(n))
  <2>1. Modulo(word, w) = FromNumber(m) /\ m \in Int
    BY <1>2, <1>3, <1>6, DivisionInWords
  <2>2. exact \in Int
    <3>1. Sign(n) \in Int /\ Magnitude(n) \in Nat \ {0} /\ Sign(n) * v \in Int
      BY <1>2, <1>3, <1>6 DEF Sign, Magnitude
    <3>2. (Sign(n) * v) % Magnitude(n) \in Int
      BY <3>1, QuotientAndRest
    <3>. QED BY <3>1, <3>2
  <2>3. a = v => Agree(Representation(Modulo(word, w)), exact)
    BY <2>1, NumberInWord
  <2>4. Modulo(word, w) \in Words /\ ~IsReference(Modulo(word, w))
    BY <2>1, NumberInWord
  <2>5. ResultOf(Modulo(word, w), exact)
    BY <1>6
  <2>. HIDE DEF w, v, exact
  <2>. QED BY <1>1, <2>2, <2>3, <2>4, <2>5, ResultOfStands DEF v
<1>. QED BY <1>4, <1>5, <1>6 DEF QuotientBy, ModuloBy

LEMMA MaximumMeans ==
  ASSUME WordInv, NEW n \in Literals, MaximumWith(n)
  PROVE  WordInv'
<1>. DEFINE a == Representation(word)
            w == FromNumber(n)
            result == Maximum(word, w)
            exact == IF meaning.value < n THEN n ELSE meaning.value
<1>1. Operand
  BY DEF MaximumWith
<1>2. a \in Int /\ meaning.value \in Int /\ word \in Words /\ ~IsReference(word)
  BY <1>1, OperandIsNumber
<1>3. n \in Int /\ w \in Words /\ ~IsReference(w) /\ Representation(w) = n
  BY LiteralsFit
<1>4. result = IF n < a THEN word ELSE w
  BY <1>3 DEF Maximum, Less
<1>5. result \in Words /\ ~IsReference(result) /\ exact \in Int
  BY <1>2, <1>3, <1>4
<1>6. a = meaning.value => Representation(result) = exact
  <2>. HIDE DEF result, w, a
  <2>. QED BY <1>2, <1>3, <1>4 DEF a
<1>7. ResultOf(result, exact)
  BY DEF MaximumWith
<1>. HIDE DEF result, exact
<1>. QED BY <1>1, <1>5, <1>6, <1>7, ResultOfStands DEF Agree

LEMMA AbsoluteValueMeans ==
  ASSUME WordInv, AbsoluteValue
  PROVE  WordInv'
<1>. DEFINE a == Representation(word)
            result == Abs(word)
            exact == Magnitude(meaning.value)
<1>1. Operand
  BY DEF AbsoluteValue
<1>2. a \in Int /\ meaning.value \in Int /\ word \in Words /\ ~IsReference(word)
  BY <1>1, OperandIsNumber
<1>3. Representation(Zero) = 0
  BY NumberInWord, Quarters DEF Zero, Numbers
<1>4. result = IF a < 0 THEN FromNumber(0 - a) ELSE word
  BY <1>3 DEF Abs, Negative, Less, Subtract
<1>5. result \in Words /\ ~IsReference(result)
  <2>1. 0 - a \in Int
    BY <1>2
  <2>. HIDE DEF result, a
  <2>. QED BY <1>2, <1>4, <2>1, NumberInWord
<1>6. exact \in Int
  BY <1>2 DEF Magnitude
<1>7. a = meaning.value => Agree(Representation(result), exact)
  <2>. HIDE DEF result, a
  <2>1. CASE a < 0
    BY <1>2, <1>4, <2>1, NumberInWord DEF Magnitude
  <2>2. CASE ~(a < 0)
    BY <1>2, <1>4, <2>2 DEF Magnitude, Agree, a
  <2>. QED BY <2>1, <2>2
<1>8. ResultOf(result, exact)
  BY DEF AbsoluteValue
<1>. HIDE DEF result, exact
<1>. QED BY <1>1, <1>5, <1>6, <1>7, <1>8, ResultOfStands

LEMMA LiteralMeans ==
  ASSUME NEW n \in Literals, Literal(n)
  PROVE  WordInv'
<1>1. word' = FromNumber(n) /\ meaning' = [type |-> "number", value |-> n]
  BY DEF Literal, Exactly
<1>2. [type |-> "number", value |-> n] \in Meanings
  BY LiteralsFit DEF Meanings
<1>3. Stands(FromNumber(n), [type |-> "number", value |-> n])
  BY LiteralsFit DEF Stands, Agree
<1>. QED BY <1>1, <1>2, <1>3, LiteralsFit DEF WordInv

LEMMA ReferenceMeans ==
  ASSUME WordInv, \/ \E i \in Indices : Refer(i)
                  \/ \E t \in TagsSet : Retag(t)
  PROVE  WordInv'
<1>0. TagsSet \subseteq 0 .. TagCount - 1 /\ 0 \in 0 .. TagCount - 1
  BY WordsAssumption
<1>1. ASSUME NEW i \in Indices, NEW t \in 0 .. TagCount - 1, word' = TaggedIndex(i, t),
             meaning' = [type |-> "cons", index |-> i, tag |-> t]
      PROVE  WordInv'
  <2>1. meaning' \in Meanings /\ Stands(TaggedIndex(i, t), meaning')
    BY <1>1 DEF Meanings, Stands
  <2>. QED BY <1>1, <2>1, CellInWord DEF WordInv
<1>2. ASSUME NEW i \in Indices, Refer(i)
      PROVE  WordInv'
  BY <1>0, <1>1, <1>2, CellsAreMade DEF Refer
<1>3. ASSUME NEW t \in TagsSet, Retag(t), meaning.type = "cons"
      PROVE  WordInv'
  <2>1. meaning \in [type : {"cons"}, index : Indices, tag : 0 .. TagCount - 1]
    BY <1>3 DEF WordInv, Meanings
  <2>2. word = TaggedIndex(meaning.index, meaning.tag)
    BY <1>3 DEF WordInv, Stands
  <2>3. word' = TaggedIndex(meaning.index, t)
    BY <1>0, <1>3, <2>1, <2>2, CellsAreMade DEF Retag
  <2>4. meaning' = [type |-> "cons", index |-> meaning.index, tag |-> t]
    BY <1>3, <2>1 DEF Retag
  <2>. QED BY <1>0, <1>1, <2>1, <2>3, <2>4
<1>4. ASSUME NEW t \in TagsSet, Retag(t), meaning.type # "cons"
      PROVE  WordInv'
  <2>1. ~IsReference(word)
    BY <1>4 DEF WordInv, Stands
  <2>2. word' = word /\ meaning' = meaning
    BY <1>4, <2>1 DEF Retag, WithTag
  <2>. QED BY <2>2 DEF WordInv
<1>. QED BY <1>2, <1>3, <1>4

LEMMA WordStarts == WordInit => WordInv
<1>. SUFFICES ASSUME WordInit PROVE WordInv
  OBVIOUS
<1>1. 0 \in Numbers
  BY Quarters DEF Numbers
<1>2. Representation(Zero) = 0 /\ Zero \in Words /\ ~IsReference(Zero)
  BY <1>1, NumberInWord DEF Zero
<1>3. [type |-> "number", value |-> 0] \in Meanings
  BY DEF Meanings
<1>4. Stands(Zero, [type |-> "number", value |-> 0])
  BY <1>2 DEF Stands, Agree
<1>. QED BY <1>2, <1>3, <1>4 DEF WordInit, WordInv, Exactly

LEMMA WordStep == WordInv /\ [WordNext]_wordVars => WordInv'
<1>. SUFFICES ASSUME WordInv, [WordNext]_wordVars PROVE WordInv'
  OBVIOUS
<1>1. CASE UNCHANGED wordVars
  BY <1>1 DEF wordVars, WordInv
<1>2. CASE WordNext
  BY <1>2, LiteralMeans, ReferenceMeans, PlusMeans, TimesMeans, DivisionMeans, MaximumMeans,
     AbsoluteValueMeans DEF WordNext
<1>. QED BY <1>1, <1>2

LEMMA WordInvMeans == WordInv => WordMeans
<1>. SUFFICES ASSUME WordInv PROVE WordMeans
  OBVIOUS
<1>1. CASE meaning \in [type : {"cons"}, index : Indices, tag : 0 .. TagCount - 1]
  <2>. DEFINE i == meaning.index
              t == meaning.tag
  <2>1. i \in Indices /\ t \in 0 .. TagCount - 1 /\ meaning.type = "cons"
    BY <1>1
  <2>2. word = TaggedIndex(i, t)
    BY <2>1 DEF WordInv, Stands
  <2>. HIDE DEF i, t
  <2>3. 0 \in 0 .. TagCount - 1
    BY WordsAssumption
  <2>4. FromIndex(i) = TaggedIndex(i, 0) /\ IsReference(TaggedIndex(i, 0)) /\ Index(TaggedIndex(i, 0)) = i
    BY <2>1, <2>3, CellsAreMade, CellInWord
  <2>5. IsReference(word) /\ Index(word) = i /\ TagIn(word) = t
    BY <2>1, <2>2, CellInWord
  <2>6. SameValue(word, FromIndex(i))
    BY <2>4, <2>5 DEF SameValue
  <2>. QED BY <2>1, <2>5, <2>6 DEF WordMeans, i, t
<1>2. CASE meaning \in [type : {"number"}, value : Int]
  BY <1>2 DEF WordInv, Stands, WordMeans, Agree
<1>. QED BY <1>1, <1>2 DEF WordInv, Meanings

(* A word stands for what the calculation means (WordMeans): the encodings of  *)
(* number.rs, value.rs and cons.rs and the arithmetic of small.rs make each     *)
(* word the number of the program up to multiples of what a word holds, or the *)
(* reference with the tag that was set last.                                 *)
THEOREM WordsStandForValues == WordSpec => []WordMeans
<1>1. WordSpec => []WordInv
  BY WordStarts, WordStep, PTL DEF WordSpec
<1>. QED BY <1>1, WordInvMeans, PTL

-----------------------------------------------------------------------------
(* Text.                                                                   *)

(* A word of a number is the word of its number.                            *)
LEMMA WordOfNumber ==
  ASSUME NEW w \in Words, ~IsReference(w)
  PROVE  FromNumber(Representation(w)) = w
<1>1. PICK h \in Int : w = 2 * h + 1
  <2>1. w = 2 * (w \div 2) + 1 /\ w \div 2 \in Int
    BY Quarters DEF Words, IsReference
  <2>. QED BY <2>1
<1>2. h \in 0 .. 2 * Quarter - 1
  BY <1>1, Quarters DEF Words
<1>3. \A x \in Int : (2 * x + 1) \div 2 = x
  OBVIOUS
<1>4. 2 * h \in 0 .. WordCount - 1
  BY <1>2, Quarters
<1>5. CASE 2 * w < WordCount
  <2>1. Representation(w) = h
    BY <1>1, <1>3, <1>5 DEF Representation, Signed
  <2>2. (WordCount * 0 + 2 * h) % WordCount = 2 * h
    BY <1>4, Quarters, OnlyRest
  <2>3. WordCount * 0 + 2 * h = 2 * h
    BY <1>4, Quarters
  <2>. QED BY <1>1, <2>1, <2>2, <2>3 DEF FromNumber
<1>6. CASE ~(2 * w < WordCount)
  <2>1. Signed(w) = 2 * (h - 2 * Quarter) + 1 /\ h - 2 * Quarter \in Int
    BY <1>1, <1>2, <1>6, Quarters DEF Signed
  <2>2. Representation(w) = h - 2 * Quarter
    BY <1>3, <2>1 DEF Representation
  <2>3. (WordCount * (-1) + 2 * h) % WordCount = 2 * h
    BY <1>4, Quarters, OnlyRest
  <2>4. WordCount * (-1) + 2 * h = 2 * (h - 2 * Quarter)
    BY <1>2, Quarters
  <2>. QED BY <1>1, <2>2, <2>3, <2>4 DEF FromNumber
<1>. QED BY <1>5, <1>6

(* Numbers that are not negative, and ten.                                   *)
NaturalWords == {w \in Words : ~IsReference(w) /\ Representation(w) >= 0}

LEMMA TenIs ==
  /\ 10 \in Numbers /\ Representation(Ten) = 10 /\ Ten \in Words /\ ~IsReference(Ten)
  /\ Representation(Zero) = 0 /\ Zero \in NaturalWords
<1>1. 10 \in Numbers /\ 0 \in Numbers
  BY Quarters, WordBitsAssumption DEF Numbers
<1>2. Representation(Zero) = 0 /\ Zero \in Words /\ ~IsReference(Zero)
  BY <1>1, NumberInWord DEF Zero
<1>. QED BY <1>1, <1>2, NumberInWord DEF Ten, NaturalWords

(* One turn of the loop of number->string.                                   *)
LEMMA TenthOf ==
  ASSUME NEW v \in NaturalWords
  PROVE  LET a == Representation(v)
             d == Representation(Remainder(v, Ten))
             q == Representation(Quotient(v, Ten))
         IN /\ Quotient(v, Ten) \in NaturalWords
            /\ a \in Nat /\ q \in Nat /\ d \in 0 .. 9 /\ a = 10 * q + d
            /\ Positive(v) <=> a # 0
<1>. DEFINE a == Representation(v)
<1>1. v \in Words /\ ~IsReference(v) /\ a \in Nat /\ a \in Numbers /\ a \in Int
  <2>1. v \in Words /\ ~IsReference(v) /\ a >= 0
    BY DEF NaturalWords
  <2>. QED BY <2>1, WordHasNumber
<1>2. Representation(Ten) = 10 /\ Ten \in Words /\ ~IsReference(Ten)
  BY TenIs
<1>. HIDE DEF a
<1>3. PICK q \in Nat, s \in 0 .. Magnitude(10) - 1 :
        /\ Magnitude(a) = Magnitude(10) * q + s
        /\ Truncated(a, 10) = IF a < 0 <=> 10 < 0 THEN q ELSE -q
  <2>1. 10 \in Int \ {0}
    OBVIOUS
  <2>. QED BY <1>1, <2>1, TruncatedIs, ZenonT(30)
<1>4. s \in 0 .. 9 /\ a = 10 * q + s /\ Truncated(a, 10) = q
  BY <1>1, <1>3 DEF Magnitude
<1>5. q \in Numbers /\ s \in Numbers /\ s \in Int /\ q \in Int
  BY <1>1, <1>4, Quarters, WordBitsAssumption DEF Numbers
<1>6. Quotient(v, Ten) = FromNumber(q)
  BY <1>1, <1>2, <1>4, DivisionInWords DEF a
<1>7. Quotient(v, Ten) \in NaturalWords /\ Representation(Quotient(v, Ten)) = q
  BY <1>5, <1>6, NumberInWord DEF NaturalWords
<1>8. Remainder(v, Ten) = FromNumber(s)
  <2>1. a - 10 * q = s
    BY <1>1, <1>4
  <2>. QED BY <1>2, <1>4, <2>1 DEF Remainder, a
<1>9. Representation(Remainder(v, Ten)) = s
  BY <1>5, <1>8, NumberInWord
<1>10. Positive(v) <=> a # 0
  BY <1>1, TenIs DEF Positive, Less, a
<1>. QED BY <1>1, <1>4, <1>7, <1>9, <1>10 DEF a

-----------------------------------------------------------------------------
(* The numbers that the loop divides by ten, until one is zero.              *)
Tenths(rest, v) ==
  /\ rest \in [0 .. WordBits -> NaturalWords] /\ rest[0] = v
  /\ \A k \in 1 .. WordBits : rest[k] = Quotient(rest[k - 1], Ten)

Ends(rest, n) ==
  /\ n \in 1 .. WordBits
  /\ \A i \in 1 .. n - 1 : Positive(rest[i])
  /\ ~Positive(rest[n])

(* A word has more binary digits than its number has decimal ones.           *)
LEMMA TenthsEnd ==
  ASSUME NEW v \in NaturalWords, NEW rest, Tenths(rest, v)
  PROVE  \E n \in 1 .. WordBits : Ends(rest, n)
<1>. DEFINE R(i) == Representation(rest[i])
            T == {i \in 0 .. WordBits : 2^i \in Nat \ {0} /\ R(i) * 2^i <= R(0)}
<1>1. \A i \in 0 .. WordBits : rest[i] \in NaturalWords /\ R(i) \in Nat
  BY TenthOf DEF Tenths
<1>2. \A i \in 1 .. WordBits : Positive(rest[i]) <=> R(i) # 0
  BY <1>1, TenthOf
<1>3. ASSUME NEW i \in 0 .. WordBits - 1  PROVE 2 * R(i + 1) <= R(i)
  <2>1. i + 1 \in 1 .. WordBits /\ i \in 0 .. WordBits /\ (i + 1) - 1 = i
    BY WordBitsAssumption
  <2>2. rest[i + 1] = Quotient(rest[i], Ten)
    BY <2>1 DEF Tenths
  <2>3. \E d \in 0 .. 9 : R(i) = 10 * R(i + 1) + d
    BY <1>1, <2>1, <2>2, TenthOf
  <2>4. R(i) \in Nat /\ R(i + 1) \in Nat
    BY <1>1, <2>1
  <2>. HIDE DEF R
  <2>. QED BY <2>3, <2>4
<1>. HIDE DEF R
<1>4. 0 \in T
  <2>1. 0 \in 0 .. WordBits /\ R(0) \in Nat
    BY <1>1, WordBitsAssumption
  <2>. QED BY <2>1
<1>5. ASSUME NEW i \in 0 .. WordBits - 1, i \in T  PROVE i + 1 \in T
  <2>. DEFINE p == 2^i
              p2 == 2^(i + 1)
  <2>1. i \in 0 .. WordBits /\ i + 1 \in 0 .. WordBits /\ R(i) \in Nat /\ R(i + 1) \in Nat
        /\ R(0) \in Nat
    BY <1>1, WordBitsAssumption
  <2>2. p2 = 2 * p
    BY WordBitsAssumption
  <2>3. p \in Nat \ {0} /\ R(i) * p <= R(0)
    BY <1>5
  <2>. HIDE DEF p, p2
  <2>4. (2 * R(i + 1)) * p <= R(i) * p
    BY <1>3, <2>1, <2>3
  <2>5. R(i + 1) * (2 * p) = (2 * R(i + 1)) * p /\ (2 * R(i + 1)) * p \in Int /\ R(i) * p \in Int
    BY <2>1, <2>3
  <2>6. R(i + 1) * p2 <= R(0)
    BY <2>1, <2>2, <2>3, <2>4, <2>5
  <2>. QED BY <2>1, <2>2, <2>3, <2>6 DEF p, p2
<1>. HIDE DEF T
<1>6. WordBits \in T
  <2>1. 0 .. WordBits \subseteq T
    BY <1>4, <1>5, CountsTo, WordBitsAssumption
  <2>. QED BY <2>1, WordBitsAssumption
<1>7. R(WordBits) = 0
  <2>1. R(WordBits) * WordCount <= R(0) /\ R(WordBits) \in Nat
    BY <1>1, <1>6, WordBitsAssumption DEF T, WordCount
  <2>2. R(0) < WordCount
    <3>1. rest[0] = v /\ v \in Words /\ ~IsReference(v)
      BY DEF Tenths, NaturalWords
    <3>2. R(0) \in Numbers
      BY <3>1, WordHasNumber DEF R
    <3>. QED BY <3>2, Quarters DEF Numbers
  <2>3. R(WordBits) >= 1 => R(WordBits) * WordCount >= WordCount
    BY <2>1, Quarters
  <2>. QED BY <2>1, <2>2, <2>3, <1>1, Quarters, WordBitsAssumption
<1>8. WordBits \in 1 .. WordBits
  <2>1. WordBits # 0
    BY WordBitsAssumption
  <2>. QED BY <2>1, WordBitsAssumption
<1>. DEFINE Stops == {n \in 1 .. WordBits : R(n) = 0}
<1>9. PICK n \in Stops : \A m \in Stops : n <= m
  <2>1. Stops \subseteq Nat /\ Stops # {}
    BY <1>7, <1>8
  <2>. HIDE DEF Stops
  <2>. QED BY <2>1, LeastNumber
<1>10. ASSUME NEW i \in 1 .. n - 1  PROVE Positive(rest[i])
  <2>1. i \in 1 .. WordBits /\ ~(n <= i)
    BY <1>9, WordBitsAssumption
  <2>. QED BY <1>2, <1>9, <2>1
<1>. QED BY <1>2, <1>9, <1>10 DEF Ends

(* What number->string writes: digits, of numbers that are each ten times    *)
(* the next and a digit.                                                   *)
AreDigits(rest, n, v) ==
  /\ n \in Nat \ {0} /\ n <= WordBits
  /\ Tenths(rest, v) /\ Representation(rest[n]) = 0
  /\ Digits(v) = [i \in 1 .. n |-> Representation(Remainder(rest[i - 1], Ten))]

LEMMA DigitsAre ==
  ASSUME NEW v \in NaturalWords
  PROVE  \E rest, n : AreDigits(rest, n, v)
<1>. DEFINE body == [p \in NaturalWords \X (1 .. WordBits) |-> Quotient(p[1], Ten)]
<1>1. body \in [NaturalWords \X (1 .. WordBits) -> NaturalWords]
  BY TenthOf
<1>2. \A d \in NaturalWords, k \in 1 .. WordBits : body[<<d, k>>] = Quotient(d, Ten)
  OBVIOUS
<1>. HIDE DEF body
<1>3. PICK at : IsLoop(at, NaturalWords, v, WordBits, body)
  BY <1>1, LoopRuns, WordBitsAssumption
<1>. DEFINE Unfolds(rest) ==
       rest = [i \in 0 .. WordBits |-> IF i = 0 THEN v ELSE Quotient(rest[i - 1], Ten)]
<1>4. Unfolds(at)
  <2>1. \A i \in 0 .. WordBits : i # 0 =>
          i \in 1 .. WordBits /\ i - 1 \in 0 .. WordBits
    BY WordBitsAssumption
  <2>2. ASSUME NEW i \in 0 .. WordBits
        PROVE  at[i] = IF i = 0 THEN v ELSE Quotient(at[i - 1], Ten)
    BY <1>2, <1>3, <2>1 DEF IsLoop
  <2>3. at = [i \in 0 .. WordBits |-> at[i]]
    BY <1>3 DEF IsLoop
  <2>. QED BY <2>2, <2>3
<1>. DEFINE rest == CHOOSE r : Unfolds(r)
            Stops(n) == (\A i \in 1 .. n - 1 : Positive(rest[i])) /\ ~Positive(rest[n])
            count == CHOOSE n \in 1 .. WordBits : Stops(n)
<1>8. Digits(v) = [i \in 1 .. count |-> Representation(Remainder(rest[i - 1], Ten))]
  BY DEF Digits
<1>. HIDE DEF count
<1>5. Unfolds(rest)
  <2>. HIDE DEF Unfolds
  <2>. QED BY <1>4
<1>. HIDE DEF rest
<1>6. Tenths(rest, v)
  <2>1. DOMAIN rest = 0 .. WordBits
    BY <1>5
  <2>2. rest[0] = v
    BY <1>5, WordBitsAssumption
  <2>3. ASSUME NEW k \in 1 .. WordBits  PROVE rest[k] = Quotient(rest[k - 1], Ten)
    <3>1. k \in 0 .. WordBits /\ k # 0
      BY WordBitsAssumption
    <3>. QED BY <1>5, <3>1
  <2>. DEFINE T == {k \in 0 .. WordBits : rest[k] \in NaturalWords}
  <2>4. 0 \in T
    BY <2>2, WordBitsAssumption
  <2>5. ASSUME NEW m \in 0 .. WordBits - 1, m \in T  PROVE m + 1 \in T
    <3>1. m + 1 \in 1 .. WordBits /\ m + 1 \in 0 .. WordBits /\ (m + 1) - 1 = m
      BY WordBitsAssumption
    <3>2. rest[m + 1] = Quotient(rest[m], Ten) /\ rest[m] \in NaturalWords
      BY <2>3, <2>5, <3>1
    <3>. QED BY <3>1, <3>2, TenthOf
  <2>. HIDE DEF T
  <2>6. 0 .. WordBits \subseteq T
    BY <2>4, <2>5, CountsTo, WordBitsAssumption
  <2>7. \A k \in 0 .. WordBits : rest[k] \in NaturalWords
    BY <2>6 DEF T
  <2>8. rest = [k \in 0 .. WordBits |-> rest[k]]
    BY <1>5
  <2>9. rest \in [0 .. WordBits -> NaturalWords]
    BY <2>7, <2>8
  <2>. QED BY <2>2, <2>3, <2>9 DEF Tenths
<1>. HIDE DEF Unfolds
<1>7. count \in 1 .. WordBits /\ Stops(count)
  <2>1. \E n \in 1 .. WordBits : Stops(n)
    BY <1>6, TenthsEnd DEF Ends
  <2>. HIDE DEF Stops
  <2>. QED BY <2>1 DEF count
<1>9. count \in Nat \ {0} /\ count <= WordBits /\ count \in 0 .. WordBits
  BY <1>7, WordBitsAssumption
<1>10. Representation(rest[count]) = 0
  <2>1. rest[count] \in NaturalWords
    BY <1>6, <1>9 DEF Tenths
  <2>. QED BY <1>7, <2>1, TenthOf
<1>11. AreDigits(rest, count, v)
  BY <1>6, <1>8, <1>9, <1>10 DEF AreDigits
<1>. QED BY <1>11

-----------------------------------------------------------------------------
(* The least of a set of positions, and the fold that takes it out.          *)
LEMMA MinIs ==
  ASSUME NEW n \in Nat, NEW s, s \subseteq 1 .. n, s # {}
  PROVE  Min(s) \in s /\ \A y \in s : Min(s) <= y
<1>1. s \subseteq Nat
  OBVIOUS
<1>2. \E x \in s : \A y \in s : x <= y
  BY <1>1, LeastNumber
<1>. QED BY <1>2 DEF Min

IsFoldRight(iter, D, b, n, body) ==
  /\ iter \in [SUBSET (1 .. n) -> D]
  /\ iter = [s \in SUBSET (1 .. n) |->
               IF s = {} THEN b ELSE body[<<iter[s \ {Min(s)}], Min(s)>>]]

LEMMA FoldRightRuns ==
  ASSUME NEW D, NEW b \in D, NEW n \in Nat, NEW body \in [D \X (1 .. n) -> D]
  PROVE  \E iter : IsFoldRight(iter, D, b, n, body)
<1>. DEFINE Folds(m, f) ==
       /\ f \in [SUBSET (n - m + 1 .. n) -> D] /\ f[{}] = b
       /\ \A s \in SUBSET (n - m + 1 .. n) :
            s # {} => f[s] = body[<<f[s \ {Min(s)}], Min(s)>>]
<1>. DEFINE T == {m \in 0 .. n : \E f : Folds(m, f)}
<1>1. 0 \in T
  <2>1. n - 0 + 1 .. n = {}
    OBVIOUS
  <2>. DEFINE start == [s \in SUBSET (n - 0 + 1 .. n) |-> b]
  <2>2. Folds(0, start)
    BY <2>1
  <2>. HIDE DEF Folds, start
  <2>. QED BY <2>2
<1>2. ASSUME NEW m \in 0 .. n - 1, m \in T  PROVE m + 1 \in T
  <2>1. PICK f : Folds(m, f)
    BY <1>2
  <2>. DEFINE p == n - m
  <2>2. p \in 1 .. n /\ m + 1 \in 0 .. n /\ n - (m + 1) + 1 = p
    OBVIOUS
  <2>. HIDE DEF p
  <2>. DEFINE g == [s \in SUBSET (p .. n) |->
                      IF p \in s THEN body[<<f[s \ {p}], p>>] ELSE f[s]]
  <2>3. ASSUME NEW s \in SUBSET (p .. n)
        PROVE  s \ {p} \in SUBSET (p + 1 .. n) /\ (p \notin s => s \in SUBSET (p + 1 .. n))
    BY <2>2
  <2>11. /\ f \in [SUBSET (p + 1 .. n) -> D] /\ f[{}] = b
         /\ \A s \in SUBSET (p + 1 .. n) : s # {} => f[s] = body[<<f[s \ {Min(s)}], Min(s)>>]
    BY <2>1 DEF p
  <2>. HIDE DEF Folds
  <2>4. ASSUME NEW s \in SUBSET (p .. n)  PROVE g[s] \in D
    <3>1. f[s \ {p}] \in D /\ (p \notin s => f[s] \in D)
      BY <2>11, <2>3
    <3>2. body[<<f[s \ {p}], p>>] \in D
      BY <3>1, <2>2
    <3>. QED BY <3>1, <3>2
  <2>5. g \in [SUBSET (p .. n) -> D]
    BY <2>4
  <2>6. g[{}] = b
    BY <2>11
  <2>7. ASSUME NEW s \in SUBSET (p .. n), s # {}
        PROVE  g[s] = body[<<g[s \ {Min(s)}], Min(s)>>]
    <3>1. Min(s) \in s /\ \A y \in s : Min(s) <= y
      <4>1. s \subseteq 1 .. n
        BY <2>2
      <4>. QED BY <2>7, <4>1, MinIs
    <3>. DEFINE low == Min(s)
    <3>. HIDE DEF low
    <3>2. low \in s /\ \A y \in s : low <= y
      BY <3>1 DEF low
    <3>3. s \ {low} \in SUBSET (p .. n)
      OBVIOUS
    <3>4. g[s] = body[<<g[s \ {low}], low>>]
      <4>1. CASE p \in s
        <5>1. low = p
          BY <2>2, <3>2, <4>1
        <5>2. g[s \ {low}] = f[s \ {low}]
          BY <3>3, <5>1
        <5>. QED BY <4>1, <5>1, <5>2
      <4>2. CASE p \notin s
        <5>1. g[s] = f[s] /\ g[s \ {low}] = f[s \ {low}]
          BY <3>3, <4>2
        <5>2. f[s] = body[<<f[s \ {low}], low>>]
          BY <2>11, <2>3, <2>7, <4>2 DEF low
        <5>. QED BY <5>1, <5>2
      <4>. QED BY <4>1, <4>2
    <3>. QED BY <3>4 DEF low
  <2>. HIDE DEF g
  <2>8. Folds(m + 1, g)
    BY <2>2, <2>5, <2>6, <2>7 DEF Folds
  <2>. QED BY <2>2, <2>8
<1>. HIDE DEF T
<1>3. 0 .. n \subseteq T
  BY <1>1, <1>2, CountsTo
<1>4. PICK f : Folds(n, f)
  <2>1. n \in T
    BY <1>3
  <2>. QED BY <2>1 DEF T
<1>5. n - n + 1 = 1
  OBVIOUS
<1>6. f \in [SUBSET (1 .. n) -> D] /\ f[{}] = b
      /\ \A s \in SUBSET (1 .. n) : s # {} => f[s] = body[<<f[s \ {Min(s)}], Min(s)>>]
  BY <1>4, <1>5
<1>7. f = [s \in SUBSET (1 .. n) |->
             IF s = {} THEN b ELSE body[<<f[s \ {Min(s)}], Min(s)>>]]
  BY <1>6
<1>. QED BY <1>6, <1>7 DEF IsFoldRight

-----------------------------------------------------------------------------
(* What string->number makes of digits: the value from each position on.     *)
Read(sum, d) == Add(Multiply(Ten, sum), FromNumber(d))
Value(digits) ==
  FoldRight(LAMBDA d, sum : Add(Multiply(Ten, sum), FromNumber(d)), digits, Zero)

AreValues(at, digits) ==
  /\ at[Len(digits)] = Zero
  /\ \A k \in 1 .. Len(digits) : at[k - 1] = Read(at[k], digits[k])
  /\ Value(digits) = at[0]

LEMMA ReadTyped ==
  ASSUME NEW v, NEW d \in Int
  PROVE  Representation(v) \in Int => Read(v, d) \in Words /\ ~IsReference(Read(v, d))
<1>1. Representation(FromNumber(d)) \in Int
  BY NumberInWord, Quarters DEF Numbers
<1>2. ASSUME Representation(v) \in Int
      PROVE  Read(v, d) \in Words /\ ~IsReference(Read(v, d))
  <2>1. Representation(Ten) * Representation(v) \in Int
    BY <1>2, TenIs
  <2>2. Representation(Multiply(Ten, v)) \in Int
    <3>. DEFINE x == Representation(Ten) * Representation(v)
    <3>. HIDE DEF x
    <3>1. x \in Int /\ Multiply(Ten, v) = FromNumber(x)
      BY <2>1 DEF Multiply, x
    <3>. QED BY <3>1, NumberInWord, Quarters DEF Numbers
  <2>3. Representation(Multiply(Ten, v)) + Representation(FromNumber(d)) \in Int
    BY <1>1, <2>2
  <2>. QED BY <2>3, NumberInWord DEF Read, Add
<1>. QED BY <1>2

LEMMA ValuesAre ==
  ASSUME NEW digits \in Seq(Int)
  PROVE  \E at : AreValues(at, digits)
<1>. DEFINE D == {w \in Words : ~IsReference(w)}
            n == Len(digits)
            body == [p \in D \X (1 .. n) |-> Read(p[1], digits[p[2]])]
<1>1. n \in Nat /\ DOMAIN digits = 1 .. n
  OBVIOUS
<1>2. \A k \in 1 .. n : digits[k] \in Int
  OBVIOUS
<1>3. body \in [D \X (1 .. n) -> D]
  <2>1. ASSUME NEW d \in D, NEW k \in 1 .. n  PROVE Read(d, digits[k]) \in D
    BY <1>2, ReadTyped, WordHasNumber
  <2>. HIDE DEF D, n
  <2>. QED BY <2>1
<1>4. \A d \in D, k \in 1 .. n : body[<<d, k>>] = Read(d, digits[k])
  OBVIOUS
<1>5. Zero \in D
  BY TenIs DEF NaturalWords
<1>. HIDE DEF body, n, D
<1>. DEFINE Unfolds(iter) ==
       iter = [s \in SUBSET (1 .. n) |->
                 IF s = {} THEN Zero
                 ELSE Add(Multiply(Ten, iter[s \ {Min(s)}]), FromNumber(digits[Min(s)]))]
<1>6. PICK f : IsFoldRight(f, D, Zero, n, body)
  BY <1>1, <1>3, <1>5, FoldRightRuns
<1>7. Unfolds(f)
  <2>1. ASSUME NEW s \in SUBSET (1 .. n), s # {}
        PROVE  f[s] = Add(Multiply(Ten, f[s \ {Min(s)}]), FromNumber(digits[Min(s)]))
    <3>1. Min(s) \in 1 .. n
      BY <1>1, <2>1, MinIs
    <3>2. f[s \ {Min(s)}] \in D
      BY <1>6 DEF IsFoldRight
    <3>3. f[s] = body[<<f[s \ {Min(s)}], Min(s)>>]
      BY <1>6, <2>1 DEF IsFoldRight
    <3>. QED BY <1>4, <3>1, <3>2, <3>3 DEF Read
  <2>2. f[{}] = Zero
    BY <1>6 DEF IsFoldRight
  <2>3. f = [s \in SUBSET (1 .. n) |-> f[s]]
    BY <1>6 DEF IsFoldRight
  <2>. QED BY <2>1, <2>2, <2>3
<1>8. PICK iter : Unfolds(iter) /\ iter = CHOOSE i : Unfolds(i)
  <2>. HIDE DEF Unfolds
  <2>. QED BY <1>7
<1>9. Value(digits) = iter[1 .. n]
  BY <1>1, <1>8 DEF Value, FoldRight, MapThenFoldSet
<1>. DEFINE at == [k \in 0 .. n |-> iter[k + 1 .. n]]
<1>10. at[n] = Zero
  <2>1. n + 1 .. n = {} /\ n \in 0 .. n
    BY <1>1
  <2>. QED BY <1>8, <2>1
<1>11. at[0] = Value(digits)
  <2>1. 0 \in 0 .. n /\ 0 + 1 = 1
    BY <1>1
  <2>. QED BY <1>9, <2>1
<1>12. ASSUME NEW k \in 1 .. n  PROVE at[k - 1] = Read(at[k], digits[k])
  <2>. DEFINE s == k .. n
  <2>1. k \in s /\ s \subseteq 1 .. n /\ s # {} /\ (\A y \in s : k <= y) /\ k \in Nat
    <3>1. k \in Nat /\ 1 <= k /\ k <= n
      BY <1>1
    <3>2. k \in s /\ \A y \in s : k <= y
      BY <3>1
    <3>3. \A y \in s : y \in 1 .. n
      BY <1>1, <3>1
    <3>. QED BY <3>1, <3>2, <3>3
  <2>2. s \ {k} = k + 1 .. n
    BY <1>1
  <2>3. Min(s) \in s /\ \A y \in s : Min(s) <= y
    BY <1>1, <2>1, MinIs
  <2>4. k - 1 \in 0 .. n /\ k \in 0 .. n /\ (k - 1) + 1 = k
    BY <1>1
  <2>. HIDE DEF s
  <2>. DEFINE low == Min(s)
  <2>. HIDE DEF low
  <2>5. low \in 1 .. n /\ low \in s /\ \A y \in s : low <= y
    BY <1>1, <2>1, <2>3 DEF low
  <2>6. low = k
    BY <1>1, <2>1, <2>5
  <2>7. iter[s] = Add(Multiply(Ten, iter[s \ {Min(s)}]), FromNumber(digits[Min(s)]))
    BY <1>8, <2>1
  <2>8. iter[s] = Read(iter[s \ {k}], digits[k])
    BY <2>6, <2>7 DEF Read, low
  <2>9. at[k - 1] = iter[s] /\ at[k] = iter[k + 1 .. n]
    BY <2>4 DEF s
  <2>. HIDE DEF at
  <2>. QED BY <2>2, <2>8, <2>9
<1>. HIDE DEF at
<1>13. AreValues(at, digits)
  BY <1>10, <1>11, <1>12 DEF AreValues, n
<1>. QED BY <1>13

(* Reading a digit undoes a division by ten.                                 *)
LEMMA DigitIsRead ==
  ASSUME NEW v \in NaturalWords
  PROVE  Read(Quotient(v, Ten), Representation(Remainder(v, Ten))) = v
<1>. DEFINE a == Representation(v)
            d == Representation(Remainder(v, Ten))
            w == Quotient(v, Ten)
            q == Representation(w)
<1>1. a \in Nat /\ q \in Nat /\ d \in 0 .. 9 /\ a = 10 * q + d
  BY TenthOf
<1>2. v \in Words /\ ~IsReference(v) /\ a \in Numbers
  BY WordHasNumber DEF NaturalWords
<1>3. Representation(Ten) = 10
  BY TenIs
<1>. HIDE DEF a, d, q, w
<1>4. 10 * q \in Numbers /\ d \in Numbers /\ 10 * q \in Int /\ d \in Int
  BY <1>1, <1>2, Quarters DEF Numbers
<1>5. Multiply(Ten, w) = FromNumber(10 * q)
  BY <1>3 DEF Multiply, q
<1>6. Representation(Multiply(Ten, w)) = 10 * q /\ Representation(FromNumber(d)) = d
  BY <1>4, <1>5, NumberInWord
<1>7. Read(w, d) = FromNumber(a)
  BY <1>1, <1>6 DEF Read, Add
<1>8. FromNumber(a) = v
  BY <1>2, WordOfNumber DEF a
<1>. QED BY <1>7, <1>8 DEF w, d

LEMMA DigitsAreRead ==
  ASSUME NEW v \in NaturalWords
  PROVE  /\ Digits(v) \in Seq(0 .. 9)
         /\ Value(Digits(v)) = v
<1>1. PICK rest, n : AreDigits(rest, n, v)
  BY DigitsAre
<1>2. n \in Nat \ {0} /\ n <= WordBits /\ Tenths(rest, v) /\ Representation(rest[n]) = 0
      /\ Digits(v) = [i \in 1 .. n |-> Representation(Remainder(rest[i - 1], Ten))]
  BY <1>1 DEF AreDigits
<1>3. \A i \in 0 .. n : rest[i] \in NaturalWords
  BY <1>2, WordBitsAssumption DEF Tenths
<1>. DEFINE digits == Digits(v)
<1>4. digits \in Seq(0 .. 9) /\ Len(digits) = n
  <2>1. ASSUME NEW i \in 1 .. n  PROVE Representation(Remainder(rest[i - 1], Ten)) \in 0 .. 9
    <3>1. i - 1 \in 0 .. n
      BY <1>2
    <3>. QED BY <1>3, <3>1, TenthOf
  <2>. QED BY <1>2, <2>1
<1>5. \A k \in 1 .. n : digits[k] = Representation(Remainder(rest[k - 1], Ten))
  BY <1>2
<1>. HIDE DEF digits
<1>6. PICK at : AreValues(at, digits)
  <2>1. digits \in Seq(Int)
    BY <1>4
  <2>. QED BY <2>1, ValuesAre
<1>7. ASSUME NEW k \in 1 .. n, at[k] = rest[k]  PROVE at[k - 1] = rest[k - 1]
  <2>1. k \in 1 .. WordBits /\ k - 1 \in 0 .. n
    BY <1>2, WordBitsAssumption
  <2>2. rest[k] = Quotient(rest[k - 1], Ten) /\ rest[k - 1] \in NaturalWords
    BY <1>2, <1>3, <2>1 DEF Tenths
  <2>3. at[k - 1] = Read(at[k], digits[k])
    BY <1>4, <1>6 DEF AreValues
  <2>. QED BY <1>5, <1>7, <2>2, <2>3, DigitIsRead
<1>8. at[n] = rest[n]
  <2>1. rest[n] \in Words /\ ~IsReference(rest[n])
    BY <1>2, <1>3 DEF NaturalWords
  <2>2. rest[n] = FromNumber(0)
    BY <1>2, <2>1, WordOfNumber
  <2>. QED BY <1>4, <1>6, <2>2 DEF AreValues, Zero
<1>. DEFINE T == {m \in 0 .. n : at[n - m] = rest[n - m]}
<1>9. 0 \in T
  BY <1>2, <1>8
<1>10. ASSUME NEW m \in 0 .. n - 1, m \in T  PROVE m + 1 \in T
  <2>1. n - m \in 1 .. n /\ (n - m) - 1 = n - (m + 1) /\ m + 1 \in 0 .. n
    BY <1>2
  <2>2. at[n - m] = rest[n - m]
    BY <1>10
  <2>3. at[(n - m) - 1] = rest[(n - m) - 1]
    BY <1>7, <2>1, <2>2
  <2>. QED BY <2>1, <2>3
<1>. HIDE DEF T
<1>11. n \in T
  <2>1. 0 .. n \subseteq T
    BY <1>2, <1>9, <1>10, CountsTo
  <2>. QED BY <1>2, <2>1
<1>12. at[0] = rest[0]
  <2>1. n - n = 0
    BY <1>2
  <2>. QED BY <1>11, <2>1 DEF T
<1>13. Value(digits) = v
  BY <1>2, <1>6, <1>12 DEF AreValues, Tenths
<1>. QED BY <1>4, <1>13 DEF digits

LEMMA TextIsRead ==
  ASSUME NEW w \in Words, ~IsReference(w), Representation(w) # Least
  PROVE  LET s == NumberToString(w) IN Readable(s) /\ StringToNumber(s) = w
<1>. DEFINE a == Representation(w)
            v == Abs(w)
            s == NumberToString(w)
<1>1. a \in Int /\ a \in Numbers /\ a # -Quarter
  BY WordHasNumber DEF Least, Quarter
<1>2. Negative(w) <=> a < 0
  BY TenIs DEF Negative, Less
<1>. HIDE DEF a
<1>3. v = FromNumber(Magnitude(a))
  <2>1. CASE a < 0
    BY <1>1, <1>2, <2>1, TenIs DEF Abs, Subtract, Magnitude, a
  <2>2. CASE ~(a < 0)
    BY <1>1, <1>2, <2>2, WordOfNumber DEF Abs, Magnitude, a
  <2>. QED BY <2>1, <2>2
<1>. HIDE DEF v
<1>4. Magnitude(a) \in Numbers /\ Magnitude(a) \in Nat /\ Magnitude(a) \in Int
  BY <1>1, Quarters DEF Magnitude, Numbers
<1>5. v \in NaturalWords /\ Representation(v) = Magnitude(a)
  BY <1>3, <1>4, NumberInWord DEF NaturalWords
<1>6. s = [minus |-> Negative(w), digits |-> Digits(v)]
  BY DEF NumberToString, v
<1>7. Digits(v) \in Seq(0 .. 9) /\ Value(Digits(v)) = v
  BY <1>5, DigitsAreRead
<1>8. s.digits = Digits(v) /\ (s.minus <=> a < 0)
  BY <1>2, <1>6
<1>. HIDE DEF s
<1>9. Readable(s)
  BY <1>7, <1>8 DEF Readable
<1>10. StringToNumber(s) = IF s.minus THEN Subtract(Zero, v) ELSE v
  BY <1>7, <1>8 DEF StringToNumber, Value
<1>11. FromNumber(a) = w
  BY WordOfNumber DEF a
<1>12. StringToNumber(s) = w
  <2>1. CASE a < 0
    <3>1. Subtract(Zero, v) = FromNumber(0 - Magnitude(a))
      BY <1>5, TenIs DEF Subtract
    <3>2. 0 - Magnitude(a) = a
      BY <1>1, <2>1 DEF Magnitude
    <3>. QED BY <1>8, <1>10, <1>11, <2>1, <3>1, <3>2
  <2>2. CASE ~(a < 0)
    BY <1>3, <1>8, <1>10, <1>11, <2>2 DEF Magnitude
  <2>. QED BY <2>1, <2>2
<1>. QED BY <1>9, <1>12 DEF s

(* and a number that is written and read again is the same (TextKept):       *)
(* number->string ends with digits that string->number puts together again,  *)
(* for words of any length.                                                *)
THEOREM NumbersAreReadBack == WordSpec => []TextKept
<1>1. WordSpec => []WordInv
  BY WordStarts, WordStep, PTL DEF WordSpec
<1>2. WordInv => TextKept
  BY TextIsRead DEF WordInv, TextKept
<1>. QED BY <1>1, <1>2, PTL

-----------------------------------------------------------------------------
(* Host values.                                                            *)

(* What the properties rest on: the slot that is filled and has no cell yet,  *)
(* and the room of the heap.                                                *)
HeapFits == IsFiniteSet(cells) /\ Cardinality(cells) <= Capacity
SlotFilled == step = "cell" => slot \in DOMAIN values /\ values[slot] # Free

Inv == TypeOK /\ ValuesKept /\ SlotFilled /\ HeapFits /\ TableBounded

-----------------------------------------------------------------------------
(* The scan of collect_garbages: a slot that stays taken is named by a cell, *)
(* so in a table without a free slot there are as many cells as slots.       *)
LEMMA FullTable ==
  ASSUME Inv, FreeSlots(Collected) = {}
  PROVE  size <= Capacity
<1>1. DOMAIN values = 0 .. size - 1 /\ size \in Nat
  BY DEF Inv, TypeOK
<1>2. 0 .. size - 1 \subseteq Marked
  <2> SUFFICES ASSUME NEW i \in 0 .. size - 1, i \notin Marked PROVE FALSE
    OBVIOUS
  <2>1. i \in DOMAIN Collected /\ Collected[i] = Free
    BY <1>1 DEF Collected
  <2> QED
    BY <2>1 DEF FreeSlots
<1>3. IsFiniteSet(cells) /\ Cardinality(cells) \in Nat /\ Cardinality(cells) <= Capacity
  BY FS_CardinalityType DEF Inv, HeapFits
<1>4. IsFiniteSet(Marked) /\ Cardinality(Marked) <= Cardinality(cells)
  <2> DEFINE f == [c \in cells |-> c.index]
  <2>1. f \in Surjection(cells, Marked)
    BY DEF Surjection, Marked
  <2> QED
    BY <1>3, <2>1, FS_Surjection
<1>5. Cardinality(0 .. size - 1) <= Cardinality(Marked)
  BY <1>2, <1>4, FS_Subset
<1>6. Cardinality(0 .. size - 1) = size
  BY <1>1, FS_Interval
<1>7. Cardinality(Marked) \in Nat
  BY <1>4, FS_CardinalityType
<1> QED
  BY <1>1, <1>3, <1>4, <1>5, <1>6, <1>7, CapacityAssumption

-----------------------------------------------------------------------------
(* Filling a slot: of a table that holds what the cells name.                *)
LEMMA TakeKeeps ==
  ASSUME Inv, NEW table, NEW i \in Nat,
         table \in {values, Collected},
         i \in DOMAIN values => table[i] = Free,
         Take(table, i), made' = made + 1, UNCHANGED heapVars
  PROVE  /\ DOMAIN values' = DOMAIN values \cup {i}
         /\ \A j \in DOMAIN values' : values'[j] \in 0 .. made' - 1 \cup {Free}
         /\ ValuesKept'
         /\ values'[i] # Free
<1>1. /\ made \in Nat /\ DOMAIN table = DOMAIN values
      /\ \A j \in DOMAIN values : table[j] \in {values[j], Free}
      /\ \A j \in DOMAIN values : values[j] \in 0 .. made - 1 \cup {Free}
  BY DEF Inv, TypeOK, Collected
<1>2. values' = [j \in DOMAIN values \cup {i} |-> IF j = i THEN made ELSE table[j]]
  BY <1>1 DEF Take, Put
<1>3. DOMAIN values' = DOMAIN values \cup {i} /\ values'[i] # Free
  BY <1>1, <1>2 DEF Free
<1>4. \A j \in DOMAIN values' : values'[j] \in 0 .. made' - 1 \cup {Free}
  BY <1>1, <1>2 DEF Free
<1>5. ValuesKept'
  <2> SUFFICES ASSUME NEW c \in cells, c.owner # Free
               PROVE  c.index \in DOMAIN values' /\ values'[c.index] = c.owner
    BY DEF ValuesKept, Own, heapVars
  <2>1. c.index \in DOMAIN values /\ values[c.index] = c.owner
    BY DEF Inv, ValuesKept, Own
  <2>2. table[c.index] = values[c.index]
    BY <2>1 DEF Collected, Marked
  <2> QED
    BY <1>2, <2>1, <2>2
<1> QED
  BY <1>3, <1>4, <1>5

(* A cell more in the heap, after a collection or without one.               *)
LEMMA NewCellKeeps ==
  ASSUME Inv, NEW name, NEW index, NEW value, NEW present \in SUBSET cells,
         NewCell(name, index, value, present), UNCHANGED tableVars,
         value # Free => index \in DOMAIN values /\ values[index] = value
  PROVE  ValuesKept' /\ HeapFits'
<1> DEFINE new == [name |-> name, index |-> index, owner |-> value]
<1>1. cells' = present \cup {new} /\ Cardinality(present) < Capacity
  BY DEF NewCell
<1>2. ValuesKept'
  <2> SUFFICES ASSUME NEW c \in cells', c.owner # Free
               PROVE  c.index \in DOMAIN values /\ values[c.index] = c.owner
    BY DEF ValuesKept, Own, tableVars
  <2>1. CASE c \in present
    BY <2>1 DEF Inv, ValuesKept, Own
  <2>2. CASE c = new
    BY <2>2
  <2> QED
    BY <1>1, <2>1, <2>2
<1>3. HeapFits'
  <2>1. IsFiniteSet(present) /\ Cardinality(present) \in Nat
    BY FS_Subset, FS_CardinalityType DEF Inv, HeapFits
  <2>2. IsFiniteSet(cells') /\ Cardinality(cells') <= Cardinality(present) + 1
    <3> HIDE DEF new
    <3>1. /\ IsFiniteSet(present \cup {new})
          /\ Cardinality(present \cup {new})
               = IF new \in present THEN Cardinality(present) ELSE Cardinality(present) + 1
      BY <2>1, FS_AddElement
    <3> QED
      BY <1>1, <2>1, <3>1
  <2>3. Cardinality(cells') \in Nat
    BY <2>2, FS_CardinalityType
  <2> QED
    BY <1>1, <2>1, <2>2, <2>3, CapacityAssumption DEF HeapFits
<1> QED
  BY <1>2, <1>3

(* A collection of the heap drops cells.                                     *)
LEMMA CollectKeeps ==
  ASSUME Inv, cells' \in SUBSET cells, UNCHANGED tableVars
  PROVE  ValuesKept' /\ HeapFits'
<1>1. ValuesKept'
  BY DEF Inv, ValuesKept, Own, tableVars
<1>2. IsFiniteSet(cells') /\ Cardinality(cells') <= Cardinality(cells)
  BY FS_Subset DEF Inv, HeapFits
<1>3. Cardinality(cells') \in Nat /\ Cardinality(cells) \in Nat
  BY <1>2, FS_CardinalityType DEF Inv, HeapFits
<1> QED
  BY <1>1, <1>2, <1>3, CapacityAssumption DEF Inv, HeapFits

-----------------------------------------------------------------------------
LEMMA InitInv == Init => Inv
<1> SUFFICES ASSUME Init PROVE Inv
  OBVIOUS
<1>1. TypeOK
  BY DEF Init, TypeOK, Outcomes
<1>2. ValuesKept /\ SlotFilled /\ TableBounded
  BY CapacityAssumption DEF Init, ValuesKept, Own, SlotFilled, TableBounded
<1>3. HeapFits
  BY FS_EmptySet, CapacityAssumption DEF Init, HeapFits
<1> QED
  BY <1>1, <1>2, <1>3 DEF Inv

LEMMA FillSlotInv ==
  ASSUME Inv, FillSlot
  PROVE  Inv'
<1>1. /\ size \in Nat /\ DOMAIN values = 0 .. size - 1 /\ UNCHANGED heapVars
      /\ made' = made + 1 /\ step' = "cell" /\ UNCHANGED outcome
  BY DEF Inv, TypeOK, FillSlot
<1>2. DOMAIN Collected = DOMAIN values
  BY DEF Collected
<1>3. \E table \in {values, Collected} : \E i \in Nat :
        /\ Take(table, i)
        /\ i \in DOMAIN values => table[i] = Free
        /\ \/ i \in DOMAIN values /\ size' = size
           \/ i = size /\ size' = size + 1 /\ FreeSlots(Collected) = {}
  <2>1. CASE \E i \in First(FreeSlots(values)) : Take(values, i) /\ UNCHANGED size
    BY <1>1, <2>1 DEF First, FreeSlots
  <2>2. CASE \E i \in First(FreeSlots(Collected)) : Take(Collected, i) /\ UNCHANGED size
    BY <1>1, <1>2, <2>2 DEF First, FreeSlots
  <2>3. CASE FreeSlots(Collected) = {} /\ Take(Collected, size) /\ size' = size + 1
    BY <1>1, <2>3
  <2> QED
    BY <2>1, <2>2, <2>3 DEF FillSlot
<1>4. PICK table \in {values, Collected}, i \in Nat :
        /\ Take(table, i)
        /\ i \in DOMAIN values => table[i] = Free
        /\ \/ i \in DOMAIN values /\ size' = size
           \/ i = size /\ size' = size + 1 /\ FreeSlots(Collected) = {}
  BY <1>3
<1>5. /\ DOMAIN values' = DOMAIN values \cup {i}
      /\ \A j \in DOMAIN values' : values'[j] \in 0 .. made' - 1 \cup {Free}
      /\ ValuesKept' /\ values'[i] # Free
  BY <1>1, <1>4, TakeKeeps
<1>6. DOMAIN values' = 0 .. size' - 1 /\ size' \in Nat /\ size' <= Capacity + 1
  <2>1. CASE i \in DOMAIN values /\ size' = size
    BY <1>1, <1>5, <2>1 DEF Inv, TableBounded
  <2>2. CASE i = size /\ size' = size + 1 /\ FreeSlots(Collected) = {}
    BY <1>1, <1>5, <2>2, FullTable, CapacityAssumption
  <2> QED
    BY <1>4, <2>1, <2>2
<1>7. values' \in [0 .. size' - 1 -> 0 .. made' - 1 \cup {Free}]
  <2>1. values' = [j \in DOMAIN values' |-> values'[j]]
    BY <1>4 DEF Take, Put
  <2> QED
    BY <1>5, <1>6, <2>1
<1>8. TypeOK'
  <2>1. made \in Nat /\ made' \in Nat /\ 0 .. made - 1 \subseteq 0 .. made' - 1
    BY <1>1 DEF Inv, TypeOK
  <2>2. cells' \subseteq [name : 0 .. made' - 1, index : Nat, owner : 0 .. made' - 1 \cup {Free}]
    BY <1>1, <2>1 DEF Inv, TypeOK, heapVars
  <2>3. slot' \in Nat
    BY <1>4 DEF Take
  <2> QED
    BY <1>1, <1>6, <1>7, <2>1, <2>2, <2>3 DEF Inv, TypeOK, heapVars
<1>9. SlotFilled'
  BY <1>4, <1>5 DEF SlotFilled, Take
<1>10. HeapFits' /\ TableBounded'
  BY <1>1, <1>6 DEF Inv, HeapFits, TableBounded, heapVars
<1> QED
  BY <1>5, <1>8, <1>9, <1>10 DEF Inv

-----------------------------------------------------------------------------
(* Names that exist keep existing.                                          *)
LEMMA Wider ==
  ASSUME NEW m \in Nat, NEW n \in Nat, m <= n
  PROVE  0 .. m - 1 \subseteq 0 .. n - 1
OBVIOUS

(* Steps that leave the table alone: what is left to show of them is where     *)
(* the cells and the names are.                                             *)
LEMMA HeapStep ==
  ASSUME Inv, UNCHANGED tableVars, made' \in Nat, made <= made',
         ValuesKept', HeapFits',
         cells' \subseteq [name : 0 .. made' - 1, index : Nat, owner : 0 .. made' - 1 \cup {Free}],
         held' \subseteq {c.name : c \in cells'},
         step' \in {"idle", "slot"}, slot' \in Nat, outcome' \in Outcomes
  PROVE  Inv'
<1>1. values' \in [0 .. size' - 1 -> 0 .. made' - 1 \cup {Free}]
  <2>1. /\ values' = values /\ size' = size /\ made \in Nat
        /\ values \in [0 .. size - 1 -> 0 .. made - 1 \cup {Free}]
    BY DEF Inv, TypeOK, tableVars
  <2>2. 0 .. made - 1 \subseteq 0 .. made' - 1
    BY <2>1, Wider
  <2> QED
    BY <2>1, <2>2
<1>2. TypeOK'
  BY <1>1 DEF Inv, TypeOK, tableVars
<1>3. SlotFilled' /\ TableBounded'
  BY DEF Inv, SlotFilled, TableBounded, tableVars
<1> QED
  BY <1>2, <1>3 DEF Inv

LEMMA StepInv == Inv /\ [Next]_vars => Inv'
<1> SUFFICES ASSUME Inv, [Next]_vars PROVE Inv'
  OBVIOUS
<1>0. /\ size \in Nat /\ made \in Nat /\ slot \in Nat /\ outcome \in Outcomes
      /\ cells \subseteq [name : 0 .. made - 1, index : Nat, owner : 0 .. made - 1 \cup {Free}]
      /\ held \subseteq {c.name : c \in cells}
      /\ step \in {"idle", "slot", "cell"}
      /\ cells \in SUBSET cells /\ Live \in SUBSET cells
      /\ held \subseteq {c.name : c \in Live}
  BY DEF Inv, TypeOK, Live
<1>1. CASE Operate
  <2>1. /\ UNCHANGED <<tableVars, cells, made, slot>> /\ held' \subseteq held
        /\ step' \in {"idle", "slot"} /\ outcome' \in Outcomes
    BY <1>1 DEF Operate, Outcomes
  <2>2. ValuesKept' /\ HeapFits'
    BY <1>0, <2>1, CollectKeeps
  <2> QED
    BY <1>0, <1>1, <2>1, <2>2, HeapStep
<1>2. CASE FillSlot
  BY <1>2, FillSlotInv
<1>3. CASE AllocateCell
  <2> DEFINE new == [name |-> values[slot], index |-> slot, owner |-> values[slot]]
  <2>1. slot \in DOMAIN values /\ values[slot] # Free /\ values[slot] \in 0 .. made - 1
    BY <1>3 DEF Inv, TypeOK, SlotFilled, AllocateCell
  <2>2. PICK present \in {cells, Live} : NewCell(values[slot], slot, values[slot], present)
    BY <1>3 DEF AllocateCell
  <2>3. /\ UNCHANGED tableVars /\ UNCHANGED <<made, outcome>> /\ step' = "idle" /\ slot' = 0
        /\ held' = held \cup {values[slot]}
    BY <1>3 DEF AllocateCell
  <2>4. ValuesKept' /\ HeapFits'
    BY <1>0, <2>1, <2>2, <2>3, NewCellKeeps
  <2>5. cells' = present \cup {new}
    BY <2>2 DEF NewCell
  <2>6. new \in [name : 0 .. made - 1, index : Nat, owner : 0 .. made - 1 \cup {Free}]
        /\ new.name = values[slot]
    BY <1>0, <2>1
  <2>7. held' \subseteq {c.name : c \in cells'}
    BY <1>0, <2>2, <2>3, <2>5, <2>6
  <2>8. cells' \subseteq [name : 0 .. made' - 1, index : Nat, owner : 0 .. made' - 1 \cup {Free}]
    BY <1>0, <2>2, <2>3, <2>5, <2>6
  <2> QED
    BY <1>0, <1>3, <2>3, <2>4, <2>7, <2>8, HeapStep
<1>4. CASE FailToAllocate
  <2> DEFINE new == [name |-> values[slot], index |-> slot, owner |-> values[slot]]
  <2>1. slot \in DOMAIN values /\ values[slot] # Free /\ values[slot] \in 0 .. made - 1
    BY <1>4 DEF Inv, TypeOK, SlotFilled, FailToAllocate
  <2>2. PICK present \in {cells, Live} :
          cells' = cells \/ NewCell(values[slot], slot, values[slot], present)
    BY <1>4 DEF FailToAllocate
  <2>3. /\ UNCHANGED tableVars /\ UNCHANGED <<held, made>> /\ step' = "idle" /\ slot' = 0
        /\ outcome' \in Outcomes
    BY <1>4 DEF FailToAllocate, Outcomes
  <2>4. ValuesKept' /\ HeapFits'
    BY <1>0, <2>1, <2>2, <2>3, NewCellKeeps, CollectKeeps
  <2>5. cells' = cells \/ cells' = present \cup {new}
    BY <2>2 DEF NewCell
  <2>6. new \in [name : 0 .. made - 1, index : Nat, owner : 0 .. made - 1 \cup {Free}]
    BY <1>0, <2>1
  <2>7. held' \subseteq {c.name : c \in cells'}
    BY <1>0, <2>2, <2>3, <2>5
  <2>8. cells' \subseteq [name : 0 .. made' - 1, index : Nat, owner : 0 .. made' - 1 \cup {Free}]
    BY <1>0, <2>2, <2>3, <2>5, <2>6
  <2> QED
    BY <1>0, <1>4, <2>3, <2>4, <2>7, <2>8, HeapStep
<1>5. CASE (Forget \/ RunNext)
  <2>1. /\ UNCHANGED tableVars /\ UNCHANGED <<cells, made, slot, outcome>>
        /\ held' \subseteq held /\ step' = "idle"
    BY <1>5 DEF Forget, RunNext
  <2>2. ValuesKept' /\ HeapFits'
    BY <1>0, <2>1, CollectKeeps
  <2> QED
    BY <1>0, <1>5, <2>1, <2>2, HeapStep
<1>6. CASE CollectHeap
  <2>1. /\ UNCHANGED tableVars /\ UNCHANGED <<held, made, slot, outcome>>
        /\ cells' = Live /\ step' = "idle"
    BY <1>6 DEF CollectHeap
  <2>2. ValuesKept' /\ HeapFits'
    BY <1>0, <2>1, CollectKeeps
  <2> QED
    BY <1>0, <1>6, <2>1, <2>2, HeapStep
<1>7. CASE Forge
  <2>1. PICK index \in Forged : NewCell(made, index, Free, cells)
    BY <1>7 DEF Forge
  <2> DEFINE new == [name |-> made, index |-> index, owner |-> Free]
  <2>2. /\ UNCHANGED tableVars /\ UNCHANGED <<slot, outcome>> /\ made' = made + 1
        /\ step' = "idle" /\ held' = held \cup {made}
    BY <1>7 DEF Forge
  <2>3. ValuesKept' /\ HeapFits'
    BY <1>0, <2>1, <2>2, NewCellKeeps
  <2>4. cells' = cells \cup {new} /\ index \in Nat
    BY <2>1, ForgedAssumption DEF NewCell
  <2>5. /\ made' \in Nat /\ made <= made'
        /\ \A v \in 0 .. made - 1 : v \in 0 .. made' - 1
    BY <1>0, <2>2
  <2>6. new \in [name : 0 .. made' - 1, index : Nat, owner : 0 .. made' - 1 \cup {Free}]
        /\ new.name = made
    BY <1>0, <2>2, <2>4
  <2>7. held' \subseteq {c.name : c \in cells'}
    BY <1>0, <2>2, <2>4, <2>6
  <2>8. cells' \subseteq [name : 0 .. made' - 1, index : Nat, owner : 0 .. made' - 1 \cup {Free}]
    BY <1>0, <2>4, <2>5, <2>6
  <2> QED
    BY <1>0, <1>7, <2>2, <2>3, <2>5, <2>7, <2>8, HeapStep
<1>8. CASE UNCHANGED vars
  BY <1>8 DEF vars, tableVars, heapVars, Inv, TypeOK, ValuesKept, Own, SlotFilled, HeapFits,
              TableBounded
<1> QED
  BY <1>1, <1>2, <1>3, <1>4, <1>5, <1>6, <1>7, <1>8 DEF Next

(* TypeOK, of every variable of the table, the heap and the call.            *)
THEOREM TypeCorrect == Spec => []TypeOK
<1>1. Inv => TypeOK
  BY DEF Inv
<1> QED
  BY <1>1, InitInv, StepInv, PTL DEF Spec

(* A foreign value lives as long as a cell names it, and its slot is given     *)
(* to no other value before.                                                *)
THEOREM SlotsBelongToCells == Spec => []ValuesKept
<1>1. Inv => ValuesKept
  BY DEF Inv
<1> QED
  BY <1>1, InitInv, StepInv, PTL DEF Spec

(* The table of foreign values never has more slots than the heap has room     *)
(* for foreign cells, and one.                                              *)
THEOREM TableStaysSmall == Spec => []TableBounded
<1>1. Inv => TableBounded
  BY DEF Inv
<1> QED
  BY <1>1, InitInv, StepInv, PTL DEF Spec

-----------------------------------------------------------------------------
(* What the host and programs give each other.                                *)

-----------------------------------------------------------------------------
Slots == [type : {"number", "cons"}, value : Nat]
HostCells == [car : Slots, cdr : Slots, tag : Nat]

(* The text s in a list of characters, strings in a list, and variables in a  *)
(* list, where each cell of the list follows the cell of its entry.          *)
TextAt(r, i, s) ==
  \E p : /\ p[1] = i /\ p[Len(s) + 1] = NullCell
         /\ \A k \in 1 .. Len(s) :
              /\ p[k] \in 4 .. Len(r)
              /\ r[p[k]] = Cell(Number(s[k]), Reference(p[k + 1]), PairType)

StringsAt(r, i, s) ==
  \E q : /\ q[1] = i /\ q[Len(s) + 1] = NullCell
         /\ \A k \in 1 .. Len(s) :
              /\ q[k] \in 4 .. Len(r) /\ r[q[k]].cdr = Reference(q[k + 1])
              /\ TextAt(r, r[q[k]].car.value, s[k])

VariableAt(r, i, v) ==
  TextAt(r, r[i].car.value, v[1]) /\ TextAt(r, r[i].cdr.value, v[2])

VariablesAt(r, i, s) ==
  \E q : /\ q[1] = i /\ q[Len(s) + 1] = NullCell
         /\ \A k \in 1 .. Len(s) :
              /\ q[k] \in 5 .. i /\ i <= Len(r)
              /\ r[q[k]] = Cell(Reference(q[k] - 1), Reference(q[k + 1]), PairType)
              /\ VariableAt(r, q[k] - 1, s[k])

(* Cells refer to earlier cells, but for the entries E, to which no cdr leads. *)
Acyclic(r, E) ==
  /\ r \in Seq(HostCells) /\ Len(r) >= 3 /\ E \subseteq 4 .. Len(r)
  /\ r[FalseCell].cdr = Reference(TrueCell) /\ r[TrueCell].cdr = Reference(NullCell)
  /\ \A i \in 4 .. Len(r) :
       /\ r[i].cdr.value \in (1 .. Len(r)) \ E
       /\ i \notin E => r[i].cdr.value < i

HostShape ==
  \E E : /\ Acyclic(ribs, E)
         /\ routine \in {"command-line", "environment"} => root \in (1 .. Len(ribs)) \ E
         /\ phase = "string" => list \in (1 .. Len(ribs)) \ E
         /\ phase = "link" => list \in E
         /\ phase = "string" /\ routine = "environment" => root - 1 \in E

(* The text s is in hand: its end is at i, and x is what is left of it.       *)
TextInHand(r, i, x, s) ==
  /\ x \in Seq(Nat)
  /\ \E t \in Seq(Nat) : s = x \o t /\ TextAt(r, i, t)

Building(s) == TextInHand(ribs, list, text, s)

Calls ==
  /\ routine = "call" /\ phase \in {"string", "done"} /\ given \in Arguments
  /\ phase = "string" => given.type = "string" /\ Building(given.value)
  /\ phase = "done" /\ given.type = "string" =>
       \E i : /\ answer = Reference(i) /\ i \in 1 .. Len(ribs)
              /\ ribs[i].car = Number(Len(given.value))
              /\ TextAt(ribs, ribs[i].cdr.value, given.value)
  /\ phase = "done" /\ given.type = "integer" =>
       answer = Number(IntegerFromScheme(Number(given.value)))

LastOnes(s, n) == [k \in 1 .. n |-> s[Len(s) - n + k]]
FirstOnesReversed(s, n) == [k \in 1 .. n |-> s[n + 1 - k]]
Done == Len(given) - Len(todo)

ListsArguments ==
  /\ routine = "command-line" /\ phase \in {"next", "string", "done"}
  /\ given \in Seq(Seq(Nat)) /\ todo \in Seq(Seq(Nat)) /\ Len(todo) <= Len(given)
  /\ \A k \in 1 .. Len(todo) : todo[k] = given[Len(todo) + 1 - k]
  /\ StringsAt(ribs, root, LastOnes(given, Done))
  /\ phase = "string" => todo # <<>> /\ Building(Head(todo))
  /\ phase = "done" => todo = <<>> /\ answer = Reference(root)

Entries == (Seq(Nat) \X Seq(Nat)) \cup {<<v>> : v \in Seq(Nat)}

FillsEntry ==
  /\ \A k \in 2 .. Len(todo) : todo[k] = given[Done + k]
  /\ root \in 5 .. Len(ribs) /\ IsCons(ribs[root - 1].car)
  /\ \E old \in 0 .. root - 2 :
       /\ ribs[root] = Cell(Reference(root - 1), Reference(old), PairType)
       /\ VariablesAt(ribs, old, FirstOnesReversed(given, Done))
  /\ \/ todo[1] = given[Done + 1] /\ Building(given[Done + 1][1])
     \/ /\ todo[1] = <<given[Done + 1][2]>> /\ Building(given[Done + 1][2])
        /\ TextAt(ribs, ribs[root - 1].car.value, given[Done + 1][1])

ListsVariables ==
  /\ routine = "environment" /\ phase \in {"next", "link", "string", "done"}
  /\ given \in Seq(Seq(Nat) \X Seq(Nat)) /\ todo \in Seq(Entries) /\ Len(todo) <= Len(given)
  /\ phase # "string" =>
       /\ \A k \in 1 .. Len(todo) : todo[k] = given[Done + k]
       /\ VariablesAt(ribs, root, FirstOnesReversed(given, Done))
  /\ phase = "link" =>
       todo # <<>> /\ list = Len(ribs) /\ root < list /\ IsCons(ribs[list].car)
  /\ phase = "string" => todo # <<>> /\ FillsEntry
  /\ phase = "done" => todo = <<>> /\ answer = Reference(root)

HostInv ==
  /\ HostShape
  /\ \/ routine = "idle" /\ phase = "idle"
     \/ phase = "failed"
     \/ Calls \/ ListsArguments \/ ListsVariables

-----------------------------------------------------------------------------
LEMMA Shifted ==
  ASSUME NEW m \in Nat, NEW k \in 2 .. m + 1
  PROVE  k - 1 \in 1 .. m /\ k + 1 \in 1 .. m + 2 /\ k + 1 # 1
         /\ k \in 2 .. m + 1 /\ k \in 1 .. m + 2 /\ (k - 1) + 1 = (k + 1) - 1
OBVIOUS

(* What is in the cells stays there when a cell is added,                    *)
LEMMA CellIs ==
  ASSUME NEW m \in Nat, NEW n \in Nat, NEW t \in Nat
  PROVE  /\ Cell(Number(m), Reference(n), t) \in HostCells
         /\ Cell(Reference(m), Reference(n), t) \in HostCells
         /\ Cell(Number(m), Reference(n), t).car = Number(m)
         /\ Cell(Number(m), Reference(n), t).cdr = Reference(n)
         /\ Cell(Reference(m), Reference(n), t).car = Reference(m)
         /\ Cell(Reference(m), Reference(n), t).cdr = Reference(n)
         /\ Number(m).value = m /\ Reference(m).value = m
         /\ Number(m).type = "number" /\ IsCons(Reference(m)) /\ ~IsCons(Number(m))
BY DEF Cell, Number, Reference, IsCons, HostCells, Slots

LEMMA AppendIs ==
  ASSUME NEW r \in Seq(HostCells), NEW c \in HostCells
  PROVE  /\ Append(r, c) \in Seq(HostCells) /\ Len(r) \in Nat
         /\ Len(Append(r, c)) = Len(r) + 1 /\ Append(r, c)[Len(r) + 1] = c
         /\ \A i \in 1 .. Len(r) : Append(r, c)[i] = r[i]
OBVIOUS

LEMMA AppendedIs ==
  ASSUME NEW r \in Seq(HostCells), NEW c \in HostCells, NEW w, w = Append(r, c)
  PROVE  /\ w \in Seq(HostCells) /\ Len(r) \in Nat /\ Len(w) = Len(r) + 1 /\ w[Len(r) + 1] = c
         /\ \A i \in 1 .. Len(r) : w[i] = r[i]
BY AppendIs

LEMMA FrontIs ==
  ASSUME NEW S, NEW x \in S, NEW s \in Seq(S)
  PROVE  /\ <<x>> \o s \in Seq(S) /\ Len(<<x>> \o s) = Len(s) + 1 /\ Len(s) \in Nat
         /\ (<<x>> \o s)[1] = x /\ \A k \in 2 .. Len(s) + 1 : (<<x>> \o s)[k] = s[k - 1]
OBVIOUS

LEMMA TextStays ==
  ASSUME NEW r \in Seq(HostCells), NEW w \in Seq(HostCells), NEW i, NEW s \in Seq(Nat),
         Len(w) >= Len(r), TextAt(r, i, s),
         \A k \in 4 .. Len(r) : ~IsCons(r[k].car) => w[k] = r[k]
  PROVE  TextAt(w, i, s)
<1>1. PICK p : /\ p[1] = i /\ p[Len(s) + 1] = NullCell
               /\ \A k \in 1 .. Len(s) :
                    /\ p[k] \in 4 .. Len(r)
                    /\ r[p[k]] = Cell(Number(s[k]), Reference(p[k + 1]), PairType)
  BY DEF TextAt
<1>2. ASSUME NEW k \in 1 .. Len(s)
      PROVE  /\ p[k] \in 4 .. Len(w)
             /\ w[p[k]] = Cell(Number(s[k]), Reference(p[k + 1]), PairType)
  <2>1. p[k] \in 4 .. Len(r) /\ r[p[k]] = Cell(Number(s[k]), Reference(p[k + 1]), PairType)
    BY <1>1
  <2>2. ~IsCons(r[p[k]].car)
    BY <2>1 DEF Number, IsCons, Cell
  <2>3. Len(r) \in Nat /\ Len(w) \in Nat
    OBVIOUS
  <2>4. w[p[k]] = r[p[k]]
    BY <2>1, <2>2
  <2>. QED BY <2>1, <2>3, <2>4
<1>. QED BY <1>1, <1>2 DEF TextAt

LEMMA TextGrows ==
  ASSUME NEW r \in Seq(HostCells), NEW i \in 1 .. Len(r), NEW s \in Seq(Nat), NEW c \in Nat,
         Len(r) >= 3, TextAt(r, i, s)
  PROVE  TextAt(Append(r, Cell(Number(c), Reference(i), PairType)), Len(r) + 1, <<c>> \o s)
<1>. DEFINE w == Append(r, Cell(Number(c), Reference(i), PairType))
            v == <<c>> \o s
<1>1. PICK p : /\ p[1] = i /\ p[Len(s) + 1] = NullCell
               /\ \A k \in 1 .. Len(s) :
                    /\ p[k] \in 4 .. Len(r)
                    /\ r[p[k]] = Cell(Number(s[k]), Reference(p[k + 1]), PairType)
  BY DEF TextAt
<1>2. /\ w \in Seq(HostCells) /\ Len(w) = Len(r) + 1 /\ Len(r) \in Nat
      /\ w[Len(r) + 1] = Cell(Number(c), Reference(i), PairType)
      /\ \A k \in 1 .. Len(r) : w[k] = r[k]
  <2>1. Cell(Number(c), Reference(i), PairType) \in HostCells
    <3>1. i \in Nat /\ PairType \in Nat
      BY DEF PairType
    <3>. QED BY <3>1, CellIs
  <2>. QED BY <2>1, AppendIs
<1>3. /\ v \in Seq(Nat) /\ Len(v) = Len(s) + 1 /\ v[1] = c /\ Len(s) \in Nat
      /\ \A k \in 2 .. Len(s) + 1 : v[k] = s[k - 1]
  OBVIOUS
<1>. DEFINE q == [k \in 1 .. Len(s) + 2 |-> IF k = 1 THEN Len(r) + 1 ELSE p[k - 1]]
<1>4. q[1] = Len(r) + 1 /\ q[2] = i /\ q[Len(v) + 1] = NullCell
  BY <1>1, <1>3
<1>. HIDE DEF w, v
<1>5. ASSUME NEW k \in 1 .. Len(v)
      PROVE  /\ q[k] \in 4 .. Len(w)
             /\ w[q[k]] = Cell(Number(v[k]), Reference(q[k + 1]), PairType)
  <2>1. CASE k = 1
    <3>1. q[k] = Len(r) + 1 /\ q[k + 1] = i /\ v[k] = c
      BY <2>1, <1>3, <1>4
    <3>. HIDE DEF q
    <3>. QED BY <3>1, <1>2
  <2>2. CASE k # 1
    <3>1. k - 1 \in 1 .. Len(s) /\ k + 1 \in 1 .. Len(s) + 2 /\ k + 1 # 1
          /\ k \in 2 .. Len(s) + 1 /\ k \in 1 .. Len(s) + 2 /\ (k - 1) + 1 = (k + 1) - 1
      <4>1. PICK m : m = Len(s)
        OBVIOUS
      <4>2. m \in Nat /\ k \in 2 .. m + 1
        BY <2>2, <1>3, <4>1, LenProperties
      <4>. QED BY <4>1, <4>2, Shifted
    <3>2. q[k] = p[k - 1] /\ q[k + 1] = p[(k - 1) + 1] /\ v[k] = s[k - 1]
      BY <2>2, <3>1, <1>3
    <3>. HIDE DEF q
    <3>3. /\ p[k - 1] \in 4 .. Len(r)
          /\ r[p[k - 1]] = Cell(Number(s[k - 1]), Reference(p[(k - 1) + 1]), PairType)
      BY <1>1, <3>1
    <3>4. w[p[k - 1]] = r[p[k - 1]] /\ p[k - 1] \in 4 .. Len(w)
      BY <3>3, <1>2
    <3>. QED BY <3>2, <3>3, <3>4
  <2>. QED BY <2>1, <2>2
<1>. HIDE DEF q
<1>6. TextAt(w, Len(r) + 1, v)
  BY <1>4, <1>5 DEF TextAt
<1>. QED BY <1>6 DEF w, v

LEMMA EmptyText ==
  ASSUME NEW r PROVE TextAt(r, NullCell, <<>>)
<1>. DEFINE p == [k \in {1} |-> NullCell]
<1>1. p[1] = NullCell /\ p[Len(<<>>) + 1] = NullCell /\ 1 .. Len(<<>>) = {}
  OBVIOUS
<1>. HIDE DEF p
<1>. QED BY <1>1 DEF TextAt

(* ... and so do lists of strings and of variables. They grow at their front. *)
LEMMA StringsStay ==
  ASSUME NEW r \in Seq(HostCells), NEW w \in Seq(HostCells), NEW i, NEW s \in Seq(Seq(Nat)),
         Len(w) >= Len(r), StringsAt(r, i, s), \A k \in 4 .. Len(r) : w[k] = r[k]
  PROVE  StringsAt(w, i, s)
<1>1. PICK q : /\ q[1] = i /\ q[Len(s) + 1] = NullCell
               /\ \A k \in 1 .. Len(s) :
                    /\ q[k] \in 4 .. Len(r) /\ r[q[k]].cdr = Reference(q[k + 1])
                    /\ TextAt(r, r[q[k]].car.value, s[k])
  BY DEF StringsAt
<1>2. ASSUME NEW k \in 1 .. Len(s)
      PROVE  /\ q[k] \in 4 .. Len(w) /\ w[q[k]].cdr = Reference(q[k + 1])
             /\ TextAt(w, w[q[k]].car.value, s[k])
  <2>1. /\ q[k] \in 4 .. Len(r) /\ r[q[k]].cdr = Reference(q[k + 1])
        /\ TextAt(r, r[q[k]].car.value, s[k])
    BY <1>1
  <2>2. Len(r) \in Nat /\ Len(w) \in Nat /\ s[k] \in Seq(Nat) /\ w[q[k]] = r[q[k]]
    BY <2>1
  <2>3. TextAt(w, r[q[k]].car.value, s[k])
    BY <2>1, <2>2, TextStays
  <2>. QED BY <2>1, <2>2, <2>3
<1>. QED BY <1>1, <1>2 DEF StringsAt

LEMMA StringsGrow ==
  ASSUME NEW w \in Seq(HostCells), NEW n \in 4 .. Len(w), NEW i, NEW s \in Seq(Seq(Nat)),
         NEW t \in Seq(Nat), StringsAt(w, i, s), w[n].cdr = Reference(i),
         TextAt(w, w[n].car.value, t)
  PROVE  StringsAt(w, n, <<t>> \o s)
<1>1. PICK p : /\ p[1] = i /\ p[Len(s) + 1] = NullCell
               /\ \A k \in 1 .. Len(s) :
                    /\ p[k] \in 4 .. Len(w) /\ w[p[k]].cdr = Reference(p[k + 1])
                    /\ TextAt(w, w[p[k]].car.value, s[k])
  BY DEF StringsAt
<1>. DEFINE v == <<t>> \o s
<1>2. /\ Len(v) = Len(s) + 1 /\ v[1] = t /\ Len(s) \in Nat
      /\ \A k \in 2 .. Len(s) + 1 : v[k] = s[k - 1]
  BY FrontIs
<1>. DEFINE q == [k \in 1 .. Len(s) + 2 |-> IF k = 1 THEN n ELSE p[k - 1]]
<1>3. q[1] = n /\ q[2] = i /\ q[Len(v) + 1] = NullCell
  BY <1>1, <1>2
<1>. HIDE DEF v
<1>4. ASSUME NEW k \in 1 .. Len(v)
      PROVE  /\ q[k] \in 4 .. Len(w) /\ w[q[k]].cdr = Reference(q[k + 1])
             /\ TextAt(w, w[q[k]].car.value, v[k])
  <2>1. CASE k = 1
    <3>1. q[k] = n /\ q[k + 1] = i /\ v[k] = t
      BY <2>1, <1>2, <1>3
    <3>. HIDE DEF q
    <3>. QED BY <3>1
  <2>2. CASE k # 1
    <3>1. k - 1 \in 1 .. Len(s) /\ k + 1 \in 1 .. Len(s) + 2 /\ k + 1 # 1
          /\ k \in 2 .. Len(s) + 1 /\ k \in 1 .. Len(s) + 2 /\ (k - 1) + 1 = (k + 1) - 1
      <4>1. PICK m : m = Len(s)
        OBVIOUS
      <4>2. m \in Nat /\ k \in 2 .. m + 1
        BY <2>2, <1>2, <4>1, LenProperties
      <4>. QED BY <4>1, <4>2, Shifted
    <3>2. q[k] = p[k - 1] /\ q[k + 1] = p[(k - 1) + 1] /\ v[k] = s[k - 1]
      BY <2>2, <3>1, <1>2
    <3>. HIDE DEF q
    <3>. QED BY <3>1, <3>2, <1>1
  <2>. QED BY <2>1, <2>2
<1>. HIDE DEF q
<1>5. StringsAt(w, n, v)
  BY <1>3, <1>4 DEF StringsAt
<1>. QED BY <1>5 DEF v

LEMMA Between ==
  ASSUME NEW i \in Nat, NEW m \in Nat, NEW n \in Nat, i <= m, m <= n, NEW a \in 5 .. i
  PROVE  i <= n /\ a \in 4 .. i /\ a - 1 \in 4 .. i /\ a <= m /\ a - 1 <= m
OBVIOUS

LEMMA VariablesStay ==
  ASSUME NEW r \in Seq(HostCells), NEW w \in Seq(HostCells), NEW i \in Nat,
         NEW s \in Seq(Seq(Nat) \X Seq(Nat)),
         Len(w) >= Len(r), VariablesAt(r, i, s), \A k \in 4 .. i : k <= Len(r) => w[k] = r[k],
         \A k \in 4 .. Len(r) : ~IsCons(r[k].car) => w[k] = r[k]
  PROVE  VariablesAt(w, i, s)
<1>1. PICK q : /\ q[1] = i /\ q[Len(s) + 1] = NullCell
               /\ \A k \in 1 .. Len(s) :
                    /\ q[k] \in 5 .. i /\ i <= Len(r)
                    /\ r[q[k]] = Cell(Reference(q[k] - 1), Reference(q[k + 1]), PairType)
                    /\ VariableAt(r, q[k] - 1, s[k])
  BY DEF VariablesAt
<1>2. ASSUME NEW k \in 1 .. Len(s)
      PROVE  /\ q[k] \in 5 .. i /\ i <= Len(w)
             /\ w[q[k]] = Cell(Reference(q[k] - 1), Reference(q[k + 1]), PairType)
             /\ VariableAt(w, q[k] - 1, s[k])
  <2>1. /\ q[k] \in 5 .. i /\ i <= Len(r)
        /\ r[q[k]] = Cell(Reference(q[k] - 1), Reference(q[k + 1]), PairType)
        /\ VariableAt(r, q[k] - 1, s[k])
    BY <1>1
  <2>2. Len(r) \in Nat /\ Len(w) \in Nat /\ s[k] \in Seq(Nat) \X Seq(Nat)
    OBVIOUS
  <2>3. i <= Len(w) /\ q[k] \in 4 .. i /\ q[k] - 1 \in 4 .. i /\ q[k] <= Len(r) /\ q[k] - 1 <= Len(r)
    <3>1. q[k] \in 5 .. i /\ i <= Len(r) /\ Len(r) <= Len(w) /\ Len(r) \in Nat /\ Len(w) \in Nat
      BY <2>1, <2>2
    <3>. QED BY <3>1, Between
  <2>4. w[q[k]] = r[q[k]] /\ w[q[k] - 1] = r[q[k] - 1]
    BY <2>3
  <2>5. VariableAt(w, q[k] - 1, s[k])
    <3>1. s[k][1] \in Seq(Nat) /\ s[k][2] \in Seq(Nat)
      BY <2>2
    <3>. QED BY <2>1, <2>4, <3>1, TextStays DEF VariableAt
  <2>. QED BY <2>1, <2>3, <2>4, <2>5
<1>. QED BY <1>1, <1>2 DEF VariablesAt

LEMMA VariablesGrow ==
  ASSUME NEW w \in Seq(HostCells), NEW n \in 5 .. Len(w), NEW i \in 0 .. n - 2,
         NEW s \in Seq(Seq(Nat) \X Seq(Nat)), NEW v \in Seq(Nat) \X Seq(Nat),
         VariablesAt(w, i, s), w[n] = Cell(Reference(n - 1), Reference(i), PairType),
         VariableAt(w, n - 1, v)
  PROVE  VariablesAt(w, n, <<v>> \o s)
<1>1. PICK p : /\ p[1] = i /\ p[Len(s) + 1] = NullCell
               /\ \A k \in 1 .. Len(s) :
                    /\ p[k] \in 5 .. i /\ i <= Len(w)
                    /\ w[p[k]] = Cell(Reference(p[k] - 1), Reference(p[k + 1]), PairType)
                    /\ VariableAt(w, p[k] - 1, s[k])
  BY DEF VariablesAt
<1>. DEFINE u == <<v>> \o s
<1>2. /\ Len(u) = Len(s) + 1 /\ u[1] = v /\ Len(s) \in Nat
      /\ \A k \in 2 .. Len(s) + 1 : u[k] = s[k - 1]
  BY FrontIs
<1>. DEFINE q == [k \in 1 .. Len(s) + 2 |-> IF k = 1 THEN n ELSE p[k - 1]]
<1>3. q[1] = n /\ q[2] = i /\ q[Len(u) + 1] = NullCell
  BY <1>1, <1>2
<1>. HIDE DEF u
<1>4. ASSUME NEW k \in 1 .. Len(u)
      PROVE  /\ q[k] \in 5 .. n /\ n <= Len(w)
             /\ w[q[k]] = Cell(Reference(q[k] - 1), Reference(q[k + 1]), PairType)
             /\ VariableAt(w, q[k] - 1, u[k])
  <2>0. Len(w) \in Nat /\ n <= Len(w) /\ n \in 5 .. n
    OBVIOUS
  <2>1. CASE k = 1
    <3>1. q[k] = n /\ q[k + 1] = i /\ u[k] = v
      BY <2>1, <1>2, <1>3
    <3>. HIDE DEF q
    <3>. QED BY <3>1, <2>0
  <2>2. CASE k # 1
    <3>1. k - 1 \in 1 .. Len(s) /\ k + 1 \in 1 .. Len(s) + 2 /\ k + 1 # 1
          /\ k \in 2 .. Len(s) + 1 /\ k \in 1 .. Len(s) + 2 /\ (k - 1) + 1 = (k + 1) - 1
      <4>1. PICK m : m = Len(s)
        OBVIOUS
      <4>2. m \in Nat /\ k \in 2 .. m + 1
        BY <2>2, <1>2, <4>1, LenProperties
      <4>. QED BY <4>1, <4>2, Shifted
    <3>2. q[k] = p[k - 1] /\ q[k + 1] = p[(k - 1) + 1] /\ u[k] = s[k - 1]
      BY <2>2, <3>1, <1>2
    <3>. HIDE DEF q
    <3>3. /\ p[k - 1] \in 5 .. i
          /\ w[p[k - 1]] = Cell(Reference(p[k - 1] - 1), Reference(p[(k - 1) + 1]), PairType)
          /\ VariableAt(w, p[k - 1] - 1, s[k - 1])
      BY <3>1, <1>1
    <3>4. p[k - 1] \in 5 .. n
      BY <3>3
    <3>. QED BY <3>2, <3>3, <3>4, <2>0
  <2>. QED BY <2>1, <2>2
<1>. HIDE DEF q
<1>5. VariablesAt(w, n, u)
  BY <1>3, <1>4 DEF VariablesAt
<1>. QED BY <1>5 DEF u

-----------------------------------------------------------------------------
(* The next character of the text in hand.                                   *)
LEMMA LastMoves ==
  ASSUME NEW x \in Seq(Nat), x # <<>>, NEW t \in Seq(Nat)
  PROVE  /\ Last(x) \in Nat /\ Front(x) \in Seq(Nat)
         /\ x \o t = Front(x) \o (<<Last(x)>> \o t)
         /\ <<Last(x)>> \o t \in Seq(Nat)
<1>1. Len(x) \in Nat \ {0} /\ Last(x) \in Nat
  BY DEF Last
<1>. DEFINE l == Last(x)
            f == Front(x)
<1>2. f \in Seq(Nat) /\ Len(f) = Len(x) - 1 /\ \A k \in 1 .. Len(x) - 1 : f[k] = x[k]
  <2>. DEFINE n == Len(x) - 1
  <2>1. n \in Nat /\ \A k \in 1 .. n : x[k] \in Nat
    BY <1>1
  <2>2. f = SubSeq(x, 1, n)
    BY DEF Front
  <2>. HIDE DEF n, f
  <2>3. /\ SubSeq(x, 1, n) \in Seq(Nat)
        /\ Len(SubSeq(x, 1, n)) = IF 1 <= n THEN n - 1 + 1 ELSE 0
        /\ \A k \in 1 .. n - 1 + 1 : SubSeq(x, 1, n)[k] = x[1 + k - 1]
    BY <2>1, SubSeqProperties
  <2>4. n - 1 + 1 = n /\ \A k \in 1 .. n : 1 + k - 1 = k
    BY <2>1
  <2>. QED BY <2>1, <2>2, <2>3, <2>4 DEF n
<1>3. x[Len(x)] = l
  BY DEF Last
<1>. HIDE DEF f, l
<1>4. x = f \o <<l>>
  <2>1. l \in Nat /\ <<l>> \in Seq(Nat) /\ Len(<<l>>) = 1 /\ <<l>>[1] = l
    BY <1>1 DEF l
  <2>2. /\ f \o <<l>> \in Seq(Nat) /\ Len(f \o <<l>>) = Len(x)
        /\ \A i \in 1 .. Len(x) : (f \o <<l>>)[i] = IF i <= Len(f) THEN f[i] ELSE <<l>>[i - Len(f)]
    BY <2>1, <1>1, <1>2, ConcatProperties
  <2>3. ASSUME NEW i \in 1 .. Len(x)  PROVE (f \o <<l>>)[i] = x[i]
    <3>1. CASE i <= Len(x) - 1
      BY <3>1, <2>2, <1>1, <1>2
    <3>2. CASE i = Len(x)
      BY <3>2, <2>1, <2>2, <1>1, <1>2, <1>3
    <3>3. i <= Len(x) - 1 \/ i = Len(x)
      <4>. DEFINE n == Len(x)
      <4>1. n \in Nat \ {0} /\ i \in 1 .. n
        BY <1>1
      <4>. HIDE DEF n
      <4>2. i <= n - 1 \/ i = n
        BY <4>1
      <4>. QED BY <4>2 DEF n
    <3>. QED BY <3>1, <3>2, <3>3
  <2>. QED BY <2>2, <2>3, SeqEqual
<1>5. l \in Nat /\ <<l>> \in Seq(Nat)
  BY <1>1 DEF l
<1>6. x \o t = f \o (<<l>> \o t)
  BY <1>2, <1>4, <1>5, ConcatAssociative
<1>7. <<l>> \o t \in Seq(Nat)
  BY <1>5, FrontIs
<1>. QED BY <1>2, <1>5, <1>6, <1>7 DEF f, l

LEMMA TextInHandGrows ==
  ASSUME NEW r \in Seq(HostCells), Len(r) >= 3, NEW i \in 1 .. Len(r), NEW x, x # <<>>, NEW s,
         TextInHand(r, i, x, s)
  PROVE  TextInHand(Append(r, Cell(Number(Last(x)), Reference(i), PairType)), Len(r) + 1, Front(x), s)
<1>1. PICK t \in Seq(Nat) : x \in Seq(Nat) /\ s = x \o t /\ TextAt(r, i, t)
  BY DEF TextInHand
<1>2. /\ Last(x) \in Nat /\ Front(x) \in Seq(Nat) /\ s = Front(x) \o (<<Last(x)>> \o t)
      /\ <<Last(x)>> \o t \in Seq(Nat)
  BY <1>1, LastMoves
<1>3. TextAt(Append(r, Cell(Number(Last(x)), Reference(i), PairType)), Len(r) + 1, <<Last(x)>> \o t)
  BY <1>1, <1>2, TextGrows
<1>. QED BY <1>2, <1>3 DEF TextInHand

LEMMA TextInHandStarts ==
  ASSUME NEW r, NEW s \in Seq(Nat)  PROVE TextInHand(r, NullCell, s, s)
<1>1. s = s \o <<>> /\ <<>> \in Seq(Nat)
  OBVIOUS
<1>. QED BY <1>1, EmptyText DEF TextInHand

LEMMA TextInHandEnds ==
  ASSUME NEW r, NEW i, NEW s, TextInHand(r, i, <<>>, s)
  PROVE  s \in Seq(Nat) /\ TextAt(r, i, s)
<1>1. PICK t \in Seq(Nat) : s = <<>> \o t /\ TextAt(r, i, t)
  BY DEF TextInHand
<1>2. s = t
  BY <1>1
<1>. QED BY <1>1, <1>2

LEMMA TextInHandIs ==
  ASSUME NEW r, NEW i, NEW x, NEW s, TextInHand(r, i, x, s)
  PROVE  x \in Seq(Nat) /\ s \in Seq(Nat)
BY DEF TextInHand

(* The cells stay free of cycles.                                           *)
LEMMA AcyclicIs ==
  ASSUME NEW r, NEW E, Acyclic(r, E)
  PROVE  /\ r \in Seq(HostCells) /\ Len(r) \in Nat /\ Len(r) >= 3 /\ E \subseteq 4 .. Len(r)
         /\ \A i \in 1 .. Len(r) : r[i] \in HostCells
BY DEF Acyclic

LEMMA AcyclicGrowsBoth ==
  ASSUME NEW r, NEW E, Acyclic(r, E), NEW c \in HostCells, c.cdr.value \in (1 .. Len(r)) \ E,
         NEW w, w = Append(r, c)
  PROVE  /\ Acyclic(w, E) /\ Acyclic(w, E \cup {Len(r) + 1})
         /\ w \in Seq(HostCells) /\ Len(w) = Len(r) + 1 /\ Len(r) \in Nat
         /\ w[Len(r) + 1] = c /\ (\A i \in 1 .. Len(r) : w[i] = r[i])
         /\ Len(r) >= 3 /\ Len(r) + 1 \in 4 .. Len(r) + 1
<1>1. r \in Seq(HostCells) /\ Len(r) >= 3 /\ E \subseteq 4 .. Len(r)
  BY DEF Acyclic
<1>. DEFINE n == Len(r)
<1>2. /\ w \in Seq(HostCells) /\ n \in Nat /\ Len(w) = n + 1 /\ w[n + 1] = c
      /\ \A i \in 1 .. n : w[i] = r[i]
  BY <1>1, AppendIs
<1>3. n >= 3 /\ E \subseteq 4 .. n /\ c.cdr.value \in (1 .. n) \ E
  BY <1>1
<1>4. /\ r[2].cdr = Reference(TrueCell) /\ r[3].cdr = Reference(NullCell)
      /\ \A i \in 4 .. n :
           r[i].cdr.value \in (1 .. n) \ E /\ (i \notin E => r[i].cdr.value < i)
  BY DEF Acyclic, FalseCell, TrueCell
<1>. HIDE DEF n
<1>5. w[2].cdr = Reference(TrueCell) /\ w[3].cdr = Reference(NullCell)
  <2>1. 2 \in 1 .. n /\ 3 \in 1 .. n
    BY <1>2, <1>3
  <2>. QED BY <2>1, <1>2, <1>4
<1>6. ASSUME NEW i \in 4 .. n + 1
      PROVE  /\ w[i].cdr.value \in (1 .. n) \ E
             /\ i \notin E => w[i].cdr.value < i
  <2>1. CASE i = n + 1
    BY <2>1, <1>2, <1>3
  <2>2. CASE i # n + 1
    <3>1. i \in 4 .. n /\ i \in 1 .. n
      BY <2>2, <1>2
    <3>. QED BY <3>1, <1>2, <1>4
  <2>. QED BY <2>1, <2>2
<1>7. (1 .. n) \ E \subseteq (1 .. n + 1) \ (E \cup {n + 1})
  BY <1>2
<1>8. E \cup {n + 1} \subseteq 4 .. n + 1 /\ Len(w) >= 3
  BY <1>2, <1>3
<1>9. Acyclic(w, E)
  BY <1>2, <1>5, <1>6, <1>7, <1>8 DEF Acyclic, FalseCell, TrueCell
<1>10. Acyclic(w, E \cup {n + 1})
  BY <1>2, <1>5, <1>6, <1>7, <1>8 DEF Acyclic, FalseCell, TrueCell
<1>. QED BY <1>2, <1>3, <1>9, <1>10 DEF n

LEMMA AcyclicGrows ==
  ASSUME NEW r, NEW E, Acyclic(r, E), NEW c \in HostCells, c.cdr.value \in (1 .. Len(r)) \ E,
         NEW w, w = Append(r, c)
  PROVE  Acyclic(w, E)
BY AcyclicGrowsBoth

LEMMA AcyclicGrowsEntry ==
  ASSUME NEW r, NEW E, Acyclic(r, E), NEW c \in HostCells, c.cdr.value \in (1 .. Len(r)) \ E,
         NEW w, w = Append(r, c)
  PROVE  Acyclic(w, E \cup {Len(r) + 1})
BY AcyclicGrowsBoth

LEMMA AcyclicSet ==
  ASSUME NEW r, NEW E, Acyclic(r, E), NEW k \in E, NEW c \in HostCells,
         c.cdr.value \in (1 .. Len(r)) \ E
  PROVE  /\ Acyclic([r EXCEPT ![k] = c], E) /\ [r EXCEPT ![k] = c] \in Seq(HostCells)
         /\ Len([r EXCEPT ![k] = c]) = Len(r) /\ Len(r) \in Nat /\ [r EXCEPT ![k] = c][k] = c
         /\ \A i \in 1 .. Len(r) : i # k => [r EXCEPT ![k] = c][i] = r[i]
<1>. DEFINE w == [r EXCEPT ![k] = c]
<1>1. r \in Seq(HostCells) /\ Len(r) >= 3 /\ E \subseteq 4 .. Len(r) /\ Len(r) \in Nat
  BY DEF Acyclic
<1>2. k \in 4 .. Len(r) /\ k \in 1 .. Len(r)
  BY <1>1
<1>3. /\ w \in Seq(HostCells) /\ Len(w) = Len(r) /\ w[k] = c
      /\ \A i \in 1 .. Len(r) : i # k => w[i] = r[i]
  BY <1>1, <1>2
<1>. HIDE DEF w
<1>4. w[2].cdr = r[2].cdr /\ w[3].cdr = r[3].cdr
  <2>1. 2 \in 1 .. Len(r) /\ 3 \in 1 .. Len(r) /\ k # 2 /\ k # 3
    BY <1>1, <1>2
  <2>. QED BY <2>1, <1>3
<1>5. ASSUME NEW i \in 4 .. Len(r)
      PROVE  /\ w[i].cdr.value \in (1 .. Len(r)) \ E
             /\ i \notin E => w[i].cdr.value < i
  <2>1. i \in 1 .. Len(r)
    BY <1>1
  <2>. QED BY <2>1, <1>3 DEF Acyclic
<1>6. Acyclic(w, E)
  BY <1>1, <1>3, <1>4, <1>5 DEF Acyclic, FalseCell, TrueCell
<1>. QED BY <1>1, <1>3, <1>6 DEF w

-----------------------------------------------------------------------------
(* What is listed of what is given, one more at a time.                      *)
LEMMA SomeOnes ==
  ASSUME NEW S, NEW s \in Seq(S), NEW n \in 0 .. Len(s)
  PROVE  LastOnes(s, n) \in Seq(S) /\ FirstOnesReversed(s, n) \in Seq(S)
         /\ Len(LastOnes(s, n)) = n /\ Len(FirstOnesReversed(s, n)) = n /\ n \in Nat
<1>1. n \in Nat /\ Len(s) \in Nat
  OBVIOUS
<1>2. \A k \in 1 .. n : s[Len(s) - n + k] \in S /\ s[n + 1 - k] \in S
  <2>1. ASSUME NEW k \in 1 .. n  PROVE Len(s) - n + k \in 1 .. Len(s) /\ n + 1 - k \in 1 .. Len(s)
    BY <1>1
  <2>. QED BY <2>1
<1>. DEFINE a == LastOnes(s, n)
            b == FirstOnesReversed(s, n)
<1>3. a \in [1 .. n -> S] /\ b \in [1 .. n -> S]
  BY <1>2 DEF LastOnes, FirstOnesReversed
<1>. HIDE DEF a, b
<1>4. a \in Seq(S) /\ b \in Seq(S) /\ Len(a) = n /\ Len(b) = n
  BY <1>1, <1>3
<1>. QED BY <1>1, <1>4 DEF a, b

LEMMA OneMore ==
  ASSUME NEW S, NEW s \in Seq(S), NEW n \in 0 .. Len(s) - 1
  PROVE  /\ s[n + 1] \in S /\ s[Len(s) - n] \in S /\ n + 1 \in 0 .. Len(s)
         /\ LastOnes(s, n + 1) = <<s[Len(s) - n]>> \o LastOnes(s, n)
         /\ FirstOnesReversed(s, n + 1) = <<s[n + 1]>> \o FirstOnesReversed(s, n)
<1>1. n \in Nat /\ Len(s) \in Nat /\ n \in 0 .. Len(s) /\ n + 1 \in 0 .. Len(s)
      /\ n + 1 \in 1 .. Len(s) /\ Len(s) - n \in 1 .. Len(s)
  OBVIOUS
<1>2. s[n + 1] \in S /\ s[Len(s) - n] \in S
  BY <1>1
<1>. DEFINE a == LastOnes(s, n)
            b == FirstOnesReversed(s, n)
<1>3. a \in Seq(S) /\ b \in Seq(S) /\ Len(a) = n /\ Len(b) = n
  BY <1>1, SomeOnes
<1>4. ASSUME NEW k \in 1 .. n + 1, k # 1
      PROVE  /\ a[k - 1] = s[Len(s) - (n + 1) + k] /\ b[k - 1] = s[(n + 1) + 1 - k]
  <2>1. /\ k - 1 \in 1 .. n /\ Len(s) - n + (k - 1) = Len(s) - (n + 1) + k
        /\ n + 1 - (k - 1) = (n + 1) + 1 - k
    BY <1>1, <1>4
  <2>. QED BY <2>1 DEF LastOnes, FirstOnesReversed
<1>5. Len(s) - (n + 1) + 1 = Len(s) - n /\ (n + 1) + 1 - 1 = n + 1
  BY <1>1
<1>. HIDE DEF a, b
<1>6. <<s[Len(s) - n]>> \o a = [k \in 1 .. n + 1 |-> IF k = 1 THEN s[Len(s) - n] ELSE a[k - 1]]
  BY <1>1, <1>2, <1>3, ConsIs
<1>7. <<s[n + 1]>> \o b = [k \in 1 .. n + 1 |-> IF k = 1 THEN s[n + 1] ELSE b[k - 1]]
  BY <1>1, <1>2, <1>3, ConsIs
<1>8. LastOnes(s, n + 1) = <<s[Len(s) - n]>> \o a
  BY <1>4, <1>5, <1>6 DEF LastOnes
<1>9. FirstOnesReversed(s, n + 1) = <<s[n + 1]>> \o b
  BY <1>4, <1>5, <1>7 DEF FirstOnesReversed
<1>. QED BY <1>1, <1>2, <1>8, <1>9 DEF a, b

-----------------------------------------------------------------------------
(* The invariant holds at the start, and each step keeps it.                 *)
LEMMA HostStarts == HostInit => HostInv
<1>. SUFFICES ASSUME HostInit  PROVE HostInv
  OBVIOUS
<1>1. /\ ribs \in Seq(HostCells) /\ Len(ribs) = 3
      /\ ribs[2].cdr = Reference(3) /\ ribs[3].cdr = Reference(1)
  <2>. DEFINE a == Cell(Number(0), Reference(NullCell), NullType)
              b == Cell(Reference(NullCell), Reference(TrueCell), BooleanType)
              c == Cell(Number(0), Reference(NullCell), BooleanType)
  <2>1. a \in HostCells /\ b \in HostCells /\ c \in HostCells
        /\ b.cdr = Reference(3) /\ c.cdr = Reference(1)
    BY CellIs DEF NullCell, TrueCell, NullType, BooleanType
  <2>2. ribs = <<a, b, c>>
    BY DEF HostInit
  <2>. HIDE DEF a, b, c
  <2>. QED BY <2>1, <2>2
<1>2. Acyclic(ribs, {})
  BY <1>1 DEF Acyclic, FalseCell, TrueCell, NullCell
<1>3. routine = "idle" /\ phase = "idle"
  BY DEF HostInit
<1>4. HostShape
  BY <1>2, <1>3 DEF HostShape
<1>. QED BY <1>3, <1>4 DEF HostInv

LEMMA DoneIs ==
  ASSUME NEW S, NEW T, NEW g \in Seq(S), NEW t \in Seq(T), Len(t) <= Len(g)
  PROVE  Len(g) - Len(t) \in 0 .. Len(g)
OBVIOUS

LEMMA AddCharacterKeeps == HostInv /\ AddCharacter => HostInv'
<1>. SUFFICES ASSUME HostInv, AddCharacter  PROVE HostInv'
  OBVIOUS
<1>1. PICK E : /\ Acyclic(ribs, E)
               /\ routine \in {"command-line", "environment"} => root \in (1 .. Len(ribs)) \ E
               /\ phase = "string" => list \in (1 .. Len(ribs)) \ E
               /\ phase = "link" => list \in E
               /\ phase = "string" /\ routine = "environment" => root - 1 \in E
  BY DEF HostInv, HostShape
<1>. DEFINE c == Cell(Number(Last(text)), Reference(list), PairType)
<1>2. /\ phase = "string" /\ text # <<>> /\ ribs' = Append(ribs, c)
      /\ list' = Len(ribs) + 1 /\ text' = Front(text)
      /\ UNCHANGED <<root, routine, given, todo, phase, answer>>
  BY DEF AddCharacter, Allocates, New
<1>3. \E s : Building(s)
  BY <1>2 DEF HostInv, Calls, ListsArguments, ListsVariables, FillsEntry
<1>4. text \in Seq(Nat) /\ Last(text) \in Nat
  <2>1. text \in Seq(Nat)
    BY <1>3, TextInHandIs DEF Building
  <2>2. \E t \in Seq(Nat) : TRUE
    BY <2>1
  <2>. QED BY <2>1, <2>2, <1>2, LastMoves
<1>5. c \in HostCells /\ c.cdr.value = list /\ list \in (1 .. Len(ribs)) \ E
  <2>1. list \in (1 .. Len(ribs)) \ E /\ list \in Nat /\ PairType \in Nat
    BY <1>1, <1>2 DEF PairType
  <2>2. PICK m \in Nat, t \in Nat : m = Last(text) /\ t = PairType
    BY <2>1, <1>4
  <2>3. c = Cell(Number(m), Reference(list), t)
    BY <2>2
  <2>4. c \in HostCells /\ c.cdr = Reference(list) /\ Reference(list).value = list
    <3>. HIDE DEF c
    <3>. QED BY SMTT(30), <2>1, <2>3, CellIs
  <2>. HIDE DEF c
  <2>. QED BY <2>1, <2>4
<1>. HIDE DEF c
<1>6. /\ Acyclic(ribs', E) /\ ribs' \in Seq(HostCells) /\ Len(ribs') = Len(ribs) + 1
      /\ Len(ribs) \in Nat /\ \A i \in 1 .. Len(ribs) : ribs'[i] = ribs[i]
      /\ Len(ribs) >= 3 /\ ribs \in Seq(HostCells) /\ E \subseteq 4 .. Len(ribs)
  <2>1. Acyclic(ribs, E) /\ c \in HostCells /\ c.cdr.value \in (1 .. Len(ribs)) \ E /\ ribs' = Append(ribs, c)
    BY <1>1, <1>2, <1>5
  <2>2. ribs \in Seq(HostCells) /\ Len(ribs) \in Nat /\ Len(ribs) >= 3 /\ E \subseteq 4 .. Len(ribs)
    BY <2>1, AcyclicIs
  <2>3. /\ Acyclic(ribs', E) /\ ribs' \in Seq(HostCells) /\ Len(ribs') = Len(ribs) + 1
        /\ \A i \in 1 .. Len(ribs) : ribs'[i] = ribs[i]
    <3>1. Acyclic(ribs', E)
      BY <2>1, AcyclicGrows
    <3>. QED BY <2>1, <2>2, <3>1, AppendedIs
  <2>. QED BY <2>2, <2>3
<1>7. HostShape'
  <2>1. /\ Acyclic(ribs', E)
        /\ routine' \in {"command-line", "environment"} => root' \in (1 .. Len(ribs')) \ E
        /\ phase' = "string" => list' \in (1 .. Len(ribs')) \ E
        /\ phase' = "link" => list' \in E
        /\ phase' = "string" /\ routine' = "environment" => root' - 1 \in E
    BY <1>1, <1>2, <1>6
  <2>. QED BY <2>1 DEF HostShape
<1>8. ASSUME NEW s, Building(s)  PROVE TextInHand(ribs', list', text', s)
  BY <1>2, <1>5, <1>6, <1>8, TextInHandGrows DEF Building, c
<1>9. \A k \in 4 .. Len(ribs) : ribs'[k] = ribs[k]
  BY <1>6
<1>10. CASE Calls
  <2>1. PICK s : s = given.value
    OBVIOUS
  <2>2. given.type = "string" /\ TextInHand(ribs', list', text', s) /\ given' = given
    BY <1>2, <1>8, <1>10, <2>1 DEF Calls
  <2>3. Calls'
    BY <1>2, <1>10, <2>1, <2>2 DEF Calls, Building
  <2>. QED BY <1>7, <2>3 DEF HostInv
<1>11. CASE ListsArguments
  <2>1. PICK s, g : s = Head(todo) /\ g = LastOnes(given, Done)
    OBVIOUS
  <2>2. Building(s) /\ StringsAt(ribs, root, g)
    BY <1>2, <1>11, <2>1 DEF ListsArguments
  <2>3. g \in Seq(Seq(Nat))
    BY <1>11, <2>1, DoneIs, SomeOnes DEF ListsArguments, Done
  <2>4. StringsAt(ribs', root, g)
    <3>1. Len(ribs') >= Len(ribs)
      BY <1>6
    <3>. QED BY <1>6, <1>9, <2>2, <2>3, <3>1, StringsStay
  <2>5. TextInHand(ribs', list', text', s)
    BY <1>8, <2>2
  <2>6. ListsArguments'
    BY <1>2, <1>11, <2>1, <2>4, <2>5 DEF ListsArguments, Building, Done
  <2>. QED BY <1>7, <2>6 DEF HostInv
<1>12. CASE ListsVariables
  <2>1. FillsEntry /\ todo # <<>> /\ given \in Seq(Seq(Nat) \X Seq(Nat)) /\ todo \in Seq(Entries)
        /\ Len(todo) <= Len(given)
    BY <1>2, <1>12 DEF ListsVariables
  <2>2. PICK old \in 0 .. root - 2 :
          /\ ribs[root] = Cell(Reference(root - 1), Reference(old), PairType)
          /\ VariablesAt(ribs, old, FirstOnesReversed(given, Done))
    BY <2>1 DEF FillsEntry
  <2>3. PICK g : g = FirstOnesReversed(given, Done)
    OBVIOUS
  <2>4. g \in Seq(Seq(Nat) \X Seq(Nat))
    BY <2>1, <2>3, DoneIs, SomeOnes DEF Done
  <2>5. root \in 5 .. Len(ribs) /\ root \in 5 .. Len(ribs') /\ root \in 4 .. Len(ribs)
        /\ root - 1 \in 4 .. Len(ribs) /\ old \in Nat /\ Len(ribs') >= Len(ribs)
    <3>1. root \in 5 .. Len(ribs)
      BY <2>1 DEF FillsEntry
    <3>. QED BY <3>1, <1>6
  <2>6. ribs'[root] = ribs[root] /\ ribs'[root - 1] = ribs[root - 1]
    BY <1>9, <2>5
  <2>7. VariablesAt(ribs', old, g)
    <3>1. \A k \in 4 .. old : k <= Len(ribs) => ribs'[k] = ribs[k]
      BY <1>6, <1>9, <2>5
    <3>. QED BY <1>6, <1>9, <2>2, <2>3, <2>4, <2>5, <3>1, VariablesStay
  <2>8. ASSUME NEW i, NEW s \in Seq(Nat), TextAt(ribs, i, s)  PROVE TextAt(ribs', i, s)
    BY <1>6, <1>9, <2>5, <2>8, TextStays
  <2>9. PICK v : v = given[Done + 1]
    OBVIOUS
  <2>10. v[1] \in Seq(Nat) /\ v[2] \in Seq(Nat)
    <3>1. Done + 1 \in 1 .. Len(given)
      BY <2>1 DEF Done
    <3>2. v \in Seq(Nat) \X Seq(Nat)
      BY <2>1, <2>9, <3>1
    <3>. QED BY <3>2
  <2>11. \/ todo[1] = v /\ TextInHand(ribs', list', text', v[1])
         \/ /\ todo[1] = <<v[2]>> /\ TextInHand(ribs', list', text', v[2])
            /\ TextAt(ribs', ribs'[root - 1].car.value, v[1])
    <3>1. \/ todo[1] = v /\ Building(v[1])
          \/ /\ todo[1] = <<v[2]>> /\ Building(v[2])
             /\ TextAt(ribs, ribs[root - 1].car.value, v[1])
      BY <2>1, <2>9 DEF FillsEntry
    <3>. QED BY <3>1, <1>8, <2>6, <2>8, <2>10
  <2>12. FillsEntry'
    <3>1. Done' = Done /\ todo' = todo /\ given' = given /\ root' = root
      BY <1>2 DEF Done
    <3>2. \A k \in 2 .. Len(todo) : todo[k] = given[Done + k]
      BY <2>1 DEF FillsEntry
    <3>3. IsCons(ribs'[root - 1].car)
      BY <2>1, <2>6 DEF FillsEntry
    <3>. QED BY <3>1, <3>2, <3>3, <2>2, <2>3, <2>5, <2>6, <2>7, <2>9, <2>11 DEF FillsEntry, Building
  <2>13. ListsVariables'
    BY <1>2, <1>12, <2>12 DEF ListsVariables
  <2>. QED BY <1>7, <2>13 DEF HostInv
<1>. QED BY <1>2, <1>10, <1>11, <1>12 DEF HostInv

LEMMA ShapeIs ==
  ASSUME HostInv
  PROVE  \E E : /\ Acyclic(ribs, E)
                /\ routine \in {"command-line", "environment"} => root \in (1 .. Len(ribs)) \ E
                /\ phase = "string" => list \in (1 .. Len(ribs)) \ E
                /\ phase = "link" => list \in E
                /\ phase = "string" /\ routine = "environment" => root - 1 \in E
BY DEF HostInv, HostShape

LEMMA NothingListed ==
  ASSUME NEW r, NEW s
  PROVE  /\ StringsAt(r, NullCell, LastOnes(s, 0))
         /\ VariablesAt(r, NullCell, FirstOnesReversed(s, 0))
<1>. DEFINE a == LastOnes(s, 0)
            b == FirstOnesReversed(s, 0)
            q == [k \in {1} |-> NullCell]
<1>1. a = <<>> /\ b = <<>>
  <2>1. 1 .. 0 = {}
    OBVIOUS
  <2>. QED BY <2>1 DEF LastOnes, FirstOnesReversed
<1>2. q[1] = NullCell /\ q[Len(a) + 1] = NullCell /\ 1 .. Len(a) = {}
      /\ q[Len(b) + 1] = NullCell /\ 1 .. Len(b) = {}
  BY <1>1
<1>. HIDE DEF a, b, q
<1>3. StringsAt(r, NullCell, a)
  BY <1>2 DEF StringsAt
<1>4. VariablesAt(r, NullCell, b)
  BY <1>2 DEF VariablesAt
<1>. QED BY <1>3, <1>4 DEF a, b

LEMMA NullIs ==
  ASSUME NEW r, NEW E, Acyclic(r, E)
  PROVE  NullCell \in (1 .. Len(r)) \ E
<1>1. Len(r) \in Nat /\ Len(r) >= 3 /\ E \subseteq 4 .. Len(r)
  BY AcyclicIs
<1>2. 1 \in 1 .. Len(r) /\ 1 \notin E
  BY <1>1
<1>. QED BY <1>2 DEF NullCell

LEMMA CommandLineKeeps ==
  ASSUME HostInv, NEW kind \in Kinds, NEW strings \in CommandLines, CommandLine(kind, strings)
  PROVE  HostInv'
<1>1. PICK E : Acyclic(ribs, E)
  BY ShapeIs
<1>2. /\ routine' = "command-line" /\ given' = IF kind = "void" THEN <<>> ELSE strings
      /\ todo' = Context(kind, strings, <<>>).command_line_rev
      /\ root' = NullCell /\ phase' = "next" /\ ribs' = ribs
  BY DEF CommandLine
<1>3. strings \in Seq(Seq(Nat))
  BY HostAssumption
<1>4. /\ given' \in Seq(Seq(Nat)) /\ todo' \in Seq(Seq(Nat)) /\ Len(todo') = Len(given')
      /\ \A k \in 1 .. Len(todo') : todo'[k] = given'[Len(todo') + 1 - k]
  <2>1. CASE kind = "void"
    <3>1. given' = <<>> /\ todo' = <<>>
      BY <1>2, <2>1 DEF Context, VoidContext
    <3>. QED BY <3>1
  <2>2. CASE kind # "void"
    <3>1. given' = strings
      BY <1>2, <2>2
    <3>2. todo' = Reverse(strings)
      <4>1. Context(kind, strings, <<>>).command_line_rev = Reverse(strings)
        BY <2>2 DEF Context, Kinds, MemoryContext, OsContext, LibcContext
      <4>. QED BY <1>2, <4>1
    <3>. DEFINE n == Len(strings)
                v == [i \in 1 .. n |-> strings[n - i + 1]]
    <3>3. n \in Nat
      BY <1>3
    <3>4. v \in [1 .. n -> Seq(Nat)]
      <4>1. \A i \in 1 .. n : n - i + 1 \in 1 .. n
        BY <3>3
      <4>2. \A i \in 1 .. n : strings[n - i + 1] \in Seq(Nat)
        BY <1>3, <4>1
      <4>. QED BY <4>2
    <3>5. \A i \in 1 .. n : v[i] = strings[n + 1 - i]
      <4>1. \A i \in 1 .. n : n - i + 1 = n + 1 - i
        BY <3>3
      <4>. QED BY <4>1
    <3>6. v = Reverse(strings)
      BY DEF Reverse
    <3>. HIDE DEF v
    <3>7. v \in Seq(Seq(Nat)) /\ Len(v) = n
      BY <3>3, <3>4
    <3>. QED BY <3>1, <3>2, <3>3, <3>5, <3>6, <3>7, <1>3
  <2>. QED BY <2>1, <2>2
<1>5. Done' = 0
  BY <1>4 DEF Done
<1>6. ListsArguments'
  <2>1. StringsAt(ribs', root', LastOnes(given', 0))
    BY <1>2, NothingListed
  <2>2. Len(todo') <= Len(given')
    BY <1>4
  <2>. QED BY <1>2, <1>4, <1>5, <2>1, <2>2 DEF ListsArguments
<1>7. HostShape'
  <2>1. root' \in (1 .. Len(ribs')) \ E
    BY <1>1, <1>2, NullIs
  <2>. QED BY <1>1, <1>2, <2>1 DEF HostShape
<1>. QED BY <1>6, <1>7 DEF HostInv

LEMMA EnvironmentKeeps ==
  ASSUME HostInv, NEW kind \in Kinds, NEW variables \in Environments, Environment(kind, variables)
  PROVE  HostInv'
<1>1. PICK E : Acyclic(ribs, E)
  BY ShapeIs
<1>2. /\ routine' = "environment"
      /\ given' = IF kind \in {"libc", "void"} THEN <<>> ELSE variables
      /\ todo' = Context(kind, <<>>, variables).environment_variables
      /\ root' = NullCell /\ phase' = "next" /\ ribs' = ribs
  BY DEF Environment
<1>3. variables \in Seq(Seq(Nat) \X Seq(Nat))
  BY HostAssumption
<1>4. given' \in Seq(Seq(Nat) \X Seq(Nat)) /\ todo' = given'
  <2>1. CASE kind \in {"libc", "void"}
    <3>1. given' = <<>> /\ todo' = <<>>
      <4>1. Context(kind, <<>>, variables).environment_variables = <<>>
        BY <2>1 DEF Context, LibcContext, VoidContext, MemoryContext
      <4>. QED BY <1>2, <2>1, <4>1
    <3>. QED BY <3>1
  <2>2. CASE kind \notin {"libc", "void"}
    <3>1. Context(kind, <<>>, variables).environment_variables = variables
      BY <2>2 DEF Context, Kinds, MemoryContext, OsContext
    <3>. QED BY <1>2, <1>3, <2>2, <3>1
  <2>. QED BY <2>1, <2>2
<1>5. Done' = 0 /\ Len(todo') <= Len(given') /\ Len(given') \in Nat
  BY <1>4 DEF Done
<1>6. todo' \in Seq(Entries)
  <2>1. Seq(Nat) \X Seq(Nat) \subseteq Entries
    BY DEF Entries
  <2>. HIDE DEF Entries
  <2>. QED BY <1>4, <2>1
<1>7. ListsVariables'
  <2>1. VariablesAt(ribs', root', FirstOnesReversed(given', 0))
    BY <1>2, NothingListed
  <2>2. \A k \in 1 .. Len(todo') : todo'[k] = given'[0 + k]
    BY <1>4
  <2>. QED BY <1>2, <1>4, <1>5, <1>6, <2>1, <2>2 DEF ListsVariables
<1>8. HostShape'
  <2>1. root' \in (1 .. Len(ribs')) \ E
    BY <1>1, <1>2, NullIs
  <2>. QED BY <1>1, <1>2, <2>1 DEF HostShape
<1>. QED BY <1>7, <1>8 DEF HostInv

LEMMA CallIdentityKeeps ==
  ASSUME HostInv, NEW a \in Arguments, CallIdentity(a)
  PROVE  HostInv'
<1>1. PICK E : Acyclic(ribs, E)
  BY ShapeIs
<1>2. routine' = "call" /\ given' = a /\ ribs' = ribs
  BY DEF CallIdentity
<1>3. NullCell \in (1 .. Len(ribs)) \ E
  BY <1>1, NullIs
<1>4. CASE a.type = "string"
  <2>1. text' = a.value /\ list' = NullCell /\ phase' = "string"
    BY <1>4 DEF CallIdentity, Starts
  <2>2. a.value \in Seq(Nat)
    BY <1>4, HostAssumption
  <2>3. TextInHand(ribs', list', text', a.value)
    BY <2>1, <2>2, TextInHandStarts
  <2>4. Calls'
    BY <1>2, <1>4, <2>1, <2>3 DEF Calls, Building
  <2>5. HostShape'
    BY <1>1, <1>2, <1>3, <2>1 DEF HostShape
  <2>. QED BY <2>4, <2>5 DEF HostInv
<1>5. CASE a.type = "integer"
  <2>1. answer' = Number(IntegerFromScheme(Number(a.value))) /\ phase' = "done"
    BY <1>5 DEF CallIdentity
  <2>2. Calls'
    BY <1>2, <1>5, <2>1 DEF Calls
  <2>3. HostShape'
    BY <1>1, <1>2, <2>1 DEF HostShape
  <2>. QED BY <2>2, <2>3 DEF HostInv
<1>6. CASE a.type = "boolean"
  <2>1. phase' = "done"
    BY <1>6 DEF CallIdentity
  <2>2. Calls'
    BY <1>2, <1>6, <2>1 DEF Calls
  <2>3. HostShape'
    BY <1>1, <1>2, <2>1 DEF HostShape
  <2>. QED BY <2>2, <2>3 DEF HostInv
<1>. QED BY <1>4, <1>5, <1>6, HostAssumption

LEMMA FailKeeps == HostInv /\ HostFail => HostInv'
<1>. SUFFICES ASSUME HostInv, HostFail  PROVE HostInv'
  OBVIOUS
<1>1. PICK E : /\ Acyclic(ribs, E)
               /\ routine \in {"command-line", "environment"} => root \in (1 .. Len(ribs)) \ E
  BY ShapeIs
<1>2. phase' = "failed" /\ UNCHANGED <<ribs, root, routine>>
  BY DEF HostFail
<1>3. HostShape'
  BY <1>1, <1>2 DEF HostShape
<1>. QED BY <1>2, <1>3 DEF HostInv

LEMMA PushKeeps == HostInv /\ Push => HostInv'
<1>. SUFFICES ASSUME HostInv, Push  PROVE HostInv'
  OBVIOUS
<1>1. PICK E : /\ Acyclic(ribs, E)
               /\ routine \in {"command-line", "environment"} => root \in (1 .. Len(ribs)) \ E
  BY ShapeIs
<1>2. /\ phase = "next" /\ todo = <<>> /\ phase' = "done" /\ answer' = Reference(root)
      /\ UNCHANGED <<ribs, root, routine, given, todo, text, list>>
  BY DEF Push
<1>3. HostShape'
  BY <1>1, <1>2 DEF HostShape
<1>4. Done' = Done
  BY <1>2 DEF Done
<1>5. CASE ListsArguments
  <2>1. ListsArguments'
    BY <1>2, <1>4, <1>5 DEF ListsArguments
  <2>. QED BY <1>3, <2>1 DEF HostInv
<1>6. CASE ListsVariables
  <2>1. ListsVariables'
    BY <1>2, <1>4, <1>6 DEF ListsVariables
  <2>. QED BY <1>3, <2>1 DEF HostInv
<1>. QED BY <1>2, <1>5, <1>6 DEF HostInv, Calls

LEMMA NextArgumentKeeps == HostInv /\ NextArgument => HostInv'
<1>. SUFFICES ASSUME HostInv, NextArgument  PROVE HostInv'
  OBVIOUS
<1>1. PICK E : /\ Acyclic(ribs, E)
               /\ routine \in {"command-line", "environment"} => root \in (1 .. Len(ribs)) \ E
  BY ShapeIs
<1>2. /\ routine = "command-line" /\ phase = "next" /\ todo # <<>> /\ phase' = "string"
      /\ text' = Head(todo) /\ list' = NullCell
      /\ UNCHANGED <<ribs, root, routine, given, todo, answer>>
  BY DEF NextArgument, Starts
<1>3. HostShape'
  <2>1. NullCell \in (1 .. Len(ribs)) \ E
    BY <1>1, NullIs
  <2>. QED BY <1>1, <1>2, <2>1 DEF HostShape
<1>4. ListsArguments
  BY <1>2 DEF HostInv, Calls, ListsVariables
<1>5. Head(todo) \in Seq(Nat)
  BY <1>2, <1>4 DEF ListsArguments
<1>6. TextInHand(ribs', list', text', Head(todo))
  BY <1>2, <1>5, TextInHandStarts
<1>7. ListsArguments'
  BY <1>2, <1>4, <1>6 DEF ListsArguments, Building, Done
<1>. QED BY <1>3, <1>7 DEF HostInv

LEMMA ReturnStringKeeps == HostInv /\ ReturnString => HostInv'
<1>. SUFFICES ASSUME HostInv, ReturnString  PROVE HostInv'
  OBVIOUS
<1>1. PICK E : Acyclic(ribs, E) /\ (phase = "string" => list \in (1 .. Len(ribs)) \ E)
  BY ShapeIs
<1>. DEFINE c == Cell(Number(Len(given.value)), Reference(list), StringType)
<1>2. /\ routine = "call" /\ phase = "string" /\ text = <<>> /\ ribs' = Append(ribs, c)
      /\ answer' = Reference(Len(ribs) + 1) /\ phase' = "done"
      /\ UNCHANGED <<root, routine, given, todo, text>>
  BY DEF ReturnString, Allocates, New
<1>3. Calls
  BY <1>2 DEF HostInv, ListsArguments, ListsVariables
<1>4. PICK s : s = given.value
  OBVIOUS
<1>5. s \in Seq(Nat) /\ TextAt(ribs, list, s) /\ given.type = "string" /\ given \in Arguments
  <2>1. TextInHand(ribs, list, <<>>, s) /\ given.type = "string" /\ given \in Arguments
    BY <1>2, <1>3, <1>4 DEF Calls, Building
  <2>. QED BY <2>1, TextInHandEnds
<1>6. c \in HostCells /\ c.car = Number(Len(s)) /\ c.cdr = Reference(list) /\ c.cdr.value = list
      /\ list \in (1 .. Len(ribs)) \ E
  <2>1. list \in (1 .. Len(ribs)) \ E /\ list \in Nat
    BY <1>1, <1>2
  <2>2. PICK m \in Nat, t \in Nat : m = Len(s) /\ t = StringType
    BY <1>5 DEF StringType
  <2>3. c = Cell(Number(m), Reference(list), t)
    BY <1>4, <2>2
  <2>4. /\ c \in HostCells /\ c.car = Number(m) /\ c.cdr = Reference(list)
        /\ Reference(list).value = list
    <3>. HIDE DEF c
    <3>. QED BY <2>1, <2>3, CellIs, SMTT(30)
  <2>. QED BY <2>1, <2>2, <2>4
<1>. HIDE DEF c
<1>7. /\ ribs \in Seq(HostCells) /\ Len(ribs) \in Nat /\ Len(ribs) >= 3
      /\ E \subseteq 4 .. Len(ribs)
  BY <1>1, AcyclicIs
<1>8. Acyclic(ribs', E)
  BY <1>1, <1>2, <1>6, AcyclicGrows
<1>9. /\ ribs' \in Seq(HostCells) /\ Len(ribs') = Len(ribs) + 1
      /\ ribs'[Len(ribs) + 1] = c /\ \A i \in 1 .. Len(ribs) : ribs'[i] = ribs[i]
  BY <1>2, <1>6, <1>7, AppendedIs
<1>10. HostShape'
  BY <1>2, <1>8 DEF HostShape
<1>11. TextAt(ribs', list, s)
  <2>1. Len(ribs') >= Len(ribs) /\ \A k \in 4 .. Len(ribs) : ribs'[k] = ribs[k]
    BY <1>7, <1>9
  <2>. QED BY <1>5, <1>7, <1>9, <2>1, TextStays
<1>12. Calls'
  <2>1. Len(ribs) + 1 \in 1 .. Len(ribs')
    BY <1>7, <1>9
  <2>. QED BY <1>2, <1>4, <1>5, <1>6, <1>9, <1>11, <2>1 DEF Calls
<1>. QED BY <1>10, <1>12 DEF HostInv

LEMMA LinkArgumentKeeps == HostInv /\ LinkArgument => HostInv'
<1>. SUFFICES ASSUME HostInv, LinkArgument  PROVE HostInv'
  OBVIOUS
<1>. DEFINE c == Cell(Reference(list), Reference(root), PairType)
            new == Len(ribs) + 1
<1>1. /\ routine = "command-line" /\ phase = "string" /\ text = <<>> /\ ribs' = Append(ribs, c)
      /\ root' = new /\ todo' = Tail(todo) /\ phase' = "next"
      /\ UNCHANGED <<routine, given, text, answer>>
  BY DEF LinkArgument, Allocates, New
<1>2. PICK E : /\ Acyclic(ribs, E) /\ root \in (1 .. Len(ribs)) \ E
               /\ list \in (1 .. Len(ribs)) \ E
  BY <1>1, ShapeIs
<1>3. ListsArguments
  BY <1>1 DEF HostInv, Calls, ListsVariables
<1>4. PICK s, g : s = Head(todo) /\ g = LastOnes(given, Done)
  OBVIOUS
<1>5. /\ s \in Seq(Nat) /\ TextAt(ribs, list, s) /\ StringsAt(ribs, root, g) /\ todo # <<>>
      /\ given \in Seq(Seq(Nat)) /\ todo \in Seq(Seq(Nat)) /\ Len(todo) <= Len(given)
  <2>1. TextInHand(ribs, list, <<>>, s) /\ StringsAt(ribs, root, g)
    BY <1>1, <1>3, <1>4 DEF ListsArguments, Building
  <2>. QED BY <2>1, <1>1, <1>3, TextInHandEnds DEF ListsArguments
<1>6. /\ Done \in 0 .. Len(given) - 1 /\ Len(todo) = Len(given) - Done /\ Len(todo) \in Nat \ {0}
      /\ todo' \in Seq(Seq(Nat)) /\ Len(todo') = Len(todo) - 1 /\ s = todo[1]
      /\ \A k \in 1 .. Len(todo) - 1 : todo'[k] = todo[k + 1]
  BY <1>1, <1>4, <1>5 DEF Done
<1>7. /\ c \in HostCells /\ c.car = Reference(list) /\ c.cdr = Reference(root)
      /\ c.cdr.value = root /\ c.car.value = list /\ root \in (1 .. Len(ribs)) \ E
  <2>1. list \in Nat /\ root \in Nat
    BY <1>2
  <2>2. PICK t \in Nat : t = PairType
    BY DEF PairType
  <2>3. c = Cell(Reference(list), Reference(root), t)
    BY <2>2
  <2>4. /\ c \in HostCells /\ c.car = Reference(list) /\ c.cdr = Reference(root)
        /\ Reference(root).value = root /\ Reference(list).value = list
    <3>. HIDE DEF c
    <3>. QED BY <2>1, <2>3, CellIs
  <2>. QED BY <1>2, <2>4
<1>. HIDE DEF c
<1>8. /\ ribs \in Seq(HostCells) /\ Len(ribs) \in Nat /\ Len(ribs) >= 3
      /\ E \subseteq 4 .. Len(ribs)
  BY <1>2, AcyclicIs
<1>9. Acyclic(ribs', E)
  BY <1>1, <1>2, <1>7, AcyclicGrows
<1>10. /\ ribs' \in Seq(HostCells) /\ Len(ribs') = new /\ ribs'[new] = c
       /\ \A i \in 1 .. Len(ribs) : ribs'[i] = ribs[i]
  BY <1>1, <1>7, <1>8, AppendedIs
<1>11. /\ new \in 4 .. Len(ribs') /\ new \in (1 .. Len(ribs')) \ E /\ Len(ribs') >= Len(ribs)
       /\ \A k \in 4 .. Len(ribs) : ribs'[k] = ribs[k]
  <2>1. new \notin E
    BY <1>8
  <2>. QED BY <1>8, <1>10, <2>1
<1>. HIDE DEF new
<1>12. HostShape'
  BY <1>1, <1>9, <1>11 DEF HostShape
<1>13. g \in Seq(Seq(Nat))
  BY <1>4, <1>5, DoneIs, SomeOnes DEF Done
<1>14. TextAt(ribs', list, s)
  BY <1>5, <1>8, <1>10, <1>11, TextStays
<1>15. StringsAt(ribs', root, g)
  BY <1>5, <1>8, <1>10, <1>11, <1>13, StringsStay
<1>16. StringsAt(ribs', new, <<s>> \o g)
  BY <1>5, <1>7, <1>10, <1>11, <1>13, <1>14, <1>15, StringsGrow
<1>17. LastOnes(given, Done + 1) = <<s>> \o g
  <2>1. LastOnes(given, Done + 1) = <<given[Len(given) - Done]>> \o g
    <3>1. PICK n : n = Done
      OBVIOUS
    <3>2. n \in 0 .. Len(given) - 1 /\ g = LastOnes(given, n)
      BY <3>1, <1>4, <1>6
    <3>3. LastOnes(given, n + 1) = <<given[Len(given) - n]>> \o g
      BY <3>2, <1>5, OneMore
    <3>. QED BY <3>1, <3>3
  <2>2. given[Len(given) - Done] = s
    <3>1. 1 \in 1 .. Len(todo) /\ Len(todo) + 1 - 1 = Len(given) - Done
      BY <1>6
    <3>2. todo[1] = given[Len(todo) + 1 - 1]
      BY <1>3, <3>1 DEF ListsArguments
    <3>. QED BY <3>1, <3>2, <1>6
  <2>. QED BY <2>1, <2>2
<1>18. Done' = Done + 1 /\ Len(todo') <= Len(given)
  BY <1>1, <1>5, <1>6 DEF Done
<1>19. \A k \in 1 .. Len(todo') : todo'[k] = given[Len(todo') + 1 - k]
  <2>1. ASSUME NEW k \in 1 .. Len(todo')  PROVE todo'[k] = given[Len(todo') + 1 - k]
    <3>1. k \in 1 .. Len(todo) - 1 /\ k + 1 \in 1 .. Len(todo)
          /\ Len(todo) + 1 - (k + 1) = Len(todo') + 1 - k
      <4>1. PICK n, m : n = Len(todo) /\ m = Len(todo')
        OBVIOUS
      <4>2. n \in Nat \ {0} /\ m = n - 1 /\ k \in 1 .. m
        BY <4>1, <1>6
      <4>3. k \in 1 .. n - 1 /\ k + 1 \in 1 .. n /\ n + 1 - (k + 1) = m + 1 - k
        BY ONLY <4>2
      <4>. QED BY <4>1, <4>3
    <3>2. todo'[k] = todo[k + 1]
      BY <1>6, <3>1
    <3>3. todo[k + 1] = given[Len(todo) + 1 - (k + 1)]
      BY <1>3, <3>1 DEF ListsArguments
    <3>. QED BY <3>1, <3>2, <3>3
  <2>. QED BY <2>1
<1>20. ListsArguments'
  BY <1>1, <1>5, <1>6, <1>16, <1>17, <1>18, <1>19 DEF ListsArguments
<1>. QED BY <1>12, <1>20 DEF HostInv

LEMMA MakeEntryKeeps == HostInv /\ MakeEntry => HostInv'
<1>. SUFFICES ASSUME HostInv, MakeEntry  PROVE HostInv'
  OBVIOUS
<1>. DEFINE c == Cell(Reference(NullCell), Reference(NullCell), PairType)
            new == Len(ribs) + 1
<1>1. /\ routine = "environment" /\ phase = "next" /\ todo # <<>> /\ ribs' = Append(ribs, c)
      /\ list' = new /\ phase' = "link"
      /\ UNCHANGED <<root, routine, given, todo, text, answer>>
  BY DEF MakeEntry, Allocates, New
<1>2. PICK E : Acyclic(ribs, E) /\ root \in (1 .. Len(ribs)) \ E
  BY <1>1, ShapeIs
<1>3. ListsVariables
  BY <1>1 DEF HostInv, Calls, ListsArguments
<1>4. PICK g : g = FirstOnesReversed(given, Done)
  OBVIOUS
<1>5. /\ VariablesAt(ribs, root, g) /\ given \in Seq(Seq(Nat) \X Seq(Nat))
      /\ todo \in Seq(Entries) /\ Len(todo) <= Len(given)
  BY <1>1, <1>3, <1>4 DEF ListsVariables
<1>6. g \in Seq(Seq(Nat) \X Seq(Nat))
  BY <1>4, <1>5, DoneIs, SomeOnes DEF Done
<1>7. c \in HostCells /\ IsCons(c.car) /\ c.cdr.value = NullCell
  <2>1. PICK t \in Nat, n \in Nat : t = PairType /\ n = NullCell
    BY DEF PairType, NullCell
  <2>2. c = Cell(Reference(n), Reference(n), t)
    BY <2>1
  <2>3. /\ c \in HostCells /\ c.car = Reference(n) /\ c.cdr = Reference(n)
        /\ Reference(n).value = n /\ IsCons(Reference(n))
    <3>. HIDE DEF c
    <3>. QED BY <2>1, <2>2, CellIs
  <2>. QED BY <2>1, <2>3
<1>8. NullCell \in (1 .. Len(ribs)) \ E
  BY <1>2, NullIs
<1>. HIDE DEF c
<1>9. /\ ribs \in Seq(HostCells) /\ Len(ribs) \in Nat /\ Len(ribs) >= 3
      /\ E \subseteq 4 .. Len(ribs)
  BY <1>2, AcyclicIs
<1>10. c.cdr.value \in (1 .. Len(ribs)) \ E
  BY <1>7, <1>8
<1>11. Acyclic(ribs', E \cup {new})
  BY <1>1, <1>2, <1>7, <1>10, AcyclicGrowsEntry
<1>12. /\ ribs' \in Seq(HostCells) /\ Len(ribs') = new /\ ribs'[new] = c
       /\ \A i \in 1 .. Len(ribs) : ribs'[i] = ribs[i]
  BY <1>1, <1>7, <1>9, AppendedIs
<1>13. /\ new \in E \cup {new} /\ root \in (1 .. Len(ribs')) \ (E \cup {new})
       /\ root < new /\ Len(ribs') >= Len(ribs) /\ root \in Nat
       /\ \A k \in 4 .. Len(ribs) : ribs'[k] = ribs[k]
       /\ \A k \in 4 .. root : k <= Len(ribs) => ribs'[k] = ribs[k]
  <2>1. root # new
    BY <1>2, <1>9
  <2>. QED BY <1>2, <1>9, <1>12, <2>1
<1>. HIDE DEF new
<1>14. HostShape'
  BY <1>1, <1>11, <1>13 DEF HostShape
<1>15. VariablesAt(ribs', root, g)
  BY <1>5, <1>6, <1>9, <1>12, <1>13, VariablesStay
<1>16. ListsVariables'
  <2>1. Done' = Done
    BY <1>1 DEF Done
  <2>2. \A k \in 1 .. Len(todo) : todo[k] = given[Done + k]
    BY <1>1, <1>3 DEF ListsVariables
  <2>. QED BY <1>1, <1>4, <1>5, <1>7, <1>12, <1>13, <1>15, <2>1, <2>2 DEF ListsVariables
<1>. QED BY <1>14, <1>16 DEF HostInv

LEMMA LinkEntryKeeps == HostInv /\ LinkEntry => HostInv'
<1>. SUFFICES ASSUME HostInv, LinkEntry  PROVE HostInv'
  OBVIOUS
<1>. DEFINE c == Cell(Reference(list), Reference(root), PairType)
            new == Len(ribs) + 1
<1>1. /\ phase = "link" /\ ribs' = Append(ribs, c) /\ root' = new
      /\ text' = Head(todo)[1] /\ list' = NullCell /\ phase' = "string"
      /\ UNCHANGED <<routine, given, todo, answer>>
  BY DEF LinkEntry, Allocates, New, Starts
<1>2. ListsVariables
  BY <1>1 DEF HostInv, Calls, ListsArguments
<1>3. PICK E : Acyclic(ribs, E) /\ root \in (1 .. Len(ribs)) \ E /\ list \in E
  BY <1>1, <1>2, ShapeIs DEF ListsVariables
<1>4. PICK g, n, v : g = FirstOnesReversed(given, n) /\ n = Done /\ v = given[n + 1]
  OBVIOUS
<1>5. /\ VariablesAt(ribs, root, g) /\ given \in Seq(Seq(Nat) \X Seq(Nat))
      /\ todo \in Seq(Entries) /\ Len(todo) <= Len(given) /\ todo # <<>> /\ routine = "environment"
      /\ list = Len(ribs) /\ root < list
      /\ \A k \in 1 .. Len(todo) : todo[k] = given[n + k]
  BY <1>1, <1>2, <1>4 DEF ListsVariables
<1>6. /\ n \in 0 .. Len(given) - 1 /\ Len(todo) \in Nat \ {0} /\ v \in Seq(Nat) \X Seq(Nat)
      /\ todo[1] = v /\ Head(todo) = v
  <2>1. n \in 0 .. Len(given) - 1 /\ Len(todo) \in Nat \ {0}
    BY <1>4, <1>5, SMTT(30) DEF Done
  <2>2. n + 1 \in 1 .. Len(given) /\ 1 \in 1 .. Len(todo)
    BY <2>1
  <2>3. v \in Seq(Nat) \X Seq(Nat) /\ todo[1] = v
    BY <1>4, <1>5, <2>2
  <2>4. Head(todo) = todo[1]
    BY <1>5
  <2>. QED BY <2>1, <2>3, <2>4
<1>7. g \in Seq(Seq(Nat) \X Seq(Nat))
  <2>1. n \in 0 .. Len(given)
    BY <1>6
  <2>. QED BY <1>4, <1>5, <2>1, SomeOnes
<1>8. /\ ribs \in Seq(HostCells) /\ Len(ribs) \in Nat /\ Len(ribs) >= 3
      /\ E \subseteq 4 .. Len(ribs)
  BY <1>3, AcyclicIs
<1>9. /\ c \in HostCells /\ c.cdr.value \in (1 .. Len(ribs)) \ E
      /\ c = Cell(Reference(new - 1), Reference(root), PairType)
  <2>1. list \in Nat /\ root \in Nat /\ new - 1 = list
    BY <1>3, <1>5, <1>8
  <2>2. PICK t \in Nat : t = PairType
    BY DEF PairType
  <2>3. c = Cell(Reference(list), Reference(root), t)
    BY <2>2
  <2>4. c \in HostCells /\ c.cdr = Reference(root) /\ Reference(root).value = root
    <3>. HIDE DEF c
    <3>. QED BY <2>1, <2>3, CellIs
  <2>5. c = Cell(Reference(new - 1), Reference(root), PairType)
    BY <2>1
  <2>. QED BY <1>3, <2>4, <2>5
<1>. HIDE DEF c
<1>10. Acyclic(ribs', E)
  BY <1>1, <1>3, <1>9, AcyclicGrows
<1>11. /\ ribs' \in Seq(HostCells) /\ Len(ribs') = new /\ ribs'[new] = c
       /\ \A i \in 1 .. Len(ribs) : ribs'[i] = ribs[i]
  BY <1>1, <1>8, <1>9, AppendedIs
<1>12. /\ new \in (1 .. Len(ribs')) \ E /\ new - 1 = list /\ new \in 5 .. Len(ribs')
       /\ Len(ribs') >= Len(ribs) /\ root \in 0 .. new - 2 /\ root \in Nat
       /\ list \in 1 .. Len(ribs)
       /\ \A k \in 4 .. Len(ribs) : ribs'[k] = ribs[k]
       /\ \A k \in 4 .. root : k <= Len(ribs) => ribs'[k] = ribs[k]
  <2>1. new \notin E /\ Len(ribs) >= 4 /\ root \in Nat
    BY <1>3, <1>5, <1>8
  <2>. QED BY <1>3, <1>5, <1>8, <1>11, <2>1, SMTT(30)
<1>. HIDE DEF new
<1>13. HostShape'
  <2>1. NullCell \in (1 .. Len(ribs')) \ E
    BY <1>10, NullIs
  <2>. QED BY <1>1, <1>3, <1>10, <1>12, <2>1 DEF HostShape
<1>14. VariablesAt(ribs', root, g)
  BY <1>5, <1>7, <1>8, <1>11, <1>12, VariablesStay
<1>15. TextInHand(ribs', list', text', v[1])
  <2>1. v[1] \in Seq(Nat)
    BY <1>6
  <2>. QED BY <1>1, <1>6, <2>1, TextInHandStarts
<1>16. Done' = n
  BY <1>1, <1>4 DEF Done
<1>17. FillsEntry'
  <2>1. \A k \in 2 .. Len(todo') : todo'[k] = given'[n + k]
    BY <1>1, <1>5
  <2>2. IsCons(ribs'[new - 1].car)
    BY <1>1, <1>2, <1>5, <1>11, <1>12 DEF ListsVariables
  <2>3. ribs'[root'] = Cell(Reference(root' - 1), Reference(root), PairType)
    BY <1>1, <1>9, <1>11
  <2>4. todo'[1] = given'[n + 1] /\ TextInHand(ribs', list', text', given'[n + 1][1])
    BY <1>1, <1>4, <1>6, <1>15
  <2>5. root' \in 5 .. Len(ribs') /\ root \in 0 .. root' - 2
    BY <1>1, <1>12
  <2>6. VariablesAt(ribs', root, FirstOnesReversed(given', n))
    BY <1>1, <1>4, <1>14
  <2>. QED BY <1>1, <1>16, <2>1, <2>2, <2>3, <2>4, <2>5, <2>6 DEF FillsEntry, Building
<1>18. ListsVariables'
  BY <1>1, <1>5, <1>17 DEF ListsVariables
<1>. QED BY <1>13, <1>18 DEF HostInv

(* A string of the entry is set, and nothing that is listed changes.         *)
Keeps(w, c, E, g, n, v) ==
  /\ n \in 0 .. Len(given) - 1 /\ Len(todo) \in Nat \ {0} /\ v \in Seq(Nat) \X Seq(Nat)
  /\ given \in Seq(Seq(Nat) \X Seq(Nat)) /\ todo \in Seq(Entries)
  /\ g \in Seq(Seq(Nat) \X Seq(Nat)) /\ Len(todo) <= Len(given)
  /\ Acyclic(w, E) /\ w \in Seq(HostCells) /\ Len(w) = Len(ribs) /\ Len(ribs) \in Nat
  /\ w[root - 1] = c /\ w[root] = ribs[root] /\ root \in 5 .. Len(ribs)
  /\ \E old \in 0 .. root - 2 :
       /\ ribs[root] = Cell(Reference(root - 1), Reference(old), PairType)
       /\ VariablesAt(w, old, g)
  /\ \A i : \A s \in Seq(Nat) : TextAt(ribs, i, s) => TextAt(w, i, s)

LEMMA EntryIs ==
  ASSUME HostInv, routine = "environment", phase = "string", text = <<>>,
         NEW c \in HostCells, NEW E, Acyclic(ribs, E), root - 1 \in E,
         c.cdr.value \in (1 .. Len(ribs)) \ E, NEW w, w = [ribs EXCEPT ![root - 1] = c],
         NEW g, NEW n, NEW v,
         g = FirstOnesReversed(given, n), n = Done, v = given[n + 1]
  PROVE  Keeps(w, c, E, g, n, v)
<1>1. /\ FillsEntry /\ todo # <<>> /\ given \in Seq(Seq(Nat) \X Seq(Nat)) /\ todo \in Seq(Entries)
      /\ Len(todo) <= Len(given)
  BY DEF HostInv, Calls, ListsArguments, ListsVariables
<1>2. n \in 0 .. Len(given) - 1 /\ Len(todo) \in Nat \ {0}
  <2>1. Len(given) \in Nat /\ Len(todo) \in Nat
    BY <1>1, LenProperties
  <2>2. Len(todo) # 0
    BY <1>1, EmptySeq
  <2>3. PICK a, b : a = Len(given) /\ b = Len(todo)
    OBVIOUS
  <2>4. n = a - b
    BY <2>3 DEF Done
  <2>. QED BY <1>1, <2>1, <2>2, <2>3, <2>4
<1>3. v \in Seq(Nat) \X Seq(Nat)
  <2>1. n + 1 \in 1 .. Len(given)
    BY <1>2
  <2>. QED BY <1>1, <2>1
<1>4. g \in Seq(Seq(Nat) \X Seq(Nat))
  <2>1. n \in 0 .. Len(given)
    BY <1>2
  <2>. QED BY <1>1, <2>1, SomeOnes
<1>5. Acyclic(w, E)
  BY AcyclicSet
<1>6. /\ ribs \in Seq(HostCells) /\ Len(ribs) \in Nat /\ Len(ribs) >= 3
      /\ E \subseteq 4 .. Len(ribs)
  BY AcyclicIs
<1>7. /\ w \in Seq(HostCells) /\ Len(w) = Len(ribs) /\ w[root - 1] = c
      /\ \A i \in 1 .. Len(ribs) : i # root - 1 => w[i] = ribs[i]
  <2>1. PICK k : k = root - 1
    OBVIOUS
  <2>2. k \in 4 .. Len(ribs) /\ w = [ribs EXCEPT ![k] = c]
    BY <1>6, <2>1
  <2>3. k \in 1 .. Len(ribs)
    BY <1>6, <2>2
  <2>4. /\ w \in Seq(HostCells) /\ Len(w) = Len(ribs) /\ w[k] = c
        /\ \A i \in 1 .. Len(ribs) : i # k => w[i] = ribs[i]
    BY <1>6, <2>2, <2>3
  <2>. QED BY <2>1, <2>4
<1>8. root \in 5 .. Len(ribs) /\ IsCons(ribs[root - 1].car)
  BY <1>1 DEF FillsEntry
<1>9. w[root] = ribs[root]
  <2>1. root \in 1 .. Len(ribs) /\ root # root - 1
    BY <1>6, <1>8
  <2>. QED BY <1>7, <2>1
<1>10. \A k \in 4 .. Len(ribs) : ~IsCons(ribs[k].car) => w[k] = ribs[k]
  BY <1>6, <1>7, <1>8
<1>11. ASSUME NEW i, NEW s \in Seq(Nat), TextAt(ribs, i, s)  PROVE TextAt(w, i, s)
  <2>1. Len(w) >= Len(ribs)
    BY <1>6, <1>7
  <2>. QED BY <1>6, <1>7, <1>10, <1>11, <2>1, TextStays
<1>12. PICK old \in 0 .. root - 2 :
         /\ ribs[root] = Cell(Reference(root - 1), Reference(old), PairType)
         /\ VariablesAt(ribs, old, g)
  BY <1>1 DEF FillsEntry
<1>13. VariablesAt(w, old, g)
  <2>1. Len(w) >= Len(ribs) /\ old \in Nat
    BY <1>6, <1>7, <1>8
  <2>2. \A k \in 4 .. old : k <= Len(ribs) => w[k] = ribs[k]
    BY <1>6, <1>7, <1>8
  <2>. QED BY <1>4, <1>6, <1>7, <1>10, <1>12, <2>1, <2>2, VariablesStay
<1>. QED BY <1>1, <1>2, <1>3, <1>4, <1>5, <1>6, <1>7, <1>8, <1>9, <1>11, <1>12, <1>13 DEF Keeps

LEMMA SetNameKeeps == HostInv /\ SetName => HostInv'
<1>. SUFFICES ASSUME HostInv, SetName  PROVE HostInv'
  OBVIOUS
<1>1. /\ routine = "environment" /\ phase = "string" /\ text = <<>> /\ Len(Head(todo)) = 2
      /\ ribs' = [ribs EXCEPT ![Entry].car = Reference(list)]
      /\ text' = Head(todo)[2] /\ list' = NullCell /\ phase' = "string"
      /\ todo' = <<Tail(Head(todo))>> \o Tail(todo)
      /\ UNCHANGED <<root, routine, given, answer>>
  BY DEF SetName, Starts
<1>2. PICK E : /\ Acyclic(ribs, E) /\ root \in (1 .. Len(ribs)) \ E
               /\ list \in (1 .. Len(ribs)) \ E /\ root - 1 \in E
  BY <1>1, ShapeIs
<1>3. ListsVariables /\ FillsEntry
  BY <1>1 DEF HostInv, Calls, ListsArguments, ListsVariables
<1>4. PICK g, n, v : g = FirstOnesReversed(given, n) /\ n = Done /\ v = given[n + 1]
  OBVIOUS
<1>. DEFINE c == [ribs[root - 1] EXCEPT !.car = Reference(list)]
<1>5. Entry = root - 1 /\ ribs' = [ribs EXCEPT ![root - 1] = c]
  <2>1. PICK old : ribs[root] = Cell(Reference(root - 1), Reference(old), PairType)
    BY <1>3 DEF FillsEntry
  <2>2. ribs[root].car.value = root - 1
    BY <2>1 DEF Cell, Reference
  <2>. QED BY <1>1, <2>2 DEF Entry
<1>6. /\ ribs \in Seq(HostCells) /\ Len(ribs) \in Nat /\ Len(ribs) >= 3
      /\ E \subseteq 4 .. Len(ribs) /\ \A i \in 1 .. Len(ribs) : ribs[i] \in HostCells
  BY <1>2, AcyclicIs
<1>7. /\ c \in HostCells /\ c.cdr.value \in (1 .. Len(ribs)) \ E /\ c.car = Reference(list)
  <2>1. root - 1 \in 4 .. Len(ribs)
    BY <1>2, <1>6
  <2>2. ribs[root - 1] \in HostCells /\ ribs[root - 1].cdr.value \in (1 .. Len(ribs)) \ E
    <3>1. root - 1 \in 1 .. Len(ribs)
      BY <2>1, <1>6
    <3>. QED BY <1>2, <1>6, <2>1, <3>1 DEF Acyclic
  <2>3. Reference(list) \in Slots
    BY <1>2, <1>6 DEF Reference, Slots
  <2>4. c \in HostCells /\ c.cdr = ribs[root - 1].cdr /\ c.car = Reference(list)
    BY <2>2, <2>3 DEF HostCells
  <2>. QED BY <2>2, <2>4
<1>. HIDE DEF c
<1>8. /\ n \in 0 .. Len(given) - 1 /\ Len(todo) \in Nat \ {0} /\ v \in Seq(Nat) \X Seq(Nat)
      /\ given \in Seq(Seq(Nat) \X Seq(Nat)) /\ todo \in Seq(Entries)
      /\ g \in Seq(Seq(Nat) \X Seq(Nat)) /\ Len(todo) <= Len(given)
      /\ Acyclic(ribs', E) /\ ribs' \in Seq(HostCells) /\ Len(ribs') = Len(ribs)
      /\ ribs'[root - 1] = c /\ ribs'[root] = ribs[root] /\ root \in 5 .. Len(ribs)
      /\ \E old \in 0 .. root - 2 :
           /\ ribs[root] = Cell(Reference(root - 1), Reference(old), PairType)
           /\ VariablesAt(ribs', old, g)
      /\ \A i : \A s \in Seq(Nat) : TextAt(ribs, i, s) => TextAt(ribs', i, s)
  <2>1. Keeps(ribs', c, E, g, n, v)
    BY <1>1, <1>2, <1>4, <1>5, <1>7, EntryIs
  <2>. QED BY <2>1 DEF Keeps
<1>9. v = <<v[1], v[2]>> /\ v[1] \in Seq(Nat) /\ v[2] \in Seq(Nat)
  BY <1>8
<1>10. Head(todo) = todo[1] /\ todo # <<>>
  BY <1>8
<1>11. todo[1] = v /\ TextInHand(ribs, list, <<>>, v[1])
  <2>1. todo[1] # <<v[2]>>
    BY <1>1, <1>10
  <2>. QED BY <1>1, <1>3, <1>4, <2>1 DEF FillsEntry, Building
<1>12. TextAt(ribs', list, v[1])
  <2>1. TextAt(ribs, list, v[1])
    BY <1>11, TextInHandEnds
  <2>. QED BY <1>8, <1>9, <2>1
<1>13. /\ todo' = <<<<v[2]>>>> \o Tail(todo) /\ text' = v[2]
  <2>1. Tail(v) = <<v[2]>>
    <3>1. PICK x, y : v = <<x, y>>
      BY <1>9
    <3>2. Tail(<<x, y>>) = <<y>>
      OBVIOUS
    <3>. QED BY <3>1, <3>2
  <2>. QED BY <1>1, <1>10, <1>11, <2>1
<1>14. /\ todo' \in Seq(Entries) /\ Len(todo') = Len(todo) /\ todo'[1] = <<v[2]>>
       /\ \A k \in 2 .. Len(todo) : todo'[k] = todo[k]
  <2>1. <<v[2]>> \in Entries
    BY <1>9 DEF Entries
  <2>2. /\ Tail(todo) \in Seq(Entries) /\ Len(Tail(todo)) = Len(todo) - 1
        /\ \A k \in 1 .. Len(todo) - 1 : Tail(todo)[k] = todo[k + 1]
    <3>. HIDE DEF Entries
    <3>. QED BY <1>8, <1>10
  <2>3. PICK t, e : t = Tail(todo) /\ e = <<v[2]>>
    OBVIOUS
  <2>4. /\ todo' \in Seq(Entries) /\ Len(todo') = Len(t) + 1 /\ todo'[1] = e
        /\ \A k \in 2 .. Len(t) + 1 : todo'[k] = t[k - 1]
    <3>1. e \in Entries /\ t \in Seq(Entries) /\ todo' = <<e>> \o t
      BY <1>13, <2>1, <2>2, <2>3
    <3>. HIDE DEF Entries
    <3>. QED BY <3>1, FrontIs
  <2>5. Len(t) + 1 = Len(todo)
    BY <1>8, <2>2, <2>3
  <2>6. ASSUME NEW k \in 2 .. Len(todo)  PROVE todo'[k] = todo[k]
    <3>1. k - 1 \in 1 .. Len(todo) - 1 /\ (k - 1) + 1 = k
      BY <1>8
    <3>. QED BY <2>2, <2>3, <2>4, <2>5, <3>1
  <2>. QED BY <2>3, <2>4, <2>5, <2>6
<1>15. Done' = n
  BY <1>1, <1>4, <1>14 DEF Done
<1>16. HostShape'
  <2>1. NullCell \in (1 .. Len(ribs')) \ E
    BY <1>8, NullIs
  <2>. QED BY <1>1, <1>2, <1>8, <2>1 DEF HostShape
<1>17. FillsEntry'
  <2>1. \A k \in 2 .. Len(todo') : todo'[k] = given'[n + k]
    BY <1>1, <1>3, <1>4, <1>14 DEF FillsEntry
  <2>2. IsCons(ribs'[root' - 1].car) /\ ribs'[root' - 1].car.value = list
    <3>1. ribs'[root' - 1] = c
      BY <1>1, <1>8
    <3>2. IsCons(c.car) /\ c.car.value = list
      BY <1>7 DEF IsCons, Reference
    <3>. QED BY <3>1, <3>2
  <2>3. root' \in 5 .. Len(ribs')
    BY <1>1, <1>8
  <2>4. TextInHand(ribs', list', text', v[2])
    BY <1>1, <1>9, <1>13, TextInHandStarts
  <2>5. \E old \in 0 .. root' - 2 :
          /\ ribs'[root'] = Cell(Reference(root' - 1), Reference(old), PairType)
          /\ VariablesAt(ribs', old, FirstOnesReversed(given', n))
    BY <1>1, <1>4, <1>8
  <2>. QED BY <1>1, <1>4, <1>12, <1>14, <1>15, <2>1, <2>2, <2>3, <2>4, <2>5 DEF FillsEntry, Building
<1>18. ListsVariables'
  <2>1. Len(todo') <= Len(given') /\ todo' # <<>>
    BY <1>1, <1>8, <1>14
  <2>. QED BY <1>1, <1>8, <1>14, <1>17, <2>1 DEF ListsVariables
<1>. QED BY <1>16, <1>18 DEF HostInv

LEMMA SetVariableKeeps == HostInv /\ SetVariable => HostInv'
<1>. SUFFICES ASSUME HostInv, SetVariable  PROVE HostInv'
  OBVIOUS
<1>1. /\ routine = "environment" /\ phase = "string" /\ text = <<>> /\ Len(Head(todo)) = 1
      /\ ribs' = [ribs EXCEPT ![Entry].cdr = Reference(list)]
      /\ phase' = "next" /\ todo' = Tail(todo)
      /\ UNCHANGED <<root, routine, given, text, answer>>
  BY DEF SetVariable
<1>2. PICK E : /\ Acyclic(ribs, E) /\ root \in (1 .. Len(ribs)) \ E
               /\ list \in (1 .. Len(ribs)) \ E /\ root - 1 \in E
  BY <1>1, ShapeIs
<1>3. ListsVariables /\ FillsEntry
  BY <1>1 DEF HostInv, Calls, ListsArguments, ListsVariables
<1>4. PICK g, n, v : g = FirstOnesReversed(given, n) /\ n = Done /\ v = given[n + 1]
  OBVIOUS
<1>. DEFINE c == [ribs[root - 1] EXCEPT !.cdr = Reference(list)]
<1>5. Entry = root - 1 /\ ribs' = [ribs EXCEPT ![root - 1] = c]
  <2>1. PICK old : ribs[root] = Cell(Reference(root - 1), Reference(old), PairType)
    BY <1>3 DEF FillsEntry
  <2>2. ribs[root].car.value = root - 1
    BY <2>1 DEF Cell, Reference
  <2>. QED BY <1>1, <2>2 DEF Entry
<1>6. /\ ribs \in Seq(HostCells) /\ Len(ribs) \in Nat /\ Len(ribs) >= 3
      /\ E \subseteq 4 .. Len(ribs) /\ \A i \in 1 .. Len(ribs) : ribs[i] \in HostCells
  BY <1>2, AcyclicIs
<1>7. /\ c \in HostCells /\ c.cdr.value = list /\ c.car = ribs[root - 1].car
  <2>1. ribs[root - 1] \in HostCells
    <3>1. root - 1 \in 1 .. Len(ribs)
      BY <1>2, <1>6
    <3>. QED BY <1>6, <3>1
  <2>2. Reference(list) \in Slots /\ Reference(list).value = list
    BY <1>2, <1>6 DEF Reference, Slots
  <2>. QED BY <2>1, <2>2 DEF HostCells
<1>. HIDE DEF c
<1>8. /\ n \in 0 .. Len(given) - 1 /\ Len(todo) \in Nat \ {0} /\ v \in Seq(Nat) \X Seq(Nat)
      /\ given \in Seq(Seq(Nat) \X Seq(Nat)) /\ todo \in Seq(Entries)
      /\ g \in Seq(Seq(Nat) \X Seq(Nat)) /\ Len(todo) <= Len(given)
      /\ Acyclic(ribs', E) /\ ribs' \in Seq(HostCells) /\ Len(ribs') = Len(ribs)
      /\ ribs'[root - 1] = c /\ ribs'[root] = ribs[root] /\ root \in 5 .. Len(ribs)
      /\ \E old \in 0 .. root - 2 :
           /\ ribs[root] = Cell(Reference(root - 1), Reference(old), PairType)
           /\ VariablesAt(ribs', old, g)
      /\ \A i : \A s \in Seq(Nat) : TextAt(ribs, i, s) => TextAt(ribs', i, s)
  <2>1. c.cdr.value \in (1 .. Len(ribs)) \ E
    BY <1>2, <1>7
  <2>2. Keeps(ribs', c, E, g, n, v)
    BY <1>1, <1>2, <1>4, <1>5, <1>7, <2>1, EntryIs
  <2>. QED BY <2>2 DEF Keeps
<1>9. v = <<v[1], v[2]>> /\ v[1] \in Seq(Nat) /\ v[2] \in Seq(Nat)
  BY <1>8
<1>10. Head(todo) = todo[1] /\ todo # <<>>
  BY <1>8
<1>11. /\ todo[1] = <<v[2]>> /\ TextInHand(ribs, list, <<>>, v[2])
       /\ TextAt(ribs, ribs[root - 1].car.value, v[1])
  <2>1. todo[1] # v
    <3>1. Len(v) = 2
      <4>1. PICK x, y : v = <<x, y>>
        BY <1>9
      <4>. QED BY <4>1
    <3>2. Len(todo[1]) = 1
      BY <1>1, <1>10
    <3>. QED BY <3>1, <3>2
  <2>. QED BY <1>1, <1>3, <1>4, <2>1 DEF FillsEntry, Building
<1>12. VariableAt(ribs', root - 1, v)
  <2>1. TextAt(ribs, list, v[2])
    BY <1>11, TextInHandEnds
  <2>2. TextAt(ribs', list, v[2]) /\ TextAt(ribs', ribs[root - 1].car.value, v[1])
    BY <1>8, <1>9, <1>11, <2>1
  <2>. QED BY <1>7, <1>8, <2>2 DEF VariableAt
<1>13. VariablesAt(ribs', root, <<v>> \o g)
  <2>1. PICK old \in 0 .. root - 2 :
          /\ ribs[root] = Cell(Reference(root - 1), Reference(old), PairType)
          /\ VariablesAt(ribs', old, g)
    BY <1>8
  <2>2. root \in 5 .. Len(ribs') /\ ribs'[root] = Cell(Reference(root - 1), Reference(old), PairType)
    BY <1>8, <2>1
  <2>. QED BY <1>8, <1>12, <2>1, <2>2, VariablesGrow
<1>14. FirstOnesReversed(given, n + 1) = <<v>> \o g
  BY <1>4, <1>8, OneMore
<1>15. /\ todo' \in Seq(Entries) /\ Len(todo') = Len(todo) - 1
       /\ \A k \in 1 .. Len(todo) - 1 : todo'[k] = todo[k + 1]
  <2>. HIDE DEF Entries
  <2>. QED BY <1>1, <1>8, <1>10
<1>16. Done' = n + 1 /\ Len(todo') <= Len(given) /\ n \in Nat
  BY <1>1, <1>4, <1>8, <1>15 DEF Done
<1>17. HostShape'
  BY <1>1, <1>2, <1>8 DEF HostShape
<1>18. \A k \in 1 .. Len(todo') : todo'[k] = given[(n + 1) + k]
  <2>1. ASSUME NEW k \in 1 .. Len(todo')  PROVE todo'[k] = given[(n + 1) + k]
    <3>1. k \in 1 .. Len(todo) - 1
      BY <1>15
    <3>2. k + 1 \in 2 .. Len(todo) /\ n + (k + 1) = (n + 1) + k
      BY <1>8, <1>16, <3>1
    <3>3. todo[k + 1] = given[n + (k + 1)]
      BY <1>3, <1>4, <3>2 DEF FillsEntry
    <3>. QED BY <1>15, <3>1, <3>2, <3>3
  <2>. QED BY <2>1
<1>19. ListsVariables'
  BY <1>1, <1>8, <1>13, <1>14, <1>15, <1>16, <1>18 DEF ListsVariables
<1>. QED BY <1>17, <1>19 DEF HostInv

LEMMA HostStep == HostInv /\ [HostNext]_hostVars => HostInv'
<1>. SUFFICES ASSUME HostInv, [HostNext]_hostVars  PROVE HostInv'
  OBVIOUS
<1>1. CASE UNCHANGED hostVars
  BY <1>1 DEF hostVars, HostInv, HostShape, Calls, ListsArguments, ListsVariables, FillsEntry,
    Building, Done
<1>2. CASE \E kind \in Kinds, strings \in CommandLines : CommandLine(kind, strings)
  BY <1>2, CommandLineKeeps
<1>3. CASE \E kind \in Kinds, variables \in Environments : Environment(kind, variables)
  BY <1>3, EnvironmentKeeps
<1>4. CASE \E a \in Arguments : CallIdentity(a)
  BY <1>4, CallIdentityKeeps
<1>5. CASE AddCharacter \/ NextArgument \/ LinkArgument
  BY <1>5, AddCharacterKeeps, NextArgumentKeeps, LinkArgumentKeeps
<1>6. CASE MakeEntry \/ LinkEntry \/ SetName \/ SetVariable
  BY <1>6, MakeEntryKeeps, LinkEntryKeeps, SetNameKeeps, SetVariableKeeps
<1>7. CASE Push \/ ReturnString \/ HostFail
  BY <1>7, PushKeeps, ReturnStringKeeps, FailKeeps
<1>. QED BY <1>1, <1>2, <1>3, <1>4, <1>5, <1>6, <1>7 DEF HostNext

-----------------------------------------------------------------------------
(* What a program reads of such cells. A walk along cells without cycles ends. *)
Walks(r, n, S, g) ==
  \E f \in [0 .. n -> Seq(S)] :
    \A i \in 0 .. n :
      f[i] = IF i \in {NullCell, Stale} THEN <<>> ELSE <<g[i]>> \o f[r[i].cdr.value]

LEMMA WalkEnds ==
  ASSUME NEW r, NEW E, Acyclic(r, E), NEW n \in Nat, n = Len(r), NEW S, NEW g \in [0 .. n -> S]
  PROVE  Walks(r, n, S, g)
<1>1. /\ r \in Seq(HostCells) /\ Len(r) \in Nat /\ Len(r) >= 3 /\ E \subseteq 4 .. Len(r)
  BY AcyclicIs
<1>. DEFINE I == 0 .. n
            D == Seq(S)
            last == {NullCell, Stale}
            rank == [i \in I |-> IF i \in last THEN 0 ELSE IF i = 3 THEN 1 ELSE IF i = 2 THEN 2
                                ELSE IF i \in E THEN n + 1 ELSE i]
            go(f, i) == IF i \in last THEN <<>> ELSE <<g[i]>> \o f[r[i].cdr.value]
            body == [f \in [I -> D] |-> [i \in I |-> go(f, i)]]
<1>2. ASSUME NEW i \in I, i \notin last
      PROVE  r[i].cdr.value \in I /\ rank[r[i].cdr.value] < rank[i]
  <2>1. last = {0, 1}
    BY DEF NullCell, Stale
  <2>2. CASE i = 2
    <3>1. r[i].cdr.value = 3
      BY <2>2 DEF Acyclic, FalseCell, TrueCell, Reference
    <3>2. 2 \in I /\ 3 \in I
      BY <1>1
    <3>. QED BY <2>1, <2>2, <3>1, <3>2
  <2>3. CASE i = 3
    <3>1. r[i].cdr.value = 1
      BY <2>3 DEF Acyclic, TrueCell, NullCell, Reference
    <3>2. 1 \in I /\ 3 \in I
      BY <1>1
    <3>3. rank[3] = 1
      BY <2>1, <3>2
    <3>4. rank[1] = 0
      BY <2>1, <3>2
    <3>. HIDE DEF rank
    <3>. QED BY <2>3, <3>1, <3>2, <3>3, <3>4
  <2>4. CASE i \notin {2, 3}
    <3>1. i \in 4 .. n
      <4>1. i # 0 /\ i # 1 /\ i # 2 /\ i # 3 /\ i \in 0 .. n
        BY <1>2, <2>1, <2>4
      <4>. QED BY <4>1
    <3>. DEFINE j == r[i].cdr.value
    <3>2. j \in (1 .. n) \ E /\ (i \notin E => j < i)
      BY <3>1 DEF Acyclic
    <3>. HIDE DEF j
    <3>3. j \in I /\ j \notin E /\ i \in I
      BY <3>1, <3>2, <1>1
    <3>4. rank[j] = IF j = 1 THEN 0 ELSE IF j = 3 THEN 1 ELSE IF j = 2 THEN 2 ELSE j
      BY <2>1, <3>2, <3>3
    <3>5. rank[i] = IF i \in E THEN n + 1 ELSE i
      BY <2>1, <3>1, <3>3
    <3>6. rank[j] < rank[i]
      <4>. HIDE DEF rank
      <4>. QED BY <1>1, <3>1, <3>2, <3>4, <3>5
    <3>. QED BY <3>3, <3>6 DEF j
  <2>. QED BY <2>2, <2>3, <2>4
<1>3. <<>> \in D
  OBVIOUS
<1>4. n + 1 \in Nat /\ rank \in [I -> 0 .. n + 1]
  BY <1>1 DEF NullCell, Stale
<1>5. body \in [[I -> D] -> [I -> D]]
  <2>1. ASSUME NEW f \in [I -> D], NEW i \in I  PROVE go(f, i) \in D
    <3>1. CASE i \in last
      BY <3>1
    <3>2. CASE i \notin last
      <4>1. f[r[i].cdr.value] \in D /\ <<g[i]>> \in D
        <5>1. r[i].cdr.value \in I
          BY <1>2, <3>2
        <5>2. g[i] \in S
          OBVIOUS
        <5>. QED BY <5>1, <5>2
      <4>. QED BY <3>2, <4>1
    <3>. QED BY <3>1, <3>2
  <2>. HIDE DEF go, D, I
  <2>. QED BY <2>1
<1>6. ASSUME NEW f \in [I -> D], NEW h \in [I -> D], NEW i \in I,
             \A j \in I : rank[j] < rank[i] => f[j] = h[j]
      PROVE  body[f][i] = body[h][i]
  <2>1. go(f, i) = go(h, i)
    <3>. HIDE DEF rank, D
    <3>. QED BY <1>2, <1>6
  <2>. HIDE DEF go, rank, D, I
  <2>. QED BY <2>1
<1>7. \E f \in [I -> D] : f = body[f]
  <2>1. \A f, h \in [I -> D] : \A i \in I :
          (\A j \in I : rank[j] < rank[i] => f[j] = h[j]) => body[f][i] = body[h][i]
    <3>. HIDE DEF body, rank, D, I
    <3>. QED BY <1>6
  <2>2. PICK R : R \in Nat /\ R = n + 1
    BY <1>1
  <2>3. rank \in [I -> 0 .. R]
    BY <1>4, <2>2
  <2>. HIDE DEF body, rank, D, I
  <2>4. LooksDown(I, D, R, rank, body)
    BY <1>5, <2>1, <2>2, <2>3 DEF LooksDown
  <2>. QED BY <1>3, <2>4, RankedRuns
<1>8. PICK f \in [I -> D] : f = body[f]
  BY <1>7
<1>9. \A i \in I : f[i] = go(f, i)
  <2>. HIDE DEF go, D, I
  <2>. QED BY <1>8
<1>. QED BY <1>8, <1>9 DEF Walks

LEMMA CharactersAre ==
  ASSUME NEW E, Acyclic(ribs, E), NEW i, NEW s \in Seq(Nat), TextAt(ribs, i, s)
  PROVE  Characters(i) = s
<1>. DEFINE n == Len(ribs)
            go(f, j) == IF j \in {NullCell, Stale} THEN <<>>
                        ELSE <<ribs[j].car.value>> \o f[ribs[j].cdr.value]
            F == CHOOSE f : f = [j \in 0 .. n |-> go(f, j)]
            g == [j \in 0 .. n |-> ribs[j].car.value]
<1>1. \E f : f = [j \in 0 .. n |-> go(f, j)]
  <2>. DEFINE S == {g[j] : j \in 0 .. n}
  <2>1. n \in Nat /\ g \in [0 .. n -> S]
    BY AcyclicIs
  <2>2. \A j \in 0 .. n : g[j] = ribs[j].car.value
    OBVIOUS
  <2>. HIDE DEF g, S
  <2>3. PICK f \in [0 .. n -> Seq(S)] :
          \A j \in 0 .. n :
            f[j] = IF j \in {NullCell, Stale} THEN <<>> ELSE <<g[j]>> \o f[ribs[j].cdr.value]
    <3>1. Walks(ribs, n, S, g)
      BY <2>1, WalkEnds
    <3>. HIDE DEF n
    <3>. QED BY <3>1 DEF Walks
  <2>4. \A j \in 0 .. n : f[j] = go(f, j)
    BY <2>2, <2>3
  <2>5. f = [j \in 0 .. n |-> go(f, j)]
    <3>. HIDE DEF go, n, S
    <3>. QED BY <2>3, <2>4
  <2>. QED BY <2>5
<1>2. F = [j \in 0 .. n |-> go(F, j)]
  <2>. HIDE DEF go
  <2>. QED BY <1>1
<1>3. Characters(i) = F[i]
  BY DEF Characters, Items
<1>. HIDE DEF F
<1>4. PICK p : /\ p[1] = i /\ p[Len(s) + 1] = NullCell
               /\ \A k \in 1 .. Len(s) :
                    /\ p[k] \in 4 .. n
                    /\ ribs[p[k]] = Cell(Number(s[k]), Reference(p[k + 1]), PairType)
  BY DEF TextAt
<1>5. n \in Nat /\ n >= 3
  BY AcyclicIs
<1>6. F[NullCell] = <<>>
  BY <1>2, <1>5 DEF NullCell
<1>7. ASSUME NEW k \in 1 .. Len(s)  PROVE F[p[k]] = <<s[k]>> \o F[p[k + 1]]
  <2>1. p[k] \in 4 .. n /\ ribs[p[k]] = Cell(Number(s[k]), Reference(p[k + 1]), PairType)
    BY <1>4
  <2>2. ribs[p[k]].car.value = s[k] /\ ribs[p[k]].cdr.value = p[k + 1]
    BY <2>1 DEF Cell, Number, Reference
  <2>3. p[k] \in 0 .. n /\ p[k] \notin {NullCell, Stale}
    BY <2>1, <1>5 DEF NullCell, Stale
  <2>4. F[p[k]] = go(F, p[k])
    <3>. HIDE DEF go
    <3>. QED BY <1>2, <2>3
  <2>. QED BY <2>2, <2>3, <2>4
<1>8. PICK m : m \in Nat /\ m = Len(s)
  OBVIOUS
<1>9. \A k \in 1 .. m : F[p[k]] = <<s[k]>> \o F[p[k + 1]]
  <2>. HIDE DEF n, go
  <2>. QED BY <1>7, <1>8
<1>10. F[p[m + 1]] = <<>> /\ p[1] = i
  BY <1>4, <1>6, <1>8
<1>12. F[p[1]] = s
  <2>1. Collects(F, p, s)
    BY <1>8, <1>9, <1>10 DEF Collects
  <2>. QED BY <2>1, ChainCollects
<1>. QED BY <1>3, <1>10, <1>12

LEMMA ArgumentsAre ==
  ASSUME NEW E, Acyclic(ribs, E), NEW i, NEW s \in Seq(Seq(Nat)), StringsAt(ribs, i, s)
  PROVE  Items(i, Characters) = s
<1>. DEFINE n == Len(ribs)
            go(f, j) == IF j \in {NullCell, Stale} THEN <<>>
                        ELSE <<Characters(ribs[j].car.value)>> \o f[ribs[j].cdr.value]
            F == CHOOSE f : f = [j \in 0 .. n |-> go(f, j)]
            g == [j \in 0 .. n |-> Characters(ribs[j].car.value)]
<1>1. \E f : f = [j \in 0 .. n |-> go(f, j)]
  <2>. DEFINE S == {g[j] : j \in 0 .. n}
  <2>1. n \in Nat /\ g \in [0 .. n -> S]
    BY AcyclicIs
  <2>2. \A j \in 0 .. n : g[j] = Characters(ribs[j].car.value)
    OBVIOUS
  <2>. HIDE DEF g, S
  <2>3. PICK f \in [0 .. n -> Seq(S)] :
          \A j \in 0 .. n :
            f[j] = IF j \in {NullCell, Stale} THEN <<>> ELSE <<g[j]>> \o f[ribs[j].cdr.value]
    <3>1. Walks(ribs, n, S, g)
      BY <2>1, WalkEnds
    <3>. HIDE DEF n
    <3>. QED BY <3>1 DEF Walks
  <2>4. \A j \in 0 .. n : f[j] = go(f, j)
    BY <2>2, <2>3
  <2>5. f = [j \in 0 .. n |-> go(f, j)]
    <3>. HIDE DEF go, n, S
    <3>. QED BY <2>3, <2>4
  <2>. QED BY <2>5
<1>2. F = [j \in 0 .. n |-> go(F, j)]
  <2>. HIDE DEF go
  <2>. QED BY <1>1
<1>3. Items(i, Characters) = F[i]
  BY DEF Items
<1>. HIDE DEF F
<1>4. PICK q : /\ q[1] = i /\ q[Len(s) + 1] = NullCell
               /\ \A k \in 1 .. Len(s) :
                    /\ q[k] \in 4 .. n /\ ribs[q[k]].cdr = Reference(q[k + 1])
                    /\ TextAt(ribs, ribs[q[k]].car.value, s[k])
  BY DEF StringsAt
<1>5. n \in Nat /\ n >= 3
  BY AcyclicIs
<1>6. F[NullCell] = <<>>
  BY <1>2, <1>5 DEF NullCell
<1>7. ASSUME NEW k \in 1 .. Len(s)  PROVE F[q[k]] = <<s[k]>> \o F[q[k + 1]]
  <2>1. /\ q[k] \in 4 .. n /\ ribs[q[k]].cdr = Reference(q[k + 1])
        /\ TextAt(ribs, ribs[q[k]].car.value, s[k]) /\ s[k] \in Seq(Nat)
    BY <1>4
  <2>2. Characters(ribs[q[k]].car.value) = s[k] /\ ribs[q[k]].cdr.value = q[k + 1]
    BY <2>1, CharactersAre DEF Reference
  <2>3. q[k] \in 0 .. n /\ q[k] \notin {NullCell, Stale}
    BY <2>1, <1>5 DEF NullCell, Stale
  <2>4. F[q[k]] = go(F, q[k])
    <3>. HIDE DEF go
    <3>. QED BY <1>2, <2>3
  <2>. QED BY <2>2, <2>3, <2>4
<1>8. PICK m : m \in Nat /\ m = Len(s)
  OBVIOUS
<1>9. \A k \in 1 .. m : F[q[k]] = <<s[k]>> \o F[q[k + 1]]
  <2>. HIDE DEF n, go
  <2>. QED BY <1>7, <1>8
<1>10. F[q[m + 1]] = <<>> /\ q[1] = i
  BY <1>4, <1>6, <1>8
<1>12. F[q[1]] = s
  <2>1. Collects(F, q, s)
    BY <1>8, <1>9, <1>10 DEF Collects
  <2>. QED BY <2>1, ChainCollects
<1>. QED BY <1>3, <1>10, <1>12

LEMMA VariablesAre ==
  ASSUME NEW E, Acyclic(ribs, E), NEW i \in Nat, NEW s \in Seq(Seq(Nat) \X Seq(Nat)),
         VariablesAt(ribs, i, s)
  PROVE  Items(i, Variable) = s
<1>. DEFINE n == Len(ribs)
            go(f, j) == IF j \in {NullCell, Stale} THEN <<>>
                        ELSE <<Variable(ribs[j].car.value)>> \o f[ribs[j].cdr.value]
            F == CHOOSE f : f = [j \in 0 .. n |-> go(f, j)]
            g == [j \in 0 .. n |-> Variable(ribs[j].car.value)]
<1>1. \E f : f = [j \in 0 .. n |-> go(f, j)]
  <2>. DEFINE S == {g[j] : j \in 0 .. n}
  <2>1. n \in Nat /\ g \in [0 .. n -> S]
    BY AcyclicIs
  <2>2. \A j \in 0 .. n : g[j] = Variable(ribs[j].car.value)
    OBVIOUS
  <2>. HIDE DEF g, S
  <2>3. PICK f \in [0 .. n -> Seq(S)] :
          \A j \in 0 .. n :
            f[j] = IF j \in {NullCell, Stale} THEN <<>> ELSE <<g[j]>> \o f[ribs[j].cdr.value]
    <3>1. Walks(ribs, n, S, g)
      BY <2>1, WalkEnds
    <3>. HIDE DEF n
    <3>. QED BY <3>1 DEF Walks
  <2>4. \A j \in 0 .. n : f[j] = go(f, j)
    BY <2>2, <2>3
  <2>5. f = [j \in 0 .. n |-> go(f, j)]
    <3>. HIDE DEF go, n, S
    <3>. QED BY <2>3, <2>4
  <2>. QED BY <2>5
<1>2. F = [j \in 0 .. n |-> go(F, j)]
  <2>. HIDE DEF go
  <2>. QED BY <1>1
<1>3. Items(i, Variable) = F[i]
  BY DEF Items
<1>. HIDE DEF F
<1>4. PICK q : /\ q[1] = i /\ q[Len(s) + 1] = NullCell
               /\ \A k \in 1 .. Len(s) :
                    /\ q[k] \in 5 .. i /\ i <= n
                    /\ ribs[q[k]] = Cell(Reference(q[k] - 1), Reference(q[k + 1]), PairType)
                    /\ VariableAt(ribs, q[k] - 1, s[k])
  BY DEF VariablesAt
<1>5. n \in Nat /\ n >= 3
  BY AcyclicIs
<1>6. F[NullCell] = <<>>
  BY <1>2, <1>5 DEF NullCell
<1>7. ASSUME NEW k \in 1 .. Len(s)  PROVE F[q[k]] = <<s[k]>> \o F[q[k + 1]]
  <2>1. /\ q[k] \in 5 .. i /\ i <= n
        /\ ribs[q[k]] = Cell(Reference(q[k] - 1), Reference(q[k + 1]), PairType)
        /\ VariableAt(ribs, q[k] - 1, s[k]) /\ s[k] \in Seq(Nat) \X Seq(Nat)
    BY <1>4
  <2>2. ribs[q[k]].car.value = q[k] - 1 /\ ribs[q[k]].cdr.value = q[k + 1]
    BY <2>1 DEF Cell, Reference
  <2>3. s[k][1] \in Seq(Nat) /\ s[k][2] \in Seq(Nat) /\ s[k] = <<s[k][1], s[k][2]>>
    BY <2>1, SMTT(30)
  <2>4. Variable(q[k] - 1) = s[k]
    <3>1. Characters(ribs[q[k] - 1].car.value) = s[k][1]
      BY <2>1, <2>3, CharactersAre DEF VariableAt
    <3>2. Characters(ribs[q[k] - 1].cdr.value) = s[k][2]
      BY <2>1, <2>3, CharactersAre DEF VariableAt
    <3>. QED BY <2>3, <3>1, <3>2 DEF Variable
  <2>5. q[k] \in 0 .. n /\ q[k] \notin {NullCell, Stale}
    <3>1. PICK a : a = q[k]
      OBVIOUS
    <3>2. a \in Int /\ 5 <= a /\ a <= i /\ i <= n
      BY <2>1, <3>1
    <3>3. a \in 0 .. n /\ a # 0 /\ a # 1
      BY <3>2, <1>5
    <3>. QED BY <3>1, <3>3 DEF NullCell, Stale
  <2>6. F[q[k]] = go(F, q[k])
    <3>. HIDE DEF go
    <3>. QED BY <1>2, <2>5
  <2>. QED BY <2>2, <2>4, <2>5, <2>6
<1>8. PICK m : m \in Nat /\ m = Len(s)
  <2>1. Len(s) \in Nat
    BY LenProperties
  <2>. QED BY <2>1
<1>9. \A k \in 1 .. m : F[q[k]] = <<s[k]>> \o F[q[k + 1]]
  <2>. HIDE DEF n, go
  <2>. QED BY <1>7, <1>8
<1>10. F[q[m + 1]] = <<>> /\ q[1] = i
  BY <1>4, <1>6, <1>8
<1>12. F[q[1]] = s
  <2>1. Collects(F, q, s)
    BY <1>8, <1>9, <1>10 DEF Collects
  <2>. QED BY <2>1, ChainCollects
<1>. QED BY <1>3, <1>10, <1>12

LEMMA AllListed ==
  ASSUME NEW S, NEW s \in Seq(S)
  PROVE  LastOnes(s, Len(s)) = s /\ FirstOnesReversed(s, Len(s)) = Reverse(s)
<1>. DEFINE n == Len(s)
<1>1. n \in Nat /\ s = [k \in 1 .. n |-> s[k]]
  OBVIOUS
<1>. HIDE DEF n
<1>2. \A k \in 1 .. n : n - n + k = k /\ n + 1 - k = n - k + 1
  BY <1>1
<1>3. LastOnes(s, n) = s
  BY <1>1, <1>2 DEF LastOnes, n
<1>4. FirstOnesReversed(s, n) = Reverse(s)
  BY <1>2 DEF FirstOnesReversed, Reverse, n
<1>. QED BY <1>3, <1>4 DEF n

LEMMA IntegerIsKept ==
  ASSUME NEW n \in -HalfRange .. HalfRange - 1
  PROVE  IntegerFromScheme(Number(n)) = n
<1>. DEFINE H == HalfRange
<1>1. H \in Nat \ {0}
  BY HostAssumption
<1>. HIDE DEF H
<1>2. n \in -H .. H - 1
  BY DEF H
<1>3. n + H \in 0 .. 2 * H - 1 /\ 2 * H \in Nat \ {0}
  BY <1>1, <1>2
<1>4. (n + H) % (2 * H) = n + H
  <2>1. (2 * H) * 0 + (n + H) = n + H
    BY <1>1, <1>2
  <2>. QED BY <1>3, <2>1, OnlyRest
<1>5. (n + H) - H = n
  BY <1>1, <1>2
<1>. QED BY <1>4, <1>5 DEF IntegerFromScheme, Number, H

LEMMA HostInvKeeps == HostInv => HostKept
<1>. SUFFICES ASSUME HostInv, phase = "done"  PROVE HostKept
  BY DEF HostKept
<1>1. PICK E : Acyclic(ribs, E)
  BY ShapeIs
<1>2. CASE Calls
  <2>1. ASSUME given.type = "string"
        PROVE  StringFromScheme(answer) = given.value
               /\ ribs[answer.value].car = Number(Len(given.value))
    <3>1. PICK i : /\ answer = Reference(i) /\ ribs[i].car = Number(Len(given.value))
                   /\ TextAt(ribs, ribs[i].cdr.value, given.value)
      BY <1>2, <2>1 DEF Calls
    <3>2. given.value \in Seq(Nat)
      BY <1>2, <2>1, HostAssumption DEF Calls
    <3>3. Characters(ribs[i].cdr.value) = given.value
      BY <1>1, <3>1, <3>2, CharactersAre
    <3>. QED BY <3>1, <3>3 DEF StringFromScheme, Reference
  <2>2. ASSUME given.type = "integer", given.value \in -HalfRange .. HalfRange - 1
        PROVE  answer = Number(given.value)
    BY <1>2, <2>2, IntegerIsKept DEF Calls
  <2>3. routine = "call"
    BY <1>2 DEF Calls
  <2>. QED BY <2>1, <2>2, <2>3 DEF HostKept
<1>3. CASE ListsArguments
  <2>1. /\ answer = Reference(root) /\ given \in Seq(Seq(Nat)) /\ Done = Len(given)
        /\ routine = "command-line" /\ StringsAt(ribs, root, LastOnes(given, Done))
    <3>1. todo = <<>> /\ given \in Seq(Seq(Nat))
      BY <1>3 DEF ListsArguments
    <3>2. Done = Len(given)
      BY <3>1 DEF Done
    <3>. QED BY <1>3, <3>2 DEF ListsArguments
  <2>2. StringsAt(ribs, root, given)
    BY <2>1, AllListed
  <2>3. Items(root, Characters) = given
    BY <1>1, <2>1, <2>2, ArgumentsAre
  <2>4. Items(answer.value, Characters) = given
    BY <2>1, <2>3 DEF Reference
  <2>. QED BY <2>1, <2>4 DEF HostKept
<1>4. CASE ListsVariables
  <2>1. /\ answer = Reference(root) /\ given \in Seq(Seq(Nat) \X Seq(Nat)) /\ Done = Len(given)
        /\ routine = "environment" /\ VariablesAt(ribs, root, FirstOnesReversed(given, Done))
    <3>1. todo = <<>> /\ given \in Seq(Seq(Nat) \X Seq(Nat))
      BY <1>4 DEF ListsVariables
    <3>2. Done = Len(given)
      BY <3>1 DEF Done
    <3>. QED BY <1>4, <3>2 DEF ListsVariables
  <2>2. VariablesAt(ribs, root, Reverse(given)) /\ Reverse(given) \in Seq(Seq(Nat) \X Seq(Nat))
    <3>1. Len(given) \in 0 .. Len(given)
      BY <2>1
    <3>. QED BY <2>1, <3>1, AllListed, SomeOnes
  <2>3. Items(root, Variable) = Reverse(given)
    <3>1. root \in Nat
      <4>1. PICK B : Acyclic(ribs, B) /\ root \in (1 .. Len(ribs)) \ B
        BY <2>1 DEF HostInv, HostShape
      <4>. QED BY <4>1, AcyclicIs
    <3>. QED BY <1>1, <2>2, <3>1, VariablesAre
  <2>4. Items(answer.value, Variable) = Reverse(given)
    BY <2>1, <2>3 DEF Reference
  <2>. QED BY <2>1, <2>4 DEF HostKept
<1>. QED BY <1>2, <1>3, <1>4 DEF HostInv

(* What the host has arrives (HostKept): the lists of arguments and variables *)
(* that the process context builds, and strings and integers that cross, for  *)
(* texts of any length and wherever a collection strikes.                    *)
THEOREM HostDataArrive == HostSpec => []HostKept
<1>1. HostInit => HostInv
  BY HostStarts
<1>2. HostInv /\ [HostNext]_hostVars => HostInv'
  BY HostStep
<1>3. HostInv => HostKept
  BY HostInvKeeps
<1>. QED BY <1>1, <1>2, <1>3, PTL DEF HostSpec

-----------------------------------------------------------------------------
(* Data and the primitives that look at them.                                *)

DataSlots == [type : {"number", "cons"}, value : Int]
DataCells == [car : DataSlots, cdr : DataSlots, tag : 0 .. 7]
AllKinds ==
  {"null", "false", "true", "pair", "character", "symbol", "string", "vector"}

(* A field of cell i is a number or refers to an older cell.                  *)
Older(v, i) ==
  (\E m \in Int : v = Number(m)) \/ (\E k \in 1 .. i - 1 : v = Reference(k))

(* Cell i is what the constructor of its kind makes, out of older cells.      *)
MadeSequence(d, t, E, i, kind, tag) ==
  /\ t[i] = kind
  /\ \E l \in DOMAIN E : l < i /\ d[i] = Cell(Number(Len(E[l])), Reference(l), tag)

MadeCell(d, t, E, i) ==
  \/ /\ t[i] = "pair" /\ d[i].tag = PairType
     /\ Older(d[i].car, i) /\ Older(d[i].cdr, i)
  \/ t[i] = "character" /\ \E m \in Int : d[i] = Cell(Number(m), Reference(NullCell), CharType)
  \/ t[i] = "symbol" /\ d[i] = Cell(Reference(FalseCell), Reference(NullCell), SymbolType)
  \/ MadeSequence(d, t, E, i, "string", StringType)
  \/ MadeSequence(d, t, E, i, "vector", VectorType)

FieldAs(W, x) == IF IsCons(x) THEN W[x.value] ELSE <<"number", x.value>>

WrittenAs(d, t, W, i) ==
  IF t[i] \in {"null", "false", "true", "symbol"} THEN <<t[i], i>>
  ELSE IF t[i] = "pair" THEN <<"pair", FieldAs(W, d[i].car), FieldAs(W, d[i].cdr)>>
  ELSE IF t[i] = "character" THEN <<"character", d[i].car.value>>
  ELSE <<t[i], FieldAs(W, d[i].cdr)>>

Links(d, t, L, i) == t[i] = "pair" /\ IsCons(d[i].cdr) /\ d[i].cdr.value \in L

FirstCells(d, t) ==
  /\ d \in Seq(DataCells) /\ t \in Seq(AllKinds) /\ Len(d) = Len(t) /\ Len(d) >= 3
  /\ t[1] = "null" /\ t[2] = "false" /\ t[3] = "true"
  /\ d[1].tag = NullType /\ d[2].tag = BooleanType /\ d[3].tag = BooleanType

(* What is made so far, its lists with their elements (E) and its text (W).    *)
IsData(d, t, E, W) ==
  /\ FirstCells(d, t)
  /\ E \in [DOMAIN E -> Seq(DataSlots)] /\ DOMAIN E \subseteq 1 .. Len(d)
  /\ 1 \in DOMAIN E /\ E[1] = <<>>
  /\ \A i \in 2 .. Len(d) : i \in DOMAIN E <=> Links(d, t, DOMAIN E, i)
  /\ \A i \in DOMAIN E : i # 1 => E[i] = <<d[i].car>> \o E[d[i].cdr.value]
  /\ \A i \in 1 .. Len(d) : W[i] = WrittenAs(d, t, W, i)
  /\ \A i \in 4 .. Len(d) : MadeCell(d, t, E, i)

DataInv == \E E, W : IsData(data, kinds, E, W)

-----------------------------------------------------------------------------
(* What holds of a number if it holds of all the smaller ones.               *)
LEMMA FromSmaller ==
  ASSUME NEW n \in Nat, NEW T, \A i \in 1 .. n : 1 .. i - 1 \subseteq T => i \in T
  PROVE  1 .. n \subseteq T
<1>. DEFINE U == {m \in 0 .. n : 1 .. m \subseteq T}
<1>1. 0 \in U
  OBVIOUS
<1>2. ASSUME NEW m \in 0 .. n - 1, m \in U  PROVE m + 1 \in U
  <2>1. m + 1 \in 1 .. n /\ (m + 1) - 1 = m /\ 1 .. m \subseteq T
    BY <1>2
  <2>2. m + 1 \in T
    BY <2>1
  <2>3. \A k \in 1 .. m + 1 : k \in 1 .. m \/ k = m + 1
    OBVIOUS
  <2>. QED BY <2>1, <2>2, <2>3
<1>3. n \in U
  <2>. HIDE DEF U
  <2>. QED BY <1>1, <1>2, CountsTo
<1>. QED BY <1>3

LEMMA DataIs ==
  ASSUME NEW d, NEW t, NEW E, NEW W, IsData(d, t, E, W)
  PROVE  /\ Len(d) \in Nat /\ Len(d) >= 3 /\ DOMAIN d = 1 .. Len(d)
         /\ \A i \in 1 .. Len(d) : d[i] \in DataCells /\ t[i] \in AllKinds
BY DEF IsData, FirstCells

(* A pair of a list comes after its rest.                                    *)
LEMMA PairFields ==
  ASSUME NEW d, NEW t, NEW E, NEW W, IsData(d, t, E, W), NEW i \in 1 .. Len(d), t[i] = "pair"
  PROVE  i \in 4 .. Len(d) /\ Older(d[i].car, i) /\ Older(d[i].cdr, i) /\ d[i].tag = PairType
<1>1. i \in 4 .. Len(d)
  <2>1. i # 1 /\ i # 2 /\ i # 3
    BY DEF IsData, FirstCells
  <2>. QED BY <2>1
<1>2. MadeCell(d, t, E, i)
  BY <1>1 DEF IsData
<1>. QED BY <1>1, <1>2 DEF MadeCell, MadeSequence

LEMMA OlderCell ==
  ASSUME NEW v, NEW i \in Nat, Older(v, i), IsCons(v)
  PROVE  v.value \in 1 .. i - 1 /\ v = Reference(v.value)
BY DEF Older, IsCons, Reference, Number

LEMMA ListsAre ==
  ASSUME NEW E, NEW W, IsData(data, kinds, E, W)
  PROVE  Lists = DOMAIN E
<1>. DEFINE n == Len(data)
            go(f, i) == \/ kinds[i] = "null"
                        \/ kinds[i] = "pair" /\ IsCons(data[i].cdr) /\ f[data[i].cdr.value]
            F == CHOOSE f : f = [i \in DOMAIN data |-> go(f, i)]
            g == [i \in DOMAIN data |-> i \in DOMAIN E]
<1>1. n \in Nat /\ n >= 3 /\ DOMAIN data = 1 .. n
  BY DataIs
<1>2. \A i \in 1 .. n : kinds[i] = "null" <=> i = 1
  <2>1. ASSUME NEW i \in 4 .. n  PROVE kinds[i] # "null"
    BY <2>1 DEF IsData, MadeCell, MadeSequence
  <2>2. kinds[1] = "null" /\ kinds[2] = "false" /\ kinds[3] = "true"
    BY DEF IsData, FirstCells
  <2>3. \A i \in 1 .. n : i = 1 \/ i = 2 \/ i = 3 \/ i \in 4 .. n
    BY <1>1
  <2>. QED BY <2>1, <2>2, <2>3
<1>3. ASSUME NEW i \in 1 .. n, kinds[i] = "pair", IsCons(data[i].cdr)
      PROVE  data[i].cdr.value \in 1 .. i - 1
  BY <1>3, PairFields, OlderCell
<1>4. \A i \in 1 .. n : i \in DOMAIN E <=>
        \/ kinds[i] = "null"
        \/ kinds[i] = "pair" /\ IsCons(data[i].cdr) /\ data[i].cdr.value \in DOMAIN E
  <2>1. \A i \in 1 .. n : i = 1 \/ i \in 2 .. n
    OBVIOUS
  <2>. QED BY <1>2, <2>1 DEF IsData, Links
<1>5. g = [i \in DOMAIN data |-> go(g, i)]
  <2>1. \A i \in 1 .. n : (i \in DOMAIN E) <=> go(g, i)
    <3>1. ASSUME NEW i \in 1 .. n  PROVE i \in DOMAIN E <=> go(g, i)
      <4>1. CASE kinds[i] = "pair" /\ IsCons(data[i].cdr)
        <5>1. data[i].cdr.value \in DOMAIN data
          BY <1>1, <1>3, <4>1
        <5>2. g[data[i].cdr.value] <=> data[i].cdr.value \in DOMAIN E
          BY <5>1
        <5>. QED BY <1>4, <4>1, <5>2
      <4>2. CASE ~(kinds[i] = "pair" /\ IsCons(data[i].cdr))
        BY <1>4, <4>2
      <4>. QED BY <4>1, <4>2
    <3>. HIDE DEF g
    <3>. QED BY <3>1
  <2>. DEFINE h == [i \in DOMAIN data |-> go(g, i)]
  <2>2. g \in [DOMAIN data -> BOOLEAN]
    OBVIOUS
  <2>3. h \in [DOMAIN data -> BOOLEAN]
    <3>1. \A i \in DOMAIN data : go(g, i) \in BOOLEAN
      <4>. HIDE DEF g
      <4>1. \A i : IsCons(data[i].cdr) \in BOOLEAN
        BY DEF IsCons
      <4>2. ASSUME NEW i \in DOMAIN data, kinds[i] = "pair", IsCons(data[i].cdr)
            PROVE  g[data[i].cdr.value] \in BOOLEAN
        BY <1>1, <1>3, <2>2, <4>2
      <4>. QED BY <4>1, <4>2
    <3>. HIDE DEF g, go
    <3>. QED BY <3>1
  <2>4. \A i \in DOMAIN data : g[i] <=> h[i]
    <3>1. \A i \in DOMAIN data : g[i] <=> i \in DOMAIN E
      OBVIOUS
    <3>2. \A i \in DOMAIN data : h[i] <=> go(g, i)
      <4>. HIDE DEF g, go
      <4>. QED OBVIOUS
    <3>. HIDE DEF g, h, go
    <3>. QED BY <1>1, <2>1, <3>1, <3>2
  <2>5. g = h
    <3>. HIDE DEF g, h
    <3>. QED BY <2>2, <2>3, <2>4
  <2>. QED BY <2>5
<1>6. F = [i \in DOMAIN data |-> go(F, i)]
  <2>. HIDE DEF go, g
  <2>. QED BY <1>5
<1>. HIDE DEF F
<1>7. \A i \in 1 .. n : F[i] <=> go(F, i)
  BY <1>1, <1>6
<1>. DEFINE T == {i \in 1 .. n : F[i] <=> i \in DOMAIN E}
<1>8. 1 .. n \subseteq T
  <2>1. ASSUME NEW i \in 1 .. n, 1 .. i - 1 \subseteq T  PROVE i \in T
    <3>1. go(F, i) <=> i \in DOMAIN E
      <4>1. CASE kinds[i] = "pair" /\ IsCons(data[i].cdr)
        <5>1. data[i].cdr.value \in T
          BY <1>3, <2>1, <4>1
        <5>. QED BY <1>4, <4>1, <5>1
      <4>2. CASE ~(kinds[i] = "pair" /\ IsCons(data[i].cdr))
        BY <1>4, <4>2
      <4>. QED BY <4>1, <4>2
    <3>. QED BY <1>7, <3>1
  <2>. HIDE DEF T
  <2>. QED BY <1>1, <2>1, FromSmaller
<1>9. Lists = {i \in DOMAIN data : F[i]}
  BY DEF Lists, F
<1>10. DOMAIN E \subseteq 1 .. n
  BY DEF IsData
<1>. QED BY <1>1, <1>8, <1>9, <1>10

(* The link of a list from cell i to cell p.                                 *)
Link(d, t, E, i, p) ==
  /\ i \in 4 .. Len(d) /\ t[i] = "pair" /\ d[i].cdr = Reference(p)
  /\ p \in DOMAIN E /\ p \in 1 .. i - 1 /\ E[i] = <<d[i].car>> \o E[p]
  /\ E[p] \in Seq(DataSlots) /\ d[i].car \in DataSlots /\ Len(E[i]) = Len(E[p]) + 1

LEMMA ListLink ==
  ASSUME NEW d, NEW t, NEW E, NEW W, IsData(d, t, E, W), NEW i \in DOMAIN E, i # 1
  PROVE  \E p : Link(d, t, E, i, p)
<1>. DEFINE p == d[i].cdr.value
<1>0. t[i] = "pair" /\ IsCons(d[i].cdr) /\ p \in DOMAIN E
  <2>1. i \in 2 .. Len(d)
    BY DataIs DEF IsData
  <2>2. Links(d, t, DOMAIN E, i)
    BY <2>1 DEF IsData
  <2>. QED BY <2>2 DEF Links
<1>1. i \in 4 .. Len(d) /\ t[i] = "pair" /\ Older(d[i].cdr, i)
  <2>1. i \in 1 .. Len(d)
    BY DEF IsData
  <2>. QED BY <1>0, <2>1, PairFields
<1>2. p \in DOMAIN E /\ p \in 1 .. i - 1 /\ d[i].cdr = Reference(p)
  BY <1>0, <1>1, OlderCell
<1>3. E[i] = <<d[i].car>> \o E[p]
  BY DEF IsData
<1>. HIDE DEF p
<1>4. E[p] \in Seq(DataSlots)
  BY <1>2 DEF IsData
<1>5. d[i].car \in DataSlots
  <2>1. d[i] \in DataCells
    BY <1>1, DataIs
  <2>. QED BY <2>1 DEF DataCells
<1>6. Len(E[i]) = Len(E[p]) + 1
  BY <1>3, <1>4, <1>5
<1>. QED BY <1>1, <1>2, <1>3, <1>4, <1>5, <1>6 DEF Link

TagOf(kind) == IF kind = "string" THEN StringType ELSE VectorType

LEMMA SequenceFields ==
  ASSUME NEW d, NEW t, NEW E, NEW W, IsData(d, t, E, W), NEW i \in 1 .. Len(d),
         t[i] \in {"string", "vector"}
  PROVE  /\ i \in 4 .. Len(d)
         /\ \E l \in DOMAIN E : /\ l \in 1 .. i - 1 /\ d[i].cdr = Reference(l)
                               /\ d[i].car = Number(Len(E[l])) /\ d[i].tag = TagOf(t[i])
<1>1. i \in 4 .. Len(d)
  <2>1. i # 1 /\ i # 2 /\ i # 3
    BY DEF IsData, FirstCells
  <2>. QED BY <2>1
<1>2. MadeCell(d, t, E, i)
  BY <1>1 DEF IsData
<1>3. MadeSequence(d, t, E, i, t[i], TagOf(t[i]))
  BY <1>2 DEF MadeCell, TagOf, MadeSequence
<1>4. PICK l \in DOMAIN E : l < i /\ d[i] = Cell(Number(Len(E[l])), Reference(l), TagOf(t[i]))
  BY <1>3 DEF MadeSequence
<1>5. l \in 1 .. i - 1
  BY <1>1, <1>4, DataIs DEF IsData
<1>. QED BY <1>1, <1>4, <1>5 DEF Cell, Reference, IsCons

LEMMA ElementsAre ==
  ASSUME NEW E, NEW W, IsData(data, kinds, E, W), NEW xs \in DOMAIN E
  PROVE  Elements(xs) = E[xs]
<1>. DEFINE n == Len(data)
            go(f, i) == IF i = NullCell THEN <<>> ELSE <<data[i].car>> \o f[data[i].cdr.value]
            F == CHOOSE f : f = [i \in Lists |-> go(f, i)]
<1>1. Lists = DOMAIN E /\ n \in Nat /\ DOMAIN E \subseteq 1 .. n
  BY ListsAre, DataIs DEF IsData
<1>2. E = [i \in Lists |-> go(E, i)]
  <2>1. \A i \in DOMAIN E : E[i] = go(E, i)
    BY DEF NullCell, IsData
  <2>2. E = [i \in DOMAIN E |-> E[i]]
    BY DEF IsData
  <2>. HIDE DEF go
  <2>. QED BY <1>1, <2>1, <2>2
<1>3. F = [i \in Lists |-> go(F, i)]
  <2>. HIDE DEF go
  <2>. QED BY <1>2
<1>. HIDE DEF F
<1>4. \A i \in DOMAIN E : F[i] = go(F, i) /\ E[i] = go(E, i)
  <2>. HIDE DEF go
  <2>. QED BY <1>1, <1>2, <1>3
<1>. DEFINE T == {i \in 1 .. n : i \in DOMAIN E => F[i] = E[i]}
<1>5. 1 .. n \subseteq T
  <2>1. ASSUME NEW i \in 1 .. n, 1 .. i - 1 \subseteq T, i \in DOMAIN E  PROVE F[i] = E[i]
    <3>1. CASE i = 1
      BY <1>4, <2>1, <3>1 DEF NullCell
    <3>2. CASE i # 1
      <4>1. PICK p : Link(data, kinds, E, i, p)
        BY <2>1, <3>2, ListLink
      <4>2. data[i].cdr.value = p /\ F[p] = E[p]
        BY <2>1, <4>1 DEF Link, Reference
      <4>. QED BY <1>4, <2>1, <4>2
    <3>. QED BY <3>1, <3>2
  <2>2. ASSUME NEW i \in 1 .. n, 1 .. i - 1 \subseteq T  PROVE i \in T
    BY <2>1, <2>2
  <2>. HIDE DEF T
  <2>. QED BY <1>1, <2>2, FromSmaller
<1>6. F[xs] = E[xs]
  BY <1>1, <1>5
<1>. QED BY <1>6 DEF Elements, F

LEMMA WrittenIs ==
  ASSUME NEW E, NEW W, IsData(data, kinds, E, W), NEW v
  PROVE  IsCons(v) /\ v.value \in 1 .. Len(data) => Written(v) = W[v.value]
<1>. DEFINE n == Len(data)
            F == CHOOSE f : f = [i \in DOMAIN data |-> WrittenAs(data, kinds, f, i)]
            V == [i \in DOMAIN data |-> W[i]]
<1>1. n \in Nat /\ DOMAIN data = 1 .. n /\ \A i \in 1 .. n : W[i] = WrittenAs(data, kinds, W, i)
  BY DataIs DEF IsData
<1>2. ASSUME NEW f, NEW g, NEW i \in 1 .. n, \A j \in 1 .. i - 1 : f[j] = g[j]
      PROVE  WrittenAs(data, kinds, f, i) = WrittenAs(data, kinds, g, i)
  <2>1. CASE kinds[i] \in {"null", "false", "true", "symbol", "character"}
    BY <2>1 DEF WrittenAs
  <2>2. CASE kinds[i] = "pair"
    <3>1. Older(data[i].car, i) /\ Older(data[i].cdr, i)
      BY <2>2, PairFields
    <3>2. FieldAs(f, data[i].car) = FieldAs(g, data[i].car)
      BY <1>2, <3>1, OlderCell DEF FieldAs
    <3>3. FieldAs(f, data[i].cdr) = FieldAs(g, data[i].cdr)
      BY <1>2, <3>1, OlderCell DEF FieldAs
    <3>. QED BY <2>2, <3>2, <3>3 DEF WrittenAs
  <2>3. CASE kinds[i] \in {"string", "vector"}
    <3>3. PICK l \in DOMAIN E : l \in 1 .. i - 1 /\ data[i].cdr = Reference(l)
      BY <2>3, SequenceFields
    <3>4. FieldAs(f, data[i].cdr) = FieldAs(g, data[i].cdr)
      BY <1>2, <3>3 DEF FieldAs, Reference, IsCons
    <3>. QED BY <2>3, <3>4 DEF WrittenAs
  <2>. QED BY <2>1, <2>2, <2>3, DataIs DEF AllKinds
<1>3. V = [i \in DOMAIN data |-> WrittenAs(data, kinds, V, i)]
  <2>1. \A i \in 1 .. n : W[i] = WrittenAs(data, kinds, V, i)
    <3>1. \A i \in 1 .. n : V[i] = W[i] /\ V[i] = WrittenAs(data, kinds, W, i)
      BY <1>1
    <3>. HIDE DEF V
    <3>2. ASSUME NEW i \in 1 .. n  PROVE WrittenAs(data, kinds, W, i) = WrittenAs(data, kinds, V, i)
      <4>1. \A j \in 1 .. i - 1 : W[j] = V[j]
        BY <3>1, <1>1
      <4>. QED BY <1>2, <4>1
    <3>. QED BY <1>1, <3>2
  <2>. QED BY <1>1, <2>1
<1>4. F = [i \in DOMAIN data |-> WrittenAs(data, kinds, F, i)]
  <2>. HIDE DEF V
  <2>. QED BY <1>3
<1>. HIDE DEF F
<1>5. \A i \in 1 .. n : F[i] = WrittenAs(data, kinds, F, i)
  BY <1>1, <1>4
<1>. DEFINE T == {i \in 1 .. n : F[i] = W[i]}
<1>6. 1 .. n \subseteq T
  <2>1. ASSUME NEW i \in 1 .. n, 1 .. i - 1 \subseteq T  PROVE i \in T
    <3>1. \A j \in 1 .. i - 1 : F[j] = W[j]
      BY <2>1
    <3>. QED BY <1>1, <1>2, <1>5, <3>1
  <2>. HIDE DEF T
  <2>. QED BY <1>1, <2>1, FromSmaller
<1>7. IsCons(v) => Written(v) = F[v.value]
  BY DEF Written, WrittenAs, FieldAs, F
<1>. QED BY <1>6, <1>7

-----------------------------------------------------------------------------
(* Tags and the text tell the kind of a cell.                                *)
KindTag(kind) ==
  CASE kind = "null" -> NullType [] kind \in {"false", "true"} -> BooleanType
    [] kind = "pair" -> PairType [] kind = "character" -> CharType
    [] kind = "symbol" -> SymbolType [] kind = "string" -> StringType
    [] kind = "vector" -> VectorType

LEMMA FirstKinds ==
  ASSUME NEW d, NEW t, NEW E, NEW W, IsData(d, t, E, W), NEW i \in 1 .. Len(d)
  PROVE  /\ t[i] = "null" <=> i = 1
         /\ t[i] = "false" <=> i = 2
         /\ t[i] = "true" <=> i = 3
<1>1. t[1] = "null" /\ t[2] = "false" /\ t[3] = "true"
  BY DEF IsData, FirstCells
<1>2. CASE i \in 4 .. Len(d)
  <2>1. MadeCell(d, t, E, i)
    BY <1>2 DEF IsData
  <2>2. t[i] \in {"pair", "character", "symbol", "string", "vector"}
    BY <2>1 DEF MadeCell, MadeSequence
  <2>. QED BY <1>2, <2>2
<1>3. CASE i \notin 4 .. Len(d)
  <2>1. i = 1 \/ i = 2 \/ i = 3
    BY <1>3, DataIs
  <2>. QED BY <1>1, <2>1
<1>. QED BY <1>2, <1>3

LEMMA TagTells ==
  ASSUME NEW d, NEW t, NEW E, NEW W, IsData(d, t, E, W), NEW i \in 1 .. Len(d)
  PROVE  d[i].tag = KindTag(t[i])
<1>1. CASE i \in 4 .. Len(d)
  <2>1. MadeCell(d, t, E, i)
    BY <1>1 DEF IsData
  <2>2. CASE t[i] = "pair"
    BY <2>2, PairFields DEF KindTag
  <2>3. CASE t[i] \in {"string", "vector"}
    BY <2>3, SequenceFields DEF KindTag, TagOf
  <2>4. CASE t[i] = "character"
    <3>1. PICK m \in Int : d[i] = Cell(Number(m), Reference(NullCell), CharType)
      BY <2>1, <2>4 DEF MadeCell, MadeSequence
    <3>. QED BY <2>4, <3>1 DEF KindTag, Cell, Reference, IsCons
  <2>5. CASE t[i] = "symbol"
    <3>1. d[i] = Cell(Reference(FalseCell), Reference(NullCell), SymbolType)
      BY <2>1, <2>5 DEF MadeCell, MadeSequence
    <3>. QED BY <2>5, <3>1 DEF KindTag, Cell, Reference, IsCons
  <2>. QED BY <2>1, <2>2, <2>3, <2>4, <2>5 DEF MadeCell, MadeSequence
<1>2. CASE i \notin 4 .. Len(d)
  <2>1. i = 1 \/ i = 2 \/ i = 3
    BY <1>2, DataIs
  <2>. QED BY <2>1 DEF IsData, FirstCells, KindTag
<1>. QED BY <1>1, <1>2

LEMMA WrittenKind ==
  ASSUME NEW d, NEW t, NEW E, NEW W, IsData(d, t, E, W), NEW i \in 1 .. Len(d)
  PROVE  W[i] = WrittenAs(d, t, W, i) /\ W[i][1] = t[i] /\ t[i] \in AllKinds
<1>1. W[i] = WrittenAs(d, t, W, i) /\ t[i] \in AllKinds
  <2>1. W[i] = WrittenAs(d, t, W, i)
    BY DEF IsData
  <2>. QED BY <2>1, DataIs
<1>2. WrittenAs(d, t, W, i)[1] = t[i]
  <2>1. CASE t[i] \in {"null", "false", "true", "symbol"}
    BY <2>1 DEF WrittenAs
  <2>2. CASE t[i] = "pair"
    BY <2>2 DEF WrittenAs
  <2>3. CASE t[i] = "character"
    BY <2>3 DEF WrittenAs
  <2>4. CASE t[i] \in {"string", "vector"}
    BY <2>4 DEF WrittenAs
  <2>. QED BY <1>1, <2>1, <2>2, <2>3, <2>4 DEF AllKinds
<1>. QED BY <1>1, <1>2

(* What a text has in it.                                                   *)
LEMMA WrittenPair ==
  ASSUME NEW d, NEW t, NEW W, NEW i, NEW j, t[i] = "pair", t[j] = "pair"
  PROVE  WrittenAs(d, t, W, i) = WrittenAs(d, t, W, j) <=>
           /\ FieldAs(W, d[i].car) = FieldAs(W, d[j].car)
           /\ FieldAs(W, d[i].cdr) = FieldAs(W, d[j].cdr)
<1>. DEFINE a == FieldAs(W, d[i].car)
            b == FieldAs(W, d[i].cdr)
            x == FieldAs(W, d[j].car)
            y == FieldAs(W, d[j].cdr)
<1>1. WrittenAs(d, t, W, i) = <<"pair", a, b>> /\ WrittenAs(d, t, W, j) = <<"pair", x, y>>
  BY DEF WrittenAs
<1>. HIDE DEF a, b, x, y
<1>2. <<"pair", a, b>> = <<"pair", x, y>> <=> a = x /\ b = y
  OBVIOUS
<1>. QED BY <1>1, <1>2 DEF a, b, x, y

LEMMA WrittenSequence ==
  ASSUME NEW d, NEW t, NEW W, NEW i, NEW j, t[i] \in {"string", "vector"}, t[j] = t[i]
  PROVE  WrittenAs(d, t, W, i) = WrittenAs(d, t, W, j) <=>
           FieldAs(W, d[i].cdr) = FieldAs(W, d[j].cdr)
<1>. DEFINE b == FieldAs(W, d[i].cdr)
            y == FieldAs(W, d[j].cdr)
<1>1. WrittenAs(d, t, W, i) = <<t[i], b>> /\ WrittenAs(d, t, W, j) = <<t[i], y>>
  BY DEF WrittenAs
<1>. HIDE DEF b, y
<1>2. <<t[i], b>> = <<t[i], y>> <=> b = y
  OBVIOUS
<1>. QED BY <1>1, <1>2 DEF b, y

(* Lists that are written alike have the same length.                        *)
LEMMA LengthsAgree ==
  ASSUME NEW d, NEW t, NEW E, NEW W, IsData(d, t, E, W), NEW a \in DOMAIN E
  PROVE  \A b \in DOMAIN E : W[a] = W[b] => Len(E[a]) = Len(E[b])
<1>. DEFINE n == Len(d)
            T == {i \in 1 .. n : i \in DOMAIN E =>
                    \A j \in DOMAIN E : W[i] = W[j] => Len(E[i]) = Len(E[j])}
<1>1. n \in Nat /\ DOMAIN E \subseteq 1 .. n
  BY DataIs DEF IsData
<1>2. ASSUME NEW i \in DOMAIN E, 1 .. i - 1 \subseteq T, NEW j \in DOMAIN E, W[i] = W[j]
      PROVE  Len(E[i]) = Len(E[j])
  <2>1. t[i] = t[j]
    BY <1>1, <1>2, WrittenKind
  <2>2. CASE i = 1
    <3>1. t[j] = "null"
      BY <2>1, <2>2 DEF IsData, FirstCells
    <3>2. j = 1
      BY <1>1, <3>1, FirstKinds
    <3>. QED BY <2>2, <3>2
  <2>3. CASE i # 1
    <3>1. j # 1
      <4>1. t[i] # "null"
        BY <1>1, <2>3, FirstKinds
      <4>. QED BY <2>1, <4>1 DEF IsData, FirstCells
    <3>2. PICK p : Link(d, t, E, i, p)
      BY <2>3, ListLink
    <3>3. PICK q : Link(d, t, E, j, q)
      BY <3>1, ListLink
    <3>4. W[i] = WrittenAs(d, t, W, i) /\ W[j] = WrittenAs(d, t, W, j)
      BY <1>1, WrittenKind
    <3>5. FieldAs(W, d[i].cdr) = FieldAs(W, d[j].cdr)
      <4>1. t[i] = "pair" /\ t[j] = "pair" /\ WrittenAs(d, t, W, i) = WrittenAs(d, t, W, j)
        BY <1>2, <3>2, <3>3, <3>4 DEF Link
      <4>. QED BY <4>1, WrittenPair
    <3>6. W[p] = W[q]
      BY <3>2, <3>3, <3>5 DEF Link, FieldAs, Reference, IsCons
    <3>7. Len(E[p]) = Len(E[q])
      <4>1. p \in T /\ p \in DOMAIN E /\ q \in DOMAIN E
        BY <1>2, <3>2, <3>3 DEF Link
      <4>. QED BY <3>6, <4>1
    <3>9. Len(E[i]) = Len(E[p]) + 1 /\ Len(E[j]) = Len(E[q]) + 1
      BY <3>2, <3>3 DEF Link
    <3>. QED BY <3>7, <3>9
  <2>. QED BY <2>2, <2>3
<1>3. 1 .. n \subseteq T
  <2>1. ASSUME NEW i \in 1 .. n, 1 .. i - 1 \subseteq T  PROVE i \in T
    <3>1. i \in DOMAIN E => \A j \in DOMAIN E : W[i] = W[j] => Len(E[i]) = Len(E[j])
      <4>. HIDE DEF T
      <4>. QED BY <1>2, <2>1
    <3>. QED BY <3>1
  <2>. HIDE DEF T
  <2>. QED BY <1>1, <2>1, FromSmaller
<1>. QED BY <1>1, <1>3

-----------------------------------------------------------------------------
(* Cells are alike if equal-inner? takes them and their fields are written     *)
(* alike.                                                                   *)
AlikeIn(W, i, j) ==
  /\ EqualInner(i, j)
  /\ FieldAs(W, data[i].car) = FieldAs(W, data[j].car)
  /\ FieldAs(W, data[i].cdr) = FieldAs(W, data[j].cdr)

LEMMA SameTag ==
  ASSUME NEW E, NEW W, IsData(data, kinds, E, W),
         NEW i \in 1 .. Len(data), NEW j \in 1 .. Len(data)
  PROVE  /\ kinds[i] = kinds[j] => data[i].tag = data[j].tag
         /\ data[i].tag = data[j].tag /\ data[i].tag # BooleanType => kinds[i] = kinds[j]
         /\ data[i].tag \in {BooleanType, NullType, SymbolType} <=>
              kinds[i] \in {"null", "false", "true", "symbol"}
<1>1. data[i].tag = KindTag(kinds[i]) /\ data[j].tag = KindTag(kinds[j])
  BY TagTells
<1>2. kinds[i] \in AllKinds /\ kinds[j] \in AllKinds
  BY DataIs
<1>3. \A k, l \in AllKinds : KindTag(k) = KindTag(l) /\ KindTag(k) # BooleanType => k = l
  BY DEF KindTag, AllKinds, PairType, NullType, BooleanType, SymbolType, StringType, CharType,
    VectorType
<1>4. \A k \in AllKinds : KindTag(k) \in {BooleanType, NullType, SymbolType} <=>
        k \in {"null", "false", "true", "symbol"}
  BY DEF KindTag, AllKinds, PairType, NullType, BooleanType, SymbolType, StringType, CharType,
    VectorType
<1>. QED BY <1>1, <1>2, <1>3, <1>4

LEMMA AlikeIsWritten ==
  ASSUME NEW E, NEW W, IsData(data, kinds, E, W),
         NEW i \in 1 .. Len(data), NEW j \in 1 .. Len(data)
  PROVE  (i = j \/ AlikeIn(W, i, j)) <=> W[i] = W[j]
<1>1. /\ W[i] = WrittenAs(data, kinds, W, i) /\ W[i][1] = kinds[i] /\ kinds[i] \in AllKinds
      /\ W[j] = WrittenAs(data, kinds, W, j) /\ W[j][1] = kinds[j] /\ kinds[j] \in AllKinds
  BY WrittenKind
<1>2. CASE kinds[i] # kinds[j]
  <2>1. ~ AlikeIn(W, i, j)
    BY <1>2, SameTag DEF AlikeIn, EqualInner
  <2>. QED BY <1>1, <1>2, <2>1
<1>3. CASE kinds[i] = kinds[j] /\ kinds[i] \in {"null", "false", "true", "symbol"}
  <2>1. ~ AlikeIn(W, i, j)
    BY <1>3, SameTag DEF AlikeIn, EqualInner
  <2>2. W[i] = <<kinds[i], i>> /\ W[j] = <<kinds[j], j>>
    BY <1>1, <1>3 DEF WrittenAs
  <2>3. W[i] = W[j] => i = j
    BY <2>2
  <2>. QED BY <2>1, <2>3
<1>4. CASE kinds[i] = kinds[j] /\ kinds[i] \notin {"null", "false", "true", "symbol"}
  <2>1. EqualInner(i, j) <=> IsCons(data[i].car) \/ data[i].car = data[j].car
    BY <1>4, SameTag DEF EqualInner
  <2>2. CASE kinds[i] = "pair"
    <3>1. W[i] = W[j] <=> /\ FieldAs(W, data[i].car) = FieldAs(W, data[j].car)
                          /\ FieldAs(W, data[i].cdr) = FieldAs(W, data[j].cdr)
      <4>1. kinds[i] = "pair" /\ kinds[j] = "pair"
        BY <1>4, <2>2
      <4>2. WrittenAs(data, kinds, W, i) = WrittenAs(data, kinds, W, j) <=>
              /\ FieldAs(W, data[i].car) = FieldAs(W, data[j].car)
              /\ FieldAs(W, data[i].cdr) = FieldAs(W, data[j].cdr)
        BY <4>1, WrittenPair
      <4>. QED BY <1>1, <4>2
    <3>2. FieldAs(W, data[i].car) = FieldAs(W, data[j].car) /\ ~IsCons(data[i].car) =>
            data[i].car = data[j].car
      <4>1. Older(data[i].car, i) /\ Older(data[j].car, j)
        BY <1>4, <2>2, PairFields
      <4>2. CASE \E m \in Int : data[i].car = Number(m)
        <5>1. PICK m \in Int : data[i].car = Number(m)
          BY <4>2
        <5>2. FieldAs(W, data[i].car) = <<"number", m>>
          BY <5>1 DEF FieldAs, Number, IsCons
        <5>3. CASE \E l \in Int : data[j].car = Number(l)
          <6>1. PICK l \in Int : data[j].car = Number(l)
            BY <5>3
          <6>2. FieldAs(W, data[j].car) = <<"number", l>>
            BY <6>1 DEF FieldAs, Number, IsCons
          <6>3. <<"number", m>> = <<"number", l>> => m = l
            OBVIOUS
          <6>. QED BY <5>1, <5>2, <6>1, <6>2, <6>3
        <5>4. CASE \E l \in 1 .. j - 1 : data[j].car = Reference(l)
          <6>1. PICK l \in 1 .. j - 1 : data[j].car = Reference(l)
            BY <5>4
          <6>2. FieldAs(W, data[j].car) = W[l] /\ l \in 1 .. Len(data)
            BY <6>1, DataIs DEF FieldAs, Reference, IsCons
          <6>3. W[l][1] # "number"
            BY <6>2, WrittenKind DEF AllKinds
          <6>4. <<"number", m>>[1] = "number"
            OBVIOUS
          <6>. QED BY <5>2, <6>2, <6>3, <6>4
        <5>. QED BY <4>1, <5>3, <5>4 DEF Older
      <4>3. CASE \E k \in 1 .. i - 1 : data[i].car = Reference(k)
        BY <4>3 DEF Reference, IsCons
      <4>. QED BY <4>1, <4>2, <4>3 DEF Older
    <3>. QED BY <2>1, <3>1, <3>2 DEF AlikeIn
  <2>3. CASE kinds[i] = "character"
    <3>1. i \in 4 .. Len(data) /\ j \in 4 .. Len(data)
      <4>1. i # 1 /\ i # 2 /\ i # 3 /\ j # 1 /\ j # 2 /\ j # 3
        BY <1>4, <2>3 DEF IsData, FirstCells
      <4>. QED BY <4>1, DataIs
    <3>2. MadeCell(data, kinds, E, i) /\ MadeCell(data, kinds, E, j)
      BY <3>1 DEF IsData
    <3>3. PICK m \in Int : data[i] = Cell(Number(m), Reference(NullCell), CharType)
      BY <2>3, <3>2 DEF MadeCell, MadeSequence
    <3>4. PICK l \in Int : data[j] = Cell(Number(l), Reference(NullCell), CharType)
      BY <1>4, <2>3, <3>2 DEF MadeCell, MadeSequence
    <3>5. /\ data[i].car = Number(m) /\ data[i].cdr = Reference(NullCell)
          /\ data[j].car = Number(l) /\ data[j].cdr = Reference(NullCell)
      BY <3>3, <3>4 DEF Cell
    <3>6. W[i] = <<"character", m>> /\ W[j] = <<"character", l>>
      BY <1>1, <1>4, <2>3, <3>5 DEF WrittenAs, Number
    <3>7. W[i] = W[j] <=> m = l
      <4>1. <<"character", m>> = <<"character", l>> <=> m = l
        OBVIOUS
      <4>. QED BY <3>6, <4>1
    <3>8. EqualInner(i, j) <=> m = l
      BY <2>1, <3>5 DEF Number, IsCons
    <3>. QED BY <3>5, <3>7, <3>8 DEF AlikeIn
  <2>4. CASE kinds[i] \in {"string", "vector"}
    <3>1. PICK p \in DOMAIN E : /\ p \in 1 .. i - 1 /\ data[i].cdr = Reference(p)
                                /\ data[i].car = Number(Len(E[p]))
      BY <2>4, SequenceFields
    <3>2. PICK q \in DOMAIN E : /\ q \in 1 .. j - 1 /\ data[j].cdr = Reference(q)
                                /\ data[j].car = Number(Len(E[q]))
      BY <1>4, <2>4, SequenceFields
    <3>3. FieldAs(W, data[i].cdr) = W[p] /\ FieldAs(W, data[j].cdr) = W[q]
      BY <3>1, <3>2 DEF FieldAs, Reference, IsCons
    <3>4. W[i] = W[j] <=> W[p] = W[q]
      BY <1>1, <1>4, <2>4, <3>3, WrittenSequence
    <3>5. W[p] = W[q] => Len(E[p]) = Len(E[q])
      BY LengthsAgree
    <3>6. EqualInner(i, j) <=> Number(Len(E[p])) = Number(Len(E[q]))
      BY <2>1, <3>1, <3>2 DEF Number, IsCons
    <3>. QED BY <3>1, <3>2, <3>3, <3>4, <3>5, <3>6 DEF AlikeIn
  <2>. QED BY <1>1, <1>4, <2>2, <2>3, <2>4 DEF AllKinds
<1>. QED BY <1>2, <1>3, <1>4

(* A value among the first n cells.                                          *)
ValueIn(v, n) ==
  (\E m \in Int : v = Number(m)) \/ (\E k \in 1 .. n : v = Reference(k))

LEMMA FieldsAlike ==
  ASSUME NEW E, NEW W, IsData(data, kinds, E, W),
         NEW v, NEW w, ValueIn(v, Len(data)), ValueIn(w, Len(data))
  PROVE  (v = w \/ (IsCons(v) /\ IsCons(w) /\ AlikeIn(W, v.value, w.value))) <=>
           FieldAs(W, v) = FieldAs(W, w)
<1>. DEFINE n == Len(data)
<1>1. CASE (\E m \in Int : v = Number(m)) /\ (\E m \in Int : w = Number(m))
  <2>1. PICK k, m \in Int : v = Number(k) /\ w = Number(m)
    BY <1>1
  <2>2. ~IsCons(v) /\ FieldAs(W, v) = <<"number", k>> /\ FieldAs(W, w) = <<"number", m>>
    BY <2>1 DEF FieldAs, Number, IsCons
  <2>3. <<"number", k>> = <<"number", m>> <=> k = m
    OBVIOUS
  <2>4. v = w <=> k = m
    BY <2>1 DEF Number
  <2>. QED BY <2>2, <2>3, <2>4
<1>2. CASE (\E k \in 1 .. n : v = Reference(k)) /\ (\E k \in 1 .. n : w = Reference(k))
  <2>1. PICK k, m \in 1 .. n : v = Reference(k) /\ w = Reference(m)
    BY <1>2
  <2>2. /\ IsCons(v) /\ IsCons(w) /\ FieldAs(W, v) = W[k] /\ FieldAs(W, w) = W[m]
        /\ v.value = k /\ w.value = m /\ (v = w <=> k = m)
    BY <2>1 DEF FieldAs, Reference, IsCons
  <2>. QED BY <2>2, AlikeIsWritten
<1>3. ASSUME NEW a, NEW b, \E m \in Int : a = Number(m), \E k \in 1 .. n : b = Reference(k)
      PROVE  ~IsCons(a) /\ a # b /\ FieldAs(W, a) # FieldAs(W, b)
  <2>1. PICK m \in Int : a = Number(m)
    BY <1>3
  <2>2. PICK k \in 1 .. n : b = Reference(k)
    BY <1>3
  <2>3. ~IsCons(a) /\ IsCons(b) /\ FieldAs(W, a) = <<"number", m>> /\ FieldAs(W, b) = W[k]
    BY <2>1, <2>2 DEF FieldAs, Number, Reference, IsCons
  <2>4. W[k][1] # "number"
    BY WrittenKind DEF AllKinds
  <2>5. <<"number", m>>[1] = "number"
    OBVIOUS
  <2>. QED BY <2>3, <2>4, <2>5
<1>. QED BY <1>1, <1>2, <1>3 DEF ValueIn

(* Where equal-inner? goes on, the fields are older values.                   *)
LEMMA InnerFields ==
  ASSUME NEW E, NEW W, IsData(data, kinds, E, W),
         NEW i \in 1 .. Len(data), NEW j \in 1 .. Len(data), EqualInner(i, j)
  PROVE  /\ ValueIn(data[i].car, i - 1) /\ ValueIn(data[i].cdr, i - 1)
         /\ ValueIn(data[j].car, j - 1) /\ ValueIn(data[j].cdr, j - 1)
<1>1. ASSUME NEW k \in 1 .. Len(data), kinds[k] \notin {"null", "false", "true", "symbol"}
      PROVE  ValueIn(data[k].car, k - 1) /\ ValueIn(data[k].cdr, k - 1)
  <2>1. CASE kinds[k] = "pair"
    BY <2>1, PairFields DEF Older, ValueIn
  <2>2. CASE kinds[k] \in {"string", "vector"}
    <3>1. PICK p \in DOMAIN E : /\ p \in 1 .. k - 1 /\ data[k].cdr = Reference(p)
                                /\ data[k].car = Number(Len(E[p]))
      BY <2>2, SequenceFields
    <3>2. Len(E[p]) \in Int
      BY DEF IsData
    <3>. QED BY <3>1, <3>2 DEF ValueIn
  <2>3. CASE kinds[k] = "character"
    <3>1. k \in 4 .. Len(data)
      <4>1. k # 1 /\ k # 2 /\ k # 3
        BY <2>3 DEF IsData, FirstCells
      <4>. QED BY <4>1, DataIs
    <3>2. MadeCell(data, kinds, E, k)
      BY <3>1 DEF IsData
    <3>3. PICK m \in Int : data[k] = Cell(Number(m), Reference(NullCell), CharType)
      BY <2>3, <3>2 DEF MadeCell, MadeSequence
    <3>4. data[k].car = Number(m) /\ data[k].cdr = Reference(1) /\ 1 \in 1 .. k - 1
      BY <3>1, <3>3 DEF Cell, NullCell
    <3>. QED BY <3>4 DEF ValueIn
  <2>. QED BY <1>1, <2>1, <2>2, <2>3, DataIs DEF AllKinds
<1>2. kinds[i] \notin {"null", "false", "true", "symbol"}
  BY SameTag DEF EqualInner
<1>3. kinds[j] \notin {"null", "false", "true", "symbol"}
  <2>1. kinds[i] = kinds[j]
    BY SameTag DEF EqualInner
  <2>. QED BY <1>2, <2>1
<1>. QED BY <1>1, <1>2, <1>3

(* What a pair of members of a set is.                                       *)
PairedIn(A) ==
  /\ \A i, j \in A : <<i, j>> \in A \X A
  /\ \A i, j : <<i, j>>[1] = i /\ <<i, j>>[2] = j
  /\ \A p \in A \X A : p[1] \in A /\ p[2] \in A /\ p = <<p[1], p[2]>>

LEMMA PairsOf ==
  ASSUME NEW A
  PROVE  PairedIn(A)
<1>1. ASSUME NEW i \in A, NEW j \in A  PROVE <<i, j>> \in A \X A
  OBVIOUS
<1>2. ASSUME NEW i, NEW j  PROVE <<i, j>>[1] = i /\ <<i, j>>[2] = j
  OBVIOUS
<1>3. ASSUME NEW p \in A \X A  PROVE p[1] \in A /\ p[2] \in A /\ p = <<p[1], p[2]>>
  OBVIOUS
<1>. QED BY <1>1, <1>2, <1>3 DEF PairedIn

LEMMA EqualIs ==
  ASSUME NEW E, NEW W, IsData(data, kinds, E, W),
         NEW v, NEW w, ValueIn(v, Len(data)), ValueIn(w, Len(data))
  PROVE  Equal(v, w) <=> FieldAs(W, v) = FieldAs(W, w)
<1>. DEFINE n == Len(data)
            I == (DOMAIN data) \X (DOMAIN data)
            Same(f, x, y) == x = y \/ (IsCons(x) /\ IsCons(y) /\ f[<<x.value, y.value>>])
            go(f, p) == /\ EqualInner(p[1], p[2])
                        /\ Same(f, data[p[1]].car, data[p[2]].car)
                        /\ Same(f, data[p[1]].cdr, data[p[2]].cdr)
            F == CHOOSE f : f = [p \in I |-> go(f, p)]
            g == [p \in I |-> AlikeIn(W, p[1], p[2])]
<1>1. n \in Nat /\ DOMAIN data = 1 .. n
  BY DataIs
<1>0. PairedIn(DOMAIN data)
  BY PairsOf
<1>2. \A i, j \in 1 .. n : <<i, j>> \in I /\ <<i, j>>[1] = i /\ <<i, j>>[2] = j
  BY <1>0, <1>1 DEF PairedIn
<1>3. \A i, j \in 1 .. n : g[<<i, j>>] <=> AlikeIn(W, i, j)
  BY <1>2
<1>4. ASSUME NEW f, NEW i \in 1 .. n, NEW j \in 1 .. n,
             \A k \in 1 .. i - 1 : \A l \in 1 .. n : f[<<k, l>>] <=> AlikeIn(W, k, l)
      PROVE  go(f, <<i, j>>) <=> AlikeIn(W, i, j)
  <2>1. CASE ~EqualInner(i, j)
    BY <1>2, <2>1 DEF AlikeIn
  <2>2. CASE EqualInner(i, j)
    <3>1. /\ ValueIn(data[i].car, i - 1) /\ ValueIn(data[i].cdr, i - 1)
          /\ ValueIn(data[j].car, j - 1) /\ ValueIn(data[j].cdr, j - 1)
      BY <2>2, InnerFields
    <3>2. ASSUME NEW x, NEW y, ValueIn(x, i - 1), ValueIn(y, j - 1)
          PROVE  Same(f, x, y) <=> FieldAs(W, x) = FieldAs(W, y)
      <4>1. ValueIn(x, n) /\ ValueIn(y, n)
        BY <1>1, <3>2 DEF ValueIn
      <4>2. (x = y \/ (IsCons(x) /\ IsCons(y) /\ AlikeIn(W, x.value, y.value))) <=>
              FieldAs(W, x) = FieldAs(W, y)
        BY <4>1, FieldsAlike
      <4>3. IsCons(x) /\ IsCons(y) =>
              (f[<<x.value, y.value>>] <=> AlikeIn(W, x.value, y.value))
        <5>1. IsCons(x) => x.value \in 1 .. i - 1
          BY <3>2 DEF ValueIn, IsCons, Number, Reference
        <5>2. IsCons(y) => y.value \in 1 .. n
          BY <1>1, <3>2 DEF ValueIn, IsCons, Number, Reference
        <5>. QED BY <1>4, <5>1, <5>2
      <4>. QED BY <4>2, <4>3
    <3>3. Same(f, data[i].car, data[j].car) <=> FieldAs(W, data[i].car) = FieldAs(W, data[j].car)
      <4>. HIDE DEF Same
      <4>. QED BY <3>1, <3>2
    <3>4. Same(f, data[i].cdr, data[j].cdr) <=> FieldAs(W, data[i].cdr) = FieldAs(W, data[j].cdr)
      <4>. HIDE DEF Same
      <4>. QED BY <3>1, <3>2
    <3>. HIDE DEF Same
    <3>. QED BY <1>2, <3>3, <3>4 DEF AlikeIn
  <2>. QED BY <2>1, <2>2
<1>5. g = [p \in I |-> go(g, p)]
  <2>. DEFINE h == [p \in I |-> go(g, p)]
  <2>1. ASSUME NEW p \in I  PROVE go(g, p) <=> AlikeIn(W, p[1], p[2])
    <3>1. p[1] \in 1 .. n /\ p[2] \in 1 .. n /\ p = <<p[1], p[2]>>
      <4>1. p[1] \in DOMAIN data /\ p[2] \in DOMAIN data /\ p = <<p[1], p[2]>>
        BY <1>0 DEF PairedIn
      <4>. QED BY <1>1, <4>1
    <3>2. \A k \in 1 .. p[1] - 1 : \A l \in 1 .. n : g[<<k, l>>] <=> AlikeIn(W, k, l)
      <4>1. \A k \in 1 .. p[1] - 1 : k \in 1 .. n
        BY <1>1, <3>1
      <4>. HIDE DEF g
      <4>. QED BY <1>3, <4>1
    <3>3. go(g, <<p[1], p[2]>>) <=> AlikeIn(W, p[1], p[2])
      <4>. HIDE DEF g, go
      <4>. QED BY <1>4, <3>1, <3>2
    <3>. HIDE DEF g, go
    <3>. QED BY <3>1, <3>3
  <2>2. \A p \in I : g[p] <=> AlikeIn(W, p[1], p[2])
    OBVIOUS
  <2>3. \A p \in I : h[p] <=> go(g, p)
    <3>. HIDE DEF g, go, I
    <3>. QED OBVIOUS
  <2>4. \A p \in I : g[p] <=> h[p]
    <3>. HIDE DEF g, h, go, I
    <3>. QED BY <2>1, <2>2, <2>3
  <2>5. g \in [I -> BOOLEAN]
    <3>1. \A i, j : AlikeIn(W, i, j) \in BOOLEAN
      BY DEF AlikeIn
    <3>. HIDE DEF I
    <3>. QED BY <3>1
  <2>6. h \in [I -> BOOLEAN]
    <3>1. \A p \in I : go(g, p) = AlikeIn(W, p[1], p[2])
      <4>. HIDE DEF g, I
      <4>. QED BY <2>1 DEF AlikeIn
    <3>2. \A i, j : AlikeIn(W, i, j) \in BOOLEAN
      BY DEF AlikeIn
    <3>. HIDE DEF g, go, I
    <3>. QED BY <3>1, <3>2
  <2>. HIDE DEF g, h, I
  <2>7. g = h
    BY <2>4, <2>5, <2>6
  <2>. QED BY <2>7 DEF h
<1>6. F = [p \in I |-> go(F, p)]
  <2>. HIDE DEF go, g, I
  <2>. QED BY <1>5
<1>. HIDE DEF F
<1>7. \A i, j \in 1 .. n : F[<<i, j>>] <=> go(F, <<i, j>>)
  <2>. HIDE DEF go, I
  <2>. QED BY ZenonT(30), <1>2, <1>6
<1>. DEFINE T == {i \in 1 .. n : \A j \in 1 .. n : F[<<i, j>>] <=> AlikeIn(W, i, j)}
<1>8. 1 .. n \subseteq T
  <2>1. ASSUME NEW i \in 1 .. n, 1 .. i - 1 \subseteq T  PROVE i \in T
    <3>1. \A k \in 1 .. i - 1 : \A l \in 1 .. n : F[<<k, l>>] <=> AlikeIn(W, k, l)
      BY <2>1
    <3>2. \A j \in 1 .. n : F[<<i, j>>] <=> AlikeIn(W, i, j)
      <4>. HIDE DEF go
      <4>. QED BY <1>4, <1>7, <3>1
    <3>. QED BY <3>2
  <2>. HIDE DEF T
  <2>. QED BY <1>1, <2>1, FromSmaller
<1>9. Equal(v, w) <=> v = w \/ (IsCons(v) /\ IsCons(w) /\ F[<<v.value, w.value>>])
  BY DEF Equal, F
<1>10. IsCons(v) /\ IsCons(w) => (F[<<v.value, w.value>>] <=> AlikeIn(W, v.value, w.value))
  <2>1. IsCons(v) => v.value \in 1 .. n
    BY DEF ValueIn, IsCons, Number, Reference
  <2>2. IsCons(w) => w.value \in 1 .. n
    BY DEF ValueIn, IsCons, Number, Reference
  <2>. QED BY <1>8, <2>1, <2>2
<1>. QED BY <1>9, <1>10, FieldsAlike

LEMMA WrittenOf ==
  ASSUME NEW E, NEW W, IsData(data, kinds, E, W), NEW v \in Data
  PROVE  ValueIn(v, Len(data)) /\ Written(v) = FieldAs(W, v)
<1>1. CASE \E m \in DataNumbers : v = Number(m)
  <2>1. PICK m \in DataNumbers : v = Number(m)
    BY <1>1
  <2>2. m \in Int
    BY DataNumbersAssumption
  <2>3. Written(v) = <<"number", m>> /\ FieldAs(W, v) = <<"number", m>>
    BY <2>1 DEF Written, FieldAs, Number, IsCons
  <2>. QED BY <2>1, <2>2, <2>3 DEF ValueIn
<1>2. CASE \E k \in DOMAIN data : v = Reference(k)
  <2>1. PICK k \in DOMAIN data : v = Reference(k)
    BY <1>2
  <2>2. k \in 1 .. Len(data)
    BY DataIs
  <2>3. IsCons(v) /\ v.value = k
    BY <2>1 DEF Reference, IsCons
  <2>4. Written(v) = W[k]
    BY <2>2, <2>3, WrittenIs
  <2>. QED BY <2>1, <2>2, <2>3, <2>4 DEF ValueIn, FieldAs
<1>. QED BY <1>1, <1>2 DEF Data

LEMMA EqvTells ==
  ASSUME NEW E, NEW W, IsData(data, kinds, E, W), NEW v \in Data, NEW w \in Data
  PROVE  Eqv(v, w) <=> v = w \/ (Written(v) = Written(w) /\ Written(v)[1] = "character")
<1>1. /\ ValueIn(v, Len(data)) /\ Written(v) = FieldAs(W, v)
      /\ ValueIn(w, Len(data)) /\ Written(w) = FieldAs(W, w)
  BY WrittenOf
<1>2. ASSUME NEW x, ~IsCons(x), ValueIn(x, Len(data))  PROVE FieldAs(W, x)[1] = "number"
  <2>1. FieldAs(W, x) = <<"number", x.value>>
    BY <1>2 DEF FieldAs
  <2>. QED BY <2>1
<1>3. ASSUME NEW x, IsCons(x), ValueIn(x, Len(data))
      PROVE  /\ x.value \in 1 .. Len(data) /\ FieldAs(W, x) = W[x.value]
             /\ W[x.value][1] = kinds[x.value] /\ kinds[x.value] # "number"
             /\ data[x.value].tag = CharType <=> kinds[x.value] = "character"
  <2>1. x.value \in 1 .. Len(data) /\ FieldAs(W, x) = W[x.value]
    BY <1>3 DEF ValueIn, FieldAs, IsCons, Number, Reference
  <2>2. W[x.value][1] = kinds[x.value] /\ kinds[x.value] \in AllKinds
    BY <2>1, WrittenKind
  <2>3. data[x.value].tag = KindTag(kinds[x.value])
    BY <2>1, TagTells
  <2>4. \A k \in AllKinds : k # "number" /\ (KindTag(k) = CharType <=> k = "character")
    BY DEF KindTag, AllKinds, PairType, NullType, BooleanType, SymbolType, StringType, CharType,
      VectorType
  <2>. QED BY <2>1, <2>2, <2>3, <2>4
<1>4. CASE ~IsCons(v)
  <2>1. Written(v)[1] = "number"
    BY <1>1, <1>2, <1>4
  <2>. QED BY <1>4, <2>1 DEF Eqv
<1>5. CASE IsCons(v) /\ ~IsCons(w)
  <2>1. Written(w)[1] = "number" /\ Written(v)[1] # "number"
    BY <1>1, <1>2, <1>3, <1>5
  <2>. QED BY <1>5, <2>1 DEF Eqv
<1>6. CASE IsCons(v) /\ IsCons(w)
  <2>1. /\ Written(v)[1] = "character" <=> kinds[v.value] = "character"
        /\ Written(w)[1] = "character" <=> kinds[w.value] = "character"
        /\ Eqv(v, w) <=> v = w \/ /\ kinds[v.value] = "character"
                                  /\ kinds[w.value] = "character"
                                  /\ data[v.value].car = data[w.value].car
    BY <1>1, <1>3, <1>6 DEF Eqv
  <2>2. ASSUME kinds[v.value] = "character", kinds[w.value] = "character"
        PROVE  data[v.value].car = data[w.value].car <=> Written(v) = Written(w)
    <3>1. ASSUME NEW x, IsCons(x), ValueIn(x, Len(data)), kinds[x.value] = "character"
          PROVE  \E m \in Int : data[x.value].car = Number(m) /\ FieldAs(W, x) = <<"character", m>>
      <4>1. x.value \in 1 .. Len(data) /\ FieldAs(W, x) = W[x.value]
        BY <1>3, <3>1
      <4>2. x.value \in 4 .. Len(data)
        <5>1. x.value # 1 /\ x.value # 2 /\ x.value # 3
          BY <3>1 DEF IsData, FirstCells
        <5>. QED BY <4>1, <5>1, DataIs
      <4>3. MadeCell(data, kinds, E, x.value)
        BY <4>2 DEF IsData
      <4>4. PICK m \in Int : data[x.value] = Cell(Number(m), Reference(NullCell), CharType)
        BY <3>1, <4>3 DEF MadeCell, MadeSequence
      <4>5. data[x.value].car = Number(m)
        BY <4>4 DEF Cell
      <4>6. W[x.value] = WrittenAs(data, kinds, W, x.value)
        BY <4>1, WrittenKind
      <4>7. W[x.value] = <<"character", m>>
        BY <3>1, <4>5, <4>6 DEF WrittenAs, Number
      <4>. QED BY <4>1, <4>5, <4>7
    <3>2. PICK m \in Int : data[v.value].car = Number(m) /\ FieldAs(W, v) = <<"character", m>>
      BY <1>1, <1>6, <2>2, <3>1
    <3>3. PICK l \in Int : data[w.value].car = Number(l) /\ FieldAs(W, w) = <<"character", l>>
      BY <1>1, <1>6, <2>2, <3>1
    <3>4. <<"character", m>> = <<"character", l>> <=> m = l
      OBVIOUS
    <3>5. Number(m) = Number(l) <=> m = l
      BY DEF Number
    <3>. QED BY <1>1, <3>2, <3>3, <3>4, <3>5
  <2>. QED BY <2>1, <2>2
<1>. QED BY <1>4, <1>5, <1>6

LEMMA CellsTell ==
  ASSUME NEW E, NEW W, IsData(data, kinds, E, W), NEW v \in Data
  PROVE  /\ PairCheck(v) <=> IsCons(v) /\ kinds[v.value] = "pair"
         /\ NullCheck(v) <=> IsCons(v) /\ kinds[v.value] = "null"
<1>1. ValueIn(v, Len(data))
  BY WrittenOf
<1>2. CASE ~IsCons(v)
  BY <1>2 DEF PairCheck, NullCheck, Reference, IsCons
<1>3. CASE IsCons(v)
  <2>1. PICK k \in 1 .. Len(data) : v = Reference(k)
    BY <1>1, <1>3 DEF ValueIn, IsCons, Number
  <2>2. v.value = k
    BY <2>1 DEF Reference
  <2>3. NullCheck(v) <=> kinds[k] = "null"
    <3>1. v = Reference(1) <=> k = 1
      BY <2>1 DEF Reference
    <3>2. kinds[k] = "null" <=> k = 1
      BY FirstKinds
    <3>. QED BY <3>1, <3>2 DEF NullCheck, NullCell
  <2>4. data[k].tag = PairType <=> kinds[k] = "pair"
    <3>1. data[k].tag = KindTag(kinds[k]) /\ kinds[k] \in AllKinds
      BY TagTells, DataIs
    <3>2. \A l \in AllKinds : KindTag(l) = PairType <=> l = "pair"
      BY DEF KindTag, AllKinds, PairType, NullType, BooleanType, SymbolType, StringType, CharType,
        VectorType
    <3>. QED BY <3>1, <3>2
  <2>. QED BY <1>3, <2>2, <2>3, <2>4 DEF PairCheck
<1>. QED BY <1>2, <1>3

LEMMA PredicatesFrom ==
  ASSUME DataInv
  PROVE  PredicatesTell
<1>1. PICK E, W : IsData(data, kinds, E, W)
  BY DEF DataInv
<1>2. ASSUME NEW v \in Data, NEW w \in Data
      PROVE  /\ PairCheck(v) <=> IsCons(v) /\ kinds[v.value] = "pair"
             /\ NullCheck(v) <=> IsCons(v) /\ kinds[v.value] = "null"
             /\ Equal(v, w) <=> Written(v) = Written(w)
             /\ Eqv(v, w) <=> v = w \/ (Written(v) = Written(w) /\ Written(v)[1] = "character")
  <2>1. /\ ValueIn(v, Len(data)) /\ Written(v) = FieldAs(W, v)
        /\ ValueIn(w, Len(data)) /\ Written(w) = FieldAs(W, w)
    BY <1>1, WrittenOf
  <2>2. Equal(v, w) <=> FieldAs(W, v) = FieldAs(W, w)
    BY <1>1, <2>1, EqualIs
  <2>3. PairCheck(v) <=> IsCons(v) /\ kinds[v.value] = "pair"
    BY <1>1, CellsTell
  <2>4. NullCheck(v) <=> IsCons(v) /\ kinds[v.value] = "null"
    BY <1>1, CellsTell
  <2>5. Eqv(v, w) <=> v = w \/ (Written(v) = Written(w) /\ Written(v)[1] = "character")
    BY <1>1, EqvTells
  <2>. QED BY <2>1, <2>2, <2>3, <2>4, <2>5
<1>. QED BY <1>2 DEF PredicatesTell

-----------------------------------------------------------------------------
(* The loops of list.rs: T are the cells that a search wants, a what it        *)
(* answers with.                                                            *)
SearchGo(T, a, f, i) ==
  IF i = 1 THEN Reference(FalseCell) ELSE IF i \in T THEN a[i] ELSE f[data[i].cdr.value]

IsSearch(E, T, a, f) == f = [i \in DOMAIN E |-> SearchGo(T, a, f, i)]

LEMMA SearchRuns ==
  ASSUME NEW E, NEW W, IsData(data, kinds, E, W), NEW T, NEW a
  PROVE  \E f : IsSearch(E, T, a, f)
<1>. DEFINE I == DOMAIN E
            n == Len(data)
            D == {Reference(FalseCell)} \cup {a[i] : i \in I}
            rank == [i \in I |-> i]
            body == [f \in [I -> D] |-> [i \in I |-> SearchGo(T, a, f, i)]]
<1>1. n \in Nat /\ I \subseteq 1 .. n
  BY DataIs DEF IsData
<1>2. ASSUME NEW i \in I, i # 1  PROVE data[i].cdr.value \in I /\ data[i].cdr.value < i /\ i \in Int
  <2>1. PICK p : Link(data, kinds, E, i, p)
    BY <1>2, ListLink
  <2>2. data[i].cdr.value = p /\ p \in I /\ p \in 1 .. i - 1 /\ i \in 4 .. n
    BY <2>1 DEF Link, Reference
  <2>. QED BY <1>1, <2>2
<1>3. ASSUME NEW f \in [I -> D], NEW i \in I  PROVE SearchGo(T, a, f, i) \in D
  BY <1>2 DEF SearchGo
<1>4. body \in [[I -> D] -> [I -> D]]
  <2>. HIDE DEF D, I
  <2>. QED BY <1>3
<1>5. ASSUME NEW f \in [I -> D], NEW g \in [I -> D], NEW i \in I,
             \A j \in I : rank[j] < rank[i] => f[j] = g[j]
      PROVE  body[f][i] = body[g][i]
  <2>1. SearchGo(T, a, f, i) = SearchGo(T, a, g, i)
    <3>1. i # 1 => f[data[i].cdr.value] = g[data[i].cdr.value]
      BY <1>2, <1>5
    <3>. QED BY <3>1 DEF SearchGo
  <2>. HIDE DEF D
  <2>. QED BY <2>1
<1>6. rank \in [I -> 0 .. n]
  BY <1>1
<1>7. LooksDown(I, D, n, rank, body)
  <2>. HIDE DEF I, D, rank, body
  <2>. QED BY <1>1, <1>4, <1>5, <1>6 DEF LooksDown
<1>8. \E f \in [I -> D] : f = body[f]
  <2>1. Reference(FalseCell) \in D
    OBVIOUS
  <2>. HIDE DEF I, D, n, rank, body
  <2>. QED BY <1>7, <2>1, RankedRuns
<1>9. PICK f \in [I -> D] : f = body[f]
  BY <1>8
<1>10. body[f] = [i \in I |-> SearchGo(T, a, f, i)]
  <2>. HIDE DEF D, I
  <2>. QED OBVIOUS
<1>. QED BY <1>9, <1>10 DEF IsSearch

(* The cells p of list i, whose cars are its elements, and what a search along *)
(* them answers.                                                            *)
IsChain(E, i, p) ==
  /\ p \in [1 .. Len(E[i]) -> DOMAIN E]
  /\ \A k \in 1 .. Len(E[i]) : /\ p[k] # 1 /\ data[p[k]].car = E[i][k]
                               /\ E[p[k]] = SubSeq(E[i], k, Len(E[i]))

Answers(E, T, a, f, i, p) ==
  /\ (\A k \in 1 .. Len(E[i]) : p[k] \notin T) => f[i] = Reference(FalseCell)
  /\ \A k \in 1 .. Len(E[i]) :
       p[k] \in T /\ (\A j \in 1 .. k - 1 : p[j] \notin T) => f[i] = a[p[k]]

Searches(E, T, a, f) == \A i \in DOMAIN E : f[i] = SearchGo(T, a, f, i)

LEMMA RestOfCons ==
  ASSUME NEW S, NEW c \in S, NEW s \in Seq(S), NEW k \in 1 .. Len(s)
  PROVE  SubSeq(<<c>> \o s, k + 1, Len(s) + 1) = SubSeq(s, k, Len(s))
<1>1. <<c>> \in Seq(S) /\ Len(<<c>>) = 1
  OBVIOUS
<1>2. k + 1 \in Len(<<c>>) + 1 .. Len(<<c>>) + Len(s)
  BY <1>1
<1>3. Len(s) + 1 \in Len(<<c>>) + 1 .. Len(<<c>>) + Len(s)
  BY <1>1
<1>4. SubSeq(<<c>> \o s, k + 1, Len(s) + 1)
        = SubSeq(s, (k + 1) - Len(<<c>>), (Len(s) + 1) - Len(<<c>>))
  BY <1>1, <1>2, <1>3, SubSeqOfConcat2
<1>5. (k + 1) - Len(<<c>>) = k /\ (Len(s) + 1) - Len(<<c>>) = Len(s)
  BY <1>1
<1>. QED BY <1>4, <1>5

LEMMA SearchAnswers ==
  ASSUME NEW E, NEW W, IsData(data, kinds, E, W), NEW T, NEW a, NEW f, Searches(E, T, a, f),
         NEW xs \in DOMAIN E
  PROVE  \E p : IsChain(E, xs, p) /\ Answers(E, T, a, f, xs, p)
<1>. DEFINE n == Len(data)
            X == {i \in 1 .. n : i \in DOMAIN E =>
                    \E p : IsChain(E, i, p) /\ Answers(E, T, a, f, i, p)}
<1>1. n \in Nat /\ DOMAIN E \subseteq 1 .. n
  BY DataIs DEF IsData
<1>2. \E p : IsChain(E, 1, p) /\ Answers(E, T, a, f, 1, p)
  <2>1. E[1] = <<>> /\ 1 \in DOMAIN E
    BY DEF IsData
  <2>2. 1 .. Len(E[1]) = {}
    BY <2>1
  <2>. DEFINE p == [k \in 1 .. Len(E[1]) |-> 1]
  <2>3. f[1] = Reference(FalseCell)
    BY <2>1 DEF Searches, SearchGo
  <2>4. IsChain(E, 1, p)
    BY <2>1, <2>2 DEF IsChain
  <2>5. Answers(E, T, a, f, 1, p)
    BY <2>2, <2>3 DEF Answers
  <2>. HIDE DEF p
  <2>. QED BY <2>4, <2>5
<1>3. ASSUME NEW i \in DOMAIN E, i # 1, 1 .. i - 1 \subseteq X
      PROVE  \E p : IsChain(E, i, p) /\ Answers(E, T, a, f, i, p)
  <2>1. PICK q : Link(data, kinds, E, i, q)
    BY <1>3, ListLink
  <2>2. PICK r : IsChain(E, q, r) /\ Answers(E, T, a, f, q, r)
    BY <1>3, <2>1 DEF Link
  <2>3. PICK m \in Nat : m = Len(E[q])
    BY <2>1 DEF Link
  <2>4. Len(E[i]) = m + 1
    BY <2>1, <2>3 DEF Link
  <2>5. PICK c \in DataSlots : c = data[i].car
    BY <2>1 DEF Link
  <2>6. E[i] = <<c>> \o E[q] /\ E[q] \in Seq(DataSlots)
    BY <2>1, <2>5 DEF Link
  <2>7. \A k \in 1 .. m + 1 : E[i][k] = IF k = 1 THEN c ELSE E[q][k - 1]
    <3>1. <<c>> \o E[q] = [k \in 1 .. m + 1 |-> IF k = 1 THEN c ELSE E[q][k - 1]]
      BY <2>3, <2>6, ConsIs
    <3>. QED BY <2>6, <3>1
  <2>. DEFINE p == [k \in 1 .. m + 1 |-> IF k = 1 THEN i ELSE r[k - 1]]
  <2>8. \A k \in 1 .. m + 1 : k = 1 \/ (k # 1 /\ k - 1 \in 1 .. m /\ p[k] = r[k - 1])
    OBVIOUS
  <2>9. p[1] = i /\ p \in [1 .. m + 1 -> DOMAIN E]
    <3>1. \A k \in 1 .. m : r[k] \in DOMAIN E
      BY <2>2, <2>3 DEF IsChain
    <3>2. \A k \in 1 .. m + 1 : k # 1 => r[k - 1] \in DOMAIN E
      BY <2>8, <3>1
    <3>3. 1 \in 1 .. m + 1
      OBVIOUS
    <3>. QED BY <3>2, <3>3
  <2>10. \A k \in 1 .. m : p[k + 1] = r[k]
    OBVIOUS
  <2>. HIDE DEF p
  <2>11. IsChain(E, i, p)
    <3>1. ASSUME NEW k \in 1 .. m + 1
          PROVE  p[k] # 1 /\ data[p[k]].car = E[i][k] /\ E[p[k]] = SubSeq(E[i], k, m + 1)
      <4>1. CASE k = 1
        <5>1. SubSeq(E[i], 1, Len(E[i])) = E[i]
          <6>1. E[i] \in Seq(DataSlots)
            BY DEF IsData
          <6>. QED BY <6>1, SubSeqFull
        <5>. QED BY <1>3, <2>4, <2>5, <2>7, <2>9, <4>1, <5>1
      <4>2. CASE k # 1
        <5>1. k - 1 \in 1 .. m /\ p[k] = r[k - 1] /\ E[i][k] = E[q][k - 1]
          BY <2>7, <2>8, <4>2
        <5>2. p[k] # 1 /\ data[p[k]].car = E[q][k - 1] /\ E[p[k]] = SubSeq(E[q], k - 1, m)
          BY <2>2, <2>3, <5>1 DEF IsChain
        <5>3. SubSeq(<<c>> \o E[q], (k - 1) + 1, m + 1) = SubSeq(E[q], k - 1, m)
          BY <2>3, <2>6, <5>1, RestOfCons
        <5>4. (k - 1) + 1 = k
          OBVIOUS
        <5>. QED BY <2>6, <5>1, <5>2, <5>3, <5>4
      <4>. QED BY <4>1, <4>2
    <3>. QED BY <2>4, <2>9, <3>1 DEF IsChain
  <2>12. f[i] = IF i \in T THEN a[i] ELSE f[q]
    BY <1>3, <2>1 DEF Searches, SearchGo, Link, Reference
  <2>13. ASSUME \A k \in 1 .. m + 1 : p[k] \notin T  PROVE f[i] = Reference(FalseCell)
    <3>1. i \notin T
      BY <2>9, <2>13
    <3>2. \A k \in 1 .. m : r[k] \notin T
      <4>1. \A k \in 1 .. m : k + 1 \in 1 .. m + 1
        OBVIOUS
      <4>. QED BY <2>10, <2>13, <4>1
    <3>3. f[q] = Reference(FalseCell)
      BY <2>2, <2>3, <3>2 DEF Answers
    <3>. QED BY <2>12, <3>1, <3>3
  <2>14. ASSUME NEW k \in 1 .. m + 1, p[k] \in T, \A j \in 1 .. k - 1 : p[j] \notin T
         PROVE  f[i] = a[p[k]]
    <3>1. CASE k = 1
      BY <2>9, <2>12, <2>14, <3>1
    <3>2. CASE k # 1
      <4>1. k - 1 \in 1 .. m /\ p[k] = r[k - 1] /\ 1 \in 1 .. k - 1
        BY <2>8, <3>2
      <4>2. i \notin T
        BY <2>9, <2>14, <4>1
      <4>3. \A j \in 1 .. (k - 1) - 1 : r[j] \notin T
        <5>1. \A j \in 1 .. (k - 1) - 1 : j \in 1 .. m /\ j + 1 \in 1 .. k - 1
          OBVIOUS
        <5>. QED BY <2>10, <2>14, <5>1
      <4>4. f[q] = a[r[k - 1]]
        BY <2>2, <2>3, <2>14, <4>1, <4>3 DEF Answers
      <4>. QED BY <2>12, <4>1, <4>2, <4>4
    <3>. QED BY <3>1, <3>2
  <2>15. Answers(E, T, a, f, i, p)
    BY <2>4, <2>13, <2>14 DEF Answers
  <2>. QED BY <2>11, <2>15
<1>4. 1 .. n \subseteq X
  <2>1. ASSUME NEW i \in 1 .. n, 1 .. i - 1 \subseteq X  PROVE i \in X
    <3>1. i \in DOMAIN E => \E p : IsChain(E, i, p) /\ Answers(E, T, a, f, i, p)
      <4>. HIDE DEF X
      <4>. QED BY <1>2, <1>3, <2>1
    <3>. QED BY <3>1
  <2>. HIDE DEF X
  <2>. QED BY <1>1, <2>1, FromSmaller
<1>. QED BY <1>1, <1>4

(* If some number up to n is in a set, one is the first.                      *)
LEMMA FirstOf ==
  ASSUME NEW n \in Nat, NEW M, \E k \in 1 .. n : k \in M
  PROVE  \E k \in 1 .. n : k \in M /\ \A j \in 1 .. k - 1 : j \notin M
<1>. DEFINE U == {k \in 1 .. n : k \in M}
<1>1. U \subseteq Nat /\ U # {}
  OBVIOUS
<1>2. PICK k \in U : \A j \in U : k <= j
  <2>. HIDE DEF U
  <2>. QED BY <1>1, LeastNumber
<1>3. \A j \in 1 .. k - 1 : j \notin M
  BY <1>2
<1>. QED BY <1>2, <1>3

(* What is found: T holds of a cell just if M has the place of its element.    *)
Finds(E, T, a, M, result, xs, p) ==
  /\ IsChain(E, xs, p)
  /\ (\A k \in 1 .. Len(E[xs]) : k \notin M) => result = Reference(FalseCell)
  /\ \A k \in 1 .. Len(E[xs]) :
       k \in M /\ (\A j \in 1 .. k - 1 : j \notin M) => result = a[p[k]]

LEMMA MemqFinds ==
  ASSUME NEW E, NEW W, IsData(data, kinds, E, W), NEW xs \in DOMAIN E, NEW x
  PROVE  \E p : Finds(E, {i \in DOMAIN E : data[i].car = x}, [i \in DOMAIN E |-> Reference(i)],
                      {k \in 1 .. Len(E[xs]) : E[xs][k] = x}, Memq(x, Reference(xs)), xs, p)
<1>. DEFINE T == {i \in DOMAIN E : data[i].car = x}
            a == [i \in DOMAIN E |-> Reference(i)]
            M == {k \in 1 .. Len(E[xs]) : E[xs][k] = x}
            go(f, i) == IF i = NullCell THEN Reference(FalseCell)
                        ELSE IF data[i].car = x THEN Reference(i) ELSE f[data[i].cdr.value]
            F == CHOOSE f : f = [i \in Lists |-> go(f, i)]
<1>1. Lists = DOMAIN E
  BY ListsAre
<1>2. \A f : \A i \in DOMAIN E : SearchGo(T, a, f, i) = go(f, i)
  BY DEF SearchGo, NullCell
<1>3. PICK f : IsSearch(E, T, a, f)
  <2>. HIDE DEF T, a
  <2>. QED BY SearchRuns
<1>4. F = [i \in Lists |-> go(F, i)]
  <2>1. f = [i \in Lists |-> go(f, i)]
    <3>. HIDE DEF T, a, go
    <3>. QED BY <1>1, <1>2, <1>3 DEF IsSearch
  <2>. HIDE DEF go
  <2>. QED BY <2>1
<1>5. Memq(x, Reference(xs)) = F[xs]
  BY DEF Memq, Found, Reference, F
<1>. HIDE DEF F
<1>6. Searches(E, T, a, F)
  <2>. HIDE DEF T, a, go
  <2>. QED BY <1>1, <1>2, <1>4 DEF Searches
<1>7. PICK p : IsChain(E, xs, p) /\ Answers(E, T, a, F, xs, p)
  <2>. HIDE DEF T, a
  <2>. QED BY <1>6, SearchAnswers
<1>8. \A k \in 1 .. Len(E[xs]) : p[k] \in T <=> k \in M
  BY <1>7 DEF IsChain
<1>9. Len(E[xs]) \in Nat
  BY DEF IsData
<1>10. Finds(E, T, a, M, F[xs], xs, p)
  <2>. HIDE DEF T, a, M
  <2>. QED BY <1>7, <1>8, <1>9 DEF Finds, Answers
<1>. QED BY <1>5, <1>10

LEMMA AssqFinds ==
  ASSUME NEW E, NEW W, IsData(data, kinds, E, W), NEW xs \in DOMAIN E, NEW x
  PROVE  \E p : Finds(E, {i \in DOMAIN E : data[data[i].car.value].car = x},
                      [i \in DOMAIN E |-> data[i].car],
                      {k \in 1 .. Len(E[xs]) : data[E[xs][k].value].car = x},
                      Assq(x, Reference(xs)), xs, p)
<1>. DEFINE T == {i \in DOMAIN E : data[data[i].car.value].car = x}
            a == [i \in DOMAIN E |-> data[i].car]
            M == {k \in 1 .. Len(E[xs]) : data[E[xs][k].value].car = x}
            go(f, i) == IF i = NullCell THEN Reference(FalseCell)
                        ELSE IF data[data[i].car.value].car = x THEN data[i].car
                        ELSE f[data[i].cdr.value]
            F == CHOOSE f : f = [i \in Lists |-> go(f, i)]
<1>1. Lists = DOMAIN E
  BY ListsAre
<1>2. \A f : \A i \in DOMAIN E : SearchGo(T, a, f, i) = go(f, i)
  BY DEF SearchGo, NullCell
<1>3. PICK f : IsSearch(E, T, a, f)
  <2>. HIDE DEF T, a
  <2>. QED BY SearchRuns
<1>4. F = [i \in Lists |-> go(F, i)]
  <2>1. f = [i \in Lists |-> go(f, i)]
    <3>. HIDE DEF T, a, go
    <3>. QED BY <1>1, <1>2, <1>3 DEF IsSearch
  <2>. HIDE DEF go
  <2>. QED BY <2>1
<1>5. Assq(x, Reference(xs)) = F[xs]
  BY DEF Assq, Found, Reference, F
<1>. HIDE DEF F
<1>6. Searches(E, T, a, F)
  <2>. HIDE DEF T, a, go
  <2>. QED BY <1>1, <1>2, <1>4 DEF Searches
<1>7. PICK p : IsChain(E, xs, p) /\ Answers(E, T, a, F, xs, p)
  <2>. HIDE DEF T, a
  <2>. QED BY <1>6, SearchAnswers
<1>8. \A k \in 1 .. Len(E[xs]) : p[k] \in T <=> k \in M
  BY <1>7 DEF IsChain
<1>9. Len(E[xs]) \in Nat
  BY DEF IsData
<1>10. Finds(E, T, a, M, F[xs], xs, p)
  <2>. HIDE DEF T, a, M
  <2>. QED BY <1>7, <1>8, <1>9 DEF Finds, Answers
<1>. QED BY <1>5, <1>10

LEMMA SearchesFrom ==
  ASSUME DataInv
  PROVE  SearchesFind
<1>1. PICK E, W : IsData(data, kinds, E, W)
  BY DEF DataInv
<1>2. Lists = DOMAIN E
  BY <1>1, ListsAre
<1>3. ASSUME NEW xs \in DOMAIN E  PROVE Elements(xs) = E[xs] /\ E[xs] \in Seq(DataSlots)
  <2>1. Elements(xs) = E[xs]
    BY <1>1, ElementsAre
  <2>. QED BY <1>1, <2>1 DEF IsData
<1>4. ASSUME NEW xs \in Lists, NEW x \in Data
      PROVE  LET s == Elements(xs)
                 found == Memq(x, Reference(xs))
             IN IF \E k \in DOMAIN s : s[k] = x
                THEN /\ IsCons(found) /\ found.value \in Lists
                     /\ \E k \in FirstWhere(LAMBDA y : y = x, s) :
                          Elements(found.value) = SubSeq(s, k, Len(s))
                ELSE found = Reference(FalseCell)
  <2>. DEFINE found == Memq(x, Reference(xs))
              M == {k \in 1 .. Len(E[xs]) : E[xs][k] = x}
              T == {i \in DOMAIN E : data[i].car = x}
              a == [i \in DOMAIN E |-> Reference(i)]
  <2>1. PICK s \in Seq(DataSlots) : s = E[xs] /\ s = Elements(xs)
    BY <1>2, <1>3
  <2>2. PICK n \in Nat : n = Len(s) /\ DOMAIN s = 1 .. n
    OBVIOUS
  <2>3. PICK p : Finds(E, T, a, M, found, xs, p)
    BY <1>1, <1>2, MemqFinds
  <2>4. M = {k \in 1 .. n : s[k] = x}
    BY <2>1, <2>2
  <2>5. CASE \E k \in 1 .. n : s[k] = x
    <3>1. PICK k \in 1 .. n : k \in M /\ \A j \in 1 .. k - 1 : j \notin M
      <4>1. \E k \in 1 .. n : k \in M
        BY <2>4, <2>5
      <4>. HIDE DEF M
      <4>. QED BY <4>1, FirstOf
    <3>2. found = a[p[k]]
      <4>. HIDE DEF M, T, a, found
      <4>. QED BY <2>1, <2>2, <2>3, <3>1 DEF Finds
    <3>3. p[k] \in DOMAIN E /\ E[p[k]] = SubSeq(s, k, n)
      <4>. HIDE DEF M, T, a, found
      <4>. QED BY <2>1, <2>2, <2>3, <3>1 DEF Finds, IsChain
    <3>4. found = Reference(p[k])
      <4>. HIDE DEF found
      <4>. QED BY <3>2, <3>3
    <3>5. IsCons(found) /\ found.value = p[k]
      <4>. HIDE DEF found
      <4>. QED BY <3>4 DEF Reference, IsCons
    <3>6. Elements(found.value) = SubSeq(s, k, Len(s))
      <4>1. Elements(p[k]) = E[p[k]]
        BY <1>3, <3>3
      <4>. HIDE DEF found
      <4>. QED BY <2>2, <3>3, <3>5, <4>1
    <3>7. k \in FirstWhere(LAMBDA y : y = x, s)
      <4>1. s[k] = x /\ \A j \in 1 .. k - 1 : s[j] # x
        <5>1. \A j \in 1 .. k - 1 : j \in 1 .. n
          OBVIOUS
        <5>. QED BY <2>4, <3>1, <5>1
      <4>. QED BY <2>2, <4>1 DEF FirstWhere
    <3>8. \E l \in FirstWhere(LAMBDA y : y = x, s) : Elements(found.value) = SubSeq(s, l, Len(s))
      <4>. HIDE DEF found
      <4>. QED BY <3>6, <3>7
    <3>. HIDE DEF found
    <3>. QED BY <1>2, <2>1, <2>2, <2>5, <3>3, <3>5, <3>8 DEF found
  <2>6. CASE ~ \E k \in 1 .. n : s[k] = x
    <3>1. found = Reference(FalseCell)
      <4>1. \A k \in 1 .. n : k \notin M
        BY <2>4, <2>6
      <4>. HIDE DEF M, T, a, found
      <4>. QED BY <2>1, <2>2, <2>3, <4>1 DEF Finds
    <3>. QED BY <2>1, <2>2, <2>6, <3>1
  <2>. QED BY <2>5, <2>6
<1>5. ASSUME NEW xs \in Lists, NEW x \in Data
      PROVE  LET s == Elements(xs)
                 matches == FirstWhere(LAMBDA y : data[y.value].car = x, s)
             IN Assq(x, Reference(xs)) =
                  IF matches = {} THEN Reference(FalseCell) ELSE s[CHOOSE k \in matches : TRUE]
  <2>. DEFINE found == Assq(x, Reference(xs))
              M == {k \in 1 .. Len(E[xs]) : data[E[xs][k].value].car = x}
              T == {i \in DOMAIN E : data[data[i].car.value].car = x}
              a == [i \in DOMAIN E |-> data[i].car]
  <2>1. PICK s \in Seq(DataSlots) : s = E[xs] /\ s = Elements(xs)
    BY <1>2, <1>3
  <2>2. PICK n \in Nat : n = Len(s) /\ DOMAIN s = 1 .. n
    OBVIOUS
  <2>3. PICK p : Finds(E, T, a, M, found, xs, p)
    BY <1>1, <1>2, AssqFinds
  <2>4. M = {k \in 1 .. n : data[s[k].value].car = x}
    BY <2>1, <2>2
  <2>. DEFINE matches == FirstWhere(LAMBDA y : data[y.value].car = x, s)
  <2>5. matches = {k \in 1 .. n : k \in M /\ \A j \in 1 .. k - 1 : j \notin M}
    <3>1. \A k \in 1 .. n : \A j \in 1 .. k - 1 : j \in 1 .. n
      OBVIOUS
    <3>2. \A k \in 1 .. n : k \in M <=> data[s[k].value].car = x
      BY <2>4
    <3>3. matches = {k \in 1 .. n : /\ data[s[k].value].car = x
                                    /\ \A j \in 1 .. k - 1 : ~(data[s[j].value].car = x)}
      BY <2>2 DEF FirstWhere
    <3>. HIDE DEF M, matches
    <3>. QED BY <3>1, <3>2, <3>3
  <2>. HIDE DEF matches
  <2>6. CASE matches = {}
    <3>1. \A k \in 1 .. n : k \notin M
      <4>. HIDE DEF M
      <4>. QED BY <2>5, <2>6, FirstOf
    <3>2. found = Reference(FalseCell)
      <4>. HIDE DEF M, T, a, found
      <4>. QED BY <2>1, <2>2, <2>3, <3>1 DEF Finds
    <3>. QED BY <2>1, <2>6, <3>2 DEF matches
  <2>7. CASE matches # {}
    <3>1. PICK k \in matches : k = CHOOSE l \in matches : TRUE
      BY <2>7
    <3>2. k \in 1 .. n /\ k \in M /\ \A j \in 1 .. k - 1 : j \notin M
      <4>. HIDE DEF M
      <4>. QED BY <2>5, <3>1
    <3>3. found = a[p[k]]
      <4>. HIDE DEF M, T, a, found
      <4>. QED BY <2>1, <2>2, <2>3, <3>2 DEF Finds
    <3>4. p[k] \in DOMAIN E /\ data[p[k]].car = s[k]
      <4>. HIDE DEF M, T, a, found
      <4>. QED BY <2>1, <2>2, <2>3, <3>2 DEF Finds, IsChain
    <3>5. found = s[k]
      <4>. HIDE DEF found
      <4>. QED BY <3>3, <3>4
    <3>. QED BY <2>1, <2>7, <3>1, <3>5 DEF matches
  <2>. QED BY <2>6, <2>7
<1>. QED BY <1>4, <1>5 DEF SearchesFind

-----------------------------------------------------------------------------
(* The text of a cell depends on the texts of older cells only.                *)
AgreeBelow(f, g, i) == \A j \in 1 .. i - 1 : f[j] = g[j]

LEMMA WrittenDepends ==
  ASSUME NEW d, NEW t, NEW E, NEW i \in Nat, MadeCell(d, t, E, i), DOMAIN E \subseteq Nat \ {0},
         NEW e, NEW u, e[i] = d[i], u[i] = t[i],
         NEW f, NEW g, AgreeBelow(f, g, i)
  PROVE  WrittenAs(e, u, f, i) = WrittenAs(d, t, g, i)
<1>1. ASSUME NEW v, Older(v, i)  PROVE FieldAs(f, v) = FieldAs(g, v)
  BY <1>1, OlderCell DEF FieldAs, AgreeBelow
<1>2. CASE t[i] = "pair"
  <2>1. Older(d[i].car, i) /\ Older(d[i].cdr, i)
    BY <1>2 DEF MadeCell, MadeSequence
  <2>2. FieldAs(f, d[i].car) = FieldAs(g, d[i].car) /\ FieldAs(f, d[i].cdr) = FieldAs(g, d[i].cdr)
    BY <1>1, <2>1
  <2>. QED BY <1>2, <2>2 DEF WrittenAs
<1>3. CASE t[i] \in {"string", "vector"}
  <2>1. \E l \in DOMAIN E : \E x, tag : l < i /\ d[i] = Cell(x, Reference(l), tag)
    BY <1>3 DEF MadeCell, MadeSequence
  <2>2. PICK l \in DOMAIN E : \E x, tag : l < i /\ d[i] = Cell(x, Reference(l), tag)
    BY <2>1
  <2>3. d[i].cdr = Reference(l) /\ l \in 1 .. i - 1
    BY <2>2 DEF Cell
  <2>4. Older(d[i].cdr, i)
    BY <2>3 DEF Older
  <2>5. FieldAs(f, d[i].cdr) = FieldAs(g, d[i].cdr)
    BY <1>1, <2>4
  <2>. QED BY <1>3, <2>5 DEF WrittenAs
<1>4. CASE t[i] \in {"character", "symbol"}
  BY <1>4 DEF WrittenAs
<1>. QED BY <1>2, <1>3, <1>4 DEF MadeCell, MadeSequence

LEMMA MadeStays ==
  ASSUME NEW d, NEW t, NEW E, NEW i, MadeCell(d, t, E, i),
         NEW e, NEW u, e[i] = d[i], u[i] = t[i],
         NEW F, DOMAIN E \subseteq DOMAIN F, \A l \in DOMAIN E : F[l] = E[l]
  PROVE  MadeCell(e, u, F, i)
<1>1. ASSUME NEW kind, NEW tag, MadeSequence(d, t, E, i, kind, tag)
      PROVE  MadeSequence(e, u, F, i, kind, tag)
  <2>1. PICK l \in DOMAIN E : l < i /\ d[i] = Cell(Number(Len(E[l])), Reference(l), tag)
    BY <1>1 DEF MadeSequence
  <2>2. l \in DOMAIN F /\ F[l] = E[l]
    OBVIOUS
  <2>. QED BY <1>1, <2>1, <2>2 DEF MadeSequence
<1>2. CASE MadeSequence(d, t, E, i, "string", StringType)
  BY <1>1, <1>2 DEF MadeCell
<1>3. CASE MadeSequence(d, t, E, i, "vector", VectorType)
  BY <1>1, <1>3 DEF MadeCell
<1>. QED BY <1>2, <1>3 DEF MadeCell

GrownTo(a, S, s, x, n) ==
  a \in Seq(S) /\ Len(a) = n + 1 /\ a[n + 1] = x /\ \A i \in 1 .. n : a[i] = s[i]

LEMMA Appended ==
  ASSUME NEW S, NEW s \in Seq(S), NEW x \in S, NEW n \in Nat, n = Len(s)
  PROVE  GrownTo(Append(s, x), S, s, x, n)
BY DEF GrownTo

(* What one more cell makes of it.                                          *)
LEMMA OneMoreCell ==
  ASSUME NEW d, NEW t, NEW E, NEW W, IsData(d, t, E, W),
         NEW cell \in DataCells, NEW kind \in AllKinds,
         NEW e, NEW u, GrownTo(e, DataCells, d, cell, Len(d)), GrownTo(u, AllKinds, t, kind, Len(d)),
         MadeCell(e, u, E, Len(d) + 1)
  PROVE  \E F, X : IsData(e, u, F, X)
<1>1. PICK n \in Nat : n = Len(d) /\ n = Len(t) /\ n >= 3
  BY DEF IsData, FirstCells
<1>. DEFINE m == n + 1
            rest == cell.cdr.value
            listed == kind = "pair" /\ IsCons(cell.cdr) /\ rest \in DOMAIN E
            I == IF listed THEN DOMAIN E \cup {m} ELSE DOMAIN E
            F == [i \in I |-> IF i = m THEN <<cell.car>> \o E[rest] ELSE E[i]]
            X == [i \in 1 .. m |-> IF i = m THEN WrittenAs(e, u, W, m) ELSE W[i]]
<1>2. /\ e \in Seq(DataCells) /\ Len(e) = m /\ e[m] = cell
      /\ \A i \in 1 .. n : e[i] = d[i]
  BY <1>1 DEF GrownTo
<1>3. /\ u \in Seq(AllKinds) /\ Len(u) = m /\ u[m] = kind
      /\ \A i \in 1 .. n : u[i] = t[i]
  BY <1>1 DEF GrownTo
<1>4. FirstCells(e, u)
  <2>1. 1 \in 1 .. n /\ 2 \in 1 .. n /\ 3 \in 1 .. n
    BY <1>1
  <2>2. e[1] = d[1] /\ e[2] = d[2] /\ e[3] = d[3] /\ u[1] = t[1] /\ u[2] = t[2] /\ u[3] = t[3]
    BY <1>2, <1>3, <2>1
  <2>3. FirstCells(d, t)
    BY DEF IsData
  <2>4. Len(e) = Len(u) /\ Len(e) >= 3
    BY <1>1, <1>2, <1>3
  <2>. QED BY <1>2, <1>3, <2>2, <2>3, <2>4 DEF FirstCells
<1>5. /\ DOMAIN E \subseteq 1 .. n /\ 1 \in DOMAIN E /\ E[1] = <<>>
      /\ \A i \in DOMAIN E : E[i] \in Seq(DataSlots)
      /\ MadeCell(e, u, E, m)
  BY <1>1 DEF IsData
<1>6. /\ DOMAIN F = I /\ DOMAIN E \subseteq I /\ I \subseteq 1 .. m
      /\ \A i \in DOMAIN E : i # m /\ F[i] = E[i]
      /\ \A i \in 1 .. n : i \in I <=> i \in DOMAIN E
      /\ m \in I <=> listed
  <2>1. \A i \in 1 .. n : i # m /\ i \in 1 .. m
    BY <1>1
  <2>2. m \in 1 .. m
    BY <1>1
  <2>. HIDE DEF m, listed
  <2>. QED BY <1>5, <2>1, <2>2
<1>7. listed => F[m] = <<cell.car>> \o E[rest]
  <2>. HIDE DEF listed, rest
  <2>. QED BY <1>6
<1>. HIDE DEF F, I
<1>8. \A i \in 1 .. m : i \in 1 .. n \/ i = m
  BY <1>1
<1>9. cell.car \in DataSlots
  BY DEF DataCells
<1>10. F \in [DOMAIN F -> Seq(DataSlots)]
  <2>1. ASSUME NEW i \in I  PROVE F[i] \in Seq(DataSlots)
    <3>1. CASE i \in DOMAIN E
      BY <1>5, <1>6, <3>1
    <3>2. CASE i \notin DOMAIN E
      <4>1. i = m /\ listed
        BY <1>6, <1>8, <3>2
      <4>2. E[rest] \in Seq(DataSlots)
        BY <1>5, <4>1
      <4>3. F[m] = <<cell.car>> \o E[rest]
        BY <1>7, <4>1
      <4>4. <<cell.car>> \o E[rest] \in Seq(DataSlots)
        BY <1>9, <4>2
      <4>. QED BY <4>1, <4>3, <4>4
    <3>. QED BY <3>1, <3>2
  <2>2. F = [i \in I |-> F[i]]
    BY DEF F
  <2>. QED BY <1>6, <2>1, <2>2
<1>11. ASSUME NEW i \in 1 .. n, t[i] = "pair", IsCons(d[i].cdr)
       PROVE  d[i].cdr.value \in 1 .. n
  <2>1. d[i].cdr.value \in 1 .. i - 1
    <3>1. Older(d[i].cdr, i)
      BY <1>1, <1>11, PairFields
    <3>. QED BY <1>11, <3>1, OlderCell
  <2>. QED BY <2>1
<1>12. ASSUME kind = "pair", IsCons(cell.cdr)
       PROVE  rest \in 1 .. n
  <2>1. Older(e[m].cdr, m)
    BY <1>3, <1>5, <1>12 DEF MadeCell, MadeSequence
  <2>2. rest \in 1 .. m - 1
    BY <1>1, <1>2, <1>12, <2>1, OlderCell
  <2>. QED BY <1>1, <2>2
<1>13. \A i \in 2 .. m : i \in DOMAIN F <=> Links(e, u, DOMAIN F, i)
  <2>1. ASSUME NEW i \in 2 .. n  PROVE i \in DOMAIN F <=> Links(e, u, DOMAIN F, i)
    <3>1. i \in 1 .. n /\ (i \in DOMAIN E <=> Links(d, t, DOMAIN E, i))
      BY <1>1 DEF IsData
    <3>2. Links(d, t, DOMAIN E, i) <=> Links(e, u, DOMAIN F, i)
      BY <1>2, <1>3, <1>6, <1>11, <3>1 DEF Links
    <3>. QED BY <1>6, <3>1, <3>2
  <2>2. m \in DOMAIN F <=> Links(e, u, DOMAIN F, m)
    <3>1. Links(e, u, DOMAIN F, m) <=> kind = "pair" /\ IsCons(cell.cdr) /\ rest \in I
      BY <1>2, <1>3, <1>6 DEF Links
    <3>2. kind = "pair" /\ IsCons(cell.cdr) => (rest \in I <=> rest \in DOMAIN E)
      <4>. HIDE DEF rest
      <4>. QED BY <1>6, <1>12
    <3>. HIDE DEF rest, m
    <3>. QED BY <1>6, <3>1, <3>2
  <2>3. \A i \in 2 .. m : i \in 2 .. n \/ i = m
    BY <1>1
  <2>. QED BY <2>1, <2>2, <2>3
<1>14. \A i \in DOMAIN F : i # 1 => F[i] = <<e[i].car>> \o F[e[i].cdr.value]
  <2>1. ASSUME NEW i \in DOMAIN E, i # 1
        PROVE  F[i] = <<e[i].car>> \o F[e[i].cdr.value]
    <3>1. PICK p : Link(d, t, E, i, p)
      BY <2>1, ListLink
    <3>2. p \in DOMAIN E /\ d[i].cdr.value = p /\ E[i] = <<d[i].car>> \o E[p]
      BY <3>1 DEF Link, Reference
    <3>3. e[i] = d[i] /\ F[i] = E[i] /\ F[p] = E[p]
      BY <1>2, <1>5, <1>6, <3>2
    <3>. QED BY <3>2, <3>3
  <2>2. listed => F[m] = <<e[m].car>> \o F[e[m].cdr.value]
    <3>1. listed => F[rest] = E[rest]
      BY <1>6
    <3>. QED BY <1>2, <1>7, <3>1
  <2>3. \A i \in DOMAIN F : i \in DOMAIN E \/ (i = m /\ listed)
    <3>. HIDE DEF m, listed
    <3>. QED BY <1>6, <1>8
  <2>. QED BY <2>1, <2>2, <2>3
<1>15. ASSUME NEW i \in 1 .. m  PROVE X[i] = IF i = m THEN WrittenAs(e, u, W, m) ELSE W[i]
  OBVIOUS
<1>. HIDE DEF X
<1>16. \A i \in 1 .. n : X[i] = W[i]
  <2>1. \A i \in 1 .. n : i # m /\ i \in 1 .. m
    BY <1>1
  <2>. QED BY <1>15, <2>1
<1>17. DOMAIN E \subseteq Nat \ {0}
  BY <1>5
<1>18. ASSUME NEW i \in 1 .. m  PROVE X[i] = WrittenAs(e, u, X, i)
  <2>1. CASE i \in 4 .. n
    <3>1. W[i] = WrittenAs(d, t, W, i) /\ MadeCell(d, t, E, i)
      BY <1>1, <2>1 DEF IsData
    <3>2. i \in 1 .. n /\ i \in Nat /\ e[i] = d[i] /\ u[i] = t[i]
      BY <1>2, <1>3, <2>1
    <3>3. AgreeBelow(X, W, i)
      BY <1>16, <2>1 DEF AgreeBelow
    <3>4. WrittenAs(e, u, X, i) = WrittenAs(d, t, W, i)
      BY <1>17, <3>1, <3>2, <3>3, WrittenDepends
    <3>. QED BY <1>16, <3>1, <3>2, <3>4
  <2>2. CASE i = m
    <3>1. AgreeBelow(X, W, m)
      BY <1>1, <1>16 DEF AgreeBelow
    <3>2. m \in Nat
      OBVIOUS
    <3>3. WrittenAs(e, u, X, m) = WrittenAs(e, u, W, m)
      <4>. HIDE DEF m
      <4>. QED BY <1>5, <1>17, <3>1, <3>2, WrittenDepends
    <3>. QED BY <1>15, <2>2, <3>3
  <2>3. CASE i \notin 4 .. n /\ i # m
    <3>1. i \in 1 .. n /\ (i = 1 \/ i = 2 \/ i = 3)
      BY <1>1, <2>3
    <3>2. W[i] = WrittenAs(d, t, W, i)
      BY <1>1, <3>1 DEF IsData
    <3>3. t[i] \in {"null", "false", "true"} /\ u[i] = t[i]
      BY <1>3, <3>1 DEF IsData, FirstCells
    <3>4. WrittenAs(e, u, X, i) = WrittenAs(d, t, W, i)
      BY <3>3 DEF WrittenAs
    <3>. QED BY <1>16, <3>1, <3>2, <3>4
  <2>. QED BY <2>1, <2>2, <2>3
<1>19. ASSUME NEW i \in 4 .. m  PROVE MadeCell(e, u, F, i)
  <2>1. DOMAIN E \subseteq DOMAIN F /\ \A l \in DOMAIN E : F[l] = E[l]
    BY <1>6
  <2>2. CASE i \in 4 .. n
    <3>1. MadeCell(d, t, E, i)
      BY <1>1, <2>2 DEF IsData
    <3>2. e[i] = d[i] /\ u[i] = t[i]
      BY <1>2, <1>3, <2>2
    <3>. QED BY <2>1, <3>1, <3>2, MadeStays
  <2>3. CASE i \notin 4 .. n
    <3>1. i = m
      BY <1>1, <2>3
    <3>. QED BY <1>5, <2>1, <3>1, MadeStays
  <2>. QED BY <2>2, <2>3
<1>20. 1 \in DOMAIN F /\ F[1] = <<>> /\ DOMAIN F \subseteq 1 .. Len(e)
  BY <1>2, <1>5, <1>6
<1>21. IsData(e, u, F, X)
  BY <1>2, <1>4, <1>10, <1>13, <1>14, <1>18, <1>19, <1>20 DEF IsData
<1>. QED BY <1>21

LEMMA DataStarts ==
  ASSUME DataInit
  PROVE  DataInv
<1>. DEFINE E == [i \in {1} |-> <<>>]
            W == [i \in 1 .. 3 |-> <<kinds[i], i>>]
            a == Cell(Number(0), Reference(NullCell), NullType)
            b == Cell(Reference(NullCell), Reference(TrueCell), BooleanType)
            c == Cell(Number(0), Reference(NullCell), BooleanType)
<1>1. a \in DataCells /\ b \in DataCells /\ c \in DataCells
  BY DEF DataCells, DataSlots, Cell, Number, Reference, IsCons, NullType, BooleanType, NullCell,
    TrueCell
<1>2. a.tag = NullType /\ b.tag = BooleanType /\ c.tag = BooleanType
  BY DEF Cell, Reference, IsCons
<1>3. data = <<a, b, c>> /\ kinds = <<"null", "false", "true">>
  BY DEF DataInit
<1>. HIDE DEF a, b, c
<1>4. data \in Seq(DataCells) /\ Len(data) = 3 /\ data[1] = a /\ data[2] = b /\ data[3] = c
  BY <1>1, <1>3
<1>5. /\ kinds \in Seq(AllKinds) /\ Len(kinds) = 3
      /\ kinds[1] = "null" /\ kinds[2] = "false" /\ kinds[3] = "true"
  BY <1>3 DEF AllKinds
<1>6. FirstCells(data, kinds)
  BY <1>2, <1>4, <1>5 DEF FirstCells
<1>7. DOMAIN E = {1} /\ E[1] = <<>> /\ E \in [DOMAIN E -> Seq(DataSlots)]
  OBVIOUS
<1>8. \A i \in 1 .. 3 : i = 1 \/ i = 2 \/ i = 3
  OBVIOUS
<1>9. \A i \in 1 .. 3 : W[i] = WrittenAs(data, kinds, W, i)
  BY <1>5, <1>8 DEF WrittenAs
<1>. HIDE DEF E, W
<1>10. \A i \in 2 .. 3 : i \notin DOMAIN E /\ ~ Links(data, kinds, DOMAIN E, i)
  <2>1. \A i \in 2 .. 3 : i = 2 \/ i = 3
    OBVIOUS
  <2>. QED BY <1>5, <1>7, <2>1 DEF Links
<1>11. 4 .. 3 = {}
  OBVIOUS
<1>12. IsData(data, kinds, E, W)
  <2>1. DOMAIN E \subseteq 1 .. 3 /\ 1 \in DOMAIN E
    BY <1>7
  <2>. QED BY <1>4, <1>6, <1>7, <1>9, <1>10, <1>11, <2>1 DEF IsData
<1>. QED BY <1>12 DEF DataInv

(* A value that a program has.                                              *)
LEMMA DataSlot ==
  ASSUME NEW E, NEW W, IsData(data, kinds, E, W), NEW v \in Data
  PROVE  v \in DataSlots /\ Older(v, Len(data) + 1)
<1>1. ValueIn(v, Len(data))
  BY WrittenOf
<1>2. PICK n \in Nat : n = Len(data)
  BY DataIs
<1>3. ValueIn(v, n) /\ (n + 1) - 1 = n
  BY <1>1, <1>2
<1>4. Older(v, n + 1)
  BY <1>3 DEF ValueIn, Older
<1>5. v \in DataSlots
  BY <1>3 DEF ValueIn, DataSlots, Number, Reference
<1>. QED BY <1>2, <1>4, <1>5

(* A constructor keeps the data what they are.                                *)
LEMMA MakeKeeps ==
  ASSUME NEW E, NEW W, IsData(data, kinds, E, W),
         NEW cell \in DataCells, NEW kind \in AllKinds, Make(kind, cell),
         NEW d, NEW t, d = data', t = kinds',
         d[Len(data) + 1] = cell /\ t[Len(data) + 1] = kind => MadeCell(d, t, E, Len(data) + 1)
  PROVE  DataInv'
<1>1. data \in Seq(DataCells) /\ kinds \in Seq(AllKinds) /\ Len(data) = Len(kinds)
  BY DEF IsData, FirstCells
<1>2. d = Append(data, cell) /\ t = Append(kinds, kind)
  BY DEF Make
<1>3. PICK n \in Nat : n = Len(data) /\ n = Len(kinds)
  BY <1>1
<1>4. GrownTo(d, DataCells, data, cell, n)
  BY <1>1, <1>2, <1>3, Appended
<1>5. GrownTo(t, AllKinds, kinds, kind, n)
  BY <1>1, <1>2, <1>3, Appended
<1>6. MadeCell(d, t, E, Len(data) + 1)
  BY <1>3, <1>4, <1>5 DEF GrownTo
<1>7. \E F, X : IsData(d, t, F, X)
  BY <1>3, <1>4, <1>5, <1>6, OneMoreCell
<1>. QED BY <1>7 DEF DataInv

LEMMA DataSteps ==
  ASSUME DataInv, [DataNext]_dataVars
  PROVE  DataInv'
<1>1. PICK E, W : IsData(data, kinds, E, W)
  BY DEF DataInv
<1>2. PICK n \in Nat : n = Len(data) /\ n >= 3
  BY <1>1, DataIs
<1>3. PICK d, t : d = data' /\ t = kinds'
  OBVIOUS
<1>4. CASE \E car, cdr \in Data : MakePair(car, cdr)
  <2>1. PICK car, cdr \in Data : MakePair(car, cdr)
    BY <1>4
  <2>2. car \in DataSlots /\ cdr \in DataSlots /\ Older(car, n + 1) /\ Older(cdr, n + 1)
    BY <1>1, <1>2, DataSlot
  <2>. DEFINE cell == Cell(car, cdr, PairType)
  <2>3. cell \in DataCells /\ cell.car = car /\ cell.cdr = cdr /\ cell.tag = PairType
    BY <2>2 DEF Cell, DataCells, PairType
  <2>4. "pair" \in AllKinds /\ Make("pair", cell)
    BY <2>1 DEF MakePair, AllKinds
  <2>. HIDE DEF cell
  <2>5. d[n + 1] = cell /\ t[n + 1] = "pair" => MadeCell(d, t, E, n + 1)
    BY <2>2, <2>3 DEF MadeCell
  <2>. QED BY <1>1, <1>2, <1>3, <2>3, <2>4, <2>5, MakeKeeps
<1>5. CASE \E m \in DataNumbers : MakeCharacter(m)
  <2>1. PICK m \in DataNumbers : MakeCharacter(m)
    BY <1>5
  <2>2. m \in Int
    BY DataNumbersAssumption
  <2>. DEFINE cell == Cell(Number(m), Reference(NullCell), CharType)
  <2>3. cell \in DataCells
    BY <2>2 DEF Cell, DataCells, DataSlots, Number, Reference, IsCons, NullCell, CharType
  <2>4. "character" \in AllKinds /\ Make("character", cell)
    BY <2>1 DEF MakeCharacter, AllKinds
  <2>5. d[n + 1] = cell /\ t[n + 1] = "character" => MadeCell(d, t, E, n + 1)
    BY <2>2 DEF MadeCell
  <2>. HIDE DEF cell
  <2>. QED BY <1>1, <1>2, <1>3, <2>3, <2>4, <2>5, MakeKeeps
<1>6. CASE MakeSymbol
  <2>. DEFINE cell == Cell(Reference(FalseCell), Reference(NullCell), SymbolType)
  <2>3. cell \in DataCells
    BY DEF Cell, DataCells, DataSlots, Reference, IsCons, NullCell, FalseCell, SymbolType
  <2>4. "symbol" \in AllKinds /\ Make("symbol", cell)
    BY <1>6 DEF MakeSymbol, AllKinds
  <2>5. d[n + 1] = cell /\ t[n + 1] = "symbol" => MadeCell(d, t, E, n + 1)
    BY DEF MadeCell
  <2>. HIDE DEF cell
  <2>. QED BY <1>1, <1>2, <1>3, <2>3, <2>4, <2>5, MakeKeeps
<1>7. ASSUME NEW i \in Lists, NEW kind \in {"string", "vector"},
             MakeSequence(kind, TagOf(kind), i)
      PROVE  DataInv'
  <2>1. i \in DOMAIN E /\ Elements(i) = E[i]
    BY <1>1, ListsAre, ElementsAre
  <2>2. E[i] \in Seq(DataSlots) /\ i \in 1 .. n
    BY <1>1, <1>2, <2>1 DEF IsData
  <2>3. PICK m \in Nat : m = Len(E[i])
    BY <2>2
  <2>. DEFINE cell == Cell(Number(m), Reference(i), TagOf(kind))
  <2>4. cell \in DataCells
    BY <2>2 DEF Cell, DataCells, DataSlots, Number, Reference, IsCons, TagOf, StringType, VectorType
  <2>5. kind \in AllKinds /\ Make(kind, cell)
    BY <1>7, <2>1, <2>3 DEF MakeSequence, AllKinds
  <2>6. d[n + 1] = cell /\ t[n + 1] = kind => MadeSequence(d, t, E, n + 1, kind, TagOf(kind))
    BY <1>2, <2>1, <2>2, <2>3 DEF MadeSequence
  <2>7. MadeSequence(d, t, E, n + 1, kind, TagOf(kind)) => MadeCell(d, t, E, n + 1)
    BY DEF MadeCell, TagOf
  <2>. HIDE DEF cell
  <2>. QED BY <1>1, <1>2, <1>3, <2>4, <2>5, <2>6, <2>7, MakeKeeps
<1>8. CASE \E i \in Lists : MakeString(i) \/ MakeVector(i)
  <2>1. PICK i \in Lists : MakeString(i) \/ MakeVector(i)
    BY <1>8
  <2>2. CASE MakeString(i)
    <3>1. MakeSequence("string", TagOf("string"), i)
      BY <2>2 DEF MakeString, TagOf
    <3>. QED BY <1>7, <3>1
  <2>3. CASE MakeVector(i)
    <3>1. MakeSequence("vector", TagOf("vector"), i)
      BY <2>3 DEF MakeVector, TagOf
    <3>. QED BY <1>7, <3>1
  <2>. QED BY <2>1, <2>2, <2>3
<1>9. CASE UNCHANGED dataVars
  BY <1>9 DEF dataVars, DataInv
<1>. QED BY <1>4, <1>5, <1>6, <1>8, <1>9 DEF DataNext

LEMMA DataStay == DataSpec => []DataInv
<1>1. DataInit => DataInv
  BY DataStarts
<1>2. DataInv /\ [DataNext]_dataVars => DataInv'
  BY DataSteps
<1>. QED BY <1>1, <1>2, PTL DEF DataSpec

(* For all numbers in data and as many cells as a program makes: pair?, null?, *)
(* eqv? and equal? tell data apart as their constructors and `write` do       *)
(* (type_check.rs:31, equal.rs:36 and 54).                                  *)
THEOREM PredicatesAlwaysTell == DataSpec => []PredicatesTell
<1>1. DataInv => PredicatesTell
  BY PredicatesFrom
<1>. QED BY <1>1, DataStay, PTL

(* memq and assq answer with the first match of any list, or with #f          *)
(* (list.rs:42 and 64).                                                     *)
THEOREM SearchesAlwaysFind == DataSpec => []SearchesFind
<1>1. DataInv => SearchesFind
  BY SearchesFrom
<1>. QED BY <1>1, DataStay, PTL
=============================================================================
