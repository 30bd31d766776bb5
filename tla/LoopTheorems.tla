---------------------------- MODULE LoopTheorems -----------------------------
(***************************************************************************)
(* What the proofs keep needing of numbers and sequences: induction as the    *)
(* least element of a set, loops that run n times, functions that call       *)
(* themselves on a smaller number, quotients and rests.                      *)
(***************************************************************************)
EXTENDS Integers, Sequences, WellFoundedInduction, TLAPS

(* The least element of a set of numbers.                                    *)
LEMMA LeastNumber ==
  ASSUME NEW T, T \subseteq Nat, T # {}
  PROVE  \E x \in T : \A y \in T : x <= y
<1>. DEFINE Less == OpToRel(<, Nat)
<1>1. IsWellFoundedOn(Less, Nat)
  BY NatLessThanWellFounded
<1>2. \A x, y \in Nat : <<y, x>> \in Less <=> y < x
  BY DEF OpToRel
<1>. HIDE DEF Less
<1>3. PICK x \in T : \A y \in T : ~ (<<y, x>> \in Less)
  BY <1>1, WFMin
<1>4. ASSUME NEW y \in T
      PROVE  x <= y
  <2>1. x \in Nat /\ y \in Nat
    OBVIOUS
  <2>2. ~(y < x)
    BY <1>2, <1>3, <2>1
  <2>. QED BY <2>1, <2>2
<1>. QED BY <1>4

(* A set that has 0, and with a number the next one up to n, has them all:   *)
(* the least number that it misses would follow one that it has.            *)
LEMMA CountsTo ==
  ASSUME NEW n \in Nat, NEW T, 0 \in T, \A m \in 0 .. n - 1 : m \in T => m + 1 \in T
  PROVE  0 .. n \subseteq T
<1>. DEFINE Missed == {m \in 0 .. n : m \notin T}
<1>1. SUFFICES ASSUME Missed # {}  PROVE FALSE
  OBVIOUS
<1>2. PICK m \in Missed : \A l \in Missed : m <= l
  <2>1. Missed \subseteq Nat
    OBVIOUS
  <2>. HIDE DEF Missed
  <2>. QED BY <1>1, <2>1, LeastNumber
<1>3. m \in 1 .. n /\ m - 1 \in 0 .. n - 1
  BY <1>2
<1>4. m - 1 \in T
  BY <1>2, <1>3
<1>. QED BY <1>2, <1>3, <1>4

(* Where the elements of two sequences are when one follows the other.       *)
LEMMA ConcatIs ==
  ASSUME NEW S, NEW a \in Seq(S), NEW b \in Seq(S), NEW c, c = a \o b
  PROVE  /\ Len(a) \in Nat /\ Len(b) \in Nat /\ Len(c) = Len(a) + Len(b)
         /\ \A i \in 1 .. Len(a) : c[i] = a[i]
         /\ \A i \in 1 .. Len(b) : Len(a) + i \in 1 .. Len(c) /\ c[Len(a) + i] = b[i]
OBVIOUS

-----------------------------------------------------------------------------
(* Loops over the first n numbers.                                         *)

IsLoop(at, D, b, n, body) ==
  /\ at \in [0 .. n -> D] /\ at[0] = b
  /\ \A k \in 1 .. n : at[k] = body[<<at[k - 1], k>>]

(* A loop whose body is a function runs: there is the sequence of its states. *)
LEMMA LoopRuns ==
  ASSUME NEW D, NEW b \in D, NEW n \in Nat, NEW body \in [D \X (1 .. n) -> D]
  PROVE  \E at : IsLoop(at, D, b, n, body)
<1>. DEFINE Runs(m, at) == IsLoop(at, D, b, m, body)
            T == {m \in 0 .. n : \E at : Runs(m, at)}
<1>1. 0 \in T
  <2>. DEFINE start == [i \in 0 .. 0 |-> b]
  <2>1. Runs(0, start)
    BY DEF IsLoop
  <2>. HIDE DEF Runs, start
  <2>. QED BY <2>1
<1>2. ASSUME NEW m \in 0 .. n - 1, m \in T  PROVE m + 1 \in T
  <2>1. PICK at : Runs(m, at)
    BY <1>2
  <2>. DEFINE next == [i \in 0 .. m + 1 |-> IF i = m + 1 THEN body[<<at[m], m + 1>>] ELSE at[i]]
  <2>2. m \in 0 .. m /\ at[m] \in D /\ m + 1 \in 1 .. n
    BY <2>1 DEF IsLoop
  <2>3. body[<<at[m], m + 1>>] \in D
    BY <2>2
  <2>4. next \in [0 .. m + 1 -> D] /\ next[0] = b
    BY <2>1, <2>3 DEF IsLoop
  <2>5. ASSUME NEW k \in 1 .. m + 1  PROVE next[k] = body[<<next[k - 1], k>>]
    <3>1. CASE k = m + 1
      <4>1. next[m + 1] = body[<<at[m], m + 1>>]
        OBVIOUS
      <4>2. m \in 0 .. m + 1 /\ m # m + 1 /\ (m + 1) - 1 = m
        OBVIOUS
      <4>3. next[m] = at[m]
        BY <4>2
      <4>. HIDE DEF next
      <4>. QED BY <3>1, <4>1, <4>2, <4>3
    <3>2. CASE k # m + 1
      <4>1. k \in 1 .. m /\ k - 1 \in 0 .. m /\ k - 1 # m + 1 /\ k \in 0 .. m + 1
        BY <3>2
      <4>2. next[k] = at[k] /\ next[k - 1] = at[k - 1]
        BY <4>1, <3>2
      <4>. QED BY <4>1, <4>2, <2>1 DEF IsLoop
    <3>. QED BY <3>1, <3>2
  <2>6. Runs(m + 1, next)
    BY <2>4, <2>5 DEF IsLoop
  <2>. HIDE DEF Runs, next
  <2>. QED BY <2>2, <2>6
<1>. HIDE DEF T
<1>3. 0 .. n \subseteq T
  BY <1>1, <1>2, CountsTo
<1>4. n \in T
  BY <1>3
<1>. QED BY <1>4 DEF T

(* Two loops that agree on every step end in the same state.                 *)
LEMMA LoopsAgree ==
  ASSUME NEW n \in Nat, NEW f, NEW g, f[0] = g[0],
         \A k \in 1 .. n : f[k - 1] = g[k - 1] => f[k] = g[k]
  PROVE  f[n] = g[n]
<1>. DEFINE T == {m \in 0 .. n : f[m] = g[m]}
<1>1. 0 \in T
  OBVIOUS
<1>2. ASSUME NEW m \in 0 .. n - 1, m \in T  PROVE m + 1 \in T
  <2>1. m + 1 \in 1 .. n /\ (m + 1) - 1 = m
    OBVIOUS
  <2>. QED BY <1>2, <2>1
<1>. HIDE DEF T
<1>3. 0 .. n \subseteq T
  BY <1>1, <1>2, CountsTo
<1>. QED BY <1>3 DEF T

(* Recursion on numbers: what is computed for a number that is not a last one *)
(* from what is computed for a smaller one. There is such a function.        *)
Descent(f, n, last, down, start, step) ==
  f[n] = IF n \in last THEN start[n] ELSE step[<<n, f[down[n]]>>]

DescendsTo(m, f, D, last, down, start, step) ==
  f \in [0 .. m -> D] /\ \A n \in 0 .. m : Descent(f, n, last, down, start, step)

IsDescent(f, D, last, down, start, step) ==
  f \in [Nat -> D] /\ \A n \in Nat : Descent(f, n, last, down, start, step)

LEMMA DescentRuns ==
  ASSUME NEW D, NEW last, NEW down \in [Nat -> Nat], \A n \in Nat \ last : down[n] < n,
         NEW start \in [Nat -> D], NEW step \in [Nat \X D -> D]
  PROVE  \E f : IsDescent(f, D, last, down, start, step)
<1>. DEFINE A(m, f) == DescendsTo(m, f, D, last, down, start, step)
<1>1. ASSUME NEW m \in Nat, NEW f, A(m, f), NEW n \in 0 .. m, n \notin last
      PROVE  down[n] \in 0 .. m /\ down[n] < n
  BY <1>1
<1>2. ASSUME NEW m \in Nat  PROVE \E f : A(m, f)
  <2>. DEFINE T == {k \in 0 .. m : \E f : A(k, f)}
  <2>1. 0 \in T
    <3>. DEFINE f == [n \in 0 .. 0 |-> start[0]]
    <3>1. 0 \in last
      <4>1. ~(down[0] < 0)
        OBVIOUS
      <4>. QED BY <4>1
    <3>2. A(0, f)
      BY <3>1 DEF DescendsTo, Descent
    <3>. HIDE DEF A, f
    <3>. QED BY <3>2
  <2>2. ASSUME NEW k \in 0 .. m - 1, k \in T  PROVE k + 1 \in T
    <3>1. PICK f : A(k, f)
      BY <2>2
    <3>2. k \in Nat /\ k + 1 \in Nat /\ k + 1 \in 0 .. m
      OBVIOUS
    <3>. DEFINE x == IF k + 1 \in last THEN start[k + 1] ELSE step[<<k + 1, f[down[k + 1]]>>]
                g == [n \in 0 .. k + 1 |-> IF n = k + 1 THEN x ELSE f[n]]
    <3>3. k + 1 \notin last => down[k + 1] \in 0 .. k
      BY <3>2
    <3>4. x \in D
      BY <3>1, <3>2, <3>3 DEF DescendsTo
    <3>5. \A n \in 0 .. k : g[n] = f[n]
      BY <3>2
    <3>6. g[k + 1] = x
      BY <3>2
    <3>7. g \in [0 .. k + 1 -> D]
      <4>1. \A n \in 0 .. k + 1 : n # k + 1 => n \in 0 .. k
        BY <3>2
      <4>2. \A n \in 0 .. k + 1 : g[n] \in D
        BY <3>1, <3>4, <4>1 DEF DescendsTo
      <4>. QED BY <4>2
    <3>. HIDE DEF g
    <3>8. ASSUME NEW n \in 0 .. k + 1  PROVE Descent(g, n, last, down, start, step)
      <4>1. CASE n = k + 1
        <5>1. k + 1 \notin last => g[down[k + 1]] = f[down[k + 1]]
          BY <3>3, <3>5
        <5>. QED BY <3>6, <4>1, <5>1 DEF Descent
      <4>2. CASE n # k + 1
        <5>1. n \in 0 .. k
          BY <3>2, <4>2
        <5>2. n \notin last => down[n] \in 0 .. k
          BY <3>2, <5>1
        <5>. QED BY <3>1, <3>5, <5>1, <5>2 DEF Descent, DescendsTo
      <4>. QED BY <4>1, <4>2
    <3>9. A(k + 1, g)
      BY <3>7, <3>8 DEF DescendsTo
    <3>. HIDE DEF A
    <3>. QED BY <3>2, <3>9
  <2>. HIDE DEF T
  <2>3. m \in T
    <3>1. 0 .. m \subseteq T
      BY <2>1, <2>2, CountsTo
    <3>. QED BY <3>1
  <2>. QED BY <2>3 DEF T
<1>3. ASSUME NEW m \in Nat, NEW f, A(m, f), NEW k \in Nat, NEW g, A(k, g),
             NEW n \in 0 .. m, n \in 0 .. k
      PROVE  f[n] = g[n]
  <2>. DEFINE Bad == {i \in 0 .. m : i \in 0 .. k /\ f[i] # g[i]}
  <2>1. SUFFICES ASSUME Bad # {}  PROVE FALSE
    BY <1>3
  <2>2. PICK i \in Bad : \A j \in Bad : i <= j
    <3>1. Bad \subseteq Nat
      OBVIOUS
    <3>. HIDE DEF Bad
    <3>. QED BY <2>1, <3>1, LeastNumber
  <2>3. i \in 0 .. m /\ i \in 0 .. k /\ f[i] # g[i]
    BY <2>2
  <2>4. Descent(f, i, last, down, start, step) /\ Descent(g, i, last, down, start, step)
    BY <1>3, <2>3 DEF DescendsTo
  <2>5. i \notin last
    BY <2>3, <2>4 DEF Descent
  <2>6. down[i] \in 0 .. m /\ down[i] \in 0 .. k /\ down[i] < i
    BY <2>3, <2>5
  <2>7. f[down[i]] = g[down[i]]
    <3>1. down[i] \notin Bad
      <4>. HIDE DEF Bad
      <4>. QED BY <2>2, <2>3, <2>6
    <3>. QED BY <2>6, <3>1
  <2>. QED BY <2>3, <2>4, <2>5, <2>7 DEF Descent
<1>. DEFINE approx(m) == CHOOSE f : A(m, f)
            F == [n \in Nat |-> approx(n)[n]]
<1>4. ASSUME NEW m \in Nat  PROVE A(m, approx(m))
  <2>. HIDE DEF A
  <2>. QED BY <1>2
<1>. HIDE DEF approx
<1>5. ASSUME NEW n \in Nat  PROVE F[n] = approx(n)[n] /\ n \in 0 .. n /\ F[n] \in D
  <2>1. approx(n) \in [0 .. n -> D] /\ n \in 0 .. n
    BY <1>4 DEF DescendsTo
  <2>. QED BY <2>1
<1>6. F \in [Nat -> D]
  BY <1>5
<1>7. ASSUME NEW n \in Nat  PROVE Descent(F, n, last, down, start, step)
  <2>1. Descent(approx(n), n, last, down, start, step)
    BY <1>4, <1>5 DEF DescendsTo
  <2>2. ASSUME n \notin last  PROVE F[down[n]] = approx(n)[down[n]]
    <3>1. down[n] \in Nat /\ down[n] \in 0 .. n /\ down[n] \in 0 .. down[n]
      BY <2>2
    <3>2. A(n, approx(n)) /\ A(down[n], approx(down[n]))
      BY <1>4, <3>1
    <3>. HIDE DEF A, F
    <3>3. approx(down[n])[down[n]] = approx(n)[down[n]]
      BY <1>3, <3>1, <3>2
    <3>. QED BY <1>5, <3>1, <3>3
  <2>3. F[n] = approx(n)[n]
    BY <1>5
  <2>. HIDE DEF F
  <2>. QED BY <2>1, <2>2, <2>3 DEF Descent
<1>. HIDE DEF F
<1>8. IsDescent(F, D, last, down, start, step)
  BY <1>6, <1>7 DEF IsDescent
<1>. QED BY <1>8

(* Recursion along ranks: what is computed for i depends on what is computed  *)
(* for elements of lower ranks only. There is such a function.               *)
LooksDown(I, D, R, rank, body) ==
  /\ R \in Nat /\ rank \in [I -> 0 .. R] /\ body \in [[I -> D] -> [I -> D]]
  /\ \A f, g \in [I -> D] : \A i \in I :
       (\A j \in I : rank[j] < rank[i] => f[j] = g[j]) => body[f][i] = body[g][i]

LEMMA RankedRuns ==
  ASSUME NEW I, NEW D, NEW d \in D, NEW R, NEW rank, NEW body, LooksDown(I, D, R, rank, body)
  PROVE  \E f \in [I -> D] : f = body[f]
<1>0. /\ R \in Nat /\ rank \in [I -> 0 .. R] /\ body \in [[I -> D] -> [I -> D]]
      /\ \A f, g \in [I -> D] : \A i \in I :
           (\A j \in I : rank[j] < rank[i] => f[j] = g[j]) => body[f][i] = body[g][i]
  BY DEF LooksDown
<1>. USE <1>0
<1>. DEFINE A(m, f) == f \in [I -> D] /\ \A i \in I : rank[i] <= m => f[i] = body[f][i]
            T == {m \in 0 .. R : \E f : A(m, f)}
<1>1. 0 \in T
  <2>. DEFINE f == [i \in I |-> d]
  <2>1. f \in [I -> D] /\ body[f] \in [I -> D]
    OBVIOUS
  <2>. HIDE DEF f
  <2>2. ASSUME NEW i \in I, rank[i] <= 0  PROVE body[f][i] = body[body[f]][i]
    <3>1. \A j \in I : ~(rank[j] < rank[i])
      BY <2>2
    <3>. QED BY <2>1, <3>1
  <2>3. A(0, body[f])
    BY <2>1, <2>2
  <2>. HIDE DEF A
  <2>. QED BY <2>3
<1>2. ASSUME NEW m \in 0 .. R - 1, m \in T  PROVE m + 1 \in T
  <2>1. PICK f : A(m, f)
    BY <1>2
  <2>2. f \in [I -> D] /\ body[f] \in [I -> D] /\ m + 1 \in 0 .. R
    BY <2>1
  <2>3. ASSUME NEW i \in I, rank[i] <= m + 1  PROVE body[f][i] = body[body[f]][i]
    <3>1. \A j \in I : rank[j] < rank[i] => rank[j] <= m
      BY <2>3
    <3>2. \A j \in I : rank[j] < rank[i] => f[j] = body[f][j]
      BY <2>1, <3>1
    <3>. QED BY <2>2, <3>2
  <2>4. A(m + 1, body[f])
    BY <2>2, <2>3
  <2>. HIDE DEF A
  <2>. QED BY <2>2, <2>4
<1>3. R \in T
  <2>. HIDE DEF T
  <2>1. 0 .. R \subseteq T
    BY <1>1, <1>2, CountsTo
  <2>. QED BY <2>1
<1>4. PICK f : A(R, f)
  BY <1>3
<1>5. f \in [I -> D] /\ body[f] \in [I -> D] /\ \A i \in I : f[i] = body[f][i]
  BY <1>4
<1>. QED BY <1>5

LEMMA ConsIs ==
  ASSUME NEW S, NEW x \in S, NEW b \in Seq(S), NEW m \in Nat, Len(b) = m
  PROVE  <<x>> \o b = [k \in 1 .. m + 1 |-> IF k = 1 THEN x ELSE b[k - 1]]
OBVIOUS

(* A function that goes along a chain and collects has the elements of it.   *)
Collects(F, q, s) ==
  F[q[Len(s) + 1]] = <<>> /\ \A k \in 1 .. Len(s) : F[q[k]] = <<s[k]>> \o F[q[k + 1]]

LEMMA ChainCollects ==
  ASSUME NEW S, NEW s \in Seq(S), NEW q, NEW F, Collects(F, q, s)
  PROVE  F[q[1]] = s
<1>a. PICK n : n \in Nat /\ n = Len(s)
  OBVIOUS
<1>0. F[q[n + 1]] = <<>> /\ \A k \in 1 .. n : F[q[k]] = <<s[k]>> \o F[q[k + 1]]
  BY <1>a DEF Collects
<1>. USE <1>a, <1>0
<1>. DEFINE Rest(m) == [k \in 1 .. m |-> s[n - m + k]]
            T == {m \in 0 .. n : F[q[n + 1 - m]] = Rest(m)}
<1>1. n \in Nat /\ s \in [1 .. n -> S]
  OBVIOUS
<1>2. 0 \in T
  BY <1>1
<1>3. ASSUME NEW m \in 0 .. n - 1, m \in T  PROVE m + 1 \in T
  <2>. DEFINE j == n - m
  <2>1. j \in 1 .. n /\ j + 1 = n + 1 - m /\ j = n + 1 - (m + 1) /\ m + 1 \in 0 .. n /\ m \in Nat
    BY <1>1
  <2>2. F[q[j]] = <<s[j]>> \o Rest(m)
    BY <1>3, <2>1, ZenonT(30)
  <2>3. Rest(m) \in Seq(S)
    <3>1. \A k \in 1 .. m : n - m + k \in 1 .. n
      BY <1>1, <2>1
    <3>2. Rest(m) \in [1 .. m -> S]
      BY <1>1, <3>1
    <3>. HIDE DEF Rest
    <3>. QED BY <2>1, <3>2
  <2>4. <<s[j]>> \o Rest(m) = Rest(m + 1)
    <3>. DEFINE b == Rest(m)
                c == [k \in 1 .. m + 1 |-> IF k = 1 THEN s[j] ELSE b[k - 1]]
    <3>1. s[j] \in S /\ b \in Seq(S) /\ Len(b) = m
      BY <1>1, <2>1, <2>3
    <3>2. \A k \in 1 .. m + 1 : k # 1 => b[k - 1] = s[n - (m + 1) + k]
      <4>1. ASSUME NEW k \in 1 .. m + 1, k # 1
            PROVE  k - 1 \in 1 .. m /\ n - m + (k - 1) = n - (m + 1) + k
        BY <4>1, <2>1, <1>1
      <4>. QED BY <4>1
    <3>3. \A k \in 1 .. m + 1 : k = 1 => n - (m + 1) + k = j
      BY <2>1, <1>1
    <3>4. \A k \in 1 .. m + 1 : c[k] = s[n - (m + 1) + k]
      <4>. HIDE DEF b, j
      <4>. QED BY <3>2, <3>3
    <3>5. c = Rest(m + 1)
      <4>. HIDE DEF b, j
      <4>. QED BY <3>4
    <3>6. <<s[j]>> \o b = c
      <4>. HIDE DEF b, j
      <4>. QED BY <3>1, <2>1, ConsIs
    <3>. QED BY <3>5, <3>6
  <2>. QED BY <2>1, <2>2, <2>4
<1>4. n \in T
  <2>. HIDE DEF T
  <2>1. 0 .. n \subseteq T
    BY <1>1, <1>2, <1>3, CountsTo
  <2>. QED BY <1>1, <2>1
<1>5. F[q[n + 1 - n]] = Rest(n) /\ n + 1 - n = 1
  BY <1>1, <1>4
<1>6. Rest(n) = s
  BY <1>1
<1>. QED BY <1>5, <1>6

-----------------------------------------------------------------------------
(* Quotients and remainders.                                               *)
LEMMA QuotientAndRest ==
  ASSUME NEW W \in Nat \ {0}, NEW x \in Int
  PROVE  /\ x = W * (x \div W) + (x % W)
         /\ x % W \in 0 .. W - 1 /\ x \div W \in Int
OBVIOUS

LEMMA OnlyRest ==
  ASSUME NEW W \in Nat \ {0}, NEW q \in Int, NEW r \in 0 .. W - 1
  PROVE  (W * q + r) % W = r /\ (W * q + r) \div W = q
OBVIOUS

LEMMA SameRest ==
  ASSUME NEW W \in Nat \ {0}, NEW x \in Int, NEW y \in Int
  PROVE  x % W = y % W <=> \E k \in Int : x = y + W * k
<1>. DEFINE p == x \div W
            q == y \div W
            r == x % W
            s == y % W
<1>1. x = W * p + r /\ y = W * q + s /\ r \in 0 .. W - 1 /\ s \in 0 .. W - 1
      /\ p \in Int /\ q \in Int
  BY QuotientAndRest
<1>. HIDE DEF p, q
<1>2. ASSUME r = s  PROVE \E k \in Int : x = y + W * k
  <2>1. x = y + W * (p - q)
    BY <1>1, <1>2
  <2>2. p - q \in Int
    BY <1>1
  <2>. QED BY <2>1, <2>2
<1>3. ASSUME NEW k \in Int, x = y + W * k  PROVE r = s
  <2>1. x = W * (q + k) + s
    BY <1>1, <1>3
  <2>2. q + k \in Int
    BY <1>1
  <2>. QED BY <1>1, <2>1, <2>2, OnlyRest
<1>. QED BY <1>2, <1>3
=============================================================================
