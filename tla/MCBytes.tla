------------------------------ MODULE MCBytes -------------------------------
EXTENDS Bytes

CONSTANT Depth  \* the smallest float is 2^-Depth

Coded(k, values) == {[kind |-> k, value |-> v] : v \in values}

(* Around the limits of one, two and three bytes, of a tag, of the numbers     *)
(* that a float has, of 63 bits, of an i64, an index and a u128.              *)
Near(n) == n - 2 .. n + 2
Sizes ==
  0 .. 70 \cup UNION {Near(n) : n \in {496, 1024, 2048, 3968, TagSpan, 131072, 507904, 4194304}}
Positives == Sizes \cup UNION {Near(n) : n \in {2^Precision, WordSpan \div 4, WordSpan \div 2,
                                               WordSpan, SumSpan \div 2}}
Negatives == {0 - n : n \in Sizes \cup UNION {Near(n) : n \in {2^Precision, WordSpan \div 4, WordSpan \div 2,
                                                            WordSpan, SumSpan \div 4}}}
Indices == Sizes \cup UNION {Near(n) : n \in {2 * WordSpan, 4 * WordSpan, SumSpan}}

Floats ==
  {[kind |-> "float", negative |-> n, mantissa |-> 2 * m + 1, exponent |-> e] :
     n \in BOOLEAN, m \in 0 .. 255, e \in {0 - Depth, -62, -33, -9, -2, -1}}

AllCodes ==
  Coded("small", 0 .. 127) \cup Coded("share", {0}) \cup Coded("reuse", Indices)
  \cup Coded("shape", Sizes \cup Near(SumSpan))
  \cup Coded("number", Positives \cup Negatives) \cup Floats

AllBuilds == [checked : BOOLEAN, float : BOOLEAN]
ReleaseBuild == {[checked |-> FALSE, float |-> TRUE]}

Afterwards == {<<>>, <<1>>, <<255>>}
=============================================================================
