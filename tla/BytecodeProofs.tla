---------------------------- MODULE BytecodeProofs ----------------------------
(*****************************************************************************)
(* Whatever the source, the two ends of Bytecode keep their dictionaries in  *)
(* step, and what the decoder returns unfolds to what the source unfolds to. *)
(* And the bytes of Bytes: what is read of those of a code is that code.     *)
(*****************************************************************************)
EXTENDS Bytecode, Bytes, LoopTheorems, SequenceTheorems, TLAPS

SourceCells == DOMAIN source.heap

Fields ==
  {Reference(c) : c \in SourceCells}
  \cup {Rib(c).car : c \in SourceCells} \cup {Rib(c).cdr : c \in SourceCells}

Given == source \in Sources /\ leftover \in Leftovers

(* A value in the heap is a number or refers to a cell.                    *)
LEMMA FieldsTell ==
  ASSUME Given, NEW v \in Fields
  PROVE  IF IsCons(v) THEN v = Reference(v.value) /\ v.value \in SourceCells
         ELSE v = Number(v.value)
<1>1. CASE \E c \in SourceCells : v = Reference(c)
  BY <1>1 DEF Reference, IsCons
<1>2. CASE \E c \in SourceCells : v \in {Rib(c).car, Rib(c).cdr}
  BY <1>2, SourcesAssumption DEF Given, Rib, SourceCells
<1>. QED BY <1>1, <1>2 DEF Fields

-----------------------------------------------------------------------------
(* Cells that are on no cycle: those in every set that a cell belongs to as  *)
(* soon as the cells of its fields do. And what is below a cell.            *)
Children(c) == {v.value : v \in {w \in {Rib(c).car, Rib(c).cdr} : IsCons(w)}}

Hereditary(S) == \A c \in SourceCells : Children(c) \subseteq S => c \in S
Grounded == {c \in SourceCells : \A S \in SUBSET SourceCells : Hereditary(S) => c \in S}

Closed(S) == \A c \in S : Children(c) \subseteq S
Under(c) ==
  {d \in SourceCells :
     \A S \in SUBSET SourceCells : Children(c) \subseteq S /\ Closed(S) => d \in S}

(* The sources are closed: fields lead to cells.                           *)
LEMMA ChildrenAreCells ==
  ASSUME Given, NEW c \in SourceCells
  PROVE  Children(c) \subseteq SourceCells
<1>1. Rib(c).car \in Fields /\ Rib(c).cdr \in Fields
  BY DEF Fields
<1>. QED BY <1>1, FieldsTell DEF Children

(* Grounded is such a set itself,                                          *)
LEMMA GroundedGrows ==
  ASSUME NEW c \in SourceCells, Children(c) \subseteq Grounded
  PROVE  c \in Grounded
BY DEF Grounded, Hereditary

(* and Under(c) has the cells of c's fields and theirs.                    *)
LEMMA UnderHasChildren ==
  ASSUME Given, NEW c \in SourceCells
  PROVE  Children(c) \subseteq Under(c) /\ Closed(Under(c))
<1>1. Children(c) \subseteq Under(c)
  BY ChildrenAreCells DEF Under
<1>2. ASSUME NEW d \in Under(c), NEW e \in Children(d)
      PROVE  e \in Under(c)
  <2>1. d \in SourceCells /\ e \in SourceCells
    BY <1>2, ChildrenAreCells DEF Under
  <2>2. ASSUME NEW S \in SUBSET SourceCells, Children(c) \subseteq S, Closed(S)
        PROVE  e \in S
    <3>1. d \in S
      BY <2>2 DEF Under
    <3>. QED BY <2>2, <3>1 DEF Closed
  <2>. QED BY <2>1, <2>2 DEF Under
<1>. QED BY <1>1, <1>2 DEF Closed

(* The least set of its kind, and it shrinks on the way down.              *)
LEMMA UnderIsLeast ==
  ASSUME Given, NEW c \in SourceCells, NEW S \in SUBSET SourceCells,
         Children(c) \subseteq S, Closed(S)
  PROVE  Under(c) \subseteq S
BY DEF Under

LEMMA UnderDescends ==
  ASSUME Given, NEW c \in SourceCells, NEW d \in Under(c)
  PROVE  Under(d) \subseteq Under(c)
<1>1. d \in SourceCells /\ Under(c) \in SUBSET SourceCells
  BY DEF Under
<1>2. Children(d) \subseteq Under(c) /\ Closed(Under(c))
  BY UnderHasChildren DEF Closed
<1>. QED BY <1>1, <1>2, UnderIsLeast

(* A cell is below itself only through a child that is below itself, so none *)
(* that is grounded is.                                                    *)
LEMMA GroundedIsAcyclic ==
  ASSUME Given, NEW c \in Grounded
  PROVE  c \notin Under(c)
<1>. DEFINE Acyclic == {d \in SourceCells : d \notin Under(d)}
<1>1. ASSUME NEW d \in SourceCells, Children(d) \subseteq Acyclic, d \in Under(d)
      PROVE  FALSE
  <2>. DEFINE S == UNION {{e} \cup Under(e) : e \in Children(d)}
  <2>1. Children(d) \subseteq SourceCells
    BY ChildrenAreCells
  <2>2. S \in SUBSET SourceCells /\ Children(d) \subseteq S
    BY <2>1 DEF Under
  <2>3. Closed(S)
    <3>1. ASSUME NEW x \in S
          PROVE  Children(x) \subseteq S
      <4>1. PICK e \in Children(d) : x = e \/ x \in Under(e)
        OBVIOUS
      <4>2. Children(e) \subseteq Under(e) /\ Closed(Under(e))
        BY <2>1, UnderHasChildren
      <4>3. Children(x) \subseteq Under(e)
        BY <4>1, <4>2 DEF Closed
      <4>. QED BY <4>3
    <3>. HIDE DEF S
    <3>. QED BY <3>1 DEF Closed
  <2>4. Under(d) \subseteq S
    <3>. HIDE DEF S
    <3>. QED BY <2>2, <2>3, UnderIsLeast
  <2>5. PICK e \in Children(d) : d = e \/ d \in Under(e)
    BY <1>1, <2>4
  <2>6. e \in Under(d) /\ e \in SourceCells /\ e \notin Under(e)
    BY <1>1, <2>1, UnderHasChildren
  <2>7. d \in Under(e)
    BY <1>1, <2>5, <2>6
  <2>8. Under(d) \subseteq Under(e)
    BY <2>6, <2>7, UnderDescends
  <2>. QED BY <2>6, <2>8
<1>2. Hereditary(Acyclic)
  BY <1>1 DEF Hereditary
<1>3. Acyclic \in SUBSET SourceCells
  OBVIOUS
<1>. HIDE DEF Acyclic
<1>4. c \in Acyclic
  BY <1>2, <1>3 DEF Grounded
<1>. QED BY <1>4 DEF Acyclic

-----------------------------------------------------------------------------
(* What a value stands for: a nop stands for the code after it, as encode-rib *)
(* strips it. Leads(v, w): w is on the way from v through nops.              *)
Stripping(S) ==
  \A v \in S : IsCons(v) /\ NopCode(v.value) => Rib(v.value).cdr \in S
Leads(v, w) == \A S \in SUBSET Fields : v \in S /\ Stripping(S) => w \in S

(* The way starts at the value and goes on at each nop.                    *)
LEMMA LeadsToItself == \A v \in Fields : Leads(v, v)
BY DEF Leads

LEMMA LeadsOn ==
  ASSUME NEW v \in Fields, NEW w \in Fields, Leads(v, w), IsCons(w), NopCode(w.value)
  PROVE  Leads(v, Rib(w.value).cdr)
BY DEF Leads, Stripping

(* An unfolding relates cells of the decoder to cells of the source that     *)
(* have the same tag and the same fields, up to the unfolding. Related is    *)
(* the greatest one: two cells are related when no walk along their fields   *)
(* can tell them apart, whatever is shared in either heap.                  *)
MeansIn(R, x, v) ==
  \E w \in Fields :
    /\ Leads(v, w)
    /\ IF IsCons(w) THEN \E m \in DOMAIN memory : x = Reference(m) /\ <<m, w.value>> \in R
       ELSE x = w

MatchesIn(R, m, c) ==
  /\ ~NopCode(c)
  /\ memory[m] = Cell(memory[m].car, memory[m].cdr, Rib(c).tag)
  /\ MeansIn(R, memory[m].car, Rib(c).car) /\ MeansIn(R, memory[m].cdr, Rib(c).cdr)

IsUnfolding(R) == \A r \in R : MatchesIn(R, r[1], r[2])
Pairs == (DOMAIN memory) \X SourceCells
Related == UNION {R \in SUBSET Pairs : IsUnfolding(R)}
Means(x, v) == MeansIn(Related, x, v)

(* A larger relation relates more: the union of unfoldings unfolds.        *)
LEMMA MeansGrows ==
  ASSUME NEW R, NEW S, R \subseteq S, NEW x, NEW v, MeansIn(R, x, v)
  PROVE  MeansIn(S, x, v)
BY DEF MeansIn

LEMMA RelatedUnfolds ==
  /\ Related \in SUBSET Pairs
  /\ IsUnfolding(Related)
<1>1. Related \in SUBSET Pairs
  BY DEF Related
<1>2. ASSUME NEW r \in Related
      PROVE  MatchesIn(Related, r[1], r[2])
  <2>1. PICK R \in SUBSET Pairs : IsUnfolding(R) /\ r \in R
    BY DEF Related
  <2>2. R \subseteq Related
    BY <2>1 DEF Related
  <2>3. MatchesIn(R, r[1], r[2])
    BY <2>1 DEF IsUnfolding
  <2>. QED BY <2>2, <2>3, MeansGrows DEF MatchesIn
<1>. QED BY <1>1, <1>2 DEF IsUnfolding

LEMMA UnfoldingIsRelated ==
  ASSUME NEW R \in SUBSET Pairs, IsUnfolding(R)
  PROVE  R \subseteq Related
BY DEF Related

(* What the decoder has built keeps its meaning when a cell is added.        *)
Decoded == Range(leftover) \cup Fields \cup {Reference(i) : i \in Nat}
Tags == {0} \cup {Rib(c).tag : c \in SourceCells}
Built == [car : Decoded, cdr : Decoded, tag : Tags]

(* What is made of the source and the leftover alone never changes.        *)
LEMMA SourceStays ==
  ASSUME UNCHANGED <<source, leftover>>
  PROVE  /\ SourceCells' = SourceCells /\ Fields' = Fields /\ Decoded' = Decoded
         /\ Tags' = Tags /\ Built' = Built /\ Grounded' = Grounded
         /\ \A c : Rib(c)' = Rib(c) /\ (NopCode(c)' <=> NopCode(c)) /\ Under(c)' = Under(c)
         /\ \A v, w : Leads(v, w)' <=> Leads(v, w)
<1>1. SourceCells' = SourceCells
  BY DEF SourceCells
<1>2. \A c : Rib(c)' = Rib(c)
  BY DEF Rib
<1>3. \A c : NopCode(c)' <=> NopCode(c)
  BY <1>2 DEF NopCode
<1>4. Fields' = Fields
  BY <1>1, <1>2 DEF Fields
<1>5. Decoded' = Decoded /\ Tags' = Tags
  BY <1>1, <1>2, <1>4 DEF Decoded, Tags
<1>6. Built' = Built
  BY <1>5 DEF Built
<1>7. \A c : Children(c)' = Children(c)
  BY <1>2 DEF Children
<1>8. Grounded' = Grounded
  BY <1>1, <1>7 DEF Grounded, Hereditary
<1>9. \A c : Under(c)' = Under(c)
  BY <1>1, <1>7 DEF Under, Closed
<1>10. \A v, w : Leads(v, w)' <=> Leads(v, w)
  BY <1>2, <1>3, <1>4 DEF Leads, Stripping
<1>. QED BY <1>1, <1>2, <1>3, <1>4, <1>5, <1>6, <1>8, <1>9, <1>10

(* The meaning of a value changes with the memory only,                    *)
LEMMA MeaningStays ==
  ASSUME UNCHANGED <<source, leftover, memory>>
  PROVE  /\ Related' = Related
         /\ \A x, v : Means(x, v) => Means(x, v)'
<1>1. /\ SourceCells' = SourceCells /\ Fields' = Fields
      /\ \A c : Rib(c)' = Rib(c) /\ (NopCode(c)' <=> NopCode(c))
      /\ \A v, w : Leads(v, w)' <=> Leads(v, w)
  BY SourceStays
<1>2. \A R, x, v : MeansIn(R, x, v)' <=> MeansIn(R, x, v)
  BY <1>1 DEF MeansIn
<1>3. \A R, m, c : MatchesIn(R, m, c)' <=> MatchesIn(R, m, c)
  BY <1>1, <1>2 DEF MatchesIn
<1>4. Related' = Related
  BY <1>1, <1>3 DEF Related, Pairs, IsUnfolding
<1>. QED BY <1>2, <1>4 DEF Means

(* and a cell added for a source cell means what its fields mean.          *)
LEMMA MeaningGrows ==
  ASSUME UNCHANGED <<source, leftover>>, memory \in Seq(Built), NEW cell \in Built,
         memory' = Append(memory, cell)
  PROVE  /\ memory' \in Seq(Built)
         /\ Related \subseteq Related'
         /\ \A x, v : Means(x, v) => Means(x, v)'
         /\ \A c \in SourceCells :
              /\ ~NopCode(c) /\ cell = Cell(cell.car, cell.cdr, Rib(c).tag)
              /\ Means(cell.car, Rib(c).car) /\ Means(cell.cdr, Rib(c).cdr)
              => <<Len(memory) + 1, c>> \in Related'
<1>1. /\ SourceCells' = SourceCells /\ Fields' = Fields
      /\ \A c : Rib(c)' = Rib(c) /\ (NopCode(c)' <=> NopCode(c))
      /\ \A v, w : Leads(v, w)' <=> Leads(v, w)
  BY SourceStays
<1>2. /\ memory' \in Seq(Built) /\ Len(memory) \in Nat /\ DOMAIN memory = 1 .. Len(memory)
      /\ DOMAIN memory' = 1 .. Len(memory) + 1 /\ memory'[Len(memory) + 1] = cell
      /\ \A m \in DOMAIN memory : memory'[m] = memory[m] /\ m \in DOMAIN memory'
  OBVIOUS
<1>3. \A R, x, v : MeansIn(R, x, v) => MeansIn(R, x, v)'
  BY <1>1, <1>2 DEF MeansIn
<1>4. \A R, c : \A m \in DOMAIN memory : MatchesIn(R, m, c) => MatchesIn(R, m, c)'
  BY <1>1, <1>2, <1>3 DEF MatchesIn
<1>5. Pairs \subseteq Pairs'
  BY <1>1, <1>2 DEF Pairs
<1>6. PICK K : K = Related
  OBVIOUS
<1>7. K \in SUBSET Pairs /\ IsUnfolding(K)
  BY <1>6, RelatedUnfolds
<1>8. \A r \in K : MatchesIn(K, r[1], r[2])'
  BY <1>4, <1>7 DEF IsUnfolding, Pairs
<1>9. \A R : (\A r \in R : MatchesIn(R, r[1], r[2])') <=> IsUnfolding(R)'
  BY DEF IsUnfolding
<1>10. ASSUME NEW R \in SUBSET Pairs', IsUnfolding(R)'
      PROVE  R \subseteq Related'
  BY <1>10 DEF Related
<1>11. K \in SUBSET Pairs' /\ IsUnfolding(K)'
  BY <1>5, <1>7, <1>8, <1>9
<1>12. Related \subseteq Related'
  BY <1>10, <1>6, <1>11
<1>13. \A R, S, x, v : R \subseteq S /\ MeansIn(R, x, v)' => MeansIn(S, x, v)'
  BY DEF MeansIn
<1>14. ASSUME NEW x, NEW v, Means(x, v)
       PROVE  Means(x, v)'
  BY <1>3, <1>12, <1>13, <1>14 DEF Means
<1>15. ASSUME NEW c \in SourceCells, ~NopCode(c),
              cell = Cell(cell.car, cell.cdr, Rib(c).tag),
              Means(cell.car, Rib(c).car), Means(cell.cdr, Rib(c).cdr)
       PROVE  <<Len(memory) + 1, c>> \in Related'
  <2>1. PICK n : n = Len(memory) + 1
    OBVIOUS
  <2>. DEFINE T == K \cup {<<n, c>>}
  <2>2. T \in SUBSET Pairs'
    BY <1>1, <1>2, <1>11, <2>1 DEF Pairs
  <2>3. /\ MeansIn(T, cell.car, Rib(c).car)' /\ MeansIn(T, cell.cdr, Rib(c).cdr)'
    BY <1>1, <1>3, <1>6, <1>13, <1>15 DEF Means
  <2>4. MatchesIn(T, n, c)'
    BY <1>1, <1>2, <1>15, <2>1, <2>3 DEF MatchesIn
  <2>5. ASSUME NEW r \in T
        PROVE  MatchesIn(T, r[1], r[2])'
    <3>1. CASE r \in K
      <4>1. MatchesIn(K, r[1], r[2])'
        BY <1>8, <3>1
      <4>2. K \subseteq T
        OBVIOUS
      <4>. HIDE DEF T
      <4>. QED BY <1>13, <4>1, <4>2 DEF MatchesIn
    <3>2. CASE r = <<n, c>>
      BY <2>4, <3>2
    <3>. QED BY <3>1, <3>2
  <2>6. IsUnfolding(T)'
    <3>. HIDE DEF T
    <3>. QED BY <1>9, <2>5
  <2>7. T \subseteq Related'
    <3>. HIDE DEF T
    <3>. QED BY <1>10, <2>2, <2>6
  <2>. QED BY <2>1, <2>7
<1>. QED BY <1>2, <1>12, <1>14, <1>15

-----------------------------------------------------------------------------
(* The work of the encoder. All that is before the task of a cell is below   *)
(* it, and when that is grounded, so is the cell.                           *)
Kinds == {"rib", "small", "shape"}
Tasks == [kind : Kinds, value : Fields]

GroundedTask(t) == IsCons(t.value) => t.value.value \in Grounded

Descends(T) ==
  \A j \in DOMAIN T : T[j].kind # "rib" =>
    /\ IsCons(T[j].value)
    /\ (\A i \in 1 .. j - 1 : GroundedTask(T[i])) => GroundedTask(T[j])
    /\ \A i \in 1 .. j - 1 : IsCons(T[i].value) => T[i].value.value \in Under(T[j].value.value)

(* A task replaced by new ones: where each entry comes from.               *)
LEMMA Replaced ==
  ASSUME NEW S, NEW s \in Seq(S), s # <<>>, NEW new \in Seq(S)
  PROVE  LET r == new \o Tail(s) IN
         /\ r \in Seq(S) /\ Len(r) = Len(new) + Len(s) - 1
         /\ \A i \in 1 .. Len(new) : r[i] = new[i]
         /\ \A i \in 2 .. Len(s) : r[Len(new) + i - 1] = s[i]
         /\ \A i \in 1 .. Len(r) :
              \/ i \in 1 .. Len(new) /\ r[i] = new[i]
              \/ i - Len(new) + 1 \in 2 .. Len(s) /\ r[i] = s[i - Len(new) + 1]
<1>. DEFINE t == Tail(s)
<1>1. t \in Seq(S) /\ Len(t) = Len(s) - 1 /\ \A i \in 1 .. Len(s) - 1 : t[i] = s[i + 1]
  OBVIOUS
<1>2. Len(s) \in Nat /\ Len(new) \in Nat
  OBVIOUS
<1>. HIDE DEF t
<1>0. PICK r : r = new \o t
  OBVIOUS
<1>3. /\ r \in Seq(S) /\ Len(r) = Len(new) + Len(t)
      /\ \A i \in 1 .. Len(new) : r[i] = new[i]
      /\ \A i \in 1 .. Len(t) : r[Len(new) + i] = t[i]
  <2>1. r \in Seq(S)
    BY <1>0, <1>1
  <2>2. t \in Seq(S)
    BY <1>1
  <2>3. /\ Len(r) = Len(new) + Len(t)
        /\ \A i \in 1 .. Len(new) : r[i] = new[i]
        /\ \A i \in 1 .. Len(t) : Len(new) + i \in 1 .. Len(r) /\ r[Len(new) + i] = t[i]
    BY <1>0, <2>2, ConcatIs
  <2>. QED BY <2>1, <2>3
<1>4. ASSUME NEW i \in 2 .. Len(s)  PROVE r[Len(new) + i - 1] = s[i]
  <2>1. i - 1 \in 1 .. Len(s) - 1 /\ (i - 1) + 1 = i
    BY <1>2
  <2>2. Len(new) + i - 1 = Len(new) + (i - 1)
    BY <1>2
  <2>. QED BY <1>1, <1>3, <2>1, <2>2
<1>5. ASSUME NEW i \in 1 .. Len(r)
      PROVE  \/ i \in 1 .. Len(new) /\ r[i] = new[i]
             \/ i - Len(new) + 1 \in 2 .. Len(s) /\ r[i] = s[i - Len(new) + 1]
  <2>1. CASE i <= Len(new)
    BY <1>2, <1>3, <2>1
  <2>2. CASE i > Len(new)
    <3>1. i - Len(new) \in 1 .. Len(s) - 1 /\ Len(new) + (i - Len(new)) = i
      BY <1>1, <1>2, <1>3, <2>2
    <3>2. r[i] = s[i - Len(new) + 1]
      BY <1>1, <1>3, <3>1
    <3>. QED BY <1>2, <3>1, <3>2
  <2>. QED BY <1>2, <2>1, <2>2
<1>6. Len(r) = Len(new) + Len(s) - 1
  BY <1>1, <1>2, <1>3
<1>. QED BY <1>0, <1>3, <1>4, <1>5, <1>6 DEF t

(* It is in order still when the new tasks are below the old one.          *)
LEMMA StillDescends ==
  ASSUME Given, todo \in Seq(Tasks), todo # <<>>, Descends(todo),
         NEW tasks \in Seq(Tasks), Descends(tasks),
         (\A i \in DOMAIN tasks : GroundedTask(tasks[i])) => GroundedTask(Head(todo)),
         \A i \in DOMAIN tasks : IsCons(tasks[i].value) =>
           /\ IsCons(Current)
           /\ tasks[i].value.value \in {Cel} \cup Under(Cel)
  PROVE  /\ tasks \o Tail(todo) \in Seq(Tasks)
         /\ Descends(tasks \o Tail(todo))
<1>. DEFINE T == tasks \o Tail(todo)
            n == Len(tasks)
<1>1. /\ T \in Seq(Tasks) /\ Len(T) = n + Len(todo) - 1 /\ n \in Nat /\ Len(todo) \in Nat
      /\ DOMAIN T = 1 .. Len(T) /\ DOMAIN tasks = 1 .. n /\ DOMAIN todo = 1 .. Len(todo)
      /\ Head(todo) = todo[1] /\ Len(todo) >= 1
      /\ Head(todo) \in Tasks
  BY Replaced
<1>2. /\ \A i \in 1 .. n : T[i] = tasks[i]
      /\ \A i \in 2 .. Len(todo) : T[n + i - 1] = todo[i]
      /\ \A i \in 1 .. Len(T) : \/ i \in 1 .. n /\ T[i] = tasks[i]
                                \/ i - n + 1 \in 2 .. Len(todo) /\ T[i] = todo[i - n + 1]
  BY Replaced
<1>. HIDE DEF T, n
<1>3. ASSUME NEW j \in DOMAIN T, T[j].kind # "rib", j \in 1 .. n
      PROVE  /\ IsCons(T[j].value)
             /\ (\A i \in 1 .. j - 1 : GroundedTask(T[i])) => GroundedTask(T[j])
             /\ \A i \in 1 .. j - 1 : IsCons(T[i].value) =>
                  T[i].value.value \in Under(T[j].value.value)
  <2>1. T[j] = tasks[j] /\ \A i \in 1 .. j - 1 : T[i] = tasks[i]
    BY <1>1, <1>2, <1>3
  <2>. QED BY <1>1, <1>3, <2>1 DEF Descends
<1>4. ASSUME NEW j \in DOMAIN T, T[j].kind # "rib", j \notin 1 .. n
      PROVE  /\ IsCons(T[j].value)
             /\ (\A i \in 1 .. j - 1 : GroundedTask(T[i])) => GroundedTask(T[j])
             /\ \A i \in 1 .. j - 1 : IsCons(T[i].value) =>
                  T[i].value.value \in Under(T[j].value.value)
  <2>1. PICK k : k = j - n + 1
    OBVIOUS
  <2>2. k \in 2 .. Len(todo) /\ T[j] = todo[k] /\ j = n + k - 1
    BY <1>1, <1>2, <1>4, <2>1
  <2>3. /\ IsCons(todo[k].value)
        /\ (\A i \in 1 .. k - 1 : GroundedTask(todo[i])) => GroundedTask(todo[k])
        /\ \A i \in 1 .. k - 1 : IsCons(todo[i].value) =>
             todo[i].value.value \in Under(todo[k].value.value)
    BY <1>1, <1>4, <2>2 DEF Descends
  <2>4. ASSUME \A i \in 1 .. j - 1 : GroundedTask(T[i])
        PROVE  GroundedTask(T[j])
    <3>1. \A i \in DOMAIN tasks : GroundedTask(tasks[i])
      <4>1. \A i \in 1 .. n : i \in 1 .. j - 1 /\ T[i] = tasks[i]
        BY <1>1, <1>2, <2>2
      <4>. QED BY <1>1, <2>4, <4>1
    <3>2. ASSUME NEW i \in 2 .. k - 1
          PROVE  GroundedTask(todo[i])
      <4>1. n + i - 1 \in 1 .. j - 1 /\ T[n + i - 1] = todo[i]
        BY <1>1, <1>2, <2>2
      <4>. QED BY <2>4, <4>1
    <3>3. ASSUME NEW i \in 1 .. k - 1
          PROVE  GroundedTask(todo[i])
      <4>1. i = 1 \/ i \in 2 .. k - 1
        BY <2>2
      <4>. QED BY <1>1, <3>1, <3>2, <4>1
    <3>. QED BY <2>2, <2>3, <3>3
  <2>5. ASSUME NEW i \in 1 .. j - 1, IsCons(T[i].value)
        PROVE  T[i].value.value \in Under(T[j].value.value)
    <3>1. CASE i \in 1 .. n
      <4>1. T[i] = tasks[i] /\ i \in DOMAIN tasks
        BY <1>1, <1>2, <3>1
      <4>2. IsCons(Current) /\ T[i].value.value \in {Cel} \cup Under(Cel)
        BY <2>5, <4>1
      <4>3. Current = todo[1].value /\ 1 \in 1 .. k - 1
        BY <1>1, <2>2 DEF Current
      <4>4. Cel \in Under(todo[k].value.value)
        BY <2>3, <4>2, <4>3 DEF Cel
      <4>5. todo[k].value.value \in SourceCells
        <5>1. todo[k] \in Tasks
          BY <1>1, <2>2
        <5>2. todo[k].value \in Fields
          BY <5>1 DEF Tasks
        <5>. QED BY <2>3, <5>2, FieldsTell
      <4>6. Under(Cel) \subseteq Under(todo[k].value.value)
        BY <4>4, <4>5, UnderDescends
      <4>. QED BY <2>2, <4>2, <4>4, <4>6
    <3>2. CASE i \notin 1 .. n
      <4>1. i - n + 1 \in 1 .. k - 1 /\ T[i] = todo[i - n + 1]
        BY <1>1, <1>2, <2>2, <3>2
      <4>. QED BY <2>2, <2>3, <2>5, <4>1
    <3>. QED BY <3>1, <3>2
  <2>. QED BY <2>2, <2>3, <2>4, <2>5
<1>5. Descends(T)
  BY <1>3, <1>4 DEF Descends
<1>. QED BY <1>1, <1>5 DEF T

-----------------------------------------------------------------------------
(* The stack of the decoder. A stack shows values of the source when its top *)
(* entries mean them. A task links what it finds there to what it leaves,    *)
(* and a plan has what each task of the encoder is going to find.            *)
Shows(s, p) ==
  /\ s \in Seq(Decoded) /\ p \in Seq(Fields) /\ Len(p) <= Len(s)
  /\ \A i \in 1 .. Len(p) : Means(s[i], p[i])

Links(t, p, q) ==
  \E w \in Fields, r \in Seq(Fields) :
    /\ Leads(w, t.value) /\ q = <<w>> \o r
    /\ \/ t.kind = "rib" /\ p = r
       \/ t.kind = "small" /\ p = <<Rib(t.value.value).cdr>> \o r
       \/ t.kind = "shape" /\ p = <<Rib(t.value.value).cdr>> \o (<<Rib(t.value.value).car>> \o r)

IsPlan(T, P) ==
  /\ P \in Seq(Seq(Fields)) /\ Len(P) = Len(T) + 1
  /\ \A j \in 1 .. Len(T) : Links(T[j], P[j], P[j + 1])
  /\ P[Len(P)] = <<Reference(source.root)>>

(* A value on the way to another one means the same.                       *)
LEMMA MeansBefore ==
  ASSUME NEW w \in Fields, NEW v \in Fields, Leads(w, v), NEW x, Means(x, v)
  PROVE  Means(x, w)
<1>1. \A u : Leads(v, u) => Leads(w, u)
  BY DEF Leads
<1>. QED BY <1>1 DEF Means, MeansIn

(* Pushes and pops of the decoder's stack, seen in the source.             *)
LEMMA Pushed ==
  ASSUME NEW s, NEW p, Shows(s, p), NEW x \in Decoded, NEW v \in Fields, Means(x, v)
  PROVE  Shows(<<x>> \o s, <<v>> \o p)
<1>1. /\ <<x>> \o s \in Seq(Decoded) /\ Len(<<x>> \o s) = Len(s) + 1
      /\ <<v>> \o p \in Seq(Fields) /\ Len(<<v>> \o p) = Len(p) + 1
      /\ Len(s) \in Nat /\ Len(p) \in Nat /\ Len(p) <= Len(s)
  BY DEF Shows
<1>2. (<<x>> \o s)[1] = x /\ (<<v>> \o p)[1] = v
  BY DEF Shows
<1>3. ASSUME NEW i \in 2 .. Len(p) + 1
      PROVE  (<<x>> \o s)[i] = s[i - 1] /\ (<<v>> \o p)[i] = p[i - 1] /\ i - 1 \in 1 .. Len(p)
  BY <1>3 DEF Shows
<1>4. ASSUME NEW i \in 1 .. Len(p) + 1
      PROVE  Means((<<x>> \o s)[i], (<<v>> \o p)[i])
  <2>1. CASE i = 1
    BY <1>2, <2>1
  <2>2. CASE i \in 2 .. Len(p) + 1
    BY <1>3, <2>2 DEF Shows
  <2>. QED BY <1>1, <2>1, <2>2
<1>. DEFINE t == <<x>> \o s
            q == <<v>> \o p
<1>5. /\ t \in Seq(Decoded) /\ q \in Seq(Fields) /\ Len(q) = Len(p) + 1 /\ Len(t) = Len(s) + 1
      /\ \A i \in 1 .. Len(p) + 1 : Means(t[i], q[i])
  BY <1>1, <1>4
<1>. HIDE DEF t, q
<1>6. Shows(t, q)
  BY <1>1, <1>5 DEF Shows
<1>. QED BY <1>6 DEF t, q

LEMMA Popped ==
  ASSUME NEW s, NEW v \in Fields, NEW p \in Seq(Fields), Shows(s, <<v>> \o p)
  PROVE  /\ s # <<>> /\ Head(s) \in Decoded /\ Means(Head(s), v) /\ Head(s) = s[1]
         /\ Shows(Tail(s), p)
<1>1. /\ <<v>> \o p \in Seq(Fields) /\ Len(<<v>> \o p) = Len(p) + 1 /\ Len(p) \in Nat
      /\ (<<v>> \o p)[1] = v
      /\ \A i \in 1 .. Len(p) : (<<v>> \o p)[i + 1] = p[i] /\ i + 1 \in 1 .. Len(p) + 1
  OBVIOUS
<1>2. s \in Seq(Decoded) /\ Len(s) \in Nat /\ Len(p) + 1 <= Len(s)
  BY <1>1 DEF Shows
<1>3. /\ s # <<>> /\ Head(s) \in Decoded /\ Head(s) = s[1]
      /\ Tail(s) \in Seq(Decoded) /\ Len(Tail(s)) = Len(s) - 1
      /\ \A i \in 1 .. Len(p) : Tail(s)[i] = s[i + 1]
  BY <1>1, <1>2
<1>4. Means(Head(s), v)
  BY <1>1, <1>3 DEF Shows
<1>5. \A i \in 1 .. Len(p) : Means(Tail(s)[i], p[i])
  BY <1>1, <1>3 DEF Shows
<1>. QED BY <1>1, <1>2, <1>3, <1>4, <1>5 DEF Shows

(* A plan for the new tasks goes on with the rest of the old plan.         *)
LEMMA PlanReplaced ==
  ASSUME todo \in Seq(Tasks), todo # <<>>, NEW P, IsPlan(todo, P),
         NEW tasks \in Seq(Tasks), NEW new \in Seq(Seq(Fields)), Len(new) = Len(tasks),
         \A j \in 1 .. Len(tasks) - 1 : Links(tasks[j], new[j], new[j + 1]),
         tasks # <<>> => Links(tasks[Len(tasks)], new[Len(tasks)], P[2])
  PROVE  /\ IsPlan(tasks \o Tail(todo), new \o Tail(P))
         /\ (new \o Tail(P))[1] = IF tasks = <<>> THEN P[2] ELSE new[1]
<1>. DEFINE T == tasks \o Tail(todo)
            Q == new \o Tail(P)
            n == Len(tasks)
<1>1. P \in Seq(Seq(Fields)) /\ P # <<>> /\ Len(P) = Len(todo) + 1
  BY DEF IsPlan
<1>2. /\ T \in Seq(Tasks) /\ Len(T) = n + Len(todo) - 1 /\ n \in Nat /\ Len(todo) \in Nat
      /\ Len(todo) >= 1
      /\ \A i \in 1 .. n : T[i] = tasks[i]
      /\ \A i \in 2 .. Len(todo) : T[n + i - 1] = todo[i]
  BY Replaced
<1>3. /\ Q \in Seq(Seq(Fields)) /\ Len(Q) = n + Len(P) - 1
      /\ \A i \in 1 .. n : Q[i] = new[i]
      /\ \A i \in 2 .. Len(P) : Q[n + i - 1] = P[i]
  <2>1. PICK V : V = Seq(Fields)
    OBVIOUS
  <2>2. P \in Seq(V) /\ P # <<>> /\ new \in Seq(V) /\ Len(new) = n
    BY <1>1, <2>1
  <2>. HIDE DEF n
  <2>3. /\ Q \in Seq(V) /\ Len(Q) = Len(new) + Len(P) - 1
        /\ \A i \in 1 .. Len(new) : Q[i] = new[i]
        /\ \A i \in 2 .. Len(P) : Q[Len(new) + i - 1] = P[i]
    <3>1. PICK t : t = Tail(P)
      OBVIOUS
    <3>2. t \in Seq(V) /\ Len(t) = Len(P) - 1 /\ \A i \in 2 .. Len(P) : t[i - 1] = P[i]
      BY ONLY <2>2, <3>1
    <3>3. /\ new \o t \in Seq(V) /\ Len(new \o t) = Len(new) + Len(t)
          /\ \A i \in 1 .. Len(new) : (new \o t)[i] = new[i]
          /\ \A i \in 1 .. Len(t) : (new \o t)[Len(new) + i] = t[i]
      <4>1. new \in Seq(V) /\ t \in Seq(V)
        BY <2>2, <3>2
      <4>. QED BY ONLY <4>1
    <3>4. ASSUME NEW i \in 2 .. Len(P)
          PROVE  (new \o t)[Len(new) + i - 1] = P[i]
      <4>1. i - 1 \in 1 .. Len(t) /\ Len(new) + (i - 1) = Len(new) + i - 1
        BY <2>2, <3>2
      <4>. QED BY <3>2, <3>3, <4>1
    <3>5. Len(new) + Len(t) = Len(new) + Len(P) - 1
      BY <2>2, <3>2
    <3>. QED BY <3>1, <3>3, <3>4, <3>5
  <2>. HIDE DEF Q
  <2>. QED BY <2>1, <2>2, <2>3
<1>. HIDE DEF T, Q, n
<1>4. ASSUME NEW j \in 1 .. Len(T)
      PROVE  Links(T[j], Q[j], Q[j + 1])
  <2>1. CASE j \in 1 .. n - 1
    BY <1>2, <1>3, <2>1 DEF n
  <2>2. CASE n \in 1 .. n /\ j = n
    <3>1. T[j] = tasks[n] /\ Q[j] = new[n]
      BY <1>2, <1>3, <2>2
    <3>2. 2 \in 2 .. Len(P) /\ n + 2 - 1 = j + 1
      BY <1>1, <1>2, <2>2
    <3>3. Q[j + 1] = P[2]
      BY <1>3, <3>2
    <3>4. tasks # <<>>
      BY <2>2 DEF n
    <3>. QED BY <3>1, <3>3, <3>4 DEF n
  <2>3. CASE j > n
    <3>1. PICK k : k = j - n + 1
      OBVIOUS
    <3>2. k \in 2 .. Len(todo) /\ n + k - 1 = j /\ n + (k + 1) - 1 = j + 1
          /\ k \in 2 .. Len(P) /\ k + 1 \in 2 .. Len(P) /\ k \in 1 .. Len(todo)
      <4>. DEFINE size == Len(todo)
                  len == Len(P)
      <4>1. j \in 1 .. n + size - 1 /\ len = size + 1
        BY <1>1, <1>2
      <4>2. n \in Nat /\ size \in Nat
        BY <1>2
      <4>. HIDE DEF size, len, n
      <4>3. k \in 2 .. size /\ n + k - 1 = j /\ n + (k + 1) - 1 = j + 1
            /\ k \in 2 .. len /\ k + 1 \in 2 .. len /\ k \in 1 .. size
        BY ONLY <2>3, <3>1, <4>1, <4>2
      <4>. QED BY <4>3 DEF size, len
    <3>3. T[j] = todo[k]
      BY <1>2, <3>2
    <3>4. Q[j] = P[k] /\ Q[j + 1] = P[k + 1]
      BY <1>3, <3>2
    <3>. QED BY <3>2, <3>3, <3>4 DEF IsPlan
  <2>. QED BY <1>2, <2>1, <2>2, <2>3
<1>5. Q[Len(Q)] = <<Reference(source.root)>>
  <2>1. Len(P) \in 2 .. Len(P)
    BY <1>1, <1>2
  <2>2. Q[n + Len(P) - 1] = P[Len(P)]
    BY <1>3, <2>1
  <2>. QED BY <1>3, <2>2 DEF IsPlan
<1>6. Len(Q) = Len(T) + 1
  BY <1>1, <1>2, <1>3
<1>7. Q[1] = IF tasks = <<>> THEN P[2] ELSE new[1]
  <2>1. CASE tasks = <<>>
    <3>1. n = 0 /\ 2 \in 2 .. Len(P)
      BY <1>1, <1>2, <2>1 DEF n
    <3>2. Q[0 + 2 - 1] = P[2]
      BY <1>3, <3>1
    <3>. QED BY <2>1, <3>2
  <2>2. CASE tasks # <<>>
    <3>1. 1 \in 1 .. n
      BY <2>2 DEF n
    <3>. QED BY <1>3, <2>2, <3>1
  <2>. QED BY <2>1, <2>2
<1>8. IsPlan(T, Q)
  BY <1>3, <1>4, <1>5, <1>6 DEF IsPlan
<1>. QED BY <1>7, <1>8 DEF T, Q

-----------------------------------------------------------------------------
(* The invariant. Both dictionaries hold the same cells once a code is read. *)
Images(d) == [i \in DOMAIN d |-> Reference(image[d[i]])]
Agrees(d) ==
  /\ d \in Seq(SourceCells)
  /\ register = Images(d) \o leftover
  /\ \A c \in Range(d) : c \in DOMAIN image /\ <<image[c], c>> \in Related

Sendable(t) ==
  t.kind # "rib" => /\ IsCons(t.value) /\ ~NopCode(t.value.value)
                    /\ t.kind = "small" => IsSmall(t.value.value)

(* The cell of a task is not in the dictionary before its own code.          *)
Unsent(t) ==
  t.kind # "rib" /\ t.value.value \in DOMAIN counts => t.value.value \notin Range(dictionary)

Working ==
  /\ dictionary \in Seq(SourceCells) /\ Range(dictionary) \subseteq (DOMAIN counts) \cap Grounded
  /\ todo \in Seq(Tasks) /\ Descends(todo)
  /\ \A i \in DOMAIN todo : Sendable(todo[i]) /\ Unsent(todo[i])

(* The codes of a task are on their way to the decoder.                      *)
InFlight(t) ==
  LET c == t.value.value IN
  \/ /\ t.kind = "rib" /\ ~IsCons(t.value) /\ Agrees(dictionary)
     /\ codes = <<[kind |-> "number", value |-> t.value.value]>>
  \/ /\ t.kind = "small" /\ Agrees(dictionary)
     /\ codes = <<[kind |-> "small", value |-> Rib(c).car.value]>>
  \/ /\ t.kind = "shape" /\ Agrees(dictionary)
     /\ codes = <<[kind |-> "shape", value |-> Rib(c).tag]>>
  \/ \E d : /\ t.kind = "shape" /\ Agrees(d)
            /\ codes = <<[kind |-> "shape", value |-> Rib(c).tag], [kind |-> "share", value |-> 0]>>
            /\ dictionary = <<c>> \o d
            /\ c \in DOMAIN image /\ image[c] = Len(memory) + 1
  \/ \E d : \E k \in 1 .. Len(d) :
       /\ t.kind = "rib" /\ IsCons(t.value) /\ ~NopCode(c) /\ Agrees(d) /\ d[k] = c
       /\ \/ /\ codes = <<[kind |-> "reuse", value |-> 2 * (k - 1)]>>
             /\ dictionary = RemoveAt(d, k)
          \/ /\ codes = <<[kind |-> "reuse", value |-> 2 * (k - 1) + 1]>>
             /\ dictionary = <<c>> \o RemoveAt(d, k)

(* A cell has been built, and is still to be shared.                         *)
Sharing ==
  \E d, c : /\ codes = <<[kind |-> "share", value |-> 0]>>
            /\ Agrees(d) /\ dictionary = <<c>> \o d
            /\ c \in DOMAIN image /\ <<image[c], c>> \in Related
            /\ stack # <<>> /\ Head(stack) = Reference(image[c])

(* What the decoder is going to have when it has read all codes.             *)
Reaches(q) ==
  \/ codes = <<>> /\ Agrees(dictionary) /\ Shows(stack, q)
  \/ \E t \in Tasks, p \in Seq(Fields) :
       Sendable(t) /\ InFlight(t) /\ Links(t, p, q) /\ Shows(stack, p)
  \/ Sharing /\ Shows(stack, q)

Keeping == memory \in Seq(Built) /\ \E P : IsPlan(todo, P) /\ Reaches(P[1])

Unfolded == Means(loaded, Reference(source.root))

Kept ==
  /\ Given
  /\ phase \in {"count", "encode", "done", "failed"}
  /\ phase = "count" => /\ dictionary = <<>> /\ codes = <<>> /\ memory = <<>>
                        /\ stack = leftover /\ register = leftover
  /\ phase = "encode" => Working /\ Keeping
  /\ phase \in {"done", "failed"} => codes = <<>> /\ Unfolded

(* What stays when the variables that it is about do.                      *)
LEMMA RestStays ==
  ASSUME UNCHANGED <<source, leftover>>
  PROVE  /\ Given => Given'
         /\ \A t, p, q : Links(t, p, q)' <=> Links(t, p, q)
         /\ \A T, P : IsPlan(T, P)' <=> IsPlan(T, P)
         /\ \A T : Descends(T)' <=> Descends(T)
         /\ Tasks' = Tasks
<1>1. /\ Fields' = Fields /\ Grounded' = Grounded
      /\ \A c : Rib(c)' = Rib(c) /\ Under(c)' = Under(c)
      /\ \A v, w : Leads(v, w)' <=> Leads(v, w)
  BY SourceStays
<1>2. \A t, p, q : Links(t, p, q)' <=> Links(t, p, q)
  <2>. TAKE t, p, q
  <2>1. PICK c, a, b : c = t.value.value /\ a = Rib(c).car /\ b = Rib(c).cdr
    OBVIOUS
  <2>2. a = Rib(c)'.car /\ b = Rib(c)'.cdr
    BY <1>1, <2>1
  <2>3. Links(t, p, q) <=>
          \E w \in Fields, r \in Seq(Fields) :
            /\ Leads(w, t.value) /\ q = <<w>> \o r
            /\ \/ t.kind = "rib" /\ p = r
               \/ t.kind = "small" /\ p = <<b>> \o r
               \/ t.kind = "shape" /\ p = <<b>> \o (<<a>> \o r)
    BY <2>1 DEF Links
  <2>4. Links(t, p, q)' <=>
          \E w \in Fields, r \in Seq(Fields) :
            /\ Leads(w, t.value) /\ q = <<w>> \o r
            /\ \/ t.kind = "rib" /\ p = r
               \/ t.kind = "small" /\ p = <<b>> \o r
               \/ t.kind = "shape" /\ p = <<b>> \o (<<a>> \o r)
    BY <1>1, <2>1, <2>2 DEF Links
  <2>. QED BY <2>3, <2>4
<1>3. \A T, P : IsPlan(T, P)' <=> IsPlan(T, P)
  BY <1>1, <1>2 DEF IsPlan
<1>4. \A t : GroundedTask(t)' <=> GroundedTask(t)
  BY <1>1 DEF GroundedTask
<1>5. \A T : Descends(T)' <=> Descends(T)
  BY <1>1, <1>4 DEF Descends
<1>6. Tasks' = Tasks
  BY <1>1 DEF Tasks
<1>. QED BY <1>2, <1>3, <1>5, <1>6 DEF Given

LEMMA SendableStays ==
  ASSUME UNCHANGED <<source, leftover>>, DOMAIN counts' = DOMAIN counts
  PROVE  \A t : Sendable(t)' <=> Sendable(t)
<1>1. \A c : Rib(c)' = Rib(c) /\ (NopCode(c)' <=> NopCode(c))
  BY SourceStays
<1>. QED BY <1>1 DEF Sendable, IsSmall

LEMMA ShowsStays ==
  ASSUME UNCHANGED <<source, leftover, memory>>, NEW s, NEW p, Shows(s, p)
  PROVE  Shows(s, p)'
<1>1. Fields' = Fields /\ Decoded' = Decoded
  BY SourceStays
<1>. QED BY <1>1, MeaningStays DEF Shows

LEMMA AgreesStays ==
  ASSUME UNCHANGED <<source, leftover, memory, register>>, NEW d, Agrees(d),
         \A c \in Range(d) : c \in DOMAIN image' /\ image'[c] = image[c]
  PROVE  Agrees(d)'
<1>1. SourceCells' = SourceCells /\ Related' = Related
  BY SourceStays, MeaningStays
<1>2. \A i \in DOMAIN d : d[i] \in Range(d)
  BY DEF Range
<1>3. Images(d)' = Images(d)
  BY <1>2 DEF Images
<1>. QED BY <1>1, <1>3 DEF Agrees

(* Sequences.                                                              *)
LEMMA SameSequence ==
  ASSUME NEW S, NEW s \in Seq(S), NEW t \in Seq(S), Len(s) = Len(t),
         \A i \in 1 .. Len(s) : s[i] = t[i]
  PROVE  s = t
OBVIOUS

LEMMA Concatenated ==
  ASSUME NEW S, NEW s \in Seq(S), NEW t \in Seq(S)
  PROVE  /\ s \o t \in Seq(S) /\ Len(s \o t) = Len(s) + Len(t)
         /\ \A i \in 1 .. Len(s) : (s \o t)[i] = s[i]
         /\ \A i \in 1 .. Len(t) : (s \o t)[Len(s) + i] = t[i]
OBVIOUS

LEMMA RangeIs ==
  ASSUME NEW S, NEW s \in Seq(S)
  PROVE  /\ Range(s) \subseteq S
         /\ \A i \in 1 .. Len(s) : s[i] \in Range(s)
         /\ \A x \in Range(s) : \E i \in 1 .. Len(s) : x = s[i]
BY DEF Range

LEMMA OnTop ==
  ASSUME NEW S, NEW x \in S, NEW s \in Seq(S)
  PROVE  Head(<<x>> \o s) = x /\ Tail(<<x>> \o s) = s
<1>1. PICK t : t = <<x>> \o s
  OBVIOUS
<1>2. t \in Seq(S) /\ Len(t) = Len(s) + 1 /\ t[1] = x /\ \A i \in 1 .. Len(s) : t[i + 1] = s[i]
  BY <1>1
<1>3. Tail(t) \in Seq(S) /\ Len(Tail(t)) = Len(s) /\ \A i \in 1 .. Len(s) : Tail(t)[i] = s[i]
  BY <1>2
<1>4. Tail(t) = s
  BY <1>3, SameSequence
<1>5. Head(t) = x
  BY <1>2
<1>. QED BY <1>1, <1>4, <1>5

(* How a step of the encoder leaves its work in order.                      *)
LEMMA WorkReplaced ==
  ASSUME Given, Working, todo # <<>>, UNCHANGED <<source, leftover>>,
         NEW tasks \in Seq(Tasks), Descends(tasks), todo' = tasks \o Tail(todo),
         (\A i \in DOMAIN tasks : GroundedTask(tasks[i])) => GroundedTask(Head(todo)),
         \A i \in DOMAIN tasks : IsCons(tasks[i].value) =>
           /\ IsCons(Current)
           /\ tasks[i].value.value \in {Cel} \cup Under(Cel),
         DOMAIN counts' = DOMAIN counts, dictionary' \in Seq(SourceCells),
         Range(dictionary') \subseteq (DOMAIN counts) \cap Grounded,
         \A i \in DOMAIN tasks : Sendable(tasks[i]) /\ Unsent(tasks[i])',
         \A i \in 2 .. Len(todo) : \A t : t = todo[i] => Unsent(t)'
  PROVE  Working'
<1>1. /\ SourceCells' = SourceCells /\ Grounded' = Grounded /\ Tasks' = Tasks
      /\ \A T : Descends(T)' <=> Descends(T)
      /\ \A t : Sendable(t)' <=> Sendable(t)
  BY SourceStays, RestStays, SendableStays
<1>2. todo \in Seq(Tasks) /\ Descends(todo)
  BY DEF Working
<1>3. PICK T : T = todo'
  OBVIOUS
<1>4. T \in Seq(Tasks) /\ Descends(T)
  BY <1>2, <1>3, StillDescends
<1>5. ASSUME NEW i \in DOMAIN T
      PROVE  Sendable(T[i]) /\ Unsent(T[i])'
  <2>1. i \in 1 .. Len(T)
    BY <1>4
  <2>2. \/ i \in 1 .. Len(tasks) /\ T[i] = tasks[i]
        \/ i - Len(tasks) + 1 \in 2 .. Len(todo) /\ T[i] = todo[i - Len(tasks) + 1]
    <3>1. todo \in Seq(Tasks) /\ todo # <<>> /\ tasks \in Seq(Tasks)
      BY <1>2
    <3>. QED BY ONLY <1>3, <2>1, <3>1, todo' = tasks \o Tail(todo)
  <2>3. CASE i \in 1 .. Len(tasks) /\ T[i] = tasks[i]
    BY <2>3
  <2>4. CASE i - Len(tasks) + 1 \in 2 .. Len(todo) /\ T[i] = todo[i - Len(tasks) + 1]
    <3>1. PICK k \in 2 .. Len(todo) : T[i] = todo[k]
      BY <2>4
    <3>2. k \in DOMAIN todo
      BY <1>2
    <3>3. Sendable(todo[k])
      BY <3>2 DEF Working
    <3>. QED BY <3>1, <3>3
  <2>. QED BY <2>2, <2>3, <2>4
<1>. QED BY <1>1, <1>3, <1>4, <1>5 DEF Working

(* The task at hand, with the values that it finds and leaves.             *)
LEMMA HeadTask ==
  ASSUME Given, Working, todo # <<>>, NEW P, IsPlan(todo, P)
  PROVE  /\ Head(todo) \in Tasks /\ Head(todo) = todo[1] /\ 1 \in DOMAIN todo
         /\ Sendable(Head(todo)) /\ Unsent(Head(todo))
         /\ Current = Head(todo).value /\ Current \in Fields
         /\ IsCons(Current) => /\ Current = Reference(Cel) /\ Cel \in SourceCells
                               /\ Rib(Cel).car \in Fields /\ Rib(Cel).cdr \in Fields
         /\ ~IsCons(Current) => Current = Number(Cel)
         /\ Links(Head(todo), P[1], P[2]) /\ P[1] \in Seq(Fields) /\ P[2] \in Seq(Fields)
<1>1. /\ todo \in Seq(Tasks) /\ Head(todo) \in Tasks /\ Head(todo) = todo[1]
      /\ 1 \in DOMAIN todo /\ 1 \in 1 .. Len(todo)
  BY DEF Working
<1>2. Current = Head(todo).value /\ Current \in Fields
  BY <1>1 DEF Current, Tasks
<1>3. IsCons(Current) => /\ Current = Reference(Cel) /\ Cel \in SourceCells
                         /\ Rib(Cel).car \in Fields /\ Rib(Cel).cdr \in Fields
  BY <1>2, FieldsTell DEF Cel, Fields
<1>4. ~IsCons(Current) => Current = Number(Cel)
  BY <1>2, FieldsTell DEF Cel
<1>5. Links(Head(todo), P[1], P[2])
  BY <1>1 DEF IsPlan
<1>6. P[1] \in Seq(Fields) /\ P[2] \in Seq(Fields)
  <2>1. PICK V : V = Seq(Fields)
    OBVIOUS
  <2>2. P \in Seq(V) /\ Len(P) = Len(todo) + 1 /\ Len(todo) >= 1 /\ Len(todo) \in Nat
    BY <1>1, <2>1 DEF IsPlan
  <2>. QED BY <2>1, <2>2
<1>. QED BY <1>1, <1>2, <1>3, <1>4, <1>5, <1>6 DEF Working

(* A step that is done with a task.                                         *)
LEMMA WorkDone ==
  ASSUME Given, Working, todo # <<>>, UNCHANGED <<source, leftover>>,
         todo' = <<>> \o Tail(todo), GroundedTask(Head(todo)),
         DOMAIN counts' = DOMAIN counts, dictionary' \in Seq(SourceCells),
         Range(dictionary') \subseteq (DOMAIN counts) \cap Grounded,
         \A i \in 2 .. Len(todo) : \A t : t = todo[i] => Unsent(t)'
  PROVE  Working'
<1>. DEFINE tasks == <<>>
<1>1. tasks \in Seq(Tasks) /\ Descends(tasks) /\ DOMAIN tasks = {}
  BY DEF Descends
<1>2. todo' = tasks \o Tail(todo)
  OBVIOUS
<1>. HIDE DEF tasks
<1>. QED BY <1>1, <1>2, WorkReplaced

(* Its part of the plan goes with it.                                      *)
LEMMA PlanFollowed ==
  ASSUME Given, Working, todo # <<>>, UNCHANGED <<source, leftover>>,
         todo' = <<>> \o Tail(todo), NEW P, IsPlan(todo, P)
  PROVE  \E Q : IsPlan(todo, Q)' /\ Q[1] = P[2]
<1>. DEFINE tasks == <<>>
            new == <<>>
<1>1. /\ tasks \in Seq(Tasks) /\ new \in Seq(Seq(Fields)) /\ Len(new) = Len(tasks)
      /\ \A j \in 1 .. Len(tasks) - 1 : Links(tasks[j], new[j], new[j + 1])
      /\ tasks = <<>> /\ todo \in Seq(Tasks)
  BY DEF Working
<1>. HIDE DEF tasks, new
<1>2. /\ IsPlan(tasks \o Tail(todo), new \o Tail(P))
      /\ (new \o Tail(P))[1] = P[2]
  BY <1>1, PlanReplaced
<1>3. PICK T, Q : T = todo' /\ IsPlan(T, Q) /\ Q[1] = P[2]
  BY <1>1, <1>2
<1>4. IsPlan(T, Q)'
  BY <1>3, RestStays
<1>. QED BY <1>3, <1>4

(* The same where the dictionary does not grow.                             *)
LEMMA UnsentStays ==
  ASSUME Working, DOMAIN counts' = DOMAIN counts, Range(dictionary') \subseteq Range(dictionary)
  PROVE  \A i \in 1 .. Len(todo) : \A t : t = todo[i] => Unsent(t)'
<1>1. \A i \in 1 .. Len(todo) : Unsent(todo[i])
  BY DEF Working
<1>. QED BY <1>1 DEF Unsent

(* What has been sent is grounded: all that was to be sent before it is.     *)
LEMMA HeadIsGrounded ==
  ASSUME Given, Working, todo # <<>>, Head(todo).kind # "rib"
  PROVE  GroundedTask(Head(todo))
<1>1. todo \in Seq(Tasks) /\ Head(todo) = todo[1] /\ 1 \in DOMAIN todo /\ 1 .. 1 - 1 = {}
  BY DEF Working
<1>. QED BY <1>1 DEF Working, Descends

(* Its codes are on their way, and the rest of the plan stands.              *)
LEMMA SentFollows ==
  ASSUME Given, Working, NEW P, IsPlan(todo, P), Shows(stack, P[1]), memory \in Seq(Built),
         todo # <<>>, todo' = <<>> \o Tail(todo), DOMAIN counts' = DOMAIN counts,
         \A t : t = Head(todo) => InFlight(t)',
         UNCHANGED <<source, leftover, memory, stack>>
  PROVE  Keeping'
<1>1. PICK Q : IsPlan(todo, Q)' /\ Q[1] = P[2]
  BY PlanFollowed
<1>2. PICK t, p, q : t \in Tasks /\ t = Head(todo) /\ p = P[1] /\ q = P[2] /\ p \in Seq(Fields)
  BY HeadTask
<1>3. Sendable(t)' /\ Links(t, p, q)' /\ Shows(stack, p)'
  <2>1. Sendable(t) /\ Links(t, p, q)
    BY <1>2, HeadTask
  <2>2. PICK s : s = stack /\ s = stack'
    OBVIOUS
  <2>3. Shows(s, p)'
    BY <1>2, <2>2, ShowsStays
  <2>. QED BY <2>1, <2>2, <2>3, SendableStays, RestStays
<1>4. InFlight(t)'
  BY <1>2
<1>5. Reaches(q)'
  BY <1>2, <1>3, <1>4, SourceStays, RestStays DEF Reaches
<1>6. memory' \in Seq(Built') /\ Reaches(Q[1])'
  BY <1>1, <1>2, <1>5, SourceStays
<1>. QED BY <1>1, <1>6 DEF Keeping

(* The encoder, one lemma for each action. A number is sent.               *)
LEMMA EncodeNumberKeeps ==
  ASSUME Given, Working, NEW P, IsPlan(todo, P), Agrees(dictionary), Shows(stack, P[1]),
         memory \in Seq(Built), codes = <<>>, EncodeNumber, image' = image,
         UNCHANGED <<source, leftover, memory, stack, register>>
  PROVE  Working' /\ Keeping'
<1>1. /\ todo # <<>> /\ Head(todo).kind = "rib" /\ ~IsCons(Current)
      /\ todo' = <<>> \o Tail(todo) /\ UNCHANGED <<counts, dictionary>>
      /\ codes' = <<[kind |-> "number", value |-> Current.value]>>
  BY DEF EncodeNumber, Doing, Todo, Write
<1>2. Working'
  <2>1. GroundedTask(Head(todo))
    BY <1>1 DEF GroundedTask, Current
  <2>2. \A i \in 2 .. Len(todo) : \A t : t = todo[i] => Unsent(t)'
    BY <1>1, UnsentStays
  <2>. QED BY <1>1, <2>1, <2>2, WorkDone DEF Working
<1>3. ASSUME NEW t, t = Head(todo)
      PROVE  InFlight(t)'
  <2>1. PICK d : d = dictionary /\ d = dictionary'
    BY <1>1
  <2>2. Agrees(d)'
    BY <2>1, AgreesStays DEF Agrees
  <2>3. t.kind = "rib" /\ ~IsCons(t.value) /\ t.value = Current
    BY <1>1, <1>3 DEF Current
  <2>. QED BY <1>1, <2>1, <2>2, <2>3 DEF InFlight
<1>. QED BY <1>1, <1>2, <1>3, SentFollows

(* A small cell is sent when its cdr has been.                             *)
LEMMA EncodeSmallKeeps ==
  ASSUME Given, Working, NEW P, IsPlan(todo, P), Agrees(dictionary), Shows(stack, P[1]),
         memory \in Seq(Built), codes = <<>>, EncodeSmall,
         image' = With(image, Cel, Len(memory) + 1),
         UNCHANGED <<source, leftover, memory, stack, register>>
  PROVE  Working' /\ Keeping'
<1>1. /\ todo # <<>> /\ Head(todo).kind = "small"
      /\ todo' = <<>> \o Tail(todo) /\ UNCHANGED <<counts, dictionary>>
      /\ codes' = <<[kind |-> "small", value |-> Rib(Cel).car.value]>>
  BY DEF EncodeSmall, Doing, Todo, Write
<1>2. Working'
  <2>1. GroundedTask(Head(todo))
    BY <1>1, HeadIsGrounded
  <2>2. \A i \in 2 .. Len(todo) : \A t : t = todo[i] => Unsent(t)'
    BY <1>1, UnsentStays
  <2>. QED BY <1>1, <2>1, <2>2, WorkDone DEF Working
<1>3. Cel \notin Range(dictionary)
  <2>1. Sendable(Head(todo)) /\ Current = Head(todo).value
    BY <1>1, HeadTask
  <2>2. IsSmall(Cel)
    BY <1>1, <2>1 DEF Sendable, Cel
  <2>. QED BY <2>2 DEF IsSmall, Working
<1>4. ASSUME NEW t, t = Head(todo)
      PROVE  InFlight(t)'
  <2>1. PICK d : d = dictionary /\ d = dictionary'
    BY <1>1
  <2>2. \A c \in Range(d) : c \in DOMAIN image' /\ image'[c] = image[c]
    BY <1>3, <2>1 DEF With, Agrees
  <2>3. Agrees(d)'
    BY <2>1, <2>2, AgreesStays
  <2>4. t.kind = "small" /\ t.value.value = Cel
    BY <1>1, <1>4 DEF Cel, Current
  <2>5. PICK c : c = Cel /\ Rib(c)' = Rib(c)
    BY SourceStays
  <2>. QED BY <1>1, <2>1, <2>3, <2>4, <2>5 DEF InFlight
<1>. QED BY <1>1, <1>2, <1>4, SentFollows

(* A cell is sent after its fields, and shared if it is used again.        *)
LEMMA EncodeShapeKeeps ==
  ASSUME Given, Working, NEW P, IsPlan(todo, P), Agrees(dictionary), Shows(stack, P[1]),
         memory \in Seq(Built), codes = <<>>, EncodeShape,
         image' = With(image, Cel, Len(memory) + 1),
         UNCHANGED <<source, leftover, memory, stack, register>>
  PROVE  Working' /\ Keeping'
<1>1. /\ todo # <<>> /\ Head(todo).kind = "shape"
      /\ todo' = <<>> \o Tail(todo)
      /\ \/ /\ Cel \in DOMAIN counts
            /\ dictionary' = <<Cel>> \o dictionary
            /\ counts' = [counts EXCEPT ![Cel] = @ - 1]
            /\ codes' = <<[kind |-> "shape", value |-> Rib(Cel).tag],
                          [kind |-> "share", value |-> 0]>>
         \/ /\ Cel \notin DOMAIN counts /\ UNCHANGED <<counts, dictionary>>
            /\ codes' = <<[kind |-> "shape", value |-> Rib(Cel).tag]>>
  BY DEF EncodeShape, Doing, Todo, Write
<1>2. /\ Head(todo) = todo[1] /\ Current = Head(todo).value /\ IsCons(Current)
      /\ Cel = Head(todo).value.value /\ Cel \in SourceCells
      /\ Unsent(Head(todo)) /\ dictionary \in Seq(SourceCells)
      /\ Range(dictionary) \subseteq (DOMAIN counts) \cap Grounded
      /\ DOMAIN counts' = DOMAIN counts
  BY <1>1, HeadTask DEF Cel, Sendable, Working
<1>3. Cel \notin Range(dictionary)
  BY <1>1, <1>2 DEF Unsent
<1>4. Cel \in Grounded /\ GroundedTask(Head(todo))
  BY <1>1, <1>2, HeadIsGrounded DEF GroundedTask
<1>5. /\ dictionary' \in Seq(SourceCells)
      /\ Range(dictionary') \subseteq Range(dictionary) \cup {Cel}
      /\ Range(dictionary') \subseteq (DOMAIN counts) \cap Grounded
  <2>1. CASE dictionary' = <<Cel>> \o dictionary /\ Cel \in DOMAIN counts
    <3>1. PICK d : d = <<Cel>> \o dictionary
      OBVIOUS
    <3>2. /\ d \in Seq(SourceCells) /\ DOMAIN d = 1 .. Len(dictionary) + 1
          /\ DOMAIN dictionary = 1 .. Len(dictionary) /\ Len(dictionary) \in Nat
          /\ d[1] = Cel
          /\ \A i \in 1 .. Len(dictionary) + 1 : 
               i = 1 \/ (i - 1 \in 1 .. Len(dictionary) /\ d[i] = dictionary[i - 1])
      BY <1>2, <3>1
    <3>3. Range(d) \subseteq Range(dictionary) \cup {Cel}
      BY <3>2 DEF Range
    <3>. QED BY <1>2, <1>4, <2>1, <3>1, <3>2, <3>3
  <2>. QED BY <1>1, <1>2, <2>1
<1>6. Working'
  <2>1. ASSUME NEW i \in 2 .. Len(todo), NEW t, t = todo[i]
        PROVE  Unsent(t)'
    <3>1. i \in DOMAIN todo /\ i \in 1 .. Len(todo) /\ 1 \in 1 .. i - 1
      BY DEF Working
    <3>2. Unsent(todo[i])
      BY <3>1 DEF Working
    <3>3. todo[i].kind # "rib" => Cel \in Under(todo[i].value.value)
      BY <1>2, <3>1 DEF Working, Descends
    <3>4. todo[i].kind # "rib" => Cel # todo[i].value.value
      BY <1>4, <3>3, GroundedIsAcyclic
    <3>. QED BY <1>2, <1>5, <2>1, <3>2, <3>4 DEF Unsent
  <2>. QED BY <1>1, <1>2, <1>4, <1>5, <2>1, WorkDone
<1>7. ASSUME NEW t, t = Head(todo)
      PROVE  InFlight(t)'
  <2>1. PICK d, c : d = dictionary /\ c = Cel /\ Rib(c)' = Rib(c)
    BY SourceStays
  <2>2. \A e \in Range(d) : e \in DOMAIN image' /\ image'[e] = image[e]
    BY <1>3, <2>1 DEF With, Agrees
  <2>3. Agrees(d)'
    BY <2>1, <2>2, AgreesStays
  <2>4. t.kind = "shape" /\ t.value.value = c
    BY <1>1, <1>2, <1>7, <2>1
  <2>5. c \in DOMAIN image' /\ image'[c] = Len(memory') + 1
    BY <2>1 DEF With
  <2>6. CASE c \in DOMAIN counts
    BY <1>1, <2>1, <2>3, <2>4, <2>5, <2>6 DEF InFlight
  <2>7. CASE c \notin DOMAIN counts
    BY <1>1, <2>1, <2>3, <2>4, <2>7 DEF InFlight
  <2>. QED BY <2>6, <2>7
<1>. QED BY <1>1, <1>2, <1>6, <1>7, SentFollows

(* What RemoveAt leaves.                                                   *)
LEMMA Removed ==
  ASSUME NEW S, NEW s \in Seq(S), NEW k \in 1 .. Len(s)
  PROVE  /\ RemoveAt(s, k) \in Seq(S) /\ Len(RemoveAt(s, k)) = Len(s) - 1
         /\ \A i \in 1 .. Len(s) - 1 : RemoveAt(s, k)[i] = IF i < k THEN s[i] ELSE s[i + 1]
<1>. DEFINE a == SubSeq(s, 1, k - 1)
            b == SubSeq(s, k + 1, Len(s))
<1>1. k \in Nat /\ Len(s) \in Nat /\ 1 <= k /\ k <= Len(s)
  OBVIOUS
<1>2. a \in Seq(S) /\ Len(a) = k - 1 /\ \A i \in 1 .. k - 1 : a[i] = s[i]
  BY <1>1
<1>3. b \in Seq(S) /\ Len(b) = Len(s) - k /\ \A i \in 1 .. Len(s) - k : b[i] = s[k + i]
  BY <1>1
<1>4. RemoveAt(s, k) = a \o b
  BY DEF RemoveAt
<1>. HIDE DEF a, b
<1>5. RemoveAt(s, k) \in Seq(S) /\ Len(RemoveAt(s, k)) = Len(s) - 1
  <2>1. a \o b \in Seq(S) /\ Len(a \o b) = Len(a) + Len(b)
    <3>1. a \in Seq(S) /\ b \in Seq(S)
      BY <1>2, <1>3
    <3>. QED BY ONLY <3>1
  <2>2. Len(a) + Len(b) = Len(s) - 1
    BY <1>1, <1>2, <1>3
  <2>. QED BY <1>4, <2>1, <2>2
<1>6. ASSUME NEW i \in 1 .. Len(s) - 1
      PROVE  RemoveAt(s, k)[i] = IF i < k THEN s[i] ELSE s[i + 1]
  <2>1. CASE i < k
    <3>1. i \in 1 .. k - 1
      BY <1>1, <2>1
    <3>. QED BY <1>2, <1>3, <1>4, <2>1, <3>1
  <2>2. CASE ~(i < k)
    <3>1. i - (k - 1) \in 1 .. Len(s) - k /\ k + (i - (k - 1)) = i + 1
      BY <1>1, <2>2
    <3>2. (a \o b)[i] = b[i - (k - 1)]
      BY <1>1, <1>2, <1>3, <2>2
    <3>. QED BY <1>3, <1>4, <2>2, <3>1, <3>2
  <2>. QED BY <2>1, <2>2
<1>. QED BY <1>5, <1>6

(* The position that the encoder sends is the place of the value.          *)
LEMMA PositionTells ==
  ASSUME dictionary \in Seq(SourceCells), NEW c, Contains(dictionary, c)
  PROVE  /\ Position(c) + 1 \in 1 .. Len(dictionary) /\ Position(c) \in Nat
         /\ dictionary[Position(c) + 1] = c
<1>. DEFINE I == {i \in 1 .. Len(dictionary) : dictionary[i] = c}
<1>1. I \subseteq Nat /\ I # {}
  BY DEF Contains
<1>2. SelectInSeq(dictionary, LAMBDA d : d = c) = Min(I)
  BY <1>1 DEF SelectInSeq
<1>3. Min(I) \in I
  <2>. HIDE DEF I
  <2>1. \E x \in I : \A y \in I : x <= y
    BY <1>1, LeastNumber
  <2>. QED BY <2>1 DEF Min
<1>. HIDE DEF I
<1>4. Min(I) \in 1 .. Len(dictionary) /\ dictionary[Min(I)] = c
  BY <1>3 DEF I
<1>5. Position(c) = Min(I) - 1
  BY <1>2 DEF Position
<1>6. Len(dictionary) \in Nat
  OBVIOUS
<1>. QED BY <1>4, <1>5, <1>6

(* A value in the dictionary is sent as its place there.                   *)
LEMMA EncodeReuseKeeps ==
  ASSUME Given, Working, NEW P, IsPlan(todo, P), Agrees(dictionary), Shows(stack, P[1]),
         memory \in Seq(Built), codes = <<>>, EncodeReuse, image' = image,
         UNCHANGED <<source, leftover, memory, stack, register>>
  PROVE  Working' /\ Keeping'
<1>1. PICK k, d, c : k = Position(Cel) + 1 /\ d = dictionary /\ c = Cel
  OBVIOUS
<1>2. /\ todo # <<>> /\ Head(todo).kind = "rib" /\ IsCons(Current) /\ ~NopCode(c)
      /\ c \in DOMAIN counts /\ Contains(dictionary, c)
      /\ todo' = <<>> \o Tail(todo) /\ counts' = [counts EXCEPT ![c] = @ - 1]
      /\ \/ /\ dictionary' = RemoveAt(d, k)
            /\ codes' = <<[kind |-> "reuse", value |-> 2 * (k - 1) + 0]>>
         \/ /\ dictionary' = <<c>> \o RemoveAt(d, k)
            /\ codes' = <<[kind |-> "reuse", value |-> 2 * (k - 1) + 1]>>
  <2>1. /\ todo # <<>> /\ Head(todo).kind = "rib" /\ IsCons(Current) /\ ~NopCode(c)
        /\ c \in DOMAIN counts /\ Contains(dictionary, c)
        /\ todo' = <<>> \o Tail(todo) /\ counts' = [counts EXCEPT ![c] = @ - 1]
        /\ dictionary' = IF counts[c] = 1 THEN RemoveAt(d, Position(c) + 1)
                         ELSE <<c>> \o RemoveAt(d, Position(c) + 1)
        /\ codes' = <<[kind |-> "reuse",
                       value |-> 2 * Position(c) + (IF counts[c] = 1 THEN 0 ELSE 1)]>>
    BY <1>1 DEF EncodeReuse, Doing, Todo, Write, Sent
  <2>2. k - 1 = Position(c)
    BY <1>1, <2>1, PositionTells DEF Working
  <2>. QED BY <1>1, <2>1, <2>2
<1>3. /\ d \in Seq(SourceCells) /\ k \in 1 .. Len(d) /\ d[k] = c /\ k - 1 \in Nat
      /\ Range(d) \subseteq (DOMAIN counts) \cap Grounded
  BY <1>1, <1>2, PositionTells DEF Working
<1>4. DOMAIN counts' = DOMAIN counts
  BY <1>2
<1>5. dictionary' \in Seq(SourceCells) /\ Range(dictionary') \subseteq Range(d)
  <2>1. PICK r : r = RemoveAt(d, k)
    OBVIOUS
  <2>2. /\ r \in Seq(SourceCells) /\ Len(r) = Len(d) - 1
        /\ \A i \in 1 .. Len(d) - 1 : r[i] = IF i < k THEN d[i] ELSE d[i + 1]
    BY <1>3, <2>1, Removed
  <2>3. /\ Len(d) \in Nat /\ DOMAIN d = 1 .. Len(d) /\ DOMAIN r = 1 .. Len(d) - 1
        /\ c \in SourceCells
    BY <1>3, <2>2
  <2>4. \A i \in 1 .. Len(d) : d[i] \in Range(d)
    BY <2>3 DEF Range
  <2>5. \A i \in 1 .. Len(d) - 1 : r[i] \in Range(d)
    BY <2>2, <2>3, <2>4
  <2>6. r \in Seq(SourceCells) /\ Range(r) \subseteq Range(d)
    BY <2>2, <2>3, <2>5 DEF Range
  <2>7. PICK q : q = <<c>> \o r
    OBVIOUS
  <2>8. /\ q \in Seq(SourceCells) /\ DOMAIN q = 1 .. Len(d)
        /\ \A i \in 1 .. Len(d) : (i = 1 /\ q[i] = c) \/ (i - 1 \in 1 .. Len(d) - 1 /\ q[i] = r[i - 1])
    BY <2>2, <2>3, <2>7
  <2>9. Range(q) \subseteq Range(d)
    BY <1>3, <2>4, <2>5, <2>8 DEF Range
  <2>. QED BY <1>2, <2>1, <2>6, <2>7, <2>8, <2>9
<1>6. Working'
  <2>1. GroundedTask(Head(todo))
    <3>1. c \in Range(d)
      BY <1>3 DEF Range
    <3>. QED BY <1>1, <1>2, <1>3, <3>1 DEF GroundedTask, Cel, Current
  <2>2. \A i \in 2 .. Len(todo) : \A t : t = todo[i] => Unsent(t)'
    BY <1>1, <1>4, <1>5, UnsentStays
  <2>. QED BY <1>1, <1>2, <1>3, <1>4, <1>5, <2>1, <2>2, WorkDone
<1>7. ASSUME NEW t, t = Head(todo)
      PROVE  InFlight(t)'
  <2>1. Agrees(d)'
    BY <1>1, AgreesStays DEF Agrees
  <2>2. t.kind = "rib" /\ IsCons(t.value) /\ t.value.value = c
    BY <1>1, <1>2, <1>7 DEF Cel, Current
  <2>3. ~NopCode(c)'
    BY <1>2, SourceStays
  <2>4. 2 * (k - 1) + 0 = 2 * (k - 1)
    BY <1>3
  <2>. QED BY <1>2, <1>3, <2>1, <2>2, <2>3, <2>4 DEF InFlight
<1>. QED BY <1>2, <1>4, <1>6, <1>7, SentFollows

(* A step that only cuts its task into smaller ones.                        *)
LEMMA CutKeeps ==
  ASSUME Given, Working, NEW P, IsPlan(todo, P), Agrees(dictionary), Shows(stack, P[1]),
         memory \in Seq(Built), codes = <<>>, todo # <<>>,
         UNCHANGED <<source, leftover, memory, stack, register, image, codes, counts, dictionary>>,
         NEW tasks \in Seq(Tasks), tasks # <<>>, Descends(tasks), todo' = tasks \o Tail(todo),
         (\A i \in DOMAIN tasks : GroundedTask(tasks[i])) => GroundedTask(Head(todo)),
         \A i \in DOMAIN tasks : IsCons(tasks[i].value) =>
           /\ IsCons(Current)
           /\ tasks[i].value.value \in {Cel} \cup Under(Cel),
         \A i \in DOMAIN tasks : Sendable(tasks[i]) /\ Unsent(tasks[i]),
         NEW new \in Seq(Seq(Fields)), Len(new) = Len(tasks), new[1] = P[1],
         \A j \in 1 .. Len(tasks) - 1 : Links(tasks[j], new[j], new[j + 1]),
         Links(tasks[Len(tasks)], new[Len(tasks)], P[2])
  PROVE  Working' /\ Keeping'
<1>1. Working'
  <2>1. \A t : Unsent(t)' <=> Unsent(t)
    BY DEF Unsent
  <2>2. \A i \in 2 .. Len(todo) : \A t : t = todo[i] => Unsent(t)'
    <3>1. DOMAIN counts' = DOMAIN counts /\ Range(dictionary') \subseteq Range(dictionary)
      OBVIOUS
    <3>2. \A i \in 1 .. Len(todo) : \A t : t = todo[i] => Unsent(t)'
      BY <3>1, UnsentStays
    <3>. QED BY <3>2 DEF Working
  <2>. QED BY <2>1, <2>2, WorkReplaced DEF Working
<1>2. PICK T, Q : T = tasks \o Tail(todo) /\ Q = new \o Tail(P)
  OBVIOUS
<1>3. IsPlan(T, Q) /\ Q[1] = P[1]
  BY <1>2, PlanReplaced DEF Working
<1>4. IsPlan(T, Q)'
  BY <1>3, RestStays
<1>5. PICK d, s, q : d = dictionary /\ s = stack /\ q = P[1]
  OBVIOUS
<1>6. Agrees(d)'
  BY <1>5, AgreesStays DEF Agrees
<1>7. Shows(s, q)'
  BY <1>5, ShowsStays
<1>8. Reaches(Q[1])'
  BY <1>3, <1>5, <1>6, <1>7 DEF Reaches
<1>9. memory' \in Seq(Built')
  BY SourceStays
<1>. QED BY <1>1, <1>2, <1>4, <1>8, <1>9 DEF Keeping

(* A nop is replaced by the code after it, which means the same.           *)
LEMMA StripNopKeeps ==
  ASSUME Given, Working, NEW P, IsPlan(todo, P), Agrees(dictionary), Shows(stack, P[1]),
         memory \in Seq(Built), codes = <<>>, StripNop, image' = image,
         UNCHANGED <<source, leftover, memory, stack, register>>
  PROVE  Working' /\ Keeping'
<1>. DEFINE after == Rib(Cel).cdr
            tasks == <<Task("rib", after)>>
            new == <<P[1]>>
<1>1. /\ todo # <<>> /\ Head(todo).kind = "rib" /\ IsCons(Current) /\ NopCode(Cel)
      /\ todo' = tasks \o Tail(todo) /\ UNCHANGED <<counts, dictionary, codes>>
  BY DEF StripNop, Doing, Todo
<1>2. /\ Current = Head(todo).value /\ Current \in Fields /\ Current = Reference(Cel)
      /\ Cel \in SourceCells /\ after \in Fields
      /\ Links(Head(todo), P[1], P[2]) /\ P[1] \in Seq(Fields)
  BY <1>1, HeadTask
<1>3. tasks \in Seq(Tasks) /\ tasks # <<>> /\ Len(tasks) = 1 /\ DOMAIN tasks = {1}
      /\ tasks[1] = Task("rib", after) /\ tasks[1].kind = "rib" /\ tasks[1].value = after
  BY <1>2 DEF Tasks, Kinds, Task
<1>4. Descends(tasks)
  BY <1>3 DEF Descends
<1>5. Children(Cel) = IF IsCons(after) THEN {after.value} ELSE {}
  <2>1. Rib(Cel).car = Number(0) /\ ~IsCons(Rib(Cel).car)
    BY <1>1 DEF NopCode, Number, IsCons
  <2>. QED BY <2>1 DEF Children
<1>6. GroundedTask(tasks[1]) => GroundedTask(Head(todo))
  <2>1. ASSUME GroundedTask(tasks[1])
        PROVE  Cel \in Grounded
    BY <1>2, <1>3, <1>5, <2>1, GroundedGrows DEF GroundedTask
  <2>. QED BY <1>2, <2>1 DEF GroundedTask, Cel
<1>7. IsCons(after) => after.value \in Under(Cel)
  BY <1>2, <1>5, UnderHasChildren
<1>8. Sendable(tasks[1]) /\ Unsent(tasks[1])
  BY <1>3 DEF Sendable, Unsent
<1>9. Links(tasks[1], P[1], P[2])
  <2>1. PICK w \in Fields, r \in Seq(Fields) :
          Leads(w, Current) /\ P[2] = <<w>> \o r /\ P[1] = r
    BY <1>1, <1>2 DEF Links
  <2>2. Leads(w, after)
    BY <1>1, <1>2, <2>1, LeadsOn DEF Cel
  <2>. QED BY <1>3, <2>1, <2>2 DEF Links
<1>10. new \in Seq(Seq(Fields)) /\ Len(new) = Len(tasks) /\ new[1] = P[1]
  BY <1>2, <1>3
<1>. HIDE DEF tasks, new, after
<1>11. /\ (\A i \in DOMAIN tasks : GroundedTask(tasks[i])) => GroundedTask(Head(todo))
       /\ \A i \in DOMAIN tasks : IsCons(tasks[i].value) =>
            /\ IsCons(Current)
            /\ tasks[i].value.value \in {Cel} \cup Under(Cel)
       /\ \A i \in DOMAIN tasks : Sendable(tasks[i]) /\ Unsent(tasks[i])
       /\ \A j \in 1 .. Len(tasks) - 1 : Links(tasks[j], new[j], new[j + 1])
       /\ Links(tasks[Len(tasks)], new[Len(tasks)], P[2])
  BY <1>1, <1>3, <1>6, <1>7, <1>8, <1>9, <1>10
<1>. QED BY <1>1, <1>3, <1>4, <1>10, <1>11, CutKeeps

(* A cell is below its fields in the work, and each of them is its child.    *)
LEMMA FieldsAreUnder ==
  ASSUME Given, NEW c \in SourceCells, NEW v \in {Rib(c).car, Rib(c).cdr}, IsCons(v)
  PROVE  v.value \in Under(c)
<1>1. v.value \in Children(c)
  BY DEF Children
<1>. QED BY <1>1, UnderHasChildren

(* A cell is on no cycle when its fields are not.                          *)
LEMMA CellIsGrounded ==
  ASSUME NEW c \in SourceCells, IsCons(Rib(c).car) => Rib(c).car.value \in Grounded,
         IsCons(Rib(c).cdr) => Rib(c).cdr.value \in Grounded
  PROVE  c \in Grounded
<1>1. Children(c) \subseteq Grounded
  BY DEF Children
<1>. QED BY <1>1, GroundedGrows

(* The cdr of a small cell comes first: its number is in its code.         *)
LEMMA EncodeSmallFieldsKeeps ==
  ASSUME Given, Working, NEW P, IsPlan(todo, P), Agrees(dictionary), Shows(stack, P[1]),
         memory \in Seq(Built), codes = <<>>, EncodeFields, IsSmall(Cel), image' = image,
         UNCHANGED <<source, leftover, memory, stack, register>>
  PROVE  Working' /\ Keeping'
<1>. DEFINE after == Rib(Cel).cdr
            one == Task("rib", after)
            two == Task("small", Current)
            tasks == <<one, two>>
            more == <<after>> \o P[1]
            new == <<P[1], more>>
<1>1. /\ todo # <<>> /\ Head(todo).kind = "rib" /\ IsCons(Current) /\ ~NopCode(Cel)
      /\ todo' = tasks \o Tail(todo) /\ UNCHANGED <<counts, dictionary, codes>>
  BY DEF EncodeFields, Doing, Todo
<1>2. /\ Current = Head(todo).value /\ Current \in Fields /\ Current = Reference(Cel)
      /\ Cel \in SourceCells /\ after \in Fields
      /\ Links(Head(todo), P[1], P[2]) /\ P[1] \in Seq(Fields)
  BY <1>1, HeadTask
<1>3. /\ one \in Tasks /\ one.kind = "rib" /\ one.value = after
      /\ two \in Tasks /\ two.kind = "small" /\ two.value = Current /\ two.value.value = Cel
  BY <1>2 DEF Tasks, Kinds, Task, Cel
<1>4. ~IsCons(Rib(Cel).car) /\ Cel \notin DOMAIN counts
  BY DEF IsSmall
<1>5. IsCons(after) => after.value \in Under(Cel)
  BY <1>2, FieldsAreUnder
<1>6. GroundedTask(one) => GroundedTask(two)
  BY <1>2, <1>3, <1>4, CellIsGrounded DEF GroundedTask
<1>7. GroundedTask(two) => GroundedTask(Head(todo))
  BY <1>2, <1>3 DEF GroundedTask
<1>8. Sendable(one) /\ Unsent(one) /\ Sendable(two) /\ Unsent(two)
  <2>1. Sendable(one) /\ Unsent(one)
    BY <1>3 DEF Sendable, Unsent
  <2>. HIDE DEF two
  <2>2. Sendable(two)
    BY <1>1, <1>3 DEF Sendable
  <2>3. Unsent(two)
    <3>1. two.value.value = Cel /\ Cel \notin DOMAIN counts
      BY <1>3, <1>4, Zenon
    <3>. QED BY ONLY <3>1 DEF Unsent
  <2>. QED BY <2>1, <2>2, <2>3
<1>9. Links(one, P[1], more)
  <2>1. Leads(after, after)
    BY <1>2, LeadsToItself
  <2>. QED BY <1>2, <1>3, <2>1 DEF Links
<1>10. Links(two, more, P[2])
  <2>1. PICK w \in Fields, r \in Seq(Fields) :
          Leads(w, Current) /\ P[2] = <<w>> \o r /\ P[1] = r
    BY <1>1, <1>2 DEF Links
  <2>. QED BY <1>3, <2>1 DEF Links
<1>11. more \in Seq(Fields)
  BY <1>2
<1>. HIDE DEF after, one, two, more
<1>12. tasks \in Seq(Tasks) /\ tasks # <<>> /\ Len(tasks) = 2 /\ DOMAIN tasks = 1 .. 2
       /\ tasks[1] = one /\ tasks[2] = two /\ \A i \in 1 .. 2 : i = 1 \/ i = 2
  BY <1>3
<1>13. Descends(tasks)
  <2>1. \A i \in 1 .. 2 - 1 : i = 1
    OBVIOUS
  <2>2. \A j \in DOMAIN tasks : tasks[j].kind # "rib" => j = 2
    BY <1>3, <1>12
  <2>. HIDE DEF tasks
  <2>. QED BY <1>1, <1>3, <1>5, <1>6, <1>12, <2>1, <2>2 DEF Descends
<1>14. /\ new \in Seq(Seq(Fields)) /\ Len(new) = Len(tasks) /\ new[1] = P[1]
       /\ new[2] = more
  BY <1>2, <1>11, <1>12
<1>. HIDE DEF tasks, new
<1>15. /\ (\A i \in DOMAIN tasks : GroundedTask(tasks[i])) => GroundedTask(Head(todo))
       /\ \A i \in DOMAIN tasks : IsCons(tasks[i].value) =>
            /\ IsCons(Current)
            /\ tasks[i].value.value \in {Cel} \cup Under(Cel)
       /\ \A i \in DOMAIN tasks : Sendable(tasks[i]) /\ Unsent(tasks[i])
  BY <1>1, <1>3, <1>5, <1>7, <1>8, <1>12
<1>16. /\ \A j \in 1 .. Len(tasks) - 1 : Links(tasks[j], new[j], new[j + 1])
       /\ Links(tasks[Len(tasks)], new[Len(tasks)], P[2])
  <2>1. \A j \in 1 .. 2 - 1 : j = 1 /\ j + 1 = 2
    OBVIOUS
  <2>. QED BY <1>9, <1>10, <1>12, <1>14, <2>1
<1>. QED BY <1>1, <1>12, <1>13, <1>14, <1>15, <1>16, CutKeeps

(* Both fields of any other cell come first.                               *)
LEMMA EncodeOtherFieldsKeeps ==
  ASSUME Given, Working, NEW P, IsPlan(todo, P), Agrees(dictionary), Shows(stack, P[1]),
         memory \in Seq(Built), codes = <<>>, EncodeFields, ~IsSmall(Cel), image' = image,
         UNCHANGED <<source, leftover, memory, stack, register>>
  PROVE  Working' /\ Keeping'
<1>. DEFINE first == Rib(Cel).car
            after == Rib(Cel).cdr
            one == Task("rib", first)
            two == Task("rib", after)
            three == Task("shape", Current)
            tasks == <<one, two, three>>
            more == <<first>> \o P[1]
            most == <<after>> \o more
            new == <<P[1], more, most>>
<1>1. /\ todo # <<>> /\ Head(todo).kind = "rib" /\ IsCons(Current) /\ ~NopCode(Cel)
      /\ ~Sent(Cel) /\ todo' = tasks \o Tail(todo) /\ UNCHANGED <<counts, dictionary, codes>>
  BY DEF EncodeFields, Doing, Todo
<1>2. /\ Current = Head(todo).value /\ Current \in Fields /\ Current = Reference(Cel)
      /\ Cel \in SourceCells /\ first \in Fields /\ after \in Fields
      /\ Links(Head(todo), P[1], P[2]) /\ P[1] \in Seq(Fields)
  BY <1>1, HeadTask
<1>3. /\ one \in Tasks /\ one.kind = "rib" /\ one.value = first
      /\ two \in Tasks /\ two.kind = "rib" /\ two.value = after
      /\ three \in Tasks /\ three.kind = "shape" /\ three.value = Current
      /\ three.value.value = Cel
  BY <1>2 DEF Tasks, Kinds, Task, Cel
<1>4. Cel \in DOMAIN counts => Cel \notin Range(dictionary)
  <2>1. dictionary \in Seq(SourceCells)
    BY DEF Working
  <2>2. Cel \in Range(dictionary) => Contains(dictionary, Cel)
    BY <2>1 DEF Range, Contains
  <2>. QED BY <1>1, <2>2 DEF Sent
<1>5. /\ IsCons(first) => first.value \in Under(Cel)
      /\ IsCons(after) => after.value \in Under(Cel)
  BY <1>2, FieldsAreUnder
<1>6. GroundedTask(one) /\ GroundedTask(two) => GroundedTask(three)
  BY <1>2, <1>3, CellIsGrounded DEF GroundedTask
<1>7. GroundedTask(three) => GroundedTask(Head(todo))
  BY <1>2, <1>3 DEF GroundedTask
<1>8. /\ Sendable(one) /\ Unsent(one) /\ Sendable(two) /\ Unsent(two)
      /\ Sendable(three) /\ Unsent(three)
  <2>1. Sendable(one) /\ Unsent(one) /\ Sendable(two) /\ Unsent(two)
    BY <1>3 DEF Sendable, Unsent
  <2>. HIDE DEF three
  <2>2. Sendable(three)
    BY <1>1, <1>3 DEF Sendable
  <2>3. Unsent(three)
    <3>1. /\ three.value.value = Cel
          /\ Cel \in DOMAIN counts => Cel \notin Range(dictionary)
      BY <1>3, <1>4
    <3>. QED BY ONLY <3>1 DEF Unsent
  <2>. QED BY <2>1, <2>2, <2>3
<1>9. more \in Seq(Fields) /\ most \in Seq(Fields)
  <2>1. PICK q, a, b : q = P[1] /\ a = first /\ b = after
    OBVIOUS
  <2>2. q \in Seq(Fields) /\ a \in Fields /\ b \in Fields
    BY <1>2, <2>1
  <2>3. <<a>> \o q \in Seq(Fields) /\ <<b>> \o (<<a>> \o q) \in Seq(Fields)
    BY ONLY <2>2
  <2>. QED BY <2>1, <2>3
<1>10. Links(one, P[1], more) /\ Links(two, more, most)
  <2>1. Leads(first, first) /\ Leads(after, after)
    BY <1>2, LeadsToItself, Zenon
  <2>2. Links(one, P[1], more)
    BY <1>2, <1>3, <2>1 DEF Links
  <2>. HIDE DEF more
  <2>3. Links(two, more, most)
    BY <1>2, <1>3, <1>9, <2>1 DEF Links
  <2>. QED BY <2>2, <2>3
<1>11. Links(three, most, P[2])
  <2>1. PICK w \in Fields, r \in Seq(Fields) :
          Leads(w, Current) /\ P[2] = <<w>> \o r /\ P[1] = r
    BY <1>1, <1>2 DEF Links
  <2>. QED BY <1>3, <2>1 DEF Links
<1>. HIDE DEF first, after, one, two, three, more, most
<1>12. tasks \in Seq(Tasks) /\ tasks # <<>> /\ Len(tasks) = 3 /\ DOMAIN tasks = 1 .. 3
       /\ tasks[1] = one /\ tasks[2] = two /\ tasks[3] = three
       /\ \A i \in 1 .. 3 : i = 1 \/ i = 2 \/ i = 3
  BY <1>3
<1>13. Descends(tasks)
  <2>1. /\ \A i \in 1 .. 3 - 1 : i = 1 \/ i = 2
        /\ 1 \in 1 .. 3 - 1 /\ 2 \in 1 .. 3 - 1
    OBVIOUS
  <2>2. \A j \in DOMAIN tasks : tasks[j].kind # "rib" => j = 3
    BY <1>3, <1>12
  <2>. HIDE DEF tasks
  <2>. QED BY <1>1, <1>3, <1>5, <1>6, <1>12, <2>1, <2>2 DEF Descends
<1>14. /\ new \in Seq(Seq(Fields)) /\ Len(new) = Len(tasks) /\ new[1] = P[1]
       /\ new[2] = more /\ new[3] = most
  BY <1>2, <1>9, <1>12
<1>. HIDE DEF tasks, new
<1>15. /\ (\A i \in DOMAIN tasks : GroundedTask(tasks[i])) => GroundedTask(Head(todo))
       /\ \A i \in DOMAIN tasks : IsCons(tasks[i].value) =>
            /\ IsCons(Current)
            /\ tasks[i].value.value \in {Cel} \cup Under(Cel)
       /\ \A i \in DOMAIN tasks : Sendable(tasks[i]) /\ Unsent(tasks[i])
  BY <1>1, <1>3, <1>5, <1>7, <1>8, <1>12
<1>16. /\ \A j \in 1 .. Len(tasks) - 1 : Links(tasks[j], new[j], new[j + 1])
       /\ Links(tasks[Len(tasks)], new[Len(tasks)], P[2])
  <2>1. \A j \in 1 .. 3 - 1 : (j = 1 /\ j + 1 = 2) \/ (j = 2 /\ j + 1 = 3)
    OBVIOUS
  <2>. QED BY <1>10, <1>11, <1>12, <1>14, <2>1
<1>. QED BY <1>1, <1>12, <1>13, <1>14, <1>15, <1>16, CutKeeps

(* All of the encoder.                                                     *)
LEMMA EncodingKeeps ==
  ASSUME Given, Working, Keeping, codes = <<>>, Encoding,
         image' = IF Doing("small") \/ Doing("shape")
                  THEN With(image, Cel, Len(memory) + 1) ELSE image,
         UNCHANGED <<source, leftover, memory, stack, register>>
  PROVE  Working' /\ Keeping'
<1>1. PICK P : IsPlan(todo, P) /\ Reaches(P[1])
  BY DEF Keeping
<1>2. memory \in Seq(Built) /\ Agrees(dictionary) /\ Shows(stack, P[1])
  BY <1>1 DEF Keeping, Reaches, InFlight, Sharing
<1>3. CASE EncodeNumber
  BY <1>1, <1>2, <1>3, EncodeNumberKeeps DEF EncodeNumber, Doing
<1>4. CASE StripNop
  BY <1>1, <1>2, <1>4, StripNopKeeps DEF StripNop, Doing
<1>5. CASE EncodeFields
  BY <1>1, <1>2, <1>5, EncodeSmallFieldsKeeps, EncodeOtherFieldsKeeps DEF EncodeFields, Doing
<1>6. CASE EncodeSmall
  BY <1>1, <1>2, <1>6, EncodeSmallKeeps DEF EncodeSmall
<1>7. CASE EncodeShape
  BY <1>1, <1>2, <1>7, EncodeShapeKeeps DEF EncodeShape
<1>8. CASE EncodeReuse
  BY <1>1, <1>2, <1>8, EncodeReuseKeeps DEF EncodeReuse, Doing
<1>. QED BY <1>3, <1>4, <1>5, <1>6, <1>7, <1>8 DEF Encoding

-----------------------------------------------------------------------------
(* The decoder. What it does to the plan's next stack.                      *)

(* Facts of the state before a step, for the state after it.               *)
PushShows ==
  \A s, p : \A x \in Decoded, v \in Fields :
    Shows(s, p) /\ Means(x, v) => Shows(<<x>> \o s, <<v>> \o p)

RelatedMeans ==
  \A m, c : c \in SourceCells /\ <<m, c>> \in Related => Means(Reference(m), Reference(c))

MeansOnTheWay ==
  \A w, v \in Fields : \A x : Leads(w, v) /\ Means(x, v) => Means(x, w)

(* As lemmas of any state.                                                 *)
LEMMA PushedAlways == PushShows
BY Pushed DEF PushShows

(* A number means itself, and a cell that is related to a cell means it.     *)
LEMMA NumberMeans == \A v \in Fields : ~IsCons(v) => Means(v, v)
BY LeadsToItself DEF Means, MeansIn

LEMMA RelatedMeansAlways == RelatedMeans
<1>1. \A c \in SourceCells : Reference(c) \in Fields /\ IsCons(Reference(c))
                             /\ Reference(c).value = c
  BY DEF Fields, Reference, IsCons
<1>2. \A r \in Related : r[1] \in DOMAIN memory
  BY RelatedUnfolds DEF Pairs
<1>. QED BY <1>1, <1>2, LeadsToItself DEF RelatedMeans, Means, MeansIn

LEMMA MeansBeforeAlways == MeansOnTheWay
BY MeansBefore DEF MeansOnTheWay

(* A cell built from what means a cell's fields means the cell.            *)
LEMMA BuiltShows ==
  ASSUME UNCHANGED <<source, leftover>>, memory \in Seq(Built), NEW cell \in Built,
         memory' = Append(memory, cell), NEW c \in SourceCells, ~NopCode(c),
         cell = Cell(cell.car, cell.cdr, Rib(c).tag),
         Means(cell.car, Rib(c).car), Means(cell.cdr, Rib(c).cdr),
         NEW s, NEW r, Shows(s, r), NEW w \in Fields, Leads(w, Reference(c)),
         stack' = <<Reference(Len(memory) + 1)>> \o s
  PROVE  /\ memory' \in Seq(Built') /\ Related \subseteq Related'
         /\ <<Len(memory) + 1, c>> \in Related'
         /\ \A q : q = <<w>> \o r => Shows(stack, q)'
<1>1. /\ Fields' = Fields /\ SourceCells' = SourceCells /\ Decoded' = Decoded /\ Built' = Built
      /\ \A v, u : Leads(v, u)' <=> Leads(v, u)
  BY SourceStays
<1>2. /\ memory' \in Seq(Built) /\ Related \subseteq Related'
      /\ \A x, v : Means(x, v) => Means(x, v)'
      /\ <<Len(memory) + 1, c>> \in Related'
  BY MeaningGrows
<1>3. PICK n, x : n = Len(memory) + 1 /\ x = Reference(n) /\ n \in Nat
  OBVIOUS
<1>4. Means(x, Reference(c))'
  <2>1. RelatedMeans'
    BY RelatedMeansAlways, PTL
  <2>2. c \in SourceCells'
    BY <1>1
  <2>. QED BY <1>2, <1>3, <2>1, <2>2 DEF RelatedMeans
<1>5. Means(x, w)'
  <2>1. MeansOnTheWay'
    BY MeansBeforeAlways, PTL
  <2>2. Reference(c) \in Fields
    BY DEF Fields
  <2>. QED BY <1>1, <1>4, <2>1, <2>2 DEF MeansOnTheWay
<1>6. Shows(s, r)'
  BY <1>1, <1>2 DEF Shows
<1>7. x \in Decoded
  BY <1>3 DEF Decoded
<1>8. Shows(<<x>> \o s, <<w>> \o r)'
  <2>1. PushShows'
    BY PushedAlways, PTL
  <2>. QED BY <1>1, <1>5, <1>6, <1>7, <2>1 DEF PushShows
<1>9. ASSUME NEW q, q = <<w>> \o r
      PROVE  Shows(stack, q)'
  <2>1. PICK t : t = <<x>> \o s
    OBVIOUS
  <2>2. stack' = t /\ Shows(t, q)'
    BY <1>3, <1>8, <1>9, <2>1
  <2>. QED BY <2>2
<1>. QED BY <1>1, <1>2, <1>9

(* Dictionaries agree still when cells are added.                          *)
LEMMA AgreesGrows ==
  ASSUME UNCHANGED <<source, leftover, register, image>>, Related \subseteq Related',
         NEW d, Agrees(d)
  PROVE  Agrees(d)'
BY SourceStays DEF Agrees, Images

(* Where the values of the plan are.                                        *)
LEMMA InFields ==
  ASSUME Given, NEW t \in Tasks, Sendable(t), t.kind # "rib"
  PROVE  /\ t.value = Reference(t.value.value) /\ t.value.value \in SourceCells
         /\ ~NopCode(t.value.value)
         /\ Rib(t.value.value).car \in Fields /\ Rib(t.value.value).cdr \in Fields
<1>1. t.value \in Fields /\ IsCons(t.value) /\ ~NopCode(t.value.value)
  BY DEF Sendable, Tasks
<1>2. t.value = Reference(t.value.value) /\ t.value.value \in SourceCells
  BY <1>1, FieldsTell
<1>. QED BY <1>1, <1>2 DEF Fields

(* Unless a cell waits to be shared, what is read is of a task.            *)
LEMMA SentMeans ==
  ASSUME Given, NEW P, IsPlan(todo, P), Reaches(P[1]), codes # <<>>, Code.kind # "share"
  PROVE  \E t \in Tasks, p \in Seq(Fields) :
           Sendable(t) /\ InFlight(t) /\ Links(t, p, P[1]) /\ Shows(stack, p)
<1>1. ~Sharing
  <2>1. ASSUME Sharing
        PROVE  Code.kind = "share"
    <3>1. codes = <<[kind |-> "share", value |-> 0]>>
      BY <2>1 DEF Sharing
    <3>. QED BY <3>1 DEF Code
  <2>. QED BY <2>1
<1>. QED BY <1>1 DEF Reaches

(* What is in flight is of the kind that its first code says.               *)
LEMMA KindTells ==
  ASSUME NEW t \in Tasks, InFlight(t)
  PROVE  /\ codes # <<>>
         /\ Code.kind = "number" => t.kind = "rib" /\ ~IsCons(t.value)
         /\ Code.kind = "small" => t.kind = "small"
         /\ Code.kind = "shape" => t.kind = "shape"
         /\ Code.kind = "reuse" => t.kind = "rib" /\ IsCons(t.value)
         /\ Code.kind # "share"
BY DEF InFlight, Code

(* All is read, and the plan stands.                                        *)
LEMMA CaughtUp ==
  ASSUME UNCHANGED <<source, leftover, todo>>, memory' \in Seq(Built'),
         NEW P, IsPlan(todo, P), codes' = <<>>, Agrees(dictionary)',
         \A q : q = P[1] => Shows(stack, q)'
  PROVE  Keeping'
<1>1. PICK T : T = todo
  OBVIOUS
<1>2. IsPlan(todo, P)'
  BY <1>1, RestStays
<1>3. Reaches(P[1])'
  <2>1. PICK q : q = P[1]
    OBVIOUS
  <2>2. Reaches(q)'
    BY <2>1 DEF Reaches
  <2>. QED BY <2>1, <2>2
<1>. QED BY <1>2, <1>3 DEF Keeping

(* The decoder, one lemma for each action. A number is pushed.             *)
LEMMA DecodeNumberKeeps ==
  ASSUME Given, NEW P, IsPlan(todo, P), Reaches(P[1]), memory \in Seq(Built),
         DecodeNumber, codes' = Tail(codes),
         UNCHANGED <<source, leftover, encoderVars, image>>
  PROVE  Keeping'
<1>1. codes # <<>> /\ Code.kind = "number" /\ stack' = <<Number(Code.value)>> \o stack
      /\ UNCHANGED <<memory, register, todo, dictionary>>
  BY DEF DecodeNumber, Reading, encoderVars
<1>2. PICK t \in Tasks, p \in Seq(Fields) :
        Sendable(t) /\ InFlight(t) /\ Links(t, p, P[1]) /\ Shows(stack, p)
  BY <1>1, SentMeans
<1>3. t.kind = "rib" /\ ~IsCons(t.value)
  BY <1>1, <1>2, KindTells
<1>4. Agrees(dictionary) /\ codes = <<[kind |-> "number", value |-> t.value.value]>>
  BY <1>2, <1>3 DEF InFlight
<1>5. t.value \in Fields /\ t.value = Number(Code.value)
  <2>1. t.value \in Fields
    BY DEF Tasks
  <2>. QED BY <1>3, <1>4, <2>1, FieldsTell DEF Code
<1>6. PICK w \in Fields : Leads(w, t.value) /\ P[1] = <<w>> \o p
  BY <1>2, <1>3 DEF Links
<1>7. Means(t.value, w)
  BY <1>3, <1>5, <1>6, NumberMeans, MeansBefore
<1>8. Shows(<<t.value>> \o stack, P[1])
  BY <1>2, <1>5, <1>6, <1>7, Pushed DEF Decoded
<1>9. PICK d, s : d = dictionary /\ s = <<t.value>> \o stack
  OBVIOUS
<1>10. Agrees(d)' /\ \A q : q = P[1] => Shows(s, q)'
  BY <1>1, <1>4, <1>8, <1>9, AgreesStays, ShowsStays DEF Agrees
<1>11. s = stack' /\ d = dictionary' /\ codes' = <<>>
  BY <1>1, <1>4, <1>5, <1>9
<1>12. memory' \in Seq(Built')
  BY <1>1, SourceStays
<1>. QED BY <1>1, <1>10, <1>11, <1>12, CaughtUp

(* A small cell is built of the value on top,                              *)
LEMMA DecodeSmallKeeps ==
  ASSUME Given, NEW P, IsPlan(todo, P), Reaches(P[1]), memory \in Seq(Built),
         DecodeSmall, codes' = Tail(codes),
         UNCHANGED <<source, leftover, encoderVars, image>>
  PROVE  Keeping'
<1>1. PICK cell : cell = Cell(Number(Code.value), Head(stack), 0)
  OBVIOUS
<1>2. /\ codes # <<>> /\ Code.kind = "small" /\ memory' = Append(memory, cell)
      /\ stack' = <<Reference(Len(memory) + 1)>> \o Tail(stack)
      /\ UNCHANGED <<register, todo, dictionary>>
  BY <1>1 DEF DecodeSmall, Build, Reading, encoderVars
<1>3. PICK t \in Tasks, p \in Seq(Fields) :
        Sendable(t) /\ InFlight(t) /\ Links(t, p, P[1]) /\ Shows(stack, p)
  BY <1>2, SentMeans
<1>4. PICK c : c = t.value.value
  OBVIOUS
<1>5. t.kind = "small" /\ IsSmall(c)
  BY <1>2, <1>3, <1>4, KindTells DEF Sendable
<1>6. Agrees(dictionary) /\ codes = <<[kind |-> "small", value |-> Rib(c).car.value]>>
  BY <1>3, <1>4, <1>5 DEF InFlight
<1>7. /\ t.value = Reference(c) /\ c \in SourceCells /\ ~NopCode(c)
      /\ Rib(c).car \in Fields /\ Rib(c).cdr \in Fields
  BY <1>3, <1>4, <1>5, InFields
<1>8. PICK w \in Fields, r \in Seq(Fields) :
        Leads(w, t.value) /\ P[1] = <<w>> \o r /\ p = <<Rib(c).cdr>> \o r
  BY <1>3, <1>4, <1>5 DEF Links
<1>9. /\ Head(stack) \in Decoded /\ Means(Head(stack), Rib(c).cdr)
      /\ Shows(Tail(stack), r)
  BY <1>3, <1>7, <1>8, Popped
<1>10. Rib(c).car = Number(Code.value) /\ ~IsCons(Rib(c).car) /\ Rib(c).tag = 0
  <2>1. ~IsCons(Rib(c).car) /\ Rib(c).tag = 0
    BY <1>5 DEF IsSmall
  <2>2. Code.value = Rib(c).car.value
    BY <1>6 DEF Code
  <2>. QED BY <1>7, <2>1, <2>2, FieldsTell
<1>11. cell = [car |-> Rib(c).car, cdr |-> Head(stack), tag |-> 0]
  BY <1>1, <1>10 DEF Cell
<1>12. cell \in Built
  BY <1>7, <1>9, <1>11 DEF Built, Decoded, Tags
<1>13. cell = Cell(cell.car, cell.cdr, Rib(c).tag)
  BY <1>10, <1>11 DEF Cell
<1>14. Means(cell.car, Rib(c).car) /\ Means(cell.cdr, Rib(c).cdr)
  BY <1>7, <1>9, <1>10, <1>11, NumberMeans
<1>15. PICK s : s = Tail(stack)
  OBVIOUS
<1>16. /\ memory' \in Seq(Built') /\ Related \subseteq Related'
       /\ \A q : q = <<w>> \o r => Shows(stack, q)'
  BY <1>2, <1>7, <1>8, <1>9, <1>12, <1>13, <1>14, <1>15, BuiltShows
<1>17. PICK d : d = dictionary
  OBVIOUS
<1>18. Agrees(d)' /\ d = dictionary' /\ codes' = <<>>
  BY <1>2, <1>6, <1>16, <1>17, AgreesGrows
<1>. QED BY <1>2, <1>8, <1>16, <1>18, CaughtUp

(* another one of the two values on top.                                   *)
LEMMA DecodeShapeKeeps ==
  ASSUME Given, NEW P, IsPlan(todo, P), Reaches(P[1]), memory \in Seq(Built),
         DecodeShape, codes' = Tail(codes),
         UNCHANGED <<source, leftover, encoderVars, image>>
  PROVE  Keeping'
<1>1. PICK cell : cell = Cell(stack[2], stack[1], Code.value)
  OBVIOUS
<1>2. /\ codes # <<>> /\ Code.kind = "shape" /\ memory' = Append(memory, cell)
      /\ stack' = <<Reference(Len(memory) + 1)>> \o Tail(Tail(stack))
      /\ UNCHANGED <<register, todo, dictionary>>
  BY <1>1 DEF DecodeShape, Build, Reading, encoderVars
<1>3. PICK t \in Tasks, p \in Seq(Fields) :
        Sendable(t) /\ InFlight(t) /\ Links(t, p, P[1]) /\ Shows(stack, p)
  BY <1>2, SentMeans
<1>4. PICK c : c = t.value.value
  OBVIOUS
<1>5. t.kind = "shape"
  BY <1>2, <1>3, KindTells
<1>6. \/ Agrees(dictionary) /\ codes = <<[kind |-> "shape", value |-> Rib(c).tag]>>
      \/ \E d : /\ Agrees(d) /\ dictionary = <<c>> \o d
                /\ codes = <<[kind |-> "shape", value |-> Rib(c).tag],
                             [kind |-> "share", value |-> 0]>>
                /\ c \in DOMAIN image /\ image[c] = Len(memory) + 1
  BY <1>3, <1>4, <1>5 DEF InFlight
<1>7. /\ t.value = Reference(c) /\ c \in SourceCells /\ ~NopCode(c)
      /\ Rib(c).car \in Fields /\ Rib(c).cdr \in Fields
  BY <1>3, <1>4, <1>5, InFields
<1>8. PICK w \in Fields, r \in Seq(Fields) :
        /\ Leads(w, t.value) /\ P[1] = <<w>> \o r
        /\ p = <<Rib(c).cdr>> \o (<<Rib(c).car>> \o r)
  BY <1>3, <1>4, <1>5 DEF Links
<1>9. PICK r2 \in Seq(Fields) : r2 = <<Rib(c).car>> \o r
  <2>1. <<Rib(c).car>> \o r \in Seq(Fields)
    BY <1>7
  <2>. QED BY <2>1
<1>10. PICK s, s2 : s2 = Tail(stack) /\ s = Tail(s2)
  OBVIOUS
<1>11. /\ stack \in Seq(Decoded) /\ stack # <<>> /\ stack[1] \in Decoded
       /\ Means(stack[1], Rib(c).cdr) /\ Shows(s2, r2)
  BY <1>3, <1>7, <1>8, <1>9, <1>10, Popped DEF Shows
<1>12. s2 # <<>> /\ s2[1] \in Decoded /\ Means(s2[1], Rib(c).car) /\ Shows(s, r)
  BY <1>7, <1>9, <1>10, <1>11, Popped
<1>13. s2[1] = stack[2]
  BY <1>10, <1>11, <1>12
<1>14. Code.value = Rib(c).tag
  BY <1>6 DEF Code
<1>15. cell = [car |-> stack[2], cdr |-> stack[1],
              tag |-> IF IsCons(stack[1]) THEN Rib(c).tag ELSE 0]
  BY <1>1, <1>14 DEF Cell
<1>16. cell \in Built
  BY <1>7, <1>11, <1>12, <1>13, <1>15 DEF Built, Tags
<1>17. cell = Cell(cell.car, cell.cdr, Rib(c).tag)
  BY <1>15 DEF Cell
<1>18. Means(cell.car, Rib(c).car) /\ Means(cell.cdr, Rib(c).cdr)
  BY <1>11, <1>12, <1>13, <1>15
<1>19. stack' = <<Reference(Len(memory) + 1)>> \o s
  BY <1>2, <1>10
<1>20. /\ memory' \in Seq(Built') /\ Related \subseteq Related'
       /\ <<Len(memory) + 1, c>> \in Related'
       /\ \A q : q = <<w>> \o r => Shows(stack, q)'
  BY <1>2, <1>7, <1>8, <1>12, <1>16, <1>17, <1>18, <1>19, BuiltShows
<1>21. CASE Agrees(dictionary) /\ codes = <<[kind |-> "shape", value |-> Rib(c).tag]>>
  <2>1. PICK d : d = dictionary
    OBVIOUS
  <2>2. Agrees(d)' /\ d = dictionary' /\ codes' = <<>>
    BY <1>2, <1>20, <1>21, <2>1, AgreesGrows
  <2>. QED BY <1>2, <1>8, <1>20, <2>2, CaughtUp
<1>22. ASSUME NEW d, Agrees(d), dictionary = <<c>> \o d,
              codes = <<[kind |-> "shape", value |-> Rib(c).tag], [kind |-> "share", value |-> 0]>>,
              c \in DOMAIN image, image[c] = Len(memory) + 1
       PROVE  Keeping'
  <2>1. Agrees(d)' /\ codes' = <<[kind |-> "share", value |-> 0]>>
    BY <1>2, <1>20, <1>22, AgreesGrows
  <2>2. stack' # <<>> /\ Head(stack') = Reference(image'[c])
    <3>1. s \in Seq(Decoded)
      BY <1>12 DEF Shows
    <3>. QED BY <1>19, <1>22, <3>1
  <2>3. dictionary' = <<c>> \o d /\ c \in DOMAIN image' /\ <<image'[c], c>> \in Related'
    BY <1>2, <1>20, <1>22
  <2>4. Sharing'
    BY <2>1, <2>2, <2>3 DEF Sharing
  <2>5. PICK q, T : q = P[1] /\ T = todo
    OBVIOUS
  <2>6. Reaches(q)' /\ IsPlan(todo, P)'
    BY <1>2, <1>8, <1>20, <2>4, <2>5, RestStays DEF Reaches
  <2>. QED BY <1>20, <2>5, <2>6 DEF Keeping
<1>. QED BY <1>6, <1>21, <1>22

(* The decoder's dictionary, when a cell is added to the encoder's or taken  *)
(* out.                                                                    *)
LEMMA ImagesAre ==
  ASSUME Given, NEW d \in Seq(SourceCells)
  PROVE  \E V : /\ Images(d) \in Seq(V) /\ leftover \in Seq(V) /\ Len(Images(d)) = Len(d)
                /\ \A i \in 1 .. Len(d) : Images(d)[i] = Reference(image[d[i]])
                /\ \A c \in SourceCells : Reference(image[c]) \in V
<1>. DEFINE V == {Reference(image[c]) : c \in SourceCells} \cup Range(leftover)
<1>1. leftover \in Seq(V)
  <2>1. leftover \in Seq(Range(leftover))
    BY LeftoversAssumption DEF Given
  <2>. QED BY <2>1
<1>2. /\ Images(d) \in Seq(V) /\ Len(Images(d)) = Len(d)
      /\ \A i \in 1 .. Len(d) : Images(d)[i] = Reference(image[d[i]])
  BY DEF Images
<1>3. \A c \in SourceCells : Reference(image[c]) \in V
  OBVIOUS
<1>. HIDE DEF V
<1>. QED BY <1>1, <1>2, <1>3

(* A cell in front of the encoder's is its image in front here.            *)
LEMMA ImagesAdd ==
  ASSUME Given, NEW d \in Seq(SourceCells), NEW c \in SourceCells
  PROVE  Images(<<c>> \o d) \o leftover = <<Reference(image[c])>> \o (Images(d) \o leftover)
<1>1. PICK D : D = <<c>> \o d
  OBVIOUS
<1>2. /\ D \in Seq(SourceCells) /\ Len(D) = Len(d) + 1 /\ Len(d) \in Nat
      /\ D[1] = c /\ \A i \in 2 .. Len(d) + 1 : D[i] = d[i - 1]
  BY <1>1
<1>3. PICK f, g, x : f = Images(d) /\ g = Images(D) /\ x = Reference(image[c])
  OBVIOUS
<1>4. PICK V : /\ f \in Seq(V) /\ leftover \in Seq(V) /\ Len(f) = Len(d) /\ x \in V
               /\ \A i \in 1 .. Len(d) : f[i] = Reference(image[d[i]])
  BY <1>3, ImagesAre
<1>5. /\ Len(g) = Len(D) /\ \A i \in 1 .. Len(D) : g[i] = Reference(image[D[i]])
      /\ DOMAIN g = 1 .. Len(D)
  BY <1>2, <1>3, ImagesAre DEF Images
<1>6. ASSUME NEW i \in 2 .. Len(d) + 1
      PROVE  g[i] = f[i - 1] /\ i - 1 \in 1 .. Len(d)
  <2>1. i - 1 \in 1 .. Len(d) /\ i \in 1 .. Len(D)
    BY <1>2
  <2>2. g[i] = Reference(image[D[i]]) /\ D[i] = d[i - 1]
    BY <1>2, <1>5, <2>1
  <2>. QED BY <1>4, <2>1, <2>2
<1>7. g[1] = x
  <2>1. 1 \in 1 .. Len(D) /\ D[1] = c
    BY <1>2
  <2>. QED BY <1>3, <1>5, <2>1
<1>8. g \in Seq(V)
  <2>1. \A i \in 1 .. Len(d) + 1 : i = 1 \/ i \in 2 .. Len(d) + 1
    BY <1>2
  <2>2. \A i \in 1 .. Len(d) + 1 : g[i] \in V
    BY <1>4, <1>6, <1>7, <2>1
  <2>3. g = [i \in 1 .. Len(d) + 1 |-> g[i]]
    BY <1>2, <1>3, <1>5 DEF Images
  <2>. QED BY <1>2, <2>2, <2>3
<1>9. g = <<x>> \o f
  <2>1. /\ <<x>> \o f \in Seq(V) /\ Len(<<x>> \o f) = Len(d) + 1
        /\ (<<x>> \o f)[1] = x /\ \A i \in 2 .. Len(d) + 1 : (<<x>> \o f)[i] = f[i - 1]
    BY <1>2, <1>4
  <2>2. \A i \in 1 .. Len(d) + 1 : i = 1 \/ i \in 2 .. Len(d) + 1
    BY <1>2
  <2>3. \A i \in 1 .. Len(d) + 1 : g[i] = (<<x>> \o f)[i]
    BY <1>6, <1>7, <2>1, <2>2
  <2>. QED BY <1>2, <1>5, <1>8, <2>1, <2>3, SameSequence
<1>10. <<x>> \o (f \o leftover) = (<<x>> \o f) \o leftover
  <2>1. <<x>> \in Seq(V) /\ f \in Seq(V) /\ leftover \in Seq(V)
    BY <1>4
  <2>. QED BY <2>1
<1>. QED BY <1>1, <1>3, <1>9, <1>10

(* The same place is the same value, and goes from both.                   *)
LEMMA ImagesRemove ==
  ASSUME Given, NEW d \in Seq(SourceCells), NEW k \in 1 .. Len(d)
  PROVE  /\ (Images(d) \o leftover)[k] = Reference(image[d[k]])
         /\ RemoveAt(Images(d) \o leftover, k) = Images(RemoveAt(d, k)) \o leftover
<1>1. PICK f, r, g, l : /\ f = Images(d) /\ r = RemoveAt(d, k) /\ g = Images(r) /\ l = leftover
  OBVIOUS
<1>2. PICK V : /\ f \in Seq(V) /\ l \in Seq(V) /\ Len(f) = Len(d)
               /\ \A i \in 1 .. Len(d) : f[i] = Reference(image[d[i]])
               /\ \A c \in SourceCells : Reference(image[c]) \in V
  BY <1>1, ImagesAre
<1>3. /\ r \in Seq(SourceCells) /\ Len(r) = Len(d) - 1
      /\ \A i \in 1 .. Len(d) - 1 : r[i] = IF i < k THEN d[i] ELSE d[i + 1]
  BY <1>1, Removed
<1>4. Len(d) \in Nat /\ k \in Nat /\ 1 <= k /\ k <= Len(d) /\ Len(l) \in Nat
  BY <1>2
<1>5. g = [i \in 1 .. Len(d) - 1 |-> Reference(image[r[i]])]
  BY <1>1, <1>3 DEF Images
<1>6. g \in Seq(V) /\ Len(g) = Len(d) - 1
  <2>1. \A i \in 1 .. Len(d) - 1 : r[i] \in SourceCells
    BY <1>3
  <2>. DEFINE n == Len(d) - 1
              e == [i \in 1 .. n |-> Reference(image[r[i]])]
  <2>2. n \in Nat
    BY <1>4
  <2>3. \A i \in 1 .. n : Reference(image[r[i]]) \in V
    BY <1>2, <2>1
  <2>. HIDE DEF n
  <2>4. e \in Seq(V) /\ Len(e) = n
    BY <2>2, <2>3
  <2>. HIDE DEF e
  <2>5. g = e
    BY <1>5 DEF e, n
  <2>. QED BY <2>4, <2>5 DEF n
<1>7. PICK u : u = f \o l
  OBVIOUS
<1>8. /\ u \in Seq(V) /\ Len(u) = Len(d) + Len(l) /\ k \in 1 .. Len(u)
      /\ \A i \in 1 .. Len(d) : u[i] = f[i]
      /\ \A i \in 1 .. Len(l) : u[Len(d) + i] = l[i]
  <2>1. f \in Seq(V) /\ l \in Seq(V)
    BY <1>2
  <2>2. /\ u \in Seq(V) /\ Len(u) = Len(f) + Len(l)
        /\ \A i \in 1 .. Len(f) : u[i] = f[i]
        /\ \A i \in 1 .. Len(l) : u[Len(f) + i] = l[i]
    BY ONLY <1>7, <2>1
  <2>. QED BY <1>2, <1>4, <2>2
<1>9. PICK v : v = RemoveAt(u, k)
  OBVIOUS
<1>10. /\ v \in Seq(V) /\ Len(v) = Len(d) + Len(l) - 1
       /\ \A i \in 1 .. Len(d) + Len(l) - 1 : v[i] = IF i < k THEN u[i] ELSE u[i + 1]
  <2>1. /\ v \in Seq(V) /\ Len(v) = Len(u) - 1
        /\ \A i \in 1 .. Len(u) - 1 : v[i] = IF i < k THEN u[i] ELSE u[i + 1]
    BY <1>8, <1>9, Removed, Zenon
  <2>. QED BY <1>8, <2>1
<1>11. PICK w : w = g \o l
  OBVIOUS
<1>12. /\ w \in Seq(V) /\ Len(w) = Len(d) - 1 + Len(l)
       /\ \A i \in 1 .. Len(d) - 1 : w[i] = g[i]
       /\ \A i \in 1 .. Len(l) : w[Len(d) - 1 + i] = l[i]
  <2>1. g \in Seq(V) /\ l \in Seq(V)
    BY <1>2, <1>6
  <2>2. /\ w \in Seq(V) /\ Len(w) = Len(g) + Len(l)
        /\ \A i \in 1 .. Len(g) : w[i] = g[i]
        /\ \A i \in 1 .. Len(l) : w[Len(g) + i] = l[i]
    BY ONLY <1>11, <2>1
  <2>. QED BY <1>6, <2>2
<1>13. ASSUME NEW i \in 1 .. Len(d) + Len(l) - 1
       PROVE  v[i] = w[i]
  <2>1. CASE i \in 1 .. Len(d) - 1
    <3>1. w[i] = Reference(image[r[i]])
      BY <1>5, <1>12, <2>1
    <3>2. i \in 1 .. Len(d) /\ i + 1 \in 1 .. Len(d)
      BY <1>4, <2>1
    <3>3. v[i] = IF i < k THEN f[i] ELSE f[i + 1]
      BY <1>8, <1>10, <3>2
    <3>. QED BY <1>2, <1>3, <2>1, <3>1, <3>2, <3>3
  <2>2. CASE i \notin 1 .. Len(d) - 1
    <3>1. PICK j : j = i - (Len(d) - 1)
      OBVIOUS
    <3>2. /\ j \in 1 .. Len(l) /\ i = Len(d) - 1 + j /\ i + 1 = Len(d) + j /\ ~(i < k)
      BY <1>4, <2>2, <3>1
    <3>3. v[i] = u[i + 1] /\ u[i + 1] = l[j] /\ w[i] = l[j]
      BY <1>8, <1>10, <1>12, <3>2
    <3>. QED BY <3>3
  <2>. QED BY <2>1, <2>2
<1>14. v = w
  <2>1. Len(v) = Len(w) /\ \A i \in 1 .. Len(v) : v[i] = w[i]
    BY <1>4, <1>10, <1>12, <1>13
  <2>. QED BY <1>10, <1>12, <2>1, SameSequence
<1>. QED BY <1>1, <1>2, <1>7, <1>8, <1>9, <1>11, <1>14

(* The cell on top is what the encoder has put in front.                   *)
LEMMA DecodeShareKeeps ==
  ASSUME Given, NEW P, IsPlan(todo, P), Reaches(P[1]), memory \in Seq(Built),
         DecodeShare, codes' = Tail(codes),
         UNCHANGED <<source, leftover, encoderVars, image>>, dictionary \in Seq(SourceCells)
  PROVE  Keeping'
<1>1. /\ codes # <<>> /\ Code.kind = "share" /\ register' = <<Head(stack)>> \o register
      /\ UNCHANGED <<memory, stack, todo, dictionary>>
  BY DEF DecodeShare, Reading, encoderVars
<1>2. Sharing /\ Shows(stack, P[1])
  BY <1>1, KindTells DEF Reaches
<1>3. PICK d, c : /\ codes = <<[kind |-> "share", value |-> 0]>>
                  /\ Agrees(d) /\ dictionary = <<c>> \o d
                  /\ c \in DOMAIN image /\ <<image[c], c>> \in Related
                  /\ stack # <<>> /\ Head(stack) = Reference(image[c])
  BY <1>2 DEF Sharing
<1>4. PICK D : D = dictionary
  OBVIOUS
<1>5. /\ d \in Seq(SourceCells) /\ Len(d) \in Nat /\ DOMAIN d = 1 .. Len(d)
      /\ D \in Seq(SourceCells) /\ DOMAIN D = 1 .. Len(d) + 1 /\ Len(D) = Len(d) + 1
      /\ D[1] = c /\ \A i \in 1 .. Len(d) : D[i + 1] = d[i]
  BY <1>3, <1>4 DEF Agrees
<1>6. \A e \in Range(D) : e \in DOMAIN image /\ <<image[e], e>> \in Related
  <2>1. \A i \in DOMAIN D : D[i] = c \/ D[i] \in Range(d)
    <3>1. \A i \in 1 .. Len(d) : d[i] \in Range(d)
      BY <1>5 DEF Range
    <3>2. \A i \in 1 .. Len(d) + 1 : i = 1 \/ \E j \in 1 .. Len(d) : i = j + 1
      <4>1. ASSUME NEW i \in 1 .. Len(d) + 1, i # 1
            PROVE  i - 1 \in 1 .. Len(d) /\ i = (i - 1) + 1
        BY <1>5, <4>1
      <4>. QED BY <4>1
    <3>3. ASSUME NEW i \in 1 .. Len(d) + 1  PROVE D[i] = c \/ D[i] \in Range(d)
      <4>1. CASE i = 1
        BY <1>5, <4>1
      <4>2. CASE i # 1
        <5>1. PICK j \in 1 .. Len(d) : i = j + 1
          BY <3>2, <4>2
        <5>. QED BY <1>5, <3>1, <5>1
      <4>. QED BY <4>1, <4>2
    <3>. QED BY <1>5, <3>3
  <2>. QED BY <1>3, <2>1 DEF Range, Agrees
<1>7. register' = Images(D)' \o leftover
  <2>1. Images(D)' = Images(D)
    BY DEF Images
  <2>2. register = Images(d) \o leftover /\ c \in SourceCells
    BY <1>3, <1>5 DEF Agrees
  <2>3. Images(<<c>> \o d) \o leftover = <<Reference(image[c])>> \o (Images(d) \o leftover)
    BY <1>5, <2>2, ImagesAdd
  <2>. QED BY <1>1, <1>3, <1>4, <2>1, <2>2, <2>3
<1>8. Agrees(D)'
  <2>1. SourceCells' = SourceCells /\ Related' = Related
    BY <1>1, SourceStays, MeaningStays
  <2>. QED BY <1>5, <1>6, <1>7, <2>1 DEF Agrees
<1>9. PICK s : s = stack
  OBVIOUS
<1>10. \A q : q = P[1] => Shows(s, q)'
  BY <1>1, <1>2, <1>9, ShowsStays
<1>11. D = dictionary' /\ s = stack' /\ codes' = <<>>
  BY <1>1, <1>3, <1>4, <1>9
<1>12. memory' \in Seq(Built')
  BY <1>1, SourceStays
<1>. QED BY <1>1, <1>8, <1>10, <1>11, <1>12, CaughtUp

(* The value at the place of the code is that of the task.                 *)
LEMMA DecodeReuseKeeps ==
  ASSUME Given, NEW P, IsPlan(todo, P), Reaches(P[1]), memory \in Seq(Built),
         DecodeReuse, codes' = Tail(codes),
         UNCHANGED <<source, leftover, encoderVars, image>>
  PROVE  Keeping'
<1>1. /\ codes # <<>> /\ Code.kind = "reuse"
      /\ LET index == Code.value \div 2
             front == <<register[index + 1]>> \o RemoveAt(register, index + 1)
         IN /\ stack' = <<Head(front)>> \o stack
            /\ register' = IF Code.value % 2 = 0 THEN Tail(front) ELSE front
      /\ UNCHANGED <<memory, todo, dictionary>>
  BY DEF DecodeReuse, Reading, encoderVars
<1>2. PICK t \in Tasks, p \in Seq(Fields) :
        Sendable(t) /\ InFlight(t) /\ Links(t, p, P[1]) /\ Shows(stack, p)
  BY <1>1, SentMeans
<1>3. PICK c : c = t.value.value
  OBVIOUS
<1>4. t.kind = "rib" /\ IsCons(t.value)
  BY <1>1, <1>2, KindTells
<1>5. PICK d : \E k \in 1 .. Len(d) :
        /\ Agrees(d) /\ d[k] = c
        /\ \/ /\ codes = <<[kind |-> "reuse", value |-> 2 * (k - 1)]>>
              /\ dictionary = RemoveAt(d, k)
           \/ /\ codes = <<[kind |-> "reuse", value |-> 2 * (k - 1) + 1]>>
              /\ dictionary = <<c>> \o RemoveAt(d, k)
  <2>1. codes # <<[kind |-> "number", value |-> t.value.value]>> \/ IsCons(t.value)
    BY <1>4
  <2>. QED BY <1>2, <1>3, <1>4 DEF InFlight
<1>6. PICK k \in 1 .. Len(d) :
        /\ Agrees(d) /\ d[k] = c
        /\ \/ /\ codes = <<[kind |-> "reuse", value |-> 2 * (k - 1)]>>
              /\ dictionary = RemoveAt(d, k)
           \/ /\ codes = <<[kind |-> "reuse", value |-> 2 * (k - 1) + 1]>>
              /\ dictionary = <<c>> \o RemoveAt(d, k)
  BY <1>5
<1>7. PICK r, D : r = RemoveAt(d, k) /\ D = dictionary
  OBVIOUS
<1>8. /\ d \in Seq(SourceCells) /\ r \in Seq(SourceCells) /\ c \in SourceCells
      /\ k - 1 \in Nat
      /\ Len(r) = Len(d) - 1 /\ Len(d) \in Nat
      /\ \A i \in 1 .. Len(d) - 1 : r[i] = IF i < k THEN d[i] ELSE d[i + 1]
  <2>1. d \in Seq(SourceCells)
    BY <1>6 DEF Agrees
  <2>2. k - 1 \in Nat /\ Len(d) \in Nat /\ d[k] \in SourceCells
    BY <2>1
  <2>. QED BY <1>6, <1>7, <2>1, <2>2, Removed
<1>9. PICK x, rest : x = Reference(image[c]) /\ rest = Images(r) \o leftover
  OBVIOUS
<1>10. register[k] = x /\ RemoveAt(register, k) = rest
  BY <1>6, <1>7, <1>8, <1>9, ImagesRemove DEF Agrees
<1>11. PICK V : rest \in Seq(V) /\ x \in V
  <2>1. PICK V : /\ Images(r) \in Seq(V) /\ leftover \in Seq(V)
                 /\ \A e \in SourceCells : Reference(image[e]) \in V
    BY <1>8, ImagesAre
  <2>2. rest \in Seq(V)
    BY <1>9, <2>1
  <2>. QED BY <1>8, <1>9, <2>1, <2>2
<1>12. Head(<<x>> \o rest) = x /\ Tail(<<x>> \o rest) = rest
  BY <1>11, OnTop, Zenon
<1>13. /\ stack' = <<x>> \o stack
       /\ \/ D = r /\ register' = rest
          \/ D = <<c>> \o r /\ register' = <<x>> \o rest
  <2>1. CASE codes = <<[kind |-> "reuse", value |-> 2 * (k - 1)]>> /\ D = r
    <3>1. Code.value = 2 * (k - 1)
      BY <2>1 DEF Code
    <3>2. Code.value \div 2 + 1 = k /\ Code.value % 2 = 0
      <4>1. PICK n \in Nat : n = k - 1
        BY <1>8
      <4>2. (2 * n) \div 2 = n /\ (2 * n) % 2 = 0
        BY ONLY n \in Nat
      <4>. QED BY <3>1, <4>1, <4>2
    <3>3. register[Code.value \div 2 + 1] = x /\ RemoveAt(register, Code.value \div 2 + 1) = rest
      BY <1>10, <3>2, Zenon
    <3>. QED BY <1>1, <1>12, <2>1, <3>2, <3>3
  <2>2. CASE codes = <<[kind |-> "reuse", value |-> 2 * (k - 1) + 1]>> /\ D = <<c>> \o r
    <3>1. Code.value = 2 * (k - 1) + 1
      BY <2>2 DEF Code
    <3>2. Code.value \div 2 + 1 = k /\ Code.value % 2 # 0
      <4>1. PICK n \in Nat : n = k - 1
        BY <1>8
      <4>2. (2 * n + 1) \div 2 = n /\ (2 * n + 1) % 2 = 1
        BY ONLY n \in Nat
      <4>. QED BY <3>1, <4>1, <4>2
    <3>3. register[Code.value \div 2 + 1] = x /\ RemoveAt(register, Code.value \div 2 + 1) = rest
      BY <1>10, <3>2, Zenon
    <3>. QED BY <1>1, <1>12, <2>2, <3>2, <3>3
  <2>3. \/ codes = <<[kind |-> "reuse", value |-> 2 * (k - 1)]>> /\ D = r
        \/ codes = <<[kind |-> "reuse", value |-> 2 * (k - 1) + 1]>> /\ D = <<c>> \o r
    BY <1>6, <1>7, Zenon
  <2>. QED BY <2>1, <2>2, <2>3, Zenon
<1>14. c \in Range(d) /\ c \in DOMAIN image /\ <<image[c], c>> \in Related
  BY <1>6, <1>8, RangeIs DEF Agrees
<1>15. /\ D \in Seq(SourceCells) /\ register' = Images(D) \o leftover
       /\ Range(D) \subseteq Range(d)
  <2>1. \A i \in 1 .. Len(d) : d[i] \in Range(d)
    BY <1>8, RangeIs
  <2>2. \A i \in 1 .. Len(d) - 1 : r[i] \in Range(d)
    <3>1. \A i \in 1 .. Len(d) - 1 : i \in 1 .. Len(d) /\ i + 1 \in 1 .. Len(d)
      BY <1>8
    <3>2. \A i \in 1 .. Len(d) - 1 : r[i] = d[i] \/ r[i] = d[i + 1]
      BY <1>8, Zenon
    <3>. QED BY <2>1, <3>1, <3>2, Zenon
  <2>3. Range(r) \subseteq Range(d)
    BY <1>8, <2>2, RangeIs
  <2>4. CASE D = r /\ register' = rest
    BY <1>8, <1>9, <2>3, <2>4
  <2>5. CASE D = <<c>> \o r /\ register' = <<x>> \o rest
    <3>1. /\ D \in Seq(SourceCells) /\ Len(D) = Len(r) + 1 /\ D[1] = c
          /\ \A i \in 1 .. Len(r) + 1 : i = 1 \/ (i - 1 \in 1 .. Len(r) /\ D[i] = r[i - 1])
      BY <1>8, <2>5
    <3>2. Range(D) \subseteq Range(d)
      <4>1. \A i \in 1 .. Len(r) + 1 : D[i] \in Range(d)
        BY <1>8, <1>14, <2>2, <3>1
      <4>. QED BY <3>1, <4>1, RangeIs
    <3>3. register' = Images(D) \o leftover
      BY <1>8, <1>9, <2>5, ImagesAdd
    <3>. QED BY <3>1, <3>2, <3>3
  <2>. QED BY <1>13, <2>4, <2>5
<1>16. Agrees(D)'
  <2>1. SourceCells' = SourceCells /\ Related' = Related
    BY <1>1, SourceStays, MeaningStays
  <2>2. Images(D)' = Images(D)
    BY DEF Images
  <2>. QED BY <1>6, <1>15, <2>1, <2>2 DEF Agrees
<1>17. PICK s : s = <<x>> \o stack
  OBVIOUS
<1>18. Shows(s, P[1])
  <2>1. PICK w \in Fields : Leads(w, t.value) /\ P[1] = <<w>> \o p
    BY <1>2, <1>4 DEF Links
  <2>2. t.value = Reference(c) /\ Reference(c) \in Fields
    <3>1. t.value \in Fields
      BY DEF Tasks
    <3>. QED BY <1>3, <1>4, <3>1, FieldsTell
  <2>3. Means(x, Reference(c))
    BY <1>8, <1>9, <1>14, RelatedMeansAlways DEF RelatedMeans
  <2>4. Means(x, w)
    <3>1. Leads(w, Reference(c))
      BY <2>1, <2>2
    <3>. QED BY <2>1, <2>2, <2>3, <3>1, MeansBefore
  <2>5. x \in Decoded
    <3>1. image[c] \in DOMAIN memory
      BY <1>14, RelatedUnfolds DEF Pairs
    <3>2. image[c] \in Nat
      BY <3>1
    <3>. QED BY ONLY <1>9, <3>2 DEF Decoded
  <2>6. Shows(<<x>> \o stack, <<w>> \o p)
    BY <1>2, <2>1, <2>4, <2>5, PushedAlways, Zenon DEF PushShows
  <2>. QED BY <1>17, <2>1, <2>6
<1>19. \A q : q = P[1] => Shows(s, q)'
  <2>1. UNCHANGED <<source, leftover, memory>>
    BY <1>1
  <2>2. PICK q : q = P[1] /\ Shows(s, q)
    BY <1>18, Zenon
  <2>3. Shows(s, q)'
    BY ONLY <2>1, <2>2, ShowsStays, Zenon
  <2>. QED BY <2>2, <2>3, Zenon
<1>20. D = dictionary' /\ s = stack' /\ codes' = <<>> /\ memory' \in Seq(Built')
  <2>1. \E code : codes = <<code>>
    BY <1>6, Zenon
  <2>2. codes' = <<>>
    BY <2>1
  <2>3. memory' \in Seq(Built')
    BY <1>1, SourceStays
  <2>. QED BY <1>1, <1>7, <1>13, <1>17, <2>2, <2>3
<1>. QED BY <1>1, <1>16, <1>19, <1>20, CaughtUp

(* The decoder leaves the encoder's work alone.                             *)
LEMMA WorkStays ==
  ASSUME Working, UNCHANGED <<source, leftover, encoderVars>>
  PROVE  Working'
<1>1. UNCHANGED <<counts, dictionary, todo>>
  BY DEF encoderVars
<1>2. /\ SourceCells' = SourceCells /\ Grounded' = Grounded /\ Tasks' = Tasks
      /\ \A T : Descends(T)' <=> Descends(T)
      /\ \A t : Sendable(t)' <=> Sendable(t)
  BY <1>1, SourceStays, RestStays, SendableStays
<1>3. PICK T : T = todo
  OBVIOUS
<1>4. T = todo' /\ T \in Seq(Tasks) /\ Descends(T)
  BY <1>1, <1>3 DEF Working
<1>5. \A i \in DOMAIN T : Sendable(T[i]) /\ Unsent(T[i])
  BY <1>3 DEF Working
<1>6. \A t : Unsent(t)' <=> Unsent(t)
  BY <1>1 DEF Unsent
<1>7. \A i \in DOMAIN T : Sendable(T[i])' /\ Unsent(T[i])'
  BY <1>2, <1>5, <1>6
<1>8. /\ dictionary' \in Seq(SourceCells)
      /\ Range(dictionary') \subseteq (DOMAIN counts') \cap Grounded
  BY <1>1 DEF Working
<1>. QED BY <1>2, <1>4, <1>7, <1>8 DEF Working

(* All of the decoder.                                                     *)
LEMMA DecodingKeeps ==
  ASSUME Given, Working, Keeping, Decoding
  PROVE  Working' /\ Keeping'
<1>1. codes' = Tail(codes) /\ UNCHANGED <<source, leftover, encoderVars, image>>
  BY DEF Decoding
<1>2. Working'
  BY <1>1, WorkStays
<1>3. PICK P : IsPlan(todo, P) /\ Reaches(P[1])
  BY DEF Keeping
<1>4. memory \in Seq(Built) /\ dictionary \in Seq(SourceCells)
  BY DEF Keeping, Working
<1>5. CASE DecodeSmall
  BY <1>1, <1>2, <1>3, <1>4, <1>5, DecodeSmallKeeps
<1>6. CASE DecodeShare
  BY <1>1, <1>2, <1>3, <1>4, <1>6, DecodeShareKeeps
<1>7. CASE DecodeReuse
  BY <1>1, <1>2, <1>3, <1>4, <1>7, DecodeReuseKeeps
<1>8. CASE DecodeShape
  BY <1>1, <1>2, <1>3, <1>4, <1>8, DecodeShapeKeeps
<1>9. CASE DecodeNumber
  BY <1>1, <1>2, <1>3, <1>4, <1>9, DecodeNumberKeeps
<1>. QED BY <1>2, <1>5, <1>6, <1>7, <1>8, <1>9 DEF Decoding

-----------------------------------------------------------------------------
(* The whole run. The first task of the encoder is to send the root, to a    *)
(* machine whose lists hold what an earlier run left.                       *)
LEMMA StartKeeps ==
  ASSUME Kept, StartEncoding, UNCHANGED <<source, leftover, codes, decoderVars, loaded>>
  PROVE  Working' /\ Keeping'
<1>1. /\ dictionary = <<>> /\ codes = <<>> /\ memory = <<>> /\ stack = leftover
      /\ register = leftover /\ Given
  BY DEF Kept, StartEncoding
<1>2. PICK v, t, T : /\ v = Reference(source.root) /\ t = Task("rib", v) /\ T = <<t>>
                     /\ todo' = T
  BY DEF StartEncoding
<1>3. UNCHANGED <<dictionary, memory, stack, register, image, codes, source, leftover>>
  BY DEF StartEncoding, decoderVars
<1>4. source.root \in SourceCells /\ v \in Fields /\ v = Reference(source.root)
  BY <1>1, <1>2, SourcesAssumption DEF Given, SourceCells, Fields
<1>5. t \in Tasks /\ t.kind = "rib" /\ t.value = v
  BY <1>2, <1>4 DEF Task, Tasks, Kinds
<1>6. T \in Seq(Tasks) /\ Len(T) = 1 /\ DOMAIN T = {1} /\ T[1] = t
  BY <1>2, <1>5
<1>7. Descends(T)
  BY <1>5, <1>6 DEF Descends
<1>8. /\ SourceCells' = SourceCells /\ Grounded' = Grounded /\ Tasks' = Tasks
      /\ Fields' = Fields
      /\ \A U : Descends(U)' <=> Descends(U)
      /\ \A U, Q : IsPlan(U, Q)' <=> IsPlan(U, Q)
  BY <1>3, SourceStays, RestStays
<1>9. Working'
  <2>1. Sendable(t)' /\ Unsent(t)'
    BY <1>5 DEF Sendable, Unsent
  <2>2. dictionary' = <<>> /\ Range(dictionary') = {}
    BY <1>1, <1>3 DEF Range
  <2>. QED BY <1>2, <1>6, <1>7, <1>8, <2>1, <2>2 DEF Working
<1>10. PICK p, q, P : p = <<>> /\ q = <<v>> /\ P = <<p, q>>
  OBVIOUS
<1>11. IsPlan(T, P) /\ P[1] = p
  <2>1. p \in Seq(Fields) /\ q \in Seq(Fields) /\ q = <<v>> \o p
    BY <1>4, <1>10
  <2>2. PICK V : V = Seq(Fields)
    OBVIOUS
  <2>3. /\ P \in Seq(V) /\ Len(P) = 2 /\ P[1] = p /\ P[2] = q
    BY <1>10, <2>1, <2>2
  <2>4. Links(t, p, q)
    BY <1>4, <1>5, <2>1, LeadsToItself DEF Links
  <2>. QED BY <1>4, <1>6, <1>10, <2>2, <2>3, <2>4 DEF IsPlan
<1>12. Reaches(p)'
  <2>1. leftover \in Seq(Range(leftover))
    BY <1>1, LeftoversAssumption DEF Given
  <2>2. Shows(leftover, p)
    BY <1>10, <2>1 DEF Shows, Decoded
  <2>3. Agrees(dictionary)
    <3>1. Images(<<>>) = <<>> /\ Range(<<>>) = {} /\ <<>> \o leftover = leftover
      BY <2>1 DEF Images, Range
    <3>2. PICK e : e = <<>> /\ e \in Seq(SourceCells)
      <4>1. <<>> \in Seq(SourceCells)
        OBVIOUS
      <4>. QED BY <4>1
    <3>3. Agrees(e)
      BY <1>1, <3>1, <3>2 DEF Agrees
    <3>. QED BY <1>1, <3>2, <3>3
  <2>4. PICK d, s : d = dictionary /\ s = leftover
    OBVIOUS
  <2>5. Agrees(d)' /\ Shows(s, p)'
    <3>1. \A c \in Range(d) : c \in DOMAIN image' /\ image'[c] = image[c]
      BY <1>1, <2>4 DEF Range
    <3>. QED BY <1>3, <2>2, <2>3, <2>4, <3>1, AgreesStays, ShowsStays
  <2>6. d = dictionary' /\ s = stack' /\ codes' = <<>>
    BY <1>1, <1>3, <2>4
  <2>. QED BY <2>5, <2>6 DEF Reaches
<1>13. Keeping'
  <2>1. memory' \in Seq(Built')
    BY <1>1, <1>3
  <2>. QED BY <1>2, <1>8, <1>11, <1>12, <2>1 DEF Keeping
<1>. QED BY <1>9, <1>13

(* At the end nothing is left of the plan but the root.                     *)
LEMMA FinishUnfolds ==
  ASSUME Given, Keeping, Finish
  PROVE  Unfolded'
<1>1. /\ todo = <<>> /\ codes = <<>> /\ loaded' = Head(stack)
      /\ UNCHANGED <<source, leftover, memory>>
  BY DEF Finish
<1>2. PICK P : IsPlan(todo, P) /\ Reaches(P[1])
  BY DEF Keeping
<1>3. Shows(stack, P[1])
  BY <1>1, <1>2 DEF Reaches, InFlight, Sharing
<1>4. P[1] = <<Reference(source.root)>>
  BY <1>1, <1>2 DEF IsPlan
<1>5. Means(Head(stack), Reference(source.root))
  <2>1. stack \in Seq(Decoded) /\ 1 <= Len(stack) /\ Means(stack[1], Reference(source.root))
    BY <1>3, <1>4 DEF Shows
  <2>. QED BY <2>1
<1>6. PICK x, v : x = Head(stack) /\ v = Reference(source.root)
  OBVIOUS
<1>7. Means(x, v)'
  BY <1>1, <1>5, <1>6, MeaningStays
<1>. QED BY <1>1, <1>6, <1>7 DEF Unfolded

(* Before the encoder starts and after it ends nothing changes.            *)
LEMMA KeptStays ==
  ASSUME UNCHANGED <<source, leftover>>, Kept, phase' = phase, codes' = codes,
         UNCHANGED <<dictionary, memory, stack, register, loaded>>, phase # "encode"
  PROVE  Kept'
<1>1. Given' /\ Unfolded => Unfolded'
  <2>1. PICK x, v : x = loaded /\ v = Reference(source.root)
    OBVIOUS
  <2>2. Means(x, v) => Means(x, v)'
    BY MeaningStays
  <2>. QED BY <2>1, <2>2 DEF Unfolded
<1>2. Given'
  BY RestStays DEF Kept
<1>. QED BY <1>1, <1>2 DEF Kept

LEMMA FollowingStays ==
  ASSUME Given, Keeping,
         UNCHANGED <<source, leftover, encoderVars, codes, decoderVars>>
  PROVE  Keeping'
<1>1. UNCHANGED <<phase, todo, counts, dictionary, memory, stack, register, image>>
  BY DEF encoderVars, decoderVars
<1>2. PICK d, s, T : /\ d = dictionary /\ s = stack /\ T = todo
                     /\ d = dictionary' /\ s = stack' /\ T = todo'
  BY <1>1
<1>3. /\ \A e : Agrees(e) => Agrees(e)'
      /\ \A p : Shows(s, p) => Shows(s, p)'
  <2>1. ASSUME NEW e, Agrees(e)
        PROVE  Agrees(e)'
    BY <1>1, <2>1, AgreesStays DEF Agrees
  <2>2. ASSUME NEW p, Shows(s, p)
        PROVE  Shows(s, p)'
    BY <1>1, <2>2, ShowsStays
  <2>. QED BY <2>1, <2>2
<1>4. /\ \A t : Sendable(t) => Sendable(t)'
      /\ \A t, p, q : Links(t, p, q) => Links(t, p, q)'
      /\ \A P : IsPlan(T, P) => IsPlan(T, P)'
      /\ Tasks' = Tasks /\ Fields' = Fields /\ Related' = Related /\ Built' = Built
      /\ \A c : Rib(c)' = Rib(c) /\ (NopCode(c)' <=> NopCode(c))
  BY <1>1, SendableStays, RestStays, SourceStays, MeaningStays
<1>5. \A t : InFlight(t) => InFlight(t)'
  <2>. SUFFICES ASSUME NEW t, InFlight(t)
                PROVE  InFlight(t)'
    OBVIOUS
  <2>. QED BY <1>1, <1>2, <1>3, <1>4 DEF InFlight
<1>6. Sharing => Sharing'
  BY <1>1, <1>2, <1>3, <1>4 DEF Sharing
<1>7. PICK P : IsPlan(T, P) /\ Reaches(P[1])
  BY <1>2 DEF Keeping
<1>8. PICK q : q = P[1]
  OBVIOUS
<1>9. Reaches(q)'
  <2>1. CASE codes = <<>> /\ Agrees(d) /\ Shows(s, q)
    BY <1>1, <1>2, <1>3, <2>1 DEF Reaches
  <2>2. CASE \E t \in Tasks, p \in Seq(Fields) :
               Sendable(t) /\ InFlight(t) /\ Links(t, p, q) /\ Shows(s, p)
    BY <1>2, <1>3, <1>4, <1>5, <2>2 DEF Reaches
  <2>3. CASE Sharing /\ Shows(s, q)
    BY <1>2, <1>3, <1>6, <2>3 DEF Reaches
  <2>. QED BY <1>2, <1>7, <1>8, <2>1, <2>2, <2>3 DEF Reaches
<1>10. memory' \in Seq(Built') /\ IsPlan(todo, P)'
  BY <1>1, <1>2, <1>4, <1>7 DEF Keeping
<1>. QED BY <1>8, <1>9, <1>10 DEF Keeping

(* The invariant holds.                                                    *)
LEMMA KeptAlways == Spec => []Kept
<1>1. Init => Kept
  BY DEF Init, Kept, Given
<1>2. ASSUME Kept, [Next]_vars
      PROVE  Kept'
  <2>. Given
    BY <1>2 DEF Kept
  <2>1. CASE Steps /\ UNCHANGED <<source, leftover, codes, decoderVars, loaded>>
    <3>1. CASE Counting
      <4>1. phase = "count"
        BY <3>1 DEF Counting, CountNumber, CountData, Increment, CountCode, CountNop
      <4>. QED BY <1>2, <2>1, <3>1, <4>1, KeptStays DEF Counting, decoderVars
    <3>2. CASE StartEncoding
      <4>1. Working' /\ Keeping'
        BY <1>2, <2>1, <3>2, StartKeeps
      <4>2. Given' /\ phase' = "encode"
        BY <2>1, <3>2, RestStays DEF StartEncoding
      <4>. QED BY <4>1, <4>2 DEF Kept
    <3>. QED BY <2>1, <3>1, <3>2 DEF Steps
  <2>2. CASE /\ codes = <<>> /\ Encoding
             /\ image' = IF Doing("small") \/ Doing("shape")
                         THEN With(image, Cel, Len(memory) + 1) ELSE image
             /\ UNCHANGED <<source, leftover, memory, stack, register, loaded>>
    <3>1. phase = "encode" /\ phase' = phase
      BY <2>2 DEF Encoding, EncodeNumber, StripNop, EncodeFields, EncodeSmall, EncodeShape,
                  EncodeReuse
    <3>2. Working' /\ Keeping'
      BY <1>2, <2>2, <3>1, EncodingKeeps DEF Kept
    <3>. QED BY <2>2, <3>1, <3>2, RestStays DEF Kept
  <2>3. CASE Decoding
    <3>1. phase = "encode" /\ phase' = phase /\ UNCHANGED <<source, leftover>>
      <4>1. codes # <<>>
        BY <2>3 DEF Decoding, DecodeSmall, DecodeShare, DecodeReuse, DecodeShape, DecodeNumber,
                    Reading
      <4>. QED BY <1>2, <2>3, <4>1 DEF Kept, Decoding, encoderVars
    <3>2. Working' /\ Keeping'
      BY <1>2, <2>3, <3>1, DecodingKeeps DEF Kept
    <3>. QED BY <3>1, <3>2, RestStays DEF Kept
  <2>4. CASE Finish
    <3>1. phase = "encode" /\ phase' \in {"done", "failed"} /\ UNCHANGED <<source, leftover>>
      BY <2>4 DEF Finish
    <3>2. Unfolded' /\ codes' = <<>>
      BY <1>2, <2>4, <3>1, FinishUnfolds DEF Kept, Finish
    <3>. QED BY <3>1, <3>2, RestStays DEF Kept
  <2>5. CASE UNCHANGED vars
    <3>1. /\ UNCHANGED <<source, leftover, encoderVars, codes, decoderVars, loaded>>
          /\ UNCHANGED <<phase, todo, counts, dictionary, memory, stack, register, image>>
      BY <2>5 DEF vars, encoderVars, decoderVars
    <3>2. CASE phase = "encode"
      <4>1. Working'
        BY <1>2, <3>1, <3>2, WorkStays DEF Kept
      <4>2. Keeping'
        BY <1>2, <3>1, <3>2, FollowingStays DEF Kept
      <4>. QED BY <3>1, <3>2, <4>1, <4>2, RestStays DEF Kept
    <3>3. CASE phase # "encode"
      BY <1>2, <3>1, <3>3, KeptStays
    <3>. QED BY <3>2, <3>3
  <2>. QED BY <1>2, <2>1, <2>2, <2>3, <2>4, <2>5 DEF Next
<1>. QED BY <1>1, <1>2, PTL DEF Spec

(* The two ends agree: whenever the decoder of vm.rs has read all that       *)
(* `encode` wrote, its dictionary holds the decoded cells of the encoder's   *)
(* in the same order on top of what was there, for every source.            *)
THEOREM DictionariesStayEqual == Spec => []DictionariesAgree
<1>1. Kept => DictionariesAgree
  <2>. SUFFICES ASSUME Kept, codes = <<>>, phase = "encode"
                PROVE  register = Images(dictionary) \o leftover
    BY DEF DictionariesAgree, Images
  <2>1. PICK P : Reaches(P[1])
    BY DEF Kept, Keeping
  <2>2. Agrees(dictionary)
    BY <2>1 DEF Reaches, InFlight, Sharing
  <2>. QED BY <2>2 DEF Agrees
<1>. QED BY <1>1, KeptAlways, PTL

(* The program arrives: whatever decode_ribs returns when the encoder has    *)
(* written all unfolds to what the source's root unfolds to without nops,    *)
(* with the same types, for every source and whatever was counted.          *)
THEOREM ProgramUnfolds == Spec => [](phase \in {"done", "failed"} => Unfolded)
<1>1. Kept => (phase \in {"done", "failed"} => Unfolded)
  BY DEF Kept
<1>. QED BY <1>1, KeptAlways, PTL

-----------------------------------------------------------------------------
(* Bytes.                                                                  *)

(* The recursive functions of the writer are what their definitions say.     *)
LEMMA TailOf ==
  /\ EncodeIntegerTail \in [Nat -> Seq(Nat)]
  /\ \A n \in Nat :
       EncodeIntegerTail[n] =
         IF n = 0 THEN <<>>
         ELSE <<Digits(n, IntegerBase)>> \o EncodeIntegerTail[n \div IntegerBase]
<1>. DEFINE last == {0}
            down == [n \in Nat |-> n \div 128]
            start == [n \in Nat |-> <<>>]
            step == [p \in Nat \X Seq(Nat) |-> <<Digits(p[1], 128)>> \o p[2]]
<1>1. \A n \in Nat : n \div 128 \in Nat /\ (n # 0 => n \div 128 < n) /\ Digits(n, 128) \in Nat
  BY DEF Digits, IntegerPart, More
<1>2. down \in [Nat -> Nat] /\ \A n \in Nat \ last : down[n] < n
  BY <1>1
<1>3. start \in [Nat -> Seq(Nat)]
  OBVIOUS
<1>4. step \in [Nat \X Seq(Nat) -> Seq(Nat)]
  <2>1. \A n \in Nat, s \in Seq(Nat) : <<Digits(n, 128)>> \o s \in Seq(Nat)
    BY <1>1, SMTT(30)
  <2>. QED BY <2>1
<1>5. /\ \A n \in Nat : down[n] = n \div 128 /\ start[n] = <<>>
      /\ \A n \in Nat, s \in Seq(Nat) : step[<<n, s>>] = <<Digits(n, 128)>> \o s
  OBVIOUS
<1>. HIDE DEF down, start, step, last
<1>6. PICK f : IsDescent(f, Seq(Nat), last, down, start, step)
  BY <1>2, <1>3, <1>4, DescentRuns
<1>. DEFINE Unfolds(g) ==
       g = [n \in Nat |-> IF n = 0 THEN <<>>
                          ELSE <<Digits(n, IntegerBase)>> \o g[n \div IntegerBase]]
<1>7. f \in [Nat -> Seq(Nat)]
  BY <1>6 DEF IsDescent
<1>8. ASSUME NEW n \in Nat
      PROVE  f[n] = IF n = 0 THEN <<>> ELSE <<Digits(n, 128)>> \o f[n \div 128]
  <2>1. f[n] = IF n = 0 THEN start[n] ELSE step[<<n, f[down[n]]>>]
    BY <1>6 DEF IsDescent, Descent, last
  <2>2. f[down[n]] \in Seq(Nat)
    BY <1>2, <1>7
  <2>3. down[n] = n \div 128 /\ start[n] = <<>>
        /\ step[<<n, f[down[n]]>>] = <<Digits(n, 128)>> \o f[down[n]]
    BY <1>5, <2>2, ZenonT(30)
  <2>. QED BY <2>1, <2>3, Zenon
<1>9. Unfolds(f)
  <2>1. f = [n \in Nat |-> f[n]]
    BY <1>7
  <2>. QED BY <1>8, <2>1 DEF IntegerBase
<1>10. Unfolds(EncodeIntegerTail)
  <2>1. EncodeIntegerTail = CHOOSE g : Unfolds(g)
    BY DEF EncodeIntegerTail
  <2>. HIDE DEF Unfolds
  <2>. QED BY <1>9, <2>1
<1>. DEFINE g == EncodeIntegerTail
<1>. HIDE DEF g
<1>11. Unfolds(g)
  BY <1>10 DEF g
<1>12. \A n \in Nat : g[n] = IF n = 0 THEN <<>> ELSE <<Digits(n, 128)>> \o g[n \div 128]
  BY <1>11 DEF IntegerBase
<1>13. ASSUME NEW n \in Nat  PROVE f[n] = g[n]
  <2>. DEFINE Bad == {i \in Nat : f[i] # g[i]}
  <2>1. SUFFICES ASSUME Bad # {}  PROVE FALSE
    OBVIOUS
  <2>2. PICK i \in Bad : \A j \in Bad : i <= j
    <3>1. Bad \subseteq Nat
      OBVIOUS
    <3>. HIDE DEF Bad
    <3>. QED BY <2>1, <3>1, LeastNumber
  <2>3. i \in Nat /\ f[i] # g[i]
    BY <2>2
  <2>4. i # 0
    BY <1>8, <1>12, <2>3
  <2>5. i \div 128 \in Nat /\ i \div 128 < i
    BY <1>1, <2>3, <2>4
  <2>6. f[i \div 128] = g[i \div 128]
    <3>1. i \div 128 \notin Bad
      <4>. HIDE DEF Bad
      <4>. QED BY <2>2, <2>3, <2>5
    <3>. QED BY <2>5, <3>1
  <2>7. /\ f[i] = IF i = 0 THEN <<>> ELSE <<Digits(i, 128)>> \o f[i \div 128]
        /\ g[i] = IF i = 0 THEN <<>> ELSE <<Digits(i, 128)>> \o g[i \div 128]
    BY <1>8, <1>12, <2>3
  <2>. QED BY <2>3, <2>6, <2>7, Zenon
<1>14. g \in [Nat -> Seq(Nat)]
  <2>1. g = [n \in Nat |-> g[n]]
    BY <1>11
  <2>2. \A n \in Nat : g[n] \in Seq(Nat)
    BY <1>7, <1>13
  <2>. QED BY <2>1, <2>2
<1>. QED BY <1>12, <1>14 DEF g, IntegerBase

LEMMA LogTyped ==
  /\ \A n \in Nat : Log[n] \in Nat
  /\ \A n \in Nat : Log[n] = IF n < 2 THEN 0 ELSE 1 + Log[n \div 2]
<1>. DEFINE last == {0, 1}
            down == [n \in Nat |-> n \div 2]
            start == [n \in Nat |-> 0]
            step == [p \in Nat \X Nat |-> 1 + p[2]]
<1>1. \A n \in Nat : n \div 2 \in Nat /\ (n \notin last => n \div 2 < n)
  OBVIOUS
<1>2. down \in [Nat -> Nat] /\ \A n \in Nat \ last : down[n] < n
  BY <1>1
<1>3. start \in [Nat -> Nat] /\ step \in [Nat \X Nat -> Nat]
  OBVIOUS
<1>4. /\ \A n \in Nat : down[n] = n \div 2 /\ start[n] = 0
      /\ \A n, m \in Nat : step[<<n, m>>] = 1 + m
  OBVIOUS
<1>5. \A n \in Nat : n \in last <=> n < 2
  OBVIOUS
<1>. HIDE DEF down, start, step, last
<1>6. PICK f : IsDescent(f, Nat, last, down, start, step)
  BY <1>2, <1>3, DescentRuns
<1>. DEFINE Unfolds(g) == g = [n \in Nat |-> IF n < 2 THEN 0 ELSE 1 + g[n \div 2]]
<1>7. Unfolds(f)
  <2>1. f \in [Nat -> Nat]
    BY <1>6 DEF IsDescent
  <2>2. ASSUME NEW n \in Nat  PROVE f[n] = IF n < 2 THEN 0 ELSE 1 + f[n \div 2]
    <3>1. f[n] = IF n < 2 THEN start[n] ELSE step[<<n, f[down[n]]>>]
      BY <1>5, <1>6 DEF IsDescent, Descent
    <3>2. f[down[n]] \in Nat
      BY <1>2, <2>1
    <3>. QED BY <1>4, <3>1, <3>2
  <2>3. f = [n \in Nat |-> f[n]]
    BY <2>1
  <2>. QED BY <2>2, <2>3
<1>8. Unfolds(Log)
  <2>1. Log = CHOOSE g : Unfolds(g)
    BY DEF Log
  <2>. HIDE DEF Unfolds
  <2>. QED BY <1>7, <2>1
<1>. DEFINE g == Log
<1>. HIDE DEF g
<1>9. \A n \in Nat : g[n] = IF n < 2 THEN 0 ELSE 1 + g[n \div 2]
  BY <1>8 DEF g
<1>10. \A n \in Nat : g[n] \in Nat
  <2>. DEFINE Bad == {i \in Nat : g[i] \notin Nat}
  <2>1. SUFFICES ASSUME Bad # {}  PROVE FALSE
    OBVIOUS
  <2>2. PICK i \in Bad : \A j \in Bad : i <= j
    <3>1. Bad \subseteq Nat
      OBVIOUS
    <3>. HIDE DEF Bad
    <3>. QED BY <2>1, <3>1, LeastNumber
  <2>3. i \in Nat /\ g[i] \notin Nat
    BY <2>2
  <2>4. ~(i < 2)
    BY <1>9, <2>3
  <2>5. i \div 2 \in Nat /\ i \div 2 < i
    BY <2>3, <2>4
  <2>6. g[i \div 2] \in Nat
    <3>1. i \div 2 \notin Bad
      <4>. HIDE DEF Bad
      <4>. QED BY <2>2, <2>3, <2>5
    <3>. QED BY <2>5, <3>1
  <2>. QED BY <1>9, <2>3, <2>4, <2>6
<1>. QED BY <1>9, <1>10 DEF g

(* Powers of two, as far as they double: numbers that multiply as their        *)
(* exponents add, and that are no larger than the number with this logarithm. *)
Doubling(k) == 2^0 = 1 /\ \A i \in 0 .. k - 1 : 2^(i + 1) = 2 * 2^i

LEMMA PowersAre ==
  ASSUME NEW k \in Nat, Doubling(k)
  PROVE  \A i \in 0 .. k : 2^i \in Nat \ {0}
<1>. DEFINE T == {i \in 0 .. k : 2^i \in Nat \ {0}}
<1>1. 0 \in T
  BY DEF Doubling
<1>2. ASSUME NEW i \in 0 .. k - 1, i \in T  PROVE i + 1 \in T
  <2>. DEFINE p == 2^i
              q == 2^(i + 1)
  <2>1. q = 2 * p
    BY DEF Doubling
  <2>2. p \in Nat \ {0}
    BY <1>2
  <2>. HIDE DEF p, q
  <2>3. q \in Nat \ {0}
    BY <2>1, <2>2
  <2>. QED BY <2>3 DEF q
<1>3. 0 .. k \subseteq T
  <2>. HIDE DEF T
  <2>. QED BY <1>1, <1>2, CountsTo
<1>. QED BY <1>3

LEMMA PowersMultiply ==
  ASSUME NEW k \in Nat, Doubling(k), NEW d \in 0 .. k
  PROVE  \A i \in 0 .. k - d : 2^(d + i) = 2^d * 2^i
<1>. DEFINE T == {i \in 0 .. k - d : 2^(d + i) = 2^d * 2^i}
<1>0. \A i \in 0 .. k : 2^i \in Nat \ {0}
  BY PowersAre
<1>1. 0 \in T
  <2>. DEFINE p == 2^d
  <2>1. p \in Nat /\ 2^0 = 1 /\ d + 0 = d
    BY <1>0 DEF Doubling
  <2>2. 2^(d + 0) = p
    BY <2>1
  <2>. HIDE DEF p
  <2>3. p = p * 1
    BY <2>1
  <2>. QED BY <2>1, <2>2, <2>3 DEF p
<1>2. ASSUME NEW i \in 0 .. (k - d) - 1, i \in T  PROVE i + 1 \in T
  <2>. DEFINE p == 2^d
              q == 2^i
              r == 2^(d + i)
              q2 == 2^(i + 1)
              r2 == 2^(d + (i + 1))
  <2>1. /\ i \in 0 .. k - 1 /\ d + i \in 0 .. k - 1 /\ d + (i + 1) = (d + i) + 1
        /\ i \in 0 .. k /\ i + 1 \in 0 .. k - d
    OBVIOUS
  <2>2. q2 = 2 * q
    BY <2>1 DEF Doubling
  <2>3. r2 = 2 * r
    BY <2>1 DEF Doubling
  <2>4. r = p * q
    BY <1>2
  <2>5. p \in Nat /\ q \in Nat
    BY <1>0, <2>1
  <2>. HIDE DEF p, q, r, q2, r2
  <2>6. r2 = p * q2
    BY <2>2, <2>3, <2>4, <2>5
  <2>. QED BY <2>1, <2>6 DEF p, q2, r2
<1>3. 0 .. k - d \subseteq T
  <2>1. k - d \in Nat
    OBVIOUS
  <2>. HIDE DEF T
  <2>. QED BY <1>1, <1>2, <2>1, CountsTo
<1>. QED BY <1>3

LEMMA PowerBelow ==
  ASSUME NEW k \in Nat, Doubling(k)
  PROVE  \A n \in Nat \ {0} : Log[n] <= k => 2^Log[n] <= n
<1>. DEFINE Bad == {n \in Nat \ {0} : Log[n] <= k /\ ~(2^Log[n] <= n)}
<1>1. SUFFICES ASSUME Bad # {}  PROVE FALSE
  OBVIOUS
<1>2. PICK n \in Bad : \A m \in Bad : n <= m
  <2>1. Bad \subseteq Nat
    OBVIOUS
  <2>. HIDE DEF Bad
  <2>. QED BY <1>1, <2>1, LeastNumber
<1>3. n \in Nat \ {0} /\ Log[n] <= k /\ ~(2^Log[n] <= n)
  BY <1>2
<1>4. CASE n < 2
  <2>1. n = 1 /\ Log[n] = 0
    BY <1>3, <1>4, LogTyped
  <2>. QED BY <1>3, <2>1 DEF Doubling
<1>5. CASE ~(n < 2)
  <2>. DEFINE h == n \div 2
              l == Log[h]
              p == 2^l
              p2 == 2^(l + 1)
  <2>1. h \in Nat \ {0} /\ h < n /\ 2 * h <= n
    BY <1>3, <1>5
  <2>2. Log[n] = 1 + l
    BY <1>3, <1>5, LogTyped
  <2>3. l \in Nat
    <3>. HIDE DEF h
    <3>. QED BY <2>1, LogTyped
  <2>4. l + 1 <= k /\ l \in 0 .. k - 1 /\ l \in 0 .. k /\ Log[n] = l + 1
    <3>. HIDE DEF l
    <3>. QED BY <1>3, <2>2, <2>3
  <2>5. p2 = 2 * p
    <3>. HIDE DEF l
    <3>. QED BY <2>4 DEF Doubling
  <2>6. p \in Nat
    <3>. HIDE DEF l
    <3>. QED BY <2>4, PowersAre
  <2>7. p <= h
    <3>1. h \notin Bad
      <4>. HIDE DEF Bad, h
      <4>. QED BY <1>2, <1>3, <2>1
    <3>. HIDE DEF h
    <3>2. Log[h] <= k
      BY <2>4
    <3>. QED BY <2>1, <3>1, <3>2
  <2>8. p2 = 2^Log[n]
    <3>. HIDE DEF l
    <3>. QED BY <2>4
  <2>. HIDE DEF p, p2, h
  <2>9. p2 <= n
    BY <1>3, <2>1, <2>5, <2>6, <2>7
  <2>. QED BY <1>3, <2>8, <2>9
<1>. QED BY <1>4, <1>5

-----------------------------------------------------------------------------
(* Numbers that are sent: the value of a code, an integer or a float as the   *)
(* writer packs them.                                                      *)
NumberOf(c) ==
  CASE c.kind \in {"reuse", "shape"} -> c.value
    [] c.kind = "number" -> EncodeInteger(c.value)
    [] c.kind = "float" -> EncodeFloat(c)

FirstBase(c) == IF c.kind = "reuse" THEN ShareBase ELSE 16

LEMMA CodesAre ==
  ASSUME NEW c \in Codes
  PROVE  \/ /\ c.kind \in {"small", "reuse", "shape"} /\ c.value \in Nat
            /\ c = [kind |-> c.kind, value |-> c.value]
         \/ c = [kind |-> "share", value |-> 0]
         \/ /\ c.kind = "number" /\ c.value \in Int
            /\ c = [kind |-> "number", value |-> c.value]
         \/ /\ c.kind = "float" /\ c.negative \in BOOLEAN /\ c.mantissa \in Nat
            /\ c.exponent \in Int /\ c.exponent >= -1023
<1>1. CASE c \in [kind : {"small", "reuse", "shape"}, value : Nat]
  BY <1>1
<1>2. CASE c \in [kind : {"share"}, value : {0}]
  BY <1>2
<1>3. CASE c \in [kind : {"number"}, value : Int]
  BY <1>3
<1>4. CASE /\ c \in [kind : {"float"}, negative : BOOLEAN, mantissa : Nat, exponent : Int]
           /\ c.exponent >= -1023
  BY <1>4
<1>. QED BY <1>1, <1>2, <1>3, <1>4, CodesAssumption

(* decompose-float stops, and not before it drops the last bit that it could   *)
(* keep.                                                                   *)
LEMMA DroppedIs ==
  ASSUME NEW m \in Nat, 2^0 = 1
  PROVE  /\ Dropped(m) \in 0 .. Log[m] /\ Stops(m, Dropped(m))
         /\ \A more \in Dropped(m) + 1 .. Log[m] : ~Stops(m, more)
<1>. DEFINE l == Log[m]
            Chosen(d) == Stops(m, d) /\ \A more \in d + 1 .. l : ~Stops(m, more)
            T == {k \in 0 .. l : Stops(m, l - k)}
<1>1. l \in Nat
  BY LogTyped
<1>2. Stops(m, 0)
  <2>1. m % 2^0 = 0 /\ 0 * InverseEpsilon = 0
    BY WidthsAssumption
  <2>. QED BY <2>1 DEF Stops, IsWhole
<1>3. PICK k \in T : \A other \in T : k <= other
  <2>1. l - l = 0 /\ l \in 0 .. l
    BY <1>1
  <2>2. l \in T
    BY <1>2, <2>1
  <2>3. T \subseteq Nat
    OBVIOUS
  <2>. HIDE DEF T, l
  <2>. QED BY <2>2, <2>3, LeastNumber
<1>4. k \in 0 .. l /\ Stops(m, l - k)
  BY <1>3
<1>5. ASSUME NEW more \in (l - k) + 1 .. l  PROVE ~Stops(m, more)
  <2>1. l - more \in 0 .. l /\ l - (l - more) = more /\ l - more < k
    BY <1>1, <1>4
  <2>2. l - more \notin T
    <3>. HIDE DEF T, l
    <3>. QED BY <1>1, <1>3, <1>4, <2>1
  <2>. QED BY <2>1, <2>2
<1>6. Chosen(l - k) /\ l - k \in 0 .. l
  BY <1>1, <1>4, <1>5
<1>7. Dropped(m) = CHOOSE d \in 0 .. l : Chosen(d)
  BY DEF Dropped
<1>. HIDE DEF Chosen, l
<1>8. Dropped(m) \in 0 .. l /\ Chosen(Dropped(m))
  BY <1>6, <1>7
<1>. QED BY <1>8 DEF Chosen, l

(* A float as it is packed.                                                *)
Packed(c) ==
  (IF c.negative THEN 1 ELSE 0) + 2 * (c.exponent + Dropped(c.mantissa) + 1023)
  + 4096 * Rounded(c.mantissa, Dropped(c.mantissa))

(* Rounding is off by half of what it drops at most.                         *)
LEMMA RoundedIs ==
  ASSUME NEW m \in Nat, NEW d, 2^d \in Nat \ {0}
  PROVE  /\ Rounded(m, d) \in Nat /\ m \div 2^d \in Nat /\ Rounded(m, d) >= m \div 2^d
         /\ 2 * (Rounded(m, d) * 2^d - m) <= 2^d
         /\ 2 * (Rounded(m, d) * 2^d - m) >= -(2^d)
         /\ 2^d = 1 => Rounded(m, d) = m
<1>. DEFINE p == 2^d
            q == m \div p
            r == m % p
            x == Rounded(m, d)
<1>1. p \in Nat \ {0}
  OBVIOUS
<1>2. q \in Int /\ m = p * q + r /\ r \in 0 .. p - 1
  <2>. HIDE DEF p
  <2>. QED BY <1>1, QuotientAndRest
<1>3. x = IF 2 * r > p \/ (2 * r = p /\ q % 2 = 1) THEN q + 1 ELSE q
  BY DEF Rounded
<1>. HIDE DEF p, q, r, x
<1>4. q \in Nat
  <2>1. q < 0 => p * q <= -p
    BY <1>1, <1>2
  <2>. QED BY <1>1, <1>2, <2>1
<1>5. CASE x = q + 1 /\ 2 * r >= p
  <2>1. x * p = p * q + p
    BY <1>1, <1>2, <1>5
  <2>. DEFINE y == x * p
              z == p * q
  <2>2. y \in Int /\ z \in Int /\ y = z + p /\ m = z + r
    BY <1>1, <1>2, <1>4, <1>5, <2>1
  <2>. HIDE DEF y, z
  <2>3. 2 * (y - m) <= p /\ 2 * (y - m) >= -p
    BY <1>1, <1>2, <1>5, <2>2
  <2>4. p = 1 => FALSE
    BY <1>1, <1>2, <1>5
  <2>. QED BY <1>4, <1>5, <2>3, <2>4 DEF p, q, x, y
<1>6. CASE x = q /\ 2 * r <= p
  <2>1. x * p = p * q
    BY <1>1, <1>2, <1>6
  <2>. DEFINE y == x * p
              z == p * q
  <2>2. y \in Int /\ z \in Int /\ y = z /\ m = z + r
    BY <1>1, <1>2, <1>4, <1>6, <2>1
  <2>. HIDE DEF y, z
  <2>3. 2 * (y - m) <= p /\ 2 * (y - m) >= -p
    BY <1>1, <1>2, <1>6, <2>2
  <2>4. p = 1 => x = m
    BY <1>1, <1>2, <1>4, <1>6
  <2>. QED BY <1>4, <1>6, <2>3, <2>4 DEF p, q, x, y
<1>7. 2 * r > p => 2 * r >= p
  BY <1>1, <1>2
<1>8. ~(2 * r > p) => 2 * r <= p
  BY <1>1, <1>2
<1>9. 2 * r = p => 2 * r >= p
  BY <1>1, <1>2
<1>. QED BY <1>3, <1>5, <1>6, <1>7, <1>8, <1>9

LEMMA FloatIsPacked ==
  ASSUME NEW c \in Codes, c.kind = "float"
  PROVE  LET d == Dropped(c.mantissa) IN
           /\ d \in 0 .. Log[c.mantissa] /\ 2^d \in Nat \ {0}
           /\ Rounded(c.mantissa, d) \in Nat
           /\ Packed(c) \in Nat /\ EncodeFloat(c) = 3 + 4 * Packed(c)
<1>1. c.negative \in BOOLEAN /\ c.mantissa \in Nat /\ c.exponent \in Int /\ c.exponent >= -1023
  BY CodesAre
<1>. DEFINE f == DecomposeFloat(c)
            m == c.mantissa
            d == Dropped(m)
            x == Rounded(m, d)
            e == c.exponent + d
<1>2. Log[m] \in Nat
  BY <1>1, LogTyped
<1>3. d \in 0 .. Log[m]
  <2>1. 2^0 = 1 /\ m \in Nat
    BY <1>1, PowersAssumption
  <2>. HIDE DEF m
  <2>. QED BY <2>1, DroppedIs
<1>4. 2^d \in Nat \ {0}
  <2>1. Doubling(Log[m])
    BY PowersAssumption DEF Doubling
  <2>. HIDE DEF d, m
  <2>. QED BY <1>2, <1>3, <2>1, PowersAre
<1>5. f = [mantissa |-> x, exponent |-> e]
  BY DEF DecomposeFloat
<1>6. x \in Nat
  <2>. HIDE DEF m, d
  <2>1. m \in Nat
    BY <1>1 DEF m
  <2>. QED BY <1>4, <2>1, RoundedIs
<1>. HIDE DEF f, d, m, x
<1>7. f.exponent = e /\ f.mantissa = x /\ e \in Int /\ e >= -1023
  BY <1>1, <1>2, <1>3, <1>5
<1>. HIDE DEF e
<1>8. EncodeFloat(c) =
        3 + 4 * ((IF c.negative THEN 1 ELSE 0) + 2 * (f.exponent + 1023) + 2 * 2048 * f.mantissa)
  BY DEF EncodeFloat, f, ExponentBias, ExponentSpan
<1>. DEFINE n == (IF c.negative THEN 1 ELSE 0) + 2 * (e + 1023) + 4096 * x
<1>9. EncodeFloat(c) = 3 + 4 * n
  BY <1>6, <1>7, <1>8
<1>10. n \in Nat
  <2>1. (IF c.negative THEN 1 ELSE 0) \in {0, 1}
    OBVIOUS
  <2>. QED BY <1>6, <1>7, <2>1
<1>11. Packed(c) = n
  BY DEF Packed, d, m, x, e
<1>. HIDE DEF n
<1>. QED BY <1>3, <1>4, <1>6, <1>9, <1>10, <1>11 DEF d, m, x

LEMMA SentIsNumber ==
  ASSUME NEW c \in Codes, c.kind \in {"reuse", "shape", "number", "float"}
  PROVE  NumberOf(c) \in Nat
<1>1. CASE c.kind \in {"reuse", "shape"}
  BY <1>1, CodesAre DEF NumberOf
<1>2. CASE c.kind = "number"
  <2>1. c.value \in Int
    BY <1>2, CodesAre
  <2>2. EncodeInteger(c.value) \in Nat
    BY <2>1 DEF EncodeInteger
  <2>. QED BY <1>2, <2>2 DEF NumberOf
<1>3. CASE c.kind = "float"
  <2>1. EncodeFloat(c) \in Nat
    BY <1>3, FloatIsPacked
  <2>. QED BY <1>3, <2>1 DEF NumberOf
<1>. QED BY <1>1, <1>2, <1>3

(* The digits of a group: a rest and whether more follow.                    *)
LEMMA DigitsAre ==
  ASSUME NEW n \in Nat, NEW b \in Nat \ {0}
  PROVE  /\ n \div b \in Nat /\ n % b \in Nat
         /\ n = b * (n \div b) + (n % b)
         /\ Digits(n, b) \in Nat /\ Digits(n, b) \div 2 = n % b
         /\ Digits(n, b) % 2 = IF n \div b = 0 THEN 0 ELSE 1
<1>1. n \div b \in Int /\ n = b * (n \div b) + (n % b) /\ n % b \in 0 .. b - 1
  BY QuotientAndRest
<1>2. n \div b < 0 => b * (n \div b) <= -b
  BY <1>1
<1>3. n \div b \in Nat
  BY <1>1, <1>2
<1>. DEFINE r == n % b
            q == n \div b
<1>4. Digits(n, b) = (IF q = 0 THEN 0 ELSE 1) + 2 * r
  BY DEF Digits, IntegerPart, More
<1>5. r \in Nat
  BY <1>1
<1>. HIDE DEF r, q
<1>6. /\ Digits(n, b) \in Nat /\ Digits(n, b) \div 2 = r
      /\ Digits(n, b) % 2 = IF q = 0 THEN 0 ELSE 1
  BY <1>4, <1>5
<1>. QED BY <1>1, <1>3, <1>6 DEF r, q

(* A code in bytes: a head, and the other groups of its number.              *)
LEMMA CodeIs ==
  ASSUME NEW c \in Codes
  PROVE  /\ c.kind = "small" => EncodeCode(c) = <<2 * c.value>>
         /\ c.kind = "share" => EncodeCode(c) = <<1>>
         /\ c.kind \in {"reuse", "shape", "number", "float"} =>
              LET n == NumberOf(c)
                  b == FirstBase(c)
                  digits == Digits(n, b)
              IN EncodeCode(c) =
                   <<CASE c.kind = "reuse" -> 1 + 4 * (1 + digits)
                       [] c.kind = "shape" -> 3 + 8 * digits
                       [] OTHER -> 7 + 8 * digits>> \o EncodeIntegerTail[n \div b]
<1>1. c.kind \in {"small", "share", "reuse", "shape", "number", "float"}
  BY CodesAre
<1>2. CASE c.kind \in {"small", "share"}
  BY <1>2 DEF EncodeCode
<1>3. CASE c.kind = "reuse"
  <2>1. NumberOf(c) = c.value /\ FirstBase(c) = 31
    BY <1>3 DEF NumberOf, FirstBase, ShareBase
  <2>2. EncodeCode(c) = <<1 + 4 * (1 + Digits(c.value, 31))>> \o EncodeIntegerTail[c.value \div 31]
    BY <1>3 DEF EncodeCode, ShareBase
  <2>. QED BY <1>3, <2>1, <2>2
<1>4. CASE c.kind = "shape"
  <2>1. NumberOf(c) = c.value /\ FirstBase(c) = 16
    BY <1>4 DEF NumberOf, FirstBase
  <2>2. EncodeCode(c) = <<3 + 8 * Digits(c.value, 16)>> \o EncodeIntegerTail[c.value \div 16]
    BY <1>4 DEF EncodeCode, Group, TagBase
  <2>. QED BY <1>4, <2>1, <2>2
<1>5. CASE c.kind \in {"number", "float"}
  <2>1. FirstBase(c) = 16
    BY <1>5 DEF FirstBase
  <2>2. EncodeCode(c) = Group(7, 8, NumberOf(c), 16)
    BY <1>5 DEF EncodeCode, NumberOf, NumberBase
  <2>3. EncodeCode(c) = <<7 + 8 * Digits(NumberOf(c), 16)>> \o EncodeIntegerTail[NumberOf(c) \div 16]
    BY <2>2 DEF Group
  <2>. QED BY <1>5, <2>1, <2>3
<1>. QED BY <1>1, <1>2, <1>3, <1>4, <1>5

StartsAs(s, t, x, u) == s \o t = <<x>> \o u

LEMMA ConcatFirst ==
  ASSUME NEW s \in Seq(Nat), NEW t \in Seq(Nat), NEW u \in Seq(Nat), NEW x \in Nat,
         StartsAs(s, t, x, u), s # <<>>
  PROVE  Head(s) = x /\ Tail(s) \in Seq(Nat) /\ Tail(s) \o t = u
<1>0. s \o t = <<x>> \o u
  BY DEF StartsAs
<1>1. Head(s) \in Nat /\ Tail(s) \in Seq(Nat) /\ s = <<Head(s)>> \o Tail(s)
  OBVIOUS
<1>. DEFINE h == Head(s)
            r == Tail(s)
<1>. HIDE DEF h, r
<1>2. h \in Nat /\ r \in Seq(Nat) /\ s = <<h>> \o r
  BY <1>1 DEF h, r
<1>3. s \o t = <<h>> \o (r \o t) /\ r \o t \in Seq(Nat)
  <2>1. <<h>> \in Seq(Nat)
    BY <1>2
  <2>2. (<<h>> \o r) \o t = <<h>> \o (r \o t)
    BY <1>2, <2>1, ConcatAssociative
  <2>3. r \o t \in Seq(Nat)
    BY <1>2
  <2>. QED BY <1>2, <2>2, <2>3
<1>4. h = x
  <2>1. (<<h>> \o (r \o t))[1] = h /\ (<<x>> \o u)[1] = x
    BY <1>2, <1>3
  <2>. QED BY <1>0, <1>3, <2>1
<1>5. r \o t = u
  <2>1. <<x>> \o (r \o t) = <<x>> \o u
    BY <1>0, <1>3, <1>4
  <2>2. ASSUME NEW w \in Seq(Nat)
        PROVE  /\ <<x>> \o w \in Seq(Nat) /\ Len(<<x>> \o w) = 1 + Len(w)
               /\ \A i \in 1 .. Len(w) : (<<x>> \o w)[1 + i] = w[i]
    OBVIOUS
  <2>. DEFINE w == r \o t
  <2>3. w \in Seq(Nat) /\ <<x>> \o w = <<x>> \o u
    BY <1>3, <2>1
  <2>. HIDE DEF w
  <2>4. Len(w) = Len(u)
    <3>1. 1 + Len(w) = 1 + Len(u) /\ Len(w) \in Nat /\ Len(u) \in Nat
      BY <2>2, <2>3, LenProperties
    <3>. QED BY <3>1
  <2>5. \A i \in 1 .. Len(w) : w[i] = u[i]
    BY <2>2, <2>3, <2>4, SMTT(30)
  <2>6. w = u
    BY <2>3, <2>4, <2>5, SeqEqual
  <2>. QED BY <2>6 DEF w
<1>. QED BY <1>2, <1>4, <1>5 DEF h, r

-----------------------------------------------------------------------------
(* What is left to read is what is left of the code, less the bytes that are  *)
(* missing, and what follows.                                              *)
CutFrom(bytes, whole) ==
  \E lost \in Seq(Nat) : Len(lost) = missing /\ bytes \o lost = whole \o following

(* In the tail: r is the rest of the number, total the part that has been read, *)
(* up to multiples of the width of the sum, and exactly when the number is so  *)
(* much smaller that nothing overflows.                                      *)
SumAgrees(n, t, b, r) == \E k \in Nat : n = t + b * r + k * SumSpan
SumIsExact(n, t, b, r) == 128 * n < SumSpan => n = t + b * r

Waits(r) ==
  /\ sent.kind \in {"reuse", "shape", "number", "float"}
  /\ kind = IF sent.kind = "float" THEN "number" ELSE sent.kind
  /\ part \in Nat /\ part % 2 = IF r = 0 THEN 0 ELSE 1
  /\ total \in 0 .. SumSpan - 1 /\ base \in Nat
  /\ SumAgrees(NumberOf(sent), total, base, r)
  /\ SumIsExact(NumberOf(sent), total, base, r)
  /\ CutFrom(input, EncodeIntegerTail[r])

Sending ==
  /\ sent \in Codes /\ missing \in 0 .. 1 /\ following \in Seq(Nat)
  /\ missing = 1 => following = <<>>

ByteInv ==
  /\ Sending /\ input \in Seq(Nat)
  /\ state \in {"head", "tail", "read", "end", "panic"}
  /\ state = "head" => CutFrom(input, EncodeCode(sent))
  /\ state = "tail" => \E r \in Nat : Waits(r)
  /\ CodeKept

LEMMA Joined ==
  ASSUME NEW h \in Nat, NEW t \in Seq(Nat)
  PROVE  /\ <<>> \in Seq(Nat) /\ <<h>> \in Seq(Nat) /\ <<h>> \o t \in Seq(Nat)
         /\ <<>> \o t = t /\ t \o <<>> = t /\ <<h>> \o <<>> = <<h>>
         /\ Len(<<>>) = 0 /\ Len(<<h>>) = 1 /\ <<h>> # <<>>
<1>1. <<>> \in Seq(Nat) /\ <<h>> \in Seq(Nat) /\ Len(<<>>) = 0 /\ Len(<<h>>) = 1
  OBVIOUS
<1>2. <<>> \o t = t /\ t \o <<>> = t /\ <<h>> \o <<>> = <<h>>
  BY <1>1, ConcatEmptySeq
<1>3. <<h>> \o t \in Seq(Nat)
  BY <1>1
<1>4. <<h>> # <<>>
  OBVIOUS
<1>. QED BY <1>1, <1>2, <1>3, <1>4

LEMMA HeadIs ==
  ASSUME NEW c \in Codes
  PROVE  \E h \in Nat, t \in Seq(Nat) : EncodeCode(c) = <<h>> \o t
<1>1. c.kind \in {"small", "share", "reuse", "shape", "number", "float"}
  BY CodesAre
<1>2. CASE c.kind \in {"small", "share"}
  <2>1. PICK h \in Nat : EncodeCode(c) = <<h>>
    <3>1. CASE c.kind = "small"
      <4>1. 2 * c.value \in Nat
        BY <3>1, CodesAre
      <4>. QED BY <3>1, <4>1, CodeIs
    <3>2. CASE c.kind = "share"
      BY <3>2, CodeIs
    <3>. QED BY <1>2, <3>1, <3>2
  <2>. DEFINE t == <<>>
  <2>2. t \in Seq(Nat) /\ <<h>> \o t = <<h>>
    BY <2>1, Joined
  <2>. HIDE DEF t
  <2>. QED BY <2>1, <2>2
<1>4. CASE c.kind \in {"reuse", "shape", "number", "float"}
  <2>. DEFINE n == NumberOf(c)
              b == FirstBase(c)
              d == Digits(n, b)
              h == CASE c.kind = "reuse" -> 1 + 4 * (1 + d)
                     [] c.kind = "shape" -> 3 + 8 * d
                     [] OTHER -> 7 + 8 * d
  <2>1. n \in Nat /\ b \in Nat \ {0}
    BY <1>4, SentIsNumber DEF FirstBase, ShareBase
  <2>2. d \in Nat /\ n \div b \in Nat
    BY <2>1, DigitsAre
  <2>3. EncodeCode(c) = <<h>> \o EncodeIntegerTail[n \div b]
    BY <1>4, CodeIs
  <2>4. h \in Nat
    <3>. HIDE DEF d
    <3>. QED BY <2>2
  <2>5. EncodeIntegerTail[n \div b] \in Seq(Nat)
    <3>. HIDE DEF n, b
    <3>. QED BY <2>2, TailOf
  <2>. HIDE DEF h, n, b, d
  <2>. QED BY <2>3, <2>4, <2>5
<1>. QED BY <1>1, <1>2, <1>4

(* Nothing more to read: nothing is missing either.                          *)
LEMMA NothingLeft ==
  ASSUME Sending, NEW bytes \in Seq(Nat), CutFrom(bytes, <<>>)
  PROVE  missing = 0 /\ bytes = following
<1>. DEFINE after == following
            short == missing
<1>1. PICK lost \in Seq(Nat) : Len(lost) = short /\ bytes \o lost = after
  <2>1. \A s \in Seq(Nat) : <<>> \o s = s
    OBVIOUS
  <2>. QED BY <2>1 DEF CutFrom, Sending
<1>2. after \in Seq(Nat) /\ short \in 0 .. 1 /\ (short = 1 => after = <<>>)
  BY DEF Sending
<1>. HIDE DEF after, short
<1>3. Len(bytes \o lost) = Len(bytes) + Len(lost)
  OBVIOUS
<1>4. short # 1
  BY <1>1, <1>2, <1>3
<1>5. lost = <<>>
  BY <1>1, <1>2, <1>4
<1>. QED BY <1>1, <1>2, <1>4, <1>5 DEF after, short

(* The first of the bytes is that of the code.                               *)
LEMMA NextByte ==
  ASSUME Sending, NEW bytes \in Seq(Nat), NEW h \in Nat, NEW t \in Seq(Nat),
         CutFrom(bytes, <<h>> \o t), bytes # <<>>
  PROVE  Head(bytes) = h /\ Tail(bytes) \in Seq(Nat) /\ CutFrom(Tail(bytes), t)
<1>. DEFINE after == following
<1>1. PICK lost \in Seq(Nat) : Len(lost) = missing /\ bytes \o lost = (<<h>> \o t) \o after
  BY DEF CutFrom
<1>2. after \in Seq(Nat)
  BY DEF Sending
<1>. HIDE DEF after
<1>3. (<<h>> \o t) \o after = <<h>> \o (t \o after) /\ t \o after \in Seq(Nat)
  <2>1. <<h>> \in Seq(Nat)
    OBVIOUS
  <2>2. (<<h>> \o t) \o after = <<h>> \o (t \o after)
    BY <1>2, <2>1, ConcatAssociative, SMTT(30)
  <2>3. t \o after \in Seq(Nat)
    BY <1>2
  <2>. QED BY <2>2, <2>3
<1>4. bytes \o lost = <<h>> \o (t \o after)
  BY <1>1, <1>3
<1>. DEFINE rest == t \o after
<1>. HIDE DEF rest
<1>5. rest \in Seq(Nat) /\ bytes \o lost = <<h>> \o rest
  BY <1>3, <1>4 DEF rest
<1>6. Head(bytes) = h /\ Tail(bytes) \in Seq(Nat) /\ Tail(bytes) \o lost = rest
  <2>1. bytes \in Seq(Nat) /\ lost \in Seq(Nat) /\ h \in Nat /\ bytes # <<>>
    OBVIOUS
  <2>2. StartsAs(bytes, lost, h, rest)
    BY <1>5 DEF StartsAs
  <2>. QED BY <1>5, <2>1, <2>2, ConcatFirst
<1>. QED BY <1>1, <1>6 DEF CutFrom, after, rest

LEMMA ByteStarts == ByteInit => ByteInv
<1>. SUFFICES ASSUME ByteInit PROVE ByteInv
  OBVIOUS
<1>1. Sending
  BY CodesAssumption DEF ByteInit, Sending
<1>2. PICK h \in Nat, t \in Seq(Nat) : EncodeCode(sent) = <<h>> \o t
  BY <1>1, HeadIs DEF Sending
<1>. DEFINE code == EncodeCode(sent)
            after == following
            bytes == input
            n == Len(code)
<1>3. code \in Seq(Nat) /\ n \in Nat /\ n >= 1
  BY <1>2
<1>4. bytes = SubSeq(code, 1, n - missing) \o after /\ after \in Seq(Nat)
  BY <1>1 DEF ByteInit, Sending
<1>. HIDE DEF code, n
<1>5. bytes \in Seq(Nat) /\ CutFrom(bytes, code)
  <2>1. CASE missing = 0
    <3>1. SubSeq(code, 1, n - 0) = code
      BY <1>3 DEF n
    <3>2. bytes = code \o after
      BY <1>4, <2>1, <3>1
    <3>. HIDE DEF bytes, after
    <3>. DEFINE lost == <<>>
    <3>3. code \o after \in Seq(Nat)
      BY <1>3, <1>4
    <3>4. bytes \in Seq(Nat) /\ lost \in Seq(Nat) /\ Len(lost) = 0 /\ bytes \o lost = bytes
      BY <3>2, <3>3, Joined
    <3>. HIDE DEF lost
    <3>. QED BY <2>1, <3>2, <3>4 DEF CutFrom, after
  <2>2. CASE missing = 1
    <3>1. after = <<>>
      BY <1>1, <2>2 DEF Sending
    <3>2. bytes = SubSeq(code, 1, n - 1) /\ SubSeq(code, 1, n - 1) \in Seq(Nat)
      <4>. HIDE DEF bytes, after
      <4>1. SubSeq(code, 1, n - 1) \in Seq(Nat)
        BY <1>3 DEF n
      <4>2. SubSeq(code, 1, n - 1) \o <<>> = SubSeq(code, 1, n - 1)
        BY <4>1, ConcatEmptySeq
      <4>. QED BY <1>4, <2>2, <3>1, <4>1, <4>2
    <3>3. SubSeq(code, 1, n - 1) \o <<code[n]>> = code /\ <<code[n]>> \in Seq(Nat)
      BY <1>3 DEF n
    <3>4. code \o after = code
      BY <1>3, <3>1, ConcatEmptySeq
    <3>5. Len(<<code[n]>>) = 1
      OBVIOUS
    <3>. QED BY <2>2, <3>2, <3>3, <3>4, <3>5 DEF CutFrom
  <2>. QED BY <1>1, <2>1, <2>2 DEF Sending
<1>6. state = "head"
  BY DEF ByteInit
<1>. QED BY <1>1, <1>5, <1>6 DEF ByteInv, CodeKept, code

-----------------------------------------------------------------------------
(* The steps of the reader.                                                *)
LEMMA CutStays ==
  ASSUME UNCHANGED <<sent, missing, following>>, Sending
  PROVE  Sending' /\ \A w : CutFrom(input', w) => CutFrom(input, w)'
  BY DEF Sending, CutFrom

(* The kinds that the low bits of a head tell apart.                         *)
LEMMA HeadsDiffer ==
  ASSUME NEW d \in Nat
  PROVE  /\ LET h == 2 * d IN h % 2 = 0 /\ h \div 2 = d
         /\ LET h == 1 + 4 * (1 + d) IN h % 2 # 0 /\ h % 4 = 1 /\ h \div 4 = 1 + d
         /\ LET h == 3 + 8 * d IN h % 2 # 0 /\ h % 4 # 1 /\ h % 8 = 3 /\ h \div 8 = d
         /\ LET h == 7 + 8 * d IN h % 2 # 0 /\ h % 4 # 1 /\ h % 8 = 7 /\ h \div 8 = d
  OBVIOUS

LEMMA HeadBranches ==
  ASSUME ReadHead, NEW h \in Nat, h = Head(input)
  PROVE  /\ h % 2 = 0 => /\ received' = [kind |-> "small", value |-> h \div 2]
                         /\ state' = "read"
         /\ h % 2 # 0 /\ h % 4 = 1 /\ h \div 4 = 0 =>
              received' = [kind |-> "share", value |-> 0] /\ state' = "read"
         /\ h % 2 # 0 /\ h % 4 = 1 /\ h \div 4 # 0 =>
              StartTail("reuse", h \div 4 - 1, ShareBase)
         /\ h % 2 # 0 /\ h % 4 # 1 /\ h % 8 = 3 => StartTail("shape", h \div 8, TagBase)
         /\ h % 2 # 0 /\ h % 4 # 1 /\ h % 8 = 7 => StartTail("number", h \div 8, NumberBase)
<1>. DEFINE Small == received' = [kind |-> "small", value |-> h \div 2] /\ state' = "read"
            Share == received' = [kind |-> "share", value |-> 0] /\ state' = "read"
            Reuse == StartTail("reuse", h \div 4 - 1, ShareBase)
            Shape == StartTail("shape", h \div 8, TagBase)
            Whole == StartTail("number", h \div 8, NumberBase)
            Even == h % 2 = 0
            One == h % 4 = 1
            Zero == h \div 4 = 0
            Three == h % 8 = 3
            Seven == h % 8 = 7
            Small2 == /\ received' = [kind |-> "small", value |-> h \div 2]
                      /\ state' = "read" /\ UNCHANGED locals
            Share2 == /\ received' = [kind |-> "share", value |-> 0]
                      /\ state' = "read" /\ UNCHANGED locals
<1>1. (CASE Even -> Small2
         [] One /\ Zero -> Share2
         [] One /\ ~Zero -> Reuse
         [] Three -> Shape
         [] Seven -> Whole)
  BY DEF ReadHead
<1>2. (Small2 => Small) /\ (Share2 => Share)
  OBVIOUS
<1>3. One => ~Three /\ ~Seven
  OBVIOUS
<1>4. Three => ~Seven
  OBVIOUS
<1>5. (Even => ~One) /\ (Even => ~Three) /\ (Even => ~Seven)
  OBVIOUS
<1>. HIDE DEF Small, Share, Small2, Share2, Reuse, Shape, Whole, Even, One, Zero, Three, Seven
<1>6. /\ Even => Small2
      /\ ~Even /\ One /\ Zero => Share2
      /\ ~Even /\ One /\ ~Zero => Reuse
      /\ ~Even /\ ~One /\ Three => Shape
      /\ ~Even /\ ~One /\ Seven => Whole
  BY <1>1, <1>3, <1>4, <1>5, Zenon
<1>. QED BY <1>2, <1>6 DEF Small, Share, Reuse, Shape, Whole, Even, One, Zero, Three, Seven

LEMMA HeadStep ==
  ASSUME ByteInv, ReadHead
  PROVE  ByteInv'
<1>. DEFINE h == Head(input)
<1>1. /\ state = "head" /\ input # <<>> /\ input' = Tail(input) /\ input \in Seq(Nat)
      /\ UNCHANGED <<sent, missing, following>> /\ Sending /\ CutFrom(input, EncodeCode(sent))
      /\ sent \in Codes
  BY DEF ByteInv, ReadHead, Sending, given
<1>2. sent.kind \in {"small", "share", "reuse", "shape", "number", "float"}
  BY <1>1, CodesAre
<1>3. CASE sent.kind \in {"small", "share"}
  <2>. DEFINE none == <<>>
  <2>1. sent.kind = "small" => sent.value \in Nat
    BY <1>1, CodesAre
  <2>2. PICK x \in Nat : /\ EncodeCode(sent) = <<x>>
                         /\ x = IF sent.kind = "small" THEN 2 * sent.value ELSE 1
    <3>1. CASE sent.kind = "small"
      <4>1. EncodeCode(sent) = <<2 * sent.value>>
        BY <1>1, <3>1, CodeIs
      <4>2. 2 * sent.value \in Nat
        BY <2>1, <3>1
      <4>. QED BY <3>1, <4>1, <4>2
    <3>2. CASE sent.kind = "share"
      BY <1>1, <3>2, CodeIs
    <3>. QED BY <1>3, <3>1, <3>2
  <2>3. none \in Seq(Nat) /\ <<x>> \o none = <<x>>
    BY <2>2, Joined
  <2>. HIDE DEF none
  <2>4. CutFrom(input, <<x>> \o none)
    BY <1>1, <2>2, <2>3
  <2>5. h = x /\ Tail(input) \in Seq(Nat) /\ CutFrom(Tail(input), none)
    BY <1>1, <2>2, <2>3, <2>4, NextByte
  <2>6. missing = 0 /\ input' = following /\ input' \in Seq(Nat)
    BY <1>1, <2>5, NothingLeft DEF none
  <2>7. state' = "read" /\ received' = sent
    <3>1. CASE sent.kind = "small"
      <4>1. h = 2 * sent.value
        BY <2>2, <2>5, <3>1
      <4>2. h % 2 = 0 /\ h \div 2 = sent.value
        BY <2>1, <3>1, <4>1
      <4>. HIDE DEF h
      <4>3. state' = "read" /\ received' = [kind |-> "small", value |-> h \div 2]
        BY <4>2, <2>5, HeadBranches DEF h
      <4>4. sent = [kind |-> "small", value |-> sent.value]
        BY <1>1, <3>1, CodesAre
      <4>. QED BY <4>2, <4>3, <4>4
    <3>2. CASE sent.kind = "share"
      <4>1. h = 1
        BY <2>2, <2>5, <3>2
      <4>2. h % 2 # 0 /\ h % 4 = 1 /\ h \div 4 = 0
        BY <4>1
      <4>. HIDE DEF h
      <4>3. state' = "read" /\ received' = [kind |-> "share", value |-> 0]
        BY <4>2, <2>5, HeadBranches DEF h
      <4>4. sent = [kind |-> "share", value |-> 0]
        BY <1>1, <3>2, CodesAre
      <4>. QED BY <4>3, <4>4
    <3>. QED BY <1>3, <3>1, <3>2
  <2>8. Sending'
    BY <1>1, CutStays
  <2>. QED BY <1>1, <2>6, <2>7, <2>8 DEF ByteInv, CodeKept
<1>4. CASE sent.kind \in {"reuse", "shape", "number", "float"}
  <2>0. PICK n \in Nat, b \in Nat \ {0} : n = NumberOf(sent) /\ b = FirstBase(sent)
    BY <1>1, <1>4, SentIsNumber DEF FirstBase, ShareBase
  <2>. DEFINE d == Digits(n, b)
              q == n \div b
              k == IF sent.kind = "float" THEN "number" ELSE sent.kind
              t == EncodeIntegerTail[q]
              Kind(x) == x = CASE sent.kind = "reuse" -> 1 + 4 * (1 + d)
                               [] sent.kind = "shape" -> 3 + 8 * d
                               [] OTHER -> 7 + 8 * d
  <2>2. /\ q \in Nat /\ n = b * q + (n % b) /\ n % b \in Nat
        /\ d \in Nat /\ d \div 2 = n % b /\ d % 2 = IF q = 0 THEN 0 ELSE 1
    BY DigitsAre
  <2>3. t \in Seq(Nat)
    <3>1. EncodeIntegerTail \in [Nat -> Seq(Nat)]
      BY TailOf
    <3>. HIDE DEF q
    <3>. QED BY <2>2, <3>1
  <2>4. PICK x \in Nat : Kind(x) /\ EncodeCode(sent) = <<x>> \o t
    <3>1. \A x : Kind(x) => EncodeCode(sent) = <<x>> \o t
      BY <1>1, <1>4, <2>0, CodeIs
    <3>2. \E x \in Nat : Kind(x)
      <4>. HIDE DEF d
      <4>1. 1 + 4 * (1 + d) \in Nat /\ 3 + 8 * d \in Nat /\ 7 + 8 * d \in Nat
        BY <2>2
      <4>2. CASE sent.kind = "reuse"
        BY <4>1, <4>2
      <4>3. CASE sent.kind = "shape"
        BY <4>1, <4>3
      <4>4. CASE sent.kind \notin {"reuse", "shape"}
        BY <4>1, <4>4
      <4>. QED BY <4>2, <4>3, <4>4
    <3>. HIDE DEF Kind, t
    <3>. QED BY <3>1, <3>2
  <2>. HIDE DEF q, d, t
  <2>5. h = x /\ Tail(input) \in Seq(Nat) /\ CutFrom(Tail(input), t)
    <3>1. CutFrom(input, <<x>> \o t)
      BY <1>1, <2>4
    <3>. QED BY <1>1, <2>3, <2>4, <3>1, NextByte
  <2>. HIDE DEF h
  <2>6. StartTail(k, d, b)
    <3>1. CASE sent.kind = "reuse"
      <4>1. h = 1 + 4 * (1 + d)
        BY <2>4, <2>5, <3>1
      <4>2. h % 2 # 0 /\ h % 4 = 1 /\ h \div 4 = 1 + d
        BY <2>2, <4>1, HeadsDiffer
      <4>3. h \div 4 # 0 /\ h \div 4 - 1 = d
        BY <2>2, <4>2
      <4>4. StartTail("reuse", h \div 4 - 1, ShareBase)
        BY <4>2, <4>3, <2>5, HeadBranches DEF h
      <4>. QED BY <2>0, <3>1, <4>3, <4>4 DEF FirstBase
    <3>2. CASE sent.kind = "shape"
      <4>1. h = 3 + 8 * d
        BY <2>4, <2>5, <3>2
      <4>2. h % 2 # 0 /\ h % 4 # 1 /\ h % 8 = 3 /\ h \div 8 = d
        BY <2>2, <4>1, HeadsDiffer
      <4>3. StartTail("shape", h \div 8, TagBase)
        BY <4>2, <2>5, HeadBranches DEF h
      <4>. QED BY <2>0, <3>2, <4>2, <4>3 DEF FirstBase, TagBase
    <3>3. CASE sent.kind \in {"number", "float"}
      <4>1. h = 7 + 8 * d
        BY <2>4, <2>5, <3>3
      <4>2. h % 2 # 0 /\ h % 4 # 1 /\ h % 8 = 7 /\ h \div 8 = d
        BY <2>2, <4>1, HeadsDiffer
      <4>3. StartTail("number", h \div 8, NumberBase)
        BY <4>2, <2>5, HeadBranches DEF h
      <4>. QED BY <2>0, <3>3, <4>2, <4>3 DEF FirstBase, NumberBase
    <3>. QED BY <1>4, <3>1, <3>2, <3>3
  <2>7. CutFrom(input, t)' /\ Sending'
    BY <1>1, <2>5, CutStays
  <2>8. Waits(q)'
    <3>1. /\ kind' = k /\ part' = d /\ total' = n % b /\ base' = b
      BY <2>2, <2>6 DEF StartTail
    <3>2. /\ SumAgrees(NumberOf(sent), total, base, q)'
          /\ SumIsExact(NumberOf(sent), total, base, q)'
          /\ total' \in 0 .. SumSpan - 1
      <4>1. NumberOf(sent)' = n
        BY <1>1, <2>0 DEF NumberOf, EncodeFloat, EncodeInteger
      <4>. DEFINE rest == n % b
      <4>2. rest \in Nat /\ n = b * q + rest
        BY <2>2
      <4>3. rest \in 0 .. SumSpan - 1
        <5>1. b \in {16, 31}
          BY <2>0 DEF FirstBase, ShareBase
        <5>2. n % 16 \in 0 .. 15 /\ n % 31 \in 0 .. 30
          BY <2>0
        <5>3. rest \in 0 .. 30
          BY <5>1, <5>2
        <5>4. SumSpan \in Nat /\ SumSpan >= 512
          BY WidthsAssumption
        <5>. HIDE DEF rest
        <5>. QED BY <5>3, <5>4
      <4>. HIDE DEF rest
      <4>4. n = rest + b * q /\ n = rest + b * q + 0 * SumSpan
        <5>. DEFINE z == b * q
        <5>1. z \in Nat /\ n = z + rest
          <6>1. b \in Nat /\ q \in Nat
            BY <2>0, <2>2
          <6>2. b * q \in Nat
            BY <6>1
          <6>. QED BY <4>2, <6>2
        <5>. HIDE DEF z
        <5>2. n = rest + z /\ n = rest + z + 0 * SumSpan
          BY <4>2, <5>1, WidthsAssumption
        <5>. QED BY <5>2 DEF z
      <4>5. SumAgrees(n, rest, b, q) /\ SumIsExact(n, rest, b, q)
        BY <4>4 DEF SumAgrees, SumIsExact
      <4>6. total' = rest /\ base' = b
        BY <3>1 DEF rest
      <4>. QED BY <4>1, <4>3, <4>5, <4>6 DEF SumAgrees, SumIsExact
    <3>3. CutFrom(input, EncodeIntegerTail[q])'
      BY <2>7 DEF t
    <3>4. sent' = sent
      BY <1>1
    <3>. QED BY <1>4, <2>2, <3>1, <3>2, <3>3, <3>4 DEF Waits
  <2>9. state' = "tail"
    BY <2>6 DEF StartTail
  <2>10. (\E r \in Nat : Waits(r))'
    BY <2>2, <2>8
  <2>. QED BY <1>1, <2>5, <2>7, <2>9, <2>10 DEF ByteInv, CodeKept
<1>. QED BY <1>2, <1>3, <1>4

(* A turn of decode_integer_tail in the arithmetic of a u128: the number that   *)
(* is left has a digit x less, and neither the sum nor the base forget more     *)
(* than multiples of its width.                                             *)
Sum(t, b, x) == t + x * b
Room == SumSpan \div 128

LEMMA RoomIs == Room \in Nat \ {0} /\ SumSpan \in Nat \ {0} /\ SumSpan = 128 * Room
<1>1. SumSpan \in Nat /\ SumSpan % 128 = 0 /\ SumSpan >= 512
  BY WidthsAssumption
<1>. QED BY <1>1 DEF Room

LEMMA TurnAgrees ==
  ASSUME NEW n \in Nat, NEW t \in Nat, NEW b \in Nat, NEW r \in Nat, NEW x \in Nat, NEW q \in Nat,
         r = 128 * q + x, SumAgrees(n, t, b, r)
  PROVE  /\ Sum(t, b, x) % SumSpan \in 0 .. SumSpan - 1 /\ (b % Room) * 128 \in Nat
         /\ SumAgrees(n, Sum(t, b, x) % SumSpan, (b % Room) * 128, q)
<1>1. PICK k \in Nat : n = t + b * r + k * SumSpan
  BY DEF SumAgrees
<1>. DEFINE S == SumSpan
            sum == Sum(t, b, x)
            u == sum \div S
            t2 == sum % S
            v == b \div Room
            c == b % Room
            b2 == c * 128
<1>2. Room \in Nat \ {0} /\ S \in Nat \ {0} /\ S = 128 * Room
  BY RoomIs
<1>3. sum \in Nat /\ sum = t + x * b
  BY DEF Sum
<1>4. u \in Nat /\ t2 \in 0 .. S - 1 /\ sum = S * u + t2
  <2>1. sum \in Nat /\ sum \in Int /\ S \in Nat \ {0}
    BY <1>2, <1>3
  <2>. HIDE DEF sum, S
  <2>2. u \in Int /\ t2 \in 0 .. S - 1 /\ sum = S * u + t2
    BY <2>1, QuotientAndRest
  <2>. HIDE DEF u, t2
  <2>3. u < 0 => S * u <= -S
    BY <2>1, <2>2
  <2>. DEFINE g == S * u
  <2>4. g \in Int /\ sum = g + t2 /\ (u < 0 => g <= -S)
    BY <2>1, <2>2, <2>3
  <2>. HIDE DEF g
  <2>5. u >= 0
    BY <2>1, <2>2, <2>4
  <2>. QED BY <2>2, <2>5
<1>5. v \in Nat /\ c \in Nat /\ b = Room * v + c
  <2>1. v \in Int /\ c \in 0 .. Room - 1 /\ b = Room * v + c
    BY <1>2, QuotientAndRest
  <2>2. v < 0 => Room * v <= -Room
    BY <1>2, <2>1
  <2>. HIDE DEF v, c
  <2>3. v >= 0
    BY <1>2, <2>1, <2>2
  <2>. QED BY <1>2, <2>1, <2>3
<1>. HIDE DEF S, sum, u, t2, v, c
<1>6. b2 \in Nat /\ 128 * b = S * v + b2
  <2>. DEFINE y == Room * v
  <2>1. y \in Nat /\ b = y + c
    BY <1>2, <1>5
  <2>2. S * v = 128 * y
    BY <1>2, <1>5
  <2>. HIDE DEF y
  <2>. QED BY <1>5, <2>1, <2>2
<1>. HIDE DEF b2
<1>7. b * r = q * (128 * b) + x * b
  <2>1. b * (128 * q + x) = b * (128 * q) + b * x
    OBVIOUS
  <2>2. b * (128 * q) = q * (128 * b) /\ b * x = x * b
    OBVIOUS
  <2>. QED BY <2>1, <2>2
<1>8. q * (S * v + b2) = (q * v) * S + b2 * q
  BY <1>2, <1>5, <1>6
<1>. DEFINE k2 == u + q * v + k
<1>9. k2 \in Nat /\ k2 * S = S * u + (q * v) * S + k * S
  <2>. DEFINE y == q * v
  <2>1. y \in Nat
    BY <1>5
  <2>. HIDE DEF y
  <2>2. (u + y + k) * S = S * u + y * S + k * S
    BY <1>2, <1>4, <2>1
  <2>3. u + y + k \in Nat
    BY <1>4, <2>1
  <2>. QED BY <2>2, <2>3 DEF y
<1>10. n = t2 + b2 * q + k2 * S
  <2>. DEFINE y1 == b2 * q
              y2 == (q * v) * S
              y3 == k * S
              y4 == S * u
              y5 == x * b
              y6 == b * r
              y7 == k2 * S
  <2>1. y1 \in Nat /\ y2 \in Nat /\ y3 \in Nat /\ y4 \in Nat /\ y5 \in Nat /\ y6 \in Nat
    <3>1. q * v \in Nat
      BY <1>5
    <3>2. (q * v) * S \in Nat
      <4>. DEFINE y == q * v
      <4>. HIDE DEF y
      <4>1. y \in Nat => y * S \in Nat
        BY <1>2
      <4>. QED BY <3>1, <4>1 DEF y
    <3>. QED BY <1>2, <1>4, <1>6, <3>2
  <2>2. y6 = (y2 + y1) + y5
    <3>1. y6 = q * (S * v + b2) + x * b
      BY <1>6, <1>7
    <3>. QED BY <1>8, <3>1
  <2>3. n = t + y6 + y3 /\ t + y5 = y4 + t2 /\ y7 = y4 + y2 + y3
    BY <1>1, <1>3, <1>4, <1>9 DEF S
  <2>. HIDE DEF y1, y2, y3, y4, y5, y6, y7, k2
  <2>4. n = t2 + y1 + y7
    BY <1>4, <2>1, <2>2, <2>3
  <2>. QED BY <2>4 DEF y1, y7
<1>. HIDE DEF k2
<1>11. SumAgrees(n, t2, b2, q)
  BY <1>9, <1>10 DEF SumAgrees, S
<1>. QED BY <1>4, <1>6, <1>11 DEF t2, sum, b2, c, S

LEMMA TurnIsExact ==
  ASSUME NEW n \in Nat, NEW t \in Nat, NEW b \in Nat, NEW r \in Nat, NEW x \in Nat, NEW q \in Nat,
         r = 128 * q + x, r # 0, SumIsExact(n, t, b, r)
  PROVE  /\ SumIsExact(n, Sum(t, b, x) % SumSpan, (b % Room) * 128, q)
         /\ 128 * n < SumSpan => Sum(t, b, x) < SumSpan /\ b < Room
<1>. SUFFICES ASSUME 128 * n < SumSpan
     PROVE  /\ n = (Sum(t, b, x) % SumSpan) + ((b % Room) * 128) * q
            /\ Sum(t, b, x) < SumSpan /\ b < Room
  BY DEF SumIsExact
<1>1. n = t + b * r
  BY DEF SumIsExact
<1>2. Room \in Nat \ {0} /\ SumSpan \in Nat \ {0} /\ SumSpan = 128 * Room
  BY RoomIs
<1>. DEFINE y == b * q
            z == x * b
            w == b * r
<1>3. y \in Nat /\ z \in Nat /\ w = 128 * y + z /\ w >= b
  <2>1. b * (128 * q + x) = 128 * (b * q) + x * b
    OBVIOUS
  <2>2. b * r >= b
    <3>1. r - 1 \in Nat /\ b * (r - 1) \in Nat
      OBVIOUS
    <3>2. b * r = b * (r - 1) + b
      OBVIOUS
    <3>. DEFINE g == b * (r - 1)
    <3>. HIDE DEF g
    <3>3. g \in Nat /\ w = g + b
      BY <3>1, <3>2 DEF g
    <3>. HIDE DEF w
    <3>4. w >= b
      BY <3>3
    <3>. QED BY <3>4 DEF w
  <2>. QED BY <2>1, <2>2
<1>4. n = t + w /\ Sum(t, b, x) = t + z
  BY <1>1 DEF Sum
<1>. HIDE DEF w
<1>5. b * 128 * q = 128 * y
  OBVIOUS
<1>. HIDE DEF y, z
<1>6. b <= n /\ t + z <= n /\ n <= SumSpan
  BY <1>2, <1>3, <1>4
<1>7. b < Room /\ t + z < SumSpan
  BY <1>2, <1>3, <1>6
<1>8. b % Room = b /\ (t + z) % SumSpan = t + z
  <2>1. \A p \in Nat \ {0}, a \in Nat : a < p => a % p = a
    OBVIOUS
  <2>2. t + z \in Nat
    BY <1>3
  <2>. QED BY <1>2, <1>7, <2>1, <2>2
<1>9. n = (t + z) + 128 * y
  BY <1>3, <1>4
<1>. QED BY <1>4, <1>5, <1>7, <1>8, <1>9

(* What the decoder has room for is far from an overflow.                    *)
LEMMA RoomForAll ==
  ASSUME NEW c \in Codes, c.kind \in {"reuse", "shape", "number"}, Fits(c)
  PROVE  128 * NumberOf(c) < SumSpan
<1>. DEFINE v == c.value
            W == WordSpan
<1>1. W \in Nat \ {0} /\ TagSpan \in Nat /\ TagSpan <= W /\ SumSpan \in Nat /\ 512 * W <= SumSpan /\ W % 4 = 0
  BY WidthsAssumption
<1>2. CASE c.kind = "reuse"
  <2>1. v \in Nat /\ v \div 2 < W /\ NumberOf(c) = v
    BY <1>2, CodesAre DEF Fits, NumberOf
  <2>. HIDE DEF v, W
  <2>2. v < 2 * W
    BY <1>1, <2>1
  <2>. QED BY <1>1, <2>1, <2>2
<1>3. CASE c.kind = "shape"
  <2>1. v \in Nat /\ v < TagSpan /\ NumberOf(c) = v
    BY <1>3, CodesAre DEF Fits, NumberOf
  <2>. HIDE DEF v, W
  <2>. QED BY <1>1, <2>1
<1>4. CASE c.kind = "number"
  <2>. DEFINE size == IF v < 0 THEN 0 - v ELSE v
  <2>1. v \in Int /\ NumberOf(c) = EncodeInteger(v)
    BY <1>4, CodesAre DEF NumberOf
  <2>2. \/ size < W \div 2
        \/ v \in 0 - (W \div 4) .. (W \div 4) - 1
    BY <1>4 DEF Fits
  <2>. HIDE DEF v, W
  <2>3. W \div 2 \in Nat /\ W \div 4 \in Nat /\ W = 2 * (W \div 2) /\ W = 4 * (W \div 4)
    BY <1>1
  <2>4. size \in Nat /\ 2 * size <= W
    BY <1>1, <2>1, <2>2, <2>3
  <2>5. EncodeInteger(v) \in Nat /\ EncodeInteger(v) <= 2 * W + 1
    BY <1>1, <2>1, <2>4 DEF EncodeInteger
  <2>. QED BY <1>1, <2>1, <2>5
<1>. QED BY <1>2, <1>3, <1>4

LEMMA TailStep ==
  ASSUME ByteInv, ReadTail
  PROVE  ByteInv' /\ (state' = "panic" => ~(128 * NumberOf(sent) < SumSpan))
<1>1. /\ state = "tail" /\ part % 2 = 1 /\ input \in Seq(Nat) /\ Sending
      /\ UNCHANGED <<build, sent, missing, following, kind, received>>
  BY DEF ByteInv, ReadTail, given
<1>2. PICK r \in Nat : Waits(r)
  BY <1>1 DEF ByteInv
<1>. DEFINE d == Digits(r, 128)
            t == EncodeIntegerTail[r \div 128]
<1>3. r # 0
  BY <1>1, <1>2 DEF Waits
<1>4. /\ r \div 128 \in Nat /\ r = 128 * (r \div 128) + (r % 128) /\ r % 128 \in Nat
      /\ d \in Nat /\ d \div 2 = r % 128 /\ d % 2 = IF r \div 128 = 0 THEN 0 ELSE 1
  <2>1. \A b \in Nat \ {0} :
          /\ r \div b \in Nat /\ r = b * (r \div b) + (r % b) /\ r % b \in Nat
          /\ Digits(r, b) \in Nat /\ Digits(r, b) \div 2 = r % b
          /\ Digits(r, b) % 2 = IF r \div b = 0 THEN 0 ELSE 1
    BY DigitsAre
  <2>. QED BY <2>1
<1>5. t \in Seq(Nat) /\ EncodeIntegerTail[r] = <<d>> \o t
  <2>1. EncodeIntegerTail \in [Nat -> Seq(Nat)]
    BY TailOf
  <2>2. t \in Seq(Nat)
    <3>. DEFINE q == r \div 128
    <3>1. q \in Nat
      BY <1>4
    <3>. HIDE DEF q
    <3>2. EncodeIntegerTail[q] \in Seq(Nat)
      BY <2>1, <3>1
    <3>. QED BY <3>2 DEF q
  <2>3. EncodeIntegerTail[r] = IF r = 0 THEN <<>> ELSE <<d>> \o t
    BY TailOf DEF IntegerBase
  <2>. QED BY <1>3, <2>2, <2>3
<1>. HIDE DEF d, t
<1>6. CutFrom(input, <<d>> \o t)
  BY <1>2, <1>5 DEF Waits
<1>7. CASE input = <<>>
  <2>1. missing = 1
    <3>1. SUFFICES ASSUME missing = 0 PROVE FALSE
      BY <1>1 DEF Sending
    <3>. DEFINE after == following
    <3>2. after \in Seq(Nat)
      BY <1>1 DEF Sending
    <3>3. PICK lost \in Seq(Nat) : Len(lost) = missing /\ input \o lost = (<<d>> \o t) \o after
      BY <1>6 DEF CutFrom
    <3>. HIDE DEF after
    <3>4. input \o lost = <<>>
      BY <1>7, <3>1, <3>3
    <3>5. Len((<<d>> \o t) \o after) >= 1
      BY <1>4, <1>5, <3>2
    <3>. QED BY <3>3, <3>4, <3>5
  <2>2. state' = "end" /\ UNCHANGED <<input, part, total, base>>
    BY <1>7 DEF ReadTail
  <2>3. Sending'
    BY <1>1, CutStays
  <2>. QED BY <1>1, <2>1, <2>2, <2>3 DEF ByteInv, CodeKept
<1>8. CASE input # <<>>
  <2>. DEFINE h == Head(input)
              x == r % 128
              q == r \div 128
              n == NumberOf(sent)
              sum == Sum(total, base, x)
  <2>1. h = d /\ Tail(input) \in Seq(Nat) /\ CutFrom(Tail(input), t)
    BY <1>1, <1>4, <1>5, <1>6, <1>8, NextByte
  <2>2. q \in Nat /\ x \in Nat /\ r = 128 * q + x /\ h \div 2 = x
    BY <1>4, <2>1
  <2>3. /\ part' = d /\ input' = Tail(input)
        /\ total' = sum % SumSpan /\ base' = (base % Room) * 128
        /\ state' = IF build.checked /\ (sum >= SumSpan \/ base >= Room) THEN "panic" ELSE "tail"
    BY <1>1, <1>8, <2>1, <2>2 DEF ReadTail, IntegerBase, Sum, Room
  <2>4. CutFrom(input, t)' /\ Sending'
    BY <1>1, <2>1, <2>3, CutStays
  <2>5. /\ total \in Nat /\ base \in Nat /\ n \in Nat
        /\ SumAgrees(n, total, base, r) /\ SumIsExact(n, total, base, r)
    <3>1. n \in Nat
      BY <1>1, <1>2, SentIsNumber DEF Waits, Sending
    <3>. QED BY <1>2, <3>1 DEF Waits
  <2>. HIDE DEF h, x, q, n, sum
  <2>6. /\ total' \in 0 .. SumSpan - 1 /\ base' \in Nat
        /\ SumAgrees(n, total', base', q)
    <3>1. /\ sum % SumSpan \in 0 .. SumSpan - 1 /\ (base % Room) * 128 \in Nat
          /\ SumAgrees(n, sum % SumSpan, (base % Room) * 128, q)
      BY ONLY <2>2, <2>5, TurnAgrees DEF sum
    <3>. QED BY ONLY <2>3, <3>1, Zenon
  <2>7. /\ SumIsExact(n, total', base', q)
        /\ 128 * n < SumSpan => sum < SumSpan /\ base < Room
    <3>1. /\ SumIsExact(n, sum % SumSpan, (base % Room) * 128, q)
          /\ 128 * n < SumSpan => sum < SumSpan /\ base < Room
      BY ONLY <1>2, <1>3, <2>2, <2>5, TurnIsExact DEF sum
    <3>. QED BY ONLY <2>3, <3>1, Zenon
  <2>8. CASE state' = "tail"
    <3>1. NumberOf(sent)' = n
      BY <1>1 DEF NumberOf, EncodeFloat, EncodeInteger, n
    <3>2. part' \in Nat /\ part' % 2 = IF q = 0 THEN 0 ELSE 1
      BY <1>4, <2>3 DEF q
    <3>3. CutFrom(input, EncodeIntegerTail[q])'
      BY <2>4 DEF t, q
    <3>4. /\ sent'.kind \in {"reuse", "shape", "number", "float"}
          /\ kind' = IF sent'.kind = "float" THEN "number" ELSE sent'.kind
      BY <1>1, <1>2 DEF Waits
    <3>5. Waits(q)'
      BY <2>6, <2>7, <3>1, <3>2, <3>3, <3>4 DEF Waits, SumAgrees, SumIsExact
    <3>6. (\E s \in Nat : Waits(s))'
      BY <2>2, <3>5
    <3>. QED BY <2>1, <2>3, <2>4, <2>8, <3>6 DEF ByteInv, CodeKept
  <2>9. CASE state' = "panic"
    <3>1. build.checked /\ (sum >= SumSpan \/ base >= Room)
      BY <2>3, <2>9
    <3>2. ~(128 * n < SumSpan)
      <4>1. sum \in Nat /\ SumSpan \in Nat /\ Room \in Nat
        BY <2>2, <2>5, RoomIs DEF sum, Sum
      <4>. QED BY <2>5, <2>7, <3>1, <4>1
    <3>3. sent.kind = "float" \/ ~Fits(sent)
      BY <1>1, <1>2, <3>2, RoomForAll DEF Waits, Sending, n
    <3>4. Fits(sent)' <=> Fits(sent)
      BY <1>1 DEF Fits
    <3>5. build'.checked /\ (sent'.kind = "float" \/ ~Fits(sent)')
      BY <1>1, <3>1, <3>3, <3>4
    <3>. QED BY <2>1, <2>3, <2>4, <2>9, <3>2, <3>5 DEF ByteInv, CodeKept, n
  <2>. QED BY <2>3, <2>8, <2>9
<1>. QED BY <1>7, <1>8

(* A cast keeps what its width has room for, and so does the integer or the     *)
(* float that is made of it.                                                *)
LEMMA SignedIs ==
  ASSUME NEW n \in Int, NEW span \in Nat \ {0}, span % 2 = 0,
         0 - (span \div 2) <= n, n < span \div 2
  PROVE  Signed(n, span) = n
<1>. DEFINE h == span \div 2
<1>1. h \in Nat /\ span = 2 * h
  OBVIOUS
<1>2. CASE n >= 0
  <2>1. n % span = n
    BY <1>1, <1>2
  <2>. QED BY <1>2, <2>1 DEF Signed
<1>3. CASE n < 0
  <2>1. n + span \in Nat /\ n + span < span
    BY <1>1, <1>3
  <2>2. n % span = n + span
    BY <2>1
  <2>3. ~(n + span < span \div 2) /\ (n + span) - span = n
    BY <1>1, <1>3
  <2>. QED BY <2>2, <2>3 DEF Signed
<1>. QED BY <1>2, <1>3

LEMMA NumberKept ==
  ASSUME NEW c \in Codes, c.kind = "number", Fits(c)
  PROVE  FromI64(c.value) = c
<1>. DEFINE v == c.value
            W == WordSpan
            size == IF v < 0 THEN 0 - v ELSE v
<1>1. v \in Int /\ c = [kind |-> "number", value |-> v]
  BY CodesAre
<1>2. IF build.float THEN Log[size] < Precision /\ size < W \div 2
      ELSE v \in 0 - (W \div 4) .. (W \div 4) - 1
  BY DEF Fits
<1>3. CASE build.float
  <2>1. size \in Nat
    BY <1>1
  <2>. HIDE DEF size
  <2>2. Log[size] \in Nat /\ Precision \in Nat /\ Log[size] < Precision
    BY <1>2, <1>3, <2>1, LogTyped, WidthsAssumption
  <2>3. Log[size] - (Precision - 1) <= 0
    BY <2>2
  <2>4. Nearest(v) = v
    BY <2>3 DEF Nearest, size
  <2>. QED BY <1>1, <1>3, <2>4 DEF FromI64
<1>4. CASE ~build.float
  <2>1. W \in Nat \ {0} /\ W % 4 = 0
    BY WidthsAssumption
  <2>2. v \in 0 - (W \div 4) .. (W \div 4) - 1
    BY <1>2, <1>4
  <2>. HIDE DEF v, W, size
  <2>. DEFINE H == W \div 2
  <2>3. H \in Nat \ {0} /\ H % 2 = 0 /\ H \div 2 = W \div 4
    BY <2>1
  <2>. HIDE DEF H
  <2>4. 0 - (H \div 2) <= v /\ v < H \div 2
    BY <1>1, <2>1, <2>2, <2>3
  <2>5. Signed(v, H) = v
    BY <1>1, <2>3, <2>4, SignedIs
  <2>. QED BY <1>1, <1>4, <2>5 DEF FromI64, H, W, v
<1>. QED BY <1>3, <1>4

LEMMA NumberArrives ==
  ASSUME NEW c \in Codes, c.kind = "number", Fits(c), NEW n, n = EncodeInteger(c.value)
  PROVE  /\ DecodeNumberCode(n) = c
         /\ n % 4 # 3 /\ (n % 4 = 1 => Signed(n \div 4, WordSpan) # LeastI64)
<1>. DEFINE v == c.value
            W == WordSpan
            size == IF v < 0 THEN 0 - v ELSE v
<1>1. v \in Int /\ W \in Nat \ {0} /\ W % 4 = 0
  BY CodesAre, WidthsAssumption
<1>2. \/ size < W \div 2
      \/ v \in 0 - (W \div 4) .. (W \div 4) - 1
  BY DEF Fits
<1>3. FromI64(v) = c
  BY NumberKept
<1>. HIDE DEF v, W, size
<1>4. size \in Nat /\ size < W \div 2
  BY <1>1, <1>2 DEF size
<1>5. Signed(size, W) = size
  <2>1. W % 2 = 0 /\ 0 - (W \div 2) <= size
    BY <1>1, <1>4
  <2>. QED BY <1>1, <1>4, <2>1, SignedIs
<1>6. CASE v < 0
  <2>1. n = 1 + 4 * size /\ size # 0 /\ 0 - size = v
    BY <1>1, <1>6 DEF EncodeInteger, size, v
  <2>2. n % 2 # 0 /\ n % 4 = 1 /\ n \div 4 = size
    BY <1>4, <2>1
  <2>3. size # LeastI64 /\ LeastI64 \in Int
    BY <1>1, <1>4, <2>1 DEF LeastI64, W
  <2>4. Negated(size) = v
    BY <2>1, <2>3 DEF Negated
  <2>5. DecodeNumberCode(n) = FromI64(Negated(Signed(size, W)))
    BY <2>2 DEF DecodeNumberCode, W
  <2>. QED BY <1>3, <1>5, <2>2, <2>3, <2>4, <2>5 DEF W
<1>7. CASE ~(v < 0)
  <2>1. n = 2 * size /\ size = v
    BY <1>1, <1>7 DEF EncodeInteger, size, v
  <2>2. n % 2 = 0 /\ n \div 2 = size /\ n % 4 # 1 /\ n % 4 # 3
    BY <1>4, <2>1
  <2>3. DecodeNumberCode(n) = FromI64(Signed(size, W))
    BY <2>2 DEF DecodeNumberCode, W
  <2>. QED BY <1>3, <1>5, <2>1, <2>2, <2>3
<1>. QED BY <1>6, <1>7

LEMMA IndexArrives ==
  ASSUME NEW n \in Nat, n \div 2 < WordSpan
  PROVE  DecodeIndex(n) = n /\ ~(n \div 2 > 0 /\ (n \div 2) % WordSpan = 0)
<1>. DEFINE i == n \div 2
            W == WordSpan
<1>1. W \in Nat \ {0} /\ i \in Nat /\ n = 2 * i + (n % 2) /\ n % 2 \in {0, 1} /\ i < W
  BY WidthsAssumption
<1>2. DecodeIndex(n) = (n % 2) + 2 * (IF i > 0 /\ i % W = 0 THEN W ELSE i % W)
  BY DEF DecodeIndex
<1>3. i % W = i
  <2>. HIDE DEF i, W
  <2>. QED BY <1>1
<1>. HIDE DEF i, W
<1>4. ~(i > 0 /\ i % W = 0)
  BY <1>1, <1>3
<1>5. DecodeIndex(n) = (n % 2) + 2 * i
  BY <1>2, <1>3, <1>4
<1>6. DecodeIndex(n) = n
  BY <1>1, <1>5
<1>. QED BY <1>4, <1>6 DEF i, W

(* The low bits of a number, which tell its kind, survive every overflow.     *)
LEMMA LowBits ==
  ASSUME NEW n \in Nat, NEW t \in Nat, SumAgrees(n, t, 0, 0)
  PROVE  n % 2 = t % 2 /\ n % 4 = t % 4
<1>1. PICK k \in Nat : n = t + 0 * 0 + k * SumSpan
  BY DEF SumAgrees
<1>. DEFINE z == k * Room
<1>2. z \in Nat /\ k * SumSpan = 128 * z
  <2>1. Room \in Nat /\ SumSpan = 128 * Room
    BY RoomIs
  <2>. QED BY <2>1
<1>. HIDE DEF z
<1>3. n = t + 128 * z
  BY <1>1, <1>2
<1>. QED BY <1>2, <1>3

LEMMA FinishKept ==
  ASSUME Sending, missing = 0, input = following, input \in Seq(Nat),
         UNCHANGED <<build, sent, missing, following, input>>,
         state' = IF build.checked /\ Overflows THEN "panic" ELSE "read",
         received'.kind = sent.kind,
         sent.kind # "float" => (Fits(sent) => received' = sent /\ ~Overflows)
  PROVE  ByteInv'
<1>1. Sending'
  BY DEF Sending
<1>2. Fits(sent)' <=> Fits(sent)
  BY DEF Fits
<1>3. CASE state' = "read"
  BY <1>1, <1>2, <1>3 DEF ByteInv, CodeKept
<1>4. CASE state' = "panic"
  <2>1. build.checked /\ Overflows
    BY <1>4
  <2>2. build'.checked /\ (sent'.kind = "float" \/ ~Fits(sent)')
    BY <1>2, <2>1
  <2>. QED BY <1>1, <1>4, <2>2 DEF ByteInv, CodeKept
<1>. QED BY <1>3, <1>4

LEMMA FinishStep ==
  ASSUME ByteInv, FinishCode
  PROVE  ByteInv'
<1>1. /\ state = "tail" /\ part % 2 = 0 /\ input \in Seq(Nat) /\ Sending /\ sent \in Codes
      /\ UNCHANGED <<build, sent, missing, following, input, kind, total>>
      /\ received' = CASE kind = "number" -> DecodeNumberCode(total)
                       [] kind = "reuse" -> [kind |-> kind, value |-> DecodeIndex(total)]
                       [] kind = "shape" -> [kind |-> kind, value |-> total % TagSpan]
      /\ state' = IF build.checked /\ Overflows THEN "panic" ELSE "read"
  BY DEF ByteInv, FinishCode, locals, given, Sending
<1>2. PICK r \in Nat : Waits(r)
  BY <1>1 DEF ByteInv
<1>3. r = 0
  BY <1>1, <1>2 DEF Waits
<1>. DEFINE n == NumberOf(sent)
<1>4. /\ n \in Nat /\ total \in Nat /\ SumAgrees(n, total, 0, 0)
      /\ 128 * n < SumSpan => total = n
  <2>1. n \in Nat
    BY <1>1, <1>2, SentIsNumber DEF Waits
  <2>2. total \in Nat /\ base \in Nat /\ SumAgrees(n, total, base, 0) /\ SumIsExact(n, total, base, 0)
    BY <1>2, <1>3 DEF Waits
  <2>3. base * 0 = 0 /\ 0 * 0 = 0
    BY <2>2
  <2>. HIDE DEF n
  <2>4. SumAgrees(n, total, 0, 0)
    BY <2>2, <2>3 DEF SumAgrees
  <2>5. 128 * n < SumSpan => total = n
    BY <2>1, <2>2, <2>3 DEF SumIsExact
  <2>. QED BY <2>1, <2>2, <2>4, <2>5
<1>5. missing = 0 /\ input = following
  <2>1. EncodeIntegerTail[r] = <<>>
    BY <1>3, TailOf
  <2>2. CutFrom(input, <<>>)
    BY <1>2, <2>1 DEF Waits
  <2>. QED BY <1>1, <2>2, NothingLeft
<1>6. n % 2 = total % 2 /\ n % 4 = total % 4
  <2>. HIDE DEF n
  <2>. QED BY <1>4, LowBits
<1>7. sent.kind # "float" /\ Fits(sent) => total = n
  BY <1>1, <1>2, <1>4, RoomForAll DEF Waits
<1>8. CASE sent.kind = "reuse"
  <2>1. kind = "reuse" /\ n = sent.value
    BY <1>2, <1>8 DEF Waits, NumberOf
  <2>2. received' = [kind |-> "reuse", value |-> DecodeIndex(total)]
    BY <1>1, <2>1
  <2>3. ASSUME Fits(sent) PROVE DecodeIndex(total) = sent.value /\ ~Overflows
    <3>1. total = sent.value /\ total \div 2 < WordSpan
      BY <1>7, <1>8, <2>1, <2>3 DEF Fits
    <3>2. DecodeIndex(total) = total /\ ~(total \div 2 > 0 /\ (total \div 2) % WordSpan = 0)
      BY <1>4, <3>1, IndexArrives
    <3>. QED BY <2>1, <3>1, <3>2 DEF Overflows
  <2>4. sent = [kind |-> "reuse", value |-> sent.value]
    BY <1>1, <1>8, CodesAre
  <2>5. received'.kind = sent.kind /\ (Fits(sent) => received' = sent /\ ~Overflows)
    BY <1>8, <2>2, <2>3, <2>4
  <2>. QED BY <1>1, <1>5, <1>8, <2>5, CutStays, FinishKept
<1>9. CASE sent.kind = "shape"
  <2>1. kind = "shape" /\ n = sent.value
    BY <1>2, <1>9 DEF Waits, NumberOf
  <2>2. received' = [kind |-> "shape", value |-> total % TagSpan]
    BY <1>1, <2>1
  <2>3. ASSUME Fits(sent) PROVE total % TagSpan = sent.value /\ ~Overflows
    <3>1. total = sent.value /\ total < TagSpan /\ TagSpan \in Nat \ {0}
      BY <1>7, <1>9, <2>1, <2>3, WidthsAssumption DEF Fits
    <3>2. total % TagSpan = total
      BY <1>4, <3>1
    <3>. QED BY <2>1, <3>1, <3>2 DEF Overflows
  <2>4. sent = [kind |-> "shape", value |-> sent.value]
    BY <1>1, <1>9, CodesAre
  <2>5. received'.kind = sent.kind /\ (Fits(sent) => received' = sent /\ ~Overflows)
    BY <1>9, <2>2, <2>3, <2>4
  <2>. QED BY <1>1, <1>5, <1>9, <2>5, CutStays, FinishKept
<1>10. CASE sent.kind = "number"
  <2>1. kind = "number" /\ n = EncodeInteger(sent.value) /\ sent.value \in Int
    BY <1>1, <1>2, <1>10, CodesAre DEF Waits, NumberOf
  <2>2. received' = DecodeNumberCode(total)
    BY <1>1, <2>1
  <2>3. received'.kind = "number"
    <3>1. n % 2 = 0 \/ n % 4 = 1
      BY <2>1 DEF EncodeInteger
    <3>2. \/ DecodeNumberCode(total) = FromI64(Signed(total \div 2, WordSpan))
          \/ DecodeNumberCode(total) = FromI64(Negated(Signed(total \div 4, WordSpan)))
      BY <1>6, <3>1 DEF DecodeNumberCode
    <3>. QED BY <2>2, <3>2 DEF FromI64
  <2>4. ASSUME Fits(sent) PROVE received' = sent /\ ~Overflows
    <3>1. total = EncodeInteger(sent.value)
      BY <1>7, <1>10, <2>1, <2>4
    <3>2. /\ DecodeNumberCode(total) = sent
          /\ total % 4 # 3 /\ (total % 4 = 1 => Signed(total \div 4, WordSpan) # LeastI64)
      BY <1>1, <1>10, <2>4, <3>1, NumberArrives
    <3>. QED BY <2>1, <2>2, <3>2 DEF Overflows
  <2>5. received'.kind = sent.kind /\ (Fits(sent) => received' = sent /\ ~Overflows)
    BY <1>10, <2>3, <2>4
  <2>. QED BY <1>1, <1>5, <1>10, <2>5, CutStays, FinishKept
<1>11. CASE sent.kind = "float"
  <2>1. kind = "number" /\ n = EncodeFloat(sent)
    BY <1>2, <1>11 DEF Waits, NumberOf
  <2>2. PICK m \in Nat : n = 3 + 4 * m
    BY <1>1, <1>11, <2>1, FloatIsPacked
  <2>3. total % 2 # 0 /\ total % 4 # 1
    <3>. HIDE DEF n
    <3>. QED BY <1>6, <2>2
  <2>4. received' = DecodeFloat(total \div 4)
    BY <1>1, <2>1, <2>3 DEF DecodeNumberCode
  <2>5. received'.kind = sent.kind
    BY <1>11, <2>4 DEF DecodeFloat
  <2>. QED BY <1>1, <1>5, <1>11, <2>5, CutStays, FinishKept
<1>. QED BY <1>2, <1>8, <1>9, <1>10, <1>11 DEF Waits

(* A fraction that is less than epsilon is dropped: rounded to the integer below. *)
LEMMA WholeIsNear ==
  ASSUME NEW m \in Nat, NEW d, 2^d \in Nat \ {0}, IsWhole(m, d)
  PROVE  LET error == Rounded(m, d) * 2^d - m
         IN error <= 0 /\ (0 - error) * InverseEpsilon < 2^d
<1>. DEFINE p == 2^d
            q == m \div p
            r == m % p
            x == Rounded(m, d)
            E == InverseEpsilon
<1>1. p \in Nat \ {0} /\ E \in Nat /\ E >= 2
  BY WidthsAssumption
<1>2. q \in Int /\ m = p * q + r /\ r \in 0 .. p - 1
  <2>. HIDE DEF p
  <2>. QED BY <1>1, QuotientAndRest
<1>3. x = IF 2 * r > p \/ (2 * r = p /\ q % 2 = 1) THEN q + 1 ELSE q
  BY DEF Rounded
<1>4. r * E < p
  BY DEF IsWhole
<1>. HIDE DEF p, q, r, x, E
<1>5. 2 * r < p
  <2>. DEFINE more == E - 2
  <2>1. more \in Nat /\ E = more + 2 /\ r \in Nat
    BY <1>1, <1>2
  <2>. HIDE DEF more
  <2>2. r * more \in Nat /\ r * (more + 2) = r * more + 2 * r
    BY <2>1
  <2>. DEFINE g == r * more
              w == r * E
  <2>3. g \in Nat /\ w = 2 * r + g /\ w < p
    BY <1>4, <2>1, <2>2
  <2>. HIDE DEF g, w
  <2>. QED BY <1>1, <2>1, <2>3
<1>6. x = q
  BY <1>1, <1>2, <1>3, <1>5
<1>7. x * p - m = 0 - r
  <2>1. x * p = p * q
    BY <1>1, <1>2, <1>6
  <2>. DEFINE y == p * q
  <2>2. y \in Int /\ x * p = y /\ m = y + r
    BY <1>1, <1>2, <2>1
  <2>. HIDE DEF y
  <2>. QED BY <1>2, <2>2
<1>. DEFINE error == x * p - m
<1>8. error = 0 - r
  BY <1>7
<1>. HIDE DEF error
<1>9. error <= 0 /\ 0 - error = r
  BY <1>2, <1>8
<1>10. error <= 0 /\ (0 - error) * E < p
  BY <1>4, <1>9
<1>. QED BY <1>10 DEF error, E, p, x

(* Where the fraction is not, the loop stops at the most bits that it may drop: *)
(* more than FloatBits are left.                                            *)
LEMMA BitsAreLeft ==
  ASSUME NEW m \in Nat, NEW d, d = Dropped(m), Doubling(Log[m]), ~IsWhole(m, d), d # 0,
         Rounded(m, d) >= m \div 2^d
  PROVE  Rounded(m, d) > 2^FloatBits
<1>. DEFINE l == Log[m]
            b == FloatBits
            p == 2^d
            u == 2^b
            v == 2^(b + 1)
            w == 2^(b + 2)
            x == Rounded(m, d)
<1>1. l \in Nat /\ b \in Nat /\ Doubling(l)
  BY LogTyped, WidthsAssumption
<1>2. /\ d \in 0 .. l /\ d <= l - (b + 2)
      /\ \A more \in d + 1 .. l : ~(more <= l - (b + 2))
  <2>1. 2^0 = 1
    BY DEF Doubling
  <2>. QED BY <2>1, DroppedIs DEF Stops
<1>3. x >= m \div p
  OBVIOUS
<1>4. m # 0
  <2>1. m = 0 => Log[m] = 0
    BY LogTyped
  <2>2. l > 0
    BY <1>1, <1>2
  <2>. QED BY <2>1, <2>2
<1>5. 2^l <= m
  BY <1>1, <1>4, PowerBelow
<1>. HIDE DEF l, b, x
<1>6. d = l - (b + 2)
  <2>1. SUFFICES ASSUME d < l - (b + 2) PROVE FALSE
    BY <1>1, <1>2
  <2>2. d + 1 \in d + 1 .. l /\ d + 1 <= l - (b + 2)
    BY <1>1, <1>2, <2>1
  <2>. QED BY <1>2, <2>2
<1>7. b \in 0 .. l - 1 /\ b + 1 \in 0 .. l - 1 /\ (b + 1) + 1 = b + 2 /\ b \in 0 .. l
      /\ b + 2 \in 0 .. l - d /\ d + (b + 2) = l
  BY <1>1, <1>2, <1>6
<1>8. u \in Nat \ {0} /\ p \in Nat \ {0}
  BY <1>1, <1>2, <1>7, PowersAre
<1>9. v = 2 * u /\ w = 2 * v
  BY <1>1, <1>7 DEF Doubling
<1>10. 2^l = p * w
  <2>1. 2^(d + (b + 2)) = 2^d * 2^(b + 2)
    BY <1>1, <1>2, <1>7, PowersMultiply
  <2>. QED BY <1>7, <2>1
<1>. HIDE DEF p, u, v, w
<1>11. w = 4 * u
  BY <1>8, <1>9
<1>. DEFINE q == m \div p
            y == m % p
<1>12. q \in Int /\ m = p * q + y /\ y \in 0 .. p - 1
  BY <1>8, QuotientAndRest
<1>13. x >= q
  BY <1>3
<1>. HIDE DEF q, y
<1>14. q >= w
  <2>1. SUFFICES ASSUME q <= w - 1 PROVE FALSE
    BY <1>8, <1>11, <1>12
  <2>2. p * q <= p * (w - 1)
    <3>1. (w - 1) - q \in Nat
      BY <1>8, <1>11, <1>12, <2>1
    <3>2. p * ((w - 1) - q) \in Nat /\ p * ((w - 1) - q) = p * (w - 1) - p * q
      BY <1>8, <1>11, <1>12, <3>1
    <3>. DEFINE a1 == p * ((w - 1) - q)
                a2 == p * (w - 1)
                a3 == p * q
    <3>3. a1 \in Nat /\ a2 \in Int /\ a3 \in Int /\ a1 = a2 - a3
      BY <1>8, <1>11, <1>12, <3>2
    <3>. HIDE DEF a1, a2, a3
    <3>4. a3 <= a2
      BY <3>3
    <3>. QED BY <3>4 DEF a2, a3
  <2>3. p * (w - 1) = p * w - p
    BY <1>8, <1>11
  <2>. DEFINE g == p * q
              h == p * w
  <2>4. g \in Int /\ h \in Nat /\ g <= h - p /\ m = g + y /\ h <= m
    BY <1>5, <1>8, <1>10, <1>11, <1>12, <2>2, <2>3
  <2>. HIDE DEF g, h
  <2>. QED BY <1>8, <1>12, <2>4
<1>15. x > u
  <2>1. x \in Int
    <3>1. x \in {q, q + 1}
      BY DEF Rounded, x, q, p
    <3>. QED BY <1>12, <3>1
  <2>. QED BY <1>8, <1>11, <1>12, <1>13, <1>14, <2>1
<1>. QED BY <1>15 DEF x, u, b

(* What is left of a float whose exponent the shift of the reader can undo.   *)
ShiftsFit ==
  \A c \in Codes : c.kind = "float" => c.exponent + Dropped(c.mantissa) \in -63 .. 63

LEMMA FloatStep ==
  ASSUME ByteInv, FinishCode, ShiftsFit, sent.kind = "float"
  PROVE  FloatKept'
<1>1. /\ state = "tail" /\ part % 2 = 0 /\ sent \in Codes /\ sent' = sent
      /\ kind = "number" => received' = DecodeNumberCode(total)
      /\ state' = IF build.checked /\ Overflows THEN "panic" ELSE "read"
  BY DEF ByteInv, FinishCode, Sending, given
<1>2. PICK c \in Codes : c = sent
  BY <1>1
<1>3. PICK r \in Nat : Waits(r)
  BY <1>1 DEF ByteInv
<1>4. r = 0 /\ kind = "number" /\ total = NumberOf(sent) /\ total \in Nat
  <2>1. r = 0 /\ kind = "number" /\ total \in Nat /\ base \in Nat
    BY <1>1, <1>3 DEF Waits
  <2>2. SumIsExact(NumberOf(sent), total, base, 0)
    BY <1>3, <2>1 DEF Waits
  <2>3. 128 * NumberOf(sent) < SumSpan
    BY <1>1, FloatsAssumption DEF NumberOf, IntegerBase
  <2>4. NumberOf(sent) \in Nat /\ base * 0 = 0
    BY <1>1, <2>1, SentIsNumber
  <2>5. total = NumberOf(sent)
    BY <2>1, <2>2, <2>3, <2>4 DEF SumIsExact
  <2>. QED BY <2>1, <2>5
<1>5. /\ c.negative \in BOOLEAN /\ c.mantissa \in Nat /\ c.exponent \in Int /\ c.kind = "float"
  BY <1>2, CodesAre
<1>. DEFINE m == c.mantissa
            d == Dropped(m)
            x == Rounded(m, d)
            e == c.exponent + d
            s == IF c.negative THEN 1 ELSE 0
            n == Packed(c)
            p == 2^d
            l == Log[m]
<1>6. d \in 0 .. l /\ p \in Nat \ {0} /\ x \in Nat /\ n \in Nat /\ total = 3 + 4 * n
  BY <1>2, <1>4, <1>5, FloatIsPacked DEF NumberOf
<1>7. e \in -63 .. 63
  BY <1>5 DEF ShiftsFit
<1>8. n = s + 2 * (e + 1023) + 4096 * x /\ s \in {0, 1} /\ (s = 1 <=> c.negative)
  BY DEF Packed
<1>9. l \in Nat /\ m \in Nat
  BY <1>5, LogTyped
<1>. HIDE DEF m, d, x, e, n, p, l, s
<1>10. received' = DecodeFloat(n) /\ total % 4 = 3 /\ total \div 4 = n
  <2>1. total % 2 # 0 /\ total % 4 # 1 /\ total % 4 = 3 /\ total \div 4 = n
    BY <1>6
  <2>. QED BY <1>1, <1>4, <2>1 DEF DecodeNumberCode
<1>11. n % 2 = s /\ (n \div 2) % 2048 = e + 1023 /\ n \div 4096 = x
  <2>1. n % 2 = s /\ n \div 2 = (e + 1023) + 2048 * x
    BY <1>6, <1>7, <1>8
  <2>2. ((e + 1023) + 2048 * x) % 2048 = e + 1023
    BY <1>6, <1>7
  <2>3. n \div 4096 = x
    BY <1>6, <1>7, <1>8
  <2>. QED BY <2>1, <2>2, <2>3
<1>12. /\ received'.negative = c.negative /\ received'.mantissa = x /\ received'.exponent = e
       /\ Distance(n) \in 0 .. 63
  <2>1. Exponent(n) = e
    BY <1>7, <1>11 DEF Exponent, ExponentSpan, ExponentBias
  <2>2. Distance(n) = IF e < 0 THEN 0 - e ELSE e
    BY <2>1 DEF Distance
  <2>3. Distance(n) \in 0 .. 63 /\ Distance(n) % 64 = Distance(n)
    BY <1>7, <2>2
  <2>. DEFINE odd == n % 2 = 1
              shift == Distance(n) % 64
              power == IF e < 0 THEN 0 - shift ELSE shift
  <2>4. DecodeFloat(n) =
          [kind |-> "float", negative |-> odd, mantissa |-> n \div 4096, exponent |-> power]
    BY <2>1 DEF DecodeFloat, ExponentSpan, ShiftWidth
  <2>5. odd = c.negative
    BY <1>5, <1>8, <1>11
  <2>6. power = e
    BY <1>7, <2>2, <2>3
  <2>. HIDE DEF odd, power
  <2>. QED BY <1>10, <1>11, <2>3, <2>4, <2>5, <2>6
<1>13. state' = "read"
  <2>1. Distance(total \div 4) \in 0 .. 63
    BY <1>10, <1>12
  <2>2. ~(Distance(total \div 4) >= 64) /\ total % 4 # 1
    BY <1>10, <2>1
  <2>3. ~Overflows
    BY <1>4, <2>2 DEF Overflows, ShiftWidth
  <2>. QED BY <1>1, <2>3
<1>14. received'.exponent - c.exponent = d
  <2>1. e - c.exponent = d
    BY <1>5, <1>6, <1>9 DEF e
  <2>. QED BY <1>12, <2>1
<1>15. /\ 2 * (x * p - m) <= p /\ 2 * (x * p - m) >= -p /\ x >= m \div p /\ m \div p \in Nat
  BY <1>6, <1>9, RoundedIs DEF x, p
<1>16. IsWhole(m, d) => x * p - m <= 0 /\ (0 - (x * p - m)) * InverseEpsilon < p
  BY <1>6, <1>9, WholeIsNear DEF x, p
<1>17. ~IsWhole(m, d) => d = 0 \/ x > 2^FloatBits
  <2>1. Doubling(l) /\ 2^0 = 1
    BY <1>5, PowersAssumption DEF Doubling, l, m
  <2>. QED BY <1>9, <1>15, <2>1, BitsAreLeft DEF l, d, p, x
<1>. DEFINE cut == received'.exponent - c.exponent
            error == x * p - m
<1>18. cut = d
  BY <1>14
<1>19. /\ error <= 0 /\ (0 - error) * InverseEpsilon < p
       \/ cut = 0 \/ x > 2^FloatBits
  BY <1>16, <1>17, <1>18
<1>20. 2 * error <= p /\ 2 * error >= -p /\ p = 2^cut /\ cut \in 0 .. l
  BY <1>6, <1>15, <1>18 DEF p
<1>21. error = received'.mantissa * 2^cut - sent'.mantissa
  BY <1>1, <1>2, <1>12, <1>20 DEF m
<1>22. cut = received'.exponent - sent'.exponent
  BY <1>1, <1>2
<1>23. received'.negative = sent'.negative /\ l = Log[sent'.mantissa]
  BY <1>1, <1>2, <1>12 DEF l, m
<1>. HIDE DEF cut, error
<1>. QED BY <1>12, <1>13, <1>19, <1>20, <1>21, <1>22, <1>23 DEF FloatKept

LEMMA ByteStep ==
  ASSUME ByteInv, [ByteNext]_byteVars
  PROVE  ByteInv'
<1>1. CASE ReadHead
  BY <1>1, HeadStep
<1>2. CASE ReadTail
  BY <1>2, TailStep
<1>3. CASE FinishCode
  BY <1>3, FinishStep
<1>4. CASE UNCHANGED byteVars
  <2>1. Sending' <=> Sending
    BY <1>4 DEF byteVars, given, Sending
  <2>2. \A w : CutFrom(input, w)' <=> CutFrom(input, w)
    BY <1>4 DEF byteVars, given, CutFrom
  <2>3. NumberOf(sent)' = NumberOf(sent) /\ EncodeCode(sent)' = EncodeCode(sent)
    BY <1>4 DEF byteVars, given
  <2>4. ASSUME NEW r \in Nat PROVE Waits(r)' <=> Waits(r)
    BY <1>4, <2>2, <2>3 DEF byteVars, given, Waits, locals, SumAgrees, SumIsExact
  <2>5. Fits(sent)' <=> Fits(sent)
    BY <1>4 DEF byteVars, given, Fits
  <2>6. CodeKept' <=> CodeKept
    BY <1>4, <2>5 DEF byteVars, given, CodeKept
  <2>. QED BY <1>4, <2>1, <2>2, <2>3, <2>4, <2>6 DEF ByteInv, byteVars
<1>. QED BY <1>1, <1>2, <1>3, <1>4 DEF ByteNext

(* What is read of the bytes of a code has its kind and ends where it ends,     *)
(* whatever follows it and whatever its number; it is that code if the decoder *)
(* has room for the number, a Tag of 16 bits, a usize, a Number (Fits), and no  *)
(* such number makes a checked build panic; cut short, it is BytecodeEnd        *)
(* (CodeKept). decode_ribs and decode_integer_tail undo encode-rib and          *)
(* encode-integer-tail, and casts and wrapped sums take bits of no number that  *)
(* has room.                                                               *)
THEOREM CodesArrive == ByteSpec => []CodeKept
<1>1. ByteSpec => []ByteInv
  BY ByteStarts, ByteStep, PTL DEF ByteSpec
<1>2. ByteInv => CodeKept
  BY DEF ByteInv
<1>. QED BY <1>1, <1>2, PTL

(* A float keeps its sign, and its mantissa exactly, to more than FloatBits     *)
(* bits or to a fraction less than epsilon (FloatKept): decode_number undoes    *)
(* encode-number and decompose-float, as long as 1u64 << exponent does not      *)
(* overflow (ShiftsFit).                                                    *)
THEOREM FloatsArrive ==
  ASSUME ShiftsFit
  PROVE  ByteSpec => []FloatKept
<1>1. ByteInit => FloatKept
  BY DEF ByteInit, FloatKept
<1>2. ASSUME ByteInv, FloatKept, [ByteNext]_byteVars  PROVE FloatKept'
  <2>1. SUFFICES ASSUME sent.kind = "float"  PROVE FloatKept'
    <3>1. sent' = sent
      BY <1>2 DEF ByteNext, ReadHead, ReadTail, FinishCode, byteVars, given
    <3>. QED BY <3>1 DEF FloatKept
  <2>2. CASE ReadHead
    <3>. DEFINE h == Head(input)
    <3>1. h \in Nat
      BY <1>2, <2>2 DEF ByteInv, ReadHead
    <3>2. CodeKept' /\ sent' = sent
      BY <1>2, <2>2, HeadStep DEF ByteInv, ReadHead, given
    <3>3. \/ h % 2 = 0
          \/ (h % 2 # 0 /\ h % 4 = 1)
          \/ (h % 2 # 0 /\ h % 4 # 1 /\ h % 8 \in {3, 7})
      <4>. HIDE DEF h
      <4>. QED BY <3>1
    <3>4. state' = "tail" \/ (state' = "read" /\ received'.kind \in {"small", "share"})
      BY <2>2, <3>1, <3>3, HeadBranches DEF StartTail
    <3>. QED BY <2>1, <3>2, <3>4 DEF CodeKept, FloatKept
  <2>3. CASE ReadTail
    <3>1. state' \in {"tail", "end", "panic"}
      BY <2>3 DEF ReadTail
    <3>2. state' # "panic"
      <4>1. sent \in Codes /\ 128 * NumberOf(sent) < SumSpan
        BY <1>2, <2>1, FloatsAssumption DEF ByteInv, Sending, NumberOf, IntegerBase
      <4>. QED BY <1>2, <2>3, <4>1, TailStep
    <3>. QED BY <3>1, <3>2 DEF FloatKept
  <2>4. CASE FinishCode
    BY <1>2, <2>1, <2>4, FloatStep
  <2>5. CASE UNCHANGED byteVars
    BY <1>2, <2>5 DEF byteVars, given, FloatKept
  <2>. QED BY <1>2, <2>2, <2>3, <2>4, <2>5 DEF ByteNext
<1>3. ByteSpec => []ByteInv
  BY ByteStarts, ByteStep, PTL DEF ByteSpec
<1>. QED BY <1>1, <1>2, <1>3, PTL DEF ByteSpec
===============================================================================
