---------------------------- MODULE ProfilerProofs ----------------------------
(***************************************************************************)
(* The analysis of a profile agrees with what happened: DurationsExact,       *)
(* NeverMissing and FlamegraphAdds are invariants of Profiler, for profiles   *)
(* of any length and programs that call any procedures. The analysis is a     *)
(* loop over the records of the whole file; with one more line it is one more *)
(* step of the loop, and its state then follows the frames of the machine.    *)
(* The tools on durations are loops over a file, or a stack, that is given.   *)
(***************************************************************************)
EXTENDS Profiler, LoopTheorems, FiniteSetTheorems, SequenceTheorems, TLAPS

(* The largest element of a set of numbers up to n.                          *)
LEMMA MaxIs ==
  ASSUME NEW n \in Nat, NEW s, s \subseteq 1 .. n, s # {}
  PROVE  Max(s) \in s /\ \A y \in s : Max(s) >= y
<1>. DEFINE Distances == {n - x : x \in s}
<1>1. Distances \subseteq Nat /\ Distances # {}
  <2>1. \A x \in s : n - x \in Nat
    OBVIOUS
  <2>. QED BY <2>1
<1>. HIDE DEF Distances
<1>2. PICK d \in Distances : \A e \in Distances : d <= e
  BY <1>1, LeastNumber
<1>3. PICK x \in s : d = n - x
  BY DEF Distances
<1>4. ASSUME NEW y \in s  PROVE x >= y
  <2>1. n - y \in Distances
    BY DEF Distances
  <2>2. n - x <= n - y
    BY <1>2, <1>3, <2>1
  <2>3. x \in Nat /\ y \in Nat
    OBVIOUS
  <2>. QED BY ONLY <2>2, <2>3, n \in Nat
<1>. QED BY <1>4 DEF Max

IsFold(iter, D, b, n, body) ==
  /\ iter \in [SUBSET (1 .. n) -> D]
  /\ iter = [s \in SUBSET (1 .. n) |->
               IF s = {} THEN b ELSE body[<<iter[s \ {Max(s)}], Max(s)>>]]

(* A fold takes the largest element of a set of positions out and goes on     *)
(* with the others. There is such a function of the sets of positions.       *)
LEMMA FoldRuns ==
  ASSUME NEW D, NEW b \in D, NEW n \in Nat, NEW body \in [D \X (1 .. n) -> D]
  PROVE  \E iter : IsFold(iter, D, b, n, body)
<1>. DEFINE Folds(m, f) ==
       /\ f \in [SUBSET (1 .. m) -> D] /\ f[{}] = b
       /\ \A s \in SUBSET (1 .. m) : s # {} => f[s] = body[<<f[s \ {Max(s)}], Max(s)>>]
<1>. DEFINE T == {m \in 0 .. n : \E f : Folds(m, f)}
<1>1. 0 \in T
  <2>1. 1 .. 0 = {}
    OBVIOUS
  <2>. DEFINE start == [s \in SUBSET (1 .. 0) |-> b]
  <2>2. Folds(0, start)
    BY <2>1
  <2>. HIDE DEF Folds, start
  <2>. QED BY <2>2
<1>2. ASSUME NEW m \in 0 .. n - 1, m \in T  PROVE m + 1 \in T
  <2>1. PICK f : Folds(m, f)
    BY <1>2
  <2>. DEFINE g == [s \in SUBSET (1 .. m + 1) |->
                      IF m + 1 \in s THEN body[<<f[s \ {m + 1}], m + 1>>] ELSE f[s]]
  <2>2. m + 1 \in 1 .. n /\ m + 1 \in 0 .. n /\ m + 1 \in Nat
    OBVIOUS
  <2>3. ASSUME NEW s \in SUBSET (1 .. m + 1)
        PROVE  s \ {m + 1} \in SUBSET (1 .. m) /\ (m + 1 \notin s => s \in SUBSET (1 .. m))
    OBVIOUS
  <2>4. ASSUME NEW s \in SUBSET (1 .. m + 1)  PROVE g[s] \in D
    <3>1. f[s \ {m + 1}] \in D /\ (m + 1 \notin s => f[s] \in D)
      BY <2>1, <2>3
    <3>2. body[<<f[s \ {m + 1}], m + 1>>] \in D
      BY <3>1, <2>2
    <3>. QED BY <3>1, <3>2
  <2>5. g \in [SUBSET (1 .. m + 1) -> D]
    BY <2>4
  <2>6. g[{}] = b
    BY <2>1
  <2>7. ASSUME NEW s \in SUBSET (1 .. m + 1), s # {}
        PROVE  g[s] = body[<<g[s \ {Max(s)}], Max(s)>>]
    <3>1. Max(s) \in s /\ \A y \in s : Max(s) >= y
      <4>1. s \subseteq 1 .. (m + 1) /\ s # {} /\ m + 1 \in Nat
        BY <2>2, <2>7
      <4>. QED BY ONLY <4>1, MaxIs
    <3>. DEFINE top == Max(s)
    <3>. HIDE DEF top
    <3>2. top \in s /\ \A y \in s : top >= y
      BY <3>1 DEF top
    <3>3. s \ {top} \in SUBSET (1 .. m + 1)
      OBVIOUS
    <3>4. g[s] = body[<<g[s \ {top}], top>>]
      <4>1. CASE m + 1 \in s
        <5>1. top = m + 1
          BY <3>2, <4>1
        <5>2. g[s \ {top}] = f[s \ {top}]
          BY <3>3, <5>1
        <5>. QED BY <4>1, <5>1, <5>2
      <4>2. CASE m + 1 \notin s
        <5>1. g[s] = f[s] /\ g[s \ {top}] = f[s \ {top}]
          BY <3>3, <4>2
        <5>2. f[s] = body[<<f[s \ {top}], top>>]
          BY <2>1, <2>3, <2>7, <4>2 DEF top
        <5>. QED BY <5>1, <5>2
      <4>. QED BY <4>1, <4>2
    <3>. QED BY <3>4 DEF top
  <2>. HIDE DEF g
  <2>8. Folds(m + 1, g)
    BY <2>5, <2>6, <2>7
  <2>. QED BY <2>2, <2>8
<1>. HIDE DEF T
<1>3. 0 .. n \subseteq T
  BY <1>1, <1>2, CountsTo
<1>4. PICK f : Folds(n, f)
  <2>1. n \in T
    BY <1>3
  <2>. QED BY <2>1 DEF T
<1>5. f = [s \in SUBSET (1 .. n) |->
             IF s = {} THEN b ELSE body[<<f[s \ {Max(s)}], Max(s)>>]]
  BY <1>4
<1>. QED BY <1>4, <1>5 DEF IsFold

-----------------------------------------------------------------------------
(* The records of a profile and the states of the analysis.                  *)

Events == {"initialization_start", "decode_start", "decode_end", "initialization_end"}
Texts == Names \cup Operations \cup Events \cup {""}
TextFrames == {None} \cup {Some(text) : text \in Texts \ {""}}
Columns == Seq(Texts) \ {<<>>}
Stacks == Seq(TextFrames) \ {<<>>}
Lines == [columns : Seq(Columns), time : Nat]
Records == [operation : Operations, stack : Stacks, time : Nat]
DurationRecords == [stack : Stacks, time : Int]
States == [open : Seq(Records), durations : Seq(DurationRecords), missing : BOOLEAN]

LEMMA NotEmpty ==
  ASSUME NEW S, NEW s, s \in Seq(S) /\ Len(s) # 0
  PROVE  s \in Seq(S) \ {<<>>}
OBVIOUS

LEMMA ColumnParsed ==
  ASSUME NEW column \in Columns
  PROVE  ParsedStack(column) \in Stacks
<1>1. column \in Seq(Texts) /\ column # <<>>
  BY DEF Columns
<1>2. ASSUME NEW text \in Texts  PROVE Parsed(text) \in TextFrames
  BY <1>2 DEF Parsed, TextFrames
<1>3. ParsedStack(column) \in Seq(TextFrames) /\ Len(ParsedStack(column)) = Len(column)
  BY <1>1, <1>2 DEF ParsedStack
<1>4. Len(column) # 0
  BY <1>1, EmptySeq
<1>5. ParsedStack(column) \in Seq(TextFrames) \ {<<>>}
  BY <1>3, <1>4, NotEmpty
<1>. QED BY <1>5 DEF Stacks

LEMMA ProcedureIsRecord ==
  ASSUME NEW line \in Lines, IsProcedure(line)
  PROVE  Procedure(line) \in Records
<1>. DEFINE column == line.columns[2]
<1>1. column \in Columns
  <2>1. line.columns \in Seq(Columns) /\ 2 \in 1 .. Len(line.columns)
    BY DEF Lines, IsProcedure
  <2>. QED BY <2>1, ElementOfSeq
<1>. HIDE DEF column
<1>3. ParsedStack(column) \in Stacks
  BY <1>1, ColumnParsed
<1>4. line.time \in Nat /\ line.columns[1][1] \in Operations
  BY DEF Lines, IsProcedure
<1>. QED BY <1>3, <1>4 DEF Procedure, Records, column

LEMMA ReadKeepsRecords ==
  ASSUME NEW records \in Seq(Records), NEW line \in Lines
  PROVE  ReadProcedure(records, line) \in Seq(Records)
<1>1. CASE IsProcedure(line)
  <2>1. Procedure(line) \in Records
    BY <1>1, ProcedureIsRecord
  <2>2. Append(records, Procedure(line)) \in Seq(Records)
    BY <2>1, AppendProperties
  <2>. QED BY <1>1, <2>2 DEF ReadProcedure
<1>2. CASE ~IsProcedure(line)
  BY <1>2 DEF ReadProcedure
<1>. QED BY <1>1, <1>2

LEMMA LastAndFront ==
  ASSUME NEW S, NEW s \in Seq(S), s # <<>>
  PROVE  /\ Last(s) \in S /\ Last(s) = s[Len(s)]
         /\ Front(s) \in Seq(S) /\ Len(Front(s)) = Len(s) - 1
         /\ \A i \in 1 .. Len(s) - 1 : Front(s)[i] = s[i]
<1>1. Len(s) \in Nat \ {0}
  BY EmptySeq
<1>2. \A i \in 1 .. Len(s) : s[i] \in S
  BY ElementOfSeq
<1>3. \A i \in 1 .. Len(s) - 1 : s[i] \in S
  BY <1>1, <1>2
<1>4. Len(s) - 1 \in Int /\ 1 \in Int
  BY <1>1
<1>5. /\ SubSeq(s, 1, Len(s) - 1) \in Seq(S)
      /\ Len(SubSeq(s, 1, Len(s) - 1)) = IF 1 <= Len(s) - 1 THEN (Len(s) - 1) - 1 + 1 ELSE 0
      /\ \A i \in 1 .. (Len(s) - 1) - 1 + 1 : SubSeq(s, 1, Len(s) - 1)[i] = s[1 + i - 1]
  BY ONLY <1>3, <1>4, SubSeqProperties
<1>6. Len(Front(s)) = Len(s) - 1 /\ \A i \in 1 .. Len(s) - 1 : Front(s)[i] = s[i]
  <2>1. PICK m \in Nat : m = Len(s) - 1
    BY <1>1
  <2>2. \A i \in 1 .. m : i \in 1 .. m - 1 + 1 /\ 1 + i - 1 = i
    BY <2>1
  <2>. QED BY <1>5, <2>1, <2>2 DEF Front
<1>7. Len(s) \in 1 .. Len(s)
  BY <1>1
<1>. QED BY <1>2, <1>5, <1>6, <1>7 DEF Front, Last

(* What a record does to the state of the analysis.                         *)
LEMMA OpensIs ==
  ASSUME NEW state \in States, NEW record \in Records
  PROVE  /\ Opens(state, record) \in States
         /\ Opens(state, record).missing = state.missing
         /\ Opens(state, record).durations = state.durations
         /\ Opens(state, record).open = Append(state.open, record)
<1>1. Append(state.open, record) \in Seq(Records)
  BY AppendProperties DEF States
<1>. QED BY <1>1 DEF Opens, States

LEMMA ClosesIs ==
  ASSUME NEW state \in States, NEW record \in Records
  PROVE  /\ Closes(state, record) \in States
         /\ state.open # <<>> =>
              /\ Closes(state, record).missing = state.missing
              /\ Closes(state, record).open = Front(state.open)
              /\ Closes(state, record).durations =
                   Append(state.durations,
                          [stack |-> Last(state.open).stack,
                           time |-> record.time - Last(state.open).time])
<1>1. CASE state.open = <<>>
  BY <1>1 DEF Closes, States
<1>2. CASE state.open # <<>>
  <2>. DEFINE previous == Last(state.open)
              duration == [stack |-> previous.stack, time |-> record.time - previous.time]
  <2>1. state.open \in Seq(Records) /\ state.durations \in Seq(DurationRecords)
    BY DEF States
  <2>2. previous \in Records /\ Front(state.open) \in Seq(Records)
    BY <1>2, <2>1, LastAndFront
  <2>. HIDE DEF previous
  <2>3. duration \in DurationRecords
    BY <2>2 DEF Records, DurationRecords
  <2>. HIDE DEF duration
  <2>4. Append(state.durations, duration) \in Seq(DurationRecords)
    BY <2>1, <2>3, AppendProperties
  <2>5. Closes(state, record) =
          [state EXCEPT !.open = Front(@), !.durations = Append(@, duration)]
    BY <1>2 DEF Closes, duration, previous
  <2>6. /\ Closes(state, record) \in States
        /\ Closes(state, record).missing = state.missing
        /\ Closes(state, record).open = Front(state.open)
        /\ Closes(state, record).durations = Append(state.durations, duration)
    BY <2>2, <2>4, <2>5 DEF States
  <2>. QED BY <2>6 DEF duration, previous
<1>. QED BY <1>1, <1>2

LEMMA StepKeepsStates ==
  ASSUME NEW state \in States, NEW record \in Records
  PROVE  Step(state, record) \in States
<1>. DEFINE closed == Closes(state, record)
<1>1. Opens(state, record) \in States /\ closed \in States
  BY OpensIs, ClosesIs
<1>. HIDE DEF closed
<1>2. Opens(closed, record) \in States
  BY <1>1, OpensIs
<1>3. CASE state.missing
  BY <1>3 DEF Step
<1>4. CASE ~state.missing /\ record.operation = "call"
  BY <1>1, <1>4 DEF Step
<1>5. CASE ~state.missing /\ record.operation = "return"
  BY <1>1, <1>5 DEF Step, closed
<1>6. CASE ~state.missing /\ record.operation = "return_call"
  BY <1>1, <1>2, <1>6 DEF Step, closed
<1>7. record.operation \in {"call", "return", "return_call"}
  BY DEF Records, Operations
<1>. QED BY <1>3, <1>4, <1>5, <1>6, <1>7

-----------------------------------------------------------------------------
(* A profile with one more line.                                           *)

IsReading(read, file) ==
  /\ DOMAIN read = 0 .. Len(file) /\ read[0] = <<>>
  /\ \A k \in 1 .. Len(file) : read[k] = ReadProcedure(read[k - 1], file[k])
  /\ ReadProcedures(file) = read[Len(file)]

LEMMA ReadsFile ==
  ASSUME NEW file \in Seq(Lines)
  PROVE  \E read \in [0 .. Len(file) -> Seq(Records)] : IsReading(read, file)
<1>. DEFINE n == Len(file)
            D == Seq(Records)
            body == [p \in D \X (1 .. n) |-> ReadProcedure(p[1], file[p[2]])]
<1>1. n \in Nat /\ \A k \in 1 .. n : file[k] \in Lines
  BY LenProperties, ElementOfSeq
<1>2. body \in [D \X (1 .. n) -> D]
  BY <1>1, ReadKeepsRecords
<1>3. <<>> \in D
  OBVIOUS
<1>4. \A d \in D, k \in 1 .. n : body[<<d, k>>] = ReadProcedure(d, file[k])
  OBVIOUS
<1>. HIDE DEF body, D, n
<1>5. PICK at \in [0 .. n -> D] : /\ at[0] = <<>>
                                  /\ \A k \in 1 .. n : at[k] = body[<<at[k - 1], k>>]
  <2>1. n \in Nat
    BY <1>1
  <2>2. PICK at : IsLoop(at, D, <<>>, n, body)
    BY <2>1, <1>2, <1>3, LoopRuns
  <2>. QED BY <2>2 DEF IsLoop
<1>6. \A k \in 1 .. n : at[k - 1] \in D
  BY <1>1, <1>5
<1>7. \A k \in 1 .. n : at[k] = ReadProcedure(at[k - 1], file[k])
  BY <1>4, <1>5, <1>6
<1>. DEFINE Unfolds(read) ==
       read = [k \in 0 .. n |-> IF k = 0 THEN <<>> ELSE ReadProcedure(read[k - 1], file[k])]
<1>8. Unfolds(at)
  <2>1. \A k \in 0 .. n : k = 0 \/ k \in 1 .. n
    BY <1>1
  <2>. QED BY <1>5, <1>7, <2>1
<1>9. PICK read : Unfolds(read) /\ read = CHOOSE r : Unfolds(r)
  <2>. HIDE DEF Unfolds
  <2>. QED BY <1>8
<1>10. ReadProcedures(file) = read[n]
  BY <1>9 DEF ReadProcedures, n
<1>11. /\ DOMAIN read = 0 .. n /\ read[0] = <<>>
       /\ \A k \in 1 .. n : read[k] = ReadProcedure(read[k - 1], file[k])
  <2>1. 0 \in 0 .. n /\ \A k \in 1 .. n : k \in 0 .. n /\ k # 0
    BY <1>1
  <2>. QED BY <1>9, <2>1
<1>. HIDE DEF Unfolds
<1>12. ASSUME NEW m \in 0 .. n  PROVE read[m] \in D
  <2>1. read[0] = at[0]
    BY <1>5, <1>11
  <2>2. ASSUME NEW k \in 1 .. m, read[k - 1] = at[k - 1]  PROVE read[k] = at[k]
    <3>1. k \in 1 .. n
      BY <1>1
    <3>. QED BY <1>7, <1>11, <2>2, <3>1
  <2>3. read[m] = at[m]
    <3>1. m \in Nat
      BY <1>1
    <3>. QED BY ONLY <2>1, <2>2, <3>1, LoopsAgree
  <2>. QED BY <1>5, <2>3
<1>13. read \in [0 .. n -> D]
  <2>1. read = [k \in 0 .. n |-> read[k]]
    BY <1>9 DEF Unfolds
  <2>. QED BY <1>12, <2>1
<1>. QED BY <1>10, <1>11, <1>13 DEF IsReading, n, D

LEMMA ReadsOneMore ==
  ASSUME NEW file \in Seq(Lines), NEW line \in Lines
  PROVE  /\ ReadProcedures(file) \in Seq(Records)
         /\ ReadProcedures(Append(file, line)) = ReadProcedure(ReadProcedures(file), line)
<1>. DEFINE more == Append(file, line)
            n == Len(file)
<1>1. more \in Seq(Lines) /\ Len(more) = n + 1 /\ n \in Nat
      /\ (\A k \in 1 .. n : more[k] = file[k]) /\ more[n + 1] = line
  BY AppendProperties, LenProperties
<1>. HIDE DEF more
<1>2. PICK f \in [0 .. n -> Seq(Records)] : IsReading(f, file)
  BY ReadsFile
<1>3. PICK g : IsReading(g, more)
  BY <1>1, ReadsFile
<1>4. f[0] = g[0]
  BY <1>2, <1>3 DEF IsReading
<1>5. ASSUME NEW k \in 1 .. n, f[k - 1] = g[k - 1]  PROVE f[k] = g[k]
  <2>1. k \in 1 .. n + 1
    BY <1>1
  <2>. QED BY <1>1, <1>2, <1>3, <1>5, <2>1 DEF IsReading
<1>6. f[n] = g[n]
  BY <1>1, <1>4, <1>5, LoopsAgree
<1>7. g[n + 1] = ReadProcedure(g[n], line)
  <2>1. n + 1 \in 1 .. n + 1 /\ (n + 1) - 1 = n
    BY <1>1
  <2>. QED BY <1>1, <1>3, <2>1 DEF IsReading
<1>8. f[n] \in Seq(Records)
  BY <1>1
<1>. QED BY <1>1, <1>2, <1>3, <1>6, <1>7, <1>8 DEF IsReading, more

(* The analysis, by its states after each of the records.                    *)
IsAnalysis(at, base, records) ==
  /\ at[0] = base
  /\ \A k \in 1 .. Len(records) : at[k] = Step(at[k - 1], records[k])
  /\ FoldLeft(Step, base, records) = at[Len(records)]

LEMMA Analyses ==
  ASSUME NEW base \in States, NEW records \in Seq(Records)
  PROVE  \E at \in [0 .. Len(records) -> States] : IsAnalysis(at, base, records)
<1>. DEFINE n == Len(records)
            body == [p \in States \X (1 .. n) |-> Step(p[1], records[p[2]])]
<1>1. n \in Nat /\ DOMAIN records = 1 .. n
  BY LenProperties
<1>2. \A k \in 1 .. n : records[k] \in Records
  BY ElementOfSeq
<1>3. body \in [States \X (1 .. n) -> States]
  BY <1>2, StepKeepsStates
<1>4. \A d \in States, k \in 1 .. n : body[<<d, k>>] = Step(d, records[k])
  OBVIOUS
<1>. HIDE DEF body, n
<1>. DEFINE Unfolds(iter) ==
       iter = [s \in SUBSET (1 .. n) |->
                 IF s = {} THEN base ELSE Step(iter[s \ {Max(s)}], records[Max(s)])]
<1>5. PICK f : IsFold(f, States, base, n, body)
  BY <1>1, <1>3, FoldRuns
<1>6. Unfolds(f)
  <2>1. ASSUME NEW s \in SUBSET (1 .. n), s # {}
        PROVE  f[s] = Step(f[s \ {Max(s)}], records[Max(s)])
    <3>1. Max(s) \in 1 .. n
      BY <1>1, <2>1, MaxIs
    <3>2. f[s \ {Max(s)}] \in States
      BY <1>5 DEF IsFold
    <3>3. f[s] = body[<<f[s \ {Max(s)}], Max(s)>>]
      BY <1>5, <2>1 DEF IsFold
    <3>. QED BY <1>4, <3>1, <3>2, <3>3
  <2>2. f[{}] = base
    BY <1>5 DEF IsFold
  <2>3. f = [s \in SUBSET (1 .. n) |-> f[s]]
    BY <1>5 DEF IsFold
  <2>. QED BY <2>1, <2>2, <2>3
<1>7. PICK iter : Unfolds(iter) /\ iter = CHOOSE i : Unfolds(i)
  <2>. HIDE DEF Unfolds
  <2>. QED BY <1>6
<1>8. FoldLeft(Step, base, records) = iter[1 .. n]
  BY <1>1, <1>7 DEF FoldLeft, MapThenFoldSet
<1>9. iter[{}] = base
  BY <1>7
<1>10. ASSUME NEW k \in 1 .. n
       PROVE  iter[1 .. k] = Step(iter[1 .. k - 1], records[k])
  <2>. DEFINE s == 1 .. k
  <2>1. k \in s /\ s \subseteq 1 .. n /\ s # {} /\ (\A y \in s : k >= y) /\ k \in Nat
    <3>1. k \in Nat /\ 1 <= k /\ k <= n
      BY <1>1
    <3>2. k \in s /\ \A y \in s : k >= y
      BY <3>1
    <3>3. \A y \in s : y \in 1 .. n
      BY <1>1, <3>1
    <3>. QED BY <3>1, <3>2, <3>3
  <2>2. s \ {k} = 1 .. k - 1
    BY <2>1
  <2>3. Max(s) \in s /\ \A y \in s : Max(s) >= y
    BY <1>1, <2>1, MaxIs
  <2>. HIDE DEF s
  <2>. DEFINE top == Max(s)
  <2>. HIDE DEF top
  <2>4. top \in 1 .. n /\ top \in s /\ \A y \in s : top >= y
    BY <2>1, <2>3 DEF top
  <2>5. top = k
    BY <1>1, <2>1, <2>4
  <2>6. iter[s] = Step(iter[s \ {Max(s)}], records[Max(s)])
    BY <1>7, <2>1
  <2>. QED BY <2>2, <2>5, <2>6 DEF s, top
<1>. HIDE DEF Unfolds
<1>. DEFINE at == [k \in 0 .. n |-> iter[1 .. k]]
<1>11. at[0] = base
  <2>1. 1 .. 0 = {} /\ 0 \in 0 .. n
    BY <1>1
  <2>. QED BY <1>9, <2>1
<1>12. ASSUME NEW k \in 1 .. n  PROVE at[k] = Step(at[k - 1], records[k])
  <2>1. k \in 0 .. n /\ k - 1 \in 0 .. n
    BY <1>1
  <2>. QED BY <1>10, <2>1
<1>13. FoldLeft(Step, base, records) = at[n]
  <2>1. n \in 0 .. n
    BY <1>1
  <2>. QED BY <1>8, <2>1
<1>14. DOMAIN at = 0 .. n /\ at = [k \in 0 .. n |-> at[k]]
  OBVIOUS
<1>. HIDE DEF at
<1>15. 0 .. n \subseteq {k \in 0 .. n : at[k] \in States}
  <2>. DEFINE T == {k \in 0 .. n : at[k] \in States}
  <2>1. 0 \in T
    BY <1>1, <1>11
  <2>2. ASSUME NEW m \in 0 .. n - 1, m \in T  PROVE m + 1 \in T
    <3>1. m + 1 \in 1 .. n /\ (m + 1) - 1 = m /\ m + 1 \in 0 .. n
      BY <1>1
    <3>2. records[m + 1] \in Records /\ at[m] \in States
      BY <1>2, <2>2, <3>1
    <3>3. at[m + 1] = Step(at[m], records[m + 1])
      BY <1>12, <3>1
    <3>. QED BY <3>1, <3>2, <3>3, StepKeepsStates
  <2>. HIDE DEF T
  <2>3. 0 .. n \subseteq T
    BY <1>1, <2>1, <2>2, CountsTo
  <2>. QED BY <2>3 DEF T
<1>16. at \in [0 .. n -> States]
  <2>1. \A k \in 0 .. n : at[k] \in States
    BY <1>15
  <2>. QED BY <1>14, <2>1
<1>17. IsAnalysis(at, base, records)
  BY <1>11, <1>12, <1>13 DEF IsAnalysis, n
<1>. QED BY <1>16, <1>17 DEF n

LEMMA AnalysesNothing ==
  ASSUME NEW base \in States, NEW records, records = <<>>
  PROVE  FoldLeft(Step, base, records) = base
<1>1. records \in Seq(Records) /\ Len(records) = 0
  OBVIOUS
<1>2. PICK at : IsAnalysis(at, base, records)
  BY <1>1, Analyses
<1>. QED BY <1>1, <1>2 DEF IsAnalysis

LEMMA AnalysesOneMore ==
  ASSUME NEW base \in States, NEW records \in Seq(Records), NEW record \in Records
  PROVE  /\ FoldLeft(Step, base, records) \in States
         /\ FoldLeft(Step, base, Append(records, record)) =
              Step(FoldLeft(Step, base, records), record)
<1>. DEFINE more == Append(records, record)
            n == Len(records)
<1>1. more \in Seq(Records) /\ Len(more) = n + 1 /\ n \in Nat
      /\ (\A k \in 1 .. n : more[k] = records[k]) /\ more[n + 1] = record
  BY AppendProperties, LenProperties
<1>. HIDE DEF more
<1>2. PICK f \in [0 .. n -> States] : IsAnalysis(f, base, records)
  BY Analyses
<1>3. PICK g : IsAnalysis(g, base, more)
  BY <1>1, Analyses
<1>4. f[0] = g[0]
  BY <1>2, <1>3 DEF IsAnalysis
<1>5. ASSUME NEW k \in 1 .. n, f[k - 1] = g[k - 1]  PROVE f[k] = g[k]
  <2>1. k \in 1 .. n + 1
    BY <1>1
  <2>. QED BY <1>1, <1>2, <1>3, <1>5, <2>1 DEF IsAnalysis
<1>6. f[n] = g[n]
  BY <1>1, <1>4, <1>5, LoopsAgree
<1>7. g[n + 1] = Step(g[n], record)
  <2>1. n + 1 \in 1 .. n + 1 /\ (n + 1) - 1 = n
    BY <1>1
  <2>. QED BY <1>1, <1>3, <2>1 DEF IsAnalysis
<1>8. f[n] \in States
  BY <1>1
<1>. QED BY <1>1, <1>2, <1>3, <1>6, <1>7, <1>8 DEF IsAnalysis, more

-----------------------------------------------------------------------------
(* What the machine writes is read as it was written.                        *)

LEMMA Alone ==
  ASSUME NEW S, NEW element \in S
  PROVE  <<element>> \in Seq(S) /\ Len(<<element>>) = 1 /\ <<element>>[1] = element
OBVIOUS

LEMMA FramesPrinted ==
  ASSUME NEW frame \in Frames
  PROVE  Printed(frame) \in Texts /\ Parsed(Printed(frame)) = frame
<1>1. CASE frame = None
  <2>1. Printed(frame) = ""
    BY <1>1 DEF Printed
  <2>2. "" \in Texts
    BY DEF Texts
  <2>3. Parsed("") = None
    BY DEF Parsed
  <2>. QED BY <1>1, <2>1, <2>2, <2>3
<1>2. CASE frame # None
  <2>1. PICK name \in Names : frame = {name}
    BY <1>2 DEF Frames, Some
  <2>2. Printed(frame) = name
    BY <1>2, <2>1 DEF Printed
  <2>3. name # ""
    BY ProfilerAssumption
  <2>. QED BY <2>1, <2>2, <2>3 DEF Parsed, Some, Texts
<1>. QED BY <1>1, <1>2

LEMMA LinesRead ==
  ASSUME NEW operation \in Operations, NEW stack \in Seq(Frames), stack # <<>>, clock \in Nat,
         NEW line, line = ProcedureLine(operation, stack)
  PROVE  /\ line \in Lines /\ IsProcedure(line)
         /\ Procedure(line) = [operation |-> operation, stack |-> stack, time |-> clock]
         /\ Procedure(line) \in Records
<1>1. Len(stack) \in Nat /\ DOMAIN stack = 1 .. Len(stack)
      /\ \A i \in 1 .. Len(stack) : stack[i] \in Frames
  BY LenProperties, ElementOfSeq
<1>. DEFINE column == StackText(stack)
<1>2. column = [i \in 1 .. Len(stack) |-> Printed(stack[i])]
  BY <1>1 DEF StackText
<1>. HIDE DEF column
<1>3. column \in Columns
  <2>1. column \in Seq(Texts) /\ Len(column) = Len(stack)
    BY <1>1, <1>2, FramesPrinted
  <2>2. Len(stack) # 0
    BY EmptySeq
  <2>. QED BY <2>1, <2>2, NotEmpty DEF Columns
<1>4. ParsedStack(column) = stack
  <2>1. DOMAIN column = 1 .. Len(stack)
    BY <1>2
  <2>2. \A i \in 1 .. Len(stack) : Parsed(column[i]) = stack[i]
    BY <1>1, <1>2, FramesPrinted
  <2>3. ParsedStack(column) = [i \in 1 .. Len(stack) |-> stack[i]]
    BY <2>1, <2>2 DEF ParsedStack
  <2>. QED BY <1>1, <2>3
<1>5. <<operation>> \in Columns
  <2>1. operation \in Texts
    BY DEF Texts
  <2>. QED BY <2>1, Alone, NotEmpty DEF Columns
<1>6. line = [columns |-> << <<operation>>, column >>, time |-> clock]
  BY DEF ProcedureLine, Line, column
<1>7. line \in Lines /\ IsProcedure(line)
  BY <1>3, <1>5, <1>6 DEF Lines, IsProcedure
<1>8. Procedure(line) = [operation |-> operation, stack |-> stack, time |-> clock]
  BY <1>4, <1>6 DEF Procedure
<1>. QED BY <1>7, <1>8, ProcedureIsRecord

LEMMA EventsSkipped ==
  ASSUME NEW name \in Events, NEW time \in Nat,
         NEW line, line = Line(<< <<name>> >>, time)
  PROVE  line \in Lines /\ ~IsProcedure(line)
<1>1. <<name>> \in Columns
  <2>1. name \in Texts
    BY DEF Texts
  <2>. QED BY <2>1, Alone, NotEmpty DEF Columns
<1>. DEFINE column == <<name>>
<1>2. line = [columns |-> <<column>>, time |-> time]
  BY DEF Line
<1>. HIDE DEF column
<1>3. <<column>> \in Seq(Columns) /\ Len(<<column>>) = 1
  <2>1. column \in Columns
    BY <1>1 DEF column
  <2>. QED BY <2>1, Alone
<1>4. line.columns = <<column>> /\ line.time = time
  BY <1>2
<1>. DEFINE columns == <<column>>
<1>5. line = [columns |-> columns, time |-> time] /\ columns \in Seq(Columns)
  BY <1>2, <1>3
<1>6. Len(line.columns) = 1
  BY <1>3, <1>4
<1>. HIDE DEF columns
<1>7. line \in Lines
  BY <1>5 DEF Lines
<1>. QED BY <1>6, <1>7 DEF IsProcedure

-----------------------------------------------------------------------------
(* The state of the analysis after a whole profile, which begins at 0.       *)

Begin == [open |-> << [operation |-> "call", stack |-> <<None>>, time |-> 0] >>,
          durations |-> <<>>, missing |-> FALSE]
After(file) == FoldLeft(Step, Begin, ReadProcedures(file))

LEMMA BeginIsState == Begin \in States
<1>. DEFINE first == [operation |-> "call", stack |-> <<None>>, time |-> 0]
<1>1. <<None>> \in Stacks
  <2>1. None \in TextFrames
    BY DEF TextFrames
  <2>. QED BY <2>1, Alone, NotEmpty DEF Stacks
<1>2. first \in Records
  BY <1>1 DEF Records, Operations
<1>. HIDE DEF first
<1>3. <<first>> \in Seq(Records) /\ <<>> \in Seq(DurationRecords)
  BY <1>2
<1>4. [open |-> <<first>>, durations |-> <<>>, missing |-> FALSE] \in States
  BY <1>3 DEF States
<1>. QED BY <1>4 DEF Begin, first

LEMMA AfterOneMore ==
  ASSUME NEW file \in Seq(Lines), NEW line \in Lines
  PROVE  /\ ReadProcedures(file) \in Seq(Records)
         /\ After(file) \in States
         /\ Append(file, line) \in Seq(Lines)
         /\ IsProcedure(line) =>
              /\ ReadProcedures(Append(file, line)) =
                   Append(ReadProcedures(file), Procedure(line))
              /\ After(Append(file, line)) = Step(After(file), Procedure(line))
         /\ ~IsProcedure(line) =>
              /\ ReadProcedures(Append(file, line)) = ReadProcedures(file)
              /\ After(Append(file, line)) = After(file)
<1>. DEFINE records == ReadProcedures(file)
<1>1. /\ records \in Seq(Records)
      /\ ReadProcedures(Append(file, line)) = ReadProcedure(records, line)
  BY ReadsOneMore
<1>2. Append(file, line) \in Seq(Lines)
  BY AppendProperties
<1>3. After(file) \in States
  <2>1. PICK record \in Records : TRUE
    <3>1. Begin.open \in Seq(Records) /\ Len(Begin.open) = 1
      BY BeginIsState DEF States, Begin
    <3>. QED BY <3>1, ElementOfSeq
  <2>. QED BY <1>1, <2>1, BeginIsState, AnalysesOneMore DEF After
<1>4. ASSUME IsProcedure(line)
      PROVE  /\ ReadProcedures(Append(file, line)) = Append(records, Procedure(line))
             /\ After(Append(file, line)) = Step(After(file), Procedure(line))
  <2>1. Procedure(line) \in Records
    BY <1>4, ProcedureIsRecord
  <2>2. ReadProcedures(Append(file, line)) = Append(records, Procedure(line))
    BY <1>1, <1>4 DEF ReadProcedure
  <2>. HIDE DEF records
  <2>3. FoldLeft(Step, Begin, Append(records, Procedure(line))) =
          Step(FoldLeft(Step, Begin, records), Procedure(line))
    BY <1>1, <2>1, BeginIsState, AnalysesOneMore
  <2>. QED BY <2>2, <2>3 DEF After, records
<1>5. ASSUME ~IsProcedure(line)
      PROVE  ReadProcedures(Append(file, line)) = records
  BY <1>1, <1>5 DEF ReadProcedure
<1>. QED BY <1>1, <1>2, <1>3, <1>4, <1>5 DEF After

(* A call, a return and a tail call.                                       *)
LEMMA StepOpens ==
  ASSUME NEW state \in States, ~state.missing,
         NEW record \in Records, record.operation = "call"
  PROVE  /\ Step(state, record) \in States /\ ~Step(state, record).missing
         /\ Step(state, record).durations = state.durations
         /\ Step(state, record).open = Append(state.open, record)
<1>1. Step(state, record) = Opens(state, record)
  BY DEF Step
<1>. QED BY <1>1, OpensIs

LEMMA StepCloses ==
  ASSUME NEW state \in States, ~state.missing, state.open # <<>>,
         NEW record \in Records, record.operation = "return"
  PROVE  /\ Step(state, record) \in States /\ ~Step(state, record).missing
         /\ Step(state, record).open = Front(state.open)
         /\ Step(state, record).durations =
              Append(state.durations, [stack |-> Last(state.open).stack,
                                       time |-> record.time - Last(state.open).time])
<1>1. Step(state, record) = Closes(state, record)
  BY DEF Step
<1>. QED BY <1>1, ClosesIs

LEMMA StepReplaces ==
  ASSUME NEW state \in States, ~state.missing, state.open # <<>>,
         NEW record \in Records, record.operation = "return_call"
  PROVE  /\ Step(state, record) \in States /\ ~Step(state, record).missing
         /\ Step(state, record).open = Append(Front(state.open), record)
         /\ Step(state, record).durations =
              Append(state.durations, [stack |-> Last(state.open).stack,
                                       time |-> record.time - Last(state.open).time])
<1>. DEFINE closed == Closes(state, record)
<1>1. /\ closed \in States /\ ~closed.missing /\ closed.open = Front(state.open)
      /\ closed.durations =
           Append(state.durations, [stack |-> Last(state.open).stack,
                                    time |-> record.time - Last(state.open).time])
  BY ClosesIs
<1>2. Step(state, record) = IF closed.missing THEN closed ELSE Opens(closed, record)
  BY DEF Step
<1>. HIDE DEF closed
<1>3. Step(state, record) = Opens(closed, record)
  BY <1>1, <1>2
<1>. QED BY <1>1, <1>3, OpensIs

-----------------------------------------------------------------------------
(* The open records are the calls of the frames, the innermost one last.      *)

Entries == [stack : Seq(Frames), time : Nat]

Matches(open, calls) ==
  /\ Len(open) = Len(calls)
  /\ \A i \in 1 .. Len(calls) : /\ open[i].stack = calls[Len(calls) + 1 - i].stack
                                /\ open[i].time = calls[Len(calls) + 1 - i].time

LEMMA Pushed ==
  ASSUME NEW S, NEW s \in Seq(S), NEW element \in S
  PROVE  /\ <<element>> \o s \in Seq(S)
         /\ Len(<<element>> \o s) = Len(s) + 1 /\ Len(s) \in Nat
         /\ (<<element>> \o s)[1] = element
         /\ \A i \in 1 .. Len(s) : (<<element>> \o s)[i + 1] = s[i]
         /\ <<element>> \o s # <<>>
<1>1. <<element>> \in Seq(S)
  BY Alone
<1>. QED BY ONLY <1>1, s \in Seq(S)

LEMMA OpensMatch ==
  ASSUME NEW open \in Seq(Records), NEW calls \in Seq(Entries), Matches(open, calls),
         NEW record \in Records, NEW entry \in Entries,
         record.stack = entry.stack, record.time = entry.time
  PROVE  Matches(Append(open, record), <<entry>> \o calls)
<1>. DEFINE opened == Append(open, record)
            called == <<entry>> \o calls
            n == Len(calls)
<1>1. /\ Len(called) = n + 1 /\ n \in Nat /\ called[1] = entry
      /\ \A i \in 1 .. n : called[i + 1] = calls[i]
  BY Pushed
<1>2. Len(open) = n
  BY DEF Matches
<1>3. /\ Len(opened) = n + 1 /\ opened[n + 1] = record
      /\ \A i \in 1 .. n : opened[i] = open[i]
  BY <1>2, AppendProperties
<1>. HIDE DEF opened, called
<1>4. ASSUME NEW i \in 1 .. n + 1
      PROVE  /\ opened[i].stack = called[n + 1 + 1 - i].stack
             /\ opened[i].time = called[n + 1 + 1 - i].time
  <2>1. CASE i = n + 1
    <3>1. n + 1 + 1 - i = 1
      BY <1>1, <2>1
    <3>. QED BY <1>1, <1>3, <2>1, <3>1
  <2>2. CASE i # n + 1
    <3>1. i \in 1 .. n /\ n + 1 - i \in 1 .. n /\ n + 1 + 1 - i = (n + 1 - i) + 1
      BY <1>1, <2>2
    <3>2. called[n + 1 + 1 - i] = calls[n + 1 - i]
      BY <1>1, <3>1
    <3>3. open[i].stack = calls[n + 1 - i].stack /\ open[i].time = calls[n + 1 - i].time
      BY <3>1 DEF Matches
    <3>. QED BY <1>3, <3>1, <3>2, <3>3
  <2>. QED BY <2>1, <2>2
<1>5. Matches(opened, called)
  BY <1>1, <1>3, <1>4 DEF Matches
<1>. QED BY <1>5 DEF opened, called

LEMMA ClosesMatch ==
  ASSUME NEW open \in Seq(Records), NEW calls \in Seq(Entries), Matches(open, calls),
         calls # <<>>
  PROVE  /\ open # <<>>
         /\ Last(open).stack = calls[1].stack /\ Last(open).time = calls[1].time
         /\ Front(open) \in Seq(Records) /\ Tail(calls) \in Seq(Entries)
         /\ Matches(Front(open), Tail(calls))
         /\ Len(Tail(calls)) = Len(calls) - 1
<1>. DEFINE n == Len(calls)
<1>1. n \in Nat \ {0} /\ Len(open) = n
  BY EmptySeq DEF Matches
<1>2. open # <<>>
  BY <1>1, EmptySeq
<1>3. /\ Last(open) = open[n] /\ Front(open) \in Seq(Records) /\ Len(Front(open)) = n - 1
      /\ \A i \in 1 .. n - 1 : Front(open)[i] = open[i]
  BY <1>1, <1>2, LastAndFront
<1>4. /\ Tail(calls) \in Seq(Entries) /\ Len(Tail(calls)) = n - 1
      /\ \A i \in 1 .. Len(Tail(calls)) : Tail(calls)[i] = calls[i + 1]
  BY HeadTailProperties
<1>5. n \in 1 .. n /\ n + 1 - n = 1
  BY <1>1
<1>6. open[n].stack = calls[1].stack /\ open[n].time = calls[1].time
  BY <1>5 DEF Matches
<1>7. ASSUME NEW i \in 1 .. n - 1
      PROVE  /\ Front(open)[i].stack = Tail(calls)[n - 1 + 1 - i].stack
             /\ Front(open)[i].time = Tail(calls)[n - 1 + 1 - i].time
  <2>1. /\ i \in 1 .. n /\ n - 1 + 1 - i \in 1 .. n - 1
        /\ (n - 1 + 1 - i) + 1 = n + 1 - i
    BY <1>1
  <2>2. Tail(calls)[n - 1 + 1 - i] = calls[n + 1 - i]
    BY <1>4, <2>1
  <2>3. open[i].stack = calls[n + 1 - i].stack /\ open[i].time = calls[n + 1 - i].time
    BY <2>1 DEF Matches
  <2>. QED BY <1>3, <2>2, <2>3
<1>8. Matches(Front(open), Tail(calls))
  BY <1>3, <1>4, <1>7 DEF Matches
<1>. QED BY <1>2, <1>3, <1>4, <1>6, <1>8

LEMMA FirstReplaced ==
  ASSUME NEW S, NEW s \in Seq(S), s # <<>>, NEW element \in S
  PROVE  [s EXCEPT ![1] = element] = <<element>> \o Tail(s)
<1>. DEFINE t == <<element>> \o Tail(s)
            r == [s EXCEPT ![1] = element]
<1>1. /\ Len(s) \in Nat \ {0} /\ Tail(s) \in Seq(S) /\ Len(Tail(s)) = Len(s) - 1
      /\ \A i \in 1 .. Len(Tail(s)) : Tail(s)[i] = s[i + 1]
  BY EmptySeq, HeadTailProperties
<1>2. /\ t \in Seq(S) /\ Len(t) = Len(Tail(s)) + 1 /\ t[1] = element
      /\ \A i \in 1 .. Len(Tail(s)) : t[i + 1] = Tail(s)[i]
  BY <1>1, Pushed
<1>3. 1 \in 1 .. Len(s)
  BY <1>1
<1>4. /\ r \in Seq(S) /\ Len(r) = Len(s)
      /\ \A j \in 1 .. Len(s) : r[j] = IF j = 1 THEN element ELSE s[j]
  BY <1>3, ExceptSeq
<1>. HIDE DEF r, t
<1>5. Len(r) = Len(t)
  BY <1>1, <1>2, <1>4
<1>6. ASSUME NEW i \in 1 .. Len(r)  PROVE r[i] = t[i]
  <2>1. CASE i = 1
    BY <1>2, <1>3, <1>4, <2>1
  <2>2. CASE i # 1
    <3>1. i - 1 \in 1 .. Len(Tail(s)) /\ (i - 1) + 1 = i /\ i \in 1 .. Len(s)
      BY <1>1, <1>4, <2>2
    <3>2. t[i] = Tail(s)[i - 1] /\ Tail(s)[i - 1] = s[i]
      BY <1>1, <1>2, <3>1
    <3>. QED BY <1>4, <2>2, <3>1, <3>2
  <2>. QED BY <2>1, <2>2
<1>7. r = t
  BY <1>2, <1>4, <1>5, <1>6, SeqEqual
<1>. QED BY <1>7 DEF r, t

-----------------------------------------------------------------------------
(* The inductive invariant. The clock starts with the first record; without   *)
(* continuations the analysis has the frames' calls open and what has ended   *)
(* measured; with escapes it has a call open for every frame at least.       *)

Typed ==
  /\ frames \in Seq(Frames) /\ saved \in Seq(Frames)
  /\ clock \in Nat /\ lines \in Seq(Lines)

Timed ==
  LET records == ReadProcedures(lines)
  IN IF records = <<>> THEN clock = 0 ELSE records[1].time = 0

Follows ==
  jumps = {} =>
    /\ entered \in Seq(Entries) /\ Len(entered) = Len(frames)
    /\ ~After(lines).missing
    /\ After(lines).durations = ended
    /\ Matches(After(lines).open, entered)

Covers ==
  "reenter" \notin jumps =>
    /\ ~After(lines).missing
    /\ Len(After(lines).open) >= Len(frames)

ProfilerInv == Typed /\ Timed /\ Follows /\ Covers

(* One more record of a profile that satisfies the invariant.                *)
LEMMA RecordWritten ==
  ASSUME NEW file \in Seq(Lines), clock \in Nat,
         NEW operation \in Operations, NEW stack \in Seq(Frames), stack # <<>>,
         LET records == ReadProcedures(file)
         IN IF records = <<>> THEN clock = 0 ELSE records[1].time = 0
  PROVE  LET line == ProcedureLine(operation, stack)
             record == [operation |-> operation, stack |-> stack, time |-> clock]
             records == ReadProcedures(Append(file, line))
         IN /\ Append(file, line) \in Seq(Lines)
            /\ After(file) \in States /\ record \in Records
            /\ After(Append(file, line)) = Step(After(file), record)
            /\ records # <<>> /\ records[1].time = 0
<1>. DEFINE line == ProcedureLine(operation, stack)
            record == [operation |-> operation, stack |-> stack, time |-> clock]
            old == ReadProcedures(file)
            records == ReadProcedures(Append(file, line))
<1>1. line \in Lines /\ IsProcedure(line) /\ Procedure(line) = record /\ record \in Records
  BY LinesRead
<1>. HIDE DEF line, record
<1>2. /\ old \in Seq(Records) /\ records = Append(old, record)
      /\ After(file) \in States /\ Append(file, line) \in Seq(Lines)
      /\ After(Append(file, line)) = Step(After(file), record)
  BY <1>1, AfterOneMore
<1>. HIDE DEF old, records
<1>3. record.time = clock
  BY DEF record
<1>4. records # <<>> /\ records[1].time = 0
  <2>1. /\ records # <<>> /\ records[Len(old) + 1] = record
        /\ \A i \in 1 .. Len(old) : records[i] = old[i]
    BY <1>1, <1>2, AppendProperties
  <2>2. CASE old = <<>>
    <3>1. Len(old) + 1 = 1 /\ clock = 0
      BY <1>2, <2>2, EmptySeq DEF old
    <3>. QED BY <1>3, <2>1, <3>1
  <2>3. CASE old # <<>>
    <3>1. Len(old) \in Nat \ {0}
      BY <1>2, <2>3, EmptySeq
    <3>2. 1 \in 1 .. Len(old)
      BY <3>1
    <3>3. old[1].time = 0
      BY <2>3 DEF old
    <3>. QED BY <2>1, <3>2, <3>3
  <2>. QED BY <2>2, <2>3
<1>. QED BY <1>1, <1>2, <1>4 DEF line, record, records

(* The invariant gives the properties.                                      *)
LEMMA InvGivesProperties ==
  ASSUME ProfilerInv
  PROVE  DurationsExact /\ NeverMissing
<1>. DEFINE records == ReadProcedures(lines)
            result == Analysis(lines)
<1>1. CASE records = <<>>
  <2>1. After(lines) = Begin
    BY <1>1, BeginIsState, AnalysesNothing DEF After
  <2>. DEFINE none == [open |-> <<>>, durations |-> <<>>, missing |-> FALSE]
  <2>2. none \in States
    BY DEF States
  <2>3. result = FoldLeft(Step, none, <<>>)
    BY <1>1 DEF Analysis
  <2>4. FoldLeft(Step, none, <<>>) = none
    BY <2>2, AnalysesNothing
  <2>5. result.open = <<>> /\ result.durations = <<>> /\ ~result.missing
    BY <2>3, <2>4
  <2>6. After(lines).durations = <<>>
    BY <2>1 DEF Begin
  <2>. QED BY <2>5, <2>6 DEF ProfilerInv, Follows, DurationsExact, NeverMissing
<1>2. CASE records # <<>>
  <2>1. records[1].time = 0
    BY <1>2 DEF ProfilerInv, Timed
  <2>2. result = After(lines)
    BY <1>2, <2>1 DEF Analysis, After, Begin
  <2>3. ASSUME jumps = {}, frames = <<>>  PROVE After(lines).open = <<>>
    <3>1. Len(After(lines).open) = 0
      BY <2>3 DEF ProfilerInv, Follows, Matches
    <3>2. PICK line \in Lines : TRUE
      BY EventsSkipped DEF Events
    <3>3. After(lines) \in States
      BY <3>2, AfterOneMore DEF ProfilerInv, Typed
    <3>4. After(lines).open \in Seq(Records)
      BY <3>3 DEF States
    <3>. QED BY <3>1, <3>4, EmptySeq
  <2>4. DurationsExact
    BY <2>2, <2>3 DEF ProfilerInv, Follows, DurationsExact
  <2>5. NeverMissing
    BY <2>2 DEF ProfilerInv, Covers, NeverMissing
  <2>. QED BY <2>4, <2>5
<1>. QED BY <1>1, <1>2

LEMMA InitHolds == ProfilerInit => ProfilerInv
<1>. SUFFICES ASSUME ProfilerInit  PROVE ProfilerInv
  OBVIOUS
<1>. DEFINE a == EventLine("initialization_start")
            b == EventLine("decode_start")
            c == EventLine("decode_end")
            d == EventLine("initialization_end")
<1>1. /\ a \in Lines /\ ~IsProcedure(a) /\ b \in Lines /\ ~IsProcedure(b)
      /\ c \in Lines /\ ~IsProcedure(c) /\ d \in Lines /\ ~IsProcedure(d)
  BY EventsSkipped DEF Events, EventLine, ProfilerInit
<1>2. lines = <<a, b, c, d>>
  BY DEF ProfilerInit
<1>. HIDE DEF a, b, c, d
<1>3. ReadProcedures(<<>>) = <<>> /\ <<>> \in Seq(Lines)
  <2>1. <<>> \in Seq(Lines)
    OBVIOUS
  <2>2. PICK read : IsReading(read, <<>>)
    BY <2>1, ReadsFile
  <2>. QED BY <2>1, <2>2 DEF IsReading
<1>. DEFINE Blank(file) == file \in Seq(Lines) /\ ReadProcedures(file) = <<>>
<1>4. ASSUME NEW file, Blank(file), NEW line \in Lines, ~IsProcedure(line)
      PROVE  Blank(Append(file, line))
  BY <1>4, AfterOneMore
<1>5. Blank(<<>>)
  BY <1>3
<1>6. lines = Append(Append(Append(Append(<<>>, a), b), c), d)
  BY <1>2
<1>. HIDE DEF Blank
<1>7. Blank(Append(Append(<<>>, a), b))
  BY <1>1, <1>4, <1>5
<1>8. Blank(lines)
  BY <1>1, <1>4, <1>6, <1>7
<1>9. lines \in Seq(Lines) /\ ReadProcedures(lines) = <<>>
  BY <1>8 DEF Blank
<1>10. After(lines) = Begin
  BY <1>9, BeginIsState, AnalysesNothing DEF After
<1>11. None \in Frames
  BY DEF Frames
<1>12. <<None>> \in Seq(Frames)
  BY <1>11, Alone
<1>. DEFINE entry == [stack |-> <<None>>, time |-> 0]
<1>13. entry \in Entries
  BY <1>12 DEF Entries
<1>14. entered \in Seq(Entries) /\ Len(entered) = 1 /\ entered[1] = entry
  BY <1>13, Alone DEF ProfilerInit
<1>15. Typed
  BY <1>9, <1>12 DEF Typed, ProfilerInit
<1>16. Timed
  BY <1>9 DEF Timed, ProfilerInit
<1>17. Matches(Begin.open, entered)
  <2>1. Len(Begin.open) = 1 /\ Begin.open[1].stack = <<None>> /\ Begin.open[1].time = 0
    BY DEF Begin
  <2>2. entered[1].stack = <<None>> /\ entered[1].time = 0
    BY <1>14
  <2>3. \A i \in 1 .. 1 : i = 1 /\ 1 + 1 - i = 1
    OBVIOUS
  <2>. QED BY <1>14, <2>1, <2>2, <2>3 DEF Matches
<1>18. Follows
  BY <1>10, <1>14, <1>17 DEF Follows, ProfilerInit, Begin
<1>19. Covers
  BY <1>10 DEF Covers, ProfilerInit, Begin
<1>. QED BY <1>15, <1>16, <1>18, <1>19 DEF ProfilerInv

-----------------------------------------------------------------------------
(* Every action keeps the invariant.                                       *)

LEMMA TailIs ==
  ASSUME NEW S, NEW s \in Seq(S), s # <<>>
  PROVE  Tail(s) \in Seq(S) /\ Len(Tail(s)) = Len(s) - 1 /\ Len(s) \in Nat \ {0}
BY EmptySeq, HeadTailProperties

LEMMA LinesAppended ==
  ASSUME NEW file \in Seq(Lines), NEW line \in Lines
  PROVE  file \o <<line>> = Append(file, line)
BY AppendIsConcat

LEMMA TwoLinesAppended ==
  ASSUME NEW file \in Seq(Lines), NEW first \in Lines, NEW second \in Lines
  PROVE  file \o <<first, second>> = Append(Append(file, first), second)
OBVIOUS

LEMMA CallKeeps ==
  ASSUME ProfilerInv, NEW frame \in Frames, Call(frame)
  PROVE  ProfilerInv'
<1>. DEFINE stack == <<frame>> \o frames
            line == ProcedureLine("call", stack)
            record == [operation |-> "call", stack |-> stack, time |-> clock]
            entry == [stack |-> stack, time |-> clock]
            old == After(lines)
<1>1. /\ frames \in Seq(Frames) /\ saved \in Seq(Frames) /\ clock \in Nat
      /\ lines \in Seq(Lines) /\ frames # <<>>
  BY DEF ProfilerInv, Typed, Call
<1>2. stack \in Seq(Frames) /\ stack # <<>> /\ Len(stack) = Len(frames) + 1
  BY <1>1, Pushed
<1>3. /\ lines' = lines \o <<line>> /\ clock' = clock + 1
      /\ frames' = stack /\ saved' = saved /\ ended' = ended /\ jumps' = jumps
      /\ entered' = <<entry>> \o entered
  BY DEF Call, Writes, CallLine, Entry
<1>4. "call" \in Operations
  BY DEF Operations
<1>5. /\ Append(lines, line) \in Seq(Lines) /\ line \in Lines
      /\ old \in States /\ record \in Records
      /\ After(Append(lines, line)) = Step(old, record)
      /\ ReadProcedures(Append(lines, line)) # <<>>
      /\ ReadProcedures(Append(lines, line))[1].time = 0
  BY <1>1, <1>2, <1>4, RecordWritten, LinesRead DEF ProfilerInv, Timed
<1>6. lines' = Append(lines, line)
  BY <1>1, <1>3, <1>5, LinesAppended
<1>7. entry \in Entries /\ record.stack = entry.stack /\ record.time = entry.time
      /\ record.operation = "call"
  BY <1>1, <1>2 DEF Entries
<1>. HIDE DEF stack, line, record, entry, old
<1>8. After(lines)' = Step(old, record)
  BY <1>5, <1>6
<1>9. old.open \in Seq(Records) /\ Len(old.open) \in Nat
  BY <1>5, LenProperties DEF States
<1>10. Typed'
  BY <1>1, <1>2, <1>3, <1>5, <1>6 DEF Typed
<1>11. Timed'
  BY <1>5, <1>6 DEF Timed
<1>12. Follows'
  <2>1. SUFFICES ASSUME jumps = {}
                 PROVE  /\ entered' \in Seq(Entries) /\ Len(entered') = Len(frames')
                        /\ ~Step(old, record).missing
                        /\ Step(old, record).durations = ended'
                        /\ Matches(Step(old, record).open, entered')
    BY <1>3, <1>8 DEF Follows
  <2>2. /\ entered \in Seq(Entries) /\ Len(entered) = Len(frames) /\ ~old.missing
        /\ old.durations = ended /\ Matches(old.open, entered)
    BY <2>1 DEF ProfilerInv, Follows, old
  <2>3. entered' \in Seq(Entries) /\ Len(entered') = Len(frames')
    BY <1>2, <1>3, <1>7, <2>2, Pushed
  <2>4. /\ ~Step(old, record).missing /\ Step(old, record).durations = ended
        /\ Step(old, record).open = Append(old.open, record)
    BY <1>5, <1>7, <2>2, StepOpens
  <2>5. Matches(Append(old.open, record), <<entry>> \o entered)
    BY <1>5, <1>7, <1>9, <2>2, OpensMatch
  <2>. QED BY <1>3, <2>3, <2>4, <2>5
<1>13. Covers'
  <2>1. SUFFICES ASSUME "reenter" \notin jumps
                 PROVE  /\ ~Step(old, record).missing
                        /\ Len(Step(old, record).open) >= Len(frames')
    BY <1>3, <1>8 DEF Covers
  <2>2. ~old.missing /\ Len(old.open) >= Len(frames)
    BY <2>1 DEF ProfilerInv, Covers, old
  <2>3. /\ ~Step(old, record).missing
        /\ Step(old, record).open = Append(old.open, record)
    BY <1>5, <1>7, <2>2, StepOpens
  <2>4. Len(Append(old.open, record)) = Len(old.open) + 1
    BY <1>5, <1>9, AppendProperties
  <2>5. Len(frames) \in Nat
    BY <1>1, LenProperties
  <2>. QED BY <1>2, <1>3, <1>9, <2>2, <2>3, <2>4, <2>5
<1>. QED BY <1>10, <1>11, <1>12, <1>13 DEF ProfilerInv

LEMMA TailCallKeeps ==
  ASSUME ProfilerInv, NEW frame \in Frames, TailCall(frame)
  PROVE  ProfilerInv'
<1>. DEFINE stack == <<frame>> \o frames
            line == ProcedureLine("return_call", stack)
            record == [operation |-> "return_call", stack |-> stack, time |-> clock]
            entry == [stack |-> stack, time |-> clock]
            old == After(lines)
<1>1. /\ frames \in Seq(Frames) /\ saved \in Seq(Frames) /\ clock \in Nat
      /\ lines \in Seq(Lines) /\ frames # <<>>
  BY DEF ProfilerInv, Typed, TailCall
<1>2. stack \in Seq(Frames) /\ stack # <<>> /\ Len(frames) \in Nat \ {0}
  BY <1>1, Pushed, TailIs
<1>3. /\ lines' = lines \o <<line>> /\ clock' = clock + 1
      /\ frames' = frames /\ saved' = saved /\ jumps' = jumps
      /\ entered' = [entered EXCEPT ![1] = entry]
      /\ ended' = Append(ended, [stack |-> entered[1].stack, time |-> clock - entered[1].time])
  BY DEF TailCall, Writes, CallLine, Entry, Duration
<1>4. "return_call" \in Operations
  BY DEF Operations
<1>5. /\ Append(lines, line) \in Seq(Lines) /\ line \in Lines
      /\ old \in States /\ record \in Records
      /\ After(Append(lines, line)) = Step(old, record)
      /\ ReadProcedures(Append(lines, line)) # <<>>
      /\ ReadProcedures(Append(lines, line))[1].time = 0
  BY <1>1, <1>2, <1>4, RecordWritten, LinesRead DEF ProfilerInv, Timed
<1>6. lines' = Append(lines, line)
  BY <1>1, <1>3, <1>5, LinesAppended
<1>7. entry \in Entries /\ record.stack = entry.stack /\ record.time = entry.time
      /\ record.operation = "return_call" /\ record.time = clock
  BY <1>1, <1>2 DEF Entries
<1>. HIDE DEF stack, line, record, entry, old
<1>8. After(lines)' = Step(old, record)
  BY <1>5, <1>6
<1>9. old.open \in Seq(Records) /\ Len(old.open) \in Nat
  BY <1>5, LenProperties DEF States
<1>10. Typed'
  BY <1>1, <1>3, <1>5, <1>6 DEF Typed
<1>11. Timed'
  BY <1>5, <1>6 DEF Timed
<1>12. Follows'
  <2>1. SUFFICES ASSUME jumps = {}
                 PROVE  /\ entered' \in Seq(Entries) /\ Len(entered') = Len(frames')
                        /\ ~Step(old, record).missing
                        /\ Step(old, record).durations = ended'
                        /\ Matches(Step(old, record).open, entered')
    BY <1>3, <1>8 DEF Follows
  <2>2. /\ entered \in Seq(Entries) /\ Len(entered) = Len(frames) /\ ~old.missing
        /\ old.durations = ended /\ Matches(old.open, entered)
    BY <2>1 DEF ProfilerInv, Follows, old
  <2>3. entered # <<>>
    BY <1>2, <2>2, EmptySeq
  <2>4. /\ old.open # <<>>
        /\ Last(old.open).stack = entered[1].stack /\ Last(old.open).time = entered[1].time
        /\ Front(old.open) \in Seq(Records) /\ Tail(entered) \in Seq(Entries)
        /\ Matches(Front(old.open), Tail(entered))
        /\ Len(Tail(entered)) = Len(entered) - 1
    BY <1>9, <2>2, <2>3, ClosesMatch
  <2>5. entered' = <<entry>> \o Tail(entered)
    BY <1>3, <1>7, <2>2, <2>3, FirstReplaced
  <2>6. entered' \in Seq(Entries) /\ Len(entered') = Len(frames')
    BY <1>2, <1>3, <1>7, <2>2, <2>4, <2>5, Pushed
  <2>7. /\ ~Step(old, record).missing
        /\ Step(old, record).open = Append(Front(old.open), record)
        /\ Step(old, record).durations = ended'
    BY <1>3, <1>5, <1>7, <2>2, <2>4, StepReplaces
  <2>8. Matches(Append(Front(old.open), record), <<entry>> \o Tail(entered))
    BY <1>5, <1>7, <2>4, OpensMatch
  <2>. QED BY <2>5, <2>6, <2>7, <2>8
<1>13. Covers'
  <2>1. SUFFICES ASSUME "reenter" \notin jumps
                 PROVE  /\ ~Step(old, record).missing
                        /\ Len(Step(old, record).open) >= Len(frames')
    BY <1>3, <1>8 DEF Covers
  <2>2. ~old.missing /\ Len(old.open) >= Len(frames)
    BY <2>1 DEF ProfilerInv, Covers, old
  <2>3. old.open # <<>>
    BY <1>2, <1>9, <2>2, EmptySeq
  <2>4. Front(old.open) \in Seq(Records) /\ Len(Front(old.open)) = Len(old.open) - 1
    BY <1>9, <2>3, LastAndFront
  <2>5. /\ ~Step(old, record).missing
        /\ Step(old, record).open = Append(Front(old.open), record)
    BY <1>5, <1>7, <2>2, <2>3, StepReplaces
  <2>6. Len(Append(Front(old.open), record)) = Len(old.open)
    BY <1>5, <1>9, <2>4, AppendProperties
  <2>. QED BY <1>3, <2>2, <2>5, <2>6
<1>. QED BY <1>10, <1>11, <1>12, <1>13 DEF ProfilerInv

LEMMA ReturnKeeps ==
  ASSUME ProfilerInv, Return
  PROVE  ProfilerInv'
<1>. DEFINE line == ProcedureLine("return", frames)
            record == [operation |-> "return", stack |-> frames, time |-> clock]
            old == After(lines)
<1>1. /\ frames \in Seq(Frames) /\ saved \in Seq(Frames) /\ clock \in Nat
      /\ lines \in Seq(Lines) /\ frames # <<>>
  BY DEF ProfilerInv, Typed, Return
<1>2. /\ Len(frames) \in Nat \ {0} /\ Tail(frames) \in Seq(Frames)
      /\ Len(Tail(frames)) = Len(frames) - 1
  BY <1>1, TailIs
<1>3. /\ lines' = lines \o <<line>> /\ clock' = clock + 1
      /\ frames' = Tail(frames) /\ saved' = saved /\ jumps' = jumps
      /\ entered' = Tail(entered)
      /\ ended' = Append(ended, [stack |-> entered[1].stack, time |-> clock - entered[1].time])
  BY DEF Return, Writes, ReturnLine, Duration
<1>4. "return" \in Operations
  BY DEF Operations
<1>5. /\ Append(lines, line) \in Seq(Lines) /\ line \in Lines
      /\ old \in States /\ record \in Records
      /\ After(Append(lines, line)) = Step(old, record)
      /\ ReadProcedures(Append(lines, line)) # <<>>
      /\ ReadProcedures(Append(lines, line))[1].time = 0
  BY <1>1, <1>4, RecordWritten, LinesRead DEF ProfilerInv, Timed
<1>6. lines' = Append(lines, line)
  BY <1>1, <1>3, <1>5, LinesAppended
<1>7. record.operation = "return" /\ record.time = clock
  OBVIOUS
<1>. HIDE DEF line, record, old
<1>8. After(lines)' = Step(old, record)
  BY <1>5, <1>6
<1>9. old.open \in Seq(Records) /\ Len(old.open) \in Nat
  BY <1>5, LenProperties DEF States
<1>10. Typed'
  BY <1>1, <1>2, <1>3, <1>5, <1>6 DEF Typed
<1>11. Timed'
  BY <1>5, <1>6 DEF Timed
<1>12. Follows'
  <2>1. SUFFICES ASSUME jumps = {}
                 PROVE  /\ entered' \in Seq(Entries) /\ Len(entered') = Len(frames')
                        /\ ~Step(old, record).missing
                        /\ Step(old, record).durations = ended'
                        /\ Matches(Step(old, record).open, entered')
    BY <1>3, <1>8 DEF Follows
  <2>2. /\ entered \in Seq(Entries) /\ Len(entered) = Len(frames) /\ ~old.missing
        /\ old.durations = ended /\ Matches(old.open, entered)
    BY <2>1 DEF ProfilerInv, Follows, old
  <2>3. entered # <<>>
    BY <1>2, <2>2, EmptySeq
  <2>4. /\ old.open # <<>>
        /\ Last(old.open).stack = entered[1].stack /\ Last(old.open).time = entered[1].time
        /\ Tail(entered) \in Seq(Entries)
        /\ Matches(Front(old.open), Tail(entered))
        /\ Len(Tail(entered)) = Len(entered) - 1
    BY <1>9, <2>2, <2>3, ClosesMatch
  <2>5. /\ ~Step(old, record).missing
        /\ Step(old, record).open = Front(old.open)
        /\ Step(old, record).durations = ended'
    BY <1>3, <1>5, <1>7, <2>2, <2>4, StepCloses
  <2>. QED BY <1>2, <1>3, <2>2, <2>4, <2>5
<1>13. Covers'
  <2>1. SUFFICES ASSUME "reenter" \notin jumps
                 PROVE  /\ ~Step(old, record).missing
                        /\ Len(Step(old, record).open) >= Len(frames')
    BY <1>3, <1>8 DEF Covers
  <2>2. ~old.missing /\ Len(old.open) >= Len(frames)
    BY <2>1 DEF ProfilerInv, Covers, old
  <2>3. old.open # <<>>
    BY <1>2, <1>9, <2>2, EmptySeq
  <2>4. Len(Front(old.open)) = Len(old.open) - 1
    BY <1>9, <2>3, LastAndFront
  <2>5. ~Step(old, record).missing /\ Step(old, record).open = Front(old.open)
    BY <1>5, <1>7, <2>2, <2>3, StepCloses
  <2>. QED BY <1>2, <1>3, <1>9, <2>2, <2>4, <2>5
<1>. QED BY <1>10, <1>11, <1>12, <1>13 DEF ProfilerInv

LEMMA SuffixIsShorter ==
  ASSUME NEW S, NEW s \in Seq(S), NEW t \in Seq(S), IsSuffix(s, t)
  PROVE  Len(s) <= Len(t)
<1>1. Len(s) \in Nat /\ Len(t) \in Nat
  BY LenProperties
<1>2. Len(Reverse(s)) = Len(s) /\ Len(Reverse(t)) = Len(t)
  BY <1>1 DEF Reverse
<1>. QED BY <1>2 DEF IsSuffix, IsPrefix

(* A continuation closes or opens a record for its own call, and closes one   *)
(* for the return from the saved frames.                                   *)
LEMMA ThrowKeeps ==
  ASSUME ProfilerInv, NEW tail \in BOOLEAN, Throw(tail)
  PROVE  ProfilerInv'
<1>. DEFINE stack == <<None>> \o frames
            operation == IF tail THEN "return_call" ELSE "call"
            first == ProcedureLine(operation, stack)
            second == ProcedureLine("return", saved)
            file == Append(lines, first)
            call == [operation |-> operation, stack |-> stack, time |-> clock]
            return == [operation |-> "return", stack |-> saved, time |-> clock]
            old == After(lines)
<1>1. /\ frames \in Seq(Frames) /\ saved \in Seq(Frames) /\ clock \in Nat
      /\ lines \in Seq(Lines) /\ frames # <<>> /\ saved # <<>>
  BY DEF ProfilerInv, Typed, Throw
<1>2. None \in Frames
  BY DEF Frames
<1>3. stack \in Seq(Frames) /\ stack # <<>> /\ Len(frames) \in Nat \ {0}
  BY <1>1, <1>2, Pushed, TailIs
<1>4. Len(saved) \in Nat \ {0} /\ Tail(saved) \in Seq(Frames) /\ Len(Tail(saved)) = Len(saved) - 1
  BY <1>1, TailIs
<1>5. /\ lines' = lines \o <<first, second>> /\ clock' = clock + 1
      /\ frames' = Tail(saved) /\ saved' = saved /\ jumps' = jumps \cup {Kind}
  BY DEF Throw, Writes, CallLine
<1>6. operation \in Operations /\ "return" \in Operations
  BY DEF Operations
<1>7. call.operation = operation /\ return.operation = "return"
  OBVIOUS
<1>8. /\ file \in Seq(Lines) /\ first \in Lines
      /\ old \in States /\ call \in Records
      /\ After(file) = Step(old, call)
      /\ ReadProcedures(file) # <<>> /\ ReadProcedures(file)[1].time = 0
  <2>. HIDE DEF stack, operation
  <2>. QED BY <1>1, <1>3, <1>6, RecordWritten, LinesRead DEF ProfilerInv, Timed
<1>9. operation = IF tail THEN "return_call" ELSE "call"
  OBVIOUS
<1>10. /\ Append(file, second) \in Seq(Lines) /\ second \in Lines
       /\ After(file) \in States /\ return \in Records
       /\ After(Append(file, second)) = Step(After(file), return)
       /\ ReadProcedures(Append(file, second)) # <<>>
       /\ ReadProcedures(Append(file, second))[1].time = 0
  <2>. HIDE DEF file
  <2>. QED BY <1>1, <1>6, <1>8, RecordWritten, LinesRead
<1>. HIDE DEF stack, operation, first, second, call, return, old
<1>11. lines' = Append(file, second)
  <2>1. lines \o <<first, second>> = Append(Append(lines, first), second)
    BY <1>1, <1>8, <1>10, TwoLinesAppended
  <2>. QED BY <1>5, <2>1
<1>. HIDE DEF file
<1>12. After(lines)' = Step(Step(old, call), return)
  BY <1>8, <1>10, <1>11
<1>13. Typed'
  <2>1. lines' \in Seq(Lines)
    BY <1>10, <1>11
  <2>2. frames' \in Seq(Frames) /\ saved' \in Seq(Frames) /\ clock' \in Nat
    BY <1>1, <1>4, <1>5
  <2>. QED BY <2>1, <2>2 DEF Typed
<1>14. Timed'
  BY <1>10, <1>11 DEF Timed
<1>15. Follows'
  BY <1>5 DEF Follows
<1>16. Covers'
  <2>. DEFINE called == Step(old, call)
              returned == Step(called, return)
  <2>1. SUFFICES ASSUME "reenter" \notin jumps'
                 PROVE  ~returned.missing /\ Len(returned.open) >= Len(frames')
    BY <1>12 DEF Covers
  <2>2. "reenter" \notin jumps /\ Kind # "reenter"
    BY <1>5, <2>1
  <2>3. Len(saved) <= Len(frames)
    BY <1>1, <2>2, SuffixIsShorter DEF Kind
  <2>4. ~old.missing /\ Len(old.open) >= Len(frames)
    BY <2>2 DEF ProfilerInv, Covers, old
  <2>5. old.open \in Seq(Records) /\ Len(old.open) \in Nat
    BY <1>8, LenProperties DEF States
  <2>6. old.open # <<>>
    BY <1>3, <2>4, <2>5, EmptySeq
  <2>7. Front(old.open) \in Seq(Records) /\ Len(Front(old.open)) = Len(old.open) - 1
    BY <2>5, <2>6, LastAndFront
  <2>8. /\ called \in States /\ ~called.missing /\ called.open \in Seq(Records)
        /\ Len(called.open) \in Nat /\ Len(called.open) >= Len(old.open)
    <3>1. CASE tail
      <4>1. /\ called \in States /\ ~called.missing
            /\ called.open = Append(Front(old.open), call)
        BY <1>7, <1>8, <1>9, <2>4, <2>6, <3>1, StepReplaces
      <4>. QED BY <1>8, <2>5, <2>7, <4>1, AppendProperties
    <3>2. CASE ~tail
      <4>1. /\ called \in States /\ ~called.missing
            /\ called.open = Append(old.open, call)
        BY <1>7, <1>8, <1>9, <2>4, <3>2, StepOpens
      <4>. QED BY <1>8, <2>5, <4>1, AppendProperties
    <3>. QED BY <3>1, <3>2
  <2>. HIDE DEF called
  <2>9. called.open # <<>>
    BY <1>3, <2>4, <2>5, <2>8, EmptySeq
  <2>10. ~returned.missing /\ returned.open = Front(called.open)
    BY <1>7, <1>10, <2>8, <2>9, StepCloses
  <2>11. Len(Front(called.open)) = Len(called.open) - 1
    BY <2>8, <2>9, LastAndFront
  <2>. QED BY <1>3, <1>4, <1>5, <2>3, <2>4, <2>5, <2>8, <2>10, <2>11
<1>. QED BY <1>13, <1>14, <1>15, <1>16 DEF ProfilerInv

LEMMA CaptureKeeps ==
  ASSUME ProfilerInv, Capture
  PROVE  ProfilerInv'
<1>1. /\ frames' = frames /\ saved' = frames /\ lines' = lines /\ clock' = clock
      /\ entered' = entered /\ ended' = ended /\ jumps' = jumps
  BY DEF Capture
<1>2. Typed'
  BY <1>1 DEF ProfilerInv, Typed
<1>3. Timed'
  BY <1>1 DEF ProfilerInv, Timed
<1>4. Follows'
  BY <1>1 DEF ProfilerInv, Follows
<1>5. Covers'
  BY <1>1 DEF ProfilerInv, Covers
<1>. QED BY <1>2, <1>3, <1>4, <1>5 DEF ProfilerInv

LEMMA StutterKeeps ==
  ASSUME ProfilerInv, UNCHANGED profilerVars
  PROVE  ProfilerInv'
<1>1. /\ frames' = frames /\ saved' = saved /\ lines' = lines /\ clock' = clock
      /\ entered' = entered /\ ended' = ended /\ jumps' = jumps
  BY DEF profilerVars
<1>2. Typed'
  BY <1>1 DEF ProfilerInv, Typed
<1>3. Timed'
  BY <1>1 DEF ProfilerInv, Timed
<1>4. Follows'
  BY <1>1 DEF ProfilerInv, Follows
<1>5. Covers'
  BY <1>1 DEF ProfilerInv, Covers
<1>. QED BY <1>2, <1>3, <1>4, <1>5 DEF ProfilerInv

(* The invariant holds in every behaviour of the profiler and the machine.    *)
LEMMA ProfilerInvariant == ProfilerSpec => []ProfilerInv
<1>1. ProfilerInit => ProfilerInv
  BY InitHolds
<1>2. ProfilerInv /\ [ProfilerNext]_profilerVars => ProfilerInv'
  <2>. SUFFICES ASSUME ProfilerInv, [ProfilerNext]_profilerVars
                PROVE  ProfilerInv'
    OBVIOUS
  <2>1. CASE \E frame \in Frames : Call(frame)
    BY <2>1, CallKeeps
  <2>2. CASE \E frame \in Frames : TailCall(frame)
    BY <2>2, TailCallKeeps
  <2>3. CASE Return
    BY <2>3, ReturnKeeps
  <2>4. CASE Capture
    BY <2>4, CaptureKeeps
  <2>5. CASE \E tail \in BOOLEAN : Throw(tail)
    BY <2>5, ThrowKeeps
  <2>6. CASE UNCHANGED profilerVars
    BY <2>6, StutterKeeps
  <2>. QED BY <2>1, <2>2, <2>3, <2>4, <2>5, <2>6 DEF ProfilerNext
<1>. QED BY <1>1, <1>2, PTL DEF ProfilerSpec

(* In a profile of any length of a program without continuations the          *)
(* procedures that have ended are all there, in the order of their ends, each *)
(* with the stack and the time since its own call (calculate_durations in     *)
(* profiler/src/duration.rs beside the hooks of stack_profiler.rs).           *)
THEOREM ProfileIsExact == ProfilerSpec => []DurationsExact
<1>1. ProfilerInv => DurationsExact
  BY InvGivesProperties
<1>. QED BY <1>1, ProfilerInvariant, PTL

(* The analysis of a profile of any length never stops for a missing call     *)
(* record while the program only escapes through its continuations.          *)
THEOREM AnalysisGoesOn == ProfilerSpec => []NeverMissing
<1>1. ProfilerInv => NeverMissing
  BY InvGivesProperties
<1>. QED BY <1>1, ProfilerInvariant, PTL

-----------------------------------------------------------------------------
(* A fold whose body is a function goes through the positions in order.       *)
WalksFold(iter, D, b, n, body) ==
  /\ iter[{}] = b
  /\ \A s \in SUBSET (1 .. n) : s # {} /\ iter[s \ {Max(s)}] \in D =>
       iter[s] = body[<<iter[s \ {Max(s)}], Max(s)>>]

GoesUp(at, iter, D, b, n, body) == IsLoop(at, D, b, n, body) /\ at[n] = iter[1 .. n]

LEMMA FoldGoesUp ==
  ASSUME NEW D, NEW b \in D, NEW n \in Nat, NEW body \in [D \X (1 .. n) -> D],
         NEW iter, WalksFold(iter, D, b, n, body)
  PROVE  \E at : GoesUp(at, iter, D, b, n, body)
<1>. DEFINE at == [k \in 0 .. n |-> iter[1 .. k]]
<1>1. at[0] = b
  <2>1. 1 .. 0 = {} /\ 0 \in 0 .. n
    OBVIOUS
  <2>. QED BY <2>1 DEF WalksFold
<1>2. ASSUME NEW k \in 1 .. n, at[k - 1] \in D  PROVE at[k] = body[<<at[k - 1], k>>]
  <2>. DEFINE s == 1 .. k
  <2>1. k \in s /\ s \subseteq 1 .. n /\ s # {} /\ (\A y \in s : k >= y) /\ k \in Nat
    <3>1. k \in Nat /\ 1 <= k /\ k <= n
      OBVIOUS
    <3>2. k \in s /\ \A y \in s : k >= y
      BY <3>1
    <3>3. \A y \in s : y \in 1 .. n
      BY <3>1
    <3>. QED BY <3>1, <3>2, <3>3
  <2>2. s \ {k} = 1 .. k - 1
    BY <2>1
  <2>3. Max(s) \in s /\ \A y \in s : Max(s) >= y
    BY <2>1, MaxIs
  <2>. HIDE DEF s
  <2>. DEFINE top == Max(s)
  <2>. HIDE DEF top
  <2>4. top \in 1 .. n /\ top \in s /\ \A y \in s : top >= y
    BY <2>1, <2>3 DEF top
  <2>5. top = k
    BY <2>1, <2>4
  <2>6. k \in 0 .. n /\ k - 1 \in 0 .. n
    OBVIOUS
  <2>7. iter[s \ {Max(s)}] = iter[1 .. k - 1] /\ at[k - 1] = iter[1 .. k - 1] /\ at[k] = iter[s]
    BY <2>2, <2>5, <2>6 DEF top, s
  <2>8. s \in SUBSET (1 .. n) /\ iter[s \ {Max(s)}] \in D
    BY <1>2, <2>1, <2>7
  <2>9. iter[s] = body[<<iter[s \ {Max(s)}], Max(s)>>]
    BY <2>1, <2>8 DEF WalksFold
  <2>. QED BY <2>5, <2>7, <2>9 DEF top
<1>3. at[n] = iter[1 .. n] /\ at = [k \in 0 .. n |-> at[k]] /\ DOMAIN at = 0 .. n
  <2>1. n \in 0 .. n
    OBVIOUS
  <2>. QED BY <2>1
<1>. HIDE DEF at
<1>. DEFINE T == {k \in 0 .. n : at[k] \in D}
<1>4. 0 \in T
  BY <1>1
<1>5. ASSUME NEW m \in 0 .. n - 1, m \in T  PROVE m + 1 \in T
  <2>1. m + 1 \in 1 .. n /\ (m + 1) - 1 = m /\ at[m] \in D
    BY <1>5
  <2>2. at[m + 1] = body[<<at[m], m + 1>>]
    BY <1>2, <2>1
  <2>. QED BY <2>1, <2>2
<1>. HIDE DEF T
<1>6. 0 .. n \subseteq T
  BY <1>4, <1>5, CountsTo
<1>7. \A k \in 0 .. n : at[k] \in D
  BY <1>6 DEF T
<1>8. at \in [0 .. n -> D]
  BY <1>3, <1>7
<1>9. \A k \in 1 .. n : k - 1 \in 0 .. n
  OBVIOUS
<1>10. IsLoop(at, D, b, n, body)
  BY <1>1, <1>2, <1>7, <1>8, <1>9 DEF IsLoop
<1>. QED BY <1>3, <1>10 DEF GoesUp

-----------------------------------------------------------------------------
(* Collapsing a stack.                                                      *)
Shortened(shorter, frame) ==
  IF shorter # <<>> /\ Last(shorter) = frame THEN shorter ELSE Append(shorter, frame)

Shortens(at, S, s) ==
  /\ at \in [0 .. Len(s) -> Seq(S)] /\ at[0] = <<>>
  /\ \A k \in 1 .. Len(s) : at[k] = Shortened(at[k - 1], s[k])
  /\ Collapsed(s) = at[Len(s)]

LEMMA CollapseRuns ==
  ASSUME NEW S, NEW s \in Seq(S)
  PROVE  \E at : Shortens(at, S, s)
<1>. DEFINE n == Len(s)
            D == Seq(S)
            body == [p \in D \X (1 .. n) |-> Shortened(p[1], s[p[2]])]
<1>1. n \in Nat /\ DOMAIN s = 1 .. n /\ \A k \in 1 .. n : s[k] \in S
  BY LenProperties, ElementOfSeq
<1>2. \A c \in D : \A x \in S : Shortened(c, x) \in D
  BY AppendProperties DEF Shortened
<1>3. body \in [D \X (1 .. n) -> D]
  BY <1>1, <1>2
<1>4. \A c \in D, k \in 1 .. n : body[<<c, k>>] = Shortened(c, s[k])
  OBVIOUS
<1>0. <<>> \in D
  OBVIOUS
<1>. HIDE DEF body, n, D
<1>. DEFINE Unfolds(iter) ==
       iter = [x \in SUBSET (1 .. n) |->
                 IF x = {} THEN <<>> ELSE Shortened(iter[x \ {Max(x)}], s[Max(x)])]
<1>5. PICK f : IsFold(f, D, <<>>, n, body)
  BY <1>0, <1>1, <1>3, FoldRuns
<1>6. Unfolds(f)
  <2>1. ASSUME NEW x \in SUBSET (1 .. n), x # {}
        PROVE  f[x] = Shortened(f[x \ {Max(x)}], s[Max(x)])
    <3>1. Max(x) \in 1 .. n
      BY <1>1, <2>1, MaxIs
    <3>2. f[x \ {Max(x)}] \in D
      BY <1>5 DEF IsFold
    <3>3. f[x] = body[<<f[x \ {Max(x)}], Max(x)>>]
      BY <1>5, <2>1 DEF IsFold
    <3>. QED BY <1>4, <3>1, <3>2, <3>3
  <2>2. f[{}] = <<>>
    BY <1>5 DEF IsFold
  <2>3. f = [x \in SUBSET (1 .. n) |-> f[x]]
    BY <1>5 DEF IsFold
  <2>. QED BY <2>1, <2>2, <2>3
<1>7. PICK iter : Unfolds(iter) /\ iter = CHOOSE i : Unfolds(i)
  <2>. HIDE DEF Unfolds
  <2>. QED BY <1>6
<1>8. Collapsed(s) = iter[1 .. n]
  BY <1>1, <1>7 DEF Collapsed, FoldLeft, MapThenFoldSet, Shortened
<1>9. WalksFold(iter, D, <<>>, n, body)
  <2>1. iter[{}] = <<>>
    BY <1>7
  <2>2. ASSUME NEW x \in SUBSET (1 .. n), x # {}, iter[x \ {Max(x)}] \in D
        PROVE  iter[x] = body[<<iter[x \ {Max(x)}], Max(x)>>]
    <3>1. Max(x) \in 1 .. n
      BY <1>1, <2>2, MaxIs
    <3>2. iter[x] = Shortened(iter[x \ {Max(x)}], s[Max(x)])
      BY <1>7, <2>2
    <3>. QED BY <1>4, <2>2, <3>1, <3>2
  <2>. HIDE DEF Unfolds
  <2>. QED BY <2>1, <2>2 DEF WalksFold
<1>. HIDE DEF Unfolds
<1>10. PICK at : GoesUp(at, iter, D, <<>>, n, body)
  BY <1>0, <1>1, <1>3, <1>9, FoldGoesUp
<1>11. \A k \in 1 .. n : at[k] = Shortened(at[k - 1], s[k])
  <2>1. \A k \in 1 .. n : k - 1 \in 0 .. n
    BY <1>1
  <2>. QED BY <1>4, <1>10, <2>1 DEF GoesUp, IsLoop
<1>12. Shortens(at, S, s)
  BY <1>8, <1>10, <1>11 DEF Shortens, GoesUp, IsLoop, n, D
<1>. QED BY <1>12

(* Each frame of a stack s is in a place (h) of the collapsed one c, and the    *)
(* next frame is in the same place if it is the same, or in the next.          *)
IsCollapse(S, s, c, h) ==
  /\ c \in Seq(S) /\ h \in [1 .. Len(s) -> 1 .. Len(c)]
  /\ \A i \in 1 .. Len(s) : c[h[i]] = s[i]
  /\ \A k \in 1 .. Len(c) : \E i \in 1 .. Len(s) : h[i] = k
  /\ h[1] = 1 /\ h[Len(s)] = Len(c)
  /\ \A i \in 1 .. Len(s) - 1 : h[i + 1] = IF s[i + 1] = s[i] THEN h[i] ELSE h[i] + 1

ShortenedTo(b, S, c, x, m) ==
  /\ b \in Seq(S) /\ Len(b) >= 1 /\ b[Len(b)] = x
  /\ \A i \in 1 .. m : i \in 1 .. Len(b) /\ b[i] = c[i]
  /\ m >= 1 => Len(b) = IF c[m] = x THEN m ELSE m + 1
  /\ m = 0 => Len(b) = 1
  /\ Len(b) = m \/ Len(b) = m + 1

LEMMA ShortenedIs ==
  ASSUME NEW S, NEW c \in Seq(S), NEW x \in S, NEW m \in Nat, m = Len(c),
         NEW b, b = Shortened(c, x)
  PROVE  ShortenedTo(b, S, c, x, m)
<1>1. CASE c # <<>> /\ Last(c) = x
  <2>1. m >= 1 /\ c[m] = x
    BY <1>1, LastAndFront, EmptySeq
  <2>2. b = c /\ Len(b) = m /\ m \in 1 .. m
    BY <1>1, <2>1 DEF Shortened
  <2>. QED BY <1>1, <2>1, <2>2 DEF ShortenedTo
<1>2. CASE ~(c # <<>> /\ Last(c) = x)
  <2>1. b = Append(c, x)
    BY <1>2 DEF Shortened
  <2>2. b \in Seq(S) /\ Len(b) = m + 1 /\ b[m + 1] = x /\ \A i \in 1 .. m : b[i] = c[i]
    BY <2>1, AppendProperties
  <2>3. m >= 1 => c[m] # x
    <3>1. m >= 1 => c # <<>>
      BY EmptySeq
    <3>2. Last(c) = c[m]
      BY DEF Last
    <3>. QED BY <1>2, <3>1, <3>2
  <2>. QED BY <2>2, <2>3 DEF ShortenedTo
<1>. QED BY <1>1, <1>2

LEMMA CollapsedIs ==
  ASSUME NEW S, NEW s \in Seq(S), s # <<>>
  PROVE  \E h : IsCollapse(S, s, Collapsed(s), h)
<1>1. PICK n \in Nat : n = Len(s) /\ n >= 1
  <2>1. Len(s) \in Nat /\ Len(s) # 0
    BY EmptySeq, LenProperties
  <2>. QED BY <2>1
<1>2. \A k \in 1 .. n : s[k] \in S
  BY <1>1, ElementOfSeq
<1>3. PICK at : Shortens(at, S, s)
  BY CollapseRuns
<1>4. /\ at \in [0 .. n -> Seq(S)] /\ at[0] = <<>> /\ Collapsed(s) = at[n]
      /\ \A k \in 1 .. n : at[k] = Shortened(at[k - 1], s[k])
  BY <1>1, <1>3 DEF Shortens
<1>. DEFINE l == [k \in 0 .. n |-> Len(at[k])]
<1>5. /\ l \in [0 .. n -> Nat] /\ l[0] = 0
      /\ \A k \in 0 .. n : l[k] = Len(at[k])
  <2>1. \A k \in 0 .. n : Len(at[k]) \in Nat
    BY <1>4, LenProperties
  <2>2. Len(at[0]) = 0 /\ 0 \in 0 .. n
    BY <1>1, <1>4
  <2>. QED BY <2>1, <2>2
<1>. HIDE DEF l
<1>6. ASSUME NEW k \in 1 .. n
      PROVE  /\ l[k] >= 1 /\ at[k][l[k]] = s[k]
             /\ \A i \in 1 .. l[k - 1] : i \in 1 .. l[k] /\ at[k][i] = at[k - 1][i]
             /\ l[k - 1] >= 1 => l[k] = IF at[k - 1][l[k - 1]] = s[k] THEN l[k - 1] ELSE l[k - 1] + 1
             /\ l[k - 1] = 0 => l[k] = 1
             /\ l[k] = l[k - 1] \/ l[k] = l[k - 1] + 1
  <2>1. k \in 0 .. n /\ k - 1 \in 0 .. n
    BY <1>1
  <2>2. PICK c \in Seq(S), b \in Seq(S), x \in S : c = at[k - 1] /\ b = at[k] /\ x = s[k]
    BY <1>2, <1>4, <2>1
  <2>3. PICK m \in Nat : m = Len(c)
    BY LenProperties
  <2>4. b = Shortened(c, x)
    BY <1>4, <2>2
  <2>5. ShortenedTo(b, S, c, x, m)
    BY <2>3, <2>4, ShortenedIs
  <2>6. l[k] = Len(b) /\ l[k - 1] = m
    BY <1>5, <2>1, <2>2, <2>3
  <2>. QED BY <2>2, <2>5, <2>6 DEF ShortenedTo
<1>7. \A k \in 1 .. n : k \in 0 .. n /\ k - 1 \in 0 .. n
  BY <1>1
<1>. DEFINE Good(k) ==
       /\ \A i \in 1 .. k : l[i] \in 1 .. l[k] /\ at[k][l[i]] = s[i]
       /\ \A j \in 1 .. l[k] : \E i \in 1 .. k : l[i] = j
<1>8. \A k \in 0 .. n : Good(k)
  <2>. DEFINE T == {k \in 0 .. n : Good(k)}
  <2>1. 0 \in T
    BY <1>5
  <2>2. ASSUME NEW m \in 0 .. n - 1, m \in T  PROVE m + 1 \in T
    <3>1. PICK k \in 1 .. n : k = m + 1 /\ k - 1 = m
      BY <1>1
    <3>2. Good(m) /\ l[m] \in Nat /\ l[k] \in Nat
      BY <1>5, <1>7, <2>2, <3>1
    <3>3. ASSUME NEW i \in 1 .. k  PROVE l[i] \in 1 .. l[k] /\ at[k][l[i]] = s[i]
      <4>1. CASE i = k
        BY <1>6, <3>2, <4>1
      <4>2. CASE i # k
        <5>1. i \in 1 .. m
          BY <3>1, <4>2
        <5>2. l[i] \in 1 .. l[m] /\ at[m][l[i]] = s[i]
          BY <3>2, <5>1
        <5>. QED BY <1>6, <3>1, <5>2
      <4>. QED BY <4>1, <4>2
    <3>4. ASSUME NEW j \in 1 .. l[k]  PROVE \E i \in 1 .. k : l[i] = j
      <4>1. CASE j \in 1 .. l[m]
        <5>1. PICK i \in 1 .. m : l[i] = j
          BY <3>2, <4>1
        <5>. QED BY <3>1, <5>1
      <4>2. CASE j \notin 1 .. l[m]
        <5>1. j = l[k]
          <6>1. l[k] = l[m] \/ l[k] = l[m] + 1
            BY <1>6, <3>1
          <6>. QED BY <3>2, <4>2, <6>1
        <5>. QED BY <5>1
      <4>. QED BY <4>1, <4>2
    <3>. QED BY <3>1, <3>3, <3>4
  <2>. HIDE DEF T
  <2>3. 0 .. n \subseteq T
    BY <2>1, <2>2, CountsTo
  <2>. QED BY <2>3 DEF T
<1>. DEFINE h == [i \in 1 .. n |-> l[i]]
<1>9. Good(n)
  <2>1. n \in 0 .. n
    OBVIOUS
  <2>. HIDE DEF Good
  <2>. QED BY <1>8, <2>1
<1>10. l[1] = 1
  BY <1>1, <1>5, <1>6
<1>11. ASSUME NEW i \in 1 .. n - 1
       PROVE  l[i + 1] = IF s[i + 1] = s[i] THEN l[i] ELSE l[i] + 1
  <2>1. PICK k \in 1 .. n : k = i + 1 /\ k - 1 = i
    BY <1>1
  <2>2. i \in 1 .. n
    BY <1>1
  <2>3. l[i] >= 1 /\ at[i][l[i]] = s[i]
    BY <1>6, <2>2
  <2>4. l[k - 1] >= 1 => l[k] = IF at[k - 1][l[k - 1]] = s[k] THEN l[k - 1] ELSE l[k - 1] + 1
    BY <1>6
  <2>. QED BY <2>1, <2>3, <2>4
<1>12. PICK c \in Seq(S) : c = at[n] /\ Len(c) = l[n] /\ c = Collapsed(s)
  <2>1. n \in 0 .. n
    OBVIOUS
  <2>. QED BY <1>4, <1>5, <2>1
<1>13. \A i \in 1 .. n : h[i] = l[i]
  OBVIOUS
<1>14. h \in [1 .. n -> 1 .. Len(c)]
  BY <1>9, <1>12
<1>. HIDE DEF h
<1>15. \A i \in 1 .. n : c[h[i]] = s[i]
  BY <1>9, <1>12, <1>13
<1>16. \A k \in 1 .. Len(c) : \E i \in 1 .. n : h[i] = k
  BY <1>9, <1>12, <1>13
<1>17. h[1] = 1 /\ h[n] = Len(c)
  BY <1>1, <1>10, <1>12, <1>13
<1>18. \A i \in 1 .. n - 1 : h[i + 1] = IF s[i + 1] = s[i] THEN h[i] ELSE h[i] + 1
  <2>1. \A i \in 1 .. n - 1 : i \in 1 .. n /\ i + 1 \in 1 .. n
    BY <1>1
  <2>. QED BY <1>11, <1>13, <2>1
<1>19. IsCollapse(S, s, c, h)
  BY <1>1, <1>14, <1>15, <1>16, <1>17, <1>18 DEF IsCollapse
<1>. QED BY <1>12, <1>19

(* There is one such collapsed stack.                                        *)
LEMMA OneCollapse ==
  ASSUME NEW S, NEW s \in Seq(S), s # <<>>, NEW c, NEW h, NEW b, NEW g,
         IsCollapse(S, s, c, h), IsCollapse(S, s, b, g)
  PROVE  b = c
<1>1. PICK n \in Nat : n = Len(s) /\ n >= 1
  <2>1. Len(s) \in Nat /\ Len(s) # 0
    BY EmptySeq, LenProperties
  <2>. QED BY <2>1
<1>. DEFINE f(k) == [i \in 0 .. n - 1 |-> k[i + 1]]
<1>2. \A i \in 0 .. n - 1 : f(h)[i] = h[i + 1] /\ f(g)[i] = g[i + 1]
  OBVIOUS
<1>3. f(h)[0] = f(g)[0]
  BY <1>1 DEF IsCollapse
<1>4. ASSUME NEW k \in 1 .. n - 1, f(h)[k - 1] = f(g)[k - 1]  PROVE f(h)[k] = f(g)[k]
  <2>1. k \in 0 .. n - 1 /\ k - 1 \in 0 .. n - 1 /\ (k - 1) + 1 = k
    BY <1>1
  <2>2. h[k] = g[k]
    BY <1>2, <1>4, <2>1
  <2>3. h[k + 1] = IF s[k + 1] = s[k] THEN h[k] ELSE h[k] + 1
    BY <1>1 DEF IsCollapse
  <2>4. g[k + 1] = IF s[k + 1] = s[k] THEN g[k] ELSE g[k] + 1
    BY <1>1 DEF IsCollapse
  <2>5. h[k + 1] = g[k + 1]
    BY ONLY <2>2, <2>3, <2>4
  <2>. HIDE DEF f
  <2>6. f(h)[k] = h[k + 1] /\ f(g)[k] = g[k + 1]
    BY ONLY <1>2, <2>1
  <2>. QED BY ONLY <2>5, <2>6
<1>5. ASSUME NEW m \in 0 .. n - 1  PROVE f(h)[m] = f(g)[m]
  <2>1. m \in Nat /\ \A k \in 1 .. m : k \in 1 .. n - 1
    BY <1>1
  <2>. HIDE DEF f
  <2>. QED BY <1>3, <1>4, <2>1, LoopsAgree
<1>6. \A i \in 1 .. n : h[i] = g[i]
  <2>1. \A i \in 1 .. n : i - 1 \in 0 .. n - 1 /\ (i - 1) + 1 = i
    BY <1>1
  <2>. HIDE DEF f
  <2>. QED BY <1>2, <1>5, <2>1
<1>7. c \in Seq(S) /\ b \in Seq(S) /\ Len(c) = Len(b)
  <2>1. n \in 1 .. n
    BY <1>1
  <2>. QED BY <1>1, <1>6, <2>1 DEF IsCollapse
<1>8. ASSUME NEW k \in 1 .. Len(c)  PROVE b[k] = c[k]
  <2>1. PICK i \in 1 .. n : h[i] = k
    BY <1>1 DEF IsCollapse
  <2>2. g[i] = k
    BY <1>6, <2>1
  <2>3. c[h[i]] = s[i] /\ b[g[i]] = s[i]
    BY <1>1 DEF IsCollapse
  <2>. QED BY <2>1, <2>2, <2>3
<1>. QED BY <1>7, <1>8, SeqEqual

(* No frame of a collapsed stack is the same as the next.                     *)
LEMMA CollapsedNoRepeat ==
  ASSUME NEW S, NEW s \in Seq(S), s # <<>>, NEW c, NEW h, IsCollapse(S, s, c, h),
         NEW k \in 1 .. Len(c) - 1
  PROVE  c[k] # c[k + 1]
<1>1. PICK n \in Nat : n = Len(s) /\ n >= 1
  <2>1. Len(s) \in Nat /\ Len(s) # 0
    BY EmptySeq, LenProperties
  <2>. QED BY <2>1
<1>2. PICK m \in Nat : m = Len(c)
  BY LenProperties DEF IsCollapse
<1>3. /\ h \in [1 .. n -> 1 .. m] /\ h[1] = 1
      /\ \A i \in 1 .. n : c[h[i]] = s[i]
      /\ \A j \in 1 .. m : \E i \in 1 .. n : h[i] = j
      /\ \A i \in 1 .. n - 1 : h[i + 1] = IF s[i + 1] = s[i] THEN h[i] ELSE h[i] + 1
  BY <1>1, <1>2 DEF IsCollapse
<1>. DEFINE T == {i \in 1 .. n : h[i] = k + 1}
<1>4. T \subseteq Nat /\ T # {}
  <2>1. k + 1 \in 1 .. m
    BY <1>2
  <2>2. PICK i \in 1 .. n : h[i] = k + 1
    BY <1>3, <2>1
  <2>. QED BY <2>2
<1>5. PICK i \in T : \A j \in T : i <= j
  BY <1>4, LeastNumber
<1>6. i \in 1 .. n /\ h[i] = k + 1
  OBVIOUS
<1>7. PICK j \in 1 .. n - 1 : j + 1 = i
  <2>1. i # 1
    BY <1>2, <1>3, <1>6
  <2>2. i - 1 \in 1 .. n - 1 /\ (i - 1) + 1 = i
    BY <1>1, <1>6, <2>1
  <2>. QED BY <2>2
<1>8. j \in 1 .. n /\ j \notin T
  BY <1>1, <1>5, <1>7
<1>9. h[j] # k + 1 /\ h[j] \in 1 .. m
  BY <1>3, <1>8
<1>. HIDE DEF T
<1>10. h[j + 1] = IF s[j + 1] = s[j] THEN h[j] ELSE h[j] + 1
  BY <1>3
<1>11. s[i] # s[j] /\ h[j] = k
  BY <1>2, <1>6, <1>7, <1>9, <1>10
<1>12. c[h[i]] = s[i] /\ c[h[j]] = s[j]
  BY <1>3, <1>6, <1>8
<1>. QED BY <1>6, <1>11, <1>12

LEMMA ReverseIs ==
  ASSUME NEW S, NEW s \in Seq(S), NEW n \in Nat, n = Len(s)
  PROVE  /\ Reverse(s) \in Seq(S) /\ Len(Reverse(s)) = n
         /\ \A i \in 1 .. n : n + 1 - i \in 1 .. n /\ Reverse(s)[i] = s[n + 1 - i]
<1>1. \A i \in 1 .. n : n + 1 - i \in 1 .. n /\ (n - i) + 1 = n + 1 - i
  OBVIOUS
<1>2. Reverse(s) = [i \in 1 .. n |-> s[(n - i) + 1]]
  BY DEF Reverse
<1>3. \A i \in 1 .. n : s[(n - i) + 1] \in S
  BY <1>1, ElementOfSeq
<1>. QED BY <1>1, <1>2, <1>3

(* Collapsing and reversing commute: the places of the frames count down.     *)
LEMMA CollapseReverse ==
  ASSUME NEW S, NEW s \in Seq(S), s # <<>>
  PROVE  Collapsed(Reverse(s)) = Reverse(Collapsed(s))
<1>1. PICK n \in Nat : n = Len(s) /\ n >= 1
  <2>1. Len(s) \in Nat /\ Len(s) # 0
    BY EmptySeq, LenProperties
  <2>. QED BY <2>1
<1>2. PICK h : IsCollapse(S, s, Collapsed(s), h)
  BY CollapsedIs
<1>. DEFINE c == Collapsed(s)
            r == Reverse(s)
            d == Reverse(c)
<1>3. c \in Seq(S)
  BY <1>2 DEF IsCollapse
<1>4. PICK m \in Nat : m = Len(c)
  BY <1>3, LenProperties
<1>5. /\ h \in [1 .. n -> 1 .. m] /\ h[1] = 1 /\ h[n] = m
      /\ \A i \in 1 .. n : c[h[i]] = s[i]
      /\ \A j \in 1 .. m : \E i \in 1 .. n : h[i] = j
      /\ \A i \in 1 .. n - 1 : h[i + 1] = IF s[i + 1] = s[i] THEN h[i] ELSE h[i] + 1
  BY <1>1, <1>2, <1>4 DEF IsCollapse
<1>. HIDE DEF c
<1>6. /\ r \in Seq(S) /\ Len(r) = n
      /\ \A i \in 1 .. n : n + 1 - i \in 1 .. n /\ r[i] = s[n + 1 - i]
  BY <1>1, ReverseIs
<1>7. /\ d \in Seq(S) /\ Len(d) = m
      /\ \A i \in 1 .. m : m + 1 - i \in 1 .. m /\ d[i] = c[m + 1 - i]
  BY <1>3, <1>4, ReverseIs
<1>. HIDE DEF r, d
<1>8. r # <<>>
  BY <1>1, <1>6
<1>. DEFINE g == [i \in 1 .. n |-> m + 1 - h[n + 1 - i]]
<1>9. ASSUME NEW i \in 1 .. n
      PROVE  h[n + 1 - i] \in 1 .. m /\ g[i] \in 1 .. m /\ g[i] = m + 1 - h[n + 1 - i]
  <2>1. h[n + 1 - i] \in 1 .. m
    BY <1>5, <1>6
  <2>. QED BY <2>1
<1>10. g \in [1 .. n -> 1 .. m]
  BY <1>9
<1>. HIDE DEF g
<1>11. ASSUME NEW i \in 1 .. n  PROVE d[g[i]] = r[i]
  <2>1. PICK j \in 1 .. n : j = n + 1 - i
    BY <1>6
  <2>2. PICK x \in 1 .. m : x = h[j]
    BY <1>5
  <2>3. g[i] = m + 1 - x /\ g[i] \in 1 .. m
    BY <1>9, <2>1, <2>2
  <2>4. m + 1 - g[i] = x
    BY <2>3
  <2>5. d[g[i]] = c[x] /\ r[i] = s[j]
    BY <1>6, <1>7, <2>1, <2>3, <2>4
  <2>. QED BY <1>5, <2>2, <2>5
<1>12. ASSUME NEW k \in 1 .. m  PROVE \E i \in 1 .. n : g[i] = k
  <2>1. m + 1 - k \in 1 .. m
    OBVIOUS
  <2>2. PICK j \in 1 .. n : h[j] = m + 1 - k
    BY <1>5, <2>1
  <2>3. PICK i \in 1 .. n : i = n + 1 - j
    BY <1>6
  <2>4. n + 1 - i = j
    BY <2>3
  <2>5. g[i] = m + 1 - (m + 1 - k)
    BY <1>9, <2>2, <2>4
  <2>. QED BY <2>5
<1>13. g[1] = 1 /\ g[n] = m
  <2>1. 1 \in 1 .. n /\ n \in 1 .. n /\ n + 1 - 1 = n /\ n + 1 - n = 1
    BY <1>1
  <2>2. g[1] = m + 1 - h[n + 1 - 1] /\ g[n] = m + 1 - h[n + 1 - n]
    BY <1>9, <2>1
  <2>3. g[1] = m + 1 - m /\ g[n] = m + 1 - 1
    BY <1>5, <2>1, <2>2
  <2>. QED BY <2>3
<1>14. ASSUME NEW i \in 1 .. n - 1
       PROVE  g[i + 1] = IF r[i + 1] = r[i] THEN g[i] ELSE g[i] + 1
  <2>1. PICK j \in 1 .. n - 1 : j = n - i
    BY <1>1
  <2>2. /\ i \in 1 .. n /\ i + 1 \in 1 .. n /\ j \in 1 .. n /\ j + 1 \in 1 .. n
        /\ n + 1 - i = j + 1 /\ n + 1 - (i + 1) = j
    BY <1>1, <2>1
  <2>3. r[i] = s[j + 1] /\ r[i + 1] = s[j]
    <3>1. r[i] = s[n + 1 - i] /\ r[i + 1] = s[n + 1 - (i + 1)]
      BY ONLY <1>6, <2>2
    <3>. QED BY ONLY <2>2, <3>1
  <2>4. PICK x \in 1 .. m, y \in 1 .. m : x = h[j] /\ y = h[j + 1]
    BY <1>5, <2>2
  <2>5. g[i] = m + 1 - y /\ g[i + 1] = m + 1 - x
    BY <1>9, <2>2, <2>4
  <2>6. y = IF s[j + 1] = s[j] THEN x ELSE x + 1
    BY <1>5, <2>4
  <2>. QED BY <2>3, <2>5, <2>6
<1>15. IsCollapse(S, r, d, g)
  BY <1>6, <1>7, <1>10, <1>11, <1>12, <1>13, <1>14 DEF IsCollapse
<1>16. PICK f : IsCollapse(S, r, Collapsed(r), f)
  BY <1>6, <1>8, CollapsedIs
<1>17. Collapsed(r) = d
  BY <1>6, <1>8, <1>15, <1>16, OneCollapse
<1>. QED BY <1>17 DEF r, d, c

-----------------------------------------------------------------------------
(* A file of durations is read back as it was written.                        *)
LEMMA FrameReads ==
  ASSUME NEW frame \in TextFrames
  PROVE  Printed(frame) \in Texts /\ Parsed(Printed(frame)) = frame
<1>1. CASE frame = None
  BY <1>1 DEF Printed, Parsed, Texts
<1>2. CASE frame # None
  <2>1. PICK text \in Texts \ {""} : frame = {text}
    BY <1>2 DEF TextFrames, Some
  <2>2. (CHOOSE name \in frame : TRUE) = text
    BY <2>1
  <2>3. Printed(frame) = text
    BY <1>2, <2>2 DEF Printed
  <2>. QED BY <2>1, <2>3 DEF Parsed, Some
<1>. QED BY <1>1, <1>2

LEMMA StackReads ==
  ASSUME NEW stack \in Stacks
  PROVE  ParsedStack(StackText(stack)) = stack
<1>1. PICK s \in Seq(TextFrames) : s = stack /\ s # <<>>
  BY DEF Stacks
<1>2. PICK n \in Nat : n = Len(s) /\ DOMAIN s = 1 .. n /\ \A i \in 1 .. n : s[i] \in TextFrames
  BY LenProperties, ElementOfSeq
<1>. DEFINE column == [i \in 1 .. n |-> Printed(s[i])]
<1>3. StackText(s) = column
  BY <1>1, <1>2 DEF StackText
<1>4. DOMAIN column = 1 .. n /\ \A i \in 1 .. n : column[i] = Printed(s[i])
  OBVIOUS
<1>. HIDE DEF column
<1>5. ParsedStack(column) = [i \in 1 .. n |-> Parsed(column[i])]
  BY <1>4 DEF ParsedStack
<1>6. \A i \in 1 .. n : Parsed(column[i]) = s[i]
  BY <1>2, <1>4, FrameReads
<1>7. s = [i \in 1 .. n |-> s[i]]
  BY <1>2
<1>. QED BY <1>1, <1>3, <1>5, <1>6, <1>7

LEMMA WrittenIsRead ==
  ASSUME NEW ds \in Seq(DurationRecords)
  PROVE  ReadDurations(WriteDurations(ds)) = ds
<1>. DEFINE file == WriteDurations(ds)
<1>1. PICK n \in Nat : n = Len(ds) /\ DOMAIN ds = 1 .. n
  BY LenProperties
<1>2. \A k \in 1 .. n : ds[k] \in DurationRecords
  BY <1>1, ElementOfSeq
<1>3. Len(file) = n /\ \A k \in 1 .. n : file[k] = Line(<<StackText(ds[k].stack)>>, ds[k].time)
  BY <1>1 DEF WriteDurations
<1>. HIDE DEF file
<1>4. ASSUME NEW k \in 1 .. n, NEW durations
      PROVE  ReadDuration(durations, file[k]) = Append(durations, ds[k])
  <2>1. PICK d \in DurationRecords : d = ds[k]
    BY <1>2
  <2>2. PICK line : line = file[k] /\ line.columns = <<StackText(d.stack)>> /\ line.time = d.time
    BY <1>3, <2>1 DEF Line
  <2>3. ParsedStack(line.columns[1]) = d.stack
    BY <2>2, StackReads DEF DurationRecords
  <2>4. IsDuration(line)
    BY <2>2 DEF IsDuration
  <2>5. d = [stack |-> d.stack, time |-> d.time]
    BY DEF DurationRecords
  <2>. QED BY <2>1, <2>2, <2>3, <2>4, <2>5 DEF ReadDuration
<1>. DEFINE at == [k \in 0 .. n |-> [i \in 1 .. k |-> ds[i]]]
<1>5. ASSUME NEW k \in 0 .. n
      PROVE  /\ at[k] \in Seq(DurationRecords) /\ Len(at[k]) = k
             /\ \A i \in 1 .. k : at[k][i] = ds[i]
  <2>1. k \in Nat /\ \A i \in 1 .. k : i \in 1 .. n
    BY <1>1
  <2>2. at[k] = [i \in 1 .. k |-> ds[i]]
    OBVIOUS
  <2>. QED BY <1>2, <2>1, <2>2
<1>6. DOMAIN at = 0 .. n /\ at = [k \in 0 .. n |-> at[k]]
  OBVIOUS
<1>. HIDE DEF at
<1>7. ASSUME NEW k \in 1 .. n  PROVE at[k] = Append(at[k - 1], ds[k])
  <2>1. PICK m \in 0 .. n : m = k - 1
    BY <1>1
  <2>2. PICK a \in Seq(DurationRecords) : a = at[m] /\ Len(a) = m /\ \A i \in 1 .. m : a[i] = ds[i]
    BY <1>5
  <2>3. PICK x \in DurationRecords : x = ds[k]
    BY <1>2
  <2>4. PICK b \in Seq(DurationRecords) :
          b = Append(a, x) /\ Len(b) = m + 1 /\ b[m + 1] = x /\ \A i \in 1 .. m : b[i] = a[i]
    <3>1. /\ Append(a, x) \in Seq(DurationRecords) /\ Len(Append(a, x)) = Len(a) + 1
          /\ \A i \in 1 .. Len(a) : Append(a, x)[i] = a[i]
          /\ Append(a, x)[Len(a) + 1] = x
      BY AppendProperties
    <3>. QED BY <2>2, <3>1
  <2>5. k \in 0 .. n /\ m + 1 = k
    BY <1>1, <2>1
  <2>6. PICK c \in Seq(DurationRecords) : c = at[k] /\ Len(c) = k /\ \A i \in 1 .. k : c[i] = ds[i]
    BY <1>5, <2>5
  <2>7. ASSUME NEW i \in 1 .. k  PROVE c[i] = b[i]
    <3>1. CASE i = k
      BY <2>3, <2>4, <2>5, <2>6, <3>1
    <3>2. CASE i # k
      <4>1. i \in 1 .. m
        BY <2>5, <3>2
      <4>. QED BY <2>2, <2>4, <2>6, <4>1
    <3>. QED BY <3>1, <3>2
  <2>8. b = c
    BY <2>4, <2>5, <2>6, <2>7, SeqEqual
  <2>. QED BY <2>1, <2>2, <2>3, <2>4, <2>6, <2>8
<1>8. at[0] = <<>> /\ at[n] = ds
  <2>1. 0 \in 0 .. n /\ n \in 0 .. n
    BY <1>1
  <2>2. at[0] \in Seq(DurationRecords) /\ Len(at[0]) = 0
    BY <1>5, <2>1
  <2>3. PICK c \in Seq(DurationRecords) : c = at[n] /\ Len(c) = n /\ \A i \in 1 .. n : c[i] = ds[i]
    BY <1>5, <2>1
  <2>4. c = ds
    BY <1>1, <2>3, SeqEqual
  <2>. QED BY <2>2, <2>3, <2>4, EmptySeq
<1>. DEFINE Unfolds(read) ==
       read = [k \in 0 .. n |-> IF k = 0 THEN <<>> ELSE ReadDuration(read[k - 1], file[k])]
<1>9. Unfolds(at)
  <2>1. \A k \in 0 .. n : k = 0 \/ k \in 1 .. n
    BY <1>1
  <2>2. \A k \in 1 .. n : at[k] = ReadDuration(at[k - 1], file[k])
    BY <1>4, <1>7
  <2>. QED BY <1>6, <1>8, <2>1, <2>2
<1>10. PICK read : Unfolds(read) /\ read = CHOOSE r : Unfolds(r)
  <2>. HIDE DEF Unfolds
  <2>. QED BY <1>9
<1>11. ReadDurations(file) = read[n]
  BY <1>3, <1>10 DEF ReadDurations
<1>12. /\ read[0] = <<>>
       /\ \A k \in 1 .. n : read[k] = ReadDuration(read[k - 1], file[k])
  <2>1. 0 \in 0 .. n /\ \A k \in 1 .. n : k \in 0 .. n /\ k # 0
    BY <1>1
  <2>. QED BY <1>10, <2>1
<1>. HIDE DEF Unfolds
<1>13. ASSUME NEW k \in 1 .. n, read[k - 1] = at[k - 1]  PROVE read[k] = at[k]
  BY <1>4, <1>7, <1>12, <1>13
<1>14. read[n] = at[n]
  BY <1>8, <1>12, <1>13, LoopsAgree
<1>. QED BY <1>8, <1>11, <1>14 DEF file

-----------------------------------------------------------------------------
(* The tools on the durations that a file stands for.                         *)
CollapsedAll(ds) == [i \in DOMAIN ds |-> [ds[i] EXCEPT !.stack = Collapsed(@)]]
ReversedAll(ds) == [i \in DOMAIN ds |-> [ds[i] EXCEPT !.stack = Reverse(@)]]

LEMMA StackTools ==
  ASSUME NEW stack \in Stacks
  PROVE  Collapsed(stack) \in Stacks /\ Reverse(stack) \in Stacks
<1>1. PICK s \in Seq(TextFrames) : s = stack /\ s # <<>>
  BY DEF Stacks
<1>2. PICK n \in Nat : n = Len(s) /\ n >= 1
  <2>1. Len(s) \in Nat /\ Len(s) # 0
    BY <1>1, EmptySeq, LenProperties
  <2>. QED BY <2>1
<1>3. PICK h : IsCollapse(TextFrames, s, Collapsed(s), h)
  BY <1>1, CollapsedIs
<1>4. Collapsed(s) \in Seq(TextFrames) /\ h[1] \in 1 .. Len(Collapsed(s))
  BY <1>2, <1>3 DEF IsCollapse
<1>5. Len(Collapsed(s)) # 0
  BY <1>4
<1>6. Collapsed(s) \in Stacks
  BY <1>4, <1>5, NotEmpty DEF Stacks
<1>7. Reverse(s) \in Seq(TextFrames) /\ Len(Reverse(s)) # 0
  BY <1>2, ReverseIs
<1>8. Reverse(s) \in Stacks
  BY <1>7, NotEmpty DEF Stacks
<1>. QED BY <1>1, <1>6, <1>8

LEMMA ToolsKeep ==
  ASSUME NEW ds \in Seq(DurationRecords)
  PROVE  /\ CollapsedAll(ds) \in Seq(DurationRecords)
         /\ ReversedAll(ds) \in Seq(DurationRecords)
<1>1. PICK n \in Nat : n = Len(ds) /\ DOMAIN ds = 1 .. n
  BY LenProperties
<1>2. \A k \in 1 .. n : ds[k] \in DurationRecords
  BY <1>1, ElementOfSeq
<1>3. ASSUME NEW d \in DurationRecords
      PROVE  /\ [d EXCEPT !.stack = Collapsed(@)] \in DurationRecords
             /\ [d EXCEPT !.stack = Reverse(@)] \in DurationRecords
  <2>1. d.stack \in Stacks
    BY DEF DurationRecords
  <2>2. Collapsed(d.stack) \in Stacks /\ Reverse(d.stack) \in Stacks
    BY <2>1, StackTools
  <2>. QED BY <2>2 DEF DurationRecords
<1>4. CollapsedAll(ds) \in Seq(DurationRecords)
  <2>1. \A k \in 1 .. n : [ds[k] EXCEPT !.stack = Collapsed(@)] \in DurationRecords
    BY <1>2, <1>3
  <2>2. CollapsedAll(ds) = [k \in 1 .. n |-> [ds[k] EXCEPT !.stack = Collapsed(@)]]
    BY <1>1 DEF CollapsedAll
  <2>. QED BY <2>1, <2>2
<1>5. ReversedAll(ds) \in Seq(DurationRecords)
  <2>1. \A k \in 1 .. n : [ds[k] EXCEPT !.stack = Reverse(@)] \in DurationRecords
    BY <1>2, <1>3
  <2>2. ReversedAll(ds) = [k \in 1 .. n |-> [ds[k] EXCEPT !.stack = Reverse(@)]]
    BY <1>1 DEF ReversedAll
  <2>. QED BY <2>1, <2>2
<1>. QED BY <1>4, <1>5

LEMMA ToolsOnFiles ==
  ASSUME NEW ds \in Seq(DurationRecords)
  PROVE  /\ CollapseStacks(WriteDurations(ds)) = WriteDurations(CollapsedAll(ds))
         /\ ReverseStacks(WriteDurations(ds)) = WriteDurations(ReversedAll(ds))
<1>1. ReadDurations(WriteDurations(ds)) = ds
  BY WrittenIsRead
<1>2. CollapseStacks(WriteDurations(ds)) = WriteDurations(CollapsedAll(ds))
  BY <1>1 DEF CollapseStacks, Mapped, CollapsedAll
<1>3. ReverseStacks(WriteDurations(ds)) = WriteDurations(ReversedAll(ds))
  BY <1>1 DEF ReverseStacks, Mapped, ReversedAll
<1>. QED BY <1>2, <1>3

LEMMA ToolsCommute ==
  ASSUME NEW ds \in Seq(DurationRecords)
  PROVE  CollapsedAll(ReversedAll(ds)) = ReversedAll(CollapsedAll(ds))
<1>1. PICK n \in Nat : n = Len(ds) /\ DOMAIN ds = 1 .. n
  BY LenProperties
<1>2. \A k \in 1 .. n : ds[k] \in DurationRecords
  BY <1>1, ElementOfSeq
<1>3. ASSUME NEW i \in 1 .. n
      PROVE  [[ds[i] EXCEPT !.stack = Reverse(@)] EXCEPT !.stack = Collapsed(@)] =
             [[ds[i] EXCEPT !.stack = Collapsed(@)] EXCEPT !.stack = Reverse(@)]
  <2>1. PICK d \in DurationRecords : d = ds[i]
    BY <1>2
  <2>2. d.stack \in Seq(TextFrames) /\ d.stack # <<>>
    BY DEF DurationRecords, Stacks
  <2>3. Collapsed(Reverse(d.stack)) = Reverse(Collapsed(d.stack))
    BY <2>2, CollapseReverse
  <2>4. d = [stack |-> d.stack, time |-> d.time]
    BY DEF DurationRecords
  <2>. QED BY <2>1, <2>3, <2>4
<1>4. CollapsedAll(ReversedAll(ds)) =
        [i \in 1 .. n |-> [[ds[i] EXCEPT !.stack = Reverse(@)] EXCEPT !.stack = Collapsed(@)]]
  BY <1>1 DEF CollapsedAll, ReversedAll
<1>5. ReversedAll(CollapsedAll(ds)) =
        [i \in 1 .. n |-> [[ds[i] EXCEPT !.stack = Collapsed(@)] EXCEPT !.stack = Reverse(@)]]
  BY <1>1 DEF CollapsedAll, ReversedAll
<1>. QED BY <1>3, <1>4, <1>5

-----------------------------------------------------------------------------
(* The graph and the totals, record by record.                                *)
Graphs == {<<>>} \cup UNION {[X -> Int] : X \in SUBSET Stacks}

LEMMA GraphIs ==
  ASSUME NEW graph \in Graphs
  PROVE  DOMAIN graph \subseteq Stacks /\ \A s \in DOMAIN graph : graph[s] \in Int
<1>1. CASE graph = <<>>
  BY <1>1
<1>2. CASE graph # <<>>
  <2>1. PICK X \in SUBSET Stacks : graph \in [X -> Int]
    BY <1>2 DEF Graphs
  <2>. QED BY <2>1
<1>. QED BY <1>1, <1>2

LEMMA AddedKeeps ==
  ASSUME NEW graph \in Graphs, NEW d \in DurationRecords
  PROVE  Added(graph, d) \in Graphs
<1>1. d.stack \in Stacks /\ d.time \in Int
  BY DEF DurationRecords
<1>. DEFINE X == DOMAIN graph \cup {d.stack}
            time == IF d.stack \in DOMAIN graph THEN graph[d.stack] + d.time ELSE d.time
<1>2. X \in SUBSET Stacks
  BY <1>1, GraphIs
<1>3. time \in Int
  BY <1>1, GraphIs
<1>. HIDE DEF time
<1>4. \A s \in X : (IF s = d.stack THEN time ELSE graph[s]) \in Int
  BY <1>3, GraphIs
<1>5. Added(graph, d) = [s \in X |-> IF s = d.stack THEN time ELSE graph[s]]
  BY DEF Added, WithTime, time
<1>. HIDE DEF X
<1>6. Added(graph, d) \in [X -> Int]
  BY <1>4, <1>5
<1>. QED BY <1>2, <1>6 DEF Graphs

GraphOf(ds) == FoldLeft(Added, <<>>, ds)

Grows(at, ds) ==
  /\ at \in [0 .. Len(ds) -> Graphs] /\ at[0] = <<>>
  /\ \A k \in 1 .. Len(ds) : at[k] = Added(at[k - 1], ds[k])
  /\ GraphOf(ds) = at[Len(ds)]

LEMMA GraphRuns ==
  ASSUME NEW ds \in Seq(DurationRecords)
  PROVE  \E at : Grows(at, ds)
<1>. DEFINE n == Len(ds)
            D == Graphs
            body == [p \in D \X (1 .. n) |-> Added(p[1], ds[p[2]])]
<1>1. n \in Nat /\ DOMAIN ds = 1 .. n /\ \A k \in 1 .. n : ds[k] \in DurationRecords
  BY LenProperties, ElementOfSeq
<1>3. body \in [D \X (1 .. n) -> D]
  BY <1>1, AddedKeeps
<1>4. \A c \in D, k \in 1 .. n : body[<<c, k>>] = Added(c, ds[k])
  OBVIOUS
<1>0. <<>> \in D
  BY DEF Graphs
<1>. HIDE DEF body, n, D
<1>. DEFINE Unfolds(iter) ==
       iter = [x \in SUBSET (1 .. n) |->
                 IF x = {} THEN <<>> ELSE Added(iter[x \ {Max(x)}], ds[Max(x)])]
<1>5. PICK f : IsFold(f, D, <<>>, n, body)
  BY <1>0, <1>1, <1>3, FoldRuns
<1>6. Unfolds(f)
  <2>1. ASSUME NEW x \in SUBSET (1 .. n), x # {}
        PROVE  f[x] = Added(f[x \ {Max(x)}], ds[Max(x)])
    <3>1. Max(x) \in 1 .. n
      BY <1>1, <2>1, MaxIs
    <3>2. f[x \ {Max(x)}] \in D
      BY <1>5 DEF IsFold
    <3>3. f[x] = body[<<f[x \ {Max(x)}], Max(x)>>]
      BY <1>5, <2>1 DEF IsFold
    <3>. QED BY <1>4, <3>1, <3>2, <3>3
  <2>2. f[{}] = <<>>
    BY <1>5 DEF IsFold
  <2>3. f = [x \in SUBSET (1 .. n) |-> f[x]]
    BY <1>5 DEF IsFold
  <2>. QED BY <2>1, <2>2, <2>3
<1>7. PICK iter : Unfolds(iter) /\ iter = CHOOSE i : Unfolds(i)
  <2>. HIDE DEF Unfolds
  <2>. QED BY <1>6
<1>8. GraphOf(ds) = iter[1 .. n]
  BY <1>1, <1>7 DEF GraphOf, FoldLeft, MapThenFoldSet
<1>9. WalksFold(iter, D, <<>>, n, body)
  <2>1. iter[{}] = <<>>
    BY <1>7
  <2>2. ASSUME NEW x \in SUBSET (1 .. n), x # {}, iter[x \ {Max(x)}] \in D
        PROVE  iter[x] = body[<<iter[x \ {Max(x)}], Max(x)>>]
    <3>1. Max(x) \in 1 .. n
      BY <1>1, <2>2, MaxIs
    <3>2. iter[x] = Added(iter[x \ {Max(x)}], ds[Max(x)])
      BY <1>7, <2>2
    <3>. QED BY <1>4, <2>2, <3>1, <3>2
  <2>. HIDE DEF Unfolds
  <2>. QED BY <2>1, <2>2 DEF WalksFold
<1>. HIDE DEF Unfolds
<1>10. PICK at : GoesUp(at, iter, D, <<>>, n, body)
  BY <1>0, <1>1, <1>3, <1>9, FoldGoesUp
<1>11. \A k \in 1 .. n : at[k] = Added(at[k - 1], ds[k])
  <2>1. \A k \in 1 .. n : k - 1 \in 0 .. n
    BY <1>1
  <2>. QED BY <1>4, <1>10, <2>1 DEF GoesUp, IsLoop
<1>12. Grows(at, ds)
  BY <1>8, <1>10, <1>11 DEF Grows, GoesUp, IsLoop, n, D
<1>. QED BY <1>12

StackOf(d) == Reverse(Collapsed(d.stack))
Summed(sum, d, stack) == IF StackOf(d) = stack THEN sum + d.time ELSE sum
TotalOf(stack, ds) ==
  FoldLeft(LAMBDA sum, d : IF StackOf(d) = stack THEN sum + d.time ELSE sum, 0, ds)

Sums(at, ds, stack) ==
  /\ at \in [0 .. Len(ds) -> Int] /\ at[0] = 0
  /\ \A k \in 1 .. Len(ds) : at[k] = Summed(at[k - 1], ds[k], stack)
  /\ TotalOf(stack, ds) = at[Len(ds)]

LEMMA TotalRuns ==
  ASSUME NEW ds \in Seq(DurationRecords), NEW stack
  PROVE  \E at : Sums(at, ds, stack)
<1>. DEFINE n == Len(ds)
            D == Int
            body == [p \in D \X (1 .. n) |-> Summed(p[1], ds[p[2]], stack)]
<1>1. n \in Nat /\ DOMAIN ds = 1 .. n /\ \A k \in 1 .. n : ds[k] \in DurationRecords
  BY LenProperties, ElementOfSeq
<1>2. \A c \in D : \A d \in DurationRecords : Summed(c, d, stack) \in D
  BY DEF Summed, DurationRecords
<1>3. body \in [D \X (1 .. n) -> D]
  BY <1>1, <1>2
<1>4. \A c \in D, k \in 1 .. n : body[<<c, k>>] = Summed(c, ds[k], stack)
  OBVIOUS
<1>0. 0 \in D
  OBVIOUS
<1>. HIDE DEF body, n, D
<1>. DEFINE Unfolds(iter) ==
       iter = [x \in SUBSET (1 .. n) |->
                 IF x = {} THEN 0 ELSE Summed(iter[x \ {Max(x)}], ds[Max(x)], stack)]
<1>5. PICK f : IsFold(f, D, 0, n, body)
  BY <1>0, <1>1, <1>3, FoldRuns
<1>6. Unfolds(f)
  <2>1. ASSUME NEW x \in SUBSET (1 .. n), x # {}
        PROVE  f[x] = Summed(f[x \ {Max(x)}], ds[Max(x)], stack)
    <3>1. Max(x) \in 1 .. n
      BY <1>1, <2>1, MaxIs
    <3>2. f[x \ {Max(x)}] \in D
      BY <1>5 DEF IsFold
    <3>3. f[x] = body[<<f[x \ {Max(x)}], Max(x)>>]
      BY <1>5, <2>1 DEF IsFold
    <3>. QED BY <1>4, <3>1, <3>2, <3>3
  <2>2. f[{}] = 0
    BY <1>5 DEF IsFold
  <2>3. f = [x \in SUBSET (1 .. n) |-> f[x]]
    BY <1>5 DEF IsFold
  <2>. QED BY <2>1, <2>2, <2>3
<1>7. PICK iter : Unfolds(iter) /\ iter = CHOOSE i : Unfolds(i)
  <2>. HIDE DEF Unfolds
  <2>. QED BY <1>6
<1>8. TotalOf(stack, ds) = iter[1 .. n]
  BY <1>1, <1>7 DEF TotalOf, FoldLeft, MapThenFoldSet, Summed
<1>9. WalksFold(iter, D, 0, n, body)
  <2>1. iter[{}] = 0
    BY <1>7
  <2>2. ASSUME NEW x \in SUBSET (1 .. n), x # {}, iter[x \ {Max(x)}] \in D
        PROVE  iter[x] = body[<<iter[x \ {Max(x)}], Max(x)>>]
    <3>1. Max(x) \in 1 .. n
      BY <1>1, <2>2, MaxIs
    <3>2. iter[x] = Summed(iter[x \ {Max(x)}], ds[Max(x)], stack)
      BY <1>7, <2>2
    <3>. QED BY <1>4, <2>2, <3>1, <3>2
  <2>. HIDE DEF Unfolds
  <2>. QED BY <2>1, <2>2 DEF WalksFold
<1>. HIDE DEF Unfolds
<1>10. PICK at : GoesUp(at, iter, D, 0, n, body)
  BY <1>0, <1>1, <1>3, <1>9, FoldGoesUp
<1>11. \A k \in 1 .. n : at[k] = Summed(at[k - 1], ds[k], stack)
  <2>1. \A k \in 1 .. n : k - 1 \in 0 .. n
    BY <1>1
  <2>. QED BY <1>4, <1>10, <2>1 DEF GoesUp, IsLoop
<1>12. Sums(at, ds, stack)
  BY <1>8, <1>10, <1>11 DEF Sums, GoesUp, IsLoop, n, D
<1>. QED BY <1>12

(* The durations e are those of ds with the stacks that the tools make.       *)
Mirrors(e, ds) ==
  /\ Len(e) = Len(ds)
  /\ \A i \in 1 .. Len(ds) : e[i].stack = StackOf(ds[i]) /\ e[i].time = ds[i].time

Agrees(graph, stack, sum) ==
  /\ stack \in DOMAIN graph => graph[stack] = sum
  /\ stack \notin DOMAIN graph => sum = 0

LEMMA AddedIs ==
  ASSUME NEW graph, NEW d, NEW sum \in Int, NEW source, NEW stack, d.time \in Int,
         d.stack = StackOf(source), d.time = source.time, Agrees(graph, stack, sum),
         NEW more, more = Added(graph, d), NEW total, total = Summed(sum, source, stack)
  PROVE  DOMAIN more = DOMAIN graph \cup {d.stack} /\ Agrees(more, stack, total)
<1>. DEFINE time == IF d.stack \in DOMAIN graph THEN graph[d.stack] + d.time ELSE d.time
            after == [s \in DOMAIN graph \cup {d.stack} |-> IF s = d.stack THEN time ELSE graph[s]]
<1>1. more = after
  BY DEF Added, WithTime
<1>2. /\ DOMAIN after = DOMAIN graph \cup {d.stack}
      /\ \A s \in DOMAIN after : after[s] = IF s = d.stack THEN time ELSE graph[s]
  OBVIOUS
<1>3. stack = d.stack => time = sum + d.time
  BY DEF Agrees
<1>. HIDE DEF after, time
<1>4. total = IF d.stack = stack THEN sum + d.time ELSE sum
  BY DEF Summed
<1>5. CASE stack = d.stack
  BY <1>1, <1>2, <1>3, <1>4, <1>5 DEF Agrees
<1>6. CASE stack # d.stack
  BY <1>1, <1>2, <1>4, <1>6 DEF Agrees
<1>. QED BY <1>5, <1>6

LEMMA GraphAddsUp ==
  ASSUME NEW ds \in Seq(DurationRecords), NEW e \in Seq(DurationRecords), Mirrors(e, ds),
         NEW stack
  PROVE  /\ stack \in DOMAIN GraphOf(e) <=> \E i \in 1 .. Len(ds) : stack = StackOf(ds[i])
         /\ stack \in DOMAIN GraphOf(e) => GraphOf(e)[stack] = TotalOf(stack, ds)
<1>1. PICK n \in Nat : n = Len(ds)
  BY LenProperties
<1>2. Len(e) = n /\ \A i \in 1 .. n : e[i].stack = StackOf(ds[i]) /\ e[i].time = ds[i].time
  BY <1>1 DEF Mirrors
<1>3. \A i \in 1 .. n : e[i].time \in Int
  <2>1. \A i \in 1 .. n : e[i] \in DurationRecords
    BY <1>2, ElementOfSeq
  <2>. QED BY <2>1 DEF DurationRecords
<1>4. PICK at : Grows(at, e)
  BY GraphRuns
<1>5. PICK tot : Sums(tot, ds, stack)
  BY TotalRuns
<1>6. /\ at[0] = <<>> /\ GraphOf(e) = at[n]
      /\ \A k \in 1 .. n : at[k] = Added(at[k - 1], e[k])
  BY <1>2, <1>4 DEF Grows
<1>7. /\ tot \in [0 .. n -> Int] /\ tot[0] = 0 /\ TotalOf(stack, ds) = tot[n]
      /\ \A k \in 1 .. n : tot[k] = Summed(tot[k - 1], ds[k], stack)
  BY <1>1, <1>5 DEF Sums
<1>. DEFINE Good(k) ==
       /\ stack \in DOMAIN at[k] <=> \E i \in 1 .. k : stack = StackOf(ds[i])
       /\ Agrees(at[k], stack, tot[k])
            T == {k \in 0 .. n : Good(k)}
<1>8. 0 \in T
  <2>1. DOMAIN at[0] = {}
    BY <1>6
  <2>. QED BY <1>7, <2>1 DEF Agrees
<1>9. ASSUME NEW m \in 0 .. n - 1, m \in T  PROVE m + 1 \in T
  <2>1. PICK k \in 1 .. n : k = m + 1 /\ k - 1 = m
    BY <1>1
  <2>2. Good(m) /\ tot[m] \in Int
    BY <1>7, <1>9
  <2>3. PICK graph : graph = at[m]
    OBVIOUS
  <2>4. PICK sum \in Int : sum = tot[m]
    BY <2>2
  <2>5. at[k] = Added(graph, e[k]) /\ tot[k] = Summed(sum, ds[k], stack)
    BY <1>6, <1>7, <2>1, <2>3, <2>4
  <2>6. e[k].time \in Int /\ e[k].stack = StackOf(ds[k]) /\ e[k].time = ds[k].time
    BY <1>2, <1>3
  <2>7. Agrees(graph, stack, sum)
    BY <2>2, <2>3, <2>4
  <2>8. /\ DOMAIN at[k] = DOMAIN graph \cup {e[k].stack}
        /\ Agrees(at[k], stack, tot[k])
    BY <2>5, <2>6, <2>7, AddedIs
  <2>9. stack \in DOMAIN at[k] <=> stack \in DOMAIN graph \/ stack = StackOf(ds[k])
    BY <2>6, <2>8
  <2>10. (\E i \in 1 .. k : stack = StackOf(ds[i])) <=>
         (\E i \in 1 .. m : stack = StackOf(ds[i])) \/ stack = StackOf(ds[k])
    <3>1. \A i \in 1 .. k : i \in 1 .. m \/ i = k
      BY <2>1
    <3>2. k \in 1 .. k /\ \A i \in 1 .. m : i \in 1 .. k
      BY <2>1
    <3>. QED BY <3>1, <3>2
  <2>11. Good(k)
    BY <2>2, <2>3, <2>8, <2>9, <2>10
  <2>12. k \in 0 .. n
    BY <1>1
  <2>. QED BY <2>1, <2>11, <2>12
<1>. HIDE DEF T
<1>10. 0 .. n \subseteq T
  BY <1>8, <1>9, CountsTo
<1>11. Good(n)
  <2>1. n \in T
    BY <1>10
  <2>. QED BY <2>1 DEF T
<1>. QED BY <1>1, <1>6, <1>7, <1>11 DEF Agrees

-----------------------------------------------------------------------------
LEMMA StacksMirror ==
  ASSUME NEW ds \in Seq(DurationRecords), NEW e, e = ReversedAll(CollapsedAll(ds))
  PROVE  e \in Seq(DurationRecords) /\ Mirrors(e, ds)
<1>1. PICK n \in Nat : n = Len(ds) /\ DOMAIN ds = 1 .. n
  BY LenProperties
<1>2. \A k \in 1 .. n : ds[k] \in DurationRecords
  BY <1>1, ElementOfSeq
<1>3. e \in Seq(DurationRecords)
  BY ToolsKeep
<1>4. e = [i \in 1 .. n |-> [[ds[i] EXCEPT !.stack = Collapsed(@)] EXCEPT !.stack = Reverse(@)]]
  BY <1>1 DEF CollapsedAll, ReversedAll
<1>5. Len(e) = n
  <2>1. PICK m \in Nat : m = Len(e) /\ DOMAIN e = 1 .. m
    BY <1>3, LenProperties
  <2>2. DOMAIN e = 1 .. n
    BY <1>4
  <2>3. 1 .. m = 1 .. n
    BY <2>1, <2>2
  <2>. QED BY ONLY <2>1, <2>3, n \in Nat
<1>6. ASSUME NEW i \in 1 .. n
      PROVE  e[i].stack = StackOf(ds[i]) /\ e[i].time = ds[i].time
  <2>1. PICK d \in DurationRecords : d = ds[i]
    BY <1>2
  <2>2. e[i] = [[d EXCEPT !.stack = Collapsed(@)] EXCEPT !.stack = Reverse(@)]
    BY <1>4, <2>1
  <2>3. d = [stack |-> d.stack, time |-> d.time]
    BY DEF DurationRecords
  <2>. QED BY <2>1, <2>2, <2>3 DEF StackOf
<1>. QED BY <1>1, <1>3, <1>5, <1>6 DEF Mirrors

LEMMA StackHasNoRepeat ==
  ASSUME NEW d \in DurationRecords, NEW stack, stack = StackOf(d),
         NEW i \in 1 .. Len(stack) - 1
  PROVE  stack[i] # stack[i + 1]
<1>1. d.stack \in Seq(TextFrames) /\ d.stack # <<>> /\ d.stack \in Stacks
  BY DEF DurationRecords, Stacks
<1>2. PICK s \in Seq(TextFrames) : s = Reverse(d.stack) /\ s # <<>>
  BY <1>1, StackTools DEF Stacks
<1>3. Collapsed(s) = stack
  BY <1>1, <1>2, CollapseReverse DEF StackOf
<1>4. PICK h : IsCollapse(TextFrames, s, stack, h)
  BY <1>2, <1>3, CollapsedIs
<1>. QED BY <1>2, <1>4, CollapsedNoRepeat

LEMMA FlamegraphHolds ==
  ASSUME Analysis(lines).durations \in Seq(DurationRecords)
  PROVE  FlamegraphAdds
<1>. DEFINE ds == Analysis(lines).durations
            e == ReversedAll(CollapsedAll(ds))
            file == Analyze("duration", lines)
            stacks == Analyze("stack-reverse", Analyze("stack-collapse", file))
            others == Analyze("stack-collapse", Analyze("stack-reverse", file))
            graph == Analyze("flamegraph", stacks)
<1>1. ds \in Seq(DurationRecords) /\ e \in Seq(DurationRecords) /\ Mirrors(e, ds)
  BY StacksMirror
<1>2. PICK n \in Nat : n = Len(ds) /\ DOMAIN ds = 1 .. n /\ \A i \in 1 .. n : ds[i] \in DurationRecords
  BY <1>1, LenProperties, ElementOfSeq
<1>3. file = WriteDurations(ds)
  BY DEF Analyze
<1>4. /\ CollapsedAll(ds) \in Seq(DurationRecords)
      /\ ReversedAll(ds) \in Seq(DurationRecords)
  BY <1>1, ToolsKeep
<1>5. stacks = WriteDurations(e)
  <2>1. stacks = ReverseStacks(CollapseStacks(file))
    BY DEF Analyze
  <2>2. CollapseStacks(file) = WriteDurations(CollapsedAll(ds))
    BY <1>1, <1>3, ToolsOnFiles
  <2>3. ReverseStacks(WriteDurations(CollapsedAll(ds))) = WriteDurations(e)
    BY <1>4, ToolsOnFiles
  <2>. HIDE DEF stacks, ds, e, file
  <2>. QED BY <2>1, <2>2, <2>3
<1>6. others = WriteDurations(e)
  <2>1. others = CollapseStacks(ReverseStacks(file))
    BY DEF Analyze
  <2>2. ReverseStacks(file) = WriteDurations(ReversedAll(ds))
    BY <1>1, <1>3, ToolsOnFiles
  <2>3. CollapseStacks(WriteDurations(ReversedAll(ds))) = WriteDurations(CollapsedAll(ReversedAll(ds)))
    BY <1>4, ToolsOnFiles
  <2>4. CollapsedAll(ReversedAll(ds)) = e
    BY <1>1, ToolsCommute
  <2>. HIDE DEF others, ds, e, file
  <2>. QED BY <2>1, <2>2, <2>3, <2>4
<1>7. graph = GraphOf(e)
  <2>1. graph = Flamegraph(WriteDurations(e))
    <3>. HIDE DEF stacks, e
    <3>. QED BY <1>5 DEF Analyze
  <2>2. ReadDurations(WriteDurations(e)) = e
    BY <1>1, WrittenIsRead
  <2>3. Flamegraph(WriteDurations(e)) = GraphOf(e)
    <3>. HIDE DEF e
    <3>. QED BY <2>2 DEF Flamegraph, GraphOf
  <2>. QED BY <2>1, <2>3
<1>. HIDE DEF ds, e, file, stacks, others, graph
<1>8. DOMAIN graph = {StackOf(d) : d \in ToSet(ds)}
  <2>1. ASSUME NEW stack
        PROVE  stack \in DOMAIN graph <=> \E i \in 1 .. n : stack = StackOf(ds[i])
    BY <1>1, <1>2, <1>7, GraphAddsUp
  <2>2. ToSet(ds) = {ds[i] : i \in 1 .. n}
    BY <1>2 DEF ToSet
  <2>. QED BY <2>1, <2>2
<1>9. ASSUME NEW stack \in DOMAIN graph
      PROVE  /\ graph[stack] = TotalOf(stack, ds)
             /\ \A i \in 1 .. Len(stack) - 1 : stack[i] # stack[i + 1]
  <2>1. graph[stack] = TotalOf(stack, ds) /\ \E i \in 1 .. n : stack = StackOf(ds[i])
    BY <1>1, <1>2, <1>7, GraphAddsUp
  <2>2. PICK i \in 1 .. n : stack = StackOf(ds[i])
    BY <2>1
  <2>3. \A k \in 1 .. Len(stack) - 1 : stack[k] # stack[k + 1]
    BY <1>2, <2>2, StackHasNoRepeat
  <2>. QED BY <2>1, <2>3
<1>10. stacks = others
  BY <1>5, <1>6
<1>. QED BY <1>8, <1>9, <1>10 DEF FlamegraphAdds, ds, file, stacks, others, graph, StackOf, TotalOf

LEMMA DurationsRead ==
  ASSUME ProfilerInv
  PROVE  Analysis(lines).durations \in Seq(DurationRecords)
<1>. DEFINE records == ReadProcedures(lines)
<1>1. CASE records = <<>>
  <2>. DEFINE none == [open |-> <<>>, durations |-> <<>>, missing |-> FALSE]
  <2>1. none \in States
    BY DEF States
  <2>2. Analysis(lines) = FoldLeft(Step, none, <<>>)
    BY <1>1 DEF Analysis
  <2>3. FoldLeft(Step, none, <<>>) = none
    BY <2>1, AnalysesNothing
  <2>4. none.durations \in Seq(DurationRecords)
    OBVIOUS
  <2>. HIDE DEF none
  <2>. QED BY <2>2, <2>3, <2>4
<1>2. CASE records # <<>>
  <2>1. records[1].time = 0
    BY <1>2 DEF ProfilerInv, Timed
  <2>2. Analysis(lines) = After(lines)
    BY <1>2, <2>1 DEF Analysis, After, Begin
  <2>3. PICK line \in Lines : TRUE
    BY EventsSkipped DEF Events
  <2>4. After(lines) \in States
    BY <2>3, AfterOneMore DEF ProfilerInv, Typed
  <2>. QED BY <2>2, <2>4 DEF States
<1>. QED BY <1>1, <1>2

(* The tools in a row, in either order, on a profile of any length: the graph *)
(* has the stacks that procedures ended with, from the outermost frame and    *)
(* without repeated frames, and no other, each with the sum of the times of   *)
(* those procedures (profiler/src/collapse.rs, reverse.rs, flamegraph.rs).   *)
THEOREM FlamegraphIsExact == ProfilerSpec => []FlamegraphAdds
<1>1. ProfilerInv => FlamegraphAdds
  BY DurationsRead, FlamegraphHolds
<1>. QED BY <1>1, ProfilerInvariant, PTL
=============================================================================
