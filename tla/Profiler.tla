------------------------------ MODULE Profiler ------------------------------
(***************************************************************************)
(* The stack profiler (profiler/src) beside the machine it listens to, and   *)
(* the analysis of what it has written. Of the machine (vm/src/vm.rs) there  *)
(* are the frames, each with the operand of the call that made it, and the   *)
(* hooks; a continuation is the frames that call/cc has taken (prelude.scm). *)
(*                                                                         *)
(* A line of the profile is a list of columns, each of them a list of texts  *)
(* that were separated by ";", and the number in its last column.           *)
(***************************************************************************)
EXTENDS Integers, Sequences, FiniteSets, SequencesExt

CONSTANTS
  Names,          \* of the global procedures that programs call
  Continuations,  \* may a program use them? a set of "escape", "reenter"
  MaxRecords      \* bound: lines of the profile

ASSUME ProfilerAssumption == "" \notin Names /\ MaxRecords \in Nat

VARIABLES
  frames,   \* the operand of each call, the innermost first; <<>> at the end
  saved,    \* the frames of a continuation, or <<>>
  lines,    \* the profile
  clock,    \* nanoseconds since the start, one for every record
  entered,  \* what happened: the stack and the time of the call of each frame
  ended,    \* and the durations of the procedures that have ended, in order
  jumps     \* the continuations that were called

profilerVars == <<frames, saved, lines, clock, entered, ended, jumps>>

(* Option<String>: a call of a variable that is not global has no name.      *)
None == {}
Some(name) == {name}
Frames == {None} \cup {Some(name) : name \in Names}

Printed(frame) == IF frame = None THEN "" ELSE CHOOSE name \in frame : TRUE
Parsed(text) == IF text = "" THEN None ELSE Some(text)

(* Stack::fmt and Stack::from_str. The text of no frames is that of one      *)
(* without a name.                                                         *)
StackText(stack) ==
  IF stack = <<>> THEN <<"">> ELSE [i \in DOMAIN stack |-> Printed(stack[i])]
ParsedStack(column) == [i \in DOMAIN column |-> Parsed(column[i])]

Line(columns, time) == [columns |-> columns, time |-> time]

-----------------------------------------------------------------------------
(* The records (stack_profiler.rs).                                        *)

ProcedureLine(operation, stack) == Line(<< <<operation>>, StackText(stack) >>, clock)
EventLine(name) == Line(<< <<name>> >>, clock)

Writes(new) ==
  /\ Len(lines) + Len(new) <= MaxRecords
  /\ lines' = lines \o new
  /\ clock' = clock + 1

CallLine(frame, tail) ==
  ProcedureLine(IF tail THEN "return_call" ELSE "call", <<frame>> \o frames)
ReturnLine == ProcedureLine("return", frames)

Entry(stack) == [stack |-> stack, time |-> clock]
Duration(entry) == [stack |-> entry.stack, time |-> clock - entry.time]

(* initialize: the top-level frame has been called by no one. Its time       *)
(* begins with the first record.                                           *)
ProfilerInit ==
  /\ frames = <<None>>
  /\ saved = <<>>
  /\ clock = 0
  /\ lines = <<EventLine("initialization_start"), EventLine("decode_start"),
               EventLine("decode_end"), EventLine("initialization_end")>>
  /\ entered = << [stack |-> <<None>>, time |-> 0] >>
  /\ ended = <<>>
  /\ jumps = {}

(* A call of a closure. A tail call keeps the continuation of its caller,    *)
(* and with it the operand that the frame shows.                           *)
Call(frame) ==
  /\ frames # <<>>
  /\ Writes(<<CallLine(frame, FALSE)>>)
  /\ frames' = <<frame>> \o frames
  /\ entered' = <<Entry(<<frame>> \o frames)>> \o entered
  /\ UNCHANGED <<saved, ended, jumps>>

TailCall(frame) ==
  /\ frames # <<>>
  /\ Writes(<<CallLine(frame, TRUE)>>)
  /\ entered' = [entered EXCEPT ![1] = Entry(<<frame>> \o frames)]
  /\ ended' = Append(ended, Duration(entered[1]))
  /\ UNCHANGED <<frames, saved, jumps>>

(* advance_code at the end of a procedure. A primitive makes no record of    *)
(* its own.                                                                *)
Return ==
  /\ frames # <<>>
  /\ Writes(<<ReturnLine>>)
  /\ frames' = Tail(frames)
  /\ entered' = Tail(entered)
  /\ ended' = Append(ended, Duration(entered[1]))
  /\ UNCHANGED <<saved, jumps>>

(* call/cc, in the frame of its own call.                                  *)
Capture ==
  /\ Continuations # {} /\ Len(frames) > 1
  /\ saved' = frames
  /\ UNCHANGED <<frames, lines, clock, entered, ended, jumps>>

(* A continuation is called as a closure, puts the saved frames in place of  *)
(* its own and returns from them. An escape is to frames that are still      *)
(* there, as far as their operands tell.                                   *)
Kind == IF IsSuffix(saved, frames) THEN "escape" ELSE "reenter"

Throw(tail) ==
  /\ frames # <<>> /\ saved # <<>> /\ Kind \in Continuations
  /\ Writes(<<CallLine(None, tail), ProcedureLine("return", saved)>>)
  /\ frames' = Tail(saved)
  /\ jumps' = jumps \cup {Kind}
  /\ UNCHANGED <<saved, entered, ended>>

ProfilerNext ==
  \/ \E frame \in Frames : Call(frame)
  \/ \E frame \in Frames : TailCall(frame)
  \/ Return
  \/ Capture
  \/ \E tail \in BOOLEAN : Throw(tail)

ProfilerSpec == ProfilerInit /\ [][ProfilerNext]_profilerVars

-----------------------------------------------------------------------------
(* The analysis.                                                           *)

(* read_records drops what does not parse: of a procedure's record the       *)
(* operation is checked, of a duration's only the number of columns.        *)
Operations == {"call", "return", "return_call"}

IsProcedure(line) == Len(line.columns) = 2 /\ line.columns[1][1] \in Operations

Procedure(line) ==
  [operation |-> line.columns[1][1], stack |-> ParsedStack(line.columns[2]), time |-> line.time]

ReadProcedure(records, line) ==
  IF IsProcedure(line) THEN Append(records, Procedure(line)) ELSE records

ReadProcedures(file) ==
  LET read[n \in 0 .. Len(file)] ==
        IF n = 0 THEN <<>> ELSE ReadProcedure(read[n - 1], file[n])
  IN read[Len(file)]

IsDuration(line) == Len(line.columns) = 1

ReadDuration(durations, line) ==
  IF IsDuration(line)
  THEN Append(durations, [stack |-> ParsedStack(line.columns[1]), time |-> line.time])
  ELSE durations

ReadDurations(file) ==
  LET read[n \in 0 .. Len(file)] ==
        IF n = 0 THEN <<>> ELSE ReadDuration(read[n - 1], file[n])
  IN read[Len(file)]

WriteDurations(durations) ==
  [i \in DOMAIN durations |-> Line(<<StackText(durations[i].stack)>>, durations[i].time)]

(* calculate_durations: the records of open calls, and the durations up to   *)
(* the first error, where write_records stops. The call of the top-level     *)
(* frame has no record; one is made up.                                    *)
Closes(state, record) ==
  IF state.open = <<>> THEN [state EXCEPT !.missing = TRUE]
  ELSE LET previous == Last(state.open)
       IN [state EXCEPT !.open = Front(@),
             !.durations = Append(@, [stack |-> previous.stack,
                                      time |-> record.time - previous.time])]

Opens(state, record) == [state EXCEPT !.open = Append(@, record)]

(* Mutant of Step: a tail call opens nothing.                               *)
StepTail(state, record) ==
  IF state.missing THEN state
  ELSE IF record.operation = "call" THEN Opens(state, record) ELSE Closes(state, record)

Step(state, record) ==
  IF state.missing THEN state
  ELSE CASE record.operation = "call" -> Opens(state, record)
         [] record.operation = "return" -> Closes(state, record)
         [] record.operation = "return_call" ->
              LET closed == Closes(state, record)
              IN IF closed.missing THEN closed ELSE Opens(closed, record)

(* Mutant of Analysis: no call is made up.                                  *)
AnalysisBare(file) ==
  FoldLeft(Step, [open |-> <<>>, durations |-> <<>>, missing |-> FALSE], ReadProcedures(file))

Analysis(file) ==
  LET records == ReadProcedures(file)
      first == [operation |-> "call", stack |-> <<None>>, time |-> records[1].time]
  IN FoldLeft(Step, [open |-> IF records = <<>> THEN <<>> ELSE <<first>>,
                     durations |-> <<>>, missing |-> FALSE], records)

(* collapse_frames and reverse_frames, and the tools on files of durations.  *)
Collapsed(stack) ==
  FoldLeft(LAMBDA shorter, frame :
             IF shorter # <<>> /\ Last(shorter) = frame THEN shorter
             ELSE Append(shorter, frame), <<>>, stack)

Mapped(F(_), file) ==
  LET durations == ReadDurations(file)
  IN WriteDurations([i \in DOMAIN durations |-> [durations[i] EXCEPT !.stack = F(@)]])

CollapseStacks(file) == Mapped(Collapsed, file)
ReverseStacks(file) == Mapped(Reverse, file)

(* calculate_flamegraph: the time of each stack so far.                      *)
WithTime(graph, stack, time) ==
  [s \in DOMAIN graph \cup {stack} |-> IF s = stack THEN time ELSE graph[s]]

Added(graph, d) ==
  WithTime(graph, d.stack, IF d.stack \in DOMAIN graph THEN graph[d.stack] + d.time ELSE d.time)

(* Mutant of Flamegraph: the last record of a stack replaces the others.    *)
FlamegraphLast(file) ==
  FoldLeft(LAMBDA graph, d : WithTime(graph, d.stack, d.time), <<>>, ReadDurations(file))

Flamegraph(file) == FoldLeft(Added, <<>>, ReadDurations(file))

(* stak-profile analyze, a filter on files.                                  *)
Analyze(command, file) ==
  CASE command = "duration" -> WriteDurations(Analysis(file).durations)
    [] command = "stack-collapse" -> CollapseStacks(file)
    [] command = "stack-reverse" -> ReverseStacks(file)
    [] command = "flamegraph" -> Flamegraph(file)

-----------------------------------------------------------------------------
(* Without continuations each procedure that has ended is there in the order *)
(* of the ends, with the stack and the time since its own call, however      *)
(* calls, tail calls and calls of local procedures nest; and when the        *)
(* program has ended no call is left open.                                  *)
DurationsExact ==
  jumps = {} =>
    LET result == Analysis(lines)
    IN /\ result.durations = ended
       /\ frames = <<>> => result.open = <<>>

(* A program that only escapes through continuations never makes the         *)
(* analysis stop for a missing call record: there are at least as many open  *)
(* records as frames.                                                      *)
NeverMissing ==
  "reenter" \notin jumps =>
    LET result == Analysis(lines)
    IN /\ ~result.missing
       /\ result.open # <<>> => Len(result.open) >= Len(frames)

(* The tools in a row, in either order, lose no time and no frame but a       *)
(* repeated one: a stack has the time of all the procedures that ended with   *)
(* it, read from the outermost frame.                                       *)
FlamegraphAdds ==
  LET durations == Analysis(lines).durations
      file == Analyze("duration", lines)
      stacks == Analyze("stack-reverse", Analyze("stack-collapse", file))
      graph == Analyze("flamegraph", stacks)
      StackOf(d) == Reverse(Collapsed(d.stack))
      Total(stack) ==
        FoldLeft(LAMBDA sum, d : IF StackOf(d) = stack THEN sum + d.time ELSE sum, 0, durations)
  IN /\ stacks = Analyze("stack-collapse", Analyze("stack-reverse", file))
     /\ DOMAIN graph = {StackOf(d) : d \in ToSet(durations)}
     /\ \A stack \in DOMAIN graph :
          /\ graph[stack] = Total(stack)
          /\ \A i \in 1 .. Len(stack) - 1 : stack[i] # stack[i + 1]
=============================================================================
