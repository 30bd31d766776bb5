------------------------------- MODULE Build --------------------------------
(***************************************************************************)
(* The build script of build/src/lib.rs: one task for each source file, all  *)
(* of them on one runtime, each with a compiler process of its own between    *)
(* two pipes, or with the compiler of the crate when no process is to be     *)
(* found. Sources and outputs are counted in pieces that a pipe has room for *)
(* or not; a file is the pieces that are in it.                              *)
(***************************************************************************)
EXTENDS Integers

CONSTANTS
  FileCount,      \* source files, numbered in the order of the glob
  SourceSize,     \* of a source with the prelude in front of it
  OutputSize,     \* of the bytecode of a source
  PipeSize,       \* what a pipe holds
  SystemFails     \* whether files, pipes and disks may fail

ASSUME SizesAssumption ==
  FileCount \in Nat /\ SourceSize \in Nat /\ OutputSize \in Nat /\ PipeSize \in Nat \ {0}
ASSUME FlagsAssumption == SystemFails \in BOOLEAN

VARIABLES
  external,  \* whether `which` has found a compiler
  spawned,   \* tasks that `build` has spawned
  awaited,   \* tasks that it has seen the end of
  result,    \* "none", then what `build` returns: "ok" or "error"
  task,      \* where each task is, "none" before it is spawned
  sent,      \* pieces of the source that the task has written
  stdin,     \* pieces in the pipe to the process
  closed,    \* whether the task has closed that pipe
  process,   \* "none", "reading", "writing", "exited" or, with an error, "failed"
  written,   \* pieces that the process has written
  stdout,    \* pieces in the pipe from the process
  buffer,    \* pieces that the task has collected
  file       \* pieces in the output file, NoFile before

Files == 1 .. FileCount
NoFile == 0 - 1
taskVars == <<task, sent, closed, buffer, file>>
processVars == <<process, written>>
pipes == <<stdin, stdout>>
mainVars == <<external, spawned, awaited, result>>
vars == <<mainVars, taskVars, processVars, pipes>>

Init ==
  /\ external \in BOOLEAN /\ spawned = 0 /\ awaited = 0 /\ result = "none"
  /\ task = [f \in Files |-> "none"]
  /\ sent = [f \in Files |-> 0] /\ stdin = [f \in Files |-> 0]
  /\ closed = [f \in Files |-> FALSE]
  /\ process = [f \in Files |-> "none"] /\ written = [f \in Files |-> 0]
  /\ stdout = [f \in Files |-> 0] /\ buffer = [f \in Files |-> 0]
  /\ file = [f \in Files |-> NoFile]

-----------------------------------------------------------------------------
(* `compile`, from one await to the next. A `?` ends the task in an error.    *)

At(f, place) == result = "none" /\ task[f] = place
Goto(f, place) == task' = [task EXCEPT ![f] = place]

Spawn(f) ==
  /\ At(f, "start") /\ external
  /\ process' = [process EXCEPT ![f] = "reading"]
  /\ Goto(f, "send")
  /\ UNCHANGED <<mainVars, sent, closed, buffer, file, written, pipes>>

(* compile_r7rs in the task itself, of a source that compiles or not.        *)
CompileHere(f) ==
  /\ At(f, "start") /\ ~external
  /\ \/ buffer' = [buffer EXCEPT ![f] = OutputSize] /\ Goto(f, "store")
     \/ Goto(f, "error") /\ UNCHANGED buffer
  /\ UNCHANGED <<mainVars, sent, closed, file, processVars, pipes>>

SendMore(f) ==  \* mutant of Send: a piece too much
  /\ At(f, "send") /\ sent[f] <= SourceSize /\ stdin[f] < PipeSize
  /\ sent' = [sent EXCEPT ![f] = @ + 1] /\ stdin' = [stdin EXCEPT ![f] = @ + 1]
  /\ UNCHANGED <<mainVars, task, closed, buffer, file, processVars, stdout>>

(* write_all of the prelude and of the source, as far as the pipe has room    *)
(* and a reader.                                                           *)
Send(f) ==
  /\ At(f, "send") /\ sent[f] < SourceSize /\ stdin[f] < PipeSize
  /\ process[f] # "failed"
  /\ sent' = [sent EXCEPT ![f] = @ + 1] /\ stdin' = [stdin EXCEPT ![f] = @ + 1]
  /\ UNCHANGED <<mainVars, task, closed, buffer, file, processVars, stdout>>

StartWaitingOpen(f) ==  \* mutant of StartWaiting: the pipe stays open
  /\ At(f, "send") /\ sent[f] = SourceSize
  /\ Goto(f, "wait")
  /\ UNCHANGED <<mainVars, sent, closed, buffer, file, processVars, pipes>>

(* Child::wait closes the standard input, then waits for the exit.           *)
StartWaiting(f) ==
  /\ At(f, "send") /\ sent[f] = SourceSize
  /\ closed' = [closed EXCEPT ![f] = TRUE]
  /\ Goto(f, "wait")
  /\ UNCHANGED <<mainVars, sent, buffer, file, processVars, pipes>>

(* The exit status is not looked at.                                        *)
StopWaiting(f) ==
  /\ At(f, "wait") /\ process[f] \in {"exited", "failed"}
  /\ Goto(f, "collect")
  /\ UNCHANGED <<mainVars, sent, closed, buffer, file, processVars, pipes>>

(* read_to_end, which here begins when the process has ended.                *)
Collect(f) ==
  /\ At(f, "collect") /\ stdout[f] > 0
  /\ stdout' = [stdout EXCEPT ![f] = @ - 1] /\ buffer' = [buffer EXCEPT ![f] = @ + 1]
  /\ UNCHANGED <<mainVars, task, sent, closed, file, processVars, stdin>>

StopCollecting(f) ==
  /\ At(f, "collect") /\ stdout[f] = 0 /\ process[f] \in {"exited", "failed"}
  /\ Goto(f, "store")
  /\ UNCHANGED <<mainVars, sent, closed, buffer, file, processVars, pipes>>

Store(f) ==
  /\ At(f, "store")
  /\ file' = [file EXCEPT ![f] = buffer[f]]
  /\ Goto(f, "ok")
  /\ UNCHANGED <<mainVars, sent, closed, buffer, processVars, pipes>>

(* An error ends a task, and with it the pipe that it writes to.             *)
EndInError(f) ==
  /\ closed' = [closed EXCEPT ![f] = TRUE]
  /\ Goto(f, "error")
  /\ UNCHANGED <<mainVars, sent, buffer, processVars, pipes>>

(* write_all to a process that is no more.                                   *)
SendNowhere(f) ==
  /\ At(f, "send") /\ sent[f] < SourceSize /\ process[f] = "failed"
  /\ EndInError(f) /\ UNCHANGED file

(* A process that cannot be started, waited for or read from, a source that   *)
(* cannot be read, a directory that cannot be made.                          *)
Fail(f) ==
  /\ SystemFails /\ \E place \in {"start", "send", "wait", "collect", "store"} : At(f, place)
  /\ EndInError(f) /\ UNCHANGED file

(* A disk that is full at the start, in the middle or at the end of a file.    *)
FailToStore(f) ==
  /\ SystemFails /\ At(f, "store")
  /\ \E n \in 0 .. buffer[f] : file' = [file EXCEPT ![f] = n]
  /\ EndInError(f)

-----------------------------------------------------------------------------
(* The compiler process: it reads its source to the end, then writes.        *)

Read(f) ==
  /\ process[f] = "reading" /\ stdin[f] > 0
  /\ stdin' = [stdin EXCEPT ![f] = @ - 1]
  /\ UNCHANGED <<mainVars, taskVars, processVars, stdout>>

EndOfInput(f) ==
  /\ process[f] = "reading" /\ stdin[f] = 0 /\ closed[f]
  /\ process' = [process EXCEPT ![f] = "writing"]
  /\ UNCHANGED <<mainVars, taskVars, written, pipes>>

Write(f) ==
  /\ process[f] = "writing" /\ written[f] < OutputSize /\ stdout[f] < PipeSize
  /\ stdout' = [stdout EXCEPT ![f] = @ + 1] /\ written' = [written EXCEPT ![f] = @ + 1]
  /\ UNCHANGED <<mainVars, taskVars, process, stdin>>

Exit(f) ==
  /\ process[f] = "writing" /\ written[f] = OutputSize
  /\ process' = [process EXCEPT ![f] = "exited"]
  /\ UNCHANGED <<mainVars, taskVars, written, pipes>>

(* An error: in the source, before anything is written, or at any other time.  *)
Abort(f) ==
  /\ process[f] \in {"reading", "writing"}
  /\ process' = [process EXCEPT ![f] = "failed"]
  /\ UNCHANGED <<mainVars, taskVars, written, pipes>>

-----------------------------------------------------------------------------
(* `build`: one loop spawns the tasks, which run from then on, another one     *)
(* waits for them in the same order.                                        *)

Waiting == result = "none" /\ spawned = FileCount

SpawnTask ==
  /\ result = "none" /\ spawned < FileCount
  /\ spawned' = spawned + 1 /\ task' = [task EXCEPT ![spawned + 1] = "start"]
  /\ UNCHANGED <<external, awaited, result, sent, closed, buffer, file, processVars, pipes>>

(* A path of the glob that is an error ends the build, running tasks or not.   *)
FailToList ==
  /\ SystemFails /\ result = "none" /\ spawned < FileCount
  /\ result' = "error"
  /\ UNCHANGED <<external, spawned, awaited, taskVars, processVars, pipes>>

AwaitAll ==  \* mutant of Await: a task that fails is not noticed
  /\ Waiting /\ awaited < FileCount /\ task[awaited + 1] \in {"ok", "error"}
  /\ awaited' = awaited + 1 /\ UNCHANGED result
  /\ UNCHANGED <<external, spawned, taskVars, processVars, pipes>>

(* The first error is returned. With it the runtime and every task that is     *)
(* not done come to an end.                                                 *)
Await ==
  /\ Waiting /\ awaited < FileCount
  /\ \/ /\ task[awaited + 1] = "ok"
        /\ awaited' = awaited + 1 /\ UNCHANGED result
     \/ /\ task[awaited + 1] = "error"
        /\ result' = "error" /\ UNCHANGED awaited
  /\ UNCHANGED <<external, spawned, taskVars, processVars, pipes>>

Return ==
  /\ Waiting /\ awaited = FileCount
  /\ result' = "ok"
  /\ UNCHANGED <<external, spawned, awaited, taskVars, processVars, pipes>>

TaskStep(f) ==
  \/ Spawn(f) \/ CompileHere(f) \/ Send(f) \/ StartWaiting(f) \/ StopWaiting(f)
  \/ Collect(f) \/ StopCollecting(f) \/ Store(f) \/ SendNowhere(f)
ProcessStep(f) == Read(f) \/ EndOfInput(f) \/ Write(f) \/ Exit(f)
Failure(f) == Fail(f) \/ FailToStore(f) \/ Abort(f)

BuildStep == SpawnTask \/ FailToList \/ Await \/ Return

Next == BuildStep \/ \E f \in Files : TaskStep(f) \/ ProcessStep(f) \/ Failure(f)

(* The runtime polls every task that can go on, `build` and the tasks of the   *)
(* files alike; the system runs every process that can go on. Nothing has to   *)
(* fail.                                                                   *)
Fairness ==
  /\ WF_vars(BuildStep)
  /\ \A f \in Files : WF_vars(TaskStep(f)) /\ WF_vars(ProcessStep(f))

Spec == Init /\ [][Next]_vars /\ Fairness

-----------------------------------------------------------------------------
TypeOK ==
  /\ external \in BOOLEAN /\ result \in {"none", "ok", "error"}
  /\ spawned \in 0 .. FileCount /\ awaited \in 0 .. spawned
  /\ task \in [Files -> {"none", "start", "send", "wait", "collect", "store", "ok", "error"}]
  /\ sent \in [Files -> 0 .. SourceSize] /\ closed \in [Files -> BOOLEAN]
  /\ process \in [Files -> {"none", "reading", "writing", "exited", "failed"}]
  /\ stdin \in [Files -> 0 .. PipeSize] /\ stdout \in [Files -> 0 .. PipeSize]
  /\ written \in [Files -> 0 .. OutputSize] /\ buffer \in [Files -> 0 .. OutputSize]
  /\ file \in [Files -> {NoFile} \cup 0 .. OutputSize]

(* What the compiler of a file makes: the whole output, or, as its exit status *)
(* is ignored (build/src/lib.rs:119), what it had written when it failed.     *)
Made(f) == IF process[f] = "failed" THEN written[f] ELSE OutputSize

(* A build that succeeds has built everything: "all Scheme source files"      *)
(* (build/src/lib.rs:46) have a bytecode file that is there and is whole,     *)
(* whatever else has failed, unless the compiler process of that very file    *)
(* has, and then the file has what it had written and has lost none of it.    *)
FilesComplete == result = "ok" => \A f \in Files : file[f] = Made(f)

(* Every build comes to its end, with every file or with an error.           *)
BuildEnds == <>(result # "none")
=============================================================================
