---------------------------- MODULE BuildProofs -----------------------------
(***************************************************************************)
(* Build for every number of files and every size of sources, outputs and    *)
(* pipes: whatever fails, a build that succeeds has a file for every source,  *)
(* and only one whose own compiler has failed is not whole.                  *)
(***************************************************************************)
EXTENDS Build, TLAPS

(* What the process has written is in the pipe or with the task, and no       *)
(* process runs ahead of its task.                                          *)
Flow(f) ==
  /\ process[f] # "none" => buffer[f] + stdout[f] = written[f]
  /\ task[f] \in {"send", "wait", "collect"} => process[f] # "none"
  /\ task[f] \in {"none", "start"} =>
       process[f] = "none" /\ buffer[f] = 0 /\ stdout[f] = 0 /\ written[f] = 0
  /\ f > spawned => task[f] = "none"

(* A process that ends without an error has written everything, what has been *)
(* collected is what a process has made that has ended (or the compiler of    *)
(* the crate), and so is the file.                                          *)
Whole(f) ==
  /\ process[f] = "exited" => written[f] = OutputSize
  /\ task[f] \in {"collect", "store", "ok"} => process[f] \in {"none", "exited", "failed"}
  /\ task[f] = "store" => buffer[f] = Made(f)
  /\ task[f] = "ok" => file[f] = Made(f)

(* What `build` has waited for has succeeded, and it waits for all.          *)
Ended ==
  /\ \A f \in Files : f <= awaited => task[f] = "ok"
  /\ result = "ok" => awaited = FileCount

Inv == TypeOK /\ \A f \in Files : Flow(f)
Complete == (\A f \in Files : Whole(f)) /\ Ended

-----------------------------------------------------------------------------
LEMMA InitHolds == Init => Inv /\ Complete
BY SizesAssumption DEF Init, Inv, TypeOK, Flow, Complete, Whole, Ended, Files, NoFile

LEMMA SpawnKeeps ==
  ASSUME Inv, NEW f \in Files, Spawn(f)
  PROVE  Inv' /\ (Complete => Complete')
<1> USE SizesAssumption
<1>1. TypeOK'
  BY DEF Inv, TypeOK, Flow, Files, Spawn, At, Goto, mainVars, processVars, pipes
<1>2. \A g \in Files : Flow(g)'
  BY SMTT(30) DEF Inv, TypeOK, Flow, Files, Spawn, At, Goto, mainVars, processVars, pipes
<1>3. ASSUME Complete PROVE (\A g \in Files : Whole(g)')
  BY <1>3 DEF Inv, TypeOK, Flow, Complete, Whole, Made, Files, Spawn, At, Goto, mainVars, processVars, pipes
<1>4. ASSUME Complete PROVE Ended'
  BY <1>4 DEF Inv, TypeOK, Complete, Ended, Files, Spawn, At, Goto, mainVars, processVars, pipes
<1> QED
  BY <1>1, <1>2, <1>3, <1>4 DEF Inv, Complete

LEMMA CompileHereKeeps ==
  ASSUME Inv, NEW f \in Files, CompileHere(f)
  PROVE  Inv' /\ (Complete => Complete')
<1> USE SizesAssumption
<1>1. TypeOK'
  <2>1. buffer' \in [Files -> 0 .. OutputSize]
    BY DEF Inv, TypeOK, CompileHere
  <2>2. task' \in [Files -> {"none", "start", "send", "wait", "collect", "store", "ok", "error"}]
    BY DEF Inv, TypeOK, CompileHere, Goto
  <2> QED
    BY <2>1, <2>2 DEF Inv, TypeOK, CompileHere, mainVars, processVars, pipes
<1>2. \A g \in Files : Flow(g)'
  BY DEF Inv, TypeOK, Flow, Files, CompileHere, At, Goto, mainVars, processVars, pipes
<1>3. ASSUME Complete, NEW g \in Files PROVE Whole(g)'
  <2>1. Whole(g) /\ UNCHANGED <<process, written, file>>
    BY <1>3 DEF Complete, CompileHere, processVars
  <2>2. CASE g = f
    <3>1. task[f] = "start" /\ process[f] = "none"
      BY DEF Inv, Flow, CompileHere, At
    <3>2. \/ task'[f] = "store" /\ buffer'[f] = OutputSize
          \/ task'[f] = "error"
      BY DEF Inv, TypeOK, CompileHere, Goto
    <3> QED
      BY <2>1, <2>2, <3>1, <3>2 DEF Whole, Made
  <2>3. CASE g # f
    <3>1. task'[g] = task[g] /\ buffer'[g] = buffer[g]
      BY <2>3 DEF Inv, TypeOK, CompileHere, Goto
    <3> QED
      BY <2>1, <3>1 DEF Whole, Made
  <2> QED
    BY <2>2, <2>3
<1>4. ASSUME Complete PROVE Ended'
  BY <1>4 DEF Inv, TypeOK, Complete, Ended, Files, CompileHere, At, Goto, mainVars, processVars, pipes
<1> QED
  BY <1>1, <1>2, <1>3, <1>4 DEF Inv, Complete

LEMMA SendKeeps ==
  ASSUME Inv, NEW f \in Files, Send(f)
  PROVE  Inv' /\ (Complete => Complete')
<1> USE SizesAssumption
<1>1. TypeOK'
  <2>1. sent[f] \in Nat /\ stdin[f] \in Nat /\ sent[f] < SourceSize /\ stdin[f] < PipeSize
    BY DEF Inv, TypeOK, Send
  <2>2. sent[f] + 1 \in 0 .. SourceSize /\ stdin[f] + 1 \in 0 .. PipeSize
    BY <2>1
  <2>3. sent' \in [Files -> 0 .. SourceSize]
    BY <2>2 DEF Inv, TypeOK, Send
  <2>4. stdin' \in [Files -> 0 .. PipeSize]
    BY <2>2 DEF Inv, TypeOK, Send
  <2> QED
    BY <2>3, <2>4 DEF Inv, TypeOK, Send, mainVars, processVars
<1>2. \A g \in Files : Flow(g)'
  BY DEF Inv, TypeOK, Flow, Files, Send, At, Goto, mainVars, processVars, pipes
<1>3. ASSUME Complete PROVE (\A g \in Files : Whole(g)')
  BY <1>3 DEF Inv, TypeOK, Flow, Complete, Whole, Made, Files, Send, At, Goto, mainVars, processVars, pipes
<1>4. ASSUME Complete PROVE Ended'
  BY <1>4 DEF Inv, TypeOK, Complete, Ended, Files, Send, At, Goto, mainVars, processVars, pipes
<1> QED
  BY <1>1, <1>2, <1>3, <1>4 DEF Inv, Complete

LEMMA StartWaitingKeeps ==
  ASSUME Inv, NEW f \in Files, StartWaiting(f)
  PROVE  Inv' /\ (Complete => Complete')
<1> USE SizesAssumption
<1>1. TypeOK'
  BY DEF Inv, TypeOK, Flow, Files, StartWaiting, At, Goto, mainVars, processVars, pipes
<1>2. \A g \in Files : Flow(g)'
  BY DEF Inv, TypeOK, Flow, Files, StartWaiting, At, Goto, mainVars, processVars, pipes
<1>3. ASSUME Complete PROVE (\A g \in Files : Whole(g)')
  BY <1>3 DEF Inv, TypeOK, Flow, Complete, Whole, Made, Files, StartWaiting, At, Goto, mainVars, processVars, pipes
<1>4. ASSUME Complete PROVE Ended'
  BY <1>4 DEF Inv, TypeOK, Complete, Ended, Files, StartWaiting, At, Goto, mainVars, processVars, pipes
<1> QED
  BY <1>1, <1>2, <1>3, <1>4 DEF Inv, Complete

LEMMA StopWaitingKeeps ==
  ASSUME Inv, NEW f \in Files, StopWaiting(f)
  PROVE  Inv' /\ (Complete => Complete')
<1> USE SizesAssumption
<1>1. TypeOK'
  BY DEF Inv, TypeOK, Flow, Files, StopWaiting, At, Goto, mainVars, processVars, pipes
<1>2. \A g \in Files : Flow(g)'
  BY DEF Inv, TypeOK, Flow, Files, StopWaiting, At, Goto, mainVars, processVars, pipes
<1>3. ASSUME Complete PROVE (\A g \in Files : Whole(g)')
  BY <1>3 DEF Inv, TypeOK, Flow, Complete, Whole, Made, Files, StopWaiting, At, Goto, mainVars, processVars, pipes
<1>4. ASSUME Complete PROVE Ended'
  BY <1>4 DEF Inv, TypeOK, Complete, Ended, Files, StopWaiting, At, Goto, mainVars, processVars, pipes
<1> QED
  BY <1>1, <1>2, <1>3, <1>4 DEF Inv, Complete

LEMMA CollectKeeps ==
  ASSUME Inv, NEW f \in Files, Collect(f)
  PROVE  Inv' /\ (Complete => Complete')
<1> USE SizesAssumption
<1>1. TypeOK'
  <2>1. /\ buffer[f] \in Nat /\ stdout[f] \in 0 .. PipeSize /\ written[f] \in 0 .. OutputSize
        /\ stdout[f] > 0 /\ buffer[f] + stdout[f] = written[f]
    BY DEF Inv, TypeOK, Flow, Collect, At
  <2>2. buffer[f] + 1 \in 0 .. OutputSize /\ stdout[f] - 1 \in 0 .. PipeSize
    BY <2>1
  <2>3. buffer' \in [Files -> 0 .. OutputSize]
    BY <2>2 DEF Inv, TypeOK, Collect
  <2>4. stdout' \in [Files -> 0 .. PipeSize]
    BY <2>2 DEF Inv, TypeOK, Collect
  <2> QED
    BY <2>3, <2>4 DEF Inv, TypeOK, Collect, mainVars, processVars
<1>2. \A g \in Files : Flow(g)'
  <2> TAKE g \in Files
  <2>1. /\ buffer'[g] = IF g = f THEN buffer[g] + 1 ELSE buffer[g]
        /\ stdout'[g] = IF g = f THEN stdout[g] - 1 ELSE stdout[g]
        /\ task[f] = "collect" /\ UNCHANGED <<process, task, written, spawned>>
    BY DEF Inv, TypeOK, Collect, At, mainVars, processVars
  <2>2. Flow(g) /\ Flow(f) /\ buffer[f] \in Nat /\ stdout[f] \in Nat /\ written[f] \in Nat
    BY DEF Inv, TypeOK
  <2>3. CASE g = f
    <3>1. process[f] # "none" /\ buffer[f] + stdout[f] = written[f]
      BY <2>1, <2>2 DEF Flow
    <3>2. (buffer[f] + 1) + (stdout[f] - 1) = written[f]
      BY <2>2, <3>1
    <3>3. buffer'[g] + stdout'[g] = written'[g]
      BY <2>1, <2>3, <3>2
    <3>4. ~(f > spawned)
      BY <2>1, <2>2 DEF Flow
    <3> QED
      BY <2>1, <2>3, <3>1, <3>3, <3>4 DEF Flow
  <2>4. CASE g # f
    BY <2>1, <2>2, <2>4 DEF Flow
  <2> QED
    BY <2>3, <2>4
<1>3. ASSUME Complete PROVE (\A g \in Files : Whole(g)')
  BY <1>3 DEF Inv, TypeOK, Flow, Complete, Whole, Made, Files, Collect, At, Goto, mainVars, processVars, pipes
<1>4. ASSUME Complete PROVE Ended'
  BY <1>4 DEF Inv, TypeOK, Complete, Ended, Files, Collect, At, Goto, mainVars, processVars, pipes
<1> QED
  BY <1>1, <1>2, <1>3, <1>4 DEF Inv, Complete

LEMMA StopCollectingKeeps ==
  ASSUME Inv, NEW f \in Files, StopCollecting(f)
  PROVE  Inv' /\ (Complete => Complete')
<1> USE SizesAssumption
<1>1. TypeOK'
  BY DEF Inv, TypeOK, Flow, Files, StopCollecting, At, Goto, mainVars, processVars, pipes
<1>2. \A g \in Files : Flow(g)'
  BY DEF Inv, TypeOK, Flow, Files, StopCollecting, At, Goto, mainVars, processVars, pipes
<1>3. ASSUME Complete, NEW g \in Files PROVE Whole(g)'
  <2>1. Whole(g) /\ UNCHANGED <<process, written, buffer, file>>
    BY <1>3 DEF Complete, StopCollecting, processVars
  <2>2. CASE g = f
    <3>1. task[f] = "collect" /\ stdout[f] = 0 /\ process[f] \in {"exited", "failed"}
      BY DEF StopCollecting, At
    <3>2. buffer[f] + stdout[f] = written[f] /\ buffer[f] \in Nat
      BY <3>1 DEF Inv, TypeOK, Flow
    <3>3. task'[f] = "store"
      BY DEF Inv, TypeOK, StopCollecting, Goto
    <3> QED
      BY <2>1, <2>2, <3>1, <3>2, <3>3 DEF Whole, Made
  <2>3. CASE g # f
    <3>1. task'[g] = task[g]
      BY <2>3 DEF Inv, TypeOK, StopCollecting, Goto
    <3> QED
      BY <2>1, <3>1 DEF Whole, Made
  <2> QED
    BY <2>2, <2>3
<1>4. ASSUME Complete PROVE Ended'
  BY <1>4 DEF Inv, TypeOK, Complete, Ended, Files, StopCollecting, At, Goto, mainVars, processVars, pipes
<1> QED
  BY <1>1, <1>2, <1>3, <1>4 DEF Inv, Complete

LEMMA StoreKeeps ==
  ASSUME Inv, NEW f \in Files, Store(f)
  PROVE  Inv' /\ (Complete => Complete')
<1> USE SizesAssumption
<1>1. TypeOK'
  BY DEF Inv, TypeOK, Flow, Files, Store, At, Goto, mainVars, processVars, pipes
<1>2. \A g \in Files : Flow(g)'
  BY DEF Inv, TypeOK, Flow, Files, Store, At, Goto, mainVars, processVars, pipes
<1>3. ASSUME Complete PROVE (\A g \in Files : Whole(g)')
  BY <1>3 DEF Inv, TypeOK, Flow, Complete, Whole, Made, Files, Store, At, Goto, mainVars, processVars, pipes
<1>4. ASSUME Complete PROVE Ended'
  BY <1>4 DEF Inv, TypeOK, Complete, Ended, Files, Store, At, Goto, mainVars, processVars, pipes
<1> QED
  BY <1>1, <1>2, <1>3, <1>4 DEF Inv, Complete

LEMMA SendNowhereKeeps ==
  ASSUME Inv, NEW f \in Files, SendNowhere(f)
  PROVE  Inv' /\ (Complete => Complete')
<1> USE SizesAssumption
<1>1. TypeOK'
  <2>1. task' \in [Files -> {"none", "start", "send", "wait", "collect", "store", "ok", "error"}]
    BY DEF Inv, TypeOK, SendNowhere, EndInError, Goto
  <2>2. closed' \in [Files -> BOOLEAN]
    BY DEF Inv, TypeOK, SendNowhere, EndInError
  <2> QED
    BY <2>1, <2>2 DEF Inv, TypeOK, SendNowhere, EndInError, mainVars, processVars, pipes
<1>2. \A g \in Files : Flow(g)'
  BY DEF Inv, TypeOK, Flow, Files, SendNowhere, EndInError, At, Goto, mainVars, processVars, pipes
<1>3. ASSUME Complete PROVE (\A g \in Files : Whole(g)')
  BY <1>3 DEF Inv, TypeOK, Flow, Complete, Whole, Made, Files, SendNowhere, EndInError, At, Goto, mainVars, processVars, pipes
<1>4. ASSUME Complete PROVE Ended'
  BY <1>4 DEF Inv, TypeOK, Complete, Ended, Files, SendNowhere, EndInError, At, Goto, mainVars, processVars, pipes
<1> QED
  BY <1>1, <1>2, <1>3, <1>4 DEF Inv, Complete

LEMMA FailKeeps ==
  ASSUME Inv, NEW f \in Files, Fail(f)
  PROVE  Inv' /\ (Complete => Complete')
<1> USE SizesAssumption
<1>1. TypeOK'
  <2>1. task' \in [Files -> {"none", "start", "send", "wait", "collect", "store", "ok", "error"}]
    BY DEF Inv, TypeOK, Fail, EndInError, Goto
  <2>2. closed' \in [Files -> BOOLEAN]
    BY DEF Inv, TypeOK, Fail, EndInError
  <2> QED
    BY <2>1, <2>2 DEF Inv, TypeOK, Fail, EndInError, mainVars, processVars, pipes
<1>2. \A g \in Files : Flow(g)'
  BY DEF Inv, TypeOK, Flow, Files, Fail, EndInError, At, Goto, mainVars, processVars, pipes
<1>3. ASSUME Complete PROVE (\A g \in Files : Whole(g)')
  BY <1>3 DEF Inv, TypeOK, Flow, Complete, Whole, Made, Files, Fail, EndInError, At, Goto, mainVars, processVars, pipes
<1>4. ASSUME Complete PROVE Ended'
  BY <1>4 DEF Inv, TypeOK, Complete, Ended, Files, Fail, EndInError, At, Goto, mainVars, processVars, pipes
<1> QED
  BY <1>1, <1>2, <1>3, <1>4 DEF Inv, Complete

LEMMA FailToStoreKeeps ==
  ASSUME Inv, NEW f \in Files, FailToStore(f)
  PROVE  Inv' /\ (Complete => Complete')
<1> USE SizesAssumption
<1>0. PICK n \in 0 .. buffer[f] : file' = [file EXCEPT ![f] = n]
  BY DEF FailToStore
<1>1. TypeOK'
  <2>1. file' \in [Files -> {NoFile} \cup 0 .. OutputSize]
    <3>1. buffer[f] \in 0 .. OutputSize /\ file \in [Files -> {NoFile} \cup 0 .. OutputSize]
      BY DEF Inv, TypeOK
    <3>2. n \in 0 .. OutputSize
      BY <3>1
    <3> QED
      BY <1>0, <3>1, <3>2
  <2>2. task' \in [Files -> {"none", "start", "send", "wait", "collect", "store", "ok", "error"}]
    BY DEF Inv, TypeOK, FailToStore, EndInError, Goto
  <2>3. closed' \in [Files -> BOOLEAN]
    BY DEF Inv, TypeOK, FailToStore, EndInError
  <2> QED
    BY <2>1, <2>2, <2>3 DEF Inv, TypeOK, FailToStore, EndInError, mainVars, processVars, pipes
<1>2. \A g \in Files : Flow(g)'
  BY DEF Inv, TypeOK, Flow, Files, FailToStore, EndInError, At, Goto, mainVars, processVars, pipes
<1>3. ASSUME Complete PROVE (\A g \in Files : Whole(g)')
  BY <1>0, <1>3 DEF Inv, TypeOK, Flow, Complete, Whole, Made, Files, FailToStore, EndInError, At, Goto, mainVars, processVars, pipes
<1>4. ASSUME Complete PROVE Ended'
  BY <1>4 DEF Inv, TypeOK, Complete, Ended, Files, FailToStore, EndInError, At, Goto, mainVars, processVars, pipes
<1> QED
  BY <1>1, <1>2, <1>3, <1>4 DEF Inv, Complete

LEMMA ReadKeeps ==
  ASSUME Inv, NEW f \in Files, Read(f)
  PROVE  Inv' /\ (Complete => Complete')
<1> USE SizesAssumption
<1>1. TypeOK'
  BY SMTT(30) DEF Inv, TypeOK, Flow, Files, Read, mainVars, taskVars, processVars, pipes
<1>2. \A g \in Files : Flow(g)'
  BY DEF Inv, TypeOK, Flow, Files, Read, mainVars, taskVars, processVars, pipes
<1>3. ASSUME Complete PROVE (\A g \in Files : Whole(g)')
  BY <1>3 DEF Inv, TypeOK, Flow, Complete, Whole, Made, Files, Read, mainVars, taskVars, processVars, pipes
<1>4. ASSUME Complete PROVE Ended'
  BY <1>4 DEF Inv, TypeOK, Complete, Ended, Files, Read, mainVars, taskVars, processVars, pipes
<1> QED
  BY <1>1, <1>2, <1>3, <1>4 DEF Inv, Complete

LEMMA EndOfInputKeeps ==
  ASSUME Inv, NEW f \in Files, EndOfInput(f)
  PROVE  Inv' /\ (Complete => Complete')
<1> USE SizesAssumption
<1>1. TypeOK'
  BY DEF Inv, TypeOK, Flow, Files, EndOfInput, mainVars, taskVars, processVars, pipes
<1>2. \A g \in Files : Flow(g)'
  BY DEF Inv, TypeOK, Flow, Files, EndOfInput, mainVars, taskVars, processVars, pipes
<1>3. ASSUME Complete PROVE (\A g \in Files : Whole(g)')
  BY <1>3 DEF Inv, TypeOK, Flow, Complete, Whole, Made, Files, EndOfInput, mainVars, taskVars, processVars, pipes
<1>4. ASSUME Complete PROVE Ended'
  BY <1>4 DEF Inv, TypeOK, Complete, Ended, Files, EndOfInput, mainVars, taskVars, processVars, pipes
<1> QED
  BY <1>1, <1>2, <1>3, <1>4 DEF Inv, Complete

LEMMA WriteKeeps ==
  ASSUME Inv, NEW f \in Files, Write(f)
  PROVE  Inv' /\ (Complete => Complete')
<1> USE SizesAssumption
<1>0. /\ written[f] \in Nat /\ stdout[f] \in Nat /\ buffer[f] \in Nat
      /\ written[f] + 1 \in 0 .. OutputSize /\ stdout[f] + 1 \in 0 .. PipeSize
  <2>1. /\ written[f] \in 0 .. OutputSize /\ stdout[f] \in 0 .. PipeSize
        /\ buffer[f] \in 0 .. OutputSize
        /\ written[f] < OutputSize /\ stdout[f] < PipeSize
    BY DEF Inv, TypeOK, Write
  <2> QED
    BY <2>1
<1>1. TypeOK'
  <2>1. written' \in [Files -> 0 .. OutputSize]
    BY <1>0 DEF Inv, TypeOK, Write
  <2>2. stdout' \in [Files -> 0 .. PipeSize]
    BY <1>0 DEF Inv, TypeOK, Write
  <2> QED
    BY <2>1, <2>2 DEF Inv, TypeOK, Write, mainVars, taskVars
<1>2. \A g \in Files : Flow(g)'
  <2> TAKE g \in Files
  <2>1. /\ written'[g] = IF g = f THEN written[g] + 1 ELSE written[g]
        /\ stdout'[g] = IF g = f THEN stdout[g] + 1 ELSE stdout[g]
        /\ process[f] = "writing" /\ UNCHANGED <<process, task, buffer, spawned>>
    BY DEF Inv, TypeOK, Write, mainVars, taskVars
  <2>2. Flow(g) /\ Flow(f)
    BY DEF Inv
  <2>3. CASE g = f
    BY <1>0, <2>1, <2>2, <2>3 DEF Flow, Inv, TypeOK
  <2>4. CASE g # f
    BY <2>1, <2>2, <2>4 DEF Flow
  <2> QED
    BY <2>3, <2>4
<1>3. ASSUME Complete PROVE (\A g \in Files : Whole(g)')
  BY <1>3 DEF Inv, TypeOK, Flow, Complete, Whole, Made, Files, Write, mainVars, taskVars, processVars, pipes
<1>4. ASSUME Complete PROVE Ended'
  BY <1>4 DEF Inv, TypeOK, Complete, Ended, Files, Write, mainVars, taskVars, processVars, pipes
<1> QED
  BY <1>1, <1>2, <1>3, <1>4 DEF Inv, Complete

LEMMA ExitKeeps ==
  ASSUME Inv, NEW f \in Files, Exit(f)
  PROVE  Inv' /\ (Complete => Complete')
<1> USE SizesAssumption
<1>1. TypeOK'
  BY DEF Inv, TypeOK, Flow, Files, Exit, mainVars, taskVars, processVars, pipes
<1>2. \A g \in Files : Flow(g)'
  BY DEF Inv, TypeOK, Flow, Files, Exit, mainVars, taskVars, processVars, pipes
<1>3. ASSUME Complete PROVE (\A g \in Files : Whole(g)')
  BY <1>3 DEF Inv, TypeOK, Flow, Complete, Whole, Made, Files, Exit, mainVars, taskVars, processVars, pipes
<1>4. ASSUME Complete PROVE Ended'
  BY <1>4 DEF Inv, TypeOK, Complete, Ended, Files, Exit, mainVars, taskVars, processVars, pipes
<1> QED
  BY <1>1, <1>2, <1>3, <1>4 DEF Inv, Complete

LEMMA AbortKeeps ==
  ASSUME Inv, NEW f \in Files, Abort(f)
  PROVE  Inv' /\ (Complete => Complete')
<1> USE SizesAssumption
<1>1. TypeOK'
  BY DEF Inv, TypeOK, Flow, Files, Abort, mainVars, taskVars, processVars, pipes
<1>2. \A g \in Files : Flow(g)'
  BY DEF Inv, TypeOK, Flow, Files, Abort, mainVars, taskVars, processVars, pipes
<1>3. ASSUME Complete PROVE (\A g \in Files : Whole(g)')
  BY <1>3 DEF Inv, TypeOK, Flow, Complete, Whole, Made, Files, Abort, mainVars, taskVars, processVars, pipes
<1>4. ASSUME Complete PROVE Ended'
  BY <1>4 DEF Inv, TypeOK, Complete, Ended, Files, Abort, mainVars, taskVars, processVars, pipes
<1> QED
  BY <1>1, <1>2, <1>3, <1>4 DEF Inv, Complete

LEMMA SpawnTaskKeeps ==
  ASSUME Inv, SpawnTask
  PROVE  Inv' /\ (Complete => Complete')
<1> USE SizesAssumption
<1>0. spawned \in Nat /\ spawned + 1 \in Files /\ awaited \in 0 .. spawned
  BY DEF Inv, TypeOK, Files, SpawnTask
<1>1. TypeOK'
  <2>1. task' \in [Files -> {"none", "start", "send", "wait", "collect", "store", "ok", "error"}]
    BY <1>0 DEF Inv, TypeOK, SpawnTask
  <2>2. spawned' \in 0 .. FileCount /\ awaited' \in 0 .. spawned'
    BY <1>0 DEF SpawnTask
  <2> QED
    BY <2>1, <2>2 DEF Inv, TypeOK, SpawnTask, processVars, pipes
<1>2. \A g \in Files : Flow(g)'
  <2> TAKE g \in Files
  <2>1. /\ g \in Nat /\ spawned' = spawned + 1
        /\ task'[g] = IF g = spawned + 1 THEN "start" ELSE task[g]
        /\ UNCHANGED <<process, buffer, stdout, written>>
    BY <1>0 DEF Inv, TypeOK, Files, SpawnTask, processVars, pipes
  <2>2. Flow(g)
    BY DEF Inv
  <2>3. CASE g = spawned + 1
    <3>1. task[g] = "none" /\ ~(g > spawned')
      BY <1>0, <2>1, <2>2, <2>3 DEF Flow
    <3> QED
      BY <2>1, <2>2, <2>3, <3>1 DEF Flow
  <2>4. CASE g # spawned + 1
    <3>1. g > spawned' => g > spawned
      BY <1>0, <2>1
    <3> QED
      BY <2>1, <2>2, <2>4, <3>1 DEF Flow
  <2> QED
    BY <2>3, <2>4
<1>3. ASSUME Complete PROVE (\A g \in Files : Whole(g)')
  BY <1>3 DEF Inv, TypeOK, Flow, Complete, Whole, Made, Files, SpawnTask, Waiting, taskVars, processVars, pipes
<1>4. ASSUME Complete PROVE Ended'
  <2>1. /\ result = "none" /\ result' = "none" /\ awaited' = awaited
        /\ awaited \in 0 .. spawned /\ spawned \in 0 .. FileCount
    BY <1>0 DEF Inv, TypeOK, SpawnTask
  <2>2. ASSUME NEW g \in Files, g <= awaited PROVE task'[g] = "ok"
    <3>1. g # spawned + 1
      BY <2>1, <2>2 DEF Files
    <3>2. task[g] = "ok"
      BY <1>4, <2>2 DEF Complete, Ended
    <3> QED
      BY <3>1, <3>2 DEF Inv, TypeOK, SpawnTask
  <2> QED
    BY <2>1, <2>2 DEF Ended
<1> QED
  BY <1>1, <1>2, <1>3, <1>4 DEF Inv, Complete

LEMMA FailToListKeeps ==
  ASSUME Inv, FailToList
  PROVE  Inv' /\ (Complete => Complete')
<1> USE SizesAssumption
<1>1. TypeOK'
  BY DEF Inv, TypeOK, Flow, Files, FailToList, Waiting, taskVars, processVars, pipes
<1>2. \A g \in Files : Flow(g)'
  BY DEF Inv, TypeOK, Flow, Files, FailToList, Waiting, taskVars, processVars, pipes
<1>3. ASSUME Complete PROVE (\A g \in Files : Whole(g)')
  BY <1>3 DEF Inv, TypeOK, Flow, Complete, Whole, Made, Files, FailToList, Waiting, taskVars, processVars, pipes
<1>4. ASSUME Complete PROVE Ended'
  BY <1>4 DEF Inv, TypeOK, Complete, Ended, Files, FailToList, Waiting, taskVars, processVars, pipes
<1> QED
  BY <1>1, <1>2, <1>3, <1>4 DEF Inv, Complete

LEMMA AwaitKeeps ==
  ASSUME Inv, Await
  PROVE  Inv' /\ (Complete => Complete')
<1> USE SizesAssumption
<1>0. /\ spawned = FileCount /\ awaited \in Nat /\ awaited + 1 \in Files
      /\ awaited' \in 0 .. FileCount /\ result' \in {"none", "error"}
      /\ awaited' = awaited + 1 => task[awaited + 1] = "ok"
      /\ awaited' \in {awaited, awaited + 1}
  <2>1. spawned = FileCount /\ awaited \in 0 .. spawned /\ awaited < FileCount /\ result = "none"
    BY DEF Inv, TypeOK, Await, Waiting
  <2>2. CASE task[awaited + 1] = "ok" /\ awaited' = awaited + 1 /\ UNCHANGED result
    BY <2>1, <2>2 DEF Files
  <2>3. CASE result' = "error" /\ UNCHANGED awaited
    BY <2>1, <2>3 DEF Files
  <2> QED
    BY <2>2, <2>3 DEF Await
<1>1. TypeOK'
  BY <1>0 DEF Inv, TypeOK, Await, taskVars, processVars, pipes
<1>2. \A g \in Files : Flow(g)'
  BY DEF Inv, TypeOK, Flow, Files, Await, Waiting, taskVars, processVars, pipes
<1>3. ASSUME Complete PROVE (\A g \in Files : Whole(g)')
  BY <1>3 DEF Inv, TypeOK, Flow, Complete, Whole, Made, Files, Await, Waiting, taskVars, processVars, pipes
<1>4. ASSUME Complete PROVE Ended'
  <2>1. UNCHANGED task /\ \A g \in Files : g \in Nat
    BY DEF Await, taskVars, Files
  <2>2. ASSUME NEW g \in Files, g <= awaited' PROVE task[g] = "ok"
    <3>1. CASE g <= awaited
      BY <1>4, <3>1 DEF Complete, Ended
    <3>2. CASE g = awaited + 1
      BY <1>0, <2>1, <2>2, <3>2
    <3> QED
      BY <1>0, <2>1, <2>2, <3>1, <3>2
  <2> QED
    BY <1>0, <2>1, <2>2 DEF Ended
<1> QED
  BY <1>1, <1>2, <1>3, <1>4 DEF Inv, Complete

LEMMA ReturnKeeps ==
  ASSUME Inv, Return
  PROVE  Inv' /\ (Complete => Complete')
<1> USE SizesAssumption
<1>1. TypeOK'
  BY DEF Inv, TypeOK, Flow, Files, Return, Waiting, taskVars, processVars, pipes
<1>2. \A g \in Files : Flow(g)'
  BY DEF Inv, TypeOK, Flow, Files, Return, Waiting, taskVars, processVars, pipes
<1>3. ASSUME Complete PROVE (\A g \in Files : Whole(g)')
  BY <1>3 DEF Inv, TypeOK, Flow, Complete, Whole, Made, Files, Return, Waiting, taskVars, processVars, pipes
<1>4. ASSUME Complete PROVE Ended'
  BY <1>4 DEF Inv, TypeOK, Complete, Ended, Files, Return, Waiting, taskVars, processVars, pipes
<1> QED
  BY <1>1, <1>2, <1>3, <1>4 DEF Inv, Complete

-----------------------------------------------------------------------------
LEMMA StepKeeps ==
  ASSUME Inv, [Next]_vars
  PROVE  Inv' /\ (Complete => Complete')
<1>1. CASE UNCHANGED vars
  BY <1>1 DEF vars, mainVars, taskVars, processVars, pipes, Inv, TypeOK, Flow, Complete,
    Whole, Made, Ended
<1>2. CASE BuildStep
  BY <1>2, SpawnTaskKeeps, FailToListKeeps, AwaitKeeps, ReturnKeeps DEF BuildStep
<1>3. ASSUME NEW f \in Files, TaskStep(f)
      PROVE  Inv' /\ (Complete => Complete')
  BY <1>3, SpawnKeeps, CompileHereKeeps, SendKeeps, StartWaitingKeeps, StopWaitingKeeps,
    CollectKeeps, StopCollectingKeeps, StoreKeeps, SendNowhereKeeps DEF TaskStep
<1>4. ASSUME NEW f \in Files, ProcessStep(f)
      PROVE  Inv' /\ (Complete => Complete')
  BY <1>4, ReadKeeps, EndOfInputKeeps, WriteKeeps, ExitKeeps DEF ProcessStep
<1>5. ASSUME NEW f \in Files, Failure(f)
      PROVE  Inv' /\ (Complete => Complete')
  BY <1>5, FailKeeps, FailToStoreKeeps, AbortKeeps DEF Failure
<1> QED
  BY <1>1, <1>2, <1>3, <1>4, <1>5 DEF Next

(* Type correctness: no pipe holds more than it has room for and no task      *)
(* collects more than its process writes, whatever fails.                   *)
THEOREM TypeCorrect == Spec => []TypeOK
<1>1. Init => Inv
  BY InitHolds
<1>2. Inv /\ [Next]_vars => Inv'
  BY StepKeeps
<1>3. Inv => TypeOK
  BY DEF Inv
<1> QED
  BY <1>1, <1>2, <1>3, PTL DEF Spec

(* A build that succeeds has a file for each source, with all that its        *)
(* compiler has made, whatever fails and however the tasks, the processes and  *)
(* the pipes interleave: only a compiler that fails itself leaves less than    *)
(* the whole (build and compile of build/src/lib.rs).                        *)
THEOREM SuccessIsComplete == Spec => []FilesComplete
<1>1. Init => Inv /\ Complete
  BY InitHolds
<1>2. (Inv /\ Complete) /\ [Next]_vars => (Inv /\ Complete)'
  BY StepKeeps
<1>3. Inv /\ Complete => FilesComplete
  BY SizesAssumption DEF Complete, Whole, Ended, FilesComplete, Files, Inv, TypeOK
<1> QED
  BY <1>1, <1>2, <1>3, PTL DEF Spec
=============================================================================
