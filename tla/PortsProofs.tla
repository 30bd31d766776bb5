----------------------------- MODULE PortsProofs ------------------------------
(*****************************************************************************)
(* Open ports and open files belong together for any number of ports, paths  *)
(* and entries: PortsOwnFiles is an invariant of Ports, on each file system. *)
(* On memory.rs it needs StaleUnused, that programs leave closed ports alone.*)
(* From it, the ports of Ports implement the cursors of Cursors:             *)
(* CursorPromise, with `cursors` for the refinement mapping and Owned for    *)
(* its invariant. And the standard ports of Devices deliver their input once *)
(* and in order, and keep what is written, however the input is cut into chunks.*)
(*****************************************************************************)
EXTENDS Ports, Devices, LoopTheorems, FiniteSetTheorems, SequenceTheorems, TLAPS

StaleUnused == "memory" \notin StaleUse

Entries == [inode : Inodes \cup {NoInode}, offset : Nat, output : BOOLEAN]

PortRecords ==
  [status : {"none", "open", "closed"}, descriptor : Descriptors, last : Answers \cup {Eof},
   inode : Inodes \cup {NoInode}, output : BOOLEAN]

Typed ==
  /\ system \in Systems
  /\ directory \in [Paths -> Inodes \cup {NoInode}]
  /\ table \in [Descriptors -> Entries]
  /\ descriptor \in Descriptors
  /\ ports \in [Slots -> PortRecords]

(* A counter gives no descriptor out again, whether its port was closed or    *)
(* not; memory.rs gives out its entries; and void.rs gives nothing.          *)
Counts == system \in {"libc", "os"}

Counted ==
  Counts =>
    /\ \A d \in Descriptors : InUse(d) => d < descriptor
    /\ \A p \in Slots : Port(p).status # "none" => Port(p).descriptor < descriptor
    /\ \A p, q \in Slots :
         Port(p).status = "closed" /\ IsOpen(q) => Port(p).descriptor # Port(q).descriptor

Within == system = "memory" => \A p \in Slots : IsOpen(p) => Port(p).descriptor < Capacity
Void == system = "void" => \A p \in Slots : Port(p).status = "none"

Owned == Typed /\ Counted /\ Within /\ Void /\ PortsOwnFiles

-----------------------------------------------------------------------------
(* What the primitives do to the table.                                    *)

(* The table keeps its open files: only offsets change.                     *)
Moved ==
  /\ UNCHANGED <<system, descriptor>>
  /\ directory' \in [Paths -> Inodes \cup {NoInode}]
  /\ table' \in [Descriptors -> Entries]
  /\ \A d \in Descriptors : /\ table'[d].inode = table[d].inode
                            /\ table'[d].output = table[d].output

LEMMA UnchangedMoves ==
  ASSUME Typed, UNCHANGED fileVars
  PROVE  Moved
BY DEF Typed, Moved, fileVars, disk

LEMMA OffsetMoves ==
  ASSUME Typed, NEW d \in Descriptors, UNCHANGED <<system, directory, descriptor>>,
         table' = [table EXCEPT ![d].offset = @ + 1]
  PROVE  Moved
BY DEF Typed, Moved, Entries

LEMMA ReadMoves ==
  ASSUME Typed, NEW d \in Descriptors, NEW r, ReadFile(d, r)
  PROVE  Moved /\ r \in Answers
<1>1. PICK a \in Answers : r = Pushed(a) /\ Read(d, a)
  BY DEF ReadFile
<1>2. r \in Answers
  BY <1>1 DEF Pushed, Answers
<1>3. CASE UNCHANGED fileVars
  BY <1>2, <1>3, UnchangedMoves
<1>4. CASE Consume(d, a) /\ ~UNCHANGED fileVars
  <2>1. UNCHANGED <<system, directory, descriptor>> /\ table' = [table EXCEPT ![d].offset = @ + 1]
    BY <1>4 DEF Consume, Returns, disk
  <2>. QED BY <1>2, <2>1, OffsetMoves
<1>. QED
  BY <1>1, <1>3, <1>4 DEF Read, VoidFails, ReadMemory, ReadLibc, ReadOs, Returns

LEMMA WriteMoves ==
  ASSUME Typed, NEW d \in Descriptors, NEW n, NEW r, WriteFile(d, n, r)
  PROVE  Moved
<1>1. PICK a \in Answers : r = Pushed(a) /\ Write(d, n % ByteBase, a)
  BY DEF WriteFile
<1>3. CASE UNCHANGED fileVars
  BY <1>3, UnchangedMoves
<1>4. CASE Store(d, n % ByteBase, a) /\ ~UNCHANGED fileVars
  <2>1. UNCHANGED <<system, directory, descriptor>> /\ table' = [table EXCEPT ![d].offset = @ + 1]
    BY <1>4 DEF Store, Returns
  <2>. QED BY <2>1, OffsetMoves
<1>. QED
  BY <1>1, <1>3, <1>4 DEF Write, VoidFails, WriteMemory, WriteLibc, WriteOs, Returns

(* A close empties the entry, or finds no such entry.                        *)
LEMMA CloseEmpties ==
  ASSUME Typed, NEW d \in Descriptors, NEW r, CloseFile(d, r)
  PROVE  /\ UNCHANGED <<system, directory, descriptor>>
         /\ table' = [table EXCEPT ![d] = Closed] \/ UNCHANGED table
         /\ system # "void" /\ (system = "memory" => d < Capacity) =>
              table' = [table EXCEPT ![d] = Closed]
<1>1. PICK a \in Answers : r = Pushed(a) /\ Close(d, a)
  BY DEF CloseFile
<1>. QED
  BY <1>1 DEF Close, VoidFails, CloseMemory, CloseLibc, CloseOs, Dropped, Returns, fileVars, disk

(* An open fails, or fills an entry that was not in use.                      *)
Fills(d, output) ==
  /\ d \in Descriptors /\ ~InUse(d) /\ system # "void"
  /\ system' = system
  /\ \E i \in Inodes : table' = [table EXCEPT ![d] = Opened(i, output)]
  /\ Counts => d = descriptor /\ descriptor' = descriptor + 1
  /\ system = "memory" => d < Capacity /\ descriptor' = descriptor

LEMMA OpenFills ==
  ASSUME Typed, Counted, descriptor < MaxOpens,
         NEW path \in Paths, NEW output \in BOOLEAN, NEW r, OpenFile(path, output, r)
  PROVE  /\ directory' \in [Paths -> Inodes \cup {NoInode}]
         /\ \/ r = False /\ UNCHANGED <<system, table, descriptor>>
            \/ r # False /\ Fills(r, output)
<1>. USE DEF Typed
<1>1. CASE ~Decodes(path)
  BY <1>1 DEF OpenFile, Returns, fileVars, disk
<1>2. ASSUME NEW a \in Answers, r = Pushed(a), Open(path, output, a), Decodes(path)
      PROVE  /\ directory' \in [Paths -> Inodes \cup {NoInode}]
             /\ \/ r = False /\ UNCHANGED <<system, table, descriptor>>
                \/ r # False /\ Fills(r, output)
  <2>1. CASE a = Error /\ UNCHANGED fileVars
    BY <1>2, <2>1 DEF Pushed, fileVars, disk
  <2>2. CASE OpenMemory(path, output, a) /\ a # Error
    <3>1. PICK d \in Descriptors :
            /\ FirstFree(d)
            /\ table' = [table EXCEPT ![d] = Opened(directory[path], FALSE)]
            /\ a = d /\ UNCHANGED <<system, disk, descriptor>>
      BY <2>2 DEF OpenMemory, Returns
    <3>2. directory[path] \in Inodes /\ ~output
      BY <2>2 DEF OpenMemory, Returns, Exists
    <3>3. r = d /\ r # False
      BY <1>2, <3>1, FilesAssumption DEF Pushed, Descriptors, Error, False
    <3>4. system = "memory"
      BY <2>2 DEF OpenMemory
    <3>5. table' = [table EXCEPT ![d] = Opened(directory[path], output)] /\ d < Capacity
      <4>1. output = FALSE
        BY <3>2
      <4>2. table' = [table EXCEPT ![d] = Opened(directory[path], output)]
        BY <3>1, <4>1
      <4>3. d < Capacity
        BY <3>1, FilesAssumption DEF FirstFree
      <4>. QED BY <4>2, <4>3
    <3>6. Fills(d, output)
      BY <3>1, <3>2, <3>4, <3>5 DEF Fills, FirstFree, Counts
    <3>. QED
      BY <3>1, <3>3, <3>6 DEF disk
  <2>3. ASSUME NEW i \in Inodes, OpenInKernel(path, output, i), Insert(i, output, a), Counts,
               UNCHANGED system
        PROVE  /\ directory' \in [Paths -> Inodes \cup {NoInode}] /\ r # False
               /\ Fills(r, output)
    <3>1. r = descriptor /\ r # False
      BY <1>2, <2>3, FilesAssumption DEF Insert, Pushed, Descriptors, Error, False
    <3>2. ~InUse(descriptor)
      BY <2>3, FilesAssumption DEF Counted, Descriptors
    <3>. QED
      BY <2>3, <3>1, <3>2 DEF Fills, Insert, Counts, OpenInKernel
  <2>4. ASSUME NEW i \in Inodes, OpenInKernel(path, output, i), a = Error,
               UNCHANGED <<system, table, descriptor>>
        PROVE  /\ directory' \in [Paths -> Inodes \cup {NoInode}]
               /\ r = False /\ UNCHANGED <<system, table, descriptor>>
    BY <1>2, <2>4 DEF OpenInKernel, Pushed
  <2>5. CASE VoidFails(a) \/ KernelRefuses(a)
    BY <2>1, <2>5 DEF VoidFails, KernelRefuses, Returns
  <2>6. CASE OpenMemory(path, output, a)
    <3>1. a = Error => UNCHANGED fileVars
      <4>1. \A d \in Descriptors : d # Error
        BY FilesAssumption DEF Descriptors, Error
      <4>. QED BY <2>6, <4>1 DEF OpenMemory, Returns
    <3>. QED BY <2>1, <2>2, <2>6, <3>1
  <2>7. CASE OpenLibc(path, output, a)
    <3>1. CASE Returns(Error, a)
      BY <2>1, <3>1 DEF Returns
    <3>2. CASE ~Returns(Error, a)
      <4>1. PICK i \in Inodes :
              /\ OpenInKernel(path, output, i)
              /\ IF Full THEN a = Error /\ UNCHANGED <<table, descriptor>>
                 ELSE Insert(i, output, a)
              /\ UNCHANGED system
        BY <2>7, <3>2 DEF OpenLibc
      <4>. QED BY <2>3, <2>4, <2>7, <4>1 DEF OpenLibc, Counts
    <3>. QED BY <3>1, <3>2
  <2>8. CASE OpenOs(path, output, a)
    <3>1. CASE Returns(Error, a)
      BY <2>1, <3>1 DEF Returns
    <3>2. CASE ~Returns(Error, a)
      BY <2>3, <2>8, <3>2 DEF OpenOs, Counts
    <3>. QED BY <3>1, <3>2
  <2>. QED
    BY <1>2, <2>5, <2>6, <2>7, <2>8 DEF Open
<1>. QED
  BY <1>1, <1>2 DEF OpenFile

LEMMA DeleteMoves ==
  ASSUME Typed, NEW path \in Paths, NEW r, DeleteFile(path, r)
  PROVE  Moved
<1>1. CASE UNCHANGED fileVars
  BY <1>1, UnchangedMoves
<1>2. CASE /\ directory' = [directory EXCEPT ![path] = NoInode]
           /\ UNCHANGED <<system, table, descriptor>>
  BY <1>2 DEF Typed, Moved
<1>. QED
  BY <1>1, <1>2 DEF DeleteFile, Delete, VoidFails, DeleteMemory, DeleteLibc, DeleteOs, Unlink, Returns

LEMMA ExistsMoves ==
  ASSUME Typed, NEW path \in Paths, NEW r, ExistsFile(path, r)
  PROVE  Moved
<1>1. UNCHANGED fileVars
  BY DEF ExistsFile, ExistsIn, VoidFails, ExistsMemory, ExistsLibc, ExistsOs, Returns
<1>. QED BY <1>1, UnchangedMoves

-----------------------------------------------------------------------------
(* What the operations on ports keep.                                      *)

(* A port may forget or remember a byte; it stays with its file.             *)
Ahead ==
  /\ ports' \in [Slots -> PortRecords]
  /\ \A p \in Slots : /\ ports'[p].status = ports[p].status
                      /\ ports'[p].descriptor = ports[p].descriptor
                      /\ ports'[p].inode = ports[p].inode
                      /\ ports'[p].output = ports[p].output

LEMMA UnchangedAhead ==
  ASSUME Typed, UNCHANGED ports
  PROVE  Ahead
BY DEF Typed, Ahead

LEMMA LastAhead ==
  ASSUME Typed, NEW p \in Slots, NEW a \in Answers \cup {Eof},
         ports' = [ports EXCEPT ![p].last = a]
  PROVE  Ahead
BY DEF Typed, Ahead, PortRecords

LEMMA MovesKeep ==
  ASSUME Owned, Moved, Ahead
  PROVE  Owned'
<1>. USE DEF Owned
<1>1. Typed'
  BY DEF Typed, Moved, Ahead
<1>2. Counted'
  BY DEF Counted, Counts, Moved, Ahead, InUse, IsOpen, Port
<1>3. Within'
  BY DEF Within, Moved, Ahead, IsOpen, Port
<1>4. Void'
  BY DEF Void, Moved, Ahead, Port
<1>5. \A d \in Descriptors : table'[d].inode = table[d].inode /\ table'[d].output = table[d].output
  BY DEF Moved
<1>6. \A p \in Slots : Port(p).descriptor \in Descriptors
  BY DEF Typed, Port, PortRecords
<1>7. PortsOwnFiles'
  BY <1>5, <1>6 DEF PortsOwnFiles, Ahead, InUse, IsOpen, Port
<1>. QED
  BY <1>1, <1>2, <1>3, <1>4, <1>7

LEMMA OpenKeeps ==
  ASSUME Owned, NEW p \in Slots, NEW path \in Paths, NEW output \in BOOLEAN,
         OpenPort(p, path, output)
  PROVE  Owned'
<1>. USE DEF Owned
<1>1. PICK r \in Answers :
        /\ OpenFile(path, output, r)
        /\ IF r = False THEN UNCHANGED ports
           ELSE ports' = [ports EXCEPT ![p] =
                  [status |-> "open", descriptor |-> r, last |-> False,
                   inode |-> table'[r].inode, output |-> output]]
  BY DEF OpenPort
<1>2. directory' \in [Paths -> Inodes \cup {NoInode}]
  BY <1>1, OpenFills DEF OpenPort
<1>3. CASE r = False /\ UNCHANGED <<system, table, descriptor>>
  <2>1. Moved
    BY <1>2, <1>3 DEF Moved, Typed
  <2>2. Ahead
    BY <1>1, <1>3, UnchangedAhead
  <2>. QED BY <2>1, <2>2, MovesKeep
<1>4. CASE r # False /\ Fills(r, output)
  <2>. DEFINE port(i) == [status |-> "open", descriptor |-> r, last |-> False,
                          inode |-> i, output |-> output]
  <2>1. PICK i \in Inodes : table' = [table EXCEPT ![r] = Opened(i, output)]
    BY <1>4 DEF Fills
  <2>2. r \in Descriptors /\ ~InUse(r) /\ system # "void" /\ system' = system
    BY <1>4 DEF Fills
  <2>3. table'[r] = Opened(i, output) /\ \A d \in Descriptors : d # r => table'[d] = table[d]
    BY <2>1, <2>2 DEF Typed
  <2>4. table' \in [Descriptors -> Entries]
    BY <2>1, <2>2 DEF Typed, Entries, Opened
  <2>5. i # NoInode /\ table'[r].inode = i /\ table'[r].output = output
    BY <2>3, FilesAssumption DEF Opened, NoInode
  <2>6. ports' = [ports EXCEPT ![p] = port(i)]
    BY <1>1, <1>4, <2>5
  <2>7. port(i) \in PortRecords
    BY <2>2 DEF PortRecords, Answers
  <2>8. ports'[p] = port(i) /\ \A q \in Slots : q # p => ports'[q] = ports[q]
    BY <2>6 DEF Typed
  <2>9. descriptor \in 0 .. MaxOpens /\ descriptor < MaxOpens
    BY DEF Typed, OpenPort, Descriptors
  <2>10. Typed'
    <3>1. ports' \in [Slots -> PortRecords]
      BY <2>6, <2>7 DEF Typed
    <3>2. descriptor' = descriptor \/ descriptor' = descriptor + 1
      BY <1>1, <1>4, <2>2 DEF Fills, Counts, OpenFile, Open, VoidFails, KernelRefuses, OpenMemory, OpenLibc, OpenOs, Returns
    <3>3. descriptor' \in Descriptors
      BY <2>9, <3>2, FilesAssumption DEF Descriptors
    <3>. QED BY <1>2, <2>2, <2>4, <3>1, <3>3 DEF Typed
  <2>11. Counted'
    <3>. SUFFICES ASSUME Counts'
                  PROVE  /\ (\A d \in Descriptors : InUse(d) => d < descriptor)'
                         /\ (\A q \in Slots : Port(q).status # "none" => Port(q).descriptor < descriptor)'
                         /\ (\A q, s \in Slots :
                               Port(q).status = "closed" /\ IsOpen(s) =>
                                 Port(q).descriptor # Port(s).descriptor)'
      BY DEF Counted
    <3>1. Counts /\ r = descriptor /\ descriptor' = descriptor + 1
      BY <1>4, <2>2 DEF Fills, Counts
    <3>2. (\A d \in Descriptors : InUse(d) => d < descriptor)'
      BY <2>3, <2>9, <3>1, FilesAssumption DEF Counted, InUse, Descriptors
    <3>3. (\A q \in Slots : Port(q).status # "none" => Port(q).descriptor < descriptor)'
      <4>1. \A q \in Slots : Port(q).descriptor \in 0 .. MaxOpens
        BY DEF Typed, Port, PortRecords, Descriptors
      <4>. QED BY <2>8, <2>9, <3>1, <4>1, FilesAssumption DEF Counted, Port
    <3>4. (\A q, s \in Slots :
             Port(q).status = "closed" /\ IsOpen(s) => Port(q).descriptor # Port(s).descriptor)'
      <4>1. \A q \in Slots : Port(q).status = "closed" => Port(q).descriptor # r
        <5>1. \A q \in Slots : Port(q).descriptor \in 0 .. MaxOpens
          BY DEF Typed, Port, PortRecords, Descriptors
        <5>. QED BY <2>9, <3>1, <5>1, FilesAssumption DEF Counted
      <4>. QED BY <2>8, <3>1, <4>1 DEF Counted, Port, IsOpen
    <3>. QED BY <3>2, <3>3, <3>4
  <2>12. Within'
    BY <1>4, <2>2, <2>8 DEF Within, Fills, IsOpen, Port
  <2>13. Void'
    BY <2>2 DEF Void
  <2>14. PortsOwnFiles'
    <3>1. \A q \in Slots : IsOpen(q) => Port(q).descriptor \in Descriptors /\ Port(q).descriptor # r
      BY <2>2 DEF PortsOwnFiles, InUse, Typed, PortRecords, Port, IsOpen
    <3>2. ~IsOpen(p)
      BY DEF OpenPort, IsOpen
    <3>3. (\A q \in Slots : IsOpen(q) => /\ table[Port(q).descriptor].inode = Port(q).inode
                                         /\ table[Port(q).descriptor].output = Port(q).output
                                         /\ Port(q).inode # NoInode)'
      BY <2>3, <2>5, <2>8, <3>1 DEF PortsOwnFiles, IsOpen, Port
    <3>4. (\A q, s \in Slots :
             IsOpen(q) /\ IsOpen(s) /\ Port(q).descriptor = Port(s).descriptor => q = s)'
      BY <2>8, <3>1 DEF PortsOwnFiles, IsOpen, Port
    <3>5. (\A d \in Descriptors : InUse(d) => \E q \in Slots : IsOpen(q) /\ Port(q).descriptor = d)'
      <4>1. SUFFICES ASSUME NEW d \in Descriptors, InUse(d)'
                     PROVE  \E q \in Slots : ports'[q].status = "open" /\ ports'[q].descriptor = d
        BY DEF IsOpen, Port
      <4>2. CASE d = r
        BY <2>8, <4>2
      <4>3. CASE d # r
        <5>1. PICK q \in Slots : IsOpen(q) /\ Port(q).descriptor = d
          BY <2>3, <4>1, <4>3 DEF PortsOwnFiles, InUse
        <5>. QED BY <2>8, <3>2, <5>1 DEF IsOpen, Port
      <4>. QED BY <4>2, <4>3
    <3>. QED BY <3>3, <3>4, <3>5 DEF PortsOwnFiles
  <2>. QED BY <2>10, <2>11, <2>12, <2>13, <2>14
<1>. QED
  BY <1>1, <1>3, <1>4, OpenFills DEF OpenPort

(* Closing frees the entry of the port; when a port is closed again, its     *)
(* entry is no other port's.                                               *)
LEMMA CloseKeeps ==
  ASSUME Owned, StaleUnused, NEW p \in Slots, ClosePort(p)
  PROVE  Owned'
<1>. USE DEF Owned
<1>. DEFINE c == Port(p).descriptor
<1>1. c \in Descriptors
  BY DEF Typed, Port, PortRecords
<1>2. PICK r \in Answers : CloseFile(c, r)
  BY DEF ClosePort
<1>3. UNCHANGED <<system, directory, descriptor>>
  BY <1>1, <1>2, CloseEmpties
<1>4. system # "void" /\ (system = "memory" => IsOpen(p))
  BY DEF ClosePort, Usable, StaleUnused, Void, IsOpen, Port
<1>5. table' = [table EXCEPT ![c] = Closed]
  BY <1>1, <1>2, <1>4, CloseEmpties DEF Within
<1>6. table'[c] = Closed /\ \A d \in Descriptors : d # c => table'[d] = table[d]
  BY <1>1, <1>5 DEF Typed
<1>7. ports' = [ports EXCEPT ![p].status = "closed", ![p].inode = NoInode, ![p].output = FALSE]
  BY DEF ClosePort
<1>8. /\ ports'[p].status = "closed" /\ ports'[p].descriptor = c
      /\ \A q \in Slots : q # p => ports'[q] = ports[q]
  BY <1>7 DEF Typed, PortRecords, Port
<1>9. Typed'
  <2>1. table' \in [Descriptors -> Entries]
    BY <1>1, <1>5 DEF Typed, Entries, Closed
  <2>2. ports' \in [Slots -> PortRecords]
    <3>1. ports[p] \in PortRecords
      BY DEF Typed
    <3>2. ports' = [ports EXCEPT ![p] =
                      [@ EXCEPT !.status = "closed", !.inode = NoInode, !.output = FALSE]]
      BY <1>7, <3>1 DEF Typed, PortRecords
    <3>3. [ports[p] EXCEPT !.status = "closed", !.inode = NoInode, !.output = FALSE] \in PortRecords
      BY <3>1 DEF PortRecords
    <3>. QED BY <3>2, <3>3 DEF Typed
  <2>. QED BY <1>3, <2>1, <2>2 DEF Typed
<1>10. \A q \in Slots : IsOpen(q) /\ q # p => Port(q).descriptor # c
  <2>1. SUFFICES ASSUME NEW q \in Slots, IsOpen(q), q # p  PROVE Port(q).descriptor # c
    OBVIOUS
  <2>2. CASE IsOpen(p)
    BY <2>1, <2>2 DEF PortsOwnFiles
  <2>3. CASE Port(p).status = "closed" /\ Counts
    BY <2>1, <2>3 DEF Counted
  <2>4. IsOpen(p) \/ Port(p).status = "closed"
    BY DEF ClosePort, Usable, IsOpen
  <2>5. system \in {"memory", "libc", "os"}
    BY <1>2, <1>4 DEF CloseFile, Close, VoidFails, CloseMemory, CloseLibc, CloseOs
  <2>. QED BY <1>4, <2>2, <2>3, <2>4, <2>5 DEF Counts
<1>11. Counted'
  <2>. SUFFICES ASSUME Counts'
                PROVE  /\ (\A d \in Descriptors : InUse(d) => d < descriptor)'
                       /\ (\A q \in Slots : Port(q).status # "none" => Port(q).descriptor < descriptor)'
                       /\ (\A q, s \in Slots :
                             Port(q).status = "closed" /\ IsOpen(s) =>
                               Port(q).descriptor # Port(s).descriptor)'
    BY DEF Counted
  <2>1. Counts
    BY <1>3 DEF Counts
  <2>2. (\A d \in Descriptors : InUse(d) => d < descriptor)'
    BY <1>3, <1>6, <2>1 DEF Counted, InUse, Closed
  <2>3. Port(p).status # "none"
    BY DEF ClosePort, Usable
  <2>4. (\A q \in Slots : Port(q).status # "none" => Port(q).descriptor < descriptor)'
    BY <1>3, <1>8, <2>1, <2>3 DEF Counted, Port
  <2>5. (\A q, s \in Slots :
           Port(q).status = "closed" /\ IsOpen(s) => Port(q).descriptor # Port(s).descriptor)'
    BY <1>8, <1>10, <2>1 DEF Counted, IsOpen, Port
  <2>. QED BY <2>2, <2>4, <2>5
<1>12. Within' /\ Void'
  BY <1>3, <1>4, <1>8 DEF Within, Void, IsOpen, Port
<1>13. PortsOwnFiles'
  <2>1. \A q \in Slots : Port(q).descriptor \in Descriptors
    BY DEF Typed, Port, PortRecords
  <2>2. \A q \in Slots : IsOpen(q)' => IsOpen(q) /\ q # p /\ ports'[q] = ports[q]
    BY <1>8 DEF IsOpen, Port
  <2>3. (\A q \in Slots : IsOpen(q) => /\ table[Port(q).descriptor].inode = Port(q).inode
                                       /\ table[Port(q).descriptor].output = Port(q).output
                                       /\ Port(q).inode # NoInode)'
    BY <1>6, <1>10, <2>1, <2>2 DEF PortsOwnFiles, Port
  <2>4. (\A q, s \in Slots :
           IsOpen(q) /\ IsOpen(s) /\ Port(q).descriptor = Port(s).descriptor => q = s)'
    BY <2>2 DEF PortsOwnFiles, Port
  <2>5. (\A d \in Descriptors : InUse(d) => \E q \in Slots : IsOpen(q) /\ Port(q).descriptor = d)'
    <3>1. SUFFICES ASSUME NEW d \in Descriptors, InUse(d)'
                   PROVE  \E q \in Slots : ports'[q].status = "open" /\ ports'[q].descriptor = d
      BY DEF IsOpen, Port
    <3>2. d # c /\ InUse(d)
      BY <1>6, <3>1 DEF InUse, Closed
    <3>3. PICK q \in Slots : IsOpen(q) /\ Port(q).descriptor = d
      BY <3>2 DEF PortsOwnFiles
    <3>. QED BY <1>8, <3>2, <3>3 DEF IsOpen, Port
  <2>. QED BY <2>3, <2>4, <2>5 DEF PortsOwnFiles
<1>. QED
  BY <1>9, <1>11, <1>12, <1>13

LEMMA ReadsMove ==
  ASSUME Typed, NEW p \in Slots, NEW r \in Answers \cup {Eof}, ReadsU8(p, r)
  PROVE  Moved
<1>1. CASE UNCHANGED fileVars
  BY <1>1, UnchangedMoves
<1>2. CASE \E a \in Answers : ReadFile(Port(p).descriptor, a)
  BY <1>2, ReadMoves DEF Typed, Port, PortRecords
<1>. QED BY <1>1, <1>2 DEF ReadsU8

-----------------------------------------------------------------------------

LEMMA InitOwned == Init => Owned
<1>1. SUFFICES ASSUME Init  PROVE Owned
  OBVIOUS
<1>2. \A d \in Descriptors : table[d] = Closed /\ ~InUse(d)
  BY <1>1 DEF Init, InUse, Closed
<1>3. \A p \in Slots : Port(p) = NoPort /\ ~IsOpen(p)
  BY <1>1 DEF Init, Port, NoPort, IsOpen
<1>4. Typed
  <2>1. directory \in [Paths -> Inodes \cup {NoInode}]
    BY <1>1, DisksAssumption DEF Init
  <2>2. Closed \in Entries /\ 0 \in Descriptors
    BY FilesAssumption DEF Closed, Entries, Descriptors
  <2>3. NoPort \in PortRecords
    BY <2>2 DEF NoPort, PortRecords, Answers
  <2>. QED BY <1>1, <2>1, <2>2, <2>3 DEF Init, Typed
<1>5. Counted /\ Within /\ Void /\ PortsOwnFiles
  BY <1>2, <1>3 DEF Counted, Within, Void, PortsOwnFiles, NoPort
<1>. QED BY <1>4, <1>5 DEF Owned

LEMMA StepOwned ==
  ASSUME StaleUnused, Owned, [Next]_vars
  PROVE  Owned'
<1>. USE DEF Owned
<1>1. ASSUME NEW p \in Slots, NEW path \in Paths, NEW output \in BOOLEAN, OpenPort(p, path, output)
      PROVE  Owned'
  BY <1>1, OpenKeeps
<1>2. ASSUME NEW p \in Slots, ReadU8(p)
      PROVE  Owned'
  <2>1. Moved
    BY <1>2, ReadsMove DEF ReadU8
  <2>2. Ahead
    BY <1>2, LastAhead DEF ReadU8, Answers
  <2>. QED BY <2>1, <2>2, MovesKeep
<1>3. ASSUME NEW p \in Slots, PeekU8(p)
      PROVE  Owned'
  <2>1. Moved
    BY <1>3, ReadsMove DEF PeekU8
  <2>2. Ahead
    BY <1>3, LastAhead DEF PeekU8
  <2>. QED BY <2>1, <2>2, MovesKeep
<1>4. ASSUME NEW p \in Slots, NEW n \in Numbers, WriteU8(p, n)
      PROVE  Owned'
  <2>1. Moved
    BY <1>4, WriteMoves DEF WriteU8, Typed, Port, PortRecords
  <2>2. Ahead
    BY <1>4, UnchangedAhead DEF WriteU8
  <2>. QED BY <2>1, <2>2, MovesKeep
<1>5. ASSUME NEW p \in Slots, ClosePort(p)
      PROVE  Owned'
  BY <1>5, CloseKeeps
<1>6. ASSUME NEW path \in Paths, DeletePath(path)
      PROVE  Owned'
  <2>1. Moved
    BY <1>6, DeleteMoves DEF DeletePath
  <2>2. Ahead
    BY <1>6, UnchangedAhead DEF DeletePath
  <2>. QED BY <2>1, <2>2, MovesKeep
<1>7. ASSUME NEW path \in Paths, FileExists(path)
      PROVE  Owned'
  <2>1. Moved
    BY <1>7, ExistsMoves DEF FileExists
  <2>2. Ahead
    BY <1>7, UnchangedAhead DEF FileExists
  <2>. QED BY <2>1, <2>2, MovesKeep
<1>8. CASE UNCHANGED vars
  <2>1. Moved
    BY <1>8, UnchangedMoves DEF vars
  <2>2. Ahead
    BY <1>8, UnchangedAhead DEF vars
  <2>. QED BY <2>1, <2>2, MovesKeep
<1>. QED
  BY <1>1, <1>2, <1>3, <1>4, <1>5, <1>6, <1>7, <1>8 DEF Next

(* However a program opens, reads, closes, closes again and deletes, on every *)
(* file system: an open port has the file it was opened for, no two open     *)
(* ports have the same descriptor, and no file stays open without its port.  *)
(* On memory.rs, which gives a closed descriptor out again, the program must  *)
(* not use a port that it has closed (open-file, close-port of prelude.scm). *)
THEOREM OpenPortsOwnOpenFiles ==
  ASSUME StaleUnused
  PROVE  Spec => []PortsOwnFiles
<1>1. Owned => PortsOwnFiles
  BY DEF Owned
<1>. QED
  BY <1>1, InitOwned, StepOwned, PTL DEF Spec

-----------------------------------------------------------------------------
(* The promise of Cursors.                                                 *)

(* Files hold bytes: none of them is an answer of another kind.              *)
Filled == contents \in [Inodes -> Seq(Bytes)]

Sound == Owned /\ Filled

-----------------------------------------------------------------------------
(* Numbers and sizes.                                                      *)

OpenPorts == {p \in Slots : IsOpen(p)}

(* There are as many open ports as open files.                              *)
LEMMA OpenPortsMatch ==
  ASSUME Owned
  PROVE  /\ IsFiniteSet(Used) /\ IsFiniteSet(OpenPorts)
         /\ Cardinality(OpenPorts) = Cardinality(Used)
<1>. DEFINE f == [p \in OpenPorts |-> Port(p).descriptor]
<1>1. IsFiniteSet(Used)
  <2>1. IsFiniteSet(Descriptors)
    BY FilesAssumption, FS_Interval DEF Descriptors
  <2>. QED BY <2>1, FS_Subset DEF Used
<1>2. \A p \in OpenPorts : Port(p).descriptor \in Used
  BY DEF OpenPorts, Owned, Typed, PortRecords, PortsOwnFiles, Used, InUse, Port, IsOpen
<1>3. \A p, q \in OpenPorts : f[p] = f[q] => p = q
  BY DEF OpenPorts, Owned, PortsOwnFiles
<1>4. f \in [OpenPorts -> Used]
  BY <1>2
<1>5. f \in Injection(OpenPorts, Used)
  BY <1>3, <1>4 DEF Injection, IsInjective
<1>6. \A d \in Used : \E p \in OpenPorts : f[p] = d
  BY DEF Used, OpenPorts, Owned, PortsOwnFiles
<1>7. f \in Surjection(OpenPorts, Used)
  BY <1>4, <1>6 DEF Surjection
<1>. HIDE DEF f
<1>. QED BY <1>1, <1>5, <1>7, FS_Injection

(* memory.rs is full when no entry is free: the first free entry is found    *)
(* whenever there is one.                                                  *)
LEMMA FirstFreeFound ==
  ASSUME Owned, system = "memory"
  PROVE  (\E d \in Descriptors : FirstFree(d)) <=> Cardinality(OpenPorts) < Capacity
<1>. DEFINE Table == 0 .. Capacity - 1
            Unused == {d \in Table : ~InUse(d)}
<1>1. IsFiniteSet(Table) /\ Cardinality(Table) = Capacity
  BY FilesAssumption, FS_Interval
<1>2. Used \subseteq Table
  <2>1. ASSUME NEW d \in Used
        PROVE  d \in Table
    <3>1. PICK p \in Slots : IsOpen(p) /\ Port(p).descriptor = d
      BY DEF Used, Owned, PortsOwnFiles
    <3>2. d < Capacity /\ d \in 0 .. MaxOpens
      BY <3>1 DEF Used, Descriptors, Owned, Within
    <3>. QED BY <3>2, FilesAssumption
  <2>. QED BY <2>1
<1>3. Cardinality(OpenPorts) = Cardinality(Used)
  BY OpenPortsMatch
<1>4. Cardinality(Used) <= Capacity /\ (Cardinality(Used) = Capacity => Used = Table)
  BY <1>1, <1>2, FS_Subset
<1>5. IsFiniteSet(Used) /\ Cardinality(Used) \in Nat
  BY OpenPortsMatch, FS_CardinalityType
<1>6. ASSUME NEW d \in Descriptors, FirstFree(d)
      PROVE  Cardinality(OpenPorts) < Capacity
  <2>1. d \in Table /\ d \notin Used
    BY <1>6 DEF FirstFree, Used
  <2>. QED BY <1>3, <1>4, <1>5, <2>1, FilesAssumption
<1>7. ASSUME Cardinality(OpenPorts) < Capacity
      PROVE  \E d \in Descriptors : FirstFree(d)
  <2>1. Used # Table
    BY <1>1, <1>3, <1>5, <1>7, FilesAssumption
  <2>2. Table \subseteq Nat /\ Table \subseteq Descriptors
    BY FilesAssumption DEF Descriptors
  <2>3. Unused # {} /\ Unused \subseteq Nat
    BY <1>2, <2>1, <2>2 DEF Used
  <2>4. PICK d \in Unused : \A e \in Unused : d <= e
    BY <2>3, LeastNumber
  <2>. QED BY <2>2, <2>4 DEF FirstFree
<1>. QED BY <1>6, <1>7

-----------------------------------------------------------------------------
(* What holds of a cursor and of what is alive.                             *)

LEMMA CursorIs ==
  ASSUME NEW p \in Slots
  PROVE  /\ cursors[p].status = Port(p).status /\ cursors[p].inode = Port(p).inode
         /\ cursors[p].output = Port(p).output /\ cursors[p].ahead = Port(p).last
         /\ cursors[p].at = IF IsOpen(p) THEN table[Port(p).descriptor].offset ELSE 0
         /\ C!Open(p) <=> IsOpen(p)
BY DEF cursors, Cursor, C!Open, IsOpen

(* Alive are the inodes that are not free: open cursors are open files.      *)
LEMMA AliveUsed ==
  ASSUME Owned
  PROVE  \A i \in Inodes : C!Alive(i) <=> ~Free(i)
<1>. SUFFICES ASSUME NEW i \in Inodes  PROVE C!Alive(i) <=> ~Free(i)
  OBVIOUS
<1>1. (\E p \in Slots : IsOpen(p) /\ Port(p).inode = i) <=> \E d \in Descriptors : table[d].inode = i
  <2>1. ASSUME NEW p \in Slots, IsOpen(p), Port(p).inode = i
        PROVE  \E d \in Descriptors : table[d].inode = i
    BY <2>1 DEF Owned, Typed, PortRecords, PortsOwnFiles, Port
  <2>2. ASSUME NEW d \in Descriptors, table[d].inode = i
        PROVE  \E p \in Slots : IsOpen(p) /\ Port(p).inode = i
    <3>1. InUse(d)
      BY <2>2, FilesAssumption DEF InUse, NoInode
    <3>. QED BY <2>2, <3>1 DEF Owned, PortsOwnFiles
  <2>. QED BY <2>1, <2>2
<1>2. C!Alive(i) <=> \/ \E path \in Paths : directory[path] = i
                     \/ \E p \in Slots : IsOpen(p) /\ Port(p).inode = i
  BY CursorIs DEF C!Alive
<1>. QED BY <1>1, <1>2 DEF Free

(* What is reclaimed is nobody's concern.                                    *)
LEMMA ReclaimedSame ==
  ASSUME Owned', contents' = Reclaimed(contents, directory', table')
  PROVE  C!SameContents({})
<1>1. (\A i \in Inodes : C!Alive(i) <=> ~Free(i))'
  BY AliveUsed, PTL
<1>. QED BY <1>1 DEF C!SameContents, Reclaimed, Free

(* A closed port has no file, but on memory.rs, where it is not used again.  *)
LEMMA ClosedFileless ==
  ASSUME StaleUnused, Owned, NEW p \in Slots, Usable(p), InUse(Port(p).descriptor),
         system \in {"memory", "libc", "os"}
  PROVE  IsOpen(p)
<1>1. CASE system = "memory"
  BY <1>1 DEF Usable, StaleUnused, IsOpen
<1>2. CASE Counts
  <2>1. PICK q \in Slots : IsOpen(q) /\ Port(q).descriptor = Port(p).descriptor
    BY DEF Owned, Typed, PortRecords, PortsOwnFiles, Port
  <2>2. Port(p).status # "closed"
    BY <1>2, <2>1 DEF Owned, Counted
  <2>. QED BY <2>2 DEF Usable, IsOpen
<1>. QED BY <1>1, <1>2 DEF Counts

(* The cursors when that of one port stands at u and has a read ahead.       *)
Turned(p, u, a) ==
  [q \in Slots |->
     IF q = p THEN [status |-> Port(p).status, inode |-> Port(p).inode, output |-> Port(p).output,
                    at |-> u, ahead |-> a]
     ELSE cursors[q]]

LEMMA TurnedIs ==
  ASSUME NEW p \in Slots, NEW u, NEW a
  PROVE  /\ [cursors EXCEPT ![p].at = u, ![p].ahead = a] = Turned(p, u, a)
         /\ [cursors EXCEPT ![p].at = u] = Turned(p, u, Port(p).last)
<1>. DEFINE moved == [cursors EXCEPT ![p].at = u]
<1>1. moved = Turned(p, u, Port(p).last)
  <2>1. cursors = [q \in Slots |-> cursors[q]]
    BY DEF cursors
  <2>2. cursors[p] = [status |-> Port(p).status, inode |-> Port(p).inode,
                      output |-> Port(p).output, at |-> cursors[p].at, ahead |-> Port(p).last]
    BY DEF cursors, Cursor
  <2>3. [cursors[p] EXCEPT !.at = u]
          = [status |-> Port(p).status, inode |-> Port(p).inode,
             output |-> Port(p).output, at |-> u, ahead |-> Port(p).last]
    BY <2>2
  <2>. QED BY <2>1, <2>3 DEF Turned
<1>2. [moved EXCEPT ![p].ahead = a] = Turned(p, u, a)
  <2>. HIDE DEF moved
  <2>. QED BY <1>1 DEF Turned
<1>. QED BY <1>1, <1>2

(* Reading or writing moves the cursor of an open port and no other.         *)
LEMMA OffsetMovesCursor ==
  ASSUME Owned, NEW p \in Slots, IsOpen(p), NEW a,
         table' = [table EXCEPT ![Port(p).descriptor].offset = @ + 1],
         ports' = [ports EXCEPT ![p].last = a]
  PROVE  cursors' = Turned(p, cursors[p].at + 1, a)
<1>. DEFINE d == Port(p).descriptor
<1>1. table'[d].offset = table[d].offset + 1 /\ \A e \in Descriptors : e # d => table'[e] = table[e]
  BY DEF Owned, Typed, PortRecords, Port, Entries
<1>2. ports[p] \in PortRecords /\ \A q \in Slots : q # p => ports'[q] = ports[q]
  BY DEF Owned, Typed
<1>3. ports'[p] = [ports[p] EXCEPT !.last = a]
  BY DEF Owned, Typed
<1>4. cursors'[p] = [status |-> Port(p).status, inode |-> Port(p).inode,
                     output |-> Port(p).output, at |-> table'[d].offset, ahead |-> a]
  BY <1>2, <1>3 DEF cursors, Cursor, IsOpen, Port, PortRecords
<1>5. \A q \in Slots : q # p => cursors'[q] = cursors[q]
  <2>1. \A q \in Slots : q # p /\ IsOpen(q) => Port(q).descriptor \in Descriptors /\ Port(q).descriptor # d
    BY DEF Owned, Typed, PortRecords, PortsOwnFiles, Port
  <2>. QED BY <1>1, <1>2, <2>1 DEF cursors, Cursor, IsOpen, Port
<1>6. cursors[p].at = table[d].offset
  BY CursorIs
<1>7. cursors' = [q \in Slots |-> cursors'[q]]
  BY DEF cursors
<1>. QED BY <1>1, <1>4, <1>5, <1>6, <1>7 DEF Turned

LEMMA AheadSetsCursor ==
  ASSUME Owned, NEW p \in Slots, NEW a, UNCHANGED table,
         ports' = [ports EXCEPT ![p].last = a]
  PROVE  cursors' = Turned(p, cursors[p].at, a)
<1>2. ports[p] \in PortRecords /\ \A q \in Slots : q # p => ports'[q] = ports[q]
  BY DEF Owned, Typed
<1>3. ports'[p] = [ports[p] EXCEPT !.last = a]
  BY DEF Owned, Typed
<1>4. cursors'[p] = [status |-> Port(p).status, inode |-> Port(p).inode,
                     output |-> Port(p).output, at |-> cursors[p].at, ahead |-> a]
  BY <1>2, <1>3 DEF cursors, Cursor, IsOpen, Port, PortRecords
<1>5. \A q \in Slots : q # p => cursors'[q] = cursors[q]
  BY <1>2 DEF cursors, Cursor, IsOpen, Port
<1>6. cursors' = [q \in Slots |-> cursors'[q]]
  BY DEF cursors
<1>. QED BY <1>4, <1>5, <1>6 DEF Turned

(* The records of Cursors that are written as exceptions to NoCursor.         *)
LEMMA NoCursorBut ==
  ASSUME NEW i, NEW output \in BOOLEAN, NEW a
  PROVE  /\ [C!NoCursor EXCEPT !.status = "closed", !.ahead = a]
              = [status |-> "closed", inode |-> NoInode, output |-> FALSE, at |-> 0, ahead |-> a]
         /\ [C!NoCursor EXCEPT !.status = "open", !.inode = i, !.output = output]
              = [status |-> "open", inode |-> i, output |-> output, at |-> 0, ahead |-> False]
<1>. DEFINE Fields == {"status", "inode", "output", "at", "ahead"}
<1>1. ASSUME NEW x, NEW y, DOMAIN x = Fields, DOMAIN y = Fields,
             x = [k \in DOMAIN x |-> x[k]], y = [k \in DOMAIN y |-> y[k]],
             x.status = y.status, x.inode = y.inode, x.output = y.output, x.at = y.at,
             x.ahead = y.ahead
      PROVE  x = y
  <2>1. \A k \in Fields : x[k] = y[k]
    BY <1>1
  <2>. QED BY <1>1, <2>1
<1>. USE DEF C!NoCursor, C!NoInode, NoInode, C!False, False
<1>2. ASSUME NEW x, NEW y, x = [C!NoCursor EXCEPT !.status = "closed", !.ahead = a],
             y = [status |-> "closed", inode |-> NoInode, output |-> FALSE, at |-> 0, ahead |-> a]
      PROVE  x = y
  <2>1. /\ DOMAIN x = Fields /\ DOMAIN y = Fields
        /\ x = [k \in DOMAIN x |-> x[k]] /\ y = [k \in DOMAIN y |-> y[k]]
    BY <1>2
  <2>2. x.status = y.status /\ x.inode = y.inode /\ x.output = y.output /\ x.at = y.at
        /\ x.ahead = y.ahead
    BY <1>2
  <2>. QED BY <1>1, <2>1, <2>2
<1>3. ASSUME NEW x, NEW y,
             x = [C!NoCursor EXCEPT !.status = "open", !.inode = i, !.output = output],
             y = [status |-> "open", inode |-> i, output |-> output, at |-> 0, ahead |-> False]
      PROVE  x = y
  <2>1. /\ DOMAIN x = Fields /\ DOMAIN y = Fields
        /\ x = [k \in DOMAIN x |-> x[k]] /\ y = [k \in DOMAIN y |-> y[k]]
    BY <1>3
  <2>2. x.status = y.status /\ x.inode = y.inode /\ x.output = y.output /\ x.at = y.at
        /\ x.ahead = y.ahead
    BY <1>3
  <2>. QED BY <1>1, <2>1, <2>2
<1>. QED BY <1>2, <1>3

LEMMA UnchangedCursors ==
  ASSUME UNCHANGED <<ports, table>>
  PROVE  UNCHANGED cursors
BY DEF cursors, Cursor, IsOpen, Port

-----------------------------------------------------------------------------
(* Reading and peeking.                                                    *)

LEMMA ReadGives ==
  ASSUME StaleUnused, Sound, NEW p \in Slots, Usable(p), NEW a, ReadFile(Port(p).descriptor, a)
  PROVE  /\ UNCHANGED <<system, directory, contents, descriptor>>
         /\ IF IsOpen(p) /\ Readable(Port(p).descriptor)
            THEN /\ a = contents[Port(p).inode][table[Port(p).descriptor].offset + 1]
                 /\ a \in Bytes
                 /\ table' = [table EXCEPT ![Port(p).descriptor].offset = @ + 1]
            ELSE a = False /\ UNCHANGED table
<1>. DEFINE d == Port(p).descriptor
            byte == contents[table[d].inode][table[d].offset + 1]
<1>1. d \in Descriptors /\ table[d] \in Entries
  BY DEF Sound, Owned, Typed, Port, PortRecords
<1>2. ASSUME Readable(d)
      PROVE  byte \in Bytes
  <2>1. contents[table[d].inode] \in Seq(Bytes)
    BY <1>1, <1>2 DEF Sound, Filled, Readable, InUse, Entries
  <2>2. table[d].offset + 1 \in 1 .. Len(contents[table[d].inode])
    BY <1>1, <1>2, <2>1 DEF Readable, Entries
  <2>. QED BY <2>1, <2>2
<1>3. PICK b \in Answers : a = Pushed(b) /\ Read(d, b)
  BY DEF ReadFile
<1>4. system # "void"
  BY DEF Usable, Sound, Owned, Void
<1>5. Consume(d, b) /\ system \in {"memory", "libc", "os"}
  BY <1>3, <1>4 DEF Read, VoidFails, ReadMemory, ReadLibc, ReadOs
<1>6. CASE Readable(d)
  <2>1. IsOpen(p)
    BY <1>5, <1>6, ClosedFileless DEF Sound, Readable
  <2>2. table[d].inode = Port(p).inode
    BY <2>1 DEF Sound, Owned, PortsOwnFiles
  <2>3. b = byte /\ table' = [table EXCEPT ![d].offset = @ + 1]
        /\ UNCHANGED <<system, directory, contents, descriptor>>
    BY <1>5, <1>6 DEF Consume, disk
  <2>4. a = b
    <3>1. b \in 0 .. ByteBase - 1
      BY <1>2, <1>6, <2>3 DEF Bytes
    <3>2. b # Error
      BY <3>1, FilesAssumption DEF Error
    <3>. QED BY <1>3, <3>2 DEF Pushed
  <2>. QED BY <1>2, <1>6, <2>1, <2>2, <2>3, <2>4
<1>7. CASE ~Readable(d)
  <2>1. b = Error /\ UNCHANGED fileVars
    BY <1>5, <1>7 DEF Consume, Returns
  <2>. QED BY <1>3, <1>7, <2>1 DEF Pushed, fileVars, disk
<1>. QED BY <1>6, <1>7

LEMMA ShownIs ==
  ASSUME Sound, NEW p \in Slots
  PROVE  C!Shown(cursors[p]) =
           IF Port(p).last # False THEN Port(p).last
           ELSE IF IsOpen(p) /\ Readable(Port(p).descriptor)
                THEN contents[Port(p).inode][table[Port(p).descriptor].offset + 1]
                ELSE Eof
<1>1. C!False = False /\ C!Eof = Eof
  BY DEF C!False, False, C!Eof, Eof
<1>2. CASE IsOpen(p)
  <2>1. /\ table[Port(p).descriptor].inode = Port(p).inode
        /\ table[Port(p).descriptor].output = Port(p).output
        /\ Port(p).inode # NoInode
    BY <1>2 DEF Sound, Owned, PortsOwnFiles
  <2>2. Readable(Port(p).descriptor) <=>
          ~Port(p).output /\ table[Port(p).descriptor].offset < Len(contents[Port(p).inode])
    BY <2>1 DEF Readable, InUse
  <2>. QED BY <1>1, <1>2, <2>2, CursorIs DEF C!Shown, IsOpen
<1>3. CASE ~IsOpen(p)
  BY <1>1, <1>3, CursorIs DEF C!Shown, IsOpen
<1>. QED BY <1>2, <1>3

LEMMA ReadsShow ==
  ASSUME StaleUnused, Sound, NEW p \in Slots, Usable(p), NEW r \in Answers \cup {Eof},
         ReadsU8(p, r), NEW a, ports' = [ports EXCEPT ![p].last = a]
  PROVE  /\ r = C!Shown(cursors[p])
         /\ UNCHANGED <<system, directory, contents>>
         /\ cursors' = [cursors EXCEPT ![p].at = C!Behind(cursors[p]), ![p].ahead = a]
<1>. DEFINE d == Port(p).descriptor
            shown == C!Shown(cursors[p])
<1>1. C!False = False /\ C!Eof = Eof
  BY DEF C!False, False, C!Eof, Eof
<1>2. cursors[p].ahead = Port(p).last
  BY CursorIs
<1>. DEFINE behind == IF Port(p).last = False /\ shown # Eof
                      THEN cursors[p].at + 1 ELSE cursors[p].at
<1>5. C!Behind(cursors[p]) = behind
  BY <1>1, <1>2 DEF C!Behind
<1>6. [cursors EXCEPT ![p].at = C!Behind(cursors[p]), ![p].ahead = a] = Turned(p, behind, a)
  <2>. DEFINE u == C!Behind(cursors[p])
  <2>1. u = behind
    BY <1>5
  <2>. HIDE DEF u, behind
  <2>2. [cursors EXCEPT ![p].at = u, ![p].ahead = a] = Turned(p, u, a)
    BY TurnedIs
  <2>3. [cursors EXCEPT ![p].at = u, ![p].ahead = a] = Turned(p, behind, a)
    BY <2>1, <2>2
  <2>. QED BY <2>3 DEF u
<1>. SUFFICES /\ r = shown
              /\ UNCHANGED <<system, directory, contents>>
              /\ cursors' = Turned(p, behind, a)
  BY <1>6
<1>. HIDE DEF shown
<1>3. CASE Port(p).last # False
  <2>1. r = Port(p).last /\ UNCHANGED fileVars
    BY <1>3 DEF ReadsU8
  <2>2. shown = Port(p).last
    BY <1>3, ShownIs DEF shown
  <2>3. cursors' = Turned(p, cursors[p].at, a)
    BY <2>1, AheadSetsCursor DEF fileVars, Sound
  <2>. QED BY <1>3, <2>1, <2>2, <2>3 DEF fileVars, disk
<1>4. CASE Port(p).last = False
  <2>1. PICK b \in Answers : r = (IF b = False THEN Eof ELSE b) /\ ReadFile(d, b)
    BY <1>4 DEF ReadsU8
  <2>2. UNCHANGED <<system, directory, contents, descriptor>>
    BY <2>1, ReadGives
  <2>3. CASE IsOpen(p) /\ Readable(d)
    <3>1. b = contents[Port(p).inode][table[d].offset + 1] /\ b \in Bytes
          /\ table' = [table EXCEPT ![d].offset = @ + 1]
      BY <2>1, <2>3, ReadGives
    <3>2. b # False /\ b # Eof
      BY <3>1, FilesAssumption DEF Bytes, False, Eof
    <3>3. shown = b /\ r = b
      BY <1>4, <2>1, <2>3, <3>1, <3>2, ShownIs DEF shown
    <3>4. cursors' = Turned(p, cursors[p].at + 1, a)
      BY <2>3, <3>1, OffsetMovesCursor DEF Sound
    <3>. QED BY <1>4, <2>2, <3>2, <3>3, <3>4
  <2>4. CASE ~(IsOpen(p) /\ Readable(d))
    <3>1. b = False /\ UNCHANGED table
      BY <2>1, <2>4, ReadGives
    <3>2. shown = Eof /\ r = Eof
      BY <1>4, <2>1, <2>4, <3>1, ShownIs DEF shown
    <3>3. cursors' = Turned(p, cursors[p].at, a)
      BY <3>1, AheadSetsCursor DEF Sound
    <3>. QED BY <2>2, <3>2, <3>3
  <2>. QED BY <2>3, <2>4
<1>. QED BY <1>3, <1>4

LEMMA ReadTakes ==
  ASSUME StaleUnused, Sound, NEW p \in Slots, ReadU8(p)
  PROVE  UNCHANGED system /\ cursors[p].status # "none" /\ C!Take(p)
<1>1. PICK r \in Answers \cup {Eof} : ReadsU8(p, r) /\ result' = <<"read", r>>
  BY DEF ReadU8
<1>2. Usable(p) /\ ports' = [ports EXCEPT ![p].last = False]
  BY DEF ReadU8
<1>3. cursors[p].status # "none"
  BY <1>2, CursorIs DEF Usable
<1>4. C!False = False
  BY DEF C!False, False
<1>. QED BY <1>1, <1>2, <1>3, <1>4, ReadsShow DEF C!Take

LEMMA PeekLooks ==
  ASSUME StaleUnused, Sound, NEW p \in Slots, PeekU8(p)
  PROVE  UNCHANGED system /\ cursors[p].status # "none" /\ C!Look(p)
<1>1. PICK r \in Answers \cup {Eof} :
        ReadsU8(p, r) /\ result' = <<"peek", r>> /\ ports' = [ports EXCEPT ![p].last = r]
  BY DEF PeekU8
<1>2. Usable(p)
  BY DEF PeekU8
<1>3. cursors[p].status # "none"
  BY <1>2, CursorIs DEF Usable
<1>. QED BY <1>1, <1>2, <1>3, ReadsShow DEF C!Look

-----------------------------------------------------------------------------
(* Writing and closing.                                                    *)

(* What a file holds when a byte was written to it.                          *)
Holds(new, old, at, byte) ==
  /\ Len(new) = IF Len(old) > at THEN Len(old) ELSE at + 1
  /\ new[at + 1] = byte
  /\ \A i \in DOMAIN new \ {at + 1} : new[i] = IF i <= Len(old) THEN old[i] ELSE 0

LEMMA WrittenIs ==
  ASSUME NEW old \in Seq(Bytes), NEW at \in Nat, NEW byte \in Bytes
  PROVE  /\ Written(old, at, byte) \in Seq(Bytes)
         /\ Holds(Written(old, at, byte), old, at, byte)
<1>. DEFINE n == IF Len(old) > at THEN Len(old) ELSE at + 1
            new == Written(old, at, byte)
<1>1. n \in Nat /\ at + 1 \in 1 .. n
  OBVIOUS
<1>2. 0 \in Bytes
  BY FilesAssumption DEF Bytes
<1>3. new = [i \in 1 .. n |-> IF i = at + 1 THEN byte ELSE IF i <= Len(old) THEN old[i] ELSE 0]
  BY DEF Written
<1>. HIDE DEF n, new
<1>4. \A i \in 1 .. n : (IF i = at + 1 THEN byte ELSE IF i <= Len(old) THEN old[i] ELSE 0) \in Bytes
  BY <1>1, <1>2
<1>5. new \in [1 .. n -> Bytes]
  BY <1>3, <1>4
<1>6. new \in Seq(Bytes) /\ Len(new) = n
  BY <1>1, <1>5
<1>7. Holds(new, old, at, byte)
  BY <1>1, <1>3, <1>6 DEF n, Holds
<1>. QED BY <1>6, <1>7 DEF new

LEMMA WritePuts ==
  ASSUME StaleUnused, Sound, NEW p \in Slots, NEW n \in Numbers, WriteU8(p, n)
  PROVE  /\ UNCHANGED system /\ (C!Put(p, n) \/ C!PutFails)
         /\ Filled'
<1>. DEFINE d == Port(p).descriptor
            i == Port(p).inode
            at == table[d].offset
            byte == n % ByteBase
<1>1. PICK b \in Answers : Write(d, byte, b) /\ result' = <<"write", Pushed(b)>>
  BY DEF WriteU8, WriteFile
<1>2. UNCHANGED ports /\ Usable(p)
  BY DEF WriteU8
<1>3. CASE Returns(Error, b)
  <2>1. UNCHANGED <<fileVars, cursors>>
    BY <1>2, <1>3, UnchangedCursors DEF Returns, fileVars
  <2>2. result' = <<"write", C!False>>
    BY <1>1, <1>3 DEF Returns, Pushed, False, C!False
  <2>. QED BY <2>1, <2>2 DEF C!PutFails, Filled, Sound, fileVars, disk
<1>4. CASE ~Returns(Error, b)
  <2>1. system \in {"libc", "os"} /\ Store(d, byte, b)
    BY <1>1, <1>4 DEF Write, VoidFails, WriteMemory, WriteLibc, WriteOs
  <2>2. /\ InUse(d) /\ table[d].output
        /\ contents' = [contents EXCEPT ![table[d].inode] = Written(@, at, byte)]
        /\ table' = [table EXCEPT ![d].offset = @ + 1]
        /\ b = True
        /\ UNCHANGED <<system, directory, descriptor>>
    BY <1>4, <2>1 DEF Store
  <2>3. IsOpen(p)
    BY <1>2, <2>1, <2>2, ClosedFileless DEF Sound
  <2>4. table[d].inode = i /\ table[d].output = Port(p).output /\ i \in Inodes /\ at \in Nat
    BY <2>3 DEF Sound, Owned, Typed, PortsOwnFiles, Entries, Port, PortRecords
  <2>5. byte \in Bytes
    <3>1. n \in Int /\ ByteBase \in Nat /\ ByteBase > 0
      BY NumbersAssumption, FilesAssumption
    <3>2. n % ByteBase \in 0 .. ByteBase - 1
      BY <3>1
    <3>. QED BY <3>2 DEF Bytes
  <2>6. contents[i] \in Seq(Bytes) /\ contents \in [Inodes -> Seq(Bytes)]
    BY <2>4 DEF Sound, Filled
  <2>7. contents' = [contents EXCEPT ![i] = Written(contents[i], at, byte)]
    BY <2>2, <2>4
  <2>8. /\ contents'[i] = Written(contents[i], at, byte)
        /\ \A j \in Inodes \ {i} : contents'[j] = contents[j]
    BY <2>4, <2>6, <2>7
  <2>9. Filled'
    <3>1. Written(contents[i], at, byte) \in Seq(Bytes)
      BY <2>4, <2>5, <2>6, WrittenIs
    <3>. QED BY <2>6, <2>7, <3>1 DEF Filled
  <2>10. cursors' = [cursors EXCEPT ![p].at = @ + 1]
    <3>1. ports' = [ports EXCEPT ![p].last = Port(p).last]
      BY <1>2 DEF Sound, Owned, Typed, Port, PortRecords
    <3>2. cursors' = Turned(p, cursors[p].at + 1, Port(p).last)
      BY <2>2, <2>3, <3>1, OffsetMovesCursor DEF Sound
    <3>. DEFINE u == cursors[p].at + 1
    <3>. HIDE DEF u
    <3>3. [cursors EXCEPT ![p].at = u] = Turned(p, u, Port(p).last)
      BY TurnedIs
    <3>. QED BY <3>2, <3>3 DEF u
  <2>11. cursors[p].at = at /\ cursors[p].inode = i /\ cursors[p].output = Port(p).output /\ C!Open(p)
    BY <2>3, CursorIs
  <2>12. C!Put(p, n)
    <3>1. result' = <<"write", C!True>>
      BY <1>1, <2>2 DEF Pushed, True, Error, C!True
    <3>2. Holds(contents'[i], contents[i], at, byte)
      <4>1. contents[i] \in Seq(Bytes) /\ at \in Nat /\ byte \in Bytes
        BY <2>4, <2>5, <2>6
      <4>. HIDE DEF i, at, byte
      <4>. QED BY <2>8, <4>1, WrittenIs
    <3>3. C!SameContents({i})
      BY <2>8 DEF C!SameContents
    <3>4. Port(p).output /\ C!Writable
      BY <2>1, <2>2, <2>4 DEF C!Writable
    <3>. QED BY <2>2, <2>10, <2>11, <3>1, <3>2, <3>3, <3>4 DEF C!Put, Holds
  <2>. QED BY <2>2, <2>9, <2>12
<1>. QED BY <1>3, <1>4

LEMMA CloseShuts ==
  ASSUME StaleUnused, Sound, Owned', NEW p \in Slots, ClosePort(p)
  PROVE  /\ UNCHANGED system /\ cursors[p].status # "none" /\ C!Shut(p)
         /\ Filled'
<1>. DEFINE d == Port(p).descriptor
            shut == [status |-> "closed", inode |-> NoInode, output |-> FALSE, at |-> 0,
                     ahead |-> Port(p).last]
<1>1. PICK b \in Answers : Close(d, b) /\ result' = <<"close", Pushed(b)>>
  BY DEF ClosePort, CloseFile
<1>2. Usable(p) /\ Port(p).status # "none"
  BY DEF ClosePort, Usable
<1>3. system # "void" /\ (system = "memory" => d < Capacity)
  BY <1>2 DEF Sound, Owned, Void, Within, Usable, StaleUnused, IsOpen
<1>4. Dropped(d) /\ b = True /\ system \in {"memory", "libc", "os"}
  BY <1>1, <1>3 DEF Close, VoidFails, CloseMemory, CloseLibc, CloseOs
<1>5. /\ table' = [table EXCEPT ![d] = Closed]
      /\ contents' = Reclaimed(contents, directory', table')
      /\ UNCHANGED <<system, directory, descriptor>>
  BY <1>4 DEF Dropped
<1>6. ports'[p] = [ports[p] EXCEPT !.status = "closed", !.inode = NoInode, !.output = FALSE]
      /\ \A q \in Slots : q # p => ports'[q] = ports[q]
  BY DEF ClosePort, Sound, Owned, Typed
<1>7. \A q \in Slots : q # p /\ IsOpen(q) => Port(q).descriptor \in Descriptors /\ Port(q).descriptor # d
  <2>1. CASE IsOpen(p)
    BY <2>1 DEF Sound, Owned, Typed, PortRecords, PortsOwnFiles, Port
  <2>2. CASE ~IsOpen(p)
    <3>1. Port(p).status = "closed" /\ Counts
      BY <1>2, <1>4, <2>2 DEF Usable, StaleUnused, IsOpen, Counts
    <3>. QED BY <3>1 DEF Sound, Owned, Typed, PortRecords, Counted, Port
  <2>. QED BY <2>1, <2>2
<1>8. cursors' = [cursors EXCEPT ![p] = shut]
  <2>1. cursors'[p] = shut
    <3>1. ports[p] \in PortRecords
      BY DEF Sound, Owned, Typed
    <3>2. /\ ports'[p].status = "closed" /\ ports'[p].inode = NoInode /\ ports'[p].output = FALSE
          /\ ports'[p].last = ports[p].last
      BY <1>6, <3>1 DEF PortRecords
    <3>. QED BY <3>2 DEF cursors, Cursor, IsOpen, Port
  <2>2. \A q \in Slots : q # p => cursors'[q] = cursors[q]
    BY <1>5, <1>6, <1>7 DEF cursors, Cursor, IsOpen, Port, Sound, Owned, Typed
  <2>3. cursors' = [q \in Slots |-> cursors'[q]] /\ cursors = [q \in Slots |-> cursors[q]]
    BY DEF cursors
  <2>. HIDE DEF shut
  <2>. QED BY <2>1, <2>2, <2>3
<1>9. [C!NoCursor EXCEPT !.status = "closed", !.ahead = cursors[p].ahead] = shut
  BY CursorIs, NoCursorBut
<1>10. C!SameContents({})
  BY <1>5, ReclaimedSame
<1>11. Filled'
  BY <1>5 DEF Filled, Sound, Reclaimed
<1>12. result' = <<"close", IF system = "void" THEN C!False ELSE C!True>>
  BY <1>1, <1>3, <1>4 DEF Pushed, True, Error, C!True
<1>13. cursors[p].status # "none"
  BY <1>2, CursorIs
<1>. HIDE DEF shut
<1>. QED BY <1>5, <1>8, <1>9, <1>10, <1>11, <1>12, <1>13 DEF C!Shut

-----------------------------------------------------------------------------
(* Opening.                                                                *)

(* The kernel provides the file of a path, or a new one, when it opens.      *)
LEMMA KernelProvides ==
  ASSUME Sound, NEW path \in Paths, NEW output \in BOOLEAN, output \/ Exists(path),
         NEW i \in Inodes, Names(path, i), OpenInKernel(path, output, i)
  PROVE  C!Provides(path, output, i) /\ Filled'
<1>1. contents \in [Inodes -> Seq(Bytes)] /\ C!Exists(path) = Exists(path)
  BY DEF Sound, Filled, C!Exists, Exists, C!NoInode, NoInode
<1>2. contents' = [contents EXCEPT ![i] = IF output THEN <<>> ELSE contents[i]]
  BY <1>1 DEF OpenInKernel
<1>3. contents'[i] = (IF output THEN <<>> ELSE contents[i])
      /\ \A j \in Inodes \ {i} : contents'[j] = contents[j]
  BY <1>1, <1>2
<1>4. Filled'
  <2>1. <<>> \in Seq(Bytes)
    OBVIOUS
  <2>. QED BY <1>1, <1>2, <2>1 DEF Filled
<1>5. IF C!Exists(path) THEN i = directory[path] ELSE ~C!Alive(i)
  BY <1>1, AliveUsed DEF Names, Sound
<1>6. C!SameContents({i})
  BY <1>3 DEF C!SameContents
<1>. QED BY <1>1, <1>3, <1>4, <1>5, <1>6 DEF C!Provides, OpenInKernel

LEMMA CrowdedIs ==
  C!Crowded <=> system # "os" /\ Cardinality(OpenPorts) >= Capacity
<1>1. {p \in Slots : C!Open(p)} = OpenPorts
  BY CursorIs DEF OpenPorts
<1>. QED BY <1>1 DEF C!Crowded, C!Cardinality, Cardinality

(* A port on the entry that was filled is a cursor at the start of its file. *)
LEMMA OpenedCursor ==
  ASSUME Owned, NEW p \in Slots, NEW d \in Descriptors, NEW i \in Inodes, NEW output \in BOOLEAN,
         ~InUse(d), table' = [table EXCEPT ![d] = Opened(i, output)],
         ports' = [ports EXCEPT ![p] =
           [status |-> "open", descriptor |-> d, last |-> False, inode |-> table'[d].inode,
            output |-> output]]
  PROVE  cursors' = [cursors EXCEPT ![p] = [C!NoCursor EXCEPT
              !.status = "open", !.inode = i, !.output = output]]
<1>. DEFINE opened == [status |-> "open", inode |-> i, output |-> output, at |-> 0,
                       ahead |-> False]
<1>1. /\ table'[d] = Opened(i, output) /\ table'[d].inode = i
      /\ \A e \in Descriptors : e # d => table'[e] = table[e]
  BY DEF Owned, Typed, Opened
<1>2. /\ ports'[p] = [status |-> "open", descriptor |-> d, last |-> False, inode |-> i,
                      output |-> output]
      /\ \A q \in Slots : q # p => ports'[q] = ports[q]
  BY <1>1 DEF Owned, Typed
<1>3. \A q \in Slots : IsOpen(q) => Port(q).descriptor \in Descriptors /\ Port(q).descriptor # d
  BY DEF Owned, Typed, PortRecords, PortsOwnFiles, InUse, Port
<1>4. cursors'[p] = opened
  BY <1>1, <1>2 DEF cursors, Cursor, IsOpen, Port, Opened
<1>5. \A q \in Slots : q # p => cursors'[q] = cursors[q]
  BY <1>1, <1>2, <1>3 DEF cursors, Cursor, IsOpen, Port
<1>6. cursors' = [q \in Slots |-> cursors'[q]] /\ cursors = [q \in Slots |-> cursors[q]]
  BY DEF cursors
<1>. HIDE DEF opened
<1>7. cursors' = [cursors EXCEPT ![p] = opened]
  BY <1>4, <1>5, <1>6
<1>. QED BY <1>7, NoCursorBut DEF opened

LEMMA OpenOpens ==
  ASSUME Sound, NEW p \in Slots, NEW path \in Paths, NEW output \in BOOLEAN,
         OpenPort(p, path, output)
  PROVE  /\ UNCHANGED system /\ (C!OpenCursor(p, path, output) \/ C!OpenFails(path, output))
         /\ Filled'
<1>. DEFINE Impossible == C!Impossible(path, output)
<1>1. PICK r \in Answers :
        /\ OpenFile(path, output, r)
        /\ IF r = False THEN result' = <<"open", Raised>> /\ UNCHANGED ports
           ELSE /\ ports' = [ports EXCEPT ![p] =
                     [status |-> "open", descriptor |-> r, last |-> False,
                      inode |-> table'[r].inode, output |-> output]]
                /\ result' = <<"open", True>>
  BY DEF OpenPort
<1>2. ~C!Open(p) /\ descriptor < MaxOpens
  BY CursorIs DEF OpenPort, IsOpen
<1>3. C!Exists(path) = Exists(path) /\ C!True = True /\ C!Raised = Raised
  BY DEF C!Exists, Exists, C!NoInode, NoInode, C!True, True, C!Raised, Raised
<1>. USE <1>3
<1>4. ASSUME r = False, UNCHANGED fileVars, Impossible \/ C!Crowded \/ C!Writable
      PROVE  UNCHANGED system /\ C!OpenFails(path, output) /\ Filled'
  <2>1. UNCHANGED cursors
    BY <1>1, <1>4, UnchangedCursors DEF fileVars
  <2>. QED BY <1>1, <1>4, <2>1 DEF C!OpenFails, fileVars, disk, Filled, Sound
<1>5. ASSUME NEW d \in Descriptors, NEW i \in Inodes, r = d, ~InUse(d), UNCHANGED system,
             table' = [table EXCEPT ![d] = Opened(i, output)],
             C!Provides(path, output, i), ~Impossible, ~C!Crowded
      PROVE  C!OpenCursor(p, path, output)
  <2>1. r # False
    BY <1>5, FilesAssumption DEF Descriptors, False
  <2>2. cursors' = [cursors EXCEPT ![p] = [C!NoCursor EXCEPT
              !.status = "open", !.inode = i, !.output = output]]
    BY <1>1, <1>5, <2>1, OpenedCursor, ZenonT(30) DEF Sound
  <2>. QED BY <1>1, <1>2, <1>5, <2>1, <2>2 DEF C!OpenCursor
<1>6. CASE ~Decodes(path)
  <2>1. r = False /\ UNCHANGED fileVars
    BY <1>1, <1>6 DEF OpenFile, Returns
  <2>2. Impossible
    BY <1>6 DEF C!Impossible, Decodes
  <2>. QED BY <1>4, <2>1, <2>2
<1>7. ASSUME Decodes(path), NEW a \in Answers, r = Pushed(a), OpenMemory(path, output, a)
      PROVE  UNCHANGED system /\ (C!OpenCursor(p, path, output) \/ C!OpenFails(path, output)) /\ Filled'
  <2>1. system = "memory"
    BY <1>7 DEF OpenMemory
  <2>2. (\E d \in Descriptors : FirstFree(d)) <=> ~C!Crowded
    <3>1. Cardinality(OpenPorts) \in Nat
      BY OpenPortsMatch, FS_CardinalityType DEF Sound
    <3>. QED BY <2>1, <3>1, CrowdedIs, FirstFreeFound, FilesAssumption DEF Sound
  <2>3. Impossible <=> output \/ ~Exists(path)
    BY <1>7, <2>1 DEF C!Impossible, C!Writable, Decodes
  <2>4. CASE Impossible \/ C!Crowded
    <3>1. a = Error /\ UNCHANGED fileVars
      BY <1>7, <2>2, <2>3, <2>4 DEF OpenMemory, Returns
    <3>2. r = False
      BY <1>7, <3>1 DEF Pushed
    <3>. QED BY <1>4, <2>4, <3>1, <3>2
  <2>5. CASE ~Impossible /\ ~C!Crowded
    <3>1. PICK d \in Descriptors :
            /\ FirstFree(d)
            /\ table' = [table EXCEPT ![d] = Opened(directory[path], FALSE)]
            /\ a = d /\ UNCHANGED <<system, disk, descriptor>>
      BY <1>7, <2>2, <2>3, <2>5 DEF OpenMemory
    <3>2. output = FALSE /\ directory[path] \in Inodes
      BY <2>3, <2>5 DEF Exists, Sound, Owned, Typed
    <3>3. r = d /\ ~InUse(d)
      BY <1>7, <3>1, FilesAssumption DEF Pushed, Descriptors, Error, FirstFree
    <3>4. table' = [table EXCEPT ![d] = Opened(directory[path], output)]
      BY <3>1, <3>2
    <3>5. C!Provides(path, output, directory[path])
      <4>1. directory' = [directory EXCEPT ![path] = directory[path]]
        BY <3>1 DEF disk, Sound, Owned, Typed
      <4>2. C!SameContents({directory[path]})
        BY <3>1 DEF C!SameContents, disk
      <4>. QED BY <2>3, <2>5, <3>1, <3>2, <4>1, <4>2 DEF C!Provides, disk
    <3>6. C!OpenCursor(p, path, output)
      BY <1>5, <2>5, <3>1, <3>2, <3>3, <3>4, <3>5
    <3>. QED BY <3>1, <3>6 DEF disk, Filled, Sound
  <2>. QED BY <2>4, <2>5
<1>8. ASSUME Decodes(path), system \in {"libc", "os"}, output \/ Exists(path)
      PROVE  ~Impossible
  BY <1>8 DEF C!Impossible, C!Writable, Decodes
<1>9. ASSUME Decodes(path), NEW a \in Answers, r = Pushed(a), system \in {"libc", "os"},
             output \/ Exists(path), NEW i \in Inodes, Names(path, i), UNCHANGED system,
             OpenInKernel(path, output, i), Insert(i, output, a), ~C!Crowded
      PROVE  C!OpenCursor(p, path, output) /\ Filled'
  <2>1. C!Provides(path, output, i) /\ Filled'
    BY <1>9, KernelProvides
  <2>2. r = descriptor
    BY <1>9, FilesAssumption DEF Insert, Pushed, Sound, Owned, Typed, Descriptors, Error
  <2>3. descriptor \in Descriptors /\ ~InUse(descriptor)
    BY <1>9, FilesAssumption DEF Sound, Owned, Typed, Counted, Counts, Descriptors
  <2>4. table' = [table EXCEPT ![descriptor] = Opened(i, output)]
    BY <1>9 DEF Insert
  <2>. QED BY <1>5, <1>8, <1>9, <2>1, <2>2, <2>3, <2>4
<1>10. ASSUME Decodes(path), NEW a \in Answers, r = Pushed(a), OpenLibc(path, output, a)
       PROVE  UNCHANGED system /\ (C!OpenCursor(p, path, output) \/ C!OpenFails(path, output)) /\ Filled'
  <2>1. system = "libc"
    BY <1>10 DEF OpenLibc
  <2>2. Full <=> C!Crowded
    BY <2>1, OpenPortsMatch, CrowdedIs DEF Full, Sound
  <2>3. CASE ~output /\ ~Exists(path)
    <3>1. a = Error /\ UNCHANGED fileVars
      BY <1>10, <2>3 DEF OpenLibc, Returns
    <3>2. Impossible
      BY <2>3 DEF C!Impossible
    <3>3. r = False
      BY <1>10, <3>1 DEF Pushed
    <3>. QED BY <1>4, <3>1, <3>2, <3>3
  <2>4. CASE output \/ Exists(path)
    <3>1. PICK i \in Inodes :
            /\ Names(path, i) /\ OpenInKernel(path, output, i)
            /\ IF Full THEN a = Error /\ UNCHANGED <<table, descriptor>>
               ELSE Insert(i, output, a)
            /\ UNCHANGED system
      BY <1>10, <2>4 DEF OpenLibc
    <3>2. C!Provides(path, output, i) /\ Filled'
      BY <2>4, <3>1, KernelProvides
    <3>3. CASE Full
      <4>1. r = False /\ UNCHANGED table
        BY <1>10, <3>1, <3>3 DEF Pushed
      <4>2. UNCHANGED cursors /\ result' = <<"open", Raised>>
        BY <1>1, <4>1, UnchangedCursors
      <4>3. ~Impossible
        BY <1>8, <1>10, <2>1, <2>4
      <4>4. C!OpenFails(path, output)
        BY <2>1, <2>2, <3>2, <3>3, <4>2, <4>3 DEF C!OpenFails
      <4>. QED BY <3>1, <3>2, <4>4
    <3>4. CASE ~Full
      BY <1>9, <1>10, <2>1, <2>2, <2>4, <3>1, <3>4
    <3>. QED BY <3>3, <3>4
  <2>. QED BY <2>3, <2>4
<1>11. ASSUME Decodes(path), NEW a \in Answers, r = Pushed(a), OpenOs(path, output, a)
       PROVE  UNCHANGED system /\ (C!OpenCursor(p, path, output) \/ C!OpenFails(path, output)) /\ Filled'
  <2>1. system = "os" /\ ~C!Crowded
    BY <1>11 DEF OpenOs, C!Crowded
  <2>2. CASE ~output /\ ~Exists(path)
    <3>1. a = Error /\ UNCHANGED fileVars
      BY <1>11, <2>2 DEF OpenOs, Returns
    <3>2. Impossible
      BY <2>2 DEF C!Impossible
    <3>3. r = False
      BY <1>11, <3>1 DEF Pushed
    <3>. QED BY <1>4, <3>1, <3>2, <3>3
  <2>3. CASE output \/ Exists(path)
    <3>1. PICK i \in Inodes :
            Names(path, i) /\ OpenInKernel(path, output, i) /\ Insert(i, output, a) /\ UNCHANGED system
      BY <1>11, <2>3 DEF OpenOs
    <3>. QED BY <1>9, <1>11, <2>1, <2>3, <3>1
  <2>. QED BY <2>2, <2>3
<1>12. CASE Decodes(path)
  <2>1. PICK a \in Answers : r = Pushed(a) /\ Open(path, output, a)
    BY <1>1, <1>12 DEF OpenFile
  <2>2. ~VoidFails(a)
    BY <1>12 DEF VoidFails, Decodes
  <2>3. CASE KernelRefuses(a)
    <3>1. a = Error /\ UNCHANGED fileVars /\ C!Writable
      BY <2>3 DEF KernelRefuses, Returns, C!Writable
    <3>2. r = False
      BY <2>1, <3>1 DEF Pushed
    <3>. QED BY <1>4, <3>1, <3>2
  <2>. QED BY <1>7, <1>10, <1>11, <1>12, <2>1, <2>2, <2>3 DEF Open
<1>. QED BY <1>6, <1>12

-----------------------------------------------------------------------------
(* Names.                                                                  *)

LEMMA DeleteRemoves ==
  ASSUME Sound, Owned', NEW path \in Paths, DeletePath(path)
  PROVE  UNCHANGED system /\ C!Remove(path) /\ Filled'
<1>1. PICK r \in Answers : /\ DeleteFile(path, r) /\ UNCHANGED ports
                           /\ result' = <<"delete", IF r = False THEN Raised ELSE True>>
  BY DEF DeletePath
<1>2. C!Exists(path) = Exists(path) /\ C!True = True /\ C!Raised = Raised /\ C!NoInode = NoInode
  BY DEF C!Exists, Exists, C!NoInode, NoInode, C!True, True, C!Raised, Raised
<1>3. ASSUME r = False, UNCHANGED fileVars, ~C!Writable \/ ~Exists(path) \/ path \in LongPaths
      PROVE  UNCHANGED system /\ C!Remove(path) /\ Filled'
  <2>1. UNCHANGED cursors
    BY <1>1, <1>3, UnchangedCursors DEF fileVars
  <2>. QED BY <1>1, <1>2, <1>3, <2>1 DEF C!Remove, fileVars, disk, Filled, Sound
<1>4. CASE ~Decodes(path)
  <2>1. r = False /\ UNCHANGED fileVars
    BY <1>1, <1>4 DEF DeleteFile, Returns
  <2>2. ~C!Writable \/ path \in LongPaths
    BY <1>4 DEF Decodes, C!Writable
  <2>. QED BY <1>3, <2>1, <2>2
<1>5. CASE Decodes(path)
  <2>1. PICK a \in Answers : r = Pushed(a) /\ Delete(path, a)
    BY <1>1, <1>5 DEF DeleteFile
  <2>2. DeleteMemory(a) \/ (system \in {"libc", "os"} /\ Unlink(path, a))
    BY <1>5, <2>1 DEF Delete, VoidFails, DeleteLibc, DeleteOs, Decodes
  <2>3. CASE Returns(Error, a)
    <3>1. r = False /\ UNCHANGED fileVars
      BY <2>1, <2>3 DEF Returns, Pushed
    <3>2. ~C!Writable \/ ~Exists(path)
      BY <2>2, <2>3 DEF DeleteMemory, Unlink, Returns, C!Writable, Error, True
    <3>. QED BY <1>3, <3>1, <3>2
  <2>4. CASE ~Returns(Error, a)
    <3>1. /\ system \in {"libc", "os"} /\ Exists(path)
          /\ directory' = [directory EXCEPT ![path] = NoInode]
          /\ contents' = Reclaimed(contents, directory', table)
          /\ a = True /\ UNCHANGED <<system, table, descriptor>>
      BY <2>2, <2>4 DEF DeleteMemory, Unlink
    <3>2. r = True /\ r # False
      BY <2>1, <3>1 DEF Pushed, True, Error, False
    <3>3. contents' = Reclaimed(contents, directory', table')
      BY <3>1
    <3>4. C!SameContents({})
      BY <3>3, ReclaimedSame
    <3>5. UNCHANGED cursors
      BY <1>1, <3>1, UnchangedCursors
    <3>6. Filled'
      BY <3>1 DEF Filled, Sound, Reclaimed
    <3>7. C!Writable /\ path \notin LongPaths
      BY <1>5, <3>1 DEF C!Writable, Decodes
    <3>. QED BY <1>1, <1>2, <3>1, <3>2, <3>4, <3>5, <3>6, <3>7 DEF C!Remove
  <2>. QED BY <2>3, <2>4
<1>. QED BY <1>4, <1>5

LEMMA ExistsFinds ==
  ASSUME Sound, NEW path \in Paths, FileExists(path)
  PROVE  UNCHANGED system /\ C!Find(path) /\ Filled'
<1>1. PICK r \in Answers : ExistsFile(path, r) /\ result' = <<"exists", r>> /\ UNCHANGED ports
  BY DEF FileExists
<1>2. C!Exists(path) = Exists(path) /\ C!True = True /\ C!False = False
  BY DEF C!Exists, Exists, C!NoInode, NoInode, C!True, True, C!False, False
<1>3. UNCHANGED fileVars
  BY <1>1 DEF ExistsFile, ExistsIn, VoidFails, ExistsMemory, ExistsLibc, ExistsOs, Returns
<1>4. UNCHANGED cursors
  BY <1>1, <1>3, UnchangedCursors DEF fileVars
<1>5. r = IF system # "void" /\ path \notin LongPaths /\ Exists(path) THEN True ELSE False
  <2>1. CASE ~Decodes(path)
    BY <1>1, <2>1 DEF ExistsFile, Returns, Decodes
  <2>2. CASE Decodes(path)
    <3>1. PICK a \in Answers : r = Pushed(a) /\ ExistsIn(path, a)
      BY <1>1, <2>2 DEF ExistsFile
    <3>2. a = (IF Exists(path) THEN True ELSE False) \/ (~Exists(path) /\ a = Error)
      BY <2>2, <3>1 DEF Decodes, ExistsIn, VoidFails, ExistsMemory, ExistsLibc, ExistsOs, Returns, Boolean
    <3>. QED BY <2>2, <3>1, <3>2 DEF Pushed, Decodes, True, False, Error
  <2>. QED BY <2>1, <2>2
<1>. QED BY <1>1, <1>2, <1>3, <1>4, <1>5 DEF C!Find, fileVars, disk, Filled, Sound

-----------------------------------------------------------------------------

LEMMA InitSound == Init => Sound /\ C!Init
<1>. SUFFICES ASSUME Init  PROVE Sound /\ C!Init
  OBVIOUS
<1>1. Filled
  BY DisksAssumption DEF Init, Filled
<1>2. cursors = [p \in Slots |-> C!NoCursor]
  BY DEF Init, cursors, Cursor, IsOpen, Port, NoPort, C!NoCursor, C!NoInode, NoInode, C!False, False
<1>. QED BY <1>1, <1>2, InitOwned DEF Sound, Init, C!Init, C!False, False

(* Every operation on ports is one on cursors.                               *)
LEMMA StepSound ==
  ASSUME StaleUnused, Sound, [Next]_vars
  PROVE  Sound' /\ [C!Next]_(C!cursorVars)
<1>. DEFINE Steps == Filled' /\ [C!Next]_(C!cursorVars)
<1>1. Owned'
  BY StepOwned DEF Sound
<1>. SUFFICES Steps
  BY <1>1 DEF Sound
<1>2. ASSUME NEW p \in Slots, NEW path \in Paths, NEW output \in BOOLEAN, OpenPort(p, path, output)
      PROVE  Steps
  BY <1>2, OpenOpens DEF C!Next
<1>3. ASSUME NEW p \in Slots, ReadU8(p)
      PROVE  Steps
  BY <1>3, ReadTakes DEF C!Next, C!Take, Filled, Sound
<1>4. ASSUME NEW p \in Slots, PeekU8(p)
      PROVE  Steps
  BY <1>4, PeekLooks DEF C!Next, C!Look, Filled, Sound
<1>5. ASSUME NEW p \in Slots, NEW n \in Numbers, WriteU8(p, n)
      PROVE  Steps
  BY <1>5, WritePuts DEF C!Next
<1>6. ASSUME NEW p \in Slots, ClosePort(p)
      PROVE  Steps
  BY <1>1, <1>6, CloseShuts DEF C!Next
<1>7. ASSUME NEW path \in Paths, DeletePath(path)
      PROVE  Steps
  BY <1>1, <1>7, DeleteRemoves DEF C!Next
<1>8. ASSUME NEW path \in Paths, FileExists(path)
      PROVE  Steps
  BY <1>8, ExistsFinds DEF C!Next
<1>9. CASE UNCHANGED vars
  BY <1>9, UnchangedCursors DEF vars, fileVars, disk, C!cursorVars, Filled, Sound
<1>. HIDE DEF Steps
<1>. QED BY <1>2, <1>3, <1>4, <1>5, <1>6, <1>7, <1>8, <1>9 DEF Next

(* Whatever is below the ports, the table of entries of memory.rs, the       *)
(* counters of libc.rs and os.rs or nothing, a program cannot tell it from a *)
(* cursor in each port: every byte is read once and in order however reads   *)
(* and peeks alternate, a write is where its port stands and moves no other, *)
(* a closed port reads and moves nothing, and an open fails only for the     *)
(* path, the file, or as many open ports as there are entries. As in         *)
(* OpenPortsOwnOpenFiles, no closed port is used on memory.rs.               *)
THEOREM PortsAreCursors ==
  ASSUME StaleUnused
  PROVE  Spec => CursorPromise
<1>1. Init => Sound /\ C!Init
  BY InitSound
<1>2. Sound /\ [Next]_vars => Sound' /\ [C!Next]_(C!cursorVars)
  BY StepSound
<1>. QED
  BY <1>1, <1>2, PTL DEF Spec, CursorPromise, C!Spec

-----------------------------------------------------------------------------
(* Devices.                                                                *)

-----------------------------------------------------------------------------
(* FlattenSeq by what is before each of the sequences.                       *)
IsFlat(flat, seqs, S) ==
  /\ flat \in [0 .. Len(seqs) -> Seq(S)]
  /\ flat[0] = <<>>
  /\ \A k \in 1 .. Len(seqs) : flat[k] = flat[k - 1] \o seqs[k]

LEMMA FlatExists ==
  ASSUME NEW S, NEW seqs \in Seq(Seq(S))
  PROVE  \E flat : IsFlat(flat, seqs, S)
<1>. DEFINE n == Len(seqs)
            Partly(g, m) == /\ g \in [0 .. m -> Seq(S)] /\ g[0] = <<>>
                            /\ \A k \in 1 .. m : g[k] = g[k - 1] \o seqs[k]
            T == {m \in Nat : \E g : Partly(g, m)}
<1>1. n \in Nat
  OBVIOUS
<1>2. 0 \in T
  <2>1. Partly([k \in 0 .. 0 |-> <<>>], 0)
    OBVIOUS
  <2>. QED BY <2>1
<1>3. ASSUME NEW m \in 0 .. n - 1, m \in T
      PROVE  m + 1 \in T
  <2>1. PICK g : Partly(g, m)
    BY <1>3
  <2>. DEFINE h == [k \in 0 .. m + 1 |-> IF k = m + 1 THEN g[m] \o seqs[m + 1] ELSE g[k]]
  <2>2. m \in Nat /\ m + 1 \in 1 .. n /\ seqs[m + 1] \in Seq(S) /\ g[m] \in Seq(S)
    BY <1>1, <2>1
  <2>3. g[m] \o seqs[m + 1] \in Seq(S)
    BY <2>2
  <2>4. h \in [0 .. m + 1 -> Seq(S)] /\ h[0] = <<>>
    BY <2>1, <2>2, <2>3
  <2>5. ASSUME NEW k \in 1 .. m + 1
        PROVE  h[k] = h[k - 1] \o seqs[k]
    <3>1. CASE k = m + 1
      <4>1. m \in 0 .. m + 1 /\ m + 1 \in 0 .. m + 1 /\ m # m + 1
        BY <2>2
      <4>2. h[m + 1] = g[m] \o seqs[m + 1] /\ h[m] = g[m]
        BY <4>1
      <4>3. k - 1 = m
        BY <2>2, <3>1
      <4>. HIDE DEF h
      <4>. QED BY <3>1, <4>2, <4>3
    <3>2. CASE k # m + 1
      <4>1. k \in 1 .. m /\ k - 1 \in 0 .. m
        BY <2>2, <3>2
      <4>2. h[k] = g[k] /\ h[k - 1] = g[k - 1]
        BY <2>2, <4>1
      <4>. QED BY <2>1, <4>1, <4>2
    <3>. QED BY <3>1, <3>2
  <2>. HIDE DEF h
  <2>6. Partly(h, m + 1)
    BY <2>4, <2>5
  <2>. HIDE DEF Partly
  <2>. QED BY <2>2, <2>6
<1>4. n \in T
  <2>. HIDE DEF T
  <2>1. 0 .. n \subseteq T
    BY <1>1, <1>2, <1>3, CountsTo
  <2>. QED BY <1>1, <2>1
<1>. QED BY <1>4 DEF IsFlat

LEMMA FlatNext ==
  ASSUME NEW S, NEW seqs \in Seq(Seq(S)), NEW flat, IsFlat(flat, seqs, S),
         NEW m \in 0 .. Len(seqs) - 1
  PROVE  /\ m + 1 \in 1 .. Len(seqs) /\ m \in Nat
         /\ seqs[m + 1] \in Seq(S) /\ flat[m] \in Seq(S) /\ flat[m + 1] \in Seq(S)
         /\ flat[m + 1] = flat[m] \o seqs[m + 1]
         /\ m = 0 => flat[m + 1] = seqs[m + 1]
<1>. DEFINE k == m + 1
<1>1. k \in 1 .. Len(seqs) /\ m \in 0 .. Len(seqs) /\ k \in 0 .. Len(seqs) /\ m \in Nat
  OBVIOUS
<1>2. k - 1 = m
  BY <1>1
<1>3. seqs[k] \in Seq(S)
  BY <1>1
<1>. HIDE DEF k
<1>4. flat[k] = flat[m] \o seqs[k] /\ flat[m] \in Seq(S) /\ flat[k] \in Seq(S)
  BY <1>1, <1>2 DEF IsFlat
<1>5. ASSUME m = 0
      PROVE  flat[k] = seqs[k]
  <2>1. flat[k] = <<>> \o seqs[k]
    BY <1>4, <1>5 DEF IsFlat
  <2>. QED BY <1>3, <2>1, ConcatEmptySeq
<1>. QED BY <1>1, <1>3, <1>4, <1>5 DEF k

(* FlattenSeq is what is before the end.                                     *)
LEMMA FlattenIs ==
  ASSUME NEW S, NEW seqs \in Seq(Seq(S)), NEW flat, IsFlat(flat, seqs, S)
  PROVE  SE!FlattenSeq(seqs) = flat[Len(seqs)]
<1>. DEFINE n == Len(seqs)
            flatten == CHOOSE f : f = [i \in 1 .. n |->
                                         IF i = 1 THEN seqs[i] ELSE f[i - 1] \o seqs[i]]
<1>1. n \in Nat /\ \A k \in 1 .. n : seqs[k] \in Seq(S)
  OBVIOUS
<1>2. CASE n = 0
  BY <1>2 DEF IsFlat, SE!FlattenSeq
<1>3. CASE n # 0
  <2>. DEFINE g == [i \in 1 .. n |-> flat[i]]
  <2>1. ASSUME NEW i \in 1 .. n
        PROVE  g[i] = IF i = 1 THEN seqs[i] ELSE g[i - 1] \o seqs[i]
    <3>1. CASE i = 1
      <4>1. 0 \in 0 .. n - 1 /\ 0 + 1 = 1
        BY <1>1, <1>3
      <4>2. flat[0 + 1] = seqs[0 + 1]
        <5>. HIDE DEF n, g, flatten
        <5>. QED BY <4>1, FlatNext, ZenonT(30) DEF n
      <4>3. flat[1] = seqs[1]
        BY <4>1, <4>2
      <4>. QED BY <3>1, <4>3
    <3>2. CASE i # 1
      <4>1. i - 1 \in 1 .. n
        BY <1>1, <3>2
      <4>. QED BY <3>2, <4>1 DEF IsFlat
    <3>. QED BY <3>1, <3>2
  <2>2. g = [i \in 1 .. n |-> IF i = 1 THEN seqs[i] ELSE g[i - 1] \o seqs[i]]
    <3>1. g = [i \in 1 .. n |-> g[i]]
      OBVIOUS
    <3>. HIDE DEF g
    <3>. QED BY <2>1, <3>1
  <2>3. flatten = [i \in 1 .. n |-> IF i = 1 THEN seqs[i] ELSE flatten[i - 1] \o seqs[i]]
    <3>. HIDE DEF g, n
    <3>. QED BY <2>2, Zenon
  <2>4. SE!FlattenSeq(seqs) = flatten[n]
    <3>1. n # 0
      BY <1>3
    <3>. QED BY <3>1, Zenon DEF SE!FlattenSeq
  <2>. HIDE DEF flatten, g
  <2>. DEFINE Same == {i \in 0 .. n : i > 0 => flatten[i] = flat[i]}
  <2>5. 0 \in Same
    BY <1>1
  <2>6. ASSUME NEW m \in 0 .. n - 1, m \in Same
        PROVE  m + 1 \in Same
    <3>. DEFINE k == m + 1
    <3>0. /\ k \in 1 .. n /\ m \in Nat /\ flat[k] = flat[m] \o seqs[k]
          /\ m = 0 => flat[k] = seqs[k]
      BY FlatNext, ZenonT(30)
    <3>1. k - 1 = m /\ k \in 0 .. n /\ k > 0
      <4>1. m \in Nat /\ n \in Nat /\ m < n
        BY <1>1, <3>0
      <4>. HIDE DEF n
      <4>. QED BY <4>1
    <3>2. flatten[k] = IF k = 1 THEN seqs[k] ELSE flatten[m] \o seqs[k]
      <4>. HIDE DEF k
      <4>. QED BY <2>3, <3>0, <3>1
    <3>3. k = 1 <=> m = 0
      BY <3>0
    <3>4. flatten[k] = flat[k]
      <4>1. m # 0 => flatten[m] = flat[m]
        BY <2>6, <3>0
      <4>. HIDE DEF k, Same
      <4>. QED BY <3>0, <3>2, <3>3, <4>1
    <3>5. k \in Same
      <4>. HIDE DEF k
      <4>. QED BY <3>1, <3>4
    <3>. QED BY <3>5
  <2>7. 0 .. n \subseteq Same
    <3>. HIDE DEF Same
    <3>. QED BY <1>1, <2>5, <2>6, CountsTo
  <2>. QED BY <1>1, <1>3, <2>4, <2>7, SMTT(30)
<1>. QED BY <1>2, <1>3

(* What is before a sequence begins what is before any later one.            *)
LEMMA FlatGrows ==
  ASSUME NEW S, NEW seqs \in Seq(Seq(S)), NEW flat, IsFlat(flat, seqs, S),
         NEW k \in 0 .. Len(seqs), NEW l \in k .. Len(seqs)
  PROVE  /\ flat[k] \in Seq(S) /\ flat[l] \in Seq(S)
         /\ Len(flat[k]) <= Len(flat[l])
         /\ \A i \in 1 .. Len(flat[k]) : flat[l][i] = flat[k][i]
<1>. DEFINE n == Len(seqs)
            Begins(m) == /\ Len(flat[k]) <= Len(flat[m])
                         /\ \A i \in 1 .. Len(flat[k]) : flat[m][i] = flat[k][i]
            T == {m \in 0 .. n : k <= m => Begins(m)}
<1>1. n \in Nat /\ k \in 0 .. n /\ l \in 0 .. n /\ k <= l
  OBVIOUS
<1>2. \A m \in 0 .. n : flat[m] \in Seq(S)
  BY DEF IsFlat
<1>3. Begins(k)
  BY <1>1, <1>2
<1>4. 0 \in T
  BY <1>1, <1>3
<1>5. ASSUME NEW m \in 0 .. n - 1, m \in T
      PROVE  m + 1 \in T
  <2>1. /\ m + 1 \in 0 .. n /\ m \in Nat /\ seqs[m + 1] \in Seq(S)
        /\ flat[m] \in Seq(S)
        /\ Len(flat[m + 1]) = Len(flat[m]) + Len(seqs[m + 1])
        /\ \A i \in 1 .. Len(flat[m]) : flat[m + 1][i] = flat[m][i]
    <3>. DEFINE x == flat[m]
                y == seqs[m + 1]
                z == flat[m + 1]
    <3>1. m + 1 \in 0 .. n /\ m \in Nat
      BY <1>1
    <3>2. y \in Seq(S) /\ x \in Seq(S) /\ z = x \o y
      BY <3>1, FlatNext
    <3>. HIDE DEF x, y, z, T, n
    <3>3. Len(z) = Len(x) + Len(y) /\ \A i \in 1 .. Len(x) : z[i] = x[i]
      BY <3>2, ConcatIs
    <3>. QED BY <3>1, <3>2, <3>3 DEF x, y, z
  <2>2. CASE k <= m
    <3>1. Begins(m)
      BY <1>5, <2>2
    <3>2. /\ Len(flat[m + 1]) = Len(flat[m]) + Len(seqs[m + 1])
          /\ \A i \in 1 .. Len(flat[m]) : flat[m + 1][i] = flat[m][i]
      BY <2>1
    <3>3. Len(flat[k]) \in Nat /\ Len(flat[m]) \in Nat /\ Len(seqs[m + 1]) \in Nat
      BY <1>1, <1>2, <2>1
    <3>4. Begins(m + 1)
      <4>1. Len(flat[k]) <= Len(flat[m + 1])
        <5>1. \A x, y, z \in Nat : x <= y => x <= y + z
          OBVIOUS
        <5>. QED BY <3>1, <3>2, <3>3, <5>1
      <4>2. ASSUME NEW i \in 1 .. Len(flat[k])
            PROVE  flat[m + 1][i] = flat[k][i]
        <5>1. i \in 1 .. Len(flat[m])
          BY <3>1, <3>3
        <5>. QED BY <3>1, <3>2, <5>1
      <4>. QED BY <4>1, <4>2
    <3>. HIDE DEF Begins
    <3>. QED BY <2>1, <3>4
  <2>3. CASE k = m + 1
    <3>. HIDE DEF Begins
    <3>. QED BY <1>3, <2>1, <2>3
  <2>4. CASE k > m + 1
    BY <2>1, <2>4
  <2>5. k \in Nat /\ m \in Nat
    BY <1>1, <2>1
  <2>6. k <= m \/ k = m + 1 \/ k > m + 1
    BY <2>5
  <2>. HIDE DEF T
  <2>. QED BY <2>2, <2>3, <2>4, <2>6
<1>6. 0 .. n \subseteq T
  <2>. HIDE DEF T
  <2>. QED BY <1>1, <1>4, <1>5, CountsTo
<1>7. Begins(l)
  <2>. HIDE DEF Begins
  <2>. QED BY <1>1, <1>6
<1>. QED BY <1>1, <1>2, <1>7

(* An element of one of the sequences, by its place in all of them.          *)
LEMMA FlatHas ==
  ASSUME NEW S, NEW seqs \in Seq(Seq(S)), NEW flat, IsFlat(flat, seqs, S),
         NEW k \in 0 .. Len(seqs) - 1, NEW i \in 1 .. Len(seqs[k + 1])
  PROVE  /\ Len(flat[k]) + i <= Len(flat[Len(seqs)])
         /\ flat[Len(seqs)][Len(flat[k]) + i] = seqs[k + 1][i]
<1>. DEFINE n == Len(seqs)
            all == flat[n]
            next == flat[k + 1]
            before == flat[k]
            seq == seqs[k + 1]
<1>1. /\ k + 1 \in 1 .. n /\ seq \in Seq(S) /\ before \in Seq(S) /\ next = before \o seq
  BY FlatNext
<1>2. k + 1 \in 0 .. n /\ n \in k + 1 .. n
  BY <1>1
<1>3. Len(next) <= Len(all) /\ \A j \in 1 .. Len(next) : all[j] = next[j]
  <2>1. PICK p, l : p = k + 1 /\ l = n
    OBVIOUS
  <2>2. p \in 0 .. n /\ l \in p .. n
    BY <1>2, <2>1
  <2>3. Len(flat[p]) <= Len(flat[l]) /\ \A j \in 1 .. Len(flat[p]) : flat[l][j] = flat[p][j]
    BY <2>2, FlatGrows, SMTT(30)
  <2>. QED BY <2>1, <2>3
<1>4. all \in Seq(S)
  BY <1>2, FlatGrows
<1>. HIDE DEF all, next, before, seq, n
<1>5. Len(before) + i \in 1 .. Len(next) /\ next[Len(before) + i] = seq[i]
  BY <1>1, ConcatIs, SMTT(30) DEF seq
<1>. DEFINE j == Len(before) + i
<1>6. j <= Len(all) /\ all[j] = seq[i]
  <2>1. j \in 1 .. Len(next) /\ next[j] = seq[i] /\ Len(all) \in Nat /\ Len(next) \in Nat
    BY <1>1, <1>4, <1>5
  <2>. HIDE DEF j
  <2>. QED BY <1>3, <2>1
<1>. QED BY <1>6 DEF all, next, before, seq, n

(* Empty sequences are skipped.                                             *)
LEMMA FlatSkips ==
  ASSUME NEW S, NEW seqs \in Seq(Seq(S)), NEW flat, IsFlat(flat, seqs, S),
         NEW k \in 0 .. Len(seqs), NEW l \in k .. Len(seqs)
  PROVE  (\A j \in k .. l - 1 : seqs[j + 1] = <<>>) => flat[l] = flat[k]
<1>0. ASSUME NEW m \in 0 .. Len(seqs) - 1
      PROVE  flat[m] \in Seq(S) /\ flat[m + 1] = flat[m] \o seqs[m + 1]
  BY FlatNext
<1>. HAVE \A j \in k .. l - 1 : seqs[j + 1] = <<>>
<1>. DEFINE n == Len(seqs)
            T == {m \in 0 .. n : k <= m /\ m <= l => flat[m] = flat[k]}
<1>1. n \in Nat /\ k \in 0 .. n /\ l \in 0 .. n /\ k <= l /\ l \in Nat
  OBVIOUS
<1>2. 0 \in T
  BY <1>1
<1>3. ASSUME NEW m \in 0 .. n - 1, m \in T
      PROVE  m + 1 \in T
  <2>1. m + 1 \in 0 .. n /\ m \in Nat
    BY <1>1
  <2>2. flat[m] \in Seq(S) /\ flat[m + 1] = flat[m] \o seqs[m + 1]
    BY <1>0
  <2>3. CASE k <= m /\ m + 1 <= l
    <3>1. seqs[m + 1] = <<>> /\ flat[m] = flat[k]
      BY <1>1, <1>3, <2>1, <2>3
    <3>2. flat[m + 1] = flat[m]
      BY <2>2, <3>1, ConcatEmptySeq
    <3>. QED BY <2>1, <3>1, <3>2
  <2>4. CASE k = m + 1
    BY <2>1, <2>4
  <2>5. CASE k > m + 1 \/ m + 1 > l
    BY <2>1, <2>5
  <2>. QED BY <1>1, <2>1, <2>3, <2>4, <2>5
<1>4. 0 .. n \subseteq T
  <2>. HIDE DEF T
  <2>. QED BY <1>1, <1>2, <1>3, CountsTo
<1>. QED BY <1>1, <1>4

LEMMA FlatEnds ==
  ASSUME NEW S, NEW seqs \in Seq(Seq(S)), NEW flat, IsFlat(flat, seqs, S),
         NEW k \in 0 .. Len(seqs) - 1
  PROVE  Len(flat[k + 1]) = Len(flat[k]) + Len(seqs[k + 1])
<1>. DEFINE a == flat[k]
            b == seqs[k + 1]
            c == flat[k + 1]
<1>1. a \in Seq(S) /\ b \in Seq(S) /\ c = a \o b
  BY FlatNext
<1>. HIDE DEF a, b, c
<1>2. Len(c) = Len(a) + Len(b)
  BY <1>1, ConcatIs
<1>. QED BY <1>2 DEF a, b, c

-----------------------------------------------------------------------------
Byte == 0 .. Base - 1
Items == Byte \cup {EndOfInput}

(* What the chunks give a reader, and all of it before each one.            *)
Pieces ==
  IF device.kind \in Streams
  THEN [k \in DOMAIN device.data |-> Append(device.data[k], EndOfInput)]
  ELSE device.data
Before == CHOOSE flat : IsFlat(flat, Pieces, Items)

(* What the program has got or has peeked at, and how far the device has     *)
(* come in the script.                                                     *)
Got == IF last = NoByte THEN received ELSE Append(received, last)
Position ==
  IF device.kind = "void" THEN 0
  ELSE Len(Before[device.buffer_index]) + device.byte_index

DeviceTyped ==
  /\ device \in [kind : DeviceKinds, data : Seq(Seq(Byte)),
                 buffer_index : Nat, byte_index : Nat]
  /\ device.buffer_index <= Len(device.data)
  /\ IF device.buffer_index = Len(device.data) THEN device.byte_index = 0
     ELSE device.byte_index <= Len(Chunk(device.buffer_index))
  /\ device.kind = "fixed" => Len(device.data) = 1 /\ device.buffer_index = 0

ProgramTyped ==
  /\ last \in {NoByte} \cup Items
  /\ received \in Seq(Items)

(* The program has got as many items as the device has passed; or the        *)
(* device is at the end, whose ends of input come without moving it.        *)
Follows ==
  \/ Len(Got) = Position
  \/ Position = Len(Script) /\ Len(Got) >= Len(Script)

LEMMA StandsIs ==
  ASSUME DeviceTyped, NEW k \in Nat, NEW i \in Nat, Stands(k, i)
  PROVE  /\ device' \in [kind : DeviceKinds, data : Seq(Seq(Byte)),
                         buffer_index : Nat, byte_index : Nat]
         /\ device'.kind = device.kind /\ device'.data = device.data
         /\ device'.buffer_index = k /\ device'.byte_index = i
BY DEF DeviceTyped, Stands

LEMMA PiecesAre ==
  ASSUME DeviceTyped
  PROVE  /\ Pieces \in Seq(Seq(Items)) /\ Len(Pieces) = Len(device.data)
         /\ \A k \in 1 .. Len(device.data) :
              /\ device.data[k] \in Seq(Byte)
              /\ device.kind \notin Streams => Pieces[k] = device.data[k]
              /\ device.kind \in Streams => Pieces[k] = Append(device.data[k], EndOfInput)
<1>. DEFINE data == device.data
<1>1. data \in Seq(Seq(Byte)) /\ Len(data) \in Nat /\ DOMAIN data = 1 .. Len(data)
  BY DEF DeviceTyped
<1>2. \A k \in 1 .. Len(data) : data[k] \in Seq(Byte)
  BY <1>1
<1>3. \A s \in Seq(Byte) : s \in Seq(Items) /\ Append(s, EndOfInput) \in Seq(Items)
  BY DEF Items
<1>. HIDE DEF data
<1>4. CASE device.kind \in Streams
  <2>1. Pieces = [k \in 1 .. Len(data) |-> Append(data[k], EndOfInput)]
    BY <1>1, <1>4 DEF Pieces, data
  <2>. DEFINE append(k) == Append(data[k], EndOfInput)
  <2>2. \A k \in 1 .. Len(data) : append(k) \in Seq(Items)
    BY <1>2, <1>3
  <2>3. Pieces = [k \in 1 .. Len(data) |-> append(k)]
    BY <2>1
  <2>. HIDE DEF append
  <2>4. Pieces \in Seq(Seq(Items)) /\ Len(Pieces) = Len(data)
        /\ \A k \in 1 .. Len(data) : Pieces[k] = append(k)
    BY <1>1, <2>2, <2>3
  <2>. QED BY <1>2, <1>4, <2>4 DEF append, data
<1>5. CASE device.kind \notin Streams
  <2>1. Pieces = data
    BY <1>5 DEF Pieces, data
  <2>2. data \in Seq(Seq(Items))
    BY <1>1, <1>2, <1>3
  <2>. QED BY <1>2, <1>5, <2>1, <2>2 DEF data
<1>. QED BY <1>4, <1>5

LEMMA BeforeIs ==
  ASSUME DeviceTyped
  PROVE  IsFlat(Before, Pieces, Items)
<1>1. \E flat : IsFlat(flat, Pieces, Items)
  BY PiecesAre, FlatExists
<1>. QED BY <1>1, Zenon DEF Before

LEMMA ScriptIs ==
  ASSUME DeviceTyped, device.kind # "void"
  PROVE  Script = Before[Len(device.data)]
<1>1. SE!FlattenSeq(Pieces) = Before[Len(Pieces)]
  BY PiecesAre, BeforeIs, FlattenIs
<1>2. Script = SE!FlattenSeq(Pieces)
  <2>1. "void" \notin Streams
    BY DEF Streams
  <2>. QED BY <2>1 DEF Script, Pieces
<1>. QED BY <1>1, <1>2, PiecesAre

LEMMA SameDevice ==
  ASSUME device'.kind = device.kind, device'.data = device.data
  PROVE  Pieces' = Pieces /\ Before' = Before /\ Script' = Script
BY DEF Pieces, Before, Script

(* Where the device comes to stand is as far in the script.                  *)
LEMMA StandsAt ==
  ASSUME DeviceTyped, device.kind # "void", NEW k \in Nat, NEW i \in Nat, Stands(k, i)
  PROVE  /\ Position' = Len(Before[k]) + i /\ Script' = Script
         /\ device'.kind = device.kind /\ device'.data = device.data
<1>1. /\ device'.kind = device.kind /\ device'.data = device.data
      /\ device'.buffer_index = k /\ device'.byte_index = i
  BY StandsIs
<1>2. Before' = Before /\ Script' = Script
  BY <1>1, SameDevice
<1>. QED BY <1>1, <1>2 DEF Position

(* It stands there well when a byte has been passed, ...                    *)
LEMMA StandsTyped ==
  ASSUME DeviceTyped, NEW k \in 0 .. Len(device.data), NEW i \in Nat, Stands(k, i),
         IF k = Len(device.data) THEN i = 0 ELSE i <= Len(Chunk(k)),
         device.kind = "fixed" => k = 0
  PROVE  DeviceTyped'
<1>1. Len(device.data) \in Nat /\ k \in Nat
  BY DEF DeviceTyped
<1>2. /\ device' \in [kind : DeviceKinds, data : Seq(Seq(Byte)),
                      buffer_index : Nat, byte_index : Nat]
      /\ device'.kind = device.kind /\ device'.data = device.data
      /\ device'.buffer_index = k /\ device'.byte_index = i
  BY <1>1, StandsIs
<1>. QED BY <1>1, <1>2 DEF DeviceTyped, Chunk

(* ... and the script has there what the chunk has.                          *)
LEMMA ScriptHas ==
  ASSUME DeviceTyped, device.kind # "void", NEW k \in 0 .. Len(device.data) - 1,
         NEW i \in 1 .. Len(Pieces[k + 1])
  PROVE  /\ Len(Before[k]) + i <= Len(Script)
         /\ Script[Len(Before[k]) + i] = Pieces[k + 1][i]
<1>1. /\ Pieces \in Seq(Seq(Items)) /\ Len(Pieces) = Len(device.data)
      /\ IsFlat(Before, Pieces, Items) /\ Script = Before[Len(Pieces)]
  BY PiecesAre, BeforeIs, ScriptIs
<1>2. k \in 0 .. Len(Pieces) - 1
  BY <1>1
<1>. QED BY <1>1, <1>2, FlatHas, SMTT(30)

LEMMA ScriptGoesOn ==
  ASSUME DeviceTyped, NEW k \in 0 .. Len(device.data) - 1
  PROVE  Len(Before[k + 1]) = Len(Before[k]) + Len(Pieces[k + 1])
<1>1. /\ Pieces \in Seq(Seq(Items)) /\ Len(Pieces) = Len(device.data)
      /\ IsFlat(Before, Pieces, Items)
  BY PiecesAre, BeforeIs
<1>2. k \in 0 .. Len(Pieces) - 1
  BY <1>1
<1>. QED BY <1>1, <1>2, FlatEnds

LEMMA ScriptSkips ==
  ASSUME DeviceTyped, NEW k \in 0 .. Len(device.data), NEW l \in k .. Len(device.data),
         \A j \in k .. l - 1 : Pieces[j + 1] = <<>>
  PROVE  Before[l] = Before[k]
<1>1. /\ Pieces \in Seq(Seq(Items)) /\ Len(Pieces) = Len(device.data)
      /\ IsFlat(Before, Pieces, Items)
  BY PiecesAre, BeforeIs
<1>2. k \in 0 .. Len(Pieces) /\ l \in k .. Len(Pieces)
  BY <1>1
<1>. QED BY <1>1, <1>2, FlatSkips

LEMMA BeforeLengths ==
  ASSUME DeviceTyped, NEW k \in 0 .. Len(device.data)
  PROVE  Len(Before[k]) \in Nat
<1>1. Len(Pieces) = Len(device.data) /\ IsFlat(Before, Pieces, Items)
  BY PiecesAre, BeforeIs
<1>2. Before[k] \in Seq(Items)
  BY <1>1 DEF IsFlat
<1>. QED BY <1>2

-----------------------------------------------------------------------------
(* What a read may do: pass the next item of the script, or find the end.    *)
Passes(r) ==
  /\ Position < Len(Script)
  /\ r = Script[Position + 1]
  /\ Position' = Position + 1
Finds(r) ==
  /\ Position = Len(Script)
  /\ r = EndOfInput
  /\ Position' = Position
Goes(r) ==
  /\ DeviceTyped'
  /\ Script' = Script /\ device'.kind = device.kind
  /\ Passes(r) \/ Finds(r)

(* A byte of chunk k, when the script is at it.                             *)
LEMMA BytePasses ==
  ASSUME DeviceTyped, device.kind # "void",
         NEW k \in 0 .. Len(device.data), NEW i \in Nat, HasByte(k, i),
         Stands(k, i + 1), Position = Len(Before[k]) + i,
         device.kind = "fixed" => k = 0
  PROVE  Goes(Chunk(k)[i + 1]) /\ Chunk(k)[i + 1] \in Byte
<1>1. /\ Len(device.data) \in Nat /\ k \in 0 .. Len(device.data) - 1 /\ k + 1 \in 1 .. Len(device.data)
      /\ k \in Nat /\ i < Len(Chunk(k))
  BY DEF DeviceTyped, HasByte
<1>2. /\ Chunk(k) \in Seq(Byte)
      /\ Pieces[k + 1] = Chunk(k) \/ Pieces[k + 1] = Append(Chunk(k), EndOfInput)
  BY <1>1, PiecesAre DEF Chunk
<1>. DEFINE piece == Pieces[k + 1]
            chunk == Chunk(k)
            n == i + 1
<1>3. /\ Len(chunk) \in Nat /\ n \in 1 .. Len(chunk) /\ n \in 1 .. Len(piece)
      /\ piece[n] = chunk[n] /\ chunk[n] \in Byte
  <2>1. n \in 1 .. Len(chunk) /\ chunk \in Seq(Byte) /\ n \in Nat
    BY <1>1, <1>2
  <2>. HIDE DEF n, piece, chunk
  <2>2. piece = chunk \/ piece = Append(chunk, EndOfInput)
    BY <1>2 DEF piece, chunk
  <2>. QED BY <2>1, <2>2
<1>. HIDE DEF piece, chunk, n
<1>4. Len(Before[k]) + n <= Len(Script) /\ Script[Len(Before[k]) + n] = chunk[n]
  BY <1>1, <1>3, ScriptHas DEF piece
<1>5. Len(Before[k]) \in Nat
  BY BeforeLengths
<1>6. Position' = Len(Before[k]) + n /\ Script' = Script /\ device'.kind = device.kind
  <2>1. n \in Nat /\ Stands(k, n)
    BY DEF n
  <2>. QED BY <1>1, <2>1, StandsAt
<1>7. DeviceTyped'
  <2>1. n \in Nat /\ (IF k = Len(device.data) THEN n = 0 ELSE n <= Len(Chunk(k)))
    BY <1>1, <1>3 DEF chunk
  <2>. QED BY <2>1, StandsTyped DEF n
<1>8. Passes(chunk[n])
  <2>. DEFINE b == Len(Before[k])
              p == Position
  <2>0. p = b + i /\ b \in Nat /\ n = i + 1
    BY <1>5 DEF n
  <2>2. Len(Script) \in Nat
    <3>1. Len(device.data) \in 0 .. Len(device.data)
      BY <1>1
    <3>. QED BY <3>1, ScriptIs, BeforeLengths
  <2>3. b + n <= Len(Script) /\ Script[b + n] = chunk[n] /\ Position' = b + n
    BY <1>4, <1>6
  <2>. HIDE DEF b, p
  <2>1. p + 1 = b + n
    BY <2>0
  <2>4. p < Len(Script) /\ Script[p + 1] = chunk[n] /\ Position' = p + 1
    BY <2>0, <2>1, <2>2, <2>3
  <2>. QED BY <2>4 DEF Passes, p
<1>. QED BY <1>3, <1>6, <1>7, <1>8 DEF Goes, chunk, n

LEMMA AtEnd ==
  ASSUME DeviceTyped, device.kind # "void", device.buffer_index = Len(device.data)
  PROVE  Position = Len(Script)
<1>1. Len(device.data) \in Nat /\ device.byte_index = 0
  BY DEF DeviceTyped
<1>2. Len(Before[Len(device.data)]) \in Nat
  <2>1. Len(device.data) \in 0 .. Len(device.data)
    BY <1>1
  <2>. QED BY <2>1, BeforeLengths
<1>. QED BY <1>1, <1>2, ScriptIs DEF Position

LEMMA Unmoved ==
  ASSUME DeviceTyped, UNCHANGED device
  PROVE  DeviceTyped' /\ Position' = Position /\ Script' = Script
<1>1. Before' = Before /\ Script' = Script
  BY SameDevice
<1>. QED BY <1>1 DEF DeviceTyped, Position, Chunk

(* Where the device stands: in a chunk, at its end, or behind the last one.  *)
LEMMA Standing ==
  ASSUME DeviceTyped, device.kind # "void"
  PROVE  LET k == device.buffer_index
             i == device.byte_index
         IN /\ k \in Nat /\ i \in Nat /\ Len(device.data) \in Nat
            /\ k \in 0 .. Len(device.data) /\ Position = Len(Before[k]) + i
            /\ device.kind = "fixed" => k = 0 /\ Len(device.data) = 1
            /\ ~HasByte(k, i) /\ k < Len(device.data) =>
                 /\ k \in 0 .. Len(device.data) - 1 /\ k + 1 \in 0 .. Len(device.data)
                 /\ Chunk(k) \in Seq(Byte)
                 /\ i = Len(Chunk(k))
                 /\ device.kind \notin Streams => Pieces[k + 1] = Chunk(k)
                 /\ device.kind \in Streams => Pieces[k + 1] = Append(Chunk(k), EndOfInput)
<1>. DEFINE k == device.buffer_index
            i == device.byte_index
<1>1. /\ k \in Nat /\ i \in Nat /\ Len(device.data) \in Nat
      /\ k \in 0 .. Len(device.data) /\ Position = Len(Before[k]) + i
      /\ device.kind = "fixed" => k = 0 /\ Len(device.data) = 1
  BY DEF DeviceTyped, Position
<1>2. ASSUME ~HasByte(k, i), k < Len(device.data)
      PROVE  /\ k \in 0 .. Len(device.data) - 1 /\ k + 1 \in 0 .. Len(device.data)
             /\ Chunk(k) \in Seq(Byte)
             /\ i = Len(Chunk(k))
             /\ device.kind \notin Streams => Pieces[k + 1] = Chunk(k)
             /\ device.kind \in Streams => Pieces[k + 1] = Append(Chunk(k), EndOfInput)
  <2>1. k + 1 \in 1 .. Len(device.data)
    BY <1>1, <1>2
  <2>2. /\ Chunk(k) \in Seq(Byte)
        /\ device.kind \notin Streams => Pieces[k + 1] = Chunk(k)
        /\ device.kind \in Streams => Pieces[k + 1] = Append(Chunk(k), EndOfInput)
    BY <2>1, PiecesAre DEF Chunk
  <2>3. i <= Len(Chunk(k)) /\ ~(i < Len(Chunk(k)))
    BY <1>1, <1>2 DEF DeviceTyped, HasByte
  <2>4. Len(Chunk(k)) \in Nat
    BY <2>2
  <2>. QED BY <1>1, <1>2, <2>1, <2>2, <2>3, <2>4
<1>. QED BY <1>1, <1>2

LEMMA FixedReads ==
  ASSUME DeviceTyped, NEW a, ReadFixed(a)
  PROVE  \/ a = NoByte /\ Goes(EndOfInput)
         \/ a \in Byte /\ Goes(a)
<1>. DEFINE i == device.byte_index
<1>1. device.kind = "fixed" /\ device.kind # "void" /\ device.kind \notin Streams
  BY DEF ReadFixed, Streams
<1>2. /\ device.buffer_index = 0 /\ Len(device.data) = 1 /\ i \in Nat
      /\ Position = Len(Before[0]) + i
      /\ ~HasByte(0, i) => /\ 0 \in 0 .. Len(device.data) - 1
                           /\ i = Len(Pieces[0 + 1])
  <2>. DEFINE k == device.buffer_index
  <2>1. /\ k = 0 /\ Len(device.data) = 1 /\ i \in Nat /\ Position = Len(Before[k]) + i
        /\ ~HasByte(k, i) /\ k < Len(device.data) =>
             k \in 0 .. Len(device.data) - 1 /\ i = Len(Pieces[k + 1])
    BY <1>1, Standing
  <2>. HIDE DEF k, i
  <2>. QED BY <2>1 DEF k
<1>3. CASE HasByte(0, i)
  <2>1. a = Chunk(0)[i + 1] /\ Stands(0, i + 1)
    BY <1>3 DEF ReadFixed
  <2>2. 0 \in 0 .. Len(device.data)
    BY <1>2
  <2>. QED BY <1>1, <1>2, <1>3, <2>1, <2>2, BytePasses
<1>4. CASE ~HasByte(0, i)
  <2>1. a = NoByte /\ UNCHANGED device
    BY <1>4 DEF ReadFixed
  <2>2. Len(Before[0 + 1]) = Len(Before[0]) + Len(Pieces[0 + 1])
    BY <1>2, <1>4, ScriptGoesOn
  <2>3. Script = Before[0 + 1]
    BY <1>1, <1>2, ScriptIs
  <2>4. Position = Len(Script)
    BY <1>2, <1>4, <2>2, <2>3
  <2>. QED BY <2>1, <2>4, Unmoved DEF Goes, Finds
<1>. QED BY <1>3, <1>4

LEMMA KernelGives ==
  ASSUME DeviceTyped, device.kind \in Streams, NEW a, KernelReads(a)
  PROVE  \/ a = Failure /\ UNCHANGED device
         \/ a = NoByte /\ Goes(EndOfInput)
         \/ a \in Byte /\ Goes(a)
<1>. DEFINE k == device.buffer_index
            i == device.byte_index
<1>1. device.kind # "fixed" /\ device.kind # "void"
  BY DEF Streams
<1>2. /\ k \in Nat /\ i \in Nat /\ Len(device.data) \in Nat
      /\ k \in 0 .. Len(device.data) /\ Position = Len(Before[k]) + i
      /\ ~HasByte(k, i) /\ k < Len(device.data) =>
           /\ k \in 0 .. Len(device.data) - 1 /\ k + 1 \in 0 .. Len(device.data)
           /\ Chunk(k) \in Seq(Byte) /\ i = Len(Chunk(k))
           /\ Pieces[k + 1] = Append(Chunk(k), EndOfInput)
  BY <1>1, Standing
<1>3. CASE a = Failure /\ UNCHANGED device
  BY <1>3
<1>4. CASE HasByte(k, i) /\ a = Chunk(k)[i + 1] /\ Stands(k, i + 1)
  BY <1>1, <1>2, <1>4, BytePasses
<1>5. CASE ~HasByte(k, i) /\ a = NoByte /\ k < Len(device.data) /\ Stands(k + 1, 0)
  <2>. DEFINE piece == Pieces[k + 1]
              b == Len(Before[k])
              m == k + 1
  <2>1. /\ Len(piece) = i + 1 /\ i + 1 \in 1 .. Len(piece) /\ piece[i + 1] = EndOfInput
    BY <1>2, <1>5, SMTT(30)
  <2>2. b + (i + 1) <= Len(Script) /\ Script[b + (i + 1)] = EndOfInput
    BY <1>1, <1>2, <1>5, <2>1, ScriptHas
  <2>3. Len(Before[m]) = b + (i + 1)
    BY <1>2, <1>5, <2>1, ScriptGoesOn
  <2>4. m \in Nat /\ m \in 0 .. Len(device.data) /\ Stands(m, 0)
    BY <1>2, <1>5
  <2>5. Position' = Len(Before[m]) + 0 /\ Script' = Script /\ device'.kind = device.kind
    <3>. HIDE DEF m
    <3>. QED BY <1>1, <2>4, StandsAt
  <2>6. DeviceTyped'
    <3>1. IF m = Len(device.data) THEN 0 = 0 ELSE 0 <= Len(Chunk(m))
      <4>1. ASSUME m # Len(device.data)
            PROVE  Len(Chunk(m)) \in Nat
        <5>1. m + 1 \in 1 .. Len(device.data)
          BY <1>2, <2>4, <4>1
        <5>. QED BY <5>1, PiecesAre DEF Chunk
      <4>. HIDE DEF m
      <4>. QED BY <4>1
    <3>. HIDE DEF m
    <3>. QED BY <1>1, <2>4, <3>1, StandsTyped
  <2>7. Passes(EndOfInput)
    <3>. DEFINE p == Position
    <3>1. p = b + i /\ b \in Nat /\ Position' = b + (i + 1) + 0
      BY <1>2, <2>3, <2>5, BeforeLengths
    <3>2. Len(Script) \in Nat
      <4>1. Len(device.data) \in 0 .. Len(device.data)
        BY <1>2
      <4>. QED BY <1>1, <4>1, ScriptIs, BeforeLengths
    <3>. HIDE DEF b, p
    <3>3. p + 1 = b + (i + 1) /\ Position' = p + 1
      BY <1>2, <3>1, SMTT(30)
    <3>4. p < Len(Script) /\ Script[p + 1] = EndOfInput
      BY <1>2, <2>2, <3>1, <3>2, <3>3, SMTT(30)
    <3>. QED BY <3>3, <3>4 DEF Passes, p
  <2>. QED BY <1>5, <2>5, <2>6, <2>7 DEF Goes
<1>6. CASE ~HasByte(k, i) /\ a = NoByte /\ ~(k < Len(device.data)) /\ UNCHANGED device
  <2>1. k = Len(device.data)
    BY <1>2, <1>6
  <2>. QED BY <1>1, <1>6, <2>1, AtEnd, Unmoved DEF Goes, Finds
<1>. QED BY <1>3, <1>4, <1>5, <1>6 DEF KernelReads

(* Behind chunks without a next byte the script has not gone on.             *)
LEMMA Exhausted ==
  ASSUME DeviceTyped, device.kind = "buffer",
         NEW l \in device.buffer_index + 1 .. Len(device.data),
         \A j \in device.buffer_index .. l - 1 : j \notin Chunks
  PROVE  Position = Len(Before[l])
<1>. DEFINE k == device.buffer_index
            i == device.byte_index
            next == k + 1
<1>1. device.kind # "void" /\ device.kind \notin Streams
  BY DEF Streams
<1>2. /\ k \in Nat /\ i \in Nat /\ Len(device.data) \in Nat
      /\ k \in 0 .. Len(device.data) /\ Position = Len(Before[k]) + i
      /\ ~HasByte(k, i) /\ k < Len(device.data) =>
           k \in 0 .. Len(device.data) - 1 /\ i = Len(Pieces[k + 1])
  BY <1>1, Standing
<1>3. k < Len(device.data) /\ ~HasByte(k, i)
  <2>1. k \in k .. l - 1 /\ k \in 0 .. Len(device.data) /\ k < Len(device.data)
    BY <1>2
  <2>2. k \notin Chunks
    BY <2>1
  <2>. QED BY <2>1, <2>2 DEF Chunks
<1>4. Position = Len(Before[next])
  BY <1>2, <1>3, ScriptGoesOn
<1>5. next \in 0 .. Len(device.data) /\ l \in next .. Len(device.data)
  BY <1>2
<1>6. ASSUME NEW j \in next .. l - 1
      PROVE  Pieces[j + 1] = <<>>
  <2>1. /\ j \in k .. l - 1 /\ j \in 0 .. Len(device.data) /\ j > k
        /\ j + 1 \in 1 .. Len(device.data) /\ j < Len(device.data)
    BY <1>2
  <2>2. ~HasByte(j, 0)
    <3>1. j \notin Chunks
      BY <2>1
    <3>. QED BY <2>1, <3>1 DEF Chunks
  <2>3. Chunk(j) \in Seq(Byte) /\ Pieces[j + 1] = Chunk(j)
    BY <1>1, <2>1, PiecesAre DEF Chunk
  <2>4. Len(Chunk(j)) = 0
    BY <2>1, <2>2, <2>3 DEF HasByte
  <2>. QED BY <2>3, <2>4
<1>. HIDE DEF next
<1>7. Before[l] = Before[next]
  BY <1>5, <1>6, ScriptSkips
<1>. QED BY <1>4, <1>7

LEMMA BufferReads ==
  ASSUME DeviceTyped, NEW a, ReadBuffer(a)
  PROVE  \/ a = NoByte /\ Goes(EndOfInput)
         \/ a \in Byte /\ Goes(a)
<1>. DEFINE k == device.buffer_index
            i == device.byte_index
            size == Len(device.data)
<1>1. device.kind = "buffer" /\ device.kind # "void" /\ device.kind # "fixed"
  BY DEF ReadBuffer
<1>2. /\ k \in Nat /\ i \in Nat /\ size \in Nat
      /\ k \in 0 .. size /\ Position = Len(Before[k]) + i
  BY <1>1, Standing
<1>3. CASE Chunks = {}
  <2>1. a = NoByte /\ Stands(size, 0)
    BY <1>3 DEF ReadBuffer
  <2>2. Position = Len(Script)
    <3>1. CASE k = size
      BY <1>1, <3>1, AtEnd
    <3>2. CASE k # size
      <4>1. size \in k + 1 .. size
        BY <1>2, <3>2
      <4>2. Position = Len(Before[size])
        BY <1>1, <1>3, <4>1, Exhausted
      <4>. QED BY <1>1, <4>2, ScriptIs
    <3>. QED BY <3>1, <3>2
  <2>3. size \in 0 .. size /\ size \in Nat
    BY <1>2
  <2>4. DeviceTyped'
    BY <1>1, <2>1, <2>3, StandsTyped
  <2>5. Position' = Len(Before[size]) + 0 /\ Script' = Script /\ device'.kind = device.kind
    BY <1>1, <2>1, <2>3, StandsAt
  <2>6. Len(Before[size]) \in Nat /\ Script = Before[size]
    BY <1>1, <2>3, BeforeLengths, ScriptIs
  <2>. QED BY <2>1, <2>2, <2>4, <2>5, <2>6 DEF Goes, Finds
<1>4. CASE Chunks # {}
  <2>. DEFINE from(c) == IF c = k THEN i ELSE 0
  <2>1. PICK c \in Chunks : /\ \A l \in Chunks : c <= l
                             /\ a = Chunk(c)[from(c) + 1]
                             /\ Stands(c, from(c) + 1)
    BY <1>4 DEF ReadBuffer
  <2>. DEFINE at == from(c)
  <2>2. c \in 0 .. size /\ c >= k /\ HasByte(c, at) /\ at \in Nat /\ c \in Nat /\ c < size
    BY <1>2, <2>1 DEF Chunks, HasByte
  <2>3. Position = Len(Before[c]) + at
    <3>1. CASE c = k
      BY <1>2, <3>1
    <3>2. CASE c # k
      <4>1. c \in k + 1 .. size
        BY <1>2, <2>2, <3>2
      <4>2. \A j \in k .. c - 1 : j \notin Chunks
        BY <1>2, <2>1, <2>2
      <4>3. Position = Len(Before[c])
        BY <1>1, <4>1, <4>2, Exhausted
      <4>4. Len(Before[c]) \in Nat /\ at = 0
        BY <2>2, <3>2, BeforeLengths
      <4>. QED BY <4>3, <4>4
    <3>. QED BY <3>1, <3>2
  <2>4. a = Chunk(c)[at + 1] /\ Stands(c, at + 1)
    BY <2>1
  <2>. HIDE DEF at, from
  <2>. QED BY <1>1, <2>2, <2>3, <2>4, BytePasses
<1>. QED BY <1>3, <1>4

(* What a read of a device answers, and what it passes.                     *)
LEMMA DeviceGives ==
  ASSUME DeviceTyped, NEW a, DeviceReads(a)
  PROVE  \/ a = Failure /\ UNCHANGED device
         \/ a = NoByte /\ Goes(EndOfInput)
         \/ a \in Byte /\ Goes(a)
<1>1. CASE ReadFixed(a)
  BY <1>1, FixedReads
<1>2. CASE ReadBuffer(a)
  BY <1>2, BufferReads
<1>3. CASE ReadStandard(a)
  BY <1>3, KernelGives DEF ReadStandard, Streams
<1>4. CASE ReadDescriptor(a)
  BY <1>4, KernelGives DEF ReadDescriptor, Streams
<1>5. CASE ReadVoid(a)
  <2>1. device.kind = "void" /\ a = NoByte /\ UNCHANGED device
    BY <1>5 DEF ReadVoid
  <2>2. Position = 0 /\ Script = <<>>
    <3>1. device.kind \notin Streams
      BY <2>1 DEF Streams
    <3>. QED BY <2>1, <3>1, Zenon DEF Position, Script
  <2>3. Finds(EndOfInput)
    BY <2>1, <2>2, Unmoved DEF Finds
  <2>. QED BY <2>1, <2>3, Unmoved DEF Goes
<1>. QED BY <1>1, <1>2, <1>3, <1>4, <1>5 DEF DeviceReads

LEMMA ScriptLength ==
  ASSUME DeviceTyped
  PROVE  Len(Script) \in Nat
<1>1. CASE device.kind = "void"
  <2>1. device.kind \notin Streams
    BY <1>1 DEF Streams
  <2>2. Script = <<>>
    BY <1>1, <2>1, Zenon DEF Script
  <2>. QED BY <2>2
<1>2. CASE device.kind # "void"
  <2>1. Len(device.data) \in 0 .. Len(device.data)
    BY DEF DeviceTyped
  <2>. QED BY <1>2, <2>1, ScriptIs, BeforeLengths
<1>. QED BY <1>1, <1>2

-----------------------------------------------------------------------------
(* The invariant: what the program has got is the script so far.             *)
InOrder == \A i \in DOMAIN Got : Got[i] = IF i <= Len(Script) THEN Script[i] ELSE EndOfInput
Delivered == DeviceTyped /\ ProgramTyped /\ InOrder /\ Follows

LEMMA GotTyped ==
  ASSUME ProgramTyped
  PROVE  Got \in Seq(Items) /\ Len(Got) \in Nat /\ DOMAIN Got = 1 .. Len(Got)
BY DEF ProgramTyped, Got

LEMMA ReadsGives ==
  ASSUME DeviceTyped, ProgramTyped, NEW r, Reads(r)
  PROVE  \/ r = Failure /\ last = NoByte /\ UNCHANGED device
         \/ r \in Items /\ last # NoByte /\ r = last /\ UNCHANGED device
         \/ r \in Items /\ last = NoByte /\ Goes(r)
<1>1. CASE last # NoByte
  BY <1>1 DEF Reads, ProgramTyped
<1>2. CASE last = NoByte
  <2>1. PICK a \in {NoByte, Failure} \cup 0 .. Base - 1 :
          DeviceReads(a) /\ r = IF a = NoByte THEN EndOfInput ELSE a
    BY <1>2 DEF Reads
  <2>2. EndOfInput \in Items /\ Byte \subseteq Items /\ NoByte \notin Byte /\ Failure # NoByte
    BY DevicesAssumption DEF Items, Byte, NoByte, Failure
  <2>. QED BY <1>2, <2>1, <2>2, DeviceGives
<1>. QED BY <1>1, <1>2

(* A call of read-u8 or of peek-u8 gets the next item, or none.              *)
LEMMA GetsNext ==
  ASSUME DeviceTyped, ProgramTyped, ReadInput \/ PeekInput
  PROVE  /\ ProgramTyped'
         /\ \/ Got' = Got /\ UNCHANGED device
            \/ \E r \in Items : Got' = Append(Got, r) /\ Goes(r)
<1>0. Failure \notin Items /\ NoByte \notin Items
  BY DevicesAssumption DEF Items, Byte, NoByte, Failure, EndOfInput
<1>1. PICK r : /\ Reads(r)
               /\ \/ /\ last' = NoByte
                     /\ received' = IF r = Failure THEN received ELSE Append(received, r)
                  \/ /\ last' = IF r = Failure THEN last ELSE r
                     /\ received' = received
  BY DEF ReadInput, PeekInput
<1>2. received \in Seq(Items) /\ last \in {NoByte} \cup Items
  BY DEF ProgramTyped
<1>3. CASE r = Failure /\ last = NoByte /\ UNCHANGED device
  BY <1>1, <1>2, <1>3 DEF ProgramTyped, Got
<1>4. CASE r \in Items /\ last # NoByte /\ r = last /\ UNCHANGED device
  BY <1>0, <1>1, <1>2, <1>4 DEF ProgramTyped, Got
<1>5. CASE r \in Items /\ last = NoByte /\ Goes(r)
  <2>1. Append(received, r) \in Seq(Items) /\ r # NoByte /\ r # Failure
    BY <1>0, <1>2, <1>5
  <2>2. ProgramTyped' /\ Got' = Append(Got, r)
    BY <1>1, <1>2, <1>5, <2>1 DEF ProgramTyped, Got
  <2>. QED BY <1>5, <2>2
<1>. QED BY <1>1, <1>3, <1>4, <1>5, ReadsGives

LEMMA InitDelivered ==
  ASSUME DeviceInit
  PROVE  Delivered
<1>1. PICK kind \in DeviceKinds, data \in Inputs :
        /\ device = [kind |-> kind, data |-> data, buffer_index |-> 0, byte_index |-> 0]
        /\ kind = "fixed" => Len(data) = 1
  BY DEF DeviceInit
<1>2. data \in Seq(Seq(Byte))
  BY DevicesAssumption DEF Byte
<1>3. /\ device.kind = kind /\ device.data = data
      /\ device.buffer_index = 0 /\ device.byte_index = 0
      /\ device \in [kind : DeviceKinds, data : Seq(Seq(Byte)),
                     buffer_index : Nat, byte_index : Nat]
  BY <1>1, <1>2
<1>4. DeviceTyped
  <2>1. Len(data) \in Nat
    BY <1>2
  <2>2. 0 # Len(data) => Len(data[0 + 1]) \in Nat
    <3>1. 0 # Len(data) => 0 + 1 \in 1 .. Len(data)
      BY <2>1
    <3>. QED BY <1>2, <3>1
  <2>. QED BY <1>1, <1>3, <2>1, <2>2 DEF DeviceTyped, Chunk
<1>5. ProgramTyped /\ Got = <<>>
  BY DEF DeviceInit, ProgramTyped, Got
<1>6. Position = 0
  <2>1. 0 \in 0 .. Len(device.data)
    BY <1>4 DEF DeviceTyped
  <2>2. Before[0] = <<>>
    BY <1>4, BeforeIs DEF IsFlat
  <2>. QED BY <1>3, <2>2 DEF Position
<1>7. InOrder /\ Follows
  BY <1>5, <1>6 DEF InOrder, Follows
<1>. QED BY <1>4, <1>5, <1>7 DEF Delivered

LEMMA StepDelivered ==
  ASSUME Delivered, [DeviceNext]_deviceVars
  PROVE  Delivered'
<1>0. DeviceTyped /\ ProgramTyped /\ InOrder /\ Follows
  BY DEF Delivered
<1>1. ASSUME Got' = Got, UNCHANGED device, ProgramTyped'
      PROVE  Delivered'
  <2>1. DeviceTyped' /\ Position' = Position /\ Script' = Script
    BY <1>0, <1>1, Unmoved
  <2>. QED BY <1>0, <1>1, <2>1 DEF Delivered, InOrder, Follows
<1>2. ASSUME NEW r \in Items, Got' = Append(Got, r), Goes(r), ProgramTyped'
      PROVE  Delivered'
  <2>. DEFINE got == Got
              got1 == Got'
              script == Script
              at == Position
              size == Len(Script)
  <2>1. /\ got \in Seq(Items) /\ Len(got) \in Nat /\ DOMAIN got = 1 .. Len(got)
        /\ size \in Nat /\ got1 = Append(got, r) /\ Script' = script
        /\ \A i \in DOMAIN got : got[i] = IF i <= size THEN script[i] ELSE EndOfInput
        /\ (Len(got) = at) \/ (at = size /\ Len(got) >= size)
    BY <1>0, <1>2, GotTyped, ScriptLength DEF Goes, InOrder, Follows
  <2>2. \/ at < size /\ r = script[at + 1] /\ Position' = at + 1
        \/ at = size /\ r = EndOfInput /\ Position' = at
    BY <1>2 DEF Goes, Passes, Finds
  <2>. HIDE DEF got, got1, script, at, size
  <2>3. /\ DOMAIN got1 = 1 .. Len(got) + 1 /\ Len(got1) = Len(got) + 1
        /\ \A i \in 1 .. Len(got) : got1[i] = got[i]
        /\ got1[Len(got) + 1] = r
    BY <2>1
  <2>4. IF Len(got) + 1 <= size THEN r = script[Len(got) + 1] ELSE r = EndOfInput
    <3>1. CASE at < size
      <4>1. Len(got) = at
        BY <2>1, <3>1
      <4>. QED BY <2>1, <2>2, <3>1, <4>1
    <3>2. CASE ~(at < size)
      BY <2>1, <2>2, <3>2
    <3>. QED BY <3>1, <3>2
  <2>5. ASSUME NEW i \in 1 .. Len(got) + 1
        PROVE  got1[i] = IF i <= size THEN script[i] ELSE EndOfInput
    <3>1. CASE i = Len(got) + 1
      BY <2>3, <2>4, <3>1
    <3>2. CASE i # Len(got) + 1
      <4>1. i \in 1 .. Len(got)
        BY <2>1, <3>2
      <4>. QED BY <2>1, <2>3, <4>1
    <3>. QED BY <3>1, <3>2
  <2>6. \/ Len(got1) = Position'
        \/ Position' = size /\ Len(got1) >= size
    BY <2>1, <2>2, <2>3
  <2>7. InOrder' /\ Follows'
    BY <2>1, <2>3, <2>5, <2>6 DEF InOrder, Follows, got1, script, size
  <2>. QED BY <1>2, <2>7 DEF Delivered, Goes
<1>3. CASE ReadInput \/ PeekInput
  BY <1>0, <1>1, <1>2, <1>3, GetsNext
<1>4. CASE \E sink \in Sinks, n \in Outputs : WriteOutput(sink, n)
  BY <1>0, <1>1, <1>4 DEF WriteOutput, Got, ProgramTyped
<1>5. CASE UNCHANGED deviceVars
  BY <1>0, <1>1, <1>5 DEF deviceVars, Got, ProgramTyped
<1>. QED BY <1>3, <1>4, <1>5 DEF DeviceNext

(* However the input is cut into chunks, on whichever device and however     *)
(* reads and peeks alternate, the program gets every byte once and in order, *)
(* and ends of input only where the device has them.                        *)
THEOREM DeliversInOrder == DeviceSpec => []InputInOrder
<1>1. DeviceInit => Delivered
  BY InitDelivered
<1>2. Delivered /\ [DeviceNext]_deviceVars => Delivered'
  BY StepDelivered
<1>3. Delivered => InputInOrder
  BY DEF Delivered, InOrder, Got, InputInOrder
<1>. QED BY <1>1, <1>2, <1>3, PTL DEF DeviceSpec

-----------------------------------------------------------------------------
(* The sinks hold what has been sent, within their room.                    *)
Sent == {n % Base : n \in Outputs}
Kept ==
  /\ sent \in [Sinks -> Seq(Outputs)]
  /\ sinks \in [Sinks -> Seq(Sent)]
  /\ OutputKept

(* A write keeps one byte, within the room of an array, or changes nothing.  *)
LEMMA WriteGives ==
  ASSUME Kept, NEW sink \in Sinks, NEW byte, NEW ok \in BOOLEAN, DeviceWrites(sink, byte, ok),
         device.kind # "void"
  PROVE  /\ sinks' = IF ok THEN [sinks EXCEPT ![sink] = Append(@, byte)] ELSE sinks
         /\ ok /\ device.kind \notin Streams => Len(sinks[sink]) < Room[sink]
BY DEF DeviceWrites, WriteFixed, WriteBuffer, WriteStandard, WriteDescriptor, WriteVoid,
       WriteArray, KernelWrites, Streams

LEMMA AppendMod ==
  ASSUME NEW s \in Seq(Outputs), NEW t, t = [i \in DOMAIN s |-> s[i] % Base],
         NEW n \in Outputs
  PROVE  Append(t, n % Base) = [i \in DOMAIN Append(s, n) |-> Append(s, n)[i] % Base]
<1>. DEFINE m == Len(s)
            u == Append(s, n)
            v == Append(t, n % Base)
<1>1. m \in Nat /\ DOMAIN s = 1 .. m
  OBVIOUS
<1>2. DOMAIN u = 1 .. m + 1 /\ u[m + 1] = n /\ \A i \in 1 .. m : u[i] = s[i]
  OBVIOUS
<1>3. t \in Seq({k % Base : k \in Outputs}) /\ Len(t) = m
  BY <1>1
<1>4. /\ v = [i \in DOMAIN v |-> v[i]] /\ DOMAIN v = 1 .. m + 1 /\ v[m + 1] = n % Base
      /\ \A i \in 1 .. m : v[i] = t[i]
  BY <1>3
<1>5. ASSUME NEW i \in 1 .. m + 1
      PROVE  v[i] = u[i] % Base
  <2>1. CASE i = m + 1
    BY <1>2, <1>4, <2>1
  <2>2. CASE i # m + 1
    <3>1. i \in 1 .. m
      BY <1>1, <2>2
    <3>. QED BY <1>1, <1>2, <1>4, <3>1
  <2>. QED BY <2>1, <2>2
<1>. HIDE DEF u, v, m
<1>6. v = [i \in DOMAIN u |-> u[i] % Base]
  BY <1>2, <1>4, <1>5
<1>. QED BY <1>6 DEF u, v

LEMMA StepKept ==
  ASSUME Delivered, Kept, [DeviceNext]_deviceVars
  PROVE  Kept'
<1>0. DeviceTyped /\ ProgramTyped
  BY DEF Delivered
<1>1. ASSUME UNCHANGED <<sinks, sent>>, device'.kind = device.kind
      PROVE  Kept'
  BY <1>1 DEF Kept, OutputKept
<1>2. CASE ReadInput \/ PeekInput
  <2>1. device'.kind = device.kind
    BY <1>0, <1>2, GetsNext DEF Goes
  <2>2. UNCHANGED <<sinks, sent>>
    BY <1>2 DEF ReadInput, PeekInput
  <2>. QED BY <1>1, <2>1, <2>2
<1>3. ASSUME NEW sink \in Sinks, NEW n \in Outputs, WriteOutput(sink, n)
      PROVE  Kept'
  <2>1. PICK ok \in BOOLEAN :
          /\ DeviceWrites(sink, n % Base, ok)
          /\ sent' = IF ok THEN [sent EXCEPT ![sink] = Append(@, n)] ELSE sent
    BY <1>3 DEF WriteOutput
  <2>2. UNCHANGED device
    BY <1>3 DEF WriteOutput
  <2>3. sent \in [Sinks -> Seq(Outputs)] /\ sinks \in [Sinks -> Seq(Sent)]
    BY DEF Kept
  <2>4. n % Base \in Sent
    BY DEF Sent
  <2>5. CASE device.kind = "void"
    <3>1. sinks' = sinks
      BY <2>1, <2>5 DEF DeviceWrites, WriteFixed, WriteBuffer, WriteStandard, WriteDescriptor, WriteVoid
    <3>2. sent' \in [Sinks -> Seq(Outputs)]
      BY <2>1, <2>3
    <3>. QED BY <2>2, <2>3, <2>5, <3>1, <3>2 DEF Kept, OutputKept
  <2>6. CASE device.kind # "void" /\ ~ok
    <3>1. sinks' = sinks /\ sent' = sent
      BY <2>1, <2>6, WriteGives
    <3>. QED BY <1>1, <2>2, <3>1
  <2>7. CASE device.kind # "void" /\ ok
    <3>. DEFINE b == n % Base
    <3>1. /\ sinks' = [sinks EXCEPT ![sink] = Append(@, b)]
          /\ sent' = [sent EXCEPT ![sink] = Append(@, n)]
          /\ device.kind \notin Streams => Len(sinks[sink]) < Room[sink]
      BY <2>1, <2>7, WriteGives
    <3>2. OutputKept
      BY DEF Kept
    <3>3. b \in Sent
      BY <2>4
    <3>4. ASSUME NEW s \in Sinks
          PROVE  /\ sinks'[s] = [i \in DOMAIN sent'[s] |-> sent'[s][i] % Base]
                 /\ device.kind \notin Streams => Len(sinks'[s]) <= Room[s]
      <4>. DEFINE x == sent[s]
                  y == sinks[s]
                  room == Room[s]
      <4>1. /\ x \in Seq(Outputs) /\ y \in Seq(Sent) /\ y = [i \in DOMAIN x |-> x[i] % Base]
            /\ device.kind \notin Streams => Len(y) <= room
        BY <2>3, <2>7, <3>2 DEF OutputKept
      <4>2. CASE s = sink
        <5>1. sinks'[s] = Append(y, b) /\ sent'[s] = Append(x, n)
          BY <2>3, <3>1, <4>2
        <5>2. Append(y, b) = [i \in DOMAIN Append(x, n) |-> Append(x, n)[i] % Base]
          <6>. HIDE DEF x, y
          <6>. QED BY <4>1, AppendMod
        <5>3. device.kind \notin Streams => Len(Append(y, b)) <= room
          <6>1. device.kind \notin Streams => Len(y) < room
            BY <3>1, <4>2
          <6>2. room \in Nat
            BY DevicesAssumption DEF Sinks
          <6>. HIDE DEF x, y, room, b
          <6>. QED BY <3>3, <4>1, <6>1, <6>2
        <5>. HIDE DEF x, y, b, room
        <5>. QED BY <5>1, <5>2, <5>3 DEF room
      <4>3. CASE s # sink
        <5>1. sinks'[s] = y /\ sent'[s] = x
          BY <2>3, <3>1, <4>3
        <5>. HIDE DEF x, y, room
        <5>. QED BY <4>1, <5>1 DEF room
      <4>. QED BY <4>2, <4>3
    <3>5. sent' \in [Sinks -> Seq(Outputs)]
      BY <2>3, <3>1
    <3>6. sinks' \in [Sinks -> Seq(Sent)]
      <4>. HIDE DEF b
      <4>. QED BY <2>3, <3>1, <3>3
    <3>. QED BY <2>2, <2>7, <3>4, <3>5, <3>6 DEF Kept, OutputKept
  <2>. QED BY <2>5, <2>6, <2>7
<1>4. CASE UNCHANGED deviceVars
  BY <1>1, <1>4 DEF deviceVars
<1>. QED BY <1>2, <1>3, <1>4 DEF DeviceNext

(* Each sink holds the bytes whose writing has returned, whatever fails, and *)
(* an array never holds more than its size.                                *)
THEOREM KeepsOutput == DeviceSpec => []OutputKept
<1>1. DeviceInit => Delivered /\ Kept
  <2>1. ASSUME DeviceInit
        PROVE  Kept
    <3>1. sinks = [s \in Sinks |-> <<>>] /\ sent = [s \in Sinks |-> <<>>]
      BY <2>1 DEF DeviceInit
    <3>2. \A s \in Sinks : Room[s] \in Nat
      BY DevicesAssumption DEF Sinks
    <3>. QED BY <3>1, <3>2 DEF Kept, OutputKept
  <2>. QED BY <2>1, InitDelivered
<1>2. Delivered /\ Kept /\ [DeviceNext]_deviceVars => (Delivered /\ Kept)'
  BY StepDelivered, StepKept
<1>3. Kept => OutputKept
  BY DEF Kept
<1>. QED BY <1>1, <1>2, <1>3, PTL DEF DeviceSpec
===============================================================================
