------------------------------- MODULE Ports --------------------------------
(***************************************************************************)
(* Ports on files (prelude.scm, "Port" and the library (scheme file)): a     *)
(* record of three closures over a descriptor and the byte that peek-u8 has  *)
(* read ahead. A port does not know that it was closed; `status`, `inode`    *)
(* and `output` are what the properties remember of it.                    *)
(***************************************************************************)
EXTENDS Files

CONSTANTS
  Slots,      \* variables of the program that hold ports
  Numbers,    \* what it writes
  Disks,      \* the files there are at first: records of a directory and contents
  Systems,    \* the file systems it may run on
  StaleUse,   \* those on which it goes on using ports that it has closed
  MaxLength   \* bound: the offset of a port that writes

ASSUME DisksAssumption ==
  \A d \in Disks : /\ d.directory \in [Paths -> Inodes \cup {NoInode}]
                   /\ d.contents \in [Inodes -> Seq(Bytes)]

ASSUME NumbersAssumption == Numbers \subseteq Int

VARIABLES
  ports,   \* the port in each variable
  result   \* the last operation and what it gave to the program

vars == <<fileVars, ports, result>>

Raised == -5   \* (error ...)
Eof == -3      \* the end-of-file object

NoPort == [status |-> "none", descriptor |-> 0, last |-> False, inode |-> NoInode,
           output |-> FALSE]

Init ==
  /\ system \in Systems
  /\ \E d \in Disks : directory = d.directory /\ contents = d.contents
  /\ table = [d \in Descriptors |-> Closed]
  /\ descriptor = 0
  /\ ports = [p \in Slots |-> NoPort]
  /\ result = <<"none", False>>

Port(p) == ports[p]
Usable(p) == \/ Port(p).status = "open"
             \/ Port(p).status = "closed" /\ system \in StaleUse

-----------------------------------------------------------------------------
(* open-file. A variable is used again when its port is closed.             *)
OpenPort(p, path, output) ==
  /\ Port(p).status # "open"
  /\ descriptor < MaxOpens
  /\ \E r \in Answers :
       /\ OpenFile(path, output, r)
       /\ IF r = False THEN result' = <<"open", Raised>> /\ UNCHANGED ports
          ELSE /\ ports' = [ports EXCEPT ![p] =
                    [status |-> "open", descriptor |-> r, last |-> False,
                     inode |-> table'[r].inode, output |-> output]]
               /\ result' = <<"open", True>>

(* read-u8: the byte that was peeked, or one that is read. What was not read *)
(* for an error is the end of the file.                                    *)
ReadsU8(p, r) ==
  IF Port(p).last # False THEN r = Port(p).last /\ UNCHANGED fileVars
  ELSE \E a \in Answers :
         /\ r = IF a = False THEN Eof ELSE a
         /\ ReadFile(Port(p).descriptor, a)

ReadU8(p) ==
  /\ Usable(p)
  /\ \E r \in Answers \cup {Eof} : ReadsU8(p, r) /\ result' = <<"read", r>>
  /\ ports' = [ports EXCEPT ![p].last = False]

(* Mutant of PeekU8: the byte is not kept.                                  *)
PeekU8Drops(p) ==
  /\ Usable(p)
  /\ \E r \in Answers \cup {Eof} : ReadsU8(p, r) /\ result' = <<"peek", r>>
  /\ UNCHANGED ports

PeekU8(p) ==
  /\ Usable(p)
  /\ \E r \in Answers \cup {Eof} :
       ReadsU8(p, r) /\ result' = <<"peek", r>> /\ ports' = [ports EXCEPT ![p].last = r]

(* write-u8 returns what the primitive pushed: #f when nothing was written.  *)
WriteU8(p, n) ==
  /\ Usable(p)
  /\ table[Port(p).descriptor].offset < MaxLength
  /\ \E r \in Answers : WriteFile(Port(p).descriptor, n, r) /\ result' = <<"write", r>>
  /\ UNCHANGED ports

(* close-port, and call-with-port after the procedure has closed the port.   *)
ClosePort(p) ==
  /\ Usable(p)
  /\ \E r \in Answers : CloseFile(Port(p).descriptor, r) /\ result' = <<"close", r>>
  /\ ports' = [ports EXCEPT ![p].status = "closed", ![p].inode = NoInode, ![p].output = FALSE]

DeletePath(path) ==
  /\ \E r \in Answers : DeleteFile(path, r) /\ result' = <<"delete", IF r = False THEN Raised ELSE True>>
  /\ UNCHANGED ports

FileExists(path) ==
  /\ \E r \in Answers : ExistsFile(path, r) /\ result' = <<"exists", r>>
  /\ UNCHANGED ports

Next ==
  \/ \E p \in Slots, path \in Paths, output \in BOOLEAN : OpenPort(p, path, output)
  \/ \E p \in Slots : ReadU8(p)
  \/ \E p \in Slots : PeekU8(p)
  \/ \E p \in Slots, n \in Numbers : WriteU8(p, n)
  \/ \E p \in Slots : ClosePort(p)
  \/ \E path \in Paths : DeletePath(path)
  \/ \E path \in Paths : FileExists(path)

Spec == Init /\ [][Next]_vars

-----------------------------------------------------------------------------
IsOpen(p) == Port(p).status = "open"

(* The open files are those of the open ports, one each: a port reads and    *)
(* writes the file it was opened for through a descriptor that no other open *)
(* port has, and no file stays open without its port: closing frees an entry *)
(* exactly once, even when call-with-port closes again what its procedure    *)
(* has closed. (Each file system promises a fresh descriptor.)               *)
PortsOwnFiles ==
  /\ \A p \in Slots : IsOpen(p) => /\ table[Port(p).descriptor].inode = Port(p).inode
                                  /\ table[Port(p).descriptor].output = Port(p).output
                                  /\ Port(p).inode # NoInode
  /\ \A p, q \in Slots :
       IsOpen(p) /\ IsOpen(q) /\ Port(p).descriptor = Port(q).descriptor => p = q
  /\ \A d \in Descriptors : InUse(d) => \E p \in Slots : IsOpen(p) /\ Port(p).descriptor = d

(* What a program sees of its ports and files (Cursors).                    *)
Cursor(p) ==
  [status |-> Port(p).status, inode |-> Port(p).inode, output |-> Port(p).output,
   at |-> IF IsOpen(p) THEN table[Port(p).descriptor].offset ELSE 0, ahead |-> Port(p).last]

cursors == [p \in Slots |-> Cursor(p)]

C == INSTANCE Cursors

(* Whatever table of descriptors is below, each port behaves as a cursor of   *)
(* its own: peeking and reading skip and repeat no byte, no operation on one *)
(* port or on a closed one moves another, an open fails only for a reason    *)
(* the program can know or if the system refuses, and a failed one opens      *)
(* nothing.                                                                *)
CursorPromise == C!Spec
=============================================================================
