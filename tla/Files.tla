------------------------------- MODULE Files --------------------------------
(***************************************************************************)
(* The file systems (file/src/file_system) behind the file primitives: one  *)
(* table of open files per machine, named by descriptors. `system` says      *)
(* which of the four implementations the machine was built with.            *)
(*                                                                         *)
(* What the kernel does for libc.rs and os.rs is modelled as far as they use *)
(* it: names lead to inodes, open files keep an inode alive without a name,  *)
(* opening for output truncates, and writing beyond the end fills the gap.   *)
(* The static files of memory.rs are inodes that never change.              *)
(***************************************************************************)
EXTENDS Integers, Sequences, FiniteSets

CONSTANTS
  Paths,        \* names that programs use
  LongPaths,    \* those of them that decode_path has no room for
  ByteBase,     \* 256: a byte is a number below
  Capacity,     \* entries of memory.rs; the N of libc.rs
  MaxOpens,     \* bound: the calls of open that the counter of descriptors counts
  Inodes        \* as many as can be in use at once

ASSUME FilesAssumption ==
  /\ Capacity \in Nat /\ MaxOpens \in Nat /\ Capacity <= MaxOpens
  /\ Inodes \subseteq Nat \ {0}
  /\ ByteBase \in Nat \ {0}

VARIABLES
  system,     \* "memory", "libc", "os" or "void"
  directory,  \* the inode of each path, or NoInode
  contents,   \* the bytes of each inode
  table,      \* the open files: `entries` of memory.rs, `files` of the others
  descriptor  \* the next descriptor of libc.rs and os.rs

disk == <<directory, contents>>
fileVars == <<system, disk, table, descriptor>>

NoInode == 0
Bytes == 0 .. ByteBase - 1
Descriptors == 0 .. MaxOpens

(* What a primitive pushes: #f, #t, or a number. An error is what a file     *)
(* system returns and no primitive pushes.                                 *)
False == -1
True == -2
Error == -4
Boolean(b) == IF b THEN True ELSE False

Closed == [inode |-> NoInode, offset |-> 0, output |-> FALSE]
Opened(inode, output) == [inode |-> inode, offset |-> 0, output |-> output]
InUse(d) == table[d].inode # NoInode
Used == {d \in Descriptors : InUse(d)}

Returns(answer, r) == r = answer /\ UNCHANGED fileVars

-----------------------------------------------------------------------------
(* The kernel.                                                             *)

Exists(path) == directory[path] # NoInode

(* An inode is gone when it has neither a name nor an open file.            *)
Reclaimed(bytes, names, files) ==
  [i \in Inodes |->
     IF \/ \E path \in Paths : names[path] = i
        \/ \E d \in Descriptors : files[d].inode = i
     THEN bytes[i] ELSE <<>>]

Free(i) == /\ \A path \in Paths : directory[path] # i
           /\ \A d \in Descriptors : table[d].inode # i

(* The inode of a path, or the first free one: O_CREAT.                     *)
Names(path, i) ==
  IF Exists(path) THEN i = directory[path] ELSE Free(i) /\ \A j \in Inodes : Free(j) => i <= j

(* A write at an offset behind the end leaves zeros between.                *)
Written(bytes, offset, byte) ==
  [i \in 1 .. (IF Len(bytes) > offset THEN Len(bytes) ELSE offset + 1) |->
     IF i = offset + 1 THEN byte ELSE IF i <= Len(bytes) THEN bytes[i] ELSE 0]

-----------------------------------------------------------------------------
(* open                                                                    *)

VoidFails(r) == system = "void" /\ Returns(Error, r)

FirstFree(d) ==
  /\ d \in 0 .. Capacity - 1 /\ ~InUse(d)
  /\ \A e \in 0 .. Capacity - 1 : ~InUse(e) => d <= e

OpenMemory(path, output, r) ==
  /\ system = "memory"
  /\ IF ~output /\ Exists(path) /\ (\E d \in Descriptors : FirstFree(d))
     THEN \E d \in Descriptors :
            /\ FirstFree(d)
            /\ table' = [table EXCEPT ![d] = Opened(directory[path], FALSE)]
            /\ r = d
            /\ UNCHANGED <<system, disk, descriptor>>
     ELSE Returns(Error, r)

(* The name is created and the contents are cut before anything is inserted. *)
OpenInKernel(path, output, i) ==
  /\ directory' = [directory EXCEPT ![path] = i]
  /\ contents' = IF output THEN [contents EXCEPT ![i] = <<>>] ELSE contents

Insert(i, output, r) ==
  /\ table' = [table EXCEPT ![descriptor] = Opened(i, output)]
  /\ descriptor' = descriptor + 1
  /\ r = descriptor

(* A full map of libc.rs gives the file back, and dropping it closes it: the *)
(* call fails after the kernel has created or cut the file.                 *)
Full == Cardinality(Used) >= Capacity

OpenLibc(path, output, r) ==
  /\ system = "libc"
  /\ IF ~output /\ ~Exists(path) THEN Returns(Error, r)
     ELSE \E i \in Inodes :
            /\ Names(path, i)
            /\ OpenInKernel(path, output, i)
            /\ IF Full THEN r = Error /\ UNCHANGED <<table, descriptor>>
               ELSE Insert(i, output, r)
            /\ UNCHANGED system

(* Mutant of OpenOs: the counter of descriptors stays.                      *)
OpenOsAgain(path, output, r) ==
  /\ system = "os"
  /\ IF ~output /\ ~Exists(path) THEN Returns(Error, r)
     ELSE \E i \in Inodes :
            /\ Names(path, i)
            /\ OpenInKernel(path, output, i)
            /\ table' = [table EXCEPT ![descriptor] = Opened(i, output)]
            /\ r = descriptor
            /\ UNCHANGED <<system, descriptor>>

OpenOs(path, output, r) ==
  /\ system = "os"
  /\ IF ~output /\ ~Exists(path) THEN Returns(Error, r)
     ELSE \E i \in Inodes :
            /\ Names(path, i)
            /\ OpenInKernel(path, output, i)
            /\ Insert(i, output, r)
            /\ UNCHANGED system

(* The kernel may refuse any file, before it touches one: no permission, no    *)
(* descriptor left, no memory.                                             *)
KernelRefuses(r) == system \in {"libc", "os"} /\ Returns(Error, r)

Open(path, output, r) ==
  \/ VoidFails(r)
  \/ KernelRefuses(r)
  \/ OpenMemory(path, output, r)
  \/ OpenLibc(path, output, r)
  \/ OpenOs(path, output, r)

-----------------------------------------------------------------------------
(* The operations on an open file. Only memory.rs knows which descriptors    *)
(* there are; the others take any.                                         *)

Dropped(d) ==
  /\ table' = [table EXCEPT ![d] = Closed]
  /\ contents' = Reclaimed(contents, directory, table')
  /\ UNCHANGED <<system, directory, descriptor>>

CloseMemory(d, r) ==
  /\ system = "memory"
  /\ IF d < Capacity THEN Dropped(d) /\ r = True ELSE Returns(Error, r)

CloseLibc(d, r) == system = "libc" /\ Dropped(d) /\ r = True
CloseOs(d, r) == system = "os" /\ Dropped(d) /\ r = True

Close(d, r) == VoidFails(r) \/ CloseMemory(d, r) \/ CloseLibc(d, r) \/ CloseOs(d, r)

(* The next byte of an open file. The kernel refuses to read what was opened *)
(* for output, and memory.rs opens nothing for it.                          *)
Readable(d) ==
  InUse(d) /\ ~table[d].output /\ table[d].offset < Len(contents[table[d].inode])

Consume(d, r) ==
  IF Readable(d)
  THEN /\ r = contents[table[d].inode][table[d].offset + 1]
       /\ table' = [table EXCEPT ![d].offset = @ + 1]
       /\ UNCHANGED <<system, disk, descriptor>>
  ELSE Returns(Error, r)

ReadMemory(d, r) == system = "memory" /\ Consume(d, r)
ReadLibc(d, r) == system = "libc" /\ Consume(d, r)
ReadOs(d, r) == system = "os" /\ Consume(d, r)

Read(d, r) == VoidFails(r) \/ ReadMemory(d, r) \/ ReadLibc(d, r) \/ ReadOs(d, r)

(* The kernel may have no room for the byte.                                *)
Store(d, byte, r) ==
  \/ Returns(Error, r)
  \/ /\ InUse(d) /\ table[d].output
     /\ contents' = [contents EXCEPT ![table[d].inode] = Written(@, table[d].offset, byte)]
     /\ table' = [table EXCEPT ![d].offset = @ + 1]
     /\ r = True
     /\ UNCHANGED <<system, directory, descriptor>>

WriteMemory(r) == system = "memory" /\ Returns(Error, r)
WriteLibc(d, byte, r) == system = "libc" /\ Store(d, byte, r)
WriteOs(d, byte, r) == system = "os" /\ Store(d, byte, r)

Write(d, byte, r) ==
  VoidFails(r) \/ WriteMemory(r) \/ WriteLibc(d, byte, r) \/ WriteOs(d, byte, r)

Unlink(path, r) ==
  IF Exists(path)
  THEN /\ directory' = [directory EXCEPT ![path] = NoInode]
       /\ contents' = Reclaimed(contents, directory', table)
       /\ r = True
       /\ UNCHANGED <<system, table, descriptor>>
  ELSE Returns(Error, r)

DeleteMemory(r) == system = "memory" /\ Returns(Error, r)
DeleteLibc(path, r) == system = "libc" /\ Unlink(path, r)
DeleteOs(path, r) == system = "os" /\ Unlink(path, r)

Delete(path, r) == VoidFails(r) \/ DeleteMemory(r) \/ DeleteLibc(path, r) \/ DeleteOs(path, r)

(* access(2) fails on what does not exist: an error in libc.rs.             *)
ExistsMemory(path, r) == system = "memory" /\ Returns(Boolean(Exists(path)), r)
ExistsLibc(path, r) == system = "libc" /\ Returns(IF Exists(path) THEN True ELSE Error, r)
ExistsOs(path, r) == system = "os" /\ Returns(Boolean(Exists(path)), r)

ExistsIn(path, r) == VoidFails(r) \/ ExistsMemory(path, r) \/ ExistsLibc(path, r) \/ ExistsOs(path, r)

-----------------------------------------------------------------------------
(* The primitives (primitive_set.rs): a path is decoded first, and no error  *)
(* of a file system stops the machine.                                     *)

Decodes(path) == system # "void" /\ path \notin LongPaths

Answers == {False, True, Error} \cup Descriptors \cup Bytes

(* operate_option, operate_result: #f for an error.                         *)
Pushed(answer) == IF answer = Error THEN False ELSE answer

OpenFile(path, output, r) ==
  IF Decodes(path) THEN \E a \in Answers : r = Pushed(a) /\ Open(path, output, a)
  ELSE Returns(False, r)

CloseFile(d, r) == \E a \in Answers : r = Pushed(a) /\ Close(d, a)

ReadFile(d, r) == \E a \in Answers : r = Pushed(a) /\ Read(d, a)

(* The number becomes a byte by a cast.                                     *)
WriteFile(d, n, r) == \E a \in Answers : r = Pushed(a) /\ Write(d, n % ByteBase, a)

DeleteFile(path, r) ==
  IF Decodes(path) THEN \E a \in Answers : r = Pushed(a) /\ Delete(path, a)
  ELSE Returns(False, r)

ExistsFile(path, r) ==
  IF Decodes(path) THEN \E a \in Answers : r = Pushed(a) /\ ExistsIn(path, a)
  ELSE Returns(False, r)
=============================================================================
