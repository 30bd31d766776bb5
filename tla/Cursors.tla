------------------------------ MODULE Cursors -------------------------------
(***************************************************************************)
(* What a program may expect of ports on files, without descriptors: a port  *)
(* is a cursor with a byte read ahead. Only the contents of files that have  *)
(* a name or an open cursor are anyone's concern.                           *)
(***************************************************************************)
EXTENDS Integers, Sequences, FiniteSets

CONSTANTS Paths, LongPaths, ByteBase, Capacity, Inodes, Slots, Numbers, Disks, Systems

VARIABLES
  system,              \* what is below decides what may fail
  directory, contents, \* the files
  cursors,             \* [status, inode, output, at, ahead] of each variable
  result               \* the last operation and what it returned

cursorVars == <<system, directory, contents, cursors, result>>

NoInode == 0
False == -1
True == -2
Eof == -3
Raised == -5
NoCursor == [status |-> "none", inode |-> NoInode, output |-> FALSE, at |-> 0, ahead |-> False]

Init ==
  /\ system \in Systems
  /\ \E d \in Disks : directory = d.directory /\ contents = d.contents
  /\ cursors = [p \in Slots |-> NoCursor]
  /\ result = <<"none", False>>

Open(p) == cursors[p].status = "open"
Alive(i) == \/ \E path \in Paths : directory[path] = i
            \/ \E p \in Slots : Open(p) /\ cursors[p].inode = i
SameContents(others) == \A i \in Inodes \ others : Alive(i)' => contents'[i] = contents[i]

Writable == system \in {"libc", "os"}
Exists(path) == directory[path] # NoInode

(* Why an open has to fail: the path, the file, or too many open files.       *)
Impossible(path, output) ==
  \/ system = "void" \/ path \in LongPaths
  \/ output /\ ~Writable
  \/ ~output /\ ~Exists(path)
Crowded == system # "os" /\ Cardinality({p \in Slots : Open(p)}) >= Capacity

(* The file of a path, new if need be, and empty if it is for output.       *)
Provides(path, output, i) ==
  /\ IF Exists(path) THEN i = directory[path] ELSE ~Alive(i)
  /\ directory' = [directory EXCEPT ![path] = i]
  /\ contents'[i] = IF output \/ ~Exists(path) THEN <<>> ELSE contents[i]
  /\ SameContents({i})

OpenCursor(p, path, output) ==
  /\ result' = <<"open", True>>
  /\ ~Open(p) /\ ~Impossible(path, output) /\ ~Crowded
  /\ \E i \in Inodes :
       /\ Provides(path, output, i)
       /\ cursors' = [cursors EXCEPT ![p] = [NoCursor EXCEPT
              !.status = "open", !.inode = i, !.output = output]]

(* An operating system may refuse for reasons of its own (the file systems that *)
(* write are on one). libc.rs has opened the file when it finds no room for it. *)
OpenFails(path, output) ==
  /\ result' = <<"open", Raised>>
  /\ \/ /\ Impossible(path, output) \/ Crowded \/ Writable
        /\ UNCHANGED <<directory, contents>>
     \/ /\ system = "libc" /\ ~Impossible(path, output) /\ Crowded
        /\ \E i \in Inodes : Provides(path, output, i)
  /\ UNCHANGED cursors

Shown(c) ==
  IF c.ahead # False THEN c.ahead
  ELSE IF c.status = "open" /\ ~c.output /\ c.at < Len(contents[c.inode])
       THEN contents[c.inode][c.at + 1] ELSE Eof

(* Where the cursor is behind what it shows now.                            *)
Behind(c) == IF c.ahead = False /\ Shown(c) # Eof THEN c.at + 1 ELSE c.at

Take(p) ==
  /\ result' = <<"read", Shown(cursors[p])>>
  /\ cursors' = [cursors EXCEPT ![p].at = Behind(cursors[p]), ![p].ahead = False]
  /\ UNCHANGED <<directory, contents>>

Look(p) ==
  /\ result' = <<"peek", Shown(cursors[p])>>
  /\ cursors' = [cursors EXCEPT ![p].at = Behind(cursors[p]), ![p].ahead = Shown(cursors[p])]
  /\ UNCHANGED <<directory, contents>>

(* A byte that is written is in the file, and the bytes around it are as     *)
(* they were.                                                              *)
Put(p, n) ==
  LET c == cursors[p]
      old == contents[c.inode]
      new == contents'[c.inode]
  IN /\ result' = <<"write", True>>
     /\ Open(p) /\ c.output /\ Writable
     /\ Len(new) = IF Len(old) > c.at THEN Len(old) ELSE c.at + 1
     /\ new[c.at + 1] = n % ByteBase
     /\ \A i \in DOMAIN new \ {c.at + 1} : new[i] = IF i <= Len(old) THEN old[i] ELSE 0
     /\ SameContents({c.inode})
     /\ cursors' = [cursors EXCEPT ![p].at = @ + 1]
     /\ UNCHANGED directory

PutFails ==
  /\ result' = <<"write", False>>
  /\ UNCHANGED <<directory, contents, cursors>>

Shut(p) ==
  /\ result' = <<"close", IF system = "void" THEN False ELSE True>>
  /\ cursors' = [cursors EXCEPT ![p] = [NoCursor EXCEPT !.status = "closed",
                                                       !.ahead = cursors[p].ahead]]
  /\ SameContents({})
  /\ UNCHANGED directory

Remove(path) ==
  \/ /\ Writable /\ Exists(path) /\ path \notin LongPaths
     /\ directory' = [directory EXCEPT ![path] = NoInode]
     /\ SameContents({}) /\ result' = <<"delete", True>> /\ UNCHANGED cursors
  \/ /\ ~Writable \/ ~Exists(path) \/ path \in LongPaths
     /\ result' = <<"delete", Raised>>
     /\ UNCHANGED <<directory, contents, cursors>>

Find(path) ==
  /\ result' = <<"exists", IF system # "void" /\ path \notin LongPaths /\ Exists(path) THEN True ELSE False>>
  /\ UNCHANGED <<directory, contents, cursors>>

Next ==
  /\ UNCHANGED system
  /\ \/ \E p \in Slots, path \in Paths, output \in BOOLEAN : OpenCursor(p, path, output)
     \/ \E path \in Paths, output \in BOOLEAN : OpenFails(path, output)
     \/ \E p \in Slots : cursors[p].status # "none" /\ (Take(p) \/ Look(p) \/ Shut(p))
     \/ \E p \in Slots, n \in Numbers : Put(p, n)
     \/ PutFails
     \/ \E path \in Paths : Remove(path) \/ Find(path)

Spec == Init /\ [][Next]_cursorVars
=============================================================================
