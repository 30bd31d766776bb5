------------------------------ MODULE MCPorts -------------------------------
(***************************************************************************)
(* The ports on files and the standard ports. They share no variable: a     *)
(* behaviour is about one of them.                                         *)
(***************************************************************************)
EXTENDS Ports, Devices, TLC

VARIABLE about  \* "files" or "devices"

mcVars == <<vars, deviceVars, about>>

NoDevice == [kind |-> "void", data |-> << <<1, 0>> >>, buffer_index |-> 0, byte_index |-> 0]

MCInit ==
  /\ Init /\ DeviceInit
  /\ \/ about = "files" /\ device = NoDevice
     \/ about = "devices" /\ system = "void"

OnFiles(A) == about = "files" /\ A /\ UNCHANGED <<deviceVars, about>>
OnDevice(A) == about = "devices" /\ A /\ UNCHANGED <<vars, about>>

MCNext ==
  \/ \E p \in Slots, path \in Paths, output \in BOOLEAN : OnFiles(OpenPort(p, path, output))
  \/ \E p \in Slots : OnFiles(ReadU8(p))
  \/ \E p \in Slots : OnFiles(PeekU8(p))
  \/ \E p \in Slots, n \in Numbers : OnFiles(WriteU8(p, n))
  \/ \E p \in Slots : OnFiles(ClosePort(p))
  \/ \E path \in Paths : OnFiles(DeletePath(path))
  \/ \E path \in Paths : OnFiles(FileExists(path))
  \/ OnDevice(ReadInput)
  \/ OnDevice(PeekInput)
  \/ \E sink \in Sinks, n \in Outputs : OnDevice(WriteOutput(sink, n))

MCSpec == MCInit /\ [][MCNext]_mcVars

(* One file of two bytes, and a name without a file.                        *)
OneFile ==
  [directory |-> [path \in Paths |-> IF path = "a" THEN 1 ELSE NoInode],
   contents |-> [i \in Inodes |-> IF i = 1 THEN <<1, 0>> ELSE <<>>]]

FirstDisks == {OneFile}
AnySystem == {"memory", "libc", "os", "void"}
ButMemory == AnySystem \ {"memory"}

(* An input cut into slices, an empty one among them.                       *)
SlicedInputs == {<< <<1, 0>> >>, << <<>>, <<1>>, <<>>, <<0, 1>> >>}
SmallRoom == [s \in Sinks |-> IF s = "output" THEN 2 ELSE 0]

Symmetry == Permutations(Slots)

(* No action reads the result of the one before.                            *)
WithoutResult == <<fileVars, ports, deviceVars, about>>
=============================================================================
