------------------------------ MODULE Devices -------------------------------
(***************************************************************************)
(* The devices (device/src) behind the standard ports (prelude.scm, "Port"): *)
(* a source of bytes and two sinks. `device.kind` says which one the machine *)
(* was built with:                                                         *)
(*   "fixed"   FixedBufferDevice, one slice and two arrays                  *)
(*   "buffer"  the libc ReadWriteDevice on Buffer and BufferMut             *)
(*   "std"     StdioDevice and the ReadWriteDevice of std                 *)
(*   "libc"    the libc ReadWriteDevice on Stdin, Stdout and Stderr         *)
(*   "void"    VoidDevice                                                 *)
(* The chunks of a file or a terminal are separated by ends of input, for a  *)
(* terminal may go on after one.                                           *)
(***************************************************************************)
EXTENDS Integers, Sequences

SE == INSTANCE SequencesExt

CONSTANTS
  DeviceKinds,  \* the devices it may run on
  Inputs,       \* what there is to read: sequences of chunks of bytes
  Room,         \* the size of each sink: O and E, or that of the slice
  Base,         \* 256: a byte is a number below
  Outputs,      \* the numbers the program writes
  MaxReads,     \* bound: calls of read-u8
  MaxWrites     \* bound: calls of write-u8 on each sink

ASSUME DevicesAssumption ==
  /\ Base \in Nat \ {0} /\ MaxReads \in Nat /\ MaxWrites \in Nat
  /\ Inputs \subseteq Seq(Seq(0 .. Base - 1))
  /\ Room \in [{"output", "error"} -> Nat]

VARIABLES
  device,    \* the kind, the input, and the index of the next chunk and byte
  sinks,     \* the bytes in the output and in the error output
  last,      \* the byte read ahead in the current input port, or NoByte
  stopped,   \* a PrimitiveError has ended the run
  received,  \* what read-u8 has returned so far
  sent       \* the numbers whose writing has returned, for each sink

deviceVars == <<device, sinks, last, stopped, received, sent>>

Sinks == {"output", "error"}
NoByte == -1      \* #f
EndOfInput == -2  \* the end-of-file object
Failure == -3     \* Err(..)

DeviceInit ==
  /\ \E kind \in DeviceKinds, data \in Inputs :
       /\ device = [kind |-> kind, data |-> data, buffer_index |-> 0, byte_index |-> 0]
       /\ kind = "fixed" => Len(data) = 1
  /\ sinks = [s \in Sinks |-> <<>>]
  /\ last = NoByte
  /\ stopped = FALSE
  /\ received = <<>>
  /\ sent = [s \in Sinks |-> <<>>]

-----------------------------------------------------------------------------
(* read. Its answer is a byte, NoByte for None, or Failure.                 *)

Chunk(k) == device.data[k + 1]
HasByte(k, i) == k < Len(device.data) /\ i < Len(Chunk(k))
Stands(k, i) == device' = [device EXCEPT !.buffer_index = k, !.byte_index = i]

ReadFixed(r) ==
  /\ device.kind = "fixed"
  /\ IF HasByte(0, device.byte_index)
     THEN r = Chunk(0)[device.byte_index + 1] /\ Stands(0, device.byte_index + 1)
     ELSE r = NoByte /\ UNCHANGED device

(* read_raw: from a chunk without a next byte it goes on to the one behind   *)
(* it, which may be empty too.                                             *)
Chunks == {k \in 0 .. Len(device.data) :
             /\ k >= device.buffer_index
             /\ HasByte(k, IF k = device.buffer_index THEN device.byte_index ELSE 0)}

(* Mutant of ReadBuffer: the end of a chunk is the end of the input.        *)
ReadBufferChunk(r) ==
  /\ device.kind = "buffer"
  /\ LET k == device.buffer_index IN
     IF HasByte(k, device.byte_index)
     THEN r = Chunk(k)[device.byte_index + 1] /\ Stands(k, device.byte_index + 1)
     ELSE r = NoByte /\ Stands(IF k < Len(device.data) THEN k + 1 ELSE k, 0)

ReadBuffer(r) ==
  /\ device.kind = "buffer"
  /\ IF Chunks = {} THEN r = NoByte /\ Stands(Len(device.data), 0)
     ELSE \E k \in Chunks :
            LET i == IF k = device.buffer_index THEN device.byte_index ELSE 0
            IN /\ \A l \in Chunks : k <= l
               /\ r = Chunk(k)[i + 1]
               /\ Stands(k, i + 1)

(* The kernel answers no byte at an end of input, and may fail; an           *)
(* interrupted call is a failure too.                                      *)
KernelReads(r) ==
  LET k == device.buffer_index
  IN \/ r = Failure /\ UNCHANGED device
     \/ /\ HasByte(k, device.byte_index)
        /\ r = Chunk(k)[device.byte_index + 1]
        /\ Stands(k, device.byte_index + 1)
     \/ /\ ~HasByte(k, device.byte_index)
        /\ r = NoByte
        /\ IF k < Len(device.data) THEN Stands(k + 1, 0) ELSE UNCHANGED device

ReadStandard(r) == device.kind = "std" /\ KernelReads(r)
ReadDescriptor(r) == device.kind = "libc" /\ KernelReads(r)

ReadVoid(r) == device.kind = "void" /\ r = NoByte /\ UNCHANGED device

DeviceReads(r) ==
  ReadFixed(r) \/ ReadBuffer(r) \/ ReadStandard(r) \/ ReadDescriptor(r) \/ ReadVoid(r)

(* write and write_error. A full buffer takes nothing.                      *)

(* Mutant of WriteArray: the last byte makes room.                          *)
WriteArrayLast(sink, byte, ok) ==
  /\ Room[sink] > 0
  /\ ok = TRUE
  /\ sinks' = [sinks EXCEPT ![sink] =
       Append(IF Len(@) < Room[sink] THEN @ ELSE SubSeq(@, 1, Room[sink] - 1), byte)]

WriteArray(sink, byte, ok) ==
  /\ ok = (Len(sinks[sink]) < Room[sink])
  /\ sinks' = IF ok THEN [sinks EXCEPT ![sink] = Append(@, byte)] ELSE sinks

WriteFixed(sink, byte, ok) == device.kind = "fixed" /\ WriteArray(sink, byte, ok)
WriteBuffer(sink, byte, ok) == device.kind = "buffer" /\ WriteArray(sink, byte, ok)

(* The kernel takes the byte or does not.                                   *)
KernelWrites(sink, byte, ok) ==
  /\ ok \in BOOLEAN
  /\ sinks' = IF ok THEN [sinks EXCEPT ![sink] = Append(@, byte)] ELSE sinks

WriteStandard(sink, byte, ok) == device.kind = "std" /\ KernelWrites(sink, byte, ok)
WriteDescriptor(sink, byte, ok) == device.kind = "libc" /\ KernelWrites(sink, byte, ok)

WriteVoid(ok) == device.kind = "void" /\ ok = TRUE /\ UNCHANGED sinks

DeviceWrites(sink, byte, ok) ==
  \/ WriteFixed(sink, byte, ok) \/ WriteBuffer(sink, byte, ok)
  \/ WriteStandard(sink, byte, ok) \/ WriteDescriptor(sink, byte, ok)
  \/ WriteVoid(ok)

-----------------------------------------------------------------------------
(* The procedures of the prelude on the current ports. An error of the       *)
(* device ends the run: unlike those of a file it is no #f.                 *)

Reads(r) ==
  IF last # NoByte THEN r = last /\ UNCHANGED device
  ELSE \E a \in {NoByte, Failure} \cup 0 .. Base - 1 :
         DeviceReads(a) /\ r = IF a = NoByte THEN EndOfInput ELSE a

ReadInput ==
  /\ ~stopped
  /\ Len(received) < MaxReads
  /\ \E r \in {EndOfInput, Failure} \cup 0 .. Base - 1 :
       /\ Reads(r)
       /\ stopped' = (r = Failure)
       /\ last' = NoByte
       /\ received' = IF r = Failure THEN received ELSE Append(received, r)
  /\ UNCHANGED <<sinks, sent>>

(* peek-u8 reads and keeps what it has read.                                *)
PeekInput ==
  /\ ~stopped
  /\ \E r \in {EndOfInput, Failure} \cup 0 .. Base - 1 :
       /\ Reads(r)
       /\ stopped' = (r = Failure)
       /\ last' = IF r = Failure THEN last ELSE r
  /\ UNCHANGED <<sinks, received, sent>>

WriteOutput(sink, n) ==
  /\ ~stopped
  /\ Len(sent[sink]) < MaxWrites
  /\ \E ok \in BOOLEAN :
       /\ DeviceWrites(sink, n % Base, ok)
       /\ stopped' = ~ok
       /\ sent' = IF ok THEN [sent EXCEPT ![sink] = Append(@, n)] ELSE sent
  /\ UNCHANGED <<device, last, received>>

DeviceNext ==
  \/ ReadInput
  \/ PeekInput
  \/ \E sink \in Sinks, n \in Outputs : WriteOutput(sink, n)

DeviceSpec == DeviceInit /\ [][DeviceNext]_deviceVars

-----------------------------------------------------------------------------
Streams == {"std", "libc"}

(* What a reader of the device should get: its bytes in order and then ends  *)
(* of input, with one more behind each chunk of a terminal.                 *)
Script ==
  CASE device.kind = "void" -> <<>>
    [] device.kind \in Streams ->
         SE!FlattenSeq([k \in DOMAIN device.data |-> Append(device.data[k], EndOfInput)])
    [] OTHER -> SE!FlattenSeq(device.data)

(* However reads and peeks alternate and the input is cut into slices, the   *)
(* program gets every byte once and in order, no end of input before the     *)
(* last one, and nothing but ends after it; what it has peeked comes next.   *)
InputInOrder ==
  LET got == IF last = NoByte THEN received ELSE Append(received, last)
  IN \A i \in DOMAIN got : got[i] = IF i <= Len(Script) THEN Script[i] ELSE EndOfInput

(* A sink holds the bytes whose writing has returned to the program, all of  *)
(* them and nothing else: a write that finds it full, or that fails, leaves  *)
(* it as it was and ends the run.                                          *)
OutputKept ==
  device.kind # "void" =>
    \A s \in Sinks :
      /\ sinks[s] = [i \in DOMAIN sent[s] |-> sent[s][i] % Base]
      /\ device.kind \notin Streams => Len(sinks[s]) <= Room[s]
=============================================================================
