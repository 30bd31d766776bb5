# TLA+ models of Stak Scheme

Stak Scheme is a Scheme system whose compiler, written in Scheme, turns a
program and its libraries into a bytecode, and whose virtual machine, written in
Rust, decodes the bytecode into a graph of two-field cells and runs it in a heap
with a copying collector. This directory holds TLA+ models of its parts, the TLC
configurations that check them on small instances, and TLAPS proofs for
instances of every size. Paths below are relative to the repository.

## 1. Inventory

Components, the state they keep, their operations, how they meet, and what makes
each of them correct. `PROJECT.json` has the same list with its status.

| Component | State | Operations | Talks to | What makes it correct |
|---|---|---|---|---|
| Memory (`vm/src/memory.rs`, `cons.rs`, `value.rs`) | heap slots, active space, allocation index, roots `code`, `stack`, `false`, `register` | allocate, read, write, push, pop, collect | every component: all of them allocate in it | no reference dangles, sharing and tags survive a move, a collection succeeds and ends |
| Values (`vm/src/value.rs`, `number.rs`, `cons.rs`) | - | encode, decode, compare, compute | every component | a word means one value; arithmetic wraps around consistently |
| Interpreter (`vm/src/vm.rs`) | the roots, plus Rust locals inside of a call | constant, get, set, if, call, tail call, return | memory, primitive sets | locals are not used after the allocation that moved what they refer to; frames are popped to their callers; tail calls need no memory |
| Decoder (`vm/src/vm.rs`) and encoder (`compile.scm`) | decoder: value stack, move-to-front dictionary; encoder: the same dictionary, reference counts | one operation per kind of code | each other, through the bytes | decoding what was encoded gives the same graph with the same sharing |
| Compiler (`compile.scm`) | contexts of libraries, macros and locals | expand, optimise, compile, marshal | the interpreter, through the code it emits | a program means after compilation what it meant before |
| Control operators (`prelude.scm`) | current point of `dynamic-wind`, parameters, handlers | `call/cc`, `dynamic-wind`, `parameterize`, `raise`, `guard`, `exit` | interpreter (frames), ports | before and after thunks alternate, handlers and parameters are those of the extent one is in |
| Ports, files, lazy (`prelude.scm`) | peeked byte, descriptors, promises | read, peek, write, close, force | devices, file systems | no byte is lost or read twice, a closed port stays closed |
| Balanced trees (`aa-tree.scm`) | nodes with levels | insert, find | library code | order and balance |
| Primitive sets (`r7rs`, `native`, `inexact`) | none | one per primitive number | memory, each other by number | the routine that a program names runs, on its own operands; data are told apart as they were made |
| Dynamic primitives (`dynamic/`) | table of foreign values, converters of types | call, convert, collect | memory, Rust functions | a foreign value lives for as long as a cell refers to it, and its slot is not given away before; what is converted stays what it was |
| Devices (`device/`), file systems (`file/`) | buffers with indices, descriptor tables | read, write, open, close, delete | operating system | bytes arrive once and in order, a full buffer or table changes nothing, descriptors of different files differ |
| Process context, time | none | one read each | operating system | lists that are built over collections hold what the process has |
| Profiler (`profiler/`) | stack of open calls | record, pair, collapse, reverse, add up | interpreter hooks | every return closes the call it belongs to, no time is lost between the tools |
| Engine, modules (`engine/`, `module/`) | one machine over many runs | run, reload | decoder, memory, dynamic primitives | a run does not depend on what the last one left |
| Build scripts (`build/`) | a task per source file, a child process with two pipes | compile, write | operating system, compiler | every file is built or an error is reported |
| Compiler crate, commands, macros, minifier, wasm, util | - | glue | everything above | - |

The hard behaviours of this system are not many threads. They are: a moving
collector under clients that keep references in locals; heap cells that frames,
closures and continuations share and that the interpreter writes in place;
encoder and decoder that must walk through the same states of a dictionary;
continuations that leave and re-enter what other code believes to be a nested
extent; tables whose entries are freed by
scanning or given out again while someone still names them; errors that a program
never sees; and, in the build scripts, a
child process at both ends of two bounded pipes.

## 2. The heap: `Memory`, `Store`, `NamedMemory`

`Memory` is `vm/src/memory.rs` slot by slot. `heap`, `allocIdx`, `space` and
`roots` are the fields of the struct; the fifth root, `Result`, is the cell that
`allocate` passes to `collect_garbages`. The mutator is any program over the
public methods. Its Rust locals are `held`: what it read since its last
allocation, because an allocation may move every cell. `Allocate` is
`allocate_unchecked`; then either `FinishAllocation` returns the cell or
`StartCollection` flips the spaces, `CopyRoot` copies the roots in the order of
the code, `ScanSlot` is one turn of the scan loop, and `FinishCollection` ends
it. The collector runs in the middle of a call, so nothing interleaves with it;
its steps are separate so that the invariants speak about half-copied heaps.

Two things are not in the code. `FinishCollection` overwrites the abandoned
space with `Poison`; the code leaves the old contents there, and a model that
did the same would let a stale reference read a value that merely happens to be
intact. `Consable` is a contract of the clients: `cons` onto `NEVER` (an empty
stack or share dictionary before the program is loaded) strips the tag that
makes it `NEVER` and leaves a reference to index 0, which is harmless only as
long as the lower space is active.

`Store` says what clients rely on: objects with identities that never move,
collections that drop what the roots do not reach and nothing else.
`NamedMemory` adds an auxiliary variable that names cells and shows that the heap
implements `Store`, the termination of collections included.

| Run | Question | Result |
|---|---|---|
| `memory_heap` | do the invariants hold for any program over one root (`TypeOK`, `HeapInvariant`, `NoDanglingReference`, `HalfCopied`, `AllocationFits`), and does no collection fail (`CollectionSucceeds`) or go on for ever (`CollectionEnds`)? | yes |
| `memory_refines` | does the moving heap implement `Store` (`StorePromise`)? | yes |

Bounds. With two spaces of three cells (`HeapSize = 12`) every allocation of the
program collects, since `new` already takes two of them; `memory_refines` uses it
with two tags, so that a reference and its cell can disagree about the tag, and
with writes of both fields of cells. `memory_heap` has a cell more (`HeapSize = 16`)
and writes the register and the car of cells, so that allocations with and without
a collection alternate. One local (`MaxHeld = 1`) is enough to hold a reference over
an allocation, and the roots and written fields give shared and cyclic data. Atoms
stand for numbers, of which the collector only asks whether they are references.
`GcAlways` is the `gc_always` feature; the runs have it off, the proofs allow both.
The proofs remove the other bounds too (`MemoryProofs`), but for one: a heap size that is not a
multiple of 4 gives spaces of an odd number of slots, whose last cell extends over
the end of the space, against the assertion of memory.rs:212; with `HeapSize = 10`
TLC shows `AllocationFits` violated. No other size is affected.

Fairness. `WF` of the collector's steps: the collector is a loop in one thread
that nothing preempts. Nothing is assumed of the mutator.

## 3. The machine: `Cells`, `Vm`

`Vm` is the instruction loop of `vm/src/vm.rs`. Its variables are the roots of
`Memory`, a program counter inside of `call`, and the Rust locals of `call`,
numbers and flags in `call` and references in `locals`. Between two instructions
an action is a whole instruction; `call` is split at its allocations:
`CallClosure` up to the loop over the arguments, `CollectArgument` one argument,
`EnterProcedure` the swap of code and register and the continuation, `PushFrame`
the frame and the jump, `BindParameter`, `BindRest`, `StartBody` the loop over
the parameters and its end. `CallPrimitive`, `SpreadArgument` and `SpreadEnd` are
the branch for primitives, and each primitive is one action that pops, computes,
pushes and runs `advance_code`, as `Finish` does.

Memory is what `Store` promises: `heap` is a sequence of cells that nothing
moves. What the collector does to a client is there all the same: each
allocation turns every local into `Stale` but the one that receives its
result, which is what a move does to a reference that is no root. The heap only
grows (to `MaxCells`, after which an allocation reports that memory is out), and
what is garbage is told by reachability (`Live`).

Numbers are integers, without width: the corpus computes with small ones.
`assume_cons` of a number and `assume_number` of a cell return some cell and some
number, as in a release build; the assertions of debug builds are not modelled.

| Property | What it says | Run |
|---|---|---|
| `HeapClosed` | no stale reference is read or kept (the comment at vm.rs:53) | `execution` |
| `StacksKept` | no step relinks a cell of the stack of a suspended caller; `advance_code` writes a cdr in place, and needs that the cell on top is shared with nobody | `execution` |
| `Ends` | every run of a program comes to its end | `execution` |
| `ConstantSpace` | a loop by tail calls keeps no more cells alive the longer it runs | `execution` |

`execution` runs the whole corpus (next section), with programs that only have to run
among it (`MachineOnly`). `ConstantSpace` speaks about the loops of the
corpus, of 16 turns each: the bound of 24 cells is reached within the first
turns, and one cell kept by each turn exceeds it by the last; `LoadedCells` is
the size of the largest of these programs, which the run checks
(`LoadedAssumption`).

Fairness is `WF` of the whole step: only the machine itself stops the machine.
Its steps are deterministic, so there is nothing to choose between.

## 4. From source to result: `Compiler`, `Prelude`, `Control`, `Execution`

`Compiler` is the code generator of `compile.scm`, function by function: it takes
an expression after macro expansion and builds the cells of the decoded program.
`Prelude` is `list` and `call/cc` of `prelude.scm` as expressions, so that a
continuation is what it is in the program: Scheme code that reads and writes
its own stack through `close`. `Scheme` is not modelled from the code. It is
the language: a small abstract machine with environments and explicit
continuations, after R7RS, which knows nothing about cells or stacks.
`Execution` runs a compiled program on `Vm`, then the expression on `Scheme`, and
compares: `MeaningKept` demands the same error or the same value, and the same
values in the global variables. `Corpus` holds the programs, as small grammars.

`Control` has the rest of the control operators of `prelude.scm`: `dynamic-wind`,
`call/cc` that travels between points, `make-parameter` and `parameterize`, handlers,
`raise`, `guard`, `unwind` and promises. They are Scheme code, so the model is that
code, as expressions that the machine of `Scheme` runs with a `$call/cc` that knows
nothing of extents; the state they keep (`current-point`, the variable of a parameter)
is in its store. Then `Extents` runs the same program without them: there an extent,
a bound parameter or a handler is a frame of the continuation, as R7RS 4.2 and 6 say,
and nothing else is kept. `ExtentsKept` compares the two. Like `Scheme`, `Extents` is
the language and has no lines in the map. The programs (`ControlPrograms`) put an
extent, a parameter, a handler and a guard around a mark, an escape, a capture, a
promise and four ways to raise, and pairs of them with a handler or a guard in them
around the raises and the capture; and they enter a continuation of one place in an
extent from another one and back, for four kinds of place. Every piece of code that
runs leaves a mark with the value of the parameter, and the list of marks is compared.

| Run | Programs | Result |
|---|---|---|
| `execution` | all forms nested twice around an escape procedure; every arity, `apply`, rest parameters and wrong counts in three positions; continuations entered three times in one or two nested contexts; loops by tail calls | `MeaningKept` and `ConstantSpace` hold |
| `bytecode` | extents, parameters, handlers, guards and promises | `ExtentsKept` holds |
| `execution_reenter_let` | continuations entered again in an operand of a `let` that is not in tail position | `MeaningKept` is violated |

The last one is a finding. A call whose procedure is an expression (each `let`)
keeps that procedure in a stack cell under its operands, and in the end
`compile-unbind` has the result written into that cell. A continuation that was
captured in an operand shares the cell; when it is entered again, the machine
finds a number where the procedure was and stops with `ProcedureExpected`.

Bounds. Two levels of nesting put each form in each position of each other form
(operand, test, branch, body, last expression); three entries of a continuation
distinguish the first, the second and a later one. `MaxCells` is more than
any program of these runs uses, so none ends for lack of memory, but for one that
keeps everything and is there to do so (`MachineOnly`: it has no meaning to compare).

For extents, two layers are what a wrong handler needs, the one that raises and the
one outside; a place with two extents tells the order in which they are entered
(the mutant swaps it), and travelling to it from two others tells the common ancestor.
A continuation is entered again up to two times.

The code and the language part in three places, for which `ExtentsKept` is violated; the
programs of the run avoid them, and the hazards name their lines. An `after` thunk
that `travel-to-point!` runs and that escapes is run again, because the current point is
still the extent it leaves. `parameterize` gives the old value back, and gives the new
one again on re-entry, through the converter of the parameter, so a converter must
not change what it has converted (`Clamp` does not). A promise whose body forces the promise
keeps the last value and not the first.

Left out: the build of primitives by `set!` at the start of a
program (their cells are there from the start), and marshalling, which copies
code and constants to cells without a change that the machine could see. `Prelude`'s
`call/cc` runs on the stack of `Vm` in a single extent, `Control`'s on an abstract machine.
An error object is one value, a guard has one clause, `parameterize` has one binding.

## 5. From compiler to machine: `Bytecode`, `Bytes`

`Bytecode` has both ends of the wire in one state. The encoder's recursive
functions (`count-ribs!`, `encode-rib`, `encode` of `compile.scm`) are a loop over
`todo`, the work that is left in order; `counts` and `dictionary` are the fields
of `encode-context`. The decoder is `decode_ribs` of `vm.rs`: one action per kind
of code, over its cells, its value stack and its dictionary, which is the `code`
field of the machine. It reads each code as soon as it is written, because it
depends on nothing but the codes; `image` is auxiliary and names the decoded cell
of each source cell. A code is a kind and a number; how it becomes bytes is in
`Bytes`, whose actions are one turn each of the loops in `decode_ribs` and
`decode_integer_tail` over the bytes that `EncodeCode` (the writer, an operator)
gives. `MCBytecode` runs both, and `Control` (section 4), whose code is sent with every
program: a behaviour is about codes, about bytes or about control (`about`).

| Property | What it says | Run |
|---|---|---|
| `DictionariesAgree` | after every code the decoder's dictionary holds the images of the encoder's, in the same order, on top of what an earlier run left | `bytecode` |
| `ProgramKept` | the decoded graph is the compiler's without its nops, with its sharing: no symbol is copied, no two are confused, the branches of an `if` meet in one cell | `bytecode` |
| `ProgramDelivered` | the counts of the first traversal are used up by the second, so `encode` never ends in one of its two errors | `bytecode` |
| `CodeKept` | a code takes its own bytes only and is a code of its kind; a number that the decoder has room for is read as it was written, and makes no debug build panic; cut short it is `BytecodeEnd` | `bytecode` |
| `FloatKept` | a float keeps its sign, and its magnitude to the precision the encoder keeps, or but for less than `epsilon` | `bytecode` holds, `bytes_small_floats` violated |

`BytecodeProofs` proves `DictionariesAgree` for every source, half of `ProgramKept`,
`ProgramUnfolds`, and `CodeKept` and `FloatKept` for every code (section 10). The
assumptions on the constants are that values are references to cells of the program or
numbers, that the lists of an earlier run are lists (`SourcesAssumption`,
`LeftoversAssumption`), and that codes have the fields of their kind and a float
no exponent below -1023 (`CodesAssumption`). `PowersAssumption` is a fact of arithmetic
that the provers lack: powers of two double. `WidthsAssumption` says that the widths of the
decoder's integers are multiples of what they are divided by and far enough apart, as
2^16, 2^64 and 2^128 are, and `FloatsAssumption` that a float, as it is packed, is far
below 2^128.

`Bytes` has the integers of both ends with their widths. The compiler counts exactly: its
numbers are those of the program that it is run with. The decoder adds up a `u128`
(`SumSpan`), casts it with `as` to a `Tag` (`TagSpan`), a `usize` or an `i64` (`WordSpan`),
and makes a `Number` of it, which keeps 63 bits or, with the feature `float`, the
`Precision` of a double. `build` says whether integers are checked for overflow, as in a
debug build, and whether there are floats. So a shape of 65536 arrives as 0 and a number of
2^62 with another sign; `CodeKept` does not claim otherwise. What it claims for every number
is framing and kind; the value for those that fit (`Fits`, whose bounds are the exact ones);
and of a panic, that some number did not fit. The limits are those of the representation
(limitations.md:10 names 63 bits), so a number behind them is not taken for a finding.

Bounds. The programs are 48 quotations of four data that share characters,
strings, symbols and pairs, and the compiled programs of `Corpus` with branches
in every position; each is sent to a fresh machine and to one that has run
before. Values of codes lie around the limits of one, two, three and four bytes
and above and below the split of the first byte, and two on both sides of every width of
the decoder. TLC computes with 32 bits: the widths, but for the real one of tags, are
scaled to 2^20 for words and 2^30 for the sum, the
precision of floats (30 bits in `decompose-float`) is the parameter `FloatBits`,
here 4, `epsilon` is 1/200, and mantissas have up to 9 bits, so that floats are kept exactly,
rounded down, up and to even, and lose a fraction that is too small; the widths of exponents
and of the decoder's shift are the real ones. With exponents from -63 on `FloatKept` holds;
from -64 on the decoder's shift overflows, which is a finding (`bytes_small_floats`). The
arithmetic of floats itself is the processor's: a quotient by a power of two is exact.

## 6. Values: `Words`, `Natives`, `Primitives`, `HostData`, `Dynamic`

`Vm` takes numbers for integers and data for cells. These modules say what is below
and around them. They share no variable, and `MCValues` runs them side by side: a
behaviour is about one of them.

`Words` is a value as a machine word in a build without floats: the encodings of
`number.rs`, `value.rs` and `cons.rs` with their width (`WordBits`, 64 in the code),
the arithmetic of `r7rs/src/small.rs`, and on top of it the procedures of
`prelude.scm` on numbers and their text. A calculation has one register, `word`;
`meaning` is what it is supposed to hold, without a limit. `Debug` is a build with
overflow checks, in which a product or a division by zero may end the
calculation (`Panic`). A conversion that cuts off (`number.rs:24`) is modelled by what
it cuts off.

`Natives` are the predicates and searches of `native/src` over data that a program
builds with the constructors of the prelude. `kinds` remembers which constructor
made a cell; the code knows it from tags only.

`Primitives` are the numbers. A primitive has a number in `prelude.scm` or
`compile.scm`, one in the enumeration of `SmallPrimitiveSet`, and one in that of the set
that it is passed on to, less a base; an engine puts another set above 1000. Each
enumeration is translated from its own file, and a call runs through all of them
with the pops of the routine at the end. `Functions` are the Rust functions of an
engine, and `define-rust` counts them.

`HostData` is what crosses to and from the host: command line and environment of
the four process contexts, built as lists one allocation at a time (each makes
references in Rust locals `Stale`, as in `Vm`), and the conversions of booleans,
integers and strings around a Rust function that returns its argument. Integers of
the host have `IntegerBits` bits.

`Dynamic` is the table of `dynamic/src/primitive_set.rs`. `values` is the vector,
and `FillSlot` is `allocate` of the table with its three ways to a slot: a free one, one
that `collect_garbages` frees, a new one. It and `AllocateCell` are two actions
because the allocation between them can fail (`FailToAllocate`), and because
the heap may be collected there. Of the heap the model keeps the cells with a
foreign tag that lie in the current space, dead ones included, since the
table's collector scans the space and not the reachable cells; `held` is what
the program still reaches, and what the heap's collector keeps. `Forge` makes a
cell with a foreign tag that is no foreign value, `RunNext` is the next module of an
`Engine`. `owner` of a cell is auxiliary.

| Property | What it says | Run |
|---|---|---|
| `WordMeans` | a word is the reference with the last tag, or the number up to multiples of 2^63: sums, differences and products that leave the range and come back are right again | `values` |
| `TextKept` | a number that is printed and read again is the same, but for the least one | `values` |
| `PredicatesTell` | `equal?`, `eqv?`, `pair?` and `null?` tell data apart just as they were made and as `write` shows them, through all shortcuts of `equal-inner?` | `values` |
| `SearchesFind` | `memq` and `assq` find the first match, or `#f` | `values` |
| `PrimitivesAgree` | a call by number runs the routine that its name means, with its operands in their order, and replaces them and nothing else by one value | `values` |
| `HostKept` | the program gets what the process has and the function what the program gave, wherever a collection strikes | `values` |
| `ValuesKept` | every cell that was made for a foreign value, dead or alive, names a slot that holds this value | `values` |
| `TableBounded` | the table has at most one slot more than the heap has room for | `values` |
| `BooleansCross` | a Rust function that returns its boolean argument is the identity | `values_booleans`, violated |

The last one is a finding: `bool::from_scheme` compares with `#f`.

`TypeOK` of the run is that of `Dynamic`. Bounds: words of 9 bits and tags of 2 have
every case of the encodings (overflow in both directions, the least number, tags that
need all their bits) in 512 words. Three cells beyond null and the booleans make
lists of three elements, pairs of pairs, strings, characters and symbols in every
combination that `equal?` can be wrong about at its first two levels. Two values on the
stack before a call show what a routine that pops too much takes. Room for two
foreign cells and six values let each slot be taken three times, with collections of
either kind in between. The proofs (`ValueProofs`, section 10) remove these two bounds and
those on words: tags have at least one bit, a word is a multiple of what index and tag
need, programs start from numbers that fit (`WordsAssumption`), and a word holds the
number ten (`WordBitsAssumption`, with the doubling of powers of two).

## 7. The build script: `Build`

`Build` is `build/src/lib.rs`: `spawned` and `awaited` are the two loops of
`build`, `task` says between which awaits of `compile` each file is, and next to
each task runs the compiler process with its two pipes. Sources and outputs are
counted in pieces of which a pipe holds `PipeSize`. The process reads its
source to the end and then writes (`main` of `compile.scm`).

| Run | Question | Result |
|---|---|---|
| `build_files` | with failures of the system, of compiler processes and of the compiler of the crate, and outputs that fit a pipe: does every build end (`BuildEnds`), and is every file what its compiler has made when it succeeds (`FilesComplete`)? | yes |
| `build_large_output` | does every build end when an output is larger than a pipe? | no: `wait` comes before `read_to_end` |

A compiler process may fail at any time (`Abort`), in the middle of its output too, as it
does for a source that does not compile. `compile` drops the exit status that `wait`
returns (lib.rs:119), so such a build succeeds, with a file that is empty or
cut off. `FilesComplete` says so: a file of a build that succeeds holds all of the output,
or just what its process had written when it failed (`Made`). It also says that there is no
other way to a bad file: no failure of the system, no dropped task, no pipe and no failure of
another file's compiler leaves one behind a build that succeeds. The comment of `build_r7rs`
(lib.rs:46-48) promises bytecode files and says nothing of errors; the hazards have the line.

Two files are enough for a task to fail or to hang before and behind another
one; sources of three pieces and pipes of two make both ends of a pipe wait.
Fairness is weak fairness of `build`, of each task and of each process: the
runtime polls every task that was woken, and the operating system runs every
process that is not blocked. Nothing has to fail: failures (`Failure`) are outside the
fairness, and nothing is assumed about when they come.

## 8. Ports, files and devices: `Ports`, `Files`, `Cursors`, `Devices`

`Files` has the four file systems behind the file primitives: `system` says which one
the machine was built with. The table of open files is one function from
descriptors for all of them; what differs are the guards: `memory.rs` takes the first
free entry and so gives descriptors out again, `libc.rs` and `os.rs` count, `libc.rs` has
room for `Capacity` files and finds out after the kernel has created or cut the file.
The kernel (names, inodes that live while a file is open, truncation, gaps) is
modelled as far as they use it and marked external. It may refuse to open any file
(`KernelRefuses`: permissions, too many descriptors).

`Ports` is a port of `prelude.scm` over a descriptor, with the byte that `peek-u8` has
read ahead. A port does not know that it was closed, so programs may go on using it
(`StaleUse`). `Cursors` is the abstract specification: a port is a cursor on a file,
without descriptors; the map from ports to cursors is the operator `Cursor`.

`Devices` has the five devices behind the standard ports, chunk by chunk, with
`read-u8`, `peek-u8` and `write-u8` on the current ports. An error of a device ends
the run (`stopped`): unlike that of a file it is no `#f`.

| Property | What it says |
|---|---|
| `PortsOwnFiles` | open files and open ports are the same, one each; no file stays open without its port, and closing twice frees once |
| `CursorPromise` | ports implement `Cursors`: no byte is skipped or repeated, no port moves another, an open fails only for a reason the program can know or because the system refuses, and changes nothing but what `libc.rs` cuts |
| `InputInOrder` | every byte of a device once and in order, through peeks and empty slices, and no end of input before the end |
| `OutputKept` | a sink holds exactly the bytes whose writing has returned; a full one stays as it was |

All are checked by `ports` and proved for instances of every size (`PortsProofs`;
the types of files and ports are part of the invariants). `StaleUse`
leaves out `memory.rs`: there a port that is used after its close reads, and closes,
the file that has taken its descriptor, and both properties of ports are violated
(see the hazards). Bounds: two names, one of which
`decode_path` has no room for, three ports over a table of two, three opens, and
files of up to two bytes; that is one more of each than any conflict needs. The
number 3 is no byte (`ByteBase = 2`). Opens are bounded because the counter of descriptors
is; TLC takes ports for symmetric, and forgets `result`, which no action reads
(`VIEW`).

Reads of and writes to a regular file are taken not to fail, nor to delete a name that
exists; permissions matter for opens only. The buffer of a line that the standard output of
Rust has above the kernel is left out: a byte that is written counts as taken. And
characters are what ports take them for, bytes.

## 9. The profiler: `Profiler`

`frames` are the frames of the machine with the operand of the call that made each;
`Call`, `TailCall`, `Return` and `Throw` (a continuation) write the lines that the
hooks in `vm.rs` write. A line is a list of columns and a number, so that reading
a file is modelled: what does not parse is dropped, no frame and one frame without a
name have the same text. `Analysis` is `calculate_durations`, a fold over the records
that stops at its first error, and `Analyze` the four commands of `stak-profile`.
`entered` and `ended` are auxiliary: what the durations should be.
`Throw` stands for two lines only: the procedures that the body of a continuation calls
itself (prelude.scm:1658-1662) call and return in between and are left out, and its operand
has no name.

| Property | What it says |
|---|---|
| `DurationsExact` | without continuations every procedure that has ended is there, in order, with its own stack and the time since its own call |
| `NeverMissing` | a program that only escapes never makes the analysis stop for a missing call |
| `FlamegraphAdds` | collapsing and reversing in either order give the same; the graph has their stacks, no frame followed by itself, and no other, and loses no time |

`profiler` checks them for every profile of up to 11 lines (`MaxRecords`), four of which are
the events of the start: seven calls and returns let a continuation be captured in
one frame, left, and entered again from another.

## 10. Proofs

`MemoryProofs` proves for every heap whose spaces hold whole cells
(`EvenSpace`: the size is a multiple of 4; section 2 says why it is
needed), every set of atoms, tags and client operations:

- `TypeCorrect`, `NothingDangles`, `SpaceIsNeverOverrun`, `CollectionIsConsistent`:
  the properties of `memory_heap`;
- `HeapInvariantHolds`: the inductive invariant behind them. `TypeOK` and the
  absence of dangling references are not inductive: a collection moves through
  states where half of the references lead to the old space. `HeapInvariant`
  says which of them may (roots not yet copied, slots not yet scanned), that a
  moved cell holds a forward pointer to a whole cell below the allocation index,
  and that the cells allocated in the new space are as many as the cells moved in the
  old one;
- `CollectionNeverFails`: the count of moved cells bounds the allocation index,
  so a copy never finds the space full.

Its second half proves `HeapImplementsStore`: under `EvenSpace` every behaviour of the
heap with named cells is one of `Store` (`StoreSteps`, the safety part of
`StorePromise`). An operation of the mutator is the operation of `Store` on the objects
named; a step that copies a cell or updates a slot is a stutter, because `Resolve`
reads through the forward pointers; the last step of a collection is `Collect`. The
invariant `Naming`, on top of `HeapInvariant`, says that no two slots share a name,
that the cells with one are those allocated and, during a collection, those that
wait to be copied (`NamesGiven`), that a collection runs only where `Store` lets one
(`CollectionDue`), and that whatever has been copied can be reached from the roots.
That last part gives one half of what `Collect` asks, that only reachable objects
stay. The other half, that all of them stay, needs no induction along paths:
reachability is the least set that is closed under references, and when the scan
is at its end the objects copied are such a set (`CopiesAreReachable`, `CollectionMaps`).

`VmProofs` proves `TypeCorrect` and `NoStaleReference` for every set of decoded
programs (`ProgramsAssumption`: a program's cells refer to its own cells and the
first cell exists; the decoder builds nothing else) and every size of the
memory. `HeapClosed` itself is inductive together with `TypeOK`, thanks to its
conjuncts about the places inside of `call`; the proof has one lemma per action,
on top of lemmas about heaps (appending a cell, writing a field, walking a
list).

`ValueProofs` proves `WordsStandForValues` (`WordMeans`) and `NumbersAreReadBack`
(`TextKept`) for words and tags of every width. The invariant `WordInv` is that the register
is a word that stands for its meaning: the reference of a cell with its tag, or the odd
word of a number that differs from the exact one by a multiple of what a word holds
(`Agree`), and is the exact one where that fits. Sums, differences and products keep it
because agreement is a congruence (`AgreementIsKept`), a division because the machine
panics or has the exact operands (`DivisionInWords`). For the text, the loop of
`number->string` is a sequence of numbers, each a tenth of the one before, whose end comes
before the bits of a word run out (`TenthsEnd`); a digit that is read undoes one division
(`DigitIsRead`), and so the fold of `string->number` runs back through the same numbers.

It also proves `TypeCorrect`, `SlotsBelongToCells` (`ValuesKept`) and
`TableStaysSmall` (`TableBounded`) of `Dynamic` for every room of the heap, every number of
values and every set of forged numbers. The invariant adds to the properties that
the slot of a value without a cell is taken and that the space is never
overfull. The one argument that is not local is `FullTable`: a table without a
free slot after a scan has a cell for each slot, so it has no more slots than
the space has cells (a surjection from cells to slots).

And of `HostData` it proves `HostDataArrive` (`HostKept`) for command lines and
environments of any length, texts of any length, and integers of every width
(`HostAssumption`: texts are sequences of the codes of characters). `HostInv` follows
each routine through its loop: what is built so far is the part of what the host
has that was taken, from the end (`LastOnes`) or from the start (`FirstOnesReversed`),
each element with its text in cells (`TextAt`, `StringsAt`, `VariablesAt`), and the
string in hand is made of the characters that are left and those in cells
(`Building`). That what is built stays rests on the order in which cells are made: a
`cdr` leads to an older cell, but for the entries of the environment, which are made
empty and filled later, and to which no `cdr` leads (`Acyclic`). So a field of an
entry that is set changes no text and no list, and a walk along `cdr`s ends
(`WalkEnds`): what the program reads is what was built.

And of `Natives` it proves `PredicatesAlwaysTell` (`PredicatesTell`) and `SearchesAlwaysFind`
(`SearchesFind`) for as many cells as a program makes and whatever integers are in
them (`DataNumbersAssumption`). The invariant `DataInv` is what makes the recursive
operators come out: every cell is what its constructor made out of older cells
(`MadeCell`), the lists have their elements, and each cell its text. `Lists`, `Elements`,
`Written` and `Equal` are then computed from older cells, and induction over their age
gives what they are (`ListsAre`, `ElementsAre`, `WrittenIs`, `EqualIs`). The shortcuts are
where the work is. `equal-inner?` takes two strings or vectors when the numbers in their
`car`s are the same: those are lengths, and lists that are written alike are equally
long (`LengthsAgree`). It takes any two cells with the same tag whose `car`s are both
numbers and equal, but no two unique ones, and unequal numbers are written
differently (`AlikeIsWritten`). A search visits the cells of a list in the order of its
elements (`IsChain`), and each of them starts the rest of the list.

`BytecodeProofs` proves `DictionariesStayEqual` (`DictionariesAgree`) and `ProgramUnfolds` for
every source, nops, sharing and cycles included, and for whatever an earlier run
left. `ProgramUnfolds` says that the graph that `decode_ribs` returns unfolds to the graph
that the compiler had, without its nops and with the same types: `Related` is the greatest
relation between decoded cells and cells of the source in which related cells have the
same tag and related fields. That the dictionaries agree is not inductive, because
a code is about the value on top of the decoder's stack, and that value was pushed
any number of codes before. The invariant `Kept` has two halves. `Working` is about the
encoder: all that is to be sent before a cell is below it (`Descends`), what has been
sent is on no cycle (`Grounded`), and so no cell is in the dictionary before its own code
(`Unsent`). No hypothesis excludes cycles: a cell on a cycle is never sent, because the
encoder does not come back from its fields.
`Keeping` is about the decoder: there is a plan of the stacks that each task is going to
find, the first of which the stack of the decoder shows (`Shows`) as soon as it has read
the codes on their way (`InFlight`, `Sharing`), and the last is the root alone. The counts of
the first traversal do not occur in it but for their domain: if they were wrong, `encode`
would end in one of its errors or a value would be sent twice, but the machine would still
unfold what was sent to the same program.

Its second half is about bytes: `CodesArrive` (`CodeKept`) for every code, every build and
all widths, and `FloatsArrive` (`FloatKept`) for every float whose written exponent is less
than 64 either way (`ShiftsFit`, which the finding of `bytes_small_floats` shows to be
needed). While the decoder is in `decode_integer_tail`, the number sent is what has been
added up plus `base` times a rest plus a multiple of 2^128 (`SumAgrees`), without that multiple
if the number is small (`SumIsExact`, under which neither the sum nor the base overflows,
`TurnIsExact`), and the bytes to come are those that the writer makes of this rest, less
what is missing, and what follows (`Waits`); the lowest bit of the last group tells whether
the rest is zero. The congruence is all that is left of a number that is too large; it is
enough for its kind, which is in the two lowest bits (`LowBits`). A number that fits is small
(`RoomForAll`), and the casts leave it alone (`SignedIs`, `NumberArrives`, `IndexArrives`).
A float has its fields where `decode_number` looks for them (`Packed`), and
`decompose-float` drops no more than half of the last bit it keeps (`RoundedIs`); it drops
less than `epsilon` (`WholeIsNear`) or keeps more than `FloatBits` bits (`BitsAreLeft`),
which rests on a number being no less than two to its logarithm (`PowerBelow`).

`BuildProofs` proves `TypeCorrect` and `SuccessIsComplete` (`FilesComplete`) for every
number of files and every size of sources, outputs and pipes, whatever fails. Its invariant
`Flow` says that what a process has written is in its pipe or with its task, `Whole` that a
process that has ended without an error has written everything and that what was collected
is what its process made, and `Ended` what `build` has waited for.

`PortsProofs` proves `OpenPortsOwnOpenFiles` (`PortsOwnFiles`) for every number of ports,
paths and entries and for whatever a program does with its ports, closed ones
included (`StaleUnused` asks only programs on `memory.rs` to leave those alone). What
makes it inductive, `Counted`, is that `libc.rs` and `os.rs` never give a descriptor out
again: the counter is above every descriptor in use and above that of every port, so
a closed port's is no open port's and closing it twice closes nothing else.

It also proves `PortsAreCursors` (`CursorPromise`) under the same condition and on top of
that invariant: each operation of a port is that of its cursor, or a stutter on a port
that is closed. What it adds to the invariant is that files hold bytes (`Filled`), and
that there are as many open files as open ports, so that the table of `memory.rs` is
full only when a program that counts its ports can know (`OpenPortsMatch`).

And of `Devices` it proves `DeliversInOrder` (`InputInOrder`) and `KeepsOutput` (`OutputKept`)
for inputs of any number of chunks of any length, and programs of any number of reads.
`Delivered` says that what the program has got, the peeked byte included, is the
script so far, and that it has got as much as the device has passed (`Follows`).
Where a chunk and an index are in the joined chunks is the function `Before`, which
exists by induction over the number of chunks (`IsFlat` is what the proofs use of it).
`Kept` adds to `OutputKept` that sinks hold bytes.

`ProfilerProofs` proves `ProfileIsExact` (`DurationsExact`), `AnalysisGoesOn`
(`NeverMissing`) and `FlamegraphIsExact` (`FlamegraphAdds`) for profiles of any length and programs of any procedures. The
analysis is a loop over the records of the whole file. `AfterOneMore` says that with
one more line it is one more step of that loop, and so what an event does to the
machine can be compared with what the step does to the state of the analysis.
`ProfilerInv` has four parts. `Typed` gives the values their types. `Timed` says that the
clock starts with the first record, which takes a line that parses. `Follows` is for
programs without continuations: the open records are the calls of the frames, one
for one and in order (`Matches`). `Covers` is for programs that escape: there the
analysis forgets to close what an escape leaves, so it has at least one open record
for each frame, of the operation that made it. `FlamegraphAdds` needs no more of the
states than that the durations are well-formed: a file of them is read back as it was
written (`WrittenIsRead`), a collapsed stack is the only one that the frames fall into in
order (`IsCollapse`, `OneCollapse`), which read backwards is the same for the reversed
stack (`CollapseReverse`), and the graph and the sum of a stack grow together, record by
record (`GraphAddsUp`). Folds over sequences are loops over their positions (`FoldRuns`,
`FoldGoesUp`).

Out of the prover's reach, and checked by TLC only: liveness (`CollectionEnds`,
`Ends`, `ProgramDelivered`, `BuildEnds`, and the fairness that `StorePromise` adds to
`StoreSteps`), and everything about `Compiler`, `Corpus`, `Scheme`, `Control`, `Extents` and
`Execution`, whose definitions are recursive over expressions. `StacksKept` and
`ConstantSpace` speak about walks along lists of any length. The other half of
`ProgramKept`, that the decoded graph has the sharing of the source's, needs that the two
traversals of the encoder meet the same values equally often, and `TypeOK` of `Bytecode`
that no count falls below zero, which is the same.
`PrimitivesAgree` compares tables that are fixed: TLC sees all there is.

Induction over a number is within reach, through the least element of a set. `LoopTheorems`
has what the proofs need of it: that loops exist and agree (`LoopRuns`, `LoopsAgree`), that
a function exists that calls itself on a smaller number (`DescentRuns`) or along falling
ranks, as a walk through cells does (`RankedRuns`, `ChainCollects`), and quotients and
rests by a modulus that is a parameter (`QuotientAndRest`, `SameRest`), which the solvers do
not know. Recursive functions of the models (`EncodeIntegerTail`, `Log`, `Digits`) unfold
by them. Least and greatest fixed points of sets are within reach too, as in
`MemoryProofs` and `BytecodeProofs`.

## 11. Plan

Done in this order because each part rests on the one before: the heap, the
machine on it, the code generator on the machine, the bytecode between them, the
values in the machine, then the parts around it. What remains, most important first:

1. `with-input-from-file` and `call-with-port` over `Ports`, in the extents of `Control`:
   what an escape from their procedures leaves open.
2. The optimiser, the marshaller and the tree shaker of `compile.scm` where their
   order matters (constants shared across them), and `aa-tree.scm`.

## 12. Not modelled

`PROJECT.json` lists every component with its reason. Sequential library code
over strings and lists, macro expansion, command-line tools, code-generating
macros and thin wrappers of the operating system have no behaviour between
steps that these models could add anything to. Arithmetic of floats is that of the
processor. Of the hazards, those without a property say why in their notes.
