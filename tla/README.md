# Verification of MIPS64_Emulator

TLA+ models of the emulator library in `src/` (C, about 2,700 lines of code and
headers), TLC configurations that check them on small instances, and TLAPS
proofs for every value of their constants. Paths such as `core.c:565` are below
`src/mips64/`, headers below `include/mips64/`.

## 1. The system

The repository is a library in an early state. Its parts are further apart than
their names suggest: `core.c` is the API and uses only `mips64_cpu_reset` of
`cpu.c`; it never calls the decoder, the interpreter, `memory.c`, the ELF loader
or the JIT. Those stand ready beside it, and `mips64_step` ends in
`NOT_IMPLEMENTED` after the fetch. Not every file compiles at this commit
(section 2); each is modelled as it is written.

| Component | State it keeps | Operations | Used by |
| --- | --- | --- | --- |
| Core (`core.c`, `core.h`) | config, pointer to guest memory and its size, a `Mips64CPU` inside one heap block | create, destroy, load_program, step, run_program, get/set pc, get/set gpr, read/write memory, machine_reset | the client |
| Debug dump (`core.c:504`) | its line index and the line it builds | one callback per line | the client, which is called back |
| CPU state (`cpu.c`) | gpr[32], pc, hi, lo | reset, get/set gpr, get/set pc | interpreter; reset by Core |
| Decoder (`decode.c`) | none | a word into its fields | interpreter's caller |
| Interpreter (`execute.c`) | acts on the CPU state | NOP, DADDU, DADDIU | the client |
| Guest memory (`memory.c`) | a byte array of 64 MiB, a byte order | init, reset, read and write of 8, 16, 32, 64 bits | the client |
| ELF loader (`elf_loader.c`) | none | header check, symbol hash | the client |
| JIT emitter (`jit_compiler_x64.*`) | cursors into a code buffer and two tables | 42 emit operations | the client, and the processor that runs the code |
| `main.c` | none | an empty `main` | |

Interactions: the client calls the API; `load_program` calls `write_memory`, then
`set_pc`; `run_program` calls `step`, which calls the fetch; `machine_reset`
calls `mips64_cpu_reset`; `debug_dump` calls the client back once per line, and
the client may call the API from there. There are no threads, no timers, no
files and nothing persistent.

What is hard to test here:

* long sequences of legal calls: the effect of one call (a reset, a big-endian
  initialisation, a pc set by one of four calls) shows only several calls later;
* calls that fail half way: the second `calloc` of create, the entry point of
  `load_program`;
* the callback of the dump, the one place where calls interleave;
* boundaries: the end of guest memory, the end of the 64-bit address space,
  the wrap of pc and registers, immediates of more than 12 bits;
* eight hand-written accesses in two byte orders that must agree on every byte;
* register 0, a stored register that must always be zero;
* the operand assignments of 42 emit operations: JIT_R0, equal registers, and the
  registers an operation saves for its own use each take a path of their own,
  and only running the code shows whether it computes the right thing.

What makes each part correct:

* Core: accesses stay in allocated memory; every block is freed; the pc is
  aligned; a failing call changes nothing; reports agree with the machine.
* Dump: its lines show one state, and it ends.
* Memory: one array of values, whatever widths and byte order are mixed.
* CPU and interpreter: an instruction assigns one register and the pc or
  nothing; register 0 reads as zero.
* ELF: a header is read where `Elf64_Ehdr` has its fields, in both byte orders; the
  symbol hash fits in 28 bits and loses nothing of a step. (That executables
  are accepted is not true: finding 4.)
* JIT: the code emitted for an operation computes what the operation names and
  leaves everything else alone; the tables say where each operation and each
  jump is.

`PROJECT.json` lists the hazards at their lines, with the properties that cover
them.

## 2. Modules

| Module | What it is |
| --- | --- |
| `Core` | the emulator object and API of `core.c`, with `mips64_cpu_reset` |
| `Emulator` | abstract: an emulator that is absent, whole, or without memory since a reset |
| `DebugDump` | `mips64_debug_dump`, composed with all of `Core` (EXTENDS it) |
| `GuestMemory` | `memory.c` |
| `DwordStore` | abstract: guest memory as an array of 64-bit values |
| `Cpu` | `cpu.c`, `decode.c`, `execute.c` |
| `Isa` | abstract: a machine with a hardwired register 0 |
| `ElfLoader` | `elf_loader.c`: the header check and the symbol hash |
| `Words` | what the emitted code computes with: words and their laws, left abstract |
| `X64` | the instructions the macros of `jit_compiler_x64.h` write, and the processor |
| `Jit` | `jit_compiler_x64.c`: what each call emits, the bookkeeping, and the run of a block |
| `JitAsm` | abstract: a machine whose instructions are the calls themselves |
| `MCCore`, `MCDebugDump`, `MCGuestMemory`, `MCCpu`, `MCElfLoader`, `MCJit` | instances for TLC |
| `CoreProofs`, `CoreRefinement`, `DebugDumpProofs`, `GuestMemoryProofs`, `CpuProofs`, `ElfLoaderProofs`, `JitProofs`, `JitRefinement` | theorems |

`Mutant:` comments in the modules mark operators that no specification uses:
each is an existing definition changed as a plausible bug would change it, and
shows that a property can fail.

### Core

Each API call is one action: the library is sequential and returns before the
client goes on. The variables are the heap (`heap`, a set of block addresses),
the client's pointer (`handle`), the fields of the struct, the bytes of guest
memory (`ram`) and what the last call reported (`res`). `lost` and
`res.touched` are history: the blocks whose pointer was overwritten, and the
offsets a call read or wrote.

The fields after `config` are kept as an array of 8-byte words, `words`: word 0
is the memory pointer, word 1 `memory_size`, then `gpr[]`, `pc`, `hi`, `lo`.
That is the layout of the struct on every 64-bit target, and it is needed
because `machine_reset` passes `&emulator->memory` where `mips64_cpu_reset`
expects a `Mips64CPU*` (`core.c:565`). The compilers that accept this with a
warning (MSVC, and GCC and Clang without `-Werror`) apply the reset from word 0
on: `CpuReset(ResetBase, ...)`. The area it clears ends two words before the end of the struct, so it
stays inside the emulator. On a 32-bit target the words differ and this module
does not apply.

One client with at most one emulator at a time is enough: emulators share
nothing but the allocator. `NullArgument` stands for the NULL test of every
call. `get_gpr`, `set_gpr` and `read_memory` are stubs in the code and in the
model. A heap of three blocks makes either `calloc` fail for want of a block or
at random.

`Emulator` is what the API comes to for a client: three phases, a size, the bytes
of memory, a pc and a reply. It has no heap, no pointers, no word layout, and its
range test is `a + n > size` in plain arithmetic. Where `core.c` tests arguments in
an order, `Emulator` has the set of what is wrong with them (`ConfigFaults`,
`StoreFaults`) and lets a failing call report any member. A reset there takes the
memory away and leaves a pc that depends on the number of registers alone.
`Core` maps to it (`Promise`) by `Phase`, which looks at the two pointers, and by the fields
of the last report without its history (`Told`).

### DebugDump

The dump sends a header and then one line per register. It reads a register only
when its line is due, so a callback that calls the API can come between
(`Call`). Excluded: a callback that destroys the emulator it is called for, or
starts a nested dump. The text of the lines is left out: a line of at most 94
bytes always fits its 128-byte buffer.

Fairness: weak fairness of the dump's own steps, that is, the callback returns.
Nothing more: the client need not call anything. Calls of the client may come
between any two lines, and cannot disable the next one.

### GuestMemory and DwordStore

The eight read and write functions differ in their width only; the width is a
parameter. A value is a function from significance to byte, so no number is put
together and the byte order is the only thing that decides where a byte goes.
`DwordStore` has no bytes: it is an array of 64-bit values with fields, and
plain arithmetic for bounds. `GuestMemory` maps to it by reading every aligned
doubleword (`Dwords`). The tests of the code wrap at 2^64 (`AddrMod`), those of
`DwordStore` do not; that they agree is part of the refinement.

`mips64_memory_reset` zeroes the byte order as well, which the comment above it
denies; the abstract store has the code's behaviour, and the comment is a
finding.

### Cpu and Isa

An instruction word is a record of its fields. `execute.c` does not compile as it
stands: `MIPS64_OPCODE_DADDIU` is not declared and `execute_daddu` is used before
its declaration. It is modelled as written, `DADDIU` being a constant other than
`SPECIAL`. `execute_add` and `execute_addu` are dead code and left out, with
`hi` and `lo`. `mips64_cpu_reset(NULL)` returns without a value: any status.
`Isa` has registers 1 and up only: register 0 is not a variable, so the stored
`gpr[0]` must behave as if it were not there.

The decoder keeps 12 bits of an immediate (`decode.c:12`). `Isa` has the width of
its immediates as a parameter, `ImmediateMod`; the interpreter implements it with
2^12, whatever the program, and with the 2^16 of the architecture for programs
whose immediates are below 2^12.

`trace` is history: the pc last set, and the count of completed instructions.

### ElfLoader

`mips64_load_elf` keeps nothing: it reads a header and returns a status. Its
image is an array of 64 bytes, a field is read byte by byte at the offset and
width of the code (`FieldRead`), and `Declared` reads the same field where the
struct of the header file has it. `mips64_hash_table` is one action per
character. Its number has 32 bits, which TLC's integers do not hold; the top
four and the low 28 bits are computed apart (`TopDigit`, `LowPart`), and the
exclusive or, which meets one digit only, on that digit (`Folded`). A call with a
NULL argument is `HashNull`.

The magic test wants one byte to have two values (`elf_loader.c:14`), so
`LoadElf` refuses every image, and what the tests behind it decide is seen only by
looking at them one by one, as `FieldsReadAsDeclared` does.
`ExecutableIsAccepted` is what the repository expects of the function.

### Words, X64, Jit and JitAsm

A call of the emitter is one action (`Call`). `Parsing` is `struct JITParsing` as
the call finds it, `Function` what the function of the call makes of it. A function
is a composition of what it does to `*p`: `Write` stands for the macros, which write
at the buffer and advance it, `JIT__INFO` and `JIT__INFO2` for the macros that append
an entry to the tables. They stand where the code has them: `JIT_BRANCH` does its
`JIT__INFO` behind the test of its operands and hands equal ones over to `JIT_JUMP`,
which does its own. The other functions all begin with `JIT__INFO`; the
instructions they write are `Emit`. An xmm operand is JIT_R0 only in the three
functions that test for it. Then the client starts the block (`Start`) and the processor runs it
instruction by instruction (`Reach`, `Run`). Nothing in the repository resolves a
jump; a run ends where it leaves the block.

An instruction is a record of what its bytes encode. The encoding is kept where
it decides something: JIT_R0 is -1 and encodes as register 7 (`Enc`), a base
register with low bits 4 needs a SIB byte no macro writes (`ExecMem`), CDQ has no
REX prefix (`ExecDiv`), and the length in bytes. The processor (`Exec` and all
`Exec...`) is modelled from how the code uses it and marked external in the map.
Where a base needs a SIB byte the model ends the run with "lost": the processor
would take the displacement for that byte, access memory somewhere and run on
through the rest of it. What it does from there is not modelled, and `JitAsm`
promises nothing of a state that is "lost", which only an access whose base is not
`Sound`, or damaged code, can end in. Words are abstract:
`WordLaws` lists the arithmetic facts the shortcuts of the emitter rest on
(0 + x = x and the like), each true of 64-bit words, and nothing else is assumed.
An address names a cell of its own, so overlapping accesses are not told apart.

`JIT_LOADF` writes through the entry of `info1` it should set
(`jit_compiler_x64.c:350`). The entry is uninitialised: the emitter dies, or some
byte is overwritten, possibly code (`InfoThroughEntry`, `RunDamaged`).

`JitAsm` executes the calls: JIT_R0 reads as zero and is never written, RAX and the
cell below the stack pointer are scratch. `Sound` names the operands for which
the code does this, as far as it does; for other calls `JitAsm` asks only that
the code leaves alone what `Touched` does not name. What `Sound` leaves out is
the list of what the emitter gets wrong:

* d is also the second source and s is neither d nor JIT_R0: `d := s` comes first;
* SUB and AND with one operand JIT_R0; XOR of a register with itself, which gives
  the register; LESS with s = JIT_R0, which compares the other way round;
* SHIFTL and SHIFTR into RCX or RSP, by RSP, or by JIT_R0 unless s = d: the last
  overwrites the source. DIV into RDX or RSP, with RSP as dividend, by RAX,
  RDX, RSP or zero, and of a dividend that is negative or has bit 31 set;
* STOREF of JIT_R0, which stores nothing;
* ADDI but for s = JIT_R0; SHIFTLI and SHIFTRI unless s or d is JIT_R0: most of
  these emit nothing;
* loads and stores with base RSP or R12, where there is no detour over RAX, or
  with base JIT_R0; STORE32 and STORE64 unless the offset happens to be the
  number of the source register, as the two are exchanged;
* LESSF, which computes t < s;
* jumps with offset 0 or -1 and CALLEX of JIT_R0.

`base` is history: the processor where the call that runs now began. The map from
`Jit` to `JitAsm` is the processor between two calls, and `base` within one.

## 3. Runs

| Run | Instance | Shows |
| --- | --- | --- |
| `core` | 3 registers, 16 addresses, memories of 4 and 6 bytes, 3 heap blocks | refinement of `Emulator`, 7 properties of the API; 53,473 states |
| `debug_dump` | 4 registers, one configuration | what tears a dump, that it ends, and that with it the API is still `Emulator`; 22,357 states |
| `guest_memory` | 16 bytes, 32 addresses, at most two bytes set | refinement of `DwordStore`, agreement of widths |
| `cpu` | 3 registers of 18 bits, 11 instruction words, immediates on both sides of 12 bits, 3 instructions per reset | refinement of `Isa`, the pc, register 0; 71,574 states |
| `core_fetch` | as `core` | violation: a fetched word is always 0 or 1 |
| `core_leak` | as `core` | violation: a reset loses the guest memory, which destroy does not free |
| `memory_reset` | as `guest_memory` | violation: a reset changes the byte order |
| `cpu_signed` | DADDIU with 1 and -1 | violation: a negative immediate is added as 4095 |
| `elf` | names of up to 8 characters of 4, 40 images | header fields, symbol hash; 66,242 states |
| `elf_magic` | as `elf` | violation: the header of a MIPS64 executable is refused |
| `jit` | 4-bit words, 3,900 calls alone and 10 in blocks of three, 3 processor states | refinement of `JitAsm`, the tables; 102,145 states |
| `jit_zero` | as `jit`, operations with JIT_R0 | violation: 0 - t is t |

Properties of `core`:
`AccessesStayInAllocation`, `OnlyResetLosesBlocks`, `NeverUnalignedFetch`,
`DetachedRejectsAll` (an emulator after a reset runs nothing and takes no byte),
`RunReportsNoProgress`, `FailedCallKeepsMachine` (the exception, `load_program`
with a misaligned entry point, is in the formula), `ImplementsEmulator`.
Of `debug_dump`: `DumpTornOnlyByReset`, `DumpShowsOneRegister`, `DumpReturns`,
`ImplementsEmulator` again, with the dump and the calls of its callback.
Of `guest_memory`: `WideIsHalves`, `ImplementsStore`.
Of `cpu`: `PcCountsRetired`, `ImplementsIsa`.
Of `elf`: `HashFits28Bits`, `LastCharacterTells`, `FieldsReadAsDeclared`.
Of `jit`: `EntryPerCall` (which a function that does a second `JIT__INFO`, or does
it behind its code, would break), `JumpsAreIdentified`, `EighteenBytesPerCall` (what a client
has to provide, as the emitter checks no bound), `ImplementsAsm`.

Bounds, and why they are enough:

* `AddrMod` (2^64 in the code) is 16 and 32: with addresses at, just below and
  far beyond the end of memory and at the last address, every comparison and
  every sum of the range checks occurs on both sides, wrap included.
* `GprCount` is 3 or 4 for 32. The layout theorem needs three: with three, the
  register that `machine_reset` hits is an existing one.
* Memories of 4 and 6 bytes have room for one fetch with bytes left over, and
  `reset_pc` equal to `memory_size`, which create accepts.
* Two doublewords of guest memory: an access in one must leave the other alone.
  `FewSet` stops exploring at memories with more than two nonzero bytes; a step
  reads or writes one field, so two bytes are enough to tell places apart. The
  proofs have no such bound.
* Registers of 18 bits are wider than a half word, so that sign extension
  and wrap are different things. `MaxRetired` bounds the number of instructions
  between resets; the pc starts 4 below the wrap in one of the inputs.
* `MaxSteps` of 0 and 2: a run of no steps reports the step limit, one of two
  ends in its first step.

* Names of 8 characters are the first whose hash overflows 32 bits. The
  characters are the ends of the range and the neighbours of a digit boundary.
* Images are executables of both byte orders whose other bytes all differ, so
  that a field read from the wrong place shows; each with one of the bytes that
  are checked changed; sizes on both sides of the test.
* Words of 4 bits, whose low 2 bits stand for the low 32 and whose lowest for
  the low 8: a dividend past the sign bit of CDQ, a partial write and a wrap are
  all among 16 values. The three processor states differ in the signs and order
  of the registers; registers -1 to 4 include every one the emitter treats
  specially, and 12 the other base that needs a SIB byte.
* Every call is run alone. Ten calls that differ in what they do to the tables
  (several instructions, one, none; a jump, none; LOADF) are combined in blocks
  of up to three, with an `IndexMod` of 4, so that the entries of `info2` wrap.

Deadlock is checked in every run but those of `Jit`, where a block that ran is
over; elsewhere a client can always call something.

## 4. Proofs

All theorems hold for every value of the constants the `ASSUME`s of the modules
allow, in particular 32 registers, 2^64 addresses, 64 MiB of memory.

`CoreProofs`. The inductive invariant `IInv` is `TypeOK`, `OnlyResetLosesBlocks`
and `NeverUnalignedFetch` with two strengthenings. `MemoryShape`: the memory
pointer is an allocated block with exactly `memory_size` bytes, or NULL with size
0. Without it the range check, which looks only at `memory_size`, says nothing of
the allocation. `TouchedShape`: what the last call touched is still there. There
is one lemma per action that changes the machine; `ReportOnly` covers the calls
that only report, and `WriteOrJump` what `write_memory`, `load_program` and `set_pc`
have in common. The seven properties of run `core` are theorems:
`TypeCorrect`, `AccessSafe`, `HeapAccounted`, `PcAligned`, `ResetDetaches`,
`FailureKeepsMachine`, `RunMakesNoProgress`.

`CoreRefinement`. First the tests: the order of the checks in the code against the
sets of faults (`CreateVerdict`, `WriteVerdict`, `StepVerdict`), where `PlainRange` is the
argument that the wrapping range check of 64-bit addresses refuses what the
plain sum does (it needs that a size is itself an address). Then one lemma per call,
from `CreateMaps` to `QuestionsMap`, under the invariant of `CoreProofs`: `MemoryShape` makes
"NULL memory" and "size 0" the same thing, and `MachineResetMaps` computes what the
misdirected reset leaves in the words that `Emulator` sees. `NextMaps` puts them
together, `EmulatorRefinement` is the theorem.

`DebugDumpProofs`. `DumpIInv` adds to `IInv` that all registers but one are zero
(`OneRegister`), that a dump has an emulator (`DumpShape`), and the two properties
themselves. `RegistersStep` says that a call keeps the registers, or changes the
handle, or is a reset; a callback that keeps its emulator can then only tear a
dump with the last. `DumpTypeCorrect`, `DumpIsWhole`, `DumpIsBlank`. `DumpKeepsApiSafe` says that what `CoreProofs`
shows of the API holds at every line of a dump too, and `DumpRefinement` that a
dump with whatever its callback calls is still an `Emulator`: a line is a stutter,
the end of the dump a question with an answer.

`GuestMemoryProofs`. `TypeCorrect` and `WidthsAgree`, and `Refinement`: an accepted
access lies in one doubleword (`Accepted`), in the field `DwordStore` has for it
(`FieldPlace`), so that a read is a load (`ReadIsLoad`) and a write a store
(`WriteIsStore`), and the code's wrapping tests refuse what the plain ones
refuse (`SameVerdict`).

`CpuProofs`. `TypeCorrect` (with register 0 zero, which is what the refinement rests
on), `PcFollowsProgram` (by arithmetic on remainders, `WrapTwice`), and `Refinement`, for
every program: the interpreter is the machine with immediates of 12 bits.
`SmallProgramsRunAsMips` says when that is the machine of the architecture, with
16 bits: if every immediate of the program is below 2^12 (`SmallImmediates`). The
hypothesis is where the decoder falls short, and `cpu_signed` shows what happens
without it.

`ElfLoaderProofs`. Bounds and injectivity are arithmetic on the two parts of the
hash. A digit is one of sixteen, and the exclusive or of digits is injective in its
first argument and stays a digit (by its four bits); a step of the hash is then
injective in the character because the character decides the low part, and the
fold adds a digit that the low part does not move. `HashFits`,
`HashTellsCharacters`, `FieldsAgree`.

`JitProofs`. `Typed` gives the types of block, processor and tables, and is what
everything else about `Jit` starts from; that an instruction keeps the type of the
processor is one lemma per group of instructions, and that a call emits at most
six instructions of at most 18 bytes one lemma per form of code. What a function
does to `*p` is composed of assignments to one field at a time (`MacrosAssign`,
`WriteAssigns`); `FunctionLeaves` follows the paths of each function through them, the
hand-over of `JIT_BRANCH` included, and says that every path leaves one more entry, at
the place of the code, and an entry for a jump exactly where one was written.
`CallEnds` says what that makes of the tables. `EntriesHold` needs moreover
that the places in the block adjoin, `JumpsHold` that an entry of `info2` is the
cursor of its call modulo `IndexMod`. `TypesHold`, `RoomForCode`, `EntriesHold`,
`JumpsHold`.

`JitRefinement`. The processor takes up to six steps where `JitAsm` takes one.
`After(j, code, b)` is the processor after j instructions and `Reaches(code, b, q)` says
that the code can stop in q. The invariant `Running` says that `cpu` is
`After(j, code, base)` for the j instructions of the current call that `todo` lacks,
and that damaged code means a LOADF was emitted. `AllGood` is the core: whatever
the code of a call reaches is what `JitAsm` allows for the call (`Good`), by symbolic
execution, with one lemma per operation that splits on the cases of its
operands. Then every step of `Jit` is a step of `JitAsm` or a stutter (`StepMaps`):
`Call` is Extend, `Start` is Begin, the last instruction of a call is Execute, and
so is the `Reach` of a call that emits nothing. `EmitterImplements` holds for every set of
calls, every processor state and every arithmetic with `WordTypes` and `WordLaws`;
the other assumptions are the types of the constants (`CallTypes`, `MachineTypes`,
`BoundTypes`).

Model-checked only: `DumpReturns`, which is liveness under fairness and out of the
prover's reach, and the six violations.

## 5. Findings

1. The fetch combines bytes with `||` (`core.c:73`, `core.c:80`): every word is 0 or 1.
2. `machine_reset` resets the wrong part of the struct (`core.c:565`) and returns OK:
   the only pointer to guest memory is lost, and the block never freed
   (`core_leak`). What else it leaves is what `Emulator` says of a reset: a pc that does
   not depend on `reset_pc`, and `reset_pc` in `gpr[30]`.
3. `memory_reset` clears the byte order its comment promises to keep (`memory.c:61`).
4. The magic test of the ELF header contradicts itself (`elf_loader.c:14`), so the
   loading that the comment at `elf_loader.c:55` describes cannot be reached.
5. The decoder keeps 12 bits of a 16-bit immediate (`decode.c:12`).
6. JIT_R0 is "always zero" (`jit_compiler_x64.h:323`), but SUB with it as the first
   operand assigns t instead of -t, and AND assigns the other operand
   (`jit_compiler_x64.c:97`).

What else the emitter does other than its names say is in section 2 (`Sound`); the
repository states nothing about it that could be quoted.

## 6. Not modelled

Constant functions (version, status strings, `config_default`), `main.c` (empty),
build files. Dead code of `execute.c`. The text of the dump, and a `write_fn` that
destroys the emulator it is called for. Program headers and the rest of
`elf_loader.h` that no code reads. Of the emitter, the register names for Windows;
of the processor, overlapping memory accesses, flags beyond the last comparison,
rounding, and what stands behind a jump.

## 7. State of the plan

Done: `Core`, `DebugDump`, `GuestMemory` with `DwordStore`, `Cpu` with `Isa`,
`ElfLoader`, `Jit` with `JitAsm`, and the theorems above; every safety property and
refinement that a passing run checks is also a theorem.

Left, once the code has it: the dispatch from `mips64_step` to the interpreter, which
composes `Core` with `Cpu`; loading of program headers; the resolution of jumps from
`info1` and `info2`, and calls of emitted code from the emulator.
