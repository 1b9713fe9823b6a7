-------------------------------- MODULE Core --------------------------------
(***************************************************************************)
(* core.c: the emulator object and its C API, with mips64_cpu_reset of     *)
(* cpu.c as mips64_machine_reset uses it.                                  *)
(*                                                                         *)
(* One client owns one handle, and each API call is one action.  The only  *)
(* call that returns control to the client before it ends,                 *)
(* mips64_debug_dump, is in module DebugDump.                              *)
(*                                                                         *)
(* The fields of struct Mips64Emulator after `config` are kept as the      *)
(* 8-byte words they occupy on a 64-bit target, because machine_reset      *)
(* addresses the CPU through the wrong field.                              *)
(***************************************************************************)
EXTENDS Integers, Sequences

CONSTANTS
  GprCount,    (* MIPS64_GPR_COUNT, 32 in core.h.                          *)
  AddrMod,     (* 2^64: guest addresses and the pc are uint64_t.           *)
  Byte,        (* The values of a byte of guest memory.                    *)
  Block,       (* The heap blocks calloc can hand out, as pointers.        *)
  Address,     (* Guest addresses the client passes.                       *)
  Config,      (* Mips64Config records the client passes to create.        *)
  Buffer,      (* Data the client passes: a pointer and a size.            *)
  Image,       (* Mips64ProgramImage records the client passes to load.    *)
  MaxSteps     (* Step budgets the client passes to run_program.           *)

NULL == 0

Endians == {"LITTLE", "BIG"}

ASSUME GprAssumption   == GprCount \in Nat /\ GprCount >= 3
ASSUME AddrAssumption  == AddrMod \in Nat /\ AddrMod > 0 /\ AddrMod % 4 = 0
ASSUME ByteAssumption  == 0 \in Byte
ASSUME BlockAssumption == Block \subseteq Nat \ {NULL}
ASSUME InputAssumption ==
  /\ Address \subseteq 0 .. AddrMod - 1
  /\ Config \subseteq [memory_size : Nat, reset_pc : 0 .. AddrMod - 1,
                       endian : STRING, clear : BOOLEAN]
  /\ Buffer \subseteq [isNull : BOOLEAN, bytes : Seq(Byte)]
  /\ Image \subseteq [data : Buffer, load_address : 0 .. AddrMod - 1,
                      entry_point : 0 .. AddrMod - 1, set_pc_to_entry : BOOLEAN]
  /\ MaxSteps \subseteq Nat

VARIABLES
  heap,    (* The blocks allocated and not freed.                          *)
  handle,  (* The client's Mips64Emulator*, NULL when it has none.         *)
  config,  (* emulator->config.                                            *)
  words,   (* The words of *emulator after config, by index.               *)
  ram,     (* The bytes of the block emulator->memory points to.           *)
  res,     (* What the last call to return reported.                       *)
  lost     (* History: blocks machine_reset dropped the pointer to.        *)

vars == <<heap, handle, config, words, ram, res, lost>>

-----------------------------------------------------------------------------
(* The layout of struct Mips64Emulator, in words.                          *)

MemoryWord == 0
SizeWord   == 1
CpuWord    == 2
PcWord     == CpuWord + GprCount
CpuSize    == GprCount + 3          \* gpr[], pc, hi, lo
Fields     == 0 .. CpuWord + CpuSize - 1

Memory     == words[MemoryWord]
MemorySize == words[SizeWord]
Gpr(i)     == words[CpuWord + i]
Pc         == words[PcWord]

NoWords  == [k \in Fields |-> 0]
NoRam    == [a \in {} |-> 0]
NoConfig == [memory_size |-> 0, reset_pc |-> 0, endian |-> "LITTLE", clear |-> FALSE]

Status == {"OK", "INVALID_ARGUMENT", "OUT_OF_MEMORY", "ADDRESS_OUT_OF_RANGE",
           "UNALIGNED_PC", "STEP_LIMIT_REACHED", "NOT_IMPLEMENTED"}

Reason == {"NONE", "STOP_NOT_IMPLEMENTED", "REASON_NOT_IMPLEMENTED",
           "STEP_LIMIT", "ERROR"}

Op == {"none", "create", "destroy", "reset", "write", "load", "set_pc",
       "get_pc", "get_gpr", "set_gpr", "read", "null", "step", "run", "dump"}

(* What a call leaves with its caller.  `touched` is history: the offsets  *)
(* from emulator->memory that the call read or wrote.                      *)
Result(op, status) ==
  [op |-> op, status |-> status, reason |-> "NONE", pc |-> 0, word |-> 0,
   steps |-> 0, touched |-> {}]

-----------------------------------------------------------------------------
(* Helpers of core.c.                                                      *)

IsInstructionAligned(address) == address % 4 = 0

(* Mutant: the end of the range is computed, and wraps.                    *)
RangeEndWraps(address, size) == (address + size) % AddrMod <= MemorySize

MemoryRangeIsValid(address, size) ==
  /\ address <= MemorySize
  /\ size <= MemorySize - address

Span(address, size) == address .. address + size - 1

ReadU32FromBytes(bytes) ==
  IF \E i \in DOMAIN bytes : bytes[i] # 0 THEN 1 ELSE 0

BytesAt(pc) == [i \in 1 .. 4 |-> ram[pc + i - 1]]

FetchStatus(pc) ==
  IF ~IsInstructionAligned(pc) THEN "UNALIGNED_PC"
  ELSE IF ~MemoryRangeIsValid(pc, 4) THEN "ADDRESS_OUT_OF_RANGE"
  ELSE "OK"

(* Mutant: the status of a full run is passed through.                     *)
StopReasonPassesThrough(status) ==
  IF status = "STEP_LIMIT_REACHED" THEN status ELSE "ERROR"

StopReasonFromStatus(status) ==
  CASE status = "OK"                 -> "NONE"
    [] status = "NOT_IMPLEMENTED"    -> "REASON_NOT_IMPLEMENTED"
    [] status = "STEP_LIMIT_REACHED" -> "STEP_LIMIT"
    [] OTHER                         -> "ERROR"

StepStatus ==
  IF FetchStatus(Pc) # "OK" THEN FetchStatus(Pc) ELSE "NOT_IMPLEMENTED"

SetPcStatus(pc) == IF IsInstructionAligned(pc) THEN "OK" ELSE "UNALIGNED_PC"

WriteStatus(address, data) ==
  IF Len(data.bytes) # 0 /\ data.isNull THEN "INVALID_ARGUMENT"
  ELSE IF ~MemoryRangeIsValid(address, Len(data.bytes))
       THEN "ADDRESS_OUT_OF_RANGE"
  ELSE "OK"

(* Mutant: the last byte is not copied.                                    *)
WrittenShort(address, data) ==
  [a \in DOMAIN ram |-> IF a \in Span(address, Len(data.bytes) - 1)
                        THEN data.bytes[a - address + 1]
                        ELSE ram[a]]

Written(address, data) ==
  [a \in DOMAIN ram |-> IF a \in Span(address, Len(data.bytes))
                        THEN data.bytes[a - address + 1]
                        ELSE ram[a]]

(* Mutant: the alignment of reset_pc is not checked.                       *)
CreateStatusAnyPc(c) ==
  IF c.memory_size = 0 \/ c.endian \notin Endians THEN "INVALID_ARGUMENT"
  ELSE IF c.reset_pc > c.memory_size THEN "ADDRESS_OUT_OF_RANGE"
  ELSE "OK"

CreateStatus(c) ==
  IF c.memory_size = 0 \/ c.endian \notin Endians THEN "INVALID_ARGUMENT"
  ELSE IF ~IsInstructionAligned(c.reset_pc) THEN "UNALIGNED_PC"
  ELSE IF c.reset_pc > c.memory_size THEN "ADDRESS_OUT_OF_RANGE"
  ELSE "OK"

(* Mutant: memset over sizeof(cpu), the size of the pointer.               *)
CpuResetOneWord(base, reset_pc) ==
  [words EXCEPT ![base] = 0, ![base + GprCount] = reset_pc]

(* mips64_cpu_reset applied to the words from `base` on: clear a           *)
(* Mips64CPU there, then set its pc.                                       *)
CpuReset(base, reset_pc) ==
  [k \in Fields |-> IF k = base + GprCount THEN reset_pc
                    ELSE IF k \in base .. base + CpuSize - 1 THEN 0
                    ELSE words[k]]

(* The word machine_reset passes to cpu_reset: &emulator->memory.          *)
ResetBase == MemoryWord

-----------------------------------------------------------------------------
(* Life cycle.                                                             *)

CreateRejected(c) ==
  /\ handle = NULL
  /\ CreateStatus(c) # "OK"
  /\ res' = Result("create", CreateStatus(c))
  /\ UNCHANGED <<heap, handle, config, words, ram, lost>>

(* Mutant: the first block is kept when the second calloc fails.           *)
CreateKeepsBlock(c) ==
  /\ handle = NULL
  /\ CreateStatus(c) = "OK"
  /\ \E e \in Block \ heap : heap' = heap \cup {e}
  /\ res' = Result("create", "OUT_OF_MEMORY")
  /\ UNCHANGED <<handle, config, words, ram, lost>>

(* Either calloc may fail; after the second failure the first is undone.   *)
CreateOutOfMemory(c) ==
  /\ handle = NULL
  /\ CreateStatus(c) = "OK"
  /\ \/ heap' = heap
     \/ \E e \in Block \ heap : heap' = (heap \cup {e}) \ {e}
  /\ res' = Result("create", "OUT_OF_MEMORY")
  /\ UNCHANGED <<handle, config, words, ram, lost>>

Create(c) ==
  /\ handle = NULL
  /\ CreateStatus(c) = "OK"
  /\ \E e, m \in Block \ heap :
       /\ e # m
       /\ heap' = heap \cup {e, m}
       /\ handle' = e
       /\ words' = [NoWords EXCEPT ![MemoryWord] = m,
                                   ![SizeWord]   = c.memory_size,
                                   ![PcWord]     = c.reset_pc]
  /\ config' = c
  /\ ram' = [a \in 0 .. c.memory_size - 1 |-> 0]
  /\ res' = Result("create", "OK")
  /\ UNCHANGED lost

Destroy ==
  /\ handle # NULL
  /\ heap' = heap \ {handle, Memory}
  /\ handle' = NULL
  /\ config' = NoConfig
  /\ words' = NoWords
  /\ ram' = NoRam
  /\ res' = Result("destroy", "OK")
  /\ UNCHANGED lost

MachineReset ==
  /\ handle # NULL
  /\ LET cleared == CpuReset(ResetBase, config.reset_pc)
         zeroed  == IF config.clear THEN Span(0, cleared[SizeWord]) ELSE {}
     IN /\ words' = cleared
        /\ ram' = IF cleared[MemoryWord] = NULL THEN NoRam
                  ELSE [a \in DOMAIN ram |-> IF a \in zeroed THEN 0 ELSE ram[a]]
        /\ lost' = lost \cup ({Memory} \ {NULL, cleared[MemoryWord]})
        /\ res' = [Result("reset", "OK") EXCEPT !.touched = zeroed]
  /\ UNCHANGED <<heap, handle, config>>

-----------------------------------------------------------------------------
(* Guest memory and registers.                                             *)

WriteMemory(address, data) ==
  /\ handle # NULL
  /\ LET status == WriteStatus(address, data)
     IN /\ ram' = IF status = "OK" THEN Written(address, data) ELSE ram
        /\ res' = [Result("write", status) EXCEPT !.touched =
                     IF status = "OK" THEN Span(address, Len(data.bytes)) ELSE {}]
  /\ UNCHANGED <<heap, handle, config, words, lost>>

(* Mutant: the jump comes first, and the write may still fail.             *)
LoadJumpsFirst(image) ==
  /\ handle # NULL
  /\ LET data   == image.data
         jumped == IF image.set_pc_to_entry THEN SetPcStatus(image.entry_point) ELSE "OK"
         status == IF jumped # "OK" THEN jumped
                   ELSE WriteStatus(image.load_address, data)
     IN /\ words' = IF image.set_pc_to_entry /\ jumped = "OK"
                    THEN [words EXCEPT ![PcWord] = image.entry_point] ELSE words
        /\ ram' = IF status = "OK" THEN Written(image.load_address, data) ELSE ram
        /\ res' = Result("load", status)
  /\ UNCHANGED <<heap, handle, config, lost>>

(* Writes the image, then jumps: a bad entry point is found too late.      *)
LoadProgram(image) ==
  /\ handle # NULL
  /\ LET written == WriteStatus(image.load_address, image.data)
         jumps   == written = "OK" /\ image.set_pc_to_entry
         status  == IF jumps THEN SetPcStatus(image.entry_point) ELSE written
     IN /\ ram' = IF written = "OK"
                  THEN Written(image.load_address, image.data) ELSE ram
        /\ words' = IF jumps /\ status = "OK"
                    THEN [words EXCEPT ![PcWord] = image.entry_point] ELSE words
        /\ res' = [Result("load", status) EXCEPT !.touched =
                     IF written = "OK"
                     THEN Span(image.load_address, Len(image.data.bytes)) ELSE {}]
  /\ UNCHANGED <<heap, handle, config, lost>>

SetPc(pc) ==
  /\ handle # NULL
  /\ words' = IF SetPcStatus(pc) = "OK" THEN [words EXCEPT ![PcWord] = pc] ELSE words
  /\ res' = Result("set_pc", SetPcStatus(pc))
  /\ UNCHANGED <<heap, handle, config, ram, lost>>

GetPc ==
  /\ handle # NULL
  /\ res' = [Result("get_pc", "OK") EXCEPT !.pc = Pc]
  /\ UNCHANGED <<heap, handle, config, words, ram, lost>>

(* Stubs: OK for every index, and nothing is read or written.              *)
GetGpr ==
  /\ handle # NULL
  /\ res' = Result("get_gpr", "OK")
  /\ UNCHANGED <<heap, handle, config, words, ram, lost>>

SetGpr ==
  /\ handle # NULL
  /\ res' = Result("set_gpr", "OK")
  /\ UNCHANGED <<heap, handle, config, words, ram, lost>>

ReadMemory ==
  /\ handle # NULL
  /\ res' = Result("read", "NOT_IMPLEMENTED")
  /\ UNCHANGED <<heap, handle, config, words, ram, lost>>

(* A NULL handle, or a NULL pointer where the API needs one.               *)
NullArgument ==
  /\ res' = Result("null", "INVALID_ARGUMENT")
  /\ UNCHANGED <<heap, handle, config, words, ram, lost>>

-----------------------------------------------------------------------------
(* Execution.                                                              *)

Step ==
  /\ handle # NULL
  /\ LET fetched == FetchStatus(Pc) = "OK"
     IN res' = [Result("step", StepStatus) EXCEPT
                  !.pc      = Pc,
                  !.word    = IF fetched THEN ReadU32FromBytes(BytesAt(Pc)) ELSE 0,
                  !.reason  = IF fetched THEN "STOP_NOT_IMPLEMENTED"
                              ELSE StopReasonFromStatus(StepStatus),
                  !.touched = IF fetched THEN Span(Pc, 4) ELSE {}]
  /\ UNCHANGED <<heap, handle, config, words, ram, lost>>

(* Mutant: the step that stopped the run is counted.                       *)
RunCountsFailedStep(max_steps) ==
  /\ handle # NULL
  /\ LET stopped == \E i \in 1 .. max_steps : StepStatus # "OK"
         status  == IF stopped THEN StepStatus ELSE "STEP_LIMIT_REACHED"
     IN res' = [Result("run", status) EXCEPT
                  !.pc      = Pc,
                  !.steps   = IF stopped THEN 1 ELSE max_steps,
                  !.reason  = StopReasonFromStatus(status)]
  /\ UNCHANGED <<heap, handle, config, words, ram, lost>>

(* A step leaves the emulator as it was, so every iteration of the loop    *)
(* has the same status: the first one that is not OK ends it, with         *)
(* step_index still 0.                                                     *)
RunProgram(max_steps) ==
  /\ handle # NULL
  /\ LET stopped == \E i \in 1 .. max_steps : StepStatus # "OK"
         status  == IF stopped THEN StepStatus ELSE "STEP_LIMIT_REACHED"
     IN res' = [Result("run", status) EXCEPT
                  !.pc      = Pc,
                  !.steps   = IF stopped THEN 0 ELSE max_steps,
                  !.reason  = StopReasonFromStatus(status),
                  !.touched = IF stopped /\ FetchStatus(Pc) = "OK"
                              THEN Span(Pc, 4) ELSE {}]
  /\ UNCHANGED <<heap, handle, config, words, ram, lost>>

-----------------------------------------------------------------------------
Init ==
  /\ heap = {}
  /\ handle = NULL
  /\ config = NoConfig
  /\ words = NoWords
  /\ ram = NoRam
  /\ res = Result("none", "OK")
  /\ lost = {}

Next ==
  \/ \E c \in Config : CreateRejected(c) \/ CreateOutOfMemory(c) \/ Create(c)
  \/ Destroy
  \/ MachineReset
  \/ \E a \in Address, b \in Buffer : WriteMemory(a, b)
  \/ \E i \in Image : LoadProgram(i)
  \/ \E a \in Address : SetPc(a)
  \/ GetPc \/ GetGpr \/ SetGpr \/ ReadMemory \/ NullArgument
  \/ Step
  \/ \E n \in MaxSteps : RunProgram(n)

Spec == Init /\ [][Next]_vars

-----------------------------------------------------------------------------
(* Properties.                                                             *)

(* Every variable has the type its C declaration gives it.                 *)
TypeOK ==
  /\ heap \subseteq Block
  /\ handle \in Block \cup {NULL}
  /\ config \in [memory_size : Nat, reset_pc : 0 .. AddrMod - 1,
                  endian : Endians, clear : BOOLEAN]
  /\ words \in [Fields -> Nat]
  /\ DOMAIN ram \subseteq Nat
  /\ ram \in [DOMAIN ram -> Byte]
  /\ res \in [op : Op, status : Status, reason : Reason, pc : Nat,
               word : {0, 1}, steps : Nat, touched : SUBSET Nat]
  /\ lost \subseteq Block

(* Every byte a call reads or writes through emulator->memory lies inside  *)
(* a block that is still allocated: the range check of write_memory,       *)
(* load_program and the fetch is exact up to the ends of the 64-bit        *)
(* address space, and no reset or destroy leaves a stale pointer or size.  *)
AccessesStayInAllocation ==
  res.touched # {} =>
    /\ handle # NULL
    /\ Memory \in heap
    /\ res.touched \subseteq DOMAIN ram

(* The allocated blocks are the ones the emulator owns and the ones        *)
(* machine_reset dropped: a create that fails half way and a destroy       *)
(* leave nothing else behind, and nothing owned is freed early.            *)
OnlyResetLosesBlocks ==
  /\ heap = ({handle, Memory} \ {NULL}) \cup lost
  /\ handle # NULL => handle # Memory
  /\ {handle, Memory} \cap lost = {}

(* The pc of a live emulator is a multiple of 4 whichever of create,       *)
(* set_pc, load_program and machine_reset set it last, so no step or run   *)
(* ever reports UNALIGNED_PC.                                              *)
NeverUnalignedFetch ==
  /\ handle # NULL => IsInstructionAligned(Pc)
  /\ res.op \in {"step", "run"} => res.status # "UNALIGNED_PC"

(* After machine_reset returns OK the emulator has no guest memory: no     *)
(* range of a byte or more is valid and every step is out of range, to its *)
(* end.                                                                    *)
Detached == handle # NULL /\ Memory = NULL

DetachedRejectsAll ==
  Detached =>
    /\ \A a \in 0 .. AddrMod - 1 : ~MemoryRangeIsValid(a, 1)
    /\ StepStatus = "ADDRESS_OUT_OF_RANGE"

(* A call that fails leaves guest memory and registers alone, with one     *)
(* exception: load_program with a misaligned entry point has already       *)
(* copied the image, and only then.                                        *)
FailedCallKeepsMachine ==
  [][res'.status # "OK" =>
       /\ words' = words
       /\ \/ ram' = ram
          \/ res'.op = "load" /\ res'.status = "UNALIGNED_PC"]_vars

(* The report of run_program agrees with what the emulator did: it never   *)
(* counts an instruction, because none completes; its final pc is the pc;  *)
(* its stop reason is the one its status maps to; and it is never OK.      *)
RunReportsNoProgress ==
  res.op = "run" =>
    /\ res.steps = 0
    /\ res.pc = Pc
    /\ res.reason = StopReasonFromStatus(res.status)
    /\ res.status # "OK"

-----------------------------------------------------------------------------
(* The promise of the API.                                                 *)

Phase ==
  IF handle = NULL THEN "none" ELSE IF Memory = NULL THEN "detached" ELSE "attached"

(* What a call told the client: all it left but the history.               *)
Told ==
  [op |-> res.op, status |-> res.status, reason |-> res.reason, pc |-> res.pc,
   word |-> res.word, steps |-> res.steps]

Promise == INSTANCE Emulator WITH
  phase <- Phase, size <- MemorySize, memory <- ram, pc <- Pc, reply <- Told

(* Pointers, the words of the struct and the wrap of addresses are out of  *)
(* sight: the calls of core.c, in any order, are those of an emulator with *)
(* a memory, a pc and three phases, in what they report and in what they   *)
(* leave behind, a reset included.                                         *)
ImplementsEmulator == Promise!EmulatorSpec

-----------------------------------------------------------------------------
(* What comments of the repository say and core.c does not do.             *)

(* core.c:71 and core.c:79: the fetch assembles the four bytes into the    *)
(* instruction word, bytes[0] on top for big endian, reversed for little.  *)
WordOf(bytes) ==
  IF config.endian = "BIG"
  THEN bytes[1] * 2^24 + bytes[2] * 2^16 + bytes[3] * 2^8 + bytes[4]
  ELSE bytes[4] * 2^24 + bytes[3] * 2^16 + bytes[2] * 2^8 + bytes[1]

FetchedWordIsTheBytes ==
  res.op = "step" /\ res.touched # {} => res.word = WordOf(BytesAt(Pc))

(* core.c:210: "FREE THE MEMORY IT'S IMPORTANT".  Without an emulator      *)
(* nothing is allocated.                                                   *)
DestroyFreesAll == handle = NULL => heap = {}
=============================================================================
