----------------------------- MODULE CoreProofs -----------------------------
(***************************************************************************)
(* Theorems about Core, for every number of registers, address width, heap *)
(* and input of the client that the assumptions of Core allow.             *)
(***************************************************************************)
EXTENDS Core, TLAPS

(* The guest memory a live emulator points to is an allocated block of     *)
(* exactly memory_size bytes, or nothing at all.                           *)
MemoryShape ==
  /\ DOMAIN ram = 0 .. MemorySize - 1
  /\ Memory \in heap \cup {NULL}
  /\ Memory = NULL => MemorySize = 0
  /\ handle = NULL => Memory = NULL

(* What the last call touched is still there.                              *)
TouchedShape ==
  res.touched # {} => handle # NULL /\ res.touched \subseteq DOMAIN ram

(* The inductive invariant: the types, the shape of the memory, the        *)
(* ownership of the heap and the alignment of the pc.                      *)
IInv ==
  /\ TypeOK
  /\ MemoryShape
  /\ TouchedShape
  /\ OnlyResetLosesBlocks
  /\ NeverUnalignedFetch

-----------------------------------------------------------------------------
(* The words that machine_reset writes: everything up to and including the *)
(* pc becomes 0, except the register two below the last.                   *)
LEMMA ResetWords ==
  ASSUME NEW pc \in Nat, words \in [Fields -> Nat]
  PROVE  LET after == CpuReset(ResetBase, pc)
         IN /\ after \in [Fields -> Nat]
            /\ after[MemoryWord] = NULL
            /\ after[SizeWord] = 0
            /\ after[PcWord] = 0
            /\ after[CpuWord + GprCount - 2] = pc
  BY GprAssumption
  DEF CpuReset, ResetBase, MemoryWord, SizeWord, CpuWord, PcWord, CpuSize,
      Fields, NULL

(* The word indices are distinct fields of the struct.                     *)
LEMMA Layout ==
  /\ {MemoryWord, SizeWord, PcWord} \subseteq Fields
  /\ MemoryWord # SizeWord /\ MemoryWord # PcWord /\ SizeWord # PcWord
  BY GprAssumption
  DEF MemoryWord, SizeWord, CpuWord, PcWord, CpuSize, Fields

(* A range that passes the check lies inside memory_size bytes.            *)
LEMMA ValidRangeIsInside ==
  ASSUME TypeOK, NEW address \in Nat, NEW size \in Nat,
         MemoryRangeIsValid(address, size)
  PROVE  Span(address, size) \subseteq 0 .. MemorySize - 1
  <1>1. MemorySize \in Nat
    BY Layout DEF TypeOK, MemorySize
  <1>2. QED
    BY <1>1 DEF MemoryRangeIsValid, Span

(* The type of what a call reports.                                        *)
ResultType ==
  [op : Op, status : Status, reason : Reason, pc : Nat, word : {0, 1},
   steps : Nat, touched : SUBSET Nat]

(* A call that reports only a status reports it in the right type.         *)
LEMMA ResultIsTyped ==
  \A op \in Op, status \in Status : Result(op, status) \in ResultType
  <1> TAKE op \in Op, status \in Status
  <1>1. "NONE" \in Reason
    BY DEF Reason
  <1>2. {} \in SUBSET Nat
    OBVIOUS
  <1>3. QED
    BY <1>1, <1>2 DEF Result, ResultType

(* Before the first call there is no emulator, and nothing is allocated.   *)
LEMMA InitIInv == Init => IInv
<1> SUFFICES ASSUME Init PROVE IInv
  OBVIOUS
<1> USE DEF Init
<1>1. words \in [Fields -> Nat] /\ Memory = NULL /\ MemorySize = 0 /\ Pc = 0
  BY Layout DEF NoWords, Memory, MemorySize, Pc, NULL
<1>2. config \in [memory_size : Nat, reset_pc : 0 .. AddrMod - 1,
                  endian : Endians, clear : BOOLEAN]
  BY AddrAssumption DEF NoConfig, Endians
<1>3. res \in ResultType
  <2>1. "none" \in Op /\ "OK" \in Status
    BY DEF Op, Status
  <2>2. QED
    BY <2>1, ResultIsTyped
<1>4. DOMAIN ram = {} /\ ram \in [DOMAIN ram -> Byte]
  BY DEF NoRam
<1>5. TypeOK
  BY <1>1, <1>2, <1>3, <1>4 DEF TypeOK, ResultType, NULL
<1>6. MemoryShape
  BY <1>1, <1>4 DEF MemoryShape
<1>7. TouchedShape /\ OnlyResetLosesBlocks /\ NeverUnalignedFetch
  BY <1>1 DEF TouchedShape, OnlyResetLosesBlocks, NeverUnalignedFetch, Result, NULL
<1>8. QED
  BY <1>5, <1>6, <1>7 DEF IInv

-----------------------------------------------------------------------------
(* Steps that change nothing but the report.                               *)

Machine == <<heap, handle, config, words, ram, lost>>

(* A call that leaves the machine alone keeps the invariant, if its report *)
(* is typed, claims no misaligned fetch and touches nothing outside.       *)
LEMMA ReportOnly ==
  ASSUME IInv, UNCHANGED Machine, res' \in ResultType, TouchedShape',
         res'.op \in {"step", "run"} => res'.status # "UNALIGNED_PC"
  PROVE  IInv'
  <1>1. TypeOK'
    BY DEF IInv, TypeOK, Machine, ResultType
  <1>2. MemoryShape'
    BY DEF IInv, MemoryShape, Machine, Memory, MemorySize
  <1>3. OnlyResetLosesBlocks'
    BY DEF IInv, OnlyResetLosesBlocks, Machine, Memory
  <1>4. NeverUnalignedFetch'
    BY DEF IInv, NeverUnalignedFetch, Machine, Pc
  <1>5. QED
    BY <1>1, <1>2, <1>3, <1>4 DEF IInv

(* A call that reports only a status, and that does not fetch.             *)
LEMMA StatusOnly ==
  ASSUME IInv, UNCHANGED Machine,
         NEW op \in Op \ {"step", "run"}, NEW status \in Status,
         res' = Result(op, status)
  PROVE  IInv'
  <1>1. res' \in ResultType
    BY ResultIsTyped
  <1>2. res'.op = op /\ res'.touched = {}
    BY DEF Result
  <1>3. TouchedShape'
    BY <1>2 DEF TouchedShape
  <1>4. QED
    BY <1>1, <1>2, <1>3, ReportOnly

(* The statuses the helpers compute are statuses of the API.               *)
LEMMA StatusesAreTyped ==
  /\ \A pc : FetchStatus(pc) \in Status /\ SetPcStatus(pc) \in Status
  /\ \A a, b : WriteStatus(a, b) \in Status
  /\ \A c : CreateStatus(c) \in Status
  /\ StepStatus \in Status
  BY DEF FetchStatus, SetPcStatus, WriteStatus, CreateStatus, StepStatus, Status

(* What the type invariant says of the parts of the machine.               *)
LEMMA TypedParts ==
  ASSUME TypeOK
  PROVE  /\ Memory \in Nat /\ MemorySize \in Nat /\ Pc \in Nat
         /\ config.reset_pc \in Nat /\ config.reset_pc \in 0 .. AddrMod - 1
  BY Layout, AddrAssumption DEF TypeOK, Memory, MemorySize, Pc

(* What the client passes is typed.                                        *)
LEMMA TypedInputs ==
  /\ \A a \in Address : a \in Nat
  /\ \A c \in Config : /\ c.memory_size \in Nat /\ c.reset_pc \in 0 .. AddrMod - 1
                       /\ c = [memory_size |-> c.memory_size,
                               reset_pc |-> c.reset_pc,
                               endian |-> c.endian, clear |-> c.clear]
                       /\ c.clear \in BOOLEAN
  /\ \A b \in Buffer : Len(b.bytes) \in Nat
                       /\ \A i \in 1 .. Len(b.bytes) : b.bytes[i] \in Byte
  /\ \A i \in Image : /\ i.data \in Buffer /\ i.load_address \in Nat
                      /\ i.entry_point \in Nat
  /\ \A n \in MaxSteps : n \in Nat
<1> USE InputAssumption, AddrAssumption
<1>1. \A a \in Address : a \in Nat
  OBVIOUS
<1>2. \A c \in Config : /\ c.memory_size \in Nat /\ c.reset_pc \in 0 .. AddrMod - 1
                       /\ c = [memory_size |-> c.memory_size,
                               reset_pc |-> c.reset_pc,
                               endian |-> c.endian, clear |-> c.clear]
                       /\ c.clear \in BOOLEAN
  OBVIOUS
<1>3. \A b \in Buffer : Len(b.bytes) \in Nat
                       /\ \A i \in 1 .. Len(b.bytes) : b.bytes[i] \in Byte
  OBVIOUS
<1>4. \A i \in Image : /\ i.data \in Buffer /\ i.load_address \in Nat
                      /\ i.entry_point \in Nat
  OBVIOUS
<1>5. \A n \in MaxSteps : n \in Nat
  OBVIOUS
<1>6. QED
  BY <1>1, <1>2, <1>3, <1>4, <1>5

-----------------------------------------------------------------------------
(* One lemma per action that changes the machine.                          *)

(* Either calloc may fail: the block of the first is given back.           *)
LEMMA CreateOutOfMemoryKeepsIInv ==
  ASSUME IInv, NEW c \in Config, CreateOutOfMemory(c)
  PROVE  IInv'
<1>1. heap' = heap
  BY DEF CreateOutOfMemory
<1>2. UNCHANGED Machine
  BY <1>1 DEF CreateOutOfMemory, Machine
<1>3. res' = Result("create", "OUT_OF_MEMORY")
  BY DEF CreateOutOfMemory
<1>4. "create" \in Op \ {"step", "run"} /\ "OUT_OF_MEMORY" \in Status
  BY DEF Op, Status
<1>5. QED
  BY <1>2, <1>3, <1>4, StatusOnly

(* A new emulator owns its two blocks, and starts at an aligned pc.        *)
LEMMA CreateKeepsIInv ==
  ASSUME IInv, NEW c \in Config, Create(c)
  PROVE  IInv'
<1> USE DEF Create, IInv
<1> DEFINE start(m) == [NoWords EXCEPT ![MemoryWord] = m,
                                       ![SizeWord]   = c.memory_size,
                                       ![PcWord]     = c.reset_pc]
<1>1. PICK e, m \in Block \ heap :
        e # m /\ heap' = heap \cup {e, m} /\ handle' = e /\ words' = start(m)
  OBVIOUS
<1>2. e \in Nat /\ e # NULL /\ m \in Nat /\ m # NULL
  BY <1>1, BlockAssumption
<1>3. c.memory_size \in Nat /\ c.reset_pc \in 0 .. AddrMod - 1 /\ c.reset_pc \in Nat
  BY TypedInputs, AddrAssumption
<1>4. IsInstructionAligned(c.reset_pc) /\ c.endian \in Endians
  BY DEF CreateStatus
<1>5. /\ words' \in [Fields -> Nat] /\ Memory' = m /\ MemorySize' = c.memory_size
      /\ Pc' = c.reset_pc
  BY <1>1, <1>2, <1>3, Layout DEF NoWords, Memory, MemorySize, Pc
<1>6. config' \in [memory_size : Nat, reset_pc : 0 .. AddrMod - 1,
                   endian : Endians, clear : BOOLEAN]
  BY <1>4, TypedInputs
<1>7. res' \in ResultType /\ res'.op = "create" /\ res'.touched = {}
  <2>1. "create" \in Op /\ "OK" \in Status
    BY DEF Op, Status
  <2>2. QED
    BY <2>1, ResultIsTyped DEF Result
<1>8. DOMAIN ram' = 0 .. c.memory_size - 1 /\ ram' \in [DOMAIN ram' -> Byte]
  BY ByteAssumption
<1>9. TypeOK'
  <2>1. heap' \subseteq Block /\ handle' \in Block \cup {NULL} /\ lost' \subseteq Block
    BY <1>1 DEF TypeOK
  <2>2. DOMAIN ram' \subseteq Nat /\ ram' \in [DOMAIN ram' -> Byte]
    BY <1>3, <1>8
  <2>3. QED
    BY <1>5, <1>6, <1>7, <2>1, <2>2 DEF TypeOK, ResultType
<1>10. MemoryShape'
  BY <1>1, <1>2, <1>5, <1>8 DEF MemoryShape
<1>11. OnlyResetLosesBlocks'
  <2>1. heap = lost
    BY DEF OnlyResetLosesBlocks, MemoryShape
  <2>2. QED
    BY <1>1, <1>2, <1>5, <2>1 DEF OnlyResetLosesBlocks, TypeOK, NULL
<1>12. NeverUnalignedFetch' /\ TouchedShape'
  BY <1>4, <1>5, <1>7 DEF NeverUnalignedFetch, TouchedShape, IsInstructionAligned
<1>13. QED
  BY <1>9, <1>10, <1>11, <1>12

(* Destroying frees what the emulator owns, and only that.                 *)
LEMMA DestroyKeepsIInv ==
  ASSUME IInv, Destroy
  PROVE  IInv'
<1> USE DEF Destroy, IInv
<1>1. words' \in [Fields -> Nat] /\ Memory' = NULL /\ MemorySize' = 0 /\ Pc' = 0
  BY Layout DEF NoWords, Memory, MemorySize, Pc, NULL
<1>2. config' \in [memory_size : Nat, reset_pc : 0 .. AddrMod - 1,
                   endian : Endians, clear : BOOLEAN]
  BY AddrAssumption DEF NoConfig, Endians
<1>3. res' \in ResultType /\ res'.op = "destroy" /\ res'.touched = {}
  <2>1. "destroy" \in Op /\ "OK" \in Status
    BY DEF Op, Status
  <2>2. QED
    BY <2>1, ResultIsTyped DEF Result
<1>4. DOMAIN ram' = {} /\ ram' \in [DOMAIN ram' -> Byte]
  BY DEF NoRam
<1>5. TypeOK'
  <2>1. heap' \subseteq Block /\ handle' \in Block \cup {NULL} /\ lost' \subseteq Block
    BY DEF TypeOK
  <2>2. DOMAIN ram' \subseteq Nat /\ ram' \in [DOMAIN ram' -> Byte]
    BY <1>4
  <2>3. QED
    BY <1>1, <1>2, <1>3, <2>1, <2>2 DEF TypeOK, ResultType
<1>6. MemoryShape'
  BY <1>1, <1>4 DEF MemoryShape
<1>7. OnlyResetLosesBlocks'
  <2>1. heap' = lost
    BY DEF OnlyResetLosesBlocks, TypeOK, MemoryShape
  <2>2. NULL \notin lost
    BY BlockAssumption DEF TypeOK
  <2>3. QED
    BY <1>1, <2>1, <2>2 DEF OnlyResetLosesBlocks
<1>8. NeverUnalignedFetch' /\ TouchedShape'
  BY <1>3 DEF NeverUnalignedFetch, TouchedShape
<1>9. QED
  BY <1>5, <1>6, <1>7, <1>8

(* machine_reset drops the pointer to guest memory, and clears the pc.     *)
LEMMA MachineResetKeepsIInv ==
  ASSUME IInv, MachineReset
  PROVE  IInv'
<1> USE DEF MachineReset, IInv
<1> DEFINE cleared == CpuReset(ResetBase, config.reset_pc)
<1>1. /\ cleared \in [Fields -> Nat] /\ cleared[MemoryWord] = NULL
      /\ cleared[SizeWord] = 0 /\ cleared[PcWord] = 0
  BY ResetWords, TypedParts DEF TypeOK
<1> HIDE DEF cleared
<1>2. words' = cleared
  BY DEF cleared
<1>3. Memory' = NULL /\ MemorySize' = 0 /\ Pc' = 0
  BY <1>1, <1>2 DEF Memory, MemorySize, Pc
<1>4. ram' = NoRam /\ lost' = lost \cup ({Memory} \ {NULL})
  BY <1>1 DEF cleared
<1>5. DOMAIN ram' = {} /\ ram' \in [DOMAIN ram' -> Byte]
  BY <1>4 DEF NoRam
<1>6. res' = [Result("reset", "OK") EXCEPT !.touched = {}]
  BY <1>1 DEF cleared, Span
<1>7. res' \in ResultType /\ res'.op = "reset" /\ res'.touched = {}
  <2>1. "reset" \in Op /\ "OK" \in Status
    BY DEF Op, Status
  <2>2. QED
    BY <1>6, <2>1, ResultIsTyped DEF Result
<1>8. TypeOK'
  <2>1. lost' \subseteq Block
    BY <1>4 DEF TypeOK, MemoryShape
  <2>2. QED
    BY <1>1, <1>2, <1>5, <1>7, <2>1 DEF TypeOK, ResultType
<1>9. MemoryShape'
  BY <1>3, <1>5 DEF MemoryShape
<1>10. OnlyResetLosesBlocks'
  <2>1. NULL \notin lost /\ handle # NULL
    BY BlockAssumption DEF TypeOK
  <2>2. QED
    BY <1>3, <1>4, <2>1 DEF OnlyResetLosesBlocks
<1>11. NeverUnalignedFetch' /\ TouchedShape'
  BY <1>3, <1>7 DEF NeverUnalignedFetch, TouchedShape, IsInstructionAligned
<1>12. QED
  BY <1>8, <1>9, <1>10, <1>11

(* A step that changes at most the pc, to an aligned one, and the bytes of *)
(* guest memory: what load_program, write_memory and set_pc have in common.*)
LEMMA WriteOrJump ==
  ASSUME IInv, handle # NULL, UNCHANGED <<heap, handle, config, lost>>,
         NEW pc \in Nat, IsInstructionAligned(pc),
         words' = words \/ words' = [words EXCEPT ![PcWord] = pc],
         DOMAIN ram' = DOMAIN ram, ram' \in [DOMAIN ram -> Byte],
         res' \in ResultType, res'.op \notin {"step", "run"},
         res'.touched \subseteq DOMAIN ram
  PROVE  IInv'
<1> USE DEF IInv
<1>1. words' \in [Fields -> Nat] /\ Memory' = Memory /\ MemorySize' = MemorySize
  BY Layout DEF TypeOK, Memory, MemorySize
<1>2. Pc' = Pc \/ Pc' = pc
  BY Layout DEF TypeOK, Pc
<1>3. TypeOK'
  <2>1. DOMAIN ram' \subseteq Nat /\ ram' \in [DOMAIN ram' -> Byte]
    BY DEF TypeOK
  <2>2. QED
    BY <1>1, <2>1 DEF TypeOK, ResultType
<1>4. MemoryShape'
  BY <1>1 DEF MemoryShape
<1>5. OnlyResetLosesBlocks'
  BY <1>1 DEF OnlyResetLosesBlocks
<1>6. NeverUnalignedFetch'
  BY <1>2 DEF NeverUnalignedFetch, IsInstructionAligned
<1>7. TouchedShape'
  BY DEF TouchedShape
<1>8. QED
  BY <1>3, <1>4, <1>5, <1>6, <1>7

(* A write that is accepted stays inside guest memory and keeps its type.  *)
LEMMA AcceptedWrite ==
  ASSUME IInv, NEW address \in Nat, NEW data \in Buffer,
         WriteStatus(address, data) = "OK"
  PROVE  /\ DOMAIN Written(address, data) = DOMAIN ram
         /\ Written(address, data) \in [DOMAIN ram -> Byte]
         /\ Span(address, Len(data.bytes)) \subseteq DOMAIN ram
<1>1. Len(data.bytes) \in Nat /\ \A i \in 1 .. Len(data.bytes) : data.bytes[i] \in Byte
  BY TypedInputs
<1>2. MemoryRangeIsValid(address, Len(data.bytes))
  BY DEF WriteStatus
<1>3. Span(address, Len(data.bytes)) \subseteq DOMAIN ram
  BY <1>1, <1>2, ValidRangeIsInside DEF IInv, MemoryShape
<1>4. \A a \in DOMAIN ram : Written(address, data)[a] \in Byte
  <2> TAKE a \in DOMAIN ram
  <2>1. CASE a \in Span(address, Len(data.bytes))
    <3>1. a - address + 1 \in 1 .. Len(data.bytes)
      BY <1>1, <2>1 DEF Span
    <3>2. QED
      BY <1>1, <2>1, <3>1 DEF Written
  <2>2. CASE a \notin Span(address, Len(data.bytes))
    BY <2>2 DEF Written, IInv, TypeOK
  <2>3. QED
    BY <2>1, <2>2
<1>5. QED
  BY <1>3, <1>4 DEF Written

(* An accepted write stays inside guest memory; a refused one changes      *)
(* nothing.                                                                *)
LEMMA WriteMemoryKeepsIInv ==
  ASSUME IInv, NEW a \in Address, NEW b \in Buffer, WriteMemory(a, b)
  PROVE  IInv'
<1> DEFINE status == WriteStatus(a, b)
<1>1. a \in Nat /\ status \in Status /\ "write" \in Op /\ Result("write", status) \in ResultType
  BY TypedInputs, StatusesAreTyped, ResultIsTyped DEF Op
<1>2. DOMAIN ram' = DOMAIN ram /\ ram' \in [DOMAIN ram -> Byte]
  BY <1>1, AcceptedWrite DEF WriteMemory, IInv, TypeOK
<1>3. /\ res' \in ResultType /\ res'.op = "write"
      /\ res'.touched \subseteq DOMAIN ram
  <2> DEFINE touched == IF status = "OK" THEN Span(a, Len(b.bytes)) ELSE {}
  <2>1. touched \subseteq DOMAIN ram /\ touched \subseteq Nat
    BY <1>1, AcceptedWrite DEF IInv, TypeOK
  <2>2. res' = [Result("write", status) EXCEPT !.touched = touched]
    BY DEF WriteMemory
  <2> HIDE DEF touched
  <2>3. QED
    BY <1>1, <2>1, <2>2 DEF ResultType, Result
<1>4. 0 \in Nat /\ IsInstructionAligned(0)
  BY DEF IsInstructionAligned
<1>5. QED
  BY <1>2, <1>3, <1>4, WriteOrJump DEF WriteMemory

(* Loading writes like write_memory and jumps only to an aligned entry     *)
(* point.                                                                  *)
LEMMA LoadProgramKeepsIInv ==
  ASSUME IInv, NEW i \in Image, LoadProgram(i)
  PROVE  IInv'
<1> DEFINE written == WriteStatus(i.load_address, i.data)
           jumps   == written = "OK" /\ i.set_pc_to_entry
           status  == IF jumps THEN SetPcStatus(i.entry_point) ELSE written
           touched == IF written = "OK"
                      THEN Span(i.load_address, Len(i.data.bytes)) ELSE {}
<1>1. i.load_address \in Nat /\ i.entry_point \in Nat /\ i.data \in Buffer
  BY TypedInputs
<1>2. status \in Status /\ "load" \in Op /\ Result("load", status) \in ResultType
  BY StatusesAreTyped, ResultIsTyped DEF Op
<1>3. DOMAIN ram' = DOMAIN ram /\ ram' \in [DOMAIN ram -> Byte]
  BY <1>1, AcceptedWrite DEF LoadProgram, IInv, TypeOK
<1>4. /\ res' \in ResultType /\ res'.op = "load"
      /\ res'.touched \subseteq DOMAIN ram
  <2>1. touched \subseteq DOMAIN ram /\ touched \subseteq Nat
    BY <1>1, AcceptedWrite DEF IInv, TypeOK
  <2>2. res' = [Result("load", status) EXCEPT !.touched = touched]
    BY DEF LoadProgram
  <2> HIDE DEF touched, status
  <2>3. QED
    BY <1>2, <2>1, <2>2 DEF ResultType, Result
<1>5. \E pc \in Nat : /\ IsInstructionAligned(pc)
                      /\ words' = words \/ words' = [words EXCEPT ![PcWord] = pc]
  <2>1. CASE jumps /\ status = "OK"
    <3>1. IsInstructionAligned(i.entry_point)
      BY <2>1 DEF SetPcStatus
    <3>2. words' = [words EXCEPT ![PcWord] = i.entry_point]
      BY <2>1 DEF LoadProgram
    <3>3. QED
      BY <1>1, <3>1, <3>2
  <2>2. CASE ~(jumps /\ status = "OK")
    <3>1. words' = words
      BY <2>2 DEF LoadProgram
    <3>2. IsInstructionAligned(0)
      BY DEF IsInstructionAligned
    <3>3. QED
      BY <3>1, <3>2
  <2>3. QED
    BY <2>1, <2>2
<1>6. QED
  BY <1>3, <1>4, <1>5, WriteOrJump DEF LoadProgram

(* set_pc stores only aligned pcs.                                         *)
LEMMA SetPcKeepsIInv ==
  ASSUME IInv, NEW a \in Address, SetPc(a)
  PROVE  IInv'
<1>1. a \in Nat /\ SetPcStatus(a) \in Status /\ "set_pc" \in Op
  BY TypedInputs, StatusesAreTyped DEF Op
<1>2. res' \in ResultType /\ res'.op = "set_pc" /\ res'.touched = {}
  BY <1>1, ResultIsTyped DEF SetPc, Result
<1>3. ram' = ram /\ ram \in [DOMAIN ram -> Byte]
  BY DEF SetPc, IInv, TypeOK
<1>4. CASE IsInstructionAligned(a)
  BY <1>1, <1>2, <1>3, <1>4, WriteOrJump DEF SetPc, SetPcStatus
<1>5. CASE ~IsInstructionAligned(a)
  <2>1. words' = words /\ IsInstructionAligned(0)
    BY <1>5 DEF SetPc, SetPcStatus, IsInstructionAligned
  <2>2. QED
    BY <1>2, <1>3, <2>1, WriteOrJump DEF SetPc
<1>6. QED
  BY <1>4, <1>5

-----------------------------------------------------------------------------
(* Steps that only report.                                                 *)

(* A fetch that is accepted stays inside guest memory, and the pc of a     *)
(* live emulator is never misaligned.                                      *)
LEMMA FetchIsInside ==
  ASSUME IInv, handle # NULL
  PROVE  /\ FetchStatus(Pc) = "OK" => Span(Pc, 4) \subseteq DOMAIN ram
         /\ Pc \in Nat
         /\ StepStatus # "UNALIGNED_PC"
<1>1. Pc \in Nat
  BY TypedParts DEF IInv
<1>2. FetchStatus(Pc) = "OK" => Span(Pc, 4) \subseteq DOMAIN ram
  BY <1>1, ValidRangeIsInside DEF FetchStatus, IInv, MemoryShape
<1>3. StepStatus # "UNALIGNED_PC"
  BY DEF StepStatus, FetchStatus, IInv, NeverUnalignedFetch
<1>4. QED
  BY <1>1, <1>2, <1>3

(* Reading the pc changes nothing and reports a typed pc.                  *)
LEMMA GetPcKeepsIInv ==
  ASSUME IInv, GetPc
  PROVE  IInv'
<1>1. "get_pc" \in Op /\ "OK" \in Status /\ Pc \in Nat
  BY TypedParts DEF Op, Status, IInv
<1>2. res' \in ResultType /\ res'.op = "get_pc" /\ res'.touched = {}
  BY <1>1, ResultIsTyped DEF GetPc, Result, ResultType
<1>3. UNCHANGED Machine /\ TouchedShape'
  BY <1>2 DEF GetPc, Machine, TouchedShape
<1>4. QED
  BY <1>2, <1>3, ReportOnly

(* A step touches the four bytes at the pc at most, and changes nothing.   *)
LEMMA StepKeepsIInv ==
  ASSUME IInv, Step
  PROVE  IInv'
<1> DEFINE fetched == FetchStatus(Pc) = "OK"
           word    == IF fetched THEN ReadU32FromBytes(BytesAt(Pc)) ELSE 0
           reason  == IF fetched THEN "STOP_NOT_IMPLEMENTED"
                      ELSE StopReasonFromStatus(StepStatus)
           touched == IF fetched THEN Span(Pc, 4) ELSE {}
<1>1. handle # NULL /\ UNCHANGED Machine
  BY DEF Step, Machine
<1>2. Pc \in Nat /\ word \in {0, 1}
  BY <1>1, FetchIsInside DEF ReadU32FromBytes
<1>3. reason \in Reason
  BY DEF StopReasonFromStatus, Reason
<1>4. touched \subseteq DOMAIN ram /\ touched \subseteq Nat
  BY <1>1, FetchIsInside DEF IInv, TypeOK
<1>5. "step" \in Op /\ StepStatus \in Status
  BY StatusesAreTyped DEF Op
<1>6. res' = [Result("step", StepStatus) EXCEPT
                !.pc = Pc, !.word = word, !.reason = reason, !.touched = touched]
  BY DEF Step
<1> HIDE DEF touched, word, reason
<1>7. res' \in ResultType /\ res'.status = StepStatus /\ res'.touched = touched
  BY <1>2, <1>3, <1>4, <1>5, <1>6 DEF Result, ResultType
<1>8. TouchedShape'
  BY <1>1, <1>4, <1>7 DEF TouchedShape, Machine
<1>9. QED
  BY <1>1, <1>7, <1>8, FetchIsInside, ReportOnly

(* A run touches what its first step does, and changes nothing.            *)
LEMMA RunProgramKeepsIInv ==
  ASSUME IInv, NEW n \in MaxSteps, RunProgram(n)
  PROVE  IInv'
<1> DEFINE stopped == \E i \in 1 .. n : StepStatus # "OK"
           status  == IF stopped THEN StepStatus ELSE "STEP_LIMIT_REACHED"
           reason  == StopReasonFromStatus(status)
           steps   == IF stopped THEN 0 ELSE n
           touched == IF stopped /\ FetchStatus(Pc) = "OK" THEN Span(Pc, 4) ELSE {}
<1>1. handle # NULL /\ UNCHANGED Machine
  BY DEF RunProgram, Machine
<1>2. Pc \in Nat /\ steps \in Nat
  BY <1>1, FetchIsInside, TypedInputs
<1>3. reason \in Reason
  BY DEF StopReasonFromStatus, Reason
<1>4. touched \subseteq DOMAIN ram /\ touched \subseteq Nat
  BY <1>1, FetchIsInside DEF IInv, TypeOK
<1>5. "run" \in Op /\ status \in Status /\ status # "UNALIGNED_PC"
  BY <1>1, FetchIsInside, StatusesAreTyped DEF Op, Status
<1>6. res' = [Result("run", status) EXCEPT
                !.pc = Pc, !.steps = steps, !.reason = reason, !.touched = touched]
  BY DEF RunProgram
<1> HIDE DEF touched, reason, steps, status
<1>7. res' \in ResultType /\ res'.status = status /\ res'.touched = touched
  BY <1>2, <1>3, <1>4, <1>5, <1>6 DEF Result, ResultType
<1>8. TouchedShape'
  BY <1>1, <1>4, <1>7 DEF TouchedShape, Machine
<1>9. QED
  BY <1>1, <1>5, <1>7, <1>8, ReportOnly

-----------------------------------------------------------------------------
(* Every step keeps the invariant.                                         *)
LEMMA NextKeepsIInv == IInv /\ [Next]_vars => IInv'
<1> SUFFICES ASSUME IInv, [Next]_vars PROVE IInv'
  OBVIOUS
<1>1. ASSUME NEW c \in Config, CreateRejected(c) PROVE IInv'
  <2>1. "create" \in Op \ {"step", "run"} /\ CreateStatus(c) \in Status
    BY StatusesAreTyped DEF Op
  <2>2. QED
    BY <1>1, <2>1, StatusOnly DEF CreateRejected, Machine
<1>2. ASSUME NEW c \in Config, CreateOutOfMemory(c) PROVE IInv'
  BY <1>2, CreateOutOfMemoryKeepsIInv
<1>3. ASSUME NEW c \in Config, Create(c) PROVE IInv'
  BY <1>3, CreateKeepsIInv
<1>4. CASE Destroy
  BY <1>4, DestroyKeepsIInv
<1>5. CASE MachineReset
  BY <1>5, MachineResetKeepsIInv
<1>6. ASSUME NEW a \in Address, NEW b \in Buffer, WriteMemory(a, b) PROVE IInv'
  BY <1>6, WriteMemoryKeepsIInv
<1>7. ASSUME NEW i \in Image, LoadProgram(i) PROVE IInv'
  BY <1>7, LoadProgramKeepsIInv
<1>8. ASSUME NEW a \in Address, SetPc(a) PROVE IInv'
  BY <1>8, SetPcKeepsIInv
<1>9. CASE GetPc
  BY <1>9, GetPcKeepsIInv
<1>10. CASE GetGpr \/ SetGpr
  <2>1. {"get_gpr", "set_gpr"} \subseteq Op \ {"step", "run"} /\ "OK" \in Status
    BY DEF Op, Status
  <2>2. QED
    BY <1>10, <2>1, StatusOnly DEF GetGpr, SetGpr, Machine
<1>11. CASE ReadMemory
  <2>1. "read" \in Op \ {"step", "run"} /\ "NOT_IMPLEMENTED" \in Status
    BY DEF Op, Status
  <2>2. QED
    BY <1>11, <2>1, StatusOnly DEF ReadMemory, Machine
<1>12. CASE NullArgument
  <2>1. "null" \in Op \ {"step", "run"} /\ "INVALID_ARGUMENT" \in Status
    BY DEF Op, Status
  <2>2. QED
    BY <1>12, <2>1, StatusOnly DEF NullArgument, Machine
<1>13. CASE Step
  BY <1>13, StepKeepsIInv
<1>14. ASSUME NEW n \in MaxSteps, RunProgram(n) PROVE IInv'
  BY <1>14, RunProgramKeepsIInv
<1>15. CASE UNCHANGED vars
  BY <1>15 DEF vars, IInv, TypeOK, MemoryShape, TouchedShape, OnlyResetLosesBlocks,
               NeverUnalignedFetch, Memory, MemorySize, Pc
<1>16. QED
  BY <1>1, <1>2, <1>3, <1>4, <1>5, <1>6, <1>7, <1>8, <1>9, <1>10, <1>11, <1>12,
     <1>13, <1>14, <1>15 DEF Next

(* The inductive invariant holds in every state of every behaviour.        *)
LEMMA Invariance == Spec => []IInv
  BY InitIInv, NextKeepsIInv, PTL DEF Spec

(* What was touched is there, so there is memory, and it is allocated.     *)
LEMMA TouchedIsAllocated == IInv => AccessesStayInAllocation
<1> SUFFICES ASSUME IInv, res.touched # {}
             PROVE  handle # NULL /\ Memory \in heap /\ res.touched \subseteq DOMAIN ram
  BY DEF AccessesStayInAllocation
<1>1. handle # NULL /\ res.touched \subseteq DOMAIN ram
  BY DEF IInv, TouchedShape
<1>2. MemorySize # 0
  BY <1>1 DEF IInv, MemoryShape
<1>3. QED
  BY <1>1, <1>2 DEF IInv, MemoryShape

(* Without memory the size is 0, and no range fits.                        *)
LEMMA DetachedIsEmpty == IInv => DetachedRejectsAll
<1> SUFFICES ASSUME IInv, Detached
             PROVE  /\ \A a \in 0 .. AddrMod - 1 : ~MemoryRangeIsValid(a, 1)
                    /\ StepStatus = "ADDRESS_OUT_OF_RANGE"
  BY DEF DetachedRejectsAll
<1>1. MemorySize = 0 /\ handle # NULL
  BY DEF IInv, MemoryShape, Detached
<1>2. \A a \in 0 .. AddrMod - 1 : ~MemoryRangeIsValid(a, 1)
  BY <1>1, AddrAssumption DEF MemoryRangeIsValid
<1>3. Pc \in Nat /\ IsInstructionAligned(Pc)
  BY <1>1, FetchIsInside DEF IInv, NeverUnalignedFetch
<1>4. StepStatus = "ADDRESS_OUT_OF_RANGE"
  BY <1>1, <1>3 DEF StepStatus, FetchStatus, MemoryRangeIsValid
<1>5. QED
  BY <1>2, <1>4

-----------------------------------------------------------------------------
(* The theorems.                                                           *)

(* Whatever the client calls, the variables keep the types the C           *)
(* declarations give them; register and memory words stay defined.         *)
THEOREM TypeCorrect == Spec => []TypeOK
<1>1. IInv => TypeOK
  BY DEF IInv
<1>2. QED
  BY <1>1, Invariance, PTL

(* write_memory, load_program, step and run only ever touch bytes of the   *)
(* allocated guest memory, for every address width and size.               *)
THEOREM AccessSafe == Spec => []AccessesStayInAllocation
  BY TouchedIsAllocated, Invariance, PTL

(* Nothing is leaked by create or destroy and nothing owned is freed       *)
(* early: the heap is what the emulator owns plus what machine_reset lost. *)
THEOREM HeapAccounted == Spec => []OnlyResetLosesBlocks
<1>1. IInv => OnlyResetLosesBlocks
  BY DEF IInv
<1>2. QED
  BY <1>1, Invariance, PTL

(* The pc is always a multiple of 4, so no fetch is ever misaligned.       *)
THEOREM PcAligned == Spec => []NeverUnalignedFetch
<1>1. IInv => NeverUnalignedFetch
  BY DEF IInv
<1>2. QED
  BY <1>1, Invariance, PTL

(* After a machine_reset the emulator accepts no address and runs nothing, *)
(* whatever is called next.                                                *)
THEOREM ResetDetaches == Spec => []DetachedRejectsAll
  BY DetachedIsEmpty, Invariance, PTL

(* A failed call leaves guest memory and registers alone, except           *)
(* load_program with a misaligned entry point.                             *)
THEOREM FailureKeepsMachine == Spec => FailedCallKeepsMachine
<1> DEFINE Kept == res'.status # "OK" =>
                     /\ words' = words
                     /\ \/ ram' = ram
                        \/ res'.op = "load" /\ res'.status = "UNALIGNED_PC"
<1>1. ASSUME Next PROVE Kept
  <2>1. ASSUME NEW c \in Config,
               CreateRejected(c) \/ CreateOutOfMemory(c) \/ Create(c)
        PROVE  Kept
    BY <2>1 DEF CreateRejected, CreateOutOfMemory, Create, Result
  <2>2. CASE Destroy
    BY <2>2 DEF Destroy, Result
  <2>3. CASE MachineReset
    <3>1. res'.status = "OK"
      BY <2>3 DEF MachineReset, Result
    <3>2. QED
      BY <3>1
  <2>4. ASSUME NEW a \in Address, NEW b \in Buffer, WriteMemory(a, b)
        PROVE  Kept
    <3>1. res'.status = WriteStatus(a, b)
      BY <2>4 DEF WriteMemory, Result
    <3>2. QED
      BY <2>4, <3>1 DEF WriteMemory
  <2>5. ASSUME NEW i \in Image, LoadProgram(i) PROVE Kept
    <3> DEFINE written == WriteStatus(i.load_address, i.data)
               jumps   == written = "OK" /\ i.set_pc_to_entry
               status  == IF jumps THEN SetPcStatus(i.entry_point) ELSE written
    <3>1. res'.status = status /\ res'.op = "load"
      BY <2>5 DEF LoadProgram, Result
    <3>2. status # "OK" => words' = words
      BY <2>5 DEF LoadProgram
    <3>3. written # "OK" => ram' = ram
      BY <2>5 DEF LoadProgram
    <3>4. written = "OK" /\ status # "OK" => status = "UNALIGNED_PC"
      BY DEF SetPcStatus
    <3>5. QED
      BY <3>1, <3>2, <3>3, <3>4
  <2>6. ASSUME NEW a \in Address, SetPc(a) PROVE Kept
    BY <2>6 DEF SetPc, Result
  <2>7. CASE GetPc \/ GetGpr \/ SetGpr \/ ReadMemory \/ NullArgument \/ Step
    BY <2>7 DEF GetPc, GetGpr, SetGpr, ReadMemory, NullArgument, Step
  <2>8. ASSUME NEW n \in MaxSteps, RunProgram(n) PROVE Kept
    BY <2>8 DEF RunProgram
  <2>9. QED
    BY <1>1, <2>1, <2>2, <2>3, <2>4, <2>5, <2>6, <2>7, <2>8 DEF Next
<1>2. QED
  BY <1>1, PTL DEF Spec, FailedCallKeepsMachine

(* run_program never counts an instruction, never returns OK, and reports  *)
(* the pc and the stop reason that go with its status: its loop cannot     *)
(* get past the first step for any budget.                                 *)
THEOREM RunMakesNoProgress == Spec => []RunReportsNoProgress
<1>1. Init => RunReportsNoProgress
  BY DEF Init, Result, RunReportsNoProgress
<1>2. RunReportsNoProgress /\ [Next]_vars => RunReportsNoProgress'
  <2> SUFFICES ASSUME RunReportsNoProgress, [Next]_vars PROVE RunReportsNoProgress'
    OBVIOUS
  <2>1. ASSUME NEW n \in MaxSteps, RunProgram(n) PROVE RunReportsNoProgress'
    <3> DEFINE stopped == \E i \in 1 .. n : StepStatus # "OK"
               status  == IF stopped THEN StepStatus ELSE "STEP_LIMIT_REACHED"
    <3>1. StepStatus # "OK" /\ n \in Nat
      BY TypedInputs DEF StepStatus
    <3>2. ~stopped => n = 0
      BY <3>1
    <3>3. /\ res'.steps = IF stopped THEN 0 ELSE n
          /\ res'.pc = Pc /\ res'.status = status
          /\ res'.reason = StopReasonFromStatus(status)
      BY <2>1 DEF RunProgram, Result
    <3>4. Pc' = Pc
      BY <2>1 DEF RunProgram, Pc
    <3>5. QED
      BY <3>1, <3>2, <3>3, <3>4 DEF RunReportsNoProgress
  <2>2. ASSUME Next, ~ \E n \in MaxSteps : RunProgram(n) PROVE res'.op # "run"
    <3>1. ASSUME NEW c \in Config,
                 CreateRejected(c) \/ CreateOutOfMemory(c) \/ Create(c)
          PROVE  res'.op # "run"
      BY <3>1 DEF CreateRejected, CreateOutOfMemory, Create, Result
    <3>2. CASE Destroy \/ GetPc \/ GetGpr \/ SetGpr \/ ReadMemory \/ NullArgument
      BY <3>2 DEF Destroy, GetPc, GetGpr, SetGpr, ReadMemory, NullArgument, Result
    <3>3. CASE MachineReset
      BY <3>3 DEF MachineReset, Result
    <3>4. ASSUME NEW a \in Address, NEW b \in Buffer, WriteMemory(a, b)
          PROVE  res'.op # "run"
      BY <3>4 DEF WriteMemory, Result
    <3>5. ASSUME NEW i \in Image, LoadProgram(i) PROVE res'.op # "run"
      BY <3>5 DEF LoadProgram, Result
    <3>6. ASSUME NEW a \in Address, SetPc(a) PROVE res'.op # "run"
      BY <3>6 DEF SetPc, Result
    <3>7. CASE Step
      BY <3>7 DEF Step, Result
    <3>8. QED
      BY <2>2, <3>1, <3>2, <3>3, <3>4, <3>5, <3>6, <3>7 DEF Next
  <2>3. CASE UNCHANGED vars
    BY <2>3 DEF vars, RunReportsNoProgress, Pc
  <2>4. QED
    BY <2>1, <2>2, <2>3 DEF RunReportsNoProgress
<1>3. QED
  BY <1>1, <1>2, PTL DEF Spec
=============================================================================
