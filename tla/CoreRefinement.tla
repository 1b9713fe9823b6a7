--------------------------- MODULE CoreRefinement ---------------------------
(***************************************************************************)
(* core.c implements the emulator its client sees: every step of Core is a *)
(* step of Emulator or a stutter, under the inductive invariant of         *)
(* CoreProofs.                                                             *)
(***************************************************************************)
EXTENDS CoreProofs

(* A call without effect on the emulator shows none to the client.         *)
LEMMA SameMachine ==
  ASSUME UNCHANGED Machine
  PROVE  UNCHANGED <<Phase, MemorySize, ram, Pc>>
  BY DEF Machine, Phase, Memory, MemorySize, Pc

(* The client sees the status and the operation of a plain report.         *)
LEMMA PlainReport ==
  ASSUME NEW op, NEW status, NEW touched,
         \/ res' = Result(op, status)
         \/ res' = [Result(op, status) EXCEPT !.touched = touched]
  PROVE  Told' = Promise!Reply(op, status)
  BY DEF Result, Told, Promise!Reply

(* Before the first call the client has no emulator.                       *)
LEMMA InitMaps == Init => Promise!EmulatorInit
<1> SUFFICES ASSUME Init PROVE Promise!EmulatorInit
  OBVIOUS
<1>1. MemorySize = 0 /\ Pc = 0 /\ Phase = "none"
  BY Layout DEF Init, NoWords, MemorySize, Pc, Phase
<1>2. ram = Promise!Zeros(0)
  BY DEF Init, NoRam, Promise!Zeros
<1>3. Told = Promise!Reply("none", "OK")
  BY DEF Init, Result, Told, Promise!Reply
<1>4. QED
  BY <1>1, <1>2, <1>3 DEF Promise!EmulatorInit

-----------------------------------------------------------------------------
(* The checks of the code are the faults of the promise.                   *)

(* create refuses the configurations with a fault, and reports one.        *)
LEMMA CreateVerdict ==
  ASSUME NEW c \in Config
  PROVE  /\ CreateStatus(c) = "OK" <=> Promise!ConfigFaults(c) = {}
         /\ CreateStatus(c) # "OK" => CreateStatus(c) \in Promise!ConfigFaults(c)
<1>1. CreateStatus(c) # "OK" => CreateStatus(c) \in Promise!ConfigFaults(c)
  BY DEF CreateStatus, Endians, IsInstructionAligned, Promise!ConfigFaults
<1>2. CreateStatus(c) = "OK" => Promise!ConfigFaults(c) = {}
  <2> SUFFICES ASSUME CreateStatus(c) = "OK", NEW f \in Promise!ConfigFaults(c)
               PROVE  FALSE
    OBVIOUS
  <2>1. c.memory_size # 0 /\ c.endian \in Endians
    BY DEF CreateStatus
  <2>2. c.reset_pc % 4 = 0
    BY <2>1 DEF CreateStatus, IsInstructionAligned
  <2>3. ~(c.reset_pc > c.memory_size)
    BY <2>1, <2>2 DEF CreateStatus, IsInstructionAligned
  <2>4. QED
    BY <2>1, <2>2, <2>3 DEF Promise!ConfigFaults, Endians
<1>3. QED
  BY <1>1, <1>2

(* The range check of the code, which subtracts so as not to wrap, is the  *)
(* plain one.                                                              *)
LEMMA PlainRange ==
  ASSUME TypeOK, NEW a \in Nat, NEW n \in Nat
  PROVE  MemoryRangeIsValid(a, n) <=> a + n <= MemorySize
  BY TypedParts DEF MemoryRangeIsValid

(* write_memory refuses the writes with a fault, and reports one.          *)
LEMMA WriteVerdict ==
  ASSUME TypeOK, NEW a \in Nat, NEW b \in Buffer
  PROVE  /\ WriteStatus(a, b) = "OK" <=> Promise!StoreFaults(a, b) = {}
         /\ WriteStatus(a, b) # "OK" => WriteStatus(a, b) \in Promise!StoreFaults(a, b)
<1>1. Len(b.bytes) \in Nat
  BY TypedInputs
<1>2. /\ MemorySize \in Nat
      /\ MemoryRangeIsValid(a, Len(b.bytes)) <=> a + Len(b.bytes) <= MemorySize
  BY <1>1, PlainRange, TypedParts
<1>3. Len(b.bytes) # 0 <=> Len(b.bytes) > 0
  BY <1>1
<1>4. ~MemoryRangeIsValid(a, Len(b.bytes)) <=> a + Len(b.bytes) > MemorySize
  BY <1>1, <1>2
<1>5. WriteStatus(a, b) # "OK" => WriteStatus(a, b) \in Promise!StoreFaults(a, b)
  BY <1>3, <1>4 DEF WriteStatus, Promise!StoreFaults
<1>6. WriteStatus(a, b) = "OK" => Promise!StoreFaults(a, b) = {}
  BY <1>3, <1>4 DEF WriteStatus, Promise!StoreFaults
<1>7. QED
  BY <1>5, <1>6

(* An accepted write stores what the client passed.                        *)
LEMMA WriteStores ==
  ASSUME TypeOK, NEW a \in Nat, NEW b \in Buffer
  PROVE  Written(a, b) = Promise!Stored(a, b)
<1>1. Len(b.bytes) \in Nat /\ DOMAIN ram \subseteq Nat
  BY TypedInputs DEF TypeOK
<1>2. \A x \in DOMAIN ram :
        x \in Span(a, Len(b.bytes)) <=> a <= x /\ x < a + Len(b.bytes)
  BY <1>1 DEF Span
<1>3. QED
  BY <1>2 DEF Written, Promise!Stored

(* A fetch from an emulator fails only for want of memory.                 *)
LEMMA StepVerdict ==
  ASSUME IInv, handle # NULL
  PROVE  /\ StepStatus = Promise!Outcome
         /\ FetchStatus(Pc) = "OK" <=> Promise!Outcome = "NOT_IMPLEMENTED"
<1>1. Pc \in Nat /\ IsInstructionAligned(Pc)
  BY FetchIsInside DEF IInv, NeverUnalignedFetch
<1>2. MemoryRangeIsValid(Pc, 4) <=> Pc + 4 <= MemorySize
  BY <1>1, PlainRange DEF IInv
<1>3. QED
  BY <1>1, <1>2 DEF StepStatus, FetchStatus, Promise!Outcome

-----------------------------------------------------------------------------
(* One lemma per call.                                                     *)

(* A new emulator has the memory and the pc of its configuration.          *)
LEMMA CreateMaps ==
  ASSUME IInv, NEW c \in Config, Create(c)
  PROVE  Promise!Create(c)
<1>1. PICK e, m \in Block \ heap :
        /\ handle' = e
        /\ words' = [NoWords EXCEPT ![MemoryWord] = m,
                                    ![SizeWord]   = c.memory_size,
                                    ![PcWord]     = c.reset_pc]
  BY DEF Create
<1>2. e # NULL /\ m # NULL
  BY BlockAssumption
<1>3. Memory' = m /\ MemorySize' = c.memory_size /\ Pc' = c.reset_pc
  BY <1>1, Layout DEF NoWords, Memory, MemorySize, Pc
<1>4. Phase = "none" /\ Phase' = "attached"
  BY <1>1, <1>2, <1>3 DEF Create, Phase
<1>5. Promise!ConfigFaults(c) = {}
  BY CreateVerdict DEF Create
<1>6. ram' = Promise!Zeros(c.memory_size)
  BY DEF Create, Promise!Zeros
<1>7. Told' = Promise!Reply("create", "OK")
  BY PlainReport DEF Create
<1>8. QED
  BY <1>3, <1>4, <1>5, <1>6, <1>7 DEF Promise!Create

(* A create that fails, on its argument or for want of memory, leaves the  *)
(* client without an emulator.                                             *)
LEMMA CreateFailsMaps ==
  ASSUME NEW c \in Config, CreateRejected(c) \/ CreateOutOfMemory(c)
  PROVE  Promise!CreateFails(c)
<1>1. Phase = "none"
  BY DEF CreateRejected, CreateOutOfMemory, Phase
<1>2. UNCHANGED Machine
  BY DEF CreateRejected, CreateOutOfMemory, Machine
<1>3. UNCHANGED Promise!machine
  BY <1>2, SameMachine DEF Promise!machine
<1>4. CASE CreateRejected(c)
  BY <1>1, <1>3, <1>4, CreateVerdict, PlainReport
  DEF CreateRejected, Promise!CreateFails
<1>5. CASE CreateOutOfMemory(c)
  BY <1>1, <1>3, <1>5, CreateVerdict, PlainReport
  DEF CreateOutOfMemory, Promise!CreateFails
<1>6. QED
  BY <1>4, <1>5

(* A destroyed emulator is absent, whatever happened to its memory.        *)
LEMMA DestroyMaps ==
  ASSUME Destroy
  PROVE  Promise!Destroy
<1>1. MemorySize' = 0 /\ Pc' = 0 /\ Phase # "none" /\ Phase' = "none"
  BY Layout DEF Destroy, NoWords, MemorySize, Pc, Phase
<1>2. ram' = Promise!Zeros(0)
  BY DEF Destroy, NoRam, Promise!Zeros
<1>3. Told' = Promise!Reply("destroy", "OK")
  BY PlainReport DEF Destroy
<1>4. QED
  BY <1>1, <1>2, <1>3 DEF Promise!Destroy

(* The words machine_reset overwrites are, to the client, its memory.      *)
LEMMA MachineResetMaps ==
  ASSUME IInv, MachineReset
  PROVE  Promise!Reset
<1> DEFINE cleared == CpuReset(ResetBase, config.reset_pc)
<1>1. /\ cleared[MemoryWord] = NULL /\ cleared[SizeWord] = 0
      /\ cleared[PcWord] = 0
  BY ResetWords, TypedParts DEF IInv, TypeOK
<1>2. words' = cleared /\ handle' = handle /\ handle # NULL
  BY DEF MachineReset
<1>3. MemorySize' = 0 /\ Pc' = 0 /\ Phase # "none" /\ Phase' = "detached"
  <2> HIDE DEF cleared
  <2>1. QED
    BY <1>1, <1>2 DEF Memory, MemorySize, Pc, Phase
<1>4. ram' = Promise!Zeros(0)
  BY <1>1 DEF MachineReset, NoRam, Promise!Zeros
<1>5. Told' = Promise!Reply("reset", "OK")
  BY PlainReport DEF MachineReset
<1>6. QED
  BY <1>3, <1>4, <1>5 DEF Promise!Reset

(* A write is stored whole or refused with one of its faults.              *)
LEMMA WriteMemoryMaps ==
  ASSUME IInv, NEW a \in Address, NEW b \in Buffer, WriteMemory(a, b)
  PROVE  Promise!Write(a, b) \/ Promise!StoreFails("write", a, b)
<1>1. TypeOK /\ a \in Nat
  BY TypedInputs DEF IInv
<1>2. Told' = Promise!Reply("write", WriteStatus(a, b)) /\ Phase # "none"
  BY PlainReport DEF WriteMemory, Phase
<1>3. UNCHANGED <<Phase, MemorySize, Pc>>
  BY DEF WriteMemory, Phase, Memory, MemorySize, Pc
<1>4. CASE WriteStatus(a, b) = "OK"
  <2>1. ram' = Promise!Stored(a, b)
    BY <1>1, <1>4, WriteStores DEF WriteMemory
  <2>2. QED
    BY <1>1, <1>2, <1>3, <1>4, <2>1, WriteVerdict DEF Promise!Write
<1>5. CASE WriteStatus(a, b) # "OK"
  <2>1. ram' = ram
    BY <1>5 DEF WriteMemory
  <2>2. QED
    BY <1>1, <1>2, <1>3, <1>5, <2>1, WriteVerdict
    DEF Promise!StoreFails, Promise!machine
<1>6. QED
  BY <1>4, <1>5

(* A load stores the image and then takes, or refuses, the entry point; or *)
(* it refuses the image.                                                   *)
LEMMA LoadProgramMaps ==
  ASSUME IInv, NEW i \in Image, LoadProgram(i)
  PROVE  \/ Promise!Load(i)
         \/ Promise!StoreFails("load", i.load_address, i.data)
<1> DEFINE written == WriteStatus(i.load_address, i.data)
           jumps   == written = "OK" /\ i.set_pc_to_entry
           status  == IF jumps THEN SetPcStatus(i.entry_point) ELSE written
<1>1. TypeOK /\ i.load_address \in Nat /\ i.data \in Buffer /\ words \in [Fields -> Nat]
  BY TypedInputs DEF IInv, TypeOK
<1>2. Told' = Promise!Reply("load", status) /\ Phase # "none"
  BY PlainReport DEF LoadProgram, Phase
<1>3. words' = IF jumps /\ status = "OK"
               THEN [words EXCEPT ![PcWord] = i.entry_point] ELSE words
  BY DEF LoadProgram
<1>4. UNCHANGED <<Phase, MemorySize>>
  BY <1>1, <1>3, Layout DEF LoadProgram, Phase, Memory, MemorySize
<1>5. Pc' = IF jumps /\ status = "OK" THEN i.entry_point ELSE Pc
  BY <1>1, <1>3, Layout DEF Pc
<1>6. CASE written = "OK"
  <2>1. ram' = Promise!Stored(i.load_address, i.data)
    BY <1>1, <1>6, WriteStores DEF LoadProgram
  <2>2. Promise!StoreFaults(i.load_address, i.data) = {}
    BY <1>1, <1>6, WriteVerdict
  <2>3. SetPcStatus(i.entry_point)
          = IF i.entry_point % 4 = 0 THEN "OK" ELSE "UNALIGNED_PC"
    BY DEF SetPcStatus, IsInstructionAligned
  <2>4. QED
    BY <1>2, <1>4, <1>5, <1>6, <2>1, <2>2, <2>3 DEF Promise!Load
<1>7. CASE written # "OK"
  <2>1. ram' = ram /\ Pc' = Pc /\ status = written
    BY <1>5, <1>7 DEF LoadProgram
  <2>2. written \in Promise!StoreFaults(i.load_address, i.data)
    BY <1>1, <1>7, WriteVerdict
  <2>3. QED
    BY <1>2, <1>4, <2>1, <2>2 DEF Promise!StoreFails, Promise!machine
<1>8. QED
  BY <1>6, <1>7

(* set_pc takes an aligned pc, and refuses any other.                      *)
LEMMA SetPcMaps ==
  ASSUME IInv, NEW a \in Address, SetPc(a)
  PROVE  Promise!SetPc(a)
<1>1. words \in [Fields -> Nat]
  BY DEF IInv, TypeOK
<1>2. words' = IF a % 4 = 0 THEN [words EXCEPT ![PcWord] = a] ELSE words
  BY DEF SetPc, SetPcStatus, IsInstructionAligned
<1>3. UNCHANGED <<Phase, MemorySize, ram>> /\ Phase # "none"
  BY <1>1, <1>2, Layout DEF SetPc, Phase, Memory, MemorySize
<1>4. Pc' = IF a % 4 = 0 THEN a ELSE Pc
  BY <1>1, <1>2, Layout DEF Pc
<1>5. Told' = Promise!Reply("set_pc", IF a % 4 = 0 THEN "OK" ELSE "UNALIGNED_PC")
  BY PlainReport DEF SetPc, SetPcStatus, IsInstructionAligned
<1>6. QED
  BY <1>3, <1>4, <1>5 DEF Promise!SetPc

(* A step reports that it is not implemented if its fetch hits memory, and *)
(* what is wrong if not.                                                   *)
LEMMA StepMapsToStep ==
  ASSUME IInv, Step
  PROVE  Promise!Step
<1>1. handle # NULL /\ Phase # "none"
  BY DEF Step, Phase
<1>2. UNCHANGED Promise!machine
  <2>1. UNCHANGED Machine
    BY DEF Step, Machine
  <2>2. QED
    BY <2>1, SameMachine DEF Promise!machine
<1>3. /\ StepStatus = Promise!Outcome
      /\ FetchStatus(Pc) = "OK" <=> Promise!Outcome = "NOT_IMPLEMENTED"
  BY <1>1, StepVerdict
<1>4. Pc \in Nat
  BY <1>1, FetchIsInside
<1>5. ReadU32FromBytes(BytesAt(Pc)) = IF Promise!Blank THEN 0 ELSE 1
  <2>1. (\E i \in 1 .. 4 : ram[Pc + i - 1] # 0) <=> ~Promise!Blank
    <3>1. ASSUME NEW i \in 1 .. 4 PROVE i - 1 \in 0 .. 3 /\ Pc + i - 1 = Pc + (i - 1)
      BY <1>4
    <3>2. ASSUME NEW i \in 0 .. 3 PROVE i + 1 \in 1 .. 4 /\ Pc + (i + 1) - 1 = Pc + i
      BY <1>4
    <3>3. QED
      BY <3>1, <3>2 DEF Promise!Blank
  <2>2. QED
    BY <2>1 DEF ReadU32FromBytes, BytesAt
<1>6. Promise!Outcome # "NOT_IMPLEMENTED"
        => StopReasonFromStatus(StepStatus) = "ERROR"
  BY <1>3 DEF Promise!Outcome, StopReasonFromStatus
<1> DEFINE word   == IF FetchStatus(Pc) = "OK"
                     THEN ReadU32FromBytes(BytesAt(Pc)) ELSE 0
           reason == IF FetchStatus(Pc) = "OK" THEN "STOP_NOT_IMPLEMENTED"
                     ELSE StopReasonFromStatus(StepStatus)
           touched == IF FetchStatus(Pc) = "OK" THEN Span(Pc, 4) ELSE {}
<1>7. res' = [Result("step", StepStatus) EXCEPT
                !.pc = Pc, !.word = word, !.reason = reason, !.touched = touched]
  BY DEF Step
<1>8. Told' = Promise!Report("step", StepStatus, reason, word)
  <2> HIDE DEF word, reason, touched
  <2>1. /\ res'.op = "step" /\ res'.status = StepStatus /\ res'.reason = reason
        /\ res'.pc = Pc /\ res'.word = word /\ res'.steps = 0
    BY <1>7 DEF Result
  <2>2. QED
    BY <2>1 DEF Told, Promise!Report
<1>9. CASE Promise!Outcome = "NOT_IMPLEMENTED"
  BY <1>1, <1>2, <1>3, <1>5, <1>8, <1>9 DEF Promise!Step
<1>10. CASE Promise!Outcome = "ADDRESS_OUT_OF_RANGE"
  BY <1>1, <1>2, <1>3, <1>6, <1>8, <1>10 DEF Promise!Step
<1>11. QED
  BY <1>9, <1>10 DEF Promise!Outcome

(* A run of no steps reports its limit, and any other what its first step  *)
(* does.                                                                   *)
LEMMA RunProgramMaps ==
  ASSUME IInv, NEW n \in MaxSteps, RunProgram(n)
  PROVE  Promise!Run(n)
<1> DEFINE stopped == \E i \in 1 .. n : StepStatus # "OK"
           status  == IF stopped THEN StepStatus ELSE "STEP_LIMIT_REACHED"
           reason  == StopReasonFromStatus(status)
           steps   == IF stopped THEN 0 ELSE n
           touched == IF stopped /\ FetchStatus(Pc) = "OK" THEN Span(Pc, 4) ELSE {}
<1>1. handle # NULL /\ Phase # "none"
  BY DEF RunProgram, Phase
<1>2. UNCHANGED Promise!machine
  <2>1. UNCHANGED Machine
    BY DEF RunProgram, Machine
  <2>2. QED
    BY <2>1, SameMachine DEF Promise!machine
<1>3. StepStatus = Promise!Outcome /\ StepStatus # "OK"
  BY <1>1, StepVerdict DEF Promise!Outcome
<1>4. n \in Nat /\ (stopped <=> n > 0) /\ steps = 0
  BY <1>3, TypedInputs
<1>5. res' = [Result("run", status) EXCEPT
                !.pc = Pc, !.steps = steps, !.reason = reason, !.touched = touched]
  BY DEF RunProgram
<1>6. Told' = Promise!Report("run", status, reason, 0)
  <2> HIDE DEF status, reason, steps, touched
  <2>1. /\ res'.op = "run" /\ res'.status = status /\ res'.reason = reason
        /\ res'.pc = Pc /\ res'.word = 0 /\ res'.steps = 0
    BY <1>4, <1>5 DEF Result
  <2>2. QED
    BY <2>1 DEF Told, Promise!Report
<1>7. CASE n = 0
  <2>1. status = "STEP_LIMIT_REACHED" /\ reason = "STEP_LIMIT"
    BY <1>4, <1>7 DEF StopReasonFromStatus
  <2> HIDE DEF status, reason
  <2>2. QED
    BY <1>1, <1>2, <1>6, <1>7, <2>1 DEF Promise!Run
<1>8. CASE n > 0
  <2>1. status = Promise!Outcome
    BY <1>3, <1>4, <1>8
  <2>2. reason = IF Promise!Outcome = "NOT_IMPLEMENTED"
                 THEN "REASON_NOT_IMPLEMENTED" ELSE "ERROR"
    BY <2>1 DEF StopReasonFromStatus, Promise!Outcome
  <2>3. Promise!Outcome \in {"NOT_IMPLEMENTED", "ADDRESS_OUT_OF_RANGE"}
    BY DEF Promise!Outcome
  <2> HIDE DEF status, reason
  <2>4. QED
    BY <1>1, <1>2, <1>6, <1>8, <2>1, <2>2, <2>3 DEF Promise!Run
<1>9. QED
  BY <1>4, <1>7, <1>8

(* The calls that ask for something change nothing.                        *)
LEMMA QuestionsMap ==
  ASSUME GetPc \/ GetGpr \/ SetGpr \/ ReadMemory
  PROVE  Promise!Ask
<1>1. UNCHANGED Machine /\ Phase # "none"
  BY DEF GetPc, GetGpr, SetGpr, ReadMemory, Machine, Phase
<1>2. UNCHANGED Promise!machine
  BY <1>1, SameMachine DEF Promise!machine
<1>3. CASE GetPc
  <2>1. Told' = [Promise!Reply("get_pc", "OK") EXCEPT !.pc = Pc]
    BY <1>3 DEF GetPc, Result, Told, Promise!Reply
  <2>2. QED
    BY <1>1, <1>2, <2>1 DEF Promise!Ask
<1>4. CASE GetGpr \/ SetGpr
  BY <1>1, <1>2, <1>4, PlainReport DEF GetGpr, SetGpr, Promise!Ask
<1>5. CASE ReadMemory
  BY <1>1, <1>2, <1>5, PlainReport DEF ReadMemory, Promise!Ask
<1>6. QED
  BY <1>3, <1>4, <1>5

-----------------------------------------------------------------------------
(* Every step of the API is a step of the promise, or changes nothing in   *)
(* it.                                                                     *)
LEMMA NextMaps ==
  IInv /\ [Next]_vars => [Promise!EmulatorNext]_(Promise!emulatorVars)
<1> SUFFICES ASSUME IInv, [Next]_vars
             PROVE  Promise!EmulatorNext \/ UNCHANGED Promise!emulatorVars
  OBVIOUS
<1>1. ASSUME NEW c \in Config,
             CreateRejected(c) \/ CreateOutOfMemory(c) \/ Create(c)
      PROVE  Promise!EmulatorNext
  BY <1>1, CreateMaps, CreateFailsMaps DEF Promise!EmulatorNext
<1>2. CASE Destroy
  BY <1>2, DestroyMaps DEF Promise!EmulatorNext
<1>3. CASE MachineReset
  BY <1>3, MachineResetMaps DEF Promise!EmulatorNext
<1>4. ASSUME NEW a \in Address, NEW b \in Buffer, WriteMemory(a, b)
      PROVE  Promise!EmulatorNext
  BY <1>4, WriteMemoryMaps DEF Promise!EmulatorNext
<1>5. ASSUME NEW i \in Image, LoadProgram(i) PROVE Promise!EmulatorNext
  BY <1>5, LoadProgramMaps DEF Promise!EmulatorNext
<1>6. ASSUME NEW a \in Address, SetPc(a) PROVE Promise!EmulatorNext
  BY <1>6, SetPcMaps DEF Promise!EmulatorNext
<1>7. CASE GetPc \/ GetGpr \/ SetGpr \/ ReadMemory
  BY <1>7, QuestionsMap DEF Promise!EmulatorNext
<1>8. CASE NullArgument
  <2>1. UNCHANGED Machine
    BY <1>8 DEF NullArgument, Machine
  <2>2. UNCHANGED Promise!machine
    BY <2>1, SameMachine DEF Promise!machine
  <2>3. Told' = Promise!Reply("null", "INVALID_ARGUMENT")
    BY <1>8, PlainReport DEF NullArgument
  <2>4. QED
    BY <2>2, <2>3 DEF Promise!RefuseNull, Promise!EmulatorNext
<1>9. CASE Step
  BY <1>9, StepMapsToStep DEF Promise!EmulatorNext
<1>10. ASSUME NEW n \in MaxSteps, RunProgram(n) PROVE Promise!EmulatorNext
  BY <1>10, RunProgramMaps DEF Promise!EmulatorNext
<1>11. CASE UNCHANGED vars
  BY <1>11 DEF vars, Promise!emulatorVars, Promise!machine, Phase, Memory,
               MemorySize, Pc, Told
<1>12. QED
  BY <1>1, <1>2, <1>3, <1>4, <1>5, <1>6, <1>7, <1>8, <1>9, <1>10, <1>11 DEF Next

(* core.c implements the emulator of its API, for every heap, register     *)
(* count, address width and set of inputs: the client cannot tell its      *)
(* pointers, its wrapping arithmetic and the words that machine_reset      *)
(* overwrites from a machine with a memory, a pc and three phases.         *)
THEOREM EmulatorRefinement == Spec => ImplementsEmulator
<1>1. Init => Promise!EmulatorInit
  BY InitMaps
<1>2. IInv /\ [Next]_vars => [Promise!EmulatorNext]_(Promise!emulatorVars)
  BY NextMaps
<1>3. QED
  BY <1>1, <1>2, Invariance, PTL DEF Spec, ImplementsEmulator, Promise!EmulatorSpec
=============================================================================
