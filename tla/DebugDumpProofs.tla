-------------------------- MODULE DebugDumpProofs --------------------------
(***************************************************************************)
(* Theorems about DebugDump: the safety of a dump whose callback calls any *)
(* operation of the API, on top of the invariant of CoreProofs; and that   *)
(* dumping, callback and all, still implements the emulator of the client. *)
(***************************************************************************)
EXTENDS DebugDump, CoreRefinement

Regs == 0 .. GprCount - 1

(* No call stores into a register, but for the reset, which stores into    *)
(* the one two below the last.                                             *)
OneRegister == \A i \in Regs : i # GprCount - 2 => Gpr(i) = 0

DumpShape ==
  /\ dump \in [active : BOOLEAN, pc : Nat, shown : Seq(Nat), reset : BOOLEAN]
  /\ Len(dump.shown) <= GprCount
  /\ dump.active => handle # NULL

(* The inductive invariant of the composition.                             *)
DumpIInv ==
  /\ IInv
  /\ OneRegister
  /\ DumpShape
  /\ DumpTornOnlyByReset
  /\ DumpShowsOneRegister

-----------------------------------------------------------------------------
(* A register is a word of the struct, and not the pc.                     *)
LEMMA RegisterWords ==
  \A i \in Regs : /\ CpuWord + i \in Fields
                  /\ CpuWord + i \notin {MemoryWord, SizeWord, PcWord}
  BY GprAssumption
  DEF Regs, MemoryWord, SizeWord, CpuWord, PcWord, CpuSize, Fields

(* What a step of the API does to the registers.                           *)
Keeps  == \A i \in Regs : Gpr(i)' = Gpr(i)
Blanks == handle' # handle /\ \A i \in Regs : Gpr(i)' = 0
Resets == res'.op = "reset" /\ OneRegister'

(* set_pc and load_program store into the pc alone.                        *)
LEMMA JumpKeeps ==
  ASSUME words \in [Fields -> Nat], NEW pc,
         words' = words \/ words' = [words EXCEPT ![PcWord] = pc]
  PROVE  Keeps
  BY RegisterWords DEF Keeps, Gpr

(* No call but create, destroy and machine_reset changes a register.       *)
LEMMA RegistersStep == IInv /\ [Next]_vars => Keeps \/ Blanks \/ Resets
<1> SUFFICES ASSUME IInv, [Next]_vars PROVE Keeps \/ Blanks \/ Resets
  OBVIOUS
<1>1. words \in [Fields -> Nat] /\ TypeOK
  BY DEF IInv, TypeOK
<1>2. ASSUME words' = words PROVE Keeps
  BY <1>2 DEF Keeps, Gpr
<1>3. ASSUME NEW c \in Config, Create(c) PROVE Blanks
  <2>1. handle' # handle
    BY <1>3, BlockAssumption DEF Create
  <2>2. \A i \in Regs : words'[CpuWord + i] = 0
    <3>1. PICK m : words' = [NoWords EXCEPT ![MemoryWord] = m,
                                            ![SizeWord]   = c.memory_size,
                                            ![PcWord]     = c.reset_pc]
      BY <1>3 DEF Create
    <3>2. QED
      BY <3>1, RegisterWords DEF NoWords
  <2>3. QED
    BY <2>1, <2>2 DEF Blanks, Gpr
<1>4. CASE Destroy
  <2>1. handle' # handle /\ words' = NoWords
    BY <1>4 DEF Destroy
  <2>2. QED
    BY <2>1, RegisterWords DEF Blanks, Gpr, NoWords
<1>5. CASE MachineReset
  <2>1. words' = CpuReset(ResetBase, config.reset_pc)
    BY <1>5 DEF MachineReset
  <2>2. \A i \in Regs : i # GprCount - 2 => words'[CpuWord + i] = 0
    BY <2>1, RegisterWords, GprAssumption
    DEF CpuReset, ResetBase, MemoryWord, CpuWord, CpuSize, Regs
  <2>3. res'.op = "reset"
    BY <1>5 DEF MachineReset, Result
  <2>4. QED
    BY <2>2, <2>3 DEF Resets, OneRegister, Gpr
<1>6. ASSUME NEW i \in Image, LoadProgram(i) PROVE Keeps
  BY <1>1, <1>6, JumpKeeps DEF LoadProgram
<1>7. ASSUME NEW a \in Address, SetPc(a) PROVE Keeps
  BY <1>1, <1>7, JumpKeeps DEF SetPc
<1>8. ASSUME NEW c \in Config, CreateRejected(c) \/ CreateOutOfMemory(c)
      PROVE  words' = words
  BY <1>8 DEF CreateRejected, CreateOutOfMemory
<1>9. ASSUME NEW a \in Address, NEW b \in Buffer, WriteMemory(a, b)
      PROVE  words' = words
  BY <1>9 DEF WriteMemory
<1>10. ASSUME NEW n \in MaxSteps, RunProgram(n) PROVE words' = words
  BY <1>10 DEF RunProgram
<1>11. CASE GetPc \/ GetGpr \/ SetGpr \/ ReadMemory \/ NullArgument \/ Step
  BY <1>2, <1>11 DEF GetPc, GetGpr, SetGpr, ReadMemory, NullArgument, Step
<1>12. CASE UNCHANGED vars
  BY <1>2, <1>12 DEF vars
<1>13. QED
  BY <1>2, <1>3, <1>4, <1>5, <1>6, <1>7, <1>8, <1>9, <1>10, <1>11, <1>12 DEF Next

(* Before the first call all registers are zero and nothing is dumped.     *)
LEMMA DumpInitIInv == DumpInit => DumpIInv
<1> SUFFICES ASSUME DumpInit PROVE DumpIInv
  OBVIOUS
<1>1. IInv
  BY InitIInv DEF DumpInit
<1>2. OneRegister
  BY RegisterWords DEF DumpInit, Init, OneRegister, Gpr, NoWords
<1>3. dump = NoDump /\ NoDump.shown = <<>>
  BY DEF DumpInit, NoDump
<1>4. DumpShape
  BY <1>3, GprAssumption DEF DumpShape, NoDump
<1>5. QED
  BY <1>1, <1>2, <1>3, <1>4 DEF DumpIInv, DumpTornOnlyByReset, DumpShowsOneRegister, NoDump

-----------------------------------------------------------------------------
(* The steps of the dump.                                                  *)

(* A dump that begins has shown nothing.                                   *)
LEMMA BeginKeeps == DumpIInv /\ DumpBegin => DumpIInv'
<1> SUFFICES ASSUME DumpIInv, DumpBegin PROVE DumpIInv'
  OBVIOUS
<1>1. UNCHANGED vars /\ handle # NULL
  BY DEF DumpBegin
<1>2. IInv' /\ OneRegister'
  BY <1>1, NextKeepsIInv DEF DumpIInv, OneRegister, Gpr, vars
<1>3. dump' = [active |-> TRUE, pc |-> Pc, shown |-> <<>>, reset |-> FALSE]
  BY DEF DumpBegin, NoDump
<1>4. Pc \in Nat
  BY TypedParts DEF DumpIInv, IInv
<1>5. DumpShape'
  BY <1>1, <1>3, <1>4, GprAssumption DEF DumpShape, vars
<1>6. QED
  BY <1>2, <1>3, <1>5 DEF DumpIInv, DumpTornOnlyByReset, DumpShowsOneRegister

(* A line shows the register as it is.                                     *)
LEMMA RegisterKeeps == DumpIInv /\ DumpRegister => DumpIInv'
<1> SUFFICES ASSUME DumpIInv, DumpRegister PROVE DumpIInv'
  OBVIOUS
<1> DEFINE n == Len(dump.shown)
<1>1. UNCHANGED vars /\ dump.active /\ n \in Nat /\ n < GprCount
      /\ dump.shown \in Seq(Nat)
  BY DEF DumpRegister, DumpIInv, DumpShape
<1>2. IInv' /\ OneRegister'
  BY <1>1, NextKeepsIInv DEF DumpIInv, OneRegister, Gpr, vars
<1>3. n \in Regs
  BY <1>1, GprAssumption DEF Regs
<1>4. Gpr(n) \in Nat /\ (n = 0 => Gpr(n) = 0) /\ (n # GprCount - 2 => Gpr(n) = 0)
  BY <1>3, RegisterWords, GprAssumption DEF DumpIInv, OneRegister, Gpr, IInv, TypeOK
<1>5. dump' = [dump EXCEPT !.shown = Append(dump.shown, Gpr(n))]
  BY <1>4 DEF DumpRegister
<1>6. dump'.shown = Append(dump.shown, Gpr(n))
      /\ dump'.active = dump.active /\ dump'.reset = dump.reset
  BY <1>5 DEF DumpIInv, DumpShape
<1>7. /\ dump'.shown \in Seq(Nat) /\ Len(dump'.shown) = n + 1
      /\ dump'.shown[n + 1] = Gpr(n)
      /\ \A i \in 1 .. n : dump'.shown[i] = dump.shown[i]
  BY <1>1, <1>4, <1>6
<1>8. DumpShape'
  <2>1. dump' \in [active : BOOLEAN, pc : Nat, shown : Seq(Nat), reset : BOOLEAN]
    BY <1>5, <1>6, <1>7 DEF DumpIInv, DumpShape
  <2>2. Len(dump'.shown) <= GprCount
    BY <1>1, <1>7, GprAssumption
  <2>3. dump'.active => handle' # NULL
    BY <1>1, <1>6 DEF DumpIInv, DumpShape, vars, NULL
  <2>4. QED
    BY <2>1, <2>2, <2>3 DEF DumpShape, NULL
<1>9. DumpTornOnlyByReset'
  <2>1. \A i : Gpr(i)' = Gpr(i)
    BY <1>1 DEF Gpr, vars
  <2>2. ASSUME dump'.active, ~dump'.reset, NEW i \in 1 .. n + 1
        PROVE  dump'.shown[i] = Gpr(i - 1)
    <3>1. CASE i = n + 1
      BY <1>1, <1>7, <3>1
    <3>2. CASE i # n + 1
      BY <1>1, <1>6, <1>7, <2>2, <3>2 DEF DumpIInv, DumpTornOnlyByReset
    <3>3. QED
      BY <3>1, <3>2
  <2>3. QED
    BY <1>7, <2>1, <2>2 DEF DumpTornOnlyByReset
<1>10. DumpShowsOneRegister'
  <2>1. ASSUME NEW i \in 1 .. n + 1, dump'.shown[i] # 0
        PROVE  i - 1 = GprCount - 2
    <3>1. CASE i = n + 1
      BY <1>1, <1>4, <1>7, <2>1, <3>1
    <3>2. CASE i # n + 1
      <4>1. i \in 1 .. n /\ dump.shown[i] # 0
        BY <1>1, <1>7, <2>1, <3>2
      <4>2. QED
        BY <4>1 DEF DumpIInv, DumpShowsOneRegister
    <3>3. QED
      BY <3>1, <3>2
  <2>2. QED
    BY <1>7, <2>1 DEF DumpShowsOneRegister
<1>11. QED
  BY <1>2, <1>8, <1>9, <1>10 DEF DumpIInv

(* A dump that ended shows nothing any more, and reports OK.               *)
LEMMA EndKeeps == DumpIInv /\ DumpEnd => DumpIInv'
<1> SUFFICES ASSUME DumpIInv, DumpEnd PROVE DumpIInv'
  OBVIOUS
<1>1. UNCHANGED Machine /\ res' = Result("dump", "OK") /\ dump' = NoDump
  BY DEF DumpEnd, Machine
<1>2. "dump" \in Op \ {"step", "run"} /\ "OK" \in Status
  BY DEF Op, Status
<1>3. IInv'
  BY <1>1, <1>2, StatusOnly DEF DumpIInv
<1>4. OneRegister'
  BY <1>1 DEF DumpIInv, OneRegister, Gpr, Machine
<1>5. NoDump.shown = <<>> /\ ~NoDump.active
  BY DEF NoDump
<1>6. DumpShape'
  BY <1>1, GprAssumption DEF DumpShape, NoDump
<1>7. QED
  BY <1>1, <1>3, <1>4, <1>5, <1>6 DEF DumpIInv, DumpTornOnlyByReset, DumpShowsOneRegister

(* A call of the client leaves what was shown, and leaves the registers    *)
(* too unless it is a reset.                                               *)
LEMMA CallKeeps == DumpIInv /\ Call => DumpIInv'
<1> SUFFICES ASSUME DumpIInv, Call PROVE DumpIInv'
  OBVIOUS
<1>1. IInv /\ Next /\ (dump.active => handle' = handle)
  BY DEF Call, DumpIInv
<1>2. IInv' /\ (Keeps \/ Blanks \/ Resets)
  BY <1>1, NextKeepsIInv, RegistersStep
<1>3. OneRegister'
  BY <1>2 DEF DumpIInv, OneRegister, Keeps, Blanks, Resets
<1>4. /\ dump'.active = dump.active /\ dump'.shown = dump.shown
      /\ dump'.reset = (dump.reset \/ (dump.active /\ res'.op = "reset"))
      /\ dump'.pc = dump.pc
  BY DEF Call, DumpIInv, DumpShape
<1>5. DumpShape'
  <2>1. dump' = [active |-> dump.active, pc |-> dump.pc, shown |-> dump.shown,
                 reset |-> dump.reset \/ (dump.active /\ res'.op = "reset")]
    BY DEF Call, DumpIInv, DumpShape
  <2>2. QED
    BY <1>1, <1>4, <2>1 DEF DumpIInv, DumpShape, NULL
<1>6. DumpTornOnlyByReset'
  <2> SUFFICES ASSUME dump.active, ~dump.reset, res'.op # "reset",
                      NEW i \in 1 .. Len(dump.shown)
               PROVE  dump.shown[i] = Gpr(i - 1)'
    BY <1>4 DEF DumpTornOnlyByReset
  <2>1. Keeps
    BY <1>1, <1>2 DEF Blanks, Resets
  <2>2. i - 1 \in Regs
    BY GprAssumption DEF Regs, DumpIInv, DumpShape
  <2>3. QED
    BY <2>1, <2>2 DEF Keeps, DumpIInv, DumpTornOnlyByReset
<1>7. DumpShowsOneRegister'
  BY <1>4 DEF DumpIInv, DumpShowsOneRegister
<1>8. QED
  BY <1>2, <1>3, <1>5, <1>6, <1>7 DEF DumpIInv

(* Every step of the composition keeps its invariant.                      *)
LEMMA DumpNextKeeps == DumpIInv /\ [DumpNext]_dumpVars => DumpIInv'
<1>1. ASSUME DumpIInv, UNCHANGED dumpVars PROVE DumpIInv'
  <2>1. UNCHANGED vars /\ dump' = dump
    BY <1>1 DEF dumpVars
  <2>2. IInv'
    BY <1>1, <2>1, NextKeepsIInv DEF DumpIInv
  <2>3. QED
    BY <1>1, <2>1, <2>2 DEF DumpIInv, OneRegister, Gpr, DumpShape,
       DumpTornOnlyByReset, DumpShowsOneRegister, vars
<1>2. QED
  BY <1>1, BeginKeeps, RegisterKeeps, EndKeeps, CallKeeps DEF DumpNext

(* The invariant holds in every state of every behaviour.                  *)
LEMMA DumpInvariance == DumpSpec => []DumpIInv
  BY DumpInitIInv, DumpNextKeeps, PTL DEF DumpSpec

-----------------------------------------------------------------------------
(* The theorems.                                                           *)

(* A dump shows at most as many lines as there are registers, whatever the *)
(* callback calls.                                                         *)
THEOREM DumpTypeCorrect == DumpSpec => []DumpTypeOK
<1>1. DumpIInv => DumpTypeOK
  BY DEF DumpIInv, IInv, DumpShape, DumpTypeOK
<1>2. QED
  BY <1>1, DumpInvariance, PTL

(* The lines of a dump are the registers, all from one state, unless its   *)
(* callback resets the machine.                                            *)
THEOREM DumpIsWhole == DumpSpec => []DumpTornOnlyByReset
<1>1. DumpIInv => DumpTornOnlyByReset
  BY DEF DumpIInv
<1>2. QED
  BY <1>1, DumpInvariance, PTL

(* Through this API no register but the one that machine_reset takes for   *)
(* the pc is ever shown as nonzero.                                        *)
THEOREM DumpIsBlank == DumpSpec => []DumpShowsOneRegister
<1>1. DumpIInv => DumpShowsOneRegister
  BY DEF DumpIInv
<1>2. QED
  BY <1>1, DumpInvariance, PTL

(* Calling back in the middle of a dump endangers nothing that the API     *)
(* keeps elsewhere: accesses, ownership of the heap and the pc stay safe,  *)
(* and an emulator reset by its callback stays without memory.             *)
THEOREM DumpKeepsApiSafe ==
  DumpSpec => [](/\ AccessesStayInAllocation /\ OnlyResetLosesBlocks
                 /\ NeverUnalignedFetch /\ DetachedRejectsAll)
<1>1. DumpIInv => /\ AccessesStayInAllocation /\ OnlyResetLosesBlocks
                  /\ NeverUnalignedFetch /\ DetachedRejectsAll
  BY TouchedIsAllocated, DetachedIsEmpty DEF DumpIInv, IInv
<1>2. QED
  BY <1>1, DumpInvariance, PTL

-----------------------------------------------------------------------------
(* The end of a dump tells the client that it is over, and nothing else.   *)
LEMMA DumpEndMaps == DumpIInv /\ DumpEnd => Promise!Ask
<1> SUFFICES ASSUME DumpIInv, DumpEnd PROVE Promise!Ask
  OBVIOUS
<1>1. UNCHANGED Machine /\ Phase # "none"
  BY DEF DumpEnd, DumpIInv, DumpShape, Machine, Phase
<1>2. UNCHANGED Promise!machine
  BY <1>1, SameMachine DEF Promise!machine
<1>3. Told' = Promise!Reply("dump", "OK")
  BY PlainReport DEF DumpEnd
<1>4. QED
  BY <1>1, <1>2, <1>3 DEF Promise!Ask

(* A line is nothing to the emulator.                                      *)
LEMMA DumpNextMaps ==
  DumpIInv /\ [DumpNext]_dumpVars => [Promise!EmulatorNext]_(Promise!emulatorVars)
<1> SUFFICES ASSUME DumpIInv, [DumpNext]_dumpVars
             PROVE  [Promise!EmulatorNext]_(Promise!emulatorVars)
  OBVIOUS
<1>1. IInv
  BY DEF DumpIInv
<1>2. ASSUME [Next]_vars PROVE [Promise!EmulatorNext]_(Promise!emulatorVars)
  BY <1>1, <1>2, NextMaps
<1>3. CASE DumpEnd
  BY <1>3, DumpEndMaps DEF Promise!EmulatorNext
<1>4. CASE Call \/ DumpBegin \/ DumpRegister \/ UNCHANGED dumpVars
  BY <1>2, <1>4 DEF Call, DumpBegin, DumpRegister, dumpVars
<1>5. QED
  BY <1>3, <1>4 DEF DumpNext

(* A dump changes nothing the client sees of the emulator, from its first  *)
(* line to its last, and the calls of its callback do what they always do. *)
THEOREM DumpRefinement == DumpSpec => ImplementsEmulator
<1>1. DumpInit => Promise!EmulatorInit
  BY InitMaps DEF DumpInit
<1>2. QED
  BY <1>1, DumpNextMaps, DumpInvariance, PTL
  DEF DumpSpec, ImplementsEmulator, Promise!EmulatorSpec
=============================================================================
