-------------------------------- MODULE Cpu --------------------------------
(***************************************************************************)
(* cpu.c, decode.c and execute.c: the register file, the decoder and the   *)
(* two instructions (and NOP) that mips64_cpu_execute dispatches to.       *)
(*                                                                         *)
(* execute.c does not compile as it stands: MIPS64_OPCODE_DADDIU is not    *)
(* declared, and execute_daddu is used before its declaration.  It is      *)
(* modelled as written, with DADDIU an opcode other than SPECIAL.  The     *)
(* functions nothing calls (execute_add, execute_addu) are left out, and   *)
(* so are hi and lo, which no function but reset touches.                  *)
(***************************************************************************)
EXTENDS Integers

CONSTANTS
  GprCount,    (* MIPS64_GPR_COUNT, 32: as many as a 5-bit field can name. *)
  RegMod,      (* 2^64: registers and the pc are uint64_t.                 *)
  DADDIU,      (* MIPS64_OPCODE_DADDIU.                                    *)
  Index,       (* Register numbers the client passes, any uint32_t.        *)
  Value,       (* Values the client sets registers to.                     *)
  Address,     (* Addresses the client sets the pc to.                     *)
  Word,        (* Instruction words the client decodes and executes.       *)
  MaxRetired   (* Bound of the model: instructions since the last reset.   *)

SPECIAL == 0   \* MIPS64_OPCODE_SPECIAL
DADDU   == 45  \* MIPS64_FUNCT_DADDU

ASSUME GprAssumption   == GprCount \in Nat \ {0}
ASSUME RegAssumption   == RegMod \in Nat /\ RegMod >= 2^16 /\ RegMod % 4 = 0
ASSUME OpAssumption    == DADDIU \in Nat \ {SPECIAL}
ASSUME InputAssumption ==
  /\ Index \subseteq Nat
  /\ Value \subseteq 0 .. RegMod - 1
  /\ Address \subseteq 0 .. RegMod - 1
  /\ \A w \in Word :
       /\ w \in [opcode : Nat, rs : 0 .. GprCount - 1, rt : 0 .. GprCount - 1,
                 low : 0 .. 2^16 - 1]
       /\ w.opcode = SPECIAL => w.low \div 2^11 < GprCount
ASSUME BoundAssumption == MaxRetired \in Nat

VARIABLES
  gpr,         (* cpu->gpr.                                                *)
  pc,          (* cpu->pc.                                                 *)
  res,         (* What the last call returned.                             *)
  trace        (* History: the pc last set, and the instructions retired   *)
               (* since the last reset, before it was set and in all.      *)

vars == <<gpr, pc, res, trace>>

Regs == 0 .. GprCount - 1

Status == {"OK", "INVALID_ARGUMENT", "INVALID_REGISTER", "UNALIGNED_PC",
           "NOT_IMPLEMENTED"}

Reply(op, status) == [op |-> op, status |-> status]

-----------------------------------------------------------------------------
(* mips64_decode_instruction.  The immediate keeps 12 of its 16 bits.      *)
Decode(word) ==
  [isZero    |-> word.opcode = 0 /\ word.rs = 0 /\ word.rt = 0 /\ word.low = 0,
   opcode    |-> word.opcode,
   rs        |-> word.rs,
   rt        |-> word.rt,
   rd        |-> word.low \div 2^11,
   function  |-> word.low % 2^6,
   immediate |-> word.low % 2^12]

SignExtension(half) == (IF half < 2^15 THEN half ELSE half - 2^16) % RegMod

-----------------------------------------------------------------------------
(* cpu.c.                                                                  *)

Reset(reset_pc) ==
  /\ gpr' = [i \in Regs |-> 0]
  /\ pc' = reset_pc
  /\ res' = Reply("reset", "OK")
  /\ trace' = [entry |-> reset_pc, before |-> 0, retired |-> 0]

(* "return;" without a value: the caller finds any status.                 *)
ResetNull ==
  /\ \E s \in Status : res' = Reply("null", s)
  /\ UNCHANGED <<gpr, pc, trace>>

(* Mutant: register 0 is not special.                                      *)
SetGprAny(index, value) ==
  /\ gpr' = IF index < GprCount THEN [gpr EXCEPT ![index] = value] ELSE gpr
  /\ res' = Reply("set_gpr", IF index < GprCount THEN "OK" ELSE "INVALID_REGISTER")
  /\ UNCHANGED <<pc, trace>>

SetGpr(index, value) ==
  /\ gpr' = IF index >= GprCount THEN gpr
            ELSE IF index # 0 THEN [gpr EXCEPT ![index] = value, ![0] = 0]
            ELSE [gpr EXCEPT ![0] = 0]
  /\ res' = Reply("set_gpr", IF index >= GprCount THEN "INVALID_REGISTER" ELSE "OK")
  /\ UNCHANGED <<pc, trace>>

GetGpr(index) ==
  /\ res' = IF index >= GprCount THEN Reply("get_gpr", "INVALID_REGISTER")
            ELSE [op |-> "get_gpr", status |-> "OK",
                  value |-> IF index = 0 THEN 0 ELSE gpr[index]]
  /\ UNCHANGED <<gpr, pc, trace>>

GetPc ==
  /\ res' = [op |-> "get_pc", status |-> "OK", value |-> pc]
  /\ UNCHANGED <<gpr, pc, trace>>

SetPc(new_pc) ==
  /\ IF new_pc % 4 # 0
     THEN /\ res' = Reply("set_pc", "UNALIGNED_PC")
          /\ UNCHANGED <<pc, trace>>
     ELSE /\ res' = Reply("set_pc", "OK")
          /\ pc' = new_pc
          /\ trace' = [entry |-> new_pc, before |-> trace.retired,
                       retired |-> trace.retired]
  /\ UNCHANGED gpr

NullPointer ==
  /\ res' = Reply("null", "INVALID_ARGUMENT")
  /\ UNCHANGED <<gpr, pc, trace>>

-----------------------------------------------------------------------------
(* execute.c.                                                              *)

(* What every instruction that completes has in common.                    *)
Complete(word) ==
  /\ trace.retired < MaxRetired
  /\ pc' = (pc + 4) % RegMod
  /\ trace' = [trace EXCEPT !.retired = @ + 1]
  /\ res' = [op |-> "execute", status |-> "OK", word |-> word]

ExecuteNop(word) ==
  /\ Decode(word).isZero
  /\ Complete(word)
  /\ UNCHANGED gpr

(* The register file after an instruction put `result` in register d.      *)
Put(d, result) ==
  [i \in Regs |-> IF i = 0 THEN 0 ELSE IF i = d THEN result ELSE gpr[i]]

ExecuteDaddu(word) ==
  LET d == Decode(word)
  IN /\ ~d.isZero
     /\ d.opcode = SPECIAL /\ d.function = DADDU
     /\ Complete(word)
     /\ gpr' = Put(d.rd, (gpr[d.rs] + gpr[d.rt]) % RegMod)

(* Mutant: the destination is rd, as the comment of execute.c:21 has it.   *)
DaddiuIntoRd(word) ==
  LET d == Decode(word)
  IN /\ ~d.isZero
     /\ d.opcode = DADDIU
     /\ Complete(word)
     /\ gpr' = Put(d.rd, (gpr[d.rs] + SignExtension(d.immediate)) % RegMod)

ExecuteDaddiu(word) ==
  LET d == Decode(word)
  IN /\ ~d.isZero
     /\ d.opcode = DADDIU
     /\ Complete(word)
     /\ gpr' = Put(d.rt, (gpr[d.rs] + SignExtension(d.immediate)) % RegMod)

(* Mutant: an unknown instruction is skipped.                              *)
SkipUnknown(word) ==
  LET d == Decode(word)
  IN /\ ~d.isZero
     /\ d.opcode # DADDIU /\ ~(d.opcode = SPECIAL /\ d.function = DADDU)
     /\ pc' = (pc + 4) % RegMod
     /\ res' = [op |-> "execute", status |-> "NOT_IMPLEMENTED", word |-> word]
     /\ UNCHANGED <<gpr, trace>>

ExecuteUnknown(word) ==
  LET d == Decode(word)
  IN /\ ~d.isZero
     /\ d.opcode # DADDIU /\ ~(d.opcode = SPECIAL /\ d.function = DADDU)
     /\ res' = [op |-> "execute", status |-> "NOT_IMPLEMENTED", word |-> word]
     /\ UNCHANGED <<gpr, pc, trace>>

-----------------------------------------------------------------------------
(* A Mips64CPU is reset before it is used.                                 *)
Init ==
  /\ gpr = [i \in Regs |-> 0]
  /\ pc \in Address
  /\ res = Reply("reset", "OK")
  /\ trace = [entry |-> pc, before |-> 0, retired |-> 0]

Next ==
  \/ \E p \in Address : Reset(p) \/ SetPc(p)
  \/ ResetNull
  \/ \E i \in Index : GetGpr(i) \/ \E v \in Value : SetGpr(i, v)
  \/ GetPc
  \/ NullPointer
  \/ \E w \in Word : \/ ExecuteNop(w) \/ ExecuteDaddu(w)
                     \/ ExecuteDaddiu(w) \/ ExecuteUnknown(w)

Spec == Init /\ [][Next]_vars

-----------------------------------------------------------------------------
(* Properties.                                                             *)

(* Registers and the pc stay 64 bits wide, and register 0 stays zero: the  *)
(* instructions read gpr[0] like any other register.                       *)
TypeOK ==
  /\ gpr \in [Regs -> 0 .. RegMod - 1]
  /\ gpr[0] = 0
  /\ pc \in 0 .. RegMod - 1
  /\ trace \in [entry : 0 .. RegMod - 1, before : Nat, retired : Nat]
  /\ trace.before <= trace.retired
  /\ res.status \in Status

(* The pc is where it was set last plus four bytes for every instruction   *)
(* that completed since, around the end of the address space: no failed    *)
(* instruction advances it, and none that completes forgets to.            *)
PcCountsRetired ==
  pc = (trace.entry + 4 * (trace.retired - trace.before)) % RegMod

Machine == INSTANCE Isa WITH
             regs <- [i \in 1 .. GprCount - 1 |-> gpr[i]], next <- pc,
             ImmediateMod <- 2^12

(* The register file with a stored register 0, the decoder and the         *)
(* dispatcher implement the architecture of Isa: not of MIPS64, whose      *)
(* immediates have 16 bits, but of a machine with immediates of 12.        *)
ImplementsIsa == Machine!IsaSpec

-----------------------------------------------------------------------------
(* execute.c:103: "GPR[rs] + sign_extend(immediate)", of the field that    *)
(* decode.h:30 declares with 16 bits.                                      *)
DaddiuAddsSignedImmediate ==
  [][LET w == res'.word
     IN res'.op = "execute" /\ res'.status = "OK" /\ w.opcode = DADDIU /\ w.rt # 0
        => gpr'[w.rt] = (gpr[w.rs] + SignExtension(w.low)) % RegMod]_vars
=============================================================================
