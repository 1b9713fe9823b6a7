-------------------------------- MODULE Isa --------------------------------
(***************************************************************************)
(* What cpu.c and execute.c promise: a machine with registers 1 to         *)
(* GprCount - 1, a register 0 that reads as zero and cannot be written,    *)
(* and instructions that either complete, one register and the pc at       *)
(* once, or change nothing.                                                *)
(*                                                                         *)
(* An instruction word is a record of its fields: opcode, rs, rt and the   *)
(* low half word, which holds rd and funct or the immediate.               *)
(***************************************************************************)
EXTENDS Integers

CONSTANTS
  GprCount,    (* Registers, counting register 0.                          *)
  RegMod,      (* 2^64: registers and the pc are 64 bits wide.             *)
  DADDIU,      (* The opcode of DADDIU.                                    *)
  Index,       (* Register numbers that are asked for.                     *)
  Value,       (* Values that registers are set to.                        *)
  Address,     (* Addresses that the pc is set to.                         *)
  Word,        (* Instruction words that are executed.                     *)
  ImmediateMod (* Immediates are fields of so many values.                 *)

VARIABLES regs, next, res

isaVars == <<regs, next, res>>

R(i) == IF i = 0 THEN 0 ELSE regs[i]

(* The register file after register i is assigned v.                       *)
Set(i, v) == IF i = 0 THEN regs ELSE [regs EXCEPT ![i] = v]

Signed16(half) == IF half < 2^15 THEN half ELSE half - 2^16

Rd(w)     == w.low \div 2^11
Funct(w)  == w.low % 2^6

(* What DADDIU adds.                                                       *)
Immediate(w) == Signed16(w.low % ImmediateMod)

IsNop(w)    == w.opcode = 0 /\ w.rs = 0 /\ w.rt = 0 /\ w.low = 0
IsDaddu(w)  == w.opcode = 0 /\ Funct(w) = 45
IsDaddiu(w) == w.opcode = DADDIU

-----------------------------------------------------------------------------
Clear(p) ==
  /\ regs' = [i \in 1 .. GprCount - 1 |-> 0]
  /\ next' = p
  /\ res' = [op |-> "reset", status |-> "OK"]

Assign(i, v) ==
  /\ regs' = IF i < GprCount THEN Set(i, v) ELSE regs
  /\ res' = [op |-> "set_gpr",
             status |-> IF i < GprCount THEN "OK" ELSE "INVALID_REGISTER"]
  /\ UNCHANGED next

Jump(p) ==
  /\ next' = IF p % 4 = 0 THEN p ELSE next
  /\ res' = [op |-> "set_pc",
             status |-> IF p % 4 = 0 THEN "OK" ELSE "UNALIGNED_PC"]
  /\ UNCHANGED regs

Observe ==
  /\ \/ \E i \in Index :
          res' = IF i < GprCount
                 THEN [op |-> "get_gpr", status |-> "OK", value |-> R(i)]
                 ELSE [op |-> "get_gpr", status |-> "INVALID_REGISTER"]
     \/ res' = [op |-> "get_pc", status |-> "OK", value |-> next]
     \/ res'.op = "null"
  /\ UNCHANGED <<regs, next>>

(* What instruction w assigns to which register; NOP assigns nothing.      *)
Retire(w) ==
  /\ \/ IsNop(w) /\ UNCHANGED regs
     \/ IsDaddu(w) /\ regs' = Set(Rd(w), (R(w.rs) + R(w.rt)) % RegMod)
     \/ IsDaddiu(w) /\ regs' = Set(w.rt, (R(w.rs) + Immediate(w)) % RegMod)
  /\ next' = (next + 4) % RegMod
  /\ res' = [op |-> "execute", status |-> "OK", word |-> w]

Trap(w) ==
  /\ ~ (IsNop(w) \/ IsDaddu(w) \/ IsDaddiu(w))
  /\ res' = [op |-> "execute", status |-> "NOT_IMPLEMENTED", word |-> w]
  /\ UNCHANGED <<regs, next>>

IsaInit ==
  /\ regs = [i \in 1 .. GprCount - 1 |-> 0]
  /\ next \in Address
  /\ res = [op |-> "reset", status |-> "OK"]

IsaNext ==
  \/ \E p \in Address : Clear(p) \/ Jump(p)
  \/ \E i \in Index, v \in Value : Assign(i, v)
  \/ Observe
  \/ \E w \in Word : Retire(w) \/ Trap(w)

IsaSpec == IsaInit /\ [][IsaNext]_isaVars
=============================================================================
