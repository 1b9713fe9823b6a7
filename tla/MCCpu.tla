------------------------------- MODULE MCCpu -------------------------------
(* Instances of Cpu for TLC: three registers of 18 bits.                   *)
EXTENDS Cpu

Insn(opcode, rs, rt, low) == [opcode |-> opcode, rs |-> rs, rt |-> rt, low |-> low]

R3(rd, function) == rd * 2^11 + function

(* NOP; DADDU into a register that is also a source, into another and into *)
(* register 0; DADDIU into each kind of register, with immediates below,   *)
(* above and far above 12 bits; SPECIAL with an unknown function, and an   *)
(* unknown opcode.                                                         *)
SmallWord ==
  {Insn(0, 0, 0, 0),
   Insn(0, 1, 2, R3(1, DADDU)), Insn(0, 2, 0, R3(2, DADDU)), Insn(0, 1, 1, R3(0, DADDU)),
   Insn(DADDIU, 1, 2, 2^12 - 1), Insn(DADDIU, 0, 1, R3(1, 1)), Insn(DADDIU, 2, 0, 3),
   Insn(DADDIU, 1, 1, 2^12 + 5), Insn(DADDIU, 2, 1, 2^16 - 1),
   Insn(0, 1, 2, R3(1, 33)), Insn(2, 0, 0, 8)}

(* DADDIU with -1, whose upper bits the decoder drops.                     *)
SignedWord == {Insn(DADDIU, 0, 1, 1), Insn(DADDIU, 1, 1, 2^16 - 1)}
=============================================================================
