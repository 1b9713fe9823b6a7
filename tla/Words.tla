------------------------------- MODULE Words -------------------------------
(***************************************************************************)
(* The data the emitted code works on, left abstract: 64-bit words, and    *)
(* the functions an x86-64 computes on them.  WordLaws is what the         *)
(* shortcuts of the emitter rest on; nothing else is assumed.              *)
(***************************************************************************)
EXTENDS Integers, Sequences

CONSTANTS
  Word,              (* Values of a register, of a lane of an xmm register, *)
                     (* and of either half of a memory cell.                *)
  Imm(_),            (* An int as a word, truncated and sign-extended.      *)
  Alu(_, _, _),      (* The instruction named first, on two words.          *)
  FAlu(_, _, _),     (* ADD, SUB, MUL, DIV, MIN or MAX of two floats.       *)
  Less(_, _),        (* The order of signed words.                          *)
  FLess(_, _),       (* The order of floats; FALSE for a NaN.               *)
  FromInt(_),        (* Conversion of a word to a float ...                 *)
  ToInt(_),          (* ... and of a float to a word.                       *)
  Low(_, _),         (* The low 8 or 32 bits of a word, zero-extended.      *)
  Splice(_, _, _),   (* The word with its low 8 or 32 bits replaced.        *)
  Cdq(_),            (* rdx after cdq with this rax: the sign of the low 32 *)
                     (* bits, in the low 32 bits.                           *)
  Idiv(_, _, _),     (* Quotient and remainder of rdx:rax by a word, <<>>   *)
                     (* where the processor faults.                         *)
  Quotient(_, _),    (* Division of signed words, rounded towards zero.     *)
  Narrow             (* The words 0 .. 2^31 - 1 and all others that are not *)
                     (* negative and have bit 31 clear.                     *)

Bit(b) == IF b THEN Imm(1) ELSE Imm(0)

Zero == Imm(0)

AluOp  == {"ADD", "SUB", "IMUL", "AND", "OR", "XOR", "SAL", "SAR"}
FAluOp == {"ADD", "SUB", "MUL", "DIV", "MIN", "MAX"}

ASSUME WordTypes ==
  /\ \A n \in -1 .. 15 : Imm(n) \in Word
  /\ \A x, y \in Word :
       /\ \A op \in AluOp : Alu(op, x, y) \in Word
       /\ \A op \in FAluOp : FAlu(op, x, y) \in Word
       /\ Less(x, y) \in BOOLEAN /\ FLess(x, y) \in BOOLEAN
       /\ \A bits \in {8, 32} : Low(bits, x) \in Word /\ Splice(bits, x, y) \in Word
       /\ Quotient(x, y) \in Word
       /\ \A z \in Word : Idiv(x, y, z) \in {<<>>} \cup (Word \X Word)
       /\ FromInt(x) \in Word /\ ToInt(x) \in Word /\ Cdq(x) \in Word
  /\ Narrow \subseteq Word

ASSUME WordLaws ==
  /\ Imm(1) # Zero /\ FromInt(Zero) = Zero /\ Imm(8) # Zero
  /\ \A x, y \in Word :
       /\ \A op \in {"ADD", "OR", "XOR"} : Alu(op, Zero, x) = x /\ Alu(op, x, Zero) = x
       /\ \A op \in {"SUB", "SAL", "SAR"} : Alu(op, x, Zero) = x
       /\ \A op \in {"SAL", "SAR", "IMUL"} : Alu(op, Zero, x) = Zero
       /\ Alu("IMUL", x, Zero) = Zero
       /\ Alu("AND", x, x) = x /\ Alu("OR", x, x) = x
       /\ Alu("ADD", Alu("SUB", x, y), y) = x
       /\ ~ Less(x, x)
       /\ \A b \in BOOLEAN : Low(8, Splice(8, x, Bit(b))) = Bit(b)
       /\ y # Zero => Quotient(Zero, y) = Zero
       /\ x \in Narrow /\ y # Zero
          => /\ Idiv(Cdq(x), x, y) # <<>>
             /\ Idiv(Cdq(x), x, y)[1] = Quotient(x, y)
  /\ \A b \in BOOLEAN : Low(32, Bit(b)) = Bit(b)
=============================================================================
