------------------------------- MODULE MCJit -------------------------------
(***************************************************************************)
(* Instances of Jit for TLC: words of 4 bits, whose low 2 bits stand for   *)
(* the low 32 and whose lowest bit for the low 8, floats that are integers *)
(* modulo 16, and 16-bit indices of 2 bits.                                *)
(***************************************************************************)
EXTENDS Jit, FiniteSets

MCWord == -8 .. 7
MCImm(k) == ((k + 8) % 16) - 8
Unsigned(x) == x % 16
Bits(x) == {k \in 0 .. 3 : (Unsigned(x) \div 2^k) % 2 = 1}
OfBits(B) == MCImm((IF 0 \in B THEN 1 ELSE 0) + (IF 1 \in B THEN 2 ELSE 0)
                   + (IF 2 \in B THEN 4 ELSE 0) + (IF 3 \in B THEN 8 ELSE 0))

MCAlu(op, x, y) ==
  CASE op = "ADD"  -> MCImm(x + y)
    [] op = "SUB"  -> MCImm(x - y)
    [] op = "IMUL" -> MCImm(x * y)
    [] op = "AND"  -> OfBits(Bits(x) \cap Bits(y))
    [] op = "OR"   -> OfBits(Bits(x) \cup Bits(y))
    [] op = "XOR"  -> OfBits((Bits(x) \ Bits(y)) \cup (Bits(y) \ Bits(x)))
    [] op = "SAL"  -> MCImm(x * 2^Unsigned(y))
    [] op = "SAR"  -> x \div 2^Unsigned(y)

MCFAlu(op, x, y) ==
  CASE op = "ADD" -> MCImm(x + y)
    [] op = "SUB" -> MCImm(x - y)
    [] op = "MUL" -> MCImm(x * y)
    [] op = "DIV" -> IF y = 0 THEN 7 ELSE MCImm(x \div y)
    [] op = "MIN" -> IF x < y THEN x ELSE y
    [] op = "MAX" -> IF x > y THEN x ELSE y

MCLess(x, y)   == x < y
MCFLess(x, y)  == x < y
MCFromInt(x)   == x
MCToInt(x)     == x
LowMod(bits)   == IF bits = 8 THEN 2 ELSE 4
MCLow(bits, x) == x % LowMod(bits)
MCSplice(bits, x, y) == x - (x % LowMod(bits)) + (y % LowMod(bits))
MCCdq(x)       == IF (x % 4) >= 2 THEN 3 ELSE 0

Truncated(x, y) ==
  LET q == (IF x < 0 THEN -x ELSE x) \div (IF y < 0 THEN -y ELSE y)
  IN IF (x < 0) = (y < 0) THEN q ELSE -q

MCIdiv(hi, lo, y) ==
  LET x == hi * 16 + Unsigned(lo)
      q == Truncated(x, y)
  IN IF y = 0 THEN <<>> ELSE IF q \notin MCWord THEN <<>> ELSE <<q, x - q * y>>

MCQuotient(x, y) == IF y = 0 THEN 0 ELSE MCImm(Truncated(x, y))
MCNarrow == {0, 1, 4, 5}

(* General registers: 0 rax, 1 rcx, 2 rdx, 3 rbx, 4 rsp, 7 rdi, 12 r12.    *)
Machine(v) ==
  [r |-> [k \in Reg |-> v[k]],
   x |-> [k \in Reg |-> [lo |-> MCImm(3 * k + 1), hi |-> MCImm(k + 2)]],
   m |-> [a \in Word |-> [lo |-> MCImm(5 * a + 3), hi |-> a]],
   cmp |-> <<0, 0>>, out |-> Fall]

MCMachines ==
  {Machine([k \in Reg |-> CASE k = 0 -> 5 [] k = 1 -> 3 [] k = 2 -> -2
                            [] k = 3 -> 4 [] k = 4 -> 7 [] OTHER -> MCImm(k)]),
   Machine([k \in Reg |-> CASE k = 0 -> -3 [] k = 1 -> 1 [] k = 2 -> 4
                            [] k = 3 -> -6 [] k = 4 -> 0 [] OTHER -> MCImm(2 * k)]),
   Machine([k \in Reg |-> CASE k = 0 -> 4 [] k = 1 -> 0 [] k = 2 -> 1
                            [] k = 3 -> 4 [] k = 4 -> 2 [] OTHER -> -1])}

C(op, d, s, t, i) == [op |-> op, d |-> d, s |-> s, t |-> t, i |-> i]

Any == {-1, 0, 1, 2, 3, 4}

IntegerCalls == [op : Integer3, d : Any, s : Any, t : Any, i : {0}]
MemoryCalls  == [op : Integer2, d : Any \cup {12}, s : Any \cup {12}, t : {-1},
                 i : {-1, 0, 3}]
FloatCalls   == [op : Scalar3 \cup Packed3, d : 1 .. 3, s : 1 .. 3, t : 1 .. 3, i : {0}]
MixedCalls   ==
  [op : {"LESSF"}, d : {-1, 1, 3}, s : {1, 2}, t : {1, 2}, i : {0}] \cup
  [op : {"LOADF", "LOADF4"}, d : {-1, 1, 3}, s : {-1, 3, 4, 12}, t : {-1}, i : {0, 3}] \cup
  [op : {"ITOF"}, d : {1, 3}, s : {-1, 3, 4, 12}, t : {-1}, i : {0}] \cup
  [op : {"STOREF"}, d : {-1, 0, 3, 4, 12}, s : {-1, 1, 2}, t : {-1}, i : {0, 3}] \cup
  [op : {"STOREF4"}, d : {-1, 0, 3, 4, 12}, s : {1, 2}, t : {-1}, i : {0, 3}] \cup
  [op : {"FTOI"}, d : {-1, 3}, s : {1, 2}, t : {-1}, i : {0}]
JumpCalls    ==
  [op : {"JUMP", "BRANCH", "NBRANCH", "CALL", "CALLEX", "RETURN"}, d : {-1},
   s : {-1, 0, 3}, t : {-1, 0, 1, 3}, i : {-2, -1, 0, 2}]

(* Calls of every kind of code: several instructions, one, or none; a      *)
(* jump or none; and the call that does not set its entry.                 *)
MCChained ==
  {C("ADD", 3, 3, 1, 0), C("SHIFTL", 3, 1, 2, 0), C("DIV", 1, 0, 3, 0),
   C("LOADF", 1, 3, -1, 3), C("LESS", 1, 3, 2, 0), C("STORE64", 3, 2, -1, 2),
   C("BRANCH", -1, 3, 1, 2), C("BRANCH", -1, 3, 3, 2), C("NBRANCH", -1, 3, -1, -2),
   C("JUMP", -1, -1, -1, -1)}

MCCalls == IntegerCalls \cup MemoryCalls \cup FloatCalls \cup MixedCalls \cup JumpCalls
           \cup MCChained

(* Operations with JIT_R0 as an operand, and without equal registers.      *)
ZeroCalls == {c \in IntegerCalls : /\ c.d = 3 /\ c.s \in {-1, 1} /\ c.t \in {-1, 2}
                                   /\ c.op \in {"ADD", "SUB", "AND", "OR", "XOR"}}
=============================================================================
