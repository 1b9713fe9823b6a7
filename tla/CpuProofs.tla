----------------------------- MODULE CpuProofs -----------------------------
(***************************************************************************)
(* Theorems about Cpu, for every number and width of the registers.        *)
(***************************************************************************)
EXTENDS Cpu, TLAPS

(* What the client passes is typed.                                        *)
LEMMA TypedInputs ==
  /\ \A i \in Index : i \in Nat
  /\ \A v \in Value : v \in 0 .. RegMod - 1
  /\ \A p \in Address : p \in 0 .. RegMod - 1
  /\ \A w \in Word : /\ w.opcode \in Nat /\ w.low \in 0 .. 2^16 - 1
                     /\ w.rs \in Regs /\ w.rt \in Regs
                     /\ w.opcode = SPECIAL => Decode(w).rd \in Regs
<1>1. /\ \A i \in Index : i \in Nat
      /\ \A v \in Value : v \in 0 .. RegMod - 1
      /\ \A p \in Address : p \in 0 .. RegMod - 1
  BY InputAssumption
<1>2. ASSUME NEW w \in Word
      PROVE  /\ w.opcode \in Nat /\ w.low \in 0 .. 2^16 - 1
             /\ w.rs \in Regs /\ w.rt \in Regs
             /\ w.opcode = SPECIAL => Decode(w).rd \in Regs
  <2>1. /\ w.opcode \in Nat /\ w.low \in 0 .. 2^16 - 1
        /\ w.rs \in Regs /\ w.rt \in Regs
    BY InputAssumption DEF Regs
  <2>2. w.opcode = SPECIAL => w.low \div 2^11 < GprCount
    BY InputAssumption
  <2>3. w.low \div 2^11 \in Nat
    BY <2>1
  <2>4. QED
    BY <2>1, <2>2, <2>3, GprAssumption DEF Decode, Regs
<1>3. QED
  BY <1>1, <1>2

(* A register file after a result was put is one again, register 0 zero.   *)
LEMMA PutIsTyped ==
  ASSUME TypeOK, NEW d, NEW result \in 0 .. RegMod - 1
  PROVE  Put(d, result) \in [Regs -> 0 .. RegMod - 1] /\ Put(d, result)[0] = 0
  BY GprAssumption, RegAssumption DEF Put, TypeOK, Regs

(* An instruction that completes keeps the pc and the history typed.       *)
LEMMA CompleteIsTyped ==
  ASSUME TypeOK, NEW w \in Word, Complete(w)
  PROVE  /\ pc' \in 0 .. RegMod - 1
         /\ trace' \in [entry : 0 .. RegMod - 1, before : Nat, retired : Nat]
         /\ trace'.before <= trace'.retired
         /\ res'.status \in Status
<1>1. pc' \in 0 .. RegMod - 1
  BY RegAssumption DEF Complete, TypeOK
<1>2. /\ trace' \in [entry : 0 .. RegMod - 1, before : Nat, retired : Nat]
      /\ trace'.before <= trace'.retired
  BY DEF Complete, TypeOK
<1>3. res'.status \in Status
  BY DEF Complete, Status
<1>4. QED
  BY <1>1, <1>2, <1>3

(* A sum of two integers wraps into a register.                            *)
LEMMA SumsAreTyped ==
  \A x \in Int, y \in Int : (x + y) % RegMod \in 0 .. RegMod - 1
  BY RegAssumption

(* Every call and every instruction keeps the types, register 0 zero.      *)
LEMMA TypeStep == TypeOK /\ [Next]_vars => TypeOK'
<1> SUFFICES ASSUME TypeOK, [Next]_vars PROVE TypeOK'
  OBVIOUS
<1>1. ASSUME NEW p \in Address, Reset(p) PROVE TypeOK'
  BY <1>1, TypedInputs, GprAssumption, RegAssumption
  DEF Reset, TypeOK, Reply, Status, Regs
<1>2. ASSUME NEW p \in Address, SetPc(p) PROVE TypeOK'
  <2>1. CASE p % 4 # 0
    BY <1>2, <2>1 DEF SetPc, TypeOK, Reply, Status
  <2>2. CASE p % 4 = 0
    <3>1. trace' = [entry |-> p, before |-> trace.retired, retired |-> trace.retired]
      BY <1>2, <2>2 DEF SetPc
    <3>2. /\ trace' \in [entry : 0 .. RegMod - 1, before : Nat, retired : Nat]
          /\ trace'.before <= trace'.retired
      BY <3>1, TypedInputs DEF TypeOK
    <3>3. pc' \in 0 .. RegMod - 1 /\ res'.status \in Status /\ gpr' = gpr
      BY <1>2, <2>2, TypedInputs DEF SetPc, Reply, Status
    <3>4. QED
      BY <3>2, <3>3 DEF TypeOK
  <2>3. QED
    BY <2>1, <2>2
<1>3. CASE ResetNull
  BY <1>3 DEF ResetNull, TypeOK, Reply
<1>4. ASSUME NEW i \in Index, GetGpr(i) PROVE TypeOK'
  <2>1. res'.status \in Status
    BY <1>4 DEF GetGpr, Reply, Status
  <2>2. QED
    BY <1>4, <2>1 DEF GetGpr, TypeOK
<1>5. ASSUME NEW i \in Index, NEW v \in Value, SetGpr(i, v) PROVE TypeOK'
  <2>1. res'.status \in Status
    BY <1>5 DEF SetGpr, Reply, Status
  <2>2. gpr' \in [Regs -> 0 .. RegMod - 1] /\ gpr'[0] = 0
    BY <1>5, TypedInputs, GprAssumption, RegAssumption DEF SetGpr, TypeOK, Regs
  <2>3. QED
    BY <1>5, <2>1, <2>2 DEF SetGpr, TypeOK
<1>6. CASE GetPc \/ NullPointer
  BY <1>6 DEF GetPc, NullPointer, TypeOK, Reply, Status
<1>7. ASSUME NEW w \in Word, ExecuteNop(w) PROVE TypeOK'
  BY <1>7, CompleteIsTyped DEF ExecuteNop, TypeOK
<1>8. ASSUME NEW w \in Word, ExecuteDaddu(w) PROVE TypeOK'
  <2>1. gpr[w.rs] \in Int /\ gpr[w.rt] \in Int
    BY TypedInputs, RegAssumption DEF TypeOK
  <2>2. gpr' \in [Regs -> 0 .. RegMod - 1] /\ gpr'[0] = 0
    BY <1>8, <2>1, PutIsTyped, SumsAreTyped DEF ExecuteDaddu, Decode
  <2>3. QED
    BY <1>8, <2>2, CompleteIsTyped DEF ExecuteDaddu, TypeOK
<1>9. ASSUME NEW w \in Word, ExecuteDaddiu(w) PROVE TypeOK'
  <2>1. gpr[w.rs] \in Int /\ SignExtension(Decode(w).immediate) \in Int
    BY TypedInputs, RegAssumption DEF TypeOK, Decode, SignExtension
  <2>2. gpr' \in [Regs -> 0 .. RegMod - 1] /\ gpr'[0] = 0
    BY <1>9, <2>1, PutIsTyped, SumsAreTyped DEF ExecuteDaddiu, Decode
  <2>3. QED
    BY <1>9, <2>2, CompleteIsTyped DEF ExecuteDaddiu, TypeOK
<1>10. ASSUME NEW w \in Word, ExecuteUnknown(w) PROVE TypeOK'
  BY <1>10 DEF ExecuteUnknown, TypeOK, Status
<1>11. CASE UNCHANGED vars
  BY <1>11 DEF vars, TypeOK
<1>12. QED
  BY <1>1, <1>2, <1>3, <1>4, <1>5, <1>6, <1>7, <1>8, <1>9, <1>10, <1>11 DEF Next

(* Registers and pc keep their width and register 0 reads as zero through  *)
(* every sequence of calls and instructions.                               *)
THEOREM TypeCorrect == Spec => []TypeOK
<1>1. Init => TypeOK
  BY TypedInputs, GprAssumption, RegAssumption
  DEF Init, TypeOK, Reply, Status, Regs
<1>2. QED
  BY <1>1, TypeStep, PTL DEF Spec

-----------------------------------------------------------------------------
(* A number is its quotient and its remainder, and only one remainder.     *)
LEMMA Remainder ==
  /\ \A x \in Nat : /\ x = RegMod * (x \div RegMod) + (x % RegMod)
                    /\ x \div RegMod \in Nat /\ x % RegMod \in 0 .. RegMod - 1
  /\ \A q \in Nat, r \in 0 .. RegMod - 1 : (RegMod * q + r) % RegMod = r
<1>1. \A x \in Nat : /\ x = RegMod * (x \div RegMod) + (x % RegMod)
                     /\ x \div RegMod \in Nat /\ x % RegMod \in 0 .. RegMod - 1
  BY RegAssumption
<1>2. \A q \in Nat, r \in 0 .. RegMod - 1 : (RegMod * q + r) % RegMod = r
  BY RegAssumption
<1>3. QED
  BY <1>1, <1>2

(* Adding 4 wraps the same before and after another wrap.                  *)
LEMMA WrapTwice ==
  ASSUME NEW x \in Nat
  PROVE  ((x % RegMod) + 4) % RegMod = (x + 4) % RegMod
<1> DEFINE q == x \div RegMod
           r == x % RegMod
<1>1. x = RegMod * q + r /\ q \in Nat /\ r \in 0 .. RegMod - 1
  BY Remainder
<1> HIDE DEF q, r
<1>2. CASE r + 4 < RegMod
  <2>1. (r + 4) % RegMod = r + 4
    BY <1>1, <1>2, RegAssumption
  <2>2. x + 4 = RegMod * q + (r + 4) /\ r + 4 \in 0 .. RegMod - 1
    BY <1>1, <1>2, RegAssumption
  <2>3. (x + 4) % RegMod = r + 4
    BY <1>1, <2>2, Remainder
  <2>4. QED
    BY <2>1, <2>3 DEF r
<1>3. CASE ~(r + 4 < RegMod)
  <2>1. (r + 4) % RegMod = r + 4 - RegMod
    BY <1>1, <1>3, RegAssumption
  <2>2. /\ x + 4 = RegMod * (q + 1) + (r + 4 - RegMod)
        /\ r + 4 - RegMod \in 0 .. RegMod - 1 /\ q + 1 \in Nat
    BY <1>1, <1>3, RegAssumption
  <2>3. (x + 4) % RegMod = r + 4 - RegMod
    BY <2>2, Remainder
  <2>4. QED
    BY <2>1, <2>3 DEF r
<1>4. QED
  BY <1>2, <1>3

(* An instruction that completes moves the pc on by 4.                     *)
LEMMA CompleteCounts ==
  ASSUME TypeOK, PcCountsRetired, NEW w \in Word, Complete(w)
  PROVE  PcCountsRetired'
<1> DEFINE n == trace.entry + 4 * (trace.retired - trace.before)
<1>1. n \in Nat /\ pc = n % RegMod
  BY RegAssumption DEF TypeOK, PcCountsRetired
<1>2. n' = n + 4
  BY RegAssumption DEF Complete, TypeOK
<1> HIDE DEF n
<1>3. pc' = (n' ) % RegMod
  BY <1>1, <1>2, WrapTwice DEF Complete
<1>4. QED
  BY <1>3 DEF n, PcCountsRetired

(* A pc that is set is its own remainder.                                  *)
LEMMA SetCounts ==
  ASSUME NEW p \in 0 .. RegMod - 1, pc' = p,
         trace'.entry = p, trace'.before = trace'.retired, trace'.retired \in Nat
  PROVE  PcCountsRetired'
<1>1. (p + 4 * (trace'.retired - trace'.before)) = p
  BY RegAssumption
<1>2. p % RegMod = p
  BY RegAssumption
<1>3. QED
  BY <1>1, <1>2 DEF PcCountsRetired

(* The pc always is where it was set last plus 4 bytes per instruction     *)
(* that completed since; failed instructions and calls do not count.       *)
THEOREM PcFollowsProgram == Spec => []PcCountsRetired
<1>1. Init => PcCountsRetired
  <2> SUFFICES ASSUME Init PROVE PcCountsRetired
    OBVIOUS
  <2>1. pc \in 0 .. RegMod - 1
    BY TypedInputs DEF Init
  <2>2. pc % RegMod = pc
    BY <2>1, RegAssumption
  <2>3. QED
    BY <2>1, <2>2, RegAssumption DEF Init, PcCountsRetired
<1>2. TypeOK /\ PcCountsRetired /\ [Next]_vars => PcCountsRetired'
  <2> SUFFICES ASSUME TypeOK, PcCountsRetired, [Next]_vars PROVE PcCountsRetired'
    OBVIOUS
  <2>1. ASSUME NEW p \in Address, Reset(p) PROVE PcCountsRetired'
    BY <2>1, TypedInputs, SetCounts DEF Reset
  <2>2. ASSUME NEW p \in Address, SetPc(p) PROVE PcCountsRetired'
    <3>1. CASE p % 4 = 0
      BY <2>2, <3>1, TypedInputs, SetCounts DEF SetPc, TypeOK
    <3>2. CASE p % 4 # 0
      BY <2>2, <3>2 DEF SetPc, PcCountsRetired
    <3>3. QED
      BY <3>1, <3>2
  <2>3. ASSUME NEW w \in Word, ExecuteNop(w) \/ ExecuteDaddu(w) \/ ExecuteDaddiu(w)
        PROVE  PcCountsRetired'
    BY <2>3, CompleteCounts DEF ExecuteNop, ExecuteDaddu, ExecuteDaddiu
  <2>4. ASSUME UNCHANGED <<pc, trace>> PROVE PcCountsRetired'
    BY <2>4 DEF PcCountsRetired
  <2>5. ASSUME NEW i \in Index, GetGpr(i) \/ \E v \in Value : SetGpr(i, v)
        PROVE  UNCHANGED <<pc, trace>>
    BY <2>5 DEF GetGpr, SetGpr
  <2>6. ASSUME NEW w \in Word, ExecuteUnknown(w) PROVE UNCHANGED <<pc, trace>>
    BY <2>6 DEF ExecuteUnknown
  <2>7. CASE ResetNull \/ GetPc \/ NullPointer \/ UNCHANGED vars
    BY <2>4, <2>7 DEF ResetNull, GetPc, NullPointer, vars
  <2>8. QED
    BY <2>1, <2>2, <2>3, <2>4, <2>5, <2>6, <2>7 DEF Next
<1>3. QED
  BY <1>1, <1>2, TypeCorrect, PTL DEF Spec

-----------------------------------------------------------------------------
(* Refinement of the architecture.                                         *)

regs == [i \in 1 .. GprCount - 1 |-> gpr[i]]

(* Reading gpr reads the register, register 0 included.                    *)
LEMMA ReadAgrees ==
  ASSUME TypeOK, NEW i \in Regs
  PROVE  Machine!R(i) = gpr[i]
  BY GprAssumption DEF Machine!R, TypeOK, Regs

(* Putting a result into gpr assigns the register, unless it is 0.         *)
LEMMA PutAgrees ==
  ASSUME NEW d \in Regs, NEW v, gpr' = Put(d, v)
  PROVE  regs' = Machine!Set(d, v)
<1>1. regs' = [i \in 1 .. GprCount - 1 |-> IF i = d THEN v ELSE gpr[i]]
  BY GprAssumption DEF regs, Put, Regs
<1>2. CASE d = 0
  BY <1>1, <1>2, GprAssumption DEF Machine!Set
<1>3. CASE d # 0
  <2>1. d \in 1 .. GprCount - 1
    BY <1>3, GprAssumption DEF Regs
  <2>2. QED
    BY <1>1, <1>3, <2>1 DEF Machine!Set
<1>4. QED
  BY <1>2, <1>3

(* The architectural registers are a function of gpr.                      *)
LEMMA RegsUnchanged == gpr' = gpr => regs' = regs
  BY DEF regs

(* Every call and every instruction is a step of the architecture.         *)
LEMMA StepIsIsaStep ==
  TypeOK /\ [Next]_vars => [Machine!IsaNext]_Machine!isaVars
<1> SUFFICES ASSUME TypeOK, [Next]_vars
             PROVE  Machine!IsaNext \/ UNCHANGED Machine!isaVars
  BY DEF Machine!isaVars
<1>1. ASSUME NEW p \in Address, Reset(p) PROVE Machine!Clear(p)
  <2>1. regs' = [i \in 1 .. GprCount - 1 |-> 0]
    BY <1>1, GprAssumption DEF Reset, regs, Regs
  <2>2. QED
    BY <1>1, <2>1 DEF Reset, Reply, Machine!Clear, regs
<1>2. ASSUME NEW p \in Address, SetPc(p) PROVE Machine!Jump(p)
  BY <1>2 DEF SetPc, Reply, Machine!Jump
<1>3. ASSUME ResetNull \/ NullPointer PROVE Machine!Observe
  BY <1>3 DEF ResetNull, NullPointer, Reply, Machine!Observe
<1>4. ASSUME NEW i \in Index, GetGpr(i) PROVE Machine!Observe
  <2>1. i < GprCount => Machine!R(i) = IF i = 0 THEN 0 ELSE gpr[i]
    BY TypedInputs, GprAssumption DEF Machine!R
  <2>2. i < GprCount <=> ~(i >= GprCount)
    BY TypedInputs, GprAssumption
  <2>3. res' = IF i < GprCount
               THEN [op |-> "get_gpr", status |-> "OK", value |-> Machine!R(i)]
               ELSE [op |-> "get_gpr", status |-> "INVALID_REGISTER"]
    BY <1>4, <2>1, <2>2 DEF GetGpr, Reply
  <2>4. QED
    BY <1>4, <2>3 DEF GetGpr, Machine!Observe
<1>5. ASSUME NEW i \in Index, NEW v \in Value, SetGpr(i, v) PROVE Machine!Assign(i, v)
  <2>1. i \in Nat /\ (i < GprCount <=> ~(i >= GprCount))
    BY TypedInputs, GprAssumption
  <2>2. regs' = IF i < GprCount THEN Machine!Set(i, v) ELSE regs
    <3>1. CASE i >= GprCount
      BY <1>5, <2>1, <3>1 DEF SetGpr, regs
    <3>2. CASE i = 0
      BY <1>5, <2>1, <3>2, GprAssumption DEF SetGpr, regs, Machine!Set, TypeOK, Regs
    <3>3. CASE i # 0 /\ ~(i >= GprCount)
      <4>1. gpr' = [gpr EXCEPT ![i] = v, ![0] = 0] /\ i \in 1 .. GprCount - 1
        BY <1>5, <2>1, <3>3, GprAssumption DEF SetGpr
      <4>2. \A k \in 1 .. GprCount - 1 : gpr'[k] = IF k = i THEN v ELSE gpr[k]
        BY <4>1, GprAssumption DEF TypeOK, Regs
      <4>3. QED
        BY <2>1, <3>3, <4>1, <4>2 DEF regs, Machine!Set
    <3>4. QED
      BY <3>1, <3>2, <3>3
  <2>3. QED
    BY <1>5, <2>1, <2>2 DEF SetGpr, Reply, Machine!Assign, regs
<1>6. ASSUME GetPc PROVE Machine!Observe
  BY <1>6 DEF GetPc, Machine!Observe
<1>7. ASSUME NEW w \in Word, ExecuteNop(w) PROVE Machine!Retire(w)
  BY <1>7 DEF ExecuteNop, Complete, Decode, Machine!Retire, Machine!IsNop
<1>8. ASSUME NEW w \in Word, ExecuteDaddu(w) PROVE Machine!Retire(w)
  <2>1. Machine!IsDaddu(w) /\ w.opcode = SPECIAL
    BY <1>8 DEF ExecuteDaddu, Decode, Machine!IsDaddu, Machine!Funct, DADDU, SPECIAL
  <2>2. Machine!R(w.rs) = gpr[w.rs] /\ Machine!R(w.rt) = gpr[w.rt]
    BY TypedInputs, ReadAgrees
  <2>3. gpr' = Put(Machine!Rd(w), (gpr[w.rs] + gpr[w.rt]) % RegMod)
    BY <1>8 DEF ExecuteDaddu, Decode, Machine!Rd
  <2>4. Machine!Rd(w) \in Regs
    BY <2>1, TypedInputs DEF Decode, Machine!Rd
  <2>5. regs' = Machine!Set(Machine!Rd(w),
                            (Machine!R(w.rs) + Machine!R(w.rt)) % RegMod)
    BY <2>2, <2>3, <2>4, PutAgrees
  <2>6. QED
    BY <1>8, <2>1, <2>5 DEF ExecuteDaddu, Complete, Machine!Retire, regs
<1>9. ASSUME NEW w \in Word, ExecuteDaddiu(w) PROVE Machine!Retire(w)
  <2>1. Machine!IsDaddiu(w) /\ w.opcode = DADDIU
    BY <1>9 DEF ExecuteDaddiu, Decode, Machine!IsDaddiu
  <2>2. Machine!R(w.rs) = gpr[w.rs]
    BY TypedInputs, ReadAgrees
  <2>3. Decode(w).immediate = w.low % 2^12 /\ w.low % 2^12 \in 0 .. 2^12 - 1
    BY TypedInputs DEF Decode
  <2>4. SignExtension(w.low % 2^12) = Machine!Immediate(w)
    BY <2>3, RegAssumption DEF SignExtension, Machine!Immediate, Machine!Signed16
  <2>5. gpr' = Put(w.rt, (gpr[w.rs] + Machine!Immediate(w)) % RegMod)
    BY <1>9, <2>3, <2>4 DEF ExecuteDaddiu, Decode
  <2>6. regs' = Machine!Set(w.rt,
                            (Machine!R(w.rs) + Machine!Immediate(w)) % RegMod)
    BY <2>2, <2>5, TypedInputs, PutAgrees
  <2>7. QED
    BY <1>9, <2>1, <2>6 DEF ExecuteDaddiu, Complete, Machine!Retire, regs
<1>10. ASSUME NEW w \in Word, ExecuteUnknown(w) PROVE Machine!Trap(w)
  BY <1>10
  DEF ExecuteUnknown, Decode, Machine!Trap, Machine!IsNop, Machine!IsDaddu,
      Machine!IsDaddiu, Machine!Funct, SPECIAL, DADDU
<1>11. CASE \E p \in Address : Reset(p) \/ SetPc(p)
  BY <1>1, <1>2, <1>11 DEF Machine!IsaNext
<1>12. CASE \E i \in Index : GetGpr(i) \/ \E v \in Value : SetGpr(i, v)
  BY <1>4, <1>5, <1>12 DEF Machine!IsaNext
<1>13. CASE ResetNull \/ GetPc \/ NullPointer
  BY <1>3, <1>6, <1>13 DEF Machine!IsaNext
<1>14. CASE \E w \in Word : \/ ExecuteNop(w) \/ ExecuteDaddu(w)
                            \/ ExecuteDaddiu(w) \/ ExecuteUnknown(w)
  BY <1>7, <1>8, <1>9, <1>10, <1>14 DEF Machine!IsaNext
<1>15. CASE UNCHANGED vars
  BY <1>15 DEF vars, Machine!isaVars
<1>16. QED
  BY <1>11, <1>12, <1>13, <1>14, <1>15 DEF Next

(* The emulator's registers are those of an architecture: register 0 is    *)
(* hardwired, an instruction assigns one register and the pc, or neither,  *)
(* and immediates have 12 bits.  Nothing is assumed of the program.        *)
THEOREM Refinement == Spec => ImplementsIsa
<1>1. Init => Machine!IsaInit
  BY GprAssumption DEF Init, Reply, Machine!IsaInit, Regs
<1>2. QED
  BY <1>1, StepIsIsaStep, TypeCorrect, PTL
  DEF Spec, ImplementsIsa, Machine!IsaSpec

-----------------------------------------------------------------------------
(* MIPS64: immediates have 16 bits.                                        *)
Mips == INSTANCE Isa WITH
          regs <- [i \in 1 .. GprCount - 1 |-> gpr[i]], next <- pc,
          ImmediateMod <- 2^16

(* The immediates the decoder does not truncate.                           *)
SmallImmediates == \A w \in Word : w.opcode = DADDIU => w.low < 2^12

(* A small immediate is the same in 12 bits and in 16.                     *)
LEMMA SmallIsWhole ==
  ASSUME NEW w \in Word, w.low < 2^12
  PROVE  Machine!Immediate(w) = Mips!Immediate(w)
<1>1. w.low \in 0 .. 2^12 - 1
  BY TypedInputs
<1>2. w.low % 2^12 = w.low /\ w.low % 2^16 = w.low
  BY <1>1
<1>3. QED
  BY <1>2 DEF Machine!Immediate, Mips!Immediate, Machine!Signed16, Mips!Signed16

(* With small immediates the two machines take the same steps.             *)
LEMMA StepIsMipsStep ==
  ASSUME SmallImmediates, Machine!IsaNext
  PROVE  Mips!IsaNext
<1>1. ASSUME NEW p \in Address, Machine!Clear(p) \/ Machine!Jump(p)
      PROVE  Mips!IsaNext
  BY <1>1 DEF Machine!Clear, Machine!Jump, Mips!Clear, Mips!Jump, Mips!IsaNext
<1>2. ASSUME NEW i \in Index, NEW v \in Value, Machine!Assign(i, v)
      PROVE  Mips!IsaNext
  BY <1>2 DEF Machine!Assign, Machine!Set, Mips!Assign, Mips!Set, Mips!IsaNext
<1>3. ASSUME Machine!Observe PROVE Mips!IsaNext
  BY <1>3 DEF Machine!Observe, Machine!R, Mips!Observe, Mips!R, Mips!IsaNext
<1>4. ASSUME NEW w \in Word, Machine!Retire(w) PROVE Mips!IsaNext
  <2>1. Machine!IsDaddiu(w) => Machine!Immediate(w) = Mips!Immediate(w)
    BY SmallIsWhole DEF SmallImmediates, Machine!IsDaddiu
  <2>2. Mips!Retire(w)
    BY <1>4, <2>1
    DEF Machine!Retire, Machine!IsNop, Machine!IsDaddu, Machine!IsDaddiu,
        Machine!Funct, Machine!Rd, Machine!R, Machine!Set,
        Mips!Retire, Mips!IsNop, Mips!IsDaddu, Mips!IsDaddiu,
        Mips!Funct, Mips!Rd, Mips!R, Mips!Set
  <2>3. QED
    BY <2>2 DEF Mips!IsaNext
<1>5. ASSUME NEW w \in Word, Machine!Trap(w) PROVE Mips!IsaNext
  BY <1>5
  DEF Machine!Trap, Machine!IsNop, Machine!IsDaddu, Machine!IsDaddiu, Machine!Funct,
      Mips!Trap, Mips!IsNop, Mips!IsDaddu, Mips!IsDaddiu, Mips!Funct, Mips!IsaNext
<1>6. QED
  BY <1>1, <1>2, <1>3, <1>4, <1>5 DEF Machine!IsaNext

(* Programs whose immediates fit in 12 bits run as on MIPS64: the decoder  *)
(* is all that stands between the interpreter and the architecture.        *)
THEOREM SmallProgramsRunAsMips ==
  ASSUME SmallImmediates
  PROVE  Spec => Mips!IsaSpec
<1>1. Machine!IsaInit => Mips!IsaInit
  BY DEF Machine!IsaInit, Mips!IsaInit
<1>2. [Machine!IsaNext]_Machine!isaVars => [Mips!IsaNext]_Mips!isaVars
  BY StepIsMipsStep DEF Machine!isaVars, Mips!isaVars
<1>3. QED
  BY <1>1, <1>2, Refinement, PTL
  DEF ImplementsIsa, Machine!IsaSpec, Mips!IsaSpec
=============================================================================
