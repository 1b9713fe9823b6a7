--------------------------- MODULE JitRefinement ---------------------------
(***************************************************************************)
(* Jit implements JitAsm: the code emitted for a call computes what the    *)
(* call means, for every call, every state of the processor and every      *)
(* arithmetic that satisfies Words.                                        *)
(*                                                                         *)
(* The processor takes up to six steps where JitAsm takes one.  After is   *)
(* the processor after some steps of a code, Reaches what it can stop      *)
(* with, and Running the invariant that ties them to the specification.    *)
(* The rest is symbolic execution, one lemma per operation.                *)
(***************************************************************************)
EXTENDS JitProofs

-----------------------------------------------------------------------------
(* Running a code.                                                         *)

After1(code, b) == Exec(code[1], b)
After2(code, b) == Exec(code[2], After1(code, b))
After3(code, b) == Exec(code[3], After2(code, b))
After4(code, b) == Exec(code[4], After3(code, b))
After5(code, b) == Exec(code[5], After4(code, b))
After6(code, b) == Exec(code[6], After5(code, b))

After(j, code, b) ==
  CASE j = 0 -> b
    [] j = 1 -> After1(code, b)
    [] j = 2 -> After2(code, b)
    [] j = 3 -> After3(code, b)
    [] j = 4 -> After4(code, b)
    [] j = 5 -> After5(code, b)
    [] j = 6 -> After6(code, b)

(* The states that a code can stop in.                                     *)
Ends(code, b, q) ==
  \E j \in 1 .. Len(code) :
    /\ q = After(j, code, b)
    /\ \A i \in 0 .. j - 1 : After(i, code, b).out = Fall
    /\ j = Len(code) \/ q.out # Fall

Reaches(code, b, q) == IF code = <<>> THEN q = b ELSE Ends(code, b, q)

(* One instruction more.                                                   *)
LEMMA AfterNext ==
  ASSUME NEW code, NEW b
  PROVE  /\ After(0, code, b) = b
         /\ \A j \in 0 .. 5 :
              After(j + 1, code, b) = Exec(code[j + 1], After(j, code, b))
BY DEF After, After1, After2, After3, After4, After5, After6

(* Where nothing is emitted, nothing changes.                              *)
LEMMA ReachesNone ==
  ASSUME NEW b, NEW q, Reaches(<<>>, b, q)
  PROVE  q = b
BY DEF Reaches

(* One instruction.                                                        *)
LEMMA ReachesOne ==
  ASSUME NEW b, NEW q, NEW k1, Reaches(<<k1>>, b, q)
  PROVE  q = Exec(k1, b)
<1>1. <<k1>> # <<>> /\ Len(<<k1>>) = 1 /\ <<k1>>[1] = k1
  OBVIOUS
<1>2. After(1, <<k1>>, b) = Exec(k1, b)
  BY <1>1 DEF After, After1
<1> QED
  BY <1>1, <1>2 DEF Reaches, Ends

(* Two, the first of which falls through.                                  *)
LEMMA ReachesTwo ==
  ASSUME NEW b, NEW q, NEW k1, NEW k2, Reaches(<<k1, k2>>, b, q),
         Exec(k1, b).out = Fall
  PROVE  q = Exec(k2, Exec(k1, b))
<1> DEFINE code == <<k1, k2>>
<1>1. code # <<>> /\ Len(code) = 2 /\ code[1] = k1 /\ code[2] = k2
  OBVIOUS
<1>2. /\ After(1, code, b) = Exec(k1, b)
      /\ After(2, code, b) = Exec(k2, Exec(k1, b))
  BY <1>1 DEF After, After1, After2
<1> HIDE DEF code
<1>3. Ends(code, b, q)
  BY <1>1 DEF Reaches, code
<1>4. PICK j \in 1 .. 2 : q = After(j, code, b) /\ (j = 2 \/ q.out # Fall)
  BY <1>1, <1>3 DEF Ends
<1> QED
  BY <1>2, <1>4

(* A code of four: the last instruction is the first that may leave.       *)
LEMMA ReachesFour ==
  ASSUME NEW b, NEW q, NEW k1, NEW k2, NEW k3, NEW k4,
         Reaches(<<k1, k2, k3, k4>>, b, q),
         NEW b1, b1 = Exec(k1, b), b1.out = Fall,
         NEW b2, b2 = Exec(k2, b1), b2.out = Fall,
         NEW b3, b3 = Exec(k3, b2), b3.out = Fall
  PROVE  q = Exec(k4, b3)
<1> DEFINE code == <<k1, k2, k3, k4>>
<1>1. /\ code # <<>> /\ Len(code) = 4
      /\ code[1] = k1 /\ code[2] = k2 /\ code[3] = k3 /\ code[4] = k4
  OBVIOUS
<1> HIDE DEF code
<1>2. /\ After(1, code, b) = b1 /\ After(2, code, b) = b2 /\ After(3, code, b) = b3
      /\ After(4, code, b) = Exec(k4, b3)
  BY <1>1 DEF After, After1, After2, After3, After4
<1>3. Ends(code, b, q)
  BY <1>1 DEF Reaches, code
<1>4. PICK j \in 1 .. 4 : q = After(j, code, b) /\ (j = 4 \/ q.out # Fall)
  BY <1>1, <1>3 DEF Ends
<1> QED
  BY <1>2, <1>4

(* Five.                                                                   *)
LEMMA ReachesFive ==
  ASSUME NEW b, NEW q, NEW k1, NEW k2, NEW k3, NEW k4, NEW k5,
         Reaches(<<k1, k2, k3, k4, k5>>, b, q),
         NEW b1, b1 = Exec(k1, b), b1.out = Fall,
         NEW b2, b2 = Exec(k2, b1), b2.out = Fall,
         NEW b3, b3 = Exec(k3, b2), b3.out = Fall,
         NEW b4, b4 = Exec(k4, b3), b4.out = Fall
  PROVE  q = Exec(k5, b4)
<1> DEFINE code == <<k1, k2, k3, k4, k5>>
<1>1. /\ code # <<>> /\ Len(code) = 5 /\ code[5] = k5
      /\ code[1] = k1 /\ code[2] = k2 /\ code[3] = k3 /\ code[4] = k4
  OBVIOUS
<1> HIDE DEF code
<1>2. /\ After(1, code, b) = b1 /\ After(2, code, b) = b2 /\ After(3, code, b) = b3
      /\ After(4, code, b) = b4 /\ After(5, code, b) = Exec(k5, b4)
  BY <1>1 DEF After, After1, After2, After3, After4, After5
<1>3. Ends(code, b, q)
  BY <1>1 DEF Reaches, code
<1>4. PICK j \in 1 .. 5 : q = After(j, code, b) /\ (j = 5 \/ q.out # Fall)
  BY <1>1, <1>3 DEF Ends
<1> QED
  BY <1>2, <1>4

(* A code of six, whose fourth instruction may leave.                      *)
LEMMA ReachesSix ==
  ASSUME NEW b, NEW q, NEW k1, NEW k2, NEW k3, NEW k4, NEW k5, NEW k6,
         Reaches(<<k1, k2, k3, k4, k5, k6>>, b, q),
         NEW b1, b1 = Exec(k1, b), b1.out = Fall,
         NEW b2, b2 = Exec(k2, b1), b2.out = Fall,
         NEW b3, b3 = Exec(k3, b2), b3.out = Fall,
         NEW b4, b4 = Exec(k4, b3),
         NEW b5, b5 = Exec(k5, b4), b5.out = b4.out
  PROVE  \/ b4.out # Fall /\ q = b4
         \/ b4.out = Fall /\ q = Exec(k6, b5)
<1> DEFINE code == <<k1, k2, k3, k4, k5, k6>>
<1>1. /\ code # <<>> /\ Len(code) = 6 /\ code[5] = k5 /\ code[6] = k6
      /\ code[1] = k1 /\ code[2] = k2 /\ code[3] = k3 /\ code[4] = k4
  OBVIOUS
<1> HIDE DEF code
<1>2. /\ After(1, code, b) = b1 /\ After(2, code, b) = b2 /\ After(3, code, b) = b3
      /\ After(4, code, b) = b4 /\ After(5, code, b) = b5
      /\ After(6, code, b) = Exec(k6, b5)
  BY <1>1 DEF After, After1, After2, After3, After4, After5, After6
<1>3. Ends(code, b, q)
  BY <1>1 DEF Reaches, code
<1>4. PICK j \in 1 .. 6 : /\ q = After(j, code, b) /\ (j = 6 \/ q.out # Fall)
                          /\ \A i \in 0 .. j - 1 : After(i, code, b).out = Fall
  BY <1>1, <1>3 DEF Ends
<1>5. CASE j \in {1, 2, 3}
  BY <1>2, <1>4, <1>5
<1>6. CASE j = 4
  BY <1>2, <1>4, <1>6
<1>7. CASE j \in {5, 6}
  <2>1. b4.out = Fall
    BY <1>2, <1>4, <1>7
  <2> QED
    BY <1>2, <1>4, <1>7, <2>1
<1> QED
  BY <1>4, <1>5, <1>6, <1>7

-----------------------------------------------------------------------------
(* Single instructions.                                                    *)

LEMMA PutFacts ==
  ASSUME NEW p \in State, NEW k \in Reg, NEW v \in Word
  PROVE  /\ Put(p, k, v) \in State
         /\ \A j \in Reg : Put(p, k, v).r[j] = IF j = k THEN v ELSE p.r[j]
         /\ Put(p, k, v).x = p.x /\ Put(p, k, v).m = p.m
         /\ Put(p, k, v).out = p.out /\ Put(p, k, v).cmp = p.cmp
<1>1. Put(p, k, v) \in State
  BY PutTypes
<1> QED
  BY <1>1 DEF Put, State

(* q is p with v in register k.                                            *)
Wrote(p, q, k, v) ==
  /\ q \in State /\ q.x = p.x /\ q.m = p.m /\ q.out = p.out
  /\ \A j \in Reg : q.r[j] = IF j = k THEN v ELSE p.r[j]

(* What Put leaves, to be cited where an instance of PutFacts is too large.*)
LEMMA Writes ==
  ASSUME NEW p \in State, NEW k \in Reg, NEW v \in Word
  PROVE  Wrote(p, Put(p, k, v), k, v)
BY PutFacts DEF Wrote

(* The same for an xmm register.                                           *)
LEMMA PutXFacts ==
  ASSUME NEW p \in State, NEW k \in Reg, NEW v \in Lanes
  PROVE  /\ PutX(p, k, v) \in State
         /\ PutX(p, k, v).x = [p.x EXCEPT ![k] = v]
         /\ PutX(p, k, v).r = p.r /\ PutX(p, k, v).m = p.m
         /\ PutX(p, k, v).out = p.out
<1>1. PutX(p, k, v) \in State
  BY PutTypes
<1> QED
  BY <1>1 DEF PutX, State

(* A register is encoded as itself.                                        *)
LEMMA EncReg == \A k \in Reg : Enc(k) = k
BY EncValue DEF Reg, Number

(* Moves, arithmetic and shifts.                                           *)
LEMMA ExecMove ==
  ASSUME NEW p, NEW d \in Reg, NEW s \in Reg
  PROVE  Exec(MOV(d, s), p) = Put(p, d, p.r[s])
BY ExecCases, EncReg DEF MOV, RR, I, RRs, ExecRR

(* A move of an immediate.                                                 *)
LEMMA ExecMoveImmediate ==
  ASSUME NEW p, NEW d \in Reg, NEW im
  PROVE  Exec(MOVI32(d, im), p) = Put(p, d, Imm(im))
BY ExecCases, EncReg DEF MOVI32, RI32, I, RRs, ExecRR

(* Arithmetic on two registers.                                            *)
LEMMA ExecAlu ==
  ASSUME NEW p, NEW d \in Reg, NEW s \in Reg, NEW op \in {"ADD", "SUB", "AND", "OR", "XOR"}
  PROVE  Exec(RR(op, d, s), p) = Put(p, d, Alu(op, p.r[d], p.r[s]))
BY ExecCases, EncReg DEF RR, I, RRs, ExecRR

(* A shift by rcx.                                                         *)
LEMMA ExecShift ==
  ASSUME NEW p, NEW d \in Reg, NEW op \in {"SAL", "SAR"}
  PROVE  Exec(RR(op, d, 0), p) = Put(p, d, Alu(op, p.r[d], p.r[RCX]))
BY ExecCases, EncReg DEF RR, I, RRs, ExecRR

(* The multiplication.                                                     *)
LEMMA ExecMultiply ==
  ASSUME NEW p, NEW d \in Reg, NEW s \in Reg
  PROVE  Exec(RR0("IMUL", d, s), p) = Put(p, d, Alu("IMUL", p.r[d], p.r[s]))
BY ExecCases, EncReg DEF RR0, I, RRs, ExecRR

-----------------------------------------------------------------------------
(* JitAsm.                                                                 *)

(* The processor where the call began, which is what JitAsm computes with. *)
Here == IF todo = <<>> THEN cpu ELSE base

(* An access runs on through bytes of no instruction if its base cannot be *)
(* one; nothing else does.                                                 *)
MayLose(c) == c.op \in Asm!Loads \cup Asm!Stores
Stays(q)   == q.out[1] # "lost"

(* What JitAsm lets a call end in.                                         *)
Good(c, q) ==
  \/ Asm!Sound(c) /\ Asm!Meaning(c, View(q))
  \/ ~ Asm!Sound(c) /\ (Asm!LosesStack(c) \/ Asm!Footprint(c, View(q)))
  \/ ~ Asm!Sound(c) /\ c.op = "DIV" /\ View(q).out[1] = "fault"
  \/ ~ Asm!Sound(c) /\ MayLose(c) /\ View(q).out[1] = "lost"

(* Equal but for some registers and cells.                                 *)
Kept(b, q, R, M) ==
  /\ \A k \in Reg \ R : q.r[k] = b.r[k]
  /\ \A a \in Word \ M : q.m[a] = b.m[a]

(* The operands of JitAsm are those of the processor.                      *)
LEMMA AsmValues ==
  /\ \A k : Asm!Val(k) = IF k = -1 THEN Zero ELSE Here.r[k]
  /\ \A k, i : Asm!At(k, i) = Alu("ADD", Here.r[k], Imm(i))
  /\ Asm!BelowStack = StackSlot(Here)
<1>1. View(IF todo = <<>> THEN cpu ELSE base).r = Here.r
  BY DEF Here, View
<1>2. \A k : Asm!Val(k) = IF k = -1 THEN Zero ELSE Here.r[k]
  BY <1>1 DEF Asm!Val, Asm!R0, Asm!Zero, Zero
<1>3. \A k, i : Asm!At(k, i) = Alu("ADD", Here.r[k], Imm(i))
  BY <1>1 DEF Asm!At
<1>4. Asm!BelowStack = StackSlot(Here)
  BY <1>1 DEF Asm!BelowStack, Asm!SP, StackSlot, RSP
<1> QED
  BY <1>2, <1>3, <1>4

(* An operation on general registers.                                      *)
LEMMA RegisterGood ==
  ASSUME NEW c, c.op \in Asm!ToReg, c.d # R0, NEW q, Here \in State, Here.out = Fall,
         Kept(Here, q, {0, c.d}, {StackSlot(Here)}), q.x = Here.x, q.out = Fall,
         Asm!Sound(c) => q.r[c.d] = Asm!Result(c)
  PROVE  Good(c, q)
<1> DEFINE v == View(q)
           w == View(Here)
<1>1. /\ v.r = q.r /\ v.x = q.x /\ v.m = q.m /\ v.out = q.out
      /\ w.r = Here.r /\ w.x = Here.x /\ w.m = Here.m /\ w.out = Here.out
      /\ DOMAIN w.r = Reg /\ DOMAIN w.m = Word /\ DOMAIN w.x = Reg
  BY DEF View, State
<1>2. View(IF todo = <<>> THEN cpu ELSE base) = w
  BY DEF Here
<1> HIDE DEF v, w
<1>3. Asm!SameBut(w.r, v.r, {0, c.d}) /\ Asm!SameBut(w.m, v.m, {StackSlot(Here)})
  BY <1>1 DEF Asm!SameBut, Kept
<1>4. c.op \notin Asm!ToXmm /\ c.op \notin Asm!Stores /\ Asm!Exit(c) = Fall
  BY DEF Asm!ToReg, Asm!ToXmm, Asm!Stores, Asm!Exit, Asm!Fall, Fall, Asm!Binary,
         Asm!Unary, Asm!Float, Asm!Float4
<1>5. Asm!Sound(c) => Asm!Meaning(c, v)
  BY <1>1, <1>2, <1>3, <1>4, AsmValues
     DEF Asm!Meaning, Asm!RE, Asm!R0, R0
<1>6. {0, c.d} \subseteq Asm!Touched(c)
  BY DEF Asm!Touched, Asm!RE, Asm!R0, R0
<1>7. Asm!Footprint(c, v)
  <2>1. v.out[1] # "lost"
    BY <1>1 DEF Fall
  <2> QED
    BY <1>1, <1>2, <1>3, <1>4, <1>6, <2>1, AsmValues
       DEF Asm!Footprint, Asm!SameBut
<1> QED
  BY <1>5, <1>7 DEF Good, v

(* An operation that emits nothing.                                        *)
LEMMA NothingGood ==
  ASSUME NEW c, NEW q, q = Here, Here \in State, Here.out = Fall,
         Asm!Sound(c) => c.op \in Asm!ToReg \cup Asm!ToXmm /\ c.d = R0
  PROVE  Good(c, q)
<1> DEFINE w == View(Here)
<1>1. w.r = Here.r /\ w.x = Here.x /\ w.m = Here.m /\ w.out = Here.out
  BY DEF View, State
<1>2. View(IF todo = <<>> THEN cpu ELSE base) = w
  BY DEF Here
<1> HIDE DEF w
<1>3. \A f, R : Asm!SameBut(f, f, R)
  BY DEF Asm!SameBut
<1>4. Asm!Footprint(c, w)
  BY <1>1, <1>2, <1>3 DEF Asm!Footprint, Fall
<1>5. ASSUME Asm!Sound(c) PROVE Asm!Meaning(c, w)
  <2>1. c.d = R0 /\ c.op \notin Asm!Stores /\ Asm!Exit(c) = Fall
    BY <1>5 DEF Asm!ToReg, Asm!ToXmm, Asm!Stores, Asm!Exit, Asm!Fall, Fall, Asm!Binary,
                Asm!Unary, Asm!Float, Asm!Float4
  <2> QED
    BY <1>1, <1>2, <1>3, <1>5, <2>1 DEF Asm!Meaning, Asm!R0, R0
<1> QED
  BY <1>4, <1>5 DEF Good, w

(* A processor that differs from b in register d only.                     *)
Sets(b, q, d, v) ==
  /\ q \in State
  /\ \A k \in Reg : q.r[k] = IF k = d THEN v ELSE b.r[k]
  /\ q.x = b.x /\ q.m = b.m /\ q.out = b.out

(* A register that is set to the result.                                   *)
LEMMA SetsGood ==
  ASSUME NEW c \in Calls, c.op \in Asm!ToReg, c.d # R0, Here \in State, Here.out = Fall,
         NEW v, NEW q, Sets(Here, q, c.d, v), Asm!Sound(c) => v = Asm!Result(c)
  PROVE  Good(c, q)
<1>1. c.d \in Reg
  BY CallFields DEF Number, R0, Reg
<1> QED
  BY <1>1, RegisterGood DEF Sets, Kept

(* An immediate zero sets a register to zero.                              *)
LEMMA SetZero ==
  ASSUME NEW b \in State, NEW d \in Reg, NEW im \in Field, NEW q,
         Reaches(<<MOVI32(d, im)>>, b, q)
  PROVE  Sets(b, q, d, Imm(im))
<1>1. q = Put(b, d, Imm(im))
  BY ReachesOne, ExecMoveImmediate
<1>2. Imm(im) \in Word
  BY DEF Field
<1> QED
  BY <1>1, <1>2, PutFacts DEF Sets

(* A move sets a register to another.                                      *)
LEMMA SetMove ==
  ASSUME NEW b \in State, NEW d \in Reg, NEW s \in Reg, NEW q
  PROVE  /\ Reaches(<<MOV(d, s)>>, b, q) => Sets(b, q, d, b.r[s])
         /\ Reaches(Assign(d, s), b, q) => Sets(b, q, d, b.r[s])
<1>1. b.r[s] \in Word
  BY StateFields
<1>2. ASSUME Reaches(<<MOV(d, s)>>, b, q) PROVE Sets(b, q, d, b.r[s])
  <2>1. q = Put(b, d, b.r[s])
    BY <1>2, ReachesOne, ExecMove
  <2> QED
    BY <1>1, <2>1, PutFacts DEF Sets
<1>3. ASSUME Reaches(<<>>, b, q), s = d PROVE Sets(b, q, d, b.r[s])
  <2>1. q = b
    BY <1>3, ReachesNone
  <2> QED
    BY <1>3, <2>1 DEF Sets
<1> QED
  BY <1>2, <1>3 DEF Assign, When

(* An assignment and an instruction that operates on the same register.    *)
LEMMA SetPair ==
  ASSUME NEW b \in State, b.out = Fall, NEW d \in Reg, NEW s \in Reg, NEW t \in Reg,
         NEW op \in AluOp, NEW i,
         \A p : Exec(i, p) = Put(p, d, Alu(op, p.r[d], p.r[t])),
         NEW q, Reaches(Assign(d, s) \o <<i>>, b, q)
  PROVE  Sets(b, q, d, Alu(op, b.r[s], IF t = d THEN b.r[s] ELSE b.r[t]))
<1> DEFINE y == IF t = d THEN b.r[s] ELSE b.r[t]
           v == Alu(op, b.r[s], y)
<1>1. b.r[s] \in Word /\ y \in Word
  BY StateFields
<1>2. v \in Word
  BY <1>1, WordTypes
<1>3. CASE s = d
  <2>1. Reaches(<<i>>, b, q)
    BY <1>3, Concat0 DEF Assign, When
  <2>2. q = Put(b, d, Alu(op, b.r[d], b.r[t]))
    BY <2>1, ReachesOne
  <2>3. q = Put(b, d, v)
    BY <1>3, <2>2
  <2> HIDE DEF v
  <2> QED
    BY <1>2, <2>3, PutFacts DEF Sets, v
<1>4. CASE s # d
  <2> DEFINE p == Put(b, d, b.r[s])
  <2>1. Exec(MOV(d, s), b) = p
    BY ExecMove
  <2>2. /\ p \in State /\ p.x = b.x /\ p.m = b.m /\ p.out = b.out
        /\ \A k \in Reg : p.r[k] = IF k = d THEN b.r[s] ELSE b.r[k]
    BY <1>1, PutFacts
  <2> HIDE DEF p
  <2>3. Reaches(<<MOV(d, s), i>>, b, q)
    BY <1>4, Concat1 DEF Assign, When
  <2>4. q = Exec(i, p)
    BY <2>1, <2>2, <2>3, ReachesTwo
  <2>5. q = Put(p, d, v)
    BY <2>2, <2>4
  <2> HIDE DEF v
  <2> QED
    BY <1>2, <2>2, <2>5, PutFacts DEF Sets, v
<1> QED
  BY <1>3, <1>4

(* A call that is not sound.                                               *)
LEMMA UnsoundGood ==
  ASSUME NEW c, ~ Asm!Sound(c), Here \in State, NEW q,
         NEW R, R \subseteq Asm!Touched(c),
         NEW M, M \subseteq {StackSlot(Here)} \/ c.op \in Asm!Stores,
         Kept(Here, q, R, M), Stays(q) \/ MayLose(c),
         \A k \in Reg : q.x[k] = Here.x[k] \/ (c.op \in Asm!ToXmm /\ k = c.d)
  PROVE  Good(c, q)
<1> DEFINE v == View(q)
           w == View(Here)
<1>1. /\ v.r = q.r /\ v.x = q.x /\ v.m = q.m /\ v.out = q.out
      /\ w.r = Here.r /\ w.x = Here.x /\ w.m = Here.m
      /\ DOMAIN w.r = Reg /\ DOMAIN w.m = Word /\ DOMAIN w.x = Reg
  BY DEF View, State
<1>2. View(IF todo = <<>> THEN cpu ELSE base) = w
  BY DEF Here
<1> HIDE DEF v, w
<1>3. Asm!SameBut(w.r, v.r, Asm!Touched(c))
  BY <1>1 DEF Asm!SameBut, Kept
<1>4. c.op \in Asm!Stores \/ Asm!SameBut(w.m, v.m, {StackSlot(Here)})
  BY <1>1 DEF Asm!SameBut, Kept
<1>5. Asm!SameBut(w.x, v.x, IF c.op \in Asm!ToXmm THEN {c.d} ELSE {})
  BY <1>1 DEF Asm!SameBut
<1>6. CASE Stays(q)
  <2>1. v.out[1] # "lost"
    BY <1>1, <1>6 DEF Stays
  <2>2. Asm!Footprint(c, v)
    BY <1>2, <1>3, <1>4, <1>5, <2>1, AsmValues DEF Asm!Footprint
  <2> QED
    BY <2>2 DEF Good, v
<1>7. CASE ~ Stays(q)
  BY <1>1, <1>7 DEF Good, Stays, v
<1> QED
  BY <1>6, <1>7

(* What an operation touches.                                              *)
LEMMA TouchedRegisters ==
  ASSUME NEW c
  PROVE  /\ 0 \in Asm!Touched(c)
         /\ c.op \in Asm!ToReg => (IF c.d = R0 THEN 7 ELSE c.d) \in Asm!Touched(c)
         /\ c.op \in {"SHIFTL", "SHIFTR"} /\ c.d # R0 => c.s \in Asm!Touched(c)
BY DEF Asm!Touched, Asm!ToReg, Asm!Binary, Asm!RE, Asm!A1, Asm!R0, R0

-----------------------------------------------------------------------------
(* Operations on general registers.                                        *)

(* A call, where it begins, and where its code stops.                      *)
Executed(c, q) ==
  /\ c \in Calls /\ Here \in State /\ Here.out = Fall
  /\ Reaches(Code(c), Here, q)

(* What a register number reads as.                                        *)
LEMMA Registers ==
  ASSUME NEW k \in Number, k # R0
  PROVE  k \in Reg /\ Asm!Val(k) = Here.r[k]
BY AsmValues DEF Number, Reg, R0

(* JIT_R0 reads as zero.                                                   *)
LEMMA ZeroReads == Asm!Val(R0) = Zero /\ Zero = Imm(0) /\ 0 \in Field
BY AsmValues, Names DEF R0, Zero

(* What operations on general registers compute.                           *)
LEMMA Results ==
  ASSUME NEW c
  PROVE  /\ c.op \in {"ADD", "SUB", "AND", "OR", "XOR"}
            => Asm!Result(c) = Alu(c.op, Asm!Val(c.s), Asm!Val(c.t))
         /\ c.op = "MUL"    => Asm!Result(c) = Alu("IMUL", Asm!Val(c.s), Asm!Val(c.t))
         /\ c.op = "SHIFTL" => Asm!Result(c) = Alu("SAL", Asm!Val(c.s), Asm!Val(c.t))
         /\ c.op = "SHIFTR" => Asm!Result(c) = Alu("SAR", Asm!Val(c.s), Asm!Val(c.t))
         /\ c.op = "ADDI"    => Asm!Result(c) = Alu("ADD", Asm!Val(c.s), Imm(c.i))
         /\ c.op = "SHIFTLI" => Asm!Result(c) = Alu("SAL", Asm!Val(c.s), Imm(c.i))
         /\ c.op = "SHIFTRI" => Asm!Result(c) = Alu("SAR", Asm!Val(c.s), Imm(c.i))
         /\ c.op = "DIV"     => Asm!Result(c) = Quotient(Asm!Val(c.s), Asm!Val(c.t))
         /\ c.op = "LESS"    => Asm!Result(c) = Bit(Less(Asm!Val(c.s), Asm!Val(c.t)))
         /\ c.op = "LOAD32"  => Asm!Result(c) = Low(32, Here.m[Asm!At(c.s, c.i)].lo)
         /\ c.op = "LOAD64"  => Asm!Result(c) = Here.m[Asm!At(c.s, c.i)].lo
         /\ c.op = "FTOI"    => Asm!Result(c) = ToInt(Here.x[c.s].lo)
<1>1. View(IF todo = <<>> THEN cpu ELSE base) = View(Here)
  BY DEF Here
<1>2. View(Here).m = Here.m /\ View(Here).x = Here.x
  BY DEF View
<1> QED
  BY <1>1, <1>2 DEF Asm!Result, Asm!Binary, Asm!Unary, Asm!Bit, Bit

(* The code that several operations share: d := 0, d := x, and an          *)
(* assignment with an instruction on the same register.                    *)
LEMMA ZeroGood ==
  ASSUME NEW c \in Calls, c.op \in Asm!ToReg, c.d # R0, Here \in State, Here.out = Fall,
         NEW q, Reaches(<<MOVI32(c.d, 0)>>, Here, q),
         Asm!Sound(c) => Asm!Result(c) = Zero
  PROVE  Good(c, q)
<1>1. c.d \in Reg
  BY CallFields, Registers
<1>2. Sets(Here, q, c.d, Zero)
  BY <1>1, SetZero, ZeroReads
<1> QED
  BY <1>2, SetsGood

(* An assignment alone, where that is the result.                          *)
LEMMA AssignGood ==
  ASSUME NEW c \in Calls, c.op \in Asm!ToReg, c.d # R0, Here \in State, Here.out = Fall,
         NEW s \in Reg, NEW q, Reaches(Assign(c.d, s), Here, q),
         Asm!Sound(c) => Asm!Result(c) = Here.r[s]
  PROVE  Good(c, q)
<1>1. c.d \in Reg
  BY CallFields, Registers
<1>2. Sets(Here, q, c.d, Here.r[s])
  BY <1>1, SetMove
<1> QED
  BY <1>2, SetsGood

(* An assignment and one instruction on the same register.                 *)
LEMMA PairGood ==
  ASSUME NEW c \in Calls, c.op \in Asm!ToReg, Here \in State, Here.out = Fall,
         c.d # R0, c.s # R0, c.t # R0, NEW op \in AluOp, NEW i,
         \A p : Exec(i, p) = Put(p, c.d, Alu(op, p.r[c.d], p.r[c.t])),
         NEW q, Reaches(Assign(c.d, c.s) \o <<i>>, Here, q),
         Asm!Sound(c) => c.t # c.d \/ c.s = c.d,
         Asm!Result(c) = Alu(op, Asm!Val(c.s), Asm!Val(c.t))
  PROVE  Good(c, q)
<1>1. c.d \in Reg /\ c.s \in Reg /\ c.t \in Reg
  BY CallFields, Registers
<1>2. Sets(Here, q, c.d,
           Alu(op, Here.r[c.s], IF c.t = c.d THEN Here.r[c.s] ELSE Here.r[c.t]))
  BY <1>1, SetPair
<1>3. Asm!Result(c) = Alu(op, Here.r[c.s], Here.r[c.t])
  BY CallFields, Registers
<1> QED
  BY <1>2, <1>3, SetsGood

(* JIT_ADD and JIT_SUB end as JitAsm says.                                 *)
LEMMA AdditiveGood ==
  ASSUME NEW c, NEW q, Executed(c, q), c.op \in {"ADD", "SUB"}
  PROVE  Good(c, q)
<1>1. /\ c \in Calls /\ Here \in State /\ Here.out = Fall
      /\ Reaches(Additive(c.op, c.d, c.s, c.t), Here, q)
      /\ c.op \in Asm!ToReg
  BY EmitCases DEF Executed, JIT_ADD, JIT_SUB, Asm!ToReg, Asm!Binary
<1>2. c.d \in Number /\ c.s \in Number /\ c.t \in Number
  BY <1>1, CallFields
<1>3. Asm!Sound(c) => c.d = R0 \/ Asm!SoundBinary(c)
  BY <1>1 DEF Asm!Sound, Asm!Binary, Asm!R0, R0
<1>4. CASE c.d = R0
  BY <1>1, <1>4, ReachesNone, NothingGood DEF Additive, When
<1>5. CASE c.d # R0 /\ c.s = R0 /\ c.t = R0
  <2>1. Asm!Result(c) = Zero
    BY <1>1, <1>5, Results, ZeroReads, WordLaws, Constants
  <2> QED
    BY <1>1, <1>5, <2>1, ZeroGood DEF Additive, When
<1>6. CASE c.d # R0 /\ c.s = R0 /\ c.t # R0
  <2>1. c.op = "ADD" => Asm!Result(c) = Here.r[c.t]
    BY <1>1, <1>2, <1>6, Results, Registers, ZeroReads, WordLaws, StateFields
  <2>2. Asm!Sound(c) => c.op # "SUB"
    BY <1>3, <1>6 DEF Asm!SoundBinary, Asm!R0, R0
  <2>3. c.t \in Reg
    BY <1>2, <1>6, Registers
  <2> QED
    BY <1>1, <1>6, <2>1, <2>2, <2>3, AssignGood DEF Additive, When
<1>7. CASE c.d # R0 /\ c.s # R0 /\ c.t = R0
  <2>1. Asm!Result(c) = Here.r[c.s] /\ c.s \in Reg
    BY <1>1, <1>2, <1>7, Results, Registers, ZeroReads, WordLaws, StateFields
  <2> QED
    BY <1>1, <1>7, <2>1, AssignGood DEF Additive, When
<1>8. CASE c.d # R0 /\ c.s # R0 /\ c.t # R0
  <2>1. Reaches(Assign(c.d, c.s) \o <<RR(c.op, c.d, c.t)>>, Here, q)
    BY <1>1, <1>8 DEF Additive, When
  <2>2. c.op \in AluOp
    BY <1>1 DEF AluOp
  <2>3. \A p : Exec(RR(c.op, c.d, c.t), p) = Put(p, c.d, Alu(c.op, p.r[c.d], p.r[c.t]))
    BY <1>2, <1>8, Registers, ExecAlu
  <2>4. Asm!Sound(c) => c.t # c.d \/ c.s = c.d
    BY <1>3, <1>8 DEF Asm!SoundBinary, Asm!Survives, Asm!R0, R0
  <2>5. Asm!Result(c) = Alu(c.op, Asm!Val(c.s), Asm!Val(c.t))
    BY Results
  <2> QED
    BY <1>1, <1>8, <2>1, <2>2, <2>3, <2>4, <2>5, PairGood
<1> QED
  BY <1>4, <1>5, <1>6, <1>7, <1>8

(* JIT_MUL does.                                                           *)
LEMMA MultiplyGood ==
  ASSUME NEW c, NEW q, Executed(c, q), c.op = "MUL"
  PROVE  Good(c, q)
<1>1. /\ c \in Calls /\ Here \in State /\ Here.out = Fall
      /\ Reaches(JIT_MUL(c.d, c.s, c.t), Here, q)
      /\ c.op \in Asm!ToReg
  BY EmitCases DEF Executed, Asm!ToReg, Asm!Binary
<1>2. c.d \in Number /\ c.s \in Number /\ c.t \in Number
  BY <1>1, CallFields
<1>3. CASE c.d = R0
  BY <1>1, <1>3, ReachesNone, NothingGood DEF JIT_MUL, When
<1>4. CASE c.d # R0 /\ R0 \in {c.s, c.t}
  <2>1. Asm!Val(c.s) \in Word /\ Asm!Val(c.t) \in Word
    BY <1>1, <1>2, Registers, ZeroReads, StateFields, Constants
  <2>2. Asm!Result(c) = Zero
    BY <1>4, <2>1, Results, ZeroReads, WordLaws
  <2> QED
    BY <1>1, <1>4, <2>2, ZeroGood DEF JIT_MUL, When
<1>5. CASE c.d # R0 /\ c.s # R0 /\ c.t # R0
  <2>1. Reaches(Assign(c.d, c.s) \o <<RR0("IMUL", c.d, c.t)>>, Here, q)
    BY <1>1, <1>5 DEF JIT_MUL, When
  <2>2. "IMUL" \in AluOp
    BY DEF AluOp
  <2>3. \A p : Exec(RR0("IMUL", c.d, c.t), p)
              = Put(p, c.d, Alu("IMUL", p.r[c.d], p.r[c.t]))
    BY <1>2, <1>5, Registers, ExecMultiply
  <2>4. Asm!Sound(c) => c.t # c.d \/ c.s = c.d
    BY <1>5 DEF Asm!Sound, Asm!Binary, Asm!SoundBinary, Asm!Survives, Asm!R0, R0
  <2>5. Asm!Result(c) = Alu("IMUL", Asm!Val(c.s), Asm!Val(c.t))
    BY Results
  <2> QED
    BY <1>1, <1>5, <2>1, <2>2, <2>3, <2>4, <2>5, PairGood
<1> QED
  BY <1>3, <1>4, <1>5

(* JIT_AND, JIT_OR and JIT_XOR do.                                         *)
LEMMA LogicGood ==
  ASSUME NEW c, NEW q, Executed(c, q), c.op \in {"AND", "OR", "XOR"}
  PROVE  Good(c, q)
<1>1. /\ c \in Calls /\ Here \in State /\ Here.out = Fall
      /\ Reaches(JIT_LOGIC(c.op, c.d, c.s, c.t), Here, q)
      /\ c.op \in Asm!ToReg
  BY EmitCases DEF Executed, Asm!ToReg, Asm!Binary
<1>2. c.d \in Number /\ c.s \in Number /\ c.t \in Number
  BY <1>1, CallFields
<1>3. Asm!Sound(c) => c.d = R0 \/ Asm!SoundBinary(c)
  BY <1>1 DEF Asm!Sound, Asm!Binary, Asm!R0, R0
<1>4. CASE c.d = R0
  BY <1>1, <1>4, ReachesNone, NothingGood DEF JIT_LOGIC, When
<1>5. CASE c.d # R0 /\ c.s = R0 /\ c.t = R0
  <2>1. Asm!Result(c) = Zero
    BY <1>1, <1>5, Results, ZeroReads, WordLaws, Constants
  <2> QED
    BY <1>1, <1>5, <2>1, ZeroGood DEF JIT_LOGIC, When
<1>6. CASE c.d # R0 /\ c.s # R0 /\ c.s = c.t
  <2>1. Asm!Sound(c) => c.op # "XOR"
    BY <1>3, <1>6 DEF Asm!SoundBinary, Asm!R0, R0
  <2>2. c.op # "XOR" => Asm!Result(c) = Here.r[c.s]
    BY <1>1, <1>2, <1>6, Results, Registers, WordLaws, StateFields
  <2>3. c.s \in Reg
    BY <1>2, <1>6, Registers
  <2> QED
    BY <1>1, <1>6, <2>1, <2>2, <2>3, AssignGood DEF JIT_LOGIC, When
<1>7. CASE c.d # R0 /\ c.s = R0 /\ c.t # R0
  <2>1. Asm!Sound(c) => c.op # "AND"
    BY <1>3, <1>7 DEF Asm!SoundBinary, Asm!R0, R0
  <2>2. c.op # "AND" => Asm!Result(c) = Here.r[c.t]
    BY <1>1, <1>2, <1>7, Results, Registers, ZeroReads, WordLaws, StateFields
  <2>3. c.t \in Reg
    BY <1>2, <1>7, Registers
  <2> QED
    BY <1>1, <1>7, <2>1, <2>2, <2>3, AssignGood DEF JIT_LOGIC, When
<1>8. CASE c.d # R0 /\ c.s # R0 /\ c.t = R0
  <2>1. Asm!Sound(c) => c.op # "AND"
    BY <1>3, <1>8 DEF Asm!SoundBinary, Asm!R0, R0
  <2>2. c.op # "AND" => Asm!Result(c) = Here.r[c.s]
    BY <1>1, <1>2, <1>8, Results, Registers, ZeroReads, WordLaws, StateFields
  <2>3. c.s \in Reg
    BY <1>2, <1>8, Registers
  <2> QED
    BY <1>1, <1>8, <2>1, <2>2, <2>3, AssignGood DEF JIT_LOGIC, When
<1>9. CASE c.d # R0 /\ c.s # R0 /\ c.t # R0 /\ c.s # c.t
  <2>1. Reaches(Assign(c.d, c.s) \o <<RR(c.op, c.d, c.t)>>, Here, q)
    BY <1>1, <1>9 DEF JIT_LOGIC, When
  <2>2. c.op \in AluOp
    BY <1>1 DEF AluOp
  <2>3. \A p : Exec(RR(c.op, c.d, c.t), p) = Put(p, c.d, Alu(c.op, p.r[c.d], p.r[c.t]))
    BY <1>2, <1>9, Registers, ExecAlu
  <2>4. Asm!Sound(c) => c.t # c.d \/ c.s = c.d
    BY <1>3, <1>9 DEF Asm!SoundBinary, Asm!Survives, Asm!R0, R0
  <2>5. Asm!Result(c) = Alu(c.op, Asm!Val(c.s), Asm!Val(c.t))
    BY Results
  <2> QED
    BY <1>1, <1>9, <2>1, <2>2, <2>3, <2>4, <2>5, PairGood
<1> QED
  BY <1>4, <1>5, <1>6, <1>7, <1>8, <1>9

(* JIT_ADDI does, where it emits the sum.                                  *)
LEMMA AddImmediateGood ==
  ASSUME NEW c, NEW q, Executed(c, q), c.op = "ADDI"
  PROVE  Good(c, q)
<1>1. /\ c \in Calls /\ Here \in State /\ Here.out = Fall
      /\ Reaches(JIT_ADDI(c.d, c.s, c.i), Here, q)
      /\ c.op \in Asm!ToReg
  BY EmitCases DEF Executed, Asm!ToReg, Asm!Unary
<1>2. c.d \in Number /\ c.s \in Number /\ c.i \in Field
  BY <1>1, CallFields
<1>3. Asm!Sound(c) => c.d # R0 /\ c.s = R0
  BY DEF Asm!Sound, Asm!R0, R0
<1>4. CASE c.d # R0 /\ c.s = R0
  <2>1. Asm!Result(c) = Imm(c.i)
    BY <1>2, <1>4, Results, ZeroReads, WordLaws DEF Field
  <2>2. Sets(Here, q, c.d, Imm(c.i))
    BY <1>1, <1>2, <1>4, Registers, SetZero DEF JIT_ADDI, When
  <2> QED
    BY <1>1, <1>4, <2>1, <2>2, SetsGood
<1>5. CASE c.d # R0 /\ c.s # R0
  BY <1>1, <1>3, <1>5, ReachesNone, NothingGood DEF JIT_ADDI, When
<1>6. CASE c.d = R0
  <2> DEFINE K == Kept(Here, q, {7}, {}) /\ q.x = Here.x /\ q.out = Fall
  <2>1. ASSUME NEW p \in State, NEW k \in Int, NEW x
        PROVE  /\ Exec(MOV(c.d, k), p).r = [p.r EXCEPT ![7] = p.r[Enc(k)]]
               /\ Exec(MOV(c.d, k), p).x = p.x /\ Exec(MOV(c.d, k), p).m = p.m
               /\ Exec(MOV(c.d, k), p).out = p.out
    <3>1. Exec(MOV(c.d, k), p) = Put(p, 7, p.r[Enc(k)])
      BY <1>6, ExecCases, EncValue DEF MOV, RR, I, RRs, ExecRR, R0, Number
    <3> QED
      BY <3>1 DEF Put, State
  <2>2. c.i \in Int /\ c.s \in Int
    BY <1>2 DEF Field, Number
  <2> DEFINE a == MOV(c.d, c.s)
             e == MOV(c.d, c.i)
  <2>3. \/ Reaches(<<>>, Here, q) \/ Reaches(<<a>>, Here, q)
        \/ Reaches(<<e>>, Here, q) \/ Reaches(<<a, e>>, Here, q)
    BY <1>1, <1>6, Concat0, Concat1 DEF JIT_ADDI, Assign, When
  <2>4. Exec(a, Here) \in State
    BY <1>2, <1>1, ExecType, MoreFormats DEF Straight
  <2>5. /\ Exec(a, Here).out = Fall
        /\ Kept(Here, Exec(a, Here), {7}, {}) /\ Exec(a, Here).x = Here.x
        /\ Kept(Here, Exec(e, Here), {7}, {}) /\ Exec(e, Here).x = Here.x
        /\ Exec(e, Here).out = Fall
    BY <1>1, <2>1, <2>2 DEF Kept, State
  <2>6. /\ Kept(Here, Exec(e, Exec(a, Here)), {7}, {})
        /\ Exec(e, Exec(a, Here)).x = Here.x /\ Exec(e, Exec(a, Here)).out = Fall
    <3>1. PICK b : b = Exec(a, Here)
      OBVIOUS
    <3>2. b \in State /\ Kept(Here, b, {7}, {}) /\ b.x = Here.x /\ b.out = Fall
      BY <2>4, <2>5, <3>1
    <3>3. PICK b2 : b2 = Exec(e, b)
      OBVIOUS
    <3>4. /\ b2.r = [b.r EXCEPT ![7] = b.r[Enc(c.i)]]
          /\ b2.x = b.x /\ b2.m = b.m /\ b2.out = Fall
      BY <2>1, <2>2, <3>2, <3>3
    <3>5. Kept(b, b2, {7}, {})
      BY <3>2, <3>4 DEF Kept, State
    <3>6. Kept(Here, b2, {7}, {}) /\ b2.x = Here.x /\ b2.out = Fall
      BY <3>2, <3>4, <3>5 DEF Kept
    <3> QED
      BY <3>1, <3>3, <3>6
  <2> HIDE DEF a, e
  <2>7. K
    BY <1>1, <2>3, <2>5, <2>6, ReachesNone, ReachesOne, ReachesTwo DEF Kept
  <2>8. Stays(q)
    BY <2>7 DEF Stays, Fall
  <2> QED
    BY <1>1, <1>3, <1>6, <2>7, <2>8, TouchedRegisters, UnsoundGood
<1> QED
  BY <1>4, <1>5, <1>6

(* JIT_SHIFTLI and JIT_SHIFTRI do.                                         *)
LEMMA ShiftImmediateGood ==
  ASSUME NEW c, NEW q, Executed(c, q), c.op \in {"SHIFTLI", "SHIFTRI"}
  PROVE  Good(c, q)
<1> DEFINE op == IF c.op = "SHIFTLI" THEN "SALI" ELSE "SARI"
           alu == IF c.op = "SHIFTLI" THEN "SAL" ELSE "SAR"
<1>1. /\ c \in Calls /\ Here \in State /\ Here.out = Fall
      /\ Reaches(JIT_SHIFTI(op, c.d, c.s, c.i), Here, q)
      /\ c.op \in Asm!ToReg
  BY EmitCases DEF Executed, Asm!ToReg, Asm!Unary
<1>2. c.d \in Number /\ c.s \in Number /\ c.i \in Field /\ Imm(c.i) \in Word
  BY <1>1, CallFields DEF Field
<1>3. Asm!Sound(c) => R0 \in {c.d, c.s}
  BY DEF Asm!Sound, Asm!Unary, Asm!R0, R0
<1>4. Asm!Result(c) = Alu(alu, Asm!Val(c.s), Imm(c.i)) /\ alu \in AluOp
  BY Results DEF AluOp
<1>5. CASE c.d = R0
  BY <1>1, <1>5, ReachesNone, NothingGood DEF JIT_SHIFTI, When
<1>6. CASE c.d # R0 /\ c.s = R0
  <2>1. Asm!Result(c) = Zero
    BY <1>2, <1>4, <1>6, ZeroReads, WordLaws
  <2> QED
    BY <1>1, <1>6, <2>1, ZeroGood DEF JIT_SHIFTI, When
<1>7. CASE c.d # R0 /\ c.s # R0 /\ c.i # R0
  BY <1>1, <1>3, <1>7, ReachesNone, NothingGood DEF JIT_SHIFTI, When
<1>8. CASE c.d # R0 /\ c.s # R0 /\ c.i = R0
  <2> DEFINE e == RI8(op, c.d, c.i)
             a == MOVI32(c.d, c.s)
  <2>1. c.d \in Reg /\ c.s \in Number /\ Imm(c.s) \in Word
    BY <1>2, <1>8, Registers, NumbersAreFields DEF Field
  <2>2. ASSUME NEW p \in State
        PROVE  Exec(e, p) \in State /\ Kept(p, Exec(e, p), {c.d}, {})
               /\ Exec(e, p).x = p.x /\ Exec(e, p).out = p.out
    <3>1. Exec(e, p) = Put(p, c.d, Alu(alu, p.r[c.d], Imm(c.i)))
      BY <2>1, ExecCases, EncReg DEF RI8, I, RRs, ExecRR
    <3>2. Alu(alu, p.r[c.d], Imm(c.i)) \in Word
      BY <1>2, <1>4, <2>1, StateFields, WordTypes
    <3> HIDE DEF alu, e
    <3> QED
      BY <2>1, <3>1, <3>2, PutFacts DEF Kept
  <2>3. Exec(a, Here) = Put(Here, c.d, Imm(c.s))
    BY <2>1, ExecMoveImmediate
  <2>4. /\ Exec(a, Here) \in State /\ Kept(Here, Exec(a, Here), {c.d}, {})
        /\ Exec(a, Here).x = Here.x /\ Exec(a, Here).out = Fall
    BY <1>1, <2>1, <2>3, PutFacts DEF Kept
  <2>5. Reaches(<<e>>, Here, q) \/ Reaches(<<a, e>>, Here, q)
    BY <1>1, <1>8, Concat0, Concat1 DEF JIT_SHIFTI, When
  <2> HIDE DEF a, e
  <2>6. q = Exec(e, Here) \/ q = Exec(e, Exec(a, Here))
    BY <2>4, <2>5, ReachesOne, ReachesTwo
  <2>7. Kept(Here, q, {c.d}, {}) /\ q.x = Here.x /\ Stays(q)
    BY <1>1, <2>2, <2>4, <2>6 DEF Kept, Stays, Fall
  <2> QED
    BY <1>1, <1>3, <1>8, <2>7, TouchedRegisters, UnsoundGood
<1> QED
  BY <1>5, <1>6, <1>7, <1>8

(* Conversions and the instructions of the divider, stack and flags.       *)
LEMMA ExecToInteger ==
  ASSUME NEW p, NEW d \in Reg, NEW s \in Reg
  PROVE  Exec(RRF("CVTSS2SI", d, s), p) = Put(p, d, ToInt(p.x[s].lo))
<1> DEFINE i == RRF("CVTSS2SI", d, s)
<1>1. i.op = "CVTSS2SI" /\ i.rm = s /\ i.reg = d
  BY EncReg, IParts DEF RRF
<1> HIDE DEF i
<1>2. i.op \notin DOMAIN ScalarOp /\ i.op \notin DOMAIN PackedOp /\ i.op \in Floats
  BY <1>1 DEF ScalarOp, PackedOp, Floats
<1>3. Exec(i, p) = ExecFloat(i, p)
  BY <1>2, ExecCases
<1> QED
  BY <1>1, <1>2, <1>3 DEF ExecFloat, i

(* The integer conversion.                                                 *)
LEMMA ToIntegerGood ==
  ASSUME NEW c, NEW q, Executed(c, q), c.op = "FTOI"
  PROVE  Good(c, q)
<1>1. /\ c \in Calls /\ Here \in State /\ Here.out = Fall
      /\ Reaches(JIT_FTOI(c.d, c.s), Here, q)
      /\ c.op \in Asm!ToReg
  BY EmitCases DEF Executed, Asm!ToReg
<1>2. c.d \in Number /\ c.s \in Number /\ c.s # R0
  BY <1>1, CallFields, CallTypes DEF R0
<1>3. CASE c.d = R0
  BY <1>1, <1>3, ReachesNone, NothingGood DEF JIT_FTOI, When
<1>4. CASE c.d # R0
  <2>1. c.d \in Reg /\ c.s \in Reg
    BY <1>2, <1>4, Registers
  <2>2. q = Put(Here, c.d, ToInt(Here.x[c.s].lo))
    <3>1. Reaches(<<RRF("CVTSS2SI", c.d, c.s)>>, Here, q)
      BY <1>1, <1>4 DEF JIT_FTOI, When
    <3>2. q = Exec(RRF("CVTSS2SI", c.d, c.s), Here)
      BY <3>1, ReachesOne
    <3> QED
      BY <2>1, <3>2, ExecToInteger
  <2>3. ToInt(Here.x[c.s].lo) \in Word
    <3>1. Here.x[c.s] \in Lanes
      BY <1>1, <2>1, StateFields
    <3>2. Here.x[c.s].lo \in Word
      BY <3>1, LanesFields
    <3> QED
      BY <3>2, WordTypes
  <2>4. Sets(Here, q, c.d, ToInt(Here.x[c.s].lo))
    BY <1>1, <2>1, <2>2, <2>3, PutFacts DEF Sets
  <2>5. Asm!Result(c) = ToInt(Here.x[c.s].lo)
    BY Results
  <2> QED
    BY <1>1, <1>4, <2>4, <2>5, SetsGood
<1> QED
  BY <1>3, <1>4

(* An operation that assigns no general register.                          *)
LEMMA StepGood ==
  ASSUME NEW c, c.op \notin Asm!ToReg, Here \in State, NEW q, q.x \in [Reg -> Lanes],
         NEW M, M \subseteq {StackSlot(Here)} \/ c.op \in Asm!Stores,
         Kept(Here, q, {0}, M), Stays(q) \/ MayLose(c),
         c.op \in Asm!ToXmm => c.d # R0,
         \A k \in Reg : q.x[k] = Here.x[k] \/ (c.op \in Asm!ToXmm /\ k = c.d),
         Asm!Sound(c) => /\ c.op \in Asm!ToXmm => q.x[c.d] = Asm!ResultX(c)
                         /\ c.op \in Asm!Stores => q.m = Asm!Stored(c)
                         /\ q.out = Asm!Exit(c)
  PROVE  Good(c, q)
<1> DEFINE v == View(q)
           w == View(Here)
<1>1. /\ v.r = q.r /\ v.x = q.x /\ v.m = q.m /\ v.out = q.out
      /\ w.r = Here.r /\ w.x = Here.x /\ w.m = Here.m
      /\ DOMAIN w.r = Reg /\ DOMAIN w.m = Word /\ w.x \in [Reg -> Lanes]
  BY DEF View, State
<1>2. View(IF todo = <<>> THEN cpu ELSE base) = w
  BY DEF Here
<1> HIDE DEF v, w
<1>3. ASSUME Asm!Sound(c) PROVE Asm!Meaning(c, v)
  <2>1. Asm!SameBut(w.r, v.r, {0})
    BY <1>1 DEF Asm!SameBut, Kept
  <2>2. IF c.op \in Asm!ToXmm THEN v.x = [w.x EXCEPT ![c.d] = Asm!ResultX(c)]
                              ELSE v.x = w.x
    BY <1>1, <1>3
  <2>3. IF c.op \in Asm!Stores THEN v.m = Asm!Stored(c)
                               ELSE Asm!SameBut(w.m, v.m, {StackSlot(Here)})
    BY <1>1, <1>3 DEF Asm!SameBut, Kept
  <2>4. v.out = Asm!Exit(c)
    BY <1>1, <1>3
  <2> QED
    BY <1>2, <2>1, <2>2, <2>3, <2>4, AsmValues DEF Asm!Meaning, Asm!RE, Asm!R0, R0
<1>4. CASE Asm!Sound(c)
  BY <1>3, <1>4 DEF Good, v
<1>5. CASE ~ Asm!Sound(c)
  BY <1>5, TouchedRegisters, UnsoundGood
<1> QED
  BY <1>4, <1>5

-----------------------------------------------------------------------------
(* The stack: shifts and divisions save a register there.                  *)

(* PUSH.                                                                   *)
LEMMA ExecPush ==
  ASSUME NEW p \in State, NEW k \in Reg, NEW q, q = Exec(PUSH(k), p)
  PROVE  /\ q \in State /\ q.x = p.x /\ q.out = p.out
         /\ \A j \in Reg : q.r[j] = IF j = RSP THEN StackSlot(p) ELSE p.r[j]
         /\ \A a \in Word \ {StackSlot(p)} : q.m[a] = p.m[a]
         /\ q.m[StackSlot(p)].lo = p.r[k] /\ StackSlot(p) \in Word
<1> DEFINE s == StackSlot(p)
           i == PUSH(k)
<1>1. i.op = "PUSH" /\ i.rm = k
  BY IParts, EncReg DEF PUSH
<1> HIDE DEF i
<1>2. s \in Word /\ p.r[k] \in Word
  BY StateFields, Constants, WordTypes DEF StackSlot, AluOp
<1>3. Put(p, RSP, s) \in State
  BY <1>2, PutFacts, Constants
<1>4. q = [Put(p, RSP, s) EXCEPT !.m[s].lo = p.r[k]]
  BY <1>1, ExecCases DEF ExecStack, i
<1> DEFINE b == Put(p, RSP, s)
<1>5. /\ b.x = p.x /\ b.m = p.m /\ b.out = p.out
      /\ \A j \in Reg : b.r[j] = IF j = RSP THEN s ELSE p.r[j]
  BY <1>2, PutFacts, Constants
<1>6. b \in State
  BY <1>3
<1> HIDE DEF b, s
<1>7. b.m[s] \in Lanes
  BY <1>2, <1>6, StateFields
<1> DEFINE v == [b.m[s] EXCEPT !.lo = p.r[k]]
<1>8. v \in Lanes /\ v.lo = p.r[k]
  BY <1>2, <1>7, LanesFields DEF Lanes
<1>9. q = [b EXCEPT !.m[s] = v]
  BY <1>4, <1>6 DEF b, State
<1> HIDE DEF v
<1>10. q \in State
  BY <1>2, <1>6, <1>8, <1>9, MemoryType
<1>11. /\ q.r = b.r /\ q.x = b.x /\ q.out = b.out
       /\ \A a \in Word : q.m[a] = IF a = s THEN v ELSE b.m[a]
  BY <1>2, <1>6, <1>9 DEF State
<1> QED
  BY <1>2, <1>5, <1>8, <1>10, <1>11 DEF s

(* q is p after PUSH of register k.                                        *)
Pushed(p, q, k) ==
  /\ q \in State /\ q.x = p.x /\ q.out = p.out
  /\ \A j \in Reg : q.r[j] = IF j = RSP THEN StackSlot(p) ELSE p.r[j]
  /\ \A a \in Word \ {StackSlot(p)} : q.m[a] = p.m[a]
  /\ q.m[StackSlot(p)].lo = p.r[k] /\ StackSlot(p) \in Word

(* PUSH, by that name.                                                     *)
LEMMA Pushes ==
  ASSUME NEW p \in State, NEW k \in Reg
  PROVE  Pushed(p, Exec(PUSH(k), p), k)
BY ExecPush DEF Pushed

(* POP of another register than the stack pointer.                         *)
LEMMA ExecPop ==
  ASSUME NEW p \in State, NEW k \in Reg, k # RSP, NEW q, q = Exec(POP(k), p)
  PROVE  /\ q \in State /\ q.x = p.x /\ q.m = p.m /\ q.out = p.out
         /\ \A j \in Reg : q.r[j] = IF j = k THEN p.m[p.r[RSP]].lo
                                    ELSE IF j = RSP THEN Alu("ADD", p.r[RSP], Imm(8))
                                    ELSE p.r[j]
<1> DEFINE i == POP(k)
           up == Alu("ADD", p.r[RSP], Imm(8))
           v == p.m[p.r[RSP]].lo
<1>1. i.op = "POP" /\ i.rm = k
  BY IParts, EncReg DEF POP
<1>2. p.r[RSP] \in Word /\ p.m[p.r[RSP]] \in Lanes
  BY StateFields, Constants
<1>3. up \in Word /\ v \in Word
  BY <1>2, Constants, WordTypes, LanesFields DEF AluOp
<1>4. q = Put(Put(p, RSP, up), k, v)
  BY <1>1, ExecCases DEF ExecStack
<1> HIDE DEF i, up, v
<1> DEFINE b == Put(p, RSP, up)
<1>5. /\ b \in State /\ b.x = p.x /\ b.m = p.m /\ b.out = p.out
      /\ \A j \in Reg : b.r[j] = IF j = RSP THEN up ELSE p.r[j]
  BY <1>3, PutFacts, Constants
<1>6. q = Put(b, k, v)
  BY <1>4
<1> HIDE DEF b
<1>7. /\ q \in State /\ q.x = b.x /\ q.m = b.m /\ q.out = b.out
      /\ \A j \in Reg : q.r[j] = IF j = k THEN v ELSE b.r[j]
  BY <1>3, <1>5, <1>6, PutFacts
<1> QED
  BY <1>5, <1>7 DEF up, v

(* q is p after POP of register k.                                         *)
Popped(p, q, k) ==
  /\ q \in State /\ q.x = p.x /\ q.m = p.m /\ q.out = p.out
  /\ \A j \in Reg : q.r[j] = IF j = k THEN p.m[p.r[RSP]].lo
                             ELSE IF j = RSP THEN Alu("ADD", p.r[RSP], Imm(8))
                             ELSE p.r[j]

(* POP, by that name.                                                      *)
LEMMA Pops ==
  ASSUME NEW p \in State, NEW k \in Reg, k # RSP
  PROVE  Popped(p, Exec(POP(k), p), k)
BY ExecPop DEF Popped

(* What the stack pointer loses to a PUSH it gets back from the POP.       *)
LEMMA SlotBelow ==
  ASSUME NEW p \in State
  PROVE  Alu("ADD", StackSlot(p), Imm(8)) = p.r[RSP]
<1>1. p.r[RSP] \in Word /\ Imm(8) \in Word
  BY StateFields, Constants
<1> QED
  BY <1>1, WordLaws DEF StackSlot

(* What the code of a shift leaves when it begins in b.                    *)
Shifted(b, b1, b2, b3, q, op, d, t) ==
  /\ b1.out = Fall /\ b2.out = Fall /\ b3.out = Fall
  /\ q.out = Fall /\ q.x = b.x /\ Kept(b, q, {d}, {StackSlot(b)})
  /\ d # RCX /\ t # RSP => q.r[d] = Alu(op, b.r[d], b.r[t])

(* The code of a shift behind the assignment: rcx is saved on the stack.   *)
LEMMA ShiftBody ==
  ASSUME NEW b \in State, b.out = Fall, NEW d \in Reg, d # RSP, NEW t \in Reg,
         NEW op \in {"SAL", "SAR"},
         NEW b1, b1 = Exec(PUSH(RCX), b),
         NEW b2, b2 = Exec(MOV(RCX, t), b1),
         NEW b3, b3 = Exec(RR(op, d, 0), b2),
         NEW b4, b4 = Exec(POP(RCX), b3)
  PROVE  Shifted(b, b1, b2, b3, b4, op, d, t)
<1>0. Pushed(b, b1, RCX)
  BY Pushes, Constants
<1>1. /\ b1 \in State /\ b1.x = b.x /\ b1.out = Fall
      /\ \A j \in Reg : b1.r[j] = IF j = RSP THEN StackSlot(b) ELSE b.r[j]
      /\ \A a \in Word \ {StackSlot(b)} : b1.m[a] = b.m[a]
      /\ b1.m[StackSlot(b)].lo = b.r[RCX] /\ StackSlot(b) \in Word
  BY <1>0 DEF Pushed
<1>2. /\ b2 \in State /\ b2.x = b.x /\ b2.out = Fall /\ b2.m = b1.m
      /\ \A j \in Reg : b2.r[j] = IF j = RCX THEN b1.r[t] ELSE b1.r[j]
  <2>1. b2 = Put(b1, RCX, b1.r[t]) /\ b1.r[t] \in Word
    BY <1>1, ExecMove, Constants, StateFields
  <2>2. Wrote(b1, b2, RCX, b1.r[t])
    BY <1>1, <2>1, Writes, Constants
  <2> QED
    BY <1>1, <2>2 DEF Wrote
<1> DEFINE v == Alu(op, b2.r[d], b2.r[RCX])
<1>3. /\ b3 \in State /\ b3.x = b.x /\ b3.out = Fall /\ b3.m = b1.m
      /\ \A j \in Reg : b3.r[j] = IF j = d THEN v ELSE b2.r[j]
  <2>1. b3 = Put(b2, d, v)
    BY ExecShift
  <2>2. v \in Word
    BY <1>2, StateFields, Constants, WordTypes DEF AluOp
  <2> HIDE DEF v
  <2> QED
    BY <1>2, <2>1, <2>2, PutFacts
<1>4. RCX # RSP /\ RCX \in Reg /\ RSP \in Reg
  BY DEF RCX, RSP, Reg
<1>10. Popped(b3, b4, RCX)
  BY <1>3, <1>4, Pops
<1>5. /\ b4 \in State /\ b4.x = b3.x /\ b4.m = b3.m /\ b4.out = b3.out
      /\ \A j \in Reg : b4.r[j] = IF j = RCX THEN b3.m[b3.r[RSP]].lo
                                  ELSE IF j = RSP THEN Alu("ADD", b3.r[RSP], Imm(8))
                                  ELSE b3.r[j]
  BY <1>10 DEF Popped
<1>6. b3.r[RSP] = StackSlot(b)
  BY <1>1, <1>2, <1>3, <1>4
<1>7. b4.r[RSP] = b.r[RSP] /\ b4.r[RCX] = b.r[RCX]
  BY <1>1, <1>3, <1>4, <1>5, <1>6, SlotBelow
<1>8. \A j \in Reg \ {d} : b4.r[j] = b.r[j]
  BY <1>1, <1>2, <1>3, <1>4, <1>5, <1>7
<1>9. ASSUME d # RCX, t # RSP PROVE b4.r[d] = Alu(op, b.r[d], b.r[t])
  <2>1. b2.r[d] = b.r[d] /\ b2.r[RCX] = b.r[t]
    BY <1>1, <1>2, <1>4, <1>9
  <2> QED
    BY <1>3, <1>5, <1>9, <2>1
<1> QED
  BY <1>1, <1>2, <1>3, <1>5, <1>8, <1>9 DEF Kept, Shifted

(* JIT_SHIFTL and JIT_SHIFTR do, with rcx saved around the shift.          *)
LEMMA ShiftGood ==
  ASSUME NEW c, NEW q, Executed(c, q), c.op \in {"SHIFTL", "SHIFTR"}
  PROVE  Good(c, q)
<1> DEFINE op == IF c.op = "SHIFTL" THEN "SAL" ELSE "SAR"
<1>1. /\ c \in Calls /\ Here \in State /\ Here.out = Fall
      /\ Reaches(JIT_SHIFT(op, c.d, c.s, c.t), Here, q)
      /\ c.op \in Asm!ToReg
  BY EmitCases DEF Executed, Asm!ToReg, Asm!Binary
<1>2. c.d \in Number /\ c.s \in Number /\ c.t \in Number
  BY <1>1, CallFields
<1>3. ASSUME Asm!Sound(c), c.d # R0, c.s # R0
      PROVE  /\ c.t # c.d \/ c.s = c.d
             /\ IF c.t = R0 THEN c.s = c.d ELSE c.d # RCX /\ c.d # RSP /\ c.t # RSP
  BY <1>3 DEF Asm!Sound, Asm!Binary, Asm!SoundBinary, Asm!Survives, Asm!R0, R0,
              Asm!RC, Asm!SP, RCX, RSP
<1>4. Asm!Result(c) = Alu(op, Asm!Val(c.s), Asm!Val(c.t)) /\ op \in {"SAL", "SAR"}
  BY Results
<1> HIDE DEF op
<1>5. CASE c.d = R0
  BY <1>1, <1>5, ReachesNone, NothingGood DEF JIT_SHIFT, When
<1>6. CASE c.d # R0 /\ c.s = R0
  <2>1. Asm!Val(c.t) \in Word
    BY <1>1, <1>2, Registers, ZeroReads, StateFields, Constants
  <2>2. Asm!Result(c) = Zero
    BY <1>4, <1>6, <2>1, ZeroReads, WordLaws
  <2> QED
    BY <1>1, <1>6, <2>2, ZeroGood DEF JIT_SHIFT, When
<1>7. CASE c.d # R0 /\ c.s # R0 /\ c.t = R0 /\ c.s = c.d
  <2>1. Reaches(Assign(c.d, c.s), Here, q)
    BY <1>1, <1>7 DEF JIT_SHIFT, Assign, When
  <2>2. c.s \in Reg /\ Asm!Val(c.s) = Here.r[c.s] /\ Asm!Val(c.t) = Zero
    BY <1>2, <1>7, Registers, ZeroReads
  <2>3. Here.r[c.s] \in Word
    BY <1>1, <2>2, StateFields
  <2>4. Asm!Result(c) = Here.r[c.s]
    BY <1>4, <2>2, <2>3, WordLaws
  <2> QED
    BY <1>1, <1>7, <2>1, <2>2, <2>4, AssignGood
<1>8. CASE c.d # R0 /\ c.s # R0 /\ c.t = R0 /\ c.s # c.d
  <2>1. Reaches(<<MOVI32(c.s, c.t)>>, Here, q)
    BY <1>1, <1>8 DEF JIT_SHIFT, When
  <2>2. c.s \in Reg /\ c.t \in Field
    BY <1>2, <1>8, Registers, NumbersAreFields
  <2>3. Sets(Here, q, c.s, Imm(c.t))
    BY <1>1, <2>1, <2>2, SetZero
  <2>4. Kept(Here, q, {c.s}, {}) /\ q.x = Here.x /\ Stays(q)
    BY <1>1, <2>3 DEF Kept, Sets, Stays, Fall
  <2>5. ~ Asm!Sound(c) /\ {c.s} \subseteq Asm!Touched(c)
    BY <1>1, <1>3, <1>8, TouchedRegisters
  <2> QED
    BY <1>1, <2>4, <2>5, UnsoundGood
<1>9. CASE c.d = RSP /\ c.s # R0 /\ c.t # R0
  <2>1. ~ Asm!Sound(c)
    BY <1>3, <1>9 DEF RSP, R0
  <2>2. Asm!LosesStack(c)
    BY <1>9 DEF Asm!LosesStack, Asm!SP, RSP
  <2> QED
    BY <2>1, <2>2 DEF Good
<1>10. CASE c.d # R0 /\ c.d # RSP /\ c.s # R0 /\ c.t # R0
  <2>1. c.d \in Reg /\ c.s \in Reg /\ c.t \in Reg
    BY <1>2, <1>10, Registers
  <2>2. Asm!Val(c.s) = Here.r[c.s] /\ Asm!Val(c.t) = Here.r[c.t]
    BY <1>2, <1>10, Registers
  <2> DEFINE e1 == PUSH(RCX)
             e2 == MOV(RCX, c.t)
             e3 == RR(op, c.d, 0)
             e4 == POP(RCX)
  <2>3. ASSUME NEW b, Sets(Here, b, c.d, Here.r[c.s]),
               NEW b1, b1 = Exec(e1, b), NEW b2, b2 = Exec(e2, b1),
               NEW b3, b3 = Exec(e3, b2), q = Exec(e4, b3)
        PROVE  Good(c, q)
    <3>1. /\ b \in State /\ b.out = Fall
          /\ \A k \in Reg : b.r[k] = IF k = c.d THEN Here.r[c.s] ELSE Here.r[k]
          /\ b.x = Here.x /\ b.m = Here.m
      BY <1>1, <2>3 DEF Sets
    <3>6. Shifted(b, b1, b2, b3, q, op, c.d, c.t)
      BY <1>4, <1>10, <2>1, <2>3, <3>1, ShiftBody
    <3>2. /\ q.out = Fall /\ q.x = b.x /\ Kept(b, q, {c.d}, {StackSlot(b)})
          /\ c.d # RCX /\ c.t # RSP => q.r[c.d] = Alu(op, b.r[c.d], b.r[c.t])
      BY <3>6 DEF Shifted
    <3>3. StackSlot(b) = StackSlot(Here)
      BY <1>10, <3>1, Constants DEF StackSlot
    <3>4. Kept(Here, q, {0, c.d}, {StackSlot(Here)}) /\ q.x = Here.x
      BY <3>1, <3>2, <3>3 DEF Kept
    <3>5. ASSUME Asm!Sound(c) PROVE q.r[c.d] = Asm!Result(c)
      <4>1. /\ c.t # c.d \/ c.s = c.d
            /\ c.d # RCX /\ c.t # RSP
        BY <1>3, <1>10, <3>5
      <4>2. b.r[c.d] = Here.r[c.s] /\ b.r[c.t] = Here.r[c.t]
        BY <2>1, <3>1, <4>1
      <4> QED
        BY <1>4, <2>2, <3>2, <4>1, <4>2
    <3> QED
      BY <1>1, <1>10, <3>2, <3>4, <3>5, RegisterGood
  <2>4. Reaches(Assign(c.d, c.s) \o <<e1, e2, e3, e4>>, Here, q)
    BY <1>1, <1>10 DEF JIT_SHIFT, When
  <2>5. ASSUME NEW b, Sets(Here, b, c.d, Here.r[c.s])
        PROVE  /\ Exec(e1, b).out = Fall /\ Exec(e2, Exec(e1, b)).out = Fall
               /\ Exec(e3, Exec(e2, Exec(e1, b))).out = Fall
    <3>1. b \in State /\ b.out = Fall
      BY <1>1, <2>5 DEF Sets
    <3>2. Shifted(b, Exec(e1, b), Exec(e2, Exec(e1, b)), Exec(e3, Exec(e2, Exec(e1, b))),
                  Exec(e4, Exec(e3, Exec(e2, Exec(e1, b)))), op, c.d, c.t)
      BY <1>4, <1>10, <2>1, <3>1, ShiftBody
    <3> QED
      BY <3>2 DEF Shifted
  <2> HIDE DEF e1, e2, e3, e4
  <2>6. CASE c.s = c.d
    <3>1. Sets(Here, Here, c.d, Here.r[c.s])
      BY <1>1, <2>6 DEF Sets
    <3>2. Reaches(<<e1, e2, e3, e4>>, Here, q)
      BY <2>4, <2>6, Concat0 DEF Assign, When
    <3>3. q = Exec(e4, Exec(e3, Exec(e2, Exec(e1, Here))))
      BY <2>5, <3>1, <3>2, ReachesFour
    <3> QED
      BY <2>3, <3>1, <3>3
  <2>7. CASE c.s # c.d
    <3> DEFINE b == Exec(MOV(c.d, c.s), Here)
    <3>1. Sets(Here, b, c.d, Here.r[c.s])
      <4>1. b = Put(Here, c.d, Here.r[c.s]) /\ Here.r[c.s] \in Word
        BY <1>1, <2>1, ExecMove, StateFields
      <4> HIDE DEF b
      <4> QED
        BY <1>1, <2>1, <4>1, PutFacts DEF Sets
    <3>2. Reaches(<<MOV(c.d, c.s), e1, e2, e3, e4>>, Here, q)
      BY <2>4, <2>7, Concat4 DEF Assign, When
    <3>3. b.out = Fall
      BY <1>1, <3>1 DEF Sets
    <3>4. q = Exec(e4, Exec(e3, Exec(e2, Exec(e1, b))))
      BY <2>5, <3>1, <3>2, <3>3, ReachesFive
    <3> HIDE DEF b
    <3> QED
      BY <2>3, <3>1, <3>4
  <2> QED
    BY <2>6, <2>7
<1> QED
  BY <1>5, <1>6, <1>7, <1>8, <1>9, <1>10 DEF RSP, R0

(* The divider.                                                            *)
LEMMA ExecDivider ==
  ASSUME NEW p, NEW t \in Reg
  PROVE  /\ Exec(Byte("CDQ"), p) = Put(p, RDX, Cdq(p.r[RAX]))
         /\ Exec(RR("IDIV64", t, 0), p)
            = LET qr == Idiv(p.r[RDX], p.r[RAX], p.r[t])
              IN IF qr = <<>> THEN Leave(p, "fault", 0)
                 ELSE Put(Put(p, RAX, qr[1]), RDX, qr[2])
<1>1. /\ Byte("CDQ").op = "CDQ"
      /\ RR("IDIV64", t, 0).op = "IDIV64" /\ RR("IDIV64", t, 0).rm = t
  BY IParts, EncReg DEF Byte, RR
<1> QED
  BY <1>1, ExecCases DEF ExecDiv

(* The division faults, or leaves the quotient in rax.                     *)
LEMMA DivideEnds ==
  ASSUME NEW p \in State, p.out = Fall, NEW t \in Reg,
         NEW q, q = Exec(RR("IDIV64", t, 0), p)
  PROVE  /\ q \in State /\ q.x = p.x /\ q.m = p.m
         /\ \A j \in Reg \ {RAX, RDX} : q.r[j] = p.r[j]
         /\ \/ q.out = <<"fault", 0>> /\ Idiv(p.r[RDX], p.r[RAX], p.r[t]) = <<>>
            \/ q.out = Fall /\ q.r[RAX] = Idiv(p.r[RDX], p.r[RAX], p.r[t])[1]
<1> DEFINE qr == Idiv(p.r[RDX], p.r[RAX], p.r[t])
<1>1. p.r[RDX] \in Word /\ p.r[RAX] \in Word /\ p.r[t] \in Word
  BY StateFields, Constants
<1>2. qr \in {<<>>} \cup (Word \X Word)
  BY <1>1, WordTypes
<1>3. q = IF qr = <<>> THEN Leave(p, "fault", 0) ELSE Put(Put(p, RAX, qr[1]), RDX, qr[2])
  BY ExecDivider
<1> HIDE DEF qr
<1>4. CASE qr = <<>>
  <2>1. q = Leave(p, "fault", 0) /\ q \in State
    BY <1>3, <1>4, LeaveTypes
  <2>2. q.r = p.r /\ q.x = p.x /\ q.m = p.m /\ q.out = <<"fault", 0>>
    BY <2>1 DEF Leave, State
  <2> QED
    BY <1>4, <2>1, <2>2 DEF qr
<1>5. CASE qr # <<>>
  <2>1. qr[1] \in Word /\ qr[2] \in Word
    BY <1>2, <1>5
  <2> DEFINE b == Put(p, RAX, qr[1])
  <2>2. /\ b \in State /\ b.x = p.x /\ b.m = p.m /\ b.out = p.out
        /\ \A j \in Reg : b.r[j] = IF j = RAX THEN qr[1] ELSE p.r[j]
    <3>1. Wrote(p, b, RAX, qr[1])
      BY <2>1, Writes, Constants
    <3> QED
      BY <3>1 DEF Wrote
  <2>3. q = Put(b, RDX, qr[2])
    BY <1>3, <1>5
  <2> HIDE DEF b
  <2>4. /\ q \in State /\ q.x = b.x /\ q.m = b.m /\ q.out = b.out
        /\ \A j \in Reg : q.r[j] = IF j = RDX THEN qr[2] ELSE b.r[j]
    <3>1. Wrote(b, q, RDX, qr[2])
      BY <2>1, <2>2, <2>3, Writes, Constants
    <3> QED
      BY <3>1 DEF Wrote
  <2>5. RAX \in Reg /\ RAX # RDX
    BY DEF RAX, RDX, Reg
  <2> QED
    BY <2>2, <2>4, <2>5 DEF qr
<1> QED
  BY <1>4, <1>5

(* JIT_DIV does where it is sound; elsewhere it may also fault.            *)
LEMMA DivideGood ==
  ASSUME NEW c, NEW q, Executed(c, q), c.op = "DIV"
  PROVE  Good(c, q)
<1>1. /\ c \in Calls /\ Here \in State /\ Here.out = Fall
      /\ Reaches(JIT_DIV(c.d, c.s, c.t), Here, q)
      /\ c.op \in Asm!ToReg
  BY EmitCases DEF Executed, Asm!ToReg
<1>2. c.d \in Number /\ c.s \in Number /\ c.t \in Number
  BY <1>1, CallFields
<1>3. Asm!Sound(c) => c.d = R0 \/ Asm!SoundDiv(c)
  BY DEF Asm!Sound, Asm!R0, R0
<1>4. Asm!Result(c) = Quotient(Asm!Val(c.s), Asm!Val(c.t))
  BY Results
<1>5. CASE c.d = R0
  BY <1>1, <1>5, ReachesNone, NothingGood DEF JIT_DIV, When
<1>6. CASE c.d # R0 /\ R0 \in {c.s, c.t}
  <2>1. Asm!Val(c.t) \in Word
    BY <1>1, <1>2, Registers, ZeroReads, StateFields, Constants
  <2>2. ASSUME Asm!Sound(c) PROVE Asm!Result(c) = Zero
    <3>1. c.s = R0 /\ Asm!Val(c.t) # Zero
      BY <1>3, <1>6, <2>2, ZeroReads DEF Asm!SoundDiv, Asm!R0, R0, Asm!Zero, Zero
    <3> QED
      BY <1>4, <2>1, <3>1, ZeroReads, WordLaws
  <2> QED
    BY <1>1, <1>6, <2>2, ZeroGood DEF JIT_DIV, When
<1>7. CASE c.d = RSP /\ c.s # R0 /\ c.t # R0
  <2>1. ~ Asm!Sound(c)
    BY <1>3, <1>7 DEF RSP, R0, Asm!SoundDiv, Asm!SP, Asm!R0
  <2>2. Asm!LosesStack(c)
    BY <1>7 DEF Asm!LosesStack, Asm!SP, RSP
  <2> QED
    BY <2>1, <2>2 DEF Good
<1>8. CASE c.d # R0 /\ c.d # RSP /\ c.s # R0 /\ c.t # R0
  <2>1. /\ c.d \in Reg /\ c.s \in Reg /\ c.t \in Reg
        /\ Asm!Val(c.s) = Here.r[c.s] /\ Asm!Val(c.t) = Here.r[c.t]
    BY <1>2, <1>8, Registers
  <2>2. /\ RAX \in Reg /\ RDX \in Reg /\ RSP \in Reg
        /\ RAX # RDX /\ RAX # RSP /\ RDX # RSP /\ RAX = 0
    BY DEF RAX, RDX, RSP, Reg
  <2> DEFINE slot == StackSlot(Here)
             e1 == PUSH(RDX)
             e2 == MOV(RAX, c.s)
             e3 == Byte("CDQ")
             e4 == RR("IDIV64", c.t, 0)
             e5 == MOV(c.d, RAX)
             e6 == POP(RDX)
  <2>3. PICK b1 : b1 = Exec(e1, Here)
    OBVIOUS
  <2>4. PICK b2 : b2 = Exec(e2, b1)
    OBVIOUS
  <2>5. PICK b3 : b3 = Exec(e3, b2)
    OBVIOUS
  <2>6. PICK b4 : b4 = Exec(e4, b3)
    OBVIOUS
  <2>7. PICK b5 : b5 = Exec(e5, b4)
    OBVIOUS
  <2>8. PICK b6 : b6 = Exec(e6, b5)
    OBVIOUS
  <2>9. /\ b1 \in State /\ b1.x = Here.x /\ b1.out = Fall
        /\ \A j \in Reg : b1.r[j] = IF j = RSP THEN slot ELSE Here.r[j]
        /\ \A a \in Word \ {slot} : b1.m[a] = Here.m[a]
        /\ b1.m[slot].lo = Here.r[RDX] /\ slot \in Word
    <3>1. Pushed(Here, b1, RDX)
      BY <1>1, <2>2, <2>3, Pushes
    <3> QED
      BY <1>1, <3>1 DEF Pushed
  <2>10. /\ b2 \in State /\ b2.x = Here.x /\ b2.out = Fall /\ b2.m = b1.m
         /\ \A j \in Reg : b2.r[j] = IF j = RAX THEN b1.r[c.s] ELSE b1.r[j]
    <3>1. b2 = Put(b1, RAX, b1.r[c.s]) /\ b1.r[c.s] \in Word
      BY <2>1, <2>2, <2>4, <2>9, ExecMove, StateFields
    <3>2. Wrote(b1, b2, RAX, b1.r[c.s])
      BY <2>2, <2>9, <3>1, Writes
    <3> QED
      BY <2>9, <3>2 DEF Wrote
  <2>11. /\ b3 \in State /\ b3.x = Here.x /\ b3.out = Fall /\ b3.m = b1.m
         /\ \A j \in Reg : b3.r[j] = IF j = RDX THEN Cdq(b2.r[RAX]) ELSE b2.r[j]
    <3>1. b3 = Put(b2, RDX, Cdq(b2.r[RAX]))
      BY <2>1, <2>5, ExecDivider
    <3>2. Cdq(b2.r[RAX]) \in Word
      <4>1. b2.r[RAX] \in Word
        BY <2>2, <2>10, StateFields
      <4> QED
        BY <4>1, WordTypes
    <3> QED
      BY <2>2, <2>10, <3>1, <3>2, PutFacts
  <2>12. /\ b4 \in State /\ b4.x = Here.x /\ b4.m = b1.m
         /\ \A j \in Reg \ {RAX, RDX} : b4.r[j] = b3.r[j]
         /\ \/ /\ b4.out = <<"fault", 0>>
               /\ Idiv(b3.r[RDX], b3.r[RAX], b3.r[c.t]) = <<>>
            \/ /\ b4.out = Fall
               /\ b4.r[RAX] = Idiv(b3.r[RDX], b3.r[RAX], b3.r[c.t])[1]
    BY <2>1, <2>6, <2>11, DivideEnds
  <2>13. /\ b5 \in State /\ b5.x = Here.x /\ b5.m = b1.m /\ b5.out = b4.out
         /\ \A j \in Reg : b5.r[j] = IF j = c.d THEN b4.r[RAX] ELSE b4.r[j]
    <3>1. b5 = Put(b4, c.d, b4.r[RAX]) /\ b4.r[RAX] \in Word
      BY <2>1, <2>2, <2>7, <2>12, ExecMove, StateFields
    <3> QED
      BY <2>1, <2>12, <3>1, PutFacts
  <2>14. Reaches(<<e1, e2, e3, e4, e5, e6>>, Here, q)
    BY <1>1, <1>8 DEF JIT_DIV, When
  <2>15. \/ b4.out # Fall /\ q = b4
         \/ b4.out = Fall /\ q = b6
    <3> HIDE DEF e1, e2, e3, e4, e5, e6
    <3> QED
      BY <2>3, <2>4, <2>5, <2>6, <2>7, <2>8, <2>9, <2>10, <2>11, <2>13, <2>14, ReachesSix
  (* With operands that are sound, the divider gets them.                  *)
  <2>16. ASSUME Asm!Sound(c)
         PROVE  /\ Idiv(b3.r[RDX], b3.r[RAX], b3.r[c.t]) # <<>>
                /\ Idiv(b3.r[RDX], b3.r[RAX], b3.r[c.t])[1] = Asm!Result(c)
                /\ c.d # RDX
    <3>1. /\ c.d # RDX /\ c.s # RSP /\ c.t \notin {RAX, RDX, RSP}
          /\ Here.r[c.s] \in Narrow /\ Here.r[c.t] # Zero
      BY <1>3, <1>8, <2>1, <2>16
         DEF Asm!SoundDiv, Asm!R0, R0, Asm!RD, Asm!RE, Asm!SP, RDX, RAX, RSP,
             Asm!Zero, Zero
    <3>2. b2.r[RAX] = Here.r[c.s]
      BY <2>1, <2>2, <2>9, <2>10, <3>1
    <3>3. /\ b3.r[RAX] = Here.r[c.s] /\ b3.r[RDX] = Cdq(Here.r[c.s])
          /\ b3.r[c.t] = Here.r[c.t]
      BY <2>1, <2>2, <2>9, <2>10, <2>11, <3>1, <3>2
    <3>4. Here.r[c.s] \in Word /\ Here.r[c.t] \in Word
      BY <1>1, <2>1, StateFields
    <3>5. /\ Idiv(Cdq(Here.r[c.s]), Here.r[c.s], Here.r[c.t]) # <<>>
          /\ Idiv(Cdq(Here.r[c.s]), Here.r[c.s], Here.r[c.t])[1]
             = Quotient(Here.r[c.s], Here.r[c.t])
      BY <3>1, <3>4, WordLaws
    <3> QED
      BY <1>4, <2>1, <3>1, <3>3, <3>5
  <2>17. CASE b4.out # Fall
    <3>1. q.out = <<"fault", 0>> /\ ~ Asm!Sound(c)
      BY <2>12, <2>15, <2>16, <2>17
    <3>2. View(q).out[1] = "fault"
      BY <3>1 DEF View
    <3> QED
      BY <3>1, <3>2 DEF Good
  <2>18. CASE b4.out = Fall
    <3>1. q = b6 /\ RDX # RSP /\ b5 \in State
      BY <2>2, <2>13, <2>15, <2>18
    <3>2. /\ q.x = b5.x /\ q.m = b5.m /\ q.out = b5.out
          /\ \A j \in Reg : q.r[j] = IF j = RDX THEN b5.m[b5.r[RSP]].lo
                                     ELSE IF j = RSP THEN Alu("ADD", b5.r[RSP], Imm(8))
                                     ELSE b5.r[j]
      BY <2>2, <2>8, <3>1, ExecPop
    <3>3. b5.r[RSP] = slot
      BY <1>8, <2>2, <2>9, <2>10, <2>11, <2>12, <2>13
    <3>4. q.r[RSP] = Here.r[RSP] /\ q.r[RDX] = Here.r[RDX]
      BY <1>1, <2>2, <2>9, <2>13, <3>2, <3>3, SlotBelow
    <3>5. \A j \in Reg \ {RAX, c.d} : q.r[j] = Here.r[j]
      BY <2>2, <2>9, <2>10, <2>11, <2>12, <2>13, <3>2, <3>4
    <3>8. q.m = b1.m /\ q.x = Here.x /\ q.out = Fall
      BY <2>13, <2>18, <3>2
    <3>6. Kept(Here, q, {0, c.d}, {slot}) /\ q.x = Here.x /\ q.out = Fall
      BY <2>2, <2>9, <3>5, <3>8 DEF Kept
    <3>7. ASSUME Asm!Sound(c) PROVE q.r[c.d] = Asm!Result(c)
      BY <1>8, <2>1, <2>12, <2>13, <2>16, <2>18, <3>2, <3>7 DEF Fall
    <3> QED
      BY <1>1, <1>8, <3>6, <3>7, RegisterGood
  <2> QED
    BY <2>17, <2>18
<1> QED
  BY <1>5, <1>6, <1>7, <1>8 DEF RSP, R0

-----------------------------------------------------------------------------
(* Comparisons and jumps.                                                  *)

(* A comparison: JIT_R0 is compared as zero, but always on the right.      *)
LEMMA ExecCmp ==
  ASSUME NEW p \in State, NEW s \in Number, NEW t \in Number, s # t
  PROVE  Exec(Cmp(s, t), p)
         = IF s = R0 THEN Compare(p, p.r[t], Zero)
           ELSE IF t = R0 THEN Compare(p, p.r[s], Zero)
           ELSE Compare(p, p.r[s], p.r[t])
<1>1. ASSUME NEW k \in Reg
      PROVE  Exec(RI8("CMPI8", k, 0), p) = Compare(p, p.r[k], Zero)
  <2>1. /\ RI8("CMPI8", k, 0).op = "CMPI8" /\ RI8("CMPI8", k, 0).rm = k
        /\ RI8("CMPI8", k, 0).im = 0
    BY IParts, EncReg DEF RI8
  <2> QED
    BY <2>1, ExecCases DEF RRs, ExecRR, Zero
<1>2. ASSUME NEW k \in Reg, NEW j \in Reg
      PROVE  Exec(RR("CMP64", k, j), p) = Compare(p, p.r[k], p.r[j])
  <2>1. /\ RR("CMP64", k, j).op = "CMP64" /\ RR("CMP64", k, j).rm = k
        /\ RR("CMP64", k, j).reg = j
    BY IParts, EncReg DEF RR
  <2> QED
    BY <2>1, ExecCases DEF RRs, ExecRR
<1>3. /\ s # R0 => s \in Reg
      /\ t # R0 => t \in Reg
  BY Registers
<1> QED
  BY <1>1, <1>2, <1>3 DEF Cmp

(* The condition of a comparison.                                          *)
Holds(cc, x, y) == CASE cc = "SETL" -> Less(x, y)
                     [] cc = "SETE" -> x = y
                     [] cc = "SETA" -> FLess(y, x)

(* p is b, but for what is compared and rax, which tells whether it holds. *)
Flagged(b, p, cc, x, y) ==
  /\ p \in State /\ p.out = Fall /\ p.x = b.x /\ p.m = b.m
  /\ \A j \in Reg : p.r[j] = IF j = RAX THEN Bit(Holds(cc, x, y)) ELSE b.r[j]

(* A comparison and the instructions that bring its condition into rax.    *)
LEMMA FlagBody ==
  ASSUME NEW b \in State, b.out = Fall, NEW x \in Word, NEW y \in Word,
         NEW b1, b1 = Compare(b, x, y), NEW cc \in {"SETL", "SETE", "SETA"},
         NEW b2, b2 = Exec(OP0(cc, 0, RAX), b1),
         NEW b3, b3 = Exec(OP0("MOVZX", RAX, RAX), b2)
  PROVE  b1.out = Fall /\ b2.out = Fall /\ Flagged(b, b3, cc, x, y)
<1> DEFINE v == Holds(cc, x, y)
<1>1. v \in BOOLEAN
  BY WordTypes DEF Holds
<1>2. b1 \in State
  BY PutTypes, Constants
<1>3. /\ b1.r = b.r /\ b1.x = b.x /\ b1.m = b.m /\ b1.out = Fall
      /\ b1.cmp[1] = x /\ b1.cmp[2] = y
  BY DEF Compare, State
<1>4. b2 = Put(b1, RAX, Splice(8, b.r[RAX], Bit(v)))
  <2>1. OP0(cc, 0, RAX).op = cc
    BY IParts DEF OP0
  <2>2. Exec(OP0(cc, 0, RAX), b1) = ExecFlag(OP0(cc, 0, RAX), b1)
    BY <2>1, ExecCases DEF Flags
  <2> QED
    BY <1>3, <2>1, <2>2 DEF ExecFlag, Holds
<1>5. Bit(v) \in Word /\ b.r[RAX] \in Word
  BY <1>1, Constants, StateFields
<1>6. Splice(8, b.r[RAX], Bit(v)) \in Word
  BY <1>5, WordTypes
<1> HIDE DEF v
<1>7. /\ b2 \in State /\ b2.x = b.x /\ b2.m = b.m /\ b2.out = Fall
      /\ \A j \in Reg : b2.r[j] = IF j = RAX THEN Splice(8, b.r[RAX], Bit(v)) ELSE b.r[j]
  <2>1. Wrote(b1, b2, RAX, Splice(8, b.r[RAX], Bit(v)))
    BY <1>2, <1>4, <1>6, Writes, Constants
  <2> QED
    BY <1>3, <2>1 DEF Wrote
<1>8. b3 = Put(b2, RAX, Bit(v))
  <2>1. OP0("MOVZX", RAX, RAX).op = "MOVZX"
    BY IParts DEF OP0
  <2>2. b3 = Put(b2, RAX, Low(8, b2.r[RAX]))
    BY <2>1, ExecCases DEF Flags, ExecFlag
  <2>3. b2.r[RAX] = Splice(8, b.r[RAX], Bit(v))
    BY <1>7, Constants
  <2>4. Low(8, Splice(8, b.r[RAX], Bit(v))) = Bit(v)
    BY <1>1, <1>5, WordLaws
  <2> QED
    BY <2>2, <2>3, <2>4
<1>9. /\ b3 \in State /\ b3.x = b2.x /\ b3.m = b2.m /\ b3.out = b2.out
      /\ \A j \in Reg : b3.r[j] = IF j = RAX THEN Bit(v) ELSE b2.r[j]
  <2>1. Wrote(b2, b3, RAX, Bit(v))
    BY <1>5, <1>7, <1>8, Writes, Constants
  <2> QED
    BY <2>1 DEF Wrote
<1> QED
  BY <1>3, <1>7, <1>9 DEF v, Flagged

(* A comparison and the instruction that uses it.                          *)
LEMMA FlagReaches ==
  ASSUME NEW b \in State, b.out = Fall, NEW x \in Word, NEW y \in Word,
         NEW i, Exec(i, b) = Compare(b, x, y), NEW cc \in {"SETL", "SETE", "SETA"},
         NEW use, NEW q, Reaches(Flag(i, cc, use), b, q)
  PROVE  \E p \in State :
           /\ q = Exec(use, p)
           /\ p.out = Fall /\ p.x = b.x /\ p.m = b.m
           /\ \A j \in Reg : p.r[j] = IF j = RAX THEN Bit(Holds(cc, x, y)) ELSE b.r[j]
<1> DEFINE e2 == OP0(cc, 0, RAX)
           e3 == OP0("MOVZX", RAX, RAX)
<1>1. PICK b1 : b1 = Exec(i, b)
  OBVIOUS
<1>2. PICK b2 : b2 = Exec(e2, b1)
  OBVIOUS
<1>3. PICK b3 : b3 = Exec(e3, b2)
  OBVIOUS
<1>6. b1.out = Fall /\ b2.out = Fall /\ Flagged(b, b3, cc, x, y)
  BY <1>1, <1>2, <1>3, FlagBody
<1>4. /\ b1.out = Fall /\ b2.out = Fall /\ b3.out = Fall
      /\ b3 \in State /\ b3.x = b.x /\ b3.m = b.m
      /\ \A j \in Reg : b3.r[j] = IF j = RAX THEN Bit(Holds(cc, x, y)) ELSE b.r[j]
  BY <1>6 DEF Flagged
<1>5. q = Exec(use, b3)
  <2>1. Reaches(<<i, e2, e3, use>>, b, q)
    BY DEF Flag
  <2> HIDE DEF e2, e3
  <2> QED
    BY <1>1, <1>2, <1>3, <1>4, <2>1, ReachesFour
<1> QED
  BY <1>4, <1>5

(* What Cmp compares.                                                      *)
LEMMA CmpReaches ==
  ASSUME NEW b \in State, b.out = Fall, NEW s \in Number, NEW t \in Number, s # t,
         NEW cc \in {"SETL", "SETE", "SETA"},
         NEW use, NEW q, Reaches(Flag(Cmp(s, t), cc, use), b, q)
  PROVE  \E p \in State, x, y \in Word :
           /\ q = Exec(use, p)
           /\ p.out = Fall /\ p.x = b.x /\ p.m = b.m
           /\ \A j \in Reg : p.r[j] = IF j = RAX THEN Bit(Holds(cc, x, y)) ELSE b.r[j]
           /\ x = (IF s = R0 THEN b.r[t] ELSE b.r[s])
           /\ y = (IF R0 \in {s, t} THEN Zero ELSE b.r[t])
<1> DEFINE x == IF s = R0 THEN b.r[t] ELSE b.r[s]
           y == IF R0 \in {s, t} THEN Zero ELSE b.r[t]
<1>1. /\ s # R0 => s \in Reg
      /\ t # R0 => t \in Reg
  BY Registers
<1>2. x \in Word /\ y \in Word
  BY <1>1, StateFields, Constants
<1>3. Exec(Cmp(s, t), b) = Compare(b, x, y)
  BY ExecCmp
<1> HIDE DEF x, y
<1>4. PICK p \in State :
        /\ q = Exec(use, p)
        /\ p.out = Fall /\ p.x = b.x /\ p.m = b.m
        /\ \A j \in Reg : p.r[j] = IF j = RAX THEN Bit(Holds(cc, x, y)) ELSE b.r[j]
  BY <1>2, <1>3, FlagReaches
<1> QED
  BY <1>2, <1>4 DEF x, y

(* JIT_LESS does.                                                          *)
LEMMA LessGood ==
  ASSUME NEW c, NEW q, Executed(c, q), c.op = "LESS"
  PROVE  Good(c, q)
<1>1. /\ c \in Calls /\ Here \in State /\ Here.out = Fall
      /\ Reaches(JIT_LESS(c.d, c.s, c.t), Here, q)
      /\ c.op \in Asm!ToReg
  BY EmitCases DEF Executed, Asm!ToReg
<1>2. c.d \in Number /\ c.s \in Number /\ c.t \in Number
  BY <1>1, CallFields
<1>3. Asm!Result(c) = Bit(Less(Asm!Val(c.s), Asm!Val(c.t)))
  BY Results
<1>4. CASE c.d = R0
  BY <1>1, <1>4, ReachesNone, NothingGood DEF JIT_LESS, When
<1>5. CASE c.d # R0 /\ c.s = c.t
  <2>1. Asm!Val(c.s) \in Word
    BY <1>1, <1>2, Registers, ZeroReads, StateFields, Constants
  <2>2. ~ Less(Asm!Val(c.s), Asm!Val(c.t))
    BY <1>5, <2>1, WordLaws
  <2>3. Asm!Result(c) = Zero
    BY <1>3, <2>2 DEF Bit, Zero
  <2> QED
    BY <1>1, <1>5, <2>3, ZeroGood DEF JIT_LESS, When
<1>6. CASE c.d # R0 /\ c.s # c.t
  <2>1. Reaches(Flag(Cmp(c.s, c.t), "SETL", MOV(c.d, RAX)), Here, q)
    BY <1>1, <1>6 DEF JIT_LESS, When
  <2>2. PICK p \in State, x, y \in Word :
          /\ q = Exec(MOV(c.d, RAX), p)
          /\ p.out = Fall /\ p.x = Here.x /\ p.m = Here.m
          /\ \A j \in Reg : p.r[j] = IF j = RAX THEN Bit(Holds("SETL", x, y))
                                     ELSE Here.r[j]
          /\ x = (IF c.s = R0 THEN Here.r[c.t] ELSE Here.r[c.s])
          /\ y = (IF R0 \in {c.s, c.t} THEN Zero ELSE Here.r[c.t])
    BY <1>1, <1>2, <1>6, <2>1, CmpReaches
  <2>3. c.d \in Reg
    BY <1>2, <1>6, Registers
  <2>4. q = Put(p, c.d, p.r[RAX]) /\ p.r[RAX] \in Word
    BY <2>2, <2>3, ExecMove, Constants, StateFields
  <2>5. /\ q.x = p.x /\ q.m = p.m /\ q.out = p.out
        /\ \A j \in Reg : q.r[j] = IF j = c.d THEN p.r[RAX] ELSE p.r[j]
    BY <2>3, <2>4, PutFacts
  <2>6. Kept(Here, q, {0, c.d}, {StackSlot(Here)})
    BY <2>2, <2>5 DEF Kept, RAX
  <2>7. q.r[c.d] = Bit(Less(x, y))
    BY <2>2, <2>3, <2>5, Constants DEF Holds
  <2>8. Asm!Sound(c) => c.s # R0
    BY <1>6 DEF Asm!Sound, Asm!R0, R0
  <2>9. ASSUME c.s # R0 PROVE x = Asm!Val(c.s) /\ y = Asm!Val(c.t)
    BY <1>2, <2>2, <2>9, Registers, ZeroReads
  <2> QED
    BY <1>1, <1>3, <1>6, <2>2, <2>5, <2>6, <2>7, <2>8, <2>9, RegisterGood
<1> QED
  BY <1>4, <1>5, <1>6

(* A move to a register that may be JIT_R0, which is encoded as rdi.       *)
LEMMA ExecMoveEncoded ==
  ASSUME NEW p \in State, NEW d \in Number, NEW q, q = Exec(MOV(d, RAX), p)
  PROVE  /\ q.x = p.x /\ q.m = p.m /\ q.out = p.out
         /\ \A j \in Reg : q.r[j] = IF j = (IF d = R0 THEN 7 ELSE d) THEN p.r[RAX]
                                    ELSE p.r[j]
<1>1. /\ MOV(d, RAX).op = "MOV" /\ MOV(d, RAX).rm = Enc(d)
      /\ MOV(d, RAX).reg = RAX
  BY IParts, EncReg, Constants DEF MOV, RR
<1>2. q = Put(p, Enc(d), p.r[RAX])
  BY <1>1, ExecCases DEF RRs, ExecRR
<1>3. Enc(d) \in Reg /\ Enc(d) = IF d = R0 THEN 7 ELSE d
  BY EncValue DEF R0
<1>4. p.r[RAX] \in Word
  BY Constants, StateFields
<1> QED
  BY <1>2, <1>3, <1>4, PutFacts

(* JIT_LESSF does.                                                         *)
LEMMA LessFloatGood ==
  ASSUME NEW c, NEW q, Executed(c, q), c.op = "LESSF"
  PROVE  Good(c, q)
<1>1. /\ c \in Calls /\ Here \in State /\ Here.out = Fall
      /\ Reaches(JIT_LESSF(c.d, c.s, c.t), Here, q)
      /\ c.op \in Asm!ToReg /\ ~ Asm!Sound(c)
  BY EmitCases DEF Executed, Asm!ToReg, Asm!Sound
<1>2. c.d \in Number /\ c.s \in Reg /\ c.t \in Reg
  BY <1>1, CallFields, CallTypes, Registers
<1> DEFINE i == RR0("UCOMISS", c.s, c.t)
<1>3. i.op = "UCOMISS" /\ i.rm = c.t /\ i.reg = c.s
  BY <1>2, IParts, EncReg DEF RR0
<1>4. Reaches(Flag(i, "SETA", MOV(c.d, RAX)), Here, q)
  BY <1>1 DEF JIT_LESSF
<1> HIDE DEF i
<1>5. i.op \notin DOMAIN ScalarOp /\ i.op \notin DOMAIN PackedOp /\ i.op \in Floats
  BY <1>3 DEF ScalarOp, PackedOp, Floats
<1>6. Exec(i, Here) = Compare(Here, Here.x[c.s].lo, Here.x[c.t].lo)
  <2>1. Exec(i, Here) = ExecFloat(i, Here)
    BY <1>5, ExecCases
  <2> QED
    BY <1>3, <1>5, <2>1 DEF ExecFloat
<1>7. Here.x[c.s] \in Lanes /\ Here.x[c.t] \in Lanes
  BY <1>1, <1>2, StateFields
<1>8. Here.x[c.s].lo \in Word /\ Here.x[c.t].lo \in Word
  BY <1>7, LanesFields
<1>9. PICK p \in State :
        /\ q = Exec(MOV(c.d, RAX), p)
        /\ p.out = Fall /\ p.x = Here.x /\ p.m = Here.m
        /\ \A j \in Reg \ {RAX} : p.r[j] = Here.r[j]
  BY <1>1, <1>4, <1>6, <1>8, FlagReaches
<1> DEFINE d == IF c.d = R0 THEN 7 ELSE c.d
<1>10. Kept(Here, q, {0, d}, {}) /\ q.x = Here.x /\ Stays(q)
  BY <1>2, <1>9, ExecMoveEncoded DEF Kept, RAX, Stays, Fall
<1>11. {0, d} \subseteq Asm!Touched(c)
  BY <1>1, TouchedRegisters
<1> HIDE DEF d
<1> QED
  BY <1>1, <1>10, <1>11, UnsoundGood

(* The instructions that leave the block.                                  *)
LEMMA ExecLeaves ==
  ASSUME NEW p, NEW k
  PROVE  /\ Exec(OPI32("JMP", k), p) = Leave(p, "jump", k)
         /\ Exec(OPI32("CALLI32", k), p) = Leave(p, "call", k)
         /\ Exec(Byte("RET"), p) = Leave(p, "return", 0)
         /\ \A s \in Reg : Exec(RR("CALL64", s, 0), p) = Leave(p, "callex", p.r[s])
<1>1. /\ OPI32("JMP", k).op = "JMP" /\ OPI32("JMP", k).im = k
      /\ OPI32("CALLI32", k).op = "CALLI32" /\ OPI32("CALLI32", k).im = k
      /\ Byte("RET").op = "RET"
  BY IParts DEF OPI32, Byte
<1>2. \A s \in Reg : RR("CALL64", s, 0).op = "CALL64" /\ RR("CALL64", s, 0).rm = s
  BY IParts, EncReg DEF RR
<1> QED
  BY <1>1, <1>2, ExecCases DEF ExecLeave, Leaves

(* The conditional jumps test eax.                                         *)
LEMMA ExecConditional ==
  ASSUME NEW p, NEW k, NEW b \in BOOLEAN, p.r[RAX] = Bit(b), p.out = Fall
  PROVE  /\ Exec(Jcc("JZ", k), p) = IF b THEN p ELSE Leave(p, "jump", k)
         /\ Exec(Jcc("JNZ", k), p) = IF b THEN Leave(p, "jump", k) ELSE p
<1>1. /\ Jcc("JZ", k).op = "JZ" /\ Jcc("JZ", k).im = k
      /\ Jcc("JNZ", k).op = "JNZ" /\ Jcc("JNZ", k).im = k
  BY IParts DEF Jcc
<1>2. (Low(32, p.r[RAX]) = Zero) <=> ~ b
  BY WordLaws DEF Bit, Zero
<1> QED
  BY <1>1, <1>2, ExecCases DEF ExecFlag, Flags

(* Leaving the block changes nothing but that.                             *)
LEMMA LeaveFacts ==
  ASSUME NEW p \in State, NEW how, NEW x
  PROVE  /\ Leave(p, how, x).r = p.r /\ Leave(p, how, x).x = p.x
         /\ Leave(p, how, x).m = p.m /\ Leave(p, how, x).out = <<how, x>>
BY DEF Leave, State

(* A jump, a call or a return.                                             *)
LEMMA ExitGood ==
  ASSUME NEW c, c.op \in Asm!Exits, Here \in State, NEW q,
         q.x = Here.x, Kept(Here, q, {0}, {}), Stays(q),
         Asm!Sound(c) => q.out = Asm!Exit(c)
  PROVE  Good(c, q)
<1>1. /\ c.op \notin Asm!ToReg /\ c.op \notin Asm!ToXmm /\ c.op \notin Asm!Stores
  BY DEF Asm!Exits, Asm!ToReg, Asm!ToXmm, Asm!Stores, Asm!Binary, Asm!Unary,
         Asm!Float, Asm!Float4
<1>2. Here.x \in [Reg -> Lanes]
  BY DEF State
<1> QED
  BY <1>1, <1>2, StepGood

(* The code of JIT_JUMP.                                                   *)
LEMMA JumpReaches ==
  ASSUME NEW o \in Field, NEW q, Here \in State, Reaches(JumpCode(o), Here, q),
         Here.out = Fall
  PROVE  /\ q.x = Here.x /\ Kept(Here, q, {0}, {}) /\ Stays(q)
         /\ o \notin {0, -1} => q.out = <<"jump", o>>
<1>1. CASE o # R0 \/ o < -1
  <2>1. q = Leave(Here, "jump", o)
    BY <1>1, ReachesOne, ExecLeaves DEF JumpCode, When
  <2> QED
    BY <2>1, LeaveFacts DEF Kept, Stays
<1>2. CASE ~ (o # R0 \/ o < -1)
  <2>1. q = Here
    BY <1>2, ReachesNone DEF JumpCode, When
  <2> QED
    BY <1>2, <2>1 DEF Kept, R0, Stays, Fall
<1> QED
  BY <1>1, <1>2

(* What the operations of the flow of control mean.                        *)
LEMMA Exits ==
  ASSUME NEW c
  PROVE  /\ c.op = "JUMP" => Asm!Exit(c) = <<"jump", c.i>>
         /\ c.op = "BRANCH" => Asm!Exit(c) = IF Asm!Val(c.s) = Asm!Val(c.t)
                                             THEN <<"jump", c.i>> ELSE Fall
         /\ c.op = "NBRANCH" => Asm!Exit(c) = IF Asm!Val(c.s) = Asm!Val(c.t)
                                              THEN Fall ELSE <<"jump", c.i>>
         /\ c.op = "CALL" => Asm!Exit(c) = <<"call", c.i>>
         /\ c.op = "CALLEX" => Asm!Exit(c) = <<"callex", Asm!Val(c.s)>>
         /\ c.op = "RETURN" => Asm!Exit(c) = <<"return", 0>>
         /\ c.op \in {"JUMP", "BRANCH", "NBRANCH", "CALL"} /\ Asm!Sound(c)
            => c.i \notin {0, -1}
         /\ c.op = "CALLEX" /\ Asm!Sound(c) => c.s # R0
BY DEF Asm!Exit, Asm!Sound, Asm!Fall, Fall, Asm!R0, R0

(* JIT_JUMP, JIT_CALL, JIT_CALLEX and JIT_RETURN leave as JitAsm says.     *)
LEMMA LeaveGood ==
  ASSUME NEW c, NEW q, Executed(c, q), c.op \in {"JUMP", "CALL", "CALLEX", "RETURN"}
  PROVE  Good(c, q)
<1>1. /\ c \in Calls /\ Here \in State /\ Here.out = Fall /\ c.op \in Asm!Exits
      /\ c.s \in Number /\ c.i \in Field
  BY CallFields DEF Executed, Asm!Exits
<1>2. Kept(Here, Here, {0}, {}) /\ Stays(Here)
  BY <1>1 DEF Kept, Stays, Fall
<1>3. CASE c.op = "JUMP"
  <2>1. Reaches(JumpCode(c.i), Here, q)
    BY <1>3, EmitCases DEF Executed
  <2> QED
    BY <1>1, <1>3, <2>1, JumpReaches, Exits, ExitGood
<1>4. CASE c.op = "CALL"
  <2>1. Reaches(CallCode(c.i), Here, q)
    BY <1>4, EmitCases DEF Executed
  <2>2. CASE c.i > 0 \/ c.i < -1
    <3>1. q = Leave(Here, "call", c.i)
      BY <2>1, <2>2, ReachesOne, ExecLeaves DEF CallCode, When
    <3>2. q.x = Here.x /\ Kept(Here, q, {0}, {}) /\ Stays(q) /\ q.out = <<"call", c.i>>
      BY <1>1, <3>1, LeaveFacts DEF Kept, Stays
    <3> QED
      BY <1>1, <1>4, <3>2, Exits, ExitGood
  <2>3. CASE ~ (c.i > 0 \/ c.i < -1)
    <3>1. q = Here
      BY <2>1, <2>3, ReachesNone DEF CallCode, When
    <3>2. ~ Asm!Sound(c)
      BY <1>1, <1>4, <2>3, Exits DEF Field
    <3> QED
      BY <1>1, <1>2, <3>1, <3>2, ExitGood
  <2> QED
    BY <2>2, <2>3
<1>5. CASE c.op = "CALLEX"
  <2>1. Reaches(JIT_CALLEX(c.s), Here, q)
    BY <1>5, EmitCases DEF Executed
  <2>2. CASE c.s # R0
    <3>1. c.s \in Reg /\ Asm!Val(c.s) = Here.r[c.s]
      BY <1>1, <2>2, Registers
    <3>2. q = Leave(Here, "callex", Here.r[c.s])
      BY <2>1, <2>2, <3>1, ReachesOne, ExecLeaves DEF JIT_CALLEX, When
    <3>3. /\ q.x = Here.x /\ Kept(Here, q, {0}, {}) /\ Stays(q)
          /\ q.out = <<"callex", Here.r[c.s]>>
      BY <1>1, <3>2, LeaveFacts DEF Kept, Stays
    <3> QED
      BY <1>1, <1>5, <3>1, <3>3, Exits, ExitGood
  <2>3. CASE c.s = R0
    <3>1. q = Here
      BY <2>1, <2>3, ReachesNone DEF JIT_CALLEX, When
    <3>2. ~ Asm!Sound(c)
      BY <1>5, <2>3, Exits
    <3> QED
      BY <1>1, <1>2, <3>1, <3>2, ExitGood
  <2> QED
    BY <2>2, <2>3
<1>6. CASE c.op = "RETURN"
  <2>1. Reaches(<<Byte("RET")>>, Here, q)
    BY <1>6, EmitCases DEF Executed, JIT_RETURN
  <2>2. q = Leave(Here, "return", 0)
    BY <2>1, ReachesOne, ExecLeaves
  <2>3. q.x = Here.x /\ Kept(Here, q, {0}, {}) /\ Stays(q) /\ q.out = <<"return", 0>>
    BY <1>1, <2>2, LeaveFacts DEF Kept, Stays
  <2> QED
    BY <1>1, <1>6, <2>3, Exits, ExitGood
<1> QED
  BY <1>3, <1>4, <1>5, <1>6

(* A comparison for equality and the jump behind it.                       *)
LEMMA BranchReaches ==
  ASSUME Here \in State, Here.out = Fall, NEW s \in Number, NEW t \in Number, s # t,
         NEW o, NEW q
  PROVE  /\ Reaches(Flag(Cmp(s, t), "SETE", Jcc("JNZ", o)), Here, q)
            => /\ q.x = Here.x /\ Kept(Here, q, {0}, {})
               /\ q.out = IF Asm!Val(s) = Asm!Val(t) THEN <<"jump", o>> ELSE Fall
         /\ Reaches(Flag(Cmp(s, t), "SETE", Jcc("JZ", o)), Here, q)
            => /\ q.x = Here.x /\ Kept(Here, q, {0}, {})
               /\ q.out = IF Asm!Val(s) = Asm!Val(t) THEN Fall ELSE <<"jump", o>>
<1> DEFINE equal == Asm!Val(s) = Asm!Val(t)
<1>1. ASSUME NEW use, Reaches(Flag(Cmp(s, t), "SETE", use), Here, q)
      PROVE  \E p \in State :
               /\ q = Exec(use, p)
               /\ p.out = Fall /\ p.x = Here.x /\ Kept(Here, p, {0}, {})
               /\ p.r[RAX] = Bit(equal)
  <2>1. PICK p \in State, x, y \in Word :
          /\ q = Exec(use, p)
          /\ p.out = Fall /\ p.x = Here.x /\ p.m = Here.m
          /\ \A j \in Reg : p.r[j] = IF j = RAX THEN Bit(Holds("SETE", x, y))
                                     ELSE Here.r[j]
          /\ x = (IF s = R0 THEN Here.r[t] ELSE Here.r[s])
          /\ y = (IF R0 \in {s, t} THEN Zero ELSE Here.r[t])
    BY <1>1, CmpReaches
  <2>2. (x = y) <=> equal
    BY <2>1, Registers, ZeroReads
  <2>3. Holds("SETE", x, y) <=> equal
    BY <2>2 DEF Holds
  <2>4. p.r[RAX] = Bit(equal)
    BY <2>1, <2>3, Constants DEF Bit
  <2>5. Kept(Here, p, {0}, {})
    BY <2>1 DEF Kept, RAX
  <2> QED
    BY <2>1, <2>4, <2>5
<1>2. equal \in BOOLEAN
  OBVIOUS
<1> HIDE DEF equal
<1>3. ASSUME NEW p \in State, p.x = Here.x, Kept(Here, p, {0}, {}), NEW x
      PROVE  /\ Leave(p, "jump", x).x = Here.x
             /\ Kept(Here, Leave(p, "jump", x), {0}, {})
             /\ Leave(p, "jump", x).out = <<"jump", x>>
  BY <1>3, LeaveFacts DEF Kept
<1>4. ASSUME Reaches(Flag(Cmp(s, t), "SETE", Jcc("JNZ", o)), Here, q)
      PROVE  /\ q.x = Here.x /\ Kept(Here, q, {0}, {})
             /\ q.out = IF equal THEN <<"jump", o>> ELSE Fall
  <2>1. PICK p \in State :
          /\ q = Exec(Jcc("JNZ", o), p)
          /\ p.out = Fall /\ p.x = Here.x /\ Kept(Here, p, {0}, {})
          /\ p.r[RAX] = Bit(equal)
    BY <1>1, <1>4
  <2>2. q = IF equal THEN Leave(p, "jump", o) ELSE p
    BY <1>2, <2>1, ExecConditional
  <2> QED
    BY <1>3, <2>1, <2>2
<1>5. ASSUME Reaches(Flag(Cmp(s, t), "SETE", Jcc("JZ", o)), Here, q)
      PROVE  /\ q.x = Here.x /\ Kept(Here, q, {0}, {})
             /\ q.out = IF equal THEN Fall ELSE <<"jump", o>>
  <2>1. PICK p \in State :
          /\ q = Exec(Jcc("JZ", o), p)
          /\ p.out = Fall /\ p.x = Here.x /\ Kept(Here, p, {0}, {})
          /\ p.r[RAX] = Bit(equal)
    BY <1>1, <1>5
  <2>2. q = IF equal THEN p ELSE Leave(p, "jump", o)
    BY <1>2, <2>1, ExecConditional
  <2> QED
    BY <1>3, <2>1, <2>2
<1> QED
  BY <1>4, <1>5 DEF equal

(* JIT_BRANCH and JIT_NBRANCH do.                                          *)
LEMMA BranchGood ==
  ASSUME NEW c, NEW q, Executed(c, q), c.op \in {"BRANCH", "NBRANCH"}
  PROVE  Good(c, q)
<1>1. /\ c \in Calls /\ Here \in State /\ Here.out = Fall /\ c.op \in Asm!Exits
      /\ c.s \in Number /\ c.t \in Number /\ c.i \in Field
  BY CallFields DEF Executed, Asm!Exits
<1>2. /\ c.op = "BRANCH" => Reaches(BranchCode(c.s, c.t, c.i), Here, q)
      /\ c.op = "NBRANCH" => Reaches(NBranchCode(c.s, c.t, c.i), Here, q)
  BY EmitCases DEF Executed
<1>3. Asm!Sound(c) => c.i > 0 \/ c.i < -1
  BY <1>1, Exits DEF Field
<1>4. CASE c.op = "BRANCH" /\ c.s = c.t
  <2>1. Reaches(JumpCode(c.i), Here, q)
    BY <1>2, <1>4 DEF BranchCode
  <2> QED
    BY <1>1, <1>4, <2>1, JumpReaches, Exits, ExitGood
<1>5. ASSUME q = Here, Asm!Sound(c) => Asm!Exit(c) = Fall PROVE Good(c, q)
  <2>1. Kept(Here, Here, {0}, {}) /\ Stays(Here)
    BY <1>1 DEF Kept, Stays, Fall
  <2> QED
    BY <1>1, <1>5, <2>1, ExitGood
<1>6. CASE c.op = "NBRANCH" /\ c.s = c.t
  <2>1. q = Here
    BY <1>2, <1>6, ReachesNone DEF NBranchCode, When
  <2> QED
    BY <1>5, <1>6, <2>1, Exits
<1>7. CASE c.s # c.t /\ ~ (c.i > 0 \/ c.i < -1)
  <2>1. q = Here
    BY <1>2, <1>7, ReachesNone DEF BranchCode, NBranchCode, When
  <2> QED
    BY <1>3, <1>5, <1>7, <2>1
<1>8. CASE c.op = "BRANCH" /\ c.s # c.t /\ (c.i > 0 \/ c.i < -1)
  <2>1. Reaches(Flag(Cmp(c.s, c.t), "SETE", Jcc("JNZ", c.i)), Here, q)
    BY <1>2, <1>8 DEF BranchCode, When
  <2> QED
    <3>1. /\ q.x = Here.x /\ Kept(Here, q, {0}, {})
          /\ q.out = IF Asm!Val(c.s) = Asm!Val(c.t) THEN <<"jump", c.i>> ELSE Fall
      BY <1>1, <1>8, <2>1, BranchReaches
    <3>2. q.out = Asm!Exit(c) /\ Stays(q)
      BY <1>8, <3>1, Exits DEF Stays, Fall
    <3> QED
      BY <1>1, <3>1, <3>2, ExitGood
<1>9. CASE c.op = "NBRANCH" /\ c.s # c.t /\ (c.i > 0 \/ c.i < -1)
  <2>1. Reaches(Flag(Cmp(c.s, c.t), "SETE", Jcc("JZ", c.i)), Here, q)
    BY <1>2, <1>9 DEF NBranchCode, When
  <2> QED
    <3>1. /\ q.x = Here.x /\ Kept(Here, q, {0}, {})
          /\ q.out = IF Asm!Val(c.s) = Asm!Val(c.t) THEN Fall ELSE <<"jump", c.i>>
      BY <1>1, <1>9, <2>1, BranchReaches
    <3>2. q.out = Asm!Exit(c) /\ Stays(q)
      BY <1>9, <3>1, Exits DEF Stays, Fall
    <3> QED
      BY <1>1, <3>1, <3>2, ExitGood
<1> QED
  BY <1>4, <1>6, <1>7, <1>8, <1>9

-----------------------------------------------------------------------------
(* Memory.                                                                 *)

(* What an access at address a does, with register k.                      *)
Effect(op, p, a, k) ==
  CASE op = "LOAD32"   -> Put(p, k, Low(32, p.m[a].lo))
    [] op = "LOAD64"   -> Put(p, k, p.m[a].lo)
    [] op = "LOADSS"   -> PutX(p, k, [lo |-> p.m[a].lo, hi |-> Zero])
    [] op = "LOADUPS"  -> PutX(p, k, p.m[a])
    [] op = "STORE32"  -> [p EXCEPT !.m[a] = [p.m[a] EXCEPT !.lo = Splice(32, p.m[a].lo, p.r[k])]]
    [] op = "STORE64"  -> [p EXCEPT !.m[a] = [p.m[a] EXCEPT !.lo = p.r[k]]]
    [] op = "STORESS"  -> [p EXCEPT !.m[a] = [p.m[a] EXCEPT !.lo = p.x[k].lo]]
    [] op = "STOREUPS" -> [p EXCEPT !.m[a] = p.x[k]]

(* Its cases.                                                              *)
LEMMA Effects ==
  /\ \A p, a, k : Effect("LOAD32", p, a, k) = Put(p, k, Low(32, p.m[a].lo))
  /\ \A p, a, k : Effect("LOAD64", p, a, k) = Put(p, k, p.m[a].lo)
  /\ \A p, a, k : Effect("LOADSS", p, a, k) = PutX(p, k, [lo |-> p.m[a].lo, hi |-> Zero])
  /\ \A p, a, k : Effect("LOADUPS", p, a, k) = PutX(p, k, p.m[a])
  /\ \A p, a, k : Effect("STORE32", p, a, k)
                  = [p EXCEPT !.m[a] = [p.m[a] EXCEPT !.lo = Splice(32, p.m[a].lo, p.r[k])]]
  /\ \A p, a, k : Effect("STORE64", p, a, k)
                  = [p EXCEPT !.m[a] = [p.m[a] EXCEPT !.lo = p.r[k]]]
  /\ \A p, a, k : Effect("STORESS", p, a, k)
                  = [p EXCEPT !.m[a] = [p.m[a] EXCEPT !.lo = p.x[k].lo]]
  /\ \A p, a, k : Effect("STOREUPS", p, a, k) = [p EXCEPT !.m[a] = p.x[k]]
BY DEF Effect

(* An access through a base register that needs no SIB byte.               *)
LEMMA ExecAccess ==
  ASSUME NEW p, NEW op, NEW base1, NEW reg, NEW off,
         op \in Loads \cup Stores, base1 \in Reg, base1 \notin {4, 12}
  PROVE  Exec(Mem(op, base1, reg, off), p)
         = Effect(op, p, Alu("ADD", p.r[base1], Imm(off)), Enc(reg))
<1> DEFINE i == Mem(op, base1, reg, off)
<1>1. i.op = op /\ i.rm = base1 /\ i.reg = Enc(reg) /\ i.im = off
  <2>1. \A len : /\ I(op, base1, reg, off, len).op = op
                 /\ I(op, base1, reg, off, len).rm = base1
                 /\ I(op, base1, reg, off, len).reg = Enc(reg)
                 /\ I(op, base1, reg, off, len).im = off
    BY IParts, EncReg
  <2> QED
    BY <2>1 DEF Mem
<1> HIDE DEF i
<1>2. ~ (i.rm % 8 = 4)
  BY <1>1 DEF Reg
<1>3. Exec(i, p) = ExecMem(i, p)
  BY <1>1, ExecCases
<1>4. SUFFICES ExecMem(i, p) = Effect(i.op, p, Alu("ADD", p.r[i.rm], Imm(i.im)), i.reg)
  BY <1>1, <1>3 DEF i
<1>5. CASE i.op = "LOAD32"
  BY <1>2, <1>5 DEF ExecMem, Effect
<1>6. CASE i.op = "LOAD64"
  BY <1>2, <1>6 DEF ExecMem, Effect
<1>7. CASE i.op = "LOADSS"
  BY <1>2, <1>7 DEF ExecMem, Effect
<1>8. CASE i.op = "LOADUPS"
  BY <1>2, <1>8 DEF ExecMem, Effect
<1>9. CASE i.op = "STORE32"
  BY <1>2, <1>9 DEF ExecMem, Effect
<1>10. CASE i.op = "STORE64"
  BY <1>2, <1>10 DEF ExecMem, Effect
<1>11. CASE i.op = "STORESS"
  BY <1>2, <1>11 DEF ExecMem, Effect
<1>12. CASE i.op = "STOREUPS"
  BY <1>2, <1>12 DEF ExecMem, Effect
<1> QED
  BY <1>1, <1>5, <1>6, <1>7, <1>8, <1>9, <1>10, <1>11, <1>12 DEF Loads, Stores

(* An access through another.                                              *)
LEMMA ExecLost ==
  ASSUME NEW p \in State, NEW op \in Loads \cup Stores, NEW base1 \in {4, 12},
         NEW reg, NEW off, NEW q, q = Exec(Mem(op, base1, reg, off), p)
  PROVE  q = Leave(p, "lost", 0)
<1> DEFINE i == Mem(op, base1, reg, off)
<1>1. i.op = op /\ i.rm = base1
  <2>1. \A len : /\ I(op, base1, reg, off, len).op = op
                 /\ I(op, base1, reg, off, len).rm = base1
    BY IParts, EncReg DEF Reg
  <2> QED
    BY <2>1 DEF Mem
<1> HIDE DEF i
<1>2. i.rm % 8 = 4
  BY <1>1
<1>3. Exec(i, p) = ExecMem(i, p)
  BY <1>1, ExecCases
<1> QED
  BY <1>2, <1>3 DEF ExecMem, i

(* The processor at an access: an access through rsp goes through rax.     *)
Based(p, k) ==
  /\ p \in State /\ p.x = Here.x /\ p.m = Here.m /\ p.out = Fall
  /\ \A j \in Reg : p.r[j] = IF j = RAX /\ k = RSP THEN Here.r[RSP] ELSE Here.r[j]

(* Loads.                                                                  *)
LEMMA LoadReaches ==
  ASSUME Here \in State, Here.out = Fall, NEW op \in Loads, NEW d \in Reg,
         NEW s \in Reg, NEW o, NEW q, Reaches(Load(op, d, s, o), Here, q)
  PROVE  \E p : /\ Based(p, s)
                /\ q = Exec(Mem(op, IF s = RSP THEN RAX ELSE s, d, o), p)
<1>0. d # R0 /\ s # R0
  BY DEF Reg, R0
<1>1. CASE s = RSP
  <2> DEFINE e2 == Mem(op, RAX, d, o)
  <2>1. Reaches(<<MOV(RAX, s), e2>>, Here, q)
    BY <1>0, <1>1 DEF Load, When, SP
  <2> HIDE DEF e2
  <2>2. PICK p : p = Exec(MOV(RAX, s), Here)
    OBVIOUS
  <2>3. p = Put(Here, RAX, Here.r[s]) /\ Here.r[s] \in Word
    BY <2>2, ExecMove, Constants, StateFields
  <2>4. Based(p, s)
    <3>1. Wrote(Here, p, RAX, Here.r[s])
      BY <2>3, Writes, Constants
    <3> QED
      BY <1>1, <3>1 DEF Based, Wrote
  <2>5. q = Exec(e2, p)
    BY <2>1, <2>2, <2>4, ReachesTwo DEF Based
  <2> QED
    BY <1>1, <2>4, <2>5 DEF e2
<1>2. CASE s # RSP
  <2>1. q = Exec(Mem(op, s, d, o), Here)
    BY <1>0, <1>2, ReachesOne DEF Load, When, SP
  <2>2. Based(Here, s)
    BY <1>2 DEF Based
  <2> QED
    BY <1>2, <2>1, <2>2
<1> QED
  BY <1>1, <1>2

(* The cell that is accessed.                                              *)
LEMMA BaseAddress ==
  ASSUME Here \in State, NEW k \in Reg, NEW p, Based(p, k), NEW o,
         NEW b, b = IF k = RSP THEN RAX ELSE k
  PROVE  /\ b \in Reg
         /\ Alu("ADD", p.r[b], Imm(o)) = Asm!At(k, o)
         /\ b \in {4, 12} <=> k = 12
<1>1. b \in Reg /\ p.r[b] = Here.r[k]
  BY Constants DEF Based
<1>2. b \in {4, 12} <=> k = 12
  BY DEF Reg, RAX, RSP
<1> QED
  BY <1>1, <1>2, AsmValues

(* JIT_LOAD32 and JIT_LOAD64 end as JitAsm says.                           *)
LEMMA LoadGood ==
  ASSUME NEW c, NEW q, Executed(c, q), c.op \in {"LOAD32", "LOAD64"}
  PROVE  Good(c, q)
<1>1. /\ c \in Calls /\ Here \in State /\ Here.out = Fall
      /\ Reaches(Load(c.op, c.d, c.s, c.i), Here, q)
      /\ c.op \in Asm!ToReg /\ c.op \in Loads
      /\ c.d \in Number /\ c.s \in Number /\ c.i \in Field
  BY EmitCases, CallFields DEF Executed, Asm!ToReg, Loads
<1>2. Asm!Sound(c) => c.d = R0 \/ c.s \notin {R0, 12}
  BY <1>1 DEF Asm!Sound, Asm!Loads, Asm!SoundLoad, Asm!NoBase, Asm!SP, Asm!R0, R0
<1>3. CASE c.d = R0
  BY <1>1, <1>3, ReachesNone, NothingGood DEF Load, When
<1>4. CASE c.d # R0 /\ c.s = R0
  <2>1. q = Here /\ ~ Asm!Sound(c)
    BY <1>1, <1>2, <1>4, ReachesNone DEF Load, When
  <2> QED
    BY <1>1, <2>1, NothingGood
<1>5. CASE c.d # R0 /\ c.s # R0
  <2>1. c.d \in Reg /\ c.s \in Reg
    BY <1>1, <1>5, Registers
  <2>2. PICK p : /\ Based(p, c.s)
                 /\ q = Exec(Mem(c.op, IF c.s = RSP THEN RAX ELSE c.s, c.d, c.i), p)
    BY <1>1, <2>1, LoadReaches
  <2>3. PICK b : b = IF c.s = RSP THEN RAX ELSE c.s
    OBVIOUS
  <2>4. /\ b \in Reg
        /\ b \in {4, 12} <=> c.s = 12
        /\ Alu("ADD", p.r[b], Imm(c.i)) = Asm!At(c.s, c.i)
    BY <1>1, <2>1, <2>2, <2>3, BaseAddress
  <2>5. q = Exec(Mem(c.op, b, c.d, c.i), p) /\ p \in State
    BY <2>2, <2>3 DEF Based
  <2>6. CASE c.s = 12
    <3>1. q = Leave(p, "lost", 0)
      BY <1>1, <2>4, <2>5, <2>6, ExecLost
    <3>2. Kept(Here, q, {0}, {}) /\ q.x = Here.x
      BY <2>2, <2>5, <3>1, LeaveFacts DEF Based, Kept, RAX
    <3>3. {0} \subseteq Asm!Touched(c) /\ ~ Asm!Sound(c) /\ MayLose(c)
      BY <1>2, <1>5, <2>6, TouchedRegisters DEF MayLose, Asm!Loads
    <3> QED
      BY <1>1, <3>2, <3>3, UnsoundGood
  <2>7. CASE c.s # 12
    <3> DEFINE a == Asm!At(c.s, c.i)
               v == IF c.op = "LOAD32" THEN Low(32, Here.m[a].lo) ELSE Here.m[a].lo
    <3>1. p.m = Here.m /\ Enc(c.d) = c.d
      BY <2>1, <2>2, EncReg DEF Based
    <3>2. q = Put(p, c.d, v)
      <4>1. q = Effect(c.op, p, a, c.d)
        <5>1. c.op \in Loads \cup Stores /\ b \in Reg /\ b \notin {4, 12}
          BY <1>1, <2>4, <2>7
        <5>2. Exec(Mem(c.op, b, c.d, c.i), p)
              = Effect(c.op, p, Alu("ADD", p.r[b], Imm(c.i)), Enc(c.d))
          BY <5>1, ExecAccess
        <5> QED
          BY <2>4, <2>5, <3>1, <5>2
      <4> HIDE DEF a
      <4>2. CASE c.op = "LOAD32"
        BY <3>1, <4>1, <4>2, Effects
      <4>3. CASE c.op = "LOAD64"
        BY <3>1, <4>1, <4>3, Effects
      <4> QED
        BY <4>2, <4>3
    <3>3. v \in Word
      <4>1. p.r[b] \in Word /\ Imm(c.i) \in Word
        BY <1>1, <2>4, <2>5, StateFields DEF Field
      <4>2. a \in Word
        BY <2>4, <4>1, WordTypes DEF AluOp
      <4>3. Here.m[a] \in Lanes
        BY <1>1, <4>2, StateFields
      <4>4. Here.m[a].lo \in Word
        BY <4>3, LanesFields
      <4> HIDE DEF a
      <4> QED
        BY <4>4, WordTypes
    <3>4. Asm!Result(c) = v
      BY Results
    <3> HIDE DEF v
    <3>5. /\ q.x = p.x /\ q.m = p.m /\ q.out = p.out
          /\ \A j \in Reg : q.r[j] = IF j = c.d THEN v ELSE p.r[j]
      BY <2>1, <2>5, <3>2, <3>3, PutFacts
    <3>6. /\ Kept(Here, q, {0, c.d}, {StackSlot(Here)})
          /\ q.x = Here.x /\ q.out = Fall /\ q.r[c.d] = v
      BY <2>1, <2>2, <3>5 DEF Kept, Based, RAX
    <3> QED
      BY <1>1, <1>5, <3>4, <3>6, RegisterGood
  <2> QED
    BY <2>6, <2>7
<1> QED
  BY <1>3, <1>4, <1>5

(* What operations on xmm registers compute.                               *)
LEMMA ResultsX ==
  ASSUME NEW c
  PROVE  /\ c.op \in Scalar3
            => Asm!ResultX(c) = [lo |-> FAlu(Asm!Float[c.op], Here.x[c.s].lo, Here.x[c.t].lo),
                                 hi |-> Here.x[c.d].hi]
         /\ c.op \in Packed3
            => Asm!ResultX(c) = [lo |-> FAlu(Asm!Float4[c.op], Here.x[c.s].lo, Here.x[c.t].lo),
                                 hi |-> FAlu(Asm!Float4[c.op], Here.x[c.s].hi, Here.x[c.t].hi)]
         /\ c.op = "ITOF" => Asm!ResultX(c) = [lo |-> FromInt(Asm!Val(c.s)), hi |-> Zero]
         /\ c.op = "LOADF" => Asm!ResultX(c) = [lo |-> Here.m[Asm!At(c.s, c.i)].lo, hi |-> Zero]
         /\ c.op = "LOADF4" => Asm!ResultX(c) = Here.m[Asm!At(c.s, c.i)]
<1>1. View(IF todo = <<>> THEN cpu ELSE base) = View(Here)
  BY DEF Here
<1>2. View(Here).m = Here.m /\ View(Here).x = Here.x
  BY DEF View
<1>3. /\ c.op \in Scalar3 => c.op \in DOMAIN Asm!Float
      /\ c.op \in Packed3 => c.op \in DOMAIN Asm!Float4 /\ c.op \notin DOMAIN Asm!Float
      /\ c.op \in {"ITOF", "LOADF", "LOADF4"}
         => c.op \notin DOMAIN Asm!Float /\ c.op \notin DOMAIN Asm!Float4
  BY DEF Scalar3, Packed3, Asm!Float, Asm!Float4
<1>4. CASE c.op \in Scalar3
  <2>1. /\ c.op \in DOMAIN Asm!Float /\ c.op \notin DOMAIN Asm!Float4
        /\ c.op \notin {"ITOF", "LOADF", "LOADF4"} /\ c.op \notin Packed3
    BY <1>4 DEF Scalar3, Packed3, Asm!Float, Asm!Float4
  <2> DEFINE w == View(IF todo = <<>> THEN cpu ELSE base)
  <2>2. Asm!ResultX(c) = [lo |-> FAlu(Asm!Float[c.op], w.x[c.s].lo, w.x[c.t].lo),
                          hi |-> w.x[c.d].hi]
    BY <2>1 DEF Asm!ResultX
  <2>3. w.x = Here.x
    BY <1>1, <1>2
  <2> HIDE DEF w
  <2> QED
    BY <2>1, <2>2, <2>3
<1>5. CASE c.op \in Packed3
  BY <1>1, <1>2, <1>3, <1>5 DEF Asm!ResultX, Scalar3, Packed3
<1>6. CASE c.op \notin Scalar3 \cup Packed3
  BY <1>1, <1>2, <1>3, <1>6 DEF Asm!ResultX, Asm!Zero, Zero
<1> QED
  BY <1>4, <1>5, <1>6

(* An operation that assigns an xmm register.                              *)
LEMMA XmmGood ==
  ASSUME NEW c, c.op \in Asm!ToXmm, c.d \in Reg, Here \in State, NEW p, p \in State,
         Kept(Here, p, {0}, {}), p.x = Here.x, p.out = Fall,
         NEW v \in Lanes, NEW q, q = PutX(p, c.d, v),
         Asm!Sound(c) => v = Asm!ResultX(c)
  PROVE  Good(c, q)
<1>1. /\ q.x = [p.x EXCEPT ![c.d] = v] /\ q \in State
      /\ q.r = p.r /\ q.m = p.m /\ q.out = p.out
  BY PutXFacts
<1>2. Here.x \in [Reg -> Lanes] /\ q.x \in [Reg -> Lanes]
  BY <1>1 DEF State
<1>3. Kept(Here, q, {0}, {})
  BY <1>1 DEF Kept
<1>4. \A k \in Reg : q.x[k] = Here.x[k] \/ k = c.d
  BY <1>1, <1>2
<1>5. q.x[c.d] = v
  BY <1>1, <1>2
<1>6. c.op \notin Asm!ToReg /\ c.op \notin Asm!Stores /\ Asm!Exit(c) = Fall
  BY DEF Asm!ToReg, Asm!ToXmm, Asm!Stores, Asm!Exit, Asm!Fall, Fall, Asm!Binary,
         Asm!Unary, Asm!Float, Asm!Float4
<1>7. Stays(q) /\ c.d # R0
  BY <1>1 DEF Stays, Fall, Reg, R0
<1> QED
  BY <1>1, <1>2, <1>3, <1>4, <1>5, <1>6, <1>7, StepGood

(* JIT_LOADF and JIT_LOADF4 do.                                            *)
LEMMA LoadFloatGood ==
  ASSUME NEW c, NEW q, Executed(c, q), c.op \in {"LOADF", "LOADF4"}
  PROVE  Good(c, q)
<1> DEFINE op == IF c.op = "LOADF" THEN "LOADSS" ELSE "LOADUPS"
<1>1. /\ c \in Calls /\ Here \in State /\ Here.out = Fall
      /\ Reaches(Load(op, c.d, c.s, c.i), Here, q)
      /\ c.op \in Asm!ToXmm /\ c.op \notin Asm!ToReg /\ op \in Loads
      /\ c.d \in Number /\ c.s \in Number /\ c.i \in Field
  BY EmitCases, CallFields
     DEF Executed, Asm!ToXmm, Asm!ToReg, Asm!Binary, Asm!Unary, Loads
<1>2. Asm!Sound(c) => c.d = R0 \/ c.s \notin {R0, 12}
  BY <1>1 DEF Asm!Sound, Asm!Loads, Asm!SoundLoad, Asm!NoBase, Asm!SP, Asm!R0, R0
<1>3. /\ c.op = "LOADF" => op = "LOADSS"
      /\ c.op = "LOADF4" => op = "LOADUPS"
  OBVIOUS
<1> HIDE DEF op
<1>4. CASE c.d # R0 /\ c.s = R0
  <2>1. q = Here /\ ~ Asm!Sound(c)
    BY <1>1, <1>2, <1>4, ReachesNone DEF Load, When
  <2> QED
    BY <1>1, <2>1, NothingGood
<1>5. CASE c.d # R0 /\ c.s # R0
  <2>1. c.d \in Reg /\ c.s \in Reg
    BY <1>1, <1>5, Registers
  <2>2. PICK p : /\ Based(p, c.s)
                 /\ q = Exec(Mem(op, IF c.s = RSP THEN RAX ELSE c.s, c.d, c.i), p)
    BY <1>1, <2>1, LoadReaches
  <2>3. PICK b : b = IF c.s = RSP THEN RAX ELSE c.s
    OBVIOUS
  <2>4. /\ b \in Reg
        /\ b \in {4, 12} <=> c.s = 12
        /\ Alu("ADD", p.r[b], Imm(c.i)) = Asm!At(c.s, c.i)
    BY <1>1, <2>1, <2>2, <2>3, BaseAddress
  <2>5. q = Exec(Mem(op, b, c.d, c.i), p) /\ p \in State
    BY <2>2, <2>3 DEF Based
  <2>6. Kept(Here, p, {0}, {}) /\ p.x = Here.x /\ p.m = Here.m /\ p.out = Fall
    BY <2>2 DEF Based, Kept, RAX
  <2>7. CASE c.s = 12
    <3>1. q = Leave(p, "lost", 0)
      BY <1>1, <2>4, <2>5, <2>7, ExecLost
    <3>2. Kept(Here, q, {0}, {}) /\ q.x = Here.x
      BY <2>5, <2>6, <3>1, LeaveFacts DEF Kept
    <3>3. {0} \subseteq Asm!Touched(c) /\ ~ Asm!Sound(c) /\ MayLose(c)
      BY <1>2, <1>5, <2>7, TouchedRegisters DEF MayLose, Asm!Loads
    <3> QED
      BY <1>1, <3>2, <3>3, UnsoundGood
  <2>8. CASE c.s # 12
    <3> DEFINE a == Asm!At(c.s, c.i)
               v == IF c.op = "LOADF" THEN [lo |-> Here.m[a].lo, hi |-> Zero] ELSE Here.m[a]
    <3>1. Enc(c.d) = c.d
      BY <2>1, EncReg
    <3>2. q = PutX(p, c.d, v)
      <4>1. q = Effect(op, p, a, c.d)
        BY <1>1, <2>4, <2>5, <2>6, <2>8, <3>1, ExecAccess
      <4> HIDE DEF a
      <4>2. CASE c.op = "LOADF"
        <5>1. q = PutX(p, c.d, [lo |-> p.m[a].lo, hi |-> Zero])
          BY <1>3, <4>1, <4>2, Effects
        <5>2. v = [lo |-> p.m[a].lo, hi |-> Zero]
          BY <2>6, <4>2
        <5> HIDE DEF v
        <5> QED
          BY <5>1, <5>2
      <4>3. CASE c.op = "LOADF4"
        BY <1>3, <2>6, <4>1, <4>3, Effects
      <4> QED
        BY <4>2, <4>3
    <3>3. v \in Lanes
      <4>1. p.r[b] \in Word /\ Imm(c.i) \in Word
        BY <1>1, <2>4, <2>5, StateFields DEF Field
      <4>2. a \in Word
        BY <2>4, <4>1, WordTypes DEF AluOp
      <4>3. Here.m[a] \in Lanes
        BY <1>1, <4>2, StateFields
      <4>4. Here.m[a].lo \in Word
        BY <4>3, LanesFields
      <4> HIDE DEF a
      <4> QED
        BY <4>3, <4>4, LanesFields, Constants
    <3>4. Asm!ResultX(c) = v
      BY ResultsX
    <3> HIDE DEF v
    <3> QED
      BY <1>1, <2>1, <2>5, <2>6, <3>2, <3>3, <3>4, XmmGood
  <2> QED
    BY <2>7, <2>8
<1>6. CASE c.d = R0
  BY <1>1, <1>6, ReachesNone, NothingGood DEF Load, When
<1> QED
  BY <1>4, <1>5, <1>6

(* The memory after a store.                                               *)
LEMMA StoredIs ==
  ASSUME NEW c, Here \in State, NEW a, a = Asm!At(c.d, c.i), a \in Word
  PROVE  /\ c.op = "STORE32"
            => Asm!Stored(c) = [Here.m EXCEPT ![a] =
                                  [Here.m[a] EXCEPT !.lo = Splice(32, Here.m[a].lo,
                                                                  Asm!Val(c.s))]]
         /\ c.op = "STORE64"
            => Asm!Stored(c) = [Here.m EXCEPT ![a] =
                                  [Here.m[a] EXCEPT !.lo = Asm!Val(c.s)]]
         /\ c.op = "STOREF"
            => Asm!Stored(c) = [Here.m EXCEPT ![a] =
                                  [Here.m[a] EXCEPT !.lo = Here.x[c.s].lo]]
         /\ c.op = "STOREF4" => Asm!Stored(c) = [Here.m EXCEPT ![a] = Here.x[c.s]]
<1>1. View(IF todo = <<>> THEN cpu ELSE base) = View(Here)
  BY DEF Here
<1>2. /\ View(Here).m = Here.m /\ View(Here).x = Here.x
      /\ Here.m \in [Word -> Lanes]
  BY DEF View, State
<1> QED
  BY <1>1, <1>2 DEF Asm!Stored

(* A store: whatever it does, it does to memory and rax.                   *)
LEMMA StoreGood ==
  ASSUME NEW c, c.op \in Asm!Stores, Here \in State, NEW q,
         q.x = Here.x, Kept(Here, q, {0}, Word),
         Asm!Sound(c) => q.m = Asm!Stored(c) /\ q.out = Fall
  PROVE  Good(c, q)
<1>1. /\ c.op \notin Asm!ToReg /\ c.op \notin Asm!ToXmm /\ Asm!Exit(c) = Fall
  BY DEF Asm!ToReg, Asm!ToXmm, Asm!Stores, Asm!Exit, Asm!Fall, Fall, Asm!Binary,
         Asm!Unary, Asm!Float, Asm!Float4
<1>2. Here.x \in [Reg -> Lanes] /\ MayLose(c)
  BY DEF State, MayLose
<1> QED
  BY <1>1, <1>2, StepGood

(* A store through any base writes to memory only.                         *)
LEMMA ExecStores ==
  ASSUME NEW p \in State, NEW op \in Stores, NEW d \in Reg, NEW reg, NEW off,
         NEW q, q = Exec(Mem(op, d, reg, off), p)
  PROVE  q.x = p.x /\ q.r = p.r
<1>1. CASE d \in {4, 12}
  BY <1>1, ExecLost, LeaveFacts
<1>2. CASE d \notin {4, 12}
  <2>1. PICK a, k : q = Effect(op, p, a, k)
    BY <1>2, ExecAccess
  <2>2. \E v : q = [p EXCEPT !.m[a] = v]
    BY <2>1, Effects DEF Stores
  <2> QED
    BY <2>2 DEF State
<1> QED
  BY <1>1, <1>2

(* JIT_STORE32 and JIT_STORE64 do.                                         *)
LEMMA StoreIntegerGood ==
  ASSUME NEW c, NEW q, Executed(c, q), c.op \in {"STORE32", "STORE64"}
  PROVE  Good(c, q)
<1>1. /\ c \in Calls /\ Here \in State /\ Here.out = Fall
      /\ Reaches(Store(c.op, c.d, c.i, c.s), Here, q)
      /\ c.op \in Asm!Stores /\ c.op \in Stores
      /\ c.d \in Number /\ c.s \in Number /\ c.i \in Field
  BY EmitCases, CallFields DEF Executed, Asm!Stores, Stores
<1>2. ASSUME Asm!Sound(c)
      PROVE  /\ c.d \notin {4, 12, R0}
             /\ \/ c.s \notin {R0, RSP} /\ c.i = c.s
                \/ c.s = RSP /\ c.i = 0 /\ c.d # RAX
  BY <1>1, <1>2 DEF Asm!Sound, Asm!SoundStore, Asm!NoBase, Asm!R0, R0, Asm!SP, RSP,
                    Asm!RE, RAX
<1>3. CASE c.d = R0 \/ c.s = R0
  <2>1. q = Here
    BY <1>1, <1>3, ReachesNone DEF Store, When
  <2>2. ~ Asm!Sound(c) /\ Kept(Here, q, {0}, Word)
    BY <1>2, <1>3, <2>1 DEF Kept, RSP, R0
  <2> QED
    BY <1>1, <2>1, <2>2, StoreGood
<1>4. CASE c.d # R0 /\ c.s # R0
  <2>1. /\ c.d \in Reg /\ c.s \in Reg /\ Asm!Val(c.s) = Here.r[c.s]
    BY <1>1, <1>4, Registers
  <2>2. PICK p, off :
          /\ p \in State /\ p.x = Here.x /\ p.m = Here.m /\ p.out = Fall
          /\ \A j \in Reg \ {RAX} : p.r[j] = Here.r[j]
          /\ q = Exec(Mem(c.op, c.d, c.i, off), p)
          /\ off = (IF c.s = RSP THEN 0 ELSE c.s)
          /\ p.r[RAX] = (IF c.s = RSP THEN Here.r[RSP] ELSE Here.r[RAX])
    <3>1. CASE c.s = RSP
      <4> DEFINE e2 == Mem(c.op, c.d, c.i, 0)
      <4>1. Reaches(<<MOV(RAX, c.s), e2>>, Here, q)
        BY <1>1, <1>4, <3>1 DEF Store, When, SP, RAX
      <4>2. PICK p : p = Exec(MOV(RAX, c.s), Here)
        OBVIOUS
      <4>3. p = Put(Here, RAX, Here.r[c.s]) /\ Here.r[c.s] \in Word
        BY <1>1, <2>1, <4>2, ExecMove, Constants, StateFields
      <4>4. /\ p \in State /\ p.x = Here.x /\ p.m = Here.m /\ p.out = Here.out
            /\ \A j \in Reg : p.r[j] = IF j = RAX THEN Here.r[c.s] ELSE Here.r[j]
        <5>1. Wrote(Here, p, RAX, Here.r[c.s])
          BY <1>1, <4>3, Writes, Constants
        <5> QED
          BY <5>1 DEF Wrote
      <4> HIDE DEF e2
      <4>5. q = Exec(e2, p)
        BY <1>1, <4>1, <4>2, <4>4, ReachesTwo
      <4>6. q = Exec(Mem(c.op, c.d, c.i, 0), p)
        BY <4>5 DEF e2
      <4> QED
        BY <1>1, <3>1, <4>4, <4>6, Constants
    <3>2. CASE c.s # RSP
      <4>1. q = Exec(Mem(c.op, c.d, c.i, c.s), Here)
        BY <1>1, <1>4, <3>2, ReachesOne DEF Store, When, SP
      <4> QED
        BY <1>1, <3>2, <4>1
    <3> QED
      BY <3>1, <3>2
  <2>3. q.x = Here.x /\ Kept(Here, q, {0}, Word)
    BY <1>1, <2>1, <2>2, ExecStores DEF Kept, RAX
  <2>4. ASSUME Asm!Sound(c) PROVE q.m = Asm!Stored(c) /\ q.out = Fall
    <3>1. /\ c.d \notin {4, 12}
          /\ \/ c.s # RSP /\ c.i = c.s
             \/ c.s = RSP /\ c.i = 0 /\ c.d # RAX
      BY <1>2, <2>4
    <3>2. off = c.i /\ p.r[c.d] = Here.r[c.d] /\ p.r[Enc(c.i)] = Here.r[c.s]
      <4>1. CASE c.s = RSP
        <5>1. Enc(c.i) = RAX
          BY <3>1, <4>1, EncReg, Constants DEF RAX
        <5> QED
          BY <2>1, <2>2, <3>1, <4>1, <5>1
      <4>2. CASE c.s # RSP
        <5>1. Enc(c.i) = c.s /\ off = c.s
          BY <2>1, <2>2, <3>1, <4>2, EncReg
        <5>2. \A j \in Reg : p.r[j] = Here.r[j]
          BY <2>2, <4>2
        <5> QED
          BY <2>1, <3>1, <4>2, <5>1, <5>2
      <4> QED
        BY <4>1, <4>2
    <3> DEFINE a == Asm!At(c.d, c.i)
    <3>3. a = Alu("ADD", p.r[c.d], Imm(off))
      BY <3>2, AsmValues
    <3>4. a \in Word
      <4>1. Here.r[c.d] \in Word /\ Imm(c.i) \in Word
        BY <1>1, <2>1, StateFields DEF Field
      <4> QED
        BY <4>1, AsmValues, WordTypes DEF AluOp
    <3> HIDE DEF a
    <3> DEFINE w == [p.m[a] EXCEPT !.lo = IF c.op = "STORE32"
                                          THEN Splice(32, p.m[a].lo, p.r[Enc(c.i)])
                                          ELSE p.r[Enc(c.i)]]
    <3>5. q = [p EXCEPT !.m[a] = w]
      <4>1. q = Effect(c.op, p, a, Enc(c.i))
        BY <1>1, <2>1, <2>2, <3>1, <3>3, ExecAccess
      <4>2. CASE c.op = "STORE32"
        BY <4>1, <4>2, Effects
      <4>3. CASE c.op = "STORE64"
        BY <4>1, <4>3, Effects
      <4> QED
        BY <4>2, <4>3
    <3>6. Asm!Stored(c) = [Here.m EXCEPT ![a] =
                 [Here.m[a] EXCEPT !.lo = IF c.op = "STORE32"
                                          THEN Splice(32, Here.m[a].lo, Here.r[c.s])
                                          ELSE Here.r[c.s]]]
      BY <1>1, <2>1, <3>4, StoredIs DEF a
    <3>7. Asm!Stored(c) = [p.m EXCEPT ![a] = w]
      BY <2>2, <3>2, <3>6
    <3> HIDE DEF w
    <3>8. q.m = [p.m EXCEPT ![a] = w] /\ q.out = p.out
      BY <2>2, <3>5 DEF State
    <3> QED
      BY <2>2, <3>7, <3>8
  <2> QED
    BY <1>1, <2>3, <2>4, StoreGood
<1> QED
  BY <1>3, <1>4

(* JIT_STOREF and JIT_STOREF4 do.                                          *)
LEMMA StoreFloatGood ==
  ASSUME NEW c, NEW q, Executed(c, q), c.op \in {"STOREF", "STOREF4"}
  PROVE  Good(c, q)
<1> DEFINE op == IF c.op = "STOREF" THEN "STORESS" ELSE "STOREUPS"
<1>1. /\ c \in Calls /\ Here \in State /\ Here.out = Fall
      /\ Reaches(When(c.d # R0 /\ c.s # R0, StoreFloat(op, c.d, c.i, c.s)), Here, q)
      /\ c.op \in Asm!Stores /\ op \in Stores
      /\ c.d \in Number /\ c.s \in Number /\ c.i \in Field
  BY EmitCases, CallFields, CallTypes
     DEF Executed, Asm!Stores, Stores, JIT_STOREF, JIT_STOREF4, When
<1>2. Asm!Sound(c) => c.d \notin {12, R0} /\ c.s # R0
  BY <1>1 DEF Asm!Sound, Asm!SoundStoreF, Asm!NoBase, Asm!R0, R0, Asm!SP
<1>3. /\ c.op = "STOREF" => op = "STORESS"
      /\ c.op = "STOREF4" => op = "STOREUPS"
  OBVIOUS
<1> HIDE DEF op
<1>4. CASE c.d = R0 \/ c.s = R0
  <2>1. q = Here
    BY <1>1, <1>4, ReachesNone DEF When
  <2>2. ~ Asm!Sound(c) /\ Kept(Here, q, {0}, Word)
    BY <1>2, <1>4, <2>1 DEF Kept
  <2> QED
    BY <1>1, <2>1, <2>2, StoreGood
<1>5. CASE c.d # R0 /\ c.s # R0
  <2>1. c.d \in Reg /\ c.s \in Reg
    BY <1>1, <1>5, Registers
  <2>2. PICK p : /\ Based(p, c.d)
                 /\ q = Exec(Mem(op, IF c.d = RSP THEN RAX ELSE c.d, c.s, c.i), p)
    <3>1. CASE c.d = RSP
      <4> DEFINE e2 == Mem(op, RAX, c.s, c.i)
      <4>1. Reaches(<<MOV(RAX, c.d), e2>>, Here, q)
        BY <1>1, <1>5, <3>1 DEF StoreFloat, When, SP
      <4>2. PICK p : p = Exec(MOV(RAX, c.d), Here)
        OBVIOUS
      <4>3. p = Put(Here, RAX, Here.r[c.d]) /\ Here.r[c.d] \in Word
        BY <1>1, <2>1, <4>2, ExecMove, Constants, StateFields
      <4>4. Based(p, c.d)
        <5>1. Wrote(Here, p, RAX, Here.r[c.d])
          BY <1>1, <4>3, Writes, Constants
        <5> QED
          BY <1>1, <3>1, <5>1 DEF Based, Wrote
      <4> HIDE DEF e2
      <4>5. q = Exec(e2, p)
        BY <4>1, <4>2, <4>4, ReachesTwo DEF Based
      <4>6. q = Exec(Mem(op, RAX, c.s, c.i), p)
        BY <4>5 DEF e2
      <4> QED
        BY <3>1, <4>4, <4>6
    <3>2. CASE c.d # RSP
      <4>1. q = Exec(Mem(op, c.d, c.s, c.i), Here)
        BY <1>1, <1>5, <3>2, ReachesOne DEF StoreFloat, When, SP
      <4>2. Based(Here, c.d)
        BY <1>1, <3>2 DEF Based
      <4> QED
        BY <3>2, <4>1, <4>2
    <3> QED
      BY <3>1, <3>2
  <2>3. PICK b : b = IF c.d = RSP THEN RAX ELSE c.d
    OBVIOUS
  <2>4. /\ b \in Reg
        /\ b \in {4, 12} <=> c.d = 12
        /\ Alu("ADD", p.r[b], Imm(c.i)) = Asm!At(c.d, c.i)
    BY <1>1, <2>1, <2>2, <2>3, BaseAddress
  <2>5. q = Exec(Mem(op, b, c.s, c.i), p) /\ p \in State
    BY <2>2, <2>3 DEF Based
  <2>6. Kept(Here, p, {0}, {}) /\ p.x = Here.x /\ p.m = Here.m /\ p.out = Fall
    BY <2>2 DEF Based, Kept, RAX
  <2>7. q.x = Here.x /\ Kept(Here, q, {0}, Word)
    BY <1>1, <2>4, <2>5, <2>6, ExecStores DEF Kept
  <2>8. ASSUME Asm!Sound(c) PROVE q.m = Asm!Stored(c) /\ q.out = Fall
    <3> DEFINE a == Asm!At(c.d, c.i)
    <3>1. b \notin {4, 12} /\ Enc(c.s) = c.s
      BY <1>2, <2>1, <2>4, <2>8, EncReg
    <3>2. a \in Word
      <4>1. Here.r[c.d] \in Word /\ Imm(c.i) \in Word
        BY <1>1, <2>1, StateFields DEF Field
      <4> QED
        BY <4>1, AsmValues, WordTypes DEF AluOp
    <3>3. a = Alu("ADD", p.r[b], Imm(c.i))
      BY <2>4
    <3> HIDE DEF a
    <3> DEFINE v == IF c.op = "STOREF" THEN [Here.m[a] EXCEPT !.lo = Here.x[c.s].lo]
                    ELSE Here.x[c.s]
    <3>4. q = [p EXCEPT !.m[a] = v]
      <4>1. q = Effect(op, p, a, c.s)
        BY <1>1, <2>4, <2>5, <3>1, <3>3, ExecAccess
      <4>2. CASE c.op = "STOREF"
        BY <1>3, <2>6, <4>1, <4>2, Effects
      <4>3. CASE c.op = "STOREF4"
        BY <1>3, <2>6, <4>1, <4>3, Effects
      <4> QED
        BY <4>2, <4>3
    <3>5. Asm!Stored(c) = [Here.m EXCEPT ![a] = v]
      BY <1>1, <3>2, StoredIs DEF a, Asm!Stores
    <3> HIDE DEF v
    <3>6. q.m = [p.m EXCEPT ![a] = v] /\ q.out = p.out
      BY <2>5, <3>4 DEF State
    <3> QED
      BY <2>6, <3>5, <3>6
  <2> QED
    BY <1>1, <2>7, <2>8, StoreGood
<1> QED
  BY <1>4, <1>5

-----------------------------------------------------------------------------
(* Floats.                                                                 *)

(* MOVSS.                                                                  *)
LEMMA ExecMovss ==
  ASSUME NEW p, NEW d, NEW s, d \in Reg, s \in Reg
  PROVE  Exec(RRF("MOVSS", d, s), p)
         = PutX(p, d, [p.x[d] EXCEPT !.lo = p.x[s].lo])
<1> DEFINE i == RRF("MOVSS", d, s)
<1>1. i.op = "MOVSS" /\ i.rm = s /\ i.reg = d
  BY IParts, EncReg DEF RRF
<1> HIDE DEF i
<1>2. /\ i.op \notin DOMAIN ScalarOp /\ i.op \notin DOMAIN PackedOp /\ i.op \in Floats
  BY <1>1 DEF ScalarOp, PackedOp, Floats
<1>3. Exec(i, p) = ExecFloat(i, p)
  BY <1>2, ExecCases
<1> QED
  BY <1>1, <1>2, <1>3 DEF ExecFloat, i

(* MOVUPS.                                                                 *)
LEMMA ExecMovups ==
  ASSUME NEW p, NEW d, NEW s, d \in Reg, s \in Reg
  PROVE  Exec(RR0("MOVUPS", d, s), p)
         = PutX(p, d, p.x[s])
<1> DEFINE i == RR0("MOVUPS", d, s)
<1>1. i.op = "MOVUPS" /\ i.rm = s /\ i.reg = d
  BY IParts, EncReg DEF RR0
<1> HIDE DEF i
<1>2. /\ i.op \notin DOMAIN ScalarOp /\ i.op \notin DOMAIN PackedOp /\ i.op \in Floats
  BY <1>1 DEF ScalarOp, PackedOp, Floats
<1>3. Exec(i, p) = ExecFloat(i, p)
  BY <1>2, ExecCases
<1> QED
  BY <1>1, <1>2, <1>3 DEF ExecFloat, i

(* PXOR, of a register with itself in the code that is emitted.            *)
LEMMA ExecPxor ==
  ASSUME NEW p, NEW d, NEW s, d \in Reg, s \in Reg
  PROVE  Exec(RRF("PXOR", d, s), p)
         = PutX(p, d, [lo |-> Zero, hi |-> Zero])
<1> DEFINE i == RRF("PXOR", d, s)
<1>1. i.op = "PXOR" /\ i.rm = s /\ i.reg = d
  BY IParts, EncReg DEF RRF
<1> HIDE DEF i
<1>2. /\ i.op \notin DOMAIN ScalarOp /\ i.op \notin DOMAIN PackedOp /\ i.op \in Floats
  BY <1>1 DEF ScalarOp, PackedOp, Floats
<1>3. Exec(i, p) = ExecFloat(i, p)
  BY <1>2, ExecCases
<1> QED
  BY <1>1, <1>2, <1>3 DEF ExecFloat, i

(* CVTSI2SS.                                                               *)
LEMMA ExecFromInteger ==
  ASSUME NEW p, NEW d, NEW s, d \in Reg, s \in Reg
  PROVE  Exec(RRF("CVTSI2SS", d, s), p)
         = PutX(p, d, [p.x[d] EXCEPT !.lo = FromInt(p.r[s])])
<1> DEFINE i == RRF("CVTSI2SS", d, s)
<1>1. i.op = "CVTSI2SS" /\ i.rm = s /\ i.reg = d
  BY IParts, EncReg DEF RRF
<1> HIDE DEF i
<1>2. /\ i.op \notin DOMAIN ScalarOp /\ i.op \notin DOMAIN PackedOp /\ i.op \in Floats
  BY <1>1 DEF ScalarOp, PackedOp, Floats
<1>3. Exec(i, p) = ExecFloat(i, p)
  BY <1>2, ExecCases
<1> QED
  BY <1>1, <1>2, <1>3 DEF ExecFloat, i

(* The operation of a call on floats, in the macro and in JitAsm.          *)
LEMMA FloatNames ==
  ASSUME NEW c
  PROVE  /\ c.op \in Scalar3
            => /\ ScalarMacro[c.op] \in ScalarIs /\ Asm!Float[c.op] \in FAluOp
               /\ ScalarOp[ScalarMacro[c.op]] = Asm!Float[c.op]
         /\ c.op \in Packed3
            => /\ PackedMacro[c.op] \in PackedIs /\ Asm!Float4[c.op] \in FAluOp
               /\ PackedOp[PackedMacro[c.op]] = Asm!Float4[c.op]
BY DEF Scalar3, Packed3, ScalarMacro, PackedMacro, ScalarIs, PackedIs, ScalarOp,
       PackedOp, Asm!Float, Asm!Float4, FAluOp

(* Arithmetic on the low lane.                                             *)
LEMMA ExecScalar ==
  ASSUME NEW p, NEW d \in Reg, NEW t \in Reg, NEW op \in ScalarIs
  PROVE  Exec(RRF(op, d, t), p)
         = PutX(p, d, [p.x[d] EXCEPT !.lo = FAlu(ScalarOp[op], p.x[d].lo, p.x[t].lo)])
<1> DEFINE i == RRF(op, d, t)
<1>1. i.op = op /\ i.rm = t /\ i.reg = d
  BY IParts, EncReg DEF RRF
<1> HIDE DEF i
<1>2. /\ i.op \in DOMAIN ScalarOp /\ i.op \notin {"MOVSS", "MOVUPS"} /\ i.op \in Floats
  BY <1>1 DEF ScalarIs, ScalarOp, Floats
<1>3. Exec(i, p) = ExecFloat(i, p)
  BY <1>2, ExecCases
<1> QED
  BY <1>1, <1>2, <1>3 DEF ExecFloat, PackedOp, ScalarOp, i

(* Arithmetic on all lanes.                                                *)
LEMMA ExecPacked ==
  ASSUME NEW p, NEW d \in Reg, NEW t \in Reg, NEW op \in PackedIs
  PROVE  Exec(RR0(op, d, t), p)
         = PutX(p, d, [lo |-> FAlu(PackedOp[op], p.x[d].lo, p.x[t].lo),
                       hi |-> FAlu(PackedOp[op], p.x[d].hi, p.x[t].hi)])
<1> DEFINE i == RR0(op, d, t)
<1>1. i.op = op /\ i.rm = t /\ i.reg = d
  BY IParts, EncReg DEF RR0
<1> HIDE DEF i
<1>2. /\ i.op \in DOMAIN PackedOp /\ i.op \notin DOMAIN ScalarOp
      /\ i.op \notin {"MOVSS", "MOVUPS", "PXOR", "CVTSI2SS", "CVTSS2SI", "UCOMISS"}
      /\ i.op \in Floats
  BY <1>1 DEF PackedIs, ScalarOp, PackedOp, Floats
<1>3. Exec(i, p) = ExecFloat(i, p)
  BY <1>2, ExecCases
<1> QED
  BY <1>1, <1>2, <1>3 DEF ExecFloat, i

(* The processor p between the two instructions of a pair.                 *)
Between(p, q, i, d, s, v) ==
  /\ p \in State /\ q = Exec(i, p)
  /\ p.out = Fall /\ p.r = Here.r /\ p.m = Here.m
  /\ p.x = IF s # d THEN [Here.x EXCEPT ![d] = v] ELSE Here.x

(* An assignment and an instruction that operates on the same xmm register: *)
(* whatever they are, they assign that register only.                      *)
LEMMA XmmPair ==
  ASSUME NEW d, NEW s, NEW a, NEW i, NEW v, NEW q, d \in Reg, v \in Lanes,
         Here \in State, Here.out = Fall, Exec(a, Here) = PutX(Here, d, v),
         Reaches(When(s # d, <<a>>) \o <<i>>, Here, q)
  PROVE  \E p : Between(p, q, i, d, s, v)
<1>1. CASE s # d
  <2>1. Reaches(<<a, i>>, Here, q)
    BY <1>1, Concat1 DEF When
  <2> DEFINE p == Exec(a, Here)
  <2>2. /\ p \in State /\ p.out = Fall /\ p.r = Here.r /\ p.m = Here.m
        /\ p.x = [Here.x EXCEPT ![d] = v]
    BY PutXFacts
  <2>3. q = Exec(i, p)
    BY <2>1, <2>2, ReachesTwo
  <2> HIDE DEF p
  <2> QED
    BY <1>1, <2>2, <2>3 DEF Between
<1>2. CASE s = d
  <2>1. Reaches(<<i>>, Here, q)
    BY <1>2, Concat0 DEF When
  <2> QED
    BY <1>2, <2>1, ReachesOne DEF Between
<1> QED
  BY <1>1, <1>2

(* The same for a result of JitAsm's, with p the processor in between.     *)
LEMMA XmmPairGood ==
  ASSUME NEW c, c.op \in Asm!ToXmm, c.d \in Reg, Here \in State, Here.out = Fall,
         NEW p \in State, p.out = Fall, p.r = Here.r, p.m = Here.m,
         NEW u \in Lanes, p.x = [Here.x EXCEPT ![c.d] = u],
         NEW v \in Lanes, NEW q, q = PutX(p, c.d, v),
         Asm!Sound(c) => v = Asm!ResultX(c)
  PROVE  Good(c, q)
<1> DEFINE b == [p EXCEPT !.x = Here.x]
<1>1. /\ b \in State /\ b.x = Here.x /\ b.r = p.r /\ b.m = p.m /\ b.out = p.out
      /\ b.cmp = p.cmp
  BY DEF State
<1>2. [p.x EXCEPT ![c.d] = v] = [b.x EXCEPT ![c.d] = v]
  BY <1>1 DEF State
<1>3. q = PutX(b, c.d, v)
  BY <1>1, <1>2 DEF PutX, State
<1>4. Kept(Here, b, {0}, {})
  BY <1>1 DEF Kept
<1> HIDE DEF b
<1> QED
  BY <1>1, <1>3, <1>4, XmmGood

(* The operations on floats end as JitAsm says.                            *)
LEMMA FloatGood ==
  ASSUME NEW c, NEW q, Executed(c, q), c.op \in Scalar3 \cup Packed3
  PROVE  Good(c, q)
<1>1. /\ c \in Calls /\ Here \in State /\ Here.out = Fall
      /\ c.d \in Reg /\ c.s \in Reg /\ c.t \in Reg
      /\ c.op \in Asm!ToXmm
  <2>1. c \in Calls /\ c.d # R0 /\ c.s # R0 /\ c.t # R0
    BY CallTypes DEF Executed
  <2>2. c.d \in Reg /\ c.s \in Reg /\ c.t \in Reg
    BY <2>1, CallFields, Registers
  <2> QED
    BY <2>1, <2>2
       DEF Executed, Asm!ToXmm, Asm!Float, Asm!Float4, Scalar3, Packed3
<1>2. Asm!Sound(c) => c.t # c.d \/ c.s = c.d
  <2>1. c.op \in DOMAIN Asm!Float \cup DOMAIN Asm!Float4
    BY DEF Asm!Float, Asm!Float4, Scalar3, Packed3
  <2> QED
    BY <1>1, <2>1 DEF Asm!Sound, Asm!Survives, Asm!R0, Reg
<1>3. Here.x[c.d] \in Lanes /\ Here.x[c.s] \in Lanes /\ Here.x[c.t] \in Lanes
  BY <1>1, StateFields
<1>4. /\ Here.x[c.s].lo \in Word /\ Here.x[c.s].hi \in Word
      /\ Here.x[c.d].hi \in Word
  BY <1>3, LanesFields
<1>5. Here.x \in [Reg -> Lanes]
  BY <1>1 DEF State
<1>6. CASE c.op \in Scalar3
  <2> DEFINE op == ScalarMacro[c.op]
             fop == Asm!Float[c.op]
             a == RRF("MOVSS", c.d, c.s)
             i == RRF(op, c.d, c.t)
             u == [Here.x[c.d] EXCEPT !.lo = Here.x[c.s].lo]
  <2>1. op \in ScalarIs /\ fop \in FAluOp /\ ScalarOp[op] = fop
    BY <1>6, FloatNames
  <2>2. Reaches(When(c.s # c.d, <<a>>) \o <<i>>, Here, q)
    BY <1>6, EmitCases DEF Executed, JIT_FLOAT
  <2>3. u \in Lanes /\ Exec(a, Here) = PutX(Here, c.d, u)
    BY <1>1, <1>3, <1>4, ExecMovss, LanesFields
  <2>4. \A p : Exec(i, p) = PutX(p, c.d, [p.x[c.d] EXCEPT
                                            !.lo = FAlu(fop, p.x[c.d].lo, p.x[c.t].lo)])
    BY <1>1, <2>1, ExecScalar
  <2>5. u.lo = Here.x[c.s].lo /\ u.hi = Here.x[c.d].hi
    BY <1>3 DEF Lanes
  <2>6. c.s = c.d => u = Here.x[c.d]
    BY <1>3 DEF Lanes
  <2> HIDE DEF a, i, op, u
  <2>7. PICK p \in State :
          /\ q = Exec(i, p)
          /\ p.out = Fall /\ p.r = Here.r /\ p.m = Here.m
          /\ p.x = IF c.s # c.d THEN [Here.x EXCEPT ![c.d] = u] ELSE Here.x
    <3>1. PICK p : Between(p, q, i, c.d, c.s, u)
      BY <1>1, <2>2, <2>3, XmmPair
    <3> QED
      BY <3>1 DEF Between
  <2>8. p.x = [Here.x EXCEPT ![c.d] = u]
    BY <1>1, <1>5, <2>6, <2>7
  <2>9. p.x[c.d] = u /\ (c.t # c.d => p.x[c.t] = Here.x[c.t])
    BY <1>1, <1>5, <2>8
  <2>10. p.x[c.d] \in Lanes /\ p.x[c.t] \in Lanes
    BY <1>1, <2>7, StateFields
  <2>11. p.x[c.d].lo \in Word /\ p.x[c.t].lo \in Word
    BY <2>10, LanesFields
  <2> DEFINE w == FAlu(fop, p.x[c.d].lo, p.x[c.t].lo)
             v == [p.x[c.d] EXCEPT !.lo = w]
  <2>12. w \in Word
    BY <2>1, <2>11, WordTypes
  <2>13. v \in Lanes /\ v = [lo |-> w, hi |-> u.hi]
    BY <2>9, <2>10, <2>12, LanesFields DEF Lanes
  <2>14. q = PutX(p, c.d, v)
    BY <2>4, <2>7
  <2>15. Asm!ResultX(c) = [lo |-> FAlu(fop, Here.x[c.s].lo, Here.x[c.t].lo),
                           hi |-> Here.x[c.d].hi]
    BY <1>6, ResultsX
  <2>16. ASSUME Asm!Sound(c) PROVE v = Asm!ResultX(c)
    <3>1. p.x[c.t].lo = Here.x[c.t].lo
      <4>1. CASE c.t # c.d
        BY <2>9, <4>1
      <4>2. CASE c.t = c.d /\ c.s = c.d
        BY <2>5, <2>9, <4>2
      <4> QED
        BY <1>2, <2>16, <4>1, <4>2
    <3>2. w = FAlu(fop, Here.x[c.s].lo, Here.x[c.t].lo)
      BY <2>5, <2>9, <3>1
    <3> QED
      BY <2>5, <2>13, <2>15, <3>2
  <2> HIDE DEF v
  <2> QED
    BY <1>1, <2>3, <2>7, <2>8, <2>13, <2>14, <2>16, XmmPairGood
<1>7. CASE c.op \in Packed3
  <2> DEFINE op == PackedMacro[c.op]
             fop == Asm!Float4[c.op]
             a == RR0("MOVUPS", c.d, c.s)
             i == RR0(op, c.d, c.t)
             u == Here.x[c.s]
  <2>1. op \in PackedIs /\ fop \in FAluOp /\ PackedOp[op] = fop
    BY <1>7, FloatNames
  <2>2. Reaches(When(c.s # c.d, <<a>>) \o <<i>>, Here, q)
    BY <1>7, EmitCases DEF Executed, JIT_FLOAT4
  <2>3. Exec(a, Here) = PutX(Here, c.d, u)
    BY <1>1, ExecMovups
  <2>4. \A p : Exec(i, p) = PutX(p, c.d, [lo |-> FAlu(fop, p.x[c.d].lo, p.x[c.t].lo),
                                          hi |-> FAlu(fop, p.x[c.d].hi, p.x[c.t].hi)])
    BY <1>1, <2>1, ExecPacked
  <2> HIDE DEF a, i, op
  <2>7. PICK p \in State :
          /\ q = Exec(i, p)
          /\ p.out = Fall /\ p.r = Here.r /\ p.m = Here.m
          /\ p.x = IF c.s # c.d THEN [Here.x EXCEPT ![c.d] = u] ELSE Here.x
    <3>1. PICK p : Between(p, q, i, c.d, c.s, u)
      BY <1>1, <1>3, <2>2, <2>3, XmmPair
    <3> QED
      BY <3>1 DEF Between
  <2>8. p.x = [Here.x EXCEPT ![c.d] = u]
    BY <1>1, <1>5, <2>7
  <2>9. p.x[c.d] = u /\ (c.t # c.d => p.x[c.t] = Here.x[c.t])
    BY <1>1, <1>5, <2>8
  <2>10. p.x[c.d] \in Lanes /\ p.x[c.t] \in Lanes
    BY <1>1, <2>7, StateFields
  <2>11. /\ p.x[c.d].lo \in Word /\ p.x[c.t].lo \in Word
         /\ p.x[c.d].hi \in Word /\ p.x[c.t].hi \in Word
    BY <2>10, LanesFields
  <2> DEFINE wl == FAlu(fop, p.x[c.d].lo, p.x[c.t].lo)
             wh == FAlu(fop, p.x[c.d].hi, p.x[c.t].hi)
             v == [lo |-> wl, hi |-> wh]
  <2>12. wl \in Word /\ wh \in Word
    BY <2>1, <2>11, WordTypes
  <2>13. v \in Lanes
    BY <2>12, LanesFields
  <2>14. q = PutX(p, c.d, v)
    BY <2>4, <2>7
  <2>15. Asm!ResultX(c) = [lo |-> FAlu(fop, Here.x[c.s].lo, Here.x[c.t].lo),
                           hi |-> FAlu(fop, Here.x[c.s].hi, Here.x[c.t].hi)]
    BY <1>7, ResultsX
  <2>16. ASSUME Asm!Sound(c) PROVE v = Asm!ResultX(c)
    <3>1. p.x[c.t] = Here.x[c.t]
      BY <1>2, <2>9, <2>16
    <3> QED
      BY <2>9, <2>15, <3>1
  <2> HIDE DEF v
  <2> QED
    BY <1>1, <1>3, <2>7, <2>8, <2>13, <2>14, <2>16, XmmPairGood
<1> QED
  BY <1>6, <1>7

(* JIT_ITOF does.                                                          *)
LEMMA FromIntegerGood ==
  ASSUME NEW c, NEW q, Executed(c, q), c.op = "ITOF"
  PROVE  Good(c, q)
<1>1. /\ c \in Calls /\ Here \in State /\ Here.out = Fall /\ c.s \in Number
      /\ c.d \in Reg /\ c.op \in Asm!ToXmm
  <2>1. c \in Calls /\ c.d # R0
    BY CallTypes DEF Executed
  <2>2. c.d \in Reg /\ c.s \in Number
    BY <2>1, CallFields, Registers
  <2> QED
    BY <2>1, <2>2 DEF Executed, Asm!ToXmm
<1> DEFINE a == RRF("PXOR", c.d, c.d)
           i == RRF("CVTSI2SS", c.d, c.s)
           z == [lo |-> Zero, hi |-> Zero]
<1>2. Reaches(<<a>> \o When(c.s # R0, <<i>>), Here, q)
  BY EmitCases DEF Executed, JIT_ITOF
<1>3. z \in Lanes /\ Exec(a, Here) = PutX(Here, c.d, z)
  BY <1>1, ExecPxor, LanesFields, Constants
<1>4. Asm!ResultX(c) = [lo |-> FromInt(Asm!Val(c.s)), hi |-> Zero]
  BY ResultsX
<1>5. CASE c.s = R0
  <2> HIDE DEF a, i
  <2>1. Reaches(<<a>>, Here, q)
    BY <1>2, <1>5, Concat0 DEF When
  <2>2. q = PutX(Here, c.d, z)
    BY <1>3, <2>1, ReachesOne
  <2>3. Asm!ResultX(c) = z
    BY <1>4, <1>5, ZeroReads, WordLaws
  <2>4. Kept(Here, Here, {0}, {})
    BY DEF Kept
  <2> HIDE DEF z
  <2> QED
    BY <1>1, <1>3, <2>2, <2>3, <2>4, XmmGood
<1>6. CASE c.s # R0
  <2>1. c.s \in Reg /\ Asm!Val(c.s) = Here.r[c.s]
    BY <1>1, <1>6, Registers
  <2>2. \A p : Exec(i, p) = PutX(p, c.d, [p.x[c.d] EXCEPT !.lo = FromInt(p.r[c.s])])
    BY <1>1, <2>1, ExecFromInteger
  <2>3. z.lo = Zero /\ z.hi = Zero
    OBVIOUS
  <2> HIDE DEF a, i, z
  <2>4. PICK p : p = Exec(a, Here)
    OBVIOUS
  <2>5. /\ p \in State /\ p.out = Fall /\ p.r = Here.r /\ p.m = Here.m
        /\ p.x = [Here.x EXCEPT ![c.d] = z]
    BY <1>1, <1>3, <2>4, PutXFacts
  <2>6. Reaches(<<a, i>>, Here, q)
    BY <1>2, <1>6, Concat1 DEF When
  <2>7. q = Exec(i, p)
    BY <2>4, <2>5, <2>6, ReachesTwo
  <2> DEFINE w == FromInt(Here.r[c.s])
             v == [lo |-> w, hi |-> Zero]
  <2>8. w \in Word /\ v \in Lanes
    BY <1>1, <2>1, StateFields, WordTypes, LanesFields, Constants
  <2>9. p.x[c.d] = z
    BY <1>1, <2>5 DEF State
  <2>10. q = PutX(p, c.d, [z EXCEPT !.lo = w])
    BY <2>2, <2>5, <2>7, <2>9
  <2>11. [z EXCEPT !.lo = w] = v
    BY <1>3, <2>3 DEF Lanes
  <2>12. Asm!ResultX(c) = v
    BY <1>4, <2>1
  <2> HIDE DEF v
  <2> QED
    BY <1>1, <1>3, <2>5, <2>8, <2>10, <2>11, <2>12, XmmPairGood
<1> QED
  BY <1>5, <1>6

-----------------------------------------------------------------------------
(* All of them.                                                            *)

(* The code of a call ends in what JitAsm lets the call end in.            *)
LEMMA AllGood ==
  ASSUME NEW c, NEW q, Executed(c, q)
  PROVE  Good(c, q)
<1>1. c.op \in Integer3 \cup Integer2 \cup Scalar3 \cup Packed3 \cup
               {"JUMP", "BRANCH", "NBRANCH", "CALL", "CALLEX", "RETURN", "LOADF",
                "STOREF", "ITOF", "FTOI", "LESSF", "LOADF4", "STOREF4"}
  BY CallFields DEF Executed
<1>2. CASE c.op \in Integer3
  BY <1>2, AdditiveGood, MultiplyGood, DivideGood, ShiftGood, LogicGood, LessGood
     DEF Integer3
<1>3. CASE c.op \in Integer2
  BY <1>3, AddImmediateGood, ShiftImmediateGood, LoadGood, StoreIntegerGood
     DEF Integer2
<1>4. CASE c.op \in Scalar3 \cup Packed3
  BY <1>4, FloatGood
<1>5. CASE c.op \in {"JUMP", "BRANCH", "NBRANCH", "CALL", "CALLEX", "RETURN"}
  BY <1>5, LeaveGood, BranchGood
<1>6. CASE c.op \in {"LOADF", "STOREF", "LOADF4", "STOREF4"}
  BY <1>6, LoadFloatGood, StoreFloatGood
<1>7. CASE c.op \in {"ITOF", "FTOI", "LESSF"}
  BY <1>7, FromIntegerGood, ToIntegerGood, LessFloatGood
<1> QED
  BY <1>1, <1>2, <1>3, <1>4, <1>5, <1>6, <1>7

-----------------------------------------------------------------------------
(* The processor within a call.                                            *)

(* The processor is j instructions into the code of call n, all of which   *)
(* fell through; and only a JIT_LOADF damages code.                        *)
Into(j, code) ==
  /\ Len(todo) = Len(code) - j
  /\ \A i \in 1 .. Len(todo) : todo[i] = code[j + i]
  /\ cpu = After(j, code, base)
  /\ \A i \in 0 .. j : After(i, code, base).out = Fall

Running ==
  /\ todo # <<>> => /\ phase = "run" /\ n \in DOMAIN block
                    /\ \E j \in 0 .. Len(block[n].code) - 1 : Into(j, block[n].code)
  /\ intact \/ \E k \in DOMAIN block : block[k].call.op = "LOADF"

(* What is known of the entries of a block.                                *)
LEMMA BlockFields ==
  ASSUME Typed, NEW k \in DOMAIN block
  PROVE  /\ block[k].call \in Calls /\ block[k].code = Code(block[k].call)
         /\ block[k].code \in Seq(Instr) /\ Len(block[k].code) \in Nat
         /\ Len(block[k].code) <= 6
<1>1. block[k] \in Entries
  BY DEF Typed
<1>2. block[k].call \in Calls /\ block[k].code \in Seq(Instr)
  BY <1>1 DEF Entries
<1>3. block[k].code = Code(block[k].call)
  BY DEF Typed
<1> DEFINE code == block[k].code
<1>4. Len(code) <= MaxCode
  BY <1>2, <1>3, EmitType
<1>5. Len(code) \in Nat
  BY <1>2
<1> HIDE DEF code
<1>6. Len(code) <= 6
  BY <1>4, <1>5 DEF MaxCode
<1> QED
  BY <1>2, <1>3, <1>5, <1>6 DEF code

(* A step of the processor stays within the call or ends it.               *)
LEMMA RunStep ==
  ASSUME Typed, Running, Run
  PROVE  /\ n \in DOMAIN block /\ phase = "run" /\ base.out = Fall
         /\ todo' = <<>> => Reaches(block[n].code, base, cpu')
         /\ todo' # <<>> => \E j \in 0 .. Len(block[n].code) - 1 : Into(j, block[n].code)'
<1>1. todo # <<>> /\ cpu' = Exec(Head(todo), cpu)
      /\ todo' = (IF cpu'.out = Fall THEN Tail(todo) ELSE <<>>)
      /\ UNCHANGED <<emitVars, phase, n, base>>
  BY DEF Run, Ran
<1>2. n \in DOMAIN block /\ phase = "run"
  BY <1>1 DEF Running
<1> DEFINE code == block[n].code
<1>3. /\ code = block[n].code
      /\ \E j \in 0 .. Len(code) - 1 : Into(j, code)
  BY <1>1 DEF Running
<1>4. code \in Seq(Instr) /\ Len(code) \in Nat /\ Len(code) <= 6
  BY <1>2, <1>3, BlockFields
<1>12. block' = block /\ n' = n
  BY <1>1 DEF emitVars
<1>13. code' = code
  BY <1>12
<1> HIDE DEF code
<1>5. PICK j \in 0 .. Len(code) - 1 : Into(j, code)
  BY <1>3
<1>6. /\ todo \in Seq(Instr) /\ Len(todo) \in Nat /\ Len(todo) >= 1
      /\ Head(todo) = todo[1]
      /\ Tail(todo) \in Seq(Instr) /\ Len(Tail(todo)) = Len(todo) - 1
      /\ \A i \in 1 .. Len(todo) - 1 : Tail(todo)[i] = todo[i + 1]
  <2>1. todo \in Seq(Instr)
    BY DEF Typed
  <2> QED
    BY <1>1, <2>1, HeadTailProperties
<1>7. Head(todo) = code[j + 1]
  BY <1>4, <1>5, <1>6 DEF Into
<1>8. cpu' = After(j + 1, code, base)
  <2>3. Len(code) \in Int /\ Len(code) <= 6
    BY <1>4
  <2>4. j \in Int /\ 0 <= j /\ j <= Len(code) - 1
    BY <1>5, <2>3
  <2>1. j \in 0 .. 5
    BY <2>3, <2>4
  <2>2. After(j + 1, code, base) = Exec(code[j + 1], After(j, code, base))
    BY <2>1, AfterNext
  <2> QED
    BY <1>1, <1>5, <1>7, <2>2 DEF Into
<1>9. base.out = Fall
  BY <1>4, <1>5, AfterNext DEF Into
<1>10. ASSUME todo' = <<>> PROVE Reaches(code, base, cpu')
  <2>1. j + 1 = Len(code) \/ cpu'.out # Fall
    <3>1. CASE cpu'.out = Fall
      <4>1. Tail(todo) = <<>>
        BY <1>1, <1>10, <3>1
      <4>2. Len(todo) - 1 = 0
        BY <1>6, <4>1
      <4>3. Len(todo) = Len(code) - j
        BY <1>5 DEF Into
      <4>4. Len(todo) \in Int /\ Len(code) \in Int /\ j \in Int
        BY <1>4, <1>5, <1>6
      <4> QED
        BY <4>2, <4>3, <4>4
    <3> QED
      BY <3>1
  <2>2. j + 1 \in 1 .. Len(code) /\ (j + 1) - 1 = j
    BY <1>4, <1>5
  <2>3. code # <<>>
    BY <1>4, <1>5
  <2>4. \A i \in 0 .. j : After(i, code, base).out = Fall
    BY <1>5 DEF Into
  <2> QED
    BY <1>8, <2>1, <2>2, <2>3, <2>4 DEF Reaches, Ends
<1>11. ASSUME todo' # <<>>
       PROVE  \E k \in 0 .. Len(code) - 1 : Into(k, code)'
  <2>1. cpu'.out = Fall /\ todo' = Tail(todo)
    BY <1>1, <1>11
  <2>2. Len(todo) >= 2
    BY <1>6, <1>11, <2>1
  <2>3. Len(todo) = Len(code) - j /\ \A i \in 1 .. Len(todo) : todo[i] = code[j + i]
    BY <1>5 DEF Into
  <2>4. j + 1 \in 0 .. Len(code) - 1
    BY <1>4, <1>5, <1>6, <2>2, <2>3
  <2>5. /\ Len(todo') = Len(code) - (j + 1)
        /\ \A i \in 1 .. Len(todo') : todo'[i] = code[(j + 1) + i]
    BY <1>4, <1>5, <1>6, <2>1, <2>3
  <2>6. base' = base
    BY <1>1
  <2>7. \A i \in 0 .. j + 1 : After(i, code, base').out = Fall
    <3>1. \A i \in 0 .. j : After(i, code, base).out = Fall
      BY <1>5 DEF Into
    <3>2. After(j + 1, code, base).out = Fall
      BY <1>8, <2>1
    <3> QED
      BY <1>4, <1>5, <2>6, <3>1, <3>2
  <2>8. Into(j + 1, code)'
    BY <1>8, <1>13, <2>5, <2>6, <2>7 DEF Into
  <2> QED
    BY <2>4, <2>8
<1> QED
  BY <1>2, <1>9, <1>10, <1>11, <1>12 DEF code

(* Running holds before the first call.                                    *)
LEMMA RunningInit == Init => Running
BY DEF Init, Running

(* Every step preserves Running.                                           *)
LEMMA RunningNext == Typed /\ Running /\ [Next]_vars => Running'
<1> SUFFICES ASSUME Typed, Running, [Next]_vars PROVE Running'
  OBVIOUS
<1>1. ASSUME UNCHANGED <<block, intact, n, todo, cpu, base>>, phase' = phase \/ todo = <<>>
      PROVE  Running'
  <2>1. \A j, code : Into(j, code)' <=> Into(j, code)
    BY <1>1 DEF Into
  <2> QED
    BY <1>1, <2>1 DEF Running
<1>2. ASSUME NEW c \in Calls, Call(c) PROVE Running'
  <2>1. todo = <<>> /\ todo' = <<>>
    BY <1>2 DEF Call, Running, runVars
  <2>2. CASE Crashed
    BY <1>1, <2>1, <2>2 DEF Crashed, emitVars, runVars
  <2>3. CASE Emitted(c)
    <3> DEFINE e == [call |-> c, at |-> buffer, code |-> Code(c)]
    <3>1. block' = Append(block, e) /\ block \in Seq(Entries)
      BY <2>3 DEF Emitted, Typed
    <3>2. e.call = c
      OBVIOUS
    <3> HIDE DEF e
    <3>3. PICK L \in Nat : L = Len(block)
      BY <3>1
    <3>4. /\ DOMAIN block = 1 .. L /\ DOMAIN block' = 1 .. L + 1
          /\ \A k \in 1 .. L : block'[k] = block[k]
          /\ block'[L + 1] = e
      BY <3>1, <3>3
    <3>5. CASE c.op = "LOADF"
      <4>1. L + 1 \in DOMAIN block' /\ block'[L + 1].call.op = "LOADF"
        BY <3>2, <3>3, <3>4, <3>5
      <4> QED
        BY <2>1, <4>1 DEF Running
    <3>6. CASE c.op # "LOADF"
      <4>1. intact' = intact
        BY <2>3, <3>6 DEF Emitted
      <4>2. CASE intact
        BY <2>1, <4>1, <4>2 DEF Running
      <4>3. CASE ~ intact
        <5>1. PICK k \in 1 .. L : block[k].call.op = "LOADF"
          BY <3>4, <4>3 DEF Running
        <5>2. k \in DOMAIN block' /\ block'[k].call.op = "LOADF"
          BY <3>3, <3>4, <5>1
        <5> QED
          BY <2>1, <5>2 DEF Running
      <4> QED
        BY <4>2, <4>3
    <3> QED
      BY <3>5, <3>6
  <2> QED
    BY <1>2, <2>2, <2>3, CallEnds
<1>3. CASE Start
  <2>1. todo = <<>>
    BY <1>3 DEF Start, Running
  <2> QED
    BY <1>1, <1>3, <2>1 DEF Start, emitVars, runVars
<1>4. CASE Reach
  <2>1. /\ phase = "run" /\ phase' = "run" /\ n' = n + 1 /\ n + 1 \in DOMAIN block
        /\ cpu.out = Fall /\ block' = block /\ intact' = intact
        /\ todo' = block[n + 1].code /\ base' = cpu /\ cpu' = cpu
    BY <1>4 DEF Reach, Typed, emitVars
  <2>2. PICK code : code = block[n + 1].code
    OBVIOUS
  <2>3. code \in Seq(Instr) /\ Len(code) \in Nat
    BY <2>1, <2>2, BlockFields
  <2>4. Into(0, code)'
    <3>1. Len(todo') = Len(code) - 0 /\ \A i \in 1 .. Len(todo') : todo'[i] = code[0 + i]
      BY <2>1, <2>2, <2>3
    <3>2. cpu' = After(0, code, base') /\ After(0, code, base').out = Fall
      BY <2>1, AfterNext
    <3>3. \A i \in 0 .. 0 : After(i, code, base').out = Fall
      BY <3>2
    <3> QED
      BY <3>1, <3>2, <3>3 DEF Into
  <2>5. ASSUME todo' # <<>> PROVE \E j \in 0 .. Len(code) - 1 : Into(j, code)'
    <3>1. 0 \in 0 .. Len(code) - 1
      BY <2>1, <2>2, <2>3, <2>5
    <3> QED
      BY <2>4, <3>1
  <2>6. intact' \/ \E k \in DOMAIN block' : block'[k].call.op = "LOADF"
    BY <2>1 DEF Running
  <2>7. block'[n'].code = code /\ n' \in DOMAIN block'
    BY <2>1, <2>2
  <2> QED
    BY <2>1, <2>5, <2>6, <2>7 DEF Running
<1>5. CASE Run
  <2>1. /\ n \in DOMAIN block /\ phase = "run"
        /\ todo' # <<>> => \E j \in 0 .. Len(block[n].code) - 1 : Into(j, block[n].code)'
    BY <1>5, RunStep
  <2>2. block' = block /\ n' = n /\ phase' = phase /\ intact' = intact
    BY <1>5 DEF Run, Ran, emitVars
  <2> QED
    BY <2>1, <2>2 DEF Running
<1>6. CASE RunDamaged
  <2>1. todo' = <<>>
    BY <1>6 DEF RunDamaged, Ran, Leave, Fall, Typed, State
  <2>2. block' = block /\ intact' = intact
    BY <1>6 DEF RunDamaged, Ran, emitVars
  <2> QED
    BY <2>1, <2>2 DEF Running
<1>7. CASE UNCHANGED vars
  BY <1>1, <1>7 DEF vars, emitVars, runVars
<1> QED
  BY <1>2, <1>3, <1>4, <1>5, <1>6, <1>7 DEF Next

-----------------------------------------------------------------------------
(* The steps.                                                              *)

(* The calls of the block, which are the program of JitAsm.                *)
Prog == [k \in DOMAIN block |-> block[k].call]

(* Where JitAsm is.                                                        *)
Done == IF todo = <<>> THEN n ELSE n - 1

(* The variables of JitAsm.                                                *)
Abstract == <<Prog, phase = "run", Done, View(Here)>>

(* The program of JitAsm is the calls of the block.                        *)
LEMMA ProgIs ==
  ASSUME Typed
  PROVE  Prog \in Seq(Calls) /\ Len(Prog) = Len(block)
<1>1. PICK L \in Nat : L = Len(block) /\ DOMAIN block = 1 .. L
  BY DEF Typed
<1>2. \A k \in 1 .. L : block[k].call \in Calls
  BY <1>1, BlockFields
<1> QED
  BY <1>1, <1>2 DEF Prog

(* The state of JitAsm while the processor is between two calls.           *)
LEMMA AbstractIs ==
  /\ Asm!asmVars = Abstract
  /\ Asm!asmVars' = Abstract'
BY DEF Asm!asmVars, Abstract, Prog, Done, Here

(* A call that is done.                                                    *)
LEMMA ExecuteStep ==
  ASSUME Typed, phase = "run", phase' = "run", block' = block, Here.out = Fall,
         NEW k \in DOMAIN block, Done = k - 1, todo' = <<>>, n' = k,
         \/ Good(block[k].call, cpu')
         \/ /\ \E j \in DOMAIN block : block[j].call.op = "LOADF"
            /\ cpu'.out[1] = "lost"
  PROVE  Asm!Execute
<1> DEFINE c == block[k].call
<1>1. k \in 1 .. Len(block) /\ Len(Prog) = Len(block) /\ DOMAIN Prog = DOMAIN block
  BY ProgIs DEF Prog, Typed
<1>2. Prog[Done + 1] = c /\ Done < Len(Prog) /\ Done' = Done + 1
  BY <1>1 DEF Prog, Done
<1>3. View(Here).out = Asm!Fall
  BY DEF View, Asm!Fall, Fall
<1>4. Prog' = Prog
  BY DEF Prog
<1>5. View(Here)' = View(cpu')
  BY DEF Here
<1>6. \/ Asm!Sound(c) /\ Asm!Meaning(c, View(cpu'))
      \/ ~ Asm!Sound(c) /\ (Asm!LosesStack(c) \/ Asm!Footprint(c, View(cpu')))
      \/ ~ Asm!Sound(c) /\ c.op = "DIV" /\ View(cpu').out[1] = "fault"
      \/ ~ Asm!Sound(c) /\ c.op \in Asm!Loads \cup Asm!Stores /\ View(cpu').out[1] = "lost"
      \/ Asm!Damaged /\ View(cpu').out[1] = "lost"
  <2>1. CASE Good(c, cpu')
    BY <2>1 DEF Good, MayLose
  <2>2. CASE /\ \E j \in DOMAIN block : block[j].call.op = "LOADF"
             /\ cpu'.out[1] = "lost"
    <3>1. Asm!Damaged
      BY <2>2, <1>1 DEF Asm!Damaged, Prog
    <3> QED
      BY <2>2, <3>1 DEF View
  <2> QED
    BY <2>1, <2>2
<1> HIDE DEF c
<1> QED
  BY <1>2, <1>3, <1>4, <1>5, <1>6 DEF Asm!Execute, Prog, Done, Here

(* Every step of Jit is a step of JitAsm, or none.                         *)
LEMMA StepMaps ==
  Typed /\ Running /\ [Next]_vars
  => [Asm!Extend \/ Asm!Begin \/ Asm!Execute]_(Asm!asmVars)
<1> SUFFICES ASSUME Typed, Running, [Next]_vars
             PROVE  Asm!Extend \/ Asm!Begin \/ Asm!Execute \/ Abstract' = Abstract
  BY AbstractIs
<1>1. ASSUME NEW c \in Calls, Call(c)
      PROVE  Asm!Extend \/ Abstract' = Abstract
  <2>1. phase = "emit"
    BY <1>1 DEF Call
  <2>2. CASE Crashed
    BY <2>1, <2>2 DEF Crashed, emitVars, runVars, Abstract, Prog, Done, Here
  <2>3. CASE Emitted(c)
    <3> DEFINE e == [call |-> c, at |-> buffer, code |-> Code(c)]
    <3>1. block' = Append(block, e) /\ block \in Seq(Entries)
      BY <2>3 DEF Emitted, Typed
    <3>2. e.call = c
      OBVIOUS
    <3> HIDE DEF e
    <3>3. PICK L \in Nat : L = Len(block)
      BY <3>1
    <3>4. /\ DOMAIN block = 1 .. L /\ DOMAIN block' = 1 .. L + 1
          /\ \A k \in 1 .. L : block'[k] = block[k]
          /\ block'[L + 1] = e
      BY <3>1, <3>3
    <3>5. Prog \in Seq(Calls) /\ Len(Prog) = L /\ \A k \in 1 .. L : Prog[k] = block[k].call
      BY <3>3, <3>4, ProgIs DEF Prog
    <3>6. /\ Append(Prog, c) \in Seq(Calls) /\ Len(Append(Prog, c)) = L + 1
          /\ \A k \in 1 .. L : Append(Prog, c)[k] = block[k].call
          /\ Append(Prog, c)[L + 1] = c
      BY <3>5, AppendProperties
    <3>7. Prog' \in Seq(Calls) /\ Len(Prog') = L + 1
      <4>1. \A k \in 1 .. L + 1 : block'[k].call \in Calls
        BY <3>2, <3>4, BlockFields
      <4> QED
        BY <3>4, <4>1 DEF Prog
    <3>8. \A k \in 1 .. L + 1 : Prog'[k] = Append(Prog, c)[k]
      BY <3>2, <3>4, <3>6 DEF Prog
    <3>9. Prog' = Append(Prog, c)
      BY <3>6, <3>7, <3>8, SeqEqual
    <3>10. phase' = phase /\ Done' = Done /\ Here' = Here
      BY <2>3 DEF Emitted, runVars, Done, Here
    <3>11. Asm!Extend
      BY <2>1, <3>9, <3>10 DEF Asm!Extend, Prog, Done, Here
    <3> QED
      BY <3>11
  <2> QED
    BY <1>1, <2>2, <2>3, CallEnds
<1>2. CASE Start
  <2>1. phase' = "run" /\ Prog' = Prog /\ Done' = Done /\ Here' = Here
    BY <1>2 DEF Start, emitVars, runVars, Prog, Done, Here
  <2> QED
    BY <2>1 DEF Asm!Begin, Prog, Done, Here
<1>3. CASE Reach
  <2>1. /\ phase = "run" /\ phase' = "run" /\ n' = n + 1 /\ n + 1 \in DOMAIN block
        /\ cpu.out = Fall /\ block' = block /\ n \in Int
        /\ todo = <<>> /\ todo' = block[n + 1].code /\ base' = cpu /\ cpu' = cpu
    BY <1>3 DEF Reach, Typed, emitVars
  <2>2. Here = cpu /\ Here' = cpu /\ Done = n
    BY <2>1 DEF Here, Done
  <2>3. CASE block[n + 1].code = <<>>
    <3> DEFINE c == block[n + 1].call
    <3>1. c \in Calls /\ Code(c) = <<>>
      BY <2>1, <2>3, BlockFields
    <3>2. Executed(c, cpu')
      BY <2>1, <2>2, <3>1 DEF Executed, Reaches, Typed
    <3>3. Good(c, cpu')
      BY <3>2, AllGood
    <3>4. (n + 1) - 1 = n
      BY <2>1
    <3>5. Asm!Execute
      BY <2>1, <2>2, <2>3, <3>3, <3>4, ExecuteStep
    <3> QED
      BY <3>5
  <2>4. CASE block[n + 1].code # <<>>
    <3>1. Done' = n /\ Prog' = Prog
      BY <2>1, <2>4 DEF Done, Prog
    <3> QED
      BY <2>1, <2>2, <3>1 DEF Abstract
  <2> QED
    BY <2>3, <2>4
<1>4. CASE Run
  <2>1. /\ n \in DOMAIN block /\ phase = "run" /\ base.out = Fall
        /\ todo' = <<>> => Reaches(block[n].code, base, cpu')
    BY <1>4, RunStep
  <2>2. block' = block /\ n' = n /\ phase' = phase /\ base' = base /\ todo # <<>>
    BY <1>4 DEF Run, Ran, emitVars
  <2>3. Here = base /\ Done = n - 1
    BY <2>2 DEF Here, Done
  <2>4. CASE todo' = <<>>
    <3> DEFINE c == block[n].call
    <3>1. c \in Calls /\ Code(c) = block[n].code
      BY <2>1, BlockFields
    <3>2. Executed(c, cpu')
      BY <2>1, <2>3, <2>4, <3>1 DEF Executed, Typed
    <3>3. Good(c, cpu')
      BY <3>2, AllGood
    <3>4. Asm!Execute
      BY <2>1, <2>2, <2>3, <2>4, <3>3, ExecuteStep
    <3> QED
      BY <3>4
  <2>5. CASE todo' # <<>>
    BY <2>2, <2>5 DEF Abstract, Prog, Done, Here
  <2> QED
    BY <2>4, <2>5
<1>5. CASE RunDamaged
  <2>1. /\ todo # <<>> /\ ~ intact /\ cpu' = Leave(cpu, "lost", 0)
        /\ block' = block /\ n' = n /\ phase' = phase /\ base' = base
    BY <1>5 DEF RunDamaged, Ran, emitVars
  <2>2. cpu'.out = <<"lost", 0>>
    BY <2>1, LeaveFacts DEF Typed
  <2>3. todo' = <<>>
    BY <1>5, <2>1, <2>2 DEF RunDamaged, Ran, Fall
  <2>4. n \in DOMAIN block /\ phase = "run"
    BY <2>1 DEF Running
  <2>5. base.out = Fall
    <3>1. PICK j \in 0 .. Len(block[n].code) - 1 : Into(j, block[n].code)
      BY <2>1 DEF Running
    <3>2. 0 \in 0 .. j
      BY <2>4, <3>1, BlockFields
    <3> QED
      BY <3>1, <3>2, AfterNext DEF Into
  <2>6. Here = base /\ Done = n - 1
    BY <2>1 DEF Here, Done
  <2>7. \E k \in DOMAIN block : block[k].call.op = "LOADF"
    BY <2>1 DEF Running
  <2>8. Asm!Execute
    BY <2>1, <2>2, <2>3, <2>4, <2>5, <2>6, <2>7, ExecuteStep
  <2> QED
    BY <2>8
<1>6. CASE UNCHANGED vars
  BY <1>6 DEF vars, emitVars, runVars, Abstract, Prog, Done, Here
<1> QED
  BY <1>1, <1>2, <1>3, <1>4, <1>5, <1>6 DEF Next

(* The emitted code implements the machine of JitAsm.                      *)
THEOREM EmitterImplements == Spec => ImplementsAsm
<1>1. Init => Asm!AsmInit
  <2> SUFFICES ASSUME Init PROVE Asm!AsmInit
    OBVIOUS
  <2>1. cpu.out = Fall /\ todo = <<>> /\ n = 0 /\ block = <<>> /\ phase = "emit"
    BY MachineTypes DEF Init
  <2>2. Prog = <<>>
    BY <2>1 DEF Prog
  <2>3. View(Here).out = Asm!Fall
    BY <2>1 DEF View, Here, Asm!Fall, Fall
  <2> QED
    BY <2>1, <2>2, <2>3 DEF Asm!AsmInit, Prog, Here
<1> QED
  BY <1>1, StepMaps, TypedInit, TypedNext, RunningInit, RunningNext, PTL
     DEF Spec, ImplementsAsm, Asm!AsmSpec
=============================================================================
