-------------------------------- MODULE Jit --------------------------------
(***************************************************************************)
(* jit_compiler_x64.c: the client emits a block of code with the JIT_*     *)
(* calls, and the processor then runs it.                                  *)
(*                                                                         *)
(* A call writes its instructions at p->buffer and records where they      *)
(* start in the table info1; a jump also records itself in info2, for the  *)
(* client to put in the distance: the code emits the offset of a jump as   *)
(* it was given, and nothing in the repository resolves it.  So a run ends *)
(* where it leaves the block.  p->i1 is a pointer, p->i1++ moves it by two *)
(* bytes, and p->info2[0] = p->i1 stores its low 16 bits.                  *)
(***************************************************************************)
EXTENDS X64

CONSTANTS
  Calls,             (* Calls [op, d, s, t, i] of the emitter: registers   *)
                     (* d, s and t, and an offset or immediate i.          *)
  Chained,           (* Bound of the model: calls that may share a block.  *)
  MaxCalls,          (* Bound of the model: calls of a block.              *)
  Machines,          (* Processor states that a block is started in.       *)
  IndexMod,          (* 2^16: entries of info2 are uint16_t.               *)
  Cursors            (* Addresses that p->i1 starts at.                    *)

R0 == -1
SP == RSP

Integer3 == {"ADD", "SUB", "MUL", "DIV", "SHIFTL", "SHIFTR", "AND", "OR", "XOR", "LESS"}
Integer2 == {"ADDI", "SHIFTLI", "SHIFTRI", "LOAD32", "LOAD64", "STORE32", "STORE64"}
Scalar3  == {"ADDF", "SUBF", "MULF", "DIVF", "MINF", "MAXF"}
Packed3  == {"ADDF4", "SUBF4", "MULF4", "DIVF4", "MINF4", "MAXF4"}

ASSUME CallTypes ==
  \A c \in Calls :
    /\ c.op \in Integer3 \cup Integer2 \cup Scalar3 \cup Packed3 \cup
                {"JUMP", "BRANCH", "NBRANCH", "CALL", "CALLEX", "RETURN", "LOADF",
                 "STOREF", "ITOF", "FTOI", "LESSF", "LOADF4", "STOREF4"}
    /\ c.d \in -1 .. 15 /\ c.s \in -1 .. 15 /\ c.t \in -1 .. 15
    /\ c.i \in Int /\ Imm(c.i) \in Word
    /\ c.op \in Scalar3 \cup Packed3 \cup {"ITOF"} => c.d # R0
    /\ c.op \in Scalar3 \cup Packed3 \cup {"LESSF"} => c.s # R0 /\ c.t # R0
    /\ c.op \in {"STOREF4", "FTOI"} => c.s # R0

ASSUME MachineTypes ==
  \A st \in Machines :
    st \in [r : [Reg -> Word], x : [Reg -> Lanes], m : [Word -> Lanes],
            cmp : Word \X Word, out : {Fall}]

ASSUME BoundTypes ==
  /\ IndexMod \in Nat \ {0} /\ IndexMod % 2 = 0
  /\ Cursors \subseteq Nat /\ MaxCalls \in Nat /\ Chained \subseteq Calls

VARIABLES
  block,             (* The emitted code: for every call, its instructions *)
                     (* and the place of the first.                        *)
  buffer,            (* p->buffer, as an offset in the code buffer.        *)
  info1,             (* The entries of the table that were written.        *)
  info2,             (* The jumps.                                         *)
  i1,                (* p->i1.                                             *)
  intact,            (* No code was overwritten.                           *)
  phase,             (* "emit", "run", or "dead" when the emitter crashed. *)
  cpu,               (* The processor.                                     *)
  n, todo,           (* The call it is at, and what is left of its code.   *)
  base               (* History: the processor where that call began.      *)

emitVars == <<block, buffer, info1, info2, i1, intact>>
runVars  == <<cpu, n, todo, base>>
vars     == <<emitVars, phase, runVars>>

-----------------------------------------------------------------------------
(* What the calls emit that are not jumps.                                 *)

When(b, code) == IF b THEN code ELSE <<>>

(* if (s != d) MOV(p->buffer, d, s)                                        *)
Assign(d, s) == When(s # d, <<MOV(d, s)>>)

Load(op, d, s, o) ==
  When(d # R0 /\ s # R0,
       IF s = SP THEN <<MOV(RAX, s), Mem(op, RAX, d, o)>> ELSE <<Mem(op, s, d, o)>>)

(* The macro has the displacement before the register: STORE(dest, off,    *)
(* src) is given d, s, o.                                                  *)
Store(op, d, o, s) ==
  When(d # R0 /\ s # R0,
       IF s = SP THEN <<MOV(RAX, s), Mem(op, d, o, RAX)>> ELSE <<Mem(op, d, o, s)>>)

JIT_LOAD32(d, s, o)  == Load("LOAD32", d, s, o)
JIT_STORE32(d, o, s) == Store("STORE32", d, o, s)
JIT_LOAD64(d, s, o)  == Load("LOAD64", d, s, o)
JIT_STORE64(d, o, s) == Store("STORE64", d, o, s)

Additive(op, d, s, t) ==
  When(d # R0,
       IF s = R0 /\ t = R0 THEN <<MOVI32(d, 0)>>
       ELSE IF s = R0 THEN Assign(d, t)
       ELSE IF t = R0 THEN Assign(d, s)
       ELSE Assign(d, s) \o <<RR(op, d, t)>>)

JIT_ADD(d, s, t) == Additive("ADD", d, s, t)
JIT_SUB(d, s, t) == Additive("SUB", d, s, t)

(* The branches for a sum belong to d = R0; i is taken for a register.     *)
JIT_ADDI(d, s, i) ==
  IF d # R0 THEN When(s = R0, <<MOVI32(d, i)>>)
  ELSE Assign(d, s) \o When(i # 0, <<MOV(d, i)>>)

JIT_MUL(d, s, t) ==
  When(d # R0,
       IF R0 \in {s, t} THEN <<MOVI32(d, 0)>>
       ELSE Assign(d, s) \o <<RR0("IMUL", d, t)>>)

(* Mutant: rdx is not saved.                                               *)
JIT_DIV_Volatile(d, s, t) ==
  When(d # R0,
       IF R0 \in {s, t} THEN <<MOVI32(d, 0)>>
       ELSE <<MOV(RAX, s), Byte("CDQ"), RR("IDIV64", t, 0), MOV(d, RAX)>>)

JIT_DIV(d, s, t) ==
  When(d # R0,
       IF R0 \in {s, t} THEN <<MOVI32(d, 0)>>
       ELSE <<PUSH(RDX), MOV(RAX, s), Byte("CDQ"), RR("IDIV64", t, 0), MOV(d, RAX),
              POP(RDX)>>)

JIT_SHIFT(op, d, s, t) ==
  When(d # R0,
       IF s = R0 THEN <<MOVI32(d, 0)>>
       ELSE IF t = R0 THEN When(s # d, <<MOVI32(s, t)>>)
       ELSE Assign(d, s) \o <<PUSH(RCX), MOV(RCX, t), RR(op, d, 0), POP(RCX)>>)

JIT_SHIFTI(op, d, s, i) ==
  When(d # R0,
       IF s = R0 THEN <<MOVI32(d, 0)>>
       ELSE When(i = R0, When(s # d, <<MOVI32(d, s)>>) \o <<RI8(op, d, i)>>))

JIT_LOGIC(op, d, s, t) ==
  When(d # R0,
       IF s = t THEN (IF s = R0 THEN <<MOVI32(d, 0)>> ELSE Assign(d, s))
       ELSE IF s = R0 THEN Assign(d, t)
       ELSE IF t = R0 THEN Assign(d, s)
       ELSE Assign(d, s) \o <<RR(op, d, t)>>)

Cmp(s, t) ==
  IF s = R0 THEN RI8("CMPI8", t, 0)
  ELSE IF t = R0 THEN RI8("CMPI8", s, 0)
  ELSE RR("CMP64", s, t)

(* A comparison, its condition cc in rax, and the instruction that uses it. *)
Flag(compare, cc, use) == <<compare, OP0(cc, 0, RAX), OP0("MOVZX", RAX, RAX), use>>

JIT_LESS(d, s, t) ==
  When(d # R0,
       IF s = t THEN <<MOVI32(d, 0)>> ELSE Flag(Cmp(s, t), "SETL", MOV(d, RAX)))

JIT_CALLEX(s) == When(s # R0, <<RR("CALL64", s, 0)>>)
JIT_RETURN    == <<Byte("RET")>>

StoreFloat(op, d, o, s) ==
  IF d = SP THEN <<MOV(RAX, d), Mem(op, RAX, s, o)>> ELSE <<Mem(op, d, s, o)>>

JIT_LOADF(d, s, o)   == Load("LOADSS", d, s, o)
JIT_STOREF(d, o, s)  == When(d # R0 /\ s # R0, StoreFloat("STORESS", d, o, s))
JIT_ITOF(d, s)       == <<RRF("PXOR", d, d)>> \o When(s # R0, <<RRF("CVTSI2SS", d, s)>>)
JIT_FTOI(d, s)       == When(d # R0, <<RRF("CVTSS2SI", d, s)>>)
JIT_LESSF(d, s, t)   == Flag(RR0("UCOMISS", s, t), "SETA", MOV(d, RAX))
JIT_LOADF4(d, s, o)  == Load("LOADUPS", d, s, o)
JIT_STOREF4(d, o, s) == When(d # R0, StoreFloat("STOREUPS", d, o, s))

(* JIT_ADDF .. JIT_DIVF, JIT_MINF, JIT_MAXF; and for four lanes.           *)
JIT_FLOAT(op, d, s, t)  == When(s # d, <<RRF("MOVSS", d, s)>>) \o <<RRF(op, d, t)>>
JIT_FLOAT4(op, d, s, t) == When(s # d, <<RR0("MOVUPS", d, s)>>) \o <<RR0(op, d, t)>>

ScalarMacro == [ADDF |-> "ADDSS", SUBF |-> "SUBSS", MULF |-> "MULSS", DIVF |-> "DIVSS",
                MINF |-> "MINSS", MAXF |-> "MAXSS"]
PackedMacro == [ADDF4 |-> "ADDPS", SUBF4 |-> "SUBPS", MULF4 |-> "MULPS",
                DIVF4 |-> "DIVPS", MINF4 |-> "MINPS", MAXF4 |-> "MAXPS"]

Emit(c) ==
  CASE c.op = "ADD"     -> JIT_ADD(c.d, c.s, c.t)
    [] c.op = "SUB"     -> JIT_SUB(c.d, c.s, c.t)
    [] c.op = "ADDI"    -> JIT_ADDI(c.d, c.s, c.i)
    [] c.op = "MUL"     -> JIT_MUL(c.d, c.s, c.t)
    [] c.op = "DIV"     -> JIT_DIV(c.d, c.s, c.t)
    [] c.op = "SHIFTL"  -> JIT_SHIFT("SAL", c.d, c.s, c.t)
    [] c.op = "SHIFTR"  -> JIT_SHIFT("SAR", c.d, c.s, c.t)
    [] c.op = "SHIFTLI" -> JIT_SHIFTI("SALI", c.d, c.s, c.i)
    [] c.op = "SHIFTRI" -> JIT_SHIFTI("SARI", c.d, c.s, c.i)
    [] c.op \in {"AND", "OR", "XOR"} -> JIT_LOGIC(c.op, c.d, c.s, c.t)
    [] c.op = "LESS"    -> JIT_LESS(c.d, c.s, c.t)
    [] c.op = "LOAD32"  -> JIT_LOAD32(c.d, c.s, c.i)
    [] c.op = "LOAD64"  -> JIT_LOAD64(c.d, c.s, c.i)
    [] c.op = "STORE32" -> JIT_STORE32(c.d, c.i, c.s)
    [] c.op = "STORE64" -> JIT_STORE64(c.d, c.i, c.s)
    [] c.op = "CALLEX"  -> JIT_CALLEX(c.s)
    [] c.op = "RETURN"  -> JIT_RETURN
    [] c.op = "LOADF"   -> JIT_LOADF(c.d, c.s, c.i)
    [] c.op = "STOREF"  -> JIT_STOREF(c.d, c.i, c.s)
    [] c.op = "ITOF"    -> JIT_ITOF(c.d, c.s)
    [] c.op = "FTOI"    -> JIT_FTOI(c.d, c.s)
    [] c.op = "LESSF"   -> JIT_LESSF(c.d, c.s, c.t)
    [] c.op = "LOADF4"  -> JIT_LOADF4(c.d, c.s, c.i)
    [] c.op = "STOREF4" -> JIT_STOREF4(c.d, c.i, c.s)
    [] c.op \in Scalar3 -> JIT_FLOAT(ScalarMacro[c.op], c.d, c.s, c.t)
    [] c.op \in Packed3 -> JIT_FLOAT4(PackedMacro[c.op], c.d, c.s, c.t)

-----------------------------------------------------------------------------
(* Emission.                                                               *)

(* No call emits more than six instructions.                               *)
MaxCode == 6

Size(code, k) == IF k \in DOMAIN code THEN code[k].len ELSE 0

Bytes(code) == Size(code, 1) + Size(code, 2) + Size(code, 3) + Size(code, 4)
               + Size(code, 5) + Size(code, 6)

(* An entry of info1 that was not written.                                 *)
Unset == -1

(* struct JITParsing, as a call finds it, and the code the call writes.    *)
Parsing == [buffer |-> buffer, info1 |-> info1, info2 |-> info2, i1 |-> i1, code |-> <<>>]

(* The instructions of a macro go to p->buffer, which advances.            *)
Write(p, code) == [p EXCEPT !.buffer = @ + Bytes(code), !.code = @ \o code]

JIT__INFO(p) == [p EXCEPT !.info1 = Append(@, p.buffer), !.i1 = @ + 2]

(* Mutant: the pointer is stored whole.                                    *)
JIT__INFO2_Untruncated(p) == [p EXCEPT !.info2 = Append(@, p.i1)]

JIT__INFO2(p) == [p EXCEPT !.info2 = Append(@, p.i1 % IndexMod)]

(* JIT__INFO( *p) of JIT_LOADF: a byte is written through the entry, which *)
(* has not been set and stays as it was.                                   *)
InfoThroughEntry(p) == [p EXCEPT !.info1 = Append(@, Unset), !.i1 = @ + 2]

JIT_JUMP(p, o) ==
  LET q == JIT__INFO(p)
  IN IF o # R0 \/ o < -1 THEN JIT__INFO2(Write(q, <<OPI32("JMP", o)>>)) ELSE q

(* Mutant: JIT__INFO comes first, as in all other functions.               *)
JIT_BRANCH_InfoFirst(p, s, t, o) ==
  LET q == JIT__INFO(p)
  IN IF s = t THEN JIT_JUMP(q, o)
     ELSE IF o > 0 \/ o < -1
     THEN JIT__INFO2(Write(q, Flag(Cmp(s, t), "SETE", Jcc("JNZ", o))))
     ELSE q

(* Equal operands are handed over to JIT_JUMP, which does its JIT__INFO.   *)
JIT_BRANCH(p, s, t, o) ==
  LET q == JIT__INFO(p)
  IN IF s = t THEN JIT_JUMP(p, o)
     ELSE IF o > 0 \/ o < -1
     THEN JIT__INFO2(Write(q, Flag(Cmp(s, t), "SETE", Jcc("JNZ", o))))
     ELSE q

(* Mutant: JIT__INFO2 stands behind the test.                              *)
JIT_NBRANCH_Info2Behind(p, s, t, o) ==
  LET q == JIT__INFO(p)
      emitted == (o > 0 \/ o < -1) /\ s # t
  IN JIT__INFO2(Write(q, When(emitted, Flag(Cmp(s, t), "SETE", Jcc("JZ", o)))))

JIT_NBRANCH(p, s, t, o) ==
  LET q == JIT__INFO(p)
  IN IF (o > 0 \/ o < -1) /\ s # t
     THEN JIT__INFO2(Write(q, Flag(Cmp(s, t), "SETE", Jcc("JZ", o))))
     ELSE q

JIT_CALL(p, o) ==
  LET q == JIT__INFO(p)
  IN IF o > 0 \/ o < -1 THEN JIT__INFO2(Write(q, <<OPI32("CALLI32", o)>>)) ELSE q

(* What the function of a call leaves in *p.                               *)
Function(c, p) ==
  CASE c.op = "JUMP"    -> JIT_JUMP(p, c.i)
    [] c.op = "BRANCH"  -> JIT_BRANCH(p, c.s, c.t, c.i)
    [] c.op = "NBRANCH" -> JIT_NBRANCH(p, c.s, c.t, c.i)
    [] c.op = "CALL"    -> JIT_CALL(p, c.i)
    [] c.op = "LOADF"   -> Write(InfoThroughEntry(p), Emit(c))
    [] OTHER            -> Write(JIT__INFO(p), Emit(c))

(* What JIT_LOADF overwrites may be code.                                  *)
Returned(c) ==
  LET p == Function(c, Parsing)
  IN /\ block' = Append(block, [call |-> c, at |-> buffer, code |-> p.code])
     /\ buffer' = p.buffer
     /\ info1' = p.info1
     /\ info2' = p.info2
     /\ i1' = p.i1
     /\ intact' \in IF c.op = "LOADF" THEN {intact, FALSE} ELSE {intact}
     /\ UNCHANGED phase

(* Or the write through the entry faults.                                  *)
Crash(c) ==
  /\ c.op = "LOADF"
  /\ phase' = "dead"
  /\ UNCHANGED emitVars

Call(c) ==
  /\ phase = "emit"
  /\ Len(block) < MaxCalls
  /\ block # <<>> => c \in Chained /\ block[1].call \in Chained
  /\ Returned(c) \/ Crash(c)
  /\ UNCHANGED runVars

-----------------------------------------------------------------------------
(* The processor.                                                          *)

Start ==
  /\ phase = "emit"
  /\ phase' = "run"
  /\ UNCHANGED <<emitVars, runVars>>

(* Execution reaches the code of the next call.                            *)
Reach ==
  /\ phase = "run" /\ todo = <<>> /\ cpu.out = Fall /\ n < Len(block)
  /\ n' = n + 1
  /\ todo' = block[n + 1].code
  /\ base' = cpu
  /\ UNCHANGED <<emitVars, phase, cpu>>

Ran(st) ==
  /\ cpu' = st
  /\ todo' = IF st.out = Fall THEN Tail(todo) ELSE <<>>
  /\ UNCHANGED <<emitVars, phase, n, base>>

Run == todo # <<>> /\ Ran(Exec(Head(todo), cpu))

(* The instruction was overwritten.                                        *)
RunDamaged == todo # <<>> /\ ~ intact /\ Ran(Leave(cpu, "lost", 0))

Init ==
  /\ block = <<>> /\ buffer = 0 /\ info1 = <<>> /\ info2 = <<>>
  /\ i1 \in Cursors
  /\ intact = TRUE /\ phase = "emit"
  /\ cpu \in Machines /\ n = 0 /\ todo = <<>> /\ base = cpu

Next == \/ \E c \in Calls : Call(c)
        \/ Start \/ Reach \/ Run \/ RunDamaged

Spec == Init /\ [][Next]_vars

-----------------------------------------------------------------------------
(* Properties.                                                             *)

TypeOK ==
  /\ \A k \in DOMAIN block :
       block[k].call \in Calls /\ block[k].at \in Nat /\ Len(block[k].code) <= MaxCode
  /\ buffer \in Nat /\ i1 \in Nat
  /\ info1 \in Seq(Nat \cup {Unset}) /\ info2 \in Seq(0 .. IndexMod - 1)
  /\ intact \in BOOLEAN /\ phase \in {"emit", "run", "dead"}
  /\ n \in 0 .. Len(block)
  /\ \A st \in {cpu, base} :
       /\ st.r \in [Reg -> Word] /\ st.x \in [Reg -> Lanes] /\ st.m \in [Word -> Lanes]
       /\ st.cmp \in Word \X Word

(* The k-th entry of info1 is the place of the code of the k-th call,      *)
(* whatever the functions do with *p: also behind a branch that handed *p  *)
(* over to JIT_JUMP, which does a JIT__INFO of its own, and behind calls   *)
(* that emit nothing.  The code of the calls adjoins, and only JIT_LOADF   *)
(* leaves its entry unset.                                                 *)
EntryPerCall ==
  /\ Len(info1) = Len(block)
  /\ \A k \in DOMAIN block :
       /\ info1[k] = IF block[k].call.op = "LOADF" THEN Unset ELSE block[k].at
       /\ block[k].at + Bytes(block[k].code)
          = IF k < Len(block) THEN block[k + 1].at ELSE buffer
  /\ intact \/ \E k \in DOMAIN block : info1[k] = Unset

IsJump(k) == \E j \in DOMAIN block[k].code :
               block[k].code[j].op \in {"JMP", "JZ", "JNZ", "CALLI32"}

(* What p->i1 was, truncated to 16 bits, after the JIT__INFO of call k.    *)
Entry(k) == (i1 - 2 * (Len(block) - k)) % IndexMod

(* Every jump that was emitted has an entry in info2, and no other call    *)
(* has; and as p->i1 advances by two, the entries tell jumps apart in      *)
(* blocks of up to 2^15 calls.                                             *)
JumpsAreIdentified ==
  /\ \A k \in DOMAIN block : IsJump(k) => \E j \in DOMAIN info2 : info2[j] = Entry(k)
  /\ \A j \in DOMAIN info2 : \E k \in DOMAIN block : IsJump(k) /\ info2[j] = Entry(k)
  /\ 2 * Len(block) <= IndexMod
     => \A j, k \in DOMAIN info2 : info2[j] = info2[k] => j = k

(* The emitter does not know the size of the buffer or of its tables.      *)
(* A client that provides for 18 bytes and one entry of each table per     *)
(* call is safe whatever it emits.                                         *)
EighteenBytesPerCall ==
  /\ buffer <= 18 * Len(block)
  /\ Len(info1) <= Len(block) /\ Len(info2) <= Len(block)

View(st) == [r |-> st.r, x |-> st.x, m |-> st.m, out |-> st.out]

Asm == INSTANCE JitAsm WITH
         prog    <- [k \in DOMAIN block |-> block[k].call],
         running <- phase = "run",
         done    <- IF todo = <<>> THEN n ELSE n - 1,
         st      <- View(IF todo = <<>> THEN cpu ELSE base)

(* The emitted code computes what its calls mean, for the operands that    *)
(* JitAsm!Sound names, and for all others leaves alone what JitAsm!Touched *)
(* does not name.                                                          *)
ImplementsAsm == Asm!AsmSpec

-----------------------------------------------------------------------------
(* jit_compiler_x64.h:323: "#define JIT_R0 -1 // always zero".  An         *)
(* operation on JIT_R0 and another register computes with zero.            *)
R0IsAlwaysZero ==
  [][\A k \in DOMAIN block :
       LET c == block[k].call
           Operand(r) == IF r = R0 THEN Zero ELSE base.r[r]
       IN /\ k = n /\ todo # <<>> /\ todo' = <<>> /\ cpu'.out = Fall
          /\ c.op \in {"ADD", "SUB", "AND", "OR", "XOR"} /\ R0 \in {c.s, c.t}
          => cpu'.r[c.d] = Alu(c.op, Operand(c.s), Operand(c.t))]_vars
=============================================================================
