-------------------------------- MODULE X64 --------------------------------
(***************************************************************************)
(* The instructions that the macros of jit_compiler_x64.h write, and the   *)
(* processor they are for.                                                 *)
(*                                                                         *)
(* An instruction is a record of what its bytes say: the operation, the    *)
(* register in the r/m and in the reg field of ModRM, the immediate or     *)
(* displacement, and the number of bytes.  The state of the processor is   *)
(* a record: general registers r, xmm registers x, memory m, operands of   *)
(* the last comparison cmp, and out: "fall" while execution goes on, or    *)
(* how it left the block.                                                  *)
(*                                                                         *)
(* An address names a cell of two lanes of its own: accesses to addresses  *)
(* that differ do not overlap.  Only UPS accesses reach the second lane.   *)
(***************************************************************************)
EXTENDS Words

RAX == 0
RCX == 1
RDX == 2
RSP == 4
RDI == 7

Reg == 0 .. 15

Lanes == [lo : Word, hi : Word]

(* REX holds bit 3 of a register number, tested with > 7, and ModRM the    *)
(* low three.  The number -1 is register 7.                                *)
Enc(n) == (n % 8) + (IF n > 7 THEN 8 ELSE 0)

I(op, rm, reg, im, len) ==
  [op |-> op, rm |-> Enc(rm), reg |-> Enc(reg), im |-> im, len |-> len]

RR(op, dest, src)     == I(op, dest, src, 0, 3)
RR0(op, dest, src)    == I(op, src, dest, 0, 4)
RRF(op, dest, src)    == I(op, src, dest, 0, 5)
OP0(op, dest, src)    == I(op, dest, src, 0, 3)
OPI32(op, im)         == I(op, 0, 0, im, 5)
(* Mutant: the immediate takes four bytes.                                 *)
RI8Wide(op, dest, im) == I(op, dest, 0, im, 7)

RI8(op, dest, im)     == I(op, dest, 0, im, 4)
RI32(op, dest, im)    == I(op, dest, 0, im, 7)
Jcc(op, off)          == I(op, 0, 0, off, 8)
PUSH(src)             == I("PUSH", src, 0, 0, IF src < 8 THEN 1 ELSE 2)
POP(src)              == I("POP", src, 0, 0, IF src < 8 THEN 1 ELSE 2)
Byte(op)              == I(op, 0, 0, 0, 1)

MOV(dest, src)        == RR("MOV", dest, src)
MOVI32(dest, im)      == RI32("MOVI32", dest, im)

Loads  == {"LOAD32", "LOAD64", "LOADSS", "LOADUPS"}
Stores == {"STORE32", "STORE64", "STORESS", "STOREUPS"}

(* A memory access: displacement of 32 bits, RI32, RMF or RMF4.            *)
Mem(op, base, reg, off) ==
  I(op, base, reg, off, CASE op \in {"LOADSS", "STORESS"}   -> 9
                          [] op \in {"LOADUPS", "STOREUPS"} -> 8
                          [] OTHER                          -> 7)

-----------------------------------------------------------------------------
Fall == <<"fall", 0>>

Put(st, n, v)     == [st EXCEPT !.r[n] = v]
PutX(st, n, v)    == [st EXCEPT !.x[n] = v]
Leave(st, how, x) == [st EXCEPT !.out = <<how, x>>]
Compare(st, x, y) == [st EXCEPT !.cmp = <<x, y>>]

(* Operations of two general registers and of one with an immediate.       *)
ExecRR(i, st) ==
  LET x == st.r[i.rm]
      y == st.r[i.reg]
  IN CASE i.op = "MOV"             -> Put(st, i.rm, y)
       [] i.op \in {"ADD", "SUB", "AND", "OR", "XOR"}
                                   -> Put(st, i.rm, Alu(i.op, x, y))
       [] i.op \in {"SAL", "SAR"}  -> Put(st, i.rm, Alu(i.op, x, st.r[RCX]))
       [] i.op = "CMP64"           -> Compare(st, x, y)
       [] i.op = "IMUL"            -> Put(st, i.reg, Alu("IMUL", y, x))
       [] i.op = "MOVI32"          -> Put(st, i.rm, Imm(i.im))
       [] i.op = "CMPI8"           -> Compare(st, x, Imm(i.im))
       [] i.op = "SALI"            -> Put(st, i.rm, Alu("SAL", x, Imm(i.im)))
       [] i.op = "SARI"            -> Put(st, i.rm, Alu("SAR", x, Imm(i.im)))

(* CDQ has no REX prefix: it extends eax into edx, and IDIV64 then divides *)
(* rdx:rax.                                                                *)
ExecDiv(i, st) ==
  LET qr == Idiv(st.r[RDX], st.r[RAX], st.r[i.rm])
  IN CASE i.op = "CDQ"    -> Put(st, RDX, Cdq(st.r[RAX]))
       [] i.op = "IDIV64" -> IF qr = <<>> THEN Leave(st, "fault", 0)
                             ELSE Put(Put(st, RAX, qr[1]), RDX, qr[2])

StackSlot(st) == Alu("SUB", st.r[RSP], Imm(8))

ExecStack(i, st) ==
  LET top == st.r[RSP]
  IN CASE i.op = "PUSH" -> [Put(st, RSP, StackSlot(st))
                              EXCEPT !.m[StackSlot(st)].lo = st.r[i.rm]]
       [] i.op = "POP"  -> Put(Put(st, RSP, Alu("ADD", top, Imm(8))),
                               i.rm, st.m[top].lo)

(* SETcc writes al and MOVZX clears the rest of rax.  JZ and JNZ are       *)
(* written together with a test of eax.                                    *)
ExecFlag(i, st) ==
  LET x == st.cmp[1]
      y == st.cmp[2]
      SetAl(b) == Put(st, RAX, Splice(8, st.r[RAX], Bit(b)))
      isZero == Low(32, st.r[RAX]) = Zero
  IN CASE i.op = "SETL"  -> SetAl(Less(x, y))
       [] i.op = "SETE"  -> SetAl(x = y)
       [] i.op = "SETA"  -> SetAl(FLess(y, x))
       [] i.op = "MOVZX" -> Put(st, RAX, Low(8, st.r[RAX]))
       [] i.op = "JZ"    -> IF isZero THEN Leave(st, "jump", i.im) ELSE st
       [] i.op = "JNZ"   -> IF isZero THEN st ELSE Leave(st, "jump", i.im)

ExecLeave(i, st) ==
  CASE i.op = "JMP"     -> Leave(st, "jump", i.im)
    [] i.op = "CALLI32" -> Leave(st, "call", i.im)
    [] i.op = "CALL64"  -> Leave(st, "callex", st.r[i.rm])
    [] i.op = "RET"     -> Leave(st, "return", 0)

(* Base registers 4 and 12 need a SIB byte, which no macro writes: the     *)
(* processor takes a byte of the displacement for it, accesses what that   *)
(* says, and runs on out of step.  None of this is modelled: the run ends  *)
(* as "lost", and a state with that out stands for whatever followed.      *)
ExecMem(i, st) ==
  LET a    == Alu("ADD", st.r[i.rm], Imm(i.im))
      cell == st.m[a]
      PutM(v)  == [st EXCEPT !.m[a] = v]
      PutLo(v) == PutM([cell EXCEPT !.lo = v])
  IN IF i.rm % 8 = 4 THEN Leave(st, "lost", 0)
     ELSE CASE i.op = "LOAD32"   -> Put(st, i.reg, Low(32, cell.lo))
            [] i.op = "LOAD64"   -> Put(st, i.reg, cell.lo)
            [] i.op = "LOADSS"   -> PutX(st, i.reg, [lo |-> cell.lo, hi |-> Zero])
            [] i.op = "LOADUPS"  -> PutX(st, i.reg, cell)
            [] i.op = "STORE32"  -> PutLo(Splice(32, cell.lo, st.r[i.reg]))
            [] i.op = "STORE64"  -> PutLo(st.r[i.reg])
            [] i.op = "STORESS"  -> PutLo(st.x[i.reg].lo)
            [] i.op = "STOREUPS" -> PutM(st.x[i.reg])

ScalarOp == [ADDSS |-> "ADD", SUBSS |-> "SUB", MULSS |-> "MUL", DIVSS |-> "DIV",
             MINSS |-> "MIN", MAXSS |-> "MAX"]
PackedOp == [ADDPS |-> "ADD", SUBPS |-> "SUB", MULPS |-> "MUL", DIVPS |-> "DIV",
             MINPS |-> "MIN", MAXPS |-> "MAX"]

(* Scalar operations change the low lane only.                             *)
ExecFloat(i, st) ==
  LET x == st.x[i.reg]
      y == st.x[i.rm]
      PutLow(v) == PutX(st, i.reg, [x EXCEPT !.lo = v])
  IN CASE i.op = "MOVSS"            -> PutLow(y.lo)
       [] i.op = "MOVUPS"           -> PutX(st, i.reg, y)
       [] i.op \in DOMAIN ScalarOp  -> PutLow(FAlu(ScalarOp[i.op], x.lo, y.lo))
       [] i.op \in DOMAIN PackedOp  ->
            PutX(st, i.reg, [lo |-> FAlu(PackedOp[i.op], x.lo, y.lo),
                             hi |-> FAlu(PackedOp[i.op], x.hi, y.hi)])
       [] i.op = "PXOR"             -> PutX(st, i.reg, [lo |-> Zero, hi |-> Zero])
       [] i.op = "CVTSI2SS"         -> PutLow(FromInt(st.r[i.rm]))
       [] i.op = "CVTSS2SI"         -> Put(st, i.reg, ToInt(y.lo))
       [] i.op = "UCOMISS"          -> Compare(st, x.lo, y.lo)

Exec(i, st) ==
  CASE i.op \in {"CDQ", "IDIV64"}                           -> ExecDiv(i, st)
    [] i.op \in {"PUSH", "POP"}                             -> ExecStack(i, st)
    [] i.op \in {"SETL", "SETE", "SETA", "MOVZX", "JZ", "JNZ"} -> ExecFlag(i, st)
    [] i.op \in {"JMP", "CALLI32", "CALL64", "RET"}         -> ExecLeave(i, st)
    [] i.op \in Loads \cup Stores                           -> ExecMem(i, st)
    [] i.op \in DOMAIN ScalarOp \cup DOMAIN PackedOp \cup
       {"MOVSS", "MOVUPS", "PXOR", "CVTSI2SS", "CVTSS2SI", "UCOMISS"}
                                                            -> ExecFloat(i, st)
    [] OTHER                                                -> ExecRR(i, st)
=============================================================================
