----------------------------- MODULE JitProofs -----------------------------
(***************************************************************************)
(* Theorems about Jit, for every set of calls, size of a block, width of   *)
(* the entries of info2, and arithmetic that satisfies Words: types of the *)
(* emitter and of the processor, the bytes a call may take, and what the   *)
(* tables of jump bookkeeping hold.                                        *)
(***************************************************************************)
EXTENDS Jit, SequenceTheorems, TLAPS

(* What the macros can be given, and what they make of it.                 *)
Number == -1 .. 15
Field  == {k \in Int : Imm(k) \in Word}

RRs      == {"MOV", "ADD", "SUB", "AND", "OR", "XOR", "SAL", "SAR", "CMP64", "IMUL",
             "MOVI32", "CMPI8", "SALI", "SARI"}
Flags    == {"SETL", "SETE", "SETA", "MOVZX", "JZ", "JNZ"}
Leaves   == {"JMP", "CALLI32", "CALL64", "RET"}
ScalarIs == {"ADDSS", "SUBSS", "MULSS", "DIVSS", "MINSS", "MAXSS"}
PackedIs == {"ADDPS", "SUBPS", "MULPS", "DIVPS", "MINPS", "MAXPS"}
Floats   == {"MOVSS", "MOVUPS", "PXOR", "CVTSI2SS", "CVTSS2SI", "UCOMISS"}
            \cup ScalarIs \cup PackedIs
Ops      == RRs \cup {"CDQ", "IDIV64", "PUSH", "POP"} \cup Flags \cup Leaves
            \cup Loads \cup Stores \cup Floats

Jumps    == {"JMP", "JZ", "JNZ", "CALLI32"}
Plain    == Ops \ Jumps

Instr    == [op : Ops, rm : Reg, reg : Reg, im : Field, len : 1 .. 9]
Straight == {i \in Instr : i.op \in Plain}
Out      == {"fall", "jump", "call", "callex", "return", "fault", "lost"}
            \X (Int \cup Word)
State    == [r : [Reg -> Word], x : [Reg -> Lanes], m : [Word -> Lanes],
             cmp : Word \X Word, out : Out]

(* The code that the functions of jumps write.                             *)
JumpCode(o) == When(o # R0 \/ o < -1, <<OPI32("JMP", o)>>)

BranchCode(s, t, o) ==
  IF s = t THEN JumpCode(o)
  ELSE When(o > 0 \/ o < -1, Flag(Cmp(s, t), "SETE", Jcc("JNZ", o)))

NBranchCode(s, t, o) ==
  When((o > 0 \/ o < -1) /\ s # t, Flag(Cmp(s, t), "SETE", Jcc("JZ", o)))

CallCode(o) == When(o > 0 \/ o < -1, <<OPI32("CALLI32", o)>>)

(* The code of any call.                                                   *)
Code(c) ==
  CASE c.op = "JUMP"    -> JumpCode(c.i)
    [] c.op = "BRANCH"  -> BranchCode(c.s, c.t, c.i)
    [] c.op = "NBRANCH" -> NBranchCode(c.s, c.t, c.i)
    [] c.op = "CALL"    -> CallCode(c.i)
    [] OTHER            -> Emit(c)

-----------------------------------------------------------------------------
(* Instructions.                                                           *)

(* The register that the encoding of a register number names.              *)
LEMMA EncValue ==
  ASSUME NEW k \in Number
  PROVE  Enc(k) = (IF k = -1 THEN 7 ELSE k) /\ Enc(k) \in Reg
BY DEF Enc, Number, Reg

(* The fields of an instruction.                                           *)
LEMMA IParts ==
  ASSUME NEW op, NEW rm, NEW reg, NEW im, NEW len
  PROVE  /\ I(op, rm, reg, im, len).op = op
         /\ I(op, rm, reg, im, len).rm = Enc(rm)
         /\ I(op, rm, reg, im, len).reg = Enc(reg)
         /\ I(op, rm, reg, im, len).im = im
         /\ I(op, rm, reg, im, len).len = len
BY DEF I

(* An instruction is well typed if its registers can be encoded.           *)
LEMMA IType ==
  ASSUME NEW op \in Plain, NEW rm \in Number, NEW reg \in Number, NEW im \in Field,
         NEW len \in 1 .. 9
  PROVE  I(op, rm, reg, im, len) \in Straight
BY EncValue DEF I, Instr, Straight, Plain

(* Register numbers are immediates, too.                                   *)
LEMMA NumbersAreFields == Number \subseteq Field
BY WordTypes DEF Number, Field

(* The jumps.                                                              *)
LEMMA JumpFormats ==
  ASSUME NEW im \in Field
  PROVE  /\ \A op \in {"JMP", "CALLI32"} :
              OPI32(op, im) \in Instr /\ OPI32(op, im).op = op
         /\ \A op \in {"JZ", "JNZ"} :
              Jcc(op, im) \in Instr /\ Jcc(op, im).op = op /\ Jcc(op, im).len = 8
<1>1. Enc(0) \in Reg
  BY EncValue DEF Number
<1> QED
  BY <1>1 DEF OPI32, Jcc, I, Instr, Ops, Flags, Leaves

(* The instructions of each format, and their lengths.                     *)
LEMMA Formats ==
  ASSUME NEW op \in Plain, NEW d \in Number, NEW s \in Number, NEW im \in Field
  PROVE  /\ RR(op, d, s) \in Straight /\ RR(op, d, s).len = 3
         /\ RR0(op, d, s) \in Straight /\ RR0(op, d, s).len = 4
         /\ RRF(op, d, s) \in Straight /\ RRF(op, d, s).len = 5
         /\ OP0(op, d, s) \in Straight /\ OP0(op, d, s).len = 3
         /\ RI8(op, d, im) \in Straight /\ RI8(op, d, im).len = 4
         /\ RI32(op, d, im) \in Straight /\ RI32(op, d, im).len = 7
         /\ Byte(op) \in Straight /\ Byte(op).len = 1
<1>1. 0 \in Number /\ 0 \in Field
  BY NumbersAreFields DEF Number
<1> QED
  BY <1>1, IParts, IType DEF RR, RR0, RRF, OP0, RI8, RI32, Byte

(* The instructions with a macro of their own.                             *)
LEMMA MoreFormats ==
  ASSUME NEW d \in Number, NEW s \in Number, NEW im \in Field
  PROVE  /\ MOV(d, s) \in Straight /\ MOV(d, s).len = 3
         /\ MOVI32(d, im) \in Straight /\ MOVI32(d, im).len = 7
         /\ \A op \in Loads \cup Stores : Mem(op, d, s, im) \in Straight
                                          /\ Mem(op, d, s, im).len <= 9
<1>1. "MOV" \in Plain /\ "MOVI32" \in Plain /\ Loads \cup Stores \subseteq Plain
  BY DEF Plain, Jumps, Ops, RRs, Loads, Stores
<1>2. MOV(d, s) \in Straight /\ MOV(d, s).len = 3
  BY <1>1, Formats, NumbersAreFields DEF MOV
<1>3. MOVI32(d, im) \in Straight /\ MOVI32(d, im).len = 7
  BY <1>1, Formats DEF MOVI32
<1>4. ASSUME NEW op \in Loads \cup Stores
      PROVE  Mem(op, d, s, im) \in Straight /\ Mem(op, d, s, im).len <= 9
  <2> DEFINE len == CASE op \in {"LOADSS", "STORESS"}   -> 9
                      [] op \in {"LOADUPS", "STOREUPS"} -> 8
                      [] OTHER                          -> 7
  <2>1. len \in 7 .. 9
    OBVIOUS
  <2>2. Mem(op, d, s, im) = I(op, d, s, im, len)
    BY DEF Mem
  <2> HIDE DEF len
  <2> QED
    BY <1>1, <2>1, <2>2, IParts, IType
<1> QED
  BY <1>2, <1>3, <1>4

(* Any number encodes some register: JIT_ADDI and the integer stores give  *)
(* the immediate for one.                                                  *)
LEMMA IntegerEncodes ==
  ASSUME NEW d \in Number, NEW o \in Field, NEW im \in Field
  PROVE  /\ \A op \in Plain : RR(op, d, o) \in Straight
         /\ \A op \in Stores : Mem(op, d, o, im) \in Straight
<1>1. Enc(o) \in Reg
  BY DEF Enc, Field, Reg
<1>2. Enc(d) \in Reg /\ 0 \in Field
  BY EncValue, NumbersAreFields DEF Number
<1>3. ASSUME NEW op \in Plain, NEW len \in 1 .. 9, NEW k \in Field
      PROVE  I(op, d, o, k, len) \in Straight
  BY <1>1, <1>2 DEF I, Instr, Straight, Plain
<1>4. Stores \subseteq Plain
  BY DEF Plain, Jumps, Ops, Stores
<1>5. ASSUME NEW op \in Stores PROVE Mem(op, d, o, im) \in Straight
  <2> DEFINE len == CASE op \in {"LOADSS", "STORESS"}   -> 9
                      [] op \in {"LOADUPS", "STOREUPS"} -> 8
                      [] OTHER                          -> 7
  <2>1. len \in 1 .. 9
    OBVIOUS
  <2>2. Mem(op, d, o, im) = I(op, d, o, im, len)
    BY DEF Mem
  <2> HIDE DEF len
  <2> QED
    BY <1>3, <1>4, <2>1, <2>2
<1> QED
  BY <1>2, <1>3, <1>5 DEF RR

(* The instructions of the divider and of the stack.                       *)
LEMMA StackFormats ==
  ASSUME NEW s \in Number, s < 8
  PROVE  /\ PUSH(s) \in Straight /\ PUSH(s).len = 1
         /\ POP(s) \in Straight /\ POP(s).len = 1
<1>1. "PUSH" \in Plain /\ "POP" \in Plain /\ 0 \in Number /\ 0 \in Field
  BY NumbersAreFields DEF Plain, Jumps, Ops, Number
<1> QED
  BY <1>1, IParts, IType DEF PUSH, POP

-----------------------------------------------------------------------------
(* Sequences of instructions.                                              *)

LEMMA Concat1 ==
  ASSUME NEW a, NEW b
  PROVE  <<a>> \o <<b>> = <<a, b>>
<1> DEFINE S == {a, b}
<1>1. <<a>> \in Seq(S) /\ <<b>> \in Seq(S) /\ <<a, b>> \in Seq(S)
  OBVIOUS
<1>2. Len(<<a>>) = 1 /\ Len(<<b>>) = 1 /\ Len(<<a, b>>) = 2
  OBVIOUS
<1>3. /\ <<a>> \o <<b>> \in Seq(S) /\ Len(<<a>> \o <<b>>) = 2
      /\ \A i \in 1 .. 2 : (<<a>> \o <<b>>)[i] = IF i <= 1 THEN <<a>>[i] ELSE <<b>>[i - 1]
  BY <1>1, <1>2, ConcatProperties
<1>4. \A i \in 1 .. 2 : (<<a>> \o <<b>>)[i] = <<a, b>>[i]
  BY <1>3
<1> QED
  BY <1>1, <1>2, <1>3, <1>4, SeqEqual

(* An instruction before four.                                             *)
LEMMA Concat4 ==
  ASSUME NEW a, NEW b, NEW c, NEW d, NEW e
  PROVE  <<a>> \o <<b, c, d, e>> = <<a, b, c, d, e>>
<1> DEFINE S == {a, b, c, d, e}
<1>1. /\ <<a>> \in Seq(S) /\ <<b, c, d, e>> \in Seq(S)
      /\ <<a, b, c, d, e>> \in Seq(S)
  OBVIOUS
<1>2. Len(<<a>>) = 1 /\ Len(<<b, c, d, e>>) = 4 /\ Len(<<a, b, c, d, e>>) = 5
  OBVIOUS
<1>3. /\ <<a>> \o <<b, c, d, e>> \in Seq(S) /\ Len(<<a>> \o <<b, c, d, e>>) = 5
      /\ \A i \in 1 .. 5 : (<<a>> \o <<b, c, d, e>>)[i]
                           = IF i <= 1 THEN <<a>>[i] ELSE <<b, c, d, e>>[i - 1]
  BY <1>1, <1>2, ConcatProperties
<1>4. \A i \in 1 .. 5 : (<<a>> \o <<b, c, d, e>>)[i] = <<a, b, c, d, e>>[i]
  BY <1>3
<1> QED
  BY <1>1, <1>2, <1>3, <1>4, SeqEqual

(* Concatenation with no instruction.                                      *)
LEMMA Concat0 ==
  ASSUME NEW a, NEW b, NEW c, NEW d
  PROVE  /\ <<>> \o <<a>> = <<a>> /\ <<a>> \o <<>> = <<a>> /\ <<>> \o <<>> = <<>>
         /\ <<>> \o <<a, b, c, d>> = <<a, b, c, d>>
<1> DEFINE S == {a, b, c, d}
<1>1. <<a>> \in Seq(S) /\ <<a, b, c, d>> \in Seq(S) /\ <<>> \in Seq(S)
  OBVIOUS
<1> QED
  BY <1>1, ConcatEmptySeq

-----------------------------------------------------------------------------
(* The length of what a call emits.                                        *)

(* Code that fits the bounds TypeOK and EighteenBytesPerCall state.        *)
Bounded(S, code) == /\ code \in Seq(S) /\ Len(code) <= MaxCode
                    /\ Bytes(code) \in 0 .. 18

(* Code without a jump, and the code of a jump, if it is emitted.          *)
Fits(code)  == Bounded(Straight, code)
Jumping(code) == /\ Bounded(Instr, code)
                 /\ code = <<>> \/ \E j \in DOMAIN code : code[j].op \in Jumps

(* No code at all.                                                         *)
LEMMA NoneFits == Fits(<<>>)
BY DEF Fits, Bounded, MaxCode, Bytes, Size

(* One instruction is at most nine bytes.                                  *)
LEMMA OneFits == ASSUME NEW a \in Straight PROVE Fits(<<a>>)
<1>1. a.len \in 1 .. 9
  BY DEF Instr, Straight
<1>2. Bytes(<<a>>) = a.len
  BY <1>1 DEF Bytes, Size
<1> QED
  BY <1>1, <1>2 DEF Fits, Bounded, MaxCode

(* Two are at most eighteen, whatever they are.                            *)
LEMMA TwoFit == ASSUME NEW a \in Straight, NEW b \in Straight PROVE Fits(<<a, b>>)
<1>1. a.len \in 1 .. 9 /\ b.len \in 1 .. 9
  BY DEF Instr, Straight
<1>2. Bytes(<<a, b>>) = a.len + b.len
  BY <1>1 DEF Bytes, Size
<1> QED
  BY <1>1, <1>2 DEF Fits, Bounded, MaxCode

(* Four, where their lengths add up.                                       *)
LEMMA FourBounded ==
  ASSUME NEW S \in SUBSET Instr,
         NEW a \in S, NEW b \in S, NEW c \in S, NEW d \in S,
         a.len + b.len + c.len + d.len <= 18
  PROVE  Bounded(S, <<a, b, c, d>>)
<1>1. a.len \in 1 .. 9 /\ b.len \in 1 .. 9 /\ c.len \in 1 .. 9 /\ d.len \in 1 .. 9
  BY DEF Instr, Straight
<1>2. Bytes(<<a, b, c, d>>) = a.len + b.len + c.len + d.len
  BY <1>1 DEF Bytes, Size
<1> QED
  BY <1>1, <1>2 DEF Bounded, MaxCode

(* Five.                                                                   *)
LEMMA FiveFit ==
  ASSUME NEW a \in Straight, NEW b \in Straight, NEW c \in Straight, NEW d \in Straight,
         NEW e \in Straight, a.len + b.len + c.len + d.len + e.len <= 18
  PROVE  Fits(<<a, b, c, d, e>>)
<1>1. /\ a.len \in 1 .. 9 /\ b.len \in 1 .. 9 /\ c.len \in 1 .. 9 /\ d.len \in 1 .. 9
      /\ e.len \in 1 .. 9
  BY DEF Instr, Straight
<1>2. Bytes(<<a, b, c, d, e>>) = a.len + b.len + c.len + d.len + e.len
  BY <1>1 DEF Bytes, Size
<1> QED
  BY <1>1, <1>2 DEF Fits, Bounded, MaxCode

(* Six, which is the most a call emits.                                    *)
LEMMA SixFit ==
  ASSUME NEW a \in Straight, NEW b \in Straight, NEW c \in Straight, NEW d \in Straight,
         NEW e \in Straight, NEW f \in Straight,
         a.len + b.len + c.len + d.len + e.len + f.len <= 18
  PROVE  Fits(<<a, b, c, d, e, f>>)
<1>1. /\ a.len \in 1 .. 9 /\ b.len \in 1 .. 9 /\ c.len \in 1 .. 9 /\ d.len \in 1 .. 9
      /\ e.len \in 1 .. 9 /\ f.len \in 1 .. 9
  BY DEF Instr, Straight
<1>2. Bytes(<<a, b, c, d, e, f>>) = a.len + b.len + c.len + d.len + e.len + f.len
  BY <1>1 DEF Bytes, Size
<1> QED
  BY <1>1, <1>2 DEF Fits, Bounded, MaxCode

(* An instruction behind an assignment that may not be needed.             *)
LEMMA OptionalFits ==
  ASSUME NEW b \in BOOLEAN, NEW a \in Straight, NEW i \in Straight
  PROVE  Fits(When(b, <<a>>) \o <<i>>) /\ Fits(When(b, <<a>>))
BY Concat0, Concat1, NoneFits, OneFits, TwoFit DEF When

-----------------------------------------------------------------------------
(* Every operation of the emitter fits.                                    *)

(* Which operations the names of macros stand for.                         *)
LEMMA Names ==
  /\ {"MOV", "ADD", "SUB", "AND", "OR", "XOR", "SAL", "SAR", "CMP64", "IMUL", "SALI",
      "SARI", "CMPI8", "SETL", "SETE", "SETA", "MOVZX", "CALL64", "RET",
      "CDQ", "IDIV64", "UCOMISS", "PXOR", "CVTSI2SS", "CVTSS2SI",
      "MOVSS", "MOVUPS"} \subseteq Plain
  /\ Loads \subseteq Plain /\ Stores \subseteq Plain
  /\ ScalarIs \subseteq Plain /\ PackedIs \subseteq Plain
  /\ -1 \in Number /\ 0 \in Number /\ 0 \in Field
  /\ RAX \in Number /\ RCX \in Number /\ RDX \in Number /\ RSP \in Number
BY NumbersAreFields
   DEF Plain, Jumps, Ops, RRs, Flags, Leaves, Floats, ScalarIs, PackedIs, Loads, Stores,
       Number, RAX, RCX, RDX, RSP

(* JIT_ADD and JIT_SUB.                                                    *)
LEMMA AdditiveFits ==
  ASSUME NEW op \in {"ADD", "SUB"}, NEW d \in Number, NEW s \in Number, NEW t \in Number
  PROVE  Fits(Additive(op, d, s, t))
<1>1. /\ MOVI32(d, 0) \in Straight /\ MOV(d, t) \in Straight /\ MOV(d, s) \in Straight
      /\ RR(op, d, t) \in Straight
  BY Names, Formats, MoreFormats
<1> QED
  BY <1>1, NoneFits, OneFits, OptionalFits DEF Additive, Assign, When

(* JIT_AND, JIT_OR and JIT_XOR.                                            *)
LEMMA LogicFits ==
  ASSUME NEW op \in {"AND", "OR", "XOR"}, NEW d \in Number, NEW s \in Number,
         NEW t \in Number
  PROVE  Fits(JIT_LOGIC(op, d, s, t))
<1>1. /\ MOVI32(d, 0) \in Straight /\ MOV(d, t) \in Straight /\ MOV(d, s) \in Straight
      /\ RR(op, d, t) \in Straight
  BY Names, Formats, MoreFormats
<1> QED
  BY <1>1, NoneFits, OneFits, OptionalFits DEF JIT_LOGIC, Assign, When

(* JIT_ADDI.                                                               *)
LEMMA AddiFits ==
  ASSUME NEW d \in Number, NEW s \in Number, NEW i \in Field
  PROVE  Fits(JIT_ADDI(d, s, i))
<1>1. MOVI32(d, i) \in Straight /\ MOV(d, s) \in Straight
  BY Names, MoreFormats
<1>2. MOV(d, i) \in Straight
  BY Names, IntegerEncodes DEF MOV, RR
<1>3. CASE d # R0
  BY <1>1, <1>3, NoneFits, OneFits DEF JIT_ADDI, When
<1>4. CASE d = R0 /\ i # 0
  BY <1>1, <1>2, <1>4, OptionalFits DEF JIT_ADDI, Assign, When
<1>5. CASE d = R0 /\ i = 0
  BY <1>1, <1>5, NoneFits, OneFits, Concat0 DEF JIT_ADDI, Assign, When
<1> QED
  BY <1>3, <1>4, <1>5

(* JIT_MUL.                                                                *)
LEMMA MulFits ==
  ASSUME NEW d \in Number, NEW s \in Number, NEW t \in Number
  PROVE  Fits(JIT_MUL(d, s, t))
<1>1. /\ MOVI32(d, 0) \in Straight /\ MOV(d, s) \in Straight
      /\ RR0("IMUL", d, t) \in Straight
  BY Names, Formats, MoreFormats
<1> QED
  BY <1>1, NoneFits, OneFits, OptionalFits DEF JIT_MUL, Assign, When

(* JIT_DIV: the six instructions are 16 bytes.                             *)
LEMMA DivFits ==
  ASSUME NEW d \in Number, NEW s \in Number, NEW t \in Number
  PROVE  Fits(JIT_DIV(d, s, t))
<1>1. /\ MOVI32(d, 0) \in Straight
      /\ MOV(RAX, s) \in Straight /\ MOV(RAX, s).len = 3
      /\ MOV(d, RAX) \in Straight /\ MOV(d, RAX).len = 3
      /\ Byte("CDQ") \in Straight /\ Byte("CDQ").len = 1
      /\ RR("IDIV64", t, 0) \in Straight /\ RR("IDIV64", t, 0).len = 3
  BY Names, Formats, MoreFormats
<1>2. /\ PUSH(RDX) \in Straight /\ PUSH(RDX).len = 1
      /\ POP(RDX) \in Straight /\ POP(RDX).len = 1
  BY Names, StackFormats DEF RDX
<1>3. Fits(<<PUSH(RDX), MOV(RAX, s), Byte("CDQ"), RR("IDIV64", t, 0), MOV(d, RAX),
             POP(RDX)>>)
  BY <1>1, <1>2, SixFit
<1> QED
  BY <1>1, <1>3, NoneFits, OneFits DEF JIT_DIV, When

(* JIT_SHIFTL and JIT_SHIFTR.                                              *)
LEMMA ShiftFits ==
  ASSUME NEW op \in {"SAL", "SAR"}, NEW d \in Number, NEW s \in Number, NEW t \in Number
  PROVE  Fits(JIT_SHIFT(op, d, s, t))
<1>0. op \in Plain /\ t \in Field
  BY Names, NumbersAreFields
<1>1. /\ MOVI32(d, 0) \in Straight /\ MOVI32(s, t) \in Straight
      /\ MOV(d, s) \in Straight /\ MOV(d, s).len = 3
      /\ MOV(RCX, t) \in Straight /\ MOV(RCX, t).len = 3
      /\ RR(op, d, 0) \in Straight /\ RR(op, d, 0).len = 3
  BY <1>0, Names, Formats, MoreFormats
<1>2. /\ PUSH(RCX) \in Straight /\ PUSH(RCX).len = 1
      /\ POP(RCX) \in Straight /\ POP(RCX).len = 1
  BY Names, StackFormats DEF RCX
<1> DEFINE body == <<PUSH(RCX), MOV(RCX, t), RR(op, d, 0), POP(RCX)>>
<1>3. Fits(body)
  BY <1>1, <1>2, FourBounded DEF Fits, Straight
<1>4. Fits(<<MOV(d, s), PUSH(RCX), MOV(RCX, t), RR(op, d, 0), POP(RCX)>>)
  BY <1>1, <1>2, FiveFit
<1>5. Fits(Assign(d, s) \o body)
  <2>1. <<MOV(d, s)>> \o body
        = <<MOV(d, s), PUSH(RCX), MOV(RCX, t), RR(op, d, 0), POP(RCX)>>
    BY Concat4
  <2>2. <<>> \o body = body
    BY Concat0
  <2> HIDE DEF body
  <2> QED
    BY <1>3, <1>4, <2>1, <2>2 DEF Assign, When
<1> QED
  BY <1>1, <1>5, NoneFits, OneFits DEF JIT_SHIFT, When

(* JIT_SHIFTLI and JIT_SHIFTRI.                                            *)
LEMMA ShiftiFits ==
  ASSUME NEW op \in {"SALI", "SARI"}, NEW d \in Number, NEW s \in Number, NEW i \in Field
  PROVE  Fits(JIT_SHIFTI(op, d, s, i))
<1>0. op \in Plain /\ s \in Field
  BY Names, NumbersAreFields
<1>1. /\ MOVI32(d, 0) \in Straight /\ MOVI32(d, s) \in Straight
      /\ RI8(op, d, i) \in Straight
  BY <1>0, Names, Formats, MoreFormats
<1>2. Fits(When(s # d, <<MOVI32(d, s)>>) \o <<RI8(op, d, i)>>)
  BY <1>1, OptionalFits
<1> QED
  BY <1>1, <1>2, NoneFits, OneFits DEF JIT_SHIFTI, When

(* The comparison of JIT_LESS and the branches.                            *)
LEMMA CmpFormat ==
  ASSUME NEW s \in Number, NEW t \in Number
  PROVE  Cmp(s, t) \in Straight /\ Cmp(s, t).len <= 4
<1>1. "CMPI8" \in Plain /\ "CMP64" \in Plain /\ 0 \in Field
  BY Names
<1>2. /\ RI8("CMPI8", t, 0) \in Straight /\ RI8("CMPI8", t, 0).len = 4
      /\ RI8("CMPI8", s, 0) \in Straight /\ RI8("CMPI8", s, 0).len = 4
      /\ RR("CMP64", s, t) \in Straight /\ RR("CMP64", s, t).len = 3
  BY <1>1, Formats
<1> QED
  BY <1>2 DEF Cmp

(* A comparison, its condition, and the instruction that uses it.          *)
LEMMA FlagBounded ==
  ASSUME NEW S \in SUBSET Instr, Straight \subseteq S,
         NEW a \in Straight, a.len <= 4, NEW cc \in {"SETL", "SETE", "SETA"},
         NEW use \in S, use.len <= 8
  PROVE  /\ Bounded(S, Flag(a, cc, use))
         /\ 4 \in DOMAIN Flag(a, cc, use) /\ Flag(a, cc, use)[4] = use
<1>0. cc \in Plain /\ "MOVZX" \in Plain /\ 0 \in Number /\ RAX \in Number /\ 0 \in Field
  BY Names
<1>1. /\ OP0(cc, 0, RAX) \in Straight /\ OP0(cc, 0, RAX).len = 3
      /\ OP0("MOVZX", RAX, RAX) \in Straight /\ OP0("MOVZX", RAX, RAX).len = 3
  BY <1>0, Formats
<1>2. a.len \in 1 .. 9 /\ use.len \in 1 .. 9
  BY DEF Instr, Straight
<1>3. Bounded(S, <<a, OP0(cc, 0, RAX), OP0("MOVZX", RAX, RAX), use>>)
  BY <1>1, <1>2, FourBounded
<1> QED
  BY <1>3 DEF Flag

(* JIT_LESS and JIT_LESSF.                                                 *)
LEMMA LessFits ==
  ASSUME NEW d \in Number, NEW s \in Number, NEW t \in Number
  PROVE  Fits(JIT_LESS(d, s, t)) /\ Fits(JIT_LESSF(d, s, t))
<1>1. MOVI32(d, 0) \in Straight /\ MOV(d, RAX) \in Straight /\ MOV(d, RAX).len = 3
  BY Names, MoreFormats
<1>2. RR0("UCOMISS", s, t) \in Straight /\ RR0("UCOMISS", s, t).len = 4
  BY Names, Formats
<1>3. Straight \in SUBSET Instr /\ Straight \subseteq Straight
  BY DEF Straight
<1>4. ASSUME NEW a \in Straight, a.len <= 4, NEW cc \in {"SETL", "SETA"}
      PROVE  Fits(Flag(a, cc, MOV(d, RAX)))
  <2>1. cc \in {"SETL", "SETE", "SETA"}
    BY <1>4
  <2>2. ASSUME NEW use \in Straight, use.len <= 8 PROVE Bounded(Straight, Flag(a, cc, use))
    BY <1>3, <1>4, <2>1, <2>2, FlagBounded
  <2>3. MOV(d, RAX) \in Straight /\ MOV(d, RAX).len <= 8
    BY <1>1
  <2> QED
    BY <2>2, <2>3 DEF Fits
<1>5. Fits(Flag(Cmp(s, t), "SETL", MOV(d, RAX)))
  BY <1>4, CmpFormat
<1>6. Fits(JIT_LESSF(d, s, t))
  BY <1>2, <1>4 DEF JIT_LESSF
<1> QED
  BY <1>1, <1>5, <1>6, NoneFits, OneFits DEF JIT_LESS, When

(* JIT_BRANCH and JIT_NBRANCH: without a jump they emit nothing.           *)
LEMMA BranchFits ==
  ASSUME NEW s \in Number, NEW t \in Number, NEW o \in Field
  PROVE  /\ Jumping(JumpCode(o)) /\ Jumping(CallCode(o))
         /\ Jumping(BranchCode(s, t, o)) /\ Jumping(NBranchCode(s, t, o))
<1>0. ASSUME NEW i \in Instr, i.op \in Jumps PROVE Jumping(<<i>>)
  <2>1. <<i>> \in Seq(Instr) /\ Len(<<i>>) = 1 /\ <<i>>[1] = i /\ 1 \in DOMAIN <<i>>
    OBVIOUS
  <2>2. Bytes(<<i>>) = i.len /\ i.len \in 1 .. 9
    BY DEF Bytes, Size, Instr
  <2>3. Bounded(Instr, <<i>>)
    BY <2>1, <2>2 DEF Bounded, MaxCode
  <2> QED
    BY <1>0, <2>1, <2>3 DEF Jumping
<1>1. ASSUME NEW op \in {"JMP", "CALLI32"} PROVE Jumping(<<OPI32(op, o)>>)
  BY <1>0, JumpFormats DEF Jumps
<1>2. ASSUME NEW op \in {"JZ", "JNZ"}
      PROVE  Jumping(Flag(Cmp(s, t), "SETE", Jcc(op, o)))
  <2> DEFINE i == Jcc(op, o)
  <2>1. i \in Instr /\ i.op \in Jumps /\ i.len <= 8
    BY JumpFormats DEF Jumps
  <2>2. Cmp(s, t) \in Straight /\ Cmp(s, t).len <= 4
    BY CmpFormat
  <2>3. Instr \in SUBSET Instr /\ Straight \subseteq Instr
    BY DEF Straight
  <2> HIDE DEF i
  <2>4. /\ Bounded(Instr, Flag(Cmp(s, t), "SETE", i))
        /\ 4 \in DOMAIN Flag(Cmp(s, t), "SETE", i)
        /\ Flag(Cmp(s, t), "SETE", i)[4] = i
    BY <2>1, <2>2, <2>3, FlagBounded
  <2> QED
    BY <2>1, <2>4 DEF Jumping, i
<1>3. Jumping(<<>>)
  BY NoneFits DEF Jumping, Fits, Bounded
<1>4. Jumping(JumpCode(o)) /\ Jumping(CallCode(o))
  BY <1>1, <1>3 DEF JumpCode, CallCode, When
<1> QED
  BY <1>2, <1>3, <1>4 DEF BranchCode, NBranchCode, When

(* JIT_JUMP, JIT_CALL, JIT_CALLEX and JIT_RETURN.                          *)
LEMMA ExitFits ==
  ASSUME NEW s \in Number
  PROVE  Fits(JIT_CALLEX(s)) /\ Fits(JIT_RETURN)
<1>1. RR("CALL64", s, 0) \in Straight /\ Byte("RET") \in Straight
  BY Names, Formats
<1> QED
  BY <1>1, NoneFits, OneFits DEF JIT_CALLEX, JIT_RETURN, When

(* The loads.                                                              *)
LEMMA LoadFits ==
  ASSUME NEW op \in Loads, NEW d \in Number, NEW s \in Number, NEW o \in Field
  PROVE  Fits(Load(op, d, s, o))
<1>1. /\ MOV(RAX, s) \in Straight /\ Mem(op, RAX, d, o) \in Straight
      /\ Mem(op, s, d, o) \in Straight
  BY Names, MoreFormats
<1> QED
  BY <1>1, NoneFits, OneFits, TwoFit DEF Load, When

(* The stores.                                                             *)
LEMMA StoreFits ==
  ASSUME NEW op \in Stores, NEW d \in Number, NEW s \in Number, NEW o \in Field
  PROVE  Fits(Store(op, d, o, s)) /\ Fits(StoreFloat(op, d, o, s))
<1>1. /\ MOV(RAX, s) \in Straight /\ Mem(op, d, s, o) \in Straight
      /\ MOV(RAX, d) \in Straight /\ Mem(op, RAX, s, o) \in Straight
  BY Names, MoreFormats
<1>2. Mem(op, d, o, RAX) \in Straight /\ Mem(op, d, o, s) \in Straight
  BY IntegerEncodes, Names, NumbersAreFields
<1>3. Fits(Store(op, d, o, s))
  BY <1>1, <1>2, NoneFits, OneFits, TwoFit DEF Store, When
<1> QED
  BY <1>1, <1>3, OneFits, TwoFit DEF StoreFloat

(* JIT_ITOF and JIT_FTOI.                                                  *)
LEMMA ConversionFits ==
  ASSUME NEW d \in Number, NEW s \in Number
  PROVE  Fits(JIT_ITOF(d, s)) /\ Fits(JIT_FTOI(d, s))
<1>1. /\ RRF("PXOR", d, d) \in Straight /\ RRF("CVTSI2SS", d, s) \in Straight
      /\ RRF("CVTSS2SI", d, s) \in Straight
  BY Names, Formats
<1> QED
  BY <1>1, NoneFits, OneFits, TwoFit, Concat0, Concat1 DEF JIT_ITOF, JIT_FTOI, When

(* The operations on floats, of one lane and of four.                      *)
LEMMA FloatFits ==
  ASSUME NEW d \in Number, NEW s \in Number, NEW t \in Number
  PROVE  /\ \A op \in ScalarIs : Fits(JIT_FLOAT(op, d, s, t))
         /\ \A op \in PackedIs : Fits(JIT_FLOAT4(op, d, s, t))
<1>1. ASSUME NEW op \in ScalarIs PROVE Fits(JIT_FLOAT(op, d, s, t))
  <2>1. RRF("MOVSS", d, s) \in Straight /\ RRF(op, d, t) \in Straight
    BY Names, Formats
  <2> QED
    BY <2>1, OptionalFits DEF JIT_FLOAT
<1>2. ASSUME NEW op \in PackedIs PROVE Fits(JIT_FLOAT4(op, d, s, t))
  <2>1. RR0("MOVUPS", d, s) \in Straight /\ RR0(op, d, t) \in Straight
    BY Names, Formats
  <2> QED
    BY <2>1, OptionalFits DEF JIT_FLOAT4
<1> QED
  BY <1>1, <1>2

-----------------------------------------------------------------------------
(* The calls.                                                              *)

(* What is emitted for each operation.                                     *)
LEMMA EmitCases ==
  ASSUME NEW c
  PROVE  /\ c.op = "ADD" => Code(c) = JIT_ADD(c.d, c.s, c.t)
         /\ c.op = "SUB" => Code(c) = JIT_SUB(c.d, c.s, c.t)
         /\ c.op = "ADDI" => Code(c) = JIT_ADDI(c.d, c.s, c.i)
         /\ c.op = "MUL" => Code(c) = JIT_MUL(c.d, c.s, c.t)
         /\ c.op = "DIV" => Code(c) = JIT_DIV(c.d, c.s, c.t)
         /\ c.op = "SHIFTL" => Code(c) = JIT_SHIFT("SAL", c.d, c.s, c.t)
         /\ c.op = "SHIFTR" => Code(c) = JIT_SHIFT("SAR", c.d, c.s, c.t)
         /\ c.op = "SHIFTLI" => Code(c) = JIT_SHIFTI("SALI", c.d, c.s, c.i)
         /\ c.op = "SHIFTRI" => Code(c) = JIT_SHIFTI("SARI", c.d, c.s, c.i)
         /\ c.op = "AND" => Code(c) = JIT_LOGIC("AND", c.d, c.s, c.t)
         /\ c.op = "OR" => Code(c) = JIT_LOGIC("OR", c.d, c.s, c.t)
         /\ c.op = "XOR" => Code(c) = JIT_LOGIC("XOR", c.d, c.s, c.t)
         /\ c.op = "LESS" => Code(c) = JIT_LESS(c.d, c.s, c.t)
         /\ c.op = "LOAD32" => Code(c) = Load("LOAD32", c.d, c.s, c.i)
         /\ c.op = "LOAD64" => Code(c) = Load("LOAD64", c.d, c.s, c.i)
         /\ c.op = "STORE32" => Code(c) = Store("STORE32", c.d, c.i, c.s)
         /\ c.op = "STORE64" => Code(c) = Store("STORE64", c.d, c.i, c.s)
         /\ c.op = "JUMP" => Code(c) = JumpCode(c.i)
         /\ c.op = "BRANCH" => Code(c) = BranchCode(c.s, c.t, c.i)
         /\ c.op = "NBRANCH" => Code(c) = NBranchCode(c.s, c.t, c.i)
         /\ c.op = "CALL" => Code(c) = CallCode(c.i)
         /\ c.op = "CALLEX" => Code(c) = JIT_CALLEX(c.s)
         /\ c.op = "RETURN" => Code(c) = JIT_RETURN
         /\ c.op = "LOADF" => Code(c) = Load("LOADSS", c.d, c.s, c.i)
         /\ c.op = "STOREF" => Code(c) = JIT_STOREF(c.d, c.i, c.s)
         /\ c.op = "ITOF" => Code(c) = JIT_ITOF(c.d, c.s)
         /\ c.op = "FTOI" => Code(c) = JIT_FTOI(c.d, c.s)
         /\ c.op = "LESSF" => Code(c) = JIT_LESSF(c.d, c.s, c.t)
         /\ c.op = "LOADF4" => Code(c) = Load("LOADUPS", c.d, c.s, c.i)
         /\ c.op = "STOREF4" => Code(c) = JIT_STOREF4(c.d, c.i, c.s)
         /\ c.op \in Scalar3 => Code(c) = JIT_FLOAT(ScalarMacro[c.op], c.d, c.s, c.t)
         /\ c.op \in Packed3 => Code(c) = JIT_FLOAT4(PackedMacro[c.op], c.d, c.s, c.t)
BY DEF Code, Emit, Scalar3, Packed3, JIT_LOAD32, JIT_LOAD64, JIT_STORE32, JIT_STORE64,
       JIT_LOADF, JIT_LOADF4

(* What is known of a call.                                                *)
LEMMA CallFields ==
  ASSUME NEW c \in Calls
  PROVE  /\ c.d \in Number /\ c.s \in Number /\ c.t \in Number /\ c.i \in Field
         /\ c.op \in Integer3 \cup Integer2 \cup Scalar3 \cup Packed3 \cup
                     {"JUMP", "BRANCH", "NBRANCH", "CALL", "CALLEX", "RETURN", "LOADF",
                      "STOREF", "ITOF", "FTOI", "LESSF", "LOADF4", "STOREF4"}
BY CallTypes DEF Number, Field

(* The calls that jump, and what is known of the code of a call.           *)
JumpCall(c) == c.op \in {"JUMP", "BRANCH", "NBRANCH", "CALL"}

(* Every call: code that fits, and for a jump that jumps if it is emitted. *)
LEMMA EmitFits ==
  ASSUME NEW c \in Calls
  PROVE  IF JumpCall(c) THEN Jumping(Code(c)) ELSE Fits(Code(c))
<1> USE CallFields
<1>1. CASE JumpCall(c)
  BY <1>1, EmitCases, BranchFits DEF JumpCall
<1>2. CASE c.op \in Integer3
  <2>1. CASE c.op \in {"ADD", "SUB"}
    BY <2>1, EmitCases, AdditiveFits DEF JIT_ADD, JIT_SUB, JumpCall
  <2>2. CASE c.op \in {"MUL", "DIV", "LESS"}
    BY <2>2, EmitCases, MulFits, DivFits, LessFits DEF JumpCall
  <2>3. CASE c.op \in {"SHIFTL", "SHIFTR"}
    BY <2>3, EmitCases, ShiftFits DEF JumpCall
  <2>4. CASE c.op \in {"AND", "OR", "XOR"}
    BY <2>4, EmitCases, LogicFits DEF JumpCall
  <2> QED
    BY <1>2, <2>1, <2>2, <2>3, <2>4 DEF Integer3
<1>3. CASE c.op \in Integer2
  <2>1. CASE c.op = "ADDI"
    BY <2>1, EmitCases, AddiFits DEF JumpCall
  <2>2. CASE c.op \in {"SHIFTLI", "SHIFTRI"}
    BY <2>2, EmitCases, ShiftiFits DEF JumpCall
  <2>3. CASE c.op \in {"LOAD32", "LOAD64"}
    BY <2>3, EmitCases, LoadFits DEF JumpCall, Loads
  <2>4. CASE c.op \in {"STORE32", "STORE64"}
    BY <2>4, EmitCases, StoreFits DEF JumpCall, Stores
  <2> QED
    BY <1>3, <2>1, <2>2, <2>3, <2>4 DEF Integer2
<1>4. CASE c.op \in Scalar3
  <2>1. ScalarMacro[c.op] \in ScalarIs
    BY <1>4 DEF Scalar3, ScalarMacro, ScalarIs
  <2> QED
    BY <1>4, <2>1, EmitCases, FloatFits DEF JumpCall, Scalar3
<1>5. CASE c.op \in Packed3
  <2>1. PackedMacro[c.op] \in PackedIs
    BY <1>5 DEF Packed3, PackedMacro, PackedIs
  <2> QED
    BY <1>5, <2>1, EmitCases, FloatFits DEF JumpCall, Packed3
<1>6. CASE c.op \in {"CALLEX", "RETURN", "ITOF", "FTOI", "LESSF"}
  BY <1>6, EmitCases, ExitFits, ConversionFits, LessFits DEF JumpCall
<1>7. CASE c.op \in {"LOADF", "LOADF4"}
  BY <1>7, EmitCases, LoadFits DEF JumpCall, Loads
<1>8. CASE c.op \in {"STOREF", "STOREF4"}
  BY <1>8, EmitCases, StoreFits, NoneFits
     DEF JumpCall, Stores, JIT_STOREF, JIT_STOREF4, When
<1> QED
  BY <1>1, <1>2, <1>3, <1>4, <1>5, <1>6, <1>7, <1>8 DEF JumpCall

-----------------------------------------------------------------------------
(* The processor keeps its type.                                           *)

LEMMA PutTypes ==
  ASSUME NEW p \in State, NEW k \in Reg
  PROVE  /\ \A v \in Word : Put(p, k, v) \in State
         /\ \A v \in Lanes : PutX(p, k, v) \in State
         /\ \A v, w \in Word : Compare(p, v, w) \in State
BY DEF State, Out, Put, PutX, Compare

(* A store of lanes to memory leaves a state.                              *)
LEMMA MemoryType ==
  ASSUME NEW p \in State, NEW a \in Word, NEW v \in Lanes
  PROVE  [p EXCEPT !.m[a] = v] \in State
BY DEF State

(* The ways out of a block.                                                *)
LEMMA LeaveTypes ==
  ASSUME NEW p \in State
  PROVE  /\ Leave(p, "fault", 0) \in State /\ Leave(p, "lost", 0) \in State
         /\ Leave(p, "return", 0) \in State
         /\ \A k \in Int : Leave(p, "jump", k) \in State /\ Leave(p, "call", k) \in State
         /\ \A v \in Word : Leave(p, "callex", v) \in State
<1>1. \A o \in Out : [p EXCEPT !.out = o] \in State
  BY DEF State
<1>2. /\ <<"fault", 0>> \in Out /\ <<"lost", 0>> \in Out /\ <<"return", 0>> \in Out
      /\ \A k \in Int : <<"jump", k>> \in Out /\ <<"call", k>> \in Out
      /\ \A v \in Word : <<"callex", v>> \in Out
  BY DEF Out
<1> QED
  BY <1>1, <1>2 DEF Leave

(* What a state holds.                                                     *)
LEMMA StateFields ==
  ASSUME NEW p \in State
  PROVE  /\ \A k \in Reg : p.r[k] \in Word /\ p.x[k] \in Lanes
         /\ \A a \in Word : p.m[a] \in Lanes
         /\ p.cmp[1] \in Word /\ p.cmp[2] \in Word
BY DEF State

(* What lanes hold.                                                        *)
LEMMA LanesFields ==
  /\ \A v \in Lanes : v.lo \in Word /\ v.hi \in Word
  /\ \A v \in Lanes, w \in Word : [v EXCEPT !.lo = w] \in Lanes
  /\ \A v, w \in Word : [lo |-> v, hi |-> w] \in Lanes
BY DEF Lanes

(* The constants and registers the processor uses on its own.              *)
LEMMA Constants ==
  /\ Zero \in Word /\ Imm(8) \in Word /\ \A b \in BOOLEAN : Bit(b) \in Word
  /\ RAX \in Reg /\ RCX \in Reg /\ RDX \in Reg /\ RSP \in Reg
BY WordTypes DEF Zero, Bit, Reg, RAX, RCX, RDX, RSP

(* Instructions on general registers.                                      *)
LEMMA ExecRRType ==
  ASSUME NEW p \in State, NEW i \in Instr, i.op \in RRs
  PROVE  ExecRR(i, p) \in State
<1>1. i.rm \in Reg /\ i.reg \in Reg /\ Imm(i.im) \in Word
  BY DEF Instr, Field
<1>2. \A v, w \in Word, op \in AluOp : Alu(op, v, w) \in Word
  BY WordTypes
<1>3. p.r[i.rm] \in Word /\ p.r[i.reg] \in Word /\ p.r[RCX] \in Word
  BY <1>1, StateFields, Constants
<1>4. CASE i.op \in {"MOV", "MOVI32", "CMP64", "CMPI8"}
  BY <1>1, <1>3, <1>4, PutTypes DEF ExecRR
<1>5. CASE i.op \in {"ADD", "SUB", "AND", "OR", "XOR", "SAL", "SAR"}
  <2>1. i.op \in AluOp
    BY <1>5 DEF AluOp
  <2> QED
    BY <1>1, <1>2, <1>3, <1>5, <2>1, PutTypes DEF ExecRR
<1>6. CASE i.op \in {"IMUL", "SALI", "SARI"}
  <2>1. {"IMUL", "SAL", "SAR"} \subseteq AluOp
    BY DEF AluOp
  <2> QED
    BY <1>1, <1>2, <1>3, <1>6, <2>1, PutTypes DEF ExecRR
<1> QED
  BY <1>4, <1>5, <1>6 DEF RRs

(* The divider.                                                            *)
LEMMA ExecDivType ==
  ASSUME NEW p \in State, NEW i \in Instr, i.op \in {"CDQ", "IDIV64"}
  PROVE  ExecDiv(i, p) \in State
<1>1. i.rm \in Reg
  BY DEF Instr
<1>2. p.r[RDX] \in Word /\ p.r[RAX] \in Word /\ p.r[i.rm] \in Word
  BY <1>1, StateFields, Constants
<1> DEFINE qr == Idiv(p.r[RDX], p.r[RAX], p.r[i.rm])
<1>3. qr \in {<<>>} \cup (Word \X Word) /\ Cdq(p.r[RAX]) \in Word
  BY <1>2, WordTypes
<1>4. CASE i.op = "CDQ"
  BY <1>3, <1>4, PutTypes, Constants DEF ExecDiv
<1>5. CASE i.op = "IDIV64" /\ qr = <<>>
  BY <1>5, LeaveTypes DEF ExecDiv
<1>6. CASE i.op = "IDIV64" /\ qr # <<>>
  <2>1. qr[1] \in Word /\ qr[2] \in Word
    BY <1>3, <1>6
  <2>2. Put(p, RAX, qr[1]) \in State
    BY <2>1, PutTypes, Constants
  <2>3. Put(Put(p, RAX, qr[1]), RDX, qr[2]) \in State
    BY <2>1, <2>2, PutTypes, Constants
  <2> QED
    BY <1>6, <2>3 DEF ExecDiv
<1> QED
  BY <1>4, <1>5, <1>6

(* PUSH and POP.                                                           *)
LEMMA ExecStackType ==
  ASSUME NEW p \in State, NEW i \in Instr, i.op \in {"PUSH", "POP"}
  PROVE  ExecStack(i, p) \in State
<1> DEFINE slot == StackSlot(p)
           up   == Alu("ADD", p.r[RSP], Imm(8))
<1>1. i.rm \in Reg /\ p.r[i.rm] \in Word /\ p.r[RSP] \in Word
  BY StateFields, Constants DEF Instr
<1>2. slot \in Word /\ up \in Word /\ p.m[p.r[RSP]].lo \in Word
  BY <1>1, WordTypes, Constants, StateFields, LanesFields DEF StackSlot, AluOp
<1>3. CASE i.op = "PUSH"
  <2>1. Put(p, RSP, slot) \in State
    BY <1>2, PutTypes, Constants
  <2>2. ASSUME NEW q \in State, NEW a \in Word, NEW v \in Word
        PROVE  [q EXCEPT !.m[a].lo = v] \in State
    <3>1. q.m[a] \in Lanes
      BY StateFields
    <3>2. [q.m[a] EXCEPT !.lo = v] \in Lanes
      BY <3>1, LanesFields
    <3>3. [q EXCEPT !.m[a] = [q.m[a] EXCEPT !.lo = v]] \in State
      BY <3>2 DEF State
    <3>4. [q EXCEPT !.m[a].lo = v] = [q EXCEPT !.m[a] = [q.m[a] EXCEPT !.lo = v]]
      BY DEF State
    <3> QED
      BY <3>3, <3>4
  <2>3. ExecStack(i, p) = [Put(p, RSP, slot) EXCEPT !.m[slot].lo = p.r[i.rm]]
    BY <1>3 DEF ExecStack
  <2> QED
    BY <1>1, <1>2, <2>1, <2>2, <2>3
<1>4. CASE i.op = "POP"
  <2>1. Put(p, RSP, up) \in State
    BY <1>2, PutTypes, Constants
  <2>2. Put(Put(p, RSP, up), i.rm, p.m[p.r[RSP]].lo) \in State
    BY <1>1, <1>2, <2>1, PutTypes
  <2> QED
    BY <1>4, <2>2 DEF ExecStack
<1> QED
  BY <1>3, <1>4

(* Conditions and conditional jumps.                                       *)
LEMMA ExecFlagType ==
  ASSUME NEW p \in State, NEW i \in Instr, i.op \in Flags
  PROVE  ExecFlag(i, p) \in State
<1>1. p.cmp[1] \in Word /\ p.cmp[2] \in Word /\ p.r[RAX] \in Word
  BY StateFields, Constants
<1>2. \A b \in BOOLEAN : Put(p, RAX, Splice(8, p.r[RAX], Bit(b))) \in State
  BY <1>1, WordTypes, Constants, PutTypes
<1>3. CASE i.op \in {"SETL", "SETE", "SETA"}
  BY <1>1, <1>2, <1>3, WordTypes DEF ExecFlag
<1>4. CASE i.op = "MOVZX"
  <2>1. Low(8, p.r[RAX]) \in Word
    BY <1>1, WordTypes
  <2> QED
    BY <1>4, <2>1, PutTypes, Constants DEF ExecFlag
<1>5. CASE i.op \in {"JZ", "JNZ"}
  <2>1. i.im \in Int
    BY DEF Instr, Field
  <2>2. Leave(p, "jump", i.im) \in State
    BY <2>1, LeaveTypes
  <2> QED
    BY <1>5, <2>2 DEF ExecFlag
<1> QED
  BY <1>3, <1>4, <1>5 DEF Flags

(* Instructions that leave the block.                                      *)
LEMMA ExecLeaveType ==
  ASSUME NEW p \in State, NEW i \in Instr, i.op \in Leaves
  PROVE  ExecLeave(i, p) \in State
<1>1. i.im \in Int /\ i.rm \in Reg /\ p.r[i.rm] \in Word
  BY StateFields DEF Instr, Field
<1> QED
  BY <1>1, LeaveTypes DEF ExecLeave, Leaves

(* Loads and stores.                                                       *)
LEMMA ExecMemType ==
  ASSUME NEW p \in State, NEW i \in Instr, i.op \in Loads \cup Stores
  PROVE  ExecMem(i, p) \in State
<1> DEFINE a == Alu("ADD", p.r[i.rm], Imm(i.im))
<1>1. i.rm \in Reg /\ i.reg \in Reg /\ Imm(i.im) \in Word
  BY DEF Instr, Field
<1>2. a \in Word /\ p.r[i.reg] \in Word /\ p.x[i.reg] \in Lanes
  BY <1>1, StateFields, WordTypes DEF AluOp
<1>3. p.m[a] \in Lanes /\ p.m[a].lo \in Word /\ p.x[i.reg].lo \in Word
  BY <1>2, StateFields, LanesFields
<1>4. Low(32, p.m[a].lo) \in Word /\ Splice(32, p.m[a].lo, p.r[i.reg]) \in Word
  BY <1>2, <1>3, WordTypes
<1> HIDE DEF a
<1>5. ASSUME NEW v \in Word
      PROVE  /\ [p EXCEPT !.m[a] = [p.m[a] EXCEPT !.lo = v]] \in State
             /\ PutX(p, i.reg, [lo |-> v, hi |-> Zero]) \in State
             /\ Put(p, i.reg, v) \in State
  <2>1. [p EXCEPT !.m[a] = [p.m[a] EXCEPT !.lo = v]] \in State
    BY <1>2, <1>3, LanesFields, MemoryType
  <2>2. [lo |-> v, hi |-> Zero] \in Lanes
    BY LanesFields, Constants
  <2> QED
    BY <1>1, <2>1, <2>2, PutTypes
<1>6. CASE i.rm % 8 = 4
  BY <1>6, LeaveTypes DEF ExecMem
<1>7. CASE i.rm % 8 # 4 /\ i.op \in Loads
  BY <1>1, <1>2, <1>3, <1>4, <1>5, <1>7, PutTypes DEF ExecMem, Loads, a
<1>8. CASE i.rm % 8 # 4 /\ i.op \in Stores
  <2>1. [p EXCEPT !.m[a] = p.x[i.reg]] \in State
    BY <1>2, MemoryType
  <2> QED
    BY <1>2, <1>3, <1>4, <1>5, <1>8, <2>1 DEF ExecMem, Stores, a
<1> QED
  BY <1>6, <1>7, <1>8

(* Instructions on xmm registers.                                          *)
LEMMA ExecFloatType ==
  ASSUME NEW p \in State, NEW i \in Instr, i.op \in Floats
  PROVE  ExecFloat(i, p) \in State
<1> DEFINE x == p.x[i.reg]
           y == p.x[i.rm]
<1>1. i.rm \in Reg /\ i.reg \in Reg
  BY DEF Instr
<1>2. /\ x \in Lanes /\ y \in Lanes /\ p.r[i.rm] \in Word
      /\ x.lo \in Word /\ x.hi \in Word /\ y.lo \in Word /\ y.hi \in Word
  BY <1>1, StateFields, LanesFields
<1>3. ASSUME NEW v \in Word
      PROVE  /\ PutX(p, i.reg, [x EXCEPT !.lo = v]) \in State
             /\ Put(p, i.reg, v) \in State
             /\ \A w \in Word : PutX(p, i.reg, [lo |-> v, hi |-> w]) \in State
  BY <1>1, <1>2, PutTypes, LanesFields
<1>4. /\ \A op \in FAluOp : FAlu(op, x.lo, y.lo) \in Word /\ FAlu(op, x.hi, y.hi) \in Word
      /\ FromInt(p.r[i.rm]) \in Word /\ ToInt(y.lo) \in Word /\ Zero \in Word
  BY <1>2, WordTypes, Constants
<1>5. CASE i.op \in ScalarIs
  <2>1. i.op \in DOMAIN ScalarOp /\ i.op \notin {"MOVSS", "MOVUPS"}
    BY <1>5 DEF ScalarIs, ScalarOp
  <2>2. ScalarOp[i.op] \in FAluOp
    BY <1>5 DEF ScalarIs, ScalarOp, FAluOp
  <2>3. ExecFloat(i, p)
        = PutX(p, i.reg, [x EXCEPT !.lo = FAlu(ScalarOp[i.op], x.lo, y.lo)])
    BY <2>1 DEF ExecFloat, PackedOp, ScalarOp
  <2> QED
    BY <1>3, <1>4, <2>2, <2>3
<1>6. CASE i.op \in PackedIs
  <2>1. /\ i.op \notin DOMAIN ScalarOp
        /\ i.op \in DOMAIN PackedOp /\ PackedOp[i.op] \in FAluOp
    BY <1>6 DEF PackedIs, PackedOp, ScalarOp, FAluOp
  <2>2. ExecFloat(i, p) = PutX(p, i.reg, [lo |-> FAlu(PackedOp[i.op], x.lo, y.lo),
                                          hi |-> FAlu(PackedOp[i.op], x.hi, y.hi)])
    BY <1>6, <2>1 DEF ExecFloat, PackedIs
  <2> QED
    BY <1>3, <1>4, <2>1, <2>2
<1>7. CASE i.op \in {"MOVSS", "MOVUPS", "PXOR", "CVTSI2SS", "CVTSS2SI", "UCOMISS"}
  <2>1. i.op \notin DOMAIN ScalarOp /\ i.op \notin DOMAIN PackedOp
    BY <1>7 DEF PackedOp, ScalarOp
  <2>2. PutX(p, i.reg, y) \in State /\ Compare(p, x.lo, y.lo) \in State
    BY <1>1, <1>2, PutTypes
  <2> QED
    BY <1>2, <1>3, <1>4, <1>7, <2>1, <2>2 DEF ExecFloat
<1> QED
  BY <1>5, <1>6, <1>7 DEF Floats

(* Which part of the processor executes an operation.                      *)
LEMMA ExecCases ==
  ASSUME NEW p, NEW i
  PROVE  /\ i.op \in {"CDQ", "IDIV64"} => Exec(i, p) = ExecDiv(i, p)
         /\ i.op \in {"PUSH", "POP"}   => Exec(i, p) = ExecStack(i, p)
         /\ i.op \in Flags             => Exec(i, p) = ExecFlag(i, p)
         /\ i.op \in Leaves            => Exec(i, p) = ExecLeave(i, p)
         /\ i.op \in Loads \cup Stores => Exec(i, p) = ExecMem(i, p)
         /\ i.op \in Floats            => Exec(i, p) = ExecFloat(i, p)
         /\ i.op \in RRs               => Exec(i, p) = ExecRR(i, p)
BY DEF Exec, Flags, Leaves, Loads, Stores, Floats, ScalarIs, PackedIs, RRs,
       ScalarOp, PackedOp

(* Every instruction takes a state to a state.                             *)
LEMMA ExecType ==
  ASSUME NEW p \in State, NEW i \in Instr
  PROVE  Exec(i, p) \in State
<1>1. i.op \in Ops
  BY DEF Instr
<1> QED
  BY <1>1, ExecCases, ExecDivType, ExecStackType, ExecFlagType, ExecLeaveType,
     ExecMemType, ExecFloatType, ExecRRType DEF Ops

-----------------------------------------------------------------------------
(* The steps.                                                              *)

(* The calls that JIT__INFO2 has to record: jumps that were emitted.       *)
Recorded(c) == JumpCall(c) /\ Code(c) # <<>>

(* The calls that are recorded are those whose code has a jump.            *)
LEMMA RecordedJumps ==
  ASSUME NEW c \in Calls
  PROVE  Recorded(c) <=> \E j \in DOMAIN Code(c) : Code(c)[j].op \in Jumps
<1>1. CASE JumpCall(c)
  <2>1. Code(c) = <<>> \/ \E j \in DOMAIN Code(c) : Code(c)[j].op \in Jumps
    BY <1>1, EmitFits DEF Jumping
  <2> QED
    BY <1>1, <2>1 DEF JumpCall, Recorded
<1>2. CASE ~ JumpCall(c)
  <2>1. Code(c) \in Seq(Straight)
    BY <1>2, EmitFits DEF Fits, Bounded
  <2>2. \A j \in DOMAIN Code(c) : Code(c)[j] \in Straight
    BY <2>1
  <2> QED
    BY <1>2, <2>2 DEF JumpCall, Recorded, Straight, Plain
<1> QED
  BY <1>1, <1>2

(* What is emitted for a call.                                             *)
LEMMA EmitType ==
  ASSUME NEW c \in Calls
  PROVE  Code(c) \in Seq(Instr) /\ Len(Code(c)) <= MaxCode /\ Bytes(Code(c)) \in 0 .. 18
<1>1. Bounded(Straight, Code(c)) => Bounded(Instr, Code(c))
  BY DEF Bounded, Straight
<1> QED
  BY <1>1, EmitFits DEF Jumping, Fits, Bounded

Entries == [call : Calls, at : Nat, code : Seq(Instr)]

Typed ==
  /\ block \in Seq(Entries)
  /\ \A k \in DOMAIN block : block[k].code = Code(block[k].call)
  /\ buffer \in Nat /\ i1 \in Nat
  /\ info1 \in Seq(Nat \cup {Unset}) /\ info2 \in Seq(0 .. IndexMod - 1)
  /\ intact \in BOOLEAN /\ phase \in {"emit", "run", "dead"}
  /\ n \in 0 .. Len(block) /\ todo \in Seq(Instr)
  /\ cpu \in State /\ base \in State

(* The two ends of a call.                                                 *)
Crashed == UNCHANGED emitVars /\ UNCHANGED runVars /\ phase' = "dead"

Emitted(c) ==
  /\ block' = Append(block, [call |-> c, at |-> buffer, code |-> Code(c)])
  /\ buffer' = buffer + Bytes(Code(c))
  /\ info1' = Append(info1, IF c.op = "LOADF" THEN Unset ELSE buffer)
  /\ info2' = IF Recorded(c) THEN Append(info2, i1' % IndexMod) ELSE info2
  /\ i1' = i1 + 2
  /\ IF c.op = "LOADF" THEN intact' \in {intact, FALSE} ELSE UNCHANGED intact
  /\ UNCHANGED <<phase, runVars>>

(* The members of struct JITParsing, and the code written through it.      *)
Members(b, v, w, k, e) ==
  [buffer |-> b, info1 |-> v, info2 |-> w, i1 |-> k, code |-> e]

(* What the macros assign to them.                                         *)
LEMMA MacrosAssign ==
  ASSUME NEW b, NEW v, NEW w, NEW k, NEW e
  PROVE  /\ JIT__INFO(Members(b, v, w, k, e)) = Members(b, Append(v, b), w, k + 2, e)
         /\ InfoThroughEntry(Members(b, v, w, k, e))
            = Members(b, Append(v, Unset), w, k + 2, e)
         /\ JIT__INFO2(Members(b, v, w, k, e))
            = Members(b, v, Append(w, k % IndexMod), k, e)
<1> DEFINE p == Members(b, v, w, k, e)
<1>1. p.buffer = b /\ p.info1 = v /\ p.info2 = w /\ p.i1 = k
  BY DEF Members
<1>2. ASSUME NEW x PROVE [p EXCEPT !.info1 = x, !.i1 = k + 2] = Members(b, x, w, k + 2, e)
  <2> DEFINE q == Members(b, x, w, k, e)
  <2>1. [p EXCEPT !.info1 = x] = q
    BY DEF Members
  <2>2. [q EXCEPT !.i1 = k + 2] = Members(b, x, w, k + 2, e)
    BY DEF Members
  <2> HIDE DEF p, q
  <2> QED
    BY <2>1, <2>2, Zenon
<1>3. JIT__INFO(p) = [p EXCEPT !.info1 = Append(v, b), !.i1 = k + 2]
  BY <1>1, Zenon DEF JIT__INFO
<1>4. InfoThroughEntry(p) = [p EXCEPT !.info1 = Append(v, Unset), !.i1 = k + 2]
  BY <1>1, Zenon DEF InfoThroughEntry
<1>5. JIT__INFO2(p) = Members(b, v, Append(w, k % IndexMod), k, e)
  BY DEF JIT__INFO2, Members
<1> HIDE DEF p
<1> QED
  BY <1>2, <1>3, <1>4, <1>5, Zenon DEF p

(* A macro writes behind what has been written, here nothing.              *)
LEMMA WriteAssigns ==
  ASSUME NEW b, NEW v, NEW w, NEW k, NEW code \in Seq(Instr)
  PROVE  Write(Members(b, v, w, k, <<>>), code) = Members(b + Bytes(code), v, w, k, code)
<1> DEFINE p == Members(b, v, w, k, <<>>)
           y == b + Bytes(code)
           q == Members(y, v, w, k, <<>>)
<1>1. p.buffer = b /\ p.code = <<>>
  BY DEF Members
<1>2. <<>> \o code = code
  BY ConcatEmptySeq
<1>3. Write(p, code) = [p EXCEPT !.buffer = y, !.code = code]
  BY <1>1, <1>2, Zenon DEF Write
<1>4. [p EXCEPT !.buffer = y] = q
  BY DEF Members
<1>5. [q EXCEPT !.code = code] = Members(y, v, w, k, code)
  BY DEF Members
<1> HIDE DEF p, q, y
<1> QED
  BY <1>3, <1>4, <1>5, Zenon DEF p, y

(* What a function does to *p: whichever of its branches it takes, and if  *)
(* it hands *p over to another, it advances the tables once, writes its    *)
(* code where *p said, and records itself if that code jumps.              *)
LEMMA FunctionLeaves ==
  ASSUME NEW c \in Calls, NEW b \in Nat, NEW v, NEW w, NEW k
  PROVE  Function(c, Members(b, v, w, k, <<>>))
         = Members(b + Bytes(Code(c)),
                   Append(v, IF c.op = "LOADF" THEN Unset ELSE b),
                   IF Recorded(c) THEN Append(w, (k + 2) % IndexMod) ELSE w,
                   k + 2,
                   Code(c))
<1> DEFINE p == Members(b, v, w, k, <<>>)
           q == Members(b, Append(v, b), w, k + 2, <<>>)
           m == (k + 2) % IndexMod
<1>1. JIT__INFO(p) = q
  BY MacrosAssign
<1>2. Code(c) \in Seq(Instr)
  BY EmitType
<1> DEFINE Ends(code, r) == r = IF code = <<>> THEN q ELSE JIT__INFO2(Write(q, code))
<1> HIDE DEF p, q
<1>3. ASSUME NEW o
      PROVE  Ends(JumpCode(o), JIT_JUMP(p, o)) /\ Ends(CallCode(o), JIT_CALL(p, o))
  BY <1>1 DEF JIT_JUMP, JumpCode, JIT_CALL, CallCode, When
<1>4. ASSUME NEW s, NEW t, NEW o
      PROVE  /\ Ends(BranchCode(s, t, o), JIT_BRANCH(p, s, t, o))
             /\ Ends(NBranchCode(s, t, o), JIT_NBRANCH(p, s, t, o))
  BY <1>1, <1>3 DEF JIT_BRANCH, JIT_NBRANCH, BranchCode, NBranchCode, Flag, When
<1>5. CASE JumpCall(c)
  <2>1. Ends(Code(c), Function(c, p))
    BY <1>3, <1>4, <1>5 DEF JumpCall, Code, Function
  <2>2. c.op # "LOADF" /\ (Recorded(c) <=> Code(c) # <<>>)
    BY <1>5 DEF JumpCall, Recorded
  <2>3. CASE Code(c) = <<>>
    <3>1. b + Bytes(Code(c)) = b
      BY <2>3 DEF Bytes, Size
    <3> QED
      BY <2>1, <2>2, <2>3, <3>1 DEF p, q
  <2>4. CASE Code(c) # <<>>
    <3>1. Function(c, p) = JIT__INFO2(Write(q, Code(c)))
      BY <2>1, <2>4
    <3> DEFINE y == b + Bytes(Code(c))
    <3>2. Write(q, Code(c)) = Members(y, Append(v, b), w, k + 2, Code(c))
      BY <1>2, WriteAssigns DEF q
    <3>3. JIT__INFO2(Members(y, Append(v, b), w, k + 2, Code(c)))
          = Members(y, Append(v, b), Append(w, m), k + 2, Code(c))
      BY MacrosAssign
    <3> QED
      BY <2>2, <2>4, <3>1, <3>2, <3>3 DEF p
  <2> QED
    BY <2>3, <2>4
<1>6. CASE ~ JumpCall(c)
  <2> DEFINE x == IF c.op = "LOADF" THEN Unset ELSE b
  <2>1. Code(c) = Emit(c) /\ ~ Recorded(c)
    BY <1>6 DEF JumpCall, Code, Recorded
  <2>2. Function(c, p) = Write(IF c.op = "LOADF" THEN InfoThroughEntry(p) ELSE q, Code(c))
    BY <1>1, <1>6, <2>1 DEF JumpCall, Function
  <2>3. Function(c, p) = Write(Members(b, Append(v, x), w, k + 2, <<>>), Code(c))
    <3>1. InfoThroughEntry(p) = Members(b, Append(v, Unset), w, k + 2, <<>>)
      BY MacrosAssign DEF p
    <3> QED
      BY <2>2, <3>1 DEF q
  <2>4. Function(c, p)
        = Members(b + Bytes(Code(c)), Append(v, x), w, k + 2, Code(c))
    BY <1>2, <2>3, WriteAssigns
  <2> QED
    BY <2>1, <2>4 DEF p
<1> QED
  BY <1>5, <1>6

(* A call returns with the tables as its function left them, or crashes.   *)
LEMMA CallEnds ==
  ASSUME Typed, NEW c \in Calls, Call(c)
  PROVE  Crashed \/ Emitted(c)
<1>1. buffer \in Nat /\ UNCHANGED runVars
  BY DEF Typed, Call
<1>2. CASE Crash(c)
  BY <1>1, <1>2 DEF Crash, Crashed
<1>3. CASE Returned(c)
  <2> DEFINE q == Function(c, Parsing)
  <2>1. q = Members(buffer + Bytes(Code(c)),
                    Append(info1, IF c.op = "LOADF" THEN Unset ELSE buffer),
                    IF Recorded(c) THEN Append(info2, (i1 + 2) % IndexMod) ELSE info2,
                    i1 + 2,
                    Code(c))
    <3>1. Parsing = Members(buffer, info1, info2, i1, <<>>)
      BY DEF Parsing, Members
    <3> QED
      BY <1>1, <3>1, FunctionLeaves
  <2>2. /\ block' = Append(block, [call |-> c, at |-> buffer, code |-> q.code])
        /\ buffer' = q.buffer /\ info1' = q.info1 /\ info2' = q.info2 /\ i1' = q.i1
        /\ intact' \in IF c.op = "LOADF" THEN {intact, FALSE} ELSE {intact}
        /\ UNCHANGED phase
    BY <1>3 DEF Returned
  <2> HIDE DEF q
  <2> QED
    BY <1>1, <2>1, <2>2 DEF Emitted, Members
<1> QED
  BY <1>2, <1>3 DEF Call

(* Typed holds before the first call.                                      *)
LEMMA TypedInit == Init => Typed
<1> SUFFICES ASSUME Init PROVE Typed
  OBVIOUS
<1>1. cpu \in State
  BY MachineTypes DEF Init, State, Out, Fall
<1> QED
  BY <1>1, BoundTypes DEF Init, Typed

(* Indexes of jumps are typed.                                             *)
LEMMA IndexType ==
  ASSUME NEW a \in Int
  PROVE  a % IndexMod \in 0 .. IndexMod - 1
BY BoundTypes

(* Every step preserves Typed.                                             *)
LEMMA TypedNext == Typed /\ [Next]_vars => Typed'
<1> SUFFICES ASSUME Typed, [Next]_vars PROVE Typed'
  OBVIOUS
<1>1. ASSUME NEW c \in Calls, Call(c) PROVE Typed'
  <2>1. CASE Crashed
    BY <2>1 DEF Typed, Crashed, emitVars, runVars
  <2>2. CASE Emitted(c)
    <3> DEFINE e == [call |-> c, at |-> buffer, code |-> Code(c)]
    <3>1. e \in Entries /\ Bytes(Code(c)) \in Nat
      <4>1. Code(c) \in Seq(Instr) /\ Bytes(Code(c)) \in Nat
        BY <1>1, EmitType
      <4> QED
        BY <1>1, <4>1 DEF Entries, Typed
    <3>2. block' = Append(block, e)
      BY <2>2 DEF Emitted
    <3> HIDE DEF e
    <3>3. block' \in Seq(Entries) /\ Len(block') = Len(block) + 1
      BY <3>1, <3>2, AppendProperties DEF Typed
    <3>4. \A k \in DOMAIN block' : block'[k].code = Code(block'[k].call)
      BY <3>1, <3>2, AppendProperties DEF Typed, e
    <3>5. info1' \in Seq(Nat \cup {Unset})
      BY <2>2 DEF Typed, Emitted
    <3>6. i1' \in Nat
      BY <2>2 DEF Typed, Emitted
    <3>7. i1' % IndexMod \in 0 .. IndexMod - 1
      BY <3>6, IndexType
    <3> DEFINE m == i1' % IndexMod
               S == 0 .. IndexMod - 1
    <3>8. info2 \in Seq(S) /\ info2' = (IF Recorded(c) THEN Append(info2, m) ELSE info2)
      BY <2>2 DEF Typed, Emitted
    <3>9. info2' \in Seq(S)
      <4> HIDE DEF m, S
      <4>1. m \in S
        BY <3>7 DEF m, S
      <4> QED
        BY <3>8, <4>1
    <3>10. intact' \in BOOLEAN
      <4>1. intact \in BOOLEAN
        BY DEF Typed
      <4>2. IF c.op = "LOADF" THEN intact' \in {intact, FALSE} ELSE intact' = intact
        BY <2>2 DEF Emitted
      <4> QED
        BY <4>1, <4>2
    <3>11. /\ buffer' \in Nat /\ phase' \in {"emit", "run", "dead"}
           /\ n' \in 0 .. Len(block') /\ todo' \in Seq(Instr)
           /\ cpu' \in State /\ base' \in State
      BY <2>2, <3>1, <3>3 DEF Typed, Emitted, runVars
    <3> QED
      BY <3>3, <3>4, <3>5, <3>6, <3>9, <3>10, <3>11 DEF Typed
  <2> QED
    BY <1>1, <2>1, <2>2, CallEnds
<1>2. CASE Start
  BY <1>2 DEF Typed, Start, emitVars, runVars
<1>3. CASE Reach
  <2>1. n + 1 \in DOMAIN block
    BY <1>3 DEF Typed, Reach
  <2>2. block[n + 1].code \in Seq(Instr)
    <3>1. block[n + 1] \in Entries
      BY <2>1 DEF Typed
    <3> QED
      BY <3>1 DEF Entries
  <2> QED
    BY <1>3, <2>1, <2>2 DEF Typed, Reach, emitVars
<1>4. ASSUME NEW p \in State, Ran(p), todo # <<>> PROVE Typed'
  <2>1. Tail(todo) \in Seq(Instr)
    BY <1>4 DEF Typed
  <2> QED
    BY <1>4, <2>1 DEF Typed, Ran, emitVars
<1>5. CASE Run
  <2>1. Head(todo) \in Instr
    BY <1>5 DEF Typed, Run
  <2>2. Exec(Head(todo), cpu) \in State
    BY <2>1, ExecType DEF Typed
  <2> QED
    BY <1>4, <1>5, <2>2 DEF Run
<1>6. CASE RunDamaged
  <2>1. Leave(cpu, "lost", 0) \in State
    BY LeaveTypes DEF Typed
  <2> QED
    BY <1>4, <1>6, <2>1 DEF RunDamaged
<1>7. CASE UNCHANGED vars
  BY <1>7 DEF Typed, vars, emitVars, runVars
<1> QED
  BY <1>1, <1>2, <1>3, <1>5, <1>6, <1>7 DEF Next

-----------------------------------------------------------------------------
(* The theorems.                                                           *)

(* Emitter and processor keep the types of their state, and no call emits  *)
(* more than six instructions.                                             *)
THEOREM TypesHold == Spec => []TypeOK
<1>1. Typed => TypeOK
  <2> SUFFICES ASSUME Typed PROVE TypeOK
    OBVIOUS
  <2>1. ASSUME NEW k \in DOMAIN block
        PROVE  /\ block[k].call \in Calls /\ block[k].at \in Nat
               /\ Len(block[k].code) <= MaxCode
    <3>1. block[k] \in Entries
      BY DEF Typed
    <3>2. block[k].call \in Calls /\ block[k].at \in Nat
      BY <3>1 DEF Entries
    <3> QED
      BY <3>2, EmitType DEF Typed
  <2>2. ASSUME NEW p \in {cpu, base}
        PROVE  /\ p.r \in [Reg -> Word] /\ p.x \in [Reg -> Lanes]
               /\ p.m \in [Word -> Lanes] /\ p.cmp \in Word \X Word
    BY DEF Typed, State
  <2> QED
    BY <2>1, <2>2 DEF Typed, TypeOK
<1> QED
  BY <1>1, TypedInit, TypedNext, PTL DEF Spec

(* The bounds that a client needs hold, whatever calls it makes.           *)
THEOREM RoomForCode == Spec => []EighteenBytesPerCall
<1> DEFINE Room == EighteenBytesPerCall
<1>1. Init => Room
  BY DEF Init, EighteenBytesPerCall
<1>2. Typed /\ Room /\ [Next]_vars => Room'
  <2> SUFFICES ASSUME Typed, Room, [Next]_vars PROVE Room'
    OBVIOUS
  <2>1. ASSUME NEW c \in Calls, Emitted(c) PROVE Room'
    <3>1. Bytes(Code(c)) \in 0 .. 18
      BY EmitType
    <3>2. /\ Len(block') = Len(block) + 1 /\ Len(info1') = Len(info1) + 1
          /\ Len(info2') <= Len(info2) + 1
          /\ Len(block) \in Nat /\ Len(info1) \in Nat /\ Len(info2) \in Nat
          /\ Len(info2') \in Nat
      BY <2>1 DEF Emitted, Typed
    <3>3. buffer' = buffer + Bytes(Code(c)) /\ buffer \in Nat
      BY <2>1 DEF Emitted, Typed
    <3> QED
      <4>1. /\ buffer <= 18 * Len(block)
            /\ Len(info1) <= Len(block) /\ Len(info2) <= Len(block)
        BY DEF EighteenBytesPerCall
      <4>2. buffer' <= 18 * Len(block')
        <5>1. \A b, l \in Nat, k \in 0 .. 18 : b <= 18 * l => b + k <= 18 * (l + 1)
          OBVIOUS
        <5> QED
          BY <3>1, <3>2, <3>3, <4>1, <5>1
      <4>3. Len(info1') <= Len(block') /\ Len(info2') <= Len(block')
        BY <3>2, <4>1
      <4> QED
        BY <4>2, <4>3 DEF EighteenBytesPerCall
  <2>2. CASE UNCHANGED <<block, buffer, info1, info2>>
    BY <2>2 DEF EighteenBytesPerCall
  <2> QED
    BY <2>1, <2>2, CallEnds
       DEF Next, vars, emitVars, Start, Reach, Run, RunDamaged, Ran, Crashed
<1> QED
  BY <1>1, <1>2, TypedInit, TypedNext, PTL DEF Spec

(* info1 has the place of the code of every call but the JIT_LOADFs, since *)
(* every function leaves one entry on each of its paths (FunctionLeaves).  *)
THEOREM EntriesHold == Spec => []EntryPerCall
<1> DEFINE EPC == EntryPerCall
<1>1. Init => EPC
  BY DEF Init, EntryPerCall
<1>2. Typed /\ EPC /\ [Next]_vars => EPC'
  <2> SUFFICES ASSUME Typed, EPC, [Next]_vars PROVE EPC'
    OBVIOUS
  <2>1. ASSUME NEW c \in Calls, Emitted(c) PROVE EPC'
    <3> DEFINE e == [call |-> c, at |-> buffer, code |-> Code(c)]
               L == Len(block)
               entry == IF c.op = "LOADF" THEN Unset ELSE buffer
    <3>1. L \in Nat /\ Len(info1) = L /\ info1 \in Seq(Nat \cup {Unset})
      BY DEF Typed, EntryPerCall
    <3>2. block' = Append(block, e) /\ info1' = Append(info1, entry)
      BY <2>1 DEF Emitted
    <3> HIDE DEF e, entry
    <3>3. /\ Len(block') = L + 1 /\ Len(info1') = L + 1
          /\ DOMAIN block' = 1 .. L + 1 /\ DOMAIN block = 1 .. L
          /\ DOMAIN info1' = 1 .. L + 1
          /\ \A k \in 1 .. L : block'[k] = block[k] /\ info1'[k] = info1[k]
          /\ block'[L + 1] = e /\ info1'[L + 1] = entry
      BY <3>1, <3>2 DEF Typed
    <3>4. buffer' = buffer + Bytes(Code(c))
      BY <2>1 DEF Emitted
    <3>5. ASSUME NEW k \in 1 .. L + 1
          PROVE  /\ info1'[k] = IF block'[k].call.op = "LOADF" THEN Unset ELSE block'[k].at
                 /\ block'[k].at + Bytes(block'[k].code)
                    = IF k < Len(block') THEN block'[k + 1].at ELSE buffer'
      <4>1. CASE k = L + 1
        BY <3>3, <3>4, <4>1, <3>1 DEF e, entry
      <4>2. CASE k = L
        BY <3>1, <3>3, <4>2 DEF EntryPerCall, e
      <4>3. CASE k < L
        BY <3>1, <3>3, <4>3 DEF EntryPerCall
      <4> QED
        BY <3>1, <4>1, <4>2, <4>3
    <3>6. intact' \/ \E k \in 1 .. L + 1 : info1'[k] = Unset
      <4>1. CASE c.op = "LOADF"
        BY <3>1, <3>3, <4>1 DEF entry
      <4>2. CASE c.op # "LOADF" /\ ~ intact
        BY <3>1, <3>3, <4>2 DEF EntryPerCall
      <4>3. CASE c.op # "LOADF" /\ intact
        <5>1. intact' = intact
          BY <2>1, <4>3 DEF Emitted
        <5> QED
          BY <4>3, <5>1
      <4> QED
        BY <4>1, <4>2, <4>3
    <3> QED
      BY <3>3, <3>5, <3>6 DEF EntryPerCall
  <2>2. CASE UNCHANGED emitVars
    BY <2>2 DEF EntryPerCall, emitVars
  <2> QED
    BY <2>1, <2>2, CallEnds
       DEF Next, vars, Start, Reach, Run, RunDamaged, Ran, Crashed
<1> QED
  BY <1>1, <1>2, TypedInit, TypedNext, PTL DEF Spec

(* Indices modulo an even number that are less than it apart differ.       *)
LEMMA IndicesDiffer ==
  ASSUME NEW a \in Int, NEW b \in Int, 0 < b - a, b - a < IndexMod
  PROVE  a % IndexMod # b % IndexMod
<1> DEFINE M == IndexMod
           p == a \div M
           q == b \div M
<1>1. M \in Nat \ {0}
  BY BoundTypes
<1> HIDE DEF M
<1>2. /\ a = M * p + (a % M) /\ b = M * q + (b % M)
      /\ p \in Int /\ q \in Int /\ a % M \in Int /\ b % M \in Int
  BY <1>1
<1> HIDE DEF p, q
<1>3. \A k \in Int : (k > 0 => M * k >= M) /\ (k <= 0 => M * k <= 0)
  BY <1>1
<1>4. M * (q - p) = M * q - M * p
  BY <1>1, <1>2
<1>5. ASSUME a % M = b % M PROVE FALSE
  <2>1. b - a = M * (q - p)
    BY <1>1, <1>2, <1>4, <1>5
  <2>2. 0 < M * (q - p) /\ M * (q - p) < M
    BY <2>1 DEF M
  <2>3. q - p \in Int
    BY <1>2
  <2> QED
    BY <1>1, <1>3, <2>2, <2>3
<1> QED
  BY <1>5 DEF M

(* Jumps and only jumps are in info2, under indices of their own.          *)
THEOREM JumpsHold == Spec => []JumpsAreIdentified
<1> DEFINE JAI == JumpsAreIdentified
<1>1. Init => JAI
  BY DEF Init, JumpsAreIdentified
<1>2. Typed /\ JAI /\ [Next]_vars => JAI'
  <2> SUFFICES ASSUME Typed, JAI, [Next]_vars PROVE JAI'
    OBVIOUS
  <2>1. ASSUME NEW c \in Calls, Emitted(c) PROVE JAI'
    <3> DEFINE e == [call |-> c, at |-> buffer, code |-> Code(c)]
    <3>0. PICK L \in Nat, N \in Nat : L = Len(block) /\ N = Len(info2)
      BY DEF Typed
    <3>1. L \in Nat /\ N \in Nat /\ i1 \in Nat /\ i1' = i1 + 2 /\ IndexMod \in Nat
      BY <2>1, BoundTypes DEF Typed, Emitted
    <3>2. block' = Append(block, e)
      BY <2>1 DEF Emitted
    <3> HIDE DEF e
    <3>3. /\ Len(block') = L + 1 /\ DOMAIN block' = 1 .. L + 1 /\ DOMAIN block = 1 .. L
          /\ \A k \in 1 .. L : block'[k] = block[k]
          /\ block'[L + 1] = e
      BY <3>0, <3>2 DEF Typed
    <3>4. \A k \in 1 .. L : IsJump(k)' <=> IsJump(k)
      BY <3>3 DEF IsJump
    <3>5. IsJump(L + 1)' <=> Recorded(c)
      BY <3>3, RecordedJumps DEF IsJump, Jumps, e
    <3>6. ASSUME NEW k \in 1 .. L PROVE Entry(k)' = Entry(k)
      <4>1. i1' - 2 * (Len(block') - k) = i1 - 2 * (L - k)
        BY <3>1, <3>3
      <4> QED
        BY <3>0, <4>1 DEF Entry
    <3> DEFINE last == i1' % IndexMod
    <3>7. Entry(L + 1)' = last
      <4>1. i1' - 2 * (Len(block') - (L + 1)) = i1'
        BY <3>1, <3>3
      <4> QED
        BY <4>1 DEF Entry
    <3>8. ASSUME NEW k \in 1 .. L, 2 * (L + 1) <= IndexMod PROVE Entry(k) # last
      <4> DEFINE a == i1 - 2 * (L - k)
      <4>1. a \in Int /\ i1' \in Int /\ 0 < i1' - a /\ i1' - a < IndexMod
        BY <3>1, <3>8
      <4> HIDE DEF a
      <4>2. a % IndexMod # i1' % IndexMod
        BY <4>1, IndicesDiffer
      <4> QED
        BY <3>0, <4>2 DEF Entry, a
    <3>9. info2' = IF Recorded(c) THEN Append(info2, last) ELSE info2
      BY <2>1 DEF Emitted
    <3> HIDE DEF last
    <3>10. /\ DOMAIN info2 = 1 .. N
           /\ \A k \in 1 .. L : IsJump(k) => \E j \in 1 .. N : info2[j] = Entry(k)
           /\ \A j \in 1 .. N : \E k \in 1 .. L : IsJump(k) /\ info2[j] = Entry(k)
           /\ 2 * L <= IndexMod => \A j, k \in 1 .. N : info2[j] = info2[k] => j = k
      <4>1. DOMAIN info2 = 1 .. N
        BY <3>0 DEF Typed
      <4>2. L = Len(block) /\ DOMAIN block = 1 .. L
        BY <3>0, <3>3
      <4> QED
        BY <4>1, <4>2 DEF JumpsAreIdentified
    <3>11. CASE Recorded(c)
      <4>1. /\ DOMAIN info2' = 1 .. N + 1 /\ info2'[N + 1] = last
            /\ \A j \in 1 .. N : info2'[j] = info2[j]
        BY <3>0, <3>9, <3>11 DEF Typed
      <4>2. ASSUME NEW k \in 1 .. L + 1, IsJump(k)'
            PROVE  \E j \in 1 .. N + 1 : info2'[j] = Entry(k)'
        <5>1. CASE k = L + 1
          BY <3>1, <3>7, <4>1, <5>1
        <5>2. CASE k \in 1 .. L
          <6>1. PICK j \in 1 .. N : info2[j] = Entry(k)
            BY <3>4, <3>10, <4>2, <5>2
          <6> QED
            BY <3>1, <3>6, <4>1, <5>2, <6>1
        <5> QED
          BY <3>1, <5>1, <5>2
      <4>3. ASSUME NEW j \in 1 .. N + 1
            PROVE  \E k \in 1 .. L + 1 : IsJump(k)' /\ info2'[j] = Entry(k)'
        <5>1. CASE j = N + 1
          BY <3>1, <3>5, <3>7, <3>11, <4>1, <5>1
        <5>2. CASE j \in 1 .. N
          <6>1. PICK k \in 1 .. L : IsJump(k) /\ info2[j] = Entry(k)
            BY <3>10, <5>2
          <6> QED
            BY <3>1, <3>4, <3>6, <4>1, <5>2, <6>1
        <5> QED
          BY <3>1, <5>1, <5>2
      <4>4. ASSUME 2 * (L + 1) <= IndexMod, NEW j \in 1 .. N + 1, NEW k \in 1 .. N + 1,
                   info2'[j] = info2'[k]
            PROVE  j = k
        <5>1. \A h \in 1 .. N : info2[h] # last
          BY <3>8, <3>10, <4>4
        <5>2. 2 * L <= IndexMod
          BY <3>1, <4>4
        <5> QED
          BY <3>1, <3>10, <4>1, <4>4, <5>1, <5>2
      <4> QED
        BY <3>3, <4>1, <4>2, <4>3, <4>4 DEF JumpsAreIdentified
    <3>12. CASE ~ Recorded(c)
      <4>1. info2' = info2
        BY <3>9, <3>12
      <4>2. ASSUME NEW k \in 1 .. L + 1, IsJump(k)'
            PROVE  \E j \in 1 .. N : info2[j] = Entry(k)'
        BY <3>1, <3>4, <3>5, <3>6, <3>10, <3>12, <4>2
      <4>3. ASSUME NEW j \in 1 .. N
            PROVE  \E k \in 1 .. L + 1 : IsJump(k)' /\ info2[j] = Entry(k)'
        <5>1. PICK k \in 1 .. L : IsJump(k) /\ info2[j] = Entry(k)
          BY <3>10
        <5> QED
          BY <3>1, <3>4, <3>6, <5>1
      <4>4. 2 * (L + 1) <= IndexMod => 2 * L <= IndexMod
        BY <3>1
      <4> QED
        BY <3>3, <3>10, <4>1, <4>2, <4>3, <4>4 DEF JumpsAreIdentified
    <3> QED
      BY <3>11, <3>12
  <2>2. CASE UNCHANGED emitVars
    BY <2>2 DEF JumpsAreIdentified, IsJump, Entry, emitVars
  <2> QED
    BY <2>1, <2>2, CallEnds
       DEF Next, vars, Start, Reach, Run, RunDamaged, Ran, Crashed
<1> QED
  BY <1>1, <1>2, TypedInit, TypedNext, PTL DEF Spec
=============================================================================
