------------------------------- MODULE JitAsm -------------------------------
(***************************************************************************)
(* What the operations of jit_compiler_x64.c mean: a machine that executes *)
(* the calls of a block as instructions of its own, one at a time.         *)
(*                                                                         *)
(* JIT_R0 reads as zero and is never written; JIT_RE (rax) is volatile, so *)
(* every operation may leave anything in it.  Sound names the operands for *)
(* which the code keeps this promise; other calls are only bound to leave  *)
(* alone what they have nothing to do with (Footprint).                    *)
(***************************************************************************)
EXTENDS Words

CONSTANTS
  Calls              (* Calls [op, d, s, t, i] of the emitter.             *)

VARIABLES prog,      (* The calls of the block.                            *)
          running,   (* Whether the block is being executed.               *)
          done,      (* The number of calls executed.                      *)
          st         (* r, x, m and out, as in X64 but without cmp.        *)

asmVars == <<prog, running, done, st>>

Fall == <<"fall", 0>>

R0 == -1
RE == 0
RC == 1
RD == 2
SP == 4
A1 == 7

(* Registers that cannot be the base of an access.                         *)
NoBase == {4, 12}

Binary == [ADD |-> "ADD", SUB |-> "SUB", MUL |-> "IMUL", AND |-> "AND", OR |-> "OR",
           XOR |-> "XOR", SHIFTL |-> "SAL", SHIFTR |-> "SAR"]
Unary  == [ADDI |-> "ADD", SHIFTLI |-> "SAL", SHIFTRI |-> "SAR"]
Float  == [ADDF |-> "ADD", SUBF |-> "SUB", MULF |-> "MUL", DIVF |-> "DIV",
           MINF |-> "MIN", MAXF |-> "MAX"]
Float4 == [ADDF4 |-> "ADD", SUBF4 |-> "SUB", MULF4 |-> "MUL", DIVF4 |-> "DIV",
           MINF4 |-> "MIN", MAXF4 |-> "MAX"]
Loads   == {"LOAD32", "LOAD64", "LOADF", "LOADF4"}
Stores  == {"STORE32", "STORE64", "STOREF", "STOREF4"}
Exits   == {"JUMP", "BRANCH", "NBRANCH", "CALL", "CALLEX", "RETURN"}

ToReg   == DOMAIN Binary \cup DOMAIN Unary \cup {"DIV", "LESS", "LESSF", "LOAD32", "LOAD64", "FTOI"}
ToXmm   == DOMAIN Float \cup DOMAIN Float4 \cup {"LOADF", "LOADF4", "ITOF"}

Val(n)  == IF n = R0 THEN Zero ELSE st.r[n]
At(n,i) == Alu("ADD", st.r[n], Imm(i))

-----------------------------------------------------------------------------
(* Which operands an operation computes with as it should.                 *)

(* d := s comes first, so t must not be d, unless that assignment is not   *)
(* needed.                                                                 *)
Survives(c) == c.t # c.d \/ c.s \in {c.d, R0}

SoundBinary(c) ==
  /\ Survives(c)
  /\ c.op = "SUB" => c.s # R0 \/ c.t = R0
  /\ c.op = "AND" => R0 \notin {c.s, c.t} \/ c.s = c.t
  /\ c.op = "XOR" => c.s # c.t \/ c.s = R0
  /\ c.op \in {"SHIFTL", "SHIFTR"} /\ c.s # R0
     => IF c.t = R0 THEN c.s = c.d ELSE c.d \notin {RC, SP} /\ c.t # SP

SoundDiv(c) ==
  \/ c.s = R0 /\ Val(c.t) # Zero
  \/ /\ c.d \notin {RD, SP} /\ c.s \notin {R0, SP} /\ c.t \notin {R0, RE, RD, SP}
     /\ Val(c.s) \in Narrow /\ Val(c.t) # Zero

SoundLoad(c)  == c.s = SP \/ c.s \notin NoBase \cup {R0}

(* The integer stores use the offset as register and the register as       *)
(* offset.                                                                 *)
SoundStore(c) ==
  /\ c.d \notin NoBase \cup {R0}
  /\ \/ c.s \notin {R0, SP} /\ c.i = c.s
     \/ c.s = SP /\ c.i = 0 /\ c.d # RE

(* A store of JIT_R0 would have to be one of zero, and is not emitted.     *)
SoundStoreF(c) == c.s # R0 /\ (c.d = SP \/ c.d \notin NoBase \cup {R0})

Sound(c) ==
  /\ c.op \in DOMAIN Binary                    => c.d = R0 \/ SoundBinary(c)
  /\ c.op = "DIV"                              => c.d = R0 \/ SoundDiv(c)
  /\ c.op \in DOMAIN Unary \ {"ADDI"}          => R0 \in {c.d, c.s}
  /\ c.op = "ADDI"                             => c.d # R0 /\ c.s = R0
  /\ c.op = "LESS"                             => c.d = R0 \/ c.s # R0 \/ c.t = R0
  /\ c.op \in Loads                            => c.d = R0 \/ SoundLoad(c)
  /\ c.op \in {"STORE32", "STORE64"}           => SoundStore(c)
  /\ c.op \in {"STOREF", "STOREF4"}            => SoundStoreF(c)
  /\ c.op \in DOMAIN Float \cup DOMAIN Float4  => Survives(c)
  /\ c.op # "LESSF"
  /\ c.op \in {"JUMP", "BRANCH", "NBRANCH", "CALL"} => c.i \notin {0, -1}
  /\ c.op = "CALLEX"                           => c.s # R0

-----------------------------------------------------------------------------
(* What an operation assigns to register d, or to xmm register d.          *)
Result(c) ==
  LET x == Val(c.s)
      y == Val(c.t)
  IN CASE c.op \in DOMAIN Binary -> Alu(Binary[c.op], x, y)
       [] c.op \in DOMAIN Unary  -> Alu(Unary[c.op], x, Imm(c.i))
       [] c.op = "DIV"           -> Quotient(x, y)
       [] c.op = "LESS"          -> Bit(Less(x, y))
       [] c.op = "LOAD32"        -> Low(32, st.m[At(c.s, c.i)].lo)
       [] c.op = "LOAD64"        -> st.m[At(c.s, c.i)].lo
       [] c.op = "FTOI"          -> ToInt(st.x[c.s].lo)

ResultX(c) ==
  LET x == st.x[c.s]
      y == st.x[c.t]
  IN CASE c.op \in DOMAIN Float  -> [lo |-> FAlu(Float[c.op], x.lo, y.lo),
                                     hi |-> st.x[c.d].hi]
       [] c.op \in DOMAIN Float4 -> [lo |-> FAlu(Float4[c.op], x.lo, y.lo),
                                     hi |-> FAlu(Float4[c.op], x.hi, y.hi)]
       [] c.op = "ITOF"          -> [lo |-> FromInt(Val(c.s)), hi |-> Zero]
       [] c.op = "LOADF"         -> [lo |-> st.m[At(c.s, c.i)].lo, hi |-> Zero]
       [] c.op = "LOADF4"        -> st.m[At(c.s, c.i)]

(* The memory after a store.                                               *)
Stored(c) ==
  LET a   == At(c.d, c.i)
      lo  == CASE c.op = "STORE32" -> Splice(32, st.m[a].lo, Val(c.s))
               [] c.op = "STORE64" -> Val(c.s)
               [] OTHER            -> st.x[c.s].lo
  IN [st.m EXCEPT ![a] = IF c.op = "STOREF4" THEN st.x[c.s] ELSE [@ EXCEPT !.lo = lo]]

(* How an operation leaves the block, if it does.                          *)
Exit(c) ==
  CASE c.op = "JUMP"    -> <<"jump", c.i>>
    [] c.op = "BRANCH"  -> IF Val(c.s) = Val(c.t) THEN <<"jump", c.i>> ELSE Fall
    [] c.op = "NBRANCH" -> IF Val(c.s) = Val(c.t) THEN Fall ELSE <<"jump", c.i>>
    [] c.op = "CALL"    -> <<"call", c.i>>
    [] c.op = "CALLEX"  -> <<"callex", Val(c.s)>>
    [] c.op = "RETURN"  -> <<"return", 0>>
    [] OTHER            -> Fall

(* The cell below the stack pointer belongs to the operations, as JIT_RE   *)
(* does.                                                                   *)
SameBut(f, g, free) == \A k \in DOMAIN f : k \in free \/ f[k] = g[k]

BelowStack == Alu("SUB", st.r[SP], Imm(8))

Meaning(c, to) ==
  /\ IF c.op \in ToReg /\ c.d # R0
     THEN SameBut(st.r, to.r, {RE, c.d}) /\ to.r[c.d] = Result(c)
     ELSE SameBut(st.r, to.r, {RE})
  /\ IF c.op \in ToXmm /\ c.d # R0
     THEN to.x = [st.x EXCEPT ![c.d] = ResultX(c)]
     ELSE to.x = st.x
  /\ IF c.op \in Stores
     THEN to.m = Stored(c)
     ELSE SameBut(st.m, to.m, {BelowStack})
  /\ to.out = Exit(c)

(* The most that any other call does.  A shift by JIT_R0 writes to its     *)
(* source; writes to JIT_R0, which some operations emit, are to rdi.       *)
Touched(c) ==
  {RE} \cup CASE c.op \notin ToReg               -> {}
              [] c.op \in ToReg /\ c.d = R0      -> {A1}
              [] c.op \in {"SHIFTL", "SHIFTR"} /\ c.d # R0 -> {c.d, c.s}
              [] OTHER                            -> {c.d}

Footprint(c, to) ==
  /\ SameBut(st.r, to.r, Touched(c))
  /\ SameBut(st.x, to.x, IF c.op \in ToXmm THEN {c.d} ELSE {})
  /\ c.op \in Stores \/ SameBut(st.m, to.m, {BelowStack})
  /\ to.out[1] # "lost"

(* A shift into the stack pointer restores rcx from somewhere else, and a  *)
(* division into it rdx.                                                   *)
LosesStack(c) == c.op \in {"SHIFTL", "SHIFTR", "DIV"} /\ c.d = SP

-----------------------------------------------------------------------------
Extend ==
  /\ ~ running
  /\ \E c \in Calls : prog' = Append(prog, c)
  /\ UNCHANGED <<running, done, st>>

Begin ==
  /\ running' = TRUE
  /\ UNCHANGED <<prog, done, st>>

(* A LOADF may have damaged the code of its block while it was emitted.    *)
Damaged == \E k \in DOMAIN prog : prog[k].op = "LOADF"

(* From an access whose base register cannot be one, the processor runs on *)
(* through bytes that are not the ones of an instruction: nothing is said  *)
(* of the state it is then in.                                             *)
Execute ==
  /\ running /\ st.out = Fall /\ done < Len(prog)
  /\ done' = done + 1
  /\ LET c == prog[done + 1]
     IN \/ Sound(c) /\ Meaning(c, st')
        \/ ~ Sound(c) /\ (LosesStack(c) \/ Footprint(c, st'))
        \/ ~ Sound(c) /\ c.op = "DIV" /\ st'.out[1] = "fault"
        \/ ~ Sound(c) /\ c.op \in Loads \cup Stores /\ st'.out[1] = "lost"
        \/ Damaged /\ st'.out[1] = "lost"
  /\ UNCHANGED <<prog, running>>

AsmInit ==
  /\ prog = <<>> /\ running = FALSE /\ done = 0
  /\ st.out = Fall

AsmSpec == AsmInit /\ [][Extend \/ Begin \/ Execute]_asmVars
=============================================================================
