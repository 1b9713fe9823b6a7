------------------------------ MODULE DebugDump ------------------------------
(***************************************************************************)
(* mips64_debug_dump of core.c, composed with the rest of the API.         *)
(*                                                                         *)
(* The dump hands write_fn a line with the pc, then one line per register, *)
(* and reads each register only when its line is due.  write_fn is client  *)
(* code: it may call any operation of Core on the same emulator before it  *)
(* returns, so those calls interleave with the lines.  It may not destroy  *)
(* the emulator it is called for, and it does not start a nested dump.     *)
(*                                                                         *)
(* A line always fits its 128-byte buffer (94 bytes for the header, 25 for *)
(* a register), so the INTERNAL_ERROR returns are unreachable.             *)
(***************************************************************************)
EXTENDS Core

VARIABLE
  dump     (* The dump in progress: the pc and registers it has shown, and *)
           (* (history) whether machine_reset ran since it began.          *)

dumpVars == <<vars, dump>>

NoDump == [active |-> FALSE, pc |-> 0, shown |-> <<>>, reset |-> FALSE]

DumpBegin ==
  /\ handle # NULL
  /\ ~dump.active
  /\ dump' = [NoDump EXCEPT !.active = TRUE, !.pc = Pc]
  /\ UNCHANGED vars

(* Mutant: the loop runs for index <= MIPS64_GPR_COUNT.                    *)
DumpPastEnd ==
  /\ dump.active
  /\ Len(dump.shown) <= GprCount
  /\ dump' = [dump EXCEPT !.shown = Append(@, Gpr(Len(dump.shown)))]
  /\ UNCHANGED vars

(* Mutant: registers are counted from 1.                                   *)
DumpShifted ==
  /\ dump.active
  /\ Len(dump.shown) < GprCount
  /\ dump' = [dump EXCEPT !.shown = Append(@, Gpr(Len(dump.shown) + 1))]
  /\ UNCHANGED vars

DumpRegister ==
  /\ dump.active
  /\ Len(dump.shown) < GprCount
  /\ LET i == Len(dump.shown)
     IN dump' = [dump EXCEPT !.shown = Append(@, IF i = 0 THEN 0 ELSE Gpr(i))]
  /\ UNCHANGED vars

(* Mutant: the loop ends after a line too many.                            *)
DumpEndsLate ==
  /\ dump.active
  /\ Len(dump.shown) = GprCount + 1
  /\ dump' = NoDump
  /\ res' = Result("dump", "OK")
  /\ UNCHANGED <<heap, handle, config, words, ram, lost>>

(* Mutant: the pc that was shown is put back.                              *)
DumpRestoresPc ==
  /\ dump.active
  /\ Len(dump.shown) = GprCount
  /\ dump' = NoDump
  /\ words' = [words EXCEPT ![PcWord] = dump.pc]
  /\ res' = Result("dump", "OK")
  /\ UNCHANGED <<heap, handle, config, ram, lost>>

DumpEnd ==
  /\ dump.active
  /\ Len(dump.shown) = GprCount
  /\ dump' = NoDump
  /\ res' = Result("dump", "OK")
  /\ UNCHANGED <<heap, handle, config, words, ram, lost>>

(* A call of the client, from write_fn when a dump is active.              *)
Call ==
  /\ Next
  /\ dump.active => handle' = handle
  /\ dump' = [dump EXCEPT !.reset = @ \/ (dump.active /\ res'.op = "reset")]

DumpInit == Init /\ dump = NoDump

DumpNext == Call \/ DumpBegin \/ DumpRegister \/ DumpEnd

(* write_fn returns, so a dump that has begun goes on.                     *)
DumpSpec ==
  /\ DumpInit /\ [][DumpNext]_dumpVars
  /\ WF_dumpVars(DumpRegister) /\ WF_dumpVars(DumpEnd)

-----------------------------------------------------------------------------
DumpTypeOK ==
  /\ TypeOK
  /\ dump \in [active : BOOLEAN, pc : Nat, shown : Seq(Nat), reset : BOOLEAN]
  /\ Len(dump.shown) <= GprCount

(* The register lines of a dump agree with each other and with the         *)
(* registers, unless write_fn called machine_reset in the middle of it: no *)
(* other call can tear a dump, because set_gpr stores nothing.             *)
DumpTornOnlyByReset ==
  dump.active /\ ~dump.reset =>
    \A i \in 1 .. Len(dump.shown) : dump.shown[i] = Gpr(i - 1)

(* The only register a dump can ever show as nonzero is the one            *)
(* machine_reset mistakes for the pc, 30 of 32.                            *)
DumpShowsOneRegister ==
  \A i \in 1 .. Len(dump.shown) : dump.shown[i] # 0 => i - 1 = GprCount - 2

(* A dump comes to its end, whatever write_fn does to the emulator.        *)
DumpReturns == dump.active ~> ~dump.active
=============================================================================
