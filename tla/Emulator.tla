------------------------------ MODULE Emulator ------------------------------
(***************************************************************************)
(* What core.c promises its client: an emulator is absent, whole, or       *)
(* without guest memory since a reset.  It has no heap, no pointers, no    *)
(* layout and no width: a range of memory is one that ends by `size`.      *)
(*                                                                         *)
(* A call with several faults may report any of them, and a call that      *)
(* reports one leaves the emulator as it was, the copied image of          *)
(* load_program excepted.                                                  *)
(***************************************************************************)
EXTENDS Integers, Sequences

CONSTANTS Address, Config, Buffer, Image, MaxSteps

VARIABLES
  phase,   (* "none", "attached", or "detached" from its memory.           *)
  size,    (* Bytes of guest memory.                                       *)
  memory,  (* The bytes.                                                   *)
  pc,
  reply    (* What the last call told the client.                          *)

machine == <<phase, size, memory, pc>>

emulatorVars == <<machine, reply>>

Zeros(n) == [a \in 0 .. n - 1 |-> 0]

Reply(op, status) ==
  [op |-> op, status |-> status, reason |-> "NONE", pc |-> 0, word |-> 0,
   steps |-> 0]

(* A call that executes tells the pc as well, and counts nothing.          *)
Report(op, status, reason, word) ==
  [op |-> op, status |-> status, reason |-> reason, pc |-> pc, word |-> word,
   steps |-> 0]

-----------------------------------------------------------------------------
(* What can be wrong with an argument.                                     *)

ConfigFaults(c) ==
  {f \in {"INVALID_ARGUMENT", "UNALIGNED_PC", "ADDRESS_OUT_OF_RANGE"} :
     \/ f = "INVALID_ARGUMENT" /\ c.memory_size = 0
     \/ f = "INVALID_ARGUMENT" /\ c.endian \notin {"LITTLE", "BIG"}
     \/ f = "UNALIGNED_PC" /\ c.reset_pc % 4 # 0
     \/ f = "ADDRESS_OUT_OF_RANGE" /\ c.reset_pc > c.memory_size}

StoreFaults(a, data) ==
  {f \in {"INVALID_ARGUMENT", "ADDRESS_OUT_OF_RANGE"} :
     \/ f = "INVALID_ARGUMENT" /\ data.isNull /\ Len(data.bytes) > 0
     \/ f = "ADDRESS_OUT_OF_RANGE" /\ a + Len(data.bytes) > size}

Stored(a, data) ==
  [x \in DOMAIN memory |-> IF a <= x /\ x < a + Len(data.bytes)
                           THEN data.bytes[x - a + 1] ELSE memory[x]]

-----------------------------------------------------------------------------
Create(c) ==
  /\ phase = "none"
  /\ ConfigFaults(c) = {}
  /\ phase' = "attached"
  /\ size' = c.memory_size
  /\ memory' = Zeros(c.memory_size)
  /\ pc' = c.reset_pc
  /\ reply' = Reply("create", "OK")

CreateFails(c) ==
  /\ phase = "none"
  /\ \E f \in IF ConfigFaults(c) = {} THEN {"OUT_OF_MEMORY"} ELSE ConfigFaults(c) :
       reply' = Reply("create", f)
  /\ UNCHANGED machine

(* Both take the memory away; only the second leaves an emulator.          *)
Destroy ==
  /\ phase # "none"
  /\ phase' = "none" /\ size' = 0 /\ memory' = Zeros(0) /\ pc' = 0
  /\ reply' = Reply("destroy", "OK")

Reset ==
  /\ phase # "none"
  /\ phase' = "detached" /\ size' = 0 /\ memory' = Zeros(0) /\ pc' = 0
  /\ reply' = Reply("reset", "OK")

Write(a, data) ==
  /\ phase # "none"
  /\ StoreFaults(a, data) = {}
  /\ memory' = Stored(a, data)
  /\ reply' = Reply("write", "OK")
  /\ UNCHANGED <<phase, size, pc>>

(* The image is stored whether or not its entry point is taken.            *)
Load(image) ==
  /\ phase # "none"
  /\ StoreFaults(image.load_address, image.data) = {}
  /\ memory' = Stored(image.load_address, image.data)
  /\ \/ /\ ~image.set_pc_to_entry
        /\ pc' = pc
        /\ reply' = Reply("load", "OK")
     \/ /\ image.set_pc_to_entry
        /\ image.entry_point % 4 = 0
        /\ pc' = image.entry_point
        /\ reply' = Reply("load", "OK")
     \/ /\ image.set_pc_to_entry
        /\ image.entry_point % 4 # 0
        /\ pc' = pc
        /\ reply' = Reply("load", "UNALIGNED_PC")
  /\ UNCHANGED <<phase, size>>

StoreFails(op, a, data) ==
  /\ phase # "none"
  /\ \E f \in StoreFaults(a, data) : reply' = Reply(op, f)
  /\ UNCHANGED machine

SetPc(a) ==
  /\ phase # "none"
  /\ \/ /\ a % 4 = 0
        /\ pc' = a
        /\ reply' = Reply("set_pc", "OK")
     \/ /\ a % 4 # 0
        /\ pc' = pc
        /\ reply' = Reply("set_pc", "UNALIGNED_PC")
  /\ UNCHANGED <<phase, size, memory>>

-----------------------------------------------------------------------------
(* Calls that only report.                                                 *)

(* What a step comes to: the pc is aligned, so the fetch can only miss.    *)
Outcome == IF pc + 4 <= size THEN "NOT_IMPLEMENTED" ELSE "ADDRESS_OUT_OF_RANGE"

Blank == \A i \in 0 .. 3 : memory[pc + i] = 0

Step ==
  /\ phase # "none"
  /\ \/ /\ Outcome = "NOT_IMPLEMENTED"
        /\ reply' = Report("step", Outcome, "STOP_NOT_IMPLEMENTED",
                           IF Blank THEN 0 ELSE 1)
     \/ /\ Outcome = "ADDRESS_OUT_OF_RANGE"
        /\ reply' = Report("step", Outcome, "ERROR", 0)
  /\ UNCHANGED machine

(* A run of any length ends where it began.                                *)
Run(n) ==
  /\ phase # "none"
  /\ \/ /\ n = 0
        /\ reply' = Report("run", "STEP_LIMIT_REACHED", "STEP_LIMIT", 0)
     \/ /\ n > 0
        /\ Outcome = "NOT_IMPLEMENTED"
        /\ reply' = Report("run", Outcome, "REASON_NOT_IMPLEMENTED", 0)
     \/ /\ n > 0
        /\ Outcome = "ADDRESS_OUT_OF_RANGE"
        /\ reply' = Report("run", Outcome, "ERROR", 0)
  /\ UNCHANGED machine

Ask ==
  /\ phase # "none"
  /\ \/ reply' = [Reply("get_pc", "OK") EXCEPT !.pc = pc]
     \/ \E op \in {"get_gpr", "set_gpr", "dump"} : reply' = Reply(op, "OK")
     \/ reply' = Reply("read", "NOT_IMPLEMENTED")
  /\ UNCHANGED machine

RefuseNull ==
  /\ reply' = Reply("null", "INVALID_ARGUMENT")
  /\ UNCHANGED machine

-----------------------------------------------------------------------------
EmulatorInit ==
  /\ phase = "none" /\ size = 0 /\ memory = Zeros(0) /\ pc = 0
  /\ reply = Reply("none", "OK")

EmulatorNext ==
  \/ \E c \in Config : Create(c) \/ CreateFails(c)
  \/ Destroy \/ Reset
  \/ \E a \in Address, b \in Buffer : Write(a, b) \/ StoreFails("write", a, b)
  \/ \E i \in Image : Load(i) \/ StoreFails("load", i.load_address, i.data)
  \/ \E a \in Address : SetPc(a)
  \/ Step \/ Ask \/ RefuseNull
  \/ \E n \in MaxSteps : Run(n)

EmulatorSpec == EmulatorInit /\ [][EmulatorNext]_emulatorVars
=============================================================================
