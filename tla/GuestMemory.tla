----------------------------- MODULE GuestMemory -----------------------------
(***************************************************************************)
(* memory.c: the byte array of 64 MiB behind struct Memory, read and       *)
(* written in units of 8, 16, 32 and 64 bits in the byte order it was      *)
(* initialised with.                                                       *)
(*                                                                         *)
(* The eight read and write functions differ only in their width, which is *)
(* a parameter here.  A value is a function from the significance of a     *)
(* byte to the byte, as in DwordStore.                                     *)
(***************************************************************************)
EXTENDS Integers

CONSTANTS
  MaxSize,     (* MAX_SIZE, 64 MiB in memory.h.                            *)
  AddrMod,     (* 2^64: addresses are uint64_t.                            *)
  Byte,        (* The values of a byte.                                    *)
  Address,     (* The addresses the client passes.                         *)
  Value        (* The values the client writes, of each width.             *)

Endians == {"LITTLE", "BIG"}
Widths  == {1, 2, 4, 8}

ASSUME SizeAssumption  == MaxSize \in Nat \ {0} /\ MaxSize % 8 = 0
ASSUME AddrAssumption  == /\ AddrMod \in Nat /\ MaxSize + 8 < AddrMod
                          /\ Address \subseteq 0 .. AddrMod - 1
ASSUME ValueAssumption ==
  /\ 0 \in Byte
  /\ \A v \in Value : \E w \in Widths : v \in [0 .. w - 1 -> Byte]

VARIABLES
  memory,      (* mem->memory.                                             *)
  endian,      (* mem->endian.                                             *)
  res          (* What the last call returned.                             *)

vars == <<memory, endian, res>>

Values(w) == {v \in Value : DOMAIN v = 0 .. w - 1}

Reply(op, status) == [op |-> op, status |-> status]

-----------------------------------------------------------------------------
(* Helpers of memory.c.                                                    *)

BoundChecking(address, data_size) ==
  /\ data_size # 0
  /\ address <= AddrMod - 1 - data_size
  /\ (address + data_size) % AddrMod <= MaxSize

AlignmentChecking(address, data_size) ==
  data_size \in Widths /\ address % data_size = 0

(* Mutant: a status of core.h; C converts one enum to the other silently.   *)
AccessStatusOfCore(address, w) ==
  IF ~BoundChecking(address, w) THEN "ADDRESS_OUT_OF_RANGE"
  ELSE IF ~AlignmentChecking(address, w) THEN "MISALIGNED"
  ELSE "OK"

AccessStatus(address, w) ==
  IF ~BoundChecking(address, w) THEN "OUT_OF_BOUNDS"
  ELSE IF ~AlignmentChecking(address, w) THEN "MISALIGNED"
  ELSE "OK"

(* Mutant: the loop of read64 shifts by i bytes in either byte order.      *)
OneOrderFor64(address, w, i) ==
  IF endian = "LITTLE" \/ w = 8 THEN address + i ELSE address + (w - 1 - i)

(* The address of byte i, by significance, of the value at `address`.      *)
Lane(address, w, i) ==
  IF endian = "LITTLE" THEN address + i ELSE address + (w - 1 - i)

(* The significance of the byte at `a` in that value.                      *)
Significance(address, w, a) ==
  IF endian = "LITTLE" THEN a - address ELSE w - 1 - (a - address)

ValueAt(address, w) == [i \in 0 .. w - 1 |-> memory[Lane(address, w, i)]]

-----------------------------------------------------------------------------
Zeroed == [a \in 0 .. MaxSize - 1 |-> 0]

MemoryInit(e) ==
  /\ memory' = Zeroed
  /\ endian' = e
  /\ res' = Reply("init", "OK")

(* memset over the size of the struct: it zeroes the byte order too.       *)
MemoryReset ==
  /\ memory' = Zeroed
  /\ endian' = "LITTLE"
  /\ res' = Reply("reset", "OK")

Read(address, w) ==
  /\ AccessStatus(address, w) = "OK"
  /\ res' = [op |-> "read", status |-> "OK", value |-> ValueAt(address, w)]
  /\ UNCHANGED <<memory, endian>>

(* Mutant: only the least significant byte is stored.                      *)
WriteForgetsTop(address, w, value) ==
  /\ AccessStatus(address, w) = "OK"
  /\ memory' = [memory EXCEPT ![Lane(address, w, 0)] = value[0]]
  /\ res' = Reply("write", "OK")
  /\ UNCHANGED endian

Write(address, w, value) ==
  /\ AccessStatus(address, w) = "OK"
  /\ memory' = [a \in DOMAIN memory |->
                  IF a \in address .. address + w - 1
                  THEN value[Significance(address, w, a)] ELSE memory[a]]
  /\ res' = Reply("write", "OK")
  /\ UNCHANGED endian

Fail(op, address, w) ==
  /\ AccessStatus(address, w) # "OK"
  /\ res' = Reply(op, AccessStatus(address, w))
  /\ UNCHANGED <<memory, endian>>

NullPointer ==
  /\ res' = Reply("null", "NULL_POINTER")
  /\ UNCHANGED <<memory, endian>>

-----------------------------------------------------------------------------
(* The client initialises the memory before anything else.                 *)
Init ==
  /\ memory = Zeroed
  /\ endian \in Endians
  /\ res = Reply("init", "OK")

Next ==
  \/ \E e \in Endians : MemoryInit(e)
  \/ MemoryReset
  \/ \E a \in Address, w \in Widths :
       \/ Read(a, w) \/ Fail("read", a, w) \/ Fail("write", a, w)
       \/ \E v \in Values(w) : Write(a, w, v)
  \/ NullPointer

Spec == Init /\ [][Next]_vars

-----------------------------------------------------------------------------
(* Properties.                                                             *)

(* The array keeps its size, and whatever is read is bytes.                *)
TypeOK ==
  /\ memory \in [0 .. MaxSize - 1 -> Byte]
  /\ endian \in Endians
  /\ \/ res \in [op : {"init", "reset", "read", "write", "null"},
                 status : {"OK", "NULL_POINTER", "OUT_OF_BOUNDS", "MISALIGNED"}]
     \/ \E w \in Widths : res \in [op : {"read"}, status : {"OK"},
                                   value : [0 .. w - 1 -> Byte]]

(* The four widths agree: an aligned value is the two values of half its   *)
(* width next to each other, the low half first in little endian and the   *)
(* high half first in big endian.                                          *)
WideIsHalves ==
  \A a \in 0 .. MaxSize - 1, h \in {1, 2, 4} :
    a % (2 * h) = 0 =>
      LET first  == ValueAt(a, h)
          second == ValueAt(a + h, h)
          low    == IF endian = "LITTLE" THEN first ELSE second
          high   == IF endian = "LITTLE" THEN second ELSE first
      IN ValueAt(a, 2 * h) =
           [i \in 0 .. 2 * h - 1 |-> IF i < h THEN low[i] ELSE high[i - h]]

(* The 64-bit values of the memory, read in its byte order.                *)
Dwords == [d \in 0 .. MaxSize \div 8 - 1 |-> ValueAt(8 * d, 8)]

Store == INSTANCE DwordStore WITH
           Size <- MaxSize, dwords <- Dwords, order <- endian

(* The byte array implements the array of 64-bit values: whatever mixture  *)
(* of widths, byte orders, refused accesses and resets the client calls,   *)
(* every read returns the field of the value that was stored there.        *)
ImplementsStore == Store!StoreSpec

-----------------------------------------------------------------------------
(* memory.c:57-59: "Reset RAM but preserve configuration.  Including       *)
(* current endian mode."                                                   *)
ResetPreservesEndian == [][res'.op = "reset" => endian' = endian]_vars
=============================================================================
