----------------------------- MODULE DwordStore -----------------------------
(***************************************************************************)
(* What memory.c promises: guest memory as an array of 64-bit values.  An  *)
(* access of 8, 16, 32 or 64 bits reads or writes a field of one of them,  *)
(* whole, and the byte order only says where in the value the field is.    *)
(*                                                                         *)
(* A value is a function from the significance of a byte, 0 for the least  *)
(* significant, to the byte.                                               *)
(***************************************************************************)
EXTENDS Integers

CONSTANTS
  Size,        (* Bytes of memory, a multiple of 8.                        *)
  Byte,        (* The values of a byte.                                    *)
  Address,     (* The addresses that are used.                             *)
  Value        (* The values that are stored, of each width.               *)

VARIABLES dwords, order, res

storeVars == <<dwords, order, res>>

Orders == {"LITTLE", "BIG"}
Widths == {1, 2, 4, 8}

(* The values of w bytes among those that are stored.                      *)
Values(w) == {v \in Value : DOMAIN v = 0 .. w - 1}

Blank == [d \in 0 .. Size \div 8 - 1 |-> [k \in 0 .. 7 |-> 0]]

Reply(op, status) == [op |-> op, status |-> status]

(* Where the least significant byte of a field lies in its 64-bit value.   *)
Low(a, w) == IF order = "LITTLE" THEN a % 8 ELSE 8 - w - (a % 8)

Refusal(a, w) ==
  IF a + w > Size THEN "OUT_OF_BOUNDS"
  ELSE IF a % w # 0 THEN "MISALIGNED"
  ELSE "OK"

-----------------------------------------------------------------------------
(* Everything becomes zero, in the given byte order.                       *)
Clear(op, e) ==
  /\ dwords' = Blank
  /\ order' = e
  /\ res' = Reply(op, "OK")

Load(a, w) ==
  /\ Refusal(a, w) = "OK"
  /\ res' = [op |-> "read", status |-> "OK",
             value |-> [i \in 0 .. w - 1 |-> dwords[a \div 8][Low(a, w) + i]]]
  /\ UNCHANGED <<dwords, order>>

Store(a, w, v) ==
  /\ Refusal(a, w) = "OK"
  /\ dwords' = [dwords EXCEPT ![a \div 8] =
                  [k \in 0 .. 7 |-> IF k \in Low(a, w) .. Low(a, w) + w - 1
                                    THEN v[k - Low(a, w)] ELSE @[k]]]
  /\ res' = Reply("write", "OK")
  /\ UNCHANGED order

Refuse(op, a, w) ==
  /\ Refusal(a, w) # "OK"
  /\ res' = Reply(op, Refusal(a, w))
  /\ UNCHANGED <<dwords, order>>

RefuseNull ==
  /\ res' = Reply("null", "NULL_POINTER")
  /\ UNCHANGED <<dwords, order>>

StoreInit ==
  /\ dwords = Blank
  /\ order \in Orders
  /\ res = Reply("init", "OK")

StoreNext ==
  \/ \E e \in Orders : Clear("init", e)
  \/ Clear("reset", "LITTLE")
  \/ \E a \in Address, w \in Widths :
       \/ Load(a, w) \/ Refuse("read", a, w) \/ Refuse("write", a, w)
       \/ \E v \in Values(w) : Store(a, w, v)
  \/ RefuseNull

StoreSpec == StoreInit /\ [][StoreNext]_storeVars
=============================================================================
