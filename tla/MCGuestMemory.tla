---------------------------- MODULE MCGuestMemory ----------------------------
(* Instances of GuestMemory for TLC: two doublewords of memory, and an     *)
(* address space that ends soon after them.                                *)
EXTENDS GuestMemory, FiniteSets

(* Of each width, zero and the values with the lowest or the next to the   *)
(* highest byte set.                                                       *)
MCValue ==
  UNION {{[i \in 0 .. w - 1 |-> IF i = k THEN 1 ELSE 0] : k \in {0, w - 2, w}}
         : w \in Widths}

(* Explore on from memories with at most MaxSet bytes set.                 *)
MaxSet == 2
FewSet == Cardinality({a \in DOMAIN memory : memory[a] # 0}) <= MaxSet
=============================================================================
