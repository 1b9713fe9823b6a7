---------------------------- MODULE MCElfLoader ----------------------------
(* Instances of ElfLoader for TLC.                                         *)
EXTENDS ElfLoader

(* A header whose bytes all differ, but for those the checks look at.      *)
Header(order) ==
  [a \in 0 .. HeaderSize - 1 |->
     CASE a = 0 -> ELFMAG0 [] a = 1 -> ELFMAG1 [] a = 2 -> ELFMAG2 [] a = 3 -> ELFMAG3
       [] a = 4 -> ELFCLASS64
       [] a = 5 -> order
       [] a \in 16 .. 23 ->
            IF order = ELFDATA2LSB
            THEN CASE a = 16 -> ET_EXEC [] a = 18 -> EM_MIPS [] a = 20 -> 1 [] OTHER -> 0
            ELSE CASE a = 17 -> ET_EXEC [] a = 19 -> EM_MIPS [] a = 23 -> 1 [] OTHER -> 0
       [] OTHER -> 100 + a]

(* An executable in both byte orders, each with one of the bytes the       *)
(* checks look at changed, and an image of zeroes.                         *)
MCImages ==
  {Header(1), Header(2), [a \in 0 .. HeaderSize - 1 |-> 0]} \cup
  {[Header(order) EXCEPT ![a] = v] :
     order \in {1, 2}, a \in {0, 1, 3, 4, 5, 16, 17, 18, 19, 21, 22}, v \in {2, ELFMAG0}}
=============================================================================
