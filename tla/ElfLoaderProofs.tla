-------------------------- MODULE ElfLoaderProofs --------------------------
(***************************************************************************)
(* Proofs about ElfLoader, for every set of images, sizes and characters   *)
(* and for names of any length.  The hash needs two facts of arithmetic:   *)
(* the exclusive or of two digits is a digit, and for a fixed second digit *)
(* it is injective in the first.                                           *)
(***************************************************************************)
EXTENDS ElfLoader, TLAPS

(* The 28 bits of a hash: the digit that folding changes, the one before,  *)
(* and the rest.                                                           *)
Digit(x) == (x \div 16) % 16
Last(x)  == x % 16
Rest(x)  == x \div 256

-----------------------------------------------------------------------------
(* The exclusive or.                                                       *)

(* A bit changes a bit, and two bits that differ it changes differently.   *)
LEMMA BitXorFacts ==
  ASSUME NEW x \in {0, 1}, NEW y \in {0, 1}, NEW t \in {0, 1}
  PROVE  /\ BitXor(x, t) \in {0, 1}
         /\ BitXor(x, t) = BitXor(y, t) => x = y
BY DEF BitXor

(* A digit is its four bits.                                               *)
LEMMA DigitBits ==
  ASSUME NEW x \in 0 .. 15
  PROVE  /\ x % 2 \in {0, 1} /\ (x \div 2) % 2 \in {0, 1}
         /\ (x \div 4) % 2 \in {0, 1} /\ x \div 8 \in {0, 1}
         /\ x = (x % 2) + 2 * ((x \div 2) % 2) + 4 * ((x \div 4) % 2) + 8 * (x \div 8)
OBVIOUS

(* The sum of four weighted bits is a digit that determines them.          *)
LEMMA WeightedBits ==
  ASSUME NEW a0 \in {0, 1}, NEW a1 \in {0, 1}, NEW a2 \in {0, 1}, NEW a3 \in {0, 1},
         NEW b0 \in {0, 1}, NEW b1 \in {0, 1}, NEW b2 \in {0, 1}, NEW b3 \in {0, 1}
  PROVE  /\ a0 + 2 * a1 + 4 * a2 + 8 * a3 \in 0 .. 15
         /\ a0 + 2 * a1 + 4 * a2 + 8 * a3 = b0 + 2 * b1 + 4 * b2 + 8 * b3
            => a0 = b0 /\ a1 = b1 /\ a2 = b2 /\ a3 = b3
OBVIOUS

(* The exclusive or of digits is a digit.                                  *)
LEMMA DigitXorType ==
  ASSUME NEW x \in 0 .. 15, NEW t \in 0 .. 15
  PROVE  DigitXor(x, t) \in 0 .. 15
<1>1. /\ BitXor(x % 2, t % 2) \in {0, 1}
      /\ BitXor((x \div 2) % 2, (t \div 2) % 2) \in {0, 1}
      /\ BitXor((x \div 4) % 2, (t \div 4) % 2) \in {0, 1}
      /\ BitXor(x \div 8, t \div 8) \in {0, 1}
  BY BitXorFacts, DigitBits
<1> QED
  BY <1>1, WeightedBits DEF DigitXor

(* Folding the same digit into two digits keeps them apart.                *)
LEMMA DigitXorInjective ==
  ASSUME NEW x \in 0 .. 15, NEW y \in 0 .. 15, NEW t \in 0 .. 15,
         DigitXor(x, t) = DigitXor(y, t)
  PROVE  x = y
<1>1. /\ BitXor(x % 2, t % 2) \in {0, 1}
      /\ BitXor((x \div 2) % 2, (t \div 2) % 2) \in {0, 1}
      /\ BitXor((x \div 4) % 2, (t \div 4) % 2) \in {0, 1}
      /\ BitXor(x \div 8, t \div 8) \in {0, 1}
  BY BitXorFacts, DigitBits
<1>2. /\ BitXor(y % 2, t % 2) \in {0, 1}
      /\ BitXor((y \div 2) % 2, (t \div 2) % 2) \in {0, 1}
      /\ BitXor((y \div 4) % 2, (t \div 4) % 2) \in {0, 1}
      /\ BitXor(y \div 8, t \div 8) \in {0, 1}
  BY BitXorFacts, DigitBits
<1>3. /\ BitXor(x % 2, t % 2) = BitXor(y % 2, t % 2)
      /\ BitXor((x \div 2) % 2, (t \div 2) % 2) = BitXor((y \div 2) % 2, (t \div 2) % 2)
      /\ BitXor((x \div 4) % 2, (t \div 4) % 2) = BitXor((y \div 4) % 2, (t \div 4) % 2)
      /\ BitXor(x \div 8, t \div 8) = BitXor(y \div 8, t \div 8)
  BY <1>1, <1>2, WeightedBits DEF DigitXor
<1>4. /\ x % 2 = y % 2 /\ (x \div 2) % 2 = (y \div 2) % 2
      /\ (x \div 4) % 2 = (y \div 4) % 2 /\ x \div 8 = y \div 8
  BY <1>3, BitXorFacts, DigitBits
<1> QED
  BY <1>4, DigitBits

-----------------------------------------------------------------------------
(* One step of the hash.                                                   *)

(* The number of that digit d, with r before and q behind it.              *)
Number(q, d, r) == 256 * q + 16 * d + r

(* It has those parts, ...                                                 *)
LEMMA NumberParts ==
  ASSUME NEW q \in Nat, NEW d \in 0 .. 15, NEW r \in 0 .. 15
  PROVE  /\ Number(q, d, r) \in Nat
         /\ Rest(Number(q, d, r)) = q
         /\ Digit(Number(q, d, r)) = d
         /\ Last(Number(q, d, r)) = r
<1>1. /\ Number(q, d, r) \div 16 = 16 * q + d
      /\ Last(Number(q, d, r)) = r /\ Rest(Number(q, d, r)) = q
      /\ Number(q, d, r) \in Nat
  BY DEF Number, Last, Rest
<1>2. (16 * q + d) % 16 = d
  OBVIOUS
<1> QED
  BY <1>1, <1>2 DEF Digit

(* ... and every number is the one of its parts.                           *)
LEMMA PartsOfNumber ==
  ASSUME NEW x \in Nat
  PROVE  /\ Rest(x) \in Nat /\ Digit(x) \in 0 .. 15 /\ Last(x) \in 0 .. 15
         /\ x = Number(Rest(x), Digit(x), Last(x))
<1>1. /\ x \div 16 \in Nat /\ Last(x) \in 0 .. 15
      /\ x = 16 * (x \div 16) + Last(x)
  BY DEF Last
<1>2. /\ (x \div 16) \div 16 \in Nat /\ Digit(x) \in 0 .. 15
      /\ x \div 16 = 16 * ((x \div 16) \div 16) + Digit(x)
  BY <1>1 DEF Digit
<1>3. (x \div 16) \div 16 = Rest(x)
  BY DEF Rest
<1> QED
  BY <1>1, <1>2, <1>3 DEF Number

(* The numbers of 28 bits are closed under a change of that digit.         *)
LEMMA ChangedDigit ==
  ASSUME NEW q \in Nat, NEW d \in 0 .. 15, NEW r \in 0 .. 15, NEW z \in 0 .. 15,
         Number(q, d, r) < W28
  PROVE  /\ Number(q, z, r) < W28
         /\ Number(q, z, r) = Number(q, d, r) + 16 * (z - d)
<1>1. Number(q, z, r) = Number(q, d, r) + 16 * (z - d)
  BY DEF Number
<1>2. Number(q, z, r) < W28
  BY SMT DEF Number, W28
<1> QED
  BY <1>1, <1>2

(* Folding changes one digit of a number of 28 bits.                       *)
LEMMA FoldedParts ==
  ASSUME NEW low \in Nat, low < W28, NEW top \in 0 .. 15
  PROVE  /\ Folded(low, top) \in Nat /\ Folded(low, top) < W28
         /\ Folded(low, top)
            = Number(Rest(low), DigitXor(Digit(low), top), Last(low))
<1>1. /\ Rest(low) \in Nat /\ Digit(low) \in 0 .. 15 /\ Last(low) \in 0 .. 15
      /\ low = Number(Rest(low), Digit(low), Last(low))
  BY PartsOfNumber
<1>2. DigitXor(Digit(low), top) \in 0 .. 15
  BY <1>1, DigitXorType
<1>3. Folded(low, top) = low + 16 * (DigitXor(Digit(low), top) - Digit(low))
  BY DEF Folded, Digit
<1>4. PICK q \in Nat, d \in 0 .. 15, r \in 0 .. 15, z \in 0 .. 15 :
        /\ q = Rest(low) /\ d = Digit(low) /\ r = Last(low)
        /\ z = DigitXor(Digit(low), top)
  BY <1>1, <1>2
<1>5. /\ Number(q, z, r) < W28 /\ Number(q, z, r) = low + 16 * (z - d)
      /\ Number(q, z, r) \in Nat
  <2>1. low = Number(q, d, r) /\ Number(q, d, r) < W28
    BY <1>1, <1>4
  <2> QED
    BY <2>1, ChangedDigit, NumberParts
<1> QED
  BY Zenon, <1>3, <1>4, <1>5

(* Folding is injective, and keeps numbers apart that differ elsewhere,    *)
(* whatever is folded into each.                                           *)
LEMMA FoldedInjective ==
  ASSUME NEW x \in Nat, NEW y \in Nat, x < W28, y < W28,
         NEW t \in 0 .. 15, Folded(x, t) = Folded(y, t)
  PROVE  x = y
<1>1. /\ Rest(x) \in Nat /\ Digit(x) \in 0 .. 15 /\ Last(x) \in 0 .. 15
      /\ x = Number(Rest(x), Digit(x), Last(x))
      /\ Rest(y) \in Nat /\ Digit(y) \in 0 .. 15 /\ Last(y) \in 0 .. 15
      /\ y = Number(Rest(y), Digit(y), Last(y))
  BY PartsOfNumber
<1>2. DigitXor(Digit(x), t) \in 0 .. 15 /\ DigitXor(Digit(y), t) \in 0 .. 15
  BY <1>1, DigitXorType
<1>3. Number(Rest(x), DigitXor(Digit(x), t), Last(x))
      = Number(Rest(y), DigitXor(Digit(y), t), Last(y))
  BY FoldedParts
<1>4. /\ Rest(x) = Rest(y) /\ Last(x) = Last(y)
      /\ DigitXor(Digit(x), t) = DigitXor(Digit(y), t)
  <2>1. LET n == Number(Rest(x), DigitXor(Digit(x), t), Last(x))
        IN  Rest(n) = Rest(x) /\ Digit(n) = DigitXor(Digit(x), t) /\ Last(n) = Last(x)
    BY <1>1, <1>2, NumberParts
  <2>2. LET n == Number(Rest(y), DigitXor(Digit(y), t), Last(y))
        IN  Rest(n) = Rest(y) /\ Digit(n) = DigitXor(Digit(y), t) /\ Last(n) = Last(y)
    BY <1>1, <1>2, NumberParts
  <2> QED
    BY Zenon, <1>3, <2>1, <2>2
<1>5. Digit(x) = Digit(y)
  BY <1>1, <1>4, DigitXorInjective
<1> QED
  BY <1>1, <1>4, <1>5

(* The parts of a step.                                                    *)
LEMMA StepParts ==
  ASSUME NEW h \in Nat, h < W28, NEW c \in 1 .. 255
  PROVE  /\ Sum(h, c) \in Nat /\ Sum(h, c) < W28 + 256
         /\ LowPart(h, c) \in Nat /\ LowPart(h, c) < W28
         /\ TopDigit(h, c) \in 0 .. 15
         /\ LowPart(h, c) = IF Sum(h, c) < W28 THEN Sum(h, c) ELSE Sum(h, c) - W28
<1>1. Sum(h, c) \in Nat /\ Sum(h, c) < W28 + 256
  BY SMT DEF Sum, W24, W28
<1>2. TopDigit(h, c) \in 0 .. 15
  BY SMT, <1>1 DEF TopDigit, W24, W28
<1>3. LowPart(h, c) = (IF Sum(h, c) < W28 THEN Sum(h, c) ELSE Sum(h, c) - W28)
  BY SMT, <1>1 DEF LowPart, W28
<1> QED
  BY SMT, <1>1, <1>2, <1>3 DEF W28

(* A step keeps the hash in 28 bits.                                       *)
LEMMA HashCharType ==
  ASSUME NEW h \in Nat, h < W28, NEW c \in 1 .. 255
  PROVE  HashChar(h, c) \in Nat /\ HashChar(h, c) < W28
BY StepParts, FoldedParts DEF HashChar

(* Without a carry in one of them only, the top digits agree.              *)
LEMMA SameTop ==
  ASSUME NEW h \in Nat, h < W28, NEW c \in 1 .. 255, NEW e \in 1 .. 255,
         Sum(h, c) < W28 <=> Sum(h, e) < W28
  PROVE  /\ TopDigit(h, c) = TopDigit(h, e)
         /\ LowPart(h, c) = LowPart(h, e) => c = e
<1>1. /\ Sum(h, c) \in Nat /\ Sum(h, c) < W28 + 256
      /\ Sum(h, e) \in Nat /\ Sum(h, e) < W28 + 256
      /\ LowPart(h, c) = IF Sum(h, c) < W28 THEN Sum(h, c) ELSE Sum(h, c) - W28
      /\ LowPart(h, e) = IF Sum(h, e) < W28 THEN Sum(h, e) ELSE Sum(h, e) - W28
  BY StepParts
<1>2. Sum(h, c) \div W28 = Sum(h, e) \div W28
  BY SMT, <1>1 DEF W28
<1>3. LowPart(h, c) = LowPart(h, e) => Sum(h, c) = Sum(h, e)
  BY SMT, <1>1 DEF W28
<1>4. Sum(h, c) = Sum(h, e) => c = e
  BY SMT DEF Sum, W24
<1> QED
  BY <1>2, <1>3, <1>4 DEF TopDigit

(* The digits above the folded one do not change.                          *)
LEMMA HashCharHigh ==
  ASSUME NEW h \in Nat, h < W28, NEW c \in 1 .. 255
  PROVE  Rest(HashChar(h, c)) = Rest(LowPart(h, c))
<1> DEFINE low == LowPart(h, c)  top == TopDigit(h, c)
<1>1. low \in Nat /\ low < W28 /\ top \in 0 .. 15
  BY StepParts
<1> HIDE DEF low, top
<1>2. Folded(low, top) = Number(Rest(low), DigitXor(Digit(low), top), Last(low))
  BY <1>1, FoldedParts
<1>3. /\ Rest(low) \in Nat /\ Last(low) \in 0 .. 15
      /\ DigitXor(Digit(low), top) \in 0 .. 15
  BY <1>1, PartsOfNumber, DigitXorType
<1>4. Rest(Number(Rest(low), DigitXor(Digit(low), top), Last(low))) = Rest(low)
  BY <1>3, NumberParts
<1> QED
  BY <1>2, <1>4 DEF HashChar, low, top

(* With a carry in one of them only, those digits differ.                  *)
LEMMA CarryTells ==
  ASSUME NEW h \in Nat, h < W28, NEW c \in 1 .. 255, NEW e \in 1 .. 255,
         Sum(h, c) < W28, ~ (Sum(h, e) < W28)
  PROVE  HashChar(h, c) # HashChar(h, e)
<1>1. Sum(h, e) - Sum(h, c) = e - c
  BY SMT DEF Sum, W24, W28
<1>2. /\ LowPart(h, c) = Sum(h, c) /\ LowPart(h, e) = Sum(h, e) - W28
      /\ Sum(h, c) \in Nat /\ Sum(h, e) \in Nat /\ Sum(h, e) < W28 + 256
  BY StepParts
<1>3. /\ LowPart(h, e) \in Nat /\ LowPart(h, e) < 256
      /\ LowPart(h, c) \in Nat /\ LowPart(h, c) > 256
  BY SMT, <1>1, <1>2 DEF W28
<1>4. Rest(LowPart(h, e)) # Rest(LowPart(h, c))
  BY <1>3 DEF Rest
<1> QED
  BY <1>4, HashCharHigh

(* A step is injective in its character.                                   *)
LEMMA HashCharInjective ==
  ASSUME NEW h \in Nat, h < W28, NEW c \in 1 .. 255, NEW e \in 1 .. 255,
         HashChar(h, c) = HashChar(h, e)
  PROVE  c = e
<1>1. Sum(h, c) < W28 <=> Sum(h, e) < W28
  BY CarryTells
<1>2. TopDigit(h, c) = TopDigit(h, e)
  BY <1>1, SameTop
<1>3. LowPart(h, c) = LowPart(h, e)
  BY <1>2, StepParts, FoldedInjective DEF HashChar
<1> QED
  BY <1>1, <1>3, SameTop

-----------------------------------------------------------------------------
(* The invariants.                                                         *)

(* HashFits28Bits, with where the last call may have been.                 *)
IInv ==
  /\ HashFits28Bits
  /\ image \in Images \cup {NULL}

(* IInv is inductive.                                                      *)
LEMMA IInvInductive == Spec => []IInv
<1>1. Init => IInv
  BY SMT DEF Init, IInv, HashFits28Bits, W28
<1>2. IInv /\ [Next]_vars => IInv'
  <2> SUFFICES ASSUME IInv, [Next]_vars PROVE IInv'
    OBVIOUS
  <2> USE DEF IInv
  <2>1. ASSUME NEW emulator, NEW b \in Images \cup {NULL}, NEW size,
               LoadElf(emulator, b, size)
        PROVE  IInv'
    BY <2>1 DEF LoadElf, HashFits28Bits
  <2>2. ASSUME NEW c \in Char, HashNext(c) PROVE IInv'
    <3>1. c \in 1 .. 255
      BY ImageTypes
    <3>2. HashChar(hash, c) \in Nat /\ HashChar(hash, c) < W28
      BY <3>1, HashCharType DEF HashFits28Bits
    <3> QED
      BY <2>2, <3>2 DEF HashNext, HashFits28Bits
  <2>3. CASE HashEnd
    BY SMT, <2>3 DEF HashEnd, HashFits28Bits, W28
  <2>4. CASE HashNull
    BY <2>4 DEF HashNull, HashFits28Bits
  <2>5. CASE UNCHANGED vars
    BY <2>5 DEF vars, HashFits28Bits
  <2> QED
    BY <2>1, <2>2, <2>3, <2>4, <2>5 DEF Next
<1> QED
  BY <1>1, <1>2, PTL DEF Spec

(* The hash of mips64_hash_table has 28 bits, for names of any length.     *)
THEOREM HashFits == Spec => []HashFits28Bits
BY IInvInductive, PTL DEF IInv

(* No two characters hash alike behind the same prefix.                    *)
THEOREM HashTellsCharacters == Spec => []LastCharacterTells
<1>1. IInv => LastCharacterTells
  BY HashCharInjective, ImageTypes DEF IInv, HashFits28Bits, LastCharacterTells
<1> QED
  BY <1>1, IInvInductive, PTL

-----------------------------------------------------------------------------
(* A field of the place and size that Elf64_Ehdr has is read as declared.  *)
LEMMA SameField ==
  ASSUME NEW b, NEW f, NEW at \in Nat, NEW n \in Nat,
         FieldRead[f] = <<at, n>>, Ehdr[f] = <<at, n>>,
         b[5] \in {ELFDATA2LSB, ELFDATA2MSB}
  PROVE  Field(b, f) = Declared(b, f)
<1>1. \A k \in 0 .. n - 1 : at + n - 1 - k = at + (n - 1 - k)
  OBVIOUS
<1> QED
  BY <1>1 DEF Field, Declared, Read, ELFDATA2LSB, ELFDATA2MSB

(* The fields of any image of either byte order are read where Elf64_Ehdr  *)
(* declares them, and of e_phoff the half that FieldsReadAsDeclared names. *)
THEOREM FieldsAgree == Spec => []FieldsReadAsDeclared
<1>1. IInv => FieldsReadAsDeclared
  <2> SUFFICES ASSUME IdentMatches(image) PROVE FieldsReadAsDeclared!2
    BY DEF FieldsReadAsDeclared
  <2>1. image[5] \in {ELFDATA2LSB, ELFDATA2MSB}
    BY DEF IdentMatches
  <2>2. ASSUME NEW f \in DOMAIN FieldRead \ {"e_phoff"}
        PROVE  Field(image, f) = Declared(image, f)
    <3>1. f \in {"e_type", "e_machine", "e_version", "e_entry", "e_ehsize",
                 "e_phentsize", "e_phnum"}
      BY DEF FieldRead
    <3>2. /\ FieldRead[f] = Ehdr[f]
          /\ \E at, n \in Nat : FieldRead[f] = <<at, n>>
      BY <3>1 DEF FieldRead, Ehdr
    <3> QED
      BY <2>1, <3>2, SameField
  <2>3. Field(image, "e_phoff")
        = [k \in 0 .. 3 |-> Declared(image, "e_phoff")
                              [IF image[5] = ELFDATA2LSB THEN k ELSE k + 4]]
    BY <2>1 DEF Field, FieldRead, Read, Declared, Ehdr, ELFDATA2LSB, ELFDATA2MSB
  <2> QED
    BY <2>2, <2>3
<1> QED
  BY <1>1, IInvInductive, PTL
=============================================================================
