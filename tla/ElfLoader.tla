----------------------------- MODULE ElfLoader -----------------------------
(***************************************************************************)
(* elf_loader.c: the check of an ELF header, which is all that             *)
(* mips64_load_elf does so far, and the hash of symbol names.              *)
(*                                                                         *)
(* A value read from the header is a function from significance to byte.   *)
(* The hash is a number; it is computed with its top four and its low 28   *)
(* bits apart, so that no number here needs more than 31 bits.             *)
(***************************************************************************)
EXTENDS Integers

CONSTANTS
  NULL,
  Images,    (* Byte arrays passed as data, at least as long as size.      *)
  Sizes,     (* Values of size.                                            *)
  Char,      (* Characters of symbol names, 1 .. 255.                      *)
  MaxName    (* Bound of the model: length of a name.                      *)

(* sizeof(Elf64_Ehdr).                                                     *)
HeaderSize == 64

(* EI_MAG0 .. EI_DATA are 0 .. 5.                                          *)
ELFMAG0 == 127
ELFMAG1 == 69
ELFMAG2 == 76
ELFMAG3 == 70

ELFCLASS64  == 2
ELFDATA2LSB == 1
ELFDATA2MSB == 2
ET_EXEC     == 2
EM_MIPS     == 8

ASSUME ImageTypes ==
  /\ NULL \notin Images
  /\ \A b \in Images : b \in [0 .. HeaderSize - 1 -> 0 .. 255]
  /\ Sizes \subseteq Nat
  /\ Char \subseteq 1 .. 255 /\ MaxName \in Nat

(* The variables are those of the call that runs or was last: the two      *)
(* functions share no state.                                               *)
VARIABLES
  image,     (* data of mips64_load_elf, or NULL.                          *)
  status,    (* What the last call returned.                               *)
  hash,      (* hash of mips64_hash_table, between two characters.         *)
  length     (* Characters of the name that were hashed.                   *)

vars == <<image, status, hash, length>>

-----------------------------------------------------------------------------
(* mips64_load_elf.                                                        *)

(* elf_read_u16, u32 and u64 for n = 2, 4, 8.                              *)
Read(b, at, n, endian) ==
  [k \in 0 .. n - 1 |-> IF endian = ELFDATA2LSB THEN b[at + k] ELSE b[at + n - 1 - k]]

(* A number below 256, as a value of n bytes.                              *)
Small(v, n) == [k \in 0 .. n - 1 |-> IF k = 0 THEN v ELSE 0]

(* Line 14, which tests EI_MAG1 twice.                                     *)
MagicMatches(b) ==
  /\ b[0] = ELFMAG0 /\ b[1] = ELFMAG1 /\ b[2] = ELFMAG2
  /\ b[1] = ELFMAG0
  /\ b[3] = ELFMAG3

IdentMatches(b) == b[4] = ELFCLASS64 /\ b[5] \in {ELFDATA2LSB, ELFDATA2MSB}

(* Mutant: e_version is taken for a half word, and the rest moves up.      *)
FieldReadShort ==
  [e_type    |-> <<16, 2>>, e_machine |-> <<18, 2>>, e_version   |-> <<20, 2>>,
   e_entry   |-> <<22, 8>>, e_phoff   |-> <<30, 4>>, e_ehsize    |-> <<50, 2>>,
   e_phentsize |-> <<52, 2>>, e_phnum |-> <<54, 2>>]

(* Where mips64_load_elf reads each field, and how many bytes.             *)
FieldRead ==
  [e_type    |-> <<16, 2>>, e_machine |-> <<18, 2>>, e_version   |-> <<20, 4>>,
   e_entry   |-> <<24, 8>>, e_phoff   |-> <<32, 4>>, e_ehsize    |-> <<52, 2>>,
   e_phentsize |-> <<54, 2>>, e_phnum |-> <<56, 2>>]

Field(b, f) == Read(b, FieldRead[f][1], FieldRead[f][2], b[5])

FieldsMatch(b) ==
  /\ Field(b, "e_type") = Small(ET_EXEC, 2)
  /\ Field(b, "e_version") = Small(1, 4)
  /\ Field(b, "e_machine") = Small(EM_MIPS, 2)

(* Every test that fails returns the same status.                          *)
LoadStatus(emulator, b, size) ==
  IF /\ emulator # NULL /\ b # NULL /\ size >= HeaderSize
     /\ MagicMatches(b) /\ IdentMatches(b) /\ FieldsMatch(b)
  THEN "OK" ELSE "INVALID_ARGUMENT"

LoadElf(emulator, b, size) ==
  /\ length = 0
  /\ image' = b
  /\ status' = LoadStatus(emulator, b, size)
  /\ UNCHANGED <<hash, length>>

-----------------------------------------------------------------------------
(* mips64_hash_table.                                                      *)

W24 == 16777216     \* 2^24
W28 == 268435456    \* 2^28

BitXor(x, y) == (x + y) % 2

(* Exclusive or of two digits 0 .. 15.                                     *)
DigitXor(x, y) ==
    BitXor(x % 2, y % 2)
  + 2 * BitXor((x \div 2) % 2, (y \div 2) % 2)
  + 4 * BitXor((x \div 4) % 2, (y \div 4) % 2)
  + 8 * BitXor(x \div 8, y \div 8)

(* (hash << 4) + c in 32 bits: its low 28 bits, with what they carry, and  *)
(* its top four bits, g >> 28.                                             *)
Sum(h, c)  == (h % W24) * 16 + c
LowPart(h, c) == Sum(h, c) % W28
TopDigit(h, c) == (h \div W24 + Sum(h, c) \div W28) % 16

(* Mutant: |= in place of ^=.                                              *)
FoldedByOr(low, top) ==
  LET digit == (low \div 16) % 16
      Or(x, y) == x + y - (x + y - DigitXor(x, y)) \div 2
  IN low + 16 * (Or(digit, top) - digit)

(* hash ^= g >> 24 changes the second lowest digit; hash &= ~g clears the  *)
(* top one.                                                                *)
Folded(low, top) ==
  LET digit == (low \div 16) % 16
  IN low + 16 * (DigitXor(digit, top) - digit)

(* Mutant: &= ~g is left out.                                              *)
HashCharKeepsTop(h, c) ==
  IF TopDigit(h, c) # 0
  THEN W28 + Folded(LowPart(h, c), TopDigit(h, c)) ELSE LowPart(h, c)

HashChar(h, c) ==
  IF TopDigit(h, c) # 0 THEN Folded(LowPart(h, c), TopDigit(h, c)) ELSE LowPart(h, c)

HashNext(c) ==
  /\ length < MaxName
  /\ hash' = HashChar(hash, c)
  /\ length' = length + 1
  /\ image' = NULL
  /\ UNCHANGED status

(* The name ends; the hash goes out, and the next call starts at 0.        *)
HashEnd ==
  /\ hash' = 0 /\ length' = 0
  /\ image' = NULL
  /\ status' = "OK"

(* out_hash or name is NULL: the call returns before it starts.            *)
HashNull ==
  /\ length = 0
  /\ image' = NULL
  /\ status' = "INVALID_ARGUMENT"
  /\ UNCHANGED <<hash, length>>

-----------------------------------------------------------------------------
Init ==
  /\ image = NULL /\ status = "INVALID_ARGUMENT"
  /\ hash = 0 /\ length = 0

Next ==
  \/ \E emulator \in {NULL, "emulator"}, b \in Images \cup {NULL}, size \in Sizes :
       LoadElf(emulator, b, size)
  \/ \E c \in Char : HashNext(c)
  \/ HashEnd
  \/ HashNull

Spec == Init /\ [][Next]_vars

-----------------------------------------------------------------------------
(* Properties.                                                             *)

(* The hash is a symbol table index of 28 bits after every character: each *)
(* step shifts in four more bits, in arithmetic modulo 2^32, and the fold  *)
(* must take them out again, however long the name.                        *)
HashFits28Bits == hash \in Nat /\ hash < W28 /\ length \in Nat

(* The fold loses nothing of a step: names that differ in their last       *)
(* character only never collide, also where the sum carries into the top   *)
(* digit or out of the 32 bits.                                            *)
LastCharacterTells ==
  \A c, e \in Char : HashChar(hash, c) = HashChar(hash, e) => c = e

(* Elf64_Ehdr of elf_loader.h:64, laid out with natural alignment: place   *)
(* and size of the fields.                                                 *)
Ehdr ==
  [e_type  |-> <<16, 2>>, e_machine   |-> <<18, 2>>, e_version  |-> <<20, 4>>,
   e_entry |-> <<24, 8>>, e_phoff     |-> <<32, 8>>, e_shoff    |-> <<40, 8>>,
   e_flags |-> <<48, 4>>, e_ehsize    |-> <<52, 2>>, e_phentsize |-> <<54, 2>>,
   e_phnum |-> <<56, 2>>, e_shentsize |-> <<58, 2>>, e_shnum    |-> <<60, 2>>,
   e_shstrndx |-> <<62, 2>>]

(* The value of a field in the byte order that EI_DATA declares.           *)
Declared(b, f) ==
  [k \in 0 .. Ehdr[f][2] - 1 |->
     b[Ehdr[f][1] + (IF b[5] = ELFDATA2MSB THEN Ehdr[f][2] - 1 - k ELSE k)]]

(* In an image of either byte order, the code reads the fields Elf64_Ehdr  *)
(* declares, at their place and width.  The exception is e_phoff, of which *)
(* it reads 32 of 64 bits: the low half of a little-endian image and the   *)
(* high half of a big-endian one.                                          *)
FieldsReadAsDeclared ==
  image # NULL /\ IdentMatches(image)
  => /\ \A f \in DOMAIN FieldRead \ {"e_phoff"} : Field(image, f) = Declared(image, f)
     /\ Field(image, "e_phoff")
        = [k \in 0 .. 3 |-> Declared(image, "e_phoff")
                              [IF image[5] = ELFDATA2LSB THEN k ELSE k + 4]]

-----------------------------------------------------------------------------
(* What a comment of the repository says and elf_loader.c does not do.     *)

(* The header of a MIPS64 executable in either byte order.                 *)
IsExecutable(b) ==
  /\ <<b[0], b[1], b[2], b[3]>> = <<ELFMAG0, ELFMAG1, ELFMAG2, ELFMAG3>>
  /\ IdentMatches(b) /\ FieldsMatch(b)

(* elf_loader.c:55-62: behind the checks of the header, program headers    *)
(* are to be loaded and the pc to be set to e_entry, so the checks let     *)
(* executables through.                                                    *)
ExecutableIsAccepted ==
  [][\A b \in Images :
       IsExecutable(b) /\ LoadElf("emulator", b, HeaderSize) => status' = "OK"]_vars
=============================================================================
