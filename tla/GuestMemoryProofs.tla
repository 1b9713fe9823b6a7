-------------------------- MODULE GuestMemoryProofs --------------------------
(***************************************************************************)
(* Theorems about GuestMemory, for every size of the memory that is a      *)
(* multiple of 8, every larger address space and every set of bytes.       *)
(***************************************************************************)
EXTENDS GuestMemory, TLAPS

(* The part of the type invariant that the other proofs need.              *)
Typed == memory \in [0 .. MaxSize - 1 -> Byte] /\ endian \in Endians

(* An accepted access is inside the memory, at a multiple of its width,    *)
(* and lies in one aligned doubleword.                                     *)
LEMMA Accepted ==
  ASSUME NEW a \in Nat, NEW w \in Widths, AccessStatus(a, w) = "OK"
  PROVE  /\ a + w <= MaxSize /\ a % w = 0
         /\ a \div 8 \in 0 .. MaxSize \div 8 - 1
         /\ a % 8 \in 0 .. 8 - w
         /\ a = 8 * (a \div 8) + (a % 8)
<1>1. BoundChecking(a, w) /\ AlignmentChecking(a, w)
  BY DEF AccessStatus
<1>2. a + w <= AddrMod - 1
  BY <1>1, AddrAssumption DEF BoundChecking, Widths
<1>3. (a + w) % AddrMod = a + w
  BY <1>2, AddrAssumption DEF Widths
<1>4. a + w <= MaxSize /\ a % w = 0
  BY <1>1, <1>3 DEF BoundChecking, AlignmentChecking
<1>5. a = 8 * (a \div 8) + (a % 8) /\ a % 8 \in 0 .. 7 /\ a \div 8 \in Nat
  OBVIOUS
<1>6. a % 8 \in 0 .. 8 - w
  BY <1>4, <1>5 DEF Widths
<1>7. a \div 8 \in 0 .. MaxSize \div 8 - 1
  BY <1>4, <1>5, <1>6, SizeAssumption DEF Widths
<1>8. QED
  BY <1>4, <1>5, <1>6, <1>7

(* The code's tests, which never let a sum wrap, decide as the plain       *)
(* arithmetic of DwordStore does.                                          *)
LEMMA SameVerdict ==
  ASSUME NEW a \in 0 .. AddrMod - 1, NEW w \in Widths
  PROVE  AccessStatus(a, w) = Store!Refusal(a, w)
<1>1. a \in Nat /\ w \in Nat
  BY AddrAssumption DEF Widths
<1>2. BoundChecking(a, w) <=> a + w <= MaxSize
  <2>1. CASE a + w <= AddrMod - 1
    <3>1. (a + w) % AddrMod = a + w
      BY <1>1, <2>1, AddrAssumption
    <3>2. QED
      BY <1>1, <2>1, <3>1, AddrAssumption DEF BoundChecking, Widths
  <2>2. CASE ~(a + w <= AddrMod - 1)
    BY <1>1, <2>2, AddrAssumption, SizeAssumption DEF BoundChecking
  <2>3. QED
    BY <2>1, <2>2
<1>3. AlignmentChecking(a, w) <=> a % w = 0
  BY DEF AlignmentChecking
<1>4. AccessStatus(a, w) = IF ~(a + w <= MaxSize) THEN "OUT_OF_BOUNDS"
                           ELSE IF ~(a % w = 0) THEN "MISALIGNED" ELSE "OK"
  BY <1>2, <1>3 DEF AccessStatus
<1>5. CASE a + w <= MaxSize
  BY <1>1, <1>4, <1>5, SizeAssumption DEF Store!Refusal
<1>6. CASE ~(a + w <= MaxSize)
  BY <1>1, <1>4, <1>6, SizeAssumption DEF Store!Refusal
<1>7. QED
  BY <1>5, <1>6

(* The bytes of a doubleword are bytes of the memory.                      *)
LEMMA DwordBytes ==
  ASSUME NEW d \in 0 .. MaxSize \div 8 - 1, NEW k \in 0 .. 7
  PROVE  /\ Lane(8 * d, 8, k) = IF endian = "LITTLE" THEN 8 * d + k
                                ELSE 8 * d + (7 - k)
         /\ Lane(8 * d, 8, k) \in 0 .. MaxSize - 1
         /\ Dwords[d][k] = memory[Lane(8 * d, 8, k)]
<1>1. Lane(8 * d, 8, k) = IF endian = "LITTLE" THEN 8 * d + k ELSE 8 * d + (7 - k)
  BY SizeAssumption DEF Lane
<1>2. 8 * d + 7 <= MaxSize - 1
  BY SizeAssumption
<1>3. Lane(8 * d, 8, k) \in 0 .. MaxSize - 1
  BY <1>1, <1>2, SizeAssumption
<1>4. Dwords[d][k] = memory[Lane(8 * d, 8, k)]
  BY DEF Dwords, ValueAt
<1>5. QED
  BY <1>1, <1>3, <1>4

(* The doublewords, and those of the next state, are functions.            *)
LEMMA DwordsAreFunctions ==
  /\ Dwords  = [e \in 0 .. MaxSize \div 8 - 1 |-> [k \in 0 .. 7 |-> Dwords[e][k]]]
  /\ Dwords' = [e \in 0 .. MaxSize \div 8 - 1 |-> [k \in 0 .. 7 |-> Dwords'[e][k]]]
<1>1. ASSUME NEW e \in 0 .. MaxSize \div 8 - 1
      PROVE  /\ Dwords[e]  = [k \in 0 .. 7 |-> Dwords[e][k]]
             /\ Dwords'[e] = [k \in 0 .. 7 |-> Dwords'[e][k]]
  <2>1. Dwords[e] = [k \in 0 .. 7 |-> memory[Lane(8 * e, 8, k)]]
    BY DEF Dwords, ValueAt
  <2>2. Dwords'[e] = [k \in 0 .. 7 |-> memory'[Lane(8 * e, 8, k)']]
    BY DEF Dwords, ValueAt
  <2>3. QED
    BY <2>1, <2>2
<1>2. Dwords = [e \in 0 .. MaxSize \div 8 - 1 |-> Dwords[e]]
  BY DEF Dwords
<1>3. Dwords' = [e \in 0 .. MaxSize \div 8 - 1 |-> Dwords'[e]]
  BY DEF Dwords
<1>4. QED
  BY <1>1, <1>2, <1>3

(* Where an accepted access lies in its doubleword.                        *)
LEMMA FieldPlace ==
  ASSUME NEW a \in Nat, NEW w \in Widths, AccessStatus(a, w) = "OK",
         endian \in Endians
  PROVE  /\ Store!Low(a, w) \in 0 .. 8 - w
         /\ \A i \in 0 .. w - 1 :
              Lane(8 * (a \div 8), 8, Store!Low(a, w) + i) = Lane(a, w, i)
<1> DEFINE d == a \div 8
           o == a % 8
<1>1. /\ o \in 0 .. 8 - w /\ a = 8 * d + o /\ d \in Nat /\ o \in Nat
      /\ d \in 0 .. MaxSize \div 8 - 1
  BY Accepted, SizeAssumption
<1> HIDE DEF d, o
<1>2. Store!Low(a, w) = IF endian = "LITTLE" THEN o ELSE 8 - w - o
  BY DEF Store!Low, o
<1>3. Store!Low(a, w) \in 0 .. 8 - w
  BY <1>1, <1>2 DEF Widths
<1>4. ASSUME NEW i \in 0 .. w - 1
      PROVE  Lane(8 * d, 8, Store!Low(a, w) + i) = Lane(a, w, i)
  BY <1>1, <1>2, <1>3 DEF Lane, Widths
<1>5. QED
  BY <1>3, <1>4 DEF d

(* A read returns the field of the doubleword.                             *)
LEMMA ReadIsLoad ==
  ASSUME NEW a \in Nat, NEW w \in Widths, AccessStatus(a, w) = "OK",
         endian \in Endians
  PROVE  ValueAt(a, w) =
           [i \in 0 .. w - 1 |-> Dwords[a \div 8][Store!Low(a, w) + i]]
<1>1. a \div 8 \in 0 .. MaxSize \div 8 - 1
  BY Accepted
<1>2. ASSUME NEW i \in 0 .. w - 1
      PROVE  memory[Lane(a, w, i)] = Dwords[a \div 8][Store!Low(a, w) + i]
  <2>1. Store!Low(a, w) + i \in 0 .. 7
    BY FieldPlace DEF Widths
  <2>2. QED
    BY <1>1, <2>1, FieldPlace, DwordBytes
<1>3. QED
  BY <1>2 DEF ValueAt

(* A write stores the field of the doubleword, and nothing else.           *)
LEMMA WriteIsStore ==
  ASSUME Typed, NEW a \in Nat, NEW w \in Widths, NEW v, Write(a, w, v)
  PROVE  Dwords' =
           [Dwords EXCEPT ![a \div 8] =
              [k \in 0 .. 7 |->
                 IF k \in Store!Low(a, w) .. Store!Low(a, w) + w - 1
                 THEN v[k - Store!Low(a, w)] ELSE @[k]]]
<1> DEFINE d == a \div 8
           o == a % 8
           low == Store!Low(a, w)
           field(k) == IF k \in low .. low + w - 1 THEN v[k - low] ELSE Dwords[d][k]
<1>1. AccessStatus(a, w) = "OK" /\ endian' = endian /\ endian \in Endians
  BY DEF Write, Typed
<1>2. /\ o \in 0 .. 8 - w /\ a = 8 * d + o /\ d \in Nat /\ o \in Nat
      /\ d \in 0 .. MaxSize \div 8 - 1 /\ a + w <= MaxSize
  BY <1>1, Accepted, SizeAssumption
<1>3. low = IF endian = "LITTLE" THEN o ELSE 8 - w - o
  BY DEF Store!Low
<1> HIDE DEF d, o, low
<1>4. ASSUME NEW e \in 0 .. MaxSize \div 8 - 1, NEW k \in 0 .. 7
      PROVE  Dwords'[e][k] = IF e = d THEN field(k) ELSE Dwords[e][k]
  <2> DEFINE b == Lane(8 * e, 8, k)
  <2>1. /\ b = IF endian = "LITTLE" THEN 8 * e + k ELSE 8 * e + (7 - k)
        /\ b \in 0 .. MaxSize - 1 /\ Dwords[e][k] = memory[b]
    BY DwordBytes
  <2>2. Dwords'[e][k] = memory'[b]
    BY <1>1 DEF Dwords, ValueAt, Lane
  <2> HIDE DEF b
  <2>3. memory'[b] = IF b \in a .. a + w - 1 THEN v[Significance(a, w, b)]
                     ELSE memory[b]
    BY <2>1 DEF Write, Typed
  <2>4. CASE e # d
    <3>1. b \in Int /\ 8 * e <= b /\ b <= 8 * e + 7
      BY <2>1, SizeAssumption
    <3>2. 8 * d <= a /\ a + w <= 8 * d + 8 /\ w \in Nat
      BY <1>2 DEF Widths
    <3>3. e \in Nat /\ (e + 1 <= d \/ d + 1 <= e)
      BY <1>2, <2>4, SizeAssumption
    <3>4. b \notin a .. a + w - 1
      BY <1>2, <3>1, <3>2, <3>3
    <3>5. QED
      BY <2>1, <2>2, <2>3, <2>4, <3>4
  <2>5. CASE e = d
    <3>1. b \in a .. a + w - 1 <=> k \in low .. low + w - 1
      BY <1>1, <1>2, <1>3, <2>1, <2>5 DEF Widths, Endians
    <3>2. Significance(a, w, b) = k - low
      BY <1>1, <1>2, <1>3, <2>1, <2>5 DEF Significance, Widths, Endians
    <3>3. QED
      BY <2>1, <2>2, <2>3, <2>5, <3>1, <3>2
  <2>6. QED
    BY <2>4, <2>5
<1>5. Dwords' = [e \in 0 .. MaxSize \div 8 - 1 |->
                   [k \in 0 .. 7 |-> IF e = d THEN field(k) ELSE Dwords[e][k]]]
  <2>1. Dwords' = [e \in 0 .. MaxSize \div 8 - 1 |-> [k \in 0 .. 7 |-> Dwords'[e][k]]]
    BY DwordsAreFunctions
  <2> HIDE DEF field
  <2>2. QED
    BY <1>4, <2>1
<1>6. Dwords = [e \in 0 .. MaxSize \div 8 - 1 |-> [k \in 0 .. 7 |-> Dwords[e][k]]]
  BY DwordsAreFunctions
<1>7. Dwords' = [Dwords EXCEPT ![d] = [k \in 0 .. 7 |-> field(k)]]
  BY <1>2, <1>5, <1>6
<1>8. QED
  BY <1>7 DEF d, low

(* Cleared memory is blank doublewords, in either byte order.              *)
LEMMA ZeroedIsBlank ==
  /\ memory = Zeroed => Dwords = Store!Blank
  /\ memory' = Zeroed => Dwords' = Store!Blank
<1>1. \A d \in 0 .. MaxSize \div 8 - 1, k \in 0 .. 7 :
        /\ memory = Zeroed => Dwords[d][k] = 0
        /\ memory' = Zeroed => Dwords'[d][k] = 0
  <2> TAKE d \in 0 .. MaxSize \div 8 - 1, k \in 0 .. 7
  <2>1. Dwords[d][k] = memory[Lane(8 * d, 8, k)] /\ Lane(8 * d, 8, k) \in 0 .. MaxSize - 1
    BY DwordBytes
  <2>2. Dwords'[d][k] = memory'[Lane(8 * d, 8, k)']
    BY DEF Dwords, ValueAt
  <2>3. Lane(8 * d, 8, k)' \in 0 .. MaxSize - 1
    BY SizeAssumption DEF Lane
  <2>4. QED
    BY <2>1, <2>2, <2>3 DEF Zeroed
<1>2. Store!Blank = [d \in 0 .. MaxSize \div 8 - 1 |-> [k \in 0 .. 7 |-> 0]]
  BY DEF Store!Blank
<1>3. QED
  BY <1>1, <1>2, DwordsAreFunctions

-----------------------------------------------------------------------------
(* Types.                                                                  *)

Ops      == {"init", "reset", "read", "write", "null"}
Statuses == {"OK", "NULL_POINTER", "OUT_OF_BOUNDS", "MISALIGNED"}

(* What the client passes is typed.                                        *)
LEMMA TypedInputs ==
  /\ \A a \in Address : a \in 0 .. AddrMod - 1 /\ a \in Nat
  /\ \A w \in Widths : \A v \in Values(w) : v \in [0 .. w - 1 -> Byte]
<1>1. \A a \in Address : a \in 0 .. AddrMod - 1 /\ a \in Nat
  BY AddrAssumption
<1>2. ASSUME NEW w \in Widths, NEW v \in Values(w) PROVE v \in [0 .. w - 1 -> Byte]
  <2>1. PICK u \in Widths : v \in [0 .. u - 1 -> Byte]
    BY ValueAssumption DEF Values
  <2>2. 0 .. u - 1 = 0 .. w - 1
    BY <2>1 DEF Values
  <2>3. QED
    BY <2>1, <2>2
<1>3. QED
  BY <1>1, <1>2

(* An accepted access reads bytes.                                         *)
LEMMA ReadsBytes ==
  ASSUME Typed, NEW a \in Nat, NEW w \in Widths, AccessStatus(a, w) = "OK"
  PROVE  ValueAt(a, w) \in [0 .. w - 1 -> Byte]
<1>1. a + w <= MaxSize
  BY Accepted
<1>2. \A i \in 0 .. w - 1 : Lane(a, w, i) \in 0 .. MaxSize - 1
  BY <1>1, SizeAssumption DEF Lane, Widths
<1>3. QED
  BY <1>2 DEF ValueAt, Typed

(* An accepted write stores bytes.                                         *)
LEMMA WritesBytes ==
  ASSUME Typed, NEW a \in Nat, NEW w \in Widths, NEW v \in [0 .. w - 1 -> Byte],
         Write(a, w, v)
  PROVE  memory' \in [0 .. MaxSize - 1 -> Byte]
<1>1. ASSUME NEW b \in 0 .. MaxSize - 1, b \in a .. a + w - 1
      PROVE  Significance(a, w, b) \in 0 .. w - 1
  BY <1>1 DEF Significance, Widths
<1>2. QED
  BY <1>1 DEF Write, Typed

(* Every call keeps the memory, the byte order and the reply typed.        *)
LEMMA TypeStep == TypeOK /\ [Next]_vars => TypeOK'
<1> SUFFICES ASSUME TypeOK, [Next]_vars PROVE TypeOK'
  OBVIOUS
<1>1. Typed
  BY DEF TypeOK, Typed
<1>2. Zeroed \in [0 .. MaxSize - 1 -> Byte]
  BY ValueAssumption DEF Zeroed
<1>3. ASSUME NEW e \in Endians, MemoryInit(e) PROVE TypeOK'
  BY <1>2, <1>3 DEF MemoryInit, Reply, TypeOK
<1>4. CASE MemoryReset
  BY <1>2, <1>4 DEF MemoryReset, Reply, TypeOK, Endians
<1>5. ASSUME NEW a \in Address, NEW w \in Widths, Read(a, w) PROVE TypeOK'
  <2>1. ValueAt(a, w) \in [0 .. w - 1 -> Byte]
    BY <1>1, <1>5, TypedInputs, ReadsBytes DEF Read
  <2>2. res' \in [op : {"read"}, status : {"OK"}, value : [0 .. w - 1 -> Byte]]
    BY <1>5, <2>1 DEF Read
  <2>3. QED
    BY <1>5, <2>2 DEF Read, TypeOK
<1>6. ASSUME NEW a \in Address, NEW w \in Widths,
             Fail("read", a, w) \/ Fail("write", a, w)
      PROVE  TypeOK'
  <2>1. AccessStatus(a, w) \in {"OUT_OF_BOUNDS", "MISALIGNED", "OK"}
    BY DEF AccessStatus
  <2>2. QED
    BY <1>6, <2>1 DEF Fail, Reply, TypeOK
<1>7. ASSUME NEW a \in Address, NEW w \in Widths, NEW v \in Values(w), Write(a, w, v)
      PROVE  TypeOK'
  <2>1. memory' \in [0 .. MaxSize - 1 -> Byte]
    BY <1>1, <1>7, TypedInputs, WritesBytes
  <2>2. QED
    BY <1>7, <2>1 DEF Write, Reply, TypeOK
<1>8. CASE NullPointer
  BY <1>8 DEF NullPointer, Reply, TypeOK
<1>9. CASE UNCHANGED vars
  BY <1>9 DEF vars, TypeOK
<1>10. QED
  BY <1>3, <1>4, <1>5, <1>6, <1>7, <1>8, <1>9 DEF Next

(* The memory holds bytes, the byte order is one of the two, and what a    *)
(* read returns is bytes, whatever the client calls.                       *)
THEOREM TypeCorrect == Spec => []TypeOK
<1>1. Init => TypeOK
  BY ValueAssumption DEF Init, TypeOK, Zeroed, Reply
<1>2. QED
  BY <1>1, TypeStep, PTL DEF Spec

-----------------------------------------------------------------------------
(* The widths agree on every byte of the memory, in either byte order.     *)
THEOREM WidthsAgree == Spec => []WideIsHalves
<1>1. TypeOK => WideIsHalves
  <2> SUFFICES ASSUME TypeOK, NEW a \in 0 .. MaxSize - 1, NEW h \in {1, 2, 4}
               PROVE  LET first  == ValueAt(a, h)
                          second == ValueAt(a + h, h)
                          low    == IF endian = "LITTLE" THEN first ELSE second
                          high   == IF endian = "LITTLE" THEN second ELSE first
                      IN ValueAt(a, 2 * h) =
                           [i \in 0 .. 2 * h - 1 |->
                              IF i < h THEN low[i] ELSE high[i - h]]
    BY DEF WideIsHalves
  <2>1. CASE endian = "LITTLE"
    <3>1. \A i \in 0 .. 2 * h - 1 :
            Lane(a, 2 * h, i) = IF i < h THEN Lane(a, h, i) ELSE Lane(a + h, h, i - h)
      BY <2>1, SizeAssumption DEF Lane
    <3>2. \A i \in 0 .. 2 * h - 1 : IF i < h THEN i \in 0 .. h - 1
                                    ELSE i - h \in 0 .. h - 1
      OBVIOUS
    <3>3. QED
      BY <2>1, <3>1, <3>2 DEF ValueAt
  <2>2. CASE endian # "LITTLE"
    <3>1. \A i \in 0 .. 2 * h - 1 :
            Lane(a, 2 * h, i) = IF i < h THEN Lane(a + h, h, i) ELSE Lane(a, h, i - h)
      BY <2>2, SizeAssumption DEF Lane
    <3>2. \A i \in 0 .. 2 * h - 1 : IF i < h THEN i \in 0 .. h - 1
                                    ELSE i - h \in 0 .. h - 1
      OBVIOUS
    <3>3. QED
      BY <2>2, <3>1, <3>2 DEF ValueAt
  <2>3. QED
    BY <2>1, <2>2
<1>2. QED
  BY <1>1, TypeCorrect, PTL

-----------------------------------------------------------------------------
(* Every step of the byte array is a step of the array of 64-bit values.   *)
LEMMA StepIsStoreStep == TypeOK /\ [Next]_vars => [Store!StoreNext]_Store!storeVars
<1> SUFFICES ASSUME TypeOK, [Next]_vars
             PROVE  Store!StoreNext \/ UNCHANGED Store!storeVars
  BY DEF Store!storeVars
<1> USE DEF Store!StoreNext
<1>1. Typed
  BY DEF TypeOK, Typed
<1>2. ASSUME NEW e \in Endians, MemoryInit(e) PROVE Store!StoreNext
  BY <1>2, ZeroedIsBlank
  DEF MemoryInit, Reply, Endians, Store!Clear, Store!Reply, Store!Orders
<1>3. CASE MemoryReset
  BY <1>3, ZeroedIsBlank DEF MemoryReset, Reply, Store!Clear, Store!Reply
<1>4. ASSUME UNCHANGED <<memory, endian>> PROVE UNCHANGED Dwords
  BY <1>4 DEF Dwords, ValueAt, Lane
<1>5. ASSUME NEW a \in Address, NEW w \in Widths, Read(a, w) PROVE Store!StoreNext
  <2>1. AccessStatus(a, w) = "OK" /\ Store!Refusal(a, w) = "OK"
    BY <1>5, TypedInputs, SameVerdict DEF Read
  <2>2. res' = [op |-> "read", status |-> "OK",
                value |-> [i \in 0 .. w - 1 |->
                             Dwords[a \div 8][Store!Low(a, w) + i]]]
    BY <1>1, <1>5, <2>1, TypedInputs, ReadIsLoad DEF Read, Typed
  <2>3. Store!Load(a, w)
    BY <1>4, <1>5, <2>1, <2>2 DEF Read, Store!Load
  <2>4. QED
    BY <2>3 DEF Widths, Store!Widths
<1>6. ASSUME NEW a \in Address, NEW w \in Widths, NEW op \in {"read", "write"},
             Fail(op, a, w)
      PROVE  Store!StoreNext
  <2>1. Store!Refusal(a, w) = AccessStatus(a, w)
    BY TypedInputs, SameVerdict
  <2>2. Store!Refuse(op, a, w)
    BY <1>4, <1>6, <2>1 DEF Fail, Reply, Store!Refuse, Store!Reply
  <2>3. QED
    BY <2>2 DEF Widths, Store!Widths
<1>7. ASSUME NEW a \in Address, NEW w \in Widths, NEW v \in Values(w), Write(a, w, v)
      PROVE  Store!StoreNext
  <2>1. Store!Refusal(a, w) = "OK"
    BY <1>7, TypedInputs, SameVerdict DEF Write
  <2>2. Store!Store(a, w, v)
    BY <1>1, <1>7, <2>1, TypedInputs, WriteIsStore
    DEF Write, Reply, Store!Store, Store!Reply
  <2>3. v \in Store!Values(w)
    BY DEF Values, Store!Values
  <2>4. QED
    BY <2>2, <2>3 DEF Widths, Store!Widths
<1>8. CASE NullPointer
  BY <1>4, <1>8 DEF NullPointer, Reply, Store!RefuseNull, Store!Reply
<1>9. CASE UNCHANGED vars
  BY <1>4, <1>9 DEF vars, Store!storeVars
<1>10. QED
  BY <1>2, <1>3, <1>5, <1>6, <1>7, <1>8, <1>9 DEF Next

(* memory.c implements an array of 64-bit values of which every access     *)
(* reads or writes a field, for both byte orders and any mix of widths.    *)
THEOREM Refinement == Spec => ImplementsStore
<1>1. Init => Store!StoreInit
  BY ZeroedIsBlank DEF Init, Endians, Reply, Store!StoreInit, Store!Orders, Store!Reply
<1>2. QED
  BY <1>1, StepIsStoreStep, TypeCorrect, PTL
  DEF Spec, ImplementsStore, Store!StoreSpec

=============================================================================
