---------------------------- MODULE RiscvLemmas ----------------------------
(***************************************************************************)
(* Lemmas about the operators of RiscvDefs, for the proofs about the       *)
(* hardware and about the simulator.                                       *)
(***************************************************************************)
EXTENDS RiscvDefs, TLAPS

\* The remainder by a positive number is below it.
LEMMA ModRange == \A v \in Int, n \in Nat \ {0} : v % n \in 0 .. n - 1
OBVIOUS

\* The product of positive numbers is positive.
LEMMA ProductPositive == \A m, n \in Nat \ {0} : m * n \in Nat \ {0}
OBVIOUS

\* The number of words is a positive number.
LEMMA WordSizeType == WordSize \in Nat \ {0}
<1>1. ByteSize \in Nat \ {0}
  BY SizeAssumption
<1>2. ByteSize * ByteSize \in Nat \ {0}
  BY <1>1, ProductPositive
<1>3. ByteSize * ByteSize * ByteSize \in Nat \ {0}
  BY <1>1, <1>2, ProductPositive
<1>. QED
  BY <1>1, <1>3, ProductPositive DEF WordSize

\* What the conversions between words and addresses return.
LEMMA AddressTypes ==
    /\ \A w \in Word : Trunc(w) \in Addr /\ w \in Int
    /\ \A p \in Addr : PcPlus4(p) \in Addr /\ p \in Word /\ p \in Int
    /\ 0 \in Addr /\ 0 \in Word
<1>. USE SizeAssumption, WordSizeType, ModRange DEF Word, Addr, Trunc, PcPlus4
<1>1. \A w \in Word : Trunc(w) \in Addr /\ w \in Int
  OBVIOUS
<1>2. \A p \in Addr : PcPlus4(p) \in Addr
  OBVIOUS
<1>3. \A p \in Addr : p \in Word /\ p \in Int
  OBVIOUS
<1>. QED
  BY <1>1, <1>2, <1>3

\* A word read from the memory is a word.
LEMMA ReadLanesType ==
    ASSUME NEW m \in Memories, NEW base \in Int, NEW width
    PROVE  ReadLanes(m, base, width) \in Word
<1>. DEFINE b(k) == m[(base + k) % AddrSize]
            half == b(0) + ByteSize * b(1)
            value == CASE width = "Byte"  -> Signed(b(0), ByteSize)
                       [] width = "UByte" -> b(0)
                       [] width = "Half"  -> Signed(half, ByteSize * ByteSize)
                       [] width = "UHalf" -> half
                       [] OTHER -> half + ByteSize * ByteSize * (b(2) + ByteSize * b(3))
<1>1. \A k \in Int : b(k) \in Int
  <2>1. \A k \in Int : (base + k) % AddrSize \in Addr
    BY ModRange, SizeAssumption DEF Addr
  <2>. QED
    BY <2>1, SizeAssumption DEF Memories, Byte
<1>2. b(0) \in Int /\ b(1) \in Int /\ b(2) \in Int /\ b(3) \in Int
  BY <1>1
<1>3. ByteSize \in Int
  BY SizeAssumption
<1>. HIDE DEF b
<1>4. half \in Int
  BY <1>2, <1>3
<1>5. half + ByteSize * ByteSize * (b(2) + ByteSize * b(3)) \in Int
  BY <1>2, <1>3, <1>4
<1>. HIDE DEF half
<1>6. value \in Int
  BY <1>2, <1>3, <1>4, <1>5 DEF Signed
<1>. HIDE DEF value
<1>7. value % WordSize \in Word
  BY <1>6, WordSizeType, ModRange DEF Word
<1>. QED
  BY <1>7 DEF ReadLanes, value, half, b

\* A store leaves a memory behind.
LEMMA WriteLanesType ==
    ASSUME NEW m \in Memories, NEW base \in Int, NEW width, NEW data \in Word
    PROVE  WriteLanes(m, base, width, data) \in Memories
<1>1. \A k : ByteOf(data, k) \in Byte
  <2>1. data \in Int /\ ByteSize \in Nat \ {0}
    BY SizeAssumption, WordSizeType DEF Word
  <2>2. ByteSize * ByteSize \in Nat \ {0}
    BY <2>1, ProductPositive
  <2>3. ByteSize * ByteSize * ByteSize \in Nat \ {0}
    BY <2>1, <2>2, ProductPositive
  <2>4. /\ data \div ByteSize \in Int
        /\ data \div (ByteSize * ByteSize) \in Int
        /\ data \div (ByteSize * ByteSize * ByteSize) \in Int
    BY <2>1, <2>2, <2>3
  <2>. QED
    BY <2>1, <2>4, ModRange DEF ByteOf, Byte
<1>2. \A x \in Addr : m[x] \in Byte
  BY DEF Memories
<1>. QED
  BY <1>1, <1>2 DEF WriteLanes, Memories

\* A small word is its own sum with zero.
LEMMA AddZero == \A w \in Word : Add(0, w) = w
BY WordSizeType DEF Add, Word
=============================================================================
