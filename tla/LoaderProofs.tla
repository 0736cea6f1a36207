----------------------------- MODULE LoaderProofs -----------------------------
(***************************************************************************)
(* Theorems about the loader and the CPU that runs what it has loaded, for *)
(* every set of runnable sources, every word size, size of the memories,   *)
(* number of registers and ALU.                                            *)
(*                                                                         *)
(* While the source is read, LoaderInv is the invariant of the assembler   *)
(* and that nothing but the lines read so far has touched the data memory. *)
(* Behind normalize_labels it is Running: the CPU finds in imem what each  *)
(* line says (Laid), the pc is in the text (no further than an HCF the     *)
(* source ends in), a register a JALR jumps to holds a place a jump may    *)
(* lead to (BasesLand), and register 0 is 0 if anything reads it.          *)
(*                                                                         *)
(* ExecStep then takes the places of the text one by one: between lines    *)
(* (ExecNothing), at the second word of an li or la, which the source has  *)
(* executed already (ExecSecond), at its first word (ExecFirst), and at a  *)
(* line of one word (ExecOneWord).                                         *)
(***************************************************************************)
EXTENDS LoaderProps, AssemblerProofs

(* Words and their two parts. *)

\* Numbers that differ by a multiple of n have the same remainder.
LEMMA SameRemainder ==
    \A n \in Nat \ {0} : \A x, k \in Int : (n * k + x) % n = x % n
<1>1. SUFFICES ASSUME NEW n \in Nat \ {0}, NEW x \in Int, NEW k \in Int
               PROVE  (n * k + x) % n = x % n
  OBVIOUS
<1>2. PICK y \in Int : y = n * k
  OBVIOUS
<1>. DEFINE q == x \div n
            r == x % n
<1>3. x = n * q + r /\ q \in Int /\ r \in 0 .. n - 1
  OBVIOUS
<1>. HIDE DEF q, r
<1>4. n * k + x = n * (k + q) + r
  BY <1>3
<1>5. (n * (k + q) + r) % n = r
  BY <1>3
<1>. QED
  BY <1>4, <1>5 DEF r

\* Words are a whole number of short immediates.
LEMMA WordsOfLow == \E q \in Nat \ {0} : WordSize = LowSize * q
<1>. DEFINE q == WordSize \div LowSize
<1>1. WordSize \in Nat \ {0} /\ LowSize \in Nat \ {0} /\ WordSize % LowSize = 0
  BY WordSizeType, LowSizeType, AssemblerAssumption
<1>2. WordSize = LowSize * q + (WordSize % LowSize) /\ q \in Nat
  BY <1>1
<1>. HIDE DEF q
<1>3. q # 0 /\ WordSize = LowSize * q
  BY <1>1, <1>2
<1>. QED
  BY <1>2, <1>3

LEMMA WordKept == \A w \in Word : w \in Nat /\ w < WordSize /\ w % WordSize = w
BY WordSizeType DEF Word

\* A signed immediate is the same, whether it is extended before or behind.
LEMMA ExtendedKept ==
    ASSUME NEW n \in Int, -(LowSize \div 2) <= n, n < LowSize \div 2
    PROVE  signextend(parse_imm(n)) = n % WordSize
<1>. DEFINE h == LowSize \div 2
            w == n % WordSize
<1>1. PICK q \in Nat \ {0} : WordSize = LowSize * q
  BY WordsOfLow
<1>2. LowSize = 2 * h /\ h \in Nat \ {0} /\ WordSize \in Nat \ {0}
  BY LowSizeType, WordSizeType, AssemblerAssumption
<1>3. WordSize = h * (2 * q) /\ WordSize >= 2 * h
  BY <1>1, <1>2
<1>4. CASE n >= 0
  <2>1. w = n
    BY <1>2, <1>3, <1>4
  <2>2. w \div h = 0
    BY <1>2, <1>4, <2>1
  <2>. QED
    BY <2>2 DEF signextend, parse_imm
<1>5. CASE n < 0
  <2>1. w = WordSize + n
    <3>. HIDE DEF h
    <3>1. WordSize + n \in 0 .. WordSize - 1
      BY <1>2, <1>3, <1>5
    <3>2. (WordSize * 1 + n) % WordSize = w
      <4>1. 1 \in Int /\ n \in Int
        OBVIOUS
      <4>. QED
        BY <1>2, <4>1, SameRemainder, Zenon
    <3>3. (WordSize + n) % WordSize = WordSize + n
      BY <1>2, <3>1
    <3>. HIDE DEF w
    <3>. QED
      BY <1>2, <3>2, <3>3
  <2>2. w = h * (2 * q - 1) + (h + n) /\ h + n \in 0 .. h - 1
    <3>. HIDE DEF h, w
    <3>. QED
      BY <1>2, <1>3, <1>5, <2>1 DEF h
  <2>3. w \div h = 2 * q - 1
    <3>. HIDE DEF h, w
    <3>. QED
      BY <1>2, <2>2
  <2>4. (w \div h) % 2 = 1
    <3>. HIDE DEF h, w
    <3>. QED
      BY <2>3
  <2>5. w = LowSize * (q - 1) + (LowSize + n) /\ LowSize + n \in 0 .. LowSize - 1
    <3>. HIDE DEF h, w
    <3>. QED
      BY <1>1, <1>2, <1>5, <2>1 DEF h
  <2>6. w % LowSize = LowSize + n
    <3>. HIDE DEF h, w
    <3>. DEFINE p == q - 1
                v == LowSize + n
    <3>0. p \in Int /\ v \in Int /\ LowSize \in Nat \ {0}
      BY LowSizeType
    <3>. HIDE DEF p, v
    <3>1. (LowSize * p + v) % LowSize = v % LowSize
      BY <3>0, SameRemainder, Zenon
    <3>. USE DEF p, v
    <3>2. (LowSize + n) % LowSize = LowSize + n
      BY <1>2, <2>5
    <3>. QED
      BY <2>5, <3>1, <3>2
  <2>7. signextend(w) = (WordSize - LowSize) + (LowSize + n)
    BY <2>4, <2>6 DEF signextend
  <2>. QED
    BY <1>2, <2>1, <2>7 DEF parse_imm
<1>. QED
  BY <1>2, <1>4, <1>5

\* The upper part of a word, from the number it is written as.
LEMMA UpperPart ==
    ASSUME NEW n \in Int
    PROVE  ((n % WordSize) * LowSize) % WordSize = (n * LowSize) % WordSize
<1>1. WordSize \in Nat \ {0} /\ LowSize \in Nat \ {0}
  BY WordSizeType, LowSizeType
<1>. DEFINE r == n % WordSize
            q == n \div WordSize
<1>2. n = WordSize * q + r /\ q \in Int /\ r \in Int
  BY <1>1
<1>. HIDE DEF q, r
<1>3. n * LowSize = WordSize * (q * LowSize) + r * LowSize
  BY <1>1, <1>2
<1>4. q * LowSize \in Int /\ r * LowSize \in Int
  BY <1>1, <1>2
<1>5. (WordSize * (q * LowSize) + r * LowSize) % WordSize = (r * LowSize) % WordSize
  BY <1>1, <1>4, SameRemainder
<1>. QED
  BY <1>3, <1>5 DEF r

\* What LUI and ADDI put together.
Upper(w) == (w \div LowSize) * LowSize

\* A word is its upper part and its lower part added.
LEMMA TwoParts ==
    ASSUME NEW w \in Word
    PROVE  /\ Upper(w) \in Word /\ Upper(w) % WordSize = Upper(w)
           /\ LowerPart(w) \in Word
           /\ Add(Upper(w), LowerPart(w)) = w
           /\ w = 0 => Upper(w) = 0 /\ LowerPart(w) = 0
<1>1. WordSize \in Nat \ {0} /\ LowSize \in Nat \ {0} /\ w \in Nat /\ w < WordSize
  BY WordSizeType, LowSizeType, WordKept
<1>2. /\ w = LowSize * (w \div LowSize) + (w % LowSize)
      /\ w \div LowSize \in Nat /\ w % LowSize \in Nat
  BY <1>1
<1>3. Upper(w) + LowerPart(w) = w /\ Upper(w) \in Nat /\ LowerPart(w) \in Nat
  BY <1>1, <1>2 DEF Upper, LowerPart
<1>4. Upper(w) \in Word /\ LowerPart(w) \in Word
  BY <1>1, <1>3 DEF Word
<1>. QED
  BY <1>1, <1>3, <1>4, WordKept DEF Add

\* A distance leads from where it was measured to where it was measured to.
LEMMA DistanceLeads ==
    ASSUME NEW a \in 0 .. AddrSize, NEW b \in 0 .. AddrSize
    PROVE  /\ (b - a) % WordSize \in Word
           /\ Add(a, (b - a) % WordSize) = b /\ b % WordSize = b
<1>1. WordSize \in Nat \ {0} /\ 2 * AddrSize < WordSize /\ AddrSize \in Nat
  BY WordSizeType, AssemblerAssumption, SizeAssumption
<1>. DEFINE d == (b - a) % WordSize
            q == (b - a) \div WordSize
<1>2. b - a = WordSize * q + d /\ q \in Int /\ d \in 0 .. WordSize - 1
  BY <1>1
<1>. HIDE DEF d, q
<1>3. a + d = WordSize * (-q) + b
  BY <1>1, <1>2
<1>4. (WordSize * (-q) + b) % WordSize = b % WordSize
  <2>. DEFINE p == -q
  <2>1. p \in Int /\ b \in Int
    BY <1>2, SizeAssumption
  <2>. HIDE DEF p
  <2>2. (WordSize * p + b) % WordSize = b % WordSize
    BY <1>1, <2>1, SameRemainder, Zenon
  <2>. QED
    BY <2>2 DEF p
<1>5. b % WordSize = b
  BY <1>1
<1>. QED
  BY <1>2, <1>3, <1>4, <1>5 DEF Add, Word, d
-----------------------------------------------------------------------------
(* What the CPU takes an entry for, and what a line means. *)

\* The arguments of a statement are tokens.
LEMMA ArgsType ==
    ASSUME NEW s, IsStatement(s), s.kind = "instr"
    PROVE  /\ Len(s.args) \in Nat /\ DOMAIN s.args = 1 .. Len(s.args)
           /\ \A j \in 1 .. Len(s.args) : IsToken(s.args[j])
<1>. DEFINE a == s.args
            R == {a[j] : j \in DOMAIN a}
<1>1. a \in Seq(R) /\ \A j \in DOMAIN a : IsToken(a[j])
  BY DEF IsStatement
<1>. HIDE DEF R
<1>2. Len(a) \in Nat /\ DOMAIN a = 1 .. Len(a)
  BY <1>1
<1>. QED
  BY <1>1, <1>2

\* The registers a legal instruction names exist.
LEMMA RegistersThere ==
    ASSUME NEW src \in Sources, Legal(src), NEW k \in DOMAIN src, IsInstr(src[k]),
           NEW j \in DOMAIN src[k].stmt.args
    PROVE  LET t == src[k].stmt.args[j]
           IN  /\ IsReg(t) => parse_reg(t) \in Reg
               /\ IsMem(t) => parse_reg(t.base) \in Reg
<1>. DEFINE t == src[k].stmt.args[j]
<1>1. \A x \in RegsOf(src[k].stmt) : parse_reg(x) \in Reg
  BY Zenon DEF Legal
<1>2. ASSUME NEW x, IsReg(x) PROVE x.t \in {"x", "abi"}
  BY <1>2 DEF IsReg, parse_reg
<1>3. ASSUME IsReg(t) PROVE parse_reg(t) \in Reg
  BY <1>1, <1>2, <1>3 DEF RegsOf
<1>4. ASSUME IsMem(t) PROVE parse_reg(t.base) \in Reg
  <2>1. t.t = "mem" /\ IsReg(t.base)
    BY <1>4 DEF IsMem
  <2>. QED
    BY <1>1, <1>2, <2>1 DEF RegsOf
<1>. QED
  BY <1>3, <1>4

\* What processInstr takes an entry for, by its mnemonic.
LEMMA DecodeOf ==
    ASSUME NEW entries, NEW a \in Nat, a \div 4 \in Slots, a % 4 = 0
    PROVE  LET e == entries[a \div 4]
               r1 == e.a1.reg
               r2 == e.a2.reg
               d == Decode(entries, a)
           IN  /\ e.op \in RegOps => d = I("OP", e.op, r1, r2, e.a3.reg, 0)
               /\ e.op \in ImmOps => d = I("OP_IMM", WithConstant[e.op], r1, r2, 0, e.a3.imm)
               /\ e.op \in DOMAIN Loads => d = I("LOAD", Loads[e.op], r1, r2, 0, e.a3.imm)
               /\ e.op \in DOMAIN Stores => d = I("STORE", Stores[e.op], 0, r2, r1, e.a3.imm)
               /\ e.op \in BranchOps =>
                     d = I("BRANCH", Tests[e.op], 0, r1, r2, (e.a3.imm - a) % WordSize)
               /\ e.op = "JAL" => d = I("JAL", "ADD", r1, 0, 0, (e.a2.imm - a) % WordSize)
               /\ e.op = "JALR" => d = I("JALR", "ADD", r1, r2, 0, e.a3.imm)
               /\ e.op \in UpperOps =>
                     d = I(e.op, "ADD", r1, 0, 0, (e.a2.imm * LowSize) % WordSize)
               /\ e.op = "HCF" => d = I("HCF", "ADD", 0, 0, 0, 0)
               /\ e.op = "UNIMPL" => d = Bubble
<1>. DEFINE e == entries[a \div 4]
            r1 == e.a1.reg
            r2 == e.a2.reg
            d == Decode(entries, a)
<1>0. /\ DOMAIN Loads = {"LB", "LBU", "LH", "LHU", "LW"}
      /\ DOMAIN Stores = {"SB", "SH", "SW"}
  BY DEF Loads, Stores
<1>a. a - (a % 4) = a
  OBVIOUS
<1>. USE <1>0 DEF RegOps, AluOps, ImmOps, BranchOps, UpperOps
<1>1. e.op \in RegOps => d = I("OP", e.op, r1, r2, e.a3.reg, 0)
  BY DEF Decode
<1>2. e.op \in ImmOps => d = I("OP_IMM", WithConstant[e.op], r1, r2, 0, e.a3.imm)
  BY DEF Decode
<1>3. e.op \in DOMAIN Loads => d = I("LOAD", Loads[e.op], r1, r2, 0, e.a3.imm)
  BY DEF Decode
<1>4. e.op \in DOMAIN Stores => d = I("STORE", Stores[e.op], 0, r2, r1, e.a3.imm)
  BY DEF Decode
<1>5. e.op \in BranchOps =>
        d = I("BRANCH", Tests[e.op], 0, r1, r2, (e.a3.imm - a) % WordSize)
  BY <1>a DEF Decode
<1>6. e.op = "JAL" => d = I("JAL", "ADD", r1, 0, 0, (e.a2.imm - a) % WordSize)
  BY <1>a DEF Decode
<1>7. e.op = "JALR" => d = I("JALR", "ADD", r1, r2, 0, e.a3.imm)
  BY DEF Decode
<1>8. e.op \in UpperOps => d = I(e.op, "ADD", r1, 0, 0, (e.a2.imm * LowSize) % WordSize)
  BY DEF Decode
<1>9. e.op = "HCF" => d = I("HCF", "ADD", 0, 0, 0, 0)
  BY DEF Decode
<1>10. e.op = "UNIMPL" => d = Bubble
  BY DEF Decode
<1>. HIDE DEF RegOps, AluOps, ImmOps, BranchOps, UpperOps
<1>. QED
  BY <1>1, <1>2, <1>3, <1>4, <1>5, <1>6, <1>7, <1>8, <1>9, <1>10

\* What line k says, by its mnemonic.
LEMMA MeaningOf ==
    ASSUME NEW src, NEW k
    PROVE  LET s == src[k].stmt
               r(j) == parse_reg(s.args[j])
               imm(j) == s.args[j].n % WordSize
               label == LabelAddress(src, NamedBy(s))
               to == (label - Address(src, k)) % WordSize
               off == s.args[2].n % WordSize
               base == parse_reg(s.args[2].base)
               m == Meaning(src, k)
           IN  /\ s.mn \in RegOps => m = I("OP", s.mn, r(1), r(2), r(3), 0)
               /\ s.mn \in ImmOps => m = I("OP_IMM", WithConstant[s.mn], r(1), r(2), 0, imm(3))
               /\ s.mn \in DOMAIN Loads => m = I("LOAD", Loads[s.mn], r(1), base, 0, off)
               /\ s.mn \in DOMAIN Stores => m = I("STORE", Stores[s.mn], 0, base, r(1), off)
               /\ s.mn \in BranchOps => m = I("BRANCH", Tests[s.mn], 0, r(1), r(2), to)
               /\ s.mn = "BNEZ" => m = I("BRANCH", "NE", 0, r(1), 0, to)
               /\ s.mn = "BEQZ" => m = I("BRANCH", "EQ", 0, r(1), 0, to)
               /\ s.mn \in UpperOps =>
                     m = I(s.mn, "ADD", r(1), 0, 0, (s.args[2].n * LowSize) % WordSize)
               /\ s.mn = "LI" => m = I("LUI", "ADD", r(1), 0, 0, strtol(s.args[2]) % WordSize)
               /\ s.mn = "LA" => m = I("LUI", "ADD", r(1), 0, 0, label)
               /\ s.mn = "MV" => m = I("OP_IMM", "ADD", r(1), r(2), 0, 0)
               /\ s.mn = "J" => m = I("JAL", "ADD", 0, 0, 0, to)
               /\ s.mn = "JAL" =>
                     m = I("JAL", "ADD", IF Len(s.args) = 2 THEN r(1) ELSE 1, 0, 0, to)
               /\ s.mn = "JALR" => m = I("JALR", "ADD", r(1), base, 0, off)
               /\ s.mn = "RET" => m = I("JALR", "ADD", 0, 1, 0, 0)
               /\ s.mn = "HCF" => m = I("HCF", "ADD", 0, 0, 0, 0)
               /\ s.mn \notin (instr_type \ {"UNIMPL"}) \cup Pseudos => m = Skip
<1>. DEFINE s == src[k].stmt
            r(j) == parse_reg(s.args[j])
            imm(j) == s.args[j].n % WordSize
            label == LabelAddress(src, NamedBy(s))
            to == (label - Address(src, k)) % WordSize
            off == s.args[2].n % WordSize
            base == parse_reg(s.args[2].base)
            m == Meaning(src, k)
<1>0. /\ DOMAIN Loads = {"LB", "LBU", "LH", "LHU", "LW"}
      /\ DOMAIN Stores = {"SB", "SH", "SW"}
  BY DEF Loads, Stores
<1>. USE <1>0 DEF RegOps, AluOps, ImmOps, BranchOps, UpperOps
<1>1. s.mn \in RegOps => m = I("OP", s.mn, r(1), r(2), r(3), 0)
  BY DEF Meaning
<1>2. s.mn \in ImmOps => m = I("OP_IMM", WithConstant[s.mn], r(1), r(2), 0, imm(3))
  BY DEF Meaning
<1>3. s.mn \in DOMAIN Loads => m = I("LOAD", Loads[s.mn], r(1), base, 0, off)
  BY DEF Meaning
<1>4. s.mn \in DOMAIN Stores => m = I("STORE", Stores[s.mn], 0, base, r(1), off)
  BY DEF Meaning
<1>5. s.mn \in BranchOps => m = I("BRANCH", Tests[s.mn], 0, r(1), r(2), to)
  BY DEF Meaning
<1>6. /\ s.mn = "BNEZ" => m = I("BRANCH", "NE", 0, r(1), 0, to)
      /\ s.mn = "BEQZ" => m = I("BRANCH", "EQ", 0, r(1), 0, to)
  BY DEF Meaning
<1>7. s.mn \in UpperOps =>
        m = I(s.mn, "ADD", r(1), 0, 0, (s.args[2].n * LowSize) % WordSize)
  BY DEF Meaning
<1>8. s.mn = "LI" => m = I("LUI", "ADD", r(1), 0, 0, strtol(s.args[2]) % WordSize)
  BY DEF Meaning
<1>9. s.mn = "LA" => m = I("LUI", "ADD", r(1), 0, 0, label)
  BY DEF Meaning
<1>10. /\ s.mn = "MV" => m = I("OP_IMM", "ADD", r(1), r(2), 0, 0)
       /\ s.mn = "J" => m = I("JAL", "ADD", 0, 0, 0, to)
  BY DEF Meaning
<1>11. s.mn = "JAL" => m = I("JAL", "ADD", IF Len(s.args) = 2 THEN r(1) ELSE 1, 0, 0, to)
  BY DEF Meaning
<1>12. s.mn = "JALR" => m = I("JALR", "ADD", r(1), base, 0, off)
  BY DEF Meaning
<1>13. /\ s.mn = "RET" => m = I("JALR", "ADD", 0, 1, 0, 0)
       /\ s.mn = "HCF" => m = I("HCF", "ADD", 0, 0, 0, 0)
  BY DEF Meaning
<1>14. s.mn \notin (instr_type \ {"UNIMPL"}) \cup Pseudos => m = Skip
  BY DEF Meaning, instr_type, MemOps, Pseudos
<1>. HIDE DEF RegOps, AluOps, ImmOps, BranchOps, UpperOps
<1>. QED
  BY <1>1, <1>2, <1>3, <1>4, <1>5, <1>6, <1>7, <1>8, <1>9, <1>10, <1>11, <1>12, <1>13, <1>14

\* The words x and y of a statement, with their labels resolved, hold what the
\* statement says.
Tell(s, x, y) ==
    LET r(j) == parse_reg(s.args[j])
        w == parse_imm(strtol(s.args[2]))
        lab == label_addr(NamedBy(s)) % WordSize
    IN  /\ s.mn \in RegOps =>
              /\ x.op = s.mn
              /\ x.a1.reg = r(1) /\ x.a2.reg = r(2) /\ x.a3.reg = r(3)
        /\ s.mn \in ImmOps =>
              /\ x.op = s.mn
              /\ x.a1.reg = r(1) /\ x.a2.reg = r(2)
              /\ x.a3.imm = signextend(parse_imm(s.args[3].n))
        /\ s.mn \in MemOps \cup {"JALR"} =>
              /\ x.op = s.mn
              /\ x.a1.reg = r(1) /\ x.a2.reg = parse_reg(s.args[2].base)
              /\ x.a3.imm = parse_imm(s.args[2].n)
        /\ s.mn \in BranchOps =>
              /\ x.op = s.mn
              /\ x.a1.reg = r(1) /\ x.a2.reg = r(2) /\ x.a3.imm = lab
        /\ s.mn \in UpperOps =>
              /\ x.op = s.mn
              /\ x.a1.reg = r(1) /\ x.a2.imm = parse_imm(s.args[2].n)
        /\ s.mn = "JAL" =>
              /\ x.op = "JAL"
              /\ x.a1.reg = (IF Len(s.args) = 2 THEN r(1) ELSE 1) /\ x.a2.imm = lab
        /\ s.mn = "LI" =>
              /\ x.op = "LUI" /\ x.a1.reg = r(1) /\ x.a2.imm = w \div LowSize
              /\ y.op = "ADDI" /\ y.a1.reg = r(1) /\ y.a2.reg = r(1)
              /\ y.a3.imm = LowerPart(w)
        /\ s.mn = "LA" =>
              /\ x.op = "LUI" /\ x.a1.reg = r(1) /\ x.a2.imm = lab \div LowSize
              /\ y.op = "ADDI" /\ y.a1.reg = r(1) /\ y.a2.reg = r(1)
              /\ y.a3.imm = LowerPart(lab)
        /\ s.mn = "RET" =>
              /\ x.op = "JALR" /\ x.a1.reg = 0 /\ x.a2.reg = 1 /\ x.a3.imm = 0
        /\ s.mn = "J" =>
              /\ x.op = "JAL" /\ x.a1.reg = 0 /\ x.a2.imm = lab
        /\ s.mn = "MV" =>
              /\ x.op = "ADDI" /\ x.a1.reg = r(1) /\ x.a2.reg = r(2) /\ x.a3.imm = 0
        /\ s.mn = "BNEZ" =>
              /\ x.op = "BNE" /\ x.a1.reg = r(1) /\ x.a2.reg = 0 /\ x.a3.imm = lab
        /\ s.mn = "BEQZ" =>
              /\ x.op = "BEQ" /\ x.a1.reg = r(1) /\ x.a2.reg = 0 /\ x.a3.imm = lab
        /\ s.mn = "HCF" => x.op = "HCF"
        /\ s.mn \notin (instr_type \ {"UNIMPL"}) \cup Pseudos => x.op = "UNIMPL"

LEMMA WordsOf ==
    ASSUME NEW s, s.kind = "instr", WellFormed(s), Len(s.args) \in Nat, NEW u
    PROVE  LET words == Assembled(s, NewInstr(u), NewInstr(u))
           IN  Tell(s, Normalized(words[1]), Normalized(words[2]))
<1>. DEFINE e == NewInstr(u)
            new == [type |-> "NONE", label |-> None, reg |-> 0, imm |-> u]
            words == Assembled(s, e, e)
            x == Normalized(words[1])
            y == Normalized(words[2])
            r(j) == parse_reg(s.args[j])
            w == parse_imm(strtol(s.args[2]))
            lab == label_addr(NamedBy(s)) % WordSize
            Put(op, a1, a2, a3) == [op |-> op, a1 |-> a1, a2 |-> a2, a3 |-> a3]
            Named(t) == IF t.t = "name" THEN t.l ELSE None
<1>1. /\ e.a1 = new /\ e.a2 = new /\ e.a3 = new
  BY DEF NewInstr
<1>2. /\ \A g : WithReg(new, g).type = "NONE" /\ WithReg(new, g).reg = g
      /\ \A i : WithImm(new, i).type = "NONE" /\ WithImm(new, i).imm = i
      /\ \A g : AsReg(new, g).type = "REG" /\ AsReg(new, g).reg = g
      /\ \A i : AsImm(new, i).type = "IMM" /\ AsImm(new, i).imm = i
      /\ \A t : AsLabel(new, t).type = "LABEL" /\ AsLabel(new, t).label = Named(t)
      /\ \A t, v : AsImm(AsLabel(new, t), v).imm = v
      /\ \A t, v, i : WithImm(AsImm(AsLabel(new, t), v), i).imm = i
      /\ new.type = "NONE"
  BY DEF WithReg, WithImm, AsReg, AsImm, AsLabel
<1>3. /\ \A o : o.type # "LABEL" => Resolved(o) = o
      /\ \A o : o.type = "LABEL" => Resolved(o) = AsImm(o, label_addr(o.label) % WordSize)
  BY DEF Resolved
<1>4. ASSUME NEW op, NEW a1, NEW a2, NEW a3, op # "UNIMPL"
      PROVE  LET n == Normalized(Put(op, a1, a2, a3))
             IN  /\ n.op = op /\ n.a1 = Resolved(a1)
                 /\ a2.type = "LABEL" /\ op = "LUI" =>
                       n.a2 = WithImm(Resolved(a2), Resolved(a2).imm \div LowSize)
                 /\ ~(a2.type = "LABEL" /\ op = "LUI") => n.a2 = Resolved(a2)
                 /\ a3.type = "LABEL" /\ op = "ADDI" =>
                       n.a3 = WithImm(Resolved(a3), LowerPart(Resolved(a3).imm))
                 /\ ~(a3.type = "LABEL" /\ op = "ADDI") => n.a3 = Resolved(a3)
  BY <1>4 DEF Normalized
<1>5. \A a1, a2, a3 : Normalized(Put("UNIMPL", a1, a2, a3)).op = "UNIMPL"
  BY DEF Normalized
<1>. HIDE DEF new, e, Put, Named
<1>6. ASSUME s.mn \in RegOps
      PROVE  /\ x.op = s.mn
             /\ x.a1.reg = r(1) /\ x.a2.reg = r(2) /\ x.a3.reg = r(3)
  <2>1. words[1] = Put(s.mn, WithReg(new, r(1)), WithReg(new, r(2)),
                       WithReg(new, r(3)))
    <3>1. words = <<parse_instr(s, e)>>
      BY <1>6 DEF Assembled, Pseudos, RegOps, AluOps
    <3>. QED
      BY <1>1, <1>6, <3>1
      DEF Put, parse_instr, parse_mnemonic, instr_type, RegOps, AluOps, ImmOps, MemOps, BranchOps,
          UpperOps
  <2>2. s.mn # "UNIMPL"
    BY <1>6 DEF RegOps, AluOps
  <2>. HIDE DEF x, words, lab
  <2>. QED
    BY <1>2, <1>3, <1>4, <2>1, <2>2 DEF x
<1>7. ASSUME s.mn \in ImmOps
      PROVE  /\ x.op = s.mn
             /\ x.a1.reg = r(1) /\ x.a2.reg = r(2)
             /\ x.a3.imm = signextend(parse_imm(s.args[3].n))
  <2>1. words[1] = Put(s.mn, WithReg(new, r(1)), WithReg(new, r(2)),
                       WithImm(new, signextend(parse_imm(s.args[3].n))))
    <3>1. words = <<parse_instr(s, e)>>
      BY <1>7 DEF Assembled, Pseudos, RegOps, AluOps, ImmOps
    <3>. QED
      BY <1>1, <1>7, <3>1
      DEF Put, parse_instr, parse_mnemonic, instr_type, RegOps, AluOps, ImmOps, MemOps, BranchOps,
          UpperOps
  <2>2. s.mn # "UNIMPL"
    BY <1>7 DEF RegOps, AluOps, ImmOps
  <2>. HIDE DEF x, words, lab
  <2>. QED
    BY <1>2, <1>3, <1>4, <2>1, <2>2 DEF x
<1>8. ASSUME s.mn \in MemOps \cup {"JALR"}
      PROVE  /\ x.op = s.mn
             /\ x.a1.reg = r(1) /\ x.a2.reg = parse_reg(s.args[2].base)
             /\ x.a3.imm = parse_imm(s.args[2].n)
  <2>1. words[1] = Put(s.mn, WithReg(new, r(1)), WithReg(new, parse_reg(s.args[2].base)),
                       WithImm(new, parse_imm(s.args[2].n)))
    <3>1. words = <<parse_instr(s, e)>>
      BY <1>8 DEF Assembled, Pseudos, RegOps, AluOps, ImmOps, MemOps
    <3>. QED
      BY <1>1, <1>8, <3>1
      DEF Put, parse_instr, parse_mnemonic, instr_type, RegOps, AluOps, ImmOps, MemOps, BranchOps,
          UpperOps
  <2>2. s.mn # "UNIMPL"
    BY <1>8 DEF RegOps, AluOps, ImmOps, MemOps
  <2>. HIDE DEF x, words, lab
  <2>. QED
    BY <1>2, <1>3, <1>4, <2>1, <2>2 DEF x
<1>9. ASSUME s.mn \in BranchOps
      PROVE  /\ x.op = s.mn
             /\ x.a1.reg = r(1) /\ x.a2.reg = r(2) /\ x.a3.imm = lab
  <2>1. words[1] = Put(s.mn, WithReg(new, r(1)), WithReg(new, r(2)),
                       AsLabel(new, s.args[3]))
    <3>1. words = <<parse_instr(s, e)>>
      BY <1>9 DEF Assembled, Pseudos, RegOps, AluOps, ImmOps, MemOps, BranchOps
    <3>. QED
      BY <1>1, <1>9, <3>1
      DEF Put, parse_instr, parse_mnemonic, instr_type, RegOps, AluOps, ImmOps, MemOps, BranchOps,
          UpperOps
  <2>2. s.mn # "UNIMPL" /\ s.mn # "ADDI"
    BY <1>9 DEF RegOps, AluOps, ImmOps, MemOps, BranchOps
  <2>3. lab = label_addr(Named(s.args[3])) % WordSize
    BY <1>9 DEF Named, NamedBy, Naming, BranchOps
  <2>. HIDE DEF x, words, lab
  <2>. QED
    BY <1>2, <1>3, <1>4, <2>1, <2>2, <2>3 DEF x
<1>10. ASSUME s.mn \in UpperOps
      PROVE  /\ x.op = s.mn
             /\ x.a1.reg = r(1) /\ x.a2.imm = parse_imm(s.args[2].n)
  <2>1. words[1] = Put(s.mn, WithReg(new, r(1)), WithImm(new, parse_imm(s.args[2].n)),
                       new)
    <3>1. words = <<parse_instr(s, e)>>
      BY <1>10 DEF Assembled, Pseudos, RegOps, AluOps, ImmOps, MemOps, BranchOps, UpperOps
    <3>. QED
      BY <1>1, <1>10, <3>1
      DEF Put, parse_instr, parse_mnemonic, instr_type, RegOps, AluOps, ImmOps, MemOps, BranchOps,
          UpperOps
  <2>2. s.mn # "UNIMPL"
    BY <1>10 DEF RegOps, AluOps, ImmOps, MemOps, BranchOps, UpperOps
  <2>. HIDE DEF x, words, lab
  <2>. QED
    BY <1>2, <1>3, <1>4, <2>1, <2>2 DEF x
<1>11. ASSUME s.mn = "JAL"
      PROVE  /\ x.op = "JAL"
             /\ x.a1.reg = (IF Len(s.args) = 2 THEN r(1) ELSE 1) /\ x.a2.imm = lab
  <2>1. words[1] = Put("JAL", AsReg(new, IF Len(s.args) = 2 THEN r(1) ELSE 1),
                       AsLabel(new, s.args[Len(s.args)]), new)
    <3>1. words = <<parse_instr(s, e)>>
      BY <1>11 DEF Assembled, Pseudos, RegOps, AluOps, ImmOps, MemOps, BranchOps, UpperOps, WellFormed
    <3>2. Len(s.args) = 1 \/ Len(s.args) = 2
      BY <1>11
      DEF WellFormed, RegOps, AluOps, ImmOps, MemOps, BranchOps, UpperOps
    <3>3. CASE Len(s.args) = 1
      BY <1>1, <1>11, <3>1, <3>3
      DEF Put, parse_instr, parse_mnemonic, instr_type, RegOps, AluOps, ImmOps, MemOps, BranchOps,
          UpperOps
    <3>4. CASE Len(s.args) = 2
      BY <1>1, <1>11, <3>1, <3>4
      DEF Put, parse_instr, parse_mnemonic, instr_type, RegOps, AluOps, ImmOps, MemOps, BranchOps,
          UpperOps
    <3>. QED
      BY <3>2, <3>3, <3>4
  <2>2. "JAL" # "UNIMPL"
    BY <1>11
  <2>3. lab = label_addr(Named(s.args[Len(s.args)])) % WordSize
    BY <1>11 DEF Named, NamedBy, Naming, BranchOps, WellFormed
  <2>. HIDE DEF x, words, lab
  <2>. QED
    BY <1>2, <1>3, <1>4, <2>1, <2>2, <2>3 DEF x
<1>12. ASSUME s.mn = "RET"
      PROVE  /\ x.op = "JALR"
             /\ x.a1.reg = 0 /\ x.a2.reg = 1 /\ x.a3.imm = 0
  <2>1. words[1] = Put("JALR", AsReg(new, 0), AsReg(new, 1),
                       AsImm(new, 0))
    BY <1>1, <1>12
    DEF Put, Assembled, Pseudos, parse_pseudoinstructions
  <2>2. "JALR" # "UNIMPL"
    BY <1>12
  <2>. HIDE DEF x, words, lab
  <2>. QED
    BY <1>2, <1>3, <1>4, <2>1, <2>2 DEF x
<1>13. ASSUME s.mn = "J"
      PROVE  /\ x.op = "JAL"
             /\ x.a1.reg = 0 /\ x.a2.imm = lab
  <2>1. words[1] = Put("JAL", AsReg(new, 0), AsLabel(new, s.args[1]),
                       new)
    BY <1>1, <1>13
    DEF Put, Assembled, Pseudos, parse_pseudoinstructions
  <2>2. "JAL" # "UNIMPL"
    BY <1>13
  <2>3. lab = label_addr(Named(s.args[1])) % WordSize
    BY <1>13 DEF Named, NamedBy, Naming, BranchOps, WellFormed
  <2>. HIDE DEF x, words, lab
  <2>. QED
    BY <1>2, <1>3, <1>4, <2>1, <2>2, <2>3 DEF x
<1>14. ASSUME s.mn = "MV"
      PROVE  /\ x.op = "ADDI"
             /\ x.a1.reg = r(1) /\ x.a2.reg = r(2) /\ x.a3.imm = 0
  <2>1. words[1] = Put("ADDI", AsReg(new, r(1)), AsReg(new, r(2)),
                       AsImm(new, 0))
    BY <1>1, <1>14
    DEF Put, Assembled, Pseudos, parse_pseudoinstructions
  <2>2. "ADDI" # "UNIMPL"
    BY <1>14
  <2>. HIDE DEF x, words, lab
  <2>. QED
    BY <1>2, <1>3, <1>4, <2>1, <2>2 DEF x
<1>15. ASSUME s.mn = "BNEZ"
      PROVE  /\ x.op = "BNE"
             /\ x.a1.reg = r(1) /\ x.a2.reg = 0 /\ x.a3.imm = lab
  <2>1. words[1] = Put("BNE", AsReg(new, r(1)), AsReg(new, 0),
                       AsLabel(new, s.args[2]))
    BY <1>1, <1>15
    DEF Put, Assembled, Pseudos, parse_pseudoinstructions
  <2>2. "BNE" # "UNIMPL"
    BY <1>15
  <2>3. lab = label_addr(Named(s.args[2])) % WordSize
    BY <1>15 DEF Named, NamedBy, Naming, BranchOps
  <2>. HIDE DEF x, words, lab
  <2>. QED
    BY <1>2, <1>3, <1>4, <2>1, <2>2, <2>3 DEF x
<1>16. ASSUME s.mn = "BEQZ"
      PROVE  /\ x.op = "BEQ"
             /\ x.a1.reg = r(1) /\ x.a2.reg = 0 /\ x.a3.imm = lab
  <2>1. words[1] = Put("BEQ", AsReg(new, r(1)), AsReg(new, 0),
                       AsLabel(new, s.args[2]))
    BY <1>1, <1>16
    DEF Put, Assembled, Pseudos, parse_pseudoinstructions
  <2>2. "BEQ" # "UNIMPL"
    BY <1>16
  <2>3. lab = label_addr(Named(s.args[2])) % WordSize
    BY <1>16 DEF Named, NamedBy, Naming, BranchOps
  <2>. HIDE DEF x, words, lab
  <2>. QED
    BY <1>2, <1>3, <1>4, <2>1, <2>2, <2>3 DEF x
<1>17. ASSUME s.mn = "LI"
      PROVE  /\ x.op = "LUI" /\ x.a1.reg = r(1) /\ x.a2.imm = w \div LowSize
             /\ y.op = "ADDI" /\ y.a1.reg = r(1) /\ y.a2.reg = r(1)
             /\ y.a3.imm = LowerPart(w)
  <2>1. /\ words[1] = Put("LUI", AsReg(new, r(1)), AsImm(new, w \div LowSize), new)
        /\ words[2] = Put("ADDI", AsReg(new, r(1)), AsReg(new, r(1)), AsImm(new, LowerPart(w)))
    BY <1>1, <1>17 DEF Put, Assembled, Pseudos, parse_pseudoinstructions
  <2>. HIDE DEF x, y, words, lab, w
  <2>. QED
    BY <1>2, <1>3, <1>4, <2>1 DEF x, y
<1>18. ASSUME s.mn = "LA"
      PROVE  /\ x.op = "LUI" /\ x.a1.reg = r(1) /\ x.a2.imm = lab \div LowSize
             /\ y.op = "ADDI" /\ y.a1.reg = r(1) /\ y.a2.reg = r(1)
             /\ y.a3.imm = LowerPart(lab)
  <2>1. /\ words[1] = Put("LUI", AsReg(new, r(1)), AsLabel(new, s.args[2]), new)
        /\ words[2] = Put("ADDI", AsReg(new, r(1)), AsReg(new, r(1)), AsLabel(new, s.args[2]))
    BY <1>1, <1>18 DEF Put, Assembled, Pseudos, parse_pseudoinstructions
  <2>2. lab = label_addr(Named(s.args[2])) % WordSize
    BY <1>18 DEF Named, NamedBy, Naming, BranchOps
  <2>. HIDE DEF x, y, words, lab, w
  <2>. QED
    BY <1>2, <1>3, <1>4, <2>1, <2>2 DEF x, y
<1>19. ASSUME s.mn = "HCF"
      PROVE  x.op = "HCF"
  <2>1. words[1] = Put("HCF", new, new, new)
    <3>1. words = <<parse_instr(s, e)>>
      BY <1>19 DEF Assembled, Pseudos, RegOps, AluOps, ImmOps,
        MemOps, BranchOps, UpperOps
    <3>. QED
      BY <1>1, <1>19, <3>1
      DEF Put, parse_instr, parse_mnemonic, instr_type, RegOps, AluOps, ImmOps,
        MemOps, BranchOps, UpperOps
  <2>. QED
    BY <1>4, <2>1
<1>20. ASSUME s.mn \notin (instr_type \ {"UNIMPL"}) \cup Pseudos
      PROVE  x.op = "UNIMPL"
  <2>1. words[1] = Put("UNIMPL", new, new, new)
    <3>1. words = <<parse_instr(s, e)>>
      BY <1>20 DEF Assembled, Pseudos, RegOps, AluOps, ImmOps,
        MemOps, BranchOps, UpperOps
    <3>. QED
      BY <1>1, <1>20, <3>1
      DEF Put, parse_instr, parse_mnemonic, instr_type, RegOps, AluOps, ImmOps,
        MemOps, BranchOps, UpperOps
  <2>. QED
    BY <1>5, <2>1
<1>. QED
  BY <1>6, <1>7, <1>8, <1>9, <1>10, <1>11, <1>12, <1>13, <1>14, <1>15, <1>16, <1>17, <1>18, <1>19, <1>20 DEF Tell, e
-----------------------------------------------------------------------------
(* What normalize_labels leaves for the CPU to find. *)

\* What the CPU must find in the entries for line k: what the line says, in two
\* parts for an li or an la.  What it takes for no instruction does nothing.
Found(entries, src, k) ==
    LET a == Address(src, k)
        m == Meaning(src, k)
    IN  IF Words(src[k].stmt) = 2
        THEN /\ m = I("LUI", "ADD", m.rd, 0, 0, m.imm)
             /\ Decode(entries, a) = I("LUI", "ADD", m.rd, 0, 0, Upper(m.imm))
             /\ Decode(entries, a + 4) = I("OP_IMM", "ADD", m.rd, m.rd, 0, LowerPart(m.imm))
        ELSE Decode(entries, a) = m \/ (Decode(entries, a) = Bubble /\ m = Skip)

\* A place no line covers.
Bare(src, a) ==
    \A k \in DOMAIN src :
        ~(IsInstr(src[k]) /\ Address(src, k) <= a /\ a < Address(src, k) + Size(src[k]))

Laid(entries, src) ==
    /\ \A k \in DOMAIN src : IsInstr(src[k]) => Found(entries, src, k)
    /\ \A a \in Nat : a % 4 = 0 /\ a \div 4 \in Slots /\ Bare(src, a) => Decode(entries, a) = Bubble

\* The labels a line names are found, with their places.
LEMMA NamedPlace ==
    ASSUME TypeOK, Tidy(source), Legal(source), Standing, line = Len(source) + 1,
           NEW k \in DOMAIN source, IsInstr(source[k]), source[k].stmt.mn \in Naming
    PROVE  LET l == NamedBy(source[k].stmt)
           IN  /\ label_addr(l) % WordSize = LabelAddress(source, l)
               /\ LabelAddress(source, l) \in 0 .. AddrSize
<1>. DEFINE l == NamedBy(source[k].stmt)
<1>1. l # None /\ l \in LabelsOf(source)
  BY LegalNames
<1>2. Defined(l)
  <2>1. PICK j \in DOMAIN source : source[j].label = l
    BY <1>1 DEF LabelsOf
  <2>2. j \in Read
    BY SourceType DEF TypeOK, Read
  <2>3. PICK i \in DOMAIN labels : labels[i] = Noted(j)
    BY <1>1, <2>1, <2>2 DEF Standing, Listed
  <2>. QED
    BY <2>1, <2>3 DEF Defined, Noted
<1>3. label_addr(l) = LabelAddress(source, l) /\ label_addr(l) \in 0 .. AddrSize
  BY <1>2, LabelPlace
<1>. HIDE DEF l
<1>. QED
  BY <1>3, DistanceLeads DEF l

\* normalize_labels leaves the words of every line for the CPU to find.
LEMMA LineFound ==
    ASSUME Inv, Runnable(source), normalize_labels, status' = "loaded",
           NEW k \in DOMAIN source, IsInstr(source[k])
    PROVE  Found(imem', source, k)
<1>. DEFINE s == source[k].stmt
            a == Address(source, k)
            m == Meaning(source, k)
            p == a \div 4
            r(j) == parse_reg(s.args[j])
            lab == label_addr(NamedBy(s)) % WordSize
            to == (LabelAddress(source, NamedBy(s)) - a) % WordSize
<1>1. /\ status = "normalize" /\ imem' = [n \in Slots |-> Normalized(imem[n])]
  BY DEF normalize_labels
<1>2. TypeOK /\ Standing /\ line = Len(source) + 1 /\ Tidy(source) /\ Legal(source) /\ Meant(source)
  BY <1>1 DEF Inv, Runnable
<1>3. PICK u \in Uninit : Written(u)
  BY <1>1, <1>2 DEF Inv
<1>4. /\ source \in Sources /\ Len(source) \in Nat /\ DOMAIN source = 1 .. Len(source)
      /\ Read = DOMAIN source
  <2>1. source \in Sources /\ Len(source) \in Nat /\ DOMAIN source = 1 .. Len(source)
    BY <1>2, SourceType DEF TypeOK
  <2>. QED
    BY <1>2, <2>1 DEF Read
<1>. DEFINE words == Assembled(s, NewInstr(u), NewInstr(u))
            x == Normalized(words[1])
            y == Normalized(words[2])
<1>5. /\ s.kind = "instr" /\ IsStatement(s) /\ WellFormed(s)
      /\ Len(s.args) \in Nat /\ DOMAIN s.args = 1 .. Len(s.args)
      /\ \A j \in 1 .. Len(s.args) : IsToken(s.args[j])
  <2>1. s.kind = "instr" /\ IsStatement(s) /\ WellFormed(s)
    BY <1>2, <1>4, SourceType DEF IsInstr, Standing, Inside
  <2>. QED
    BY <2>1, ArgsType
<1>0. Tell(s, x, y)
  BY <1>5, WordsOf
<1>6. p \in Slots /\ Covers(k, p) /\ 4 * p = a
  BY <1>2, <1>4, FirstSlot
<1>7. a \in Nat /\ a % 4 = 0 /\ p \in Nat /\ a + Size(source[k]) <= data_offset /\ a \in 0 .. AddrSize
  <2>1. a \in Nat /\ a % 4 = 0
    BY <1>2, <1>4, PlaceType, PlaceKinds
  <2>2. a + Size(source[k]) <= data_offset /\ a + Size(source[k]) <= AddrSize
        /\ Size(source[k]) \in Nat
    BY <1>2, <1>4, SizeType DEF Standing, Inside
  <2>. QED
    BY <1>6, <2>1, <2>2, SizeAssumption DEF Slots
<1>8. imem'[p] = x
  <2>1. imem[p] = words[p - p + 1]
    BY <1>3, <1>4, <1>6 DEF Written
  <2>2. p - p + 1 = 1
    BY <1>7
  <2>. HIDE DEF words
  <2>. QED
    BY <1>1, <1>6, <2>1, <2>2
<1>9. Words(s) = 2 => /\ imem'[p + 1] = y /\ p + 1 \in Slots
                      /\ (a + 4) \div 4 = p + 1 /\ (a + 4) % 4 = 0
  <2>1. SUFFICES ASSUME Words(s) = 2
                 PROVE  /\ imem'[p + 1] = y /\ p + 1 \in Slots
                        /\ (a + 4) \div 4 = p + 1 /\ (a + 4) % 4 = 0
    OBVIOUS
  <2>2. Size(source[k]) = 8
    BY <2>1 DEF Size
  <2>3. (a + 4) \div 4 = p + 1 /\ (a + 4) % 4 = 0 /\ (p + 1) - p = 1 /\ (p + 1) - p + 1 = 2
    <3>. HIDE DEF a, p
    <3>. QED
      BY <1>6, <1>7
  <2>4. p + 1 \in Slots
    <3>1. data_offset \in Nat
      BY AssemblerAssumption
    <3>. HIDE DEF a, p
    <3>. QED
      BY <1>6, <1>7, <2>2, <3>1 DEF Slots
  <2>5. Covers(k, p + 1)
    BY <2>1, <2>3 DEF Covers
  <2>6. imem[p + 1] = words[(p + 1) - p + 1]
    BY <1>3, <1>4, <2>4, <2>5 DEF Written
  <2>. HIDE DEF words, p
  <2>. QED
    BY <1>1, <2>3, <2>4, <2>6
<1>10. s.mn \in Naming => lab = LabelAddress(source, NamedBy(s)) /\ lab \in Word
  <2>1. s.mn \in Naming => /\ lab = LabelAddress(source, NamedBy(s))
                           /\ LabelAddress(source, NamedBy(s)) \in 0 .. AddrSize
    BY <1>2, NamedPlace
  <2>2. \A n \in 0 .. AddrSize : n \in Word
    BY AssemblerAssumption, SizeAssumption, WordSizeType DEF Word
  <2>. QED
    BY <2>1, <2>2
<1>11. Words(s) # 2 => (Found(imem', source, k) <=>
                          Decode(imem', a) = m \/ (Decode(imem', a) = Bubble /\ m = Skip))
  BY DEF Found
<1>12. s.mn \notin {"LI", "LA"} => Words(s) # 2
  BY DEF Words
<1>13. CASE s.mn \in RegOps
  <2>1. /\ x.op = s.mn /\ x.a1.reg = r(1) /\ x.a2.reg = r(2) /\ x.a3.reg = r(3)
    <3>. HIDE DEF x, y, r, lab
    <3>. QED
      BY <1>0, <1>13 DEF Tell, r, lab
  <2>2. m = I("OP", s.mn, r(1), r(2), r(3), 0)
    BY <1>13, MeaningOf
  <2>3. Decode(imem', a) = I("OP", x.op, x.a1.reg, x.a2.reg, x.a3.reg, 0)
    <3>. HIDE DEF x, r
    <3>. QED
      BY <1>6, <1>7, <1>8, <1>13, <2>1, DecodeOf
  <2>4. s.mn \notin {"LI", "LA"}
    BY <1>13 DEF RegOps, AluOps
  <2>. QED
    BY <1>11, <1>12, <2>1, <2>2, <2>3, <2>4
<1>14. CASE s.mn \in ImmOps
  <2>1. /\ x.op = s.mn /\ x.a1.reg = r(1) /\ x.a2.reg = r(2)
        /\ x.a3.imm = signextend(parse_imm(s.args[3].n))
    <3>. HIDE DEF x, y, r, lab
    <3>. QED
      BY <1>0, <1>14 DEF Tell, r, lab
  <2>2. m = I("OP_IMM", WithConstant[s.mn], r(1), r(2), 0, s.args[3].n % WordSize)
    BY <1>14, MeaningOf
  <2>3. Decode(imem', a) = I("OP_IMM", WithConstant[x.op], x.a1.reg, x.a2.reg, 0, x.a3.imm)
    <3>. HIDE DEF x, r
    <3>. QED
      BY <1>6, <1>7, <1>8, <1>14, <2>1, DecodeOf
  <2>4. s.mn \notin {"LI", "LA"}
    BY <1>14 DEF ImmOps
  <2>5. Len(s.args) = 3 /\ IsImm(s.args[3], LowSize)
    BY <1>5, <1>14 DEF WellFormed, ImmOps, RegOps, AluOps, MemOps, BranchOps, UpperOps
  <2>6. 3 \in DOMAIN s.args /\ s.args[3].t \in {"imm", "mem"} /\ s.args[3].n \in Int
    BY <1>5, <2>5 DEF IsImm, IsToken
  <2>7. s.args[3].n < LowSize \div 2
    BY <1>2, <1>14, <2>6 DEF Meant
  <2>8. signextend(parse_imm(s.args[3].n)) = s.args[3].n % WordSize
    BY <2>5, <2>6, <2>7, ExtendedKept DEF IsImm, InRangeOf
  <2>. HIDE DEF x, r, m, a
  <2>. QED
    BY <1>11, <1>12, <2>1, <2>2, <2>3, <2>4, <2>8
<1>15. CASE s.mn \in MemOps \cup {"JALR"}
  <2>1. /\ x.op = s.mn /\ x.a1.reg = r(1) /\ x.a2.reg = parse_reg(s.args[2].base)
        /\ x.a3.imm = parse_imm(s.args[2].n)
    <3>. HIDE DEF x, y, r, lab
    <3>. QED
      BY <1>0, <1>15 DEF Tell, r, lab
  <2>2. parse_imm(s.args[2].n) = s.args[2].n % WordSize
    BY DEF parse_imm
  <2>3. s.mn \notin {"LI", "LA"}
    BY <1>15 DEF MemOps
  <2>4. s.mn \in DOMAIN Loads \/ s.mn \in DOMAIN Stores \/ s.mn = "JALR"
    BY <1>15 DEF MemOps, Loads, Stores
  <2>5. CASE s.mn \in DOMAIN Loads
    <3>1. m = I("LOAD", Loads[s.mn], r(1), parse_reg(s.args[2].base), 0, s.args[2].n % WordSize)
      BY <2>5, MeaningOf
    <3>2. Decode(imem', a) = I("LOAD", Loads[x.op], x.a1.reg, x.a2.reg, 0, x.a3.imm)
      <4>. HIDE DEF x, r
      <4>. QED
        BY <1>6, <1>7, <1>8, <2>1, <2>5, DecodeOf
    <3>. QED
      BY <1>11, <1>12, <2>1, <2>2, <2>3, <3>1, <3>2
  <2>6. CASE s.mn \in DOMAIN Stores
    <3>1. m = I("STORE", Stores[s.mn], 0, parse_reg(s.args[2].base), r(1), s.args[2].n % WordSize)
      BY <2>6, MeaningOf
    <3>2. Decode(imem', a) = I("STORE", Stores[x.op], 0, x.a2.reg, x.a1.reg, x.a3.imm)
      <4>. HIDE DEF x, r
      <4>. QED
        BY <1>6, <1>7, <1>8, <2>1, <2>6, DecodeOf
    <3>. QED
      BY <1>11, <1>12, <2>1, <2>2, <2>3, <3>1, <3>2
  <2>7. CASE s.mn = "JALR"
    <3>1. m = I("JALR", "ADD", r(1), parse_reg(s.args[2].base), 0, s.args[2].n % WordSize)
      BY <2>7, MeaningOf
    <3>2. Decode(imem', a) = I("JALR", "ADD", x.a1.reg, x.a2.reg, 0, x.a3.imm)
      <4>. HIDE DEF x, r
      <4>. QED
        BY <1>6, <1>7, <1>8, <2>1, <2>7, DecodeOf
    <3>. QED
      BY <1>11, <1>12, <2>1, <2>2, <2>3, <3>1, <3>2
  <2>. QED
    BY <2>4, <2>5, <2>6, <2>7
<1>16. CASE s.mn \in BranchOps
  <2>1. /\ x.op = s.mn /\ x.a1.reg = r(1) /\ x.a2.reg = r(2) /\ x.a3.imm = lab
    <3>. HIDE DEF x, y, r, lab
    <3>. QED
      BY <1>0, <1>16 DEF Tell, r, lab
  <2>2. m = I("BRANCH", Tests[s.mn], 0, r(1), r(2), to)
    BY <1>16, MeaningOf
  <2>3. Decode(imem', a) = I("BRANCH", Tests[x.op], 0, x.a1.reg, x.a2.reg,
                             (x.a3.imm - a) % WordSize)
    <3>. HIDE DEF x, r
    <3>. QED
      BY <1>6, <1>7, <1>8, <1>16, <2>1, DecodeOf
  <2>4. s.mn \notin {"LI", "LA"} /\ s.mn \in Naming
    BY <1>16 DEF BranchOps, Naming
  <2>. HIDE DEF x, r, m, lab
  <2>. QED
    BY <1>10, <1>11, <1>12, <2>1, <2>2, <2>3, <2>4
<1>17. CASE s.mn \in UpperOps
  <2>1. /\ x.op = s.mn /\ x.a1.reg = r(1) /\ x.a2.imm = parse_imm(s.args[2].n)
    <3>. HIDE DEF x, y, r, lab
    <3>. QED
      BY <1>0, <1>17 DEF Tell, r, lab
  <2>2. m = I(s.mn, "ADD", r(1), 0, 0, (s.args[2].n * LowSize) % WordSize)
    BY <1>17, MeaningOf
  <2>3. Decode(imem', a) = I(x.op, "ADD", x.a1.reg, 0, 0, (x.a2.imm * LowSize) % WordSize)
    <3>. HIDE DEF x, r
    <3>. QED
      BY <1>6, <1>7, <1>8, <1>17, <2>1, DecodeOf
  <2>4. s.mn \notin {"LI", "LA"}
    BY <1>17 DEF UpperOps
  <2>5. Len(s.args) = 2 /\ s.args[2].t \in {"imm", "mem"}
    BY <1>5, <1>17, OperandKinds
  <2>6. s.args[2].n \in Int
    BY <1>5, <2>5 DEF IsToken
  <2>7. (parse_imm(s.args[2].n) * LowSize) % WordSize = (s.args[2].n * LowSize) % WordSize
    BY <2>6, UpperPart DEF parse_imm
  <2>. HIDE DEF x, r, m, a
  <2>. QED
    BY <1>11, <1>12, <2>1, <2>2, <2>3, <2>4, <2>7
<1>18. CASE s.mn = "JAL"
  <2>1. x.op = "JAL" /\ x.a1.reg = (IF Len(s.args) = 2 THEN r(1) ELSE 1) /\ x.a2.imm = lab
    <3>. HIDE DEF x, y, r, lab
    <3>. QED
      BY <1>0, <1>18 DEF Tell, r, lab
  <2>2. m = I("JAL", "ADD", IF Len(s.args) = 2 THEN r(1) ELSE 1, 0, 0, to)
    BY <1>18, MeaningOf
  <2>3. Decode(imem', a) = I("JAL", "ADD", x.a1.reg, 0, 0, (x.a2.imm - a) % WordSize)
    <3>. HIDE DEF x, r
    <3>. QED
      BY <1>6, <1>7, <1>8, <2>1, DecodeOf
  <2>4. s.mn \in Naming
    BY <1>18 DEF Naming
  <2>. HIDE DEF x, r, m, lab, a
  <2>. QED
    BY <1>10, <1>11, <1>12, <1>18, <2>1, <2>2, <2>3, <2>4
<1>19. CASE s.mn = "J"
  <2>1. x.op = "JAL" /\ x.a1.reg = 0 /\ x.a2.imm = lab
    <3>. HIDE DEF x, y, r, lab
    <3>. QED
      BY <1>0, <1>19 DEF Tell, r, lab
  <2>2. m = I("JAL", "ADD", 0, 0, 0, to)
    BY <1>19, MeaningOf
  <2>3. Decode(imem', a) = I("JAL", "ADD", x.a1.reg, 0, 0, (x.a2.imm - a) % WordSize)
    <3>. HIDE DEF x, r
    <3>. QED
      BY <1>6, <1>7, <1>8, <2>1, DecodeOf
  <2>4. s.mn \in Naming
    BY <1>19 DEF Naming
  <2>. HIDE DEF x, r, m, lab, a
  <2>. QED
    BY <1>10, <1>11, <1>12, <1>19, <2>1, <2>2, <2>3, <2>4
<1>20. CASE s.mn = "BNEZ"
  <2>1. x.op = "BNE" /\ x.a1.reg = r(1) /\ x.a2.reg = 0 /\ x.a3.imm = lab
    <3>. HIDE DEF x, y, r, lab
    <3>. QED
      BY <1>0, <1>20 DEF Tell, r, lab
  <2>2. m = I("BRANCH", "NE", 0, r(1), 0, to)
    BY <1>20, MeaningOf
  <2>3. Decode(imem', a) = I("BRANCH", Tests[x.op], 0, x.a1.reg, x.a2.reg, (x.a3.imm - a) % WordSize)
    <3>. HIDE DEF x, r
    <3>. QED
      BY <1>6, <1>7, <1>8, <2>1, DecodeOf DEF BranchOps
  <2>4. s.mn \in Naming
    BY <1>20 DEF Naming
  <2>. HIDE DEF x, r, m, lab, a
  <2>. QED
    BY <1>10, <1>11, <1>12, <1>20, <2>1, <2>2, <2>3, <2>4 DEF Tests
<1>21. CASE s.mn = "BEQZ"
  <2>1. x.op = "BEQ" /\ x.a1.reg = r(1) /\ x.a2.reg = 0 /\ x.a3.imm = lab
    <3>. HIDE DEF x, y, r, lab
    <3>. QED
      BY <1>0, <1>21 DEF Tell, r, lab
  <2>2. m = I("BRANCH", "EQ", 0, r(1), 0, to)
    BY <1>21, MeaningOf
  <2>3. Decode(imem', a) = I("BRANCH", Tests[x.op], 0, x.a1.reg, x.a2.reg, (x.a3.imm - a) % WordSize)
    <3>. HIDE DEF x, r
    <3>. QED
      BY <1>6, <1>7, <1>8, <2>1, DecodeOf DEF BranchOps
  <2>4. s.mn \in Naming
    BY <1>21 DEF Naming
  <2>. HIDE DEF x, r, m, lab, a
  <2>. QED
    BY <1>10, <1>11, <1>12, <1>21, <2>1, <2>2, <2>3, <2>4 DEF Tests
<1>22. CASE s.mn = "MV"
  <2>1. x.op = "ADDI" /\ x.a1.reg = r(1) /\ x.a2.reg = r(2) /\ x.a3.imm = 0
    <3>. HIDE DEF x, y, r, lab
    <3>. QED
      BY <1>0, <1>22 DEF Tell, r, lab
  <2>2. m = I("OP_IMM", "ADD", r(1), r(2), 0, 0)
    BY <1>22, MeaningOf
  <2>3. Decode(imem', a) = I("OP_IMM", WithConstant[x.op], x.a1.reg, x.a2.reg, 0, x.a3.imm)
    <3>. HIDE DEF x, r
    <3>. QED
      BY <1>6, <1>7, <1>8, <2>1, DecodeOf DEF ImmOps
  <2>. HIDE DEF x, r, m, lab, a
  <2>. QED
    BY <1>11, <1>12, <1>22, <2>1, <2>2, <2>3 DEF WithConstant
<1>23. CASE s.mn = "RET"
  <2>1. x.op = "JALR" /\ x.a1.reg = 0 /\ x.a2.reg = 1 /\ x.a3.imm = 0
    <3>. HIDE DEF x, y, r, lab
    <3>. QED
      BY <1>0, <1>23 DEF Tell, r, lab
  <2>2. m = I("JALR", "ADD", 0, 1, 0, 0)
    BY <1>23, MeaningOf
  <2>3. Decode(imem', a) = I("JALR", "ADD", x.a1.reg, x.a2.reg, 0, x.a3.imm)
    <3>. HIDE DEF x, r
    <3>. QED
      BY <1>6, <1>7, <1>8, <2>1, DecodeOf
  <2>. HIDE DEF x, r, m, lab, a
  <2>. QED
    BY <1>11, <1>12, <1>23, <2>1, <2>2, <2>3
<1>24. CASE s.mn = "HCF"
  <2>1. x.op = "HCF"
    <3>. HIDE DEF x, y, r, lab
    <3>. QED
      BY <1>0, <1>24 DEF Tell, r, lab
  <2>2. m = I("HCF", "ADD", 0, 0, 0, 0)
    BY <1>24, MeaningOf
  <2>3. Decode(imem', a) = I("HCF", "ADD", 0, 0, 0, 0)
    <3>. HIDE DEF x, r
    <3>. QED
      BY <1>6, <1>7, <1>8, <2>1, DecodeOf
  <2>. HIDE DEF x, r, m, lab, a
  <2>. QED
    BY <1>11, <1>12, <1>24, <2>1, <2>2, <2>3
<1>25. CASE s.mn = "LI"
  <2>. DEFINE v == parse_imm(strtol(s.args[2]))
  <2>1. /\ x.op = "LUI" /\ x.a1.reg = r(1) /\ x.a2.imm = v \div LowSize
        /\ y.op = "ADDI" /\ y.a1.reg = r(1) /\ y.a2.reg = r(1) /\ y.a3.imm = LowerPart(v)
    <3>. HIDE DEF x, y, r, lab
    <3>. QED
      BY <1>0, <1>25 DEF Tell, r, lab
  <2>2. m = I("LUI", "ADD", r(1), 0, 0, v) /\ v \in Word
    <3>1. Len(s.args) = 2
      BY <1>5, <1>25 DEF WellFormed, ImmOps, RegOps, AluOps, MemOps, BranchOps, UpperOps
    <3>2. strtol(s.args[2]) \in Int
      BY <1>5, <3>1, TokenTypes
    <3>3. m = I("LUI", "ADD", r(1), 0, 0, strtol(s.args[2]) % WordSize)
      BY <1>25, MeaningOf
    <3>4. v \in Word
      BY <3>2, ImmediateTypes
    <3>. QED
      BY <3>3, <3>4 DEF parse_imm
  <2>3. Decode(imem', a) = I("LUI", "ADD", x.a1.reg, 0, 0, (x.a2.imm * LowSize) % WordSize)
    <3>1. x.op \in UpperOps
      BY <2>1 DEF UpperOps
    <3>. HIDE DEF x, r, a, p
    <3>. QED
      BY <1>6, <1>7, <1>8, <2>1, <3>1, DecodeOf DEF a, p
  <2>4. Words(s) = 2
    BY <1>25 DEF Words
  <2>5. Decode(imem', a + 4) = I("OP_IMM", "ADD", y.a1.reg, y.a2.reg, 0, y.a3.imm)
    <3>. DEFINE b == a + 4
    <3>1. b \in Nat /\ b \div 4 \in Slots /\ b % 4 = 0 /\ imem'[b \div 4] = y
      BY <1>7, <1>9, <2>4
    <3>2. y.op \in ImmOps
      BY <2>1 DEF ImmOps
    <3>. HIDE DEF b, y
    <3>3. Decode(imem', b) = I("OP_IMM", WithConstant[y.op], y.a1.reg, y.a2.reg, 0, y.a3.imm)
      BY <3>1, <3>2, DecodeOf
    <3>. QED
      BY <2>1, <3>3 DEF b, WithConstant
  <2>. HIDE DEF v
  <2>6. (x.a2.imm * LowSize) % WordSize = Upper(v)
    <3>. HIDE DEF x
    <3>. QED
      BY <2>1, <2>2, TwoParts DEF Upper
  <2>7. m.rd = r(1) /\ m.imm = v
    <3>. HIDE DEF r, m
    <3>. QED
      BY <2>2 DEF I
  <2>. HIDE DEF x, y, r
  <2>8. /\ m = I("LUI", "ADD", m.rd, 0, 0, m.imm)
        /\ Decode(imem', a) = I("LUI", "ADD", m.rd, 0, 0, Upper(m.imm))
        /\ Decode(imem', a + 4) = I("OP_IMM", "ADD", m.rd, m.rd, 0, LowerPart(m.imm))
    <3>. HIDE DEF m, a
    <3>. QED
      BY <2>1, <2>2, <2>3, <2>5, <2>6, <2>7
  <2>. QED
    BY <2>4, <2>8 DEF Found
<1>26. CASE s.mn = "LA"
  <2>. DEFINE v == lab
  <2>1. /\ x.op = "LUI" /\ x.a1.reg = r(1) /\ x.a2.imm = v \div LowSize
        /\ y.op = "ADDI" /\ y.a1.reg = r(1) /\ y.a2.reg = r(1) /\ y.a3.imm = LowerPart(v)
    <3>. HIDE DEF x, y, r, lab
    <3>. QED
      BY <1>0, <1>26 DEF Tell, r, lab
  <2>2. m = I("LUI", "ADD", r(1), 0, 0, v) /\ v \in Word
    <3>1. s.mn \in Naming
      BY <1>26 DEF Naming
    <3>2. m = I("LUI", "ADD", r(1), 0, 0, LabelAddress(source, NamedBy(s)))
      BY <1>26, MeaningOf
    <3>. QED
      BY <1>10, <3>1, <3>2
  <2>3. Decode(imem', a) = I("LUI", "ADD", x.a1.reg, 0, 0, (x.a2.imm * LowSize) % WordSize)
    <3>1. x.op \in UpperOps
      BY <2>1 DEF UpperOps
    <3>. HIDE DEF x, r, a, p
    <3>. QED
      BY <1>6, <1>7, <1>8, <2>1, <3>1, DecodeOf DEF a, p
  <2>4. Words(s) = 2
    BY <1>26 DEF Words
  <2>5. Decode(imem', a + 4) = I("OP_IMM", "ADD", y.a1.reg, y.a2.reg, 0, y.a3.imm)
    <3>. DEFINE b == a + 4
    <3>1. b \in Nat /\ b \div 4 \in Slots /\ b % 4 = 0 /\ imem'[b \div 4] = y
      BY <1>7, <1>9, <2>4
    <3>2. y.op \in ImmOps
      BY <2>1 DEF ImmOps
    <3>. HIDE DEF b, y
    <3>3. Decode(imem', b) = I("OP_IMM", WithConstant[y.op], y.a1.reg, y.a2.reg, 0, y.a3.imm)
      BY <3>1, <3>2, DecodeOf
    <3>. QED
      BY <2>1, <3>3 DEF b, WithConstant
  <2>. HIDE DEF v
  <2>6. (x.a2.imm * LowSize) % WordSize = Upper(v)
    <3>. HIDE DEF x
    <3>. QED
      BY <2>1, <2>2, TwoParts DEF Upper
  <2>7. m.rd = r(1) /\ m.imm = v
    <3>. HIDE DEF r, m
    <3>. QED
      BY <2>2 DEF I
  <2>. HIDE DEF x, y, r
  <2>8. /\ m = I("LUI", "ADD", m.rd, 0, 0, m.imm)
        /\ Decode(imem', a) = I("LUI", "ADD", m.rd, 0, 0, Upper(m.imm))
        /\ Decode(imem', a + 4) = I("OP_IMM", "ADD", m.rd, m.rd, 0, LowerPart(m.imm))
    <3>. HIDE DEF m, a
    <3>. QED
      BY <2>1, <2>2, <2>3, <2>5, <2>6, <2>7
  <2>. QED
    BY <2>4, <2>8 DEF Found
<1>27. CASE s.mn \notin (instr_type \ {"UNIMPL"}) \cup Pseudos
  <2>1. x.op = "UNIMPL"
    <3>. HIDE DEF x, y, r, lab
    <3>. QED
      BY <1>0, <1>27 DEF Tell, r, lab
  <2>2. m = Skip
    BY <1>27, MeaningOf
  <2>3. Decode(imem', a) = Bubble
    <3>. HIDE DEF x
    <3>. QED
      BY <1>6, <1>7, <1>8, <2>1, DecodeOf
  <2>4. s.mn \notin {"LI", "LA"}
    BY <1>27 DEF Pseudos
  <2>. QED
    BY <1>11, <1>12, <2>2, <2>3, <2>4
<1>. QED
  BY <1>13, <1>14, <1>15, <1>16, <1>17, <1>18, <1>19, <1>20, <1>21, <1>22, <1>23, <1>24, <1>25, <1>26, <1>27
  DEF instr_type, Pseudos

\* What normalize_labels leaves is the program, and nothing between its lines.
LEMMA LaidOut ==
    ASSUME Inv, Runnable(source), normalize_labels, status' = "loaded"
    PROVE  Laid(imem', source)
<1>1. /\ status = "normalize" /\ imem' = [n \in Slots |-> Normalized(imem[n])]
  BY DEF normalize_labels
<1>2. TypeOK /\ Standing /\ line = Len(source) + 1 /\ Tidy(source)
  BY <1>1 DEF Inv, Runnable
<1>3. PICK u \in Uninit : Written(u)
  BY <1>1, <1>2 DEF Inv
<1>4. /\ source \in Sources /\ Len(source) \in Nat /\ DOMAIN source = 1 .. Len(source)
      /\ Read = DOMAIN source
  <2>1. source \in Sources /\ Len(source) \in Nat /\ DOMAIN source = 1 .. Len(source)
    BY <1>2, SourceType DEF TypeOK
  <2>. QED
    BY <1>2, <2>1 DEF Read
<1>5. ASSUME NEW a \in Nat, a % 4 = 0, a \div 4 \in Slots, Bare(source, a)
      PROVE  Decode(imem', a) = Bubble
  <2>. DEFINE p == a \div 4
  <2>1. a = 4 * p /\ p \in Nat
    BY <1>5
  <2>2. ASSUME NEW k \in Read, Covers(k, p) PROVE FALSE
    <3>. DEFINE b == Address(source, k)
                n == Words(source[k].stmt)
    <3>1. b \in Nat /\ b % 4 = 0
      BY <1>2, <1>4, <2>2, PlaceType, PlaceKinds DEF Covers
    <3>2. Size(source[k]) = 4 * n /\ n \in {1, 2} /\ p - b \div 4 \in 0 .. n - 1
      BY <2>2 DEF Covers, Size, Words
    <3>3. b <= a /\ a < b + 4 * n
      <4>. HIDE DEF b, n, p
      <4>. QED
        BY <2>1, <3>1, <3>2
    <3>. QED
      BY <1>4, <1>5, <2>2, <3>2, <3>3 DEF Bare, Covers
  <2>3. imem[p] = NewInstr(u)
    BY <1>3, <1>5, <2>2 DEF Written
  <2>4. imem'[p] = NewInstr(u) /\ imem'[p].op = "UNIMPL"
    BY <1>1, <1>5, <2>3 DEF Normalized, NewInstr
  <2>. QED
    BY <1>5, <2>4, DecodeOf
<1>. QED
  BY <1>5, LineFound DEF Laid
-----------------------------------------------------------------------------
(* Where a program can be. *)

\* What line k covers.
LEMMA InstrPlace ==
    ASSUME NEW src \in Sources, Tidy(src), NEW k \in DOMAIN src, IsInstr(src[k])
    PROVE  /\ k \in 1 .. Len(src) /\ Address(src, k) \in Nat /\ Address(src, k) % 4 = 0
           /\ Size(src[k]) = 4 * Words(src[k].stmt) /\ Words(src[k].stmt) \in {1, 2}
BY SourceType, PlaceType, PlaceKinds DEF Size, Words

\* No two instructions cover the same place.
LEMMA OneLine ==
    ASSUME NEW src \in Sources, Tidy(src), NEW j \in DOMAIN src, NEW k \in DOMAIN src,
           IsInstr(src[j]), IsInstr(src[k]), NEW x \in Int,
           Address(src, j) <= x, x < Address(src, j) + Size(src[j]),
           Address(src, k) <= x, x < Address(src, k) + Size(src[k])
    PROVE  j = k
<1>1. /\ j \in 1 .. Len(src) /\ k \in 1 .. Len(src) /\ Len(src) \in Nat
      /\ Address(src, j) \in Nat /\ Address(src, k) \in Nat
      /\ Size(src[j]) \in Nat /\ Size(src[k]) \in Nat
  BY InstrPlace, SourceType, SizeType
<1>2. SectionOf(src, j) = SectionOf(src, k)
  BY DEF Tidy
<1>3. j < k => Address(src, j) + Size(src[j]) <= Address(src, k)
  BY <1>1, <1>2, PlaceBehind
<1>4. k < j => Address(src, k) + Size(src[k]) <= Address(src, j)
  BY <1>1, <1>2, PlaceBehind
<1>. QED
  BY <1>1, <1>3, <1>4

\* The source holds at a place what the line that stands there says.
LEMMA SourceInstIs ==
    ASSUME NEW src \in Sources, Tidy(src), NEW a
    PROVE  /\ \A k \in DOMAIN src : IsInstr(src[k]) /\ Address(src, k) = a =>
                  SourceInst(src, a) = Meaning(src, k)
           /\ (\A k \in DOMAIN src : ~(IsInstr(src[k]) /\ Address(src, k) = a)) =>
                  SourceInst(src, a) = Skip
<1>1. ASSUME NEW k \in DOMAIN src, IsInstr(src[k]), Address(src, k) = a
      PROVE  SourceInst(src, a) = Meaning(src, k)
  <2>1. \A j \in InstrAt(src, a) : j = k
    <3>1. TAKE j \in InstrAt(src, a)
    <3>2. j \in DOMAIN src /\ IsInstr(src[j]) /\ Address(src, j) = a
      BY DEF InstrAt
    <3>3. /\ a \in Nat /\ Size(src[j]) \in {4, 8} /\ Size(src[k]) \in {4, 8}
      BY <1>1, <3>2, InstrPlace
    <3>. QED
      BY <1>1, <3>2, <3>3, OneLine
  <2>2. k \in InstrAt(src, a)
    BY <1>1 DEF InstrAt
  <2>3. InstrAt(src, a) = {k}
    BY <2>1, <2>2
  <2>. QED
    BY <2>3 DEF SourceInst
<1>2. ASSUME \A k \in DOMAIN src : ~(IsInstr(src[k]) /\ Address(src, k) = a)
      PROVE  SourceInst(src, a) = Skip
  <2>1. InstrAt(src, a) = {}
    BY <1>2 DEF InstrAt
  <2>. QED
    BY <2>1 DEF SourceInst
<1>. QED
  BY <1>1, <1>2

\* The second word of an li or la.
Inner(src, a) ==
    \E k \in DOMAIN src : IsInstr(src[k]) /\ Words(src[k].stmt) = 2 /\ a = Address(src, k) + 4

\* The last place a program can come to.
End(src) == IF EndsInHcf(src) THEN Address(src, Len(src)) ELSE data_offset

\* Where a jump may lead.
Landing(src, a) == a \in 0 .. End(src) /\ a % 4 = 0 /\ ~Inner(src, a)

\* The text ends in imem, and before its end if its last line is an HCF.
LEMMA EndType ==
    ASSUME NEW src \in Sources, Tidy(src), Fits(src)
    PROVE  /\ End(src) \in Nat /\ End(src) % 4 = 0 /\ End(src) <= data_offset
           /\ data_offset \in Nat /\ data_offset <= AddrSize /\ AddrSize \in Nat
           /\ EndsInHcf(src) => /\ Len(src) \in DOMAIN src /\ End(src) = Address(src, Len(src))
                                /\ End(src) < data_offset
<1>1. data_offset \in Nat /\ data_offset % 4 = 0 /\ data_offset <= AddrSize /\ AddrSize \in Nat
  BY AssemblerAssumption, SizeAssumption
<1>2. ASSUME EndsInHcf(src)
      PROVE  /\ Len(src) \in DOMAIN src /\ Address(src, Len(src)) \in Nat
             /\ Address(src, Len(src)) % 4 = 0 /\ Address(src, Len(src)) < data_offset
  <2>1. Len(src) \in DOMAIN src /\ IsInstr(src[Len(src)])
    BY <1>2, SourceType DEF EndsInHcf
  <2>2. /\ Address(src, Len(src)) \in Nat /\ Address(src, Len(src)) % 4 = 0
        /\ Size(src[Len(src)]) \in {4, 8}
    BY <2>1, InstrPlace
  <2>3. Address(src, Len(src)) + Size(src[Len(src)]) <= data_offset
    BY <2>1 DEF Fits
  <2>. QED
    BY <1>1, <2>1, <2>2, <2>3
<1>. QED
  BY <1>1, <1>2 DEF End

\* A jump to address 0 lands at or in front of the text.
LEMMA LandingZero ==
    ASSUME NEW src \in Sources, Tidy(src), Fits(src)
    PROVE  Landing(src, 0)
<1>1. ASSUME Inner(src, 0) PROVE FALSE
  <2>1. PICK k \in DOMAIN src : IsInstr(src[k]) /\ 0 = Address(src, k) + 4
    BY <1>1 DEF Inner
  <2>. QED
    BY <2>1, InstrPlace
<1>. QED
  BY <1>1, EndType DEF Landing

\* Behind anything but the first word of an li or la.
LEMMA LandingBehind ==
    ASSUME NEW src \in Sources, Tidy(src), Fits(src), NEW a \in Nat, a % 4 = 0, a < End(src),
           \A k \in DOMAIN src : IsInstr(src[k]) /\ Address(src, k) = a =>
               Words(src[k].stmt) # 2
    PROVE  Landing(src, a + 4)
<1>1. ASSUME Inner(src, a + 4) PROVE FALSE
  <2>1. PICK k \in DOMAIN src : IsInstr(src[k]) /\ Words(src[k].stmt) = 2
                                /\ a + 4 = Address(src, k) + 4
    BY <1>1 DEF Inner
  <2>2. Address(src, k) = a
    BY <2>1, InstrPlace
  <2>. QED
    BY <2>1, <2>2
<1>2. a + 4 \in 0 .. End(src) /\ (a + 4) % 4 = 0
  BY EndType
<1>. QED
  BY <1>1, <1>2 DEF Landing

\* A section of the text ends before the data.
LEMMA TextFits ==
    ASSUME NEW src \in Sources, Tidy(src), Fits(src), NEW o \in {"start", "text"}
    PROVE  \A k \in 0 .. Len(src) : Base(o) + FilledOf(src, o)[k] <= data_offset
<1>. DEFINE f == FilledOf(src, o)
            S == {k \in 0 .. Len(src) : Base(o) + f[k] <= data_offset}
<1>1. Len(src) \in Nat /\ DOMAIN src = 1 .. Len(src)
  BY SourceType
<1>2. Base(o) \in Nat /\ Base(o) <= data_offset /\ data_offset \in Nat
  BY AssemblerAssumption DEF Base
<1>3. 0 \in S
  BY <1>1, <1>2, FilledUnfold
<1>4. ASSUME NEW n \in 0 .. Len(src) - 1, n \in S PROVE n + 1 \in S
  <2>1. n + 1 \in 1 .. Len(src) /\ (n + 1) - 1 = n /\ n \in 0 .. Len(src)
    BY <1>1
  <2>2. f[n + 1] = f[n] + (IF OpenOf(src)[n] = o THEN Size(src[n + 1]) ELSE 0)
    BY <2>1, FilledUnfold
  <2>3. f[n] \in Nat
    BY <2>1, FilledGrows
  <2>4. CASE OpenOf(src)[n] = o /\ IsInstr(src[n + 1])
    <3>1. Address(src, n + 1) = Base(o) + f[n]
      BY <2>1, <2>4 DEF Address, SectionOf
    <3>2. Address(src, n + 1) + Size(src[n + 1]) <= data_offset
      BY <1>1, <2>1, <2>4 DEF Fits
    <3>3. Size(src[n + 1]) \in Nat
      BY <2>1, SizeType
    <3>. HIDE DEF f
    <3>4. Base(o) + f[n + 1] <= data_offset
      BY <1>2, <2>2, <2>3, <2>4, <3>1, <3>2, <3>3
    <3>. QED
      BY <1>1, <2>1, <3>4
  <2>5. CASE OpenOf(src)[n] = o /\ ~IsInstr(src[n + 1])
    <3>1. ~IsData(src[n + 1])
      BY <1>1, <2>1, <2>5 DEF Tidy, SectionOf
    <3>2. Size(src[n + 1]) = 0
      BY <2>5, <3>1 DEF Size
    <3>. HIDE DEF f
    <3>3. f[n + 1] = f[n]
      BY <2>2, <2>3, <2>5, <3>2
    <3>. QED
      BY <1>1, <1>4, <2>1, <3>3
  <2>6. CASE OpenOf(src)[n] # o
    <3>. HIDE DEF f
    <3>3. f[n + 1] = f[n]
      BY <2>2, <2>3, <2>6
    <3>. QED
      BY <1>1, <1>4, <2>1, <3>3
  <2>. QED
    BY <2>4, <2>5, <2>6
<1>. HIDE DEF S
<1>5. 0 .. Len(src) \subseteq S
  BY <1>1, <1>3, <1>4, IntervalInduction
<1>. QED
  BY <1>5 DEF S

\* A label in the section of an instruction.
LEMMA LandingLabel ==
    ASSUME NEW src \in Sources, Tidy(src), Fits(src), NEW k \in DOMAIN src, IsInstr(src[k]),
           NEW l \in LabelsOf(src), SectionOf(src, LineOf(src, l)) = SectionOf(src, k)
    PROVE  Landing(src, LabelAddress(src, l))
<1>. DEFINE n == LineOf(src, l)
            o == SectionOf(src, k)
            a == Address(src, n)
<1>1. n \in DOMAIN src
  BY DEF LabelsOf, LineOf
<1>2. /\ Len(src) \in Nat /\ DOMAIN src = 1 .. Len(src) /\ n - 1 \in 0 .. Len(src)
      /\ o \in {"start", "text"} /\ SectionOf(src, n) = o
  BY <1>1, SourceType DEF Tidy
<1>. HIDE DEF n
<1>3. a = Base(o) + FilledOf(src, o)[n - 1] /\ a \in Nat /\ Size(src[n]) \in Nat
  BY <1>1, <1>2, PlaceType, SizeType DEF Address
<1>4. a % 4 = 0
  <2>1. Base(o) \in Nat /\ Base(o) % 4 = 0
    BY <1>2, AssemblerAssumption DEF Base
  <2>2. FilledOf(src, o)[n - 1] % 4 = 0 /\ FilledOf(src, o)[n - 1] \in Nat
    BY <1>2, FilledInWords, FilledGrows
  <2>. HIDE DEF a, o
  <2>. QED
    BY <1>3, <2>1, <2>2
<1>5. a <= End(src)
  <2>1. CASE EndsInHcf(src)
    <3>1. Len(src) \in DOMAIN src /\ IsInstr(src[Len(src)])
      BY <2>1, EndType DEF EndsInHcf
    <3>2. SectionOf(src, Len(src)) = o
      BY <3>1 DEF Tidy
    <3>3. n # Len(src) => a + Size(src[n]) <= Address(src, Len(src))
      BY <1>1, <1>2, <3>1, <3>2, PlaceBehind
    <3>4. Address(src, Len(src)) = End(src) /\ End(src) \in Nat
      BY <2>1, EndType
    <3>. QED
      BY <1>3, <3>3, <3>4
  <2>2. CASE ~EndsInHcf(src)
    BY <1>2, <1>3, <2>2, TextFits DEF End
  <2>. QED
    BY <2>1, <2>2
<1>6. ASSUME Inner(src, a) PROVE FALSE
  <2>1. PICK j \in DOMAIN src : IsInstr(src[j]) /\ Words(src[j].stmt) = 2 /\ a = Address(src, j) + 4
    BY <1>6 DEF Inner
  <2>2. /\ j \in 1 .. Len(src) /\ Address(src, j) \in Nat /\ Size(src[j]) = 8
        /\ SectionOf(src, j) = SectionOf(src, n)
    <3>1. SectionOf(src, j) = o
      BY <2>1 DEF Tidy
    <3>. QED
      BY <1>2, <2>1, <3>1, InstrPlace
  <2>3. j < n => Address(src, j) + Size(src[j]) <= a
    BY <1>1, <1>2, <2>2, PlaceBehind
  <2>4. n < j => a + Size(src[n]) <= Address(src, j)
    BY <1>1, <1>2, <2>2, PlaceBehind
  <2>. HIDE DEF a
  <2>5. j = n => a = Address(src, j)
    BY DEF a
  <2>6. a = Address(src, j) + 4 /\ Address(src, j) \in Nat /\ Size(src[j]) = 8
    BY <2>1, <2>2
  <2>7. ~(j < n)
    BY <2>3, <2>6
  <2>8. ~(n < j)
    BY <1>3, <2>4, <2>6
  <2>9. j # n
    BY <2>5, <2>6
  <2>. QED
    BY <1>1, <2>2, <2>7, <2>8, <2>9
<1>. QED
  BY <1>3, <1>4, <1>5, <1>6 DEF Landing, LabelAddress, n

\* The data ends before the memory does.
LEMMA DataFits ==
    ASSUME NEW src \in Sources, Tidy(src), Fits(src)
    PROVE  \A k \in 0 .. Len(src) : Base("data") + FilledOf(src, "data")[k] <= AddrSize
<1>. DEFINE f == FilledOf(src, "data")
            S == {k \in 0 .. Len(src) : Base("data") + f[k] <= AddrSize}
<1>1. Len(src) \in Nat /\ DOMAIN src = 1 .. Len(src)
  BY SourceType
<1>2. Base("data") \in Nat /\ Base("data") <= AddrSize /\ AddrSize \in Nat
  BY AssemblerAssumption, SizeAssumption DEF Base
<1>3. 0 \in S
  BY <1>1, <1>2, FilledUnfold
<1>4. ASSUME NEW n \in 0 .. Len(src) - 1, n \in S PROVE n + 1 \in S
  <2>1. n + 1 \in 1 .. Len(src) /\ (n + 1) - 1 = n /\ n \in 0 .. Len(src)
    BY <1>1
  <2>2. f[n + 1] = f[n] + (IF OpenOf(src)[n] = "data" THEN Size(src[n + 1]) ELSE 0)
    BY <2>1, FilledUnfold
  <2>3. f[n] \in Nat
    BY <2>1, FilledGrows
  <2>4. CASE OpenOf(src)[n] = "data" /\ IsData(src[n + 1])
    <3>1. Address(src, n + 1) = Base("data") + f[n]
      BY <2>1, <2>4 DEF Address, SectionOf
    <3>2. Address(src, n + 1) + Size(src[n + 1]) <= AddrSize
      BY <1>1, <2>1, <2>4 DEF Fits
    <3>3. Size(src[n + 1]) \in Nat
      BY <2>1, SizeType
    <3>. HIDE DEF f
    <3>4. Base("data") + f[n + 1] <= AddrSize
      BY <1>2, <2>2, <2>3, <2>4, <3>1, <3>2, <3>3
    <3>. QED
      BY <1>1, <2>1, <3>4
  <2>5. CASE OpenOf(src)[n] = "data" /\ ~IsData(src[n + 1])
    <3>1. ~IsInstr(src[n + 1])
      BY <1>1, <2>1, <2>5 DEF Tidy, SectionOf
    <3>2. Size(src[n + 1]) = 0
      BY <2>5, <3>1 DEF Size
    <3>. HIDE DEF f
    <3>3. f[n + 1] = f[n]
      BY <2>2, <2>3, <2>5, <3>2
    <3>. QED
      BY <1>1, <1>4, <2>1, <3>3
  <2>6. CASE OpenOf(src)[n] # "data"
    <3>. HIDE DEF f
    <3>3. f[n + 1] = f[n]
      BY <2>2, <2>3, <2>6
    <3>. QED
      BY <1>1, <1>4, <2>1, <3>3
  <2>. QED
    BY <2>4, <2>5, <2>6
<1>. HIDE DEF S
<1>5. 0 .. Len(src) \subseteq S
  BY <1>1, <1>3, <1>4, IntervalInduction
<1>. QED
  BY <1>5 DEF S

\* A label is in the memory, at its end at the latest.
LEMMA LabelInMemory ==
    ASSUME NEW src \in Sources, Tidy(src), Fits(src), NEW l \in LabelsOf(src)
    PROVE  LabelAddress(src, l) \in 0 .. AddrSize /\ LabelAddress(src, l) \in Word
<1>. DEFINE n == LineOf(src, l)
            o == SectionOf(src, n)
<1>1. n \in DOMAIN src
  BY DEF LabelsOf, LineOf
<1>2. Len(src) \in Nat /\ n \in 1 .. Len(src) /\ n - 1 \in 0 .. Len(src)
  BY <1>1, SourceType
<1>. HIDE DEF n
<1>3. o \in Sections
  BY <1>2, OpenType DEF SectionOf
<1>4. Address(src, n) \in Nat /\ Address(src, n) = Base(o) + FilledOf(src, o)[n - 1]
  BY <1>2, PlaceType DEF Address
<1>5. data_offset <= AddrSize /\ data_offset \in Nat /\ AddrSize \in Nat /\ 2 * AddrSize < WordSize
      /\ WordSize \in Nat
  BY AssemblerAssumption, SizeAssumption, WordSizeType
<1>6. Base(o) + FilledOf(src, o)[n - 1] <= AddrSize
  <2>1. CASE o = "data"
    BY <1>2, <2>1, DataFits
  <2>2. CASE o \in {"start", "text"}
    <3>1. Base(o) + FilledOf(src, o)[n - 1] <= data_offset
      BY <1>2, <2>2, TextFits
    <3>. QED
      BY <1>4, <1>5, <3>1
  <2>. QED
    BY <1>3, <2>1, <2>2 DEF Sections
<1>. QED
  BY <1>4, <1>5, <1>6 DEF LabelAddress, Word, n

\* The fields an instruction of each kind may have.
LEMMA InstKinds ==
    LET Good(i) == i \in Inst /\ i.op \in Opcodes
    IN  /\ \A f \in AluOps : \A d, x, y \in Reg : Good(I("OP", f, d, x, y, 0))
        /\ \A f \in AluOps : \A d, x \in Reg : \A w \in Word : Good(I("OP_IMM", f, d, x, 0, w))
        /\ \A f \in Widths : \A d, x \in Reg : \A w \in Word : Good(I("LOAD", f, d, x, 0, w))
        /\ \A f \in {"Byte", "Half", "Word"} : \A x, y \in Reg : \A w \in Word :
              Good(I("STORE", f, 0, x, y, w))
        /\ \A f \in Conditions : \A x, y \in Reg : \A w \in Word : Good(I("BRANCH", f, 0, x, y, w))
        /\ \A d \in Reg : \A w \in Word : /\ Good(I("LUI", "ADD", d, 0, 0, w))
                                     /\ I("LUI", "ADD", d, 0, 0, w).op = "LUI"
                                     /\ Good(I("AUIPC", "ADD", d, 0, 0, w))
                                     /\ Good(I("JAL", "ADD", d, 0, 0, w))
        /\ \A d, x \in Reg : \A w \in Word : Good(I("JALR", "ADD", d, x, 0, w))
        /\ Good(I("HCF", "ADD", 0, 0, 0, 0))
<1>1. 0 \in Reg /\ 0 \in Word
  BY SizeAssumption, WordSizeType DEF Reg, Word
<1>2. ASSUME NEW op \in Opcodes, NEW f \in Conditions \cup AluOps \cup Widths,
             NEW d \in Reg, NEW x \in Reg, NEW y \in Reg, NEW w \in Word
      PROVE  /\ I(op, f, d, x, y, w) \in [op : Opcodes \cup {"ZERO"},
                                         funct : Conditions \cup AluOps \cup Widths,
                                         rd : Reg, rs1 : Reg, rs2 : Reg, imm : Word]
             /\ I(op, f, d, x, y, w).op = op /\ I(op, f, d, x, y, w).funct = f
  BY DEF I
<1>3. "ADD" \in AluOps /\ {"Byte", "Half", "Word"} \subseteq Widths
  BY DEF AluOps, Widths
<1>4. {"LOAD", "STORE", "BRANCH", "JALR", "JAL", "OP_IMM", "OP", "AUIPC", "LUI", "HCF"} = Opcodes
  BY DEF Opcodes
<1>5. ASSUME NEW op \in Opcodes, NEW f \in Conditions \cup AluOps \cup Widths,
             NEW d \in Reg, NEW x \in Reg, NEW y \in Reg, NEW w \in Word,
             op \in {"OP", "OP_IMM"} => f \in AluOps, op = "BRANCH" => f \in Conditions,
             op = "LOAD" => f \in Widths, op = "STORE" => f \in {"Byte", "Half", "Word"}
      PROVE  I(op, f, d, x, y, w) \in Inst /\ I(op, f, d, x, y, w).op \in Opcodes
  BY <1>2, <1>5 DEF Inst
<1>. DEFINE Good(i) == i \in Inst /\ i.op \in Opcodes
<1>6. /\ \A f \in AluOps : \A d, x, y \in Reg : Good(I("OP", f, d, x, y, 0))
      /\ \A f \in AluOps : \A d, x \in Reg : \A w \in Word : Good(I("OP_IMM", f, d, x, 0, w))
  BY <1>1, <1>4, <1>5
<1>7. /\ \A f \in Widths : \A d, x \in Reg : \A w \in Word : Good(I("LOAD", f, d, x, 0, w))
      /\ \A f \in {"Byte", "Half", "Word"} : \A x, y \in Reg : \A w \in Word :
            Good(I("STORE", f, 0, x, y, w))
  BY <1>1, <1>3, <1>4, <1>5
<1>8. \A f \in Conditions : \A x, y \in Reg : \A w \in Word : Good(I("BRANCH", f, 0, x, y, w))
  BY <1>1, <1>4, <1>5
<1>9. /\ \A d \in Reg : \A w \in Word : /\ Good(I("LUI", "ADD", d, 0, 0, w))
                                     /\ Good(I("AUIPC", "ADD", d, 0, 0, w))
                                     /\ Good(I("JAL", "ADD", d, 0, 0, w))
      /\ \A d, x \in Reg : \A w \in Word : Good(I("JALR", "ADD", d, x, 0, w))
      /\ Good(I("HCF", "ADD", 0, 0, 0, 0))
  BY <1>1, <1>3, <1>4, <1>5
<1>10. \A d, w : I("LUI", "ADD", d, 0, 0, w).op = "LUI"
  BY DEF I
<1>. QED
  BY <1>6, <1>7, <1>8, <1>9, <1>10

\* A line of a legal source says an instruction, or nothing.
LEMMA MeaningType ==
    ASSUME NEW src \in Sources, Tidy(src), Legal(src), Fits(src),
           NEW k \in DOMAIN src, IsInstr(src[k])
    PROVE  /\ Meaning(src, k) \in Inst /\ Meaning(src, k).op \in Opcodes
           /\ Words(src[k].stmt) = 2 => Meaning(src, k).op = "LUI"
<1>. DEFINE s == src[k].stmt
            r(j) == parse_reg(s.args[j])
            m == Meaning(src, k)
            l == NamedBy(s)
<1>1. /\ s.kind = "instr" /\ IsStatement(s) /\ WellFormed(s)
      /\ Len(s.args) \in Nat /\ DOMAIN s.args = 1 .. Len(s.args)
      /\ \A j \in 1 .. Len(s.args) : IsToken(s.args[j])
  <2>1. WellFormed(s)
    BY Zenon DEF Legal
  <2>2. s.kind = "instr" /\ IsStatement(s)
    BY SourceType DEF IsInstr
  <2>. QED
    BY <2>1, <2>2, ArgsType
<1>2. /\ \A j \in 1 .. Len(s.args) : IsReg(s.args[j]) => r(j) \in Reg
      /\ \A j \in 1 .. Len(s.args) : IsMem(s.args[j]) => parse_reg(s.args[j].base) \in Reg
      /\ \A j \in 1 .. Len(s.args) : s.args[j].t \in {"imm", "mem"} => s.args[j].n \in Int
      /\ \A j \in 1 .. Len(s.args) : strtol(s.args[j]) \in Int
  BY <1>1, RegistersThere, TokenTypes
<1>3. 0 \in Reg /\ 1 \in Reg /\ 0 \in Word /\ \A v \in Int : v % WordSize \in Word
  BY SizeAssumption, AssemblerAssumption, WordSizeType, ModRange DEF Reg, Word
<1>4. ASSUME s.mn \in Naming PROVE LabelAddress(src, l) \in Word /\ LabelAddress(src, l) \in Int
  <2>1. l \in LabelsOf(src)
    BY <1>4, LegalNames
  <2>. QED
    BY <2>1, LabelInMemory DEF Word
<1>5. Address(src, k) \in Int
  BY InstrPlace
<1>7. "ADD" \in AluOps /\ "NE" \in Conditions /\ "EQ" \in Conditions
  BY DEF AluOps, Conditions
<1>. DEFINE to == (LabelAddress(src, l) - Address(src, k)) % WordSize
<1>8. s.mn \in Naming => to \in Word
  <2>1. s.mn \in Naming => LabelAddress(src, l) - Address(src, k) \in Int
    BY <1>4, <1>5
  <2>. QED
    BY <1>3, <2>1
<1>9. CASE s.mn \in RegOps
  <2>1. r(1) \in Reg /\ r(2) \in Reg /\ r(3) \in Reg
    BY <1>1, <1>2, <1>9, OperandKinds
  <2>2. m = I("OP", s.mn, r(1), r(2), r(3), 0)
    BY <1>9, MeaningOf
  <2>3. Words(s) = 1
    BY <1>9 DEF Words, RegOps, AluOps
  <2>. HIDE DEF r, m
  <2>9. m \in Inst /\ m.op \in Opcodes
    BY <1>3, <1>7, <1>9, <2>1, <2>2, <2>3, InstKinds, Zenon DEF RegOps
  <2>. QED
    BY <2>3, <2>9 DEF m
<1>10. CASE s.mn \in ImmOps
  <2>1. r(1) \in Reg /\ r(2) \in Reg /\ s.args[3].n \in Int
    BY <1>1, <1>2, <1>10, OperandKinds
  <2>2. m = I("OP_IMM", WithConstant[s.mn], r(1), r(2), 0, s.args[3].n % WordSize)
    BY <1>10, MeaningOf
  <2>3. Words(s) = 1 /\ WithConstant[s.mn] \in AluOps
    BY <1>10 DEF Words, ImmOps, WithConstant, AluOps
  <2>4. s.args[3].n % WordSize \in Word
    BY <1>3, <2>1
  <2>. HIDE DEF r, m
  <2>9. m \in Inst /\ m.op \in Opcodes
    BY <1>3, <1>7, <2>1, <2>2, <2>3, <2>4, InstKinds, Zenon
  <2>. QED
    BY <2>3, <2>9 DEF m
<1>11. CASE s.mn \in MemOps \cup {"JALR"}
  <2>1. r(1) \in Reg /\ parse_reg(s.args[2].base) \in Reg /\ s.args[2].n \in Int
    <3>1. Len(s.args) = 2 /\ IsReg(s.args[1]) /\ IsMem(s.args[2]) /\ s.args[2].t = "mem"
      BY <1>1, <1>11, OperandKinds DEF IsMem
    <3>. QED
      BY <1>1, <1>2, <3>1
  <2>2. s.args[2].n % WordSize \in Word
    BY <1>3, <2>1
  <2>3. Words(s) = 1
    BY <1>11 DEF Words, MemOps
  <2>. DEFINE base == parse_reg(s.args[2].base)
              off == s.args[2].n % WordSize
  <2>4. /\ s.mn \in DOMAIN Loads => m = I("LOAD", Loads[s.mn], r(1), base, 0, off)
        /\ s.mn \in DOMAIN Stores => m = I("STORE", Stores[s.mn], 0, base, r(1), off)
        /\ s.mn = "JALR" => m = I("JALR", "ADD", r(1), base, 0, off)
    <3>1. s.mn \in DOMAIN Loads => m = I("LOAD", Loads[s.mn], r(1), base, 0, off)
      BY MeaningOf
    <3>2. s.mn \in DOMAIN Stores => m = I("STORE", Stores[s.mn], 0, base, r(1), off)
      BY MeaningOf
    <3>3. s.mn = "JALR" => m = I("JALR", "ADD", r(1), base, 0, off)
      BY MeaningOf
    <3>. QED
      BY <3>1, <3>2, <3>3
  <2>5. /\ s.mn \in DOMAIN Loads \/ s.mn \in DOMAIN Stores \/ s.mn = "JALR"
        /\ \A x \in DOMAIN Loads : Loads[x] \in Widths
        /\ \A x \in DOMAIN Stores : Stores[x] \in {"Byte", "Half", "Word"}
        /\ {"Byte", "Half", "Word"} \subseteq Widths
    BY <1>11 DEF MemOps, Loads, Stores, Widths
  <2>. HIDE DEF r, m, base, off
  <2>6. CASE s.mn \in DOMAIN Loads
    <3>0. /\ m = I("LOAD", Loads[s.mn], r(1), base, 0, off) /\ Loads[s.mn] \in Widths
          /\ r(1) \in Reg /\ base \in Reg /\ off \in Word
      BY <2>1, <2>2, <2>4, <2>5, <2>6 DEF base, off
    <3>1. m \in Inst /\ m.op \in Opcodes
      BY <3>0, InstKinds, Zenon
    <3>. QED
      BY <2>3, <2>6, <3>1 DEF m
  <2>7. CASE s.mn \in DOMAIN Stores
    <3>0. /\ m = I("STORE", Stores[s.mn], 0, base, r(1), off) /\ Stores[s.mn] \in {"Byte", "Half", "Word"}
          /\ r(1) \in Reg /\ base \in Reg /\ off \in Word
      BY <2>1, <2>2, <2>4, <2>5, <2>7 DEF base, off
    <3>1. m \in Inst /\ m.op \in Opcodes
      BY <3>0, InstKinds, Zenon
    <3>. QED
      BY <2>3, <2>7, <3>1 DEF m
  <2>8. CASE s.mn = "JALR"
    <3>0. m = I("JALR", "ADD", r(1), base, 0, off) /\ r(1) \in Reg /\ base \in Reg /\ off \in Word
      BY <2>1, <2>2, <2>4, <2>8 DEF base, off
    <3>1. m \in Inst /\ m.op \in Opcodes
      BY <3>0, InstKinds, Zenon
    <3>. QED
      BY <2>3, <2>8, <3>1 DEF m
  <2>. QED
    BY <2>5, <2>6, <2>7, <2>8
<1>12. CASE s.mn \in BranchOps
  <2>1. r(1) \in Reg /\ r(2) \in Reg
    BY <1>1, <1>2, <1>12, OperandKinds
  <2>2. m = I("BRANCH", Tests[s.mn], 0, r(1), r(2), to)
    BY <1>12, MeaningOf
  <2>3. Words(s) = 1 /\ Tests[s.mn] \in Conditions /\ s.mn \in Naming
    BY <1>12 DEF Words, BranchOps, Tests, Conditions, Naming
  <2>. HIDE DEF r, m, to
  <2>9. m \in Inst /\ m.op \in Opcodes
    BY <1>3, <1>8, <2>1, <2>2, <2>3, InstKinds, Zenon
  <2>. QED
    BY <2>3, <2>9 DEF m
<1>13. CASE s.mn \in UpperOps
  <2>1. r(1) \in Reg /\ s.args[2].n \in Int
    BY <1>1, <1>2, <1>13, OperandKinds
  <2>2. m = I(s.mn, "ADD", r(1), 0, 0, (s.args[2].n * LowSize) % WordSize)
    BY <1>13, MeaningOf
  <2>3. Words(s) = 1 /\ s.mn \in {"LUI", "AUIPC"}
    BY <1>13 DEF Words, UpperOps
  <2>4. (s.args[2].n * LowSize) % WordSize \in Word
    <3>1. s.args[2].n * LowSize \in Int
      BY <2>1, LowSizeType
    <3>. QED
      BY <1>3, <3>1
  <2>. HIDE DEF r, m
  <2>9. m \in Inst /\ m.op \in Opcodes
    BY <1>3, <1>7, <2>1, <2>2, <2>3, <2>4, InstKinds, Zenon
  <2>. QED
    BY <2>3, <2>9 DEF m
<1>14. CASE s.mn \in Pseudos
  <2>1. /\ s.mn = "LI" => m = I("LUI", "ADD", r(1), 0, 0, strtol(s.args[2]) % WordSize)
        /\ s.mn = "LA" => m = I("LUI", "ADD", r(1), 0, 0, LabelAddress(src, l))
        /\ s.mn = "MV" => m = I("OP_IMM", "ADD", r(1), r(2), 0, 0)
        /\ s.mn = "J" => m = I("JAL", "ADD", 0, 0, 0, to)
        /\ s.mn = "RET" => m = I("JALR", "ADD", 0, 1, 0, 0)
        /\ s.mn = "BNEZ" => m = I("BRANCH", "NE", 0, r(1), 0, to)
        /\ s.mn = "BEQZ" => m = I("BRANCH", "EQ", 0, r(1), 0, to)
    <3>1. s.mn = "LI" => m = I("LUI", "ADD", r(1), 0, 0, strtol(s.args[2]) % WordSize)
      BY MeaningOf
    <3>2. s.mn = "LA" => m = I("LUI", "ADD", r(1), 0, 0, LabelAddress(src, l))
      BY MeaningOf
    <3>3. s.mn = "MV" => m = I("OP_IMM", "ADD", r(1), r(2), 0, 0)
      BY MeaningOf
    <3>4. s.mn = "J" => m = I("JAL", "ADD", 0, 0, 0, to)
      BY MeaningOf
    <3>5. s.mn = "RET" => m = I("JALR", "ADD", 0, 1, 0, 0)
      BY MeaningOf
    <3>6. s.mn = "BNEZ" => m = I("BRANCH", "NE", 0, r(1), 0, to)
      BY MeaningOf
    <3>7. s.mn = "BEQZ" => m = I("BRANCH", "EQ", 0, r(1), 0, to)
      BY MeaningOf
    <3>. QED
      BY <3>1, <3>2, <3>3, <3>4, <3>5, <3>6, <3>7
  <2>2. /\ s.mn \in {"LI", "LA", "MV", "BNEZ", "BEQZ"} => Len(s.args) = 2 /\ IsReg(s.args[1])
        /\ s.mn = "MV" => IsReg(s.args[2])
    BY <1>1 DEF WellFormed, RegOps, AluOps, ImmOps, MemOps, BranchOps, UpperOps
  <2>3. /\ s.mn \in {"LI", "LA", "MV", "BNEZ", "BEQZ"} => r(1) \in Reg
        /\ s.mn = "MV" => r(2) \in Reg
        /\ s.mn = "LI" => strtol(s.args[2]) % WordSize \in Word
    BY <1>1, <1>2, <1>3, <2>2
  <2>4. s.mn \in {"LA", "J", "BNEZ", "BEQZ"} => s.mn \in Naming
    BY DEF Naming
  <2>5. Words(s) = 2 => s.mn \in {"LI", "LA"}
    BY DEF Words
  <2>. HIDE DEF r, m, to
  <2>7. CASE s.mn = "LI"
    <3>. DEFINE v == strtol(s.args[2]) % WordSize
    <3>0. m = I("LUI", "ADD", r(1), 0, 0, v) /\ r(1) \in Reg /\ v \in Word
      BY <2>1, <2>3, <2>7
    <3>. HIDE DEF v
    <3>1. m \in Inst /\ m.op \in Opcodes /\ m.op = "LUI"
      BY <3>0, InstKinds, Zenon
    <3>. QED
      BY <3>1 DEF m
  <2>8. CASE s.mn = "LA"
    <3>. DEFINE v == LabelAddress(src, l)
    <3>0. m = I("LUI", "ADD", r(1), 0, 0, v) /\ r(1) \in Reg /\ v \in Word
      BY <1>4, <2>1, <2>3, <2>4, <2>8
    <3>. HIDE DEF v
    <3>1. m \in Inst /\ m.op \in Opcodes /\ m.op = "LUI"
      BY <3>0, InstKinds, Zenon
    <3>. QED
      BY <3>1 DEF m
  <2>9. CASE s.mn = "MV"
    <3>0. m = I("OP_IMM", "ADD", r(1), r(2), 0, 0) /\ r(1) \in Reg /\ r(2) \in Reg
      BY <2>1, <2>3, <2>9
    <3>1. m \in Inst /\ m.op \in Opcodes
      BY <1>3, <1>7, <3>0, InstKinds, Zenon
    <3>. QED
      BY <2>5, <2>9, <3>1 DEF m
  <2>10. CASE s.mn = "J"
    <3>0. m = I("JAL", "ADD", 0, 0, 0, to) /\ to \in Word
      BY <1>8, <2>1, <2>4, <2>10
    <3>1. m \in Inst /\ m.op \in Opcodes
      BY <1>3, <3>0, InstKinds, Zenon
    <3>. QED
      BY <2>5, <2>10, <3>1 DEF m
  <2>11. CASE s.mn = "RET"
    <3>0. m = I("JALR", "ADD", 0, 1, 0, 0)
      BY <2>1, <2>11
    <3>1. m \in Inst /\ m.op \in Opcodes
      BY <1>3, <3>0, InstKinds, Zenon
    <3>. QED
      BY <2>5, <2>11, <3>1 DEF m
  <2>12. CASE s.mn = "BNEZ"
    <3>0. m = I("BRANCH", "NE", 0, r(1), 0, to) /\ r(1) \in Reg /\ to \in Word
      BY <1>8, <2>1, <2>3, <2>4, <2>12
    <3>1. m \in Inst /\ m.op \in Opcodes
      BY <1>3, <1>7, <3>0, InstKinds, Zenon
    <3>. QED
      BY <2>5, <2>12, <3>1 DEF m
  <2>13. CASE s.mn = "BEQZ"
    <3>0. m = I("BRANCH", "EQ", 0, r(1), 0, to) /\ r(1) \in Reg /\ to \in Word
      BY <1>8, <2>1, <2>3, <2>4, <2>13
    <3>1. m \in Inst /\ m.op \in Opcodes
      BY <1>3, <1>7, <3>0, InstKinds, Zenon
    <3>. QED
      BY <2>5, <2>13, <3>1 DEF m
  <2>. QED
    BY <1>14, <2>7, <2>8, <2>9, <2>10, <2>11, <2>12, <2>13 DEF Pseudos
<1>15. CASE s.mn = "JAL"
  <2>1. m = I("JAL", "ADD", IF Len(s.args) = 2 THEN r(1) ELSE 1, 0, 0, to)
    BY <1>15, MeaningOf
  <2>2. Len(s.args) = 2 => r(1) \in Reg
    <3>1. Len(s.args) = 2 => IsReg(s.args[1])
      BY <1>1, <1>15 DEF WellFormed, RegOps, AluOps, ImmOps, MemOps, BranchOps, UpperOps
    <3>. QED
      BY <1>1, <1>2, <3>1
  <2>3. s.mn \in Naming /\ Words(s) = 1
    BY <1>15 DEF Naming, Words
  <2>. HIDE DEF r, m, to
  <2>9. m \in Inst /\ m.op \in Opcodes
    BY <1>3, <1>7, <1>8, <2>1, <2>2, <2>3, InstKinds, Zenon
  <2>. QED
    BY <2>3, <2>9 DEF m
<1>16. CASE s.mn = "HCF"
  <2>1. m = I("HCF", "ADD", 0, 0, 0, 0) /\ Words(s) = 1
    BY <1>16, MeaningOf DEF Words
  <2>. HIDE DEF m
  <2>9. m \in Inst /\ m.op \in Opcodes
    BY <1>3, <1>7, <2>1, InstKinds, Zenon
  <2>. QED
    BY <2>1, <2>9 DEF m
<1>17. CASE s.mn \notin (instr_type \ {"UNIMPL"}) \cup Pseudos
  <2>1. m = I("LUI", "ADD", 0, 0, 0, 0)
    BY <1>17, MeaningOf DEF Skip
  <2>2. Words(s) = 1
    BY <1>17 DEF Words, Pseudos
  <2>. HIDE DEF m
  <2>9. m \in Inst /\ m.op \in Opcodes
    BY <1>3, <1>7, <2>1, <2>2, InstKinds, Zenon
  <2>. QED
    BY <2>2, <2>9 DEF m
<1>. QED
  BY <1>9, <1>10, <1>11, <1>12, <1>13, <1>14, <1>15, <1>16, <1>17 DEF instr_type
-----------------------------------------------------------------------------
(* The data memory. *)

\* What no line read so far has been given is as it was.
Untouched ==
    \A x \in Addr :
        (\A k \in Read : ~(Address(source, k) <= x /\ x < Address(source, k) + Size(source[k])))
            => mem[x] = 0

\* A line writes its own bytes only.
LEMMA UntouchedStep ==
    ASSUME Inv, Tidy(source), Untouched, AsmNext, status' \in {"parse", "normalize"}
    PROVE  Untouched'
<1>. DEFINE Clear(x, k) == ~(Address(source, k) <= x /\ x < Address(source, k) + Size(source[k]))
<1>1. source' = source
  BY DEF AsmNext, Refuse, Blank, Section, parse_data_element, Instruction, EndOfFile,
         normalize_labels
<1>2. SUFFICES ASSUME NEW x \in Addr, \A k \in Read' : Clear(x, k) PROVE mem'[x] = 0
  BY <1>1 DEF Untouched, Addr
<1>3. (\A k \in Read : Clear(x, k)) => mem[x] = 0
  BY DEF Untouched
<1>4. CASE Refuse \/ EndOfFile \/ normalize_labels
  <2>1. line' = line /\ mem' = mem
    BY <1>4 DEF Refuse, EndOfFile, normalize_labels
  <2>2. Read' = Read
    BY <2>1 DEF Read
  <2>. HIDE DEF Clear
  <2>. QED
    BY <1>2, <1>3, <2>1, <2>2
<1>5. CASE Blank \/ Section \/ parse_data_element \/ Instruction
  <2>1. /\ status = "parse" /\ line <= Len(source) /\ line' = line + 1
    BY <1>5 DEF Blank, Section, parse_data_element, Instruction, Accepted
  <2>2. TypeOK /\ Standing
    BY <2>1 DEF Inv
  <2>3. /\ Read' = Read \cup {line} /\ line \in 1 .. Len(source) /\ source \in Sources
    BY <2>1, <2>2, ReadStep DEF TypeOK
  <2>4. Address(source, line) = memoff /\ memoff \in Nat /\ Size(source[line]) \in Nat
    BY <2>2, <2>3, PlaceType, SizeType DEF Standing, AtPlace, TypeOK
  <2>5. mem[x] = 0 /\ Clear(x, line)
    <3>. HIDE DEF Clear
    <3>. QED
      BY <1>2, <1>3, <2>3
  <2>6. mem'[x] = mem[x]
    <3>1. CASE Blank \/ Section
      BY <3>1 DEF Blank, Section
    <3>2. CASE parse_data_element
      <4>1. Size(source[line]) = ElementSize(stmt.dir) * Len(stmt.args)
        BY <3>2 DEF parse_data_element, Size, IsInstr, IsData, stmt
      <4>2. mem'[x] = mem[x] \/ (x >= memoff /\ x < memoff + Size(source[line]))
        BY <3>2, <4>1 DEF parse_data_element
      <4>. QED
        BY <2>4, <2>5, <4>2
    <3>3. CASE Instruction
      <4>1. Size(source[line]) = 4 * Count(stmt)
        BY <3>3 DEF Instruction, Size, IsInstr, Words, Count, stmt
      <4>2. mem'[x] = mem[x] \/ (x >= memoff /\ x < memoff + Size(source[line]))
        BY <3>3, <4>1 DEF Instruction
      <4>. QED
        BY <2>4, <2>5, <4>2
    <3>. QED
      BY <1>5, <3>1, <3>2, <3>3
  <2>. QED
    BY <2>5, <2>6
<1>. QED
  BY <1>4, <1>5 DEF AsmNext

\* The cells of line k: places it covers, and bytes.
LEMMA CellType ==
    ASSUME NEW src \in Sources, NEW k \in DOMAIN src, NEW c \in CellsOf(src, k)
    PROVE  c.byte \in Byte
<1>. DEFINE s == src[k].stmt
            width == ElementSize(s.dir)
<1>1. k \in 1 .. Len(src) /\ IsStatement(s)
  BY SourceType
<1>2. PICK j \in 0 .. Size(src[k]) - 1 :
        c.byte = IF IsInstr(src[k]) THEN CC
                 ELSE ByteOf(strtol(s.args[j \div width + 1]) % WordSize, j % width)
  BY DEF CellsOf
<1>3. CASE IsInstr(src[k])
  BY <1>2, <1>3, FillingType
<1>4. CASE ~IsInstr(src[k])
  <2>1. IsData(src[k])
    BY <1>2, <1>4 DEF Size
  <2>2. width \in {1, 2, 4}
    BY <2>1 DEF IsData, ElementSize
  <2>. DEFINE R == {s.args[i] : i \in DOMAIN s.args}
  <2>3. s.args \in Seq(R) /\ \A i \in DOMAIN s.args : IsToken(s.args[i])
    BY <1>1, <2>1 DEF IsStatement, IsData
  <2>4. Len(s.args) \in Nat /\ DOMAIN s.args = 1 .. Len(s.args)
    <3>. HIDE DEF R
    <3>. QED
      BY <2>3
  <2>5. Size(src[k]) = width * Len(s.args)
    BY <1>4, <2>1 DEF Size
  <2>6. j \div width + 1 \in 1 .. Len(s.args)
    <3>. DEFINE n == Len(s.args)
    <3>0. n \in Nat /\ j \in 0 .. width * n - 1
      BY <1>2, <2>4, <2>5
    <3>. HIDE DEF n, width
    <3>1. CASE width = 1
      BY <3>0, <3>1 DEF n
    <3>2. CASE width = 2
      BY <3>0, <3>2 DEF n
    <3>3. CASE width = 4
      BY <3>0, <3>3 DEF n
    <3>. QED
      BY <2>2, <3>1, <3>2, <3>3
  <2>7. strtol(s.args[j \div width + 1]) \in Int
    BY <2>3, <2>4, <2>6, TokenTypes
  <2>8. strtol(s.args[j \div width + 1]) % WordSize \in Word
    BY <2>7, WordSizeType, ModRange DEF Word
  <2>. QED
    BY <1>2, <1>4, <2>8, ByteType
<1>. QED
  BY <1>3, <1>4

\* The memory a source describes is a memory.
LEMMA SourceMemoryType ==
    ASSUME NEW src \in Sources
    PROVE  SourceMemory(src) \in Memories
<1>. DEFINE cells == UNION {CellsOf(src, k) : k \in DOMAIN src}
            at(x) == IF \E c \in cells : c.at = x THEN (CHOOSE c \in cells : c.at = x).byte ELSE 0
<1>1. \A c \in cells : c.byte \in Byte
  BY CellType
<1>2. 0 \in Byte
  BY SizeAssumption DEF Byte
<1>. HIDE DEF cells
<1>3. \A x : at(x) \in Byte
  BY <1>1, <1>2
<1>4. SourceMemory(src) = [x \in Addr |-> at(x)]
  BY DEF SourceMemory, cells
<1>. HIDE DEF at
<1>. QED
  BY <1>3, <1>4 DEF Memories

\* Behind the last line the memory holds what the source describes.
LEMMA LoadedMemory ==
    ASSUME Inv, Tidy(source), status = "normalize", Untouched
    PROVE  mem = SourceMemory(source)
<1>. DEFINE cells == UNION {CellsOf(source, k) : k \in DOMAIN source}
            at(x) == IF \E c \in cells : c.at = x THEN (CHOOSE c \in cells : c.at = x).byte ELSE 0
<1>1. TypeOK /\ Standing /\ line = Len(source) + 1
  BY DEF Inv
<1>2. source \in Sources /\ Len(source) \in Nat /\ DOMAIN source = 1 .. Len(source)
  BY <1>1, SourceType DEF TypeOK
<1>3. Read = DOMAIN source
  BY <1>1, <1>2 DEF Read
<1>4. ASSUME NEW c \in cells PROVE c.byte = mem[c.at]
  <2>1. PICK k \in DOMAIN source : c \in CellsOf(source, k)
    OBVIOUS
  <2>. DEFINE s == source[k].stmt
              a == Address(source, k)
              width == ElementSize(s.dir)
  <2>2. PICK j \in 0 .. Size(source[k]) - 1 :
          c = [at |-> a + j,
               byte |-> IF IsInstr(source[k]) THEN CC
                        ELSE ByteOf(strtol(s.args[j \div width + 1]) % WordSize, j % width)]
    BY <2>1 DEF CellsOf
  <2>3. a \in Nat /\ Size(source[k]) \in Nat
    BY <1>2, PlaceType, SizeType
  <2>4. CASE IsInstr(source[k])
    <3>1. \A x \in a .. a + Size(source[k]) - 1 : mem[x] = CC
      BY <1>1, <1>3, <2>4 DEF Standing, InMemory
    <3>2. a + j \in a .. a + Size(source[k]) - 1
      <4>. HIDE DEF a
      <4>. QED
        BY <2>2, <2>3
    <3>. QED
      BY <2>2, <2>4, <3>1, <3>2
  <2>5. CASE ~IsInstr(source[k])
    <3>1. IsData(source[k])
      BY <2>2, <2>5 DEF Size
    <3>2. mem[a + j] = ByteOf(strtol(s.args[j \div width + 1]) % WordSize, j % width)
      BY <1>1, <1>3, <2>2, <3>1 DEF Standing, InMemory
    <3>. QED
      BY <2>2, <2>5, <3>2
  <2>. QED
    BY <2>4, <2>5
<1>5. ASSUME NEW x \in Addr, \A c \in cells : c.at # x PROVE mem[x] = 0
  <2>1. ASSUME NEW k \in Read, Address(source, k) <= x, x < Address(source, k) + Size(source[k])
        PROVE  FALSE
    <3>. DEFINE j == x - Address(source, k)
    <3>1. j \in 0 .. Size(source[k]) - 1 /\ Address(source, k) + j = x
      <4>0. k \in 1 .. Len(source) /\ x \in Int
        BY <1>2, <1>3 DEF Addr
      <4>1. Address(source, k) \in Nat /\ Size(source[k]) \in Nat /\ x \in Int
        BY <1>2, <4>0, PlaceType, SizeType
      <4>. QED
        BY <2>1, <4>1
    <3>. HIDE DEF j
    <3>2. \E c \in CellsOf(source, k) : c.at = x
      <4>. DEFINE s == source[k].stmt
                  width == ElementSize(s.dir)
                  cell == [at |-> Address(source, k) + j,
                           byte |-> IF IsInstr(source[k]) THEN CC
                                    ELSE ByteOf(strtol(s.args[j \div width + 1]) % WordSize, j % width)]
      <4>1. cell \in CellsOf(source, k)
        BY <3>1 DEF CellsOf
      <4>2. cell.at = x
        BY <3>1
      <4>. HIDE DEF cell
      <4>. QED
        BY <4>1, <4>2
    <3>. QED
      BY <1>3, <1>5, <3>2
  <2>. QED
    BY <2>1 DEF Untouched
<1>. HIDE DEF cells
<1>6. \A x \in Addr : at(x) = mem[x]
  BY <1>4, <1>5
<1>7. SourceMemory(source) = [x \in Addr |-> at(x)]
  BY DEF SourceMemory, cells
<1>8. mem = [x \in Addr |-> mem[x]]
  BY <1>1 DEF TypeOK, Memories
<1>. HIDE DEF at
<1>. QED
  BY <1>6, <1>7, <1>8
-----------------------------------------------------------------------------
(* The CPU, and the machine the source is read for. *)

\* The CPU computes with the words, addresses and byte lanes of the loader.
LEMMA CpuVocabulary ==
    /\ \A a, b : Cpu!Add(a, b) = Add(a, b)
    /\ \A u, a, b : Cpu!BrLT(u, a, b) <=> BrLT(u, a, b)
    /\ \A m, a, w : Cpu!ReadLanes(m, a, w) = ReadLanes(m, a, w)
    /\ \A m, a, w, d : Cpu!WriteLanes(m, a, w, d) = WriteLanes(m, a, w, d)
    /\ \A w : Cpu!Lanes(w) = Lanes(w)
<1>1. Cpu!WordSize = WordSize /\ Cpu!Addr = Addr
  BY DEF Cpu!WordSize, WordSize, Cpu!Addr, Addr
<1>2. \A v, n : Cpu!Signed(v, n) = Signed(v, n)
  BY DEF Cpu!Signed, Signed
<1>3. \A a, b : Cpu!Add(a, b) = Add(a, b)
  BY <1>1 DEF Cpu!Add, Add
<1>4. \A w : Cpu!Lanes(w) = Lanes(w)
  BY DEF Cpu!Lanes, Lanes
<1>5. \A u, a, b : Cpu!BrLT(u, a, b) <=> BrLT(u, a, b)
  BY <1>1, <1>2 DEF Cpu!BrLT, BrLT
<1>6. \A m, a, w : Cpu!ReadLanes(m, a, w) = ReadLanes(m, a, w)
  BY <1>1, <1>2 DEF Cpu!ReadLanes, ReadLanes
<1>7. \A d, k : Cpu!ByteOf(d, k) = ByteOf(d, k)
  BY DEF Cpu!ByteOf, ByteOf
<1>8. \A m, a, w, d : Cpu!WriteLanes(m, a, w, d) = WriteLanes(m, a, w, d)
  BY <1>1, <1>4, <1>7 DEF Cpu!WriteLanes, WriteLanes
<1>. QED
  BY <1>3, <1>4, <1>5, <1>6, <1>8

\* So does the machine the source is read for.
LEMMA AbstractVocabulary ==
    /\ \A a, b : Abstract!Add(a, b) = Add(a, b)
    /\ \A a : Abstract!Trunc(a) = Trunc(a)
    /\ \A a : Abstract!Wrap(a) = a % WordSize
    /\ Abstract!NextInst = Add(pc, 4)
    /\ \A a, b : Abstract!BrEq(a, b) <=> a = b
    /\ \A u, a, b : Abstract!BrLT(u, a, b) <=> BrLT(u, a, b)
    /\ \A m, a, w : Abstract!ReadLanes(m, a, w) = ReadLanes(m, a, w)
    /\ \A m, a, w, d : Abstract!WriteLanes(m, a, w, d) = WriteLanes(m, a, w, d)
    /\ Abstract!Reg = Reg
<1>1. Abstract!WordSize = WordSize /\ Abstract!Addr = Addr /\ Abstract!Reg = Reg
  BY DEF Abstract!WordSize, WordSize, Abstract!Addr, Addr, Abstract!Reg, Reg
<1>2. \A v, n : Abstract!Signed(v, n) = Signed(v, n)
  BY DEF Abstract!Signed, Signed
<1>3. \A a, b : Abstract!Add(a, b) = Add(a, b)
  BY <1>1 DEF Abstract!Add, Add
<1>4. /\ \A a : Abstract!Trunc(a) = Trunc(a)
      /\ \A a : Abstract!Wrap(a) = a % WordSize
      /\ Abstract!NextInst = Add(pc, 4)
  BY DEF Abstract!Trunc, Trunc, Abstract!Wrap, Abstract!NextInst, Add
<1>5. \A w : Abstract!Lanes(w) = Lanes(w)
  BY DEF Abstract!Lanes, Lanes
<1>6. /\ \A a, b : Abstract!BrEq(a, b) <=> a = b
      /\ \A u, a, b : Abstract!BrLT(u, a, b) <=> BrLT(u, a, b)
  BY <1>1, <1>2 DEF Abstract!BrEq, Abstract!BrLT, BrLT
<1>7. \A m, a, w : Abstract!ReadLanes(m, a, w) = ReadLanes(m, a, w)
  BY <1>1, <1>2 DEF Abstract!ReadLanes, ReadLanes
<1>8. \A d, k : Abstract!ByteOf(d, k) = ByteOf(d, k)
  BY DEF Abstract!ByteOf, ByteOf
<1>9. \A m, a, w, d : Abstract!WriteLanes(m, a, w, d) = WriteLanes(m, a, w, d)
  BY <1>1, <1>5, <1>8 DEF Abstract!WriteLanes, WriteLanes
<1>. QED
  BY <1>1, <1>3, <1>4, <1>6, <1>7, <1>9

\* What the CPU does with an instruction, by its kind.
LEMMA CpuRegisters ==
    ASSUME NEW i
    PROVE  /\ i.op = "OP" /\ i.funct # "SLTU" =>
                 Cpu!NextRf(i) = [rf EXCEPT ![i.rd] = ALU(i.funct, rf[i.rs1], rf[i.rs2])]
           /\ i.op = "OP_IMM" =>
                 Cpu!NextRf(i) = [rf EXCEPT ![i.rd] = ALU(i.funct, rf[i.rs1], i.imm)]
           /\ i.op = "AUIPC" => Cpu!NextRf(i) = [rf EXCEPT ![i.rd] = Add(pc, i.imm)]
           /\ i.op = "LUI" => Cpu!NextRf(i) = [rf EXCEPT ![i.rd] = i.imm]
           /\ i.op \in {"JAL", "JALR"} => Cpu!NextRf(i) = [rf EXCEPT ![i.rd] = Add(pc, 4)]
           /\ i.op = "LOAD" =>
                 Cpu!NextRf(i) =
                     [rf EXCEPT ![i.rd] = ReadLanes(mem, Add(rf[i.rs1], i.imm), i.funct)]
           /\ i.op \in {"STORE", "BRANCH", "HCF", "ZERO"} => Cpu!NextRf(i) = rf
<1>1. i.op = "OP" /\ i.funct # "SLTU" => Cpu!Computed(i) = ALU(i.funct, rf[i.rs1], rf[i.rs2])
  BY DEF Cpu!Computed
<1>2. i.op = "OP_IMM" => Cpu!Computed(i) = ALU(i.funct, rf[i.rs1], i.imm)
  BY DEF Cpu!Computed
<1>3. Cpu!memRead(i) = ReadLanes(mem, Add(rf[i.rs1], i.imm), i.funct)
  BY CpuVocabulary DEF Cpu!memRead, Cpu!memReadReqHandler, Cpu!MemReadReqPacket, Cpu!DataAddr
<1>4. Cpu!Add(pc, 4) = Add(pc, 4) /\ Cpu!Add(pc, i.imm) = Add(pc, i.imm)
  BY CpuVocabulary
<1>. QED
  BY <1>1, <1>2, <1>3, <1>4 DEF Cpu!NextRf

\* What the CPU leaves in the data memory.
LEMMA CpuMemory ==
    ASSUME NEW i
    PROVE  /\ i.op = "STORE" =>
                 Cpu!NextMem(i) = WriteLanes(mem, Add(rf[i.rs1], i.imm), i.funct, rf[i.rs2])
           /\ i.op # "STORE" => Cpu!NextMem(i) = mem
<1>1. Cpu!memWrite(i) = WriteLanes(mem, Add(rf[i.rs1], i.imm), i.funct, rf[i.rs2])
  BY CpuVocabulary DEF Cpu!memWrite, Cpu!memWriteReqHandler, Cpu!MemWriteReqPacket, Cpu!DataAddr
<1>. QED
  BY <1>1 DEF Cpu!NextMem

\* The condition of a branch on two words.
Condition(funct, a, b) ==
    \/ funct = "EQ"  /\ a = b
    \/ funct = "NE"  /\ a # b
    \/ funct = "LT"  /\ BrLT(FALSE, a, b)
    \/ funct = "GE"  /\ ~BrLT(FALSE, a, b)
    \/ funct = "LTU" /\ BrLT(TRUE, a, b)
    \/ funct = "GEU" /\ ~BrLT(TRUE, a, b)

\* Where the CPU goes.
LEMMA CpuPc ==
    ASSUME NEW i, pc \in Nat, pc % 4 = 0
    PROVE  /\ i.op = "JAL" => Cpu!NextPc(i) = Add(pc, i.imm)
           /\ i.op = "BRANCH" =>
                 Cpu!NextPc(i) = IF Condition(i.funct, rf[i.rs1], rf[i.rs2]) THEN Add(pc, i.imm)
                                 ELSE Add(pc, 4)
           /\ i.op = "JALR" => Cpu!NextPc(i) = Add(Cpu!NextRf(i)[i.rs1], i.imm)
           /\ i.op \notin {"JAL", "BRANCH", "JALR"} => Cpu!NextPc(i) = Add(pc, 4)
<1>1. Cpu!Slot = pc
  BY DEF Cpu!Slot
<1>2. Cpu!Target(i) = Add(pc, i.imm)
  BY <1>1, CpuVocabulary DEF Cpu!Target
<1>3. Cpu!Taken(i) <=> Condition(i.funct, rf[i.rs1], rf[i.rs2])
  BY CpuVocabulary DEF Cpu!Taken, Condition
<1>4. \A a, b : Cpu!Add(a, b) = Add(a, b)
  BY CpuVocabulary
<1>. QED
  BY <1>2, <1>3, <1>4 DEF Cpu!NextPc
-----------------------------------------------------------------------------
(* Steps of the machine the source is read for. *)

\* Register d gets the value v.
SetsTo(d, v) == RegsMapped' = IF d = 0 THEN RegsMapped ELSE [RegsMapped EXCEPT ![d] = v]

\* One instruction of the machine the source is read for.
LEMMA AbstractStep ==
    ASSUME NEW m, Abstract!inst = m, status = "loaded", source' = source,
           status' = (IF m.op = "HCF" THEN "halted" ELSE status),
           mem' = (IF m.op = "STORE"
                   THEN WriteLanes(mem, Trunc(Add(RegsMapped[m.rs1], m.imm)), m.funct,
                                   RegsMapped[m.rs2])
                   ELSE mem),
           m.op \in Opcodes,
           m.op = "OP" => SetsTo(m.rd, ALU(m.funct, RegsMapped[m.rs1], RegsMapped[m.rs2])),
           m.op = "OP_IMM" => SetsTo(m.rd, ALU(m.funct, RegsMapped[m.rs1], m.imm)),
           m.op = "AUIPC" => SetsTo(m.rd, Add(pc, m.imm)),
           m.op = "LUI" => SetsTo(m.rd, m.imm),
           m.op \in {"JAL", "JALR"} => SetsTo(m.rd, Add(pc, 4)),
           m.op = "LOAD" =>
               SetsTo(m.rd, ReadLanes(mem, Trunc(Add(RegsMapped[m.rs1], m.imm)), m.funct)),
           m.op \in {"STORE", "BRANCH", "HCF"} => RegsMapped' = RegsMapped,
           m.op = "JAL" => pc' = Add(pc, m.imm) % WordSize,
           m.op = "JALR" => pc' = Add(RegsMapped[m.rs1], m.imm) % WordSize,
           m.op = "BRANCH" =>
               pc' = IF Condition(m.funct, RegsMapped[m.rs1], RegsMapped[m.rs2])
                     THEN Add(pc, m.imm) % WordSize ELSE Add(pc, 4),
           m.op \notin {"JAL", "JALR", "BRANCH"} => pc' = Add(pc, 4)
    PROVE  Abstract!Next
<1>. DEFINE memory == IF status \in {"loaded", "halted", "aborted"} THEN mem
                      ELSE Reading[source].data
<1>1. memory = mem /\ memory' = mem'
  OBVIOUS
<1>2. /\ Abstract!src1 = RegsMapped[m.rs1] /\ Abstract!src2 = RegsMapped[m.rs2]
      /\ Abstract!NextInst = Add(pc, 4)
  BY AbstractVocabulary DEF Abstract!src1, Abstract!src2
<1>3. \A v : SetsTo(m.rd, v) => Abstract!SetReg(v)
  BY DEF Abstract!SetReg, SetsTo
<1>4. Abstract!EffectiveAddr = Trunc(Add(RegsMapped[m.rs1], m.imm))
  BY <1>2, AbstractVocabulary DEF Abstract!EffectiveAddr
<1>5. Abstract!Holds <=> Condition(m.funct, RegsMapped[m.rs1], RegsMapped[m.rs2])
  BY <1>2, AbstractVocabulary DEF Abstract!Holds, Condition
<1>6. \A a, b : Abstract!Wrap(Abstract!Add(a, b)) = Add(a, b) % WordSize
  BY AbstractVocabulary
<1>7. /\ (status = "halted") = FALSE
      /\ m.op # "HCF" => (status' = "halted") = FALSE
      /\ m.op = "HCF" => (status' = "halted") = TRUE
  OBVIOUS
<1>8. CASE m.op \in {"OP", "OP_IMM", "AUIPC", "LUI"}
  <2>1. Abstract!Computed = CASE m.op = "OP" -> ALU(m.funct, RegsMapped[m.rs1], RegsMapped[m.rs2])
                              [] m.op = "OP_IMM" -> ALU(m.funct, RegsMapped[m.rs1], m.imm)
                              [] m.op = "AUIPC" -> Add(pc, m.imm)
                              [] OTHER -> m.imm
    BY <1>2, AbstractVocabulary DEF Abstract!Computed
  <2>2. Abstract!SetReg(Abstract!Computed)
    BY <1>3, <1>8, <2>1
  <2>. QED
    BY <1>1, <1>2, <1>7, <1>8, <2>2 DEF Abstract!Next, Abstract!Compute
<1>9. CASE m.op = "LOAD"
  <2>1. Abstract!ReadLanes(mem, Abstract!EffectiveAddr, m.funct)
            = ReadLanes(mem, Trunc(Add(RegsMapped[m.rs1], m.imm)), m.funct)
    BY <1>4, AbstractVocabulary
  <2>. QED
    BY <1>1, <1>2, <1>3, <1>7, <1>9, <2>1 DEF Abstract!Next, Abstract!Load
<1>10. CASE m.op = "STORE"
  <2>1. Abstract!WriteLanes(mem, Abstract!EffectiveAddr, m.funct, Abstract!src2) = mem'
    BY <1>2, <1>4, <1>10, AbstractVocabulary
  <2>. QED
    BY <1>1, <1>2, <1>7, <1>10, <2>1 DEF Abstract!Next, Abstract!Store
<1>11. CASE m.op = "BRANCH"
  BY <1>1, <1>2, <1>5, <1>6, <1>7, <1>11 DEF Abstract!Next, Abstract!Branch
<1>12. CASE m.op = "JAL"
  BY <1>1, <1>2, <1>3, <1>6, <1>7, <1>12 DEF Abstract!Next, Abstract!Jump
<1>13. CASE m.op = "JALR"
  BY <1>1, <1>2, <1>3, <1>6, <1>7, <1>13 DEF Abstract!Next, Abstract!Jump
<1>14. CASE m.op = "HCF"
  BY <1>1, <1>2, <1>7, <1>14 DEF Abstract!Next, Abstract!Halt
<1>. QED
  BY <1>8, <1>9, <1>10, <1>11, <1>12, <1>13, <1>14 DEF Opcodes
-----------------------------------------------------------------------------
(* Where a program is. *)

\* Every word of the text is the first of a line, the second of one, or of none.
LEMMA Whereabouts ==
    ASSUME NEW src \in Sources, Tidy(src), NEW a \in Nat, a % 4 = 0
    PROVE  /\ \/ Bare(src, a) \/ Inner(src, a)
              \/ \E k \in DOMAIN src : IsInstr(src[k]) /\ Address(src, k) = a
           /\ Bare(src, a) \/ Inner(src, a) =>
                 \A k \in DOMAIN src : ~(IsInstr(src[k]) /\ Address(src, k) = a)
           /\ Bare(src, a) => ~Inner(src, a)
<1>1. ASSUME ~Bare(src, a), ~Inner(src, a)
      PROVE  \E k \in DOMAIN src : IsInstr(src[k]) /\ Address(src, k) = a
  <2>1. PICK k \in DOMAIN src :
          IsInstr(src[k]) /\ Address(src, k) <= a /\ a < Address(src, k) + Size(src[k])
    BY <1>1 DEF Bare
  <2>2. /\ Address(src, k) \in Nat /\ Address(src, k) % 4 = 0
        /\ Size(src[k]) = 4 * Words(src[k].stmt) /\ Words(src[k].stmt) \in {1, 2}
    BY <2>1, InstrPlace
  <2>3. a = Address(src, k) \/ (Words(src[k].stmt) = 2 /\ a = Address(src, k) + 4)
    <3>. DEFINE b == Address(src, k)
                n == Words(src[k].stmt)
    <3>1. b <= a /\ a < b + 4 * n
      BY <2>1, <2>2
    <3>. HIDE DEF b, n
    <3>2. b \in Nat /\ b % 4 = 0 /\ n \in {1, 2}
      BY <2>2 DEF b, n
    <3>3. a = b \/ (n = 2 /\ a = b + 4)
      BY <3>1, <3>2
    <3>. QED
      BY <3>3 DEF b, n
  <2>. QED
    BY <1>1, <2>1, <2>3 DEF Inner
<1>2. ASSUME NEW k \in DOMAIN src, IsInstr(src[k]), Address(src, k) = a
      PROVE  ~Bare(src, a) /\ ~Inner(src, a)
  <2>1. Size(src[k]) \in {4, 8}
    BY <1>2, InstrPlace
  <2>2. ~Bare(src, a)
    BY <1>2, <2>1 DEF Bare
  <2>3. ASSUME NEW j \in DOMAIN src, IsInstr(src[j]), Words(src[j].stmt) = 2,
               a = Address(src, j) + 4
        PROVE  FALSE
    <3>1. Size(src[j]) = 8 /\ Address(src, j) \in Nat
      BY <2>3, InstrPlace
    <3>2. j = k
      BY <1>2, <2>1, <2>3, <3>1, OneLine
    <3>. QED
      BY <1>2, <2>3, <3>1, <3>2
  <2>. QED
    BY <2>2, <2>3 DEF Inner
<1>3. ASSUME Inner(src, a) PROVE ~Bare(src, a)
  <2>1. PICK k \in DOMAIN src :
          IsInstr(src[k]) /\ Words(src[k].stmt) = 2 /\ a = Address(src, k) + 4
    BY <1>3 DEF Inner
  <2>2. Size(src[k]) = 8 /\ Address(src, k) \in Nat
    BY <2>1, InstrPlace
  <2>. QED
    BY <2>1, <2>2 DEF Bare
<1>. QED
  BY <1>1, <1>2, <1>3

\* The refinement mapping takes a place for a second word when it is one.
LEMMA SecondWordIs ==
    ASSUME NEW src \in Sources, Tidy(src), NEW a \in Nat
    PROVE  (a >= 4 /\ \E k \in InstrAt(src, a - 4) : Words(src[k].stmt) = 2) <=> Inner(src, a)
<1>1. ASSUME NEW k \in DOMAIN src, IsInstr(src[k])
      PROVE  (a >= 4 /\ Address(src, k) = a - 4) <=> a = Address(src, k) + 4
  BY <1>1, InstrPlace
<1>. QED
  BY <1>1 DEF Inner, InstrAt

\* A place where no program ends is one before the last.
LEMMA BeforeEnd ==
    ASSUME NEW src \in Sources, Tidy(src), Fits(src), NEW a \in Nat,
           a <= End(src), a < data_offset,
           \A k \in DOMAIN src : IsInstr(src[k]) /\ Address(src, k) = a => Meaning(src, k).op # "HCF"
    PROVE  a < End(src)
<1>1. CASE ~EndsInHcf(src)
  BY <1>1 DEF End
<1>2. CASE EndsInHcf(src)
  <2>1. /\ Len(src) \in DOMAIN src /\ End(src) = Address(src, Len(src)) /\ End(src) \in Nat
    BY <1>2, EndType
  <2>2. IsInstr(src[Len(src)]) /\ src[Len(src)].stmt.mn = "HCF"
    BY <1>2 DEF EndsInHcf
  <2>3. Meaning(src, Len(src)).op = "HCF"
    <3>1. Meaning(src, Len(src)) = I("HCF", "ADD", 0, 0, 0, 0)
      BY <2>2, MeaningOf
    <3>. QED
      BY <3>1 DEF I
  <2>. QED
    BY <2>1, <2>2, <2>3
<1>. QED
  BY <1>1, <1>2

\* The lines that jump to a label.
LEMMA JumpNames ==
    ASSUME NEW src \in Sources, Tidy(src), Legal(src), Fits(src),
           NEW k \in DOMAIN src, IsInstr(src[k]), Meaning(src, k).op \in {"JAL", "BRANCH"}
    PROVE  /\ src[k].stmt.mn \in Naming /\ src[k].stmt.mn # "LA"
           /\ Meaning(src, k).imm
                 = (LabelAddress(src, NamedBy(src[k].stmt)) - Address(src, k)) % WordSize
<1>. DEFINE s == src[k].stmt
            m == Meaning(src, k)
            to == (LabelAddress(src, NamedBy(s)) - Address(src, k)) % WordSize
<1>1. WellFormed(s)
  BY Zenon DEF Legal
<1>2. \A op, f, d, x, y, w : I(op, f, d, x, y, w).op = op /\ I(op, f, d, x, y, w).imm = w
  BY DEF I
<1>3. CASE s.mn \in BranchOps \cup {"BNEZ", "BEQZ", "J", "JAL"}
  <2>1. s.mn \in Naming /\ s.mn # "LA"
    BY <1>3 DEF Naming, BranchOps
  <2>2. m.imm = to
    <3>1. CASE s.mn \in BranchOps
      <4>1. m = I("BRANCH", Tests[s.mn], 0, parse_reg(s.args[1]), parse_reg(s.args[2]), to)
        BY <3>1, MeaningOf
      <4>. QED
        BY <1>2, <4>1
    <3>2. CASE s.mn = "BNEZ"
      <4>1. m = I("BRANCH", "NE", 0, parse_reg(s.args[1]), 0, to)
        BY <3>2, MeaningOf
      <4>. QED
        BY <1>2, <4>1
    <3>3. CASE s.mn = "BEQZ"
      <4>1. m = I("BRANCH", "EQ", 0, parse_reg(s.args[1]), 0, to)
        BY <3>3, MeaningOf
      <4>. QED
        BY <1>2, <4>1
    <3>4. CASE s.mn = "J"
      <4>1. m = I("JAL", "ADD", 0, 0, 0, to)
        BY <3>4, MeaningOf
      <4>. QED
        BY <1>2, <4>1
    <3>5. CASE s.mn = "JAL"
      <4>1. m = I("JAL", "ADD", IF Len(s.args) = 2 THEN parse_reg(s.args[1]) ELSE 1, 0, 0, to)
        BY <3>5, MeaningOf
      <4>. QED
        BY <1>2, <4>1
    <3>. QED
      BY <1>3, <3>1, <3>2, <3>3, <3>4, <3>5
  <2>. QED
    BY <2>1, <2>2
<1>4. CASE s.mn \notin BranchOps \cup {"BNEZ", "BEQZ", "J", "JAL"}
  <2>. DEFINE r(j) == parse_reg(s.args[j])
              base == parse_reg(s.args[2].base)
              off == s.args[2].n % WordSize
  <2>. SUFFICES m.op \notin {"JAL", "BRANCH"}
    OBVIOUS
  <2>1. \A op, f, x, y, z, w : op \notin {"JAL", "BRANCH"} =>
          I(op, f, x, y, z, w).op \notin {"JAL", "BRANCH"}
    BY DEF I
  <2>2. CASE s.mn \in RegOps
    <3>1. m = I("OP", s.mn, r(1), r(2), r(3), 0)
      BY <2>2, MeaningOf
    <3>. HIDE DEF m, r, base, off
    <3>. QED
      BY <2>1, <2>2, <3>1
  <2>3. CASE s.mn \in ImmOps
    <3>1. m = I("OP_IMM", WithConstant[s.mn], r(1), r(2), 0, s.args[3].n % WordSize)
      BY <2>3, MeaningOf
    <3>. HIDE DEF m, r, base, off
    <3>. QED
      BY <2>1, <2>3, <3>1
  <2>4. CASE s.mn = "MV"
    <3>1. m = I("OP_IMM", "ADD", r(1), r(2), 0, 0)
      BY <2>4, MeaningOf
    <3>. HIDE DEF m, r, base, off
    <3>. QED
      BY <2>1, <2>4, <3>1
  <2>5. CASE s.mn \in DOMAIN Loads
    <3>1. m = I("LOAD", Loads[s.mn], r(1), base, 0, off)
      BY <2>5, MeaningOf
    <3>. HIDE DEF m, r, base, off
    <3>. QED
      BY <2>1, <2>5, <3>1
  <2>6. CASE s.mn \in DOMAIN Stores
    <3>1. m = I("STORE", Stores[s.mn], 0, base, r(1), off)
      BY <2>6, MeaningOf
    <3>. HIDE DEF m, r, base, off
    <3>. QED
      BY <2>1, <2>6, <3>1
  <2>7. CASE s.mn = "JALR"
    <3>1. m = I("JALR", "ADD", r(1), base, 0, off)
      BY <2>7, MeaningOf
    <3>. HIDE DEF m, r, base, off
    <3>. QED
      BY <2>1, <2>7, <3>1
  <2>8. CASE s.mn = "RET"
    <3>1. m = I("JALR", "ADD", 0, 1, 0, 0)
      BY <2>8, MeaningOf
    <3>. HIDE DEF m, r, base, off
    <3>. QED
      BY <2>1, <2>8, <3>1
  <2>9. CASE s.mn \in UpperOps
    <3>1. m = I(s.mn, "ADD", r(1), 0, 0, (s.args[2].n * LowSize) % WordSize)
      BY <2>9, MeaningOf
    <3>. HIDE DEF m, r, base, off
    <3>. QED
      BY <2>1, <2>9, <3>1 DEF UpperOps
  <2>10. CASE s.mn = "LI"
    <3>1. m = I("LUI", "ADD", r(1), 0, 0, strtol(s.args[2]) % WordSize)
      BY <2>10, MeaningOf
    <3>. HIDE DEF m, r, base, off
    <3>. QED
      BY <2>1, <2>10, <3>1
  <2>11. CASE s.mn = "LA"
    <3>1. m = I("LUI", "ADD", r(1), 0, 0, LabelAddress(src, NamedBy(s)))
      BY <2>11, MeaningOf
    <3>. HIDE DEF m, r, base, off
    <3>. QED
      BY <2>1, <2>11, <3>1
  <2>12. CASE s.mn = "HCF"
    <3>1. m = I("HCF", "ADD", 0, 0, 0, 0)
      BY <2>12, MeaningOf
    <3>. HIDE DEF m, r, base, off
    <3>. QED
      BY <2>1, <2>12, <3>1
  <2>13. CASE s.mn \notin (instr_type \ {"UNIMPL"}) \cup Pseudos
    <3>1. m = Skip
      BY <2>13, MeaningOf
    <3>. HIDE DEF m, r, base, off
    <3>. QED
      BY <2>1, <2>13, <3>1 DEF Skip
  <2>14. \/ s.mn \in RegOps \cup ImmOps \cup UpperOps \cup {"MV", "JALR", "RET", "LI", "LA", "HCF"}
        \/ s.mn \in DOMAIN Loads \/ s.mn \in DOMAIN Stores
        \/ s.mn \notin (instr_type \ {"UNIMPL"}) \cup Pseudos
    <3>1. MemOps = DOMAIN Loads \cup DOMAIN Stores
      BY DEF MemOps, Loads, Stores
    <3>. QED
      BY <1>4, <3>1 DEF instr_type, Pseudos
  <2>. QED
    BY <2>2, <2>3, <2>4, <2>5, <2>6, <2>7, <2>8, <2>9, <2>10, <2>11, <2>12, <2>13, <2>14
<1>. QED
  BY <1>3, <1>4

\* They jump to where a program may be.
LEMMA JumpLands ==
    ASSUME NEW src \in Sources, Tidy(src), Legal(src), Fits(src), Meant(src),
           NEW k \in DOMAIN src, IsInstr(src[k]), Meaning(src, k).op \in {"JAL", "BRANCH"}
    PROVE  Landing(src, Add(Address(src, k), Meaning(src, k).imm))
<1>. DEFINE s == src[k].stmt
            l == NamedBy(s)
<1>1. /\ s.mn \in Naming /\ s.mn # "LA"
      /\ Meaning(src, k).imm = (LabelAddress(src, l) - Address(src, k)) % WordSize
  BY JumpNames
<1>2. l # None /\ l \in LabelsOf(src)
  BY <1>1, LegalNames
<1>3. SectionOf(src, LineOf(src, l)) = SectionOf(src, k)
  BY <1>1, <1>2 DEF Meant
<1>. HIDE DEF l
<1>4. Landing(src, LabelAddress(src, l))
  BY <1>2, <1>3, LandingLabel
<1>5. LabelAddress(src, l) \in 0 .. AddrSize
  BY <1>2, LabelInMemory
<1>6. Address(src, k) \in 0 .. AddrSize
  <2>1. Address(src, k) \in Nat /\ Size(src[k]) \in {4, 8}
    BY InstrPlace
  <2>2. Address(src, k) + Size(src[k]) <= data_offset
    BY DEF Fits
  <2>. QED
    BY <2>1, <2>2, AssemblerAssumption, SizeAssumption
<1>. QED
  BY <1>1, <1>4, <1>5, <1>6, DistanceLeads

\* Register 0 is as it was if anything reads it, and a register that a JALR jumps
\* to holds a place in the text.
ZeroKept == (\E j \in CodeOf(source) : 0 \in Reads(j)) => rf[0] = 0
BasesLand == \A i \in CodeOf(source) : i.op = "JALR" => Landing(source, rf[i.rs1])

Running ==
    /\ Laid(imem, source)
    /\ rf \in [Reg -> Word] /\ mem \in Memories
    /\ status = "loaded" =>
          /\ pc \in Nat /\ pc % 4 = 0 /\ pc <= End(source)
          /\ ZeroKept /\ BasesLand

\* The registers with register 0 at zero, as it is when nothing reads it.
Zeroed == [r \in Reg |-> IF r = 0 THEN 0 ELSE rf[r]]

Fetching ==
    /\ source \in Sources /\ Runnable(source) /\ Running
    /\ status = "loaded" /\ pc < data_offset

\* The instructions of a legal source are well-formed.
LEMMA CodeType ==
    ASSUME NEW src \in Sources, Tidy(src), Legal(src), Fits(src), NEW i \in CodeOf(src)
    PROVE  /\ i \in Inst /\ i.op \in Opcodes
           /\ i.rd \in Reg /\ i.rs1 \in Reg /\ i.rs2 \in Reg /\ i.imm \in Word /\ i.imm \in Nat
           /\ i.op \in {"OP", "OP_IMM"} => i.funct \in AluOps
<1>1. PICK k \in DOMAIN src : IsInstr(src[k]) /\ i = Meaning(src, k)
  BY DEF CodeOf
<1>2. i \in Inst /\ i.op \in Opcodes
  BY <1>1, MeaningType
<1>. QED
  BY <1>2 DEF Inst, Word

\* What is known where an instruction is fetched.
LEMMA Here ==
    ASSUME Fetching
    PROVE  /\ Tidy(source) /\ Legal(source) /\ Fits(source) /\ Meant(source)
           /\ pc \in Nat /\ pc % 4 = 0 /\ pc \div 4 \in Slots
           /\ Cpu!Fetched = Decode(imem, pc)
           /\ Abstract!inst = SourceInst(source, pc)
           /\ Add(pc, 4) = pc + 4
           /\ SecondWord <=> Inner(source, pc)
           /\ ~Inner(source, pc) => RegsMapped = Zeroed
           /\ rf \in [Reg -> Word] /\ mem \in Memories /\ ZeroKept /\ BasesLand
<1>1. /\ Tidy(source) /\ Legal(source) /\ Fits(source) /\ Meant(source)
      /\ pc \in Nat /\ pc % 4 = 0
      /\ rf \in [Reg -> Word] /\ mem \in Memories /\ ZeroKept /\ BasesLand
  BY DEF Fetching, Running, Runnable
<1>2. /\ data_offset \in Nat /\ data_offset % 4 = 0 /\ data_offset <= AddrSize
      /\ AddrSize \in Nat /\ AddrSize >= 4 /\ 2 * AddrSize < WordSize /\ WordSize \in Nat
      /\ pc < data_offset
  BY AssemblerAssumption, SizeAssumption, WordSizeType DEF Fetching
<1>3. pc \div 4 \in Slots /\ pc \in Addr
  BY <1>1, <1>2 DEF Slots, Addr
<1>4. Cpu!Fetched = Decode(imem, pc)
  BY <1>1 DEF Cpu!Fetched, Cpu!Slot
<1>5. Abstract!inst = SourceInst(source, pc)
  BY <1>3 DEF Abstract!inst, ReadingAt, Reading, Fetching
<1>6. Add(pc, 4) = pc + 4
  BY <1>1, <1>2 DEF Add
<1>7. SecondWord <=> Inner(source, pc)
  BY <1>1, SecondWordIs DEF SecondWord, Fetching
<1>8. ~Inner(source, pc) => RegsMapped = Zeroed
  BY <1>7 DEF RegsMapped, Zeroed
<1>. QED
  BY <1>1, <1>3, <1>4, <1>5, <1>6, <1>7, <1>8

\* And where it leads.
LEMMA There ==
    ASSUME Fetching, source' = source, pc' \in Nat
    PROVE  /\ SecondWord' <=> Inner(source, pc')
           /\ ~Inner(source, pc') => RegsMapped' = Zeroed'
<1>1. source' = source /\ source \in Sources /\ Tidy(source)
  BY Here DEF Fetching
<1>2. SecondWord' <=> Inner(source, pc')
  <2>1. SecondWord' <=> (pc' >= 4 /\ \E k \in InstrAt(source, pc' - 4) : Words(source[k].stmt) = 2)
    BY <1>1 DEF SecondWord
  <2>. QED
    BY <1>1, <2>1, SecondWordIs
<1>3. ~Inner(source, pc') => RegsMapped' = Zeroed'
  BY <1>2 DEF RegsMapped, Zeroed, Reg
<1>. QED
  BY <1>2, <1>3

\* A register that is written leaves the bases of the jumps and register 0 alone.
LEMMA RegistersKept ==
    ASSUME Fetching, source' = source,
           NEW d \in Reg, NEW v \in Word, rf' = [rf EXCEPT ![d] = v],
           \/ d = 0 /\ v = 0
           \/ \E j \in CodeOf(source) : d \in Writes(j) /\ (j.op = "JAL" => Landing(source, v))
    PROVE  rf' \in [Reg -> Word] /\ ZeroKept' /\ BasesLand'
<1>1. rf \in [Reg -> Word] /\ ZeroKept /\ BasesLand /\ Meant(source) /\ source \in Sources
      /\ Tidy(source) /\ Legal(source) /\ Fits(source)
  BY Here DEF Fetching
<1>2. ~\E i, j \in CodeOf(source) : 0 \in Writes(i) /\ 0 \in Reads(j)
  BY DEF Fetching, Runnable, KnownOtherwise
<1>3. 0 \in Reg
  BY SizeAssumption DEF Reg
<1>4. ZeroKept'
  <2>1. SUFFICES ASSUME \E j \in CodeOf(source) : 0 \in Reads(j) PROVE rf'[0] = 0
    BY DEF ZeroKept
  <2>2. rf[0] = 0
    BY <1>1, <2>1 DEF ZeroKept
  <2>3. d = 0 => v = 0
    BY <1>2, <2>1
  <2>. QED
    BY <1>1, <1>3, <2>2, <2>3
<1>5. BasesLand'
  <2>1. SUFFICES ASSUME NEW i \in CodeOf(source), i.op = "JALR" PROVE Landing(source, rf'[i.rs1])
    BY DEF BasesLand
  <2>2. Landing(source, rf[i.rs1]) /\ i.rs1 \in Reg
    BY <1>1, <2>1, CodeType DEF BasesLand
  <2>3. i.rs1 # d => rf'[i.rs1] = rf[i.rs1]
    BY <1>1, <2>2
  <2>4. i.rs1 = d => rf'[i.rs1] = v
    BY <1>1, <2>2
  <2>5. i.rs1 = d => Landing(source, v)
    <3>1. d = 0 /\ v = 0 => Landing(source, v)
      BY <1>1, LandingZero
    <3>2. \A j \in CodeOf(source) : i.rs1 \in Writes(j) => j.op = "JAL"
      BY <1>1, <2>1 DEF Meant
    <3>. QED
      BY <3>1, <3>2
  <2>. QED
    BY <2>2, <2>3, <2>4, <2>5
<1>6. rf' \in [Reg -> Word]
  BY <1>1
<1>. QED
  BY <1>4, <1>5, <1>6

\* The state behind an instruction that leads to where a program may be.
LEMMA RunningBehind ==
    ASSUME Fetching, execOneInstr, mem' \in Memories, rf' \in [Reg -> Word], ZeroKept', BasesLand',
           status' = "loaded" => pc' \in Nat /\ pc' % 4 = 0 /\ pc' <= End(source)
    PROVE  Running'
BY DEF Fetching, Running, execOneInstr

\* What execOneInstr does.
LEMMA Executed ==
    ASSUME Fetching, execOneInstr
    PROVE  /\ source' = source /\ imem' = imem
           /\ rf' = Cpu!NextRf(Cpu!Fetched) /\ mem' = Cpu!NextMem(Cpu!Fetched)
           /\ pc' = Cpu!NextPc(Cpu!Fetched)
           /\ status' = (IF Cpu!Fetched.op = "HCF" THEN "halted" ELSE status)
           /\ Cpu!Fetched.op \in {"LOAD", "STORE"} =>
                 Add(rf[Cpu!Fetched.rs1], Cpu!Fetched.imm) + Lanes(Cpu!Fetched.funct) <= AddrSize
<1>1. Cpu!processInstr(Cpu!Fetched) /\ Cpu!InRange(Cpu!Fetched)
  BY DEF execOneInstr
<1>2. Cpu!Fetched.op \in {"LOAD", "STORE"} =>
        Add(rf[Cpu!Fetched.rs1], Cpu!Fetched.imm) + Lanes(Cpu!Fetched.funct) <= AddrSize
  BY <1>1, CpuVocabulary DEF Cpu!InRange, Cpu!DataAddr
<1>. QED
  BY <1>1, <1>2 DEF execOneInstr, Cpu!processInstr

\* A place where nothing is executed.
LEMMA ExecNothing ==
    ASSUME Fetching, execOneInstr, Cpu!Fetched = Bubble, SourceInst(source, pc) = Skip,
           ~Inner(source, pc),
           \A k \in DOMAIN source : IsInstr(source[k]) /\ Address(source, k) = pc =>
               Words(source[k].stmt) # 2 /\ Meaning(source, k).op # "HCF"
    PROVE  Abstract!Next /\ Running'
<1>1. /\ source \in Sources /\ Tidy(source) /\ Fits(source) /\ pc \in Nat /\ pc % 4 = 0
      /\ Abstract!inst = Skip /\ Add(pc, 4) = pc + 4 /\ RegsMapped = Zeroed
      /\ pc <= End(source) /\ pc < data_offset /\ status = "loaded"
      /\ rf \in [Reg -> Word] /\ mem \in Memories /\ ZeroKept /\ BasesLand
  BY Here DEF Fetching, Running
<1>2. /\ Skip.op = "LUI" /\ Skip.rd = 0 /\ Bubble.op = "ZERO"
  BY DEF Skip, I, Bubble
<1>3. rf' = rf /\ mem' = mem /\ pc' = pc + 4 /\ status' = "loaded" /\ source' = source
  BY <1>1, <1>2, Executed, CpuRegisters, CpuMemory, CpuPc
<1>4. Landing(source, pc + 4)
  BY <1>1, BeforeEnd, LandingBehind
<1>5. pc' \in Nat /\ pc' % 4 = 0 /\ pc' <= End(source) /\ ~Inner(source, pc')
  BY <1>1, <1>3, <1>4 DEF Landing
<1>6. RegsMapped' = RegsMapped
  BY <1>1, <1>3, <1>5, There DEF Zeroed, Reg
<1>7. SetsTo(Skip.rd, Skip.imm)
  BY <1>2, <1>6 DEF SetsTo
<1>8. Abstract!Next
  BY <1>1, <1>2, <1>3, <1>7, AbstractStep DEF Opcodes
<1>9. ZeroKept' /\ BasesLand'
  BY <1>1, <1>3 DEF ZeroKept, BasesLand
<1>. QED
  BY <1>1, <1>3, <1>5, <1>8, <1>9, RunningBehind
-----------------------------------------------------------------------------
(* One instruction. *)

\* Registers that stay keep what is known of them.
LEMMA NothingWritten ==
    ASSUME Fetching, source' = source, rf' = rf
    PROVE  rf' \in [Reg -> Word] /\ ZeroKept' /\ BasesLand'
<1>1. rf \in [Reg -> Word] /\ ZeroKept /\ BasesLand
  BY Here
<1>. QED
  BY <1>1 DEF ZeroKept, BasesLand

\* What an li or la is for the CPU.
LEMMA TwoWords ==
    ASSUME Fetching, NEW k \in DOMAIN source, IsInstr(source[k]), Words(source[k].stmt) = 2
    PROVE  LET m == Meaning(source, k)
               a == Address(source, k)
           IN  /\ m.op = "LUI" /\ m.rd \in Reg /\ m.imm \in Word /\ m \in CodeOf(source)
               /\ Decode(imem, a) = I("LUI", "ADD", m.rd, 0, 0, Upper(m.imm))
               /\ Decode(imem, a + 4) = I("OP_IMM", "ADD", m.rd, m.rd, 0, LowerPart(m.imm))
               /\ m # Skip => m.rd \in Writes(m)
               /\ m = Skip => m.rd = 0 /\ m.imm = 0
<1>. DEFINE m == Meaning(source, k)
<1>1. /\ source \in Sources /\ Tidy(source) /\ Legal(source) /\ Fits(source)
      /\ Found(imem, source, k)
  BY Here DEF Fetching, Running, Laid
<1>2. m \in CodeOf(source)
  BY DEF CodeOf
<1>3. m.rd \in Reg /\ m.imm \in Word
  BY <1>1, <1>2, CodeType
<1>4. m = I("LUI", "ADD", m.rd, 0, 0, m.imm)
  BY <1>1 DEF Found
<1>5. m.op = "LUI"
  <2>. HIDE DEF m
  <2>1. \A d, w : I("LUI", "ADD", d, 0, 0, w).op = "LUI"
    BY DEF I
  <2>. QED
    BY <1>4, <2>1
<1>6. /\ m # Skip => m.rd \in Writes(m)
      /\ m = Skip => m.rd = 0 /\ m.imm = 0
  <2>. HIDE DEF m
  <2>1. Skip.rd = 0 /\ Skip.imm = 0
    BY DEF Skip, I
  <2>. QED
    BY <1>5, <2>1 DEF Writes
<1>. QED
  BY <1>1, <1>2, <1>3, <1>5, <1>6 DEF Found

\* The second word of an li or la: the source has it executed already.
LEMMA ExecSecond ==
    ASSUME Fetching, execOneInstr,
           NEW k \in DOMAIN source, IsInstr(source[k]), Words(source[k].stmt) = 2,
           pc = Address(source, k) + 4
    PROVE  Abstract!Next /\ Running'
<1>. DEFINE m == Meaning(source, k)
            d == m.rd
            v == Add(rf[d], LowerPart(m.imm))
            i == Cpu!Fetched
<1>1. /\ source \in Sources /\ Tidy(source) /\ Legal(source) /\ Fits(source) /\ pc \in Nat
      /\ pc % 4 = 0 /\ Add(pc, 4) = pc + 4 /\ pc <= End(source) /\ pc < data_offset
      /\ status = "loaded" /\ rf \in [Reg -> Word] /\ mem \in Memories
      /\ SecondWord <=> Inner(source, pc)
      /\ Abstract!inst = SourceInst(source, pc) /\ i = Decode(imem, pc)
  BY Here DEF Fetching, Running
<1>2. Inner(source, pc) /\ SecondWord
  BY <1>1 DEF Inner
<1>3. \A j \in DOMAIN source : ~(IsInstr(source[j]) /\ Address(source, j) = pc)
  BY <1>1, <1>2, Whereabouts
<1>4. Abstract!inst = Skip
  BY <1>1, <1>3, SourceInstIs
<1>5. /\ d \in Reg /\ m.imm \in Word /\ m \in CodeOf(source) /\ m.op = "LUI"
      /\ i = I("OP_IMM", "ADD", d, d, 0, LowerPart(m.imm))
      /\ m # Skip => d \in Writes(m)
      /\ m = Skip => d = 0 /\ m.imm = 0
  BY <1>1, TwoWords
<1>. HIDE DEF m, i
<1>6. /\ i.op = "OP_IMM" /\ i.funct = "ADD" /\ i.rd = d /\ i.rs1 = d /\ i.imm = LowerPart(m.imm)
  BY <1>5 DEF I
<1>7. LowerPart(m.imm) \in Word /\ rf[d] \in Word
  BY <1>1, <1>5, TwoParts
<1>8. ALU("ADD", rf[d], LowerPart(m.imm)) = v
  BY <1>7, ALUAssumption
<1>9. v \in Word
  BY <1>7, WordKept, WordSizeType, ModRange DEF Add, Word
<1>10. rf' = [rf EXCEPT ![d] = v] /\ mem' = mem /\ pc' = pc + 4 /\ status' = "loaded"
       /\ source' = source
  BY <1>1, <1>6, <1>8, Executed, CpuRegisters, CpuMemory, CpuPc DEF i
<1>11. Landing(source, pc + 4)
  <2>1. pc < End(source)
    BY <1>1, <1>3, BeforeEnd
  <2>. QED
    BY <1>1, <1>3, <2>1, LandingBehind
<1>12. pc' \in Nat /\ pc' % 4 = 0 /\ pc' <= End(source) /\ ~Inner(source, pc')
  BY <1>1, <1>10, <1>11 DEF Landing
<1>13. RegsMapped' = Zeroed'
  BY <1>10, <1>12, There
<1>14. RegsMapped' = RegsMapped
  <2>1. RegsMapped = [r \in Reg |-> IF r = 0 THEN 0 ELSE IF r = d THEN v ELSE rf[r]]
    BY <1>2, <1>6 DEF RegsMapped, i
  <2>2. Zeroed' = [r \in Reg |-> IF r = 0 THEN 0 ELSE IF r = d THEN v ELSE rf[r]]
    BY <1>1, <1>5, <1>10 DEF Zeroed, Reg
  <2>. QED
    BY <1>13, <2>1, <2>2
<1>15. rf' \in [Reg -> Word] /\ ZeroKept' /\ BasesLand'
  <2>1. CASE m = Skip
    <3>1. v = rf[d]
      <4>1. LowerPart(m.imm) = 0
        BY <1>5, <2>1, TwoParts
      <4>. QED
        BY <1>7, <4>1, WordKept DEF Add
    <3>2. rf' = rf
      BY <1>1, <1>10, <3>1
    <3>. QED
      BY <1>10, <3>2, NothingWritten
  <2>2. CASE m # Skip
    BY <1>5, <1>9, <1>10, <2>2, RegistersKept
  <2>. QED
    BY <2>1, <2>2
<1>16. /\ Skip.op = "LUI" /\ Skip.rd = 0
  BY DEF Skip, I
<1>17. SetsTo(Skip.rd, Skip.imm)
  BY <1>14, <1>16 DEF SetsTo
<1>18. Abstract!Next
  BY <1>1, <1>4, <1>10, <1>16, <1>17, AbstractStep DEF Opcodes
<1>. QED
  BY <1>1, <1>10, <1>12, <1>15, <1>18, RunningBehind

\* The first word: the register lacks its lower part.
LEMMA ExecFirst ==
    ASSUME Fetching, execOneInstr,
           NEW k \in DOMAIN source, IsInstr(source[k]), Words(source[k].stmt) = 2,
           pc = Address(source, k)
    PROVE  Abstract!Next /\ Running'
<1>. DEFINE m == Meaning(source, k)
            d == m.rd
            v == Upper(m.imm)
            i == Cpu!Fetched
<1>1. /\ source \in Sources /\ Tidy(source) /\ Legal(source) /\ Fits(source) /\ pc \in Nat
      /\ pc % 4 = 0 /\ Add(pc, 4) = pc + 4 /\ pc <= End(source) /\ pc < data_offset
      /\ status = "loaded" /\ rf \in [Reg -> Word] /\ mem \in Memories
      /\ ~Inner(source, pc) => RegsMapped = Zeroed
      /\ Abstract!inst = SourceInst(source, pc) /\ i = Decode(imem, pc)
  BY Here DEF Fetching, Running
<1>2. ~Inner(source, pc) /\ RegsMapped = Zeroed
  BY <1>1, Whereabouts
<1>3. Abstract!inst = m
  BY <1>1, SourceInstIs
<1>4. /\ d \in Reg /\ m.imm \in Word /\ m \in CodeOf(source) /\ m.op = "LUI"
      /\ i = I("LUI", "ADD", d, 0, 0, v)
      /\ Decode(imem, pc + 4) = I("OP_IMM", "ADD", d, d, 0, LowerPart(m.imm))
      /\ m # Skip => d \in Writes(m)
      /\ m = Skip => d = 0 /\ m.imm = 0
  BY <1>1, TwoWords
<1>. HIDE DEF m, i
<1>5. i.op = "LUI" /\ i.rd = d /\ i.imm = v
  BY <1>4 DEF I
<1>6. v \in Word /\ (m.imm = 0 => v = 0)
  BY <1>4, TwoParts
<1>7. rf' = [rf EXCEPT ![d] = v] /\ mem' = mem /\ pc' = pc + 4 /\ status' = "loaded"
       /\ source' = source /\ imem' = imem
  BY <1>1, <1>5, Executed, CpuRegisters, CpuMemory, CpuPc DEF i
<1>8. pc < End(source)
  <2>1. \A j \in DOMAIN source : IsInstr(source[j]) /\ Address(source, j) = pc =>
            Meaning(source, j).op # "HCF"
    BY <1>1, <1>3, <1>4, SourceInstIs
  <2>. QED
    BY <1>1, <2>1, BeforeEnd
<1>9. pc' \in Nat /\ pc' % 4 = 0 /\ pc' <= End(source) /\ Inner(source, pc')
  <2>1. End(source) \in Nat /\ End(source) % 4 = 0
    BY <1>1, EndType
  <2>2. Inner(source, pc + 4)
    BY DEF Inner
  <2>. QED
    BY <1>1, <1>7, <1>8, <2>1, <2>2
<1>10. SecondWord'
  BY <1>7, <1>9, There
<1>11. i' = I("OP_IMM", "ADD", d, d, 0, LowerPart(m.imm))
  <2>1. i' = Decode(imem', pc')
    <3>1. Cpu!Slot' = pc' - (pc' % 4) /\ i' = Decode(imem', Cpu!Slot')
      BY Zenon DEF i, Cpu!Fetched, Cpu!Slot
    <3>2. pc' \in Nat /\ pc' % 4 = 0
      BY <1>9
    <3>3. \A x \in Nat : x % 4 = 0 => x - (x % 4) = x
      OBVIOUS
    <3>. QED
      BY <3>1, <3>2, <3>3, Zenon
  <2>. QED
    BY <1>4, <1>7, <2>1
<1>12. Cpu!Fetched'.rd = d /\ Cpu!Fetched'.imm = LowerPart(m.imm)
  BY <1>11 DEF I, i
<1>13. SetsTo(m.rd, m.imm)
  <2>1. RegsMapped' = [r \in Reg |-> IF r = 0 THEN 0
                                     ELSE IF r = d THEN Add(rf'[r], LowerPart(m.imm))
                                     ELSE rf'[r]]
    BY <1>10, <1>12 DEF RegsMapped, Reg
  <2>2. rf'[d] = v /\ \A r \in Reg \ {d} : rf'[r] = rf[r]
    BY <1>1, <1>4, <1>7
  <2>3. Add(v, LowerPart(m.imm)) = m.imm
    BY <1>4, TwoParts
  <2>4. RegsMapped' = [r \in Reg |-> IF r = 0 THEN 0 ELSE IF r = d THEN m.imm ELSE rf[r]]
    BY <2>1, <2>2, <2>3
  <2>. QED
    BY <1>2, <1>4, <2>4 DEF SetsTo, Zeroed
<1>14. Abstract!Next
  BY <1>1, <1>3, <1>4, <1>7, <1>13, AbstractStep DEF Opcodes
<1>15. rf' \in [Reg -> Word] /\ ZeroKept' /\ BasesLand'
  BY <1>4, <1>6, <1>7, RegistersKept
<1>. QED
  BY <1>1, <1>7, <1>9, <1>14, <1>15, RunningBehind

LEMMA AddType ==
    \A a, b \in Int : Add(a, b) \in Word /\ Add(a, b) \in Nat /\ Add(a, b) % WordSize = Add(a, b)
<1>1. \A a, b \in Int : Add(a, b) \in Word
  BY WordSizeType, ModRange DEF Add, Word
<1>. QED
  BY <1>1, WordKept

\* What an instruction writes into its register.
Result(i) == CASE i.op = "OP"             -> ALU(i.funct, rf[i.rs1], rf[i.rs2])
               [] i.op = "OP_IMM"         -> ALU(i.funct, rf[i.rs1], i.imm)
               [] i.op = "AUIPC"          -> Add(pc, i.imm)
               [] i.op = "LUI"            -> i.imm
               [] i.op \in {"JAL", "JALR"} -> Add(pc, 4)
               [] OTHER -> ReadLanes(mem, Add(rf[i.rs1], i.imm), i.funct)

Writing == {"OP", "OP_IMM", "AUIPC", "LUI", "JAL", "JALR", "LOAD"}

\* What an instruction computes.
LEMMA ResultIs ==
    ASSUME NEW i
    PROVE  /\ i.op = "OP" => Result(i) = ALU(i.funct, rf[i.rs1], rf[i.rs2])
           /\ i.op = "OP_IMM" => Result(i) = ALU(i.funct, rf[i.rs1], i.imm)
           /\ i.op = "AUIPC" => Result(i) = Add(pc, i.imm)
           /\ i.op = "LUI" => Result(i) = i.imm
           /\ i.op \in {"JAL", "JALR"} => Result(i) = Add(pc, 4)
           /\ i.op = "LOAD" => Result(i) = ReadLanes(mem, Add(rf[i.rs1], i.imm), i.funct)
BY DEF Result

\* A line of one word that is found as it is.
OneWord(k) ==
    /\ k \in DOMAIN source /\ IsInstr(source[k]) /\ Words(source[k].stmt) # 2
    /\ pc = Address(source, k) /\ Cpu!Fetched = Meaning(source, k)

\* A line of one word: where the CPU is before and behind it.
LEMMA OneWordIs ==
    ASSUME Fetching, NEW k, OneWord(k)
    PROVE  LET m == Meaning(source, k)
           IN  /\ m \in CodeOf(source) /\ m.op \in Opcodes
               /\ m.rd \in Reg /\ m.rs1 \in Reg /\ m.rs2 \in Reg /\ m.imm \in Word
               /\ m.op \in {"OP", "OP_IMM"} => m.funct \in AluOps
               /\ Abstract!inst = m /\ ~Inner(source, pc) /\ RegsMapped = Zeroed
               /\ ~Inner(source, pc + 4)
               /\ m.op # "HCF" => Landing(source, pc + 4)
<1>. DEFINE m == Meaning(source, k)
<1>1. /\ source \in Sources /\ Tidy(source) /\ Legal(source) /\ Fits(source) /\ pc \in Nat
      /\ pc % 4 = 0 /\ pc <= End(source) /\ pc < data_offset
      /\ ~Inner(source, pc) => RegsMapped = Zeroed
      /\ Abstract!inst = SourceInst(source, pc)
  BY Here DEF Fetching, Running
<1>2. k \in DOMAIN source /\ IsInstr(source[k]) /\ Words(source[k].stmt) # 2
      /\ pc = Address(source, k)
  BY DEF OneWord
<1>3. m \in CodeOf(source)
  BY <1>2 DEF CodeOf
<1>4. /\ m.op \in Opcodes /\ m.rd \in Reg /\ m.rs1 \in Reg /\ m.rs2 \in Reg /\ m.imm \in Word
      /\ m.op \in {"OP", "OP_IMM"} => m.funct \in AluOps
  BY <1>1, <1>3, CodeType
<1>5. ~Inner(source, pc)
  BY <1>1, <1>2, Whereabouts
<1>6. Abstract!inst = m
  BY <1>1, <1>2, SourceInstIs
<1>7. \A j \in DOMAIN source : IsInstr(source[j]) /\ Address(source, j) = pc => j = k
  <2>1. TAKE j \in DOMAIN source
  <2>2. HAVE IsInstr(source[j]) /\ Address(source, j) = pc
  <2>3. /\ pc \in Int /\ pc < pc + Size(source[j]) /\ pc < pc + Size(source[k])
    BY <1>1, <1>2, <2>2, InstrPlace
  <2>. QED
    BY <1>1, <1>2, <2>2, <2>3, OneLine
<1>8. ~Inner(source, pc + 4)
  <2>1. SUFFICES ASSUME NEW j \in DOMAIN source, IsInstr(source[j]), Words(source[j].stmt) = 2,
                        pc + 4 = Address(source, j) + 4
                 PROVE  FALSE
    BY DEF Inner
  <2>2. Address(source, j) = pc
    BY <1>1, <2>1, InstrPlace
  <2>. QED
    BY <1>2, <1>7, <2>1, <2>2
<1>9. m.op # "HCF" => Landing(source, pc + 4)
  <2>1. HAVE m.op # "HCF"
  <2>2. pc < End(source)
    BY <1>1, <1>7, <2>1, BeforeEnd
  <2>. QED
    BY <1>1, <1>2, <1>7, <2>2, LandingBehind
<1>. QED
  BY <1>1, <1>3, <1>4, <1>5, <1>6, <1>8, <1>9

\* Its operands are the registers of the machine the source is read for.
LEMMA Operands ==
    ASSUME Fetching, NEW k, OneWord(k)
    PROVE  LET m == Meaning(source, k)
           IN  /\ m.op \in {"OP", "OP_IMM", "LOAD", "STORE", "BRANCH", "JALR"} =>
                     RegsMapped[m.rs1] = rf[m.rs1]
               /\ m.op \in {"OP", "STORE", "BRANCH"} => RegsMapped[m.rs2] = rf[m.rs2]
<1>. DEFINE m == Meaning(source, k)
<1>1. m \in CodeOf(source) /\ m.rs1 \in Reg /\ m.rs2 \in Reg /\ RegsMapped = Zeroed /\ ZeroKept
  BY OneWordIs, Here
<1>. HIDE DEF m
<1>2. \A r \in Reg : r \in Reads(m) => RegsMapped[r] = rf[r]
  BY <1>1 DEF ZeroKept, Zeroed
<1>. QED
  BY <1>1, <1>2 DEF Reads, m

\* One register is written.
LEMMA SetsOne ==
    ASSUME RegsMapped = Zeroed, RegsMapped' = Zeroed', rf \in [Reg -> Word],
           NEW d \in Reg, NEW v, rf' = [rf EXCEPT ![d] = v]
    PROVE  SetsTo(d, v)
<1>1. Zeroed' = [r \in Reg |-> IF r = 0 THEN 0 ELSE rf'[r]]
  BY DEF Zeroed, Reg
<1>2. Zeroed' = [r \in Reg |-> IF r = 0 THEN 0 ELSE IF r = d THEN v ELSE rf[r]]
  BY <1>1
<1>. QED
  BY <1>2 DEF SetsTo, Zeroed

\* The effect on the registers.
LEMMA OneWordRegisters ==
    ASSUME Fetching, execOneInstr, NEW k, OneWord(k)
    PROVE  LET m == Meaning(source, k)
           IN  /\ m.op \in Writing => /\ rf' = [rf EXCEPT ![m.rd] = Result(m)]
                                      /\ Result(m) \in Word
               /\ m.op \in {"STORE", "BRANCH", "HCF"} => rf' = rf
               /\ rf' \in [Reg -> Word] /\ ZeroKept' /\ BasesLand'
<1>. DEFINE m == Meaning(source, k)
<1>1. /\ m \in CodeOf(source) /\ m.op \in Opcodes
      /\ m.rd \in Reg /\ m.rs1 \in Reg /\ m.rs2 \in Reg /\ m.imm \in Word
      /\ m.op \in {"OP", "OP_IMM"} => m.funct \in AluOps
      /\ m.op # "HCF" => Landing(source, pc + 4)
  BY OneWordIs
<1>2. /\ source' = source /\ Cpu!Fetched = m /\ rf' = Cpu!NextRf(m)
      /\ rf \in [Reg -> Word] /\ mem \in Memories /\ pc \in Nat /\ Add(pc, 4) = pc + 4
  BY Here, Executed DEF OneWord
<1>3. ~(m.op = "OP" /\ m.funct = "SLTU")
  BY <1>1 DEF Fetching, Runnable, KnownOtherwise
<1>. HIDE DEF m
<1>4. m.op \in Writing => rf' = [rf EXCEPT ![m.rd] = Result(m)]
  BY <1>2, <1>3, CpuRegisters, ResultIs DEF Writing
<1>5. m.op \in {"STORE", "BRANCH", "HCF"} => rf' = rf
  BY <1>2, CpuRegisters
<1>6. m.op \in Writing => Result(m) \in Word
  <2>1. rf[m.rs1] \in Word /\ rf[m.rs2] \in Word /\ \A w \in Word : w \in Int
    BY <1>1, <1>2, WordKept
  <2>2. CASE m.op \in {"OP", "OP_IMM"}
    <3>1. ALU(m.funct, rf[m.rs1], rf[m.rs2]) \in Word /\ ALU(m.funct, rf[m.rs1], m.imm) \in Word
      BY <1>1, <2>1, <2>2, ALUAssumption
    <3>. QED
      BY <2>2, <3>1, ResultIs
  <2>3. CASE m.op \in {"AUIPC", "LUI", "JAL", "JALR"}
    <3>1. Add(pc, m.imm) \in Word /\ Add(pc, 4) \in Word
      <4>1. pc \in Int /\ m.imm \in Int /\ 4 \in Int
        BY <1>1, <1>2, <2>1
      <4>. QED
        BY <4>1, AddType, Zenon
    <3>. QED
      BY <1>1, <2>3, <3>1, ResultIs
  <2>4. CASE m.op = "LOAD"
    <3>1. Add(rf[m.rs1], m.imm) \in Int
      BY <1>1, <2>1, AddType
    <3>2. ReadLanes(mem, Add(rf[m.rs1], m.imm), m.funct) \in Word
      BY <1>2, <3>1, ReadLanesType
    <3>. QED
      BY <2>4, <3>2, ResultIs
  <2>. QED
    BY <2>2, <2>3, <2>4 DEF Writing
<1>7. rf' \in [Reg -> Word] /\ ZeroKept' /\ BasesLand'
  <2>1. CASE m.op \in Writing
    <3>1. m = Skip => m.rd = 0 /\ Result(m) = 0
      <4>1. Skip.op = "LUI" /\ Skip.rd = 0 /\ Skip.imm = 0
        BY DEF Skip, I
      <4>. QED
        BY <4>1, ResultIs
    <3>2. m # Skip => m.rd \in Writes(m)
      BY <2>1 DEF Writes, Writing
    <3>3. m.op = "JAL" => Landing(source, Result(m))
      BY <1>1, <1>2, ResultIs
    <3>. QED
      BY <1>1, <1>2, <1>4, <1>6, <2>1, <3>1, <3>2, <3>3, RegistersKept
  <2>2. CASE m.op \in {"STORE", "BRANCH", "HCF"}
    BY <1>2, <1>5, <2>2, NothingWritten
  <2>. QED
    BY <1>1, <2>1, <2>2 DEF Opcodes, Writing
<1>. QED
  BY <1>4, <1>5, <1>6, <1>7 DEF m

\* Where it leads.
LEMMA OneWordPc ==
    ASSUME Fetching, execOneInstr, NEW k, OneWord(k)
    PROVE  LET m == Meaning(source, k)
           IN  /\ m.op = "JAL" => pc' = Add(pc, m.imm) % WordSize
               /\ m.op = "JALR" => pc' = Add(RegsMapped[m.rs1], m.imm) % WordSize
               /\ m.op = "BRANCH" =>
                     pc' = IF Condition(m.funct, RegsMapped[m.rs1], RegsMapped[m.rs2])
                           THEN Add(pc, m.imm) % WordSize ELSE Add(pc, 4)
               /\ m.op \notin {"JAL", "JALR", "BRANCH"} => pc' = Add(pc, 4)
               /\ pc' \in Nat /\ ~Inner(source, pc')
               /\ m.op # "HCF" => Landing(source, pc')
<1>. DEFINE m == Meaning(source, k)
<1>1. /\ m \in CodeOf(source) /\ m.rd \in Reg /\ m.rs1 \in Reg /\ m.imm \in Word /\ m.imm \in Int
      /\ m.op # "HCF" => Landing(source, pc + 4)
      /\ ~Inner(source, pc + 4)
  BY OneWordIs, WordKept
<1>2. /\ Cpu!Fetched = m /\ pc' = Cpu!NextPc(m) /\ rf' = Cpu!NextRf(m)
      /\ rf \in [Reg -> Word] /\ pc \in Nat /\ pc % 4 = 0 /\ Add(pc, 4) = pc + 4
      /\ source \in Sources /\ Tidy(source) /\ Legal(source) /\ Fits(source) /\ Meant(source)
      /\ BasesLand
  BY Here, Executed DEF OneWord, Fetching
<1>3. /\ m.op \in {"JALR", "BRANCH"} => RegsMapped[m.rs1] = rf[m.rs1]
      /\ m.op = "BRANCH" => RegsMapped[m.rs2] = rf[m.rs2]
  BY Operands
<1>4. m.op \in {"JAL", "BRANCH"} => Landing(source, Add(pc, m.imm))
  <2>1. k \in DOMAIN source /\ IsInstr(source[k]) /\ pc = Address(source, k)
    BY DEF OneWord
  <2>. QED
    BY <1>2, <2>1, JumpLands
<1>5. m.op = "JALR" => m.rd # m.rs1 /\ m.imm = 0 /\ Landing(source, rf[m.rs1])
  BY <1>1, <1>2 DEF Fetching, Runnable, KnownOtherwise, Meant, BasesLand
<1>6. m.op = "JALR" => rf'[m.rs1] = rf[m.rs1]
  BY <1>1, <1>2, <1>5, OneWordRegisters DEF Writing
<1>. HIDE DEF m
<1>7. \A a \in Nat : Landing(source, a) => ~Inner(source, a)
  BY DEF Landing
<1>8. Add(pc, m.imm) \in Nat /\ Add(pc, m.imm) % WordSize = Add(pc, m.imm)
  <2>1. pc \in Int /\ m.imm \in Int
    BY <1>1, <1>2
  <2>. QED
    BY <2>1, AddType, Zenon
<1>9. CASE m.op = "JALR"
  <2>1. rf[m.rs1] \in Word
    BY <1>1, <1>2
  <2>2. Add(rf[m.rs1], m.imm) = rf[m.rs1] /\ rf[m.rs1] \in Nat /\ rf[m.rs1] % WordSize = rf[m.rs1]
    BY <1>5, <1>9, <2>1, WordKept DEF Add
  <2>3. pc' = rf[m.rs1]
    BY <1>2, <1>6, <1>9, <2>2, CpuPc
  <2>. QED
    BY <1>3, <1>5, <1>7, <1>9, <2>2, <2>3 DEF m
<1>10. CASE m.op = "JAL"
  BY <1>2, <1>4, <1>7, <1>8, <1>10, CpuPc DEF m
<1>11. CASE m.op = "BRANCH"
  <2>1. pc' = IF Condition(m.funct, rf[m.rs1], rf[m.rs2]) THEN Add(pc, m.imm) ELSE Add(pc, 4)
    BY <1>2, <1>11, CpuPc
  <2>2. pc' \in {Add(pc, m.imm), pc + 4} /\ pc' \in Nat /\ Landing(source, pc')
    BY <1>1, <1>2, <1>4, <1>8, <1>11, <2>1
  <2>. QED
    BY <1>3, <1>7, <1>8, <1>11, <2>1, <2>2 DEF m
<1>12. CASE m.op \notin {"JAL", "JALR", "BRANCH"}
  BY <1>1, <1>2, <1>12, CpuPc DEF m
<1>. QED
  BY <1>9, <1>10, <1>11, <1>12

\* An access inside the memory is made where the instruction says.
LEMMA AccessKept ==
    ASSUME NEW i, NEW a \in Nat, a + Lanes(i.funct) <= AddrSize
    PROVE  Trunc(a) = a
<1>1. Lanes(i.funct) \in {1, 2, 4}
  BY DEF Lanes
<1>. QED
  BY <1>1, SizeAssumption DEF Trunc

\* A line of one word is executed as it is.
LEMMA ExecOneWord ==
    ASSUME Fetching, execOneInstr, NEW k, OneWord(k)
    PROVE  Abstract!Next /\ Running'
<1>. DEFINE m == Meaning(source, k)
<1>1. /\ m.op \in Opcodes /\ m.rd \in Reg /\ m.rs1 \in Reg /\ m.rs2 \in Reg /\ m.imm \in Word
      /\ Abstract!inst = m /\ RegsMapped = Zeroed
  BY OneWordIs
<1>2. /\ source' = source /\ Cpu!Fetched = m /\ status = "loaded"
      /\ mem' = Cpu!NextMem(m) /\ status' = (IF m.op = "HCF" THEN "halted" ELSE status)
      /\ m.op \in {"LOAD", "STORE"} => Add(rf[m.rs1], m.imm) + Lanes(m.funct) <= AddrSize
      /\ rf \in [Reg -> Word] /\ mem \in Memories
  BY Here, Executed DEF OneWord, Fetching
<1>3. /\ m.op \in Writing => rf' = [rf EXCEPT ![m.rd] = Result(m)]
      /\ m.op \in {"STORE", "BRANCH", "HCF"} => rf' = rf
      /\ rf' \in [Reg -> Word] /\ ZeroKept' /\ BasesLand'
  BY OneWordRegisters
<1>4. /\ m.op = "JAL" => pc' = Add(pc, m.imm) % WordSize
      /\ m.op = "JALR" => pc' = Add(RegsMapped[m.rs1], m.imm) % WordSize
      /\ m.op = "BRANCH" =>
            pc' = IF Condition(m.funct, RegsMapped[m.rs1], RegsMapped[m.rs2])
                  THEN Add(pc, m.imm) % WordSize ELSE Add(pc, 4)
      /\ m.op \notin {"JAL", "JALR", "BRANCH"} => pc' = Add(pc, 4)
      /\ pc' \in Nat /\ ~Inner(source, pc')
      /\ m.op # "HCF" => Landing(source, pc')
  BY OneWordPc
<1>5. /\ m.op \in {"OP", "OP_IMM", "LOAD", "STORE", "BRANCH", "JALR"} =>
            RegsMapped[m.rs1] = rf[m.rs1]
      /\ m.op \in {"OP", "STORE", "BRANCH"} => RegsMapped[m.rs2] = rf[m.rs2]
  BY Operands
<1>6. RegsMapped' = Zeroed'
  BY <1>2, <1>4, There
<1>. HIDE DEF m
<1>7. m.op \in Writing => SetsTo(m.rd, Result(m))
  BY <1>1, <1>2, <1>3, <1>6, SetsOne
<1>8. m.op \in {"STORE", "BRANCH", "HCF"} => RegsMapped' = RegsMapped
  BY <1>1, <1>3, <1>6 DEF Zeroed, Reg
<1>9. m.op \in {"LOAD", "STORE"} =>
        Trunc(Add(RegsMapped[m.rs1], m.imm)) = Add(rf[m.rs1], m.imm)
  <2>1. rf[m.rs1] \in Int /\ m.imm \in Int
    BY <1>1, <1>2, WordKept
  <2>2. Add(rf[m.rs1], m.imm) \in Nat
    BY <2>1, AddType, Zenon
  <2>. QED
    BY <1>2, <1>5, <2>2, AccessKept
<1>10. mem' = (IF m.op = "STORE"
               THEN WriteLanes(mem, Trunc(Add(RegsMapped[m.rs1], m.imm)), m.funct,
                               RegsMapped[m.rs2])
               ELSE mem)
  BY <1>2, <1>5, <1>9, CpuMemory
<1>11. mem' \in Memories
  <2>1. rf[m.rs1] \in Int /\ rf[m.rs2] \in Word /\ m.imm \in Int
    BY <1>1, <1>2, WordKept
  <2>2. Add(rf[m.rs1], m.imm) \in Nat
    BY <2>1, AddType, Zenon
  <2>3. WriteLanes(mem, Add(rf[m.rs1], m.imm), m.funct, rf[m.rs2]) \in Memories
    BY <1>2, <2>1, <2>2, WriteLanesType
  <2>. QED
    BY <1>2, <2>3, CpuMemory
<1>12. Abstract!Next
  <2>1. /\ m.op = "OP" => SetsTo(m.rd, ALU(m.funct, RegsMapped[m.rs1], RegsMapped[m.rs2]))
        /\ m.op = "OP_IMM" => SetsTo(m.rd, ALU(m.funct, RegsMapped[m.rs1], m.imm))
    BY <1>5, <1>7, ResultIs DEF Writing
  <2>2. /\ m.op = "AUIPC" => SetsTo(m.rd, Add(pc, m.imm))
        /\ m.op = "LUI" => SetsTo(m.rd, m.imm)
        /\ m.op \in {"JAL", "JALR"} => SetsTo(m.rd, Add(pc, 4))
    BY <1>7, ResultIs DEF Writing
  <2>3. m.op = "LOAD" =>
          SetsTo(m.rd, ReadLanes(mem, Trunc(Add(RegsMapped[m.rs1], m.imm)), m.funct))
    BY <1>7, <1>9, ResultIs DEF Writing
  <2>. QED
    BY <1>1, <1>2, <1>4, <1>8, <1>10, <2>1, <2>2, <2>3, AbstractStep
<1>13. status' = "loaded" => pc' \in Nat /\ pc' % 4 = 0 /\ pc' <= End(source)
  <2>1. \A a \in Nat : Landing(source, a) => a % 4 = 0 /\ a <= End(source)
    BY DEF Landing
  <2>2. status' = "loaded" => m.op # "HCF"
    BY <1>2
  <2>. QED
    BY <1>4, <2>1, <2>2, Zenon
<1>. QED
  BY <1>3, <1>11, <1>12, <1>13, RunningBehind

\* Every instruction that is executed is one of the source's machine.
LEMMA ExecStep ==
    ASSUME source \in Sources, Runnable(source), Running, execOneInstr
    PROVE  Abstract!Next /\ Running'
<1>1. Fetching
  <2>1. status = "loaded" /\ pc < data_offset
    BY DEF execOneInstr, Cpu!InRange
  <2>. QED
    BY <2>1 DEF Fetching
<1>2. /\ Tidy(source) /\ Legal(source) /\ Fits(source) /\ pc \in Nat /\ pc % 4 = 0
      /\ pc \div 4 \in Slots /\ Cpu!Fetched = Decode(imem, pc)
      /\ Abstract!inst = SourceInst(source, pc)
      /\ Laid(imem, source)
  BY <1>1, Here DEF Running
<1>3. CASE Bare(source, pc)
  <2>1. Cpu!Fetched = Bubble
    BY <1>2, <1>3 DEF Laid
  <2>2. /\ ~Inner(source, pc)
        /\ \A k \in DOMAIN source : ~(IsInstr(source[k]) /\ Address(source, k) = pc)
    BY <1>2, <1>3, Whereabouts
  <2>3. SourceInst(source, pc) = Skip
    BY <1>2, <2>2, SourceInstIs
  <2>. QED
    BY <1>1, <2>1, <2>2, <2>3, ExecNothing
<1>4. CASE Inner(source, pc)
  BY <1>1, <1>4, ExecSecond DEF Inner
<1>5. ASSUME NEW k \in DOMAIN source, IsInstr(source[k]), Address(source, k) = pc
      PROVE  Abstract!Next /\ Running'
  <2>1. CASE Words(source[k].stmt) = 2
    BY <1>1, <1>5, <2>1, ExecFirst
  <2>2. CASE Words(source[k].stmt) # 2
    <3>1. Found(imem, source, k)
      BY <1>2, <1>5 DEF Laid
    <3>2. \/ Cpu!Fetched = Meaning(source, k)
          \/ Cpu!Fetched = Bubble /\ Meaning(source, k) = Skip
      BY <1>2, <1>5, <2>2, <3>1 DEF Found
    <3>3. CASE Cpu!Fetched = Meaning(source, k)
      <4>1. OneWord(k)
        BY <1>5, <2>2, <3>3 DEF OneWord
      <4>. QED
        BY <1>1, <4>1, ExecOneWord
    <3>4. CASE Cpu!Fetched = Bubble /\ Meaning(source, k) = Skip
      <4>1. SourceInst(source, pc) = Meaning(source, k) /\ ~Inner(source, pc)
        BY <1>2, <1>5, SourceInstIs, Whereabouts
      <4>2. \A j \in DOMAIN source : IsInstr(source[j]) /\ Address(source, j) = pc => j = k
        <5>1. TAKE j \in DOMAIN source
        <5>2. HAVE IsInstr(source[j]) /\ Address(source, j) = pc
        <5>3. /\ pc \in Int /\ pc < pc + Size(source[j]) /\ pc < pc + Size(source[k])
          BY <1>2, <1>5, <5>2, InstrPlace
        <5>. QED
          BY <1>2, <1>5, <5>2, <5>3, OneLine
      <4>3. Skip.op # "HCF"
        BY DEF Skip, I
      <4>4. \A j \in DOMAIN source : IsInstr(source[j]) /\ Address(source, j) = pc =>
               Words(source[j].stmt) # 2 /\ Meaning(source, j).op # "HCF"
        BY <2>2, <3>4, <4>2, <4>3
      <4>. QED
        BY <1>1, <3>4, <4>1, <4>4, ExecNothing
    <3>. QED
      BY <3>2, <3>3, <3>4
  <2>. QED
    BY <2>1, <2>2
<1>. QED
  BY <1>2, <1>3, <1>4, <1>5, Whereabouts
-----------------------------------------------------------------------------
(* The program as a whole. *)

\* While the source is read the CPU stands still; then it is somewhere in the text.
LoaderInv ==
    /\ source \in Sources
    /\ status \in {"parse", "normalize", "refused", "overrun", "loaded", "halted", "aborted"}
    /\ status \in {"parse", "normalize", "refused", "overrun"} =>
          Inv /\ pc = 0 /\ rf = [r \in Reg |-> 0]
    /\ status \in {"parse", "normalize"} => Untouched
    /\ status \in {"loaded", "halted", "aborted"} => Running

\* What the machine the source is read for has before a program runs.
LEMMA AtRest ==
    ASSUME pc = 0, rf = [r \in Reg |-> 0]
    PROVE  RegsMapped = [r \in Reg |-> 0]
BY DEF RegsMapped, SecondWord

\* At the start nothing has been read.
LEMMA LoaderInvInit ==
    ASSUME LoaderInit
    PROVE  LoaderInv /\ Abstract!Init
<1>1. AsmInit /\ pc = 0 /\ rf = [r \in Reg |-> 0]
  BY DEF LoaderInit
<1>2. source \in Sources /\ status = "parse" /\ mem = [x \in Addr |-> 0]
  BY <1>1 DEF AsmInit
<1>3. Inv
  BY <1>1, InvInit
<1>4. Untouched
  BY <1>2 DEF Untouched
<1>5. Reading[source].data \in Memories
  BY <1>2, SourceMemoryType DEF Reading
<1>6. Abstract!Init
  BY <1>1, <1>2, <1>5, AtRest, AbstractVocabulary DEF Abstract!Init
<1>. QED
  BY <1>1, <1>2, <1>3, <1>4, <1>6 DEF LoaderInv

\* A line is read, or the labels are replaced: the machine the source is read for
\* stands still, and has the data memory from the start.
LEMMA LoadingStep ==
    ASSUME LoaderInv, Runnable(source), simInit
    PROVE  LoaderInv' /\ UNCHANGED Abstract!isaVars
<1>1. AsmNext /\ pc' = pc /\ rf' = rf
  BY DEF simInit
<1>2. status \in {"parse", "normalize"} /\ source' = source
  BY <1>1 DEF AsmNext, Refuse, Blank, Section, parse_data_element, Instruction, EndOfFile,
              normalize_labels, Accepted
<1>3. /\ Inv /\ pc = 0 /\ rf = [r \in Reg |-> 0] /\ Untouched /\ source \in Sources
      /\ Tidy(source) /\ Fits(source) /\ status # "halted"
  BY <1>2 DEF LoaderInv, Runnable
<1>4. Inv'
  BY <1>1, <1>3, InvStep
<1>5. status' \in {"parse", "normalize", "refused", "overrun", "loaded"}
  BY <1>4 DEF Inv, TypeOK
<1>6. status' \in {"parse", "normalize"} => Untouched'
  BY <1>1, <1>3, UntouchedStep
<1>7. status' = "loaded" => normalize_labels
  BY <1>1, <1>2 DEF AsmNext, Refuse, Blank, Section, parse_data_element, Instruction, EndOfFile
<1>8. ASSUME status' = "loaded" PROVE Running' /\ mem' = Reading[source].data
  <2>1. status = "normalize" /\ mem' = mem
    BY <1>7, <1>8 DEF normalize_labels
  <2>2. Laid(imem', source)
    BY <1>3, <1>7, <1>8, LaidOut
  <2>3. mem = SourceMemory(source)
    BY <1>3, <2>1, LoadedMemory
  <2>4. mem' = Reading[source].data /\ mem' \in Memories
    BY <1>3, <2>1, <2>3, SourceMemoryType DEF Reading
  <2>5. 0 \in Word
    BY AddressTypes
  <2>6. rf' \in [Reg -> Word] /\ \A r \in Reg : rf'[r] = 0
    BY <1>1, <1>3, <2>5
  <2>7. ZeroKept'
    BY <2>6, SizeAssumption DEF ZeroKept, Reg
  <2>8. BasesLand'
    <3>1. \A i \in CodeOf(source) : i.rs1 \in Reg
      BY <1>3, CodeType DEF Runnable
    <3>. QED
      BY <1>2, <1>3, <2>6, <3>1, LandingZero DEF BasesLand
  <2>9. pc' \in Nat /\ pc' % 4 = 0 /\ pc' <= End(source')
    <3>1. 0 \in Nat /\ 0 % 4 = 0 /\ 0 <= End(source)
      BY <1>3, LandingZero, EndType
    <3>2. pc' = 0
      BY <1>1, <1>3
    <3>. QED
      BY <1>2, <3>1, <3>2, Zenon
  <2>. QED
    BY <1>2, <2>2, <2>4, <2>6, <2>7, <2>8, <2>9 DEF Running
<1>9. LoaderInv'
  BY <1>1, <1>2, <1>3, <1>4, <1>5, <1>6, <1>8 DEF LoaderInv
<1>10. UNCHANGED Abstract!isaVars
  <2>1. RegsMapped' = RegsMapped
    <3>1. RegsMapped' = [r \in Reg |-> 0]
      <4>1. pc' = 0 /\ rf' = [r \in Reg |-> 0]
        BY <1>1, <1>3
      <4>. QED
        BY <4>1 DEF RegsMapped, SecondWord, Reg
    <3>. QED
      BY <1>3, <3>1, AtRest
  <2>. QED
    BY <1>1, <1>2, <1>3, <1>5, <1>8, <2>1 DEF Abstract!isaVars
<1>. QED
  BY <1>9, <1>10

\* A program that is ended leaves everything as it is.
LEMMA AbortStep ==
    ASSUME LoaderInv, Abort
    PROVE  LoaderInv' /\ UNCHANGED Abstract!isaVars
<1>1. /\ status = "loaded" /\ status' = "aborted"
      /\ source' = source /\ imem' = imem /\ mem' = mem /\ pc' = pc /\ rf' = rf
  BY DEF Abort
<1>2. LoaderInv'
  BY <1>1 DEF LoaderInv, Running
<1>3. RegsMapped' = RegsMapped
  <2>1. SecondWord' = SecondWord
    BY <1>1 DEF SecondWord
  <2>2. Cpu!Fetched' = Cpu!Fetched
    BY <1>1 DEF Cpu!Fetched, Cpu!Slot
  <2>. QED
    BY <1>1, <2>1, <2>2 DEF RegsMapped, Reg
<1>. QED
  BY <1>1, <1>2, <1>3 DEF Abstract!isaVars

\* A step of nobody.
LEMMA LoaderStutter ==
    ASSUME LoaderInv, UNCHANGED loaderVars
    PROVE  LoaderInv' /\ UNCHANGED Abstract!isaVars
<1>1. /\ source' = source /\ imem' = imem /\ mem' = mem /\ pc' = pc /\ rf' = rf
      /\ status' = status /\ UNCHANGED asmVars
  BY DEF loaderVars, asmVars
<1>2. Inv => Inv'
  BY <1>1, InvStep
<1>3. Untouched => Untouched'
  BY <1>1 DEF Untouched, Read, asmVars
<1>4. Running => Running'
  BY <1>1 DEF Running, ZeroKept, BasesLand
<1>5. LoaderInv'
  BY <1>1, <1>2, <1>3, <1>4 DEF LoaderInv
<1>6. RegsMapped' = RegsMapped
  <2>1. SecondWord' = SecondWord
    BY <1>1 DEF SecondWord
  <2>2. Cpu!Fetched' = Cpu!Fetched
    BY <1>1 DEF Cpu!Fetched, Cpu!Slot
  <2>. QED
    BY <1>1, <2>1, <2>2 DEF RegsMapped, Reg
<1>. QED
  BY <1>1, <1>5, <1>6 DEF Abstract!isaVars

\* Every step keeps the invariant, and is an instruction of the source or none.
LEMMA LoaderStep ==
    ASSUME LoaderInv, Runnable(source), [LoaderNext]_loaderVars
    PROVE  LoaderInv' /\ [Abstract!Next]_Abstract!isaVars
<1>1. CASE simInit
  BY <1>1, LoadingStep
<1>2. CASE execOneInstr
  <2>1. status = "loaded" /\ source' = source /\ status' \in {"loaded", "halted"}
    BY <1>2 DEF execOneInstr
  <2>2. Abstract!Next /\ Running'
    BY <1>2, <2>1, ExecStep DEF LoaderInv
  <2>. QED
    BY <2>1, <2>2 DEF LoaderInv
<1>3. CASE Abort
  BY <1>3, AbortStep
<1>4. CASE UNCHANGED loaderVars
  BY <1>4, LoaderStutter
<1>. QED
  BY <1>1, <1>2, <1>3, <1>4 DEF LoaderNext

\* A program that ends in an HCF is never fetched beyond imem: whatever moves the
\* pc leads to a line of the text that is not the second word of one
\* (CPU.cc:236).
THEOREM FetchInTextAlways ==
    ASSUME \A src \in Sources : Runnable(src)
    PROVE  LoaderSpec => []FetchInText
<1>1. LoaderInit => LoaderInv
  BY LoaderInvInit
<1>2. LoaderInv /\ [LoaderNext]_loaderVars => LoaderInv'
  BY LoaderStep DEF LoaderInv
<1>3. LoaderInv => FetchInText
  <2>1. SUFFICES ASSUME LoaderInv, status = "loaded", EndsInHcf(source) PROVE pc < data_offset
    BY DEF FetchInText
  <2>2. source \in Sources /\ Runnable(source) /\ pc <= End(source) /\ pc \in Nat
    BY <2>1 DEF LoaderInv, Running
  <2>3. End(source) < data_offset /\ End(source) \in Nat /\ data_offset \in Nat
    BY <2>1, <2>2, EndType DEF Runnable
  <2>. QED
    BY <2>2, <2>3
<1>. QED
  BY <1>1, <1>2, <1>3, PTL DEF LoaderSpec

\* What is assembled and loaded runs like its source, for every set of sources that
\* can be run, every word size, size of the memories, number of registers and
\* ALU: loading leaves the data memory the source describes, and every
\* instruction executed has the effect its line has (Emulator.cc:145-450,
\* 513-629, CPU.cc:61-128).
THEOREM LoaderImplementsSource ==
    ASSUME \A src \in Sources : Runnable(src)
    PROVE  LoaderSpec => ImplementsSource
<1>1. LoaderInit => LoaderInv /\ Abstract!Init
  BY LoaderInvInit
<1>2. LoaderInv /\ [LoaderNext]_loaderVars => LoaderInv' /\ [Abstract!Next]_Abstract!isaVars
  BY LoaderStep DEF LoaderInv
<1>. QED
  BY <1>1, <1>2, PTL DEF LoaderSpec, ImplementsSource, Abstract!Spec
=============================================================================
