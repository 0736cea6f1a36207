--------------------------- MODULE AssemblerProofs ---------------------------
(***************************************************************************)
(* Theorems about the assembler, for every set of sources, every size of   *)
(* the memories and every value a new instr may hold.                      *)
(*                                                                         *)
(* TypeCorrect is inductive by itself.  PlacedAlways and DanglingRefused   *)
(* follow from Inv, which says of a tidy source what each line read so far *)
(* has left: its label in the table, its bytes in mem, and its words in    *)
(* imem, every other slot being new; so normalize_labels finds in a slot   *)
(* exactly what the statement that covers it is assembled to (Tells).      *)
(* LegalAccepted needs besides that the table has room for every label.    *)
(***************************************************************************)
EXTENDS AssemblerLemmas, FiniteSetTheorems

(* Values. *)

LEMMA LowSizeType == LowSize \in Nat \ {0} /\ LowSize <= WordSize
<1>1. LowSize \in Nat \ {0} /\ WordSize % LowSize = 0 /\ WordSize \in Nat \ {0}
  BY AssemblerAssumption, WordSizeType
<1>2. ASSUME LowSize > WordSize PROVE FALSE
  <2>1. WordSize % LowSize = WordSize
    BY <1>1, <1>2
  <2>. QED
    BY <1>1, <2>1
<1>. QED
  BY <1>1, <1>2

\* What the conversions make of a number is a word.
LEMMA ImmediateTypes ==
    /\ \A n \in Int : parse_imm(n) \in Word
    /\ \A w \in Word : signextend(w) \in Word /\ w \div LowSize \in Word /\ LowerPart(w) \in Word
<1>. USE LowSizeType, WordSizeType
<1>1. \A n \in Int : parse_imm(n) \in Word
  BY ModRange DEF parse_imm, Word
<1>2. ASSUME NEW w \in Word PROVE w % LowSize \in 0 .. LowSize - 1
  BY ModRange DEF Word
<1>3. ASSUME NEW w \in Word PROVE w \div LowSize \in Word
  BY DEF Word
<1>4. ASSUME NEW w \in Word PROVE signextend(w) \in Word
  <2>1. \A v \in 0 .. LowSize - 1 : (WordSize - LowSize) + v \in Word
    BY DEF Word
  <2>. QED
    BY <1>2, <2>1 DEF signextend
<1>5. ASSUME NEW w \in Word PROVE LowerPart(w) \in Word
  BY <1>2 DEF LowerPart, Word
<1>. QED
  BY <1>1, <1>3, <1>4, <1>5

LEMMA TokenTypes ==
    ASSUME NEW t, IsToken(t)
    PROVE  /\ IsReg(t) => parse_reg(t) \in 0 .. NumRegs
           /\ t.t \in {"imm", "mem"} => t.n \in Int
           /\ IsMem(t) => parse_reg(t.base) \in 0 .. NumRegs
           /\ strtol(t) \in Int
BY SizeAssumption DEF IsToken, IsReg, IsMem, strtol

LEMMA ByteType == \A w \in Word : \A j : ByteOf(w, j) \in Byte
<1>1. ByteSize \in Nat \ {0} /\ ByteSize * ByteSize \in Nat \ {0}
      /\ ByteSize * ByteSize * ByteSize \in Nat \ {0}
  BY SizeAssumption, ProductPositive
<1>2. ASSUME NEW w \in Word, NEW d \in Nat \ {0} PROVE w \div d \in Int
  BY WordSizeType DEF Word
<1>3. \A v \in Int : v % ByteSize \in Byte
  BY <1>1, ModRange DEF Byte
<1>4. \A w \in Word : w \in Int
  BY DEF Word
<1>. QED
  BY <1>1, <1>2, <1>3, <1>4 DEF ByteOf

LEMMA FillingType == CC \in Byte
BY SizeAssumption DEF CC, Byte
-----------------------------------------------------------------------------
(* Entries of imem. *)

LEMMA OperandTypes ==
    ASSUME NEW o, IsOperand(o)
    PROVE  /\ \A r \in 0 .. NumRegs : IsOperand(WithReg(o, r)) /\ IsOperand(AsReg(o, r))
           /\ \A w \in Word : IsOperand(WithImm(o, w)) /\ IsOperand(AsImm(o, w))
           /\ \A t : IsOperand(AsLabel(o, t))
BY DEF IsOperand, WithReg, AsReg, WithImm, AsImm, AsLabel

\* An operand keeps what the conversion to a register, an immediate or a label
\* does not set.
LEMMA OperandFields ==
    ASSUME NEW o, IsOperand(o)
    PROVE  /\ \A r : WithReg(o, r).type = o.type /\ AsReg(o, r).type = "REG"
           /\ \A w : WithImm(o, w).type = o.type /\ AsImm(o, w).type = "IMM"
           /\ \A t : /\ AsLabel(o, t).type = "LABEL" /\ AsLabel(o, t).imm = o.imm
                     /\ AsLabel(o, t).label = IF t.t = "name" THEN t.l ELSE None
BY DEF IsOperand, WithReg, AsReg, WithImm, AsImm, AsLabel

\* What WellFormed says of the operands of each kind of instruction.
LEMMA OperandKinds ==
    ASSUME NEW s, WellFormed(s)
    PROVE  LET a == s.args
           IN  /\ s.mn \in RegOps => Len(a) = 3 /\ IsReg(a[1]) /\ IsReg(a[2]) /\ IsReg(a[3])
               /\ s.mn \in ImmOps => Len(a) = 3 /\ IsReg(a[1]) /\ IsReg(a[2]) /\ a[3].t \in {"imm", "mem"}
               /\ s.mn \in MemOps \cup {"JALR"} => Len(a) = 2 /\ IsReg(a[1]) /\ IsMem(a[2])
               /\ s.mn \in BranchOps => Len(a) = 3 /\ IsReg(a[1]) /\ IsReg(a[2])
               /\ s.mn \in UpperOps => Len(a) = 2 /\ IsReg(a[1]) /\ a[2].t \in {"imm", "mem"}
<1>. USE DEF RegOps, AluOps, ImmOps, MemOps, BranchOps, UpperOps
<1>1. ASSUME s.mn \in RegOps
      PROVE  Len(s.args) = 3 /\ IsReg(s.args[1]) /\ IsReg(s.args[2]) /\ IsReg(s.args[3])
  BY <1>1 DEF WellFormed
<1>2. ASSUME s.mn \in ImmOps
      PROVE  Len(s.args) = 3 /\ IsReg(s.args[1]) /\ IsReg(s.args[2]) /\ s.args[3].t \in {"imm", "mem"}
  BY <1>2 DEF WellFormed, IsImm
<1>3. ASSUME s.mn \in MemOps \cup {"JALR"}
      PROVE  Len(s.args) = 2 /\ IsReg(s.args[1]) /\ IsMem(s.args[2])
  BY <1>3 DEF WellFormed
<1>4. ASSUME s.mn \in BranchOps
      PROVE  Len(s.args) = 3 /\ IsReg(s.args[1]) /\ IsReg(s.args[2])
  BY <1>4 DEF WellFormed
<1>5. ASSUME s.mn \in UpperOps
      PROVE  Len(s.args) = 2 /\ IsReg(s.args[1]) /\ s.args[2].t \in {"imm", "mem"}
  BY <1>5 DEF WellFormed, IsImm
<1>. HIDE DEF RegOps, AluOps, ImmOps, MemOps, BranchOps, UpperOps
<1>. QED
  BY <1>1, <1>2, <1>3, <1>4, <1>5

\* The entries a statement is assembled to are entries, one for each of its words.
LEMMA AssembledType ==
    ASSUME NEW s, IsStatement(s), s.kind = "instr", WellFormed(s),
           NEW e, IsEntry(e), NEW f, IsEntry(f)
    PROVE  /\ DOMAIN Assembled(s, e, f) = 1 .. Count(s)
           /\ \A j \in 1 .. Count(s) : IsEntry(Assembled(s, e, f)[j])
<1>. DEFINE a == s.args
<1>1. /\ Len(a) \in Nat /\ DOMAIN a = 1 .. Len(a)
      /\ \A k \in 1 .. Len(a) : IsToken(a[k])
  <2>. DEFINE R == {a[k] : k \in DOMAIN a}
  <2>1. a \in Seq(R) /\ \A k \in DOMAIN a : IsToken(a[k])
    BY DEF IsStatement
  <2>2. Len(a) \in Nat /\ DOMAIN a = 1 .. Len(a)
    <3>. HIDE DEF R
    <3>. QED
      BY <2>1
  <2>. QED
    BY <2>1, <2>2
<1>2. /\ \A k \in 1 .. Len(a) : IsReg(a[k]) => parse_reg(a[k]) \in 0 .. NumRegs
      /\ \A k \in 1 .. Len(a) : IsMem(a[k]) => parse_reg(a[k].base) \in 0 .. NumRegs
      /\ \A k \in 1 .. Len(a) : a[k].t \in {"imm", "mem"} => a[k].n \in Int
      /\ \A k \in 1 .. Len(a) : strtol(a[k]) \in Int
  BY <1>1, TokenTypes
<1>3. 0 \in 0 .. NumRegs /\ 1 \in 0 .. NumRegs /\ 0 \in Word
  BY SizeAssumption, WordSizeType DEF Word
<1>. DEFINE Good(o) == IsOperand(o)
<1>4. Good(e.a1) /\ Good(e.a2) /\ Good(e.a3) /\ Good(f.a1) /\ Good(f.a2) /\ Good(f.a3)
  BY DEF IsEntry
<1>5. /\ \A o, r : Good(o) /\ r \in 0 .. NumRegs => Good(WithReg(o, r)) /\ Good(AsReg(o, r))
      /\ \A o, w : Good(o) /\ w \in Word => Good(WithImm(o, w)) /\ Good(AsImm(o, w))
      /\ \A o, t : Good(o) => Good(AsLabel(o, t))
  BY OperandTypes
<1>. DEFINE Entry(op, a1, a2, a3) == [op |-> op, a1 |-> a1, a2 |-> a2, a3 |-> a3]
            r(k) == parse_reg(a[k])
            w == parse_imm(strtol(a[2]))
<1>6. \A op \in instr_type : \A a1, a2, a3 :
        Good(a1) /\ Good(a2) /\ Good(a3) => IsEntry(Entry(op, a1, a2, a3))
  BY DEF IsEntry
<1>7. CASE s.mn \notin Pseudos
  <2>1. Count(s) = 1 /\ Assembled(s, e, f) = <<parse_instr(s, e)>>
    BY <1>7 DEF Pseudos, Count, Assembled
  <2>2. IsEntry(parse_instr(s, e))
    <3>. DEFINE Put(a1, a2, a3) == Entry(parse_mnemonic(s.mn), a1, a2, a3)
    <3>1. \A a1, a2, a3 : Good(a1) /\ Good(a2) /\ Good(a3) => IsEntry(Put(a1, a2, a3))
      BY <1>6 DEF parse_mnemonic, instr_type
    <3>2. CASE s.mn \in RegOps
      <4>1. r(1) \in 0 .. NumRegs /\ r(2) \in 0 .. NumRegs /\ r(3) \in 0 .. NumRegs
        BY <1>1, <1>2, <3>2, OperandKinds
      <4>2. parse_instr(s, e) =
            Put(WithReg(e.a1, r(1)), WithReg(e.a2, r(2)), WithReg(e.a3, r(3)))
        BY <3>2 DEF parse_instr, RegOps, AluOps, ImmOps, MemOps, BranchOps, UpperOps
      <4>. HIDE DEF Good, Put, r
      <4>. QED
        BY <1>4, <1>5, <3>1, <4>1, <4>2
    <3>3. CASE s.mn \in ImmOps
      <4>1. r(1) \in 0 .. NumRegs /\ r(2) \in 0 .. NumRegs /\ a[3].n \in Int
        BY <1>1, <1>2, <3>3, OperandKinds
      <4>3. signextend(parse_imm(a[3].n)) \in Word
        BY <4>1, ImmediateTypes
      <4>2. parse_instr(s, e) =
            Put(WithReg(e.a1, r(1)), WithReg(e.a2, r(2)),
              WithImm(e.a3, signextend(parse_imm(a[3].n))))
        BY <3>3 DEF parse_instr, RegOps, AluOps, ImmOps, MemOps, BranchOps, UpperOps
      <4>. HIDE DEF Good, Put, r
      <4>. QED
        BY <1>4, <1>5, <3>1, <4>1, <4>2, <4>3
    <3>4. CASE s.mn \in MemOps \cup {"JALR"}
      <4>1. /\ r(1) \in 0 .. NumRegs /\ parse_reg(a[2].base) \in 0 .. NumRegs
            /\ parse_imm(a[2].n) \in Word
        <5>1. Len(a) = 2 /\ IsReg(a[1]) /\ IsMem(a[2]) /\ a[2].t = "mem"
          BY <3>4, OperandKinds DEF IsMem
        <5>. QED
          BY <1>1, <1>2, <5>1, ImmediateTypes
      <4>2. parse_instr(s, e) =
            Put(WithReg(e.a1, r(1)), WithReg(e.a2, parse_reg(a[2].base)),
              WithImm(e.a3, parse_imm(a[2].n)))
        BY <3>4 DEF parse_instr, RegOps, AluOps, ImmOps, MemOps, BranchOps, UpperOps
      <4>. HIDE DEF Good, Put, r
      <4>. QED
        BY <1>4, <1>5, <3>1, <4>1, <4>2
    <3>5. CASE s.mn \in BranchOps
      <4>1. r(1) \in 0 .. NumRegs /\ r(2) \in 0 .. NumRegs
        BY <1>1, <1>2, <3>5, OperandKinds
      <4>2. parse_instr(s, e) =
            Put(WithReg(e.a1, r(1)), WithReg(e.a2, r(2)), AsLabel(e.a3, a[3]))
        BY <3>5 DEF parse_instr, RegOps, AluOps, ImmOps, MemOps, BranchOps, UpperOps
      <4>. HIDE DEF Good, Put, r
      <4>. QED
        BY <1>4, <1>5, <3>1, <4>1, <4>2
    <3>6. CASE s.mn \in UpperOps
      <4>1. r(1) \in 0 .. NumRegs /\ parse_imm(a[2].n) \in Word
        BY <1>1, <1>2, <3>6, OperandKinds, ImmediateTypes
      <4>2. parse_instr(s, e) =
            Put(WithReg(e.a1, r(1)), WithImm(e.a2, parse_imm(a[2].n)), e.a3)
        BY <3>6 DEF parse_instr, RegOps, AluOps, ImmOps, MemOps, BranchOps, UpperOps
      <4>. HIDE DEF Good, Put, r
      <4>. QED
        BY <1>4, <1>5, <3>1, <4>1, <4>2
    <3>7. CASE s.mn = "JAL" /\ Len(a) = 2
      <4>1. r(1) \in 0 .. NumRegs
        BY <1>1, <1>2, <1>3, <3>7
        DEF WellFormed, RegOps, AluOps, ImmOps, MemOps, BranchOps, UpperOps
      <4>2. parse_instr(s, e) =
            Put(AsReg(e.a1, r(1)), AsLabel(e.a2, a[2]), e.a3)
        BY <3>7 DEF parse_instr, RegOps, AluOps, ImmOps, MemOps, BranchOps, UpperOps
      <4>. HIDE DEF Good, Put, r
      <4>. QED
        BY <1>4, <1>5, <3>1, <4>1, <4>2
    <3>8. CASE s.mn = "JAL" /\ Len(a) = 1
      <4>1. 1 \in 0 .. NumRegs
        BY <1>1, <1>2, <1>3, <3>8
        DEF WellFormed, RegOps, AluOps, ImmOps, MemOps, BranchOps, UpperOps
      <4>2. parse_instr(s, e) =
            Put(AsReg(e.a1, 1), AsLabel(e.a2, a[1]), e.a3)
        BY <3>8 DEF parse_instr, RegOps, AluOps, ImmOps, MemOps, BranchOps, UpperOps
      <4>. HIDE DEF Good, Put, r
      <4>. QED
        BY <1>4, <1>5, <3>1, <4>1, <4>2
    <3>9. CASE /\ s.mn \notin RegOps \cup ImmOps \cup MemOps \cup BranchOps \cup UpperOps
               /\ s.mn \notin {"JAL", "JALR"}
      <4>1. parse_instr(s, e) = Put(e.a1, e.a2, e.a3)
        BY <3>9 DEF parse_instr
      <4>. HIDE DEF Good, Put
      <4>. QED
        BY <1>4, <3>1, <4>1
    <3>10. s.mn = "JAL" => Len(a) = 1 \/ Len(a) = 2
      BY DEF WellFormed, RegOps, AluOps, ImmOps, MemOps, BranchOps, UpperOps
    <3>. HIDE DEF a
    <3>. QED
      BY <3>2, <3>3, <3>4, <3>5, <3>6, <3>7, <3>8, <3>9, <3>10
  <2>3. DOMAIN Assembled(s, e, f) = 1 .. 1 /\ Assembled(s, e, f)[1] = parse_instr(s, e)
    BY <2>1
  <2>. QED
    BY <2>1, <2>2, <2>3
<1>8. CASE s.mn \in Pseudos
  <2>1. Assembled(s, e, f) = parse_pseudoinstructions(s, e, f)
    BY <1>8 DEF Assembled
  <2>2. \A op \in {"LUI", "ADDI", "JALR", "JAL", "BNE", "BEQ"} : op \in instr_type
    BY DEF instr_type, RegOps, AluOps, ImmOps, MemOps, BranchOps, UpperOps
  <2>3. CASE s.mn = "LI"
    <3>. DEFINE first  == Entry("LUI", AsReg(e.a1, r(1)), AsImm(e.a2, w \div LowSize), e.a3)
                second == Entry("ADDI", AsReg(f.a1, r(1)), AsReg(f.a2, r(1)), AsImm(f.a3, LowerPart(w)))
    <3>1. r(1) \in 0 .. NumRegs /\ w \div LowSize \in Word /\ LowerPart(w) \in Word
      BY <1>1, <1>2, <2>3, ImmediateTypes DEF WellFormed, RegOps, AluOps, ImmOps, MemOps, BranchOps, UpperOps
    <3>2. IsEntry(first) /\ IsEntry(second)
      <4>. HIDE DEF Good, Entry, r, w
      <4>. QED
        BY <1>4, <1>5, <1>6, <2>2, <3>1
    <3>3. parse_pseudoinstructions(s, e, f) = <<first, second>> /\ Count(s) = 2
      BY <2>3 DEF Count, parse_pseudoinstructions
    <3>. HIDE DEF first, second
    <3>. QED
      BY <2>1, <3>2, <3>3
  <2>4. CASE s.mn = "LA"
    <3>. DEFINE first  == Entry("LUI", AsReg(e.a1, r(1)), AsLabel(e.a2, a[2]), e.a3)
                second == Entry("ADDI", AsReg(f.a1, r(1)), AsReg(f.a2, r(1)), AsLabel(f.a3, a[2]))
    <3>1. r(1) \in 0 .. NumRegs
      BY <1>1, <1>2, <2>4, ImmediateTypes DEF WellFormed, RegOps, AluOps, ImmOps, MemOps, BranchOps, UpperOps
    <3>2. IsEntry(first) /\ IsEntry(second)
      <4>. HIDE DEF Good, Entry, r, w
      <4>. QED
        BY <1>4, <1>5, <1>6, <2>2, <3>1
    <3>3. parse_pseudoinstructions(s, e, f) = <<first, second>> /\ Count(s) = 2
      BY <2>4 DEF Count, parse_pseudoinstructions
    <3>. HIDE DEF first, second
    <3>. QED
      BY <2>1, <3>2, <3>3
  <2>5. CASE s.mn = "RET"
    <3>. DEFINE only == Entry("JALR", AsReg(e.a1, 0), AsReg(e.a2, 1), AsImm(e.a3, 0))
    <3>2. IsEntry(only)
      <4>. HIDE DEF Good, Entry, r
      <4>. QED
        BY <1>3, <1>4, <1>5, <1>6, <2>2
    <3>3. parse_pseudoinstructions(s, e, f) = <<only>> /\ Count(s) = 1
      BY <2>5 DEF Count, parse_pseudoinstructions
    <3>. HIDE DEF only
    <3>. QED
      BY <2>1, <3>2, <3>3
  <2>6. CASE s.mn = "J"
    <3>. DEFINE only == Entry("JAL", AsReg(e.a1, 0), AsLabel(e.a2, a[1]), e.a3)
    <3>2. IsEntry(only)
      <4>. HIDE DEF Good, Entry, r
      <4>. QED
        BY <1>3, <1>4, <1>5, <1>6, <2>2
    <3>3. parse_pseudoinstructions(s, e, f) = <<only>> /\ Count(s) = 1
      BY <2>6 DEF Count, parse_pseudoinstructions
    <3>. HIDE DEF only
    <3>. QED
      BY <2>1, <3>2, <3>3
  <2>7. CASE s.mn = "MV"
    <3>. DEFINE only == Entry("ADDI", AsReg(e.a1, r(1)), AsReg(e.a2, r(2)), AsImm(e.a3, 0))
    <3>1. r(1) \in 0 .. NumRegs /\ r(2) \in 0 .. NumRegs
      BY <1>1, <1>2, <2>7 DEF WellFormed, RegOps, AluOps, ImmOps, MemOps, BranchOps, UpperOps
    <3>2. IsEntry(only)
      <4>. HIDE DEF Good, Entry, r
      <4>. QED
        BY <1>3, <1>4, <1>5, <1>6, <2>2, <3>1
    <3>3. parse_pseudoinstructions(s, e, f) = <<only>> /\ Count(s) = 1
      BY <2>7 DEF Count, parse_pseudoinstructions
    <3>. HIDE DEF only
    <3>. QED
      BY <2>1, <3>2, <3>3
  <2>8. CASE s.mn = "BNEZ"
    <3>. DEFINE only == Entry("BNE", AsReg(e.a1, r(1)), AsReg(e.a2, 0), AsLabel(e.a3, a[2]))
    <3>1. r(1) \in 0 .. NumRegs
      BY <1>1, <1>2, <2>8 DEF WellFormed, RegOps, AluOps, ImmOps, MemOps, BranchOps, UpperOps
    <3>2. IsEntry(only)
      <4>. HIDE DEF Good, Entry, r
      <4>. QED
        BY <1>3, <1>4, <1>5, <1>6, <2>2, <3>1
    <3>3. parse_pseudoinstructions(s, e, f) = <<only>> /\ Count(s) = 1
      BY <2>8 DEF Count, parse_pseudoinstructions
    <3>. HIDE DEF only
    <3>. QED
      BY <2>1, <3>2, <3>3
  <2>9. CASE s.mn = "BEQZ"
    <3>. DEFINE only == Entry("BEQ", AsReg(e.a1, r(1)), AsReg(e.a2, 0), AsLabel(e.a3, a[2]))
    <3>1. r(1) \in 0 .. NumRegs
      BY <1>1, <1>2, <2>9 DEF WellFormed, RegOps, AluOps, ImmOps, MemOps, BranchOps, UpperOps
    <3>2. IsEntry(only)
      <4>. HIDE DEF Good, Entry, r
      <4>. QED
        BY <1>3, <1>4, <1>5, <1>6, <2>2, <3>1
    <3>3. parse_pseudoinstructions(s, e, f) = <<only>> /\ Count(s) = 1
      BY <2>9 DEF Count, parse_pseudoinstructions
    <3>. HIDE DEF only
    <3>. QED
      BY <2>1, <3>2, <3>3
  <2>. QED
    BY <1>8, <2>3, <2>4, <2>5, <2>6, <2>7, <2>8, <2>9 DEF Pseudos
<1>. QED
  BY <1>7, <1>8
-----------------------------------------------------------------------------
(* The table of labels. *)

LEMMA LeastElement ==
    ASSUME NEW T, T \subseteq Nat, T # {}
    PROVE  \E x \in T : \A y \in T : x <= y
<1>1. PICK x \in T : \A y \in T : ~(<<y, x>> \in OpToRel(<, Nat))
  BY WFMin, NatLessThanWellFounded
<1>2. ASSUME NEW y \in T, y < x PROVE FALSE
  <2>1. <<y, x>> \in OpToRel(<, Nat)
    BY <1>2 DEF OpToRel
  <2>. QED
    BY <1>1, <2>1
<1>. QED
  BY <1>2

\* The address of a label is one of those noted for it.
LEMMA LabelAddrNoted ==
    ASSUME labels \in Seq([label : LabelsOf(source), loc : Nat]), NEW l, Defined(l)
    PROVE  \E k \in DOMAIN labels : labels[k].label = l /\ label_addr(l) = labels[k].loc
<1>. DEFINE T == {k \in DOMAIN labels : labels[k].label = l}
            First(k) == labels[k].label = l /\ \A j \in 1 .. k - 1 : labels[j].label # l
<1>1. Len(labels) \in Nat /\ DOMAIN labels = 1 .. Len(labels)
  OBVIOUS
<1>2. T \subseteq Nat /\ T # {}
  BY <1>1 DEF Defined
<1>3. PICK x \in T : \A y \in T : x <= y
  <2>. HIDE DEF T
  <2>. QED
    BY <1>2, LeastElement
<1>4. x \in DOMAIN labels /\ First(x)
  <2>1. x \in DOMAIN labels /\ labels[x].label = l
    OBVIOUS
  <2>2. ASSUME NEW j \in 1 .. x - 1 PROVE labels[j].label # l
    <3>1. j \in DOMAIN labels /\ ~(x <= j)
      BY <1>1, <2>1
    <3>. QED
      BY <1>3, <3>1
  <2>. QED
    BY <2>1, <2>2
<1>5. label_addr(l) = labels[CHOOSE k \in DOMAIN labels : First(k)].loc
  BY DEF label_addr
<1>. DEFINE first == CHOOSE k \in DOMAIN labels : First(k)
<1>6. first \in DOMAIN labels /\ First(first)
  <2>. HIDE DEF First
  <2>. QED
    BY <1>4
<1>. HIDE DEF first
<1>. QED
  BY <1>5, <1>6 DEF first

\* What normalize_labels makes of an entry whose labels are defined.
LEMMA NormalizedType ==
    ASSUME labels \in Seq([label : LabelsOf(source), loc : Nat]),
           NEW e, IsEntry(e),
           e.op # "UNIMPL" =>
               \A o \in {e.a1, e.a2, e.a3} : o.type = "LABEL" => Defined(o.label)
    PROVE  /\ IsEntry(Normalized(e)) /\ Normalized(e).op = e.op
           /\ e.op # "UNIMPL" =>
                 \A o \in {Normalized(e).a1, Normalized(e).a2, Normalized(e).a3} : o.type # "LABEL"
<1>1. CASE e.op = "UNIMPL"
  BY <1>1 DEF Normalized
<1>2. CASE e.op # "UNIMPL"
  <2>1. ASSUME NEW o \in {e.a1, e.a2, e.a3}
        PROVE  IsOperand(Resolved(o)) /\ Resolved(o).type # "LABEL" /\ Resolved(o).imm \in Word
    <3>1. IsOperand(o)
      BY DEF IsEntry
    <3>2. CASE o.type = "LABEL"
      <4>1. Defined(o.label)
        BY <1>2, <3>2
      <4>2. label_addr(o.label) \in Int
        <5>1. PICK k \in DOMAIN labels : label_addr(o.label) = labels[k].loc
          BY <4>1, LabelAddrNoted
        <5>2. labels[k] \in [label : LabelsOf(source), loc : Nat]
          <6>. DEFINE R == [label : LabelsOf(source), loc : Nat]
          <6>1. labels \in Seq(R)
            OBVIOUS
          <6>2. labels[k] \in R
            <7>. HIDE DEF R
            <7>. QED
              BY <5>1, <6>1
          <6>. QED
            BY <6>2
        <5>. QED
          BY <5>1, <5>2
      <4>3. label_addr(o.label) % WordSize \in Word
        BY <4>2, ModRange, WordSizeType DEF Word
      <4>. QED
        BY <3>1, <3>2, <4>3, OperandTypes DEF Resolved, IsOperand, AsImm
    <3>3. CASE o.type # "LABEL"
      BY <3>1, <3>3 DEF Resolved, IsOperand
    <3>. QED
      BY <3>2, <3>3
  <2>2. ASSUME NEW o, IsOperand(o), o.type # "LABEL", NEW w \in Word
        PROVE  IsOperand(WithImm(o, w)) /\ WithImm(o, w).type # "LABEL"
    BY <2>2 DEF WithImm, IsOperand
  <2>3. \A w \in Word : w \div LowSize \in Word /\ LowerPart(w) \in Word
    BY ImmediateTypes
  <2>. DEFINE x == Normalized(e)
  <2>4. /\ x.op = e.op /\ x.a1 = Resolved(e.a1)
        /\ x.a2 = Resolved(e.a2)
             \/ x.a2 = WithImm(Resolved(e.a2), Resolved(e.a2).imm \div LowSize)
        /\ x.a3 = Resolved(e.a3)
             \/ x.a3 = WithImm(Resolved(e.a3), LowerPart(Resolved(e.a3).imm))
    BY <1>2 DEF Normalized
  <2>5. \A o \in {e.a1, e.a2, e.a3} :
           /\ IsOperand(Resolved(o)) /\ Resolved(o).type # "LABEL" /\ Resolved(o).imm \in Word
    BY <2>1 DEF IsOperand
  <2>. HIDE DEF x
  <2>6. \A o \in {x.a1, x.a2, x.a3} : IsOperand(o) /\ o.type # "LABEL"
    BY <2>2, <2>3, <2>4, <2>5
  <2>. QED
    BY <2>4, <2>6 DEF x, IsEntry
<1>. QED
  BY <1>1, <1>2
-----------------------------------------------------------------------------
(* Type correctness. *)

LEMMA InitType == AsmInit => TypeOK
<1>. SUFFICES ASSUME AsmInit PROVE TypeOK
  OBVIOUS
<1>1. Len(source) \in Nat /\ line \in 1 .. Len(source) + 1
  BY SourceType DEF AsmInit
<1>2. labels \in Seq([label : LabelsOf(source), loc : Nat])
  BY DEF AsmInit
<1>3. ASSUME NEW u \in Uninit PROVE IsEntry(NewInstr(u))
  BY AssemblerAssumption, SizeAssumption DEF IsEntry, IsOperand, NewInstr, instr_type
<1>4. 0 \in Byte
  BY SizeAssumption DEF Byte
<1>. QED
  BY <1>1, <1>2, <1>3, <1>4 DEF AsmInit, TypeOK, Memories

\* The line a step reads.
LEMMA LineType ==
    ASSUME TypeOK, line <= Len(source)
    PROVE  /\ Len(source) \in Nat /\ line \in 1 .. Len(source) /\ line \in DOMAIN source
           /\ line + 1 \in 1 .. Len(source) + 1
           /\ IsStatement(stmt)
BY SourceType DEF TypeOK, stmt

LEMMA NoteLabelType ==
    ASSUME TypeOK, line <= Len(source), NoteLabel
    PROVE  labels' \in Seq([label : LabelsOf(source), loc : Nat])
<1>1. line \in DOMAIN source
  BY LineType
<1>2. source[line].label # None => source[line].label \in LabelsOf(source)
  BY <1>1 DEF LabelsOf
<1>. DEFINE R == [label : LabelsOf(source), loc : Nat]
            new == [label |-> source[line].label, loc |-> memoff]
<1>3. labels \in Seq(R)
  BY DEF TypeOK
<1>4. CASE source[line].label = None
  BY <1>3, <1>4 DEF NoteLabel
<1>5. CASE source[line].label # None
  <2>1. new \in R /\ labels' = Append(labels, new)
    BY <1>2, <1>5 DEF NoteLabel, TypeOK
  <2>. HIDE DEF R, new
  <2>2. labels' \in Seq(R)
    BY <1>3, <2>1
  <2>. QED
    BY <2>2 DEF R
<1>. QED
  BY <1>4, <1>5

LEMMA TypeStep == TypeOK /\ [AsmNext]_asmVars => TypeOK'
<1>. SUFFICES ASSUME TypeOK, [AsmNext]_asmVars PROVE TypeOK'
  OBVIOUS
<1>. DEFINE L == [label : LabelsOf(source), loc : Nat]
            Loaded(e) == status' = "loaded" /\ e.op # "UNIMPL" =>
                            \A o \in {e.a1, e.a2, e.a3} : o.type # "LABEL"
<1>1. SUFFICES /\ source' = source
               /\ line' \in 1 .. Len(source) + 1 /\ memoff' \in Nat
               /\ labels' \in Seq(L)
               /\ DOMAIN imem' = Slots
               /\ \A s \in Slots : IsEntry(imem'[s]) /\ Loaded(imem'[s])
               /\ mem' \in Memories
               /\ status' \in {"parse", "normalize", "loaded", "refused", "overrun"}
  <2>1. Slots' = Slots /\ (\A e : IsEntry(e)' = IsEntry(e)) /\ L' = [label : LabelsOf(source'), loc : Nat]
    BY DEF Slots, IsEntry
  <2>. QED
    BY DEF TypeOK
<1>2. /\ source \in Sources /\ line \in 1 .. Len(source) + 1 /\ memoff \in Nat
      /\ labels \in Seq(L) /\ DOMAIN imem = Slots /\ mem \in Memories
      /\ status \in {"parse", "normalize", "loaded", "refused", "overrun"}
      /\ \A s \in Slots : IsEntry(imem[s])
      /\ status = "loaded" => \A s \in Slots : imem[s].op # "UNIMPL" =>
            \A o \in {imem[s].a1, imem[s].a2, imem[s].a3} : o.type # "LABEL"
  BY DEF TypeOK
<1>3. CASE Refuse
  <2>. HIDE DEF L
  <2>. QED
    BY <1>2, <1>3 DEF Refuse
<1>4. CASE Blank
  <2>1. labels' \in Seq(L) /\ line' \in 1 .. Len(source) + 1
    BY <1>4, NoteLabelType, LineType DEF Blank, Accepted
  <2>. HIDE DEF L
  <2>. QED
    BY <1>2, <1>4, <2>1 DEF Blank, Accepted
<1>5. CASE Section
  <2>1. labels' \in Seq(L) /\ line' \in 1 .. Len(source) + 1
    BY <1>5, NoteLabelType, LineType DEF Section, Accepted
  <2>2. memoff' \in Nat
    BY <1>5, AssemblerAssumption DEF Section
  <2>. HIDE DEF L
  <2>. QED
    BY <1>2, <1>5, <2>1, <2>2 DEF Section, Accepted
<1>6. CASE parse_data_element
  <2>. DEFINE width == ElementSize(stmt.dir)
              size == width * Len(stmt.args)
              value(x) == strtol(stmt.args[(x - memoff) \div width + 1]) % WordSize
  <2>1. labels' \in Seq(L) /\ line' \in 1 .. Len(source) + 1
    BY <1>6, NoteLabelType, LineType DEF parse_data_element, Accepted
  <2>2. width \in {1, 2, 4} /\ stmt.kind # "none"
    BY <1>6 DEF parse_data_element, ElementSize
  <2>3. IsStatement(stmt)
    BY <1>6, LineType DEF parse_data_element, Accepted
  <2>. DEFINE R == {stmt.args[k] : k \in DOMAIN stmt.args}
  <2>4. stmt.args \in Seq(R) /\ \A k \in DOMAIN stmt.args : IsToken(stmt.args[k])
    BY <2>2, <2>3 DEF IsStatement
  <2>5. Len(stmt.args) \in Nat /\ DOMAIN stmt.args = 1 .. Len(stmt.args)
    <3>. HIDE DEF R
    <3>. QED
      BY <2>4
  <2>6. memoff' = memoff + size /\ size \in Nat
    BY <1>6, <2>2, <2>5 DEF parse_data_element
  <2>7. ASSUME NEW x \in Addr, x >= memoff, x < memoff + size
        PROVE  value(x) \in Word
    <3>1. (x - memoff) \div width + 1 \in 1 .. Len(stmt.args)
      <4>. DEFINE n == Len(stmt.args)
      <4>. HIDE DEF n, width
      <4>1. n \in Nat /\ x \in Int /\ memoff \in Nat
        BY <1>2, <2>5 DEF n, Addr
      <4>2. x - memoff \in Nat /\ x - memoff < width * n
        BY <2>7, <4>1, <2>2 DEF n
      <4>. QED
        BY <2>2, <4>1, <4>2 DEF n
    <3>2. strtol(stmt.args[(x - memoff) \div width + 1]) \in Int
      BY <2>4, <2>5, <3>1, TokenTypes
    <3>. QED
      BY <3>2, ModRange, WordSizeType DEF Word
  <2>8. mem' = [x \in Addr |-> IF x >= memoff /\ x < memoff + size
                               THEN ByteOf(value(x), (x - memoff) % width) ELSE mem[x]]
    BY <1>6 DEF parse_data_element
  <2>9. mem' \in Memories
    <3>. HIDE DEF value, size, width
    <3>1. \A x \in Addr : mem[x] \in Byte
      BY <1>2 DEF Memories
    <3>. QED
      BY <2>7, <2>8, <3>1, ByteType DEF Memories
  <2>. HIDE DEF L
  <2>. QED
    BY <1>2, <1>6, <2>1, <2>6, <2>9 DEF parse_data_element, Accepted
<1>7. CASE Instruction
  <2>1. labels' \in Seq(L) /\ line' \in 1 .. Len(source) + 1
    BY <1>7, NoteLabelType, LineType DEF Instruction, Accepted
  <2>2. memoff' \in Nat /\ ioff \in Slots
    <3>1. stmt.kind = "instr" /\ ~StmtRefused /\ memoff' = memoff + 4 * Count(stmt)
      BY <1>7 DEF Instruction, Accepted
    <3>2. memoff + 4 <= data_offset
      BY <1>2, <3>1, AssemblerAssumption DEF StmtRefused
    <3>. QED
      BY <1>2, <3>1, <3>2, AssemblerAssumption DEF ioff, Slots, Count
  <2>3. mem' \in Memories
    <3>1. \A x \in Addr : mem[x] \in Byte
      BY <1>2 DEF Memories
    <3>. QED
      BY <1>7, <3>1, FillingType DEF Instruction, Memories
  <2>. DEFINE next  == IF ioff + 1 \in Slots THEN imem[ioff + 1] ELSE imem[ioff]
              words == Assembled(stmt, imem[ioff], next)
  <2>4. IsEntry(imem[ioff]) /\ IsEntry(next)
    BY <1>2, <2>2
  <2>5. IsStatement(stmt) /\ stmt.kind = "instr" /\ WellFormed(stmt)
    BY <1>7, LineType DEF Instruction, Accepted, StmtRefused
  <2>6. \A j \in DOMAIN words : IsEntry(words[j])
    <3>. HIDE DEF next
    <3>. QED
      BY <2>4, <2>5, AssembledType
  <2>7. imem' = [s \in Slots |-> IF s - ioff + 1 \in DOMAIN words THEN words[s - ioff + 1]
                                 ELSE imem[s]]
    BY <1>7 DEF Instruction
  <2>8. DOMAIN imem' = Slots /\ \A s \in Slots : IsEntry(imem'[s])
    <3>. HIDE DEF words
    <3>. QED
      BY <1>2, <2>6, <2>7
  <2>. HIDE DEF L
  <2>. QED
    BY <1>2, <1>7, <2>1, <2>2, <2>3, <2>8 DEF Instruction, Accepted
<1>8. CASE EndOfFile
  <2>. HIDE DEF L
  <2>. QED
    BY <1>2, <1>8 DEF EndOfFile
<1>9. CASE normalize_labels
  <2>1. CASE status' = "refused"
    <3>. HIDE DEF L
    <3>. QED
      BY <1>2, <1>9, <2>1 DEF normalize_labels
  <2>2. CASE status' # "refused"
    <3>1. /\ imem' = [s \in Slots |-> Normalized(imem[s])] /\ status' = "loaded"
          /\ \A s \in Slots : imem[s].op # "UNIMPL" =>
                \A o \in {imem[s].a1, imem[s].a2, imem[s].a3} :
                    o.type = "LABEL" => Defined(o.label)
      BY <1>9, <2>2 DEF normalize_labels
    <3>2. \A s \in Slots : IsEntry(imem'[s]) /\ Loaded(imem'[s])
      <4>1. TAKE s \in Slots
      <4>2. /\ IsEntry(Normalized(imem[s])) /\ Normalized(imem[s]).op = imem[s].op
            /\ imem[s].op # "UNIMPL" =>
                 \A o \in {Normalized(imem[s]).a1, Normalized(imem[s]).a2, Normalized(imem[s]).a3} :
                      o.type # "LABEL"
        BY <1>2, <3>1, NormalizedType
      <4>3. imem'[s] = Normalized(imem[s])
        BY <3>1
      <4>. QED
        BY <4>2, <4>3
    <3>. HIDE DEF L
    <3>. QED
      BY <1>2, <1>9, <3>1, <3>2 DEF normalize_labels
  <2>. QED
    BY <2>1, <2>2
<1>10. CASE UNCHANGED asmVars
  <2>. HIDE DEF L
  <2>. QED
    BY <1>2, <1>10 DEF asmVars
<1>. HIDE DEF L
<1>. QED
  BY <1>3, <1>4, <1>5, <1>6, <1>7, <1>8, <1>9, <1>10 DEF AsmNext

\* Every operand is a register parse_reg accepts and a word, the table holds
\* labels of the source, and a loaded program has no label left in it
\* (Emulator.cc:145-640).
THEOREM TypeCorrect == AsmSpec => []TypeOK
<1>. QED
  BY InitType, TypeStep, PTL DEF AsmSpec
-----------------------------------------------------------------------------
(* What parse leaves in the two memories and in the table. *)

\* What an entry tells of the statement it was made of, in front of normalize_labels.
Tells(x, s, u) ==
    /\ s.mn \in (instr_type \ {"UNIMPL"}) \cup Pseudos => x.op # "UNIMPL"
    /\ \A o \in {x.a1, x.a2, x.a3} : o.type = "LABEL" => s.mn \in Naming /\ o.label = NamedBy(s)
    /\ s.mn \in Naming => \E o \in {x.a1, x.a2, x.a3} : o.type = "LABEL"
    /\ x.op \in BranchOps <=> s.mn \in BranchOps \cup {"BNEZ", "BEQZ"}
    /\ x.op \in BranchOps => x.a3.type = "LABEL"
    /\ x.op = "JAL" <=> s.mn \in {"JAL", "J"}
    /\ x.op = "JAL" => x.a3.imm = u

LEMMA AssembledTells ==
    ASSUME NEW s, s.kind = "instr", WellFormed(s), Len(s.args) \in Nat, NEW u
    PROVE  \A j \in 1 .. Count(s) : Tells(Assembled(s, NewInstr(u), NewInstr(u))[j], s, u)
<1>. DEFINE e == NewInstr(u)
            a == s.args
            r(k) == parse_reg(a[k])
            w == parse_imm(strtol(a[2]))
            all == Assembled(s, e, e)
            Entry(op, a1, a2, a3) == [op |-> op, a1 |-> a1, a2 |-> a2, a3 |-> a3]
<1>. USE DEF RegOps, AluOps, ImmOps, MemOps, BranchOps, UpperOps
<1>1. CASE s.mn \in RegOps
  <2>1. all = <<parse_instr(s, e)>> /\ Count(s) = 1
    BY <1>1 DEF Assembled, Pseudos, Count
  <2>. DEFINE x == Entry(s.mn, WithReg(e.a1, r(1)), WithReg(e.a2, r(2)), WithReg(e.a3, r(3)))
  <2>3. parse_instr(s, e) = x
    BY <1>1 DEF parse_instr, parse_mnemonic, instr_type
  <2>4. x.op = s.mn /\ \A o \in {x.a1, x.a2, x.a3} : o.type = "NONE"
    BY DEF NewInstr, WithReg, WithImm
  <2>2. Tells(parse_instr(s, e), s, u)
    <3>. HIDE DEF x
    <3>. QED
      BY <1>1, <2>3, <2>4 DEF Tells, Naming, Pseudos
  <2>. QED
    BY <2>1, <2>2
<1>2. CASE s.mn \in ImmOps
  <2>1. all = <<parse_instr(s, e)>> /\ Count(s) = 1
    BY <1>2 DEF Assembled, Pseudos, Count
  <2>. DEFINE x == Entry(s.mn, WithReg(e.a1, r(1)), WithReg(e.a2, r(2)),
                WithImm(e.a3, signextend(parse_imm(a[3].n))))
  <2>3. parse_instr(s, e) = x
    BY <1>2 DEF parse_instr, parse_mnemonic, instr_type
  <2>4. x.op = s.mn /\ \A o \in {x.a1, x.a2, x.a3} : o.type = "NONE"
    BY DEF NewInstr, WithReg, WithImm
  <2>2. Tells(parse_instr(s, e), s, u)
    <3>. HIDE DEF x
    <3>. QED
      BY <1>2, <2>3, <2>4 DEF Tells, Naming, Pseudos
  <2>. QED
    BY <2>1, <2>2
<1>3. CASE s.mn \in MemOps \cup {"JALR"}
  <2>1. all = <<parse_instr(s, e)>> /\ Count(s) = 1
    BY <1>3 DEF Assembled, Pseudos, Count
  <2>. DEFINE x == Entry(s.mn, WithReg(e.a1, r(1)), WithReg(e.a2, parse_reg(a[2].base)),
                WithImm(e.a3, parse_imm(a[2].n)))
  <2>3. parse_instr(s, e) = x
    BY <1>3 DEF parse_instr, parse_mnemonic, instr_type
  <2>4. x.op = s.mn /\ \A o \in {x.a1, x.a2, x.a3} : o.type = "NONE"
    BY DEF NewInstr, WithReg, WithImm
  <2>2. Tells(parse_instr(s, e), s, u)
    <3>. HIDE DEF x
    <3>. QED
      BY <1>3, <2>3, <2>4 DEF Tells, Naming, Pseudos
  <2>. QED
    BY <2>1, <2>2
<1>4. CASE s.mn \in BranchOps
  <2>1. all = <<parse_instr(s, e)>> /\ Count(s) = 1
    BY <1>4 DEF Assembled, Pseudos, Count
  <2>2. Tells(parse_instr(s, e), s, u)
    BY <1>4
    DEF parse_instr, WithReg, WithImm, AsLabel, NewInstr, Tells, Naming,
        Pseudos, parse_mnemonic, instr_type, NamedBy
  <2>. QED
    BY <2>1, <2>2
<1>5. CASE s.mn \in UpperOps
  <2>1. all = <<parse_instr(s, e)>> /\ Count(s) = 1
    BY <1>5 DEF Assembled, Pseudos, Count
  <2>. DEFINE x == Entry(s.mn, WithReg(e.a1, r(1)), WithImm(e.a2, parse_imm(a[2].n)), e.a3)
  <2>3. parse_instr(s, e) = x
    BY <1>5 DEF parse_instr, parse_mnemonic, instr_type
  <2>4. x.op = s.mn /\ \A o \in {x.a1, x.a2, x.a3} : o.type = "NONE"
    BY DEF NewInstr, WithReg, WithImm
  <2>2. Tells(parse_instr(s, e), s, u)
    <3>. HIDE DEF x
    <3>. QED
      BY <1>5, <2>3, <2>4 DEF Tells, Naming, Pseudos
  <2>. QED
    BY <2>1, <2>2
<1>6. CASE s.mn = "JAL"
  <2>1. all = <<parse_instr(s, e)>> /\ Count(s) = 1
    BY <1>6 DEF Assembled, Pseudos, Count
  <2>2. Tells(parse_instr(s, e), s, u)
    BY <1>6
    DEF parse_instr, WithReg, WithImm, AsReg, AsLabel, NewInstr, Tells, Naming,
         Pseudos, NamedBy, parse_mnemonic, instr_type, WellFormed
  <2>. QED
    BY <2>1, <2>2
<1>7. CASE s.mn = "LI"
  <2>. DEFINE first == Entry("LUI", AsReg(e.a1, r(1)), AsImm(e.a2, w \div LowSize), e.a3)
              second == Entry("ADDI", AsReg(e.a1, r(1)), AsReg(e.a2, r(1)), AsImm(e.a3, LowerPart(w)))
  <2>1. all = <<first, second>> /\ Count(s) = 2
    BY <1>7 DEF Assembled, parse_pseudoinstructions, Pseudos, Count
  <2>2. Tells(first, s, u)
    BY <1>7
    DEF WithReg, AsReg, AsImm, AsLabel, NewInstr, Tells, Naming, Pseudos, NamedBy,
         instr_type, WellFormed
  <2>3. Tells(second, s, u)
    BY <1>7
    DEF WithReg, AsReg, AsImm, AsLabel, NewInstr, Tells, Naming, Pseudos, NamedBy,
         instr_type, WellFormed
  <2>. HIDE DEF all, first, second
  <2>. QED
    BY <2>1, <2>2, <2>3 DEF all
<1>8. CASE s.mn = "LA"
  <2>. DEFINE first == Entry("LUI", AsReg(e.a1, r(1)), AsLabel(e.a2, a[2]), e.a3)
              second == Entry("ADDI", AsReg(e.a1, r(1)), AsReg(e.a2, r(1)), AsLabel(e.a3, a[2]))
  <2>1. all = <<first, second>> /\ Count(s) = 2
    BY <1>8 DEF Assembled, parse_pseudoinstructions, Pseudos, Count
  <2>2. Tells(first, s, u)
    BY <1>8
    DEF WithReg, AsReg, AsImm, AsLabel, NewInstr, Tells, Naming, Pseudos, NamedBy,
         instr_type, WellFormed
  <2>3. Tells(second, s, u)
    BY <1>8
    DEF WithReg, AsReg, AsImm, AsLabel, NewInstr, Tells, Naming, Pseudos, NamedBy,
         instr_type, WellFormed
  <2>. HIDE DEF all, first, second
  <2>. QED
    BY <2>1, <2>2, <2>3 DEF all
<1>9. CASE s.mn = "RET"
  <2>. DEFINE only == Entry("JALR", AsReg(e.a1, 0), AsReg(e.a2, 1), AsImm(e.a3, 0))
  <2>1. all = <<only>> /\ Count(s) = 1
    BY <1>9 DEF Assembled, parse_pseudoinstructions, Pseudos, Count
  <2>2. Tells(only, s, u)
    BY <1>9
    DEF WithReg, AsReg, AsImm, AsLabel, NewInstr, Tells, Naming, Pseudos, NamedBy,
         instr_type, WellFormed
  <2>. HIDE DEF all, only
  <2>. QED
    BY <2>1, <2>2 DEF all
<1>10. CASE s.mn = "J"
  <2>. DEFINE only == Entry("JAL", AsReg(e.a1, 0), AsLabel(e.a2, a[1]), e.a3)
  <2>1. all = <<only>> /\ Count(s) = 1
    BY <1>10 DEF Assembled, parse_pseudoinstructions, Pseudos, Count
  <2>2. Tells(only, s, u)
    BY <1>10
    DEF WithReg, AsReg, AsImm, AsLabel, NewInstr, Tells, Naming, Pseudos, NamedBy,
         instr_type, WellFormed
  <2>. HIDE DEF all, only
  <2>. QED
    BY <2>1, <2>2 DEF all
<1>11. CASE s.mn = "MV"
  <2>. DEFINE only == Entry("ADDI", AsReg(e.a1, r(1)), AsReg(e.a2, r(2)), AsImm(e.a3, 0))
  <2>1. all = <<only>> /\ Count(s) = 1
    BY <1>11 DEF Assembled, parse_pseudoinstructions, Pseudos, Count
  <2>2. Tells(only, s, u)
    BY <1>11
    DEF WithReg, AsReg, AsImm, AsLabel, NewInstr, Tells, Naming, Pseudos, NamedBy,
         instr_type, WellFormed
  <2>. HIDE DEF all, only
  <2>. QED
    BY <2>1, <2>2 DEF all
<1>12. CASE s.mn = "BNEZ"
  <2>. DEFINE only == Entry("BNE", AsReg(e.a1, r(1)), AsReg(e.a2, 0), AsLabel(e.a3, a[2]))
  <2>1. all = <<only>> /\ Count(s) = 1
    BY <1>12 DEF Assembled, parse_pseudoinstructions, Pseudos, Count
  <2>2. Tells(only, s, u)
    BY <1>12
    DEF WithReg, AsReg, AsImm, AsLabel, NewInstr, Tells, Naming, Pseudos, NamedBy,
         instr_type, WellFormed
  <2>. HIDE DEF all, only
  <2>. QED
    BY <2>1, <2>2 DEF all
<1>13. CASE s.mn = "BEQZ"
  <2>. DEFINE only == Entry("BEQ", AsReg(e.a1, r(1)), AsReg(e.a2, 0), AsLabel(e.a3, a[2]))
  <2>1. all = <<only>> /\ Count(s) = 1
    BY <1>13 DEF Assembled, parse_pseudoinstructions, Pseudos, Count
  <2>2. Tells(only, s, u)
    BY <1>13
    DEF WithReg, AsReg, AsImm, AsLabel, NewInstr, Tells, Naming, Pseudos, NamedBy,
         instr_type, WellFormed
  <2>. HIDE DEF all, only
  <2>. QED
    BY <2>1, <2>2 DEF all
<1>14. CASE s.mn = "HCF"
  <2>1. all = <<Entry("HCF", e.a1, e.a2, e.a3)>> /\ Count(s) = 1
    BY <1>14 DEF Assembled, parse_instr, parse_mnemonic, instr_type, Pseudos, Count
  <2>2. Tells(Entry("HCF", e.a1, e.a2, e.a3), s, u)
    BY <1>14 DEF NewInstr, Tells, Naming, Pseudos, NamedBy
  <2>. HIDE DEF all, Entry
  <2>. QED
    BY <2>1, <2>2 DEF all
<1>15. CASE s.mn \notin (instr_type \ {"UNIMPL"}) \cup Pseudos
  <2>1. all = <<Entry("UNIMPL", e.a1, e.a2, e.a3)>> /\ Count(s) = 1
    BY <1>15 DEF Assembled, parse_instr, parse_mnemonic, instr_type, Pseudos, Count
  <2>2. Tells(Entry("UNIMPL", e.a1, e.a2, e.a3), s, u)
    BY <1>15 DEF NewInstr, Tells, Naming, Pseudos, NamedBy, instr_type
  <2>. HIDE DEF all, Entry
  <2>. QED
    BY <2>1, <2>2 DEF all
<1>. QED
  BY <1>1, <1>2, <1>3, <1>4, <1>5, <1>6, <1>7, <1>8, <1>9, <1>10, <1>11, <1>12, <1>13, <1>14, <1>15
  DEF instr_type, Pseudos

\* The lines read so far, and the words of one of them.
Read == 1 .. line - 1
Covers(k, s) ==
    IsInstr(source[k]) /\ s - Address(source, k) \div 4 \in 0 .. Words(source[k].stmt) - 1

\* The next line stands behind those read, and within the memories.
AtPlace == memoff = Place(source, line - 1) /\ memoff <= AddrSize

Inside ==
    \A k \in Read :
        /\ Address(source, k) + Size(source[k]) <= AddrSize
        /\ IsInstr(source[k]) => /\ WellFormed(source[k].stmt)
                                 /\ Address(source, k) + Size(source[k]) <= data_offset

\* The table holds the labels of the lines read, with their places.
Noted(k) == [label |-> source[k].label, loc |-> Address(source, k)]
Listed ==
    /\ \A k \in Read : source[k].label # None => \E j \in DOMAIN labels : labels[j] = Noted(k)
    /\ \A j \in DOMAIN labels : \E k \in Read : source[k].label # None /\ labels[j] = Noted(k)
    /\ \A i, j \in DOMAIN labels : i # j => labels[i].label # labels[j].label

\* A slot of imem holds what the line that covers it is assembled to, and is
\* new when there is none.
Written(u) ==
    /\ \A k \in Read, s \in Slots : Covers(k, s) =>
          imem[s] = Assembled(source[k].stmt, NewInstr(u), NewInstr(u))
                        [s - Address(source, k) \div 4 + 1]
    /\ \A s \in Slots : (\A k \in Read : ~Covers(k, s)) => imem[s] = NewInstr(u)

InMemory ==
    \A k \in Read :
        LET l == source[k]
            a == Address(source, k)
        IN  /\ IsInstr(l) => \A x \in a .. a + Size(l) - 1 : mem[x] = CC
            /\ IsData(l) => \A j \in 0 .. Size(l) - 1 :
                  LET width == ElementSize(l.stmt.dir)
                  IN  mem[a + j] = ByteOf(strtol(l.stmt.args[j \div width + 1]) % WordSize, j % width)

Standing == AtPlace /\ Inside /\ Listed /\ InMemory

\* Behind normalize_labels the entries are there, and their labels are defined
\* and in reach.
Resolving ==
    /\ \A k \in Read, s \in Slots :
          Covers(k, s) /\ source[k].stmt.mn \in (instr_type \ {"UNIMPL"}) \cup Pseudos =>
              imem[s].op # "UNIMPL"
    /\ RefusesDangling

Inv ==
    /\ TypeOK
    /\ status \in {"normalize", "loaded"} => line = Len(source) + 1
    /\ Tidy(source) =>
          /\ status \in {"parse", "normalize"} => Standing /\ \E u \in Uninit : Written(u)
          /\ status = "loaded" => Standing /\ Resolving

LEMMA InvInit == AsmInit => Inv
<1>. SUFFICES ASSUME AsmInit PROVE Inv
  OBVIOUS
<1>1. TypeOK
  BY InitType
<1>2. source \in Sources /\ line = 1 /\ status = "parse" /\ memoff = 0 /\ labels = <<>>
  BY DEF AsmInit
<1>3. Read = {}
  BY <1>2 DEF Read
<1>4. AtPlace
  BY <1>2, PlaceType, SizeAssumption DEF AtPlace
<1>5. Inside /\ InMemory
  BY <1>3 DEF Inside, InMemory
<1>6. Listed
  BY <1>2, <1>3 DEF Listed
<1>7. \E u \in Uninit : Written(u)
  <2>1. PICK u \in Uninit : imem = [s \in Slots |-> NewInstr(u)]
    BY DEF AsmInit
  <2>. QED
    BY <1>3, <2>1 DEF Written
<1>. QED
  BY <1>1, <1>2, <1>4, <1>5, <1>6, <1>7 DEF Inv, Standing

\* The lines read behind a step that reads one.
LEMMA ReadStep ==
    ASSUME TypeOK, line <= Len(source), line' = line + 1
    PROVE  /\ Read' = Read \cup {line} /\ line \notin Read
           /\ \A k \in Read : k \in 1 .. Len(source) /\ k \in DOMAIN source /\ line # k
           /\ line \in 1 .. Len(source) /\ line \in DOMAIN source
<1>1. line \in Nat /\ line # 0 /\ Len(source) \in Nat /\ DOMAIN source = 1 .. Len(source)
  BY SourceType DEF TypeOK
<1>2. Read' = 1 .. line
  BY <1>1 DEF Read
<1>. QED
  BY <1>1, <1>2 DEF Read

LEMMA ListedStep ==
    ASSUME TypeOK, Tidy(source), AtPlace, Listed, line <= Len(source),
           NoteLabel, line' = line + 1, source' = source
    PROVE  Listed'
<1>. DEFINE new == [label |-> source[line].label, loc |-> memoff]
            N(k) == [label |-> source[k].label, loc |-> Address(source, k)]
<1>1. /\ Read' = Read \cup {line} /\ line \in DOMAIN source
      /\ \A k \in Read : k \in DOMAIN source /\ line # k
  BY ReadStep
<1>2. memoff = Address(source, line)
  BY <1>1, PlaceType, ReadStep DEF AtPlace, TypeOK
<1>3. Len(labels) \in Nat /\ DOMAIN labels = 1 .. Len(labels)
  BY DEF TypeOK
<1>4. /\ \A k \in Read : source[k].label # None => \E j \in DOMAIN labels : labels[j] = N(k)
      /\ \A j \in DOMAIN labels : \E k \in Read : source[k].label # None /\ labels[j] = N(k)
      /\ \A i, j \in DOMAIN labels : i # j => labels[i].label # labels[j].label
  BY DEF Listed, Noted
<1>5. SUFFICES
        /\ \A k \in Read' : source[k].label # None => \E j \in DOMAIN labels' : labels'[j] = N(k)
        /\ \A j \in DOMAIN labels' : \E k \in Read' : source[k].label # None /\ labels'[j] = N(k)
        /\ \A i, j \in DOMAIN labels' : i # j => labels'[i].label # labels'[j].label
  BY DEF Listed, Noted
<1>6. CASE source[line].label = None
  <2>1. labels' = labels
    BY <1>6 DEF NoteLabel
  <2>. HIDE DEF N
  <2>. QED
    BY <1>1, <1>4, <1>6, <2>1
<1>7. CASE source[line].label # None
  <2>. DEFINE n == Len(labels) + 1
  <2>1. labels' = Append(labels, new)
    BY <1>7 DEF NoteLabel
  <2>2. /\ DOMAIN labels' = 1 .. n /\ labels'[n] = new /\ n \notin DOMAIN labels
        /\ \A j \in DOMAIN labels : j \in DOMAIN labels' /\ labels'[j] = labels[j]
        /\ \A j \in DOMAIN labels' : j = n \/ j \in DOMAIN labels
    BY <1>3, <2>1 DEF TypeOK
  <2>3. new = N(line)
    BY <1>2
  <2>4. \A k \in Read' : source[k].label # None => \E j \in DOMAIN labels' : labels'[j] = N(k)
    <3>. HIDE DEF N, new, n
    <3>1. n \in DOMAIN labels'
      BY <1>3, <2>2 DEF n
    <3>. QED
      BY <1>1, <1>4, <2>2, <2>3, <3>1
  <2>5. \A j \in DOMAIN labels' : \E k \in Read' : source[k].label # None /\ labels'[j] = N(k)
    <3>. HIDE DEF N, new, n
    <3>. QED
      BY <1>1, <1>4, <1>7, <2>2, <2>3
  <2>6. \A i \in DOMAIN labels : labels[i].label # new.label
    <3>1. TAKE i \in DOMAIN labels
    <3>2. PICK k \in Read : source[k].label # None /\ labels[i] = N(k)
      BY <1>4
    <3>3. source[k].label # source[line].label
      BY <1>1, <3>2 DEF Tidy
    <3>. QED
      BY <3>2, <3>3
  <2>7. \A i, j \in DOMAIN labels' : i # j => labels'[i].label # labels'[j].label
    <3>. HIDE DEF new, n
    <3>. QED
      BY <1>4, <2>2, <2>6
  <2>. QED
    BY <2>4, <2>5, <2>7
<1>. QED
  BY <1>6, <1>7

\* A line that holds neither instructions nor data leaves the memories alone.
LEMMA OtherStep ==
    ASSUME TypeOK, Tidy(source), Standing, line <= Len(source),
           ~IsInstr(source[line]), ~IsData(source[line]),
           line' = line + 1, source' = source, imem' = imem, mem' = mem
    PROVE  /\ Inside' /\ InMemory'
           /\ \A u : Written(u) => Written(u)'
           /\ Address(source, line) = memoff /\ Size(source[line]) = 0
<1>1. /\ Read' = Read \cup {line} /\ line \in 1 .. Len(source)
  BY ReadStep
<1>2. Address(source, line) = memoff /\ memoff \in Nat /\ memoff <= AddrSize
  BY <1>1, PlaceType DEF Standing, AtPlace, TypeOK
<1>3. Size(source[line]) = 0
  BY DEF Size
<1>4. Inside'
  BY <1>1, <1>2, <1>3 DEF Inside, Standing
<1>5. InMemory'
  BY <1>1 DEF InMemory, Standing
<1>6. ASSUME NEW u, Written(u) PROVE Written(u)'
  <2>1. \A k \in Read' : \A s : Covers(k, s)' <=> k \in Read /\ Covers(k, s)
    BY <1>1 DEF Covers
  <2>2. Slots' = Slots
    BY DEF Slots
  <2>. QED
    BY <1>1, <1>6, <2>1, <2>2 DEF Written
<1>. QED
  BY <1>2, <1>3, <1>4, <1>5, <1>6

LEMMA BlankStep ==
    ASSUME TypeOK, Tidy(source), Standing, Blank
    PROVE  Standing' /\ \A u : Written(u) => Written(u)'
<1>1. /\ line <= Len(source) /\ line' = line + 1 /\ source' = source /\ memoff' = memoff
      /\ imem' = imem /\ mem' = mem /\ NoteLabel
      /\ ~IsInstr(source[line]) /\ ~IsData(source[line]) /\ ~IsSection(source[line])
  BY DEF Blank, Accepted, IsInstr, IsData, IsSection, stmt
<1>2. /\ Inside' /\ InMemory' /\ \A u : Written(u) => Written(u)'
      /\ Address(source, line) = memoff /\ Size(source[line]) = 0
  BY <1>1, OtherStep
<1>3. Listed'
  BY <1>1, ListedStep DEF Standing
<1>4. AtPlace'
  <2>1. line \in 1 .. Len(source) /\ source \in Sources
    BY <1>1, ReadStep DEF TypeOK
  <2>2. Place(source, line) = memoff
    BY <1>1, <1>2, <2>1, PlaceMoved DEF TypeOK
  <2>3. line' - 1 = line
    BY <1>1, <2>1
  <2>. QED
    BY <1>1, <2>2, <2>3 DEF AtPlace, Standing
<1>. QED
  BY <1>2, <1>3, <1>4 DEF Standing

LEMMA SectionStep ==
    ASSUME TypeOK, Tidy(source), Standing, Section
    PROVE  Standing' /\ \A u : Written(u) => Written(u)'
<1>1. /\ line <= Len(source) /\ line' = line + 1 /\ source' = source
      /\ memoff' = (IF stmt.dir = "text" THEN text_offset ELSE data_offset)
      /\ imem' = imem /\ mem' = mem /\ NoteLabel
      /\ ~IsInstr(source[line]) /\ ~IsData(source[line]) /\ IsSection(source[line])
  BY DEF Section, Accepted, IsInstr, IsData, IsSection, stmt
<1>2. /\ Inside' /\ InMemory' /\ \A u : Written(u) => Written(u)'
  BY <1>1, OtherStep
<1>3. Listed'
  BY <1>1, ListedStep DEF Standing
<1>4. AtPlace'
  <2>1. line \in 1 .. Len(source) /\ source \in Sources
    BY <1>1, ReadStep DEF TypeOK
  <2>2. Place(source, line) = Base(stmt.dir) /\ stmt.dir \in {"text", "data"}
    BY <1>1, <2>1, PlaceOpened DEF stmt, IsSection
  <2>3. line' - 1 = line
    BY <1>1, <2>1
  <2>4. memoff' = Base(stmt.dir) /\ memoff' <= AddrSize
    <3>1. memoff' = IF stmt.dir = "text" THEN text_offset ELSE data_offset
      BY DEF Section
    <3>2. text_offset <= AddrSize /\ data_offset <= AddrSize
      BY AssemblerAssumption, SizeAssumption
    <3>. QED
      BY <2>2, <3>1, <3>2 DEF Base
  <2>. QED
    BY <1>1, <2>2, <2>3, <2>4 DEF AtPlace
<1>. QED
  BY <1>2, <1>3, <1>4 DEF Standing

\* Where the lines read so far have their bytes, seen from the next one.
LEMMA Apart ==
    ASSUME TypeOK, Tidy(source), Standing, line <= Len(source), NEW k \in Read
    PROVE  /\ Address(source, k) \in Nat /\ Size(source[k]) \in Nat
           /\ Address(source, line) = memoff /\ memoff \in Nat
           /\ IsInstr(source[k]) /\ IsInstr(source[line]) =>
                 Address(source, k) + Size(source[k]) <= memoff
           /\ IsData(source[k]) /\ IsData(source[line]) =>
                 Address(source, k) + Size(source[k]) <= memoff
           /\ IsInstr(source[k]) => Address(source, k) % 4 = 0
                                    /\ Address(source, k) + Size(source[k]) <= data_offset
           /\ IsInstr(source[line]) => memoff % 4 = 0
           /\ IsData(source[k]) => Address(source, k) >= data_offset
           /\ IsData(source[line]) => memoff >= data_offset
<1>1. /\ source \in Sources /\ line \in 1 .. Len(source) /\ line \in DOMAIN source
      /\ k \in 1 .. Len(source) /\ k \in DOMAIN source /\ k \in 1 .. line - 1
  <2>1. Len(source) \in Nat /\ DOMAIN source = 1 .. Len(source)
    BY SourceType DEF TypeOK
  <2>. QED
    BY <2>1 DEF TypeOK, Read
<1>2. Address(source, k) \in Nat /\ Size(source[k]) \in Nat
  BY <1>1, PlaceType, SizeType
<1>3. Address(source, line) = memoff /\ memoff \in Nat
  BY <1>1, PlaceType DEF Standing, AtPlace, TypeOK
<1>4. SectionOf(source, k) = SectionOf(source, line) =>
        Address(source, k) + Size(source[k]) <= memoff
  BY <1>1, <1>3, PlaceBehind
<1>5. IsInstr(source[k]) /\ IsInstr(source[line]) =>
        SectionOf(source, k) = SectionOf(source, line)
  BY <1>1 DEF Tidy
<1>6. IsData(source[k]) /\ IsData(source[line]) =>
        SectionOf(source, k) = SectionOf(source, line)
  BY <1>1 DEF Tidy
<1>7. /\ IsInstr(source[k]) => Address(source, k) % 4 = 0
      /\ IsData(source[k]) => Address(source, k) >= data_offset
      /\ IsInstr(source[line]) => memoff % 4 = 0
      /\ IsData(source[line]) => memoff >= data_offset
  BY <1>1, <1>3, PlaceKinds
<1>8. IsInstr(source[k]) => Address(source, k) + Size(source[k]) <= data_offset
  BY DEF Standing, Inside
<1>. QED
  BY <1>2, <1>3, <1>4, <1>5, <1>6, <1>7, <1>8

LEMMA DataStep ==
    ASSUME TypeOK, Tidy(source), Standing, parse_data_element, status' # "overrun"
    PROVE  Standing' /\ \A u : Written(u) => Written(u)'
<1>. DEFINE l == source[line]
            width == ElementSize(stmt.dir)
            size == width * Len(stmt.args)
            value(x) == strtol(stmt.args[(x - memoff) \div width + 1]) % WordSize
<1>1. /\ line <= Len(source) /\ line' = line + 1 /\ source' = source /\ imem' = imem /\ NoteLabel
      /\ IsData(l) /\ ~IsInstr(l) /\ ~IsSection(l)
  BY DEF parse_data_element, Accepted, IsInstr, IsData, IsSection, stmt
<1>2. /\ Read' = Read \cup {line} /\ line \in 1 .. Len(source) /\ source \in Sources
      /\ \A k \in Read : k \in 1 .. Len(source)
  BY <1>1, ReadStep DEF TypeOK
<1>3. Address(source, line) = memoff /\ memoff \in Nat /\ memoff >= data_offset
  <2>1. Address(source, line) = memoff /\ memoff \in Nat
    BY <1>2, PlaceType DEF Standing, AtPlace, TypeOK
  <2>. QED
    BY <1>1, <1>2, <2>1, PlaceKinds
<1>4. Size(l) = size /\ size \in Nat
  BY <1>1, <1>2, SizeType DEF Size, stmt
<1>5. memoff' = memoff + size /\ memoff + size <= AddrSize
  BY <1>3, <1>4, SizeAssumption DEF parse_data_element, DataOverruns
<1>6. mem' = [x \in Addr |-> IF x >= memoff /\ x < memoff + size
                             THEN ByteOf(value(x), (x - memoff) % width) ELSE mem[x]]
  BY DEF parse_data_element
<1>7. \A x \in 0 .. memoff - 1 : mem'[x] = mem[x]
  <2>. HIDE DEF size, width, value
  <2>. QED
    BY <1>3, <1>4, <1>5, <1>6, SizeAssumption DEF Addr
<1>8. AtPlace'
  <2>1. Place(source, line) = memoff + size
    BY <1>1, <1>2, <1>3, <1>4, PlaceMoved
  <2>2. line' - 1 = line
    BY <1>1, <1>2
  <2>. QED
    BY <1>1, <1>5, <2>1, <2>2 DEF AtPlace
<1>9. Inside'
  BY <1>1, <1>2, <1>3, <1>4, <1>5 DEF Inside, Standing
<1>10. Listed'
  BY <1>1, ListedStep DEF Standing
<1>11. InMemory'
  <2>1. SUFFICES ASSUME NEW k \in Read'
        PROVE  /\ IsInstr(source[k]) =>
                    \A x \in Address(source, k) .. Address(source, k) + Size(source[k]) - 1 :
                        mem'[x] = CC
               /\ IsData(source[k]) => \A j \in 0 .. Size(source[k]) - 1 :
                    mem'[Address(source, k) + j] =
                        ByteOf(strtol(source[k].stmt.args[j \div ElementSize(source[k].stmt.dir) + 1])
                                   % WordSize, j % ElementSize(source[k].stmt.dir))
    BY <1>1 DEF InMemory
  <2>2. CASE k \in Read
    <3>. DEFINE a == Address(source, k)
                n == Size(source[k])
    <3>1. /\ a \in Nat /\ n \in Nat
          /\ IsInstr(source[k]) => a + n <= memoff
          /\ IsData(source[k]) => a + n <= memoff
      <4>1. data_offset \in Nat
        BY AssemblerAssumption
      <4>. QED
        BY <1>1, <1>3, <2>2, <4>1, Apart
    <3>2. ASSUME IsInstr(source[k]), NEW x \in a .. a + n - 1 PROVE mem'[x] = CC
      <4>1. mem[x] = CC
        BY <2>2, <3>2 DEF InMemory, Standing
      <4>2. x \in 0 .. memoff - 1
        <5>. HIDE DEF a, n
        <5>. QED
          BY <1>3, <3>1, <3>2
      <4>. QED
        BY <1>7, <4>1, <4>2
    <3>3. ASSUME IsData(source[k]), NEW j \in 0 .. n - 1
          PROVE  mem'[a + j] =
                    ByteOf(strtol(source[k].stmt.args[j \div ElementSize(source[k].stmt.dir) + 1])
                               % WordSize, j % ElementSize(source[k].stmt.dir))
      <4>1. mem[a + j] =
                    ByteOf(strtol(source[k].stmt.args[j \div ElementSize(source[k].stmt.dir) + 1])
                               % WordSize, j % ElementSize(source[k].stmt.dir))
        BY <2>2, <3>3 DEF InMemory, Standing
      <4>2. a + j \in 0 .. memoff - 1
        <5>. HIDE DEF a, n
        <5>. QED
          BY <1>3, <3>1, <3>3
      <4>. QED
        BY <1>7, <4>1, <4>2
    <3>. QED
      BY <3>2, <3>3
  <2>3. CASE k = line
    <3>1. ASSUME NEW j \in 0 .. size - 1
          PROVE  mem'[memoff + j] =
                    ByteOf(strtol(l.stmt.args[j \div width + 1]) % WordSize, j % width)
      <4>1. /\ memoff + j \in Addr /\ memoff + j >= memoff /\ memoff + j < memoff + size
            /\ (memoff + j) - memoff = j
        <5>. HIDE DEF size
        <5>. QED
          BY <1>3, <1>4, <1>5, SizeAssumption DEF Addr
      <4>2. mem'[memoff + j] = ByteOf(value(memoff + j), ((memoff + j) - memoff) % width)
        <5>. HIDE DEF size, width, value
        <5>. QED
          BY <1>6, <4>1
      <4>3. value(memoff + j) = strtol(stmt.args[j \div width + 1]) % WordSize
        BY <4>1
      <4>. QED
        BY <4>1, <4>2, <4>3 DEF stmt
    <3>. QED
      BY <1>1, <1>3, <1>4, <2>3, <3>1 DEF stmt
  <2>. QED
    BY <1>2, <2>2, <2>3
<1>12. ASSUME NEW u, Written(u) PROVE Written(u)'
  <2>1. \A k \in Read' : \A s : Covers(k, s)' <=> k \in Read /\ Covers(k, s)
    BY <1>1, <1>2 DEF Covers
  <2>2. Slots' = Slots
    BY DEF Slots
  <2>. QED
    BY <1>1, <1>2, <1>12, <2>1, <2>2 DEF Written
<1>. QED
  BY <1>8, <1>9, <1>10, <1>11, <1>12 DEF Standing

LEMMA InstructionStep ==
    ASSUME TypeOK, Tidy(source), Standing, Instruction, status' # "overrun"
    PROVE  Standing' /\ \A u : Written(u) => Written(u)'
<1>. DEFINE l == source[line]
            n == Count(stmt)
            next == IF ioff + 1 \in Slots THEN imem[ioff + 1] ELSE imem[ioff]
            words == Assembled(stmt, imem[ioff], next)
<1>1. /\ line <= Len(source) /\ line' = line + 1 /\ source' = source /\ NoteLabel
      /\ IsInstr(l) /\ ~IsData(l) /\ ~IsSection(l) /\ WellFormed(stmt)
  BY DEF Instruction, Accepted, StmtRefused, IsInstr, IsData, IsSection, stmt
<1>2. /\ Read' = Read \cup {line} /\ line \in 1 .. Len(source) /\ source \in Sources
      /\ line \notin Read /\ \A k \in Read : k \in 1 .. Len(source)
  BY <1>1, ReadStep DEF TypeOK
<1>3. Address(source, line) = memoff /\ memoff \in Nat /\ memoff % 4 = 0
  <2>1. Address(source, line) = memoff /\ memoff \in Nat
    BY <1>2, PlaceType DEF Standing, AtPlace, TypeOK
  <2>. QED
    BY <1>1, <1>2, <2>1, PlaceKinds
<1>4. n \in {1, 2} /\ Size(l) = 4 * n /\ n = Words(stmt)
  BY <1>1 DEF Size, Words, Count, stmt
<1>5. /\ memoff' = memoff + 4 * n /\ memoff + 4 * n <= AddrSize
      /\ ioff \in Slots /\ ioff + n - 1 \in Slots /\ memoff = 4 * ioff
      /\ memoff + 4 * n <= data_offset
  <2>1. memoff' = memoff + 4 * n /\ ~InstrOverruns /\ memoff + 4 <= data_offset
    BY <1>3, AssemblerAssumption DEF Instruction, Accepted, StmtRefused
  <2>2. ioff + n - 1 \in Slots /\ memoff + 4 * n <= AddrSize
    BY <1>3, <1>4, <2>1, SizeAssumption DEF InstrOverruns
  <2>3. memoff = 4 * ioff /\ ioff \in Nat
    BY <1>3 DEF ioff
  <2>4. data_offset \in Nat /\ data_offset % 4 = 0
    BY AssemblerAssumption
  <2>. QED
    BY <1>3, <1>4, <2>1, <2>2, <2>3, <2>4 DEF Slots
<1>6. /\ mem' = [x \in Addr |-> IF x >= memoff /\ x < memoff + 4 * n THEN CC ELSE mem[x]]
      /\ imem' = [s \in Slots |-> IF s - ioff + 1 \in DOMAIN words THEN words[s - ioff + 1]
                                 ELSE imem[s]]
  BY DEF Instruction
<1>7. AtPlace'
  <2>1. Place(source, line) = memoff + 4 * n
    BY <1>1, <1>2, <1>3, <1>4, PlaceMoved
  <2>2. line' - 1 = line
    BY <1>1, <1>2
  <2>. QED
    BY <1>1, <1>5, <2>1, <2>2 DEF AtPlace
<1>8. Inside'
  BY <1>1, <1>2, <1>3, <1>4, <1>5 DEF Inside, Standing, stmt
<1>9. Listed'
  BY <1>1, ListedStep DEF Standing
<1>10. InMemory'
  <2>1. SUFFICES ASSUME NEW k \in Read'
        PROVE  /\ IsInstr(source[k]) =>
                    \A x \in Address(source, k) .. Address(source, k) + Size(source[k]) - 1 :
                        mem'[x] = CC
               /\ IsData(source[k]) => \A j \in 0 .. Size(source[k]) - 1 :
                    mem'[Address(source, k) + j] =
                        ByteOf(strtol(source[k].stmt.args[j \div ElementSize(source[k].stmt.dir) + 1])
                                   % WordSize, j % ElementSize(source[k].stmt.dir))
    BY <1>1 DEF InMemory
  <2>2. ASSUME NEW x \in Addr, x < memoff \/ x >= memoff + 4 * n PROVE mem'[x] = mem[x]
    <3>. HIDE DEF n
    <3>. QED
      BY <1>3, <1>4, <1>6, <2>2 DEF Addr
  <2>3. CASE k \in Read
    <3>. DEFINE a == Address(source, k)
                m == Size(source[k])
    <3>1. /\ a \in Nat /\ m \in Nat /\ a + m <= AddrSize
          /\ IsInstr(source[k]) => a + m <= memoff
          /\ IsData(source[k]) => a >= memoff + 4 * n
      <4>1. data_offset \in Nat
        BY AssemblerAssumption
      <4>2. a + m <= AddrSize
        BY <2>3 DEF Inside, Standing
      <4>3. /\ a \in Nat /\ m \in Nat
            /\ IsInstr(source[k]) => a + m <= memoff
            /\ IsData(source[k]) => a >= data_offset
        BY <1>1, <2>3, Apart
      <4>. HIDE DEF a, m, n
      <4>. QED
        BY <1>3, <1>4, <1>5, <4>1, <4>2, <4>3
    <3>2. ASSUME IsInstr(source[k]), NEW x \in a .. a + m - 1 PROVE mem'[x] = CC
      <4>1. mem[x] = CC
        BY <2>3, <3>2 DEF InMemory, Standing
      <4>2. x \in Addr /\ x < memoff
        <5>. HIDE DEF a, m
        <5>. QED
          BY <1>3, <3>1, <3>2, SizeAssumption DEF Addr
      <4>. QED
        BY <2>2, <4>1, <4>2
    <3>3. ASSUME IsData(source[k]), NEW j \in 0 .. m - 1
          PROVE  mem'[a + j] =
                    ByteOf(strtol(source[k].stmt.args[j \div ElementSize(source[k].stmt.dir) + 1])
                               % WordSize, j % ElementSize(source[k].stmt.dir))
      <4>1. mem[a + j] =
                    ByteOf(strtol(source[k].stmt.args[j \div ElementSize(source[k].stmt.dir) + 1])
                               % WordSize, j % ElementSize(source[k].stmt.dir))
        BY <2>3, <3>3 DEF InMemory, Standing
      <4>2. a + j \in Addr /\ a + j >= memoff + 4 * n
        <5>. HIDE DEF a, m, n
        <5>. QED
          BY <1>3, <1>4, <3>1, <3>3, SizeAssumption DEF Addr
      <4>. QED
        BY <2>2, <4>1, <4>2
    <3>. QED
      BY <3>2, <3>3
  <2>4. CASE k = line
    <3>1. ASSUME NEW x \in memoff .. memoff + 4 * n - 1 PROVE mem'[x] = CC
      <4>. HIDE DEF n
      <4>1. x \in Addr /\ x >= memoff /\ x < memoff + 4 * n
        BY <1>3, <1>4, <1>5, SizeAssumption DEF Addr
      <4>. QED
        BY <1>6, <4>1
    <3>. QED
      BY <1>1, <1>3, <1>4, <2>4, <3>1
  <2>. QED
    BY <1>2, <2>3, <2>4
<1>11. ASSUME NEW u, Written(u) PROVE Written(u)'
  <2>. DEFINE New == NewInstr(u)
              W(k, s) == Assembled(source[k].stmt, New, New)[s - Address(source, k) \div 4 + 1]
              C(k, s) == IsInstr(source[k])
                           /\ s - Address(source, k) \div 4 \in 0 .. Words(source[k].stmt) - 1
  <2>1. /\ \A k \in Read, s \in Slots : C(k, s) => imem[s] = W(k, s)
        /\ \A s \in Slots : (\A k \in Read : ~C(k, s)) => imem[s] = New
    BY <1>11 DEF Written, Covers
  <2>2. SUFFICES /\ \A k \in Read', s \in Slots : C(k, s) => imem'[s] = W(k, s)
                 /\ \A s \in Slots : (\A k \in Read' : ~C(k, s)) => imem'[s] = New
    BY <1>1 DEF Written, Covers, Slots
  <2>3. ASSUME NEW k \in Read, NEW s \in Slots, C(k, s) PROVE s < ioff
    <3>. DEFINE a == Address(source, k)
                m == Words(source[k].stmt)
    <3>1. a \in Nat /\ a % 4 = 0 /\ a + Size(source[k]) <= memoff
      BY <1>1, <2>3, Apart
    <3>2. Size(source[k]) = 4 * m /\ m \in {1, 2}
      BY <2>3 DEF Size, Words
    <3>3. s \in Nat /\ ioff \in Nat /\ s - a \div 4 \in 0 .. m - 1
      BY <1>5, <2>3 DEF Slots
    <3>. HIDE DEF a, m
    <3>. QED
      BY <1>3, <1>5, <3>1, <3>2, <3>3
  <2>4. imem[ioff] = New /\ next = New
    <3>1. \A k \in Read : ~C(k, ioff)
      <4>. HIDE DEF C
      <4>. QED
        BY <1>5, <2>3 DEF Slots
    <3>2. ioff + 1 \in Slots => \A k \in Read : ~C(k, ioff + 1)
      <4>. HIDE DEF C
      <4>. QED
        BY <1>5, <2>3 DEF Slots
    <3>. HIDE DEF C, New
    <3>. QED
      BY <1>5, <2>1, <3>1, <3>2
  <2>5. words = Assembled(stmt, New, New) /\ DOMAIN words = 1 .. n
    <3>1. words = Assembled(stmt, New, New)
      BY <2>4
    <3>2. IsEntry(imem[ioff]) /\ IsEntry(next)
      BY <1>5 DEF TypeOK
    <3>3. IsStatement(stmt) /\ stmt.kind = "instr"
      BY <1>1, LineType DEF IsInstr, stmt
    <3>4. DOMAIN words = 1 .. n
      <4>. HIDE DEF next
      <4>. QED
        BY <1>1, <3>2, <3>3, AssembledType
    <3>. QED
      BY <3>1, <3>4
  <2>6. ASSUME NEW s \in Slots PROVE C(line, s) <=> s - ioff + 1 \in 1 .. n
    BY <1>1, <1>3, <1>4, <1>5 DEF Slots, stmt, ioff
  <2>7. ASSUME NEW s \in Slots, C(line, s) PROVE imem'[s] = W(line, s)
    <3>1. imem'[s] = words[s - ioff + 1]
      <4>. HIDE DEF words, n, C
      <4>. QED
        BY <1>6, <2>5, <2>6, <2>7
    <3>2. s - ioff + 1 = s - Address(source, line) \div 4 + 1
      BY <1>3 DEF ioff
    <3>. HIDE DEF New
    <3>. QED
      BY <2>5, <3>1, <3>2 DEF stmt
  <2>8. ASSUME NEW s \in Slots, ~C(line, s) PROVE imem'[s] = imem[s]
    <3>. HIDE DEF words, n, C
    <3>. QED
      BY <1>6, <2>5, <2>6, <2>8
  <2>9. ASSUME NEW k \in Read, NEW s \in Slots, C(k, s) PROVE imem'[s] = W(k, s)
    <3>1. s < ioff
      BY <2>3, <2>9
    <3>2. ~C(line, s)
      <4>1. s \in Nat /\ ioff \in Nat
        BY <1>5 DEF Slots
      <4>2. ~(s - ioff + 1 \in 1 .. n)
        BY <1>4, <3>1, <4>1
      <4>. QED
        BY <2>6, <4>2
    <3>. HIDE DEF C, W
    <3>. QED
      BY <2>1, <2>8, <2>9, <3>2
  <2>10. ASSUME NEW s \in Slots, \A k \in Read' : ~C(k, s) PROVE imem'[s] = New
    <3>1. ~C(line, s) /\ \A k \in Read : ~C(k, s)
      BY <1>2, <2>10
    <3>. HIDE DEF C, New
    <3>. QED
      BY <2>1, <2>8, <3>1
  <2>. HIDE DEF C, W, New
  <2>. QED
    BY <1>2, <2>7, <2>9, <2>10
<1>. QED
  BY <1>7, <1>8, <1>9, <1>10, <1>11 DEF Standing
-----------------------------------------------------------------------------
(* normalize_labels. *)

\* A label in the table is one of the source, and stands for the place of its line.
LEMMA LabelPlace ==
    ASSUME TypeOK, Tidy(source), Standing, NEW l, Defined(l)
    PROVE  /\ l \in LabelsOf(source) /\ label_addr(l) = LabelAddress(source, l)
           /\ label_addr(l) \in 0 .. AddrSize
<1>1. source \in Sources /\ Len(source) \in Nat /\ DOMAIN source = 1 .. Len(source)
  BY SourceType DEF TypeOK
<1>2. PICK j \in DOMAIN labels : labels[j].label = l /\ label_addr(l) = labels[j].loc
  BY LabelAddrNoted DEF TypeOK
<1>3. PICK k \in Read : source[k].label # None /\ labels[j] = Noted(k)
  BY DEF Standing, Listed
<1>4. k \in DOMAIN source /\ source[k].label = l /\ label_addr(l) = Address(source, k)
  BY <1>1, <1>2, <1>3 DEF Read, Noted, TypeOK
<1>5. l \in LabelsOf(source)
  BY <1>3, <1>4 DEF LabelsOf
<1>6. LineOf(source, l) = k
  <2>1. \A m \in DOMAIN source : source[m].label = l <=> m = k
    BY <1>3, <1>4 DEF Tidy
  <2>. QED
    BY <1>4, <2>1 DEF LineOf
<1>7. Address(source, k) \in 0 .. AddrSize
  <2>1. Address(source, k) \in Nat /\ Size(source[k]) \in Nat
    BY <1>1, <1>4, PlaceType, SizeType
  <2>2. Address(source, k) + Size(source[k]) <= AddrSize
    BY DEF Standing, Inside
  <2>. QED
    BY <2>1, <2>2, SizeAssumption
<1>. QED
  BY <1>4, <1>5, <1>6, <1>7 DEF LabelAddress

\* The check of a branch is the one of its distance.
LEMMA WithinNear ==
    ASSUME NEW from \in Int, NEW to \in 0 .. AddrSize, NEW reach \in Nat
    PROVE  Within(from, to % WordSize, reach) <=> Near(from, to, reach)
<1>1. to % WordSize = to /\ Signed(to, WordSize) = to
  <2>1. to \in Nat /\ 2 * to < WordSize /\ WordSize \in Nat
    BY AssemblerAssumption, SizeAssumption, WordSizeType
  <2>. QED
    BY <2>1 DEF Signed
<1>. QED
  BY <1>1 DEF Within, Near

\* What is known of a slot that a line covers.
LEMMA CoveredTells ==
    ASSUME TypeOK, Standing, NEW u, Written(u), NEW k \in Read, NEW s \in Slots, Covers(k, s)
    PROVE  /\ Tells(imem[s], source[k].stmt, u)
           /\ k \in 1 .. Len(source) /\ k \in DOMAIN source
           /\ IsInstr(source[k]) /\ WellFormed(source[k].stmt)
<1>1. /\ source \in Sources /\ k \in 1 .. Len(source) /\ k \in DOMAIN source
      /\ IsStatement(source[k].stmt)
  <2>1. Len(source) \in Nat /\ DOMAIN source = 1 .. Len(source)
    BY SourceType DEF TypeOK
  <2>. QED
    BY <2>1, SourceType DEF TypeOK, Read
<1>2. IsInstr(source[k]) /\ WellFormed(source[k].stmt) /\ source[k].stmt.kind = "instr"
  BY DEF Covers, Standing, Inside, IsInstr
<1>3. Len(source[k].stmt.args) \in Nat
  <2>. DEFINE a == source[k].stmt.args
              R == {a[m] : m \in DOMAIN a}
  <2>1. a \in Seq(R)
    BY <1>1, <1>2 DEF IsStatement
  <2>. HIDE DEF R
  <2>. QED
    BY <2>1
<1>. DEFINE j == s - Address(source, k) \div 4 + 1
<1>4. imem[s] = Assembled(source[k].stmt, NewInstr(u), NewInstr(u))[j]
  BY DEF Written
<1>5. j \in 1 .. Count(source[k].stmt)
  <2>1. Address(source, k) \in Nat /\ s \in Nat
    BY <1>1, PlaceType DEF Slots
  <2>. QED
    BY <2>1 DEF Covers, Count, Words
<1>. HIDE DEF j
<1>. QED
  BY <1>1, <1>2, <1>3, <1>4, <1>5, AssembledTells

\* The first slot of an instruction.
LEMMA FirstSlot ==
    ASSUME TypeOK, Tidy(source), Standing, NEW k \in Read, IsInstr(source[k])
    PROVE  /\ Address(source, k) \div 4 \in Slots /\ Covers(k, Address(source, k) \div 4)
           /\ 4 * (Address(source, k) \div 4) = Address(source, k)
<1>1. /\ source \in Sources /\ k \in 1 .. Len(source)
  <2>1. Len(source) \in Nat
    BY SourceType DEF TypeOK
  <2>. QED
    BY <2>1 DEF TypeOK, Read
<1>2. Address(source, k) \in Nat /\ Address(source, k) % 4 = 0
  BY <1>1, PlaceType, PlaceKinds
<1>3. Address(source, k) + Size(source[k]) <= data_offset /\ Size(source[k]) \in {4, 8}
  BY DEF Standing, Inside, Size, Words
<1>4. data_offset \in Nat
  BY AssemblerAssumption
<1>5. Words(source[k].stmt) \in {1, 2}
  BY DEF Words
<1>. DEFINE a == Address(source, k)
<1>6. a \div 4 \in Slots /\ 4 * (a \div 4) = a /\ a \div 4 \in Nat
  <2>. HIDE DEF a
  <2>. QED
    BY <1>2, <1>3, <1>4 DEF Slots, a
<1>. QED
  BY <1>5, <1>6 DEF Covers

LEMMA NormalizeStep ==
    ASSUME Inv, Tidy(source), normalize_labels, status' = "loaded"
    PROVE  Standing' /\ Resolving'
<1>1. /\ status = "normalize" /\ source' = source /\ line' = line /\ memoff' = memoff
      /\ labels' = labels /\ mem' = mem
      /\ imem' = [s \in Slots |-> Normalized(imem[s])]
      /\ \A s \in Slots : imem[s].op # "UNIMPL" =>
            /\ \A o \in {imem[s].a1, imem[s].a2, imem[s].a3} : o.type = "LABEL" => Defined(o.label)
            /\ InReach(s)
  BY DEF normalize_labels
<1>2. TypeOK /\ Standing /\ line = Len(source) + 1
  BY <1>1 DEF Inv
<1>3. PICK u \in Uninit : Written(u)
  BY <1>1 DEF Inv
<1>4. Standing'
  BY <1>1, <1>2 DEF Standing, AtPlace, Inside, Listed, Noted, InMemory, Read
<1>5. /\ source \in Sources /\ Len(source) \in Nat /\ DOMAIN source = 1 .. Len(source)
      /\ Read = DOMAIN source /\ Read' = Read
  <2>1. source \in Sources /\ Len(source) \in Nat /\ DOMAIN source = 1 .. Len(source)
    BY <1>2, SourceType DEF TypeOK
  <2>. QED
    BY <1>1, <1>2, <2>1 DEF Read
<1>6. ASSUME NEW k \in Read', NEW s \in Slots, Covers(k, s),
             source[k].stmt.mn \in (instr_type \ {"UNIMPL"}) \cup Pseudos
      PROVE  imem'[s].op # "UNIMPL"
  <2>1. imem[s].op # "UNIMPL"
    BY <1>2, <1>3, <1>5, <1>6, CoveredTells DEF Tells
  <2>2. imem'[s].op = imem[s].op
    BY <1>1 DEF Normalized
  <2>. QED
    BY <2>1, <2>2
<1>7. ASSUME NEW k \in DOMAIN source, NamedBy(source[k].stmt) # None
      PROVE  LET l == NamedBy(source[k].stmt)
             IN  /\ l \in LabelsOf(source)
                 /\ source[k].stmt.mn \in BranchOps \cup {"BNEZ", "BEQZ"} =>
                       Near(Address(source, k), LabelAddress(source, l), BranchReach)
  <2>. DEFINE t == source[k].stmt
              l == NamedBy(t)
              s == Address(source, k) \div 4
  <2>2. t.kind = "instr" /\ t.mn \in Naming
    BY <1>7 DEF NamedBy
  <2>3. s \in Slots /\ Covers(k, s) /\ 4 * s = Address(source, k) /\ k \in Read
    BY <1>2, <1>5, <2>2, FirstSlot DEF IsInstr
  <2>4. Tells(imem[s], t, u)
    BY <1>2, <1>3, <2>3, CoveredTells
  <2>5. t.mn \in (instr_type \ {"UNIMPL"}) \cup Pseudos
    BY <2>2 DEF Naming, BranchOps, instr_type, Pseudos
  <2>6. imem[s].op # "UNIMPL"
    BY <2>4, <2>5 DEF Tells
  <2>7. PICK o \in {imem[s].a1, imem[s].a2, imem[s].a3} : o.type = "LABEL" /\ o.label = l
    BY <2>2, <2>4 DEF Tells
  <2>8. Defined(l)
    BY <1>1, <2>3, <2>6, <2>7
  <2>9. /\ l \in LabelsOf(source) /\ label_addr(l) = LabelAddress(source, l)
        /\ label_addr(l) \in 0 .. AddrSize
    BY <1>2, <2>8, LabelPlace
  <2>10. ASSUME t.mn \in BranchOps \cup {"BNEZ", "BEQZ"}
         PROVE  Near(Address(source, k), LabelAddress(source, l), BranchReach)
    <3>1. /\ imem[s].op \in BranchOps /\ imem[s].a3.type = "LABEL" /\ imem[s].a3.label = l
      BY <2>4, <2>10 DEF Tells
    <3>2. InReach(s)
      BY <1>1, <2>3, <2>6
    <3>3. Within(4 * s, Resolved(imem[s].a3).imm, BranchReach)
      BY <3>1, <3>2 DEF InReach
    <3>4. Resolved(imem[s].a3).imm = label_addr(l) % WordSize
      <4>1. IsOperand(imem[s].a3)
        BY <1>2, <2>3 DEF TypeOK, IsEntry
      <4>. QED
        BY <3>1, <4>1 DEF Resolved, AsImm, IsOperand
    <3>5. Address(source, k) \in Int /\ BranchReach \in Nat
      BY <1>5, PlaceType, AssemblerAssumption
    <3>. QED
      BY <2>3, <2>9, <3>3, <3>4, <3>5, WithinNear
  <2>. QED
    BY <2>9, <2>10
<1>8. RefusesDangling'
  BY <1>1, <1>7 DEF RefusesDangling
<1>9. Slots' = Slots /\ \A k, s : Covers(k, s)' <=> Covers(k, s)
  BY <1>1 DEF Slots, Covers
<1>. QED
  BY <1>1, <1>4, <1>6, <1>8, <1>9 DEF Resolving
-----------------------------------------------------------------------------
(* The invariant. *)

\* A step that leaves the memories and the table alone.
LEMMA SameMemories ==
    ASSUME UNCHANGED <<source, line, memoff, labels, imem, mem>>
    PROVE  /\ Standing => Standing'
           /\ \A u : Written(u) => Written(u)'
           /\ Tidy(source)' <=> Tidy(source)
BY DEF Standing, AtPlace, Inside, Listed, Noted, InMemory, Read, Written, Covers, Slots

LEMMA InvStep == Inv /\ [AsmNext]_asmVars => Inv'
<1>. SUFFICES ASSUME Inv, [AsmNext]_asmVars PROVE Inv'
  OBVIOUS
<1>1. TypeOK /\ TypeOK'
  BY TypeStep DEF Inv
<1>. DEFINE Goal ==
        /\ status' \in {"normalize", "loaded"} => line' = Len(source') + 1
        /\ Tidy(source') =>
              /\ status' \in {"parse", "normalize"} => Standing' /\ \E u \in Uninit : Written(u)'
              /\ status' = "loaded" => Standing' /\ Resolving'
<1>2. SUFFICES Goal
  BY <1>1 DEF Inv
<1>3. source' = source
  BY DEF AsmNext, asmVars, Refuse, Blank, Section, parse_data_element, Instruction, EndOfFile,
         normalize_labels
<1>4. Tidy(source) /\ status \in {"parse", "normalize"} =>
        Standing /\ \E u \in Uninit : Written(u)
  BY DEF Inv
<1>5. CASE Refuse
  BY <1>5 DEF Refuse
<1>6. CASE Blank
  <2>1. status = "parse" /\ status' = "parse"
    BY <1>6 DEF Blank, Accepted
  <2>2. Tidy(source) => Standing' /\ \E u \in Uninit : Written(u)'
    BY <1>1, <1>4, <1>6, <2>1, BlankStep
  <2>. QED
    BY <1>3, <2>1, <2>2
<1>7. CASE Section
  <2>1. status = "parse" /\ status' = "parse"
    BY <1>7 DEF Section, Accepted
  <2>2. Tidy(source) => Standing' /\ \E u \in Uninit : Written(u)'
    BY <1>1, <1>4, <1>7, <2>1, SectionStep
  <2>. QED
    BY <1>3, <2>1, <2>2
<1>8. CASE parse_data_element
  <2>1. status = "parse" /\ status' \in {"parse", "overrun"}
    BY <1>8 DEF parse_data_element, Accepted
  <2>2. Tidy(source) /\ status' # "overrun" => Standing' /\ \E u \in Uninit : Written(u)'
    BY <1>1, <1>4, <1>8, <2>1, DataStep
  <2>. QED
    BY <1>3, <2>1, <2>2
<1>9. CASE Instruction
  <2>1. status = "parse" /\ status' \in {"parse", "overrun"}
    BY <1>9 DEF Instruction, Accepted
  <2>2. Tidy(source) /\ status' # "overrun" => Standing' /\ \E u \in Uninit : Written(u)'
    BY <1>1, <1>4, <1>9, <2>1, InstructionStep
  <2>. QED
    BY <1>3, <2>1, <2>2
<1>10. CASE EndOfFile
  <2>1. /\ status = "parse" /\ status' = "normalize"
        /\ UNCHANGED <<source, line, memoff, labels, imem, mem>>
    BY <1>10 DEF EndOfFile
  <2>2. line = Len(source) + 1
    <3>1. Len(source) \in Nat /\ line \in 1 .. Len(source) + 1
      BY <1>1, SourceType DEF TypeOK
    <3>2. line > Len(source)
      BY <1>10 DEF EndOfFile
    <3>. QED
      BY <3>1, <3>2
  <2>. QED
    BY <1>3, <1>4, <2>1, <2>2, SameMemories
<1>11. CASE normalize_labels
  <2>1. status = "normalize" /\ status' \in {"loaded", "refused"} /\ line' = line
    BY <1>11 DEF normalize_labels
  <2>2. line = Len(source) + 1
    BY <2>1 DEF Inv
  <2>3. Tidy(source) /\ status' = "loaded" => Standing' /\ Resolving'
    BY <1>11, NormalizeStep
  <2>. QED
    BY <1>3, <2>1, <2>2, <2>3
<1>12. CASE UNCHANGED asmVars
  <2>1. /\ status' = status /\ UNCHANGED <<source, line, memoff, labels, imem, mem>>
    BY <1>12 DEF asmVars
  <2>2. Resolving => Resolving'
    BY <2>1 DEF Resolving, RefusesDangling, Read, Covers, Slots
  <2>3. /\ Tidy(source) /\ status = "loaded" => Standing /\ Resolving
        /\ status \in {"normalize", "loaded"} => line = Len(source) + 1
    BY DEF Inv
  <2>. QED
    BY <1>3, <1>4, <2>1, <2>2, <2>3, SameMemories
<1>. QED
  BY <1>5, <1>6, <1>7, <1>8, <1>9, <1>10, <1>11, <1>12 DEF AsmNext

LEMMA Invariant == AsmSpec => []Inv
<1>. QED
  BY InvInit, InvStep, PTL DEF AsmSpec

LEMMA InvPlaced == Inv => Placed
<1>. SUFFICES ASSUME Inv, Tidy(source), status \in {"parse", "normalize", "loaded"}
              PROVE  /\ line <= Len(source) => memoff = Address(source, line)
                     /\ \A k \in 1 .. line - 1 : Stands(k)
  BY DEF Placed
<1>1. TypeOK /\ Standing
  BY DEF Inv
<1>2. source \in Sources /\ Len(source) \in Nat /\ line \in 1 .. Len(source) + 1
  BY <1>1, SourceType DEF TypeOK
<1>3. line <= Len(source) => memoff = Address(source, line)
  BY <1>1, <1>2, PlaceType DEF Standing, AtPlace
<1>4. ASSUME NEW k \in Read PROVE Stands(k)
  <2>. DEFINE l == source[k]
              a == Address(source, k)
  <2>1. l.label # None => \E j \in DOMAIN labels : labels[j] = [label |-> l.label, loc |-> a]
    BY <1>1 DEF Standing, Listed, Noted
  <2>2. ASSUME IsInstr(l), l.stmt.mn \in (instr_type \ {"UNIMPL"}) \cup Pseudos,
               NEW j \in 0 .. Words(l.stmt) - 1
        PROVE  imem[(a \div 4) + j].op # "UNIMPL"
    <3>1. a \in Nat /\ a % 4 = 0 /\ a + Size(l) <= data_offset /\ k \in 1 .. Len(source)
      <4>1. k \in 1 .. Len(source)
        BY <1>2 DEF Read
      <4>2. a \in Nat
        BY <1>2, <4>1, PlaceType
      <4>3. a + Size(l) <= data_offset
        BY <1>1, <2>2 DEF Standing, Inside
      <4>4. a % 4 = 0
        BY <1>2, <2>2, <4>1, PlaceKinds
      <4>. QED
        BY <4>1, <4>2, <4>3, <4>4
    <3>2. Size(l) = 4 * Words(l.stmt) /\ Words(l.stmt) \in {1, 2}
      BY <2>2 DEF Size, Words
    <3>. DEFINE s == a \div 4 + j
    <3>3. s \in Slots /\ s - a \div 4 = j
      <4>1. data_offset \in Nat
        BY AssemblerAssumption
      <4>. HIDE DEF a, l
      <4>. QED
        BY <2>2, <3>1, <3>2, <4>1 DEF Slots
    <3>4. Covers(k, s)
      BY <2>2, <3>3 DEF Covers
    <3>5. CASE status = "loaded"
      BY <2>2, <3>3, <3>4, <3>5 DEF Inv, Resolving
    <3>6. CASE status # "loaded"
      <4>1. PICK u \in Uninit : Written(u)
        BY <3>6 DEF Inv
      <4>. QED
        BY <1>1, <2>2, <3>3, <3>4, <4>1, CoveredTells DEF Tells
    <3>. QED
      BY <3>5, <3>6
  <2>. QED
    BY <1>1, <2>1, <2>2 DEF Stands, Standing, InMemory
<1>. QED
  BY <1>3, <1>4 DEF Read

\* While a tidy source is read, every line stands where the source puts it, with its
\* words, bytes and label, and nothing behind it has been written over it, for
\* every source, every size of the memories and whatever a new instr holds
\* (Emulator.cc:496-550).
THEOREM PlacedAlways == AsmSpec => []Placed
<1>. QED
  BY Invariant, InvPlaced, PTL

LEMMA InvRefusesDangling == Inv => RefusesDangling
<1>. SUFFICES ASSUME Inv, status = "loaded" PROVE RefusesDangling
  BY DEF RefusesDangling
<1>1. Tidy(source) => RefusesDangling
  BY DEF Inv, Resolving
<1>. QED
  BY <1>1 DEF RefusesDangling

\* A tidy source with a label nobody defines, or a branch beyond its reach, is never
\* loaded (Emulator.cc:613-623, 631-637).
THEOREM DanglingRefused == AsmSpec => []RefusesDangling
<1>. QED
  BY Invariant, InvRefusesDangling, PTL
-----------------------------------------------------------------------------
(* A legal source is accepted. *)

\* A source has a finite number of labels.
LEMMA FiniteLabels ==
    ASSUME NEW src \in Sources
    PROVE  IsFiniteSet(LabelsOf(src)) /\ Cardinality(LabelsOf(src)) \in Nat
<1>. DEFINE all == {src[k].label : k \in DOMAIN src}
            f == [k \in DOMAIN src |-> src[k].label]
<1>1. Len(src) \in Nat /\ DOMAIN src = 1 .. Len(src)
  BY SourceType
<1>2. IsFiniteSet(DOMAIN src)
  BY <1>1, FS_Interval
<1>3. f \in Surjection(DOMAIN src, all)
  BY DEF Surjection
<1>4. IsFiniteSet(all)
  <2>. HIDE DEF f, all
  <2>. QED
    BY <1>2, <1>3, FS_Surjection
<1>5. IsFiniteSet(all \ {None})
  <2>. HIDE DEF all
  <2>. QED
    BY <1>4, FS_RemoveElement
<1>. QED
  BY <1>5, FS_CardinalityType DEF LabelsOf

\* In front of a line with a label the table has room for one more.
LEMMA RoomForLabel ==
    ASSUME TypeOK, Tidy(source), Listed, line <= Len(source), source[line].label # None
    PROVE  Len(labels) < Cardinality(LabelsOf(source))
<1>. DEFINE l == source[line].label
            others == LabelsOf(source) \ {l}
            f == [j \in 1 .. Len(labels) |-> labels[j].label]
<1>1. /\ source \in Sources /\ line \in DOMAIN source
      /\ \A k \in Read : k \in DOMAIN source /\ line # k
  <2>1. Len(source) \in Nat /\ DOMAIN source = 1 .. Len(source) /\ line \in 1 .. Len(source)
    BY SourceType DEF TypeOK
  <2>. QED
    BY <2>1 DEF TypeOK, Read
<1>2. Len(labels) \in Nat /\ DOMAIN labels = 1 .. Len(labels)
  BY DEF TypeOK
<1>3. l \in LabelsOf(source)
  BY <1>1 DEF LabelsOf
<1>4. /\ IsFiniteSet(LabelsOf(source)) /\ Cardinality(LabelsOf(source)) \in Nat
      /\ IsFiniteSet(others) /\ Cardinality(others) = Cardinality(LabelsOf(source)) - 1
  BY <1>1, <1>3, FiniteLabels, FS_RemoveElement
<1>5. ASSUME NEW j \in 1 .. Len(labels) PROVE labels[j].label \in others
  <2>1. PICK k \in Read : source[k].label # None /\ labels[j] = Noted(k)
    BY <1>2 DEF Listed
  <2>2. k \in DOMAIN source /\ labels[j].label = source[k].label
    BY <1>1, <2>1 DEF Noted
  <2>3. source[k].label # l
    BY <1>1, <2>1, <2>2 DEF Tidy
  <2>. QED
    BY <2>1, <2>2, <2>3 DEF LabelsOf
<1>6. \A i, j \in 1 .. Len(labels) : i # j => labels[i].label # labels[j].label
  BY <1>2 DEF Listed
<1>7. f \in Injection(1 .. Len(labels), others)
  <2>. HIDE DEF others
  <2>1. f \in [1 .. Len(labels) -> others]
    BY <1>5
  <2>. QED
    BY <1>6, <2>1 DEF Injection, IsInjective
<1>8. Cardinality(1 .. Len(labels)) <= Cardinality(others)
  <2>. HIDE DEF f, others
  <2>. QED
    BY <1>4, <1>7, FS_Injection
<1>9. Cardinality(1 .. Len(labels)) = Len(labels)
  <2>1. \A n \in Nat : Cardinality(1 .. n) = n
    BY FS_Interval
  <2>. QED
    BY <1>2, <2>1
<1>. QED
  BY <1>2, <1>4, <1>8, <1>9

\* A number in range passes the check of an element.
LEMMA ElementInRange ==
    ASSUME NEW t, strtol(t) \in Int, NEW width \in {1, 2, 4}, InRangeOf(strtol(t), Span(width))
    PROVE  IsElement(t, width)
<1>. DEFINE n == strtol(t)
            d == Span(width)
<1>1. d \in Nat \ {0}
  <2>1. ByteSize \in Nat \ {0} /\ ByteSize * ByteSize \in Nat \ {0}
    BY SizeAssumption, ProductPositive
  <2>. QED
    BY <2>1, WordSizeType DEF Span
<1>2. n \in Int /\ n <= d - 1
  BY DEF InRangeOf
<1>3. n \div d <= 0
  <2>. HIDE DEF n, d
  <2>. QED
    BY <1>1, <1>2
<1>. QED
  BY <1>3 DEF IsElement

\* What is known of the next line of a legal source that fits.
LEMMA NextLine ==
    ASSUME TypeOK, Tidy(source), Standing, Fits(source), line <= Len(source)
    PROVE  /\ line \in DOMAIN source /\ source \in Sources /\ IsStatement(stmt)
           /\ memoff \in Nat /\ Address(source, line) = memoff
           /\ IsInstr(source[line]) => /\ Count(stmt) \in {1, 2} /\ memoff % 4 = 0
                                       /\ memoff + 4 * Count(stmt) <= data_offset
           /\ IsData(source[line]) =>
                 memoff + ElementSize(stmt.dir) * Len(stmt.args) <= AddrSize
<1>1. Len(source) \in Nat /\ DOMAIN source = 1 .. Len(source) /\ source \in Sources
      /\ line \in 1 .. Len(source)
  BY SourceType DEF TypeOK
<1>2. IsStatement(stmt)
  BY <1>1, SourceType DEF stmt
<1>3. Address(source, line) = memoff /\ memoff \in Nat
  BY <1>1, PlaceType DEF Standing, AtPlace, TypeOK
<1>4. ASSUME IsInstr(source[line])
      PROVE  /\ Count(stmt) \in {1, 2} /\ memoff % 4 = 0
             /\ memoff + 4 * Count(stmt) <= data_offset
  <2>1. memoff % 4 = 0
    BY <1>1, <1>3, <1>4, PlaceKinds
  <2>2. Size(source[line]) = 4 * Count(stmt)
    BY <1>4 DEF Size, Words, Count, stmt
  <2>. QED
    BY <1>1, <1>3, <1>4, <2>1, <2>2 DEF Fits, Count
<1>5. ASSUME IsData(source[line])
      PROVE  memoff + ElementSize(stmt.dir) * Len(stmt.args) <= AddrSize
  <2>1. Size(source[line]) = ElementSize(stmt.dir) * Len(stmt.args)
    BY <1>5 DEF Size, IsData, IsInstr, stmt
  <2>. QED
    BY <1>1, <1>3, <1>5, <2>1 DEF Fits
<1>. QED
  BY <1>1, <1>2, <1>3, <1>4, <1>5

LEMMA NotRefused ==
    ASSUME TypeOK, Tidy(source), Standing, Legal(source), Fits(source), line <= Len(source)
    PROVE  ~LabelRefused /\ ~StmtRefused
<1>. DEFINE l == source[line]
<1>1. /\ line \in DOMAIN source /\ source \in Sources /\ IsStatement(stmt)
      /\ memoff \in Nat
      /\ IsInstr(l) => Count(stmt) \in {1, 2} /\ memoff + 4 * Count(stmt) <= data_offset
  BY NextLine
<1>2. ~LabelRefused
  <2>1. Cardinality(LabelsOf(source)) <= max_label_count /\ LabelsOf(source) \cap LongLabels = {}
    BY DEF Legal
  <2>2. Cardinality(LabelsOf(source)) \in Nat /\ max_label_count \in Nat /\ Len(labels) \in Nat
    BY <1>1, FiniteLabels, AssemblerAssumption DEF TypeOK
  <2>3. l.label # None => Len(labels) < Cardinality(LabelsOf(source))
    BY RoomForLabel DEF Standing
  <2>4. l.label # None => l.label \in LabelsOf(source)
    BY <1>1 DEF LabelsOf
  <2>. QED
    BY <2>1, <2>2, <2>3, <2>4 DEF LabelRefused
<1>3. /\ IsSection(l) => stmt.args = <<>>
      /\ stmt.kind = "dir" => stmt.dir # "other"
      /\ IsData(l) => \A j \in DOMAIN stmt.args :
            InRangeOf(strtol(stmt.args[j]), Span(ElementSize(stmt.dir)))
      /\ IsInstr(l) => WellFormed(stmt)
  BY <1>1 DEF Legal, stmt
<1>4. ASSUME stmt.kind = "dir", stmt.dir \in {"byte", "half", "word"},
             NEW k \in DOMAIN stmt.args
      PROVE  IsElement(stmt.args[k], ElementSize(stmt.dir))
  <2>1. InRangeOf(strtol(stmt.args[k]), Span(ElementSize(stmt.dir)))
    BY <1>3, <1>4 DEF IsData, stmt
  <2>2. strtol(stmt.args[k]) \in Int
    BY <1>1, <1>4, TokenTypes DEF IsStatement
  <2>3. ElementSize(stmt.dir) \in {1, 2, 4}
    BY <1>4 DEF ElementSize
  <2>. QED
    BY <2>1, <2>2, <2>3, ElementInRange
<1>5. ASSUME stmt.kind = "instr" PROVE memoff + 4 <= data_offset /\ WellFormed(stmt)
  <2>1. IsInstr(l)
    BY <1>5 DEF IsInstr, stmt
  <2>. QED
    BY <1>1, <1>3, <2>1, AssemblerAssumption
<1>6. stmt.kind = "dir" /\ stmt.dir = "text" => stmt.args = <<>>
  BY <1>3 DEF IsSection, stmt
<1>7. ASSUME stmt.kind = "instr" PROVE ~(memoff + 4 > data_offset)
  BY <1>1, <1>5, <1>7, AssemblerAssumption
<1>8. ~StmtRefused
  BY <1>3, <1>4, <1>5, <1>6, <1>7 DEF StmtRefused
<1>. QED
  BY <1>2, <1>8

LEMMA NotOverrun ==
    ASSUME TypeOK, Tidy(source), Standing, Fits(source), line <= Len(source)
    PROVE  /\ IsInstr(source[line]) => ~InstrOverruns
           /\ IsData(source[line]) => ~DataOverruns
<1>1. /\ line \in DOMAIN source /\ source \in Sources /\ IsStatement(stmt)
      /\ memoff \in Nat
      /\ IsInstr(source[line]) => /\ Count(stmt) \in {1, 2} /\ memoff % 4 = 0
                                  /\ memoff + 4 * Count(stmt) <= data_offset
      /\ IsData(source[line]) => memoff + ElementSize(stmt.dir) * Len(stmt.args) <= AddrSize
  BY NextLine
<1>2. data_offset \in Nat /\ data_offset <= AddrSize /\ AddrSize \in Nat
  BY AssemblerAssumption, SizeAssumption
<1>3. ASSUME IsInstr(source[line]) PROVE ~InstrOverruns
  <2>. DEFINE n == Count(stmt)
  <2>1. n \in {1, 2} /\ memoff % 4 = 0 /\ memoff + 4 * n <= data_offset
    BY <1>1, <1>3
  <2>. HIDE DEF n
  <2>2. memoff + 4 * n <= AddrSize
    BY <1>1, <1>2, <2>1
  <2>3. memoff \div 4 + n - 1 \in 0 .. data_offset \div 4 - 1
    BY <1>1, <1>2, <2>1
  <2>4. ioff + n - 1 \in Slots
    BY <2>3 DEF ioff, Slots
  <2>5. ~(memoff + 4 * n > AddrSize)
    BY <1>1, <1>2, <2>1, <2>2
  <2>. QED
    BY <2>4, <2>5 DEF InstrOverruns, n
<1>4. ASSUME IsData(source[line]) PROVE ~DataOverruns
  <2>. DEFINE n == ElementSize(stmt.dir) * Len(stmt.args)
  <2>1. memoff + n <= AddrSize /\ Size(source[line]) = n /\ n \in Nat
    <3>1. Size(source[line]) = n
      BY <1>4 DEF Size, IsData, IsInstr, stmt
    <3>2. Size(source[line]) \in Nat
      BY <1>1, SizeType, SourceType
    <3>. QED
      BY <1>1, <1>4, <3>1, <3>2
  <2>. HIDE DEF n
  <2>2. ~(memoff + n > AddrSize)
    BY <1>1, <1>2, <2>1
  <2>. QED
    BY <2>2 DEF DataOverruns, n
<1>. QED
  BY <1>3, <1>4

\* A legal instruction that names a label names one that is there, and near.
LEMMA LegalNames ==
    ASSUME NEW src, Legal(src), NEW k \in DOMAIN src, IsInstr(src[k])
    PROVE  LET s == src[k].stmt
               l == NamedBy(s)
           IN  /\ s.mn \in Naming => l # None
               /\ l # None => l \in LabelsOf(src)
               /\ l # None /\ s.mn \in BranchOps \cup {"BNEZ", "BEQZ"} =>
                     Near(Address(src, k), LabelAddress(src, l), BranchReach)
<1>. DEFINE s == src[k].stmt
            l == NamedBy(s)
<1>1. IsInstr(src[k]) => (s.mn \in Naming => l # None)
  BY Zenon DEF Legal
<1>2. l # None => l \in LabelsOf(src)
  BY Zenon DEF Legal
<1>3. l # None => (s.mn \in BranchOps \cup {"BNEZ", "BEQZ"} =>
                     Near(Address(src, k), LabelAddress(src, l), BranchReach))
  BY Zenon DEF Legal
<1>. QED
  BY <1>1, <1>2, <1>3

\* The labels of a legal source are resolved.
LEMMA NormalizeAccepts ==
    ASSUME Inv, Tidy(source), Legal(source), JalCheckPasses, normalize_labels
    PROVE  status' = "loaded"
<1>1. status = "normalize"
  BY DEF normalize_labels
<1>2. TypeOK /\ Standing /\ line = Len(source) + 1
  BY <1>1 DEF Inv
<1>3. PICK u \in Uninit : Written(u)
  BY <1>1 DEF Inv
<1>4. /\ source \in Sources /\ Len(source) \in Nat /\ DOMAIN source = 1 .. Len(source)
      /\ Read = DOMAIN source
  <2>1. source \in Sources /\ Len(source) \in Nat /\ DOMAIN source = 1 .. Len(source)
    BY <1>2, SourceType DEF TypeOK
  <2>. QED
    BY <1>2, <2>1 DEF Read
<1>5. ASSUME NEW l \in LabelsOf(source) PROVE Defined(l)
  <2>1. PICK k \in DOMAIN source : source[k].label = l /\ l # None
    BY DEF LabelsOf
  <2>2. PICK j \in DOMAIN labels : labels[j] = Noted(k)
    BY <1>2, <1>4, <2>1 DEF Standing, Listed
  <2>. QED
    BY <2>1, <2>2 DEF Defined, Noted
<1>6. ASSUME NEW s \in Slots, imem[s].op # "UNIMPL"
      PROVE  /\ \A o \in {imem[s].a1, imem[s].a2, imem[s].a3} :
                   o.type = "LABEL" => Defined(o.label)
             /\ InReach(s)
  <2>1. PICK k \in Read : Covers(k, s)
    <3>1. NewInstr(u).op = "UNIMPL"
      BY DEF NewInstr
    <3>. QED
      BY <1>3, <1>6, <3>1 DEF Written
  <2>. DEFINE t == source[k].stmt
              l == NamedBy(t)
  <2>2. Tells(imem[s], t, u) /\ k \in DOMAIN source /\ IsInstr(source[k])
    BY <1>2, <1>3, <2>1, CoveredTells
  <2>3. t.mn \in Naming => l # None /\ l \in LabelsOf(source) /\ Defined(l)
    <3>1. /\ t.mn \in Naming => l # None
          /\ l # None => l \in LabelsOf(source)
      BY <2>2, LegalNames
    <3>. QED
      BY <1>5, <3>1
  <2>4. \A o \in {imem[s].a1, imem[s].a2, imem[s].a3} : o.type = "LABEL" => Defined(o.label)
    BY <2>2, <2>3 DEF Tells
  <2>5. imem[s].op = "JAL" => Within(4 * s, imem[s].a3.imm, JalReach)
    BY <2>2 DEF Tells, JalCheckPasses
  <2>6. ASSUME imem[s].op \in BranchOps, imem[s].a3.type = "LABEL"
        PROVE  Within(4 * s, Resolved(imem[s].a3).imm, BranchReach)
    <3>1. /\ t.mn \in BranchOps \cup {"BNEZ", "BEQZ"} /\ t.mn \in Naming
          /\ imem[s].a3.label = l
      BY <2>2, <2>6 DEF Tells
    <3>2. Near(Address(source, k), LabelAddress(source, l), BranchReach)
      BY <2>2, <2>3, <3>1, LegalNames
    <3>3. label_addr(l) = LabelAddress(source, l) /\ label_addr(l) \in 0 .. AddrSize
      BY <1>2, <2>3, <3>1, LabelPlace
    <3>4. 4 * s = Address(source, k)
      <4>1. Words(t) = 1
        BY <3>1 DEF Words, BranchOps
      <4>2. Address(source, k) \in Nat /\ s \in Nat
        BY <1>4, PlaceType DEF Slots
      <4>3. s = Address(source, k) \div 4
        BY <2>1, <4>1, <4>2 DEF Covers
      <4>. QED
        BY <1>2, <2>2, <4>3, FirstSlot
    <3>5. Resolved(imem[s].a3).imm = label_addr(l) % WordSize
      <4>1. IsOperand(imem[s].a3)
        BY <1>2 DEF TypeOK, IsEntry
      <4>. QED
        BY <2>6, <3>1, <4>1 DEF Resolved, AsImm, IsOperand
    <3>6. Address(source, k) \in Int /\ BranchReach \in Nat
      BY <1>4, PlaceType, AssemblerAssumption
    <3>. QED
      BY <3>2, <3>3, <3>4, <3>5, <3>6, WithinNear
  <2>. QED
    BY <2>4, <2>5, <2>6 DEF InReach
<1>. QED
  BY <1>6 DEF normalize_labels

LEMMA AcceptsStep ==
    ASSUME JalCheckPasses, Inv, AcceptsLegal, [AsmNext]_asmVars
    PROVE  AcceptsLegal'
<1>1. source' = source
  BY DEF AsmNext, asmVars, Refuse, Blank, Section, parse_data_element, Instruction, EndOfFile,
         normalize_labels
<1>2. SUFFICES ASSUME Tidy(source), Legal(source), Fits(source)
               PROVE  status' \notin {"refused", "overrun"}
  BY <1>1 DEF AcceptsLegal
<1>3. status \notin {"refused", "overrun"} /\ TypeOK
  BY <1>2 DEF AcceptsLegal, Inv
<1>4. status = "parse" => Standing
  BY <1>2 DEF Inv
<1>5. CASE Refuse
  BY <1>2, <1>3, <1>4, <1>5, NotRefused DEF Refuse
<1>6. CASE Blank \/ Section \/ EndOfFile
  BY <1>3, <1>6 DEF Blank, Section, EndOfFile
<1>7. CASE parse_data_element
  <2>1. status = "parse" /\ line <= Len(source) /\ IsData(source[line])
    BY <1>7 DEF parse_data_element, Accepted, IsData, stmt
  <2>2. ~DataOverruns
    BY <1>2, <1>3, <1>4, <2>1, NotOverrun
  <2>3. status' = status
    BY <1>7, <2>2 DEF parse_data_element
  <2>. QED
    BY <1>3, <2>3
<1>8. CASE Instruction
  <2>1. status = "parse" /\ line <= Len(source) /\ IsInstr(source[line])
    BY <1>8 DEF Instruction, Accepted, IsInstr, stmt
  <2>2. ~InstrOverruns
    BY <1>2, <1>3, <1>4, <2>1, NotOverrun
  <2>3. status' = status
    BY <1>8, <2>2 DEF Instruction
  <2>. QED
    BY <1>3, <2>3
<1>9. CASE normalize_labels
  BY <1>2, <1>9, NormalizeAccepts
<1>10. CASE UNCHANGED asmVars
  BY <1>3, <1>10 DEF asmVars
<1>. QED
  BY <1>5, <1>6, <1>7, <1>8, <1>9, <1>10 DEF AsmNext

\* A tidy and legal source that fits is neither refused nor written beyond an array,
\* for every source, every size of the memories and every reach (Emulator.cc:154,
\* 521, 585, 619).  The one thing it takes from the outside is that the immediate
\* nothing has set, which the check of a JAL reads (Emulator.cc:582), passes that
\* check.
THEOREM LegalAccepted ==
    ASSUME JalCheckPasses
    PROVE  AsmSpec => []AcceptsLegal
<1>1. AsmInit => AcceptsLegal
  BY DEF AsmInit, AcceptsLegal
<1>2. Inv /\ AcceptsLegal /\ [AsmNext]_asmVars => AcceptsLegal'
  BY AcceptsStep
<1>. QED
  BY Invariant, <1>1, <1>2, PTL DEF AsmSpec
=============================================================================
