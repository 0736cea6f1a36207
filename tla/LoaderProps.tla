----------------------------- MODULE LoaderProps -----------------------------
(***************************************************************************)
(* What a loaded program must do: run like its source.  The abstract       *)
(* machine is Isa, and its program is read off the source directly, with   *)
(* no memory of operands, no table of labels and no second word of a       *)
(* pseudo-instruction: li and la set their register in one step.           *)
(***************************************************************************)
EXTENDS Loader, AssemblerProps

InstrAt(src, a) == {k \in DOMAIN src : IsInstr(src[k]) /\ Address(src, k) = a}

\* The second word of an li or la, and a place nothing is assembled to.
Skip == I("LUI", "ADD", 0, 0, 0, 0)

\* What the manual of the assembler language says of line k.
Meaning(src, k) ==
    LET s == src[k].stmt
        r(j) == parse_reg(s.args[j])
        imm(j) == s.args[j].n % WordSize
        label == LabelAddress(src, NamedBy(s))
        to == (label - Address(src, k)) % WordSize
        Off == s.args[2].n % WordSize
        BaseReg == parse_reg(s.args[2].base)
    IN  CASE s.mn \in RegOps              -> I("OP", s.mn, r(1), r(2), r(3), 0)
          [] s.mn \in ImmOps              -> I("OP_IMM", WithConstant[s.mn], r(1), r(2), 0, imm(3))
          [] s.mn \in DOMAIN Loads        -> I("LOAD", Loads[s.mn], r(1), BaseReg, 0, Off)
          [] s.mn \in DOMAIN Stores       -> I("STORE", Stores[s.mn], 0, BaseReg, r(1), Off)
          [] s.mn \in BranchOps           -> I("BRANCH", Tests[s.mn], 0, r(1), r(2), to)
          [] s.mn = "BNEZ"                -> I("BRANCH", "NE", 0, r(1), 0, to)
          [] s.mn = "BEQZ"                -> I("BRANCH", "EQ", 0, r(1), 0, to)
          [] s.mn \in UpperOps            -> I(s.mn, "ADD", r(1), 0, 0, (s.args[2].n * LowSize) % WordSize)
          [] s.mn = "LI"                  -> I("LUI", "ADD", r(1), 0, 0, strtol(s.args[2]) % WordSize)
          [] s.mn = "LA"                  -> I("LUI", "ADD", r(1), 0, 0, label)
          [] s.mn = "MV"                  -> I("OP_IMM", "ADD", r(1), r(2), 0, 0)
          [] s.mn = "J"                   -> I("JAL", "ADD", 0, 0, 0, to)
          [] s.mn = "JAL"                 -> I("JAL", "ADD", IF Len(s.args) = 2 THEN r(1) ELSE 1, 0, 0, to)
          [] s.mn = "JALR"                -> I("JALR", "ADD", r(1), BaseReg, 0, Off)
          [] s.mn = "RET"                 -> I("JALR", "ADD", 0, 1, 0, 0)
          [] s.mn = "HCF"                 -> I("HCF", "ADD", 0, 0, 0, 0)
          [] OTHER                        -> Skip

SourceInst(src, a) ==
    LET here == InstrAt(src, a)
    IN  IF here = {} THEN Skip ELSE Meaning(src, CHOOSE k \in here : TRUE)

\* What line k leaves in the data memory: its elements, or the filling of text.
CellsOf(src, k) ==
    LET s == src[k].stmt
        width == ElementSize(s.dir)
        Cell(j) == [at |-> Address(src, k) + j,
                    byte |-> IF IsInstr(src[k]) THEN CC
                             ELSE ByteOf(strtol(s.args[j \div width + 1]) % WordSize, j % width)]
    IN  {Cell(j) : j \in 0 .. Size(src[k]) - 1}

SourceMemory(src) ==
    LET cells == UNION {CellsOf(src, k) : k \in DOMAIN src}
    IN  [x \in Addr |-> IF \E c \in cells : c.at = x
                        THEN (CHOOSE c \in cells : c.at = x).byte ELSE 0]
-----------------------------------------------------------------------------
(* The sources that are meant. *)

CodeOf(src) == {Meaning(src, k) : k \in {j \in DOMAIN src : IsInstr(src[j])}}

Writes(i) == IF i.op \in {"STORE", "BRANCH", "HCF"} \/ i = Skip THEN {} ELSE {i.rd}
Reads(i)  == (IF i.op \in {"OP", "OP_IMM", "LOAD", "STORE", "BRANCH", "JALR"} THEN {i.rs1} ELSE {})
               \cup (IF i.op \in {"OP", "STORE", "BRANCH"} THEN {i.rs2} ELSE {})

\* Immediates are signed, and jumps go to lines of the text, or back behind a
\* JAL (to address 0 from a register that nothing writes).
Meant(src) ==
    /\ \A k \in DOMAIN src :
          LET s == src[k].stmt
          IN  IsInstr(src[k]) =>
                /\ \A j \in DOMAIN s.args :
                      s.args[j].t = "mem" \/ (s.args[j].t = "imm" /\ s.mn \in ImmOps) =>
                          s.args[j].n < LowSize \div 2
                /\ NamedBy(s) # None /\ s.mn # "LA" =>
                      SectionOf(src, LineOf(src, NamedBy(s))) = SectionOf(src, k)
    /\ \A i \in CodeOf(src) : i.op = "JALR" =>
          /\ i.imm = 0
          /\ \A j \in CodeOf(src) : i.rs1 \in Writes(j) => j.op = "JAL"

\* What the CPU is known to compute otherwise: SLTU, JALR over its own base,
\* and register 0 once it has been written.
KnownOtherwise(src) ==
    \/ \E i \in CodeOf(src) : i.op = "OP" /\ i.funct = "SLTU"
    \/ \E i \in CodeOf(src) : i.op = "JALR" /\ i.rd = i.rs1
    \/ \E i, j \in CodeOf(src) : 0 \in Writes(i) /\ 0 \in Reads(j)

Runnable(src) ==
    /\ Tidy(src) /\ Legal(src) /\ Fits(src)
    /\ Meant(src) /\ ~KnownOtherwise(src)

\* What each source reads as.
Reading ==
    [src \in Sources |-> [text |-> [a \in Addr |-> SourceInst(src, a)], data |-> SourceMemory(src)]]
-----------------------------------------------------------------------------
\* Between the two words of an li or la the register lacks its lower part.
SecondWord == pc >= 4 /\ \E k \in InstrAt(source, pc - 4) : Words(source[k].stmt) = 2

RegsMapped ==
    [r \in Reg |-> IF r = 0 THEN 0
                   ELSE IF SecondWord /\ r = Cpu!Fetched.rd THEN Add(rf[r], Cpu!Fetched.imm)
                   ELSE rf[r]]

\* Addresses are words.  Nothing is assembled to one that is not in Addr.
ReadingAt(src, a) == IF a \in Addr THEN Reading[src].text[a] ELSE Skip

Abstract == INSTANCE Isa WITH
    prog <- source, Programs <- Sources, InstMem <- ReadingAt,
    regs <- RegsMapped,
    memory <- IF status \in {"loaded", "halted", "aborted"} THEN mem ELSE Reading[source].data,
    InitMemories <- Memories,
    halted <- status = "halted",
    PcSize <- WordSize,
    AccessAddr <- LAMBDA width, a : a

\* A runnable source runs as it reads: loading leaves the data memory its
\* elements describe, and every instruction executed has the effect its line
\* has, whatever has moved the lines before it, wherever its label stands and
\* however parse_instr has laid out its operands (Emulator.cc:145-450,
\* 513-629, CPU.cc:61-128).
ImplementsSource == Abstract!Spec

EndsInHcf(src) ==
    /\ Len(src) > 0 /\ IsInstr(src[Len(src)])
    /\ src[Len(src)].stmt.mn = "HCF"

\* A program that ends in an HCF and jumps to its own lines only is never
\* fetched beyond imem, which fetchInstr would read unchecked (CPU.cc:236).
FetchInText ==
    (status = "loaded" /\ EndsInHcf(source)) => pc < data_offset
=============================================================================
