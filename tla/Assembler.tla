------------------------------ MODULE Assembler ------------------------------
(***************************************************************************)
(* The assembler and loader, Emulator.cc: parse reads the source line by   *)
(* line into the instruction memory of the CPU and into the data memory,   *)
(* and normalize_labels replaces the labels by addresses.                  *)
(*                                                                         *)
(* A source is a sequence of lines [label, stmt], label None where a line  *)
(* has none.  A statement is                                               *)
(*   [kind |-> "none"]                     nothing, or, on a line without  *)
(*                                         a label, a comment              *)
(*   [kind |-> "dir", dir, args]           dir: the directive the token is *)
(*                                         taken for, "other" for none     *)
(*   [kind |-> "instr", mn, args]          mn: a mnemonic in upper case,   *)
(*                                         or any other word: the # of a   *)
(*                                         comment behind a label is one   *)
(* and an argument is a token, with what the conversions make of it:       *)
(*   [t |-> "x", n]            x5, n what atoi reads                       *)
(*   [t |-> "abi", name]       the other names of registers                *)
(*   [t |-> "imm", n]          a number                                    *)
(*   [t |-> "mem", n, base]    4(x2)                                       *)
(*   [t |-> "name", l]         a label                                     *)
(*                                                                         *)
(* print_syntax_error, like exit, ends the program: the framework's ERROR  *)
(* does (parse goes on with a null file behind one).  A write beyond an    *)
(* array ends the model, in the status "overrun".  The text kept for       *)
(* messages (append_source, str, psrc, orig_line) is left out.             *)
(***************************************************************************)
EXTENDS RiscvDefs, Sequences

CONSTANTS
    text_offset,        \* EmulatorConfig; memory_size is AddrSize
    data_offset,
    max_label_count,
    LongLabels,         \* the labels of MAX_LABEL_LEN characters and more
    LowSize,            \* 2^12, the values of the short immediates
    BranchReach,        \* 2^13
    JalReach,           \* 2^21
    Sources,
    None,
    Uninit              \* what a new immediate of imem may hold

ASSUME AssemblerAssumption ==
    /\ text_offset \in Nat /\ data_offset \in Nat /\ max_label_count \in Nat
    /\ text_offset % 4 = 0 /\ data_offset % 4 = 0
    /\ text_offset <= data_offset /\ data_offset <= AddrSize /\ 2 * AddrSize < WordSize
    /\ LowSize \in Nat \ {0} /\ LowSize % 2 = 0 /\ WordSize % LowSize = 0
    /\ BranchReach \in Nat /\ JalReach \in Nat
    /\ 1 \in Reg       \* ra, which parse_instr names itself
    /\ Uninit \subseteq Word /\ Uninit # {}

HighSize == WordSize \div LowSize       \* 2^20

RegOps    == AluOps
ImmOps    == {"ADDI", "SLTI", "SLTIU", "ANDI", "ORI", "XORI", "SLLI", "SRLI", "SRAI"}
MemOps    == {"LB", "LBU", "LH", "LHU", "LW", "SB", "SH", "SW"}
BranchOps == {"BEQ", "BGE", "BGEU", "BLT", "BLTU", "BNE"}
UpperOps  == {"LUI", "AUIPC"}
instr_type ==
    RegOps \cup ImmOps \cup MemOps \cup BranchOps \cup UpperOps \cup {"JAL", "JALR", "HCF", "UNIMPL"}

VARIABLES
    source,
    line,       \* the next line
    memoff,
    labels,     \* [label, loc]
    imem,       \* operands [type, label, reg, imm]
    mem,
    status      \* "parse", "normalize", "loaded", or "refused", "overrun"

asmVars == <<source, line, memoff, labels, imem, mem, status>>

Slots == 0 .. data_offset \div 4 - 1

\* new instr[data_offset / 4]: reg, imm and label are not initialised.  Only
\* imm is ever read so.
NewInstr(u) ==
    LET new == [type |-> "NONE", label |-> None, reg |-> 0, imm |-> u]
    IN  [op |-> "UNIMPL", a1 |-> new, a2 |-> new, a3 |-> new]

AsmInit ==
    /\ source \in Sources
    /\ line = 1
    /\ memoff = 0
    /\ labels = <<>>
    /\ \E u \in Uninit : imem = [s \in Slots |-> NewInstr(u)]
    /\ mem = [x \in Addr |-> 0]
    /\ status = "parse"
-----------------------------------------------------------------------------
(* Operands. *)

abi == <<"zero", "ra", "sp", "gp", "tp", "t0", "t1", "t2", "s0", "s1", "a0", "a1", "a2",
         "a3", "a4", "a5", "a6", "a7", "s2", "s3", "s4", "s5", "s6", "s7", "s8", "s9", "s10",
         "s11", "t3", "t4", "t5", "t6">>

\* x32 passes the check as well.
parse_reg(t) ==
    CASE t.t = "x" /\ t.n \in 0 .. NumRegs -> t.n
      [] t.t = "abi" /\ \E k \in DOMAIN abi : abi[k] = t.name ->
            (CHOOSE k \in DOMAIN abi : abi[k] = t.name) - 1
      [] OTHER -> -1

IsReg(t) == parse_reg(t) # -1

\* What a source is made of.
IsToken(t) ==
    /\ t.t \in {"x", "abi", "imm", "mem", "name"}
    /\ t.t \in {"x", "imm", "mem"} => t.n \in Int
    /\ t.t = "mem" => parse_reg(t.base) \in -1 .. NumRegs
    /\ parse_reg(t) \in -1 .. NumRegs
    /\ t.t = "name" => t.l # None

IsStatement(s) ==
    /\ s.kind \in {"none", "dir", "instr"}
    /\ s.kind = "dir" => s.dir \in {"text", "data", "byte", "half", "word", "other"}
    /\ s.kind # "none" => /\ s.args \in Seq({s.args[k] : k \in DOMAIN s.args})
                          /\ \A k \in DOMAIN s.args : IsToken(s.args[k])

ASSUME SourceAssumption ==
    \A src \in Sources : /\ src \in Seq({src[k] : k \in DOMAIN src})
                         /\ \A k \in DOMAIN src : IsStatement(src[k].stmt)

\* A short immediate is taken whether it is meant signed or unsigned.
parse_imm(n) == n % WordSize
InRangeOf(n, size) == -(size \div 2) <= n /\ n <= size - 1

\* parse_imm looks at the first character of a token only: 4(x2) is read as 4.
IsImm(t, size) == t.t \in {"imm", "mem"} /\ InRangeOf(t.n, size)

IsMem(t) == t.t = "mem" /\ InRangeOf(t.n, LowSize) /\ IsReg(t.base)

\* strtol without a check: a token that is no number is 0.
strtol(t) == IF t.t \in {"imm", "mem"} THEN t.n ELSE 0

signextend(w) ==
    IF (w \div (LowSize \div 2)) % 2 = 1 THEN (WordSize - LowSize) + (w % LowSize) ELSE w

\* Variant: the lower part of a constant is sign-extended like an immediate.
LowerPart_Extended(w) == signextend(w % LowSize)

\* It is not: it only ever fills up what LUI left.
LowerPart(w) == w % LowSize

WithReg(o, r) == [o EXCEPT !.reg = r]
WithImm(o, w) == [o EXCEPT !.imm = w]
AsReg(o, r)   == [o EXCEPT !.type = "REG", !.reg = r]
AsImm(o, w)   == [o EXCEPT !.type = "IMM", !.imm = w]
AsLabel(o, t) == [o EXCEPT !.type = "LABEL", !.label = IF t.t = "name" THEN t.l ELSE None]
-----------------------------------------------------------------------------
(* Instructions. *)

parse_mnemonic(mn) == IF mn \in instr_type THEN mn ELSE "UNIMPL"

\* The statement has operands of the number and kinds its mnemonic demands.
\* Anything behind an unknown mnemonic passes.
WellFormed(s) ==
    LET a == s.args
        Regs(n) == \A k \in 1 .. n : IsReg(a[k])
    IN  CASE s.mn \in RegOps               -> Len(a) = 3 /\ Regs(3)
          [] s.mn \in ImmOps               -> Len(a) = 3 /\ Regs(2) /\ IsImm(a[3], LowSize)
          [] s.mn \in MemOps \cup {"JALR"} -> Len(a) = 2 /\ Regs(1) /\ IsMem(a[2])
          [] s.mn \in BranchOps            -> Len(a) = 3 /\ Regs(2)
          [] s.mn \in UpperOps             -> Len(a) = 2 /\ Regs(1) /\ IsImm(a[2], HighSize)
          [] s.mn = "JAL"                  -> Len(a) = 1 \/ (Len(a) = 2 /\ Regs(1))
          [] s.mn = "LI" -> Len(a) = 2 /\ Regs(1) /\ InRangeOf(strtol(a[2]), WordSize)
          [] s.mn \in {"LA", "BNEZ", "BEQZ"} -> Len(a) = 2 /\ Regs(1)
          [] s.mn = "MV"                   -> Len(a) = 2 /\ Regs(2)
          [] s.mn = "J"                    -> Len(a) = 1
          [] s.mn = "RET"                  -> a = <<>>
          [] OTHER                         -> TRUE

\* What parse_instr makes of the entry e: operands it does not mention stay.
parse_instr(s, e) ==
    LET a == s.args
        r(k) == parse_reg(a[k])
        Put(a1, a2, a3) == [op |-> parse_mnemonic(s.mn), a1 |-> a1, a2 |-> a2, a3 |-> a3]
    IN  CASE s.mn \in RegOps ->
               Put(WithReg(e.a1, r(1)), WithReg(e.a2, r(2)), WithReg(e.a3, r(3)))
          [] s.mn \in ImmOps ->
               Put(WithReg(e.a1, r(1)), WithReg(e.a2, r(2)),
                   WithImm(e.a3, signextend(parse_imm(a[3].n))))
          [] s.mn \in MemOps \cup {"JALR"} ->
               Put(WithReg(e.a1, r(1)), WithReg(e.a2, parse_reg(a[2].base)),
                   WithImm(e.a3, parse_imm(a[2].n)))
          [] s.mn \in BranchOps ->
               Put(WithReg(e.a1, r(1)), WithReg(e.a2, r(2)), AsLabel(e.a3, a[3]))
          [] s.mn \in UpperOps ->
               Put(WithReg(e.a1, r(1)), WithImm(e.a2, parse_imm(a[2].n)), e.a3)
          [] s.mn = "JAL" /\ Len(a) = 2 -> Put(AsReg(e.a1, r(1)), AsLabel(e.a2, a[2]), e.a3)
          [] s.mn = "JAL" /\ Len(a) = 1 -> Put(AsReg(e.a1, 1), AsLabel(e.a2, a[1]), e.a3)
          [] OTHER -> Put(e.a1, e.a2, e.a3)

\* The entries a pseudo-instruction turns e, and f behind it, into.
parse_pseudoinstructions(s, e, f) ==
    LET a == s.args
        r(k) == parse_reg(a[k])
        w == parse_imm(strtol(a[2]))
        Put(op, a1, a2, a3) == [op |-> op, a1 |-> a1, a2 |-> a2, a3 |-> a3]
    IN  CASE s.mn = "LI" ->
               << Put("LUI", AsReg(e.a1, r(1)), AsImm(e.a2, w \div LowSize), e.a3),
                  Put("ADDI", AsReg(f.a1, r(1)), AsReg(f.a2, r(1)), AsImm(f.a3, LowerPart(w))) >>
          [] s.mn = "LA" ->
               << Put("LUI", AsReg(e.a1, r(1)), AsLabel(e.a2, a[2]), e.a3),
                  Put("ADDI", AsReg(f.a1, r(1)), AsReg(f.a2, r(1)), AsLabel(f.a3, a[2])) >>
          [] s.mn = "RET" -> << Put("JALR", AsReg(e.a1, 0), AsReg(e.a2, 1), AsImm(e.a3, 0)) >>
          [] s.mn = "J"   -> << Put("JAL", AsReg(e.a1, 0), AsLabel(e.a2, a[1]), e.a3) >>
          [] s.mn = "MV"  -> << Put("ADDI", AsReg(e.a1, r(1)), AsReg(e.a2, r(2)), AsImm(e.a3, 0)) >>
          [] s.mn = "BNEZ" -> << Put("BNE", AsReg(e.a1, r(1)), AsReg(e.a2, 0), AsLabel(e.a3, a[2])) >>
          [] s.mn = "BEQZ" -> << Put("BEQ", AsReg(e.a1, r(1)), AsReg(e.a2, 0), AsLabel(e.a3, a[2])) >>

Pseudos == {"LI", "LA", "RET", "J", "MV", "BNEZ", "BEQZ"}

\* Variant: every statement takes one word.
Count_One(s) == 1
Count(s) == IF s.mn \in {"LI", "LA"} THEN 2 ELSE 1

Assembled(s, e, f) ==
    IF s.mn \in Pseudos THEN parse_pseudoinstructions(s, e, f) ELSE <<parse_instr(s, e)>>
-----------------------------------------------------------------------------
(* parse: one line. *)

stmt == source[line].stmt
ioff == memoff \div 4

ElementSize(dir) == CASE dir = "byte" -> 1 [] dir = "half" -> 2 [] dir = "word" -> 4

\* One more than the values an unsigned element has.
Span(width) == CASE width = 1 -> ByteSize [] width = 2 -> ByteSize * ByteSize [] OTHER -> WordSize

\* Variant: the bits above the element must be zero.
IsElement_Unsigned(t, width) == strtol(t) \div Span(width) = 0

\* Only values too large are refused.
IsElement(t, width) == strtol(t) \div Span(width) <= 0

LabelRefused ==
    /\ source[line].label # None
    /\ source[line].label \in LongLabels \/ Len(labels) >= max_label_count

StmtRefused ==
    \/ stmt.kind = "dir" /\ stmt.dir = "other"
    \/ stmt.kind = "dir" /\ stmt.dir = "text" /\ stmt.args # <<>>
    \/ /\ stmt.kind = "dir" /\ stmt.dir \in {"byte", "half", "word"}
       /\ \E k \in DOMAIN stmt.args : ~IsElement(stmt.args[k], ElementSize(stmt.dir))
    \/ stmt.kind = "instr" /\ (memoff + 4 > data_offset \/ ~WellFormed(stmt))

\* parse_instr has looked at the first of two words only.
InstrOverruns == ioff + Count(stmt) - 1 \notin Slots \/ memoff + 4 * Count(stmt) > AddrSize
DataOverruns  == memoff + ElementSize(stmt.dir) * Len(stmt.args) > AddrSize

\* A label stands for the place the line begins at.
NoteLabel ==
    labels' = IF source[line].label = None THEN labels
              ELSE Append(labels, [label |-> source[line].label, loc |-> memoff])

Accepted == status = "parse" /\ line <= Len(source) /\ ~LabelRefused /\ ~StmtRefused

Refuse ==
    /\ status = "parse" /\ line <= Len(source)
    /\ LabelRefused \/ StmtRefused
    /\ status' = "refused"
    /\ UNCHANGED <<source, line, memoff, labels, imem, mem>>

Blank ==
    /\ Accepted /\ stmt.kind = "none"
    /\ NoteLabel
    /\ line' = line + 1
    /\ UNCHANGED <<source, memoff, imem, mem, status>>

\* A section that is opened again starts at its beginning again.
Section ==
    /\ Accepted /\ stmt.kind = "dir" /\ stmt.dir \in {"text", "data"}
    /\ NoteLabel
    /\ line' = line + 1
    /\ memoff' = IF stmt.dir = "text" THEN text_offset ELSE data_offset
    /\ UNCHANGED <<source, imem, mem, status>>

parse_data_element ==
    /\ Accepted /\ stmt.kind = "dir" /\ stmt.dir \in {"byte", "half", "word"}
    /\ NoteLabel
    /\ LET width == ElementSize(stmt.dir)
           size  == width * Len(stmt.args)
           value(x) == strtol(stmt.args[(x - memoff) \div width + 1]) % WordSize
       IN  /\ mem' = [x \in Addr |-> IF x >= memoff /\ x < memoff + size
                                     THEN ByteOf(value(x), (x - memoff) % width) ELSE mem[x]]
           /\ memoff' = memoff + size
           /\ status' = IF DataOverruns THEN "overrun" ELSE status
    /\ line' = line + 1
    /\ UNCHANGED <<source, imem>>

\* What the loader leaves in the data memory for an instruction: 0xcc bytes.
CC == (4 * ByteSize) \div 5

Instruction ==
    /\ Accepted /\ stmt.kind = "instr"
    /\ NoteLabel
    /\ LET next == IF ioff + 1 \in Slots THEN imem[ioff + 1] ELSE imem[ioff]
           words == Assembled(stmt, imem[ioff], next)
       IN  imem' = [s \in Slots |-> IF s - ioff + 1 \in DOMAIN words THEN words[s - ioff + 1]
                                    ELSE imem[s]]
    /\ mem' = [x \in Addr |-> IF x >= memoff /\ x < memoff + 4 * Count(stmt) THEN CC ELSE mem[x]]
    /\ memoff' = memoff + 4 * Count(stmt)
    /\ line' = line + 1
    /\ status' = IF InstrOverruns THEN "overrun" ELSE status
    /\ UNCHANGED source

EndOfFile ==
    /\ status = "parse" /\ line > Len(source)
    /\ status' = "normalize"
    /\ UNCHANGED <<source, line, memoff, labels, imem, mem>>
-----------------------------------------------------------------------------
(* normalize_labels. *)

Defined(l) == \E k \in DOMAIN labels : labels[k].label = l

\* The first definition counts.
label_addr(l) ==
    labels[CHOOSE k \in DOMAIN labels :
              labels[k].label = l /\ \A j \in 1 .. k - 1 : labels[j].label # l].loc

\* Variant: the operand stays a label.
Resolved_Again(o) == IF o.type = "LABEL" THEN WithImm(o, label_addr(o.label) % WordSize) ELSE o
Resolved(o) == IF o.type = "LABEL" THEN AsImm(o, label_addr(o.label) % WordSize) ELSE o

Normalized(e) ==
    IF e.op = "UNIMPL" THEN e
    ELSE LET upper == Resolved(e.a2)
             lower == Resolved(e.a3)
         IN  [op |-> e.op, a1 |-> Resolved(e.a1),
              a2 |-> IF e.a2.type = "LABEL" /\ e.op = "LUI"
                     THEN WithImm(upper, upper.imm \div LowSize) ELSE upper,
              a3 |-> IF e.a3.type = "LABEL" /\ e.op = "ADDI"
                     THEN WithImm(lower, LowerPart(lower.imm)) ELSE lower]

\* Variant: the difference is not made positive.
Within_Backwards(from, target, reach) == from - Signed(target, WordSize) < reach
Within(from, target, reach) ==
    LET diff == from - Signed(target, WordSize) IN -reach < diff /\ diff < reach

\* The check of a JAL looks at an operand a JAL does not have.
InReach(s) ==
    LET e == imem[s]
    IN  /\ e.op = "JAL" /\ e.a2.type = "LABEL" => Within(4 * s, e.a3.imm, JalReach)
        /\ e.op \in BranchOps /\ e.a3.type = "LABEL" =>
              Within(4 * s, Resolved(e.a3).imm, BranchReach)

normalize_labels ==
    /\ status = "normalize"
    /\ LET ok(s) == imem[s].op # "UNIMPL" =>
                       /\ \A o \in {imem[s].a1, imem[s].a2, imem[s].a3} :
                             o.type = "LABEL" => Defined(o.label)
                       /\ InReach(s)
       IN  IF \A s \in Slots : ok(s)
           THEN /\ imem' = [s \in Slots |-> Normalized(imem[s])]
                /\ status' = "loaded"
           ELSE status' = "refused" /\ UNCHANGED imem
    /\ UNCHANGED <<source, line, memoff, labels, mem>>

AsmNext ==
    Refuse \/ Blank \/ Section \/ parse_data_element \/ Instruction \/ EndOfFile \/ normalize_labels

AsmSpec == AsmInit /\ [][AsmNext]_asmVars
=============================================================================
