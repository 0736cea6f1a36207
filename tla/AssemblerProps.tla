--------------------------- MODULE AssemblerProps ---------------------------
(***************************************************************************)
(* What the assembler must do: every statement stands where the source     *)
(* says it stands, a source that keeps to the rules is loaded, and one     *)
(* that does not is refused.                                               *)
(***************************************************************************)
EXTENDS Assembler, FiniteSets

(* Where the lines of a source stand. *)

IsSection(l) == l.stmt.kind = "dir" /\ l.stmt.dir \in {"text", "data"}
IsData(l)  == l.stmt.kind = "dir" /\ l.stmt.dir \in {"byte", "half", "word"}
IsInstr(l) == l.stmt.kind = "instr"

Words(s) == IF s.mn \in {"LI", "LA"} THEN 2 ELSE 1

Size(l) == IF IsInstr(l) THEN 4 * Words(l.stmt)
           ELSE IF IsData(l) THEN ElementSize(l.stmt.dir) * Len(l.stmt.args) ELSE 0

Sections == {"start", "text", "data"}

\* The section open behind the first k lines: "start" before one is opened.
OpenOf(src) ==
    LET open[k \in 0 .. Len(src)] ==
            IF k = 0 THEN "start"
            ELSE IF IsSection(src[k]) THEN src[k].stmt.dir ELSE open[k - 1]
    IN  open
SectionOf(src, k) == OpenOf(src)[k - 1]

\* What the first k lines put into a section.
FilledOf(src, section) ==
    LET open == OpenOf(src)
        filled[k \in 0 .. Len(src)] ==
            IF k = 0 THEN 0
            ELSE filled[k - 1] + (IF open[k - 1] = section THEN Size(src[k]) ELSE 0)
    IN  filled

Base(section) == CASE section = "start" -> 0
                   [] section = "text"  -> text_offset
                   [] section = "data"  -> data_offset

\* A line stands behind the earlier lines of its section.
Address(src, k) ==
    LET section == SectionOf(src, k) IN Base(section) + FilledOf(src, section)[k - 1]

LabelsOf(src) == {src[k].label : k \in DOMAIN src} \ {None}
LineOf(src, l) == CHOOSE k \in DOMAIN src : src[k].label = l
LabelAddress(src, l) == Address(src, LineOf(src, l))
-----------------------------------------------------------------------------
(* The rules. *)

\* A section is opened once and holds what belongs there, the text is in one
\* place, and a label is defined once.
Tidy(src) ==
    /\ \A j, k \in DOMAIN src : j # k =>
          /\ IsSection(src[j]) /\ IsSection(src[k]) => src[j].stmt.dir # src[k].stmt.dir
          /\ src[j].label # None => src[j].label # src[k].label
    /\ \A k \in DOMAIN src : /\ IsInstr(src[k]) => SectionOf(src, k) \in {"start", "text"}
                             /\ IsData(src[k]) => SectionOf(src, k) = "data"
    /\ \A j, k \in DOMAIN src :
          IsInstr(src[j]) /\ IsInstr(src[k]) => SectionOf(src, j) = SectionOf(src, k)

\* It fits, word for word.
Fits(src) ==
    \A k \in DOMAIN src :
        /\ IsInstr(src[k]) => Address(src, k) + Size(src[k]) <= data_offset
        /\ IsData(src[k])  => Address(src, k) + Size(src[k]) <= AddrSize

\* The statements that name a label, and the label, if it is one.
Naming == BranchOps \cup {"LA", "BNEZ", "BEQZ", "JAL", "J"}

NamedBy(s) ==
    LET Named(t) == IF t.t = "name" THEN t.l ELSE None
    IN  IF s.kind # "instr" \/ s.mn \notin Naming THEN None
        ELSE CASE s.mn \in BranchOps -> Named(s.args[3])
               [] s.mn \in {"LA", "BNEZ", "BEQZ"} -> Named(s.args[2])
               [] OTHER -> Named(s.args[Len(s.args)])

RegsOf(s) ==
    LET args == {s.args[k] : k \in DOMAIN s.args}
        bases == {t.base : t \in {u \in args : u.t = "mem"}}
    IN  {t \in args \cup bases : t.t \in {"x", "abi"}}

Near(from, to, reach) == from - to \in 1 - reach .. reach - 1

\* Its directives and instructions are well-formed, jump no further than
\* their reach, name labels that exist, registers that exist, and values that
\* fit their width.
Legal(src) ==
    /\ Cardinality(LabelsOf(src)) <= max_label_count /\ LabelsOf(src) \cap LongLabels = {}
    /\ \A k \in DOMAIN src :
        LET s == src[k].stmt
            l == NamedBy(s)
        IN  /\ IsSection(src[k]) => s.args = <<>>
            /\ s.kind = "dir" => s.dir # "other"
            /\ IsData(src[k]) =>
                  \A j \in DOMAIN s.args : InRangeOf(strtol(s.args[j]), Span(ElementSize(s.dir)))
            /\ IsInstr(src[k]) => /\ WellFormed(s)
                                  /\ \A t \in RegsOf(s) : parse_reg(t) \in Reg
                                  /\ s.mn \in Naming => l # None
            /\ l # None =>
                  /\ l \in LabelsOf(src)
                  /\ s.mn \in BranchOps \cup {"BNEZ", "BEQZ"} =>
                        Near(Address(src, k), LabelAddress(src, l), BranchReach)
                  /\ s.mn \in {"JAL", "J"} =>
                        Near(Address(src, k), LabelAddress(src, l), JalReach)
-----------------------------------------------------------------------------
(* Invariants. *)

IsOperand(o) == o \in [type : {"NONE", "REG", "IMM", "LABEL"}, label : {o.label},
                       reg : 0 .. NumRegs, imm : Word]

IsEntry(e) == e.op \in instr_type /\ IsOperand(e.a1) /\ IsOperand(e.a2) /\ IsOperand(e.a3)

\* Every operand holds a register parse_reg accepts and an immediate of 32 bits,
\* and a loaded program has no label left in it.
TypeOK ==
    /\ source \in Sources /\ line \in 1 .. Len(source) + 1
    /\ memoff \in Nat
    /\ labels \in Seq([label : LabelsOf(source), loc : Nat])
    /\ DOMAIN imem = Slots
    /\ \A s \in Slots : LET e == imem[s]
                        IN  /\ IsEntry(e)
                            /\ status = "loaded" /\ e.op # "UNIMPL" =>
                                  \A o \in {e.a1, e.a2, e.a3} : o.type # "LABEL"
    /\ mem \in Memories
    /\ status \in {"parse", "normalize", "loaded", "refused", "overrun"}

\* What line k of the source has left in the two memories and in the table.
Stands(k) ==
    LET l == source[k]
        a == Address(source, k)
    IN  /\ l.label # None => \E j \in DOMAIN labels : labels[j] = [label |-> l.label, loc |-> a]
        /\ IsInstr(l) =>
              /\ l.stmt.mn \in (instr_type \ {"UNIMPL"}) \cup Pseudos =>
                    \A j \in 0 .. Words(l.stmt) - 1 : imem[(a \div 4) + j].op # "UNIMPL"
              /\ \A x \in a .. a + Size(l) - 1 : mem[x] = CC
        /\ IsData(l) => \A j \in 0 .. Size(l) - 1 :
              LET width == ElementSize(l.stmt.dir)
              IN  mem[a + j] = ByteOf(strtol(l.stmt.args[j \div width + 1]) % WordSize, j % width)

\* While a tidy source is read, every line read so far still stands where the
\* source puts it, nothing behind it has been written over it, and the place
\* of the next one is memoff (Emulator.cc:496-550: labels, data elements and
\* two-word pseudo-instructions all move it on).
Placed ==
    (Tidy(source) /\ status \in {"parse", "normalize", "loaded"}) =>
        /\ line <= Len(source) => memoff = Address(source, line)
        /\ \A k \in 1 .. line - 1 : Stands(k)

\* What a new immediate holds passes the check a JAL is put to by mistake, wherever
\* the JAL stands.
JalCheckPasses == \A s \in Slots, u \in Uninit : Within(4 * s, u, JalReach)

\* A legal source that fits is neither refused nor written beyond an array:
\* the checks of parse and normalize_labels demand no more than the rules do
\* (Emulator.cc:154, 521, 585, 619).
AcceptsLegal ==
    (Tidy(source) /\ Legal(source) /\ Fits(source)) => status \notin {"refused", "overrun"}

\* A source that names a label nobody defines, or branches further than the
\* reach, is not loaded, however far apart the two lines are
\* (Emulator.cc:613-623, 631-637).
RefusesDangling ==
    status = "loaded" =>
        \A k \in DOMAIN source :
            LET s == source[k].stmt
                l == NamedBy(s)
            IN  Tidy(source) /\ l # None =>
                  /\ l \in LabelsOf(source)
                  /\ s.mn \in BranchOps \cup {"BNEZ", "BEQZ"} =>
                        Near(Address(source, k), LabelAddress(source, l), BranchReach)

-----------------------------------------------------------------------------
(* What messages and comments say, and the code does not keep. *)

\* Nothing is written beyond the instruction memory or the data memory.
InBounds == status # "overrun"

\* The registers of the instructions exist.
RegistersExist == \A s \in Slots : \A o \in {imem[s].a1, imem[s].a2, imem[s].a3} : o.reg \in Reg

\* The value of a data element is one its width can hold.
ElementsFit ==
    \A k \in 1 .. line - 1 : IsData(source[k]) =>
        \A j \in DOMAIN source[k].stmt.args :
            InRangeOf(strtol(source[k].stmt.args[j]), Span(ElementSize(source[k].stmt.dir)))

\* A source that parse has not refused has passed the checks its messages
\* announce: "Instructions in data segment!" (Emulator.cc:155), "Malformed
\* register name" (61), "Value out of bounds" (466).
ChecksKept == status \in {"loaded", "overrun"} => InBounds /\ RegistersExist /\ ElementsFit
=============================================================================
