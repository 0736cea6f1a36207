----------------------------- MODULE MCAssembler -----------------------------
(***************************************************************************)
(* Instances of the assembler: all sources of a few lines over small       *)
(* alphabets, with bytes of four values, three registers, an instruction   *)
(* memory of six words and a data segment of two.                          *)
(***************************************************************************)
EXTENDS AssemblerProps

ALUResult(f, a, b) == IF f = "ADD" THEN Add(a, b) ELSE 0

X(n)      == [t |-> "x", n |-> n]
Abi(name) == [t |-> "abi", name |-> name]
Imm(n)    == [t |-> "imm", n |-> n]
Mem(n, b) == [t |-> "mem", n |-> n, base |-> b]
Name(l)   == [t |-> "name", l |-> l]

Line(l, s)  == [label |-> l, stmt |-> s]
Instr(mn, a) == [kind |-> "instr", mn |-> mn, args |-> a]
Dir(d, a)    == [kind |-> "dir", dir |-> d, args |-> a]
Plain(s)    == Line(None, s)

Text == Plain(Dir("text", <<>>))
Data == Plain(Dir("data", <<>>))
Free(lines, n) == [1 .. n -> lines]

ASSUME JalAssumption == JalCheckPasses

\* What a short source may hold.
Ordinary == {
    Text, Data,
    Plain([kind |-> "none"]),
    Line("d", Dir("word", <<Imm(-1)>>)),
    Plain(Dir("byte", <<Imm(1), Imm(-2), Imm(3)>>)),
    Line("l", Instr("LI", <<X(1), Imm(200)>>)),
    Plain(Instr("LA", <<X(2), Name("d")>>)),
    Plain(Instr("BEQ", <<X(1), X(2), Name("l")>>)),
    Line("m", Instr("JAL", <<Name("l")>>)),
    Plain(Instr("BNEZ", <<X(1), Name("m")>>)),
    Line("l", Instr("HCF", <<>>))}

\* The other forms of a statement, one at a time among simple ones.
Forms == {
    Plain(Dir("half", <<Imm(15), Imm(-8)>>)),
    Plain(Dir("byte", <<Imm(4)>>)),
    Plain(Dir("other", <<>>)),
    Plain(Dir("text", <<Name("l")>>)),
    Plain(Instr("ADD", <<X(1), X(0), X(2)>>)),
    Plain(Instr("ADDI", <<X(1), Abi("ra"), Imm(-4)>>)),
    Plain(Instr("ADDI", <<X(1), X(1), Imm(8)>>)),
    Plain(Instr("ADDI", <<X(1), X(1)>>)),
    Plain(Instr("ADDI", <<X(1), X(2), Mem(3, X(2))>>)),
    Line("long", Instr("MV", <<X(1), X(2)>>)),
    Plain(Instr("ADD", <<X(1), X(0), X(4)>>)),
    Plain(Instr("LW", <<X(1), Mem(7, X(2))>>)),
    Plain(Instr("SB", <<X(1), Mem(-4, Abi("zero"))>>)),
    Plain(Instr("SW", <<X(1), X(2)>>)),
    Plain(Instr("LUI", <<X(1), Imm(31)>>)),
    Plain(Instr("LUI", <<X(1), Imm(32)>>)),
    Plain(Instr("JALR", <<X(1), Mem(0, X(2))>>)),
    Plain(Instr("JAL", <<X(1), Name("l")>>)),
    Plain(Instr("J", <<Name("l")>>)),
    Plain(Instr("J", <<Name("m")>>)),
    Plain(Instr("BEQZ", <<X(1), Name("l")>>)),
    Plain(Instr("MV", <<X(1), X(2)>>)),
    Plain(Instr("RET", <<>>)),
    Plain(Instr("LI", <<X(1), Imm(-129)>>)),
    Plain(Instr("LI", <<X(1), Name("l")>>)),
    Plain(Instr("FENCE", <<X(1)>>))}

Around == {Text, Data, Line("l", Instr("HCF", <<>>)), Plain(Instr("LI", <<X(1), Imm(-128)>>))}

MCSources ==
    Free(Ordinary, 4)
      \cup {<<a, b, f, c>> : a \in Around, b \in Around, f \in Forms, c \in Around}

\* A byte that takes more than its width, a register too many, and an li in
\* the last word in front of the data segment.
MCUnchecked == {
    << Data, Plain(Dir("byte", <<Imm(-5)>>)),
       Text, Plain(Instr("ADD", <<X(1), X(0), X(3)>>)) >>
      \o [k \in 1 .. 4 |-> Plain(Instr("RET", <<>>))]
      \o << Plain(Instr("LI", <<X(1), Imm(5)>>)) >>}
=============================================================================
