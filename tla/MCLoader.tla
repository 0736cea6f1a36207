------------------------------- MODULE MCLoader -------------------------------
(***************************************************************************)
(* Instances of the loader and the CPU: a few free lines between a data    *)
(* segment and an HCF, in either order of the segments, with words of 8    *)
(* bits, four registers, and eight words of text, the first of which       *)
(* belongs to no section.                                                  *)
(***************************************************************************)
EXTENDS LoaderProps

ALUModel == INSTANCE Alu WITH Width <- 8
MCALU(f, a, b) == ALUModel!ALUOut(f, a, b)

X(n)      == [t |-> "x", n |-> n]
Abi(name) == [t |-> "abi", name |-> name]
Imm(n)    == [t |-> "imm", n |-> n]
Mem(n, b) == [t |-> "mem", n |-> n, base |-> b]
Name(l)   == [t |-> "name", l |-> l]

Line(l, s)   == [label |-> l, stmt |-> s]
Instr(mn, a) == [kind |-> "instr", mn |-> mn, args |-> a]
Dir(d, a)    == [kind |-> "dir", dir |-> d, args |-> a]
Plain(mn, a) == Line(None, Instr(mn, a))

Text == Line(None, Dir("text", <<>>))
Data == << Line(None, Dir("data", <<>>)),
           Line(None, Dir("byte", <<Imm(-1), Imm(2)>>)),
           Line("d", Dir("half", <<Imm(-3)>>)),
           Line(None, Dir("word", <<Imm(77)>>)) >>
Stop == Line("e", Instr("HCF", <<>>))

\* Lines that move the others, move what they name, or move on.
Movers == {
    Line("l", Instr("LI", <<X(1), Imm(-83)>>)),
    Plain("LA", <<X(2), Name("d")>>),
    Plain("LW", <<X(1), Mem(2, X(2))>>),
    Plain("SH", <<X(1), Mem(0, X(2))>>),
    Plain("ADDI", <<X(2), X(1), Imm(-4)>>),
    Plain("BLT", <<X(1), X(2), Name("e")>>),
    Line("m", Instr("BNEZ", <<X(1), Name("l")>>)),
    Plain("JAL", <<X(1), Name("e")>>),
    Line("l", [kind |-> "none"])}

Others == {
    Plain("LB", <<Abi("ra"), Mem(-1, X(2))>>),
    Plain("SUB", <<X(2), X(0), X(1)>>),
    Plain("BEQZ", <<X(1), Name("e")>>),
    Plain("JAL", <<Name("l")>>),
    Plain("J", <<Name("m")>>),
    Plain("MV", <<X(2), Abi("ra")>>),
    Plain("AUIPC", <<X(2), Imm(3)>>),
    Plain("RET", <<>>),
    Plain("FENCE", <<>>)}

Bodies == [1 .. 3 -> Movers] \cup [1 .. 2 -> Movers \cup Others]

Layouts == {"data first", "data last", "no sections"}
Source(layout, s) == CASE layout = "data first"  -> Data \o <<Text>> \o s \o <<Stop>>
                       [] layout = "data last"   -> <<Text>> \o s \o <<Stop>> \o Data
                       [] layout = "no sections" -> s \o <<Stop>>

\* TLC keeps the value of a definition, but not of one that stands for a constant.
Sensible == {src \in {Source(layout, s) : layout \in Layouts, s \in Bodies} : Runnable(src)}
MCSources == Sensible
=============================================================================
