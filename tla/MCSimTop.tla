------------------------------ MODULE MCSimTop ------------------------------
(***************************************************************************)
(* Instances of SimTopProps for TLC: bytes of 2 bits, words of 8, a memory *)
(* of 32 bytes, 8 words of program, registers x0 .. x2, five packets.       *)
(*                                                                         *)
(* A program is Slots instructions out of an alphabet, an HCF, and nops    *)
(* behind it.                                                              *)
(***************************************************************************)
EXTENDS SimTopProps

CONSTANT Alphabet, Slots

ALUModel == INSTANCE Alu WITH Width <- 8
MCALU(f, a, b) == ALUModel!ALUOut(f, a, b)

I(op, funct, rd, rs1, rs2, imm) ==
    [op |-> op, funct |-> funct, rd |-> rd, rs1 |-> rs1, rs2 |-> rs2, imm |-> imm]

Nop == I("OP_IMM", "ADD", 0, 0, 0, 0)
HCF == I("HCF", "ADD", 0, 0, 0, 0)

\* Instructions of IFStage's tables, and jumps of both kinds.
Tables == <<
    I("OP",     "ADD", 1, 2, 1, 0),         \* add  x1, x2, x1
    I("LOAD",   "Word", 2, 1, 0, 4),        \* lw   x2, 4(x1)
    I("STORE",  "Byte", 0, 1, 2, 7),        \* sb   x2, 7(x1)
    I("BRANCH", "EQ", 0, 1, 2, 8),          \* beq  x1, x2, +8
    I("JAL",    "ADD", 1, 0, 0, 252),       \* jal  x1, -4
    I("JALR",   "ADD", 2, 1, 0, 8) >>       \* jalr x2, 8(x1)

\* Two more of the tables, and instructions that are not in them.
Others == <<
    I("OP_IMM", "ADD", 1, 1, 0, 5),         \* addi x1, x1, 5
    I("LUI",    "ADD", 2, 0, 0, 16),        \* lui  x2, 16
    I("OP",     "SUB", 2, 2, 1, 0),         \* sub  x2, x2, x1
    I("LOAD",   "UHalf", 1, 2, 0, 7),       \* lhu  x1, 7(x2)
    I("STORE",  "Half", 0, 1, 2, 5),        \* sh   x2, 5(x1)
    I("BRANCH", "LTU", 0, 1, 2, 8),         \* bltu x1, x2, +8
    I("AUIPC",  "ADD", 2, 0, 0, 16),        \* auipc x2, 16
    I("OP_IMM", "SRA", 1, 2, 0, 1) >>       \* srai x1, x2, 1

MCInstMem(p, a) ==
    CASE a % 4 = 0 /\ a \div 4 < Slots -> Alphabet[p[a \div 4 + 1]]
      [] a = 4 * Slots -> HCF
      [] OTHER -> Nop

AllPrograms == [1 .. Slots -> DOMAIN Alphabet]
SafePrograms == {p \in AllPrograms : Restricted(p)}

\* The two alphabets, each program out of one of them. A backward jump, which
\* ends a loop, stands last: nothing is reached behind it but what a branch in
\* front of it may skip to.
Both == Tables \o Others
OfOneAlphabet(p) == \A j, k \in 1 .. Slots : p[j] <= Len(Tables) <=> p[k] <= Len(Tables)
LoopsAtTheEnd(p) == \A k \in 1 .. Slots - 1 : Alphabet[p[k]].op # "JAL"
BothPrograms == {p \in SafePrograms : OfOneAlphabet(p) /\ LoopsAtTheEnd(p)}

MCMemories == {[x \in Addr |-> (x + x \div 4) % ByteSize]}

\* Different bytes, in words that are multiples of 4: JALRs stay in the program.
AlignedMemories == {[x \in Addr |-> IF x % 4 = 0 THEN 0 ELSE (x + x \div 4) % ByteSize]}
=============================================================================
