--------------------------- MODULE MCPiplinedCPU ---------------------------
(***************************************************************************)
(* Instances of PiplinedCPUProps for TLC: bytes of 2 bits, words of 8, an  *)
(* address space of 32 bytes (8 instructions), registers x0 .. x2.         *)
(*                                                                         *)
(* A program is a few instructions out of a set, an HCF, and nops behind   *)
(* it, also at the addresses that are no multiple of 4.  The sets put      *)
(* non-zero bits in the rd, rs1 and rs2 fields of formats without them.    *)
(***************************************************************************)
EXTENDS PiplinedCPUProps, Sequences

ALUModel == INSTANCE Alu WITH Width <- 8
MCALU(f, a, b) == ALUModel!ALUOut(f, a, b)

I(op, funct, rd, rs1, rs2, imm) ==
    [op |-> op, funct |-> funct, rd |-> rd, rs1 |-> rs1, rs2 |-> rs2, imm |-> imm]

Nop == I("OP_IMM", "ADD", 0, 0, 0, 0)
HCF == I("HCF", "ADD", 1, 1, 2, 0)

\* One instruction of every kind, dense in register dependences.
Mixed == {
    I("OP_IMM", "ADD", 1, 1, 2, 64),        \* addi x1, x1, 64
    I("OP",     "XOR", 2, 1, 2, 0),         \* xor  x2, x1, x2
    I("LOAD",   "Word", 1, 0, 2, 4),        \* lw   x1, 4(x0)
    I("LOAD",   "Byte", 2, 1, 1, 1),        \* lb   x2, 1(x1)
    I("STORE",  "Word", 2, 0, 1, 4),        \* sw   x1, 4(x0)
    I("STORE",  "Byte", 1, 1, 2, 5),        \* sb   x2, 5(x1)
    I("BRANCH", "EQ", 1, 1, 0, 8),          \* beq  x1, x0, +8
    I("BRANCH", "LT", 2, 2, 1, 252),        \* blt  x2, x1, -4
    I("JAL",    "ADD", 1, 2, 1, 8),         \* jal  x1, +8
    I("JALR",   "ADD", 0, 2, 1, 4),         \* jalr x0, 4(x2)
    I("AUIPC",  "ADD", 2, 1, 2, 32),        \* auipc x2, 32
    I("LUI",    "ADD", 2, 2, 1, 192) }      \* lui  x2, 192

\* Producers and consumers of registers at every distance up to four.
Hazards == {
    I("OP_IMM", "ADD", 1, 2, 1, 64),        \* addi x1, x2, 64
    I("OP",     "SUB", 2, 1, 2, 0),         \* sub  x2, x1, x2
    I("LOAD",   "Half", 1, 2, 2, 4),        \* lh   x1, 4(x2)
    I("STORE",  "Half", 1, 2, 1, 4),        \* sh   x1, 4(x2)
    I("BRANCH", "NE", 1, 1, 2, 8),          \* bne  x1, x2, +8
    I("JAL",    "ADD", 2, 1, 1, 252),       \* jal  x2, -4
    I("OP_IMM", "OR", 0, 1, 1, 3) }         \* ori  x0, x1, 3

MCInstMem(p, a) ==
    CASE a % 4 = 0 /\ a \div 4 < Len(p) -> p[a \div 4 + 1]
      [] a = 4 * Len(p) -> HCF
      [] OTHER -> Nop

SafePrograms == {p \in [1 .. 3 -> Mixed] \cup [1 .. 4 -> Hazards] : Restricted(p)}

\* Different values in every byte.
MCMemories == {[x \in Addr |-> (x + x \div 4) % ByteSize]}

MCPowerUp == {[readAddr |-> 9, writeAddr |-> 6, writeData |-> 77, length |-> "Half"]}
=============================================================================
