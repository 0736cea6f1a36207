---------------------------- MODULE MCCorrelation ----------------------------
(***************************************************************************)
(* Instances of CorrelationProps for TLC, of the sizes of MCPiplinedCPU    *)
(* and MCSimTop.  A program is a few instructions out of a set and HCFs    *)
(* behind them, with a nop in the last word; it only goes forward.         *)
(***************************************************************************)
EXTENDS CorrelationProps

ALUModel == INSTANCE Alu WITH Width <- 8
MCALU(f, a, b) == ALUModel!ALUOut(f, a, b)

I(op, funct, rd, rs1, rs2, imm) ==
    [op |-> op, funct |-> funct, rd |-> rd, rs1 |-> rs1, rs2 |-> rs2, imm |-> imm]

HCF == I("HCF", "ADD", 0, 0, 0, 0)

\* Instructions of IFStage's tables, and a nop, without a backward jump.
Forward == {
    I("OP_IMM", "ADD", 0, 0, 0, 0),         \* nop
    I("OP_IMM", "ADD", 1, 1, 0, 5),         \* addi x1, x1, 5
    I("OP",     "ADD", 2, 1, 2, 0),         \* add  x2, x1, x2
    I("LOAD",   "Word", 1, 0, 0, 4),        \* lw   x1, 4(x0)
    I("STORE",  "Byte", 0, 0, 1, 8),        \* sb   x1, 8(x0)
    I("BRANCH", "EQ", 0, 1, 2, 8),          \* beq  x1, x2, +8
    I("JAL",    "ADD", 1, 0, 0, 8),         \* jal  x1, +8
    I("LUI",    "ADD", 2, 0, 0, 16) }       \* lui  x2, 16

MCInstMem(p, a) ==
    CASE a % 4 = 0 /\ a \div 4 < Len(p) -> p[a \div 4 + 1]
      [] a = AddrSize - 4 -> I("OP_IMM", "ADD", 0, 0, 0, 0)
      [] OTHER -> HCF

SafePrograms ==
    {p \in [1 .. 4 -> Forward] :
        \A k \in 1 .. 3 : ~(p[k].op \in {"LOAD", "STORE"} /\ p[k + 1].op = "JAL")}

\* They are programs of which SameResult is proved.
ASSUME SafeAssumption == \A p \in SafePrograms : Comparable(p)

\* What the one or the other computes wrongly, each with a register of its own.
Disagreements == {<<
    I("OP_IMM", "ADD", 1, 0, 0, 32),        \* addi x1, x0, 32
    I("OP",     "SLTU", 2, 1, 1, 0),        \* sltu x2, x1, x1     CPU.cc adds
    I("LOAD",   "UByte", 3, 0, 0, 5),       \* lbu  x3, 5(x0)      DataMem.scala aligns
    I("JAL",    "ADD", 4, 0, 0, 8),         \* jal  x4, +8         lost behind a load
    I("OP_IMM", "ADD", 0, 0, 0, 0),         \* nop
    I("JAL",    "ADD", 0, 0, 0, 4),         \* jal  x0, +4         CPU.cc writes x0
    I("JALR",   "ADD", 1, 1, 0, 0),         \* jalr x1, 0(x1)      CPU.cc goes to the next line
    I("OP_IMM", "ADD", 5, 5, 0, 1) >>}      \* addi x5, x5, 1

MCMemories == {[x \in Addr |-> (x + x \div 4) % ByteSize]}

MCPowerUp == {[readAddr |-> 9, writeAddr |-> 6, writeData |-> 77, length |-> "Half"]}
=============================================================================
