-------------------------------- MODULE Loader --------------------------------
(***************************************************************************)
(* SOC::simInit and what it starts: the source is read into the memories   *)
(* of the CPU, its labels are normalised, and the CPU executes what it     *)
(* finds in imem, one instruction at a time, from address 0 on.            *)
(*                                                                         *)
(* The assembler and the CPU share the entries of imem: which of the three *)
(* operands holds the destination, a source or the immediate is a          *)
(* convention between parse_instr and processInstr.  Decode is the latter's*)
(* side of it.                                                             *)
(***************************************************************************)
EXTENDS Assembler

VARIABLES pc, rf        \* class CPU; imem and mem are those the loader writes

loaderVars == <<asmVars, pc, rf>>

Stores == [SB |-> "Byte", SH |-> "Half", SW |-> "Word"]
Loads  == [LB |-> "Byte", LBU |-> "UByte", LH |-> "Half", LHU |-> "UHalf", LW |-> "Word"]
Tests  == [BEQ |-> "EQ", BNE |-> "NE", BLT |-> "LT", BGE |-> "GE", BLTU |-> "LTU", BGEU |-> "GEU"]
WithConstant == [ADDI |-> "ADD", SLTI |-> "SLT", SLTIU |-> "SLTU", ANDI |-> "AND", ORI |-> "OR",
                 XORI |-> "XOR", SLLI |-> "SLL", SRLI |-> "SRL", SRAI |-> "SRA"]

I(op, funct, rd, rs1, rs2, imm) ==
    [op |-> op, funct |-> funct, rd |-> rd, rs1 |-> rs1, rs2 |-> rs2, imm |-> imm]

\* What processInstr takes the entry at a for.  The CPU jumps to an absolute
\* address, the instruction of RiscvDefs to a relative one.
Decode(entries, a) ==
    LET e == entries[a \div 4]
        r1 == e.a1.reg
        r2 == e.a2.reg
        to(target) == (target - (a - (a % 4))) % WordSize
    IN  CASE a \div 4 \notin Slots   -> Bubble
          [] e.op \in RegOps         -> I("OP", e.op, r1, r2, e.a3.reg, 0)
          [] e.op \in ImmOps         -> I("OP_IMM", WithConstant[e.op], r1, r2, 0, e.a3.imm)
          [] e.op \in DOMAIN Loads   -> I("LOAD", Loads[e.op], r1, r2, 0, e.a3.imm)
          [] e.op \in DOMAIN Stores  -> I("STORE", Stores[e.op], 0, r2, r1, e.a3.imm)
          [] e.op \in BranchOps      -> I("BRANCH", Tests[e.op], 0, r1, r2, to(e.a3.imm))
          [] e.op = "JAL"            -> I("JAL", "ADD", r1, 0, 0, to(e.a2.imm))
          [] e.op = "JALR"           -> I("JALR", "ADD", r1, r2, 0, e.a3.imm)
          [] e.op \in UpperOps       -> I(e.op, "ADD", r1, 0, 0, (e.a2.imm * LowSize) % WordSize)
          [] e.op = "HCF"            -> I("HCF", "ADD", 0, 0, 0, 0)
          [] OTHER                   -> Bubble

Cpu == INSTANCE SimCpu WITH Programs <- {}, InitMemories <- {}, ImemSize <- data_offset,
                            InstMem <- Decode, prog <- imem

LoaderInit ==
    /\ AsmInit
    /\ pc = 0
    /\ rf = [r \in Reg |-> 0]

\* parse and normalize_labels.  The first event is scheduled behind them.
simInit == AsmNext /\ UNCHANGED <<pc, rf>>

execOneInstr ==
    /\ status = "loaded" /\ Cpu!InRange(Cpu!Fetched)
    /\ Cpu!processInstr(Cpu!Fetched)
    /\ status' = IF Cpu!Fetched.op = "HCF" THEN "halted" ELSE status
    /\ UNCHANGED <<source, line, memoff, labels, imem>>

\* An assertion of BaseMemory, or a fetch beyond imem.
Abort ==
    /\ status = "loaded" /\ ~Cpu!InRange(Cpu!Fetched)
    /\ status' = "aborted"
    /\ UNCHANGED <<source, line, memoff, labels, imem, mem, pc, rf>>

LoaderNext == simInit \/ execOneInstr \/ Abort

LoaderSpec == LoaderInit /\ [][LoaderNext]_loaderVars
=============================================================================
