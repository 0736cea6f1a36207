------------------------------- MODULE SimCpu -------------------------------
(***************************************************************************)
(* The functional half of the simulator: CPU.cc executes one instruction   *)
(* in no simulated time on its own registers and on DataMemory.            *)
(*                                                                         *)
(* An instruction is the record of RiscvDefs: ADDI is OP_IMM with funct    *)
(* "ADD", BEQ is BRANCH with funct "EQ", UNIMPL is the zero word.  The     *)
(* loader has turned the label of a branch or a JAL into the address the   *)
(* relative imm stands for.  The shifts of CPU.cc use the whole second     *)
(* operand, which C++ leaves undefined from 32 on: ALU takes the outcome   *)
(* of the shift instructions of the machines the simulator is built for,   *)
(* which look at the low five bits.                                        *)
(***************************************************************************)
EXTENDS RiscvDefs

CONSTANTS
    Programs,       \* the assembled programs considered
    InstMem(_, _),  \* the entry of imem that holds the word at an address
    InitMemories,   \* the data memory after loading
    ImemSize        \* 4 times the entries of imem

ASSUME ProgramAssumption ==
    /\ \A p \in Programs, a \in Addr : InstMem(p, a) \in Inst
    /\ InitMemories \subseteq Memories
    /\ ImemSize \in Nat /\ ImemSize % 4 = 0 /\ ImemSize <= AddrSize

VARIABLES
    prog,
    pc,     \* a 32-bit word, unlike the hardware's
    rf,     \* register 0 is a register like the others
    mem     \* AddrSize bytes

cpuVars == <<prog, pc, rf, mem>>

SimCpuInit ==
    /\ prog \in Programs
    /\ pc = 0
    /\ rf = [r \in Reg |-> 0]
    /\ mem \in InitMemories
-----------------------------------------------------------------------------
\* fetchInstr divides the pc by 4.
Slot == pc - (pc % 4)
Fetched == InstMem(prog, Slot)

\* Variant: the sum is wider than the pc.
Target_Wide(i) == Slot + i.imm

\* Variant: the offset counts words.
Target_Words(i) == Add(Slot, i.imm \div 4)

\* The labels of branches and of JAL are absolute in imem.
Target(i) == Add(Slot, i.imm)

DataAddr(i) == Add(rf[i.rs1], i.imm)

\* The requests memRead and memWrite hand to the data memory.
MemReadReqPacket(i)  == [op |-> i.funct, addr |-> DataAddr(i), a1 |-> i.rd]
MemWriteReqPacket(i) == [op |-> i.funct, addr |-> DataAddr(i), data |-> rf[i.rs2]]

\* The answer is the value itself, in the same call.
memReadReqHandler(p)  == ReadLanes(mem, p.addr, p.op)
memWriteReqHandler(p) == WriteLanes(mem, p.addr, p.op, p.data)

memRead(i)  == memReadReqHandler(MemReadReqPacket(i))
memWrite(i) == memWriteReqHandler(MemWriteReqPacket(i))

\* What BaseMemory asserts of an access, and imem should.
InRange(i) ==
    /\ pc < ImemSize
    /\ i.op \in {"LOAD", "STORE"} => DataAddr(i) + Lanes(i.funct) <= AddrSize

\* SLTU adds.
Computed(i) ==
    LET a == rf[i.rs1]
        b == IF i.op = "OP" THEN rf[i.rs2] ELSE i.imm
    IN  IF i.op = "OP" /\ i.funct = "SLTU" THEN Add(a, b) ELSE ALU(i.funct, a, b)

\* Variant: BLTU and BGEU compare like BLT and BGE.
Taken_Signed(i) ==
    LET a == rf[i.rs1]
        b == rf[i.rs2]
    IN  \/ i.funct = "EQ"  /\ a = b
        \/ i.funct = "NE"  /\ a # b
        \/ i.funct \in {"LT", "LTU"} /\ BrLT(FALSE, a, b)
        \/ i.funct \in {"GE", "GEU"} /\ ~BrLT(FALSE, a, b)
Taken(i) ==
    LET a == rf[i.rs1]
        b == rf[i.rs2]
    IN  \/ i.funct = "EQ"  /\ a = b
        \/ i.funct = "NE"  /\ a # b
        \/ i.funct = "LT"  /\ BrLT(FALSE, a, b)
        \/ i.funct = "GE"  /\ ~BrLT(FALSE, a, b)
        \/ i.funct = "LTU" /\ BrLT(TRUE, a, b)
        \/ i.funct = "GEU" /\ ~BrLT(TRUE, a, b)

\* The registers after i: no test of the destination.
NextRf(i) ==
    IF i.op \notin {"OP", "OP_IMM", "AUIPC", "LUI", "JAL", "JALR", "LOAD"} THEN rf
    ELSE [rf EXCEPT ![i.rd] =
            CASE i.op \in {"OP", "OP_IMM"} -> Computed(i)
              [] i.op = "AUIPC"            -> Add(pc, i.imm)
              [] i.op = "LUI"              -> i.imm
              [] i.op \in {"JAL", "JALR"}  -> Add(pc, 4)
              [] OTHER -> memRead(i)]

\* JALR has written its link register when it reads its base.
NextPc(i) ==
    CASE i.op = "JAL" \/ (i.op = "BRANCH" /\ Taken(i)) -> Target(i)
      [] i.op = "JALR" -> Add(NextRf(i)[i.rs1], i.imm)
      [] OTHER -> Add(pc, 4)

NextMem(i) ==
    IF i.op = "STORE" THEN memWrite(i) ELSE mem

IsTakenBranch(i) == NextPc(i) # Add(pc, 4)

processInstr(i) ==
    /\ rf' = NextRf(i)
    /\ mem' = NextMem(i)
    /\ pc' = NextPc(i)
=============================================================================
