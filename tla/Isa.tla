-------------------------------- MODULE Isa --------------------------------
(***************************************************************************)
(* What a processor for this instruction set promises: one instruction at  *)
(* a time, in program order, each one seeing the effects of all the        *)
(* earlier ones and of nothing else.  No pipeline, no stall, no clock.     *)
(***************************************************************************)
EXTENDS RiscvDefs

CONSTANTS
    Programs,        \* the ROM images considered
    InstMem(_, _),   \* the word image p holds at address a
    InitMemories,    \* the initial contents of the data memory
    PcSize,          \* the program counter wraps at PcSize
    AccessAddr(_, _) \* where an access of a width to an address is made: the
                     \* instruction set leaves misaligned accesses open

VARIABLES prog, pc, regs, memory, halted

isaVars == <<prog, pc, regs, memory, halted>>

Wrap(a) == a % PcSize
NextInst == (pc + 4) % PcSize

inst == InstMem(prog, pc)
src1 == regs[inst.rs1]
src2 == regs[inst.rs2]

\* Register 0 is wired to zero.
SetReg(value) ==
    regs' = IF inst.rd = 0 THEN regs ELSE [regs EXCEPT ![inst.rd] = value]

EffectiveAddr == AccessAddr(inst.funct, Trunc(Add(src1, inst.imm)))

Holds ==
    \/ inst.funct = "EQ"  /\ BrEq(src1, src2)
    \/ inst.funct = "NE"  /\ ~BrEq(src1, src2)
    \/ inst.funct = "LT"  /\ BrLT(FALSE, src1, src2)
    \/ inst.funct = "GE"  /\ ~BrLT(FALSE, src1, src2)
    \/ inst.funct = "LTU" /\ BrLT(TRUE, src1, src2)
    \/ inst.funct = "GEU" /\ ~BrLT(TRUE, src1, src2)

Init ==
    /\ prog \in Programs
    /\ memory \in InitMemories
    /\ pc = 0
    /\ regs = [r \in Reg |-> 0]
    /\ halted = FALSE

Computed == CASE inst.op = "OP"     -> ALU(inst.funct, src1, src2)
              [] inst.op = "OP_IMM" -> ALU(inst.funct, src1, inst.imm)
              [] inst.op = "AUIPC"  -> Add(pc, inst.imm)
              [] OTHER              -> inst.imm

Compute ==
    /\ inst.op \in {"OP", "OP_IMM", "AUIPC", "LUI"}
    /\ SetReg(Computed)
    /\ pc' = NextInst
    /\ UNCHANGED <<prog, memory, halted>>

Load ==
    /\ inst.op = "LOAD"
    /\ SetReg(ReadLanes(memory, EffectiveAddr, inst.funct))
    /\ pc' = NextInst
    /\ UNCHANGED <<prog, memory, halted>>

Store ==
    /\ inst.op = "STORE"
    /\ memory' = WriteLanes(memory, EffectiveAddr, inst.funct, src2)
    /\ pc' = NextInst
    /\ UNCHANGED <<prog, regs, halted>>

Branch ==
    /\ inst.op = "BRANCH"
    /\ pc' = IF Holds THEN Wrap(Add(pc, inst.imm)) ELSE NextInst
    /\ UNCHANGED <<prog, regs, memory, halted>>

\* The target of a JALR is read before the link register is written.
Jump ==
    /\ inst.op \in {"JAL", "JALR"}
    /\ pc' = Wrap(Add(IF inst.op = "JAL" THEN pc ELSE src1, inst.imm))
    /\ SetReg(NextInst)
    /\ UNCHANGED <<prog, memory, halted>>

Halt ==
    /\ inst.op = "HCF"
    /\ halted' = TRUE
    /\ pc' = NextInst
    /\ UNCHANGED <<prog, regs, memory>>

Next == ~halted /\ (Compute \/ Load \/ Store \/ Branch \/ Jump \/ Halt)

Spec == Init /\ [][Next]_isaVars
=============================================================================
