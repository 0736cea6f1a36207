---------------------------- MODULE PiplinedCPU ----------------------------
(***************************************************************************)
(* The Lab 9 processor (PiplinedCPU.scala, the stage registers, the        *)
(* register file) wired to its instruction ROM and its data memory as      *)
(* top.scala does it.                                                      *)
(*                                                                         *)
(* The only action is a rising clock edge: every register of the design    *)
(* takes its next value at once, computed from the current values of all   *)
(* of them.  Each conjunct of Tick is one stage register, and each of its  *)
(* disjuncts one arm of that register's when / elsewhen / otherwise.       *)
(***************************************************************************)
EXTENDS Controller, DataMem

CONSTANTS
    Programs,        \* the ROM images considered
    InstMem(_, _)    \* the word image p holds at byte address a

ASSUME ProgramAssumption ==
    \A p \in Programs, a \in Addr : InstMem(p, a) \in Inst

VARIABLES
    prog,       \* the ROM image
    stage_IF,   \* the program counter
    stage_ID,   \* [pc, inst]
    stage_EXE,  \* [pc, inst, imm, rs1, rs2]
    stage_MEM,  \* [pc, inst, alu_out, DM_wdata]
    stage_WB,   \* [pc_plus4, inst, alu_out, ld_data]
    regs

cpuVars == <<stage_IF, stage_ID, stage_EXE, stage_MEM, stage_WB, regs>>
vars == <<prog, cpuVars, dmVars>>

ID_Bubble  == [pc |-> 0, inst |-> Bubble]
EXE_Bubble == [pc |-> 0, inst |-> Bubble, imm |-> 0, rs1 |-> 0, rs2 |-> 0]
MEM_Reset  == [pc |-> 0, inst |-> Bubble, alu_out |-> 0, DM_wdata |-> 0]
WB_Bubble  == [pc_plus4 |-> 0, inst |-> Bubble, alu_out |-> 0, ld_data |-> 0]

Init ==
    /\ prog \in Programs
    /\ stage_IF = 0
    /\ stage_ID = ID_Bubble
    /\ stage_EXE = EXE_Bubble
    /\ stage_MEM = MEM_Reset
    /\ stage_WB = WB_Bubble
    /\ regs = [r \in Reg |-> 0]
    /\ DataMemInit
-----------------------------------------------------------------------------
(* Wires. *)

EXE_alu_out ==
    ALU(E_ALUSel(stage_EXE.inst),
        alu_src1(stage_EXE.inst, stage_EXE.pc, stage_EXE.rs1),
        alu_src2(stage_EXE.inst, stage_EXE.rs2, stage_EXE.imm))
EXE_target_pc == Trunc(EXE_alu_out)

\* The instruction behind a branch is always fetched from pc + 4, and sits in
\* ID when the branch is in EXE: it is the wrong one unless its address is the
\* target.
Predict_Miss ==
    /\ E_En(stage_EXE.inst)
    /\ E_Branch_taken(stage_EXE.inst, stage_EXE.rs1, stage_EXE.rs2)
    /\ stage_ID.pc # EXE_target_pc

Flush_BH == Predict_Miss

\* Variant: no check against WB, as if the register file forwarded its write.
Stall_DH_NotWB ==
    \/ Overlap(stage_ID.inst, stage_EXE.inst)
    \/ Overlap(stage_ID.inst, stage_MEM.inst)

Stall_DH ==
    \/ Overlap(stage_ID.inst, stage_EXE.inst)
    \/ Overlap(stage_ID.inst, stage_MEM.inst)
    \/ Overlap(stage_ID.inst, stage_WB.inst)
Stall_MA == resp_not_back(stage_MEM.inst, Valid)
Hcf == stage_WB.inst.op = "HCF"

\* Variant: a stall wins over a flush (the error README.md:46 reports).
Stall_IF_ID_OverFlush == Hcf \/ Stall_DH \/ Stall_MA

Stall_IF_ID == (Hcf \/ Stall_DH \/ Stall_MA) /\ ~Flush_BH

next_pc == IF Predict_Miss THEN EXE_target_pc ELSE PcPlus4(stage_IF)

MEM_Addr == Trunc(stage_MEM.alu_out)

WB_Value == WB_wdata(stage_WB.inst, stage_WB.pc_plus4, stage_WB.alu_out, stage_WB.ld_data)
-----------------------------------------------------------------------------
(* Registers. *)

Reg_IF == stage_IF' = IF Stall_IF_ID THEN stage_IF ELSE next_pc

\* Variant: the word fetched behind a taken branch is not flushed.
Reg_ID_NoFlush ==
    IF Stall_IF_ID THEN UNCHANGED stage_ID
    ELSE stage_ID' = [pc |-> stage_IF, inst |-> InstMem(prog, stage_IF)]

Reg_ID ==
    \/ /\ Flush_BH
       /\ stage_ID' = ID_Bubble
    \/ /\ ~Flush_BH /\ Stall_IF_ID
       /\ UNCHANGED stage_ID
    \/ /\ ~Flush_BH /\ ~Stall_IF_ID
       /\ stage_ID' = [pc |-> stage_IF, inst |-> InstMem(prog, stage_IF)]

Reg_EXE ==
    \/ /\ Flush_BH
       /\ stage_EXE' = EXE_Bubble
    \/ /\ ~Flush_BH /\ Stall_MA
       /\ UNCHANGED stage_EXE
    \/ /\ ~Flush_BH /\ ~Stall_MA /\ (Hcf \/ Stall_DH)
       /\ stage_EXE' = EXE_Bubble
    \/ /\ ~Flush_BH /\ ~Stall_MA /\ ~Hcf /\ ~Stall_DH
       /\ stage_EXE' = [pc |-> stage_ID.pc, inst |-> stage_ID.inst,
                        imm |-> D_Imm(stage_ID.inst),
                        rs1 |-> regs[stage_ID.inst.rs1],
                        rs2 |-> regs[stage_ID.inst.rs2]]

\* Variant: MEM does not wait for the data memory.
Reg_MEM_NoWait ==
    IF Hcf THEN UNCHANGED stage_MEM
    ELSE stage_MEM' = [pc |-> stage_EXE.pc, inst |-> stage_EXE.inst,
                       alu_out |-> EXE_alu_out, DM_wdata |-> stage_EXE.rs2]

Reg_MEM ==
    \/ /\ Hcf \/ Stall_MA
       /\ UNCHANGED stage_MEM
    \/ /\ ~Hcf /\ ~Stall_MA
       /\ stage_MEM' = [pc |-> stage_EXE.pc, inst |-> stage_EXE.inst,
                        alu_out |-> EXE_alu_out, DM_wdata |-> stage_EXE.rs2]

\* Variant: an HCF leaves WB like any other instruction.
Reg_WB_NoHold ==
    stage_WB' = IF Stall_MA THEN WB_Bubble
                ELSE [pc_plus4 |-> PcPlus4(stage_MEM.pc), inst |-> stage_MEM.inst,
                      alu_out |-> stage_MEM.alu_out, ld_data |-> dataReg]

Reg_WB ==
    \/ /\ Hcf
       /\ UNCHANGED stage_WB
    \/ /\ ~Hcf /\ Stall_MA
       /\ stage_WB' = WB_Bubble
    \/ /\ ~Hcf /\ ~Stall_MA
       /\ stage_WB' = [pc_plus4 |-> PcPlus4(stage_MEM.pc), inst |-> stage_MEM.inst,
                       alu_out |-> stage_MEM.alu_out, ld_data |-> dataReg]

\* regs(0) := 0.U is the last connection and overrides the write.
WriteReg(file, rd, value) == [file EXCEPT ![rd] = value, ![0] = 0]

NextRegs == IF W_RegWEn(stage_WB.inst)
            THEN WriteReg(regs, stage_WB.inst.rd, WB_Value)
            ELSE WriteReg(regs, 0, 0)

RegFile == regs' = NextRegs

Tick ==
    /\ Reg_IF /\ Reg_ID /\ Reg_EXE /\ Reg_MEM /\ Reg_WB /\ RegFile
    /\ Edge(DM_Mem_R(stage_MEM.inst), DM_Mem_W(stage_MEM.inst), MEM_Addr,
            stage_MEM.inst.funct, stage_MEM.DM_wdata)
    /\ UNCHANGED prog

Next == Tick

Spec == Init /\ [][Next]_vars

\* The clock does not stop.
FairSpec == Spec /\ WF_vars(Tick)
=============================================================================
