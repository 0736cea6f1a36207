----------------------------- MODULE Controller -----------------------------
(***************************************************************************)
(* The combinational part of Controller.scala, and of the datapath it      *)
(* steers (ImmGen, Path_EXE, Path_WB, DataMem's address logic): tables     *)
(* over the instruction that sits in a stage.                              *)
(***************************************************************************)
EXTENDS RiscvDefs

\* R_type, and the default for an unknown opcode, generate no immediate.
D_Imm(i) == IF i.op \in {"OP", "HCF", "ZERO"} THEN 0 ELSE i.imm

E_En(i) == i.op \in {"BRANCH", "JALR", "JAL"}

E_BrUn(i) == i.funct \in {"LTU", "GEU"}

E_Branch_taken(i, rs1, rs2) ==
    LET eq == BrEq(rs1, rs2)
        lt == BrLT(E_BrUn(i), rs1, rs2)
    IN  \/ i.op \in {"JALR", "JAL"}
        \/ /\ i.op = "BRANCH"
           /\ \/ i.funct = "EQ" /\ eq
              \/ i.funct = "NE" /\ ~eq
              \/ i.funct \in {"LT", "LTU"} /\ lt
              \/ i.funct \in {"GE", "GEU"} /\ ~lt

alu_src1(i, pc, rs1) ==
    CASE i.op \in {"BRANCH", "JAL", "AUIPC"} -> pc
      [] i.op \in {"LUI", "HCF"} -> 0
      [] OTHER -> rs1

alu_src2(i, rs2, imm) == IF i.op \in {"OP", "HCF", "ZERO"} THEN rs2 ELSE imm

E_ALUSel(i) == IF i.op \in {"OP", "OP_IMM"} THEN i.funct ELSE "ADD"

DM_Mem_R(i) == i.op = "LOAD"
DM_Mem_W(i) == i.op = "STORE"

W_RegWEn(i) == i.op \in {"LOAD", "JALR", "JAL", "OP_IMM", "OP", "AUIPC", "LUI"}

WB_wdata(i, pc_plus4, alu_out, ld_data) ==
    CASE i.op = "LOAD" -> ld_data
      [] i.op \in {"JALR", "JAL"} -> pc_plus4
      [] OTHER -> alu_out

is_D_use_rs1(i) == i.op \in {"LOAD", "STORE", "BRANCH", "JALR", "OP_IMM", "OP"}
is_D_use_rs2(i) == i.op \in {"STORE", "BRANCH", "OP"}
is_use_rd(i) == i.op \in {"LOAD", "JALR", "JAL", "OP_IMM", "OP", "AUIPC", "LUI"}

\* Variant: register 0 is a register like the others.
Overlap_Zero(d, e) ==
    /\ is_use_rd(e)
    /\ \/ is_D_use_rs1(d) /\ d.rs1 = e.rd
       \/ is_D_use_rs2(d) /\ d.rs2 = e.rd

\* The instruction d in ID reads a register that e, further down, will write.
Overlap(d, e) ==
    /\ is_use_rd(e)
    /\ e.rd # 0
    /\ \/ is_D_use_rs1(d) /\ d.rs1 = e.rd
       \/ is_D_use_rs2(d) /\ d.rs2 = e.rd

\* Variant: the answer of the data memory is not looked at.
resp_not_back_Forever(i, valid) == DM_Mem_R(i) \/ DM_Mem_W(i)

resp_not_back(i, valid) == ~valid /\ (DM_Mem_R(i) \/ DM_Mem_W(i))
=============================================================================
