------------------------- MODULE CorrelationProofs -------------------------
(***************************************************************************)
(* The hardware and the simulator leave the same result, for every value   *)
(* of the constants.                                                       *)
(*                                                                         *)
(* Hw and Sim are the modules of theorems about the two, with the          *)
(* constants and variables of Correlation.                                 *)
(***************************************************************************)
EXTENDS CorrelationProps, RiscvLemmas

Hw  == INSTANCE PiplinedCPUProofs
Sim == INSTANCE SimTopProofs

-----------------------------------------------------------------------------
(* A definition means the same in all instances of its module. *)

LEMMA SameInit9 ==
    Lab9!Init <=> Hw!Init
BY DEF Lab9!Init, Hw!Init, Lab9!ID_Bubble, Hw!ID_Bubble, Lab9!EXE_Bubble, Hw!EXE_Bubble,
      Lab9!MEM_Reset, Hw!MEM_Reset, Lab9!WB_Bubble, Hw!WB_Bubble, Lab9!Bubble, Hw!Bubble,
      Lab9!Reg, Hw!Reg, Lab9!DataMemInit, Hw!DataMemInit

LEMMA SameWires9 ==
    /\ Lab9!Stall_IF_ID <=> Hw!Stall_IF_ID
    /\ Lab9!Stall_DH <=> Hw!Stall_DH
    /\ Lab9!Stall_MA <=> Hw!Stall_MA
    /\ Lab9!Flush_BH <=> Hw!Flush_BH
    /\ Lab9!Predict_Miss <=> Hw!Predict_Miss
    /\ Lab9!Hcf <=> Hw!Hcf
    /\ Lab9!EXE_alu_out = Hw!EXE_alu_out
    /\ Lab9!EXE_target_pc = Hw!EXE_target_pc
BY DEF Lab9!Stall_IF_ID, Hw!Stall_IF_ID, Lab9!Hcf, Hw!Hcf, Lab9!Stall_DH, Hw!Stall_DH,
      Lab9!Stall_MA, Hw!Stall_MA, Lab9!Flush_BH, Hw!Flush_BH, Lab9!Overlap, Hw!Overlap,
      Lab9!is_use_rd, Hw!is_use_rd, Lab9!is_D_use_rs1, Hw!is_D_use_rs1, Lab9!is_D_use_rs2,
      Hw!is_D_use_rs2, Lab9!resp_not_back, Hw!resp_not_back, Lab9!DM_Mem_R, Hw!DM_Mem_R,
      Lab9!DM_Mem_W, Hw!DM_Mem_W, Lab9!Valid, Hw!Valid, Lab9!LastCycle, Hw!LastCycle,
      Lab9!Predict_Miss, Hw!Predict_Miss, Lab9!E_En, Hw!E_En, Lab9!E_Branch_taken,
      Hw!E_Branch_taken, Lab9!BrEq, Hw!BrEq, Lab9!BrLT, Hw!BrLT, Lab9!E_BrUn, Hw!E_BrUn,
      Lab9!Signed, Hw!Signed, Lab9!WordSize, Hw!WordSize, Lab9!EXE_target_pc,
      Hw!EXE_target_pc, Lab9!Trunc, Hw!Trunc, Lab9!EXE_alu_out, Hw!EXE_alu_out,
      Lab9!E_ALUSel, Hw!E_ALUSel, Lab9!alu_src1, Hw!alu_src1, Lab9!alu_src2, Hw!alu_src2

LEMMA SameEdge9 ==
    \A r, w, a, l, d : Lab9!Edge(r, w, a, l, d) <=> Hw!Edge(r, w, a, l, d)
BY DEF Lab9!Edge, Hw!Edge, Lab9!Idle, Hw!Idle, Lab9!Read, Hw!Read, Lab9!Write, Hw!Write,
      Lab9!Wait, Hw!Wait, Lab9!CountOrFinish, Hw!CountOrFinish, Lab9!LastCycle,
      Hw!LastCycle, Lab9!readData, Hw!readData, Lab9!ReadLanes, Hw!ReadLanes,
      Lab9!WriteLanes, Hw!WriteLanes, Lab9!alignedAddr, Hw!alignedAddr, Lab9!Lanes,
      Hw!Lanes, Lab9!ByteOf, Hw!ByteOf, Lab9!Signed, Hw!Signed, Lab9!WordSize, Hw!WordSize,
      Lab9!Addr, Hw!Addr

LEMMA SameRegs9 ==
    Lab9!RegFile <=> Hw!RegFile
BY DEF Lab9!RegFile, Hw!RegFile, Lab9!NextRegs, Hw!NextRegs, Lab9!W_RegWEn, Hw!W_RegWEn,
      Lab9!WriteReg, Hw!WriteReg, Lab9!WB_Value, Hw!WB_Value, Lab9!WB_wdata, Hw!WB_wdata

LEMMA SameTick9 ==
    Lab9!Tick <=> Hw!Tick
BY SameWires9, SameEdge9, SameRegs9
  DEF Lab9!Tick, Hw!Tick, Lab9!Reg_IF, Hw!Reg_IF, Lab9!Reg_ID, Hw!Reg_ID, Lab9!Reg_EXE,
      Hw!Reg_EXE, Lab9!Reg_MEM, Hw!Reg_MEM, Lab9!Reg_WB, Hw!Reg_WB, Lab9!next_pc,
      Hw!next_pc, Lab9!PcPlus4, Hw!PcPlus4, Lab9!ID_Bubble, Hw!ID_Bubble, Lab9!EXE_Bubble,
      Hw!EXE_Bubble, Lab9!WB_Bubble, Hw!WB_Bubble, Lab9!Bubble, Hw!Bubble, Lab9!D_Imm,
      Hw!D_Imm, Lab9!DM_Mem_R, Hw!DM_Mem_R, Lab9!DM_Mem_W, Hw!DM_Mem_W, Lab9!MEM_Addr,
      Hw!MEM_Addr, Lab9!Trunc, Hw!Trunc

LEMMA SameRestricted9 ==
    \A p : Lab9!Restricted(p) <=> Hw!Restricted(p)
BY DEF Lab9!Restricted, Hw!Restricted, Lab9!NoZeroWord, Hw!NoZeroWord, Lab9!NoLinkAfterMemOp,
      Hw!NoLinkAfterMemOp, Lab9!NoStoreAfterHcf, Hw!NoStoreAfterHcf, Lab9!NoUnsignedLoad,
      Hw!NoUnsignedLoad, Lab9!Full, Hw!Full, Lab9!IsMemOp, Hw!IsMemOp, Lab9!PcPlus4,
      Hw!PcPlus4, Lab9!Addr, Hw!Addr

LEMMA SameInit27 ==
    Lab27!Init <=> Sim!Init
BY DEF Lab27!Init, Sim!Init, Lab27!SimCpuInit, Sim!SimCpuInit, Lab27!Reg, Sim!Reg,
      Lab27!Empty, Sim!Empty, Lab27!Nothing, Sim!Nothing

LEMMA SameFetch27 ==
    /\ Lab27!Fetched = Sim!Fetched
    /\ \A i : Lab27!DataAddr(i) = Sim!DataAddr(i)
    /\ \A i : Lab27!InRange(i) <=> Sim!InRange(i)
    /\ Lab27!StaysInProgram <=> Sim!StaysInProgram
BY DEF Lab27!Fetched, Sim!Fetched, Lab27!Slot, Sim!Slot, Lab27!DataAddr, Sim!DataAddr,
      Lab27!Add, Sim!Add, Lab27!WordSize, Sim!WordSize, Lab27!InRange, Sim!InRange,
      Lab27!Lanes, Sim!Lanes, Lab27!StaysInProgram, Sim!StaysInProgram

LEMMA SameExecute27 ==
    \A i : /\ Lab27!NextRf(i) = Sim!NextRf(i)
          /\ Lab27!NextPc(i) = Sim!NextPc(i)
          /\ Lab27!NextMem(i) = Sim!NextMem(i)
BY DEF Lab27!NextRf, Sim!NextRf, Lab27!NextPc, Sim!NextPc, Lab27!NextMem, Sim!NextMem,
      Lab27!Computed, Sim!Computed, Lab27!Taken, Sim!Taken, Lab27!BrLT, Sim!BrLT,
      Lab27!Signed, Sim!Signed, Lab27!WordSize, Sim!WordSize, Lab27!Add, Sim!Add,
      Lab27!Target, Sim!Target, Lab27!Slot, Sim!Slot, Lab27!memRead, Sim!memRead,
      Lab27!memWrite, Sim!memWrite, Lab27!memReadReqHandler, Sim!memReadReqHandler,
      Lab27!memWriteReqHandler, Sim!memWriteReqHandler, Lab27!MemReadReqPacket,
      Sim!MemReadReqPacket, Lab27!MemWriteReqPacket, Sim!MemWriteReqPacket, Lab27!DataAddr,
      Sim!DataAddr, Lab27!ReadLanes, Sim!ReadLanes, Lab27!WriteLanes, Sim!WriteLanes,
      Lab27!Lanes, Sim!Lanes, Lab27!ByteOf, Sim!ByteOf, Lab27!Addr, Sim!Addr

LEMMA SameSOC27 ==
    Lab27!SOCStep <=> Sim!SOCStep
BY SameFetch27, SameExecute27
  DEF Lab27!SOCStep, Sim!SOCStep, Lab27!execOneInstr, Sim!execOneInstr, Lab27!Acquirable,
      Sim!Acquirable, Lab27!renew, Sim!renew, Lab27!IsTakenBranch, Sim!IsTakenBranch,
      Lab27!processInstr, Sim!processInstr, Lab27!commitInstr, Sim!commitInstr, Lab27!Abort,
      Sim!Abort, Lab27!cpuVars, Sim!cpuVars, Lab27!portVars, Sim!portVars, Lab27!ifVars,
      Sim!ifVars, Lab27!Add, Sim!Add, Lab27!WordSize, Sim!WordSize

LEMMA SameStages27 ==
    /\ Lab27!IFStep <=> Sim!IFStep
    /\ Lab27!EXEStep <=> Sim!EXEStep
    /\ Lab27!WBStep <=> Sim!WBStep
    /\ Lab27!Sync <=> Sim!Sync
BY DEF Lab27!IFStep, Sim!IFStep, Lab27!EXEStep, Sim!EXEStep, Lab27!WBStep, Sim!WBStep,
      Lab27!Sync, Sim!Sync, Lab27!dataHazard, Sim!dataHazard, Lab27!controlHazard,
      Sim!controlHazard, Lab27!HazardWith, Sim!HazardWith, Lab27!checkDataHazard,
      Sim!checkDataHazard, Lab27!getDestReg, Sim!getDestReg, Lab27!Sources, Sim!Sources,
      Lab27!Stall, Sim!Stall, Lab27!instPacketHandler, Sim!instPacketHandler, Lab27!Pushed,
      Sim!Pushed, Lab27!Popped, Sim!Popped, Lab27!cpuVars, Sim!cpuVars, Lab27!portVars,
      Sim!portVars, Lab27!ifVars, Sim!ifVars, Lab27!sync, Sim!sync, Lab27!PortMoves,
      Sim!PortMoves, Lab27!retrySendInstPacket, Sim!retrySendInstPacket, Lab27!Nothing,
      Sim!Nothing

LEMMA SameNext27 ==
    Lab27!Next <=> Sim!Next
BY SameSOC27, SameStages27
  DEF Lab27!Next, Sim!Next

LEMMA SameLine27 ==
    Lab27!Line = Sim!Line
BY DEF Lab27!Line, Sim!Line, Lab27!Entry, Sim!Entry

LEMMA SameRestricted27 ==
    \A p : Lab27!Restricted(p) <=> Sim!Restricted(p)
BY DEF Lab27!Restricted, Sim!Restricted, Lab27!NoZeroDest, Sim!NoZeroDest, Lab27!NoSltu,
      Sim!NoSltu, Lab27!NoJalrOverBase, Sim!NoJalrOverBase, Lab27!Aligned, Sim!Aligned,
      Lab27!IsNop, Sim!IsNop, Lab27!Writes, Sim!Writes, Lab27!Addr, Sim!Addr

-----------------------------------------------------------------------------
(* What an instruction does to a state of the sequential machine, where both *)
(* machines agree: with natural accesses, and a pc below AddrSize.           *)

Goes(i, a, b) ==
    \/ i.funct = "EQ"  /\ a = b
    \/ i.funct = "NE"  /\ a # b
    \/ i.funct = "LT"  /\ BrLT(FALSE, a, b)
    \/ i.funct = "GE"  /\ ~BrLT(FALSE, a, b)
    \/ i.funct = "LTU" /\ BrLT(TRUE, a, b)
    \/ i.funct = "GEU" /\ ~BrLT(TRUE, a, b)

Access(i, s) == LET a == Trunc(Add(s.regs[i.rs1], i.imm)) IN a - (a % Lanes(i.funct))

Result(i, s) ==
    CASE i.op = "OP"     -> ALU(i.funct, s.regs[i.rs1], s.regs[i.rs2])
      [] i.op = "OP_IMM" -> ALU(i.funct, s.regs[i.rs1], i.imm)
      [] i.op = "AUIPC"  -> Add(s.pc, i.imm)
      [] i.op = "LUI"    -> i.imm
      [] i.op = "LOAD"   -> ReadLanes(s.memory, Access(i, s), i.funct)
      [] OTHER           -> PcPlus4(s.pc)

PcAfter(i, s) ==
    CASE i.op = "JAL" \/ (i.op = "BRANCH" /\ Goes(i, s.regs[i.rs1], s.regs[i.rs2])) ->
            Trunc(Add(s.pc, i.imm))
      [] i.op = "JALR" -> Trunc(Add(s.regs[i.rs1], i.imm))
      [] OTHER -> PcPlus4(s.pc)

Writing == {"OP", "OP_IMM", "AUIPC", "LUI", "JAL", "JALR", "LOAD"}

RegsAfter(i, s) ==
    IF i.op \in Writing /\ i.rd # 0 THEN [s.regs EXCEPT ![i.rd] = Result(i, s)] ELSE s.regs

MemoryAfter(i, s) ==
    IF i.op = "STORE" THEN WriteLanes(s.memory, Access(i, s), i.funct, s.regs[i.rs2])
    ELSE s.memory

After(p, s) ==
    LET i == InstMem(p, s.pc)
    IN  [pc |-> PcAfter(i, s), regs |-> RegsAfter(i, s), memory |-> MemoryAfter(i, s),
         halted |-> i.op = "HCF"]

\* y is reached from x by instructions: it is in every set that x is in and no
\* instruction leads out of.
Leads(p, x, y) ==
    \A S : x \in S /\ (\A s \in S : ~s.halted => After(p, s) \in S) => y \in S

LEMMA LeadsToItself == \A p, x : Leads(p, x, x)
BY DEF Leads

\* One more at the end, when y has not halted.
LEMMA LeadsFurther ==
    ASSUME NEW p, NEW x, NEW y, Leads(p, x, y), ~y.halted
    PROVE  Leads(p, x, After(p, y))
BY DEF Leads

\* One less at the beginning: a halted y is another state than x.
LEMMA LeadsFromNext ==
    ASSUME NEW p, NEW x, NEW y, Leads(p, x, y), ~x.halted, y.halted
    PROVE  Leads(p, After(p, x), y)
<1>. SUFFICES ASSUME NEW S, After(p, x) \in S, \A s \in S : ~s.halted => After(p, s) \in S
              PROVE  y \in S
  BY DEF Leads
<1>1. y \in S \cup {x}
  <2>1. \A s \in S \cup {x} : ~s.halted => After(p, s) \in S \cup {x}
    OBVIOUS
  <2>2. x \in S \cup {x}
    OBVIOUS
  <2>. QED
    BY <2>1, <2>2 DEF Leads
<1>. QED
  BY <1>1

\* From a halted state nothing else is reached.
LEMMA LeadsNoFurther ==
    ASSUME NEW p, NEW x, NEW y, Leads(p, x, y), x.halted
    PROVE  y = x
<1>1. \A s \in {x} : ~s.halted => After(p, s) \in {x}
  OBVIOUS
<1>2. y \in {x}
  BY <1>1 DEF Leads
<1>. QED
  BY <1>2

-----------------------------------------------------------------------------
(* What is used of the hardware. *)

LEMMA HwWords ==
    /\ Hw!WordSize = WordSize /\ Hw!Word = Word /\ Hw!Addr = Addr /\ Hw!AluOps = AluOps
    /\ Hw!Inst = Inst /\ Hw!Memories = Memories /\ Hw!Latches = Lab9!Latches
    /\ \A a, b : Hw!Add(a, b) = Add(a, b)
<1>1. /\ Hw!WordSize = WordSize /\ Hw!Word = Word /\ Hw!Addr = Addr /\ Hw!AluOps = AluOps
      /\ Hw!Widths = Widths /\ Hw!Reg = Reg
  BY DEF Hw!WordSize, WordSize, Hw!Word, Word, Hw!Addr, Addr, Hw!AluOps, AluOps,
         Hw!Widths, Widths, Hw!Reg, Reg
<1>2. Hw!Inst = Inst
  BY <1>1 DEF Hw!Inst, Inst, Hw!Opcodes, Opcodes, Hw!Conditions, Conditions
<1>3. Hw!Memories = Memories
  BY <1>1 DEF Hw!Memories, Memories, Hw!Byte, Byte
<1>4. Hw!Latches = Lab9!Latches
  BY DEF Hw!Latches, Lab9!Latches, Hw!Addr, Lab9!Addr, Hw!Word, Lab9!Word,
         Hw!WordSize, Lab9!WordSize, Hw!Widths, Lab9!Widths
<1>. QED
  BY <1>1, <1>2, <1>3, <1>4 DEF Hw!Add, Add

LEMMA HwTheorems ==
    /\ Hw!Init /\ Hw!Restricted(prog) => Hw!RefInv
    /\ Hw!RefInv /\ [Hw!Next]_Hw!vars => Hw!RefInv'
    /\ Hw!Init => Hw!Sequential!Init
    /\ Hw!RefInv /\ [Hw!Next]_Hw!vars =>
          Hw!Sequential!Next \/ UNCHANGED Hw!Sequential!isaVars
BY Hw!RefInvInit, Hw!RefInvStep, Hw!InitSimulation, Hw!StepSimulation, HwWords,
   SizeAssumption, ALUAssumption, ProgramAssumption, LatencyAssumption

HwState ==
    [pc |-> Hw!AbsPc, regs |-> Hw!AbsRegs, memory |-> Hw!AbsMemory, halted |-> Hw!AbsHalted]

\* The sequential machine of the hardware computes with the words above.
LEMMA HwVocabulary ==
    /\ \A a, b : Hw!Sequential!Add(a, b) = Add(a, b)
    /\ \A a : Hw!Sequential!Trunc(a) = Trunc(a) /\ Hw!Sequential!Wrap(a) = Trunc(a)
    /\ Hw!Sequential!NextInst = PcPlus4(Hw!AbsPc)
    /\ \A u, a, b : Hw!Sequential!BrLT(u, a, b) <=> BrLT(u, a, b)
    /\ \A m, a, w : Hw!Sequential!ReadLanes(m, a, w) = ReadLanes(m, a, w)
    /\ \A m, a, w, d : Hw!Sequential!WriteLanes(m, a, w, d) = WriteLanes(m, a, w, d)
    /\ \A w, a : Hw!Natural(w, a) = a - (a % Lanes(w))
    /\ Hw!Sequential!Reg = Reg
<1>1. \A a, b : Hw!Sequential!Add(a, b) = Add(a, b)
  BY DEF Hw!Sequential!Add, Add, Hw!Sequential!WordSize, WordSize
<1>2. /\ \A a : Hw!Sequential!Trunc(a) = Trunc(a) /\ Hw!Sequential!Wrap(a) = Trunc(a)
      /\ Hw!Sequential!NextInst = PcPlus4(Hw!AbsPc)
  BY DEF Hw!Sequential!Trunc, Trunc, Hw!Sequential!Wrap, Hw!Sequential!NextInst, PcPlus4
<1>3. \A u, a, b : Hw!Sequential!BrLT(u, a, b) <=> BrLT(u, a, b)
  BY DEF Hw!Sequential!BrLT, BrLT, Hw!Sequential!Signed, Signed, Hw!Sequential!WordSize, WordSize
<1>4. \A m, a, w : Hw!Sequential!ReadLanes(m, a, w) = ReadLanes(m, a, w)
  BY DEF Hw!Sequential!ReadLanes, ReadLanes, Hw!Sequential!Signed, Signed,
         Hw!Sequential!WordSize, WordSize
<1>5. \A m, a, w, d : Hw!Sequential!WriteLanes(m, a, w, d) = WriteLanes(m, a, w, d)
  BY DEF Hw!Sequential!WriteLanes, WriteLanes, Hw!Sequential!Lanes, Lanes,
         Hw!Sequential!ByteOf, ByteOf, Hw!Sequential!Addr, Addr
<1>6. \A w, a : Hw!Natural(w, a) = a - (a % Lanes(w))
  BY DEF Hw!Natural, Hw!Lanes, Lanes
<1>7. Hw!Sequential!Reg = Reg
  BY DEF Hw!Sequential!Reg, Reg
<1>. QED
  BY <1>1, <1>2, <1>3, <1>4, <1>5, <1>6, <1>7

\* An instruction of that machine is the one above.
LEMMA HwInstruction ==
    ASSUME Hw!Sequential!Next
    PROVE  ~HwState.halted /\ HwState' = After(prog, HwState) /\ prog' = prog
<1>. DEFINE i == InstMem(prog, Hw!AbsPc)
            s == HwState
<1>1. /\ Hw!Sequential!inst = i
      /\ Hw!Sequential!src1 = s.regs[i.rs1] /\ Hw!Sequential!src2 = s.regs[i.rs2]
      /\ s.pc = Hw!AbsPc /\ s.regs = Hw!AbsRegs /\ s.memory = Hw!AbsMemory
      /\ s.halted = Hw!AbsHalted
  BY DEF Hw!Sequential!inst, Hw!Sequential!src1, Hw!Sequential!src2, HwState
<1>2. Hw!Sequential!EffectiveAddr = Access(i, s)
  BY <1>1, HwVocabulary DEF Hw!Sequential!EffectiveAddr, Access
<1>3. Hw!Sequential!Holds <=> Goes(i, s.regs[i.rs1], s.regs[i.rs2])
  BY <1>1, HwVocabulary DEF Hw!Sequential!Holds, Goes, Hw!Sequential!BrEq
<1>4. \A v : Hw!Sequential!SetReg(v) =>
               Hw!AbsRegs' = IF i.rd # 0 THEN [s.regs EXCEPT ![i.rd] = v] ELSE s.regs
  BY <1>1 DEF Hw!Sequential!SetReg
<1>5. /\ HwState' = [pc |-> Hw!AbsPc', regs |-> Hw!AbsRegs', memory |-> Hw!AbsMemory',
                     halted |-> Hw!AbsHalted']
      /\ After(prog, s) = [pc |-> PcAfter(i, s), regs |-> RegsAfter(i, s),
                           memory |-> MemoryAfter(i, s), halted |-> i.op = "HCF"]
  BY <1>1 DEF HwState, After
<1>6. Hw!AbsHalted \in BOOLEAN /\ ~Hw!AbsHalted
  BY DEF Hw!Sequential!Next, Hw!AbsHalted
<1>. HIDE DEF i, s
<1>7. CASE Hw!Sequential!Compute
  <2>1. Hw!Sequential!Computed = Result(i, s)
    BY <1>1, <1>7, HwVocabulary DEF Hw!Sequential!Compute, Hw!Sequential!Computed, Result
  <2>2. /\ Hw!AbsPc' = PcAfter(i, s) /\ Hw!AbsRegs' = RegsAfter(i, s)
        /\ Hw!AbsMemory' = MemoryAfter(i, s) /\ prog' = prog
        /\ Hw!AbsHalted' = (i.op = "HCF")
    BY <1>1, <1>4, <1>6, <1>7, <2>1, HwVocabulary
    DEF Hw!Sequential!Compute, PcAfter, RegsAfter, MemoryAfter, Writing
  <2>. QED
    BY <1>1, <1>5, <1>6, <2>2 DEF s
<1>8. CASE Hw!Sequential!Load
  <2>1. Hw!Sequential!ReadLanes(Hw!AbsMemory, Hw!Sequential!EffectiveAddr,
                                Hw!Sequential!inst.funct) = Result(i, s)
    BY <1>1, <1>2, <1>8, HwVocabulary DEF Hw!Sequential!Load, Result
  <2>2. /\ Hw!AbsPc' = PcAfter(i, s) /\ Hw!AbsRegs' = RegsAfter(i, s)
        /\ Hw!AbsMemory' = MemoryAfter(i, s) /\ prog' = prog
        /\ Hw!AbsHalted' = (i.op = "HCF")
    BY <1>1, <1>4, <1>6, <1>8, <2>1, HwVocabulary
    DEF Hw!Sequential!Load, PcAfter, RegsAfter, MemoryAfter, Writing
  <2>. QED
    BY <1>1, <1>5, <1>6, <2>2 DEF s
<1>9. CASE Hw!Sequential!Store \/ Hw!Sequential!Branch \/ Hw!Sequential!Halt
  <2>1. /\ Hw!AbsPc' = PcAfter(i, s) /\ Hw!AbsRegs' = RegsAfter(i, s)
        /\ Hw!AbsMemory' = MemoryAfter(i, s) /\ prog' = prog
        /\ Hw!AbsHalted' = (i.op = "HCF")
    BY <1>1, <1>2, <1>3, <1>6, <1>9, HwVocabulary
    DEF Hw!Sequential!Store, Hw!Sequential!Branch, Hw!Sequential!Halt,
        PcAfter, RegsAfter, MemoryAfter, Writing
  <2>. QED
    BY <1>1, <1>5, <1>6, <2>1 DEF s
<1>10. CASE Hw!Sequential!Jump
  <2>1. Hw!Sequential!NextInst = Result(i, s)
    BY <1>1, <1>10, HwVocabulary DEF Hw!Sequential!Jump, Result
  <2>2. /\ Hw!AbsPc' = PcAfter(i, s) /\ Hw!AbsRegs' = RegsAfter(i, s)
        /\ Hw!AbsMemory' = MemoryAfter(i, s) /\ prog' = prog
        /\ Hw!AbsHalted' = (i.op = "HCF")
    BY <1>1, <1>4, <1>6, <1>10, <2>1, HwVocabulary
    DEF Hw!Sequential!Jump, PcAfter, RegsAfter, MemoryAfter, Writing
  <2>. QED
    BY <1>1, <1>5, <1>6, <2>2 DEF s
<1>. QED
  BY <1>7, <1>8, <1>9, <1>10 DEF Hw!Sequential!Next

\* So a clock edge is an instruction or nothing.
LEMMA HwStep ==
    ASSUME Hw!RefInv, [Hw!Next]_Hw!vars
    PROVE  /\ Hw!RefInv' /\ prog' = prog
           /\ \/ HwState' = HwState
              \/ ~HwState.halted /\ HwState' = After(prog, HwState)
<1>1. Hw!RefInv' /\ (Hw!Sequential!Next \/ UNCHANGED Hw!Sequential!isaVars)
  BY HwTheorems
<1>2. UNCHANGED Hw!Sequential!isaVars => HwState' = HwState /\ prog' = prog
  BY DEF Hw!Sequential!isaVars, HwState
<1>. QED
  BY <1>1, <1>2, HwInstruction

-----------------------------------------------------------------------------
(* What is used of the simulator. *)

LEMMA SimWords ==
    /\ Sim!WordSize = WordSize /\ Sim!Word = Word /\ Sim!Addr = Addr /\ Sim!AluOps = AluOps
    /\ Sim!Inst = Inst /\ Sim!Memories = Memories /\ Sim!Packet = Lab27!Packet
    /\ \A a, b : Sim!Add(a, b) = Add(a, b)
    /\ \A w : Sim!Lanes(w) = Lanes(w)
<1>1. /\ Sim!WordSize = WordSize /\ Sim!Word = Word /\ Sim!Addr = Addr /\ Sim!AluOps = AluOps
      /\ Sim!Widths = Widths /\ Sim!Reg = Reg
  BY DEF Sim!WordSize, WordSize, Sim!Word, Word, Sim!Addr, Addr, Sim!AluOps, AluOps,
         Sim!Widths, Widths, Sim!Reg, Reg
<1>2. Sim!Inst = Inst
  BY <1>1 DEF Sim!Inst, Inst, Sim!Opcodes, Opcodes, Sim!Conditions, Conditions
<1>3. Sim!Memories = Memories
  BY <1>1 DEF Sim!Memories, Memories, Sim!Byte, Byte
<1>4. Sim!Packet = Lab27!Packet
  BY DEF Sim!Packet, Lab27!Packet, Sim!Inst, Lab27!Inst, Sim!Opcodes, Lab27!Opcodes,
         Sim!Conditions, Lab27!Conditions, Sim!AluOps, Lab27!AluOps, Sim!Widths, Lab27!Widths,
         Sim!Reg, Lab27!Reg, Sim!Word, Lab27!Word, Sim!WordSize, Lab27!WordSize
<1>. QED
  BY <1>1, <1>2, <1>3, <1>4 DEF Sim!Add, Add, Sim!Lanes, Lanes

LEMMA SimTheorems ==
    /\ Sim!Init /\ Sim!Restricted(prog) => Sim!RefInv
    /\ Sim!RefInv /\ [Sim!Next]_Sim!vars => Sim!RefInv'
    /\ Sim!Init => Sim!Sequential!TimedInit
    /\ Sim!RefInv /\ Sim!StaysInProgram /\ Sim!SOCStep /\ Sim!InRange(Sim!Fetched) /\ ~aborted =>
          Sim!Sequential!Execute
    /\ Sim!RefInv /\ [Sim!Next]_Sim!vars /\ ~(Sim!SOCStep /\ Sim!InRange(Sim!Fetched)) /\ ~aborted' =>
          UNCHANGED Sim!cpuVars /\ Sim!Halted' = Sim!Halted
    /\ Sim!RefInv /\ Sim!Line = <<>> => pendingInstPacket = None
BY Sim!RefInvInit, Sim!RefInvStep, Sim!TimedInitially, Sim!ExecuteIsStep, Sim!OtherSteps,
   Sim!NothingWaits, SimWords,
   SizeAssumption, ALUAssumption, ProgramAssumption, PacketAssumption DEF Sim!RefInv

SimState == [pc |-> Trunc(pc), regs |-> rf, memory |-> mem, halted |-> Sim!Halted]

\* The sequential machine of the simulator computes with the words above.
LEMMA SimVocabulary ==
    /\ \A a, b : Sim!Sequential!Add(a, b) = Add(a, b)
    /\ \A a : Sim!Sequential!Trunc(a) = Trunc(a) /\ Sim!Sequential!Wrap(a) = a % WordSize
    /\ Sim!Sequential!NextInst = (pc + 4) % WordSize
    /\ \A u, a, b : Sim!Sequential!BrLT(u, a, b) <=> BrLT(u, a, b)
    /\ \A m, a, w : Sim!Sequential!ReadLanes(m, a, w) = ReadLanes(m, a, w)
    /\ \A m, a, w, d : Sim!Sequential!WriteLanes(m, a, w, d) = WriteLanes(m, a, w, d)
    /\ \A w, a : Sim!Exact(w, a) = a
    /\ Sim!Sequential!Reg = Reg
<1>1. \A a, b : Sim!Sequential!Add(a, b) = Add(a, b)
  BY DEF Sim!Sequential!Add, Add, Sim!Sequential!WordSize, WordSize
<1>2. /\ \A a : Sim!Sequential!Trunc(a) = Trunc(a) /\ Sim!Sequential!Wrap(a) = a % WordSize
      /\ Sim!Sequential!NextInst = (pc + 4) % WordSize
  BY SimWords DEF Sim!Sequential!Trunc, Trunc, Sim!Sequential!Wrap, Sim!Sequential!NextInst
<1>3. \A u, a, b : Sim!Sequential!BrLT(u, a, b) <=> BrLT(u, a, b)
  BY DEF Sim!Sequential!BrLT, BrLT, Sim!Sequential!Signed, Signed, Sim!Sequential!WordSize, WordSize
<1>4. \A m, a, w : Sim!Sequential!ReadLanes(m, a, w) = ReadLanes(m, a, w)
  BY DEF Sim!Sequential!ReadLanes, ReadLanes, Sim!Sequential!Signed, Signed,
         Sim!Sequential!WordSize, WordSize
<1>5. \A m, a, w, d : Sim!Sequential!WriteLanes(m, a, w, d) = WriteLanes(m, a, w, d)
  BY DEF Sim!Sequential!WriteLanes, WriteLanes, Sim!Sequential!Lanes, Lanes,
         Sim!Sequential!ByteOf, ByteOf, Sim!Sequential!Addr, Addr
<1>6. Sim!Sequential!Reg = Reg
  BY DEF Sim!Sequential!Reg, Reg
<1>. QED
  BY <1>1, <1>2, <1>3, <1>4, <1>5, <1>6 DEF Sim!Exact

\* What the rules say of the instruction that is executed, in the words of Sim.
LEMMA SimRules ==
    ASSUME Sim!RefInv, KeepsToRules, "SOC" \in toStep, Sim!InRange(Sim!Fetched)
    PROVE  LET i == Sim!Fetched
               a == Add(rf[i.rs1], i.imm)
           IN  /\ Sim!StaysInProgram
               /\ pc \in Addr /\ pc % 4 = 0 /\ Trunc(pc) = pc /\ Sim!Fetched = InstMem(prog, pc)
               /\ i.op \in {"LOAD", "STORE"} =>
                     a \in Addr /\ Trunc(a) = a /\ a - (a % Lanes(i.funct)) = a
<1>. DEFINE i == Sim!Fetched
            a == Add(rf[i.rs1], i.imm)
<1>1. Sim!StaysInProgram /\ pc % 4 = 0
  BY SameFetch27 DEF KeepsToRules, Sim!StaysInProgram
<1>2. pc \in Word /\ pc < ImemSize
  BY SimWords DEF Sim!RefInv, Sim!PlacesInv, Sim!TypeOK, Sim!InRange
<1>3. pc \in Addr /\ pc \in Int
  BY <1>2, ProgramAssumption, SizeAssumption, WordSizeType DEF Word, Addr
<1>4. \A x \in Addr : Trunc(x) = x
  BY SizeAssumption DEF Addr, Trunc
<1>5. Sim!Fetched = InstMem(prog, pc)
  BY <1>1, <1>3 DEF Sim!Fetched, Sim!Slot
<1>6. ASSUME i.op \in {"LOAD", "STORE"}
      PROVE  a \in Addr /\ Trunc(a) = a /\ a - (a % Lanes(i.funct)) = a
  <2>1. Sim!DataAddr(i) = a /\ Lab27!DataAddr(i) = a /\ Lab27!Fetched = i
    BY SimWords, SameFetch27 DEF Sim!DataAddr
  <2>2. a + Lanes(i.funct) <= AddrSize /\ a % Lanes(i.funct) = 0
    BY <1>6, <2>1, SimWords DEF Sim!InRange, KeepsToRules
  <2>3. a \in Word
    <3>1. Sim!Fetched \in Inst /\ rf \in [Reg -> Word]
      <4>1. Sim!Reg = Reg
        BY DEF Sim!Reg, Reg
      <4>. QED
        BY <1>3, <1>5, <4>1, SimWords, ProgramAssumption
        DEF Sim!RefInv, Sim!PlacesInv, Sim!TypeOK
    <3>2. rf[i.rs1] \in Int /\ i.imm \in Int
      BY <3>1, WordSizeType DEF Inst, Word
    <3>3. \A x, y \in Int : Add(x, y) \in Word
      BY ModRange, WordSizeType DEF Add, Word
    <3>. QED
      BY <3>2, <3>3
  <2>4. a \in Addr
    BY <2>2, <2>3, SizeAssumption, WordSizeType DEF Word, Addr, Lanes
  <2>5. a \in Int
    BY <2>3, WordSizeType DEF Word
  <2>. QED
    BY <1>4, <2>2, <2>4, <2>5
<1>. QED
  BY <1>1, <1>3, <1>4, <1>5, <1>6


\* The address behind one on a word boundary.
LEMMA NextAddress ==
    ASSUME NEW x \in Addr, x % 4 = 0
    PROVE  /\ Trunc((x + 4) % WordSize) = PcPlus4(x)
           /\ x # AddrSize - 4 => (x + 4) % WordSize = PcPlus4(x)
<1>1. /\ x \in Int /\ 0 <= x /\ x < AddrSize /\ AddrSize \in Int /\ AddrSize % 4 = 0
      /\ AddrSize <= WordSize /\ WordSize \in Int /\ AddrSize >= 4
  BY SizeAssumption, WordSizeType DEF Addr
<1>2. x + 4 <= AddrSize
  BY <1>1
<1>3. CASE x + 4 < AddrSize
  <2>1. (x + 4) % WordSize = x + 4 /\ (x + 4) % AddrSize = x + 4
    BY <1>1, <1>3
  <2>. QED
    BY <2>1 DEF Trunc, PcPlus4
<1>4. CASE x + 4 = AddrSize
  <2>1. AddrSize % AddrSize = 0 /\ 0 % AddrSize = 0 /\ AddrSize % WordSize \in {0, AddrSize}
    BY <1>1
  <2>2. x = AddrSize - 4
    BY <1>1, <1>4
  <2>. QED
    BY <1>4, <2>1, <2>2 DEF Trunc, PcPlus4
<1>. QED
  BY <1>1, <1>2, <1>3, <1>4

\* An executed instruction is the one above.
LEMMA SimInstruction ==
    ASSUME Sim!RefInv, NoLinkAtEnd(prog), KeepsToRules,
           Sim!SOCStep, Sim!InRange(Sim!Fetched), ~aborted
    PROVE  ~SimState.halted /\ SimState' = After(prog, SimState) /\ prog' = prog
<1>. DEFINE i == InstMem(prog, pc)
            s == SimState
<1>1. "SOC" \in toStep
  BY DEF Sim!SOCStep
<1>2. /\ Sim!StaysInProgram
      /\ pc \in Addr /\ pc % 4 = 0 /\ Trunc(pc) = pc /\ Sim!Fetched = i
      /\ i.op \in {"LOAD", "STORE"} =>
            LET a == Add(rf[i.rs1], i.imm)
            IN  a \in Addr /\ Trunc(a) = a /\ a - (a % Lanes(i.funct)) = a
  BY <1>1, SimRules
<1>3. Sim!Sequential!Next
  BY <1>2, SimTheorems DEF Sim!Sequential!Execute
<1>4. /\ Sim!Sequential!inst = i
      /\ Sim!Sequential!src1 = s.regs[i.rs1] /\ Sim!Sequential!src2 = s.regs[i.rs2]
      /\ s.pc = pc /\ s.regs = rf /\ s.memory = mem /\ s.halted = Sim!Halted
  BY <1>2 DEF Sim!Sequential!inst, Sim!Sequential!src1, Sim!Sequential!src2, SimState
<1>5. i.op \in {"LOAD", "STORE"} => Sim!Sequential!EffectiveAddr = Access(i, s)
  BY <1>2, <1>4, SimVocabulary DEF Sim!Sequential!EffectiveAddr, Access
<1>6. Sim!Sequential!Holds <=> Goes(i, s.regs[i.rs1], s.regs[i.rs2])
  BY <1>4, SimVocabulary DEF Sim!Sequential!Holds, Goes, Sim!Sequential!BrEq
<1>7. \A v : Sim!Sequential!SetReg(v) =>
               rf' = IF i.rd # 0 THEN [s.regs EXCEPT ![i.rd] = v] ELSE s.regs
  BY <1>4 DEF Sim!Sequential!SetReg
<1>8. /\ Trunc(Sim!Sequential!NextInst) = PcPlus4(s.pc)
      /\ i.op \in {"JAL", "JALR"} /\ i.rd # 0 => Sim!Sequential!NextInst = PcPlus4(s.pc)
  <2>1. i.op \in {"JAL", "JALR"} /\ i.rd # 0 => pc # AddrSize - 4
    BY DEF NoLinkAtEnd
  <2>. QED
    BY <1>2, <1>4, <2>1, NextAddress, SimVocabulary
<1>9. \A a : a = pc \/ a = s.regs[i.rs1] =>
               Trunc(Sim!Sequential!Wrap(Sim!Sequential!Add(a, i.imm))) = Trunc(Add(a, i.imm))
  <2>1. \A w \in Int : w % WordSize \in Int /\ (w % WordSize) % WordSize = w % WordSize
    <3>1. \A w \in Int : w % WordSize \in 0 .. WordSize - 1
      BY WordSizeType, ModRange
    <3>2. \A w \in 0 .. WordSize - 1 : w \in Int /\ w % WordSize = w
      BY WordSizeType
    <3>. QED
      BY <3>1, <3>2
  <2>2. pc \in Int /\ i.imm \in Int /\ s.regs[i.rs1] \in Int
    <3>1. i \in Inst /\ rf \in [Reg -> Word]
      <4>1. Sim!Reg = Reg
        BY DEF Sim!Reg, Reg
      <4>. QED
        BY <1>2, <4>1, SimWords, ProgramAssumption
        DEF Sim!RefInv, Sim!PlacesInv, Sim!TypeOK
    <3>2. rf[i.rs1] \in Word /\ i.imm \in Word
      BY <3>1 DEF Inst
    <3>. QED
      BY <1>2, <1>4, <3>2, WordSizeType, SizeAssumption DEF Word, Addr
  <2>3. \A a \in Int : a + i.imm \in Int
    BY <2>2
  <2>. QED
    BY <2>1, <2>2, <2>3, SimVocabulary DEF Add
<1>10. /\ SimState' = [pc |-> Trunc(pc'), regs |-> rf', memory |-> mem', halted |-> Sim!Halted']
       /\ After(prog, s) = [pc |-> PcAfter(i, s), regs |-> RegsAfter(i, s),
                            memory |-> MemoryAfter(i, s), halted |-> i.op = "HCF"]
  BY <1>4 DEF SimState, After
<1>11. Sim!Halted \in BOOLEAN /\ ~Sim!Halted
  BY <1>3 DEF Sim!Sequential!Next, Sim!Halted
<1>. DEFINE Same == /\ Trunc(pc') = PcAfter(i, s) /\ rf' = RegsAfter(i, s)
                    /\ mem' = MemoryAfter(i, s) /\ prog' = prog
                    /\ Sim!Halted' = (i.op = "HCF")
<1>. SUFFICES Same
  BY <1>4, <1>10, <1>11 DEF s
<1>. HIDE DEF i, s
<1>12. CASE Sim!Sequential!Compute
  <2>1. Sim!Sequential!Computed = Result(i, s)
    BY <1>4, <1>12, SimVocabulary DEF Sim!Sequential!Compute, Sim!Sequential!Computed, Result
  <2>. QED
    BY <1>4, <1>7, <1>8, <1>11, <1>12, <2>1
    DEF Sim!Sequential!Compute, PcAfter, RegsAfter, MemoryAfter, Writing
<1>13. CASE Sim!Sequential!Load
  <2>1. Sim!Sequential!ReadLanes(mem, Sim!Sequential!EffectiveAddr,
                                 Sim!Sequential!inst.funct) = Result(i, s)
    BY <1>4, <1>5, <1>13, SimVocabulary DEF Sim!Sequential!Load, Result
  <2>. QED
    BY <1>4, <1>7, <1>8, <1>11, <1>13, <2>1
    DEF Sim!Sequential!Load, PcAfter, RegsAfter, MemoryAfter, Writing
<1>14. CASE Sim!Sequential!Store \/ Sim!Sequential!Halt
  BY <1>4, <1>5, <1>8, <1>11, <1>14, SimVocabulary
  DEF Sim!Sequential!Store, Sim!Sequential!Halt, PcAfter, RegsAfter, MemoryAfter, Writing
<1>15. CASE Sim!Sequential!Branch
  BY <1>4, <1>6, <1>8, <1>9, <1>11, <1>15
  DEF Sim!Sequential!Branch, PcAfter, RegsAfter, MemoryAfter, Writing
<1>16. CASE Sim!Sequential!Jump
  <2>1. Trunc(pc') = PcAfter(i, s)
    BY <1>4, <1>9, <1>16 DEF Sim!Sequential!Jump, PcAfter
  <2>2. rf' = RegsAfter(i, s)
    BY <1>4, <1>7, <1>8, <1>16 DEF Sim!Sequential!Jump, RegsAfter, Result, Writing
  <2>. QED
    BY <1>4, <1>11, <1>16, <2>1, <2>2 DEF Sim!Sequential!Jump, MemoryAfter
<1>. QED
  BY <1>3, <1>12, <1>13, <1>14, <1>15, <1>16 DEF Sim!Sequential!Next

-----------------------------------------------------------------------------
(* Both execute the same instructions: first the hardware runs ahead of the  *)
(* simulator, which then follows along the same states.                      *)

CorrInv ==
    /\ Hw!RefInv /\ Sim!RefInv
    /\ Comparable(prog)
    /\ aborted \/ Leads(prog, SimState, HwState)

LEMMA CorrInit == Init /\ Comparable(prog) => CorrInv
<1>. SUFFICES ASSUME Init, Comparable(prog) PROVE CorrInv
  OBVIOUS
<1>1. Hw!Init /\ Sim!Init /\ memory = mem
  BY SameInit9, SameInit27 DEF Init
<1>2. Hw!RefInv /\ Sim!RefInv
  BY <1>1, HwTheorems, SimTheorems, SameRestricted9, SameRestricted27 DEF Comparable
<1>3. HwState = [pc |-> 0, regs |-> [r \in Reg |-> 0], memory |-> mem, halted |-> FALSE]
  <2>1. Hw!AbsMemory = memory
    BY <1>1 DEF Hw!Init, Hw!MEM_Reset, Hw!Bubble, Hw!AbsMemory
  <2>. QED
    BY <1>1, <2>1, HwTheorems, HwVocabulary DEF HwState, Hw!Sequential!Init
<1>4. SimState = [pc |-> 0, regs |-> [r \in Reg |-> 0], memory |-> mem, halted |-> FALSE]
  <2>1. pc = 0 /\ rf = [r \in Reg |-> 0] /\ Sim!Halted = FALSE
    BY <1>1, SimTheorems, SimVocabulary DEF Sim!Sequential!TimedInit, Sim!Sequential!Init
  <2>2. Trunc(0) = 0
    BY SizeAssumption DEF Trunc
  <2>. QED
    BY <2>1, <2>2 DEF SimState
<1>. QED
  BY <1>2, <1>3, <1>4, LeadsToItself DEF CorrInv

\* Where the hardware goes on, or stays.
LEMMA HwGoesOn ==
    ASSUME CorrInv, [Hw!Next]_Hw!vars, UNCHANGED lab27Vars
    PROVE  CorrInv'
<1>1. /\ Hw!RefInv' /\ prog' = prog
      /\ \/ HwState' = HwState
         \/ ~HwState.halted /\ HwState' = After(prog, HwState)
  BY HwStep DEF CorrInv
<1>2. UNCHANGED Sim!vars
  BY <1>1 DEF lab27Vars, Sim!vars, Sim!cpuVars, Sim!simVars, Sim!portVars, Sim!ifVars
<1>3. Sim!RefInv'
  BY <1>2, SimTheorems DEF CorrInv
<1>4. SimState' = SimState /\ aborted' = aborted
  BY <1>2 DEF SimState, Sim!Halted, Sim!vars, Sim!cpuVars, Sim!simVars, Sim!portVars
<1>5. Leads(prog, SimState, HwState) => Leads(prog, SimState', HwState')
  BY <1>1, <1>4, LeadsFurther
<1>6. Comparable(prog)'
  BY <1>1 DEF CorrInv, Comparable, NoLinkAtEnd, Lab9!Restricted, Lab27!Restricted
<1>. QED
  BY <1>1, <1>3, <1>4, <1>5, <1>6 DEF CorrInv

\* Where the simulator goes on, and the hardware is done.
LEMMA SimGoesOn ==
    ASSUME CorrInv, KeepsToRules, Sim!Next, Hw!Hcf, UNCHANGED lab9Vars
    PROVE  CorrInv'
<1>1. ~aborted /\ Leads(prog, SimState, HwState) /\ HwState.halted
  BY DEF CorrInv, Sim!Next, HwState, Hw!AbsHalted
<1>2. Sim!RefInv' /\ prog' = prog
  <2>1. prog' = prog
    BY DEF Sim!Next, Sim!SOCStep, Sim!execOneInstr, Sim!Abort, Sim!IFStep, Sim!EXEStep,
           Sim!WBStep, Sim!Sync, Sim!cpuVars
  <2>. QED
    BY <2>1, SimTheorems DEF CorrInv
<1>3. Hw!RefInv' /\ HwState' = HwState
  <2>1. UNCHANGED Hw!vars
    BY <1>2 DEF lab9Vars, Hw!vars, Hw!cpuVars, Hw!dmVars
  <2>. QED
    BY <1>1, <2>1, HwStep DEF CorrInv
<1>4. Comparable(prog)'
  BY <1>2 DEF CorrInv, Comparable, NoLinkAtEnd, Lab9!Restricted, Lab27!Restricted
<1>5. CASE aborted'
  BY <1>2, <1>3, <1>4, <1>5 DEF CorrInv
<1>6. CASE ~aborted' /\ Sim!SOCStep /\ Sim!InRange(Sim!Fetched)
  <2>1. ~SimState.halted /\ SimState' = After(prog, SimState)
    BY <1>1, <1>6, SimInstruction DEF CorrInv, Comparable
  <2>2. Leads(prog, SimState', HwState')
    BY <1>1, <1>3, <2>1, LeadsFromNext
  <2>. QED
    BY <1>2, <1>3, <1>4, <2>2 DEF CorrInv
<1>7. CASE ~aborted' /\ ~(Sim!SOCStep /\ Sim!InRange(Sim!Fetched))
  <2>1. UNCHANGED Sim!cpuVars /\ Sim!Halted' = Sim!Halted
    BY <1>7, SimTheorems DEF CorrInv
  <2>2. SimState' = SimState
    BY <2>1 DEF SimState, Sim!cpuVars
  <2>. QED
    BY <1>1, <1>2, <1>3, <1>4, <2>2 DEF CorrInv
<1>. QED
  BY <1>5, <1>6, <1>7

LEMMA CorrStep == CorrInv /\ KeepsToRules /\ [Next]_vars => CorrInv'
<1>. SUFFICES ASSUME CorrInv, KeepsToRules, [Next]_vars PROVE CorrInv'
  OBVIOUS
<1>1. CASE RunLab9
  BY <1>1, SameTick9, HwGoesOn DEF RunLab9, Hw!Next
<1>2. CASE RunLab27
  BY <1>2, SameNext27, SameWires9, SimGoesOn DEF RunLab27
<1>3. CASE UNCHANGED vars
  <2>1. UNCHANGED Hw!vars
    BY <1>3 DEF vars, lab9Vars, Hw!vars, Hw!cpuVars, Hw!dmVars
  <2>. QED
    BY <1>3, <2>1, HwGoesOn DEF vars
<1>. QED
  BY <1>1, <1>2, <1>3 DEF Next

\* At the end of both the simulator has halted as well, in the state the hardware
\* is in, and nothing is left to be written.
LEMMA CorrEnds == CorrInv => SameResult
<1>. SUFFICES ASSUME CorrInv, BothDone PROVE regs = rf /\ memory = mem
  BY DEF SameResult
<1>1. Hw!Hcf /\ ~aborted /\ toStep = {} /\ wakeNext = {} /\ Sim!Line = <<>>
  BY SameWires9, SameLine27 DEF BothDone, Complete
<1>2. SimState.halted
  BY <1>1, SimTheorems DEF CorrInv, SimState, Sim!Halted
<1>3. Hw!AbsRegs = rf /\ Hw!AbsMemory = mem
  <2>1. HwState = SimState
    BY <1>1, <1>2, LeadsNoFurther DEF CorrInv
  <2>. QED
    BY <2>1 DEF HwState, SimState
<1>4. Hw!AbsMemory = memory
  BY <1>1 DEF Hw!AbsMemory
<1>5. Hw!AbsRegs = regs
  <2>1. Hw!AbsRegs = Hw!WriteReg(regs, 0, 0)
    BY <1>1 DEF Hw!AbsRegs, Hw!NextRegs, Hw!Hcf, Hw!W_RegWEn
  <2>2. regs \in [Hw!Reg -> Hw!Word] /\ regs[0] = 0
    BY DEF CorrInv, Hw!RefInv, Hw!TypeOK, Hw!StageTypes, Hw!ZeroReg
  <2>. QED
    BY <2>1, <2>2 DEF Hw!WriteReg
<1>. QED
  BY <1>3, <1>4, <1>5

\* The hardware and the simulator leave the same registers and the same data
\* memory when they end, whatever the memory latency, the power-up values, the
\* interleavings, the word size, the number of registers and the ALU: for every
\* program of the class both are claimed to execute, on a run of the simulator
\* that keeps to word boundaries and natural alignment.
THEOREM SameResultAlways ==
    Spec /\ Comparable(prog) /\ []KeepsToRules => []SameResult
BY CorrInit, CorrStep, CorrEnds, PTL DEF Spec

=============================================================================
