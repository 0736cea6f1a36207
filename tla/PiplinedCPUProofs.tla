------------------------- MODULE PiplinedCPUProofs -------------------------
(***************************************************************************)
(* Theorems about the Lab 9 processor, for every value of the constants.   *)
(***************************************************************************)
EXTENDS PiplinedCPUProps, RiscvLemmas

-----------------------------------------------------------------------------
(* The datapath. *)

\* The address a request is made at.
LEMMA AlignedAddrType ==
    \A width, a : a \in Addr => alignedAddr(width, a) \in Int
<1>1. \A a \in Addr : a \in Int /\ a % 2 \in Int /\ a % 4 \in Int
  BY ModRange, SizeAssumption DEF Addr
<1>. QED
  BY <1>1 DEF alignedAddr

\* The fields of an instruction, and its immediate.
LEMMA InstTypes ==
    /\ \A i \in Inst : /\ i.rd \in Reg /\ i.rs1 \in Reg /\ i.rs2 \in Reg
                       /\ D_Imm(i) \in Word
                       /\ E_ALUSel(i) \in AluOps
                       /\ IsMemOp(i) => i.funct \in Widths
    /\ Bubble \in Inst
<1>1. 0 \in Reg
  BY SizeAssumption DEF Reg
<1>2. 0 \in Word
  BY AddressTypes
<1>3. Bubble \in Inst
  BY <1>1, <1>2 DEF Bubble, Inst, AluOps
<1>4. \A i \in Inst : /\ i.rd \in Reg /\ i.rs1 \in Reg /\ i.rs2 \in Reg
                     /\ D_Imm(i) \in Word
  BY <1>2 DEF Inst, D_Imm
<1>5. \A i \in Inst : E_ALUSel(i) \in AluOps /\ (IsMemOp(i) => i.funct \in Widths)
  BY DEF Inst, E_ALUSel, AluOps, IsMemOp, Widths
<1>. QED
  BY <1>3, <1>4, <1>5

\* What the execute stage computes is a word.
LEMMA AluOutType ==
    ASSUME NEW i \in Inst, NEW pc \in Addr, NEW rs1 \in Word, NEW rs2 \in Word,
           NEW imm \in Word
    PROVE  ALU(E_ALUSel(i), alu_src1(i, pc, rs1), alu_src2(i, rs2, imm)) \in Word
<1>1. alu_src1(i, pc, rs1) \in Word
  BY AddressTypes DEF alu_src1
<1>2. alu_src2(i, rs2, imm) \in Word
  BY DEF alu_src2
<1>. QED
  BY <1>1, <1>2, InstTypes, ALUAssumption

\* What WB writes is a word.
LEMMA WriteBackType ==
    \A i, p, a, l : p \in Addr /\ a \in Word /\ l \in Word
                    => WB_wdata(i, p, a, l) \in Word
BY AddressTypes DEF WB_wdata

\* Writing a register leaves a register file whose register 0 is 0.
LEMMA WriteRegType ==
    \A f, r, v : f \in [Reg -> Word] /\ r \in Reg /\ v \in Word =>
        WriteReg(f, r, v) \in [Reg -> Word] /\ WriteReg(f, r, v)[0] = 0
<1>1. 0 \in Reg
  BY SizeAssumption DEF Reg
<1>. QED
  BY <1>1, AddressTypes DEF WriteReg

-----------------------------------------------------------------------------
(* Type correctness. *)

\* The words on the wires have their widths.
LEMMA WireTypes ==
    ASSUME TypeOK
    PROVE  /\ EXE_alu_out \in Word /\ EXE_target_pc \in Addr /\ next_pc \in Addr
           /\ MEM_Addr \in Addr /\ MEM_Base \in Int
           /\ WB_Value \in Word /\ NextRegs \in [Reg -> Word] /\ NextRegs[0] = 0
           /\ MEM_Loaded \in Word /\ MEM_Stored \in Memories /\ MEM_Value \in Word
<1>1. EXE_alu_out \in Word
  BY AluOutType DEF TypeOK, StageTypes, EXE_alu_out
<1>2. EXE_target_pc \in Addr /\ next_pc \in Addr
  BY <1>1, AddressTypes DEF TypeOK, StageTypes, EXE_target_pc, next_pc
<1>3. MEM_Addr \in Addr
  BY AddressTypes DEF TypeOK, StageTypes, MEM_Addr
<1>4. MEM_Base \in Int
  BY <1>3, AlignedAddrType DEF MEM_Base
<1>5. WB_Value \in Word
  BY WriteBackType DEF TypeOK, StageTypes, WB_Value
<1>6. NextRegs \in [Reg -> Word] /\ NextRegs[0] = 0
  <2>1. stage_WB.inst.rd \in Reg /\ 0 \in Reg /\ 0 \in Word /\ regs \in [Reg -> Word]
    BY InstTypes, AddressTypes, SizeAssumption DEF TypeOK, StageTypes, Reg
  <2>. QED
    <3>1. CASE W_RegWEn(stage_WB.inst)
      <4>1. NextRegs = WriteReg(regs, stage_WB.inst.rd, WB_Value)
        BY <3>1 DEF NextRegs
      <4>. QED
        BY <1>5, <2>1, <4>1, WriteRegType
    <3>2. CASE ~W_RegWEn(stage_WB.inst)
      <4>1. NextRegs = WriteReg(regs, 0, 0)
        BY <3>2 DEF NextRegs
      <4>. QED
        BY <2>1, <4>1, WriteRegType
    <3>. QED
      BY <3>1, <3>2
<1>7. MEM_Loaded \in Word
  BY <1>4, ReadLanesType DEF TypeOK, DataMemTypes, MEM_Loaded
<1>8. MEM_Stored \in Memories
  BY <1>4, WriteLanesType DEF TypeOK, StageTypes, DataMemTypes, MEM_Stored
<1>9. MEM_Value \in Word
  BY <1>7, WriteBackType, AddressTypes DEF TypeOK, StageTypes, MEM_Value
<1>. QED
  BY <1>1, <1>2, <1>3, <1>4, <1>5, <1>6, <1>7, <1>8, <1>9

\* The reset state has its types.
LEMMA InitTypes == Init => TypeOK
<1>. SUFFICES ASSUME Init PROVE TypeOK
  OBVIOUS
<1>1. StageTypes
  BY InstTypes, AddressTypes
  DEF Init, StageTypes, ID_Bubble, EXE_Bubble, MEM_Reset, WB_Bubble
<1>2. DataMemTypes
  BY AddressTypes, LatencyAssumption DEF Init, DataMemInit, DataMemTypes
<1>. QED
  BY <1>1, <1>2 DEF TypeOK

\* A clock edge keeps the types of the stage registers.
LEMMA StageTypesStep == TypeOK /\ Tick => StageTypes'
<1>. SUFFICES ASSUME TypeOK, Tick PROVE StageTypes'
  OBVIOUS
<1>. USE WireTypes, InstTypes, AddressTypes DEF TypeOK, StageTypes
<1>1. prog' \in Programs
  BY DEF Tick
<1>2. stage_IF' \in Addr
  BY DEF Tick, Reg_IF
<1>3. stage_ID' \in [pc : Addr, inst : Inst]
  BY ProgramAssumption DEF Tick, Reg_ID, ID_Bubble
<1>4. stage_EXE' \in [pc : Addr, inst : Inst, imm : Word, rs1 : Word, rs2 : Word]
  BY DEF Tick, Reg_EXE, EXE_Bubble
<1>5. stage_MEM' \in [pc : Addr, inst : Inst, alu_out : Word, DM_wdata : Word]
  BY DEF Tick, Reg_MEM
<1>6. stage_WB' \in [pc_plus4 : Addr, inst : Inst, alu_out : Word, ld_data : Word]
  BY DEF Tick, Reg_WB, WB_Bubble, DataMemTypes
<1>7. regs' \in [Reg -> Word]
  BY DEF Tick, RegFile
<1>. QED
  BY <1>1, <1>2, <1>3, <1>4, <1>5, <1>6, <1>7

\* A clock edge keeps the types of the data memory.
LEMMA DataMemTypesStep == TypeOK /\ Tick => DataMemTypes'
<1>. SUFFICES ASSUME TypeOK, Tick PROVE DataMemTypes'
  OBVIOUS
<1>. USE LatencyAssumption DEF TypeOK, DataMemTypes, StageTypes
<1>1. latch.readAddr \in Addr /\ latch.writeAddr \in Addr /\ latch.writeData \in Word
      /\ latch.length \in Widths
  BY DEF Latches
<1>2. CASE Idle(DM_Mem_R(stage_MEM.inst), DM_Mem_W(stage_MEM.inst), MEM_Addr,
                stage_MEM.inst.funct, stage_MEM.DM_wdata)
  <2>1. DM_Mem_R(stage_MEM.inst) \/ DM_Mem_W(stage_MEM.inst)
          => stage_MEM.inst.funct \in Widths
    BY InstTypes DEF DM_Mem_R, DM_Mem_W, IsMemOp
  <2>2. latch' \in Latches
    BY <1>2, <2>1, WireTypes DEF Idle, Latches
  <2>. QED
    BY <1>2, <2>2 DEF Idle
<1>3. CountOrFinish => state' \in {"sIdle", "sWait"} /\ counter' \in 0 .. memLatency - 1
  BY DEF CountOrFinish, LastCycle
<1>4. CASE Read
  <2>1. readData \in Word
    BY <1>1, AlignedAddrType, ReadLanesType DEF readData
  <2>. QED
    BY <1>3, <1>4, <2>1 DEF Read
<1>5. CASE Write
  <2>1. memory' \in Memories
    BY <1>1, <1>5, AlignedAddrType, WriteLanesType DEF Write
  <2>. QED
    BY <1>3, <1>5, <2>1 DEF Write
<1>6. CASE Wait
  BY <1>3, <1>6 DEF Wait
<1>. QED
  BY <1>2, <1>4, <1>5, <1>6 DEF Tick, Edge

\* TypeOK is inductive by itself.
LEMMA TypeOKStep == TypeOK /\ [Next]_vars => TypeOK'
<1>. SUFFICES ASSUME TypeOK, [Next]_vars PROVE TypeOK'
  OBVIOUS
<1>1. CASE Next
  BY <1>1, StageTypesStep, DataMemTypesStep DEF Next, TypeOK
<1>2. CASE UNCHANGED vars
  BY <1>2 DEF TypeOK, StageTypes, DataMemTypes, vars, cpuVars, dmVars
<1>. QED
  BY <1>1, <1>2

\* In every reachable state every register holds a value of its width.
THEOREM TypeCorrect == Spec => []TypeOK
<1>. QED
  BY InitTypes, TypeOKStep, PTL DEF Spec

-----------------------------------------------------------------------------
(* The order of the instructions in the stages. *)

\* What the stalls imply about each other.
LEMMA StallFacts ==
    /\ Stall_MA /\ ~Flush_BH => Stall_IF_ID
    /\ Hcf /\ ~Flush_BH => Stall_IF_ID
    /\ Stall_DH /\ ~Flush_BH => Stall_IF_ID
    /\ ~Hcf /\ ~Stall_DH /\ ~Stall_MA => ~Stall_IF_ID
    /\ Flush_BH => ~Stall_IF_ID
    /\ next_pc = IF Flush_BH THEN EXE_target_pc ELSE PcPlus4(stage_IF)
BY DEF Stall_IF_ID, Flush_BH, next_pc

\* Bubbles are not instructions of the program.
LEMMA BubblesEmpty ==
    ~Full(ID_Bubble.inst) /\ ~Full(EXE_Bubble.inst) /\ ~Full(WB_Bubble.inst)
    /\ ~Full(MEM_Reset.inst)
BY DEF Full, ID_Bubble, EXE_Bubble, WB_Bubble, MEM_Reset, Bubble

\* InOrder is kept by a clock edge of a program without zero words.
LEMMA InOrderTick ==
    ASSUME TypeOK, NoZeroWord(prog), InOrder, Tick
    PROVE  InOrder'
<1>. USE StallFacts, BubblesEmpty
<1>1. stage_IF \in Addr /\ Full(InstMem(prog, stage_IF)) /\ prog' = prog
  BY DEF TypeOK, StageTypes, NoZeroWord, Tick
<1>2. Full(stage_ID'.inst) => /\ stage_ID'.inst = InstMem(prog, stage_ID'.pc)
                              /\ stage_IF' = PcPlus4(stage_ID'.pc)
  BY <1>1 DEF InOrder, Tick, Reg_IF, Reg_ID
<1>3. Full(stage_EXE'.inst) => /\ stage_EXE'.inst = InstMem(prog, stage_EXE'.pc)
                               /\ Full(stage_ID'.inst)
                               /\ stage_ID'.pc = PcPlus4(stage_EXE'.pc)
  <2>1. CASE Flush_BH
    BY <2>1 DEF Tick, Reg_EXE
  <2>2. CASE ~Flush_BH /\ Stall_MA
    BY <2>2 DEF InOrder, Tick, Reg_ID, Reg_EXE
  <2>3. CASE ~Flush_BH /\ ~Stall_MA /\ (Hcf \/ Stall_DH)
    BY <2>3 DEF Tick, Reg_EXE
  <2>4. CASE ~Flush_BH /\ ~Stall_MA /\ ~Hcf /\ ~Stall_DH
    BY <1>1, <2>4 DEF InOrder, Tick, Reg_ID, Reg_EXE
  <2>. QED
    BY <2>1, <2>2, <2>3, <2>4
<1>4. Full(stage_MEM'.inst) =>
         /\ stage_MEM'.inst = InstMem(prog, stage_MEM'.pc)
         /\ Full(stage_EXE'.inst) => stage_EXE'.pc = PcPlus4(stage_MEM'.pc)
  <2>1. CASE Hcf \/ Stall_MA
    BY <2>1 DEF InOrder, Tick, Reg_EXE, Reg_MEM
  <2>2. CASE ~Hcf /\ ~Stall_MA
    BY <2>2 DEF InOrder, Tick, Reg_EXE, Reg_MEM
  <2>. QED
    BY <2>1, <2>2
<1>. QED
  BY <1>1, <1>2, <1>3, <1>4 DEF InOrder

OrderInv == TypeOK /\ NoZeroWord(prog) /\ InOrder

\* The inductive invariant behind InOrder.
LEMMA OrderInvStep == OrderInv /\ [Next]_vars => OrderInv'
<1>. SUFFICES ASSUME OrderInv, [Next]_vars PROVE OrderInv'
  OBVIOUS
<1>1. TypeOK'
  BY TypeOKStep DEF OrderInv
<1>2. CASE Next
  BY <1>1, <1>2, InOrderTick DEF OrderInv, Next, Tick, NoZeroWord
<1>3. CASE UNCHANGED vars
  BY <1>1, <1>3 DEF OrderInv, NoZeroWord, InOrder, vars, cpuVars
<1>. QED
  BY <1>2, <1>3

\* In a program without zero words the instruction in ID is always the one
\* behind the instruction in EXE, so comparing the pc in ID with the target
\* tells whether the right path was fetched.
THEOREM FetchOrder == Spec /\ NoZeroWord(prog) => []InOrder
<1>1. Init /\ NoZeroWord(prog) => OrderInv
  BY InitTypes, BubblesEmpty DEF Init, OrderInv, InOrder
<1>2. OrderInv => InOrder
  BY DEF OrderInv
<1>. QED
  BY <1>1, <1>2, OrderInvStep, PTL DEF Spec

-----------------------------------------------------------------------------
(* MEM and the data memory. *)

\* Storing the same thing twice is storing it once.
LEMMA StoreTwice ==
    ASSUME NEW m \in Memories, NEW base, NEW width, NEW data
    PROVE  WriteLanes(WriteLanes(m, base, width, data), base, width, data)
             = WriteLanes(m, base, width, data)
BY DEF WriteLanes

\* While MEM waits, the wires it drives keep their values.
LEMMA MemHeld ==
    ASSUME stage_MEM' = stage_MEM
    PROVE  /\ MEM_Addr' = MEM_Addr /\ MEM_Base' = MEM_Base
           /\ memory' = memory => /\ MEM_Loaded' = MEM_Loaded
                                  /\ MEM_Stored' = MEM_Stored
                                  /\ MEM_Value' = MEM_Value
BY DEF MEM_Addr, MEM_Base, MEM_Loaded, MEM_Stored, MEM_Value

\* A request is not answered in the cycles that latch and make the access.
LEMMA NotYetValid ==
    ASSUME TypeOK, Handshake, state # "sWait"
    PROVE  ~LastCycle /\ ~Valid
BY LatencyAssumption DEF Handshake, LastCycle, Valid, TypeOK, DataMemTypes

\* MEM keeps its instruction until the memory answers.
LEMMA MemWaits ==
    ASSUME Tick, IsMemOp(stage_MEM.inst), ~Valid
    PROVE  Stall_MA /\ stage_MEM' = stage_MEM
BY DEF Tick, Reg_MEM, Stall_MA, resp_not_back, IsMemOp, DM_Mem_R, DM_Mem_W

\* A clock edge keeps MEM and the data memory in agreement.
LEMMA HandshakeTick ==
    ASSUME TypeOK, Handshake, Tick
    PROVE  Handshake'
<1>1. CASE Idle(DM_Mem_R(stage_MEM.inst), DM_Mem_W(stage_MEM.inst), MEM_Addr,
                stage_MEM.inst.funct, stage_MEM.DM_wdata)
  <2>1. ~LastCycle /\ ~Valid
    BY <1>1, NotYetValid DEF Idle
  <2>2. CASE stage_MEM.inst.op = "LOAD"
    <3>1. stage_MEM' = stage_MEM /\ MEM_Addr' = MEM_Addr
      BY <2>1, <2>2, MemWaits, MemHeld DEF IsMemOp
    <3>2. /\ state' = "sRead" /\ counter' = 1
          /\ latch' = [latch EXCEPT !.readAddr = MEM_Addr, !.length = stage_MEM.inst.funct]
      BY <1>1, <2>1, <2>2 DEF Idle, DM_Mem_R
    <3>3. latch'.readAddr = MEM_Addr /\ latch'.length = stage_MEM.inst.funct
      BY <3>2 DEF TypeOK, DataMemTypes, Latches
    <3>. QED
      BY <2>2, <3>1, <3>2, <3>3 DEF Handshake
  <2>3. CASE stage_MEM.inst.op = "STORE"
    <3>1. stage_MEM' = stage_MEM /\ MEM_Addr' = MEM_Addr
      BY <2>1, <2>3, MemWaits, MemHeld DEF IsMemOp
    <3>2. /\ state' = "sWrite" /\ counter' = 1
          /\ latch' = [latch EXCEPT !.writeAddr = MEM_Addr,
                                    !.writeData = stage_MEM.DM_wdata,
                                    !.length = stage_MEM.inst.funct]
      BY <1>1, <2>1, <2>3 DEF Idle, DM_Mem_R, DM_Mem_W
    <3>3. /\ latch'.writeAddr = MEM_Addr /\ latch'.length = stage_MEM.inst.funct
          /\ latch'.writeData = stage_MEM.DM_wdata
      BY <3>2 DEF TypeOK, DataMemTypes, Latches
    <3>. QED
      BY <2>3, <3>1, <3>2, <3>3 DEF Handshake
  <2>4. CASE ~IsMemOp(stage_MEM.inst)
    <3>1. state' = "sIdle" /\ counter' = 0
      BY <1>1, <2>1, <2>4 DEF Idle, DM_Mem_R, DM_Mem_W, IsMemOp
    <3>. QED
      BY <3>1 DEF Handshake
  <2>. QED
    BY <2>2, <2>3, <2>4 DEF IsMemOp
<1>2. CASE Read
  <2>1. /\ ~LastCycle /\ ~Valid /\ stage_MEM.inst.op = "LOAD" /\ counter = 1
        /\ latch.readAddr = MEM_Addr /\ latch.length = stage_MEM.inst.funct
    BY <1>2, NotYetValid DEF Read, Handshake
  <2>2. stage_MEM' = stage_MEM
    BY <2>1, MemWaits DEF IsMemOp
  <2>3. state' = "sWait" /\ counter' = 2 /\ memory' = memory /\ dataReg' = MEM_Loaded
    BY <1>2, <2>1 DEF Read, CountOrFinish, readData, MEM_Loaded, MEM_Base
  <2>. QED
    BY <2>1, <2>2, <2>3, MemHeld DEF Handshake, IsMemOp
<1>3. CASE Write
  <2>1. /\ ~LastCycle /\ ~Valid /\ stage_MEM.inst.op = "STORE" /\ counter = 1
        /\ latch.writeAddr = MEM_Addr /\ latch.length = stage_MEM.inst.funct
        /\ latch.writeData = stage_MEM.DM_wdata
    BY <1>3, NotYetValid DEF Write, Handshake
  <2>2. stage_MEM' = stage_MEM
    BY <2>1, MemWaits DEF IsMemOp
  <2>3. state' = "sWait" /\ counter' = 2 /\ memory' = MEM_Stored
    BY <1>3, <2>1 DEF Write, CountOrFinish, MEM_Stored, MEM_Base
  <2>4. memory' = MEM_Stored'
    <3>1. MEM_Stored' = WriteLanes(MEM_Stored, MEM_Base, stage_MEM.inst.funct,
                                   stage_MEM.DM_wdata)
      BY <2>2, <2>3, MemHeld DEF MEM_Stored
    <3>2. memory \in Memories
      BY DEF TypeOK, DataMemTypes
    <3>. QED
      BY <2>3, <3>1, <3>2, StoreTwice DEF MEM_Stored
  <2>. QED
    BY <2>1, <2>2, <2>3, <2>4 DEF Handshake, IsMemOp
<1>4. CASE Wait
  <2>1. CASE LastCycle
    BY <1>4, <2>1 DEF Wait, CountOrFinish, Handshake
  <2>2. CASE ~LastCycle
    <3>1. IsMemOp(stage_MEM.inst) /\ counter >= 2 /\ counter \in Nat
      BY <1>4 DEF Wait, Handshake, TypeOK, DataMemTypes
    <3>2. stage_MEM' = stage_MEM
      BY <2>2, <3>1, MemWaits DEF Valid
    <3>3. /\ state' = "sWait" /\ counter' = counter + 1
          /\ memory' = memory /\ dataReg' = dataReg
      BY <1>4, <2>2 DEF Wait, CountOrFinish
    <3>. QED
      BY <1>4, <3>1, <3>2, <3>3, MemHeld DEF Handshake, Wait
  <2>. QED
    BY <2>1, <2>2
<1>. QED
  BY <1>1, <1>2, <1>3, <1>4 DEF Tick, Edge

\* TypeOK and Handshake together are inductive.
LEMMA HandshakeStep == TypeOK /\ Handshake /\ [Next]_vars => Handshake'
<1>. SUFFICES ASSUME TypeOK, Handshake, [Next]_vars PROVE Handshake'
  OBVIOUS
<1>1. CASE Next
  BY <1>1, HandshakeTick DEF Next
<1>2. CASE UNCHANGED vars
  BY <1>2, MemHeld DEF Handshake, vars, cpuVars, dmVars
<1>. QED
  BY <1>1, <1>2

\* Whatever the latency, the program and the contents of the memory: when the
\* data memory answers, it answers the request MEM still holds, with the word
\* at its address, and a store has been made.
THEOREM MemoryProtocol == Spec => []Handshake
<1>1. Init => Handshake
  BY DEF Init, DataMemInit, Handshake
<1>. QED
  BY <1>1, InitTypes, TypeOKStep, HandshakeStep, PTL DEF Spec

-----------------------------------------------------------------------------
(* The sequential registers and memory over a clock edge. *)

\* Behind an HCF in WB there is no store in MEM.
HaltClean == Hcf => stage_MEM.inst.op # "STORE"

ZeroReg == regs[0] = 0

ImmKept == stage_EXE.imm = D_Imm(stage_EXE.inst)

RefInv == /\ TypeOK /\ Restricted(prog) /\ InOrder /\ Handshake
          /\ HaltClean /\ ZeroReg /\ ImmKept /\ FreshOperands

\* Register 0 can be written without effect where it is already 0.
LEMMA WriteZero ==
    ASSUME NEW f \in [Reg -> Word], f[0] = 0
    PROVE  WriteReg(f, 0, 0) = f
BY DEF WriteReg

\* Writing register 0, or writing any other register in the file.
LEMMA WriteRegIsExcept ==
    ASSUME NEW f \in [Reg -> Word], f[0] = 0, NEW r \in Reg, NEW v
    PROVE  WriteReg(f, r, v) = IF r = 0 THEN f ELSE [f EXCEPT ![r] = v]
<1>1. 0 \in Reg
  BY SizeAssumption DEF Reg
<1>2. CASE r = 0
  BY <1>1, <1>2 DEF WriteReg
<1>3. CASE r # 0
  <2>1. [f EXCEPT ![r] = v][0] = 0
    BY <1>1, <1>3
  <2>2. WriteReg(f, r, v) = [[f EXCEPT ![r] = v] EXCEPT ![0] = 0]
    BY DEF WriteReg
  <2>. QED
    BY <1>1, <1>3, <2>1, <2>2
<1>. QED
  BY <1>2, <1>3

\* The sequential registers are registers.
LEMMA AbsRegsType ==
    ASSUME TypeOK
    PROVE  AbsRegs \in [Reg -> Word] /\ AbsRegs[0] = 0
<1>1. /\ NextRegs \in [Reg -> Word] /\ NextRegs[0] = 0
      /\ MEM_Value \in Word /\ stage_MEM.inst.rd \in Reg
  BY WireTypes, InstTypes DEF TypeOK, StageTypes
<1>2. /\ WriteReg(NextRegs, stage_MEM.inst.rd, MEM_Value) \in [Reg -> Word]
      /\ WriteReg(NextRegs, stage_MEM.inst.rd, MEM_Value)[0] = 0
  BY <1>1, WriteRegType
<1>. QED
  BY <1>1, <1>2 DEF AbsRegs

\* When MEM advances, the data memory rests, and its answer is in.
LEMMA MemDone ==
    ASSUME TypeOK, Handshake, Tick, ~Stall_MA
    PROVE  /\ memory' = memory
           /\ stage_MEM.inst.op = "LOAD" => dataReg = MEM_Loaded
           /\ stage_MEM.inst.op = "STORE" => memory = MEM_Stored
<1>1. CASE IsMemOp(stage_MEM.inst)
  <2>1. Valid
    BY <1>1 DEF Stall_MA, resp_not_back, IsMemOp, DM_Mem_R, DM_Mem_W
  <2>2. state = "sWait"
    BY <2>1, NotYetValid
  <2>3. memory' = memory
    BY <2>2 DEF Tick, Edge, Idle, Read, Write, Wait
  <2>. QED
    BY <2>2, <2>3 DEF Handshake
<1>2. CASE ~IsMemOp(stage_MEM.inst)
  <2>1. state = "sIdle"
    BY <1>2 DEF Handshake, IsMemOp, TypeOK, DataMemTypes
  <2>2. memory' = memory
    BY <2>1 DEF Tick, Edge, Idle, Read, Write, Wait
  <2>. QED
    BY <1>2, <2>2 DEF IsMemOp
<1>. QED
  BY <1>1, <1>2

\* The register file after the next write-back is the sequential one.
LEMMA AdvanceMem ==
    ASSUME TypeOK, Handshake, Tick, ~Hcf, ~Stall_MA
    PROVE  /\ NextRegs' = AbsRegs
           /\ AbsMemory = memory /\ memory' = memory
           /\ Hcf' <=> stage_MEM.inst.op = "HCF"
           /\ stage_MEM' = [pc |-> stage_EXE.pc, inst |-> stage_EXE.inst,
                            alu_out |-> EXE_alu_out, DM_wdata |-> stage_EXE.rs2]
<1>1. /\ stage_WB' = [pc_plus4 |-> PcPlus4(stage_MEM.pc), inst |-> stage_MEM.inst,
                      alu_out |-> stage_MEM.alu_out, ld_data |-> dataReg]
      /\ stage_MEM' = [pc |-> stage_EXE.pc, inst |-> stage_EXE.inst,
                       alu_out |-> EXE_alu_out, DM_wdata |-> stage_EXE.rs2]
      /\ regs' = NextRegs
  BY DEF Tick, Reg_WB, Reg_MEM, RegFile
<1>2. WB_Value' = MEM_Value
  BY <1>1, MemDone DEF WB_Value, MEM_Value, WB_wdata
<1>3. NextRegs' = IF W_RegWEn(stage_MEM.inst)
                  THEN WriteReg(NextRegs, stage_MEM.inst.rd, MEM_Value)
                  ELSE WriteReg(NextRegs, 0, 0)
  BY <1>1, <1>2 DEF NextRegs
<1>4. NextRegs' = AbsRegs
  BY <1>3, WireTypes, WriteZero DEF AbsRegs
<1>. QED
  BY <1>1, <1>4, MemDone DEF AbsMemory, Hcf

\* While MEM is held, nothing happens to the sequential state behind EXE.
LEMMA HoldMem ==
    ASSUME TypeOK, Handshake, HaltClean, Tick, Hcf \/ Stall_MA
    PROVE  /\ AbsRegs' = AbsRegs /\ AbsMemory' = AbsMemory
           /\ AbsHalted' = AbsHalted /\ Hcf' = Hcf /\ stage_MEM' = stage_MEM
<1>1. stage_MEM' = stage_MEM /\ regs' = NextRegs
  BY DEF Tick, Reg_MEM, RegFile
<1>2. /\ Hcf => stage_WB' = stage_WB
      /\ ~Hcf => stage_WB' = WB_Bubble
  BY DEF Tick, Reg_WB
<1>3. Hcf' = Hcf
  BY <1>2 DEF Hcf, WB_Bubble, Bubble
<1>4. ~W_RegWEn(stage_WB'.inst)
  BY <1>2 DEF Hcf, W_RegWEn, WB_Bubble, Bubble
<1>5. NextRegs' = NextRegs
  <2>1. NextRegs' = WriteReg(NextRegs, 0, 0)
    BY <1>1, <1>4 DEF NextRegs
  <2>. QED
    BY <2>1, WireTypes, WriteZero
<1>6. CASE stage_MEM.inst.op = "STORE"
  <2>1. ~Hcf /\ ~Hcf'
    BY <1>3, <1>6 DEF HaltClean
  <2>2. AbsRegs' = AbsRegs
    BY <1>1, <1>5, <1>6 DEF AbsRegs, W_RegWEn
  <2>3. memory' = memory \/ memory' = MEM_Stored
    BY <1>6 DEF Tick, Edge, Idle, Read, Write, Wait, Handshake, MEM_Stored, MEM_Base
  <2>4. memory \in Memories
    BY DEF TypeOK, DataMemTypes
  <2>5. MEM_Stored' = WriteLanes(memory', MEM_Base, stage_MEM.inst.funct, stage_MEM.DM_wdata)
    BY <1>1, MemHeld DEF MEM_Stored
  <2>6. MEM_Stored' = MEM_Stored
    BY <2>3, <2>4, <2>5, StoreTwice DEF MEM_Stored
  <2>. QED
    BY <1>1, <1>3, <1>6, <2>1, <2>2, <2>6 DEF AbsMemory, AbsHalted
<1>7. CASE stage_MEM.inst.op # "STORE"
  <2>1. memory' = memory
    BY <1>7 DEF Tick, Edge, Idle, Read, Write, Wait, Handshake
  <2>2. AbsRegs' = AbsRegs
    BY <1>1, <1>3, <1>5, <2>1, MemHeld DEF AbsRegs
  <2>. QED
    BY <1>1, <1>3, <1>7, <2>1, <2>2 DEF AbsMemory, AbsHalted
<1>. QED
  BY <1>6, <1>7

-----------------------------------------------------------------------------
(* Data hazards. *)

\* A register that nothing in flight will write holds its sequential value.
LEMMA ReadFresh ==
    ASSUME TypeOK, ZeroReg, NEW q \in Reg,
           q # 0 => /\ ~(is_use_rd(stage_MEM.inst) /\ stage_MEM.inst.rd = q)
                    /\ ~(is_use_rd(stage_WB.inst) /\ stage_WB.inst.rd = q)
    PROVE  AbsRegs[q] = regs[q]
<1>1. CASE q = 0
  BY <1>1, AbsRegsType DEF ZeroReg
<1>2. CASE q # 0
  <2>1. regs \in [Reg -> Word] /\ stage_WB.inst.rd \in Reg /\ stage_MEM.inst.rd \in Reg
    BY InstTypes DEF TypeOK, StageTypes
  <2>2. NextRegs[q] = regs[q]
    BY <1>2, <2>1 DEF NextRegs, WriteReg, W_RegWEn, is_use_rd
  <2>3. NextRegs \in [Reg -> Word]
    BY WireTypes
  <2>4. AbsRegs[q] = NextRegs[q]
    BY <1>2, <2>1, <2>3 DEF AbsRegs, WriteReg, W_RegWEn, is_use_rd
  <2>. QED
    BY <2>2, <2>4
<1>. QED
  BY <1>1, <1>2

\* The sequential registers once EXE's instruction has moved to MEM.
LEMMA AdvanceRegs ==
    ASSUME TypeOK, Handshake, Tick, ~AbsHalted, ~Stall_MA
    PROVE  /\ AbsRegs' = IF W_RegWEn(stage_EXE.inst)
                         THEN WriteReg(AbsRegs, stage_EXE.inst.rd, MEM_Value') ELSE AbsRegs
           /\ AbsMemory = memory
           /\ AbsMemory' = IF stage_EXE.inst.op = "STORE" THEN MEM_Stored' ELSE memory
           /\ AbsHalted' <=> stage_EXE.inst.op = "HCF"
           /\ ~Hcf'
BY AdvanceMem DEF AbsHalted, AbsRegs, AbsMemory

\* An operand read in ID without a stall is the one the sequential machine
\* reads once the instruction in EXE has taken effect.
LEMMA OperandFresh ==
    ASSUME TypeOK, TypeOK', Handshake, ZeroReg, Tick, ~AbsHalted, ~Stall_MA, NEW q \in Reg,
           \A e \in {stage_EXE.inst, stage_MEM.inst, stage_WB.inst} :
               ~(is_use_rd(e) /\ e.rd # 0 /\ e.rd = q)
    PROVE  AbsRegs'[q] = regs[q]
<1>1. AbsRegs[q] = regs[q]
  BY ReadFresh
<1>2. AbsRegs \in [Reg -> Word] /\ AbsRegs[0] = 0 /\ stage_EXE.inst.rd \in Reg
  BY AbsRegsType, InstTypes DEF TypeOK, StageTypes
<1>3. CASE ~W_RegWEn(stage_EXE.inst)
  BY <1>1, <1>3, AdvanceRegs
<1>4. CASE W_RegWEn(stage_EXE.inst)
  <2>1. AbsRegs' = WriteReg(AbsRegs, stage_EXE.inst.rd, MEM_Value')
    BY <1>4, AdvanceRegs
  <2>2. q # 0 => stage_EXE.inst.rd # q
    BY <1>4 DEF W_RegWEn, is_use_rd
  <2>3. WriteReg(AbsRegs, stage_EXE.inst.rd, MEM_Value')[q] = AbsRegs[q]
    BY <1>2, <2>2 DEF WriteReg
  <2>. QED
    BY <1>1, <2>1, <2>3
<1>. QED
  BY <1>3, <1>4

\* FreshOperands is kept by a clock edge.
LEMMA FreshTick ==
    ASSUME RefInv, TypeOK', Tick
    PROVE  FreshOperands'
<1>. USE DEF RefInv
<1>. SUFFICES ASSUME ~AbsHalted'
              PROVE  /\ is_D_use_rs1(stage_EXE'.inst) =>
                            stage_EXE'.rs1 = AbsRegs'[stage_EXE'.inst.rs1]
                     /\ is_D_use_rs2(stage_EXE'.inst) =>
                            stage_EXE'.rs2 = AbsRegs'[stage_EXE'.inst.rs2]
  BY DEF FreshOperands
<1>1. ~is_D_use_rs1(EXE_Bubble.inst) /\ ~is_D_use_rs2(EXE_Bubble.inst)
  BY DEF is_D_use_rs1, is_D_use_rs2, EXE_Bubble, Bubble
<1>2. CASE Hcf \/ Stall_MA
  <2>1. AbsRegs' = AbsRegs /\ ~AbsHalted
    BY <1>2, HoldMem
  <2>2. stage_EXE' \in {stage_EXE, EXE_Bubble}
    BY <1>2 DEF Tick, Reg_EXE
  <2>. QED
    BY <1>1, <2>1, <2>2 DEF FreshOperands
<1>3. CASE ~Hcf /\ ~Stall_MA
  <2>1. ~AbsHalted
    BY <1>3, AdvanceMem DEF AbsHalted
  <2>2. CASE stage_EXE' = EXE_Bubble
    BY <1>1, <2>2
  <2>3. CASE stage_EXE' # EXE_Bubble
    <3>1. /\ ~Stall_DH
          /\ stage_EXE' = [pc |-> stage_ID.pc, inst |-> stage_ID.inst,
                           imm |-> D_Imm(stage_ID.inst),
                           rs1 |-> regs[stage_ID.inst.rs1],
                           rs2 |-> regs[stage_ID.inst.rs2]]
      BY <1>3, <2>3 DEF Tick, Reg_EXE
    <3>2. stage_ID.inst.rs1 \in Reg /\ stage_ID.inst.rs2 \in Reg
      BY InstTypes DEF TypeOK, StageTypes
    <3>3. is_D_use_rs1(stage_ID.inst) =>
            \A e \in {stage_EXE.inst, stage_MEM.inst, stage_WB.inst} :
               ~(is_use_rd(e) /\ e.rd # 0 /\ e.rd = stage_ID.inst.rs1)
      BY <3>1 DEF Stall_DH, Overlap
    <3>4. is_D_use_rs2(stage_ID.inst) =>
            \A e \in {stage_EXE.inst, stage_MEM.inst, stage_WB.inst} :
               ~(is_use_rd(e) /\ e.rd # 0 /\ e.rd = stage_ID.inst.rs2)
      BY <3>1 DEF Stall_DH, Overlap
    <3>5. is_D_use_rs1(stage_ID.inst) =>
            AbsRegs'[stage_ID.inst.rs1] = regs[stage_ID.inst.rs1]
      BY <1>3, <2>1, <3>2, <3>3, OperandFresh
    <3>6. is_D_use_rs2(stage_ID.inst) =>
            AbsRegs'[stage_ID.inst.rs2] = regs[stage_ID.inst.rs2]
      BY <1>3, <2>1, <3>2, <3>4, OperandFresh
    <3>. QED
      BY <3>1, <3>5, <3>6
  <2>. QED
    BY <2>2, <2>3
<1>. QED
  BY <1>2, <1>3

\* No store follows an HCF into MEM.
LEMMA HaltCleanTick ==
    ASSUME RefInv, Tick
    PROVE  HaltClean'
<1>. USE DEF RefInv
<1>1. CASE Hcf \/ Stall_MA
  BY <1>1, HoldMem DEF HaltClean
<1>2. CASE ~Hcf /\ ~Stall_MA
  <2>. SUFFICES ASSUME stage_MEM.inst.op = "HCF", stage_EXE.inst.op = "STORE" PROVE FALSE
    BY <1>2, AdvanceMem DEF HaltClean
  <2>1. Full(stage_MEM.inst) /\ Full(stage_EXE.inst)
    BY DEF Full
  <2>2. /\ stage_MEM.inst = InstMem(prog, stage_MEM.pc)
        /\ stage_EXE.inst = InstMem(prog, PcPlus4(stage_MEM.pc))
        /\ stage_MEM.pc \in Addr
    BY <2>1 DEF InOrder, TypeOK, StageTypes
  <2>. QED
    BY <2>2 DEF Restricted, NoStoreAfterHcf
<1>. QED
  BY <1>1, <1>2

\* The remaining parts of the invariant are kept by a clock edge.
LEMMA SmallInvTick ==
    ASSUME RefInv, Tick
    PROVE  ZeroReg' /\ ImmKept' /\ prog' = prog
<1>1. ZeroReg'
  BY WireTypes DEF RefInv, Tick, RegFile, ZeroReg
<1>2. D_Imm(EXE_Bubble.inst) = EXE_Bubble.imm
  BY DEF D_Imm, EXE_Bubble, Bubble
<1>3. ImmKept'
  BY <1>2 DEF RefInv, Tick, Reg_EXE, ImmKept
<1>. QED
  BY <1>1, <1>3 DEF Tick

\* RefInv is inductive.
LEMMA RefInvStep == RefInv /\ [Next]_vars => RefInv'
<1>. SUFFICES ASSUME RefInv, [Next]_vars PROVE RefInv'
  OBVIOUS
<1>1. TypeOK' /\ Handshake'
  BY TypeOKStep, HandshakeStep DEF RefInv
<1>2. CASE Tick
  <2>1. InOrder'
    BY <1>2, InOrderTick DEF RefInv, Restricted
  <2>2. FreshOperands'
    BY <1>1, <1>2, FreshTick
  <2>3. HaltClean' /\ ZeroReg' /\ ImmKept' /\ Restricted(prog)'
    BY <1>2, HaltCleanTick, SmallInvTick
    DEF RefInv, Restricted, NoZeroWord, NoLinkAfterMemOp, NoStoreAfterHcf, NoUnsignedLoad
  <2>. QED
    BY <1>1, <2>1, <2>2, <2>3 DEF RefInv
<1>3. CASE UNCHANGED vars
  <2>1. UNCHANGED <<prog, stage_IF, stage_ID, stage_EXE, stage_MEM, stage_WB, regs, memory>>
    BY <1>3 DEF vars, cpuVars, dmVars
  <2>2. AbsRegs' = AbsRegs /\ AbsHalted' = AbsHalted
    BY <2>1 DEF AbsRegs, AbsHalted, Hcf, NextRegs, WB_Value, MEM_Value, MEM_Loaded,
                MEM_Base, MEM_Addr
  <2>3. InOrder' /\ HaltClean' /\ ZeroReg' /\ ImmKept' /\ FreshOperands'
    BY <2>1, <2>2 DEF RefInv, InOrder, HaltClean, Hcf, ZeroReg, ImmKept, FreshOperands
  <2>4. Restricted(prog)'
    BY <2>1 DEF RefInv, Restricted, NoZeroWord, NoLinkAfterMemOp, NoStoreAfterHcf,
                NoUnsignedLoad
  <2>. QED
    BY <1>1, <2>3, <2>4 DEF RefInv
<1>. QED
  BY <1>2, <1>3 DEF Next

\* The reset state satisfies the invariant.
LEMMA RefInvInit == Init /\ Restricted(prog) => RefInv
<1>. SUFFICES ASSUME Init, Restricted(prog) PROVE RefInv
  OBVIOUS
<1>1. TypeOK
  BY InitTypes
<1>2. InOrder
  BY BubblesEmpty DEF Init, InOrder
<1>3. Handshake
  BY DEF Init, DataMemInit, Handshake
<1>4. 0 \in Reg
  BY SizeAssumption DEF Reg
<1>5. HaltClean /\ ZeroReg /\ ImmKept
  BY <1>4 DEF Init, HaltClean, ZeroReg, ImmKept, MEM_Reset, Bubble, EXE_Bubble, D_Imm
<1>6. FreshOperands
  BY DEF Init, FreshOperands, EXE_Bubble, Bubble, is_D_use_rs1, is_D_use_rs2
<1>. QED
  BY <1>1, <1>2, <1>3, <1>5, <1>6 DEF RefInv

\* Without forwarding and whatever the latency of the memory, an instruction
\* never executes with a stale operand.
THEOREM NoStaleOperand == Spec /\ Restricted(prog) => []FreshOperands
<1>1. RefInv => FreshOperands
  BY DEF RefInv
<1>. QED
  BY <1>1, RefInvInit, RefInvStep, PTL DEF Spec

-----------------------------------------------------------------------------
(* The pipeline implements the sequential machine. *)

\* Both sides compute with the same words, addresses and byte lanes.
LEMMA SameVocabulary ==
    /\ \A a, b : Sequential!Add(a, b) = Add(a, b)
    /\ \A a : Sequential!Trunc(a) = Trunc(a)
    /\ \A a : Sequential!Wrap(a) = Trunc(a)
    /\ Sequential!NextInst = PcPlus4(AbsPc)
    /\ \A w : Sequential!Lanes(w) = Lanes(w)
    /\ \A a, b : Sequential!BrEq(a, b) <=> BrEq(a, b)
    /\ \A u, a, b : Sequential!BrLT(u, a, b) <=> BrLT(u, a, b)
    /\ \A m, a, w : Sequential!ReadLanes(m, a, w) = ReadLanes(m, a, w)
    /\ \A m, a, w, d : Sequential!WriteLanes(m, a, w, d) = WriteLanes(m, a, w, d)
    /\ Sequential!Reg = Reg
<1>1. Sequential!WordSize = WordSize /\ Sequential!Addr = Addr /\ Sequential!Reg = Reg
  BY DEF Sequential!WordSize, WordSize, Sequential!Addr, Addr, Sequential!Reg, Reg
<1>2. \A v, n : Sequential!Signed(v, n) = Signed(v, n)
  BY DEF Sequential!Signed, Signed
<1>3. \A a, b : Sequential!Add(a, b) = Add(a, b)
  BY <1>1 DEF Sequential!Add, Add
<1>4. /\ \A a : Sequential!Trunc(a) = Trunc(a) /\ Sequential!Wrap(a) = Trunc(a)
      /\ Sequential!NextInst = PcPlus4(AbsPc)
  BY DEF Sequential!Trunc, Trunc, Sequential!Wrap, Sequential!NextInst, PcPlus4
<1>5. \A w : Sequential!Lanes(w) = Lanes(w)
  BY DEF Sequential!Lanes, Lanes
<1>6. /\ \A a, b : Sequential!BrEq(a, b) <=> BrEq(a, b)
      /\ \A u, a, b : Sequential!BrLT(u, a, b) <=> BrLT(u, a, b)
  BY <1>1, <1>2 DEF Sequential!BrEq, BrEq, Sequential!BrLT, BrLT
<1>7. \A m, a, w : Sequential!ReadLanes(m, a, w) = ReadLanes(m, a, w)
  BY <1>1, <1>2 DEF Sequential!ReadLanes, ReadLanes
<1>8. \A d, k : Sequential!ByteOf(d, k) = ByteOf(d, k)
  BY DEF Sequential!ByteOf, ByteOf
<1>9. \A m, a, w, d : Sequential!WriteLanes(m, a, w, d) = WriteLanes(m, a, w, d)
  BY <1>1, <1>5, <1>8 DEF Sequential!WriteLanes, WriteLanes
<1>. QED
  BY <1>1, <1>3, <1>4, <1>5, <1>6, <1>7, <1>9

Advances == ~AbsHalted /\ ~Stall_MA /\ Full(stage_EXE.inst)

\* A clock edge that moves an instruction from EXE to MEM is the instruction.
LEMMA PcAfterAdvance ==
    ASSUME RefInv, Tick, Advances
    PROVE  /\ AbsPc = stage_EXE.pc
           /\ AbsPc' = IF Flush_BH THEN EXE_target_pc ELSE PcPlus4(stage_EXE.pc)
<1>. USE DEF RefInv, Advances
<1>1. AbsPc = stage_EXE.pc /\ ~Hcf
  BY DEF AbsPc, AbsHalted
<1>2. Full(stage_ID.inst) /\ stage_ID.pc = PcPlus4(stage_EXE.pc)
  BY DEF InOrder
<1>3. ~Hcf' /\ (AbsHalted' <=> stage_EXE.inst.op = "HCF")
  BY AdvanceRegs
<1>4. stage_MEM'.pc = stage_EXE.pc
  BY <1>1, AdvanceMem
<1>5. CASE stage_EXE.inst.op = "HCF"
  <2>1. AbsPc' = PcPlus4(stage_EXE.pc)
    BY <1>3, <1>4, <1>5 DEF AbsPc
  <2>2. ~Flush_BH
    BY <1>5 DEF Flush_BH, Predict_Miss, E_En
  <2>. QED
    BY <1>1, <2>1, <2>2
<1>6. CASE stage_EXE.inst.op # "HCF" /\ Flush_BH
  <2>1. stage_EXE' = EXE_Bubble /\ stage_ID' = ID_Bubble /\ stage_IF' = EXE_target_pc
    BY <1>6, StallFacts DEF Tick, Reg_IF, Reg_ID, Reg_EXE
  <2>. QED
    BY <1>1, <1>3, <1>6, <2>1, BubblesEmpty DEF AbsPc
<1>7. CASE stage_EXE.inst.op # "HCF" /\ ~Flush_BH /\ Stall_DH
  <2>1. stage_EXE' = EXE_Bubble /\ stage_ID' = stage_ID
    BY <1>7, StallFacts DEF Tick, Reg_ID, Reg_EXE
  <2>. QED
    BY <1>1, <1>2, <1>3, <1>7, <2>1, BubblesEmpty DEF AbsPc
<1>8. CASE stage_EXE.inst.op # "HCF" /\ ~Flush_BH /\ ~Stall_DH
  <2>1. stage_EXE'.inst = stage_ID.inst /\ stage_EXE'.pc = stage_ID.pc
    BY <1>1, <1>8 DEF Tick, Reg_EXE
  <2>. QED
    BY <1>1, <1>2, <1>3, <1>8, <2>1 DEF AbsPc
<1>. QED
  BY <1>5, <1>6, <1>7, <1>8

\* The instruction and the operands of the sequential machine are EXE's.
LEMMA SequentialInst ==
    ASSUME RefInv, ~AbsHalted, Full(stage_EXE.inst)
    PROVE  /\ AbsPc = stage_EXE.pc
           /\ Sequential!inst = stage_EXE.inst
           /\ is_D_use_rs1(stage_EXE.inst) => Sequential!src1 = stage_EXE.rs1
           /\ is_D_use_rs2(stage_EXE.inst) => Sequential!src2 = stage_EXE.rs2
           /\ stage_EXE.inst.op \notin {"OP", "HCF"} => stage_EXE.imm = stage_EXE.inst.imm
<1>1. AbsPc = stage_EXE.pc
  BY DEF AbsPc, AbsHalted
<1>2. Sequential!inst = stage_EXE.inst
  BY <1>1 DEF RefInv, InOrder, Sequential!inst
<1>. QED
  BY <1>1, <1>2
  DEF RefInv, FreshOperands, ImmKept, D_Imm, Full, Sequential!src1, Sequential!src2

\* What EXE computes, by kind of instruction.
LEMMA ExecuteResult ==
    ASSUME RefInv, Full(stage_EXE.inst)
    PROVE  LET i == stage_EXE.inst IN
           /\ i.op \in {"LOAD", "STORE", "JALR"} => EXE_alu_out = Add(stage_EXE.rs1, stage_EXE.imm)
           /\ i.op \in {"BRANCH", "JAL", "AUIPC"} => EXE_alu_out = Add(stage_EXE.pc, stage_EXE.imm)
           /\ i.op = "LUI" => EXE_alu_out = stage_EXE.imm
           /\ i.op = "OP" => EXE_alu_out = ALU(i.funct, stage_EXE.rs1, stage_EXE.rs2)
           /\ i.op = "OP_IMM" => EXE_alu_out = ALU(i.funct, stage_EXE.rs1, stage_EXE.imm)
<1>. DEFINE i == stage_EXE.inst
<1>1. /\ stage_EXE.pc \in Word /\ stage_EXE.rs1 \in Word /\ stage_EXE.rs2 \in Word
      /\ stage_EXE.imm \in Word /\ 0 \in Word
  BY AddressTypes DEF RefInv, TypeOK, StageTypes
<1>2. \A a, b \in Word : ALU("ADD", a, b) = Add(a, b)
  BY ALUAssumption
<1>3. i.op \in {"LOAD", "STORE", "JALR"} => EXE_alu_out = Add(stage_EXE.rs1, stage_EXE.imm)
  BY <1>1, <1>2 DEF EXE_alu_out, E_ALUSel, alu_src1, alu_src2
<1>4. i.op \in {"BRANCH", "JAL", "AUIPC"} => EXE_alu_out = Add(stage_EXE.pc, stage_EXE.imm)
  BY <1>1, <1>2 DEF EXE_alu_out, E_ALUSel, alu_src1, alu_src2
<1>5. i.op = "LUI" => EXE_alu_out = stage_EXE.imm
  BY <1>1, <1>2, AddZero DEF EXE_alu_out, E_ALUSel, alu_src1, alu_src2
<1>6. i.op \in {"OP", "OP_IMM"} =>
        EXE_alu_out = ALU(i.funct, stage_EXE.rs1,
                          IF i.op = "OP" THEN stage_EXE.rs2 ELSE stage_EXE.imm)
  BY DEF EXE_alu_out, E_ALUSel, alu_src1, alu_src2
<1>. QED
  BY <1>3, <1>4, <1>5, <1>6

\* A write-back of the pipeline is a SetReg of the sequential machine.
LEMMA SetRegIsWriteReg ==
    ASSUME RefInv, ~AbsHalted, Full(stage_EXE.inst), NEW v,
           AbsRegs' = WriteReg(AbsRegs, stage_EXE.inst.rd, v)
    PROVE  Sequential!SetReg(v)
<1>1. AbsRegs \in [Reg -> Word] /\ AbsRegs[0] = 0 /\ stage_EXE.inst.rd \in Reg
  BY AbsRegsType, InstTypes DEF RefInv, TypeOK, StageTypes
<1>2. AbsRegs' = IF stage_EXE.inst.rd = 0 THEN AbsRegs
                 ELSE [AbsRegs EXCEPT ![stage_EXE.inst.rd] = v]
  BY <1>1, WriteRegIsExcept
<1>. QED
  BY <1>2, SequentialInst DEF Sequential!SetReg

\* The loads and stores of the claimed programs go to the natural address.
LEMMA NaturalAddress ==
    ASSUME NEW a \in Addr, NEW width \in {"Byte", "Half", "Word"}
    PROVE  Natural(width, a) = alignedAddr(width, a)
<1>1. a \in Int /\ a % 1 = 0
  BY SizeAssumption DEF Addr
<1>. QED
  BY <1>1, SameVocabulary DEF Natural, alignedAddr, Lanes

\* The address of an access.
LEMMA AccessAddress ==
    ASSUME RefInv, ~AbsHalted, IsMemOp(stage_EXE.inst)
    PROVE  Sequential!EffectiveAddr = alignedAddr(stage_EXE.inst.funct, EXE_target_pc)
<1>1. Full(stage_EXE.inst)
  BY DEF IsMemOp, Full
<1>2. /\ EXE_target_pc = Trunc(Add(stage_EXE.rs1, stage_EXE.imm)) /\ EXE_target_pc \in Addr
      /\ Sequential!src1 = stage_EXE.rs1 /\ Sequential!inst = stage_EXE.inst
      /\ stage_EXE.imm = stage_EXE.inst.imm
  BY <1>1, ExecuteResult, SequentialInst, WireTypes
  DEF RefInv, IsMemOp, is_D_use_rs1, EXE_target_pc
<1>3. stage_EXE.inst.funct \in {"Byte", "Half", "Word"}
  <2>1. stage_EXE.pc \in Addr /\ stage_EXE.inst = InstMem(prog, stage_EXE.pc)
        /\ stage_EXE.inst \in Inst
    BY <1>1 DEF RefInv, InOrder, TypeOK, StageTypes
  <2>. QED
    BY <2>1 DEF RefInv, Restricted, NoUnsignedLoad, Inst, IsMemOp
<1>. QED
  BY <1>2, <1>3, NaturalAddress, SameVocabulary DEF Sequential!EffectiveAddr

\* The branch comparator decides what the sequential machine decides.
LEMMA BranchDecision ==
    ASSUME RefInv, ~AbsHalted, stage_EXE.inst.op = "BRANCH"
    PROVE  Sequential!Holds <=> E_Branch_taken(stage_EXE.inst, stage_EXE.rs1, stage_EXE.rs2)
<1>1. /\ Sequential!inst = stage_EXE.inst
      /\ Sequential!src1 = stage_EXE.rs1 /\ Sequential!src2 = stage_EXE.rs2
  BY SequentialInst DEF Full, is_D_use_rs1, is_D_use_rs2
<1>2. stage_EXE.inst.funct \in Conditions
  BY DEF RefInv, TypeOK, StageTypes, Inst
<1>. DEFINE f == stage_EXE.inst.funct
            eq == BrEq(stage_EXE.rs1, stage_EXE.rs2)
            lt(u) == BrLT(u, stage_EXE.rs1, stage_EXE.rs2)
            taken == E_Branch_taken(stage_EXE.inst, stage_EXE.rs1, stage_EXE.rs2)
<1>3. /\ f = "EQ" => (taken <=> eq)
      /\ f = "NE" => (taken <=> ~eq)
      /\ f = "LT" => (taken <=> lt(FALSE))
      /\ f = "GE" => (taken <=> ~lt(FALSE))
      /\ f = "LTU" => (taken <=> lt(TRUE))
      /\ f = "GEU" => (taken <=> ~lt(TRUE))
  BY DEF E_Branch_taken, E_BrUn, BrLT
<1>4. /\ f = "EQ" => (Sequential!Holds <=> eq)
      /\ f = "NE" => (Sequential!Holds <=> ~eq)
      /\ f = "LT" => (Sequential!Holds <=> lt(FALSE))
      /\ f = "GE" => (Sequential!Holds <=> ~lt(FALSE))
      /\ f = "LTU" => (Sequential!Holds <=> lt(TRUE))
      /\ f = "GEU" => (Sequential!Holds <=> ~lt(TRUE))
  <2>1. Sequential!BrEq(Sequential!src1, Sequential!src2) <=> eq
    BY <1>1, SameVocabulary
  <2>2. /\ Sequential!BrLT(FALSE, Sequential!src1, Sequential!src2) <=> lt(FALSE)
        /\ Sequential!BrLT(TRUE, Sequential!src1, Sequential!src2) <=> lt(TRUE)
    BY <1>1, SameVocabulary
  <2>3. Sequential!inst.funct = f
    BY <1>1
  <2>. HIDE DEF f, eq, lt
  <2>. QED
    BY <2>1, <2>2, <2>3 DEF Sequential!Holds
<1>. HIDE DEF taken, eq, lt
<1>5. Sequential!Holds <=> taken
  BY <1>2, <1>3, <1>4 DEF Conditions
<1>. QED
  BY <1>5 DEF taken

\* What stays the same when no instruction takes effect.
Idles == UNCHANGED <<prog, AbsPc, AbsRegs, AbsMemory, AbsHalted>>

\* After an HCF has taken effect nothing does.
LEMMA HaltedTick ==
    ASSUME RefInv, Tick, AbsHalted
    PROVE  Idles
<1>. USE DEF RefInv
<1>1. prog' = prog
  BY DEF Tick
<1>2. CASE Hcf
  <2>1. stage_WB' = stage_WB
    BY <1>2 DEF Tick, Reg_WB
  <2>. QED
    BY <1>1, <1>2, <2>1, HoldMem DEF Idles, AbsPc
<1>3. CASE ~Hcf
  <2>1. stage_MEM.inst.op = "HCF" /\ ~Stall_MA
    BY <1>3 DEF AbsHalted, Stall_MA, resp_not_back, DM_Mem_R, DM_Mem_W
  <2>2. Hcf' /\ NextRegs' = AbsRegs /\ AbsMemory = memory /\ memory' = memory
    BY <1>3, <2>1, AdvanceMem
  <2>3. stage_WB'.pc_plus4 = PcPlus4(stage_MEM.pc)
    BY <1>3, <2>1 DEF Tick, Reg_WB
  <2>4. AbsHalted' = TRUE /\ AbsHalted = TRUE
    BY <2>1, <2>2 DEF AbsHalted
  <2>5. AbsPc' = AbsPc
    BY <1>3, <2>2, <2>3, <2>4 DEF AbsPc
  <2>. QED
    BY <1>1, <2>2, <2>4, <2>5 DEF Idles, AbsRegs, AbsMemory
<1>. QED
  BY <1>2, <1>3

\* A stall for the data memory without a flush is no instruction.
LEMMA StallTick ==
    ASSUME RefInv, Tick, ~AbsHalted, Stall_MA, ~Flush_BH
    PROVE  Idles
<1>. USE DEF RefInv
<1>1. /\ stage_EXE' = stage_EXE /\ stage_ID' = stage_ID /\ stage_IF' = stage_IF
      /\ prog' = prog
  BY StallFacts DEF Tick, Reg_IF, Reg_ID, Reg_EXE
<1>2. AbsRegs' = AbsRegs /\ AbsMemory' = AbsMemory /\ AbsHalted' = AbsHalted /\ Hcf' = Hcf
  BY HoldMem
<1>3. AbsPc' = AbsPc
  BY <1>1, <1>2 DEF AbsPc, AbsHalted
<1>. QED
  BY <1>1, <1>2, <1>3 DEF Idles

\* An edge that finds EXE empty is no instruction.
LEMMA EmptyTick ==
    ASSUME RefInv, Tick, ~AbsHalted, ~Stall_MA, ~Full(stage_EXE.inst)
    PROVE  Idles
<1>. USE DEF RefInv
<1>1. ~Flush_BH
  BY DEF Flush_BH, Predict_Miss, E_En, Full
<1>2. /\ ~Hcf' /\ ~AbsHalted' /\ AbsRegs' = AbsRegs
      /\ AbsMemory' = AbsMemory /\ prog' = prog
  BY AdvanceRegs DEF Full, W_RegWEn, Tick
<1>3. ~Hcf
  BY DEF AbsHalted
<1>6. AbsHalted = FALSE /\ AbsHalted' = FALSE
  BY <1>2 DEF AbsHalted
<1>4. CASE Stall_DH
  <2>1. stage_EXE' = EXE_Bubble /\ stage_ID' = stage_ID
    BY <1>1, <1>4, StallFacts DEF Tick, Reg_ID, Reg_EXE
  <2>2. Full(stage_ID.inst)
    BY <1>4 DEF Stall_DH, Overlap, is_D_use_rs1, is_D_use_rs2, Full
  <2>3. ~Full(stage_EXE.inst) /\ ~Full(stage_EXE'.inst)
    BY <2>1 DEF EXE_Bubble, Bubble, Full
  <2>4. AbsPc = stage_ID.pc
    BY <1>3, <2>2, <2>3 DEF AbsPc
  <2>5. AbsPc' = stage_ID'.pc
    BY <1>2, <2>1, <2>2, <2>3 DEF AbsPc
  <2>. QED
    BY <1>2, <1>6, <2>1, <2>4, <2>5 DEF Idles
<1>5. CASE ~Stall_DH
  <2>1. /\ stage_EXE'.inst = stage_ID.inst /\ stage_EXE'.pc = stage_ID.pc
        /\ stage_ID'.inst = InstMem(prog, stage_IF) /\ stage_ID'.pc = stage_IF
    BY <1>1, <1>3, <1>5, StallFacts DEF Tick, Reg_ID, Reg_EXE
  <2>2. Full(InstMem(prog, stage_IF))
    BY DEF Restricted, NoZeroWord, TypeOK, StageTypes
  <2>3. AbsPc = IF Full(stage_ID.inst) THEN stage_ID.pc ELSE stage_IF
    BY <1>3 DEF AbsPc
  <2>4. AbsPc' = IF Full(stage_EXE'.inst) THEN stage_EXE'.pc ELSE stage_ID'.pc
    BY <1>2, <2>1, <2>2 DEF AbsPc
  <2>. QED
    BY <1>2, <1>6, <2>1, <2>3, <2>4 DEF Idles
<1>. QED
  BY <1>4, <1>5

\* A branch that flushes while MEM is stalled takes effect although MEM does
\* not move: it writes no register, so nothing of it is lost.
LEMMA FlushUnderStall ==
    ASSUME RefInv, Tick, ~AbsHalted, Stall_MA, Flush_BH
    PROVE  /\ Full(stage_EXE.inst)
           /\ AbsPc' = EXE_target_pc
           /\ AbsRegs' = AbsRegs /\ AbsMemory' = AbsMemory /\ ~AbsHalted' /\ prog' = prog
           /\ \/ stage_EXE.inst.op = "BRANCH"
              \/ stage_EXE.inst.op \in {"JAL", "JALR"} /\ stage_EXE.inst.rd = 0
<1>. USE DEF RefInv
<1>1. Full(stage_EXE.inst) /\ stage_EXE.inst.op \in {"BRANCH", "JALR", "JAL"}
  BY DEF Flush_BH, Predict_Miss, E_En, Full
<1>2. IsMemOp(stage_MEM.inst) /\ Full(stage_MEM.inst)
  BY DEF Stall_MA, resp_not_back, DM_Mem_R, DM_Mem_W, IsMemOp, Full
<1>3. ~(stage_EXE.inst.op \in {"JAL", "JALR"} /\ stage_EXE.inst.rd # 0)
  <2>1. /\ stage_MEM.inst = InstMem(prog, stage_MEM.pc) /\ stage_MEM.pc \in Addr
        /\ stage_EXE.inst = InstMem(prog, PcPlus4(stage_MEM.pc))
    BY <1>1, <1>2 DEF InOrder, TypeOK, StageTypes
  <2>. QED
    BY <1>2, <2>1 DEF Restricted, NoLinkAfterMemOp
<1>4. /\ AbsRegs' = AbsRegs /\ AbsMemory' = AbsMemory /\ ~AbsHalted' /\ ~Hcf'
      /\ prog' = prog
  BY HoldMem DEF AbsHalted, Tick
<1>5. stage_EXE' = EXE_Bubble /\ stage_ID' = ID_Bubble /\ stage_IF' = EXE_target_pc
  BY StallFacts DEF Tick, Reg_IF, Reg_ID, Reg_EXE
<1>6. AbsPc' = EXE_target_pc
  BY <1>4, <1>5, BubblesEmpty DEF AbsPc
<1>. QED
  BY <1>1, <1>3, <1>4, <1>6

\* Where the fetch continues is where the sequential machine continues.
LEMMA ControlFlow ==
    ASSUME RefInv, Full(stage_EXE.inst)
    PROVE  LET taken == E_Branch_taken(stage_EXE.inst, stage_EXE.rs1, stage_EXE.rs2)
           IN  /\ Flush_BH => taken
               /\ taken /\ ~Flush_BH => EXE_target_pc = PcPlus4(stage_EXE.pc)
BY DEF RefInv, InOrder, Flush_BH, Predict_Miss, E_Branch_taken, E_En

\* A clock edge that moves an instruction from EXE to MEM is that instruction.
LEMMA AdvanceIsInstruction ==
    ASSUME RefInv, Tick, Advances
    PROVE  Sequential!Next
<1>. DEFINE i == stage_EXE.inst
            taken == E_Branch_taken(i, stage_EXE.rs1, stage_EXE.rs2)
<1>. USE DEF Advances
<1>1. /\ AbsPc = stage_EXE.pc
      /\ Sequential!inst = i
      /\ is_D_use_rs1(i) => Sequential!src1 = stage_EXE.rs1
      /\ is_D_use_rs2(i) => Sequential!src2 = stage_EXE.rs2
      /\ i.op \notin {"OP", "HCF"} => stage_EXE.imm = i.imm
  BY SequentialInst
<1>2. AbsPc' = IF taken THEN EXE_target_pc ELSE PcPlus4(stage_EXE.pc)
  BY PcAfterAdvance, ControlFlow
<1>3. /\ W_RegWEn(i) => AbsRegs' = WriteReg(AbsRegs, i.rd, MEM_Value')
      /\ ~W_RegWEn(i) => AbsRegs' = AbsRegs
      /\ AbsMemory = memory
      /\ i.op = "STORE" => AbsMemory' = MEM_Stored'
      /\ i.op # "STORE" => AbsMemory' = AbsMemory
      /\ AbsHalted' <=> i.op = "HCF"
      /\ AbsHalted' \in BOOLEAN /\ AbsHalted = FALSE
      /\ prog' = prog
  BY AdvanceRegs DEF RefInv, AbsHalted, Hcf, Tick
<1>4. /\ stage_MEM'.inst = i /\ stage_MEM'.pc = stage_EXE.pc
      /\ stage_MEM'.alu_out = EXE_alu_out /\ stage_MEM'.DM_wdata = stage_EXE.rs2
      /\ memory' = memory
  BY AdvanceMem DEF RefInv, AbsHalted
<1>5. MEM_Base' = alignedAddr(i.funct, EXE_target_pc)
  BY <1>4 DEF MEM_Base, MEM_Addr, EXE_target_pc
<1>6. i \in Inst
  BY DEF RefInv, TypeOK, StageTypes
<1>7. CASE i.op \in {"OP", "OP_IMM", "AUIPC", "LUI"}
  <2>1. MEM_Value' = EXE_alu_out
    BY <1>4, <1>7 DEF MEM_Value, WB_wdata
  <2>2. EXE_alu_out = Sequential!Computed
    BY <1>1, <1>7, ExecuteResult, SameVocabulary
    DEF Sequential!Computed, is_D_use_rs1, is_D_use_rs2
  <2>3. Sequential!SetReg(Sequential!Computed)
    BY <1>3, <1>7, <2>1, <2>2, SetRegIsWriteReg DEF W_RegWEn
  <2>4. ~taken
    BY <1>7 DEF E_Branch_taken
  <2>5. Sequential!Compute
    BY <1>1, <1>2, <1>3, <1>7, <2>3, <2>4, SameVocabulary DEF Sequential!Compute
  <2>. QED
    BY <2>5 DEF Sequential!Next
<1>8. CASE i.op = "LOAD"
  <2>1. MEM_Value' = ReadLanes(memory, alignedAddr(i.funct, EXE_target_pc), i.funct)
    BY <1>4, <1>5, <1>8 DEF MEM_Value, WB_wdata, MEM_Loaded
  <2>2. Sequential!EffectiveAddr = alignedAddr(i.funct, EXE_target_pc)
    BY <1>8, AccessAddress DEF IsMemOp
  <2>3. MEM_Value' = Sequential!ReadLanes(AbsMemory, Sequential!EffectiveAddr, i.funct)
    BY <1>3, <2>1, <2>2, SameVocabulary
  <2>4. Sequential!SetReg(Sequential!ReadLanes(AbsMemory, Sequential!EffectiveAddr, i.funct))
    BY <1>3, <1>8, <2>3, SetRegIsWriteReg DEF W_RegWEn
  <2>5. ~taken
    BY <1>8 DEF E_Branch_taken
  <2>6. Sequential!Load
    BY <1>1, <1>2, <1>3, <1>8, <2>4, <2>5, SameVocabulary DEF Sequential!Load
  <2>. QED
    BY <2>6 DEF Sequential!Next
<1>9. CASE i.op = "STORE"
  <2>1. MEM_Stored' = WriteLanes(memory, alignedAddr(i.funct, EXE_target_pc), i.funct,
                                 stage_EXE.rs2)
    BY <1>4, <1>5 DEF MEM_Stored
  <2>2. Sequential!EffectiveAddr = alignedAddr(i.funct, EXE_target_pc)
    BY <1>9, AccessAddress DEF IsMemOp
  <2>3. AbsMemory' = Sequential!WriteLanes(AbsMemory, Sequential!EffectiveAddr, i.funct,
                                           Sequential!src2)
    BY <1>1, <1>3, <1>9, <2>1, <2>2, SameVocabulary DEF is_D_use_rs2
  <2>4. ~taken /\ ~W_RegWEn(i)
    BY <1>9 DEF E_Branch_taken, W_RegWEn
  <2>5. Sequential!Store
    BY <1>1, <1>2, <1>3, <1>9, <2>3, <2>4, SameVocabulary DEF Sequential!Store
  <2>. QED
    BY <2>5 DEF Sequential!Next
<1>10. CASE i.op = "BRANCH"
  <2>1. Sequential!Holds <=> taken
    BY <1>10, BranchDecision
  <2>2. EXE_target_pc = Trunc(Add(stage_EXE.pc, i.imm))
    BY <1>1, <1>10, ExecuteResult DEF EXE_target_pc
  <2>3. ~W_RegWEn(i)
    BY <1>10 DEF W_RegWEn
  <2>4. Sequential!Branch
    BY <1>1, <1>2, <1>3, <1>10, <2>1, <2>2, <2>3, SameVocabulary DEF Sequential!Branch
  <2>. QED
    BY <2>4 DEF Sequential!Next
<1>11. CASE i.op \in {"JAL", "JALR"}
  <2>1. MEM_Value' = PcPlus4(stage_EXE.pc)
    BY <1>4, <1>11 DEF MEM_Value, WB_wdata
  <2>2. EXE_target_pc = Trunc(Add(IF i.op = "JAL" THEN AbsPc ELSE Sequential!src1, i.imm))
    BY <1>1, <1>11, ExecuteResult DEF EXE_target_pc, is_D_use_rs1
  <2>3. Sequential!SetReg(PcPlus4(stage_EXE.pc))
    BY <1>3, <1>11, <2>1, SetRegIsWriteReg DEF W_RegWEn
  <2>4. taken
    BY <1>11 DEF E_Branch_taken
  <2>5. Sequential!Jump
    BY <1>1, <1>2, <1>3, <1>11, <2>2, <2>3, <2>4, SameVocabulary DEF Sequential!Jump
  <2>. QED
    BY <2>5 DEF Sequential!Next
<1>12. CASE i.op = "HCF"
  <2>1. ~taken /\ ~W_RegWEn(i)
    BY <1>12 DEF E_Branch_taken, W_RegWEn
  <2>2. Sequential!Halt
    BY <1>1, <1>2, <1>3, <1>12, <2>1, SameVocabulary DEF Sequential!Halt
  <2>. QED
    BY <2>2 DEF Sequential!Next
<1>13. i.op \in Opcodes
  BY <1>6 DEF Inst, Full
<1>. QED
  BY <1>7, <1>8, <1>9, <1>10, <1>11, <1>12, <1>13 DEF Opcodes

\* A flush under a memory stall is the branch or the plain jump in EXE.
LEMMA FlushIsInstruction ==
    ASSUME RefInv, Tick, ~AbsHalted, Stall_MA, Flush_BH
    PROVE  Sequential!Next
<1>. DEFINE i == stage_EXE.inst
<1>1. /\ Full(i) /\ AbsPc' = EXE_target_pc
      /\ AbsRegs' = AbsRegs /\ AbsMemory' = AbsMemory /\ prog' = prog
      /\ i.op = "BRANCH" \/ (i.op \in {"JAL", "JALR"} /\ i.rd = 0)
  BY FlushUnderStall
<1>2. AbsHalted' = FALSE /\ AbsHalted = FALSE
  BY FlushUnderStall DEF AbsHalted, Hcf
<1>3. /\ AbsPc = stage_EXE.pc
      /\ Sequential!inst = i
      /\ is_D_use_rs1(i) => Sequential!src1 = stage_EXE.rs1
      /\ stage_EXE.imm = i.imm
  BY <1>1, SequentialInst
<1>4. CASE i.op = "BRANCH"
  <2>1. Sequential!Holds
    BY <1>1, <1>4, BranchDecision, ControlFlow
  <2>2. EXE_target_pc = Trunc(Add(stage_EXE.pc, i.imm))
    BY <1>1, <1>3, <1>4, ExecuteResult DEF EXE_target_pc
  <2>3. Sequential!Branch
    BY <1>1, <1>2, <1>3, <1>4, <2>1, <2>2, SameVocabulary DEF Sequential!Branch
  <2>. QED
    BY <1>2, <2>3 DEF Sequential!Next
<1>5. CASE i.op \in {"JAL", "JALR"} /\ i.rd = 0
  <2>1. EXE_target_pc = Trunc(Add(IF i.op = "JAL" THEN AbsPc ELSE Sequential!src1, i.imm))
    BY <1>1, <1>3, <1>5, ExecuteResult DEF EXE_target_pc, is_D_use_rs1
  <2>2. \A v : Sequential!SetReg(v)
    BY <1>1, <1>3, <1>5 DEF Sequential!SetReg
  <2>3. Sequential!Jump
    BY <1>1, <1>2, <1>3, <1>5, <2>1, <2>2, SameVocabulary DEF Sequential!Jump
  <2>. QED
    BY <1>2, <2>3 DEF Sequential!Next
<1>. QED
  BY <1>1, <1>4, <1>5

\* Every clock edge is one instruction of the sequential machine or none.
LEMMA StepSimulation == RefInv /\ [Next]_vars => [Sequential!Next]_Sequential!isaVars
<1>. SUFFICES ASSUME RefInv, [Next]_vars
              PROVE  Sequential!Next \/ UNCHANGED Sequential!isaVars
  OBVIOUS
<1>1. Idles => UNCHANGED Sequential!isaVars
  BY DEF Idles, Sequential!isaVars
<1>2. CASE Tick
  <2>1. CASE AbsHalted
    BY <1>1, <1>2, <2>1, HaltedTick
  <2>2. CASE ~AbsHalted /\ Stall_MA /\ ~Flush_BH
    BY <1>1, <1>2, <2>2, StallTick
  <2>3. CASE ~AbsHalted /\ Stall_MA /\ Flush_BH
    BY <1>2, <2>3, FlushIsInstruction
  <2>4. CASE ~AbsHalted /\ ~Stall_MA /\ ~Full(stage_EXE.inst)
    BY <1>1, <1>2, <2>4, EmptyTick
  <2>5. CASE ~AbsHalted /\ ~Stall_MA /\ Full(stage_EXE.inst)
    BY <1>2, <2>5, AdvanceIsInstruction DEF Advances
  <2>. QED
    BY <2>1, <2>2, <2>3, <2>4, <2>5
<1>3. CASE UNCHANGED vars
  <2>1. UNCHANGED <<prog, stage_IF, stage_ID, stage_EXE, stage_MEM, stage_WB, regs, memory>>
    BY <1>3 DEF vars, cpuVars, dmVars
  <2>2. Idles
    BY <2>1 DEF Idles, AbsPc, AbsRegs, AbsMemory, AbsHalted, Hcf, NextRegs, WB_Value,
                MEM_Value, MEM_Loaded, MEM_Stored, MEM_Base, MEM_Addr
  <2>. QED
    BY <1>1, <2>2
<1>. QED
  BY <1>2, <1>3 DEF Next

\* The reset state is an initial state of the sequential machine.
LEMMA InitSimulation == Init => Sequential!Init
<1>. SUFFICES ASSUME Init PROVE Sequential!Init
  OBVIOUS
<1>1. stage_WB.inst = Bubble /\ stage_MEM.inst = Bubble
  BY DEF Init, WB_Bubble, MEM_Reset
<1>2. ~Hcf /\ AbsHalted = FALSE /\ ~W_RegWEn(stage_WB.inst) /\ ~W_RegWEn(stage_MEM.inst)
      /\ stage_MEM.inst.op # "STORE"
  BY <1>1 DEF Hcf, AbsHalted, W_RegWEn, Bubble
<1>3. AbsPc = 0
  BY <1>2, BubblesEmpty DEF Init, AbsPc
<1>4. AbsMemory = memory /\ memory \in InitMemories
  BY <1>2 DEF AbsMemory, Init, DataMemInit
<1>5. AbsRegs = [r \in Reg |-> 0]
  <2>1. AbsRegs = WriteReg(regs, 0, 0)
    BY <1>2 DEF AbsRegs, NextRegs
  <2>. QED
    BY <2>1 DEF Init, WriteReg
<1>. QED
  BY <1>2, <1>3, <1>4, <1>5, SameVocabulary DEF Init, Sequential!Init

\* The Lab 9 pipeline executes every program of the claimed class exactly like
\* the sequential machine: for every program, memory contents, word size,
\* number of registers, ALU and memory latency of at least 3 cycles.
THEOREM PipelineImplementsIsa == Spec /\ Restricted(prog) => ImplementsIsa
<1>. QED
  BY RefInvInit, RefInvStep, InitSimulation, StepSimulation, PTL
  DEF Spec, ImplementsIsa, Sequential!Spec

\* Once io.Hcf is up it stays up, and no register and no byte of the data
\* memory changes any more (Controller.scala:244, PiplinedCPU.scala:66-139).
THEOREM HaltStays == Spec /\ Restricted(prog) => HaltIsFinal
<1>1. RefInv /\ [Next]_vars => [Hcf => Hcf' /\ UNCHANGED <<regs, memory>>]_vars
  <2> SUFFICES ASSUME RefInv, Tick, Hcf
               PROVE  Hcf' /\ regs' = regs /\ memory' = memory
    BY DEF Next
  <2>1. stage_MEM.inst.op # "STORE"
    BY DEF RefInv, HaltClean
  <2>2. memory' = memory
    BY <2>1 DEF RefInv, Handshake, Tick, Edge, Idle, Read, Write, Wait
  <2>3. ~W_RegWEn(stage_WB.inst)
    BY DEF Hcf, W_RegWEn
  <2>4. regs' = WriteReg(regs, 0, 0)
    BY <2>3 DEF Tick, RegFile, NextRegs
  <2>5. regs' = regs
    BY <2>4, WriteZero DEF RefInv, ZeroReg, TypeOK, StageTypes
  <2>6. Hcf'
    BY DEF Tick, Reg_WB, Hcf
  <2>. QED
    BY <2>2, <2>5, <2>6
<1>. QED
  BY <1>1, RefInvInit, RefInvStep, PTL DEF Spec, HaltIsFinal
=============================================================================
