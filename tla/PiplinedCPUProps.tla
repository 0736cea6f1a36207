-------------------------- MODULE PiplinedCPUProps --------------------------
(***************************************************************************)
(* What the Lab 9 processor must satisfy, and the state of the sequential  *)
(* machine that a state of the pipeline stands for.                        *)
(*                                                                         *)
(* An instruction takes effect for the sequential machine when it leaves   *)
(* EXE: from then on nothing can cancel it, and its result is on its way   *)
(* in MEM or WB.  The sequential registers are therefore the register file *)
(* after the write that WB makes in this cycle and the one that MEM will   *)
(* make, and the sequential memory is the data memory after the store that *)
(* waits in MEM.                                                           *)
(***************************************************************************)
EXTENDS PiplinedCPU

IsMemOp(i) == i.op \in {"LOAD", "STORE"}
Full(i) == i.op # "ZERO"

(* The programs for which the pipeline is claimed to be a processor.       *)

\* Zero words are not instructions.
NoZeroWord(p) == \A a \in Addr : Full(InstMem(p, a))

\* No jump that keeps its return address directly follows a load or a store.
NoLinkAfterMemOp(p) ==
    \A a \in Addr : IsMemOp(InstMem(p, a)) =>
        LET j == InstMem(p, PcPlus4(a)) IN ~(j.op \in {"JAL", "JALR"} /\ j.rd # 0)

\* The word behind an HCF is not a store (the test programs put nops there).
NoStoreAfterHcf(p) ==
    \A a \in Addr : InstMem(p, a).op = "HCF" => InstMem(p, PcPlus4(a)).op # "STORE"

\* No lbu and no lhu.
NoUnsignedLoad(p) ==
    \A a \in Addr : InstMem(p, a).op = "LOAD" =>
        InstMem(p, a).funct \in {"Byte", "Half", "Word"}

Restricted(p) ==
    NoZeroWord(p) /\ NoLinkAfterMemOp(p) /\ NoStoreAfterHcf(p) /\ NoUnsignedLoad(p)
-----------------------------------------------------------------------------
(* The sequential state. *)

AbsHalted == Hcf \/ stage_MEM.inst.op = "HCF"

\* The address of the next instruction to take effect.
AbsPc == CASE Hcf -> stage_WB.pc_plus4
           [] ~Hcf /\ AbsHalted -> PcPlus4(stage_MEM.pc)
           [] ~AbsHalted /\ Full(stage_EXE.inst) -> stage_EXE.pc
           [] ~AbsHalted /\ ~Full(stage_EXE.inst) /\ Full(stage_ID.inst) -> stage_ID.pc
           [] OTHER -> stage_IF

MEM_Base == alignedAddr(stage_MEM.inst.funct, MEM_Addr)
MEM_Loaded == ReadLanes(memory, MEM_Base, stage_MEM.inst.funct)
MEM_Stored == WriteLanes(memory, MEM_Base, stage_MEM.inst.funct, stage_MEM.DM_wdata)
MEM_Value == WB_wdata(stage_MEM.inst, PcPlus4(stage_MEM.pc), stage_MEM.alu_out, MEM_Loaded)

AbsRegs == IF ~Hcf /\ W_RegWEn(stage_MEM.inst)
           THEN WriteReg(NextRegs, stage_MEM.inst.rd, MEM_Value)
           ELSE NextRegs

AbsMemory == IF ~Hcf /\ stage_MEM.inst.op = "STORE" THEN MEM_Stored ELSE memory

\* This processor makes an access of n bytes at the multiple of n that holds
\* its address.
Natural(width, addr) == addr - (addr % Lanes(width))

Sequential == INSTANCE Isa WITH AccessAddr <- Natural, PcSize <- AddrSize,
    pc <- AbsPc, regs <- AbsRegs, memory <- AbsMemory, halted <- AbsHalted

\* The pipeline, whatever it stalls and flushes, executes the program like the
\* machine that executes one instruction at a time: every clock edge is one
\* instruction of that machine or none.
ImplementsIsa == Sequential!Spec
-----------------------------------------------------------------------------
(* Invariants. *)

StageTypes ==
    /\ prog \in Programs
    /\ stage_IF \in Addr
    /\ stage_ID \in [pc : Addr, inst : Inst]
    /\ stage_EXE \in [pc : Addr, inst : Inst, imm : Word, rs1 : Word, rs2 : Word]
    /\ stage_MEM \in [pc : Addr, inst : Inst, alu_out : Word, DM_wdata : Word]
    /\ stage_WB \in [pc_plus4 : Addr, inst : Inst, alu_out : Word, ld_data : Word]
    /\ regs \in [Reg -> Word]

DataMemTypes ==
    /\ memory \in Memories
    /\ state \in {"sIdle", "sRead", "sWrite", "sWait"}
    /\ counter \in 0 .. memLatency - 1
    /\ dataReg \in Word
    /\ latch \in Latches

\* Every register of the design holds a value of its width, and counter never
\* passes the value that ends a request (Reg_*.scala, DataMem.scala).
TypeOK == StageTypes /\ DataMemTypes

\* Every stage holds the word at its own pc or a bubble; an instruction in EXE
\* is directly followed, in ID and then in IF, by the words behind it, and one
\* in MEM by the word behind it or a bubble.  Controller.scala:114 relies on
\* it: it finds out whether the fetched path is the wrong one by comparing the
\* target with the pc in ID, which says nothing if ID holds a bubble.
InOrder ==
    /\ Full(stage_ID.inst) =>
          stage_ID.inst = InstMem(prog, stage_ID.pc) /\ stage_IF = PcPlus4(stage_ID.pc)
    /\ Full(stage_EXE.inst) =>
          /\ stage_EXE.inst = InstMem(prog, stage_EXE.pc)
          /\ Full(stage_ID.inst) /\ stage_ID.pc = PcPlus4(stage_EXE.pc)
    /\ Full(stage_MEM.inst) =>
          /\ stage_MEM.inst = InstMem(prog, stage_MEM.pc)
          /\ Full(stage_EXE.inst) => stage_EXE.pc = PcPlus4(stage_MEM.pc)

\* The operands an instruction carries in EXE are the values the sequential
\* machine reads: the stalls of Controller.scala:343-362 leave no window in
\* which a result still in EXE, MEM or WB is missed (there is no forwarding).
FreshOperands ==
    ~AbsHalted =>
        /\ is_D_use_rs1(stage_EXE.inst) => stage_EXE.rs1 = AbsRegs[stage_EXE.inst.rs1]
        /\ is_D_use_rs2(stage_EXE.inst) => stage_EXE.rs2 = AbsRegs[stage_EXE.inst.rs2]

\* MEM and the data memory agree on the request under way: the memory serves
\* the request MEM still holds, and when Valid rises the loaded word is the one
\* at MEM's address and the store has been made (DataMem.scala:28-124 against
\* Controller.scala:199-201, 356).
Handshake ==
    LET i == stage_MEM.inst
    IN  /\ state = "sIdle" => counter = 0
        /\ state = "sRead" =>
              /\ i.op = "LOAD" /\ counter = 1
              /\ latch.readAddr = MEM_Addr /\ latch.length = i.funct
        /\ state = "sWrite" =>
              /\ i.op = "STORE" /\ counter = 1
              /\ latch.writeAddr = MEM_Addr /\ latch.length = i.funct
              /\ latch.writeData = stage_MEM.DM_wdata
        /\ state = "sWait" =>
              /\ IsMemOp(i) /\ counter >= 2
              /\ i.op = "LOAD" => dataReg = MEM_Loaded
              /\ i.op = "STORE" => memory = MEM_Stored
-----------------------------------------------------------------------------
(* Step and liveness properties. *)

\* Once an HCF reaches WB it stays there, and neither the registers nor the
\* data memory change again, although the clock and DataMem keep running.
HaltIsFinal == [][Hcf => Hcf' /\ UNCHANGED <<regs, memory>>]_vars

\* An instruction of the program takes effect in this cycle, or none is left.
Retires == AbsHalted \/ (Full(stage_EXE.inst) /\ (Flush_BH \/ ~Stall_MA))

\* Stalls and flushes never lock the pipeline up: it keeps retiring
\* instructions until the program halts.
KeepsRetiring == []<>Retires

\* An HCF that is next in program order raises io.Hcf, whatever the stages in
\* front of it are waiting for.
HcfIsRaised == (InstMem(prog, AbsPc).op = "HCF" /\ ~AbsHalted) ~> Hcf
=============================================================================
