---------------------------- MODULE SimTopProofs ----------------------------
(***************************************************************************)
(* Theorems about the simulator, for every value of the constants.         *)
(***************************************************************************)
EXTENDS SimTopProps, RiscvLemmas, SequenceTheorems

-----------------------------------------------------------------------------
(* Type correctness. *)

CpuTypes == prog \in Programs /\ pc \in Word /\ rf \in [Reg -> Word] /\ mem \in Memories

\* What is fetched inside imem is an instruction of the program.
LEMMA FetchedType ==
    ASSUME CpuTypes, pc < ImemSize
    PROVE  Slot \in Addr /\ Fetched \in Inst
<1>1. pc \in Nat /\ ImemSize <= AddrSize /\ AddrSize \in Nat
  BY WordSizeType, ProgramAssumption, SizeAssumption DEF CpuTypes, Word
<1>2. pc - (pc % 4) \in 0 .. pc
  BY <1>1
<1>3. Slot \in Addr
  BY <1>1, <1>2, ProgramAssumption DEF Slot, Addr
<1>. QED
  BY <1>3, ProgramAssumption DEF Fetched, CpuTypes

\* The fields of an instruction.
LEMMA FieldTypes ==
    ASSUME NEW i \in Inst
    PROVE  /\ i.rd \in Reg /\ i.rs1 \in Reg /\ i.rs2 \in Reg /\ i.imm \in Word
           /\ i.op \in {"OP", "OP_IMM"} => i.funct \in AluOps
BY DEF Inst

\* Sums of integers are words.
LEMMA AddType == \A a, b \in Int : Add(a, b) \in Word
BY WordSizeType, ModRange DEF Add, Word

\* Words are integers.
LEMMA WordInt == Word \subseteq Int /\ 0 \in Word /\ 4 \in Int
BY WordSizeType DEF Word

\* An instruction leaves words in the registers, the pc and the memory.
LEMMA ExecuteTypes ==
    ASSUME CpuTypes, NEW i \in Inst
    PROVE  NextRf(i) \in [Reg -> Word] /\ NextPc(i) \in Word /\ NextMem(i) \in Memories
<1>. USE DEF CpuTypes
<1>1. /\ rf[i.rs1] \in Word /\ rf[i.rs2] \in Word /\ i.imm \in Word /\ i.rd \in Reg
      /\ rf[i.rs1] \in Int /\ rf[i.rs2] \in Int /\ i.imm \in Int /\ pc \in Int
  BY FieldTypes, WordInt
<1>2. DataAddr(i) \in Word /\ DataAddr(i) \in Int
  BY <1>1, AddType, WordInt DEF DataAddr
<1>3. i.op \in {"OP", "OP_IMM"} => Computed(i) \in Word
  <2>1. \A a, b \in Word : Add(a, b) \in Word
    BY AddType, WordInt
  <2>. QED
    BY <1>1, <2>1, FieldTypes, ALUAssumption DEF Computed
<1>4. memRead(i) \in Word
  BY <1>2, ReadLanesType DEF memRead, memReadReqHandler, MemReadReqPacket
<1>5. memWrite(i) \in Memories
  BY <1>1, <1>2, WriteLanesType DEF memWrite, memWriteReqHandler, MemWriteReqPacket
<1>6. Add(pc, 4) \in Word /\ Add(pc, i.imm) \in Word
  BY <1>1, AddType, WordInt
<1>7. NextRf(i) \in [Reg -> Word]
  BY <1>1, <1>3, <1>4, <1>6 DEF NextRf
<1>8. Slot \in Int
  BY <1>1 DEF Slot
<1>9. NextPc(i) \in Word
  <2>1. Target(i) \in Word
    BY <1>1, <1>8, AddType DEF Target
  <2>2. NextRf(i)[i.rs1] \in Int
    BY <1>7, FieldTypes, WordInt
  <2>3. Add(NextRf(i)[i.rs1], i.imm) \in Word
    BY <1>1, <2>2, AddType
  <2>. QED
    BY <1>6, <2>1, <2>3 DEF NextPc
<1>. QED
  BY <1>5, <1>7, <1>9 DEF NextMem

\* What the SOC may acquire is an object.
LEMMA AcquirableType == free \subseteq Id => Acquirable \subseteq Id
BY DEF Acquirable

\* A step keeps the types.
LEMMA TypeStep ==
    ASSUME TypeOK, [Next]_vars, prEXE2WB.out # None => packet[prEXE2WB.out] # None
    PROVE  TypeOK'
<1>. USE DEF TypeOK
<1>1. CASE SOCStep
  <2>1. CASE InRange(Fetched)
    <3>1. PICK id \in Acquirable :
             /\ free' = free \ {id}
             /\ packet' = [packet EXCEPT ![id] = renew(Fetched)]
             /\ processInstr(Fetched)
             /\ commitInstr(Fetched, id)
             /\ UNCHANGED <<prog, soc_s, aborted>>
      BY <1>1, <2>1 DEF SOCStep, execOneInstr
    <3>2. id \in Id
      BY AcquirableType
    <3>3. Fetched \in Inst
      BY <2>1, FetchedType DEF CpuTypes, InRange
    <3>4. prog' \in Programs /\ pc' \in Word /\ rf' \in [Reg -> Word] /\ mem' \in Memories
      BY <3>1, <3>3, ExecuteTypes DEF CpuTypes, processInstr
    <3>5. renew(Fetched) \in Packet
      BY <3>3 DEF renew, Packet, IsTakenBranch
    <3>6. packet' \in [Id -> {None} \cup Packet] /\ free' \subseteq Id
      BY <3>1, <3>2, <3>5
    <3>7. /\ {pendingInstPacket', sIF_m', soc_s'} \subseteq Id \cup {None}
          /\ wakeNext' \subseteq {"SOC", "IF"}
      BY <3>1, <3>2 DEF commitInstr
    <3>. QED
      BY <1>1, <3>1, <3>4, <3>6, <3>7 DEF SOCStep, ifVars
  <2>2. CASE ~InRange(Fetched)
    BY <1>1, <2>2 DEF SOCStep, Abort, cpuVars, portVars, ifVars
  <2>. QED
    BY <2>1, <2>2
<1>2. CASE IFStep
  <2>1. Pushed(prIF2EXE, soc_s) \in PipeRegister
    BY DEF Pushed, PipeRegister
  <2>. QED
    BY <1>2, <2>1 DEF IFStep, Stall, instPacketHandler, cpuVars, ifVars
<1>3. CASE EXEStep
  <2>1. Popped(prIF2EXE) \in PipeRegister /\ Pushed(prEXE2WB, prIF2EXE.out) \in PipeRegister
    BY DEF Pushed, Popped, PipeRegister
  <2>. QED
    BY <1>3, <2>1 DEF EXEStep, cpuVars, portVars, ifVars
<1>4. CASE WBStep
  <2>1. Popped(prEXE2WB) \in PipeRegister /\ prEXE2WB.out \in Id \cup {None}
    BY DEF Popped, PipeRegister
  <2>2. retired' \in {Nothing} \cup [id : Id, was : Packet] /\ free' \subseteq Id
    BY <1>4, <2>1 DEF WBStep
  <2>. QED
    BY <1>4, <2>1, <2>2 DEF WBStep, cpuVars, portVars, ifVars
<1>5. CASE Sync
  <2>1. sync(prIF2EXE) \in PipeRegister /\ sync(prEXE2WB) \in PipeRegister
    BY DEF sync, PipeRegister
  <2>. QED
    BY <1>5, <2>1 DEF Sync, cpuVars, ifVars
<1>6. CASE UNCHANGED vars
  BY <1>6 DEF vars, simVars, cpuVars, portVars, ifVars
<1>. QED
  BY <1>1, <1>2, <1>3, <1>4, <1>5, <1>6 DEF Next

\* The start has the types.
LEMMA TypeInit == Init => TypeOK
<1>. SUFFICES ASSUME Init PROVE TypeOK
  OBVIOUS
<1>1. prog \in Programs /\ pc \in Word /\ rf \in [Reg -> Word] /\ mem \in Memories
  BY WordInt, ProgramAssumption DEF Init, SimCpuInit
<1>2. prIF2EXE \in PipeRegister /\ prEXE2WB \in PipeRegister
  BY DEF Init, Empty, PipeRegister
<1>. QED
  BY <1>1, <1>2 DEF Init, TypeOK

\* Registers, memory and packets hold values of their types, and no place ever
\* names anything but a packet object (InstPacket.hh, SOCTop.hh).

-----------------------------------------------------------------------------
(* The places a packet goes through. *)

\* What pushing, popping and the end of a tick do to a pipe register.
LEMMA PipeRegisterOps ==
    ASSUME NEW pr \in PipeRegister, NEW id \in Id \cup {None}
    PROVE  /\ Pushed(pr, id).in = (IF pr.in = None THEN id ELSE pr.in)
           /\ Pushed(pr, id).out = pr.out
           /\ Popped(pr).in = pr.in /\ Popped(pr).out = None
           /\ sync(pr).in = (IF pr.out = None THEN None ELSE pr.in)
           /\ sync(pr).out = (IF pr.out = None THEN pr.in ELSE pr.out)
BY DEF PipeRegister, Pushed, Popped, sync

Held == {prEXE2WB.out, prEXE2WB.in, prIF2EXE.out, prIF2EXE.in, soc_s, sIF_m,
         pendingInstPacket} \ {None}

\* No two of the names are the same, empty places aside.
Apart(a, b, c, d, e, f, g) ==
    /\ a # None => a \notin {b, c, d, e, f, g}
    /\ b # None => b \notin {c, d, e, f, g}
    /\ c # None => c \notin {d, e, f, g}
    /\ d # None => d \notin {e, f, g}
    /\ e # None => e \notin {f, g}
    /\ f # None => f # g

\* OneHolder and NoneLost, place by place.
Separate == Apart(prEXE2WB.out, prEXE2WB.in, prIF2EXE.out, prIF2EXE.in, soc_s, sIF_m,
                  pendingInstPacket)
Kept ==
    /\ \A id \in Held : id \notin free /\ packet[id] # None
    /\ \A id \in free : packet[id] # None
Found == \A id \in Id : packet[id] # None => id \in free \cup Held

LEMMA PlacesUnfold == (OneHolder <=> Separate /\ Kept) /\ (NoneLost <=> Found)
<1>1. DOMAIN Places = 1 .. 7
  BY DEF Places
<1>2. /\ Places[1] = prEXE2WB.out /\ Places[2] = prEXE2WB.in
      /\ Places[3] = prIF2EXE.out /\ Places[4] = prIF2EXE.in
      /\ Places[5] = soc_s /\ Places[6] = sIF_m /\ Places[7] = pendingInstPacket
  BY DEF Places
<1>3. \A k : k \in 1 .. 7 <=> k \in {1, 2, 3, 4, 5, 6, 7}
  OBVIOUS
<1>. HIDE DEF Places
<1>4. (\A j, k \in {x \in DOMAIN Places : Places[x] # None} : Places[j] = Places[k] => j = k)
         <=> Separate
  BY <1>1, <1>2, <1>3 DEF Separate, Apart
<1>5. (\A k \in {x \in DOMAIN Places : Places[x] # None} :
            Places[k] \notin free /\ packet[Places[k]] # None)
         <=> \A id \in Held : id \notin free /\ packet[id] # None
  BY <1>1, <1>2, <1>3 DEF Held
<1>6. OneHolder <=> Separate /\ Kept
  BY <1>4, <1>5 DEF OneHolder, Kept
<1>7. ASSUME NEW id \in Id
      PROVE  (\E k \in DOMAIN Places : Places[k] = id) <=> id \in Held
  BY <1>1, <1>2, <1>3, PacketAssumption DEF Held
<1>8. NoneLost <=> Found
  BY <1>7 DEF NoneLost, Found
<1>. QED
  BY <1>6, <1>8

-----------------------------------------------------------------------------
(* No packet is in two hands, none is lost, and nothing sleeps over one. *)

Schedule ==
    /\ NothingSleeps
    /\ retired # Nothing => "WB" \notin toStep
    /\ "SOC" \in wakeNext => "SOC" \notin toStep

PlacesInv == TypeOK /\ Separate /\ Kept /\ Found /\ Schedule

\* A new packet is in nobody's hands, and IFStage does not look at it any more.
LEMMA AcquirableFresh ==
    ASSUME TypeOK, Separate, Kept, NEW id \in Acquirable
    PROVE  id \in Id /\ id \notin Held
<1>1. id \in free \/ (id \in Id /\ packet[id] = None)
  BY DEF Acquirable
<1>. QED
  BY <1>1 DEF TypeOK, Kept

\* The packet in hand by the end of commitInstr is the new one.
LEMMA CommitMoves ==
    ASSUME PlacesInv, NEW i, NEW id \in Id, "SOC" \in toStep, commitInstr(i, id)
    PROVE  /\ pendingInstPacket = None
           /\ \/ sIF_m = None /\ sIF_m' = id /\ pendingInstPacket' = None
                 /\ wakeNext' = IF i.op = "HCF" THEN wakeNext ELSE wakeNext \cup {"SOC"}
              \/ sIF_m # None /\ sIF_m' = sIF_m /\ pendingInstPacket' = id /\ wakeNext' = wakeNext
BY DEF commitInstr, PlacesInv, Schedule, NothingSleeps

LEMMA SOCStepPlaces ==
    ASSUME PlacesInv, SOCStep
    PROVE  Separate' /\ Kept' /\ Found' /\ Schedule'
<1>. USE DEF PlacesInv
<1>1. CASE InRange(Fetched)
  <2>1. PICK id \in Acquirable :
           /\ free' = free \ {id}
           /\ packet' = [packet EXCEPT ![id] = renew(Fetched)]
           /\ commitInstr(Fetched, id)
           /\ UNCHANGED <<prog, soc_s, aborted>>
    BY <1>1 DEF SOCStep, execOneInstr
  <2>2. id \in Id /\ id \notin Held /\ id # None
    BY AcquirableFresh, PacketAssumption
  <2>3. renew(Fetched) # None
    <3>1. Fetched \in Inst /\ pc \in Word
      BY <1>1, FetchedType DEF TypeOK, CpuTypes, InRange
    <3>2. renew(Fetched) \in Packet
      BY <3>1 DEF renew, Packet, IsTakenBranch
    <3>. QED
      BY <3>2, PacketAssumption
  <2>4. packet'[id] = renew(Fetched) /\ \A j \in Id : j # id => packet'[j] = packet[j]
    BY <2>1, <2>2 DEF TypeOK
  <2>5. /\ UNCHANGED <<prIF2EXE, prEXE2WB, soc_s, retired>>
        /\ "SOC" \in toStep /\ toStep' = toStep \ {"SOC"}
    BY <2>1 DEF SOCStep
  <2>6. /\ pendingInstPacket = None
        /\ \/ sIF_m = None /\ sIF_m' = id /\ pendingInstPacket' = None
              /\ wakeNext' \subseteq wakeNext \cup {"SOC"} /\ wakeNext \subseteq wakeNext'
           \/ sIF_m # None /\ sIF_m' = sIF_m /\ pendingInstPacket' = id /\ wakeNext' = wakeNext
    BY <2>1, <2>2, <2>5, CommitMoves
  <2>7. Held' = Held \cup {id}
    BY <2>2, <2>5, <2>6 DEF Held
  <2>8. Held \subseteq Id /\ free \subseteq Id
    BY DEF Held, TypeOK, PipeRegister
  <2>9. Kept'
    BY <2>1, <2>2, <2>3, <2>4, <2>7, <2>8 DEF Kept
  <2>10. Found'
    BY <2>1, <2>2, <2>4, <2>7 DEF Found
  <2>11. Separate'
    BY <2>2, <2>5, <2>6 DEF Separate, Apart, Held
  <2>12. Schedule'
    BY <2>2, <2>5, <2>6 DEF Schedule, NothingSleeps
  <2>. QED
    BY <2>9, <2>10, <2>11, <2>12
<1>2. CASE ~InRange(Fetched)
  <2>1. /\ UNCHANGED <<packet, free, prIF2EXE, prEXE2WB, soc_s, sIF_m, pendingInstPacket,
                       retired, wakeNext>>
        /\ toStep' = toStep \ {"SOC"}
    BY <1>2 DEF SOCStep, Abort, portVars
  <2>2. Separate' /\ Kept' /\ Found'
    BY <2>1 DEF Separate, Kept, Found, Held
  <2>3. Schedule'
    BY <2>1 DEF Schedule, NothingSleeps
  <2>. QED
    BY <2>2, <2>3
<1>. QED
  BY <1>1, <1>2

LEMMA IFStepPlaces ==
    ASSUME PlacesInv, IFStep
    PROVE  Separate' /\ Kept' /\ Found' /\ Schedule'
<1>. USE DEF PlacesInv
<1>1. /\ UNCHANGED <<packet, free, pendingInstPacket, sIF_m, prEXE2WB, retired>>
      /\ "IF" \in toStep /\ toStep' = toStep \ {"IF"}
  BY DEF IFStep
<1>2. CASE soc_s' = soc_s /\ prIF2EXE' = prIF2EXE
  <2>1. Held' = Held
    BY <1>1, <1>2 DEF Held
  <2>2. Separate' /\ Kept' /\ Found'
    BY <1>1, <1>2, <2>1 DEF Separate, Kept, Found
  <2>3. /\ wakeNext \subseteq wakeNext' /\ wakeNext' \subseteq wakeNext \cup {"IF"}
        /\ soc_s # None => "IF" \in wakeNext'
    BY <1>2 DEF IFStep, Stall, instPacketHandler
  <2>4. Schedule'
    BY <1>1, <1>2, <2>3 DEF Schedule, NothingSleeps
  <2>. QED
    BY <2>2, <2>4
<1>3. CASE soc_s # None /\ instPacketHandler
  <2>1. /\ soc_s' = None /\ prIF2EXE'.in = soc_s /\ prIF2EXE'.out = prIF2EXE.out
        /\ prIF2EXE.in = None /\ wakeNext' = wakeNext
    BY <1>1, <1>3, PipeRegisterOps DEF instPacketHandler, TypeOK, Schedule, NothingSleeps
  <2>2. Held' = Held
    BY <1>1, <2>1 DEF Held
  <2>3. Separate'
    BY <1>1, <2>1 DEF Separate, Apart
  <2>4. Kept' /\ Found'
    BY <1>1, <2>2 DEF Kept, Found
  <2>5. Schedule'
    BY <1>1, <2>1 DEF Schedule, NothingSleeps
  <2>. QED
    BY <2>3, <2>4, <2>5
<1>. QED
  BY <1>2, <1>3 DEF IFStep, Stall

LEMMA EXEStepPlaces ==
    ASSUME PlacesInv, EXEStep
    PROVE  Separate' /\ Kept' /\ Found' /\ Schedule'
<1>. USE DEF PlacesInv
<1>1. /\ UNCHANGED <<packet, free, pendingInstPacket, sIF_m, soc_s, retired, wakeNext>>
      /\ "EXE" \in toStep /\ toStep' = toStep \ {"EXE"}
  BY DEF EXEStep, portVars
<1>2. prEXE2WB.in = None
  BY <1>1 DEF Schedule, NothingSleeps
<1>3. CASE prIF2EXE.out # None
  <2>1. /\ prIF2EXE'.in = prIF2EXE.in /\ prIF2EXE'.out = None
        /\ prEXE2WB'.in = prIF2EXE.out /\ prEXE2WB'.out = prEXE2WB.out
    <3>1. prIF2EXE.out \in Id \cup {None}
      BY DEF TypeOK, PipeRegister
    <3>. QED
      BY <1>2, <1>3, <3>1, PipeRegisterOps DEF EXEStep, TypeOK
  <2>2. Held' = Held
    BY <1>1, <1>2, <2>1 DEF Held
  <2>3. Separate'
    BY <1>1, <1>2, <2>1 DEF Separate, Apart
  <2>4. Kept' /\ Found'
    BY <1>1, <2>2 DEF Kept, Found
  <2>5. Schedule'
    BY <1>1, <2>1 DEF Schedule, NothingSleeps
  <2>. QED
    BY <2>3, <2>4, <2>5
<1>4. CASE prIF2EXE.out = None
  <2>1. UNCHANGED <<prIF2EXE, prEXE2WB>>
    BY <1>4 DEF EXEStep
  <2>2. Held' = Held
    BY <1>1, <2>1 DEF Held
  <2>3. Separate' /\ Kept' /\ Found'
    BY <1>1, <2>1, <2>2 DEF Separate, Kept, Found
  <2>4. Schedule'
    BY <1>1, <1>4, <2>1 DEF Schedule, NothingSleeps
  <2>. QED
    BY <2>3, <2>4
<1>. QED
  BY <1>3, <1>4

LEMMA WBStepPlaces ==
    ASSUME PlacesInv, WBStep
    PROVE  Separate' /\ Kept' /\ Found' /\ Schedule'
<1>. USE DEF PlacesInv
<1>1. /\ UNCHANGED <<packet, pendingInstPacket, sIF_m, soc_s, prIF2EXE, wakeNext>>
      /\ "WB" \in toStep /\ toStep' = toStep \ {"WB"}
  BY DEF WBStep, portVars
<1>2. CASE prEXE2WB.out # None
  <2>1. /\ prEXE2WB'.in = prEXE2WB.in /\ prEXE2WB'.out = None
        /\ free' = free \cup {prEXE2WB.out}
    BY <1>2, PipeRegisterOps DEF WBStep, TypeOK
  <2>2. Held' = Held \ {prEXE2WB.out} /\ prEXE2WB.out \in Held
    BY <1>1, <1>2, <2>1 DEF Held, Separate, Apart
  <2>3. Separate'
    BY <1>1, <2>1 DEF Separate, Apart
  <2>4. Kept' /\ Found'
    BY <1>1, <2>1, <2>2 DEF Kept, Found
  <2>5. Schedule'
    BY <1>1, <2>1 DEF Schedule, NothingSleeps
  <2>. QED
    BY <2>3, <2>4, <2>5
<1>3. CASE prEXE2WB.out = None
  <2>1. UNCHANGED <<prEXE2WB, free, retired>>
    BY <1>3 DEF WBStep
  <2>2. Held' = Held
    BY <1>1, <2>1 DEF Held
  <2>3. Separate' /\ Kept' /\ Found'
    BY <1>1, <2>1, <2>2 DEF Separate, Kept, Found
  <2>4. Schedule'
    BY <1>1, <1>3, <2>1 DEF Schedule, NothingSleeps
  <2>. QED
    BY <2>3, <2>4
<1>. QED
  BY <1>2, <1>3

\* What the end of a tick moves: every stage has passed on what it had.
LEMMA SyncMoves ==
    ASSUME PlacesInv, Sync
    PROVE  /\ toStep = {} /\ wakeNext' = {} /\ retired' = Nothing
           /\ prEXE2WB.out = None /\ prEXE2WB'.out = prEXE2WB.in /\ prEXE2WB'.in = None
           /\ prIF2EXE.out = None /\ prIF2EXE'.out = prIF2EXE.in /\ prIF2EXE'.in = None
           /\ \/ PortMoves /\ soc_s = None /\ soc_s' = sIF_m /\ sIF_m' = pendingInstPacket
                 /\ pendingInstPacket' = None
              \/ ~PortMoves /\ UNCHANGED portVars
           /\ UNCHANGED <<packet, free>>
           /\ wakeNext \subseteq toStep'
           /\ PortMoves => "IF" \in toStep'
           /\ prIF2EXE.in # None => "EXE" \in toStep'
           /\ prEXE2WB.in # None => "WB" \in toStep'
           /\ "SOC" \in toStep' =>
                "SOC" \in wakeNext \/ (PortMoves /\ pendingInstPacket # None)
           /\ (PortMoves /\ pendingInstPacket # None
                 /\ packet[pendingInstPacket].inst.op # "HCF") => "SOC" \in toStep'
           /\ "SOC" \in toStep' \ wakeNext => packet[pendingInstPacket].inst.op # "HCF"
<1>. USE DEF PlacesInv
<1>1. /\ toStep = {} /\ wakeNext' = {} /\ retired' = Nothing
      /\ prIF2EXE' = sync(prIF2EXE) /\ prEXE2WB' = sync(prEXE2WB)
      /\ UNCHANGED <<packet, free>>
  BY DEF Sync
<1>2. prEXE2WB.out = None /\ prIF2EXE.out = None
  BY <1>1 DEF Schedule, NothingSleeps
<1>3. /\ prEXE2WB'.out = prEXE2WB.in /\ prEXE2WB'.in = None
      /\ prIF2EXE'.out = prIF2EXE.in /\ prIF2EXE'.in = None
  BY <1>1, <1>2, PipeRegisterOps DEF TypeOK
<1>4. \/ PortMoves /\ soc_s = None /\ soc_s' = sIF_m /\ sIF_m' = pendingInstPacket
         /\ pendingInstPacket' = None
      \/ ~PortMoves /\ UNCHANGED portVars
  <2>1. CASE PortMoves
    BY <2>1 DEF Sync, retrySendInstPacket, PortMoves
  <2>2. CASE ~PortMoves
    BY <2>2 DEF Sync, retrySendInstPacket, portVars
  <2>. QED
    BY <2>1, <2>2
<1>5. toStep' = wakeNext
                  \cup {s \in {"SOC"} : /\ retrySendInstPacket
                                        /\ packet[pendingInstPacket].inst.op # "HCF"}
                  \cup {s \in {"IF"}  : PortMoves}
                  \cup {s \in {"EXE"} : prIF2EXE'.out # None}
                  \cup {s \in {"WB"}  : prEXE2WB'.out # None}
  BY DEF Sync
<1>. QED
  BY <1>1, <1>2, <1>3, <1>4, <1>5 DEF retrySendInstPacket

LEMMA SyncPlaces ==
    ASSUME PlacesInv, Sync
    PROVE  Separate' /\ Kept' /\ Found' /\ Schedule'
<1>. USE DEF PlacesInv
<1>1. Held' = Held
  BY SyncMoves DEF Held, PortMoves, portVars
<1>2. Kept' /\ Found'
  BY <1>1, SyncMoves DEF Kept, Found
<1>3. Separate'
  <2>1. CASE PortMoves
    BY <2>1, SyncMoves DEF Separate, Apart
  <2>2. CASE ~PortMoves
    BY <2>2, SyncMoves DEF Separate, Apart, portVars
  <2>. QED
    BY <2>1, <2>2
<1>4. Schedule'
  <2>1. /\ prEXE2WB.out' # None => "WB" \in toStep'
        /\ prIF2EXE.out' # None => "EXE" \in toStep'
        /\ prEXE2WB.in' = None /\ prIF2EXE.in' = None
        /\ retired' = Nothing /\ wakeNext' = {}
    BY SyncMoves
  <2>2. soc_s' # None => "IF" \in toStep'
    BY SyncMoves DEF Schedule, NothingSleeps, portVars
  <2>3. pendingInstPacket' # None => "SOC" \notin toStep' /\ sIF_m' # None
    BY SyncMoves DEF Schedule, NothingSleeps, portVars
  <2>. QED
    BY <2>1, <2>2, <2>3 DEF Schedule, NothingSleeps
<1>. QED
  BY <1>2, <1>3, <1>4

LEMMA PlacesStep == PlacesInv /\ [Next]_vars => PlacesInv'
<1>. SUFFICES ASSUME PlacesInv, [Next]_vars PROVE PlacesInv'
  OBVIOUS
<1>1. TypeOK'
  <2>1. prEXE2WB.out # None => packet[prEXE2WB.out] # None
    BY DEF PlacesInv, Kept, Held
  <2>. QED
    BY <2>1, TypeStep DEF PlacesInv
<1>2. CASE UNCHANGED vars
  BY <1>1, <1>2
  DEF PlacesInv, vars, simVars, portVars, Separate, Kept, Held, Found, Schedule, NothingSleeps
<1>3. CASE Next
  BY <1>1, <1>3, SOCStepPlaces, IFStepPlaces, EXEStepPlaces, WBStepPlaces, SyncPlaces
  DEF Next, PlacesInv
<1>. QED
  BY <1>2, <1>3

LEMMA PlacesInit == Init => PlacesInv
<1>. SUFFICES ASSUME Init PROVE PlacesInv
  OBVIOUS
<1>1. /\ prEXE2WB.out = None /\ prEXE2WB.in = None
      /\ prIF2EXE.out = None /\ prIF2EXE.in = None
      /\ soc_s = None /\ sIF_m = None /\ pendingInstPacket = None
      /\ free = {} /\ \A id \in Id : packet[id] = None
  BY DEF Init, Empty
<1>2. Separate /\ Kept /\ Found
  BY <1>1 DEF Separate, Apart, Kept, Held, Found
<1>3. Schedule
  BY <1>1 DEF Init, Schedule, NothingSleeps
<1>. QED
  BY <1>2, <1>3, TypeInit DEF PlacesInv

\* Registers, memory and packets hold values of their types, and every place
\* names a packet object or nothing (InstPacket.hh, SOCTop.hh).
THEOREM SimTypeCorrect == Spec => []TypeOK
<1>1. PlacesInv => TypeOK
  BY DEF PlacesInv
<1>. QED
  BY <1>1, PlacesInit, PlacesStep, PTL DEF Spec

\* However the simulators take turns, a packet is never in two hands: the one
\* WB recycles, and the SOC fills again, is in nobody else's (WBStage.hh:46).
THEOREM OneHolderEach == Spec => []OneHolder
<1>1. PlacesInv => OneHolder
  BY PlacesUnfold DEF PlacesInv
<1>. QED
  BY <1>1, PlacesInit, PlacesStep, PTL DEF Spec

\* No packet is ever lost (CPU.cc:139-169, 171-195).
THEOREM NoPacketLost == Spec => []NoneLost
<1>1. PlacesInv => NoneLost
  BY PlacesUnfold DEF PlacesInv
<1>. QED
  BY <1>1, PlacesInit, PlacesStep, PTL DEF Spec

\* Whoever holds a packet that can move on is due or has asked for the next
\* tick (IFStage.cc:105, CPU.cc:158-166, SOC.cc:69-71).
THEOREM NoSleeper == Spec => []NothingSleeps
<1>1. PlacesInv => NothingSleeps
  BY DEF PlacesInv, Schedule
<1>. QED
  BY <1>1, PlacesInit, PlacesStep, PTL DEF Spec

-----------------------------------------------------------------------------
(* There is room ahead of every stage, and a packet to be had. *)

\* When the SOC is due, four objects at most are in other hands: one in WB or
\* just out of it, one in EXE, one in IF and one in the port.
LEMMA PacketToBeHad ==
    ASSUME PlacesInv, "SOC" \in toStep
    PROVE  Acquirable # {}
<1>. USE DEF PlacesInv
<1>1. retired = Nothing \/ (retired.id \in Id /\ prEXE2WB.out = None)
  BY DEF TypeOK, Schedule, NothingSleeps
<1>2. /\ prEXE2WB.in # None => prIF2EXE.out = None
      /\ prIF2EXE.in # None => soc_s = None
      /\ pendingInstPacket = None
  BY DEF Schedule, NothingSleeps
<1>. DEFINE a == IF prEXE2WB.out # None THEN prEXE2WB.out ELSE retired.id
            b == IF prEXE2WB.in # None THEN prEXE2WB.in ELSE prIF2EXE.out
            c == IF prIF2EXE.in # None THEN prIF2EXE.in ELSE soc_s
<1>3. Held \cup ({retired.id} \ {None}) \subseteq {a, b, c, sIF_m}
  BY <1>1, <1>2 DEF Held, Nothing
<1>4. {a, b, c, sIF_m} \subseteq Id \cup {None}
  BY <1>1 DEF TypeOK, PipeRegister, Nothing
<1>5. PICK id \in Id : id \notin {a, b, c, sIF_m}
  <2>1. a \in Id \cup {None} /\ b \in Id \cup {None} /\ c \in Id \cup {None}
        /\ sIF_m \in Id \cup {None}
    BY <1>4
  <2>. HIDE DEF a, b, c
  <2>2. Id \ {a, b, c, sIF_m} # {}
    BY <2>1, PoolAssumption
  <2>. QED
    BY <2>2
<1>6. id # retired.id /\ id \notin Held
  BY <1>3, <1>5, PacketAssumption
<1>7. id \in free \ {retired.id} \/ packet[id] = None
  BY <1>6 DEF Found
<1>. QED
  BY <1>7 DEF Acquirable

\* IFStage and EXEStage find the pipe register they push into empty, although
\* IFStage does not ask, and the SOC has a packet and nothing to send again
\* (IFStage.cc:117, EXEStage.cc:53, CPU.cc:139-169).
THEOREM RoomForAll == Spec => []RoomAhead
<1>1. PlacesInv => RoomAhead
  BY PacketToBeHad DEF PlacesInv, Schedule, NothingSleeps, RoomAhead
<1>. QED
  BY <1>1, PlacesInit, PlacesStep, PTL DEF Spec

-----------------------------------------------------------------------------
(* IFStage's own record of what is ahead, and the interlock. *)

Exe == AheadOfIF.exe
Wb  == AheadOfIF.wb

\* The record says what is ahead before IFStage steps, and one stage later
\* afterwards, until the first packet has come and after the last.
RecordInv ==
    /\ (soc_s # None /\ "IF" \in toStep)    => EXEInstPacket = Exe /\ WBInstPacket = Wb
    /\ (soc_s # None /\ "IF" \notin toStep) => EXEInstPacket = None /\ WBInstPacket = Exe
    /\ prIF2EXE.in # None => EXEInstPacket = prIF2EXE.in /\ WBInstPacket = Exe
    /\ (soc_s = None /\ prIF2EXE.in = None) =>
          \/ sIF_m = None /\ "SOC" \notin toStep \cup wakeNext
          \/ EXEInstPacket = None /\ WBInstPacket = None /\ Exe = None /\ Wb = None

\* The packet IFStage has let through needs nothing of the one in EXE, ...
ClearOfEXE ==
    (prIF2EXE.in # None /\ Exe # None) =>
        ~Tabled(packet[Exe].inst, packet[prIF2EXE.in].inst) /\ ~packet[Exe].taken

\* ... nor of the one in WB, or that was there before WB recycled it.
WbWas == IF prEXE2WB.out # None THEN packet[prEXE2WB.out] ELSE retired.was
ClearOfWB ==
    (prIF2EXE.in # None /\ Wb # None) => ~Tabled(WbWas.inst, packet[prIF2EXE.in].inst)

RecordParts == RecordInv /\ ClearOfEXE
InterlockInv == PlacesInv /\ RecordParts

LEMMA AheadUnfold ==
    /\ Exe = IF prIF2EXE.out # None THEN prIF2EXE.out ELSE prEXE2WB.in
    /\ Wb = IF prEXE2WB.out # None THEN prEXE2WB.out ELSE retired.id
BY DEF Exe, Wb, AheadOfIF

\* A step that moves no packet into or out of IF and none past WB, and that
\* overwrites none that is there, keeps all of it.
LEMMA NothingAtIF ==
    ASSUME InterlockInv, PlacesInv',
           UNCHANGED <<soc_s, prIF2EXE.in, ifVars, Exe, Wb>>,
           "IF" \in toStep' <=> "IF" \in toStep,
           "SOC" \notin toStep \cup wakeNext => "SOC" \notin toStep' \cup wakeNext' /\ sIF_m' = sIF_m,
           packet'[Exe] = packet[Exe] \/ Exe = None,
           packet'[prIF2EXE.in] = packet[prIF2EXE.in] \/ prIF2EXE.in = None,
           WbWas' = WbWas \/ Wb = None
    PROVE  RecordParts' /\ (ClearOfWB => ClearOfWB')
<1>1. RecordInv'
  BY DEF InterlockInv, RecordParts, RecordInv, ifVars
<1>2. ClearOfEXE'
  BY DEF InterlockInv, RecordParts, ClearOfEXE
<1>3. ClearOfWB => ClearOfWB'
  BY DEF ClearOfWB
<1>. QED
  BY <1>1, <1>2, <1>3 DEF RecordParts

LEMMA RecordSOCStep ==
    ASSUME InterlockInv, PlacesInv', SOCStep
    PROVE  RecordParts' /\ (ClearOfWB => ClearOfWB')
<1>. USE DEF InterlockInv, PlacesInv, RecordParts
<1>1. /\ UNCHANGED <<prIF2EXE, prEXE2WB, ifVars, retired, soc_s>>
      /\ "SOC" \in toStep /\ toStep' = toStep \ {"SOC"}
  BY DEF SOCStep, execOneInstr, Abort, portVars
<1>2. Exe' = Exe /\ Wb' = Wb
  BY <1>1, AheadUnfold DEF Exe, Wb, AheadOfIF
<1>3. \A j \in Held : packet'[j] = packet[j]
  <2>1. CASE InRange(Fetched)
    <3>1. PICK id \in Acquirable : packet' = [packet EXCEPT ![id] = renew(Fetched)]
      BY <2>1 DEF SOCStep, execOneInstr
    <3>2. id \in Id /\ id \notin Held
      BY AcquirableFresh
    <3>. QED
      BY <3>1, <3>2 DEF TypeOK
  <2>2. CASE ~InRange(Fetched)
    BY <2>2 DEF SOCStep, Abort
  <2>. QED
    BY <2>1, <2>2
<1>4. /\ packet'[Exe] = packet[Exe] \/ Exe = None
      /\ packet'[prIF2EXE.in] = packet[prIF2EXE.in] \/ prIF2EXE.in = None
  BY <1>3, AheadUnfold DEF Held
<1>5. WbWas' = WbWas
  BY <1>1, <1>3 DEF Held, WbWas
<1>. QED
  BY <1>1, <1>2, <1>4, <1>5, NothingAtIF

\* IFStage is the one step at which the record's contents matter.
LEMMA RecordIFStep ==
    ASSUME InterlockInv, PlacesInv', IFStep
    PROVE  RecordParts' /\ (ClearOfWB /\ RecordIntact => ClearOfWB')
<1>. USE DEF InterlockInv, PlacesInv, RecordParts
<1>1. /\ UNCHANGED <<packet, free, sIF_m, prEXE2WB, retired>>
      /\ "IF" \in toStep /\ toStep' = toStep \ {"IF"}
  BY DEF IFStep
<1>2. prIF2EXE.in = None
  BY <1>1 DEF Schedule, NothingSleeps
<1>3. CASE soc_s = None
  <2>1. UNCHANGED <<soc_s, prIF2EXE, ifVars, wakeNext>>
    BY <1>3 DEF IFStep
  <2>2. Exe' = Exe /\ Wb' = Wb
    BY <1>1, <2>1 DEF Exe, Wb, AheadOfIF
  <2>3. RecordInv'
    BY <1>1, <1>2, <1>3, <2>1, <2>2 DEF RecordInv, ifVars
  <2>. QED
    BY <1>2, <2>1, <2>3 DEF ClearOfEXE, ClearOfWB
<1>4. CASE soc_s # None /\ Stall
  <2>1. /\ soc_s' = soc_s /\ prIF2EXE' = prIF2EXE
        /\ WBInstPacket' = EXEInstPacket /\ EXEInstPacket' = None
    BY <1>4 DEF Stall
  <2>2. Exe' = Exe
    BY <1>1, <2>1 DEF Exe, AheadOfIF
  <2>3. RecordInv'
    BY <1>1, <1>2, <1>4, <2>1, <2>2 DEF RecordInv
  <2>. QED
    BY <1>2, <2>1, <2>3 DEF ClearOfEXE, ClearOfWB
<1>5. CASE soc_s # None /\ ~dataHazard /\ ~controlHazard /\ instPacketHandler
  <2>1. /\ soc_s' = None /\ prIF2EXE'.in = soc_s /\ prIF2EXE'.out = prIF2EXE.out
        /\ WBInstPacket' = EXEInstPacket /\ EXEInstPacket' = soc_s
    BY <1>2, <1>5, PipeRegisterOps DEF instPacketHandler, TypeOK
  <2>2. Exe' = Exe /\ Wb' = Wb /\ WbWas' = WbWas
    BY <1>1, <2>1 DEF Exe, Wb, WbWas, AheadOfIF
  <2>3. EXEInstPacket = Exe /\ WBInstPacket = Wb
    BY <1>1, <1>5 DEF RecordInv
  <2>4. RecordInv'
    BY <1>5, <2>1, <2>2, <2>3 DEF RecordInv
  <2>5. /\ Exe # None => ~Tabled(packet[Exe].inst, packet[soc_s].inst) /\ ~packet[Exe].taken
        /\ Wb # None => ~Tabled(packet[Wb].inst, packet[soc_s].inst)
    BY <1>5, <2>3 DEF dataHazard, controlHazard, HazardWith, Tabled
  <2>6. ClearOfEXE'
    BY <1>1, <2>1, <2>2, <2>5 DEF ClearOfEXE
  <2>7. ASSUME RecordIntact, Wb # None PROVE WbWas = packet[Wb]
    <3>1. CASE prEXE2WB.out # None
      BY <3>1, AheadUnfold DEF WbWas
    <3>2. CASE prEXE2WB.out = None
      <4>1. WBInstPacket # None /\ WBInstPacket = retired.id
        BY <2>3, <2>7, <3>2, AheadUnfold
      <4>. QED
        BY <1>1, <1>5, <2>3, <2>7, <3>2, <4>1 DEF RecordIntact, WbWas
    <3>. QED
      BY <3>1, <3>2
  <2>8. RecordIntact => ClearOfWB'
    BY <1>1, <2>1, <2>2, <2>5, <2>7 DEF ClearOfWB
  <2>. QED
    BY <2>4, <2>6, <2>8
<1>. QED
  BY <1>3, <1>4, <1>5 DEF IFStep

LEMMA RecordEXEStep ==
    ASSUME InterlockInv, PlacesInv', EXEStep
    PROVE  RecordParts' /\ (ClearOfWB => ClearOfWB')
<1>. USE DEF InterlockInv, PlacesInv, RecordParts
<1>1. /\ UNCHANGED <<packet, free, sIF_m, soc_s, ifVars, wakeNext, retired>>
      /\ "EXE" \in toStep /\ toStep' = toStep \ {"EXE"}
  BY DEF EXEStep, portVars
<1>2. prEXE2WB.in = None
  BY <1>1 DEF Schedule, NothingSleeps
<1>3. /\ prIF2EXE'.in = prIF2EXE.in /\ prEXE2WB'.out = prEXE2WB.out
      /\ prIF2EXE'.out = None /\ prEXE2WB'.in = prIF2EXE.out
  <2>1. prIF2EXE.out \in Id \cup {None}
    BY DEF TypeOK, PipeRegister
  <2>. QED
    BY <1>2, <2>1, PipeRegisterOps DEF EXEStep, TypeOK
<1>4. Exe' = Exe /\ Wb' = Wb /\ WbWas' = WbWas
  BY <1>1, <1>2, <1>3 DEF Exe, Wb, WbWas, AheadOfIF
<1>. QED
  BY <1>1, <1>3, <1>4, NothingAtIF

LEMMA RecordWBStep ==
    ASSUME InterlockInv, PlacesInv', WBStep
    PROVE  RecordParts' /\ (ClearOfWB => ClearOfWB')
<1>. USE DEF InterlockInv, PlacesInv, RecordParts
<1>1. /\ UNCHANGED <<packet, sIF_m, soc_s, prIF2EXE, ifVars, wakeNext>>
      /\ "WB" \in toStep /\ toStep' = toStep \ {"WB"}
  BY DEF WBStep, portVars
<1>2. retired = Nothing
  BY <1>1 DEF Schedule
<1>3. prEXE2WB'.in = prEXE2WB.in /\ prEXE2WB'.out = None /\ retired'.id = prEXE2WB.out
  BY <1>2, PipeRegisterOps DEF WBStep, TypeOK, Nothing
<1>4. Exe' = Exe /\ Wb' = Wb
  BY <1>1, <1>2, <1>3 DEF Exe, Wb, AheadOfIF, Nothing
<1>5. WbWas' = WbWas
  <2>1. CASE prEXE2WB.out # None
    BY <1>3, <2>1 DEF WBStep, WbWas
  <2>2. CASE prEXE2WB.out = None
    BY <1>3, <2>2 DEF WBStep, WbWas
  <2>. QED
    BY <2>1, <2>2
<1>. QED
  BY <1>1, <1>4, <1>5, NothingAtIF

LEMMA RecordSync ==
    ASSUME InterlockInv, PlacesInv', Sync
    PROVE  RecordParts' /\ ClearOfWB'
<1>. USE DEF InterlockInv, PlacesInv, RecordParts
<1>1. UNCHANGED ifVars
  BY DEF Sync
<1>2. Exe = prEXE2WB.in /\ Exe' = prIF2EXE.in /\ Wb' = prEXE2WB.in
  BY SyncMoves DEF Exe, Wb, AheadOfIF, Nothing
<1>3. ClearOfEXE' /\ ClearOfWB'
  BY SyncMoves DEF ClearOfEXE, ClearOfWB
<1>4. CASE soc_s # None
  <2>1. "IF" \in toStep' /\ soc_s' = soc_s
    BY <1>4, SyncMoves DEF Schedule, NothingSleeps, PortMoves, portVars
  <2>2. EXEInstPacket = None /\ WBInstPacket = Exe /\ prIF2EXE.in = None
    BY <1>4, SyncMoves DEF RecordInv, Schedule, NothingSleeps
  <2>3. RecordInv'
    BY <1>1, <1>2, <1>4, <2>1, <2>2, SyncMoves DEF RecordInv, ifVars
  <2>. QED
    BY <1>3, <2>3
<1>5. CASE soc_s = None /\ sIF_m # None
  <2>1. "IF" \in toStep' /\ soc_s' = sIF_m
    BY <1>5, SyncMoves DEF PortMoves
  <2>2. EXEInstPacket = prIF2EXE.in /\ WBInstPacket = Exe
    BY <1>5 DEF RecordInv
  <2>3. RecordInv'
    BY <1>1, <1>2, <1>5, <2>1, <2>2, SyncMoves DEF RecordInv, ifVars
  <2>. QED
    BY <1>3, <2>3
<1>6. CASE soc_s = None /\ sIF_m = None
  <2>1. soc_s' = None /\ sIF_m' = None /\ "SOC" \notin toStep' \cup wakeNext'
    BY <1>6, SyncMoves DEF PortMoves, portVars, Schedule, NothingSleeps
  <2>2. RecordInv'
    BY <1>6, <2>1, SyncMoves DEF RecordInv
  <2>. QED
    BY <1>3, <2>2
<1>. QED
  BY <1>4, <1>5, <1>6

LEMMA InterlockStep ==
    InterlockInv /\ [Next]_vars => InterlockInv' /\ (ClearOfWB /\ RecordIntact => ClearOfWB')
<1>. SUFFICES ASSUME InterlockInv, [Next]_vars
              PROVE  InterlockInv' /\ (ClearOfWB /\ RecordIntact => ClearOfWB')
  OBVIOUS
<1>1. PlacesInv'
  BY PlacesStep DEF InterlockInv
<1>2. CASE UNCHANGED vars
  <2>1. /\ UNCHANGED <<packet, free, soc_s, sIF_m, prIF2EXE, prEXE2WB, ifVars, toStep,
                       wakeNext, retired>>
        /\ Exe' = Exe /\ Wb' = Wb /\ WbWas' = WbWas
    BY <1>2 DEF vars, simVars, portVars, Exe, Wb, WbWas, AheadOfIF
  <2>2. RecordParts' /\ (ClearOfWB => ClearOfWB')
    BY <2>1 DEF InterlockInv, RecordParts, RecordInv, ClearOfEXE, ClearOfWB, ifVars
  <2>. QED
    BY <1>1, <2>2 DEF InterlockInv
<1>3. CASE Next
  <2>1. RecordParts' /\ (ClearOfWB /\ RecordIntact => ClearOfWB')
    BY <1>1, <1>3, RecordSOCStep, RecordIFStep, RecordEXEStep, RecordWBStep, RecordSync
    DEF Next
  <2>. QED
    BY <1>1, <2>1 DEF InterlockInv
<1>. QED
  BY <1>2, <1>3

LEMMA InterlockInit == Init => InterlockInv /\ ClearOfWB
<1>. SUFFICES ASSUME Init PROVE InterlockInv /\ ClearOfWB
  OBVIOUS
<1>1. /\ prIF2EXE.in = None /\ Exe = None /\ Wb = None /\ retired = Nothing
      /\ EXEInstPacket = None /\ WBInstPacket = None /\ soc_s = None
  BY DEF Init, Empty, Nothing, Exe, Wb, AheadOfIF
<1>2. RecordParts /\ ClearOfWB
  BY <1>1 DEF RecordParts, RecordInv, ClearOfEXE, ClearOfWB
<1>. QED
  BY <1>2, PlacesInit DEF InterlockInv

\* At the end of a tick WB and EXE have moved on what they had.
LEMMA AtTheEnd ==
    ASSUME PlacesInv, Entering
    PROVE  /\ Exe = prEXE2WB.in
           /\ retired # Nothing => Wb # None /\ WbWas = retired.was
<1>1. prEXE2WB.out = None /\ prIF2EXE.out = None
  BY DEF Entering, PlacesInv, Schedule, NothingSleeps
<1>2. Exe = prEXE2WB.in /\ Wb = retired.id
  BY <1>1, AheadUnfold
<1>3. retired # Nothing => Wb # None
  BY <1>2, PacketAssumption DEF PlacesInv, TypeOK
<1>. QED
  BY <1>1, <1>2, <1>3 DEF WbWas

LEMMA EXEHalf == InterlockInv => ApartFromEXE
<1>. SUFFICES ASSUME InterlockInv, Entering PROVE ApartFromEXE
  BY DEF ApartFromEXE, KeptFromEXE
<1>. QED
  BY AtTheEnd DEF InterlockInv, RecordParts, ClearOfEXE, ApartFromEXE, KeptFromEXE,
                  Entering, Entered

LEMMA WBHalf == InterlockInv /\ ClearOfWB => KeptFromWB(Tabled)
<1>. SUFFICES ASSUME InterlockInv, ClearOfWB, Entering PROVE KeptFromWB(Tabled)
  BY DEF KeptFromWB
<1>. QED
  BY AtTheEnd DEF InterlockInv, ClearOfWB, KeptFromWB, Entering, Entered

\* However the simulators take turns, and however soon the container hands a
\* packet out again, IFStage's own record names what is in EXE and in WB when
\* IFStage looks at it (IFStage.cc:80-90, 102-103, 118-119).
THEOREM RecordStaysExact == Spec => []RecordIsExact
<1>1. InterlockInv => RecordIsExact
  BY DEF InterlockInv, RecordParts, RecordInv, RecordIsExact, Exe, Wb
<1>. QED
  BY <1>1, InterlockInit, InterlockStep, PTL DEF Spec

\* However the simulators take turns, and however soon the container hands a
\* packet out again, no instruction enters EXE right behind a taken branch or
\* one whose result it needs by the tables of IFStage (IFStage.cc:75-108).
THEOREM NeverRightBehind == Spec => []ApartFromEXE
BY EXEHalf, InterlockInit, InterlockStep, PTL DEF Spec

\* However the simulators take turns, all hazards of the tables are kept apart in
\* a run in which no packet is overwritten in the tick WB recycles it in, before
\* IFStage has looked at it. The premise is needed: early_reuse is a run without
\* (IFStage.cc:75-108, WBStage.hh:46).
THEOREM HazardsKeptApart == Spec => InterlockIfIntact
<1>1. InterlockInv /\ ClearOfWB => Interlock
  BY EXEHalf, WBHalf DEF Interlock
<1>. QED
  BY <1>1, InterlockInit, InterlockStep, PTL DEF Spec, InterlockIfIntact

-----------------------------------------------------------------------------
(* A container that keeps what it gets until the next tick gives the premise. *)

\* What WB has recycled is not filled again before the tick is over.
RetiredKept ==
    retired # Nothing => retired.id \in free /\ packet[retired.id] = retired.was

LEMMA RetiredKeptStep ==
    ASSUME PlacesInv, ~SameTickReuse, RetiredKept, [Next]_vars
    PROVE  RetiredKept'
<1>1. CASE SOCStep
  <2>1. retired' = retired
    BY <1>1 DEF SOCStep
  <2>2. CASE InRange(Fetched)
    <3>1. PICK id \in Acquirable : /\ free' = free \ {id}
                                   /\ packet' = [packet EXCEPT ![id] = renew(Fetched)]
      BY <1>1, <2>2 DEF SOCStep, execOneInstr
    <3>2. retired # Nothing => id # retired.id
      BY DEF Acquirable, RetiredKept, PlacesInv, Kept
    <3>. QED
      BY <2>1, <3>1, <3>2 DEF RetiredKept, PlacesInv, TypeOK
  <2>3. CASE ~InRange(Fetched)
    BY <1>1, <2>1, <2>3 DEF SOCStep, Abort, RetiredKept
  <2>. QED
    BY <2>2, <2>3
<1>2. CASE IFStep \/ EXEStep \/ UNCHANGED vars
  BY <1>2 DEF IFStep, EXEStep, vars, simVars, RetiredKept
<1>3. CASE WBStep
  BY <1>3 DEF WBStep, RetiredKept
<1>4. CASE Sync
  BY <1>4 DEF Sync, RetiredKept
<1>. QED
  BY <1>1, <1>2, <1>3, <1>4 DEF Next

\* The premise of HazardsKeptApart holds of a container that does not hand out a
\* packet in the tick it gets it in (WBStage.hh:46, CPU.cc:46-49). Nothing in the
\* repository says that it is one.
THEOREM IntactIfKeptForATick == Spec /\ ~SameTickReuse => []RecordIntact
<1>. DEFINE KeptInv == ~SameTickReuse /\ RetiredKept
<1>1. PlacesInv /\ KeptInv => RecordIntact
  BY DEF RetiredKept, RecordIntact, Nothing
<1>2. Init /\ ~SameTickReuse => KeptInv
  BY DEF Init, RetiredKept
<1>3. PlacesInv /\ KeptInv /\ [Next]_vars => KeptInv'
  BY RetiredKeptStep
<1>. QED
  BY <1>1, <1>2, <1>3, PlacesInit, PlacesStep, PTL DEF Spec

-----------------------------------------------------------------------------
(* The functional half is the sequential machine. *)

\* Both sides compute with the same words, addresses and byte lanes.
LEMMA SameVocabulary ==
    /\ \A a, b : Sequential!Add(a, b) = Add(a, b)
    /\ \A a : Sequential!Trunc(a) = Trunc(a)
    /\ \A a : Sequential!Wrap(a) = a % WordSize
    /\ Sequential!NextInst = Add(pc, 4)
    /\ \A a, b : Sequential!BrEq(a, b) <=> BrEq(a, b)
    /\ \A u, a, b : Sequential!BrLT(u, a, b) <=> BrLT(u, a, b)
    /\ \A m, a, w : Sequential!ReadLanes(m, a, w) = ReadLanes(m, a, w)
    /\ \A m, a, w, d : Sequential!WriteLanes(m, a, w, d) = WriteLanes(m, a, w, d)
    /\ Sequential!Reg = Reg
<1>1. Sequential!WordSize = WordSize /\ Sequential!Addr = Addr /\ Sequential!Reg = Reg
  BY DEF Sequential!WordSize, WordSize, Sequential!Addr, Addr, Sequential!Reg, Reg
<1>2. \A v, n : Sequential!Signed(v, n) = Signed(v, n)
  BY DEF Sequential!Signed, Signed
<1>3. \A a, b : Sequential!Add(a, b) = Add(a, b)
  BY <1>1 DEF Sequential!Add, Add
<1>4. /\ \A a : Sequential!Trunc(a) = Trunc(a)
      /\ \A a : Sequential!Wrap(a) = a % WordSize
      /\ Sequential!NextInst = Add(pc, 4)
  BY DEF Sequential!Trunc, Trunc, Sequential!Wrap, Sequential!NextInst, Add
<1>5. \A w : Sequential!Lanes(w) = Lanes(w)
  BY DEF Sequential!Lanes, Lanes
<1>6. /\ \A a, b : Sequential!BrEq(a, b) <=> BrEq(a, b)
      /\ \A u, a, b : Sequential!BrLT(u, a, b) <=> BrLT(u, a, b)
  BY <1>1, <1>2 DEF Sequential!BrEq, BrEq, Sequential!BrLT, BrLT
<1>7. \A m, a, w : Sequential!ReadLanes(m, a, w) = ReadLanes(m, a, w)
  BY <1>1, <1>2 DEF Sequential!ReadLanes, ReadLanes
<1>8. \A d, k : Sequential!ByteOf(d, k) = ByteOf(d, k)
  BY DEF Sequential!ByteOf, ByteOf
<1>9. \A m, a, w, d : Sequential!WriteLanes(m, a, w, d) = WriteLanes(m, a, w, d)
  BY <1>1, <1>5, <1>8 DEF Sequential!WriteLanes, WriteLanes
<1>. QED
  BY <1>1, <1>3, <1>4, <1>6, <1>7, <1>9

\* What the instruction writes to its destination, if it has one.
Result(i) ==
    CASE i.op = "OP"                 -> ALU(i.funct, rf[i.rs1], rf[i.rs2])
      [] i.op = "OP_IMM"             -> ALU(i.funct, rf[i.rs1], i.imm)
      [] i.op = "AUIPC"              -> Add(pc, i.imm)
      [] i.op = "LUI"                -> i.imm
      [] i.op \in {"JAL", "JALR"}    -> Add(pc, 4)
      [] OTHER                       -> memRead(i)

\* The instruction is one Restricted lets stand in a program.
Decent(i) ==
    /\ i \in Inst
    /\ Writes(i) /\ i.rd = 0 => IsNop(i)
    /\ i.op = "OP" => i.funct # "SLTU"
    /\ i.op = "JALR" => i.rd # i.rs1

\* Register 0 stays zero without a test of the destination, as the only decent
\* instruction that writes it is the nop.
LEMMA RegistersAfter ==
    ASSUME CpuTypes, rf[0] = 0, NEW i, Decent(i)
    PROVE  NextRf(i) = IF Writes(i) /\ i.rd # 0 THEN [rf EXCEPT ![i.rd] = Result(i)] ELSE rf
<1>. USE DEF Decent
<1>1. CASE ~Writes(i)
  BY <1>1 DEF NextRf, Writes
<1>2. CASE Writes(i) /\ i.rd # 0
  <2>1. CASE i.op \in {"OP", "OP_IMM"}
    BY <1>2, <2>1 DEF NextRf, Result, Computed
  <2>2. CASE i.op \in {"AUIPC", "LUI", "JAL", "JALR", "LOAD"}
    BY <1>2, <2>2 DEF NextRf, Result
  <2>. QED
    BY <1>2, <2>1, <2>2 DEF Writes
<1>3. CASE Writes(i) /\ i.rd = 0
  <2>1. IsNop(i)
    BY <1>3
  <2>2. Computed(i) = ALU("ADD", 0, 0)
    BY <2>1 DEF IsNop, Computed
  <2>3. ALU("ADD", 0, 0) = 0
    BY WordInt, AddZero, ALUAssumption
  <2>4. NextRf(i) = [rf EXCEPT ![0] = 0]
    BY <1>3, <2>1, <2>2, <2>3 DEF IsNop, NextRf
  <2>. QED
    BY <1>3, <2>4 DEF CpuTypes
<1>. QED
  BY <1>1, <1>2, <1>3

\* The next pc, for a pc on a word boundary.
LEMMA PcAfter ==
    ASSUME CpuTypes, rf[0] = 0, pc % 4 = 0, NEW i, Decent(i)
    PROVE  /\ NextPc(i) = CASE i.op = "JAL" \/ (i.op = "BRANCH" /\ Taken(i)) -> Add(pc, i.imm)
                            [] i.op = "JALR" -> Add(rf[i.rs1], i.imm)
                            [] OTHER -> Add(pc, 4)
           /\ \A a \in Int : Add(a, i.imm) % WordSize = Add(a, i.imm)
<1>1. Slot = pc
  BY WordInt DEF Slot, CpuTypes
<1>2. Target(i) = Add(pc, i.imm)
  BY <1>1 DEF Target
<1>3. i.op = "JALR" => NextRf(i)[i.rs1] = rf[i.rs1]
  BY RegistersAfter, FieldTypes DEF Decent, CpuTypes
<1>4. \A a \in Int : Add(a, i.imm) % WordSize = Add(a, i.imm)
  <2>1. \A a \in Int : Add(a, i.imm) \in Word
    BY AddType, FieldTypes, WordInt DEF Decent
  <2>2. \A w \in Word : w % WordSize = w
    BY WordSizeType DEF Word
  <2>. QED
    BY <2>1, <2>2
<1>. QED
  BY <1>2, <1>3, <1>4 DEF NextPc

RefInv == PlacesInv /\ Restricted(prog) /\ rf[0] = 0

LEMMA FetchedDecent ==
    ASSUME RefInv, InRange(Fetched)
    PROVE  CpuTypes /\ Slot \in Addr /\ Decent(Fetched)
<1>1. CpuTypes
  BY DEF RefInv, PlacesInv, TypeOK, CpuTypes
<1>2. Slot \in Addr /\ Fetched \in Inst
  BY <1>1, FetchedType DEF InRange
<1>. QED
  BY <1>1, <1>2
  DEF RefInv, Restricted, NoZeroDest, NoSltu, NoJalrOverBase, Decent, Fetched

\* The sequential machine is at the same instruction with the same operands.
LEMMA SequentialOperands ==
    ASSUME RefInv, pc % 4 = 0, InRange(Fetched)
    PROVE  /\ Sequential!inst = Fetched
           /\ Sequential!src1 = rf[Fetched.rs1] /\ Sequential!src2 = rf[Fetched.rs2]
<1>1. pc \in Int
  BY WordInt, FetchedDecent DEF CpuTypes
<1>2. Sequential!inst = Fetched
  BY <1>1 DEF Sequential!inst, Fetched, Slot
<1>. QED
  BY <1>2 DEF Sequential!src1, Sequential!src2

\* The sequential machine writes the same register.
LEMMA SetRegIsNextRf ==
    ASSUME RefInv, pc % 4 = 0, InRange(Fetched), rf' = NextRf(Fetched), Writes(Fetched)
    PROVE  Sequential!SetReg(Result(Fetched))
<1>1. rf' = IF Fetched.rd # 0 THEN [rf EXCEPT ![Fetched.rd] = Result(Fetched)] ELSE rf
  BY FetchedDecent, RegistersAfter DEF RefInv
<1>. QED
  BY <1>1, SequentialOperands DEF Sequential!SetReg

\* An access in range is made where the sequential machine makes it.
LEMMA AccessAddress ==
    ASSUME RefInv, pc % 4 = 0, InRange(Fetched), Fetched.op \in {"LOAD", "STORE"}
    PROVE  Sequential!EffectiveAddr = DataAddr(Fetched)
<1>1. DataAddr(Fetched) \in Word
  BY FetchedDecent, FieldTypes, AddType, WordInt DEF CpuTypes, DataAddr, Decent
<1>2. DataAddr(Fetched) \in 0 .. AddrSize - 1
  BY <1>1, WordSizeType, SizeAssumption DEF InRange, Lanes, Word
<1>3. Trunc(DataAddr(Fetched)) = DataAddr(Fetched)
  BY <1>2, SizeAssumption DEF Trunc
<1>4. Sequential!Trunc(Sequential!Add(Sequential!src1, Sequential!inst.imm))
         = Trunc(DataAddr(Fetched))
  BY SequentialOperands, SameVocabulary DEF DataAddr
<1>. QED
  BY <1>3, <1>4 DEF Sequential!EffectiveAddr, Exact

\* The branches go the same way.
LEMMA BranchDecision ==
    ASSUME RefInv, pc % 4 = 0, InRange(Fetched), Fetched.op = "BRANCH"
    PROVE  Sequential!Holds <=> Taken(Fetched)
<1>1. /\ Sequential!inst.funct = Fetched.funct
      /\ Sequential!src1 = rf[Fetched.rs1] /\ Sequential!src2 = rf[Fetched.rs2]
  BY SequentialOperands
<1>2. /\ Sequential!BrEq(Sequential!src1, Sequential!src2) <=> rf[Fetched.rs1] = rf[Fetched.rs2]
      /\ \A u : Sequential!BrLT(u, Sequential!src1, Sequential!src2)
                   <=> BrLT(u, rf[Fetched.rs1], rf[Fetched.rs2])
  BY <1>1, SameVocabulary DEF BrEq
<1>. QED
  BY <1>1, <1>2 DEF Sequential!Holds, Taken

\* Executing an instruction is a step of the sequential machine.
LEMMA InstructionIsStep ==
    ASSUME RefInv, StaysInProgram, "SOC" \in toStep, InRange(Fetched),
           processInstr(Fetched), prog' = prog,
           Halted = FALSE, Halted' = (Fetched.op = "HCF")
    PROVE  Sequential!Next
<1>. DEFINE i == Fetched
<1>1. pc % 4 = 0 /\ i.op # "ZERO" /\ rf[0] = 0 /\ pc \in Int
  BY FetchedDecent, WordInt DEF StaysInProgram, RefInv, CpuTypes
<1>2. /\ Sequential!inst = i /\ Sequential!src1 = rf[i.rs1] /\ Sequential!src2 = rf[i.rs2]
      /\ Sequential!NextInst = Add(pc, 4)
  BY <1>1, SequentialOperands, SameVocabulary
<1>3. /\ rf' = NextRf(i) /\ mem' = NextMem(i) /\ pc' = NextPc(i)
      /\ ~Writes(i) => rf' = rf
      /\ i.op # "STORE" => mem' = mem
      /\ Writes(i) => Sequential!SetReg(Result(i))
  BY <1>1, SetRegIsNextRf DEF processInstr, NextRf, NextMem, Writes
<1>4. /\ NextPc(i) = CASE i.op = "JAL" \/ (i.op = "BRANCH" /\ Taken(i)) -> Add(pc, i.imm)
                       [] i.op = "JALR" -> Add(rf[i.rs1], i.imm)
                       [] OTHER -> Add(pc, 4)
      /\ \A a \in Int : Add(a, i.imm) % WordSize = Add(a, i.imm)
      /\ rf[i.rs1] \in Int
  BY <1>1, FetchedDecent, PcAfter, FieldTypes, WordInt DEF CpuTypes, Decent
<1>5. i.op \in Opcodes
  BY <1>1, FetchedDecent DEF Decent, Inst
<1>. HIDE DEF i
<1>6. CASE i.op \in {"OP", "OP_IMM", "AUIPC", "LUI"}
  <2>1. Sequential!Computed = Result(i)
    BY <1>2, <1>6, SameVocabulary DEF Sequential!Computed, Result
  <2>. QED
    BY <1>2, <1>3, <1>4, <1>6, <2>1 DEF Sequential!Next, Sequential!Compute, Writes, i
<1>7. CASE i.op = "LOAD"
  <2>1. Result(i) = ReadLanes(mem, DataAddr(i), i.funct)
    BY <1>7 DEF Result, memRead, memReadReqHandler, MemReadReqPacket
  <2>2. Sequential!ReadLanes(mem, Sequential!EffectiveAddr, Sequential!inst.funct) = Result(i)
    BY <1>1, <1>2, <1>7, <2>1, AccessAddress, SameVocabulary DEF i
  <2>. QED
    BY <1>2, <1>3, <1>4, <1>7, <2>2 DEF Sequential!Next, Sequential!Load, Writes, i
<1>8. CASE i.op = "STORE"
  <2>1. NextMem(i) = WriteLanes(mem, DataAddr(i), i.funct, rf[i.rs2])
    BY <1>8 DEF NextMem, memWrite, memWriteReqHandler, MemWriteReqPacket
  <2>2. Sequential!WriteLanes(mem, Sequential!EffectiveAddr, Sequential!inst.funct,
                              Sequential!src2) = NextMem(i)
    BY <1>1, <1>2, <1>8, <2>1, AccessAddress, SameVocabulary DEF i
  <2>. QED
    BY <1>2, <1>3, <1>4, <1>8, <2>2 DEF Sequential!Next, Sequential!Store, Writes, i
<1>9. CASE i.op = "BRANCH"
  <2>1. Sequential!Holds <=> Taken(i)
    BY <1>1, <1>9, BranchDecision DEF i
  <2>2. Sequential!Wrap(Sequential!Add(pc, Sequential!inst.imm)) = Add(pc, i.imm)
    BY <1>1, <1>2, <1>4, SameVocabulary
  <2>3. pc' = IF Sequential!Holds THEN Sequential!Wrap(Sequential!Add(pc, Sequential!inst.imm))
              ELSE Sequential!NextInst
    BY <1>2, <1>3, <1>4, <1>9, <2>1, <2>2
  <2>. QED
    BY <1>2, <1>3, <1>9, <2>3 DEF Sequential!Next, Sequential!Branch, Writes, i
<1>10. CASE i.op \in {"JAL", "JALR"}
  <2>1. Result(i) = Sequential!NextInst
    BY <1>2, <1>10 DEF Result
  <2>2. \A a \in Int : Sequential!Wrap(Sequential!Add(a, Sequential!inst.imm)) = Add(a, i.imm)
    BY <1>2, <1>4, SameVocabulary
  <2>3. pc' = Sequential!Wrap(Sequential!Add(
                 IF Sequential!inst.op = "JAL" THEN pc ELSE Sequential!src1,
                 Sequential!inst.imm))
    BY <1>1, <1>2, <1>3, <1>4, <1>10, <2>2
  <2>. QED
    BY <1>2, <1>3, <1>10, <2>1, <2>3 DEF Sequential!Next, Sequential!Jump, Writes, i
<1>11. CASE i.op = "HCF"
  BY <1>2, <1>3, <1>4, <1>11 DEF Sequential!Next, Sequential!Halt, Writes, i
<1>. QED
  BY <1>5, <1>6, <1>7, <1>8, <1>9, <1>10, <1>11 DEF Opcodes

-----------------------------------------------------------------------------
(* The timing half is a line of packets. *)

FromM   == Entry(sIF_m) \o Entry(pendingInstPacket)
FromS   == Entry(soc_s) \o FromM
FromEi  == Entry(prIF2EXE.in) \o FromS
FromEo  == Entry(prIF2EXE.out) \o FromEi
FromWi  == Entry(prEXE2WB.in) \o FromEo

LEMMA LineUnfold ==
    /\ Line = Entry(prEXE2WB.out) \o FromWi
    /\ Line' = Entry(prEXE2WB.out)' \o FromWi'
BY DEF Line, FromWi, FromEo, FromEi, FromS, FromM

\* Every place adds a packet to the line, or nothing.
LEMMA LineTypes ==
    ASSUME PlacesInv
    PROVE  /\ \A p \in Held : packet[p] \in Packet
           /\ \A p \in Held \cup {None} : Entry(p) \in Seq(Packet)
           /\ {prEXE2WB.out, prEXE2WB.in, prIF2EXE.out, prIF2EXE.in, soc_s, sIF_m,
               pendingInstPacket} \subseteq Held \cup {None}
           /\ FromM \in Seq(Packet) /\ FromS \in Seq(Packet) /\ FromEi \in Seq(Packet)
           /\ FromEo \in Seq(Packet) /\ FromWi \in Seq(Packet)
<1>1. \A p \in Held : packet[p] \in Packet
  BY DEF PlacesInv, Kept, TypeOK, PipeRegister, Held
<1>2. \A p \in Held \cup {None} : Entry(p) \in Seq(Packet)
  <2>1. <<>> \in Seq(Packet) /\ \A x \in Packet : <<x>> \in Seq(Packet)
    OBVIOUS
  <2>. QED
    BY <1>1, <2>1 DEF Entry
<1>3. {prEXE2WB.out, prEXE2WB.in, prIF2EXE.out, prIF2EXE.in, soc_s, sIF_m,
       pendingInstPacket} \subseteq Held \cup {None}
  BY DEF Held
<1>4. \A s, t \in Seq(Packet) : s \o t \in Seq(Packet)
  BY ConcatProperties
<1>5. FromM \in Seq(Packet)
  BY <1>2, <1>3, <1>4 DEF FromM
<1>6. FromS \in Seq(Packet)
  BY <1>2, <1>3, <1>4, <1>5 DEF FromS
<1>7. FromEi \in Seq(Packet)
  BY <1>2, <1>3, <1>4, <1>6 DEF FromEi
<1>8. FromEo \in Seq(Packet)
  BY <1>2, <1>3, <1>4, <1>7 DEF FromEo
<1>9. FromWi \in Seq(Packet)
  BY <1>2, <1>3, <1>4, <1>8 DEF FromWi
<1>. QED
  BY <1>1, <1>2, <1>3, <1>5, <1>6, <1>7, <1>8, <1>9

\* To stand in one of two neighbouring places is to stand in the other.
LEMMA MoveUp ==
    ASSUME NEW S, NEW s \in Seq(S), NEW t \in Seq(S)
    PROVE  /\ s \o (<<>> \o t) = s \o t
           /\ <<>> \o (s \o t) = s \o t
           /\ s \o <<>> = s /\ <<>> \o s = s
<1>1. s \o t \in Seq(S)
  BY ConcatProperties
<1>. QED
  BY <1>1, ConcatEmptySeq

\* Appending to the end of the last part is appending to the whole.
LEMMA AppendBehind ==
    ASSUME NEW S, NEW e \in S
    PROVE  \A s, t \in Seq(S) : Append(s \o t, e) = s \o Append(t, e)
<1>. SUFFICES ASSUME NEW s \in Seq(S), NEW t \in Seq(S)
              PROVE  Append(s \o t, e) = s \o Append(t, e)
  OBVIOUS
<1>1. s \o t \in Seq(S) /\ <<e>> \in Seq(S)
  BY ConcatProperties
<1>2. Append(s \o t, e) = (s \o t) \o <<e>> /\ Append(t, e) = t \o <<e>>
  BY <1>1, AppendIsConcat
<1>. QED
  BY <1>1, <1>2, ConcatAssociative

\* An empty line leaves nothing in any place, in particular not in the last.
LEMMA NothingWaits ==
    ASSUME PlacesInv, Line = <<>>
    PROVE  pendingInstPacket = None
<1>1. \A s, t \in Seq(Packet) : s \o t = <<>> => t = <<>>
  OBVIOUS
<1>2. FromWi = <<>>
  BY <1>1, LineTypes, LineUnfold
<1>3. FromEo = <<>>
  BY <1>1, <1>2, LineTypes DEF FromWi
<1>4. FromEi = <<>>
  BY <1>1, <1>3, LineTypes DEF FromEo
<1>5. FromS = <<>>
  BY <1>1, <1>4, LineTypes DEF FromEi
<1>6. FromM = <<>>
  BY <1>1, <1>5, LineTypes DEF FromS
<1>7. Entry(pendingInstPacket) = <<>>
  BY <1>1, <1>6, LineTypes DEF FromM
<1>. QED
  BY <1>7 DEF Entry

\* The SOC overwrites no packet that is on its way.
LEMMA HeldKept ==
    ASSUME PlacesInv, SOCStep
    PROVE  \A p \in Held : packet'[p] = packet[p]
<1>1. CASE InRange(Fetched)
  <2>1. PICK id \in Acquirable : packet' = [packet EXCEPT ![id] = renew(Fetched)]
    BY <1>1 DEF SOCStep, execOneInstr
  <2>2. id \in Id /\ id \notin Held
    BY AcquirableFresh DEF PlacesInv
  <2>3. Held \subseteq Id
    BY DEF Held, PlacesInv, TypeOK, PipeRegister
  <2>. QED
    BY <2>1, <2>2, <2>3 DEF PlacesInv, TypeOK
<1>2. CASE ~InRange(Fetched)
  BY <1>2 DEF SOCStep, Abort
<1>. QED
  BY <1>1, <1>2

\* The stages IFStage and EXEStage move a packet on in the line, not out of it.
LEMMA IFStepLine == ASSUME PlacesInv, IFStep PROVE Line' = Line
<1>. USE DEF PlacesInv
<1>1. /\ UNCHANGED <<packet, sIF_m, pendingInstPacket, prEXE2WB>>
      /\ "IF" \in toStep
  BY DEF IFStep
<1>2. FromM' = FromM
  BY <1>1 DEF FromM, Entry
<1>3. CASE UNCHANGED <<soc_s, prIF2EXE>>
  BY <1>1, <1>3 DEF Line, Entry
<1>4. CASE soc_s # None /\ instPacketHandler
  <2>1. /\ soc_s' = None /\ prIF2EXE'.in = soc_s /\ prIF2EXE'.out = prIF2EXE.out
        /\ prIF2EXE.in = None
    BY <1>1, <1>4, PipeRegisterOps DEF instPacketHandler, TypeOK, Schedule, NothingSleeps
  <2>2. FromEi = <<>> \o (Entry(soc_s) \o FromM) /\ FromEi' = Entry(soc_s) \o (<<>> \o FromM)
    BY <1>1, <1>2, <2>1 DEF FromEi, FromS, Entry
  <2>3. FromEi' = FromEi
    BY <2>2, LineTypes, MoveUp
  <2>4. FromEo' = FromEo
    BY <1>1, <2>1, <2>3 DEF FromEo, Entry
  <2>5. FromWi' = FromWi
    BY <1>1, <2>4 DEF FromWi, Entry
  <2>6. Entry(prEXE2WB.out)' = Entry(prEXE2WB.out)
    BY <1>1 DEF Entry
  <2>. QED
    BY <2>5, <2>6, LineUnfold
<1>. QED
  BY <1>3, <1>4 DEF IFStep, Stall

LEMMA EXEStepLine == ASSUME PlacesInv, EXEStep PROVE Line' = Line
<1>. USE DEF PlacesInv
<1>1. UNCHANGED <<packet, sIF_m, pendingInstPacket, soc_s>> /\ prEXE2WB.in = None
  BY DEF EXEStep, portVars, Schedule, NothingSleeps
<1>2. /\ prIF2EXE'.in = prIF2EXE.in /\ prEXE2WB'.out = prEXE2WB.out
      /\ prIF2EXE'.out = None /\ prEXE2WB'.in = prIF2EXE.out
  <2>1. prIF2EXE.out \in Id \cup {None}
    BY DEF TypeOK, PipeRegister
  <2>. QED
    BY <1>1, <2>1, PipeRegisterOps DEF EXEStep, TypeOK
<1>3. FromEi' = FromEi
  BY <1>1, <1>2 DEF FromEi, FromS, FromM, Entry
<1>4. /\ FromWi = <<>> \o (Entry(prIF2EXE.out) \o FromEi)
      /\ FromWi' = Entry(prIF2EXE.out) \o (<<>> \o FromEi)
  BY <1>1, <1>2, <1>3 DEF FromWi, FromEo, Entry
<1>5. FromWi' = FromWi
  BY <1>4, LineTypes, MoveUp
<1>6. Entry(prEXE2WB.out)' = Entry(prEXE2WB.out)
  BY <1>1, <1>2 DEF Entry
<1>. QED
  BY <1>5, <1>6, LineUnfold

\* So does the end of a tick, everywhere at once.
LEMMA SyncLine == ASSUME PlacesInv, Sync PROVE Line' = Line
<1>1. packet' = packet
  BY SyncMoves
<1>2. FromS' = FromS
  <2>1. CASE PortMoves
    <3>1. /\ FromS = <<>> \o (Entry(sIF_m) \o Entry(pendingInstPacket))
          /\ FromS' = Entry(sIF_m) \o (Entry(pendingInstPacket) \o <<>>)
      BY <1>1, <2>1, SyncMoves DEF FromS, FromM, Entry
    <3>2. Entry(sIF_m) \in Seq(Packet) /\ Entry(pendingInstPacket) \in Seq(Packet)
      BY LineTypes
    <3>. QED
      BY <3>1, <3>2, MoveUp
  <2>2. CASE ~PortMoves
    BY <1>1, <2>2, SyncMoves DEF FromS, FromM, Entry, portVars
  <2>. QED
    BY <2>1, <2>2
<1>3. FromEo' = FromEo
  <2>1. /\ FromEo = <<>> \o (Entry(prIF2EXE.in) \o FromS)
        /\ FromEo' = Entry(prIF2EXE.in) \o (<<>> \o FromS)
    BY <1>1, <1>2, SyncMoves DEF FromEo, FromEi, Entry
  <2>. QED
    BY <2>1, LineTypes, MoveUp
<1>4. /\ Line = <<>> \o (Entry(prEXE2WB.in) \o FromEo)
      /\ Line' = Entry(prEXE2WB.in) \o (<<>> \o FromEo)
  BY <1>1, <1>3, SyncMoves, LineUnfold DEF FromWi, Entry
<1>. QED
  BY <1>4, LineTypes, MoveUp

\* WBStage takes the first packet out of the line.
LEMMA WBStepLine ==
    ASSUME PlacesInv, WBStep
    PROVE  \/ Line' = Line
           \/ Line # <<>> /\ Line' = Tail(Line)
<1>. USE DEF PlacesInv
<1>1. UNCHANGED <<packet, pendingInstPacket, sIF_m, soc_s, prIF2EXE>>
  BY DEF WBStep, portVars
<1>2. CASE prEXE2WB.out = None
  <2>1. prEXE2WB' = prEXE2WB
    BY <1>2 DEF WBStep
  <2>. QED
    BY <1>1, <2>1 DEF Line, Entry
<1>3. CASE prEXE2WB.out # None
  <2>1. prEXE2WB'.in = prEXE2WB.in /\ prEXE2WB'.out = None
    BY <1>3, PipeRegisterOps DEF WBStep, TypeOK
  <2>2. FromWi' = FromWi
    BY <1>1, <2>1 DEF FromWi, FromEo, FromEi, FromS, FromM, Entry
  <2>3. Line = <<packet[prEXE2WB.out]>> \o FromWi /\ Line' = <<>> \o FromWi
    BY <1>3, <2>1, <2>2, LineUnfold DEF Entry
  <2>4. packet[prEXE2WB.out] \in Packet /\ FromWi \in Seq(Packet)
    BY <1>3, LineTypes DEF Held
  <2>5. \A e \in Packet, s \in Seq(Packet) : <<e>> \o s # <<>> /\ Tail(<<e>> \o s) = s
    OBVIOUS
  <2>. QED
    BY <2>3, <2>4, <2>5, MoveUp
<1>. QED
  BY <1>2, <1>3

\* The SOC puts a packet at its end.
LEMMA SOCStepLine ==
    ASSUME PlacesInv, SOCStep, InRange(Fetched)
    PROVE  Line' = Append(Line, renew(Fetched))
<1>. USE DEF PlacesInv
<1>. DEFINE r == renew(Fetched)
<1>1. PICK id \in Acquirable :
         /\ packet' = [packet EXCEPT ![id] = r]
         /\ commitInstr(Fetched, id)
         /\ UNCHANGED soc_s
  BY DEF SOCStep, execOneInstr
<1>2. id \in Id /\ id # None /\ packet'[id] = r
  BY <1>1, AcquirableFresh, PacketAssumption DEF TypeOK
<1>3. r \in Packet
  <2>1. Fetched \in Inst /\ pc \in Word
    BY FetchedType DEF TypeOK, CpuTypes, InRange
  <2>. QED
    BY <2>1 DEF renew, Packet, IsTakenBranch
<1>4. UNCHANGED <<prIF2EXE, prEXE2WB, soc_s>> /\ "SOC" \in toStep
  BY <1>1 DEF SOCStep
<1>5. \A p \in Held : packet'[p] = packet[p]
  BY HeldKept
<1>6. /\ Entry(prEXE2WB.out)' = Entry(prEXE2WB.out) /\ Entry(prEXE2WB.in)' = Entry(prEXE2WB.in)
      /\ Entry(prIF2EXE.out)' = Entry(prIF2EXE.out) /\ Entry(prIF2EXE.in)' = Entry(prIF2EXE.in)
      /\ Entry(soc_s)' = Entry(soc_s)
  BY <1>4, <1>5, LineTypes DEF Entry
<1>. HIDE DEF r
<1>7. FromM' = Append(FromM, r)
  <2>1. pendingInstPacket = None
    BY <1>4 DEF Schedule, NothingSleeps
  <2>2. CASE sIF_m = None
    <3>1. sIF_m' = id /\ pendingInstPacket' = None
      BY <1>1, <1>2, <1>4, <2>2, CommitMoves
    <3>2. FromM = <<>> \o <<>> /\ FromM' = <<r>> \o <<>>
      BY <1>2, <2>1, <2>2, <3>1 DEF FromM, Entry
    <3>3. <<>> \o <<>> = <<>> /\ <<r>> \o <<>> = <<r>> /\ Append(<<>>, r) = <<r>>
      OBVIOUS
    <3>. QED
      BY <3>2, <3>3
  <2>3. CASE sIF_m # None
    <3>1. sIF_m' = sIF_m /\ pendingInstPacket' = id
      BY <1>1, <1>2, <1>4, <2>3, CommitMoves
    <3>2. packet'[sIF_m] = packet[sIF_m]
      BY <1>5, <2>3 DEF Held
    <3>3. FromM = <<packet[sIF_m]>> \o <<>> /\ FromM' = <<packet[sIF_m]>> \o <<r>>
      BY <1>2, <2>1, <2>3, <3>1, <3>2 DEF FromM, Entry
    <3>4. \A x : <<x>> \o <<>> = <<x>> /\ <<x>> \o <<r>> = Append(<<x>>, r)
      OBVIOUS
    <3>. QED
      BY <3>3, <3>4
  <2>. QED
    BY <2>2, <2>3
<1>8. \A s, t \in Seq(Packet) : Append(s \o t, r) = s \o Append(t, r)
  BY <1>3, AppendBehind
<1>9. FromS' = Append(FromS, r)
  BY <1>6, <1>7, <1>8, LineTypes DEF FromS
<1>10. FromEi' = Append(FromEi, r)
  BY <1>6, <1>8, <1>9, LineTypes DEF FromEi
<1>11. FromEo' = Append(FromEo, r)
  BY <1>6, <1>8, <1>10, LineTypes DEF FromEo
<1>12. FromWi' = Append(FromWi, r)
  BY <1>6, <1>8, <1>11, LineTypes DEF FromWi
<1>13. Line' = Append(Line, r)
  BY <1>6, <1>8, <1>12, LineUnfold, LineTypes
<1>. QED
  BY <1>13 DEF r

-----------------------------------------------------------------------------
(* The simulator implements the sequential machine with a line of packets. *)

\* HCF is the instruction behind which no other is due.
LEMMA ExecuteHalts ==
    ASSUME PlacesInv, SOCStep, InRange(Fetched), ~aborted
    PROVE  Halted = FALSE /\ Halted' = (Fetched.op = "HCF")
<1>. USE DEF PlacesInv
<1>1. PICK id \in Acquirable :
         /\ packet' = [packet EXCEPT ![id] = renew(Fetched)]
         /\ commitInstr(Fetched, id)
         /\ UNCHANGED aborted
  BY DEF SOCStep, execOneInstr
<1>2. id \in Id /\ id # None /\ packet'[id].inst = Fetched
  BY <1>1, AcquirableFresh, PacketAssumption DEF TypeOK, renew
<1>3. /\ "SOC" \in toStep /\ "SOC" \notin toStep' /\ "SOC" \notin wakeNext
      /\ pendingInstPacket = None
  BY DEF SOCStep, Schedule, NothingSleeps
<1>4. \/ pendingInstPacket' = None /\ ("SOC" \in wakeNext' <=> Fetched.op # "HCF")
      \/ pendingInstPacket' = id /\ "SOC" \notin wakeNext'
  BY <1>1, <1>2, <1>3, CommitMoves
<1>5. (aborted' = TRUE) = FALSE
  BY <1>1 DEF TypeOK
<1>. QED
  BY <1>1, <1>2, <1>3, <1>4, <1>5 DEF Halted

\* The end of a tick starts and ends nothing: the packet that waited is sent
\* again, and the SOC goes on unless it is the HCF.
LEMMA SyncHalts == ASSUME PlacesInv, Sync PROVE Halted' = Halted
<1>1. aborted' = aborted /\ packet' = packet /\ toStep = {} /\ wakeNext' = {}
  BY SyncMoves DEF Sync
<1>2. CASE PortMoves /\ pendingInstPacket # None
  <2>1. pendingInstPacket' = None /\ "SOC" \notin wakeNext
    BY <1>2, SyncMoves DEF PlacesInv, Schedule, NothingSleeps
  <2>2. "SOC" \in toStep' <=> packet[pendingInstPacket].inst.op # "HCF"
    BY <1>2, <2>1, SyncMoves
  <2>. QED
    BY <1>1, <1>2, <2>1, <2>2 DEF Halted
<1>3. CASE ~(PortMoves /\ pendingInstPacket # None)
  <2>1. pendingInstPacket' = pendingInstPacket
    BY <1>3, SyncMoves DEF portVars
  <2>2. "SOC" \in toStep' <=> "SOC" \in wakeNext
    BY <1>3, SyncMoves
  <2>. QED
    BY <1>1, <2>1, <2>2 DEF Halted
<1>. QED
  BY <1>2, <1>3

LEMMA ExecuteIsStep ==
    ASSUME RefInv, StaysInProgram, SOCStep, InRange(Fetched), ~aborted
    PROVE  Sequential!Execute
<1>. USE DEF RefInv
<1>1. processInstr(Fetched) /\ prog' = prog /\ "SOC" \in toStep
  BY DEF SOCStep, execOneInstr
<1>2. Sequential!Next
  BY <1>1, ExecuteHalts, InstructionIsStep
<1>3. renew(Fetched) =
        [inst |-> Sequential!inst, pc |-> pc, taken |-> pc' # Sequential!NextInst]
  BY <1>1, SequentialOperands, SameVocabulary
  DEF StaysInProgram, renew, IsTakenBranch, processInstr
<1>. QED
  BY <1>2, <1>3, SOCStepLine DEF Sequential!Execute

\* No other step executes an instruction, or ends the execution.
LEMMA OtherSteps ==
    ASSUME RefInv, [Next]_vars, ~(SOCStep /\ InRange(Fetched)), ~aborted'
    PROVE  UNCHANGED cpuVars /\ Halted' = Halted
<1>. USE DEF RefInv
<1>1. CASE SOCStep
  BY <1>1 DEF SOCStep, Abort
<1>2. CASE IFStep
  <2>1. /\ UNCHANGED <<cpuVars, packet, pendingInstPacket, aborted>>
        /\ "SOC" \in toStep' <=> "SOC" \in toStep
        /\ "SOC" \in wakeNext' <=> "SOC" \in wakeNext
    BY <1>2 DEF IFStep, Stall, instPacketHandler
  <2>. QED
    BY <2>1 DEF Halted
<1>3. CASE EXEStep \/ WBStep
  <2>1. /\ UNCHANGED <<cpuVars, packet, pendingInstPacket, aborted, wakeNext>>
        /\ "SOC" \in toStep' <=> "SOC" \in toStep
    BY <1>3 DEF EXEStep, WBStep, portVars
  <2>. QED
    BY <2>1 DEF Halted
<1>4. CASE Sync
  BY <1>4, SyncHalts DEF Sync
<1>5. CASE UNCHANGED vars
  BY <1>5 DEF vars, simVars, portVars, Halted
<1>. QED
  BY <1>1, <1>2, <1>3, <1>4, <1>5 DEF Next

TimedStep == Sequential!Execute \/ Sequential!Retire
TimedVars == <<Sequential!isaVars, Line>>

LEMMA TimedSimulation ==
    RefInv /\ StaysInProgram /\ [Next]_vars => TimedStep \/ UNCHANGED TimedVars
<1>. SUFFICES ASSUME RefInv, StaysInProgram, [Next]_vars
              PROVE  TimedStep \/ UNCHANGED TimedVars
  OBVIOUS
<1>. USE DEF RefInv
<1>1. UNCHANGED cpuVars /\ Halted' = Halted => UNCHANGED Sequential!isaVars
  BY DEF Sequential!isaVars, cpuVars
<1>2. CASE SOCStep /\ ~aborted /\ InRange(Fetched)
  BY <1>2, ExecuteIsStep DEF TimedStep
<1>3. CASE SOCStep /\ ~aborted /\ ~InRange(Fetched)
  <2>1. /\ UNCHANGED <<cpuVars, packet, portVars, prIF2EXE, prEXE2WB>>
        /\ aborted' /\ "SOC" \in toStep
    BY <1>3 DEF SOCStep, Abort
  <2>2. Line' = Line /\ Halted' = Halted
    BY <2>1 DEF Line, Entry, portVars, Halted
  <2>. QED
    BY <1>1, <2>1, <2>2 DEF TimedVars
<1>4. CASE (~aborted /\ (IFStep \/ EXEStep \/ WBStep \/ Sync)) \/ UNCHANGED vars
  <2>1. UNCHANGED Sequential!isaVars
    <3>1. CASE aborted
      BY <1>1, <1>4, <3>1 DEF vars, simVars, portVars, Halted
    <3>2. CASE ~aborted
      <4>1. ~aborted' /\ ~(SOCStep /\ InRange(Fetched))
        BY <1>4, <3>2 DEF IFStep, EXEStep, WBStep, Sync, vars, simVars, SOCStep
      <4>. QED
        BY <1>1, <4>1, OtherSteps
    <3>. QED
      BY <3>1, <3>2
  <2>2. Line' = Line \/ (Line # <<>> /\ Line' = Tail(Line))
    <3>1. UNCHANGED vars => Line' = Line
      BY DEF vars, simVars, portVars, Line, Entry
    <3>. QED
      BY <1>4, <3>1, IFStepLine, EXEStepLine, WBStepLine, SyncLine
  <2>. QED
    BY <2>1, <2>2 DEF TimedStep, TimedVars, Sequential!Retire
<1>. QED
  BY <1>2, <1>3, <1>4 DEF Next

LEMMA RefInvStep == RefInv /\ [Next]_vars => RefInv'
<1>. SUFFICES ASSUME RefInv, [Next]_vars PROVE RefInv'
  OBVIOUS
<1>1. PlacesInv'
  BY PlacesStep DEF RefInv
<1>2. CASE UNCHANGED cpuVars
  BY <1>1, <1>2 DEF RefInv, cpuVars
<1>3. CASE SOCStep /\ InRange(Fetched)
  <2>1. rf' = NextRf(Fetched) /\ prog' = prog
    BY <1>3 DEF SOCStep, execOneInstr, processInstr
  <2>2. rf'[0] = 0
    <3>1. rf' = IF Writes(Fetched) /\ Fetched.rd # 0
                THEN [rf EXCEPT ![Fetched.rd] = Result(Fetched)] ELSE rf
      BY <1>3, <2>1, FetchedDecent, RegistersAfter DEF RefInv
    <3>2. rf \in [Reg -> Word] /\ rf[0] = 0 /\ 0 \in Reg
      BY SizeAssumption DEF RefInv, PlacesInv, TypeOK, Reg
    <3>. QED
      BY <3>1, <3>2
  <2>. QED
    BY <1>1, <2>1, <2>2 DEF RefInv
<1>. QED
  BY <1>2, <1>3
  DEF Next, vars, SOCStep, Abort, IFStep, EXEStep, WBStep, Sync

LEMMA RefInvInit == Init /\ Restricted(prog) => RefInv
<1>1. 0 \in Reg
  BY SizeAssumption DEF Reg
<1>. QED
  BY <1>1, PlacesInit DEF Init, SimCpuInit, RefInv

LEMMA TimedInitially == Init => Sequential!TimedInit
<1>. SUFFICES ASSUME Init PROVE Sequential!TimedInit
  OBVIOUS
<1>1. Halted = FALSE
  BY DEF Init, Halted
<1>2. Line = <<>>
  <2>1. Line = <<>> \o (<<>> \o (<<>> \o (<<>> \o (<<>> \o (<<>> \o <<>>)))))
    BY DEF Init, Empty, Line, Entry
  <2>2. <<>> \o <<>> = <<>>
    OBVIOUS
  <2>. QED
    BY <2>1, <2>2
<1>. QED
  BY <1>1, <1>2, SameVocabulary
  DEF Init, SimCpuInit, Sequential!TimedInit, Sequential!Init

\* The simulator executes every program of the claimed class like the sequential
\* machine, and sends every instruction through the timing model once, unchanged
\* and in program order, however the simulators take turns: for every program,
\* memory contents, word size, number of registers, ALU and number of packets.
THEOREM SimulatorImplementsTimedIsa ==
    Spec /\ Restricted(prog) /\ []StaysInProgram => ImplementsTimedIsa
<1>1. RefInv /\ StaysInProgram /\ [Next]_vars =>
        [Sequential!Execute \/ Sequential!Retire]_<<Sequential!isaVars, Line>>
  BY TimedSimulation DEF TimedStep, TimedVars
<1>. QED
  BY <1>1, RefInvInit, RefInvStep, TimedInitially, PTL
  DEF Spec, ImplementsTimedIsa, Sequential!TimedSpec
=============================================================================
