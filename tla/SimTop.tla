------------------------------- MODULE SimTop -------------------------------
(***************************************************************************)
(* The simulator as SOCTop.hh puts it together: SOC runs the CPU and sends *)
(* each executed instruction, as a packet, through a port to the timing    *)
(* model, the simulators IFStage, EXEStage and WBStage joined by two pipe  *)
(* registers.                                                              *)
(*                                                                         *)
(* In a tick every simulator that has something to do steps once, in any   *)
(* order, as the framework's threads come to it; then Sync moves the port  *)
(* and the pipe registers.  The framework (ACALSim) is not part of the     *)
(* repository: ports, pipe registers, wake-ups and the recycling of        *)
(* packets are modelled from how this code uses them.                      *)
(*                                                                         *)
(* A packet is an object: the places that hold one hold its name, and      *)
(* recycling it lets the SOC overwrite it.                                 *)
(***************************************************************************)
EXTENDS SimCpu, FiniteSets

CONSTANTS
    Id,             \* packet objects
    None,           \* nullptr, and an empty place
    SameTickReuse   \* can a packet be acquired in the tick it is recycled in?

\* The contents of a packet that has been filled in.
Packet == [inst : Inst, pc : Word, taken : BOOLEAN]

ASSUME PacketAssumption ==
    /\ None \notin Id /\ None \notin Packet
    /\ SameTickReuse \in BOOLEAN

\* The container allocates when it has none to hand out: there are always more
\* objects than the four that others may hold when the SOC asks for one.
ASSUME PoolAssumption ==
    \A a, b, c, d \in Id \cup {None} : Id \ {a, b, c, d} # {}

VARIABLES
    packet,         \* [Id -> contents], None for an object not allocated yet
    free,           \* the recycle container
    pendingInstPacket, sIF_m, soc_s,    \* CPU; the two ends of the port
    prIF2EXE, prEXE2WB,                 \* [in, out]
    EXEInstPacket, WBInstPacket,        \* IFStage's own record of what is ahead
    toStep,         \* the simulators still to step in this tick
    wakeNext,       \* those that asked for the next tick
    retired,        \* what WB has recycled in this tick: its name and contents
    aborted         \* an assertion of BaseMemory has failed

portVars == <<pendingInstPacket, sIF_m, soc_s>>
ifVars   == <<EXEInstPacket, WBInstPacket>>
simVars  == <<packet, free, portVars, prIF2EXE, prEXE2WB, ifVars, toStep, wakeNext,
              retired, aborted>>
vars     == <<cpuVars, simVars>>

Empty == [in |-> None, out |-> None]
Nothing == [id |-> None, was |-> None]

Init ==
    /\ SimCpuInit
    /\ packet = [id \in Id |-> None]
    /\ free = {}
    /\ pendingInstPacket = None /\ sIF_m = None /\ soc_s = None
    /\ prIF2EXE = Empty /\ prEXE2WB = Empty
    /\ EXEInstPacket = None /\ WBInstPacket = None
    /\ toStep = {"SOC"}         \* simInit's event
    /\ wakeNext = {}
    /\ retired = Nothing
    /\ aborted = FALSE
-----------------------------------------------------------------------------
(* SOC. *)

\* The container hands out a recycled object if it has one, else a new one.
Acquirable ==
    LET recycled == IF SameTickReuse THEN free ELSE free \ {retired.id}
        new == {id \in Id : packet[id] = None}
    IN  IF recycled # {} THEN recycled
        ELSE IF new # {} THEN {CHOOSE id \in new : TRUE} ELSE {}

\* Variant: the next instruction is due whether or not this one was sent.
commitInstr_GoesOn(i, id) ==
    /\ wakeNext' = IF i.op = "HCF" THEN wakeNext ELSE wakeNext \cup {"SOC"}
    /\ IF sIF_m = None
       THEN sIF_m' = id /\ UNCHANGED pendingInstPacket
       ELSE pendingInstPacket' = id /\ UNCHANGED sIF_m

\* Variant: a packet that finds no room is dropped.
commitInstr_Drops(i, id) ==
    /\ sIF_m' = IF sIF_m = None THEN id ELSE sIF_m
    /\ wakeNext' = IF i.op = "HCF" THEN wakeNext ELSE wakeNext \cup {"SOC"}
    /\ UNCHANGED pendingInstPacket

\* The master port has room for one packet.
commitInstr(i, id) ==
    \/ /\ sIF_m = None
       /\ sIF_m' = id
       /\ wakeNext' = IF i.op = "HCF" THEN wakeNext ELSE wakeNext \cup {"SOC"}
       /\ UNCHANGED pendingInstPacket
    \/ /\ sIF_m # None
       /\ pendingInstPacket' = id
       /\ UNCHANGED <<sIF_m, wakeNext>>

\* The contents of the packet by the end of execOneInstr.
renew(i) == [inst |-> i, pc |-> pc, taken |-> IsTakenBranch(i)]

execOneInstr ==
    \E id \in Acquirable :
        /\ free' = free \ {id}
        /\ packet' = [packet EXCEPT ![id] = renew(Fetched)]
        /\ processInstr(Fetched)
        /\ commitInstr(Fetched, id)
        /\ UNCHANGED <<prog, soc_s, aborted>>

Abort ==
    /\ aborted' = TRUE
    /\ UNCHANGED <<cpuVars, packet, free, portVars, wakeNext>>

SOCStep ==
    /\ "SOC" \in toStep
    /\ toStep' = toStep \ {"SOC"}
    /\ IF InRange(Fetched) THEN execOneInstr ELSE Abort
    /\ UNCHANGED <<prIF2EXE, prEXE2WB, ifVars, retired>>
-----------------------------------------------------------------------------
(* IFStage. *)

getDestReg(i) ==
    IF \/ i.op \in {"OP", "OP_IMM"} /\ i.funct = "ADD"
       \/ i.op = "LOAD" /\ i.funct = "Word"
       \/ i.op \in {"LUI", "JAL"}
    THEN i.rd ELSE 0

\* The registers whose hazards are looked for.
Sources(i) ==
    CASE i.op = "OP" /\ i.funct = "ADD"       -> {i.rs1, i.rs2}
      [] i.op = "OP_IMM" /\ i.funct = "ADD"   -> {i.rs1}
      [] i.op = "BRANCH" /\ i.funct = "EQ"    -> {i.rs1, i.rs2}
      [] i.op = "STORE" /\ i.funct = "Byte"   -> {i.rs1, i.rs2}
      [] i.op = "LOAD" /\ i.funct = "Word"    -> {i.rs1}
      [] OTHER -> {}

\* Variant: so is register 0.
checkDataHazard_Zero(rd, i) == rd \in Sources(i)
checkDataHazard(rd, i) == rd # 0 /\ rd \in Sources(i)

HazardWith(older, i) == older # None /\ checkDataHazard(getDestReg(packet[older].inst), i)

\* Variant: only the instruction in EXE is looked at.
dataHazard_EXEOnly == HazardWith(EXEInstPacket, packet[soc_s].inst)
dataHazard ==
    HazardWith(EXEInstPacket, packet[soc_s].inst) \/ HazardWith(WBInstPacket, packet[soc_s].inst)

\* Variant: one entry of the record further than the branch is.
controlHazard_TooLate == WBInstPacket # None /\ packet[WBInstPacket].taken
controlHazard == EXEInstPacket # None /\ packet[EXEInstPacket].taken

\* A push into a pipe register that is taken loses the packet.
Pushed(pr, id) == IF pr.in = None THEN [pr EXCEPT !.in = id] ELSE pr

\* Variant: look at the packet and leave it where it is.
Popped_Peek(pr) == pr
Popped(pr) == [pr EXCEPT !.out = None]

instPacketHandler ==
    /\ soc_s' = None
    /\ prIF2EXE' = Pushed(prIF2EXE, soc_s)
    /\ WBInstPacket' = EXEInstPacket
    /\ EXEInstPacket' = soc_s
    /\ UNCHANGED wakeNext

\* Variants: the record is not moved on; IFStage does not ask for the next tick.
Stall_KeepsRecord ==
    /\ wakeNext' = wakeNext \cup {"IF"}
    /\ UNCHANGED <<ifVars, soc_s, prIF2EXE>>
Stall_Asleep ==
    /\ WBInstPacket' = EXEInstPacket
    /\ EXEInstPacket' = None
    /\ UNCHANGED <<wakeNext, soc_s, prIF2EXE>>
Stall ==
    /\ WBInstPacket' = EXEInstPacket
    /\ EXEInstPacket' = None
    /\ wakeNext' = wakeNext \cup {"IF"}
    /\ UNCHANGED <<soc_s, prIF2EXE>>

IFStep ==
    /\ "IF" \in toStep
    /\ toStep' = toStep \ {"IF"}
    /\ IF soc_s # None
       THEN IF dataHazard \/ controlHazard THEN Stall ELSE instPacketHandler
       ELSE UNCHANGED <<soc_s, prIF2EXE, ifVars, wakeNext>>
    /\ UNCHANGED <<cpuVars, packet, free, pendingInstPacket, sIF_m, prEXE2WB, retired, aborted>>
-----------------------------------------------------------------------------
(* EXEStage and WBStage. *)

EXEStep ==
    /\ "EXE" \in toStep
    /\ toStep' = toStep \ {"EXE"}
    /\ IF prIF2EXE.out # None /\ prEXE2WB.in = None
       THEN /\ prIF2EXE' = Popped(prIF2EXE)
            /\ prEXE2WB' = Pushed(prEXE2WB, prIF2EXE.out)
       ELSE UNCHANGED <<prIF2EXE, prEXE2WB>>
    /\ UNCHANGED <<cpuVars, packet, free, portVars, ifVars, wakeNext, retired, aborted>>

WBStep ==
    /\ "WB" \in toStep
    /\ toStep' = toStep \ {"WB"}
    /\ IF prEXE2WB.out # None
       THEN /\ prEXE2WB' = Popped(prEXE2WB)
            /\ free' = free \cup {prEXE2WB.out}
            /\ retired' = [id |-> prEXE2WB.out, was |-> packet[prEXE2WB.out]]
       ELSE UNCHANGED <<prEXE2WB, free, retired>>
    /\ UNCHANGED <<cpuVars, packet, portVars, prIF2EXE, ifVars, wakeNext, aborted>>
-----------------------------------------------------------------------------
(* The end of a tick. *)

sync(pr) == IF pr.out = None THEN [in |-> None, out |-> pr.in] ELSE pr

\* The master port's packet moves on into the slave port's queue of one.
PortMoves == sIF_m # None /\ soc_s = None

\* Variant: HCF is not sent again.
retrySendInstPacket_NotHcf ==
    PortMoves /\ pendingInstPacket # None /\ packet[pendingInstPacket].inst.op # "HCF"

\* masterPortRetry finds the master port empty.
retrySendInstPacket == PortMoves /\ pendingInstPacket # None

Sync ==
    /\ toStep = {}
    /\ soc_s' = IF PortMoves THEN sIF_m ELSE soc_s
    /\ sIF_m' = CASE retrySendInstPacket -> pendingInstPacket
                  [] PortMoves /\ ~retrySendInstPacket -> None
                  [] OTHER -> sIF_m
    /\ pendingInstPacket' = IF retrySendInstPacket THEN None ELSE pendingInstPacket
    /\ prIF2EXE' = sync(prIF2EXE)
    /\ prEXE2WB' = sync(prEXE2WB)
    /\ toStep' = wakeNext
                   \cup {s \in {"SOC"} : /\ retrySendInstPacket
                                         /\ packet[pendingInstPacket].inst.op # "HCF"}
                   \cup {s \in {"IF"}  : PortMoves}
                   \cup {s \in {"EXE"} : prIF2EXE'.out # None}
                   \cup {s \in {"WB"}  : prEXE2WB'.out # None}
    /\ wakeNext' = {}
    /\ retired' = Nothing
    /\ UNCHANGED <<cpuVars, packet, free, ifVars, aborted>>

Next == ~aborted /\ (SOCStep \/ IFStep \/ EXEStep \/ WBStep \/ Sync)

Spec == Init /\ [][Next]_vars

\* The framework steps every simulator that is due, and goes on to the next
\* tick while one is.
FairSpec == Spec /\ WF_vars(Next)
=============================================================================
