---------------------------- MODULE SimTopProps ----------------------------
(***************************************************************************)
(* What the simulator must satisfy: the functional half is the sequential  *)
(* machine, and the timing half is a pipeline in which the stalls of       *)
(* IFStage keep the instructions as far apart as their hazards demand.     *)
(***************************************************************************)
EXTENDS SimTop, Sequences

(* The programs for which the functional half is claimed to be a processor. *)

IsNop(i) == i.op = "OP_IMM" /\ i.funct = "ADD" /\ i.rs1 = 0 /\ i.imm = 0
Writes(i) == i.op \in {"OP", "OP_IMM", "AUIPC", "LUI", "JAL", "JALR", "LOAD"}

\* Nothing is written to register 0, except the zero of a nop.
NoZeroDest(p) ==
    \A a \in Addr : LET i == InstMem(p, a) IN Writes(i) /\ i.rd = 0 => IsNop(i)

NoSltu(p) == \A a \in Addr : LET i == InstMem(p, a) IN i.op = "OP" => i.funct # "SLTU"

\* No JALR links into its own base.
NoJalrOverBase(p) ==
    \A a \in Addr : LET i == InstMem(p, a) IN i.op = "JALR" => i.rd # i.rs1

Aligned(p) ==
    \A a \in Addr : LET i == InstMem(p, a)
                    IN  i.op \in {"JAL", "JALR", "BRANCH"} => i.imm % 4 = 0

Restricted(p) == NoZeroDest(p) /\ NoSltu(p) /\ NoJalrOverBase(p) /\ Aligned(p)
-----------------------------------------------------------------------------
(* The sequential state. *)

\* The packets on their way, the oldest first.
Places == <<prEXE2WB.out, prEXE2WB.in, prIF2EXE.out, prIF2EXE.in, soc_s, sIF_m,
            pendingInstPacket>>
Entry(p) == IF p = None THEN <<>> ELSE <<packet[p]>>
Line == Entry(prEXE2WB.out) \o (Entry(prEXE2WB.in) \o (Entry(prIF2EXE.out)
            \o (Entry(prIF2EXE.in) \o (Entry(soc_s) \o (Entry(sIF_m)
            \o Entry(pendingInstPacket))))))

\* No instruction is due and none waits to be sent again: HCF has been executed.
Halted ==
    /\ ~aborted
    /\ "SOC" \notin toStep \cup wakeNext
    /\ pendingInstPacket # None => packet[pendingInstPacket].inst.op = "HCF"

\* DataMemory makes an access at the address itself.
Exact(width, addr) == addr

\* The pc stays on word boundaries (fetchInstr would drop the rest of a JALR's
\* target, CPU.cc:235, and the pc run on beside the boundaries), and no zero word
\* is executed. The theorem about all programs assumes this of a run; the programs
\* of the instances for TLC keep to it.
StaysInProgram == pc % 4 = 0 /\ ("SOC" \in toStep => Fetched.op # "ZERO")

Sequential == INSTANCE TimedIsa WITH
    AccessAddr <- Exact, PcSize <- WordSize, regs <- rf, memory <- mem,
    halted <- Halted, line <- Line

\* The simulator executes the program like the sequential machine, and every
\* instruction it executes leaves WB once, as it was sent, in program order:
\* no backpressure, retry, stall or reuse of a packet loses, doubles, reorders
\* or alters one (CPU.cc:135-195, IFStage.cc:96-120, EXEStage.cc:41-55,
\* WBStage.hh:33-47).
ImplementsTimedIsa == Sequential!TimedSpec
-----------------------------------------------------------------------------
(* Invariants. *)

PipeRegister == [in : Id \cup {None}, out : Id \cup {None}]

\* Registers, memory and packets hold values of their types.
TypeOK ==
    /\ prog \in Programs /\ pc \in Word /\ rf \in [Reg -> Word] /\ mem \in Memories
    /\ packet \in [Id -> {None} \cup Packet]
    /\ free \subseteq Id
    /\ {pendingInstPacket, sIF_m, soc_s, EXEInstPacket, WBInstPacket} \subseteq Id \cup {None}
    /\ prIF2EXE \in PipeRegister /\ prEXE2WB \in PipeRegister
    /\ toStep \subseteq {"SOC", "IF", "EXE", "WB"}
    /\ wakeNext \subseteq {"SOC", "IF"}
    /\ retired \in {Nothing} \cup [id : Id, was : Packet]
    /\ aborted \in BOOLEAN

\* A packet is in one place, or in the container, or was never allocated: the
\* one WB recycles is in nobody else's hands (WBStage.hh:46, CPU.cc:46-49).
OneHolder ==
    LET held == {k \in DOMAIN Places : Places[k] # None}
    IN  /\ \A j, k \in held : Places[j] = Places[k] => j = k
        /\ \A k \in held : Places[k] \notin free /\ packet[Places[k]] # None
        /\ \A id \in free : packet[id] # None

\* No packet is lost: one that was allocated is on its way or in the container
\* (CPU.cc:139-169, 171-195).
NoneLost ==
    \A id \in Id : packet[id] # None =>
        id \in free \/ \E k \in DOMAIN Places : Places[k] = id

\* Nothing sleeps over a packet: whoever holds one that can move on is due, or
\* has asked for the next tick, and while the SOC waits for the port to take its
\* packet there is one in the port to wait for (IFStage.cc:105, CPU.cc:158-166).
\* A simulator that has stepped leaves what it has moved to the end of the tick.
NothingSleeps ==
    /\ prEXE2WB.out # None => "WB" \in toStep
    /\ prIF2EXE.out # None => "EXE" \in toStep
    /\ soc_s # None => "IF" \in toStep \cup wakeNext
    /\ pendingInstPacket # None => "SOC" \notin toStep \cup wakeNext /\ sIF_m # None
    /\ "SOC" \in wakeNext => sIF_m # None
    /\ prEXE2WB.in # None => "EXE" \notin toStep
    /\ prIF2EXE.in # None => "IF" \notin toStep /\ soc_s = None

\* Whenever IFStage is about to look at its record of what is in EXE and in WB,
\* the record names what is there, or was before this tick moved it on
\* (IFStage.cc:80-90, 102-103, 118-119).
AheadOfIF ==
    [exe |-> IF prIF2EXE.out # None THEN prIF2EXE.out ELSE prEXE2WB.in,
     wb  |-> IF prEXE2WB.out # None THEN prEXE2WB.out ELSE retired.id]

RecordIsExact ==
    ("IF" \in toStep /\ soc_s # None) =>
        EXEInstPacket = AheadOfIF.exe /\ WBInstPacket = AheadOfIF.wb

\* A packet WB has recycled in this tick has not been handed out and overwritten
\* before IFStage looks at it (WBStage.hh:46, CPU.cc:46-49). Nothing in the
\* repository sees to it: it holds if the container keeps a packet until the
\* next tick, and is the premise of InterlockIfIntact.
RecordIntact ==
    ("IF" \in toStep /\ soc_s # None /\ WBInstPacket # None /\ WBInstPacket = retired.id) =>
        packet[WBInstPacket] = retired.was

\* What the simulator can tell a dependence by, and what a dependence is.
Tabled(older, younger) == checkDataHazard(getDestReg(older), younger)
Reads(i) == CASE i.op \in {"OP", "STORE", "BRANCH"} -> {i.rs1, i.rs2}
              [] i.op \in {"OP_IMM", "LOAD", "JALR"} -> {i.rs1}
              [] OTHER -> {}
RealDependence(older, younger) == Writes(older) /\ older.rd # 0 /\ older.rd \in Reads(younger)

\* At the end of a tick: the instruction IFStage let through (if any), and what
\* was in EXE, and in WB, during this tick.
Entering == toStep = {} /\ prIF2EXE.in # None
Entered == packet[prIF2EXE.in].inst
KeptFromEXE(depends(_, _)) ==
    (Entering /\ prEXE2WB.in # None) => ~depends(packet[prEXE2WB.in].inst, Entered)
KeptFromWB(depends(_, _)) ==
    (Entering /\ retired # Nothing) => ~depends(retired.was.inst, Entered)

\* An instruction that enters EXE needs no result of the one it follows directly,
\* as far as the tables of IFStage.cc:19-68 tell, and that one is no taken branch
\* (IFStage.cc:80-90).
ApartFromEXE ==
    /\ KeptFromEXE(Tabled)
    /\ (Entering /\ prEXE2WB.in # None) => ~packet[prEXE2WB.in].taken

\* Nor of the one before that: the data hazards of the tables are kept apart.
Interlock == ApartFromEXE /\ KeptFromWB(Tabled)

\* The interlock fails in no other way than by a packet that is overwritten
\* under IFStage's record (WBStage.hh:46, IFStage.cc:82-83).
InterlockIfIntact == []RecordIntact => []Interlock

\* All data hazards are kept apart, as in the hardware the simulator is a model of
\* (README.md:46; Controller.scala:250-362).
FullInterlock == KeptFromEXE(RealDependence) /\ KeptFromWB(RealDependence)

\* IFStage and EXEStage find the pipe registers they push into empty, as their
\* error messages say (IFStage.cc:117, EXEStage.cc:53), although IFStage does
\* not ask; and the object pool suffices.
RoomAhead ==
    /\ "IF" \in toStep /\ soc_s # None => prIF2EXE.in = None
    /\ "EXE" \in toStep /\ prIF2EXE.out # None => prEXE2WB.in = None
    /\ "SOC" \in toStep => Acquirable # {} /\ pendingInstPacket = None
-----------------------------------------------------------------------------
(* Liveness. *)

\* Nothing gets stuck on its way: while there are instructions in line, WB
\* keeps retiring (IFStage.cc:105, CPU.cc:171-195, SOC.cc:69).
Drains == []<>(Line = <<>> \/ retired # Nothing \/ aborted)

\* A program that executes an HCF ends with an empty pipeline.
HaltDrains == Halted ~> (Halted /\ Line = <<>>)
=============================================================================
