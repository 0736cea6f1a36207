----------------------------- MODULE Correlation -----------------------------
(***************************************************************************)
(* The correlation README.md:39-46 evaluates: one program on the Lab 9     *)
(* hardware, under the test bench topTest.scala, and on the Lab 27         *)
(* simulator, under main.cc, and the cycles each of them reports.  The two *)
(* share nothing but the program and run one after the other.              *)
(***************************************************************************)
EXTENDS RiscvDefs, Sequences

CONSTANTS
    Programs, InstMem(_, _), InitMemories,      \* what both are given
    memLatency, PowerUp,                        \* of the hardware
    ImemSize, Id, None, SameTickReuse           \* of the simulator

VARIABLES
    prog,
    stage_IF, stage_ID, stage_EXE, stage_MEM, stage_WB, regs,
    memory, state, counter, dataReg, latch,
    pc, rf, mem,
    packet, free, pendingInstPacket, sIF_m, soc_s, prIF2EXE, prEXE2WB,
    EXEInstPacket, WBInstPacket, toStep, wakeNext, retired, aborted,
    cycles,     \* N of "RAN N CYCLES PASSED", so far
    ticks       \* M of "Tick=M ... Simulation complete", so far

Lab9  == INSTANCE PiplinedCPUProps
Lab27 == INSTANCE SimTopProps

\* What the two assume of their constants.
ASSUME ProgramAssumption ==
    /\ \A p \in Programs, a \in Addr : InstMem(p, a) \in Inst
    /\ InitMemories \subseteq Memories
    /\ ImemSize \in Nat /\ ImemSize % 4 = 0 /\ ImemSize <= AddrSize

ASSUME LatencyAssumption ==
    memLatency \in Nat /\ memLatency >= 3 /\ PowerUp \subseteq Lab9!Latches

ASSUME PacketAssumption ==
    /\ None \notin Id /\ None \notin Lab27!Packet
    /\ SameTickReuse \in BOOLEAN
    /\ \A a, b, c, d \in Id \cup {None} : Id \ {a, b, c, d} # {}

lab9Vars  == <<stage_IF, stage_ID, stage_EXE, stage_MEM, stage_WB, regs,
               memory, state, counter, dataReg, latch>>
lab27Vars == <<pc, rf, mem, packet, free, pendingInstPacket, sIF_m, soc_s, prIF2EXE, prEXE2WB,
               EXEInstPacket, WBInstPacket, toStep, wakeNext, retired, aborted>>
vars == <<prog, lab9Vars, lab27Vars, cycles, ticks>>

Init ==
    /\ Lab9!Init /\ Lab27!Init
    /\ memory = mem
    /\ cycles = 0 /\ ticks = 0

\* The bench steps the clock until it sees io.Hcf.
RunLab9 ==
    /\ ~Lab9!Hcf
    /\ Lab9!Tick
    /\ cycles' = cycles + 1
    /\ UNCHANGED <<lab27Vars, ticks>>

\* No simulator is due, now or in the next tick, and no assertion has ended the
\* program before.
Complete == ~aborted /\ toStep = {} /\ wakeNext = {} /\ Lab27!Line = <<>>

RunLab27 ==
    /\ Lab9!Hcf /\ ~Complete
    /\ Lab27!Next
    /\ ticks' = IF toStep = {} THEN ticks + 1 ELSE ticks
    /\ UNCHANGED <<lab9Vars, cycles>>

Next == RunLab9 \/ RunLab27

Spec == Init /\ [][Next]_vars
=============================================================================
