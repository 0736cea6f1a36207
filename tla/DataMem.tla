------------------------------ MODULE DataMem ------------------------------
(***************************************************************************)
(* DataMem.scala: a byte memory behind a state machine that answers a      *)
(* request with Valid after memLatency cycles.  The requester must hold    *)
(* its request until then.  Edge(...) is one rising clock edge.            *)
(*                                                                         *)
(* The address, data and length latches have no reset value: they power up *)
(* with any of the values of PowerUp.                                      *)
(***************************************************************************)
EXTENDS RiscvDefs

CONSTANTS
    memLatency,     \* cycles a request takes (5 by default, DataMem.scala:9)
    InitMemories,   \* contents of data.hex
    PowerUp         \* what the latches without a reset value may hold

Latches == [readAddr : Addr, writeAddr : Addr, writeData : Word, length : Widths]

\* With a latency of 1 the access is never made, and with a latency of 2 Valid
\* rises in the cycle that samples the data, one too early for dataReg: the
\* state machine needs a cycle to latch, one to access and one to answer.
ASSUME LatencyAssumption ==
    /\ memLatency \in Nat /\ memLatency >= 3
    /\ InitMemories \subseteq Memories
    /\ PowerUp \subseteq Latches

VARIABLES
    memory,     \* [Addr -> Byte]
    state,      \* "sIdle", "sRead", "sWrite" or "sWait"
    counter,
    dataReg,    \* the word last read, io.rdata
    latch       \* readAddrReg, writeAddrReg, writeDataReg, lengthReg

dmVars == <<memory, state, counter, dataReg, latch>>

DataMemInit ==
    /\ memory \in InitMemories
    /\ state = "sIdle"
    /\ counter = 0
    /\ dataReg = 0
    /\ latch \in PowerUp

\* UByte and UHalf are not in the table and take its default, the word address.
alignedAddr(width, addr) ==
    CASE width = "Byte" -> addr
      [] width = "Half" -> addr - (addr % 2)
      [] OTHER -> addr - (addr % 4)

readData == ReadLanes(memory, alignedAddr(latch.length, latch.readAddr), latch.length)

LastCycle == counter = memLatency - 1

\* io.Valid: every state raises it in the last cycle.
Valid == LastCycle

\* Variant: the counter is not cleared when a request ends.
CountOrFinish_NoReset ==
    /\ state' = IF LastCycle THEN "sIdle" ELSE "sWait"
    /\ counter' = counter + 1

CountOrFinish ==
    IF LastCycle THEN state' = "sIdle" /\ counter' = 0
                 ELSE state' = "sWait" /\ counter' = counter + 1

Idle(Mem_R, Mem_W, addr, length, wdata) ==
    /\ state = "sIdle"
    /\ counter' = IF Mem_R \/ Mem_W THEN 1 ELSE 0
    /\ state' = CASE LastCycle -> "sIdle"
                  [] ~LastCycle /\ Mem_R -> "sRead"
                  [] ~LastCycle /\ ~Mem_R /\ Mem_W -> "sWrite"
                  [] OTHER -> "sIdle"
    /\ latch' = CASE Mem_R -> [latch EXCEPT !.readAddr = addr, !.length = length]
                  [] ~Mem_R /\ Mem_W -> [latch EXCEPT !.writeAddr = addr,
                                          !.writeData = wdata, !.length = length]
                  [] OTHER -> latch
    /\ UNCHANGED <<memory, dataReg>>

Read ==
    /\ state = "sRead"
    /\ dataReg' = readData
    /\ CountOrFinish
    /\ UNCHANGED <<memory, latch>>

Write ==
    /\ state = "sWrite"
    /\ memory' = WriteLanes(memory, alignedAddr(latch.length, latch.writeAddr),
                            latch.length, latch.writeData)
    /\ CountOrFinish
    /\ UNCHANGED <<dataReg, latch>>

Wait ==
    /\ state = "sWait"
    /\ CountOrFinish
    /\ UNCHANGED <<memory, dataReg, latch>>

Edge(Mem_R, Mem_W, addr, length, wdata) ==
    \/ Idle(Mem_R, Mem_W, addr, length, wdata)
    \/ Read
    \/ Write
    \/ Wait
=============================================================================
