-------------------------- MODULE CorrelationProps --------------------------
(***************************************************************************)
(* What "correlate well" (README.md:39) can mean: the two leave the same   *)
(* result, and their cycle counts differ by a constant.                    *)
(***************************************************************************)
EXTENDS Correlation

CONSTANT Offset     \* N - M of a program that waits for nothing

(* The programs and the runs of which SameResult is proved. *)

\* No jump links from the last word: its return address is 0 on the hardware, and
\* AddrSize on the simulator.
NoLinkAtEnd(p) ==
    LET j == InstMem(p, AddrSize - 4) IN ~(j.op \in {"JAL", "JALR"} /\ j.rd # 0)

Comparable(p) == Lab9!Restricted(p) /\ Lab27!Restricted(p) /\ NoLinkAtEnd(p)

\* The simulator stays on word boundaries, executes no zero word, and makes no
\* access beside a multiple of its width, where the hardware would align it.
KeepsToRules ==
    /\ Lab27!StaysInProgram
    /\ LET i == Lab27!Fetched
       IN  "SOC" \in toStep /\ i.op \in {"LOAD", "STORE"} =>
               Lab27!DataAddr(i) % Lanes(i.funct) = 0
-----------------------------------------------------------------------------
BothDone == Lab9!Hcf /\ Complete

\* The hardware and the simulator, whatever they stall, flush and reorder,
\* leave the same registers and the same data memory when they end
\* (README.md:46; RegFile.scala and DataMem.scala against CPU.cc and
\* DataMemory.cc).
SameResult == BothDone => regs = rf /\ memory = mem

\* The simulator never takes longer than the hardware: every reason for which
\* it waits (IFStage.cc:75-108, CPU.cc:171-195) makes the hardware wait at
\* least as long (Controller.scala:335-365, DataMem.scala:26-124). Not so if the
\* container hands out a packet in the tick it gets it in: IFStage may then wait
\* for what has been written over it (SimTopProps, RecordIntact).
NeverSlower == BothDone => cycles - ticks >= Offset

WaitsForNothing(p) ==
    \A a \in Addr :
        LET i == InstMem(p, a)
        IN  /\ i.op \in {"OP", "OP_IMM", "LUI", "AUIPC", "HCF"}
            /\ \A d \in {4, 8, 12} :
                  a + d \in Addr => ~Lab27!RealDependence(i, InstMem(p, a + d))

\* A program without memory accesses, jumps, and dependences among any four
\* neighbours takes the same time on both, up to the constant: neither waits
\* without a reason (in particular not because of register 0). Nor is this so
\* if the container hands out a packet in the tick it gets it in.
AgreeWithoutWaits == BothDone /\ WaitsForNothing(prog) => cycles - ticks = Offset

\* README.md:41 says that the cycles of the two differ by a constant,
\* "N = M - 1".
Correlates == BothDone => cycles - ticks = Offset
=============================================================================
