------------------------------ MODULE MCCodeGen ------------------------------
(* Instances of the code generator for TLC. *)
EXTENDS CodeGenProps

CONSTANTS cpu, mem, mem2, rtl, fetch, top

MCName == [o \in Objects |-> CASE o = cpu -> "CPU"
                               [] o = mem -> "DataMemory"
                               [] o = mem2 -> "DataMemory"
                               [] o = rtl -> "RTL"
                               [] o = fetch -> "IFStage"]

(* All with an application; the CPU without; the objects without; the top without. *)
MCAppless == {{}, {cpu}, {cpu, mem, fetch}, {top}}
=============================================================================
