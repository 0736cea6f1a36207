------------------------------ MODULE TimedIsa ------------------------------
(***************************************************************************)
(* What a timing simulator promises: it executes the program like the      *)
(* sequential machine, and every instruction executed goes through the     *)
(* timing model once, unchanged and in program order.  In between it       *)
(* stands in line, with its address and whether it left the straight path. *)
(***************************************************************************)
EXTENDS Isa, Sequences

VARIABLE line

TimedInit == Init /\ line = <<>>

Execute ==
    /\ Next
    /\ line' = Append(line, [inst |-> inst, pc |-> pc, taken |-> pc' # NextInst])

Retire ==
    /\ line # <<>>
    /\ line' = Tail(line)
    /\ UNCHANGED isaVars

TimedSpec == TimedInit /\ [][Execute \/ Retire]_<<isaVars, line>>
=============================================================================
