-------------------------------- MODULE Alu --------------------------------
(***************************************************************************)
(* ALU.scala on words of Width bits (32 in the hardware).  The shifts use  *)
(* the low bits of the second source that can name a bit of a word:        *)
(* src2(4, 0) of 32.                                                       *)
(***************************************************************************)
EXTENDS Integers

CONSTANT Width   \* at least 1

Modulus == 2 ^ Width
Bit(v, n) == (v \div 2 ^ n) % 2
AsSInt(v) == IF Bit(v, Width - 1) = 1 THEN v - Modulus ELSE v

\* The word whose bit n is f[Bit(a, n)][Bit(b, n)].
BitByBit(f, a, b) ==
    LET sum[n \in 0 .. Width] ==
            IF n = 0 THEN 0
            ELSE sum[n - 1] + 2 ^ (n - 1) * f[Bit(a, n - 1)][Bit(b, n - 1)]
    IN  sum[Width]

Table(f(_, _)) == [x \in {0, 1} |-> [y \in {0, 1} |-> f(x, y)]]
AndTable == Table(LAMBDA x, y : x * y)
OrTable  == Table(LAMBDA x, y : x + y - x * y)
XorTable == Table(LAMBDA x, y : (x + y) % 2)

ALUOut(sel, src1, src2) ==
    LET shamt == src2 % Width
    IN  CASE sel = "ADD"  -> (src1 + src2) % Modulus
          [] sel = "SUB"  -> (src1 - src2) % Modulus
          [] sel = "SLL"  -> (src1 * 2 ^ shamt) % Modulus
          [] sel = "SRL"  -> src1 \div 2 ^ shamt
          [] sel = "SRA"  -> (AsSInt(src1) \div 2 ^ shamt) % Modulus
          [] sel = "SLT"  -> IF AsSInt(src1) < AsSInt(src2) THEN 1 ELSE 0
          [] sel = "SLTU" -> IF src1 < src2 THEN 1 ELSE 0
          [] sel = "XOR"  -> BitByBit(XorTable, src1, src2)
          [] sel = "OR"   -> BitByBit(OrTable, src1, src2)
          [] sel = "AND"  -> BitByBit(AndTable, src1, src2)
          [] OTHER        -> 0
=============================================================================
