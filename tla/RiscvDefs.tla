----------------------------- MODULE RiscvDefs -----------------------------
(***************************************************************************)
(* The vocabulary shared by the Lab 9 hardware model and the sequential    *)
(* machine it is compared with: machine words, addresses, instructions and *)
(* the byte-addressed data memory.                                         *)
(*                                                                         *)
(* An instruction is a record of decoded fields.  rd, rs1 and rs2 are the  *)
(* raw bit fields inst(11,7), inst(19,15) and inst(24,20): every           *)
(* instruction has them, also the ones whose format puts immediate bits    *)
(* there, and the controller must ignore them then.  imm is the            *)
(* sign-extended immediate as an unsigned word.  funct stands for          *)
(* funct3/funct7.                                                          *)
(***************************************************************************)
EXTENDS Integers

CONSTANTS
    ByteSize,       \* number of values of a memory byte (256 in the hardware)
    AddrSize,       \* size of both address spaces (2^15, top.scala:42-44)
    NumRegs,        \* number of registers (32)
    ALU(_, _, _)    \* the ALU: operation, source 1, source 2

WordSize == ByteSize * ByteSize * ByteSize * ByteSize
Word == 0 .. WordSize - 1
Byte == 0 .. ByteSize - 1
Addr == 0 .. AddrSize - 1
Reg  == 0 .. NumRegs - 1

Opcodes == {"LOAD", "STORE", "BRANCH", "JALR", "JAL", "OP_IMM", "OP",
            "AUIPC", "LUI", "HCF"}
Conditions == {"EQ", "NE", "LT", "GE", "LTU", "GEU"}
AluOps == {"ADD", "SLL", "SLT", "SLTU", "XOR", "SRL", "OR", "AND", "SUB", "SRA"}
Widths == {"Byte", "Half", "Word", "UByte", "UHalf"}

\* The words that are instructions, and the all-zero word.
Inst == {i \in [op : Opcodes \cup {"ZERO"}, funct : Conditions \cup AluOps \cup Widths,
                rd : Reg, rs1 : Reg, rs2 : Reg, imm : Word] :
            /\ i.op \in {"OP", "OP_IMM"} => i.funct \in AluOps
            /\ i.op = "BRANCH" => i.funct \in Conditions
            /\ i.op = "LOAD"   => i.funct \in Widths
            /\ i.op = "STORE"  => i.funct \in {"Byte", "Half", "Word"}}

\* The all-zero word: the reset value of every instruction register, and what
\* a flush or a stall leaves behind.  No table of the controller lists opcode 0.
Bubble == [op |-> "ZERO", funct |-> "ADD", rd |-> 0, rs1 |-> 0, rs2 |-> 0, imm |-> 0]

Add(a, b)  == (a + b) % WordSize
Trunc(w)   == w % AddrSize          \* bits (addrWidth-1, 0) of a word
PcPlus4(p) == (p + 4) % AddrSize    \* the program counter wraps

ASSUME SizeAssumption ==
    /\ ByteSize \in Nat \ {0, 1}
    /\ AddrSize \in Nat /\ AddrSize >= 4 /\ AddrSize % 4 = 0
    /\ AddrSize <= WordSize
    /\ NumRegs \in Nat \ {0}

ASSUME ALUAssumption ==
    \A a, b \in Word :
        /\ \A f \in AluOps : ALU(f, a, b) \in Word
        /\ ALU("ADD", a, b) = Add(a, b)
-----------------------------------------------------------------------------
(* Two's complement reading of an unsigned number below size. *)
Signed(v, size) == IF 2 * v >= size THEN v - size ELSE v

BrEq(a, b) == a = b
BrLT(unsigned, a, b) ==
    IF unsigned THEN a < b ELSE Signed(a, WordSize) < Signed(b, WordSize)
-----------------------------------------------------------------------------
(* Byte lanes.  memory \in [Addr -> Byte]. *)

Memories == [Addr -> Byte]

Lanes(width) == CASE width = "Byte" -> 1 [] width = "UByte" -> 1
                  [] width = "Half" -> 2 [] width = "UHalf" -> 2
                  [] OTHER -> 4

ByteOf(w, k) == CASE k = 0 -> w % ByteSize
                  [] k = 1 -> (w \div ByteSize) % ByteSize
                  [] k = 2 -> (w \div (ByteSize * ByteSize)) % ByteSize
                  [] OTHER -> (w \div (ByteSize * ByteSize * ByteSize)) % ByteSize

\* The little-endian value of the lanes at base, extended to a word.
ReadLanes(memory, base, width) ==
    LET b(k) == memory[(base + k) % AddrSize]
        half == b(0) + ByteSize * b(1)
        value == CASE width = "Byte"  -> Signed(b(0), ByteSize)
                   [] width = "UByte" -> b(0)
                   [] width = "Half"  -> Signed(half, ByteSize * ByteSize)
                   [] width = "UHalf" -> half
                   [] OTHER -> half + ByteSize * ByteSize * (b(2) + ByteSize * b(3))
    IN  value % WordSize

\* memory with the low lanes of data stored from base on.
WriteLanes(memory, base, width, data) ==
    [x \in Addr |-> IF x >= base /\ x < base + Lanes(width)
                    THEN ByteOf(data, x - base) ELSE memory[x]]
=============================================================================
