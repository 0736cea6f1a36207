CONSTANTS
    ByteSize = 4
    AddrSize = 32
    ImemSize = 32
    NumRegs = 3
    Slots = 3
    Alphabet <- Both
    ALU <- MCALU
    InstMem <- MCInstMem
    Programs <- BothPrograms
    InitMemories <- AlignedMemories
    Id = {p1, p2, p3, p4, p5}
    None = None
    SameTickReuse = TRUE
SPECIFICATION Spec
INVARIANT Interlock
CHECK_DEADLOCK FALSE
