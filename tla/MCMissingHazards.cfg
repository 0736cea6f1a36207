CONSTANTS
    ByteSize = 4
    AddrSize = 32
    ImemSize = 32
    NumRegs = 3
    Slots = 3
    Alphabet <- Others
    ALU <- MCALU
    InstMem <- MCInstMem
    Programs <- SafePrograms
    InitMemories <- MCMemories
    Id = {p1, p2, p3, p4, p5}
    None = None
    SameTickReuse = FALSE
SPECIFICATION Spec
INVARIANT FullInterlock
CHECK_DEADLOCK FALSE
