CONSTANTS
    ByteSize = 4
    AddrSize = 64
    ImemSize = 64
    NumRegs = 6
    memLatency = 5
    ALU <- MCALU
    InstMem <- MCInstMem
    Programs <- Disagreements
    InitMemories <- MCMemories
    PowerUp <- MCPowerUp
    Id = {p1, p2, p3, p4, p5}
    None = None
    SameTickReuse = FALSE
    Offset = 1
SPECIFICATION Spec
INVARIANT SameResult
CHECK_DEADLOCK FALSE
