CONSTANTS
    ByteSize = 4
    AddrSize = 32
    ImemSize = 32
    NumRegs = 3
    memLatency = 5
    ALU <- MCALU
    InstMem <- MCInstMem
    Programs <- SafePrograms
    InitMemories <- MCMemories
    PowerUp <- MCPowerUp
    Id = {p1, p2, p3, p4, p5}
    None = None
    SameTickReuse = FALSE
    Offset = 1
SPECIFICATION Spec
INVARIANTS KeepsToRules SameResult NeverSlower AgreeWithoutWaits
CHECK_DEADLOCK FALSE
