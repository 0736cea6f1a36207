CONSTANTS
    ByteSize = 4
    AddrSize = 32
    NumRegs = 3
    memLatency = 5
    ALU <- MCALU
    InstMem <- MCInstMem
    Programs <- SafePrograms
    InitMemories <- MCMemories
    PowerUp <- MCPowerUp
SPECIFICATION FairSpec
INVARIANTS TypeOK InOrder Handshake FreshOperands
PROPERTIES ImplementsIsa HaltIsFinal KeepsRetiring HcfIsRaised
