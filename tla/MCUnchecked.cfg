CONSTANTS
    ByteSize = 4
    AddrSize = 32
    NumRegs = 3
    ALU <- ALUResult
    text_offset = 0
    data_offset = 24
    max_label_count = 3
    LongLabels = {}
    LowSize = 8
    BranchReach = 32
    JalReach = 32
    Sources <- MCUnchecked
    None = None
    Uninit = {0}

SPECIFICATION AsmSpec

INVARIANTS
    ChecksKept

CHECK_DEADLOCK FALSE
