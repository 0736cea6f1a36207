CONSTANTS
    ByteSize = 4
    AddrSize = 32
    NumRegs = 3
    ALU <- ALUResult
    text_offset = 4
    data_offset = 24
    max_label_count = 3
    LongLabels = {"long"}
    LowSize = 8
    BranchReach = 12
    JalReach = 32
    Sources <- MCSources
    None = None
    Uninit = {0}

SPECIFICATION AsmSpec

INVARIANTS
    TypeOK
    Placed
    AcceptsLegal
    RefusesDangling

CHECK_DEADLOCK FALSE
