CONSTANTS
    ByteSize = 4
    AddrSize = 40
    NumRegs = 4
    ALU <- MCALU
    text_offset = 4
    data_offset = 32
    max_label_count = 4
    LongLabels = {}
    LowSize = 16
    BranchReach = 32
    JalReach = 64
    Sources <- MCSources
    None = None
    Uninit = {0}

SPECIFICATION LoaderSpec

INVARIANTS
    FetchInText
PROPERTIES
    ImplementsSource

CHECK_DEADLOCK FALSE
