SPECIFICATION Spec
CONSTANTS
    RbTime <- MCRbTime
    RbElements <- MCRbElements
    PeTime <- MCPeTime
    LowPeTime = 1
    FlopTime <- MCFlopTime
    ByteTime <- MCByteTime
    SharedMem = 64
    WordSpan = 65536
    granul = 2
    num_cube = 2
    num_logic_cube = 2
    num_channel = 2
    num_rank = 2
    num_bankgroup = 2
    num_row = 64
    num_col = 2
    Workloads <- MCWorkloads
    Systems <- MCSystems
    Switches <- MCSwitches
    Calls <- MCCalls
    MaxCalls <- MCMaxCalls
    BandwidthX <- MCBandwidthX
    CommandTime = 16
    ActivateTime = 8
INVARIANTS
    HitsAreFaithful
    ChargedAsIfAlone
    UtilizationAtMostOne
    LongerNeverCheaper
    BatchPaysForItsParts
    TrafficIsAccesses
    FlashDoesTheWork
    CallerWithinOneFill
CHECK_DEADLOCK FALSE
