SPECIFICATION FairSpec
CONSTANTS
    Refs <- MCRefs
    SourceLocations <- MCSourceLocations
    Symbols <- MCSymbols
    WithCode = {"symbol"}
    FrameSize = 2
    LinkFrames = 1
    SendBuf = 3
    TerminateSlack = 1
    Scripts <- ClosedZones
    m_noExit = FALSE
    Threads = {"main", "symbols", "worker"}
INVARIANTS
    TypeOK
    
    SendsNeverBlock
    NetBuffersApart
    EventsInOrder
PROPERTIES
    EndsComplete
    ShutdownEnds
