SPECIFICATION FairSpec
CONSTANTS
    Refs <- MCRefs
    SourceLocations <- MCSourceLocations
    Symbols <- MCSymbols
    WithCode = {"symbol"}
    FrameSize = 2
    LinkFrames = 1
    SendBuf = 3
    TerminateSlack = 1
    Scripts <- OpenZone
    m_noExit = FALSE
    Threads = {"main", "symbols", "worker"}
PROPERTIES
    ShutdownEnds
