SPECIFICATION FairSpec
CONSTANTS
    Bytes <- Letters
    Streams <- SomeStreams
    Markers <- Words
    NL = "n"
    CR = "r"
    None = "none"
    MarkerCarry = 2
    Capacity = 4
INVARIANTS
    DetectorSeesWholeStream
    CaptureIsTail
    SettledBeforeClientKnows
    AccountedOnce
PROPERTIES
    TerminalFrees
CHECK_DEADLOCK FALSE
