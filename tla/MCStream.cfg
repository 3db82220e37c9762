SPECIFICATION Spec
CONSTANTS
    Byte <- MCByte
    Framing <- MCFraming
    WordBytes <- MCWordBytes
    Patterns <- MCPatterns
    Upstreams <- MCUpstreams
    Adapters = {"mock", "openai"}
    WindowSize = 4
    NetBuf = 3
INVARIANTS
    TypeOK
    Conservation
    Lookahead
    FittingSpansHeld
    CompleteIffNoEvent
    TTFTOnce
PROPERTIES
    NothingAfterAbort
    Termination
    ImplementsRelay
CHECK_DEADLOCK FALSE
