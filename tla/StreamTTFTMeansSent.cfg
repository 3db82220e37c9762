SPECIFICATION Spec
CONSTANTS
    Byte <- MCByte
    Framing <- MCFraming
    WordBytes <- MCWordBytes
    Patterns <- MCPatterns
    Upstreams <- MCUpstreams
    Adapters = {"mock", "openai"}
    WindowSize = 4
    NetBuf = 3
INVARIANT
    TTFTMeansSent
CHECK_DEADLOCK FALSE
