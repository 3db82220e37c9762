SPECIFICATION Spec
CONSTANTS
    Byte <- MCByte
    Framing <- MCFraming
    WordBytes <- MCWordBytes
    Patterns <- MCPatterns
    Upstreams <- MCUpstreams
    Adapters = {"mock", "openai"}
    WindowSize = 3
    NetBuf = 3
INVARIANT
    DeliveredIsClean
CHECK_DEADLOCK FALSE
