CONSTANTS
    Procs = {p1, p2}
    Bufs = {b1, b2, b3}
    Vnodes = {v1}
    Blocks = {k1}
    Data = {d0}
    None = None
    maxbufmem = 3
    Locked = {}
    Tapes = {}
    Calls = {"getblk", "vflushbuf"}
    SyncErrors = TRUE
    AsyncErrors = FALSE
    MaxCalls = 2
SPECIFICATION FairSpec
PROPERTY CallsReturn
CHECK_DEADLOCK FALSE
