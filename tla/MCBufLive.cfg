CONSTANTS
    Procs = {p1, p2}
    Bufs = {b1, b2, b3}
    Vnodes = {v1}
    Blocks = {k1, k2}
    Data = {d0}
    None = None
    maxbufmem = 3
    Locked = {v1}
    Tapes = {}
    Calls = {"breada", "geteblk", "vflushbuf"}
    SyncErrors = FALSE
    AsyncErrors = FALSE
    MaxCalls = 2
SPECIFICATION FairSpec
PROPERTY CallsReturn
CHECK_DEADLOCK FALSE
