CONSTANTS
    Procs = {p1, p2}
    Bufs = {b1, b2, b3}
    Vnodes = {v1, v2}
    Blocks = {k1}
    Data = {d0, d1}
    None = None
    maxbufmem = 3
    Locked = {v1, v2}
    Tapes = {v2}
    Calls = {"bread", "getblk", "geteblk", "vflushbuf"}
    SyncErrors = TRUE
    AsyncErrors = FALSE
    MaxCalls = 0
SPECIFICATION Spec
SYMMETRY Perms
INVARIANT OneOwner
INVARIANT NoMissedWakeup
INVARIANT Coherent
INVARIANT UniqueBlock
INVARIANT Identified
