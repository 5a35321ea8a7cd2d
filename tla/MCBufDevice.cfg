CONSTANTS
    Procs = {p1, p2}
    Bufs = {b1, b2, b3}
    Vnodes = {v1}
    Blocks = {k1}
    Data = {d0, d1}
    None = None
    maxbufmem = 3
    Locked = {}
    Tapes = {}
    Calls = {"bread", "getblk", "vflushbuf", "vinvalbuf"}
    SyncErrors = TRUE
    AsyncErrors = FALSE
    MaxCalls = 0
SPECIFICATION Spec
SYMMETRY Perms
INVARIANT OutputCounted
INVARIANT DirtyListed
INVARIANT NoPanic
