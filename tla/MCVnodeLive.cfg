CONSTANTS
    Procs = {p1, p2}
    Vnodes = {v1, v2}
    Names = {a, b}
    None = None
    NSlots = 2
    MaxCache = 1
    Mixes = {{"open", "unlink"}, {"open", "unmount"}}
    MallocSleeps = TRUE
    IdWraps = {FALSE}
SPECIFICATION FairSpec
CHECK_DEADLOCK FALSE
PROPERTY CallsReturn
