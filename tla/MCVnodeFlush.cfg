CONSTANTS
    Procs = {p1, p2, p3}
    Vnodes = {v1, v2}
    Names = {a, b}
    None = None
    NSlots = 2
    MaxCache = 1
    Mixes = {{"open", "unlink", "unmount"}}
    MallocSleeps = FALSE
    IdWraps = {FALSE}
SPECIFICATION Spec
SYMMETRY Perms
CHECK_DEADLOCK FALSE
INVARIANT SleepersWoken
