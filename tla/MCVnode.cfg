CONSTANTS
    Procs = {p1, p2}
    Vnodes = {v1, v2, v3}
    Names = {a, b}
    None = None
    NSlots = 2
    MaxCache = 1
    Mixes = {{"open", "create", "unlink", "write"}, {"open", "unlink", "write", "unmount"}, {"open", "create", "unmount"}}
    MallocSleeps = FALSE
    IdWraps = {TRUE, FALSE}
SPECIFICATION Spec
SYMMETRY Perms
CHECK_DEADLOCK FALSE
INVARIANTS LookupRight AbsentRight UseCounts OneDenode OpenKept NoMissedWakeup
