CONSTANTS
    Reqs = {r1, r2}
    Twins = {}
    Nfsds = {d1}
    Slots = {s1}
    None = None
    Kinds = {"status"}
    Faults = {"loss", "crash"}
    Mounts <- Interrupts
    nm_retry = 1
    MaxWindow = 2
    MaxExec = 1
    MaxCrashes = 1
SPECIFICATION FairSpec
CHECK_DEADLOCK FALSE
PROPERTY TimerSends
