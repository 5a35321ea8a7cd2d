CONSTANTS
    p1 = p1 p2 = p2 p3 = p3
    f1 = f1 f2 = f2 f3 = f3
    i1 = i1
    None = None
    Procs = {p1, p2}
    Files = {f1}
    Inodes = {i1}
    InodeOf <- OneInode
    Fds <- Shared
    Ranges <- Nested
    MaxByte = 2
    Types = {"F_RDLCK", "F_WRLCK"}
    Posix = TRUE
    Flock = FALSE
    Signals = FALSE
    MallocSleeps = FALSE
    maxlockdepth = 2
SPECIFICATION Spec
SYMMETRY Symmetry
INVARIANT NoMissedWakeup ExactBytes
PROPERTY AdvisorySpec
CHECK_DEADLOCK FALSE
