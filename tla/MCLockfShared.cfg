CONSTANTS
    p1 = p1 p2 = p2 p3 = p3
    f1 = f1 f2 = f2 f3 = f3
    i1 = i1
    None = None
    Procs = {p1, p2, p3}
    Files = {f1, f2, f3}
    Inodes = {i1}
    InodeOf <- OneInode
    Fds <- Inherited
    Ranges <- Records
    MaxByte = 3
    Types = {"F_WRLCK"}
    Posix = FALSE
    Flock = TRUE
    Signals = FALSE
    MallocSleeps = FALSE
    maxlockdepth = 2
SPECIFICATION Spec
INVARIANT LocksEnd
