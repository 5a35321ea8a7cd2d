CONSTANTS
    p1 = p1 p2 = p2 p3 = p3
    f1 = f1 f2 = f2 f3 = f3
    i1 = i1
    None = None
    Procs = {p1, p2}
    Files = {f1}
    Inodes = {i1}
    InodeOf <- OneInode
    Fds <- Shared
    Ranges <- Middle
    MaxByte = 3
    Types = {"F_RDLCK", "F_WRLCK"}
    Posix = TRUE
    Flock = FALSE
    Signals = FALSE
    MallocSleeps = TRUE
    maxlockdepth = 2
SPECIFICATION Spec
INVARIANT WriteExclusive
