CONSTANTS
    Senders = {s1, s2}
    Readers = {r1, r2}
    None = None
    PIPSIZ = 2
    lowat = 2
    Writes = {1, 3}
    Reads = {2, 3}
    WaitAll = {TRUE, FALSE}
    Calls = {"shutdown read"}
    MaxUnits = 3
SPECIFICATION Spec
CHECK_DEADLOCK FALSE
INVARIANT SpaceComesBack
