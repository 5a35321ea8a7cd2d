CONSTANTS
    Senders = {s1, s2}
    Readers = {r1, r2}
    None = None
    PIPSIZ = 2
    lowat = 2
    Writes = {1, 3}
    Reads = {2, 3}
    WaitAll = {TRUE, FALSE}
    Calls = {"shutdown read", "shutdown write", "close", "signal"}
    MaxUnits = 3
SPECIFICATION FairSpec
CHECK_DEADLOCK FALSE
INVARIANTS InOrder Backpressure NoMissedWakeup StreamMoves EofRight
PROPERTY CallsEnd
