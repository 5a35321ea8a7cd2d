CONSTANTS
    Reqs = {r1, r2}
    Twins = {{r1, r2}}
    Nfsds = {d1, d2}
    Slots = {s1, s2}
    None = None
    Kinds = {"idem", "mbuf"}
    Faults = {"crash", "reuse", "garbled"}
    MaxExec = 2
    MaxCrashes = 1
SPECIFICATION OpenSpec
SYMMETRY Symmetry
INVARIANT RepliesOwn
