\* Two processes, two snapshots, two crashes, timeouts, lapses or resets.
SPECIFICATION ImportSpec
CONSTANTS
    p1 = p1  p2 = p2  s1 = s1  s2 = s2  original = original
    None = None  Stale = Stale  Genesis = Genesis
    Proc = {p1, p2}
    Snapshot = {s1, s2}
    Original = original
    NMint = 1
    NUtxo = 1
    Recover = FALSE
    MaxEvents = 2
SYMMETRY Symmetric
INVARIANTS
    MarkerIsBacked
    StartingPointIsComplete
PROPERTY
    OnlyTheOwnerWrites
    CacheSpec
