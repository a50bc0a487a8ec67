\* Two ticks, a sideload and a publisher over a chain of two blocks; two
\* deaths, failures, shortcuts, snapshots, sideloads or requests.
SPECIFICATION ControlSafety
CONSTANTS
    Tick = {t1, t2}
    Sideload = {s1}
    Publisher = {p1}
    Nobody = Nobody
    Dead = Dead
    h1 = h1
    h2 = h2
    Handle = {h1, h2}
    Chain <- ShortChain
    MaxEvents = 2
SYMMETRY TickSymmetry
INVARIANTS
    TicksExcludeEachOther
    PartialIndexIsFlagged
    ScansWholeIndex
    RootMatchesAtRest
