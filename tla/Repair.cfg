\* Two repairs, a reader and the scanner around one store.
SPECIFICATION Spec
CONSTANTS
    Repairers = {"r1", "r2"}
    Readers = {"q1"}
    MaxLinks = 1
    Blocks = 1
    MaxFaults = 2
INVARIANTS
    ReadersExcluded
    WholeWithoutJournal
PROPERTIES
    NeverRegresses
    RecoveryCompletes
