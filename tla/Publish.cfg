\* One run of the handler beside a scanner of three blocks over one name, one
\* fault.  The handlers ask nothing of each other, and the theorems hold for any
\* number of them.  A scanner at the tip of the chain has nothing left to do.
SPECIFICATION Spec
CONSTANTS
    Publishers = {"p1"}
    Names = {"a"}
    MaxBlocks = 3
    MaxRuns = 1
    MaxFaults = 1
    Genesis <- MCGenesis
INVARIANTS
    PublishedHeals
    PublishedImports
PROPERTIES
    ScannerCatchesUp
CHECK_DEADLOCK FALSE
