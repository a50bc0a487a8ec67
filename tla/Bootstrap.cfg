\* Four assets, two that only Koios is asked for, l a label in the root; pages of one asset and two
\* side by side, a worker of each provider; two blocks there are and a third
\* comes while the script runs.
\* The script exits: it has no next step then.
SPECIFICATION BootstrapSpec
CONSTANTS
    Order <- MCOrder
    NameOf <- MCNames
    Indexed = {"v", "h"}
    KoiosOnly = {"v", "l"}
    Registry = {"l"}
    PageSize = 1
    ParallelPages = 2
    BatchSize = 2
    KoiosWorkers = {"k"}
    BlockfrostWorkers = {"b"}
    MaxBlocks = 3
    FirstTip = 2
    Histories <- MCHistories
INVARIANTS
    EnumeratedHeals
    
PROPERTIES
    RunEnds
CHECK_DEADLOCK FALSE
