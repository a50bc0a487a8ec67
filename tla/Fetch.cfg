\* Three hashes in two batches, two readers, one retry, one wait to state.
SPECIFICATION Spec
CONSTANTS
    Kinds = {"tx_info", "datum_info", "block_txs", "asset_utxos"}
    NHashes = 3
    BatchSize = 2
    PoolSize = 2
    MaxRetries = 1
    Backoff = 1
    PageRows = 1
    Holds = {2}
    Deadline = 5
    MaxTime = 5
INVARIANTS
    ReturnsDrained
    ReturnsAllRows
PROPERTIES
    StartsAreAdmitted
    FetchEnds
