\* Two 222 subhandles of one root at two addresses with holders of their own;
\* two blocks of two transactions, one crash.
SPECIFICATION Spec
CONSTANTS
    n1 = n1  n2 = n2  n3 = n3  r = r
    a1 = a1  a2 = a2  a3 = a3  s = s  x = x
    NoHandle = NoHandle  NoAddr = NoAddr  NoRoot = NoRoot
    NoUtxo = NoUtxo  NoDatum = NoDatum
    Name = {n1, n2}
    Addr = {a1, a3}
    Holder = {s, x, NoAddr}
    Root = {r}
    HolderOf <- MCHolderOf
    RootOf <- MCRootOf
    Asset <- TwoHandles
    Orphans = FALSE
    MaxSlot = 2
    MaxTxs = 2
    MaxInputs = 2
    MaxCrashes = 1
SYMMETRY Symmetric
INVARIANTS
    IndexesMatch
    HandlesMatchLedger
    UtxosMatchLedger
