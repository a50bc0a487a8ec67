\* A 222 handle with its 100 and 001 and a virtual subhandle; one crash.
SPECIFICATION FairSpec
CONSTANTS
    n1 = n1  n2 = n2  n3 = n3  r = r
    a1 = a1  a2 = a2  a3 = a3  s = s  x = x
    NoHandle = NoHandle  NoAddr = NoAddr  NoRoot = NoRoot
    NoUtxo = NoUtxo  NoDatum = NoDatum
    Name = {n1, n3}
    Addr = {a1}
    Holder = {s, x, NoAddr}
    Root = {r}
    HolderOf <- MCHolderOf
    RootOf <- MCRootOf
    Asset <- Companions
    Orphans = FALSE
    MaxSlot = 2
    MaxTxs = 1
    MaxInputs = 2
    MaxCrashes = 1
INVARIANTS
    RegistryMirrorsHandle
    CompanionsMatchLedger
PROPERTY
    BlockCommits
