\* One request under a scanner that changes a handle and rebuilds the indexes.
\* A request is answered once, and the scanner may stop.
SPECIFICATION QuerySpec
CHECK_DEADLOCK FALSE
CONSTANTS
    Name <- MCName
    Wallet <- MCWallet
    Length <- MCLength
    Og <- MCOg
    Born <- MCBorn
    Numeric = {3}
    InText <- MCInText
    InHex <- MCInHex
    InBytes <- MCInBytes
    Stores <- MCStores
    Request <- MCRequest
    None = None
    NoSlot = NoSlot
    MaxSlot = 4
    FirstSlots = {0, NoSlot}
    Span = 2
    PerPage = 2
    Big = 2
    MaxEvents = 1
INVARIANTS
    QuietAnswersAreExact
    AnswersWereTrue
    DefaultWasHeld
    SlotSearchHasNoGaps
PROPERTY
    SearchEnds
