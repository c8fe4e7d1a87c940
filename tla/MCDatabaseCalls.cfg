SPECIFICATION FairSpec
CONSTANTS
    w = w
    e = e
    mine = mine
    old = old
    Writers = {w}
    Erasers = {e}
    SWEEPER = SWEEPER
    CLOSER = CLOSER
    Rows = {mine, old}
    Erasable = {mine, old}
    DueKeys <- TwoKeys
    None = None
    MaxLog = 2
    MaxTroubles = 1
INVARIANTS TypeOK ErasedIsGone CloseComesLast
PROPERTIES CallsAreAtomic DueRowsAreDestroyed CallsEnd
