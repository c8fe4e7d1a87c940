SPECIFICATION Spec
CONSTANTS
    w = w
    e = e
    mine = mine
    old = old
    Writers = {w}
    Erasers = {e}
    SWEEPER = SWEEPER
    CLOSER = CLOSER
    Rows = {mine, old}
    Erasable = {mine, old}
    DueKeys <- OneKey
    None = None
    MaxLog = 2
    MaxTroubles = 1
INVARIANTS ErasureLeavesNoTrace
