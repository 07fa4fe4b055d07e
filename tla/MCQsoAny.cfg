SPECIFICATION Spec
CONSTANTS
    c1 = c1  c2 = c2  c3 = c3
    NoCall = NoCall
    Calls = {c1, c2}
    Hash <- DistinctHash
    MAXQSOLIFETIME = 3
    QUERYCQDELAY = 1
    MAXQSOPEERS = 2
    AdiWritable = TRUE
    Commands <- SlotChanges
    Heard <- Answers
    Timely = FALSE
    MissSlots = FALSE
    MsgsPerSlot = 1
    TickBound = 1
    TxBound = 0
    LogCap = 1
INVARIANTS TypeOK QsoAlive AttemptsBounded PeersAreLogged ClosingIsLogged
PROPERTY ContactKept
CHECK_DEADLOCK FALSE
