SPECIFICATION FairSpec
CONSTANTS
    c1 = c1  c2 = c2  c3 = c3
    NoCall = NoCall
    Calls = {c1}
    Hash <- OneHash
    MAXQSOLIFETIME = 3
    QUERYCQDELAY = 1
    MAXQSOPEERS = 2
    AdiWritable = TRUE
    Commands <- Undecided
    Heard <- AnyMessage
    Timely = TRUE
    MissSlots = TRUE
    MsgsPerSlot = 1
    TickBound = 1
    TxBound = 0
    LogCap = 1
PROPERTIES EveryQsoEnds CqKeepsGoing
