SPECIFICATION FairSpec
CONSTANTS
    c1 = c1  c2 = c2  c3 = c3
    NoCall = NoCall
    Calls = {c1}
    Hash <- OneHash
    MAXQSOLIFETIME = 8
    QUERYCQDELAY = 3
    MAXQSOPEERS = 2
    AdiWritable = TRUE
    Commands <- SwitchOn
    Heard <- AnyMessage
    Timely = TRUE
    MissSlots = FALSE
    MsgsPerSlot = 1
    TickBound = 1
    TxBound = 0
    LogCap = 1
PROPERTY RR73IsAnswered
CHECK_DEADLOCK FALSE
