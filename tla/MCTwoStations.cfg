SPECIFICATION FairSpec
CONSTANTS
    NoCall = NoCall
    MAXQSOLIFETIME = 8
    QUERYCQDELAY = 3
    MAXQSOPEERS = 512
    Both = {FALSE, TRUE}
    Others = {"program", "peer", "edge", "freetext"}
    MaxLoss = 6
    LogCap = 2
INVARIANTS TwoWayContact LoggedOnce
PROPERTIES ContactIsLogged ExchangeRepeats
