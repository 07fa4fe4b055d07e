SPECIFICATION FairSpec
CONSTANTS
    Rigs = {"ft8"}
    NLetters = 2
    MaxFds = 3
    MaxCrashes = 0
INVARIANT ReportIsAired
