SPECIFICATION FairSpec
CONSTANTS
    Rigs = {"ft8", "fake"}
    NLetters = 3
    MaxFds = 2
    MaxCrashes = 1
INVARIANTS LettersInOrder AiredWhenDone IndicatorFollowsAir
PROPERTIES DepositsAreKept LettersLeave ThreadEnds
