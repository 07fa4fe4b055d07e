SPECIFICATION FairSpec
CONSTANTS
    MAX_REPORTS_PER_PACKET = 2
    SpotsPerSlot = 3
    MaxSpots = 6
INVARIANTS SpotsInOrder TestSpotsStayHome
PROPERTIES SpotsLeave
