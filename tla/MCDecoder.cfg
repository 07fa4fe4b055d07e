SPECIFICATION Spec
CONSTANTS
    Calls <- MCCalls
    N22 <- MCN22
    CALLSIGN_HASH_TABLE_SIZE = 3
    Candidates <- MCCandidates
    Contacts <- MCContacts
    StartsCQ = {"CQ"}
    StartsRcall = {"SA0PRF"}
    TwoLetters = {"DX"}
    NULL = NULL
    K_MAX_MESSAGES = 3
    MaxCandidates = 4
INVARIANTS EveryMessageOnce DecodesFit CallsResolve InfoIsPeers
