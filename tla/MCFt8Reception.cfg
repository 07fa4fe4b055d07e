SPECIFICATION Spec
CONSTANTS
    Calls <- MCCalls
    N22 <- HashOf
    CALLSIGN_HASH_TABLE_SIZE = 4
    NUM_BIN = 9
    High = 120
    Mid = 114
    Low = 100
    num_candidates = 5
    NoCandidate = NoCandidate
    Plans <- MCPlans
    Errors <- MCErrors
    K_MIN_SCORE = 10
    K_LDPC_ITERS = 3
INVARIANTS HeardAsSent CleanIsHeard CodewordsOnly BestFirst
PROPERTY NoNearMiss
