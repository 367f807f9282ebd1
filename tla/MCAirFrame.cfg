SPECIFICATION Spec
CONSTANTS
    Talks <- MCTalks
    Signals <- MCSignals
    Disturbances <- MCDisturbances
    HammingBurst = 5
    GolayBurst = 17
INVARIANTS NidExact CleanBlocksKept VoiceDecoded BurstTolerated ReadAsSent
CHECK_DEADLOCK FALSE
