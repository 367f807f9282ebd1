SPECIFICATION Spec
CONSTANTS
    Talks <- MCTalks
    Signals <- MCSignals
    Disturbances <- MCDisturbances
    HammingBurst = 5
    GolayBurst = 17
INVARIANTS WholeVoice
CHECK_DEADLOCK FALSE
