SPECIFICATION Spec
CONSTANTS
    MaxRxKeyTime = 2
    QueueOverloadThreshold = 1
    SeqSpace = 3
    TxSeqSpace = 3
    NoVoice = NoVoice
    OddSize = OddSize
    TxOddSize = OddSize
    TxNoVoice = NoVoice
    MaxRxq = 1
    MaxReadq = 1
    MaxWire = 3
    NofCodewords = 2
    MaxVoice = 4
    MaxFaults = 2
INVARIANTS KeyedOnlyWhileOwed NoFalseAlarm LdusHoldTheAudio
