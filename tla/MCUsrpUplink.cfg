SPECIFICATION UpSpec
CONSTANTS
    SampbufSize = 2
    RxSeqSpace = 3
    RxNoVoice = NoVoice
    MaxRxKeyTime = 2
    QueueOverloadThreshold = 1
    SeqSpace = 3
    NoVoice = NoVoice
    OddSize = OddSize
    MaxRxq = 3
    MaxReadq = 1
    MaxWire = 2
    MaxSamples = 8
    MaxUnkeys = 2
    MaxLosses = 1
INVARIANTS AudioComplete AlarmHasCause
