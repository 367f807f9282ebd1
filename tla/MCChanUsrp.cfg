SPECIFICATION FairSpec
CONSTANTS
    MaxRxKeyTime = 4
    QueueOverloadThreshold = 2
    SeqSpace = 2
    NoVoice = NoVoice
    OddSize = OddSize
    MaxRxq = 4
    MaxReadq = 2
    MaxWire = 2
    MaxArrivals = 5
    SendOutcomes <- BothOutcomes
INVARIANTS RxKeyMatchesStream VoiceInOrder
PROPERTIES TransmissionEnds ImplementsPtt OverloadEndsTransmission OnlyHangupOrSendErrorStrands
