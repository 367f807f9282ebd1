SPECIFICATION AsmSpec
CONSTANTS
    FsSyms = 2
    StatusSym = 2
    NidSyms = 3
    VoiceSize = 20
    Duids <- TheDuids
    MaxLength <- TheMaxLength
    NoDuid = NoDuid
    MaxDibits = 14
    Announced <- TheAnnounced
    Ldus <- TheLdus
    Tsbk = "tsbk"
    TsbkMin <- TheTsbkMin
    BlockBits = 4
    CodewordEnd <- TheCodewordEnd
    QueueLimit = 2
INVARIANT VoiceIsFresh
CHECK_DEADLOCK FALSE
