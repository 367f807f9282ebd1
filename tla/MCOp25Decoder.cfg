SPECIFICATION FairSpec
CONSTANTS
    FsLen = 2
    HdrLen = 3
    Kinds <- TheKinds
    Size <- TheSize
    Voice <- TheVoice
    Snapshots <- TheSnapshots
    None = None
    QueueLimit = 2
    MaxBatch = 2
    MaxDibits = 11
INVARIANTS Framing EveryFrameOnce NoSyncMissed
PROPERTY WorkReturns
