SPECIFICATION Spec
CONSTANTS
    CcFreq = 1
    Plan <- ThePlan
    ChannelIds <- TheChannels
    MaxPipe = 2
    QueueLimit = 2
INVARIANTS TunedAsGranted StrandedHasCause
PROPERTY LeavesOnOwnTerminator
