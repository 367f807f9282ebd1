SPECIFICATION Spec
CONSTANTS
    Channels <- MCChannels
    Errors <- MCErrors
    Deadband = 2
    MaxDelta = 5
    QueueLimit = 2
    MaxPipe = 1
    MaxClicks = 1
    MaxDrifts = 1
    None = None
INVARIANTS FilterOnChannel NoOvershoot
PROPERTIES Settles DemodKeepsUp
