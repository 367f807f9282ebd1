SPECIFICATION Spec
CONSTANTS
    Threads = {t1, t2, t3}
    MAX_CHANS = 2
    Pvts = {b1, b2, b3}
    Ports = {q1, q2, q3}
    NULL = NULL
SYMMETRY Symmetry
INVARIANTS ChannelsAreOwn PortsAccounted TableExact
CHECK_DEADLOCK FALSE
