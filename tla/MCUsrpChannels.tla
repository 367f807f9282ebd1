--------------------------- MODULE MCUsrpChannels ---------------------------
EXTENDS UsrpChannels, TLC
\* Threads, memory blocks and ports are interchangeable.
Symmetry == Permutations(Threads) \cup Permutations(Pvts) \cup Permutations(Ports)
=============================================================================
