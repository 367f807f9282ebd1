--------------------------- MODULE MCTrunkFollower ---------------------------
(* A control channel and two tables; one channel above its table's base, so  *)
(* that the step counts.                                                     *)
EXTENDS TrunkFollower, TLC

ThePlan == 1 :> [frequency |-> 10, step |-> 1] @@ 2 :> [frequency |-> 20, step |-> 5]
TheChannels == {[table |-> 1, channel |-> 0], [table |-> 2, channel |-> 1]}
=============================================================================
