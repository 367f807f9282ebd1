------------------------------ MODULE MCAutoTune ------------------------------
(* Two channels whose carriers are one deadband below or two above, one    *)
(* click and one drift at any moment.                                      *)
EXTENDS AutoTune

MCChannels == {0, 1}
MCErrors == {-Deadband, 2 * Deadband}
=============================================================================
