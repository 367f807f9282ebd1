----------------------------- MODULE MCChanUsrp -----------------------------
(* ChanUsrpSystem for TLC; the configurations give the bounds.             *)
EXTENDS ChanUsrpSystem

BothOutcomes == {TRUE, FALSE}
SendSucceeds == {TRUE}
=============================================================================
