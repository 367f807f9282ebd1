--------------------------- MODULE MCUsrpDownlink ---------------------------
(* UsrpDownlink for TLC; the configurations give the bounds.               *)
EXTENDS UsrpDownlink
=============================================================================
