---------------------------- MODULE MCUsrpUplink ----------------------------
(* UsrpUplink for TLC; the configuration gives the bounds.                 *)
EXTENDS UsrpUplink
=============================================================================
