--------------------------- MODULE MCOp25Decoder ---------------------------
(* Op25Decoder for TLC: three kinds of frame, lengths scaled down with     *)
(* frame sync < header < frames.                                           *)
EXTENDS Op25Decoder

TheKinds == {"hdu", "ldu", "tdu"}
TheSize == [hdu |-> 4, ldu |-> 6, tdu |-> 5]
TheVoice == {"ldu"}
TheSnapshots == {"hdu"}
=============================================================================
