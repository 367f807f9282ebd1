------------------------ MODULE MCP25FrameAssembler ------------------------
(* P25FrameAssembler for TLC, lengths scaled down: a sync of 2 dibits, a   *)
(* status dibit every 4, trunking frames of up to two blocks of 2 dibits,  *)
(* LDUs of two codewords, a TDU whose listed length is not past the NID.   *)
EXTENDS P25FrameAssembler

TheDuids == {"ldu", "tsbk", "tdu"}
TheMaxLength == [ldu |-> 18, tsbk |-> 20, tdu |-> 8]
TheAnnounced == {"ldu", "tdu"}
TheLdus == {"ldu"}
TheTsbkMin == <<14, 20>>
TheCodewordEnd == <<14, 18>>

(* The sizes of the code: block b of a trunking frame is complete in a     *)
(* frame of 360, 576 and 720 bits, with 48 + 64 bits of header, blocks of  *)
(* 196 and a status dibit every 36.                                        *)
RealEnd(b) == LET d == (48 + 64 + b * 196 - 1) \div 2 IN 2 * (d + d \div 35 + 1)
ASSUME RealBlocksFit == RealEnd(1) <= 360 /\ RealEnd(2) <= 576 /\ RealEnd(3) <= 720
=============================================================================
