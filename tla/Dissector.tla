------------------------------ MODULE Dissector ------------------------------
(***************************************************************************)
(* What wireshark/plugins/p25/packet-p25cai.c shows of a frame that a      *)
(* receiver sent it as a packet.  It corrects nothing but the trellis and  *)
(* checks no CRC; where an assertion fails it shows nothing of the blocks. *)
(***************************************************************************)
EXTENDS ImbeCode, TsbkCode

\* extract_status_symbols: the bytes that are left of a frame of size bits.
ExtractedLength(size) == size \div 8 - (size \div 8) \div 36

\* tvb_length_remaining, from a bit on.
BytesLeft(size, bit) == ExtractedLength(size) - bit \div 8

-----------------------------------------------------------------------------
(* Trunking blocks.                                                        *)

BitOffset(i) == 112 + 196 * (i - 1)

\* data_deinterleave and trellis_1_2_decode, which are the assembler's.
Block(tvb, i) == TrellisDecoded({b \in 0..195 : BitOffset(i) + b \in tvb})

Readable(size, tvb, i) == BytesLeft(size, BitOffset(i)) >= 25 /\ Block(tvb, i).ok

\* The last block is the first one that says so; bit 95 is its flag.  A frame
\* of trunking blocks is too short for a fourth.
build_tsdu_tvb(size, tvb) ==
    LET last == {i \in 1..3 : 95 \in Block(tvb, i).block}
    IN  IF last # {} /\ \A i \in 1..Min(last) : Readable(size, tvb, i)
        THEN [i \in 1..Min(last) |-> Block(tvb, i).block]
        ELSE << >>

-----------------------------------------------------------------------------
(* Voice: nine times 18 bytes, as received.                                *)

ImbeOffset == <<14, 32, 55, 78, 101, 124, 147, 170, 192>>

dissect_voice(size, tvb) ==
    IF BytesLeft(size, 112) >= 196
    THEN [i \in 1..9 |-> {b \in 0..143 : 8 * ImbeOffset[i] + b \in tvb}]
    ELSE << >>
=============================================================================
