------------------------------- MODULE RadioTx -------------------------------
(***************************************************************************)
(* repeater/src/lib/repeater_chan_usrp.cc: the block at the radio end that *)
(* receives the packets of a ChanUsrp channel, follows its PTT flag and    *)
(* builds the P25 voice frames to transmit, nine codewords each.           *)
(* One general_work call reads every pending packet; a packet is one       *)
(* action, the output of a call another.                                   *)
(***************************************************************************)
EXTENDS Integers, Sequences

CONSTANTS
    NofCodewords,  \* nof_voice_codewords: 9
    TxSeqSpace,    \* d_expected_seq is an unsigned int: 2^32
    TxNoVoice,     \* the payload of a header-only packet
    TxOddSize      \* a payload that is neither empty nor a frame of audio

ASSUME RadioTxAssumption ==
    /\ NofCodewords \in Nat \ {0} /\ TxSeqSpace \in Nat \ {0}

VARIABLES
    d_keyup_state,   \* the PTT flag of the last packet
    d_expected_seq,
    f_body,          \* the codewords in the voice frame being filled
    frame_cnt,       \* LDUs made, modulo 2: LDU1 or LDU2 is next
    output_queue,    \* LDUs to transmit
    transmitted      \* LDUs given to the flow graph

txVars == <<d_keyup_state, d_expected_seq, f_body, frame_cnt, output_queue, transmitted>>

LduName == <<"ldu1", "ldu2">>

\* append_imbe_codeword: the ninth codeword disposes of the frame.
Append9_KeepsBody(v) ==
    LET body == Append(f_body, v)
    IN  IF Len(body) >= NofCodewords
        THEN /\ output_queue' = Append(output_queue,
                                       [ldu |-> LduName[frame_cnt + 1], voice |-> body])
             /\ frame_cnt' = 1 - frame_cnt
             /\ f_body' = body
        ELSE f_body' = body /\ UNCHANGED <<frame_cnt, output_queue>>
Append9(v) ==
    LET body == Append(f_body, v)
    IN  IF Len(body) >= NofCodewords
        THEN /\ output_queue' = Append(output_queue,
                                       [ldu |-> LduName[frame_cnt + 1], voice |-> body])
             /\ frame_cnt' = 1 - frame_cnt
             /\ f_body' = << >>
        ELSE f_body' = body /\ UNCHANGED <<frame_cnt, output_queue>>

\* "received size %d invalid": only a header, or a header and a frame of audio,
\* is taken.  Neither the eye nor the order of the numbers is a condition.
TxTakes(pkt) == pkt.voice # TxOddSize

\* The block prints "possible data loss" for this packet.
TxReportsLoss_NoZeroRule(pkt) == TxTakes(pkt) /\ pkt.seq # d_expected_seq
TxReportsLoss(pkt) ==
    /\ TxTakes(pkt)
    /\ pkt.seq # d_expected_seq /\ pkt.seq # 0 /\ d_expected_seq # 0

TxRefuse(pkt) == ~TxTakes(pkt) /\ UNCHANGED txVars

\* What a packet that is taken does, and what one of another size does not.
TxTake(pkt) ==
    /\ TxTakes(pkt)
    /\ d_keyup_state' = pkt.keyup
    /\ d_expected_seq' = (pkt.seq + 1) % TxSeqSpace
    /\ IF pkt.voice = TxNoVoice THEN UNCHANGED <<f_body, frame_cnt, output_queue>>
                                ELSE Append9(pkt.voice)
    /\ UNCHANGED transmitted

\* The size looked at after the flag: every datagram keys.
TxReceive_KeyFirst(pkt) ==
    \/ TxTake(pkt)
    \/ /\ ~TxTakes(pkt)
       /\ d_keyup_state' = pkt.keyup
       /\ UNCHANGED <<d_expected_seq, f_body, frame_cnt, output_queue, transmitted>>
TxReceive(pkt) == TxTake(pkt) \/ TxRefuse(pkt)

\* The output part of general_work takes LDUs from the front of the queue, or
\* puts out silence.
TxOutput ==
    /\ output_queue # << >>
    /\ transmitted' = Append(transmitted, Head(output_queue))
    /\ output_queue' = Tail(output_queue)
    /\ UNCHANGED <<d_keyup_state, d_expected_seq, f_body, frame_cnt>>

TxInit ==
    /\ d_keyup_state = FALSE /\ d_expected_seq = 0
    /\ f_body = << >> /\ frame_cnt = 0 /\ output_queue = << >> /\ transmitted = << >>
=============================================================================
