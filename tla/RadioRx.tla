------------------------------- MODULE RadioRx -------------------------------
(***************************************************************************)
(* repeater/src/lib/repeater_chan_usrp_rx.cc: the block at the radio end   *)
(* that sends received audio to a ChanUsrp channel.  general_work runs in  *)
(* the flow graph's thread and sends a packet each time the buffer fills;  *)
(* unkey() is called from the control program's thread and sends a header. *)
(* Both take their sequence number with d_sendseq++, which loads, then     *)
(* stores, and then both call sendto: the steps of the two interleave, as  *)
(* the comment "FIXME: need to lock this?" suspects.                       *)
(***************************************************************************)
EXTENDS Integers, Sequences

CONSTANTS
    SampbufSize,  \* d_max_sampbuf_ct: samples of a packet
    RxSeqSpace,   \* d_sendseq is a uint32_t: 2^32
    RxNoVoice     \* the payload of a header-only packet

ASSUME RadioRxAssumption == SampbufSize \in Nat \ {0} /\ RxSeqSpace \in Nat \ {0}

VARIABLES
    d_sendseq,
    sampbuf,      \* the samples in write_buf: d_sampbuf_ct of them
    workPc, workSeq,    \* the flow graph's thread: where it is, its number
    unkeyPc, unkeySeq   \* the control thread, likewise

rxVars == <<d_sendseq, sampbuf, workPc, workSeq, unkeyPc, unkeySeq>>

\* general_work stores one sample; a full buffer starts a packet.
Sample(s) ==
    /\ workPc = "fill"
    /\ sampbuf' = Append(sampbuf, s)
    /\ workPc' = IF Len(sampbuf') >= SampbufSize THEN "load" ELSE "fill"
    /\ UNCHANGED <<d_sendseq, workSeq, unkeyPc, unkeySeq>>

WorkLoad ==
    /\ workPc = "load"
    /\ workSeq' = d_sendseq
    /\ workPc' = "store"
    /\ UNCHANGED <<d_sendseq, sampbuf, unkeyPc, unkeySeq>>

WorkStore_Forgets ==
    /\ workPc = "store"
    /\ d_sendseq' = d_sendseq
    /\ workPc' = "send"
    /\ UNCHANGED <<sampbuf, workSeq, unkeyPc, unkeySeq>>
WorkStore ==
    /\ workPc = "store"
    /\ d_sendseq' = (workSeq + 1) % RxSeqSpace
    /\ workPc' = "send"
    /\ UNCHANGED <<sampbuf, workSeq, unkeyPc, unkeySeq>>

\* What WorkSend hands to sendto.  The result of sendto is not looked at.
AudioPacket ==
    [eye |-> TRUE, seq |-> workSeq, keyup |-> TRUE, voice |-> sampbuf]

WorkSent_KeepsBuffer ==
    /\ workPc = "send"
    /\ sampbuf' = Tail(sampbuf)
    /\ workPc' = "fill"
    /\ UNCHANGED <<d_sendseq, workSeq, unkeyPc, unkeySeq>>
WorkSent ==
    /\ workPc = "send"
    /\ sampbuf' = << >>
    /\ workPc' = "fill"
    /\ UNCHANGED <<d_sendseq, workSeq, unkeyPc, unkeySeq>>

\* unkey() is called; samples that do not fill a packet stay in the buffer.
UnkeyLoad ==
    /\ unkeyPc = "idle"
    /\ unkeySeq' = d_sendseq
    /\ unkeyPc' = "store"
    /\ UNCHANGED <<d_sendseq, sampbuf, workPc, workSeq>>

UnkeyStore ==
    /\ unkeyPc = "store"
    /\ d_sendseq' = (unkeySeq + 1) % RxSeqSpace
    /\ unkeyPc' = "send"
    /\ UNCHANGED <<sampbuf, workPc, workSeq, unkeySeq>>

HeaderPacket ==
    [eye |-> TRUE, seq |-> unkeySeq, keyup |-> FALSE, voice |-> RxNoVoice]

UnkeySent ==
    /\ unkeyPc = "send"
    /\ unkeyPc' = "idle"
    /\ UNCHANGED <<d_sendseq, sampbuf, workPc, workSeq, unkeySeq>>

RxInit ==
    /\ d_sendseq = 0 /\ sampbuf = << >>
    /\ workPc = "fill" /\ workSeq = 0 /\ unkeyPc = "idle" /\ unkeySeq = 0
=============================================================================
