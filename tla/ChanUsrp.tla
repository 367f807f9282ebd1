------------------------------ MODULE ChanUsrp ------------------------------
(***************************************************************************)
(* One channel of the Asterisk driver repeater/src/lib/chan_usrp.c: the    *)
(* usrp_pvt structure, the callbacks Asterisk makes on it and the two      *)
(* streams it joins.  Radio packets come in through usrp_xread, wait in    *)
(* rxq and are handed to Asterisk, one per usrp_xwrite, as VOICE frames    *)
(* bracketed by RADIO_KEY and RADIO_UNKEY.  Audio frames Asterisk writes   *)
(* while the transmitter is keyed go out as UDP packets.                   *)
(*                                                                         *)
(* Asterisk holds the channel's lock over each callback, so a callback is  *)
(* one action.  The table of channels, which is not locked, is the subject *)
(* of module UsrpChannels.                                                 *)
(***************************************************************************)
EXTENDS Integers, Sequences

CONSTANTS
    MaxRxKeyTime,            \* MAX_RXKEY_TIME: writes without voice until unkey
    QueueOverloadThreshold,  \* QUEUE_OVERLOAD_THRESHOLD
    SeqSpace,                \* sequence numbers travel as uint32: 2^32
    NoVoice,                 \* the payload of a packet that carries no audio
    OddSize,                 \* a payload of less than a frame of audio
    MaxRxq, MaxReadq, MaxWire \* bounds on what may wait in each queue

ASSUME ConstAssumption ==
    /\ MaxRxKeyTime \in Nat /\ MaxRxKeyTime > 1
    /\ QueueOverloadThreshold \in Nat
    /\ SeqSpace \in Nat /\ SeqSpace > 1
    /\ MaxRxq \in Nat /\ MaxReadq \in Nat /\ MaxWire \in Nat
    /\ NoVoice \notin Nat /\ OddSize \notin Nat /\ NoVoice # OddSize

VARIABLES
    pvt,         \* the channel has its usrp_pvt (ast->tech_pvt # NULL)
    astState,    \* ast->_state
    txkey, rxkey, unkeyOwed, sendSeq, rxSeq,  \* fields of usrp_pvt
    rxq,         \* the payloads queued by usrp_xread (p->rxq)
    readq,       \* frames ast_queue_frame gave to Asterisk, not yet read
    coreKeyed,   \* Asterisk has read a KEY more recently than an UNKEY
    wire         \* packets handed to sendto, not yet at the other end

pvtVars == <<txkey, rxkey, unkeyOwed, sendSeq, rxSeq, rxq>>
chanVars == <<pvt, astState, pvtVars, readq, coreKeyed, wire>>

(* A definition Name_Variant is a plausible slip in the definition Name it   *)
(* precedes; PROJECT.json pairs each with the property that catches it.      *)

-----------------------------------------------------------------------------
(* Data.                                                                   *)

KEY == [type |-> "radio_key", voice |-> NoVoice]
UNKEY == [type |-> "radio_unkey", voice |-> NoVoice]
VOICE(v) == [type |-> "voice", voice |-> v]
Frame == {KEY, UNKEY} \cup [type : {"voice"}, voice : Nat]

\* What struct _chan_usrp_bufhdr and the datagram's length say: whether the
\* eye matches, the sequence number, the PTT flag, and what follows the header:
\* the audio of a frame, USRP_VOICE_FRAME_SIZE bytes of it, or nothing, or
\* some other number of bytes.
Packet == [eye : BOOLEAN, seq : 0..SeqSpace - 1, keyup : BOOLEAN,
           voice : Nat \cup {NoVoice, OddSize}]

HasAudio(pkt) == pkt.voice \notin {NoVoice, OddSize}

UnkeyPacket(s) == [eye |-> TRUE, seq |-> s, keyup |-> FALSE, voice |-> NoVoice]
VoicePacket(s, v) == [eye |-> TRUE, seq |-> s, keyup |-> TRUE, voice |-> v]

Inc(s) == (s + 1) % SeqSpace

-----------------------------------------------------------------------------
(* usrp_request: usrp_alloc clears the new structure, usrp_new attaches it *)
(* to a channel that is down.                                              *)

ClearedPvt ==
    /\ txkey' = FALSE /\ rxkey' = 0 /\ unkeyOwed' = FALSE
    /\ sendSeq' = 0 /\ rxSeq' = 0 /\ rxq' = << >>

Request ==
    /\ ~pvt
    /\ pvt' = TRUE
    /\ astState' = "DOWN"
    /\ ClearedPvt
    /\ readq' = << >> /\ coreKeyed' = FALSE
    /\ UNCHANGED wire

\* usrp_call: a channel that is already up is refused and left alone.
Call ==
    /\ pvt
    /\ astState = "DOWN"
    /\ astState' = "UP"
    /\ UNCHANGED <<pvt, pvtVars, readq, coreKeyed, wire>>

\* usrp_hangup: the structure is freed as it is; nothing is sent.  The freed
\* fields and the frames of the dead channel are cleared here because nothing
\* can read them any more.
Hangup ==
    /\ pvt
    /\ pvt' = FALSE
    /\ astState' = "DOWN"
    /\ ClearedPvt
    /\ readq' = << >> /\ coreKeyed' = FALSE
    /\ UNCHANGED wire

-----------------------------------------------------------------------------
(* usrp_xread: one datagram from the radio.  The PTT flag is not looked    *)
(* at; audio goes to the tail of rxq, and a datagram of another size than  *)
(* a frame's counts in rxseq only.                                         *)

Enqueue_AtHead(v) == <<v>> \o rxq
Enqueue(v) == Append(rxq, v)

Xread(pkt) ==
    /\ pvt
    /\ Len(rxq) < MaxRxq
    /\ IF pkt.eye
       THEN /\ rxSeq' = pkt.seq + 1
            /\ rxq' = IF HasAudio(pkt) THEN Enqueue(pkt.voice) ELSE rxq
       ELSE UNCHANGED <<rxSeq, rxq>>
    /\ UNCHANGED <<pvt, astState, txkey, rxkey, unkeyOwed, sendSeq, readq,
                   coreKeyed, wire>>

\* usrp_xread prints "possible data loss" for this packet.
ReportsLoss(pkt) == pkt.eye /\ pkt.seq # rxSeq /\ pkt.seq # 0 /\ rxSeq # 0

-----------------------------------------------------------------------------
(* usrp_xwrite: Asterisk writes one frame.  The receive queue is served    *)
(* first, then the frame is sent if the transmitter is keyed.              *)

Overloaded == Len(rxq) > QueueOverloadThreshold

\* rxkey after the queue was served and before the countdown.
ServedRxKey_OverloadIgnored ==
    IF rxq = << >> \/ Overloaded THEN rxkey ELSE MaxRxKeyTime
ServedRxKey ==
    CASE rxq = << >> -> rxkey
      [] Overloaded  -> IF rxkey > 0 THEN 1 ELSE 0
      [] OTHER       -> MaxRxKeyTime

KeyFrames_EachVoice == IF rxq # << >> /\ ~Overloaded THEN <<KEY>> ELSE << >>
KeyFrames == IF rxq # << >> /\ ~Overloaded /\ rxkey = 0 THEN <<KEY>> ELSE << >>
VoiceFrames == IF rxq # << >> /\ ~Overloaded THEN <<VOICE(Head(rxq))>> ELSE << >>
UnkeyFrames_StaleRxKey == IF rxkey = 1 THEN <<UNKEY>> ELSE << >>
UnkeyFrames_OnlyWithQueue ==
    IF rxq # << >> /\ ServedRxKey = 1 THEN <<UNKEY>> ELSE << >>
UnkeyFrames == IF ServedRxKey = 1 THEN <<UNKEY>> ELSE << >>

Burst == KeyFrames \o VoiceFrames \o UnkeyFrames

ServeRxq ==
    /\ rxq' = IF rxq = << >> \/ Overloaded THEN << >> ELSE Tail(rxq)
    /\ readq' = readq \o Burst
    /\ rxkey' = IF ServedRxKey > 0 THEN ServedRxKey - 1 ELSE 0

\* sendOk is FALSE when sendto returns -1: the number is spent all the same.
Send(pkt, sendOk) ==
    /\ sendSeq' = Inc(sendSeq)
    /\ wire' = IF sendOk THEN Append(wire, pkt) ELSE wire

\* The frame's payload v is sent as long as it is: a frame of audio, nothing
\* (NoVoice) or less than a frame (OddSize).  A longer one, a frame that is not
\* voice or not linear, and a channel that is not up return at once.
Xwrite(v, sendOk) ==
    /\ pvt
    /\ astState = "UP"
    /\ Len(readq) < MaxReadq
    /\ Len(wire) < MaxWire
    /\ ServeRxq
    /\ IF txkey
       THEN /\ unkeyOwed' = TRUE
            /\ Send(VoicePacket(sendSeq, v), sendOk)
       ELSE UNCHANGED <<unkeyOwed, sendSeq, wire>>
    /\ UNCHANGED <<pvt, astState, txkey, rxSeq, coreKeyed>>

-----------------------------------------------------------------------------
(* usrp_indicate: RADIO_KEY and RADIO_UNKEY fall into the same tail, which *)
(* pays an owed unkey packet; every other condition returns early.         *)

PayUnkey_NotOnKey(key, sendOk) ==
    IF unkeyOwed /\ ~key
    THEN unkeyOwed' = FALSE /\ Send(UnkeyPacket(sendSeq), sendOk)
    ELSE unkeyOwed' = FALSE /\ UNCHANGED <<sendSeq, wire>>
PayUnkey(key, sendOk) ==
    IF unkeyOwed
    THEN unkeyOwed' = FALSE /\ Send(UnkeyPacket(sendSeq), sendOk)
    ELSE UNCHANGED <<unkeyOwed, sendSeq, wire>>

Indicate(key, sendOk) ==
    /\ pvt
    /\ Len(wire) < MaxWire
    /\ txkey' = key
    /\ PayUnkey(key, sendOk)
    /\ UNCHANGED <<pvt, astState, rxkey, rxSeq, rxq, readq, coreKeyed>>

-----------------------------------------------------------------------------
(* Asterisk reads a frame this driver queued (external).                   *)

CoreRead ==
    /\ pvt
    /\ readq # << >>
    /\ coreKeyed' = (Head(readq) # UNKEY)
    /\ readq' = Tail(readq)
    /\ UNCHANGED <<pvt, astState, pvtVars, wire>>

ChanInit ==
    /\ pvt = FALSE
    /\ astState = "DOWN"
    /\ txkey = FALSE /\ rxkey = 0 /\ unkeyOwed = FALSE
    /\ sendSeq = 0 /\ rxSeq = 0 /\ rxq = << >>
    /\ readq = << >> /\ coreKeyed = FALSE
    /\ wire = << >>
=============================================================================
