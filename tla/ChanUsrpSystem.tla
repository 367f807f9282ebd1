--------------------------- MODULE ChanUsrpSystem ---------------------------
(***************************************************************************)
(* A ChanUsrp channel with its two neighbours: Asterisk, which requests,   *)
(* calls, writes to, indicates on, reads from and hangs up the channel,    *)
(* and the radio end, whose datagrams arrive in any order and with any     *)
(* sequence number, and which receives what the channel sends.             *)
(***************************************************************************)
EXTENDS ChanUsrp, PttOps

CONSTANTS
    SendOutcomes,  \* what sendto may do: TRUE sent, FALSE returned -1
    MaxArrivals    \* bound on the audio packets that arrive

ASSUME EnvAssumption == SendOutcomes \subseteq BOOLEAN /\ MaxArrivals \in Nat

VARIABLES
    arrived,     \* audio packets accepted so far; also names the next payload
    lastHeard,   \* payload of the last VOICE frame Asterisk read
    remoteKeyed  \* PTT state the last packet delivered to the radio carried

vars == <<chanVars, arrived, lastHeard, remoteKeyed>>

Init == ChanInit /\ arrived = 0 /\ lastHeard = 0 /\ remoteKeyed = FALSE

\* A datagram arrives: with the eye or not, with audio or of another length.
Arrive ==
    \E eye \in BOOLEAN, s \in 0..SeqSpace - 1, full \in BOOLEAN :
        /\ full => arrived < MaxArrivals
        /\ Xread([eye |-> eye, seq |-> s, keyup |-> full,
                  voice |-> IF full THEN arrived + 1 ELSE NoVoice])
        /\ arrived' = IF full THEN arrived + 1 ELSE arrived
        /\ UNCHANGED <<lastHeard, remoteKeyed>>

Lifecycle ==
    /\ Request \/ Call \/ Hangup
    /\ UNCHANGED <<arrived, lastHeard, remoteKeyed>>

\* The audio Asterisk writes is not told apart: payload 0.  What the radio end
\* makes of frames of other lengths is in UsrpDownlink.
Write ==
    /\ \E ok \in SendOutcomes : Xwrite(0, ok)
    /\ UNCHANGED <<arrived, lastHeard, remoteKeyed>>

IndicateKey ==
    /\ \E ok \in SendOutcomes : Indicate(TRUE, ok)
    /\ UNCHANGED <<arrived, lastHeard, remoteKeyed>>

IndicateUnkey ==
    /\ \E ok \in SendOutcomes : Indicate(FALSE, ok)
    /\ UNCHANGED <<arrived, lastHeard, remoteKeyed>>

ReadFrame ==
    /\ CoreRead
    /\ lastHeard' = IF Head(readq).type = "voice" THEN Head(readq).voice ELSE lastHeard
    /\ UNCHANGED <<arrived, remoteKeyed>>

\* The oldest packet on its way reaches the radio end.
Deliver ==
    /\ wire # << >>
    /\ remoteKeyed' = Head(wire).keyup
    /\ wire' = Tail(wire)
    /\ UNCHANGED <<pvt, astState, pvtVars, readq, coreKeyed, arrived, lastHeard>>

Next ==
    \/ Arrive \/ Lifecycle \/ Write \/ IndicateKey \/ IndicateUnkey
    \/ ReadFrame \/ Deliver

Spec == Init /\ [][Next]_vars

\* Asterisk's scheduling: a bridged channel is written a frame every 20 ms and
\* its queued frames are read; packets in flight arrive.  Nothing obliges
\* anybody to key, unkey, send or hang up.
Fairness == WF_vars(Write) /\ WF_vars(ReadFrame) /\ WF_vars(Deliver)

FairSpec == Spec /\ Fairness

-----------------------------------------------------------------------------
(* Type invariant.                                                         *)

TypeOK ==
    /\ pvt \in BOOLEAN /\ astState \in {"DOWN", "UP"}
    /\ txkey \in BOOLEAN /\ unkeyOwed \in BOOLEAN
    /\ rxkey \in 0..MaxRxKeyTime - 1
    /\ sendSeq \in 0..SeqSpace - 1 /\ rxSeq \in 0..SeqSpace
    /\ rxq \in Seq(Nat) /\ readq \in Seq(Frame) /\ wire \in Seq(Packet)
    /\ coreKeyed \in BOOLEAN /\ remoteKeyed \in BOOLEAN
    /\ arrived \in Nat /\ lastHeard \in Nat

-----------------------------------------------------------------------------
(* Receive direction: radio to Asterisk.                                   *)

Kind(f) == CASE f = KEY -> "key" [] f = UNKEY -> "unkey" [] OTHER -> "voice"
KindsOf(s) == [i \in 1..Len(s) |-> Kind(s[i])]

Ptt == INSTANCE PttStream WITH
           AudioKinds <- {"voice"}, MaxBurst <- 3,
           items <- KindsOf(readq), heard <- coreKeyed

\* What Asterisk hears is a push-to-talk stream: usrp_xwrite never queues a
\* second RADIO_KEY, a RADIO_UNKEY with no KEY, or voice outside the two.
ImplementsPtt == Ptt!PttSpec

\* The countdown p->rxkey and the stream agree: rxkey is nonzero exactly when
\* Asterisk, having read everything queued, is inside a transmission; and what
\* is queued is legal from where Asterisk stands.
RxKeyMatchesStream ==
    /\ Legal(coreKeyed, KindsOf(readq))
    /\ (rxkey > 0) <=> OpenAfter(coreKeyed, KindsOf(readq))

\* Audio reaches Asterisk in the order it arrived, each packet at most once,
\* across the hand-over from rxq to the frame queue: an overload drops packets
\* and reorders none.
Voiced == {i \in DOMAIN readq : readq[i].type = "voice"}

VoiceInOrder ==
    /\ lastHeard <= arrived
    /\ \A i \in Voiced :
         /\ lastHeard < readq[i].voice /\ readq[i].voice <= arrived
         /\ \A j \in Voiced : i < j => readq[i].voice < readq[j].voice
         /\ \A j \in DOMAIN rxq : readq[i].voice < rxq[j]
    /\ \A i \in DOMAIN rxq :
         /\ lastHeard < rxq[i] /\ rxq[i] <= arrived
         /\ \A j \in DOMAIN rxq : i < j => rxq[i] < rxq[j]

\* An overload that throws queued audio away ends the transmission in the same
\* callback: Asterisk is never left keyed over a hole in the audio.
OverloadEndsTransmission ==
    [][pvt /\ pvt' /\ Len(rxq) - Len(rxq') > 1
         => rxkey' = 0 /\ ~OpenAfter(coreKeyed', KindsOf(readq'))]_vars

\* A transmission the radio ends is heard to end: once audio stops arriving
\* the countdown runs out and Asterisk reads the RADIO_UNKEY.
TransmissionEnds == coreKeyed ~> ~coreKeyed

-----------------------------------------------------------------------------
(* Transmit direction: Asterisk to radio.                                  *)

\* The PTT state the radio end has once everything sent has arrived.
RemoteWillBeKeyed ==
    IF wire = << >> THEN remoteKeyed ELSE wire[Len(wire)].keyup

\* The radio end is keyed and the driver owes it nothing.
Stranded == RemoteWillBeKeyed /\ ~unkeyOwed

\* sendto was called with the unkey packet, number and all, and refused it.
UnkeyRefused ==
    unkeyOwed /\ ~unkeyOwed' /\ sendSeq' = Inc(sendSeq) /\ wire' = wire

\* The driver loses track of a keyed transmitter in two ways only: a hangup
\* with an unkey owed, and an unkey packet sendto refused (neither is retried).
OnlyHangupOrSendErrorStrands ==
    [][Stranded' => Stranded \/ Hangup \/ UnkeyRefused]_vars
=============================================================================
