----------------------------- MODULE UsrpUplink -----------------------------
(***************************************************************************)
(* Air to Asterisk: the two threads of a RadioRx block, a network, and a   *)
(* ChanUsrp channel that queues the audio and hands it to Asterisk between *)
(* RADIO_KEY and RADIO_UNKEY.  The block and the channel are on the same   *)
(* host or a quiet network: packets arrive in the order of the sendto      *)
(* calls; Drop is the exception, and is counted.                           *)
(*                                                                         *)
(* A packet's audio is named by the number of its first sample.            *)
(***************************************************************************)
EXTENDS ChanUsrp, RadioRx, SequencesExt

CONSTANTS
    MaxSamples,   \* bound on the samples received on the air
    MaxUnkeys,    \* bound on the calls of unkey()
    MaxLosses     \* bound on the packets lost

ASSUME UplinkAssumption ==
    /\ MaxSamples \in Nat /\ MaxUnkeys \in Nat /\ MaxLosses \in Nat
    /\ RxNoVoice \notin Seq(Nat)

VARIABLES
    net,        \* packets on their way to the channel
    samples,    \* samples received; names the next
    unkeys, lost,       \* calls of unkey(), packets lost
    overlapped, \* the two threads were both inside d_sendseq++ or sendto
    alarmed,    \* the channel reported a possible data loss
    overloads,  \* the channel threw its queue away
    heard       \* the audio Asterisk has read, packet by packet

ghosts == <<samples, unkeys, lost, overlapped, alarmed, overloads, heard>>
upVars == <<rxVars, chanVars, net, ghosts>>

UpInit ==
    /\ RxInit
    /\ pvt = TRUE /\ astState = "UP"
    /\ txkey = FALSE /\ rxkey = 0 /\ unkeyOwed = FALSE /\ sendSeq = 0 /\ rxSeq = 0
    /\ rxq = << >> /\ readq = << >> /\ coreKeyed = FALSE /\ wire = << >>
    /\ net = << >>
    /\ samples = 0 /\ unkeys = 0 /\ lost = 0 /\ overlapped = FALSE
    /\ alarmed = FALSE /\ overloads = 0 /\ heard = << >>

Overlap == workPc' \in {"store", "send"} /\ unkeyPc' \in {"store", "send"}

-----------------------------------------------------------------------------
(* The radio end.                                                          *)

Capture ==
    /\ samples < MaxSamples
    /\ Sample(samples + 1)
    /\ samples' = samples + 1
    /\ UNCHANGED <<chanVars, net, unkeys, lost, overlapped, alarmed, overloads, heard>>

Number ==
    /\ WorkLoad \/ WorkStore \/ UnkeyStore
    /\ overlapped' = (overlapped \/ Overlap)
    /\ UNCHANGED <<chanVars, net, samples, unkeys, lost, alarmed, overloads, heard>>

SendAudio ==
    /\ WorkSent
    /\ Len(net) < MaxWire
    /\ net' = Append(net, AudioPacket)
    /\ UNCHANGED <<chanVars, ghosts>>

Unkey ==
    /\ unkeys < MaxUnkeys
    /\ UnkeyLoad
    /\ unkeys' = unkeys + 1
    /\ overlapped' = (overlapped \/ Overlap)
    /\ UNCHANGED <<chanVars, net, samples, lost, alarmed, overloads, heard>>

SendUnkey ==
    /\ UnkeySent
    /\ Len(net) < MaxWire
    /\ net' = Append(net, HeaderPacket)
    /\ UNCHANGED <<chanVars, ghosts>>

-----------------------------------------------------------------------------
(* The network and the channel.                                            *)

\* The channel's audio is the packet's first sample: the packets are whole.
Named(pkt) == IF pkt.voice = RxNoVoice THEN [pkt EXCEPT !.voice = NoVoice]
                                       ELSE [pkt EXCEPT !.voice = Head(pkt.voice)]

Arrive ==
    /\ net # << >>
    /\ Xread(Named(Head(net)))
    /\ alarmed' = (alarmed \/ ReportsLoss(Named(Head(net))))
    /\ net' = Tail(net)
    /\ UNCHANGED <<rxVars, samples, unkeys, lost, overlapped, overloads, heard>>

Drop ==
    /\ lost < MaxLosses
    /\ \E i \in DOMAIN net : net' = RemoveAt(net, i)
    /\ lost' = lost + 1
    /\ UNCHANGED <<rxVars, chanVars, samples, unkeys, overlapped, alarmed,
                   overloads, heard>>

AsteriskWrites ==
    /\ Xwrite(0, TRUE)
    /\ overloads' = IF rxq # << >> /\ Overloaded THEN overloads + 1 ELSE overloads
    /\ UNCHANGED <<rxVars, net, samples, unkeys, lost, overlapped, alarmed, heard>>

AsteriskReads ==
    /\ CoreRead
    /\ heard' = IF Head(readq).type = "voice" THEN Append(heard, Head(readq).voice) ELSE heard
    /\ UNCHANGED <<rxVars, net, samples, unkeys, lost, overlapped, alarmed, overloads>>

UpNext ==
    \/ Capture \/ Number \/ SendAudio \/ Unkey \/ SendUnkey
    \/ Arrive \/ Drop \/ AsteriskWrites \/ AsteriskReads

UpSpec == UpInit /\ [][UpNext]_upVars

-----------------------------------------------------------------------------
(* Properties.                                                             *)

First(i) == (i - 1) * SampbufSize + 1    \* how the audio of packet i is named

\* What lies between the air and Asterisk, NoVoice where an item has no audio.
Underway ==
    [i \in DOMAIN readq |-> readq[i].voice]
    \o rxq
    \o [i \in DOMAIN net |-> Named(net[i]).voice]

\* Of the items of s, those that are audio are packets m+1 to n, in order.
Carries(s, m, n) ==
    LET audio == {k \in DOMAIN s : s[k] # NoVoice}
    IN  /\ {s[k] : k \in audio} = {First(i) : i \in m + 1..n}
        /\ \A j, k \in audio : j < k => s[j] < s[k]

\* The audio received reaches Asterisk whole and in order, whatever the two
\* threads do to each other: the unkey packets and the race for d_sendseq cost
\* no sample, double none, and break no packet up, unless packets were lost or
\* thrown away in an overload.  Less than a packet's samples are held back,
\* or just as many on their way to sendto.
AudioComplete ==
    lost = 0 /\ overloads = 0 =>
        \E packets \in Len(heard)..samples :
            /\ \A i \in DOMAIN heard : heard[i] = First(i)
            /\ Carries(Underway, Len(heard), packets)
            /\ packets * SampbufSize + Len(sampbuf) = samples
            /\ workPc = "fill" => Len(sampbuf) < SampbufSize
            /\ workPc # "fill" => Len(sampbuf) = SampbufSize

\* The channel reports a loss only if a packet was lost or the two threads
\* were numbering and sending at the same time: then a number is taken twice,
\* or sent out of turn, and the alarm is false.
AlarmHasCause == alarmed => lost > 0 \/ overlapped
=============================================================================
