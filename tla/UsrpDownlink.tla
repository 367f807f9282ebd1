---------------------------- MODULE UsrpDownlink ----------------------------
(***************************************************************************)
(* Asterisk to air: a ChanUsrp channel, the UDP network, and the RadioTx   *)
(* block that keys the transmitter.  The network loses, doubles and        *)
(* reorders packets; each such fault is counted.  Asterisk writes frames   *)
(* of any length, and the driver sends them as they are, but the radio     *)
(* takes only two sizes of datagram.                                       *)
(***************************************************************************)
EXTENDS ChanUsrp, RadioTx, SequencesExt

CONSTANTS
    MaxVoice,     \* bound on the frames Asterisk writes
    MaxFaults     \* bound on the faults: hangups, refused packets, network

ASSUME DownlinkAssumption ==
    /\ MaxVoice \in Nat /\ MaxFaults \in Nat
    /\ TxSeqSpace = SeqSpace /\ TxNoVoice = NoVoice /\ TxOddSize = OddSize

VARIABLES
    written,    \* frames Asterisk wrote; also names the next payload
    received,   \* payloads the radio received, in order
    skipped,    \* the last datagram to arrive was of a size the radio refuses
    reported,   \* what the radio reported a possible data loss after
    keyFrame,   \* for the unkey that is owed, a frame was sent that keys
    faults      \* what went wrong so far, by kind

history == <<written, received, skipped, reported, keyFrame>>
vars == <<chanVars, txVars, history, faults>>

Init ==
    /\ ChanInit /\ TxInit
    /\ written = 0 /\ received = << >>
    /\ skipped = FALSE /\ reported = {} /\ keyFrame = FALSE
    /\ faults = [hangup |-> 0, refused |-> 0, lost |-> 0, disorder |-> 0]

Fault(kind) ==
    /\ faults.hangup + faults.refused + faults.lost + faults.disorder < MaxFaults
    /\ faults' = [faults EXCEPT ![kind] = @ + 1]

\* A channel comes, is called, and goes, perhaps while the radio is keyed.
Begin ==
    /\ Request \/ Call
    /\ UNCHANGED <<txVars, history, faults>>

HangUp ==
    /\ Hangup
    /\ IF unkeyOwed THEN Fault("hangup") ELSE UNCHANGED faults
    /\ keyFrame' = FALSE
    /\ UNCHANGED <<txVars, written, received, skipped, reported>>

Write ==
    /\ written < MaxVoice
    /\ \E v \in {written + 1, NoVoice, OddSize}, ok \in BOOLEAN :
          /\ Xwrite(v, ok)
          /\ IF txkey /\ ~ok THEN Fault("refused") ELSE UNCHANGED faults
          /\ keyFrame' = (keyFrame \/ (txkey /\ v # OddSize))
    /\ written' = IF txkey THEN written + 1 ELSE written
    /\ UNCHANGED <<txVars, received, skipped, reported>>

Ptt ==
    /\ \E key \in BOOLEAN, ok \in BOOLEAN :
          /\ Indicate(key, ok)
          /\ IF unkeyOwed /\ ~ok THEN Fault("refused") ELSE UNCHANGED faults
    /\ keyFrame' = FALSE
    /\ UNCHANGED <<txVars, written, received, skipped, reported>>

Accept(pkt) ==
    /\ TxReceive(pkt)
    /\ received' = IF HasAudio(pkt) THEN Append(received, pkt.voice) ELSE received
    /\ skipped' = ~TxTakes(pkt)
    /\ reported' = IF ~TxReportsLoss(pkt) THEN reported
                   ELSE reported \cup {IF skipped THEN "refused size" ELSE "packet"}
    /\ UNCHANGED <<pvt, astState, pvtVars, readq, coreKeyed, written, keyFrame>>

Deliver ==
    /\ wire # << >>
    /\ Accept(Head(wire))
    /\ wire' = Tail(wire)
    /\ UNCHANGED faults

\* A packet overtakes those before it, or arrives and stays to come again.
Disorder ==
    /\ \E i \in DOMAIN wire :
          /\ Accept(wire[i])
          /\ \/ i > 1 /\ wire' = RemoveAt(wire, i)
             \/ wire' = wire
    /\ Fault("disorder")

Lose ==
    /\ \E i \in DOMAIN wire : wire' = RemoveAt(wire, i)
    /\ Fault("lost")
    /\ UNCHANGED <<pvt, astState, pvtVars, readq, coreKeyed, txVars, history>>

Transmit ==
    /\ TxOutput
    /\ UNCHANGED <<chanVars, history, faults>>

Next ==
    \/ Begin \/ HangUp \/ Write \/ Ptt
    \/ Deliver \/ Disorder \/ Lose \/ Transmit

Spec == Init /\ [][Next]_vars

-----------------------------------------------------------------------------
(* Properties.                                                             *)

NoFault(kinds) == \A k \in kinds : faults[k] = 0

\* The transmitter is keyed, once the network is quiet, exactly while the
\* channel owes it an unkey packet, unless an unkey was lost on the way: by a
\* hangup, by sendto or by the network.  Nothing else strands the transmitter;
\* these do, because d_timeout_time is set and never looked at.  And nothing
\* else leaves it unkeyed but frames of a length the radio refuses (the driver
\* numbers and sends them, and owes an unkey for them): it keys at the first
\* frame that is whole or empty.
KeyedOnlyWhileOwed ==
    wire = << >> /\ NoFault({"hangup", "refused", "lost", "disorder"})
      => d_keyup_state = (unkeyOwed /\ keyFrame)

\* A loss is reported only when something was lost, doubled or out of order,
\* or right after a datagram that the radio refused for its size, which took a
\* number all the same: wrapping sequence numbers, a new channel that starts at
\* 0 again and header packets that also count do not alarm, nor do they after
\* the numbers are in step again.  (A hangup is no excuse.)
NoFalseAlarm ==
    NoFault({"refused", "lost", "disorder"}) => reported \subseteq {"refused size"}

\* The voice frames transmitted hold the audio received, in order, each
\* exactly nine codewords, with LDU1 and LDU2 in turn; fewer than nine
\* codewords are held back.
LdusHoldTheAudio ==
    LET ldus == transmitted \o output_queue
        last(i) == i * NofCodewords
    IN  /\ \A i \in DOMAIN ldus :
              /\ ldus[i].voice = SubSeq(received, last(i - 1) + 1, last(i))
              /\ ldus[i].ldu = LduName[2 - (i % 2)]
        /\ f_body = SubSeq(received, last(Len(ldus)) + 1, Len(received))
        /\ Len(received) = last(Len(ldus)) + Len(f_body) /\ Len(f_body) < NofCodewords
=============================================================================
