--------------------------- MODULE UsrpLinkProofs ---------------------------
(***************************************************************************)
(* Proofs about UsrpDownlink, then about UsrpUplink, for every value of    *)
(* their constants.                                                        *)
(***************************************************************************)
EXTENDS UsrpDownlink, UsrpUplink, SequenceTheorems, TLAPS

LEMMA LinkTypes ==
    /\ SeqSpace \in Nat /\ SeqSpace > 1
    /\ NoVoice \notin Nat /\ OddSize \notin Nat /\ NoVoice # OddSize
    /\ TxSeqSpace = SeqSpace /\ TxNoVoice = NoVoice /\ TxOddSize = OddSize
    /\ NofCodewords \in Nat \ {0}
BY ConstAssumption, RadioTxAssumption, DownlinkAssumption

LEMMA IncType == ASSUME NEW s \in 0..SeqSpace - 1 PROVE Inc(s) \in 0..SeqSpace - 1
BY LinkTypes DEF Inc

LEMMA PacketTypes ==
    ASSUME NEW s \in 0..SeqSpace - 1
    PROVE  /\ UnkeyPacket(s) \in Packet
           /\ \A v \in Nat \cup {NoVoice, OddSize} : VoicePacket(s, v) \in Packet
BY DEF UnkeyPacket, VoicePacket, Packet

LEMMA RemoveAtType ==
    ASSUME NEW S, NEW s \in Seq(S), NEW i \in DOMAIN s
    PROVE  RemoveAt(s, i) \in Seq(S)
<1>1. i \in 1..Len(s) /\ Len(s) \in Nat
  OBVIOUS
<1>2. SubSeq(s, 1, i - 1) \in Seq(S)
  BY <1>1
<1>3. SubSeq(s, i + 1, Len(s)) \in Seq(S)
  BY <1>1
<1> QED
  BY <1>2, <1>3 DEF RemoveAt

LEMMA LastOfTail ==
    ASSUME NEW S, NEW s \in Seq(S), s # << >>, Len(s) # 1
    PROVE  Tail(s) # << >> /\ Tail(s)[Len(Tail(s))] = s[Len(s)]
<1>1. Len(s) \in Nat \ {0, 1} /\ Len(Tail(s)) = Len(s) - 1
  OBVIOUS
<1>2. \A i \in 1..Len(Tail(s)) : Tail(s)[i] = s[i + 1]
  OBVIOUS
<1>3. Len(s) - 1 \in 1..Len(Tail(s)) /\ (Len(s) - 1) + 1 = Len(s)
  BY <1>1
<1>4. Tail(s)[Len(Tail(s))] = s[Len(s)]
  BY <1>1, <1>2, <1>3
<1>5. Tail(s) # << >>
  BY <1>1
<1> QED
  BY <1>4, <1>5

-----------------------------------------------------------------------------
(* The downlink's types, and what is true of a channel that has gone.      *)

Ldu == [ldu : {"ldu1", "ldu2"}, voice : Seq(Nat)]
FaultKinds == {"hangup", "refused", "lost", "disorder"}

DownType ==
    /\ sendSeq \in 0..SeqSpace - 1 /\ d_expected_seq \in 0..SeqSpace - 1
    /\ wire \in Seq(Packet)
    /\ pvt \in BOOLEAN /\ txkey \in BOOLEAN /\ unkeyOwed \in BOOLEAN
    /\ d_keyup_state \in BOOLEAN
    /\ skipped \in BOOLEAN /\ keyFrame \in BOOLEAN
    /\ ~pvt => ~unkeyOwed
    /\ written \in Nat /\ received \in Seq(Nat) /\ f_body \in Seq(Nat)
    /\ output_queue \in Seq(Ldu) /\ transmitted \in Seq(Ldu)
    /\ frame_cnt \in {0, 1}
    /\ faults \in [FaultKinds -> Nat]

\* A kind of fault that is not there after a step was not there before it.
LEMMA FaultsGrow ==
    ASSUME DownType, NEW kind \in FaultKinds,
           Fault(kind) \/ UNCHANGED faults
    PROVE  /\ faults' \in [FaultKinds -> Nat]
           /\ \A k \in FaultKinds : faults'[k] = 0 => faults[k] = 0
<1>1. CASE Fault(kind)
  <2>1. faults' = [faults EXCEPT ![kind] = faults[kind] + 1] /\ faults \in [FaultKinds -> Nat]
    BY <1>1 DEF Fault, DownType
  <2> QED
    BY <2>1
<1>2. CASE UNCHANGED faults
  BY <1>2 DEF DownType
<1> QED
  BY <1>1, <1>2

LEMMA FaultShows ==
    ASSUME DownType, NEW kind \in FaultKinds, Fault(kind)
    PROVE  faults'[kind] # 0
<1>1. faults' = [faults EXCEPT ![kind] = faults[kind] + 1] /\ faults \in [FaultKinds -> Nat]
  BY DEF Fault, DownType
<1>2. faults'[kind] = faults[kind] + 1 /\ faults[kind] \in Nat
  BY <1>1
<1> QED
  BY <1>2

\* What the radio makes of a packet it takes, and of one it refuses.
LEMMA AcceptRefused ==
    ASSUME DownType, NEW pkt \in Packet, Accept(pkt), pkt.voice = OddSize
    PROVE  /\ UNCHANGED <<txVars, received, reported>>
           /\ skipped' = TRUE
           /\ UNCHANGED <<sendSeq, pvt, txkey, unkeyOwed, written, keyFrame>>
<1>1. ~TxTakes(pkt) /\ ~HasAudio(pkt) /\ ~TxReportsLoss(pkt)
  BY LinkTypes DEF TxTakes, HasAudio, TxReportsLoss
<1>2. UNCHANGED txVars
  BY <1>1 DEF Accept, TxReceive, TxTake, TxRefuse
<1> QED
  BY <1>1, <1>2 DEF Accept, pvtVars

LEMMA AcceptType ==
    ASSUME DownType, NEW pkt \in Packet, Accept(pkt), pkt.voice # OddSize
    PROVE  /\ d_expected_seq' = Inc(pkt.seq) /\ d_expected_seq' \in 0..SeqSpace - 1
           /\ d_keyup_state' = pkt.keyup /\ d_keyup_state' \in BOOLEAN
           /\ skipped' = FALSE
           /\ received' \in Seq(Nat) /\ f_body' \in Seq(Nat) /\ frame_cnt' \in {0, 1}
           /\ output_queue' \in Seq(Ldu) /\ transmitted' \in Seq(Ldu)
           /\ UNCHANGED <<sendSeq, pvt, txkey, unkeyOwed, written, keyFrame>>
<1>0. TxTakes(pkt) /\ TxTake(pkt)
  BY LinkTypes DEF Accept, TxReceive, TxRefuse, TxTakes
<1>1. pkt.seq \in 0..SeqSpace - 1 /\ pkt.keyup \in BOOLEAN
      /\ (pkt.voice # NoVoice => pkt.voice \in Nat)
  BY DEF Packet
<1>2. d_expected_seq' = Inc(pkt.seq) /\ d_expected_seq' \in 0..SeqSpace - 1
  BY <1>0, <1>1, LinkTypes, IncType DEF TxTake, Inc
<1>3. d_keyup_state' = pkt.keyup /\ d_keyup_state' \in BOOLEAN
  BY <1>0, <1>1 DEF TxTake
<1>4. skipped' = FALSE
  BY <1>0 DEF Accept
<1>5. received' \in Seq(Nat)
  <2>1. received' = IF HasAudio(pkt) THEN Append(received, pkt.voice) ELSE received
    BY DEF Accept
  <2>2. HasAudio(pkt) => pkt.voice \in Nat
    BY <1>1 DEF HasAudio
  <2>3. received \in Seq(Nat)
    BY DEF DownType
  <2> QED
    BY <2>1, <2>2, <2>3
<1>6. f_body' \in Seq(Nat) /\ frame_cnt' \in {0, 1} /\ output_queue' \in Seq(Ldu)
  <2>1. CASE pkt.voice = NoVoice
    BY <1>0, <2>1, LinkTypes DEF TxTake, DownType
  <2>2. CASE pkt.voice # NoVoice
    <3>1. Append(f_body, pkt.voice) \in Seq(Nat)
      BY <2>2, <1>1 DEF DownType
    <3>2. [ldu |-> LduName[frame_cnt + 1], voice |-> Append(f_body, pkt.voice)] \in Ldu
      BY <3>1 DEF DownType, Ldu, LduName
    <3>3. Append9(pkt.voice)
      BY <1>0, <2>2, LinkTypes DEF TxTake
    <3>4. CASE Len(Append(f_body, pkt.voice)) >= NofCodewords
      <4>1. PICK l \in Ldu : output_queue' = Append(output_queue, l)
        BY <3>2, <3>3, <3>4 DEF Append9
      <4>2. f_body' = << >> /\ frame_cnt' = 1 - frame_cnt
        BY <3>3, <3>4 DEF Append9
      <4> QED
        BY <4>1, <4>2 DEF DownType
    <3>5. CASE ~(Len(Append(f_body, pkt.voice)) >= NofCodewords)
      BY <3>1, <3>3, <3>5 DEF Append9, DownType
    <3> QED
      BY <3>4, <3>5
  <2> QED
    BY <2>1, <2>2
<1>7. transmitted' \in Seq(Ldu)
  BY <1>0 DEF TxTake, DownType
<1>8. UNCHANGED <<sendSeq, pvt, txkey, unkeyOwed, written, keyFrame>>
  BY DEF Accept, pvtVars
<1> QED
  BY <1>2, <1>3, <1>4, <1>5, <1>6, <1>7, <1>8

\* Taken or refused, what arrives keeps the types.
LEMMA AcceptKeepsTypes ==
    ASSUME DownType, NEW pkt \in Packet, Accept(pkt),
           wire' \in Seq(Packet), faults' \in [FaultKinds -> Nat]
    PROVE  DownType'
<1>1. CASE pkt.voice = OddSize
  <2>1. /\ UNCHANGED <<txVars, received, reported>>
        /\ skipped' = TRUE
        /\ UNCHANGED <<sendSeq, pvt, txkey, unkeyOwed, written, keyFrame>>
    BY <1>1, AcceptRefused
  <2> QED
    BY <2>1 DEF DownType, txVars
<1>2. CASE pkt.voice # OddSize
  BY <1>2, AcceptType DEF DownType
<1> QED
  BY <1>1, <1>2

\* The channel's part of each step that is not the radio's.
LEMMA SendType ==
    ASSUME DownType, NEW pkt \in Packet, NEW ok \in BOOLEAN, Send(pkt, ok)
    PROVE  sendSeq' \in 0..SeqSpace - 1 /\ wire' \in Seq(Packet)
<1>1. sendSeq' \in 0..SeqSpace - 1
  BY IncType DEF Send, DownType
<1>2. wire' \in Seq(Packet)
  BY DEF Send, DownType
<1> QED
  BY <1>1, <1>2

LEMMA DownTypeStep == ASSUME DownType, [Next]_vars PROVE DownType'
<1> USE DEF DownType
<1>0. 0 \in 0..SeqSpace - 1
  BY LinkTypes
<1>1. CASE Begin
  <2>1. CASE Request
    BY <1>0, <1>1, <2>1 DEF Begin, Request, ClearedPvt, txVars, history
  <2>2. CASE Call
    BY <1>1, <2>2 DEF Begin, Call, pvtVars, txVars, history
  <2> QED
    BY <1>1, <2>1, <2>2 DEF Begin
<1>2. CASE HangUp
  <2>1. faults' \in [FaultKinds -> Nat]
    BY <1>2, FaultsGrow DEF HangUp, FaultKinds
  <2> QED
    BY <1>0, <1>2, <2>1 DEF HangUp, Hangup, ClearedPvt, txVars
<1>3. CASE Write
  <2>1. PICK v \in Nat \cup {NoVoice, OddSize}, ok \in BOOLEAN :
             /\ Xwrite(v, ok)
             /\ IF txkey /\ ~ok THEN Fault("refused") ELSE UNCHANGED faults
             /\ keyFrame' = (keyFrame \/ (txkey /\ v # OddSize))
    BY <1>3 DEF Write
  <2>2. faults' \in [FaultKinds -> Nat]
    BY <2>1, FaultsGrow DEF FaultKinds
  <2>3. sendSeq' \in 0..SeqSpace - 1 /\ wire' \in Seq(Packet) /\ unkeyOwed' \in BOOLEAN
    <3>1. CASE txkey
      <4>1. VoicePacket(sendSeq, v) \in Packet
        BY PacketTypes
      <4>2. Send(VoicePacket(sendSeq, v), ok) /\ unkeyOwed' = TRUE
        BY <2>1, <3>1 DEF Xwrite
      <4> QED
        BY <4>1, <4>2, SendType
    <3>2. CASE ~txkey
      BY <2>1, <3>2 DEF Xwrite
    <3> QED
      BY <3>1, <3>2
  <2>4. pvt /\ pvt' = pvt /\ txkey' = txkey /\ written' \in Nat /\ keyFrame' \in BOOLEAN
    BY <1>3, <2>1 DEF Write, Xwrite
  <2>5. UNCHANGED <<txVars, received, skipped, reported>>
    BY <1>3 DEF Write
  <2> QED
    BY <2>2, <2>3, <2>4, <2>5 DEF txVars
<1>4. CASE Ptt
  <2>1. PICK key \in BOOLEAN, ok \in BOOLEAN :
             /\ Indicate(key, ok)
             /\ IF unkeyOwed /\ ~ok THEN Fault("refused") ELSE UNCHANGED faults
    BY <1>4 DEF Ptt
  <2>2. faults' \in [FaultKinds -> Nat]
    BY <2>1, FaultsGrow DEF FaultKinds
  <2>3. sendSeq' \in 0..SeqSpace - 1 /\ wire' \in Seq(Packet) /\ unkeyOwed' \in BOOLEAN
    <3>1. CASE unkeyOwed
      <4>1. UnkeyPacket(sendSeq) \in Packet
        BY PacketTypes
      <4>2. Send(UnkeyPacket(sendSeq), ok) /\ unkeyOwed' = FALSE
        BY <2>1, <3>1 DEF Indicate, PayUnkey
      <4> QED
        BY <4>1, <4>2, SendType
    <3>2. CASE ~unkeyOwed
      BY <2>1, <3>2 DEF Indicate, PayUnkey
    <3> QED
      BY <3>1, <3>2
  <2>4. pvt /\ pvt' = pvt /\ txkey' \in BOOLEAN
    BY <2>1 DEF Indicate
  <2>5. keyFrame' = FALSE /\ UNCHANGED <<txVars, written, received, skipped, reported>>
    BY <1>4 DEF Ptt
  <2> QED
    BY <2>2, <2>3, <2>4, <2>5 DEF txVars
<1>5. CASE Deliver
  <2>1. Head(wire) \in Packet /\ Tail(wire) \in Seq(Packet)
    BY <1>5 DEF Deliver
  <2>2. Accept(Head(wire)) /\ wire' = Tail(wire) /\ faults' = faults
    BY <1>5 DEF Deliver
  <2> HIDE DEF DownType
  <2>3. faults' \in [FaultKinds -> Nat]
    BY <2>2 DEF DownType
  <2> QED
    BY <2>1, <2>2, <2>3, AcceptKeepsTypes
<1>6. CASE Disorder
  <2>1. PICK i \in DOMAIN wire : Accept(wire[i]) /\ (wire' = RemoveAt(wire, i) \/ wire' = wire)
    BY <1>6 DEF Disorder
  <2>2. wire[i] \in Packet /\ wire' \in Seq(Packet)
    BY <2>1, RemoveAtType
  <2>3. faults' \in [FaultKinds -> Nat]
    BY <1>6, FaultsGrow DEF Disorder, FaultKinds
  <2> HIDE DEF DownType
  <2> QED
    BY <2>1, <2>2, <2>3, AcceptKeepsTypes
<1>7. CASE Lose
  <2>1. wire' \in Seq(Packet)
    BY <1>7, RemoveAtType DEF Lose
  <2>2. faults' \in [FaultKinds -> Nat]
    BY <1>7, FaultsGrow DEF Lose, FaultKinds
  <2> QED
    BY <1>7, <2>1, <2>2 DEF Lose, pvtVars, txVars, history
<1>8. CASE Transmit
  BY <1>8 DEF Transmit, TxOutput, chanVars, pvtVars, history
<1>9. CASE UNCHANGED vars
  BY <1>9 DEF vars, chanVars, pvtVars, txVars, history
<1> QED
  BY <1>1, <1>2, <1>3, <1>4, <1>5, <1>6, <1>7, <1>8, <1>9 DEF Next

LEMMA DownTypeInit == ASSUME Init PROVE DownType
<1>1. faults \in [FaultKinds -> Nat]
  BY DEF Init, FaultKinds
<1>2. 0 \in 0..SeqSpace - 1
  BY LinkTypes
<1>3. wire \in Seq(Packet) /\ received \in Seq(Nat) /\ f_body \in Seq(Nat)
  BY DEF Init, ChanInit, TxInit
<1>4. output_queue \in Seq(Ldu) /\ transmitted \in Seq(Ldu)
  BY DEF Init, TxInit
<1>5. sendSeq = 0 /\ d_expected_seq = 0 /\ written = 0 /\ frame_cnt = 0
      /\ pvt = FALSE /\ txkey = FALSE /\ unkeyOwed = FALSE
      /\ d_keyup_state = FALSE /\ reported = {} /\ skipped = FALSE /\ keyFrame = FALSE
  BY DEF Init, ChanInit, TxInit
<1> QED
  BY <1>1, <1>2, <1>3, <1>4, <1>5 DEF DownType

LEMMA DownTypes == Spec => []DownType
BY DownTypeInit, DownTypeStep, PTL DEF Spec

-----------------------------------------------------------------------------
(* Sequence numbers: with the network quiet, every packet carries the      *)
(* number the one before it leads to, or 0 from a channel that is new.     *)
(* The number the first leads on from is the one the radio expects, unless *)
(* the radio has just refused a packet.                                    *)

Due(e, w, i) == IF i = 1 THEN e ELSE Inc(w[i - 1].seq)

InStep(e, w, s) ==
    /\ \A i \in 1..Len(w) : w[i].seq \in {Due(e, w, i), 0}
    /\ s \in {Due(e, w, Len(w) + 1), 0}

NetworkKinds == {"refused", "lost", "disorder"}

InStepAfter(skip, expected, w, s) ==
    \E e \in 0..SeqSpace - 1 : (skip \/ e = expected) /\ InStep(e, w, s)

NumbersInStep ==
    NoFault(NetworkKinds) =>
        /\ InStepAfter(skipped, d_expected_seq, wire, sendSeq)
        /\ reported \subseteq {"refused size"}

\* The PTT flag the radio will have once the network is quiet: that of the
\* last packet it does not refuse, or the one it has.
LastKey(k, w, b) ==
    \/ (\A i \in 1..Len(w) : w[i].voice = OddSize) /\ b = k
    \/ \E i \in 1..Len(w) : /\ w[i].voice # OddSize /\ w[i].keyup = b
                            /\ \A j \in i + 1..Len(w) : w[j].voice = OddSize

KeyOwed ==
    NoFault(FaultKinds) => LastKey(d_keyup_state, wire, keyFrame) /\ (keyFrame => unkeyOwed)

LEMMA LastKeyTail ==
    ASSUME NEW w \in Seq(Packet), w # << >>, NEW k, NEW b, LastKey(k, w, b)
    PROVE  LastKey(IF w[1].voice = OddSize THEN k ELSE w[1].keyup, Tail(w), b)
<1> DEFINE t == Tail(w)
<1>1. Len(t) = Len(w) - 1 /\ Len(w) \in Nat \ {0} /\ \A i \in 1..Len(t) : t[i] = w[i + 1]
  OBVIOUS
<1> HIDE DEF t
<1>2. ASSUME NEW n \in 1..Len(w), \A j \in n + 1..Len(w) : w[j].voice = OddSize
      PROVE  \A i \in 1..Len(t) : i >= n => t[i].voice = OddSize
  <2> SUFFICES ASSUME NEW i \in 1..Len(t), i >= n PROVE t[i].voice = OddSize
    OBVIOUS
  <2>1. i + 1 \in n + 1..Len(w) /\ t[i] = w[i + 1]
    BY <1>1
  <2> QED
    BY <1>2, <2>1
<1>3. CASE (\A i \in 1..Len(w) : w[i].voice = OddSize) /\ b = k
  <2>1. 1 \in 1..Len(w) /\ \A i \in 1..Len(t) : i + 1 \in 1..Len(w)
    BY <1>1
  <2>2. \A i \in 1..Len(t) : t[i].voice = OddSize
    BY <1>1, <1>3, <2>1
  <2> QED
    BY <1>3, <2>1, <2>2 DEF LastKey, t
<1>4. ASSUME NEW n \in 1..Len(w), w[n].voice # OddSize, w[n].keyup = b,
             \A j \in n + 1..Len(w) : w[j].voice = OddSize
      PROVE  LastKey(IF w[1].voice = OddSize THEN k ELSE w[1].keyup, t, b)
  <2>1. \A i \in 1..Len(t) : i >= n => t[i].voice = OddSize
    BY <1>2, <1>4
  <2>2. CASE n = 1
    BY <1>4, <2>1, <2>2 DEF LastKey
  <2>3. CASE n # 1
    <3>1. n - 1 \in 1..Len(t) /\ t[n - 1] = w[(n - 1) + 1] /\ (n - 1) + 1 = n
      BY <1>1, <2>3
    <3>2. \A j \in (n - 1) + 1..Len(t) : t[j].voice = OddSize
      BY <2>1, <3>1
    <3> QED
      BY <1>4, <3>1, <3>2 DEF LastKey
  <2> QED
    BY <2>2, <2>3
<1> QED
  BY <1>3, <1>4 DEF LastKey, t

LEMMA LastKeyAppend ==
    ASSUME NEW w \in Seq(Packet), NEW pkt \in Packet, NEW k, NEW b
    PROVE  /\ pkt.voice # OddSize => LastKey(k, Append(w, pkt), pkt.keyup)
           /\ pkt.voice = OddSize /\ LastKey(k, w, b) => LastKey(k, Append(w, pkt), b)
<1> DEFINE a == Append(w, pkt)
<1>1. Len(a) = Len(w) + 1 /\ Len(w) \in Nat /\ a[Len(w) + 1] = pkt
      /\ \A i \in 1..Len(w) : a[i] = w[i]
  OBVIOUS
<1> HIDE DEF a
<1>2. ASSUME pkt.voice # OddSize PROVE LastKey(k, a, pkt.keyup)
  <2>1. Len(w) + 1 \in 1..Len(a) /\ (Len(w) + 1) + 1..Len(a) = {}
    BY <1>1
  <2> QED
    BY <1>1, <1>2, <2>1 DEF LastKey
<1>3. ASSUME pkt.voice = OddSize, LastKey(k, w, b) PROVE LastKey(k, a, b)
  <2>1. \A n \in Nat : \A i \in n + 1..Len(a) : i \in n + 1..Len(w) \/ i = Len(w) + 1
    BY <1>1
  <2>2. CASE (\A i \in 1..Len(w) : w[i].voice = OddSize) /\ b = k
    <3>1. \A i \in 1..Len(a) : i \in 1..Len(w) \/ i = Len(w) + 1
      BY <1>1
    <3> QED
      BY <1>1, <1>3, <2>2, <3>1 DEF LastKey
  <2>3. ASSUME NEW n \in 1..Len(w), w[n].voice # OddSize, w[n].keyup = b,
               \A j \in n + 1..Len(w) : w[j].voice = OddSize
        PROVE  LastKey(k, a, b)
    <3>1. n \in 1..Len(a) /\ a[n] = w[n]
      BY <1>1
    <3>2. ASSUME NEW j \in n + 1..Len(a) PROVE a[j].voice = OddSize
      <4>1. j = Len(w) + 1 \/ (j \in n + 1..Len(w) /\ j \in 1..Len(w))
        BY <1>1
      <4> QED
        BY <1>1, <1>3, <2>3, <4>1
    <3> QED
      BY <2>3, <3>1, <3>2 DEF LastKey
  <2> QED
    BY <1>3, <2>2, <2>3 DEF LastKey
<1> QED
  BY <1>2, <1>3 DEF a

LEMMA InStepTail ==
    ASSUME NEW w \in Seq(Packet), w # << >>, NEW e, NEW s, InStep(e, w, s)
    PROVE  InStep(Inc(w[1].seq), Tail(w), s) /\ w[1].seq \in {e, 0}
<1> DEFINE t == Tail(w)
<1>1. Len(t) = Len(w) - 1 /\ Len(w) \in Nat \ {0} /\ \A i \in 1..Len(t) : t[i] = w[i + 1]
  OBVIOUS
<1>2. \A i \in 1..Len(t) + 1 : Due(Inc(w[1].seq), t, i) = Due(e, w, i + 1)
  <2> TAKE i \in 1..Len(t) + 1
  <2>1. CASE i = 1
    BY <2>1 DEF Due
  <2>2. CASE i # 1
    <3>1. i - 1 \in 1..Len(t) /\ t[i - 1] = w[(i - 1) + 1] /\ (i - 1) + 1 = i
          /\ (i + 1) - 1 = i /\ i + 1 # 1
      BY <1>1, <2>2
    <3> QED
      BY <2>2, <3>1 DEF Due
  <2> QED
    BY <2>1, <2>2
<1> HIDE DEF t
<1>3. ASSUME NEW i \in 1..Len(t) PROVE t[i].seq \in {Due(Inc(w[1].seq), t, i), 0}
  <2>1. i + 1 \in 1..Len(w) /\ t[i] = w[i + 1] /\ i \in 1..Len(t) + 1
    BY <1>1
  <2> QED
    BY <1>2, <2>1 DEF InStep
<1>4. s \in {Due(Inc(w[1].seq), t, Len(t) + 1), 0}
  <2>1. Len(t) + 1 \in 1..Len(t) + 1 /\ (Len(t) + 1) + 1 = Len(w) + 1
    BY <1>1
  <2> QED
    BY <1>2, <2>1 DEF InStep
<1>5. w[1].seq \in {e, 0}
  <2>1. 1 \in 1..Len(w)
    BY <1>1
  <2> QED
    BY <2>1 DEF InStep, Due
<1>6. InStep(Inc(w[1].seq), t, s)
  BY <1>3, <1>4 DEF InStep
<1> QED
  BY <1>5, <1>6 DEF t

LEMMA InStepAppend ==
    ASSUME NEW w \in Seq(Packet), NEW pkt \in Packet, NEW e, InStep(e, w, pkt.seq)
    PROVE  InStep(e, Append(w, pkt), Inc(pkt.seq))
<1> DEFINE a == Append(w, pkt)
<1>1. Len(a) = Len(w) + 1 /\ Len(w) \in Nat /\ a[Len(w) + 1] = pkt
      /\ \A i \in 1..Len(w) : a[i] = w[i]
  OBVIOUS
<1> HIDE DEF a
<1>2. \A i \in 1..Len(w) + 1 : Due(e, a, i) = Due(e, w, i)
  <2> TAKE i \in 1..Len(w) + 1
  <2>1. i = 1 \/ i - 1 \in 1..Len(w)
    BY <1>1
  <2> QED
    BY <1>1, <2>1 DEF Due
<1>3. ASSUME NEW i \in 1..Len(a) PROVE a[i].seq \in {Due(e, a, i), 0}
  <2>1. i \in 1..Len(w) + 1 /\ (i \in 1..Len(w) \/ i = Len(w) + 1)
    BY <1>1
  <2> QED
    BY <1>1, <1>2, <2>1 DEF InStep
<1>4. Due(e, a, Len(a) + 1) = Inc(pkt.seq)
  <2>1. Len(a) + 1 # 1 /\ (Len(a) + 1) - 1 = Len(w) + 1
    BY <1>1
  <2> QED
    BY <1>1, <2>1 DEF Due
<1>5. InStep(e, a, Inc(pkt.seq))
  BY <1>3, <1>4 DEF InStep
<1> QED
  BY <1>5 DEF a

\* A packet is sent, or sendto refuses it and that is on record.
LEMMA NumbersSent ==
    ASSUME DownType, NumbersInStep, NEW pkt \in Packet, NEW ok \in BOOLEAN, Send(pkt, ok),
           pkt.seq = sendSeq,
           IF ~ok THEN Fault("refused") ELSE UNCHANGED faults,
           UNCHANGED <<d_expected_seq, skipped, reported>>
    PROVE  NumbersInStep'
<1>1. CASE ~ok
  <2>1. faults'["refused"] # 0
    BY <1>1, FaultShows DEF FaultKinds
  <2> QED
    BY <2>1 DEF NumbersInStep, NoFault, NetworkKinds
<1>2. CASE ok
  <2> SUFFICES ASSUME NoFault(NetworkKinds)'
               PROVE  /\ InStepAfter(skipped', d_expected_seq', wire', sendSeq')
                      /\ reported' \subseteq {"refused size"}
    BY DEF NumbersInStep
  <2>1. InStepAfter(skipped, d_expected_seq, wire, sendSeq) /\ reported \subseteq {"refused size"}
    BY <1>2 DEF NumbersInStep, NoFault
  <2>2. wire' = Append(wire, pkt) /\ sendSeq' = Inc(pkt.seq)
    BY <1>2 DEF Send
  <2>3. wire \in Seq(Packet)
    BY DEF DownType
  <2>4. PICK e \in 0..SeqSpace - 1 : (skipped \/ e = d_expected_seq) /\ InStep(e, wire, sendSeq)
    BY <2>1 DEF InStepAfter
  <2>5. InStep(e, Append(wire, pkt), Inc(pkt.seq))
    BY <2>3, <2>4, InStepAppend
  <2> QED
    BY <2>1, <2>2, <2>4, <2>5 DEF InStepAfter
<1> QED
  BY <1>1, <1>2

LEMMA KeySent ==
    ASSUME DownType, KeyOwed, NEW pkt \in Packet, NEW ok \in BOOLEAN, Send(pkt, ok),
           UNCHANGED d_keyup_state,
           keyFrame' = IF pkt.voice = OddSize THEN keyFrame ELSE pkt.keyup,
           keyFrame' => unkeyOwed',
           IF ~ok THEN Fault("refused") ELSE UNCHANGED faults
    PROVE  KeyOwed'
<1>1. CASE ~ok
  <2>1. faults'["refused"] # 0
    BY <1>1, FaultShows DEF FaultKinds
  <2> QED
    BY <2>1 DEF KeyOwed, NoFault, FaultKinds
<1>2. CASE ok
  <2> SUFFICES ASSUME NoFault(FaultKinds)' PROVE LastKey(d_keyup_state, wire', keyFrame')
    BY DEF KeyOwed
  <2>1. wire' = Append(wire, pkt) /\ wire \in Seq(Packet)
    BY <1>2 DEF Send, DownType
  <2>2. LastKey(d_keyup_state, wire, keyFrame)
    BY <1>2 DEF KeyOwed, NoFault
  <2> QED
    BY <2>1, <2>2, LastKeyAppend
<1> QED
  BY <1>1, <1>2

\* A packet arrives in order: its number, if the radio looks at it, is the one
\* it expects, and its flag is the first of those still to come.
LEMMA NumbersDelivered ==
    ASSUME DownType, NumbersInStep, Deliver
    PROVE  NumbersInStep'
<1>1. wire # << >> /\ wire \in Seq(Packet) /\ wire' = Tail(wire) /\ faults' = faults
  BY DEF Deliver, DownType
<1>2. wire[1] \in Packet /\ Accept(wire[1])
  <2>1. Head(wire) = wire[1] /\ wire[1] \in Packet
    BY <1>1
  <2> QED
    BY <2>1 DEF Deliver
<1> SUFFICES ASSUME NoFault(NetworkKinds)'
             PROVE  /\ InStepAfter(skipped', d_expected_seq', wire', sendSeq')
                    /\ reported' \subseteq {"refused size"}
  BY DEF NumbersInStep
<1>3. InStepAfter(skipped, d_expected_seq, wire, sendSeq) /\ reported \subseteq {"refused size"}
  BY <1>1 DEF NumbersInStep, NoFault
<1>4. PICK e \in 0..SeqSpace - 1 : (skipped \/ e = d_expected_seq) /\ InStep(e, wire, sendSeq)
  BY <1>3 DEF InStepAfter
<1>5. InStep(Inc(wire[1].seq), Tail(wire), sendSeq) /\ wire[1].seq \in {e, 0}
  BY <1>1, <1>4, InStepTail
<1>6. Inc(wire[1].seq) \in 0..SeqSpace - 1
  <2>1. wire[1].seq \in 0..SeqSpace - 1
    BY <1>2 DEF Packet
  <2> QED
    BY <2>1, IncType
<1>7. CASE wire[1].voice = OddSize
  <2>1. skipped' = TRUE /\ reported' = reported /\ sendSeq' = sendSeq
    BY <1>2, <1>7, AcceptRefused
  <2> QED
    BY <1>1, <1>3, <1>5, <1>6, <2>1 DEF InStepAfter
<1>8. CASE wire[1].voice # OddSize
  <2>1. d_expected_seq' = Inc(wire[1].seq) /\ sendSeq' = sendSeq
    BY <1>2, <1>8, AcceptType
  <2>2. reported' \subseteq {"refused size"}
    <3>1. skipped \in BOOLEAN
      BY DEF DownType
    <3>2. TxReportsLoss(wire[1]) => skipped
      BY <1>4, <1>5 DEF TxReportsLoss
    <3> QED
      BY <1>2, <1>3, <3>1, <3>2 DEF Accept
  <2> QED
    BY <1>1, <1>5, <1>6, <2>1, <2>2 DEF InStepAfter
<1> QED
  BY <1>7, <1>8

LEMMA KeyDelivered ==
    ASSUME DownType, KeyOwed, Deliver
    PROVE  KeyOwed'
<1>1. wire # << >> /\ wire \in Seq(Packet) /\ wire' = Tail(wire) /\ faults' = faults
  BY DEF Deliver, DownType
<1>2. wire[1] \in Packet /\ Accept(wire[1])
  <2>1. Head(wire) = wire[1] /\ wire[1] \in Packet
    BY <1>1
  <2> QED
    BY <2>1 DEF Deliver
<1>3. /\ d_keyup_state' = IF wire[1].voice = OddSize THEN d_keyup_state ELSE wire[1].keyup
      /\ UNCHANGED <<keyFrame, unkeyOwed>>
  BY <1>2, AcceptRefused, AcceptType DEF txVars
<1> SUFFICES ASSUME NoFault(FaultKinds)'
             PROVE  LastKey(d_keyup_state', wire', keyFrame') /\ (keyFrame' => unkeyOwed')
  BY DEF KeyOwed
<1>4. LastKey(d_keyup_state, wire, keyFrame) /\ (keyFrame => unkeyOwed)
  BY <1>1 DEF KeyOwed, NoFault
<1> QED
  BY <1>1, <1>3, <1>4, LastKeyTail

LEMMA QuietStep ==
    ASSUME DownType, NumbersInStep, KeyOwed, [Next]_vars
    PROVE  NumbersInStep' /\ KeyOwed'
<1>1. CASE Begin \/ HangUp
  <2>1. /\ UNCHANGED <<wire, d_expected_seq, d_keyup_state, skipped, reported>>
        /\ sendSeq' = 0 \/ sendSeq' = sendSeq
    BY <1>1 DEF Begin, HangUp, Request, Call, Hangup, ClearedPvt, pvtVars, txVars, history
  <2>2. \A k \in FaultKinds : faults'[k] = 0 => faults[k] = 0
    BY <1>1, FaultsGrow DEF Begin, HangUp, FaultKinds
  <2>3. NumbersInStep'
    <3> SUFFICES ASSUME NoFault(NetworkKinds)'
                 PROVE  InStepAfter(skipped, d_expected_seq, wire, sendSeq')
                        /\ reported \subseteq {"refused size"}
      BY <2>1 DEF NumbersInStep
    <3>1. NoFault(NetworkKinds)
      BY <2>2 DEF NoFault, NetworkKinds, FaultKinds
    <3>2. InStepAfter(skipped, d_expected_seq, wire, sendSeq) /\ reported \subseteq {"refused size"}
      BY <3>1 DEF NumbersInStep
    <3>3. PICK e \in 0..SeqSpace - 1 : (skipped \/ e = d_expected_seq) /\ InStep(e, wire, sendSeq)
      BY <3>2 DEF InStepAfter
    <3>4. InStep(e, wire, sendSeq')
      BY <2>1, <3>3 DEF InStep
    <3> QED
      BY <3>2, <3>3, <3>4 DEF InStepAfter
  <2>4. \/ faults'["hangup"] # 0
        \/ unkeyOwed' = unkeyOwed /\ (keyFrame' = keyFrame \/ (keyFrame' = FALSE /\ ~unkeyOwed))
    <3>1. CASE Begin
      BY <1>1, <3>1 DEF Begin, Request, Call, ClearedPvt, pvtVars, DownType, history
    <3>2. CASE HangUp /\ unkeyOwed
      BY <3>2, FaultShows DEF HangUp, FaultKinds
    <3>3. CASE HangUp /\ ~unkeyOwed
      BY <3>3 DEF HangUp, Hangup, ClearedPvt, DownType
    <3> QED
      BY <1>1, <3>1, <3>2, <3>3
  <2>5. KeyOwed'
    <3> SUFFICES ASSUME NoFault(FaultKinds)'
                 PROVE  LastKey(d_keyup_state, wire, keyFrame') /\ (keyFrame' => unkeyOwed')
      BY <2>1 DEF KeyOwed
    <3>1. LastKey(d_keyup_state, wire, keyFrame) /\ (keyFrame => unkeyOwed)
      BY <2>2 DEF KeyOwed, NoFault, FaultKinds
    <3>2. faults'["hangup"] = 0 /\ keyFrame \in BOOLEAN
      BY DEF NoFault, FaultKinds, DownType
    <3>3. keyFrame' = keyFrame /\ unkeyOwed' = unkeyOwed
      BY <2>4, <3>1, <3>2
    <3> QED
      BY <3>1, <3>3
  <2> QED
    BY <2>3, <2>5
<1>2. CASE Write
  <2>1. PICK v \in Nat \cup {NoVoice, OddSize}, ok \in BOOLEAN :
             /\ Xwrite(v, ok)
             /\ IF txkey /\ ~ok THEN Fault("refused") ELSE UNCHANGED faults
             /\ keyFrame' = (keyFrame \/ (txkey /\ v # OddSize))
    BY <1>2 DEF Write, DownType
  <2>2. UNCHANGED <<d_expected_seq, d_keyup_state, skipped, reported>> /\ keyFrame \in BOOLEAN
    BY <1>2 DEF Write, txVars, DownType
  <2>3. CASE txkey
    <3> DEFINE pkt == VoicePacket(sendSeq, v)
    <3>1. pkt \in Packet /\ pkt.seq = sendSeq /\ pkt.keyup = TRUE /\ pkt.voice = v
      BY PacketTypes DEF DownType, VoicePacket
    <3>2. Send(pkt, ok) /\ unkeyOwed' = TRUE
      BY <2>1, <2>3 DEF Xwrite
    <3> HIDE DEF pkt
    <3>3. IF ~ok THEN Fault("refused") ELSE UNCHANGED faults
      BY <2>1, <2>3
    <3>4. NumbersInStep'
      BY <2>2, <3>1, <3>2, <3>3, NumbersSent
    <3>5. keyFrame' = IF pkt.voice = OddSize THEN keyFrame ELSE pkt.keyup
      BY <2>1, <2>2, <2>3, <3>1
    <3>6. KeyOwed'
      BY <2>2, <3>1, <3>2, <3>3, <3>5, KeySent
    <3> QED
      BY <3>4, <3>6
  <2>4. CASE ~txkey
    <3>1. UNCHANGED <<unkeyOwed, sendSeq, wire, faults, keyFrame>>
      BY <2>1, <2>2, <2>4 DEF Xwrite
    <3> QED
      BY <2>2, <3>1 DEF NumbersInStep, KeyOwed, NoFault
  <2> QED
    BY <2>3, <2>4
<1>3. CASE Ptt
  <2>1. PICK key \in BOOLEAN, ok \in BOOLEAN :
             /\ Indicate(key, ok)
             /\ IF unkeyOwed /\ ~ok THEN Fault("refused") ELSE UNCHANGED faults
    BY <1>3 DEF Ptt
  <2>2. /\ UNCHANGED <<d_expected_seq, d_keyup_state, skipped, reported>>
        /\ keyFrame \in BOOLEAN /\ keyFrame' = FALSE
    BY <1>3 DEF Ptt, txVars, DownType
  <2>3. CASE unkeyOwed
    <3> DEFINE pkt == UnkeyPacket(sendSeq)
    <3>1. pkt \in Packet /\ pkt.seq = sendSeq /\ pkt.keyup = FALSE /\ pkt.voice # OddSize
      BY PacketTypes, LinkTypes DEF DownType, UnkeyPacket
    <3>2. Send(pkt, ok) /\ unkeyOwed' = FALSE
      BY <2>1, <2>3 DEF Indicate, PayUnkey
    <3> HIDE DEF pkt
    <3>3. IF ~ok THEN Fault("refused") ELSE UNCHANGED faults
      BY <2>1, <2>3
    <3>4. NumbersInStep'
      BY <2>2, <3>1, <3>2, <3>3, NumbersSent
    <3>5. KeyOwed'
      BY <2>2, <3>1, <3>2, <3>3, KeySent
    <3> QED
      BY <3>4, <3>5
  <2>4. CASE ~unkeyOwed
    <3>1. UNCHANGED <<unkeyOwed, sendSeq, wire, faults>>
      BY <2>1, <2>4 DEF Indicate, PayUnkey
    <3>2. NumbersInStep'
      BY <2>2, <3>1 DEF NumbersInStep, NoFault
    <3>3. KeyOwed'
      <4> SUFFICES ASSUME NoFault(FaultKinds) PROVE LastKey(d_keyup_state, wire, FALSE)
        BY <2>2, <3>1 DEF KeyOwed, NoFault
      <4>1. LastKey(d_keyup_state, wire, keyFrame) /\ keyFrame = FALSE
        BY <2>2, <2>4 DEF KeyOwed
      <4> QED
        BY <4>1
    <3> QED
      BY <3>2, <3>3
  <2> QED
    BY <2>3, <2>4
<1>4. CASE Deliver
  BY <1>4, NumbersDelivered, KeyDelivered
<1>5. CASE Disorder
  <2>1. faults'["disorder"] # 0
    BY <1>5, FaultShows DEF Disorder, FaultKinds
  <2> QED
    BY <2>1 DEF NumbersInStep, KeyOwed, NoFault, NetworkKinds, FaultKinds
<1>6. CASE Lose
  <2>1. faults'["lost"] # 0
    BY <1>6, FaultShows DEF Lose, FaultKinds
  <2> QED
    BY <2>1 DEF NumbersInStep, KeyOwed, NoFault, NetworkKinds, FaultKinds
<1>7. CASE Transmit \/ UNCHANGED vars
  <2>1. UNCHANGED <<wire, d_expected_seq, d_keyup_state, skipped, reported, sendSeq,
                    unkeyOwed, keyFrame, faults>>
    BY <1>7 DEF Transmit, TxOutput, vars, chanVars, pvtVars, txVars, history
  <2> QED
    BY <2>1 DEF NumbersInStep, KeyOwed, NoFault
<1> QED
  BY <1>1, <1>2, <1>3, <1>4, <1>5, <1>6, <1>7 DEF Next

LEMMA QuietInit == ASSUME Init PROVE NumbersInStep /\ KeyOwed
<1>1. wire = << >> /\ Len(wire) = 0 /\ d_expected_seq = 0 /\ sendSeq = 0 /\ reported = {}
      /\ skipped = FALSE /\ d_keyup_state = FALSE /\ keyFrame = FALSE
  BY DEF Init, ChanInit, TxInit
<1>2. NumbersInStep
  <2>1. 0 \in 0..SeqSpace - 1 /\ InStep(0, wire, sendSeq)
    BY <1>1, LinkTypes DEF InStep, Due
  <2> QED
    BY <1>1, <2>1 DEF NumbersInStep, InStepAfter
<1>3. KeyOwed
  <2>1. \A i \in 1..Len(wire) : wire[i].voice = OddSize
    BY <1>1
  <2>2. LastKey(d_keyup_state, wire, keyFrame)
    BY <1>1, <2>1 DEF LastKey
  <2> QED
    BY <1>1, <2>2 DEF KeyOwed
<1> QED
  BY <1>2, <1>3

LEMMA Quiet == Spec => [](NumbersInStep /\ KeyOwed)
<1>1. ASSUME DownType, NumbersInStep /\ KeyOwed, [Next]_vars
      PROVE  (NumbersInStep /\ KeyOwed)'
  BY <1>1, QuietStep
<1> QED
  BY <1>1, QuietInit, DownTypes, PTL DEF Spec

\* A report of lost data from the radio means that a packet was refused by
\* sendto, lost, doubled or overtaken, or that the datagram just before was of
\* a size the radio refuses: the loss check of general_work raises no alarm on
\* a new channel, a header packet or a number that wraps.
THEOREM AlarmsAreTrue == Spec => []NoFalseAlarm
<1>1. NumbersInStep => NoFalseAlarm
  BY DEF NumbersInStep, NoFalseAlarm, NetworkKinds
<1> QED
  BY <1>1, Quiet, PTL

\* With nothing hung up on, refused, lost or out of order, the transmitter
\* that has heard all packets is keyed exactly while an unkey is owed to it for
\* at least one frame of a size it takes.
THEOREM NeverLeftKeyed == Spec => []KeyedOnlyWhileOwed
<1>1. DownType /\ KeyOwed => KeyedOnlyWhileOwed
  BY DEF DownType, KeyOwed, KeyedOnlyWhileOwed, LastKey, FaultKinds
<1> QED
  BY <1>1, Quiet, DownTypes, PTL

-----------------------------------------------------------------------------
(* The voice frames hold the audio.                                        *)

\* LdusHoldTheAudio of the frames l, the frame under way b and the audio r.
Slice(r, i) == SubSeq(r, (i - 1) * NofCodewords + 1, i * NofCodewords)
Filled(l, r) == \A i \in 1..Len(l) : l[i].voice = Slice(r, i) /\ l[i].ldu = LduName[2 - (i % 2)]
Rest(l, b, r) ==
    /\ b = SubSeq(r, Len(l) * NofCodewords + 1, Len(r))
    /\ Len(r) = Len(l) * NofCodewords + Len(b) /\ Len(b) < NofCodewords

AudioHeld ==
    /\ Filled(transmitted \o output_queue, received)
    /\ Rest(transmitted \o output_queue, f_body, received)
    /\ frame_cnt = Len(transmitted \o output_queue) % 2

\* Audio at the end of the stream leaves the slices before it alone,
LEMMA SubSeqKept ==
    ASSUME NEW S, NEW r \in Seq(S), NEW v \in S, NEW m \in Nat \ {0}, NEW n \in Nat, n <= Len(r)
    PROVE  SubSeq(Append(r, v), m, n) = SubSeq(r, m, n)
<1>1. CASE n < m
  BY <1>1, SubSeqEmpty
<1>2. CASE ~(n < m)
  <2>1. Append(r, v) = r \o <<v>> /\ <<v>> \in Seq(S)
    BY AppendIsConcat
  <2>2. m \in 1..Len(r) /\ n \in 1..Len(r)
    BY <1>2
  <2> QED
    BY <2>1, <2>2, SubSeqOfConcat1
<1> QED
  BY <1>1, <1>2

\* and is at the end of the last.
LEMMA SubSeqGrows ==
    ASSUME NEW S, NEW r \in Seq(S), NEW v \in S, NEW m \in 1..Len(r) + 1
    PROVE  SubSeq(Append(r, v), m, Len(r) + 1) = Append(SubSeq(r, m, Len(r)), v)
<1> DEFINE a == Append(r, v)
<1>1. a \in Seq(S) /\ Len(a) = Len(r) + 1 /\ a[Len(r) + 1] = v /\ Len(r) \in Nat
  OBVIOUS
<1>2. SubSeq(a, m, Len(r)) = SubSeq(r, m, Len(r))
  BY SubSeqKept
<1> HIDE DEF a
<1>3. m \in 1..Len(a) /\ Len(r) + 1 \in m..Len(a) /\ (Len(r) + 1) - 1 = Len(r)
  BY <1>1
<1>4. SubSeq(a, m, Len(r) + 1) = SubSeq(a, m, Len(r)) \o <<v>>
  <2>1. SubSeq(a, m, Len(r) + 1) = SubSeq(a, m, (Len(r) + 1) - 1) \o <<a[Len(r) + 1]>>
    BY ONLY <1>1, <1>3, SubSeqRecursiveSecond
  <2> QED
    BY <1>1, <1>3, <2>1
<1>5. SubSeq(r, m, Len(r)) \in Seq(S)
  OBVIOUS
<1>6. Append(SubSeq(r, m, Len(r)), v) = SubSeq(r, m, Len(r)) \o <<v>>
  BY <1>5, AppendIsConcat
<1> QED
  BY <1>2, <1>4, <1>6 DEF a

LEMMA SliceBounds ==
    ASSUME NEW l \in Nat, NEW i \in 1..l
    PROVE  /\ (i - 1) * NofCodewords \in Nat /\ i * NofCodewords \in Nat
           /\ i * NofCodewords <= l * NofCodewords
<1>1. NofCodewords \in Nat /\ i - 1 \in Nat /\ i \in Nat /\ l - i \in Nat
  BY LinkTypes
<1>2. \A x, y \in Nat : x * y \in Nat
  OBVIOUS
<1>3. (l - i) * NofCodewords \in Nat
  BY <1>1, <1>2
<1>4. l * NofCodewords = i * NofCodewords + (l - i) * NofCodewords
  BY <1>1
<1> QED
  BY <1>1, <1>2, <1>3, <1>4

LEMMA FilledKept ==
    ASSUME NEW l \in Seq(Ldu), NEW r \in Seq(Nat), NEW v \in Nat, Filled(l, r),
           Len(l) * NofCodewords <= Len(r)
    PROVE  Filled(l, Append(r, v))
<1> SUFFICES ASSUME NEW i \in 1..Len(l)
             PROVE  Slice(Append(r, v), i) = Slice(r, i)
  BY DEF Filled
<1>1. /\ (i - 1) * NofCodewords \in Nat /\ i * NofCodewords \in Nat
      /\ i * NofCodewords <= Len(l) * NofCodewords
  <2>1. Len(l) \in Nat
    OBVIOUS
  <2> QED
    BY <2>1, SliceBounds
<1>2. (i - 1) * NofCodewords + 1 \in Nat \ {0} /\ i * NofCodewords <= Len(r)
  <2>1. Len(l) * NofCodewords \in Nat /\ Len(r) \in Nat
    BY LinkTypes
  <2> QED
    BY <1>1, <2>1
<1>3. SubSeq(Append(r, v), (i - 1) * NofCodewords + 1, i * NofCodewords)
        = SubSeq(r, (i - 1) * NofCodewords + 1, i * NofCodewords)
  BY ONLY <1>1, <1>2, r \in Seq(Nat), v \in Nat, SubSeqKept, ZenonT(60)
<1> QED
  BY <1>3 DEF Slice

LEMMA RestGrows ==
    ASSUME NEW r \in Seq(Nat), NEW v \in Nat, NEW from \in Nat, NEW b \in Seq(Nat),
           Len(r) = from + Len(b)
    PROVE  SubSeq(Append(r, v), from + 1, Len(r) + 1) = Append(SubSeq(r, from + 1, Len(r)), v)
<1>1. Len(b) \in Nat /\ Len(r) \in Nat
  OBVIOUS
<1>2. from + 1 \in 1..Len(r) + 1
  BY <1>1
<1> QED
  BY ONLY <1>2, r \in Seq(Nat), v \in Nat, SubSeqGrows

\* A codeword that does not fill the frame under way,
LEMMA HeldBack ==
    ASSUME NEW l \in Seq(Ldu), NEW b \in Seq(Nat), NEW r \in Seq(Nat), NEW v \in Nat,
           Filled(l, r), Rest(l, b, r), Len(b) + 1 < NofCodewords
    PROVE  Filled(l, Append(r, v)) /\ Rest(l, Append(b, v), Append(r, v))
<1> DEFINE from == Len(l) * NofCodewords
<1>1. from \in Nat
  BY LinkTypes
<1>2. Len(r) = from + Len(b) /\ b = SubSeq(r, from + 1, Len(r))
  BY Zenon DEF Rest
<1> HIDE DEF from
<1>3. SubSeq(Append(r, v), from + 1, Len(r) + 1) = Append(SubSeq(r, from + 1, Len(r)), v)
  BY <1>1, <1>2, RestGrows
<1>4. Len(Append(r, v)) = Len(r) + 1 /\ Len(Append(b, v)) = Len(b) + 1
  OBVIOUS
<1>5. Append(b, v) = SubSeq(Append(r, v), from + 1, Len(Append(r, v)))
  BY <1>2, <1>3, <1>4
<1>6. Len(Append(r, v)) = from + Len(Append(b, v))
  BY <1>1, <1>2, <1>4
<1>7. Rest(l, Append(b, v), Append(r, v))
  BY <1>4, <1>5, <1>6 DEF Rest, from
<1>8. Filled(l, Append(r, v))
  <2>1. from <= Len(r)
    BY <1>1, <1>2
  <2> QED
    BY <2>1, FilledKept DEF from
<1> QED
  BY <1>7, <1>8

\* and one that does.
LEMMA FrameFilled ==
    ASSUME NEW l \in Seq(Ldu), NEW b \in Seq(Nat), NEW r \in Seq(Nat), NEW v \in Nat,
           NEW ldu \in Ldu, ldu.voice = Append(b, v), ldu.ldu = LduName[2 - ((Len(l) + 1) % 2)],
           Filled(l, r), Rest(l, b, r), ~(Len(b) + 1 < NofCodewords)
    PROVE  Filled(Append(l, ldu), Append(r, v)) /\ Rest(Append(l, ldu), << >>, Append(r, v))
<1> DEFINE from == Len(l) * NofCodewords
           a == Append(l, ldu)
<1>1. from \in Nat /\ NofCodewords \in Nat \ {0} /\ Len(l) \in Nat
  BY LinkTypes
<1>2. Len(r) = from + Len(b) /\ Len(b) < NofCodewords
  BY Zenon DEF Rest
<1>0. b = SubSeq(r, from + 1, Len(r))
  BY Zenon DEF Rest
<1>10. Len(b) \in Nat /\ Len(r) \in Nat
  OBVIOUS
<1>3. (Len(l) + 1) * NofCodewords = from + NofCodewords
  BY <1>1
<1>4. Len(a) = Len(l) + 1 /\ a[Len(l) + 1] = ldu /\ \A i \in 1..Len(l) : a[i] = l[i]
  OBVIOUS
<1>5. Filled(l, Append(r, v))
  <2>1. Len(l) * NofCodewords <= Len(r)
    BY ONLY <1>10, <1>1, <1>2
  <2> QED
    BY <2>1, FilledKept
<1> HIDE DEF from, a
<1>6. Len(Append(r, v)) = Len(r) + 1 /\ Len(r) + 1 = from + NofCodewords
  <2>1. Len(Append(r, v)) = Len(r) + 1
    OBVIOUS
  <2>2. Len(b) + 1 = NofCodewords
    BY ONLY <1>10, <1>1, <1>2, ~(Len(b) + 1 < NofCodewords)
  <2> QED
    BY ONLY <1>10, <1>1, <1>2, <2>1, <2>2
<1>7. Slice(Append(r, v), Len(l) + 1) = Append(b, v)
  <2>1. ((Len(l) + 1) - 1) * NofCodewords = from
    BY <1>1 DEF from
  <2>2. SubSeq(Append(r, v), from + 1, Len(r) + 1) = Append(SubSeq(r, from + 1, Len(r)), v)
    BY <1>1, <1>2, RestGrows
  <2> QED
    BY <1>0, <1>3, <1>6, <2>1, <2>2 DEF Slice
<1>8. Filled(a, Append(r, v))
  <2> SUFFICES ASSUME NEW i \in 1..Len(a)
               PROVE  a[i].voice = Slice(Append(r, v), i) /\ a[i].ldu = LduName[2 - (i % 2)]
    BY DEF Filled
  <2>1. CASE i \in 1..Len(l)
    BY <1>4, <1>5, <2>1 DEF Filled
  <2>2. CASE i \notin 1..Len(l)
    <3>1. i = Len(l) + 1
      BY <1>1, <1>4, <2>2
    <3> QED
      BY <1>4, <1>7, <3>1
  <2> QED
    BY <2>1, <2>2
<1>9. Rest(a, << >>, Append(r, v))
  <2>1. Len(a) * NofCodewords = Len(Append(r, v)) /\ Len(Append(r, v)) \in Nat
    BY <1>1, <1>3, <1>4, <1>6, <1>10
  <2>2. SubSeq(Append(r, v), Len(Append(r, v)) + 1, Len(Append(r, v))) = << >>
    BY <2>1, SubSeqEmpty
  <2> QED
    BY <1>1, <2>1, <2>2 DEF Rest
<1> QED
  BY <1>8, <1>9 DEF a

LEMMA AppendToConcat ==
    ASSUME NEW S, NEW s \in Seq(S), NEW t \in Seq(S), NEW e \in S
    PROVE  s \o Append(t, e) = Append(s \o t, e)
<1>1. <<e>> \in Seq(S) /\ s \o t \in Seq(S)
  OBVIOUS
<1>2. Append(t, e) = t \o <<e>> /\ Append(s \o t, e) = (s \o t) \o <<e>>
  BY <1>1, AppendIsConcat
<1>3. (s \o t) \o <<e>> = s \o (t \o <<e>>)
  BY ONLY <1>1, s \in Seq(S), t \in Seq(S), ConcatAssociative
<1> QED
  BY <1>2, <1>3

\* Nothing changes when the first item of t becomes the last of s.
LEMMA MovedOver ==
    ASSUME NEW S, NEW s \in Seq(S), NEW t \in Seq(S), t # << >>
    PROVE  Append(s, Head(t)) \o Tail(t) = s \o t
<1>1. Head(t) \in S /\ Tail(t) \in Seq(S) /\ <<Head(t)>> \in Seq(S)
  BY HeadTailProperties
<1>2. Append(s, Head(t)) = s \o <<Head(t)>>
  BY <1>1, AppendIsConcat
<1>3. (s \o <<Head(t)>>) \o Tail(t) = s \o (<<Head(t)>> \o Tail(t))
  BY <1>1, ConcatAssociative
<1>4. <<Head(t)>> \o Tail(t) = t
  BY <1>1
<1> QED
  BY <1>1, <1>2, <1>3, <1>4

LEMMA AcceptHolds ==
    ASSUME DownType, AudioHeld, NEW pkt \in Packet, Accept(pkt)
    PROVE  AudioHeld'
<1> DEFINE l == transmitted \o output_queue
           v == pkt.voice
<1>0. l \in Seq(Ldu) /\ Len(l) \in Nat /\ transmitted' = transmitted
      /\ transmitted \in Seq(Ldu) /\ output_queue \in Seq(Ldu) /\ received \in Seq(Nat)
      /\ f_body \in Seq(Nat)
  <2>1. transmitted \in Seq(Ldu) /\ output_queue \in Seq(Ldu) /\ received \in Seq(Nat)
        /\ f_body \in Seq(Nat)
    BY DEF DownType
  <2>2. l \in Seq(Ldu) /\ Len(l) \in Nat
    BY <2>1
  <2>3. transmitted' = transmitted
    BY DEF Accept, TxReceive, TxTake, TxRefuse, txVars
  <2> QED
    BY <2>1, <2>2, <2>3
<1>1. CASE v \in {NoVoice, OddSize}
  BY <1>1, LinkTypes DEF Accept, TxReceive, TxTake, TxRefuse, TxTakes, HasAudio, txVars, AudioHeld
<1>2. CASE v \notin {NoVoice, OddSize}
  <2>1. v \in Nat /\ Append9(v) /\ received' = Append(received, v)
    BY <1>2, LinkTypes DEF Accept, TxReceive, TxTake, TxRefuse, TxTakes, HasAudio, Packet
  <2>2. Filled(l, received) /\ Rest(l, f_body, received) /\ frame_cnt = Len(l) % 2
    BY Zenon DEF AudioHeld
  <2>3. Len(Append(f_body, v)) = Len(f_body) + 1 /\ Len(f_body) \in Nat /\ NofCodewords \in Nat
    BY <1>0, <2>1, LinkTypes
  <2> HIDE DEF v
  <2>4. CASE Len(f_body) + 1 < NofCodewords
    <3>1. f_body' = Append(f_body, v) /\ frame_cnt' = frame_cnt /\ output_queue' = output_queue
      BY <2>1, <2>3, <2>4 DEF Append9
    <3> HIDE DEF l
    <3>2. Filled(l, Append(received, v)) /\ Rest(l, Append(f_body, v), Append(received, v))
      BY ONLY <1>0, <2>1, <2>2, <2>4, HeldBack
    <3>3. l = transmitted' \o output_queue'
      BY <1>0, <3>1 DEF l
    <3> QED
      BY <2>1, <2>2, <3>1, <3>2, <3>3, Zenon DEF AudioHeld
  <2>5. CASE ~(Len(f_body) + 1 < NofCodewords)
    <3> DEFINE made == [ldu |-> LduName[frame_cnt + 1], voice |-> Append(f_body, v)]
    <3>1. f_body' = << >> /\ frame_cnt' = 1 - frame_cnt /\ output_queue' = Append(output_queue, made)
      BY <2>1, <2>3, <2>5 DEF Append9
    <3>2. made \in Ldu /\ made.voice = Append(f_body, v) /\ made.ldu = LduName[frame_cnt + 1]
      <4>1. Append(f_body, v) \in Seq(Nat) /\ frame_cnt \in {0, 1}
        BY <1>0, <2>1 DEF DownType
      <4> QED
        BY <4>1 DEF Ldu, LduName
    <3>3. frame_cnt + 1 = 2 - ((Len(l) + 1) % 2) /\ 1 - frame_cnt = (Len(l) + 1) % 2
      <4>1. \A n \in Nat : (n % 2) + 1 = 2 - ((n + 1) % 2) /\ 1 - (n % 2) = (n + 1) % 2
        OBVIOUS
      <4> DEFINE n == Len(l)
      <4>2. n \in Nat /\ frame_cnt = n % 2
        BY <1>0, <2>2
      <4> HIDE DEF n
      <4>3. frame_cnt + 1 = 2 - ((n + 1) % 2) /\ 1 - frame_cnt = (n + 1) % 2
        BY ONLY <4>1, <4>2
      <4> QED
        BY ONLY <4>3 DEF n
    <3> HIDE DEF l, made
    <3>4. Filled(Append(l, made), Append(received, v)) /\ Rest(Append(l, made), << >>, Append(received, v))
      <4>1. made.ldu = LduName[2 - ((Len(l) + 1) % 2)]
        BY <3>2, <3>3
      <4> QED
        BY ONLY <1>0, <2>1, <2>2, <2>5, <3>2, <4>1, FrameFilled
    <3>5. Append(l, made) = transmitted' \o output_queue' /\ Len(Append(l, made)) = Len(l) + 1
      <4>0. transmitted \in Seq(Ldu) /\ output_queue \in Seq(Ldu) /\ made \in Ldu
        BY <1>0, <3>2
      <4>3. transmitted \o Append(output_queue, made) = Append(transmitted \o output_queue, made)
        <5>1. ASSUME NEW x \in Seq(Ldu), NEW y \in Seq(Ldu), NEW z \in Ldu
              PROVE  x \o Append(y, z) = Append(x \o y, z)
          BY ONLY x \in Seq(Ldu), y \in Seq(Ldu), z \in Ldu, AppendToConcat
        <5> QED
          BY ONLY <4>0, <5>1, Zenon
      <4>1. Append(l, made) = transmitted \o Append(output_queue, made)
        BY ONLY <4>3 DEF l
      <4>2. Len(Append(l, made)) = Len(l) + 1
        BY ONLY <1>0
      <4> QED
        BY ONLY <1>0, <3>1, <4>1, <4>2, Zenon
    <3> QED
      BY <2>1, <3>1, <3>3, <3>4, <3>5, Zenon DEF AudioHeld
  <2> QED
    BY <2>4, <2>5
<1> QED
  BY <1>1, <1>2

LEMMA AudioHeldStep == ASSUME DownType, AudioHeld, [Next]_vars PROVE AudioHeld'
<1>1. CASE Begin \/ HangUp \/ Write \/ Ptt \/ Lose \/ UNCHANGED vars
  <2>1. UNCHANGED <<txVars, received>>
    BY <1>1 DEF Begin, HangUp, Write, Ptt, Lose, vars, history
  <2> QED
    BY <2>1 DEF AudioHeld, txVars
<1>2. CASE Deliver
  <2>1. Head(wire) \in Packet /\ Accept(Head(wire))
    BY <1>2 DEF Deliver, DownType
  <2> QED
    BY <2>1, AcceptHolds
<1>3. CASE Disorder
  <2>1. PICK i \in DOMAIN wire : Accept(wire[i])
    BY <1>3 DEF Disorder
  <2>2. wire[i] \in Packet
    BY <2>1 DEF DownType
  <2> QED
    BY <2>1, <2>2, AcceptHolds
<1>4. CASE Transmit
  <2>1. /\ output_queue # << >>
        /\ transmitted' = Append(transmitted, Head(output_queue))
        /\ output_queue' = Tail(output_queue)
        /\ UNCHANGED <<f_body, frame_cnt, received>>
    BY <1>4 DEF Transmit, TxOutput, history
  <2>2. transmitted \in Seq(Ldu) /\ output_queue \in Seq(Ldu)
    BY DEF DownType
  <2>3. transmitted' \o output_queue' = transmitted \o output_queue
    BY <2>1, <2>2, MovedOver
  <2> QED
    BY <2>1, <2>3, Zenon DEF AudioHeld
<1> QED
  BY <1>1, <1>2, <1>3, <1>4 DEF Next

LEMMA AudioHeldInit == ASSUME Init PROVE AudioHeld
<1>1. transmitted = << >> /\ output_queue = << >> /\ f_body = << >> /\ received = << >> /\ frame_cnt = 0
  BY DEF Init, TxInit
<1>2. << >> \o << >> = << >> /\ Len(<< >>) = 0
  OBVIOUS
<1>3. SubSeq(<< >>, 1, 0) = << >> /\ 0 * NofCodewords = 0 /\ 0 < NofCodewords
  BY LinkTypes, SubSeqEmpty
<1> QED
  BY <1>1, <1>2, <1>3, LinkTypes DEF AudioHeld, Filled, Rest

\* The voice frames transmitted and queued are the audio received, nine
\* codewords each, in order, LDU1 and LDU2 in turn, and what does not fill a
\* frame waits for the next packet, whatever the network does.
THEOREM FramesHoldTheAudio == Spec => []LdusHoldTheAudio
<1>1. ASSUME DownType, AudioHeld PROVE LdusHoldTheAudio
  <2> DEFINE l == transmitted \o output_queue
  <2>1. l \in Seq(Ldu) /\ DOMAIN l = 1..Len(l)
    BY <1>1 DEF DownType
  <2>2. Filled(l, received) /\ Rest(l, f_body, received)
    BY <1>1, Zenon DEF AudioHeld
  <2> HIDE DEF l
  <2>3. \A i \in DOMAIN l : l[i].voice = SubSeq(received, (i - 1) * NofCodewords + 1, i * NofCodewords)
                            /\ l[i].ldu = LduName[2 - (i % 2)]
    BY <2>1, <2>2, Zenon DEF Filled, Slice
  <2> QED
    BY <2>2, <2>3, Zenon DEF LdusHoldTheAudio, Rest, l
<1>2. ASSUME DownType, AudioHeld, [Next]_vars PROVE AudioHeld'
  BY <1>2, AudioHeldStep
<1> QED
  BY <1>1, <1>2, AudioHeldInit, DownTypes, PTL DEF Spec

-----------------------------------------------------------------------------
(* The uplink: sequences of items that carry packets m+1 to n.             *)

Item == Nat \cup {NoVoice}
Holds(s, m, n) == m <= n /\ Carries(s, m, n)

LEMMA UpTypes ==
    /\ SampbufSize \in Nat \ {0} /\ RxSeqSpace \in Nat \ {0}
    /\ NoVoice \notin Nat /\ RxNoVoice \notin Seq(Nat)
    /\ OddSize \notin Nat /\ NoVoice # OddSize
BY ConstAssumption, RadioRxAssumption, UplinkAssumption

LEMMA FirstType == ASSUME NEW i \in Nat \ {0} PROVE First(i) \in Nat
BY UpTypes DEF First

\* Packets are named in the order of their numbers.
LEMMA FirstGrows ==
    ASSUME NEW i \in Nat \ {0}, NEW j \in Nat \ {0}
    PROVE  i < j <=> First(i) < First(j)
<1>1. \A x \in Nat \ {0}, y \in Nat \ {0} : x < y => First(x) < First(y)
  <2> TAKE x \in Nat \ {0}, y \in Nat \ {0}
  <2> SUFFICES ASSUME x < y PROVE First(x) < First(y)
    OBVIOUS
  <2>1. SampbufSize \in Nat \ {0} /\ y - x \in Nat \ {0} /\ x - 1 \in Nat
    BY UpTypes
  <2>2. \A a \in Nat \ {0}, b \in Nat \ {0} : a * b \in Nat \ {0}
    OBVIOUS
  <2>3. (y - x) * SampbufSize \in Nat \ {0} /\ (x - 1) * SampbufSize \in Nat
    BY <2>1, <2>2
  <2>4. (y - 1) * SampbufSize = (x - 1) * SampbufSize + (y - x) * SampbufSize
    BY <2>1
  <2> QED
    BY <2>3, <2>4 DEF First
<1>2. First(i) \in Nat /\ First(j) \in Nat
  BY FirstType
<1>3. CASE i < j
  BY <1>1, <1>3
<1>4. CASE i = j
  BY <1>2, <1>4
<1>5. CASE j < i
  <2>1. First(j) < First(i)
    BY <1>1, <1>5
  <2> QED
    BY <1>2, <1>5, <2>1
<1> QED
  BY <1>3, <1>4, <1>5

LEMMA HoldsNothing ==
    ASSUME NEW s \in Seq(Item), \A k \in DOMAIN s : s[k] = NoVoice, NEW n \in Nat
    PROVE  Holds(s, n, n)
<1>1. n + 1..n = {} /\ n <= n
  OBVIOUS
<1> QED
  BY <1>1 DEF Holds, Carries

LEMMA HoldsOne == ASSUME NEW n \in Nat PROVE Holds(<<First(n + 1)>>, n, n + 1)
<1>1. First(n + 1) \in Nat /\ First(n + 1) # NoVoice
  BY FirstType, UpTypes
<1>2. (n + 1)..(n + 1) = {n + 1} /\ n <= n + 1
  OBVIOUS
<1> DEFINE v == First(n + 1)
<1>3. {First(i) : i \in n + 1..n + 1} = {v}
  BY <1>2
<1> HIDE DEF v
<1>4. DOMAIN <<v>> = {1} /\ <<v>>[1] = v
  OBVIOUS
<1>5. v # NoVoice
  BY <1>1 DEF v
<1>6. Carries(<<v>>, n, n + 1)
  BY <1>3, <1>4, <1>5 DEF Carries
<1> QED
  BY <1>2, <1>6 DEF Holds, v

\* Two such sequences, one after the other.
LEMMA HoldsBoth ==
    ASSUME NEW s \in Seq(Item), NEW t \in Seq(Item), NEW l \in Nat, NEW m \in Nat, NEW n \in Nat,
           Holds(s, l, m), Holds(t, m, n)
    PROVE  s \o t \in Seq(Item) /\ Holds(s \o t, l, n)
<1> DEFINE c == s \o t
<1>1. /\ c \in Seq(Item) /\ Len(c) = Len(s) + Len(t) /\ Len(s) \in Nat /\ Len(t) \in Nat
      /\ \A k \in 1..Len(s) : c[k] = s[k]
      /\ \A k \in 1..Len(t) : c[Len(s) + k] = t[k]
  OBVIOUS
<1>2. l <= m /\ m <= n /\ l <= n
  BY DEF Holds
<1>3. /\ {s[k] : k \in {k \in DOMAIN s : s[k] # NoVoice}} = {First(i) : i \in l + 1..m}
      /\ \A j, k \in DOMAIN s : s[j] # NoVoice /\ s[k] # NoVoice /\ j < k => s[j] < s[k]
  BY DEF Holds, Carries
<1>4. /\ {t[k] : k \in {k \in DOMAIN t : t[k] # NoVoice}} = {First(i) : i \in m + 1..n}
      /\ \A j, k \in DOMAIN t : t[j] # NoVoice /\ t[k] # NoVoice /\ j < k => t[j] < t[k]
  BY DEF Holds, Carries
<1>5. DOMAIN s = 1..Len(s) /\ DOMAIN t = 1..Len(t) /\ DOMAIN c = 1..Len(c)
  BY <1>1
<1> HIDE DEF c
<1>6. \A k \in DOMAIN c : (k \in DOMAIN s /\ c[k] = s[k])
                          \/ (k - Len(s) \in DOMAIN t /\ c[k] = t[k - Len(s)] /\ k > Len(s))
  <2> TAKE k \in DOMAIN c
  <2>1. CASE k <= Len(s)
    BY <1>1, <1>5, <2>1
  <2>2. CASE k > Len(s)
    <3>1. k - Len(s) \in 1..Len(t) /\ Len(s) + (k - Len(s)) = k
      BY <1>1, <1>5, <2>2
    <3> QED
      BY <1>1, <1>5, <2>2, <3>1
  <2> QED
    BY <1>1, <1>5, <2>1, <2>2
<1>7. \A v : (\E k \in DOMAIN c : c[k] # NoVoice /\ v = c[k]) <=> (\E i \in l + 1..n : v = First(i))
  <2> TAKE v
  <2>1. ASSUME NEW k \in DOMAIN c, c[k] # NoVoice, v = c[k] PROVE \E i \in l + 1..n : v = First(i)
    <3>1. v \in {First(i) : i \in l + 1..m} \/ v \in {First(i) : i \in m + 1..n}
      BY <1>3, <1>4, <1>6, <2>1
    <3> QED
      BY <1>2, <3>1
  <2>2. ASSUME NEW i \in l + 1..n, v = First(i) PROVE \E k \in DOMAIN c : c[k] # NoVoice /\ v = c[k]
    <3>1. CASE i \in l + 1..m
      <4>1. PICK k \in DOMAIN s : s[k] # NoVoice /\ v = s[k]
        BY <1>3, <2>2, <3>1
      <4>2. k \in DOMAIN c /\ c[k] = s[k]
        BY <1>1, <1>5
      <4> QED
        BY <4>1, <4>2
    <3>2. CASE i \in m + 1..n
      <4>1. PICK k \in DOMAIN t : t[k] # NoVoice /\ v = t[k]
        BY <1>4, <2>2, <3>2
      <4>2. Len(s) + k \in DOMAIN c /\ c[Len(s) + k] = t[k]
        BY <1>1, <1>5
      <4> QED
        BY <4>1, <4>2
    <3> QED
      BY <1>2, <3>1, <3>2
  <2> QED
    BY <2>1, <2>2
<1>8. \A j, k \in DOMAIN c : c[j] # NoVoice /\ c[k] # NoVoice /\ j < k => c[j] < c[k]
  <2> SUFFICES ASSUME NEW j \in DOMAIN c, NEW k \in DOMAIN c, c[j] # NoVoice, c[k] # NoVoice, j < k
               PROVE  c[j] < c[k]
    OBVIOUS
  <2>1. CASE j \in DOMAIN s /\ c[j] = s[j] /\ k \in DOMAIN s /\ c[k] = s[k]
    BY <1>3, <2>1
  <2>2. CASE k - Len(s) \in DOMAIN t /\ c[k] = t[k - Len(s)] /\ k > Len(s)
    <3>1. PICK y \in m + 1..n : c[k] = First(y)
      BY <1>4, <2>2
    <3>2. CASE j \in DOMAIN s /\ c[j] = s[j]
      <4>1. PICK x \in l + 1..m : c[j] = First(x)
        BY <1>3, <3>2
      <4>2. x \in Nat \ {0} /\ y \in Nat \ {0} /\ x < y
        BY <1>2
      <4> QED
        BY <3>1, <4>1, <4>2, FirstGrows
    <3>3. CASE j - Len(s) \in DOMAIN t /\ c[j] = t[j - Len(s)] /\ j > Len(s)
      <4>1. j - Len(s) < k - Len(s)
        BY <1>1, <1>5
      <4> QED
        BY <1>4, <2>2, <3>3, <4>1
    <3> QED
      BY <1>6, <3>2, <3>3
  <2>3. CASE j > Len(s) /\ k \in DOMAIN s
    BY <1>1, <1>5, <2>3
  <2> QED
    BY <1>6, <2>1, <2>2, <2>3
<1>9. {c[k] : k \in {k \in DOMAIN c : c[k] # NoVoice}} = {First(i) : i \in l + 1..n}
  BY <1>7
<1>10. Carries(c, l, n)
  BY <1>8, <1>9 DEF Carries
<1> QED
  BY <1>1, <1>2, <1>10 DEF Holds, c

LEMMA HoldsAppend ==
    ASSUME NEW s \in Seq(Item), NEW m \in Nat, NEW n \in Nat, Holds(s, m, n)
    PROVE  /\ Append(s, NoVoice) \in Seq(Item) /\ Holds(Append(s, NoVoice), m, n)
           /\ Append(s, First(n + 1)) \in Seq(Item) /\ Holds(Append(s, First(n + 1)), m, n + 1)
<1>1. NoVoice \in Item /\ First(n + 1) \in Item
  BY FirstType DEF Item
<1>2. <<NoVoice>> \in Seq(Item) /\ <<First(n + 1)>> \in Seq(Item)
  BY <1>1
<1>3. Append(s, NoVoice) = s \o <<NoVoice>> /\ Append(s, First(n + 1)) = s \o <<First(n + 1)>>
  BY <1>1, AppendIsConcat
<1>4. Holds(<<NoVoice>>, n, n)
  <2>1. \A k \in DOMAIN <<NoVoice>> : <<NoVoice>>[k] = NoVoice
    OBVIOUS
  <2> QED
    BY <1>2, <2>1, HoldsNothing
<1>5. Holds(<<First(n + 1)>>, n, n + 1)
  BY HoldsOne
<1>6. s \o <<NoVoice>> \in Seq(Item) /\ Holds(s \o <<NoVoice>>, m, n)
  BY <1>2, <1>4, HoldsBoth
<1>7. s \o <<First(n + 1)>> \in Seq(Item) /\ Holds(s \o <<First(n + 1)>>, m, n + 1)
  <2>1. n + 1 \in Nat
    OBVIOUS
  <2> QED
    BY ONLY <1>2, <1>5, <2>1, s \in Seq(Item), m \in Nat, n \in Nat, Holds(s, m, n), HoldsBoth
<1> QED
  BY <1>3, <1>6, <1>7

\* The first item is no audio, or it is the first packet of those carried.
LEMMA HoldsTail ==
    ASSUME NEW s \in Seq(Item), s # << >>, NEW m \in Nat, NEW n \in Nat, Holds(s, m, n)
    PROVE  /\ Tail(s) \in Seq(Item)
           /\ s[1] = NoVoice => Holds(Tail(s), m, n)
           /\ s[1] # NoVoice => s[1] = First(m + 1) /\ Holds(Tail(s), m + 1, n)
<1> DEFINE t == Tail(s)
<1>1. /\ Len(s) \in Nat \ {0} /\ Len(t) = Len(s) - 1 /\ t \in Seq(Item)
      /\ DOMAIN s = 1..Len(s) /\ DOMAIN t = 1..Len(t)
      /\ \A k \in 1..Len(t) : t[k] = s[k + 1]
      /\ \A k \in 1..Len(s) : s[k] \in Item
  OBVIOUS
<1>2. m <= n
  BY DEF Holds
<1>3. \A v : (\E k \in DOMAIN s : s[k] # NoVoice /\ v = s[k]) <=> (\E i \in m + 1..n : v = First(i))
  <2>1. {s[k] : k \in {k \in DOMAIN s : s[k] # NoVoice}} = {First(i) : i \in m + 1..n}
    BY DEF Holds, Carries
  <2> QED
    BY <2>1
<1>4. \A j, k \in DOMAIN s : s[j] # NoVoice /\ s[k] # NoVoice /\ j < k => s[j] < s[k]
  BY DEF Holds, Carries
<1> HIDE DEF t
<1>5. \A k \in DOMAIN t : k + 1 \in DOMAIN s /\ k + 1 > 1 /\ t[k] = s[k + 1]
  BY <1>1
<1>6. \A k \in DOMAIN s : k = 1 \/ (k - 1 \in DOMAIN t /\ s[k] = t[k - 1])
  <2> TAKE k \in DOMAIN s
  <2>1. k = 1 \/ (k - 1 \in 1..Len(t) /\ (k - 1) + 1 = k)
    BY <1>1
  <2> QED
    BY <1>1, <2>1
<1>7. \A j, k \in DOMAIN t : t[j] # NoVoice /\ t[k] # NoVoice /\ j < k => t[j] < t[k]
  <2> TAKE j, k \in DOMAIN t
  <2>1. j < k => j + 1 < k + 1
    BY <1>1
  <2> QED
    BY <1>4, <1>5, <2>1
<1>8. 1 \in DOMAIN s
  BY <1>1
<1>9. CASE s[1] = NoVoice
  <2>1. \A v : (\E k \in DOMAIN t : t[k] # NoVoice /\ v = t[k]) <=> (\E i \in m + 1..n : v = First(i))
    <3> TAKE v
    <3>1. ASSUME NEW k \in DOMAIN t, t[k] # NoVoice, v = t[k] PROVE \E i \in m + 1..n : v = First(i)
      BY <1>3, <1>5, <3>1
    <3>2. ASSUME NEW i \in m + 1..n, v = First(i) PROVE \E k \in DOMAIN t : t[k] # NoVoice /\ v = t[k]
      <4>1. PICK k \in DOMAIN s : s[k] # NoVoice /\ v = s[k]
        BY <1>3, <3>2
      <4> QED
        BY <1>6, <1>9, <4>1
    <3> QED
      BY <3>1, <3>2
  <2>2. {t[k] : k \in {k \in DOMAIN t : t[k] # NoVoice}} = {First(i) : i \in m + 1..n}
    BY <2>1
  <2> QED
    BY <1>1, <1>2, <1>7, <1>9, <2>2 DEF Holds, Carries, t
<1>10. CASE s[1] # NoVoice
  <2>1. PICK f \in m + 1..n : s[1] = First(f)
    BY <1>3, <1>8, <1>10
  <2>2. m + 1 \in m + 1..n /\ m + 1 <= n
    BY <2>1
  <2>3. PICK h \in DOMAIN s : s[h] # NoVoice /\ First(m + 1) = s[h]
    BY <1>3, <2>2
  <2>4. s[1] = First(m + 1)
    <3>1. CASE h = 1
      BY <2>3, <3>1
    <3>2. CASE h # 1
      <4>1. First(f) < First(m + 1)
        <5>1. 1 < h
          BY <1>1, <3>2
        <5> QED
          BY <1>4, <1>8, <1>10, <2>1, <2>3, <5>1
      <4>2. f < m + 1
        BY <2>1, <4>1, FirstGrows
      <4> QED
        BY <2>1, <4>2
    <3> QED
      BY <3>1, <3>2
  <2>5. ASSUME NEW k \in DOMAIN t, t[k] # NoVoice PROVE \E i \in (m + 1) + 1..n : t[k] = First(i)
    <3>1. PICK i \in m + 1..n : t[k] = First(i)
      BY <1>3, <1>5, <2>5
    <3>2. First(m + 1) < First(i)
      BY <1>4, <1>5, <1>8, <1>10, <2>4, <2>5, <3>1
    <3>3. m + 1 < i
      BY <3>1, <3>2, FirstGrows
    <3>4. i \in (m + 1) + 1..n
      BY <3>3
    <3> QED
      BY <3>1, <3>4
  <2>6. ASSUME NEW i \in (m + 1) + 1..n PROVE \E k \in DOMAIN t : t[k] # NoVoice /\ First(i) = t[k]
    <3>1. i \in m + 1..n /\ m + 1 < i /\ m + 1 \in Nat \ {0} /\ i \in Nat \ {0}
      OBVIOUS
    <3>2. PICK k \in DOMAIN s : s[k] # NoVoice /\ First(i) = s[k]
      BY <1>3, <3>1
    <3>3. First(m + 1) < First(i) /\ First(m + 1) \in Nat
      BY <3>1, FirstGrows, FirstType
    <3>4. k # 1
      BY <2>4, <3>2, <3>3
    <3> QED
      BY <1>6, <3>2, <3>4
  <2>7. {t[k] : k \in {k \in DOMAIN t : t[k] # NoVoice}} = {First(i) : i \in (m + 1) + 1..n}
    BY <2>5, <2>6
  <2>8. Holds(t, m + 1, n)
    BY <1>7, <2>2, <2>7 DEF Holds, Carries
  <2> QED
    BY <1>1, <1>10, <2>4, <2>8 DEF t
<1> QED
  BY <1>9, <1>10

-----------------------------------------------------------------------------
(* The uplink's types.                                                     *)

UpPacket == [eye : {TRUE}, seq : 0..RxSeqSpace - 1, keyup : BOOLEAN,
             voice : (Seq(Nat) \ {<< >>}) \cup {RxNoVoice}]

UpType ==
    /\ d_sendseq \in 0..RxSeqSpace - 1 /\ workSeq \in 0..RxSeqSpace - 1
    /\ unkeySeq \in 0..RxSeqSpace - 1 /\ rxSeq \in 0..RxSeqSpace
    /\ workPc \in {"fill", "load", "store", "send"} /\ unkeyPc \in {"idle", "store", "send"}
    /\ sampbuf \in Seq(Nat) /\ samples \in Nat
    /\ workPc = "fill" => Len(sampbuf) < SampbufSize
    /\ workPc # "fill" => Len(sampbuf) = SampbufSize
    /\ net \in Seq(UpPacket) /\ rxq \in Seq(Nat) /\ readq \in Seq(Frame) /\ heard \in Seq(Nat)
    /\ lost \in Nat /\ overloads \in Nat /\ overlapped \in BOOLEAN /\ alarmed \in BOOLEAN

LEMMA FrameTypes ==
    /\ KEY \in Frame /\ UNKEY \in Frame /\ \A v \in Nat : VOICE(v) \in Frame
    /\ \A f \in Frame : f.voice \in Item /\ (f.type = "voice" <=> f.voice # NoVoice)
BY UpTypes DEF Frame, KEY, UNKEY, VOICE, Item

LEMMA BurstType ==
    ASSUME UpType
    PROVE  KeyFrames \in Seq(Frame) /\ VoiceFrames \in Seq(Frame) /\ UnkeyFrames \in Seq(Frame)
<1>1. KeyFrames \in Seq(Frame)
  BY FrameTypes DEF KeyFrames
<1>2. VoiceFrames \in Seq(Frame)
  <2>1. rxq # << >> => VOICE(Head(rxq)) \in Frame
    BY FrameTypes DEF UpType
  <2> QED
    BY <2>1 DEF VoiceFrames
<1>3. UnkeyFrames \in Seq(Frame)
  BY FrameTypes DEF UnkeyFrames
<1> QED
  BY <1>1, <1>2, <1>3

LEMMA NamedTypes ==
    ASSUME NEW p \in UpPacket
    PROVE  /\ Named(p).eye = TRUE /\ Named(p).seq = p.seq /\ p.seq \in 0..RxSeqSpace - 1
           /\ Named(p).voice \in Item
           /\ p.voice = RxNoVoice => Named(p).voice = NoVoice
           /\ p.voice # RxNoVoice => Named(p).voice = Head(p.voice)
<1>1. p.seq \in 0..RxSeqSpace - 1 /\ p.eye = TRUE
  BY DEF UpPacket
<1>2. CASE p.voice = RxNoVoice
  BY <1>1, <1>2 DEF Named, Item, UpPacket
<1>3. CASE p.voice # RxNoVoice
  <2>1. p.voice \in Seq(Nat) /\ p.voice # << >>
    BY <1>3 DEF UpPacket
  <2>2. Head(p.voice) \in Nat
    BY <2>1
  <2> QED
    BY <1>1, <1>3, <2>2 DEF Named, Item, UpPacket
<1> QED
  BY <1>2, <1>3

LEMMA UpTypeStep == ASSUME UpType, [UpNext]_upVars PROVE UpType'
<1> USE DEF UpType
<1>0. \A s \in 0..RxSeqSpace - 1 : (s + 1) % RxSeqSpace \in 0..RxSeqSpace - 1
  BY UpTypes
<1>1. CASE Capture
  <2>1. Sample(samples + 1) /\ samples' = samples + 1
    BY <1>1 DEF Capture
  <2>2. sampbuf' = Append(sampbuf, samples + 1) /\ workPc = "fill"
        /\ workPc' = IF Len(sampbuf') >= SampbufSize THEN "load" ELSE "fill"
    BY <2>1 DEF Sample
  <2>3. sampbuf' \in Seq(Nat) /\ Len(sampbuf') = Len(sampbuf) + 1
    BY <2>2
  <2>4. Len(sampbuf) \in Nat /\ Len(sampbuf) < SampbufSize /\ SampbufSize \in Nat
    BY <2>2, UpTypes
  <2>5. /\ workPc' \in {"fill", "load", "store", "send"} /\ samples' \in Nat
        /\ workPc' = "fill" => Len(sampbuf') < SampbufSize
        /\ workPc' # "fill" => Len(sampbuf') = SampbufSize
    <3> DEFINE n == Len(sampbuf')
    <3>1. n = Len(sampbuf) + 1 /\ workPc' = IF n >= SampbufSize THEN "load" ELSE "fill"
      BY <2>2, <2>3
    <3> HIDE DEF n
    <3>2. /\ workPc' \in {"fill", "load", "store", "send"}
          /\ workPc' = "fill" => n < SampbufSize
          /\ workPc' # "fill" => n = SampbufSize
      BY ONLY <2>4, <3>1
    <3> QED
      BY <2>1, <3>2 DEF n
  <2>6. UNCHANGED <<d_sendseq, workSeq, unkeyPc, unkeySeq, rxSeq, rxq, readq, net, heard, lost,
                    overloads, overlapped, alarmed>>
    BY <1>1, <2>1 DEF Capture, Sample, chanVars, pvtVars
  <2> QED
    BY <2>3, <2>5, <2>6
<1>2. CASE Number
  <2>1. UNCHANGED <<sampbuf, samples, rxSeq, rxq, readq, net, heard, lost, overloads, alarmed>>
    BY <1>2 DEF Number, WorkLoad, WorkStore, UnkeyStore, chanVars, pvtVars
  <2>2. overlapped' \in BOOLEAN
    BY <1>2 DEF Number, Overlap
  <2>3. /\ d_sendseq' \in 0..RxSeqSpace - 1 /\ workSeq' \in 0..RxSeqSpace - 1
        /\ unkeySeq' \in 0..RxSeqSpace - 1
        /\ workPc' \in {"fill", "load", "store", "send"} /\ unkeyPc' \in {"idle", "store", "send"}
        /\ workPc' = "fill" <=> workPc = "fill"
    BY <1>0, <1>2 DEF Number, WorkLoad, WorkStore, UnkeyStore
  <2> QED
    BY <2>1, <2>2, <2>3
<1>3. CASE SendAudio
  <2>1. workPc = "send" /\ sampbuf' = << >> /\ workPc' = "fill" /\ net' = Append(net, AudioPacket)
    BY <1>3 DEF SendAudio, WorkSent
  <2>2. AudioPacket \in UpPacket
    <3>1. sampbuf \in Seq(Nat) \ {<< >>}
      BY <2>1, UpTypes
    <3> QED
      BY <3>1 DEF AudioPacket, UpPacket
  <2>3. net' \in Seq(UpPacket) /\ sampbuf' \in Seq(Nat) /\ Len(sampbuf') < SampbufSize
    BY <2>1, <2>2, UpTypes
  <2>4. UNCHANGED <<d_sendseq, workSeq, unkeyPc, unkeySeq, rxSeq, rxq, readq, samples, heard, lost,
                    overloads, overlapped, alarmed>>
    BY <1>3 DEF SendAudio, WorkSent, chanVars, pvtVars, ghosts
  <2> QED
    BY <2>1, <2>3, <2>4
<1>4. CASE Unkey
  BY <1>4 DEF Unkey, UnkeyLoad, Overlap, chanVars, pvtVars
<1>5. CASE SendUnkey
  <2>1. HeaderPacket \in UpPacket
    BY DEF HeaderPacket, UpPacket
  <2>2. net' \in Seq(UpPacket)
    BY <1>5, <2>1 DEF SendUnkey
  <2> QED
    BY <1>5, <2>2 DEF SendUnkey, UnkeySent, chanVars, pvtVars, ghosts
<1>6. CASE Arrive
  <2>1. Head(net) \in UpPacket /\ net' = Tail(net) /\ net' \in Seq(UpPacket)
    BY <1>6 DEF Arrive
  <2> DEFINE p == Named(Head(net))
  <2>2. p.eye = TRUE /\ p.seq \in 0..RxSeqSpace - 1 /\ p.voice \in Item
    BY <2>1, NamedTypes
  <2>3. Xread(p) /\ alarmed' = (alarmed \/ ReportsLoss(p))
    BY <1>6 DEF Arrive
  <2> HIDE DEF p
  <2>4. rxSeq' \in 0..RxSeqSpace
    BY <2>2, <2>3, UpTypes DEF Xread
  <2>5. rxq' \in Seq(Nat)
    <3>1. p.voice # NoVoice => p.voice \in Nat
      BY <2>2 DEF Item
    <3>2. rxq' = rxq \/ (p.voice # NoVoice /\ rxq' = Append(rxq, p.voice))
      BY <2>3 DEF Xread, Enqueue, HasAudio
    <3>3. rxq \in Seq(Nat)
      OBVIOUS
    <3>4. CASE rxq' = rxq
      BY ONLY <3>3, <3>4
    <3>5. CASE p.voice # NoVoice /\ rxq' = Append(rxq, p.voice)
      <4>1. p.voice \in Nat
        BY <3>1, <3>5
      <4> QED
        BY ONLY <3>3, <3>5, <4>1
    <3> QED
      BY ONLY <3>2, <3>4, <3>5
  <2>6. alarmed' \in BOOLEAN
    BY <2>2, <2>3 DEF ReportsLoss
  <2>7. UNCHANGED <<d_sendseq, workSeq, unkeyPc, unkeySeq, workPc, sampbuf, readq, samples, heard,
                    lost, overloads, overlapped>>
    BY <1>6, <2>3 DEF Arrive, Xread, rxVars
  <2> QED
    BY <2>1, <2>4, <2>5, <2>6, <2>7
<1>7. CASE Drop
  <2>1. net' \in Seq(UpPacket)
    BY <1>7, RemoveAtType DEF Drop
  <2> QED
    BY <1>7, <2>1 DEF Drop, rxVars, chanVars, pvtVars
<1>8. CASE AsteriskWrites
  <2>1. ServeRxq /\ rxSeq' = rxSeq
    BY <1>8 DEF AsteriskWrites, Xwrite
  <2>2. readq' \in Seq(Frame)
    BY <2>1, BurstType DEF ServeRxq, Burst
  <2>3. rxq' \in Seq(Nat)
    BY <2>1 DEF ServeRxq
  <2>4. overloads' \in Nat
    BY <1>8 DEF AsteriskWrites
  <2> QED
    BY <1>8, <2>1, <2>2, <2>3, <2>4 DEF AsteriskWrites, rxVars
<1>9. CASE AsteriskReads
  <2>1. readq # << >> /\ readq' = Tail(readq)
    BY <1>9 DEF AsteriskReads, CoreRead
  <2>2. Head(readq) \in Frame /\ readq' \in Seq(Frame)
    BY <2>1
  <2>3. Head(readq).type = "voice" => Head(readq).voice \in Nat
    BY <2>2, FrameTypes DEF Item
  <2>4. heard' \in Seq(Nat)
    BY <1>9, <2>3 DEF AsteriskReads
  <2> QED
    BY <1>9, <2>2, <2>4 DEF AsteriskReads, CoreRead, pvtVars, rxVars
<1>10. CASE UNCHANGED upVars
  BY <1>10 DEF upVars, rxVars, chanVars, pvtVars, ghosts
<1> QED
  BY <1>1, <1>2, <1>3, <1>4, <1>5, <1>6, <1>7, <1>8, <1>9, <1>10 DEF UpNext

LEMMA UpTypeInit == ASSUME UpInit PROVE UpType
<1>1. 0 \in 0..RxSeqSpace - 1 /\ 0 \in 0..RxSeqSpace /\ 0 < SampbufSize
  BY UpTypes
<1>2. sampbuf = << >> /\ net = << >> /\ rxq = << >> /\ readq = << >> /\ heard = << >>
  BY DEF UpInit, RxInit
<1>3. sampbuf \in Seq(Nat) /\ Len(sampbuf) = 0 /\ net \in Seq(UpPacket) /\ rxq \in Seq(Nat)
      /\ readq \in Seq(Frame) /\ heard \in Seq(Nat)
  BY <1>2
<1>4. d_sendseq = 0 /\ workSeq = 0 /\ unkeySeq = 0 /\ rxSeq = 0 /\ workPc = "fill"
      /\ unkeyPc = "idle" /\ samples = 0 /\ lost = 0 /\ overloads = 0
      /\ overlapped = FALSE /\ alarmed = FALSE
  BY DEF UpInit, RxInit
<1> QED
  BY <1>1, <1>3, <1>4 DEF UpType

LEMMA UpTypesHold == UpSpec => []UpType
BY UpTypeInit, UpTypeStep, PTL DEF UpSpec

-----------------------------------------------------------------------------
(* The audio of the uplink, piece by piece: what Asterisk has read, what   *)
(* waits for it, what waits in the channel, what is on the net, what is    *)
(* in the buffer.                                                          *)

FrameAudio(q) == [i \in DOMAIN q |-> q[i].voice]
NetAudio(w) == [i \in DOMAIN w |-> Named(w[i]).voice]

\* Packets 1 to h, a, b and c have left readq, rxq, net and the buffer.
Pieces(h, q, a, x, b, w, c) ==
    /\ Holds(FrameAudio(q), h, a) /\ Holds(x, a, b) /\ Holds(NetAudio(w), b, c)

HeardInOrder(h) == \A i \in 1..Len(h) : h[i] = First(i)
Buffered(c, buf, n) ==
    /\ c * SampbufSize + Len(buf) = n
    /\ \A k \in 1..Len(buf) : buf[k] = c * SampbufSize + k

Audio(h, q, x, w, buf, n) ==
    /\ HeardInOrder(h)
    /\ \E a, b, c \in Nat : Pieces(Len(h), q, a, x, b, w, c) /\ Buffered(c, buf, n)

AudioKept ==
    lost = 0 /\ overloads = 0 => Audio(heard, readq, rxq, net, sampbuf, samples)

LEMMA FrameAudioType ==
    ASSUME NEW q \in Seq(Frame)
    PROVE  /\ FrameAudio(q) \in Seq(Item) /\ Len(FrameAudio(q)) = Len(q)
           /\ \A i \in 1..Len(q) : FrameAudio(q)[i] = q[i].voice
<1>1. DOMAIN q = 1..Len(q) /\ Len(q) \in Nat /\ \A i \in 1..Len(q) : q[i] \in Frame
  OBVIOUS
<1>2. \A i \in 1..Len(q) : q[i].voice \in Item
  BY <1>1, FrameTypes
<1> QED
  BY <1>1, <1>2 DEF FrameAudio

LEMMA FrameAudioConcat ==
    ASSUME NEW q \in Seq(Frame), NEW r \in Seq(Frame)
    PROVE  q \o r \in Seq(Frame) /\ FrameAudio(q \o r) = FrameAudio(q) \o FrameAudio(r)
<1> DEFINE c == q \o r
           f == FrameAudio(q)
           g == FrameAudio(r)
<1>1. c \in Seq(Frame) /\ Len(c) = Len(q) + Len(r) /\ Len(q) \in Nat /\ Len(r) \in Nat
      /\ \A i \in 1..Len(q) + Len(r) : c[i] = IF i <= Len(q) THEN q[i] ELSE r[i - Len(q)]
  BY ConcatProperties
<1>2. /\ f \in Seq(Item) /\ Len(f) = Len(q) /\ \A i \in 1..Len(q) : f[i] = q[i].voice
      /\ g \in Seq(Item) /\ Len(g) = Len(r) /\ \A i \in 1..Len(r) : g[i] = r[i].voice
  BY FrameAudioType
<1>3. /\ FrameAudio(c) \in Seq(Item) /\ Len(FrameAudio(c)) = Len(c)
      /\ \A i \in 1..Len(c) : FrameAudio(c)[i] = c[i].voice
  BY <1>1, FrameAudioType
<1> HIDE DEF c, f, g
<1>4. /\ f \o g \in Seq(Item) /\ Len(f \o g) = Len(f) + Len(g)
      /\ \A i \in 1..Len(f) + Len(g) : (f \o g)[i] = IF i <= Len(f) THEN f[i] ELSE g[i - Len(f)]
  <2>1. f \in Seq(Item) /\ g \in Seq(Item)
    BY <1>2
  <2> QED
    BY ONLY <2>1, ConcatProperties
<1>5. ASSUME NEW i \in 1..Len(c) PROVE FrameAudio(c)[i] = (f \o g)[i]
  <2>1. CASE i <= Len(q)
    BY <1>1, <1>2, <1>3, <1>4, <2>1
  <2>2. CASE ~(i <= Len(q))
    <3>1. i - Len(q) \in 1..Len(r)
      BY <1>1, <2>2
    <3> QED
      BY <1>1, <1>2, <1>3, <1>4, <2>2, <3>1
  <2> QED
    BY <2>1, <2>2
<1>6. FrameAudio(c) = f \o g
  <2>1. Len(FrameAudio(c)) = Len(f \o g)
    BY <1>1, <1>2, <1>3, <1>4
  <2>2. \A i \in 1..Len(FrameAudio(c)) : FrameAudio(c)[i] = (f \o g)[i]
    BY <1>3, <1>5
  <2> QED
    BY ONLY <1>3, <1>4, <2>1, <2>2, SeqEqual
<1> QED
  BY <1>1, <1>6 DEF c, f, g

LEMMA FrameAudioTail ==
    ASSUME NEW q \in Seq(Frame), q # << >>
    PROVE  FrameAudio(q) # << >> /\ FrameAudio(Tail(q)) = Tail(FrameAudio(q))
           /\ FrameAudio(q)[1] = Head(q).voice
<1> DEFINE f == FrameAudio(q)
           t == Tail(q)
<1>1. t \in Seq(Frame) /\ Len(q) \in Nat \ {0} /\ Len(t) = Len(q) - 1 /\ Head(q) = q[1]
      /\ \A i \in 1..Len(t) : t[i] = q[i + 1]
  OBVIOUS
<1>2. f \in Seq(Item) /\ Len(f) = Len(q) /\ \A i \in 1..Len(q) : f[i] = q[i].voice
  BY FrameAudioType
<1> HIDE DEF t
<1>3. /\ FrameAudio(t) \in Seq(Item) /\ Len(FrameAudio(t)) = Len(t)
      /\ \A i \in 1..Len(t) : FrameAudio(t)[i] = t[i].voice
  BY <1>1, FrameAudioType
<1> HIDE DEF f
<1>4. f # << >> /\ Tail(f) \in Seq(Item) /\ Len(Tail(f)) = Len(f) - 1
      /\ \A i \in 1..Len(Tail(f)) : Tail(f)[i] = f[i + 1]
  BY <1>1, <1>2
<1>5. ASSUME NEW i \in 1..Len(FrameAudio(t)) PROVE FrameAudio(t)[i] = Tail(f)[i]
  <2>1. i \in 1..Len(t) /\ i \in 1..Len(Tail(f)) /\ i + 1 \in 1..Len(q)
    BY <1>1, <1>2, <1>3, <1>4
  <2> QED
    BY <1>1, <1>2, <1>3, <1>4, <2>1
<1>6. FrameAudio(t) = Tail(f)
  <2>1. Len(FrameAudio(t)) = Len(Tail(f))
    BY <1>1, <1>2, <1>3, <1>4
  <2> QED
    BY ONLY <1>3, <1>4, <1>5, <2>1, SeqEqual
<1>7. f[1] = Head(q).voice
  BY <1>1, <1>2
<1> QED
  BY <1>4, <1>6, <1>7 DEF f, t

LEMMA NetAudioType ==
    ASSUME NEW w \in Seq(UpPacket)
    PROVE  /\ NetAudio(w) \in Seq(Item) /\ Len(NetAudio(w)) = Len(w)
           /\ \A i \in 1..Len(w) : NetAudio(w)[i] = Named(w[i]).voice
<1>1. DOMAIN w = 1..Len(w) /\ Len(w) \in Nat /\ \A i \in 1..Len(w) : w[i] \in UpPacket
  OBVIOUS
<1>2. \A i \in 1..Len(w) : Named(w[i]).voice \in Item
  BY <1>1, NamedTypes
<1> QED
  BY <1>1, <1>2 DEF NetAudio

LEMMA NetAudioTail ==
    ASSUME NEW w \in Seq(UpPacket), w # << >>
    PROVE  NetAudio(w) # << >> /\ NetAudio(Tail(w)) = Tail(NetAudio(w))
           /\ NetAudio(w)[1] = Named(Head(w)).voice
<1> DEFINE f == NetAudio(w)
           t == Tail(w)
<1>1. t \in Seq(UpPacket) /\ Len(w) \in Nat \ {0} /\ Len(t) = Len(w) - 1 /\ Head(w) = w[1]
      /\ \A i \in 1..Len(t) : t[i] = w[i + 1]
  OBVIOUS
<1>2. f \in Seq(Item) /\ Len(f) = Len(w) /\ \A i \in 1..Len(w) : f[i] = Named(w[i]).voice
  BY NetAudioType
<1> HIDE DEF t
<1>3. /\ NetAudio(t) \in Seq(Item) /\ Len(NetAudio(t)) = Len(t)
      /\ \A i \in 1..Len(t) : NetAudio(t)[i] = Named(t[i]).voice
  BY <1>1, NetAudioType
<1> HIDE DEF f
<1>4. f # << >> /\ Tail(f) \in Seq(Item) /\ Len(Tail(f)) = Len(f) - 1
      /\ \A i \in 1..Len(Tail(f)) : Tail(f)[i] = f[i + 1]
  BY <1>1, <1>2
<1>5. ASSUME NEW i \in 1..Len(NetAudio(t)) PROVE NetAudio(t)[i] = Tail(f)[i]
  <2>1. i \in 1..Len(t) /\ i \in 1..Len(Tail(f)) /\ i + 1 \in 1..Len(w)
    BY <1>1, <1>2, <1>3, <1>4
  <2> QED
    BY <1>1, <1>2, <1>3, <1>4, <2>1
<1>6. NetAudio(t) = Tail(f)
  <2>1. Len(NetAudio(t)) = Len(Tail(f))
    BY <1>1, <1>2, <1>3, <1>4
  <2> QED
    BY ONLY <1>3, <1>4, <1>5, <2>1, SeqEqual
<1>7. f[1] = Named(Head(w)).voice
  BY <1>1, <1>2
<1> QED
  BY <1>4, <1>6, <1>7 DEF f, t

LEMMA NetAudioAppend ==
    ASSUME NEW w \in Seq(UpPacket), NEW p \in UpPacket
    PROVE  NetAudio(Append(w, p)) = Append(NetAudio(w), Named(p).voice)
<1> DEFINE a == Append(w, p)
           f == NetAudio(w)
           v == Named(p).voice
<1>1. a \in Seq(UpPacket) /\ Len(w) \in Nat /\ Len(a) = Len(w) + 1 /\ a[Len(w) + 1] = p
      /\ \A i \in 1..Len(w) : a[i] = w[i]
  OBVIOUS
<1>2. f \in Seq(Item) /\ Len(f) = Len(w) /\ \A i \in 1..Len(w) : f[i] = Named(w[i]).voice
  BY NetAudioType
<1>3. v \in Item
  BY NamedTypes
<1> HIDE DEF a
<1>4. /\ NetAudio(a) \in Seq(Item) /\ Len(NetAudio(a)) = Len(a)
      /\ \A i \in 1..Len(a) : NetAudio(a)[i] = Named(a[i]).voice
  BY <1>1, NetAudioType
<1> HIDE DEF f
<1>5. NetAudio(a)[Len(w) + 1] = v
  BY <1>1, <1>4
<1> HIDE DEF v
<1>6. Append(f, v) \in Seq(Item) /\ Len(Append(f, v)) = Len(f) + 1 /\ Append(f, v)[Len(f) + 1] = v
      /\ \A i \in 1..Len(f) : Append(f, v)[i] = f[i]
  BY ONLY <1>2, <1>3, AppendProperties
<1>7. ASSUME NEW i \in 1..Len(NetAudio(a)) PROVE NetAudio(a)[i] = Append(f, v)[i]
  <2>1. i \in 1..Len(w) \/ i = Len(w) + 1
    BY <1>1, <1>4
  <2> QED
    BY <1>1, <1>2, <1>4, <1>5, <1>6, <2>1
<1>8. NetAudio(a) = Append(f, v)
  <2>1. Len(NetAudio(a)) = Len(Append(f, v))
    BY <1>1, <1>2, <1>4, <1>6
  <2> QED
    BY ONLY <1>4, <1>6, <1>7, <2>1, SeqEqual
<1> QED
  BY <1>8 DEF a, f, v

LEMMA NatItems == ASSUME NEW s \in Seq(Nat) PROVE s \in Seq(Item)
<1>1. Nat \subseteq Item
  BY DEF Item
<1> QED
  BY ONLY <1>1, s \in Seq(Nat), SeqMonotonic

\* Frames without audio at the end of a queue of frames.
LEMMA SilentFrames ==
    ASSUME NEW q \in Seq(Frame), NEW r \in Seq(Frame), \A i \in 1..Len(r) : r[i].voice = NoVoice,
           NEW l \in Nat, NEW m \in Nat, Holds(FrameAudio(q), l, m)
    PROVE  q \o r \in Seq(Frame) /\ Holds(FrameAudio(q \o r), l, m)
<1>1. q \o r \in Seq(Frame) /\ FrameAudio(q \o r) = FrameAudio(q) \o FrameAudio(r)
  BY FrameAudioConcat
<1>2. /\ FrameAudio(q) \in Seq(Item) /\ FrameAudio(r) \in Seq(Item)
      /\ Len(FrameAudio(r)) = Len(r) /\ \A i \in 1..Len(r) : FrameAudio(r)[i] = r[i].voice
  BY FrameAudioType
<1>3. Holds(FrameAudio(r), m, m)
  <2>1. \A k \in DOMAIN FrameAudio(r) : FrameAudio(r)[k] = NoVoice
    BY <1>2, SMTT(30)
  <2> QED
    BY <1>2, <2>1, HoldsNothing
<1> QED
  BY <1>1, <1>2, <1>3, HoldsBoth

\* usrp_xwrite moves a packet from the channel's queue to Asterisk's, with
\* a KEY before it or an UNKEY after it or not, or has none to move.
LEMMA ServeHolds ==
    ASSUME UpType, ServeRxq, ~(rxq # << >> /\ Overloaded),
           NEW l \in Nat, NEW m \in Nat, NEW n \in Nat,
           Holds(FrameAudio(readq), l, m), Holds(rxq, m, n)
    PROVE  \E k \in Nat : Holds(FrameAudio(readq'), l, k) /\ Holds(rxq', k, n)
<1>0. readq \in Seq(Frame) /\ rxq \in Seq(Nat)
  BY DEF UpType
<1>1. KeyFrames \in Seq(Frame) /\ VoiceFrames \in Seq(Frame) /\ UnkeyFrames \in Seq(Frame)
  BY BurstType
<1>2. readq' = ((readq \o KeyFrames) \o VoiceFrames) \o UnkeyFrames
  <2>1. readq \o ((KeyFrames \o VoiceFrames) \o UnkeyFrames)
          = ((readq \o KeyFrames) \o VoiceFrames) \o UnkeyFrames
    <3>0. \A x, y, z \in Seq(Frame) : x \o (y \o z) = (x \o y) \o z
      <4> TAKE x \in Seq(Frame), y \in Seq(Frame), z \in Seq(Frame)
      <4>1. (x \o y) \o z = x \o (y \o z)
        BY ONLY x \in Seq(Frame), y \in Seq(Frame), z \in Seq(Frame), ConcatAssociative
      <4> QED
        BY <4>1
    <3>1. KeyFrames \o VoiceFrames \in Seq(Frame)
      BY <1>1
    <3>2. readq \o ((KeyFrames \o VoiceFrames) \o UnkeyFrames)
            = (readq \o (KeyFrames \o VoiceFrames)) \o UnkeyFrames
      BY ONLY <1>0, <1>1, <3>0, <3>1, ZenonT(60)
    <3>3. readq \o (KeyFrames \o VoiceFrames) = (readq \o KeyFrames) \o VoiceFrames
      BY ONLY <1>0, <1>1, <3>0, Zenon
    <3> QED
      BY <3>2, <3>3
  <2>2. readq' = readq \o ((KeyFrames \o VoiceFrames) \o UnkeyFrames)
    BY DEF ServeRxq, Burst
  <2> QED
    BY ONLY <2>1, <2>2, Zenon
<1>3. /\ \A i \in 1..Len(KeyFrames) : KeyFrames[i].voice = NoVoice
      /\ \A i \in 1..Len(UnkeyFrames) : UnkeyFrames[i].voice = NoVoice
  BY DEF KeyFrames, UnkeyFrames, KEY, UNKEY
<1>4. readq \o KeyFrames \in Seq(Frame) /\ Holds(FrameAudio(readq \o KeyFrames), l, m)
  BY <1>0, <1>1, <1>3, SilentFrames
<1> DEFINE q == readq \o KeyFrames
<1> HIDE DEF q
<1>5. ASSUME NEW k \in Nat, Holds(FrameAudio(q \o VoiceFrames), l, k)
      PROVE  Holds(FrameAudio(readq'), l, k)
  <2>1. q \in Seq(Frame)
    BY <1>4 DEF q
  <2>2. q \o VoiceFrames \in Seq(Frame)
    BY <1>1, <2>1
  <2>3. Holds(FrameAudio((q \o VoiceFrames) \o UnkeyFrames), l, k)
    BY ONLY <1>1, <1>3, <1>5, <2>2, l \in Nat, k \in Nat, SilentFrames
  <2> QED
    BY <1>2, <2>3 DEF q
<1>6. CASE rxq = << >>
  <2>1. VoiceFrames = << >> /\ rxq' = << >>
    BY <1>6 DEF VoiceFrames, ServeRxq
  <2>2. q \o VoiceFrames = q
    BY <1>4, <2>1 DEF q
  <2>3. Holds(FrameAudio(readq'), l, m)
    BY <1>4, <1>5, <2>2 DEF q
  <2> QED
    BY <1>6, <2>1, <2>3
<1>7. CASE rxq # << >>
  <2>1. VoiceFrames = <<VOICE(Head(rxq))>> /\ rxq' = Tail(rxq) /\ Head(rxq) = rxq[1] /\ rxq[1] \in Nat
    BY <1>0, <1>7 DEF VoiceFrames, ServeRxq
  <2>2. rxq[1] # NoVoice
    BY <2>1, UpTypes
  <2>3. rxq[1] = First(m + 1) /\ Holds(rxq', m + 1, n)
    <3>1. rxq \in Seq(Item)
      BY <1>0, NatItems
    <3> QED
      BY <1>7, <2>1, <2>2, <3>1, HoldsTail
  <2>4. FrameAudio(VoiceFrames) = <<First(m + 1)>>
    <3>1. VoiceFrames = <<[type |-> "voice", voice |-> First(m + 1)]>>
      BY <2>1, <2>3 DEF VOICE
    <3> QED
      BY <3>1 DEF FrameAudio
  <2>5. q \in Seq(Frame) /\ FrameAudio(q) \in Seq(Item) /\ Holds(FrameAudio(q), l, m)
    <3>1. q \in Seq(Frame) /\ Holds(FrameAudio(q), l, m)
      BY <1>4 DEF q
    <3> QED
      BY <3>1, FrameAudioType
  <2>6. FrameAudio(q \o VoiceFrames) = FrameAudio(q) \o <<First(m + 1)>>
    <3>1. FrameAudio(q \o VoiceFrames) = FrameAudio(q) \o FrameAudio(VoiceFrames)
      BY ONLY <1>1, <2>5, FrameAudioConcat
    <3> QED
      BY ONLY <2>4, <3>1, Zenon
  <2>7. Holds(FrameAudio(q) \o <<First(m + 1)>>, l, m + 1) /\ m + 1 \in Nat
    <3>1. <<First(m + 1)>> \in Seq(Item) /\ m + 1 \in Nat
      BY FirstType DEF Item
    <3>2. Holds(<<First(m + 1)>>, m, m + 1)
      BY HoldsOne
    <3> QED
      BY ONLY <2>5, <3>1, <3>2, l \in Nat, m \in Nat, HoldsBoth
  <2>8. Holds(FrameAudio(readq'), l, m + 1)
    BY <1>5, <2>6, <2>7
  <2> QED
    BY <2>3, <2>7, <2>8
<1> QED
  BY <1>6, <1>7

LEMMA AudioKeptStep == ASSUME UpType, AudioKept, [UpNext]_upVars PROVE AudioKept'
<1>1. lost \in Nat /\ overloads \in Nat /\ SampbufSize \in Nat \ {0}
  BY UpTypes DEF UpType
<1>2. CASE Drop \/ (AsteriskWrites /\ rxq # << >> /\ Overloaded)
  <2>1. lost' = lost + 1 \/ overloads' = overloads + 1
    BY <1>2 DEF Drop, AsteriskWrites
  <2>2. lost' # 0 \/ overloads' # 0
    BY <1>1, <2>1
  <2> QED
    BY <2>2 DEF AudioKept
<1>3. CASE ~Drop /\ ~(AsteriskWrites /\ rxq # << >> /\ Overloaded)
  <2>1. UNCHANGED <<lost, overloads>>
    BY <1>3 DEF UpNext, Capture, Number, SendAudio, Unkey, SendUnkey, Arrive, AsteriskWrites,
                AsteriskReads, upVars, ghosts
  <2> SUFFICES ASSUME Audio(heard, readq, rxq, net, sampbuf, samples)
               PROVE  Audio(heard', readq', rxq', net', sampbuf', samples')
    BY <2>1 DEF AudioKept
  <2>2. HeardInOrder(heard)
    BY DEF Audio
  <2>3. PICK a \in Nat, b \in Nat, c \in Nat :
             Pieces(Len(heard), readq, a, rxq, b, net, c) /\ Buffered(c, sampbuf, samples)
    BY DEF Audio
  <2> DEFINE Goal(x, y, z) == /\ HeardInOrder(heard')
                              /\ Pieces(Len(heard'), readq', x, rxq', y, net', z)
                              /\ Buffered(z, sampbuf', samples')
  <2>4. ASSUME NEW x \in Nat, NEW y \in Nat, NEW z \in Nat, Goal(x, y, z)
        PROVE  Audio(heard', readq', rxq', net', sampbuf', samples')
    BY <2>4 DEF Audio
  <2>5. Holds(FrameAudio(readq), Len(heard), a) /\ Holds(rxq, a, b) /\ Holds(NetAudio(net), b, c)
    BY <2>3 DEF Pieces
  <2>6. CASE Capture
    <3>1. /\ sampbuf' = Append(sampbuf, samples + 1) /\ samples' = samples + 1
          /\ UNCHANGED <<net, rxq, readq, heard>>
      BY <2>6 DEF Capture, Sample, chanVars, pvtVars
    <3>2. Buffered(c, sampbuf', samples')
      <4> DEFINE s == sampbuf'
                 n == c * SampbufSize
      <4>1. /\ Len(s) = Len(sampbuf) + 1 /\ Len(sampbuf) \in Nat /\ s[Len(sampbuf) + 1] = samples + 1
            /\ \A k \in 1..Len(sampbuf) : s[k] = sampbuf[k]
        BY <3>1 DEF UpType
      <4>2. n \in Nat /\ samples \in Nat
        BY <1>1 DEF UpType
      <4>3. n + Len(sampbuf) = samples /\ \A k \in 1..Len(sampbuf) : sampbuf[k] = n + k
        BY <2>3 DEF Buffered
      <4> HIDE DEF s, n
      <4>4. n + Len(s) = samples + 1
        BY <4>1, <4>2, <4>3
      <4>5. ASSUME NEW k \in 1..Len(s) PROVE s[k] = n + k
        <5>1. k \in 1..Len(sampbuf) \/ k = Len(sampbuf) + 1
          BY <4>1
        <5> QED
          BY <4>1, <4>2, <4>3, <5>1
      <4> QED
        BY <3>1, <4>4, <4>5 DEF Buffered, s, n
    <3>3. Goal(a, b, c)
      BY <2>2, <2>3, <3>1, <3>2, Zenon DEF Pieces, HeardInOrder
    <3> QED
      BY <2>4, <3>3
  <2>7. CASE SendAudio
    <3>1. /\ workPc = "send" /\ sampbuf' = << >> /\ net' = Append(net, AudioPacket)
          /\ UNCHANGED <<samples, rxq, readq, heard>>
      BY <2>7 DEF SendAudio, WorkSent, chanVars, pvtVars, ghosts
    <3>2. sampbuf \in Seq(Nat) /\ Len(sampbuf) = SampbufSize /\ net \in Seq(UpPacket)
      BY <3>1 DEF UpType
    <3>3. 1 \in 1..Len(sampbuf) /\ sampbuf # << >> /\ Head(sampbuf) = sampbuf[1]
      BY <1>1, <3>2
    <3>4. sampbuf[1] = First(c + 1)
      <4>1. sampbuf[1] = c * SampbufSize + 1
        BY <2>3, <3>3 DEF Buffered
      <4>2. (c + 1) - 1 = c
        OBVIOUS
      <4> QED
        BY <4>1, <4>2 DEF First
    <3>5. AudioPacket \in UpPacket /\ AudioPacket.voice = sampbuf /\ sampbuf # RxNoVoice
      <4>1. sampbuf # RxNoVoice
        BY <3>2, UpTypes
      <4> QED
        BY <3>2, <3>3, <4>1 DEF AudioPacket, UpPacket, UpType
    <3>6. Named(AudioPacket).voice = First(c + 1)
      BY <3>3, <3>4, <3>5, NamedTypes
    <3>7. NetAudio(net') = Append(NetAudio(net), First(c + 1)) /\ NetAudio(net) \in Seq(Item)
      BY <3>1, <3>2, <3>5, <3>6, NetAudioAppend, NetAudioType
    <3>8. Holds(NetAudio(net'), b, c + 1)
      BY <2>5, <3>7, HoldsAppend
    <3>9. Buffered(c + 1, sampbuf', samples')
      <4>1. (c + 1) * SampbufSize = c * SampbufSize + SampbufSize
        BY <1>1
      <4>2. c * SampbufSize + SampbufSize = samples
        BY <2>3, <3>2 DEF Buffered
      <4>3. Len(sampbuf') = 0 /\ samples \in Nat /\ samples' = samples
        BY <3>1 DEF UpType
      <4> QED
        BY <4>1, <4>2, <4>3 DEF Buffered
    <3>10. Goal(a, b, c + 1) /\ c + 1 \in Nat
      <4>1. Pieces(Len(heard'), readq', a, rxq', b, net', c + 1)
        BY <2>5, <3>1, <3>8, Zenon DEF Pieces
      <4>2. HeardInOrder(heard')
        BY <2>2, <3>1, Zenon
      <4> QED
        BY <3>9, <4>1, <4>2
    <3> HIDE DEF Goal
    <3> QED
      BY ONLY <2>4, <3>10, a \in Nat, b \in Nat
  <2>8. CASE SendUnkey
    <3>1. net' = Append(net, HeaderPacket) /\ UNCHANGED <<sampbuf, samples, rxq, readq, heard>>
      BY <2>8 DEF SendUnkey, UnkeySent, chanVars, pvtVars, ghosts
    <3>2. HeaderPacket \in UpPacket /\ HeaderPacket.voice = RxNoVoice /\ net \in Seq(UpPacket)
      BY DEF HeaderPacket, UpPacket, UpType
    <3>3. Named(HeaderPacket).voice = NoVoice
      BY ONLY <3>2, NamedTypes
    <3>4. NetAudio(net') = Append(NetAudio(net), NoVoice) /\ NetAudio(net) \in Seq(Item)
      BY <3>1, <3>2, <3>3, NetAudioAppend, NetAudioType
    <3>5. Holds(NetAudio(net'), b, c)
      BY <2>5, <3>4, HoldsAppend
    <3>6. Goal(a, b, c)
      BY <2>2, <2>3, <2>5, <3>1, <3>5, Zenon DEF Pieces
    <3> QED
      BY <2>4, <3>6
  <2>9. CASE Arrive
    <3>1. /\ net # << >> /\ net' = Tail(net) /\ Xread(Named(Head(net)))
          /\ UNCHANGED <<sampbuf, samples, readq, heard>>
      BY <2>9 DEF Arrive, Xread, rxVars
    <3>2. net \in Seq(UpPacket) /\ Head(net) \in UpPacket /\ rxq \in Seq(Item)
      BY <3>1, NatItems DEF UpType
    <3> DEFINE p == Named(Head(net))
    <3>3. p.eye = TRUE /\ p.voice \in Item
      BY <3>2, NamedTypes
    <3>4. rxq' = IF p.voice # NoVoice THEN Append(rxq, p.voice) ELSE rxq
      <4>1. HasAudio(p) <=> p.voice # NoVoice
        BY <3>3, UpTypes DEF HasAudio, Item
      <4> HIDE DEF p
      <4>2. rxq' = IF HasAudio(p) THEN Append(rxq, p.voice) ELSE rxq
        <5>1. Xread(p)
          BY <3>1 DEF p
        <5> QED
          BY <3>3, <5>1 DEF Xread, Enqueue
      <4> QED
        BY <4>1, <4>2
    <3>5. /\ NetAudio(net) \in Seq(Item) /\ NetAudio(net) # << >> /\ NetAudio(net)[1] = p.voice
          /\ NetAudio(net') = Tail(NetAudio(net))
      BY <3>1, <3>2, NetAudioTail, NetAudioType
    <3> HIDE DEF p
    <3>6. CASE p.voice = NoVoice
      <4>1. Holds(NetAudio(net'), b, c) /\ rxq' = rxq
        BY <2>5, <3>4, <3>5, <3>6, HoldsTail
      <4>2. Goal(a, b, c)
        BY <2>2, <2>3, <2>5, <3>1, <4>1, Zenon DEF Pieces
      <4> QED
        BY <2>4, <4>2
    <3>7. CASE p.voice # NoVoice
      <4>1. p.voice = First(b + 1) /\ Holds(NetAudio(net'), b + 1, c)
        BY <2>5, <3>5, <3>7, HoldsTail
      <4>2. Holds(rxq', a, b + 1) /\ b + 1 \in Nat
        BY <2>5, <3>2, <3>4, <3>7, <4>1, HoldsAppend
      <4>3. Goal(a, b + 1, c)
        BY <2>2, <2>3, <2>5, <3>1, <4>1, <4>2, Zenon DEF Pieces
      <4> HIDE DEF Goal
      <4> QED
        BY ONLY <2>4, <4>2, <4>3, a \in Nat, c \in Nat
    <3> QED
      BY <3>6, <3>7
  <2>10. CASE AsteriskWrites
    <3>1. ServeRxq /\ UNCHANGED <<sampbuf, samples, net, heard>>
      BY <2>10 DEF AsteriskWrites, Xwrite, rxVars
    <3>2. Len(heard) \in Nat /\ ~(rxq # << >> /\ Overloaded)
      BY <1>3, <2>10 DEF UpType
    <3>3. PICK d \in Nat : Holds(FrameAudio(readq'), Len(heard), d) /\ Holds(rxq', d, b)
      BY <2>5, <3>1, <3>2, ServeHolds
    <3>4. Goal(d, b, c)
      BY <2>2, <2>3, <2>5, <3>1, <3>3, Zenon DEF Pieces
    <3> QED
      BY <2>4, <3>4
  <2>11. CASE AsteriskReads
    <3>1. /\ readq # << >> /\ readq' = Tail(readq)
          /\ heard' = IF Head(readq).type = "voice" THEN Append(heard, Head(readq).voice) ELSE heard
          /\ UNCHANGED <<sampbuf, samples, net, rxq>>
      BY <2>11 DEF AsteriskReads, CoreRead, pvtVars, rxVars
    <3>2. readq \in Seq(Frame) /\ Head(readq) \in Frame /\ heard \in Seq(Nat) /\ Len(heard) \in Nat
      BY <3>1 DEF UpType
    <3> DEFINE n == Len(heard)
               v == Head(readq).voice
               f == FrameAudio(readq)
    <3>3. v \in Item /\ (Head(readq).type = "voice" <=> v # NoVoice)
      BY <3>2, FrameTypes
    <3>4. f \in Seq(Item) /\ f # << >> /\ f[1] = v /\ FrameAudio(readq') = Tail(f)
      BY <3>1, <3>2, FrameAudioTail, FrameAudioType
    <3>5. Holds(f, n, a) /\ n \in Nat
      BY <2>5, <3>2
    <3>6. heard' = IF v # NoVoice THEN Append(heard, v) ELSE heard
      BY <3>1, <3>3
    <3> HIDE DEF v, f
    <3>7. CASE v = NoVoice
      <4>1. Holds(Tail(f), n, a)
        BY ONLY <3>4, <3>5, <3>7, a \in Nat, HoldsTail
      <4>2. heard' = heard
        BY <3>6, <3>7
      <4>3. Goal(a, b, c)
        BY <2>2, <2>3, <2>5, <3>1, <3>4, <4>1, <4>2, Zenon DEF Pieces
      <4> QED
        BY <2>4, <4>3
    <3>8. CASE v # NoVoice
      <4>1. v = First(n + 1) /\ Holds(Tail(f), n + 1, a)
        BY ONLY <3>4, <3>5, <3>8, a \in Nat, HoldsTail
      <4>2. heard' = Append(heard, v) /\ v \in Nat
        BY <3>3, <3>6, <3>8 DEF Item
      <4>3. Len(heard') = n + 1 /\ heard'[n + 1] = v /\ \A i \in 1..n : heard'[i] = heard[i]
        BY <3>2, <4>2
      <4>4. \A i \in 1..n : heard[i] = First(i)
        BY <2>2 DEF HeardInOrder
      <4> HIDE DEF n
      <4>5. ASSUME NEW i \in 1..n + 1 PROVE heard'[i] = First(i)
        <5>1. i \in 1..n \/ i = n + 1
          BY <3>5
        <5> QED
          BY <4>1, <4>3, <4>4, <5>1
      <4>6. HeardInOrder(heard')
        BY <4>3, <4>5 DEF HeardInOrder
      <4>7. Goal(a, b, c)
        <5>1. Pieces(n + 1, readq', a, rxq', b, net', c)
          BY <2>5, <3>1, <3>4, <4>1, Zenon DEF Pieces
        <5>2. Buffered(c, sampbuf', samples')
          BY <2>3, <3>1, Zenon
        <5> QED
          BY <4>3, <4>6, <5>1, <5>2, Zenon
      <4> QED
        BY <2>4, <4>7
    <3> QED
      BY <3>7, <3>8
  <2>12. CASE Number \/ Unkey \/ UNCHANGED upVars
    <3>1. UNCHANGED <<sampbuf, samples, net, rxq, readq, heard>>
      BY <2>12 DEF Number, WorkLoad, WorkStore, UnkeyStore, Unkey, UnkeyLoad, upVars, rxVars,
                  chanVars, pvtVars, ghosts
    <3> QED
      BY <3>1
  <2> QED
    BY <1>3, <2>6, <2>7, <2>8, <2>9, <2>10, <2>11, <2>12 DEF UpNext
<1> QED
  BY <1>2, <1>3

LEMMA AudioKeptInit == ASSUME UpInit PROVE AudioKept
<1>1. heard = << >> /\ readq = << >> /\ rxq = << >> /\ net = << >> /\ sampbuf = << >> /\ samples = 0
  BY DEF UpInit, RxInit
<1>2. Len(<< >>) = 0 /\ << >> \in Seq(Item) /\ DOMAIN << >> = {}
  BY EmptySeq
<1>3. FrameAudio(<< >>) = << >> /\ NetAudio(<< >>) = << >>
  BY DEF FrameAudio, NetAudio
<1>4. Holds(<< >>, 0, 0)
  BY <1>2, HoldsNothing
<1>5. Pieces(Len(heard), readq, 0, rxq, 0, net, 0)
  BY <1>1, <1>2, <1>3, <1>4 DEF Pieces
<1>6. Buffered(0, sampbuf, samples)
  BY <1>1, <1>2, UpTypes DEF Buffered
<1>7. HeardInOrder(heard)
  BY <1>1, <1>2 DEF HeardInOrder
<1> QED
  BY <1>5, <1>6, <1>7 DEF AudioKept, Audio

\* As long as no packet is lost or thrown away, what Asterisk has read, what
\* is on its way to it and what fills the buffer are the audio received, whole
\* and in order, however the threads of general_work and unkey interleave.
THEOREM AudioArrivesWhole == UpSpec => []AudioComplete
<1>1. ASSUME UpType, AudioKept PROVE AudioComplete
  <2> SUFFICES ASSUME lost = 0, overloads = 0
               PROVE  \E c \in Len(heard)..samples :
                        /\ \A i \in DOMAIN heard : heard[i] = First(i)
                        /\ Carries(Underway, Len(heard), c)
                        /\ c * SampbufSize + Len(sampbuf) = samples
                        /\ workPc = "fill" => Len(sampbuf) < SampbufSize
                        /\ workPc # "fill" => Len(sampbuf) = SampbufSize
    BY DEF AudioComplete
  <2>1. Audio(heard, readq, rxq, net, sampbuf, samples)
    BY <1>1 DEF AudioKept
  <2>2. PICK a \in Nat, b \in Nat, c \in Nat :
             Pieces(Len(heard), readq, a, rxq, b, net, c) /\ Buffered(c, sampbuf, samples)
    BY <2>1 DEF Audio
  <2>3. Holds(FrameAudio(readq), Len(heard), a) /\ Holds(rxq, a, b) /\ Holds(NetAudio(net), b, c)
    BY <2>2 DEF Pieces
  <2>4. FrameAudio(readq) \in Seq(Item) /\ rxq \in Seq(Item) /\ NetAudio(net) \in Seq(Item)
        /\ Len(heard) \in Nat /\ Len(sampbuf) \in Nat /\ samples \in Nat
    BY <1>1, FrameAudioType, NetAudioType, NatItems DEF UpType
  <2>5. /\ FrameAudio(readq) \o rxq \in Seq(Item)
        /\ Holds(FrameAudio(readq) \o rxq, Len(heard), b)
    BY ONLY <2>3, <2>4, a \in Nat, b \in Nat, HoldsBoth
  <2>6. Holds((FrameAudio(readq) \o rxq) \o NetAudio(net), Len(heard), c)
    BY ONLY <2>3, <2>4, <2>5, b \in Nat, c \in Nat, HoldsBoth
  <2>7. Carries(Underway, Len(heard), c) /\ Len(heard) <= c
    BY <2>6, Zenon DEF Holds, Underway, FrameAudio, NetAudio
  <2>8. c * SampbufSize + Len(sampbuf) = samples
    BY <2>2 DEF Buffered
  <2>9. c \in Len(heard)..samples
    <3>1. SampbufSize - 1 \in Nat
      BY UpTypes
    <3>2. \A x, y \in Nat : x * y \in Nat
      OBVIOUS
    <3>3. c * (SampbufSize - 1) \in Nat
      BY <3>1, <3>2
    <3>4. c * SampbufSize = c * (SampbufSize - 1) + c
      BY UpTypes
    <3> QED
      BY <2>4, <2>7, <2>8, <3>3, <3>4
  <2>10. \A i \in DOMAIN heard : heard[i] = First(i)
    <3>1. DOMAIN heard = 1..Len(heard)
      BY <1>1 DEF UpType
    <3> QED
      BY <2>1, <3>1 DEF Audio, HeardInOrder
  <2>11. /\ workPc = "fill" => Len(sampbuf) < SampbufSize
         /\ workPc # "fill" => Len(sampbuf) = SampbufSize
    BY <1>1 DEF UpType
  <2> QED
    BY <2>7, <2>8, <2>9, <2>10, <2>11
<1>2. ASSUME UpType, AudioKept, [UpNext]_upVars PROVE AudioKept'
  BY <1>2, AudioKeptStep
<1> QED
  BY <1>1, <1>2, AudioKeptInit, UpTypesHold, PTL DEF UpSpec

-----------------------------------------------------------------------------
(* The numbers of the uplink.  Each packet on the net carries the number   *)
(* the channel will expect when it arrives; the thread that has read       *)
(* d_sendseq and not sent yet holds the number that comes next.            *)

Expected(r, w, i) == IF i = 1 THEN r % RxSeqSpace ELSE (w[i - 1].seq + 1) % RxSeqSpace
Chain(r, w) == \A i \in 1..Len(w) : w[i].seq = Expected(r, w, i)

Numbering == {"store", "send"}
HasNumber(pc, seq, next, d) ==
    /\ pc = "store" => seq = next /\ d = next
    /\ pc = "send" => seq = next /\ d = (next + 1) % RxSeqSpace
Turn(next, d, wpc, ws, upc, us) ==
    /\ wpc \notin Numbering \/ upc \notin Numbering
    /\ wpc \notin Numbering /\ upc \notin Numbering => d = next
    /\ HasNumber(wpc, ws, next, d) /\ HasNumber(upc, us, next, d)

NumbersFollow ==
    lost = 0 /\ ~overlapped =>
        /\ ~alarmed /\ Chain(rxSeq, net)
        /\ Turn(Expected(rxSeq, net, Len(net) + 1), d_sendseq, workPc, workSeq, unkeyPc, unkeySeq)

LEMMA ChainTail ==
    ASSUME NEW w \in Seq(UpPacket), w # << >>, NEW r, Chain(r, w)
    PROVE  /\ Chain(w[1].seq + 1, Tail(w)) /\ w[1].seq = r % RxSeqSpace
           /\ Expected(w[1].seq + 1, Tail(w), Len(Tail(w)) + 1) = Expected(r, w, Len(w) + 1)
<1> DEFINE t == Tail(w)
           q == w[1].seq + 1
<1>1. Len(t) = Len(w) - 1 /\ Len(w) \in Nat \ {0} /\ \A i \in 1..Len(t) : t[i] = w[i + 1]
  OBVIOUS
<1>2. \A i \in 1..Len(t) + 1 : Expected(q, t, i) = Expected(r, w, i + 1)
  <2> TAKE i \in 1..Len(t) + 1
  <2>1. CASE i = 1
    BY <2>1 DEF Expected
  <2>2. CASE i # 1
    <3>1. i - 1 \in 1..Len(t) /\ t[i - 1] = w[(i - 1) + 1] /\ (i - 1) + 1 = i
          /\ (i + 1) - 1 = i /\ i + 1 # 1
      BY <1>1, <2>2
    <3> QED
      BY <2>2, <3>1 DEF Expected
  <2> QED
    BY <2>1, <2>2
<1> HIDE DEF t, q
<1>3. ASSUME NEW i \in 1..Len(t) PROVE t[i].seq = Expected(q, t, i)
  <2>1. i + 1 \in 1..Len(w) /\ t[i] = w[i + 1] /\ i \in 1..Len(t) + 1
    BY <1>1
  <2> QED
    BY <1>2, <2>1 DEF Chain
<1>4. Expected(q, t, Len(t) + 1) = Expected(r, w, Len(w) + 1)
  <2>1. Len(t) + 1 \in 1..Len(t) + 1 /\ (Len(t) + 1) + 1 = Len(w) + 1
    BY <1>1
  <2> QED
    BY <1>2, <2>1
<1>5. w[1].seq = r % RxSeqSpace
  <2>1. 1 \in 1..Len(w)
    BY <1>1
  <2> QED
    BY <2>1 DEF Chain, Expected
<1>6. Chain(q, t)
  BY <1>3 DEF Chain
<1> QED
  BY <1>4, <1>5, <1>6 DEF t, q

LEMMA ChainAppend ==
    ASSUME NEW w \in Seq(UpPacket), NEW p \in UpPacket, NEW r, Chain(r, w),
           p.seq = Expected(r, w, Len(w) + 1)
    PROVE  /\ Chain(r, Append(w, p))
           /\ Expected(r, Append(w, p), Len(Append(w, p)) + 1) = (p.seq + 1) % RxSeqSpace
<1> DEFINE a == Append(w, p)
<1>1. Len(a) = Len(w) + 1 /\ Len(w) \in Nat /\ a[Len(w) + 1] = p
      /\ \A i \in 1..Len(w) : a[i] = w[i]
  OBVIOUS
<1> HIDE DEF a
<1>2. \A i \in 1..Len(w) + 1 : Expected(r, a, i) = Expected(r, w, i)
  <2> TAKE i \in 1..Len(w) + 1
  <2>1. i = 1 \/ i - 1 \in 1..Len(w)
    BY <1>1
  <2> QED
    BY <1>1, <2>1 DEF Expected
<1>3. ASSUME NEW i \in 1..Len(a) PROVE a[i].seq = Expected(r, a, i)
  <2>1. i \in 1..Len(w) + 1 /\ (i \in 1..Len(w) \/ i = Len(w) + 1)
    BY <1>1
  <2> QED
    BY <1>1, <1>2, <2>1 DEF Chain
<1>4. Expected(r, a, Len(a) + 1) = (p.seq + 1) % RxSeqSpace
  <2>1. Len(a) + 1 # 1 /\ (Len(a) + 1) - 1 = Len(w) + 1
    BY <1>1
  <2> QED
    BY <1>1, <2>1 DEF Expected
<1>5. Chain(r, a)
  BY <1>3 DEF Chain
<1> QED
  BY <1>4, <1>5 DEF a

LEMMA NumbersFollowStep == ASSUME UpType, NumbersFollow, [UpNext]_upVars PROVE NumbersFollow'
<1>1. lost \in Nat /\ overlapped \in BOOLEAN /\ net \in Seq(UpPacket)
  BY DEF UpType
<1>2. CASE Drop
  <2>1. lost' # 0
    BY <1>1, <1>2 DEF Drop
  <2> QED
    BY <2>1 DEF NumbersFollow
<1>3. CASE ~Drop
  <2> SUFFICES ASSUME lost' = 0, ~overlapped'
               PROVE  /\ ~alarmed' /\ Chain(rxSeq', net')
                      /\ Turn(Expected(rxSeq', net', Len(net') + 1), d_sendseq', workPc', workSeq',
                              unkeyPc', unkeySeq')
    BY DEF NumbersFollow
  <2> DEFINE next == Expected(rxSeq, net, Len(net) + 1)
  <2>1. lost = 0 /\ ~overlapped
    <3>1. CASE Number \/ Unkey
      <4>1. lost' = lost /\ overlapped' = (overlapped \/ Overlap)
        BY <3>1 DEF Number, Unkey
      <4> QED
        BY <4>1
    <3>2. CASE Capture \/ Arrive \/ AsteriskWrites \/ AsteriskReads
      <4>1. UNCHANGED <<lost, overlapped>>
        BY <3>2, Zenon DEF Capture, Arrive, AsteriskWrites, AsteriskReads
      <4> QED
        BY <4>1
    <3>3. CASE SendAudio \/ SendUnkey \/ UNCHANGED upVars
      BY <3>3 DEF SendAudio, SendUnkey, upVars, ghosts
    <3> QED
      BY <1>3, <3>1, <3>2, <3>3 DEF UpNext
  <2>2. /\ ~alarmed /\ Chain(rxSeq, net)
        /\ Turn(next, d_sendseq, workPc, workSeq, unkeyPc, unkeySeq)
    BY <2>1, Zenon DEF NumbersFollow
  <2>3. CASE Number \/ Unkey
    <3>1. UNCHANGED <<alarmed, rxSeq, net>> /\ ~Overlap
      BY <2>3 DEF Number, Unkey, chanVars, pvtVars
    <3> HIDE DEF next
    <3>2. workPc' \notin Numbering \/ unkeyPc' \notin Numbering
      BY <3>1 DEF Overlap, Numbering
    <3>3. Turn(next, d_sendseq', workPc', workSeq', unkeyPc', unkeySeq')
      <4>1. CASE WorkLoad
        BY <2>2, <3>2, <4>1 DEF WorkLoad, Turn, HasNumber, Numbering
      <4>2. CASE WorkStore
        BY <2>2, <3>2, <4>2 DEF WorkStore, Turn, HasNumber, Numbering
      <4>3. CASE UnkeyLoad
        BY <2>2, <3>2, <4>3 DEF UnkeyLoad, Turn, HasNumber, Numbering
      <4>4. CASE UnkeyStore
        BY <2>2, <3>2, <4>4 DEF UnkeyStore, Turn, HasNumber, Numbering
      <4> QED
        BY <2>3, <4>1, <4>2, <4>3, <4>4 DEF Number, Unkey
    <3> QED
      BY <2>2, <3>1, <3>3, Zenon DEF next
  <2>4. CASE SendAudio \/ SendUnkey
    <3> DEFINE p == IF SendAudio THEN AudioPacket ELSE HeaderPacket
    <3>1. UNCHANGED <<alarmed, rxSeq, d_sendseq>> /\ net' = Append(net, p)
      BY <2>4 DEF SendAudio, SendUnkey, WorkSent, UnkeySent, ghosts, chanVars, pvtVars
    <3>2. p \in UpPacket
      <4>1. CASE SendAudio
        <5>1. workPc = "send"
          BY <4>1 DEF SendAudio, WorkSent
        <5>2. sampbuf \in Seq(Nat) \ {<< >>}
          BY <5>1, UpTypes DEF UpType
        <5> QED
          BY <4>1, <5>2 DEF AudioPacket, UpPacket, UpType
      <4>2. CASE ~SendAudio
        BY <4>2 DEF HeaderPacket, UpPacket, UpType
      <4> QED
        BY <4>1, <4>2
    <3> HIDE DEF next
    <3>3. /\ p.seq = next /\ d_sendseq = (next + 1) % RxSeqSpace
          /\ workPc' \notin Numbering /\ unkeyPc' \notin Numbering
      <4>1. CASE SendAudio
        BY <2>2, <4>1 DEF SendAudio, WorkSent, AudioPacket, Turn, HasNumber, Numbering
      <4>2. CASE ~SendAudio
        BY <2>2, <2>4, <4>2 DEF SendUnkey, UnkeySent, HeaderPacket, Turn, HasNumber, Numbering
      <4> QED
        BY <4>1, <4>2
    <3> HIDE DEF p
    <3>4. Chain(rxSeq, Append(net, p))
          /\ Expected(rxSeq, Append(net, p), Len(Append(net, p)) + 1) = (next + 1) % RxSeqSpace
      BY <1>1, <2>2, <3>2, <3>3, ChainAppend DEF next
    <3>5. Turn((next + 1) % RxSeqSpace, d_sendseq', workPc', workSeq', unkeyPc', unkeySeq')
      BY <3>1, <3>3 DEF Turn, HasNumber, Numbering
    <3> QED
      BY <2>2, <3>1, <3>4, <3>5
  <2>5. CASE Arrive
    <3>1. /\ net # << >> /\ net' = Tail(net) /\ Head(net) = net[1] /\ net[1] \in UpPacket
          /\ UNCHANGED <<d_sendseq, workPc, workSeq, unkeyPc, unkeySeq>>
      BY <1>1, <2>5 DEF Arrive, rxVars
    <3>2. Named(Head(net)).eye = TRUE /\ Named(Head(net)).seq = net[1].seq /\ net[1].seq \in 0..RxSeqSpace - 1
      BY <3>1, NamedTypes
    <3>3. rxSeq' = net[1].seq + 1
      BY <2>5, <3>2 DEF Arrive, Xread
    <3>4. /\ Chain(net[1].seq + 1, Tail(net)) /\ net[1].seq = rxSeq % RxSeqSpace
          /\ Expected(net[1].seq + 1, Tail(net), Len(Tail(net)) + 1) = next
      BY <1>1, <2>2, <3>1, ChainTail
    <3>5. ~alarmed'
      <4>1. rxSeq = RxSeqSpace \/ rxSeq \in 0..RxSeqSpace - 1
        BY UpTypes DEF UpType
      <4>2. RxSeqSpace % RxSeqSpace = 0 /\ \A n \in 0..RxSeqSpace - 1 : n % RxSeqSpace = n
        BY UpTypes
      <4>3. net[1].seq = rxSeq \/ net[1].seq = 0
        <5>1. CASE rxSeq = RxSeqSpace
          BY ONLY <3>4, <4>2, <5>1, Zenon
        <5>2. CASE rxSeq \in 0..RxSeqSpace - 1
          BY ONLY <3>4, <4>2, <5>2, Zenon
        <5> QED
          BY <4>1, <5>1, <5>2
      <4>4. ~ReportsLoss(Named(Head(net)))
        BY <3>2, <4>3 DEF ReportsLoss
      <4> QED
        BY <2>2, <2>5, <4>4 DEF Arrive
    <3> HIDE DEF next
    <3> QED
      BY <2>2, <3>1, <3>3, <3>4, <3>5
  <2>6. CASE Capture
    <3>1. UNCHANGED <<alarmed, rxSeq, net, d_sendseq, workSeq, unkeyPc, unkeySeq>>
      BY <2>6 DEF Capture, Sample, chanVars, pvtVars
    <3>2. workPc \notin Numbering /\ workPc' \notin Numbering
      BY <2>6 DEF Capture, Sample, Numbering
    <3> HIDE DEF next
    <3>3. Turn(next, d_sendseq', workPc', workSeq', unkeyPc', unkeySeq')
      BY <2>2, <3>1, <3>2 DEF Turn, HasNumber, Numbering
    <3> QED
      BY <2>2, <3>1, <3>3, Zenon DEF next
  <2>7. CASE AsteriskWrites \/ AsteriskReads \/ UNCHANGED upVars
    <3>1. UNCHANGED <<alarmed, rxSeq, net, rxVars>>
      BY <2>7 DEF AsteriskWrites, AsteriskReads, Xwrite, CoreRead, upVars, chanVars, pvtVars, ghosts
    <3> QED
      BY <2>2, <3>1 DEF rxVars
  <2> QED
    BY <1>3, <2>3, <2>4, <2>5, <2>6, <2>7 DEF UpNext
<1> QED
  BY <1>2, <1>3

LEMMA NumbersFollowInit == ASSUME UpInit PROVE NumbersFollow
<1>1. net = << >> /\ Len(net) = 0 /\ rxSeq = 0 /\ d_sendseq = 0 /\ workPc = "fill"
      /\ unkeyPc = "idle" /\ ~alarmed
  BY DEF UpInit, RxInit
<1>2. Expected(0, net, 1) = 0
  BY UpTypes DEF Expected
<1>3. Chain(rxSeq, net)
  BY <1>1 DEF Chain
<1> QED
  BY <1>1, <1>2, <1>3 DEF NumbersFollow, Turn, HasNumber, Numbering

\* The driver reports lost data only if a packet was lost, or if the threads
\* of general_work and unkey were both between reading d_sendseq and sendto.
THEOREM AlarmsExplained == UpSpec => []AlarmHasCause
<1>1. ASSUME UpType, NumbersFollow PROVE AlarmHasCause
  BY <1>1 DEF UpType, NumbersFollow, AlarmHasCause
<1>2. ASSUME UpType, NumbersFollow, [UpNext]_upVars PROVE NumbersFollow'
  BY <1>2, NumbersFollowStep
<1> QED
  BY <1>1, <1>2, NumbersFollowInit, UpTypesHold, PTL DEF UpSpec
=============================================================================
