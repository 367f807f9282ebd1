--------------------------- MODULE ChanUsrpProofs ---------------------------
(***************************************************************************)
(* Proofs about ChanUsrpSystem for every value of its constants.           *)
(***************************************************************************)
EXTENDS ChanUsrpSystem, SequenceTheorems, TLAPS

LEMMA ConstTypes ==
    /\ MaxRxKeyTime \in Nat /\ MaxRxKeyTime > 1
    /\ SeqSpace \in Nat /\ SeqSpace > 1
    /\ NoVoice \notin Nat
    /\ SendOutcomes \subseteq BOOLEAN
BY ConstAssumption, EnvAssumption

-----------------------------------------------------------------------------
(* Facts about push-to-talk streams.                                       *)

\* A legal stream continued legally is legal, and what the listener is inside
\* after both is what the continuation leaves it inside.
LEMMA LegalConcat ==
    ASSUME NEW S, NEW s \in Seq(S), NEW b \in Seq(S), NEW k \in BOOLEAN,
           Legal(k, s), Legal(OpenAfter(k, s), b)
    PROVE  /\ Legal(k, s \o b)
           /\ OpenAfter(k, s \o b) = OpenAfter(OpenAfter(k, s), b)
<1> DEFINE t == s \o b
<1>1. t \in Seq(S) /\ Len(t) = Len(s) + Len(b)
  OBVIOUS
<1>2. \A i \in 1..Len(s) : t[i] = s[i]
  OBVIOUS
<1>3. \A i \in 1..Len(b) : t[Len(s) + i] = b[i]
  OBVIOUS
<1>4. \A i \in 1..Len(s) + 1 : OpenBefore(k, t, i) = OpenBefore(k, s, i)
  BY <1>2 DEF OpenBefore
<1>5. \A i \in 1..Len(b) + 1 :
         OpenBefore(k, t, Len(s) + i) = OpenBefore(OpenAfter(k, s), b, i)
  <2> TAKE i \in 1..Len(b) + 1
  <2>1. CASE i = 1
    BY <2>1, <1>4 DEF OpenBefore, OpenAfter
  <2>2. CASE i # 1
    <3>1. i - 1 \in 1..Len(b) /\ t[Len(s) + (i - 1)] = b[i - 1]
      BY <2>2, <1>3
    <3>2. Len(s) + i # 1 /\ (Len(s) + i) - 1 = Len(s) + (i - 1)
      BY <2>2
    <3> QED
      BY <2>2, <3>1, <3>2 DEF OpenBefore
  <2> QED
    BY <2>1, <2>2
<1>6. Legal(k, t)
  <2> SUFFICES ASSUME NEW j \in 1..Len(t)
               PROVE  (t[j] = "key") <=> ~OpenBefore(k, t, j)
    BY DEF Legal
  <2>1. CASE j \in 1..Len(s)
    BY <2>1, <1>2, <1>4 DEF Legal
  <2>2. CASE j \notin 1..Len(s)
    <3> DEFINE i == j - Len(s)
    <3>1. i \in 1..Len(b) /\ j = Len(s) + i
      BY <2>2, <1>1
    <3>2. t[j] = b[i] /\ OpenBefore(k, t, j) = OpenBefore(OpenAfter(k, s), b, i)
      BY <3>1, <1>3, <1>5
    <3> QED
      BY <3>1, <3>2 DEF Legal
  <2> QED
    BY <2>1, <2>2
<1>7. OpenAfter(k, t) = OpenAfter(OpenAfter(k, s), b)
  <2>1. Len(t) + 1 = Len(s) + (Len(b) + 1)
    BY <1>1
  <2>2. OpenBefore(k, t, Len(s) + (Len(b) + 1))
          = OpenBefore(OpenAfter(k, s), b, Len(b) + 1)
    BY <1>5
  <2> QED
    BY <2>1, <2>2 DEF OpenAfter
<1> QED
  BY <1>6, <1>7

\* Hearing the first item of a legal stream leaves a legal stream that ends
\* where the whole did.
LEMMA LegalTail ==
    ASSUME NEW S, NEW s \in Seq(S), s # << >>, NEW k \in BOOLEAN, Legal(k, s)
    PROVE  /\ Legal(s[1] # "unkey", Tail(s))
           /\ OpenAfter(s[1] # "unkey", Tail(s)) = OpenAfter(k, s)
<1> DEFINE t == Tail(s)
<1>1. Len(t) = Len(s) - 1 /\ Len(s) \in Nat \ {0}
  OBVIOUS
<1>2. \A i \in 1..Len(t) : t[i] = s[i + 1]
  OBVIOUS
<1>3. \A i \in 1..Len(t) + 1 :
         OpenBefore(s[1] # "unkey", t, i) = OpenBefore(k, s, i + 1)
  <2> TAKE i \in 1..Len(t) + 1
  <2>1. CASE i = 1
    BY <2>1 DEF OpenBefore
  <2>2. CASE i # 1
    <3>1. i - 1 \in 1..Len(t) /\ t[i - 1] = s[(i - 1) + 1] /\ (i - 1) + 1 = i
      BY <2>2, <1>1, <1>2
    <3>2. (i + 1) - 1 = i /\ i + 1 # 1
      OBVIOUS
    <3> QED
      BY <2>2, <3>1, <3>2 DEF OpenBefore
  <2> QED
    BY <2>1, <2>2
<1>4. Legal(s[1] # "unkey", t)
  <2> SUFFICES ASSUME NEW i \in 1..Len(t)
               PROVE  (t[i] = "key") <=> ~OpenBefore(s[1] # "unkey", t, i)
    BY DEF Legal
  <2>1. i + 1 \in 1..Len(s) /\ t[i] = s[i + 1]
    BY <1>1, <1>2
  <2>2. (s[i + 1] = "key") <=> ~OpenBefore(k, s, i + 1)
    BY <2>1 DEF Legal
  <2> QED
    BY <2>1, <2>2, <1>3, <1>1
<1>5. OpenAfter(s[1] # "unkey", t) = OpenAfter(k, s)
  <2>1. (Len(t) + 1) + 1 = Len(s) + 1 /\ Len(t) + 1 \in 1..Len(t) + 1
    BY <1>1
  <2> QED
    BY <2>1, <1>3 DEF OpenAfter
<1> QED
  BY <1>4, <1>5

-----------------------------------------------------------------------------
(* The type invariant.                                                     *)

LEMMA FrameTypes == KEY \in Frame /\ UNKEY \in Frame /\ \A v \in Nat : VOICE(v) \in Frame
BY DEF Frame, KEY, UNKEY, VOICE

LEMMA PacketTypes ==
    ASSUME NEW s \in 0..SeqSpace - 1
    PROVE  /\ UnkeyPacket(s) \in Packet
           /\ \A v \in Nat \cup {NoVoice, OddSize} : VoicePacket(s, v) \in Packet
BY DEF UnkeyPacket, VoicePacket, Packet

LEMMA IncType == ASSUME NEW s \in 0..SeqSpace - 1 PROVE Inc(s) \in 0..SeqSpace - 1
BY ConstTypes DEF Inc

\* Serving the receive queue keeps the types of what it changes.
LEMMA ServeRxqType ==
    ASSUME TypeOK, ServeRxq
    PROVE  /\ rxq' \in Seq(Nat)
           /\ readq' \in Seq(Frame)
           /\ rxkey' \in 0..MaxRxKeyTime - 1
           /\ Burst \in Seq(Frame)
<1>1. rxq' \in Seq(Nat)
  BY DEF TypeOK, ServeRxq
<1>2. ServedRxKey \in 0..MaxRxKeyTime
  BY ConstTypes DEF TypeOK, ServedRxKey
<1>3. rxkey' \in 0..MaxRxKeyTime - 1
  BY <1>2, ConstTypes DEF ServeRxq
<1>4. KeyFrames \in Seq(Frame)
  BY FrameTypes DEF KeyFrames
<1>5. VoiceFrames \in Seq(Frame)
  <2>1. rxq # << >> => Head(rxq) \in Nat
    BY DEF TypeOK
  <2> QED
    BY <2>1, FrameTypes DEF VoiceFrames
<1>6. UnkeyFrames \in Seq(Frame)
  BY FrameTypes DEF UnkeyFrames
<1>7. Burst \in Seq(Frame)
  BY <1>4, <1>5, <1>6 DEF Burst
<1>8. readq' \in Seq(Frame)
  BY <1>7 DEF ServeRxq, TypeOK
<1> QED
  BY <1>1, <1>3, <1>7, <1>8

\* Sending spends a number and puts at most one packet on the wire.
LEMMA SendType ==
    ASSUME TypeOK, NEW pkt \in Packet, NEW ok, Send(pkt, ok)
    PROVE  sendSeq' \in 0..SeqSpace - 1 /\ wire' \in Seq(Packet)
BY IncType DEF TypeOK, Send

\* Every variable of the channel keeps its type: in particular rxkey stays
\* below MAX_RXKEY_TIME between callbacks and the numbers on the wire fit.
THEOREM TypeCorrect == Spec => []TypeOK
<1>1. Init => TypeOK
  <2> SUFFICES ASSUME Init PROVE TypeOK
    OBVIOUS
  <2>1. /\ rxkey \in 0..MaxRxKeyTime - 1
        /\ sendSeq \in 0..SeqSpace - 1 /\ rxSeq \in 0..SeqSpace
    BY ConstTypes DEF Init, ChanInit
  <2>2. rxq \in Seq(Nat) /\ readq \in Seq(Frame) /\ wire \in Seq(Packet)
    BY DEF Init, ChanInit
  <2> QED
    BY <2>1, <2>2 DEF Init, ChanInit, TypeOK
<1>2. TypeOK /\ [Next]_vars => TypeOK'
  <2> SUFFICES ASSUME TypeOK, [Next]_vars PROVE TypeOK'
    OBVIOUS
  <2> USE DEF TypeOK
  <2>1. CASE Arrive
    <3>1. PICK eye \in BOOLEAN, s \in 0..SeqSpace - 1, full \in BOOLEAN :
             /\ Xread([eye |-> eye, seq |-> s, keyup |-> full,
                       voice |-> IF full THEN arrived + 1 ELSE NoVoice])
             /\ arrived' = IF full THEN arrived + 1 ELSE arrived
             /\ UNCHANGED <<lastHeard, remoteKeyed>>
      BY <2>1 DEF Arrive
    <3>2. arrived' \in Nat
      BY <3>1
    <3>3. rxSeq' \in 0..SeqSpace
      BY <3>1, ConstTypes DEF Xread
    <3>4. rxq' \in Seq(Nat)
      <4>1. rxq \in Seq(Nat) /\ arrived + 1 \in Nat
        OBVIOUS
      <4>2. rxq' = rxq \/ rxq' = Append(rxq, arrived + 1)
        BY <3>1 DEF Xread, Enqueue, HasAudio
      <4> HIDE DEF TypeOK
      <4> QED
        BY <4>1, <4>2
    <3>5. /\ UNCHANGED <<pvt, astState, txkey, rxkey, unkeyOwed, sendSeq, readq,
                         coreKeyed, wire>>
          /\ UNCHANGED <<lastHeard, remoteKeyed>>
      BY <3>1 DEF Xread
    <3>6. /\ rxkey' \in 0..MaxRxKeyTime - 1 /\ sendSeq' \in 0..SeqSpace - 1
          /\ pvt' \in BOOLEAN /\ astState' \in {"DOWN", "UP"}
          /\ txkey' \in BOOLEAN /\ unkeyOwed' \in BOOLEAN
      BY <3>5
    <3>7. readq' \in Seq(Frame) /\ wire' \in Seq(Packet)
      BY <3>5
    <3>8. coreKeyed' \in BOOLEAN /\ remoteKeyed' \in BOOLEAN /\ lastHeard' \in Nat
      BY <3>5
    <3> QED
      BY <3>2, <3>3, <3>4, <3>6, <3>7, <3>8
  <2>2. CASE Lifecycle
    <3>1. CASE Request \/ Hangup
      <4>1. /\ rxkey' \in 0..MaxRxKeyTime - 1
            /\ sendSeq' \in 0..SeqSpace - 1 /\ rxSeq' \in 0..SeqSpace
        BY <3>1, ConstTypes DEF Request, Hangup, ClearedPvt
      <4>2. rxq' = << >> /\ readq' = << >> /\ wire' = wire
        BY <3>1 DEF Request, Hangup, ClearedPvt
      <4>3. rxq' \in Seq(Nat)
        BY <4>2
      <4>4. readq' \in Seq(Frame)
        BY <4>2
      <4>5. wire' \in Seq(Packet)
        BY <4>2
      <4> QED
        BY <2>2, <3>1, <4>1, <4>3, <4>4, <4>5 DEF Lifecycle, Request, Hangup, ClearedPvt
    <3>2. CASE Call
      BY <2>2, <3>2 DEF Lifecycle, Call, pvtVars
    <3> QED
      BY <2>2, <3>1, <3>2 DEF Lifecycle
  <2>3. CASE Write
    <3>1. PICK ok \in SendOutcomes : Xwrite(0, ok)
      BY <2>3 DEF Write
    <3>2. /\ rxq' \in Seq(Nat) /\ readq' \in Seq(Frame)
          /\ rxkey' \in 0..MaxRxKeyTime - 1
      BY <3>1, ServeRxqType DEF Xwrite
    <3>3. /\ sendSeq' \in 0..SeqSpace - 1 /\ wire' \in Seq(Packet)
          /\ unkeyOwed' \in BOOLEAN
      BY <3>1, SendType, PacketTypes DEF Xwrite
    <3> QED
      BY <3>1, <3>2, <3>3, <2>3 DEF Write, Xwrite
  <2>4. ASSUME NEW key \in BOOLEAN, NEW ok \in SendOutcomes, Indicate(key, ok),
               UNCHANGED <<arrived, lastHeard, remoteKeyed>>
        PROVE  TypeOK'
    <3>1. /\ sendSeq' \in 0..SeqSpace - 1 /\ wire' \in Seq(Packet)
          /\ unkeyOwed' \in BOOLEAN
      BY <2>4, SendType, PacketTypes DEF Indicate, PayUnkey
    <3> QED
      BY <2>4, <3>1 DEF Indicate
  <2>5. CASE ReadFrame
    <3>1. Head(readq) \in Frame /\ readq' \in Seq(Frame) /\ coreKeyed' \in BOOLEAN
      BY <2>5 DEF ReadFrame, CoreRead
    <3>2. lastHeard' \in Nat
      BY <2>5, <3>1 DEF ReadFrame, Frame, KEY, UNKEY
    <3> QED
      BY <2>5, <3>1, <3>2 DEF ReadFrame, CoreRead, pvtVars
  <2>6. CASE Deliver
    <3>1. Head(wire) \in Packet /\ wire' \in Seq(Packet)
      BY <2>6 DEF Deliver
    <3> QED
      BY <2>6, <3>1 DEF Deliver, pvtVars, Packet
  <2>7. CASE UNCHANGED vars
    BY <2>7 DEF vars, chanVars, pvtVars
  <2> QED
    BY <2>1, <2>2, <2>3, <2>4, <2>5, <2>6, <2>7
       DEF Next, IndicateKey, IndicateUnkey
<1> QED
  BY <1>1, <1>2, PTL DEF Spec

-----------------------------------------------------------------------------
(* The stream Asterisk hears.                                              *)

PttItem == {"key", "unkey", "voice"}

LEMMA KindsOfType ==
    ASSUME NEW s \in Seq(Frame)
    PROVE  KindsOf(s) \in Seq(PttItem) /\ Len(KindsOf(s)) = Len(s)
<1>1. \A f \in Frame : Kind(f) \in PttItem
  BY DEF Kind, PttItem
<1>2. \A i \in 1..Len(s) : Kind(s[i]) \in PttItem
  BY <1>1
<1> QED
  BY <1>2 DEF KindsOf

LEMMA KindsOfConcat ==
    ASSUME NEW s \in Seq(Frame), NEW b \in Seq(Frame)
    PROVE  KindsOf(s \o b) = KindsOf(s) \o KindsOf(b)
<1> DEFINE ks == KindsOf(s)
           kb == KindsOf(b)
           ksb == KindsOf(s \o b)
<1>1. /\ s \o b \in Seq(Frame) /\ Len(s \o b) = Len(s) + Len(b)
      /\ \A i \in 1..Len(s) + Len(b) :
            (s \o b)[i] = IF i <= Len(s) THEN s[i] ELSE b[i - Len(s)]
  BY ConcatProperties
<1>2. /\ ks \in Seq(PttItem) /\ kb \in Seq(PttItem) /\ ksb \in Seq(PttItem)
      /\ Len(ks) = Len(s) /\ Len(kb) = Len(b) /\ Len(ksb) = Len(s) + Len(b)
  BY <1>1, KindsOfType
<1>3. /\ \A i \in 1..Len(s) : ks[i] = Kind(s[i])
      /\ \A i \in 1..Len(b) : kb[i] = Kind(b[i])
      /\ \A i \in 1..Len(s) + Len(b) : ksb[i] = Kind((s \o b)[i])
  BY <1>1 DEF KindsOf
<1>4. Len(s) \in Nat /\ Len(b) \in Nat
  OBVIOUS
<1> HIDE DEF ks, kb, ksb
<1>5. /\ ks \o kb \in Seq(PttItem) /\ Len(ks \o kb) = Len(s) + Len(b)
      /\ \A i \in 1..Len(s) + Len(b) :
            (ks \o kb)[i] = IF i <= Len(s) THEN ks[i] ELSE kb[i - Len(s)]
  <2>1. /\ ks \o kb \in Seq(PttItem) /\ Len(ks \o kb) = Len(ks) + Len(kb)
        /\ \A i \in 1..Len(ks) + Len(kb) :
              (ks \o kb)[i] = IF i <= Len(ks) THEN ks[i] ELSE kb[i - Len(ks)]
    <3>1. ks \in Seq(PttItem) /\ kb \in Seq(PttItem)
      BY <1>2
    <3> QED
      BY ONLY <3>1, ConcatProperties
  <2> QED
    BY <2>1, <1>2
<1>6. \A i \in 1..Len(ksb) : ksb[i] = (ks \o kb)[i]
  <2> SUFFICES ASSUME NEW i \in 1..Len(s) + Len(b) PROVE ksb[i] = (ks \o kb)[i]
    BY <1>2
  <2>1. CASE i <= Len(s)
    <3>1. i \in 1..Len(s)
      BY <2>1
    <3> QED
      BY <2>1, <3>1, <1>1, <1>3, <1>5
  <2>2. CASE ~(i <= Len(s))
    <3>1. i - Len(s) \in 1..Len(b)
      BY <2>2, <1>4
    <3> QED
      BY <2>2, <3>1, <1>1, <1>3, <1>5
  <2> QED
    BY <2>1, <2>2
<1>7. ksb = ks \o kb
  BY <1>2, <1>5, <1>6, SeqEqual, SMTT(40)
<1> QED
  BY <1>7 DEF ks, kb, ksb

LEMMA KindsOfTail ==
    ASSUME NEW s \in Seq(Frame), s # << >>
    PROVE  /\ KindsOf(Tail(s)) = Tail(KindsOf(s))
           /\ KindsOf(s) # << >>
           /\ KindsOf(s)[1] = Kind(Head(s))
<1> DEFINE ks == KindsOf(s)
           kt == KindsOf(Tail(s))
<1>1. /\ Tail(s) \in Seq(Frame) /\ Len(Tail(s)) = Len(s) - 1
      /\ \A i \in 1..Len(s) - 1 : Tail(s)[i] = s[i + 1]
      /\ Len(s) \in Nat \ {0}
  BY HeadTailProperties, EmptySeq
<1>2. /\ ks \in Seq(PttItem) /\ kt \in Seq(PttItem)
      /\ Len(ks) = Len(s) /\ Len(kt) = Len(s) - 1
  BY <1>1, KindsOfType
<1>3. /\ \A i \in 1..Len(s) : ks[i] = Kind(s[i])
      /\ \A i \in 1..Len(s) - 1 : kt[i] = Kind(Tail(s)[i])
  BY <1>1 DEF KindsOf
<1> HIDE DEF ks, kt
<1>4. ks # << >>
  BY <1>1, <1>2
<1>5. /\ Tail(ks) \in Seq(PttItem) /\ Len(Tail(ks)) = Len(s) - 1
      /\ \A i \in 1..Len(s) - 1 : Tail(ks)[i] = ks[i + 1]
  BY <1>2, <1>4, HeadTailProperties
<1>6. \A i \in 1..Len(kt) : kt[i] = Tail(ks)[i]
  <2> SUFFICES ASSUME NEW i \in 1..Len(s) - 1 PROVE kt[i] = Tail(ks)[i]
    BY <1>2
  <2>1. i + 1 \in 1..Len(s)
    BY <1>1
  <2> QED
    BY <2>1, <1>1, <1>3, <1>5
<1>7. kt = Tail(ks)
  BY <1>2, <1>5, <1>6, SeqEqual
<1>8. ks[1] = Kind(Head(s))
  BY <1>1, <1>3
<1> QED
  BY <1>4, <1>7, <1>8 DEF ks, kt

\* The bursts that are neither empty nor a single part.
LEMMA Units ==
    ASSUME NEW a, NEW b
    PROVE  /\ (<<a>> \o <<b>>) \o << >> = <<a, b>>
           /\ (<< >> \o <<b>>) \o << >> = <<b>>
           /\ (<< >> \o << >>) \o <<b>> = <<b>>
<1>1. <<a>> \in Seq({a, b}) /\ <<b>> \in Seq({a, b}) /\ << >> \in Seq({a, b})
  OBVIOUS
<1>2. Append(<<a>>, b) = <<a>> \o <<b>>
  BY <1>1, AppendIsConcat
<1>3. Append(<<a>>, b) = <<a, b>>
  <2>1. <<a, b>> \in Seq({a, b}) /\ Len(<<a, b>>) = 2 /\ Len(<<a>>) = 1
    OBVIOUS
  <2>2. /\ Append(<<a>>, b) \in Seq({a, b}) /\ Len(Append(<<a>>, b)) = 2
        /\ Append(<<a>>, b)[1] = a /\ Append(<<a>>, b)[2] = b
    BY <1>1, <2>1, AppendProperties
  <2>3. \A i \in 1..2 : i = 1 \/ i = 2
    OBVIOUS
  <2>4. \A i \in 1..2 : Append(<<a>>, b)[i] = <<a, b>>[i]
    BY <2>2, <2>3
  <2> QED
    BY <2>1, <2>2, <2>4, SeqEqual
<1>4. <<a, b>> \in Seq({a, b})
  OBVIOUS
<1>5. (<<a>> \o <<b>>) \o << >> = <<a, b>>
  BY <1>2, <1>3, <1>4, ConcatEmptySeq
<1>6. << >> \o <<b>> = <<b>> /\ <<b>> \o << >> = <<b>>
  BY <1>1, ConcatEmptySeq
<1>7. << >> \o << >> = << >>
  BY <1>1, ConcatEmptySeq
<1> QED
  BY <1>5, <1>6, <1>7

LEMMA KeyVoiceLegal ==
    ASSUME NEW k \in BOOLEAN, ~k
    PROVE  Legal(k, <<"key", "voice">>) /\ OpenAfter(k, <<"key", "voice">>)
<1> DEFINE t == <<"key", "voice">>
<1>1. Len(t) = 2 /\ t[1] = "key" /\ t[2] = "voice"
  OBVIOUS
<1> HIDE DEF t
<1>2. ~OpenBefore(k, t, 1) /\ OpenBefore(k, t, 2) /\ OpenBefore(k, t, 3)
  BY <1>1 DEF OpenBefore
<1>3. \A i \in 1..2 : i = 1 \/ i = 2
  OBVIOUS
<1>4. Legal(k, t)
  BY <1>1, <1>2, <1>3 DEF Legal
<1>5. OpenAfter(k, t)
  BY <1>1, <1>2 DEF OpenAfter
<1> QED
  BY <1>4, <1>5 DEF t

\* What one usrp_xwrite queues continues a stream that is open exactly when
\* rxkey is nonzero, and leaves it open exactly when the new rxkey is.
LEMMA BurstContinues ==
    ASSUME TypeOK, ServeRxq, NEW k \in BOOLEAN, k <=> rxkey > 0
    PROVE  /\ Legal(k, KindsOf(Burst))
           /\ OpenAfter(k, KindsOf(Burst)) <=> rxkey' > 0
           /\ Len(Burst) <= 3
<1> DEFINE serve == rxq # << >> /\ ~Overloaded
           close == ServedRxKey = 1
           v == Kind(VOICE(Head(rxq)))
<1>0. Kind(KEY) = "key" /\ Kind(UNKEY) = "unkey" /\ v = "voice"
  BY DEF Kind, KEY, UNKEY, VOICE
<1>1. CASE serve /\ rxkey = 0
  <2>1. ServedRxKey = MaxRxKeyTime /\ ~close /\ rxkey' > 0
    BY <1>1, ConstTypes DEF ServedRxKey, ServeRxq
  <2>2. Burst = <<KEY, VOICE(Head(rxq))>>
    <3>1. /\ KeyFrames = <<KEY>> /\ VoiceFrames = <<VOICE(Head(rxq))>>
          /\ UnkeyFrames = << >>
      BY <1>1, <2>1 DEF KeyFrames, VoiceFrames, UnkeyFrames
    <3> QED
      BY <3>1, Units DEF Burst
  <2>3. KindsOf(Burst) = <<"key", "voice">>
    BY <1>0, <2>2 DEF KindsOf
  <2>4. ~k
    BY <1>1
  <2>5. Len(Burst) = 2
    BY <2>2
  <2> QED
    BY <2>1, <2>3, <2>4, <2>5, KeyVoiceLegal
<1>2. CASE serve /\ rxkey # 0
  <2>1. ServedRxKey = MaxRxKeyTime /\ ~close /\ rxkey' > 0 /\ k
    BY <1>2, ConstTypes, SMTT(30) DEF ServedRxKey, ServeRxq, TypeOK
  <2>2. Burst = <<VOICE(Head(rxq))>>
    <3>1. /\ KeyFrames = << >> /\ VoiceFrames = <<VOICE(Head(rxq))>>
          /\ UnkeyFrames = << >>
      BY <1>2, <2>1 DEF KeyFrames, VoiceFrames, UnkeyFrames
    <3> QED
      BY <3>1, Units DEF Burst
  <2>3. KindsOf(Burst) = <<"voice">>
    BY <1>0, <2>2 DEF KindsOf
  <2> QED
    BY <2>1, <2>2, <2>3 DEF Legal, OpenAfter, OpenBefore
<1>3. CASE ~serve /\ close
  <2>1. rxkey > 0 /\ rxkey' = 0 /\ k
    BY <1>3 DEF ServedRxKey, ServeRxq, TypeOK
  <2>2. Burst = <<UNKEY>>
    <3>1. KeyFrames = << >> /\ VoiceFrames = << >> /\ UnkeyFrames = <<UNKEY>>
      BY <1>3 DEF KeyFrames, VoiceFrames, UnkeyFrames
    <3> QED
      BY <3>1, Units DEF Burst
  <2>3. KindsOf(Burst) = <<"unkey">>
    BY <1>0, <2>2 DEF KindsOf
  <2> QED
    BY <2>1, <2>2, <2>3 DEF Legal, OpenAfter, OpenBefore
<1>4. CASE ~serve /\ ~close
  <2>1. (rxkey > 0) <=> (rxkey' > 0)
    BY <1>4 DEF ServedRxKey, ServeRxq, TypeOK
  <2>2. Burst = << >>
    BY <1>4 DEF Burst, KeyFrames, VoiceFrames, UnkeyFrames
  <2>3. KindsOf(Burst) = << >>
    BY <2>2 DEF KindsOf
  <2> QED
    BY <2>1, <2>2, <2>3 DEF Legal, OpenAfter, OpenBefore
<1> QED
  BY <1>1, <1>2, <1>3, <1>4

\* All a step can do to the stream: nothing, close it, serve the receive
\* queue, or let Asterisk read one frame.
LEMMA StreamSteps ==
    ASSUME [Next]_vars
    PROVE  \/ UNCHANGED <<rxkey, readq, coreKeyed>>
           \/ rxkey' = 0 /\ readq' = << >> /\ coreKeyed' = FALSE
           \/ ServeRxq /\ coreKeyed' = coreKeyed
           \/ CoreRead
<1>1. CASE Arrive
  BY <1>1 DEF Arrive, Xread
<1>2. CASE Lifecycle
  BY <1>2 DEF Lifecycle, Request, Call, Hangup, ClearedPvt, pvtVars
<1>3. CASE Write
  BY <1>3 DEF Write, Xwrite
<1>4. CASE IndicateKey \/ IndicateUnkey
  BY <1>4 DEF IndicateKey, IndicateUnkey, Indicate
<1>5. CASE ReadFrame
  BY <1>5 DEF ReadFrame
<1>6. CASE Deliver
  BY <1>6 DEF Deliver, pvtVars
<1>7. CASE UNCHANGED vars
  BY <1>7 DEF vars, chanVars, pvtVars
<1> QED
  BY <1>1, <1>2, <1>3, <1>4, <1>5, <1>6, <1>7 DEF Next

\* Serving the receive queue continues the stream legally.
LEMMA ServeContinues ==
    ASSUME TypeOK, RxKeyMatchesStream, ServeRxq
    PROVE  /\ KindsOf(readq') = KindsOf(readq) \o KindsOf(Burst)
           /\ Legal(OpenAfter(coreKeyed, KindsOf(readq)), KindsOf(Burst))
           /\ Legal(coreKeyed, KindsOf(readq'))
           /\ (rxkey' > 0) <=> OpenAfter(coreKeyed, KindsOf(readq'))
           /\ KindsOf(Burst) \in Seq(PttItem) /\ Len(KindsOf(Burst)) <= 3
<1> DEFINE open == OpenAfter(coreKeyed, KindsOf(readq))
<1>1. readq \in Seq(Frame) /\ Burst \in Seq(Frame) /\ coreKeyed \in BOOLEAN
  BY ServeRxqType DEF TypeOK
<1>2. readq' = readq \o Burst
  BY DEF ServeRxq
<1>3. KindsOf(readq') = KindsOf(readq) \o KindsOf(Burst)
  BY <1>1, <1>2, KindsOfConcat
<1>4. KindsOf(readq) \in Seq(PttItem) /\ KindsOf(Burst) \in Seq(PttItem)
  BY <1>1, KindsOfType
<1>5. open \in BOOLEAN
  BY <1>1 DEF OpenAfter, OpenBefore
<1>6. open <=> rxkey > 0
  BY DEF RxKeyMatchesStream
<1> HIDE DEF open
<1>7. /\ Legal(open, KindsOf(Burst))
      /\ OpenAfter(open, KindsOf(Burst)) <=> rxkey' > 0
      /\ Len(KindsOf(Burst)) <= 3
  BY <1>1, <1>5, <1>6, BurstContinues, KindsOfType
<1>8. /\ Legal(coreKeyed, KindsOf(readq) \o KindsOf(Burst))
      /\ OpenAfter(coreKeyed, KindsOf(readq) \o KindsOf(Burst))
           = OpenAfter(open, KindsOf(Burst))
  <2>1. Legal(coreKeyed, KindsOf(readq))
    BY DEF RxKeyMatchesStream
  <2> QED
    BY <1>1, <1>4, <1>7, <2>1, LegalConcat DEF open
<1> QED
  BY <1>3, <1>4, <1>7, <1>8 DEF open

\* Asterisk hears the head of the stream: "unkey" leaves it outside.
LEMMA CoreReadHears ==
    ASSUME TypeOK, CoreRead
    PROVE  /\ KindsOf(readq) # << >>
           /\ KindsOf(readq') = Tail(KindsOf(readq))
           /\ coreKeyed' = (KindsOf(readq)[1] # "unkey")
           /\ rxkey' = rxkey
<1>1. readq \in Seq(Frame) /\ readq # << >> /\ readq' = Tail(readq)
  BY DEF TypeOK, CoreRead
<1>2. Kind(Head(readq)) = "unkey" <=> Head(readq) = UNKEY
  BY DEF Kind, KEY, UNKEY
<1>3. coreKeyed' = (Head(readq) # UNKEY) /\ rxkey' = rxkey
  BY DEF CoreRead, pvtVars
<1> QED
  BY <1>1, <1>2, <1>3, KindsOfTail

\* p->rxkey is nonzero exactly while Asterisk is, or is about to be, inside a
\* transmission, and what is queued for it is a legal push-to-talk stream.
\* With TypeOK this invariant is inductive.
THEOREM RxKeyMatches == Spec => []RxKeyMatchesStream
<1>1. Init => RxKeyMatchesStream
  <2> SUFFICES ASSUME Init PROVE RxKeyMatchesStream
    OBVIOUS
  <2>1. readq = << >> /\ coreKeyed = FALSE /\ rxkey = 0
    BY DEF Init, ChanInit
  <2>2. KindsOf(readq) = << >>
    BY <2>1 DEF KindsOf
  <2> QED
    BY <2>1, <2>2 DEF RxKeyMatchesStream, Legal, OpenAfter, OpenBefore
<1>2. TypeOK /\ RxKeyMatchesStream /\ [Next]_vars => RxKeyMatchesStream'
  <2> SUFFICES ASSUME TypeOK, RxKeyMatchesStream, [Next]_vars
               PROVE  RxKeyMatchesStream'
    OBVIOUS
  <2>1. CASE UNCHANGED <<rxkey, readq, coreKeyed>>
    BY <2>1 DEF RxKeyMatchesStream
  <2>2. CASE rxkey' = 0 /\ readq' = << >> /\ coreKeyed' = FALSE
    <3>1. KindsOf(readq') = << >>
      BY <2>2 DEF KindsOf
    <3>2. RxKeyMatchesStream' <=>
            /\ Legal(coreKeyed', KindsOf(readq'))
            /\ (rxkey' > 0) <=> OpenAfter(coreKeyed', KindsOf(readq'))
      BY DEF RxKeyMatchesStream
    <3> QED
      BY <2>2, <3>1, <3>2 DEF Legal, OpenAfter, OpenBefore
  <2>3. CASE ServeRxq /\ coreKeyed' = coreKeyed
    BY <2>3, ServeContinues DEF RxKeyMatchesStream
  <2>4. CASE CoreRead
    <3> DEFINE ks == KindsOf(readq)
    <3>1. /\ ks # << >> /\ KindsOf(readq') = Tail(ks)
          /\ coreKeyed' = (ks[1] # "unkey") /\ rxkey' = rxkey
      BY <2>4, CoreReadHears
    <3>2. ks \in Seq(PttItem) /\ coreKeyed \in BOOLEAN
      BY KindsOfType DEF TypeOK
    <3>3. Legal(coreKeyed, ks) /\ ((rxkey > 0) <=> OpenAfter(coreKeyed, ks))
      BY DEF RxKeyMatchesStream
    <3> HIDE DEF ks
    <3>4. /\ Legal(ks[1] # "unkey", Tail(ks))
          /\ OpenAfter(ks[1] # "unkey", Tail(ks)) = OpenAfter(coreKeyed, ks)
      BY <3>1, <3>2, <3>3, LegalTail
    <3> QED
      BY <3>1, <3>3, <3>4 DEF RxKeyMatchesStream
  <2> QED
    BY <2>1, <2>2, <2>3, <2>4, StreamSteps
<1> QED
  BY <1>1, <1>2, TypeCorrect, PTL DEF Spec

\* usrp_xread and usrp_xwrite implement the push-to-talk stream of PttStream:
\* every step is a burst that continues the stream legally, one item heard,
\* a close, or a stutter.
THEOREM RefinesPtt == Spec => ImplementsPtt
<1>1. Init => Ptt!PttInit
  BY DEF Init, ChanInit, Ptt!PttInit, KindsOf
<1>2. TypeOK /\ RxKeyMatchesStream /\ [Next]_vars => [Ptt!PttNext]_(Ptt!pttVars)
  <2> SUFFICES ASSUME TypeOK, RxKeyMatchesStream, [Next]_vars
               PROVE  Ptt!PttNext \/ UNCHANGED Ptt!pttVars
    OBVIOUS
  <2>1. CASE UNCHANGED <<rxkey, readq, coreKeyed>>
    BY <2>1 DEF Ptt!pttVars
  <2>2. CASE rxkey' = 0 /\ readq' = << >> /\ coreKeyed' = FALSE
    <3>1. KindsOf(readq') = << >>
      BY <2>2 DEF KindsOf
    <3> QED
      BY <2>2, <3>1 DEF Ptt!PttNext, Ptt!Close
  <2>3. CASE ServeRxq /\ coreKeyed' = coreKeyed
    <3> DEFINE b == KindsOf(Burst)
    <3>1. /\ KindsOf(readq') = KindsOf(readq) \o b
          /\ Legal(OpenAfter(coreKeyed, KindsOf(readq)), b)
          /\ b \in Seq(PttItem) /\ Len(b) <= 3
      BY <2>3, ServeContinues
    <3> HIDE DEF b
    <3>2. b \in [1..Len(b) -> PttItem] /\ Len(b) \in 0..3
      <4>1. b \in [1..Len(b) -> PttItem] /\ Len(b) \in Nat
        BY <3>1, LenProperties
      <4> QED
        BY <3>1, <4>1
    <3>3. PttItem = Ptt!Item
      BY DEF PttItem, Ptt!Item
    <3>4. b \in Ptt!Bursts
      BY <3>2, <3>3 DEF Ptt!Bursts
    <3>5. Ptt!Legal(Ptt!OpenAfter(coreKeyed, KindsOf(readq)), b)
      BY <3>1 DEF Legal, OpenAfter, OpenBefore, Ptt!Legal, Ptt!OpenAfter, Ptt!OpenBefore
    <3> QED
      BY <2>3, <3>1, <3>4, <3>5 DEF Ptt!PttNext, Ptt!Emit
  <2>4. CASE CoreRead
    <3>1. /\ KindsOf(readq) # << >>
          /\ KindsOf(readq') = Tail(KindsOf(readq))
          /\ coreKeyed' = (KindsOf(readq)[1] # "unkey")
      BY <2>4, CoreReadHears
    <3>2. Head(KindsOf(readq)) = KindsOf(readq)[1]
      OBVIOUS
    <3> QED
      BY <3>1, <3>2 DEF Ptt!PttNext, Ptt!Hear
  <2> QED
    BY <2>1, <2>2, <2>3, <2>4, StreamSteps
<1> QED
  BY <1>1, <1>2, TypeCorrect, RxKeyMatches, PTL DEF Spec, ImplementsPtt, Ptt!PttSpec

-----------------------------------------------------------------------------
(* The audio on its way to Asterisk.                                       *)

\* Serving the receive queue queues for Asterisk the oldest payload, and no
\* other, after what is queued already.
LEMMA ServeHandsOver ==
    ASSUME TypeOK, ServeRxq
    PROVE  /\ \A i \in Voiced' \ Voiced : rxq # << >> /\ readq'[i].voice = rxq[1]
           /\ \A i \in Voiced' \ Voiced, j \in Voiced' : i # j => j \in Voiced /\ j < i
           /\ \A i \in Voiced : i \in Voiced' /\ readq'[i] = readq[i]
           /\ Len(rxq') <= Len(rxq)
           /\ \A i \in DOMAIN rxq' : i + 1 \in DOMAIN rxq /\ rxq'[i] = rxq[i + 1]
<1>1. readq \in Seq(Frame) /\ rxq \in Seq(Nat) /\ Burst \in Seq(Frame) /\ rxq' \in Seq(Nat)
  BY ServeRxqType DEF TypeOK
<1>2. readq' = readq \o Burst /\ rxq' = IF rxq = << >> \/ Overloaded THEN << >> ELSE Tail(rxq)
  BY DEF ServeRxq
<1> DEFINE m == Len(readq)
<1>3. /\ DOMAIN readq = 1..m /\ m \in Nat /\ Len(Burst) \in Nat
      /\ DOMAIN readq' = 1..m + Len(Burst)
      /\ \A i \in 1..m : readq'[i] = readq[i]
      /\ \A i \in 1..Len(Burst) : readq'[m + i] = Burst[i]
  BY <1>1, <1>2
<1>4. \A k \in 1..Len(Burst) : Burst[k].type = "voice" =>
         /\ rxq # << >> /\ Burst[k].voice = rxq[1]
         /\ \A n \in 1..Len(Burst) : Burst[n].type = "voice" => n = k
  <2> DEFINE serve == rxq # << >> /\ ~Overloaded
             v == VOICE(Head(rxq))
  <2>0. /\ KEY.type = "radio_key" /\ UNKEY.type = "radio_unkey"
        /\ v.type = "voice" /\ v.voice = Head(rxq)
    BY DEF KEY, UNKEY, VOICE
  <2>1. CASE serve
    <3>1. UnkeyFrames = << >> /\ VoiceFrames = <<v>>
      BY <2>1, ConstTypes DEF UnkeyFrames, VoiceFrames, ServedRxKey
    <3>2. KeyFrames = <<KEY>> \/ KeyFrames = << >>
      BY DEF KeyFrames
    <3>3. Burst = <<KEY, v>> \/ Burst = <<v>>
      BY <3>1, <3>2, Units DEF Burst
    <3>4. Head(rxq) = rxq[1] /\ rxq # << >>
      BY <1>1, <2>1
    <3> HIDE DEF v
    <3>5. CASE Burst = <<KEY, v>>
      <4>1. Len(Burst) = 2 /\ Burst[1] = KEY /\ Burst[2] = v
        BY <3>5
      <4> QED BY <2>0, <3>4, <4>1
    <3>6. CASE Burst = <<v>>
      <4>1. Len(Burst) = 1 /\ Burst[1] = v
        BY <3>6
      <4> QED BY <2>0, <3>4, <4>1
    <3> QED BY <3>3, <3>5, <3>6
  <2>2. CASE ~serve
    <3>1. KeyFrames = << >> /\ VoiceFrames = << >> /\ UnkeyFrames \in {<< >>, <<UNKEY>>}
      BY <2>2 DEF KeyFrames, VoiceFrames, UnkeyFrames
    <3>2. Burst = << >> \/ Burst = <<UNKEY>>
      BY <3>1, Units DEF Burst
    <3> QED BY <2>0, <3>2
  <2> QED BY <2>1, <2>2
<1>5. \A i \in Voiced : i \in Voiced' /\ readq'[i] = readq[i]
  BY <1>3 DEF Voiced
<1>6. \A i \in Voiced' \ Voiced : i - m \in 1..Len(Burst) /\ readq'[i] = Burst[i - m]
  <2> TAKE i \in Voiced' \ Voiced
  <2>1. i \in 1..m + Len(Burst) /\ readq'[i].type = "voice"
    BY <1>3 DEF Voiced
  <2>2. i \notin 1..m
    BY <1>3, <2>1 DEF Voiced
  <2>3. i - m \in 1..Len(Burst) /\ m + (i - m) = i
    BY <1>3, <2>1, <2>2
  <2> QED BY <1>3, <2>3
<1>7. \A i \in Voiced' \ Voiced : rxq # << >> /\ readq'[i].voice = rxq[1]
  BY <1>4, <1>6 DEF Voiced
<1>8. \A i \in Voiced' \ Voiced, j \in Voiced' : i # j => j \in Voiced /\ j < i
  <2> TAKE i \in Voiced' \ Voiced, j \in Voiced'
  <2>1. i - m \in 1..Len(Burst) /\ readq'[i] = Burst[i - m] /\ readq'[i].type = "voice"
    BY <1>6 DEF Voiced
  <2>2. CASE j \in Voiced
    BY <1>3, <2>1, <2>2 DEF Voiced
  <2>3. CASE j \notin Voiced
    <3>1. j - m \in 1..Len(Burst) /\ readq'[j] = Burst[j - m] /\ readq'[j].type = "voice"
      BY <1>6, <2>3 DEF Voiced
    <3>2. j - m = i - m
      BY <1>4, <2>1, <3>1
    <3>3. i \in Int /\ j \in Int
      BY <1>3 DEF Voiced
    <3> QED BY <1>3, <3>2, <3>3
  <2> QED BY <2>2, <2>3
<1>9. Len(rxq') <= Len(rxq) /\ \A i \in DOMAIN rxq' : i + 1 \in DOMAIN rxq /\ rxq'[i] = rxq[i + 1]
  <2>1. CASE rxq' = << >>
    BY <1>1, <2>1
  <2>2. CASE rxq' = Tail(rxq) /\ rxq # << >>
    BY <1>1, <2>2
  <2> QED BY <1>2, <2>1, <2>2
<1> QED BY <1>5, <1>7, <1>8, <1>9

\* Audio reaches Asterisk in the order it arrived, each packet at most once,
\* also across the hand-over from rxq to the frames queued for Asterisk and in
\* an overload.  With TypeOK the property is inductive.
THEOREM AudioInOrder == Spec => []VoiceInOrder
<1>1. Init => VoiceInOrder
  BY DEF Init, ChanInit, VoiceInOrder, Voiced
<1>2. TypeOK /\ VoiceInOrder /\ [Next]_vars => VoiceInOrder'
  <2> SUFFICES ASSUME TypeOK, VoiceInOrder, [Next]_vars PROVE VoiceInOrder'
    OBVIOUS
  <2>0. /\ readq \in Seq(Frame) /\ rxq \in Seq(Nat) /\ arrived \in Nat /\ lastHeard \in Nat
        /\ DOMAIN readq = 1..Len(readq) /\ DOMAIN rxq = 1..Len(rxq)
        /\ Len(readq) \in Nat /\ Len(rxq) \in Nat
    BY LenProperties DEF TypeOK
  <2>f. /\ \A i \in Voiced : readq[i].voice \in Nat
        /\ \A i \in DOMAIN rxq : rxq[i] \in Nat
    BY <2>0 DEF Voiced, Frame, KEY, UNKEY
  <2>1. CASE UNCHANGED <<readq, rxq, arrived, lastHeard>>
    BY <2>1 DEF VoiceInOrder, Voiced
  <2>2. CASE Arrive
    <3>1. PICK full \in BOOLEAN :
            /\ rxq' = rxq \/ (rxq' = Append(rxq, arrived + 1) /\ full)
            /\ arrived' = IF full THEN arrived + 1 ELSE arrived
            /\ UNCHANGED <<readq, lastHeard>>
      BY <2>0, <2>2, ConstTypes DEF Arrive, Xread, Enqueue, HasAudio
    <3>2. arrived' \in Nat /\ arrived <= arrived' /\ Voiced' = Voiced
      BY <2>0, <3>1 DEF Voiced
    <3>3. CASE rxq' = rxq
      BY <2>0, <2>f, <3>1, <3>2, <3>3 DEF VoiceInOrder
    <3>4. CASE rxq' = Append(rxq, arrived + 1) /\ full
      <4>1. /\ DOMAIN rxq' = 1..Len(rxq) + 1
            /\ \A i \in 1..Len(rxq) : rxq'[i] = rxq[i]
            /\ rxq'[Len(rxq) + 1] = arrived'
        BY <2>0, <3>1, <3>4
      <4>2. \A i \in Voiced : \A j \in DOMAIN rxq' : readq[i].voice < rxq'[j]
        BY <2>0, <2>f, <3>1, <3>4, <4>1 DEF VoiceInOrder
      <4>3. \A i \in DOMAIN rxq' : lastHeard < rxq'[i] /\ rxq'[i] <= arrived'
        BY <2>0, <2>f, <3>1, <3>4, <4>1 DEF VoiceInOrder
      <4>4. \A i, j \in DOMAIN rxq' : i < j => rxq'[i] < rxq'[j]
        BY <2>0, <2>f, <3>1, <3>4, <4>1 DEF VoiceInOrder
      <4>5. lastHeard <= arrived' /\ \A i \in Voiced : readq[i].voice <= arrived'
        BY <2>0, <2>f, <3>2 DEF VoiceInOrder
      <4> QED BY <3>1, <3>2, <4>2, <4>3, <4>4, <4>5 DEF VoiceInOrder
    <3> QED BY <3>1, <3>3, <3>4
  <2>3. CASE Lifecycle
    <3>1. UNCHANGED <<arrived, lastHeard>>
      BY <2>3 DEF Lifecycle
    <3>2. CASE Request \/ Hangup
      <4>1. rxq' = << >> /\ readq' = << >>
        BY <3>2 DEF Request, Hangup, ClearedPvt
      <4> QED BY <3>1, <4>1 DEF VoiceInOrder, Voiced
    <3>3. CASE Call
      BY <2>1, <3>1, <3>3 DEF Call, pvtVars
    <3> QED BY <2>3, <3>2, <3>3 DEF Lifecycle
  <2>4. CASE Write
    <3>1. ServeRxq /\ UNCHANGED <<arrived, lastHeard>>
      BY <2>4 DEF Write, Xwrite
    <3>2. /\ \A i \in Voiced' \ Voiced : rxq # << >> /\ readq'[i].voice = rxq[1]
          /\ \A i \in Voiced' \ Voiced, j \in Voiced' : i # j => j \in Voiced /\ j < i
          /\ \A i \in Voiced : i \in Voiced' /\ readq'[i] = readq[i]
          /\ \A i \in DOMAIN rxq' : i + 1 \in DOMAIN rxq /\ rxq'[i] = rxq[i + 1]
      BY <3>1, ServeHandsOver
    <3>3. rxq # << >> => 1 \in DOMAIN rxq
      BY <2>0, EmptySeq
    <3>4. rxq' \in Seq(Nat) /\ DOMAIN rxq' \subseteq Nat /\ Voiced' \subseteq Nat
      <4>1. rxq' \in Seq(Nat) /\ readq' \in Seq(Frame)
        BY <3>1, ServeRxqType
      <4>2. DOMAIN rxq' = 1..Len(rxq') /\ DOMAIN readq' = 1..Len(readq')
        BY <4>1, LenProperties
      <4> QED BY <4>1, <4>2 DEF Voiced
    <3>5. \A i \in DOMAIN rxq' :
             /\ lastHeard < rxq'[i] /\ rxq'[i] <= arrived
             /\ \A j \in DOMAIN rxq' : i < j => rxq'[i] < rxq'[j]
      BY <3>2, <3>4 DEF VoiceInOrder
    <3>6. \A i \in Voiced' :
             /\ lastHeard < readq'[i].voice /\ readq'[i].voice <= arrived
             /\ \A j \in DOMAIN rxq' : readq'[i].voice < rxq'[j]
      <4> TAKE i \in Voiced'
      <4>1. CASE i \in Voiced
        BY <3>2, <4>1 DEF VoiceInOrder
      <4>2. CASE i \notin Voiced
        <5>1. rxq # << >> /\ readq'[i].voice = rxq[1] /\ 1 \in DOMAIN rxq
          BY <3>2, <3>3, <4>2
        <5>2. \A j \in DOMAIN rxq' : rxq'[j] = rxq[j + 1] /\ j + 1 \in DOMAIN rxq /\ 1 < j + 1
          BY <2>0, <3>2, <3>4
        <5> QED BY <5>1, <5>2 DEF VoiceInOrder
      <4> QED BY <4>1, <4>2
    <3>7. \A i, j \in Voiced' : i < j => readq'[i].voice < readq'[j].voice
      <4> TAKE i \in Voiced', j \in Voiced'
      <4>1. CASE i \in Voiced /\ j \in Voiced
        BY <3>2, <4>1 DEF VoiceInOrder
      <4>2. CASE i \notin Voiced
        BY <3>2, <3>4, <4>2
      <4>3. CASE i \in Voiced /\ j \notin Voiced
        BY <3>2, <3>3, <4>3 DEF VoiceInOrder
      <4> QED BY <4>1, <4>2, <4>3
    <3>8. lastHeard <= arrived
      BY DEF VoiceInOrder
    <3> QED BY <3>1, <3>5, <3>6, <3>7, <3>8 DEF VoiceInOrder
  <2>5. CASE IndicateKey \/ IndicateUnkey
    BY <2>1, <2>5 DEF IndicateKey, IndicateUnkey, Indicate
  <2>6. CASE ReadFrame
    <3>1. /\ readq # << >> /\ readq' = Tail(readq) /\ UNCHANGED <<rxq, arrived>>
          /\ lastHeard' = IF readq[1].type = "voice" THEN readq[1].voice ELSE lastHeard
      BY <2>0, <2>6 DEF ReadFrame, CoreRead, pvtVars
    <3>2. \A i \in Voiced' : i + 1 \in Voiced /\ readq'[i] = readq[i + 1] /\ i \in Nat /\ 1 < i + 1
      <4>1. DOMAIN readq' = 1..Len(readq) - 1 /\ \A i \in 1..Len(readq) - 1 : readq'[i] = readq[i + 1]
        BY <2>0, <3>1
      <4> QED BY <2>0, <4>1 DEF Voiced
    <3>3. 1 \in DOMAIN readq
      BY <2>0, <3>1, EmptySeq
    <3>4. lastHeard' <= arrived
      BY <2>0, <3>1, <3>3 DEF VoiceInOrder, Voiced
    <3>5. \A i \in Voiced' : lastHeard' < readq'[i].voice
      BY <3>1, <3>2, <3>3 DEF VoiceInOrder, Voiced
    <3>6. \A i \in DOMAIN rxq : lastHeard' < rxq[i]
      BY <3>1, <3>3 DEF VoiceInOrder, Voiced
    <3>7. \A i \in Voiced' :
             /\ readq'[i].voice <= arrived
             /\ \A j \in DOMAIN rxq : readq'[i].voice < rxq[j]
      BY <3>2 DEF VoiceInOrder
    <3>8. \A i, j \in Voiced' : i < j => readq'[i].voice < readq'[j].voice
      BY <3>2 DEF VoiceInOrder
    <3> QED BY <3>1, <3>4, <3>5, <3>6, <3>7, <3>8 DEF VoiceInOrder
  <2>7. CASE Deliver
    BY <2>1, <2>7 DEF Deliver, pvtVars
  <2>8. CASE UNCHANGED vars
    BY <2>1, <2>8 DEF vars, chanVars, pvtVars
  <2> QED BY <2>2, <2>3, <2>4, <2>5, <2>6, <2>7, <2>8 DEF Next
<1> QED BY <1>1, <1>2, TypeCorrect, PTL DEF Spec

\* An overload that throws queued audio away ends the transmission in the same
\* callback, so that Asterisk is never left keyed over a hole in the audio.
THEOREM OverloadUnkeys == Spec => OverloadEndsTransmission
<1> DEFINE Ended == rxkey' = 0 /\ ~OpenAfter(coreKeyed', KindsOf(readq'))
<1>1. TypeOK /\ RxKeyMatchesStream' /\ [Next]_vars
        => (pvt /\ pvt' /\ Len(rxq) - Len(rxq') > 1 => Ended)
  <2> SUFFICES ASSUME TypeOK, RxKeyMatchesStream', [Next]_vars, pvt, pvt',
                      Len(rxq) - Len(rxq') > 1
               PROVE  Ended
    OBVIOUS
  <2>0. rxq \in Seq(Nat) /\ Len(rxq) \in Nat
    BY LenProperties DEF TypeOK
  <2>1. ServeRxq
    <3>1. rxq' # rxq
      BY <2>0
    <3>2. ~Arrive
      <4> SUFFICES ASSUME Arrive PROVE FALSE
        OBVIOUS
      <4>1. rxq' = Append(rxq, arrived + 1)
        BY <3>1 DEF Arrive, Xread, Enqueue
      <4>2. Len(rxq') = Len(rxq) + 1
        BY <2>0, <4>1
      <4> QED BY <2>0, <4>2
    <3> QED BY <3>1, <3>2 DEF Next, Lifecycle, Request, Call, Hangup, Write, Xwrite, IndicateKey,
                 IndicateUnkey, Indicate, ReadFrame, CoreRead, Deliver, vars, chanVars, pvtVars
  <2>2. rxq # << >> /\ Overloaded
    <3>1. rxq' = << >> \/ (rxq # << >> /\ rxq' = Tail(rxq) /\ ~Overloaded)
      BY <2>1 DEF ServeRxq
    <3>2. ~(rxq # << >> /\ rxq' = Tail(rxq))
      BY <2>0
    <3>3. rxq' = << >> /\ (rxq = << >> \/ Overloaded)
      BY <2>1, <3>1, <3>2 DEF ServeRxq
    <3>4. rxq # << >>
      BY <2>0, <3>3
    <3> QED BY <3>3, <3>4
  <2>3. rxkey' = 0
    BY <2>1, <2>2 DEF ServeRxq, ServedRxKey
  <2>4. ~OpenAfter(coreKeyed', KindsOf(readq'))
    BY <2>3 DEF RxKeyMatchesStream
  <2> QED BY <2>3, <2>4
<1> QED BY <1>1, TypeCorrect, RxKeyMatches, PTL DEF Spec, OverloadEndsTransmission

-----------------------------------------------------------------------------
(* The radio end's transmitter.                                            *)

\* A channel that is gone owes nothing.
Idle == ~pvt => ~unkeyOwed

\* What is sent is the last the radio end hears; what it has heard does not
\* change what it will have heard.
LEMMA LastSent ==
    ASSUME TypeOK
    PROVE  /\ \A pkt \in Packet : wire' = Append(wire, pkt)
                => RemoteWillBeKeyed' = pkt.keyup
           /\ Deliver => RemoteWillBeKeyed' = RemoteWillBeKeyed
<1>0. wire \in Seq(Packet) /\ Len(wire) \in Nat
  BY LenProperties DEF TypeOK
<1>1. ASSUME NEW pkt \in Packet, wire' = Append(wire, pkt) PROVE RemoteWillBeKeyed' = pkt.keyup
  <2>1. wire' # << >> /\ Len(wire') = Len(wire) + 1 /\ wire'[Len(wire) + 1] = pkt
    BY <1>0, <1>1, AppendProperties
  <2> QED BY <2>1 DEF RemoteWillBeKeyed
<1>2. ASSUME Deliver PROVE RemoteWillBeKeyed' = RemoteWillBeKeyed
  <2>1. /\ wire # << >> /\ wire' = Tail(wire) /\ remoteKeyed' = wire[1].keyup
    BY <1>0, <1>2 DEF Deliver
  <2>2. wire' \in Seq(Packet) /\ Len(wire') = Len(wire) - 1
        /\ \A i \in 1..Len(wire') : wire'[i] = wire[i + 1]
    BY <1>0, <2>1, HeadTailProperties
  <2>3. CASE Len(wire) = 1
    <3>1. wire' = << >>
      BY <2>2, <2>3, EmptySeq
    <3> QED BY <2>1, <2>3, <3>1 DEF RemoteWillBeKeyed
  <2>4. CASE Len(wire) # 1
    <3>1. Len(wire) > 0
      BY <1>0, <2>1, EmptySeq
    <3>2. Len(wire') \in 1..Len(wire') /\ Len(wire') + 1 = Len(wire)
      BY <1>0, <2>2, <2>4, <3>1
    <3>3. wire' # << >>
      BY <3>2
    <3> QED BY <2>1, <2>2, <3>2, <3>3 DEF RemoteWillBeKeyed
  <2> QED BY <2>3, <2>4
<1> QED BY <1>1, <1>2

LEMMA IdleAlways == Spec => []Idle
<1>1. Init => Idle
  BY DEF Init, ChanInit, Idle
<1>2. Idle /\ [Next]_vars => Idle'
  <2> SUFFICES ASSUME Idle, [Next]_vars PROVE Idle'
    OBVIOUS
  <2>1. CASE Lifecycle
    BY <2>1 DEF Idle, Lifecycle, Request, Call, Hangup, ClearedPvt, pvtVars
  <2>2. CASE Write \/ IndicateKey \/ IndicateUnkey
    <3>1. pvt /\ pvt' = pvt
      <4>1. CASE Write
        BY <4>1 DEF Write, Xwrite
      <4>2. CASE IndicateKey \/ IndicateUnkey
        BY <4>2, Zenon DEF IndicateKey, IndicateUnkey, Indicate
      <4> QED BY <2>2, <4>1, <4>2
    <3> QED BY <3>1 DEF Idle
  <2>3. CASE UNCHANGED <<pvt, unkeyOwed>>
    BY <2>3 DEF Idle
  <2>4. CASE Arrive \/ ReadFrame \/ Deliver \/ UNCHANGED vars
    BY <2>3, <2>4 DEF Arrive, Xread, ReadFrame, CoreRead, Deliver, vars, chanVars, pvtVars
  <2> QED BY <2>1, <2>2, <2>4 DEF Next
<1> QED BY <1>1, <1>2, PTL DEF Spec

\* The driver loses track of a keyed transmitter in two ways only: it is hung
\* up owing an unkey, or sendto refuses the unkey packet.
THEOREM StrandedByTwo == Spec => OnlyHangupOrSendErrorStrands
<1>1. TypeOK /\ Idle /\ [Next]_vars => (Stranded' => Stranded \/ Hangup \/ UnkeyRefused)
  <2> SUFFICES ASSUME TypeOK, Idle, [Next]_vars, Stranded'
               PROVE  Stranded \/ Hangup \/ UnkeyRefused
    OBVIOUS
  <2>1. CASE UNCHANGED <<unkeyOwed, wire, remoteKeyed>>
    BY <2>1 DEF Stranded, RemoteWillBeKeyed
  <2>2. CASE Lifecycle
    <3>1. CASE Request
      <4>1. ~unkeyOwed /\ UNCHANGED <<wire, remoteKeyed>>
        BY <2>2, <3>1 DEF Lifecycle, Request, Idle
      <4> QED BY <4>1 DEF Stranded, RemoteWillBeKeyed
    <3>2. CASE Call
      BY <2>1, <2>2, <3>2 DEF Lifecycle, Call, pvtVars
    <3> QED BY <2>2, <3>1, <3>2 DEF Lifecycle
  <2>3. CASE Write
    <3>1. CASE txkey
      BY <2>3, <3>1 DEF Write, Xwrite, Stranded
    <3>2. CASE ~txkey
      BY <2>1, <2>3, <3>2 DEF Write, Xwrite
    <3> QED BY <3>1, <3>2
  <2>4. CASE IndicateKey \/ IndicateUnkey
    <3>1. PICK key \in BOOLEAN, ok \in SendOutcomes : Indicate(key, ok) /\ UNCHANGED remoteKeyed
      BY <2>4 DEF IndicateKey, IndicateUnkey
    <3>2. CASE ~unkeyOwed
      BY <2>1, <3>1, <3>2 DEF Indicate, PayUnkey
    <3>3. CASE unkeyOwed /\ ok
      <4>1. wire' = Append(wire, UnkeyPacket(sendSeq)) /\ UnkeyPacket(sendSeq) \in Packet
        BY <3>1, <3>3, PacketTypes DEF TypeOK, Indicate, PayUnkey, Send
      <4>2. UnkeyPacket(sendSeq).keyup = FALSE
        BY DEF UnkeyPacket
      <4> QED BY <4>1, <4>2, LastSent DEF Stranded
    <3>4. CASE unkeyOwed /\ ~ok
      BY <3>1, <3>4 DEF Indicate, PayUnkey, Send, UnkeyRefused
    <3> QED BY <3>2, <3>3, <3>4
  <2>5. CASE Deliver
    BY <2>5, LastSent DEF Stranded, Deliver, pvtVars
  <2>6. CASE Arrive \/ ReadFrame \/ UNCHANGED vars
    BY <2>1, <2>6 DEF Arrive, Xread, ReadFrame, CoreRead, vars, chanVars, pvtVars
  <2> QED BY <2>2, <2>3, <2>4, <2>5, <2>6 DEF Next
<1> QED BY <1>1, TypeCorrect, IdleAlways, PTL DEF Spec, OnlyHangupOrSendErrorStrands
=============================================================================
