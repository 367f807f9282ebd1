------------------------- MODULE TrunkFollowerProofs -------------------------
(***************************************************************************)
(* The properties of TrunkFollower for every site plan, queue length and   *)
(* latency.                                                                *)
(*                                                                         *)
(* The invariant says what may be in the two queues in each state of the   *)
(* receiver.  Waiting for a call, it has behind the last control blocks    *)
(* only units of that call; waiting for the control channel, behind the    *)
(* last units of the call only control blocks.  So the first unit of the   *)
(* kind that changes the state shows that the rest is of that kind too.    *)
(***************************************************************************)
EXTENDS TrunkFollower, SequenceTheorems, TLAPS

-----------------------------------------------------------------------------
(* What is in the queues.                                                  *)

Ops == {Iden(id) : id \in DOMAIN Plan} \cup {Grant(ch) : ch \in granted} \cup {Status}
Blocks == {Tsbk(op) : op \in Ops}
Voice == [type : {LDU} \cup Terminators, on : Freqs \ {CcFreq}]
VoiceOn(f) == {u \in Voice : u.on = f}

\* From the first member of S on, the two queues hold nothing else.
Closed(S, d, p) ==
    /\ \A i, j \in 1..Len(d) : i < j /\ d[i] \in S => d[j] \in S
    /\ \A i, j \in 1..Len(p) : i < j /\ p[i] \in S => p[j] \in S
    /\ \A i \in 1..Len(d), j \in 1..Len(p) : d[i] \in S => p[j] \in S

LEMMA ClosedVacuous ==
    ASSUME NEW A, NEW S, NEW d \in Seq(A), NEW p \in Seq(A), A \cap S = {}
    PROVE  Closed(S, d, p)
BY DEF Closed

LEMMA ClosedSame ==
    ASSUME NEW A, NEW S, NEW R, NEW d \in Seq(A), NEW p \in Seq(A),
           \A u \in A : u \in S <=> u \in R, Closed(S, d, p)
    PROVE  Closed(R, d, p)
<1>1. /\ \A i \in 1..Len(d) : d[i] \in A
      /\ \A i \in 1..Len(p) : p[i] \in A
  OBVIOUS
<1> QED BY <1>1 DEF Closed

LEMMA ClosedAppend ==
    ASSUME NEW A, NEW S, NEW d \in Seq(A), NEW p \in Seq(A), NEW u \in A \cap S,
           Closed(S, d, p)
    PROVE  Closed(S, d, Append(p, u))
<1> DEFINE q == Append(p, u)
<1>1. /\ q \in Seq(A) /\ Len(q) = Len(p) + 1
      /\ q[Len(q)] = u /\ \A i \in 1..Len(p) : q[i] = p[i]
  BY AppendProperties
<1>2. \A j \in 1..Len(q) : j \in 1..Len(p) \/ j = Len(q)
  BY <1>1
<1> HIDE DEF q
<1>3. \A i, j \in 1..Len(q) : i < j /\ q[i] \in S => q[j] \in S
  BY <1>1, <1>2 DEF Closed
<1>4. \A i \in 1..Len(d), j \in 1..Len(q) : d[i] \in S => q[j] \in S
  BY <1>1, <1>2 DEF Closed
<1> QED BY <1>3, <1>4 DEF Closed, q

LEMMA ClosedMove ==
    ASSUME NEW A, NEW S, NEW d \in Seq(A), NEW p \in Seq(A), p # << >>,
           Closed(S, d, p)
    PROVE  Closed(S, Append(d, Head(p)), Tail(p)) /\ Closed(S, d, Tail(p))
<1> DEFINE q == Append(d, Head(p))
           r == Tail(p)
<1>1. /\ Head(p) \in A /\ Head(p) = p[1] /\ r \in Seq(A) /\ Len(p) = Len(r) + 1
      /\ Len(r) \in Nat /\ Len(p) \in Nat /\ Len(d) \in Nat
      /\ \A i \in 1..Len(r) : r[i] = p[i + 1]
  BY HeadTailProperties, LenProperties
<1>2. /\ Len(q) = Len(d) + 1
      /\ q[Len(q)] = p[1] /\ \A i \in 1..Len(d) : q[i] = d[i]
  BY <1>1, AppendProperties
<1>3. \A j \in 1..Len(q) : j \in 1..Len(d) \/ j = Len(q)
  BY <1>1, <1>2
<1>4. 1 \in 1..Len(p) /\ \A i \in 1..Len(r) : i + 1 \in 1..Len(p) /\ 1 < i + 1
  BY <1>1
<1> HIDE DEF q, r
<1>5. \A i, j \in 1..Len(r) : i < j /\ r[i] \in S => r[j] \in S
  <2> SUFFICES ASSUME NEW i \in 1..Len(r), NEW j \in 1..Len(r), i < j, r[i] \in S
               PROVE  r[j] \in S
    OBVIOUS
  <2>1. i + 1 \in 1..Len(p) /\ j + 1 \in 1..Len(p) /\ i + 1 < j + 1
    BY <1>1, <1>4
  <2> QED BY <1>1, <2>1 DEF Closed
<1>6. \A i, j \in 1..Len(q) : i < j /\ q[i] \in S => q[j] \in S
  <2> SUFFICES ASSUME NEW i \in 1..Len(q), NEW j \in 1..Len(q), i < j, q[i] \in S
               PROVE  q[j] \in S
    OBVIOUS
  <2>1. i \in 1..Len(d)
    BY <1>1, <1>2, <1>3
  <2>2. CASE j \in 1..Len(d)
    BY <1>2, <2>1, <2>2 DEF Closed
  <2>3. CASE j = Len(q)
    BY <1>2, <1>4, <2>1, <2>3 DEF Closed
  <2> QED BY <1>3, <2>2, <2>3
<1>7. \A i \in 1..Len(q), j \in 1..Len(r) : q[i] \in S => r[j] \in S
  <2> SUFFICES ASSUME NEW i \in 1..Len(q), NEW j \in 1..Len(r), q[i] \in S
               PROVE  r[j] \in S
    OBVIOUS
  <2>1. CASE i \in 1..Len(d)
    BY <1>1, <1>2, <1>4, <2>1 DEF Closed
  <2>2. CASE i = Len(q)
    BY <1>1, <1>2, <1>4, <2>2 DEF Closed
  <2> QED BY <1>3, <2>1, <2>2
<1>8. \A i \in 1..Len(d), j \in 1..Len(r) : d[i] \in S => r[j] \in S
  BY <1>1, <1>4 DEF Closed
<1>9. \A i, j \in 1..Len(d) : i < j /\ d[i] \in S => d[j] \in S
  BY DEF Closed
<1> QED BY <1>5, <1>6, <1>7, <1>8, <1>9 DEF Closed, q, r

LEMMA SeqOf ==
    ASSUME NEW A, NEW S, NEW s \in Seq(A), \A i \in 1..Len(s) : s[i] \in S
    PROVE  s \in Seq(S)
<1>1. Len(s) \in Nat /\ s = [i \in 1..Len(s) |-> s[i]]
  BY LenProperties
<1>2. s \in [1..Len(s) -> S]
  BY <1>1
<1> QED BY <1>1, <1>2

LEMMA ClosedTake ==
    ASSUME NEW A, NEW S, NEW d \in Seq(A), NEW p \in Seq(A), d # << >>,
           Closed(S, d, p)
    PROVE  /\ Closed(S, Tail(d), p)
           /\ Head(d) \in S => Tail(d) \in Seq(S) /\ p \in Seq(S)
<1> DEFINE r == Tail(d)
<1>1. /\ Head(d) = d[1] /\ r \in Seq(A) /\ Len(d) = Len(r) + 1
      /\ Len(r) \in Nat /\ Len(d) \in Nat
      /\ \A i \in 1..Len(r) : r[i] = d[i + 1]
  BY HeadTailProperties, LenProperties
<1>2. 1 \in 1..Len(d) /\ \A i \in 1..Len(r) : i + 1 \in 1..Len(d) /\ 1 < i + 1
  BY <1>1
<1> HIDE DEF r
<1>3. \A i, j \in 1..Len(r) : i < j /\ r[i] \in S => r[j] \in S
  <2> SUFFICES ASSUME NEW i \in 1..Len(r), NEW j \in 1..Len(r), i < j, r[i] \in S
               PROVE  r[j] \in S
    OBVIOUS
  <2>1. i + 1 \in 1..Len(d) /\ j + 1 \in 1..Len(d) /\ i + 1 < j + 1
    BY <1>1, <1>2
  <2> QED BY <1>1, <2>1 DEF Closed
<1>4. \A i \in 1..Len(r), j \in 1..Len(p) : r[i] \in S => p[j] \in S
  BY <1>1, <1>2 DEF Closed
<1>5. ASSUME Head(d) \in S PROVE r \in Seq(S) /\ p \in Seq(S)
  <2>1. \A i \in 1..Len(r) : r[i] \in S
    BY <1>1, <1>2, <1>5 DEF Closed
  <2>2. \A i \in 1..Len(p) : p[i] \in S
    BY <1>1, <1>2, <1>5 DEF Closed
  <2> QED BY <1>1, <2>1, <2>2, SeqOf
<1>6. \A i, j \in 1..Len(p) : i < j /\ p[i] \in S => p[j] \in S
  BY DEF Closed
<1> QED BY <1>3, <1>4, <1>5, <1>6 DEF Closed, r

-----------------------------------------------------------------------------
(* The invariant.                                                          *)

Types ==
    /\ calls \subseteq ChannelIds /\ granted \subseteq ChannelIds
    /\ trunked_state \in {"CC", "TO_VC", "VC", "TO_CC"}
    /\ DOMAIN freq_table \subseteq DOMAIN Plan
    /\ \A id \in DOMAIN freq_table : freq_table[id] = Plan[id]
    /\ tuned \in Freqs
    /\ duq \in Seq(Blocks \cup Voice) /\ pipe \in Seq(Blocks \cup Voice)

Only(S) == duq \in Seq(S) /\ pipe \in Seq(S)

Queues ==
    /\ trunked_state = "CC" => Only(Blocks)
    /\ trunked_state = "TO_VC" =>
         Only(Blocks \cup VoiceOn(tuned)) /\ Closed(VoiceOn(tuned), duq, pipe)
    /\ trunked_state = "VC" => tuned # CcFreq /\ Only(VoiceOn(tuned))
    /\ trunked_state = "TO_CC" =>
         IF tuned = CcFreq THEN Closed(Blocks, duq, pipe) ELSE Only(VoiceOn(tuned))

Coming(q) == \E i \in 1..Len(q) : q[i].type \in Terminators

Excused ==
    excuse = "none" =>
        /\ trunked_state \in {"TO_VC", "VC"} =>
              tuned \in Active \/ Coming(duq) \/ Coming(pipe)
        /\ trunked_state = "TO_CC" => tuned = CcFreq

IInv == Types /\ Queues /\ TunedAsGranted /\ Excused

LEMMA UnitFacts ==
    /\ \A u \in Blocks :
          /\ u.type = TSBK /\ u.on = CcFreq
          /\ u.tsbk.op = "grant" => u.tsbk.ch1 \in granted
          /\ u.tsbk.op = "iden_up" => u.tsbk.iden \in DOMAIN Plan
    /\ \A u \in Voice :
          u.type \in {LDU} \cup Terminators /\ u.type # TSBK /\ u.on \in Freqs /\ u.on # CcFreq
    /\ \A f : VoiceOn(f) \subseteq Voice /\ \A u \in VoiceOn(f) : u.on = f
    /\ Blocks \cap Voice = {}
<1>1. ASSUME NEW u \in Blocks
      PROVE  /\ u.type = TSBK /\ u.on = CcFreq
             /\ u.tsbk.op = "grant" => u.tsbk.ch1 \in granted
             /\ u.tsbk.op = "iden_up" => u.tsbk.iden \in DOMAIN Plan
  <2>1. PICK op \in Ops : u = Tsbk(op)
    BY DEF Blocks
  <2>2. u.type = TSBK /\ u.on = CcFreq /\ u.tsbk = op
    BY <2>1 DEF Tsbk
  <2>3. op.op = "grant" => op.ch1 \in granted
    BY DEF Ops, Iden, Grant, Status
  <2>4. op.op = "iden_up" => op.iden \in DOMAIN Plan
    BY DEF Ops, Iden, Grant, Status
  <2> QED BY <2>2, <2>3, <2>4
<1>2. ASSUME NEW u \in Voice
      PROVE  u.type \in {LDU} \cup Terminators /\ u.type # TSBK /\ u.on \in Freqs /\ u.on # CcFreq
  BY DEF Voice, LDU, TSBK, Terminators, TDU, TDULC
<1>3. \A f : VoiceOn(f) \subseteq Voice /\ \A u \in VoiceOn(f) : u.on = f
  BY DEF VoiceOn
<1> QED BY <1>1, <1>2, <1>3

LEMMA InitHolds == Init => IInv
<1> SUFFICES ASSUME Init PROVE IInv
  OBVIOUS
<1>1. DOMAIN freq_table = {} /\ << >> \in Seq(Blocks \cup Voice)
  <2>1. DOMAIN << >> = 1..Len(<< >>) /\ Len(<< >>) = 0
    OBVIOUS
  <2> QED BY <2>1 DEF Init
<1>2. Types
  BY <1>1 DEF Init, Types, Freqs
<1>3. Queues
  BY DEF Init, Queues, Only
<1>4. TunedAsGranted /\ Excused
  BY DEF Init, TunedAsGranted, Excused
<1> QED BY <1>2, <1>3, <1>4 DEF IInv

-----------------------------------------------------------------------------
(* What the site does: a unit more at the end of the queues, or none.      *)

LEMMA Receives ==
    ASSUME IInv, UNCHANGED <<duq, receiver>>,
           calls' \subseteq ChannelIds, granted' \subseteq ChannelIds, granted \subseteq granted',
           \/ pipe' = pipe
           \/ \E u \in IF tuned = CcFreq THEN Blocks' ELSE VoiceOn(tuned) : pipe' = Append(pipe, u)
    PROVE  Types' /\ Queues' /\ TunedAsGranted'
<1> DEFINE Old == Blocks \cup Voice
           New == Blocks' \cup Voice
<1>1. Blocks \subseteq Blocks' /\ Old \subseteq New
  BY DEF Blocks, Ops
<1>2. /\ duq' = duq /\ trunked_state' = trunked_state /\ tuned' = tuned
      /\ freq_table' = freq_table
      /\ duq \in Seq(Old) /\ pipe \in Seq(Old)
  BY DEF IInv, Types, receiver
<1>3. ASSUME NEW A, NEW B, A \subseteq B, NEW q \in Seq(A) PROVE q \in Seq(B)
  BY <1>3, SeqOf, ElementOfSeq
<1>4. duq \in Seq(New) /\ pipe \in Seq(New)
  BY <1>1, <1>2, <1>3
<1>5. Blocks \cap Voice = {} /\ Blocks' \cap Voice = {} /\ VoiceOn(tuned) \subseteq Voice
  <2>1. ASSUME NEW u \in Blocks' PROVE u.type = TSBK
    BY DEF Blocks, Tsbk
  <2> QED BY <2>1, UnitFacts
<1>6. TunedAsGranted'
  BY <1>2 DEF IInv, TunedAsGranted
<1>7. trunked_state = "TO_CC" /\ tuned = CcFreq => Closed(Blocks', duq, pipe)
  <2> SUFFICES ASSUME Closed(Blocks, duq, pipe) PROVE Closed(Blocks', duq, pipe)
    BY DEF IInv, Queues
  <2>1. \A u \in Old : u \in Blocks <=> u \in Blocks'
    BY <1>1, <1>5
  <2> HIDE DEF Old
  <2> QED BY <1>2, <2>1, ClosedSame
<1> HIDE DEF Old, New
<1>8. CASE pipe' = pipe
  <2>1. Types'
    BY <1>2, <1>4, <1>8 DEF IInv, Types, New
  <2>2. ASSUME NEW A, NEW B, A \subseteq B, Only(A) PROVE duq' \in Seq(B) /\ pipe' \in Seq(B)
    BY <1>2, <1>3, <1>8, <2>2 DEF Only
  <2>3. trunked_state = "CC" => duq' \in Seq(Blocks') /\ pipe' \in Seq(Blocks')
    BY <1>1, <2>2 DEF IInv, Queues
  <2>4. trunked_state = "TO_VC" =>
          /\ duq' \in Seq(Blocks' \cup VoiceOn(tuned)) /\ pipe' \in Seq(Blocks' \cup VoiceOn(tuned))
          /\ Closed(VoiceOn(tuned), duq, pipe)
    <3>1. Blocks \cup VoiceOn(tuned) \subseteq Blocks' \cup VoiceOn(tuned)
      BY <1>1
    <3> QED BY <3>1, <2>2 DEF IInv, Queues
  <2> QED BY <1>2, <1>6, <1>7, <1>8, <2>1, <2>3, <2>4 DEF IInv, Queues, Only
<1>9. ASSUME NEW u \in IF tuned = CcFreq THEN Blocks' ELSE VoiceOn(tuned), pipe' = Append(pipe, u)
      PROVE  Types' /\ Queues' /\ TunedAsGranted'
  <2>1. u \in New /\ (u \in Blocks' \/ u \in VoiceOn(tuned))
    BY <1>5 DEF New
  <2>2. ASSUME NEW A, NEW B, A \subseteq B, Only(A), u \in B
        PROVE  duq' \in Seq(B) /\ pipe' \in Seq(B)
    BY <1>2, <1>3, <1>9, <2>2, AppendProperties DEF Only
  <2>3. Types'
    BY <1>2, <1>4, <1>9, <2>1, AppendProperties DEF IInv, Types, New
  <2>4. trunked_state = "CC" => duq' \in Seq(Blocks') /\ pipe' \in Seq(Blocks')
    <3> SUFFICES ASSUME trunked_state = "CC" PROVE duq' \in Seq(Blocks') /\ pipe' \in Seq(Blocks')
      OBVIOUS
    <3>1. tuned = CcFreq /\ Only(Blocks)
      BY DEF IInv, TunedAsGranted, Queues
    <3> QED BY <1>1, <2>2, <3>1
  <2>5. trunked_state = "TO_VC" =>
          /\ duq' \in Seq(Blocks' \cup VoiceOn(tuned)) /\ pipe' \in Seq(Blocks' \cup VoiceOn(tuned))
          /\ Closed(VoiceOn(tuned), duq, pipe')
    <3> SUFFICES ASSUME trunked_state = "TO_VC"
                 PROVE  /\ duq' \in Seq(Blocks' \cup VoiceOn(tuned))
                        /\ pipe' \in Seq(Blocks' \cup VoiceOn(tuned))
                        /\ Closed(VoiceOn(tuned), duq, pipe')
      OBVIOUS
    <3>1. Only(Blocks \cup VoiceOn(tuned)) /\ Closed(VoiceOn(tuned), duq, pipe)
      BY DEF IInv, Queues
    <3>2. Blocks \cup VoiceOn(tuned) \subseteq Blocks' \cup VoiceOn(tuned)
      BY <1>1
    <3>3. duq' \in Seq(Blocks' \cup VoiceOn(tuned)) /\ pipe' \in Seq(Blocks' \cup VoiceOn(tuned))
      BY <2>1, <2>2, <3>1, <3>2
    <3>4. CASE tuned = CcFreq
      <4>1. VoiceOn(tuned) = {}
        BY <3>4, UnitFacts
      <4> QED BY <1>2, <3>3, <4>1, ClosedVacuous
    <3>5. CASE tuned # CcFreq
      <4>1. u \in New \cap VoiceOn(tuned)
        BY <2>1, <3>5
      <4> QED BY <1>4, <1>9, <3>1, <3>3, <4>1, ClosedAppend
    <3> QED BY <3>4, <3>5
  <2>6. trunked_state = "VC" => duq' \in Seq(VoiceOn(tuned)) /\ pipe' \in Seq(VoiceOn(tuned))
    <3> SUFFICES ASSUME trunked_state = "VC"
                 PROVE  duq' \in Seq(VoiceOn(tuned)) /\ pipe' \in Seq(VoiceOn(tuned))
      OBVIOUS
    <3>1. Only(VoiceOn(tuned))
      BY DEF IInv, Queues
    <3>2. tuned # CcFreq
      BY DEF IInv, Queues
    <3> QED BY <2>2, <3>1, <3>2
  <2>7. trunked_state = "TO_CC" =>
          IF tuned = CcFreq THEN Closed(Blocks', duq, pipe')
          ELSE duq' \in Seq(VoiceOn(tuned)) /\ pipe' \in Seq(VoiceOn(tuned))
    <3>1. CASE trunked_state = "TO_CC" /\ tuned = CcFreq
      <4>1. u \in New \cap Blocks'
        BY <2>1, <3>1
      <4> QED BY <1>4, <1>7, <1>9, <3>1, <4>1, ClosedAppend
    <3>2. CASE trunked_state = "TO_CC" /\ tuned # CcFreq
      <4>1. Only(VoiceOn(tuned))
        BY <3>2 DEF IInv, Queues
      <4> QED BY <2>2, <3>2, <4>1
    <3> QED BY <3>1, <3>2
  <2> QED BY <1>2, <1>6, <2>3, <2>4, <2>5, <2>6, <2>7 DEF IInv, Queues, Only
<1> QED BY <1>8, <1>9

LEMMA ComingKept ==
    ASSUME NEW A, NEW q \in Seq(A), NEW u
    PROVE  Coming(q) \/ u.type \in Terminators => Coming(Append(q, u))
<1>1. /\ Len(Append(q, u)) = Len(q) + 1 /\ Append(q, u)[Len(q) + 1] = u
      /\ \A i \in 1..Len(q) : Append(q, u)[i] = q[i]
  OBVIOUS
<1>2. Len(q) \in Nat
  BY LenProperties
<1>3. Coming(q) => Coming(Append(q, u))
  BY <1>1, <1>2 DEF Coming
<1>4. Len(q) + 1 \in 1..Len(Append(q, u))
  BY <1>1, <1>2
<1>5. u.type \in Terminators => Coming(Append(q, u))
  BY <1>1, <1>4 DEF Coming
<1> QED BY <1>3, <1>5

LEMMA ComingTail ==
    ASSUME NEW A, NEW q \in Seq(A), q # << >>, Coming(q)
    PROVE  Head(q).type \in Terminators \/ Coming(Tail(q))
<1>1. /\ Head(q) = q[1] /\ Len(q) = Len(Tail(q)) + 1
      /\ Len(Tail(q)) \in Nat /\ \A i \in 1..Len(Tail(q)) : Tail(q)[i] = q[i + 1]
  BY HeadTailProperties, LenProperties
<1>2. PICK i \in 1..Len(q) : q[i].type \in Terminators
  BY DEF Coming
<1>3. CASE i = 1
  BY <1>1, <1>2, <1>3
<1>4. CASE i # 1
  <2>1. i - 1 \in 1..Len(Tail(q)) /\ (i - 1) + 1 = i
    BY <1>1, <1>4
  <2> QED BY <1>1, <1>2, <2>1 DEF Coming
<1> QED BY <1>3, <1>4

LEMMA StillExcused ==
    ASSUME IInv, UNCHANGED <<duq, receiver>>,
           pipe' = pipe \/ \E u : pipe' = Append(pipe, u),
           excuse' = "none" => excuse = "none" /\ (tuned \in Active => tuned \in Active' \/ Coming(pipe'))
    PROVE  Excused'
<1>1. Coming(pipe) => Coming(pipe')
  BY ComingKept DEF IInv, Types
<1>2. /\ duq' = duq /\ tuned' = tuned /\ trunked_state' = trunked_state
      /\ Coming(duq)' = Coming(duq) /\ Coming(pipe)' = Coming(pipe')
  BY DEF receiver, Coming
<1>3. Excused
  BY DEF IInv
<1> QED BY <1>1, <1>2, <1>3 DEF Excused

LEMMA BroadcastStep == ASSUME IInv, Broadcast PROVE IInv'
<1>1. ASSUME NEW op \in Ops', Send(Tsbk(op)), granted \subseteq granted',
             granted' \subseteq ChannelIds, UNCHANGED <<calls, duq, receiver>>
      PROVE  IInv'
  <2>1. Tsbk(op) \in Blocks' /\ Tsbk(op).on = CcFreq /\ Tsbk(op).type \notin Terminators
    BY <1>1 DEF Blocks, Tsbk, TSBK, Terminators, TDU, TDULC
  <2>2. \/ pipe' = pipe
        \/ tuned = CcFreq /\ pipe' = Append(pipe, Tsbk(op))
    BY <1>1, <2>1 DEF Send
  <2>3. excuse' = excuse
    BY <1>1, <2>1 DEF Send
  <2>4. calls' \subseteq ChannelIds /\ Active' = Active
    BY <1>1 DEF IInv, Types, Active
  <2>5. Types' /\ Queues' /\ TunedAsGranted'
    BY <1>1, <2>1, <2>2, <2>4, Receives
  <2>6. Excused'
    BY <1>1, <2>2, <2>3, <2>4, StillExcused
  <2> QED BY <2>5, <2>6 DEF IInv
<1>2. CASE /\ \E op \in {Iden(id) : id \in DOMAIN Plan} \cup {Status} : Send(Tsbk(op))
           /\ UNCHANGED <<calls, duq, receiver, granted>>
  <2>1. granted' = granted /\ granted \subseteq ChannelIds
    BY <1>2 DEF IInv, Types
  <2> QED BY <1>1, <1>2, <2>1 DEF Ops
<1>3. ASSUME NEW ch \in calls, Send(Tsbk(Grant(ch))), granted' = granted \cup {ch},
             UNCHANGED <<calls, duq, receiver>>
      PROVE  IInv'
  <2>1. granted' \subseteq ChannelIds /\ granted \subseteq granted'
    BY <1>3 DEF IInv, Types
  <2>2. Grant(ch) \in Ops'
    BY <1>3 DEF Ops
  <2> QED BY <1>1, <1>3, <2>1, <2>2
<1> QED BY <1>2, <1>3 DEF Broadcast

LEMMA StartCallStep == ASSUME IInv, StartCall PROVE IInv'
<1>1. UNCHANGED <<duq, receiver>> /\ pipe' = pipe /\ granted' = granted /\ excuse' = excuse
  BY DEF StartCall
<1>2. calls' \subseteq ChannelIds /\ granted' \subseteq ChannelIds /\ calls \subseteq calls'
  BY <1>1 DEF StartCall, IInv, Types
<1>3. Types' /\ Queues' /\ TunedAsGranted'
  BY <1>1, <1>2, Receives
<1>4. Active \subseteq Active'
  BY <1>2 DEF Active
<1>5. Excused'
  BY <1>1, <1>4, StillExcused
<1> QED BY <1>3, <1>5 DEF IInv

\* A unit of the call on ch.
LEMMA VoiceUnit ==
    ASSUME IInv, NEW ch \in calls, NEW t \in {LDU} \cup Terminators
    PROVE  LET u == [type |-> t, on |-> SiteFreq(ch)]
           IN  u.type = t /\ u.on = SiteFreq(ch) /\ u \in VoiceOn(SiteFreq(ch)) /\ SiteFreq(ch) # CcFreq
<1>1. ch \in ChannelIds
  BY DEF IInv, Types
<1>2. SiteFreq(ch) \in Freqs \ {CcFreq}
  BY <1>1, TrunkAssumption DEF Freqs
<1> QED BY <1>2 DEF VoiceOn, Voice

LEMMA TalkStep == ASSUME IInv, Talk PROVE IInv'
<1>1. PICK ch \in calls : Send([type |-> LDU, on |-> SiteFreq(ch)])
  BY DEF Talk
<1> DEFINE u == [type |-> LDU, on |-> SiteFreq(ch)]
<1>2. UNCHANGED <<calls, duq, receiver, granted>>
  BY DEF Talk
<1>3. u.type = LDU /\ u.on = SiteFreq(ch) /\ u \in VoiceOn(SiteFreq(ch)) /\ SiteFreq(ch) # CcFreq
  BY VoiceUnit
<1>4. /\ pipe' = pipe \/ (tuned = SiteFreq(ch) /\ pipe' = Append(pipe, u))
      /\ excuse' = excuse
  BY <1>1, <1>3 DEF Send, LDU, Terminators, TDU, TDULC
<1> HIDE DEF u
<1>5. calls' \subseteq ChannelIds /\ granted' = granted /\ granted \subseteq ChannelIds /\ Active' = Active
  BY <1>2 DEF IInv, Types, Active
<1>6. Types' /\ Queues' /\ TunedAsGranted'
  BY <1>2, <1>3, <1>4, <1>5, Receives
<1>7. Excused'
  BY <1>2, <1>4, <1>5, StillExcused
<1> QED BY <1>6, <1>7 DEF IInv

LEMMA EndCallStep == ASSUME IInv, EndCall PROVE IInv'
<1>1. PICK ch \in calls, t \in Terminators :
         Send([type |-> t, on |-> SiteFreq(ch)]) /\ calls' = calls \ {ch}
  BY DEF EndCall
<1> DEFINE u == [type |-> t, on |-> SiteFreq(ch)]
<1>2. UNCHANGED <<duq, receiver, granted>>
  BY DEF EndCall
<1>3. u.type = t /\ u.on = SiteFreq(ch) /\ u \in VoiceOn(SiteFreq(ch)) /\ SiteFreq(ch) # CcFreq
  BY VoiceUnit
<1>4. \/ tuned # SiteFreq(ch) /\ pipe' = pipe /\ excuse' = excuse
      \/ tuned = SiteFreq(ch) /\ pipe' = Append(pipe, u) /\ excuse' = excuse
      \/ tuned = SiteFreq(ch) /\ pipe' = pipe /\ excuse' = "terminator lost"
  BY <1>1, <1>3 DEF Send
<1> HIDE DEF u
<1>5. calls' \subseteq ChannelIds /\ granted' = granted /\ granted \subseteq ChannelIds
  BY <1>1, <1>2 DEF IInv, Types
<1>6. Types' /\ Queues' /\ TunedAsGranted'
  BY <1>2, <1>3, <1>4, <1>5, Receives
<1>7. tuned # SiteFreq(ch) /\ tuned \in Active => tuned \in Active'
  BY <1>1 DEF Active
<1>8. pipe' = Append(pipe, u) => Coming(pipe')
  BY <1>3, ComingKept DEF IInv, Types
<1>9. excuse' = "none" => excuse = "none" /\ (tuned \in Active => tuned \in Active' \/ Coming(pipe'))
  BY <1>4, <1>7, <1>8
<1>10. pipe' = pipe \/ \E v : pipe' = Append(pipe, v)
  BY <1>4
<1>11. Excused'
  BY <1>2, <1>9, <1>10, StillExcused
<1> QED BY <1>6, <1>11 DEF IInv

-----------------------------------------------------------------------------
(* What the receiver does.                                                 *)

LEMMA SeqParts ==
    ASSUME NEW A, NEW q \in Seq(A), q # << >>
    PROVE  /\ Head(q) \in A /\ Tail(q) \in Seq(A)
           /\ \A u \in A : Append(q, u) \in Seq(A)
           /\ \A S : q \in Seq(S) => Head(q) \in S /\ Tail(q) \in Seq(S)
BY HeadTailProperties, AppendProperties

LEMMA AnnounceStep == ASSUME IInv, Announce PROVE IInv'
<1> DEFINE Old == Blocks \cup Voice
           u == Head(pipe)
<1>1. /\ pipe # << >> /\ duq \in Seq(Old) /\ pipe \in Seq(Old)
      /\ calls' = calls /\ granted' = granted /\ UNCHANGED receiver
      /\ pipe' = Tail(pipe)
  BY DEF Announce, IInv, Types
<1>2. /\ tuned' = tuned /\ trunked_state' = trunked_state /\ freq_table' = freq_table
      /\ Blocks' = Blocks /\ Active' = Active
  BY <1>1 DEF receiver, Blocks, Ops, Active
<1>3. \/ /\ duq' = Append(duq, u)
         /\ excuse' = excuse
      \/ /\ duq' = duq
         /\ excuse' = IF u.type \in Terminators /\ u.on = tuned
                      THEN "terminator lost" ELSE excuse
  BY DEF Announce
<1>4. \A S : Only(S) => u \in S /\ duq' \in Seq(S) /\ pipe' \in Seq(S)
  <2> SUFFICES ASSUME NEW S, Only(S) PROVE u \in S /\ duq' \in Seq(S) /\ pipe' \in Seq(S)
    OBVIOUS
  <2>1. duq \in Seq(S) /\ u \in S /\ pipe' \in Seq(S)
    BY <1>1, HeadTailProperties DEF Only
  <2>2. Append(duq, u) \in Seq(S)
    BY <2>1, AppendProperties
  <2> HIDE DEF u
  <2> QED BY <1>3, <2>1, <2>2
<1>5. \A S : Closed(S, duq, pipe) => Closed(S, duq', pipe')
  BY <1>1, <1>3, ClosedMove
<1>6. Only(Old)
  BY <1>1 DEF Only
<1>7. Types'
  BY <1>1, <1>2, <1>4, <1>6 DEF IInv, Types
<1>8. Queues'
  BY <1>2, <1>4, <1>5 DEF IInv, Queues, Only
<1>9. TunedAsGranted'
  BY <1>1, <1>2 DEF IInv, TunedAsGranted
<1>10. ASSUME trunked_state \in {"TO_VC", "VC"}, Coming(duq) \/ Coming(pipe), excuse' = "none"
       PROVE  Coming(duq') \/ Coming(pipe')
  <2>1. CASE Coming(duq)
    BY <1>1, <1>3, <2>1, ComingKept
  <2>2. CASE Coming(Tail(pipe))
    BY <1>1, <2>2
  <2>3. CASE u.type \in Terminators
    <3>1. u \in VoiceOn(tuned)
      <4>1. u.type # TSBK
        BY <2>3 DEF TSBK, Terminators, TDU, TDULC
      <4>2. Only(Blocks \cup VoiceOn(tuned)) \/ Only(VoiceOn(tuned))
        BY <1>10 DEF IInv, Queues
      <4>3. u \in Blocks \cup VoiceOn(tuned)
        BY <1>4, <4>2
      <4> HIDE DEF u
      <4> QED BY <4>1, <4>3, UnitFacts
    <3>2. u.on = tuned
      BY <3>1, UnitFacts
    <3>3. duq' = Append(duq, u)
      BY <1>3, <1>10, <2>3, <3>2
    <3> QED BY <1>1, <2>3, <3>3, ComingKept
  <2> QED BY <1>1, <1>10, <2>1, <2>2, <2>3, ComingTail
<1>11. excuse' = "none" => excuse = "none"
  BY <1>3
<1>12. Coming(duq)' = Coming(duq') /\ Coming(pipe)' = Coming(pipe')
  BY DEF Coming
<1>13. Excused'
  BY <1>2, <1>10, <1>11, <1>12 DEF IInv, Excused
<1> QED BY <1>7, <1>8, <1>9, <1>13 DEF IInv

\* freq_table holds tables of the site.
Tables == DOMAIN freq_table \subseteq DOMAIN Plan /\ \A id \in DOMAIN freq_table : freq_table[id] = Plan[id]

\* A unit that changes neither the state nor the frequency.
LEMMA Taken ==
    ASSUME IInv, Handle, Tables', UNCHANGED <<trunked_state, tuned, excuse>>,
           Head(duq).type \notin Terminators \/ trunked_state \notin {"TO_VC", "VC"}
    PROVE  IInv'
<1>1. /\ duq # << >> /\ duq' = Tail(duq) /\ pipe' = pipe /\ calls' = calls /\ granted' = granted
      /\ duq \in Seq(Blocks \cup Voice) /\ pipe \in Seq(Blocks \cup Voice)
  BY DEF Handle, IInv, Types
<1>2. Blocks' = Blocks /\ Active' = Active
  BY <1>1 DEF Blocks, Ops, Active
<1>3. \A S : Only(S) => duq' \in Seq(S) /\ pipe' \in Seq(S)
  BY <1>1, HeadTailProperties DEF Only
<1>4. \A S : Closed(S, duq, pipe) => Closed(S, duq', pipe')
  BY <1>1, ClosedTake
<1>5. Only(Blocks \cup Voice)
  BY <1>1 DEF Only
<1>6. Types'
  BY <1>1, <1>2, <1>3, <1>5 DEF IInv, Types, Tables
<1>7. Queues'
  BY <1>2, <1>3, <1>4 DEF IInv, Queues, Only
<1>8. TunedAsGranted'
  BY <1>1 DEF IInv, TunedAsGranted
<1>9. trunked_state \in {"TO_VC", "VC"} => (Coming(duq) => Coming(duq'))
  BY <1>1, ComingTail
<1>10. Coming(duq)' = Coming(duq') /\ Coming(pipe)' = Coming(pipe)
  BY <1>1 DEF Coming
<1>11. Excused'
  BY <1>2, <1>9, <1>10 DEF IInv, Excused
<1> QED BY <1>6, <1>7, <1>8, <1>11 DEF IInv

LEMMA TsbkStep == ASSUME IInv, Handle, Head(duq).type = TSBK PROVE IInv'
<1> DEFINE u == Head(duq)
           Old == Blocks \cup Voice
<1>1. /\ duq # << >> /\ duq' = Tail(duq) /\ pipe' = pipe /\ calls' = calls /\ granted' = granted
      /\ duq \in Seq(Old) /\ pipe \in Seq(Old) /\ HandleTsbk(u)
  BY DEF Handle, IInv, Types
<1>2. u \in Old /\ duq' \in Seq(Old) /\ pipe' \in Seq(Old)
  BY <1>1, SeqParts
<1> HIDE DEF u
<1>3. u \in Blocks /\ u.type = TSBK
  BY <1>2, UnitFacts DEF u
<1>4. Tables'
  <2>1. Tables
    BY DEF IInv, Types, Tables
  <2>2. CASE u.tsbk.op = "iden_up"
    <3>1. u.tsbk.iden \in DOMAIN Plan /\ freq_table' = WithTable(u.tsbk.iden)
      BY <1>1, <1>3, <2>2, UnitFacts DEF HandleTsbk
    <3> QED BY <2>1, <3>1 DEF Tables, WithTable
  <2>3. CASE u.tsbk.op # "iden_up"
    BY <1>1, <2>1, <2>3 DEF Tables, HandleTsbk
  <2> QED BY <2>2, <2>3
<1>5. u.type \notin Terminators
  BY <1>3 DEF TSBK, Terminators, TDU, TDULC
<1>6. CASE UNCHANGED <<trunked_state, tuned, excuse>>
  BY <1>4, <1>5, <1>6, Taken DEF u
<1>7. Blocks' = Blocks /\ Active' = Active
  BY <1>1 DEF Blocks, Ops, Active
<1>8. ASSUME tuned' \in Freqs, trunked_state' \in {"CC", "TO_VC"} PROVE Types'
  BY <1>1, <1>2, <1>4, <1>7, <1>8 DEF IInv, Types, Tables
<1>9. CASE trunked_state = "TO_CC"
  <2>1. trunked_state' = "CC" /\ tuned' = tuned /\ excuse' = excuse
    BY <1>1, <1>9 DEF HandleTsbk
  <2>2. tuned = CcFreq
    <3>1. CASE tuned # CcFreq
      <4>1. u \in VoiceOn(tuned)
        BY <1>1, <1>9, <3>1, SeqParts DEF IInv, Queues, Only, u
      <4> QED BY <1>3, <4>1, UnitFacts
    <3> QED BY <3>1
  <2>3. Closed(Blocks, duq, pipe)
    BY <1>9, <2>2 DEF IInv, Queues
  <2>4. duq' \in Seq(Blocks) /\ pipe' \in Seq(Blocks)
    BY <1>1, <1>3, <2>3, ClosedTake DEF u
  <2>5. Types'
    BY <1>8, <2>1 DEF IInv, Types
  <2>6. Queues'
    BY <1>7, <2>1, <2>4 DEF Queues, Only
  <2>7. TunedAsGranted' /\ Excused'
    BY <2>1, <2>2 DEF TunedAsGranted, Excused
  <2> QED BY <2>5, <2>6, <2>7 DEF IInv
<1>10. CASE /\ trunked_state = "CC"
            /\ u.tsbk.op = "grant" /\ u.tsbk.ch1.table \in DOMAIN freq_table
  <2> DEFINE ch == u.tsbk.ch1
             f == SiteFreq(ch)
  <2>1. ch \in granted /\ ch \in ChannelIds
    BY <1>3, <1>10, UnitFacts DEF IInv, Types
  <2>2. Frequency(ch) = f
    BY <1>10 DEF IInv, Types, Frequency, SiteFreq
  <2>3. f \in Freqs /\ f # CcFreq
    BY <2>1, TrunkAssumption DEF Freqs
  <2>4. trunked_state' = "TO_VC" /\ Retune(f)
    BY <1>1, <1>10, <2>2 DEF HandleTsbk, ChangeFreq
  <2>5. tuned = CcFreq
    BY <1>10 DEF IInv, TunedAsGranted
  <2> HIDE DEF f
  <2>6. \/ tuned' = f /\ (excuse' = "none" => f \in Active)
        \/ tuned' = CcFreq /\ excuse' # "none"
    BY <2>3, <2>4, <2>5 DEF Retune
  <2>7. duq' \in Seq(Blocks) /\ pipe' \in Seq(Blocks)
    BY <1>1, <1>10, SeqParts DEF IInv, Queues, Only
  <2>8. ASSUME NEW g PROVE /\ duq' \in Seq(Blocks \cup VoiceOn(g)) /\ pipe' \in Seq(Blocks \cup VoiceOn(g))
                           /\ Closed(VoiceOn(g), duq', pipe')
    <3>1. Blocks \cap VoiceOn(g) = {}
      BY UnitFacts
    <3>2. Closed(VoiceOn(g), duq', pipe')
      BY <2>7, <3>1, ClosedVacuous
    <3>3. /\ \A i \in 1..Len(duq') : duq'[i] \in Blocks \cup VoiceOn(g)
          /\ \A i \in 1..Len(pipe') : pipe'[i] \in Blocks \cup VoiceOn(g)
      BY <2>7, ElementOfSeq
    <3> QED BY <2>7, <3>2, <3>3, SeqOf
  <2>9. Types'
    <3>1. tuned' \in Freqs
      BY <2>3, <2>6 DEF Freqs
    <3> QED BY <1>8, <2>4, <3>1
  <2>10. Queues'
    <3>1. VoiceOn(tuned)' = VoiceOn(tuned')
      BY DEF VoiceOn, Voice
    <3> QED BY <1>7, <2>4, <2>8, <3>1 DEF Queues, Only
  <2>11. TunedAsGranted'
    BY <1>1, <2>1, <2>4, <2>6 DEF TunedAsGranted, f
  <2>12. Excused'
    BY <1>7, <2>4, <2>6 DEF Excused
  <2> QED BY <2>9, <2>10, <2>11, <2>12 DEF IInv
<1> QED BY <1>1, <1>6, <1>9, <1>10 DEF HandleTsbk, ChangeFreq

LEMMA VoiceStep == ASSUME IInv, Handle, Head(duq).type # TSBK PROVE IInv'
<1> DEFINE u == Head(duq)
           Old == Blocks \cup Voice
<1>1. /\ duq # << >> /\ duq' = Tail(duq) /\ pipe' = pipe /\ calls' = calls /\ granted' = granted
      /\ duq \in Seq(Old) /\ pipe \in Seq(Old) /\ HandleVoice(u)
  BY DEF Handle, IInv, Types
<1>2. duq' \in Seq(Old) /\ pipe' \in Seq(Old)
  BY <1>1, SeqParts
<1> HIDE DEF u
<1>3. freq_table' = freq_table
  BY <1>1 DEF HandleVoice
<1>4. Tables'
  BY <1>3 DEF IInv, Types, Tables
<1>5. CASE trunked_state \notin {"TO_VC", "VC"}
  <2>1. UNCHANGED <<trunked_state, tuned, excuse>>
    BY <1>1, <1>5 DEF HandleVoice
  <2> QED BY <1>4, <1>5, <2>1, Taken
<1>6. Blocks' = Blocks /\ Active' = Active /\ VoiceOn(tuned)' = VoiceOn(tuned')
  BY <1>1 DEF Blocks, Ops, Active, VoiceOn, Voice
<1>7. ASSUME trunked_state \in {"TO_VC", "VC"}
      PROVE  /\ u \in VoiceOn(tuned) /\ tuned # CcFreq
             /\ duq' \in Seq(VoiceOn(tuned)) /\ pipe' \in Seq(VoiceOn(tuned))
  <2>1. CASE trunked_state = "TO_VC"
    <3>1. Only(Blocks \cup VoiceOn(tuned)) /\ Closed(VoiceOn(tuned), duq, pipe)
      BY <2>1 DEF IInv, Queues
    <3>2. u \in Blocks \cup VoiceOn(tuned)
      BY <1>1, <3>1, SeqParts DEF Only, u
    <3>3. u \in VoiceOn(tuned)
      BY <3>2, UnitFacts DEF u
    <3>4. tuned # CcFreq
      BY <3>3, UnitFacts
    <3>5. duq' \in Seq(VoiceOn(tuned)) /\ pipe' \in Seq(VoiceOn(tuned))
      BY <1>1, <3>1, <3>3, ClosedTake DEF u
    <3> QED BY <3>3, <3>4, <3>5
  <2>2. CASE trunked_state = "VC"
    BY <1>1, <2>2, SeqParts DEF IInv, Queues, Only, u
  <2> QED BY <1>7, <2>1, <2>2
<1>8. CASE trunked_state \in {"TO_VC", "VC"} /\ EndsCall(u)
  <2>1. trunked_state' = "TO_CC" /\ Retune(CcFreq)
    BY <1>1, <1>8 DEF HandleVoice
  <2>2. \/ tuned' = CcFreq /\ excuse' = "none"
        \/ tuned' = tuned /\ excuse' = "tuning failed"
    BY <2>1 DEF Retune
  <2>3. Types'
    <3>1. tuned' \in Freqs
      BY <2>2 DEF IInv, Types, Freqs
    <3> QED BY <1>1, <1>2, <1>3, <1>6, <2>1, <3>1 DEF IInv, Types
  <2>4. Closed(Blocks, duq', pipe')
    <3>1. VoiceOn(tuned) \cap Blocks = {}
      BY UnitFacts
    <3> QED BY <1>7, <1>8, <3>1, ClosedVacuous
  <2>5. Queues'
    BY <1>6, <1>7, <1>8, <2>1, <2>2, <2>4 DEF Queues, Only
  <2>6. TunedAsGranted'
    BY <1>1, <2>1, <2>2 DEF IInv, TunedAsGranted
  <2>7. Excused'
    BY <2>1, <2>2 DEF Excused
  <2> QED BY <2>3, <2>5, <2>6, <2>7 DEF IInv
<1>9. CASE trunked_state \in {"TO_VC", "VC"} /\ ~EndsCall(u)
  <2>1. trunked_state' = "VC" /\ tuned' = tuned /\ excuse' = excuse
    BY <1>1, <1>9 DEF HandleVoice
  <2>2. Types'
    BY <1>1, <1>2, <1>3, <1>6, <2>1 DEF IInv, Types
  <2>3. Queues'
    BY <1>6, <1>7, <1>9, <2>1 DEF Queues, Only
  <2>4. TunedAsGranted'
    BY <1>1, <2>1 DEF IInv, TunedAsGranted
  <2>5. Coming(duq) => Coming(duq')
    BY <1>1, <1>9, ComingTail DEF EndsCall, u
  <2>6. Coming(duq)' = Coming(duq') /\ Coming(pipe)' = Coming(pipe)
    BY <1>1 DEF Coming
  <2>7. Excused'
    BY <1>6, <1>9, <2>1, <2>5, <2>6 DEF IInv, Excused
  <2> QED BY <2>2, <2>3, <2>4, <2>7 DEF IInv
<1> QED BY <1>5, <1>8, <1>9

-----------------------------------------------------------------------------
(* The theorems.                                                           *)

LEMMA StutterStep == ASSUME IInv, UNCHANGED vars PROVE IInv'
<1>1. /\ calls' = calls /\ pipe' = pipe /\ duq' = duq /\ granted' = granted /\ excuse' = excuse
      /\ trunked_state' = trunked_state /\ freq_table' = freq_table /\ tuned' = tuned
  BY DEF vars, receiver
<1>2. Blocks' = Blocks /\ Active' = Active
  BY <1>1 DEF Blocks, Ops, Active
<1>3. Types'
  BY <1>1, <1>2 DEF IInv, Types
<1>4. Queues'
  BY <1>1, <1>2 DEF IInv, Queues, Only
<1>5. TunedAsGranted'
  BY <1>1 DEF IInv, TunedAsGranted
<1>6. Coming(duq)' = Coming(duq) /\ Coming(pipe)' = Coming(pipe)
  BY <1>1 DEF Coming
<1>7. Excused'
  BY <1>1, <1>2, <1>6 DEF IInv, Excused
<1> QED BY <1>3, <1>4, <1>5, <1>7 DEF IInv

\* In every reachable state the queues hold what the receiver's state says
\* they hold (scope.py:652-672, trunking.py:52-114).
THEOREM Invariant == Spec => []IInv
<1>1. ASSUME IInv, [Next]_vars PROVE IInv'
  <2>1. CASE Handle
    BY <1>1, <2>1, TsbkStep, VoiceStep
  <2>2. CASE UNCHANGED vars
    BY <1>1, <2>2, StutterStep
  <2> QED BY <1>1, <2>1, <2>2, BroadcastStep, StartCallStep, TalkStep, EndCallStep,
             AnnounceStep DEF Next
<1> QED BY <1>1, InitHolds, PTL DEF Spec

\* Whatever the site's tables, the receiver is on the control channel or on the
\* frequency the site gave a channel it granted, and in state CC it is on the
\* control channel (trunking.py:52-57, 106-114, scope.py:661-663).
THEOREM OnlyWhereGranted == Spec => []TunedAsGranted
<1>1. IInv => TunedAsGranted
  BY DEF IInv
<1> QED BY <1>1, Invariant, PTL

\* With any number of calls and queues of any length, a call is left only on a
\* terminator received on its own frequency (scope.py:666-669).
THEOREM CallsEndThemselves == Spec => LeavesOnOwnTerminator
<1>1. ASSUME IInv, [Next]_vars
      PROVE  [trunked_state # "TO_CC" /\ trunked_state' = "TO_CC" =>
                 duq # << >> /\ Head(duq).on = tuned]_vars
  <2> SUFFICES ASSUME Next, trunked_state # "TO_CC", trunked_state' = "TO_CC"
               PROVE  duq # << >> /\ Head(duq).on = tuned
    BY <1>1
  <2>1. CASE Handle
    <3> DEFINE u == Head(duq)
    <3>1. duq # << >>
      BY <2>1 DEF Handle
    <3>2. ~HandleTsbk(u)
      <4> HIDE DEF u
      <4> QED BY DEF HandleTsbk, ChangeFreq
    <3>3. u.type # TSBK /\ HandleVoice(u)
      BY <2>1, <3>2 DEF Handle
    <3>4. trunked_state \in {"TO_VC", "VC"}
      <4> HIDE DEF u
      <4> QED BY <3>3 DEF HandleVoice
    <3>5. Only(Blocks \cup VoiceOn(tuned)) \/ Only(VoiceOn(tuned))
      BY <1>1, <3>4 DEF IInv, Queues
    <3>6. u \in Blocks \cup VoiceOn(tuned)
      BY <3>1, <3>5, SeqParts DEF Only
    <3>7. u.on = tuned
      BY <3>3, <3>6, UnitFacts
    <3> QED BY <3>1, <3>7
  <2>2. CASE Broadcast \/ StartCall \/ Talk \/ EndCall \/ Announce
    <3>1. trunked_state' = trunked_state
      BY <2>2 DEF Broadcast, StartCall, Talk, EndCall, Announce, receiver
    <3> QED BY <3>1
  <2> QED BY <2>1, <2>2 DEF Next
<1> QED BY <1>1, Invariant, PTL DEF Spec, LeavesOnOwnTerminator

\* The receiver waits in vain only where the call was over before it came, a
\* terminator was lost, or tuning failed (scope.py:652-672).
THEOREM StrandingExplained == Spec => []StrandedHasCause
<1>1. ASSUME IInv, Stranded PROVE excuse # "none"
  <2>1. ~Coming(<< >>)
    BY DEF Coming
  <2>2. ~Coming(duq) /\ ~Coming(pipe)
    BY <1>1, <2>1 DEF Stranded
  <2>3. trunked_state \in {"TO_VC", "VC", "TO_CC"}
    BY <1>1 DEF IInv, Types, Stranded
  <2> QED BY <1>1, <2>2, <2>3 DEF IInv, Excused, Stranded
<1> QED BY <1>1, Invariant, PTL DEF StrandedHasCause
=============================================================================
