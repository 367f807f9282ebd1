---------------------------- MODULE SignalProofs ----------------------------
(***************************************************************************)
(* Proofs about the two control loops of a receiver's signal path, for     *)
(* every value of their constants: AutoTune, then Squelch.                 *)
(***************************************************************************)
EXTENDS AutoTune, Squelch, TLAPS

-----------------------------------------------------------------------------
(* AutoTune: which orders of the threads leave the filter off the channel  *)
(* shown, and that corrections do not overshoot while nothing moves.       *)
(*                                                                         *)
(* The invariant for the first follows the channel through the two threads *)
(* that set the filter.  The one for the second says that every number     *)
(* anywhere on the loop (in the pipe, in the coarse tracker, on the queue, *)
(* with the watcher) lies between the channel and its carrier.             *)

Tunings == [channel : Channels, delta : Int]

Typed ==
    /\ baseband_input \in BOOLEAN /\ raced \in BOOLEAN
    /\ err \in [Channels -> Errors]
    /\ channel_offset \in Channels /\ gui \in Channels \cup {None}
    /\ center \in Tunings /\ watcher \in Tunings \cup {None}
    /\ pipe \in Seq(Int) /\ coarse \in Int /\ autotuneq \in Seq(Int)
    /\ clicks \in Nat /\ drifts \in Nat

\* Who holds a channel holds the one shown, or the race has happened.
Followed ==
    /\ gui # None => gui = channel_offset
    /\ watcher # None => watcher.channel = channel_offset \/ raced
    /\ center.channel # channel_offset => gui # None \/ raced

\* The offsets between the channel and its carrier, and the corrections.
Offsets(e) == {x \in Int : Towards(x, e)}
Corrections(e) == {x \in Offsets(e) : Abs(x) >= Deadband}

Still == clicks = 0 /\ drifts = 0
OnFirst ==
    Still =>
        /\ channel_offset = 0 /\ center.channel = 0 /\ gui = None
        /\ watcher # None => watcher.channel = 0
LoopBounded ==
    Still =>
        /\ pipe \in Seq(Offsets(err[0])) /\ coarse \in Offsets(err[0])
        /\ autotuneq \in Seq(Corrections(err[0]))
        /\ watcher # None => watcher.delta \in Corrections(err[0])
        /\ center.delta \in Corrections(err[0]) \cup {0}

IInv == Typed /\ Followed /\ OnFirst /\ LoopBounded

LEMMA ClampType ==
    ASSUME NEW x \in Int
    PROVE  Clamp(x) \in Int
BY AutoTuneAssumption DEF Clamp, AutoTuneAssumption

LEMMA ClampKeeps ==
    ASSUME NEW e \in Int, NEW x \in Corrections(e)
    PROVE  Clamp(x) \in Corrections(e)
BY AutoTuneAssumption DEF Clamp, Corrections, Offsets, Towards, Abs, AutoTuneAssumption

\* The slow loop stays among the offsets it moves between.
LEMMA TowardType ==
    ASSUME NEW a \in Int, NEW b \in Int, NEW c \in Toward(a, b)
    PROVE  c \in Int
BY DEF Toward, Between

LEMMA TowardKeeps ==
    ASSUME NEW e \in Int, NEW a \in Offsets(e), NEW b \in Offsets(e), NEW c \in Toward(a, b)
    PROVE  c \in Offsets(e)
BY DEF Toward, Between, Offsets, Towards

LEMMA ErrType ==
    ASSUME Typed, NEW ch \in Channels
    PROVE  err[ch] \in Int
BY AutoTuneAssumption DEF Typed, AutoTuneAssumption

LEMMA HeadTail ==
    ASSUME NEW S, NEW s \in Seq(S), s # << >>
    PROVE  Head(s) \in S /\ Tail(s) \in Seq(S)
OBVIOUS

LEMMA InitInv ==
    ASSUME Init
    PROVE  IInv
<1>1. Typed
  <2>1. baseband_input \in BOOLEAN /\ raced \in BOOLEAN
    BY Zenon DEF Init
  <2>2. center \in Tunings /\ channel_offset \in Channels
    BY AutoTuneAssumption DEF Init, Tunings, AutoTuneAssumption
  <2>3. /\ pipe \in Seq(Int) /\ coarse \in Int /\ autotuneq \in Seq(Int)
        /\ clicks \in Nat /\ drifts \in Nat
    BY DEF Init
  <2> QED BY <2>1, <2>2, <2>3, Zenon DEF Init, Typed
<1>2. err[0] \in Int /\ 0 \in Offsets(err[0])
  BY <1>1, ErrType, AutoTuneAssumption DEF Offsets, Towards, AutoTuneAssumption
<1>3. Followed /\ OnFirst
  BY AutoTuneAssumption DEF Init, Followed, OnFirst, AutoTuneAssumption
<1>4. LoopBounded
  BY <1>2 DEF Init, LoopBounded
<1> QED BY <1>1, <1>3, <1>4 DEF IInv

\* The filter lets through what lies between the correction and the carrier.
LEMMA FilterInv ==
    ASSUME IInv, Filter
    PROVE  IInv'
<1>1. Residual \in Int /\ err[0] \in Int
  BY ErrType, AutoTuneAssumption DEF IInv, Typed, Tunings, Residual, AutoTuneAssumption
<1>2. Typed'
  BY <1>1 DEF IInv, Typed, Filter, env
<1>3. Followed' /\ OnFirst'
  BY DEF IInv, Followed, OnFirst, Still, Filter, env
<1>4. ASSUME Still PROVE Residual \in Offsets(err[0])
  <2>1. center.channel = 0 /\ center.delta \in Corrections(err[0]) \cup {0}
    BY <1>4 DEF IInv, OnFirst, LoopBounded
  <2> QED BY <1>1, <2>1 DEF Residual, Corrections, Offsets, Towards
<1>5. LoopBounded'
  BY <1>4 DEF IInv, LoopBounded, Still, Filter, env
<1> QED BY <1>2, <1>3, <1>5 DEF IInv

LEMMA DemodInv ==
    ASSUME IInv, DemodWork
    PROVE  IInv'
<1>0. PICK c \in Toward(coarse, Head(pipe)) :
         IF Len(autotuneq) = QueueLimit \/ Abs(c) < Deadband
         THEN coarse' = c /\ autotuneq' = autotuneq
         ELSE coarse' = 0 /\ autotuneq' = Append(autotuneq, c)
  BY DEF DemodWork
<1>1. /\ pipe # << >> /\ pipe' = Tail(pipe)
      /\ UNCHANGED <<baseband_input, env, channel_offset, center, watcher, gui, raced>>
  BY DEF DemodWork
<1>2. c \in Int /\ Tail(pipe) \in Seq(Int) /\ err[0] \in Int
  <2>1. Head(pipe) \in Int /\ Tail(pipe) \in Seq(Int) /\ coarse \in Int
    BY <1>1, HeadTail DEF IInv, Typed
  <2> QED BY <2>1, TowardType, ErrType, AutoTuneAssumption DEF IInv, AutoTuneAssumption
<1>3. Typed'
  <2>1. coarse' \in Int /\ autotuneq' \in Seq(Int)
    <3>1. autotuneq \in Seq(Int) /\ Append(autotuneq, c) \in Seq(Int)
      BY <1>2 DEF IInv, Typed
    <3>2. CASE Len(autotuneq) = QueueLimit \/ Abs(c) < Deadband
      BY <1>0, <1>2, <3>1, <3>2
    <3>3. CASE ~(Len(autotuneq) = QueueLimit \/ Abs(c) < Deadband)
      BY <1>0, <3>1, <3>3
    <3> QED BY <3>2, <3>3
  <2> QED BY <1>1, <1>2, <2>1 DEF IInv, Typed, env
<1>4. Followed' /\ OnFirst'
  BY <1>1 DEF IInv, Followed, OnFirst, Still, env
<1>5. ASSUME Still PROVE c \in Offsets(err[0]) /\ Tail(pipe) \in Seq(Offsets(err[0]))
  <2>1. Head(pipe) \in Offsets(err[0]) /\ Tail(pipe) \in Seq(Offsets(err[0]))
    BY <1>1, <1>5, HeadTail DEF IInv, LoopBounded
  <2> QED BY <1>2, <1>5, <2>1, TowardKeeps DEF IInv, LoopBounded
<1>6. 0 \in Offsets(err[0])
  BY <1>2 DEF Offsets, Towards
<1>7. Abs(c) < Deadband \/ Abs(c) >= Deadband
  BY <1>2, AutoTuneAssumption DEF Abs, AutoTuneAssumption
<1>8. ASSUME Still
      PROVE  coarse' \in Offsets(err[0]) /\ autotuneq' \in Seq(Corrections(err[0]))
  <2>1. autotuneq \in Seq(Corrections(err[0]))
    BY <1>8 DEF IInv, LoopBounded
  <2>2. CASE Len(autotuneq) = QueueLimit \/ Abs(c) < Deadband
    BY <1>0, <1>5, <1>8, <2>1, <2>2
  <2>3. CASE ~(Len(autotuneq) = QueueLimit \/ Abs(c) < Deadband)
    <3>1. c \in Corrections(err[0])
      BY <1>5, <1>7, <1>8, <2>3 DEF Corrections
    <3> QED BY <1>0, <1>6, <2>1, <2>3, <3>1
  <2> QED BY <2>2, <2>3
<1>9. LoopBounded'
  BY <1>1, <1>5, <1>8 DEF IInv, LoopBounded, Still, env
<1> QED BY <1>3, <1>4, <1>9 DEF IInv

LEMMA TakeInv ==
    ASSUME IInv, TakeMessage
    PROVE  IInv'
<1> DEFINE job == [channel |-> channel_offset, delta |-> Clamp(Head(autotuneq))]
<1>1. /\ autotuneq # << >> /\ watcher' = job /\ autotuneq' = Tail(autotuneq)
      /\ UNCHANGED <<baseband_input, env, channel_offset, center, pipe, coarse, gui, raced>>
  BY DEF TakeMessage
<1>2. job \in Tunings /\ Tail(autotuneq) \in Seq(Int)
  <2>1. Head(autotuneq) \in Int /\ Tail(autotuneq) \in Seq(Int)
    BY <1>1, HeadTail DEF IInv, Typed
  <2> QED BY <2>1, ClampType DEF IInv, Typed, Tunings
<1>3. Typed'
  BY <1>1, <1>2 DEF IInv, Typed, env
<1>4. Followed' /\ OnFirst'
  BY <1>1 DEF IInv, Followed, OnFirst, Still, env
<1>5. ASSUME Still
      PROVE  job.delta \in Corrections(err[0]) /\ Tail(autotuneq) \in Seq(Corrections(err[0]))
  <2>1. /\ Head(autotuneq) \in Corrections(err[0])
        /\ Tail(autotuneq) \in Seq(Corrections(err[0]))
    BY <1>1, <1>5, HeadTail DEF IInv, LoopBounded
  <2>2. err[0] \in Int
    BY ErrType, AutoTuneAssumption DEF IInv, AutoTuneAssumption
  <2> QED BY <2>1, <2>2, ClampKeeps
<1>6. LoopBounded'
  BY <1>1, <1>5 DEF IInv, LoopBounded, Still, env
<1> QED BY <1>3, <1>4, <1>6 DEF IInv

LEMMA AdjustInv ==
    ASSUME IInv, AdjustChannelOffset
    PROVE  IInv'
<1>1. /\ watcher # None /\ center' = watcher /\ watcher' = None
      /\ raced' = (raced /\ watcher.channel # channel_offset)
      /\ UNCHANGED <<baseband_input, env, channel_offset, pipe, coarse, autotuneq, gui>>
  BY DEF AdjustChannelOffset
<1>2. Typed'
  BY <1>1 DEF IInv, Typed, env
<1>3. Followed'
  BY <1>1 DEF IInv, Followed
<1>4. OnFirst'
  BY <1>1 DEF IInv, OnFirst, Still, env
<1>5. LoopBounded'
  BY <1>1 DEF IInv, LoopBounded, Still, env
<1> QED BY <1>2, <1>3, <1>4, <1>5 DEF IInv

LEMMA ClickInv ==
    ASSUME IInv, NEW ch \in Channels, Click(ch)
    PROVE  IInv'
<1>1. /\ clicks' = clicks + 1 /\ channel_offset' = ch /\ gui' = ch
      /\ raced' = (watcher # None)
      /\ UNCHANGED <<baseband_input, err, drifts, center, pipe, coarse, autotuneq, watcher>>
  BY DEF Click
<1>2. Typed'
  BY <1>1 DEF IInv, Typed
<1>3. ch # None
  BY AutoTuneAssumption DEF AutoTuneAssumption
<1>4. Followed'
  BY <1>1, <1>3 DEF Followed
<1>5. clicks' # 0
  BY <1>1 DEF IInv, Typed
<1> QED BY <1>2, <1>4, <1>5 DEF IInv, OnFirst, LoopBounded, Still

LEMMA SetInv ==
    ASSUME IInv, SetChannelOffset
    PROVE  IInv'
<1>1. /\ gui # None /\ gui' = None /\ center' = [channel |-> gui, delta |-> 0]
      /\ raced' = (raced /\ watcher # None)
      /\ UNCHANGED <<baseband_input, env, channel_offset, pipe, coarse, autotuneq, watcher>>
  BY DEF SetChannelOffset
<1>2. Typed'
  BY <1>1 DEF IInv, Typed, Tunings, env
<1>3. Followed'
  BY <1>1 DEF IInv, Followed
<1>4. OnFirst' /\ LoopBounded'
  BY <1>1 DEF IInv, OnFirst, LoopBounded, Still, env
<1> QED BY <1>2, <1>3, <1>4 DEF IInv

LEMMA DriftInv ==
    ASSUME IInv, Drift
    PROVE  IInv'
<1>1. /\ drifts' = drifts + 1
      /\ UNCHANGED <<baseband_input, clicks, channel_offset, center, pipe, coarse, autotuneq,
                     watcher, gui, raced>>
  BY DEF Drift
<1>2. err' \in [Channels -> Errors]
  BY DEF IInv, Typed, Drift
<1>3. Typed'
  BY <1>1, <1>2 DEF IInv, Typed
<1>4. drifts' # 0
  BY <1>1 DEF IInv, Typed
<1> QED BY <1>1, <1>3, <1>4 DEF IInv, Followed, OnFirst, LoopBounded, Still

LEMMA NextInv ==
    ASSUME IInv, [Next]_vars
    PROVE  IInv'
<1>1. CASE Filter
  BY <1>1, FilterInv
<1>2. CASE DemodWork
  BY <1>2, DemodInv
<1>3. CASE TakeMessage
  BY <1>3, TakeInv
<1>4. CASE AdjustChannelOffset
  BY <1>4, AdjustInv
<1>5. CASE \E ch \in Channels : Click(ch)
  BY <1>5, ClickInv
<1>6. CASE SetChannelOffset
  BY <1>6, SetInv
<1>7. CASE Drift
  BY <1>7, DriftInv
<1>8. CASE UNCHANGED vars
  BY <1>8 DEF IInv, Typed, Followed, OnFirst, LoopBounded, Still, vars, env
<1> QED BY <1>1, <1>2, <1>3, <1>4, <1>5, <1>6, <1>7, <1>8 DEF Next

\* IInv is an invariant of the loop.
THEOREM LoopInvariant == Spec => []IInv
<1>1. Init => IInv
  BY InitInv
<1>2. IInv /\ [Next]_vars => IInv'
  BY NextInv
<1> QED BY <1>1, <1>2, PTL DEF Spec

\* Only a click between the watcher's reading and its tuning leaves the filter
\* off the channel shown, however the threads interleave (audio_p25_rx.py:422).
THEOREM FilterFollowsChannel == Spec => []FilterOnChannel
<1>1. IInv => FilterOnChannel
  BY DEF IInv, Followed, FilterOnChannel
<1> QED BY <1>1, LoopInvariant, PTL

\* However long the queue and the pipe, corrections asked for before the first
\* one shows do not add up past the carrier.
THEOREM NeverOvershoots == Spec => []NoOvershoot
<1>1. IInv => NoOvershoot
  BY DEF IInv, OnFirst, LoopBounded, Still, Corrections, Offsets, NoOvershoot
<1> QED BY <1>1, LoopInvariant, PTL

-----------------------------------------------------------------------------
(* Squelch.                                                                *)
(*                                                                         *)
(* The invariant says what the position in the ramp tells of the time the  *)
(* detector's answer has stood: in ATTACK the answer cannot be older than  *)
(* the attack, in UNMUTED a missing tone is seen at the next sample, and   *)
(* in DECAY what is left of the ramp bounds what is left of the wait.      *)
(* Without a ramp MUTED and UNMUTED follow the detector at each sample.    *)

\* Each variable in its range, whatever set_ramp is given.
SquelchTyped ==
    /\ d_state \in {"MUTED", "ATTACK", "UNMUTED", "DECAY"}
    /\ d_ramp \in Ramps /\ d_ramped \in Int
    /\ d_envelope \in {"zero", "part", "one", "nan"}
    /\ d_mute \in BOOLEAN /\ count \in Nat /\ held \in Nat
    /\ switched \subseteq {"off", "on", "late"}
    /\ "late" \in switched => "on" \in switched

\* A squelch that never had a ramp.
NoRamp ==
    d_ramp = 0 /\ "off" \notin switched =>
        /\ d_ramped = 0 /\ d_envelope = "one"
        /\ d_state = IF d_mute THEN "MUTED" ELSE "UNMUTED"

\* Where in the ramp each state can be, and at what envelope it rests.
Ramped ==
    /\ d_state = "MUTED" =>
          /\ d_ramped \in 0..MaxRamp
          /\ d_ramp # 0 => d_ramped = 0
          /\ d_ramp # 0 /\ "on" \notin switched => d_envelope = "zero"
    /\ d_state = "ATTACK" => d_ramped \in 0..MaxRamp - 1
    /\ d_state = "UNMUTED" =>
          /\ d_ramped \in 0..MaxRamp
          /\ d_ramp # 0 => d_ramped # 0
          /\ "off" \notin switched => d_envelope = "one"
    /\ d_state = "DECAY" => d_ramped \in 1..MaxRamp

\* How long the tone can have been missing, and how long present.
Missing ==
    d_mute =>
        /\ d_state \in {"ATTACK", "UNMUTED"} => held < d_ramped
        /\ d_state = "DECAY" => held <= 2 * MaxRamp - d_ramped
Present ==
    ~d_mute =>
        /\ d_state = "MUTED" => held <= MaxRamp
        /\ d_state = "DECAY" => held <= MaxRamp - d_ramped
        /\ d_state = "ATTACK" => held <= MaxRamp + 1 + d_ramped

InTime == NoRamp /\ Ramped /\ Missing /\ Present

SquelchInv == SquelchTyped /\ ("late" \notin switched => InTime)

LEMMA SquelchConstTypes ==
    /\ MaxRamp \in Nat /\ DetectorLen \in Nat \ {0} /\ MaxHeld \in Nat
    /\ \A r \in Ramps : r \in 0..MaxRamp
BY SquelchAssumption DEF SquelchAssumption

LEMMA CosineType == \A n, r : Cosine(n, r) \in {"zero", "part", "one", "nan"}
BY DEF Cosine

\* At the end of a fade the cosine is at its lowest.
LEMMA CosineAtEnd == \A r \in Nat \ {0} : Cosine(0, r) = "zero"
<1> SUFFICES ASSUME NEW r \in Nat \ {0} PROVE Cosine(0, r) = "zero"
  OBVIOUS
<1>1. 0 % (2 * r) = 0
  OBVIOUS
<1> QED BY <1>1 DEF Cosine

\* The clock of the detector's answer: it grows by one or starts again.
LEMMA DetectHeld ==
    ASSUME SquelchTyped, Detect
    PROVE  /\ d_mute' \in BOOLEAN /\ count' \in Nat /\ held' \in Nat
           /\ held' = 0 \/ ((d_mute' <=> d_mute) /\ held' <= held + 1)
BY SquelchConstTypes DEF SquelchTyped, Detect

LEMMA SquelchInitInv == ASSUME SquelchInit PROVE SquelchInv
BY SquelchConstTypes DEF SquelchInit, SquelchInv, SquelchTyped, InTime, NoRamp, Ramped, Missing, Present

\* Whatever set_ramp did, a sample keeps the types.
LEMMA SampleTyped == ASSUME SquelchTyped, Sample PROVE SquelchTyped'
<1>1. d_mute' \in BOOLEAN /\ count' \in Nat /\ held' \in Nat /\ UNCHANGED <<d_ramp, switched>>
  BY DetectHeld DEF Sample
<1>2. d_ramped' \in Int /\ d_state' \in {"MUTED", "ATTACK", "UNMUTED", "DECAY"}
      /\ d_envelope' \in {"zero", "part", "one", "nan"}
  <2>1. CASE Rest
    BY <2>1 DEF Rest, SquelchTyped
  <2>2. CASE Attack
    BY <2>2, CosineType DEF Attack, SquelchTyped
  <2>3. CASE Decay
    BY <2>3, CosineType DEF Decay, SquelchTyped
  <2> QED BY <2>1, <2>2, <2>3 DEF Sample
<1> QED BY <1>1, <1>2 DEF SquelchTyped

\* What the proof of every sample needs of the ramp and of the detector.
SampleFacts ==
    /\ MaxRamp \in Nat /\ d_ramp \in 0..MaxRamp /\ d_ramp' = d_ramp /\ switched' = switched
    /\ d_mute \in BOOLEAN /\ d_mute' \in BOOLEAN /\ held \in Nat /\ held' \in Nat
    /\ held' = 0 \/ ((d_mute' <=> d_mute) /\ held' <= held + 1)

LEMMA SampleKnown == ASSUME SquelchTyped, Sample PROVE SampleFacts
BY SquelchConstTypes, DetectHeld DEF SampleFacts, SquelchTyped, Sample

LEMMA RestInTime ==
    ASSUME SampleFacts, InTime, Rest
    PROVE  InTime'
<1>1. NoRamp /\ Ramped /\ Missing /\ Present
  BY DEF InTime
<1>2. NoRamp'
  BY <1>1 DEF Rest, NoRamp, SampleFacts
<1>3. Ramped'
  BY <1>1 DEF Rest, NoRamp, Ramped, SampleFacts
<1>4. Missing'
  BY <1>1 DEF Rest, Ramped, Missing, SampleFacts
<1>5. Present'
  BY <1>1 DEF Rest, NoRamp, Ramped, Present, SampleFacts
<1> QED BY <1>2, <1>3, <1>4, <1>5 DEF InTime

LEMMA AttackInTime ==
    ASSUME SampleFacts, InTime, Attack
    PROVE  InTime'
<1>1. NoRamp /\ Ramped /\ Missing /\ Present
  BY DEF InTime
<1>2. NoRamp'
  BY <1>1 DEF Attack, NoRamp, SampleFacts
<1>3. Ramped'
  BY <1>1 DEF Attack, Ramped, SampleFacts
<1>4. Missing'
  BY <1>1 DEF Attack, Ramped, Missing, SampleFacts
<1>5. Present'
  BY <1>1 DEF Attack, Ramped, Present, SampleFacts
<1> QED BY <1>2, <1>3, <1>4, <1>5 DEF InTime

LEMMA DecayInTime ==
    ASSUME SampleFacts, InTime, Decay
    PROVE  InTime'
<1>1. NoRamp /\ Ramped /\ Missing /\ Present
  BY DEF InTime
<1>2. NoRamp'
  BY <1>1 DEF Decay, NoRamp, SampleFacts
<1>3. /\ d_state = "DECAY" /\ d_ramped \in 1..MaxRamp /\ d_ramped' = d_ramped - 1
      /\ d_state' = "MUTED" => d_ramped' = 0
      /\ d_state' = "DECAY" => d_ramped' # 0
      /\ d_state' \in {"MUTED", "DECAY"}
  BY <1>1 DEF Decay, Ramped, SampleFacts
<1>4. Ramped'
  <2>1. d_state' = "MUTED" /\ d_ramp # 0 => d_envelope' = "zero"
    BY <1>3, CosineAtEnd DEF Decay, SampleFacts
  <2> QED BY <1>3, <2>1 DEF Ramped, SampleFacts
<1>5. Missing'
  BY <1>1, <1>3 DEF Missing, SampleFacts
<1>6. Present'
  BY <1>1, <1>3 DEF Present, SampleFacts
<1> QED BY <1>2, <1>4, <1>5, <1>6 DEF InTime

\* set_ramp moves nothing but the ramp: what was in time stays so, unless the
\* ramp is turned on where d_ramped does not belong to it.
LEMMA SetRampInv == ASSUME SquelchInv, SetRamp PROVE SquelchInv'
<1>1. SquelchTyped /\ SquelchTyped'
  BY DEF SquelchInv, SquelchTyped, SetRamp, Switches
<1>2. ASSUME "late" \notin switched' PROVE InTime'
  <2>1. /\ UNCHANGED <<d_state, d_ramped, d_envelope, d_mute, count, held>>
        /\ "off" \in switched' <=> "off" \in switched \/ (d_ramp # 0 /\ d_ramp' = 0)
        /\ "on" \in switched' <=> "on" \in switched \/ (d_ramp = 0 /\ d_ramp' # 0)
        /\ d_ramp = 0 /\ d_ramp' # 0 => d_state = "MUTED" /\ "off" \notin switched
        /\ "late" \notin switched
    BY <1>2 DEF SetRamp, Switches
  <2>2. NoRamp /\ Ramped /\ Missing /\ Present
    BY <2>1 DEF SquelchInv, InTime
  <2>3. NoRamp'
    BY <2>1, <2>2 DEF NoRamp
  <2>4. Ramped'
    BY <2>1, <2>2 DEF NoRamp, Ramped
  <2>5. Missing' /\ Present'
    BY <2>1, <2>2 DEF Missing, Present
  <2> QED BY <2>3, <2>4, <2>5 DEF InTime
<1> QED BY <1>1, <1>2 DEF SquelchInv

LEMMA SquelchNextInv ==
    ASSUME SquelchInv, [SquelchNext]_squelchVars
    PROVE  SquelchInv'
<1>1. CASE Sample
  <2>1. SquelchTyped' /\ SampleFacts
    BY <1>1, SampleTyped, SampleKnown DEF SquelchInv
  <2>2. ASSUME "late" \notin switched' PROVE InTime'
    <3>1. InTime
      BY <2>1, <2>2 DEF SquelchInv, SampleFacts
    <3> QED BY <1>1, <2>1, <3>1, RestInTime, AttackInTime, DecayInTime DEF Sample
  <2> QED BY <2>1, <2>2 DEF SquelchInv
<1>2. CASE SetRamp
  BY <1>2, SetRampInv
<1>3. CASE UNCHANGED squelchVars
  BY <1>3 DEF squelchVars, SquelchInv, SquelchTyped, InTime, NoRamp, Ramped, Missing, Present
<1> QED BY <1>1, <1>2, <1>3 DEF SquelchNext

-----------------------------------------------------------------------------
(* Theorems.                                                               *)

LEMMA SquelchInvariance == SquelchSpec => []SquelchInv
<1>1. SquelchInit => SquelchInv
  BY SquelchInitInv
<1>2. SquelchInv /\ [SquelchNext]_squelchVars => SquelchInv'
  BY SquelchNextInv
<1> QED BY <1>1, <1>2, PTL DEF SquelchSpec

\* "gate or zero output if ctcss tone not present": without a ramp, with one,
\* and while set_ramp lengthens, shortens or turns off the ramp between any two
\* samples, the squelch is MUTED once the tone has been missing for two of the
\* longest ramps and a sample; only a ramp turned on late excuses it.
THEOREM Quiet == SquelchSpec => []QuietWithoutTone
<1>1. SquelchInv => QuietWithoutTone
  BY SquelchConstTypes DEF SquelchInv, SquelchTyped, InTime, Ramped, Missing, QuietWithoutTone
<1> QED BY <1>1, SquelchInvariance, PTL

\* The squelch is open once the tone has been there that long, and fully
\* unless a ramp was turned off.
THEOREM Open == SquelchSpec => []OpenWithTone
<1>1. SquelchInv => OpenWithTone
  BY SquelchConstTypes DEF SquelchInv, SquelchTyped, InTime, Ramped, Present, OpenWithTone
<1> QED BY <1>1, SquelchInvariance, PTL

\* With a ramp that was never turned on, the squelch starts to pass sound, and
\* stops, at an envelope of zero only.
THEOREM Fades == SquelchSpec => FadesFromZero
<1> DEFINE Fade == d_ramp # 0 /\ "on" \notin switched
                     => ((d_state = "MUTED") # (d_state' = "MUTED") => d_envelope' = "zero")
<1>1. ASSUME SquelchInv, SquelchNext PROVE Fade
  <2> SUFFICES ASSUME d_ramp # 0, "on" \notin switched
               PROVE  (d_state = "MUTED") # (d_state' = "MUTED") => d_envelope' = "zero"
    OBVIOUS
  <2>0. Ramped /\ d_ramp \in Nat \ {0} /\ d_state \in {"MUTED", "ATTACK", "UNMUTED", "DECAY"}
    BY <1>1, SquelchConstTypes DEF SquelchInv, SquelchTyped, InTime
  <2>1. CASE Rest
    BY <2>0, <2>1 DEF Rest, Ramped
  <2>2. CASE Attack
    BY <2>2 DEF Attack
  <2>3. CASE Decay
    BY <2>0, <2>3, CosineAtEnd DEF Decay, Ramped
  <2>4. CASE SetRamp
    BY <2>4 DEF SetRamp
  <2> QED BY <1>1, <2>1, <2>2, <2>3, <2>4 DEF SquelchNext, Sample
<1>2. SquelchInv /\ [SquelchNext]_squelchVars => [Fade]_squelchVars
  BY <1>1
<1> QED BY <1>2, SquelchInvariance, PTL DEF SquelchSpec, FadesFromZero
=============================================================================
