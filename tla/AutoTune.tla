------------------------------- MODULE AutoTune -------------------------------
(***************************************************************************)
(* Automatic tuning: the loop from the demodulator's frequency tracker     *)
(* (blocks/src/lib/op25_fsk4_demod_ff.cc) over a queue of two messages to  *)
(* the watcher thread and the channel filter (python/audio_p25_rx.py), and *)
(* back through the flow graph to the demodulator.  A third thread, the    *)
(* window's, changes the channel.                                          *)
(*                                                                         *)
(* Frequencies are whole steps.  A work call lasts long enough for the     *)
(* fast loop to reach the offset of its samples, and for the slow one, a   *)
(* hundred times slower, to come some way towards it but never all the     *)
(* way.  There is no noise: offsets are the carrier's.                     *)
(***************************************************************************)
EXTENDS Integers, Sequences

CONSTANTS
    Channels,    \* the offsets an operator may choose; 0 is the first
    Errors,      \* how far a carrier may be off its channel
    Deadband,    \* COARSE_FREQUENCY_DEADBAND
    MaxDelta,    \* max_delta_hz
    QueueLimit,  \* gr.msg_queue(2)
    MaxPipe,     \* bound on the buffers between filter and demodulator
    MaxClicks, MaxDrifts,  \* bounds on what operator and carriers do
    None         \* no channel, no correction

ASSUME AutoTuneAssumption ==
    /\ 0 \in Channels /\ None \notin Channels /\ None \notin [channel : Channels, delta : Int]
    /\ Errors \subseteq Int
    /\ Deadband \in Nat \ {0} /\ MaxDelta \in Nat /\ Deadband <= MaxDelta
    /\ QueueLimit \in Nat \ {0} /\ MaxPipe \in Nat \ {0}
    /\ MaxClicks \in Nat /\ MaxDrifts \in Nat

VARIABLES
    baseband_input,  \* the input is a discriminator tap: there is no filter
    err,             \* each channel's carrier, counted from the channel
    channel_offset,  \* the channel chosen, as the window shows it
    center,          \* what the filter is set to: a channel and a correction
    pipe,            \* offsets of the samples between filter and demodulator
    coarse,          \* coarse_frequency_correction
    autotuneq,
    watcher,         \* the argument of set_center_freq the watcher holds, or None
    gui,             \* the channel the window's thread has yet to tune to, or None
    raced,           \* a click came between the watcher's reading and its tuning
    clicks, drifts   \* counted for their bounds

env == <<err, clicks, drifts>>
vars == <<baseband_input, env, channel_offset, center, pipe, coarse, autotuneq,
          watcher, gui, raced>>

-----------------------------------------------------------------------------
(* The flow graph.                                                         *)

Abs(x) == IF x < 0 THEN -x ELSE x

\* Where the carrier is in what leaves the filter.
Residual == err[center.channel] - center.delta

Filter ==
    /\ Len(pipe) < MaxPipe
    /\ pipe' = Append(pipe, Residual)
    /\ UNCHANGED <<baseband_input, env, channel_offset, center, coarse, autotuneq,
                   watcher, gui, raced>>

Between(a, b) == ((a + 1)..(b - 1)) \cup ((b + 1)..(a - 1))

\* The slow loop comes from a some way towards b.
Toward(a, b) == IF Between(a, b) = {} THEN {a} ELSE Between(a, b)

DemodWork_NoFullCheck ==
    /\ pipe # << >>
    /\ \E c \in Toward(coarse, Head(pipe)) :
          IF Abs(c) < Deadband
          THEN coarse' = c /\ autotuneq' = autotuneq
          ELSE /\ Len(autotuneq) < QueueLimit
               /\ coarse' = 0 /\ autotuneq' = Append(autotuneq, c)
    /\ pipe' = Tail(pipe)
    /\ UNCHANGED <<baseband_input, env, channel_offset, center, watcher, gui, raced>>

\* One call of general_work: the loops, then one chance to ask for a correction.
\* insert_tail would wait if the queue were full; coarse is kept for next time.
DemodWork ==
    /\ pipe # << >>
    /\ \E c \in Toward(coarse, Head(pipe)) :
          IF Len(autotuneq) = QueueLimit \/ Abs(c) < Deadband
          THEN coarse' = c /\ autotuneq' = autotuneq
          ELSE coarse' = 0 /\ autotuneq' = Append(autotuneq, c)
    /\ pipe' = Tail(pipe)
    /\ UNCHANGED <<baseband_input, env, channel_offset, center, watcher, gui, raced>>

-----------------------------------------------------------------------------
(* The watcher thread.  A receiver of a discriminator tap starts none.     *)

Clamp(x) == IF x > MaxDelta THEN MaxDelta ELSE IF x < -MaxDelta THEN -MaxDelta ELSE x

\* delete_head, and the argument channel_offset - delta_hz is worked out ...
TakeMessage ==
    /\ ~baseband_input /\ watcher = None /\ autotuneq # << >>
    /\ watcher' = [channel |-> channel_offset, delta |-> Clamp(Head(autotuneq))]
    /\ autotuneq' = Tail(autotuneq)
    /\ UNCHANGED <<baseband_input, env, channel_offset, center, pipe, coarse, gui, raced>>

AdjustChannelOffset_Adds ==
    /\ watcher # None
    /\ center' = [watcher EXCEPT !.delta = center.delta + @]
    /\ watcher' = None
    /\ raced' = (raced /\ watcher.channel # channel_offset)
    /\ UNCHANGED <<baseband_input, env, channel_offset, pipe, coarse, autotuneq, gui>>

AdjustChannelOffset_Sign ==
    /\ watcher # None
    /\ center' = [watcher EXCEPT !.delta = -@]
    /\ watcher' = None
    /\ raced' = (raced /\ watcher.channel # channel_offset)
    /\ UNCHANGED <<baseband_input, env, channel_offset, pipe, coarse, autotuneq, gui>>

\* ... and then passed to set_center_freq: the correction replaces the last one.
AdjustChannelOffset ==
    /\ watcher # None
    /\ center' = watcher
    /\ watcher' = None
    /\ raced' = (raced /\ watcher.channel # channel_offset)
    /\ UNCHANGED <<baseband_input, env, channel_offset, pipe, coarse, autotuneq, gui>>

-----------------------------------------------------------------------------
(* The operator clicks on the spectrum; carriers drift.                    *)

\* The two statements of set_channel_offset.
Click(ch) ==
    /\ ~baseband_input /\ gui = None
    /\ clicks < MaxClicks /\ clicks' = clicks + 1
    /\ channel_offset' = ch /\ gui' = ch
    /\ raced' = (watcher # None)
    /\ UNCHANGED <<baseband_input, err, drifts, center, pipe, coarse, autotuneq, watcher>>

SetChannelOffset_OnlyShown ==
    /\ gui # None /\ gui' = None
    /\ center' = [center EXCEPT !.delta = 0]
    /\ raced' = (raced /\ watcher # None)
    /\ UNCHANGED <<baseband_input, env, channel_offset, pipe, coarse, autotuneq, watcher>>

SetChannelOffset ==
    /\ gui # None /\ gui' = None
    /\ center' = [channel |-> gui, delta |-> 0]
    /\ raced' = (raced /\ watcher # None)
    /\ UNCHANGED <<baseband_input, env, channel_offset, pipe, coarse, autotuneq, watcher>>

Drift ==
    /\ drifts < MaxDrifts /\ drifts' = drifts + 1
    /\ \E ch \in Channels, e \in Errors : err' = [err EXCEPT ![ch] = e]
    /\ UNCHANGED <<baseband_input, clicks, channel_offset, center, pipe, coarse, autotuneq,
                   watcher, gui, raced>>

Init ==
    /\ baseband_input \in BOOLEAN
    /\ err \in [Channels -> Errors]
    /\ channel_offset = 0 /\ center = [channel |-> 0, delta |-> 0]
    /\ pipe = << >> /\ coarse = 0 /\ autotuneq = << >>
    /\ watcher = None /\ gui = None /\ raced = FALSE
    /\ clicks = 0 /\ drifts = 0

Next ==
    \/ Filter \/ DemodWork
    \/ TakeMessage \/ AdjustChannelOffset
    \/ \E ch \in Channels : Click(ch)
    \/ SetChannelOffset \/ Drift

\* Each thread goes on; nobody need click, and no carrier need drift.
Fairness ==
    /\ WF_vars(Filter) /\ WF_vars(DemodWork)
    /\ WF_vars(TakeMessage) /\ WF_vars(AdjustChannelOffset)
    /\ WF_vars(SetChannelOffset)

Spec == Init /\ [][Next]_vars /\ Fairness

-----------------------------------------------------------------------------
(* Properties.                                                             *)

\* The filter is on the channel the window shows, set_channel_offset
\* (audio_p25_rx.py:593-596) being under way excepted, and one race: a click
\* between the watcher's reading of channel_offset and its set_center_freq
\* (:422) leaves the filter on the channel before.  No other order does.
FilterOnChannel == center.channel # channel_offset => gui # None \/ raced

\* While the operator and the carriers keep still, a correction is never past
\* the carrier and never on its other side, though up to QueueLimit + 2 of them
\* were asked for before the first one could show in the samples; and it
\* brings the filter nearer by the deadband at least.
Towards(x, e) == IF e < 0 THEN e <= x /\ x <= 0 ELSE 0 <= x /\ x <= e
NoOvershoot ==
    clicks = 0 /\ drifts = 0 /\ center.delta # 0 =>
        Towards(center.delta, err[center.channel]) /\ Abs(center.delta) >= Deadband

\* With carriers at most twice the deadband off, tuning comes to rest with the
\* carrier inside the deadband, whatever clicks and drifts went before and
\* however stale the corrections under way when they came.
Settled == autotuneq = << >> /\ watcher = None /\ Abs(Residual) <= Deadband
Settles == baseband_input \/ <>[]Settled

\* The demodulator never stops for the queue, also when nobody reads it
\* (op25_fsk4_demod_ff.cc:235: "if the queue is full, don't block").
DemodKeepsUp == []<><<DemodWork>>_vars
=============================================================================
