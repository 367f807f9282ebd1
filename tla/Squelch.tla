------------------------------- MODULE Squelch -------------------------------
(***************************************************************************)
(* repeater_squelch_base_ff and the CTCSS squelch built on it: a tone      *)
(* detector that answers once every d_len samples, and an envelope that    *)
(* opens and closes over d_ramp samples; with a d_ramp of 0, which is what *)
(* usrp_rx.py asks for, it opens and closes at once.  set_ramp is called   *)
(* by Python while the flow graph runs.                                    *)
(***************************************************************************)
EXTENDS Integers

CONSTANTS
    MaxRamp, \* the longest ramp in use
    Ramps,   \* the values the block is made with and set_ramp is called with
    DetectorLen, \* d_len, samples per answer of the detector
    MaxHeld, \* bound of the counter of samples since the detector last changed
    MaxBeyond \* bound of how far outside 0..MaxRamp d_ramped is followed

ASSUME SquelchAssumption ==
    /\ MaxRamp \in Nat /\ Ramps \subseteq 0..MaxRamp
    /\ DetectorLen \in Nat \ {0} /\ MaxHeld \in Nat /\ MaxBeyond \in Nat

VARIABLES
    d_state, d_ramp, d_ramped,
    d_envelope, \* of the cosine only: "zero", "part", "one", "nan"
    d_mute,     \* the tone detector's last answer
    count,      \* samples in the detector so far
    held,       \* samples the answer has stood, up to MaxHeld
    switched    \* how set_ramp turned a ramp on or off so far

squelchVars == <<d_state, d_ramp, d_ramped, d_envelope, d_mute, count, held, switched>>

\* 0.5 - cos(pi * n / r) / 2; a division by zero ends in not-a-number.
Cosine(n, r) ==
    CASE r = 0 -> "nan"
      [] r # 0 /\ n % (2 * r) = 0 -> "zero"
      [] r # 0 /\ n % (2 * r) = r -> "one"
      [] OTHER -> "part"

SquelchInit ==
    /\ d_ramp \in Ramps
    /\ d_state = "MUTED" /\ d_ramped = 0
    /\ d_envelope = IF d_ramp # 0 THEN "zero" ELSE "one"
    /\ d_mute = TRUE /\ count = 0 /\ held = 0 /\ switched = {}

\* update_state: the tone is compared with its neighbours every DetectorLen samples.
Detect ==
    /\ count' = (count + 1) % DetectorLen
    /\ IF count' = 0 THEN d_mute' \in BOOLEAN ELSE d_mute' = d_mute
    /\ held' = IF d_mute' # d_mute THEN 0 ELSE IF held < MaxHeld THEN held + 1 ELSE held

\* MUTED and UNMUTED: the detector moves the state, the envelope stays.
Rest_NoFade ==
    /\ d_state \in {"MUTED", "UNMUTED"}
    /\ d_state' = IF d_mute' THEN "MUTED" ELSE "UNMUTED"
    /\ UNCHANGED <<d_ramped, d_envelope>>
Rest ==
    /\ d_state \in {"MUTED", "UNMUTED"}
    /\ d_state' = CASE d_state = "MUTED" /\ ~d_mute' -> IF d_ramp # 0 THEN "ATTACK" ELSE "UNMUTED"
                    [] d_state = "UNMUTED" /\ d_mute' -> IF d_ramp # 0 THEN "DECAY" ELSE "MUTED"
                    [] OTHER -> d_state
    /\ UNCHANGED <<d_ramped, d_envelope>>

\* ATTACK asks the detector nothing: it runs to its end.
Attack ==
    /\ d_state = "ATTACK"
    /\ d_ramped < MaxRamp + MaxBeyond
    /\ d_ramped' = d_ramped + 1
    /\ d_state' = IF d_ramped' >= d_ramp THEN "UNMUTED" ELSE "ATTACK"
    /\ d_envelope' = IF d_ramped' >= d_ramp THEN "one" ELSE Cosine(d_ramped', d_ramp)

Decay_Late ==
    /\ d_state = "DECAY"
    /\ d_ramped' = d_ramped - 1
    /\ d_state' = IF d_ramped = 0 THEN "MUTED" ELSE "DECAY"
    /\ d_envelope' = Cosine(d_ramped', d_ramp)
Decay_Early ==
    /\ d_state = "DECAY"
    /\ d_ramped' = d_ramped - 1
    /\ d_state' = IF d_ramped' <= 1 THEN "MUTED" ELSE "DECAY"
    /\ d_envelope' = Cosine(d_ramped', d_ramp)
Decay ==
    /\ d_state = "DECAY"
    /\ d_ramped > -MaxBeyond
    /\ d_ramped' = d_ramped - 1
    /\ d_state' = IF d_ramped' = 0 THEN "MUTED" ELSE "DECAY"
    /\ d_envelope' = Cosine(d_ramped', d_ramp)

\* One sample through general_work.
Sample ==
    /\ Detect
    /\ Rest \/ Attack \/ Decay
    /\ UNCHANGED <<d_ramp, switched>>

\* A history variable: a ramp turned on is "late" when the squelch is not MUTED
\* or had a ramp before.
Switches ==
    {w \in {"off", "on", "late"} :
        \/ w = "off" /\ d_ramp # 0 /\ d_ramp' = 0
        \/ w = "on" /\ d_ramp = 0 /\ d_ramp' # 0
        \/ /\ w = "late" /\ d_ramp = 0 /\ d_ramp' # 0
           /\ d_state # "MUTED" \/ "off" \in switched}

\* set_ramp stores the value and touches neither d_ramped nor d_envelope.
SetRamp ==
    /\ d_ramp' \in Ramps
    /\ switched' = switched \cup Switches
    /\ UNCHANGED <<d_state, d_ramped, d_envelope, d_mute, count, held>>

SquelchNext == Sample \/ SetRamp

SquelchSpec == SquelchInit /\ [][SquelchNext]_squelchVars

-----------------------------------------------------------------------------
(* Correctness.                                                            *)

\* "gate or zero output if ctcss tone not present"
\* (repeater_ctcss_squelch_ff.h:36): once the detector has missed the tone for
\* an attack, a decay and the sample between them, the state is MUTED, without
\* a ramp as with one, and however set_ramp lengthens, shortens or turns off
\* the ramp.  The excuse is a ramp turned on late: a squelch that opened without
\* one has nothing to count down, d_ramped passes 0 and the decay never ends; and
\* a ramp turned off left d_ramped where it was, for the next to count on from.
QuietWithoutTone ==
    "late" \notin switched =>
        (d_mute /\ held >= 2 * MaxRamp + 1 => d_state = "MUTED")

\* The other way round: the tone held that long opens the squelch, with the
\* same excuse; and fully, unless a ramp was turned off, which leaves the
\* envelope wherever it was.
OpenWithTone ==
    "late" \notin switched =>
        (~d_mute /\ held >= 2 * MaxRamp + 1 =>
            d_state = "UNMUTED" /\ ("off" \notin switched => d_envelope = "one"))

\* With a ramp that was never turned on, opening and closing fade: sound starts
\* from an envelope of zero, and stops only when the envelope is back at zero.
\* (A squelch made without a ramp rests at an envelope of one, and the first
\* sample after a ramp is turned on passes with it.)
FadesFromZero ==
    [][d_ramp # 0 /\ "on" \notin switched
         => ((d_state = "MUTED") # (d_state' = "MUTED") => d_envelope' = "zero")]_squelchVars
=============================================================================
