------------------------------ MODULE P25Framer ------------------------------
(***************************************************************************)
(* repeater/src/lib/p25_framer.cc: one call of rx_sym per received dibit   *)
(* hunts for frame syncs all the time, collects the NID after each, and    *)
(* after a NID the BCH decoder accepts stores the frame until its length   *)
(* is reached or the next sync cuts it short.                              *)
(*                                                                         *)
(* A dibit is named by its place in the stream, 1, 2, 3, ...  Whether the  *)
(* last 24 dibits look like a sync or a reversed sync, and the DUID of an  *)
(* accepted NID, are up to the radio channel.  Sizes are in bits, as in    *)
(* the code.                                                               *)
(***************************************************************************)
EXTENDS Integers, Sequences

CONSTANTS
    FsSyms,      \* dibits of a frame sync: 24
    StatusSym,   \* the dibit of the NID that carries status: 12
    NidSyms,     \* dibits of the NID with that one: 33
    VoiceSize,   \* P25_VOICE_FRAME_SIZE: 1728
    Duids,       \* data unit identifiers
    MaxLength,   \* max_frame_lengths: bits per duid, 0 where undefined
    NoDuid,      \* the BCH decoder refused the NID
    MaxDibits    \* bound on the stream

FsBits == 2 * FsSyms
HdrBits == FsBits + 2 * (NidSyms - 1)   \* 48 + 64

ASSUME FramerAssumption ==
    /\ FsSyms \in Nat /\ FsSyms > 0
    /\ StatusSym \in Nat /\ NidSyms \in Nat /\ 0 < StatusSym /\ StatusSym < NidSyms
    /\ VoiceSize \in Nat /\ HdrBits + 2 <= VoiceSize /\ VoiceSize % 2 = 0
    /\ MaxLength \in [Duids -> 0..VoiceSize]
    /\ \A d \in Duids : MaxLength[d] % 2 = 0
    /\ NoDuid \notin Duids /\ MaxDibits \in Nat

VARIABLES
    reverse_p,         \* the polarity correction is on
    nid_syms,          \* place in the NID, 0 when none is being collected
    nid_accum,         \* the last dibits, as many as a NID holds
    next_bit,          \* where in frame_body the next bit goes, 0: no frame
    frame_size_limit,
    duid,              \* of the last accepted NID
    frame_body,        \* the dibit each bit came from, 0 at first
    frame_size,        \* bits of the frame last returned
    rc,                \* what the last call returned
    t,                 \* dibits received; names the next one
    sync,              \* the dibit at which the last sync ended
    nid,               \* the dibits of the last accepted NID
    start,             \* the sync of the frame last begun
    begun, returned,   \* frames begun, frames returned
    inverted           \* the signal arrives with its polarity reversed

framerVars == <<reverse_p, nid_syms, nid_accum, next_bit, frame_size_limit, duid,
          frame_body, frame_size, rc, t, sync, nid, start, begun, returned,
          inverted>>

-----------------------------------------------------------------------------
(* The stages of one call, in the order of the code.                       *)

\* nid_accum holds 64 bits: older dibits fall off.
Shift(d) == IF Len(nid_accum) < NidSyms - 1 THEN Append(nid_accum, d)
                                            ELSE Append(Tail(nid_accum), d)

\* The status dibit is not kept.
Accumulated_WithStatus(d) == Shift(d)
Accumulated(d) == IF nid_syms = StatusSym THEN nid_accum ELSE Shift(d)

NidComplete_OneShort == nid_syms >= NidSyms - 1
NidComplete == nid_syms >= NidSyms

\* A length that is not known, or not past the NID, is the longest there is.
Limit(d) == IF MaxLength[d] <= HdrBits THEN VoiceSize ELSE MaxLength[d]

\* nid_syms once a complete NID is dropped and the dibit counted.
CountedSyms ==
    IF NidComplete \/ nid_syms = 0 THEN 0 ELSE nid_syms + 1

Stored(body, at, d) == [body EXCEPT ![at] = d, ![at + 1] = d]

\* nid_codeword and what follows its success.
AcceptNid(bch) ==
    IF bch # NoDuid
    THEN /\ duid' = bch /\ frame_size_limit' = Limit(bch)
         /\ nid' = nid_accum' /\ start' = sync /\ begun' = begun + 1
    ELSE UNCHANGED <<duid, frame_size_limit, nid, start, begun>>

\* The frame in progress, with the dibit stored, is returned when its length
\* is reached or a sync has just ended; the sync is not part of it.
Dispose_KeepsSync(at) ==
    /\ rc' = (at > 0 /\ (at >= frame_size_limit' \/ nid_syms' > 0))
    /\ next_bit' = IF rc' THEN 0 ELSE at
    /\ frame_size' = IF rc' THEN at ELSE frame_size
    /\ returned' = IF rc' THEN returned + 1 ELSE returned
Dispose_DropsCutFrames(at) ==
    /\ rc' = (at > 0 /\ at >= frame_size_limit')
    /\ next_bit' = IF rc' \/ nid_syms' > 0 THEN 0 ELSE at
    /\ frame_size' = IF rc' THEN at ELSE frame_size
    /\ returned' = IF rc' THEN returned + 1 ELSE returned
Dispose(at) ==
    /\ rc' = (at > 0 /\ (at >= frame_size_limit' \/ nid_syms' > 0))
    /\ next_bit' = IF rc' THEN 0 ELSE at
    /\ frame_size' = IF ~rc' THEN frame_size
                     ELSE IF nid_syms' > 0 THEN at - FsBits ELSE at
    /\ returned' = IF rc' THEN returned + 1 ELSE returned

Flip(rev) == reverse_p' = (rev # reverse_p)

\* found says what the last 24 dibits look like: "sync", "reversed" or "none".
RxSym(found, bch) ==
    LET d == t + 1
        at == IF bch # NoDuid THEN HdrBits ELSE next_bit
    IN  /\ t' = d
        /\ nid_accum' = Accumulated(d)
        /\ bch # NoDuid => NidComplete
        /\ AcceptNid(bch)
        /\ nid_syms' = IF found # "none" THEN 1 ELSE CountedSyms
        /\ Flip(found = "reversed")
        /\ sync' = IF found # "none" THEN d ELSE sync
        /\ frame_body' = IF at > 0 THEN Stored(frame_body, at, d) ELSE frame_body
        /\ Dispose(IF at > 0 THEN at + 2 ELSE 0)
        /\ UNCHANGED inverted

\* With the polarity wrong a sync looks reversed, with it right it does not.
Visible(found) ==
    /\ found # "none" => t + 1 >= FsSyms
    /\ found = "sync" => reverse_p = inverted
    /\ found = "reversed" => reverse_p # inverted

RxAny ==
    /\ t < MaxDibits
    /\ \E found \in {"none", "sync", "reversed"}, bch \in Duids \cup {NoDuid} :
          Visible(found) /\ RxSym(found, bch)

\* What nid_word and frame_size hold before the first frame is never read.
Init ==
    /\ reverse_p = FALSE /\ inverted \in BOOLEAN
    /\ nid_syms = 0 /\ nid_accum = << >> /\ next_bit = 0
    /\ frame_size_limit = 0 /\ duid = NoDuid
    /\ frame_body = [i \in 0..VoiceSize - 1 |-> 0]
    /\ frame_size = 0 /\ rc = FALSE
    /\ t = 0 /\ sync = 0 /\ nid = << >> /\ start = 0 /\ begun = 0 /\ returned = 0

Next == RxAny

Spec == Init /\ [][Next]_framerVars

-----------------------------------------------------------------------------
(* Properties.                                                             *)

\* Dibits after a sync, the status dibit left out: the NID so far.
NidDibits(s, n) ==
    [i \in 1..(IF n < StatusSym THEN n ELSE n - 1) |->
        s + (IF i < StatusSym THEN i ELSE i + 1)]

LastOf(s, n) == SubSeq(s, Len(s) - n + 1, Len(s))

TypeOK ==
    /\ reverse_p \in BOOLEAN /\ inverted \in BOOLEAN /\ rc \in BOOLEAN
    /\ nid_syms \in 0..NidSyms /\ nid_accum \in Seq(Nat) /\ Len(nid_accum) < NidSyms
    /\ next_bit \in 0..VoiceSize - 1 /\ frame_size_limit \in 0..VoiceSize
    /\ duid \in Duids \cup {NoDuid}
    /\ frame_body \in [0..VoiceSize - 1 -> Nat]
    /\ frame_size \in 0..VoiceSize
    /\ t \in Nat /\ sync \in 0..t /\ start \in 0..t /\ nid \in Seq(Nat)
    /\ begun \in Nat /\ returned \in Nat

\* The place the code has counted to is the place in the stream: in the NID,
\* and in the frame, whose store never reaches past frame_body, whatever
\* lengths the table gives.  The two are never under way together.
InStep ==
    /\ nid_syms > 0 => nid_syms = t - sync + 1
    /\ next_bit > 0 =>
         /\ nid_syms = 0 /\ start = sync
         /\ next_bit = FsBits + 2 * (t - sync)
         /\ HdrBits < next_bit /\ next_bit < frame_size_limit
         /\ frame_size_limit <= VoiceSize

\* An accepted NID is made of the dibits that follow its own sync, without the
\* status dibit, however many syncs were found before.
NidOfItsSync ==
    /\ nid_syms > 1 =>
         LastOf(nid_accum, Len(NidDibits(sync, nid_syms - 1)))
           = NidDibits(sync, nid_syms - 1)
    /\ begun > 0 => nid = NidDibits(start, NidSyms)

\* Every bit of a returned frame past the header is the one at its place in
\* the stream, counted from the frame's sync: nothing is left of an earlier
\* frame, and the sync that cuts a frame short is not in it.
FrameIsFresh ==
    rc => /\ \A i \in HdrBits..frame_size - 1 :
                frame_body[i] = start - FsSyms + 1 + i \div 2
          /\ frame_size = 2 * (FsSyms + (IF sync > start THEN t - FsSyms ELSE t) - start)

\* A frame once begun is returned, also when a sync cuts it short.
NoFrameLost == begun = returned + (IF next_bit > 0 THEN 1 ELSE 0)
=============================================================================
