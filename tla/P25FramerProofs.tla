--------------------------- MODULE P25FramerProofs ---------------------------
(***************************************************************************)
(* P25Framer inside P25FrameAssembler, for every sync and NID length,      *)
(* every table of frame lengths and every stream: where the counters are,  *)
(* what a returned frame is made of, and that no frame is lost.            *)
(*                                                                         *)
(* All rests on one fact, InStep: the places counted by the code are the   *)
(* places in the stream, and a NID and a frame are never under way at the  *)
(* same time, so accepting a NID never overwrites a frame.                 *)
(*                                                                         *)
(* For the messages it gives that a frame is begun at a later sync than    *)
(* any frame announced before; MInv follows them from the frame through    *)
(* the queue to its reader.                                                *)
(***************************************************************************)
EXTENDS P25FrameAssembler, SequenceTheorems, TLAPS

\* The bits stored so far belong to the frame under way.
BodyFresh ==
    next_bit > 0 =>
        \A i \in HdrBits..next_bit - 1 : frame_body[i] = start - FsSyms + 1 + i \div 2

\* NidOfItsSync, dibit by dibit: the NID so far is the end of nid_accum.
Kept(n) == IF n < StatusSym THEN n ELSE n - 1
NidDibit(s, i) == s + (IF i < StatusSym THEN i ELSE i + 1)
EndsWith(accum, s, m) ==
    m <= Len(accum) /\ \A i \in 1..m : accum[Len(accum) - m + i] = NidDibit(s, i)
Collected ==
    /\ nid_syms > 1 => EndsWith(nid_accum, sync, Kept(nid_syms - 1))
    /\ begun > 0 => nid = NidDibits(start, NidSyms)

IInv == TypeOK /\ InStep /\ NoFrameLost /\ BodyFresh /\ FrameIsFresh /\ Collected

LEMMA Sizes ==
    /\ FsSyms \in Nat /\ StatusSym \in Nat /\ NidSyms \in Nat /\ VoiceSize \in Nat
    /\ FsSyms > 0 /\ StatusSym > 0 /\ NidSyms >= 2
    /\ FsBits = 2 * FsSyms /\ HdrBits = FsBits + 2 * (NidSyms - 1)
    /\ FsBits \in Nat /\ HdrBits \in Nat /\ HdrBits >= FsBits + 2
    /\ HdrBits + 2 <= VoiceSize /\ NoDuid \notin Duids
BY FramerAssumption DEF FramerAssumption, FsBits, HdrBits

\* There is room for one more dibit wherever there is room for half of one.
LEMMA Even == ASSUME NEW k \in Int, 2 * k < VoiceSize PROVE 2 * k + 2 <= VoiceSize
<1>1. VoiceSize \in Nat /\ VoiceSize % 2 = 0
  BY FramerAssumption DEF FramerAssumption
<1>2. PICK v \in Int : VoiceSize = 2 * v
  BY <1>1
<1>3. k < v
  BY <1>2
<1> QED BY <1>2, <1>3

\* Whatever max_frame_lengths says, the limit is past the header and in frame_body.
LEMMA Limits ==
    ASSUME NEW d \in Duids
    PROVE  Limit(d) \in Nat /\ HdrBits < Limit(d) /\ Limit(d) <= VoiceSize
<1>1. MaxLength[d] \in 0..VoiceSize
  BY FramerAssumption DEF FramerAssumption
<1> QED BY <1>1, Sizes DEF Limit

-----------------------------------------------------------------------------
(* One call of rx_sym.                                                     *)

At(bch) == IF bch # NoDuid THEN HdrBits ELSE next_bit

\* The dibit stored, if one is, is stored at its place in the frame.
LEMMA Place ==
    ASSUME IInv, NEW found, NEW bch \in Duids \cup {NoDuid}, RxSym(found, bch), At(bch) > 0
    PROVE  /\ At(bch) \in Nat /\ At(bch) = FsBits + 2 * (t - sync)
           /\ start' = sync /\ HdrBits <= At(bch) /\ At(bch) + 2 <= VoiceSize
           /\ frame_size_limit' \in Nat /\ frame_size_limit' <= VoiceSize
           /\ (found = "none" => nid_syms' = 0)
<1>1. /\ nid_syms \in 0..NidSyms /\ t \in Nat /\ sync \in 0..t /\ next_bit \in 0..VoiceSize - 1
      /\ frame_size_limit \in 0..VoiceSize /\ InStep
  BY DEF IInv, TypeOK
<1>2. CASE bch # NoDuid
  <2>1. nid_syms = NidSyms
    BY <1>1, <1>2, Sizes DEF RxSym, NidComplete
  <2>2. t - sync = NidSyms - 1
    BY <1>1, <2>1, Sizes DEF InStep
  <2>3. At(bch) = HdrBits /\ start' = sync /\ frame_size_limit' = Limit(bch)
    BY <1>2 DEF At, RxSym, AcceptNid
  <2>4. found = "none" => nid_syms' = 0
    BY <2>1, Sizes DEF RxSym, CountedSyms, NidComplete
  <2> QED BY <1>2, <2>2, <2>3, <2>4, Sizes, Limits
<1>3. CASE bch = NoDuid
  <2>1. At(bch) = next_bit /\ UNCHANGED <<start, frame_size_limit>>
    BY <1>3 DEF At, RxSym, AcceptNid
  <2>2. /\ nid_syms = 0 /\ start = sync /\ next_bit = FsBits + 2 * (t - sync)
        /\ HdrBits < next_bit /\ next_bit < frame_size_limit
    BY <1>1, <2>1 DEF InStep
  <2>3. next_bit = 2 * (FsSyms + t - sync) /\ FsSyms + t - sync \in Int
    BY <1>1, <2>2, Sizes
  <2>4. next_bit < VoiceSize
    BY <1>1, Sizes
  <2>5. next_bit + 2 <= VoiceSize
    BY <2>3, <2>4, Even
  <2>6. found = "none" => nid_syms' = 0
    BY <2>2 DEF RxSym, CountedSyms
  <2> QED BY <1>1, <2>1, <2>2, <2>5, <2>6, Sizes
<1> QED BY <1>2, <1>3

\* What Dispose leaves.
LEMMA Disposed ==
    ASSUME IInv, NEW found, NEW bch \in Duids \cup {NoDuid}, RxSym(found, bch)
    PROVE  /\ At(bch) = 0 => ~rc' /\ next_bit' = 0 /\ UNCHANGED <<frame_size, returned, frame_body>>
           /\ At(bch) > 0 =>
                /\ frame_body' = Stored(frame_body, At(bch), t + 1)
                /\ rc' <=> At(bch) + 2 >= frame_size_limit' \/ nid_syms' > 0
                /\ next_bit' = IF rc' THEN 0 ELSE At(bch) + 2
                /\ frame_size' = IF ~rc' THEN frame_size
                                 ELSE IF nid_syms' > 0 THEN (At(bch) + 2) - FsBits ELSE At(bch) + 2
                /\ returned' = IF rc' THEN returned + 1 ELSE returned
           /\ At(bch) \in Nat
<1>1. next_bit \in Nat
  BY Sizes DEF IInv, TypeOK
<1>2. At(bch) \in Nat
  BY <1>1, Sizes DEF At
<1>3. CASE At(bch) = 0
  <2>1. Dispose(0) /\ UNCHANGED frame_body
    BY <1>3 DEF RxSym, At
  <2>2. ~(0 > 0) /\ ~(At(bch) > 0)
    BY <1>3
  <2>3. ~rc'
    BY <2>1, <2>2, Zenon DEF Dispose
  <2>4. next_bit' = 0 /\ frame_size' = frame_size /\ returned' = returned
    BY <2>1, <2>3, Zenon DEF Dispose
  <2> QED BY <1>2, <2>1, <2>2, <2>3, <2>4, Zenon
<1>4. CASE At(bch) > 0
  <2>1. Dispose(At(bch) + 2) /\ frame_body' = Stored(frame_body, At(bch), t + 1)
    BY <1>4 DEF RxSym, At
  <2>2. At(bch) + 2 > 0
    BY <1>2
  <2>3. rc' <=> At(bch) + 2 >= frame_size_limit' \/ nid_syms' > 0
    BY <2>1, <2>2, Zenon DEF Dispose
  <2>4. /\ next_bit' = IF rc' THEN 0 ELSE At(bch) + 2
        /\ returned' = IF rc' THEN returned + 1 ELSE returned
    BY <2>1, Zenon DEF Dispose
  <2>6. frame_size' = IF ~rc' THEN frame_size
                      ELSE IF nid_syms' > 0 THEN (At(bch) + 2) - FsBits ELSE At(bch) + 2
    BY <2>1 DEF Dispose
  <2>5. At(bch) # 0
    <3>1. ~(0 > 0)
      OBVIOUS
    <3> QED BY <1>4, <3>1, Zenon
  <2> QED BY <1>2, <1>4, <2>1, <2>3, <2>4, <2>5, <2>6, Zenon
<1> QED BY <1>2, <1>3, <1>4

LEMMA Counted ==
    ASSUME IInv, NEW found, NEW bch \in Duids \cup {NoDuid}, RxSym(found, bch)
    PROVE  /\ nid_syms' \in 0..NidSyms /\ t' = t + 1 /\ t' \in Nat /\ sync' \in 0..t'
           /\ nid_syms' > 0 => nid_syms' = t' - sync' + 1
           /\ found # "none" => nid_syms' = 1 /\ sync' = t'
           /\ found = "none" => sync' = sync
<1>1. /\ nid_syms \in 0..NidSyms /\ t \in Nat /\ sync \in 0..t
      /\ (nid_syms > 0 => nid_syms = t - sync + 1)
  BY DEF IInv, TypeOK, InStep
<1>2. t' = t + 1 /\ sync' = IF found # "none" THEN t + 1 ELSE sync
  BY DEF RxSym
<1>3. CASE found # "none"
  BY <1>1, <1>2, <1>3, Sizes DEF RxSym
<1>4. CASE found = "none"
  <2>1. nid_syms' = IF nid_syms >= NidSyms \/ nid_syms = 0 THEN 0 ELSE nid_syms + 1
    BY <1>4 DEF RxSym, CountedSyms, NidComplete
  <2> QED BY <1>1, <1>2, <1>4, <2>1, Sizes
<1> QED BY <1>3, <1>4

LEMMA InStepKept ==
    ASSUME IInv, NEW found, NEW bch \in Duids \cup {NoDuid}, RxSym(found, bch)
    PROVE  InStep'
<1>1. /\ t \in Nat /\ sync \in 0..t
  BY DEF IInv, TypeOK
<1>2. SUFFICES ASSUME next_bit' > 0
               PROVE /\ nid_syms' = 0 /\ start' = sync'
                     /\ next_bit' = FsBits + 2 * (t' - sync')
                     /\ HdrBits < next_bit' /\ next_bit' < frame_size_limit'
                     /\ frame_size_limit' <= VoiceSize
  BY Counted DEF InStep
<1>3. At(bch) > 0 /\ ~rc'
  BY <1>2, Disposed
<1>4. /\ At(bch) \in Nat /\ At(bch) = FsBits + 2 * (t - sync)
      /\ start' = sync /\ HdrBits <= At(bch)
      /\ frame_size_limit' \in Nat /\ frame_size_limit' <= VoiceSize
  BY <1>3, Place
<1>5. next_bit' = At(bch) + 2 /\ At(bch) + 2 < frame_size_limit' /\ nid_syms' = 0
  <2>1. ~(At(bch) + 2 >= frame_size_limit') /\ ~(nid_syms' > 0) /\ next_bit' = At(bch) + 2
    BY <1>3, Disposed
  <2>2. nid_syms' \in 0..NidSyms
    BY Counted
  <2> QED BY <1>4, <2>1, <2>2, Sizes
<1>6. sync' = sync /\ t' = t + 1
  BY <1>5, Counted
<1> QED BY <1>1, <1>4, <1>5, <1>6, Sizes

LEMMA TypesKept ==
    ASSUME IInv, NEW found \in {"none", "sync", "reversed"},
           NEW bch \in Duids \cup {NoDuid}, RxSym(found, bch)
    PROVE  TypeOK'
<1>1. TypeOK
  BY DEF IInv
<1>2. /\ nid_syms' \in 0..NidSyms /\ t' \in Nat /\ sync' \in 0..t' /\ t' = t + 1
  BY Counted
<1>3. /\ inverted' \in BOOLEAN /\ reverse_p' \in BOOLEAN /\ rc' \in BOOLEAN
      /\ duid' \in Duids \cup {NoDuid}
  BY <1>1 DEF TypeOK, RxSym, Flip, Dispose, AcceptNid
<1>4. nid_accum' \in Seq(Nat) /\ Len(nid_accum') < NidSyms
  <2>1. nid_accum \in Seq(Nat) /\ Len(nid_accum) \in Nat /\ Len(nid_accum) < NidSyms /\ t + 1 \in Nat
    BY <1>1 DEF TypeOK
  <2>2. CASE Len(nid_accum) < NidSyms - 1
    BY <2>1, <2>2, Sizes DEF RxSym, Accumulated, Shift
  <2>3. CASE ~(Len(nid_accum) < NidSyms - 1)
    <3>1. Len(nid_accum) = NidSyms - 1 /\ nid_accum # << >>
      BY <2>1, <2>3, Sizes
    <3>2. Tail(nid_accum) \in Seq(Nat) /\ Len(Tail(nid_accum)) = NidSyms - 2
      BY <2>1, <3>1, Sizes
    <3>3. Append(Tail(nid_accum), t + 1) \in Seq(Nat)
          /\ Len(Append(Tail(nid_accum), t + 1)) = NidSyms - 1
      BY <2>1, <3>2, Sizes
    <3>4. nid_accum' = nid_accum \/ nid_accum' = Append(Tail(nid_accum), t + 1)
      BY <2>3 DEF RxSym, Accumulated, Shift
    <3>5. CASE nid_accum' = nid_accum
      BY <2>1, <3>5
    <3>6. CASE nid_accum' = Append(Tail(nid_accum), t + 1)
      <4>1. NidSyms - 1 < NidSyms
        BY Sizes
      <4> QED BY <3>3, <3>6, <4>1
    <3> QED BY <3>4, <3>5, <3>6
  <2> QED BY <2>2, <2>3
<1>5. frame_size_limit' \in 0..VoiceSize
  BY <1>1, Limits DEF TypeOK, RxSym, AcceptNid
<1>6. /\ start' \in 0..t' /\ nid' \in Seq(Nat) /\ begun' \in Nat
  BY <1>1, <1>2, <1>4, SMTT(30) DEF TypeOK, RxSym, AcceptNid
<1>7. At(bch) > 0 => At(bch) \in Nat /\ HdrBits <= At(bch) /\ At(bch) + 2 <= VoiceSize
  BY Place
<1>8. frame_body' \in [0..VoiceSize - 1 -> Nat]
  <2>1. At(bch) \in Nat /\ t + 1 \in Nat
    BY <1>1, Disposed DEF TypeOK
  <2>2. CASE At(bch) = 0
    BY <1>1, <2>2, Disposed DEF TypeOK
  <2>3. CASE At(bch) > 0
    BY <1>1, <2>1, <2>3, Disposed DEF TypeOK, Stored
  <2> QED BY <2>1, <2>2, <2>3
<1>9. frame_size' \in 0..VoiceSize /\ returned' \in Nat /\ next_bit' \in 0..VoiceSize
  <2>1. At(bch) \in Nat /\ frame_size \in 0..VoiceSize /\ returned \in Nat
    BY <1>1, Disposed DEF TypeOK
  <2>2. CASE At(bch) = 0
    BY <2>1, <2>2, Disposed, Sizes
  <2>3. CASE At(bch) > 0
    BY <1>7, <2>1, <2>3, Disposed, Sizes
  <2> QED BY <2>1, <2>2, <2>3
<1>10. next_bit' \in 0..VoiceSize - 1
  BY <1>5, <1>9, InStepKept, Sizes DEF InStep
<1> QED BY <1>2, <1>3, <1>4, <1>5, <1>6, <1>8, <1>9, <1>10 DEF TypeOK

\* A NID is accepted only when no frame is under way.
LEMMA NoFrameLostKept ==
    ASSUME IInv, NEW found, NEW bch \in Duids \cup {NoDuid}, RxSym(found, bch)
    PROVE  NoFrameLost'
<1>1. begun \in Nat /\ returned \in Nat /\ next_bit \in Nat /\ nid_syms \in Nat
      /\ begun = returned + (IF next_bit > 0 THEN 1 ELSE 0)
  BY Sizes DEF IInv, TypeOK, NoFrameLost
<1>2. begun' = begun + (IF bch # NoDuid THEN 1 ELSE 0)
  BY <1>1 DEF RxSym, AcceptNid
<1>3. bch # NoDuid => next_bit = 0
  BY <1>1, Sizes DEF IInv, InStep, RxSym, NidComplete
<1>4. At(bch) > 0 <=> (bch # NoDuid \/ next_bit > 0)
  BY <1>1, Sizes DEF At
<1>5. begun' = returned + (IF At(bch) > 0 THEN 1 ELSE 0)
  BY <1>1, <1>2, <1>3, <1>4
<1>6. CASE At(bch) = 0
  BY <1>1, <1>5, <1>6, Disposed DEF NoFrameLost
<1>7. CASE At(bch) > 0
  <2>1. At(bch) + 2 > 0 /\ At(bch) \in Nat
    BY <1>7, Disposed
  <2> QED BY <1>1, <1>5, <1>7, <2>1, Disposed DEF NoFrameLost
<1> QED BY <1>6, <1>7, Disposed

\* The dibit at place FsSyms + t - start of the frame is dibit t + 1, both bits.
LEMMA BodyKept ==
    ASSUME IInv, NEW found, NEW bch \in Duids \cup {NoDuid}, RxSym(found, bch), At(bch) > 0
    PROVE  \A i \in HdrBits..At(bch) + 1 : frame_body'[i] = start' - FsSyms + 1 + i \div 2
<1> DEFINE k == FsSyms + (t - sync)
<1>1. /\ frame_body \in [0..VoiceSize - 1 -> Nat] /\ t \in Nat /\ sync \in Nat /\ sync <= t
      /\ FsSyms \in Nat
  BY Sizes DEF IInv, TypeOK
<1>2. /\ At(bch) \in Nat /\ At(bch) = 2 * k /\ start' = sync /\ k \in Nat
      /\ HdrBits <= At(bch) /\ At(bch) + 2 <= VoiceSize
  BY <1>1, Place, Sizes
<1>3. frame_body' = [frame_body EXCEPT ![At(bch)] = t + 1, ![At(bch) + 1] = t + 1]
  BY Disposed DEF Stored
<1>4. At(bch) \in 0..VoiceSize - 1 /\ At(bch) + 1 \in 0..VoiceSize - 1
  BY <1>2, Sizes
<1>5. At(bch) \div 2 = k /\ (At(bch) + 1) \div 2 = k
  BY <1>2
<1>6. start' - FsSyms + 1 + k = t + 1
  BY <1>1, <1>2
<1>7. frame_body'[At(bch)] = t + 1 /\ frame_body'[At(bch) + 1] = t + 1
  BY <1>1, <1>2, <1>3, <1>4
<1>8. TAKE i \in HdrBits..At(bch) + 1
<1>9. i \in Int /\ HdrBits <= i /\ (i < At(bch) \/ i = At(bch) \/ i = At(bch) + 1)
  BY <1>2, <1>8, Sizes
<1>10. CASE i < At(bch)
  <2>1. At(bch) = next_bit /\ start' = start
    <3>1. bch = NoDuid
      BY <1>9, <1>10, Sizes DEF At
    <3> QED BY <3>1 DEF At, RxSym, AcceptNid
  <2>2. frame_body[i] = start - FsSyms + 1 + i \div 2
    BY <1>2, <1>9, <1>10, <2>1, Sizes DEF IInv, BodyFresh
  <2>3. frame_body'[i] = frame_body[i]
    BY <1>1, <1>2, <1>3, <1>9, <1>10, Sizes
  <2> QED BY <2>1, <2>2, <2>3
<1>11. CASE i = At(bch) \/ i = At(bch) + 1
  BY <1>5, <1>6, <1>7, <1>11
<1> QED BY <1>9, <1>10, <1>11

LEMMA FreshKept ==
    ASSUME IInv, NEW found, NEW bch \in Duids \cup {NoDuid}, RxSym(found, bch)
    PROVE  BodyFresh' /\ FrameIsFresh'
<1>1. /\ t \in Nat /\ sync \in Nat /\ sync <= t /\ FsSyms \in Nat /\ FsSyms > 0
      /\ FsBits = 2 * FsSyms /\ HdrBits \in Nat /\ FsBits \in Nat
      /\ At(bch) \in Nat /\ nid_syms' \in Nat /\ t' = t + 1
      /\ (found # "none" => sync' = t') /\ (found = "none" => sync' = sync)
  BY Sizes, Disposed, Counted DEF IInv, TypeOK
<1>2. CASE At(bch) = 0
  BY <1>2, Disposed DEF BodyFresh, FrameIsFresh
<1>3. CASE At(bch) > 0
  <2>1. \A i \in HdrBits..At(bch) + 1 : frame_body'[i] = start' - FsSyms + 1 + i \div 2
    BY <1>3, BodyKept
  <2>2. BodyFresh'
    <3>1. SUFFICES ASSUME next_bit' > 0
                   PROVE  \A i \in HdrBits..next_bit' - 1 :
                            frame_body'[i] = start' - FsSyms + 1 + i \div 2
      BY DEF BodyFresh
    <3>2. next_bit' = At(bch) + 2
      BY <1>1, <1>3, <3>1, Disposed
    <3> QED BY <1>1, <2>1, <3>2
  <2>3. FrameIsFresh'
    <3>1. SUFFICES ASSUME rc'
                   PROVE  /\ \A i \in HdrBits..frame_size' - 1 :
                                frame_body'[i] = start' - FsSyms + 1 + i \div 2
                          /\ frame_size' = 2 * (FsSyms + (IF sync' > start' THEN t' - FsSyms ELSE t') - start')
      BY DEF FrameIsFresh
    <3>2. At(bch) = FsBits + 2 * (t - sync) /\ start' = sync /\ (found = "none" => nid_syms' = 0)
      BY <1>3, Place
    <3>3. frame_size' = IF nid_syms' > 0 THEN (At(bch) + 2) - FsBits ELSE At(bch) + 2
      BY <1>3, <3>1, Disposed
    <3>4. CASE found = "none"
      <4>1. frame_size' = At(bch) + 2 /\ sync' = sync /\ ~(sync' > start')
        BY <1>1, <3>2, <3>3, <3>4
      <4> QED BY <1>1, <2>1, <3>2, <4>1
    <3>5. CASE found # "none"
      <4>1. nid_syms' > 0 /\ sync' = t + 1 /\ sync' > start'
        BY <1>1, <3>2, <3>5, Counted
      <4>2. frame_size' = (At(bch) + 2) - FsBits
        BY <3>3, <4>1
      <4>3. \A i \in HdrBits..frame_size' - 1 : i \in HdrBits..At(bch) + 1
        BY <1>1, <4>2
      <4> QED BY <1>1, <2>1, <3>2, <4>1, <4>2, <4>3
    <3> QED BY <3>4, <3>5
  <2> QED BY <2>2, <2>3
<1> QED BY <1>1, <1>2, <1>3

\* One more dibit at the end, the oldest dropped if there are too many.
LEMMA Shifted ==
    ASSUME IInv, NEW d \in Nat
    PROVE  /\ Shift(d) \in Seq(Nat) /\ Len(Shift(d)) \in Nat /\ Len(Shift(d)) > 0
           /\ Len(nid_accum) \in Nat /\ Len(Shift(d)) <= NidSyms - 1
           /\ Shift(d)[Len(Shift(d))] = d
           /\ \/ Len(Shift(d)) = Len(nid_accum) + 1
              \/ Len(Shift(d)) = Len(nid_accum) /\ Len(Shift(d)) = NidSyms - 1
           /\ \A j \in 0..Len(Shift(d)) - 2 :
                Shift(d)[Len(Shift(d)) - 1 - j] = nid_accum[Len(nid_accum) - j]
<1>1. /\ nid_accum \in Seq(Nat) /\ Len(nid_accum) \in Nat /\ Len(nid_accum) < NidSyms
      /\ NidSyms \in Nat /\ NidSyms >= 2
  BY Sizes DEF IInv, TypeOK
<1>2. CASE Len(nid_accum) < NidSyms - 1
  <2>1. Shift(d) = Append(nid_accum, d)
    BY <1>2 DEF Shift
  <2> QED BY <1>1, <1>2, <2>1
<1>3. CASE ~(Len(nid_accum) < NidSyms - 1)
  <2>1. Shift(d) = Append(Tail(nid_accum), d) /\ Len(nid_accum) = NidSyms - 1
    BY <1>1, <1>3 DEF Shift
  <2>2. /\ Tail(nid_accum) \in Seq(Nat) /\ Len(Tail(nid_accum)) = Len(nid_accum) - 1
        /\ \A k \in 1..Len(nid_accum) - 1 : Tail(nid_accum)[k] = nid_accum[k + 1]
    BY <1>1, <2>1
  <2> QED BY <1>1, <2>1, <2>2
<1> QED BY <1>2, <1>3

\* What is collected is collected dibit by dibit; the status dibit is not.
LEMMA AccumKept ==
    ASSUME IInv, NEW found, NEW bch \in Duids \cup {NoDuid}, RxSym(found, bch), nid_syms > 0
    PROVE  EndsWith(nid_accum', sync, Kept(nid_syms))
<1>1. /\ nid_syms \in Nat /\ nid_syms <= NidSyms /\ t + 1 = sync + nid_syms /\ sync \in Nat
      /\ t + 1 \in Nat /\ StatusSym \in Nat /\ 0 < StatusSym /\ StatusSym < NidSyms
      /\ NidSyms \in Nat
  BY Sizes, FramerAssumption DEF IInv, TypeOK, InStep, FramerAssumption
<1>2. nid_accum' = IF nid_syms = StatusSym THEN nid_accum ELSE Shift(t + 1)
  BY DEF RxSym, Accumulated
<1>3. nid_syms > 1 => EndsWith(nid_accum, sync, Kept(nid_syms - 1))
  BY DEF IInv, Collected
<1>4. CASE nid_syms = StatusSym
  <2>1. Kept(nid_syms) = nid_syms - 1 /\ (nid_syms > 1 => Kept(nid_syms - 1) = nid_syms - 1)
    BY <1>1, <1>4 DEF Kept
  <2>2. CASE nid_syms > 1
    BY <1>2, <1>3, <1>4, <2>1, <2>2
  <2>3. CASE nid_syms = 1
    <3>1. Len(nid_accum) \in Nat
      BY DEF IInv, TypeOK
    <3> QED BY <1>2, <1>4, <2>1, <2>3, <3>1 DEF EndsWith
  <2> QED BY <1>1, <2>2, <2>3
<1>5. CASE nid_syms # StatusSym
  <2> DEFINE s == Shift(t + 1)
             m == Kept(nid_syms)
  <2>1. /\ m \in Nat /\ m > 0 /\ m <= NidSyms - 1 /\ NidDibit(sync, m) = t + 1
        /\ (nid_syms > 1 => Kept(nid_syms - 1) = m - 1) /\ (nid_syms = 1 => m = 1)
    BY <1>1, <1>5 DEF Kept, NidDibit
  <2>2. /\ Len(s) \in Nat /\ Len(s) > 0 /\ Len(nid_accum) \in Nat /\ Len(s) <= NidSyms - 1
        /\ s[Len(s)] = t + 1
        /\ Len(s) = Len(nid_accum) + 1 \/ (Len(s) = Len(nid_accum) /\ Len(s) = NidSyms - 1)
        /\ \A j \in 0..Len(s) - 2 : s[Len(s) - 1 - j] = nid_accum[Len(nid_accum) - j]
    BY <1>1, Shifted
  <2> HIDE DEF s, m
  <2>3. m > 1 => /\ m - 1 <= Len(nid_accum)
                 /\ \A i \in 1..m - 1 : nid_accum[Len(nid_accum) - (m - 1) + i] = NidDibit(sync, i)
    <3>1. SUFFICES ASSUME m > 1
                   PROVE  /\ m - 1 <= Len(nid_accum)
                          /\ \A i \in 1..m - 1 : nid_accum[Len(nid_accum) - (m - 1) + i] = NidDibit(sync, i)
      OBVIOUS
    <3>2. nid_syms > 1
      BY <1>1, <2>1, <3>1
    <3> QED BY <1>3, <2>1, <3>2 DEF EndsWith
  <2>4. m <= Len(s)
    <3>1. CASE m = 1
      BY <2>2, <3>1
    <3>2. CASE m > 1
      BY <1>1, <2>1, <2>2, <2>3, <3>2
    <3> QED BY <2>1, <3>1, <3>2
  <2>5. ASSUME NEW i \in 1..m PROVE s[Len(s) - m + i] = NidDibit(sync, i)
    <3>1. CASE i = m
      BY <2>1, <2>2, <3>1
    <3>2. CASE i < m
      <4>1. m > 1 /\ i \in 1..m - 1 /\ i \in Nat
        BY <2>1, <3>2
      <4>2. nid_accum[Len(nid_accum) - (m - 1) + i] = NidDibit(sync, i)
        BY <2>3, <4>1
      <4> DEFINE j == m - 1 - i
      <4>3. j \in 0..Len(s) - 2 /\ Len(s) - 1 - j = Len(s) - m + i
            /\ Len(nid_accum) - j = Len(nid_accum) - (m - 1) + i
        BY <2>1, <2>2, <2>4, <4>1
      <4>4. s[Len(s) - 1 - j] = nid_accum[Len(nid_accum) - j]
        BY <2>2, <4>3
      <4> QED BY <4>2, <4>3, <4>4
    <3> QED BY <2>1, <3>1, <3>2
  <2>6. nid_accum' = s
    BY <1>2, <1>5 DEF s
  <2>7. EndsWith(s, sync, m)
    BY <2>4, <2>5 DEF EndsWith
  <2> QED BY <2>6, <2>7 DEF m
<1> QED BY <1>4, <1>5

LEMMA CollectedKept ==
    ASSUME IInv, NEW found, NEW bch \in Duids \cup {NoDuid}, RxSym(found, bch)
    PROVE  Collected'
<1>1. /\ nid_syms \in 0..NidSyms /\ begun \in Nat /\ NidSyms \in Nat /\ NidSyms >= 2
      /\ StatusSym \in Nat /\ 0 < StatusSym /\ StatusSym < NidSyms
  BY Sizes, FramerAssumption DEF IInv, TypeOK, FramerAssumption
<1>2. nid_syms' > 1 => EndsWith(nid_accum', sync', Kept(nid_syms' - 1))
  <2>1. SUFFICES ASSUME nid_syms' > 1 PROVE EndsWith(nid_accum', sync', Kept(nid_syms' - 1))
    OBVIOUS
  <2>2. nid_syms' = IF found # "none" THEN 1 ELSE CountedSyms
    BY DEF RxSym
  <2>3. found = "none" /\ nid_syms > 0 /\ nid_syms' = nid_syms + 1
    BY <1>1, <2>1, <2>2 DEF CountedSyms, NidComplete
  <2>4. sync' = sync /\ nid_syms' - 1 = nid_syms
    BY <1>1, <2>3, Counted
  <2> QED BY <2>3, <2>4, AccumKept
<1>3. CASE bch = NoDuid
  <2>1. UNCHANGED <<nid, start, begun>>
    BY <1>3 DEF RxSym, AcceptNid
  <2> QED BY <1>2, <2>1 DEF IInv, Collected
<1>4. CASE bch # NoDuid
  <2>1. nid' = nid_accum' /\ start' = sync
    BY <1>4 DEF RxSym, AcceptNid
  <2>2. nid_syms = NidSyms
    BY <1>1, <1>4 DEF RxSym, NidComplete
  <2>3. EndsWith(nid_accum', sync, NidSyms - 1)
    <3>1. EndsWith(nid_accum', sync, Kept(nid_syms))
      BY <1>1, <2>2, AccumKept
    <3> QED BY <1>1, <2>2, <3>1 DEF Kept
  <2>4. nid_accum' \in Seq(Nat) /\ Len(nid_accum') < NidSyms /\ Len(nid_accum') \in Nat
    <3>1. nid_accum \in Seq(Nat) /\ Len(nid_accum) < NidSyms /\ Len(nid_accum) \in Nat /\ t + 1 \in Nat
      BY DEF IInv, TypeOK
    <3>2. nid_accum' = nid_accum \/ nid_accum' = Shift(t + 1)
      BY DEF RxSym, Accumulated
    <3>3. /\ Shift(t + 1) \in Seq(Nat) /\ Len(Shift(t + 1)) \in Nat /\ Len(Shift(t + 1)) <= NidSyms - 1
      BY <3>1, Shifted
    <3> QED BY <1>1, <3>1, <3>2, <3>3
  <2>5. /\ Len(nid_accum') = NidSyms - 1
        /\ \A i \in 1..NidSyms - 1 : nid_accum'[i] = NidDibit(sync, i)
    BY <1>1, <2>3, <2>4 DEF EndsWith
  <2>6. nid_accum' = [i \in 1..NidSyms - 1 |-> NidDibit(sync, i)]
    BY <2>4, <2>5
  <2>7. NidDibits(sync, NidSyms) = [i \in 1..NidSyms - 1 |-> NidDibit(sync, i)]
    BY <1>1 DEF NidDibits, NidDibit
  <2> QED BY <1>2, <2>1, <2>6, <2>7 DEF Collected
<1> QED BY <1>3, <1>4

\* What Collected says dibit by dibit.
LEMMA NidFollows == IInv => NidOfItsSync
<1> SUFFICES ASSUME IInv PROVE NidOfItsSync
  OBVIOUS
<1>1. /\ nid_syms \in 0..NidSyms /\ NidSyms \in Nat /\ nid_accum \in Seq(Nat) /\ sync \in Nat
      /\ StatusSym \in Nat /\ 0 < StatusSym /\ Collected /\ Len(nid_accum) \in Nat
  BY Sizes DEF IInv, TypeOK
<1>2. ASSUME nid_syms > 1
      PROVE  LastOf(nid_accum, Len(NidDibits(sync, nid_syms - 1))) = NidDibits(sync, nid_syms - 1)
  <2> DEFINE m == Kept(nid_syms - 1)
             a == Len(nid_accum) - m + 1
  <2>1. m \in Nat
    BY <1>1, <1>2 DEF Kept
  <2>2. /\ m <= Len(nid_accum)
        /\ \A i \in 1..m : nid_accum[Len(nid_accum) - m + i] = NidDibit(sync, i)
    BY <1>1, <1>2 DEF Collected, EndsWith
  <2>3. NidDibits(sync, nid_syms - 1) = [i \in 1..m |-> NidDibit(sync, i)]
    BY DEF NidDibits, NidDibit, Kept
  <2> HIDE DEF m
  <2>4. /\ \A i \in 1..m : NidDibit(sync, i) \in Nat
    BY <1>1, <2>1 DEF NidDibit
  <2>5. Len([i \in 1..m |-> NidDibit(sync, i)]) = m
    BY <2>1, <2>4
  <2>6. LastOf(nid_accum, m) = [i \in 1..m |-> nid_accum[a + i - 1]]
    <3>1. LastOf(nid_accum, m) = SubSeq(nid_accum, a, Len(nid_accum))
      BY DEF LastOf
    <3>2. a \in 1..Len(nid_accum) + 1
      BY <1>1, <2>1, <2>2
    <3>3. \A i \in a..Len(nid_accum) : nid_accum[i] \in Nat
      BY <1>1, <3>2
    <3> HIDE DEF a
    <3>4. /\ SubSeq(nid_accum, a, Len(nid_accum)) \in Seq(Nat)
          /\ Len(SubSeq(nid_accum, a, Len(nid_accum)))
               = IF a <= Len(nid_accum) THEN Len(nid_accum) - a + 1 ELSE 0
          /\ \A i \in 1..Len(nid_accum) - a + 1 :
                SubSeq(nid_accum, a, Len(nid_accum))[i] = nid_accum[a + i - 1]
      <4>1. a \in Int /\ Len(nid_accum) \in Int
        BY <1>1, <3>2
      <4> QED BY ONLY <4>1, <3>3, SubSeqProperties
    <3>5. Len(nid_accum) - a + 1 = m
      BY <1>1, <2>1 DEF a
    <3>6. Len(SubSeq(nid_accum, a, Len(nid_accum))) = m
      BY <1>1, <2>1, <3>2, <3>4, <3>5
    <3> QED BY <3>1, <3>4, <3>5, <3>6
  <2>7. \A i \in 1..m : nid_accum[a + i - 1] = NidDibit(sync, i)
    BY <1>1, <2>1, <2>2
  <2> QED BY <2>3, <2>5, <2>6, <2>7
<1> QED BY <1>1, <1>2 DEF NidOfItsSync, Collected

LEMMA RxInv == IInv /\ RxAny => IInv'
<1> SUFFICES ASSUME IInv, NEW found \in {"none", "sync", "reversed"},
                    NEW bch \in Duids \cup {NoDuid}, RxSym(found, bch)
             PROVE  IInv'
  BY DEF RxAny
<1> QED BY TypesKept, InStepKept, NoFrameLostKept, FreshKept, CollectedKept DEF IInv

-----------------------------------------------------------------------------
(* In the assembler.                                                       *)

LEMMA InitInv == AsmInit => IInv
<1> SUFFICES ASSUME AsmInit PROVE IInv
  OBVIOUS
<1>1. TypeOK
  <2>1. 0 \in 0..NidSyms /\ 0 \in 0..VoiceSize - 1 /\ 0 \in 0..VoiceSize
        /\ << >> \in Seq(Nat) /\ Len(<< >>) < NidSyms /\ 0 \in 0..0
    BY Sizes
  <2>2. frame_body \in [0..VoiceSize - 1 -> Nat]
    BY DEF AsmInit, Init
  <2> QED BY <2>1, <2>2 DEF AsmInit, Init, TypeOK
<1>2. InStep /\ NoFrameLost /\ BodyFresh /\ FrameIsFresh /\ Collected
  BY DEF AsmInit, Init, InStep, NoFrameLost, BodyFresh, FrameIsFresh, Collected
<1> QED BY <1>1, <1>2 DEF IInv

LEMMA NextInv == IInv /\ [AsmNext]_vars => IInv'
<1> SUFFICES ASSUME IInv, [AsmNext]_vars PROVE IInv'
  OBVIOUS
<1>1. CASE Receive
  BY <1>1, RxInv DEF Receive
<1>2. CASE UNCHANGED framerVars
  BY <1>2 DEF framerVars, IInv, TypeOK, InStep, NoFrameLost, BodyFresh, FrameIsFresh, Collected
<1>3. Receive \/ UNCHANGED framerVars
  BY DEF AsmNext, Dispatch, CheckFull, Insert, Finish, Watch, vars
<1> QED BY <1>1, <1>2, <1>3

LEMMA Invariance == AsmSpec => []IInv
BY InitInv, NextInv, PTL DEF AsmSpec

-----------------------------------------------------------------------------
(* The messages: what was read, what is queued and what is to be sent.     *)

Msgs == [duid : Duids \cup {NoDuid}, start : Nat, block : Nat]

\* AnnouncedInOrder between any two messages, wherever they are by now.
Ordered(q) == \A i, j \in DOMAIN q : i < j => Before(q[i], q[j])
UpTo(q, n) == \A i \in DOMAIN q : q[i].start <= n
Below(q, n) == \A i \in DOMAIN q : q[i].start < n

\* A frame under way, or returned and not yet looked at, is later than all
\* messages, and so is the sync of a NID being collected.
Later(q) ==
    /\ UpTo(q, start)
    /\ next_bit > 0 \/ stage = "frame" => Below(q, start)
Stages ==
    /\ stage \in {"rx", "frame", "announce"}
    /\ stage # "announce" => todo = << >>
    /\ stage # "rx" => next_bit = 0
    /\ room => todo # << >>
    /\ nid_syms > 0 => start < sync
Kinds == seen \in Seq(Msgs) /\ msgq \in Seq(Msgs) /\ todo \in Seq(Msgs) /\ due \in Seq(Msgs)
MInv ==
    /\ Stages /\ Kinds
    /\ Ordered(seen \o msgq \o todo) /\ Later(seen \o msgq \o todo)
    /\ ~dropped => seen \o msgq \o todo = due
    /\ \A i \in DOMAIN todo : todo[i].block > 0 => todo[i].block \in Tried(frame_size)

\* The first of one sequence becomes the last of the one before it.
LEMMA Moved ==
    ASSUME NEW S, NEW s \in Seq(S), NEW q \in Seq(S), q # << >>
    PROVE  /\ Append(s, Head(q)) \in Seq(S) /\ Tail(q) \in Seq(S)
           /\ Append(s, Head(q)) \o Tail(q) = s \o q
<1>1. /\ Head(q) \in S /\ Tail(q) \in Seq(S) /\ Len(q) \in Nat /\ Len(q) > 0
      /\ Len(Tail(q)) = Len(q) - 1 /\ Head(q) = q[1]
      /\ \A i \in 1..Len(q) - 1 : Tail(q)[i] = q[i + 1]
  OBVIOUS
<1>2. /\ Append(s, Head(q)) \in Seq(S) /\ Len(Append(s, Head(q))) = Len(s) + 1
      /\ \A i \in 1..Len(s) : Append(s, Head(q))[i] = s[i]
      /\ Append(s, Head(q))[Len(s) + 1] = Head(q) /\ Len(s) \in Nat
  BY <1>1
<1> DEFINE a == Append(s, Head(q))
           b == Tail(q)
<1> HIDE DEF a, b
<1>3. /\ a \in Seq(S) /\ Len(a) = Len(s) + 1 /\ a[Len(s) + 1] = q[1]
      /\ \A i \in 1..Len(s) : a[i] = s[i]
      /\ b \in Seq(S) /\ Len(b) = Len(q) - 1 /\ \A i \in 1..Len(q) - 1 : b[i] = q[i + 1]
  BY <1>1, <1>2 DEF a, b
<1>4. /\ a \o b \in Seq(S) /\ s \o q \in Seq(S)
      /\ Len(a \o b) = Len(s) + Len(q) /\ Len(s \o q) = Len(s) + Len(q)
  <2>1. a \o b \in Seq(S) /\ s \o q \in Seq(S)
    BY <1>3, ConcatProperties
  <2>2. Len(a \o b) = Len(a) + Len(b) /\ Len(s \o q) = Len(s) + Len(q)
    BY <1>3, ConcatProperties
  <2> QED BY <1>1, <1>2, <1>3, <2>1, <2>2
<1>5. ASSUME NEW i \in 1..Len(s) + Len(q) PROVE (a \o b)[i] = (s \o q)[i]
  <2>1. CASE i <= Len(s)
    BY <1>1, <1>2, <1>3, <2>1
  <2>2. CASE i = Len(s) + 1
    BY <1>1, <1>2, <1>3, <2>2
  <2>3. CASE i > Len(s) + 1
    <3>1. (a \o b)[i] = b[i - (Len(s) + 1)] /\ (s \o q)[i] = q[i - Len(s)]
      BY <1>1, <1>2, <1>3, <2>3
    <3>2. i - (Len(s) + 1) \in 1..Len(q) - 1 /\ i - (Len(s) + 1) + 1 = i - Len(s)
      BY <1>1, <1>2, <2>3
    <3> QED BY <1>3, <3>1, <3>2
  <2>4. i \in Int /\ Len(s) \in Int /\ (i <= Len(s) \/ i = Len(s) + 1 \/ i > Len(s) + 1)
    BY <1>1, <1>2
  <2> QED BY <2>1, <2>2, <2>3, <2>4
<1>6. a \o b = s \o q
  BY <1>1, <1>2, <1>4, <1>5, SeqEqual
<1> QED BY <1>1, <1>2, <1>6 DEF a, b

\* One dropped: the others keep their order.
LEMMA OneLess ==
    ASSUME NEW s \in Seq(Msgs), NEW q \in Seq(Msgs), q # << >>, NEW n \in Nat
    PROVE  /\ Ordered(s \o q) => Ordered(s \o Tail(q))
           /\ UpTo(s \o q, n) => UpTo(s \o Tail(q), n)
           /\ Below(s \o q, n) => Below(s \o Tail(q), n)
<1> DEFINE long == s \o q
           short == s \o Tail(q)
           old(i) == IF i <= Len(s) THEN i ELSE i + 1
<1>1. /\ long \in Seq(Msgs) /\ short \in Seq(Msgs) /\ Len(s) \in Nat /\ Len(q) \in Nat /\ Len(q) > 0
      /\ Len(long) = Len(s) + Len(q) /\ Len(short) = Len(s) + Len(q) - 1
  BY ConcatProperties, HeadTailProperties
<1>2. \A i \in 1..Len(short) : old(i) \in 1..Len(long) /\ short[i] = long[old(i)]
  <2>1. TAKE i \in 1..Len(short)
  <2>2. old(i) \in 1..Len(long)
    BY <1>1
  <2>3. CASE i <= Len(s)
    BY <1>1, <2>3
  <2>4. CASE i > Len(s)
    <3>1. short[i] = Tail(q)[i - Len(s)] /\ long[i + 1] = q[i + 1 - Len(s)]
      BY <1>1, <2>4
    <3>2. i - Len(s) \in 1..Len(q) - 1 /\ i - Len(s) + 1 = i + 1 - Len(s)
      BY <1>1, <2>4
    <3>3. Tail(q)[i - Len(s)] = q[i - Len(s) + 1]
      BY <1>1, <3>2
    <3> QED BY <1>1, <2>2, <2>4, <3>1, <3>2, <3>3
  <2> QED BY <1>1, <2>2, <2>3, <2>4
<1>3. \A i, j \in 1..Len(short) : i < j => old(i) < old(j)
  BY <1>1
<1>4. DOMAIN long = 1..Len(long) /\ DOMAIN short = 1..Len(short)
  BY <1>1
<1> HIDE DEF long, short, old
<1>5. Ordered(long) => Ordered(short)
  BY <1>2, <1>3, <1>4 DEF Ordered
<1>6. (UpTo(long, n) => UpTo(short, n)) /\ (Below(long, n) => Below(short, n))
  BY <1>2, <1>4 DEF UpTo, Below
<1> QED BY <1>5, <1>6 DEF long, short

\* A frame's messages come after all others.
LEMMA OneFrameMore ==
    ASSUME NEW s \in Seq(Msgs), NEW q \in Seq(Msgs), NEW n \in Nat,
           Ordered(s), Below(s, n), Ordered(q), \A i \in DOMAIN q : q[i].start = n
    PROVE  Ordered(s \o q) /\ UpTo(s \o q, n)
<1> DEFINE c == s \o q
<1>1. /\ c \in Seq(Msgs) /\ Len(s) \in Nat /\ Len(q) \in Nat /\ Len(c) = Len(s) + Len(q)
      /\ DOMAIN c = 1..Len(c) /\ DOMAIN s = 1..Len(s) /\ DOMAIN q = 1..Len(q)
  OBVIOUS
<1>2. \A i \in 1..Len(c) : \/ i \in 1..Len(s) /\ c[i] = s[i]
                           \/ i - Len(s) \in 1..Len(q) /\ c[i] = q[i - Len(s)] /\ i > Len(s)
  BY <1>1
<1> HIDE DEF c
<1>3. \A i \in 1..Len(s) : s[i].start \in Nat /\ s[i].start < n
  <2>1. \A i \in 1..Len(s) : s[i] \in Msgs
    BY <1>1
  <2> QED BY <1>1, <2>1 DEF Msgs, Below
<1>4. \A i \in 1..Len(q) : q[i].start = n
  BY <1>1
<1>5. UpTo(c, n)
  <2>1. \A i \in 1..Len(c) : c[i].start <= n
    BY <1>2, <1>3, <1>4, SMTT(30)
  <2> QED BY <1>1, <2>1 DEF UpTo
<1>6. ASSUME NEW i \in 1..Len(c), NEW j \in 1..Len(c), i < j PROVE Before(c[i], c[j])
  <2>1. CASE j \in 1..Len(s) /\ c[j] = s[j]
    <3>1. i \in 1..Len(s) /\ c[i] = s[i]
      <4>1. ~(i > Len(s))
        BY <1>1, <1>6, <2>1
      <4> QED BY <1>2, <4>1
    <3> QED BY <1>1, <1>6, <2>1, <3>1 DEF Ordered
  <2>2. CASE j - Len(s) \in 1..Len(q) /\ c[j] = q[j - Len(s)] /\ j > Len(s)
    <3>1. CASE i \in 1..Len(s) /\ c[i] = s[i]
      <4>1. c[i].start < n /\ c[j].start = n
        BY <1>3, <1>4, <2>2, <3>1
      <4> QED BY <4>1 DEF Before
    <3>2. CASE i - Len(s) \in 1..Len(q) /\ c[i] = q[i - Len(s)] /\ i > Len(s)
      <4>1. i - Len(s) < j - Len(s)
        BY <1>1, <1>6
      <4> QED BY <1>1, <2>2, <3>2, <4>1 DEF Ordered
    <3> QED BY <1>2, <3>1, <3>2
  <2> QED BY <1>2, <2>1, <2>2
<1> QED BY <1>1, <1>5, <1>6 DEF Ordered, c

\* What Dispatch sends for a frame.
LEMMA OfOneFrame ==
    ASSUME IInv, NEW q \in Messages
    PROVE  /\ q \in Seq(Msgs) /\ Ordered(q) /\ \A i \in DOMAIN q : q[i].start = start
           /\ \A i \in DOMAIN q : q[i].block > 0 => q[i].block \in Tried(frame_size)
<1>1. duid \in Duids \cup {NoDuid} /\ start \in Nat
  BY DEF IInv, TypeOK
<1>2. \A b \in Nat : Message(b) \in Msgs /\ Message(b).start = start /\ Message(b).block = b
  BY <1>1 DEF Message, Msgs
<1>3. CASE q = <<Message(0)>>
  <2>1. DOMAIN q = {1} /\ q[1] = Message(0) /\ q \in Seq(Msgs)
    BY <1>2, <1>3
  <2> QED BY <1>2, <2>1 DEF Ordered
<1>4. CASE q = << >>
  BY <1>4 DEF Ordered
<1>5. ASSUME NEW s \in Decoded, q = [i \in DOMAIN s |-> Message(s[i])]
      PROVE  /\ q \in Seq(Msgs) /\ Ordered(q) /\ \A i \in DOMAIN q : q[i].start = start
             /\ \A i \in DOMAIN q : q[i].block > 0 => q[i].block \in Tried(frame_size)
  <2>1. PICK n \in 0..Len(TsbkMin) : s \in [1..n -> Tried(frame_size)]
    BY DEF Decoded
  <2>2. Tried(frame_size) \subseteq Nat
    BY AssemblerAssumption DEF Tried, AssemblerAssumption
  <2>3. n \in Nat
    BY <2>1, AssemblerAssumption DEF AssemblerAssumption
  <2>4. \A i \in 1..n : s[i] \in Tried(frame_size) /\ s[i] \in Nat
    BY <2>1, <2>2
  <2>5. q = [i \in 1..n |-> Message(s[i])]
    BY <1>5, <2>1
  <2>6. \A i \in 1..n : q[i] = Message(s[i])
    BY <2>5
  <2>7. q \in Seq(Msgs) /\ DOMAIN q = 1..n
    BY <1>2, <2>3, <2>4, <2>5
  <2>8. \A i, j \in 1..n : i < j => s[i] < s[j]
    BY <2>1 DEF Decoded
  <2>9. \A i \in 1..n : q[i].start = start /\ q[i].block = s[i]
    BY <1>2, <2>4, <2>6
  <2>10. Ordered(q)
    BY <2>7, <2>8, <2>9 DEF Ordered, Before
  <2> QED BY <2>4, <2>7, <2>9, <2>10
<1> QED BY <1>3, <1>4, <1>5 DEF Messages

LEMMA Past ==
    ASSUME NEW q \in Seq(Msgs), NEW n \in Nat, NEW m \in Nat, n < m, UpTo(q, n)
    PROVE  Below(q, m) /\ UpTo(q, m)
<1>1. \A i \in DOMAIN q : q[i].start \in Nat
  <2>1. \A i \in DOMAIN q : q[i] \in Msgs
    OBVIOUS
  <2> QED BY <2>1 DEF Msgs
<1> QED BY <1>1 DEF UpTo, Below

\* A frame is begun at the sync of its NID, which is later than the last frame.
LEMMA LaterKept ==
    ASSUME IInv, MInv, stage = "rx", NEW found, NEW bch \in Duids \cup {NoDuid}, RxSym(found, bch),
           NEW q \in Seq(Msgs), Later(q)
    PROVE  /\ UpTo(q, start')
           /\ next_bit' > 0 \/ rc' => Below(q, start')
           /\ rc' => next_bit' = 0
           /\ nid_syms' > 0 => start' < sync'
<1>1. /\ t \in Nat /\ sync \in Nat /\ sync <= t /\ start \in Nat /\ start <= t
      /\ nid_syms \in Nat /\ NidSyms \in Nat /\ NidSyms > 0 /\ next_bit \in Nat
      /\ (nid_syms > 0 => start < sync)
  BY Sizes DEF IInv, TypeOK, MInv, Stages
<1>2. /\ At(bch) = 0 => ~rc' /\ next_bit' = 0
      /\ At(bch) > 0 => next_bit' = IF rc' THEN 0 ELSE At(bch) + 2
      /\ At(bch) \in Nat
  BY Disposed
<1>3. rc' => next_bit' = 0
  BY <1>2
<1>4. next_bit' > 0 \/ rc' => bch # NoDuid \/ next_bit > 0
  <2>1. next_bit' > 0 \/ rc' => At(bch) > 0
    BY <1>2
  <2> QED BY <2>1 DEF At
<1>5. /\ found # "none" => nid_syms' = 1 /\ sync' = t'
      /\ found = "none" => sync' = sync
      /\ t' = t + 1
  BY Counted
<1>6. CASE bch # NoDuid
  <2>1. start' = sync /\ nid_syms >= NidSyms
    BY <1>6 DEF RxSym, AcceptNid, NidComplete
  <2>2. start < start'
    BY <1>1, <2>1
  <2>3. UpTo(q, start') /\ Below(q, start')
    BY <1>1, <2>1, <2>2, Past DEF Later
  <2>4. nid_syms' > 0 => found # "none"
    BY <2>1 DEF RxSym, CountedSyms, NidComplete
  <2> QED BY <1>1, <1>3, <1>5, <2>1, <2>3, <2>4
<1>7. CASE bch = NoDuid
  <2>1. start' = start
    BY <1>7 DEF RxSym, AcceptNid
  <2>2. next_bit > 0 => Below(q, start)
    BY DEF Later
  <2>3. nid_syms' > 0 => found # "none" \/ nid_syms > 0
    BY <1>1 DEF RxSym, CountedSyms, NidComplete
  <2>4. nid_syms' > 0 => start' < sync'
    BY <1>1, <1>5, <2>1, <2>3
  <2>5. UpTo(q, start)
    BY DEF Later
  <2> QED BY <1>3, <1>4, <1>7, <2>1, <2>2, <2>4, <2>5
<1> QED BY <1>6, <1>7

LEMMA MReceive == ASSUME IInv, MInv, Receive PROVE MInv'
<1>1. /\ stage = "rx" /\ todo = << >> /\ UNCHANGED <<todo, room, msgq, seen, due, dropped>>
      /\ stage' = IF rc' THEN "frame" ELSE "rx"
  BY DEF Receive, MInv, Stages
<1>2. PICK found \in {"none", "sync", "reversed"}, bch \in Duids \cup {NoDuid} : RxSym(found, bch)
  BY DEF Receive, RxAny
<1> DEFINE all == seen \o msgq \o todo
<1>3. all \in Seq(Msgs) /\ Later(all)
  BY ConcatProperties DEF MInv, Kinds
<1>4. all' = all
  BY <1>1
<1> HIDE DEF all
<1>5. /\ UpTo(all, start')
      /\ next_bit' > 0 \/ rc' => Below(all, start')
      /\ rc' => next_bit' = 0
      /\ nid_syms' > 0 => start' < sync'
  BY <1>1, <1>2, <1>3, LaterKept
<1>6. stage' = "frame" <=> rc'
  BY <1>1
<1>7. Later(all)'
  BY <1>4, <1>5, <1>6 DEF Later, UpTo, Below
<1>8. Stages'
  BY <1>1, <1>5, <1>6 DEF MInv, Stages
<1>9. Kinds' /\ Ordered(all)' /\ (~dropped' => all' = due')
  BY <1>1, <1>4 DEF MInv, Kinds, Ordered, all
<1>10. DOMAIN todo' = {}
  BY <1>1
<1> QED BY <1>7, <1>8, <1>9, <1>10 DEF MInv, all

LEMMA MDispatch == ASSUME IInv, MInv, Dispatch PROVE MInv'
<1>1. /\ stage = "frame" /\ todo' \in Messages /\ due' = due \o todo' /\ stage' = "announce"
      /\ UNCHANGED <<room, msgq, seen, dropped, next_bit, nid_syms, start, sync, frame_size>>
  BY DEF Dispatch, framerVars
<1>2. /\ todo = << >> /\ next_bit = 0 /\ room \notin {TRUE}
  BY <1>1 DEF MInv, Stages
<1>3. /\ todo' \in Seq(Msgs) /\ Ordered(todo') /\ (\A i \in DOMAIN todo' : todo'[i].start = start)
      /\ \A i \in DOMAIN todo' : todo'[i].block > 0 => todo'[i].block \in Tried(frame_size)
  BY <1>1, OfOneFrame
<1> DEFINE before == seen \o msgq
<1>4. /\ before \in Seq(Msgs) /\ seen \in Seq(Msgs) /\ msgq \in Seq(Msgs) /\ due \in Seq(Msgs)
      /\ before \o todo = before
  BY <1>2, ConcatProperties, ConcatEmptySeq DEF MInv, Kinds
<1>5. seen \o msgq \o todo = before \o todo /\ seen' \o msgq' \o todo' = before \o todo'
  BY <1>1
<1> HIDE DEF before
<1>6. Ordered(before) /\ Below(before, start) /\ (~dropped => before = due)
  BY <1>1, <1>4, <1>5 DEF MInv, Later
<1>7. start \in Nat
  BY DEF IInv, TypeOK
<1>8. Ordered(before \o todo') /\ UpTo(before \o todo', start)
  BY <1>3, <1>4, <1>6, <1>7, OneFrameMore
<1>9. Later(seen \o msgq \o todo)'
  BY <1>1, <1>2, <1>5, <1>8 DEF Later, UpTo, Below
<1>10. Ordered(seen \o msgq \o todo)'
  BY <1>5, <1>8 DEF Ordered
<1>11. ~dropped' => (seen \o msgq \o todo)' = due'
  BY <1>1, <1>5, <1>6
<1>12. due' \in Seq(Msgs)
  BY <1>1, <1>3, <1>4, ConcatProperties
<1>13. Kinds'
  BY <1>1, <1>3, <1>4, <1>12 DEF Kinds
<1>14. Stages'
  BY <1>1, <1>2 DEF MInv, Stages
<1>15. Tried(frame_size)' = Tried(frame_size)
  BY <1>1 DEF Tried
<1> QED BY <1>3, <1>9, <1>10, <1>11, <1>13, <1>14, <1>15 DEF MInv

\* What a step that leaves the framer and the order of all messages alone keeps.
LEMMA MSame ==
    ASSUME MInv, UNCHANGED framerVars, Stages', Kinds', UNCHANGED <<due, dropped>>,
           (seen \o msgq \o todo)' = seen \o msgq \o todo, stage' = "frame" => stage = "frame",
           \A i \in DOMAIN todo' : todo'[i].block > 0 => todo'[i].block \in Tried(frame_size)
    PROVE  MInv'
<1> DEFINE all == seen \o msgq \o todo
<1>1. UNCHANGED <<start, next_bit, frame_size>>
  BY DEF framerVars
<1>2. all' = all
  OBVIOUS
<1>3. Ordered(all) /\ Later(all) /\ (~dropped => all = due)
  BY DEF MInv
<1> HIDE DEF all
<1>4. Ordered(all)' /\ Later(all)' /\ (~dropped' => all' = due')
  BY <1>1, <1>2, <1>3 DEF Ordered, Later, UpTo, Below
<1>5. Tried(frame_size)' = Tried(frame_size)
  BY <1>1 DEF Tried
<1> QED BY <1>4, <1>5 DEF MInv, all

LEMMA BlocksOfTail ==
    ASSUME MInv, todo # << >>
    PROVE  \A i \in DOMAIN Tail(todo) :
              Tail(todo)[i].block > 0 => Tail(todo)[i].block \in Tried(frame_size)
<1>1. /\ todo \in Seq(Msgs)
      /\ \A i \in DOMAIN todo : todo[i].block > 0 => todo[i].block \in Tried(frame_size)
  BY DEF MInv, Kinds
<1>2. \A i \in DOMAIN Tail(todo) : i + 1 \in DOMAIN todo /\ Tail(todo)[i] = todo[i + 1]
  BY <1>1
<1> QED BY <1>1, <1>2

LEMMA MCheckFull == ASSUME IInv, MInv, CheckFull PROVE MInv'
<1>1. /\ stage = "announce" /\ todo # << >> /\ UNCHANGED framerVars
      /\ UNCHANGED <<stage, msgq, seen, due>>
  BY DEF CheckFull
<1>2. UNCHANGED <<start, next_bit, nid_syms, sync, frame_size>>
  BY <1>1 DEF framerVars
<1>3. CASE Len(msgq) < QueueLimit
  <2>1. room' = TRUE /\ UNCHANGED <<todo, dropped>>
    BY <1>3 DEF CheckFull
  <2>2. Stages' /\ Kinds'
    BY <1>1, <1>2, <2>1 DEF MInv, Stages, Kinds
  <2>3. \A i \in DOMAIN todo' : todo'[i].block > 0 => todo'[i].block \in Tried(frame_size)
    BY <2>1 DEF MInv
  <2> QED BY <1>1, <2>1, <2>2, <2>3, MSame
<1>4. CASE ~(Len(msgq) < QueueLimit)
  <2>1. room' = FALSE /\ todo' = Tail(todo) /\ dropped' = TRUE
    BY <1>4 DEF CheckFull
  <2>2. Stages'
    BY <1>1, <1>2, <2>1 DEF MInv, Stages
  <2>3. /\ seen \in Seq(Msgs) /\ msgq \in Seq(Msgs) /\ todo \in Seq(Msgs)
        /\ Tail(todo) \in Seq(Msgs)
    BY <1>1, HeadTailProperties DEF MInv, Kinds
  <2>4. Kinds'
    BY <1>1, <2>1, <2>3 DEF MInv, Kinds
  <2>5. seen \o msgq \in Seq(Msgs) /\ start \in Nat
    BY <2>3, ConcatProperties DEF IInv, TypeOK
  <2> DEFINE first == seen \o msgq
  <2>6. Ordered(first \o todo) /\ Later(first \o todo)
    BY DEF MInv
  <2>7. (seen \o msgq \o todo)' = first \o Tail(todo)
    BY <1>1, <2>1
  <2> HIDE DEF first
  <2>8. Ordered(first \o Tail(todo)) /\ Later(first \o Tail(todo))
    BY <1>1, <2>3, <2>5, <2>6, OneLess DEF Later, first
  <2>9. Ordered(seen \o msgq \o todo)' /\ Later(seen \o msgq \o todo)'
    BY <1>1, <1>2, <2>7, <2>8 DEF Ordered, Later, UpTo, Below
  <2>10. \A i \in DOMAIN todo' : todo'[i].block > 0 => todo'[i].block \in Tried(frame_size)
    BY <1>1, <2>1, BlocksOfTail
  <2>11. Tried(frame_size)' = Tried(frame_size)
    BY <1>2 DEF Tried
  <2> QED BY <2>1, <2>2, <2>4, <2>9, <2>10, <2>11 DEF MInv
<1> QED BY <1>3, <1>4

LEMMA MInsert == ASSUME MInv, Insert PROVE MInv'
<1>1. /\ stage = "announce" /\ todo # << >> /\ UNCHANGED framerVars /\ room' = FALSE
      /\ UNCHANGED <<stage, seen, due, dropped>>
      /\ msgq' = Append(msgq, Head(todo)) /\ todo' = Tail(todo)
  BY DEF Insert, MInv, Stages
<1>2. UNCHANGED <<start, next_bit, nid_syms, sync>>
  BY <1>1 DEF framerVars
<1>3. seen \in Seq(Msgs) /\ msgq \in Seq(Msgs) /\ todo \in Seq(Msgs)
  BY DEF MInv, Kinds
<1>4. /\ msgq' \in Seq(Msgs) /\ todo' \in Seq(Msgs) /\ msgq' \o todo' = msgq \o todo
  BY <1>1, <1>3, Moved
<1>5. /\ seen \o msgq \o todo = seen \o (msgq \o todo)
      /\ seen \o msgq' \o todo' = seen \o (msgq' \o todo')
  <2>1. \A x, y, z \in Seq(Msgs) : x \o y \o z = x \o (y \o z)
    BY ConcatAssociative
  <2> QED BY <1>3, <1>4, <2>1, ZenonT(40)
<1>6. (seen \o msgq \o todo)' = seen \o msgq \o todo
  BY <1>1, <1>4, <1>5
<1>7. Stages' /\ Kinds'
  BY <1>1, <1>2, <1>4 DEF MInv, Stages, Kinds
<1>8. \A i \in DOMAIN todo' : todo'[i].block > 0 => todo'[i].block \in Tried(frame_size)
  BY <1>1, BlocksOfTail
<1> QED BY <1>1, <1>6, <1>7, <1>8, MSame

LEMMA MWatch == ASSUME MInv, Watch PROVE MInv'
<1>1. /\ msgq # << >> /\ UNCHANGED framerVars /\ UNCHANGED <<stage, todo, room, due, dropped>>
      /\ seen' = Append(seen, Head(msgq)) /\ msgq' = Tail(msgq)
  BY DEF Watch
<1>2. UNCHANGED <<start, next_bit, nid_syms, sync>>
  BY <1>1 DEF framerVars
<1>3. seen \in Seq(Msgs) /\ msgq \in Seq(Msgs)
  BY DEF MInv, Kinds
<1>4. seen' \in Seq(Msgs) /\ msgq' \in Seq(Msgs) /\ seen' \o msgq' = seen \o msgq
  BY <1>1, <1>3, Moved
<1>5. (seen \o msgq \o todo)' = seen \o msgq \o todo
  BY <1>1, <1>4
<1>6. Stages' /\ Kinds'
  BY <1>1, <1>2, <1>4 DEF MInv, Stages, Kinds
<1>7. \A i \in DOMAIN todo' : todo'[i].block > 0 => todo'[i].block \in Tried(frame_size)
  BY <1>1 DEF MInv
<1> QED BY <1>1, <1>5, <1>6, <1>7, MSame

LEMMA MFinish == ASSUME MInv, Finish PROVE MInv'
<1>1. /\ stage = "announce" /\ stage' = "rx" /\ todo = << >> /\ UNCHANGED framerVars
      /\ UNCHANGED <<todo, room, msgq, seen, due, dropped>>
  BY DEF Finish
<1>2. UNCHANGED <<start, next_bit, nid_syms, sync>>
  BY <1>1 DEF framerVars
<1>3. Stages' /\ Kinds' /\ (seen \o msgq \o todo)' = seen \o msgq \o todo
  BY <1>1, <1>2 DEF MInv, Stages, Kinds
<1>4. \A i \in DOMAIN todo' : todo'[i].block > 0 => todo'[i].block \in Tried(frame_size)
  BY <1>1 DEF MInv
<1> QED BY <1>1, <1>3, <1>4, MSame

LEMMA MInitial == AsmInit => MInv
<1> SUFFICES ASSUME AsmInit PROVE MInv
  OBVIOUS
<1>1. /\ stage = "rx" /\ todo = << >> /\ room = FALSE /\ msgq = << >> /\ seen = << >>
      /\ due = << >> /\ next_bit = 0 /\ nid_syms = 0 /\ start = 0
  BY DEF AsmInit, Init
<1>2. << >> \in Seq(Msgs) /\ << >> \o << >> \o << >> = << >>
  BY EmptySeq, ConcatEmptySeq
<1>3. DOMAIN << >> = {}
  OBVIOUS
<1> QED BY <1>1, <1>2, <1>3 DEF MInv, Stages, Kinds, Ordered, Later, UpTo, Below

LEMMA MNext == IInv /\ MInv /\ [AsmNext]_vars => MInv'
<1> SUFFICES ASSUME IInv, MInv, [AsmNext]_vars PROVE MInv'
  OBVIOUS
<1>1. CASE UNCHANGED vars
  <2>1. UNCHANGED <<framerVars, stage, todo, room, msgq, seen, due, dropped>>
    BY <1>1 DEF vars, asmVars
  <2>2. UNCHANGED <<start, next_bit, nid_syms, sync>>
    BY <2>1 DEF framerVars
  <2>3. Stages' /\ Kinds' /\ (seen \o msgq \o todo)' = seen \o msgq \o todo
    BY <2>1, <2>2 DEF MInv, Stages, Kinds
  <2> QED BY <2>1, <2>3, MSame DEF MInv
<1> QED BY <1>1, MReceive, MDispatch, MCheckFull, MInsert, MFinish, MWatch DEF AsmNext

LEMMA MInvariance == AsmSpec => []MInv
BY Invariance, MInitial, MNext, PTL DEF AsmSpec

\* From messages in order to neighbours in order.
LEMMA InOrder == MInv => AnnouncedInOrder
<1> SUFFICES ASSUME MInv PROVE AnnouncedInOrder
  OBVIOUS
<1> DEFINE all == seen \o msgq \o todo
<1>1. all \in Seq(Msgs) /\ Ordered(all) /\ (~dropped => all = due)
  BY ConcatProperties DEF MInv, Kinds
<1> HIDE DEF all
<1>2. \A i \in 1..Len(all) - 1 : Before(all[i], all[i + 1])
  BY <1>1 DEF Ordered
<1> QED BY <1>1, <1>2 DEF AnnouncedInOrder, all

LEMMA Complete == IInv /\ MInv => BlocksFresh
<1> SUFFICES ASSUME IInv, MInv, NEW i \in DOMAIN todo, todo[i].block > 0
             PROVE  BlockEnd(todo[i].block) <= frame_size
  BY DEF BlocksFresh
<1> DEFINE b == todo[i].block
<1>1. b \in Tried(frame_size)
  BY DEF MInv
<1> HIDE DEF b
<1>2. b \in DOMAIN TsbkMin /\ frame_size >= TsbkMin[b] /\ BlockEnd(b) <= TsbkMin[b]
  BY <1>1, BlocksFit DEF Tried
<1>3. TsbkMin[b] \in Nat /\ b \in Nat /\ frame_size \in Nat
  BY <1>2, AssemblerAssumption, Sizes DEF AssemblerAssumption, IInv, TypeOK
<1>4. BlockEnd(b) \in Int
  <2>1. BlockBits \in Nat /\ BlockBegin(b) \in Int
    BY <1>3, AssemblerAssumption, Sizes, SMTT(30) DEF AssemblerAssumption, BlockBegin
  <2>2. FsSyms + StatusSym - 1 \in Nat /\ FsSyms + StatusSym - 1 > 0
    BY Sizes
  <2> DEFINE k == BlockBegin(b) + BlockBits - 1
             d == k \div 2
             p == FsSyms + StatusSym - 1
  <2>3. k \in Int
    BY <2>1
  <2> HIDE DEF k
  <2>4. d \in Int
    BY <2>3
  <2> HIDE DEF d, p
  <2>5. d \div p \in Int
    BY <2>2, <2>4 DEF p
  <2> QED BY <2>4, <2>5 DEF BlockEnd, RawBitsFor, d, k, p
<1> QED BY <1>2, <1>3, <1>4 DEF b

\* BlocksFit asks of the sizes what those of the code are: 48 + 64 bits before
\* the first of up to three blocks of 196, one dibit in 36 a status dibit.
LEMMA CodeSizesFit ==
    ASSUME FsSyms = 24, StatusSym = 12, NidSyms = 33, BlockBits = 196,
           TsbkMin = <<360, 576, 720>>
    PROVE  \A b \in DOMAIN TsbkMin : BlockEnd(b) <= TsbkMin[b]
<1>1. HdrBits = 112
  BY DEF HdrBits, FsBits
<1>2. \A k \in Int : RawBitsFor(k) = 2 * (k \div 2 + (k \div 2) \div 35 + 1)
  BY DEF RawBitsFor
<1>3. BlockEnd(1) = RawBitsFor(307) /\ BlockEnd(2) = RawBitsFor(503) /\ BlockEnd(3) = RawBitsFor(699)
  BY <1>1 DEF BlockEnd, BlockBegin
<1>4. BlockEnd(1) = 316 /\ BlockEnd(2) = 518 /\ BlockEnd(3) = 718
  BY <1>2, <1>3
<1>5. DOMAIN TsbkMin = {1, 2, 3} /\ TsbkMin[1] = 360 /\ TsbkMin[2] = 576 /\ TsbkMin[3] = 720
  OBVIOUS
<1> QED BY <1>4, <1>5

-----------------------------------------------------------------------------
(* The datagrams.                                                          *)

Cws == [start : Nat, cw : Nat, old : BOOLEAN]
OneLdu(d) ==
    /\ Len(d) = Len(CodewordEnd)
    /\ \A c \in DOMAIN d : d[c].cw = c /\ d[c].start = d[1].start
VInv ==
    /\ write_buf = << >> /\ d_do_imbe \in BOOLEAN
    /\ d_do_imbe => sent \in Seq(Seq(Cws)) /\ \A i \in DOMAIN sent : OneLdu(sent[i])

LEMMA WholeLdu ==
    ASSUME IInv
    PROVE  Codewords \in Seq(Cws) /\ OneLdu(Codewords)
<1>1. /\ CodewordEnd \in Seq(0..VoiceSize) /\ Len(CodewordEnd) \in Nat
      /\ DOMAIN CodewordEnd = 1..Len(CodewordEnd) /\ start \in Nat
  BY AssemblerAssumption DEF AssemblerAssumption, IInv, TypeOK
<1> DEFINE N == Len(CodewordEnd)
           cw(c) == [start |-> start, cw |-> c, old |-> CodewordEnd[c] > frame_size]
<1>2. Codewords = [c \in 1..N |-> cw(c)]
  BY <1>1 DEF Codewords
<1>3. \A c \in 1..N : cw(c) \in Cws /\ cw(c).cw = c /\ cw(c).start = start
  <2>1. \A c \in 1..N : (CodewordEnd[c] > frame_size) \in BOOLEAN
    OBVIOUS
  <2> QED BY <1>1, <2>1 DEF Cws
<1> HIDE DEF cw
<1>4. N \in Nat
  BY <1>1
<1> HIDE DEF N
<1>5. Codewords \in Seq(Cws) /\ Len(Codewords) = N /\ DOMAIN Codewords = 1..N
      /\ \A c \in 1..N : Codewords[c] = cw(c)
  BY <1>2, <1>3, <1>4
<1>6. \A c \in 1..N : 1 \in 1..N
  BY <1>4
<1> QED BY <1>3, <1>5, <1>6 DEF OneLdu, N

LEMMA VFinish == ASSUME IInv, VInv, Finish PROVE VInv'
<1>1. write_buf = << >> /\ d_do_imbe' = d_do_imbe
  BY DEF VInv, Finish
<1>2. CASE ~d_do_imbe
  BY <1>1, <1>2 DEF VInv, Finish
<1>3. CASE d_do_imbe
  <2> DEFINE buf == IF duid \in Ldus THEN write_buf \o Codewords ELSE write_buf
             full == Len(buf) >= Len(CodewordEnd)
  <2>1. /\ sent' = IF full THEN Append(sent, buf) ELSE sent
        /\ write_buf' = IF full THEN << >> ELSE buf
    BY <1>3 DEF Finish
  <2>2. sent \in Seq(Seq(Cws)) /\ \A i \in DOMAIN sent : OneLdu(sent[i])
    BY <1>3 DEF VInv
  <2>3. CodewordEnd \in Seq(0..VoiceSize) /\ Len(CodewordEnd) \in Nat
    BY AssemblerAssumption DEF AssemblerAssumption
  <2>4. duid \in Ldus => buf = Codewords
    BY <1>1, WholeLdu, ConcatEmptySeq
  <2>5. duid \notin Ldus => buf = << >>
    BY <1>1
  <2> HIDE DEF buf
  <2>6. CASE full
    <3>1. buf \in Seq(Cws) /\ OneLdu(buf)
      <4>1. CASE duid \in Ldus
        BY <2>4, <4>1, WholeLdu
      <4>2. CASE duid \notin Ldus
        <5>1. Len(CodewordEnd) = 0
          BY <2>3, <2>5, <2>6, <4>2
        <5> QED BY <2>5, <4>2, <5>1 DEF OneLdu
      <4> QED BY <4>1, <4>2
    <3>2. sent' = Append(sent, buf) /\ write_buf' = << >>
      BY <2>1, <2>6
    <3>3. /\ Append(sent, buf) \in Seq(Seq(Cws)) /\ Len(sent) \in Nat
          /\ DOMAIN Append(sent, buf) = 1..Len(sent) + 1 /\ DOMAIN sent = 1..Len(sent)
          /\ \A i \in 1..Len(sent) : Append(sent, buf)[i] = sent[i]
          /\ Append(sent, buf)[Len(sent) + 1] = buf
      BY <2>2, <3>1
    <3>4. \A i \in 1..Len(sent) + 1 : i \in 1..Len(sent) \/ i = Len(sent) + 1
      BY <3>3
    <3>5. \A i \in DOMAIN Append(sent, buf) : OneLdu(Append(sent, buf)[i])
      BY <2>2, <3>1, <3>3, <3>4
    <3> QED BY <1>1, <1>3, <3>2, <3>3, <3>5 DEF VInv, OneLdu
  <2>7. CASE ~full
    <3>1. duid \notin Ldus
      BY <2>3, <2>4, <2>7, WholeLdu DEF OneLdu
    <3> QED BY <1>1, <1>3, <2>1, <2>2, <2>5, <2>7, <3>1 DEF VInv, OneLdu
  <2> QED BY <2>6, <2>7
<1> QED BY <1>2, <1>3

LEMMA VNext == IInv /\ VInv /\ [AsmNext]_vars => VInv'
<1> SUFFICES ASSUME IInv, VInv, [AsmNext]_vars PROVE VInv'
  OBVIOUS
<1>1. CASE Finish
  BY <1>1, VFinish
<1>2. CASE UNCHANGED <<d_do_imbe, write_buf, sent>>
  BY <1>2 DEF VInv, OneLdu
<1>3. Finish \/ UNCHANGED <<d_do_imbe, write_buf, sent>>
  BY DEF AsmNext, Receive, Dispatch, CheckFull, Insert, Watch, vars, asmVars
<1> QED BY <1>1, <1>2, <1>3

LEMMA VInvariance == AsmSpec => []VInv
<1>1. AsmInit => VInv
  <2>1. << >> \in Seq(Seq(Cws)) /\ DOMAIN << >> = {}
    OBVIOUS
  <2> QED BY <2>1 DEF AsmInit, VInv
<1> QED BY <1>1, Invariance, VNext, PTL DEF AsmSpec

-----------------------------------------------------------------------------
(* Theorems.                                                               *)

\* The framer's state keeps its ranges: next_bit and frame_size stay inside
\* frame_body, for every table of frame lengths.
THEOREM TypeCorrect == AsmSpec => []TypeOK
BY Invariance, PTL DEF IInv

\* nid_syms and next_bit count the dibits since the last sync exactly, and a
\* NID and a frame are never under way at once.
THEOREM CountsInStep == AsmSpec => []InStep
BY Invariance, PTL DEF IInv

\* A returned frame holds its own dibits, each at its place, and ends where its
\* length or the next sync ends it.
THEOREM Fresh == AsmSpec => []FrameIsFresh
BY Invariance, PTL DEF IInv

\* A NID is made of the dibits after its own sync, each at its place, without
\* the status dibit, also when another sync was found while it was collected.
THEOREM NidFromItsSync == AsmSpec => []NidOfItsSync
BY Invariance, NidFollows, PTL

\* A frame begun is returned or still under way.
THEOREM FramesReturned == AsmSpec => []NoFrameLost
BY Invariance, PTL DEF IInv

\* However full the queue and whenever its reader runs, the data units and
\* trunking blocks it sees are in order of reception, each at most once, and
\* none is missing before the first was dropped at a full queue.
THEOREM MessagesInOrder == AsmSpec => []AnnouncedInOrder
BY MInvariance, InOrder, PTL

\* A trunking block is announced only when all its bits were received with its
\* own frame, also of a frame a sync cut short.
THEOREM BlocksWhole == AsmSpec => []BlocksFresh
BY Invariance, MInvariance, Complete, PTL

\* Every datagram of voice is the codewords of one LDU, in order; none waits
\* for the next frame.
THEOREM OneLduPerDatagram == AsmSpec => []DatagramIsLdu
<1>1. VInv => DatagramIsLdu
  BY DEF VInv, OneLdu, DatagramIsLdu
<1> QED BY <1>1, VInvariance, PTL
=============================================================================
