-------------------------- MODULE Op25DecoderProofs --------------------------
(***************************************************************************)
(* The framing of Op25Decoder, for every length of sync and header, every  *)
(* table of frame lengths, every stream and every pace of the watcher: no  *)
(* exception ends the program, no frame sync in the stream is missed but   *)
(* for one inside a frame or header, and every frame recognised comes out  *)
(* of the handlers whole and once.                                         *)
(*                                                                         *)
(* All rest on where the last sync acted on is: while the decoder does     *)
(* not search, it is FsLen dibits into d_frame_hdr, which is the end of    *)
(* the stream.  What came out is followed by counting: the n-th frame      *)
(* recognised is the n-th at the socket, and so on for each handler.       *)
(***************************************************************************)
EXTENDS Op25Decoder, FiniteSetTheorems, SequenceTheorems, TLAPS

Found == [at : Nat, kind : Kinds \cup {None}]

Types ==
    /\ t \in Nat /\ d_frame_hdr \in Seq(Nat) /\ found \in Seq(Found) /\ syncs \subseteq 1..t
    /\ d_state \in {"SYNCHRONIZING", "IDENTIFYING", "READING"}
    /\ stage \in {"none", "voice", "snapshot", "p25cai"}
    /\ d_data_unit \in Unit \cup {None}

\* The last sync acted on heads what the decoder is reading.
Heading ==
    d_state # "SYNCHRONIZING" =>
        /\ Len(found) \in 1..Len(found)
        /\ FsLen <= Len(d_frame_hdr)
        /\ found[Len(found)].at = t - Len(d_frame_hdr) + FsLen
        /\ d_state = "IDENTIFYING" => found[Len(found)].kind = None
        /\ d_state = "READING" => found[Len(found)].kind = d_data_unit.kind

Framed == Types /\ Framing /\ Heading

LEMMA Sizes ==
    /\ FsLen \in Nat /\ HdrLen \in Nat /\ 0 < FsLen /\ FsLen < HdrLen
    /\ \A k \in Kinds : Size[k] \in Nat /\ Size[k] > HdrLen
    /\ None \notin Kinds /\ None \notin Unit
<1>1. \A k \in Kinds : Size[k] \in Nat
  BY SizeAssumption DEF SizeAssumption
<1> QED BY <1>1, SizeAssumption, KindAssumption, NoneAssumption
        DEF SizeAssumption, KindAssumption, NoneAssumption

-----------------------------------------------------------------------------
(* The end of the stream, one dibit later.                                 *)

LEMMA Longer ==
    ASSUME t \in Nat, d_frame_hdr \in Seq(Nat), d_frame_hdr = Tail_(Len(d_frame_hdr)), t' = t + 1,
           NEW hdr, hdr = Append(d_frame_hdr, t + 1)
    PROVE  /\ hdr \in Seq(Nat) /\ Len(hdr) = Len(d_frame_hdr) + 1
           /\ hdr = [i \in 1..Len(hdr) |-> t' - Len(hdr) + i]
<1> DEFINE n == Len(d_frame_hdr)
<1>1. /\ hdr \in Seq(Nat) /\ n \in Nat /\ Len(hdr) = n + 1 /\ DOMAIN hdr = 1..n + 1
  BY AppendProperties, LenProperties
<1>2. \A i \in 1..n : hdr[i] = d_frame_hdr[i] /\ d_frame_hdr[i] = t - n + i
  <2>1. \A i \in 1..n : hdr[i] = d_frame_hdr[i]
    BY AppendProperties
  <2>2. \A i \in 1..n : Tail_(n)[i] = t - n + i
    BY DEF Tail_
  <2> QED BY <2>1, <2>2
<1>3. hdr[n + 1] = t + 1
  BY AppendProperties
<1>4. \A i \in 1..n + 1 : hdr[i] = t' - (n + 1) + i
  <2> TAKE i \in 1..n + 1
  <2>1. CASE i = n + 1
    BY <1>1, <1>3, <2>1
  <2>2. CASE i # n + 1
    <3>1. i \in 1..n
      BY <1>1, <2>2
    <3>2. hdr[i] = t - n + i
      BY <1>2, <3>1
    <3> QED BY <1>1, <3>1, <3>2
  <2> QED BY <2>1, <2>2
<1>5. hdr = [i \in 1..n + 1 |-> hdr[i]]
  BY <1>1
<1>6. hdr = [i \in 1..n + 1 |-> t' - (n + 1) + i]
  BY <1>4, <1>5
<1> QED BY <1>1, <1>6

LEMMA Shorter ==
    ASSUME NEW u \in Nat, NEW hdr \in Seq(Nat), Len(hdr) >= FsLen,
           hdr = [i \in 1..Len(hdr) |-> u - Len(hdr) + i]
    PROVE  /\ LastDibits(hdr, FsLen) \in Seq(Nat)
           /\ Len(LastDibits(hdr, FsLen)) = FsLen
           /\ LastDibits(hdr, FsLen) = [i \in 1..FsLen |-> u - FsLen + i]
<1> DEFINE n == Len(hdr)
           l == LastDibits(hdr, FsLen)
<1>1. n \in Nat /\ FsLen \in Nat /\ FsLen > 0 /\ n - FsLen + 1 \in 1..n
  BY Sizes, LenProperties
<1>2. /\ l \in Seq(Nat) /\ Len(l) = FsLen
      /\ \A i \in 1..FsLen : l[i] = hdr[n - FsLen + i]
  <2>1. l = SubSeq(hdr, n - FsLen + 1, n)
    BY DEF LastDibits
  <2>2. n \in 1..n
    BY <1>1
  <2>3. n - (n - FsLen + 1) + 1 = FsLen
    BY <1>1
  <2>6. \A i \in 1..FsLen : (n - FsLen + 1) + i - 1 = n - FsLen + i
    BY <1>1
  <2>4. /\ SubSeq(hdr, n - FsLen + 1, n) \in Seq(Nat)
        /\ Len(SubSeq(hdr, n - FsLen + 1, n)) = n - (n - FsLen + 1) + 1
        /\ \A i \in 1..(n - (n - FsLen + 1) + 1) :
             SubSeq(hdr, n - FsLen + 1, n)[i] = hdr[(n - FsLen + 1) + i - 1]
    <3> HIDE DEF n, l
    <3> QED BY <1>1, <2>2 DEF n
  <2> QED BY <2>1, <2>3, <2>4, <2>6
<1>3. \A i \in 1..FsLen : hdr[n - FsLen + i] = u - FsLen + i
  <2> TAKE i \in 1..FsLen
  <2>1. n - FsLen + i \in 1..n
    BY <1>1
  <2>2. [j \in 1..n |-> u - n + j][n - FsLen + i] = u - n + (n - FsLen + i)
    BY <2>1
  <2> QED BY <1>1, <2>2
<1>4. DOMAIN l = 1..FsLen /\ l = [i \in 1..FsLen |-> l[i]]
  <2> HIDE DEF l
  <2> QED BY <1>2, <1>1, LenProperties
<1>5. l = [i \in 1..FsLen |-> u - FsLen + i]
  BY <1>2, <1>3, <1>4
<1> QED BY <1>2, <1>5

-----------------------------------------------------------------------------
(* One dibit.                                                              *)

Received(fs) == t' = t + 1 /\ syncs' = IF fs THEN syncs \cup {t + 1} ELSE syncs
NextHdr == Append(d_frame_hdr, t + 1)

LEMMA Hdr ==
    ASSUME Framed, t' = t + 1
    PROVE  /\ NextHdr \in Seq(Nat) /\ Len(NextHdr) = Len(d_frame_hdr) + 1 /\ t' \in Nat
           /\ Len(d_frame_hdr) \in Nat /\ Len(d_frame_hdr) <= t
           /\ NextHdr = [i \in 1..Len(NextHdr) |-> t' - Len(NextHdr) + i]
<1>1. t \in Nat /\ d_frame_hdr \in Seq(Nat) /\ d_frame_hdr = Tail_(Len(d_frame_hdr))
  BY DEF Framed, Types, Framing
<1>2. Len(d_frame_hdr) <= t
  BY DEF Framed, Framing
<1>3. Len(d_frame_hdr) \in Nat /\ t' \in Nat
  BY <1>1, LenProperties
<1>4. /\ NextHdr \in Seq(Nat) /\ Len(NextHdr) = Len(d_frame_hdr) + 1
      /\ NextHdr = [i \in 1..Len(NextHdr) |-> t' - Len(NextHdr) + i]
  <2> HIDE DEF NextHdr
  <2>1. NextHdr = Append(d_frame_hdr, t + 1)
    BY DEF NextHdr
  <2> QED BY ONLY <1>1, <2>1, t' = t + 1, Longer
<1> QED BY <1>2, <1>3, <1>4, Zenon

LEMMA Marked ==
    ASSUME Framed, NEW f \in Found
    PROVE  /\ Append(found, f) \in Seq(Found) /\ Len(Append(found, f)) = Len(found) + 1
           /\ Len(found) \in Nat
           /\ Append(found, f)[Len(found) + 1] = f
           /\ \A i \in 1..Len(found) : Append(found, f)[i] = found[i]
<1>1. found \in Seq(Found)
  BY DEF Framed, Types
<1> QED BY <1>1, AppendProperties, LenProperties

LEMMA FramedSynchronizing ==
    ASSUME Framed, NEW fs \in BOOLEAN, Received(fs), fs => t + 1 >= FsLen, stage = "none",
           Synchronizing(NextHdr, fs)
    PROVE  Framed'
<1> DEFINE n == Len(NextHdr)
<1>1. /\ NextHdr \in Seq(Nat) /\ n = Len(d_frame_hdr) + 1 /\ t' \in Nat /\ t' = t + 1
      /\ Len(d_frame_hdr) \in Nat /\ Len(d_frame_hdr) <= t /\ n \in Nat /\ t \in Nat
  BY Hdr DEF Received, Framed, Types
<1>0. NextHdr = [i \in 1..n |-> t' - n + i]
  BY Hdr DEF Received
<1>2. /\ d_state = "SYNCHRONIZING" /\ d_data_unit = None /\ d_data_unit' = None
      /\ stage' = "none" /\ exited' = exited /\ ~exited
      /\ Len(d_frame_hdr) >= FsLen \/ Len(d_frame_hdr) = t
  BY DEF Framed, Framing, Types, Synchronizing
<1>3. syncs' \subseteq 1..t'
  <2>1. syncs \subseteq 1..t /\ t \in Nat
    BY DEF Framed, Types
  <2> QED BY <2>1 DEF Received
<1>4. CASE n < FsLen
  <2>1. d_frame_hdr' = NextHdr /\ d_state' = d_state /\ found' = found
    BY <1>1, <1>4, Sizes DEF Synchronizing
  <2>2. Types'
    BY <1>1, <1>2, <1>3, <2>1 DEF Framed, Types
  <2>3. d_frame_hdr' = Tail_(Len(d_frame_hdr))'
    BY <1>0, <2>1 DEF Tail_
  <2>4. Len(d_frame_hdr') = t'
    BY <1>1, <1>2, <1>4, <2>1, Sizes
  <2>5. Framing'
    BY <1>2, <2>1, <2>3, <2>4, <1>1 DEF Framing
  <2>6. Heading'
    BY <1>2, <2>1 DEF Heading
  <2> QED BY <2>2, <2>5, <2>6 DEF Framed
<1>5. CASE n >= FsLen
  <2>1. /\ d_frame_hdr' = LastDibits(NextHdr, FsLen)
        /\ IF fs THEN /\ d_state' = "IDENTIFYING"
                      /\ found' = Append(found, [at |-> t + 1, kind |-> None])
                 ELSE d_state' = d_state /\ found' = found
    BY <1>5 DEF Synchronizing
  <2>2. d_frame_hdr' \in Seq(Nat) /\ Len(d_frame_hdr') = FsLen
    BY <1>0, <1>1, <1>5, <2>1, Shorter
  <2>2a. d_frame_hdr' = [i \in 1..FsLen |-> t' - FsLen + i]
    BY <1>0, <1>1, <1>5, <2>1, Shorter
  <2>3. d_frame_hdr' = Tail_(Len(d_frame_hdr))'
    BY <2>2, <2>2a DEF Tail_
  <2>4. FsLen <= t'
    BY <1>1, <1>5, Sizes
  <2>5. CASE fs
    <3>1. [at |-> t + 1, kind |-> None] \in Found
      BY <1>1 DEF Found
    <3>2. /\ found' \in Seq(Found) /\ Len(found') = Len(found) + 1 /\ Len(found) \in Nat
          /\ found'[Len(found')] = [at |-> t', kind |-> None]
      BY <2>1, <2>5, <3>1, <1>1, Marked
    <3>3. Types'
      BY <1>1, <1>2, <1>3, <2>1, <2>2, <2>5, <3>2 DEF Types
    <3>4. found' # << >>
      BY <3>2
    <3>5. Framing'
      BY <1>2, <2>1, <2>2, <2>3, <2>4, <2>5, <3>4, Sizes DEF Framing
    <3>6. Heading'
      BY <1>1, <2>1, <2>2, <2>5, <3>2, Sizes DEF Heading
    <3> QED BY <3>3, <3>5, <3>6 DEF Framed
  <2>6. CASE ~fs
    <3>1. Types'
      BY <1>1, <1>2, <1>3, <2>1, <2>2, <2>6 DEF Framed, Types
    <3>2. Framing'
      BY <1>2, <2>1, <2>2, <2>3, <2>4, <2>6, Sizes DEF Framing
    <3>3. Heading'
      BY <1>2, <2>1, <2>6 DEF Heading
    <3> QED BY <3>1, <3>2, <3>3 DEF Framed
  <2> QED BY <2>5, <2>6
<1> QED BY <1>1, <1>4, <1>5, Sizes

LEMMA FramedIdentifying ==
    ASSUME Framed, NEW fs \in BOOLEAN, Received(fs), stage = "none",
           NEW nid \in Kinds \cup {None}, Identifying(NextHdr, nid)
    PROVE  Framed'
<1> DEFINE n == Len(NextHdr)
           l == Len(found)
<1>1. /\ NextHdr \in Seq(Nat) /\ n = Len(d_frame_hdr) + 1 /\ t' \in Nat /\ t' = t + 1
      /\ Len(d_frame_hdr) \in Nat /\ Len(d_frame_hdr) <= t /\ n \in Nat /\ t \in Nat
  BY Hdr DEF Received, Framed, Types
<1>0. NextHdr = [i \in 1..n |-> t' - n + i]
  BY Hdr DEF Received
<1>2. /\ d_state = "IDENTIFYING" /\ d_data_unit = None /\ d_frame_hdr' = NextHdr
      /\ stage' = "none" /\ exited' = exited /\ ~exited
      /\ FsLen <= Len(d_frame_hdr) /\ Len(d_frame_hdr) < HdrLen
  BY DEF Framed, Framing, Types, Identifying
<1>3. syncs' \subseteq 1..t'
  <2>1. syncs \subseteq 1..t /\ t \in Nat
    BY DEF Framed, Types
  <2> QED BY <2>1 DEF Received
<1>4. d_frame_hdr' = Tail_(Len(d_frame_hdr))'
  BY <1>0, <1>2 DEF Tail_
<1>5. /\ found \in Seq(Found) /\ l \in 1..l /\ found[l].at = t - Len(d_frame_hdr) + FsLen
      /\ found[l].kind = None
  BY <1>2 DEF Framed, Types, Heading
<1>6. n <= t' /\ n <= HdrLen /\ FsLen <= n
  BY <1>1, <1>2, Sizes
<1>7. CASE n # HdrLen
  <2>1. d_state' = d_state /\ d_data_unit' = None /\ found' = found
    BY <1>2, <1>7 DEF Identifying
  <2>2. Types'
    BY <1>1, <1>2, <1>3, <2>1 DEF Framed, Types
  <2>3. found # << >>
    BY <1>5
  <2>4. Framing'
    BY <1>1, <1>2, <1>4, <1>6, <1>7, <2>1, <2>3, Sizes DEF Framing
  <2>6. t' - Len(d_frame_hdr') + FsLen = t - Len(d_frame_hdr) + FsLen
    BY <1>1, <1>2, Sizes, SMTT(30)
  <2>5. Heading'
    BY <1>2, <1>5, <1>6, <2>1, <2>6 DEF Heading
  <2> QED BY <2>2, <2>4, <2>5 DEF Framed
<1>8. CASE n = HdrLen
  <2>1. /\ d_state' = IF nid = None THEN "SYNCHRONIZING" ELSE "READING"
        /\ d_data_unit' = IF nid = None THEN None ELSE [kind |-> nid, body |-> NextHdr]
        /\ found' = [found EXCEPT ![l].kind = nid]
    BY <1>8 DEF Identifying
  <2>2. found[l] \in Found
    BY <1>5, ElementOfSeq
  <2>3. [found[l] EXCEPT !.kind = nid] \in Found
    BY <2>2 DEF Found
  <2>4. found' = [found EXCEPT ![l] = [found[l] EXCEPT !.kind = nid]]
    BY <2>1, <1>5, LenProperties
  <2>5. /\ found' \in Seq(Found) /\ Len(found') = l
        /\ found'[l] = [found[l] EXCEPT !.kind = nid]
    BY <1>5, <2>3, <2>4, ExceptSeq
  <2>6. found'[l].at = found[l].at /\ found'[l].kind = nid
    BY <2>2, <2>5 DEF Found
  <2>7. CASE nid = None
    <3>1. d_state' = "SYNCHRONIZING" /\ d_data_unit' = None
      BY <2>1, <2>7
    <3>2. Types'
      BY <1>1, <1>2, <1>3, <2>5, <3>1 DEF Types
    <3>3. Framing'
      BY <1>1, <1>2, <1>4, <1>6, <3>1 DEF Framing
    <3>4. Heading'
      BY <3>1 DEF Heading
    <3> QED BY <3>2, <3>3, <3>4 DEF Framed
  <2>8. CASE nid # None
    <3>1. d_state' = "READING" /\ d_data_unit' = [kind |-> nid, body |-> NextHdr]
      BY <2>1, <2>8
    <3>2. d_data_unit' \in Unit /\ d_data_unit' # None
      BY <1>1, <2>8, <3>1, Sizes DEF Unit
    <3>3. d_data_unit'.kind = nid /\ d_data_unit'.body = NextHdr /\ nid \in Kinds
      BY <2>8, <3>1
    <3>4. Types'
      BY <1>1, <1>2, <1>3, <2>5, <3>1, <3>2 DEF Types
    <3>5. FrameSize(d_data_unit)' < Size[d_data_unit.kind]'
      BY <1>8, <3>3, Sizes DEF FrameSize
    <3>6. Framing'
      BY <1>1, <1>2, <1>4, <1>6, <3>1, <3>2, <3>3, <3>5 DEF Framing
    <3>7. found'[Len(found')].at = t' - n + FsLen
      BY <1>1, <1>5, <2>5, <2>6, Sizes
    <3>8. Heading'
      BY <1>2, <1>5, <1>6, <2>5, <2>6, <3>1, <3>3, <3>7 DEF Heading
    <3> QED BY <3>4, <3>6, <3>8 DEF Framed
  <2> QED BY <2>7, <2>8
<1> QED BY <1>7, <1>8

LEMMA FramedReading ==
    ASSUME Framed, NEW fs \in BOOLEAN, Received(fs), stage = "none", Reading(NextHdr)
    PROVE  Framed' /\ found' = found
<1> DEFINE n == Len(NextHdr)
           u == d_data_unit
<1>1. /\ NextHdr \in Seq(Nat) /\ n = Len(d_frame_hdr) + 1 /\ t' \in Nat /\ t' = t + 1
      /\ Len(d_frame_hdr) \in Nat /\ Len(d_frame_hdr) <= t /\ n \in Nat /\ t \in Nat
  BY Hdr DEF Received, Framed, Types
<1>0. NextHdr = [i \in 1..n |-> t' - n + i]
  BY Hdr DEF Received
<1>2. /\ d_state = "READING" /\ d_state' = "READING" /\ d_frame_hdr' = NextHdr
      /\ found' = found /\ u # None /\ u \in Unit /\ ~exited /\ u.body = d_frame_hdr
  BY DEF Framed, Framing, Types, Reading
<1>3. FrameSize(u) < Size[u.kind] /\ FrameSize(u) = Len(d_frame_hdr) /\ u.kind \in Kinds
  BY <1>2 DEF Framed, Framing, FrameSize, Unit
<1>4. Size[u.kind] \in Nat /\ ~IsComplete(u)
  BY <1>1, <1>3, Sizes DEF IsComplete
<1>5. /\ u' = Extend(u, t + 1) /\ exited' = exited
      /\ stage' = IF IsComplete(u') THEN "voice" ELSE stage
  BY <1>4 DEF Reading
<1>6. u' \in Unit /\ u'.body = NextHdr /\ u'.kind = u.kind
  BY <1>1, <1>2, <1>5 DEF Extend, Unit, NextHdr
<1>7. u' # None
  BY <1>6, Sizes
<1>8. FrameSize(u') = n /\ n <= Size[u.kind]
  BY <1>1, <1>3, <1>4, <1>6 DEF FrameSize
<1>9. IF stage' = "none" THEN FrameSize(u') < Size[u'.kind] ELSE FrameSize(u') = Size[u'.kind]
  BY <1>1, <1>4, <1>5, <1>6, <1>8 DEF IsComplete
<1>10. syncs' \subseteq 1..t'
  <2>1. syncs \subseteq 1..t /\ t \in Nat
    BY DEF Framed, Types
  <2> QED BY <2>1 DEF Received
<1>11. Types'
  BY <1>1, <1>2, <1>5, <1>6, <1>10 DEF Framed, Types
<1>12. d_frame_hdr' = Tail_(Len(d_frame_hdr))'
  BY <1>0, <1>2 DEF Tail_
<1>13. Framing'
  BY <1>1, <1>2, <1>5, <1>6, <1>7, <1>9, <1>12 DEF Framing
<1>14. t' - Len(d_frame_hdr') + FsLen = t - Len(d_frame_hdr) + FsLen
  BY <1>1, <1>2, Sizes
<1>15. FsLen <= Len(d_frame_hdr')
  BY <1>1, <1>2, Sizes DEF Framed, Heading
<1>16. Heading'
  BY <1>2, <1>6, <1>14, <1>15 DEF Framed, Heading
<1> QED BY <1>2, <1>11, <1>13, <1>16 DEF Framed

-----------------------------------------------------------------------------
(* Framed is inductive.                                                    *)

LEMMA FramedInit == Init => Framed
<1> SUFFICES ASSUME Init PROVE Framed
  OBVIOUS
<1>1. Types
  BY DEF Init, Types, Unit
<1>2. << >> = [i \in 1..0 |-> 0 - 0 + i]
  OBVIOUS
<1>3. Framing
  BY <1>2, Sizes DEF Init, Framing, Tail_
<1>4. Heading
  BY DEF Init, Heading
<1> QED BY <1>1, <1>3, <1>4 DEF Framed

Untouched == UNCHANGED <<d_state, d_frame_hdr, d_data_unit, exited, t, syncs, found>>
HandedOn ==
    \/ stage' = stage
    \/ stage = "voice" /\ stage' = "snapshot"
    \/ stage = "snapshot" /\ stage' = "p25cai"

LEMMA FramedSame == ASSUME Framed, Untouched, HandedOn PROVE Framed'
<1> USE DEF Untouched, HandedOn
<1>1. Types'
  BY DEF Framed, Types
<1>2. Tail_(Len(d_frame_hdr))' = Tail_(Len(d_frame_hdr))
  BY DEF Tail_
<1>3. Framing'
  BY <1>2 DEF Framed, Framing, FrameSize
<1>4. Heading'
  BY DEF Framed, Heading
<1> QED BY <1>1, <1>3, <1>4 DEF Framed

LEMMA FramedCai == ASSUME Framed, CaiHandle PROVE Framed'
<1>1. /\ d_data_unit # None /\ d_data_unit.body = d_frame_hdr /\ d_data_unit \in Unit
      /\ Len(d_frame_hdr) = Size[d_data_unit.kind]
  BY DEF Framed, Framing, Types, CaiHandle, FrameSize
<1>2. Len(d_frame_hdr) >= FsLen
  BY <1>1, Sizes DEF Unit
<1>3. /\ UNCHANGED <<d_frame_hdr, exited, t, syncs, found>> /\ stage' = "none"
      /\ d_data_unit' = None /\ d_state' = "SYNCHRONIZING"
  BY DEF CaiHandle
<1>4. Types'
  BY <1>3 DEF Framed, Types
<1>5. Tail_(Len(d_frame_hdr))' = Tail_(Len(d_frame_hdr))
  BY <1>3 DEF Tail_
<1>6. Framing'
  BY <1>2, <1>3, <1>5 DEF Framed, Framing
<1>7. Heading'
  BY <1>3 DEF Heading
<1> QED BY <1>4, <1>6, <1>7 DEF Framed

LEMMA FramedNext == ASSUME Framed, [Next]_vars PROVE Framed'
<1>1. CASE ReceiveSymbol
  <2>1. PICK fs \in BOOLEAN :
          /\ Received(fs) /\ (fs => t + 1 >= FsLen) /\ stage = "none"
          /\ \/ Synchronizing(NextHdr, fs)
             \/ \E nid \in Kinds \cup {None} : Identifying(NextHdr, nid)
             \/ Reading(NextHdr)
    BY <1>1 DEF ReceiveSymbol, Received, NextHdr
  <2>2. CASE Synchronizing(NextHdr, fs)
    BY <2>1, <2>2, FramedSynchronizing
  <2>3. CASE \E nid \in Kinds \cup {None} : Identifying(NextHdr, nid)
    BY <2>1, <2>3, FramedIdentifying
  <2>4. CASE Reading(NextHdr)
    BY <2>1, <2>4, FramedReading
  <2> QED BY <2>1, <2>2, <2>3, <2>4
<1>2. CASE CaiHandle
  BY <1>2, FramedCai
<1>3. CASE StartWork \/ Produce
  <2>1. Untouched /\ HandedOn
    BY <1>3 DEF Untouched, HandedOn, StartWork, Produce, blockVars, chainVars
  <2> QED BY <2>1, FramedSame
<1>4. CASE VoiceHandle
  <2>1. Untouched /\ HandedOn
    BY <1>4 DEF Untouched, HandedOn, VoiceHandle, blockVars
  <2> QED BY <2>1, FramedSame
<1>5. CASE SnapshotHandle
  <2>1. Untouched /\ HandedOn
    BY <1>5 DEF Untouched, HandedOn, SnapshotHandle, blockVars
  <2> QED BY <2>1, FramedSame
<1>6. CASE Watch \/ UNCHANGED vars
  <2>1. Untouched /\ HandedOn
    BY <1>6 DEF Untouched, HandedOn, Watch, vars, blockVars, chainVars
  <2> QED BY <2>1, FramedSame
<1> QED BY <1>1, <1>2, <1>3, <1>4, <1>5, <1>6 DEF Next

\* The decoder keeps the end of the stream and the frame it reads in step, a
\* complete frame goes to the handlers at once, and so extend never throws.
THEOREM FramesInStep == Spec => []Framing
<1>1. Framed => Framing
  BY DEF Framed
<1>2. Framed /\ [Next]_vars => Framed'
  BY FramedNext
<1> QED BY <1>1, <1>2, FramedInit, PTL DEF Spec

-----------------------------------------------------------------------------
(* No frame sync is missed.                                                *)

\* The sync f, acted on, accounts for s.
Explains(f, s) == s = f.at \/ (f.at < s /\ s <= f.at + Shadow(f))

\* A step may add to found and give the last sync its kind.
Later(f, g) ==
    /\ g.at = f.at
    /\ g.kind = f.kind \/ (f.kind = None /\ g.kind \in Kinds)

LEMMA StillExplained ==
    ASSUME Framed, NEW i \in 1..Len(found), NEW s \in Nat, Explains(found[i], s),
           Later(found[i], found'[i])
    PROVE  Explains(found'[i], s)
<1>1. found[i] \in Found
  BY ElementOfSeq DEF Framed, Types
<1>2. found[i].at \in Nat
  BY <1>1 DEF Found
<1>3. Shadow(found[i]) \in Int
  BY <1>1, Sizes DEF Shadow, Found, Later
<1>4. Shadow(found'[i]) \in Int /\ Shadow(found[i]) <= Shadow(found'[i])
  BY <1>1, Sizes DEF Shadow, Found, Later
<1>5. CASE s = found[i].at
  BY <1>5 DEF Explains, Later
<1>6. CASE found[i].at < s /\ s <= found[i].at + Shadow(found[i])
  BY <1>2, <1>3, <1>4, <1>6 DEF Explains, Later
<1> QED BY <1>5, <1>6 DEF Explains, Later

\* The syncs so far stay explained, and so is one that ends with this dibit.
LEMMA Missed ==
    ASSUME Framed, NoSyncMissed, NEW fs \in BOOLEAN, Received(fs),
           Len(found) \in Nat, Len(found') \in Nat, Len(found) <= Len(found'),
           \A i \in 1..Len(found) : Later(found[i], found'[i]),
           fs => \E i \in 1..Len(found') : Explains(found'[i], t + 1)
    PROVE  NoSyncMissed'
<1> SUFFICES ASSUME NEW s \in syncs' PROVE \E i \in 1..Len(found') : Explains(found'[i], s)
  BY DEF NoSyncMissed, Explains
<1>1. CASE s \in syncs
  <2>1. PICK i \in 1..Len(found) : Explains(found[i], s)
    BY <1>1 DEF NoSyncMissed, Explains
  <2>2. s \in Nat
    <3>1. syncs \subseteq 1..t /\ t \in Nat
      BY DEF Framed, Types
    <3> QED BY <1>1, <3>1
  <2>3. Explains(found'[i], s)
    BY <2>1, <2>2, StillExplained
  <2>4. i \in 1..Len(found')
    BY <2>1
  <2> QED BY <2>3, <2>4
<1>2. CASE s \notin syncs
  <2>1. fs /\ s = t + 1
    BY <1>2 DEF Received
  <2>2. PICK i \in 1..Len(found') : Explains(found'[i], t + 1)
    BY <2>1
  <2> QED BY <2>1, <2>2 DEF Explains, Received
<1> QED BY <1>1, <1>2

LEMMA NoSyncMissedNext == ASSUME Framed, NoSyncMissed, [Next]_vars PROVE NoSyncMissed'
<1> DEFINE l == Len(found)
           last == found'[Len(found')]
<1>1. CASE ReceiveSymbol
  <2>1. PICK fs \in BOOLEAN :
          /\ Received(fs) /\ (fs => t + 1 >= FsLen) /\ stage = "none"
          /\ \/ Synchronizing(NextHdr, fs)
             \/ \E nid \in Kinds \cup {None} : Identifying(NextHdr, nid)
             \/ Reading(NextHdr)
    BY <1>1 DEF ReceiveSymbol, Received, NextHdr
  <2>2. /\ found \in Seq(Found) /\ l \in Nat /\ t \in Nat /\ t' = t + 1
        /\ Len(d_frame_hdr) \in Nat /\ Len(NextHdr) = Len(d_frame_hdr) + 1
    BY <2>1, Hdr, LenProperties DEF Framed, Types, Received
  <2>3. CASE Synchronizing(NextHdr, fs)
    <3>1. CASE ~fs
      <4>1. found' = found
        BY <2>3, <3>1 DEF Synchronizing
      <4> QED BY <2>1, <2>2, <3>1, <4>1, Missed DEF Later
    <3>2. CASE fs
      <4>1. Len(NextHdr) >= FsLen
        BY <2>1, <2>2, <2>3, <3>2, Sizes DEF Framed, Framing, Synchronizing
      <4>2. found' = Append(found, [at |-> t + 1, kind |-> None])
        BY <2>3, <3>2, <4>1 DEF Synchronizing
      <4>3. [at |-> t + 1, kind |-> None] \in Found
        BY <2>2 DEF Found
      <4>4. /\ Len(found') = l + 1 /\ found'[l + 1] = [at |-> t + 1, kind |-> None]
            /\ \A i \in 1..l : found'[i] = found[i]
        BY <4>2, <4>3, Marked
      <4>5. found'[l + 1].at = t + 1 /\ l + 1 \in 1..Len(found')
        BY <2>2, <4>4
      <4>6. Explains(found'[l + 1], t + 1)
        BY <4>5, <2>1 DEF Explains, Received
      <4> QED BY <2>1, <2>2, <4>4, <4>5, <4>6, Missed DEF Later
    <3> QED BY <3>1, <3>2
  <2>4. CASE \E nid \in Kinds \cup {None} : Identifying(NextHdr, nid)
    <3>1. PICK nid \in Kinds \cup {None} : Identifying(NextHdr, nid)
      BY <2>4
    <3>2. /\ d_state = "IDENTIFYING" /\ l \in 1..l /\ FsLen <= Len(d_frame_hdr)
          /\ Len(NextHdr) <= HdrLen
          /\ found[l].at = t - Len(d_frame_hdr) + FsLen /\ found[l].kind = None
      BY <2>2, <3>1, Sizes DEF Framed, Framing, Heading, Identifying
    <3>3. found' = found \/ found' = [found EXCEPT ![l].kind = nid]
      BY <3>1 DEF Identifying
    <3>4. found[l] \in Found
      BY <2>2, <3>2, ElementOfSeq
    <3>5. found' \in Seq(Found) /\ Len(found') = l /\ \A i \in 1..l \ {l} : found'[i] = found[i]
      <4>1. [found[l] EXCEPT !.kind = nid] \in Found
        BY <3>4 DEF Found
      <4>2. [found EXCEPT ![l].kind = nid] = [found EXCEPT ![l] = [found[l] EXCEPT !.kind = nid]]
        BY <2>2, <3>2, LenProperties
      <4>3. CASE found' = found
        BY <2>2, <4>3
      <4>4. CASE found' = [found EXCEPT ![l].kind = nid]
        BY <2>2, <3>2, <4>1, <4>2, <4>4, ExceptSeq
      <4> QED BY <3>3, <4>3, <4>4
    <3>6. found'[l].at = found[l].at /\ found'[l].kind \in {None, nid}
      <4>1. l \in DOMAIN found
        BY <2>2, <3>2, LenProperties
      <4> QED BY <3>2, <3>3, <3>4, <4>1 DEF Found
    <3>7. \A i \in 1..l : Later(found[i], found'[i])
      BY <3>2, <3>5, <3>6 DEF Later
    <3>8. Shadow(found'[l]) \in Int /\ Shadow(found'[l]) >= HdrLen - FsLen
      BY <3>6, Sizes DEF Shadow
    <3>9. Explains(found'[l], t + 1)
      BY <2>2, <3>2, <3>6, <3>8, Sizes DEF Explains
    <3> QED BY <2>1, <2>2, <3>2, <3>5, <3>7, <3>9, Missed
  <2>5. CASE Reading(NextHdr)
    <3>1. found' = found
      BY <2>1, <2>5, FramedReading
    <3>2. /\ d_state = "READING" /\ l \in 1..l /\ d_data_unit # None
          /\ found[l].at = t - Len(d_frame_hdr) + FsLen
          /\ found[l].kind = d_data_unit.kind
      BY <2>5 DEF Framed, Framing, Heading, Reading
    <3>3. /\ d_data_unit \in Unit /\ d_data_unit.body = d_frame_hdr
          /\ Len(d_frame_hdr) < Size[d_data_unit.kind]
      BY <2>1, <3>2 DEF Framed, Framing, Types, FrameSize
    <3>4. d_data_unit.kind \in Kinds /\ found[l].kind # None
      BY <3>2, <3>3, Sizes DEF Unit
    <3>5. FsLen <= Len(d_frame_hdr)
      BY <3>2 DEF Framed, Heading
    <3>6. Explains(found[l], t + 1)
      BY <2>2, <3>2, <3>3, <3>4, <3>5, Sizes DEF Explains, Shadow
    <3> QED BY <2>1, <2>2, <3>1, <3>2, <3>6, Missed DEF Later
  <2> QED BY <2>1, <2>3, <2>4, <2>5
<1>2. CASE UNCHANGED <<syncs, found>>
  BY <1>2 DEF NoSyncMissed, Shadow
<1>3. CASE StartWork \/ Produce \/ VoiceHandle \/ SnapshotHandle \/ CaiHandle \/ Watch
  BY <1>2, <1>3 DEF StartWork, Produce, VoiceHandle, SnapshotHandle, CaiHandle, Watch
<1>4. CASE UNCHANGED vars
  BY <1>2, <1>4 DEF vars
<1> QED BY <1>1, <1>3, <1>4 DEF Next

\* A frame sync in the stream is acted on unless it ends inside the frame or
\* unrecognised header of an earlier one: the decoder is never deaf for longer.
THEOREM SyncsActedOn == Spec => []NoSyncMissed
<1>1. Init => NoSyncMissed
  BY DEF Init, NoSyncMissed
<1>2. Framed /\ NoSyncMissed /\ [Next]_vars => Framed' /\ NoSyncMissed'
  BY FramedNext, NoSyncMissedNext
<1> QED BY <1>1, <1>2, FramedInit, PTL DEF Spec

-----------------------------------------------------------------------------
(* Counting.                                                               *)

Counted(s, ks, i) == {j \in 1..i : s[j].kind \in ks}

LEMMA CountType ==
    ASSUME NEW s, NEW ks, NEW i \in Nat
    PROVE  /\ IsFiniteSet(Counted(s, ks, i)) /\ Count(s, ks, i) = Cardinality(Counted(s, ks, i))
           /\ Count(s, ks, i) \in Nat /\ Count(s, ks, i) <= i
<1>1. 0 \in Int /\ 1 \in Int /\ i \in Int
  OBVIOUS
<1>2. IsFiniteSet(1..i) /\ Cardinality(1..i) = i
  BY <1>1, FS_Interval
<1>3. Counted(s, ks, i) \subseteq 1..i
  BY DEF Counted
<1>4. IsFiniteSet(Counted(s, ks, i)) /\ Cardinality(Counted(s, ks, i)) <= i
  BY <1>2, <1>3, FS_Subset
<1> QED BY <1>4, FS_CardinalityType DEF Count, Counted

LEMMA CountNone == ASSUME NEW s, NEW ks PROVE Count(s, ks, 0) = 0
<1>1. Counted(s, ks, 0) = {}
  BY DEF Counted
<1> QED BY <1>1, CountType, FS_EmptySet

LEMMA CountOne ==
    ASSUME NEW s, NEW ks, NEW i \in Nat
    PROVE  Count(s, ks, i + 1) = Count(s, ks, i) + (IF s[i + 1].kind \in ks THEN 1 ELSE 0)
<1> DEFINE c == Counted(s, ks, i)
<1>1. IsFiniteSet(c) /\ Cardinality(c) = Count(s, ks, i) /\ Cardinality(c) \in Nat
  BY CountType
<1>2. Count(s, ks, i + 1) = Cardinality(Counted(s, ks, i + 1))
  BY CountType
<1>3. i + 1 \notin c
  BY DEF Counted
<1>4. CASE s[i + 1].kind \in ks
  <2>1. Counted(s, ks, i + 1) = c \cup {i + 1}
    BY <1>4 DEF Counted
  <2>2. Cardinality(c \cup {i + 1}) = Cardinality(c) + 1
    BY <1>1, <1>3, FS_AddElement
  <2> QED BY <1>1, <1>2, <1>4, <2>1, <2>2
<1>5. CASE s[i + 1].kind \notin ks
  <2>1. Counted(s, ks, i + 1) = c
    BY <1>5 DEF Counted
  <2> QED BY <1>1, <1>2, <1>5, <2>1
<1> QED BY <1>4, <1>5

LEMMA CountUpTo ==
    ASSUME NEW s, NEW ks, NEW i \in Nat, NEW j \in Nat, i <= j
    PROVE  Count(s, ks, i) <= Count(s, ks, j)
<1>1. Counted(s, ks, i) \subseteq Counted(s, ks, j)
  BY DEF Counted
<1> QED BY <1>1, CountType, FS_Subset

LEMMA CountSame ==
    ASSUME NEW s, NEW r, NEW ks, NEW i \in Nat,
           \A j \in 1..i : s[j].kind \in ks <=> r[j].kind \in ks
    PROVE  Count(s, ks, i) = Count(r, ks, i)
BY DEF Count

\* out is the units of s of the kinds, in order.
Selects(out, s, ks) ==
    /\ Len(out) = Count(s, ks, Len(s))
    /\ \A i \in 1..Len(s) : s[i].kind \in ks => out[Count(s, ks, i)] = s[i]

LEMMA SelectsMore ==
    ASSUME NEW out \in Seq(Unit), NEW s \in Seq(Unit), NEW u \in Unit, NEW ks, Selects(out, s, ks)
    PROVE  Selects(IF u.kind \in ks THEN Append(out, u) ELSE out, Append(s, u), ks)
<1> DEFINE r == Append(s, u)
           n == Len(s)
           o == IF u.kind \in ks THEN Append(out, u) ELSE out
<1>1. /\ r \in Seq(Unit) /\ Len(r) = n + 1 /\ n \in Nat /\ r[n + 1] = u
      /\ \A i \in 1..n : r[i] = s[i]
  BY AppendProperties, LenProperties
<1>2. Len(out) \in Nat /\ Len(Append(out, u)) = Len(out) + 1 /\ Append(out, u)[Len(out) + 1] = u
      /\ \A i \in 1..Len(out) : Append(out, u)[i] = out[i]
  BY AppendProperties, LenProperties
<1>o. (u.kind \in ks => o = Append(out, u)) /\ (u.kind \notin ks => o = out)
  OBVIOUS
<1> HIDE DEF r, n, o
<1>3. \A i \in 0..n : Count(r, ks, i) = Count(s, ks, i)
  <2> TAKE i \in 0..n
  <2>1. i \in Nat /\ \A j \in 1..i : r[j].kind \in ks <=> s[j].kind \in ks
    BY <1>1
  <2> QED BY <2>1, CountSame
<1>4. Len(out) = Count(s, ks, n) /\ \A i \in 1..n : s[i].kind \in ks => out[Count(s, ks, i)] = s[i]
  BY DEF Selects, n
<1>5. Count(r, ks, n + 1) = Len(out) + (IF u.kind \in ks THEN 1 ELSE 0)
  <2>1. Count(r, ks, n + 1) = Count(r, ks, n) + (IF u.kind \in ks THEN 1 ELSE 0)
    BY <1>1, CountOne
  <2>2. Count(r, ks, n) = Count(s, ks, n)
    BY <1>1, <1>3
  <2> QED BY <1>4, <2>1, <2>2
<1>6. Len(o) = Count(r, ks, n + 1)
  BY <1>2, <1>o, <1>5
<1>7. ASSUME NEW i \in 1..n + 1, r[i].kind \in ks PROVE o[Count(r, ks, i)] = r[i]
  <2>1. CASE i = n + 1
    <3>1. Count(r, ks, i) = Len(out) + 1 /\ o = Append(out, u) /\ r[i] = u
      BY <1>1, <1>5, <1>7, <1>o, <2>1
    <3> QED BY <1>2, <3>1
  <2>2. CASE i # n + 1
    <3>1. i \in 1..n /\ i \in Nat /\ i - 1 \in Nat /\ i <= n /\ n \in Nat
      BY <1>1, <2>2
    <3>2. r[i] = s[i] /\ Count(r, ks, i) = Count(s, ks, i)
      BY <1>1, <1>3, <3>1
    <3>3. out[Count(s, ks, i)] = s[i]
      BY <1>4, <1>7, <3>1, <3>2
    <3>4. Count(s, ks, i) \in 1..Len(out)
      <4>1. Count(s, ks, i) <= Count(s, ks, n)
        BY <3>1, CountUpTo
      <4>2. Count(s, ks, (i - 1) + 1) = Count(s, ks, i - 1) + (IF s[(i - 1) + 1].kind \in ks THEN 1 ELSE 0)
        BY <3>1, CountOne
      <4>3. (i - 1) + 1 = i
        BY <3>1
      <4>4. Count(s, ks, i) = Count(s, ks, i - 1) + 1
        BY <1>7, <3>2, <4>2, <4>3
      <4>5. Count(s, ks, i - 1) \in Nat
        BY <3>1, CountType
      <4> QED BY <1>2, <1>4, <4>1, <4>4, <4>5
    <3>5. o[Count(s, ks, i)] = out[Count(s, ks, i)]
      BY <1>2, <1>o, <3>4
    <3> QED BY <3>2, <3>3, <3>5
  <2> QED BY <2>1, <2>2
<1> QED BY <1>1, <1>6, <1>7 DEF Selects, r, o


-----------------------------------------------------------------------------
(* Frames: what reached the socket is what was found, in order.            *)

Headed == Count(found, Kinds, Len(found))
Frames ==
    /\ cai \in Seq(Unit)
    /\ Headed = Len(cai) + (IF d_data_unit = None THEN 0 ELSE 1)
    /\ \A i \in 1..Len(found) :
         found[i].kind \in Kinds /\ Count(found, Kinds, i) <= Len(cai)
            => cai[Count(found, Kinds, i)] = FrameOf(found[i])

LEMMA FoundLen ==
    ASSUME Framed
    PROVE  found \in Seq(Found) /\ Len(found) \in Nat /\ \A i \in 1..Len(found) : found[i] \in Found
BY ElementOfSeq, LenProperties DEF Framed, Types

\* A sync not yet identified counts for nothing.
LEMMA FramesFound ==
    ASSUME Framed, Frames, NEW f \in Found, f.kind = None, found' = Append(found, f),
           UNCHANGED <<cai, d_data_unit>>
    PROVE  Frames'
<1> DEFINE l == Len(found)
<1>1. /\ l \in Nat /\ Len(found') = l + 1 /\ found'[l + 1] = f
      /\ \A i \in 1..l : found'[i] = found[i]
  BY Marked
<1> HIDE DEF l
<1>2. None \notin Kinds
  BY Sizes
<1>3. \A i \in 0..l : Count(found', Kinds, i) = Count(found, Kinds, i)
  <2> TAKE i \in 0..l
  <2>1. i \in Nat /\ \A j \in 1..i : found[j].kind \in Kinds <=> found'[j].kind \in Kinds
    BY <1>1
  <2> QED BY <2>1, CountSame
<1>4. Count(found', Kinds, l + 1) = Count(found, Kinds, l)
  <2>1. Count(found', Kinds, l + 1)
          = Count(found', Kinds, l) + (IF found'[l + 1].kind \in Kinds THEN 1 ELSE 0)
    BY ONLY <1>1, CountOne
  <2>2. Count(found, Kinds, l) \in Nat
    BY <1>1, CountType
  <2>3. l \in 0..l /\ found'[l + 1].kind \notin Kinds
    BY <1>1, <1>2
  <2>4. Count(found', Kinds, l) = Count(found, Kinds, l)
    BY <1>3, <2>3
  <2> QED BY ONLY <2>1, <2>2, <2>3, <2>4
<1>5. \A i \in 1..l + 1 : found'[i].kind \in Kinds =>
        i \in 1..l /\ found'[i] = found[i] /\ Count(found', Kinds, i) = Count(found, Kinds, i)
  <2> SUFFICES ASSUME NEW i \in 1..l + 1, found'[i].kind \in Kinds
               PROVE  i \in 1..l /\ found'[i] = found[i]
                      /\ Count(found', Kinds, i) = Count(found, Kinds, i)
    OBVIOUS
  <2>1. i # l + 1
    BY <1>1, <1>2
  <2> QED BY <1>1, <1>3, <2>1
<1>6. Headed' = Headed
  BY <1>1, <1>4 DEF Headed, l
<1>7. /\ cai \in Seq(Unit) /\ Headed = Len(cai) + (IF d_data_unit = None THEN 0 ELSE 1)
      /\ \A i \in 1..l :
           found[i].kind \in Kinds /\ Count(found, Kinds, i) <= Len(cai)
              => cai[Count(found, Kinds, i)] = FrameOf(found[i])
  BY DEF Frames, l
<1>8. \A i \in 1..Len(found') :
         found'[i].kind \in Kinds /\ Count(found', Kinds, i) <= Len(cai)
            => cai[Count(found', Kinds, i)] = FrameOf(found'[i])
  BY <1>1, <1>5, <1>7
<1> QED BY <1>6, <1>7, <1>8 DEF Frames, FrameOf

\* Identified, it is the frame inside, or none.
LEMMA FramesIdentified ==
    ASSUME Framed, Frames, d_state = "IDENTIFYING", NEW nid \in Kinds \cup {None},
           found' = [found EXCEPT ![Len(found)].kind = nid],
           d_data_unit' = None <=> nid = None, cai' = cai
    PROVE  Frames'
<1> DEFINE l == Len(found)
<1>1. found \in Seq(Found) /\ l \in 1..l /\ l \in Nat /\ found[l].kind = None /\ found[l] \in Found
  BY FoundLen DEF Framed, Heading
<1>2. /\ Len(found') = l /\ found'[l].kind = nid
      /\ \A i \in 1..l \ {l} : found'[i] = found[i]
  <2>1. [found[l] EXCEPT !.kind = nid] \in Found
    BY <1>1 DEF Found
  <2>2. l \in DOMAIN found
    BY <1>1
  <2>3. [found EXCEPT ![l].kind = nid] = [found EXCEPT ![l] = [found[l] EXCEPT !.kind = nid]]
    BY <2>2
  <2>4. found'[l] = [found[l] EXCEPT !.kind = nid]
    BY <2>2
  <2> QED BY <1>1, <2>1, <2>3, <2>4, ExceptSeq DEF Found
<1>3. d_data_unit = None
  <2>1. d_state # "READING"
    OBVIOUS
  <2> QED BY <2>1 DEF Framed, Framing
<1> HIDE DEF l
<1>4. None \notin Kinds /\ l - 1 \in Nat /\ (l - 1) + 1 = l
  BY <1>1, Sizes
<1>5. \A i \in 0..l - 1 : Count(found', Kinds, i) = Count(found, Kinds, i)
  <2> TAKE i \in 0..l - 1
  <2>1. i \in Nat /\ \A j \in 1..i : found[j].kind \in Kinds <=> found'[j].kind \in Kinds
    BY <1>1, <1>2
  <2> QED BY ONLY <2>1, CountSame
<1>6. /\ Count(found, Kinds, l) = Count(found, Kinds, l - 1)
      /\ Count(found', Kinds, l) = Count(found, Kinds, l - 1) + (IF nid = None THEN 0 ELSE 1)
      /\ Count(found, Kinds, l - 1) \in Nat
  <2>1. /\ Count(found, Kinds, (l - 1) + 1)
             = Count(found, Kinds, l - 1) + (IF found[(l - 1) + 1].kind \in Kinds THEN 1 ELSE 0)
        /\ Count(found', Kinds, (l - 1) + 1)
             = Count(found', Kinds, l - 1) + (IF found'[(l - 1) + 1].kind \in Kinds THEN 1 ELSE 0)
    BY ONLY <1>4, CountOne
  <2>2. Count(found, Kinds, l - 1) \in Nat
    BY <1>4, CountType
  <2>3. Count(found', Kinds, l - 1) = Count(found, Kinds, l - 1)
    BY ONLY <1>4, <1>5
  <2>4. found[l].kind \notin Kinds /\ (nid \in Kinds <=> nid # None)
    BY <1>1, <1>4
  <2> QED BY <1>2, <1>4, <2>1, <2>2, <2>3, <2>4
<1>7. /\ cai \in Seq(Unit) /\ Len(cai) \in Nat
      /\ Count(found, Kinds, l) = Len(cai) + (IF d_data_unit = None THEN 0 ELSE 1)
      /\ \A i \in 1..l :
           found[i].kind \in Kinds /\ Count(found, Kinds, i) <= Len(cai)
              => cai[Count(found, Kinds, i)] = FrameOf(found[i])
  BY LenProperties DEF Frames, Headed, l
<1>8. Count(found', Kinds, l) = Len(cai) + (IF nid = None THEN 0 ELSE 1)
  BY <1>3, <1>6, <1>7
<1>9. \A i \in 1..l : found'[i].kind \in Kinds /\ Count(found', Kinds, i) <= Len(cai)
            => cai[Count(found', Kinds, i)] = FrameOf(found'[i])
  <2> SUFFICES ASSUME NEW i \in 1..l, found'[i].kind \in Kinds, Count(found', Kinds, i) <= Len(cai)
               PROVE  cai[Count(found', Kinds, i)] = FrameOf(found'[i])
    OBVIOUS
  <2>1. i # l
    BY <1>2, <1>4, <1>7, <1>8
  <2>2. i \in 1..l \ {l} /\ i \in 0..l - 1
    BY <1>1, <2>1
  <2> QED BY <1>2, <1>5, <1>7, <2>2
<1>10. Headed' = Len(cai') + (IF d_data_unit' = None THEN 0 ELSE 1)
  BY <1>2, <1>8 DEF Headed
<1> QED BY <1>2, <1>7, <1>9, <1>10 DEF Frames, FrameOf

\* A complete unit is its frame.
LEMMA WholeFrame ==
    ASSUME Framed, stage # "none"
    PROVE  /\ d_data_unit \in Unit /\ d_data_unit # None /\ Len(found) \in 1..Len(found)
           /\ found[Len(found)].kind \in Kinds /\ d_data_unit = FrameOf(found[Len(found)])
<1> DEFINE f == found[Len(found)]
           n == Len(d_frame_hdr)
<1>1. /\ d_data_unit \in Unit /\ d_data_unit # None /\ d_data_unit.body = d_frame_hdr
      /\ n = Size[d_data_unit.kind] /\ d_frame_hdr = Tail_(n)
      /\ d_state = "READING" /\ t \in Nat
  BY DEF Framed, Framing, Types, FrameSize
<1>2. Len(found) \in 1..Len(found) /\ f.at = t - n + FsLen /\ f.kind = d_data_unit.kind
  BY <1>1 DEF Framed, Heading
<1>3. f.kind \in Kinds
  BY <1>1, <1>2 DEF Unit
<1>4. n \in Nat /\ FsLen \in Nat
  BY <1>1, <1>2, <1>3, Sizes
<1>5. d_data_unit = [kind |-> d_data_unit.kind, body |-> d_data_unit.body]
  BY <1>1 DEF Unit
<1> HIDE DEF f, n
<1>6. \A j \in 1..n : f.at - FsLen + j = t - n + j
  BY <1>1, <1>2, <1>4
<1>7. [j \in 1..n |-> f.at - FsLen + j] = [j \in 1..n |-> t - n + j]
  BY <1>6
<1>8. FrameOf(f) = [kind |-> d_data_unit.kind, body |-> Tail_(n)]
  BY <1>1, <1>2, <1>7 DEF FrameOf, Tail_
<1> QED BY <1>1, <1>2, <1>3, <1>5, <1>8 DEF f

LEMMA FramesCai == ASSUME Framed, Frames, CaiHandle PROVE Frames'
<1> DEFINE l == Len(found)
           u == d_data_unit
           c(i) == Count(found, Kinds, i)
<1>1. /\ u \in Unit /\ u # None /\ l \in 1..l /\ l \in Nat /\ found[l].kind \in Kinds
      /\ u = FrameOf(found[l])
  BY WholeFrame, FoundLen DEF CaiHandle
<1>2. cai' = Append(cai, u) /\ d_data_unit' = None /\ found' = found
  BY DEF CaiHandle
<1>3. cai \in Seq(Unit) /\ Len(cai) \in Nat /\ c(l) = Len(cai) + 1
  BY <1>1, LenProperties DEF Frames, Headed
<1> HIDE DEF l, u
<1>4. /\ cai' \in Seq(Unit) /\ Len(cai') = Len(cai) + 1 /\ cai'[Len(cai) + 1] = u
      /\ \A i \in 1..Len(cai) : cai'[i] = cai[i]
  BY <1>1, <1>2, <1>3, AppendProperties
<1>5. ASSUME NEW i \in 1..l, found[i].kind \in Kinds, c(i) <= Len(cai')
      PROVE  cai'[c(i)] = FrameOf(found[i])
  <2>1. CASE i = l
    BY <1>1, <1>3, <1>4, <2>1
  <2>2. CASE i # l
    <3>1. i - 1 \in Nat /\ l - 1 \in Nat /\ i \in Nat /\ i <= l - 1
      BY <1>1, <2>2
    <3>2. c((i - 1) + 1) = c(i - 1) + 1 /\ c(i - 1) \in Nat /\ (i - 1) + 1 = i
      <4>1. c((i - 1) + 1) = c(i - 1) + (IF found[(i - 1) + 1].kind \in Kinds THEN 1 ELSE 0)
        BY ONLY <3>1, CountOne
      <4>2. (i - 1) + 1 = i
        BY <3>1
      <4>3. c(i - 1) \in Nat
        BY <3>1, CountType
      <4> QED BY <1>5, <4>1, <4>2, <4>3
    <3>3. c((l - 1) + 1) = c(l - 1) + 1 /\ c(l - 1) \in Nat /\ (l - 1) + 1 = l
      BY <1>1, <3>1, CountOne, CountType
    <3>4. c(i) <= c(l - 1)
      BY <3>1, CountUpTo
    <3>5. c(i) \in 1..Len(cai)
      BY <1>3, <3>2, <3>3, <3>4
    <3>6. cai[c(i)] = FrameOf(found[i])
      BY <1>5, <3>5 DEF Frames, l
    <3> QED BY <1>4, <3>5, <3>6
  <2> QED BY <2>1, <2>2
<1>6. Headed' = Len(cai') + 0
  BY <1>2, <1>3, <1>4 DEF Headed, l
<1> QED BY <1>2, <1>4, <1>5, <1>6 DEF Frames, FrameOf, l

LEMMA FramesNext == ASSUME Framed, Frames, [Next]_vars PROVE Frames'
<1>1. CASE ReceiveSymbol
  <2>1. PICK fs \in BOOLEAN :
          /\ Received(fs) /\ stage = "none" /\ cai' = cai
          /\ \/ Synchronizing(NextHdr, fs)
             \/ \E nid \in Kinds \cup {None} : Identifying(NextHdr, nid)
             \/ Reading(NextHdr)
    BY <1>1 DEF ReceiveSymbol, Received, NextHdr, outVars
  <2>2. CASE Synchronizing(NextHdr, fs)
    <3>1. CASE found' = found
      BY <2>1, <2>2, <3>1 DEF Synchronizing, Frames, Headed, FrameOf
    <3>2. CASE found' = Append(found, [at |-> t + 1, kind |-> None])
      <4>1. [at |-> t + 1, kind |-> None] \in Found /\ d_data_unit' = d_data_unit
        BY <2>2 DEF Found, Framed, Types, Synchronizing
      <4> QED BY <2>1, <3>2, <4>1, FramesFound
    <3> QED BY <2>2, <3>1, <3>2 DEF Synchronizing
  <2>3. CASE \E nid \in Kinds \cup {None} : Identifying(NextHdr, nid)
    <3>1. PICK nid \in Kinds \cup {None} : Identifying(NextHdr, nid)
      BY <2>3
    <3>2. CASE found' = found /\ d_data_unit' = d_data_unit
      BY <2>1, <3>2 DEF Frames, Headed, FrameOf
    <3>3. CASE Len(NextHdr) = HdrLen
      <4>1. /\ d_data_unit' = IF nid = None THEN None ELSE [kind |-> nid, body |-> NextHdr]
            /\ found' = [found EXCEPT ![Len(found)].kind = nid]
            /\ d_state = "IDENTIFYING"
        BY <3>1, <3>3 DEF Identifying
      <4>2. NextHdr \in Seq(Nat)
        BY <2>1, Hdr DEF Received
      <4>3. nid # None => [kind |-> nid, body |-> NextHdr] \in Unit
        BY <4>2 DEF Unit
      <4>4. d_data_unit' = None <=> nid = None
        BY <4>1, <4>3, Sizes
      <4> QED BY <2>1, <4>1, <4>4, FramesIdentified
    <3> QED BY <3>1, <3>2, <3>3 DEF Identifying
  <2>4. CASE Reading(NextHdr)
    <3>1. found' = found /\ Framed' /\ d_state = "READING" /\ d_state' = "READING"
      BY <2>1, <2>4, FramedReading DEF Reading
    <3>2. d_data_unit # None /\ d_data_unit' # None
      BY <3>1 DEF Framed, Framing
    <3> QED BY <2>1, <3>1, <3>2 DEF Frames, Headed, FrameOf
  <2> QED BY <2>1, <2>2, <2>3, <2>4
<1>2. CASE CaiHandle
  BY <1>2, FramesCai
<1>3. CASE UNCHANGED <<found, cai, d_data_unit>>
  BY <1>3 DEF Frames, Headed, FrameOf
<1>4. CASE StartWork \/ Produce \/ VoiceHandle \/ SnapshotHandle \/ Watch
  BY <1>3, <1>4 DEF StartWork, Produce, VoiceHandle, SnapshotHandle, Watch, blockVars, outVars
<1>5. CASE UNCHANGED vars
  BY <1>3, <1>5 DEF vars, blockVars, outVars
<1> QED BY <1>1, <1>2, <1>4, <1>5 DEF Next


-----------------------------------------------------------------------------
(* Handlers: the vocoder and the watcher have had what the socket has had. *)

AtVocoder == Passed({"snapshot", "p25cai"})
AtSnapshot == Passed({"p25cai"})
Handlers ==
    /\ played \in Seq(Unit) /\ d_data_units \in Nat /\ msgq \in Seq(Nat) /\ seen \in Seq(Nat)
    /\ Selects(played, AtVocoder, Voice)
    /\ d_data_units = IF d_msgq THEN Count(AtSnapshot, Snapshots, Len(AtSnapshot)) ELSE 0
    /\ seen \o msgq = [i \in 1..d_data_units |-> i]

\* What a handler has had changes only when it hands the unit on.
LEMMA PassedOn ==
    ASSUME Framed, Frames, [Next]_vars
    PROVE  /\ stage = "voice" /\ stage' = "snapshot"
                 => AtVocoder = cai /\ AtVocoder' = Append(cai, d_data_unit)
           /\ ~(stage = "voice" /\ stage' = "snapshot") => AtVocoder' = AtVocoder
           /\ stage = "snapshot" /\ stage' = "p25cai"
                 => AtSnapshot = cai /\ AtSnapshot' = Append(cai, d_data_unit)
           /\ ~(stage = "snapshot" /\ stage' = "p25cai") => AtSnapshot' = AtSnapshot
<1> DEFINE u == d_data_unit
<1>1. cai \in Seq(Unit) /\ cai \o << >> = cai
  BY ConcatEmptySeq DEF Frames
<1>2. stage # "none" => u \in Unit /\ Append(cai, u) = cai \o <<u>>
  BY <1>1, WholeFrame, AppendIsConcat
<1>3. CASE ReceiveSymbol
  <2>1. stage = "none" /\ stage' \in {"none", "voice"} /\ cai' = cai
    BY <1>3 DEF ReceiveSymbol, Synchronizing, Identifying, Reading, outVars
  <2> QED BY <2>1 DEF AtVocoder, AtSnapshot, Passed
<1>4. CASE VoiceHandle
  <2>1. stage = "voice" /\ stage' = "snapshot" /\ cai' = cai /\ u' = u
    BY <1>4 DEF VoiceHandle, blockVars
  <2> QED BY <1>1, <1>2, <2>1 DEF AtVocoder, AtSnapshot, Passed
<1>5. CASE SnapshotHandle
  <2>1. stage = "snapshot" /\ stage' = "p25cai" /\ cai' = cai /\ u' = u
    BY <1>5 DEF SnapshotHandle, blockVars, outVars
  <2> QED BY <1>1, <1>2, <2>1 DEF AtVocoder, AtSnapshot, Passed
<1>6. CASE CaiHandle
  <2>1. stage = "p25cai" /\ stage' = "none" /\ cai' = Append(cai, u)
    BY <1>6 DEF CaiHandle
  <2>2. cai' \o << >> = cai'
    <3>1. cai' \in Seq(Unit)
      BY <1>1, <1>2, <2>1, AppendProperties
    <3> QED BY <3>1, ConcatEmptySeq
  <2> QED BY <1>2, <2>1, <2>2 DEF AtVocoder, AtSnapshot, Passed
<1>7. CASE UNCHANGED <<stage, cai, d_data_unit>>
  BY <1>7, Zenon DEF AtVocoder, AtSnapshot, Passed
<1>8. CASE StartWork \/ Produce \/ Watch
  BY <1>7, <1>8 DEF StartWork, Produce, Watch, blockVars, chainVars, outVars
<1>9. CASE UNCHANGED vars
  BY <1>7, <1>9 DEF vars, blockVars, chainVars, outVars
<1> QED BY <1>3, <1>4, <1>5, <1>6, <1>8, <1>9 DEF Next

LEMMA AudioNext ==
    ASSUME Framed, Frames, Handlers, [Next]_vars
    PROVE  played' \in Seq(Unit) /\ Selects(played', AtVocoder', Voice)
<1> DEFINE u == d_data_unit
<1>1. played \in Seq(Unit) /\ Selects(played, AtVocoder, Voice)
  BY DEF Handlers
<1>2. CASE VoiceHandle
  <2>1. /\ stage = "voice" /\ stage' = "snapshot"
        /\ played' = IF u.kind \in Voice THEN Append(played, u) ELSE played
    BY <1>2 DEF VoiceHandle
  <2>2. u \in Unit /\ cai \in Seq(Unit)
    BY <2>1, WholeFrame DEF Frames
  <2>3. AtVocoder = cai /\ AtVocoder' = Append(cai, u)
    BY <2>1, PassedOn
  <2>4. played' \in Seq(Unit)
    BY <1>1, <2>1, <2>2, AppendProperties
  <2>5. Selects(played, cai, Voice)
    BY <1>1, <2>3
  <2>6. Selects(IF u.kind \in Voice THEN Append(played, u) ELSE played, Append(cai, u), Voice)
    BY ONLY <1>1, <2>2, <2>5, SelectsMore
  <2> QED BY <2>1, <2>3, <2>4, <2>6
<1>3. CASE ~VoiceHandle
  <2>1. played' = played
    BY <1>3 DEF Next, StartWork, ReceiveSymbol, Produce, SnapshotHandle, CaiHandle, Watch, vars, outVars
  <2>2. ~(stage = "voice" /\ stage' = "snapshot")
    <3>1. CASE stage' = stage
      BY <3>1
    <3>2. CASE stage # "voice"
      BY <3>2
    <3>3. stage' = stage \/ stage # "voice"
      BY <1>3 DEF Next, StartWork, ReceiveSymbol, Produce, SnapshotHandle, CaiHandle, Watch, vars, chainVars
    <3> QED BY <3>1, <3>2, <3>3
  <2>3. AtVocoder' = AtVocoder
    BY <2>2, PassedOn
  <2> QED BY <1>1, <2>1, <2>3
<1> QED BY <1>2, <1>3

\* A unit more at the snapshot handler counts if its kind does.
LEMMA CountUnit ==
    ASSUME NEW s \in Seq(Unit), NEW u \in Unit, NEW ks
    PROVE  Count(Append(s, u), ks, Len(Append(s, u)))
             = Count(s, ks, Len(s)) + (IF u.kind \in ks THEN 1 ELSE 0)
<1> DEFINE r == Append(s, u)
           n == Len(s)
<1>1. /\ r \in Seq(Unit) /\ Len(r) = n + 1 /\ n \in Nat /\ r[n + 1] = u
      /\ \A i \in 1..n : r[i] = s[i]
  BY AppendProperties, LenProperties
<1> HIDE DEF r, n
<1>2. Count(r, ks, n) = Count(s, ks, n)
  <2>1. \A j \in 1..n : r[j].kind \in ks <=> s[j].kind \in ks
    BY <1>1
  <2> QED BY ONLY <1>1, <2>1, CountSame
<1>3. Count(r, ks, n + 1) = Count(r, ks, n) + (IF r[n + 1].kind \in ks THEN 1 ELSE 0)
  BY ONLY <1>1, CountOne
<1> QED BY <1>1, <1>2, <1>3 DEF r, n

\* The first of one sequence becomes the last of the one before it.
LEMMA Moved ==
    ASSUME NEW S, NEW s \in Seq(S), NEW q \in Seq(S), q # << >>
    PROVE  /\ Append(s, Head(q)) \in Seq(S) /\ Tail(q) \in Seq(S)
           /\ Append(s, Head(q)) \o Tail(q) = s \o q
<1>1. Head(q) \in S /\ Tail(q) \in Seq(S) /\ <<Head(q)>> \in Seq(S)
  BY HeadTailProperties
<1>2. Append(s, Head(q)) = s \o <<Head(q)>> /\ Append(s, Head(q)) \in Seq(S)
  BY <1>1, AppendIsConcat, AppendProperties
<1>3. (s \o <<Head(q)>>) \o Tail(q) = s \o (<<Head(q)>> \o Tail(q))
  BY <1>1, ConcatAssociative
<1>4. <<Head(q)>> \o Tail(q) = q
  BY <1>1
<1> QED BY <1>1, <1>2, <1>3, <1>4


LEMMA AppendToLast ==
    ASSUME NEW S, NEW s \in Seq(S), NEW q \in Seq(S), NEW e \in S
    PROVE  s \o Append(q, e) = Append(s \o q, e)
<1>1. <<e>> \in Seq(S) /\ s \o q \in Seq(S)
  BY ConcatProperties
<1>2. Append(q, e) = q \o <<e>> /\ Append(s \o q, e) = (s \o q) \o <<e>>
  BY <1>1, AppendIsConcat
<1>3. (s \o q) \o <<e>> = s \o (q \o <<e>>)
  BY <1>1, ConcatAssociative
<1> QED BY <1>2, <1>3

LEMMA NextNumber ==
    ASSUME NEW n \in Nat, NEW s \in Seq(Nat), NEW q \in Seq(Nat), s \o q = [i \in 1..n |-> i]
    PROVE  s \o Append(q, n + 1) = [i \in 1..n + 1 |-> i]
<1> DEFINE w == s \o q
<1>1. w \in Seq(Nat) /\ n + 1 \in Nat
  BY ConcatProperties
<1>2. s \o Append(q, n + 1) = Append(w, n + 1)
  <2>1. \A e \in Nat : s \o Append(q, e) = Append(s \o q, e)
    BY ONLY s \in Seq(Nat), q \in Seq(Nat), AppendToLast
  <2> QED BY ONLY <1>1, <2>1, Zenon DEF w
<1>5. Len(w) = n /\ DOMAIN w = 1..n /\ \A i \in 1..n : w[i] = i
  <2>1. DOMAIN [i \in 1..n |-> i] = 1..n /\ \A i \in 1..n : [j \in 1..n |-> j][i] = i
    OBVIOUS
  <2> QED BY <1>1, <2>1, LenProperties
<1> HIDE DEF w
<1>6. /\ Append(w, n + 1) \in Seq(Nat) /\ Len(Append(w, n + 1)) = n + 1
      /\ \A i \in 1..n : Append(w, n + 1)[i] = i
      /\ Append(w, n + 1)[n + 1] = n + 1
  BY <1>1, <1>5, AppendProperties
<1>7. \A i \in 1..n + 1 : Append(w, n + 1)[i] = i
  BY <1>6
<1>8. DOMAIN Append(w, n + 1) = 1..n + 1
  BY <1>6, LenProperties
<1>9. Append(w, n + 1) = [i \in 1..n + 1 |-> Append(w, n + 1)[i]]
  BY <1>6, <1>8
<1>10. Append(w, n + 1) = [i \in 1..n + 1 |-> i]
  BY <1>7, <1>9
<1> QED BY <1>2, <1>10

LEMMA SnapshotsNext ==
    ASSUME Framed, Frames, Handlers, [Next]_vars
    PROVE  /\ d_data_units' \in Nat /\ msgq' \in Seq(Nat) /\ seen' \in Seq(Nat)
           /\ d_data_units' = IF d_msgq' THEN Count(AtSnapshot', Snapshots, Len(AtSnapshot')) ELSE 0
           /\ seen' \o msgq' = [i \in 1..d_data_units' |-> i]
<1> DEFINE u == d_data_unit
           n == Count(AtSnapshot, Snapshots, Len(AtSnapshot))
<1>1. /\ d_data_units \in Nat /\ msgq \in Seq(Nat) /\ seen \in Seq(Nat)
      /\ d_data_units = IF d_msgq THEN n ELSE 0
      /\ seen \o msgq = [i \in 1..d_data_units |-> i]
  BY DEF Handlers
<1> HIDE DEF n
<1>2. d_msgq' = d_msgq
  BY DEF Next, StartWork, ReceiveSymbol, Produce, VoiceHandle, SnapshotHandle, CaiHandle, Watch,
         vars, chainVars
<1>3. CASE SnapshotHandle
  <2>1. stage = "snapshot" /\ stage' = "p25cai" /\ seen' = seen
    BY <1>3 DEF SnapshotHandle, outVars
  <2>2. u \in Unit /\ cai \in Seq(Unit)
    BY <2>1, WholeFrame DEF Frames
  <2>3. AtSnapshot = cai /\ AtSnapshot' = Append(cai, u)
    BY <2>1, PassedOn
  <2>4. n = Count(cai, Snapshots, Len(cai))
    BY <2>3 DEF n
  <2>5. Count(Append(cai, u), Snapshots, Len(Append(cai, u)))
          = n + (IF u.kind \in Snapshots THEN 1 ELSE 0)
    BY ONLY <2>2, <2>4, CountUnit
  <2>6. Count(AtSnapshot', Snapshots, Len(AtSnapshot')) = n + (IF u.kind \in Snapshots THEN 1 ELSE 0)
    BY ONLY <2>3, <2>5
  <2>n. n \in Nat
    <3>1. Len(cai) \in Nat
      BY <2>2, LenProperties
    <3> QED BY <2>4, <3>1, CountType
  <2>7. CASE d_msgq /\ u.kind \in Snapshots
    <3>1. d_data_units' = d_data_units + 1 /\ msgq' = Append(msgq, d_data_units + 1)
      BY <1>3, <2>7 DEF SnapshotHandle
    <3>2. d_data_units' \in Nat /\ msgq' \in Seq(Nat)
      BY <1>1, <3>1, AppendProperties
    <3>3. seen \o Append(msgq, d_data_units + 1) = [i \in 1..d_data_units + 1 |-> i]
      BY ONLY <1>1, NextNumber, ZenonT(60)
    <3>4. seen' \o msgq' = [i \in 1..d_data_units' |-> i]
      BY <2>1, <3>1, <3>3
    <3> QED BY <1>1, <1>2, <2>1, <2>6, <2>7, <2>n, <3>1, <3>2, <3>4
  <2>8. CASE ~(d_msgq /\ u.kind \in Snapshots)
    <3>1. d_data_units' = d_data_units /\ msgq' = msgq
      BY <1>3, <2>8 DEF SnapshotHandle
    <3>2. d_msgq => Count(AtSnapshot', Snapshots, Len(AtSnapshot')) = n
      BY <2>6, <2>8, <2>n
    <3> QED BY <1>1, <1>2, <2>1, <3>1, <3>2
  <2> QED BY <2>7, <2>8
<1>4. CASE ~SnapshotHandle
  <2>1. d_data_units' = d_data_units
    BY <1>4 DEF Next, StartWork, ReceiveSymbol, Produce, VoiceHandle, CaiHandle, Watch, vars, chainVars
  <2>2. ~(stage = "snapshot" /\ stage' = "p25cai")
    <3>1. stage' = stage \/ stage # "snapshot"
      BY <1>4 DEF Next, StartWork, ReceiveSymbol, Produce, VoiceHandle, CaiHandle, Watch, vars, chainVars
    <3> QED BY <3>1
  <2>3. AtSnapshot' = AtSnapshot
    BY <2>2, PassedOn
  <2>4. /\ msgq' \in Seq(Nat) /\ seen' \in Seq(Nat) /\ seen' \o msgq' = seen \o msgq
    <3>1. CASE Watch
      <4>1. msgq # << >> /\ seen' = Append(seen, Head(msgq)) /\ msgq' = Tail(msgq)
        BY <3>1 DEF Watch
      <4>2. /\ Append(seen, Head(msgq)) \in Seq(Nat) /\ Tail(msgq) \in Seq(Nat)
            /\ Append(seen, Head(msgq)) \o Tail(msgq) = seen \o msgq
        <5>1. seen \in Seq(Nat) /\ msgq \in Seq(Nat) /\ msgq # << >>
          BY <1>1, <4>1
        <5> QED BY ONLY <5>1, Moved
      <4> QED BY ONLY <4>1, <4>2
    <3>2. CASE UNCHANGED <<msgq, seen>>
      BY <1>1, <3>2
    <3>3. Watch \/ UNCHANGED <<msgq, seen>>
      BY <1>4 DEF Next, StartWork, ReceiveSymbol, Produce, VoiceHandle, CaiHandle, vars, chainVars, outVars
    <3> QED BY <3>1, <3>2, <3>3
  <2> QED BY <1>1, <1>2, <2>1, <2>3, <2>4 DEF n
<1> QED BY <1>3, <1>4

LEMMA OnceInit == Init => Frames /\ Handlers
<1> SUFFICES ASSUME Init PROVE Frames /\ Handlers
  OBVIOUS
<1>1. /\ stage = "none" /\ d_data_unit = None /\ d_data_units = 0 /\ msgq = << >> /\ seen = << >>
      /\ found = << >> /\ played = << >> /\ cai = << >>
  BY DEF Init
<1>2. << >> \o << >> = << >> /\ Len(<< >>) = 0 /\ << >> \in Seq(Unit) /\ << >> \in Seq(Nat)
      /\ [i \in 1..0 |-> i] = << >>
  OBVIOUS
<1>3. Count(<< >>, Kinds, 0) = 0 /\ Count(<< >>, Voice, 0) = 0 /\ Count(<< >>, Snapshots, 0) = 0
  BY CountNone
<1>4. AtVocoder = << >> /\ AtSnapshot = << >>
  BY <1>1, <1>2 DEF AtVocoder, AtSnapshot, Passed
<1>5. Frames
  BY <1>1, <1>2, <1>3 DEF Frames, Headed
<1>6. Handlers
  BY <1>1, <1>2, <1>3, <1>4 DEF Handlers, Selects
<1> QED BY <1>5, <1>6

\* Every recognised frame comes out of the chain whole, once and in order, and
\* vocoder, watcher and socket agree on it, whatever the watcher's pace.
THEOREM FramesOnce == Spec => []EveryFrameOnce
<1>1. Framed /\ Frames /\ Handlers => EveryFrameOnce
  <2> SUFFICES ASSUME Framed, Frames, Handlers PROVE EveryFrameOnce
    OBVIOUS
  <2>1. Count(found, Kinds, Len(found)) - Len(cai) \in {0, 1}
    <3>1. cai \in Seq(Unit) /\ Len(cai) \in Nat
      BY LenProperties DEF Frames
    <3> QED BY <3>1 DEF Frames, Headed
  <2> QED BY <2>1 DEF EveryFrameOnce, Frames, Handlers, Selects, AtVocoder, AtSnapshot
<1>2. Framed /\ Frames /\ Handlers /\ [Next]_vars => Framed' /\ Frames' /\ Handlers'
  <2> SUFFICES ASSUME Framed, Frames, Handlers, [Next]_vars PROVE Framed' /\ Frames' /\ Handlers'
    OBVIOUS
  <2> QED BY FramedNext, FramesNext, AudioNext, SnapshotsNext DEF Handlers, Selects
<1> QED BY <1>1, <1>2, FramedInit, OnceInit, PTL DEF Spec

=============================================================================
