------------------------------ MODULE AirFrame -------------------------------
(***************************************************************************)
(* One frame on its way from a transmitter through noise to the receiver's *)
(* vocoder or message queue, bit by bit: what the codes of its parts can   *)
(* undo, and what they let pass.  The transmitter is the vocoder block     *)
(* (append_imbe_codeword), a radio, or python/p25craft.py; the receiver is *)
(* nid_codeword, the frame assembler and rxchar, or the Wireshark          *)
(* dissector.                                                              *)
(***************************************************************************)
EXTENDS NidCode, Dissector

CONSTANTS
    Talks,         \* what may be said: nine codewords of eight vectors
    Signals,       \* the data of one to three trunking blocks
    Disturbances,  \* sets of bits of a frame, those that noise may invert
    HammingBurst,  \* a burst that costs no vector but the last
    GolayBurst     \* a burst that costs none of the first four

VARIABLES
    stage,   \* "idle", "sent", "arrived", "framed", "assembled", "refused"
             \* or "dissected"
    sent,    \* who sent what
    air,     \* the bits of the frame that are 1
    noise,   \* those that were inverted on the way
    nid,     \* what nid_codeword made of the NID
    lines,   \* codewords on the way from the assembler to the vocoder
    heard,   \* the frame vectors the vocoder decoded
    msgs,    \* the trunking blocks passed on
    shown    \* the blocks, or the bits of codewords, the dissector shows

LongestFrame == 1728   \* bits of an LDU, status and sync included

\* Vectors of the widths that the codes take; noise anywhere in a frame.
ASSUME AirAssumption ==
    /\ Talks \subseteq [0..8 -> [0..7 -> SUBSET (0..11)]]
    /\ \A u \in Talks, nr \in 0..8 :
          (\A v \in 4..6 : u[nr][v] \subseteq 0..10) /\ u[nr][7] \subseteq 0..6
    /\ \A data \in Signals : \E n \in 1..3 : data \in [1..n -> SUBSET (16..94)]
    /\ Disturbances \subseteq SUBSET (0..LongestFrame - 1)
    /\ HammingBurst \in 0..5 /\ GolayBurst \in 0..17

vars == <<stage, sent, air, noise, nid, lines, heard, msgs, shown>>

Idle == [from |-> "nobody"]

-----------------------------------------------------------------------------
(* Transmitters.                                                           *)

\* The NID follows the frame sync; a status dibit lies within it.
NidBits == [k \in 0..63 |-> FrameBit(48 + k)]
InFrame(word) == {NidBits[k] : k \in word}

Nac == 659   \* 0x293, of the words hws

\* ldu1_preset and ldu2_preset, by DUID: the status bits, link control or
\* encryption sync, and low speed data of every frame of the vocoder block.
StatusPreset == {p \in 0..LongestFrame - 1 : p % 72 = 70 \/ p % 432 = 71}
ldu_preset ==
    5 :> {613, 615, 616, 618, 619, 621, 623, 625, 627, 628, 631, 633, 635, 637, 638, 788, 792,
          794, 797, 798, 800, 802, 804, 807, 808, 810, 812, 814, 817, 818, 820, 822, 824, 827,
          828, 978, 980, 981, 982, 987, 988, 989, 990, 991, 994, 995, 996, 997, 998, 1001,
          1003, 1005, 1009, 1012, 1015, 1017, 1018, 1019, 1178, 1179, 1181, 1182, 1183, 1184,
          1186, 1187, 1188, 1189, 1190, 1191, 1194, 1195, 1196, 1197, 1202, 1206, 1207, 1358,
          1359, 1361, 1368, 1369, 1370, 1372, 1373, 1375, 1376, 1377, 1380, 1382, 1383, 1385,
          1389, 1390, 1392, 1393, 1394, 1397, 1546, 1548, 1550, 1552, 1555, 1560, 1562, 1564,
          1566, 1568, 1571, 1576}
    @@ 10 :> {978, 984, 985, 986, 1168, 1170, 1172, 1173, 1174, 1176, 1180, 1182, 1183, 1185,
              1188, 1192, 1194, 1195, 1197, 1198, 1201, 1204, 1207, 1356, 1359, 1360, 1362,
              1364, 1368, 1369, 1370, 1371, 1373, 1376, 1377, 1378, 1379, 1383, 1384, 1385,
              1386, 1387, 1388, 1389, 1391, 1393, 1394}

\* Computed from the tables: none of these bits is a codeword's.
ASSUME PresetApart ==
    \A duid \in {5, 10} :
       /\ ldu_preset[duid] \subseteq Nat
       /\ \A nr \in 0..8, j \in 0..143 : voice_codeword_bits[nr][j] \notin ldu_preset[duid]

\* append_imbe_codeword, nine times: the encoder's vectors as they are.
AppendAll(duid, u) ==
    (UNION {imbe_interleave(imbe_header_encode(u[nr]), nr) : nr \in 0..8})
    \cup StatusPreset \cup ldu_preset[duid]
\* A radio's last vector is its seven bits; the bits between codewords are left
\* out.
RadioAll(u) ==
    UNION {imbe_interleave(imbe_header_encode([u[nr] EXCEPT ![7] = Shifted(@, 1)]), nr) : nr \in 0..8}

\* An LDU1 or LDU2, with the words hws.
VoiceFrame(who, duid, u) ==
    InFrame(bch_64_16_23_encode(Nac, duid))
    \cup (IF who = "vocoder" THEN AppendAll(duid, u) ELSE RadioAll(u))
SendVoice(who, duid, u) ==
    /\ stage = "idle" /\ stage' = "sent"
    /\ sent' = [from |-> who, duid |-> duid, size |-> LongestFrame, u |-> u]
    /\ air' = VoiceFrame(who, duid, u)
    /\ UNCHANGED <<noise, nid, lines, heard, msgs, shown>>

\* Where trunking blocks begin, status bits left out.
BlockAt(i) == 48 + 64 + 196 * (i - 1)

\* Bits of a frame of one, two and three blocks, filled up to a status dibit.
BlockSizes == <<360, 576, 720>>

\* construct_tsdu: blocks one after the other, the last one marked, status bits
\* in between.
Tsbks(data) ==
    LET last(i) == IF i = Len(data) THEN {95} ELSE {}
    IN  [i \in DOMAIN data |-> construct_tsbk(data[i] \cup last(i))]
TrunkingFrame(blocks) ==
    InFrame(bch_64_16_23_encode(Nac, 7))
    \cup UNION {{FrameBit(BlockAt(i) + b) : b \in TrellisEncoded(blocks[i])} : i \in DOMAIN blocks}
SendTrunking(data) ==
    /\ stage = "idle" /\ stage' = "sent"
    /\ sent' = [from |-> "p25craft", duid |-> 7, blocks |-> Tsbks(data),
                size |-> BlockSizes[Len(data)]]
    /\ air' = TrunkingFrame(Tsbks(data))
    /\ UNCHANGED <<noise, nid, lines, heard, msgs, shown>>

Arrive(d) ==
    /\ stage = "sent" /\ stage' = "arrived"
    /\ noise' = d /\ air' = SymDiff(air, d)
    /\ UNCHANGED <<sent, nid, lines, heard, msgs, shown>>

-----------------------------------------------------------------------------
(* The receiver.                                                           *)

\* The framer, once it has all of the NID.
RxNid ==
    /\ stage = "arrived"
    /\ nid' = nid_codeword({k \in 0..63 : NidBits[k] \in air})
    /\ stage' = IF nid'.ok THEN "framed" ELSE "refused"
    /\ UNCHANGED <<sent, air, noise, lines, heard, msgs, shown>>

\* general_work on the complete frame, in do_imbe mode; the next sync has ended
\* the frame where it was sent to end.
AssembleVoice ==
    /\ stage = "framed" /\ nid.duid \in {5, 10}
    /\ lines' = [i \in 1..9 |-> imbe_header_decode(imbe_deinterleave(air, i - 1))]
    /\ stage' = "assembled"
    /\ UNCHANGED <<sent, air, noise, nid, heard, msgs, shown>>

\* The block, if there is one, at a place that the frame is long enough for.
Found_Longer(size, bv1, i) ==
    IF size > BlockSizes[i] THEN tsbk_deinterleave({b \in 0..195 : BlockAt(i) + b \in bv1})
    ELSE << >>
Found(size, bv1, i) ==
    IF size >= BlockSizes[i] THEN tsbk_deinterleave({b \in 0..195 : BlockAt(i) + b \in bv1})
    ELSE << >>
AssembleTrunking ==
    LET bv1 == WithoutStatus(air)
    IN  /\ stage = "framed" /\ nid.duid = 7
        /\ msgs' = Found(sent.size, bv1, 1) \o Found(sent.size, bv1, 2) \o Found(sent.size, bv1, 3)
        /\ stage' = "assembled"
        /\ UNCHANGED <<sent, air, noise, nid, lines, heard, shown>>

\* rxchar at the end of a line, up to the decoder: "TEST" takes back the shift
\* of imbe_header_decode.
RxLine ==
    /\ lines # << >>
    /\ lines' = Tail(lines)
    /\ heard' = Append(heard, [Head(lines) EXCEPT ![7] = Shifted(@ \ {0}, -1)])
    /\ UNCHANGED <<stage, sent, air, noise, nid, msgs, shown>>

\* dissect_p25cai, which takes the DUID as it was received.  One that was
\* misread, and is dissected as another data unit, is left out.
Dissect ==
    LET tvb == WithoutStatus(air)
    IN  /\ stage = "arrived" /\ stage' = "dissected"
        /\ ValueOf(Extract(air, 60, 4)) = sent.duid
        /\ shown' = IF sent.duid = 7 THEN build_tsdu_tvb(sent.size, tvb)
                    ELSE dissect_voice(sent.size, tvb)
        /\ UNCHANGED <<sent, air, noise, nid, lines, heard, msgs>>

Init ==
    /\ stage = "idle" /\ sent = Idle
    /\ air = {} /\ noise = {}
    /\ nid = [ok |-> FALSE]
    /\ lines = << >> /\ heard = << >> /\ msgs = << >> /\ shown = << >>

Next ==
    \/ \E who \in {"vocoder", "radio"}, duid \in {5, 10}, u \in Talks : SendVoice(who, duid, u)
    \/ \E data \in Signals : SendTrunking(data)
    \/ \E d \in Disturbances : Arrive(d)
    \/ RxNid
    \/ AssembleVoice
    \/ AssembleTrunking
    \/ RxLine
    \/ Dissect

Spec == Init /\ [][Next]_vars

-----------------------------------------------------------------------------
(* Properties.                                                             *)

NidNoise == {k \in 0..62 : NidBits[k] \in noise}
NidRead == stage \in {"framed", "assembled", "refused"}

\* Eleven wrong bits in the NID are all put right and counted, so that where it
\* is refused there were more (bch.cc:45).
NidCorrected ==
    NidRead /\ Cardinality(NidNoise) <= T =>
        nid.ok /\ nid.nac = Nac /\ nid.duid = sent.duid /\ nid.bch_errors = Cardinality(NidNoise)

\* A word that is accepted, whatever was sent, differs from the received one at
\* as many places as bch_errors says, no more than eleven; and no row of elp is
\* ever written past its end (bch.cc:45, p25_framer.cc:66).
NidExact ==
    NidRead =>
        /\ nid.ok =>
              /\ nid.bch_errors <= T
              /\ nid.bch_errors =
                    Cardinality(SymDiff(nid.nid_word, {k \in 0..63 : NidBits[k] \in air}))
        /\ nid.top <= LastTerm

\* The noise in a vector's field of a codeword, and whether its code undoes it.
FieldNoise(nr, v) ==
    {j \in From[v]..From[v] + Size(v) - 1 : voice_codeword_bits[nr][j] \in noise}
Curable(nr, v) ==
    Cardinality(FieldNoise(nr, v)) <= (IF v \in Golay THEN 3 ELSE IF v < 7 THEN 1 ELSE 0)

\* Every vector whose field has no more errors than its code corrects reaches
\* the vocoder as the transmitter meant it, provided that the first vector,
\* from which the scrambler starts, does too; a radio's last vector with its
\* shift undone.  The order is that of the frame (op25_imbe_frame.h:254,
\* repeater_p25_frame_assembler.cc:317, repeater_vocoder.cc:340).  The nine
\* codewords of 18 bytes in the dissector's window are those codewords, noise
\* included (packet-p25cai.c:687).
VoiceDecoded ==
    "u" \in DOMAIN sent =>
        /\ \A i \in DOMAIN heard : \A v \in 0..7 :
              Curable(i - 1, 0) /\ Curable(i - 1, v) /\ (v < 7 \/ sent.from = "radio") =>
                  heard[i][v] = sent.u[i - 1][v]
        /\ stage = "dissected" =>
              [nr \in 0..8 |-> {j \in 0..143 : Interleaved(j) \in shown[nr + 1]}]
                  = [nr \in 0..8 |-> imbe_deinterleave(air, nr)]

\* Noise confined to GolayBurst bits in a row costs none of the first four
\* vectors of any codeword, and to HammingBurst bits none of the first seven,
\* wherever it hits: the interleaver has spread it over fields and codewords
\* (voice_codeword_bits, op25_imbe_frame.h:69).  That it does not cost the NID
\* is in NidCorrected.
Within(bits) == noise = {} \/ Max(noise) - Min(noise) < bits
BurstTolerated ==
    "u" \in DOMAIN sent => \A i \in DOMAIN heard : \A v \in 0..6 :
       Within(IF v \in Golay THEN GolayBurst ELSE HammingBurst) =>
           heard[i][v] = sent.u[i - 1][v]

\* Every block whose bits all arrived as sent is passed on, whatever happened to
\* the others (repeater_p25_frame_assembler.cc:126-189, 280-302).  The
\* dissector, which goes by the flag of the last block instead of the length,
\* never shows more blocks than there are, shows every clean block it reaches at
\* its place, and all of them if all are clean (packet-p25cai.c:1342).
CleanBlocks ==
    {i \in DOMAIN sent.blocks : \A b \in 0..195 : FrameBit(BlockAt(i) + b) \notin noise}
CleanBlocksKept ==
    "blocks" \in DOMAIN sent =>
        /\ stage = "assembled" /\ nid.duid = sent.duid =>
              \A i \in CleanBlocks : sent.blocks[i] \in ToSet(msgs)
        /\ stage = "dissected" =>
              /\ Len(shown) <= Len(sent.blocks)
              /\ \A i \in CleanBlocks \cap DOMAIN shown : shown[i] = sent.blocks[i]
              /\ CleanBlocks = DOMAIN sent.blocks => shown = sent.blocks

\* A frame of blocks is not taken for another one, and the blocks passed on are
\* blocks that were sent, in their order and once.
OnlyBlocksSent ==
    "blocks" \in DOMAIN sent /\ stage = "assembled" =>
        nid.duid = sent.duid /\ msgs = SelectSeq(sent.blocks, LAMBDA b : b \in ToSet(msgs))

\* What noise the codes promise to correct, or to find, changes nothing that is
\* passed on: neither the NID nor what the frame is taken for, nor a block
\* (bch.cc:45, repeater_p25_frame_assembler.cc:126).
ReadAsSent == NidCorrected /\ OnlyBlocksSent

\* Of a codeword that arrives undisturbed the vocoder gets the 88 bits that
\* the encoder gave ("recover 88-bit IMBE voice code word",
\* repeater_p25_frame_assembler.cc:324).  The code halves the last vector.
WholeVoice ==
    noise = {} => \A i \in DOMAIN heard : heard[i] = sent.u[i - 1]
=============================================================================
