------------------------------ MODULE ImbeCode -------------------------------
(***************************************************************************)
(* A voice codeword: eight vectors u0 to u7 of 88 bits, made into 144 bits *)
(* by Golay and Hamming codes and a scrambler that starts from u0          *)
(* (blocks/src/lib/op25_golay.h, op25_hamming.h), and the place of these   *)
(* bits in a frame (op25_imbe_frame.h).                                    *)
(*                                                                         *)
(* A vector is the set of the numbers of its bits that are 1, a codeword   *)
(* or a frame that of its positions.  A frame is numbered in the order of  *)
(* transmission, from its frame sync.                                      *)
(***************************************************************************)
EXTENDS BitCode

-----------------------------------------------------------------------------
(* Golay (23, 12): data bit d is bit d + 11, bits 0 to 10 check it.        *)

\* The table encoding of golay_24_encode, without its parity bit.
GolayRow ==
    0 :> {0, 2, 4, 5, 6, 10} @@ 1 :> {0, 1, 2, 3, 4, 7, 10} @@ 2 :> {0, 1, 3, 6, 8, 10}
    @@ 3 :> {0, 1, 5, 6, 7, 9, 10} @@ 4 :> {0, 1, 4, 5, 7, 8} @@ 5 :> {1, 2, 5, 6, 8, 9}
    @@ 6 :> {2, 3, 6, 7, 9, 10} @@ 7 :> {0, 2, 3, 5, 6, 7, 8} @@ 8 :> {1, 3, 4, 6, 7, 8, 9}
    @@ 9 :> {2, 4, 5, 7, 8, 9, 10} @@ 10 :> {0, 2, 3, 4, 8, 9} @@ 11 :> {1, 3, 4, 5, 9, 10}

golay_23_encode(u) == Shifted(u, 11) \cup SumOfRows(GolayRow, u, 0..10)

golay_23_syndrome(w) ==
    SymDiff(w \cap 0..10, SumOfRows(GolayRow, Shifted(w \ 0..10, -11), 0..10))

\* The table decoding, of which only the data bits are used: the data part of
\* the one pattern of at most three errors that has this syndrome.
FewErrors == {{a, b, c} : a, b, c \in 0..11} \cup {{}}
Correction ==
    [s \in SUBSET (0..10) |->
       CHOOSE e \in FewErrors :
          Cardinality(e) + Cardinality(SymDiff(s, SumOfRows(GolayRow, e, 0..10))) <= 3]

golay_23_decode(w) ==
    SymDiff(Shifted(w \ 0..10, -11), Correction[golay_23_syndrome(w)])

\* Computed from the table: two codewords differ in seven bits or more.
ASSUME GolayDistance ==
    \A d \in SUBSET (0..11) :
       d # {} => Cardinality(d) + Cardinality(SumOfRows(GolayRow, d, 0..10)) >= 7

-----------------------------------------------------------------------------
(* Hamming (15, 11): data bit d is bit d + 4.                              *)

HammingRow ==
    0 :> {0, 1} @@ 1 :> {0, 2} @@ 2 :> {1, 2} @@ 3 :> {0, 1, 2} @@ 4 :> {0, 3}
    @@ 5 :> {1, 3} @@ 6 :> {0, 1, 3} @@ 7 :> {2, 3} @@ 8 :> {0, 2, 3}
    @@ 9 :> {1, 2, 3} @@ 10 :> {0, 1, 2, 3}

hamming_15_encode(u) == Shifted(u, 4) \cup SumOfRows(HammingRow, u, 0..3)

\* Computed from the table: the rows differ, and none is a check bit's.
ASSUME HammingDistance ==
    /\ DOMAIN HammingRow = 0..10
    /\ \A d \in 0..10 : HammingRow[d] \in SUBSET (0..3) /\ Cardinality(HammingRow[d]) >= 2
    /\ \A c, d \in 0..10 : HammingRow[c] = HammingRow[d] => c = d

\* The data bit whose row is the syndrome is wrong; of a wrong check bit
\* nothing is said.
hamming_15_decode(w) ==
    LET data == Shifted(w \ 0..3, -4)
        s == SymDiff(w \cap 0..3, SumOfRows(HammingRow, data, 0..3))
    IN  SymDiff(data, {d \in DOMAIN HammingRow : HammingRow[d] = s})

-----------------------------------------------------------------------------
(* The scrambler.                                                          *)

ValueOf(u) == SumSet({2^b : b \in u})

\* pngen23 and pngen15: the number made of the next bits, and Pr after them.
pngen(Pr0, bits) ==
    LET Pr[i \in 0..bits] == IF i = 0 THEN Pr0 ELSE (173 * Pr[i - 1] + 13849) % 2^16
    IN  [Pr |-> Pr[bits], n |-> {bits - i : i \in {k \in 1..bits : Pr[k] >= 2^15}}]

\* The positions of a codeword that are inverted: one sequence over all but
\* the first vector and the last.
Mask(u0) ==
    LET m1 == pngen(16 * ValueOf(u0), 23)
        m2 == pngen(m1.Pr, 23)
        m3 == pngen(m2.Pr, 23)
        m4 == pngen(m3.Pr, 15)
        m5 == pngen(m4.Pr, 15)
        m6 == pngen(m5.Pr, 15)
    IN  Stored(m1.n, 23, 23) \cup Stored(m2.n, 46, 23) \cup Stored(m3.n, 69, 23)
        \cup Stored(m4.n, 92, 15) \cup Stored(m5.n, 107, 15) \cup Stored(m6.n, 122, 15)

-----------------------------------------------------------------------------
(* imbe_header_encode and imbe_header_decode.                              *)

Golay == 0..3     \* the vectors in Golay codes; 4..6 are in Hamming codes
From == [i \in 0..7 |-> IF i <= 4 THEN 23 * i ELSE 92 + 15 * (i - 4)]
Size(i) == IF i \in Golay THEN 23 ELSE IF i < 7 THEN 15 ELSE 7

\* u7 comes shifted up by one.
imbe_header_encode(u) ==
    LET word(i) == IF i \in Golay THEN golay_23_encode(u[i])
                   ELSE IF i < 7 THEN hamming_15_encode(u[i])
                   ELSE Shifted(u[i] \ {0}, -1)
    IN  SymDiff(Mask(u[0]), UNION {Stored(word(i), From[i], Size(i)) : i \in 0..7})

\* The seed is u0 as corrected.
imbe_header_decode_SeedReceived(cw) ==
    LET clear == SymDiff(cw, Mask(Extract(cw, 0, 12)))
        vector(i) == IF i \in Golay THEN golay_23_decode(Extract(clear, From[i], Size(i)))
                     ELSE IF i < 7 THEN hamming_15_decode(Extract(clear, From[i], Size(i)))
                     ELSE Shifted(Extract(clear, From[i], Size(i)), 1)
    IN  [i \in 0..7 |-> vector(i)]
imbe_header_decode(cw) ==
    LET u0 == golay_23_decode(Extract(cw, 0, 23))
        clear == SymDiff(cw, Mask(u0))
        vector(i) == IF i = 0 THEN u0
                     ELSE IF i \in Golay THEN golay_23_decode(Extract(clear, From[i], Size(i)))
                     ELSE IF i < 7 THEN hamming_15_decode(Extract(clear, From[i], Size(i)))
                     ELSE Shifted(Extract(clear, From[i], Size(i)), 1)
    IN  [i \in 0..7 |-> vector(i)]

-----------------------------------------------------------------------------
(* Frames.  Of each 72 bits the last two are status bits.                  *)

IsStatus(p) == p % 72 >= 70
\* The place of the n-th bit that is none.
FrameBit(n) == n + 2 * (n \div 70)
\* The bits of a frame that are none, in their own numbering.
WithoutStatus(frame) == {p - 2 * (p \div 72) : p \in {q \in frame : ~IsStatus(q)}}

\* voice_codeword_bits: where the codewords begin, and how a codeword's bits
\* follow each other there.
Begin == [nr \in 0..8 |-> <<114, 262, 452, 640, 830, 1020, 1208, 1398, 1578>>[nr + 1]]
Interleaved_InOrder(j) == j
Interleaved(j) ==
    LET row == j \div 24
        column == j % 24
    IN  6 * column + (IF column % 2 = 0 THEN row
                      ELSE IF row % 2 = 0 THEN row + 1 ELSE row - 1)
voice_codeword_bits ==
    [nr \in DOMAIN Begin |-> [j \in 0..143 |->
       FrameBit(Begin[nr] - 2 * (Begin[nr] \div 72) + Interleaved(j))]]

imbe_deinterleave(frame, nr) == {j \in 0..143 : voice_codeword_bits[nr][j] \in frame}
imbe_interleave(cw, nr) == {voice_codeword_bits[nr][j] : j \in cw}
=============================================================================
