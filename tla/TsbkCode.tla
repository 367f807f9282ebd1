------------------------------ MODULE TsbkCode -------------------------------
(***************************************************************************)
(* A trunking block: 96 bits with a CRC, in a trellis code of 49 symbols   *)
(* of four bits, interleaved; the decoder tsbk_deinterleave of             *)
(* repeater/src/lib/repeater_p25_frame_assembler.cc and the encoder of     *)
(* python/p25craft.py.                                                     *)
(***************************************************************************)
EXTENDS BitCode

-----------------------------------------------------------------------------
(* crc16: a block is the set of the powers of its bits, 95 the first.      *)

CrcRow == PowersModulo({0, 5, 12}, 16, 96)
\* Computed from the polynomial: the sum of check bits is themselves.
ASSUME CrcUnits == \A d \in 0..15 : CrcRow[d] = {d}
crc16(block) == SymDiff(SumOfRows(CrcRow, block, 0..15), 0..15)

\* crc_ccitt and construct_tsbk: the data are bits 16 to 95.
construct_tsbk(data) == data \cup SymDiff(SumOfRows(CrcRow, data, 0..15), 0..15)

-----------------------------------------------------------------------------
(* The trellis: in each state, what is sent for each dibit.                *)

next_words ==
    0 :> << {1}, {3, 2}, {0}, {3, 2, 1, 0} >> @@ 1 :> << {3, 2, 1}, {}, {3, 2, 0}, {1, 0} >>
    @@ 2 :> << {3, 0}, {2, 1, 0}, {3, 1}, {2} >> @@ 3 :> << {2, 0}, {3, 1, 0}, {2, 1}, {3} >>
Word(state, dibit) == next_words[state][dibit + 1]

\* The group of four bits that holds a symbol, in the order of transmission.
Group(symbol) == (symbol \div 4) + <<0, 13, 25, 37>>[(symbol % 4) + 1]

Dibit(block, d) == (IF 95 - 2 * d \in block THEN 2 ELSE 0) + (IF 94 - 2 * d \in block THEN 1 ELSE 0)
DibitAt(v, d) == (IF v >= 2 THEN {95 - 2 * d} ELSE {}) \cup (IF v % 2 = 1 THEN {94 - 2 * d} ELSE {})

\* trellis_1_2_encode, with a dibit 0 at the end, and data_interleave: the
\* positions of the 196 bits that are 1.
TrellisEncoded(block) ==
    LET input(s) == IF s \in 0..47 THEN Dibit(block, s) ELSE 0
    IN  UNION {Stored(Word(input(s - 1), input(s)), 4 * Group(s), 4) : s \in 0..48}

\* find_min: the dibit whose word is nearest, if there is one.
Nearest(state, word) ==
    LET hd(j) == Cardinality(SymDiff(word, Word(state, j)))
    IN  {j \in 0..3 : \A k \in 0..3 \ {j} : hd(j) < hd(k)}

\* Computed from the table: a word that was sent is the only one nearest to it.
ASSUME WordsApart ==
    \A state, dibit \in 0..3 :
       Word(state, dibit) \in SUBSET (0..3) /\ Nearest(state, Word(state, dibit)) = {dibit}

\* Whether every symbol had a nearest word, and the block they spell: symbol
\* by symbol, each in the state the one before it led to.
TrellisDecoded(bits) ==
    LET start == [state |-> 0, block |-> {}, ok |-> TRUE]
        after[s \in -1..48] ==
            IF s = -1 THEN start
            ELSE LET before == after[s - 1]
                     near == Nearest(before.state, Extract(bits, 4 * Group(s), 4))
                     j == CHOOSE k \in near : TRUE
                 IN  IF ~before.ok \/ near = {} THEN [before EXCEPT !.ok = FALSE]
                     ELSE [state |-> j, ok |-> TRUE,
                           block |-> IF s < 48 THEN before.block \cup DibitAt(j, s)
                                     ELSE before.block]
    IN  after[48]

\* The blocks, at most one, that are found in 196 bits.
tsbk_deinterleave_NoCrc(bits) ==
    LET d == TrellisDecoded(bits) IN IF d.ok THEN << d.block >> ELSE << >>
tsbk_deinterleave(bits) ==
    LET d == TrellisDecoded(bits)
    IN  IF d.ok /\ crc16(d.block) = {} THEN << d.block >> ELSE << >>
=============================================================================
