------------------------------- MODULE NidCode -------------------------------
(***************************************************************************)
(* The network identifier of a frame: the BCH (63, 16) decoder of          *)
(* repeater/src/lib/bch.cc and nid_codeword of p25_framer.cc around it,    *)
(* and the encoder of python/p25craft.py.                                  *)
(***************************************************************************)
EXTENDS BitCode

-----------------------------------------------------------------------------
(* The field of 64 elements, as the tables bchGFexp and bchGFlog hold it.  *)

Bit(x, i) == (x \div 2^i) % 2
Xor == [a \in 0..63 |-> [b \in 0..63 |->
          LET d(i) == 2^i * ((Bit(a, i) + Bit(b, i)) % 2)
          IN  d(0) + d(1) + d(2) + d(3) + d(4) + d(5)]]

bchGFexp ==
    LET next(e) == IF e < 32 THEN 2 * e ELSE Xor[2 * e - 64][3]
        power[i \in 0..62] == IF i = 0 THEN 1 ELSE next(power[i - 1])
    IN  [i \in 0..63 |-> IF i = 63 THEN 0 ELSE power[i]]
bchGFlog == [x \in 0..63 |-> IF x = 0 THEN -1 ELSE CHOOSE i \in 0..62 : bchGFexp[i] = x]

Times(x, y) == IF x = 0 \/ y = 0 THEN 0
               ELSE bchGFexp[(bchGFlog[x] + bchGFlog[y]) % 63]
Over(x, y) == IF x = 0 THEN 0 ELSE bchGFexp[(bchGFlog[x] + 63 - bchGFlog[y]) % 63]

\* Computed from the tables: sums stay in the field, 0 adds nothing, and the
\* square of a sum is the sum of the squares.
Square == [x \in 0..63 |-> Times(x, x)]
ASSUME FieldTables ==
    /\ \A a, b \in 0..63 : Xor[a][b] \in 0..63 /\ Square[Xor[a][b]] = Xor[Square[a]][Square[b]]
    /\ \A a \in 0..63 : Xor[a][0] = a
    /\ \A e \in 0..62 : bchGFexp[e] \in 0..63 /\ Square[bchGFexp[e]] = bchGFexp[(2 * e) % 63]
    /\ Square[0] = 0

\* The sum of f(j) for the j from lo to hi.
Total(f(_), lo, hi) ==
    LET sum[j \in lo - 1..hi] == IF j < lo THEN 0 ELSE Xor[sum[j - 1]][f(j)]
    IN  sum[hi]

-----------------------------------------------------------------------------
(* bchDec.  A word is the set of its positions 0..62 that hold a 1.  The   *)
(* code keeps field elements by their logarithm, here they are themselves. *)

T == 11            \* errors that can be corrected
LastTerm == 21     \* elp[24][22]

\* f(lo), ..., f(hi).
Terms(f(_), lo, hi) ==
    LET s[i \in lo - 1..hi] == IF i < lo THEN << >> ELSE Append(s[i - 1], f(i))
    IN  s[hi]

Syndromes(w) ==
    Terms(LAMBDA i : Total(LAMBDA j : IF j \in w THEN bchGFexp[(i * j) % 63] ELSE 0, 0, 62),
          1, 2 * T)

\* A row of the tables L, uLu, D and elp; top is the last column written.
Row(L, U, D, elp, top) == [L |-> L, uLu |-> U - L, D |-> D, elp |-> elp, top |-> top]
One == Terms(LAMBDA i : IF i = 0 THEN 1 ELSE 0, 0, LastTerm)
Coefficient(elp, i) == elp[i + 1]

\* Rows 0 and 1; row U of a sequence of them is its element U + 1.
FirstRows(S) == << [Row(0, 0, 1, One, 0) EXCEPT !.uLu = -1], Row(0, 0, S[1], One, 0) >>

\* The earlier row with a discrepancy that has the greatest uLu, the latest
\* of several.
Best(rows) ==
    LET best[q \in 1..Len(rows) - 1] ==
            IF q = 1 THEN 1
            ELSE LET p == best[q - 1]
                 IN  IF rows[q].D # 0 /\ rows[q].uLu >= rows[p].uLu THEN q ELSE p
    IN  best[Len(rows) - 1]

\* The row that follows U: with this elp and L its discrepancy.
Extended(S, U, L, elp, top) ==
    LET D == IF U < 2 * T
             THEN Xor[S[U + 1]][Total(LAMBDA i : Times(S[U + 1 - i], Coefficient(elp, i)), 1, L)]
             ELSE 0
    IN  Row(L, U, D, elp, top)

\* elp of a row with a discrepancy: an earlier row's is added, times ratio.
Joined(S, U, row, earlier, shift, ratio) ==
    LET top == earlier.L + shift
        term(i) == IF i - shift \in 0..earlier.L
                   THEN Times(ratio, Coefficient(earlier.elp, i - shift)) ELSE 0
    IN  Extended(S, U, IF row.L > top THEN row.L ELSE top,
                 Terms(LAMBDA i : Xor[Coefficient(row.elp, i)][term(i)], 0, LastTerm), top)

Following(S, U, row, rows, q) ==
    IF row.D = 0 THEN Extended(S, U, row.L, row.elp, 0)
    ELSE Joined(S, U, row, rows[q], U + 1 - q, Over(row.D, rows[q].D))

\* One iteration: its row is added to the others.  The loop ends when too
\* many errors are found.
Iterated(S, rows) ==
    IF Last(rows).L > T THEN rows
    ELSE Append(rows, Following(S, Len(rows) - 1, Last(rows), rows, Best(rows)))
Rows(S) ==
    LET after[U \in 0..2 * T] == IF U = 0 THEN FirstRows(S) ELSE Iterated(S, after[U - 1])
    IN  after[2 * T]

\* Chien search: the positions at which the error polynomial has its roots.
Located(row) ==
    {63 - k : k \in {k \in 1..63 :
        Xor[1][Total(LAMBDA j : Times(Coefficient(row.elp, j), bchGFexp[(j * k) % 63]),
                     1, row.L)] = 0}}

\* What is returned, the word left behind and the last column of elp written.
Outcome(rc, cw, top) == [rc |-> rc, cw |-> cw, top |-> top]
Corrected_AnyDegree(w, L, top, places) == Outcome(L, SymDiff(w, places), top)
Corrected(w, L, top, places) ==
    IF Cardinality(places) = L THEN Outcome(L, SymDiff(w, places), top)
    ELSE Outcome(-1, w, top)
AfterRows(w, row, top) ==
    IF row.L > T THEN Outcome(-2, w, top) ELSE Corrected(w, row.L, top, Located(row))
TopOf(rows) == Max({rows[i].top : i \in DOMAIN rows})
Solved(w, rows) == AfterRows(w, Last(rows), TopOf(rows))
Decoded(w, S) == IF ToSet(S) = {0} THEN Outcome(0, w, 0) ELSE Solved(w, Rows(S))
bchDec(w) == Decoded(w, Syndromes(w))

-----------------------------------------------------------------------------
(* nid_codeword, and the encoder.  A NID is the set of those of its 64     *)
(* bits, in the order they are received, that are 1.                       *)

Codeword(acc) == {62 - k : k \in acc \ {63}}
FromCodeword(cw) == {62 - i : i \in cw}

Number(bits, from, n) ==
    LET value[i \in 0..n] ==
            IF i = 0 THEN 0
            ELSE 2 * value[i - 1] + (IF from + i - 1 \in bits THEN 1 ELSE 0)
    IN  value[n]

\* The last bit is not in the code and stays as it was received.
Read(dec, word) ==
    [ok |-> dec.rc >= 0, bch_errors |-> dec.rc, nid_word |-> word,
     nac |-> Number(word, 0, 12), duid |-> Number(word, 12, 4), top |-> dec.top]
Accepted(acc, dec) == Read(dec, FromCodeword(dec.cw) \cup (acc \cap {63}))
nid_codeword(acc) == Accepted(acc, bchDec(Codeword(acc)))

\* bchG below its leading term, x^47.
bchG == {0, 1, 3, 5, 8, 9, 11, 12, 13, 16, 18, 19, 20, 22, 23, 24, 25, 27, 32, 33,
         36, 39, 40, 42, 43, 46}
bchRow == PowersModulo(bchG, 47, 63)

\* bch_64_16_23_encode, but for the last bit.
bch_64_16_23_encode(nac, duid) ==
    LET data == {62 - k : k \in {k \in 0..11 : Bit(nac, 11 - k) = 1}
                              \cup {12 + k : k \in {k \in 0..3 : Bit(duid, 3 - k) = 1}}}
    IN  FromCodeword(data \cup SumOfRows(bchRow, data, 0..46))
=============================================================================
