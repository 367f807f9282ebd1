------------------------------- MODULE BitCode -------------------------------
(***************************************************************************)
(* Words of bits, as the codes of the air interface use them: a word is    *)
(* the set of the numbers of its bits that are 1.                          *)
(***************************************************************************)
EXTENDS Integers, SequencesExt

Odd(S) == Cardinality(S) % 2 = 1

\* The bits P of the sum of the rows that u selects.
SumOfRows(rows, u, P) == {p \in P : Odd({d \in u : p \in rows[d]})}

Shifted(u, n) == {b + n : b \in u}

\* x^d modulo x^n + (the powers in g), for each d < size.
PowersModulo(g, n, size) ==
    LET Next(r) == IF n - 1 \in r THEN SymDiff(Shifted(r \ {n - 1}, 1), g)
                                  ELSE Shifted(r, 1)
        row[d \in 0..size - 1] == IF d = 0 THEN {0} ELSE Next(row[d - 1])
    IN  row

\* bits[i] of n bits of a frame from one place on, most significant first.
Extract(bits, from, n) == {n - 1 - i : i \in {j \in 0..n - 1 : from + j \in bits}}
Stored(u, from, n) == {from + n - 1 - b : b \in u}
=============================================================================
