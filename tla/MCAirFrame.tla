----------------------------- MODULE MCAirFrame ------------------------------
(* Two talks and frames of one, two and three blocks; bursts over the NID, *)
(* the first codewords and the blocks, and errors at regular distances.    *)
EXTENDS AirFrame

Vectors(a, b) ==
    0 :> {11, 3, 4, 0} \cup a @@ 1 :> {1, 5, 9} @@ 2 :> b @@ 3 :> 0..11
    @@ 4 :> {10, 2} @@ 5 :> a @@ 6 :> {9, 3, 0} @@ 7 :> {6, 2, 0}
Talk == [nr \in 0..8 |-> Vectors({nr}, {nr + 2, 1})]
MCTalks == {Talk}

Data(i) == {95 - i, 90, 80, 77 - i, 66, 64, 50, 40 - i, 33, 32, 22 + i, 16}
MCSignals == {[i \in 1..n |-> Data(i)] : n \in 1..3}

Burst(at, len) == at..at + len - 1
Comb(at, step) == {at + i * step : i \in 0..39}
\* The quotient of the generator by the minimal polynomial of its last root
\* but one: the first 20 syndromes are 0, the 21st is not.
Unlucky == InFrame(FromCodeword({0, 2, 4, 6, 7, 8, 9, 12, 14, 15, 16, 19, 21, 24, 26, 28, 29,
                                 31, 36, 37, 40, 41, 42, 43, 45}))
MCDisturbances ==
    {{}, Unlucky}
    \cup {Burst(at, 5) : at \in 48..261}
    \cup {Burst(at, 17) : at \in 48..261}
    \cup {Burst(at, len) : at \in {48 + 4 * k : k \in 0..14}, len \in {11, 12, 13}}
    \cup {Burst(250 + 29 * k, 5) : k \in 0..50}
    \cup {Burst(250 + 31 * k, 17) : k \in 0..45}
    \cup {Comb(48 + 7 * k, step) : k \in 0..12, step \in {3, 6, 7, 12, 17, 25}}
=============================================================================
