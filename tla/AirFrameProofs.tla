---------------------------- MODULE AirFrameProofs ----------------------------
(***************************************************************************)
(* Proofs about a frame on the air, for every talk, all data of trunking   *)
(* blocks and any noise: what of it the codes put right, what the BCH      *)
(* decoder accepts, and that a block which arrives undisturbed is passed   *)
(* on.  The distances of the codes, and what the lookup tables hold, are   *)
(* assumptions of the modules above that TLC computes.                     *)
(*                                                                         *)
(* The order is: parity and sums of rows; the Golay and Hamming codes; the *)
(* places of bits in a frame; VoiceTraced and the two theorems about       *)
(* voice; the BCH decoder and NidExactAlways; the trellis code, the CRC    *)
(* and CleanBlocksKeptAlways.                                              *)
(***************************************************************************)
EXTENDS AirFrame, FiniteSetTheorems, SequenceTheorems,
    WellFoundedInduction, TLAPS

-----------------------------------------------------------------------------
(* Parity and sums of rows.                                                *)

\* The parity of a symmetric difference is the sum of the parities.
LEMMA OddSymDiff ==
    ASSUME NEW A, NEW B, IsFiniteSet(A), IsFiniteSet(B)
    PROVE  /\ IsFiniteSet(SymDiff(A, B))
           /\ Cardinality(SymDiff(A, B)) <= Cardinality(A) + Cardinality(B)
           /\ Odd(SymDiff(A, B)) <=> (Odd(A) # Odd(B))
<1> DEFINE n == Cardinality(A \cap B)
<1>1. /\ IsFiniteSet(A \ B) /\ Cardinality(A \ B) = Cardinality(A) - n
      /\ IsFiniteSet(B \ A) /\ Cardinality(B \ A) = Cardinality(B) - n
  <2>1. B \cap A = A \cap B
    OBVIOUS
  <2> QED BY <2>1, FS_Difference, ZenonT(40)
<1>2. /\ Cardinality(A) \in Nat /\ Cardinality(B) \in Nat /\ n \in Nat
      /\ n <= Cardinality(A) /\ n <= Cardinality(B)
  BY FS_CardinalityType, FS_Intersection
<1>3. /\ IsFiniteSet((A \ B) \cup (B \ A))
      /\ Cardinality((A \ B) \cup (B \ A)) = Cardinality(A) + Cardinality(B) - 2 * n
  <2>1. (A \ B) \cap (B \ A) = {}
    OBVIOUS
  <2>2. Cardinality({}) = 0
    BY FS_EmptySet
  <2>3. /\ IsFiniteSet((A \ B) \cup (B \ A))
        /\ Cardinality((A \ B) \cup (B \ A))
             = Cardinality(A \ B) + Cardinality(B \ A) - Cardinality((A \ B) \cap (B \ A))
    BY <1>1, FS_Union
  <2>4. Cardinality((A \ B) \cap (B \ A)) = 0
    BY <2>1, <2>2, Zenon
  <2>5. Cardinality(A \ B) + Cardinality(B \ A) - 0 = Cardinality(A) + Cardinality(B) - 2 * n
    <3> DEFINE a == Cardinality(A)  b == Cardinality(B)
               c == Cardinality(A \ B)  d == Cardinality(B \ A)
    <3>1. c = a - n /\ d = b - n /\ a \in Nat /\ b \in Nat /\ n \in Nat
      BY <1>1, <1>2, Zenon
    <3> HIDE DEF a, b, c, d, n
    <3>2. c + d - 0 = a + b - 2 * n
      BY <3>1
    <3> QED BY <3>2 DEF a, b, c, d
  <2> QED BY <2>3, <2>4, <2>5, Zenon
<1>4. Cardinality(A) + Cardinality(B) - 2 * n <= Cardinality(A) + Cardinality(B)
  BY <1>2
<1>5. ((Cardinality(A) + Cardinality(B) - 2 * n) % 2 = 1)
        <=> ((Cardinality(A) % 2 = 1) # (Cardinality(B) % 2 = 1))
  BY <1>2, SMT
<1> QED BY <1>3, <1>4, <1>5 DEF SymDiff, Odd

\* A sum of rows is linear in the set of rows that are added.
LEMMA SumLinear ==
    ASSUME NEW rows, NEW u, NEW w, NEW P, IsFiniteSet(u), IsFiniteSet(w)
    PROVE  SumOfRows(rows, SymDiff(u, w), P)
             = SymDiff(SumOfRows(rows, u, P), SumOfRows(rows, w, P))
<1> DEFINE At(x, p) == {d \in x : p \in rows[d]}
<1>1. \A p \in P : Odd(At(SymDiff(u, w), p)) <=> (Odd(At(u, p)) # Odd(At(w, p)))
  <2> TAKE p \in P
  <2>1. At(SymDiff(u, w), p) = SymDiff(At(u, p), At(w, p))
    BY DEF SymDiff
  <2>2. IsFiniteSet(At(u, p)) /\ IsFiniteSet(At(w, p))
    BY FS_Subset
  <2>3. Odd(SymDiff(At(u, p), At(w, p))) <=> (Odd(At(u, p)) # Odd(At(w, p)))
    BY <2>2, OddSymDiff, Zenon
  <2> QED BY <2>1, <2>3, Zenon
<1> DEFINE O(x, p) == Odd(At(x, p))
<1> HIDE DEF O
<1>2. \A x : SumOfRows(rows, x, P) = {p \in P : O(x, p)}
  BY Zenon DEF SumOfRows, O
<1>3. \A p \in P : O(SymDiff(u, w), p) <=> (O(u, p) /\ ~O(w, p)) \/ (~O(u, p) /\ O(w, p))
  BY <1>1, Zenon DEF O, Odd
<1>4. {p \in P : O(SymDiff(u, w), p)} = SymDiff({p \in P : O(u, p)}, {p \in P : O(w, p)})
  BY <1>3 DEF SymDiff
<1> QED BY <1>2, <1>4, Zenon

LEMMA SumEmpty == ASSUME NEW rows, NEW P PROVE SumOfRows(rows, {}, P) = {}
<1>1. \A p : {d \in {} : p \in rows[d]} = {}
  OBVIOUS
<1>2. ~Odd({})
  BY FS_EmptySet DEF Odd
<1> QED BY <1>1, <1>2 DEF SumOfRows

LEMMA SumSingle ==
    ASSUME NEW rows, NEW d, NEW P PROVE SumOfRows(rows, {d}, P) = P \cap rows[d]
<1>1. ~Odd({}) /\ Odd({d})
  <2>1. Cardinality({}) = 0 /\ Cardinality({d}) = 1
    BY FS_EmptySet, FS_Singleton, Zenon
  <2> QED BY <2>1 DEF Odd
<1>2. \A p : {c \in {d} : p \in rows[c]} = IF p \in rows[d] THEN {d} ELSE {}
  OBVIOUS
<1> QED BY <1>1, <1>2, Zenon DEF SumOfRows

-----------------------------------------------------------------------------
(* Golay and Hamming codes.                                                *)

LEMMA Up ==
    ASSUME NEW n \in Nat, NEW k \in Nat, NEW u \in SUBSET (0..n - 1)
    PROVE  Shifted(u, k) = {p \in k..k + n - 1 : p - k \in u}
<1>1. \A p : p \in Shifted(u, k) => p \in k..k + n - 1 /\ p - k \in u
  BY DEF Shifted
<1>2. \A p \in k..k + n - 1 : p - k \in u => p \in Shifted(u, k)
  <2> TAKE p \in k..k + n - 1
  <2>1. p = (p - k) + k
    OBVIOUS
  <2> QED BY <2>1, Zenon DEF Shifted
<1> QED BY <1>1, <1>2

LEMMA Down ==
    ASSUME NEW n \in Nat, NEW k \in Nat, NEW X \in SUBSET (0..k + n - 1)
    PROVE  Shifted(X \ (0..k - 1), -k) = {d \in 0..n - 1 : d + k \in X}
<1>1. \A d : d \in Shifted(X \ (0..k - 1), -k) => d \in 0..n - 1 /\ d + k \in X
  <2> TAKE d
  <2> HAVE d \in Shifted(X \ (0..k - 1), -k)
  <2>1. PICK b \in X \ (0..k - 1) : d = b + (-k)
    BY DEF Shifted
  <2> QED BY <2>1
<1>2. \A d \in 0..n - 1 : d + k \in X => d \in Shifted(X \ (0..k - 1), -k)
  <2> TAKE d \in 0..n - 1
  <2> HAVE d + k \in X
  <2>1. d + k \in X \ (0..k - 1) /\ d = (d + k) + (-k)
    OBVIOUS
  <2> QED BY <2>1, Zenon DEF Shifted
<1> QED BY <1>1, <1>2

\* A codeword with check bits P below the data bits D, which are k places up,
\* and with errors e: what the decoder takes for its data, and its syndrome.
Decodes(rows, k, P, down, D, u, e) ==
    LET w == SymDiff(Shifted(u, k) \cup SumOfRows(rows, u, P), e)
        data == Shifted(w \ P, down)
        e1 == Shifted(e \ P, down)
    IN  /\ e1 \in SUBSET D
        /\ IsFiniteSet(e1) /\ IsFiniteSet(e \cap P)
        /\ Cardinality(e1) + Cardinality(e \cap P) = Cardinality(e)
        /\ data = SymDiff(u, e1)
        /\ SymDiff(w \cap P, SumOfRows(rows, data, P))
              = SymDiff(e \cap P, SumOfRows(rows, e1, P))

LEMMA Received ==
    ASSUME NEW rows, NEW k \in Nat, NEW n \in Nat,
           NEW u \in SUBSET (0..n - 1), NEW e \in SUBSET (0..k + n - 1)
    PROVE  Decodes(rows, k, 0..k - 1, -k, 0..n - 1, u, e)
<1> DEFINE P == 0..k - 1
           R(x) == SumOfRows(rows, x, P)
           v == Shifted(u, k) \cup R(u)
           w == SymDiff(v, e)
           data == Shifted(w \ P, -k)
           e1 == Shifted(e \ P, -k)
<1>1. e1 = {d \in 0..n - 1 : d + k \in e}
  BY Down, ZenonT(40)
<1>2. \A x : R(x) \in SUBSET P
  BY DEF SumOfRows
<1>3. /\ v \in SUBSET (0..k + n - 1)
      /\ v \cap P = R(u)
      /\ {d \in 0..n - 1 : d + k \in v} = u
  <2>1. Shifted(u, k) = {p \in k..k + n - 1 : p - k \in u}
    BY Up
  <2>2. R(u) \in SUBSET P
    BY <1>2
  <2> DEFINE r == R(u)
  <2> HIDE DEF r
  <2> DEFINE s == Shifted(u, k)
  <2>3. s \in SUBSET (k..k + n - 1) /\ r \in SUBSET P
    BY <2>1, <2>2 DEF r
  <2>4. \A d \in 0..n - 1 : d + k \in s <=> d \in u
    BY <2>1
  <2> HIDE DEF s
  <2>5. s \cup r \in SUBSET (0..k + n - 1) /\ (s \cup r) \cap P = r
    <3>1. k..k + n - 1 \in SUBSET (0..k + n - 1) /\ P \in SUBSET (0..k + n - 1)
      OBVIOUS
    <3>2. s \cap P = {}
      BY <2>3
    <3> HIDE DEF P
    <3> QED BY <2>3, <3>1, <3>2
  <2>6. \A d \in 0..n - 1 : d + k \in s \cup r <=> d \in u
    BY <2>3, <2>4
  <2>7. {d \in 0..n - 1 : d + k \in s \cup r} = u
    BY <2>6
  <2> QED BY <2>5, <2>7 DEF r, s
<1>4. w \in SUBSET (0..k + n - 1)
  BY <1>3 DEF SymDiff
<1>5. data = SymDiff(u, e1)
  <2>1. data = {d \in 0..n - 1 : d + k \in w}
    <3> HIDE DEF w
    <3> QED BY <1>4, Down
  <2>2. \A d \in 0..n - 1 : d + k \in w <=> (d \in u /\ d \notin e1) \/ (d \notin u /\ d \in e1)
    <3> HIDE DEF v, e1
    <3> QED BY <1>1, <1>3 DEF SymDiff
  <2>3. e1 \in SUBSET (0..n - 1)
    BY <1>1
  <2> HIDE DEF data, w, e1
  <2> QED BY <2>1, <2>2, <2>3 DEF SymDiff
<1>6. w \cap P = SymDiff(R(u), e \cap P)
  <2> HIDE DEF v
  <2>1. w \cap P = SymDiff(v \cap P, e \cap P)
    BY DEF SymDiff
  <2> QED BY <2>1, <1>3
<1>7. /\ IsFiniteSet(u) /\ IsFiniteSet(e)
      /\ e1 \in SUBSET (0..n - 1) /\ IsFiniteSet(e1) /\ IsFiniteSet(e \cap P)
  <2>1. IsFiniteSet(0..n - 1) /\ IsFiniteSet(0..k + n - 1)
    BY FS_Interval
  <2>2. e1 \in SUBSET (0..n - 1)
    BY <1>1
  <2> HIDE DEF e1
  <2>3. IsFiniteSet(u) /\ IsFiniteSet(e) /\ IsFiniteSet(e1)
    BY <2>1, <2>2, FS_Subset
  <2> QED BY <2>2, <2>3, FS_Intersection
<1>8. R(data) = SymDiff(R(u), R(e1))
  <2> HIDE DEF data, e1
  <2>1. \A x, y : IsFiniteSet(x) /\ IsFiniteSet(y) => R(SymDiff(x, y)) = SymDiff(R(x), R(y))
    BY SumLinear
  <2> QED BY <1>5, <1>7, <2>1, Zenon
<1>9. SymDiff(w \cap P, R(data)) = SymDiff(e \cap P, R(e1))
  <2> DEFINE x == w \cap P  y == R(data)  a == R(u)  b == e \cap P  c == R(e1)
  <2>1. x = SymDiff(a, b) /\ y = SymDiff(a, c)
    BY <1>6, <1>8, Zenon
  <2> HIDE DEF x, y, a, b, c
  <2>2. SymDiff(x, y) = SymDiff(b, c)
    BY <2>1 DEF SymDiff
  <2> QED BY <2>2, Zenon DEF x, y, b, c
<1>10. Cardinality(e1) + Cardinality(e \cap P) = Cardinality(e)
  <2>1. Cardinality(e1) = Cardinality(e \ P)
    <3> DEFINE f == [d \in e1 |-> d + k]
    <3>1. f \in Bijection(e1, e \ P)
      <4>1. \A d \in e1 : d \in 0..n - 1 /\ d + k \in e /\ d + k \notin P
        BY <1>1
      <4>2. f \in [e1 -> e \ P]
        BY <4>1
      <4>3. \A c, d \in e1 : f[c] = f[d] => c = d
        BY <4>1
      <4>4. \A b \in e \ P : b - k \in 0..n - 1 /\ b = (b - k) + k
        OBVIOUS
      <4>5. \A b \in e \ P : \E d \in e1 : f[d] = b
        <5> TAKE b \in e \ P
        <5>1. b - k \in e1 /\ f[b - k] = b
          BY <4>4, <1>1
        <5> QED BY <5>1
      <4> HIDE DEF f, e1, P
      <4>6. f \in Injection(e1, e \ P)
        BY <4>2, <4>3, Zenon DEF Injection, IsInjective
      <4>7. f \in Surjection(e1, e \ P)
        BY <4>2, <4>5, Zenon DEF Surjection
      <4> QED BY <4>6, <4>7, Zenon DEF Bijection
    <3>2. ExistsBijection(e1, e \ P)
      BY <3>1 DEF ExistsBijection
    <3>3. IsFiniteSet(e1)
      BY <1>7
    <3> HIDE DEF e1, P
    <3> QED BY <3>2, <3>3, FS_Bijection, Zenon
  <2>2. Cardinality(e \ P) = Cardinality(e) - Cardinality(e \cap P)
    BY <1>7, FS_Difference, Zenon
  <2>3. Cardinality(e) \in Nat /\ Cardinality(e \cap P) \in Nat
    BY <1>7, FS_CardinalityType, Zenon
  <2> HIDE DEF e1, P
  <2> QED BY <2>1, <2>2, <2>3
<1> QED BY <1>5, <1>7, <1>9, <1>10, Zenon DEF Decodes

LEMMA FiniteBits ==
    ASSUME NEW n \in Int, NEW S \in SUBSET (0..n)
    PROVE  IsFiniteSet(S) /\ Cardinality(S) \in Nat
<1>1. IsFiniteSet(S)
  <2>1. IsFiniteSet(0..n)
    BY FS_Interval
  <2> QED BY <2>1, FS_Subset, Zenon
<1> QED BY <1>1, FS_CardinalityType, Zenon

LEMMA Few ==
    ASSUME NEW S \in SUBSET (0..11), Cardinality(S) <= 3
    PROVE  S \in FewErrors
<1>1. IsFiniteSet(S)
  BY FiniteBits
<1>2. CASE S = {}
  BY <1>2 DEF FewErrors
<1>3. CASE S # {}
  <2>1. PICK a \in S : TRUE
    BY <1>3
  <2>2. IsFiniteSet(S \ {a}) /\ Cardinality(S \ {a}) = Cardinality(S) - 1
    BY <1>1, <2>1, FS_RemoveElement
  <2>3. CASE S \ {a} = {}
    <3>1. S = {a, a, a}
      BY <2>1, <2>3
    <3> QED BY <3>1, <2>1, SMTT(30) DEF FewErrors
  <2>4. CASE S \ {a} # {}
    <3>1. PICK b \in S \ {a} : TRUE
      BY <2>4
    <3>2. /\ IsFiniteSet((S \ {a}) \ {b})
          /\ Cardinality((S \ {a}) \ {b}) = Cardinality(S \ {a}) - 1
      BY <2>2, <3>1, FS_RemoveElement
    <3>3. CASE (S \ {a}) \ {b} = {}
      <4>1. S = {a, b, b}
        <5>1. \A x \in S : x = a \/ x = b
          BY <3>3
        <5> QED BY <2>1, <3>1, <5>1
      <4> QED BY <4>1, <2>1, <3>1, SMTT(30) DEF FewErrors
    <3>4. CASE (S \ {a}) \ {b} # {}
      <4>1. PICK c \in (S \ {a}) \ {b} : TRUE
        BY <3>4
      <4> DEFINE D == ((S \ {a}) \ {b}) \ {c}
      <4>2. IsFiniteSet(D) /\ Cardinality(D) = Cardinality((S \ {a}) \ {b}) - 1
        BY <3>2, <4>1, FS_RemoveElement
      <4>3. D = {}
        <5>1. Cardinality(S) \in Nat /\ Cardinality(D) \in Nat
          BY <1>1, <4>2, FS_CardinalityType, Zenon
        <5>2. Cardinality(D) = Cardinality(S) - 3
          BY <2>2, <3>2, <4>2, <5>1
        <5>3. Cardinality(D) = 0
          BY <5>1, <5>2
        <5> QED BY <4>2, <5>3, FS_EmptySet, Zenon
      <4>4. S = {a, b, c}
        <5>1. \A x \in S : x = a \/ x = b \/ x = c
          BY <4>3
        <5> QED BY <2>1, <3>1, <4>1, <5>1
      <4>5. a \in 0..11 /\ b \in 0..11 /\ c \in 0..11
        BY <2>1, <3>1, <4>1
      <4> DEFINE X == {{x, y, z} : x, y, z \in 0..11}
      <4>6. {a, b, c} \in X
        BY ONLY <4>5, SMTT(30)
      <4>7. FewErrors = X \cup {{}}
        BY DEF FewErrors
      <4> HIDE DEF X
      <4> QED BY <4>4, <4>6, <4>7
    <3> QED BY <3>3, <3>4
  <2> QED BY <2>3, <2>4
<1> QED BY <1>2, <1>3

\* golay_23_decode undoes up to three wrong bits of a codeword.
LEMMA GolayCorrects ==
    ASSUME NEW u \in SUBSET (0..11), NEW e \in SUBSET (0..22), Cardinality(e) <= 3
    PROVE  golay_23_decode(SymDiff(golay_23_encode(u), e)) = u
<1> DEFINE R(x) == SumOfRows(GolayRow, x, 0..10)
           w == SymDiff(Shifted(u, 11) \cup R(u), e)
           data == Shifted(w \ 0..10, -11)
           e0 == e \cap 0..10
           e1 == Shifted(e \ 0..10, -11)
           s == SymDiff(e0, R(e1))
           good(c) == Cardinality(c) + Cardinality(SymDiff(s, R(c))) <= 3
<1>1. /\ e1 \in SUBSET (0..11) /\ IsFiniteSet(e1) /\ IsFiniteSet(e0)
      /\ Cardinality(e1) + Cardinality(e0) = Cardinality(e)
      /\ data = SymDiff(u, e1)
      /\ SymDiff(w \cap 0..10, R(data)) = s
  <2>1. 11 \in Nat /\ 12 \in Nat /\ 11 - 1 = 10 /\ 12 - 1 = 11 /\ 11 + 12 - 1 = 22
    OBVIOUS
  <2>2. u \in SUBSET (0..12 - 1) /\ e \in SUBSET (0..11 + 12 - 1)
    BY <2>1, Zenon
  <2>3. Decodes(GolayRow, 11, 0..11 - 1, -11, 0..12 - 1, u, e)
    BY <2>1, <2>2, Received, Zenon
  <2>4. Decodes(GolayRow, 11, 0..10, -11, 0..11, u, e)
    BY <2>1, <2>3, Zenon
  <2> QED BY <2>4, Zenon DEF Decodes
<1> HIDE DEF w, data, e0, e1
<1>2. golay_23_encode(u) = Shifted(u, 11) \cup R(u)
  BY Zenon DEF golay_23_encode
<1>3. R(e1) \in SUBSET (0..10) /\ s \in SUBSET (0..10)
  BY DEF SumOfRows, SymDiff, e0
<1>4. Cardinality(e1) \in Nat /\ Cardinality(e0) \in Nat
  BY <1>1, FS_CardinalityType
<1>5. SymDiff(s, R(e1)) = e0
  BY DEF SymDiff
<1>6. e1 \in FewErrors /\ good(e1)
  <2>1. Cardinality(e1) <= 3
    BY <1>1, <1>4
  <2> QED BY <2>1, <1>1, <1>4, <1>5, Few
<1>7. ASSUME NEW c \in FewErrors, good(c)
      PROVE  c = e1
  <2>1. c \in SUBSET (0..11)
    BY SMTT(30) DEF FewErrors
  <2>2. IsFiniteSet(c)
    BY <2>1, FiniteBits
  <2> DEFINE d == SymDiff(c, e1)
             t == SymDiff(s, R(c))
  <2>3. d \in SUBSET (0..11) /\ R(d) = SymDiff(R(c), R(e1))
    <3>1. d \in SUBSET (0..11)
      BY <1>1, <2>1 DEF SymDiff
    <3>2. \A x, y : IsFiniteSet(x) /\ IsFiniteSet(y) => R(SymDiff(x, y)) = SymDiff(R(x), R(y))
      BY SumLinear
    <3> QED BY <3>1, <3>2, <1>1, <2>2, Zenon
  <2>4. Cardinality(d) <= Cardinality(c) + Cardinality(e1)
    BY <1>1, <2>2, OddSymDiff
  <2>5. IsFiniteSet(t)
    <3>1. R(c) \in SUBSET (0..10)
      BY DEF SumOfRows
    <3>2. t \in SUBSET (0..10)
      BY <1>3, <3>1 DEF SymDiff
    <3> HIDE DEF t
    <3> QED BY <3>2, FiniteBits
  <2>6. R(d) = SymDiff(t, e0)
    <3> DEFINE a == R(c)  b == R(e1)  f == R(d)
    <3>1. f = SymDiff(a, b) /\ t = SymDiff(s, a) /\ s = SymDiff(e0, b)
      BY <2>3, Zenon
    <3> HIDE DEF a, b, f, t, s
    <3>2. f = SymDiff(t, e0)
      BY <3>1 DEF SymDiff
    <3> QED BY <3>2 DEF f
  <2>7. Cardinality(R(d)) <= Cardinality(t) + Cardinality(e0)
    <3> HIDE DEF t, d, R
    <3> QED BY <2>5, <2>6, <1>1, OddSymDiff
  <2>10. Cardinality(d) \in Nat /\ Cardinality(R(d)) \in Nat
    <3>1. R(d) \in SUBSET (0..10)
      BY DEF SumOfRows
    <3> HIDE DEF d, R
    <3> QED BY <3>1, <2>3, FiniteBits
  <2>8. Cardinality(d) + Cardinality(R(d)) < 7
    <3>1. Cardinality(c) \in Nat /\ Cardinality(t) \in Nat
      BY <2>2, <2>5, FS_CardinalityType, Zenon
    <3>2. Cardinality(d) \in Nat /\ Cardinality(R(d)) \in Nat
      BY <2>10, Zenon
    <3>3. Cardinality(c) + Cardinality(t) <= 3
      BY <1>7
    <3> HIDE DEF d, R, t
    <3> QED BY <1>1, <1>4, <2>4, <2>7, <3>1, <3>2, <3>3
  <2>9. d = {}
    <3>1. ~(Cardinality(d) + Cardinality(R(d)) >= 7)
      <4> HIDE DEF d, R
      <4> QED BY <2>8, <2>10
    <3> HIDE DEF d
    <3> QED BY <3>1, <2>3, GolayDistance, Zenon
  <2> HIDE DEF R
  <2> QED BY <2>9 DEF SymDiff
<1>8. Correction[s] = e1
  <2>1. Correction[s] = CHOOSE c \in FewErrors : good(c)
    BY <1>3, Zenon DEF Correction
  <2> HIDE DEF good
  <2> QED BY <2>1, <1>6, <1>7, Zenon
<1>9. golay_23_decode(w) = SymDiff(data, Correction[s])
  BY <1>1, Zenon DEF golay_23_decode, golay_23_syndrome, data
<1>10. SymDiff(SymDiff(u, e1), e1) = u
  BY DEF SymDiff
<1> QED BY <1>1, <1>2, <1>8, <1>9, <1>10, Zenon DEF w

\* hamming_15_decode undoes one wrong bit of a codeword.
LEMMA HammingCorrects ==
    ASSUME NEW u \in SUBSET (0..10), NEW e \in SUBSET (0..14), Cardinality(e) <= 1
    PROVE  hamming_15_decode(SymDiff(hamming_15_encode(u), e)) = u
<1> DEFINE R(x) == SumOfRows(HammingRow, x, 0..3)
           w == SymDiff(Shifted(u, 4) \cup R(u), e)
           data == Shifted(w \ 0..3, -4)
           e0 == e \cap 0..3
           e1 == Shifted(e \ 0..3, -4)
           s == SymDiff(e0, R(e1))
           hit == {d \in DOMAIN HammingRow : HammingRow[d] = s}
<1>1. /\ e1 \in SUBSET (0..10) /\ IsFiniteSet(e1) /\ IsFiniteSet(e0)
      /\ Cardinality(e1) + Cardinality(e0) = Cardinality(e)
      /\ data = SymDiff(u, e1)
      /\ SymDiff(w \cap 0..3, R(data)) = s
  <2>1. 4 \in Nat /\ 11 \in Nat /\ 4 - 1 = 3 /\ 11 - 1 = 10 /\ 4 + 11 - 1 = 14
    OBVIOUS
  <2>2. u \in SUBSET (0..11 - 1) /\ e \in SUBSET (0..4 + 11 - 1)
    BY <2>1, Zenon
  <2>3. Decodes(HammingRow, 4, 0..4 - 1, -4, 0..11 - 1, u, e)
    BY <2>1, <2>2, Received, Zenon
  <2>4. Decodes(HammingRow, 4, 0..3, -4, 0..10, u, e)
    BY <2>1, <2>3, Zenon
  <2> QED BY <2>4, Zenon DEF Decodes
<1> HIDE DEF w, data, e0, e1
<1>2. hamming_15_encode(u) = Shifted(u, 4) \cup R(u)
  BY Zenon DEF hamming_15_encode
<1>3. Cardinality(e1) \in Nat /\ Cardinality(e0) \in Nat
  BY <1>1, FS_CardinalityType, Zenon
<1>4. hit = e1
  <2>1. CASE e1 = {}
    <3>1. s = e0
      <4>1. R({}) = {}
        BY SumEmpty
      <4> QED BY <2>1, <4>1 DEF SymDiff
    <3>2. Cardinality(s) <= 1
      <4>1. Cardinality(e1) = 0
        BY <2>1, FS_EmptySet
      <4> QED BY <3>1, <4>1, <1>1, <1>3
    <3> HIDE DEF s
    <3>3. \A d \in 0..10 : HammingRow[d] # s
      <4> TAKE d \in 0..10
      <4>1. Cardinality(HammingRow[d]) >= 2 /\ Cardinality(HammingRow[d]) \in Nat
        <5>1. HammingRow[d] \in SUBSET (0..3) /\ Cardinality(HammingRow[d]) >= 2
          BY HammingDistance, Zenon
        <5> QED BY <5>1, FiniteBits
      <4>2. SUFFICES ASSUME HammingRow[d] = s PROVE FALSE
        OBVIOUS
      <4>3. Cardinality(s) >= 2 /\ Cardinality(s) \in Nat
        BY <4>1, <4>2, Zenon
      <4> QED BY <4>3, <3>2
    <3>4. hit = {}
      <4>1. DOMAIN HammingRow = 0..10
        BY HammingDistance, Zenon
      <4> QED BY <4>1, <3>3, Zenon
    <3> QED BY <2>1, <3>4
  <2>2. CASE e1 # {}
    <3>1. Cardinality(e1) # 0
      BY <2>2, <1>1, FS_EmptySet, Zenon
    <3>2. Cardinality(e1) = 1 /\ Cardinality(e0) = 0
      <4>1. /\ Cardinality(e) \in Nat
        BY FiniteBits
      <4> QED BY <4>1, <3>1, <1>1, <1>3
    <3>3. e0 = {}
      BY <3>2, <1>1, FS_EmptySet, Zenon
    <3>4. PICK d : e1 = {d}
      BY <3>2, <1>1, FS_Singleton, Zenon
    <3>5. d \in 0..10
      BY <3>4, <1>1
    <3>6. s = HammingRow[d]
      <4>1. R(e1) = 0..3 \cap HammingRow[d]
        BY <3>4, SumSingle
      <4>2. HammingRow[d] \in SUBSET (0..3)
        BY <3>5, HammingDistance, Zenon
      <4> DEFINE r == R(e1)  h == HammingRow[d]
      <4>3. r = h
        BY <4>1, <4>2
      <4> HIDE DEF r, h
      <4>4. SymDiff(e0, r) = h
        BY <3>3, <4>3 DEF SymDiff
      <4> QED BY <4>4, Zenon DEF r, h
    <3> HIDE DEF s
    <3>7. \A c \in DOMAIN HammingRow : HammingRow[c] = s <=> c = d
      BY <3>5, <3>6, HammingDistance, Zenon
    <3>8. d \in DOMAIN HammingRow
      BY <3>5, HammingDistance, Zenon
    <3> QED BY <3>4, <3>7, <3>8
  <2> QED BY <2>1, <2>2
<1>5. hamming_15_decode(w) = SymDiff(data, hit)
  BY <1>1, Zenon DEF hamming_15_decode, data
<1>6. SymDiff(SymDiff(u, e1), e1) = u
  BY DEF SymDiff
<1> HIDE DEF hit
<1> QED BY <1>1, <1>2, <1>4, <1>5, <1>6, Zenon DEF w

-----------------------------------------------------------------------------
(* Fields of words.                                                        *)

LEMMA ExtractBits ==
    ASSUME NEW bits, NEW from \in Int, NEW n \in Nat
    PROVE  Extract(bits, from, n) = {b \in 0..n - 1 : from + n - 1 - b \in bits}
<1>1. \A b \in Extract(bits, from, n) : b \in 0..n - 1 /\ from + n - 1 - b \in bits
  <2> TAKE b \in Extract(bits, from, n)
  <2>1. PICK i \in 0..n - 1 : from + i \in bits /\ b = n - 1 - i
    BY DEF Extract
  <2>2. from + n - 1 - b = from + i
    BY <2>1
  <2> QED BY <2>1, <2>2
<1>2. \A b \in 0..n - 1 : from + n - 1 - b \in bits => b \in Extract(bits, from, n)
  <2> TAKE b \in 0..n - 1
  <2> HAVE from + n - 1 - b \in bits
  <2>1. n - 1 - b \in 0..n - 1 /\ from + (n - 1 - b) = from + n - 1 - b /\ b = n - 1 - (n - 1 - b)
    OBVIOUS
  <2>2. n - 1 - b \in {j \in 0..n - 1 : from + j \in bits}
    BY <2>1
  <2> QED BY <2>1, <2>2, Zenon DEF Extract
<1> QED BY <1>1, <1>2

LEMMA StoredBits ==
    ASSUME NEW from \in Int, NEW n \in Nat, NEW u \in SUBSET (0..n - 1)
    PROVE  Stored(u, from, n) = {p \in from..from + n - 1 : from + n - 1 - p \in u}
<1>1. \A p \in Stored(u, from, n) : p \in from..from + n - 1 /\ from + n - 1 - p \in u
  <2> TAKE p \in Stored(u, from, n)
  <2>1. PICK b \in u : p = from + n - 1 - b
    BY DEF Stored
  <2>2. from + n - 1 - p = b
    BY <2>1
  <2> QED BY <2>1, <2>2
<1>2. \A p \in from..from + n - 1 : from + n - 1 - p \in u => p \in Stored(u, from, n)
  <2> TAKE p \in from..from + n - 1
  <2> HAVE from + n - 1 - p \in u
  <2>1. p = from + n - 1 - (from + n - 1 - p)
    OBVIOUS
  <2> QED BY <2>1, Zenon DEF Stored
<1> QED BY <1>1, <1>2

\* A field of a word with noise is the field with the noise in it.
LEMMA ExtractNoise ==
    ASSUME NEW A, NEW B, NEW from \in Int, NEW n \in Nat
    PROVE  Extract(SymDiff(A, B), from, n) = SymDiff(Extract(A, from, n), Extract(B, from, n))
<1> DEFINE X(S) == {b \in 0..n - 1 : from + n - 1 - b \in S}
<1>1. \A S : Extract(S, from, n) = X(S)
  BY ExtractBits
<1>2. X(SymDiff(A, B)) = SymDiff(X(A), X(B))
  BY DEF SymDiff
<1> DEFINE a == X(A)  b == X(B)
<1>3. X(SymDiff(A, B)) = SymDiff(a, b) /\ Extract(A, from, n) = a /\ Extract(B, from, n) = b
  BY <1>1, <1>2
<1> HIDE DEF X, a, b
<1> QED BY <1>1, <1>3

\* The fields of a codeword follow each other and fill it.
LEMMA FieldBounds ==
    /\ \A v \in 0..7 : From[v] \in Nat /\ Size(v) \in Nat /\ From[v] + Size(v) <= 144
    /\ \A v, x \in 0..7 : v < x => From[v] + Size(v) <= From[x]
    /\ From[0] = 0 /\ Size(0) = 23
    /\ \A v \in 1..7 : From[v] >= 23
    /\ \A v \in 0..3 : Size(v) = 23
    /\ \A v \in 4..6 : Size(v) = 15
    /\ From[7] = 137 /\ Size(7) = 7
<1>1. /\ From[0] = 0 /\ From[1] = 23 /\ From[2] = 46 /\ From[3] = 69
      /\ From[4] = 92 /\ From[5] = 107 /\ From[6] = 122 /\ From[7] = 137
  BY DEF From
<1>2. /\ Size(0) = 23 /\ Size(1) = 23 /\ Size(2) = 23 /\ Size(3) = 23
      /\ Size(4) = 15 /\ Size(5) = 15 /\ Size(6) = 15 /\ Size(7) = 7
  BY DEF Size, Golay
<1>3. \A v \in 0..7 : v = 0 \/ v = 1 \/ v = 2 \/ v = 3 \/ v = 4 \/ v = 5 \/ v = 6 \/ v = 7
  OBVIOUS
<1>4. \A v \in 0..7 : From[v] \in Nat /\ Size(v) \in Nat /\ From[v] + Size(v) <= 144
  BY <1>1, <1>2, <1>3
<1>5. ASSUME NEW v \in 0..7, NEW x \in 0..7, v < x
      PROVE  From[v] + Size(v) <= From[x]
  <2>1. From[v] + Size(v) = IF v <= 3 THEN 23 * (v + 1) ELSE IF v <= 6 THEN 92 + 15 * (v - 3) ELSE 144
    BY <1>1, <1>2, <1>3
  <2>2. From[x] = IF x <= 4 THEN 23 * x ELSE 92 + 15 * (x - 4)
    BY DEF From
  <2> QED BY <2>1, <2>2, <1>5
<1>6. \A v \in 1..7 : From[v] >= 23
  BY <1>1, <1>3
<1>7. \A v \in 0..3 : Size(v) = 23
  BY <1>2
<1>8. \A v \in 4..6 : Size(v) = 15
  BY <1>2
<1> QED BY <1>1, <1>2, <1>4, <1>5, <1>6, <1>7, <1>8

\* What is stored in a field is found in it, whatever the others hold.
LEMMA FieldsExtract ==
    ASSUME NEW W, \A v \in 0..7 : W[v] \in SUBSET (0..Size(v) - 1)
    PROVE  LET word == UNION {Stored(W[i], From[i], Size(i)) : i \in 0..7}
           IN  /\ word \in SUBSET (0..143)
               /\ \A v \in 0..7 : Extract(word, From[v], Size(v)) = W[v]
<1> DEFINE word == UNION {Stored(W[i], From[i], Size(i)) : i \in 0..7}
           In(i, p) == p \in From[i]..From[i] + Size(i) - 1
<1>1. \A i \in 0..7 : From[i] \in Nat /\ Size(i) \in Nat /\ From[i] + Size(i) <= 144
  BY FieldBounds, Zenon
<1>2. \A i \in 0..7 : \A p : p \in Stored(W[i], From[i], Size(i))
                           <=> In(i, p) /\ From[i] + Size(i) - 1 - p \in W[i]
  <2> TAKE i \in 0..7
  <2> TAKE p
  <2>1. From[i] \in Int /\ Size(i) \in Nat
    BY <1>1
  <2>2. Stored(W[i], From[i], Size(i))
          = {q \in From[i]..From[i] + Size(i) - 1 : From[i] + Size(i) - 1 - q \in W[i]}
    BY <2>1, StoredBits, Zenon
  <2> QED BY <2>2
<1>3. \A p : p \in word <=> \E i \in 0..7 : In(i, p) /\ From[i] + Size(i) - 1 - p \in W[i]
  <2>1. \A p : p \in word <=> \E i \in 0..7 : p \in Stored(W[i], From[i], Size(i))
    BY Zenon
  <2> HIDE DEF word, In
  <2> QED BY <1>2, <2>1, Zenon
<1>4. word \in SUBSET (0..143)
  <2> HIDE DEF word
  <2> SUFFICES ASSUME NEW p \in word PROVE p \in 0..143
    OBVIOUS
  <2>1. PICK i \in 0..7 : In(i, p)
    BY <1>3
  <2> QED BY <1>1, <2>1
<1>7. \A v, x \in 0..7 : v < x => From[v] + Size(v) <= From[x]
  BY FieldBounds, Zenon
<1>5. \A i, v \in 0..7 : \A p : In(i, p) /\ In(v, p) => i = v
  <2> TAKE i, v \in 0..7
  <2> TAKE p
  <2> HAVE In(i, p) /\ In(v, p)
  <2>1. /\ i < v => From[i] + Size(i) <= From[v]
        /\ v < i => From[v] + Size(v) <= From[i]
    BY <1>7
  <2> QED BY <1>1, <2>1
<1>6. ASSUME NEW v \in 0..7
      PROVE  Extract(word, From[v], Size(v)) = W[v]
  <2>1. From[v] \in Int /\ Size(v) \in Nat
    BY <1>1
  <2> HIDE DEF word
  <2>2. Extract(word, From[v], Size(v)) = {b \in 0..Size(v) - 1 : From[v] + Size(v) - 1 - b \in word}
    BY <2>1, ExtractBits
  <2>3. \A b \in 0..Size(v) - 1 : From[v] + Size(v) - 1 - b \in word <=> b \in W[v]
    <3> TAKE b \in 0..Size(v) - 1
    <3> DEFINE p == From[v] + Size(v) - 1 - b
    <3>1. In(v, p) /\ From[v] + Size(v) - 1 - p = b
      BY <2>1
    <3> HIDE DEF p, In
    <3>2. p \in word <=> From[v] + Size(v) - 1 - p \in W[v]
      BY <1>3, <1>5, <3>1, Zenon
    <3> QED BY <3>1, <3>2 DEF p
  <2>4. W[v] \in SUBSET (0..Size(v) - 1)
    OBVIOUS
  <2> QED BY <2>2, <2>3, <2>4
<1> QED BY <1>4, <1>6

-----------------------------------------------------------------------------
(* A codeword through imbe_header_encode, noise and imbe_header_decode.    *)

\* Vectors of the width their codes take.
Fits(u) ==
    /\ \A v \in 0..3 : u[v] \in SUBSET (0..11)
    /\ \A v \in 4..6 : u[v] \in SUBSET (0..10)
    /\ u[7] \in SUBSET (0..7)

Encoded(u, v) ==
    IF v \in Golay THEN golay_23_encode(u[v])
    ELSE IF v < 7 THEN hamming_15_encode(u[v])
    ELSE Shifted(u[v] \ {0}, -1)
Clear(u) == UNION {Stored(Encoded(u, i), From[i], Size(i)) : i \in 0..7}
Errors(noisy, v) == Extract(noisy, From[v], Size(v))

LEMMA EncodedFits ==
    ASSUME NEW u, Fits(u)
    PROVE  \A v \in 0..7 : Encoded(u, v) \in SUBSET (0..Size(v) - 1)
<1>1. ASSUME NEW v \in 0..3 PROVE Encoded(u, v) \in SUBSET (0..22)
  <2>1. u[v] \in SUBSET (0..11)
    BY DEF Fits
  <2>2. Encoded(u, v) = Shifted(u[v], 11) \cup SumOfRows(GolayRow, u[v], 0..10)
    BY DEF Encoded, Golay, golay_23_encode
  <2>3. Shifted(u[v], 11) \in SUBSET (0..22)
    BY <2>1 DEF Shifted
  <2>4. SumOfRows(GolayRow, u[v], 0..10) \in SUBSET (0..22)
    BY DEF SumOfRows
  <2> QED BY <2>2, <2>3, <2>4
<1>2. ASSUME NEW v \in 4..6 PROVE Encoded(u, v) \in SUBSET (0..14)
  <2>1. u[v] \in SUBSET (0..10)
    BY DEF Fits
  <2>2. Encoded(u, v) = Shifted(u[v], 4) \cup SumOfRows(HammingRow, u[v], 0..3)
    BY DEF Encoded, Golay, hamming_15_encode
  <2>3. Shifted(u[v], 4) \in SUBSET (0..14)
    BY <2>1 DEF Shifted
  <2>4. SumOfRows(HammingRow, u[v], 0..3) \in SUBSET (0..14)
    BY DEF SumOfRows
  <2> QED BY <2>2, <2>3, <2>4
<1>3. Encoded(u, 7) \in SUBSET (0..6)
  <2>1. u[7] \in SUBSET (0..7)
    BY DEF Fits
  <2>2. Encoded(u, 7) = Shifted(u[7] \ {0}, -1)
    BY SMTT(30) DEF Encoded, Golay
  <2> QED BY <2>1, <2>2 DEF Shifted
<1> QED
  <2> TAKE v \in 0..7
  <2>1. CASE v \in 0..3
    BY <1>1, <2>1, FieldBounds
  <2>2. CASE v \in 4..6
    BY <1>2, <2>2, FieldBounds
  <2>3. CASE v = 7
    BY <1>3, <2>3, FieldBounds
  <2> QED BY <2>1, <2>2, <2>3

LEMMA MaskBits == \A u0 : Mask(u0) \in SUBSET (23..136)
<1>1. \A Pr0, bits : pngen(Pr0, bits).n \in SUBSET {bits - i : i \in 1..bits}
  BY DEF pngen
<1>2. ASSUME NEW Pr0
      PROVE  /\ pngen(Pr0, 23).n \in SUBSET (0..22)
             /\ pngen(Pr0, 15).n \in SUBSET (0..14)
  <2>1. {23 - i : i \in 1..23} \in SUBSET (0..22) /\ {15 - i : i \in 1..15} \in SUBSET (0..14)
    OBVIOUS
  <2> QED BY <1>1, <2>1
<1>3. ASSUME NEW n
      PROVE  /\ n \in SUBSET (0..22) =>
                    /\ Stored(n, 23, 23) \in SUBSET (23..136)
                    /\ Stored(n, 46, 23) \in SUBSET (23..136)
                    /\ Stored(n, 69, 23) \in SUBSET (23..136)
             /\ n \in SUBSET (0..14) =>
                    /\ Stored(n, 92, 15) \in SUBSET (23..136)
                    /\ Stored(n, 107, 15) \in SUBSET (23..136)
                    /\ Stored(n, 122, 15) \in SUBSET (23..136)
  BY DEF Stored
<1> QED BY <1>2, <1>3 DEF Mask

LEMMA EncodedCodeword ==
    ASSUME NEW u, Fits(u)
    PROVE  /\ imbe_header_encode(u) = SymDiff(Mask(u[0]), Clear(u))
           /\ imbe_header_encode(u) \in SUBSET (0..143)
           /\ \A v \in 0..7 : Extract(Clear(u), From[v], Size(v)) = Encoded(u, v)
<1>1. imbe_header_encode(u) = SymDiff(Mask(u[0]), Clear(u))
  BY Zenon DEF imbe_header_encode, Clear, Encoded
<1>2. /\ Clear(u) \in SUBSET (0..143)
      /\ \A v \in 0..7 : Extract(Clear(u), From[v], Size(v)) = Encoded(u, v)
  <2> DEFINE W == [v \in 0..7 |-> Encoded(u, v)]
  <2>1. \A v \in 0..7 : W[v] = Encoded(u, v)
    OBVIOUS
  <2>2. \A v \in 0..7 : W[v] \in SUBSET (0..Size(v) - 1)
    BY <2>1, EncodedFits
  <2> HIDE DEF W
  <2>3. Clear(u) = UNION {Stored(W[i], From[i], Size(i)) : i \in 0..7}
    BY <2>1, Zenon DEF Clear
  <2> DEFINE word == UNION {Stored(W[i], From[i], Size(i)) : i \in 0..7}
  <2>4. /\ word \in SUBSET (0..143)
        /\ \A v \in 0..7 : Extract(word, From[v], Size(v)) = W[v]
    BY <2>2, FieldsExtract, Zenon
  <2> HIDE DEF word
  <2>5. Clear(u) = word
    BY <2>3, Zenon DEF word
  <2> QED BY <2>1, <2>4, <2>5
<1>3. Mask(u[0]) \in SUBSET (0..143)
  <2>1. u[0] \in SUBSET (0..11)
    BY DEF Fits
  <2> QED BY <2>1, MaskBits
<1> QED BY <1>1, <1>2, <1>3 DEF SymDiff

LEMMA ErrorsFit == \A noisy : \A v \in 0..7 : Errors(noisy, v) \in SUBSET (0..Size(v) - 1)
<1> TAKE noisy
<1> TAKE v \in 0..7
<1>1. From[v] \in Int /\ Size(v) \in Nat
  BY FieldBounds
<1>2. Extract(noisy, From[v], Size(v)) = {b \in 0..Size(v) - 1 : From[v] + Size(v) - 1 - b \in noisy}
  BY <1>1, ExtractBits
<1> QED BY <1>2 DEF Errors

\* Whatever the noise, of the vectors whose field it leaves within the reach of
\* its code each is decoded as it was encoded, if the first one is among them.
LEMMA DecodeEncoded ==
    ASSUME NEW u, Fits(u), NEW noisy, Cardinality(Errors(noisy, 0)) <= 3
    PROVE  LET x == imbe_header_decode(SymDiff(imbe_header_encode(u), noisy))
           IN  /\ \A v \in 0..3 : Cardinality(Errors(noisy, v)) <= 3 => x[v] = u[v]
               /\ \A v \in 4..6 : Cardinality(Errors(noisy, v)) <= 1 => x[v] = u[v]
               /\ Errors(noisy, 7) = {} => x[7] = Shifted(Shifted(u[7] \ {0}, -1), 1)
<1> DEFINE m == Mask(u[0])
           c == Clear(u)
           cw == SymDiff(imbe_header_encode(u), noisy)
           x == imbe_header_decode(cw)
           clear == SymDiff(c, noisy)
<1>1. /\ imbe_header_encode(u) = SymDiff(m, c)
      /\ \A v \in 0..7 : Extract(c, From[v], Size(v)) = Encoded(u, v)
  BY EncodedCodeword
<1>2. m \in SUBSET (23..136)
  BY MaskBits DEF Fits
<1> HIDE DEF m, c
<1>3. \A v \in 0..7 : From[v] \in Int /\ Size(v) \in Nat
  BY FieldBounds
<1>4. \A v \in 0..7 : Extract(clear, From[v], Size(v)) = SymDiff(Encoded(u, v), Errors(noisy, v))
  <2> TAKE v \in 0..7
  <2>2. From[v] \in Int /\ Size(v) \in Nat
    BY <1>3
  <2>1. Extract(SymDiff(c, noisy), From[v], Size(v))
          = SymDiff(Extract(c, From[v], Size(v)), Extract(noisy, From[v], Size(v)))
    <3>1. \A from \in Int, n \in Nat : Extract(SymDiff(c, noisy), from, n)
             = SymDiff(Extract(c, from, n), Extract(noisy, from, n))
      BY ExtractNoise
    <3> QED BY ONLY <2>2, <3>1, Zenon
  <2>3. Extract(c, From[v], Size(v)) = Encoded(u, v)
    BY <1>1
  <2> QED BY <2>1, <2>3, Zenon DEF Errors
<1>5. Extract(cw, 0, 23) = SymDiff(golay_23_encode(u[0]), Errors(noisy, 0))
  <2>1. Extract(cw, 0, 23) = SymDiff(Extract(SymDiff(m, c), 0, 23), Extract(noisy, 0, 23))
    BY <1>1, ExtractNoise
  <2>2. Extract(SymDiff(m, c), 0, 23) = SymDiff(Extract(m, 0, 23), Extract(c, 0, 23))
    BY ExtractNoise
  <2>3. Extract(m, 0, 23) = {}
    <3>1. Extract(m, 0, 23) = {b \in 0..23 - 1 : 0 + 23 - 1 - b \in m}
      BY ExtractBits
    <3> QED BY <3>1, <1>2
  <2>4. From[0] = 0 /\ Size(0) = 23
    BY FieldBounds
  <2>5. Extract(c, 0, 23) = golay_23_encode(u[0])
    <3>1. Extract(c, 0, 23) = Encoded(u, 0)
      BY <1>1, <2>4
    <3> QED BY <3>1 DEF Encoded, Golay
  <2>6. Extract(noisy, 0, 23) = Errors(noisy, 0)
    BY <2>4 DEF Errors
  <2> DEFINE a == Extract(m, 0, 23)  b == Extract(c, 0, 23)
  <2>7. SymDiff(a, b) = b
    BY <2>3 DEF SymDiff
  <2> HIDE DEF a, b, cw
  <2>8. SymDiff(Extract(m, 0, 23), Extract(c, 0, 23)) = Extract(c, 0, 23)
    BY <2>7, Zenon DEF a, b
  <2> QED BY <2>1, <2>2, <2>5, <2>6, <2>8
<1>6. golay_23_decode(Extract(cw, 0, 23)) = u[0]
  <2>1. u[0] \in SUBSET (0..11) /\ Errors(noisy, 0) \in SUBSET (0..22)
    <3>1. Size(0) - 1 = 22
      BY FieldBounds
    <3> QED BY <3>1, ErrorsFit DEF Fits
  <2> QED BY <2>1, <1>5, GolayCorrects
<1>7. SymDiff(cw, m) = clear
  <2> DEFINE e == imbe_header_encode(u)
  <2>1. e = SymDiff(m, c)
    BY <1>1
  <2> HIDE DEF e
  <2>2. SymDiff(SymDiff(e, noisy), m) = SymDiff(c, noisy)
    BY <2>1 DEF SymDiff
  <2> QED BY <2>2 DEF e
<1> DEFINE V(v) == Extract(clear, From[v], Size(v))
<1>8. \A v \in 0..7 : x[v] = IF v = 0 THEN u[0]
                             ELSE IF v \in Golay THEN golay_23_decode(V(v))
                             ELSE IF v < 7 THEN hamming_15_decode(V(v))
                             ELSE Shifted(V(v), 1)
  <2> HIDE DEF cw, clear
  <2> QED BY <1>6, <1>7, Zenon DEF imbe_header_decode, m
<1> HIDE DEF x, V
<1>9. ASSUME NEW v \in 0..3, Cardinality(Errors(noisy, v)) <= 3
      PROVE  x[v] = u[v]
  <2>1. CASE v = 0
    BY <1>8, <2>1
  <2>2. CASE v # 0
    <3>1. x[v] = golay_23_decode(V(v))
      BY <1>8, <2>2 DEF Golay
    <3>2. V(v) = SymDiff(golay_23_encode(u[v]), Errors(noisy, v))
      BY <1>4 DEF V, Encoded, Golay
    <3>3. u[v] \in SUBSET (0..11) /\ Errors(noisy, v) \in SUBSET (0..22)
      <4>1. Size(v) - 1 = 22
        BY FieldBounds
      <4> QED BY <4>1, ErrorsFit DEF Fits
    <3> QED BY <3>1, <3>2, <3>3, <1>9, GolayCorrects
  <2> QED BY <2>1, <2>2
<1>10. ASSUME NEW v \in 4..6, Cardinality(Errors(noisy, v)) <= 1
       PROVE  x[v] = u[v]
  <2>1. x[v] = hamming_15_decode(V(v))
    BY <1>8 DEF Golay
  <2>2. V(v) = SymDiff(hamming_15_encode(u[v]), Errors(noisy, v))
    BY <1>4 DEF V, Encoded, Golay
  <2>3. u[v] \in SUBSET (0..10) /\ Errors(noisy, v) \in SUBSET (0..14)
    <3>1. Size(v) - 1 = 14
      BY FieldBounds
    <3> QED BY <3>1, ErrorsFit DEF Fits
  <2> QED BY <2>1, <2>2, <2>3, <1>10, HammingCorrects
<1>11. ASSUME Errors(noisy, 7) = {}
       PROVE  x[7] = Shifted(Shifted(u[7] \ {0}, -1), 1)
  <2>1. x[7] = Shifted(V(7), 1)
    BY <1>8 DEF Golay
  <2>2. V(7) = SymDiff(Shifted(u[7] \ {0}, -1), Errors(noisy, 7))
    BY <1>4 DEF V, Encoded, Golay
  <2>3. V(7) = Shifted(u[7] \ {0}, -1)
    BY <1>11, <2>2 DEF SymDiff
  <2> QED BY <2>1, <2>3
<1> QED BY <1>9, <1>10, <1>11, Zenon DEF x

-----------------------------------------------------------------------------
(* The places of bits in a frame.                                          *)

\* Where the bits of a frame that are none of the status lie, and that leaving
\* out the status undoes putting it in.
LEMMA FrameBits ==
    ASSUME NEW n \in Nat
    PROVE  /\ FrameBit(n) \in Nat
           /\ ~IsStatus(FrameBit(n))
           /\ FrameBit(n) - 2 * (FrameBit(n) \div 72) = n
<1> DEFINE q == n \div 70  r == n % 70
<1>1. q \in Nat /\ r \in 0..69 /\ n = 70 * q + r
  OBVIOUS
<1>2. FrameBit(n) = 72 * q + r
  BY <1>1 DEF FrameBit
<1> HIDE DEF q, r
<1>3. (72 * q + r) \div 72 = q /\ (72 * q + r) % 72 = r
  BY <1>1
<1>4. FrameBit(n) \in Nat
  BY <1>1, <1>2
<1>5. FrameBit(n) % 72 = r /\ FrameBit(n) \div 72 = q
  BY <1>2, <1>3
<1>6. ~IsStatus(FrameBit(n))
  BY <1>1, <1>5 DEF IsStatus
<1> QED BY <1>1, <1>2, <1>4, <1>5, <1>6

LEMMA FrameBitInjective ==
    ASSUME NEW m \in Nat, NEW n \in Nat, FrameBit(m) = FrameBit(n)
    PROVE  m = n
BY FrameBits

LEMMA WithoutStatusBit ==
    ASSUME NEW frame \in SUBSET Nat, NEW n \in Nat
    PROVE  n \in WithoutStatus(frame) <=> FrameBit(n) \in frame
<1>1. ASSUME n \in WithoutStatus(frame) PROVE FrameBit(n) \in frame
  <2>1. PICK p \in frame : ~IsStatus(p) /\ n = p - 2 * (p \div 72)
    BY <1>1 DEF WithoutStatus
  <2> DEFINE q == p \div 72  r == p % 72
  <2>2. q \in Nat /\ r \in 0..71 /\ p = 72 * q + r /\ p \in Nat
    OBVIOUS
  <2>3. r <= 69
    BY <2>1, <2>2 DEF IsStatus
  <2>4. n = 70 * q + r
    BY <2>1, <2>2
  <2> HIDE DEF q, r
  <2>5. n \div 70 = q
    BY <2>2, <2>3, <2>4
  <2>6. FrameBit(n) = p
    BY <2>2, <2>4, <2>5 DEF FrameBit
  <2> QED BY <2>6
<1>2. ASSUME FrameBit(n) \in frame PROVE n \in WithoutStatus(frame)
  <2>1. FrameBit(n) \in {p \in frame : ~IsStatus(p)} /\ n = FrameBit(n) - 2 * (FrameBit(n) \div 72)
    BY <1>2, FrameBits
  <2> QED BY <2>1, Zenon DEF WithoutStatus
<1> QED BY <1>1, <1>2

\* The first bit of a codeword, status bits left out.
FirstBit(nr) == 8 * ImbeOffset[nr + 1]

LEMMA Bases ==
    /\ \A nr \in 0..8 : FirstBit(nr) = Begin[nr] - 2 * (Begin[nr] \div 72) /\ FirstBit(nr) \in Nat /\ FirstBit(nr) >= 112
    /\ \A nr, x \in 0..8 : nr < x => FirstBit(nr) + 144 <= FirstBit(x)
<1>1. /\ ImbeOffset[1] = 14 /\ ImbeOffset[2] = 32 /\ ImbeOffset[3] = 55
      /\ ImbeOffset[4] = 78 /\ ImbeOffset[5] = 101 /\ ImbeOffset[6] = 124
      /\ ImbeOffset[7] = 147 /\ ImbeOffset[8] = 170 /\ ImbeOffset[9] = 192
  BY DEF ImbeOffset
<1>2. /\ FirstBit(0) = 112 /\ FirstBit(1) = 256 /\ FirstBit(2) = 440 /\ FirstBit(3) = 624 /\ FirstBit(4) = 808
      /\ FirstBit(5) = 992 /\ FirstBit(6) = 1176 /\ FirstBit(7) = 1360 /\ FirstBit(8) = 1536
  BY <1>1 DEF FirstBit
<1>3. /\ Begin[0] = 114 /\ Begin[1] = 262 /\ Begin[2] = 452 /\ Begin[3] = 640 /\ Begin[4] = 830
      /\ Begin[5] = 1020 /\ Begin[6] = 1208 /\ Begin[7] = 1398 /\ Begin[8] = 1578
  BY DEF Begin
<1>4. \A nr \in 0..8 : nr = 0 \/ nr = 1 \/ nr = 2 \/ nr = 3 \/ nr = 4 \/ nr = 5 \/ nr = 6
                        \/ nr = 7 \/ nr = 8
  OBVIOUS
<1>5. \A nr \in 0..8 : FirstBit(nr) = Begin[nr] - 2 * (Begin[nr] \div 72) /\ FirstBit(nr) \in Nat /\ FirstBit(nr) >= 112
  <2> TAKE nr \in 0..8
  <2> QED BY <1>2, <1>3, <1>4
<1>6. ASSUME NEW nr \in 0..8, NEW x \in 0..8, nr < x
      PROVE  FirstBit(nr) + 144 <= FirstBit(x)
  BY <1>2, <1>4, <1>6
<1> QED BY <1>5, <1>6

\* The interleaver writes a codeword in six rows of 24 columns and reads it by
\* columns, in the odd ones of which rows change places in pairs.
Numbers == 0..8
Positions == 0..143
RowOf(j) == j \div 24
Column(j) == j % 24
Swapped(j) ==
    IF Column(j) % 2 = 0 THEN RowOf(j) ELSE IF RowOf(j) % 2 = 0 THEN RowOf(j) + 1 ELSE RowOf(j) - 1

LEMMA Grid ==
    ASSUME NEW j \in Positions
    PROVE  /\ RowOf(j) \in 0..5 /\ Column(j) \in 0..23 /\ j = 24 * RowOf(j) + Column(j)
           /\ Swapped(j) \in 0..5 /\ Interleaved(j) = 6 * Column(j) + Swapped(j)
           /\ Interleaved(j) \in 0..143
<1>1. RowOf(j) \in 0..5 /\ Column(j) \in 0..23 /\ j = 24 * RowOf(j) + Column(j)
  BY DEF RowOf, Column, Positions
<1>2. Swapped(j) \in 0..5
  BY <1>1 DEF Swapped
<1>3. Interleaved(j) = 6 * Column(j) + Swapped(j)
  BY DEF Interleaved, Swapped, RowOf, Column
<1> QED BY <1>1, <1>2, <1>3

LEMMA InterleavedBits ==
    /\ \A j \in 0..143 : Interleaved(j) \in 0..143
    /\ \A j, k \in 0..143 : Interleaved(j) = Interleaved(k) => j = k
<1>1. ASSUME NEW j \in Positions, NEW k \in Positions, Interleaved(j) = Interleaved(k)
      PROVE  j = k
  <2>1. /\ RowOf(j) \in 0..5 /\ Column(j) \in 0..23 /\ j = 24 * RowOf(j) + Column(j)
        /\ RowOf(k) \in 0..5 /\ Column(k) \in 0..23 /\ k = 24 * RowOf(k) + Column(k)
        /\ Swapped(j) \in 0..5 /\ Interleaved(j) = 6 * Column(j) + Swapped(j)
        /\ Swapped(k) \in 0..5 /\ Interleaved(k) = 6 * Column(k) + Swapped(k)
    BY Grid
  <2> DEFINE c == Column(j)  d == Column(k)  p == Swapped(j)  q == Swapped(k)
  <2>a. /\ c \in 0..23 /\ d \in 0..23 /\ p \in 0..5 /\ q \in 0..5
        /\ 6 * c + p = 6 * d + q
    BY <1>1, <2>1
  <2> HIDE DEF c, d, p, q
  <2>b. c = d /\ p = q
    BY ONLY <2>a
  <2>2. Column(j) = Column(k) /\ Swapped(j) = Swapped(k)
    BY <2>b DEF c, d, p, q
  <2>3. RowOf(j) = RowOf(k)
    BY <2>1, <2>2 DEF Swapped
  <2> QED BY <2>1, <2>2, <2>3
<1> QED BY <1>1, Grid, Zenon DEF Positions

\* Every bit of a codeword has a place of its own in the frame, after the NID
\* and not a status bit's.
Place(nr, j) == voice_codeword_bits[nr][j]

LEMMA Places ==
    \A nr \in 0..8, j \in 0..143 :
       /\ Place(nr, j) = FrameBit(FirstBit(nr) + Interleaved(j))
       /\ FirstBit(nr) + Interleaved(j) \in Nat /\ FirstBit(nr) + Interleaved(j) >= 112
       /\ Place(nr, j) \in Nat /\ ~IsStatus(Place(nr, j))
<1>1. ASSUME NEW nr \in 0..8, NEW j \in 0..143
      PROVE  /\ Place(nr, j) = FrameBit(FirstBit(nr) + Interleaved(j))
             /\ FirstBit(nr) + Interleaved(j) \in Nat /\ FirstBit(nr) + Interleaved(j) >= 112
             /\ Place(nr, j) \in Nat /\ ~IsStatus(Place(nr, j))
  <2>1. Place(nr, j) = FrameBit(Begin[nr] - 2 * (Begin[nr] \div 72) + Interleaved(j))
    <3>1. DOMAIN Begin = 0..8
      BY DEF Begin
    <3> QED BY <3>1, Zenon DEF Place, voice_codeword_bits
  <2>2. FirstBit(nr) = Begin[nr] - 2 * (Begin[nr] \div 72) /\ FirstBit(nr) \in Nat /\ FirstBit(nr) >= 112
    BY Bases, Zenon
  <2>3. Interleaved(j) \in 0..143
    BY InterleavedBits, Zenon
  <2>4. FirstBit(nr) + Interleaved(j) \in Nat /\ FirstBit(nr) + Interleaved(j) >= 112
    BY <2>2, <2>3
  <2>5. Place(nr, j) = FrameBit(FirstBit(nr) + Interleaved(j))
    BY <2>1, <2>2, Zenon
  <2>6. FirstBit(nr) + Interleaved(j) \in Nat
    BY <2>4
  <2> QED BY <2>4, <2>5, <2>6, FrameBits
<1> QED BY <1>1

LEMMA PlaceInjective ==
    ASSUME NEW nr \in Numbers, NEW x \in Numbers, NEW j \in Positions, NEW k \in Positions,
           Place(nr, j) = Place(x, k)
    PROVE  nr = x /\ j = k
<1>0. nr \in 0..8 /\ x \in 0..8 /\ j \in 0..143 /\ k \in 0..143
  BY DEF Numbers, Positions
<1>1. /\ FirstBit(nr) + Interleaved(j) \in Nat /\ FirstBit(x) + Interleaved(k) \in Nat
      /\ FrameBit(FirstBit(nr) + Interleaved(j)) = FrameBit(FirstBit(x) + Interleaved(k))
  BY <1>0, Places
<1>2. FirstBit(nr) + Interleaved(j) = FirstBit(x) + Interleaved(k)
  BY <1>1, FrameBitInjective, Zenon
<1>3. Interleaved(j) \in 0..143 /\ Interleaved(k) \in 0..143
  BY <1>0, InterleavedBits, Zenon
<1>4. /\ nr < x => FirstBit(nr) + 144 <= FirstBit(x)
      /\ x < nr => FirstBit(x) + 144 <= FirstBit(nr)
      /\ FirstBit(nr) \in Nat /\ FirstBit(nr) >= 112 /\ FirstBit(x) \in Nat
  BY <1>0, Bases, Zenon
<1>5. nr = x
  <2>1. /\ Interleaved(j) \in Nat /\ Interleaved(j) < 144
        /\ Interleaved(k) \in Nat /\ Interleaved(k) < 144
    BY <1>3
  <2>2. ~(nr < x) /\ ~(x < nr)
    BY ONLY <1>2, <1>4, <2>1
  <2> QED BY <1>0, <2>2
<1>6. Interleaved(j) = Interleaved(k)
  BY <1>2, <1>3, <1>4, <1>5, SMTT(30)
<1> QED BY <1>5, <1>6, <1>0, InterleavedBits, Zenon

LEMMA PlaceAmong ==
    ASSUME NEW nr \in Numbers, NEW i \in Numbers, NEW j \in Positions, NEW S \in SUBSET Positions,
           \E k \in S : Place(nr, j) = Place(i, k)
    PROVE  nr = i /\ j \in S
<1>1. PICK k \in Positions : k \in S /\ Place(nr, j) = Place(i, k)
  OBVIOUS
<1>2. nr = i /\ j = k
  BY <1>1, PlaceInjective
<1> QED BY <1>1, <1>2

\* The NID of a frame, and what the transmitters add, are apart from the
\* codewords.
LEMMA NidApart ==
    ASSUME NEW word \in SUBSET (0..63)
    PROVE  /\ InFrame(word) \in SUBSET Nat
           /\ \A nr \in 0..8, j \in 0..143 : Place(nr, j) \notin InFrame(word)
<1>1. \A k \in 0..63 : NidBits[k] = FrameBit(48 + k) /\ 48 + k \in Nat /\ 48 + k < 112
  BY DEF NidBits
<1>2. InFrame(word) \in SUBSET Nat
  <2>1. \A k \in 0..63 : NidBits[k] \in Nat
    BY <1>1, FrameBits, ZenonT(40)
  <2> QED BY <2>1 DEF InFrame
<1>3. ASSUME NEW nr \in 0..8, NEW j \in 0..143, Place(nr, j) \in InFrame(word)
      PROVE  FALSE
  <2>1. PICK k \in 0..63 : Place(nr, j) = NidBits[k]
    BY <1>3 DEF InFrame
  <2>2. FrameBit(FirstBit(nr) + Interleaved(j)) = FrameBit(48 + k)
    BY <1>1, <2>1, Places
  <2>3. FirstBit(nr) + Interleaved(j) \in Nat /\ FirstBit(nr) + Interleaved(j) >= 112
    BY Places
  <2>4. FirstBit(nr) + Interleaved(j) = 48 + k
    BY <1>1, <2>2, <2>3, FrameBitInjective
  <2> QED BY <1>1, <2>3, <2>4
<1> QED BY <1>2, <1>3

LEMMA NidWord ==
    ASSUME NEW duid PROVE bch_64_16_23_encode(Nac, duid) \in SUBSET (0..63)
<1> DEFINE data == {62 - k : k \in {k \in 0..11 : Bit(Nac, 11 - k) = 1}
                              \cup {12 + k : k \in {k \in 0..3 : Bit(duid, 3 - k) = 1}}}
           check == SumOfRows(bchRow, data, 0..46)
<1>1. data \in SUBSET (0..62)
  OBVIOUS
<1>2. check \in SUBSET (0..62)
  BY DEF SumOfRows
<1> HIDE DEF data, check
<1>3. FromCodeword(data \cup check) \in SUBSET (0..63)
  BY <1>1, <1>2 DEF FromCodeword
<1> QED BY <1>3, Zenon DEF bch_64_16_23_encode, data, check

\* A codeword comes out of a frame as it went in, if nothing else in the frame
\* lies at its places.
Placed(cw) == UNION {imbe_interleave(cw[i], i) : i \in 0..8}
Recovers(rest, cw, nr) == imbe_deinterleave(rest \cup Placed(cw), nr) = cw[nr]

LEMMA DeinterleaveInterleaved ==
    ASSUME NEW rest, NEW cw, \A i \in 0..8 : cw[i] \in SUBSET (0..143), NEW nr \in 0..8,
           \A j \in 0..143 : Place(nr, j) \notin rest
    PROVE  Recovers(rest, cw, nr)
<1> DEFINE all == Placed(cw)
<1>1. \A i \in 0..8 : \A p : p \in imbe_interleave(cw[i], i) <=> \E k \in cw[i] : p = Place(i, k)
  BY DEF imbe_interleave, Place
<1>2. \A p : p \in all <=> \E i \in 0..8 : \E k \in cw[i] : p = Place(i, k)
  BY <1>1 DEF Placed
<1> HIDE DEF all
<1>3. \A j \in 0..143 : Place(nr, j) \in rest \cup all <=> j \in cw[nr]
  <2> TAKE j \in 0..143
  <2>1. Place(nr, j) \in rest \cup all <=> Place(nr, j) \in all
    OBVIOUS
  <2>2. ASSUME Place(nr, j) \in all PROVE j \in cw[nr]
    <3>1. PICK i \in 0..8 : \E k \in cw[i] : Place(nr, j) = Place(i, k)
      BY <1>2, <2>2
    <3>2. /\ nr \in Numbers /\ i \in Numbers
          /\ j \in Positions /\ cw[i] \in SUBSET Positions
      BY DEF Numbers, Positions
    <3> QED BY ONLY <3>1, <3>2, PlaceAmong, Zenon
  <2>3. ASSUME j \in cw[nr] PROVE Place(nr, j) \in all
    BY <1>2, <2>3
  <2> QED BY <2>1, <2>2, <2>3
<1>4. cw[nr] \in SUBSET (0..143)
  OBVIOUS
<1>5. imbe_deinterleave(rest \cup all, nr) = {j \in 0..143 : Place(nr, j) \in rest \cup all}
  BY DEF imbe_deinterleave, Place
<1>6. {j \in 0..143 : Place(nr, j) \in rest \cup all} = cw[nr]
  BY <1>3, <1>4
<1> QED BY <1>5, <1>6 DEF all, Recovers

LEMMA DeinterleaveNoise ==
    ASSUME NEW A, NEW B, NEW nr
    PROVE  imbe_deinterleave(SymDiff(A, B), nr)
             = SymDiff(imbe_deinterleave(A, nr), imbe_deinterleave(B, nr))
BY DEF imbe_deinterleave, SymDiff

-----------------------------------------------------------------------------
(* A voice frame from a transmitter to the vocoder.                        *)

\* The vectors as they go into the codewords: a radio's last one is not
\* shifted by the encoder.
Given(who, u) ==
    IF who = "vocoder" THEN u ELSE [nr \in 0..8 |-> [u[nr] EXCEPT ![7] = Shifted(@, 1)]]

LEMMA GivenFits ==
    ASSUME NEW who, NEW u \in Talks, NEW nr \in 0..8
    PROVE  /\ Fits(Given(who, u)[nr])
           /\ \A v \in 0..6 : Given(who, u)[nr][v] = u[nr][v]
           /\ who # "vocoder" => Given(who, u)[nr][7] = Shifted(u[nr][7], 1)
<1>1. /\ u[nr] \in [0..7 -> SUBSET (0..11)]
      /\ \A v \in 4..6 : u[nr][v] \subseteq 0..10
      /\ u[nr][7] \subseteq 0..6
  BY AirAssumption
<1>2. CASE who = "vocoder"
  BY <1>1, <1>2 DEF Given, Fits
<1>3. CASE who # "vocoder"
  <2> DEFINE x == Given(who, u)[nr]
  <2>1. x = [u[nr] EXCEPT ![7] = Shifted(@, 1)]
    BY <1>3 DEF Given
  <2> HIDE DEF x
  <2>2. x[7] = Shifted(u[nr][7], 1) /\ \A v \in 0..6 : x[v] = u[nr][v]
    BY <1>1, <2>1
  <2>3. x[7] \in SUBSET (0..7)
    BY <1>1, <2>2 DEF Shifted
  <2>4. Fits(x)
    BY <1>1, <2>2, <2>3 DEF Fits
  <2> QED BY <2>2, <2>4 DEF x
<1> QED BY <1>2, <1>3

LEMMA StatusApart ==
    /\ StatusPreset \in SUBSET Nat
    /\ \A p \in StatusPreset : IsStatus(p)
<1>1. \A p \in Nat : p % 432 = 71 => p % 72 = 71
  OBVIOUS
<1>2. \A p \in StatusPreset : p \in Nat /\ (p % 72 = 70 \/ p % 432 = 71)
  BY DEF StatusPreset, LongestFrame
<1>3. \A p \in StatusPreset : p \in Nat /\ p % 72 >= 70
  <2> TAKE p \in StatusPreset
  <2>1. p \in Nat
    BY <1>2
  <2>2. p % 72 = 70 \/ p % 72 = 71
    BY <1>1, <1>2, <2>1
  <2> QED BY <2>1, <2>2
<1> QED BY <1>3 DEF IsStatus

LEMMA FrameOfCodewords ==
    ASSUME NEW who \in {"vocoder", "radio"}, NEW duid \in {5, 10}, NEW u \in Talks
    PROVE  /\ VoiceFrame(who, duid, u) \in SUBSET Nat
           /\ \A nr \in 0..8 :
                 imbe_deinterleave(VoiceFrame(who, duid, u), nr)
                   = imbe_header_encode(Given(who, u)[nr])
<1> DEFINE cw == [i \in 0..8 |-> imbe_header_encode(Given(who, u)[i])]
           all == Placed(cw)
           word == InFrame(bch_64_16_23_encode(Nac, duid))
           rest == IF who = "vocoder" THEN word \cup StatusPreset \cup ldu_preset[duid] ELSE word
<1>1. \A i \in 0..8 : cw[i] = imbe_header_encode(Given(who, u)[i])
  BY Zenon
<1>2. \A i \in 0..8 : cw[i] \in SUBSET (0..143)
  BY <1>1, GivenFits, EncodedCodeword
<1> HIDE DEF cw
<1>3. VoiceFrame(who, duid, u) = rest \cup all
  <2>1. CASE who = "vocoder"
    <3>1. \A i \in 0..8 : cw[i] = imbe_header_encode(u[i])
      BY <1>1, <2>1 DEF Given
    <3>2. AppendAll(duid, u) = all \cup StatusPreset \cup ldu_preset[duid]
      <4>1. {imbe_interleave(imbe_header_encode(u[nr]), nr) : nr \in 0..8}
              = {imbe_interleave(cw[i], i) : i \in 0..8}
        BY <3>1
      <4> DEFINE a == {imbe_interleave(imbe_header_encode(u[nr]), nr) : nr \in 0..8}
                 b == {imbe_interleave(cw[i], i) : i \in 0..8}
      <4>2. AppendAll(duid, u) = (UNION a) \cup StatusPreset \cup ldu_preset[duid] /\ a = b
        BY <4>1, Zenon DEF AppendAll
      <4>3. UNION b = all
        BY Zenon DEF Placed
      <4> HIDE DEF a, b, all
      <4> QED BY <4>2, <4>3
    <3> HIDE DEF all, word
    <3>3. VoiceFrame(who, duid, u) = word \cup (all \cup StatusPreset \cup ldu_preset[duid])
      BY <2>1, <3>2 DEF VoiceFrame, word
    <3> QED BY <2>1, <3>3
  <2>2. CASE who # "vocoder"
    <3>1. \A i \in 0..8 : cw[i] = imbe_header_encode([u[i] EXCEPT ![7] = Shifted(@, 1)])
      BY <1>1, <2>2 DEF Given
    <3>2. RadioAll(u) = all
      <4>1. {imbe_interleave(imbe_header_encode([u[nr] EXCEPT ![7] = Shifted(@, 1)]), nr) : nr \in 0..8}
              = {imbe_interleave(cw[i], i) : i \in 0..8}
        BY <3>1
      <4> QED BY <4>1, Zenon DEF RadioAll, Placed
    <3> HIDE DEF all, word
    <3>3. VoiceFrame(who, duid, u) = word \cup all
      BY <2>2, <3>2 DEF VoiceFrame, word
    <3> QED BY <2>2, <3>3
  <2> QED BY <2>1, <2>2
<1>4. /\ word \in SUBSET Nat
      /\ \A nr \in 0..8, j \in 0..143 : Place(nr, j) \notin word
  BY NidWord, NidApart
<1>5. /\ rest \in SUBSET Nat
      /\ \A nr \in 0..8, j \in 0..143 : Place(nr, j) \notin rest
  <2> HIDE DEF word
  <2>1. /\ ldu_preset[duid] \subseteq Nat
        /\ \A nr \in 0..8, j \in 0..143 : Place(nr, j) \notin ldu_preset[duid]
    <3>1. ldu_preset[duid] \subseteq Nat
      BY PresetApart, Zenon
    <3>2. \A nr \in 0..8, j \in 0..143 : voice_codeword_bits[nr][j] \notin ldu_preset[duid]
      BY PresetApart, Zenon
    <3> QED BY <3>1, <3>2, Zenon DEF Place
  <2>2. \A nr \in 0..8, j \in 0..143 : Place(nr, j) \notin StatusPreset
    BY Places, StatusApart
  <2>3. StatusPreset \in SUBSET Nat
    BY StatusApart
  <2>4. ldu_preset[duid] \in SUBSET Nat
    BY <2>1
  <2> QED BY <1>4, <2>1, <2>2, <2>3, <2>4, Zenon
<1> HIDE DEF rest, word
<1>6. all \in SUBSET Nat
  <2>1. ASSUME NEW i \in 0..8 PROVE imbe_interleave(cw[i], i) \in SUBSET Nat
    <3>1. \A j \in cw[i] : Place(i, j) \in Nat
      BY <1>2, Places
    <3> QED BY <3>1, SMTT(30) DEF imbe_interleave, Place
  <2> QED BY <2>1 DEF Placed
<1>7. ASSUME NEW nr \in 0..8
      PROVE  imbe_deinterleave(rest \cup all, nr) = cw[nr]
  <2>1. \A j \in 0..143 : Place(nr, j) \notin rest
    BY <1>5, Zenon
  <2>2. \A i \in 0..8 : cw[i] \in SUBSET (0..143)
    BY <1>2, Zenon
  <2>3. Recovers(rest, cw, nr)
    BY <2>1, <2>2, DeinterleaveInterleaved, Zenon
  <2> QED BY <2>3 DEF Recovers
<1> HIDE DEF all
<1> QED BY <1>1, <1>3, <1>5, <1>6, <1>7

\* The noise in a field, counted in the frame and in the codeword.
LEMMA NoiseInField ==
    ASSUME NEW nr \in 0..8, NEW v \in 0..7
    PROVE  /\ IsFiniteSet(FieldNoise(nr, v)) /\ Cardinality(FieldNoise(nr, v)) \in Nat
           /\ Cardinality(Errors(imbe_deinterleave(noise, nr), v)) \in Nat
           /\ Cardinality(Errors(imbe_deinterleave(noise, nr), v)) <= Cardinality(FieldNoise(nr, v))
           /\ FieldNoise(nr, v) = {} => Errors(imbe_deinterleave(noise, nr), v) = {}
<1> DEFINE F == FieldNoise(nr, v)
           N == imbe_deinterleave(noise, nr)
           E == Errors(N, v)
           mirror == From[v] + Size(v) - 1
           f == [j \in F |-> mirror - j]
<1>1. From[v] \in Nat /\ Size(v) \in Nat /\ From[v] + Size(v) <= 144
  BY FieldBounds
<1>2. F = {j \in From[v]..From[v] + Size(v) - 1 : Place(nr, j) \in noise}
  BY Zenon DEF FieldNoise, Place
<1>3. \A j : j \in N <=> j \in 0..143 /\ Place(nr, j) \in noise
  BY DEF imbe_deinterleave, Place
<1>4. \A b : b \in E <=> b \in 0..Size(v) - 1 /\ mirror - b \in N
  <2> DEFINE from == From[v]  n == Size(v)
             X == Extract(N, from, n)
  <2>1. from \in Int /\ n \in Nat
    BY <1>1
  <2>2. E = X
    BY DEF Errors
  <2> HIDE DEF N, from, n, E
  <2>3. X = {b \in 0..n - 1 : from + n - 1 - b \in N}
    BY <2>1, ExtractBits
  <2> HIDE DEF X
  <2>4. \A b : b \in X <=> b \in 0..n - 1 /\ from + n - 1 - b \in N
    BY <2>3
  <2>5. mirror = from + n - 1
    BY DEF from, n
  <2>6. n = Size(v)
    BY DEF n
  <2> HIDE DEF mirror
  <2>7. \A b : b \in X <=> b \in 0..Size(v) - 1 /\ mirror - b \in N
    BY <2>1, <2>4, <2>5, <2>6
  <2> QED BY <2>2, <2>7, Zenon
<1>5. IsFiniteSet(F) /\ Cardinality(F) \in Nat
  <2>1. F \in SUBSET (0..143)
    BY <1>1, <1>2
  <2> HIDE DEF F
  <2>2. 0 \in Int /\ 143 \in Int
    OBVIOUS
  <2> QED BY <2>1, <2>2, FiniteBits, Zenon
<1> HIDE DEF F, N, E
<1>6. f \in Surjection(F, E)
  <2>1. ASSUME NEW j \in F PROVE mirror - j \in E
    <3>1. j \in From[v]..From[v] + Size(v) - 1 /\ Place(nr, j) \in noise
      BY <1>2
    <3>2. mirror - j \in 0..Size(v) - 1 /\ mirror - (mirror - j) = j /\ j \in 0..143
      BY <1>1, <3>1
    <3>3. j \in N
      BY <1>3, <3>1, <3>2, Zenon
    <3> HIDE DEF mirror
    <3> QED BY <1>4, <3>2, <3>3
  <2>2. f \in [F -> E]
    BY <2>1
  <2>3. ASSUME NEW b \in E PROVE \E j \in F : f[j] = b
    <3>1. b \in 0..Size(v) - 1 /\ mirror - b \in N
      BY <1>4
    <3>2. mirror - b \in 0..143 /\ Place(nr, mirror - b) \in noise
      BY <1>3, <3>1, Zenon
    <3>3. mirror - b \in From[v]..From[v] + Size(v) - 1 /\ mirror - (mirror - b) = b
      BY <1>1, <3>1
    <3>4. mirror - b \in F
      <4> HIDE DEF mirror
      <4> QED BY <1>2, <3>2, <3>3
    <3>5. f[mirror - b] = b
      BY <3>3, <3>4
    <3> QED BY <3>4, <3>5, Zenon
  <2> HIDE DEF f
  <2> QED BY <2>2, <2>3, Zenon DEF Surjection
<1>7. IsFiniteSet(E) /\ Cardinality(E) <= Cardinality(F)
  <2> HIDE DEF f
  <2> QED BY <1>5, <1>6, FS_Surjection, Zenon
<1>8. Cardinality(E) \in Nat
  BY <1>7, FS_CardinalityType, Zenon
<1>9. F = {} => E = {}
  <2>1. ASSUME F = {}, NEW b \in E PROVE FALSE
    <3>1. \E j \in F : f[j] = b
      BY <1>6 DEF Surjection
    <3> QED BY <2>1, <3>1
  <2> QED BY <2>1
<1> QED BY <1>5, <1>7, <1>8, <1>9 DEF F, N, E

\* rxchar's last step.
Unshifted(line) == [line EXCEPT ![7] = Shifted(@ \ {0}, -1)]

\* What comes of a codeword.
Line(frame, i) == imbe_header_decode(imbe_deinterleave(frame, i - 1))

\* A vector whose field and whose codeword's first field are within reach of
\* their codes is heard as it was meant.
LEMMA HeardAsMeant ==
    ASSUME NEW who \in {"vocoder", "radio"}, NEW duid \in {5, 10}, NEW u \in Talks,
           NEW i \in 1..9, NEW v \in 0..7,
           Curable(i - 1, 0), Curable(i - 1, v), v < 7 \/ who = "radio"
    PROVE  Unshifted(Line(SymDiff(VoiceFrame(who, duid, u), noise), i))[v] = u[i - 1][v]
<1> DEFINE nr == i - 1
           g == Given(who, u)[nr]
           N == imbe_deinterleave(noise, nr)
           line == imbe_header_decode(SymDiff(imbe_header_encode(g), N))
<1>1. nr \in 0..8
  OBVIOUS
<1>2. Fits(g) /\ \A x \in 0..6 : g[x] = u[nr][x]
  BY <1>1, GivenFits
<1>3. Line(SymDiff(VoiceFrame(who, duid, u), noise), i) = line
  <2>1. imbe_deinterleave(VoiceFrame(who, duid, u), nr) = imbe_header_encode(g)
    BY <1>1, FrameOfCodewords
  <2>2. \A A : imbe_deinterleave(SymDiff(A, noise), nr) = SymDiff(imbe_deinterleave(A, nr), N)
    BY DeinterleaveNoise
  <2> QED BY <2>1, <2>2, Zenon DEF Line
<1>4. /\ Cardinality(FieldNoise(nr, v)) \in Nat /\ Cardinality(FieldNoise(nr, 0)) \in Nat
      /\ Cardinality(Errors(N, v)) \in Nat /\ Cardinality(Errors(N, 0)) \in Nat
      /\ Cardinality(Errors(N, v)) <= Cardinality(FieldNoise(nr, v))
      /\ Cardinality(Errors(N, 0)) <= Cardinality(FieldNoise(nr, 0))
      /\ IsFiniteSet(FieldNoise(nr, v))
      /\ FieldNoise(nr, v) = {} => Errors(N, v) = {}
  <2>1. 0 \in 0..7
    OBVIOUS
  <2> HIDE DEF nr
  <2> QED BY <1>1, <2>1, NoiseInField
<1>5. Cardinality(Errors(N, 0)) <= 3
  <2>1. Cardinality(FieldNoise(nr, 0)) <= 3
    BY DEF Curable, Golay
  <2> HIDE DEF N, nr
  <2> QED BY <1>4, <2>1
<1> HIDE DEF g, N
<1>6. /\ \A x \in 0..3 : Cardinality(Errors(N, x)) <= 3 => line[x] = g[x]
      /\ \A x \in 4..6 : Cardinality(Errors(N, x)) <= 1 => line[x] = g[x]
      /\ Errors(N, 7) = {} => line[7] = Shifted(Shifted(g[7] \ {0}, -1), 1)
  BY <1>2, <1>5, DecodeEncoded, Zenon
<1>7. DOMAIN line = 0..7
  BY DEF imbe_header_decode
<1> HIDE DEF line
<1>8. CASE v \in 0..3
  <2>1. Cardinality(FieldNoise(nr, v)) <= 3
    BY <1>8 DEF Curable, Golay
  <2>2. line[v] = g[v]
    <3> HIDE DEF nr
    <3> QED BY <1>4, <1>6, <1>8, <2>1
  <2>3. v # 7
    BY <1>8
  <2> QED BY <1>2, <1>3, <1>7, <1>8, <2>2, <2>3 DEF Unshifted
<1>9. CASE v \in 4..6
  <2>1. Cardinality(FieldNoise(nr, v)) <= 1
    BY <1>9 DEF Curable, Golay
  <2>2. line[v] = g[v]
    <3> HIDE DEF nr
    <3> QED BY <1>4, <1>6, <1>9, <2>1
  <2>3. v # 7
    BY <1>9
  <2> QED BY <1>2, <1>3, <1>7, <1>9, <2>2, <2>3 DEF Unshifted
<1>10. CASE v = 7
  <2>1. Cardinality(FieldNoise(nr, 7)) <= 0
    BY <1>10 DEF Curable, Golay
  <2>2. Errors(N, 7) = {}
    <3> HIDE DEF nr
    <3>1. Cardinality(FieldNoise(nr, 7)) = 0
      BY <1>4, <1>10, <2>1
    <3>2. FieldNoise(nr, 7) = {}
      BY <1>4, <1>10, <3>1, FS_EmptySet
    <3> QED BY <1>4, <1>10, <3>2
  <2> DEFINE w == u[nr][7]
  <2>3. g[7] = Shifted(w, 1)
    BY <1>1, <1>10, GivenFits DEF g
  <2>4. w \subseteq 0..6
    BY <1>1, AirAssumption
  <2>5. line[7] = Shifted(Shifted(g[7] \ {0}, -1), 1)
    BY <1>6, <2>2
  <2> HIDE DEF w
  <2>6. Shifted(Shifted(w, 1) \ {0}, -1) = w
    <3>1. Shifted(w, 1) \ {0} = {b + 1 : b \in w}
      <4>1. \A b \in w : b + 1 # 0
        BY <2>4
      <4> QED BY ONLY <4>1, SMTT(30) DEF Shifted
    <3>2. \A x : x \in Shifted({b + 1 : b \in w}, -1) <=> x \in w
      <4>1. \A b \in w : (b + 1) + (-1) = b
        BY <2>4
      <4> QED BY <4>1, Zenon DEF Shifted
    <3> QED BY <3>1, <3>2
  <2>7. line[7] = Shifted(w, 1)
    BY <2>3, <2>5, <2>6
  <2>8. Unshifted(line)[7] = Shifted(line[7] \ {0}, -1)
    BY <1>7 DEF Unshifted
  <2> QED BY <1>3, <1>10, <2>6, <2>7, <2>8 DEF w
<1> QED BY <1>8, <1>9, <1>10
-----------------------------------------------------------------------------
(* The inductive invariant of a voice frame on its way.                    *)

Meant == VoiceFrame(sent.from, sent.duid, sent.u)

\* The first n codewords have been heard, the others are on their way, all of
\* them as they are in the frame that arrived.
Delivered(n) ==
    /\ heard = [i \in 1..n |-> Unshifted(Line(air, i))]
    /\ lines = [i \in 1..9 - n |-> Line(air, n + i)]

VoiceInv ==
    /\ stage = "idle" => sent = Idle
    /\ stage \in {"idle", "sent"} => noise = {}
    /\ noise \in SUBSET (0..LongestFrame - 1)
    /\ stage # "assembled" => lines = << >> /\ heard = << >>
    /\ "u" \in DOMAIN sent =>
          /\ sent.from \in {"vocoder", "radio"} /\ sent.duid \in {5, 10} /\ sent.u \in Talks
          /\ air = SymDiff(Meant, noise)
          /\ (lines = << >> /\ heard = << >>) \/ \E n \in 0..9 : Delivered(n)
          /\ stage = "dissected" => shown = dissect_voice(LongestFrame, WithoutStatus(air))
          /\ sent.size = LongestFrame

LEMMA NextDelivered ==
    ASSUME NEW n \in 0..9, Delivered(n), RxLine
    PROVE  n + 1 \in 0..9 /\ Delivered(n + 1)'
<1> DEFINE F == [i \in 1..9 |-> Line(air, i)]
           G == [i \in 1..9 |-> Unshifted(Line(air, i))]
           A == {F[i] : i \in 1..9}
           B == {G[i] : i \in 1..9}
<1>1. /\ lines # << >> /\ air' = air /\ lines' = Tail(lines)
      /\ heard' = Append(heard, Unshifted(Head(lines)))
  BY DEF RxLine, Unshifted
<1>2. \A i \in 1..9 : G[i] = Unshifted(F[i])
  OBVIOUS
<1>3. heard = [i \in 1..n |-> G[i]] /\ lines = [i \in 1..9 - n |-> F[n + i]]
  BY DEF Delivered
<1> HIDE DEF F, G
<1>4. \A i \in 1..9 : F[i] \in A /\ G[i] \in B
  OBVIOUS
<1> HIDE DEF A, B
<1>5. n < 9
  <2>1. n = 9 => lines = << >>
    BY <1>3
  <2> QED BY <1>1, <2>1
<1>6. heard \in Seq(B) /\ Len(heard) = n /\ lines \in Seq(A) /\ Len(lines) = 9 - n
  <2> DEFINE m == 9 - n
  <2>1. m \in Nat /\ n \in Nat /\ n <= 9 /\ m = 9 - n
    BY <1>5
  <2>2. heard = [i \in 1..n |-> G[i]] /\ lines = [i \in 1..m |-> F[n + i]]
    BY <1>3
  <2> HIDE DEF m
  <2>3. \A i \in 1..n : G[i] \in B
    BY <1>4, <2>1
  <2>4. \A i \in 1..m : F[n + i] \in A
    BY <1>4, <2>1
  <2>5. heard \in Seq(B) /\ Len(heard) = n
    BY <2>1, <2>2, <2>3
  <2>6. lines \in Seq(A) /\ Len(lines) = m
    BY <2>1, <2>2, <2>4
  <2> QED BY <2>1, <2>5, <2>6
<1>7. Head(lines) = F[n + 1]
  BY <1>3, <1>5, <1>6
<1>8. heard' = [i \in 1..n + 1 |-> G[i]]
  <2>1. heard' = Append(heard, G[n + 1])
    BY <1>1, <1>2, <1>5, <1>7, SMTT(30)
  <2>2. G[n + 1] \in B
    BY <1>4, <1>5
  <2> QED BY <1>3, <1>5, <1>6, <2>1, <2>2
<1>9. lines' = [i \in 1..9 - (n + 1) |-> F[(n + 1) + i]]
  <2>1. /\ lines' \in Seq(A) /\ Len(lines') = 9 - (n + 1)
        /\ \A i \in 1..9 - (n + 1) : lines'[i] = F[(n + 1) + i]
    <3>1. /\ Tail(lines) \in Seq(A) /\ Len(Tail(lines)) = Len(lines) - 1
          /\ \A i \in 1..Len(Tail(lines)) : Tail(lines)[i] = lines[i + 1]
      BY <1>1, <1>6, HeadTailProperties
    <3>2. Len(lines') = 9 - (n + 1)
      BY <1>1, <1>6, <3>1
    <3>3. \A i \in 1..9 - (n + 1) : lines'[i] = lines[i + 1] /\ i + 1 \in 1..9 - n
      BY <1>1, <3>1, <3>2
    <3>4. \A i \in 1..9 - n : lines[i] = F[n + i]
      BY <1>3
    <3> QED BY <1>1, <3>1, <3>2, <3>3, <3>4
  <2> QED BY <2>1
<1>10. \A i \in 1..9 : F[i] = Line(air', i) /\ G[i] = Unshifted(Line(air', i))
  BY <1>1 DEF F, G
<1>11. heard' = [i \in 1..n + 1 |-> Unshifted(Line(air', i))]
  BY <1>5, <1>8, <1>10
<1>12. lines' = [i \in 1..9 - (n + 1) |-> Line(air', (n + 1) + i)]
  <2>1. \A i \in 1..9 - (n + 1) : (n + 1) + i \in 1..9
    BY <1>5
  <2> QED BY <1>9, <1>10, <2>1
<1> QED BY <1>5, <1>11, <1>12 DEF Delivered

LEMMA VoiceInductive ==
    ASSUME VoiceInv, [Next]_vars
    PROVE  VoiceInv'
<1>1. \A frame : SymDiff(frame, {}) = frame
  BY DEF SymDiff
<1>2. ASSUME NEW who \in {"vocoder", "radio"}, NEW duid \in {5, 10}, NEW u \in Talks,
             SendVoice(who, duid, u)
      PROVE  VoiceInv'
  <2>1. /\ sent' = [from |-> who, duid |-> duid, size |-> LongestFrame, u |-> u]
        /\ stage = "idle" /\ stage' = "sent" /\ air' = VoiceFrame(who, duid, u)
        /\ noise' = noise /\ lines' = lines /\ heard' = heard
    BY <1>2 DEF SendVoice
  <2>2. sent.from' = who /\ sent.duid' = duid /\ sent.u' = u /\ sent.size' = LongestFrame
    BY <2>1
  <2>3. noise' = {} /\ lines' = << >> /\ heard' = << >>
    BY <2>1 DEF VoiceInv
  <2>4. air' = SymDiff(Meant', noise')
    BY <1>1, <2>1, <2>2, <2>3 DEF Meant
  <2> QED BY <2>1, <2>2, <2>3, <2>4 DEF VoiceInv
<1>3. ASSUME NEW data \in Signals, SendTrunking(data) PROVE VoiceInv'
  <2>1. /\ "u" \notin DOMAIN sent'
        /\ stage = "idle" /\ stage' = "sent"
        /\ noise' = noise /\ lines' = lines /\ heard' = heard
    BY <1>3 DEF SendTrunking
  <2> QED BY <2>1 DEF VoiceInv
<1>4. ASSUME NEW d \in Disturbances, Arrive(d) PROVE VoiceInv'
  <2>1. /\ stage = "sent" /\ stage' = "arrived" /\ noise' = d /\ air' = SymDiff(air, d)
        /\ sent' = sent /\ lines' = lines /\ heard' = heard /\ shown' = shown
    BY <1>4 DEF Arrive
  <2>2. noise' \in SUBSET (0..LongestFrame - 1)
    BY <2>1, AirAssumption
  <2>3. "u" \in DOMAIN sent => air' = SymDiff(Meant', noise')
    BY <1>1, <2>1 DEF VoiceInv, Meant
  <2> QED BY <2>1, <2>2, <2>3 DEF VoiceInv
<1>5. ASSUME RxNid PROVE VoiceInv'
  BY <1>5 DEF RxNid, VoiceInv, Meant, Delivered, Line
<1>6. ASSUME AssembleVoice PROVE VoiceInv'
  <2>1. /\ stage = "framed" /\ stage' = "assembled"
        /\ lines' = [i \in 1..9 |-> imbe_header_decode(imbe_deinterleave(air, i - 1))]
        /\ sent' = sent /\ air' = air /\ noise' = noise /\ heard' = heard /\ shown' = shown
    BY <1>6 DEF AssembleVoice
  <2>2. heard' = << >>
    BY <2>1 DEF VoiceInv
  <2>3. lines' = [i \in 1..9 |-> Line(air', i)]
    BY <2>1 DEF Line
  <2>4. lines' = [i \in 1..9 - 0 |-> Line(air', 0 + i)]
    BY <2>3
  <2>5. Delivered(0)'
    BY <2>2, <2>4 DEF Delivered
  <2> QED BY <2>1, <2>2, <2>5 DEF VoiceInv, Meant
<1>7. ASSUME AssembleTrunking PROVE VoiceInv'
  BY <1>7 DEF AssembleTrunking, VoiceInv, Meant, Delivered, Line
<1>8. ASSUME RxLine PROVE VoiceInv'
  <2>1. /\ lines # << >> /\ stage' = stage /\ sent' = sent /\ air' = air
        /\ noise' = noise /\ shown' = shown
    BY <1>8 DEF RxLine
  <2>2. stage = "assembled"
    BY <2>1 DEF VoiceInv
  <2>3. "u" \in DOMAIN sent => \E n \in 0..9 : Delivered(n)'
    BY <1>8, <2>1, NextDelivered DEF VoiceInv
  <2> QED BY <2>1, <2>2, <2>3 DEF VoiceInv, Meant
<1>9. ASSUME Dissect PROVE VoiceInv'
  <2>1. /\ stage = "arrived" /\ stage' = "dissected"
        /\ sent.duid # 7 => shown' = dissect_voice(sent.size, WithoutStatus(air))
        /\ sent' = sent /\ air' = air /\ noise' = noise /\ lines' = lines /\ heard' = heard
    BY <1>9 DEF Dissect
  <2>2. "u" \in DOMAIN sent => sent.duid # 7 /\ sent.size = LongestFrame
    BY DEF VoiceInv
  <2> QED BY <2>1, <2>2 DEF VoiceInv, Meant
<1>10. ASSUME UNCHANGED vars PROVE VoiceInv'
  BY <1>10 DEF vars, VoiceInv, Meant, Delivered, Line
<1> QED BY <1>2, <1>3, <1>4, <1>5, <1>6, <1>7, <1>8, <1>9, <1>10 DEF Next

\* Type correctness of a voice frame, and what becomes of its codewords.
THEOREM VoiceTraced == Spec => []VoiceInv
<1>1. Init => VoiceInv
  BY DEF Init, VoiceInv, Idle
<1> QED BY <1>1, VoiceInductive, PTL DEF Spec
-----------------------------------------------------------------------------
(* What the dissector shows of it.                                         *)

LEMMA DissectedCodewords ==
    ASSUME NEW frame \in SUBSET Nat, NEW nr \in 0..8
    PROVE  {j \in 0..143 : Interleaved(j) \in dissect_voice(LongestFrame, WithoutStatus(frame))[nr + 1]}
             = imbe_deinterleave(frame, nr)
<1> DEFINE tvb == WithoutStatus(frame)
           shows == [i \in 1..9 |-> {b \in 0..143 : 8 * ImbeOffset[i] + b \in tvb}]
<1>1. dissect_voice(LongestFrame, tvb) = shows
  <2>1. BytesLeft(LongestFrame, 112) >= 196
    BY DEF BytesLeft, ExtractedLength, LongestFrame
  <2> QED BY <2>1 DEF dissect_voice
<1> HIDE DEF tvb
<1>2. FirstBit(nr) = 8 * ImbeOffset[nr + 1]
  BY DEF FirstBit, ImbeOffset
<1>3. shows[nr + 1] = {b \in 0..143 : FirstBit(nr) + b \in tvb}
  BY <1>2
<1> HIDE DEF shows
<1>4. ASSUME NEW j \in 0..143
      PROVE  Interleaved(j) \in shows[nr + 1] <=> Place(nr, j) \in frame
  <2>1. Interleaved(j) \in 0..143
    BY InterleavedBits, Zenon
  <2>2. /\ Place(nr, j) = FrameBit(FirstBit(nr) + Interleaved(j))
        /\ FirstBit(nr) + Interleaved(j) \in Nat
    BY Places
  <2>3. FirstBit(nr) + Interleaved(j) \in tvb <=> Place(nr, j) \in frame
    BY <2>2, WithoutStatusBit, Zenon DEF tvb
  <2> QED BY <1>3, <2>1, <2>3, Zenon
<1>5. imbe_deinterleave(frame, nr) = {j \in 0..143 : Place(nr, j) \in frame}
  BY Zenon DEF imbe_deinterleave, Place
<1> QED BY <1>1, <1>4, <1>5 DEF tvb

\* Noise leaves a frame a frame.
LEMMA AirBits == ASSUME VoiceInv, "u" \in DOMAIN sent PROVE air \in SUBSET Nat
<1>1. Meant \in SUBSET Nat
  BY FrameOfCodewords DEF VoiceInv, Meant
<1>2. noise \in SUBSET Nat
  BY DEF VoiceInv
<1> QED BY <1>1, <1>2 DEF VoiceInv, SymDiff

\* A codeword that is heard is a codeword of the frame that arrived.
LEMMA HeardFromFrame ==
    ASSUME VoiceInv, "u" \in DOMAIN sent, NEW i \in DOMAIN heard
    PROVE  /\ i \in 1..9 /\ i - 1 \in Numbers
           /\ heard[i] = Unshifted(Line(SymDiff(VoiceFrame(sent.from, sent.duid, sent.u), noise), i))
           /\ sent.from \in {"vocoder", "radio"} /\ sent.duid \in {5, 10} /\ sent.u \in Talks
<1>1. PICK n \in 0..9 : Delivered(n)
  <2>1. heard # << >>
    OBVIOUS
  <2> QED BY <2>1 DEF VoiceInv
<1>2. i \in 1..9 /\ heard[i] = Unshifted(Line(air, i))
  BY <1>1 DEF Delivered
<1>3. /\ sent.from \in {"vocoder", "radio"} /\ sent.duid \in {5, 10} /\ sent.u \in Talks
      /\ air = SymDiff(VoiceFrame(sent.from, sent.duid, sent.u), noise)
  BY DEF VoiceInv, Meant
<1> QED BY <1>2, <1>3 DEF Numbers

\* Every vector within reach of its code, and of the code of the vector that
\* starts its scrambler, is heard as it was meant, at its place in the order;
\* and the dissector shows the codewords as they came.
THEOREM VoiceDecodedAlways == Spec => []VoiceDecoded
<1>1. ASSUME VoiceInv PROVE VoiceDecoded
  <2> SUFFICES ASSUME "u" \in DOMAIN sent
               PROVE  /\ \A i \in DOMAIN heard : \A v \in 0..7 :
                            Curable(i - 1, 0) /\ Curable(i - 1, v) /\ (v < 7 \/ sent.from = "radio") =>
                                heard[i][v] = sent.u[i - 1][v]
                      /\ stage = "dissected" =>
                            [nr \in 0..8 |-> {j \in 0..143 : Interleaved(j) \in shown[nr + 1]}]
                                = [nr \in 0..8 |-> imbe_deinterleave(air, nr)]
    BY Zenon DEF VoiceDecoded
  <2>1. ASSUME NEW i \in DOMAIN heard, NEW v \in 0..7,
               Curable(i - 1, 0), Curable(i - 1, v), v < 7 \/ sent.from = "radio"
        PROVE  heard[i][v] = sent.u[i - 1][v]
    <3>1. /\ i \in 1..9
          /\ sent.from \in {"vocoder", "radio"} /\ sent.duid \in {5, 10} /\ sent.u \in Talks
          /\ heard[i] = Unshifted(Line(SymDiff(VoiceFrame(sent.from, sent.duid, sent.u), noise), i))
      BY <1>1, <2>1, HeardFromFrame
    <3>2. Unshifted(Line(SymDiff(VoiceFrame(sent.from, sent.duid, sent.u), noise), i))[v]
            = sent.u[i - 1][v]
      BY ONLY <2>1, <3>1, HeardAsMeant, ZenonT(40)
    <3> QED BY <3>1, <3>2, Zenon
  <2>2. ASSUME stage = "dissected", NEW nr \in 0..8
        PROVE  {j \in 0..143 : Interleaved(j) \in shown[nr + 1]} = imbe_deinterleave(air, nr)
    <3>1. air \in SUBSET Nat
      BY <1>1, AirBits
    <3>2. shown = dissect_voice(LongestFrame, WithoutStatus(air))
      BY <1>1, <2>2 DEF VoiceInv
    <3> QED BY <3>1, <3>2, DissectedCodewords
  <2> QED BY <2>1, <2>2
<1> QED BY <1>1, VoiceTraced, PTL
-----------------------------------------------------------------------------
(* Bursts.                                                                 *)

\* Bits of a codeword are as far apart in the frame as the interleaver has put
\* them, or farther.
LEMMA ApartInFrame ==
    ASSUME NEW nr \in Numbers, NEW j \in Positions, NEW k \in Positions
    PROVE  Interleaved(j) <= Interleaved(k) =>
              Interleaved(k) - Interleaved(j) <= Place(nr, k) - Place(nr, j)
<1> DEFINE m == FirstBit(nr) + Interleaved(j)
           n == FirstBit(nr) + Interleaved(k)
<1>1. /\ Place(nr, j) = FrameBit(m) /\ m \in Nat
      /\ Place(nr, k) = FrameBit(n) /\ n \in Nat
  BY Places DEF Numbers, Positions
<1>2. /\ Interleaved(j) \in Int /\ Interleaved(k) \in Int /\ FirstBit(nr) \in Int
  BY Grid, Bases DEF Numbers
<1>3. m <= n => n - m <= FrameBit(n) - FrameBit(m)
  <2> HIDE DEF m, n
  <2>1. m <= n => m \div 70 <= n \div 70
    BY <1>1
  <2>2. FrameBit(m) = m + 2 * (m \div 70) /\ FrameBit(n) = n + 2 * (n \div 70)
    BY DEF FrameBit
  <2>3. m \div 70 \in Int /\ n \div 70 \in Int
    BY <1>1
  <2> QED BY <1>1, <2>1, <2>2, <2>3
<1>4. /\ Interleaved(j) <= Interleaved(k) <=> m <= n
      /\ Interleaved(k) - Interleaved(j) = n - m
  BY <1>2
<1> HIDE DEF m, n
<1> QED BY <1>1, <1>3, <1>4

\* The bits of a vector lie in different columns, those of a vector in a
\* Hamming code even five places apart or more.
Field(v) == From[v]..From[v] + Size(v) - 1

LEMMA Columns ==
    ASSUME NEW v \in 0..6, NEW j \in Field(v), NEW k \in Field(v)
    PROVE  /\ j \in Positions /\ k \in Positions
           /\ Column(j) = Column(k) => j = k
           /\ v >= 4 /\ Interleaved(j) <= Interleaved(k) /\ Interleaved(k) - Interleaved(j) <= 4 => j = k
<1>1. /\ v <= 3 => From[v] = 23 * v /\ Size(v) = 23
      /\ v >= 4 => From[v] = 92 + 15 * (v - 4) /\ Size(v) = 15
  BY DEF From, Size, Golay
<1>2. /\ v <= 3 => 23 * v <= j /\ j <= 23 * v + 22 /\ 23 * v <= k /\ k <= 23 * v + 22
      /\ v >= 4 => 15 * v + 32 <= j /\ j <= 15 * v + 46 /\ 15 * v + 32 <= k /\ k <= 15 * v + 46
      /\ j \in Int /\ k \in Int
  BY <1>1 DEF Field
<1>3. j \in Positions /\ k \in Positions
  BY <1>2 DEF Positions
<1>4. /\ RowOf(j) \in 0..5 /\ Column(j) \in 0..23 /\ j = 24 * RowOf(j) + Column(j)
      /\ RowOf(k) \in 0..5 /\ Column(k) \in 0..23 /\ k = 24 * RowOf(k) + Column(k)
      /\ Swapped(j) \in 0..5 /\ Interleaved(j) = 6 * Column(j) + Swapped(j)
      /\ Swapped(k) \in 0..5 /\ Interleaved(k) = 6 * Column(k) + Swapped(k)
  BY <1>3, Grid
<1>5. Column(j) = Column(k) => j = k
  BY <1>2, <1>4
<1>6. ASSUME v >= 4, Interleaved(j) <= Interleaved(k), Interleaved(k) - Interleaved(j) <= 4
      PROVE  j = k
  BY <1>2, <1>4, <1>6 DEF Swapped
<1> QED BY <1>3, <1>5, <1>6

\* Seventeen places hold bits of three columns of a vector in a Golay code.
LEMMA GolayColumns ==
    ASSUME NEW v \in 0..3, NEW m \in Field(v), NEW j \in Field(v),
           Interleaved(m) <= Interleaved(j), Interleaved(j) - Interleaved(m) <= 16
    PROVE  /\ Column(j) - Column(m) \in 0..3
           /\ Column(j) - Column(m) = 3 =>
                 /\ 21 - Column(m) \in 1..2
                 /\ \A k \in Field(v) : Column(k) # 21
<1>1. From[v] = 23 * v /\ Size(v) = 23
  BY DEF From, Size, Golay
<1>2. \A k \in Field(v) : k \in Int /\ 23 * v <= k /\ k <= 23 * v + 22 /\ k \in Positions
  BY <1>1 DEF Field, Positions
<1>3. \A k \in Field(v) :
         /\ RowOf(k) \in 0..5 /\ Column(k) \in 0..23 /\ k = 24 * RowOf(k) + Column(k)
         /\ Swapped(k) \in 0..5 /\ Interleaved(k) = 6 * Column(k) + Swapped(k)
  BY <1>2, Grid
<1>4. /\ RowOf(j) \in 0..5 /\ Column(j) \in 0..23 /\ j = 24 * RowOf(j) + Column(j)
      /\ RowOf(m) \in 0..5 /\ Column(m) \in 0..23 /\ m = 24 * RowOf(m) + Column(m)
      /\ Swapped(j) \in 0..5 /\ Interleaved(j) = 6 * Column(j) + Swapped(j)
      /\ Swapped(m) \in 0..5 /\ Interleaved(m) = 6 * Column(m) + Swapped(m)
  BY <1>3
<1>5. Column(j) - Column(m) \in 0..3
  BY <1>4, SMTT(30)
<1>6. ASSUME Column(j) - Column(m) = 3
      PROVE  v = 2 /\ Column(m) \in 19..20
  <2>1. 23 * v <= j /\ j <= 23 * v + 22 /\ 23 * v <= m /\ m <= 23 * v + 22
    BY <1>2
  <2>2. Swapped(j) <= Swapped(m) - 2
    BY <1>4, <1>6
  <2>3. RowOf(j) # RowOf(m)
    BY <1>4, <1>6, <2>2 DEF Swapped
  <2>4. RowOf(j) = RowOf(m) - 1
    BY <1>4, <1>6, <2>1, <2>3
  <2>5. RowOf(m) % 2 = 0
    BY <1>4, <1>6, <2>2, <2>4 DEF Swapped
  <2>6. j = m - 21
    BY <1>4, <1>6, <2>4
  <2> QED BY <1>4, <2>1, <2>4, <2>5, <2>6
<1>7. ASSUME v = 2, NEW k \in Field(v) PROVE Column(k) # 21
  BY <1>2, <1>3, <1>7
<1>8. ASSUME Column(j) - Column(m) = 3
      PROVE  21 - Column(m) \in 1..2 /\ \A k \in Field(v) : Column(k) # 21
  BY <1>6, <1>7, <1>8
<1> QED BY <1>5, <1>8

\* A set of numbers that is not empty has a least one.
LEMMA Least ==
    ASSUME NEW A \in SUBSET Nat, A # {}
    PROVE  \E n \in A : \A m \in A : n <= m
<1>1. IsWellFoundedOn(OpToRel(<, Nat), Nat)
  BY NatLessThanWellFounded
<1>2. \E n \in A : \A m \in A : ~ (<<m, n>> \in OpToRel(<, Nat))
  BY <1>1, WFMin
<1>3. PICK n \in A : \A m \in A : ~ (<<m, n>> \in OpToRel(<, Nat))
  BY <1>2
<1>4. \A m \in A : m < n => <<m, n>> \in OpToRel(<, Nat)
  <2> TAKE m \in A
  <2>1. <<m, n>> \in Nat \X Nat /\ <<m, n>>[1] = m /\ <<m, n>>[2] = n
    OBVIOUS
  <2> QED BY <2>1, Zenon DEF OpToRel
<1>5. \A m \in A : ~(m < n)
  BY <1>3, <1>4, Zenon
<1> QED BY <1>5

LEMMA Extremes ==
    ASSUME NEW S \in SUBSET (0..LongestFrame - 1), S # {}
    PROVE  /\ Min(S) \in Int /\ Max(S) \in Int
           /\ \A x, y \in S : y - x <= Max(S) - Min(S)
<1>1. \A x \in S : x \in Nat /\ LongestFrame - x \in Nat
  BY DEF LongestFrame
<1>2. \E n \in S : \A m \in S : n <= m
  <2>1. S \in SUBSET Nat
    BY <1>1
  <2> QED BY <2>1, Least
<1>3. \E n \in S : \A m \in S : n >= m
  <2> DEFINE U == {LongestFrame - x : x \in S}
  <2>1. U \in SUBSET Nat /\ U # {}
    BY <1>1
  <2>2. \A x \in S : LongestFrame - x \in U
    OBVIOUS
  <2>3. \A y \in U : \E x \in S : y = LongestFrame - x
    OBVIOUS
  <2> HIDE DEF U
  <2>4. PICK n \in U : \A m \in U : n <= m
    BY <2>1, Least
  <2>5. PICK x \in S : n = LongestFrame - x
    BY <2>3
  <2>6. \A y \in S : x >= y
    <3> TAKE y \in S
    <3>1. n <= LongestFrame - y
      BY <2>2, <2>4
    <3> QED BY <1>1, <2>5, <3>1 DEF LongestFrame
  <2> QED BY <2>6
<1>4. Min(S) \in S /\ \A y \in S : Min(S) <= y
  BY <1>2 DEF Min
<1>5. Max(S) \in S /\ \A y \in S : Max(S) >= y
  BY <1>3 DEF Max
<1>6. Min(S) \in Int /\ Max(S) \in Int
  <2>1. S \subseteq Int
    BY <1>1
  <2>2. Min(S) \in S /\ Max(S) \in S
    BY <1>4, <1>5, Zenon
  <2> QED BY ONLY <2>1, <2>2
<1>7. \A x, y \in S : y - x <= Max(S) - Min(S)
  <2> TAKE x, y \in S
  <2>1. x \in Int /\ y \in Int /\ Min(S) <= x /\ Max(S) >= y
    BY <1>1, <1>4, <1>5
  <2> QED BY <1>6, <2>1
<1> QED BY <1>6, <1>7

LEMMA BurstNumbers ==
    ASSUME NEW nr \in Numbers, NEW j \in Positions
    PROVE  Place(nr, j) \in Int /\ Interleaved(j) \in Nat /\ Column(j) \in Int
<1>1. Place(nr, j) \in Nat
  BY Places, Zenon DEF Numbers, Positions
<1> QED BY <1>1, Grid

LEMMA BurstCurable ==
    ASSUME noise \in SUBSET (0..LongestFrame - 1), NEW nr \in Numbers, NEW v \in 0..6,
           Within(IF v \in Golay THEN 17 ELSE 5)
    PROVE  Curable(nr, v)
<1> DEFINE S == FieldNoise(nr, v)
<1>1. S \in SUBSET Field(v) /\ \A j \in S : Place(nr, j) \in noise
  BY DEF FieldNoise, Field, Place
<1>2. S \in SUBSET (0..143)
  <2>1. \A j \in Field(v) : j \in 0..143
    BY Columns DEF Positions
  <2> QED BY <1>1, <2>1
<1>3. IsFiniteSet(S) /\ Cardinality(S) \in Nat
  <2> HIDE DEF S
  <2>1. 143 \in Int
    OBVIOUS
  <2> QED BY <1>2, <2>1, FiniteBits, Zenon
<1> HIDE DEF S
<1>4. ASSUME NEW j \in S, NEW k \in S, Interleaved(j) <= Interleaved(k)
      PROVE  Interleaved(k) - Interleaved(j) <= IF v \in Golay THEN 16 ELSE 4
  <2>1. j \in Positions /\ k \in Positions
    BY <1>2, <1>4 DEF Positions
  <2>2. Interleaved(k) - Interleaved(j) <= Place(nr, k) - Place(nr, j)
    BY <1>4, <2>1, ApartInFrame, Zenon
  <2>3. Place(nr, j) \in noise /\ Place(nr, k) \in noise /\ noise # {}
    BY <1>1
  <2>4. Place(nr, k) - Place(nr, j) <= Max(noise) - Min(noise)
    BY <2>3, Extremes, Zenon
  <2>5. Max(noise) - Min(noise) < IF v \in Golay THEN 17 ELSE 5
    BY <2>3, Zenon DEF Within
  <2>6. /\ Place(nr, j) \in Int /\ Place(nr, k) \in Int
        /\ Interleaved(j) \in Int /\ Interleaved(k) \in Int
    <3>1. Interleaved(j) \in Nat /\ Interleaved(k) \in Nat
      BY <2>1, BurstNumbers
    <3>2. Place(nr, j) \in Int /\ Place(nr, k) \in Int
      BY <2>1, BurstNumbers
    <3> QED BY <3>1, <3>2
  <2>7. Max(noise) \in Int /\ Min(noise) \in Int
    BY <2>3, Extremes, Zenon
  <2> QED
    BY <2>2, <2>4, <2>5, <2>6, <2>7
<1>5. S = {} => Cardinality(S) = 0
  BY FS_EmptySet, Zenon
<1>6. \A j \in S : j \in Positions
  BY <1>2 DEF Positions
<1>7. CASE v >= 4
  <2>1. \A j, k \in S : j = k
    <3> TAKE j, k \in S
    <3>1. j \in Field(v) /\ k \in Field(v) /\ v \notin Golay
      BY <1>1, <1>7 DEF Golay
    <3>2. Interleaved(j) \in Int /\ Interleaved(k) \in Int
      BY <3>1, Columns, Grid
    <3>3. Interleaved(j) <= Interleaved(k) => j = k
      BY <1>4, <1>7, <3>1, Columns
    <3>4. Interleaved(k) <= Interleaved(j) => j = k
      BY <1>4, <1>7, <3>1, Columns
    <3> QED BY <3>2, <3>3, <3>4
  <2>2. S # {} => Cardinality(S) = 1
    BY <1>3, <2>1, FS_Singleton
  <2>3. Cardinality(S) <= 1
    BY <1>3, <1>5, <2>2
  <2>4. v \notin Golay /\ v < 7
    BY <1>7 DEF Golay
  <2> QED BY <2>3, <2>4 DEF Curable, S
<1>8. CASE v <= 3 /\ S # {}
  <2>1. PICK m \in S : \A j \in S : Interleaved(m) <= Interleaved(j)
    <3> DEFINE U == {Interleaved(j) : j \in S}
    <3>1. U \in SUBSET Nat /\ U # {}
      <4>1. \A j \in S : Interleaved(j) \in Nat
        BY <1>6, BurstNumbers
      <4> QED BY <1>8, <4>1
    <3>2. \A j \in S : Interleaved(j) \in U
      OBVIOUS
    <3>3. \A n \in U : \E j \in S : n = Interleaved(j)
      OBVIOUS
    <3> HIDE DEF U
    <3>4. PICK n \in U : \A x \in U : n <= x
      BY <3>1, Least, Zenon
    <3> QED BY <3>2, <3>3, <3>4, Zenon
  <2> DEFINE off(j) == Column(j) - Column(m)
             f == [j \in S |-> IF off(j) = 3 THEN 21 - Column(m) ELSE off(j)]
  <2>2. v \in Golay /\ v \in 0..3 /\ m \in Field(v)
    BY <1>1, <1>8, <2>1 DEF Golay
  <2>3. \A j \in S : /\ j \in Field(v) /\ off(j) \in 0..3
                     /\ off(j) = 3 => 21 - Column(m) \in 1..2 /\ \A k \in S : Column(k) # 21
    <3> TAKE j \in S
    <3>1. j \in Field(v) /\ S \subseteq Field(v)
      BY <1>1
    <3>2. Interleaved(m) <= Interleaved(j) /\ Interleaved(j) - Interleaved(m) <= 16
      BY <1>4, <2>1, <2>2
    <3> QED BY <2>2, <3>1, <3>2, GolayColumns
  <2>4. f \in [S -> 0..2]
    BY <2>3
  <2>5. \A j, k \in S : f[j] = f[k] => j = k
    <3> TAKE j, k \in S
    <3>1. Column(j) \in Int /\ Column(k) \in Int /\ Column(m) \in Int
      BY <1>6, <2>1, BurstNumbers
    <3>2. Column(j) # 21 \/ ~\E x \in S : off(x) = 3
      BY <2>3
    <3>3. Column(k) # 21 \/ ~\E x \in S : off(x) = 3
      BY <2>3
    <3>4. f[j] = f[k] => Column(j) = Column(k)
      BY <2>3, <3>1, <3>2, <3>3
    <3>5. j \in Field(v) /\ k \in Field(v)
      BY <2>3
    <3> QED BY <3>4, <3>5, Columns
  <2> HIDE DEF f
  <2>6. f \in Injection(S, 0..2)
    BY <2>4, <2>5, Zenon DEF Injection, IsInjective
  <2>7. IsFiniteSet(0..2) /\ Cardinality(0..2) = 3
    <3>1. 0 \in Int /\ 2 \in Int
      OBVIOUS
    <3>2. IsFiniteSet(0..2) /\ Cardinality(0..2) = IF 0 > 2 THEN 0 ELSE 2 - 0 + 1
      BY <3>1, FS_Interval, Zenon
    <3> QED BY <3>2
  <2>8. Cardinality(S) <= 3
    BY <2>6, <2>7, FS_Injection
  <2> QED BY <2>2, <2>8 DEF Curable, S
<1>9. CASE v <= 3 /\ S = {}
  BY <1>5, <1>9 DEF Curable, S, Golay
<1> QED BY <1>7, <1>8, <1>9

\* A burst of any place costs none of the vectors that the interleaver
\* protects from bursts of its length.
THEOREM BurstToleratedAlways == Spec => []BurstTolerated
<1>1. ASSUME VoiceInv, "u" \in DOMAIN sent, NEW i \in DOMAIN heard, NEW v \in 0..6,
             Within(IF v \in Golay THEN GolayBurst ELSE HammingBurst)
      PROVE  heard[i][v] = sent.u[i - 1][v]
  <2>1. noise \in SUBSET (0..LongestFrame - 1)
    BY <1>1 DEF VoiceInv
  <2>2. Within(IF v \in Golay THEN 17 ELSE 5)
    <3>1. noise # {} => Max(noise) - Min(noise) \in Int
      BY <2>1, Extremes
    <3>2. HammingBurst \in 0..5 /\ GolayBurst \in 0..17
      BY AirAssumption
    <3> QED BY <1>1, <3>1, <3>2 DEF Within
  <2>3. i \in 1..9 /\ i - 1 \in Numbers
    BY <1>1, HeardFromFrame
  <2>4. Curable(i - 1, v)
    BY <2>1, <2>2, <2>3, BurstCurable
  <2>5. Curable(i - 1, 0)
    <3>1. noise # {} => Max(noise) - Min(noise) \in Int
      BY <2>1, Extremes
    <3>2. 0 \in 0..6 /\ 0 \in Golay
      BY DEF Golay
    <3>3. Within(IF 0 \in Golay THEN 17 ELSE 5)
      BY <2>2, <3>1, <3>2 DEF Within
    <3> QED BY <2>1, <2>3, <3>2, <3>3, BurstCurable
  <2>6. v \in 0..7 /\ v < 7
    OBVIOUS
  <2>7. /\ sent.from \in {"vocoder", "radio"} /\ sent.duid \in {5, 10} /\ sent.u \in Talks
        /\ heard[i] = Unshifted(Line(SymDiff(VoiceFrame(sent.from, sent.duid, sent.u), noise), i))
    BY <1>1, HeardFromFrame
  <2>8. Unshifted(Line(SymDiff(VoiceFrame(sent.from, sent.duid, sent.u), noise), i))[v]
          = sent.u[i - 1][v]
    BY ONLY <2>3, <2>4, <2>5, <2>6, <2>7, HeardAsMeant, Zenon
  <2> QED BY <2>7, <2>8, Zenon
<1>2. VoiceInv => BurstTolerated
  BY <1>1 DEF BurstTolerated
<1> QED BY <1>2, VoiceTraced, PTL

-----------------------------------------------------------------------------
(* The BCH decoder.                                                        *)

\* A recursive definition that gives the value before the first one and each
\* next one has a solution, and only one.
Solution(f, lo, k, X, a, G) ==
    /\ f \in [lo - 1..k -> X] /\ f[lo - 1] = a
    /\ \A n \in lo..k : f[n] = G[n][f[n - 1]]

LEMMA Recursion ==
    ASSUME NEW lo \in Int, NEW hi \in Int, lo - 1 <= hi, NEW X, NEW a \in X,
           NEW G, G \in [lo..hi -> [X -> X]]
    PROVE  \E f : Solution(f, lo, hi, X, a, G)
<1> DEFINE b == lo - 1
           A == {k \in 0..hi - b : ~ \E f : Solution(f, lo, b + k, X, a, G)}
<1>1. A = {}
  <2> SUFFICES ASSUME A # {} PROVE FALSE
    OBVIOUS
  <2>1. A \in SUBSET Nat
    OBVIOUS
  <2> HIDE DEF A
  <2>2. PICK k \in A : \A m \in A : k <= m
    BY <2>1, Least
  <2>3. k \in Nat /\ k <= hi - b /\ ~ \E f : Solution(f, lo, b + k, X, a, G)
    BY DEF A
  <2>4. k # 0
    <3>1. Solution([n \in lo - 1..b + 0 |-> a], lo, b + 0, X, a, G)
      BY DEF Solution
    <3> QED BY <2>3, <3>1
  <2>5. k - 1 \in 0..hi - b /\ k - 1 \notin A
    BY <2>2, <2>3, <2>4
  <2>6. PICK f : Solution(f, lo, b + (k - 1), X, a, G)
    BY <2>5, Zenon DEF A
  <2> DEFINE e == b + k
             g == [n \in lo - 1..e |-> IF n < e THEN f[n] ELSE G[e][f[e - 1]]]
  <2>7. e \in lo..hi /\ e - 1 \in lo - 1..e - 1 /\ b + (k - 1) = e - 1 /\ e \in Int
    BY <2>3, <2>4
  <2> HIDE DEF e
  <2>8. f \in [lo - 1..e - 1 -> X] /\ f[lo - 1] = a /\ \A n \in lo..e - 1 : f[n] = G[n][f[n - 1]]
    BY <2>6, <2>7 DEF Solution
  <2>9. G[e] \in [X -> X] /\ f[e - 1] \in X
    BY <2>7, <2>8
  <2>10. \A n \in lo - 1..e : g[n] \in X
    <3>1. \A n \in lo - 1..e : n < e => f[n] \in X
      BY <2>7, <2>8
    <3> QED BY <2>9, <3>1
  <2>11. g \in [lo - 1..e -> X] /\ g[lo - 1] = a
    BY <2>7, <2>8, <2>10
  <2>12. \A n \in lo..e : g[n] = G[n][g[n - 1]]
    <3> TAKE n \in lo..e
    <3>1. n - 1 < e /\ n - 1 \in lo - 1..e /\ g[n - 1] = f[n - 1]
      BY <2>7
    <3>2. CASE n = e
      BY <2>7, <3>1, <3>2
    <3>3. CASE n # e
      BY <2>7, <2>8, <3>1, <3>3, SMTT(30)
    <3> QED BY <3>2, <3>3
  <2>13. Solution(g, lo, b + k, X, a, G)
    BY <2>11, <2>12 DEF Solution, e
  <2> QED BY <2>3, <2>13
<1>2. hi - b \in 0..hi - b /\ b + (hi - b) = hi
  OBVIOUS
<1> QED BY <1>1, <1>2

Follows(s, lo, hi, X, a, G) ==
    /\ s[lo - 1] = a
    /\ \A n \in lo..hi, x \in X : s[n - 1] = x => s[n] = G[n][x]

Agree(s, f, lo, hi) == \A n \in lo - 1..hi : s[n] = f[n]

LEMMA Unique ==
    ASSUME NEW lo \in Int, NEW hi \in Int, NEW X, NEW a, NEW G, NEW f, NEW s,
           Solution(f, lo, hi, X, a, G), Follows(s, lo, hi, X, a, G)
    PROVE  Agree(s, f, lo, hi)
<1> DEFINE A == {k \in Nat : lo - 1 + k <= hi /\ s[lo - 1 + k] # f[lo - 1 + k]}
<1>1. A = {}
  <2> SUFFICES ASSUME A # {} PROVE FALSE
    OBVIOUS
  <2>1. A \in SUBSET Nat
    OBVIOUS
  <2> HIDE DEF A
  <2>2. PICK k \in A : \A m \in A : k <= m
    BY <2>1, Least
  <2> DEFINE n == lo - 1 + k
  <2>3. k \in Nat /\ n <= hi /\ s[n] # f[n]
    BY DEF A
  <2>4. k # 0
    <3>1. s[lo - 1] = f[lo - 1]
      BY DEF Solution, Follows
    <3> QED BY <2>3, <3>1
  <2>5. n \in lo..hi /\ n - 1 \in lo - 1..hi /\ n - 1 = lo - 1 + (k - 1) /\ k - 1 \in Nat
    BY <2>3, <2>4
  <2>6. k - 1 \notin A
    BY <2>2, <2>3, <2>5
  <2>7. s[n - 1] = f[n - 1]
    BY <2>5, <2>6 DEF A
  <2> HIDE DEF n
  <2>8. f[n - 1] \in X /\ f[n] = G[n][f[n - 1]]
    BY <2>5 DEF Solution
  <2>9. s[n] = G[n][f[n - 1]]
    BY <2>5, <2>7, <2>8 DEF Follows
  <2> QED BY <2>3, <2>8, <2>9
<1>2. ASSUME NEW n \in lo - 1..hi PROVE s[n] = f[n]
  <2> DEFINE k == n - (lo - 1)
  <2>1. k \in Nat /\ lo - 1 + k = n /\ n <= hi
    OBVIOUS
  <2> HIDE DEF k
  <2> QED BY <1>1, <2>1
<1> QED BY <1>2 DEF Agree

\* One syndrome: the sum of the terms of the word's bits.
Syndrome(w, i) ==
    Total(LAMBDA j : IF j \in w THEN bchGFexp[(i * j) % 63] ELSE 0, 0, 62)
BitTerm(w, i, j) == IF j \in w THEN bchGFexp[(i * j) % 63] ELSE 0
Adds(s, w, i) ==
    /\ s \in [0 - 1..62 -> 0..63] /\ s[0 - 1] = 0
    /\ \A j \in 0..62 : s[j] = Xor[s[j - 1]][BitTerm(w, i, j)]

LEMMA BitTerms ==
    ASSUME NEW w, NEW i \in Nat, NEW j \in Nat
    PROVE  BitTerm(w, i, j) \in 0..63
<1>1. (i * j) % 63 \in 0..62
  <2>1. i * j \in Nat
    OBVIOUS
  <2> DEFINE e == i * j
  <2> HIDE DEF e
  <2>2. e \in Nat => e % 63 \in 0..62
    OBVIOUS
  <2> QED BY <2>1, <2>2 DEF e
<1>2. bchGFexp[(i * j) % 63] \in 0..63
  BY <1>1, FieldTables, Zenon
<1> QED BY <1>2 DEF BitTerm

Sum(s, w, i) ==
    s = [j \in 0 - 1..62 |->
           IF j < 0 THEN 0
           ELSE Xor[s[j - 1]][IF j \in w THEN bchGFexp[(i * j) % 63] ELSE 0]]
Elements == 0..63

LEMMA SyndromeSum ==
    ASSUME NEW w, NEW i \in Nat
    PROVE  \E s : Adds(s, w, i) /\ Syndrome(w, i) = s[62]
<1> DEFINE G == [j \in 0..62 |-> [x \in Elements |-> Xor[x][BitTerm(w, i, j)]]]
<1>1. G \in [0..62 -> [Elements -> Elements]]
  <2>1. \A j \in 0..62 : BitTerm(w, i, j) \in Elements
    BY BitTerms DEF Elements
  <2>2. \A j \in 0..62, x \in Elements : Xor[x][BitTerm(w, i, j)] \in Elements
    BY <2>1, FieldTables, Zenon DEF Elements
  <2> QED BY <2>2
<1>2. \A j \in 0..62, x \in Elements : G[j][x] = Xor[x][BitTerm(w, i, j)]
  OBVIOUS
<1> HIDE DEF G
<1>3. PICK f : Solution(f, 0, 62, Elements, 0, G)
  <2>1. 0 \in Int /\ 62 \in Int /\ 0 - 1 <= 62 /\ 0 \in Elements
    BY DEF Elements
  <2> QED BY ONLY <1>1, <2>1, Recursion, Zenon
<1>4. Sum(f, w, i)
  <2>1. f \in [0 - 1..62 -> Elements] /\ f[0 - 1] = 0 /\ \A j \in 0..62 : f[j] = G[j][f[j - 1]]
    BY <1>3, Zenon DEF Solution
  <2>2. \A j \in 0..62 : j - 1 \in 0 - 1..62
    BY SMTT(30)
  <2>3. \A j \in 0..62 : f[j] = Xor[f[j - 1]][BitTerm(w, i, j)]
    BY <1>2, <2>1, <2>2
  <2>4. \A j \in 0 - 1..62 :
          f[j] = IF j < 0 THEN 0
                 ELSE Xor[f[j - 1]][IF j \in w THEN bchGFexp[(i * j) % 63] ELSE 0]
    <3>1. \A j \in 0 - 1..62 : (j < 0 /\ j = 0 - 1) \/ (j \in 0..62 /\ ~(j < 0))
      OBVIOUS
    <3> QED BY <2>1, <2>3, <3>1, Zenon DEF BitTerm
  <2>5. f = [j \in 0 - 1..62 |-> f[j]]
    BY <2>1
  <2> QED BY <2>4, <2>5, Zenon DEF Sum
<1> DEFINE s == CHOOSE h : Sum(h, w, i)
<1>5. Sum(s, w, i)
  BY <1>4
<1>6. Syndrome(w, i) = s[62]
  BY Zenon DEF Syndrome, Total, Sum
<1> HIDE DEF s
<1>7. /\ s[0 - 1] = 0
      /\ \A j \in 0..62 : s[j] = Xor[s[j - 1]][BitTerm(w, i, j)]
  <2>1. \A j \in 0 - 1..62 :
          s[j] = IF j < 0 THEN 0
                 ELSE Xor[s[j - 1]][IF j \in w THEN bchGFexp[(i * j) % 63] ELSE 0]
    BY <1>5, Zenon DEF Sum
  <2>2. 0 - 1 \in 0 - 1..62 /\ 0 - 1 < 0 /\ \A j \in 0..62 : j \in 0 - 1..62 /\ ~(j < 0)
    OBVIOUS
  <2> QED BY <2>1, <2>2, Zenon DEF BitTerm
<1>8. Follows(s, 0, 62, Elements, 0, G)
  BY <1>2, <1>7, Zenon DEF Follows
<1>9. \A j \in 0 - 1..62 : s[j] = f[j]
  <2>1. 0 \in Int /\ 62 \in Int
    OBVIOUS
  <2>2. Agree(s, f, 0, 62)
    BY ONLY <1>3, <1>8, <2>1, Unique, Zenon
  <2> QED BY <2>2, Zenon DEF Agree
<1>10. s \in [0 - 1..62 -> Elements]
  <2>1. s = [j \in 0 - 1..62 |-> s[j]]
    BY <1>5, Zenon DEF Sum
  <2>2. \A j \in 0 - 1..62 : s[j] \in Elements
    BY <1>3, <1>9 DEF Solution
  <2> QED BY <2>1, <2>2
<1> QED BY <1>6, <1>7, <1>10, Zenon DEF Adds, Elements
Sequence(s, w) ==
    s = [i \in 1 - 1..2 * T |->
           IF i < 1 THEN << >>
           ELSE Append(s[i - 1],
                       Total(LAMBDA j : IF j \in w THEN bchGFexp[(i * j) % 63] ELSE 0, 0, 62))]

LEMMA SyndromesAre ==
    ASSUME NEW w
    PROVE  Syndromes(w) = [i \in 1..22 |-> Syndrome(w, i)]
<1> DEFINE f == [n \in 1 - 1..22 |-> [k \in 1..n |-> Syndrome(w, k)]]
           X == Seq(Elements)
           G == [n \in 1..22 |-> [x \in X |-> Append(x, Syndrome(w, n))]]
<1>1. \A n \in 1..22 : Syndrome(w, n) \in Elements
  <2> TAKE n \in 1..22
  <2>1. n \in Nat
    OBVIOUS
  <2>2. PICK s : Adds(s, w, n) /\ Syndrome(w, n) = s[62]
    BY ONLY <2>1, SyndromeSum, Zenon
  <2>3. s[62] \in Elements
    <3>1. s \in [0 - 1..62 -> Elements]
      BY <2>2, Zenon DEF Adds, Elements
    <3>2. 62 \in 0 - 1..62
      OBVIOUS
    <3> QED BY ONLY <3>1, <3>2, Zenon
  <2> QED BY <2>2, <2>3, Zenon
<1>2. \A n \in 1 - 1..22 : f[n] \in X /\ Len(f[n]) = n /\ \A k \in 1..n : f[n][k] = Syndrome(w, k)
  <2> TAKE n \in 1 - 1..22
  <2>1. f[n] = [k \in 1..n |-> Syndrome(w, k)] /\ n \in Nat
    BY SMTT(30)
  <2>2. \A k \in 1..n : Syndrome(w, k) \in Elements
    BY <1>1
  <2> HIDE DEF f
  <2> QED BY <2>1, <2>2
<1>3. \A n \in 1..22 : f[n] = Append(f[n - 1], Syndrome(w, n))
  <2> TAKE n \in 1..22
  <2> HIDE DEF f
  <2>0. n \in 1 - 1..22 /\ n - 1 \in 1 - 1..22
    OBVIOUS
  <2>1. /\ f[n] \in X /\ Len(f[n]) = n /\ f[n - 1] \in X /\ Len(f[n - 1]) = n - 1
        /\ \A k \in 1..n : f[n][k] = Syndrome(w, k)
        /\ \A k \in 1..n - 1 : f[n - 1][k] = Syndrome(w, k)
    BY <1>2, <2>0, Zenon
  <2> DEFINE p == f[n - 1]  q == Append(p, Syndrome(w, n))
  <2>2. /\ q \in X /\ Len(q) = n /\ q[n] = Syndrome(w, n)
        /\ \A k \in 1..n - 1 : q[k] = p[k]
    <3>1. p \in Seq(Elements) /\ Len(p) = n - 1 /\ Syndrome(w, n) \in Elements
      BY <1>1, <2>1
    <3> HIDE DEF p
    <3> QED BY ONLY <3>1, AppendProperties
  <2>3. \A k \in 1..n : q[k] = f[n][k]
    <3> TAKE k \in 1..n
    <3>1. CASE k = n
      BY <2>1, <2>2, <3>1
    <3>2. CASE k # n
      <4>1. k \in 1..n - 1
        BY <3>2
      <4> QED BY <2>1, <2>2, <4>1
    <3> QED BY <3>1, <3>2
  <2> HIDE DEF q
  <2>4. q = f[n]
    BY <2>1, <2>2, <2>3, SeqEqual
  <2> QED BY <2>4 DEF q
<1>4. f[1 - 1] = << >>
  <2>1. f[1 - 1] \in X /\ Len(f[1 - 1]) = 0
    BY <1>2
  <2> HIDE DEF f
  <2> QED BY <2>1
<1>5. Solution(f, 1, 22, X, << >>, G)
  <2>1. f \in [1 - 1..22 -> X]
    BY <1>2, SMTT(30)
  <2>2. \A n \in 1..22 : f[n] = G[n][f[n - 1]]
    <3> TAKE n \in 1..22
    <3>1. f[n - 1] \in X
      BY <1>2, SMTT(30)
    <3> HIDE DEF f, X
    <3>2. G[n][f[n - 1]] = Append(f[n - 1], Syndrome(w, n))
      BY <3>1
    <3> QED BY <1>3, <3>2
  <2> HIDE DEF f, X, G
  <2> QED BY <1>4, <2>1, <2>2 DEF Solution
<1>6. Sequence(f, w)
  <2>1. f = [n \in 1 - 1..22 |-> f[n]]
    OBVIOUS
  <2> HIDE DEF f
  <2>2. \A n \in 1 - 1..22 : f[n] = IF n < 1 THEN << >> ELSE Append(f[n - 1], Syndrome(w, n))
    <3>1. \A n \in 1 - 1..22 : (n < 1 /\ n = 1 - 1) \/ (~(n < 1) /\ n \in 1..22)
      OBVIOUS
    <3> QED BY <1>3, <1>4, <3>1, Zenon
  <2>3. 2 * T = 22
    BY DEF T
  <2> QED BY <2>1, <2>2, <2>3, Zenon DEF Sequence, Syndrome
<1> DEFINE s == CHOOSE h : Sequence(h, w)
<1>7. Sequence(s, w)
  BY <1>6
<1>8. Syndromes(w) = s[22]
  <2>1. Syndromes(w) = s[2 * T]
    BY Zenon DEF Syndromes, Terms, Sequence
  <2> QED BY <2>1 DEF T
<1> HIDE DEF s, f
<1>9. s[1 - 1] = << >> /\ \A n \in 1..22 : s[n] = Append(s[n - 1], Syndrome(w, n))
  <2>1. \A n \in 1 - 1..22 : s[n] = IF n < 1 THEN << >> ELSE Append(s[n - 1], Syndrome(w, n))
    <3>1. 2 * T = 22
      BY DEF T
    <3> QED BY <1>7, <3>1, Zenon DEF Sequence, Syndrome
  <2>2. 1 - 1 \in 1 - 1..22 /\ 1 - 1 < 1 /\ \A n \in 1..22 : n \in 1 - 1..22 /\ ~(n < 1)
    OBVIOUS
  <2> QED BY <2>1, <2>2, Zenon
<1>10. Follows(s, 1, 22, X, << >>, G)
  <2> HIDE DEF X
  <2> QED BY <1>9 DEF Follows
<1> HIDE DEF X, G
<1>11. s[22] = f[22]
  <2>1. 1 \in Int /\ 22 \in Int
    OBVIOUS
  <2>2. Agree(s, f, 1, 22)
    BY ONLY <1>5, <1>10, <2>1, Unique, Zenon
  <2> QED BY <2>2 DEF Agree
<1> QED BY <1>8, <1>11 DEF f

\* The 22nd syndrome is the square of the eleventh.
LEMMA SquaredTerm ==
    ASSUME NEW w, NEW j \in Nat
    PROVE  BitTerm(w, 22, j) = Square[BitTerm(w, 11, j)]
<1> DEFINE e == (11 * j) % 63
<1>1. e \in 0..62 /\ (22 * j) % 63 = (2 * e) % 63
  <2>1. \A a \in Nat : a % 63 \in 0..62 /\ (2 * a) % 63 = (2 * (a % 63)) % 63
    OBVIOUS
  <2>2. 11 * j \in Nat /\ 22 * j = 2 * (11 * j)
    OBVIOUS
  <2> QED BY <2>1, <2>2
<1> HIDE DEF e
<1>2. Square[bchGFexp[e]] = bchGFexp[(2 * e) % 63] /\ Square[0] = 0
  BY <1>1, FieldTables, Zenon
<1>3. /\ BitTerm(w, 11, j) = IF j \in w THEN bchGFexp[e] ELSE 0
      /\ BitTerm(w, 22, j) = IF j \in w THEN bchGFexp[(2 * e) % 63] ELSE 0
  BY <1>1 DEF BitTerm, e
<1> QED BY <1>2, <1>3

LEMMA SquaredSyndrome ==
    ASSUME NEW w
    PROVE  Syndrome(w, 22) = Square[Syndrome(w, 11)]
<1>1. PICK s : Adds(s, w, 11) /\ Syndrome(w, 11) = s[62]
  <2>1. 11 \in Nat
    OBVIOUS
  <2> QED BY ONLY <2>1, SyndromeSum, ZenonT(40)
<1>2. PICK t : Adds(t, w, 22) /\ Syndrome(w, 22) = t[62]
  <2>1. 22 \in Nat
    OBVIOUS
  <2> QED BY ONLY <2>1, SyndromeSum, ZenonT(40)
<1> DEFINE A == {k \in Nat : k <= 63 /\ t[k - 1] # Square[s[k - 1]]}
<1>3. A = {}
  <2> SUFFICES ASSUME A # {} PROVE FALSE
    OBVIOUS
  <2>1. A \in SUBSET Nat
    OBVIOUS
  <2> HIDE DEF A
  <2>2. PICK k \in A : \A m \in A : k <= m
    BY <2>1, Least
  <2>3. k \in Nat /\ k <= 63 /\ t[k - 1] # Square[s[k - 1]]
    BY DEF A
  <2>4. k # 0
    <3>1. t[0 - 1] = 0 /\ s[0 - 1] = 0 /\ Square[0] = 0
      BY <1>1, <1>2, FieldTables, Zenon DEF Adds
    <3> QED BY <2>3, <3>1
  <2> DEFINE j == k - 1
  <2>5. j \in Nat /\ j <= 62 /\ j \notin A
    BY <2>2, <2>3, <2>4
  <2> HIDE DEF j
  <2>6. t[j - 1] = Square[s[j - 1]]
    BY <2>5 DEF A
  <2>7. j \in 0..62 /\ j - 1 \in 0 - 1..62
    BY <2>5
  <2>8. /\ t[j] = Xor[t[j - 1]][BitTerm(w, 22, j)]
        /\ s[j] = Xor[s[j - 1]][BitTerm(w, 11, j)]
        /\ s[j - 1] \in 0..63
    BY <1>1, <1>2, <2>7, Zenon DEF Adds
  <2>9. BitTerm(w, 11, j) \in 0..63 /\ BitTerm(w, 22, j) = Square[BitTerm(w, 11, j)]
    <3>1. 11 \in Nat
      OBVIOUS
    <3> QED BY <2>5, <3>1, BitTerms, SquaredTerm, Zenon
  <2>10. \A a, b \in 0..63 : Square[Xor[a][b]] = Xor[Square[a]][Square[b]]
    BY FieldTables, ZenonT(40)
  <2>11. Square[s[j]] = t[j]
    BY <2>6, <2>8, <2>9, <2>10, ZenonT(40)
  <2> QED BY <2>3, <2>11 DEF j
<1>4. 63 \in Nat /\ 63 <= 63 /\ 63 - 1 = 62 /\ 63 \notin A
  BY <1>3, SMTT(30)
<1>5. t[62] = Square[s[62]]
  BY <1>4 DEF A
<1> QED BY <1>1, <1>2, <1>5

\* The earlier row that is taken is one before the last, and the first only if
\* the others have no discrepancy.
Choice(s, rows, n) ==
    s = [q \in 1..n |->
           IF q = 1 THEN 1
           ELSE LET p == s[q - 1]
                IN  IF rows[q].D # 0 /\ rows[q].uLu >= rows[p].uLu THEN q ELSE p]

LEMMA BestRow ==
    ASSUME NEW rows, NEW n \in Nat, Len(rows) = n + 1, n >= 1,
           rows[1].uLu = -1, \A q \in 2..n : rows[q].uLu \in Nat
    PROVE  /\ Best(rows) \in 1..n
           /\ Best(rows) = 1 => \A q \in 2..n : rows[q].D = 0
<1> DEFINE X == 1..n
           better(q, p) == rows[q].D # 0 /\ rows[q].uLu >= rows[p].uLu
           G == [q \in 2..n |-> [p \in X |-> IF better(q, p) THEN q ELSE p]]
<1> HIDE DEF better
<1>1. G \in [2..n -> [X -> X]]
  OBVIOUS
<1>2. \A q \in 2..n, p \in X : G[q][p] = IF better(q, p) THEN q ELSE p
  OBVIOUS
<1>3. 1 \in X /\ 2 \in Int /\ n \in Int /\ 2 - 1 <= n
  OBVIOUS
<1> HIDE DEF G, X
<1>4. PICK f : Solution(f, 2, n, X, 1, G)
  BY ONLY <1>1, <1>3, Recursion, Zenon
<1>5. f \in [1..n -> X] /\ f[1] = 1 /\ \A q \in 2..n : f[q] = G[q][f[q - 1]]
  BY <1>4 DEF Solution
<1>6. \A q \in 2..n : f[q - 1] \in X /\ f[q] = IF better(q, f[q - 1]) THEN q ELSE f[q - 1]
  <2>1. \A q \in 2..n : q - 1 \in 1..n
    OBVIOUS
  <2> QED BY <1>2, <1>5, <2>1
<1>7. Choice(f, rows, n)
  <2>1. f = [q \in 1..n |-> f[q]]
    BY <1>5
  <2>2. \A q \in 1..n : f[q] = IF q = 1 THEN 1
                               ELSE IF better(q, f[q - 1]) THEN q ELSE f[q - 1]
    <3>1. \A q \in 1..n : q = 1 \/ (q # 1 /\ q \in 2..n)
      OBVIOUS
    <3> QED BY <1>5, <1>6, <3>1, Zenon
  <2> QED BY <2>1, <2>2, Zenon DEF Choice, better
<1> DEFINE s == CHOOSE h : Choice(h, rows, n)
<1>8. Choice(s, rows, n)
  BY <1>7
<1>9. Best(rows) = s[n]
  <2>1. Len(rows) - 1 = n
    OBVIOUS
  <2>2. Best(rows) = (CHOOSE h : Choice(h, rows, Len(rows) - 1))[Len(rows) - 1]
    BY Zenon DEF Best, Choice
  <2> QED BY <2>1, <2>2
<1> HIDE DEF s
<1>10. Follows(s, 2, n, X, 1, G)
  <2>1. \A q \in 1..n : s[q] = IF q = 1 THEN 1
                               ELSE IF better(q, s[q - 1]) THEN q ELSE s[q - 1]
    BY <1>8, Zenon DEF Choice, better
  <2>2. 2 - 1 = 1 /\ 1 \in 1..n /\ \A q \in 2..n : q \in 1..n /\ q # 1
    OBVIOUS
  <2>3. s[1] = 1 /\ \A q \in 2..n : s[q] = IF better(q, s[q - 1]) THEN q ELSE s[q - 1]
    BY <2>1, <2>2, Zenon
  <2> QED BY <1>2, <2>2, <2>3 DEF Follows
<1>11. Best(rows) = f[n]
  <2>1. Agree(s, f, 2, n)
    BY ONLY <1>3, <1>4, <1>10, Unique, Zenon
  <2> QED BY <1>9, <2>1 DEF Agree
<1>12. f[n] \in 1..n
  BY <1>5 DEF X
<1> DEFINE Zeroed(q) == f[q] = 1 => \A p \in 2..q : rows[p].D = 0
           A == {q \in Nat : 1 <= q /\ q <= n /\ ~ Zeroed(q)}
<1>13. A = {}
  <2> SUFFICES ASSUME A # {} PROVE FALSE
    OBVIOUS
  <2>1. A \in SUBSET Nat
    OBVIOUS
  <2> HIDE DEF A
  <2>2. PICK q \in A : \A m \in A : q <= m
    BY <2>1, Least
  <2>3. q \in Nat /\ 1 <= q /\ q <= n /\ ~ Zeroed(q)
    BY DEF A
  <2>4. q # 1
    <3>1. \A p \in 2..1 : FALSE
      OBVIOUS
    <3> QED BY <2>3, <3>1
  <2>5. q \in 2..n /\ q - 1 \in Nat /\ 1 <= q - 1 /\ q - 1 <= n /\ q - 1 \notin A
    BY <2>2, <2>3, <2>4
  <2>6. Zeroed(q - 1)
    BY <2>5 DEF A
  <2>7. f[q] = 1 /\ f[q] = IF better(q, f[q - 1]) THEN q ELSE f[q - 1]
    BY <1>6, <2>3, <2>5
  <2>8. f[q - 1] = 1 /\ ~ better(q, 1)
    BY <2>3, <2>4, <2>7
  <2>9. rows[q].D = 0
    BY <2>5, <2>8 DEF better
  <2>10. \A p \in 2..q : rows[p].D = 0
    <3>1. \A p \in 2..q : p = q \/ p \in 2..q - 1
      BY <2>3
    <3> QED BY <2>6, <2>8, <2>9, <3>1, Zenon
  <2> QED BY <2>3, <2>10
<1>14. Zeroed(n)
  <2>1. n \notin A
    BY <1>13
  <2> HIDE DEF Zeroed
  <2> QED BY <2>1
<1> QED BY <1>11, <1>12, <1>14

LEMMA AppendedTo ==
    ASSUME NEW s, NEW n \in Nat, s = [i \in 1..n |-> s[i]], NEW r
    PROVE  /\ Len(s) = n /\ DOMAIN s = 1..n /\ Len(Append(s, r)) = n + 1
           /\ Append(s, r) = [i \in 1..n + 1 |-> Append(s, r)[i]]
           /\ Append(s, r)[n + 1] = r
           /\ \A i \in 1..n : Append(s, r)[i] = s[i]
<1> DEFINE X == {s[i] : i \in 1..n} \cup {r}
<1>1. r \in X /\ \A i \in 1..n : s[i] \in X
  OBVIOUS
<1> HIDE DEF X
<1>2. s \in Seq(X) /\ Len(s) = n
  BY <1>1
<1>3. /\ Append(s, r) \in Seq(X) /\ Len(Append(s, r)) = n + 1
      /\ Append(s, r)[n + 1] = r /\ \A i \in 1..n : Append(s, r)[i] = s[i]
  BY <1>1, <1>2, AppendProperties
<1>4. Append(s, r) = [i \in 1..n + 1 |-> Append(s, r)[i]]
  BY <1>3
<1> QED BY <1>2, <1>3, <1>4

\* What every stage of the iteration keeps: the degree of a row stays below its
\* number, and while there was no discrepancy the next one is a syndrome.
RowsInv(rows, S, n) ==
    /\ n \in Nat /\ n >= 2 /\ rows = [i \in 1..n |-> rows[i]]
    /\ rows[1].L = 0 /\ rows[1].uLu = -1
    /\ \A q \in 1..n : rows[q].top \in 0..21
    /\ \A q \in 2..n :
          /\ rows[q].L \in 0..q - 2 /\ rows[q].uLu = q - 2 - rows[q].L
          /\ (\A p \in 2..q - 1 : rows[p].D = 0) =>
                rows[q].L = 0 /\ (q <= 23 => rows[q].D = S[q - 1])

LEMMA NoDiscrepancy ==
    ASSUME NEW S, NEW U \in 0..21, NEW elp, NEW top, S[U + 1] \in 0..63
    PROVE  Extended(S, U, 0, elp, top).D = S[U + 1]
<1> DEFINE Eq(s) == s = [j \in 1 - 1..0 |->
                           IF j < 1 THEN 0
                           ELSE Xor[s[j - 1]][Times(S[U + 1 - j], Coefficient(elp, j))]]
           s == CHOOSE h : Eq(h)
<1>1. Eq([j \in 1 - 1..0 |-> 0])
  <2>1. \A j \in 1 - 1..0 : j < 1
    OBVIOUS
  <2> QED BY <2>1
<1>2. Eq(s)
  BY <1>1
<1>3. Total(LAMBDA i : Times(S[U + 1 - i], Coefficient(elp, i)), 1, 0) = s[0]
  BY Zenon DEF Total
<1> HIDE DEF s
<1>4. s[0] = 0
  BY <1>2
<1>5. U < 2 * T
  BY DEF T
<1>6. Extended(S, U, 0, elp, top).D = Xor[S[U + 1]][0]
  BY <1>3, <1>4, <1>5 DEF Extended, Row
<1> QED BY <1>6, FieldTables, Zenon

LEMMA FirstRowsInv == ASSUME NEW S PROVE RowsInv(FirstRows(S), S, 2)
<1> DEFINE rows == FirstRows(S)
<1>1. rows = <<[Row(0, 0, 1, One, 0) EXCEPT !.uLu = -1], Row(0, 0, S[1], One, 0)>>
  BY DEF FirstRows
<1> HIDE DEF rows
<1>2. rows = [i \in 1..2 |-> rows[i]]
  BY <1>1
<1>3. rows[1].L = 0 /\ rows[1].uLu = -1 /\ rows[1].top = 0
  BY <1>1 DEF Row
<1>4. rows[2].L = 0 /\ rows[2].uLu = 0 /\ rows[2].top = 0 /\ rows[2].D = S[1]
  BY <1>1 DEF Row
<1>5. \A q \in 2..2 : q = 2
  OBVIOUS
<1>6. \A q \in 1..2 : q = 1 \/ q = 2
  OBVIOUS
<1> QED BY <1>2, <1>3, <1>4, <1>5, <1>6 DEF RowsInv, rows

\* The syndromes of a word, as far as the iteration needs to know them.
Syndromic(S) ==
    /\ \A i \in 1..22 : S[i] \in 0..63
    /\ S[11] = 0 => S[22] = 0

LEMMA ExtendedRow ==
    ASSUME NEW S, NEW U, NEW L, NEW elp, NEW top
    PROVE  LET r == Extended(S, U, L, elp, top) IN r.L = L /\ r.uLu = U - L /\ r.top = top
BY DEF Extended, Row

LEMMA FollowingRow ==
    ASSUME NEW S, Syndromic(S), NEW n \in 2..23, NEW rows, RowsInv(rows, S, n)
    PROVE  LET r == Following(S, n - 1, rows[n], rows, Best(rows))
           IN  /\ r.top \in 0..21 /\ r.L \in 0..n - 1 /\ r.uLu = n - 1 - r.L
               /\ (\A p \in 2..n : rows[p].D = 0) => r.L = 0 /\ (n <= 22 => r.D = S[n])
<1> DEFINE r == Following(S, n - 1, rows[n], rows, Best(rows))
           row == rows[n]
           b == Best(rows)
           U == n - 1
<1>1. n \in Nat /\ 2 <= n /\ n <= 23 /\ U \in 1..22 /\ U = n - 1
  OBVIOUS
<1>0. /\ rows[1].L = 0 /\ rows[1].uLu = -1 /\ rows = [i \in 1..n |-> rows[i]]
      /\ \A q \in 2..n : rows[q].L \in 0..q - 2 /\ rows[q].uLu = q - 2 - rows[q].L
      /\ \A q \in 2..n : (\A p \in 2..q - 1 : rows[p].D = 0) =>
                              rows[q].L = 0 /\ (q <= 23 => rows[q].D = S[q - 1])
  BY Zenon DEF RowsInv
<1>2. /\ row.L \in 0..n - 2
      /\ (\A p \in 2..n - 1 : rows[p].D = 0) => row.L = 0 /\ row.D = S[n - 1]
  <2>1. n \in 2..n /\ n <= 23
    BY <1>1
  <2> QED BY <1>0, <2>1, Zenon
<1>3. CASE row.D = 0
  <2>1. r = Extended(S, U, row.L, row.elp, 0)
    BY <1>3 DEF Following
  <2> HIDE DEF r, U
  <2>2. r.L = row.L /\ r.uLu = U - row.L /\ r.top = 0
    BY <2>1, ExtendedRow
  <2>3. ASSUME \A p \in 2..n : rows[p].D = 0
        PROVE  r.L = 0 /\ (n <= 22 => r.D = S[n])
    <3>1. row.L = 0
      <4>1. \A p \in 2..n - 1 : p \in 2..n
        OBVIOUS
      <4> QED BY <1>2, <2>3, <4>1, Zenon
    <3>2. ASSUME n <= 22 PROVE r.D = S[n]
      <4>1. U \in 0..21 /\ U + 1 = n /\ S[U + 1] \in 0..63
        BY <1>1, <3>2 DEF Syndromic
      <4>2. Extended(S, U, 0, row.elp, 0).D = S[U + 1]
        BY <4>1, NoDiscrepancy, Zenon
      <4> QED BY <2>1, <3>1, <4>1, <4>2
    <3> QED BY <2>2, <3>1, <3>2
  <2> QED BY <1>1, <1>2, <2>2, <2>3 DEF r, U
<1>4. CASE row.D # 0
  <2>1. b \in 1..n - 1 /\ (b = 1 => \A q \in 2..n - 1 : rows[q].D = 0)
    <3> DEFINE m == n - 1
    <3>1. m \in Nat /\ m >= 1 /\ Len(rows) = m + 1
      <4>1. rows = [i \in 1..n |-> rows[i]]
        BY DEF RowsInv
      <4>2. Len(rows) = n
        BY <1>1, <4>1, AppendedTo
      <4> QED BY <1>1, <4>2
    <3>2. rows[1].uLu = -1 /\ \A q \in 2..m : rows[q].uLu \in Nat
      <4>1. \A q \in 2..m : q \in 2..n
        BY <1>1
      <4>2. \A q \in 2..m : rows[q].L \in 0..q - 2 /\ rows[q].uLu = q - 2 - rows[q].L
        BY <1>0, <4>1, Zenon
      <4>3. ASSUME NEW q \in 2..m PROVE rows[q].uLu \in Nat
        <5>1. rows[q].L \in 0..q - 2 /\ rows[q].uLu = q - 2 - rows[q].L /\ q \in Int
          BY <4>2
        <5> QED BY ONLY <5>1
      <4> QED BY <1>0, <4>3
    <3> HIDE DEF m
    <3>3. b \in 1..m /\ (b = 1 => \A q \in 2..m : rows[q].D = 0)
      BY <3>1, <3>2, BestRow
    <3> QED BY <3>3 DEF m
  <2> DEFINE shift == U + 1 - b
             top == rows[b].L + shift
             L == IF row.L > top THEN row.L ELSE top
  <2> HIDE DEF b
  <2>2. shift = n - b /\ shift \in 1..n - 1
    BY <1>1, <2>1
  <2>3. b = 1 => rows[b].L = 0
    BY DEF RowsInv
  <2>4. b # 1 => rows[b].L \in 0..b - 2
    <3>1. b # 1 => b \in 2..n
      BY <1>1, <2>1
    <3> QED BY <1>0, <3>1, Zenon
  <2>5. top \in 0..n - 1 /\ (b # 1 => top <= n - 2)
    <3> HIDE DEF shift
    <3>1. CASE b = 1
      BY <1>1, <2>2, <2>3, <3>1
    <3>2. CASE b # 1
      BY <1>1, <2>1, <2>2, <2>4, <3>2
    <3> QED BY <3>1, <3>2
  <2>6. top <= 21
    <3>1. CASE n <= 22 \/ b # 1
      <4> HIDE DEF top
      <4> QED BY <1>1, <2>5, <3>1
    <3>2. CASE n = 23 /\ b = 1
      <4>1. \A q \in 2..22 : rows[q].D = 0
        BY <2>1, <3>2
      <4>2. row.D = S[22]
        BY <1>2, <3>2, <4>1
      <4>3. rows[12].D = S[11]
        BY <3>2, <4>1 DEF RowsInv
      <4>4. S[11] = 0
        BY <4>1, <4>3
      <4> QED BY <1>4, <4>2, <4>4 DEF Syndromic
    <3> QED BY <1>1, <3>1, <3>2
  <2>7. r.L = L /\ r.uLu = U - L /\ r.top = top
    <3>1. r = Joined(S, U, row, rows[b], shift, Over(row.D, rows[b].D))
      BY <1>4 DEF Following, b
    <3> HIDE DEF r, shift
    <3>2. Joined(S, U, row, rows[b], shift, Over(row.D, rows[b].D)).L = L
      BY ExtendedRow DEF Joined
    <3>3. Joined(S, U, row, rows[b], shift, Over(row.D, rows[b].D)).uLu = U - L
      BY ExtendedRow DEF Joined
    <3>4. Joined(S, U, row, rows[b], shift, Over(row.D, rows[b].D)).top = top
      BY ExtendedRow DEF Joined
    <3> QED BY <3>1, <3>2, <3>3, <3>4
  <2> HIDE DEF r, top
  <2>8. L \in 0..n - 1
    BY <1>1, <1>2, <2>5
  <2>9. ~ \A p \in 2..n : rows[p].D = 0
    BY <1>1, <1>4
  <2> HIDE DEF L
  <2> QED BY <1>1, <2>5, <2>6, <2>7, <2>8, <2>9 DEF r
<1> QED BY <1>3, <1>4

LEMMA IteratedInv ==
    ASSUME NEW S, Syndromic(S), NEW n \in 2..23, NEW rows, RowsInv(rows, S, n)
    PROVE  RowsInv(Iterated(S, rows), S, n) \/ RowsInv(Iterated(S, rows), S, n + 1)
<1> DEFINE r == Following(S, n - 1, rows[n], rows, Best(rows))
           next == Append(rows, r)
<1>1. rows = [i \in 1..n |-> rows[i]] /\ n \in Nat /\ n >= 2
  BY DEF RowsInv
<1>2. /\ Len(rows) = n /\ next = [i \in 1..n + 1 |-> next[i]]
      /\ next[n + 1] = r /\ \A i \in 1..n : next[i] = rows[i]
  BY <1>1, AppendedTo
<1>3. Last(rows) = rows[n]
  BY <1>2 DEF Last
<1>4. CASE Last(rows).L > T
  BY <1>4 DEF Iterated
<1>5. CASE ~(Last(rows).L > T)
  <2>1. Iterated(S, rows) = next
    BY <1>2, <1>3, <1>5, SMTT(30) DEF Iterated
  <2>2. /\ r.top \in 0..21 /\ r.L \in 0..n - 1 /\ r.uLu = n - 1 - r.L
        /\ (\A p \in 2..n : rows[p].D = 0) => r.L = 0 /\ (n <= 22 => r.D = S[n])
    BY FollowingRow
  <2>3. /\ rows[1].L = 0 /\ rows[1].uLu = -1
        /\ \A q \in 1..n : rows[q].top \in 0..21
        /\ \A q \in 2..n : rows[q].L \in 0..q - 2 /\ rows[q].uLu = q - 2 - rows[q].L
        /\ \A q \in 2..n : (\A p \in 2..q - 1 : rows[p].D = 0) =>
                              rows[q].L = 0 /\ (q <= 23 => rows[q].D = S[q - 1])
    BY Zenon DEF RowsInv
  <2> HIDE DEF next, r
  <2>4. \A q \in 1..n + 1 : next[q].top \in 0..21
    <3>1. \A q \in 1..n + 1 : q \in 1..n \/ q = n + 1
      BY <1>1
    <3> QED BY <1>2, <2>2, <2>3, <3>1, Zenon
  <2>5. next[1].L = 0 /\ next[1].uLu = -1
    <3>1. 1 \in 1..n
      BY ONLY <1>1
    <3> QED BY <1>2, <2>3, <3>1, Zenon
  <2>6. ASSUME NEW q \in 2..n + 1
        PROVE  /\ next[q].L \in 0..q - 2 /\ next[q].uLu = q - 2 - next[q].L
               /\ (\A p \in 2..q - 1 : next[p].D = 0) =>
                      next[q].L = 0 /\ (q <= 23 => next[q].D = S[q - 1])
    <3>1. \A p \in 2..q - 1 : p \in 1..n /\ next[p] = rows[p]
      <4>1. \A p \in 2..q - 1 : p \in 1..n
        BY ONLY <1>1, <2>6
      <4> QED BY <1>2, <4>1, Zenon
    <3>2. CASE q = n + 1
      <4>1. next[q] = r /\ q - 1 = n /\ q - 2 = n - 1 /\ (q <= 23 => n <= 22)
        <5>1. q - 1 = n /\ q - 2 = n - 1 /\ (q <= 23 => n <= 22)
          <6>1. n \in Nat
            BY <1>1
          <6>2. \A m \in Nat : (m + 1) - 1 = m /\ (m + 1) - 2 = m - 1 /\ (m + 1 <= 23 => m <= 22)
            OBVIOUS
          <6> QED BY ONLY <3>2, <6>1, <6>2, Zenon
        <5> QED BY <1>2, <3>2, <5>1, Zenon
      <4>2. (\A p \in 2..q - 1 : next[p].D = 0) => \A p \in 2..n : rows[p].D = 0
        BY <3>1, <4>1
      <4> QED BY <2>2, <4>1, <4>2
    <3>3. CASE q # n + 1
      <4>1. q \in 2..n /\ q \in 1..n
        BY <1>1, <3>3
      <4>2. next[q] = rows[q]
        BY <1>2, <4>1
      <4>3. (\A p \in 2..q - 1 : next[p].D = 0) => \A p \in 2..q - 1 : rows[p].D = 0
        BY <3>1
      <4> QED BY <2>3, <4>1, <4>2, <4>3, Zenon
    <3> QED BY <3>2, <3>3
  <2>7. RowsInv(next, S, n + 1)
    <3>1. n + 1 \in Nat /\ n + 1 >= 2
      BY ONLY <1>1
    <3>2. next = [i \in 1..n + 1 |-> next[i]]
      BY <1>2
    <3> QED BY <2>4, <2>5, <2>6, <3>1, <3>2, Zenon DEF RowsInv
  <2> QED BY <2>1, <2>7
<1> QED BY <1>4, <1>5

Iterations(f, S, k) ==
    f = [U \in 0..k |-> IF U = 0 THEN FirstRows(S) ELSE Iterated(S, f[U - 1])]

LEMMA IterationsExist == ASSUME NEW S, NEW n \in Nat PROVE \E f : Iterations(f, S, n)
<1> DEFINE A == {k \in Nat : ~ \E f : Iterations(f, S, k)}
<1>1. A = {}
  <2> SUFFICES ASSUME A # {} PROVE FALSE
    OBVIOUS
  <2>1. A \in SUBSET Nat
    OBVIOUS
  <2> HIDE DEF A
  <2>2. PICK k \in A : \A m \in A : k <= m
    BY <2>1, Least
  <2>3. k \in Nat /\ ~ \E f : Iterations(f, S, k)
    BY DEF A
  <2>4. k # 0
    <3>1. \A U \in 0..0 : U = 0
      OBVIOUS
    <3>2. Iterations([U \in 0..0 |-> FirstRows(S)], S, 0)
      BY <3>1 DEF Iterations
    <3> QED BY <2>3, <3>2
  <2>5. k - 1 \in Nat /\ k - 1 \notin A
    BY <2>2, <2>3, <2>4
  <2>6. PICK f : Iterations(f, S, k - 1)
    BY <2>5, Zenon DEF A
  <2> DEFINE g == [U \in 0..k |-> IF U < k THEN f[U] ELSE Iterated(S, f[k - 1])]
             h == [U \in 0..k |-> IF U = 0 THEN FirstRows(S) ELSE Iterated(S, g[U - 1])]
  <2>7. \A U \in 0..k - 1 : f[U] = IF U = 0 THEN FirstRows(S) ELSE Iterated(S, f[U - 1])
    BY <2>6, Zenon DEF Iterations
  <2>8. \A U \in 0..k : g[U] = h[U]
    <3> TAKE U \in 0..k
    <3>1. CASE U = k
      <4>1. g[U] = Iterated(S, f[k - 1]) /\ g[U - 1] = f[k - 1]
        BY <2>3, <2>4, <3>1
      <4>2. h[U] = Iterated(S, g[U - 1])
        BY <2>4, <3>1
      <4> QED BY <3>1, <4>1, <4>2
    <3>2. CASE U = 0
      <4>1. g[U] = f[U] /\ U \in 0..k - 1
        BY <2>3, <2>4, <3>2
      <4> QED BY <2>7, <3>2, <4>1
    <3>3. CASE U # 0 /\ U # k
      <4>1. /\ U \in 0..k - 1 /\ U - 1 \in 0..k /\ U < k /\ U - 1 < k
        BY <2>3, <3>3
      <4>2. g[U] = f[U] /\ g[U - 1] = f[U - 1] /\ h[U] = Iterated(S, g[U - 1])
        BY <3>3, <4>1
      <4> QED BY <2>7, <3>3, <4>1, <4>2
    <3> QED BY <3>1, <3>2, <3>3
  <2>9. g = h
    BY <2>8
  <2>10. Iterations(g, S, k)
    BY <2>9 DEF Iterations
  <2> QED BY <2>3, <2>10
<1> QED BY <1>1

LEMMA RowsKeep ==
    ASSUME NEW S, Syndromic(S)
    PROVE  \E n \in 2..24 : RowsInv(Rows(S), S, n)
<1> DEFINE f == CHOOSE h : Iterations(h, S, 2 * T)
<1>1. Iterations(f, S, 2 * T)
  <2>1. 2 * T \in Nat
    BY DEF T
  <2> QED BY <2>1, IterationsExist
<1>2. Rows(S) = f[2 * T]
  BY Zenon DEF Rows, Iterations
<1> HIDE DEF f
<1>3. /\ f[0] = FirstRows(S)
      /\ \A U \in 1..22 : f[U] = Iterated(S, f[U - 1])
  <2>1. 2 * T = 22
    BY DEF T
  <2>2. \A U \in 0..22 : f[U] = IF U = 0 THEN FirstRows(S) ELSE Iterated(S, f[U - 1])
    BY <1>1, <2>1, Zenon DEF Iterations
  <2>3. 0 \in 0..22 /\ \A U \in 1..22 : U \in 0..22 /\ U # 0
    OBVIOUS
  <2> QED BY <2>2, <2>3, Zenon
<1> DEFINE Kept(U) == \E n \in 2..U + 2 : RowsInv(f[U], S, n)
           A == {U \in Nat : U <= 22 /\ ~ Kept(U)}
<1>4. A = {}
  <2> SUFFICES ASSUME A # {} PROVE FALSE
    OBVIOUS
  <2>1. A \in SUBSET Nat
    OBVIOUS
  <2> HIDE DEF A
  <2>2. PICK U \in A : \A m \in A : U <= m
    BY <2>1, Least
  <2>3. U \in Nat /\ U <= 22 /\ ~ Kept(U)
    BY DEF A
  <2>4. U # 0
    <3>1. RowsInv(f[0], S, 2) /\ 2 \in 2..0 + 2
      BY <1>3, FirstRowsInv
    <3> QED BY <2>3, <3>1
  <2>5. U - 1 \in Nat /\ U - 1 <= 22 /\ U - 1 \notin A /\ U \in 1..22
    BY <2>2, <2>3, <2>4
  <2>6. Kept(U - 1)
    BY <2>5 DEF A
  <2>7. PICK n \in 2..(U - 1) + 2 : RowsInv(f[U - 1], S, n)
    BY <2>6
  <2>8. n \in 2..23 /\ n \in 2..U + 2 /\ n + 1 \in 2..U + 2
    BY <2>3, <2>7
  <2>9. RowsInv(f[U], S, n) \/ RowsInv(f[U], S, n + 1)
    BY <1>3, <2>5, <2>7, <2>8, IteratedInv, Zenon
  <2> QED BY <2>3, <2>8, <2>9, Zenon
<1>5. Kept(22)
  <2>1. 22 \in Nat /\ 22 <= 22 /\ 22 \notin A
    BY <1>4
  <2> HIDE DEF Kept
  <2> QED BY <2>1
<1>6. 2 * T = 22 /\ 22 + 2 = 24
  BY DEF T
<1> QED BY <1>2, <1>5, <1>6

LEMMA SyndromesSyndromic == ASSUME NEW w PROVE Syndromic(Syndromes(w))
<1> DEFINE S == Syndromes(w)
<1>1. \A i \in 1..22 : S[i] = Syndrome(w, i)
  BY SyndromesAre
<1> HIDE DEF S
<1>2. \A i \in 1..22 : Syndrome(w, i) \in 0..63
  <2> TAKE i \in 1..22
  <2>1. i \in Nat
    OBVIOUS
  <2>2. PICK s : Adds(s, w, i) /\ Syndrome(w, i) = s[62]
    BY ONLY <2>1, SyndromeSum, Zenon
  <2>3. s \in [0 - 1..62 -> 0..63]
    BY <2>2, Zenon DEF Adds
  <2>4. 62 \in 0 - 1..62
    OBVIOUS
  <2> QED BY ONLY <2>2, <2>3, <2>4, Zenon
<1>3. S[11] = Syndrome(w, 11) /\ S[22] = Syndrome(w, 22)
  BY <1>1
<1>4. S[11] = 0 => S[22] = 0
  <2>1. Syndrome(w, 22) = Square[Syndrome(w, 11)]
    BY SquaredSyndrome
  <2>2. Square[0] = 0
    BY ONLY FieldTables, Zenon
  <2> QED BY ONLY <1>3, <2>1, <2>2
<1> QED BY <1>1, <1>2, <1>4, SMTT(30) DEF Syndromic, S

LEMMA TopBounded == ASSUME NEW w PROVE TopOf(Rows(Syndromes(w))) \in 0..21
<1> DEFINE rows == Rows(Syndromes(w))
           S == {rows[i].top : i \in DOMAIN rows}
<1>1. PICK n \in 2..24 : RowsInv(rows, Syndromes(w), n)
  BY SyndromesSyndromic, RowsKeep
<1> HIDE DEF rows
<1>2. rows = [i \in 1..n |-> rows[i]] /\ \A q \in 1..n : rows[q].top \in 0..21
  BY <1>1, Zenon DEF RowsInv
<1>3. DOMAIN rows = 1..n /\ 1 \in 1..n
  BY <1>2, SMTT(30)
<1>4. S \in SUBSET (0..21) /\ S # {}
  BY <1>2, <1>3, SMTT(30)
<1> HIDE DEF S
<1>5. \E m \in S : \A x \in S : m >= x
  <2> DEFINE D == {21 - x : x \in S}
  <2>1. \A x \in S : x \in Nat /\ 21 - x \in Nat
    BY <1>4
  <2>2. D \in SUBSET Nat /\ D # {}
    BY <1>4, <2>1
  <2>3. /\ \A x \in S : 21 - x \in D
        /\ \A y \in D : \E x \in S : y = 21 - x
    OBVIOUS
  <2> HIDE DEF D
  <2>4. PICK d \in D : \A y \in D : d <= y
    BY <2>2, Least
  <2>5. PICK m \in S : d = 21 - m
    BY <2>3
  <2>6. ASSUME NEW x \in S PROVE m >= x
    <3>1. d <= 21 - x /\ x \in Nat /\ m \in Nat
      BY <2>1, <2>3, <2>4
    <3> QED BY <2>5, <3>1
  <2> QED BY <2>6
<1>6. Max(S) \in S
  BY <1>5 DEF Max
<1> QED BY <1>4, <1>6 DEF TopOf, S, rows

\* What bchDec returns: never is elp written past its last column, and a word
\* that is put right differs at as many places as it says, eleven or fewer.
LEMMA Returned ==
    ASSUME NEW w
    PROVE  /\ bchDec(w).top <= LastTerm
           /\ bchDec(w).rc >= 0 =>
                 /\ bchDec(w).rc <= T
                 /\ \E places \in SUBSET (0..62) :
                       /\ bchDec(w).cw = SymDiff(w, places)
                       /\ bchDec(w).rc = Cardinality(places)
<1> DEFINE S == Syndromes(w)
<1>1. CASE ToSet(S) = {0}
  <2>1. bchDec(w) = Outcome(0, w, 0)
    BY <1>1 DEF bchDec, Decoded
  <2>2. bchDec(w).rc = 0 /\ bchDec(w).cw = w /\ bchDec(w).top = 0
    BY <2>1 DEF Outcome
  <2>3. SymDiff(w, {}) = w /\ Cardinality({}) = 0 /\ {} \in SUBSET (0..62)
    BY FS_EmptySet DEF SymDiff
  <2> QED BY <2>2, <2>3 DEF T, LastTerm
<1>2. CASE ToSet(S) # {0}
  <2> DEFINE rows == Rows(S)
             row == Last(rows)
             top == TopOf(rows)
             places == Located(row)
  <2>1. bchDec(w) = AfterRows(w, row, top)
    BY <1>2 DEF bchDec, Decoded, Solved
  <2>2. top \in 0..21
    BY TopBounded
  <2>3. places \in SUBSET (0..62)
    <3>1. \A k \in 1..63 : 63 - k \in 0..62
      OBVIOUS
    <3>2. PICK roots \in SUBSET (1..63) : Located(row) = {63 - k : k \in roots}
      BY Zenon DEF Located
    <3> HIDE DEF row
    <3> QED BY ONLY <3>1, <3>2
  <2> HIDE DEF row, top, places
  <2>4. CASE row.L > T
    BY <2>1, <2>2, <2>4 DEF AfterRows, Outcome, LastTerm
  <2>5. CASE ~(row.L > T) /\ Cardinality(places) = row.L
    <3>1. bchDec(w) = Outcome(row.L, SymDiff(w, places), top)
      BY <2>1, <2>5 DEF AfterRows, Corrected, places
    <3>2. /\ bchDec(w).rc = row.L /\ bchDec(w).cw = SymDiff(w, places)
          /\ bchDec(w).top = top
      BY <3>1 DEF Outcome
    <3>3. Cardinality(places) \in Nat
      <4>1. IsFiniteSet(0..62)
        BY FS_Interval, 0 \in Int, 62 \in Int, Zenon
      <4>2. IsFiniteSet(places)
        BY <2>3, <4>1, FS_Subset, Zenon
      <4> QED BY <4>2, FS_CardinalityType, Zenon
    <3>4. row.L <= T
      BY <2>5, <3>3 DEF T
    <3> QED BY <2>2, <2>3, <2>5, <3>2, <3>4 DEF LastTerm
  <2>6. CASE ~(row.L > T) /\ Cardinality(places) # row.L
    <3>1. bchDec(w) = Outcome(-1, w, top)
      BY <2>1, <2>6 DEF AfterRows, Corrected, places
    <3> QED BY <2>2, <3>1 DEF Outcome, LastTerm
  <2> QED BY <2>4, <2>5, <2>6
<1> QED BY <1>1, <1>2

LEMMA ReadBack ==
    ASSUME NEW acc \in SUBSET (0..63)
    PROVE  /\ nid_codeword(acc).top <= LastTerm
           /\ nid_codeword(acc).ok =>
                 /\ nid_codeword(acc).bch_errors <= T
                 /\ nid_codeword(acc).bch_errors
                      = Cardinality(SymDiff(nid_codeword(acc).nid_word, acc))
<1> DEFINE w == Codeword(acc)
           dec == bchDec(w)
           word == FromCodeword(dec.cw) \cup (acc \cap {63})
<1>1. /\ nid_codeword(acc).ok = (dec.rc >= 0) /\ nid_codeword(acc).bch_errors = dec.rc
      /\ nid_codeword(acc).nid_word = word /\ nid_codeword(acc).top = dec.top
  BY Zenon DEF nid_codeword, Accepted, Read
<1>2. dec.top <= LastTerm
  BY Returned
<1>3. ASSUME dec.rc >= 0
      PROVE  dec.rc <= T /\ dec.rc = Cardinality(SymDiff(word, acc))
  <2>1. PICK places \in SUBSET (0..62) : /\ dec.cw = SymDiff(w, places)
                                         /\ dec.rc = Cardinality(places)
                                         /\ dec.rc <= T
    BY <1>3, Returned
  <2> HIDE DEF dec
  <2> DEFINE D == SymDiff(word, acc)
             f == [p \in places |-> 62 - p]
  <2>2. \A k \in 0..62 : 62 - k \in w <=> k \in acc
    BY DEF Codeword
  <2>3. w \in SUBSET (0..62)
    BY DEF Codeword
  <2> HIDE DEF w
  <2>4. \A k \in 0..62 : k \in FromCodeword(dec.cw) <=> 62 - k \in dec.cw
    <3>1. dec.cw \in SUBSET (0..62)
      BY <2>1, <2>3 DEF SymDiff
    <3> QED BY <3>1 DEF FromCodeword
  <2>5. 63 \notin FromCodeword(dec.cw) /\ FromCodeword(dec.cw) \in SUBSET (0..62)
    <3>1. dec.cw \in SUBSET (0..62)
      BY <2>1, <2>3 DEF SymDiff
    <3> QED BY <3>1 DEF FromCodeword
  <2>6. \A k \in 0..62 : k \in word <=> 62 - k \in dec.cw
    BY <2>4
  <2>7. 63 \in word <=> 63 \in acc
    BY <2>5
  <2>8. word \in SUBSET (0..63)
    BY <2>5
  <2> HIDE DEF word
  <2>9. \A k \in 0..62 : k \in D <=> 62 - k \in places
    BY <2>1, <2>2, <2>6 DEF SymDiff
  <2>10. D \in SUBSET (0..62)
    <3>1. D \in SUBSET (0..63) /\ 63 \notin D
      BY <2>7, <2>8 DEF SymDiff
    <3> HIDE DEF D
    <3> QED BY <3>1
  <2> HIDE DEF D
  <2>11. \A p \in places : 62 - p \in D
    BY <2>9
  <2>12. \A k \in D : 62 - k \in places /\ 62 - (62 - k) = k
    BY <2>9, <2>10
  <2>13. f \in Bijection(places, D)
    <3>1. f \in [places -> D]
      BY <2>11
    <3>2. \A p, q \in places : f[p] = f[q] => p = q
      OBVIOUS
    <3>3. \A k \in D : \E p \in places : f[p] = k
      BY <2>12
    <3> HIDE DEF f
    <3>4. f \in Injection(places, D)
      BY <3>1, <3>2, Zenon DEF Injection, IsInjective
    <3>5. f \in Surjection(places, D)
      BY <3>1, <3>3, Zenon DEF Surjection
    <3> QED BY <3>4, <3>5 DEF Bijection
  <2> HIDE DEF f
  <2>14. IsFiniteSet(places)
    <3>1. IsFiniteSet(0..62)
      BY FS_Interval, 0 \in Int, 62 \in Int, Zenon
    <3> QED BY <3>1, FS_Subset, Zenon
  <2>15. Cardinality(places) = Cardinality(D)
    <3>1. ExistsBijection(places, D)
      BY <2>13, Zenon DEF ExistsBijection
    <3> QED BY <2>14, <3>1, FS_Bijection, Zenon
  <2> QED BY <2>1, <2>15 DEF D
<1> QED BY <1>1, <1>2, <1>3

\* What is known of a NID once it was read.
NidInv == NidRead => nid = nid_codeword({k \in 0..63 : NidBits[k] \in air})

\* Whatever 64 bits were received, a NID that is accepted was changed at as many
\* places as bch_errors says, eleven at most, and elp was not overrun
\* (bch.cc:45, p25_framer.cc:66).
THEOREM NidExactAlways == Spec => []NidExact
<1>1. Init => NidInv
  BY DEF Init, NidInv, NidRead
<1>2. NidInv /\ [Next]_vars => NidInv'
  <2> SUFFICES ASSUME NidInv, [Next]_vars, NidRead' PROVE NidInv'
    BY DEF NidInv
  <2>1. CASE RxNid
    <3>1. nid' = nid_codeword({k \in 0..63 : NidBits[k] \in air}) /\ air' = air
      BY <2>1, Zenon DEF RxNid
    <3> QED BY <3>1 DEF NidInv
  <2>2. ASSUME NidRead, UNCHANGED <<nid, air>> PROVE NidInv'
    BY <2>2 DEF NidInv
  <2>3. ASSUME NEW who, NEW duid, NEW u, SendVoice(who, duid, u) PROVE FALSE
    BY <2>3 DEF SendVoice, NidRead
  <2>4. ASSUME NEW data, SendTrunking(data) PROVE FALSE
    BY <2>4 DEF SendTrunking, NidRead
  <2>5. ASSUME NEW d, Arrive(d) PROVE FALSE
    BY <2>5 DEF Arrive, NidRead
  <2>6. CASE Dissect
    BY <2>6 DEF Dissect, NidRead
  <2>7. CASE AssembleVoice
    BY <2>2, <2>7 DEF AssembleVoice, NidRead
  <2>8. CASE AssembleTrunking
    BY <2>2, <2>8 DEF AssembleTrunking, NidRead
  <2>9. CASE RxLine
    BY <2>2, <2>9 DEF RxLine, NidRead
  <2>10. CASE UNCHANGED vars
    BY <2>2, <2>10 DEF vars, NidRead
  <2> QED BY <2>1, <2>3, <2>4, <2>5, <2>6, <2>7, <2>8, <2>9, <2>10 DEF Next
<1>3. NidInv => NidExact
  <2> SUFFICES ASSUME NidInv, NidRead PROVE NidExact
    BY DEF NidExact
  <2> DEFINE acc == {k \in 0..63 : NidBits[k] \in air}
  <2>1. nid = nid_codeword(acc)
    BY DEF NidInv
  <2>2. acc \in SUBSET (0..63)
    OBVIOUS
  <2> HIDE DEF acc
  <2>3. /\ nid_codeword(acc).top <= LastTerm
        /\ nid_codeword(acc).ok =>
              /\ nid_codeword(acc).bch_errors <= T
              /\ nid_codeword(acc).bch_errors
                   = Cardinality(SymDiff(nid_codeword(acc).nid_word, acc))
    BY ONLY <2>2, ReadBack
  <2> QED BY <2>1, <2>3, Zenon DEF NidExact, acc
<1> QED BY <1>1, <1>2, <1>3, PTL DEF Spec

-----------------------------------------------------------------------------
(* A trunking block through construct_tsbk and crc16.                      *)

\* A sum of rows, each of which is the bit it belongs to.
LEMMA SumUnits ==
    ASSUME NEW rows, NEW P, NEW u \in SUBSET P, \A p \in P : rows[p] = {p}
    PROVE  SumOfRows(rows, u, P) = u
<1>1. ~Odd({}) /\ \A p : Odd({p})
  <2>1. Cardinality({}) = 0 /\ \A p : Cardinality({p}) = 1
    BY FS_EmptySet, FS_Singleton, Zenon
  <2>2. 0 % 2 # 1 /\ 1 % 2 = 1
    OBVIOUS
  <2> QED BY <2>1, <2>2, Zenon DEF Odd
<1>2. \A p \in P : {d \in u : p \in rows[d]} = IF p \in u THEN {p} ELSE {}
  OBVIOUS
<1>3. \A p \in P : Odd({d \in u : p \in rows[d]}) <=> p \in u
  BY <1>1, <1>2, Zenon
<1> QED BY <1>3 DEF SumOfRows

LEMMA CheckedBlock ==
    ASSUME NEW data \in SUBSET (16..95)
    PROVE  /\ construct_tsbk(data) \in SUBSET (0..95)
           /\ crc16(construct_tsbk(data)) = {}
           /\ 95 \in construct_tsbk(data) <=> 95 \in data
<1> DEFINE P == 0..15
           S(x) == SumOfRows(CrcRow, x, P)
           A == S(data)
           C == SymDiff(A, P)
<1>1. construct_tsbk(data) = data \cup C
  BY DEF construct_tsbk
<1>2. C \in SUBSET P
  BY DEF SymDiff, SumOfRows
<1>3. S(C) = C
  <2>1. \A p \in P : CrcRow[p] = {p}
    BY CrcUnits, Zenon
  <2> HIDE DEF P, C
  <2> QED BY <1>2, <2>1, SumUnits
<1>4. IsFiniteSet(data) /\ IsFiniteSet(C)
  <2>1. IsFiniteSet(16..95) /\ IsFiniteSet(P)
    BY FS_Interval, 0 \in Int, 15 \in Int, 16 \in Int, 95 \in Int, Zenon
  <2> HIDE DEF C, P
  <2> QED BY <1>2, <2>1, FS_Subset, Zenon
<1>5. data \cup C = SymDiff(data, C)
  <2>1. \A p \in P : p \notin 16..95
    OBVIOUS
  <2> HIDE DEF P, C
  <2> QED BY <1>2, <2>1 DEF SymDiff
<1>6. S(SymDiff(data, C)) = SymDiff(A, C)
  <2> HIDE DEF C, P
  <2>1. SumOfRows(CrcRow, SymDiff(data, C), P)
          = SymDiff(SumOfRows(CrcRow, data, P), SumOfRows(CrcRow, C, P))
    BY <1>4, SumLinear
  <2> QED BY ONLY <1>3, <2>1
<1>7. crc16(construct_tsbk(data)) = SymDiff(S(data \cup C), P)
  BY <1>1, Zenon DEF crc16
<1>8. SymDiff(SymDiff(A, C), P) = {}
  <2> HIDE DEF A, P
  <2> QED BY DEF SymDiff
<1>9. crc16(construct_tsbk(data)) = {}
  <2> HIDE DEF A, C, P, S
  <2> QED BY <1>5, <1>6, <1>7, <1>8, Zenon
<1>10. 95 \notin P /\ P \in SUBSET (0..95) /\ data \in SUBSET (0..95)
  BY SMTT(30)
<1> HIDE DEF C, P
<1> QED BY <1>1, <1>2, <1>9, <1>10
-----------------------------------------------------------------------------
(* A block through the trellis and back.                                   *)

\* The groups of the 49 symbols are apart.
LEMMA Groups ==
    /\ \A s \in 0..48 : Group(s) \in 0..48
    /\ \A s, t \in 0..48 : Group(s) = Group(t) => s = t
<1> DEFINE q(s) == s \div 4  r(s) == s % 4
<1>1. \A s \in 0..48 : /\ q(s) \in 0..12 /\ r(s) \in 0..3 /\ s = 4 * q(s) + r(s)
                       /\ (q(s) = 12 => r(s) = 0)
  OBVIOUS
<1>2. \A s \in 0..48 : /\ r(s) = 0 => Group(s) = q(s)
                       /\ r(s) = 1 => Group(s) = q(s) + 13
                       /\ r(s) = 2 => Group(s) = q(s) + 25
                       /\ r(s) = 3 => Group(s) = q(s) + 37
  BY DEF Group
<1> HIDE DEF q, r
<1>3. \A s \in 0..48 :
         \/ r(s) = 0 /\ Group(s) \in 0..12 /\ s = 4 * Group(s)
         \/ r(s) = 1 /\ Group(s) \in 13..24 /\ s = 4 * (Group(s) - 13) + 1
         \/ r(s) = 2 /\ Group(s) \in 25..36 /\ s = 4 * (Group(s) - 25) + 2
         \/ r(s) = 3 /\ Group(s) \in 37..48 /\ s = 4 * (Group(s) - 37) + 3
  <2> TAKE s \in 0..48
  <2>1. q(s) = 12 \/ (q(s) \in 0..11 /\ q(s) < 12)
    BY <1>1
  <2> QED BY <1>1, <1>2, <2>1
<1>4. ASSUME NEW s \in 0..48, NEW t \in 0..48, Group(s) = Group(t) PROVE s = t
  BY <1>3, <1>4, SMTT(40)
<1>5. \A s \in 0..48 : Group(s) \in 0..48
  BY <1>3, SMTT(40)
<1> QED BY <1>4, <1>5

\* The dibits that go in, and what was put together after some of them.
Input(block, s) == IF s \in 0..47 THEN Dibit(block, s) ELSE 0
Upto(block, s) == {b \in block : b >= 94 - 2 * s}

LEMMA Inputs ==
    ASSUME NEW block, NEW s PROVE Input(block, s) \in 0..3
BY DEF Input, Dibit

LEMMA Symbols ==
    ASSUME NEW block
    PROVE  /\ TrellisEncoded(block) \in SUBSET (0..195)
           /\ \A s \in 0..48 : Extract(TrellisEncoded(block), 4 * Group(s), 4)
                                 = Word(Input(block, s - 1), Input(block, s))
<1> DEFINE W(s) == Word(Input(block, s - 1), Input(block, s))
           bits == TrellisEncoded(block)
<1>1. bits = UNION {Stored(W(s), 4 * Group(s), 4) : s \in 0..48}
  BY Zenon DEF TrellisEncoded, Input
<1>2. \A s \in 0..48 : W(s) \in SUBSET (0..3)
  BY Inputs, WordsApart
<1> HIDE DEF W, bits
<1>3. ASSUME NEW s \in 0..48
      PROVE  Stored(W(s), 4 * Group(s), 4)
               = {p \in 4 * Group(s)..4 * Group(s) + 3 : 4 * Group(s) + 3 - p \in W(s)}
  <2> DEFINE from == 4 * Group(s)
  <2>1. from \in Int
    BY Groups
  <2> HIDE DEF from
  <2>2. Stored(W(s), from, 4) = {p \in from..from + 4 - 1 : from + 4 - 1 - p \in W(s)}
    <3>1. W(s) \in SUBSET (0..4 - 1)
      BY <1>2
    <3> QED BY <2>1, <3>1, StoredBits
  <2>3. from + 4 - 1 = from + 3
    BY <2>1
  <2>4. Stored(W(s), from, 4) = {p \in from..from + 3 : from + 3 - p \in W(s)}
    BY ONLY <2>2, <2>3
  <2> QED BY <2>4, Zenon DEF from
<1>4. \A p : p \in bits <=> \E s \in 0..48 : /\ p \in 4 * Group(s)..4 * Group(s) + 3
                                             /\ 4 * Group(s) + 3 - p \in W(s)
  BY <1>1, <1>3
<1>5. bits \in SUBSET (0..195)
  <2> SUFFICES ASSUME NEW p \in bits PROVE p \in 0..195
    OBVIOUS
  <2>1. PICK s \in 0..48 : p \in 4 * Group(s)..4 * Group(s) + 3
    BY <1>4
  <2> QED BY <2>1, Groups, SMTT(30)
<1>6. ASSUME NEW s \in 0..48 PROVE Extract(bits, 4 * Group(s), 4) = W(s)
  <2> DEFINE from == 4 * Group(s)
  <2>1. from \in Int /\ from = 4 * Group(s) /\ Group(s) \in Int
    BY Groups
  <2> HIDE DEF from
  <2>2. Extract(bits, from, 4) = {b \in 0..3 : from + 3 - b \in bits}
    <3>1. Extract(bits, from, 4) = {b \in 0..4 - 1 : from + 4 - 1 - b \in bits}
      <4> DEFINE n == 4
      <4>1. n \in Nat
        OBVIOUS
      <4> HIDE DEF n
      <4>2. Extract(bits, from, n) = {b \in 0..n - 1 : from + n - 1 - b \in bits}
        BY ONLY <2>1, <4>1, ExtractBits
      <4> QED BY ONLY <4>2 DEF n
    <3>2. \A b : from + 4 - 1 - b = from + 3 - b
      BY <2>1
    <3> QED BY <3>1, <3>2
  <2>3. ASSUME NEW b \in 0..3 PROVE from + 3 - b \in bits <=> b \in W(s)
    <3>1. ASSUME NEW t \in 0..48, from + 3 - b \in 4 * Group(t)..4 * Group(t) + 3
          PROVE  t = s
      <4>1. Group(t) = Group(s)
        <5>1. Group(t) \in Int
          BY Groups
        <5>2. 4 * Group(t) <= from + 3 - b /\ from + 3 - b <= 4 * Group(t) + 3
          BY <2>1, <3>1, <5>1
        <5> QED BY ONLY <2>1, <5>1, <5>2, b \in 0..3
      <4> QED BY <4>1, Groups, SMTT(30)
    <3>2. from + 3 - b \in 4 * Group(s)..4 * Group(s) + 3 /\ 4 * Group(s) + 3 - (from + 3 - b) = b
      BY <2>1
    <3> QED BY <1>4, <3>1, <3>2, SMTT(30)
  <2> QED BY <1>2, <2>2, <2>3 DEF from
<1> QED BY <1>5, <1>6 DEF W, bits

LEMMA NextDibit ==
    ASSUME NEW block \in SUBSET (0..95), NEW s \in 0..47
    PROVE  Upto(block, s - 1) \cup DibitAt(Dibit(block, s), s) = Upto(block, s)
<1> DEFINE hi == 95 - 2 * s  lo == 94 - 2 * s  v == Dibit(block, s)
<1>1. v = (IF hi \in block THEN 2 ELSE 0) + (IF lo \in block THEN 1 ELSE 0)
  BY DEF Dibit
<1>2. DibitAt(v, s) = (IF v >= 2 THEN {hi} ELSE {}) \cup (IF v % 2 = 1 THEN {lo} ELSE {})
  BY DEF DibitAt
<1>3. (v >= 2 <=> hi \in block) /\ (v % 2 = 1 <=> lo \in block)
  BY <1>1
<1>4. \A b : b \in DibitAt(v, s) <=> b \in block /\ (b = hi \/ b = lo)
  BY <1>2, <1>3
<1>5. \A b \in block : b >= lo <=> b >= 94 - 2 * (s - 1) \/ b = hi \/ b = lo
  OBVIOUS
<1> HIDE DEF v
<1>6. \A b : b \in Upto(block, s) <=> b \in block /\ b >= lo
  BY DEF Upto
<1>7. \A b : b \in Upto(block, s - 1) <=> b \in block /\ b >= 94 - 2 * (s - 1)
  BY DEF Upto
<1> HIDE DEF hi, lo
<1>8. \A b : b \in Upto(block, s - 1) \cup DibitAt(v, s) <=> b \in Upto(block, s)
  BY <1>4, <1>5, <1>6, <1>7, Zenon
<1> QED BY <1>8 DEF v

\* One symbol of trellis_1_2_decode, and all of them.
Start == [state |-> 0, block |-> {}, ok |-> TRUE]
Spelt(bits, s, before) ==
    LET near == Nearest(before.state, Extract(bits, 4 * Group(s), 4))
        j == CHOOSE k \in near : TRUE
    IN  IF ~before.ok \/ near = {} THEN [before EXCEPT !.ok = FALSE]
        ELSE [state |-> j, ok |-> TRUE,
              block |-> IF s < 48 THEN before.block \cup DibitAt(j, s) ELSE before.block]
Trellis(after, bits) ==
    after = [s \in -1..48 |-> IF s = -1 THEN Start ELSE Spelt(bits, s, after[s - 1])]
After(block, s) ==
    [state |-> Input(block, s), ok |-> TRUE, block |-> IF s < 48 THEN Upto(block, s) ELSE block]

LEMMA SpeltBack ==
    ASSUME NEW block \in SUBSET (0..95), NEW s \in 0..48
    PROVE  Spelt(TrellisEncoded(block), s, After(block, s - 1)) = After(block, s)
<1> DEFINE before == After(block, s - 1)
           word == Extract(TrellisEncoded(block), 4 * Group(s), 4)
           near == Nearest(before.state, word)
           j == CHOOSE k \in near : TRUE
<1>1. before.state = Input(block, s - 1) /\ before.ok = TRUE /\ before.block = Upto(block, s - 1)
  BY DEF After
<1>2. near = {Input(block, s)}
  <2>1. word = Word(Input(block, s - 1), Input(block, s))
    BY Symbols
  <2>2. Input(block, s - 1) \in 0..3 /\ Input(block, s) \in 0..3
    BY Inputs
  <2>3. Nearest(Input(block, s - 1), Word(Input(block, s - 1), Input(block, s))) = {Input(block, s)}
    BY ONLY <2>2, WordsApart, Zenon
  <2> HIDE DEF before, word
  <2> QED BY <1>1, <2>1, <2>3
<1> HIDE DEF near
<1>3. j = Input(block, s) /\ near # {}
  BY <1>2
<1> HIDE DEF j
<1>4. Spelt(TrellisEncoded(block), s, before)
        = [state |-> j, ok |-> TRUE,
           block |-> IF s < 48 THEN before.block \cup DibitAt(j, s) ELSE before.block]
  BY <1>1, <1>3 DEF Spelt, near, j
<1>5. CASE s < 48
  <2>1. j = Dibit(block, s) /\ Upto(block, s - 1) \cup DibitAt(Dibit(block, s), s) = Upto(block, s)
    BY <1>3, <1>5, NextDibit DEF Input
  <2> QED BY <1>1, <1>3, <1>4, <1>5, <2>1 DEF After
<1>6. CASE s = 48
  <2>1. ~(s < 48) /\ \A b \in block : b >= 94 - 2 * (s - 1)
    BY <1>6
  <2>2. Upto(block, s - 1) = block
    BY <2>1, Zenon DEF Upto
  <2> QED BY <1>1, <1>3, <1>4, <2>1, <2>2 DEF After
<1> QED BY <1>5, <1>6

LEMMA TrellisBack ==
    ASSUME NEW block \in SUBSET (0..95)
    PROVE  /\ TrellisDecoded(TrellisEncoded(block)).ok
           /\ TrellisDecoded(TrellisEncoded(block)).block = block
<1> DEFINE bits == TrellisEncoded(block)
           f == [s \in -1..48 |-> After(block, s)]
           g == CHOOSE after : Trellis(after, bits)
<1>1. After(block, -1) = Start
  <2>1. -1 \notin 0..47 /\ -1 < 48 /\ \A b \in block : ~(b >= 94 - 2 * (-1))
    OBVIOUS
  <2>2. Upto(block, -1) = {} /\ Input(block, -1) = 0
    BY <2>1, Zenon DEF Upto, Input
  <2> QED BY <2>1, <2>2, Zenon DEF After, Start
<1>2. Trellis(f, bits)
  <2>1. \A s \in -1..48 : s = -1 \/ (s \in 0..48 /\ s # -1 /\ s - 1 \in -1..48)
    OBVIOUS
  <2>2. \A s \in -1..48 : f[s] = IF s = -1 THEN Start ELSE Spelt(bits, s, f[s - 1])
    <3> TAKE s \in -1..48
    <3>1. CASE s = -1
      BY <1>1, <3>1
    <3>2. CASE s # -1
      <4>1. s \in 0..48 /\ s - 1 \in -1..48
        BY <3>2
      <4>2. f[s - 1] = After(block, s - 1) /\ f[s] = After(block, s)
        BY <4>1
      <4> HIDE DEF f
      <4> QED BY <3>2, <4>1, <4>2, SpeltBack
    <3> QED BY <3>1, <3>2
  <2>3. f = [s \in -1..48 |-> f[s]]
    OBVIOUS
  <2> HIDE DEF f, bits
  <2> QED BY <2>2, <2>3, Zenon DEF Trellis
<1>3. Trellis(g, bits)
  BY <1>2
<1>4. TrellisDecoded(bits) = g[48]
  BY Zenon DEF TrellisDecoded, Trellis, Spelt, Start
<1> HIDE DEF g
<1>5. \A s \in -1..48 : g[s] = IF s = -1 THEN Start ELSE Spelt(bits, s, g[s - 1])
  BY <1>3, Zenon DEF Trellis
<1> DEFINE A == {k \in Nat : k <= 49 /\ g[k - 1] # After(block, k - 1)}
<1>6. A = {}
  <2> SUFFICES ASSUME A # {} PROVE FALSE
    OBVIOUS
  <2>1. A \in SUBSET Nat
    OBVIOUS
  <2> HIDE DEF A
  <2>2. PICK k \in A : \A m \in A : k <= m
    BY <2>1, Least
  <2>3. k \in Nat /\ k <= 49 /\ g[k - 1] # After(block, k - 1)
    BY DEF A
  <2>4. k # 0
    <3>1. g[-1] = Start
      BY <1>5
    <3>2. k = 0 => k - 1 = -1
      OBVIOUS
    <3> QED BY <1>1, <2>3, <3>1, <3>2
  <2> DEFINE s == k - 1
  <2>5. s \in 0..48 /\ s # -1 /\ s \in -1..48 /\ s \in Nat /\ s <= 49 /\ s = k - 1 /\ ~(k <= s)
    BY <2>3, <2>4
  <2> HIDE DEF s
  <2>6. s \notin A
    BY <2>2, <2>5
  <2>7. g[s - 1] = After(block, s - 1)
    BY <2>5, <2>6 DEF A
  <2>8. g[s] = Spelt(bits, s, After(block, s - 1))
    BY <1>5, <2>5, <2>7, Zenon
  <2>9. g[s] = After(block, s)
    BY <2>5, <2>8, SpeltBack
  <2> QED BY <2>3, <2>5, <2>9
<1>7. g[48] = After(block, 48)
  <2>1. \A k \in Nat : k <= 49 => g[k - 1] = After(block, k - 1)
    BY <1>6
  <2>2. 49 \in Nat /\ 49 <= 49 /\ 49 - 1 = 48
    OBVIOUS
  <2>3. g[49 - 1] = After(block, 49 - 1)
    BY ONLY <2>1, <2>2, Zenon
  <2> QED BY <2>2, <2>3
<1> QED BY <1>4, <1>7 DEF After
-----------------------------------------------------------------------------
(* A frame of blocks on its way.                                           *)

\* One, two or three blocks that pass the check, the last of them marked.
Marked(blocks, n) ==
    /\ blocks \in [1..n -> SUBSET (0..95)]
    /\ \A i \in 1..n : crc16(blocks[i]) = {} /\ (95 \in blocks[i] <=> i = n)

LEMMA TsbksMarked ==
    ASSUME NEW data \in Signals
    PROVE  \E n \in 1..3 : Len(data) = n /\ Marked(Tsbks(data), n)
<1>1. PICK n \in 1..3 : data \in [1..n -> SUBSET (16..94)]
  BY AirAssumption
<1>2. Len(data) = n /\ DOMAIN data = 1..n
  BY <1>1
<1> DEFINE D(i) == data[i] \cup (IF i = n THEN {95} ELSE {})
<1>3. Tsbks(data) = [i \in 1..n |-> construct_tsbk(D(i))]
  BY <1>2, Zenon DEF Tsbks
<1>4. \A i \in 1..n : D(i) \in SUBSET (16..95) /\ (95 \in D(i) <=> i = n)
  <2> TAKE i \in 1..n
  <2>1. data[i] \in SUBSET (16..94)
    BY <1>1
  <2>2. 16..94 \in SUBSET (16..95) /\ 95 \in 16..95 /\ 95 \notin 16..94
    OBVIOUS
  <2> QED BY ONLY <2>1, <2>2
<1> HIDE DEF D
<1>5. \A i \in 1..n : /\ construct_tsbk(D(i)) \in SUBSET (0..95)
                      /\ crc16(construct_tsbk(D(i))) = {}
                      /\ 95 \in construct_tsbk(D(i)) <=> i = n
  BY <1>4, CheckedBlock, Zenon
<1>6. /\ Tsbks(data) \in [1..n -> SUBSET (0..95)]
      /\ \A i \in 1..n : Tsbks(data)[i] = construct_tsbk(D(i))
  <2> DEFINE c(i) == construct_tsbk(D(i))
             S == SUBSET (0..95)
             P == 1..n
  <2>1. \A i \in P : c(i) \in S
    BY <1>5, Zenon
  <2>2. Tsbks(data) = [i \in P |-> c(i)]
    BY <1>3, Zenon
  <2> HIDE DEF c, S, P
  <2>3. Tsbks(data) \in [P -> S] /\ \A i \in P : Tsbks(data)[i] = c(i)
    BY ONLY <2>1, <2>2
  <2> QED BY <2>3, Zenon DEF c, S, P
<1>7. Marked(Tsbks(data), n)
  BY <1>5, <1>6, ZenonT(40) DEF Marked
<1> QED BY <1>2, <1>7, Zenon

\* Where the bits of a block that no noise hit lie, there is what was sent.
CleanIn(i, bits) == \A b \in 0..195 : FrameBit(BlockAt(i) + b) \notin bits

LEMMA BlockArrives ==
    ASSUME NEW n \in 1..3, NEW blocks, Marked(blocks, n), NEW bits \in SUBSET Nat,
           NEW i \in 1..n, CleanIn(i, bits)
    PROVE  {b \in 0..195 : BlockAt(i) + b \in WithoutStatus(SymDiff(TrunkingFrame(blocks), bits))}
             = TrellisEncoded(blocks[i])
<1> DEFINE word == bch_64_16_23_encode(Nac, 7)
           Bits(x) == {FrameBit(BlockAt(x) + b) : b \in TrellisEncoded(blocks[x])}
           frame == SymDiff(TrunkingFrame(blocks), bits)
<1>1. DOMAIN blocks = 1..n
  BY DEF Marked
<1>2. TrunkingFrame(blocks) = InFrame(word) \cup UNION {Bits(x) : x \in 1..n}
  BY <1>1, Zenon DEF TrunkingFrame
<1>3. \A x \in 1..n : BlockAt(x) \in Nat /\ BlockAt(x) = 112 + 196 * (x - 1)
  BY DEF BlockAt
<1>4. \A x \in 1..n : TrellisEncoded(blocks[x]) \in SUBSET (0..195)
  BY Symbols, Zenon
<1>5. word \in SUBSET (0..63)
  BY NidWord
<1> HIDE DEF word
<1>6. \A p \in InFrame(word) : \E k \in 0..63 : p = FrameBit(48 + k)
  BY <1>5 DEF InFrame, NidBits
<1>7. TrunkingFrame(blocks) \in SUBSET Nat
  <2>1. InFrame(word) \in SUBSET Nat
    BY <1>5, NidApart, Zenon
  <2>2. \A x \in 1..n : Bits(x) \in SUBSET Nat
    <3>1. \A x \in 1..n : \A b \in TrellisEncoded(blocks[x]) : BlockAt(x) + b \in Nat
      BY <1>3, <1>4, SMTT(30)
    <3> TAKE x \in 1..n
    <3>2. \A b \in TrellisEncoded(blocks[x]) : FrameBit(BlockAt(x) + b) \in Nat
      BY ONLY <3>1, x \in 1..n, FrameBits, Zenon
    <3> QED BY <3>2
  <2> HIDE DEF Bits
  <2> QED BY <1>2, <2>1, <2>2
<1>8. frame \in SUBSET Nat
  BY <1>7 DEF SymDiff
<1>9. ASSUME NEW b \in 0..195
      PROVE  BlockAt(i) + b \in WithoutStatus(frame) <=> b \in TrellisEncoded(blocks[i])
  <2> DEFINE m == BlockAt(i) + b
  <2>1. m \in Nat /\ m = 112 + 196 * (i - 1) + b /\ i \in 1..n
    BY <1>3
  <2>2. FrameBit(m) \notin bits
    BY DEF CleanIn
  <2>3. m \in WithoutStatus(frame) <=> FrameBit(m) \in frame
    <3> HIDE DEF m, frame
    <3> QED BY <1>8, <2>1, WithoutStatusBit, Zenon
  <2>4. FrameBit(m) \in frame <=> FrameBit(m) \in TrunkingFrame(blocks)
    <3> HIDE DEF m
    <3> QED BY <2>2 DEF SymDiff
  <2>5. b \in TrellisEncoded(blocks[i]) => FrameBit(m) \in Bits(i)
    OBVIOUS
  <2>6. ASSUME FrameBit(m) \in InFrame(word) PROVE FALSE
    <3>1. PICK k \in 0..63 : FrameBit(m) = FrameBit(48 + k)
      BY <1>6, <2>6
    <3>2. 48 + k \in Nat
      OBVIOUS
    <3>3. m = 48 + k
      BY ONLY <2>1, <3>1, <3>2, FrameBitInjective, Zenon
    <3> HIDE DEF m
    <3> QED BY <2>1, <3>3
  <2>7. ASSUME NEW x \in 1..n, FrameBit(m) \in Bits(x) PROVE x = i /\ b \in TrellisEncoded(blocks[i])
    <3>1. PICK c \in TrellisEncoded(blocks[x]) : FrameBit(m) = FrameBit(BlockAt(x) + c)
      BY <2>7
    <3>2. c \in 0..195 /\ BlockAt(x) = 112 + 196 * (x - 1)
      BY <1>3, <1>4, SMTT(30)
    <3>3. BlockAt(x) + c \in Nat
      BY <3>2
    <3>4. m = BlockAt(x) + c
      <4> HIDE DEF m
      <4> QED BY ONLY <2>1, <3>1, <3>3, FrameBitInjective, Zenon
    <3> HIDE DEF m
    <3>5. 196 * (i - 1) + b = 196 * (x - 1) + c
      BY <2>1, <3>2, <3>4
    <3>6. x = i
      BY ONLY <3>2, <3>5, n \in 1..3, i \in 1..n, x \in 1..n, b \in 0..195
    <3>7. b = c
      BY <3>2, <3>5, <3>6
    <3> QED BY <3>1, <3>6, <3>7
  <2> HIDE DEF m, Bits, frame
  <2>8. FrameBit(m) \in TrunkingFrame(blocks) <=> b \in TrellisEncoded(blocks[i])
    BY <1>2, <2>5, <2>6, <2>7
  <2> QED BY <2>3, <2>4, <2>8 DEF m
<1> QED BY <1>4, <1>9 DEF frame

\* What AssembleTrunking passes on of a frame.
Passed(size, frame) ==
    Found(size, WithoutStatus(frame), 1) \o Found(size, WithoutStatus(frame), 2)
    \o Found(size, WithoutStatus(frame), 3)

\* A clean block is found at its place, by the assembler and by the dissector.
LEMMA BlockFound ==
    ASSUME NEW n \in 1..3, NEW blocks, Marked(blocks, n), NEW bits \in SUBSET Nat,
           NEW i \in 1..n, CleanIn(i, bits)
    PROVE  LET bv1 == WithoutStatus(SymDiff(TrunkingFrame(blocks), bits))
           IN  /\ Found(BlockSizes[n], bv1, i) = << blocks[i] >>
               /\ Block(bv1, i).ok /\ Block(bv1, i).block = blocks[i]
<1> DEFINE bv1 == WithoutStatus(SymDiff(TrunkingFrame(blocks), bits))
           heardBits == {b \in 0..195 : BlockAt(i) + b \in bv1}
           d == TrellisDecoded(heardBits)
<1>1. heardBits = TrellisEncoded(blocks[i])
  BY BlockArrives
<1>2. blocks[i] \in SUBSET (0..95) /\ crc16(blocks[i]) = {}
  BY DEF Marked
<1>3. d.ok /\ d.block = blocks[i]
  BY ONLY <1>1, <1>2, TrellisBack, ZenonT(40)
<1>4. BlockSizes[n] >= BlockSizes[i]
  BY DEF BlockSizes
<1>5. BitOffset(i) = BlockAt(i)
  BY DEF BitOffset, BlockAt
<1>6. Block(bv1, i) = d
  BY <1>5, Zenon DEF Block
<1>7. Found(BlockSizes[n], bv1, i) = tsbk_deinterleave(heardBits)
  BY <1>4, Zenon DEF Found
<1> HIDE DEF heardBits, bv1
<1>8. tsbk_deinterleave(heardBits) = << blocks[i] >>
  BY <1>2, <1>3, Zenon DEF tsbk_deinterleave
<1> QED BY <1>3, <1>6, <1>7, <1>8 DEF bv1

LEMMA FoundOne ==
    ASSUME NEW size, NEW bv1, NEW i
    PROVE  Found(size, bv1, i) = << >> \/ \E x : Found(size, bv1, i) = << x >>
BY DEF Found, tsbk_deinterleave

LEMMA AmongThree ==
    ASSUME NEW X, NEW a \in Seq(X), NEW b \in Seq(X), NEW c \in Seq(X), NEW x,
           a = << x >> \/ b = << x >> \/ c = << x >>
    PROVE  x \in ToSet(a \o b \o c)
<1> DEFINE s == a \o b \o c
<1>1. /\ a \o b \in Seq(X) /\ Len(a \o b) = Len(a) + Len(b)
      /\ \A i \in 1..Len(a) : (a \o b)[i] = a[i]
      /\ \A i \in 1..Len(b) : (a \o b)[Len(a) + i] = b[i]
  BY ConcatProperties
<1> DEFINE ab == a \o b
<1> HIDE DEF ab
<1>2. /\ s \in Seq(X) /\ Len(s) = Len(a) + Len(b) + Len(c)
      /\ \A i \in 1..Len(a) : s[i] = a[i]
      /\ \A i \in 1..Len(b) : s[Len(a) + i] = b[i]
      /\ \A i \in 1..Len(c) : s[Len(a) + Len(b) + i] = c[i]
  BY <1>1, ConcatProperties DEF ab
<1> HIDE DEF s
<1>3. Len(a) \in Nat /\ Len(b) \in Nat /\ Len(c) \in Nat /\ DOMAIN s = 1..Len(s)
  BY <1>2, LenProperties
<1>4. \E k \in 1..Len(s) : s[k] = x
  <2>1. CASE a = << x >>
    <3>1. Len(a) = 1 /\ a[1] = x
      BY <2>1
    <3> QED BY <1>2, <1>3, <3>1
  <2>2. CASE b = << x >>
    <3>1. Len(b) = 1 /\ b[1] = x
      BY <2>2
    <3>2. s[Len(a) + 1] = x /\ Len(a) + 1 \in 1..Len(s)
      BY <1>2, <1>3, <3>1
    <3> QED BY <3>2
  <2>3. CASE c = << x >>
    <3>1. Len(c) = 1 /\ c[1] = x
      BY <2>3
    <3>2. s[Len(a) + Len(b) + 1] = x /\ Len(a) + Len(b) + 1 \in 1..Len(s)
      BY <1>2, <1>3, <3>1
    <3> QED BY <3>2
  <2> QED BY <2>1, <2>2, <2>3
<1> QED BY <1>3, <1>4 DEF ToSet, s

LEMMA BlockPassed ==
    ASSUME NEW n \in 1..3, NEW blocks, Marked(blocks, n), NEW bits \in SUBSET Nat,
           NEW i \in 1..n, CleanIn(i, bits)
    PROVE  blocks[i] \in ToSet(Passed(BlockSizes[n], SymDiff(TrunkingFrame(blocks), bits)))
<1> DEFINE bv1 == WithoutStatus(SymDiff(TrunkingFrame(blocks), bits))
           F(k) == Found(BlockSizes[n], bv1, k)
<1>1. F(i) = << blocks[i] >>
  BY BlockFound, Zenon
<1>2. \A k : F(k) = << >> \/ \E x : F(k) = << x >>
  BY FoundOne, Zenon
<1>3. Passed(BlockSizes[n], SymDiff(TrunkingFrame(blocks), bits)) = F(1) \o F(2) \o F(3)
  BY Zenon DEF Passed
<1> HIDE DEF F, bv1
<1> DEFINE X == UNION {ToSet(F(k)) : k \in 1..3}
<1>4. ASSUME NEW k \in 1..3 PROVE F(k) \in Seq(X)
  <2>1. ToSet(F(k)) \in SUBSET X
    OBVIOUS
  <2> HIDE DEF X
  <2>2. CASE F(k) = << >>
    BY <2>2
  <2>3. ASSUME NEW x, F(k) = << x >> PROVE F(k) \in Seq(X)
    <3>1. x \in ToSet(F(k))
      BY <2>3 DEF ToSet
    <3>2. x \in X
      BY <2>1, <3>1
    <3> QED BY <2>3, <3>2
  <2> QED BY <1>2, <2>2, <2>3
<1>5. i = 1 \/ i = 2 \/ i = 3
  OBVIOUS
<1>6. F(1) = << blocks[i] >> \/ F(2) = << blocks[i] >> \/ F(3) = << blocks[i] >>
  BY <1>1, <1>5
<1>7. F(1) \in Seq(X) /\ F(2) \in Seq(X) /\ F(3) \in Seq(X)
  BY <1>4
<1> HIDE DEF X
<1>8. blocks[i] \in ToSet(F(1) \o F(2) \o F(3))
  BY ONLY <1>6, <1>7, AmongThree, Zenon
<1> QED BY <1>3, <1>8

\* The dissector reads no block that is not there.
LEMMA ReadableBlocks ==
    ASSUME NEW n \in 1..3, NEW i \in 1..3
    PROVE  BytesLeft(BlockSizes[n], BitOffset(i)) >= 25 <=> i <= n
<1>1. /\ BlockSizes[1] = 360 /\ BlockSizes[2] = 576 /\ BlockSizes[3] = 720
  BY DEF BlockSizes
<1>2. /\ ExtractedLength(360) = 44 /\ ExtractedLength(576) = 70 /\ ExtractedLength(720) = 88
  BY DEF ExtractedLength
<1>3. BitOffset(1) \div 8 = 14 /\ BitOffset(2) \div 8 = 38 /\ BitOffset(3) \div 8 = 63
  BY DEF BitOffset
<1>4. (n = 1 \/ n = 2 \/ n = 3) /\ (i = 1 \/ i = 2 \/ i = 3)
  OBVIOUS
<1>5. ExtractedLength(BlockSizes[n]) = IF n = 1 THEN 44 ELSE IF n = 2 THEN 70 ELSE 88
  BY <1>1, <1>2, <1>4
<1>6. BitOffset(i) \div 8 = IF i = 1 THEN 14 ELSE IF i = 2 THEN 38 ELSE 63
  BY <1>3, <1>4
<1> QED BY <1>4, <1>5, <1>6 DEF BytesLeft

LEMMA LeastOfMarked ==
    ASSUME NEW S \in SUBSET (1..3), S # {}
    PROVE  Min(S) \in S /\ \A x \in S : Min(S) <= x
<1>1. S \in SUBSET Nat
  OBVIOUS
<1>2. \E m \in S : \A x \in S : m <= x
  BY ONLY <1>1, S # {}, Least
<1> QED BY <1>2 DEF Min

\* What build_tsdu_tvb shows of a frame of n blocks: not more than there are,
\* each clean one at its place, and all of them if all are clean.
Shows(blocks, n, bits, shows) ==
    /\ Len(shows) <= n
    /\ \A i \in 1..n : CleanIn(i, bits) /\ i \in DOMAIN shows => shows[i] = blocks[i]
    /\ (\A i \in 1..n : CleanIn(i, bits)) => shows = blocks

LEMMA BlocksShown ==
    ASSUME NEW n \in 1..3, NEW blocks, Marked(blocks, n), NEW bits \in SUBSET Nat
    PROVE  Shows(blocks, n, bits,
                 build_tsdu_tvb(BlockSizes[n],
                                WithoutStatus(SymDiff(TrunkingFrame(blocks), bits))))
<1> DEFINE tvb == WithoutStatus(SymDiff(TrunkingFrame(blocks), bits))
           size == BlockSizes[n]
           B(i) == Block(tvb, i).block
           last == {i \in 1..3 : 95 \in B(i)}
           readable == \A i \in 1..Min(last) : Readable(size, tvb, i)
           shows == build_tsdu_tvb(size, tvb)
<1>1. \A i \in 1..n : CleanIn(i, bits) => Block(tvb, i).ok /\ B(i) = blocks[i]
  BY BlockFound
<1>2. shows = IF last # {} /\ readable THEN [i \in 1..Min(last) |-> B(i)] ELSE << >>
  BY Zenon DEF build_tsdu_tvb
<1>3. \A i \in 1..3 : Readable(size, tvb, i) <=> i <= n /\ Block(tvb, i).ok
  BY ReadableBlocks DEF Readable
<1>4. last # {} => /\ Min(last) \in 1..3 /\ Min(last) \in last
                   /\ \A x \in last : Min(last) <= x
  <2>1. last \in SUBSET (1..3)
    OBVIOUS
  <2> HIDE DEF last
  <2> QED BY <2>1, LeastOfMarked
<1>5. n \in 1..n /\ n \in 1..3 /\ \A i \in 1..n : i \in 1..3
  OBVIOUS
<1>6. \A i \in 1..3 : i \in last <=> 95 \in B(i)
  OBVIOUS
<1> HIDE DEF tvb, size, B, last, shows
<1>7. last # {} /\ readable => Min(last) <= n
  <2> HAVE last # {} /\ readable
  <2>1. Min(last) \in 1..Min(last) /\ Min(last) \in 1..3
    BY <1>4
  <2> QED BY <1>3, <2>1
<1>8. CASE last # {} /\ readable
  <2> DEFINE m == Min(last)
  <2>1. shows = [i \in 1..m |-> B(i)] /\ m \in 1..3 /\ m <= n
    BY <1>2, <1>4, <1>7, <1>8
  <2>2. Len(shows) = m /\ DOMAIN shows = 1..m
    BY <2>1
  <2>3. \A i \in 1..n : CleanIn(i, bits) /\ i \in DOMAIN shows => shows[i] = blocks[i]
    BY <1>1, <2>1, <2>2
  <2>4. ASSUME \A i \in 1..n : CleanIn(i, bits) PROVE shows = blocks
    <3>1. \A i \in 1..n : B(i) = blocks[i]
      BY <1>1, <2>4
    <3>2. m \in last /\ m \in 1..n
      BY <1>4, <1>8, <2>1
    <3>3. 95 \in blocks[m]
      BY <1>6, <2>1, <3>1, <3>2
    <3>4. m = n
      BY <3>2, <3>3 DEF Marked
    <3>5. blocks = [i \in 1..n |-> blocks[i]]
      BY DEF Marked
    <3> HIDE DEF m
    <3> QED BY <2>1, <3>1, <3>4, <3>5
  <2>5. Len(shows) <= n
    BY <2>1, <2>2
  <2>6. Shows(blocks, n, bits, shows)
    BY ONLY <2>3, <2>4, <2>5, Zenon DEF Shows
  <2> QED BY <2>6 DEF shows, size, tvb
<1>9. CASE ~(last # {} /\ readable)
  <2>1. shows = << >> /\ Len(shows) = 0 /\ DOMAIN shows = {}
    BY <1>2, <1>9
  <2>2. ASSUME \A i \in 1..n : CleanIn(i, bits) PROVE FALSE
    <3>1. \A i \in 1..n : B(i) = blocks[i] /\ Block(tvb, i).ok
      BY <1>1, <2>2
    <3>2. n \in last
      BY <1>5, <1>6, <3>1 DEF Marked
    <3>3. Min(last) <= n /\ Min(last) \in 1..3
      BY <1>4, <3>2
    <3>4. \A i \in 1..Min(last) : i \in 1..n /\ i <= n /\ i \in 1..3
      BY <3>3
    <3>5. readable
      BY <1>3, <3>1, <3>4
    <3> QED BY <1>9, <3>2, <3>5
  <2>3. Len(shows) <= n /\ \A i \in 1..n : i \notin DOMAIN shows
    BY <2>1
  <2>4. Shows(blocks, n, bits, shows)
    BY ONLY <2>2, <2>3, Zenon DEF Shows
  <2> QED BY <2>4 DEF shows, size, tvb
<1> QED BY <1>8, <1>9

-----------------------------------------------------------------------------
(* The inductive invariant of a frame of blocks.                           *)

BlocksInv ==
    "blocks" \in DOMAIN sent =>
        /\ sent.duid = 7
        /\ \E n \in 1..3 : Marked(sent.blocks, n) /\ sent.size = BlockSizes[n]
        /\ air = SymDiff(TrunkingFrame(sent.blocks), noise)
        /\ stage = "assembled" /\ nid.duid = 7 => msgs = Passed(sent.size, air)
        /\ stage = "dissected" => shown = build_tsdu_tvb(sent.size, WithoutStatus(air))

LEMMA BlocksInductive ==
    ASSUME VoiceInv, BlocksInv, [Next]_vars
    PROVE  BlocksInv'
<1>1. \A frame : SymDiff(frame, {}) = frame
  BY DEF SymDiff
<1>2. ASSUME NEW who \in {"vocoder", "radio"}, NEW duid \in {5, 10}, NEW u \in Talks,
             SendVoice(who, duid, u)
      PROVE  BlocksInv'
  <2>1. "blocks" \notin DOMAIN sent'
    BY <1>2 DEF SendVoice
  <2> QED BY <2>1 DEF BlocksInv
<1>3. ASSUME NEW data \in Signals, SendTrunking(data) PROVE BlocksInv'
  <2>1. /\ sent' = [from |-> "p25craft", duid |-> 7, blocks |-> Tsbks(data),
                    size |-> BlockSizes[Len(data)]]
        /\ stage = "idle" /\ stage' = "sent" /\ noise' = noise
        /\ air' = TrunkingFrame(Tsbks(data))
    BY <1>3, Zenon DEF SendTrunking
  <2>2. /\ sent.duid' = 7 /\ sent.blocks' = Tsbks(data) /\ sent.size' = BlockSizes[Len(data)]
    BY <2>1
  <2>3. noise' = {}
    BY <2>1 DEF VoiceInv
  <2>4. air' = SymDiff(TrunkingFrame(sent.blocks'), noise')
    BY <1>1, <2>1, <2>2, <2>3
  <2>5. \E n \in 1..3 : Marked(sent.blocks', n) /\ sent.size' = BlockSizes[n]
    BY <2>2, TsbksMarked
  <2> QED BY <2>1, <2>2, <2>4, <2>5 DEF BlocksInv
<1>4. ASSUME NEW d \in Disturbances, Arrive(d) PROVE BlocksInv'
  <2>1. /\ stage = "sent" /\ stage' = "arrived" /\ noise' = d /\ air' = SymDiff(air, d)
        /\ sent' = sent
    BY <1>4 DEF Arrive
  <2>2. noise = {}
    BY <2>1 DEF VoiceInv
  <2>3. "blocks" \in DOMAIN sent => air' = SymDiff(TrunkingFrame(sent.blocks), noise')
    BY <1>1, <2>1, <2>2 DEF BlocksInv
  <2> QED BY <2>1, <2>3 DEF BlocksInv
<1>5. ASSUME RxNid PROVE BlocksInv'
  <2>1. /\ stage' \in {"framed", "refused"}
        /\ sent' = sent /\ air' = air /\ noise' = noise
    BY <1>5 DEF RxNid
  <2> QED BY <2>1 DEF BlocksInv
<1>6. ASSUME AssembleVoice PROVE BlocksInv'
  <2>1. /\ nid' = nid /\ nid.duid # 7 /\ stage' = "assembled"
        /\ sent' = sent /\ air' = air /\ noise' = noise
    BY <1>6 DEF AssembleVoice
  <2> QED BY <2>1 DEF BlocksInv
<1>7. ASSUME AssembleTrunking PROVE BlocksInv'
  <2>1. /\ msgs' = Passed(sent.size, air) /\ stage' = "assembled"
        /\ sent' = sent /\ air' = air /\ noise' = noise
    BY <1>7, Zenon DEF AssembleTrunking, Passed
  <2> QED BY <2>1 DEF BlocksInv
<1>8. ASSUME RxLine PROVE BlocksInv'
  <2>1. /\ stage' = stage /\ sent' = sent /\ air' = air /\ noise' = noise
        /\ nid' = nid /\ msgs' = msgs /\ shown' = shown
    BY <1>8 DEF RxLine
  <2> QED BY <2>1 DEF BlocksInv
<1>9. ASSUME Dissect PROVE BlocksInv'
  <2>1. /\ stage' = "dissected"
        /\ sent.duid = 7 => shown' = build_tsdu_tvb(sent.size, WithoutStatus(air))
        /\ sent' = sent /\ air' = air /\ noise' = noise
    BY <1>9 DEF Dissect
  <2> QED BY <2>1 DEF BlocksInv
<1>10. ASSUME UNCHANGED vars PROVE BlocksInv'
  BY <1>10 DEF vars, BlocksInv
<1> QED BY <1>2, <1>3, <1>4, <1>5, <1>6, <1>7, <1>8, <1>9, <1>10 DEF Next

\* Whatever the noise, every block whose bits all arrived as sent is passed on
\* by the assembler and shown at its place by the dissector, which shows all of
\* them if all are clean and never more than were sent
\* (repeater_p25_frame_assembler.cc:126, packet-p25cai.c:1342).
THEOREM CleanBlocksKeptAlways == Spec => []CleanBlocksKept
<1>1. Init => BlocksInv
  BY DEF Init, BlocksInv, Idle
<1>2. VoiceInv /\ BlocksInv => CleanBlocksKept
  <2> SUFFICES ASSUME VoiceInv, BlocksInv, "blocks" \in DOMAIN sent PROVE CleanBlocksKept
    BY DEF CleanBlocksKept
  <2>1. sent.duid = 7 /\ air = SymDiff(TrunkingFrame(sent.blocks), noise)
    BY DEF BlocksInv
  <2>2. PICK n \in 1..3 : Marked(sent.blocks, n) /\ sent.size = BlockSizes[n]
    BY DEF BlocksInv
  <2>3. noise \in SUBSET Nat
    BY DEF VoiceInv
  <2>4. DOMAIN sent.blocks = 1..n /\ Len(sent.blocks) = n
    BY <2>2 DEF Marked
  <2>5. CleanBlocks = {i \in 1..n : CleanIn(i, noise)}
    BY <2>4 DEF CleanBlocks, CleanIn
  <2>6. ASSUME stage = "assembled", nid.duid = sent.duid, NEW i \in CleanBlocks
        PROVE  sent.blocks[i] \in ToSet(msgs)
    <3>1. msgs = Passed(BlockSizes[n], SymDiff(TrunkingFrame(sent.blocks), noise))
      BY <2>1, <2>2, <2>6 DEF BlocksInv
    <3>2. i \in 1..n /\ CleanIn(i, noise)
      BY <2>5
    <3> QED BY ONLY <2>2, <2>3, <3>1, <3>2, BlockPassed, n \in 1..3
  <2>7. ASSUME stage = "dissected"
        PROVE  /\ Len(shown) <= Len(sent.blocks)
               /\ \A i \in CleanBlocks \cap DOMAIN shown : shown[i] = sent.blocks[i]
               /\ CleanBlocks = DOMAIN sent.blocks => shown = sent.blocks
    <3>1. shown = build_tsdu_tvb(BlockSizes[n],
                                 WithoutStatus(SymDiff(TrunkingFrame(sent.blocks), noise)))
      BY <2>1, <2>2, <2>7 DEF BlocksInv
    <3>2. Shows(sent.blocks, n, noise, shown)
      BY ONLY <2>2, <2>3, <3>1, BlocksShown, n \in 1..3
    <3> QED BY <2>4, <2>5, <3>2 DEF Shows
  <2> QED BY <2>6, <2>7 DEF CleanBlocksKept
<1>3. VoiceInv /\ VoiceInv' /\ BlocksInv /\ [Next]_vars => BlocksInv'
  BY BlocksInductive
<1> QED BY <1>1, <1>2, <1>3, VoiceTraced, PTL DEF Spec
=============================================================================
