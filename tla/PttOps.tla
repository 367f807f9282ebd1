------------------------------- MODULE PttOps -------------------------------
(***************************************************************************)
(* Push-to-talk streams: sequences over "key", "unkey" and other items.    *)
(* A listener who has heard s is inside a transmission or not; s is legal  *)
(* when KEY comes exactly where a transmission is not open, so that KEY    *)
(* and UNKEY alternate and everything else lies between the two.           *)
(***************************************************************************)
EXTENDS Integers, Sequences

\* Inside a transmission just before item i, and after the last item, when s
\* is heard by a listener who starts inside one iff k.
OpenBefore(k, s, i) == IF i = 1 THEN k ELSE s[i - 1] # "unkey"
OpenAfter(k, s) == OpenBefore(k, s, Len(s) + 1)

Legal(k, s) == \A i \in 1..Len(s) : (s[i] = "key") <=> ~OpenBefore(k, s, i)
=============================================================================
