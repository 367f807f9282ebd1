----------------------------- MODULE PttStream ------------------------------
(***************************************************************************)
(* What a push-to-talk source promises its listener, whatever happens on   *)
(* the radio side: the listener hears transmissions, each opened by one    *)
(* KEY, closed by one UNKEY, with audio only in between.  A source may     *)
(* hand over several items at once and may go away at any time.            *)
(***************************************************************************)
EXTENDS PttOps

CONSTANTS
    AudioKinds, \* the kinds of item that are neither of the two below
    MaxBurst   \* the most items handed over in one step

VARIABLES
    items,     \* handed over and not yet heard
    heard      \* the listener is inside a transmission

pttVars == <<items, heard>>

Item == {"key", "unkey"} \cup AudioKinds

Bursts == UNION {[1..n -> Item] : n \in 0..MaxBurst}

PttInit == items = << >> /\ heard = FALSE

\* The source hands over a burst that continues the stream legally.
Emit ==
    \E b \in Bursts :
        /\ Legal(OpenAfter(heard, items), b)
        /\ items' = items \o b
        /\ UNCHANGED heard

Hear ==
    /\ items # << >>
    /\ heard' = (Head(items) # "unkey")
    /\ items' = Tail(items)

\* The source closes: what it handed over is gone with it.
Close == items' = << >> /\ heard' = FALSE

PttNext == Emit \/ Hear \/ Close

PttSpec == PttInit /\ [][PttNext]_pttVars
=============================================================================
