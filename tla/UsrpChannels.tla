---------------------------- MODULE UsrpChannels ----------------------------
(***************************************************************************)
(* The table of channels in chan_usrp.c: usrp_channels[MAX_CHANS], filled  *)
(* by usrp_request and emptied by usrp_hangup on whatever Asterisk threads *)
(* call them, without a lock ("TODO: do we need locking for this?", lines  *)
(* 282 and 306), and listed by "usrp show".  Each thread goes through the  *)
(* table one entry at a time; malloc reuses what was freed.                *)
(***************************************************************************)
EXTENDS Naturals, FiniteSets

CONSTANTS
    Threads,    \* Asterisk threads that dial and hang up
    MAX_CHANS,
    Pvts,       \* memory blocks for struct usrp_pvt
    Ports,      \* the local ports the dial strings name
    NULL

ASSUME ChannelsAssumption == MAX_CHANS \in Nat \ {0} /\ NULL \notin Pvts

Slots == 0..MAX_CHANS - 1

VARIABLES
    usrp_channels,
    pc, p, slot,   \* of each thread: where it is, its pvt, its loop variable
    allocated,     \* the blocks malloc has handed out
    port,          \* of each block, the port its socket is bound to
    bound,         \* the ports with a bound socket, leaked ones too
    up,            \* the channels Asterisk has: ast->tech_pvt
    full,          \* the blocks refused for want of an entry
    raced,         \* two requests were between their scan and their store
    failed         \* ast_channel_alloc failed once

vars == <<usrp_channels, pc, p, slot, allocated, port, bound, up, full, raced, failed>>

Init ==
    /\ usrp_channels = [i \in Slots |-> NULL]
    /\ pc = [t \in Threads |-> "idle"]
    /\ p = [t \in Threads |-> NULL] /\ slot = [t \in Threads |-> 0]
    /\ allocated = {} /\ port = [b \in Pvts |-> NULL] /\ bound = {}
    /\ up = {} /\ full = {}
    /\ raced = FALSE /\ failed = FALSE

Goto(t, label) == pc' = [pc EXCEPT ![t] = label]

-----------------------------------------------------------------------------
(* usrp_request: usrp_alloc, then usrp_new.                                *)

\* malloc, host, socket and bind.  Up to here a failure gives the block back,
\* and a port that could not be bound stays as it was.
Request(t) ==
    /\ pc[t] = "idle"
    /\ \E b \in Pvts \ allocated, q \in Ports \ bound :
          /\ allocated' = allocated \cup {b} /\ bound' = bound \cup {q}
          /\ port' = [port EXCEPT ![b] = q]
          /\ p' = [p EXCEPT ![t] = b] /\ slot' = [slot EXCEPT ![t] = 0]
    /\ Goto(t, "scan")
    /\ raced' = (raced \/ \E u \in Threads \ {t} : pc[u] \in {"scan", "store"})
    /\ UNCHANGED <<usrp_channels, up, full, failed>>

Scan(t) ==
    /\ pc[t] = "scan" /\ slot[t] < MAX_CHANS
    /\ IF usrp_channels[slot[t]] = NULL
       THEN Goto(t, "store") /\ UNCHANGED slot
       ELSE slot' = [slot EXCEPT ![t] = @ + 1] /\ UNCHANGED pc
    /\ UNCHANGED <<usrp_channels, p, allocated, port, bound, up, full, raced, failed>>

\* No entry: NULL is returned, and the block and its socket with it lost.
NoSlot(t) ==
    /\ pc[t] = "scan" /\ slot[t] = MAX_CHANS
    /\ Goto(t, "idle")
    /\ full' = full \cup {p[t]}
    /\ UNCHANGED <<usrp_channels, p, slot, allocated, port, bound, up, raced, failed>>

Store(t) ==
    /\ pc[t] = "store"
    /\ usrp_channels' = [usrp_channels EXCEPT ![slot[t]] = p[t]]
    /\ Goto(t, "new")
    /\ UNCHANGED <<p, slot, allocated, port, bound, up, full, raced, failed>>

\* usrp_destroy
Destroy_NoClose(b) == allocated' = allocated \ {b} /\ UNCHANGED bound
Destroy(b) == allocated' = allocated \ {b} /\ bound' = bound \ {port[b]}

New(t) ==
    /\ pc[t] = "new"
    /\ Goto(t, "idle")
    /\ \/ up' = up \cup {p[t]} /\ UNCHANGED <<allocated, bound, failed>>
       \/ Destroy(p[t]) /\ failed' = TRUE /\ UNCHANGED up
    /\ UNCHANGED <<usrp_channels, p, slot, port, full, raced>>

-----------------------------------------------------------------------------
(* usrp_hangup, once per channel: Asterisk gives it up first.              *)

Hangup_Keeps(t) ==
    /\ pc[t] = "idle"
    /\ \E b \in up : p' = [p EXCEPT ![t] = b]
    /\ slot' = [slot EXCEPT ![t] = 0]
    /\ Goto(t, "find")
    /\ UNCHANGED <<usrp_channels, allocated, port, bound, up, full, raced, failed>>
Hangup(t) ==
    /\ pc[t] = "idle"
    /\ \E b \in up : up' = up \ {b} /\ p' = [p EXCEPT ![t] = b]
    /\ slot' = [slot EXCEPT ![t] = 0]
    /\ Goto(t, "find")
    /\ UNCHANGED <<usrp_channels, allocated, port, bound, full, raced, failed>>

Find_OneLess(t) ==
    /\ pc[t] = "find"
    /\ IF slot[t] = MAX_CHANS - 1 THEN Goto(t, "destroy") /\ UNCHANGED slot
       ELSE IF usrp_channels[slot[t]] = p[t] THEN Goto(t, "clear") /\ UNCHANGED slot
       ELSE slot' = [slot EXCEPT ![t] = @ + 1] /\ UNCHANGED pc
    /\ UNCHANGED <<usrp_channels, p, allocated, port, bound, up, full, raced, failed>>
Find(t) ==
    /\ pc[t] = "find"
    /\ IF slot[t] = MAX_CHANS THEN Goto(t, "destroy") /\ UNCHANGED slot
       ELSE IF usrp_channels[slot[t]] = p[t] THEN Goto(t, "clear") /\ UNCHANGED slot
       ELSE slot' = [slot EXCEPT ![t] = @ + 1] /\ UNCHANGED pc
    /\ UNCHANGED <<usrp_channels, p, allocated, port, bound, up, full, raced, failed>>

Clear(t) ==
    /\ pc[t] = "clear"
    /\ usrp_channels' = [usrp_channels EXCEPT ![slot[t]] = NULL]
    /\ Goto(t, "destroy")
    /\ UNCHANGED <<p, slot, allocated, port, bound, up, full, raced, failed>>

Free(t) ==
    /\ pc[t] = "destroy"
    /\ Destroy(p[t])
    /\ Goto(t, "idle")
    /\ UNCHANGED <<usrp_channels, p, slot, port, up, full, raced, failed>>

Next == \E t \in Threads :
    Request(t) \/ Scan(t) \/ NoSlot(t) \/ Store(t) \/ New(t)
    \/ Hangup(t) \/ Find(t) \/ Clear(t) \/ Free(t)

Spec == Init /\ [][Next]_vars

-----------------------------------------------------------------------------
(* Correctness.                                                            *)

\* The types; no loop indexes past the table.
TypeOK ==
    /\ usrp_channels \in [Slots -> Pvts \cup {NULL}]
    /\ pc \in [Threads -> {"idle", "scan", "store", "new", "find", "clear", "destroy"}]
    /\ p \in [Threads -> Pvts \cup {NULL}] /\ slot \in [Threads -> 0..MAX_CHANS]
    /\ \A t \in Threads : pc[t] \in {"store", "clear"} => slot[t] \in Slots
    /\ allocated \subseteq Pvts /\ up \subseteq Pvts /\ full \subseteq Pvts
    /\ port \in [Pvts -> Ports \cup {NULL}] /\ bound \subseteq Ports
    /\ raced \in BOOLEAN /\ failed \in BOOLEAN

\* A channel Asterisk holds is live memory with a socket of its own, and no
\* call in progress works on it or frees it: whatever the threads do to the
\* table, they never share a channel.
ChannelsAreOwn ==
    \A b \in up :
        /\ b \in allocated /\ port[b] \in bound
        /\ \A c \in up : port[c] = port[b] => c = b
        /\ \A t \in Threads : pc[t] # "idle" => p[t] # b

\* A bound port belongs to a channel, to a call being set up or taken down, or
\* to one of the blocks lost when the table was full (lines 286-289): no other
\* path keeps a port from being dialled again.
PortsAccounted ==
    \A q \in bound :
        \/ \E b \in up \cup full : port[b] = q
        \/ \E t \in Threads : pc[t] # "idle" /\ port[p[t]] = q

\* The answer to "do we need locking for this?": hangups need none against each
\* other or against one request.  As long as no two requests were between scan
\* and store at once and no ast_channel_alloc failed, every channel is in
\* exactly one entry and no entry names freed memory.
TableExact ==
    ~raced /\ ~failed =>
        /\ \A b \in up : Cardinality({i \in Slots : usrp_channels[i] = b}) = 1
        /\ \A i \in Slots : usrp_channels[i] \in allocated \cup {NULL}
=============================================================================
