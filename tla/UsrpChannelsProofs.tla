------------------------- MODULE UsrpChannelsProofs -------------------------
(***************************************************************************)
(* UsrpChannels for every number of threads, entries, memory blocks and    *)
(* ports: what the missing lock does not break.  The argument for the      *)
(* channels and ports never looks at the table.  Every block malloc has    *)
(* handed out is a channel Asterisk holds, or is worked on by one thread,  *)
(* or was lost to a full table, and is only one of these; and the bound    *)
(* ports are exactly their ports.  From this follows what the table holds  *)
(* as long as requests do not overlap and none fails late.                 *)
(***************************************************************************)
EXTENDS UsrpChannels, FiniteSetTheorems, TLAPS

Working(t) == pc[t] # "idle"

\* A thread works on a block of its own.
OwnBlock ==
    /\ \A t \in Threads : Working(t) => p[t] \in allocated \ (up \cup full)
    /\ \A t, u \in Threads : Working(t) /\ Working(u) /\ p[t] = p[u] => t = u

\* Every block is somebody's.
Held ==
    /\ up \cup full \subseteq allocated
    /\ up \cap full = {}
    /\ \A b \in allocated : b \in up \cup full \/ \E t \in Threads : Working(t) /\ p[t] = b

\* A bound port is the port of one block.
PortsMatch ==
    /\ \A b \in allocated : port[b] \in bound
    /\ \A b, c \in allocated : port[b] = port[c] => b = c
    /\ \A q \in bound : \E b \in allocated : port[b] = q

IInv == TypeOK /\ OwnBlock /\ Held /\ PortsMatch

LEMMA ConstTypes == MAX_CHANS \in Nat \ {0} /\ NULL \notin Pvts
BY ChannelsAssumption DEF ChannelsAssumption

LEMMA InitInv == Init => IInv
<1> SUFFICES ASSUME Init PROVE IInv
  OBVIOUS
<1>1. TypeOK
  <2>1. 0 \in 0..MAX_CHANS
    BY ConstTypes
  <2>2. slot \in [Threads -> 0..MAX_CHANS]
    BY <2>1 DEF Init
  <2>3. usrp_channels \in [Slots -> Pvts \cup {NULL}]
    BY DEF Init
  <2> QED BY <2>2, <2>3 DEF Init, TypeOK
<1>2. OwnBlock /\ Held /\ PortsMatch
  BY DEF Init, OwnBlock, Held, PortsMatch, Working
<1> QED BY <1>1, <1>2 DEF IInv

-----------------------------------------------------------------------------
(* The type invariant, action by action.                                   *)

LEMMA TypesKept ==
    ASSUME IInv, [Next]_vars
    PROVE  TypeOK'
<1> USE ConstTypes DEF Slots, Goto
<1>0. TypeOK /\ \A t \in Threads : Working(t) => p[t] \in Pvts
  BY DEF IInv, OwnBlock, TypeOK
<1>1. ASSUME NEW t \in Threads, Request(t) PROVE TypeOK'
  BY <1>0, <1>1 DEF TypeOK, Request
<1>2. ASSUME NEW t \in Threads, Scan(t) PROVE TypeOK'
  <2>1. slot[t] \in 0..MAX_CHANS /\ slot[t] < MAX_CHANS
    BY <1>0, <1>2 DEF TypeOK, Scan
  <2>2. slot[t] \in Slots /\ slot[t] + 1 \in 0..MAX_CHANS
    BY <2>1
  <2>3. /\ slot' \in [Threads -> 0..MAX_CHANS]
        /\ pc' \in [Threads -> {"idle", "scan", "store", "new", "find", "clear", "destroy"}]
    BY <1>0, <1>2, <2>2 DEF TypeOK, Scan
  <2>4. \A u \in Threads : pc'[u] \in {"store", "clear"} => slot'[u] \in Slots
    BY <1>0, <1>2, <2>2 DEF TypeOK, Scan
  <2> QED BY <1>0, <1>2, <2>3, <2>4 DEF TypeOK, Scan
<1>3. ASSUME NEW t \in Threads, NoSlot(t) PROVE TypeOK'
  BY <1>0, <1>3 DEF TypeOK, NoSlot, Working
<1>4. ASSUME NEW t \in Threads, Store(t) PROVE TypeOK'
  BY <1>0, <1>4 DEF TypeOK, Store
<1>5. ASSUME NEW t \in Threads, New(t) PROVE TypeOK'
  BY <1>0, <1>5 DEF TypeOK, New, Destroy, Working
<1>6. ASSUME NEW t \in Threads, Hangup(t) PROVE TypeOK'
  BY <1>0, <1>6 DEF TypeOK, Hangup
<1>7. ASSUME NEW t \in Threads, Find(t) PROVE TypeOK'
  BY <1>0, <1>7 DEF TypeOK, Find
<1>8. ASSUME NEW t \in Threads, Clear(t) PROVE TypeOK'
  BY <1>0, <1>8 DEF TypeOK, Clear
<1>9. ASSUME NEW t \in Threads, Free(t) PROVE TypeOK'
  BY <1>0, <1>9 DEF TypeOK, Free, Destroy
<1>10. CASE UNCHANGED vars
  BY <1>0, <1>10 DEF TypeOK, vars
<1> QED BY <1>1, <1>2, <1>3, <1>4, <1>5, <1>6, <1>7, <1>8, <1>9, <1>10 DEF Next

-----------------------------------------------------------------------------
(* Who holds which block.                                                  *)

\* A step inside a scan of the table changes nothing here: a thread that works
\* keeps working on what it works on.
LEMMA TableStep ==
    ASSUME IInv, UNCHANGED <<p, allocated, port, bound, up, full>>,
           \A u \in Threads : Working(u)' <=> Working(u)
    PROVE  OwnBlock' /\ Held' /\ PortsMatch'
BY DEF IInv, OwnBlock, Held, PortsMatch

LEMMA ScanStep ==
    ASSUME IInv, NEW t \in Threads, Scan(t) \/ Store(t) \/ Find(t) \/ Clear(t)
    PROVE  OwnBlock' /\ Held' /\ PortsMatch'
<1>1. pc \in [Threads -> {"idle", "scan", "store", "new", "find", "clear", "destroy"}]
  BY DEF IInv, TypeOK
<1>2. UNCHANGED <<p, allocated, port, bound, up, full>>
  BY DEF Scan, Store, Find, Clear
<1>3. \A u \in Threads : Working(u)' <=> Working(u)
  BY <1>1 DEF Scan, Store, Find, Clear, Goto, Working
<1> QED BY <1>2, <1>3, TableStep

\* A request takes a block and a port nobody has.
LEMMA RequestStep ==
    ASSUME IInv, NEW t \in Threads, Request(t)
    PROVE  OwnBlock' /\ Held' /\ PortsMatch'
<1>1. /\ pc \in [Threads -> {"idle", "scan", "store", "new", "find", "clear", "destroy"}]
      /\ p \in [Threads -> Pvts \cup {NULL}] /\ port \in [Pvts -> Ports \cup {NULL}]
      /\ allocated \subseteq Pvts
  BY DEF IInv, TypeOK
<1>2. OwnBlock /\ Held /\ PortsMatch
  BY DEF IInv
<1>3. PICK b \in Pvts \ allocated, q \in Ports \ bound :
         /\ allocated' = allocated \cup {b} /\ bound' = bound \cup {q}
         /\ port' = [port EXCEPT ![b] = q] /\ p' = [p EXCEPT ![t] = b]
  BY DEF Request
<1>4. /\ up' = up /\ full' = full /\ ~Working(t)
      /\ \A u \in Threads : Working(u)' <=> u = t \/ Working(u)
  BY <1>1 DEF Request, Goto, Working
<1>5. OwnBlock'
  BY <1>1, <1>2, <1>3, <1>4 DEF OwnBlock, Held
<1>6. Held'
  BY <1>1, <1>2, <1>3, <1>4 DEF Held
<1>7. PortsMatch'
  BY <1>1, <1>2, <1>3 DEF PortsMatch
<1> QED BY <1>5, <1>6, <1>7

\* A thread hands its block over, to Asterisk or to nobody, and is idle.
LEMMA HandOver ==
    ASSUME IInv, NEW t \in Threads, Working(t), Goto(t, "idle"),
           UNCHANGED <<p, allocated, port, bound>>,
           \/ up' = up \cup {p[t]} /\ full' = full
           \/ full' = full \cup {p[t]} /\ up' = up
    PROVE  OwnBlock' /\ Held' /\ PortsMatch'
<1>1. /\ pc \in [Threads -> {"idle", "scan", "store", "new", "find", "clear", "destroy"}]
      /\ OwnBlock /\ Held /\ PortsMatch
  BY DEF IInv, TypeOK
<1>2. \A u \in Threads : Working(u)' <=> u # t /\ Working(u)
  BY <1>1 DEF Goto, Working
<1>3. OwnBlock'
  BY <1>1, <1>2 DEF OwnBlock
<1>4. Held'
  BY <1>1, <1>2 DEF Held, OwnBlock
<1>5. PortsMatch'
  BY <1>1 DEF PortsMatch
<1> QED BY <1>3, <1>4, <1>5

\* A thread frees its block, closes its socket and is idle.
LEMMA DestroyStep ==
    ASSUME IInv, NEW t \in Threads, Working(t), Goto(t, "idle"), Destroy(p[t]),
           UNCHANGED <<p, port, up, full>>
    PROVE  OwnBlock' /\ Held' /\ PortsMatch'
<1>1. /\ pc \in [Threads -> {"idle", "scan", "store", "new", "find", "clear", "destroy"}]
      /\ OwnBlock /\ Held /\ PortsMatch
  BY DEF IInv, TypeOK
<1>2. \A u \in Threads : Working(u)' <=> u # t /\ Working(u)
  BY <1>1 DEF Goto, Working
<1>3. allocated' = allocated \ {p[t]} /\ bound' = bound \ {port[p[t]]}
  BY DEF Destroy
<1>4. OwnBlock'
  BY <1>1, <1>2, <1>3 DEF OwnBlock
<1>5. Held'
  BY <1>1, <1>2, <1>3 DEF Held, OwnBlock
<1>6. PortsMatch'
  BY <1>1, <1>3 DEF PortsMatch, OwnBlock
<1> QED BY <1>4, <1>5, <1>6

\* A thread takes a channel down: Asterisk gives it up first.
LEMMA HangupStep ==
    ASSUME IInv, NEW t \in Threads, Hangup(t)
    PROVE  OwnBlock' /\ Held' /\ PortsMatch'
<1>1. /\ pc \in [Threads -> {"idle", "scan", "store", "new", "find", "clear", "destroy"}]
      /\ p \in [Threads -> Pvts \cup {NULL}]
      /\ OwnBlock /\ Held /\ PortsMatch
  BY DEF IInv, TypeOK
<1>2. PICK b \in up : up' = up \ {b} /\ p' = [p EXCEPT ![t] = b]
  BY DEF Hangup
<1>3. /\ UNCHANGED <<allocated, port, bound, full>> /\ ~Working(t)
      /\ \A u \in Threads : Working(u)' <=> u = t \/ Working(u)
  BY <1>1 DEF Hangup, Goto, Working
<1>4. OwnBlock'
  BY <1>1, <1>2, <1>3 DEF OwnBlock, Held
<1>5. Held'
  BY <1>1, <1>2, <1>3 DEF Held
<1>6. PortsMatch'
  BY <1>1, <1>3 DEF PortsMatch
<1> QED BY <1>4, <1>5, <1>6

LEMMA NextInv == IInv /\ [Next]_vars => IInv'
<1> SUFFICES ASSUME IInv, [Next]_vars PROVE OwnBlock' /\ Held' /\ PortsMatch'
  BY TypesKept DEF IInv
<1>1. ASSUME NEW t \in Threads, NoSlot(t) PROVE OwnBlock' /\ Held' /\ PortsMatch'
  BY <1>1, HandOver DEF NoSlot, Working
<1>2. ASSUME NEW t \in Threads, New(t) PROVE OwnBlock' /\ Held' /\ PortsMatch'
  <2>1. Working(t) /\ Goto(t, "idle") /\ UNCHANGED <<p, port, full>>
    BY <1>2 DEF New, Working
  <2>2. CASE up' = up \cup {p[t]} /\ UNCHANGED <<allocated, bound>>
    BY <2>1, <2>2, HandOver
  <2>3. CASE Destroy(p[t]) /\ up' = up
    BY <2>1, <2>3, DestroyStep
  <2> QED BY <1>2, <2>2, <2>3 DEF New
<1>3. ASSUME NEW t \in Threads, Free(t) PROVE OwnBlock' /\ Held' /\ PortsMatch'
  BY <1>3, DestroyStep DEF Free, Working
<1>4. CASE UNCHANGED vars
  BY <1>4, TableStep DEF vars, Working
<1> QED BY <1>1, <1>2, <1>3, <1>4, ScanStep, RequestStep, HangupStep DEF Next

-----------------------------------------------------------------------------
(* The table.                                                              *)

\* Block b is in one entry, which is entry n or a later one.
ListedFrom(table, b, n) ==
    \E i \in Slots : n <= i /\ table[i] = b /\ \A j \in Slots : table[j] = b => j = i
Unlisted(table, b) == \A i \in Slots : table[i] # b

\* Only one thread looks for an entry or is about to take the one it found.
OneRequests ==
    \A t, u \in Threads : pc[t] \in {"scan", "store"} /\ pc[u] \in {"scan", "store"} => t = u

EntriesLive == \A i \in Slots : usrp_channels[i] \in allocated \cup {NULL}

UpListed == \A b \in up : ListedFrom(usrp_channels, b, 0)

\* What a thread may count on at each place: above all, that a hangup has not
\* passed its entry yet, and that the entry a request found is still free.
Counting(t) ==
    /\ pc[t] \in {"scan", "store", "destroy"} => Unlisted(usrp_channels, p[t])
    /\ pc[t] = "store" => usrp_channels[slot[t]] = NULL
    /\ pc[t] = "new" => ListedFrom(usrp_channels, p[t], 0)
    /\ pc[t] = "find" => ListedFrom(usrp_channels, p[t], slot[t])
    /\ pc[t] = "clear" => /\ ListedFrom(usrp_channels, p[t], 0)
                          /\ usrp_channels[slot[t]] = p[t]

InTable ==
    ~raced /\ ~failed =>
        OneRequests /\ EntriesLive /\ UpListed /\ \A t \in Threads : Counting(t)

\* An entry that changes matters to the old block and the new one only.
LEMMA OtherBlock ==
    ASSUME NEW table \in [Slots -> Pvts \cup {NULL}], NEW k \in Slots, NEW v, NEW n,
           NEW b, b # v, b # table[k]
    PROVE  /\ ListedFrom(table, b, n) => ListedFrom([table EXCEPT ![k] = v], b, n)
           /\ Unlisted(table, b) => Unlisted([table EXCEPT ![k] = v], b)
<1>1. \A i \in Slots : [table EXCEPT ![k] = v][i] = b <=> table[i] = b
  OBVIOUS
<1> QED BY <1>1 DEF ListedFrom, Unlisted

\* A step of t moves t alone.
LEMMA Alone ==
    ASSUME IInv, NEW t \in Threads, NEW label, Goto(t, label)
    PROVE  pc'[t] = label /\ \A u \in Threads \ {t} : pc'[u] = pc[u]
BY DEF IInv, TypeOK, Goto

LEMMA TableInit == Init => InTable
<1> SUFFICES ASSUME Init PROVE InTable
  OBVIOUS
<1>1. UpListed /\ EntriesLive
  BY DEF Init, UpListed, EntriesLive
<1>2. OneRequests /\ \A t \in Threads : Counting(t)
  BY DEF Init, OneRequests, Counting
<1> QED BY <1>1, <1>2 DEF InTable

LEMMA RequestTable ==
    ASSUME IInv, InTable, NEW t \in Threads, Request(t)
    PROVE  InTable'
<1> SUFFICES ASSUME ~raced', ~failed'
             PROVE  (OneRequests /\ EntriesLive /\ UpListed)' /\ \A u \in Threads : Counting(u)'
  BY DEF InTable
<1>1. PICK b \in Pvts \ allocated :
         allocated' = allocated \cup {b} /\ p' = [p EXCEPT ![t] = b]
  BY DEF Request
<1>2. /\ slot' = [slot EXCEPT ![t] = 0] /\ Goto(t, "scan")
      /\ UNCHANGED <<usrp_channels, up, failed>>
      /\ raced' = (raced \/ \E u \in Threads \ {t} : pc[u] \in {"scan", "store"})
  BY DEF Request
<1>3. ~raced /\ \A u \in Threads \ {t} : pc[u] \notin {"scan", "store"}
  BY <1>2
<1>4. OneRequests /\ EntriesLive /\ UpListed /\ \A u \in Threads : Counting(u)
  BY <1>2, <1>3 DEF InTable
<1>5. pc'[t] = "scan" /\ \A u \in Threads \ {t} : pc'[u] = pc[u]
  BY <1>2, Alone
<1>6. p \in [Threads -> Pvts \cup {NULL}] /\ slot \in [Threads -> 0..MAX_CHANS]
  BY DEF IInv, TypeOK
<1>7. p'[t] = b /\ \A u \in Threads \ {t} : p'[u] = p[u] /\ slot'[u] = slot[u]
  BY <1>1, <1>2, <1>6
<1>8. OneRequests'
  BY <1>3, <1>5 DEF OneRequests
<1>9. EntriesLive' /\ UpListed'
  BY <1>1, <1>2, <1>4 DEF EntriesLive, UpListed
<1>10. Unlisted(usrp_channels, b)
  BY <1>1, <1>4, ConstTypes DEF EntriesLive, Unlisted
<1>11. Counting(t)'
  BY <1>2, <1>5, <1>7, <1>10 DEF Counting
<1>12. \A u \in Threads \ {t} : Counting(u)'
  BY <1>2, <1>4, <1>5, <1>7 DEF Counting
<1> QED BY <1>8, <1>9, <1>11, <1>12

\* A step that does not write to the table.
LEMMA LookTable ==
    ASSUME IInv, InTable, NEW t \in Threads, Scan(t) \/ Find(t)
    PROVE  InTable'
<1> SUFFICES ASSUME ~raced', ~failed'
             PROVE  (OneRequests /\ EntriesLive /\ UpListed)' /\ \A u \in Threads : Counting(u)'
  BY DEF InTable
<1>1. UNCHANGED <<usrp_channels, p, allocated, up, raced, failed>>
  BY DEF Scan, Find
<1>2. OneRequests /\ EntriesLive /\ UpListed /\ \A u \in Threads : Counting(u)
  BY <1>1 DEF InTable
<1>3. /\ pc \in [Threads -> {"idle", "scan", "store", "new", "find", "clear", "destroy"}]
      /\ slot \in [Threads -> 0..MAX_CHANS] /\ MAX_CHANS \in Nat
  BY ConstTypes DEF IInv, TypeOK
<1>4. \A u \in Threads \ {t} : pc'[u] = pc[u] /\ slot'[u] = slot[u]
  BY <1>3 DEF Scan, Find, Goto
<1>5. pc'[t] \in {"scan", "store"} => pc[t] \in {"scan", "store"}
  BY <1>3 DEF Scan, Find, Goto
<1>6. OneRequests'
  BY <1>2, <1>4, <1>5 DEF OneRequests
<1>7. EntriesLive' /\ UpListed'
  BY <1>1, <1>2 DEF EntriesLive, UpListed
<1>8. \A u \in Threads \ {t} : Counting(u)'
  BY <1>1, <1>2, <1>4 DEF Counting
<1>9. Counting(t)'
  <2>1. CASE Scan(t)
    <3>1. CASE usrp_channels[slot[t]] = NULL
      <4>1. pc[t] = "scan" /\ pc'[t] = "store" /\ slot' = slot
        BY <1>3, <2>1, <3>1 DEF Scan, Goto
      <4> QED BY <1>1, <1>2, <3>1, <4>1 DEF Counting
    <3>2. CASE usrp_channels[slot[t]] # NULL
      <4>1. pc[t] = "scan" /\ pc'[t] = "scan"
        BY <1>3, <2>1, <3>2 DEF Scan
      <4> QED BY <1>1, <1>2, <4>1 DEF Counting
    <3> QED BY <3>1, <3>2
  <2>2. CASE Find(t)
    <3>1. ListedFrom(usrp_channels, p[t], slot[t])
      BY <1>2, <2>2 DEF Counting, Find
    <3>2. PICK i \in Slots : /\ slot[t] <= i /\ usrp_channels[i] = p[t]
                             /\ \A j \in Slots : usrp_channels[j] = p[t] => j = i
      BY <3>1 DEF ListedFrom
    <3>3. slot[t] # MAX_CHANS /\ slot[t] \in Nat /\ i \in Nat
      BY <1>3, <3>2 DEF Slots
    <3>4. CASE usrp_channels[slot[t]] = p[t]
      <4>1. pc'[t] = "clear" /\ slot' = slot
        BY <1>3, <2>2, <3>3, <3>4 DEF Find, Goto
      <4>2. ListedFrom(usrp_channels, p[t], 0)
        BY <3>2, <3>3 DEF ListedFrom
      <4> QED BY <1>1, <3>4, <4>1, <4>2 DEF Counting
    <3>5. CASE usrp_channels[slot[t]] # p[t]
      <4>1. pc'[t] = "find" /\ slot'[t] = slot[t] + 1
        BY <1>3, <2>2, <3>3, <3>5 DEF Find
      <4>2. slot[t] + 1 <= i
        BY <3>2, <3>3, <3>5
      <4>3. ListedFrom(usrp_channels, p[t], slot'[t])
        BY <3>2, <4>1, <4>2 DEF ListedFrom
      <4> QED BY <1>1, <4>1, <4>3 DEF Counting
    <3> QED BY <3>4, <3>5
  <2> QED BY <2>1, <2>2
<1> QED BY <1>6, <1>7, <1>8, <1>9

\* A step that writes entry slot[t], NULL before or after.
LEMMA WriteTable ==
    ASSUME IInv, InTable, NEW t \in Threads, Store(t) \/ Clear(t)
    PROVE  InTable'
<1> DEFINE k == slot[t]
           v == IF pc[t] = "store" THEN p[t] ELSE NULL
           T == [usrp_channels EXCEPT ![k] = v]
<1> SUFFICES ASSUME ~raced', ~failed'
             PROVE  (OneRequests /\ EntriesLive /\ UpListed)' /\ \A u \in Threads : Counting(u)'
  BY DEF InTable
<1>1. /\ UNCHANGED <<p, slot, allocated, up, raced, failed>>
      /\ pc[t] \in {"store", "clear"} /\ usrp_channels' = T
  BY DEF Store, Clear
<1>2. OneRequests /\ EntriesLive /\ UpListed /\ \A u \in Threads : Counting(u)
  BY <1>1 DEF InTable
<1>3. /\ pc \in [Threads -> {"idle", "scan", "store", "new", "find", "clear", "destroy"}]
      /\ usrp_channels \in [Slots -> Pvts \cup {NULL}] /\ k \in Slots /\ k \in Nat
      /\ allocated \subseteq Pvts /\ up \subseteq allocated
  BY <1>1 DEF IInv, TypeOK, Slots, Held
<1>4. /\ \A u \in Threads \ {t} : pc'[u] = pc[u]
      /\ pc'[t] = IF pc[t] = "store" THEN "new" ELSE "destroy"
  BY <1>3 DEF Store, Clear, Goto
<1>5. OneRequests'
  BY <1>2, <1>4 DEF OneRequests
<1>6. /\ p[t] \in allocated \ up /\ p[t] # NULL
      /\ \A u \in Threads \ {t} : Working(u) => p[u] # p[t] /\ p[u] \in allocated
  BY <1>1, <1>3, ConstTypes DEF IInv, OwnBlock, Working
<1>7. usrp_channels[k] = IF pc[t] = "store" THEN NULL ELSE p[t]
  BY <1>1, <1>2 DEF Counting
<1>8. EntriesLive'
  BY <1>1, <1>2, <1>3, <1>6 DEF EntriesLive
<1>9. ASSUME NEW b \in allocated, b # p[t], NEW n
      PROVE  /\ ListedFrom(usrp_channels, b, n) => ListedFrom(T, b, n)
             /\ Unlisted(usrp_channels, b) => Unlisted(T, b)
  <2>1. b # v /\ b # usrp_channels[k]
    BY <1>3, <1>7, <1>9, ConstTypes
  <2> QED BY <1>3, <2>1, OtherBlock
<1>10. UpListed'
  <2>1. \A b \in up : b \in allocated /\ b # p[t]
    BY <1>3, <1>6
  <2> QED BY <1>1, <1>2, <1>9, <2>1 DEF UpListed
<1>11. Counting(t)'
  <2>1. CASE pc[t] = "store"
    <3>1. T[k] = p[t] /\ \A j \in Slots : j # k => T[j] # p[t]
      BY <1>2, <1>3, <2>1 DEF Counting, Unlisted
    <3>2. ListedFrom(T, p[t], 0)
      BY <1>3, <3>1 DEF ListedFrom
    <3> QED BY <1>1, <1>4, <2>1, <3>2 DEF Counting
  <2>2. CASE pc[t] = "clear"
    <3>1. ListedFrom(usrp_channels, p[t], 0) /\ usrp_channels[k] = p[t]
      BY <1>2, <2>2 DEF Counting
    <3>2. Unlisted(T, p[t])
      BY <1>3, <1>6, <2>2, <3>1 DEF ListedFrom, Unlisted
    <3> QED BY <1>1, <1>4, <2>2, <3>2 DEF Counting
  <2> QED BY <1>1, <2>1, <2>2
<1>12. ASSUME NEW u \in Threads \ {t} PROVE Counting(u)'
  <2>1. pc'[u] = pc[u] /\ p'[u] = p[u] /\ slot'[u] = slot[u] /\ Counting(u)
    BY <1>1, <1>2, <1>4, <1>12
  <2>2. CASE ~Working(u)
    BY <2>1, <2>2 DEF Counting, Working
  <2>3. CASE Working(u)
    <3>1. p[u] \in allocated /\ p[u] # p[t]
      BY <1>6, <2>3
    <3>2. /\ pc[u] \in {"scan", "store", "destroy"} => Unlisted(T, p[u])
          /\ pc[u] = "new" => ListedFrom(T, p[u], 0)
          /\ pc[u] = "find" => ListedFrom(T, p[u], slot[u])
          /\ pc[u] = "clear" => ListedFrom(T, p[u], 0)
      BY <1>9, <2>1, <3>1 DEF Counting
    <3>3. pc[u] = "store" => T[slot[u]] = NULL
      <4>1. SUFFICES ASSUME pc[u] = "store" PROVE T[slot[u]] = NULL
        OBVIOUS
      <4>2. pc[t] = "clear" /\ v = NULL
        BY <1>1, <1>2, <1>12, <4>1 DEF OneRequests
      <4>3. usrp_channels[slot[u]] = NULL /\ slot[u] \in Slots
        BY <1>12, <2>1, <4>1 DEF Counting, IInv, TypeOK
      <4> QED BY <1>3, <4>2, <4>3
    <3>4. pc[u] = "clear" => T[slot[u]] = p[u]
      <4>1. SUFFICES ASSUME pc[u] = "clear" PROVE T[slot[u]] = p[u]
        OBVIOUS
      <4>2. usrp_channels[slot[u]] = p[u] /\ slot[u] \in Slots
        BY <1>12, <2>1, <4>1 DEF Counting, IInv, TypeOK
      <4>3. slot[u] # k
        BY <1>3, <1>7, <3>1, <4>2, ConstTypes
      <4> QED BY <1>3, <4>2, <4>3
    <3> QED BY <1>1, <2>1, <3>2, <3>3, <3>4 DEF Counting
  <2> QED BY <2>2, <2>3
<1> QED BY <1>5, <1>8, <1>10, <1>11, <1>12

\* A request comes to its end.
LEMMA EndTable ==
    ASSUME IInv, InTable, NEW t \in Threads, NoSlot(t) \/ New(t)
    PROVE  InTable'
<1> SUFFICES ASSUME ~raced', ~failed'
             PROVE  (OneRequests /\ EntriesLive /\ UpListed)' /\ \A u \in Threads : Counting(u)'
  BY DEF InTable
<1>1. /\ UNCHANGED <<usrp_channels, p, slot, allocated, raced, failed>> /\ Goto(t, "idle")
      /\ up' = up \/ (up' = up \cup {p[t]} /\ pc[t] = "new")
  BY DEF NoSlot, New
<1>2. OneRequests /\ EntriesLive /\ UpListed /\ \A u \in Threads : Counting(u)
  BY <1>1 DEF InTable
<1>3. pc'[t] = "idle" /\ \A u \in Threads \ {t} : pc'[u] = pc[u]
  BY <1>1, Alone
<1>4. OneRequests'
  BY <1>2, <1>3 DEF OneRequests
<1>5. EntriesLive' /\ UpListed'
  BY <1>1, <1>2 DEF EntriesLive, UpListed, Counting
<1>6. \A u \in Threads : Counting(u)'
  BY <1>1, <1>2, <1>3 DEF Counting
<1> QED BY <1>4, <1>5, <1>6

\* A hangup begins.
LEMMA HangupTable ==
    ASSUME IInv, InTable, NEW t \in Threads, Hangup(t)
    PROVE  InTable'
<1> SUFFICES ASSUME ~raced', ~failed'
             PROVE  (OneRequests /\ EntriesLive /\ UpListed)' /\ \A u \in Threads : Counting(u)'
  BY DEF InTable
<1>1. PICK b \in up : up' = up \ {b} /\ p' = [p EXCEPT ![t] = b]
  BY DEF Hangup
<1>2. /\ UNCHANGED <<usrp_channels, allocated, raced, failed>> /\ Goto(t, "find")
      /\ slot' = [slot EXCEPT ![t] = 0]
  BY DEF Hangup
<1>3. OneRequests /\ EntriesLive /\ UpListed /\ \A u \in Threads : Counting(u)
  BY <1>2 DEF InTable
<1>4. pc'[t] = "find" /\ \A u \in Threads \ {t} : pc'[u] = pc[u]
  BY <1>2, Alone
<1>5. /\ p'[t] = b /\ slot'[t] = 0
      /\ \A u \in Threads \ {t} : p'[u] = p[u] /\ slot'[u] = slot[u]
  BY <1>1, <1>2 DEF IInv, TypeOK
<1>6. OneRequests'
  BY <1>3, <1>4 DEF OneRequests
<1>7. EntriesLive' /\ UpListed'
  BY <1>1, <1>2, <1>3 DEF EntriesLive, UpListed
<1>8. Counting(t)'
  BY <1>1, <1>2, <1>3, <1>4, <1>5 DEF Counting, UpListed
<1>9. \A u \in Threads \ {t} : Counting(u)'
  BY <1>2, <1>3, <1>4, <1>5 DEF Counting
<1> QED BY <1>6, <1>7, <1>8, <1>9

\* A hangup ends: the block freed is in no entry.
LEMMA FreeTable ==
    ASSUME IInv, InTable, NEW t \in Threads, Free(t)
    PROVE  InTable'
<1> SUFFICES ASSUME ~raced', ~failed'
             PROVE  (OneRequests /\ EntriesLive /\ UpListed)' /\ \A u \in Threads : Counting(u)'
  BY DEF InTable
<1>1. /\ UNCHANGED <<usrp_channels, p, slot, up, raced, failed>> /\ Goto(t, "idle")
      /\ pc[t] = "destroy" /\ allocated' = allocated \ {p[t]}
  BY DEF Free, Destroy
<1>2. OneRequests /\ EntriesLive /\ UpListed /\ \A u \in Threads : Counting(u)
  BY <1>1 DEF InTable
<1>3. pc'[t] = "idle" /\ \A u \in Threads \ {t} : pc'[u] = pc[u]
  BY <1>1, Alone
<1>4. OneRequests' /\ UpListed'
  BY <1>1, <1>2, <1>3 DEF OneRequests, UpListed
<1>5. Unlisted(usrp_channels, p[t])
  BY <1>1, <1>2 DEF Counting
<1>6. EntriesLive'
  BY <1>1, <1>2, <1>5 DEF EntriesLive, Unlisted
<1>7. \A u \in Threads : Counting(u)'
  BY <1>1, <1>2, <1>3 DEF Counting
<1> QED BY <1>4, <1>6, <1>7

LEMMA TableNext == IInv /\ InTable /\ [Next]_vars => InTable'
<1> SUFFICES ASSUME IInv, InTable, [Next]_vars PROVE InTable'
  OBVIOUS
<1>1. CASE UNCHANGED vars
  BY <1>1 DEF vars, InTable, OneRequests, EntriesLive, UpListed, Counting
<1> QED BY <1>1, RequestTable, LookTable, WriteTable, EndTable, HangupTable, FreeTable DEF Next

\* One entry makes a set of one entry.
LEMMA TableCounted == InTable => TableExact
<1> SUFFICES ASSUME InTable, ~raced, ~failed PROVE TableExact
  BY DEF TableExact
<1>1. EntriesLive /\ UpListed
  BY DEF InTable
<1>2. ASSUME NEW b \in up PROVE Cardinality({i \in Slots : usrp_channels[i] = b}) = 1
  <2>1. PICK i \in Slots : usrp_channels[i] = b /\ \A j \in Slots : usrp_channels[j] = b => j = i
    BY <1>1 DEF UpListed, ListedFrom
  <2>2. {j \in Slots : usrp_channels[j] = b} = {i}
    BY <2>1
  <2> QED BY <2>2, FS_Singleton
<1> QED BY <1>1, <1>2 DEF TableExact, EntriesLive

-----------------------------------------------------------------------------
(* Theorems.                                                               *)

LEMMA Invariance == Spec => []IInv
BY InitInv, NextInv, PTL DEF Spec

\* No loop over the table leaves it, and every variable keeps its range.
THEOREM TypeCorrect == Spec => []TypeOK
BY Invariance, PTL DEF IInv

\* A channel Asterisk holds is live memory, its socket is its own, and no
\* thread frees it or works on it, however dials and hangups overlap.
THEOREM Own == Spec => []ChannelsAreOwn
<1>1. IInv => ChannelsAreOwn
  BY DEF IInv, OwnBlock, Held, PortsMatch, ChannelsAreOwn, Working
<1> QED BY <1>1, Invariance, PTL

\* A port stays bound only for a channel, for a call being set up or taken
\* down, or for a block lost when the table was full.
THEOREM Accounted == Spec => []PortsAccounted
<1>1. IInv => PortsAccounted
  BY DEF IInv, Held, PortsMatch, PortsAccounted, Working
<1> QED BY <1>1, Invariance, PTL

\* Unless two requests overlapped or one failed late, every channel is in
\* exactly one entry and no entry names freed memory: hangups need no lock
\* against each other, nor against one request.
THEOREM Exact == Spec => []TableExact
<1>1. Spec => []InTable
  BY Invariance, TableInit, TableNext, PTL DEF Spec
<1> QED BY <1>1, TableCounted, PTL
=============================================================================
