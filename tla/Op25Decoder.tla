----------------------------- MODULE Op25Decoder -----------------------------
(***************************************************************************)
(* The frame decoder of the blocks/ tree: op25_decoder_bf.cc with its data *)
(* units (data_unit.cc, abstract_data_unit.cc) and the chain of handlers   *)
(* voice -> snapshot -> p25cai that a finished data unit goes through.     *)
(* The snapshot handler puts a message in a bounded gr_msg_queue, where a  *)
(* full queue blocks the decoder's thread; a Python thread reads it.       *)
(*                                                                         *)
(* A received dibit is named by its place in the stream, 1, 2, 3, ...      *)
(* Whether a frame sync ends at a dibit, and what the BCH decoder makes of *)
(* a NID, are up to the radio channel.                                     *)
(***************************************************************************)
EXTENDS Integers, Sequences, FiniteSets

CONSTANTS
    FsLen,        \* dibits of a frame sync: 24
    HdrLen,       \* dibits of a frame sync and NID: 57
    Kinds,        \* the data units make_data_unit knows
    Size,         \* dibits of each: frame_size_max() / 2
    Voice,        \* the kinds with audio (LDU1, LDU2)
    Snapshots,    \* the kinds whose snapshot() is not empty (HDU)
    None,         \* the null data_unit_sptr
    QueueLimit,   \* limit of the gr_msg_queue: 2
    MaxBatch,     \* bound on the dibits one general_work call is given
    MaxDibits     \* bound on the stream

ASSUME SizeAssumption ==
    /\ FsLen \in Nat /\ HdrLen \in Nat /\ 0 < FsLen /\ FsLen < HdrLen
    /\ Size \in [Kinds -> Nat]
    /\ \A k \in Kinds : Size[k] > HdrLen
ASSUME KindAssumption == Voice \subseteq Kinds /\ Snapshots \subseteq Kinds /\ None \notin Kinds
ASSUME BoundAssumption ==
    /\ QueueLimit \in Nat \ {0}
    /\ MaxBatch \in Nat \ {0} /\ MaxDibits \in Nat

VARIABLES
    d_state,      \* SYNCHRONIZING, IDENTIFYING or READING
    d_frame_hdr,  \* the dibits kept to correlate the frame sync
    d_data_unit,  \* the data unit being read, or None
    stage,        \* the handler that has the data unit, or "none"
    working, left,\* inside general_work, with this many dibits to go
    d_msgq,       \* set_msgq was called: there is a queue and its watcher
    d_data_units, \* the count the snapshot handler puts in its messages
    msgq,         \* the messages in the queue
    exited,       \* an exception reached general_work: exit(1)
    t,            \* dibits received; names the next one
    syncs,        \* the dibits at which the stream has a frame sync end
    found,        \* the frame syncs acted on: where each ended, what it headed
    played, cai, seen \* what reached the vocoder, the p25cai handler, the watcher

blockVars == <<d_state, d_frame_hdr, d_data_unit>>
chainVars == <<stage, d_msgq, d_data_units, msgq>>
outVars == <<played, cai, seen>>
vars == <<blockVars, chainVars, outVars, working, left, exited, t, syncs, found>>

Unit == [kind : Kinds, body : Seq(Nat)]
ASSUME NoneAssumption == None \notin Unit

-----------------------------------------------------------------------------
(* The data unit (abstract_data_unit.cc).                                  *)

FrameSize(du) == Len(du.body)
IsComplete(du) == FrameSize(du) >= Size[du.kind]
Extend(du, d) == [du EXCEPT !.body = Append(@, d)]

-----------------------------------------------------------------------------
(* receive_symbol: one arm per state.  fs says whether the stream has a    *)
(* frame sync that ends with this dibit; nid is what the NID decodes to.   *)

LastDibits(s, n) == SubSeq(s, Len(s) - n + 1, Len(s))

Synchronizing_DropsHeader(hdr, fs) ==
    /\ d_state = "SYNCHRONIZING"
    /\ d_frame_hdr' = IF Len(hdr) > FsLen THEN <<t + 1>> ELSE hdr
    /\ d_state' = IF Len(d_frame_hdr') >= FsLen /\ fs THEN "IDENTIFYING" ELSE d_state
    /\ found' = IF Len(d_frame_hdr') >= FsLen /\ fs
                THEN Append(found, [at |-> t + 1, kind |-> None]) ELSE found
    /\ UNCHANGED <<d_data_unit, stage, exited>>
Synchronizing(hdr, fs) ==
    /\ d_state = "SYNCHRONIZING"
    /\ IF Len(hdr) >= FsLen
       THEN /\ d_frame_hdr' = LastDibits(hdr, FsLen)
            /\ IF fs
               THEN /\ d_state' = "IDENTIFYING"
                    /\ found' = Append(found, [at |-> t + 1, kind |-> None])
               ELSE UNCHANGED <<d_state, found>>
       ELSE d_frame_hdr' = hdr /\ UNCHANGED <<d_state, found>>
    /\ UNCHANGED <<d_data_unit, stage, exited>>

\* The data unit starts with a copy of the header.
Identifying_NoCopy(hdr, nid) ==
    /\ d_state = "IDENTIFYING"
    /\ d_frame_hdr' = hdr
    /\ IF Len(hdr) = HdrLen
       THEN /\ d_state' = IF nid = None THEN "SYNCHRONIZING" ELSE "READING"
            /\ d_data_unit' = IF nid = None THEN None ELSE [kind |-> nid, body |-> << >>]
            /\ found' = [found EXCEPT ![Len(found)].kind = nid]
       ELSE UNCHANGED <<d_state, d_data_unit, found>>
    /\ UNCHANGED <<stage, exited>>
Identifying(hdr, nid) ==
    /\ d_state = "IDENTIFYING"
    /\ d_frame_hdr' = hdr
    /\ IF Len(hdr) = HdrLen
       THEN /\ d_state' = IF nid = None THEN "SYNCHRONIZING" ELSE "READING"
            /\ d_data_unit' = IF nid = None THEN None ELSE [kind |-> nid, body |-> hdr]
            /\ found' = [found EXCEPT ![Len(found)].kind = nid]
       ELSE UNCHANGED <<d_state, d_data_unit, found>>
    /\ UNCHANGED <<stage, exited>>

\* extend throws on a complete data unit.  A data unit that is now complete
\* goes to the head of the chain.
Reading(hdr) ==
    /\ d_state = "READING"
    /\ d_frame_hdr' = hdr
    /\ IF IsComplete(d_data_unit)
       THEN exited' = TRUE /\ UNCHANGED <<d_data_unit, stage>>
       ELSE /\ d_data_unit' = Extend(d_data_unit, t + 1)
            /\ stage' = IF IsComplete(d_data_unit') THEN "voice" ELSE stage
            /\ UNCHANGED exited
    /\ UNCHANGED <<d_state, found>>

ReceiveSymbol ==
    /\ working /\ left > 0 /\ stage = "none" /\ ~exited
    /\ t' = t + 1
    /\ left' = left - 1
    /\ \E fs \in BOOLEAN :
        /\ fs => t + 1 >= FsLen
        /\ syncs' = IF fs THEN syncs \cup {t + 1} ELSE syncs
        /\ LET hdr == Append(d_frame_hdr, t + 1)
           IN  \/ Synchronizing(hdr, fs)
               \/ \E nid \in Kinds \cup {None} :
                    (nid # None => Len(hdr) = HdrLen) /\ Identifying(hdr, nid)
               \/ Reading(hdr)
    /\ UNCHANGED <<working, d_msgq, d_data_units, msgq, outVars>>

-----------------------------------------------------------------------------
(* The chain of handlers.                                                  *)

\* voice_du_handler::handle: the audio of a voice data unit is decoded.
VoiceHandle ==
    /\ stage = "voice"
    /\ played' = IF d_data_unit.kind \in Voice
                 THEN Append(played, d_data_unit) ELSE played
    /\ stage' = "snapshot"
    /\ UNCHANGED <<blockVars, d_msgq, d_data_units, msgq, working, left, exited, t,
                   syncs, found, cai, seen>>

\* snapshot_du_handler::handle: an empty snapshot is passed over; the message
\* of another waits until the queue has room.
SnapshotHandle_Drops ==
    /\ stage = "snapshot"
    /\ IF d_msgq /\ d_data_unit.kind \in Snapshots
       THEN /\ d_data_units' = d_data_units + 1
            /\ msgq' = IF Len(msgq) < QueueLimit THEN Append(msgq, d_data_units') ELSE msgq
       ELSE UNCHANGED <<d_data_units, msgq>>
    /\ stage' = "p25cai"
    /\ UNCHANGED <<blockVars, d_msgq, working, left, exited, t, syncs, found, outVars>>
SnapshotHandle ==
    /\ stage = "snapshot"
    /\ IF d_msgq /\ d_data_unit.kind \in Snapshots
       THEN /\ Len(msgq) < QueueLimit
            /\ d_data_units' = d_data_units + 1
            /\ msgq' = Append(msgq, d_data_units')
       ELSE UNCHANGED <<d_data_units, msgq>>
    /\ stage' = "p25cai"
    /\ UNCHANGED <<blockVars, d_msgq, working, left, exited, t, syncs, found, outVars>>

\* p25cai_du_handler::handle writes the frame to its socket, if it has one, and
\* receive_symbol drops the data unit when the chain returns.
CaiHandle ==
    /\ stage = "p25cai"
    /\ cai' = Append(cai, d_data_unit)
    /\ stage' = "none"
    /\ d_data_unit' = None
    /\ d_state' = "SYNCHRONIZING"
    /\ UNCHANGED <<d_frame_hdr, d_msgq, d_data_units, msgq, working, left, exited, t,
                   syncs, found, played, seen>>

-----------------------------------------------------------------------------
(* general_work is called with a batch of dibits, takes them all and ends  *)
(* by filling its output with audio, or with silence for want of it.       *)

StartWork ==
    /\ ~working /\ ~exited
    /\ \E n \in 0..MaxBatch : t + n <= MaxDibits /\ left' = n
    /\ working' = TRUE
    /\ UNCHANGED <<blockVars, chainVars, outVars, exited, t, syncs, found>>

Produce ==
    /\ working /\ left = 0 /\ stage = "none" /\ ~exited
    /\ working' = FALSE
    /\ UNCHANGED <<blockVars, chainVars, outVars, left, exited, t, syncs, found>>

\* decode_watcher: the Python thread that reads the queue it was given.
Watch_OtherQueue ==
    /\ FALSE
    /\ UNCHANGED vars
Watch ==
    /\ msgq # << >>
    /\ seen' = Append(seen, Head(msgq))
    /\ msgq' = Tail(msgq)
    /\ UNCHANGED <<blockVars, stage, d_msgq, d_data_units, working, left, exited, t,
                   syncs, found, played, cai>>

Init ==
    /\ d_state = "SYNCHRONIZING" /\ d_frame_hdr = << >> /\ d_data_unit = None
    /\ stage = "none" /\ d_msgq \in BOOLEAN /\ d_data_units = 0 /\ msgq = << >>
    /\ working = FALSE /\ left = 0 /\ exited = FALSE
    /\ t = 0 /\ syncs = {} /\ found = << >>
    /\ played = << >> /\ cai = << >> /\ seen = << >>

Next ==
    \/ StartWork \/ ReceiveSymbol \/ Produce
    \/ VoiceHandle \/ SnapshotHandle \/ CaiHandle
    \/ Watch

Spec == Init /\ [][Next]_vars

\* The scheduler runs the block's thread through a call it has started, and
\* the watcher thread runs.
Fairness ==
    /\ WF_vars(ReceiveSymbol) /\ WF_vars(Produce)
    /\ WF_vars(VoiceHandle) /\ WF_vars(SnapshotHandle) /\ WF_vars(CaiHandle)
    /\ WF_vars(Watch)

FairSpec == Spec /\ Fairness

-----------------------------------------------------------------------------
(* Properties.                                                             *)

\* The dibits that end with the last one received.
Tail_(n) == [i \in 1..n |-> t - n + i]

\* The framing invariant: d_frame_hdr is always the end of the stream, long
\* enough for its state; a data unit exists exactly while the decoder is
\* READING (op25_decoder_bf.h:134) and then it is the same end of the stream,
\* unfinished unless the chain of handlers has it.  So no data unit is extended
\* once complete, or handled before it is: no exception ends the program.
Framing ==
    /\ ~exited
    /\ d_frame_hdr = Tail_(Len(d_frame_hdr)) /\ Len(d_frame_hdr) <= t
    /\ d_state = "SYNCHRONIZING" => Len(d_frame_hdr) >= FsLen \/ Len(d_frame_hdr) = t
    /\ d_state = "IDENTIFYING" =>
         FsLen <= Len(d_frame_hdr) /\ Len(d_frame_hdr) < HdrLen /\ found # << >>
    /\ d_state = "READING" <=> d_data_unit # None
    /\ d_data_unit # None =>
         /\ d_data_unit.body = d_frame_hdr
         /\ IF stage = "none" THEN FrameSize(d_data_unit) < Size[d_data_unit.kind]
                              ELSE FrameSize(d_data_unit) = Size[d_data_unit.kind]
    /\ stage # "none" => d_data_unit # None

\* The dibits of the frame whose sync ended at f.at.
FrameOf(f) == [kind |-> f.kind,
               body |-> [j \in 1..Size[f.kind] |-> f.at - FsLen + j]]

\* How far past its sync a frame keeps the decoder from searching.
Shadow(f) == (IF f.kind = None THEN HdrLen ELSE Size[f.kind]) - FsLen

\* A frame sync in the stream is acted on unless it ends inside the frame, or
\* the unrecognised header, of an earlier one, the last dibit of it included.
\* Nothing makes the decoder deaf for longer than that.
NoSyncMissed ==
    \A s \in syncs : \E i \in 1..Len(found) :
        s = found[i].at \/ (found[i].at < s /\ s <= found[i].at + Shadow(found[i]))

\* How many of the first i elements of a sequence are of the kinds.
Count(s, kinds, i) == Cardinality({j \in 1..i : s[j].kind \in kinds})

\* The units that reached the handlers after those of the stages.
Passed(stages) == cai \o (IF stage \in stages THEN <<d_data_unit>> ELSE << >>)

\* Every frame whose NID was recognised comes out of the chain whole, aligned
\* on its sync, once, and in stream order; at most the last is still inside.
\* The handlers agree, whatever the watcher's pace: the vocoder has had the
\* voice units, the watcher the snapshots, numbered with no gap, and neither
\* is behind the socket.
EveryFrameOnce ==
    /\ Count(found, Kinds, Len(found)) - Len(cai) \in {0, 1}
    /\ \A i \in 1..Len(found) :
         LET n == Count(found, Kinds, i)
         IN  found[i].kind \in Kinds /\ n <= Len(cai) => cai[n] = FrameOf(found[i])
    /\ LET units == Passed({"snapshot", "p25cai"})
       IN  /\ Len(played) = Count(units, Voice, Len(units))
           /\ \A i \in 1..Len(units) :
                units[i].kind \in Voice => played[Count(units, Voice, i)] = units[i]
    /\ LET units == Passed({"p25cai"})
       IN  d_data_units = IF d_msgq THEN Count(units, Snapshots, Len(units)) ELSE 0
    /\ seen \o msgq = [i \in 1..d_data_units |-> i]

\* general_work returns: however full the queue gets, the decoder's thread
\* comes back to the scheduler and output goes on.
WorkReturns == working ~> ~working
=============================================================================
