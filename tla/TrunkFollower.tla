---------------------------- MODULE TrunkFollower ----------------------------
(***************************************************************************)
(* Following calls on a trunked site: repeater/src/python/scope.py and     *)
(* trunking.py.  One receiver listens to the control channel (CC) until a  *)
(* grant names a channel whose frequency it can compute, retunes there     *)
(* (TO_VC, VC), and comes back (TO_CC) when a terminator ends the call.    *)
(*                                                                         *)
(* The watcher thread that retunes is two queues behind the antenna: what  *)
(* it handles may have been received before it retuned.  The site, the     *)
(* fading and the flow graph's latency are the environment.                *)
(***************************************************************************)
EXTENDS Naturals, Sequences

CONSTANTS
    CcFreq,      \* options.trunk_cc_freq
    Plan,        \* the site's tables: identifier -> [frequency, step]
    ChannelIds,  \* voice channels: records [table, channel]
    MaxPipe,     \* bound on the data units between antenna and message queue
    QueueLimit   \* gr.msg_queue(100)

TDU == 3
LDU == 5
TSBK == 7
TDULC == 15
Terminators == {TDU, TDULC}

SiteFreq(ch) == Plan[ch.table].frequency + Plan[ch.table].step * ch.channel
Freqs == {CcFreq} \cup {SiteFreq(ch) : ch \in ChannelIds}

ASSUME TrunkAssumption ==
    /\ CcFreq \in Nat /\ MaxPipe \in Nat \ {0} /\ QueueLimit \in Nat \ {0}
    /\ \A id \in DOMAIN Plan : Plan[id] \in [frequency : Nat \ {0}, step : Nat]
    /\ \A ch \in ChannelIds : ch.table \in DOMAIN Plan /\ ch.channel \in Nat
    /\ \A ch \in ChannelIds : SiteFreq(ch) # CcFreq
    /\ \A ch, d \in ChannelIds : SiteFreq(ch) = SiteFreq(d) => ch = d

VARIABLES
    calls,      \* the channels with a call in progress
    pipe, duq,  \* data units in the flow graph, and on the message queue
    trunked_state, freq_table,
    tuned,      \* the frequency the front end receives
    granted,    \* every channel granted on the air so far
    excuse      \* what may keep this call from being left: see StrandedHasCause

receiver == <<trunked_state, freq_table, tuned>>
vars == <<calls, pipe, duq, receiver, granted, excuse>>

-----------------------------------------------------------------------------
(* The site.                                                               *)

Active == {SiteFreq(ch) : ch \in calls}

\* A data unit is sent on a frequency.  The receiver gets it if it is tuned
\* there, unless it fades; a block with a wrong CRC is dropped before the queue.
Send(unit) ==
    IF tuned # unit.on THEN UNCHANGED <<pipe, excuse>>
    ELSE \/ /\ Len(pipe) < MaxPipe
            /\ pipe' = Append(pipe, unit)
            /\ UNCHANGED excuse
         \/ /\ pipe' = pipe
            /\ excuse' = IF unit.type \in Terminators THEN "terminator lost" ELSE excuse

\* Opcodes 0x34 and 0x3d announce a table, 0x02 grants; the rest changes
\* nothing that steers the receiver.
Tsbk(op) == [type |-> TSBK, tsbk |-> op, on |-> CcFreq]
Iden(id) == [op |-> "iden_up", iden |-> id]
Grant(ch) == [op |-> "grant", ch1 |-> ch]
Status == [op |-> "status"]

Broadcast ==
    \/ /\ \E op \in {Iden(id) : id \in DOMAIN Plan} \cup {Status} : Send(Tsbk(op))
       /\ UNCHANGED <<calls, duq, receiver, granted>>
    \/ \E ch \in calls :
          /\ Send(Tsbk(Grant(ch)))
          /\ granted' = granted \cup {ch}
          /\ UNCHANGED <<calls, duq, receiver>>

StartCall ==
    /\ \E ch \in ChannelIds \ calls : calls' = calls \cup {ch}
    /\ UNCHANGED <<pipe, duq, receiver, granted, excuse>>

Talk ==
    /\ \E ch \in calls : Send([type |-> LDU, on |-> SiteFreq(ch)])
    /\ UNCHANGED <<calls, duq, receiver, granted>>

EndCall ==
    /\ \E ch \in calls, t \in Terminators :
          /\ Send([type |-> t, on |-> SiteFreq(ch)])
          /\ calls' = calls \ {ch}
    /\ UNCHANGED <<duq, receiver, granted>>

-----------------------------------------------------------------------------
(* p25_frame_assembler::process_duid, on the flow graph's thread.          *)

Announce ==
    /\ pipe # << >>
    /\ pipe' = Tail(pipe)
    /\ IF Len(duq) < QueueLimit
       THEN duq' = Append(duq, Head(pipe)) /\ UNCHANGED excuse
       ELSE /\ duq' = duq
            /\ excuse' = IF Head(pipe).type \in Terminators /\ Head(pipe).on = tuned
                         THEN "terminator lost" ELSE excuse
    /\ UNCHANGED <<calls, receiver, granted>>

-----------------------------------------------------------------------------
(* du_queue_watcher and process_data_unit.                                 *)

\* Tuning may fail: set_freq says so in a result nobody looks at.
Retune(f) ==
    \/ /\ tuned' = f
       /\ excuse' = IF f = CcFreq \/ f \in Active THEN "none" ELSE "call already over"
    \/ tuned' = tuned /\ excuse' = "tuning failed"

\* channel_id_to_frequency, and change_freq for the frequency it returns.
Frequency(ch) == freq_table[ch.table].frequency + freq_table[ch.table].step * ch.channel

ChangeFreq(ch) ==
    IF ch.table \in DOMAIN freq_table /\ trunked_state = "CC"
    THEN trunked_state' = "TO_VC" /\ Retune(Frequency(ch))
    ELSE UNCHANGED <<trunked_state, tuned, excuse>>

WithTable(id) == [i \in DOMAIN freq_table \cup {id} |->
                    IF i = id THEN Plan[i] ELSE freq_table[i]]

\* decode_tsbk, then the return to CC: the two never both change the state.
HandleTsbk_AnyState(u) ==
    /\ freq_table' = IF u.tsbk.op = "iden_up" THEN WithTable(u.tsbk.iden) ELSE freq_table
    /\ IF trunked_state = "CC"
       THEN IF u.tsbk.op = "grant" THEN ChangeFreq(u.tsbk.ch1)
            ELSE UNCHANGED <<trunked_state, tuned, excuse>>
       ELSE trunked_state' = "CC" /\ UNCHANGED <<tuned, excuse>>
HandleTsbk(u) ==
    /\ freq_table' = IF u.tsbk.op = "iden_up" THEN WithTable(u.tsbk.iden) ELSE freq_table
    /\ IF trunked_state = "TO_CC"
       THEN trunked_state' = "CC" /\ UNCHANGED <<tuned, excuse>>
       ELSE IF u.tsbk.op = "grant" THEN ChangeFreq(u.tsbk.ch1)
       ELSE UNCHANGED <<trunked_state, tuned, excuse>>

\* Any other data unit: the call is up, and a terminator ends it.
EndsCall_OnlyTdu(u) == u.type = TDU
EndsCall(u) == u.type \in Terminators

HandleVoice_AnyState(u) ==
    /\ UNCHANGED freq_table
    /\ IF EndsCall(u)
       THEN trunked_state' = "TO_CC" /\ Retune(CcFreq)
       ELSE trunked_state' = "VC" /\ UNCHANGED <<tuned, excuse>>
HandleVoice(u) ==
    /\ UNCHANGED freq_table
    /\ IF trunked_state \notin {"TO_VC", "VC"}
       THEN UNCHANGED <<trunked_state, tuned, excuse>>
       ELSE IF EndsCall(u)
       THEN trunked_state' = "TO_CC" /\ Retune(CcFreq)
       ELSE trunked_state' = "VC" /\ UNCHANGED <<tuned, excuse>>

Handle ==
    /\ duq # << >>
    /\ duq' = Tail(duq)
    /\ IF Head(duq).type = TSBK THEN HandleTsbk(Head(duq)) ELSE HandleVoice(Head(duq))
    /\ UNCHANGED <<calls, pipe, granted>>

-----------------------------------------------------------------------------
\* The front end starts on the control channel: by hamlib.set_freq, or by the
\* operator's --freq when there is no rig.
Init ==
    /\ calls = {} /\ pipe = << >> /\ duq = << >>
    /\ trunked_state = "CC" /\ freq_table = << >> /\ tuned = CcFreq
    /\ granted = {} /\ excuse = "none"

Next == Broadcast \/ StartCall \/ Talk \/ EndCall \/ Announce \/ Handle

Spec == Init /\ [][Next]_vars

-----------------------------------------------------------------------------
(* Correctness.                                                            *)

\* The receiver leaves the control channel only for a channel the site granted,
\* at the frequency the site gave that channel (trunking.py:52-57, 106-114).
\* In state CC, where alone a grant is obeyed, it is on the control channel: no
\* control block still queued from before a retune puts the state back to CC
\* (scope.py:661-663), whatever tuning failed.
TunedAsGranted ==
    tuned # CcFreq =>
        /\ trunked_state # "CC"
        /\ \E ch \in granted : tuned = SiteFreq(ch)

\* A call is left because of a terminator received on that call's own
\* frequency: terminators of the call before it, still queued when the next
\* grant is obeyed, do not end it (scope.py:666-669).
LeavesOnOwnTerminator ==
    [][trunked_state # "TO_CC" /\ trunked_state' = "TO_CC" =>
          duq # << >> /\ Head(duq).on = tuned]_vars

\* There is no timer.  When nothing more will be received on the frequency the
\* receiver waits on, one of three things happened: the call was over before
\* the receiver got there, a terminator was lost (faded, or refused by the
\* full queue), or tuning failed.  Nothing else strands the receiver.
Stranded ==
    /\ trunked_state # "CC" /\ pipe = << >> /\ duq = << >>
    /\ tuned \notin Active
    /\ trunked_state = "TO_CC" => tuned # CcFreq
StrandedHasCause == Stranded => excuse # "none"
=============================================================================
