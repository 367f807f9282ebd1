-------------------------- MODULE P25FrameAssembler --------------------------
(***************************************************************************)
(* repeater/src/lib/repeater_p25_frame_assembler.cc: what becomes of each  *)
(* frame its P25Framer returns.  Data units and decoded trunking blocks    *)
(* are announced on a bounded gr_msg_queue that a Python thread reads      *)
(* (du_queue_watcher), the voice of an LDU leaves as one UDP datagram, and *)
(* without do_imbe every frame leaves packed into bytes.                   *)
(***************************************************************************)
EXTENDS P25Framer

CONSTANTS
    Announced,   \* the duids announced as they are: TDU, LDU1, LDU2, TDU+LC
    Ldus,        \* the duids with voice
    Tsbk,        \* the duid of trunking frames
    TsbkMin,     \* <<360, 576, 720>>: frame sizes from which a block is decoded
    BlockBits,   \* bits of a trunking block: 196
    CodewordEnd, \* for each voice codeword, the bits of the frame it needs
    QueueLimit   \* limit of the message queue: 100

ASSUME AssemblerAssumption ==
    /\ Announced \subseteq Duids /\ Ldus \subseteq Duids /\ Tsbk \in Duids
    /\ Tsbk \notin Announced
    /\ TsbkMin \in Seq(Nat) /\ BlockBits \in Nat \ {0} /\ CodewordEnd \in Seq(0..VoiceSize)
    /\ QueueLimit \in Nat \ {0}

VARIABLES
    d_do_imbe,   \* the mode the block was made with
    stage,       \* "rx" between frames, then "frame" and "announce"
    todo,        \* the messages of this frame still to send
    room,        \* full_p said no, the message is about to be inserted
    msgq, seen,  \* the queue, and what its reader has taken
    due,         \* every message that was to be sent so far
    dropped,     \* a full queue made process_duid drop one
    write_buf,   \* codewords waiting for a datagram
    sent         \* datagrams handed to sendto

asmVars == <<d_do_imbe, stage, todo, room, msgq, seen, due, dropped, write_buf,
             sent>>
vars == <<framerVars, asmVars>>

-----------------------------------------------------------------------------
(* Trunking blocks.                                                        *)

\* bv1 is the frame without its status dibits: the bits of the frame that
\* must have been received for bit k of bv1 to be there.
RawBitsFor(k) ==
    LET d == k \div 2 IN 2 * (d + d \div (FsSyms + StatusSym - 1) + 1)

BlockBegin(b) == HdrBits + (b - 1) * BlockBits
BlockEnd(b) == RawBitsFor(BlockBegin(b) + BlockBits - 1)

\* The blocks tried for a frame of this size.  A longer frame is cut to the
\* size of the last block first, which changes nothing here.
Tried_Early(size) == {b \in DOMAIN TsbkMin : size >= BlockBegin(b)}
Tried(size) == {b \in DOMAIN TsbkMin : size >= TsbkMin[b]}

\* 360, 576 and 720 are past the ends of the first, second and third block.
ASSUME BlocksFit == \A b \in DOMAIN TsbkMin : BlockEnd(b) <= TsbkMin[b]

Message(b) == [duid |-> duid, start |-> start, block |-> b]

\* What may be decoded of a trunking frame: some of the blocks tried, those
\* whose trellis code and CRC are right, in the order they are tried.
Decoded ==
    {s \in UNION {[1..n -> Tried(frame_size)] : n \in 0..Len(TsbkMin)} :
        \A i, j \in DOMAIN s : i < j => s[i] < s[j]}

\* The messages a frame may give.
Messages ==
    IF duid \in Announced THEN {<<Message(0)>>}
    ELSE IF duid = Tsbk THEN {[i \in DOMAIN s |-> Message(s[i])] : s \in Decoded}
         ELSE {<< >>}

-----------------------------------------------------------------------------
(* general_work, dibit by dibit.                                           *)

Receive ==
    /\ stage = "rx"
    /\ RxAny
    /\ stage' = IF rc' THEN "frame" ELSE "rx"
    /\ UNCHANGED <<d_do_imbe, todo, room, msgq, seen, due, dropped, write_buf, sent>>

Dispatch ==
    /\ stage = "frame"
    /\ todo' \in Messages
    /\ due' = due \o todo'
    /\ stage' = "announce"
    /\ UNCHANGED <<framerVars, d_do_imbe, room, msgq, seen, dropped, write_buf, sent>>

\* process_duid: full_p, and the message is dropped if it says so.
CheckFull ==
    /\ stage = "announce" /\ todo # << >> /\ ~room
    /\ IF Len(msgq) < QueueLimit
       THEN room' = TRUE /\ UNCHANGED <<todo, dropped>>
       ELSE room' = FALSE /\ todo' = Tail(todo) /\ dropped' = TRUE
    /\ UNCHANGED <<framerVars, d_do_imbe, stage, msgq, seen, due, write_buf, sent>>

\* insert_tail, which would wait for room in a full queue.
Insert_AtHead ==
    /\ stage = "announce" /\ room
    /\ Len(msgq) < QueueLimit
    /\ msgq' = <<Head(todo)>> \o msgq
    /\ todo' = Tail(todo)
    /\ room' = FALSE
    /\ UNCHANGED <<framerVars, d_do_imbe, stage, seen, due, dropped, write_buf, sent>>
Insert ==
    /\ stage = "announce" /\ room
    /\ Len(msgq) < QueueLimit
    /\ msgq' = Append(msgq, Head(todo))
    /\ todo' = Tail(todo)
    /\ room' = FALSE
    /\ UNCHANGED <<framerVars, d_do_imbe, stage, seen, due, dropped, write_buf, sent>>

\* The codewords imbe_deinterleave takes from frame_body; old says that some
\* of its bits were not received with this frame.
Codewords ==
    [c \in DOMAIN CodewordEnd |->
        [start |-> start, cw |-> c, old |-> CodewordEnd[c] > frame_size]]

\* One datagram for as many codewords as an LDU has.  The frame's last step:
\* the next dibit is read.
Finish_EachCodeword ==
    /\ stage = "announce" /\ todo = << >>
    /\ stage' = "rx"
    /\ IF d_do_imbe
       THEN /\ write_buf' = write_buf
            /\ sent' = IF duid \in Ldus
                       THEN sent \o [c \in DOMAIN Codewords |-> <<Codewords[c]>>] ELSE sent
       ELSE /\ sent' = Append(sent, start) /\ UNCHANGED write_buf
    /\ UNCHANGED <<framerVars, d_do_imbe, todo, room, msgq, seen, due, dropped>>
Finish ==
    /\ stage = "announce" /\ todo = << >>
    /\ stage' = "rx"
    /\ IF d_do_imbe
       THEN LET buf == IF duid \in Ldus THEN write_buf \o Codewords ELSE write_buf
                full == Len(buf) >= Len(CodewordEnd)
            IN  /\ sent' = IF full THEN Append(sent, buf) ELSE sent
                /\ write_buf' = IF full THEN << >> ELSE buf
       ELSE sent' = Append(sent, start) /\ UNCHANGED write_buf
    /\ UNCHANGED <<framerVars, d_do_imbe, todo, room, msgq, seen, due, dropped>>

\* du_queue_watcher takes a message.
Watch ==
    /\ msgq # << >>
    /\ seen' = Append(seen, Head(msgq))
    /\ msgq' = Tail(msgq)
    /\ UNCHANGED <<framerVars, d_do_imbe, stage, todo, room, due, dropped, write_buf, sent>>

AsmInit ==
    /\ Init
    /\ d_do_imbe \in BOOLEAN /\ stage = "rx" /\ todo = << >> /\ room = FALSE
    /\ msgq = << >> /\ seen = << >> /\ due = << >> /\ dropped = FALSE
    /\ write_buf = << >> /\ sent = << >>

AsmNext == Receive \/ Dispatch \/ CheckFull \/ Insert \/ Finish \/ Watch

AsmSpec == AsmInit /\ [][AsmNext]_vars

-----------------------------------------------------------------------------
(* Properties.                                                             *)

\* A trunking block is only decoded from bits received with its own frame.
BlocksFresh ==
    \A i \in DOMAIN todo :
        todo[i].block > 0 => BlockEnd(todo[i].block) <= frame_size

\* What the reader sees is in order of reception: by frame, and by block in a
\* frame, each at most once; a message is missing only when the queue was full.
Before(a, b) == a.start < b.start \/ (a.start = b.start /\ a.block < b.block)
AnnouncedInOrder ==
    LET all == seen \o msgq \o todo
    IN  /\ \A i \in 1..Len(all) - 1 : Before(all[i], all[i + 1])
        /\ ~dropped => all = due

\* Every datagram of voice is one LDU: a frame cut short by a sync does not
\* shift the codewords of the frames after it across datagrams.
DatagramIsLdu ==
    /\ write_buf = << >>
    /\ d_do_imbe => \A i \in DOMAIN sent :
          /\ Len(sent[i]) = Len(CodewordEnd)
          /\ \A c \in DOMAIN sent[i] : sent[i][c].cw = c /\ sent[i][c].start = sent[i][1].start

\* repeater_p25_frame_assembler.cc:263, of the test of rx_sym's result:
\* "complete frame was detected".  The voice sent on is the frame's own.
VoiceIsFresh ==
    d_do_imbe => \A i \in DOMAIN sent : \A c \in DOMAIN sent[i] : ~sent[i][c].old
=============================================================================
