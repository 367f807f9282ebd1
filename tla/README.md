# OP25 in TLA+

OP25 receives and sends APCO Project 25 digital radio with GNU Radio. These
modules model the parts of it that keep state between samples, packets and
calls, and whose errors show only in a certain order of events. Each module is
written from the source file named in its first comment and keeps its names
(`rxkey`, `next_bit`, `d_ramped`); `PROJECT.json` maps every definition to the
lines it stands for. Paths below are relative to `src/`; `lib/` is
`repeater/src/lib/`, `blocks/` is `blocks/src/lib/`, `python/` is
`repeater/src/python/`.

## 1. Inventory

### The system

    radio ── demodulator ── slicer ── dibits ─┬─ P25 framer ── assembler ─┬─ UDP: voice lines, frames
                                              │      (repeater tree)      └─ message queue ── call follower
                                              └─ decoder ── voice ─ snapshot ─ p25cai handlers      (retunes
                                                     (blocks tree)   └─ message queue ── watcher     the radio)

    FM radio ── CTCSS squelch ── chan_usrp_rx ──UDP──┐
                                                     ├── chan_usrp.c ── Asterisk
    P25 or FM transmitter ────── chan_usrp ─────UDP──┘   (channel driver)

Every GNU Radio block runs on one flow graph thread, which calls its
`general_work` with as many items as the scheduler likes. Python threads call
methods of blocks (`unkey`, `set_ramp`) and read the bounded `gr_msg_queue`s
the blocks fill. Asterisk calls the driver on threads of its own and holds a
channel's lock over a callback, but no lock over the driver's table. The two
ends of a UDP link know each other only by sequence numbers and a `keyup` flag.

### Components

| component | state | operations | hard behaviour | what makes it correct |
|---|---|---|---|---|
| channel driver, `lib/chan_usrp.c` | `struct usrp_pvt`: `txkey`, `rxkey`, `unkey_owed`, `send_seqno`, `rxseq`, `rxq` | `usrp_request`, `usrp_call`, `usrp_hangup`, `usrp_xread`, `usrp_xwrite`, `usrp_indicate` | keying inferred from a countdown, overload, refused `sendto`, hangup while keyed | Asterisk hears well-formed transmissions, in order, each with an end; the radio is not left keyed |
| its table, `usrp_channels[]` | entries, sockets, memory | scan and store, find and clear, free | no lock, early returns | a live channel is never freed or shared; ports come back |
| transmitter end, `lib/repeater_chan_usrp.cc` | `d_keyup_state`, `d_expected_seq`, `codeword_ct`, `frame_cnt`, output queues | `general_work` | lost, doubled, late datagrams, datagrams of a size it refuses; transmissions that end within a voice frame | keyed while it should be; whole voice frames in turn; no false alarm |
| receiver end, `lib/repeater_chan_usrp_rx.cc` | sample buffer, `d_sendseq` | `general_work`, `unkey` | two threads without a lock | no sample lost or doubled; alarms have a cause |
| framer, `lib/p25_framer.cc` | `nid_accum`, `nid_syms`, `next_bit`, `frame_body`, `reverse_p` | `rx_sym` | syncs anywhere; frames cut short | frames at the right place, of their own bits only, none lost |
| assembler, `lib/repeater_p25_frame_assembler.cc` | message queue, datagram under way | `general_work`, `process_duid` | bounded queue, short frames, several blocks in a frame | messages in order, never blocking; blocks and voice decoded from received bits |
| decoder, `blocks/op25_decoder_bf.cc` and handlers | `d_state`, `d_frame_hdr`, `d_data_unit`, count, queue | `general_work`, `receive_symbol`, three `handle`s | a queue that blocks the decoder; exceptions end the program | every frame once, aligned; the thread comes back |
| call follower, `python/scope.py`, `trunking.py` | `trunked_state`, `freq_table`, the frequency tuned | `process_data_unit`, `decode_tsbk`, `change_freq` | acts on data units received before it retuned; no timer; failed tuning | control blocks obeyed only on the control channel; calls left by their own end |
| CTCSS squelch, `lib/repeater_squelch_base_ff.cc` | `d_state`, `d_ramped`, `d_envelope`, `d_ramp` | `general_work`, `set_ramp` | the ramp changes while it runs | opens and closes in bounded time, with a fade |
| automatic tuning, `blocks/op25_fsk4_demod_ff.cc`, `src/python/audio_p25_rx.py` | the tracker's two offsets, the message queue, the filter's centre | `general_work`, `adjust_channel_offset`, `set_channel_offset` | corrections asked for before the last one shows; clicks beside the watcher thread | the filter is on the channel shown; it settles on the carrier without overshooting |
| codes of the air interface, `lib/bch.cc`, `blocks/op25_golay.h`, `op25_hamming.h`, `op25_imbe_frame.h`, `tsbk_deinterleave`, `src/python/p25craft.py` | none | encode, decode, interleave | patterns of noise nobody tested | what the codes can undo is undone; nothing else is passed for right |
| vocoder block, `lib/repeater_vocoder.cc` | sample, codeword and line buffers | `general_work`, `append_imbe_codeword`, `rxchar` | cut lines, sample rate slew | the far vocoder hears what was said; the queues are not modelled |
| Wireshark dissector, `wireshark/plugins/p25/packet-p25cai.c` | none | one call per packet | trusts a flag under noise | shows the blocks and codewords that are in the frame |
| pipe block, `lib/repeater_pipe.cc` | two pipes, static byte counters | `general_work` | stalls, partial writes, end of file | not modelled |
| stream to vector, `lib/repeater_s2v.cc` | one buffer | `general_work` | more than a block in the buffer | not modelled |

The components not worth a model, each with its reason, are in `PROJECT.json`:
slicers, filters and tone detectors (floating point), the voice codecs, the
display of data units, the GUIs and the TDMA scripts. `audio/`, `doc/` and the
build files are data, and so is `lib/waveforms.h`, a generated table of sampled
tones: nine tenths of all lines of the repository.

### Hazards

`PROJECT.json` lists, under "hazards", what is hard to test in this code, each
at the line where it bites, with the properties that would catch it or the
reason why none does.

## 2. Modules

    PttOps ── PttStream          abstract push-to-talk stream
       └───── ChanUsrp ── ChanUsrpSystem ── MCChanUsrp, ChanUsrpProofs
                 ├── UsrpDownlink ── MCUsrpDownlink   Asterisk to air, with RadioTx
                 ├── UsrpUplink ──── MCUsrpUplink     air to Asterisk, with RadioRx
                 └── UsrpLinkProofs                   about both links
    UsrpChannels ── MCUsrpChannels, UsrpChannelsProofs
    P25Framer ── P25FrameAssembler ── MCP25FrameAssembler, P25FramerProofs
    Op25Decoder ── MCOp25Decoder, Op25DecoderProofs
    TrunkFollower ── MCTrunkFollower, TrunkFollowerProofs
    Squelch ── MCSquelch, SignalProofs
    AutoTune ── MCAutoTune, SignalProofs
    BitCode ─┬─ NidCode ──────────────────┬─ AirFrame ── MCAirFrame, AirFrameProofs
             └─ ImbeCode, TsbkCode ── Dissector

An `MC` module and its `.cfg` files give the constants small values. A
definition named `Name_Variant` is a plausible slip in the definition `Name`
that follows it; "mutants" in `PROJECT.json` says which property notices it.

**ChanUsrp** is one channel of the driver. A callback of Asterisk is one action,
because Asterisk holds the channel's lock over it. `rxq` is the list of received
audio, `readq` the frames given to `ast_queue_frame` and not read yet, `wire` the
datagrams on their way. Audio is a number that names its packet. `Xwrite` is
written as the code is: the overload check, then a `RADIO_KEY` if `rxkey` was 0,
the voice, a `RADIO_UNKEY` if `rxkey` is 1, the countdown, and the packet to the
radio. That packet is as long as the frame was: the driver refuses only frames of
more than 320 bytes (line 482), so its audio is a whole frame, nothing
(`NoVoice`) or some other length (`OddSize`). **ChanUsrpSystem** adds the neighbours: any datagram may arrive, Asterisk
may do anything at any time, `sendto` may fail. **PttStream** is what such a
driver promises (a KEY, audio, an UNKEY, and again), and `ImplementsPtt` is the
refinement, with the kinds of the frames in `readq` as its items.

**UsrpChannels** is the table with the calls of several threads, one entry of
the table per step, memory that `malloc` hands out again, and the ports.
History variables say whether two requests overlapped and whether
`ast_channel_alloc` failed.

**UsrpDownlink** composes a channel with the transmitter end **RadioTx** over a
network that loses, doubles and reorders; **UsrpUplink** composes the receiver
end **RadioRx** with a channel. In `RadioRx` the read and the write of
`d_sendseq++` are steps of their own, and the threads of `general_work` and
`unkey` take them in any order. In `RadioTx` a datagram is taken (`TxTake`) or,
if it is neither a header nor a header with a frame of audio, refused with
nothing changed (`TxRefuse`). The faults that happened are counted, so that a
property can name its excuses.

**P25Framer** is `rx_sym`, one action per dibit. A dibit is its place in the
stream, so that a property can tell where every bit of a frame comes from.
Whether 24 dibits look like a sync, and what the BCH code makes of a NID, is
chosen freely. **P25FrameAssembler** extends it with `general_work` and
`process_duid`: the message queue and its reader, trunking blocks whose CRC may
fail, and the datagrams.

**Op25Decoder** is the other decoder: `receive_symbol` with its three states,
the data unit under way, and the handlers, a step each, since one may wait. Its
reader is `decode_watcher` of `python/audio_p25_rx.py`.

**TrunkFollower** is the state machine in `scope.py` with the part of
`trunking.py` that steers it, and a trunked site: calls begin and end, the
control channel announces tables and grants, data units fade. Between antenna
and watcher are the flow graph (`pipe`) and the message queue (`duq`); each data
unit carries the frequency it was received on, which the code does not know.

**Squelch** is the envelope of the squelch, one action per sample, with the
tone detector answering freely every `DetectorLen` samples. A ramp of 0 means
none, as in the code. `switched` is a history variable: how `set_ramp` turned the
ramp on and off.

**AutoTune** is the loop that keeps a receiver on its carrier: the filter, the
frequency tracker of the demodulator with its fast and its slow average, a queue
of two messages, the watcher thread, and back to the filter. The watcher reads
the channel in one step and tunes in another, and a click of the operator, two
statements on the window's thread, may come anywhere between. Frequencies are
whole steps, and how far the slow average has come at the end of a work call is
chosen freely short of the offset.

**NidCode**, **ImbeCode** and **TsbkCode** are the codes as functions on words
of bits, a word being the set of its ones (**BitCode**): the BCH decoder with the
rows of its iteration and the row it would write past its table, Golay, Hamming,
the scrambler, the interleavers, the trellis and the CRC, as encoders and as
decoders. **Dissector** is the part of the Wireshark dissector that takes a
frame apart. **AirFrame** sends one frame through them: from the vocoder block, a
radio, or `p25craft.py`, through a set of inverted bits, to the framer, the
assembler and the vocoder at the far end, or to the dissector.

## 3. Runs

| run | question | expected |
|---|---|---|
| `chan` | One channel and any neighbours: are transmissions well formed and in order, does an overload end one, does each end, what can leave the radio keyed? | pass |
| `channels` | Three threads, two entries: what does the missing lock break, what not? | pass |
| `downlink` | When is the transmitter keyed, are losses reported falsely, do voice frames hold the audio? | pass |
| `uplink` | Do two unlocked threads lose audio; what causes a loss report? | pass |
| `assembler` | Is the framer aligned, are frames their own, are messages in order? | pass |
| `assembler_voice` | Is voice decoded from complete frames (`lib/repeater_p25_frame_assembler.cc:263`)? | violation |
| `decoder` | Does the decoder find every frame once, in all its handlers, and come back? | pass |
| `trunk` | Which channel is the receiver on, why did it leave the last one, what strands it? | pass |
| `squelch` | Does it open and close in bounded time, with a fade, while the ramp changes? | pass |
| `autotune` | Does the loop settle on the carrier of the channel shown, without overshooting and without ever stopping the demodulator? | pass |
| `airframe` | Which noise do the codes undo, what do they let pass, and do transmitters, receiver and dissector mean the same bits? | pass |
| `airframe_voice` | Does the far vocoder get the 88 bits the encoder gave (`lib/repeater_p25_frame_assembler.cc:324`)? | violation |

### What they show

- **Keying (chan).** `rxkey` counts down to the end of a transmission, and
  `RxKeyMatchesStream` says it is nonzero exactly when Asterisk, once it has read
  all that is queued, is inside one. With it, no order of datagrams, overloads
  and calls makes the driver key twice or speak outside a transmission
  (`ImplementsPtt`), and every transmission ends (`TransmissionEnds`).
- **Stranded transmitters (chan, downlink).** The radio stays keyed with nobody
  to unkey it only after a hangup with an unkey owed, a refused `sendto` or a
  fault of the network. `repeater_chan_usrp` computes a time at which to give up
  (`d_timeout_time`) and never looks at it, so these are not repaired.
- **Frames of another length (downlink).** The driver numbers and sends a frame
  of any length up to 320 bytes (`chan_usrp.c:482`, 564). The radio takes a
  header alone or with exactly 320 bytes, and refuses every other datagram before
  it looks at its flag and its number (`repeater_chan_usrp.cc:226`). So a talk of
  short frames keys nothing, though the driver owes an unkey for it: the
  transmitter is keyed from the first frame that is whole or empty
  (`KeyedOnlyWhileOwed`, whose `keyFrame` remembers that one was sent). And the
  packet after a refused one is reported as a possible data loss though nothing
  was lost; `NoFalseAlarm` says that this is the only report of its kind.
- **The unkey packet.** `usrp_indicate` pays an owed unkey also when the channel
  is keyed again: a second `RADIO_KEY` unkeys the radio until the next frame. The
  comment at `chan_usrp.c:340` says "tx was unkeyed". The model does what the
  code does, and nothing else depends on it.
- **"Do we need locking for this?" (channels).** The comments at lines 282 and
  306 ask. Hangups need no lock against each other or against one request. Two
  requests between scan and store do: one hides the other from `usrp show`. A
  failed `ast_channel_alloc` leaves an entry that names freed memory. Nothing of
  this touches the channels themselves (`ChannelsAreOwn`), and a port is lost
  only with a call refused for want of an entry (`PortsAccounted`).
- **"Need to lock this?" (uplink).** The race for `d_sendseq` costs no audio; it
  makes the driver report losses that did not happen, and only when packets of
  the two threads overlapped (`AlarmHasCause`).
- **Frames (assembler).** A frame is made of its own dibits at their own places,
  also when a sync cuts it short, and every frame begun is returned. But an LDU
  cut short is decoded in full, from what `frame_body` still holds of earlier
  frames (`assembler_voice`): `general_work` takes any true result of `rx_sym`
  for a "complete frame".
- **The queues (assembler, decoder).** The assembler asks `full_p` before
  `insert_tail`, which is safe because it alone fills the queue; what it drops
  is the call follower's loss. The snapshot handler waits instead, and holds up
  the decoder until its watcher reads (`WorkReturns`). Its count is of the
  messages it sent, not "of the data units seen so far"
  (`blocks/snapshot_du_handler.h:81`).
- **Calls (trunk).** Data units received before a retune are handled after it.
  Still the state is CC only on the control channel and a call is left only by
  its own terminator, since the terminator that ends a call is the last data
  unit received on its channel before the queue turns over to the next. There
  is no timer: a call that was over too soon, a lost terminator or failed tuning
  strands the receiver, and nothing else (`StrandedHasCause`).
- **The squelch (squelch).** `usrp_rx.py:101` makes its squelches without a ramp,
  and `set_ramp` may turn one on, off or to another length at any sample. Without
  a ramp, or with one of any length that changes as it likes, the squelch closes
  in bounded time (`QuietWithoutTone`) and opens (`OpenWithTone`). There is one
  exception. The fade out ends when its counter is exactly 0
  (`repeater_squelch_base_ff.cc:77`). A squelch that opened without a ramp has not
  counted up; turned on then, a ramp makes the counter pass below 0, and sound goes
  on with no tone, against "gate or zero output if ctcss tone not present"
  (`repeater_ctcss_squelch_ff.h:36`). So both properties excuse a ramp turned on
  *late*: while the squelch is not shut, or after a ramp was turned off
  (`switched` keeps the record). Both halves are needed. Without the first TLC
  finds the decay that never ends. Without the second it finds one that is too
  long: a ramp turned off leaves the counter where it stood, and one turned on
  after that counts on from there, one further each time. A ramp
  turned off also leaves the envelope where it was, so the squelch may be open
  at less than full volume; and a squelch made without a ramp rests at an
  envelope of one, so that it does not fade once a ramp is turned on
  (`FadesFromZero` is about ramps that never were).
- **Tuning (autotune).** The tracker asks for corrections faster than they show,
  up to `QueueLimit + 2` of them, and still none goes past the carrier
  (`NoOvershoot`), because each one replaces the last instead of adding to it.
  For the same reason the loop settles only on carriers at most two deadbands
  off: beyond that a correction short of the carrier is asked for again and
  again, and the errors of the run are chosen within. A click between the
  watcher's reading and its tuning leaves the filter on the channel before; no
  other order does (`FilterOnChannel`). `full_p` before `insert_tail` keeps the
  demodulator going (`DemodKeepsUp`).
- **Codes (airframe).** Up to eleven wrong bits of a NID are put right and
  counted (`ReadAsSent`), a NID that is accepted is as far from the received one
  as the count says, and the decoder never writes past its rows, not even for
  the word chosen to drive it there (`NidExact`). The 64th bit of the NID is kept as it
  was received. Bursts of 17 bits cost none of the four vectors that matter most
  and of 5 bits none but the last, wherever they hit (`BurstTolerated`). A block
  that arrives undisturbed is passed on whatever became of the others
  (`CleanBlocksKept`), and under the noise of the run one with a wrong bit left
  is not (`ReadAsSent`), but the dissector, which checks no CRC, shows it; a lost last-block flag makes it run into its
  assertion and show none. `imbe_header_decode` always reports 0 errors, so that
  the muting of the software decoder never acts.
- **The last vector (airframe_voice).** The encoder shifts the seven bits of `u7`
  down by one, as it expects them shifted up; the vocoder gives them unshifted.
  Without any noise the far end gets half of `u7`.

### Bounds

Bounds cut off behaviour in guards or in `.cfg` values, and each is large enough
for the case its properties are about:

- `chan`: a countdown of 4 (the code's 4), an overload threshold of 2 with room
  for 4 in `rxq`, so that an overload can happen in and out of a transmission;
  sequence numbers modulo 2, so that they wrap all the time; 5 packets of audio,
  enough for a transmission after an overload.
- `downlink`, `uplink`: numbers modulo 3 wrap and pass 0; 2 faults together;
  voice frames of 2 codewords instead of 9, with 4 packets, so that two frames
  fill, each packet whole, empty or of another size; packets of 2 samples instead of 160, with 4 packets and 2 unkeys.
- `channels`: 3 threads, 3 blocks and 3 ports on 2 entries: the table fills, and
  freed memory is handed out again. Threads, blocks and ports are symmetric.
- `assembler`: syncs of 2 dibits, NIDs of 3 with a status dibit, frames of at
  most 10 dibits, streams of 14: a frame, a frame cut short, and what follows.
  The sizes of the code (48, 112, 196, 360, 576, 720) are checked as an
  assumption of the MC module.
- `decoder`: frames of 4 and 5 dibits in streams of 11: two frames with a false
  sync; a queue of 2, as in the code.
- `trunk`: two voice channels, 2 data units in the flow graph and 2 on the queue
  (100 in the code): enough for a retune with both queues full of older units.
- `squelch`: no ramp and ramps of 1, 2 and 4, a detector of 3 samples, and a
  counter of samples that stops at 12, above the 9 the properties wait. The
  counter of the ramp is followed to 12 (`MaxBeyond`) on either side of the
  ramps, three times the longest: it leaves them only after a late ramp.
- `autotune`: two channels, carriers one deadband below or two above, a deadband
  of 2 steps and a largest correction of 5, which leave the slow average room
  for a stop on its way; the queue of 2 as in the code; one work call of samples
  between filter and demodulator; one click and one drift at any time, enough
  for each to meet every stage of a correction.
- `airframe`: one talk of nine codewords, which differ in the vectors the
  scrambler starts from, and one, two or three trunking blocks. The noise is
  none; bursts of 5 and 17 bits at each place of the NID and the first codeword,
  where a trunking frame has most of its first block, and at regular distances
  over the rest; bursts of 11 to 13
  bits over the NID, around what its code corrects; forty bits at equal
  distances; and the one word whose first twenty syndromes vanish. The codes are
  not scaled down: all words have the size they have on the air. A DUID that
  the dissector misreads is left out.

The assumptions named in the modules are of two kinds. Those on constants say
what the code's own values satisfy; `AirAssumption` says that talks and signals
have the widths the codes take, and that a frame can be disturbed anywhere. Those
without a constant are facts about tables of the code that the proofs use and
TLC computes on each run: `GolayDistance` and `HammingDistance` (how far apart
words of these codes are), `FieldTables` (the tables of the BCH field add and
square as a field does), `CrcUnits` (a row of the CRC is the check bit it
stands for), `WordsApart` (no two words of the trellis are equally near to one
that was sent) and `PresetApart` (no preset bit of a voice frame lies in a
codeword).

### Fairness

Three runs check liveness. `chan` assumes weak fairness of `Write`,
`ReadFrame` and `Deliver`: a bridged channel is written a frame every 20 ms and
read, which is Asterisk's timing source and not the driver's. Nothing obliges
anybody to key, unkey, send or hang up. `decoder` assumes that the scheduler
runs a call of `general_work` it has started and that the watcher thread runs;
no call need ever start, and no dibit need arrive. `autotune` assumes that the
flow graph runs and that the watcher and the window's thread finish what they
have begun; nobody need click and no carrier need drift.

Deadlock is checked except where something ends: `assembler` and
`assembler_voice` have a finite stream, `airframe` and `airframe_voice` one
frame, and in `channels` the table may fill with channels nobody hangs up, while
all memory and ports are taken.

## 4. Proofs

The eight proof modules hold for every value of the constants allowed by the
named assumptions of the modules. Their arguments:

- **ChanUsrpProofs** (`TypeCorrect`, `RxKeyMatches`, `AudioInOrder`,
  `OverloadUnkeys`, `StrandedByTwo`, `RefinesPtt`): for every countdown,
  threshold, number of sequence numbers and length of the queues. The invariant
  is `RxKeyMatchesStream` with the types. It is inductive because what one
  `usrp_xwrite` queues is a legal continuation of what is queued and leaves the
  listener keyed exactly if the countdown goes on (`LegalConcat` and the lemmas
  about each burst); the refinement is then one `Emit`, `Hear` or `Close` of
  PttStream per step. The two action properties follow from the same invariant,
  one call of the driver at a time. `VoiceInOrder` is inductive with the types:
  of what one call queues at most one frame is voice, the first of `rxq`
  (`Burst`), so what it hands over stays between the frames queued and the rest.
- **UsrpChannelsProofs** (`TypeCorrect`, `Own`, `Accounted`, `Exact`): for
  every number of threads, entries, blocks and ports. The properties are not inductive: the
  invariant adds that two threads never work on one block, that every allocated
  block is a channel, is worked on or was lost, only one of these (`OwnBlock`,
  `Held`), and that ports and blocks match one to one (`PortsMatch`). For these it
  never mentions the table: no content of it can hurt a channel. What the table
  itself holds is `Exact`, and for that `InTable` follows each thread's scan: a
  hangup has not passed the entry of its channel, and the entry a request found
  is still free, as long as no two requests overlapped and none failed late.
- **P25FramerProofs** (`TypeCorrect`, `CountsInStep`, `Fresh`,
  `NidFromItsSync`, `FramesReturned`, `MessagesInOrder`, `BlocksWhole`,
  `OneLduPerDatagram`): for every length of sync and NID, every table of frame
  lengths, every stream and every limit of the queue. `FrameIsFresh` speaks only
  of the frame just returned; the invariant adds `BodyFresh`, the same of the
  frame under way. That `frame_body` is never left (`Place`) needs that the count
  of bits is even, as `VoiceSize` is. For the NID, `Collected` says dibit by dibit
  that the end of `nid_accum`, which no sync ever clears, is the NID so far. For
  the messages, `MInv` adds that a frame is begun at a later sync than any frame
  announced before. That a block lies wholly in its frame needs `BlocksFit`, an
  assumption on the sizes of blocks, which the sizes in the code satisfy
  (`CodeSizesFit`).
- **Op25DecoderProofs** (`FramesInStep`, `SyncsActedOn`, `FramesOnce`): for
  every length of sync and header, every table of frame lengths longer than the
  header, every stream and pace of the watcher. `Framing` with types is
  inductive except for which sync the decoder is busy with: `Heading` says it is
  the last one acted on, `FsLen` dibits into `d_frame_hdr`. From that, a sync that
  ends while the decoder does not search ends inside that frame or header.
  `FramesOnce` numbers the recognised frames: what came out of the handlers is
  the first so many of them, and the count is one short exactly while a frame is
  inside.
- **TrunkFollowerProofs** (`OnlyWhereGranted`, `CallsEndThemselves`,
  `StrandingExplained`): for every site plan, every set of channels, every
  length of the message queue and of the flow graph. The properties speak of the
  head of the queue only; the invariant says what may be anywhere in the two
  queues in each state. Waiting for a call, nothing of that call lies before the
  last control block, and nothing of another channel behind it; waiting for the
  control channel, the same the other way round (`Closed`, `Only`). It survives
  a retune because all that is queued then was received before. For
  `StrandingExplained` it adds that as long as there is no excuse the call is
  still on the air or its terminator is in a queue.
- **SignalProofs** (`Quiet`, `Open`, `Fades`; `FilterFollowsChannel`,
  `NeverOvershoots`). Squelch: for every detector length and every set of ramps,
  0 included, under a `set_ramp` at any sample. The invariant relates how long
  the detector's answer has stood to the place in the ramp (`Missing`,
  `Present`), as long as no ramp was turned on late: then a squelch without a ramp
  that never had one has not counted (`NoRamp`), and one that had or has one
  counts within its bounds (`Ramped`). AutoTune: for every
  set of channels, errors, deadband, queue and buffer. Followed through both
  threads, what a thread holds is for the channel shown or the race is on record
  (`Followed`); and with nobody interfering, every number anywhere on the loop,
  in the pipe, the average, the queue, the watcher or the filter, lies between
  the channel and the carrier (`LoopBounded`), which is why none can overshoot.
- **UsrpLinkProofs** (`AlarmsAreTrue`, `NeverLeftKeyed`, `FramesHoldTheAudio`;
  `AudioArrivesWhole`, `AlarmsExplained`): for every size of sequence space,
  queue, countdown, packet and voice frame. Downlink: as long as the network did
  nothing, each packet on the wire carries the number that its predecessor leads
  to, or 0 if it starts a channel, up to the number the driver sends next
  (`NumbersInStep`), whatever their sizes. The radio's own number is the one
  before them unless it has just refused a datagram, and then some number is
  (`InStepAfter`), which is why only the packet after a refused one can be
  reported. And the `keyup` flag of the last packet on the wire of a size the
  radio takes, or the state of the transmitter if there is none (`LastKey`), is
  set exactly while an unkey is owed for such a packet (`KeyOwed`).
  The voice frames are slices of the audio received (`AudioHeld`), whatever the
  network does. Uplink: `readq`, `rxq`, the network and the buffer each hold a
  range of the packets' audio, and the ranges join (`AudioKept`); it never
  mentions `d_sendseq`, which is why the race cannot cost a sample. For the
  alarms the invariant follows the number a thread holds between reading
  `d_sendseq` and `sendto`: as long as the threads did not overlap, only one
  holds one, and it is the number that the channel expects after what is on the
  network (`NumbersFollow`).

- **AirFrameProofs** (`VoiceDecodedAlways`, `BurstToleratedAlways`,
  `NidExactAlways`, `CleanBlocksKeptAlways`): for every talk, all data of
  trunking blocks and any noise in the frame, with nothing scaled down. *Voice.*
  A parity sum of rows is linear (`SumLinear`); so two words of the Golay code
  differ as the distance says, at most three errors have one correction, and a
  single error of the Hamming code has a row of its own. The place of a bit of a
  codeword in the frame is an injection, so the noise in a field is the noise at
  its places; and once `u0` is right the scrambler is the transmitter's.
  `VoiceInv` (`VoiceTraced`) says that the air is what was sent with the noise,
  and that what was heard and what waits are what the assembler makes of that.
  *Bursts.* A field's bits lie in columns of the interleaver; a burst of 17
  meets at most three of a Golay field and one of 5 at most one of a Hamming
  field (`BurstCurable`). *The NID.* Berlekamp's iteration reads `elp` up to a
  row's degree, which stays below the row's number; the last column would be
  written only if the first 21 syndromes vanish, but the 22nd is the square of
  the 11th and vanishes too. So `top <= LastTerm` for all 64 bits. What is
  accepted had as many roots as the degree, each flips one bit, and none twice,
  since the places are logarithms of field elements. *Blocks.* The trellis code
  is followed back symbol by symbol from `WordsApart`; the check bits of a block
  cancel the sum of its data (`CrcUnits`), so `crc16` finds nothing; and the
  places of bits of different blocks differ. `BlocksInv` says that the messages
  and what is shown are functions of the frame on the air.

### Not proved

These stay with TLC:

- Liveness (`TransmissionEnds`, `WorkReturns`, `Settles`, `DemodKeepsUp`): it is
  out of the prover's reach, with anything that needs ENABLED.
- `ReadAsSent`. That the BCH decoder finds the nearest word, if one is within
  eleven places, is the theory of Berlekamp's algorithm over GF(64), of which the
  proofs above need only the bounds. That only blocks that were sent are passed
  on is no theorem at all: the CRC of 16 bits lets some noise through, and the
  property is about the noise of the run.

The library's induction theorems take an operator, which the provers cannot
instantiate. Where a proof needs an induction (over the rows of the decoder, the
symbols of a block) it takes a least counterexample of a set of numbers
instead. `SelectSeq` is a recursion of the library without a theorem, so the
properties that are proved speak of sequences by indices, sets and counts.

The type invariant of the framer is only proved (`TypeCorrect`): the bounds in
it that matter are in `InStep`, which is both checked and proved.

## 5. Not modelled

- In modelled components: "usrp show"; the shaping of symbols and the float and
  raw modes of the transmitter end; the queue of decoded audio in the decoder;
  the Goertzel filters and gating of the squelch; the GUI of the call follower,
  its user and a start without a control channel frequency; the symbol clock of
  the demodulator; headers, link control and packet data in the dissector.
- The vocoder block's queues and sample rate slew; its codewords are in
  AirFrame.
- `repeater_pipe`, used by no program of the repository: a child process between
  two pipes, with byte counters that are static and so shared by all instances.
- `repeater_s2v`: one buffer and one caller.
- `rs.cc` and its like in `src/python`: they are called only to print.
- The voice codecs and the filters: fixed and floating point arithmetic, whose
  errors are of amount and not of order.
- Other components: see the inventory and `PROJECT.json`.

By lines, the modules cover little of the repository: the generated table
`waveforms.h` alone has 206050 of 228684 lines, and most of the rest is signal
processing, display and vendored codec. Of the code that keeps state between
calls, what is left out is listed here.

Hazards noted but not in `PROJECT.json`, left for the plan below: a failed
`bind` leaves its socket open (`chan_usrp.c:273`); `unkey` runs beside
`general_work` while a packet is filled (`repeater_chan_usrp_rx.cc:147`); a chance
match of the reversed sync inverts the dibits until the next sync
(`p25_framer.cc:142`); the static byte counters of `repeater_pipe.cc:202`; items
beyond one block dropped by `repeater_s2v.cc:92`; a start of the call follower
without a control channel frequency (`scope.py:670`); `software_imbe_decoder.cc:786`
adds an 8-bit `u7` to a bit of `u6`, which may carry.

Seen while reading, and too plain for a model: `disctap_rx.py:92,110` and
`usrp_rx.py:261` call `chan_usrp_rx` without its argument for the input size;
`d_current_fsym` of `repeater_chan_usrp.cc` has no initial value;
`channel_id_to_string` in `trunking.py` has an operator precedence that only
shows in its debug output.

## 6. Plan

Done, in this order, the most important behaviour first: the channel driver and
its refinement, the framer and assembler, the decoder, the two UDP links, the
table of channels, the squelch, the call follower; automatic tuning; the codes,
the frame on the air and the dissector; proofs of every invariant and action
property of these but `ReadAsSent`.

Left:

1. `Vocoder`: sample, codeword and line buffers of `repeater_vocoder`, fed by
   the assembler's datagrams over a lossy link: a cut line costs one codeword,
   frames hold the samples with the slew and nothing else.
2. `Pipe` and `S2v`: the child process as a bounded buffer; when the static
   counters and partial writes stall or shift the stream.
3. The audio queue of the decoder against the rates of `forecast`.
4. The transmitter's shaping loop (`repeater_chan_usrp.cc:266-371`) as a symbol
   clock.
5. Link control, encryption sync and headers: `p25craft.py`, the presets of the
   vocoder block and the dissector against each other.
6. Proofs: that the BCH decoder corrects eleven errors, with the roots of the
   error locator as the missing lemma.
