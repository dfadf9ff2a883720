# TLA+ models of the TETRA base station

This directory holds TLA+ specifications of `tetra-bs`, TLC configurations that
check them on small instances, and TLAPS proofs. Every definition is translated
from the source under `src/`; `PROJECT.json` gives, for each definition, the
lines it stands for.

Reproduce with `tlc -config <cfg> <module>` (runs are listed in
`PROJECT.json`) and `tlapm <module>` for the modules named `...Proofs`.

## 1. The system

`tetra-bs` is a TETRA base station: FPGA logic (`rtl/`: PHY, LMAC, UMAC and
infrastructure) and a daemon `tetra_d` (`sw/`) that runs the upper layers of the
signalling protocol. The daemon is **one thread** around `epoll`
(`sw/main_loop.c`): DMA channels, a timer, a signal fd and a Unix-socket
listener. The layers do not call each other; they post messages on a bus that
the timer tick dispatches.

```
 radio -- FPGA -- DMA glue --> LLC ==bus==> CMCE / MLE ==bus==> MM
                                ^              |                |
                                +====bus=======+================+
 web UI -- CGI -- socket server -- subscriber DB, AST (files)
```

| Component | State | Operations | Talks to |
|---|---|---|---|
| message bus (`sw/core`) | per priority a ring of entries and payload slots; handler table | register, post, dispatch one | everybody; calls handlers, which post again |
| LLC (`sw/llc`) | 8 endpoints: NS, NR, awaiting_ack | receive indication, `llc_send_bl_data`, PDU from above | DMA below, bus above |
| CMCE (`sw/cmce`) | 8 call slots with a state machine, broadcast timer | uplink PDU, call alloc, downlink transitions, tick | bus |
| MLE (`sw/mle`) | 16 sessions with a state machine | MM PDU, confirmation | bus, subscriber DB |
| MM (`sw/mm`) | none of its own | answer a demand | bus, subscriber DB |
| persistence (`sw/persistence`) | profiles, entities, AST; two JSON files | open, put, atomic save, snapshot, reload | `tetra_d.c` at start and stop |
| DMA glue (`sw/dma_io`) | reassembly buffer per channel | receive frame, send frame | main loop |
| main loop (`sw/main_loop.c`, `tetra_d.c`) | epoll set, shutdown flags | drain channel, tick, signal, listener | all |
| socket server, web UI CGIs | none between requests | one JSON request per connection | DB, AST, loop |
| PDU codecs | none | bits to structs and back | LLC, MM, CMCE |
| co-simulation bridge (`tb/cosim`) | rings in shared memory, one per channel | send frame, receive frame, sleep, wake | daemon and Verilator model, as two processes |
| UMAC, infrastructure, LMAC, PHY (`rtl/`) | registers and memories | per clock | DMA, radio |

What is hard here, and what would make each part correct:

- **Handlers run inside the dispatch.** They read the message through a pointer
  into the ring and post into the same ring. Correct: the slot is not reused
  under the handler, nothing is lost or reordered, priorities are strict.
- **The radio loses, damages and repeats frames.** Correct: each SDU is taken
  once, in order, and acknowledged only if taken; both sides make progress.
- **Posts may fail** (a full bucket) in the middle of a handler with several
  effects. Correct: no effect claims what another one failed to do.
- **Several handlers share a bus address.** Correct: a message reaches the one
  it is meant for.
- **Two sides drive one state machine** (calls, registrations) in any order.
  Correct: tables stay one-to-one, state and answers agree.
- **A tick is bounded** while messages beget messages. Correct: it drains.
- **Crash, power loss and failing writes** at any step of a save. Correct: the
  old or the new file, what was saved is what is reopened.
- **One thread serves everybody in line**, clients with deadlines included.
  Correct: a client that dies or gives up at any step has no half effect and
  holds up nobody; a stop that was acknowledged happens.
- **A byte stream is cut anywhere**, and may contain garbage. Correct: whole
  frames in order, no wedged channel, nothing left behind.

- **Nothing on the air says how long it is**: lengths, presence bits and
  counts inside a PDU decide how the rest is read. Correct: what was encoded is
  what is decoded, and nothing that is cut or damaged is taken for something
  else.
- **Two processes share a ring without a lock.** Correct: whole frames in order,
  none forgotten by a sleeper.

`PROJECT.json` lists these as hazards, each at its line, with its properties.

## 2. The modules

| Module | Models | Remarks |
|---|---|---|
| `MsgBusSpec` | what `msgbus.h` promises | abstract: bounded FIFOs as sequences |
| `MsgBus` | `sw/core/src/msgbus.c` | rings, payload slots, dispatch in steps |
| `LlcLinkSpec` | what a basic link promises | abstract: one direction of a stop-and-wait link |
| `Llc` | `sw/llc/llc.c` | endpoint table, receiver, two senders; radio and mobile stations external |
| `CmceFsm` | `cmce_fsm.c`, synchronous part of `cmce.c` | operators on the call table, used by the two below |
| `Cmce` | the CMCE entity alone | both sides drive the table |
| `Stack` | LLC + CMCE + MLE filter + main loop as the daemon wires them | composition: who receives what, tick budget |
| `MleMm` | `sw/mle`, `sw/mm`, enrolment in the DB | MLE and MM joined by the Normal bucket |
| `Persist` | `db.c`, `ast_snapshot.c`, start and stop in `tetra_d.c` | crash, power loss, failing calls, operator |
| `DmaRx` | reception and sending in `dma_io.c`, drain loop of `main_loop.c` | reassembly and resynchronisation, half-written frames |
| `Daemon` | event loop of `main_loop.c`, `socket_server.c`, `cgi_run` of the web UI | the thread step by step against CGI processes that die and time out |
| `BitBuffer` | `sw/core/src/bitbuffer.c` | bytes, cursor, assertions |
| `LlcPdu` | `llc_pdu.c`, length computation of `llc.c` | header, body, FCS |
| `CmcePdu` | `cmce_pdu.c` | encoder and decoder as two separate field tables |
| `MmIep` | `mm_iep.c`, `mm_accept_builder.c`, answers of `mm.c` | parser, builder, from the one to the other |
| `Codec` | a message over the air | composes the four above with a sender, damage and a receiver |
| `ShmRing` | `tb/cosim/shm_dma_bridge.c` | one ring, two processes, x86 store buffers, futex |
| `MC...` | | values for TLC |
| `MsgBusProofs`, `LlcProofs`, `StackProofs`, `MleMmProofs`, `PersistProofs`, `DmaRxProofs`, `DaemonProofs`, `ShmRingProofs` | | theorems about the module they are named after (`StackProofs`: about `Cmce` too, whose specification is called `CmceSpec`), see section 4 |

A definition whose comment begins with "Mutant:" is a deliberately wrong variant
of the definition that follows it. It is used nowhere in the specifications;
`PROJECT.json` says which property detects it, so that every property is known
to be able to fail.

### How the models correspond to the code

**MsgBus.** `entries`, `payloads`, `head`, `tail`, `count`, `drops` are the
fields of `MsgBusQueue`; `regs` the handler table. `msgbus_dispatch_one` is
split into `DispatchBegin` (choose the bucket, copy the header),
`DispatchCall`/`HandlerReturn` for each matching handler, and `DispatchEnd`
(free the slot, advance). Between call and return a handler may `Post` and
`Register`. `cur`, `slot`, `key`, `len`, `next`, `cb` are the locals of that
function. No handler dispatches, so one frame is enough. `rc` is the last
return code.

**Llc.** One action per handler; a handler is atomic because the daemon is one
thread. `llc_handle_tma_unitdata_ind` is `RxInd` with one disjunct per branch;
`llc_send_bl_data` is `SendBlData`; `on_tle_msg_from_mle` is `OnTle`. The
results of posts that the code ignores are ignored. `accepted`, `given` and
`overlap` are history; `overlap` says that `on_tle_msg_from_mle` has sent an SDU
over one not yet acknowledged. A mobile station is a stop-and-wait peer that
repeats its SDU until acknowledged, and may repeat its last acknowledgement at
any time (`MsReAck`). Frames stay in order on the radio. NR of a BL-ADATA is not
looked at, as in the code. The MAC that takes what the LLC sends (`MacTx`) is
external: the module states what the component promises to whoever uses it. In
the daemon the LLC's own receiver takes those frames, which is the subject of
`Stack`.

**CmceFsm, Cmce.** The call table is a function from slots to records;
`HandleTleMsg` returns the new table and the answer. `DecodedCall` keeps a fact
of the decoder: U-SETUP carries no call identifier, so every mobile-originated
call has identifier 0. `OpenCall` and `ApplyDownlink` are the BS side of the
same interface.

**Stack.** The registrations of `tetra_d.c`: `(TmaSap, TmaSap)` leads to the
LLC receiver, `(TmaSap, TleSap)` to the LLC sender and the MLE, `(TleSap,
TleSap)` to the CMCE. A body is its discriminator, type code, call identifier
and completeness; `Peek5` and `MmType` say what a decoder reads at the wrong
offset. Room in a bucket is judged while the dispatched entry still holds its
slot. `Tick` includes the broadcast that `cmce_nwrk_bcast_tick` sends. Uplink
frames are acknowledged data, BL-ACK, BL-UDATA and AL-SETUP; the last two are
forwarded without an acknowledgement.

**MleMm.** `handle_mm_pdu` is `MleDemand`/`MleReject`, `on_mm_request` is
`MmRequest`, `mle_handle_tla_msg` is `Confirm`. No code posts the confirmation
that `mm.h` describes, so in the daemon that handler is never called and nobody
is ever Registered (`AcceptedIsRegistered` below). It is there and registered,
so the model lets a poster outside call it for any subscriber, without any
obligation; no property is about it. `open` is history: the numbers of the
demands that are neither answered nor counted as lost. A `WideGroupDemand` is
one the parser takes and whose acknowledgement is too long for an LLC body
(`HasAnswer`): four groups with address extensions. `Codec` has its bits.

**Persist.** `pc` and `at` follow start, running and clean stop; each system
call of the atomic write is a step (`WriteCreate`, `WriteText`, `WriteSync`,
`WriteRename`) and each may fail. `kept` holds what the name may lead to after
a power loss, because the directory is not synced after the rename. A packed
profile keeps its width and sign: `AsInt` is the `(int)` cast in
`db_dump_json`, `Readable` the range check that reads it back.

**DmaRx.** The unit of the stream is a word (magic, length, payload part). The
code hunts for a magic byte by byte; the model unit by unit. Reads take as much
as there is and as fits. A behaviour has one direction (`dir`): on a receive
channel the framer writes, on a transmit channel `dma_send_frame` does, in two
writes to a pipe that holds `PipeCap` units and takes each of them whole or not
at all; the second may be refused when the first is already in. `harm` counts
what may put the reader out of step: noise and headers without payload. Both
directions are read by the same code.

**Daemon.** `pc` is the place of the daemon's thread: `main_loop_init`
(`start`, `init`), `main_loop_run` (`wait`, `batch`), `ml_listener_accept`
(`accept`), `socket_server_handle_client` (`length`, `body`, `dispatch`,
`reply`, `close`) and the end of `main` (`save`, `teardown`). `cgi[c]` is a CGI
process with its place in `cgi_run`, its request and the answer it shows;
`conn[c]` is what the kernel keeps of its connection: which queue it is in, how
much of the request was written (length, body), the reply. A connection
outlives its CGI. The JSON is abstracted to four kinds of request. Of the
operations only `daemon.stop` changes state; all others are stubs. A write to a
closed socket ends the process, because the daemon leaves SIGPIPE at its default
action. Memory shortage, and system calls that fail without a cause in the
model (except `accept4` and those of `main_loop_init`), are left out.

**BitBuffer, LlcPdu, CmcePdu, MmIep.** Pure operators, one per function of the
source and with its name. A buffer is a function from byte indices to bytes,
and `bb_write_at` changes bytes as the code does: head, whole bytes, tail. An
assertion that fails sets `aborted`. 32-bit values that would not fit TLC's
integers (the FCS, the network time) are handled in halves. A reader of
`MmIep` carries the first error with it, where the code returns it or tests
`overrun` at the end: either way the result is -EPROTO.

**Codec.** `Encode` and `Decode` call the codec with the buffers its callers
use. For MM there is no encoder of demands and no decoder of answers in the
repository; the mobile station's side (`DemandBits`, `AcceptBits`, ...) is
external and written differently on purpose, as a concatenation in which each
length is the length of what follows. Damage is a cut at any bit, or turned
bits behind the PDU type. `Answer` is `on_mm_request` on what was decoded.

**ShmRing.** `mem` is what both processes would see, `pending[p]` the stores of
`p` that have not reached it. `spc` and `rpc` are the places in
`cosim_shm_send_frame` and `cosim_shm_recv_frame`. The compiler cannot move
stores past the release operations, and x86 keeps stores in order, so a store
buffer is all the reordering there is. A unit of the ring is four bytes of the
header or a part of a payload. A wait whose time is up ends the call; calling
again looks again, so `Park` stands for both.

## 3. Runs

| Run | Checks | Result |
|---|---|---|
| `bus` | `TypeOK`, `RingInv`, `FrameInv`, `PayloadPinned`, `ImplementsPromise` (refinement of `MsgBusSpec`), `HighIsServed` (liveness) | hold |
| `llc_link` | `UplinkImplements`, `DownlinkImplements` (refinements of `LlcLinkSpec`), `UplinkProgress` (liveness) | hold |
| `llc_table` | `EndpointTable` | holds |
| `cmce_table` | `CallTable`, `ReleaseFrees` | hold |
| `stack_drain` | `TickDrains`, `DownlinkIsNoDemand` | hold |
| `mlemm_table` | `OnePerSubscriber`, `AnswersFit`, `OneAnswerEach`, `DemandAnswered` (liveness) | hold |
| `persist_files` | `TypeOK`, `NeverTorn`, `ReopenedAsSaved`, `RefusedFileKept` | hold |
| `dma_rx` | `WholeFrames`, `NeverWedged`, `DamageBounded`, `AllDelivered` (liveness) | hold |
| `daemon` | `StopOnlyIfAsked`, `NoneLeftOpen`, `ConnectionsEnd`, `EventsServed`, `StopCompletes` (the last three liveness) | hold |
| `codec` | `BitExact`, `CmceRoundTrip`, `ShortIsRefused`, `FcsGuards`, `DemandExact`, `AcceptExact`, `AnswerEchoes` | hold |
| `shm_ring` | `InOrderAndWhole`, `EveryFrameArrives` (liveness) | hold |

Every module with variables has a type invariant `TypeOK` (the codecs and
`ShmRing` aside); where a run does not list it, it is kept for the proofs.

`DownlinkImplements` speaks of a link as long as no SDU was sent over an
unacknowledged one. `llc_send_bl_data` never does that; the sender that the
daemon uses, `on_tle_msg_from_mle`, may, and then an old acknowledgement can
match, see `AckedIsTaken` below. Late and repeated acknowledgements occur on
both sides of that line. `AnswerEchoes` states what the accept names, also where
it is not what was asked for, see `AcceptIsAsked` below. `persist_files` writes profiles
without the top bit only, see `ReopenedAsSaved` below. `WholeFrames` and
`AllDelivered` speak of a stream up to its first harm; `AllDelivered` also of
frames with a payload, because an empty frame looks like a timeout to the drain
loop. `DamageBounded` says what harm can do: each header without its payload, and
each run of noise, makes the receiver dispatch at most one thing nobody framed
(unless a payload itself looks like a header).
`ShortIsRefused` and `FcsGuards` are about damage that leaves the type field
alone: the FCS does not protect the field that says whether there is an FCS.

One run's property is violated by the code, and states what a header of the
repository says: `stack_mle` (`DemandReachesMle`). `llc.h:274` says "forward the
decoded PDU to MLE"; it is posted where only the CMCE listens.

More statements of this kind are kept as definitions in their modules, most of
them marked "Does not hold". To see a counterexample, name the definition in the
module's configuration, with the constants its comment or this table mentions
(`PersistBits.cfg` and `DaemonWrite.cfg` are ready for the first two rows):

| Definition | What the repository says | What the code does |
|---|---|---|
| `Persist!ReopenedAsSaved`, with `ProfileBits = {2, 6}` | round trip "bit-exact" (`test_db_atomic.c:143`) | a profile with bit 31 set is saved negative (`db.c:290`); the next start refuses the file |
| `Daemon!WriteFailureDropsClient`, with `Clients = {c1}`, `Requests = {"other"}` | "only catastrophic write-failures cause us to drop the client" (`socket_server.c:277`) | the write to a CGI that has given up raises SIGPIPE and ends the daemon, without its saves |
| `Codec!EveryDemandHasAnswer`, `MleMm!EveryDemandAnswered` | "MM builds the accept/ack" (`mm.h:297`) | the acknowledgement of four groups with address extensions has 254 bits and its discriminator three: more than an LLC body; the demand (246 bits) is taken and nobody answers |
| `Codec!AcceptIsAsked` | the accept's group is "from demand (or fallback when MS demanded none)" (`mm.c:119`) | a first group with a VGSSI is answered with GSSI 0, one to be detached as attached |
| `ShmRing!NoLostWakeup`, with `Finite = FALSE`, `MaxFrames = 1`, `CHECK_DEADLOCK FALSE` | the second look "closes the lost-wakeup race" (`shm_dma_bridge.c:424`) | neither side has a full fence between its store and its load; both may read the old value, and an infinite wait does not end |
| `Llc!AckedIsForwarded` | in-sequence: "forward to MLE, advance nr_expected, send BL-ACK" (`llc.c:230`) | acknowledges even if the forward found a full bucket; the SDU is lost |
| `Llc!AckedIsTaken` | matching BL-ACK: "our last frame was accepted" (`llc.c:235`) | the TleSap sender ignores awaiting_ack; an old acknowledgement matches |
| `Llc!DownlinkProgress` | "we will retransmit on our timer" (`llc.c:238`) | there is no such timer; a lost frame blocks `llc_send_bl_data` for ever |
| `Cmce!GrantIsHeld` | "Out-of-state TxDemand is a drop" (`cmce_fsm.c:177`) | answered with D-TX-GRANTED all the same |
| `Cmce!RepeatedSetupIgnored` | repeated U-SETUP "ignored" (`cmce_fsm.c:39`) | throws the call back to SetupPending |
| `Stack!OwnPdusChangeNoCall` | `TmaUnitdataReq` goes "LLC -> MAC" (`llc.h:249`) | is dispatched to the LLC's own receiver and may release a call |
| `MleMm!UnknownIsRejected` | "false if rejected" (`mle.c:105`) | the verdict is thrown away; the unknown subscriber is accepted |
| `MleMm!AcceptedIsRegistered` | MM "signals success back to MLE" (`mm.h:297`) | nobody does; sessions stay in AttachPending |
| `Persist!CrashStartsEmpty` | after a crash "an empty AST" (`tetra_d.c:24`) | the snapshot of the previous clean stop is loaded |
| `Persist!NoOlderSnapshot` | "refuses to read from a snapshot that is older" (`tetra_d.c:26`) | nothing compares the two files |
| `DmaRx!ReadyMeansReadable` | "read readiness = frame ready" (`dma_io.h:190`) | after dropped garbage, complete frames wait in the buffer for the next arrival |
| `Daemon!AckedStopSaves` | daemon.stop: "clean shutdown flag set, AST snapshot" (`OPERATIONS.md:338`) | after the acknowledgement the accept loop serves whoever still waits; one who has given up ends the process before the snapshot |

### Bounds, and why they are enough

- *Bus*: two buckets of two slots, so that head and tail wrap, a bucket fills
  while its head is dispatched, and priorities matter; valid messages, one too
  long, one with a bad address. `MaxDrops` only bounds a counter that nothing
  reads. The proofs remove all of these bounds, and cover messages without
  payload.
- *LLC*: numbers are one bit, so three SDUs in each direction wrap them and meet
  an old copy, or an old acknowledgement, of the same number; up to two frames
  per direction on the radio. Two slots for
  three links make the table overflow. The links are interchangeable
  (symmetry, safety run only).
- *CMCE*: two slots, three call identifiers: a full table and a third call.
- *Stack*: four uplink frames between ticks, every type and body, broadcast due
  and not due; buckets small enough to overflow. `Budget` is the number of
  dispatches of a tick. The run uses 32, what the theorem `TicksDrain` asks for
  four frames; with buckets that take everything (9 and 12) 31 is not enough, so
  the figure is exact. The daemon allows 64, enough for nine frames.
- *MLE/MM*: three subscribers, two sessions, two entities: each table
  overflows; three demands for two places in the bucket; every database content
  is an initial state.
- *Persist*: two clean stops, because a second save meets the files of the
  first; crashes, power losses and edits are not bounded.
- *DmaRx*: payloads up to two words, one containing a magic, and one too long
  to be sent; four frames or runs of noise, so that the buffer (one longest
  frame) fills with a mixture; a pipe of five units, so that a frame finds room
  for its header only.
- *Codec*: every alignment (0 to 15 bits) and widths on both sides of each byte
  boundary; every field of every CMCE PDU at 0, at its largest, one unlike the
  others, and one too large; LLC bodies of no, one, eight, nine, 64, 256 and 257
  bits (the limit and one more), with an FCS up to 64; all single turned bits
  and, for bodies of 0 and 9 bits, all pairs; all sets of optional MM fields,
  lists of 0, 1, 2, 4 and 5 groups (the table holds 4) in which each place,
  the first included, is attached or detached with every address type;
  cuts at every bit of messages up to 250 bits; every capacity up to two bits
  more than needed. The operators have no state, so one message at a time is
  enough.
- *ShmRing*: eight cells with cursors modulo sixteen, so that four frames wrap
  the ring and overflow the cursors; lengths that leave room for one more frame,
  fill the ring, and exceed it; a buffer that is too small for some frames;
  store buffers of five (all stores of a send and the cleared waiter) and three.
- *Daemon*: two CGIs and a backlog of one, so that one is served while another
  waits, gives up in the queue, or finds it full; one request per CGI, the
  signal once, the timer for ever. The timer stands for the DMA channels too
  (`Sources`): the loop treats them alike.

### Fairness

- *Bus, MLE/MM, Stack*: weak fairness of dispatching. The timer fires for ever
  and each tick dispatches until the bus is empty or the budget is used
  (`ml_timer_tick`); handlers are C functions without loops that wait. Nobody is
  obliged to post.
- *LLC*: weak fairness of serving both buckets and of receiving. Strong fairness
  of a mobile station's repetition and of receiving data and acknowledgements:
  the radio does not lose every copy of what is repeated for ever. Without this
  no link protocol makes progress. Nothing is assumed about a retransmission by
  the LLC itself.
- *DmaRx*: the framer finishes a frame it began; `epoll` is level-triggered, so
  a readable channel is reported again.
- *ShmRing*: stores reach memory; both processes go on; again and again the
  receiver calls with a buffer that takes any frame (strong fairness, because
  calls with a small buffer may come in between: they return -EMSGSIZE and leave
  the frame). Finite waits end by themselves, in slices of at most a second.
- *Daemon*: the thread runs; a connected CGI runs on and its deadline passes
  (2.5 s in `cgi_run`, 3 s in httpd); `accept4` does not fail for ever. Nobody
  is obliged to connect. A peer that stays connected and silent for ever is
  excluded by this: the CGIs are the only clients in the repository.

Deadlock is not checked where the bounded environment may run out of things to
send (LLC, MLE/MM, DmaRx) or the system ends (Daemon), and is checked everywhere
else; in `ShmRing` it shows that the receiver always finds its way out of a wait.

## 4. Proofs

Each theorem holds for every value of the constants that satisfies the
assumptions named in the module that declares them (at least one slot, the
"none" value is not a value, inputs are of their type); TLC evaluates the same
assumptions in the runs. Where a theorem needs more, its statement says so.
Bounds that only keep TLC finite (`MaxUp`, `MaxStops`, `MaxSent`, ...) are
arbitrary natural numbers in the proofs.

| Theorem | States | Property of run |
|---|---|---|
| `MsgBusProofs!BusInvariant`, `FrameStaysAtHead`, `TypeCorrect` | `Spec => []RingInv`, `[]FrameInv`, `[]TypeOK` | `bus` |
| `MsgBusProofs!PayloadNeverOverwritten` | `Spec => PayloadPinned` | `bus` |
| `MsgBusProofs!BusImplementsPromise` | `Spec => ImplementsPromise` | `bus` |
| `LlcProofs!OneEndpointPerLink` | `Spec => []EndpointTable` | `llc_table` |
| `LlcProofs!UplinkKeepsPromise` | `Spec => UplinkImplements` | `llc_link` |
| `LlcProofs!DownlinkKeepsPromise` | `Spec => DownlinkImplements` | `llc_link` |
| `StackProofs!OneSlotPerCall`, `ReleaseEndsCall` | `CmceSpec => []CallTable`, `[]ReleaseFrees` | `cmce_table` |
| `StackProofs!TicksDrain` | `Spec => []TickDrains`, if `Budget >= 6 * MaxRx + 8` | `stack_drain` |
| `StackProofs!OwnPdusAreNoDemands` | `Spec => []DownlinkIsNoDemand` | `stack_drain` |
| `StackProofs!StackTypeCorrect` | `Spec => []TypeOK` | |
| `MleMmProofs!OneSessionOneEntry`, `AnswersCarryOwnProfile`, `DemandsAccounted` | `Spec => []OnePerSubscriber`, `[]AnswersFit`, `[]OneAnswerEach` | `mlemm_table` |
| `PersistProofs!TypeCorrect`, `FilesNeverTorn` | `Spec => []TypeOK`, `[]NeverTorn` | `persist_files` |
| `PersistProofs!SavedTableIsFound`, `RefusedIsLeftAlone` | `Spec => ReopenedAsSaved`, `RefusedFileKept`, if `SmallBits` | `persist_files` |
| `DmaRxProofs!FullBufferMoves`, `DispatchesWhatWasFramed` | `Spec => []NeverWedged`, `[]WholeFrames` | `dma_rx` |
| `DmaRxProofs!DamageStaysBounded` | `Spec => []DamageBounded`, if a run of noise can begin only one header | `dma_rx` |
| `DaemonProofs!StopsOnlyWhenAsked`, `ClosesEveryClient` | `Spec => []StopOnlyIfAsked`, `[]NoneLeftOpen` | `daemon` |
| `ShmRingProofs!FramesInOrderAndWhole` | `Spec => []InOrderAndWhole` | `shm_ring` |

### The arguments

**MsgBus.** `TypeOK /\ RingInv /\ FrameInv` is inductive as a whole and no part
is by itself: that the slot under a handler is not reused needs `slot = head`
and `count > 0` (`FrameInv`), that the slot at tail is free needs that exactly
the `count` slots from head on are in use (`RingInv`), and both need the types.
A post writes the slot at tail, and a bucket that is not full has a tail
different from its head (`SlotIsNotTail`): hence `PayloadPinned`. The refinement
mapping reads a ring as the sequence of its cells from head on and the handler's
view as the header copy plus the bytes its pointer points to *now*. Enqueue is
Append (`EnqueueAppends`), the end of a dispatch is Tail (`EndIsTail`), and a
handler sees the head of the sequence (`FrameIsHead`). Inputs are well-formed
`SapMsg`s (the payload pointer is NULL exactly when the length is 0).

**Llc.** The endpoint table is inductive with its types (`TableInv`): a link has
at most one slot, and slots fill from the front. The two refinements need an
account of what is on the way. For each link and each direction, `UpInv` and
`DownInv` say:

- `Counts`: the receiver is level with the sender, or one SDU behind a sender
  that waits. One bit of number is then enough to tell which.
- `DataChannel`: frames on the way carry the SDU sent last or are old copies,
  the old ones come first, and there are only new ones once the SDU was taken.
- `AckChannel`: an acknowledgement of the SDU sent last is on the way only if it
  was taken, and behind all older ones.
- `UpLast`: what a mobile station repeats is the SDU it sent last.

"On the way" covers the radio and the bucket in front of it, whose lengths and
contents are arbitrary; loss, damage, and repetition preserve the order and
so the invariant. Damage leaves the numbers alone and makes the FCS fail.
`DownInv` holds of a link while `overlap` is false; the flag is never cleared
(`NextOverlaps`), so nothing has to be said of a link after an SDU was sent over
an unacknowledged one, where the promise is false (`AckedIsTaken`). An
acknowledgement that a mobile station repeats has the number of its last one:
by `Counts` and `AckChannel` it matches `ns_send` only if the SDU was taken.

**Cmce.** `CmceTypeOK /\ CallTable /\ ReleaseFrees`. The slot a PDU works on is the
first that holds its call identifier, and by `CallTable` the only one; freeing
it then frees the call, which is `ReleaseFrees`.

**Stack.** `Types` says more than `TypeOK`: what is on the bus is a body of the
mobile stations or one the daemon makes, an answer of the CMCE or the
broadcast, and the only call in the table has identifier 0. That is enough for
`DownlinkIsNoDemand`: a D-RELEASE is the one own PDU that begins with the MM
discriminator, and it reads as MM type 8 or more whatever call identifier
follows (`OwnIsNoDemand`).

`TickDrains` is about messages that beget messages in both buckets, so a
measure is needed that no dispatch can raise. Each message has a cost, the
dispatches it can still cause, itself included: 1 for a BL-ACK, 3 for a BL-DATA
of our own (received, acknowledged, forwarded), 4 for a PDU on its way to the
LLC, 1 for one of our own in front of the CMCE, 5 for one of a mobile station.
The costs on the bus fit in what is left of the tick (`Loads`). Our own PDU
costs only 1 because the CMCE ignores it, with one exception: it takes a
D-RELEASE that comes back for a U-RELEASE and answers if the call is in use.
Answering frees the call, the only one there can be, and only an uplink U-SETUP
opens it again. `OwnLast` says that uplink PDUs are dispatched before our own, so
this happens once, and `Kept` holds 4 dispatches back for it while a call is in
use or an uplink PDU waits. Between ticks a frame adds at most 6 (the frame's
acknowledgement and its PDU); the broadcast (4) and what is kept back (4) make
the 8. A full bucket only loses messages, and each loss lowers the sum.

**MleMm.** A message on the bus was written from the state at that time, and is
read in a later one. `InTransit` says that it still fits: each message belongs
to a demand, and an answer carries the profile the database has for it now.
`DemandedSettled` says why it stays so: a subscriber who has demanded is in the
database, or will never be enrolled (the policy refuses it, or the table is
full). `OneAnswerEach` is inductive with `NumbersPast`: every number in the
bucket or in `open` is that of a PDU received, so that the next one is fresh.
A request that is served leaves the front and its answer takes the place at the
end, or leaves the bucket as its number leaves `open` (`PoppedKeeps`).

**Persist.** `DiskInv` describes the disk at every step of a save: `Tables` and
`Shape` are types, `Whole` says that every version the name may lead to, now or
after a power loss, is whole, `Writing` that the temporary file is complete and
synced where the writer is about to rename it, `OpenedOnly` that nobody writes
a database that was not opened. `ReadInv` adds that the file reads as the saved
table (`SavedIsRead`) and that an opened database came from a file that was not
refused (`OpenedIsRead`). Both theorems that rest on it assume `SmallBits`, packed
profiles without bit 31; without it they are false (`PersistBits.cfg`).

**DmaRx.** `NeverWedged` is a fact about one pass over a full buffer: a frame is
at most as long as the buffer, so a header at the front has its frame behind it,
and anything else at the front is dropped. `WholeFrames` needs the whole stream:
until the first harm, buffer followed by pipe followed by the rest of a frame in
the writing is the concatenation of the frames behind some k-th, and what was
dispatched is the non-empty ones among the first k (`StreamInv`). It does not
mention where writes and reads cut. `Extract` of such a stream takes exactly the
next frame or waits for the rest of it (`ExtractFramed`). What the recursive
functions of the model compute is proved by looking at the least counterexample.

`DamageBounded` counts. `Starts` are the places in the stream where a magic can
begin a header, `Wild` those of them where no framed payload stands behind
it. `DamageInv`: the wild starts in the stream and the bogus frames dispatched
so far are together at most `harm`. Noise and a header without its payload raise
`harm` by one and add at most one wild start (`RunAddsOne`); a whole frame adds
none (`FrameAddsNone`), also when it completes what a wild header announced;
reading and skipping only shift or remove starts (`TakeOut`); and a bogus frame
that is dispatched uses up the wild start it began at (`ExtractTakes`). The
theorem assumes that a single run of noise can begin only one header: with a
run that contains two, one harm is two frames. Like the property it is about
payloads without a magic.

**Daemon.** `NoneLeftOpen` (the descriptor in hand is the one of the client
being served) is inductive with the types and `Progress`: how far a CGI is and
how much of its request is in the socket go together. `StopOnlyIfAsked` needs
in addition that a reply that says the daemon stops is written after the flag is
set (`Obeyed`), and that the signal was sent before it is read (`SignalSent`).

**ShmRing.** The cursors wrap, so "free" and "used" are differences modulo
`Wrap`. The proof reads them through unbounded positions that the model does not
have: the start of every frame (`pos`) and the true head and tail (`hs`, `ts`).
`RingInv` says that such positions exist: the head in memory, and after each
pending store, is where the frames sent put it (`SenderSide`), and the tail
likewise (`ReceiverSide`); what was sent ends at most `Cap` cells behind the
tail in memory, and what was taken ends before the head in memory (`Window`);
the cells between tail and head in memory hold the frames, and so do those up to
a head that is next to arrive (`Written`); a frame whose header was popped is
there to its end (`Holding`). The step that matters is a store that reaches
memory: a copy lands only in cells that hold nothing unread, because distances
below `Cap` stay distinct modulo `Cap` (`ModDistance`, `ModInside`), and `head`
lands only after the cells in front of it. Assumed are a ring that holds a
header, and a `Wrap` that is a multiple of `Cap` and larger:
`COSIM_SHM_RING_CAP` is a power of two and the cursors have 32 bits.

### Only model-checked

- *Liveness* (`HighIsServed`, `UplinkProgress`, `DemandAnswered`, `AllDelivered`,
  `ConnectionsEnd`, `EventsServed`, `StopCompletes`, `EveryFrameArrives`):
  fairness is out of the prover's reach.
- `Codec` (`BitExact`, `CmceRoundTrip`, `ShortIsRefused`, `FcsGuards`,
  `DemandExact`, `AcceptExact`, `AnswerEchoes`): what a fold over the bits of a
  message computes for every message needs induction over data with an operator
  as a parameter, and the value of a field needs arithmetic with 2^n for a
  variable n. The operators have no state, so the instance that TLC checks is a
  set of messages and not of behaviours.

## 5. Observations while modelling

Things the code does that contradict no text, or that no run states:

- U-SETUP carries no call identifier, so the second mobile-originated call is a
  repeated U-SETUP of call 0.
- D-CONNECT is sent by nobody in the daemon.
- A CMCE body preceded by the CMCE discriminator, as a mobile station sends it,
  is ignored by the CMCE, which expects it stripped.
- `fallback_gssi` of `MleCfg` ("GSSI to attach when MS demanded none",
  `mle.h:101`), which the daemon sets (`tetra_d.c:233`), never reaches
  `on_mm_request`, whose fallback is always 0.
- U-ITSI-DETACH is refused by `mm_iep_decode`; the state Detaching is
  unreachable and sessions, like endpoints, are never freed.
- A D-NWRK-BROADCAST that comes back begins with the type code of U-TX-DEMAND;
  only its length keeps it from being decoded.
- `ast_reload` returns `-EIO` for a malformed file where `db.h:177-183` speaks
  of 0; the caller treats both alike.
- `dma_send_frame` has no caller in the daemon; the hardware back end returns
  `-ENOSYS`.
- A U-SETUP whose called party is of the reserved type is encoded in 29 bits and
  refused by the decoder, which asks for 30.
- A D-NWRK-BROADCAST that ends inside its neighbour-cell count is decoded
  without it; the values it does carry are right (`ShortIsRefused`).
- `cosim_shm_recv_frame` leaves a frame that is larger than the caller's buffer
  in the ring: a caller that never offers a larger one receives nothing more.
- `cosim_shm_create` makes the region visible before it has its size; a process
  that attaches in between would map nothing. Nobody calls `cosim_shm_attach`
  yet.
- The daemon itself never changes the AST.
- The reply to `daemon.stop` says `ast_snapshotted` before the snapshot is
  tried (`main_loop.c:322`).
- The daemon listens on `/var/run/tetra_d.sock` (`daemon_ops.h:50`), the CGIs
  connect to `/run/tetra_d.sock` (`cgi_common.h`): the same only where `/var/run`
  is a link.
- A process that ends removes the socket path whoever made it
  (`socket_server_close_listener`): a daemon started before the old one has
  ended loses its path.

## 6. Not modelled, and the plan

Every safety property that a run checks, those of `Codec` aside, is stated by a
theorem. What could be proved next in `Codec` needs no induction: that a field
table fills exactly the bits it counts, and that a read inside the bounds does
not abort.

Not modelled:

- *UMAC and infrastructure hardware* (`rtl/umac`, `rtl/infra`): clocked Verilog
  with testbenches of its own, of another kind than the daemon. What a model
  could add is the downlink queue with its scheduler, the reassembly of split
  uplink demands, and the clock-domain crossings under `rtl/infra/cdc`.
- *Opening and closing of DMA channels*, and the hardware back end, which
  returns `-ENOSYS`.
- *Creating, attaching and removing the shared region*, and the Verilator
  harness around it (scenario files, waveforms).
- *Query strings and JSON* of the web UI.

Left out for good: statistics and logging, the vendored test framework, SNDCP
(only a README), signal processing and channel coding in PHY and LMAC (numeric
pipelines without interesting control).
