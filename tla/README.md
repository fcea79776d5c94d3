# Formal model of rusctp

rusctp is an implementation of SCTP (RFC 4960) without I/O of its own: a core
of plain state machines, and two wrappers that drive it from async tasks or
from threads. This directory holds TLA+ models of the core, the wire format and
both wrappers, the configurations with which TLC checks them on small
instances, and proofs that TLAPS checks for every value of the constants. Paths
below are relative to `src/` of the crate (`assoc/tx.rs` is
`src/src/assoc/tx.rs` in `PROJECT.json`).

## 1. The system

| Part | Code | State | Operations | What makes it correct |
|---|---|---|---|---|
| Serial numbers | `packet.rs` (`Tsn`, `Sequence`) | a u32 / u16 | `increase`, `decrease`, comparison around the wrap | numbers that are in use together compare as they were assigned |
| Sending half | `assoc/tx.rs`, `tx/ack.rs`, `tx/timeouts.rs` | queue of messages, queue of outstanding chunks, byte counters, peer window, timers, control chunks, shutdown state | `try_send_data`, `poll_data_to_send`, `poll_signal_to_send`, `notification`, `handle_timeout`, `initiate_shutdown` | no byte lost or sent under two TSNs, counters exact, windows respected, data outstanding has a timer, SHUTDOWN only when all is acknowledged |
| Congestion control | `assoc/tx/congestion.rs` | cwnd, ssthresh, partial bytes, state | bytes acked, duplicate acks, timeout, new path MTU | loss recovery only with data to resend |
| Path MTU probing | `assoc/tx/pmtu.rs`, `tx/timeouts.rs` | last and best size, probe in flight | probe, success, timeout | fragments stay whole while the MTU changes |
| Receiving half | `assoc/rx.rs` | next TSN, reorder buffer, reassembly queues, two event queues, byte counter, shutdown state | `notification` (each chunk kind), `poll_data`, `tx_notifications` | whole messages, each once and in order; SACKs exact; buffer bounded |
| Round trips and timers | `assoc/srtt.rs`, `tx/timeouts.rs` | srtt, rttvar, rto, one TSN being timed, three timers | sample, expire, `next_timeout` | a chunk is repeated in time and not too early |
| Setup | `assoc/init.rs` | half-open tables, aliases, associations | `init_association`, INIT, INIT-ACK, COOKIE ECHO, COOKIE ACK | both ends hold the same association |
| Dispatch | `lib.rs` | the same tables, queues of notifications | `receive_data`, `process_chunks` | a chunk reaches only the association it was sent on |
| Wire format | `packet.rs`, `packet/*.rs` | none | parse, serialise | what is packed is what is parsed |
| Async wrapper | `assoc_async/assoc.rs` | mutexes and lists of wakers | futures for connect, accept, send, receive, poll, shutdown | nobody sleeps on something that has happened |
| Sync wrapper | `assoc_sync/assoc.rs` | mutexes and condition variables | the same as blocking calls, a main thread | the same; who may panic, and what that stops |

`Sctp` owns no association. It creates both halves and hands them over through
`new_assoc`; afterwards it only forwards chunks, as notifications, to the
receiving half, which acts on DATA itself and turns the other chunks into
notifications for the sending half. The wrappers carry all of these
notifications, under one lock, in the call that received the packet. Sending is
pulled: the application polls the sending half for chunks.

What is hard about this code, and to test: SACKs that are late, repeated or out
of order against timers and new data; byte counters that are kept incrementally
over every operation; TSNs across the wrap; the room of a packet, the peer's
window and the path MTU changing between two fragments; the recovery state
machine, which panics if it is entered with nothing to resend; reordering and
reassembly in a full buffer; timers that are replaced while a loop sleeps on
them; crossing INITs and answers that arrive after a restart; shutdown from
both sides over a network that loses; wake-ups between threads. `hazards` in
`PROJECT.json` lists them, at the line where each bites, with the properties
that cover it or the reason why none does.

## 2. The modules

| Module | Models | Used by |
|---|---|---|
| `SerialNumber` | `Tsn`: `increase`, `decrease`, `cmp`, for any modulus and wrap radius | both halves |
| `Chunks` | the byte buffers of DATA chunks as intervals of the byte stream, and their total length | both halves |
| `Congestion`, `PmtuProbe` | `PerDestinationInfo` and `PmtuProbe`, as operators on a record | `AssociationTx` |
| `AssociationTx` | the sending half, time abstracted | `MCAssociationTx`, `Transfer`, the proofs |
| `AssociationRx` | the receiving half | `MCAssociationRx`, `Transfer`, the proofs |
| `ReliableDelivery` | what an association promises to its two applications | `Transfer` |
| `Transfer` | both halves and a lossy network between them | `MCTransfer` |
| `Shutdown` | two endpoints that close an association | run `shutdown`, `LifecycleProofs` |
| `Timers` | the round-trip estimate, the timers and the loop that sleeps on them, with a clock | runs `timers`, `rto_silent`, `TimersProofs` |
| `Setup` | several endpoints with `Sctp`, `init.rs` and the network | `MCSetup`, `LifecycleProofs` |
| `Wire` | `serialize`, `serialized_size` and `parse`, as operators on sequences of octets | `Packets` |
| `Packets` | packets packed by `collect_all_chunks` and taken apart by `receive_data` | `MCPackets` |
| `AssociationView` | an association as its wrappers see it: counts and states | the two wrappers |
| `AsyncWrapper`, `SyncWrapper` | `assoc_async` and `assoc_sync`, for one association | `MCAsyncWrapper`, `MCSyncWrapper`, `WrapperProofs` |
| `DataLemmas` | facts about TSNs, byte counts and messages | the proofs of both halves |
| `AssociationTxSafety`, `AssociationTxNumbers` | theorems about the sending half, the second module on top of the first | `TransferProofs` |
| `AssociationRxSafety` | theorems about the receiving half | `TransferProofs` |
| `TransferProofs` | the refinement of `ReliableDelivery` | |
| `LifecycleProofs` | theorems about the setup and the shutdown | |
| `WrapperProofs` | theorems about the two wrappers | |
| `TimersProofs` | theorems about the timers | |

A definition whose name ends in an underscore and a word (`Rest_KeepsBegin`)
is a plausible mistake in the definition below it. No specification uses one;
each is put in place of the right definition to confirm that the property it
is listed with in `PROJECT.json` notices.

### The sending half (`AssociationTx`)

The variables have the names of the fields. `out_queue` and `resend_queue` are
sequences; a chunk's `buf` is the interval `lo .. hi-1` of the bytes the
application has handed over, so that slicing a `Bytes`, losing a byte or
sending one twice can be seen and lengths are exact. `wire` (chunks sent so
far), `accepted` (bytes handed over) and `probed` are history variables.

There is one action per public operation and per kind of `TxNotification`. An
operation that returns an error or `None` is a stuttering step.
`poll_data_to_send` is `PollDataToSend` with its four cases in the order of the
code (loss recovery, fast recovery, whole message, fragment); `handle_sack` is
`SackDuplicate` or `SackAdvance`, with the `while` loop that pops the
acknowledged prefix as the one `k` for which `IsAckedPrefix(k)`.
`HandleRtoTimeout` marks any set of outstanding chunks as late: time is
abstracted, so the model has every outcome that the comparison of ages can
have, for every clock. Arithmetic is that of a release build.

The peer is the environment. `PeerSacks` are those a correct receiver may have
sent at any earlier moment: the cumulative TSN is that of a prefix of what was
sent, blocks are of chunks on `wire`, and old SACKs come back at any time.
`PeerIsFaithful` of `Transfer` shows that `AssociationRx` is such a receiver.

### The receiving half (`AssociationRx`)

The reorder buffer, the reassembly queues and the data of an event are sets of
chunks (the maps of the code are keyed by TSN, or by stream and sequence
number). `AssertInvariants` is the assertion that `notification` runs after
every chunk, as it is written; it is a guard of every action, because once it
fails the program has panicked (section 5). `HandleInOrderPacket` contains the
whole loop that drains the reorder buffer: `IsDrain(n)` says that it stops
after `n` chunks. Gap blocks (`SackBlocks`) are computed from the offsets
modulo 2^16 (`GapMod`) as in `queue_ack`. The peer sends the chunks
`PeerChunks` in any order and any number of times. They are those of a sending
half (`IsPeer`): numbered one after the other from the initial TSN, in the
order of their bytes, the fragments of a message next to each other. That
`AssociationTx` is such a peer is proved (`WireIsPeer` in `TransferProofs`).

### Both halves together (`Transfer`, `ReliableDelivery`)

`Transfer` extends `AssociationTx` and instantiates `AssociationRx`; neither is
simplified. Its actions pair an action of one half with what happens to the two
sets of chunks in the network, `data_net` and `sack_net`: `Transmit` adds the
chunk that `poll_data_to_send` returned, `ReceiveData` leaves a copy of what it
takes, `ReceiveSack` leaves one or not, `Lose` drops anything, also the last
SACK that will ever be sent. DATA overtakes DATA in any way. One SACK is on its
way at a time in the run; SACKs that overtake each other are in `tx`, whose
`PeerSacks` include every earlier one.

`ReliableDelivery` has only two variables, the messages accepted and the
messages returned, and two actions. The refinement mapping takes `sent` as it
is, and `received` from the events that `poll_data` has returned: stream, order flag
and the bytes of the message, which `WholeMessages` shows to be one piece.

### Shutdown (`Shutdown`)

Both endpoints with the shutdown states of both halves, `send_next`, the
shutdown timer, and control chunks in a network that loses the kinds in
`Lossy`. A shutdown asks of the data only whether all of it is acknowledged, so
each direction has at most one message; its journey is in `Transfer`. One of
the two wrappers forgets a completed association, as the async wrapper does,
and then ignores what arrives (`Removes`).

### Time (`Timers`)

`Srtt` with its integer arithmetic (division truncates, a negative number that is
cast to u64 wraps to one larger than every limit: `U64` is 2^64 there, 2^30 in the run),
`set_rto`, `handle_rto_timeout`, the shutdown and heartbeat timers,
`next_timeout`, and the loop of `examples/throughput_async.rs` that takes the
next timer and sleeps on it. An `Instant` is kept as its distance from the
present, so that the state space is finite without a bound on the clock;
`Sleeps` moves everything back by one `Tick`. Markers are modelled by what they
are compared with: the timer the loop holds is `"void"` once its field was set
again.

### Setup (`Setup`)

Every endpoint has the tables of `Sctp`. `net` only grows: a packet that is
never taken is lost, one that is taken again is a duplicate, and any may
overtake any other. Since the wrappers carry out all notifications in the call
that received the packet, the queues of `Sctp` are not variables. A tag and an
initial TSN are drawn together and never repeat. The cookie's mac names the
endpoint that made it. `Restart` is the environment's: an endpoint starts
again from nothing and the peer is sent an ABORT.

### Octets (`Wire`, `Packets`)

`Wire` writes and reads every kind of chunk and parameter octet by octet, with
length fields, flags, padding and the three outcomes of a failed parse. The
CRC and the hash of the cookie are some function of all octets (external).
`Packets` has one endpoint that receives and peers that connect, echo the
cookie they are given and then send what their association packs into one buffer
(`collect_all_chunks`: which chunk still fits is decided by
`poll_signal_to_send` and `poll_data_to_send`), and packets of another SCTP
program with chunks this crate does not know. `ReceiveData` is
`Sctp::receive_data` from the packet header to `process_chunks`.

### The wrappers (`AssociationView`, `AsyncWrapper`, `SyncWrapper`)

`AssociationView` reduces the two halves to counts of messages and control
chunks, the shutdown state, and `sendable`, whether `poll_data_to_send` has a
chunk. The last depends on recovery, both windows, marks and the length of the
message at the front. None of that is in the view, so it is a choice (`May`)
whenever one of them may change: a SACK, a timer, a chunk that is sent. An
operation therefore has a set of results (`AfterPoll`, `AfterSend`, `TxAfter`,
`RxAfter`). A SACK acknowledges any number of messages, DATA completes one or
not and may go without a SACK (`MayBeSilent`), and `NotificationPanics` has the
chunks on which `AssociationRx::notification` panics: those that complete an
unordered message (`rx.rs:146`) and the kinds it does not know (`rx.rs:226`).

`AsyncWrapper` has tasks of each kind, each with a status: to be polled,
asleep, done, panicked, or in the middle of a poll that takes two locks.
`wakers` are the six lists of wakers; draining one makes its sleepers ready.
`receive_data` is a thread that holds the outer mutex over several steps:
`ReceiveData` (the core and a new association), then for each notification
`RxNotification` (the receiving half, whose mutex stays locked) and
`ForwardToTx`, and at the end of the association `RemoveAssoc` and
`RemoveAssocTx`. Between these steps every other task may run. The mutexes are
always taken in the order `InnerSctp`, `InnerRx`, `InnerTx`, so that no cycle of
waiting can arise, and `InnerTx` is never held from one step to the next. If
`RxNotification` panics, `InnerSctp` and `InnerRx` are poisoned
(`net.at = "poisoned"`) and whoever locks one of them panics. `AwaitShutdown`
and `AwaitShutdownRegister` are the two critical sections of one poll. `missed`
is a history variable: who was asleep when a call gave it something to do and
woke nobody. Only `Connect`, `InitiateShutdown` and `AwaitShutdownRegister` add
to it, each where the code has no wake-up; being woken later removes a task.

`SyncWrapper` has threads, three mutexes with a condition variable each, and
poisoning: a thread that panics poisons what it holds, and every later `lock`
or `wait` of that mutex panics (`LockPoisoned`). `Notification` handles a chunk
with all three locked, so that its panic poisons all three. `receive_data` and
`kill` notify only after they have released the mutex, which is a step of its
own (`NotifyAll`). Send callbacks may return an error, which the code unwraps
with the lock held.

## 3. The runs

| Run | Result | Distinct states | What it shows |
|---|---|---|---|
| `tx` | pass | 579,559 | The data path across the TSN wrap, with SACKs, gap blocks and timeouts in any order; shutdown of both sides and the path MTU search during the first chunks |
| `rx_data` | pass | 40,872 | Eight chunks of five ordered messages and every control chunk in any order, repeated, across the TSN wrap, in a buffer that is too small |
| `transfer` | pass | 203,771 | Sender, receiver and a lossy network, through both kinds of recovery and a closed window, implement `ReliableDelivery`; everything arrives if acknowledgements catch up |
| `shutdown` | pass | 18,912 | Two endpoints close, together or one after the other, with data under way and chunks lost |
| `timers` | pass | 4,552,820 | Timers and estimate against a clock |
| `setup` | pass | 154,955 | The handshake with duplicates, reordering, one restart and a second connect |
| `packets` | pass | 35,340 | Packing, parsing and dispatch, from the cookie to an ABORT |
| `async` | pass | 181,010 | Six tasks, the network thread, timers, shutdown from all sides and a panic, interleaved |
| `sync` | pass | 643,590 | Seven threads, panics and poisoned mutexes |
| `rx_assert` | violation | | An unordered message makes `assert_invariants` fail |
| `rto_silent` | violation | | A timeout that retransmits nothing |
| `setup_collision` | violation | | Both sides connect and end up with different tags |

Properties of the passing runs:

- Sender. `AssertInvariants`: `current_in_flight` and `current_out_buffered`
  are the sums over the queues, which the code asserts of itself.
  `RecoveryHasData`: in loss recovery there is something to resend; otherwise
  `_poll_data_to_send` panics. `RtoArmed`: the retransmission timer runs
  exactly while data is outstanding (for messages that are not empty).
  `FlowControlled`: data outstanding and the remaining window never exceed what
  the peer has advertised. `OneChunkPerTsn`, `FragmentsChain`,
  `OutstandingIsNew`: a TSN always carries the same bytes; fragments join up,
  from a first to a last, without a gap; what is cumulatively acknowledged is
  no longer outstanding. `ShutdownDrained`: SHUTDOWN and SHUTDOWN ACK are sent
  only when both queues are empty.
- Receiver. `BufferAccounting`: the byte counter is that of what is held, in
  all buffers, unordered events included, and within the limit. The code's own
  `AssertInvariants` leaves the unordered events out, which is `rx_assert`.
  `WholeMessages`, `DeliveredOnceInOrder`: events are whole messages, delivered
  once, and in stream order if ordered. `SackExact`: a SACK covers exactly what
  has been received. `NeverForgets`: a chunk that was accepted stays until it
  is delivered.
- End to end. `Implements`: the refinement. `PeerIsFaithful`: every SACK of the
  receiver is one the sender's runs and proofs allow for. `EverythingArrives`:
  again and again all that was handed over has been delivered and acknowledged,
  provided that the acknowledgements catch up with the receiver again and again
  (`AcksCatchUp`) and that the front of the queue fits the packet and the window
  again and again (`FrontFits`). The code guarantees neither (section 5). What
  is shown is that nothing else stops the sender: lost DATA, both recoveries,
  the congestion window, a full receive buffer.
- Shutdown. `NothingLostByClosing`: an endpoint that is Complete leaves no
  accepted message unacknowledged at either end, and neither takes more.
  `BothClose`: once one end begins, both become Complete.
- Time. `MeasuresOutstanding`: the TSN being timed is outstanding, so the
  estimate does not stop. `Punctual`: no timer is overlooked for longer than
  `ProbeLate`, although the loop may sleep on one that has been replaced.
  `RetransmittedInTime`: the oldest chunk waits at most `Patience`
  (`max(InitialRto, 2 * MaxRto) + ProbeLate`). `NoSpuriousTimeout`: the window
  collapses only after a whole timeout without progress.
- Setup. `Agreement`, `StreamsAgree`, `DataOfThisAssociation`,
  `ConnectCompletes`: both ends hold the same tags and TSNs; neither sends on a
  stream the other lacks; an association takes only DATA numbered for it;
  connect ends.
- Packets. `Dispatched`: an association gets exactly the chunks its peer sent,
  unchanged, in order, up to an ABORT. `Answered`: each heartbeat is answered
  with its content, and exactly the unknown chunks that ask for it are
  reported. `CookieOpens`: a cookie survives INIT ACK and COOKIE ECHO and opens
  the association of that INIT. `PacketsFit`: the packet buffer is not overrun,
  and the path MTU only by the header and the padding, or by a lone probe.
- Wrappers. `NoLostWakeup`: whoever sleeps would sleep again if it looked.
  `SendReturns`: `send_data` does not sleep through free space: it returns if
  again and again there is some or the association has ended. Async only:
  `MapHoldsOnlyOpen` (the map holds no association that has ended),
  `ShutdownFollowsData` (a shutdown requested at any time is carried out, if
  again and again all is acknowledged), `RegisteredWaiterReturns` (a task
  registered for the end of the association is told). Sync only:
  `PanicHasCause` (which panics there are and what poisons which mutex).

`NoLostWakeup` of `AsyncWrapper` excepts the sleepers in `missed`, for whom the
code wakes nobody: in `next_send_immediate` when `connect` queues an INIT
(`assoc_async/assoc.rs:98`), in `send_data` when `initiate_shutdown` makes it
fail, in `poll_chunk_to_send` when that makes SHUTDOWN due (line 381), and an
`await_shutdown` that looked before the shutdown and registers after it (line
364), which sleeps for ever. Those whom `initiate_shutdown` passes over are
woken later by something else, since `SendReturns` and `ShutdownFollowsData`
make no exception for them. `NoLostWakeup` of
`SyncWrapper` is for one thread that polls. `TypeOK` is a property of `tx` and
`setup` and part of the invariant of the shutdown in `LifecycleProofs`; in
`AssociationRx` and the two wrappers it documents the variables.

### Bounds

Sizes are scaled down: a header is 1 byte, the first path MTU 3, so messages of
1 and 4 bytes are sent whole and in fragments and a window of 4 fills up after
a few chunks. The constants that the code writes as literals (`PacketHeader`,
`CwndFloor`, `CwndStep`, `PROBE_STEP_SIZE`, `WrapRad`, the moduli, the limits of
the timeout) are CONSTANTS, so the proofs cover the real values.

- `MaxBytes`, `MaxDupAcks`, `MaxSendNext`, `MaxProbeSize` (sender): up to nine
  chunks, three of them outstanding at once, whose TSNs go from 9 over 15 to 1
  (`TsnMod` is 16); gap blocks, duplicate acks up to the second, beyond which
  the code does not tell them apart, and recovery of both kinds; fragments while
  the MTU grows. `ControlIsEarly` in `MCAssociationTx` keeps control chunks,
  probes and the shutdown to states with at most two chunks sent or queued, and
  everything after that is data only.
- `MaxTxNotifications` (receiver): SACKs wait for the wrapper behind each other.
- `MaxSacks` and eight bytes (transfer): messages of two bytes, which are sent
  whole, and of four, which are fragmented, with every pattern of gap blocks over
  the outstanding chunks. The receive buffer has five bytes, so that the window
  closes, and a fragment of one byte leaves a rest in the gap of `tx.rs:570`.
  `MaxDupAcks` is 2: the second duplicate enters fast recovery.
- `MaxSendNext` (shutdown): one control chunk waits while timers expire.
- `MaxTsn`, `Horizon` (timers): three chunks; ages beyond `Horizon`, which is
  longer than `Patience`, are not told apart.
- `MaxDraws`, `MaxAssocs`, `MaxRestarts` (setup): two INITs, an extra answer to
  one of them, and a third association after a restart.
- `MaxForeign` (packets): one packet of another program per peer.
- `MaxPackets`, `MaxTimeouts`, `MaxShutdowns`, `MaxCbErrors` (wrappers): one
  message fills the buffer, so that the second has to wait; enough packets
  besides SACKs to open the association and go through each way of closing it.

Deadlock is checked in `tx` only, where SACKs repeat for ever. Elsewhere an
association whose data is acknowledged, or which is closed, may stop.

In `tx` the initial TSN is outside the wrap zone, because the behaviour of
`tx_initial_tsn.cfg` (below) would otherwise hide all else. The sender's TSNs
cross the wrap there and the receiver's in `rx_data`; those of `transfer` do
not. The messages of `rx_data` are ordered, because an unordered one ends the
run in `rx_assert`; the theorems about the receiver are for both kinds, up to
that panic.

`setup` has one endpoint connect, only when no attempt is pending, and lets
everything but INIT and INIT-ACK survive a restart (`OutlivesRestart`). Both
are assumptions about the users of the code, not about the code:
`handle_init_ack` does not check the tag, so a late INIT-ACK of an earlier
attempt is combined with the numbers of the present one.

### Fairness

- `EverythingArrives`: the wrappers poll for data and drain notifications, the
  application reads and the retransmission timer expires (weak fairness; the
  loop of the examples does the first and the last, `receive_data` the second).
  When the timer expires the front of the resend queue is old enough; `Timers`
  shows after how long that is so. The network does not lose every copy of the
  chunk the receiver waits for (strong fairness), nor repeat one SACK for ever
  (weak fairness). Nothing is assumed of the arrival of SACKs: the network may
  lose each of them, and `AcksCatchUp` is a hypothesis of the property instead.
- `BothClose`: the wrappers poll, DATA and the chunks that are never
  retransmitted arrive (weak fairness); of SHUTDOWN and SHUTDOWN ACK, which the
  timer repeats, some copy arrives (strong fairness). SHUTDOWN COMPLETE is
  polled and arrives; the loop of `examples/throughput_async.rs:323` does not
  see to the first, since it ends when its endpoint is Complete.
- `ConnectCompletes`: the network delivers the packets of the setup (weak
  fairness of the four handlers), since the program retransmits none of them
  (the crate's README says so).
- `SendReturns` and the other liveness properties of the wrappers: the executor
  polls the tasks of the sending half that were woken, threads obtain the
  mutexes they wait for, and the thread in `receive_data` goes on (weak
  fairness). Nothing is assumed of packets; that SACKs make room is a hypothesis
  of the properties. In `AsyncWrapper` a timer expires again and again, since
  `new` arms the one for heartbeats and it is always set again. `SyncWrapper`
  assumes nothing of timers.

## 4. The proofs

Everything here holds for every value of the constants that the named
assumptions allow. Four of the theorems about the sender and those about
`Transfer` are for applications that send no empty message (`0 \notin Lens`):
with one, the code does behave differently (section 5).

`DataLemmas!TsnOrder`: for every modulus and every wrap radius of at
most a third of it, numbers at most one radius apart compare in the order in
which they were assigned. This is what the sender and the receiver assume of
`Tsn::cmp`. The module also holds what both halves need of byte counts and of
messages, and `LeastNat`: a property of numbers that fails somewhere has a
least number at which it fails. The few inductions over numbers go through this
least counterexample, since the induction theorems of the library are out of
the provers' reach.

### The sender

`AssociationTxSafety`: `Invariance` (`Spec => []Inv`), `TypeCorrect`
(`Spec => []TypeOK`: no unsigned counter or window underflows) and
`CountersExact` (`Spec => []AssertInvariants`). `AssertInvariants` is not
inductive: that popping acknowledged chunks takes their total length off both
counters follows only if no byte is in two chunks. `Inv` adds `Layout` (the
buffers of `resend_queue` followed by those of `out_queue` are disjoint and
ascending in the byte stream), `TypeOK`, and `PmtuCoversHeader` (so that the
subtraction in `update_pmtu` does not underflow). Under `Layout` the two sums
are cardinalities of disjoint sets of bytes (`LayoutDisjoint`), and each
operation adds or removes one interval: `PutOnWireStep` moves one from the
queue to the wire, `PopPrefix` removes a prefix. There is one lemma per
operation. No induction over sequences is needed, because totals are
cardinalities and loops are existentials over the point at which they stop.

On top of `Inv`, in the same module:

- `ShutdownIsDrained` (`ShutdownDrained`), inductive with `TypeOK`;
- `KeepsToTheWindow` (`FlowControlled`), inductive with `Inv`: a SACK takes
  exactly the acknowledged bytes out of flight, and the new window is the
  advertised one less what remains (`NewWindow`, `AckedInFlight`);
- `FragmentsAreChained` (`FragmentsChain`), by the invariant `Chain`: what is
  on the wire, then what is queued, cuts the accepted bytes in the order of the
  TSNs. `FragmentsChain` speaks of `wire` only, which does not tell where the
  next fragment starts: `Chain` adds that the front of `out_queue` continues
  where the last chunk ended, with the begin flag exactly if that one ended a
  message, and that every later message is whole;
- `TimerRuns` (`RtoArmed`) and `RecoveryCanEnd` (`RecoveryHasData`), for
  messages that are not empty. `handle_sack` decides from byte counts whether
  to stop the timer and to leave recovery; `BytesTell` shows that these say the
  same as the length of the queue if every chunk has a byte (`Positive`).

`AssociationTxNumbers`, for messages that are not empty:

- `TxOutstandingIsNew` (`OutstandingIsNew`), if the send buffer holds no more
  bytes than `WrapRad` and `InitTsn` is not one of those for which
  `tx_initial_tsn.cfg` shows the property to fail. The invariant `AckedUpTo`
  says that the outstanding chunks are numbered consecutively up to
  `tsn_counter`, and that `last_acked_tsn` is the number before the first of
  them or nothing has been acknowledged yet. The bound on bytes bounds the
  chunks, and with them the distance of any two numbers that are compared.
- `TxOneChunkPerTsn` (`OneChunkPerTsn`), if fewer bytes are accepted than there
  are TSNs: afterwards TSNs are, of course, used again. `Numbered` orders the
  chunks on the wire by number and byte at once.
- `Sender` is the conjunction of these invariants, with `Begun` (no number has
  been skipped). From it follows what a receiver can rely on (`WireIsOrdered`,
  `WireIsSent`), and that a true report about the chunks sent is one that the
  sender expects (`ReportIsExpected`).

### The receiver

`AssociationRxSafety`, for every peer that numbers its chunks as
`PeerAssumption` says. `IInv` is the inductive invariant (`RxInvariance`). It
describes the state by one number, `Taken`, how many
chunks have been taken in TSN order: the reassembly queues hold what the peer
numbered since the last end of a message (`InOrder`), each message that ended
before has one event, which holds exactly its chunks (`Events`), ordered
messages have theirs in order (`EventOrder`), and the counter counts all of it
(`Counted`). The properties need all of this together: that a drained event is
a whole message follows only from what the queues held before, and that from
the order in which earlier chunks were taken. The hard step is
`HandleInOrderPacket`, where any number of chunks is taken at once.

- `RxBufferAccounting`, `RxWholeMessages`, `RxDeliveredOnceInOrder`: the
  invariants of these names;
- `RxNeverForgets`: the action property, from `Received` being the chunks up to
  `Taken` and the reorder buffer;
- `RxSackExact`: `SackExact` while the offsets of the chunks that wait fit into
  the 16 bits of a gap block (`WithinGap`); `queue_ack` truncates larger ones.
  `RxSackExactForFewChunks` replaces that by a bound on the peer's chunks.
- `RInv` and the lemmas after it are the same invariant for a set of chunks
  that grows while the association runs, for `Transfer`.

### Both together

`TransferProofs`: `TransferImplements` (`Implements`, the refinement of
`ReliableDelivery`) and `TransferPeerIsFaithful` (`PeerIsFaithful`), while fewer
than `WrapRad` chunks have been sent and `WithinGap` holds (`InReach`).
`TransferOfFewBytes` has a bound on `MaxBytes` instead and assumes nothing of
the states.

The bound on chunks is what makes the network harmless: it may deliver a copy
of any chunk at any later time, and a copy that is older than the radius of
`Tsn::cmp` is taken for a new chunk.

The invariant `TInv` joins both halves at `wire`, the chunks sent so far:
`Sender`; `Receiver`, which is `RInv` for those chunks; `Network` (chunks on
their way are on the wire, and SACKs are true of it); and `Application` (each
chunk is a part of a message of `sent`). The argument looks circular, since the
receiver assumes a peer like the sender and the sender one like the receiver.
It is not, because each relies only on what the other has done before: chunks
on the wire make an `IsPeer` (`WireIsPeer`), therefore the receiver reports only
what was sent (`TruthIsReport`), therefore the sender's next step is one of
`AssociationTx` with its `PeerSacks` (`SackStep`). One lemma per action shows
that `TInv` is kept and that the step is `Accept`, `Deliver` or a stuttering
step of `ReliableDelivery`. `TransferInvariance` puts them together.

### Setup and shutdown

`LifecycleProofs`, first about `Setup`, for any number of endpoints, draws,
associations and restarts:

- `SetupTables` (`TypeOK`) and `SetupStreams` (`StreamsAgree`), whoever connects
  to whom. The invariant `Shape` says of every packet, table entry and
  association what it is made of: its tags and TSNs have been drawn before, it
  names the endpoints it is about, and its stream counts are those that the
  settings of the two give at that point of the handshake.
- `SetupAgrees` (`Agreement`), if of two endpoints at most one connects to the
  other (`OneSided`). `setup_collision` shows that the condition is needed.
  `Agreement` is about two associations, but they come from packets that were
  made long before. `Pairing` says how these hang together: an INIT in the
  network is the one its sender uses at present (`Current`), an INIT-ACK answers
  such an INIT (`Answers`), and the numbers of the two ends, wherever they occur
  together, determine each other (`Pairs`), so that before a restart there is
  one association of the two at most (`Once`).
- `SetupKeepsDataApart` (`DataOfThisAssociation`), with `OneSided` and the
  assumption that no INIT or INIT-ACK outlives a restart, under which `Pairing`
  holds through restarts (`Fresh`). `History` adds that DATA in the network
  belongs to an association that its sender has had; its tag is then that of
  one association of the receiver only.

Then about `Shutdown`, for two endpoints (`TwoEnds`): `ClosingTypes` (`TypeOK`)
and `ClosingIsSafe` (`NothingLostByClosing`): whichever control chunks are lost
or repeated, whoever forgets the association and whenever `initiate_shutdown` is
called, also again after the end. The inductive invariant says of every chunk on
its way that it is true (`Truthful`): a SHUTDOWN that its sender is closed and
drained, a SHUTDOWN ACK or COMPLETE that both are. The property alone is not
inductive, because an endpoint completes on the word of such a chunk.

### Wrappers

`WrapperProofs`, for any number of tasks or threads and any buffer limit:

- `AsyncLosesNoWakeup` (`NoLostWakeup`), by `Registered`: a task that sleeps is
  in the list of wakers of what it found, and what it found is still so or it is
  in `missed`. The property does not mention the lists, and a task that sleeps
  outside its list would be found by no drain. `missed` only grows in the three
  actions named above, so the theorem says that there is no further exception.
- `AsyncMapHoldsOnlyOpen` (`MapHoldsOnlyOpen`), by `Removal`: an association in
  the map that is completely shut down has the thread in `receive_data` at
  `remove_assoc`, with `InnerSctp` locked, and none is shut down before the core
  knows it.
- `SyncLosesNoWakeup` (`NoLostWakeup`), if a thread does one kind of thing
  (`ThreadsApart`) and one thread polls the sending half (`OnePoller`), by
  `Waiting`: what each kind of waiting thread has found, for those that wait for
  `InnerSctp` up to a `notify_all` that is still owed. With two pollers
  the property is false: the one whose `wait_timeout` ends calls
  `handle_timeout`, which may give the other something to send, and notifies
  nobody.
- `SyncPanicHasCause` (`PanicHasCause`), by `CauseStands`: what
  `poll_chunk_to_send` found when it panicked stays true, because nobody gets
  past the mutex that it has poisoned, and the notification on which the
  receiving half panicked stays the next one, because nobody gets past
  `InnerSctp`.

### Time

`TimersProofs`, for every `MinRto <= MaxRto <= InitialRto` and
`ProbeSoon <= ProbeLate` (`TimersAssumption`; the code has 1 ms, 200 ms and 3 s)
and any number of chunks:

- `TimersMeasureOutstanding` (`MeasuresOutstanding`), for every `Tick`, by
  `Outstanding`: the entries of the resend queue have the last numbers that were
  assigned, and the one being timed is among them.
- `TimersPunctual` (`Punctual`), if the clock advances in single nanoseconds
  (`Tick = 1`), by `Awake`: the timer that the loop sleeps on is at most
  `ProbeLate` after any that is armed.
- `TimersRetransmitInTime` (`RetransmittedInTime`) and `TimersNotSpurious`
  (`NoSpuriousTimeout`), if also `Horizon`, beyond which the model tells ages no
  longer apart, is at least `Patience`. `Timed` relates the timer to the oldest
  chunk: it expires no earlier than one timeout after that chunk was sent and
  after the last progress, and at most `max(InitialRto, 2 * MaxRto)` after the
  progress while nothing is marked to be sent again. The second bound is two
  timeouts because a timer that finds no chunk old enough is set again.
  `Clocked` joins these parts.

### Assumptions, and what is not proved

The assumptions on constants are `TsnAssumption`, `CongestionAssumption`,
`ProbeAssumption`, `TxAssumption`, `RxAssumption`, `PeerAssumption`,
`TransferAssumption`, `SetupAssumption`, `ViewAssumption`, `AsyncAssumption` and
`TimersAssumption`: constants are numbers, the path MTU and the MTU of the
congestion controller are at least one packet header, the cap on duplicate acks
is at least the two that the code tells apart, the limits of the timeout
are in order, the blocks of a SACK are ascending, disjoint and not adjacent,
the peer's chunks are those of a sending half, the sets from which the sender's
peer draws windows and blocks contain all that a receiver can report, nobody
connects to itself, tasks that await different futures are different, and a
packet has a chunk. TLC evaluates each of them in the runs. What the theorems
about `Shutdown` and `SyncWrapper` need of their constants is a hypothesis of
each (`TwoEnds`, `ThreadsApart`, `OnePoller`), since those two modules are
instantiated by their proof modules.

Only model-checked: `EverythingArrives`, `BothClose`, `ConnectCompletes`,
`SendReturns` and the other liveness properties, since liveness under fairness
is out of the prover's reach, as is `ENABLED`; and the properties of `Packets`,
because `Wire` is recursive.

## 5. Where the code departs from what one would expect

The three findings in `PROJECT.json` contradict a text of the repository, one of
them an assertion: `assert_invariants` of the receiver does not count unordered
messages (`rx.rs:141`), so that one which is not empty makes `notification`
panic, in the wrappers with their mutexes locked. More was met on the way; where
a configuration is named, TLC reaches it with `tlc -config X.cfg M`:

- `tx_initial_tsn.cfg` (`MCAssociationTx`): with an initial TSN in the wrap
  zone below 2^32 `last_acked_tsn` starts at 0, which compares as greater, and
  the first SACKs are dropped (`tx/ack.rs:60`).
- `tx_gap_end.cfg` (`MCAssociationTx`): the end of a gap block is taken as
  exclusive, so that the last chunk of a block is counted as missing
  (`tx/ack.rs:36`).
- `tx_fragment_gap.cfg` (`MCAssociationTx`): a message longer than the room of
  a packet but not than the path MTU is neither sent whole nor fragmented
  (`tx.rs:570`).
- `transfer_acks.cfg` (`MCTransfer`): `AcksCatchUp` fails. If the last SACK is
  lost the sender retransmits for ever, since a duplicate is not answered
  (`rx.rs:361`).
- Reading frees buffer space but queues no SACK: a sender with a closed window
  is not told (`rx.rs:371`). Chunks held for reordering may fill the buffer.
- A lost SHUTDOWN COMPLETE is not recovered (`tx.rs:276`), nor a lost COOKIE
  ACK (`init.rs:301`). `initiate_shutdown` also reopens the shutdown of a
  completed association (`tx.rs:308`).
- Messages that are complete but unread cannot be read after SHUTDOWN or ABORT
  (`rx.rs:368`).
- An empty message stops the retransmission timer (`tx/ack.rs:96`) and is
  written as no octets at all (`packet/data.rs:71`).
- A measurement is not abandoned when its chunk is retransmitted
  (`srtt.rs:35`), `rttvar` takes no absolute value (`srtt.rs:51`), and there is
  no backoff before the first measurement (`srtt.rs:69`). The shutdown timer is
  never stopped (`tx/timeouts.rs:89`).
- Probes that are lost again and again make the probe size wrap below zero
  (`tx/pmtu.rs:44`).
- A SACK larger than the path MTU blocks all control chunks behind it
  (`tx.rs:378`); a heartbeat at the start of a packet ignores the room in the
  buffer (`tx.rs:384`); packets exceed the path MTU by the header and padding.
- In the async wrapper `connect` does not wake `next_send_immediate`,
  `initiate_shutdown` wakes nobody, and `await_shutdown` may register after the
  removal. In the sync wrapper
  `connect` and `accept` share one queue, `wait_timeout` is given
  `now - deadline` and returns at once before the deadline, and an error of a
  send callback is unwrapped under the lock.

## 6. What is not modelled

- `FakeAddr` for `SocketAddr`, numbers above 2^16 on the wire, and the CRC and
  hash functions themselves. `OpError` cannot be serialised by the crate
  (`unimplemented!`), so `Packets` stops at queueing it.
- Several addresses of a peer in use: no endpoint announces any. `Packets`
  carries those of an INIT through the cookie.
- Two associations in one wrapper: the state of one association is independent
  of the others, apart from the queue that `connect` and `accept` share.
- `TxNotification::_PrimaryPathChanged`, which nothing produces, and
  `last_sent_arwnd`, which is only written. Chunk kinds that the receiving half
  answers with `todo!()` are left out of `AssociationRx`; the wrappers have the
  panic.
- Inputs on which parsing panics: a cookie of 33 to 36 octets (`cookie.rs:202`
  asks for 33 and 37 are read) and heartbeat information of fewer than four
  (`packet.rs:211`). `ParseCookie` and `ours` have no value there and no run
  reaches them.
- Sockets, arguments and statistics of the examples; the fuzz targets.
