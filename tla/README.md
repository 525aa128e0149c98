# kvasilloni: a TLA+ verification project

kvasilloni is a drop-in `canlib32.dll`: it exports the Kvaser CANlib functions
(`canOpenChannel`, `canWrite`, `canRead`, `canSetNotify`, ...) and carries the
frames to and from a cannelloni peer over TCP or UDP. Applications call it from
several threads; each open channel has a receive (RX) thread of its own, which
also runs the application's notify callback. The hard part of the code is
therefore small in lines and large in interleavings: the receive ring and its
condition variable, the gate that makes disarming a callback safe, and the
teardown of a connection by whichever of three parties notices first. This
project models those parts, the codec, the configuration, the opening of a
channel and the handle table and checks them with TLC; with TLAPS it proves every
safety property that TLC checks, for any number of threads, frames and channels.

Paths below are relative to the repository (`src/transport.rs` is the file that
`PROJECT.json` calls `src/src/transport.rs`).

## 1. Inventory

### Components

| Component | Source | State | Operations | Interacts with |
|---|---|---|---|---|
| Receive ring (`Shared`) | `src/transport.rs` 66-321 | `q` (bounded deque), `cv`, `closed`, `overflow`, `filters`, `link_lost` | `push`, `pop`, `pop_wait`, `peek_wait`, `clear`, `mark_closed`, `set_accept`, `level`, `overflowed` | RX thread pushes; application threads read, flush, filter; `close` and the RX loop close it |
| Notify gate (`Shared.notify`, `cb_active`, `IN_NOTIFY_CB`) | `src/transport.rs` 94-158, 195-220, 307-320 | registered callback, mutex `cb_active`, thread-local flag | second half of `push`, `set_notify` | RX thread runs application code, which calls back into the library |
| Connection (`Conn`) | `src/transport.rs` 328-622 | `running`, `negotiated`, `tx` (socket, UDP sequence number), `handle` of the RX thread | `connect`, `write`, `close`, `Drop` | writers, RX thread and closer share the flags and the socket |
| RX loops | `src/transport.rs` 701-812 | decoder state, chunk | `udp_rx_loop`, `tcp_rx_loop`, `guarded_udp_ingest` | sockets, codec, ring, flags |
| Opening | `src/transport.rs` 349-489, 624-672 | listener, deadline | `bind_udp`, `handshake`, `accept_with_timeout`, `peer_allowed` | peer, configuration |
| Codec | `src/wire.rs` 1-340 | `DecodeState`, partial `Frame` | `encode_frame`, `decode_stream`, `build_udp`, `parse_udp`, id and flag translation | both RX loops, `canWrite`, `canRead` |
| Handle table and exports | `src/lib.rs` | `CONNS`, `NEXT_HANDLE`, `DRIVER_TYPE`, memoised channel count | some thirty `extern "system"` functions | every application thread |
| Configuration | `src/config.rs` | none (loaded per open) | defaults < INI file < environment | `canOpenChannel`, `canGetNumberOfChannels` |
| Tools, fuzz targets, probe | `tools/`, `fuzz/`, `test/` | - | bridge to SocketCAN, INI merge, tests | speak the same protocol |

### What is hard, and what makes each part correct

* **Ring.** Readers test a condition under the `q` lock and wait; `push` notifies
  one waiter per frame after releasing the lock; `mark_closed` must not slip
  between test and wait; a full ring drops the newcomer and must say so; `clear`
  works in two steps. Correct means: frames come out in order and once, every
  frame has one accountable fate, nobody sleeps beside a queued frame or a
  closed ring, and a gap is reported.
* **Notify gate.** The callback is application code on a library thread. Correct
  means: once `canSetNotify` or `canClose` has returned, the old callback is not
  running, so its context can be freed; and no call waits for itself, not even
  one made inside a callback.
* **Connection.** A failed write, the RX loop and `canClose` each tear down, in
  different orders, with single atomic stores. Correct means: the TCP stream
  never carries a frame behind a broken one, a loss is reported exactly when
  nobody here caused it, a dead link does not look ready, nothing moves after
  `canClose`, every call returns, and no reader is left behind.
* **Codec.** TCP is headerless: one byte of disagreement between encoder and
  decoder garbles everything that follows. Correct means: whatever bytes arrive,
  the decoder stays within its buffers; both transports deliver the same frames
  for the same bytes; what was written is what is read.
* **Configuration.** Three layers, twelve settings, two hand-written copies of the
  overlay, and conversions that never fail but fall back. Correct means: each
  setting comes from the strongest layer that gives it a meaning, independently
  of the other settings.
* **Opening.** A deadline that is tested between polls, a queue of clients of which
  only some are allowed, a handshake read in pieces. Correct means: an open
  channel has exchanged the right banner with an allowed peer, nobody else gets
  anything in, and the call ends within a time that can be stated.
* **Handle table.** One global lock, held for lookups only; calls keep a channel alive
  after its handle is gone. Correct means: a handle, however stale, never names
  a different channel; no call holds up the table; a call that is made from a
  callback waits neither for a frame nor for its own thread; a closed channel
  gives up its thread, sockets and port, whoever closed it.

The full list of hazards, each at its line and with the properties that cover
it, is `hazards` in `PROJECT.json`.

## 2. Modules

| Module | Models | Composes with |
|---|---|---|
| `LossyQueue` | abstract specification: what the receive side promises its application | refined by `RxRing` |
| `RxRing` | `Shared` without the callback | `INSTANCE LossyQueue` |
| `RxRingProofs` | proofs about `RxRing` | extends `RxRing`, TLAPS |
| `NotifyGate` | callback, `set_notify`, `close`, the handle table as far as they use it | two channels and their RX threads interact |
| `NotifyGateProofs` | proofs about `NotifyGate` | extends `NotifyGate`, TLAPS |
| `Conn` | `write`, `close`, both RX loops, every teardown path | ring as level and closed flag |
| `ConnProofs` | proofs about `Conn` | extends `Conn`, TLAPS |
| `Wire` | the codec, as operators | used by `DataPath` |
| `DataPath` | `write_frame` -> encoder -> stream -> RX loop and decoder -> `write_read_outputs` | extends `Wire` |
| `DataPathProofs` | proofs about the decoder and the buffers of `canRead` | extends `DataPath`, TLAPS |
| `DatagramProofs` | proofs about the bytes of a frame and `parse_udp` | extends `DataPathProofs` |
| `StreamProofs` | proofs that both transports agree and that what is written is read | extends `DatagramProofs` |
| `Config` | `Config::load`: defaults, INI file, environment, as operators | used by `Connect` |
| `Connect` | `canOpenChannel` up to the connection, `Conn::connect`, `canGetNumberOfChannels` | extends `Config`; ends where `Conn` starts |
| `ConnectProofs` | proofs about the layers of the configuration and the open | extends `Connect`, TLAPS |
| `Exports` | what exports store into buffers of a stated size, as operators | used by `HandleTable` |
| `HandleTable` | `CONNS`, `NEXT_HANDLE`, the calls through them, `Arc` and `Drop` of a `Conn` | extends `Exports`; the connection as in `Conn`, abridged |
| `HandleTableProofs` | proofs about `HandleTable` and `Exports` | extends `HandleTable`, TLAPS |
| `MC*` | instances for TLC | |

Definitions named `...OffByOne`, `...NoDrain`, `...Silent` and the like, each
introduced as "Mutant of X", are deliberately wrong variants of the definition
that follows them; no specification uses them. They document which plausible
bug each property would catch (several are bugs the repository's history names:
kvasilloni-hc9, -4vc, -cqe, -5gh, -kkt, -nmt).

### State and actions against the code

**RxRing.** One step is what happens under one acquisition of a lock, or one
atomic store. `PushFilter`, `PushEnqueue`, `PushNotifyOne` are the three steps of
`push`: filters lock, `q` lock, `notify_one`. A blocking reader goes through
`ReadWait` (take the lock, test), `Park` (the atomic release-and-wait of the
condition variable; until then it still holds the lock: `QLocked`), and after a
notification (`woken`), a timeout (`expired`) or a spurious wakeup, `Resume`
(retake the lock, test again). `clear` is two steps because the code resets the
latch after releasing the lock; `mark_closed` is two because it notifies after
releasing it. Frames are numbered as they arrive; `got`, `dropped`, `flushed` and
`filtered` are history variables, and so is `raced`: the frames dropped while some
thread was between the two steps of `clear`. Which operations each thread calls
(`calls`) is chosen in `Init`, so that one run covers several applications.
`canWAIT_INFINITE` (49 days) never expires. An
expired waiter that finds a frame takes it, as `wait_timeout_while` followed by
`pop_front` does. The receive time stamp is left out. `mark_closed` may be called
by any thread, which stands for both `close` and the RX loop's own teardown.

**LossyQueue.** What an application is promised, without locks: a frame arrives and
meets the filter (`Arrive`); one that passed is queued if there is room (`Put`) or,
only if there is none, dropped (`Drop`), which raises `overrun` in the same step.
There is no other way for a frame to disappear before it is queued, and then only
`Take`, from the front, and `Flush`. `overrun` goes down in `EndFlush` only, the step
that a flush still owes. Two steps for a flush is what the code has and what
`ring_flush` is about: an abstract queue that flushed in one step would not be
implemented.

**NotifyGate.** Channel `c` and its RX thread share a name. `cb_active` is held
exactly while the RX thread is `gated` or `calling`, and `IN_NOTIFY_CB` is set
exactly on the threads that are `calling`. A callback may make the calls its
entry in `calls` allows. `freed` records when an application that follows
`docs/RETARGETING.md` would free a context: when the call that retired it has
returned, or, for the context a callback runs with, when that callback ends.
`Batch` is the number of frames one receive can bring: 1 on TCP, more on UDP.
Which calls each thread and callback may make (`calls`) is chosen in `Init`, so
that one run covers several applications. `canClose` removes the handle first, so a second `canClose` finds nothing and
returns at once; `Drop` calls `close` again, which finds no `JoinHandle` and only
repeats the stores, and is left out. A callback armed without `NOTIFY_RX` in its
flags is never called (line 204); it is the same as none and is not modelled.

**Conn.** Every atomic store of `write`'s error path, of `close` and of the end of
`tcp_rx_loop` is a step of its own, in the code's order. A TCP frame is written
in two parts, because `write_all` may fail between them; a write fails by its
timeout, a gone peer or a shut-down socket, so `WriteFail` is always possible.
`stopper` is history: who cleared `running` first. The protocol of the connection
is chosen in `Init`. The ring appears as its level and closed flag.

**Wire, DataPath.** Bytes and lengths are the real ones. A `can_id` is a record
of its flag bits and its 29-bit id (32-bit numbers do not fit TLC's integers); a
flag word is the set of its flags' names. `decode_stream` is one operator per
state. `RxChunk` is one turn of `tcp_rx_loop`: `read_exact` of the bytes the
decoder asked for, one decoder step, and, if a frame is complete, `push` and the
re-priming of the decoder. How TCP segments the stream does not matter to
`read_exact` and is not modelled. The sender is `canWrite` of another kvasilloni
(`CanWrite`) or a peer with any header (`PeerSends`), which may also break off in
the middle of a frame (`PeerBreaksOff`).

**Config, Connect.** A text is a body (blank, number, address, list, word) and
whether blanks stand before it; of a word only the initial and its meaning as a
flag matter, since `starts_with_ci` looks at one byte and `parse_bool` at six
words. `ApplyMap` and `ApplyEnvWith` are two operators because the code has two
functions, with twelve names each. `Connect` opens one channel at a time from a
`world` of files, environment and busy ports. `Accept`, `Refuse` and `Poll` are the
turns of `accept_with_timeout`'s loop: the deadline is looked at after a refusal
and before a sleep, so a client that comes after it can still be taken. Time is
counted in polls of 50 ms; a step that blocks takes any time up to its timeout;
what happens exactly at the deadline goes either way. `HandshakeReceive` is one
read inside `read_exact`. A timeout of 0 makes `connect_timeout` and
`set_read_timeout` fail, so no TCP channel opens with `connecttimeout=0`. Binding
an ephemeral port takes any port that is free.

**HandleTable.** `table` is `CONNS`; `arc` in a thread's record is the `Arc<Conn>` that
its call holds, `ring` the `Arc<Shared>`: `canReadSync` holds only the latter.
Every access to the table is `LockConns` and then one step that releases the
lock. `Leave` drops the `Arc`; if it was the last one, `Drop` runs `close`, which in
the code as it is has always been done before. `canReadStatus` is three reads.
`canReadWait` and `canReadSync` are called with `canWAIT_INFINITE`, the hard case. The
stores of `close` before its join are one step, and those of a failed write
(`WriteFails`) another (`Conn` has them apart); `shut` says that one of the two has
shut the TCP socket down, which alone makes a blocked receive or send return. The
RX loop is the one of `Conn` without the decoder. `Query` stands for the exports
that fill a buffer and depend on no other state.

Some of the `Threads` are notify callbacks (`callbacks` of a setup). After a frame was
queued the RX thread is at `callback`; a call made there records the connection
whose RX thread it runs on as `host`. It polls where a thread would wait
(`WaitOver`), and a close of its own channel takes the `JoinHandle` without joining
(`CloseTake`): the RX thread is then `Leaving`, outlives the table entry and the
call, and ends by itself. The callback returns (`RxReturn`) once its call has.
What protects the callback and its context, and the rest of a datagram after a
callback has closed its channel, is in `NotifyGate`; here a receive brings one
frame.

## 3. Runs

Deadlock checking is on in `connect`, `handles` and `handles_status`. It is off in the other runs: an
application may stop calling and a peer may stop sending, and those models have
bounds on frames and calls.

| Run | Question | Result |
|---|---|---|
| `ring` | all ring operations, three threads in four applications, two id classes, all timeouts: `TypeOK`, `Fifo`, `OneFate`, `CloseWakesAll`, `NoStrandedReader`, `GapReportedUnlessFlushing`, refinement of `LossyQueue`, and under fairness `CloseReleasesReaders`, `QueuedFrameEndsWait` | holds |
| `ring_peek` | does a queued frame wake a reader, beside a `canReadSync`? `QueuedFrameWakesReader` | **violated** |
| `ring_flush` | `GapReported` beside flushes | **violated** |
| `gate` | two channels; a callback that re-arms itself and closes its own channel, or the callback of one closes the other while a thread closes it: `ContextOutlivesCallback`, `NoCallbackAfterClose`, `CallsReturn`, `ClosedThreadEnds` | holds |
| `gate_disarm_other` | a callback that disarms another channel | **violated** |
| `gate_datagram` | a callback that closes its channel in the middle of a datagram | **violated** |
| `conn_all` | both transports; two writers, a reader, a closer, a peer that may go | holds |
| `conn_writer_status` | is a lost link reported, with a writer? | **violated** |
| `data_path` | limits, agreement of the transports, round trip | holds |
| `connect` | 6162 configurations: `LayeredByKey`, and for the open of each `InboundRestricted`, `OpenMeansTunnel`, `OpenBounded`, and a count of channels that is an `i32` | holds |
| `handles` | calls through the table by three threads, or two and a notify callback, on TCP, UDP with one port and UDP with fallback: `HandleNamesOneChannel`, `NoOrphan`, `RepliesFit`, and under fairness `LookupsProceed`, `CallbackCallsReturn`, `ClosedSocketReleased` | holds |
| `handles_status` | does a frame queued before the loss show beside bus-off? `PendingBesideBusOff` | **violated** |

`TypeOK` is checked in `ring`, `conn_all`, `data_path` and `connect`. Those of
`NotifyGate` and `HandleTable` hold in the instances of `gate` and `handles` as well
and are not among the listed properties: `NotifyGate`'s is the theorem
`GateTypeCorrect`, and what matters of `HandleTable`'s is part of its inductive
invariant (`Shape`).

### The violated runs

Each states what a document or a comment of the repository says, and TLC
produces the schedule in which the code does otherwise (`findings` in
`PROJECT.json` quotes the lines).

* `ring_peek`: thread A is in `canReadWait`, B in `canReadSync`. A frame arrives
  and `notify_one` picks B, which returns without taking it. A sleeps on beside a
  queued frame until the next one arrives.
* `ring_flush`: `clear` empties the ring; three frames arrive, the third is
  dropped and latches the overrun; `clear` then resets the latch. The
  application reads on without `canSTAT_SW_OVERRUN`.
* `gate_disarm_other`: `IN_NOTIFY_CB` is per thread, not per channel, so a
  callback of channel 1 that disarms channel 2 does not wait for channel 2's
  running callback.
* `gate_datagram`: after a callback has closed its channel, `guarded_udp_ingest`
  still pushes, and notifies, the rest of the datagram.
* `conn_writer_status`: `write`'s error path clears `running` first, so the RX loop
  does not treat the loss as unsolicited; neither `mark_link_lost` nor
  `mark_closed` is called. Bus-off is never shown. For the same reason a reader
  without a timeout stays blocked until somebody calls `canClose`, which is why
  `ReadersReleased` has to exempt connections that a write tore down.
* `handles_status`: `canReadStatus` finds the ring empty; the RX thread queues a
  frame, meets the end of the stream and latches the loss; `canReadStatus` reads
  the loss and answers bus-off without pending. The test
  `read_status_reports_bus_off_on_link_loss` wants pending beside it, and makes
  push, loss and call one after the other on one thread. The next call shows both.

What the code does guarantee in these situations is what the passing runs state:
`NoStrandedReader` and `QueuedFrameEndsWait` when every waiter consumes,
`GapReportedUnlessFlushing` for every frame that was not dropped between the steps
of a `clear`, `ReceiveLossReported` and `ReadersReleased` when no failed write came
first.

Three statements of the documents are weaker or stronger than what the passing
runs show, without a run of their own:

* `src/config.rs:32-33` says that `canOpenChannel` blocks "for up to `connecttimeout`
  (client) / `accepttimeout` (server)". `OpenBounded` is the bound that holds: the
  handshake comes on top, and its timeout is one of each read, of which twelve
  bytes can take twelve; accept overruns by up to a poll and a refusal.
* A refused number in the environment is logged as "using default"
  (`src/config.rs:106`); it leaves the value of the INI file in force (`LayeredByKey`).
* The documents disagree about `allow`. `README.md:98-99` says "Widen it with `allow =
  ip1, ip2`", `src/config.rs:61-62` that sources "other than `host` (or an `allow`
  entry) are dropped", and `src/lib.rs:26-27` "host/allow" and "extra peer IPs": the
  host stays admitted. `src/config.rs:24` and `kvasilloni.ini.example:43` say that the
  list "replaces" the host, and so does the code (`effective_allow`,
  `src/transport.rs:382-388`): with `host = A` and `allow = B`, `A` is refused.
  `InboundRestricted` states what the code and the latter two say. The mutant
  `EffectiveAllowBoth` is what the former three describe, and it violates the
  property.

### Bounds, and why they are enough

* Ring: capacity 2, four frames, three threads. Capacity 2 is the smallest in which
  order can go wrong and in which a reader can make room between two pushes;
  three frames overflow it, and a fourth can be queued behind the gap; with three
  threads a wakeup can be stolen, absorbed or sent to the wrong one of two waiters,
  and two flushes can overlap. The four applications are two readers and a thread
  that polls, flushes and closes; three readers that all consume; two flushing
  threads; a filter that changes (107,481 states). The proofs cover every capacity,
  call table and number of threads and frames.
* Gate: two channels are the smallest system with cross-channel calls and chained
  joins; two or three contexts allow to replace a callback that is running;
  `Batch` 2 is the smallest datagram with a frame after the one that closes.
* Conn: `SeqMod` 2 wraps within `MaxSends` 3; each of two writers can be between
  `is_ready` and the lock while the other fails; one frame is enough to wake or
  not wake the reader.
* Connect: every setting is tried with every pair of 13 texts, given by two lines of
  one file, by two files, and by a file and the environment; ports of 2 bits,
  with 1 and 2 above the limits. Timeouts of 0, 1 and 2 ticks and three clients
  let refusals straddle the deadline; a banner in two parts shows the timeout of
  each read. An edited file changes the number of channels only, as nothing else
  outlives an open.
* HandleTable: two channels, so that a handle can be reused or confused and a port
  reopened; `RingCap` 1 overflows at the second frame; three threads are a closer, a
  call under way and a third that interferes or is the notify callback, which
  closes its own channel, an old one or another one, or reads (61,220 states).
  Buffers of 0 to 28 bytes surround the longest text, of 26 characters. One thread
  of a setup makes the calls of callbacks, so that at any time one callback at most
  is inside a call: two callbacks that close each other's channels would wait for
  each other (section 6).
* DataPath: two frames, so that a decoder left in the wrong place garbles the
  second; lengths on both sides of 8 and 64, with and without the FD bit; ids
  above 11 and 29 bits.

### Fairness

A thread inside a call keeps running (weak fairness on each of its steps). No
thread is made to start a call, no frame has to arrive and the peer does not
have to go away. Beyond that:

* `RxRing`: a waiter with a finite timeout expires.
* `NotifyGate`: a thread waiting for `cb_active` is not overtaken forever by the
  RX thread, which releases it after every frame (strong fairness on
  `SetNotifyDrain`); callbacks return, as `docs/RETARGETING.md` demands ("Keep it
  short and non-blocking"), also when they make calls that return; a receive ends
  once `running` is cleared, because TCP sockets are shut down and UDP sockets
  have a 500 ms read timeout.
* `Conn`: a send ends at the latest by its write timeout; the end of a blocked
  receive as above.
* `HandleTable`: a thread that waits for the mutex of the table gets it in the end
  (strong fairness on `LockConns`); a UDP send ends, a TCP send only once the
  socket is shut down, so that the write timeout is not relied on; opening, which
  may wait for a client, need not succeed but ends (`OpenBounded`). A callback makes
  finitely many calls and returns (strong fairness on `RxReturn`), as for
  `NotifyGate`.
* `Connect` states safety only: `OpenBounded` bounds the time instead.

## 4. Proofs

Every safety and action property that a passing run checks is also a theorem,
for every value of the constants that the module's assumption admits:
`PROJECT.json` lists them under `theorems`. An invariant of a run is seldom
inductive; the tables name what had to be added and why.

### Assumptions

`RingAssumption`, `GateAssumption`, `ConnAssumption`, `DataPathAssumption`,
`WidthAssumption`, `ConnectAssumption`, `WorldAssumption` and
`HandleTableAssumption` say of what kind the constants are: sets of threads, call
tables, positive capacities, bounds that are natural numbers. `WorldAssumption`
says that what `Config::load` reads is made of texts, in at most one file at each
of the three places; `DataPathAssumption`, that a written message is null or a
buffer of at least 64 bytes, and a peer's header any bytes at all. TLC evaluates
all of them in the runs. Nothing bounds the number of threads, frames, channels,
writes or clients: `MaxFrames`, `MaxSends`, `MaxOpens`, `MaxSent` and `MaxClients`
may be any number. Only `RxRing` wants its threads to be finitely many.

Three statements assume more, each time because the property fails otherwise:

| Assumption | Theorem | Why | Without it |
|---|---|---|---|
| `EveryWaiterReads`: nobody calls `canReadSync` (part of the property) | `NoStrandedReaderCorrect` | a woken `canReadSync` takes no frame and passes no notification on | run `ring_peek` |
| `Disciplined`: callbacks register on their own channel only, one thread closes a channel, a callback closes its channel only where a receive brings one frame | `ContextOutlivesCallbackCorrect`, `NoCallbackAfterCloseCorrect` | `IN_NOTIFY_CB` is per thread; the second `canClose` of a handle does not wait; a datagram is delivered to its end | runs `gate_disarm_other`, `gate_datagram` |
| `OneCloser`: one thread closes | `QuietAfterCloseCorrect` | the thread that does not find the `JoinHandle` does not wait; `canClose` takes the handle out of the table first, so that no second call gets so far (`CloseRemove` of `HandleTable`) | - |

`EveryWaiterReads` holds in three of the four applications of the run `ring`,
`Disciplined` in `gate` and `OneCloser` in `conn_all`. `GapReportedCorrect` has no
assumption: its property excepts the frames dropped between the two steps of a
`clear`, and `ring_flush` shows why.

### The ring: `RxRingProofs`

| Theorem | Argument |
|---|---|
| `TypeCorrect` | `TypeOK` is inductive |
| `FifoCorrect` | `Fifo` alone is not: pushing needs `Newest`, that everything queued or read is older than the frame being pushed |
| `OneFateCorrect` | `Partition`: the fates are pairwise disjoint and together are exactly the frames that arrived, so that no step can find a frame in two places |
| `GapReportedCorrect` | `GapsKept`: while a gap of that kind is in the ring, no thread is between the steps of `clear`, so that nobody is about to reset the latch; a flush that begins takes the gap away with the frames around it. It needs `Fifo` and `Partition`: a frame queued later is younger than every dropped one and makes no gap |
| `CloseWakesAllCorrect` | needs `ParkingSound`: a thread about to park still holds the `q` lock and has seen the ring open, which is why `mark_closed` must take the lock |
| `NoStrandedReaderCorrect` | by counting (`Wakeups`): while somebody waits, the ring holds no more frames than there are threads awake plus a notification under way |
| `RingImplementsLossyQueue` | step by step: initial states map to initial states and every step to a step or a stutter of `LossyQueue`; `pending` is a frame that `push` has let through the filter and not yet queued or dropped, so that a full ring's branch must be `Drop`, with its flag, and `flushing` are the threads between the two steps of `clear` |

### The callback gate: `NotifyGateProofs`

The invariant is `TypeOK`, `Entitled` (a thread is inside a call that its table
allows; a callback never drains), `Closing` (a channel whose handle is gone has
somebody who is closing it, or its RX thread has ended or is about to) and
`Custody`, which says where every context is: it belongs to one channel
(`Single`); one about to be registered is new everywhere (`New`); a replaced one is
at most still in use on its own channel (`Replaced`); a freed one is registered
only where no callback starts again (`Released`). The property itself speaks of
freed contexts only, and cannot be maintained without knowing on which channel
a context about to be freed could be running.

| Theorem | Argument |
|---|---|
| `GateTypeCorrect` | `TypeOK` is inductive; it includes that whoever owes a context is running a callback |
| `ContextOutlivesCallbackCorrect` | a conjunct of `Custody` |
| `NoCallbackAfterCloseCorrect` | `Closing`: the RX thread of a closed channel is `Finished` |

### The connection: `ConnProofs`

| Theorem | Argument |
|---|---|
| `ConnTypeCorrect` | from `Shape`, which adds that at most one thread is inside the locked part of `write` |
| `StreamInFrameCorrect` | `Framing`: an unfinished frame is the last thing in the stream, and belongs to the holder of the `tx` lock, or the socket is shut or about to be, before the lock is free again |
| `DatagramsNumberedCorrect` | `Numbering`: under the lock the next number is that of the next datagram |
| `LossIsUnsolicitedCorrect` | `Stopping`: `running` is clear exactly if somebody cleared it, and the RX loop reports only if it was the one |
| `DeadLinkNotReadyCorrect` | `Readiness`: a stopped connection looks ready only for as long as the one who stopped it needs for its next store |
| `QuietAfterCloseCorrect` | `Quiet`: the socket is shut before the RX thread is joined, and the join is over before `close` returns; an action property |

### The data path: `DataPathProofs`, `DatagramProofs`, `StreamProofs`

Three modules, each extending the one before. The first follows the decoder
through whatever bytes arrive; the second describes the bytes of a frame and
what `parse_udp` makes of many; the third compares the stream decoder with it.

| Theorem | Argument |
|---|---|
| `DataPathTypeCorrect` | `TypeOK`, `Checked` and `LengthClass` together are inductive: `Checked` says that the number of bytes awaited follows from the decoder's state, and that a partial frame in state `Flags` or `Data` has passed the length check of its class and holds no data yet |
| `NeedFitsCorrect` | follows from `TypeOK` and `Checked`: without the checked length, `need` could be as large as the seven bits of the length byte allow |
| `LengthClassCorrect` | from the same invariant: a frame reaches the ring only from a state in which its length was checked |
| `BufferFitsCorrect` | `ReadsHanded`: every answer is `write_read_outputs` of some frame, and that clamps by the class of the channel |
| `DatagramAllOrNothingCorrect` | `SentShape`: everything sent is the bytes of one frame with its length, the last perhaps cut off by a peer that left. `ParseUdp` is a recursive function, that is, a `CHOOSE`; `ParseUdpIs` shows that its equations have one solution (a least argument at which two differ cannot exist), and the frames themselves, or the failure from the first refused one on, are given as that solution. The join of the bytes is treated alike |
| `TransportsAgreeCorrect` | `InStep`: the ring has been given the frames sent, in order (`Delivered`); the partial frame and the decoder's state say exactly what the bytes read of the next frame say, and the unread stream begins behind those (`Following`); the loop ends only for a refused frame or a peer that has gone (`Stopped`) |
| `RoundTripCorrect` | `Queued`: what was read and what is in the ring is what was pushed, with `InStep`; then one lemma per conversion and its inverse: `CanIdBack` (ids), `FdFlagsBack` (flags), `LeastLength` (the FD length that `FdRoundLen` picks), `BytesBack` (payload, padded), `CallBack` (a whole call) |

### Opening and configuration: `ConnectProofs`

`IInv` is what the way through `connect` needs: `Types`; `Route`, which transport and
role lead to which place; `Clock`, the time spent so far at each place; `Queue`, that
the clients before the first waiting one were refused, and none of them was
allowed; `Tunnel`, what an open channel has received; `HeardAllowed`; `Counted`.
`Origin` rests on it and says where the configuration came from.

| Theorem | Argument |
|---|---|
| `OpenBoundedCorrect` | `Clock`: accepting costs at most the timeout, a poll and a refusal, each part of the banner one timeout |
| `OpenMeansTunnelCorrect` | `Tunnel`, from `Queue` at the moment a client is taken |
| `LayeredByKeyCorrect` | `Loaded` (of `Origin`), and for each of the twelve keys that `Load` is the strongest layer with a meaning, whatever the other keys hold |
| `InboundRestrictedCorrect` | `HeardAllowed` with `Hosted`: nobody is heard but for a host that is an address, so that the check has something to compare with |
| `ConnectTypeCorrect` | the widths, from `Types` and `Ranges`; every conversion stays in its width or leaves the setting alone |

### The handle table: `HandleTableProofs`

`IInv` holds for any number of threads, callbacks, opens and calls: `Shape` (types,
and that every index names a connection), `Named` (a number is given to one
connection), `Places` (what a call holds at each of its places; that a close which
is about to take the `JoinHandle` has already told the RX thread to stop; that a
call with a `host` runs inside that connection's callback), `Joining` (whoever took
the `JoinHandle` is joining, or has joined, or was the RX thread itself, which is
then `Leaving`) and `NoOrphan`.

| Theorem | Argument |
|---|---|
| `HandleNamesOneChannelCorrect` | `Named` and `Places`: numbers are never reused, and a call goes on with the connection that bore its number when it looked it up |
| `NoOrphanCorrect` | `Places` and `Joining`: as long as the RX thread can still receive, the table or a call holds the connection. A close that detaches runs on the RX thread, which is at `callback` with `running` clear; from there it goes by the test, and on TCP the swap, to its end (`Onward`: what is `Leaving` stays so or is done) |
| `RepliesFitCorrect` | every answer is one of `Replies` of the size stated (`Shape`), and each of these fits |

### What is only model-checked

* Everything that needs fairness, which is out of the prover's reach:
  `CloseReleasesReaders`, `QueuedFrameEndsWait`, `CallsReturn`, `ClosedThreadEnds`,
  `ReceiveLossReported`, `ReadersReleased`, `LookupsProceed`, `CallbackCallsReturn`,
  `ClosedSocketReleased`;
  and that `connect` and `handles` do not deadlock.
* What the violated runs show: a counterexample is an instance.
* That the views one module has of another's part agree: `Conn` sees the ring as
  its level and closed flag, `HandleTable` sees a connection abridged. These are
  argued in section 2 and neither checked nor proved.

## 5. Plan

In order of importance:

1. *(done)* `LossyQueue`, `RxRing`, `NotifyGate`, `Conn`, `Wire`, `DataPath`; proofs of
   the ring and of the decoder.
2. *(done)* `Config`, `Connect`: the layers, every step of an open and its failures.
3. *(done)* `Exports`, `HandleTable`: the table and the calls that look a handle up while
   another thread closes it; calls and closes from callbacks; the three reads of
   `canReadStatus`.
4. *(done)* Proofs of every safety and action property that the passing runs check.
5. That `Conn`'s view of the ring (level and closed flag) is implemented by `RxRing`,
   as `RingImplementsLossyQueue` is for the whole; then that `HandleTable`'s abridged
   connection is one that `Conn` can be.

## 6. Not modelled, and why

* Failing `try_clone`, `set_read_timeout` on the UDP socket and thread creation inside
  `connect`: each would end the open like a failing bind.
* Configuration warnings and the log file; where the DLL and the EXE lie.
* The driver type kept by `canSetBusOutputControl`, a global that only its getter
  reads, and the exports that only log and return a constant.
* `NEXT_HANDLE`'s wrap after 2^31 opens.
* The panic firewall (`guard`, `catch_unwind`, poisoned locks): the models contain
  no panics.
* Time stamps, logging, the wording of error texts.
* A callback pair that closes each other's channels: each would join the other
  forever; the code has no guard against it and no document promises one. The
  setups of `gate` and `handles` leave it out.
* That `canClose` of a handle that is being closed elsewhere returns `CAN_OK` at once
  (`CloseRemove` has the case), before the RX thread has ended. No property catches
  it: `handles` has two closers of one channel and shows that the channel is stopped
  and released once, not that the second call waits; no run of `NotifyGate` has two
  closers, whose contexts the second would free too early (`docs/RETARGETING.md:45-47`
  against the leniency of `src/lib.rs:514-515`).
* UDP loss and reordering: datagrams are independent, and nothing on the receive
  path looks at the sequence number.
* `tools/canbridge.py`, `tools/ini_merge.py`, fuzz targets and tests: not part of the
  library.
