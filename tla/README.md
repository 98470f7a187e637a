# Verification of kcp_server

TLA+ models, model-checking runs and machine-checked proofs for the crate
`kcpserver` (version 1.1.6), a KCP server on top of UDP. Paths below are
relative to the repository; `kcp.rs` is `src/kcp/kcp_module/kcp.rs`, and the
other files are under `src/kcp/kcp_server/`.

The server speaks KCP: an ARQ protocol that makes an ordered, reliable byte or
message stream out of datagrams. The crate contains the protocol engine, an
asynchronous peer around it, and a listener that creates peers and drives them.

## 1. Inventory

### The parts, their state, their operations

**Kcp ARQ engine** (`kcp.rs`). One control block per conversation. State: the
sender's `snd_queue`, `snd_buf`, `snd_una`, `snd_nxt`, `rmt_wnd`; the receiver's
`rcv_buf`, `rcv_queue`, `rcv_nxt`, `acklist`; the pending window commands
`probe` with `ts_probe`/`probe_wait`; the output buffer `buf`; clocks, RTO and
the congestion window. Operations: `send`, `recv`/`peek_size`, `input` (a loop
over the segments of a datagram), `flush` (ACKs, window commands, numbering,
data), `update`/`check`.
*Hard:* reordered, repeated and late datagrams; a receive queue that fills up;
a window that closes and has to be probed; a `flush` whose socket fails half-way.
*Correct when:* what `recv` returns is what was sent, in order, once, in whole
messages; the sender releases a segment only when the receiver holds it; nothing
readable is left behind; every byte arrives in the end.

**KcpPeer** (`kcp_peer.rs`). A `Kcp` behind an async mutex, an `AtomicWaker`, and
the atomics `is_broken_pipe` and `next_update_time`. Operations: `input`, `recv`
(the future `WaitInput`, then `recv_buf`), `send`, `flush`, `update`, `close`,
`set_broken_pipe`.
*Hard:* four kinds of task meet here, and three of the shared cells are touched
without the mutex.
*Correct when:* the readers never all sleep on a message; the broken pipe is told,
but only after the messages that arrived before it; every ACK is flushed.

**KcpReader, KcpWriter** (`kcp_peer/reader.rs`, `kcp_peer/writer.rs`).
`AsyncRead`/`AsyncWrite` over a peer. State: the future in progress and, for the reader,
a cache of what did not fit the caller's buffer. Operations: `poll_read` around
`poll_recv`; `poll_send`, `poll_flush_async`, `poll_close_async`. *Hard:* a poll comes
too early, or with another buffer after a read was given up; a flush waits for the
socket with the mutex in its future, also when it was given up. *Correct when* they keep
the promises of the peer across the polls of one operation.

**KcpListener** (`kcp_listener.rs`). State: the map `peers` from conversation
numbers to peers under a `RwLock`, and the counter `conv_make`. For each UDP peer
one UDP task (handshake, creation of the peer, the input loop, broken pipe) and
one spawned main task (insert, application, remove and close); one update loop
that holds the read lock of the map and spawns update tasks.
*Hard:* the tasks of one session end in either order; sessions share the map, and
perhaps a number, for the code takes the number that a client writes; a main task
waits for the mutex of a peer with the write lock in its hands.
*Correct when:* no number is given twice; a session is registered and updated while
it runs, the end of one side ends the other, and no entry outlives its session.

**udp_server** (a crate, outside the repository; `udp_sever.rs` is a trait over
it). UDP peers with a channel of datagrams, a timeout, `send` and `close`.

**Clock and update schedule** (`kcp.rs`: `update`, `check`, `flush_async`, the resend
timer; `kcp_peer.rs`: `need_update`, `update`; the loop in `kcp_listener.rs`). State:
`current`, `ts_flush`, `interval`, `updated`, `resendts` and `rto` of each segment,
`next_update_time`. *Hard:* update tasks lock in any order; u32 milliseconds pass
2^31 and 2^32; the application flushes with a clock of its own. *Correct when:* a
peer is flushed every interval, and a segment sent again in time, not early.

**KcpConfig, RTO and congestion control** (`kcp_config.rs`; `kcp.rs`: the setters,
`update_ack`, the growth of the window in `input`, its fall in `flush`). State:
`mss`, windows, `rx_rto` and its estimates, `cwnd`, `incr`, `ssthresh`. *Hard:* rounding,
limits, two counters of one window that six places write. *Correct when:* the
window opens again after every loss, its counters agree, and the timeout covers
the round trip.

**XOR codec** (`KcpOutput::send` and `decode` in `kcp.rs`, `decode` in
`kcp_listener.rs`): no state. *Correct when* each end decodes what the other encodes
and the conv stays readable.

**Errors** (`error.rs`), **crate roots and examples**.

### How they interact

```
 UDP socket --datagram--> UDP task --input--> [ mutex: Kcp ] <--flush-- writer
                             |                  |   ^     ^
                    set_broken_pipe           wake  |     | update
                             v                  v  recv   |
                       is_broken_pipe ------> reader   update task <-- update loop
 main task: insert into peers -> application (readers, writers) -> remove, close
```

The mutex is held across `await` while `flush` sends to the socket. `wake`,
`is_broken_pipe` and `next_update_time` are shared without it. A UDP task and a
main task know of each other only by the broken pipe (one way) and by the close
of the UDP peer (the other way), by the main task through the map, and by the
application when it shuts its writer down.

The hazards this leads to, at their lines, are listed in `PROJECT.json`, each
with the properties that would catch it going wrong.

## 2. What each module models

| module | models | state corresponds to |
|---|---|---|
| `Kcp` | two control blocks and the network between them | the fields of `Kcp` of the same names |
| `ReliableStream` | what a pair of peers promises: `Write`, `Read` | bytes written, message ends, bytes read |
| `KcpPeer` | one peer and the tasks around it | the mutex, the waker, the two atomics; where each task is |
| `KcpListener` | the UDP, main and update tasks of several sessions | `conv_make`, `peers` and its write lock, the tasks |
| `KcpIo` | the reader and the writer between the polls of an operation | `state`, the kept future, the cache; the mutex and the waker |
| `ByteStream` | what an `AsyncRead` over a peer promises: `Arrive`, `Read`, `Tell` | bytes arrived, bytes read, broken pipe told |
| `KcpClock` | when a peer is flushed and a segment sent again | the u32 clocks, the update tasks |
| `KcpControl` | configuration, RTO and congestion window of one `Kcp` | the fields of `Kcp` of the same names |
| `KcpCodec` | the cipher | datagrams as sequences of bytes |
| `MCKcp`, `MCKcpListener`, `MCKcpControl` | values of constants for TLC | |
| `SequenceFacts` | lemmas about cutting and joining sequences | |
| `KcpProofs`, `KcpStreamProofs` | the theorems about `Kcp`: what is read; order, release, refinement | |
| `KcpPeerProofs`, `KcpListenerProofs`, `KcpClockProofs`, `KcpControlProofs` | the theorems about the four | |
| `KcpIoProofs` | the theorems about `KcpIo` and `KcpCodec` | |

`Kcp` implements `ReliableStream` under the refinement mapping at the end of `Kcp.tla`
(`sent <- wrote`, `read <- ReadTo`, where `ReadTo` leaves the numbers of the abstract
stream as soon as a piece is read that does not continue the last). `KcpPeer` stands on
`Kcp`: its `ready` is the number of messages for which `Kcp!Ready` would hold in turn,
its `acks` says that `acklist` is not empty.

Definitions keep the names of the source. Operators whose comment begins with
*Fault* are not part of a specification: each is a definition as a plausible
mistake would have it, and shows that a property notices.

### Actions of `Kcp`

| code | action |
|---|---|
| `send` | `Send`: merge into the last segment in stream mode, the limit of fragments, `Fragments` |
| `peek_size`, `recv` | `Ready`; `Recv`: merge a message, refill `rcv_queue` (`Movable`), ask to tell the window |
| `input` | `Deliver` starts it; `InputAck`, `InputPushStored`, `InputPushRefused`, `InputWindow` are one segment each; all end in `FinishSegment` (`rmt_wnd`, `parse_una`, `shrink_buf`, and `parse_fastack` after the last) |
| `flush`, and the part of `update` that calls it | `SomeFlush`, `Flush`, `FlushUntil`: `AckSegments`, `ProbeSegments`, `Numbered`, `DataSegments` in the order of the code, cut into datagrams of `MTU`; a failing send stops at the segment being encoded, with the state that has been reached |

An operation holds the mutex and is one action. `input` would be one action too
large to read, so it is one per segment; `Idle` keeps every other operation out
until it ends. This loses no behaviour: the segments of a datagram are processed
under one guard, and the other endpoint shares nothing but the network.

What is abstracted, and why the properties cannot tell:

- *Bytes.* The application's n-th byte is n. A piece of data is its offset,
  length and fragment number, so lost, repeated, mixed or misplaced bytes show.
- *Timers.* `resendts` and `ts_probe` become a choice of each flush: any segment
  that was sent may be late (`late`), an armed probe timer may have fired
  (`fired`). This includes every schedule the clocks can produce.
- *Congestion window.* Any value of the constant `Cwnd`. Its own arithmetic
  decides when segments leave, never which.
- *MTU.* It counts segments per datagram, not bytes.
- *Numbers* start at 0 and do not wrap (the code starts at 0 as well; a wrap
  needs 2^32 segments).
- *`fastack`* saturates at `FastResend`; above it nothing distinguishes values.
- *The network* carries a set of datagrams to each endpoint, at most
  `MaxInFlight`; it drops any when it is full, delivers in any order and, with
  `Duplicating`, again and again.
- `wrote`, `ends`, `log`, `out` are history and restrict nothing, but for the
  bound `MaxWrite`.

### Actions of `KcpPeer`

Every place where another task can come between is a step: each lock, the
input, `wake`, the store of `next_update_time`, the two steps of
`set_broken_pipe` (which takes no lock), the reader's `peek_size`, load of
`is_broken_pipe` and register, the update task's check, lock and update. A reader
looks and takes under one guard, as `KcpReader` does; one in `Relocking` may also
call `KcpPeer::recv`, which looks under one guard and takes under another: in between
another reader may take the message (`Take` fails), or the buffer may be too small
(`BufTooSmall`); a caller that got such an error reads again (`Retry`). An input
may fail half-way (`UdpInputError`): the messages of the segments before the malformed one
are readable, and only the broken pipe wakes the reader for them. The waker holds
one reader, and a second register replaces the first, as `AtomicWaker` does. Times
are "due" or "later", `Tick` makes them due.

### Actions of `KcpListener`

The UDP task: `Open`, `MakeConv` and `ResetConv` (the `fetch_add` and the `store` are
two steps), `Reply`, `FirstPacket`, `GiveUp`, `UdpEnd`. The main task: `Insert`,
`Shutdown` and `ShutdownClose` (the application shuts its writer down, which closes the
UDP peer while the application goes on), `Return`, `Remove`, `CloseLoad`, `Close`; the
write lock that `remove` takes is held until the peer it found is closed, because the
guard is a temporary of the `if let`. `KcpPeer::close` loads `is_broken_pipe` and then,
perhaps, waits for the mutex of the peer, which an update task keeps while its flush
waits for the socket. The update loop: `Visit` (the read lock, and a task spawned for a
peer that is in the map), `UpdateLock`, `UpdateEnd`. A round of the loop keeps the read
lock over all peers; one visit at a time allows all that it does and more.

A session is one life of a UDP peer: the udp_server crate drops an address
at its timeout and starts again when it sends again. The number of a session is the
one in its first datagram, and that may be any: `FirstPacket` takes every number,
whoever it was given to and whoever lives under it, as the code does; the comment at
`kcp_listener.rs:112` speaks of a number that was given and is unused, but nothing looks.
The history `shared` holds the sessions that were live together with another of their
number; the history `rounds` counts how often `make_conv` gave the number 1.

### Actions of `KcpIo`

A poll runs to its end or to its first `Pending`, and is one action. What it finds
decides: `PollCached` (the cache has bytes left), `PollWait` (the mutex is taken: the
lock future is kept, `state` is `ReadBuff`), or a guard, and then `PollTake` (the
message fits the buffer), `PollFill` (through the cache), `PollEmpty` (register the
waker), `PollBroken`. Polls may come too early, when nobody woke the caller, and
`GiveUp` drops a read, after which the next one has another buffer. The writer:
`PollSend` (it locks, sends and unlocks in the poll that gets the mutex), `PollFlush`
(waits for the mutex, then perhaps for the socket with the mutex in its future),
`PollClose`. `GiveUpWrite` drops an operation whose poll was pending: the writer keeps
its future, and with that of a flush perhaps the mutex. Then the operation is begun
again and takes the future up, or another one is begun and panics (`PollPanic`:
`writer.rs:57`, 78 and 96), or the writer is dropped (`DropWriter`). A future that waits
for the mutex may be the one that is told when it is free, also when nobody polls it
(`OtherUnlock`). The mutex has three holders: nobody, another task, a flush. The
application's n-th byte is n. `Head(queue) <= len` and the cache decide which bytes go
where; `cache` keeps its old length and old bytes, as the `Vec` does.

`KcpIo` implements `ByteStream` (`ImplementsByteStream`, with `read <- out` and
`told <- (reading = "broken")`).

### Actions of `KcpClock`

`Round` is one turn of the update loop: it takes the `timestamp` and spawns a task
when `need_update` says so. `UpdateCheck` and `Update` are the two steps of
`KcpPeer::update`: the second comparison, and everything under the mutex, with
`Kcp::update` (`TsFlush`, `NextFlush`), its flush, which may fail, and the store of
`check` as the next time. Tasks of several rounds run in any order, with
timestamps that are up to `MaxDelay` old, so `current` goes back. `Input` stores 0;
`FlushAsync` is the flush of the application, which may fail and which adds 10 ms to
`current` whatever the clock says; `Send` queues the one segment that is followed. `Tick`
lets time pass until the loop or a task must run.

Clocks are numbers below `M`, a small even number in place of 2^32, and `timediff`
is the difference modulo `M` as a signed number, which is what `as i32` does in a
release build. The resend timeout is the constant `rx_rto`; 5 ms, 10 ms and 10 s are
`Period`, `Step` and `SlapMax`. `ts_flush` begins with the configured interval and not
with `KCP_INTERVAL`; the first update overwrites it.

### Actions of `KcpControl`

`Init` makes a session with a configuration: `apply_config` is the chain of setters
in the order of the code, on the values of `construct`. `Input` is a datagram with
acknowledgements: at most one round trip measured (`update_ack`), segments
acknowledged, a window told, and the growth of `cwnd` and `incr` (`Grown`). A
datagram that measures several is as many steps. Late and repeated ACKs measure
too, as in the code, so a round trip comes without a segment acknowledged.
`Flush` fills the window from the queue and then lets `cwnd` fall for segments
passed over (`AfterChange`) and for timeouts (`AfterLost`), in that order, and opens it
to 1. `FlushFails` returns before that: what it resent does not count.

### `KcpCodec`

`encode` is the loop of `KcpOutput::send`, `decode` that of both `decode`s; a byte is the
set of its bits. Nothing here has a state, so it is proved and not run.

## 3. Runs

Each run takes three minutes or less. Deadlock is checked but in the listener's
runs: a flush, a poll or time can always go on, while the listener really stops
when its sessions are over.

| run | question | bounds |
|---|---|---|
| `KcpMessages` | do the buffers stay ordered, does the acknowledged prefix only grow, and does the pair implement the stream of messages? | 3 bytes one way, messages of 1 and 2 fragments; 1 data segment in flight, which may be lost, repeated and sent again after a later one; 2 ACKs in flight, which overtake each other; fast resend at 1 duplicate |
| `KcpWindow` | is anything stranded, lost or reordered when the receive window is smaller than the data and a send fails? | 3 messages, window 2, congestion window 1 or 2, 1 failed send at any place of any flush |
| `KcpStream` | do the segments cover the bytes when writes fill the last segment, is a segment released only when held when una travels on data, and is what is read what was written? | both ends in stream mode, mss 2, writes of 1 byte (fill) and 4 (refused, after filling); 2 bytes one way, 1 the other; datagrams of up to 2 segments, which arrive again later |
| `KcpLive` | is every byte read in the end? | 3 messages, window 2, so that it closes; the network settles some time |
| `KcpPeerTasks` | do the tasks exclude each other, do the readers never all sleep on a message, is none lost to the broken pipe, is every message read and every ACK flushed? | 2 readers, one of which may use two guards, 1 writer, 1 update task, 2 datagrams |
| `KcpPeerBroken` | is a waiting reader told of the broken pipe? *(violated)* | 1 reader, 1 writer, 1 update task, 2 datagrams |
| `KcpListenerShared` | is no number given twice before the counter has gone round; does a dead session ever stay in the map; is a session with a number of its own registered and updated while it runs, and is its UDP peer closed at its end; does the end of a main task, or a shutdown, end the UDP task? | 2 UDP tasks that ask for up to 2 of 4 numbers, the counter being set back after 2; or 2 sessions with any of the numbers, the same or different ones |
| `KcpListenerSameConv` | is the UDP side closed when the main logic ends? *(violated)* | 2 sessions with any of 4 numbers |
| `KcpClock` | is a peer flushed every interval, and a segment sent again in time and not early, when tasks overtake each other and timestamps pass the middle of u32? | `M` = 256, time from 110 to 131 across 128; intervals 0 and 2; tasks at most 1 late; one flush of the application between updates; 1 update that fails |
| `KcpClockWrap` | and when they pass `u32::MAX`? *(violated)* | the same with `M` = 64 and no failure, time from 58 to 78 across 64 |
| `KcpIo` | does a reader sleep, lose, repeat or mix bytes, whatever the sizes of messages and buffers and whichever reads and writes are given up? | 3 messages of 0 to 3 bytes, buffers of 1 and 2 |
| `KcpControl` | do `cwnd` and `incr` agree, does the window open again, does the timeout cover the round trip, and does the window never stop growing? | 4 configurations, windows told of 0, 1 and 5, 2 round trips of 0, 9 and 70000 ms |

Why these bounds are enough for the interesting cases. The mutants show for each
property that the run reaches states in which it could fail. In `Kcp`, three segments
are the least at which a gap can be overtaken by one segment and followed by another; a
window of two is the least at which the queue can be full while a segment is ahead. In
`KcpWindow` `RcvWndCfg` is below `KCP_WND_RCV`, so that the maximum of the two that
`set_wndsize` takes matters. In `KcpPeer`, two readers are the least that take each
other's message and replace each other's waker; two datagrams let one arrive before a
reader parks and one while it parks; update tasks that overtake each other are the
matter of `KcpClock`. In `KcpListener`, two sessions are the least that can meet at an
entry, at the counter and at the write lock: one takes the number at which the counter
is set back, and the other takes the last one and 0 before it is. In `KcpClock`, the
delay, the loop's period and the steps of the application are each one unit, so every
order of two tasks of successive rounds occurs, and the time is long enough for a
segment to be sent, resent, and resent with the doubled timeout across the middle of the
range; the range is wide enough for the premise of the theorems (`NoWrap`, below), which
these constants satisfy. In `KcpIo`, three messages are the least at which an old byte
of a longer message could follow a shorter one from the cache, with a message of size 0
among them. In `KcpControl`, the configurations are the default, `fastest` with windows
of 0 (not taken), the smallest valid mtu with windows of 3 and fast resend, and an
interval of 0; one with an invalid mtu makes no session. Round trips are 0 (which resets
the estimate), a small one, and one above `KCP_RTO_MAX`.

In the listener's runs each session has an address of its own. Two sessions of one
address are a special case: they only may not be open at one time, and since any number
may be chosen it does not matter to whom one was given. A run either asks for numbers,
until 1 is given again, or begins sessions (`AskOrBegin`): `make_conv` looks at the
counter alone, which nothing else reads, so the two would only multiply each other's
states.

### Fairness

- *`Kcp`.* The update loop flushes every interval, and a flush comes at which
  the oldest segment is late and the probe timer has fired (`TimelyFlush`), with
  a congestion window of at least one, as the code keeps it, and a socket that
  works. The application reads what can be read; `input` runs to its end; the
  network, which from some time on loses nothing (`Settle`), delivers. All of
  these wait for the mutex, which `async_lock` gives in turn, so a step that can
  be taken whenever the mutex is free is taken: strong fairness. Nothing
  makes the application write.
- *`KcpPeer`.* A task that can run does; the mutex is fair to those who wait
  (strong fairness of the lock steps); time passes; a flush that is tried again
  and again succeeds some time. A caller that got an error other than `BrokenPipe`
  reads again, and not for ever with a buffer that is too small. Nothing makes a
  datagram come, the UDP task end, or a writer flush or close.
- *`KcpListener`.* Spawned tasks go on; the update loop goes round; the `RwLock` and
  the mutex of a peer are fair to those who wait (strong fairness); a flush ends,
  with success or not; the task of a UDP peer that was closed ends; a shutdown that
  was begun is awaited. Nothing makes a client send, a UDP peer time out, or an
  application shut down or return.
- *`KcpIo`.* The caller reads again when its read returned or was woken, and then
  gets the mutex some time (strong fairness); other tasks give it back; a flush
  that is polled when the socket wakes it ends. Who gave up an operation of the
  writer uses the writer again, for whatever operation, or drops it: without that a
  flush that was given up would keep the mutex for ever. Nothing makes a caller
  write, or a reader poll when nobody woke it: `BytesRead` holds because the wake-ups
  suffice.

## 4. What the runs found

- **A reader may miss the broken pipe** (`KcpPeerBroken`). A waiting read loads
  `is_broken_pipe` (`kcp_peer.rs:159`, `reader.rs:78`) and registers its waker later
  (`kcp_peer.rs:179`, `reader.rs:143`). `set_broken_pipe` stores and wakes without the
  mutex: when both steps fall in between, the wake-up finds nobody and the read never
  returns. The comment at `kcp_listener.rs:167` says that a main logic that waits in
  `recv` gets the error at once. Registering first and loading afterwards would close
  the gap.
- **Two sessions with one number mix up their entries** (`KcpListenerSameConv`). `peers`
  is keyed by the number alone and `insert` replaces. The session whose entry was
  replaced ends, removes the entry of the other and closes the other's UDP peer, or
  nothing when the other's pipe is broken. Its own UDP peer stays open, unlike the
  comment at `kcp_listener.rs:153`, which says that the end of the main logic closes the
  UDP side. Either session may be the one that is replaced: in the usual order it is the
  older one, and at its end the younger one, whose application still runs, is closed and
  no longer updated; but the older may also insert last, even with a pipe that is broken
  by then. TLC's shortest traces are of both kinds. Two sessions have one number when a
  client comes back to it while its first main task still runs, when clients choose the
  same, or when the counter of `make_conv` has gone round.
- **Updates stop when the milliseconds wrap** (`KcpClockWrap`). `need_update`
  (`kcp_peer.rs:95`) compares `next_update_time` with the time as plain u32, though
  `kcp.rs` compares times by `timediff`. The milliseconds since 1970 pass 2^32 every 49
  days; a `next_update_time` just below stays above every later timestamp, and the peer
  is not flushed until a datagram makes `input` store 0. The same happens when the
  system clock is set back. The comment at `kcp.rs:1026` says "Update state every 10ms ~
  100ms".

Away from the wrap `FlushedInTime` holds, as `KcpClock` shows, also with an interval
of 0, which `set_interval` takes although it clamps its argument first: the clamped
value is overwritten.

## 5. What is proved

TLAPS checks the theorems for every value of the constants that satisfies the
assumptions: `KcpAssumption` (two endpoints; mss, MTU, windows positive),
`PeerAssumption` (the tasks are distinct from the marks for none and the UDP
task), `ListenerAssumption` (numbers are 0..`U32Max`, `U32Max` at least 2),
`IoAssumption` (sizes are numbers, buffers not empty), `ClockAssumption` (times are
numbers, the loop sleeps), `ControlAssumption` (configurations are of the type of
`KcpConfig`; round trips and configured intervals are below six days, so that no
sum of `update_ack` leaves u32). Further premises are in the statements and
explained below.

| theorem | says |
|---|---|
| `KcpProofs!InOrderAlways` | what `recv` has returned, then what it can return, is what the other end numbered 0, 1, ...: each segment once, in order, unaltered |
| `KcpProofs!GenuineAlways` | the invariant behind it |
| `KcpProofs!KcpTypes` | no number and no advertised window is ever negative |
| `KcpStreamProofs!ImplementsStreamAlways` | `Kcp` implements `ReliableStream`: what is read is what was written, in order and once, in whole messages when `stream` = false |
| `KcpStreamProofs!ReleasedOnlyWhenHeldAlways` | a sender keeps each segment until its receiver holds it |
| `KcpStreamProofs!NothingStrandedAlways` | between operations nothing readable is left in `rcv_buf`, unless the queue is full |
| `KcpStreamProofs!FullQueueReadableAlways` | a full receive queue begins with a whole message |
| `KcpStreamProofs!WritesCoveredAlways` | segments cover the bytes written, refused writes included |
| `KcpStreamProofs!SndBufOrderedAlways`, `RcvBufOrderedAlways` | both buffers ascend, within their windows |
| `KcpStreamProofs!UnaNeverBackAlways` | what is acknowledged stays so |
| `KcpPeerProofs!NeverSleepsAlways` | the readers never all sleep on a message, with any number of readers, writers and update tasks |
| `KcpPeerProofs!DrainedBeforeBrokenAlways` | the broken pipe is reported only when the queue is empty, with any number of readers |
| `KcpPeerProofs!MutexAndTypes` | mutual exclusion, with any number of tasks |
| `KcpListenerProofs!NoDeadEntryAlways` | the map never keeps a session that is over, with any number of sessions and shared numbers |
| `KcpListenerProofs!NumbersApartAlways` | `make_conv` gives no number twice before its counter has gone round |
| `KcpListenerProofs!RunningRegisteredAlways` | the map holds the peer of a running session that shared its number with no live one |
| `KcpListenerProofs!ClosesOwnUdpAlways` | and when such a session has ended its own UDP peer is closed, or was broken |
| `KcpListenerProofs!ListenerTypes` | the counter never leaves u32, and the write lock of `peers` is held by the one main task that closes |
| `KcpIoProofs!ImplementsByteStreamAlways` | `KcpIo` implements `ByteStream`: the bytes in order and once, then the broken pipe |
| `KcpIoProofs!SleepsOnlyWhenEmptyAlways` | a reader that sleeps has nothing to give, or somebody holds the mutex it waits for or has its turn |
| `KcpIoProofs!IoTypes` | the cache stays within its bounds |
| `KcpIoProofs!DecodeOfEncode` | what one end encodes the other decodes, for any key and datagram |
| `KcpClockProofs!FlushedInTimeAlways` | a peer is flushed every interval (`NoWrap`) |
| `KcpClockProofs!ResentInTimeAlways` | what is queued leaves with the next flush, what is not acknowledged is sent again in time (`NoWrap`) |
| `KcpClockProofs!NotResentEarlyAlways` | and not earlier than `current` can be off the clock (`NoWrap`) |
| `KcpClockProofs!ClockTypes` | types of the clocks and of the update tasks (`NoWrap`) |
| `KcpControlProofs!IncrMatchesCwndAlways` | `cwnd` and `incr` count one window |
| `KcpControlProofs!WindowOpensAlways` | once a flush has succeeded an open remote window lets a segment pass |
| `KcpControlProofs!RtoCoversRttAlways` | the timeout covers the round trip measured last, but for rounding, or is the longest |
| `KcpControlProofs!GrowthNeverStallsAlways` | an acknowledgement widens a window that is below the remote one |
| `KcpControlProofs!ControlTypes` | settings and counters keep their widths |

### The engine

**`InOrder`** is not inductive: `input` moves segments from
`rcv_buf` to `rcv_queue` on the word of their numbers, so what they carry has to
be known where they wait. `GenuineInv` says it everywhere: each copy of a
numbered piece of data, in `snd_buf`, in the output buffer, in the network, in
the input loop and in `rcv_buf`, carries the data that its number was given to in
`log`. It has four parts, so that a step is shown to keep one of them
without looking at the others: `SenderInv`, `ReceiverInv` (with `InOrder`
itself), `WireInv` and `AppInv`. The step that matters is `flush`: it extends
`log`, so the lemmas first show that what was genuine stays so (`LogGrows`,
`StaysGenuine`), then that what is encoded is genuine for the longer `log`, then
that the cut into datagrams, the failing send and the network keep it. `recv` and
`input` rest on `MovedContinues`: what `Movable` takes from the front of `rcv_buf`
continues what has been read. Neither needs `rcv_buf` or `snd_buf` to be ordered.

**Order.** On top of `GenuineInv`, `SndBufOrdered` is inductive: `parse_una`, `parse_ack`
and the marks of a flush keep the numbers in their places (`SameNumbers`), and a flush
appends the next ones. `UnaNeverBack` follows, for `shrink_buf` takes `snd_una` from
the front. `RcvBufOrdered` and `NothingStranded` are one invariant (`ReceiverOrdered`):
what an operation may leave behind in `rcv_buf` depends on the order of what is there
and on the room in `rcv_queue`, and each of the two `Movable` loops leaves both true.

**`ReleasedOnlyWhenHeld`** relates a sender to what the other end holds, and between
them are ACKs that may be old. `TruthInv` says of every segment that is in `buf`, in the
network or in the input loop, and of every entry of `acklist`: its `una` is not above
`rcv_nxt` of its sender, and what it acknowledges is held there. Since what is held
stays held (`HeldGrows`) an old segment stays true; so whatever `parse_una` and
`parse_ack` remove from `snd_buf` is held by the receiver.

**`ImplementsStream`.** `CutInv` says how the writes are cut: the numbered data and then
those in `snd_queue` cover the bytes from 0 to `wrote` without a gap; fragment numbers
count down to 0, from less than `KCP_WND_RCV`; and, unless it is a stream, where they
are 0 a message ends. `send` is the step that matters: in stream mode it makes the last
queued segment longer and then may still refuse. `WritesCovered` is the first part. With
`InOrder` the data that were read are a prefix of those that cover the writes, so
`ReadTo` is the end of the last of them (it never leaves the numbers): `Recv` maps to
`Read` up to the end of a whole message, `Send` to `Write`, all other steps to a stutter.
`FullQueueReadable` is the second part with `InOrder`: a full queue holds at
least `KCP_WND_RCV` consecutive segments, and no message has more.

### The peer

**`NeverSleepsOnMessage`** needs `SleepInv`: a reader about to register has seen an
empty queue under the guard it still holds, so by mutual exclusion nothing can
have come since; and when all readers are parked one of them is registered or was
woken, though each that registers drops the waker of the one before. The theorem
assumes that there is a reader. That one particular reader is woken
is false with two of them.

**`DrainedBeforeBroken`** needs `BrokenInv`: the pipe is broken only when the UDP
task has left its loop, after which nothing makes a message readable, so the
queue that a reader found empty stays so.

### The listener

**`NoDeadEntry`** needs `MapInv`: an entry is filed under the number of its own
session, and a main task exists only after the handshake, when the number no
longer changes.

**`NumbersApart`** needs `LeftIsUnused`: of the numbers that are left before 1 is given
again (`Left`), none was sent or is about to be. `fetch_add` and the `store` that sets the
counter back are two steps, so the set is not an interval: others may take the
last number and 0 before the store, and the store itself leaves nothing. The bound
`rounds <= 1` in the property says how far the code's promise goes: after it `make_conv`
gives the first numbers again, whether or not somebody lives under them; and a store
that comes late sets back a counter that has gone on, so that the round may be short.

**`RunningRegistered`** and **`ClosesOwnUdp`** are one invariant, `OwnEndInv`. Clients
choose any numbers, so what is true of every session is only `NoDeadEntry`; the two say
what remains for a session that has met no live one with its number. `SharedIsKnown`: of
two live sessions with one number the history knows both. `ClosesOwn`: what a main task
found under its number and is about to close is its own peer. The steps that matter are
`Insert` and `Remove` of other sessions, which act on a number: if that is the number of
a running session both are in `shared`.

### Reader and writer

`IoInv` joins the types and `SleepsOnlyWhenEmpty` with `BytesInv`: the bytes
that were read are 1, 2, ...; those that were taken from the peer and not read are in the
cache, from `cache_pos` to `cache_siz`, and no others count, whatever older messages left
behind in it; the sizes in the queue add up to the bytes that arrived and were not taken
(`Sums`, which says so with the places where messages end, since a sum over a sequence
would be a recursion); and who waits for the mutex has an empty cache (`state` =
`ReadBuff` implies it). The last is what makes an abandoned read harmless: the next
one finds `ReadBuff` and does not look at the cache, and there is nothing in it. The step
that matters is `PollFill` (`PollFillStep`): the cache grows to the message and
keeps its old bytes behind it. The refinement is then a matter of cases: the polls that
give bytes are `Read`, the first poll that tells the broken pipe is `Tell`.

**`DecodeOfEncode`** is that a byte encoded twice with the same byte of the key is
itself, at each place: `decode` repeats the key from the fifth byte of the datagram,
as `encode` does.

### The clock

`NoWrap`, the premise, says that the milliseconds do not come near the end of u32 while
the peer lives, and that an interval, the delay of a task and the steps of `flush_async`
are together not above `SlapMax` (10 s; the setters keep `interval` at 5 s or
below, or take what they are given, `kcp_config.rs`). Without the first half
`FlushedInTime` is false (`KcpClockWrap`).

`ClockInv` speaks of `Due`, the time at which `update` is to flush next. `DueInv`: it is
at most an interval after the last flush (or a step after the creation, when the
application flushed first), and `next_update_time` is not after it. `TaskInv`: in each
period after `Due` the loop has spawned a task, and the task is still there. So the time
is never more than a period and a delay after `Due` (`FlushDue`), which is
`FlushedInTime`. An update task may be dropped by the second comparison of
`KcpPeer::update` only when it is older than `next_update_time`, and one that runs moves
`Due` behind itself: so neither is the task that `TaskInv` counts on (`FewerTasks`). For
the segment, `CurrentInv` says how far `current` can be from the clock: ahead by the
steps of `flush_async`, behind by what lies between two updates and by the delay of the
task that ran last. `SentInv` carries this to `resendts`; it holds through any number of
timeouts because a timer that has run out is, in `current`'s time, not below the timeout
itself.

The proof corrected the model: `NotResentEarly` was stated with `Late` as the bound, and
the run agreed, since its tasks are at most one unit late. `SentInv` was not inductive
with it, and TLC with tasks three units late found why: two tasks that overtake each
other leave `current` at the older of their times, and the flush of the application
stamps the segment with that. The bound now has the delay twice.

### The congestion window

`ControlInv` joins the types, `IncrMatchesCwnd`, `RtoCoversRtt`,
what every chain of setters keeps (`mss` at least 26, a send window of at least 1:
`AppliedUsable`), and that a successful flush leaves `cwnd` at 1 or above. The step
that matters is congestion avoidance (`GrownKept`): `ssthresh` is at least 2, so `incr`
counts at least two segments there, `mss * mss / incr` is at most half a segment
and `mss / 16` less than the other half (`LessThanOne`): `incr` never gains more than
the one segment that `cwnd` may gain; and `mss / 16` is at least 1, so it always
gains. `RtoCoversRtt` rests on `MeasureCovers`: four times the deviation make up for
what the mean lags behind.

### Layout

`SequenceFacts` holds the lemmas about sequences (a piece, a cut in two, cuts
joined again); the others are next to the proof that uses them. Every inductive
invariant was checked by TLC on small constants before it was proved.

## 6. What is only model-checked

Every invariant, action property and refinement that a passing run checks is also
proved. What is left to TLC is liveness: `EventuallyRead`, `AcksFlushed`, `MessagesRead`,
`MainEndEndsUdp`, `RunningUpdated`, `BytesRead`. They rest on fairness and so on ENABLED,
which the prover does not reason about. The findings are TLC's too: a violation is a
behaviour, not a theorem.

## 7. What is not modelled

- The bytes of a datagram: its header, its length, unknown commands, a wrong
  conv. `UdpInputError` and `UdpEnd` take the failing `input` as it affects the peer;
  a datagram of less than four bytes, which panics, is a hazard without property.
- The wrap of `sn` after 2^32 segments; round trips of more than six days, which a
  timestamp that the other side made up can show, and with which the sums of
  `update_ack` overflow.
- Which key a UDP task keeps when the client sends a second one.
- `dead_link` and `state`, which nothing reads; `session_expire`, `flush_write` and
  `flush_acks_input`, likewise; `input_conv`, `set_conv` and `flush_ack`, which
  nothing calls.
- The resend timer with `nodelay` (half the timeout added, not the whole) and the
  one that fast resends set; `KcpClock` has the default.
- Lock futures that were given up, in `KcpPeer`, where a task that waits for the mutex
  goes on waiting (`KcpIo` has those of the reader and the writer); a shutdown that the
  application begins and drops, in `KcpListener`.
- A caller that writes the whole again after `send` refused it: in stream mode the part
  that filled the last segment is sent, and counts as written (`WritesCovered`).
- Nothing is claimed of the panics of the writer but that they leave the reader unharmed:
  a caller that gives up one operation and begins another, in a select or at a timeout,
  reaches them (`PollPanic`), while the reader takes a kept future up again.
- What `async_lock`'s future does when it is polled after it has finished, which
  `WaitInput` does after a message of size 0. `KcpIo`, whose reader takes such
  messages, has them.
- Errors (`error.rs`), crate roots and examples: no state.

## 8. Plan

Done: the engine with its abstract stream; the peer; the listener with its update
loop; reader and writer with their abstract stream; the clock; the configuration
and the congestion window; the codec; theorems for every safety property.

Next:

1. An abstract specification of a peer as its tasks see it (a queue of messages, a
   reader that is told of the end) and the proof that `KcpPeer` implements it.
2. For the listener, a bound on the sessions that live at one time, from which it follows
   which numbers that come round may meet.
3. The safety part of the liveness arguments: what makes a retry useful (an
   unacknowledged segment is in `snd_buf` of its sender or held by the receiver, the
   window that was told is the one that is there once the network is empty).
