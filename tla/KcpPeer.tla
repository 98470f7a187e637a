------------------------------- MODULE KcpPeer -------------------------------
(***************************************************************************)
(* One KcpPeer of src/src/kcp/kcp_server/kcp_peer.rs and the tasks that    *)
(* share it: the UDP task, which inputs datagrams and at last sets the     *)
(* broken pipe; readers, which take messages or park in the AtomicWaker;   *)
(* writers, which flush; the update tasks spawned every five milliseconds. *)
(* They meet at the async mutex around Kcp, the waker and two atomics.     *)
(* Kcp itself is module Kcp: here it is the number of messages that recv   *)
(* could return, and whether ACKs wait to be flushed.                      *)
(***************************************************************************)
EXTENDS Naturals, FiniteSets

CONSTANTS
  Reader,      \* tasks that read
  Relocking,   \* those of them that also call KcpPeer::recv
  Writer,      \* tasks that flush
  Updater,     \* update tasks that can exist at the same time
  MaxInput     \* bound: datagrams that arrive

None == "none"
Udp  == "udp"
Task == Reader \cup Writer \cup Updater

ASSUME PeerAssumption ==
  /\ Relocking \subseteq Reader
  /\ MaxInput \in Nat
  /\ {None, Udp} \cap Task = {}

VARIABLES
  kcp,               \* the holder of the mutex, None when it is free
  ready,             \* messages that recv could return
  acks,              \* datagrams were input and not acknowledged yet
  flush_due,         \* ts_flush has come
  is_broken_pipe,
  next_update_time,  \* "due" when 0 or past, "later"
  wake,              \* the reader whose waker is registered, None
  woken,             \* parked readers whose waker was called
  pc,                \* where each task is
  closed,            \* the channel of the UDP peer is closed
  inputs             \* datagrams that arrived

kcpVars == <<ready, acks, flush_due>>
vars == <<kcp, kcpVars, is_broken_pipe, next_update_time, wake, woken, pc,
          closed, inputs>>

Init ==
  /\ kcp = None
  /\ ready = 0
  /\ acks = FALSE
  /\ flush_due = TRUE
  /\ is_broken_pipe = FALSE
  /\ next_update_time = "due"
  /\ wake = None
  /\ woken = {}
  /\ pc = [t \in Task \cup {Udp} |->
             IF t \in Reader THEN "begin"
             ELSE IF t = Udp THEN "recv" ELSE "idle"]
  /\ closed = FALSE
  /\ inputs = 0

Goto(t, l) == pc' = [pc EXCEPT ![t] = l]

\* Fault: the mutex is entered while another task holds it.
Lock_Shared(t, from, to) ==
  /\ pc[t] = from
  /\ kcp' = t
  /\ Goto(t, to)
  /\ UNCHANGED <<kcpVars, is_broken_pipe, next_update_time, wake, woken,
                 closed, inputs>>

\* A task that waits for the mutex gets it.
Lock(t, from, to) ==
  /\ pc[t] = from
  /\ kcp = None
  /\ kcp' = t
  /\ Goto(t, to)
  /\ UNCHANGED <<kcpVars, is_broken_pipe, next_update_time, wake, woken,
                 closed, inputs>>

\* AtomicWaker::wake takes the registered waker and calls it.
Wake ==
  /\ woken' = IF wake = None THEN woken ELSE woken \cup {wake}
  /\ wake' = None

-----------------------------------------------------------------------------
(* The UDP task: the loop of kcp_listener.rs around KcpPeer::input.        *)

UdpRecv ==
  /\ pc[Udp] = "recv"
  /\ inputs < MaxInput
  /\ inputs' = inputs + 1
  /\ Goto(Udp, "lock")
  /\ UNCHANGED <<kcp, kcpVars, is_broken_pipe, next_update_time, wake, woken,
                 closed>>

UdpLock == Lock(Udp, "lock", "input")

\* The datagram makes n messages readable and leaves an ACK to send.
UdpInput(n) ==
  /\ pc[Udp] = "input"
  /\ ready' = ready + n
  /\ acks' = TRUE
  /\ Goto(Udp, "wake")
  /\ UNCHANGED <<kcp, flush_due, is_broken_pipe, next_update_time, wake, woken,
                 closed, inputs>>

\* Fault: a failing input ends the task without the broken pipe.
UdpInputError_Returns(n) ==
  /\ pc[Udp] = "input"
  /\ ready' = ready + n
  /\ kcp' = None
  /\ Goto(Udp, "done")
  /\ UNCHANGED <<acks, flush_due, is_broken_pipe, next_update_time, wake,
                 woken, closed, inputs>>

\* input fails, perhaps after it has taken segments of the same datagram, of
\* which nobody is told: the guard is dropped and the loop is left.
UdpInputError(n) ==
  /\ pc[Udp] = "input"
  /\ ready' = ready + n
  /\ acks' \in {acks, TRUE}
  /\ kcp' = None
  /\ Goto(Udp, "break")
  /\ UNCHANGED <<flush_due, is_broken_pipe, next_update_time, wake, woken,
                 closed, inputs>>

\* The reader is woken while the guard of the match still holds the mutex.
UdpWake ==
  /\ pc[Udp] = "wake"
  /\ Wake
  /\ Goto(Udp, "store")
  /\ UNCHANGED <<kcp, kcpVars, is_broken_pipe, next_update_time, closed,
                 inputs>>

UdpStore ==
  /\ pc[Udp] = "store"
  /\ next_update_time' = "due"
  /\ kcp' = None
  /\ Goto(Udp, "recv")
  /\ UNCHANGED <<kcpVars, is_broken_pipe, wake, woken, closed, inputs>>

\* The UDP peer times out or its channel was closed.
UdpEnd ==
  /\ pc[Udp] = "recv"
  /\ Goto(Udp, "break")
  /\ UNCHANGED <<kcp, kcpVars, is_broken_pipe, next_update_time, wake, woken,
                 closed, inputs>>

\* set_broken_pipe takes no lock: it stores, then it wakes.
StoreBroken ==
  /\ pc[Udp] = "break"
  /\ is_broken_pipe' = TRUE
  /\ Goto(Udp, "wakeBroken")
  /\ UNCHANGED <<kcp, kcpVars, next_update_time, wake, woken, closed, inputs>>

WakeBroken ==
  /\ pc[Udp] = "wakeBroken"
  /\ Wake
  /\ Goto(Udp, "done")
  /\ UNCHANGED <<kcp, kcpVars, is_broken_pipe, next_update_time, closed,
                 inputs>>

-----------------------------------------------------------------------------
(* Readers: KcpReader::poll_recv, and KcpPeer::recv with its WaitInput.    *)

ReaderLock(r) == Lock(r, "begin", "peek")

\* peek_size finds a message; KcpReader takes it under the same guard.
PeekAndTake(r) ==
  /\ pc[r] = "peek"
  /\ ready > 0
  /\ ready' = ready - 1
  /\ kcp' = None
  /\ Goto(r, "begin")
  /\ UNCHANGED <<acks, flush_due, is_broken_pipe, next_update_time, wake,
                 woken, closed, inputs>>

\* KcpPeer::recv drops the guard and locks again to take the message.
PeekOnly(r) ==
  /\ pc[r] = "peek"
  /\ r \in Relocking
  /\ ready > 0
  /\ kcp' = None
  /\ Goto(r, "relock")
  /\ UNCHANGED <<kcpVars, is_broken_pipe, next_update_time, wake, woken,
                 closed, inputs>>

\* The buffer is smaller than the message: UserBufTooSmall, and it stays.
BufTooSmall(r) ==
  /\ pc[r] = "relock"
  /\ Goto(r, "failed")
  /\ UNCHANGED <<kcp, kcpVars, is_broken_pipe, next_update_time, wake, woken,
                 closed, inputs>>

Relock(r) == Lock(r, "relock", "take")

\* recv_buf: when another reader has taken what was seen, the caller gets
\* RecvQueueEmpty.
Take(r) ==
  /\ pc[r] = "take"
  /\ ready' = IF ready > 0 THEN ready - 1 ELSE 0
  /\ kcp' = None
  /\ Goto(r, IF ready > 0 THEN "begin" ELSE "failed")
  /\ UNCHANGED <<acks, flush_due, is_broken_pipe, next_update_time, wake,
                 woken, closed, inputs>>

\* A caller whose error was not BrokenPipe reads again.
Retry(r) ==
  /\ pc[r] = "failed"
  /\ Goto(r, "begin")
  /\ UNCHANGED <<kcp, kcpVars, is_broken_pipe, next_update_time, wake, woken,
                 closed, inputs>>

\* Faults: the broken pipe goes before the messages that wait; the guard is
\* dropped before the waker is registered.
LoadBroken_First(r) ==
  /\ pc[r] = "peek"
  /\ ready = 0 \/ is_broken_pipe
  /\ kcp' = IF is_broken_pipe THEN None ELSE kcp
  /\ Goto(r, IF is_broken_pipe THEN "broken" ELSE "register")
  /\ UNCHANGED <<kcpVars, is_broken_pipe, next_update_time, wake, woken,
                 closed, inputs>>

LoadBroken_DropsGuard(r) ==
  /\ pc[r] = "peek"
  /\ ready = 0
  /\ kcp' = None
  /\ Goto(r, IF is_broken_pipe THEN "broken" ELSE "register")
  /\ UNCHANGED <<kcpVars, is_broken_pipe, next_update_time, wake, woken,
                 closed, inputs>>

\* peek_size finds nothing: is_broken_pipe is loaded, and either the caller
\* gets BrokenPipe or it goes on to register.
LoadBroken(r) ==
  /\ pc[r] = "peek"
  /\ ready = 0
  /\ kcp' = IF is_broken_pipe THEN None ELSE kcp
  /\ Goto(r, IF is_broken_pipe THEN "broken" ELSE "register")
  /\ UNCHANGED <<kcpVars, is_broken_pipe, next_update_time, wake, woken,
                 closed, inputs>>

\* The waker is registered over another one; the guard is dropped.
Register(r) ==
  /\ pc[r] = "register"
  /\ wake' = r
  /\ kcp' = None
  /\ Goto(r, "parked")
  /\ UNCHANGED <<kcpVars, is_broken_pipe, next_update_time, woken, closed,
                 inputs>>

Resume(r) ==
  /\ pc[r] = "parked"
  /\ r \in woken
  /\ woken' = woken \ {r}
  /\ Goto(r, "begin")
  /\ UNCHANGED <<kcp, kcpVars, is_broken_pipe, next_update_time, wake, closed,
                 inputs>>

-----------------------------------------------------------------------------
(* Writers: KcpPeer::flush and KcpPeer::close.                             *)

FlushBegin(w) ==
  /\ pc[w] = "idle"
  /\ Goto(w, "lock")
  /\ UNCHANGED <<kcp, kcpVars, is_broken_pipe, next_update_time, wake, woken,
                 closed, inputs>>

FlushLock(w) == Lock(w, "lock", "flush")

\* The mutex stays locked until every datagram is sent, or one send fails.
FlushSend(w, ok) ==
  /\ pc[w] = "flush"
  /\ acks' = IF ok THEN FALSE ELSE acks
  /\ kcp' = None
  /\ Goto(w, "idle")
  /\ UNCHANGED <<ready, flush_due, is_broken_pipe, next_update_time, wake,
                 woken, closed, inputs>>

\* close loads is_broken_pipe, and locks only when it was not set.
CloseBegin(w) ==
  /\ pc[w] = "idle"
  /\ Goto(w, IF is_broken_pipe THEN "closed" ELSE "closeLock")
  /\ UNCHANGED <<kcp, kcpVars, is_broken_pipe, next_update_time, wake, woken,
                 closed, inputs>>

CloseLock(w) == Lock(w, "closeLock", "close")

Close(w) ==
  /\ pc[w] = "close"
  /\ closed' = TRUE
  /\ kcp' = None
  /\ Goto(w, "closed")
  /\ UNCHANGED <<kcpVars, is_broken_pipe, next_update_time, wake, woken,
                 inputs>>

-----------------------------------------------------------------------------
(* Update tasks.                                                           *)

\* The update loop of the listener finds that the peer needs an update.
Spawn(u) ==
  /\ pc[u] = "idle"
  /\ next_update_time = "due"
  /\ Goto(u, "check")
  /\ UNCHANGED <<kcp, kcpVars, is_broken_pipe, next_update_time, wake, woken,
                 closed, inputs>>

\* Fault: the comparison of the times is the other way round.
UpdateCheck_Inverted(u) ==
  /\ pc[u] = "check"
  /\ Goto(u, IF next_update_time = "due" THEN "idle" ELSE "lock")
  /\ UNCHANGED <<kcp, kcpVars, is_broken_pipe, next_update_time, wake, woken,
                 closed, inputs>>

UpdateCheck(u) ==
  /\ pc[u] = "check"
  /\ Goto(u, IF next_update_time = "due" THEN "lock" ELSE "idle")
  /\ UNCHANGED <<kcp, kcpVars, is_broken_pipe, next_update_time, wake, woken,
                 closed, inputs>>

UpdateLock(u) == Lock(u, "lock", "update")

\* Kcp::update flushes when ts_flush has come, and sets its next value;
\* next_update_time is stored under the same guard.
Update(u) ==
  /\ pc[u] = "update"
  /\ acks' = IF flush_due THEN FALSE ELSE acks
  /\ flush_due' = FALSE
  /\ next_update_time' = "later"
  /\ kcp' = None
  /\ Goto(u, "idle")
  /\ UNCHANGED <<ready, is_broken_pipe, wake, woken, closed, inputs>>

\* A send of the flush fails: update returns before it stores.
UpdateError(u) ==
  /\ pc[u] = "update"
  /\ flush_due
  /\ flush_due' = FALSE
  /\ kcp' = None
  /\ Goto(u, "idle")
  /\ UNCHANGED <<ready, acks, is_broken_pipe, next_update_time, wake, woken,
                 closed, inputs>>

\* Time passes: the next update is due, and perhaps ts_flush has come.
Tick ==
  /\ next_update_time' = "due"
  /\ flush_due' \in {flush_due, TRUE}
  /\ UNCHANGED <<kcp, ready, acks, is_broken_pipe, wake, woken, pc, closed,
                 inputs>>

UdpStep ==
  \/ UdpRecv \/ UdpLock
  \/ \E n \in 0..1 : UdpInput(n) \/ UdpInputError(n)
  \/ UdpWake \/ UdpStore \/ UdpEnd \/ StoreBroken \/ WakeBroken

ReaderStep(r) ==
  \/ ReaderLock(r) \/ PeekAndTake(r)
  \/ PeekOnly(r) \/ BufTooSmall(r) \/ Relock(r) \/ Take(r) \/ Retry(r)
  \/ LoadBroken(r) \/ Register(r) \/ Resume(r)

WriterStep(w) ==
  \/ FlushBegin(w) \/ FlushLock(w) \/ \E ok \in BOOLEAN : FlushSend(w, ok)
  \/ CloseBegin(w) \/ CloseLock(w) \/ Close(w)

UpdateStep(u) ==
  \/ Spawn(u) \/ UpdateCheck(u) \/ UpdateLock(u) \/ Update(u) \/ UpdateError(u)

Next ==
  \/ UdpStep
  \/ \E r \in Reader : ReaderStep(r)
  \/ \E w \in Writer : WriterStep(w)
  \/ \E u \in Updater : UpdateStep(u)
  \/ Tick

Spec == Init /\ [][Next]_vars

\* A task that can run does (the runtime polls it); async_lock is fair to
\* those who wait for the mutex; time passes; a flush that is tried again and
\* again succeeds.  A caller that got an error other than BrokenPipe reads
\* again, and at last with a buffer that is large enough.  Nothing makes the
\* UDP task receive or end, or a writer flush or close.
Fairness ==
  /\ SF_vars(\/ UdpLock \/ UdpWake \/ UdpStore \/ StoreBroken \/ WakeBroken
             \/ \E n \in 0..1 : UdpInput(n) \/ UdpInputError(n))
  /\ WF_vars(closed /\ UdpEnd)
  /\ \A r \in Reader : SF_vars(ReaderStep(r) /\ ~BufTooSmall(r))
  /\ \A r \in Relocking : SF_vars(Relock(r))
  /\ \A w \in Writer : WF_vars(Close(w) \/ \E ok \in BOOLEAN : FlushSend(w, ok))
  /\ \A u \in Updater : /\ SF_vars(UpdateStep(u))
                        /\ SF_vars(flush_due /\ Update(u))
  /\ WF_vars(Tick /\ flush_due')

FairSpec == Spec /\ Fairness

-----------------------------------------------------------------------------
(* Properties.                                                             *)

Holding == {"input", "wake", "store", "peek", "register", "take", "flush",
            "close", "update"}
Waiting == {"begin", "relock", "parked", "broken", "failed", "idle", "lock",
            "closeLock", "closed", "check", "recv", "break", "wakeBroken",
            "done"}

\* Every variable has its type, and the tasks that are inside a critical
\* section are the ones that hold the mutex.
TypeOK ==
  /\ kcp \in Task \cup {Udp, None}
  /\ ready \in Nat
  /\ acks \in BOOLEAN /\ flush_due \in BOOLEAN
  /\ is_broken_pipe \in BOOLEAN /\ closed \in BOOLEAN
  /\ next_update_time \in {"due", "later"}
  /\ wake \in Reader \cup {None}
  /\ woken \subseteq Reader
  /\ inputs \in 0..MaxInput
  /\ pc \in [Task \cup {Udp} -> Holding \cup Waiting]
  /\ \A t \in Task \cup {Udp} : pc[t] \in Holding <=> kcp = t

\* The readers never all sleep on a message, although they share one waker and
\* each that registers forgets the one before: while one can be read and all
\* have parked, one of them was woken, or the UDP task is on its way to wake,
\* be it with the broken pipe after an input that failed half-way.
NeverSleepsOnMessage ==
  ready > 0 /\ (\A r \in Reader : pc[r] = "parked") =>
    woken # {} \/ pc[Udp] \in {"wake", "break", "wakeBroken"}

\* The broken pipe is reported only when every message received has been
\* read, so closing the UDP side loses nothing that was already here.
DrainedBeforeBroken ==
  \A r \in Reader : pc[r] = "broken" => ready = 0

\* Every datagram that asks for an acknowledgement gets one flushed, however
\* the input races the update tasks for next_update_time.
AcksFlushed == acks ~> ~acks

\* Every message is handed to a reader, also when two of them have looked at
\* the same one before either took it, or one had too small a buffer.
MessagesRead == ready > 0 ~> ready = 0

\* When the UDP side is gone a reader that waits is told: kcp_listener.rs
\* promises that recv fails at once and so ends the main logic.
BrokenPipeTold ==
  \A r \in Reader : is_broken_pipe ~> pc[r] = "broken"
=============================================================================
