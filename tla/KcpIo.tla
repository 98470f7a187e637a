--------------------------------- MODULE KcpIo ---------------------------------
(***************************************************************************)
(* KcpReader and KcpWriter of src/src/kcp/kcp_server/kcp_peer: the state   *)
(* they keep between two polls of one operation.  A poll runs to its end   *)
(* or to its first Pending and is one action; polls come when the caller   *)
(* was woken, too early, or after an operation was given up, and then with *)
(* another buffer or, in the writer, for another operation.  The mutex     *)
(* around Kcp is shared with the UDP task and the update tasks (the        *)
(* "other" holder), and kept by a flush that waits for the socket.         *)
(***************************************************************************)
EXTENDS Naturals, Sequences

CONSTANTS
  Sizes,        \* the sizes of messages
  BufSizes,     \* the lengths of the callers' buffers
  MaxMessages   \* bound: messages that arrive

ASSUME IoAssumption ==
  Sizes \subseteq Nat /\ BufSizes \subseteq Nat \ {0} /\ MaxMessages \in Nat

VARIABLES
  kcp,              \* the holder of the mutex: "free", "other", "flush"
  queue,            \* the sizes of the messages that recv can return
  is_broken_pipe,
  wake,             \* the reader is registered in the AtomicWaker
  state,            \* of the reader: "Begin", "ReadBuff", or that with a
                    \* future that has "Finished"
  cache, cache_siz, cache_pos,
  reading,          \* the caller: "idle", "pending", "woken", "broken"
  wstate,           \* of the writer: "Begin", "Write", "FlushAsync", "Close"
  writing,          \* the operation whose poll returned Pending and that was
                    \* not given up, "none", or "panicked"
  messages,         \* messages that arrived
  arrived,          \* bytes that arrived: the n-th is n
  taken,            \* of them, those that recv has returned
  out               \* the bytes that the caller of the reader got

readerVars == <<wake, state, cache, cache_siz, cache_pos, reading, taken, out>>
writerVars == <<wstate, writing>>
inputVars == <<is_broken_pipe, messages, arrived>>
vars == <<kcp, queue, readerVars, writerVars, inputVars>>

Init ==
  /\ kcp = "free" /\ queue = <<>> /\ is_broken_pipe = FALSE
  /\ wake = FALSE /\ state = "Begin" /\ reading = "idle"
  /\ cache = <<>> /\ cache_siz = 0 /\ cache_pos = 0
  /\ wstate = "Begin" /\ writing = "none"
  /\ messages = 0 /\ arrived = 0 /\ taken = 0 /\ out = <<>>

\* The mutex is given back, and the reader that waits for it is woken: no
\* future of the writer waits.
Unlock ==
  /\ kcp' = "free"
  /\ reading' = IF state = "ReadBuff" /\ reading = "pending" THEN "woken"
                ELSE reading

-----------------------------------------------------------------------------
(* The other tasks of the peer.                                            *)

OtherLock ==
  /\ kcp = "free"
  /\ kcp' = "other"
  /\ UNCHANGED <<queue, readerVars, writerVars, inputVars>>

\* When a future of the writer waits, too, it may be the one that is told, and
\* it is told also when it was given up and nobody polls it.
OtherUnlock ==
  /\ kcp = "other"
  /\ Unlock \/ (wstate # "Begin" /\ kcp' = "free" /\ UNCHANGED reading)
  /\ UNCHANGED <<queue, wake, state, cache, cache_siz, cache_pos, taken, out,
                 writerVars, inputVars>>

\* KcpPeer::input makes a message readable and wakes.
Arrive(size) ==
  /\ kcp = "other" /\ ~is_broken_pipe
  /\ messages < MaxMessages
  /\ messages' = messages + 1
  /\ arrived' = arrived + size
  /\ queue' = Append(queue, size)
  /\ wake' = FALSE
  /\ reading' = IF wake /\ reading = "pending" THEN "woken" ELSE reading
  /\ UNCHANGED <<kcp, is_broken_pipe, state, cache, cache_siz, cache_pos,
                 taken, out, writerVars>>

\* KcpPeer::set_broken_pipe, after the last input.
SetBrokenPipe ==
  /\ ~is_broken_pipe
  /\ is_broken_pipe' = TRUE
  /\ wake' = FALSE
  /\ reading' = IF wake /\ reading = "pending" THEN "woken" ELSE reading
  /\ UNCHANGED <<kcp, queue, state, cache, cache_siz, cache_pos, taken, out,
                 writerVars, messages, arrived>>

-----------------------------------------------------------------------------
(* KcpReader: poll_read around poll_recv.                                  *)

Cached == cache_pos < cache_siz

\* What the poll finds: the cache, the mutex taken, or a guard.
FindsCache == reading # "broken" /\ state = "Begin" /\ Cached
FindsTaken == reading # "broken" /\ ~FindsCache /\ kcp # "free"
FindsGuard == reading # "broken" /\ ~FindsCache /\ kcp = "free"

Bytes(first, n) == [i \in 1..n |-> first + i]

\* Fault: the state is left as poll_recv has left it.
Ready_NoReset ==
  /\ state' = IF state = "ReadBuff" THEN "Finished" ELSE state
  /\ reading' = "idle"

\* poll_read resets the state when poll_recv is ready.
Ready ==
  /\ state' = "Begin"
  /\ reading' = "idle"

PollCached(len) ==
  /\ FindsCache
  /\ LET n == IF cache_siz - cache_pos < len THEN cache_siz - cache_pos ELSE len
     IN  /\ out' = out \o SubSeq(cache, cache_pos + 1, cache_pos + n)
         /\ cache_pos' = cache_pos + n
  /\ Ready
  /\ UNCHANGED <<kcp, queue, wake, cache, cache_siz, taken, writerVars,
                 inputVars>>

\* The future of lock is made or polled again, and is kept.
PollWait ==
  /\ FindsTaken
  /\ state' = "ReadBuff"
  /\ reading' = "pending"
  /\ UNCHANGED <<kcp, queue, wake, cache, cache_siz, cache_pos, taken, out,
                 writerVars, inputVars>>

\* The message fits the buffer.
PollTake(len) ==
  /\ FindsGuard
  /\ queue # <<>> /\ Head(queue) <= len
  /\ out' = out \o Bytes(taken, Head(queue))
  /\ taken' = taken + Head(queue)
  /\ queue' = Tail(queue)
  /\ Ready
  /\ UNCHANGED <<kcp, wake, cache, cache_siz, cache_pos, writerVars, inputVars>>

\* Fault: the length of the Vec is taken for that of the message.
PollFill_Whole(len) ==
  LET size == Head(queue)
      room == IF Len(cache) < size THEN size ELSE Len(cache)
  IN  /\ FindsGuard
      /\ queue # <<>> /\ Head(queue) > len
      /\ cache' = [i \in 1..room |-> IF i <= size THEN taken + i ELSE cache[i]]
      /\ cache_siz' = room
      /\ cache_pos' = len
      /\ out' = out \o Bytes(taken, len)
      /\ taken' = taken + size
      /\ queue' = Tail(queue)
      /\ Ready
      /\ UNCHANGED <<kcp, wake, writerVars, inputVars>>

\* It does not: recv into the cache, which grows and never shrinks, and copy
\* the first bytes from there.
PollFill(len) ==
  LET size == Head(queue)
      room == IF Len(cache) < size THEN size ELSE Len(cache)
  IN  /\ FindsGuard
      /\ queue # <<>> /\ size > len
      /\ cache' = [i \in 1..room |-> IF i <= size THEN taken + i ELSE cache[i]]
      /\ cache_siz' = size
      /\ cache_pos' = len
      /\ out' = out \o Bytes(taken, len)
      /\ taken' = taken + size
      /\ queue' = Tail(queue)
      /\ Ready
      /\ UNCHANGED <<kcp, wake, writerVars, inputVars>>

\* Faults: the future that has given its guard is kept for the next poll; no
\* waker is registered.
PollEmpty_Keeps ==
  /\ FindsGuard
  /\ queue = <<>> /\ ~is_broken_pipe
  /\ wake' = TRUE
  /\ state' = "Finished"
  /\ reading' = "pending"
  /\ UNCHANGED <<kcp, queue, cache, cache_siz, cache_pos, taken, out,
                 writerVars, inputVars>>

PollEmpty_Unregistered ==
  /\ FindsGuard
  /\ queue = <<>> /\ ~is_broken_pipe
  /\ state' = "Begin"
  /\ reading' = "pending"
  /\ UNCHANGED <<kcp, queue, wake, cache, cache_siz, cache_pos, taken, out,
                 writerVars, inputVars>>

PollEmpty ==
  /\ FindsGuard
  /\ queue = <<>> /\ ~is_broken_pipe
  /\ wake' = TRUE
  /\ state' = "Begin"
  /\ reading' = "pending"
  /\ UNCHANGED <<kcp, queue, cache, cache_siz, cache_pos, taken, out,
                 writerVars, inputVars>>

PollBroken ==
  /\ FindsGuard
  /\ queue = <<>> /\ is_broken_pipe
  /\ state' = "Begin"
  /\ reading' = "broken"
  /\ UNCHANGED <<kcp, queue, wake, cache, cache_siz, cache_pos, taken, out,
                 writerVars, inputVars>>

\* The caller drops its read; the reader keeps its state.
GiveUp ==
  /\ reading \in {"pending", "woken"}
  /\ reading' = "idle"
  /\ UNCHANGED <<kcp, queue, wake, state, cache, cache_siz, cache_pos, taken,
                 out, writerVars, inputVars>>

-----------------------------------------------------------------------------
(* KcpWriter.                                                              *)

Write(ws, op) ==
  /\ wstate' = ws
  /\ writing' = op
  /\ UNCHANGED <<queue, wake, state, cache, cache_siz, cache_pos, taken, out,
                 inputVars>>

\* poll_send: the guard of a ready lock is dropped in the same poll.
PollSend ==
  /\ writing \in {"none", "write"} /\ wstate \in {"Begin", "Write"}
  /\ \/ kcp = "free" /\ Write("Begin", "none") /\ Unlock
     \/ kcp # "free" /\ Write("Write", "write") /\ UNCHANGED <<kcp, reading>>

\* poll_flush_async: the future of KcpPeer::flush waits for the mutex, then
\* for the socket, and ends with the mutex given back.
PollFlush ==
  /\ writing \in {"none", "flush"} /\ wstate \in {"Begin", "FlushAsync"}
  /\ \/ /\ kcp = "other" /\ Write("FlushAsync", "flush")
        /\ UNCHANGED <<kcp, reading>>
     \/ /\ kcp = "free" /\ Write("FlushAsync", "flush")
        /\ kcp' = "flush" /\ UNCHANGED reading
     \/ kcp # "other" /\ Write("Begin", "none") /\ Unlock

\* poll_close_async: KcpPeer::close loads is_broken_pipe when it begins, and
\* locks only when it was not set.
PollClose ==
  /\ writing \in {"none", "close"} /\ wstate \in {"Begin", "Close"}
  /\ IF wstate = "Begin" /\ is_broken_pipe
     THEN Write("Begin", "none") /\ UNCHANGED <<kcp, reading>>
     ELSE \/ kcp = "free" /\ Write("Begin", "none") /\ Unlock
          \/ kcp # "free" /\ Write("Close", "close")
             /\ UNCHANGED <<kcp, reading>>

\* The caller drops its operation, in a select or at a timeout; the writer
\* keeps the future, and with that of a flush perhaps the mutex.
GiveUpWrite ==
  /\ writing \in {"write", "flush", "close"}
  /\ Write(wstate, "none")
  /\ UNCHANGED <<kcp, reading>>

\* The future goes with the writer, and gives back what it has.
Drop(op) ==
  /\ wstate # "Begin"
  /\ Write("Begin", op)
  /\ IF kcp = "other" THEN UNCHANGED <<kcp, reading>> ELSE Unlock

DropWriter == writing # "panicked" /\ Drop("none")

\* Another operation is begun while the writer keeps the future of one that
\* was given up: the match falls to its panic!, and the task unwinds.
PollPanic == writing = "none" /\ Drop("panicked")

PollRead(len) ==
  PollCached(len) \/ PollTake(len) \/ PollFill(len)

Next ==
  \/ OtherLock \/ OtherUnlock \/ (\E s \in Sizes : Arrive(s)) \/ SetBrokenPipe
  \/ \E len \in BufSizes : PollRead(len)
  \/ PollWait \/ PollEmpty \/ PollBroken \/ GiveUp
  \/ PollSend \/ PollFlush \/ PollClose
  \/ GiveUpWrite \/ DropWriter \/ PollPanic

Spec == Init /\ [][Next]_vars

\* The caller reads again when it is idle or was woken; async_lock is fair;
\* other tasks give the mutex back, and a flush ends that is polled when the
\* socket wakes it.  Who gave up an operation of the writer uses the writer
\* again or drops it.
Fairness ==
  /\ SF_vars(/\ reading \in {"idle", "woken"}
             /\ PollEmpty \/ PollBroken \/ \E len \in BufSizes : PollRead(len))
  /\ WF_vars(OtherUnlock)
  /\ SF_vars(/\ wstate # "Begin" /\ kcp # "other"
             /\ PollSend \/ PollFlush \/ PollClose \/ DropWriter \/ PollPanic)

FairSpec == Spec /\ Fairness

-----------------------------------------------------------------------------
(* Properties.                                                             *)

\* Every variable has its type; between two polls the reader never keeps a
\* future that has finished, which the next poll would poll again.
TypeOK ==
  /\ kcp \in {"free", "other", "flush"}
  /\ queue \in Seq(Sizes)
  /\ is_broken_pipe \in BOOLEAN /\ wake \in BOOLEAN
  /\ state \in {"Begin", "ReadBuff"}
  /\ cache \in Seq(Nat) /\ cache_siz <= Len(cache) /\ cache_pos <= cache_siz
  /\ reading \in {"idle", "pending", "woken", "broken"}
  /\ wstate \in {"Begin", "Write", "FlushAsync", "Close"}
  /\ writing \in {"none", "write", "flush", "close", "panicked"}
  /\ kcp = "flush" => wstate = "FlushAsync"
  /\ taken <= arrived

\* A caller that waits and was not woken will be: its reader waits for the
\* mutex, which somebody has, or whose turn a future of the writer has that
\* gives it on; or is registered and has nothing to give, neither in the cache
\* nor in the queue.
SleepsOnlyWhenEmpty ==
  reading = "pending" =>
    \/ state = "ReadBuff" /\ (kcp # "free" \/ wstate # "Begin")
    \/ state = "Begin" /\ wake /\ ~Cached /\ queue = <<>>

Stream == INSTANCE ByteStream WITH read <- out, told <- (reading = "broken")

\* Whatever the sizes of messages and buffers and whichever reads are given
\* up: the caller gets the bytes in order, each once, and the broken pipe only
\* when it has got them all.
ImplementsByteStream == Stream!Spec

\* Every byte that arrives is read, also when operations of the writer are
\* given up that keep the mutex or their turn.
BytesRead == Len(out) < arrived ~> Len(out) = arrived
=============================================================================
