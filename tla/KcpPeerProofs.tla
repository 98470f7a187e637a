---------------------------- MODULE KcpPeerProofs ----------------------------
(***************************************************************************)
(* For any numbers of readers, writers and update tasks: the mutex and the *)
(* types, that the broken pipe never overtakes a message, and that the     *)
(* readers, who share one AtomicWaker, never all sleep on a message.       *)
(***************************************************************************)
EXTENDS KcpPeer, TLAPS

\* The free mutex, the UDP task and the other tasks are told apart.
LEMMA Names == None \notin Task \cup {Udp} /\ Udp \notin Task
  BY PeerAssumption DEF PeerAssumption, None, Udp

\* A critical section is entered only when the mutex is free.
LEMMA LockKeepsTypes ==
  ASSUME NEW t \in Task \cup {Udp}, NEW from \in Waiting, NEW to \in Holding,
         TypeOK, Lock(t, from, to)
  PROVE  TypeOK'
  BY Names DEF Lock, TypeOK, Goto, kcpVars, Holding, Waiting

\* The mutex is free and nobody is inside in the initial state.
LEMMA TypeInit == Init => TypeOK
<1> SUFFICES ASSUME Init PROVE TypeOK
  OBVIOUS
<1>1. /\ pc \in [Task \cup {Udp} -> {"begin", "recv", "idle"}]
      /\ kcp = None
  BY DEF Init
<1>2. /\ pc \in [Task \cup {Udp} -> Holding \cup Waiting]
      /\ \A t \in Task \cup {Udp} : pc[t] \in Holding <=> kcp = t
  BY <1>1, Names DEF Holding, Waiting
<1>3. /\ kcp \in Task \cup {Udp, None}
      /\ ready \in Nat
      /\ wake \in Reader \cup {None}
      /\ woken \subseteq Reader
      /\ next_update_time \in {"due", "later"}
  BY DEF Init
<1>4. /\ acks \in BOOLEAN /\ flush_due \in BOOLEAN
      /\ is_broken_pipe \in BOOLEAN /\ closed \in BOOLEAN
  BY DEF Init
<1>5. inputs \in 0..MaxInput
  BY PeerAssumption DEF PeerAssumption, Init
<1> QED
  BY <1>2, <1>3, <1>4, <1>5 DEF TypeOK

\* Every step of the UDP task keeps the types and the mutex.
LEMMA UdpKeepsTypes == TypeOK /\ UdpStep => TypeOK'
<1> SUFFICES ASSUME TypeOK, UdpStep PROVE TypeOK'
  OBVIOUS
<1> USE Names DEF TypeOK, Goto, kcpVars, Holding, Waiting, Wake
<1>1. CASE UdpLock
  BY <1>1, LockKeepsTypes DEF UdpLock
<1>2. CASE UdpRecv
  BY <1>2, PeerAssumption DEF UdpRecv, PeerAssumption
<1>3. ASSUME NEW n \in 0..1, UdpInput(n) PROVE TypeOK'
  BY <1>3 DEF UdpInput
<1>4. ASSUME NEW n \in 0..1, UdpInputError(n) PROVE TypeOK'
  <2>1. acks' \in BOOLEAN
    BY <1>4, Zenon DEF UdpInputError
  <2>2. /\ ready' = ready + n /\ kcp' = None
        /\ pc[Udp] = "input" /\ pc' = [pc EXCEPT ![Udp] = "break"]
        /\ UNCHANGED <<flush_due, is_broken_pipe, next_update_time, wake,
                       woken, closed, inputs>>
    BY <1>4 DEF UdpInputError
  <2> QED
    BY <2>1, <2>2
<1>5. CASE UdpWake
  BY <1>5 DEF UdpWake
<1>6. CASE UdpStore
  BY <1>6 DEF UdpStore
<1>7. CASE UdpEnd
  BY <1>7 DEF UdpEnd
<1>8. CASE StoreBroken
  BY <1>8 DEF StoreBroken
<1>9. CASE WakeBroken
  BY <1>9 DEF WakeBroken
<1> QED
  BY <1>1, <1>2, <1>3, <1>4, <1>5, <1>6, <1>7, <1>8, <1>9 DEF UdpStep

\* So does every step of a reader,
LEMMA ReaderKeepsTypes ==
  ASSUME NEW r \in Reader, TypeOK, ReaderStep(r)
  PROVE  TypeOK'
<1> r \in Task
  BY DEF Task
<1> USE Names DEF TypeOK, Goto, kcpVars, Holding, Waiting
<1>1. CASE ReaderLock(r) \/ Relock(r)
  BY <1>1, LockKeepsTypes DEF ReaderLock, Relock
<1>2. CASE PeekAndTake(r)
  BY <1>2 DEF PeekAndTake
<1>3. CASE PeekOnly(r)
  BY <1>3 DEF PeekOnly
<1>4. CASE Take(r)
  BY <1>4 DEF Take
<1>5. CASE LoadBroken(r)
  BY <1>5 DEF LoadBroken
<1>6. CASE Register(r)
  BY <1>6 DEF Register
<1>7. CASE Resume(r)
  BY <1>7 DEF Resume
<1>8. CASE BufTooSmall(r)
  BY <1>8 DEF BufTooSmall
<1>9. CASE Retry(r)
  BY <1>9 DEF Retry
<1> QED
  BY <1>1, <1>2, <1>3, <1>4, <1>5, <1>6, <1>7, <1>8, <1>9 DEF ReaderStep

\* every step of a writer,
LEMMA WriterKeepsTypes ==
  ASSUME NEW w \in Writer, TypeOK, WriterStep(w)
  PROVE  TypeOK'
<1> w \in Task
  BY DEF Task
<1> USE Names DEF TypeOK, Goto, kcpVars, Holding, Waiting
<1>1. CASE FlushLock(w) \/ CloseLock(w)
  BY <1>1, LockKeepsTypes DEF FlushLock, CloseLock
<1>2. CASE FlushBegin(w)
  BY <1>2 DEF FlushBegin
<1>3. ASSUME NEW ok \in BOOLEAN, FlushSend(w, ok) PROVE TypeOK'
  BY <1>3 DEF FlushSend
<1>4. CASE CloseBegin(w)
  BY <1>4 DEF CloseBegin
<1>5. CASE Close(w)
  BY <1>5 DEF Close
<1> QED
  BY <1>1, <1>2, <1>3, <1>4, <1>5 DEF WriterStep

\* and every step of an update task.
LEMMA UpdateKeepsTypes ==
  ASSUME NEW u \in Updater, TypeOK, UpdateStep(u)
  PROVE  TypeOK'
<1> u \in Task
  BY DEF Task
<1> USE Names DEF TypeOK, Goto, kcpVars, Holding, Waiting
<1>1. CASE UpdateLock(u)
  BY <1>1, LockKeepsTypes DEF UpdateLock
<1>2. CASE Spawn(u)
  BY <1>2 DEF Spawn
<1>3. CASE UpdateCheck(u)
  BY <1>3 DEF UpdateCheck
<1>4. CASE Update(u)
  BY <1>4 DEF Update
<1>5. CASE UpdateError(u)
  BY <1>5 DEF UpdateError
<1> QED
  BY <1>1, <1>2, <1>3, <1>4, <1>5 DEF UpdateStep

\* The types and the mutex are an inductive invariant.
LEMMA TypeNext == TypeOK /\ [Next]_vars => TypeOK'
<1> SUFFICES ASSUME TypeOK, [Next]_vars PROVE TypeOK'
  OBVIOUS
<1>1. CASE UNCHANGED vars
  BY <1>1 DEF vars, kcpVars, TypeOK
<1>2. CASE Tick
  BY <1>2 DEF Tick, TypeOK
<1> QED
  BY <1>1, <1>2, UdpKeepsTypes, ReaderKeepsTypes, WriterKeepsTypes,
     UpdateKeepsTypes DEF Next

\* Mutual exclusion: the tasks inside a critical section of the mutex are
\* exactly its holder, whatever number of tasks there is.
THEOREM MutexAndTypes == Spec => []TypeOK
  BY TypeInit, TypeNext, PTL DEF Spec

-----------------------------------------------------------------------------
(* The broken pipe.                                                        *)

\* Only the UDP task, after its loop, breaks the pipe; a reader reports the
\* broken pipe only once it is broken.
BrokenInv ==
  /\ is_broken_pipe <=> pc[Udp] \in {"wakeBroken", "done"}
  /\ \A r \in Reader : pc[r] = "broken" => is_broken_pipe /\ ready = 0

\* No task but the UDP task itself changes where the UDP task is.
LEMMA BrokenInit == Init => BrokenInv
  BY Names DEF Init, BrokenInv, Task

\* A reader that reports the broken pipe has seen an empty queue, and once
\* the pipe is broken the UDP task makes nothing readable any more.
LEMMA BrokenNext == TypeOK /\ BrokenInv /\ [Next]_vars => BrokenInv'
<1> SUFFICES ASSUME TypeOK, BrokenInv, [Next]_vars PROVE BrokenInv'
  OBVIOUS
<1> Reader \subseteq Task /\ Writer \subseteq Task /\ Updater \subseteq Task
  BY DEF Task
<1> USE Names DEF TypeOK, BrokenInv, Goto, kcpVars, Wake, Lock
<1>1. CASE UNCHANGED vars
  BY <1>1 DEF vars
<1>2. CASE Tick
  BY <1>2 DEF Tick
<1>3. CASE UdpStep
  <2>1. ASSUME NEW n \in 0..1, UdpInputError(n) PROVE BrokenInv'
    <3>1. /\ pc[Udp] = "input" /\ pc' = [pc EXCEPT ![Udp] = "break"]
          /\ UNCHANGED is_broken_pipe
      BY <2>1 DEF UdpInputError
    <3> QED
      BY <3>1
  <2>2. ASSUME NEW n \in 0..1, UdpInput(n) PROVE BrokenInv'
    <3>1. /\ pc[Udp] = "input" /\ pc' = [pc EXCEPT ![Udp] = "wake"]
          /\ UNCHANGED is_broken_pipe
      BY <2>2 DEF UdpInput
    <3> QED
      BY <3>1
  <2> QED
    BY <1>3, <2>1, <2>2 DEF UdpStep, UdpLock, UdpRecv, UdpWake, UdpStore,
                            UdpEnd, StoreBroken, WakeBroken
<1>4. ASSUME NEW r \in Reader, ReaderStep(r) PROVE BrokenInv'
  BY <1>4 DEF ReaderStep, ReaderLock, Relock, PeekAndTake, PeekOnly, Take,
              LoadBroken, Register, Resume, BufTooSmall, Retry
<1>5. ASSUME NEW w \in Writer, WriterStep(w) PROVE BrokenInv'
  <2>1. /\ \E l \in {"lock", "flush", "idle", "closed", "closeLock", "close"} :
             Goto(w, l)
        /\ UNCHANGED <<ready, is_broken_pipe>>
    BY <1>5 DEF WriterStep, FlushBegin, FlushLock, FlushSend, CloseBegin,
                CloseLock, Close
  <2> QED
    BY <2>1
<1>6. ASSUME NEW u \in Updater, UpdateStep(u) PROVE BrokenInv'
  <2>1. /\ \E l \in {"check", "lock", "update", "idle"} : Goto(u, l)
        /\ UNCHANGED <<ready, is_broken_pipe>>
    BY <1>6 DEF UpdateStep, Spawn, UpdateCheck, UpdateLock, Update, UpdateError
  <2> QED
    BY <2>1
<1> QED
  BY <1>1, <1>2, <1>3, <1>4, <1>5, <1>6 DEF Next

\* Whatever number of readers there is, the broken pipe is reported only when
\* every message that was received has been read.
THEOREM DrainedBeforeBrokenAlways == Spec => []DrainedBeforeBroken
<1>1. BrokenInv => DrainedBeforeBroken
  BY DEF BrokenInv, DrainedBeforeBroken
<1> QED
  BY <1>1, BrokenInit, BrokenNext, MutexAndTypes, PTL DEF Spec

-----------------------------------------------------------------------------
(* The waker.                                                              *)

AllParked == \A r \in Reader : pc[r] = "parked"

\* A reader that is about to register has seen an empty queue under the mutex
\* it still holds; when all are parked one of them is registered, or woken.
SleepInv ==
  /\ \A r \in Reader : pc[r] = "register" => ready = 0
  /\ AllParked => woken # {} \/ wake # None
  /\ NeverSleepsOnMessage

\* In the initial states no reader is parked.
LEMMA SleepInit == Reader # {} /\ Init => SleepInv
  BY Names DEF Init, SleepInv, NeverSleepsOnMessage, AllParked, Task

\* Every step keeps the invariant: one that makes a message readable goes on
\* to wake, and a reader registers under the guard that found nothing.
LEMMA SleepNext ==
  ASSUME TypeOK, SleepInv, [Next]_vars
  PROVE  SleepInv'
<1> Reader \subseteq Task /\ Writer \subseteq Task /\ Updater \subseteq Task
  BY DEF Task
<1> USE Names DEF TypeOK, SleepInv, NeverSleepsOnMessage, AllParked, Goto,
                  kcpVars, Wake, Lock, Holding
<1>1. CASE UNCHANGED vars
  BY <1>1 DEF vars
<1>2. CASE Tick
  BY <1>2 DEF Tick
<1>3. CASE UdpStep
  <2>1. ASSUME NEW n \in 0..1, UdpInput(n) \/ UdpInputError(n) PROVE SleepInv'
    <3>1. /\ pc[Udp] = "input" /\ UNCHANGED <<wake, woken>>
          /\ \E l \in {"wake", "break"} : pc' = [pc EXCEPT ![Udp] = l]
      BY <2>1 DEF UdpInput, UdpInputError
    <3>2. \A r \in Reader : pc[r] # "register"
      BY <3>1
    <3> QED
      BY <3>1, <3>2
  <2> QED
    BY <1>3, <2>1 DEF UdpStep, UdpLock, UdpRecv, UdpWake, UdpStore, UdpEnd,
                      StoreBroken, WakeBroken
<1>4. ASSUME NEW r \in Reader, ReaderStep(r) PROVE SleepInv'
  <2>1. CASE ReaderLock(r) \/ Relock(r) \/ PeekAndTake(r) \/ PeekOnly(r)
    BY <2>1 DEF ReaderLock, Relock, PeekAndTake, PeekOnly
  <2>2. CASE BufTooSmall(r) \/ Take(r) \/ Retry(r) \/ LoadBroken(r)
    BY <2>2 DEF BufTooSmall, Take, Retry, LoadBroken
  <2>3. CASE Register(r) \/ Resume(r)
    BY <2>3 DEF Register, Resume
  <2> QED
    BY <1>4, <2>1, <2>2, <2>3 DEF ReaderStep
<1>5. ASSUME NEW w \in Writer, WriterStep(w) PROVE SleepInv'
  <2>1. CASE FlushBegin(w) \/ FlushLock(w)
    BY <2>1 DEF FlushBegin, FlushLock
  <2>2. CASE \E ok \in BOOLEAN : FlushSend(w, ok)
    BY <2>2 DEF FlushSend
  <2>3. CASE CloseBegin(w) \/ CloseLock(w) \/ Close(w)
    BY <2>3 DEF CloseBegin, CloseLock, Close
  <2> QED
    BY <1>5, <2>1, <2>2, <2>3 DEF WriterStep
<1>6. ASSUME NEW u \in Updater, UpdateStep(u) PROVE SleepInv'
  <2>1. CASE Spawn(u) \/ UpdateCheck(u) \/ UpdateLock(u)
    BY <2>1 DEF Spawn, UpdateCheck, UpdateLock
  <2>2. CASE Update(u)
    BY <2>2 DEF Update
  <2>3. CASE UpdateError(u)
    BY <2>3 DEF UpdateError
  <2> QED
    BY <1>6, <2>1, <2>2, <2>3 DEF UpdateStep
<1> QED
  BY <1>1, <1>2, <1>3, <1>4, <1>5, <1>6 DEF Next

\* With any numbers of readers, writers and update tasks, the readers never
\* all sleep on a message that one of them could take.
THEOREM NeverSleepsAlways ==
  ASSUME Reader # {}
  PROVE  Spec => []NeverSleepsOnMessage
<1>1. SleepInv => NeverSleepsOnMessage
  BY DEF SleepInv
<1>2. TypeOK /\ SleepInv /\ [Next]_vars => SleepInv'
  BY SleepNext
<1> QED
  BY <1>1, <1>2, SleepInit, MutexAndTypes, PTL DEF Spec
=============================================================================
