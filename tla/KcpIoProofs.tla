------------------------------ MODULE KcpIoProofs ------------------------------
(***************************************************************************)
(* For messages and buffers of any size and any number of messages: the    *)
(* types of the reader's and the writer's state, that a reader only sleeps *)
(* when somebody will wake it, also while the writer keeps operations that *)
(* were given up, and that the reader implements ByteStream.  And for      *)
(* datagrams and keys of any length: the cipher that KcpOutput puts around *)
(* them can be undone.                                                     *)
(***************************************************************************)
EXTENDS KcpIo, KcpCodec, SequenceFacts

-----------------------------------------------------------------------------
(* The invariant.                                                          *)

\* The sizes in q lead from lo to hi: T says where each message ends.
Sums(q, lo, hi) ==
  \E T \in [0..Len(q) -> Nat] :
    /\ T[0] = lo /\ T[Len(q)] = hi
    /\ \A i \in 1..Len(q) : T[i] = T[i - 1] + q[i]
    /\ \A i \in 0..Len(q) : T[i] <= hi

\* The numbers 1, 2, ..., Len(s).
Counted(s) == s \in Seq(Nat) /\ \A i \in 1..Len(s) : s[i] = i

\* What keeps the bytes in order: what was taken and not given is in the
\* cache, what arrived and was not taken is in the queue, and who waits for
\* the mutex has an empty cache.
BytesInv ==
  /\ {messages, arrived, taken, cache_siz, cache_pos} \subseteq Nat
  /\ Sums(queue, taken, arrived)
  /\ Counted(out)
  /\ Len(out) + (cache_siz - cache_pos) = taken
  /\ \A i \in (cache_pos + 1)..cache_siz : cache[i] = Len(out) + (i - cache_pos)
  /\ state = "ReadBuff" => ~Cached
  /\ reading = "broken" => is_broken_pipe /\ queue = <<>> /\ ~Cached

\* The inductive invariant.
IoInv == TypeOK /\ BytesInv /\ SleepsOnlyWhenEmpty

-----------------------------------------------------------------------------
(* Messages and bytes.                                                     *)

\* An empty queue: all that arrived was taken.
LEMMA SumsEmpty ==
  ASSUME NEW lo \in Nat, NEW hi
  PROVE  Sums(<<>>, lo, hi) <=> lo = hi
<1>1. Len(<<>>) = 0 /\ 0..0 = {0} /\ 1..0 = {}
  BY EmptySeq
<1>2. ASSUME lo = hi
      PROVE  Sums(<<>>, lo, hi)
  <2> DEFINE T == [i \in 0..0 |-> lo]
  <2>1. T \in [0..0 -> Nat] /\ T[0] = lo
    BY <1>1
  <2> HIDE DEF T
  <2> QED
    BY <1>1, <1>2, <2>1 DEF Sums
<1>3. ASSUME Sums(<<>>, lo, hi)
      PROVE  lo = hi
  BY <1>1, <1>3 DEF Sums
<1> QED
  BY <1>2, <1>3

\* A message that arrives.
LEMMA SumsAppend ==
  ASSUME NEW q \in Seq(Nat), NEW lo \in Nat, NEW hi \in Nat, NEW size \in Nat,
         Sums(q, lo, hi)
  PROVE  Sums(Append(q, size), lo, hi + size)
<1> DEFINE n == Len(q)
           p == Append(q, size)
<1>1. /\ n \in Nat /\ Len(p) = n + 1
      /\ \A i \in 1..n : p[i] = q[i]
      /\ p[n + 1] = size
  BY AppendProperties, LenProperties
<1>2. PICK T \in [0..n -> Nat] :
        /\ T[0] = lo /\ T[n] = hi
        /\ \A i \in 1..n : T[i] = T[i - 1] + q[i]
        /\ \A i \in 0..n : T[i] <= hi
  BY DEF Sums
<1> DEFINE U == [i \in 0..(n + 1) |-> IF i <= n THEN T[i] ELSE hi + size]
<1> HIDE DEF n, p
<1>3. ASSUME NEW i \in 0..(n + 1)
      PROVE  (IF i <= n THEN T[i] ELSE hi + size) \in Nat
  <2>1. i <= n => i \in 0..n
    BY <1>1
  <2> QED
    BY <1>2, <2>1
<1>4. /\ U \in [0..(n + 1) -> Nat]
      /\ U[n + 1] = hi + size
      /\ \A i \in 0..n : U[i] = T[i]
  BY <1>1, <1>3
<1> HIDE DEF U
<1>5. U[0] = lo
  BY <1>1, <1>2, <1>4
<1>6. ASSUME NEW i \in 1..(n + 1)
      PROVE  U[i] = U[i - 1] + p[i]
  <2>1. CASE i = n + 1
    <3>1. i - 1 = n /\ n \in 0..n
      BY <1>1, <2>1
    <3> QED
      BY <1>1, <1>2, <1>4, <2>1, <3>1
  <2>2. CASE i # n + 1
    <3>1. i \in 1..n /\ i \in 0..n /\ i - 1 \in 0..n
      BY <1>1, <2>2
    <3> QED
      BY <1>1, <1>2, <1>4, <3>1
  <2> QED
    BY <2>1, <2>2
<1>7. ASSUME NEW i \in 0..(n + 1)
      PROVE  U[i] <= hi + size
  <2>1. CASE i = n + 1
    BY <1>4, <2>1
  <2>2. CASE i # n + 1
    <3>1. i \in 0..n
      BY <1>1, <2>2
    <3>2. T[i] <= hi /\ T[i] \in Nat
      BY <1>2, <3>1
    <3> QED
      BY <1>4, <3>1, <3>2
  <2> QED
    BY <2>1, <2>2
<1>8. Sums(p, lo, hi + size)
  BY <1>1, <1>4, <1>5, <1>6, <1>7 DEF Sums
<1> QED
  BY <1>8 DEF p

\* A message that is taken.
LEMMA SumsTail ==
  ASSUME NEW q \in Seq(Nat), q # <<>>, NEW lo \in Nat, NEW hi \in Nat,
         Sums(q, lo, hi)
  PROVE  Sums(Tail(q), lo + Head(q), hi) /\ lo + Head(q) <= hi
<1> DEFINE n == Len(q)
           p == Tail(q)
<1>1. /\ n \in Nat \ {0} /\ Len(p) = n - 1
      /\ \A i \in 1..(n - 1) : p[i] = q[i + 1]
      /\ q[1] = Head(q) /\ Head(q) \in Nat
  BY HeadTailProperties, LenProperties, EmptySeq
<1>2. PICK T \in [0..n -> Nat] :
        /\ T[0] = lo /\ T[n] = hi
        /\ \A i \in 1..n : T[i] = T[i - 1] + q[i]
        /\ \A i \in 0..n : T[i] <= hi
  BY DEF Sums
<1> DEFINE U == [i \in 0..(n - 1) |-> T[i + 1]]
<1> HIDE DEF n, p
<1>3. \A i \in 0..(n - 1) : i + 1 \in 0..n
  BY <1>1
<1>4. /\ U \in [0..(n - 1) -> Nat]
      /\ \A i \in 0..(n - 1) : U[i] = T[i + 1]
  BY <1>2, <1>3
<1> HIDE DEF U
<1>5. T[1] = lo + Head(q) /\ T[1] <= hi
  <2>1. 1 \in 1..n /\ 1 \in 0..n /\ 1 - 1 = 0
    BY <1>1
  <2> QED
    BY <1>1, <1>2, <2>1
<1>6. U[0] = lo + Head(q) /\ U[n - 1] = hi
  <2>1. 0 \in 0..(n - 1) /\ n - 1 \in 0..(n - 1) /\ 0 + 1 = 1 /\ (n - 1) + 1 = n
    BY <1>1
  <2> QED
    BY <1>2, <1>4, <1>5, <2>1
<1>7. ASSUME NEW i \in 1..(n - 1)
      PROVE  U[i] = U[i - 1] + p[i]
  <2>1. /\ i \in 0..(n - 1) /\ i - 1 \in 0..(n - 1)
        /\ i + 1 \in 1..n /\ (i - 1) + 1 = i /\ (i + 1) - 1 = i
    BY <1>1
  <2>2. U[i] = T[i + 1] /\ U[i - 1] = T[i]
    BY <1>4, <2>1
  <2>3. T[i + 1] = T[i] + q[i + 1]
    BY <1>2, <2>1
  <2> QED
    BY <1>1, <2>2, <2>3
<1>8. \A i \in 0..(n - 1) : U[i] <= hi
  BY <1>2, <1>3, <1>4
<1>9. Sums(p, lo + Head(q), hi)
  BY <1>1, <1>4, <1>6, <1>7, <1>8 DEF Sums
<1> QED
  BY <1>5, <1>9 DEF p

\* No more was taken than arrived.
LEMMA SumsOrder ==
  ASSUME NEW q \in Seq(Nat), NEW lo, NEW hi, Sums(q, lo, hi)
  PROVE  lo <= hi
<1>1. 0 \in 0..Len(q)
  BY LenProperties
<1> QED
  BY <1>1 DEF Sums

\* Bytes that come next keep what was read in order.
LEMMA CountedJoin ==
  ASSUME NEW o, Counted(o), NEW t \in Seq(Nat),
         \A i \in 1..Len(t) : t[i] = Len(o) + i
  PROVE  Counted(o \o t) /\ Len(o \o t) = Len(o) + Len(t)
<1> DEFINE u == o \o t
           a == Len(o)
           b == Len(t)
<1>1. o \in Seq(Nat) /\ \A i \in 1..a : o[i] = i
  BY DEF Counted
<1>2. /\ u \in Seq(Nat) /\ a \in Nat /\ b \in Nat /\ Len(u) = a + b
      /\ \A i \in 1..a : u[i] = o[i]
      /\ \A i \in 1..b : u[a + i] = t[i]
  BY <1>1, ConcatElements
<1>3. \A i \in 1..b : t[i] = a + i
  OBVIOUS
<1> HIDE DEF u, a, b
<1>4. ASSUME NEW i \in 1..(a + b)
      PROVE  u[i] = i
  <2>1. CASE i <= a
    <3>1. i \in 1..a
      BY <1>2, <2>1
    <3> QED
      BY <1>1, <1>2, <3>1
  <2>2. CASE ~(i <= a)
    <3>1. i - a \in 1..b /\ a + (i - a) = i
      BY <1>2, <2>2
    <3> QED
      BY <1>2, <1>3, <3>1
  <2> QED
    BY <2>1, <2>2
<1>5. Counted(u)
  BY <1>2, <1>4 DEF Counted
<1> QED
  BY <1>2, <1>5 DEF u, a, b

\* The bytes after the first-th.
LEMMA BytesAre ==
  ASSUME NEW first \in Nat, NEW n \in Nat
  PROVE  /\ Bytes(first, n) \in Seq(Nat) /\ Len(Bytes(first, n)) = n
         /\ \A i \in 1..n : Bytes(first, n)[i] = first + i
<1>1. Bytes(first, n) \in [1..n -> Nat]
  BY DEF Bytes
<1> QED
  BY <1>1, FunctionIsSeq DEF Bytes

-----------------------------------------------------------------------------
(* The steps.                                                              *)

\* Nothing has arrived in the initial states.
LEMMA IoInvInit == Init => IoInv
<1> SUFFICES ASSUME Init
             PROVE  IoInv
  OBVIOUS
<1>1. <<>> \in Seq(Nat) /\ <<>> \in Seq(Sizes) /\ Len(<<>>) = 0
  BY EmptySeq
<1>2. Sums(<<>>, 0, 0)
  BY SumsEmpty
<1>3. \A i \in 1..0 : FALSE
  OBVIOUS
<1>4. Counted(<<>>)
  BY <1>1, <1>3 DEF Counted
<1>5. TypeOK
  <2>1. cache \in Seq(Nat) /\ cache_siz <= Len(cache) /\ cache_pos <= cache_siz
    BY <1>1 DEF Init
  <2>2. queue \in Seq(Sizes) /\ taken <= arrived
    BY <1>1 DEF Init
  <2> QED
    BY <2>1, <2>2 DEF Init, TypeOK
<1>6. BytesInv
  BY <1>1, <1>2, <1>3, <1>4 DEF Init, BytesInv, Cached
<1>7. SleepsOnlyWhenEmpty
  BY DEF Init, SleepsOnlyWhenEmpty
<1> QED
  BY <1>5, <1>6, <1>7 DEF IoInv

\* The sizes of messages are numbers.
LEMMA SizesAreNumbers ==
  ASSUME NEW q \in Seq(Sizes)
  PROVE  q \in Seq(Nat)
<1>1. \A i \in 1..Len(q) : q[i] \in Nat
  BY ElementOfSeq, IoAssumption DEF IoAssumption
<1> QED
  BY <1>1, SeqDef, LenProperties

\* What the invariant says in numbers.
LEMMA IoNumbers ==
  ASSUME IoInv
  PROVE  /\ messages \in Nat /\ arrived \in Nat /\ taken \in Nat
         /\ cache_siz \in Nat /\ cache_pos \in Nat /\ cache_pos <= cache_siz
         /\ Len(cache) \in Nat /\ cache_siz <= Len(cache)
         /\ Len(out) \in Nat
         /\ queue \in Seq(Nat)
         /\ \A i \in 1..Len(cache) : cache[i] \in Nat
         /\ Len(out) + (cache_siz - cache_pos) = taken
<1>1. queue \in Seq(Nat)
  BY SizesAreNumbers DEF IoInv, TypeOK
<1>2. Len(cache) \in Nat /\ \A i \in 1..Len(cache) : cache[i] \in Nat
  BY ElementOfSeq, LenProperties DEF IoInv, TypeOK
<1>3. Len(out) \in Nat
  BY LenProperties DEF IoInv, BytesInv, Counted
<1> QED
  BY <1>1, <1>2, <1>3 DEF IoInv, BytesInv, TypeOK

\* A step leaves the messages and the bytes alone.
Quiet == UNCHANGED <<queue, cache, cache_siz, cache_pos, messages, arrived,
                     taken, out>>

\* What keeps the bytes in order then, when the reader does not begin to wait
\* with a cache and tells no broken pipe too early.
LEMMA QuietBytes ==
  ASSUME BytesInv, Quiet, state' = "ReadBuff" => ~Cached,
         reading' = "broken" => is_broken_pipe' /\ queue = <<>> /\ ~Cached
  PROVE  BytesInv'
  BY DEF BytesInv, Quiet, Cached

\* The mutex, the wakers and the pipe.
LEMMA SharedSteps ==
  ASSUME IoInv, OtherLock \/ OtherUnlock \/ SetBrokenPipe \/ GiveUp
  PROVE  IoInv'
<1> USE DEF OtherLock, OtherUnlock, SetBrokenPipe, GiveUp, Unlock, readerVars,
            writerVars, inputVars, IoInv
<1>1. Quiet
  BY DEF Quiet
<1>2. TypeOK'
  <2>1. CASE OtherLock \/ OtherUnlock
    BY <2>1 DEF TypeOK
  <2>2. CASE SetBrokenPipe \/ GiveUp
    BY <2>2 DEF TypeOK
  <2> QED
    BY <2>1, <2>2
<1>3. BytesInv'
  <2>1. state' = "ReadBuff" => ~Cached
    BY DEF BytesInv
  <2>2. reading' = "broken" => is_broken_pipe' /\ queue = <<>> /\ ~Cached
    BY DEF BytesInv, TypeOK
  <2> QED
    BY <1>1, <2>1, <2>2, QuietBytes
<1>4. SleepsOnlyWhenEmpty'
  BY DEF SleepsOnlyWhenEmpty, Cached, TypeOK
<1> QED
  BY <1>2, <1>3, <1>4

\* A step of the writer.
WriterStep ==
  PollSend \/ PollFlush \/ PollClose \/ GiveUpWrite \/ DropWriter \/ PollPanic

\* The polls of the writer, operations that are given up, and its end.
LEMMA WriterSteps ==
  ASSUME IoInv, WriterStep
  PROVE  IoInv'
<1> USE DEF WriterStep, PollSend, PollFlush, PollClose, GiveUpWrite, DropWriter,
            PollPanic, Drop, Write, Unlock, inputVars, IoInv
<1>1. Quiet
  BY DEF Quiet
<1>2. TypeOK'
  BY DEF TypeOK
<1>3. BytesInv'
  <2>1. state' = "ReadBuff" => ~Cached
    BY DEF BytesInv
  <2>2. reading' = "broken" => is_broken_pipe' /\ queue = <<>> /\ ~Cached
    BY DEF BytesInv
  <2> QED
    BY <1>1, <2>1, <2>2, QuietBytes
<1>4. SleepsOnlyWhenEmpty'
  BY DEF SleepsOnlyWhenEmpty, Cached, TypeOK
<1> QED
  BY <1>2, <1>3, <1>4

\* A poll that does not give anything.
LEMMA EmptyPolls ==
  ASSUME IoInv, PollWait \/ PollEmpty \/ PollBroken
  PROVE  IoInv'
<1> USE DEF PollWait, PollEmpty, PollBroken, FindsTaken, FindsGuard, FindsCache,
            writerVars, inputVars, IoInv
<1>1. Quiet
  BY DEF Quiet
<1>2. TypeOK'
  BY DEF TypeOK
<1>3. ~Cached
  BY DEF BytesInv, TypeOK
<1>4. BytesInv'
  <2>1. reading' = "broken" => is_broken_pipe' /\ queue = <<>>
    OBVIOUS
  <2> QED
    BY <1>1, <1>3, <2>1, QuietBytes
<1>5. SleepsOnlyWhenEmpty'
  BY <1>3 DEF SleepsOnlyWhenEmpty, Cached
<1> QED
  BY <1>2, <1>4, <1>5

\* A message arrives.
LEMMA ArriveStep ==
  ASSUME IoInv, NEW size \in Sizes, Arrive(size)
  PROVE  IoInv' /\ arrived' \in Nat /\ arrived' >= arrived
<1> USE DEF Arrive, writerVars
<1>1. size \in Nat
  BY IoAssumption DEF IoAssumption
<1>2. /\ messages \in Nat /\ arrived \in Nat /\ taken \in Nat
      /\ queue \in Seq(Nat)
  BY IoNumbers
<1>3. queue' = Append(queue, size) /\ arrived' = arrived + size
  OBVIOUS
<1>4. Sums(queue', taken', arrived')
  <2>1. Sums(queue, taken, arrived)
    BY DEF IoInv, BytesInv
  <2>2. Sums(Append(queue, size), taken, arrived + size)
    BY <1>1, <1>2, <2>1, SumsAppend
  <2> QED
    BY <1>3, <2>2
<1>5. queue' \in Seq(Sizes)
  BY <1>3, AppendProperties DEF IoInv, TypeOK
<1>6. taken' <= arrived'
  BY <1>1, <1>2, <1>3 DEF IoInv, TypeOK
<1>7. TypeOK'
  BY <1>5, <1>6 DEF IoInv, TypeOK
<1>8. reading # "broken" /\ reading' # "broken"
  BY DEF IoInv, BytesInv
<1>9. {messages', arrived', taken', cache_siz', cache_pos'} \subseteq Nat
  BY <1>1, <1>2 DEF IoInv, BytesInv
<1>10. BytesInv'
  BY <1>4, <1>8, <1>9 DEF IoInv, BytesInv, Cached
<1>11. SleepsOnlyWhenEmpty'
  BY DEF IoInv, SleepsOnlyWhenEmpty, Cached
<1> QED
  BY <1>1, <1>2, <1>3, <1>7, <1>10, <1>11 DEF IoInv

\* n more bytes are read, and the reader begins anew.
Reads(n) ==
  /\ Counted(out') /\ Len(out') = Len(out) + n
  /\ state' = "Begin" /\ reading' = "idle"
  /\ UNCHANGED <<kcp, is_broken_pipe, wake, wstate, writing, messages, arrived>>

\* Then the invariant is that of the queue and the cache.
LEMMA ReadsKeep ==
  ASSUME IoInv, NEW n \in Nat, Reads(n),
         queue' \in Seq(Sizes), Sums(queue', taken', arrived), taken' \in Nat,
         cache' \in Seq(Nat), cache_siz' \in Nat, cache_pos' \in Nat,
         cache_siz' <= Len(cache'), cache_pos' <= cache_siz',
         Len(out) + n + (cache_siz' - cache_pos') = taken',
         \A i \in (cache_pos' + 1)..cache_siz' :
           cache'[i] = Len(out) + n + (i - cache_pos')
  PROVE  IoInv'
<1> USE DEF Reads
<1>1. taken' <= arrived'
  <2>1. queue' \in Seq(Nat)
    BY SizesAreNumbers
  <2> QED
    BY <2>1, SumsOrder
<1>2. TypeOK'
  BY <1>1 DEF IoInv, TypeOK
<1>3. BytesInv'
  BY DEF IoInv, BytesInv
<1>4. SleepsOnlyWhenEmpty'
  BY DEF SleepsOnlyWhenEmpty
<1> QED
  BY <1>2, <1>3, <1>4 DEF IoInv

\* The cache gives what it has, at most the length of the buffer.
LEMMA PollCachedStep ==
  ASSUME IoInv, NEW len \in BufSizes, PollCached(len)
  PROVE  IoInv' /\ \E n \in Nat : Reads(n)
<1> DEFINE room == cache_siz - cache_pos
           n    == IF room < len THEN room ELSE len
           t    == SubSeq(cache, cache_pos + 1, cache_pos + n)
<1>1. /\ cache_siz \in Nat /\ cache_pos \in Nat /\ cache_pos < cache_siz
      /\ cache_siz <= Len(cache) /\ len \in Nat \ {0}
      /\ cache \in Seq(Nat) /\ Len(out) \in Nat /\ Len(cache) \in Nat
      /\ Len(out) + (cache_siz - cache_pos) = taken
  BY IoNumbers, IoAssumption
  DEF IoAssumption, PollCached, FindsCache, Cached, IoInv, TypeOK
<1>2. /\ out' = out \o t /\ cache_pos' = cache_pos + n
      /\ state' = "Begin" /\ reading' = "idle"
      /\ UNCHANGED <<kcp, queue, is_broken_pipe, wake, cache, cache_siz, taken,
                     wstate, writing, messages, arrived>>
  BY DEF PollCached, Ready, writerVars, inputVars
<1>3. n \in Nat \ {0} /\ n <= room /\ cache_pos + n <= Len(cache)
  BY <1>1
<1>4. \A i \in (cache_pos + 1)..cache_siz :
        cache[i] = Len(out) + (i - cache_pos)
  BY DEF IoInv, BytesInv
<1> HIDE DEF n
<1>5. /\ t \in Seq(Nat) /\ Len(t) = n
      /\ \A i \in 1..n : t[i] = cache[cache_pos + i]
  <2>1. /\ cache_pos + 1 \in Nat \ {0} /\ cache_pos + n \in Int
        /\ (cache_pos + n) - (cache_pos + 1) + 1 = n
        /\ cache_pos + 1 <= cache_pos + n
        /\ \A i \in 1..n : cache_pos + 1 + i - 1 = cache_pos + i
    BY <1>1, <1>3
  <2>2. /\ t \in Seq(Nat)
        /\ Len(t) = IF cache_pos + 1 <= cache_pos + n
                    THEN (cache_pos + n) - (cache_pos + 1) + 1 ELSE 0
        /\ \A i \in 1..((cache_pos + n) - (cache_pos + 1) + 1) :
             t[i] = cache[cache_pos + 1 + i - 1]
    BY <1>1, <1>3, <2>1, Piece
  <2> HIDE DEF t
  <2> QED
    BY <2>1, <2>2
<1> HIDE DEF t
<1>6. \A i \in 1..Len(t) : t[i] = Len(out) + i
  <2>1. \A i \in 1..n : /\ cache_pos + i \in (cache_pos + 1)..cache_siz
                        /\ (cache_pos + i) - cache_pos = i
    BY <1>1, <1>3
  <2> QED
    BY <1>4, <1>5, <2>1
<1>7. Counted(out') /\ Len(out') = Len(out) + n
  BY <1>2, <1>5, <1>6, CountedJoin DEF IoInv, BytesInv
<1>8. Reads(n)
  BY <1>2, <1>7 DEF Reads
<1>9. /\ queue' \in Seq(Sizes) /\ Sums(queue', taken', arrived)
      /\ taken' \in Nat /\ cache' \in Seq(Nat)
  BY <1>2, <1>1, IoNumbers DEF IoInv, BytesInv, TypeOK
<1>10. /\ cache_siz' \in Nat /\ cache_pos' \in Nat
       /\ cache_siz' <= Len(cache') /\ cache_pos' <= cache_siz'
       /\ Len(out) + n + (cache_siz' - cache_pos') = taken'
  BY <1>1, <1>2, <1>3
<1>11. ASSUME NEW i \in (cache_pos' + 1)..cache_siz'
       PROVE  cache'[i] = Len(out) + n + (i - cache_pos')
  <2>1. i \in (cache_pos + 1)..cache_siz
    BY <1>1, <1>2, <1>3
  <2>2. cache'[i] = Len(out) + (i - cache_pos)
    BY <1>2, <1>4, <2>1
  <2> QED
    BY <1>1, <1>2, <1>3, <2>1, <2>2
<1> QED
  BY <1>3, <1>8, <1>9, <1>10, <1>11, ReadsKeep

\* A poll with the guard finds the cache empty.
LEMMA GuardFindsNoCache ==
  ASSUME IoInv, FindsGuard
  PROVE  ~Cached /\ cache_siz = cache_pos /\ Len(out) = taken
<1>1. ~Cached
  BY DEF FindsGuard, FindsCache, IoInv, TypeOK, BytesInv
<1> QED
  BY <1>1, IoNumbers DEF Cached

\* A message goes into the buffer.
LEMMA PollTakeStep ==
  ASSUME IoInv, NEW len \in BufSizes, PollTake(len)
  PROVE  IoInv' /\ \E n \in Nat : Reads(n)
<1> DEFINE n == Head(queue)
           t == Bytes(taken, n)
<1>1. /\ queue # <<>> /\ queue' = Tail(queue) /\ taken' = taken + n
      /\ out' = out \o t /\ state' = "Begin" /\ reading' = "idle"
      /\ UNCHANGED <<kcp, is_broken_pipe, wake, cache, cache_siz, cache_pos,
                     wstate, writing, messages, arrived>>
  BY DEF PollTake, Ready, writerVars, inputVars
<1>2. Len(out) = taken /\ cache_siz = cache_pos
  BY GuardFindsNoCache DEF PollTake
<1>3. /\ queue \in Seq(Nat) /\ taken \in Nat /\ arrived \in Nat
      /\ cache_siz \in Nat /\ cache_siz <= Len(cache) /\ queue \in Seq(Sizes)
      /\ cache \in Seq(Nat) /\ Counted(out) /\ Sums(queue, taken, arrived)
  BY IoNumbers DEF IoInv, TypeOK, BytesInv
<1>4. n \in Nat /\ Tail(queue) \in Seq(Sizes)
  BY <1>1, <1>3, HeadTailProperties
<1>5. Sums(Tail(queue), taken + n, arrived)
  BY <1>1, <1>3, SumsTail
<1> HIDE DEF n
<1>6. /\ t \in Seq(Nat) /\ Len(t) = n
      /\ \A i \in 1..n : t[i] = Len(out) + i
  BY <1>2, <1>3, <1>4, BytesAre
<1> HIDE DEF t
<1>7. Counted(out') /\ Len(out') = Len(out) + n
  BY <1>1, <1>3, <1>6, CountedJoin
<1>8. Reads(n)
  BY <1>1, <1>7 DEF Reads
<1>9. Len(out) + n + (cache_siz' - cache_pos') = taken'
  BY <1>1, <1>2, <1>3, <1>4
<1>10. \A i \in (cache_pos' + 1)..cache_siz' : FALSE
  BY <1>1, <1>2, <1>3
<1> QED
  BY <1>1, <1>2, <1>3, <1>4, <1>5, <1>8, <1>9, <1>10, ReadsKeep

\* A message that is larger than the buffer goes into the cache.
LEMMA PollFillStep ==
  ASSUME IoInv, NEW len \in BufSizes, PollFill(len)
  PROVE  IoInv' /\ \E n \in Nat : Reads(n)
<1> DEFINE size == Head(queue)
           room == IF Len(cache) < size THEN size ELSE Len(cache)
           c    == [i \in 1..room |-> IF i <= size THEN taken + i ELSE cache[i]]
           t    == Bytes(taken, len)
<1>1. /\ queue # <<>> /\ queue' = Tail(queue) /\ taken' = taken + size
      /\ out' = out \o t /\ state' = "Begin" /\ reading' = "idle"
      /\ cache' = c /\ cache_siz' = size /\ cache_pos' = len /\ size > len
      /\ UNCHANGED <<kcp, is_broken_pipe, wake, wstate, writing, messages,
                     arrived>>
  BY DEF PollFill, Ready, writerVars, inputVars
<1>2. Len(out) = taken
  BY GuardFindsNoCache DEF PollFill
<1>3. /\ queue \in Seq(Nat) /\ taken \in Nat /\ arrived \in Nat
      /\ Len(cache) \in Nat /\ queue \in Seq(Sizes)
      /\ \A i \in 1..Len(cache) : cache[i] \in Nat
      /\ Counted(out) /\ Sums(queue, taken, arrived)
  BY IoNumbers DEF IoInv, TypeOK, BytesInv
<1>4. size \in Nat /\ Tail(queue) \in Seq(Sizes)
  BY <1>1, <1>3, HeadTailProperties
<1>5. Sums(Tail(queue), taken + size, arrived)
  BY <1>1, <1>3, SumsTail
<1>6. len \in Nat
  BY IoAssumption DEF IoAssumption
<1> HIDE DEF size
<1>7. room \in Nat /\ size <= room
  BY <1>3, <1>4
<1>8. c \in [1..room -> Nat]
  <2>1. ASSUME NEW i \in 1..room
        PROVE  (IF i <= size THEN taken + i ELSE cache[i]) \in Nat
    BY <1>3, <1>4
  <2> HIDE DEF room
  <2> QED
    BY <2>1
<1> HIDE DEF room
<1>9. \A i \in 1..size : c[i] = taken + i
  BY <1>4, <1>7
<1> HIDE DEF c
<1>10. c \in Seq(Nat) /\ Len(c) = room
  BY <1>7, <1>8, FunctionIsSeq
<1>11. /\ t \in Seq(Nat) /\ Len(t) = len
       /\ \A i \in 1..len : t[i] = Len(out) + i
  BY <1>2, <1>3, <1>6, BytesAre
<1> HIDE DEF t
<1>12. Counted(out') /\ Len(out') = Len(out) + len
  BY <1>1, <1>3, <1>11, CountedJoin
<1>13. Reads(len)
  BY <1>1, <1>12 DEF Reads
<1>14. /\ cache_siz' <= Len(cache') /\ cache_pos' <= cache_siz'
       /\ Len(out) + len + (cache_siz' - cache_pos') = taken'
  BY <1>1, <1>2, <1>3, <1>4, <1>6, <1>7, <1>10
<1>15. ASSUME NEW i \in (cache_pos' + 1)..cache_siz'
       PROVE  cache'[i] = Len(out) + len + (i - cache_pos')
  <2>1. i \in 1..size
    BY <1>1, <1>4, <1>6
  <2> QED
    BY <1>1, <1>2, <1>3, <1>6, <1>9, <2>1
<1>16. /\ queue' \in Seq(Sizes) /\ Sums(queue', taken', arrived)
       /\ taken' \in Nat /\ cache' \in Seq(Nat)
       /\ cache_siz' \in Nat /\ cache_pos' \in Nat
  BY <1>1, <1>3, <1>4, <1>5, <1>6, <1>10
<1> QED
  BY <1>6, <1>13, <1>14, <1>15, <1>16, ReadsKeep

\* Every step keeps the invariant.
LEMMA IoInvNext == IoInv /\ [Next]_vars => IoInv'
<1> SUFFICES ASSUME IoInv, [Next]_vars
             PROVE  IoInv'
  OBVIOUS
<1>1. CASE OtherLock \/ OtherUnlock \/ SetBrokenPipe \/ GiveUp
  BY <1>1, SharedSteps
<1>2. CASE WriterStep
  BY <1>2, WriterSteps
<1>3. CASE PollWait \/ PollEmpty \/ PollBroken
  BY <1>3, EmptyPolls
<1>4. ASSUME NEW size \in Sizes, Arrive(size)
      PROVE  IoInv'
  BY <1>4, ArriveStep
<1>5. ASSUME NEW len \in BufSizes, PollRead(len)
      PROVE  IoInv'
  BY <1>5, PollCachedStep, PollTakeStep, PollFillStep DEF PollRead
<1>6. CASE UNCHANGED vars
  BY <1>6
  DEF vars, readerVars, writerVars, inputVars, IoInv, TypeOK, BytesInv, Cached,
      SleepsOnlyWhenEmpty
<1> QED
  BY <1>1, <1>2, <1>3, <1>4, <1>5, <1>6 DEF Next, WriterStep

\* The invariant holds in every reachable state.
LEMMA IoInvAlways == Spec => []IoInv
  BY IoInvInit, IoInvNext, PTL DEF Spec

\* The types of the state that the reader and the writer keep between two
\* polls: the reader keeps no future that has finished.
THEOREM IoTypes == Spec => []TypeOK
<1>1. IoInv => TypeOK
  BY DEF IoInv
<1> QED
  BY <1>1, IoInvAlways, PTL

\* No wakeup is lost: a reader that waits and was not woken waits for a mutex
\* that somebody has, or whose turn a future of the writer has, or it has
\* nothing to give and is registered.
THEOREM SleepsOnlyWhenEmptyAlways == Spec => []SleepsOnlyWhenEmpty
<1>1. IoInv => SleepsOnlyWhenEmpty
  BY DEF IoInv
<1> QED
  BY <1>1, IoInvAlways, PTL

-----------------------------------------------------------------------------
(* The reader implements the stream of bytes.                              *)

\* What changes neither the bytes nor the end of the reader is no step.
LEMMA ByteStutter ==
  ASSUME UNCHANGED <<arrived, out>>,
         reading' = "broken" <=> reading = "broken"
  PROVE  UNCHANGED <<arrived, out, reading = "broken">>
  OBVIOUS

\* n more bytes are read of those that arrived.
LEMMA ReadsImplement ==
  ASSUME IoInv, IoInv', reading # "broken", NEW n \in Nat, Reads(n)
  PROVE  Stream!Read \/ UNCHANGED <<arrived, out, reading = "broken">>
<1>1. /\ Counted(out) /\ Counted(out') /\ Len(out') = Len(out) + n
      /\ arrived' = arrived /\ reading' # "broken"
  BY DEF Reads, IoInv, BytesInv
<1>2. /\ Len(out) \in Nat /\ Len(out') \in Nat /\ arrived \in Nat
      /\ Len(out') <= arrived
  <2>1. Len(out) \in Nat /\ arrived \in Nat
    BY IoNumbers
  <2>2. /\ taken' \in Nat /\ cache_siz' \in Nat /\ cache_pos' \in Nat
        /\ Len(out') + (cache_siz' - cache_pos') = taken'
    BY DEF IoInv, BytesInv
  <2>3. cache_pos' <= cache_siz' /\ taken' <= arrived'
    BY DEF IoInv, TypeOK
  <2>4. Len(out') \in Nat
    BY <1>1, <2>1
  <2>5. Len(out') <= taken'
    BY <2>2, <2>3, <2>4
  <2> QED
    BY <1>1, <2>1, <2>2, <2>3, <2>4, <2>5
<1>3. out = [i \in 1..Len(out) |-> i] /\ out' = [i \in 1..Len(out') |-> i]
  BY <1>1, LenProperties DEF Counted
<1>4. CASE n = 0
  <2>1. out' = out
    BY <1>1, <1>2, <1>3, <1>4
  <2> QED
    BY <1>1, <2>1, ByteStutter
<1>5. CASE n # 0
  <2>1. Len(out') \in Len(out) + 1..arrived
    BY <1>1, <1>2, <1>5
  <2> QED
    BY <1>1, <1>3, <2>1 DEF Stream!Read
<1> QED
  BY <1>4, <1>5

\* Every step is a step of the stream of bytes, or none.
LEMMA ByteStep ==
  IoInv /\ IoInv' /\ [Next]_vars
    => [Stream!Arrive \/ Stream!Read \/ Stream!Tell]_<<arrived, out,
                                                      reading = "broken">>
<1> DEFINE Goal == [Stream!Arrive \/ Stream!Read \/ Stream!Tell]_<<arrived, out,
                                                        reading = "broken">>
<1> SUFFICES ASSUME IoInv, IoInv', [Next]_vars
             PROVE  Goal
  OBVIOUS
<1>1. CASE \/ OtherLock \/ OtherUnlock \/ SetBrokenPipe \/ GiveUp
           \/ WriterStep \/ PollWait \/ PollEmpty \/ UNCHANGED vars
  <2>1. UNCHANGED <<arrived, out>>
    BY <1>1
    DEF OtherLock, OtherUnlock, SetBrokenPipe, GiveUp, WriterStep, PollSend,
        PollFlush, PollClose, GiveUpWrite, DropWriter, PollPanic, Drop,
        PollWait, PollEmpty, Write, readerVars, inputVars, vars
  <2>2. reading' = "broken" <=> reading = "broken"
    BY <1>1
    DEF OtherLock, OtherUnlock, SetBrokenPipe, GiveUp, WriterStep, PollSend,
        PollFlush, PollClose, GiveUpWrite, DropWriter, PollPanic, Drop,
        PollWait, PollEmpty, Unlock, readerVars, vars, FindsTaken, FindsGuard
  <2> QED
    BY <2>1, <2>2, ByteStutter
<1>2. ASSUME NEW size \in Sizes, Arrive(size)
      PROVE  Goal
  <2>1. /\ arrived \in Nat /\ arrived' \in Nat /\ arrived' >= arrived
        /\ out' = out
    BY <1>2, ArriveStep, IoNumbers DEF Arrive
  <2>2. reading # "broken" /\ reading' # "broken"
    BY <1>2 DEF Arrive, IoInv, BytesInv
  <2>3. CASE arrived' = arrived
    BY <2>1, <2>2, <2>3, ByteStutter
  <2>4. CASE arrived' > arrived
    BY <2>1, <2>2, <2>4 DEF Stream!Arrive
  <2> QED
    BY <2>1, <2>3, <2>4
<1>3. ASSUME NEW len \in BufSizes, PollRead(len)
      PROVE  Goal
  <2>1. \E n \in Nat : Reads(n)
    BY <1>3, PollCachedStep, PollTakeStep, PollFillStep DEF PollRead
  <2>2. reading # "broken"
    BY <1>3
    DEF PollRead, PollCached, PollTake, PollFill, FindsCache, FindsGuard
  <2> QED
    BY <2>1, <2>2, ReadsImplement
<1>4. CASE PollBroken
  <2>1. queue = <<>> /\ reading' = "broken" /\ UNCHANGED <<arrived, out>>
    BY <1>4 DEF PollBroken, inputVars
  <2>2. Len(out) = taken /\ taken \in Nat /\ Sums(queue, taken, arrived)
    BY <1>4, GuardFindsNoCache, IoNumbers DEF PollBroken, IoInv, BytesInv
  <2>3. taken = arrived
    BY <2>1, <2>2, SumsEmpty
  <2> QED
    BY <2>1, <2>2, <2>3 DEF Stream!Tell
<1> QED
  BY <1>1, <1>2, <1>3, <1>4 DEF Next, WriterStep

\* The reader gives the bytes of the messages in order, each once, whatever
\* the sizes of messages and buffers and whichever reads are given up; and it
\* reports the broken pipe only when it has given them all.
THEOREM ImplementsByteStreamAlways == Spec => ImplementsByteStream
<1>1. Init => Stream!Init
  BY DEF Init, Stream!Init
<1> QED
  BY <1>1, IoInvNext, ByteStep, IoInvAlways,
     PTL DEF Spec, ImplementsByteStream, Stream!Spec

-----------------------------------------------------------------------------
(* The cipher.                                                             *)

\* A byte that is encoded twice with the same byte of the key is itself.
LEMMA XorTwice == \A a, b : Xor(Xor(a, b), b) = a
  BY DEF Xor

\* What one end encodes the other decodes with the same key: any datagram and
\* any key, which is shorter or longer than the datagram.
THEOREM DecodeOfEncode ==
  ASSUME NEW key \in Seq(Byte), NEW data \in Seq(Byte)
  PROVE  decode(key, encode(key, data)) = data
<1>1. CASE key = <<>>
  BY <1>1 DEF encode, decode
<1>2. CASE key # <<>>
  <2> DEFINE sent == encode(key, data)
  <2>1. /\ sent = [i \in 1..Len(data) |-> IF i <= 4 THEN data[i]
                     ELSE Xor(data[i], KeyByte(key, i - 4))]
        /\ Len(sent) = Len(data)
    BY <1>2 DEF encode
  <2>2. \A i \in 1..Len(data) :
          4 < i => Xor(sent[i], KeyByte(key, i - 4)) = data[i]
    BY <2>1, XorTwice
  <2>3. decode(key, sent) = [i \in 1..Len(data) |-> data[i]]
    <3>1. decode(key, sent) = [i \in 1..Len(data) |-> IF i <= 4 THEN sent[i]
                                 ELSE Xor(sent[i], KeyByte(key, i - 4))]
      BY <1>2, <2>1 DEF encode, decode
    <3>2. \A i \in 1..Len(data) : i <= 4 => sent[i] = data[i]
      BY <2>1
    <3> QED  BY <2>2, <3>1, <3>2
  <2> QED  BY <2>3
<1> QED  BY <1>1, <1>2
===============================================================================
