---------------------------- MODULE KcpClockProofs ----------------------------
(***************************************************************************)
(* For every interval, delay, timeout and number of failing flushes: a     *)
(* peer is flushed in time, what is sent leaves with one of these flushes  *)
(* and is sent again when its timeout is over, and not long before.  The   *)
(* clock must not reach the end of the u32, and delays must stay below the *)
(* distance at which update starts ts_flush anew.                          *)
(***************************************************************************)
EXTENDS KcpClock, TLAPS

\* A time no timer of a behaviour is away from another by more than twice of.
Span == MaxTime + SlapMax + rx_rto

\* The clock does not wrap while the peer lives, in its u32 or in a difference
\* of two of them; and update tasks run and flush_async is called without
\* delaying ts_flush by SlapMax.
NoWrap ==
  /\ Start + 2 * Span < M
  /\ 4 * Span < M
  /\ \A i \in Intervals : i + MaxDelay + Step * MaxAhead <= SlapMax

-----------------------------------------------------------------------------
(* The invariant.                                                          *)

\* The time at which update is to flush next, from the creation on.
Due == IF updated THEN ts_flush - Start ELSE 0

\* How far n calls of flush_async put current ahead.
Steps(n) == Step * n

\* How late n failures and the scheduling make a flush.
Lates(n) == (1 + n) * Late

\* update is to flush in time, and the update loop knows.
DueInv ==
  /\ 0 <= Due
  /\ Due <= flushed + interval \/ (Due <= Step /\ MaxAhead # 0)
  /\ next_update_time <= Start + Due
  /\ ~updated => current = Start /\ ahead = 0 /\ seg.state # "sent"

\* In each period after that time the loop has spawned a task, and it is not
\* over: an update task that ran would have flushed.
TaskInv ==
  /\ \A t \in tasks : /\ t.ts = Start + t.born
                      /\ t.born <= now /\ now <= t.born + MaxDelay
  /\ \A x \in Nat : Due < x /\ x + Period <= round =>
       \E t \in tasks : x <= t.born /\ t.born < x + Period

\* The clock of the segments is not far from the time.
CurrentInv ==
  /\ Start <= current /\ current <= Start + now + Steps(ahead)
  /\ updated => Due <= (current - Start) + Step + interval + MaxDelay

\* The resend timer runs from when the segment was sent, as current tells it.
SentInv ==
  LET x == seg.resendts - Start
  IN /\ seg.rto <= rx_rto + now + Steps(MaxAhead) /\ seg.rto <= x
     /\ x <= seg.since + seg.rto + rtomin + Steps(MaxAhead)
     /\ seg.since + seg.rto <= x + interval + Period + MaxDelay + MaxDelay
     /\ Due + Period + MaxDelay
          <= seg.since + seg.rto + rtomin + Lates(failures)

\* The segment is flushed, and its timer looked at, in time.
SegInv ==
  /\ seg.since \in 0..now /\ seg.resendts \in 0..(M - 1) /\ seg.rto \in Nat
  /\ seg.state = "queued" =>
       flushed + Late <= seg.since + Lates(failures)
  /\ seg.state = "sent" => SentInv

\* The inductive invariant.
ClockInv == TypeOK /\ DueInv /\ TaskInv /\ CurrentInv /\ SegInv

-----------------------------------------------------------------------------
(* Numbers.                                                                *)

\* The constants are numbers, and none leads out of the u32.
LEMMA ClockNumbers ==
  ASSUME NoWrap
  PROVE  /\ M \in Nat \ {0} /\ Start \in Nat /\ Period \in Nat \ {0}
         /\ Step \in Nat /\ SlapMax \in Nat /\ rx_rto \in Nat
         /\ rtomin \in Nat /\ rtomin <= rx_rto
         /\ MaxDelay \in Nat /\ MaxAhead \in Nat /\ MaxTime \in Nat
         /\ MaxFailures \in Nat
         /\ Start + 2 * (MaxTime + SlapMax + rx_rto) < M
         /\ 4 * (MaxTime + SlapMax + rx_rto) < M
         /\ Steps(MaxAhead) \in Nat
         /\ \A i \in Intervals :
              i \in Nat /\ i + MaxDelay + Steps(MaxAhead) <= SlapMax
<1>1. /\ M \in Nat /\ Start \in 0..M - 1 /\ Period \in Nat \ {0}
      /\ Step \in Nat /\ SlapMax \in Nat /\ rx_rto \in Nat
      /\ MaxDelay \in Nat /\ MaxAhead \in Nat /\ MaxTime \in Nat
      /\ MaxFailures \in Nat /\ Intervals \subseteq Nat
  BY ClockAssumption DEF ClockAssumption
<1>2. rx_rto \div 8 \in Nat /\ rx_rto \div 8 <= rx_rto
  BY <1>1
<1>3. Step * MaxAhead \in Nat
  BY <1>1
<1> QED
  BY <1>1, <1>2, <1>3 DEF NoWrap, Span, rtomin, Steps

\* Calls of flush_async add up.
LEMMA StepsAdd ==
  ASSUME NoWrap, NEW n \in 0..MaxAhead
  PROVE  /\ Steps(n) \in Nat /\ Steps(n) <= Steps(MaxAhead)
         /\ Steps(0) = 0
         /\ n < MaxAhead => Steps(n + 1) = Steps(n) + Step
         /\ MaxAhead # 0 => Step <= Steps(MaxAhead)
<1>1. Step \in Nat /\ MaxAhead \in Nat /\ n \in Nat /\ n <= MaxAhead
  BY ClockNumbers
<1>2. Step * n \in Nat /\ Step * 0 = 0 /\ Step * (n + 1) = Step * n + Step
  BY <1>1
<1>3. Step * MaxAhead = Step * n + Step * (MaxAhead - n)
  BY <1>1
<1>4. MaxAhead - n \in Nat /\ Step * (MaxAhead - n) \in Nat
  BY <1>1
<1>5. MaxAhead # 0 => Step <= Step * MaxAhead
  <2>1. MaxAhead # 0 => /\ MaxAhead - 1 \in Nat /\ Step * (MaxAhead - 1) \in Nat
                        /\ Step * MaxAhead = Step * (MaxAhead - 1) + Step
    BY <1>1
  <2> QED
    BY <1>1, <2>1
<1> QED
  BY <1>2, <1>3, <1>4, <1>5 DEF Steps

\* So do failures.
LEMMA LatesAdd ==
  ASSUME NoWrap, interval \in Intervals, NEW n \in Nat
  PROVE  /\ Late = interval + Period + MaxDelay + Steps(MaxAhead)
         /\ Late \in Nat /\ Lates(n) \in Nat
         /\ Lates(n) >= Late
         /\ Lates(n + 1) = Lates(n) + Late
<1>1. Late = interval + Period + MaxDelay + Steps(MaxAhead)
  BY DEF Late, Steps
<1>2. Late \in Nat
  BY <1>1, ClockNumbers
<1> HIDE DEF Late
<1>3. n * Late \in Nat /\ (1 + n) * Late = Late + n * Late
      /\ (1 + (n + 1)) * Late = (1 + n) * Late + Late
  BY <1>2
<1> QED
  BY <1>1, <1>2, <1>3 DEF Lates

\* The difference of two clocks that are not far apart.
LEMMA TimeDiff ==
  ASSUME NoWrap, NEW a \in 0..(M - 1), NEW b \in 0..(M - 1),
         2 * (a - b) < M, 2 * (b - a) < M
  PROVE  timediff(a, b) = a - b
<1>1. M \in Nat \ {0}
  BY ClockNumbers
<1>2. CASE a >= b
  <2>1. (a - b) % M = a - b
    BY <1>1, <1>2
  <2> QED
    BY <2>1 DEF timediff
<1>3. CASE a < b
  <2>1. (a - b) % M = a - b + M
    BY <1>1, <1>3
  <2>2. ~(2 * (a - b + M) < M)
    BY <1>1
  <2> QED
    BY <1>1, <2>1, <2>2 DEF timediff
<1> QED
  BY <1>2, <1>3

\* So is the difference of two times of a behaviour.
LEMMA NearTimes ==
  ASSUME NoWrap, NEW a \in Nat, NEW b \in Nat, Start <= a, Start <= b,
         a - Start <= 2 * (MaxTime + SlapMax + rx_rto),
         b - Start <= 2 * (MaxTime + SlapMax + rx_rto)
  PROVE  a < M /\ b < M /\ timediff(a, b) = a - b
<1>1. a \in 0..(M - 1) /\ b \in 0..(M - 1)
  BY ClockNumbers
<1>2. 2 * (a - b) < M /\ 2 * (b - a) < M
  BY ClockNumbers
<1>3. M \in Nat /\ timediff(a, b) = a - b
  BY <1>1, <1>2, TimeDiff, ClockNumbers
<1> QED
  BY <1>1, <1>3

\* A number of the u32.
LEMMA NoMod ==
  ASSUME NoWrap, NEW n \in Nat, n < M
  PROVE  n % M = n
  BY ClockNumbers

\* What the invariant says in numbers.
LEMMA StateNumbers ==
  ASSUME NoWrap, ClockInv
  PROVE  /\ now \in Nat /\ now <= MaxTime
         /\ round \in Nat /\ now <= round /\ round <= now + Period
         /\ interval \in Intervals /\ interval \in Nat
         /\ flushed \in Nat /\ flushed <= now
         /\ failures \in Nat /\ ahead \in 0..MaxAhead
         /\ current \in 0..(M - 1) /\ ts_flush \in 0..(M - 1)
         /\ next_update_time \in 0..(M - 1)
         /\ updated \in BOOLEAN
         /\ Due \in Nat /\ Due <= now + interval + Steps(MaxAhead)
         /\ updated => ts_flush = Start + Due
         /\ \A t \in tasks : /\ t.born \in Nat /\ t.born <= now
                             /\ t.ts \in 0..(M - 1) /\ t.ts = Start + t.born
                             /\ now <= t.born + MaxDelay
<1> USE ClockNumbers
<1>1. /\ now \in Nat /\ now <= MaxTime
      /\ round \in Nat /\ now <= round /\ round <= now + Period
      /\ interval \in Intervals /\ interval \in Nat
      /\ flushed \in Nat /\ flushed <= now
      /\ failures \in Nat /\ ahead \in 0..MaxAhead
      /\ current \in 0..(M - 1) /\ ts_flush \in 0..(M - 1)
      /\ next_update_time \in 0..(M - 1)
      /\ updated \in BOOLEAN
  BY DEF ClockInv, TypeOK
<1>2. \A t \in tasks : t.born \in Nat /\ t.ts \in 0..(M - 1)
  BY <1>1 DEF ClockInv, TypeOK
<1>3. Due \in Nat
  BY <1>1 DEF Due, ClockInv, DueInv
<1>4. Due <= now + interval + Steps(MaxAhead)
  BY <1>1, <1>3, StepsAdd DEF ClockInv, DueInv
<1>5. updated => ts_flush = Start + Due
  BY <1>1 DEF Due
<1> QED
  BY <1>1, <1>2, <1>3, <1>4, <1>5 DEF ClockInv, TaskInv

\* update flushes in time: the loop has spawned a task for it, and this waits
\* at most MaxDelay.
LEMMA FlushDue ==
  ASSUME NoWrap, ClockInv
  PROVE  now <= Due + Period + MaxDelay
<1> SUFFICES ASSUME ~(now <= Due + Period + MaxDelay)
             PROVE  FALSE
  OBVIOUS
<1>1. /\ now \in Nat /\ round \in Nat /\ now <= round /\ Due \in Nat
      /\ Period \in Nat /\ MaxDelay \in Nat
  BY StateNumbers, ClockNumbers
<1>2. PICK t \in tasks : Due + 1 <= t.born /\ t.born < Due + 1 + Period
  <2>1. Due + 1 \in Nat /\ Due < Due + 1 /\ Due + 1 + Period <= round
    BY <1>1
  <2> QED
    BY <2>1 DEF ClockInv, TaskInv
<1>3. t.born \in Nat /\ now <= t.born + MaxDelay
  BY StateNumbers
<1> QED
  BY <1>1, <1>2, <1>3

-----------------------------------------------------------------------------
(* The operators.                                                          *)

\* s has been sent at time c of the segments.
SentAt(s, c) ==
  /\ s.state = "sent" /\ s.since = now
  /\ s.rto \in Nat /\ s.rto <= rx_rto + now + Steps(MaxAhead)
  /\ s.resendts \in 0..(M - 1)
  /\ c + s.rto <= s.resendts /\ s.resendts <= c + s.rto + rtomin

\* A flush sends the segment, or finds that its time has not come.
LEMMA FlushedCases ==
  ASSUME NoWrap, ClockInv, NEW c \in 0..(M - 1),
         Start <= c, c <= Start + now + Steps(MaxAhead)
  PROVE  \/ /\ SentAt(Flushed(c), c)
            /\ \/ seg.state = "queued"
               \/ seg.state = "sent" /\ seg.resendts <= c
         \/ /\ Flushed(c) = seg
            /\ \/ seg.state = "none"
               \/ seg.state = "sent" /\ c < seg.resendts
<1> DEFINE d == c - Start
<1> USE ClockNumbers, StateNumbers
<1>1. Steps(MaxAhead) <= SlapMax /\ d \in Nat
  OBVIOUS
<1>2. CASE seg.state = "queued"
  <2>1. c + rx_rto + rtomin \in Nat /\ c + rx_rto + rtomin < M
    BY <1>1
  <2>2. (c + rx_rto + rtomin) % M = c + rx_rto + rtomin
    BY <2>1, NoMod
  <2>3. Flushed(c) = [state |-> "sent", since |-> now, rto |-> rx_rto,
                      resendts |-> c + rx_rto + rtomin]
    BY <1>2, <2>2 DEF Flushed
  <2>4. SentAt(Flushed(c), c)
    BY <2>1, <2>3, <1>1 DEF SentAt
  <2> QED
    BY <2>4, <1>2
<1>3. CASE seg.state = "sent"
  <2>1. /\ seg.since \in Nat /\ seg.since <= now
        /\ seg.resendts \in 0..(M - 1) /\ seg.rto \in Nat
    BY DEF ClockInv, SegInv
  <2>2. /\ seg.rto <= seg.resendts - Start
        /\ seg.rto <= rx_rto + now + Steps(MaxAhead)
        /\ seg.resendts - Start
             <= seg.since + seg.rto + rtomin + Steps(MaxAhead)
    BY <1>3 DEF ClockInv, SegInv, SentInv
  <2>3. timediff(c, seg.resendts) = c - seg.resendts
    <3>1. c - Start <= 2 * (MaxTime + SlapMax + rx_rto)
      BY <1>1
    <3>2. seg.resendts - Start <= 2 * (MaxTime + SlapMax + rx_rto)
      BY <1>1, <2>1, <2>2
    <3> QED
      BY <2>1, <2>2, <3>1, <3>2, NearTimes
  <2>4. CASE c < seg.resendts
    BY <1>3, <2>1, <2>3, <2>4 DEF Flushed
  <2>5. CASE seg.resendts <= c
    <3>1. /\ c + seg.rto + rx_rto \in Nat /\ c + seg.rto + rx_rto < M
          /\ seg.rto <= now + Steps(MaxAhead)
      BY <1>1, <2>1, <2>2, <2>5
    <3>2. (c + seg.rto + rx_rto) % M = c + seg.rto + rx_rto
      BY <3>1, NoMod
    <3>3. Flushed(c) = [state |-> "sent", since |-> now,
                        rto |-> seg.rto + rx_rto,
                        resendts |-> c + seg.rto + rx_rto]
      BY <1>3, <2>1, <2>3, <2>5, <3>2 DEF Flushed
    <3>4. SentAt(Flushed(c), c)
      BY <2>1, <3>1, <3>3 DEF SentAt
    <3> QED
      BY <3>4, <1>3, <2>5
  <2> QED
    BY <2>1, <2>4, <2>5
<1>4. CASE seg.state = "none"
  BY <1>4 DEF Flushed
<1> QED
  BY <1>2, <1>3, <1>4 DEF ClockInv, TypeOK

\* check gives a time that is not after the next flush.
LEMMA CheckBound ==
  ASSUME NoWrap, interval \in Nat, NEW a \in 0..(M - 1), NEW b \in 0..(M - 1),
         NEW s, s.resendts \in 0..(M - 1), a <= b, b <= a + SlapMax
  PROVE  check(a, b, s) \in 0..(b - a)
<1> USE ClockNumbers
<1> DEFINE d    == timediff(s.resendts, a)
           next == Smaller(-timediff(a, b), interval)
<1>1. timediff(a, b) = a - b
  BY TimeDiff
<1>2. d \in Int
  BY DEF timediff
<1>3. next \in 0..(b - a)
  BY <1>1 DEF Smaller
<1>4. \/ check(a, b, s) = 0
      \/ check(a, b, s) = next
      \/ ~(d <= 0) /\ check(a, b, s) = Smaller(d, next)
  BY Zenon DEF check
<1> HIDE DEF d, next
<1>5. d > 0 => Smaller(d, next) \in 0..(b - a)
  BY <1>2, <1>3 DEF Smaller
<1> QED
  BY <1>2, <1>3, <1>4, <1>5

\* The time of an update task and that of the next flush.
LEMMA TaskTimes ==
  ASSUME NoWrap, ClockInv, NEW t \in tasks
  PROVE  /\ t.born \in Nat /\ t.born <= now /\ now <= t.born + MaxDelay
         /\ t.ts \in 0..(M - 1) /\ t.ts = Start + t.born /\ Start <= t.ts
         /\ t.ts - Start <= 2 * (MaxTime + SlapMax + rx_rto)
         /\ timediff(t.ts, t.ts) = 0
         /\ timediff(t.ts, Start + Due) = t.born - Due
<1>1. /\ t.born \in Nat /\ t.born <= now /\ now <= t.born + MaxDelay
      /\ t.ts \in 0..(M - 1) /\ t.ts = Start + t.born
      /\ now \in Nat /\ now <= MaxTime
      /\ Due \in Nat /\ Due <= now + interval + Steps(MaxAhead)
      /\ interval \in Intervals
  BY StateNumbers
<1>2. /\ M \in Nat /\ Start \in Nat /\ SlapMax \in Nat /\ rx_rto \in Nat
      /\ MaxTime \in Nat /\ Steps(MaxAhead) \in Nat /\ interval \in Nat
      /\ MaxDelay \in Nat /\ interval + MaxDelay + Steps(MaxAhead) <= SlapMax
  BY <1>1, ClockNumbers
<1> HIDE DEF Due
<1>3. /\ t.ts \in Nat /\ Start <= t.ts
      /\ t.ts - Start <= 2 * (MaxTime + SlapMax + rx_rto)
      /\ Start + Due \in Nat /\ Start <= Start + Due
      /\ Start + Due - Start <= 2 * (MaxTime + SlapMax + rx_rto)
  BY <1>1, <1>2
<1> DEFINE a == t.ts
           b == Start + Due
<1>4. /\ a \in Nat /\ b \in Nat /\ Start <= a /\ Start <= b
      /\ a - Start <= 2 * (MaxTime + SlapMax + rx_rto)
      /\ b - Start <= 2 * (MaxTime + SlapMax + rx_rto)
  BY <1>1, <1>2, <1>3
<1> HIDE DEF a, b
<1>5. timediff(a, a) = a - a /\ timediff(a, b) = a - b
  BY <1>4, NearTimes
<1> QED
  BY <1>1, <1>2, <1>3, <1>5 DEF a, b

\* update does not find ts_flush far ahead of the clock.
LEMMA TsFlushCases ==
  ASSUME NoWrap, ClockInv, NEW t \in tasks
  PROVE  \/ /\ TsFlush(t.ts) = t.ts
            /\ Due <= t.born
         \/ /\ TsFlush(t.ts) = Start + Due /\ updated
            /\ Due <= t.born + SlapMax
<1> USE ClockNumbers, StateNumbers
<1>1. /\ t.born \in Nat /\ t.born <= now /\ t.ts = Start + t.born
      /\ t.ts \in 0..(M - 1) /\ now <= t.born + MaxDelay
  OBVIOUS
<1>2. CASE ~updated
  BY <1>1, <1>2 DEF TsFlush, Due
<1>3. CASE updated
  <2>1. ts_flush = Start + Due
    BY <1>3
  <2>2. timediff(t.ts, ts_flush) = t.ts - ts_flush
    BY <1>1, <2>1, TaskTimes
  <2>3. Due <= t.born + SlapMax
    <3>1. CASE Due <= flushed + interval
      BY <1>1, <3>1
    <3>2. CASE Due <= Step /\ MaxAhead # 0
      <4>1. 0 \in 0..MaxAhead /\ Step <= Steps(MaxAhead)
        BY <3>2, StepsAdd
      <4> QED
        BY <1>1, <3>2, <4>1
    <3> QED
      BY <3>1, <3>2 DEF ClockInv, DueInv
  <2>4. CASE t.ts - ts_flush >= SlapMax
    BY <1>1, <2>1, <2>2, <2>4 DEF TsFlush
  <2>5. CASE ~(t.ts - ts_flush >= SlapMax)
    <3>1. ~(t.ts - ts_flush < -SlapMax)
      BY <1>1, <2>1, <2>3
    <3> QED
      BY <1>3, <2>1, <2>2, <2>3, <2>5, <3>1 DEF TsFlush
  <2> QED
    BY <2>4, <2>5
<1> QED
  BY <1>2, <1>3

\* The next flush comes within an interval.
LEMMA NextFlushBound ==
  ASSUME NoWrap, ClockInv, NEW t \in tasks,
         timediff(t.ts, TsFlush(t.ts)) >= 0
  PROVE  /\ NextFlush(t.ts) \in 0..(M - 1) /\ Due <= t.born
         /\ t.ts <= NextFlush(t.ts) /\ NextFlush(t.ts) <= t.ts + interval
<1> USE ClockNumbers, StateNumbers
<1> DEFINE b == TsFlush(t.ts)
<1>1. /\ t.born \in Nat /\ t.born <= now /\ t.ts = Start + t.born
      /\ t.ts \in 0..(M - 1)
  OBVIOUS
<1>2. b \in Nat /\ b <= t.ts /\ Due <= t.born
  <2>1. CASE b = t.ts /\ Due <= t.born
    BY <1>1, <2>1
  <2>2. CASE b = Start + Due
    <3>1. t.born - Due >= 0
      BY <2>2, TaskTimes
    <3> QED
      BY <1>1, <2>2, <3>1
  <2> QED
    BY <2>1, <2>2, TsFlushCases
<1>3. b >= Start
  BY <1>1, TsFlushCases
<1> HIDE DEF b
<1>4. b + interval \in 0..(M - 1) /\ t.ts + interval \in 0..(M - 1)
  BY <1>1, <1>2
<1>5. (b + interval) % M = b + interval
      /\ (t.ts + interval) % M = t.ts + interval
  BY <1>4, NoMod
<1>6. timediff(t.ts, b + interval) = t.ts - (b + interval)
  <2>1. t.ts - Start <= 2 * (MaxTime + SlapMax + rx_rto)
    BY <1>1
  <2>2. (b + interval) - Start <= 2 * (MaxTime + SlapMax + rx_rto)
    BY <1>1, <1>2
  <2>3. b + interval \in Nat /\ Start <= b + interval /\ Start <= t.ts
    BY <1>1, <1>2, <1>3
  <2> QED
    BY <1>1, <2>1, <2>2, <2>3, NearTimes
<1>7. NextFlush(t.ts) = IF t.ts - (b + interval) >= 0 THEN t.ts + interval
                        ELSE b + interval
  BY <1>5, <1>6 DEF NextFlush, b
<1> QED
  BY <1>1, <1>2, <1>4, <1>7

\* What update does, in numbers.
LEMMA UpdateNumbers ==
  ASSUME NoWrap, ClockInv, NEW t \in tasks, NEW ok \in BOOLEAN, Update(t, ok)
  PROVE  /\ Due' \in Nat /\ ts_flush' = Start + Due'
         /\ ts_flush' \in 0..(M - 1)
         /\ Due <= Due' /\ t.born <= Due'
         /\ next_update_time' \in 0..(M - 1)
         /\ next_update_time' <= Start + Due'
         /\ \/ /\ flushed' = now /\ Due' <= t.born + interval
               /\ seg' = Flushed(t.ts) \/ (~ok /\ seg' = seg)
            \/ /\ flushed' = flushed /\ seg' = seg /\ ok
               /\ updated /\ Due' = Due
<1> USE ClockNumbers, StateNumbers
<1>1. /\ t.born \in Nat /\ t.born <= now /\ t.ts = Start + t.born
      /\ t.ts \in 0..(M - 1) /\ now <= t.born + MaxDelay
      /\ interval \in Nat /\ interval <= SlapMax
  OBVIOUS
<1>2. Due' = ts_flush' - Start
  BY DEF Update, Due
<1>3. \/ /\ ts_flush' = NextFlush(t.ts) /\ flushed' = now
         /\ timediff(t.ts, TsFlush(t.ts)) >= 0
         /\ seg' = Flushed(t.ts) \/ (~ok /\ seg' = seg)
      \/ /\ ts_flush' = TsFlush(t.ts) /\ flushed' = flushed
         /\ ~(timediff(t.ts, TsFlush(t.ts)) >= 0) /\ seg' = seg /\ ok
  BY DEF Update
<1>4. /\ ts_flush' \in 0..(M - 1) /\ Start + Due <= ts_flush'
      /\ t.ts <= ts_flush' /\ ts_flush' <= t.ts + SlapMax
      /\ \/ /\ flushed' = now /\ ts_flush' <= t.ts + interval
            /\ seg' = Flushed(t.ts) \/ (~ok /\ seg' = seg)
         \/ /\ flushed' = flushed /\ seg' = seg /\ ok
            /\ updated /\ ts_flush' = Start + Due
  <2>1. CASE timediff(t.ts, TsFlush(t.ts)) >= 0
    BY <1>1, <1>3, <2>1, NextFlushBound
  <2>2. CASE ~(timediff(t.ts, TsFlush(t.ts)) >= 0)
    <3>1. ts_flush' = TsFlush(t.ts) /\ flushed' = flushed /\ seg' = seg /\ ok
      BY <1>3, <2>2
    <3>2. timediff(t.ts, t.ts) = 0
      BY TaskTimes
    <3>3. TsFlush(t.ts) # t.ts
      BY <1>1, <2>2, <3>2
    <3>4. /\ TsFlush(t.ts) = Start + Due /\ updated
          /\ Due <= t.born + SlapMax
      BY <3>3, TsFlushCases
    <3>5. ~(t.born - Due >= 0)
      BY <2>2, <3>4, TaskTimes
    <3>6. Due <= MaxTime + SlapMax
      OBVIOUS
    <3> QED
      BY <1>1, <3>1, <3>4, <3>5, <3>6
  <2> QED
    BY <2>1, <2>2
<1>5. next_update_time' \in 0..(M - 1) /\ next_update_time' <= ts_flush'
  <2>1. CASE ok
    <3>1. seg'.resendts \in 0..(M - 1)
      <4>1. seg.resendts \in 0..(M - 1)
        BY DEF ClockInv, SegInv
      <4>2. t.ts <= Start + now + Steps(MaxAhead)
        BY <1>1
      <4>3. Flushed(t.ts).resendts \in 0..(M - 1)
        BY <1>1, <4>1, <4>2, FlushedCases DEF SentAt
      <4> QED
        BY <1>4, <4>1, <4>3
    <3>2. check(t.ts, ts_flush', seg') \in 0..(ts_flush' - t.ts)
      BY <1>1, <1>4, <3>1, CheckBound
    <3> DEFINE k == check(t.ts, ts_flush', seg')
    <3>3. next_update_time' = (k + t.ts) % M
      BY <2>1 DEF Update
    <3> HIDE DEF k
    <3>4. k \in 0..(ts_flush' - t.ts)
      BY <3>2 DEF k
    <3>5. k + t.ts \in Nat /\ k + t.ts < M /\ k + t.ts <= ts_flush'
      BY <1>1, <1>4, <3>4
    <3>6. (k + t.ts) % M = k + t.ts
      BY <3>5, NoMod
    <3> QED
      BY <1>4, <3>3, <3>5, <3>6
  <2>2. CASE ~ok
    <3>1. next_update_time' = next_update_time
      BY <2>2 DEF Update
    <3>2. next_update_time <= Start + Due
      BY DEF ClockInv, DueInv
    <3> QED
      BY <1>4, <3>1, <3>2
  <2> QED
    BY <2>1, <2>2
<1> HIDE DEF Due
<1>6. Due' \in Nat /\ ts_flush' = Start + Due'
  BY <1>1, <1>2, <1>4
<1> QED
  BY <1>1, <1>4, <1>5, <1>6

-----------------------------------------------------------------------------
(* The invariant holds.                                                    *)

\* A flush at a time of the segments that is close enough to the clock keeps
\* what is said of the segment.
LEMMA FlushedSeg ==
  ASSUME NoWrap, ClockInv, NEW c \in 0..(M - 1),
         Start <= c, c <= Start + now + Steps(MaxAhead),
         now <= (c - Start) + interval + Period + MaxDelay + MaxDelay,
         seg' = Flushed(c), now' = now, interval' = interval,
         failures' \in {failures, failures + 1},
         Due' \in Nat, Due' <= now + interval + Steps(MaxAhead),
         seg.state = "sent" => Due' = Due \/ Due' <= (c - Start) + interval
  PROVE  SegInv' /\ seg'.state # "queued"
<1> USE ClockNumbers, StateNumbers
<1> DEFINE x == seg.resendts - Start
           l == Lates(failures)
<1>1. /\ l \in Nat /\ Lates(failures') \in Nat /\ l <= Lates(failures')
      /\ Lates(failures') >= interval + Period + MaxDelay + Steps(MaxAhead)
      /\ l >= interval + Period + MaxDelay + Steps(MaxAhead)
  <2>1. /\ Late = interval + Period + MaxDelay + Steps(MaxAhead)
        /\ Late \in Nat /\ l \in Nat /\ l >= Late
        /\ Lates(failures + 1) = l + Late
    BY LatesAdd
  <2> HIDE DEF l, Late
  <2>2. CASE failures' = failures
    BY <2>1, <2>2 DEF l
  <2>3. CASE failures' = failures + 1
    BY <2>1, <2>3
  <2> QED
    BY <2>2, <2>3
<1>2. Lates(failures)' = Lates(failures')
  BY DEF Lates, Late
<1> HIDE DEF l
<1> HIDE DEF Due
<1> DEFINE lp == Lates(failures')
<1> HIDE DEF lp
<1>3. CASE SentAt(seg', c)
  <2>1. /\ seg'.state = "sent" /\ seg'.since = now /\ seg'.rto \in Nat
        /\ seg'.rto <= rx_rto + now + Steps(MaxAhead)
        /\ seg'.resendts \in 0..(M - 1)
        /\ c + seg'.rto <= seg'.resendts
        /\ seg'.resendts <= c + seg'.rto + rtomin
    BY <1>3 DEF SentAt
  <2>2. SentInv'
    <3>1. /\ seg'.rto <= seg'.resendts - Start
          /\ seg'.resendts - Start
               <= seg'.since + seg'.rto + rtomin + Steps(MaxAhead)
          /\ seg'.since + seg'.rto <= (seg'.resendts - Start) + interval
                                       + Period + MaxDelay + MaxDelay
      BY <2>1
    <3>2. Due' + Period + MaxDelay <= seg'.since + seg'.rto + rtomin + lp
      BY <1>1, <2>1 DEF lp
    <3> QED
      BY <1>2, <2>1, <3>1, <3>2 DEF SentInv, lp
  <2> QED
    BY <2>1, <2>2 DEF SegInv
<1>4. CASE /\ seg' = seg
           /\ seg.state = "none" \/ (seg.state = "sent" /\ c < seg.resendts)
  <2>1. /\ seg.since \in 0..now /\ seg.resendts \in 0..(M - 1)
        /\ seg.rto \in Nat
    BY DEF ClockInv, SegInv
  <2>2. seg.state = "sent" => SentInv'
    <3> SUFFICES ASSUME seg.state = "sent"
                 PROVE  SentInv'
      OBVIOUS
    <3>1. /\ seg.rto <= rx_rto + now + Steps(MaxAhead) /\ seg.rto <= x
          /\ x <= seg.since + seg.rto + rtomin + Steps(MaxAhead)
          /\ seg.since + seg.rto
               <= x + interval + Period + MaxDelay + MaxDelay
          /\ Due + Period + MaxDelay <= seg.since + seg.rto + rtomin + l
      BY DEF ClockInv, SegInv, SentInv, l
    <3>2. c - Start < x
      BY <1>4, <2>1
    <3>3. Due' + Period + MaxDelay <= seg.since + seg.rto + rtomin + lp
      <4>1. CASE Due' = Due
        BY <1>1, <2>1, <3>1, <4>1 DEF lp
      <4>2. CASE Due' <= (c - Start) + interval
        BY <1>1, <2>1, <3>1, <3>2, <4>2 DEF lp
      <4> QED
        BY <4>1, <4>2
    <3> QED
      BY <1>2, <1>4, <3>1, <3>3 DEF SentInv, lp
  <2> QED
    BY <1>4, <2>1, <2>2 DEF SegInv
<1> QED
  BY <1>3, <1>4, FlushedCases

\* Tasks that are gone had nothing to flush.
LEMMA FewerTasks ==
  ASSUME NoWrap, ClockInv, NEW t \in tasks, round' = round, now' = now,
         Due' \in Nat, Due <= Due', t.born <= Due',
         tasks' = tasks \ {t}
  PROVE  TaskInv'
<1>1. \A w \in tasks' : /\ w.ts = Start + w.born
                        /\ w.born <= now' /\ now' <= w.born + MaxDelay
  BY StateNumbers
<1> HIDE DEF Due
<1>2. ASSUME NEW x \in Nat, Due' < x, x + Period <= round
      PROVE  \E w \in tasks' : x <= w.born /\ w.born < x + Period
  <2>1. Due < x
    BY <1>2, StateNumbers
  <2>2. PICK w \in tasks : x <= w.born /\ w.born < x + Period
    BY <1>2, <2>1 DEF ClockInv, TaskInv
  <2>3. w # t
    BY <1>2, <2>2, StateNumbers
  <2> QED
    BY <2>2, <2>3
<1> QED
  BY <1>1, <1>2 DEF TaskInv

\* It holds first.
LEMMA ClockInvInit ==
  ASSUME NoWrap, Init
  PROVE  ClockInv
<1> USE ClockNumbers
<1>1. interval \in Nat /\ interval <= SlapMax /\ interval \in 0..(M - 1)
  BY DEF Init
<1>2. TypeOK
  <2>1. /\ now \in 0..MaxTime /\ round \in now..(now + Period)
        /\ next_update_time \in 0..(M - 1) /\ interval \in Intervals
        /\ current \in 0..(M - 1) /\ ts_flush \in 0..(M - 1)
        /\ flushed \in 0..now /\ ahead \in 0..MaxAhead
        /\ failures \in 0..MaxFailures
    BY <1>1 DEF Init
  <2>2. seg.state = "none" /\ tasks = {} /\ updated = FALSE
    BY DEF Init, NoSegment
  <2> QED
    BY <2>1, <2>2 DEF TypeOK
<1>3. DueInv
  BY <1>1 DEF Init, DueInv, Due, NoSegment
<1>4. TaskInv
  <2>1. \A x \in Nat : Due < x => ~(x + Period <= round)
    BY DEF Init, Due
  <2> QED
    BY <2>1 DEF Init, TaskInv
<1>5. CurrentInv
  <2>1. 0 \in 0..MaxAhead
    OBVIOUS
  <2>2. Steps(0) = 0
    BY <2>1, StepsAdd
  <2> QED
    BY <2>2 DEF Init, CurrentInv
<1>6. SegInv
  BY DEF Init, SegInv, NoSegment
<1> QED
  BY <1>2, <1>3, <1>4, <1>5, <1>6 DEF ClockInv

\* Time goes on.
LEMMA TickInv ==
  ASSUME NoWrap, ClockInv, Tick
  PROVE  ClockInv'
<1> USE ClockNumbers, StateNumbers
<1>1. /\ now' = now + 1 /\ now < MaxTime /\ now < round
      /\ \A t \in tasks : now < t.born + MaxDelay
      /\ UNCHANGED <<round, tasks, next_update_time, interval, current,
                     ts_flush, updated, seg, flushed, ahead, failures>>
  BY DEF Tick, kcpVars
<1>2. Due' = Due
  BY <1>1 DEF Due
<1>3. TypeOK'
  BY <1>1 DEF ClockInv, TypeOK
<1>4. DueInv'
  BY <1>1, <1>2 DEF ClockInv, DueInv
<1>5. TaskInv'
  <2>1. \A t \in tasks : /\ t.ts = Start + t.born
                         /\ t.born <= now' /\ now' <= t.born + MaxDelay
    BY <1>1
  <2> QED
    BY <1>1, <1>2, <2>1 DEF ClockInv, TaskInv
<1>6. CurrentInv'
  <2>1. Steps(ahead) \in Nat
    BY StepsAdd
  <2> QED
    BY <1>1, <1>2, <2>1 DEF ClockInv, CurrentInv
<1>7. SegInv'
  <2>1. SentInv /\ seg.rto \in Nat => SentInv'
    BY <1>1, <1>2 DEF SentInv, Lates, Late
  <2> QED
    BY <1>1, <2>1 DEF ClockInv, SegInv, Lates, Late
<1> QED
  BY <1>3, <1>4, <1>5, <1>6, <1>7 DEF ClockInv

\* The loop wakes up: either it spawns a task or update is not due.
LEMMA RoundInv ==
  ASSUME NoWrap, ClockInv, Round
  PROVE  ClockInv'
<1> USE ClockNumbers, StateNumbers
<1> DEFINE new == [ts |-> timestamp, born |-> now, pc |-> "check"]
<1>1. /\ round = now /\ round' = now + Period
      /\ tasks' = IF next_update_time < timestamp THEN tasks \cup {new}
                  ELSE tasks
      /\ UNCHANGED <<now, next_update_time, interval, current,
                     ts_flush, updated, seg, flushed, ahead, failures>>
  BY DEF Round, kcpVars
<1>2. Due' = Due
  BY <1>1 DEF Due
<1>3. timestamp = Start + now /\ timestamp \in 0..(M - 1)
  <2>1. Start + now \in Nat /\ Start + now < M
    OBVIOUS
  <2> QED
    BY <2>1, NoMod DEF timestamp
<1>4. TypeOK'
  <2>1. new \in [ts : 0..(M - 1), born : 0..now, pc : {"check", "lock"}]
    BY <1>3
  <2>2. tasks' \subseteq
          [ts : 0..(M - 1), born : 0..now, pc : {"check", "lock"}]
    BY <1>1, <2>1 DEF ClockInv, TypeOK
  <2>3. round' \in now..(now + Period)
    BY <1>1
  <2> QED
    BY <1>1, <2>2, <2>3 DEF ClockInv, TypeOK
<1>5. DueInv'
  BY <1>1, <1>2 DEF ClockInv, DueInv
<1>6. TaskInv'
  <2>1. \A w \in tasks' : /\ w.ts = Start + w.born
                          /\ w.born <= now' /\ now' <= w.born + MaxDelay
    BY <1>1, <1>3
  <2>2. ASSUME NEW x \in Nat, Due < x, x + Period <= round'
        PROVE  \E w \in tasks' : x <= w.born /\ w.born < x + Period
    <3>1. CASE x + Period <= round
      <4>1. \E w \in tasks : x <= w.born /\ w.born < x + Period
        BY <2>2, <3>1 DEF ClockInv, TaskInv
      <4> QED
        BY <1>1, <4>1
    <3>2. CASE ~(x + Period <= round)
      <4>1. next_update_time <= Start + Due
        BY DEF ClockInv, DueInv
      <4>2. x <= now /\ now < x + Period
        BY <1>1, <2>2, <3>2
      <4>3. next_update_time < timestamp
        BY <1>3, <2>2, <4>1, <4>2
      <4>4. new \in tasks' /\ new.born = now
        BY <1>1, <4>3
      <4> QED
        BY <4>2, <4>4
    <3> QED
      BY <3>1, <3>2
  <2> QED
    BY <1>2, <2>1, <2>2 DEF TaskInv
<1>7. CurrentInv'
  BY <1>1, <1>2 DEF ClockInv, CurrentInv
<1>8. SegInv'
  BY <1>1, <1>2 DEF ClockInv, SegInv, SentInv, Lates, Late
<1> QED
  BY <1>4, <1>5, <1>6, <1>7, <1>8 DEF ClockInv

\* A task leaves when update is not due, or goes for the mutex.
LEMMA UpdateCheckInv ==
  ASSUME NoWrap, ClockInv, NEW t \in tasks, UpdateCheck(t)
  PROVE  ClockInv'
<1> USE ClockNumbers, StateNumbers
<1> DEFINE next == [t EXCEPT !.pc = "lock"]
<1>1. /\ tasks' = (tasks \ {t}) \cup
                    IF t.ts >= next_update_time THEN {next} ELSE {}
      /\ UNCHANGED <<now, round, next_update_time, interval, current,
                     ts_flush, updated, seg, flushed, ahead, failures>>
  BY DEF UpdateCheck, kcpVars
<1>2. Due' = Due
  BY <1>1 DEF Due
<1>3. t \in [ts : 0..(M - 1), born : 0..now, pc : {"check", "lock"}]
  BY DEF ClockInv, TypeOK
<1>4. /\ next \in [ts : 0..(M - 1), born : 0..now, pc : {"check", "lock"}]
      /\ next.ts = t.ts /\ next.born = t.born
  BY <1>3
<1>5. TypeOK'
  <2>1. tasks' \subseteq
          [ts : 0..(M - 1), born : 0..now, pc : {"check", "lock"}]
    BY <1>1, <1>4 DEF ClockInv, TypeOK
  <2> QED
    BY <1>1, <2>1 DEF ClockInv, TypeOK
<1>6. DueInv'
  BY <1>1, <1>2 DEF ClockInv, DueInv
<1>7. TaskInv'
  <2>1. CASE t.ts >= next_update_time
    <3>1. tasks' = (tasks \ {t}) \cup {next}
      BY <1>1, <2>1
    <3>2. \A w \in tasks' : /\ w.ts = Start + w.born
                            /\ w.born <= now' /\ now' <= w.born + MaxDelay
      BY <1>1, <1>4, <3>1
    <3>3. ASSUME NEW x \in Nat, Due < x, x + Period <= round
          PROVE  \E w \in tasks' : x <= w.born /\ w.born < x + Period
      <4>1. PICK w \in tasks : x <= w.born /\ w.born < x + Period
        BY <3>3 DEF ClockInv, TaskInv
      <4>2. CASE w = t
        BY <1>4, <3>1, <4>1, <4>2
      <4>3. CASE w # t
        BY <3>1, <4>1, <4>3
      <4> QED
        BY <4>2, <4>3
    <3> QED
      BY <1>1, <1>2, <3>2, <3>3 DEF TaskInv
  <2>2. CASE ~(t.ts >= next_update_time)
    <3>1. next_update_time <= Start + Due
      BY DEF ClockInv, DueInv
    <3>2. t.born <= Due
      BY <2>2, <3>1
    <3>3. tasks' = tasks \ {t}
      BY <1>1, <2>2
    <3> HIDE DEF Due
    <3> QED
      BY <1>1, <1>2, <3>2, <3>3, FewerTasks
  <2> QED
    BY <2>1, <2>2
<1>8. CurrentInv'
  BY <1>1, <1>2 DEF ClockInv, CurrentInv
<1>9. SegInv'
  BY <1>1, <1>2 DEF ClockInv, SegInv, SentInv, Lates, Late
<1> QED
  BY <1>5, <1>6, <1>7, <1>8, <1>9 DEF ClockInv

\* update, also when a send of its flush fails.
LEMMA UpdateInv ==
  ASSUME NoWrap, ClockInv, NEW t \in tasks, NEW ok \in BOOLEAN, Update(t, ok)
  PROVE  ClockInv'
<1> USE ClockNumbers, StateNumbers
<1>1. /\ tasks' = tasks \ {t} /\ current' = t.ts /\ updated' = TRUE
      /\ failures' = (IF ok THEN failures ELSE failures + 1)
      /\ failures' <= MaxFailures /\ ahead' = 0
      /\ now' = now /\ round' = round /\ interval' = interval
  BY DEF Update
<1>2. /\ t.born \in Nat /\ t.born <= now /\ t.ts = Start + t.born
      /\ t.ts \in 0..(M - 1) /\ now <= t.born + MaxDelay
  OBVIOUS
<1>3. /\ Due' \in Nat /\ ts_flush' = Start + Due'
      /\ ts_flush' \in 0..(M - 1)
      /\ Due <= Due' /\ t.born <= Due'
      /\ next_update_time' \in 0..(M - 1)
      /\ next_update_time' <= Start + Due'
      /\ \/ /\ flushed' = now /\ Due' <= t.born + interval
            /\ seg' = Flushed(t.ts) \/ (~ok /\ seg' = seg)
         \/ /\ flushed' = flushed /\ seg' = seg /\ ok
            /\ updated /\ Due' = Due
  BY UpdateNumbers
<1>4. now <= Due + Period + MaxDelay
  BY FlushDue
<1>5. Due <= flushed + interval \/ (Due <= Step /\ MaxAhead # 0)
  BY DEF ClockInv, DueInv
<1> HIDE DEF Due
<1>6. seg'.state \in {"none", "queued", "sent"}
  <2>1. seg.state \in {"none", "queued", "sent"}
    BY DEF ClockInv, TypeOK
  <2>2. t.ts <= Start + now + Steps(MaxAhead) /\ Start <= t.ts
    BY <1>2
  <2>3. Flushed(t.ts).state \in {"none", "queued", "sent"}
    BY <1>2, <2>1, <2>2, FlushedCases DEF SentAt
  <2> QED
    BY <1>3, <2>1, <2>3
<1>7. TypeOK'
  <2>1. tasks' \subseteq
          [ts : 0..(M - 1), born : 0..now, pc : {"check", "lock"}]
    BY <1>1 DEF ClockInv, TypeOK
  <2>2. failures' \in 0..MaxFailures
    BY <1>1
  <2>3. flushed' \in 0..now /\ current' \in 0..(M - 1) /\ ahead' \in 0..MaxAhead
        /\ updated' \in BOOLEAN
    BY <1>1, <1>2, <1>3
  <2> QED
    BY <1>1, <1>3, <1>6, <2>1, <2>2, <2>3 DEF ClockInv, TypeOK
<1>8. DueInv'
  <2>1. Due' <= flushed' + interval \/ (Due' <= Step /\ MaxAhead # 0)
    BY <1>2, <1>3, <1>5
  <2> QED
    BY <1>1, <1>3, <2>1 DEF DueInv
<1>9. TaskInv'
  BY <1>1, <1>3, FewerTasks
<1>10. CurrentInv'
  <2>1. 0 \in 0..MaxAhead
    OBVIOUS
  <2>2. Steps(0) = 0
    BY <2>1, StepsAdd
  <2>3. Due' <= t.born + Step + interval + MaxDelay
    BY <1>2, <1>3, <1>5
  <2> QED
    BY <1>1, <1>2, <2>2, <2>3 DEF CurrentInv
<1>11. SegInv'
  <2>1. CASE flushed' = now /\ Due' <= t.born + interval /\ seg' = Flushed(t.ts)
    <3>1. failures' \in {failures, failures + 1}
      BY <1>1
    <3>2. t.ts <= Start + now + Steps(MaxAhead) /\ Start <= t.ts
          /\ now <= (t.ts - Start) + interval + Period + MaxDelay + MaxDelay
          /\ Due' <= now + interval + Steps(MaxAhead)
          /\ Due' <= (t.ts - Start) + interval
      BY <1>2, <1>3, <2>1
    <3> QED
      BY <1>1, <1>2, <1>3, <2>1, <3>1, <3>2, FlushedSeg
  <2>2. CASE flushed' = now /\ Due' <= t.born + interval /\ ~ok /\ seg' = seg
    <3> DEFINE l == Lates(failures)
               late == Late
    <3>1. /\ Late' = late /\ Lates(failures)' = l + late
          /\ l \in Nat /\ late \in Nat
          /\ late = interval + Period + MaxDelay + Steps(MaxAhead)
      <4>1. Late' = Late
        BY <1>1 DEF Late
      <4>2. Lates(failures)' = Lates(failures + 1)
        BY <1>1, <2>2, <4>1 DEF Lates
      <4> QED
        BY <4>1, <4>2, LatesAdd
    <3> HIDE DEF l, late
    <3>2. /\ seg.since \in 0..now /\ seg.resendts \in 0..(M - 1)
          /\ seg.rto \in Nat
      BY DEF ClockInv, SegInv
    <3>3. seg.state = "queued" => now + late <= seg.since + (l + late)
      <4>1. seg.state = "queued" => flushed + late <= seg.since + l
        BY DEF ClockInv, SegInv, l, late
      <4>2. now <= flushed + late
        <5>1. 0 \in 0..MaxAhead /\ (MaxAhead # 0 => Step <= Steps(MaxAhead))
          BY StepsAdd
        <5> QED
          BY <1>3, <1>4, <1>5, <3>1, <5>1
      <4> QED
        BY <3>1, <3>2, <4>1, <4>2
    <3>4. seg.state = "sent" => SentInv'
      <4> SUFFICES ASSUME seg.state = "sent"
                   PROVE  SentInv'
        OBVIOUS
      <4>1. /\ seg.rto <= rx_rto + now + Steps(MaxAhead)
            /\ seg.rto <= seg.resendts - Start
            /\ seg.resendts - Start
                 <= seg.since + seg.rto + rtomin + Steps(MaxAhead)
            /\ seg.since + seg.rto <= (seg.resendts - Start) + interval
                                       + Period + MaxDelay + MaxDelay
            /\ Due + Period + MaxDelay <= seg.since + seg.rto + rtomin + l
        BY DEF ClockInv, SegInv, SentInv, l
      <4>2. Due' + Period + MaxDelay
              <= seg.since + seg.rto + rtomin + (l + late)
        BY <1>2, <1>3, <1>4, <2>2, <3>1, <3>2, <4>1
      <4> QED
        BY <1>1, <2>2, <3>1, <4>1, <4>2 DEF SentInv
    <3> QED
      BY <1>1, <2>2, <3>1, <3>2, <3>3, <3>4 DEF SegInv
  <2>3. CASE flushed' = flushed /\ seg' = seg /\ ok /\ Due' = Due
    <3>1. failures' = failures
      BY <1>1, <2>3
    <3>2. SentInv => SentInv'
      BY <1>1, <2>3, <3>1 DEF SentInv, Lates, Late
    <3> QED
      BY <1>1, <2>3, <3>1, <3>2 DEF ClockInv, SegInv, Lates, Late
  <2> QED
    BY <1>3, <2>1, <2>2, <2>3
<1> QED
  BY <1>7, <1>8, <1>9, <1>10, <1>11 DEF ClockInv

\* The application sends.
LEMMA SendInv ==
  ASSUME NoWrap, ClockInv, Send
  PROVE  ClockInv'
<1> USE ClockNumbers, StateNumbers
<1>1. /\ seg.state = "none"
      /\ seg' = [state |-> "queued", since |-> now, resendts |-> 0, rto |-> 0]
      /\ UNCHANGED <<now, round, tasks, next_update_time, interval, current,
                     ts_flush, updated, flushed, ahead, failures>>
  BY DEF Send, NoSegment
<1>2. Due' = Due
  BY <1>1 DEF Due
<1>3. TypeOK'
  BY <1>1 DEF ClockInv, TypeOK
<1>4. DueInv'
  BY <1>1, <1>2 DEF ClockInv, DueInv
<1>5. TaskInv'
  BY <1>1, <1>2 DEF ClockInv, TaskInv
<1>6. CurrentInv'
  BY <1>1, <1>2 DEF ClockInv, CurrentInv
<1>7. SegInv'
  <2>1. Lates(failures)' = Lates(failures) /\ Late' = Late
    BY <1>1 DEF Lates, Late
  <2>2. flushed + Late <= now + Lates(failures)
    BY LatesAdd
  <2> QED
    BY <1>1, <2>1, <2>2 DEF SegInv
<1> QED
  BY <1>3, <1>4, <1>5, <1>6, <1>7 DEF ClockInv

\* A datagram arrives.
LEMMA InputInv ==
  ASSUME NoWrap, ClockInv, Input
  PROVE  ClockInv'
<1> USE ClockNumbers, StateNumbers
<1>1. /\ next_update_time' = 0
      /\ \/ seg' = seg
         \/ seg' = [state |-> "none", since |-> 0, resendts |-> 0, rto |-> 0]
      /\ UNCHANGED <<now, round, tasks, interval, current, ts_flush, updated,
                     flushed, ahead, failures>>
  BY DEF Input, NoSegment
<1>2. Due' = Due
  BY <1>1 DEF Due
<1>3. TypeOK'
  BY <1>1 DEF ClockInv, TypeOK
<1>4. DueInv'
  BY <1>1, <1>2 DEF ClockInv, DueInv
<1>5. TaskInv'
  BY <1>1, <1>2 DEF ClockInv, TaskInv
<1>6. CurrentInv'
  BY <1>1, <1>2 DEF ClockInv, CurrentInv
<1>7. SegInv'
  BY <1>1, <1>2 DEF ClockInv, SegInv, SentInv, Lates, Late
<1> QED
  BY <1>3, <1>4, <1>5, <1>6, <1>7 DEF ClockInv

\* The time of the segments in a flush_async, and how far it is from the clock.
LEMMA FlushAsyncTime ==
  ASSUME NoWrap, ClockInv, FlushAsync
  PROVE  /\ current' = current + Step /\ current' \in 0..(M - 1)
         /\ Start <= current' /\ current' <= Start + now + Steps(ahead + 1)
         /\ Steps(ahead + 1) <= Steps(MaxAhead)
         /\ Step <= Steps(MaxAhead)
         /\ now <= (current' - Start) + interval + Period + MaxDelay + MaxDelay
<1> USE ClockNumbers, StateNumbers
<1>1. /\ Start <= current /\ current <= Start + now + Steps(ahead)
      /\ updated => Due <= (current - Start) + Step + interval + MaxDelay
  BY DEF ClockInv, CurrentInv
<1>2. /\ Steps(ahead + 1) = Steps(ahead) + Step /\ Steps(ahead) \in Nat
      /\ Steps(ahead + 1) <= Steps(MaxAhead) /\ Step <= Steps(MaxAhead)
  <2>1. ahead < MaxAhead /\ ahead + 1 \in 0..MaxAhead
    BY DEF FlushAsync
  <2> QED
    BY <2>1, StepsAdd
<1>3. current + Step \in Nat /\ current + Step < M
  BY <1>1, <1>2
<1>4. current' = current + Step
  BY <1>3, NoMod DEF FlushAsync
<1>5. now <= Due + Period + MaxDelay
  BY FlushDue
<1>6. ~updated => Due = 0
  BY DEF Due
<1> HIDE DEF Due
<1> QED
  BY <1>1, <1>2, <1>3, <1>4, <1>5, <1>6

\* The application flushes.
LEMMA FlushAsyncInv ==
  ASSUME NoWrap, ClockInv, FlushAsync
  PROVE  ClockInv'
<1> USE ClockNumbers, StateNumbers
<1>1. /\ ahead < MaxAhead /\ ahead' = ahead + 1 /\ updated' = TRUE
      /\ ts_flush' = (IF updated THEN ts_flush ELSE current')
      /\ seg' = seg \/ seg' = Flushed(current')
      /\ now' = now /\ round' = round /\ tasks' = tasks
      /\ next_update_time' = next_update_time /\ interval' = interval
      /\ flushed' = flushed /\ failures' = failures
  BY DEF FlushAsync
<1>2. /\ current' = current + Step /\ current' \in 0..(M - 1)
      /\ Start <= current' /\ current' <= Start + now + Steps(ahead + 1)
      /\ Steps(ahead + 1) <= Steps(MaxAhead) /\ Step <= Steps(MaxAhead)
      /\ now <= (current' - Start) + interval + Period + MaxDelay + MaxDelay
  BY FlushAsyncTime
<1>3. ~updated => current = Start /\ seg.state # "sent"
  BY DEF ClockInv, DueInv
<1>4. /\ Due' \in Nat /\ Due <= Due'
      /\ (Due' = Due /\ updated) \/ (Due' = Step /\ ~updated)
  BY <1>1, <1>2, <1>3 DEF Due
<1>5. Due <= flushed + interval \/ (Due <= Step /\ MaxAhead # 0)
  BY DEF ClockInv, DueInv
<1>6. /\ next_update_time <= Start + Due
      /\ updated => Due <= (current - Start) + Step + interval + MaxDelay
  BY DEF ClockInv, DueInv, CurrentInv
<1>7. ts_flush' \in 0..(M - 1)
  BY <1>1, <1>2
<1> HIDE DEF Due
<1> DEFINE c == current'
<1>8. SegInv'
  <2>1. seg.state = "sent" => Due' = Due
    BY <1>3, <1>4
  <2>2. CASE seg' = seg
    <3>1. SegInv /\ Late' = Late
      BY <1>1 DEF ClockInv, Late
    <3>2. Lates(failures)' = Lates(failures)
      BY <1>1, <3>1 DEF Lates
    <3>3. SentInv /\ seg.state = "sent" => SentInv'
      BY <1>1, <2>1, <2>2, <3>2 DEF SentInv
    <3> QED
      BY <1>1, <2>2, <3>1, <3>2, <3>3 DEF SegInv
  <2>3. CASE seg' = Flushed(c)
    <3>1. /\ c \in 0..(M - 1) /\ Start <= c /\ c <= Start + now + Steps(MaxAhead)
          /\ now <= (c - Start) + interval + Period + MaxDelay + MaxDelay
      BY <1>1, <1>2, StepsAdd
    <3>2. Due' <= now + interval + Steps(MaxAhead)
      BY <1>2, <1>4
    <3> HIDE DEF c
    <3> QED
      BY <1>1, <1>4, <2>1, <2>3, <3>1, <3>2, FlushedSeg
  <2> QED
    BY <1>1, <2>2, <2>3
<1>9. TypeOK'
  <2>1. seg'.state \in {"none", "queued", "sent"}
    <3>1. seg.state \in {"none", "queued", "sent"}
      BY DEF ClockInv, TypeOK
    <3>2. c \in 0..(M - 1) /\ Start <= c /\ c <= Start + now + Steps(MaxAhead)
      BY <1>1, <1>2, StepsAdd
    <3>3. seg' = seg \/ seg' = Flushed(c)
      BY <1>1
    <3> HIDE DEF c
    <3> QED
      BY <3>1, <3>2, <3>3, FlushedCases DEF SentAt
  <2>2. ahead' \in 0..MaxAhead /\ updated' \in BOOLEAN
    BY <1>1
  <2> QED
    BY <1>1, <1>2, <1>7, <2>1, <2>2 DEF ClockInv, TypeOK
<1>10. DueInv'
  <2>1. Due' <= flushed + interval \/ (Due' <= Step /\ MaxAhead # 0)
    BY <1>1, <1>4, <1>5
  <2>2. next_update_time <= Start + Due'
    BY <1>4, <1>6
  <2> QED
    BY <1>1, <1>4, <2>1, <2>2 DEF DueInv
<1>11. TaskInv'
  <2>1. \A w \in tasks : /\ w.ts = Start + w.born
                         /\ w.born <= now /\ now <= w.born + MaxDelay
    OBVIOUS
  <2>2. ASSUME NEW x \in Nat, Due' < x, x + Period <= round
        PROVE  \E w \in tasks : x <= w.born /\ w.born < x + Period
    <3>1. Due < x
      BY <1>4, <2>2
    <3> QED
      BY <2>2, <3>1 DEF ClockInv, TaskInv
  <2> QED
    BY <1>1, <2>1, <2>2 DEF TaskInv
<1>12. CurrentInv'
  <2>1. Due' <= (current' - Start) + Step + interval + MaxDelay
    BY <1>2, <1>3, <1>4, <1>6
  <2> QED
    BY <1>1, <1>2, <2>1 DEF CurrentInv
<1> QED
  BY <1>8, <1>9, <1>10, <1>11, <1>12 DEF ClockInv

\* Every step keeps the invariant.
LEMMA ClockInvNext ==
  ASSUME NoWrap, ClockInv, [Next]_vars
  PROVE  ClockInv'
<1>1. CASE Tick
  BY <1>1, TickInv
<1>2. CASE Round
  BY <1>2, RoundInv
<1>3. ASSUME NEW t \in tasks, UpdateCheck(t)
      PROVE  ClockInv'
  BY <1>3, UpdateCheckInv
<1>4. ASSUME NEW t \in tasks, NEW ok \in BOOLEAN, Update(t, ok)
      PROVE  ClockInv'
  BY <1>4, UpdateInv
<1>5. CASE Send
  BY <1>5, SendInv
<1>6. CASE Input
  BY <1>6, InputInv
<1>7. CASE FlushAsync
  BY <1>7, FlushAsyncInv
<1>8. CASE UNCHANGED vars
  <2>1. UNCHANGED <<now, round, tasks, next_update_time, interval, current,
                    ts_flush, updated, seg, flushed, ahead, failures>>
    BY <1>8 DEF vars, kcpVars
  <2>2. Due' = Due
    BY <2>1 DEF Due
  <2> QED
    BY <2>1, <2>2 DEF ClockInv, TypeOK, DueInv, TaskInv, CurrentInv, SegInv,
                      SentInv, Lates, Late
<1> QED
  BY <1>1, <1>2, <1>3, <1>4, <1>5, <1>6, <1>7, <1>8 DEF Next

\* ClockInv is an invariant.
LEMMA ClockInvAlways ==
  ASSUME NoWrap
  PROVE  Spec => []ClockInv
<1>1. Init => ClockInv
  BY ClockInvInit
<1>2. ClockInv /\ [Next]_vars => ClockInv'
  BY ClockInvNext
<1> QED
  BY <1>1, <1>2, PTL DEF Spec

-----------------------------------------------------------------------------
(* The theorems.                                                           *)

\* Every variable of update, of its loop and of its tasks keeps its type.
THEOREM ClockTypes ==
  ASSUME NoWrap
  PROVE  Spec => []TypeOK
<1>1. ClockInv => TypeOK
  BY DEF ClockInv
<1> QED
  BY <1>1, ClockInvAlways, PTL

\* A state of the invariant is flushed in time.
LEMMA InTime ==
  ASSUME NoWrap, ClockInv
  PROVE  FlushedInTime
<1>1. now <= Due + Period + MaxDelay
  BY FlushDue
<1>2. Due <= flushed + interval \/ (Due <= Step /\ MaxAhead # 0)
  BY DEF ClockInv, DueInv
<1>3. 0 \in 0..MaxAhead
  BY ClockNumbers
<1>4. MaxAhead # 0 => Step <= Steps(MaxAhead)
  BY <1>3, StepsAdd
<1>5. Late = interval + Period + MaxDelay + Steps(MaxAhead)
  BY DEF Late, Steps
<1> QED
  BY <1>1, <1>2, <1>4, <1>5, StateNumbers, ClockNumbers DEF FlushedInTime

\* update (kcp.rs) flushes every interval, late by no more than the sleep of
\* the loop, the delay of its tasks and the steps of flush_async: whatever the
\* order in which update tasks lock the mutex, and whether flushes fail.
THEOREM FlushedInTimeAlways ==
  ASSUME NoWrap
  PROVE  Spec => []FlushedInTime
<1>1. ClockInv => FlushedInTime
  BY InTime
<1> QED
  BY <1>1, ClockInvAlways, PTL

\* What the application sends leaves with the next flush that does not fail,
\* and is sent again when its timeout is over and nobody acknowledged it.
THEOREM ResentInTimeAlways ==
  ASSUME NoWrap
  PROVE  Spec => []ResentInTime
<1>1. ASSUME ClockInv
      PROVE  ResentInTime
  <2> USE <1>1
  <2>1. seg.state = "queued" => now <= seg.since + (1 + failures) * Late
    <3>1. now <= flushed + Late
      BY InTime DEF FlushedInTime
    <3>2. seg.state = "queued" =>
            flushed + Late <= seg.since + (1 + failures) * Late
      BY DEF ClockInv, SegInv, Lates
    <3>3. (1 + failures) * Late \in Nat /\ Late \in Nat
      BY StateNumbers, LatesAdd DEF Lates
    <3> DEFINE l == (1 + failures) * Late
               late == Late
    <3>4. seg.since \in Nat
      BY StateNumbers DEF ClockInv, SegInv
    <3> HIDE DEF l, late
    <3>5. /\ now <= flushed + late /\ l \in Nat /\ late \in Nat
          /\ seg.state = "queued" => flushed + late <= seg.since + l
      BY <3>1, <3>2, <3>3 DEF l, late
    <3>6. seg.state = "queued" => now <= seg.since + l
      BY <3>4, <3>5, StateNumbers
    <3> QED
      BY <3>6 DEF l
  <2>2. seg.state = "sent" =>
          now <= seg.since + seg.rto + rtomin + (1 + failures) * Late
    <3>1. now <= Due + Period + MaxDelay
      BY FlushDue
    <3>2. seg.state = "sent" =>
            Due + Period + MaxDelay
              <= seg.since + seg.rto + rtomin + (1 + failures) * Late
      BY DEF ClockInv, SegInv, SentInv, Lates
    <3>3. (1 + failures) * Late \in Nat
      BY StateNumbers, LatesAdd DEF Lates
    <3> DEFINE l == (1 + failures) * Late
    <3>4. seg.since \in Nat /\ seg.rto \in Nat
      BY StateNumbers DEF ClockInv, SegInv
    <3> HIDE DEF l, Due
    <3>5. /\ l \in Nat
          /\ seg.state = "sent" =>
               Due + Period + MaxDelay <= seg.since + seg.rto + rtomin + l
      BY <3>2, <3>3 DEF l
    <3>6. seg.state = "sent" => now <= seg.since + seg.rto + rtomin + l
      BY <3>1, <3>4, <3>5, StateNumbers, ClockNumbers
    <3> QED
      BY <3>6 DEF l
  <2> QED
    BY <2>1, <2>2 DEF ResentInTime
<1> QED
  BY <1>1, ClockInvAlways, PTL

\* Nothing is sent again before its timeout, but for the lag of current.
THEOREM NotResentEarlyAlways ==
  ASSUME NoWrap
  PROVE  Spec => NotResentEarly
<1> DEFINE Resent == seg.state = "sent" /\ seg'.state = "sent"
                       /\ seg'.rto # seg.rto
           InBound == now >= seg.since + seg.rto - (Late + MaxDelay)
<1>1. ASSUME ClockInv, [Next]_vars, Resent
      PROVE  InBound
  <2> USE <1>1
  <2>1. /\ seg.since \in 0..now /\ seg.resendts \in 0..(M - 1)
        /\ seg.rto \in Nat
        /\ seg.since + seg.rto <= (seg.resendts - Start) + interval + Period
                                    + MaxDelay + MaxDelay
    BY DEF ClockInv, SegInv, SentInv
  <2>2. seg.resendts - Start <= now + Steps(MaxAhead)
    <3>1. ASSUME NEW c \in 0..(M - 1), Start <= c,
                 c <= Start + now + Steps(MaxAhead), seg' = Flushed(c)
          PROVE  seg.resendts - Start <= now + Steps(MaxAhead)
      <4>1. seg.resendts <= c
        BY <3>1, FlushedCases
      <4> QED
        BY <2>1, <3>1, <4>1, StateNumbers, ClockNumbers
    <3>2. CASE Tick \/ Round \/ Send \/ Input \/ UNCHANGED vars
      BY <3>2 DEF Tick, Round, Send, Input, NoSegment, vars, kcpVars
    <3>3. ASSUME NEW t \in tasks, UpdateCheck(t)
          PROVE  FALSE
      BY <3>3 DEF UpdateCheck, kcpVars
    <3>4. ASSUME NEW t \in tasks, NEW ok \in BOOLEAN, Update(t, ok)
          PROVE  seg.resendts - Start <= now + Steps(MaxAhead)
      <4>1. seg' = Flushed(t.ts)
        BY <3>4 DEF Update
      <4>2. t.ts \in 0..(M - 1) /\ Start <= t.ts
            /\ t.ts <= Start + now + Steps(MaxAhead)
        BY StateNumbers, ClockNumbers
      <4> QED
        BY <3>1, <4>1, <4>2
    <3>5. CASE FlushAsync
      <4> DEFINE c == current'
      <4>1. /\ c \in 0..(M - 1) /\ Start <= c
            /\ c <= Start + now + Steps(MaxAhead)
        <5>1. /\ c \in 0..(M - 1) /\ Start <= c
              /\ c <= Start + now + Steps(ahead + 1)
              /\ Steps(ahead + 1) <= Steps(MaxAhead)
          BY <3>5, FlushAsyncTime
        <5>2. ahead + 1 \in 0..MaxAhead
          BY <3>5, StateNumbers, ClockNumbers DEF FlushAsync
        <5>3. Steps(ahead + 1) \in Nat
          BY <5>2, StepsAdd
        <5> QED
          BY <3>5, <5>1, <5>3, StateNumbers, ClockNumbers DEF FlushAsync
      <4>2. seg' = Flushed(c)
        BY <3>5 DEF FlushAsync
      <4> HIDE DEF c
      <4> QED
        BY <3>1, <4>1, <4>2
    <3> QED
      BY <3>2, <3>3, <3>4, <3>5 DEF Next
  <2>3. Late = interval + Period + MaxDelay + Steps(MaxAhead)
    BY DEF Late, Steps
  <2> QED
    BY <2>1, <2>2, <2>3, StateNumbers, ClockNumbers
<1>2. ClockInv /\ [Next]_vars => [Resent => InBound]_vars
  BY <1>1
<1> QED
  BY <1>2, ClockInvAlways, PTL DEF Spec, NotResentEarly
=============================================================================
