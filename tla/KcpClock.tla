------------------------------- MODULE KcpClock -------------------------------
(***************************************************************************)
(* When a KcpPeer is flushed: the update loop of kcp_listener.rs, which    *)
(* compares a timestamp with next_update_time and spawns update tasks; the *)
(* tasks, which lock the mutex in any order; update, check and flush_async *)
(* of kcp.rs; and the resend timer of one segment.  Clocks are u32 in the  *)
(* code and numbers below M here.                                          *)
(***************************************************************************)
EXTENDS Integers

CONSTANTS
  M,            \* the number of values of a u32
  Start,        \* the timestamp at which the peer is created
  Intervals,    \* the flush intervals that can be configured
  Period,       \* the sleep of the update loop, 5 ms
  Step,         \* what flush_async adds to current, 10 ms
  SlapMax,      \* 10000 ms
  rx_rto,       \* the resend timeout
  MaxDelay,     \* bound: how late a spawned task runs
  MaxAhead,     \* bound: calls of flush_async between two updates
  MaxFailures,  \* bound: updates whose flush fails
  MaxTime       \* bound: the time a behaviour lasts

ASSUME ClockAssumption ==
  /\ M \in Nat /\ Start \in 0..M - 1 /\ MaxTime < M
  /\ Intervals \subseteq Nat
  /\ {Step, SlapMax, rx_rto, MaxDelay, MaxAhead, MaxFailures, MaxTime}
       \subseteq Nat
  /\ Period \in Nat \ {0}

VARIABLES
  now,               \* the time since the peer was created
  round,             \* when the update loop wakes up
  tasks,             \* update tasks: their timestamp, where they are
  next_update_time,
  interval,
  current,
  ts_flush,
  updated,
  seg,               \* the segment: "none", "queued" or "sent" since a time
  flushed,           \* when update called flush last
  ahead,             \* calls of flush_async since the last update
  failures           \* updates whose flush failed

kcpVars == <<current, ts_flush, updated, seg>>
vars == <<now, round, tasks, next_update_time, interval, kcpVars, flushed,
          ahead, failures>>

\* SystemTime in milliseconds, truncated to u32.
timestamp == (Start + now) % M

\* The difference of two u32 as i32, which wraps in a release build.
timediff(later, earlier) ==
  LET d == (later - earlier) % M IN IF 2 * d < M THEN d ELSE d - M

rtomin == rx_rto \div 8

Smaller(a, b) == IF a < b THEN a ELSE b

NoSegment == [state |-> "none", since |-> 0, resendts |-> 0, rto |-> 0]

\* ts_flush is 100 in Kcp::construct; TsFlush sets it before it is read.
Init ==
  /\ now = 0
  /\ round = 0
  /\ tasks = {}
  /\ next_update_time = 0
  /\ interval \in Intervals
  /\ current = Start
  /\ ts_flush = interval
  /\ updated = FALSE
  /\ seg = NoSegment
  /\ flushed = 0
  /\ ahead = 0
  /\ failures = 0

-----------------------------------------------------------------------------
(* Kcp::flush, Kcp::check and Kcp::update.                                 *)

\* Faults: a timeout is not looked at; the first timeout starts when the
\* segment is numbered.
Flushed_Once(c) ==
  IF seg.state # "queued" THEN seg
  ELSE [state |-> "sent", since |-> now, rto |-> rx_rto,
        resendts |-> (c + rx_rto + rtomin) % M]

Flushed_Early(c) ==
  CASE seg.state = "queued" ->
         [state |-> "sent", since |-> now, rto |-> rx_rto, resendts |-> c]
    [] seg.state = "sent" /\ timediff(c, seg.resendts) >= 0 ->
         [state |-> "sent", since |-> now, rto |-> seg.rto + rx_rto,
          resendts |-> (c + seg.rto + rx_rto) % M]
    [] OTHER -> seg

\* The segment after a flush at time c: sent, sent again, or left alone.
Flushed(c) ==
  CASE seg.state = "queued" ->
         [state |-> "sent", since |-> now, rto |-> rx_rto,
          resendts |-> (c + rx_rto + rtomin) % M]
    [] seg.state = "sent" /\ timediff(c, seg.resendts) >= 0 ->
         [state |-> "sent", since |-> now, rto |-> seg.rto + rx_rto,
          resendts |-> (c + seg.rto + rx_rto) % M]
    [] OTHER -> seg

\* Fault: only the timer of the segment is looked at.
check_PacketOnly(c, flush_at, s) ==
  IF s.state # "sent" THEN M \div 4
  ELSE IF timediff(s.resendts, c) <= 0 THEN 0 ELSE timediff(s.resendts, c)

\* How long from c until the next update.
check(c, flush_at, s) ==
  LET slap == timediff(c, flush_at)
      far  == slap >= SlapMax \/ slap < -SlapMax
      next == Smaller(-slap, interval)
  IN  IF far \/ slap >= 0 THEN 0
      ELSE IF s.state # "sent" THEN next
      ELSE IF timediff(s.resendts, c) <= 0 THEN 0
      ELSE Smaller(timediff(s.resendts, c), next)

\* ts_flush when update looks at it: set by the first one, and set again when
\* the clock has gone far away from it.
TsFlush(c) ==
  LET slap == timediff(c, ts_flush)
  IN  IF ~updated \/ slap >= SlapMax \/ slap < -SlapMax THEN c ELSE ts_flush

\* The next value of ts_flush, one interval on and not in the past.
NextFlush(c) ==
  LET t == (TsFlush(c) + interval) % M
  IN  IF timediff(c, t) >= 0 THEN (c + interval) % M ELSE t

-----------------------------------------------------------------------------
(* The update loop and its tasks.                                          *)

\* Time goes on unless the loop or a task must run first.
Tick ==
  /\ now < MaxTime /\ now < round
  /\ \A t \in tasks : now < t.born + MaxDelay
  /\ now' = now + 1
  /\ UNCHANGED <<round, tasks, next_update_time, interval, kcpVars, flushed,
                 ahead, failures>>

\* Fault: the loop sleeps twice.
Round_Late ==
  /\ round = now
  /\ round' = now + 2 * Period
  /\ tasks' = IF next_update_time < timestamp
              THEN tasks \cup {[ts |-> timestamp, born |-> now, pc |-> "check"]}
              ELSE tasks
  /\ UNCHANGED <<now, next_update_time, interval, kcpVars, flushed, ahead,
                 failures>>

\* The loop takes the time, and spawns a task when need_update says so.
Round ==
  /\ round = now
  /\ round' = now + Period
  /\ tasks' = IF next_update_time < timestamp
              THEN tasks \cup {[ts |-> timestamp, born |-> now, pc |-> "check"]}
              ELSE tasks
  /\ UNCHANGED <<now, next_update_time, interval, kcpVars, flushed, ahead,
                 failures>>

\* KcpPeer::update compares again before it asks for the mutex.
UpdateCheck(t) ==
  /\ t.pc = "check"
  /\ tasks' = (tasks \ {t}) \cup
              IF t.ts >= next_update_time THEN {[t EXCEPT !.pc = "lock"]} ELSE {}
  /\ UNCHANGED <<now, round, next_update_time, interval, kcpVars, flushed,
                 ahead, failures>>

\* The rest of it, under the mutex.  When a send fails the segment may or may
\* not have been reached, and next_update_time is not stored.
Update(t, ok) ==
  /\ t.pc = "lock"
  /\ tasks' = tasks \ {t}
  /\ current' = t.ts
  /\ updated' = TRUE
  /\ IF timediff(t.ts, TsFlush(t.ts)) >= 0
     THEN /\ ts_flush' = NextFlush(t.ts)
          /\ seg' \in {Flushed(t.ts)} \cup IF ok THEN {} ELSE {seg}
          /\ flushed' = now
     ELSE /\ ts_flush' = TsFlush(t.ts)
          /\ ok
          /\ UNCHANGED <<seg, flushed>>
  /\ failures' = IF ok THEN failures ELSE failures + 1
  /\ failures' <= MaxFailures
  /\ next_update_time' = IF ok THEN (check(t.ts, ts_flush', seg') + t.ts) % M
                         ELSE next_update_time
  /\ ahead' = 0
  /\ UNCHANGED <<now, round, interval>>

-----------------------------------------------------------------------------
(* The other tasks.                                                        *)

\* Kcp::send of the application.
Send ==
  /\ seg.state = "none"
  /\ seg' = [NoSegment EXCEPT !.state = "queued", !.since = now]
  /\ UNCHANGED <<now, round, tasks, next_update_time, interval, current,
                 ts_flush, updated, flushed, ahead, failures>>

\* KcpPeer::input, perhaps of the acknowledgement.
Input ==
  /\ next_update_time' = 0
  /\ seg' \in {seg} \cup IF seg.state = "sent" THEN {NoSegment} ELSE {}
  /\ UNCHANGED <<now, round, tasks, interval, current, ts_flush, updated,
                 flushed, ahead, failures>>

\* KcpPeer::flush of the application; a failing send may leave the segment.
FlushAsync ==
  /\ ahead < MaxAhead
  /\ ahead' = ahead + 1
  /\ current' = (current + Step) % M
  /\ updated' = TRUE
  /\ ts_flush' = IF updated THEN ts_flush ELSE current'
  /\ seg' \in {seg, Flushed(current')}
  /\ UNCHANGED <<now, round, tasks, next_update_time, interval, flushed,
                 failures>>

Next ==
  \/ Tick \/ Round
  \/ \E t \in tasks : UpdateCheck(t) \/ \E ok \in BOOLEAN : Update(t, ok)
  \/ Send \/ Input \/ FlushAsync

Spec == Init /\ [][Next]_vars

-----------------------------------------------------------------------------
(* Properties.                                                             *)

\* Every variable has its type.
TypeOK ==
  /\ now \in 0..MaxTime
  /\ round \in now..now + Period
  /\ tasks \subseteq [ts : 0..M - 1, born : 0..now, pc : {"check", "lock"}]
  /\ next_update_time \in 0..M - 1
  /\ interval \in Intervals
  /\ current \in 0..M - 1 /\ ts_flush \in 0..M - 1 /\ updated \in BOOLEAN
  /\ seg.state \in {"none", "queued", "sent"}
  /\ flushed \in 0..now /\ ahead \in 0..MaxAhead
  /\ failures \in 0..MaxFailures

\* How late the scheduling can make a flush: the loop sleeps, its tasks wait,
\* and flush_async has put current before the clock.
Late == interval + Period + MaxDelay + Step * MaxAhead

\* A peer is flushed by update every interval ("Update state every 10ms ~
\* 100ms", kcp.rs): whatever the order in which update tasks lock the mutex.
FlushedInTime == now <= flushed + Late

\* What the application sends leaves with the next of these flushes, and what
\* nobody acknowledges is sent again when its timeout is over.
ResentInTime ==
  /\ seg.state = "queued" => now <= seg.since + (1 + failures) * Late
  /\ seg.state = "sent" =>
       now <= seg.since + seg.rto + rtomin + (1 + failures) * Late

\* A segment is not sent again before its timeout, but for the time by which
\* current is off the clock when a flush_async stamps or looks at it: behind
\* it since the last update, by the delay of an older task when this took the
\* mutex last, and ahead of it by its own steps.
NotResentEarly ==
  [][seg.state = "sent" /\ seg'.state = "sent" /\ seg'.rto # seg.rto =>
       now >= seg.since + seg.rto - (Late + MaxDelay)]_vars
=============================================================================
