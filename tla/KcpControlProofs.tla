--------------------------- MODULE KcpControlProofs ---------------------------
(***************************************************************************)
(* What holds of KcpControl for every configuration, window and round      *)
(* trip.  The inductive invariant joins those of the run, what the setters *)
(* keep of the configuration, and that a flush leaves cwnd at 1 or above.  *)
(***************************************************************************)
EXTENDS KcpControl, TLAPS

\* What the proofs need to know of the largest u16.
LEMMA U16MaxIs == U16Max \in Nat /\ U16Max >= 2000
  BY DEF U16Max

\* What the setters keep, whatever they are given: a segment has room for
\* data, and the send window is not 0.
Usable(k) == k \in Settings /\ k.mss >= 26 /\ k.snd_wnd >= 1

\* A flush that has succeeded leaves the congestion window open.
Opens == flushed => cwnd >= 1

\* The inductive invariant.
ControlInv ==
  TypeOK /\ Usable(kcp) /\ IncrMatchesCwnd /\ Opens /\ RtoCoversRtt

-----------------------------------------------------------------------------
(* The configuration.                                                      *)

\* construct gives usable settings.
LEMMA ConstructUsable == Usable(construct)
<1>1. /\ 1400 - KCP_OVERHEAD = 1376 /\ 1376 \in U16
      /\ 32 \in U16 /\ KCP_WND_RCV \in U16
  BY U16MaxIs DEF KCP_OVERHEAD, KCP_WND_RCV, U16
<1>2. construct \in Settings
  BY <1>1 DEF Settings, construct
<1>3. construct.mss = 1376 /\ construct.snd_wnd = 32
  BY <1>1 DEF construct
<1> QED  BY <1>2, <1>3 DEF Usable

\* Each setter keeps settings usable: set_mtu.
LEMMA MtuUsable ==
  ASSUME NEW k, Usable(k), NEW mtu \in U16, valid_mtu(mtu)
  PROVE  Usable(set_mtu(k, mtu))
<1>1. mtu - KCP_OVERHEAD \in U16 /\ mtu - KCP_OVERHEAD >= 26
  BY U16MaxIs DEF valid_mtu, KCP_OVERHEAD, U16
<1> QED  BY <1>1 DEF Usable, Settings, set_mtu

\* set_interval.
LEMMA IntervalUsable ==
  ASSUME NEW k, Usable(k), NEW interval \in Nat
  PROVE  Usable(set_interval(k, interval))
  BY DEF Usable, Settings, set_interval

\* set_nodelay.
LEMMA NodelayUsable ==
  ASSUME NEW k, Usable(k), NEW c \in NoDelayConfig
  PROVE  Usable(set_nodelay(k, c))
<1> DEFINE ms == IF c.interval >= 0 THEN bound(10, c.interval, 5000)
                 ELSE k.interval
           n  == IF c.resend >= 0 THEN c.resend ELSE k.fastresend
           m  == IF c.nodelay THEN 30 ELSE 100
<1>1. k \in Settings
  BY DEF Usable
<1>2. ms \in Nat
  BY <1>1 DEF Settings, NoDelayConfig, bound, min, max
<1>3. n \in Nat /\ m \in Nat /\ c.nc \in BOOLEAN
  BY <1>1 DEF Settings, NoDelayConfig
<1> DEFINE k1 == [k EXCEPT !.rx_minrto = m]
           k2 == [k1 EXCEPT !.interval = ms]
           k3 == [k2 EXCEPT !.fastresend = n]
           k4 == [k3 EXCEPT !.nocwnd = c.nc]
<1>4. set_nodelay(k, c) = k4
  BY DEF set_nodelay
<1> HIDE DEF ms, n, m
<1>5. Usable(k1)
  BY <1>3 DEF Usable, Settings
<1> HIDE DEF k1
<1>6. Usable(k2)
  BY <1>2, <1>5 DEF Usable, Settings
<1> HIDE DEF k2
<1>7. Usable(k3)
  BY <1>3, <1>6 DEF Usable, Settings
<1> HIDE DEF k3
<1>8. Usable(k4)
  BY <1>3, <1>7 DEF Usable, Settings
<1> QED  BY <1>4, <1>8

\* set_rx_minrto.
LEMMA MinRtoUsable ==
  ASSUME NEW k, Usable(k), NEW ms \in Nat
  PROVE  Usable(set_rx_minrto(k, ms))
  BY DEF Usable, Settings, set_rx_minrto

\* set_wndsize.
LEMMA WndUsable ==
  ASSUME NEW k, Usable(k), NEW wnd \in [snd : U16, rcv : U16]
  PROVE  Usable(set_wndsize(k, wnd))
<1> DEFINE snd == IF wnd.snd > 0 THEN wnd.snd ELSE k.snd_wnd
           rcv == IF wnd.rcv > 0 THEN max(wnd.rcv, KCP_WND_RCV) ELSE k.rcv_wnd
<1>1. k \in Settings /\ k.snd_wnd >= 1
  BY DEF Usable
<1>2. snd \in U16 /\ snd >= 1
  BY <1>1, U16MaxIs DEF Settings, U16
<1>3. rcv \in U16
  BY <1>1, U16MaxIs DEF Settings, U16, max, KCP_WND_RCV
<1>4. set_wndsize(k, wnd) = [k EXCEPT !.snd_wnd = snd, !.rcv_wnd = rcv]
  BY DEF set_wndsize
<1> HIDE DEF snd, rcv
<1> QED  BY <1>1, <1>2, <1>3, <1>4 DEF Usable, Settings

\* set_fast_resend.
LEMMA FastResendUsable ==
  ASSUME NEW k, Usable(k), NEW n \in Nat
  PROVE  Usable(set_fast_resend(k, n))
  BY DEF Usable, Settings, set_fast_resend

\* A configuration with a valid mtu gives usable settings.
LEMMA AppliedUsable ==
  ASSUME NEW c \in Config, c.mtu # None => valid_mtu(c.mtu)
  PROVE  Usable(apply_config(c))
<1> DEFINE k1 == IF c.mtu = None THEN construct ELSE set_mtu(construct, c.mtu)
           k2 == IF c.interval = None THEN k1 ELSE set_interval(k1, c.interval)
           k3 == IF c.nodelay = None THEN k2 ELSE set_nodelay(k2, c.nodelay)
           k4 == IF c.rx_minrto = None THEN k3
                 ELSE set_rx_minrto(k3, c.rx_minrto)
           k5 == IF c.wnd_size = None THEN k4 ELSE set_wndsize(k4, c.wnd_size)
           k6 == IF c.fast_resend = None THEN k5
                 ELSE set_fast_resend(k5, c.fast_resend)
<1>1. /\ c.mtu # None => c.mtu \in U16
      /\ c.interval # None => c.interval \in Nat
      /\ c.nodelay # None => c.nodelay \in NoDelayConfig
      /\ c.rx_minrto # None => c.rx_minrto \in Nat
      /\ c.wnd_size # None => c.wnd_size \in [snd : U16, rcv : U16]
      /\ c.fast_resend # None => c.fast_resend \in Nat
  BY DEF Config
<1>2. apply_config(c) = k6
  BY DEF apply_config
<1>3. Usable(k1)
  BY <1>1, ConstructUsable, MtuUsable
<1> HIDE DEF k1
<1>4. Usable(k2)
  BY <1>1, <1>3, IntervalUsable
<1> HIDE DEF k2
<1>5. Usable(k3)
  BY <1>1, <1>4, NodelayUsable
<1> HIDE DEF k3
<1>6. Usable(k4)
  BY <1>1, <1>5, MinRtoUsable
<1> HIDE DEF k4
<1>7. Usable(k5)
  BY <1>1, <1>6, WndUsable
<1> HIDE DEF k5
<1>8. Usable(k6)
  BY <1>1, <1>7, FastResendUsable
<1> QED  BY <1>2, <1>8

-----------------------------------------------------------------------------
(* input.                                                                  *)

\* The limits by what the proofs need of them.
LEMMA Limits ==
  /\ KCP_RTO_MAX \in Nat /\ KCP_THRESH_MIN \in Nat /\ KCP_THRESH_MIN = 2
  /\ KCP_THRESH_MIN <= U16Max
  BY U16MaxIs DEF KCP_RTO_MAX, KCP_THRESH_MIN

\* A measurement gives a timeout that covers it: four times the deviation make
\* up for what the mean lags behind.
LEMMA MeasureCovers ==
  ASSUME TypeOK, NEW r \in Nat
  PROVE  /\ update_ack(r) \in [srtt : Nat, rttval : Nat, rto : 0..KCP_RTO_MAX]
         /\ \/ update_ack(r).rto + 3 >= r
            \/ update_ack(r).rto = KCP_RTO_MAX
<1> DEFINE delta  == IF r > rto.srtt THEN r - rto.srtt ELSE rto.srtt - r
           rttval == IF rto.srtt = 0 THEN r \div 2
                     ELSE (3 * rto.rttval + delta) \div 4
           srtt   == IF rto.srtt = 0 THEN r
                     ELSE max(1, (7 * rto.srtt + r) \div 8)
           long   == srtt + max(kcp.interval, 4 * rttval)
           new    == bound(kcp.rx_minrto, long, KCP_RTO_MAX)
<1>1. /\ rto.srtt \in Nat /\ rto.rttval \in Nat
      /\ kcp.interval \in Nat /\ kcp.rx_minrto \in Nat
  BY DEF TypeOK, Settings
<1>2. rttval \in Nat /\ srtt \in Nat
  BY <1>1 DEF max
<1>3. srtt + 4 * rttval + 3 >= r
  <2>1. CASE rto.srtt = 0
    <3>1. srtt = r
      BY <2>1
    <3> QED  BY <1>2, <3>1
  <2>2. CASE rto.srtt # 0
    <3>1. /\ rttval = (3 * rto.rttval + delta) \div 4
          /\ srtt = max(1, (7 * rto.srtt + r) \div 8)
      BY <2>2
    <3>2. delta \in Nat /\ 4 * rttval + 3 >= delta
      BY <1>1, <3>1
    <3>3. srtt >= (7 * rto.srtt + r) \div 8
      BY <1>1, <3>1 DEF max
    <3>4. CASE r > rto.srtt
      <4>1. delta = r - rto.srtt /\ srtt >= rto.srtt
        BY <1>1, <1>2, <3>3, <3>4
      <4> QED  BY <1>1, <1>2, <3>2, <4>1
    <3>5. CASE ~(r > rto.srtt)
      <4>1. srtt >= r
        BY <1>1, <1>2, <3>3, <3>5
      <4> QED  BY <1>1, <1>2, <4>1
    <3> QED  BY <3>4, <3>5
  <2> QED  BY <2>1, <2>2
<1> HIDE DEF rttval, srtt
<1>4. long \in Nat /\ long + 3 >= r
  BY <1>1, <1>2, <1>3 DEF max
<1> HIDE DEF long
<1>5. new \in 0..KCP_RTO_MAX /\ (new + 3 >= r \/ new = KCP_RTO_MAX)
  BY <1>1, <1>4, Limits DEF bound, min, max
<1> HIDE DEF new
<1>6. update_ack(r) = [srtt |-> srtt, rttval |-> rttval, rto |-> new]
  BY DEF update_ack, new, long, rttval, srtt
<1> QED  BY <1>2, <1>5, <1>6

\* One segment more is mss bytes more.
LEMMA NextMultiple ==
  \A c, m \in Nat : c * m \in Nat /\ (c + 1) * m = c * m + m
  OBVIOUS

\* From a window of two segments on, congestion avoidance adds less than one.
LEMMA LessThanOne ==
  ASSUME NEW m \in Nat, NEW from \in Nat, m >= 1, 2 * m <= from
  PROVE  (m * m) \div from \in Nat /\ (m * m) \div from + m \div 16 < m
<1> DEFINE q == (m * m) \div from
<1>1. m * m \in Nat /\ from > 0
  OBVIOUS
<1>2. q \in Nat /\ q * from <= m * m
  BY <1>1
<1> HIDE DEF q
<1>3. q * (2 * m) <= q * from
  BY <1>2
<1>4. (2 * q) * m <= m * m
  BY <1>2, <1>3
<1>5. 2 * q <= m
  BY <1>2, <1>4
<1> QED  BY <1>2, <1>5 DEF q

\* A window of c segments and i bytes is one window.
Kept(c, i) ==
  /\ c \in U16 /\ i \in Nat
  /\ c * kcp.mss <= i /\ i < (c + 1) * kcp.mss

\* The window that has grown is wider, within the remote one, and still counts
\* the segments of its bytes.
LEMMA GrownKept ==
  ASSUME TypeOK, Usable(kcp), IncrMatchesCwnd, NEW wnd \in U16, cwnd < wnd
  PROVE  /\ Kept(Grown(wnd).cwnd, Grown(wnd).incr)
         /\ Grown(wnd).cwnd >= cwnd /\ Grown(wnd).incr > incr
<1> DEFINE m     == kcp.mss
           from  == max(incr, m)
           more  == from + (m * m) \div from + m \div 16
           slow  == [cwnd |-> cwnd + 1, incr |-> incr + m]
           step  == IF (cwnd + 1) * m <= more THEN 1 ELSE 0
           avoid == [cwnd |-> cwnd + step, incr |-> more]
<1>1. /\ m \in Nat /\ m >= 26 /\ cwnd \in Nat /\ incr \in Nat
      /\ cwnd + 1 \in U16 /\ cwnd \in U16
  BY U16MaxIs DEF Usable, Settings, TypeOK, U16
<1>2. cwnd * m <= incr /\ incr < (cwnd + 1) * m
  BY DEF IncrMatchesCwnd
<1>3. /\ cwnd * m \in Nat /\ (cwnd + 1) * m = cwnd * m + m
      /\ (cwnd + 2) * m = cwnd * m + 2 * m
  BY <1>1, NextMultiple
<1> DEFINE grown == IF cwnd < ssthresh THEN slow ELSE avoid
<1>4. Grown(wnd) = IF grown.cwnd > wnd THEN [cwnd |-> wnd, incr |-> wnd * m]
                   ELSE grown
  BY DEF Grown
<1> HIDE DEF m
<1>5. CASE cwnd < ssthresh
  <2>1. grown.cwnd = cwnd + 1 /\ grown.incr = incr + m
    BY <1>5
  <2>2. Grown(wnd) = grown
    BY <1>1, <1>4, <2>1, U16MaxIs DEF U16
  <2>3. (cwnd + 1) + 1 = cwnd + 2
    BY <1>1
  <2>4. /\ incr + m \in Nat
        /\ (cwnd + 1) * m <= incr + m /\ incr + m < (cwnd + 2) * m
    BY <1>1, <1>2, <1>3
  <2> QED  BY <1>1, <2>1, <2>2, <2>3, <2>4 DEF Kept, m
<1>6. CASE ~(cwnd < ssthresh)
  <2>1. cwnd >= 2
    BY <1>1, <1>6, Limits DEF TypeOK
  <2>2. 2 * m <= cwnd * m
    BY <1>1, <2>1
  <2>3. from = incr /\ from \in Nat /\ 2 * m <= from
    BY <1>1, <1>2, <2>2 DEF max
  <2> HIDE DEF from
  <2>4. more \in Nat /\ incr < more /\ more < incr + m
    <3>1. (m * m) \div from \in Nat /\ (m * m) \div from + m \div 16 < m
      <4>1. m \in Nat /\ m >= 1 /\ from \in Nat /\ 2 * m <= from
        BY <1>1, <2>3
      <4> HIDE DEF m
      <4> QED  BY <4>1, LessThanOne
    <3>2. m \div 16 \in Nat /\ m \div 16 >= 1
      BY <1>1
    <3> DEFINE q == (m * m) \div from
    <3> HIDE DEF q
    <3>3. q \in Nat /\ q + m \div 16 < m /\ more = incr + q + m \div 16
      BY <2>3, <3>1 DEF q
    <3> QED  BY <1>1, <3>2, <3>3
  <2> HIDE DEF more
  <2>5. step \in {0, 1} /\ (cwnd + step) * m <= more
                       /\ more < (cwnd + step + 1) * m
    <3>1. CASE (cwnd + 1) * m <= more
      <4>1. step = 1 /\ cwnd + step + 1 = cwnd + 2
        BY <1>1, <3>1
      <4> QED  BY <1>1, <1>2, <1>3, <2>4, <3>1, <4>1
    <3>2. CASE ~((cwnd + 1) * m <= more)
      <4>1. step = 0 /\ cwnd + step = cwnd
        BY <1>1, <3>2
      <4> QED  BY <1>1, <1>2, <1>3, <2>4, <3>2, <4>1
    <3> QED  BY <3>1, <3>2
  <2> HIDE DEF step
  <2>6. grown.cwnd = cwnd + step /\ grown.incr = more
    BY <1>6
  <2>7. Grown(wnd) = grown
    BY <1>1, <1>4, <2>5, <2>6, U16MaxIs DEF U16
  <2>8. cwnd + step \in U16 /\ cwnd + step >= cwnd
    BY <1>1, <2>5
  <2> QED  BY <2>4, <2>5, <2>6, <2>7, <2>8 DEF Kept, m
<1> QED  BY <1>5, <1>6

-----------------------------------------------------------------------------
(* flush.                                                                  *)

\* A window as flush passes it on: of its type, its two counters one window.
Consistent(w) ==
  /\ w \in [ssthresh : KCP_THRESH_MIN..U16Max, cwnd : U16, incr : Nat]
  /\ Kept(w.cwnd, w.incr)

\* Whole segments are counted.
LEMMA WholeKept ==
  ASSUME Usable(kcp), NEW c \in U16
  PROVE  Kept(c, c * kcp.mss)
<1>1. kcp.mss \in Nat /\ kcp.mss >= 26 /\ c \in Nat
  BY U16MaxIs DEF Usable, Settings, U16
<1>2. c * kcp.mss \in Nat /\ (c + 1) * kcp.mss = c * kcp.mss + kcp.mss
  BY <1>1, NextMultiple
<1> QED  BY <1>1, <1>2 DEF Kept

\* What is left of a number in a u16.
LEMMA Truncated == \A n \in Nat : n % (U16Max + 1) \in U16
  BY U16MaxIs DEF U16

\* Half of a u16, but no less than the least threshold.
LEMMA Threshold ==
  ASSUME NEW n \in U16
  PROVE  max(n \div 2, KCP_THRESH_MIN) \in KCP_THRESH_MIN..U16Max
  BY Limits, U16MaxIs DEF U16, max

\* The window that flush fills is a u16, and open when nothing closes it.
LEMMA WindowType ==
  ASSUME TypeOK, Usable(kcp)
  PROVE  Window \in U16 /\ (cwnd >= 1 /\ rmt_wnd >= 1 => Window >= 1)
<1>1. /\ kcp.snd_wnd \in U16 /\ kcp.snd_wnd >= 1
      /\ rmt_wnd \in U16 /\ cwnd \in U16
  BY DEF TypeOK, Usable, Settings
<1> QED  BY <1>1, U16MaxIs DEF Window, min, U16

\* After a fast resend: half of what is in flight, and what may overtake.
LEMMA ChangeKept ==
  ASSUME Usable(kcp), inflight' \in U16, NEW w
  PROVE  Consistent(AfterChange(w))
<1> DEFINE flight == inflight' % (U16Max + 1)
           resend == kcp.fastresend % (U16Max + 1)
           thresh == max(flight \div 2, KCP_THRESH_MIN)
           wide   == (thresh + resend) % (U16Max + 1)
<1>1. inflight' \in Nat /\ kcp.fastresend \in Nat /\ kcp.mss \in Nat
  BY U16MaxIs DEF Usable, Settings, U16
<1>2. flight \in U16 /\ resend \in U16
  BY <1>1, Truncated
<1> HIDE DEF flight, resend
<1>3. thresh \in KCP_THRESH_MIN..U16Max
  BY <1>2, Threshold
<1> HIDE DEF thresh
<1>4. wide \in U16
  <2>1. thresh + resend \in Nat
    BY <1>2, <1>3, Limits, U16MaxIs DEF U16
  <2> QED  BY <2>1, Truncated
<1> HIDE DEF wide
<1>5. Kept(wide, wide * kcp.mss)
  BY <1>4, WholeKept
<1>6. AfterChange(w) = [ssthresh |-> thresh, cwnd |-> wide,
                        incr |-> wide * kcp.mss]
  BY DEF AfterChange, wide, thresh, flight, resend
<1> QED  BY <1>3, <1>4, <1>5, <1>6 DEF Consistent, Kept

\* One segment is counted as one.
LEMMA OneKept ==
  ASSUME Usable(kcp)
  PROVE  Kept(1, kcp.mss)
<1>1. kcp.mss \in Nat /\ 1 \in U16 /\ 1 * kcp.mss = kcp.mss
  BY U16MaxIs DEF Usable, Settings, U16
<1> QED  BY <1>1, WholeKept

\* After a timeout: half of the window, of which one segment is used.
LEMMA LostKept ==
  ASSUME TypeOK, Usable(kcp), NEW w
  PROVE  Consistent(AfterLost(w))
<1>1. max(Window \div 2, KCP_THRESH_MIN) \in KCP_THRESH_MIN..U16Max
  BY WindowType, Threshold
<1>2. Kept(1, kcp.mss)
  BY OneKept
<1> QED  BY <1>1, <1>2 DEF Consistent, AfterLost, Kept

\* In the end the window is open.
LEMMA OpenedKept ==
  ASSUME Usable(kcp), NEW w, Consistent(w)
  PROVE  Consistent(Opened(w)) /\ Opened(w).cwnd >= 1
<1>1. CASE w.cwnd < 1
  <2>1. Opened(w) = [ssthresh |-> w.ssthresh, cwnd |-> 1, incr |-> kcp.mss]
    BY <1>1 DEF Opened, Consistent
  <2>2. Kept(1, kcp.mss)
    BY OneKept
  <2> QED  BY <2>1, <2>2 DEF Consistent, Kept
<1>2. CASE ~(w.cwnd < 1)
  <2>1. Opened(w) = w
    BY <1>2 DEF Opened
  <2>2. w.cwnd \in Nat
    BY U16MaxIs DEF Consistent, U16
  <2> QED  BY <1>2, <2>1, <2>2
<1> QED  BY <1>1, <1>2

-----------------------------------------------------------------------------
(* The specification.                                                      *)

\* Initially.
LEMMA ControlInit == Init => ControlInv
<1> SUFFICES ASSUME Init PROVE ControlInv
  OBVIOUS
<1>1. PICK c \in Configs : /\ c.mtu # None => valid_mtu(c.mtu)
                           /\ kcp = apply_config(c)
  BY DEF Init
<1>2. Usable(kcp)
  BY <1>1, ControlAssumption, AppliedUsable DEF ControlAssumption
<1>3. kcp \in Settings /\ kcp.mss \in Nat /\ kcp.mss >= 26
  BY <1>2, U16MaxIs DEF Usable, Settings, U16
<1>4. /\ rto = [srtt |-> 0, rttval |-> 0, rto |-> 200]
      /\ cwnd = 0 /\ incr = 0 /\ ssthresh = KCP_THRESH_MIN
      /\ rmt_wnd = KCP_WND_RCV /\ inflight = 0
      /\ measured = 0 /\ rtt = 0 /\ flushed = FALSE
  BY DEF Init
<1>5. 0 \in U16 /\ KCP_WND_RCV \in U16
  BY U16MaxIs DEF U16, KCP_WND_RCV
<1>6. 200 \in 0..KCP_RTO_MAX
  BY DEF KCP_RTO_MAX
<1>7. rto \in [srtt : Nat, rttval : Nat, rto : 0..KCP_RTO_MAX]
  BY <1>4, <1>6
<1>8. ssthresh \in KCP_THRESH_MIN..U16Max
  BY <1>4, Limits, U16MaxIs
<1>9. TypeOK
  <2>1. flushed \in BOOLEAN /\ rmt_wnd \in U16 /\ inflight \in U16
    BY <1>4, <1>5
  <2>2. cwnd \in U16 /\ incr \in Nat /\ rtt \in Nat
    BY <1>4, <1>5
  <2>3. measured \in 0..MaxMeasures
    BY <1>4, ControlAssumption DEF ControlAssumption
  <2> QED  BY <1>3, <1>7, <1>8, <2>1, <2>2, <2>3 DEF TypeOK
<1>10. IncrMatchesCwnd
  BY <1>3, <1>4 DEF IncrMatchesCwnd
<1>11. RtoCoversRtt
  BY <1>4 DEF RtoCoversRtt
<1>12. Opens
  BY <1>4 DEF Opens
<1> QED  BY <1>2, <1>9, <1>10, <1>11, <1>12 DEF ControlInv

\* input keeps the invariant, and what it acknowledges widens the window.
LEMMA InputKeeps ==
  ASSUME ControlInv, NEW r \in Rtts \cup {None}, NEW acked \in 0..inflight,
         NEW wnd \in Wnds, Input(r, acked, wnd)
  PROVE  /\ ControlInv'
         /\ inflight' < inflight /\ cwnd < rmt_wnd' => incr' > incr
<1>1. TypeOK /\ Usable(kcp) /\ IncrMatchesCwnd /\ Opens /\ RtoCoversRtt
  BY DEF ControlInv
<1>2. kcp' = kcp /\ ssthresh' = ssthresh /\ flushed' = flushed
  BY DEF Input
<1>3. wnd \in U16 /\ rmt_wnd' = wnd
  BY ControlAssumption DEF ControlAssumption, Input
<1>4. inflight' = inflight - acked /\ inflight' \in U16
  BY <1>1, U16MaxIs DEF TypeOK, U16, Input
<1>5. /\ rto' \in [srtt : Nat, rttval : Nat, rto : 0..KCP_RTO_MAX]
      /\ rtt' \in Nat /\ measured' \in 0..MaxMeasures /\ RtoCoversRtt'
  <2>1. CASE r = None
    <3>1. rto' = rto /\ measured' = measured /\ rtt' = rtt
      BY <2>1 DEF Input
    <3> QED  BY <1>1, <3>1 DEF TypeOK, RtoCoversRtt
  <2>2. CASE r # None
    <3>1. r \in Nat
      BY <2>2, ControlAssumption DEF ControlAssumption, Millis
    <3>2. /\ rto' = update_ack(r) /\ rtt' = r
          /\ measured < MaxMeasures /\ measured' = measured + 1
      BY <2>2 DEF Input
    <3>3. measured' \in 0..MaxMeasures
      BY <1>1, <3>2, ControlAssumption DEF TypeOK, ControlAssumption
    <3> QED  BY <1>1, <3>1, <3>2, <3>3, MeasureCovers DEF RtoCoversRtt
  <2> QED  BY <2>1, <2>2
<1>6. Kept(cwnd', incr') /\ cwnd' >= cwnd
  <2>1. CASE acked > 0 /\ cwnd < wnd
    BY <1>1, <1>3, <2>1, GrownKept DEF Input
  <2>2. CASE ~(acked > 0 /\ cwnd < wnd)
    <3>1. cwnd' = cwnd /\ incr' = incr /\ cwnd \in Nat
      BY <1>1, <2>2, U16MaxIs DEF Input, TypeOK, U16
    <3> QED  BY <1>1, <3>1 DEF Kept, TypeOK, IncrMatchesCwnd
  <2> QED  BY <2>1, <2>2
<1>7. TypeOK'
  BY <1>1, <1>2, <1>3, <1>4, <1>5, <1>6 DEF TypeOK, Kept
<1>8. Usable(kcp)' /\ IncrMatchesCwnd'
  BY <1>1, <1>2, <1>6 DEF Usable, IncrMatchesCwnd, Kept
<1>9. Opens'
  <2>1. cwnd \in Nat /\ cwnd' \in Nat
    BY <1>1, <1>6, U16MaxIs DEF TypeOK, Kept, U16
  <2> QED  BY <1>1, <1>2, <1>6, <2>1 DEF Opens
<1>10. inflight' < inflight /\ cwnd < rmt_wnd' => incr' > incr
  <2> SUFFICES ASSUME inflight' < inflight, cwnd < rmt_wnd'
               PROVE  incr' > incr
    OBVIOUS
  <2>1. acked > 0 /\ cwnd < wnd
    BY <1>1, <1>3, <1>4, U16MaxIs DEF TypeOK, U16
  <2> QED  BY <1>1, <1>3, <2>1, GrownKept DEF Input
<1> QED  BY <1>5, <1>7, <1>8, <1>9, <1>10 DEF ControlInv

\* More segments in flight stay within the window.
LEMMA FillKeeps ==
  ASSUME ControlInv, NEW more \in 0..kcp.snd_wnd, Fill(more)
  PROVE  /\ inflight' \in U16 /\ inflight' >= inflight
         /\ kcp' = kcp /\ rto' = rto /\ rmt_wnd' = rmt_wnd
         /\ measured' = measured /\ rtt' = rtt
<1>1. TypeOK /\ Usable(kcp)
  BY DEF ControlInv
<1>2. Window \in U16 /\ inflight \in U16 /\ kcp.snd_wnd \in U16
  BY <1>1, WindowType DEF TypeOK, Settings
<1>3. /\ inflight' = inflight + more
      /\ more = 0 \/ inflight + more <= Window
  BY DEF Fill
<1>4. more \in Nat
  BY <1>2, U16MaxIs DEF U16
<1>5. inflight' \in U16 /\ inflight' >= inflight
  BY <1>2, <1>3, <1>4, U16MaxIs DEF U16
<1> QED  BY <1>5 DEF Fill

\* flush, failing or not, keeps the invariant, and acknowledges nothing.
LEMMA FlushKeeps ==
  ASSUME ControlInv, NEW more \in 0..kcp.snd_wnd,
         \/ FlushFails(more)
         \/ \E change, lost \in BOOLEAN : Flush(more, change, lost)
  PROVE  ControlInv' /\ inflight' >= inflight
<1>1. TypeOK /\ Usable(kcp) /\ IncrMatchesCwnd /\ Opens /\ RtoCoversRtt
  BY DEF ControlInv
<1>2. Fill(more)
  BY DEF FlushFails, Flush
<1>3. /\ inflight' \in U16 /\ inflight' >= inflight
      /\ kcp' = kcp /\ rto' = rto /\ rmt_wnd' = rmt_wnd
      /\ measured' = measured /\ rtt' = rtt
  BY <1>2, FillKeeps
<1>4. /\ ssthresh' \in KCP_THRESH_MIN..U16Max /\ Kept(cwnd', incr')
      /\ flushed' \in BOOLEAN /\ Opens'
  <2>1. CASE FlushFails(more)
    <3>1. UNCHANGED <<cwnd, incr, ssthresh, flushed>>
      BY <2>1 DEF FlushFails
    <3> QED  BY <1>1, <3>1 DEF TypeOK, IncrMatchesCwnd, Kept, Opens
  <2>2. CASE \E change, lost \in BOOLEAN : Flush(more, change, lost)
    <3>1. PICK change \in BOOLEAN, lost \in BOOLEAN : Flush(more, change, lost)
      BY <2>2
    <3> DEFINE w0 == [ssthresh |-> ssthresh, cwnd |-> cwnd, incr |-> incr]
               w1 == IF change THEN AfterChange(w0) ELSE w0
               w  == IF lost THEN AfterLost(w1) ELSE w1
               w2 == Opened(w)
    <3>2. Consistent(w0)
      BY <1>1 DEF TypeOK, IncrMatchesCwnd, Consistent, Kept
    <3>3. /\ ssthresh' = w2.ssthresh /\ cwnd' = w2.cwnd /\ incr' = w2.incr
          /\ flushed' = TRUE
      BY <3>1 DEF Flush
    <3> HIDE DEF w0
    <3>4. Consistent(w1)
      BY <1>1, <1>3, <3>2, ChangeKept
    <3> HIDE DEF w1
    <3>5. Consistent(w)
      BY <1>1, <3>4, LostKept
    <3> HIDE DEF w
    <3>6. Consistent(w2) /\ w2.cwnd >= 1
      BY <1>1, <3>5, OpenedKept
    <3> QED  BY <3>3, <3>6 DEF Consistent, Opens
  <2> QED  BY <2>1, <2>2
<1>5. TypeOK'
  BY <1>1, <1>3, <1>4 DEF TypeOK, Kept
<1>6. Usable(kcp)' /\ IncrMatchesCwnd' /\ RtoCoversRtt'
  BY <1>1, <1>3, <1>4 DEF Usable, IncrMatchesCwnd, Kept, RtoCoversRtt
<1> QED  BY <1>3, <1>4, <1>5, <1>6 DEF ControlInv

\* Every step keeps the invariant, and every acknowledgement widens a window
\* that is below the remote one.
LEMMA ControlStep ==
  ASSUME ControlInv, [Next]_vars
  PROVE  /\ ControlInv'
         /\ inflight' < inflight /\ cwnd < rmt_wnd' => incr' > incr
<1>0. inflight \in Nat
  BY U16MaxIs DEF ControlInv, TypeOK, U16
<1>1. CASE \E r \in Rtts \cup {None}, acked \in 0..inflight, wnd \in Wnds :
             Input(r, acked, wnd)
  BY <1>1, InputKeeps
<1>2. ASSUME NEW more \in 0..kcp.snd_wnd,
             \/ FlushFails(more)
             \/ \E change, lost \in BOOLEAN : Flush(more, change, lost)
      PROVE  /\ ControlInv'
             /\ inflight' < inflight /\ cwnd < rmt_wnd' => incr' > incr
  <2>1. ControlInv' /\ inflight' >= inflight
    BY <1>2, FlushKeeps
  <2>2. inflight' \in Nat
    BY <2>1, U16MaxIs DEF ControlInv, TypeOK, U16
  <2> QED  BY <1>0, <2>1, <2>2
<1>3. CASE UNCHANGED vars
  <2>1. ControlInv'
    BY <1>3 DEF vars, ControlInv, TypeOK, Usable, IncrMatchesCwnd, Opens,
                RtoCoversRtt
  <2>2. inflight' = inflight
    BY <1>3 DEF vars
  <2> QED  BY <1>0, <2>1, <2>2
<1> QED  BY <1>1, <1>2, <1>3 DEF Next

\* The invariant holds always.
LEMMA ControlAlways == Spec => []ControlInv
<1>1. ControlInv /\ [Next]_vars => ControlInv'
  BY ControlStep
<1> QED  BY <1>1, ControlInit, PTL DEF Spec

\* For every configuration, window and round trip: the settings and counters
\* keep their types and widths, and ssthresh stays at its minimum or above.
THEOREM ControlTypes == Spec => []TypeOK
<1>1. ControlInv => TypeOK
  BY DEF ControlInv
<1> QED  BY <1>1, ControlAlways, PTL

\* cwnd and incr count one window, through growth, loss, fast resend and
\* failing flushes.
THEOREM IncrMatchesCwndAlways == Spec => []IncrMatchesCwnd
<1>1. ControlInv => IncrMatchesCwnd
  BY DEF ControlInv
<1> QED  BY <1>1, ControlAlways, PTL

\* Once a flush has succeeded, an open remote window lets a segment pass, with
\* any configuration.
THEOREM WindowOpensAlways == Spec => []WindowOpens
<1>1. ControlInv => WindowOpens
  <2> SUFFICES ASSUME ControlInv, flushed, rmt_wnd > 0
               PROVE  Window > 0
    BY DEF WindowOpens
  <2>1. TypeOK /\ Usable(kcp) /\ cwnd >= 1
    BY DEF ControlInv, Opens
  <2>2. rmt_wnd >= 1 /\ rmt_wnd \in Nat
    BY <2>1, U16MaxIs DEF TypeOK, U16
  <2>3. Window \in Nat /\ Window >= 1
    BY <2>1, <2>2, WindowType, U16MaxIs DEF U16
  <2> QED  BY <2>3
<1> QED  BY <1>1, ControlAlways, PTL

\* The timeout covers the round trip measured last, whatever came before it.
THEOREM RtoCoversRttAlways == Spec => []RtoCoversRtt
<1>1. ControlInv => RtoCoversRtt
  BY DEF ControlInv
<1> QED  BY <1>1, ControlAlways, PTL

\* With any valid mtu an acknowledgement widens a window that is below the
\* remote one.
THEOREM GrowthNeverStallsAlways == Spec => GrowthNeverStalls
<1>1. ControlInv /\ [Next]_vars =>
        [inflight' < inflight /\ cwnd < rmt_wnd' => incr' > incr]_vars
  BY ControlStep
<1> QED  BY <1>1, ControlAlways, PTL DEF Spec, GrowthNeverStalls
=============================================================================
