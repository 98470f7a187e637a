------------------------------ MODULE KcpProofs ------------------------------
(***************************************************************************)
(* For any window sizes, write sizes, bounds of the network and failures:  *)
(* the types of the control blocks, and that what recv returns is what the *)
(* other end numbered, in order and once.                                  *)
(*                                                                         *)
(* The reason is that every copy of a numbered piece of data is genuine:   *)
(* wherever it waits (snd_buf, the output buffer, the network, the input   *)
(* loop, rcv_buf) it carries the data that its number was given to.        *)
(***************************************************************************)
EXTENDS Kcp, SequenceFacts, FiniteSetTheorems

\* The copies that are genuine: a number that e has given, with its data.
GenuineFlight(e) ==
  {g \in Flight : g.sn < Len(log[e]) /\ g.c = log[e][g.sn + 1]}
GenuineArrived(e) ==
  {x \in Arrived : x.sn < Len(log[e]) /\ x.c = log[e][x.sn + 1]}
GenuineSegment(e) ==
  {s \in Segment :
     s.cmd = "PUSH" => s.sn < Len(log[e]) /\ s.c = log[e][s.sn + 1]}

\* The parts of the inductive invariant: what e sends, what it receives, what
\* is between the endpoints, and what the application wrote.
SenderInv ==
  /\ snd_queue \in [Endpoint -> Seq(Data)]
  /\ snd_buf   \in [Endpoint -> Seq(Flight)]
  /\ snd_una   \in [Endpoint -> Nat]
  /\ snd_nxt   \in [Endpoint -> Nat]
  /\ rmt_wnd   \in [Endpoint -> Nat]
  /\ probing   \in [Endpoint -> BOOLEAN]
  /\ log       \in [Endpoint -> Seq(Data)]
  /\ \A e \in Endpoint :
       /\ Len(log[e]) = snd_nxt[e]
       /\ snd_buf[e] \in Seq(GenuineFlight(e))
       /\ \A i \in 1..Len(snd_queue[e]) : snd_queue[e][i].len <= Mss

ReceiverInv ==
  /\ rcv_buf   \in [Endpoint -> Seq(Arrived)]
  /\ rcv_queue \in [Endpoint -> Seq(Arrived)]
  /\ rcv_nxt   \in [Endpoint -> Nat]
  /\ acklist   \in [Endpoint -> Seq(Nat)]
  /\ probe     \in [Endpoint -> SUBSET {"ASK", "TELL"}]
  /\ out       \in [Endpoint -> Seq(Arrived)]
  /\ \A e \in Endpoint : rcv_buf[e] \in Seq(GenuineArrived(Other(e)))
  /\ InOrder

WireInv ==
  /\ buf       \in [Endpoint -> Seq(Segment)]
  /\ rx        \in [Endpoint -> Seq(Segment)]
  /\ max_ack   \in [Endpoint -> Nat \cup {-1}]
  /\ net       \in [Endpoint -> SUBSET Seq(Segment)]
  /\ settled   \in BOOLEAN
  /\ failures  \in Nat
  /\ \A e \in Endpoint :
       /\ buf[e] \in Seq(GenuineSegment(e))
       /\ rx[e] \in Seq(GenuineSegment(Other(e)))
       /\ net[e] \subseteq Seq(GenuineSegment(Other(e)))

AppInv ==
  /\ wrote \in [Endpoint -> Nat]
  /\ ends  \in [Endpoint -> SUBSET Nat]

GenuineInv == SenderInv /\ ReceiverInv /\ WireInv /\ AppInv

-----------------------------------------------------------------------------
(* Constants, numbers and sequences.                                       *)

\* The constants are numbers, and no window is empty.
LEMMA ConstantTypes ==
  /\ Mss \in Nat \ {0} /\ MTU \in Nat \ {0} /\ KCP_WND_RCV \in Nat \ {0}
  /\ SndWnd \in Nat \ {0} /\ RcvWndCfg \in Nat /\ FastResend \in Nat
  /\ rcv_wnd \in Nat \ {0}
  BY KcpAssumption DEF KcpAssumption, rcv_wnd, MaxOf

\* Every endpoint has another, and is the other of that.
LEMMA OtherEnd ==
  ASSUME NEW e \in Endpoint
  PROVE  Other(e) \in Endpoint /\ Other(e) # e /\ Other(Other(e)) = e
<1>1. PICK x, y \in Endpoint : x # y /\ Endpoint = {x, y}
  BY KcpAssumption DEF KcpAssumption
<1>2. \A o \in Endpoint : \E p \in Endpoint : p # o
  BY <1>1
<1>3. \A o \in Endpoint : Other(o) \in Endpoint /\ Other(o) # o
  BY <1>2 DEF Other
<1>4. Other(Other(e)) \in Endpoint /\ Other(Other(e)) # Other(e)
  BY <1>3
<1> HIDE DEF Other
<1> QED
  BY <1>1, <1>3, <1>4

\* The last of the pieces of size m that cover n is not empty: rounding up.
LEMMA LastPiece ==
  ASSUME NEW n \in Nat \ {0}, NEW m \in Nat \ {0},
         NEW i \in 1..CeilDiv(n, m)
  PROVE  (i - 1) * m \in Nat /\ (i - 1) * m < n
<1> DEFINE q == CeilDiv(n, m)
<1>1. q \in Nat /\ q * m <= n + m - 1
  BY DEF CeilDiv
<1>2. i - 1 \in Nat /\ q - i \in Nat
  BY <1>1
<1>3. (q - i) * m \in Nat /\ (i - 1) * m \in Nat
  BY <1>2
<1>4. (i - 1) * m = q * m - (q - i) * m - m
  BY <1>1, <1>2
<1> QED
  BY <1>1, <1>3, <1>4

-----------------------------------------------------------------------------
(* The parts, and what leaves them alone.                                  *)

\* The parts of the invariant give every variable its type.
LEMMA PartsGiveTypes == GenuineInv => TypeOK
  BY DEF GenuineInv, SenderInv, ReceiverInv, WireInv, AppInv, TypeOK

\* A step that leaves alone what the sender keeps keeps its part,
LEMMA SenderKept ==
  ASSUME SenderInv, UNCHANGED sndVars
  PROVE  SenderInv'
  BY DEF SenderInv, sndVars, GenuineFlight

\* and so for the receiver,
LEMMA ReceiverKept ==
  ASSUME ReceiverInv, UNCHANGED <<rcvVars, out, log>>
  PROVE  ReceiverInv'
  BY DEF ReceiverInv, rcvVars, GenuineArrived, InOrder

\* and for what is between the endpoints.
LEMMA WireKept ==
  ASSUME WireInv, UNCHANGED <<inVars, outVars, log>>
  PROVE  WireInv'
  BY DEF WireInv, inVars, outVars, GenuineSegment

\* Nothing has been numbered in the initial state.
LEMMA GenuineInit == Init => GenuineInv
<1> SUFFICES ASSUME Init PROVE GenuineInv
  OBVIOUS
<1> \A S : <<>> \in Seq(S) /\ Len(<<>>) = 0
  BY EmptySeq
<1> \A S, T : {} \in SUBSET S
  OBVIOUS
<1>1. SenderInv
  BY ConstantTypes DEF Init, SenderInv
<1>2. InOrder
  <2> SUFFICES ASSUME NEW e \in Endpoint
               PROVE  LET got == out[e] \o rcv_queue[e]
                      IN /\ Len(got) = rcv_nxt[e]
                         /\ rcv_nxt[e] <= Len(log[Other(e)])
                         /\ \A i \in 1..Len(got) :
                              got[i] = [sn |-> i - 1, c |-> log[Other(e)][i]]
    BY DEF InOrder
  <2>1. out[e] \o rcv_queue[e] = <<>>
    BY ConcatEmptySeq DEF Init
  <2> QED
    BY <2>1, OtherEnd DEF Init
<1>3. ReceiverInv
  BY <1>2 DEF Init, ReceiverInv
<1>4. WireInv
  BY DEF Init, WireInv
<1>5. AppInv
  BY DEF Init, AppInv
<1> QED
  BY <1>1, <1>3, <1>4, <1>5 DEF GenuineInv

-----------------------------------------------------------------------------
(* send and recv.                                                          *)

\* send cuts a write into pieces of data that are no longer than mss.
LEMMA FragmentsAreData ==
  ASSUME NEW e, NEW base \in Nat, NEW size \in Nat,
         NEW count \in Nat,
         count = IF size <= Mss THEN 1 ELSE CeilDiv(size, Mss)
  PROVE  /\ Fragments(e, base, size, count) \in Seq(Data)
         /\ \A i \in 1..Len(Fragments(e, base, size, count)) :
              Fragments(e, base, size, count)[i].len <= Mss
<1>1. ASSUME NEW i \in 1..count
      PROVE  /\ (i - 1) * Mss \in Nat
             /\ MinOf(Mss, size - (i - 1) * Mss) \in Nat
             /\ MinOf(Mss, size - (i - 1) * Mss) <= Mss
  <2>1. CASE size <= Mss
    <3>1. (i - 1) * Mss = 0
      BY <2>1, ConstantTypes
    <3> QED
      BY <3>1, ConstantTypes DEF MinOf
  <2>2. CASE ~(size <= Mss)
    <3>1. (i - 1) * Mss \in Nat /\ (i - 1) * Mss < size
      BY <2>2, ConstantTypes, LastPiece
    <3> QED
      BY <3>1, ConstantTypes DEF MinOf
  <2> QED
    BY <2>1, <2>2
<1>2. Fragments(e, base, size, count) \in [1..count -> Data]
  BY <1>1 DEF Fragments, Data
<1>3. \A i \in 1..count : Fragments(e, base, size, count)[i].len <= Mss
  BY <1>1 DEF Fragments
<1> QED
  BY <1>2, <1>3, FunctionIsSeq

\* Data that is extended is data, and longer by what was added.
LEMMA LongerData ==
  ASSUME NEW d \in Data, NEW x \in Nat
  PROVE  /\ [d EXCEPT !.len = @ + x] \in Data
         /\ [d EXCEPT !.len = @ + x].len = d.len + x
<1>1. [d EXCEPT !.len = @ + x] \in Data
  BY DEF Data
<1>2. [d EXCEPT !.len = @ + x].len = d.len + x
  BY DEF Data
<1> QED
  BY <1>1, <1>2

\* The queue that is left when a write fills the last queued segment.
LEMMA FilledQueue ==
  ASSUME NEW q \in Seq(Data), q # <<>>, NEW x \in Nat, NEW n \in Nat,
         x = MinOf(n, Mss - q[Len(q)].len),
         \A i \in 1..Len(q) : q[i].len <= Mss
  PROVE  /\ [q EXCEPT ![Len(q)].len = @ + x] \in Seq(Data)
         /\ \A i \in 1..Len([q EXCEPT ![Len(q)].len = @ + x]) :
              [q EXCEPT ![Len(q)].len = @ + x][i].len <= Mss
<1>1. Len(q) \in 1..Len(q)
  BY EmptySeq, LenProperties
<1>2. q[Len(q)] \in Data
  BY <1>1, ElementOfSeq
<1> DEFINE new == [q[Len(q)] EXCEPT !.len = @ + x]
<1>3. new \in Data /\ new.len <= Mss
  <2>1. q[Len(q)].len \in Nat /\ q[Len(q)].len <= Mss
    BY <1>1, <1>2 DEF Data
  <2>2. x <= Mss - q[Len(q)].len
    BY <2>1, ConstantTypes DEF MinOf
  <2>3. new \in Data /\ new.len = q[Len(q)].len + x
    BY <1>2, LongerData
  <2> HIDE DEF new
  <2> QED
    BY <2>1, <2>2, <2>3, ConstantTypes
<1>4. [q EXCEPT ![Len(q)].len = @ + x] = [q EXCEPT ![Len(q)] = new]
  BY <1>1, LenProperties
<1> HIDE DEF new
<1>5. /\ [q EXCEPT ![Len(q)] = new] \in Seq(Data)
      /\ Len([q EXCEPT ![Len(q)] = new]) = Len(q)
      /\ \A i \in 1..Len(q) :
           [q EXCEPT ![Len(q)] = new][i] = IF i = Len(q) THEN new ELSE q[i]
  BY <1>1, <1>3, ExceptSeq
<1> QED
  BY <1>3, <1>4, <1>5

\* send numbers nothing: it only lengthens snd_queue.
LEMMA SendKeeps ==
  ASSUME GenuineInv, NEW e \in Endpoint, NEW n \in WriteSizes, Send(e, n)
  PROVE  GenuineInv'
<1> USE DEF GenuineInv
<1> DEFINE q      == snd_queue[e]
           merge  == e \in StreamMode /\ q # <<>>
           extend == IF merge THEN MinOf(n, Mss - q[Len(q)].len) ELSE 0
           kept   == IF merge THEN [q EXCEPT ![Len(q)].len = @ + extend] ELSE q
           rest   == n - extend
           count  == IF rest <= Mss THEN 1 ELSE CeilDiv(rest, Mss)
           more   == Fragments(e, wrote[e] + extend, rest, count)
           done   == merge /\ rest = 0
           tooBig == ~done /\ count >= KCP_WND_RCV
<1>1. /\ n \in Nat /\ q \in Seq(Data) /\ wrote[e] \in Nat
      /\ \A i \in 1..Len(q) : q[i].len <= Mss
  BY KcpAssumption DEF KcpAssumption, SenderInv, AppInv
<1>2. extend \in Nat /\ rest \in Nat
  <2>1. CASE merge
    <3>1. Len(q) \in 1..Len(q)
      BY <1>1, <2>1, EmptySeq, LenProperties
    <3>2. q[Len(q)] \in Data /\ q[Len(q)].len <= Mss
      BY <1>1, <3>1, ElementOfSeq
    <3> QED
      BY <1>1, <2>1, <3>2, ConstantTypes, SMTT(30) DEF Data, MinOf
  <2>2. CASE ~merge
    BY <1>1, <2>2
  <2> QED
    BY <2>1, <2>2
<1>3. kept \in Seq(Data) /\ \A i \in 1..Len(kept) : kept[i].len <= Mss
  <2>1. CASE merge
    <3>1. extend = MinOf(n, Mss - q[Len(q)].len)
      BY <2>1
    <3>2. kept = [q EXCEPT ![Len(q)].len = @ + extend]
      BY <2>1
    <3> HIDE DEF extend, kept
    <3> QED
      BY <1>1, <1>2, <2>1, <3>1, <3>2, FilledQueue
  <2>2. CASE ~merge
    BY <1>1, <2>2
  <2> QED
    BY <2>1, <2>2
<1>4. count \in Nat
  BY <1>2, ConstantTypes DEF CeilDiv
<1>5. more \in Seq(Data) /\ \A i \in 1..Len(more) : more[i].len <= Mss
  <2>1. wrote[e] + extend \in Nat
    BY <1>1, <1>2
  <2>2. count = IF rest <= Mss THEN 1 ELSE CeilDiv(rest, Mss)
    OBVIOUS
  <2> HIDE DEF extend, rest, count
  <2> QED
    BY <1>2, <1>4, <2>1, <2>2, FragmentsAreData
<1>6. /\ kept \o more \in Seq(Data)
      /\ \A i \in 1..Len(kept \o more) : (kept \o more)[i].len <= Mss
  <2> HIDE DEF kept, more
  <2> QED
    BY <1>3, <1>5, ConcatProperties, LenProperties
<1>7. /\ snd_queue' = [snd_queue EXCEPT ![e] =
                         IF done \/ tooBig THEN kept ELSE kept \o more]
      /\ wrote' = [wrote EXCEPT ![e] = @ + (IF tooBig THEN extend ELSE n)]
      /\ ends' = [ends EXCEPT ![e] =
                    @ \cup (IF tooBig THEN {} ELSE {wrote[e] + n})]
      /\ UNCHANGED <<snd_buf, snd_una, snd_nxt, rmt_wnd, probing, log, out>>
      /\ UNCHANGED <<rcvVars, inVars, outVars>>
  BY DEF Send
<1> HIDE DEF extend, kept, rest, count, more, done, tooBig
<1>8. SenderInv'
  BY <1>3, <1>6, <1>7 DEF SenderInv, GenuineFlight
<1>9. AppInv'
  BY <1>1, <1>2, <1>7 DEF AppInv
<1> QED
  BY <1>7, <1>8, <1>9, ReceiverKept, WireKept

\* The sequence got is what the other end of e has numbered below nxt.
ReadsAs(e, got, nxt) ==
  /\ Len(got) = nxt
  /\ nxt <= Len(log[Other(e)])
  /\ \A i \in 1..Len(got) : got[i] = [sn |-> i - 1, c |-> log[Other(e)][i]]

\* InOrder, end by end.
LEMMA InOrderIsReadsAs ==
  InOrder <=> \A e \in Endpoint :
                ReadsAs(e, out[e] \o rcv_queue[e], rcv_nxt[e])
  BY DEF InOrder, ReadsAs

\* What moves from the front of rcv_buf continues it.
LEMMA MovedContinues ==
  ASSUME NEW e \in Endpoint, log \in [Endpoint -> Seq(Data)],
         NEW got \in Seq(Arrived), NEW nxt \in Nat, ReadsAs(e, got, nxt),
         NEW b \in Seq(GenuineArrived(Other(e))), NEW used, NEW m \in 0..Len(b),
         Movable(b, nxt, used, m)
  PROVE  /\ got \o SubSeq(b, 1, m) \in Seq(Arrived)
         /\ ReadsAs(e, got \o SubSeq(b, 1, m), nxt + m)
<1> DEFINE o == Other(e)
           moved == SubSeq(b, 1, m)
<1>1. o \in Endpoint /\ Len(log[o]) \in Nat /\ Len(b) \in Nat /\ m \in Nat
  BY OtherEnd, LenProperties
<1>2. /\ moved \in Seq(GenuineArrived(o))
      /\ Len(moved) = m
      /\ \A i \in 1..m : moved[i] = b[i]
  <2>1. 1 \in Nat \ {0} /\ m \in Int /\ m <= Len(b)
    BY <1>1
  <2> QED
    BY <1>1, <2>1, Piece
<1>3. \A i \in 1..m : b[i] \in GenuineArrived(o) /\ b[i].sn = nxt + i - 1
  BY <1>1, ElementOfSeq DEF Movable
<1>4. GenuineArrived(o) \subseteq Arrived
  BY DEF GenuineArrived
<1>5. moved \in Seq(Arrived)
  BY <1>2, <1>4, SeqMonotonic
<1> HIDE DEF o, moved
<1>6. /\ got \o moved \in Seq(Arrived)
      /\ Len(got \o moved) = nxt + m
      /\ \A i \in 1..(nxt + m) : (got \o moved)[i] =
           IF i <= nxt THEN got[i] ELSE moved[i - nxt]
  <2>1. Len(got) = nxt /\ Len(moved) = m
    BY <1>2 DEF ReadsAs
  <2>2. /\ got \o moved \in Seq(Arrived)
        /\ Len(got \o moved) = Len(got) + Len(moved)
        /\ \A i \in 1..(Len(got) + Len(moved)) : (got \o moved)[i] =
             IF i <= Len(got) THEN got[i] ELSE moved[i - Len(got)]
    BY <1>5, ConcatProperties, ZenonT(30)
  <2> QED
    BY <2>1, <2>2, Zenon
<1>7. \A i \in 1..m : /\ nxt + i <= Len(log[o])
                      /\ b[i] = [sn |-> nxt + i - 1, c |-> log[o][nxt + i]]
  <2> SUFFICES ASSUME NEW i \in 1..m
               PROVE  /\ nxt + i <= Len(log[o])
                      /\ b[i] = [sn |-> nxt + i - 1, c |-> log[o][nxt + i]]
    OBVIOUS
  <2>1. /\ b[i] \in Arrived
        /\ b[i].sn = nxt + i - 1
        /\ b[i].sn < Len(log[o])
        /\ b[i].c = log[o][b[i].sn + 1]
    BY <1>3 DEF GenuineArrived
  <2>2. b[i] = [sn |-> b[i].sn, c |-> b[i].c]
    BY <2>1 DEF Arrived
  <2>3. (nxt + i - 1) + 1 = nxt + i
    BY <1>1
  <2> QED
    BY <1>1, <2>1, <2>2, <2>3
<1>8. nxt + m <= Len(log[o])
  <2>1. CASE m = 0
    BY <1>1, <2>1 DEF ReadsAs, o
  <2>2. CASE m # 0
    <3>1. m \in 1..m
      BY <1>1, <2>2
    <3> QED
      BY <1>7, <3>1
  <2> QED
    BY <2>1, <2>2
<1>9. ASSUME NEW i \in 1..(nxt + m)
      PROVE  (got \o moved)[i] = [sn |-> i - 1, c |-> log[o][i]]
  <2>1. CASE i <= nxt
    <3>1. i \in 1..Len(got)
      BY <1>1, <2>1 DEF ReadsAs
    <3> QED
      BY <1>6, <2>1, <3>1 DEF ReadsAs, o
  <2>2. CASE ~(i <= nxt)
    <3> DEFINE k == i - nxt
    <3>1. k \in 1..m /\ nxt + k = i /\ nxt + k - 1 = i - 1
      BY <1>1, <2>2
    <3>2. (got \o moved)[i] = moved[k]
      BY <1>6, <2>2
    <3> HIDE DEF k
    <3>3. moved[k] = [sn |-> nxt + k - 1, c |-> log[o][nxt + k]]
      BY <1>2, <1>7, <3>1
    <3> QED
      BY <3>1, <3>2, <3>3
  <2> QED
    BY <2>1, <2>2
<1>10. ReadsAs(e, got \o moved, nxt + m)
  BY <1>6, <1>8, <1>9 DEF ReadsAs, o
<1> QED
  BY <1>6, <1>10 DEF moved

\* What the receiver's part of the invariant says of one endpoint.
LEMMA ReceiverOf ==
  ASSUME ReceiverInv, SenderInv, NEW e \in Endpoint
  PROVE  /\ log \in [Endpoint -> Seq(Data)]
         /\ rcv_queue[e] \in Seq(Arrived) /\ out[e] \in Seq(Arrived)
         /\ rcv_buf[e] \in Seq(GenuineArrived(Other(e)))
         /\ rcv_nxt[e] \in Nat
         /\ out[e] \o rcv_queue[e] \in Seq(Arrived)
         /\ ReadsAs(e, out[e] \o rcv_queue[e], rcv_nxt[e])
  BY InOrderIsReadsAs, ConcatProperties DEF ReceiverInv, SenderInv

\* The two parts into which rcv_buf is cut.
LEMMA ArrivedPieces ==
  ASSUME NEW e \in Endpoint, NEW b \in Seq(GenuineArrived(Other(e))),
         NEW m \in 0..Len(b)
  PROVE  /\ b \in Seq(Arrived)
         /\ SubSeq(b, 1, m) \in Seq(Arrived)
         /\ SubSeq(b, m + 1, Len(b)) \in Seq(GenuineArrived(Other(e)))
         /\ SubSeq(b, m + 1, Len(b)) \in Seq(Arrived)
<1>1. GenuineArrived(Other(e)) \subseteq Arrived
  BY DEF GenuineArrived
<1> QED
  BY <1>1, DropFront, SeqMonotonic

\* The receiver after a step of e that leaves log alone: the endpoint's new
\* buffers are well typed and in order.
LEMMA ReceiverStep ==
  ASSUME ReceiverInv, NEW e \in Endpoint, UNCHANGED log,
         NEW b \in Seq(Arrived), NEW q \in Seq(Arrived), NEW nxt \in Nat,
         NEW o \in Seq(Arrived), NEW al \in Seq(Nat),
         NEW pr \in SUBSET {"ASK", "TELL"},
         b \in Seq(GenuineArrived(Other(e))), ReadsAs(e, o \o q, nxt),
         rcv_buf'   = [rcv_buf EXCEPT ![e] = b],
         rcv_queue' = [rcv_queue EXCEPT ![e] = q],
         rcv_nxt'   = [rcv_nxt EXCEPT ![e] = nxt],
         acklist'   = [acklist EXCEPT ![e] = al],
         probe'     = [probe EXCEPT ![e] = pr],
         out'       = [out EXCEPT ![e] = o]
  PROVE  ReceiverInv'
<1>1. InOrder'
  <2>1. ASSUME NEW d \in Endpoint
        PROVE  ReadsAs(d, out'[d] \o rcv_queue'[d], rcv_nxt'[d])
    <3>1. CASE d = e
      BY <3>1 DEF ReceiverInv
    <3>2. CASE d # e
      BY <3>2, InOrderIsReadsAs DEF ReceiverInv
    <3> QED
      BY <3>1, <3>2
  <2>2. log' = log
    OBVIOUS
  <2>3. ASSUME NEW d \in Endpoint, NEW got, NEW n, ReadsAs(d, got, n)
        PROVE  /\ Len(got) = n
               /\ n <= Len(log'[Other(d)])
               /\ \A i \in 1..Len(got) :
                    got[i] = [sn |-> i - 1, c |-> log'[Other(d)][i]]
    BY <2>2, <2>3 DEF ReadsAs
  <2>4. ASSUME NEW d \in Endpoint
        PROVE  LET got == out'[d] \o rcv_queue'[d]
               IN  /\ Len(got) = rcv_nxt'[d]
                   /\ rcv_nxt'[d] <= Len(log'[Other(d)])
                   /\ \A i \in 1..Len(got) :
                        got[i] = [sn |-> i - 1, c |-> log'[Other(d)][i]]
    BY <2>1, <2>3, ZenonT(30)
  <2> QED
    BY <2>4, Zenon DEF InOrder
<1>2. \A d \in Endpoint : GenuineArrived(Other(d))' = GenuineArrived(Other(d))
  BY DEF GenuineArrived
<1>3. \A d \in Endpoint : rcv_buf'[d] \in Seq(GenuineArrived(Other(d)))
  BY DEF ReceiverInv
<1> QED
  BY <1>1, <1>2, <1>3 DEF ReceiverInv

\* recv hands out the front of rcv_queue and refills it with what comes next.
LEMMA RecvKeeps ==
  ASSUME GenuineInv, NEW e \in Endpoint, Recv(e)
  PROVE  GenuineInv'
<1> USE DEF GenuineInv
<1> DEFINE q == rcv_queue[e]
           b == rcv_buf[e]
<1>1. PICK n \in 1..Len(q), m \in 0..Len(b) :
        /\ Movable(b, rcv_nxt[e], Len(SubSeq(q, n + 1, Len(q))), m)
        /\ rcv_queue' = [rcv_queue EXCEPT ![e] =
                           SubSeq(q, n + 1, Len(q)) \o SubSeq(b, 1, m)]
        /\ rcv_buf'   = [rcv_buf EXCEPT ![e] = SubSeq(b, m + 1, Len(b))]
        /\ rcv_nxt'   = [rcv_nxt EXCEPT ![e] = @ + m]
        /\ \E tell \in BOOLEAN :
             probe' = [probe EXCEPT ![e] = IF tell THEN @ \cup {"TELL"} ELSE @]
        /\ out'       = [out EXCEPT ![e] = @ \o SubSeq(q, 1, n)]
  BY DEF Recv
<1>2. UNCHANGED <<acklist, sndVars, inVars, outVars, wrote, ends>>
  BY DEF Recv
<1> DEFINE first == SubSeq(q, 1, n)
           left  == SubSeq(q, n + 1, Len(q))
           moved == SubSeq(b, 1, m)
<1>3. /\ q \in Seq(Arrived) /\ out[e] \in Seq(Arrived)
      /\ b \in Seq(GenuineArrived(Other(e)))
      /\ rcv_nxt[e] \in Nat /\ m \in Nat
      /\ n \in 0..Len(q)
      /\ log \in [Endpoint -> Seq(Data)]
      /\ out[e] \o q \in Seq(Arrived)
      /\ ReadsAs(e, out[e] \o q, rcv_nxt[e])
  BY ReceiverOf
<1>4. /\ first \in Seq(Arrived) /\ left \in Seq(Arrived)
      /\ moved \in Seq(Arrived)
      /\ SubSeq(b, m + 1, Len(b)) \in Seq(GenuineArrived(Other(e)))
      /\ SubSeq(b, m + 1, Len(b)) \in Seq(Arrived)
      /\ first \o left = q
  BY <1>3, DropFront, ArrivedPieces, Split
<1>5. (out[e] \o first) \o (left \o moved) = (out[e] \o q) \o moved
  <2>1. Joined(first, left) = q
    BY <1>4 DEF Joined
  <2>2. /\ out[e] \in Seq(Arrived) /\ first \in Seq(Arrived)
        /\ left \in Seq(Arrived) /\ moved \in Seq(Arrived)
    BY <1>3, <1>4
  <2> HIDE DEF q, first, left, moved
  <2>3. Joined(Joined(out[e], first), Joined(left, moved))
          = Joined(Joined(out[e], q), moved)
    BY <2>1, <2>2, Regroup
  <2> QED
    BY <2>3 DEF Joined
<1>6. ReadsAs(e, (out[e] \o first) \o (left \o moved), rcv_nxt[e] + m)
  BY <1>1, <1>3, <1>5, MovedContinues
<1>7. out[e] \o first \in Seq(Arrived) /\ left \o moved \in Seq(Arrived)
  <2> HIDE DEF first, left, moved
  <2> QED
    BY <1>3, <1>4, ConcatProperties
<1>8. \E pr \in SUBSET {"ASK", "TELL"} : probe' = [probe EXCEPT ![e] = pr]
  <2>1. probe[e] \in SUBSET {"ASK", "TELL"}
    BY DEF ReceiverInv
  <2> QED
    BY <1>1, <2>1
<1>9. acklist' = [acklist EXCEPT ![e] = acklist[e]] /\ acklist[e] \in Seq(Nat)
  BY <1>2 DEF ReceiverInv
<1>10. UNCHANGED log
  BY <1>2 DEF sndVars
<1>11. ReceiverInv'
  <2> HIDE DEF first, left, moved
  <2>1. /\ rcv_queue' = [rcv_queue EXCEPT ![e] = left \o moved]
        /\ out' = [out EXCEPT ![e] = out[e] \o first]
        /\ rcv_nxt' = [rcv_nxt EXCEPT ![e] = rcv_nxt[e] + m]
        /\ rcv_nxt[e] + m \in Nat
    BY <1>1, <1>3 DEF first, left, moved
  <2> DEFINE behind == SubSeq(b, m + 1, Len(b))
             ahead  == left \o moved
             gone   == out[e] \o first
  <2>2. PICK pr \in SUBSET {"ASK", "TELL"} : probe' = [probe EXCEPT ![e] = pr]
    BY <1>8
  <2>3. /\ behind \in Seq(Arrived) /\ behind \in Seq(GenuineArrived(Other(e)))
        /\ ahead \in Seq(Arrived) /\ gone \in Seq(Arrived)
        /\ ReadsAs(e, gone \o ahead, rcv_nxt[e] + m)
        /\ rcv_buf' = [rcv_buf EXCEPT ![e] = behind]
        /\ rcv_queue' = [rcv_queue EXCEPT ![e] = ahead]
        /\ out' = [out EXCEPT ![e] = gone]
    BY <1>1, <1>4, <1>6, <1>7, <2>1
  <2> HIDE DEF b, behind, ahead, gone
  <2> QED
    BY <1>9, <1>10, <2>1, <2>2, <2>3, ReceiverStep
<1>12. AppInv'
  BY <1>2 DEF AppInv
<1> QED
  BY <1>2, <1>10, <1>11, <1>12, SenderKept, WireKept

-----------------------------------------------------------------------------
(* input.                                                                  *)

\* The network stops losing datagrams; nothing else changes.
LEMMA SettleKeeps ==
  ASSUME GenuineInv, Settle
  PROVE  GenuineInv'
<1> USE DEF GenuineInv
<1>1. UNCHANGED <<sndVars, rcvVars, appVars, inVars, buf, net, failures>>
      /\ settled' = TRUE
  BY DEF Settle
<1>2. UNCHANGED log /\ UNCHANGED out
  BY <1>1 DEF sndVars, appVars
<1>3. WireInv'
  BY <1>1, <1>2 DEF WireInv, inVars, GenuineSegment
<1>4. AppInv'
  BY <1>1 DEF AppInv, appVars
<1> QED
  BY <1>1, <1>2, <1>3, <1>4, SenderKept, ReceiverKept

\* What is delivered was genuine in the network.
LEMMA DeliverKeeps ==
  ASSUME GenuineInv, NEW e \in Endpoint, NEW d \in net[e], Deliver(e, d)
  PROVE  GenuineInv'
<1> USE DEF GenuineInv
<1>1. /\ UNCHANGED <<sndVars, rcvVars, appVars>>
      /\ UNCHANGED <<max_ack, buf, settled, failures, log, out>>
      /\ rx' = [rx EXCEPT ![e] = d]
      /\ \/ net' = net
         \/ net' = [net EXCEPT ![e] = @ \ {d}]
  BY DEF Deliver, sndVars, appVars
<1>2. d \in Seq(Segment) /\ d \in Seq(GenuineSegment(Other(e)))
  BY DEF WireInv
<1>3. WireInv'
  BY <1>1, <1>2 DEF WireInv, GenuineSegment
<1>4. AppInv'
  BY <1>1 DEF AppInv, appVars
<1> QED
  BY <1>1, <1>3, <1>4, SenderKept, ReceiverKept

\* Counting an ACK against a segment, and transmitting it, leave it genuine.
LEMMA FlightKept ==
  ASSUME NEW e, NEW g \in GenuineFlight(e), NEW x \in Nat
  PROVE  /\ [g EXCEPT !.fastack = x] \in GenuineFlight(e)
         /\ [g EXCEPT !.xmit = TRUE, !.fastack = x] \in GenuineFlight(e)
<1>1. [g EXCEPT !.fastack = x] \in GenuineFlight(e)
  BY DEF GenuineFlight, Flight
<1>2. [g EXCEPT !.xmit = TRUE, !.fastack = x] \in GenuineFlight(e)
  BY DEF GenuineFlight, Flight
<1> QED
  BY <1>1, <1>2

\* Genuine segments in flight are segments in flight.
LEMMA FlightTypes ==
  ASSUME NEW e, NEW sb \in Seq(GenuineFlight(e))
  PROVE  /\ sb \in Seq(Flight)
         /\ Len(sb) \in Nat
         /\ \A i \in 1..Len(sb) : sb[i] \in GenuineFlight(e) /\ sb[i] \in Flight
<1>1. GenuineFlight(e) \subseteq Flight
  BY DEF GenuineFlight
<1> QED
  BY <1>1, SeqMonotonic, LenProperties, ElementOfSeq

\* shrink_buf gives a number.
LEMMA ShrinkIsNumber ==
  ASSUME SenderInv, NEW e \in Endpoint, NEW sb \in Seq(GenuineFlight(e))
  PROVE  shrink_buf(e, sb) \in Nat
<1>1. CASE sb = <<>>
  BY <1>1 DEF shrink_buf, SenderInv
<1>2. CASE sb # <<>>
  <2>1. 1 \in 1..Len(sb)
    BY <1>2, EmptySeq, LenProperties
  <2>2. sb[1] \in Flight
    BY <2>1, FlightTypes
  <2> QED
    BY <1>2, <2>2 DEF shrink_buf, Flight
<1> QED
  BY <1>1, <1>2

\* parse_ack removes at most one segment,
LEMMA ParseAckKeeps ==
  ASSUME NEW e, NEW sb \in Seq(GenuineFlight(e)), NEW sn
  PROVE  parse_ack(e, sb, sn) \in Seq(GenuineFlight(e))
<1> DEFINE found == {i \in 1..Len(sb) : IsAt(sb, sn, i)}
<1>1. CASE InSendWindow(e, shrink_buf(e, sb), sn) /\ found # {}
  <2> DEFINE k == CHOOSE i \in found : TRUE
  <2>1. k \in 1..Len(sb)
    BY <1>1
  <2>2. parse_ack(e, sb, sn) = SubSeq(sb, 1, k - 1) \o SubSeq(sb, k + 1, Len(sb))
    BY <1>1 DEF parse_ack
  <2> HIDE DEF k
  <2>3. k - 1 \in 0..Len(sb) /\ k \in 0..Len(sb)
    BY <2>1, LenProperties
  <2>4. /\ SubSeq(sb, 1, k - 1) \in Seq(GenuineFlight(e))
        /\ SubSeq(sb, k + 1, Len(sb)) \in Seq(GenuineFlight(e))
    BY <2>3, DropFront
  <2> QED
    BY <2>2, <2>4, ConcatProperties
<1>2. CASE ~(InSendWindow(e, shrink_buf(e, sb), sn) /\ found # {})
  <2>1. parse_ack(e, sb, sn) = sb
    BY <1>2 DEF parse_ack
  <2> QED
    BY <2>1
<1> QED
  BY <1>1, <1>2

\* parse_fastack changes only the counters,
LEMMA ParseFastackKeeps ==
  ASSUME NEW e, NEW sb \in Seq(GenuineFlight(e)), NEW sn
  PROVE  parse_fastack(e, sb, sn) \in Seq(GenuineFlight(e))
<1> DEFINE Counted(i) == [sb[i] EXCEPT !.fastack = MinOf(@ + 1, FastResend)]
           all == [i \in 1..Len(sb) |->
                     IF sb[i].sn # sn /\ \A j \in 1..i : sb[j].sn <= sn
                     THEN Counted(i) ELSE sb[i]]
<1>1. ASSUME NEW i \in 1..Len(sb)
      PROVE  Counted(i) \in GenuineFlight(e)
  <2>1. sb[i] \in GenuineFlight(e) /\ sb[i] \in Flight
    BY FlightTypes
  <2>2. MinOf(sb[i].fastack + 1, FastResend) \in Nat
    BY <2>1, ConstantTypes DEF MinOf, Flight
  <2> QED
    BY <2>1, <2>2, FlightKept
<1>2. all \in [1..Len(sb) -> GenuineFlight(e)]
  <2> HIDE DEF Counted
  <2> QED
    BY <1>1, FlightTypes
<1>3. all \in Seq(GenuineFlight(e))
  <2> HIDE DEF all
  <2> QED
    BY <1>2, FlightTypes, FunctionIsSeq
<1> QED
  BY <1>3 DEF parse_fastack

\* What every segment does to the sender keeps the sender's part, the wire's
\* and the application's.
LEMMA FinishKeeps ==
  ASSUME SenderInv, WireInv, AppInv, NEW e \in Endpoint, Busy(e),
         NEW sb \in Seq(GenuineFlight(e)), NEW m \in Nat \cup {-1},
         FinishSegment(e, sb, m)
  PROVE  SenderInv' /\ WireInv' /\ AppInv' /\ UNCHANGED <<log, out>>
<1> DEFINE new == IF Len(rx[e]) = 1 /\ m >= 0 THEN parse_fastack(e, sb, m)
                  ELSE sb
           una == shrink_buf(e, sb)
           win == Head(rx[e]).wnd
           top == IF Len(rx[e]) = 1 THEN -1 ELSE m
<1>1. /\ rx' = [rx EXCEPT ![e] = Tail(rx[e])]
      /\ max_ack' = [max_ack EXCEPT ![e] = top]
      /\ rmt_wnd' = [rmt_wnd EXCEPT ![e] = win]
      /\ snd_una' = [snd_una EXCEPT ![e] = una]
      /\ snd_buf' = [snd_buf EXCEPT ![e] = new]
      /\ UNCHANGED <<snd_queue, snd_nxt, probing, log, appVars, outVars>>
  BY DEF FinishSegment, WireInv, SenderInv
<1>2. new \in Seq(GenuineFlight(e)) /\ new \in Seq(Flight)
  BY ParseFastackKeeps, FlightTypes
<1>3. una \in Nat /\ top \in Nat \cup {-1}
  BY ShrinkIsNumber
<1>4. /\ Tail(rx[e]) \in Seq(Segment)
      /\ Tail(rx[e]) \in Seq(GenuineSegment(Other(e)))
      /\ win \in Nat
  <2>1. rx[e] # <<>> /\ rx[e] \in Seq(Segment)
        /\ rx[e] \in Seq(GenuineSegment(Other(e)))
    BY DEF WireInv, Busy
  <2>2. /\ Tail(rx[e]) \in Seq(Segment) /\ Head(rx[e]) \in Segment
        /\ Tail(rx[e]) \in Seq(GenuineSegment(Other(e)))
    BY <2>1, HeadTailProperties
  <2> QED
    BY <2>2 DEF Segment
<1> HIDE DEF new, una, win, top
<1>5. SenderInv'
  BY <1>1, <1>2, <1>3, <1>4 DEF SenderInv, GenuineFlight
<1>6. WireInv'
  BY <1>1, <1>3, <1>4 DEF WireInv, outVars, GenuineSegment
<1>7. AppInv' /\ UNCHANGED <<log, out>>
  BY <1>1 DEF AppInv, appVars
<1> QED
  BY <1>5, <1>6, <1>7

\* The segment that input() reads next.
LEMMA HeadTypes ==
  ASSUME WireInv, NEW e \in Endpoint, Busy(e)
  PROVE  /\ Head(rx[e]) \in GenuineSegment(Other(e))
         /\ Head(rx[e]) \in Segment
         /\ Head(rx[e]).sn \in Nat /\ Head(rx[e]).c \in Data
<1>1. rx[e] # <<>> /\ rx[e] \in Seq(GenuineSegment(Other(e)))
  BY DEF WireInv, Busy
<1>2. Head(rx[e]) \in GenuineSegment(Other(e))
  BY <1>1, HeadTailProperties
<1> QED
  BY <1>2 DEF GenuineSegment, Segment

\* and parse_una drops some from the front.
LEMMA AfterUnaKeeps ==
  ASSUME SenderInv, NEW e \in Endpoint, NEW k \in 0..Len(snd_buf[e])
  PROVE  AfterUna(e, k) \in Seq(GenuineFlight(e))
  BY DropFront DEF AfterUna, SenderInv

\* An ACK segment disturbs only the sender.
LEMMA InputAckKeeps ==
  ASSUME GenuineInv, NEW e \in Endpoint, InputAck(e)
  PROVE  GenuineInv'
<1> USE DEF GenuineInv
<1> DEFINE sn == Head(rx[e]).sn
           top == MaxOf(max_ack[e], sn)
<1>1. Busy(e) /\ UNCHANGED rcvVars
  BY DEF InputAck
<1>2. PICK k \in 0..Len(snd_buf[e]) :
        FinishSegment(e, parse_ack(e, AfterUna(e, k), sn), top)
  BY DEF InputAck
<1>3. top \in Nat \cup {-1}
  BY <1>1, HeadTypes DEF WireInv, MaxOf
<1>4. parse_ack(e, AfterUna(e, k), sn) \in Seq(GenuineFlight(e))
  BY AfterUnaKeeps, ParseAckKeeps
<1>5. SenderInv' /\ WireInv' /\ AppInv' /\ UNCHANGED <<log, out>>
  <2> HIDE DEF top, sn
  <2> QED
    BY <1>1, <1>2, <1>3, <1>4, FinishKeeps
<1> QED
  BY <1>1, <1>5, ReceiverKept

\* What the segments that carry no ACK do to the sender.
LEMMA UnaKeeps ==
  ASSUME SenderInv, WireInv, AppInv, NEW e \in Endpoint, Busy(e),
         \E k \in 0..Len(snd_buf[e]) :
           /\ Passed(snd_buf[e], Head(rx[e]).una, k)
           /\ FinishSegment(e, AfterUna(e, k), max_ack[e])
  PROVE  SenderInv' /\ WireInv' /\ AppInv' /\ UNCHANGED <<log, out>>
<1>1. PICK k \in 0..Len(snd_buf[e]) :
        FinishSegment(e, AfterUna(e, k), max_ack[e])
  OBVIOUS
<1>2. max_ack[e] \in Nat \cup {-1} /\ AfterUna(e, k) \in Seq(GenuineFlight(e))
  BY AfterUnaKeeps DEF WireInv
<1> QED
  BY <1>1, <1>2, FinishKeeps

\* So does a window command, but for the pending commands.
LEMMA InputWindowKeeps ==
  ASSUME GenuineInv, NEW e \in Endpoint, InputWindow(e)
  PROVE  GenuineInv'
<1> USE DEF GenuineInv
<1>1. Busy(e) /\ UNCHANGED <<rcv_buf, rcv_queue, rcv_nxt, acklist>>
  BY DEF InputWindow
<1>2. SenderInv' /\ WireInv' /\ AppInv' /\ UNCHANGED <<log, out>>
  BY <1>1, UnaKeeps DEF InputWindow
<1>3. PICK pr : /\ pr \in {probe[e], probe[e] \cup {"TELL"}}
                /\ probe' = [probe EXCEPT ![e] = pr]
  BY DEF InputWindow
<1>4. ReceiverInv'
  BY <1>1, <1>2, <1>3 DEF ReceiverInv, GenuineArrived, InOrder
<1> QED
  BY <1>2, <1>4

\* Data that is refused leaves rcv_buf and rcv_queue alone.
LEMMA InputPushRefusedKeeps ==
  ASSUME GenuineInv, NEW e \in Endpoint, InputPushRefused(e)
  PROVE  GenuineInv'
<1> USE DEF GenuineInv
<1>1. Busy(e) /\ UNCHANGED <<rcv_buf, rcv_queue, rcv_nxt, probe>>
  BY DEF InputPushRefused
<1>2. SenderInv' /\ WireInv' /\ AppInv' /\ UNCHANGED <<log, out>>
  BY <1>1, UnaKeeps DEF InputPushRefused
<1>3. PICK al : /\ al \in {acklist[e], Append(acklist[e], Head(rx[e]).sn)}
                /\ acklist' = [acklist EXCEPT ![e] = al]
  BY DEF InputPushRefused
<1>4. al \in Seq(Nat)
  <2> DEFINE sn == Head(rx[e]).sn
  <2>1. sn \in Nat /\ acklist[e] \in Seq(Nat)
    BY <1>1, HeadTypes DEF ReceiverInv
  <2> HIDE DEF sn
  <2>2. Append(acklist[e], sn) \in Seq(Nat)
    BY <2>1, AppendProperties
  <2> QED
    BY <1>3, <2>1, <2>2 DEF sn
<1>5. ReceiverInv'
  BY <1>1, <1>2, <1>3, <1>4 DEF ReceiverInv, GenuineArrived, InOrder
<1> QED
  BY <1>2, <1>5

\* parse_data puts a genuine segment among genuine ones.
LEMMA InsertKeeps ==
  ASSUME NEW S, NEW b \in Seq(S), NEW seg \in S, NEW p \in 0..Len(b)
  PROVE  Insert(b, seg, p) \in Seq(S)
<1>1. /\ SubSeq(b, 1, p) \in Seq(S)
      /\ SubSeq(b, p + 1, Len(b)) \in Seq(S)
      /\ <<seg>> \in Seq(S)
  BY DropFront
<1>2. SubSeq(b, 1, p) \o <<seg>> \o SubSeq(b, p + 1, Len(b)) \in Seq(S)
  BY <1>1, ConcatProperties
<1> QED
  BY <1>2 DEF Insert

\* Data that is stored is genuine, and what moves on to rcv_queue comes next.
LEMMA InputPushStoredKeeps ==
  ASSUME GenuineInv, NEW e \in Endpoint, InputPushStored(e)
  PROVE  GenuineInv'
<1> USE DEF GenuineInv
<1> DEFINE s   == Head(rx[e])
           seg == [sn |-> s.sn, c |-> s.c]
           o   == out[e]
           q   == rcv_queue[e]
<1>1. Busy(e) /\ s.cmd = "PUSH" /\ UNCHANGED probe
      /\ acklist' = [acklist EXCEPT ![e] = Append(acklist[e], s.sn)]
  BY DEF InputPushStored, ReceiverInv
<1>2. SenderInv' /\ WireInv' /\ AppInv' /\ UNCHANGED <<log, out>>
  BY <1>1, UnaKeeps DEF InputPushStored
<1>3. PICK p \in 0..Len(rcv_buf[e]) :
        \E m \in 0..Len(Insert(rcv_buf[e], seg, p)) :
          LET b == Insert(rcv_buf[e], seg, p)
          IN /\ Movable(b, rcv_nxt[e], Len(q), m)
             /\ rcv_queue' = [rcv_queue EXCEPT ![e] = @ \o SubSeq(b, 1, m)]
             /\ rcv_buf' = [rcv_buf EXCEPT ![e] = SubSeq(b, m + 1, Len(b))]
             /\ rcv_nxt' = [rcv_nxt EXCEPT ![e] = @ + m]
  BY DEF InputPushStored
<1> DEFINE b == Insert(rcv_buf[e], seg, p)
<1>4. seg \in GenuineArrived(Other(e))
  <2>1. s \in GenuineSegment(Other(e)) /\ s.sn \in Nat /\ s.c \in Data
    BY <1>1, HeadTypes
  <2> HIDE DEF s
  <2> QED
    BY <1>1, <2>1 DEF GenuineSegment, GenuineArrived, Arrived
<1>5. b \in Seq(GenuineArrived(Other(e)))
  <2>1. rcv_buf[e] \in Seq(GenuineArrived(Other(e)))
    BY ReceiverOf
  <2> HIDE DEF seg
  <2> QED
    BY <1>4, <2>1, InsertKeeps
<1> HIDE DEF b
<1>6. PICK m \in 0..Len(b) :
        /\ Movable(b, rcv_nxt[e], Len(q), m)
        /\ rcv_queue' = [rcv_queue EXCEPT ![e] = q \o SubSeq(b, 1, m)]
        /\ rcv_buf' = [rcv_buf EXCEPT ![e] = SubSeq(b, m + 1, Len(b))]
        /\ rcv_nxt' = [rcv_nxt EXCEPT ![e] = rcv_nxt[e] + m]
  BY <1>3 DEF b, ReceiverInv
<1> DEFINE moved  == SubSeq(b, 1, m)
           behind == SubSeq(b, m + 1, Len(b))
           ahead  == q \o moved
<1>7. /\ log \in [Endpoint -> Seq(Data)] /\ rcv_nxt[e] \in Nat
      /\ o \in Seq(Arrived) /\ q \in Seq(Arrived)
      /\ o \o q \in Seq(Arrived) /\ ReadsAs(e, o \o q, rcv_nxt[e])
      /\ rcv_nxt[e] + m \in Nat
  BY <1>5, ReceiverOf, LenProperties
<1>8. ReadsAs(e, (o \o q) \o moved, rcv_nxt[e] + m)
  BY <1>5, <1>6, <1>7, MovedContinues
<1>9. /\ moved \in Seq(Arrived) /\ behind \in Seq(Arrived)
      /\ behind \in Seq(GenuineArrived(Other(e)))
  BY <1>5, ArrivedPieces
<1>10. ahead \in Seq(Arrived) /\ ReadsAs(e, o \o ahead, rcv_nxt[e] + m)
  <2> HIDE DEF o, q, moved
  <2>1. ahead \in Seq(Arrived)
    BY <1>7, <1>9, ConcatProperties
  <2>2. Joined(Joined(o, q), moved) = Joined(o, Joined(q, moved))
    BY <1>7, <1>9, JoinedAssociative
  <2>3. (o \o q) \o moved = o \o ahead
    BY <2>2 DEF Joined
  <2> QED
    BY <1>8, <2>1, <2>3
<1>11. Append(acklist[e], s.sn) \in Seq(Nat)
  BY <1>1, HeadTypes, AppendProperties DEF ReceiverInv
<1>12. /\ probe[e] \in SUBSET {"ASK", "TELL"}
       /\ probe' = [probe EXCEPT ![e] = probe[e]]
       /\ out' = [out EXCEPT ![e] = o]
  BY <1>1, <1>2 DEF ReceiverInv
<1>13. ReceiverInv'
  <2> DEFINE al == Append(acklist[e], s.sn)
  <2>1. /\ rcv_queue' = [rcv_queue EXCEPT ![e] = ahead]
        /\ rcv_buf' = [rcv_buf EXCEPT ![e] = behind]
        /\ acklist' = [acklist EXCEPT ![e] = al] /\ al \in Seq(Nat)
        /\ UNCHANGED log
    BY <1>1, <1>2, <1>6, <1>11
  <2> HIDE DEF o, q, behind, ahead, al
  <2> QED
    BY <1>6, <1>7, <1>9, <1>10, <1>12, <2>1, ReceiverStep
<1> QED
  BY <1>2, <1>13

-----------------------------------------------------------------------------
(* flush.                                                                  *)

\* A step may number more data, and changes no number it gave before.
LogGrows ==
  /\ log \in [Endpoint -> Seq(Data)] /\ log' \in [Endpoint -> Seq(Data)]
  /\ \A d \in Endpoint :
       /\ Len(log[d]) <= Len(log'[d])
       /\ \A i \in 1..Len(log[d]) : log'[d][i] = log[d][i]

\* What is genuine stays so.
LEMMA StaysGenuine ==
  ASSUME LogGrows, NEW d \in Endpoint
  PROVE  /\ GenuineFlight(d) \subseteq GenuineFlight(d)'
         /\ GenuineArrived(d) \subseteq GenuineArrived(d)'
         /\ GenuineSegment(d) \subseteq GenuineSegment(d)'
<1>1. Len(log[d]) \in Nat /\ Len(log'[d]) \in Nat
  BY LenProperties DEF LogGrows
<1>2. ASSUME NEW sn \in Nat, sn < Len(log[d])
      PROVE  sn < Len(log'[d]) /\ log'[d][sn + 1] = log[d][sn + 1]
  <2>1. sn + 1 \in 1..Len(log[d])
    BY <1>1, <1>2
  <2> QED
    BY <1>1, <1>2, <2>1 DEF LogGrows
<1>3. GenuineFlight(d) \subseteq GenuineFlight(d)'
  BY <1>2 DEF GenuineFlight, Flight
<1>4. GenuineArrived(d) \subseteq GenuineArrived(d)'
  BY <1>2 DEF GenuineArrived, Arrived
<1>5. GenuineSegment(d) \subseteq GenuineSegment(d)'
  BY <1>2 DEF GenuineSegment, Segment
<1> QED
  BY <1>3, <1>4, <1>5

\* A step that numbers nothing keeps every number.
LEMMA SameLogGrows ==
  ASSUME SenderInv, UNCHANGED log
  PROVE  LogGrows
<1>1. \A d \in Endpoint : Len(log[d]) \in Nat
  BY LenProperties DEF SenderInv
<1> QED
  BY <1>1 DEF SenderInv, LogGrows

\* The receiver is not disturbed when numbers are given.
LEMMA ReceiverGrows ==
  ASSUME ReceiverInv, LogGrows,
         UNCHANGED <<rcv_buf, rcv_queue, rcv_nxt, out>>,
         acklist' \in [Endpoint -> Seq(Nat)],
         probe' \in [Endpoint -> SUBSET {"ASK", "TELL"}]
  PROVE  ReceiverInv'
<1>1. InOrder'
  <2>1. ASSUME NEW d \in Endpoint, NEW got, NEW n \in Nat, ReadsAs(d, got, n)
        PROVE  /\ Len(got) = n
               /\ n <= Len(log'[Other(d)])
               /\ \A i \in 1..Len(got) :
                    got[i] = [sn |-> i - 1, c |-> log'[Other(d)][i]]
    <3> DEFINE o == Other(d)
    <3>1. /\ o \in Endpoint
          /\ Len(log[o]) \in Nat /\ Len(log'[o]) \in Nat
      BY OtherEnd, LenProperties DEF LogGrows
    <3>2. /\ Len(got) = n /\ n <= Len(log[o])
          /\ \A i \in 1..Len(got) : got[i] = [sn |-> i - 1, c |-> log[o][i]]
      BY <2>1 DEF ReadsAs
    <3>3. /\ Len(log[o]) <= Len(log'[o])
          /\ \A i \in 1..Len(log[o]) : log'[o][i] = log[o][i]
      BY <3>1 DEF LogGrows
    <3> HIDE DEF o
    <3>4. \A i \in 1..Len(got) : log'[o][i] = log[o][i]
      BY <3>1, <3>2, <3>3
    <3>5. ASSUME NEW i \in 1..Len(got)
          PROVE  got[i] = [sn |-> i - 1, c |-> log'[o][i]]
      BY <3>2, <3>4
    <3>6. Len(got) = n /\ n <= Len(log'[o])
      BY <3>1, <3>2, <3>3
    <3> QED
      BY <3>5, <3>6 DEF o
  <2>2. ASSUME NEW d \in Endpoint
        PROVE  LET got == out'[d] \o rcv_queue'[d]
               IN  /\ Len(got) = rcv_nxt'[d]
                   /\ rcv_nxt'[d] <= Len(log'[Other(d)])
                   /\ \A i \in 1..Len(got) :
                        got[i] = [sn |-> i - 1, c |-> log'[Other(d)][i]]
    <3> DEFINE got == out'[d] \o rcv_queue'[d]
    <3>1. ReadsAs(d, got, rcv_nxt'[d]) /\ rcv_nxt'[d] \in Nat
      BY InOrderIsReadsAs DEF ReceiverInv
    <3> HIDE DEF got
    <3>2. /\ Len(got) = rcv_nxt'[d]
          /\ rcv_nxt'[d] <= Len(log'[Other(d)])
          /\ \A i \in 1..Len(got) :
               got[i] = [sn |-> i - 1, c |-> log'[Other(d)][i]]
      BY <2>1, <3>1
    <3> QED
      BY <3>2 DEF got
  <2> QED
    BY <2>2, Zenon DEF InOrder
<1>2. \A d \in Endpoint : rcv_buf[d] \in Seq(GenuineArrived(Other(d))')
  BY OtherEnd, StaysGenuine, SeqMonotonic DEF ReceiverInv
<1> QED
  BY <1>1, <1>2 DEF ReceiverInv

\* The window that is advertised is never negative.
LEMMA WindowIsNumber ==
  ASSUME ReceiverInv, NEW e \in Endpoint
  PROVE  wnd_unused(e) \in Nat
<1>1. Len(rcv_queue[e]) \in Nat
  BY LenProperties DEF ReceiverInv
<1> QED
  BY <1>1, ConstantTypes DEF wnd_unused

\* ACKs and window commands carry no data.
LEMMA HeaderIsGenuine ==
  ASSUME ReceiverInv, NEW e \in Endpoint, NEW cmd \in Command \ {"PUSH"},
         NEW sn \in Nat
  PROVE  Header(e, cmd, sn) \in GenuineSegment(e)
<1>1. /\ wnd_unused(e) \in Nat /\ rcv_nxt[e] \in Nat
      /\ NoData \in Data /\ cmd \in Command
  BY WindowIsNumber DEF ReceiverInv, NoData, Data
<1>2. Header(e, cmd, sn) \in Segment
  BY <1>1 DEF Header, Segment
<1>3. Header(e, cmd, sn).cmd # "PUSH"
  BY DEF Header
<1> QED
  BY <1>2, <1>3 DEF GenuineSegment

\* ACK segments carry no data,
LEMMA AcksAreGenuine ==
  ASSUME ReceiverInv, NEW e \in Endpoint
  PROVE  AckSegments(e) \in Seq(GenuineSegment(e))
<1>1. acklist[e] \in Seq(Nat) /\ Len(acklist[e]) \in Nat
  BY LenProperties DEF ReceiverInv
<1>2. ASSUME NEW i \in 1..Len(acklist[e])
      PROVE  Header(e, "ACK", acklist[e][i]) \in GenuineSegment(e)
  <2>1. acklist[e][i] \in Nat
    BY <1>1, ElementOfSeq
  <2> QED
    BY <2>1, HeaderIsGenuine DEF Command
<1>3. AckSegments(e) \in [1..Len(acklist[e]) -> GenuineSegment(e)]
  BY <1>2 DEF AckSegments
<1> QED
  BY <1>1, <1>3, FunctionIsSeq

\* nor do window commands.
LEMMA ProbesAreGenuine ==
  ASSUME ReceiverInv, NEW e \in Endpoint, NEW asked
  PROVE  ProbeSegments(e, asked) \in Seq(GenuineSegment(e))
<1> DEFINE ask  == IF "ASK" \in asked THEN <<Header(e, "WASK", 0)>> ELSE <<>>
           tell == IF "TELL" \in asked THEN <<Header(e, "WINS", 0)>> ELSE <<>>
<1>1. /\ Header(e, "WASK", 0) \in GenuineSegment(e)
      /\ Header(e, "WINS", 0) \in GenuineSegment(e)
  BY HeaderIsGenuine DEF Command
<1>2. ask \in Seq(GenuineSegment(e)) /\ tell \in Seq(GenuineSegment(e))
  BY <1>1, EmptySeq
<1>3. ProbeSegments(e, asked) = ask \o tell
  BY DEF ProbeSegments
<1> HIDE DEF ask, tell
<1> QED
  BY <1>2, <1>3, ConcatProperties

\* flush numbers some of the segments that wait, from the front.
LEMMA AdmittedIsFront ==
  ASSUME SenderInv, NEW e \in Endpoint, NEW cwnd \in Nat
  PROVE  Admitted(e, cwnd) \in 0..Len(snd_queue[e])
<1>1. /\ Len(snd_queue[e]) \in Nat /\ rmt_wnd[e] \in Nat
      /\ snd_una[e] \in Nat /\ snd_nxt[e] \in Nat
  BY LenProperties DEF SenderInv
<1> DEFINE wnd == MinOf(MinOf(SndWnd, rmt_wnd[e]), cwnd)
           len == Len(snd_queue[e])
           let == MinOf(len, snd_una[e] + wnd - snd_nxt[e])
<1>2. wnd \in Nat
  BY <1>1, ConstantTypes DEF MinOf
<1>3. Admitted(e, cwnd) = MaxOf(0, let)
  BY DEF Admitted
<1> HIDE DEF wnd
<1>4. let \in Int /\ let <= len
  BY <1>1, <1>2 DEF MinOf
<1> HIDE DEF let
<1> QED
  BY <1>1, <1>3, <1>4 DEF MaxOf

\* The datagrams are pieces of what was encoded, in which each element up to
\* the end of the piece counts.
LEMMA DatagramOf ==
  ASSUME NEW S, NEW T, NEW segs \in Seq(S), NEW j \in 1..Len(Datagrams(segs)),
         \A i \in 1..Len(segs) : i <= j * MTU => segs[i] \in T
  PROVE  Datagrams(segs)[j] \in Seq(T)
<1>1. Len(segs) \in Nat /\ MTU \in Nat \ {0}
  BY LenProperties, ConstantTypes
<1>2. CeilDiv(Len(segs), MTU) \in Nat
  BY <1>1 DEF CeilDiv
<1>3. j \in 1..CeilDiv(Len(segs), MTU)
  BY <1>2, LenProperties DEF Datagrams
<1> DEFINE lo == (j - 1) * MTU + 1
           hi == MinOf(j * MTU, Len(segs))
<1>4. Datagrams(segs)[j] = SubSeq(segs, lo, hi)
  BY <1>3 DEF Datagrams
<1>5. j - 1 \in Nat /\ j \in Nat
  BY <1>2, <1>3
<1>6. (j - 1) * MTU \in Nat /\ j * MTU \in Nat
  BY <1>1, <1>5
<1>7. /\ lo \in Nat \ {0} /\ hi \in Int
      /\ hi <= Len(segs) /\ hi <= j * MTU
  BY <1>1, <1>6 DEF MinOf
<1> HIDE DEF lo, hi
<1>8. \A i \in lo..hi : segs[i] \in T
  BY <1>1, <1>6, <1>7
<1> QED
  BY <1>4, <1>7, <1>8, SubSeqProperties

\* The number of datagrams of a flush.
LEMMA DatagramCount ==
  ASSUME NEW S, NEW segs \in Seq(S)
  PROVE  Len(Datagrams(segs)) \in Nat
<1>1. Len(segs) \in Nat /\ MTU \in Nat \ {0}
  BY LenProperties, ConstantTypes
<1>2. CeilDiv(Len(segs), MTU) \in Nat
  BY <1>1 DEF CeilDiv
<1> QED
  BY <1>2, LenProperties DEF Datagrams

\* A set of segments in flight that transmitting and counting ACKs keep.
KeptBySending(S) ==
  /\ S \subseteq Flight
  /\ \A g \in S : \A x \in Nat : [g EXCEPT !.xmit = TRUE, !.fastack = x] \in S

\* Genuine segments stay genuine when they are sent.
LEMMA GenuineKeptBySending ==
  ASSUME NEW e
  PROVE  KeptBySending(GenuineFlight(e)')
<1>1. GenuineFlight(e)' \subseteq Flight
  BY DEF GenuineFlight
<1>2. ASSUME NEW g \in GenuineFlight(e)', NEW x \in Nat
      PROVE  [g EXCEPT !.xmit = TRUE, !.fastack = x] \in GenuineFlight(e)'
  BY DEF GenuineFlight, Flight
<1> QED
  BY <1>1, <1>2 DEF KeptBySending

\* Transmitting keeps such a set.
LEMMA TransmittedKeeps ==
  ASSUME NEW S, KeptBySending(S), NEW sb \in Seq(S), NEW late, NEW places
  PROVE  Transmitted(sb, late, places) \in Seq(S)
<1>1. Len(sb) \in Nat
  BY LenProperties
<1> DEFINE Count(i) == IF sb[i].xmit /\ i \notin late THEN 0 ELSE sb[i].fastack
           Now(i)   == [sb[i] EXCEPT !.xmit = TRUE, !.fastack = Count(i)]
           new      == [i \in 1..Len(sb) |->
                          IF i \notin places THEN sb[i] ELSE Now(i)]
<1>2. ASSUME NEW i \in 1..Len(sb)
      PROVE  sb[i] \in S /\ Now(i) \in S
  <2>1. sb[i] \in S /\ sb[i] \in Flight
    BY ElementOfSeq DEF KeptBySending
  <2>2. Count(i) \in Nat
    BY <2>1 DEF Flight
  <2> HIDE DEF Count
  <2> QED
    BY <2>1, <2>2 DEF KeptBySending
<1>3. Transmitted(sb, late, places) = new
  BY DEF Transmitted
<1>4. new \in [1..Len(sb) -> S]
  <2> HIDE DEF Now
  <2> QED
    BY <1>2
<1> HIDE DEF new
<1> QED
  BY <1>1, <1>3, <1>4, FunctionIsSeq

\* Numbers given to the first n pieces of the queue.
LEMMA NumberedTypes ==
  ASSUME SenderInv, NEW e \in Endpoint, NEW n \in 0..Len(snd_queue[e])
  PROVE  /\ Numbered(e, n) \in Seq(Flight) /\ Len(Numbered(e, n)) = n
         /\ snd_buf[e] \o Numbered(e, n) \in Seq(Flight)
<1>1. /\ snd_queue[e] \in Seq(Data) /\ snd_nxt[e] \in Nat
      /\ Len(snd_queue[e]) \in Nat /\ n \in Nat /\ snd_buf[e] \in Seq(Flight)
  BY LenProperties DEF SenderInv
<1>2. \A i \in 1..n : snd_queue[e][i] \in Data
  BY <1>1, ElementOfSeq
<1>3. Numbered(e, n) \in [1..n -> Flight]
  BY <1>1, <1>2 DEF Numbered, Flight
<1>4. Numbered(e, n) \in Seq(Flight) /\ Len(Numbered(e, n)) = n
  BY <1>1, <1>3, FunctionIsSeq
<1> QED
  BY <1>1, <1>4, ConcatProperties

\* What flush numbers is genuine for the log that it extends.
LEMMA NumberedIsGenuine ==
  ASSUME SenderInv, NEW e \in Endpoint, NEW n \in 0..Len(snd_queue[e]),
         log' = [log EXCEPT ![e] = @ \o SubSeq(snd_queue[e], 1, n)]
  PROVE  /\ LogGrows
         /\ Len(log'[e]) = snd_nxt[e] + n
         /\ snd_buf[e] \o Numbered(e, n) \in Seq(GenuineFlight(e)')
<1> DEFINE front == SubSeq(snd_queue[e], 1, n)
           nxt   == snd_nxt[e]
<1>1. /\ snd_queue[e] \in Seq(Data) /\ nxt \in Nat
      /\ Len(snd_queue[e]) \in Nat /\ n \in Nat
      /\ log[e] \in Seq(Data) /\ Len(log[e]) = nxt
      /\ snd_buf[e] \in Seq(GenuineFlight(e))
  BY LenProperties DEF SenderInv
<1>2. /\ front \in Seq(Data) /\ Len(front) = n
      /\ \A i \in 1..n : front[i] = snd_queue[e][i]
  <2>1. 1 \in Nat \ {0} /\ n \in Int /\ n <= Len(snd_queue[e])
    BY <1>1
  <2> QED
    BY <1>1, <2>1, Piece
<1>3. log'[e] = log[e] \o front /\ \A d \in Endpoint \ {e} : log'[d] = log[d]
  BY DEF SenderInv
<1> HIDE DEF front
<1>4. /\ log'[e] \in Seq(Data) /\ Len(log'[e]) = nxt + n
      /\ \A i \in 1..nxt : log'[e][i] = log[e][i]
      /\ \A i \in 1..n : log'[e][nxt + i] = front[i]
  <2> DEFINE old == log[e]
             new == log'[e]
  <2>1. /\ old \in Seq(Data) /\ Len(old) = nxt /\ nxt \in Nat
        /\ front \in Seq(Data) /\ Len(front) = n /\ n \in Nat
        /\ new = old \o front
    BY <1>1, <1>2, <1>3
  <2> HIDE DEF old, new, nxt
  <2>2. /\ old \o front \in Seq(Data)
        /\ Len(old \o front) = nxt + n
        /\ \A i \in 1..(nxt + n) : (old \o front)[i] =
             IF i <= nxt THEN old[i] ELSE front[i - nxt]
    BY <2>1, ConcatProperties
  <2>3. /\ new \in Seq(Data) /\ Len(new) = nxt + n
        /\ \A i \in 1..nxt : new[i] = old[i]
        /\ \A i \in 1..n : new[nxt + i] = front[i]
    BY <2>1, <2>2
  <2> QED
    BY <2>3 DEF old, new
<1>5. LogGrows
  <2>1. log' \in [Endpoint -> Seq(Data)]
    BY <1>3, <1>4 DEF SenderInv
  <2>2. ASSUME NEW d \in Endpoint
        PROVE  /\ Len(log[d]) <= Len(log'[d])
               /\ \A i \in 1..Len(log[d]) : log'[d][i] = log[d][i]
    <3>1. CASE d = e
      BY <1>1, <1>4, <3>1
    <3>2. CASE d # e
      <4> DEFINE old == log[d]
                 new == log'[d]
      <4>1. new = old /\ Len(old) \in Nat
        BY <1>3, <3>2, LenProperties DEF SenderInv
      <4> HIDE DEF old, new
      <4>2. Len(old) <= Len(new) /\ \A i \in 1..Len(old) : new[i] = old[i]
        BY <4>1
      <4> QED
        BY <4>2 DEF old, new
    <3> QED
      BY <3>1, <3>2
  <2> QED
    BY <2>1, <2>2 DEF LogGrows, SenderInv
<1>6. Numbered(e, n) \in Seq(GenuineFlight(e)')
  <2>1. ASSUME NEW i \in 1..n
        PROVE  Numbered(e, n)[i] \in GenuineFlight(e)'
    <3>1. /\ Numbered(e, n)[i].sn = nxt + i - 1
          /\ Numbered(e, n)[i].c = snd_queue[e][i]
      BY DEF Numbered
    <3>2. Numbered(e, n)[i] \in Flight
      BY NumberedTypes, ElementOfSeq
    <3>3. nxt + i - 1 < Len(log'[e]) /\ (nxt + i - 1) + 1 = nxt + i
      BY <1>1, <1>4
    <3>4. log'[e][nxt + i] = snd_queue[e][i]
      BY <1>2, <1>4
    <3> QED
      BY <3>1, <3>2, <3>3, <3>4 DEF GenuineFlight
  <2>2. Numbered(e, n) \in [1..n -> GenuineFlight(e)']
    BY <2>1 DEF Numbered
  <2> QED
    BY <1>1, <2>2, FunctionIsSeq
<1>7. snd_buf[e] \in Seq(GenuineFlight(e)')
  BY <1>1, <1>5, StaysGenuine, SeqMonotonic
<1> QED
  BY <1>4, <1>5, <1>6, <1>7, ConcatProperties

\* The places that are due are places of snd_buf, and finitely many.
LEMMA DueAreFew ==
  ASSUME NEW S, NEW sb \in Seq(S), NEW late
  PROVE  /\ DuePlaces(sb, late) \subseteq 1..Len(sb)
         /\ Cardinality(DuePlaces(sb, late)) \in Nat
<1>1. DuePlaces(sb, late) \subseteq 1..Len(sb)
  BY DEF DuePlaces
<1>2. Len(sb) \in Nat /\ 1 \in Int /\ Len(sb) \in Int
  BY LenProperties
<1>3. IsFiniteSet(1..Len(sb))
  BY <1>2, FS_Interval
<1> QED
  BY <1>1, <1>3, FS_Subset, FS_CardinalityType

\* The data segments of a flush are as many as the places that are due.
LEMMA DataTypes ==
  ASSUME ReceiverInv, NEW e \in Endpoint, NEW sb \in Seq(Flight),
         NEW k \in Nat, NEW due \in [1..k -> 1..Len(sb)]
  PROVE  /\ DataSegments(e, sb, due) \in Seq(Segment)
         /\ Len(DataSegments(e, sb, due)) = k
         /\ sb \in Seq(GenuineFlight(e)') =>
              \A p \in 1..k : DataSegments(e, sb, due)[p] \in GenuineSegment(e)'
<1>1. wnd_unused(e) \in Nat /\ rcv_nxt[e] \in Nat
  BY WindowIsNumber DEF ReceiverInv
<1>2. due \in Seq(1..Len(sb)) /\ Len(due) = k
  BY FunctionIsSeq
<1> DEFINE Sending(p) == [cmd |-> "PUSH", sn |-> sb[due[p]].sn,
                          c |-> sb[due[p]].c, wnd |-> wnd_unused(e),
                          una |-> rcv_nxt[e]]
<1>3. DataSegments(e, sb, due) = [p \in 1..k |-> Sending(p)]
  BY <1>2 DEF DataSegments
<1>4. ASSUME NEW p \in 1..k
      PROVE  Sending(p) \in Segment
  <2>1. sb[due[p]] \in Flight
    BY ElementOfSeq
  <2> QED
    BY <1>1, <2>1 DEF Segment, Command, Flight
<1>5. ASSUME NEW p \in 1..k, sb \in Seq(GenuineFlight(e)')
      PROVE  Sending(p) \in GenuineSegment(e)'
  <2>1. sb[due[p]] \in GenuineFlight(e)'
    BY <1>5, ElementOfSeq
  <2>2. /\ sb[due[p]].sn < Len(log'[e])
        /\ sb[due[p]].c = log'[e][sb[due[p]].sn + 1]
    BY <2>1 DEF GenuineFlight
  <2>3. Sending(p).sn = sb[due[p]].sn /\ Sending(p).c = sb[due[p]].c
    OBVIOUS
  <2>4. Sending(p) \in Segment
    BY <1>4
  <2> HIDE DEF Sending
  <2> QED
    BY <2>2, <2>3, <2>4 DEF GenuineSegment
<1> HIDE DEF Sending
<1>6. DataSegments(e, sb, due) \in [1..k -> Segment]
  BY <1>3, <1>4
<1> QED
  BY <1>3, <1>5, <1>6, FunctionIsSeq

\* The network carries what it did, and what was sent.
LEMMA CarriedIsSent ==
  ASSUME NEW o, NEW sent, NEW after \in Carried(o, sent)
  PROVE  after \subseteq net[o] \cup sent
  BY DEF Carried

\* What a flush encodes: the front, which carries no new data, then the data.
LEMMA EncodedParts ==
  ASSUME SenderInv, ReceiverInv, WireInv, NEW e \in Endpoint, NEW asked,
         NEW sb \in Seq(Flight), NEW k \in Nat, NEW due \in [1..k -> 1..Len(sb)]
  PROVE  /\ Encoded(e, asked, sb, due) \in Seq(Segment)
         /\ Len(AckSegments(e)) \in Nat
         /\ Len(ProbeSegments(e, asked)) \in Nat
         /\ Len(buf[e]) \in Nat
         /\ Len(Encoded(e, asked, sb, due)) =
              Len(buf[e]) + Len(AckSegments(e))
                + Len(ProbeSegments(e, asked)) + k
         /\ LogGrows =>
              \A i \in 1..Len(Encoded(e, asked, sb, due)) :
                \/ sb \in Seq(GenuineFlight(e)')
                \/ i <= Len(buf[e]) + Len(AckSegments(e))
                          + Len(ProbeSegments(e, asked))
                => Encoded(e, asked, sb, due)[i] \in GenuineSegment(e)'
<1> DEFINE acks   == AckSegments(e)
           probes == ProbeSegments(e, asked)
           front  == buf[e] \o acks \o probes
           data   == DataSegments(e, sb, due)
           G      == GenuineSegment(e)
           a      == Len(buf[e]) + Len(acks) + Len(probes)
<1>1. /\ acks \in Seq(G) /\ probes \in Seq(G) /\ buf[e] \in Seq(G)
      /\ Len(acks) \in Nat /\ Len(probes) \in Nat /\ Len(buf[e]) \in Nat
  BY AcksAreGenuine, ProbesAreGenuine, LenProperties DEF WireInv
<1>2. front \in Seq(G) /\ Len(front) = a /\ a \in Nat
  <2> HIDE DEF acks, probes, G
  <2>1. buf[e] \o acks \in Seq(G) /\ Len(buf[e] \o acks) = Len(buf[e]) + Len(acks)
    BY <1>1, ConcatProperties
  <2> QED
    BY <1>1, <2>1, ConcatProperties
<1>3. /\ data \in Seq(Segment) /\ Len(data) = k
      /\ sb \in Seq(GenuineFlight(e)') =>
           \A p \in 1..k : data[p] \in GenuineSegment(e)'
  BY DataTypes
<1>4. G \subseteq Segment
  BY DEF GenuineSegment
<1>5. front \in Seq(Segment)
  <2> HIDE DEF front, G
  <2> QED
    BY <1>2, <1>4, SeqMonotonic
<1>6. Encoded(e, asked, sb, due) = front \o data
  BY DEF Encoded
<1> HIDE DEF front, data, a
<1>7. /\ front \o data \in Seq(Segment)
      /\ Len(front \o data) = a + k
      /\ \A i \in 1..(a + k) :
           (front \o data)[i] = IF i <= a THEN front[i] ELSE data[i - a]
  BY <1>2, <1>3, <1>5, ConcatProperties
<1>8. ASSUME LogGrows, NEW i \in 1..(a + k),
             sb \in Seq(GenuineFlight(e)') \/ i <= a
      PROVE  (front \o data)[i] \in GenuineSegment(e)'
  <2>1. CASE i <= a
    <3>1. i \in 1..a
      BY <1>2, <2>1
    <3>2. front[i] \in G
      BY <1>2, <3>1, ElementOfSeq
    <3>3. G \subseteq GenuineSegment(e)'
      BY <1>8, StaysGenuine
    <3> QED
      BY <1>7, <2>1, <3>2, <3>3
  <2>2. CASE ~(i <= a)
    <3>1. i - a \in 1..k
      BY <1>2, <2>2
    <3> QED
      BY <1>3, <1>7, <1>8, <2>2, <3>1
  <2> QED
    BY <2>1, <2>2
<1> QED
  BY <1>1, <1>6, <1>7, <1>8 DEF a

\* flush keeps the invariant wherever a send of the socket fails.
LEMMA FlushKeeps ==
  ASSUME GenuineInv, NEW e \in Endpoint, NEW cwnd \in Nat, NEW fired, NEW late,
         NEW fails, Flush(e, cwnd, fired, late, fails)
  PROVE  GenuineInv'
<1> USE DEF GenuineInv
<1> DEFINE asked == Asked(e, fired)
           n     == Admitted(e, cwnd)
           sb    == snd_buf[e] \o Numbered(e, n)
           D     == DuePlaces(sb, late)
           k     == Cardinality(D)
<1>1. PICK due \in [1..k -> D] :
        \E f \in Failing(Len(Datagrams(Encoded(e, asked, sb, due))), fails) :
          FlushUntil(e, asked, n, late, due, f)
  BY DEF Flush
<1> DEFINE all    == Encoded(e, asked, sb, due)
           grams  == Datagrams(all)
           acks   == Len(AckSegments(e))
           before == acks + Len(ProbeSegments(e, asked))
           G      == GenuineSegment(e)
<1>2. PICK f \in Failing(Len(grams), fails) :
        FlushUntil(e, asked, n, late, due, f)
  BY <1>1
<1> DEFINE reached == IF f < Len(grams) THEN f * MTU + 1 - Len(buf[e])
                      ELSE Len(all) + 1
           places  == {due[p] : p \in {x \in 1..Len(due) : x + before <= reached}}
           sent    == {grams[j] : j \in 1..(f - 1)}
<1>3. n \in 0..Len(snd_queue[e]) /\ sb \in Seq(Flight)
  BY AdmittedIsFront, NumberedTypes
<1>4. asked \in SUBSET {"ASK", "TELL"}
  BY DEF Asked, ReceiverInv
<1>5. k \in Nat /\ due \in [1..k -> 1..Len(sb)]
  <2> HIDE DEF sb
  <2> QED
    BY <1>3, DueAreFew
<1>6. /\ all \in Seq(Segment)
      /\ Len(buf[e]) \in Nat /\ acks \in Nat /\ before \in Nat
      /\ Len(ProbeSegments(e, asked)) \in Nat
      /\ Len(all) \in Nat /\ Len(all) >= Len(buf[e]) + before
  <2> HIDE DEF sb, k, asked
  <2>1. /\ Encoded(e, asked, sb, due) \in Seq(Segment)
        /\ Len(AckSegments(e)) \in Nat
        /\ Len(ProbeSegments(e, asked)) \in Nat
        /\ Len(buf[e]) \in Nat
        /\ Len(Encoded(e, asked, sb, due)) =
              Len(buf[e]) + Len(AckSegments(e))
                + Len(ProbeSegments(e, asked)) + k
    BY <1>3, <1>5, EncodedParts
  <2>2. Len(Encoded(e, asked, sb, due)) \in Nat
    BY <2>1, LenProperties
  <2> DEFINE x == Len(Encoded(e, asked, sb, due))
             y == Len(AckSegments(e))
             z == Len(ProbeSegments(e, asked))
             b == Len(buf[e])
  <2>3. /\ x \in Nat /\ y \in Nat /\ z \in Nat /\ b \in Nat /\ k \in Nat
        /\ x = b + y + z + k
    BY <1>5, <2>1, <2>2
  <2> HIDE DEF x, y, z, b
  <2>4. y + z \in Nat /\ x >= b + (y + z)
    BY <2>3
  <2> QED
    BY <2>1, <2>3, <2>4 DEF x, y, z, b
<1>7. Len(grams) \in Nat /\ f \in 1..(Len(grams) + 1)
  <2> HIDE DEF all
  <2>1. Len(grams) \in Nat
    BY <1>6, DatagramCount
  <2> HIDE DEF grams
  <2> QED
    BY <1>2, <2>1 DEF Failing
(* What was sent, what was not, and what is told about it. *)
<1>8. /\ failures' = IF f <= Len(grams) THEN failures + 1 ELSE failures
      /\ \E after \in Carried(Other(e), sent) :
           net' = [net EXCEPT ![Other(e)] = after]
      /\ buf' = [buf EXCEPT ![e] = IF f <= Len(grams) THEN grams[f] ELSE <<>>]
      /\ acklist' = [acklist EXCEPT ![e] = IF reached > acks THEN <<>> ELSE @]
      /\ probing' = [probing EXCEPT ![e] =
                       IF reached > acks THEN rmt_wnd[e] = 0 ELSE @]
      /\ probe' = [probe EXCEPT ![e] = IF reached > before THEN {}
                                       ELSE IF reached > acks THEN asked ELSE @]
      /\ UNCHANGED <<snd_una, rmt_wnd, rcv_buf, rcv_queue, rcv_nxt>>
      /\ UNCHANGED <<wrote, ends, out, rx, max_ack, settled>>
  <2> HIDE DEF n, asked
  <2> QED
    BY <1>2 DEF FlushUntil, appVars, inVars
<1>9. probing' \in [Endpoint -> BOOLEAN]
  <2>1. (rmt_wnd[e] = 0) \in BOOLEAN /\ probing \in [Endpoint -> BOOLEAN]
    BY DEF SenderInv
  <2>2. PICK b \in BOOLEAN : probing' = [probing EXCEPT ![e] = b]
    <3> HIDE DEF reached, acks
    <3> QED
      BY <1>8, <2>1
  <2> QED
    BY <2>1, <2>2
(* Numbers are given only when the data is reached. *)
<1>10. /\ LogGrows /\ SenderInv'
       /\ reached > before => sb \in Seq(GenuineFlight(e)')
  <2>1. CASE reached > before
    <3>1. /\ snd_queue' = [snd_queue EXCEPT ![e] = SubSeq(@, n + 1, Len(@))]
          /\ snd_buf' = [snd_buf EXCEPT ![e] = Transmitted(sb, late, places)]
          /\ snd_nxt' = [snd_nxt EXCEPT ![e] = @ + n]
          /\ log' = [log EXCEPT ![e] = @ \o SubSeq(snd_queue[e], 1, n)]
      <4> HIDE DEF n, asked
      <4> QED
        BY <1>2, <2>1 DEF FlushUntil
    <3>2. /\ LogGrows /\ Len(log'[e]) = snd_nxt[e] + n
          /\ sb \in Seq(GenuineFlight(e)')
      <4> HIDE DEF n
      <4> QED
        BY <1>3, <3>1, NumberedIsGenuine
    <3> DEFINE new  == Transmitted(sb, late, places)
               left == SubSeq(snd_queue[e], n + 1, Len(snd_queue[e]))
    <3>3. new \in Seq(GenuineFlight(e)') /\ new \in Seq(Flight)
      <4> HIDE DEF sb, places
      <4>1. new \in Seq(GenuineFlight(e)')
        BY <3>2, GenuineKeptBySending, TransmittedKeeps
      <4>2. GenuineFlight(e)' \subseteq Flight
        BY DEF GenuineFlight
      <4> HIDE DEF new
      <4> QED
        BY <4>1, <4>2, SeqMonotonic
    <3>4. left \in Seq(Data) /\ \A i \in 1..Len(left) : left[i].len <= Mss
      <4> DEFINE q == snd_queue[e]
      <4>1. /\ q \in Seq(Data) /\ Len(q) \in Nat /\ n \in 0..Len(q)
            /\ \A i \in 1..Len(q) : q[i].len <= Mss
        BY <1>3, LenProperties DEF SenderInv
      <4> HIDE DEF q, n
      <4>2. n + 1 \in Nat \ {0} /\ Len(q) \in Int /\ Len(q) <= Len(q)
        BY <4>1
      <4>3. /\ SubSeq(q, n + 1, Len(q)) \in Seq(Data)
            /\ Len(SubSeq(q, n + 1, Len(q))) =
                 IF n + 1 <= Len(q) THEN Len(q) - (n + 1) + 1 ELSE 0
            /\ \A i \in 1..(Len(q) - (n + 1) + 1) :
                 SubSeq(q, n + 1, Len(q))[i] = q[n + 1 + i - 1]
        BY <4>1, <4>2, Piece
      <4>4. ASSUME NEW i \in 1..Len(SubSeq(q, n + 1, Len(q)))
            PROVE  SubSeq(q, n + 1, Len(q))[i].len <= Mss
        <5>1. /\ i \in 1..(Len(q) - (n + 1) + 1)
              /\ n + 1 + i - 1 \in 1..Len(q)
          BY <4>1, <4>3
        <5> QED
          BY <4>1, <4>3, <5>1
      <4> QED
        BY <4>3, <4>4 DEF q
    <3>5. n \in Nat
      BY <1>3, LenProperties DEF SenderInv
    <3>6. \A d \in Endpoint : snd_buf[d] \in Seq(GenuineFlight(d)')
      BY <3>2, StaysGenuine, SeqMonotonic DEF SenderInv
    <3> HIDE DEF new, left, n, sb
    <3>7. /\ snd_queue' = [snd_queue EXCEPT ![e] = left]
          /\ snd_buf' = [snd_buf EXCEPT ![e] = new]
          /\ snd_nxt' = [snd_nxt EXCEPT ![e] = snd_nxt[e] + n]
          /\ \A d \in Endpoint \ {e} : log'[d] = log[d]
      BY <3>1 DEF new, left, SenderInv
    <3>8. ASSUME NEW d \in Endpoint
          PROVE  /\ Len(log'[d]) = snd_nxt'[d]
                 /\ snd_buf'[d] \in Seq(GenuineFlight(d)')
                 /\ \A i \in 1..Len(snd_queue'[d]) : snd_queue'[d][i].len <= Mss
      <4>1. CASE d = e
        BY <3>2, <3>3, <3>4, <3>7, <4>1 DEF SenderInv
      <4>2. CASE d # e
        <5>1. /\ log'[d] = log[d] /\ snd_nxt'[d] = snd_nxt[d]
              /\ snd_buf'[d] = snd_buf[d] /\ snd_queue'[d] = snd_queue[d]
          BY <3>7, <4>2 DEF SenderInv
        <5>2. /\ Len(log[d]) = snd_nxt[d]
              /\ \A i \in 1..Len(snd_queue[d]) : snd_queue[d][i].len <= Mss
          BY DEF SenderInv
        <5> QED
          BY <3>6, <5>1, <5>2
      <4> QED
        BY <4>1, <4>2
    <3>9. SenderInv'
      <4>1. snd_queue' \in [Endpoint -> Seq(Data)]
        BY <3>4, <3>7 DEF SenderInv
      <4>2. snd_buf' \in [Endpoint -> Seq(Flight)]
        BY <3>3, <3>7 DEF SenderInv
      <4>3. /\ snd_nxt' \in [Endpoint -> Nat] /\ snd_una' \in [Endpoint -> Nat]
            /\ rmt_wnd' \in [Endpoint -> Nat]
        BY <1>8, <3>5, <3>7, SMTT(30) DEF SenderInv
      <4>4. log' \in [Endpoint -> Seq(Data)]
        BY <3>2 DEF LogGrows
      <4> QED
        BY <1>9, <3>8, <4>1, <4>2, <4>3, <4>4 DEF SenderInv
    <3> QED
      BY <3>2, <3>9
  <2>2. CASE ~(reached > before)
    <3>1. UNCHANGED <<snd_queue, snd_buf, snd_nxt, log>>
      <4> HIDE DEF n, asked
      <4> QED
        BY <1>2, <2>2 DEF FlushUntil
    <3>2. SenderInv'
      BY <1>8, <1>9, <3>1 DEF SenderInv, GenuineFlight
    <3> QED
      BY <2>2, <3>1, <3>2, SameLogGrows
  <2> QED
    BY <2>1, <2>2
(* Each datagram that was cut before the flush stopped is genuine. *)
<1>11. ASSUME NEW j \in 1..Len(grams), j <= f
       PROVE  grams[j] \in Seq(G')
  <2>1. f \in Nat /\ j \in Nat /\ f - j \in Nat /\ MTU \in Nat
    BY <1>7, <1>11, ConstantTypes
  <2>2. j * MTU \in Nat /\ f * MTU \in Nat /\ j * MTU <= f * MTU
    <3>1. (f - j) * MTU \in Nat /\ j * MTU \in Nat /\ f * MTU \in Nat
      BY <2>1
    <3>2. (f - j) * MTU = f * MTU - j * MTU
      BY <2>1
    <3> QED
      BY <3>1, <3>2
  <2>3. ASSUME NEW i \in 1..Len(all), i <= j * MTU
        PROVE  all[i] \in G'
    <3>1. \/ sb \in Seq(GenuineFlight(e)')
          \/ i <= Len(buf[e]) + Len(AckSegments(e))
                    + Len(ProbeSegments(e, asked))
      <4>1. CASE reached > before
        BY <1>10, <4>1
      <4>2. CASE ~(reached > before)
        <5> DEFINE fm == f * MTU
                   jm == j * MTU
                   b  == Len(buf[e])
                   pl == Len(ProbeSegments(e, asked))
        <5>1. /\ fm \in Nat /\ jm \in Nat /\ jm <= fm /\ i <= jm
              /\ b \in Nat /\ acks \in Nat /\ before \in Nat /\ Len(all) \in Nat
              /\ pl \in Nat /\ before = acks + pl /\ i \in Nat
          BY <1>6, <2>2, <2>3
        <5>2. Len(all) >= b + before
          BY <1>6
        <5>3. reached = IF f < Len(grams) THEN fm + 1 - b ELSE Len(all) + 1
          OBVIOUS
        <5> HIDE DEF fm, jm, b, pl, acks, before, all, grams, reached
        <5>4. reached = fm + 1 - b
          BY <4>2, <5>1, <5>2, <5>3
        <5>5. i <= b + acks + pl
          BY <4>2, <5>1, <5>4
        <5> QED
          BY <5>5 DEF b, pl, acks
      <4> QED
        BY <4>1, <4>2
    <3> HIDE DEF sb, k, asked, all
    <3> QED
      BY <1>3, <1>5, <1>10, <3>1, EncodedParts DEF all
  <2> HIDE DEF all, G
  <2> QED
    BY <1>6, <2>3, DatagramOf
<1>12. /\ G' \subseteq Segment
       /\ \A d \in Endpoint :
            Seq(GenuineSegment(d)) \subseteq Seq(GenuineSegment(d)')
  <2>1. G' \subseteq Segment
    BY DEF GenuineSegment
  <2>2. ASSUME NEW d \in Endpoint
        PROVE  Seq(GenuineSegment(d)) \subseteq Seq(GenuineSegment(d)')
    BY <1>10, StaysGenuine, SeqMonotonic
  <2> QED
    BY <2>1, <2>2
<1>13. WireInv'
  <2> DEFINE left == IF f <= Len(grams) THEN grams[f] ELSE <<>>
             o    == Other(e)
  <2>1. left \in Seq(G') /\ left \in Seq(Segment)
    <3>1. left \in Seq(G')
      <4>1. CASE f <= Len(grams)
        <5>1. f \in 1..Len(grams) /\ f <= f
          BY <1>7, <4>1
        <5> HIDE DEF grams, G, reached
        <5> QED
          BY <1>11, <4>1, <5>1
      <4>2. CASE ~(f <= Len(grams))
        BY <4>2, EmptySeq
      <4> QED
        BY <4>1, <4>2
    <3> HIDE DEF left, G
    <3> QED
      BY <1>12, <3>1, SeqMonotonic
  <2>2. sent \subseteq Seq(G')
    <3>1. ASSUME NEW j \in 1..(f - 1)
          PROVE  j \in 1..Len(grams) /\ j <= f
      <4> HIDE DEF grams
      <4> QED
        BY <1>7
    <3> HIDE DEF grams, G
    <3> QED
      BY <1>11, <3>1
  <2>3. Seq(G') \subseteq Seq(Segment)
    <3> HIDE DEF G
    <3> QED
      BY <1>12, SeqMonotonic
  <2>4. o \in Endpoint /\ Other(o) = e
    BY OtherEnd
  <2>5. PICK after \in Carried(o, sent) : net' = [net EXCEPT ![o] = after]
    BY <1>8
  <2>6. after \subseteq net[o] \cup sent
    <3> HIDE DEF sent, o
    <3> QED
      BY CarriedIsSent
  <2>7. buf' = [buf EXCEPT ![e] = left]
    BY <1>8
  <2> HIDE DEF left, o, sent, G
  <2>8. net[o] \subseteq Seq(Segment) /\ net[o] \subseteq Seq(GenuineSegment(e))
    BY <2>4 DEF WireInv
  <2>9. after \subseteq Seq(Segment) /\ after \subseteq Seq(G')
    BY <1>12, <2>2, <2>3, <2>6, <2>8 DEF G
  <2>10. ASSUME NEW d \in Endpoint
         PROVE  /\ buf'[d] \in Seq(GenuineSegment(d)')
                /\ rx'[d] \in Seq(GenuineSegment(Other(d))')
                /\ net'[d] \subseteq Seq(GenuineSegment(Other(d))')
    <3>1. buf'[d] \in Seq(GenuineSegment(d)')
      <4>1. CASE d = e
        BY <2>1, <2>7, <4>1 DEF WireInv, G
      <4>2. CASE d # e
        BY <1>12, <2>7, <4>2 DEF WireInv
      <4> QED
        BY <4>1, <4>2
    <3>2. Other(d) \in Endpoint /\ rx' = rx
      BY <1>8, OtherEnd
    <3>3. rx'[d] \in Seq(GenuineSegment(Other(d))')
      BY <1>12, <3>2 DEF WireInv
    <3>4. net'[d] \subseteq Seq(GenuineSegment(Other(d))')
      <4>1. CASE d = o
        BY <2>4, <2>5, <2>9, <4>1 DEF WireInv, G
      <4>2. CASE d # o
        BY <1>12, <2>5, <3>2, <4>2 DEF WireInv
      <4> QED
        BY <4>1, <4>2
    <3> QED
      BY <3>1, <3>3, <3>4
  <2>11. /\ buf' \in [Endpoint -> Seq(Segment)]
         /\ net' \in [Endpoint -> SUBSET Seq(Segment)]
    BY <2>1, <2>5, <2>7, <2>9 DEF WireInv
  <2>12. failures' \in Nat
    BY <1>8 DEF WireInv
  <2> QED
    BY <1>8, <2>10, <2>11, <2>12 DEF WireInv
<1>14. ReceiverInv'
  <2>1. acklist' \in [Endpoint -> Seq(Nat)]
    <3> HIDE DEF reached, acks
    <3>1. <<>> \in Seq(Nat)
      BY EmptySeq
    <3> QED
      BY <1>8, <3>1 DEF ReceiverInv
  <2>2. probe' \in [Endpoint -> SUBSET {"ASK", "TELL"}]
    <3>1. PICK pr : /\ pr \in {{}, asked, probe[e]}
                    /\ probe' = [probe EXCEPT ![e] = pr]
      <4> HIDE DEF reached, acks, before, asked
      <4> QED
        BY <1>8
    <3> HIDE DEF asked
    <3>2. pr \in SUBSET {"ASK", "TELL"}
      BY <1>4, <3>1 DEF ReceiverInv
    <3> QED
      BY <3>1, <3>2 DEF ReceiverInv
  <2> QED
    BY <1>8, <1>10, <2>1, <2>2, ReceiverGrows
<1>15. AppInv'
  BY <1>8 DEF AppInv
<1> QED
  BY <1>10, <1>13, <1>14, <1>15

\* And so does the flush of Next.
LEMMA SomeFlushKeeps ==
  ASSUME GenuineInv, NEW e \in Endpoint, SomeFlush(e)
  PROVE  GenuineInv'
<1>1. PICK cwnd \in Cwnd, fired \in Fired(e), late \in SUBSET Sent(e) :
        Flush(e, cwnd, fired, late, TRUE)
  BY DEF SomeFlush
<1>2. cwnd \in Nat
  BY KcpAssumption DEF KcpAssumption
<1> QED
  BY <1>1, <1>2, FlushKeeps

-----------------------------------------------------------------------------
(* The theorems.                                                           *)

\* Every step of the system keeps the invariant.
LEMMA GenuineNext == GenuineInv /\ [Next]_vars => GenuineInv'
<1> SUFFICES ASSUME GenuineInv, [Next]_vars
             PROVE  GenuineInv'
  OBVIOUS
<1>1. CASE Settle
  BY <1>1, SettleKeeps
<1>2. ASSUME NEW e \in Endpoint, NEW n \in WriteSizes, Send(e, n)
      PROVE  GenuineInv'
  BY <1>2, SendKeeps
<1>3. ASSUME NEW e \in Endpoint, Recv(e)
      PROVE  GenuineInv'
  BY <1>3, RecvKeeps
<1>4. ASSUME NEW e \in Endpoint, NEW d \in net[e], Deliver(e, d)
      PROVE  GenuineInv'
  BY <1>4, DeliverKeeps
<1>5. ASSUME NEW e \in Endpoint, InputAck(e)
      PROVE  GenuineInv'
  BY <1>5, InputAckKeeps
<1>6. ASSUME NEW e \in Endpoint, InputPushStored(e)
      PROVE  GenuineInv'
  BY <1>6, InputPushStoredKeeps
<1>7. ASSUME NEW e \in Endpoint, InputPushRefused(e)
      PROVE  GenuineInv'
  BY <1>7, InputPushRefusedKeeps
<1>8. ASSUME NEW e \in Endpoint, InputWindow(e)
      PROVE  GenuineInv'
  BY <1>8, InputWindowKeeps
<1>9. ASSUME NEW e \in Endpoint, SomeFlush(e)
      PROVE  GenuineInv'
  BY <1>9, SomeFlushKeeps
<1>10. CASE UNCHANGED vars
  <2>1. /\ UNCHANGED <<sndVars, rcvVars, inVars, outVars>>
        /\ UNCHANGED <<log, out, wrote, ends>>
    BY <1>10 DEF vars, sndVars, appVars
  <2>2. AppInv'
    BY <2>1 DEF GenuineInv, AppInv
  <2> QED
    BY <2>1, <2>2, SenderKept, ReceiverKept, WireKept DEF GenuineInv
<1> QED
  BY <1>1, <1>2, <1>3, <1>4, <1>5, <1>6, <1>7, <1>8, <1>9, <1>10 DEF Next

\* Every copy of a numbered piece of data is genuine, always.
THEOREM GenuineAlways == Spec => []GenuineInv
<1> QED
  BY GenuineInit, GenuineNext, PTL DEF Spec

\* The control blocks and the network keep their types: no number and no
\* advertised window of kcp.rs becomes negative.
THEOREM KcpTypes == Spec => []TypeOK
<1>1. GenuineInv => TypeOK
  BY PartsGiveTypes
<1> QED
  BY <1>1, GenuineAlways, PTL

\* What Kcp::recv returns is what the other end numbered, in order, each
\* segment once and unaltered, whatever the network and the socket do.
THEOREM InOrderAlways == Spec => []InOrder
<1>1. GenuineInv => InOrder
  BY DEF GenuineInv, ReceiverInv
<1> QED
  BY <1>1, GenuineAlways, PTL
=============================================================================
