---------------------------- MODULE SequenceFacts ----------------------------
(***************************************************************************)
(* Facts about finite sequences that the proofs about the control blocks   *)
(* rest on: what a piece, a front or a regrouping of a sequence is.        *)
(***************************************************************************)
EXTENDS Integers, Sequences, TLAPS, SequenceTheorems

\* A function on 1..n is a sequence of length n.
LEMMA FunctionIsSeq ==
  ASSUME NEW S, NEW n \in Nat, NEW f \in [1..n -> S]
  PROVE  f \in Seq(S) /\ Len(f) = n
<1>1. f \in Seq(S)
  BY SeqDef
<1> QED
  BY <1>1, LenProperties

\* A piece of a sequence.
LEMMA Piece ==
  ASSUME NEW S, NEW s \in Seq(S), NEW m \in Nat \ {0}, NEW n \in Int, n <= Len(s)
  PROVE  /\ SubSeq(s, m, n) \in Seq(S)
         /\ Len(SubSeq(s, m, n)) = IF m <= n THEN n - m + 1 ELSE 0
         /\ \A i \in 1..(n - m + 1) : SubSeq(s, m, n)[i] = s[m + i - 1]
<1>1. \A i \in m..n : s[i] \in S
  BY LenProperties, ElementOfSeq
<1> QED
  BY <1>1, SubSeqProperties

\* A sequence is its first n elements and the rest.
LEMMA Split ==
  ASSUME NEW S, NEW s \in Seq(S), NEW n \in 0..Len(s)
  PROVE  SubSeq(s, 1, n) \o SubSeq(s, n + 1, Len(s)) = s
<1>1. /\ 1 \in 1..(Len(s) + 1)
      /\ n \in (1 - 1)..Len(s)
      /\ Len(s) \in n..Len(s)
  BY LenProperties
<1>2. SubSeq(s, 1, n) \o SubSeq(s, n + 1, Len(s)) = SubSeq(s, 1, Len(s))
  BY <1>1, ConcatAdjacentSubSeq
<1> QED
  BY <1>2, SubSeqFull

\* A front and a rest of a sequence are sequences of the same elements.
LEMMA DropFront ==
  ASSUME NEW S, NEW s \in Seq(S), NEW n \in 0..Len(s)
  PROVE  /\ SubSeq(s, 1, n) \in Seq(S)
         /\ SubSeq(s, n + 1, Len(s)) \in Seq(S)
  BY Piece, LenProperties

\* What is where in a sequence and another behind it.
LEMMA ConcatElements ==
  ASSUME NEW S, NEW s \in Seq(S), NEW t \in Seq(S)
  PROVE  /\ s \o t \in Seq(S)
         /\ Len(s) \in Nat /\ Len(t) \in Nat
         /\ Len(s \o t) = Len(s) + Len(t)
         /\ \A i \in 1..Len(s) : (s \o t)[i] = s[i]
         /\ \A i \in 1..Len(t) : (s \o t)[Len(s) + i] = t[i]
<1> DEFINE a == Len(s)
           b == Len(t)
           u == s \o t
<1>1. /\ u \in Seq(S) /\ a \in Nat /\ b \in Nat /\ Len(u) = a + b
      /\ \A i \in 1..(a + b) : u[i] = IF i <= a THEN s[i] ELSE t[i - a]
  BY ConcatProperties, LenProperties
<1> HIDE DEF a, b, u
<1>2. \A i \in 1..a : u[i] = s[i]
  BY <1>1
<1>3. ASSUME NEW i \in 1..b
      PROVE  u[a + i] = t[i]
  <2>1. a + i \in 1..(a + b) /\ ~(a + i <= a) /\ (a + i) - a = i
    BY <1>1
  <2> QED
    BY <1>1, <2>1
<1> QED
  BY <1>1, <1>2, <1>3 DEF a, b, u

\* Concatenation under a name, which the provers leave folded.
Joined(s, t) == s \o t

\* Reading the first elements of a queue moves them, and does not change
\* what was read followed by what can be read.
LEMMA Regroup ==
  ASSUME NEW S, NEW o \in Seq(S), NEW first \in Seq(S), NEW left \in Seq(S),
         NEW more \in Seq(S)
  PROVE  Joined(Joined(o, first), Joined(left, more))
           = Joined(Joined(o, Joined(first, left)), more)
<1>1. o \o first \in Seq(S)
  BY ConcatProperties
<1>2. (o \o first) \o (left \o more) = ((o \o first) \o left) \o more
  BY <1>1, ConcatAssociative, Z3T(30)
<1>3. (o \o first) \o left = o \o (first \o left)
  BY ConcatAssociative, Z3
<1> QED
  BY <1>2, <1>3, Z3 DEF Joined

\* Joining is associative.
LEMMA JoinedAssociative ==
  ASSUME NEW S, NEW r \in Seq(S), NEW s \in Seq(S), NEW t \in Seq(S)
  PROVE  Joined(Joined(r, s), t) = Joined(r, Joined(s, t))
  BY ConcatAssociative, Z3 DEF Joined
=============================================================================
