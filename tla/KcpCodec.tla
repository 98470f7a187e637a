------------------------------- MODULE KcpCodec -------------------------------
(***************************************************************************)
(* The cipher of a datagram: KcpOutput::send encodes, Kcp::input and the   *)
(* copy of decode in kcp_listener.rs decode, with the key that the client  *)
(* sent before its first segment.  KcpIoProofs proves that decode is the   *)
(* inverse of encode.                                                      *)
(***************************************************************************)
EXTENDS Integers, Sequences

\* A byte is the set of its bits that are 1.
Byte == SUBSET (0..7)

Xor(a, b) == (a \ b) \cup (b \ a)

\* The byte of the key for the n-th byte that is encoded: the key repeats.
KeyByte(key, n) == key[((n - 1) % Len(key)) + 1]

\* No key, or an empty one, changes nothing; the conv in front stays readable.
encode(key, data) ==
  IF key = <<>> THEN data
  ELSE [i \in 1..Len(data) |->
          IF i <= 4 THEN data[i] ELSE Xor(data[i], KeyByte(key, i - 4))]

decode(key, data) == encode(key, data)
===============================================================================
