------------------------------- MODULE Chunks -------------------------------
(***************************************************************************)
(* Data chunks and how their bytes are counted.                            *)
(*                                                                         *)
(* Every byte the application hands to try_send_data has a position: the   *)
(* number of bytes accepted before it.  A buffer is the interval           *)
(* lo .. hi - 1 of the positions it holds, so that two buffers are equal   *)
(* exactly when they hold the same bytes, a fragment is a sub-interval,    *)
(* and the sum of buf.len() over a collection of chunks that share no byte *)
(* is the number of positions in it.                                       *)
(***************************************************************************)
EXTENDS Integers, FiniteSets

(* buf.len() *)
BufLen(c) == c.hi - c.lo

(* The bytes of a set of chunks, and how many they are. *)
Octets(S) == UNION {c.lo .. (c.hi - 1) : c \in S}
TotalLen(S) == Cardinality(Octets(S))
=============================================================================
