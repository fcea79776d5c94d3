------------------------- MODULE AssociationTxSafety -------------------------
(***************************************************************************)
(* Safety of the sending half for every value of the constants.            *)
(*                                                                         *)
(* The byte counters of AssociationTx are updated incrementally, so that   *)
(* they are right only because no byte is in two places: Layout says that  *)
(* the buffers of resend_queue and then those of out_queue lie one after   *)
(* the other in the stream of accepted bytes.  This is Inv.                *)
(*                                                                         *)
(* On it rests what the sending half promises to the peer and to the       *)
(* application: it announces a shutdown only when it is drained, it keeps  *)
(* to the window, its fragments chain up to the messages, and its timer    *)
(* runs while it waits.                                                    *)
(***************************************************************************)
EXTENDS AssociationTx, DataLemmas

Sent(i) == resend_queue[i].data

Layout ==
    /\ \A i \in DOMAIN resend_queue : Sent(i).lo <= Sent(i).hi /\ Sent(i).hi <= accepted
    /\ \A i \in DOMAIN out_queue : out_queue[i].lo <= out_queue[i].hi
                                   /\ out_queue[i].hi <= accepted
    /\ \A i, j \in DOMAIN resend_queue : i < j => Sent(i).hi <= Sent(j).lo
    /\ \A i, j \in DOMAIN out_queue : i < j => out_queue[i].hi <= out_queue[j].lo
    /\ \A i \in DOMAIN resend_queue, j \in DOMAIN out_queue : Sent(i).hi <= out_queue[j].lo

(* The subtraction in update_pmtu does not underflow. *)
PmtuCoversHeader == PacketHeader <= get_pmtu

Inv == TypeOK /\ Layout /\ PmtuCoversHeader /\ AssertInvariants

-----------------------------------------------------------------------------
(* The congestion controller keeps its type in every operation. *)
LEMMA CongestionType ==
    ASSUME NEW c \in PerDestinationInfo, NEW p \in Nat, NEW a \in Nat, NEW b \in Nat
    PROVE  /\ BytesAcked(c, p, a, b) \in PerDestinationInfo
           /\ EnterFastRecovery(c) \in PerDestinationInfo
           /\ RtoExpired(c) \in PerDestinationInfo
           /\ PacketHeader <= p => UpdatePmtu(c, p) \in PerDestinationInfo
<1> USE CongestionAssumption
<1>1. InitialCwnd(c.pmcds) \in Nat
  BY DEF PerDestinationInfo, InitialCwnd, MinOf, MaxOf
<1>2. c.cwnd \in Nat /\ c.cwnd \div 2 \in Nat
  BY DEF PerDestinationInfo
<1>3. RtoExpired(c) \in PerDestinationInfo
  BY <1>1, <1>2, Zenon DEF RtoExpired, PerDestinationInfo, CongestionState
<1>4. EnterFastRecovery(c) \in PerDestinationInfo
  <2>1. MaxOf(c.cwnd \div 2, InitialCwnd(c.pmcds)) \in Nat
    BY <1>1, <1>2, Zenon DEF MaxOf
  <2>2. QED  BY <1>1, <1>2, <2>1, Zenon DEF EnterFastRecovery, PerDestinationInfo, CongestionState
<1>5. PacketHeader <= p => UpdatePmtu(c, p) \in PerDestinationInfo
  BY DEF UpdatePmtu, PerDestinationInfo
<1>6. RecoveryBytesAcked(c, a) \in PerDestinationInfo
  BY Zenon DEF RecoveryBytesAcked, PerDestinationInfo, CongestionState
<1>7. AvoidanceBytesAcked(c, p, a, b) \in PerDestinationInfo
  <2>1. c.partial_bytes_acked + a + p \in Nat /\ MinOf(c.pmcds, CwndStep) \in Nat
    BY DEF PerDestinationInfo, MinOf
  <2> DEFINE counted == c.partial_bytes_acked + a + p
  <2>2. CASE counted < c.cwnd
    BY <2>1, <2>2, Zenon DEF AvoidanceBytesAcked, PerDestinationInfo
  <2>3. CASE counted >= c.cwnd /\ b < c.cwnd
    BY <1>2, <2>1, <2>3, Zenon DEF AvoidanceBytesAcked, PerDestinationInfo
  <2>4. CASE counted >= c.cwnd /\ b >= c.cwnd
    <3>1. counted - c.cwnd \in Nat /\ c.cwnd + MinOf(c.pmcds, CwndStep) \in Nat
      BY <1>2, <2>1, <2>4
    <3>2. AvoidanceBytesAcked(c, p, a, b) =
            [c EXCEPT !.partial_bytes_acked = counted - c.cwnd,
                      !.cwnd = c.cwnd + MinOf(c.pmcds, CwndStep)]
      BY <1>2, <2>1, <2>4 DEF AvoidanceBytesAcked
    <3>3. QED  BY <3>1, <3>2, Zenon DEF PerDestinationInfo
  <2>5. QED  BY <1>2, <2>1, <2>2, <2>3, <2>4
<1>8. SlowStartBytesAcked(c, a, b) \in PerDestinationInfo
  <2>1. MaxOf(2 * c.pmcds, a) \in Nat /\ c.ssthresh \in Nat
    BY DEF PerDestinationInfo, MaxOf
  <2> DEFINE grown == IF b >= c.cwnd THEN c.cwnd + MaxOf(2 * c.pmcds, a) ELSE c.cwnd
  <2>2. grown \in Nat
    BY <1>2, <2>1
  <2>3. SlowStartBytesAcked(c, a, b) =
          IF grown >= c.ssthresh
          THEN [c EXCEPT !.cwnd = c.ssthresh, !.state = "CongestionAvoidance"]
          ELSE [c EXCEPT !.cwnd = grown]
    BY Zenon DEF SlowStartBytesAcked
  <2> HIDE DEF grown
  <2>4. QED  BY <2>1, <2>2, <2>3, Zenon DEF PerDestinationInfo, CongestionState
<1>9. BytesAcked(c, p, a, b) \in PerDestinationInfo
  BY <1>6, <1>7, <1>8, Zenon DEF BytesAcked, PerDestinationInfo, CongestionState
<1>10. QED  BY <1>3, <1>4, <1>5, <1>9, Zenon

-----------------------------------------------------------------------------
(* The bytes of a queue. *)

(* Which elements a queue holds after an Append, without its first one, with *)
(* its first one replaced, and as a prefix and the rest.                     *)
LEMMA ElementsAppend ==
    ASSUME NEW D, NEW q \in Seq(D), NEW e \in D
    PROVE  LET r == Append(q, e) IN
           /\ {r[i] : i \in DOMAIN r} = {q[i] : i \in DOMAIN q} \cup {e}
           /\ {r[i].data : i \in DOMAIN r} = {q[i].data : i \in DOMAIN q} \cup {e.data}
<1> DEFINE r == Append(q, e)
<1>1. /\ DOMAIN q = 1 .. Len(q) /\ Len(q) \in Nat
      /\ DOMAIN r = 1 .. (Len(q) + 1)
      /\ \A i \in 1 .. Len(q) : r[i] = q[i]
      /\ r[Len(q) + 1] = e
  OBVIOUS
<1>2. PICK n : DOMAIN r = DOMAIN q \cup {n} /\ r[n] = e /\ \A i \in DOMAIN q : r[i] = q[i]
  <2>1. DOMAIN r = DOMAIN q \cup {Len(q) + 1} /\ \A i \in DOMAIN q : r[i] = q[i]
    BY <1>1
  <2>2. QED  BY <1>1, <2>1, Zenon
<1> HIDE DEF r
<1>4. {r[i] : i \in DOMAIN r} = {q[i] : i \in DOMAIN q} \cup {e}
  BY <1>2
<1>5. {r[i].data : i \in DOMAIN r} = {q[i].data : i \in DOMAIN q} \cup {e.data}
  BY <1>2
<1>6. QED  BY <1>4, <1>5, Zenon DEF r

(* The elements of a queue without its first one: what pop_front leaves. *)
LEMMA ElementsTail ==
    ASSUME NEW D, NEW q \in Seq(D), q # <<>>
    PROVE  /\ {q[i] : i \in DOMAIN q \ {1}} = {Tail(q)[i] : i \in DOMAIN Tail(q)}
           /\ {q[i] : i \in DOMAIN q} = {q[1]} \cup {Tail(q)[i] : i \in DOMAIN Tail(q)}
<1> DEFINE r == Tail(q)
<1>1. /\ DOMAIN q = 1 .. Len(q) /\ Len(q) \in Nat /\ Len(q) >= 1
      /\ DOMAIN r = 1 .. (Len(q) - 1)
      /\ \A i \in 1 .. (Len(q) - 1) : r[i] = q[i + 1]
  OBVIOUS
<1> HIDE DEF r
<1>2. \A i \in DOMAIN r : i + 1 \in DOMAIN q \ {1} /\ r[i] = q[i + 1]
  BY <1>1
<1>3. \A i \in DOMAIN q \ {1} : i - 1 \in DOMAIN r /\ r[i - 1] = q[i]
  BY <1>1
<1>4. {q[i] : i \in DOMAIN q \ {1}} = {r[i] : i \in DOMAIN r}
  BY <1>2, <1>3
<1>5. 1 \in DOMAIN q
  BY <1>1
<1>6. {q[i] : i \in DOMAIN q} = {q[1]} \cup {q[i] : i \in DOMAIN q \ {1}}
  BY <1>5, Zenon
<1>7. QED  BY <1>4, <1>6, Zenon DEF r

(* The elements of a queue with its first one replaced by the rest of it. *)
LEMMA ElementsExcept ==
    ASSUME NEW q, NEW e, 1 \in DOMAIN q
    PROVE  {[q EXCEPT ![1] = e][i] : i \in DOMAIN [q EXCEPT ![1] = e]}
             = {e} \cup {q[i] : i \in DOMAIN q \ {1}}
<1> DEFINE f == [q EXCEPT ![1] = e]
<1>1. DOMAIN f = DOMAIN q /\ f[1] = e /\ \A i \in DOMAIN q \ {1} : f[i] = q[i]
  BY Zenon
<1> HIDE DEF f
<1>2. {f[i] : i \in DOMAIN f} = {e} \cup {q[i] : i \in DOMAIN q \ {1}}
  BY <1>1, Zenon
<1>3. QED  BY <1>2, Zenon DEF f

(* The bytes of a queue are the bytes of its entries. *)
LEMMA OctetsOfSeq ==
    ASSUME NEW q
    PROVE  /\ \A x : x \in Octets({q[i] : i \in DOMAIN q})
                 <=> \E i \in DOMAIN q : x \in q[i].lo .. (q[i].hi - 1)
           /\ \A x : x \in Octets({q[i].data : i \in DOMAIN q})
                 <=> \E i \in DOMAIN q : x \in q[i].data.lo .. (q[i].data.hi - 1)
BY Zenon DEF Octets

(* Every entry of the two queues holds a well-typed chunk. *)
LEMMA TypesOfQueues ==
    TypeOK => /\ \A i \in DOMAIN resend_queue :
                    /\ resend_queue[i] \in ResendEntry
                    /\ Sent(i) \in DataChunk
                    /\ Sent(i).lo \in Nat /\ Sent(i).hi \in Nat
              /\ \A i \in DOMAIN out_queue :
                    /\ out_queue[i] \in DataChunk
                    /\ out_queue[i].lo \in Nat /\ out_queue[i].hi \in Nat
<1> SUFFICES ASSUME TypeOK
             PROVE  /\ \A i \in DOMAIN resend_queue : /\ resend_queue[i] \in ResendEntry
                                                      /\ Sent(i) \in DataChunk
                    /\ \A i \in DOMAIN out_queue : out_queue[i] \in DataChunk
  BY Zenon DEF DataChunk
<1>1. resend_queue \in Seq(ResendEntry) /\ out_queue \in Seq(DataChunk)
  BY Zenon DEF TypeOK
<1>2. \A i \in DOMAIN resend_queue : resend_queue[i] \in ResendEntry
  BY <1>1
<1>3. \A e \in ResendEntry : e.data \in DataChunk
  BY Zenon DEF ResendEntry
<1>4. QED  BY <1>1, <1>2, <1>3 DEF Sent

(* Under Layout the two counters count disjoint sets of bytes. *)
Disjoint ==
    /\ IsFiniteSet(Octets(InFlight)) /\ IsFiniteSet(Octets(Queued))
    /\ Octets(InFlight) \subseteq 0 .. (accepted - 1) /\ Octets(Queued) \subseteq 0 .. (accepted - 1)
    /\ Octets(InFlight) \cap Octets(Queued) = {}
    /\ TotalLen(InFlight) \in Nat /\ TotalLen(Queued) \in Nat
    /\ TotalLen(InFlight \cup Queued) = TotalLen(InFlight) + TotalLen(Queued)

(* In the layout, in-flight and queued buffers share no byte. *)
LEMMA LayoutDisjoint == TypeOK /\ Layout => Disjoint
<1> SUFFICES ASSUME TypeOK, Layout PROVE Disjoint
  BY Zenon
<1> USE DEF InFlight, Queued, Sent
<1>1. \A i \in DOMAIN resend_queue : Sent(i) \in DataChunk
  BY TypesOfQueues, Zenon
<1>2. \A i \in DOMAIN out_queue : out_queue[i] \in DataChunk
  BY TypesOfQueues, Zenon
<1>3. accepted \in Nat
  BY Zenon DEF TypeOK
<1>4. \A c \in DataChunk : c.lo \in Nat /\ c.hi \in Nat
  BY Zenon DEF DataChunk
<1>5. Octets(InFlight) \subseteq 0 .. (accepted - 1)
  BY <1>1, <1>3, <1>4, OctetsOfSeq DEF Layout
<1>6. Octets(Queued) \subseteq 0 .. (accepted - 1)
  BY <1>2, <1>3, <1>4, OctetsOfSeq DEF Layout
<1>7. IsFiniteSet(0 .. (accepted - 1))
  BY <1>3, IntervalSize
<1>8. IsFiniteSet(Octets(InFlight)) /\ IsFiniteSet(Octets(Queued))
  BY <1>5, <1>6, <1>7, FS_Subset, Zenon
<1>9. Octets(InFlight) \cap Octets(Queued) = {}
  <2> SUFFICES ASSUME NEW x, x \in Octets(InFlight), x \in Octets(Queued) PROVE FALSE
    BY Zenon
  <2>1. PICK i \in DOMAIN resend_queue : x \in Sent(i).lo .. (Sent(i).hi - 1)
    BY OctetsOfSeq, Zenon
  <2>2. PICK j \in DOMAIN out_queue : x \in out_queue[j].lo .. (out_queue[j].hi - 1)
    BY OctetsOfSeq, Zenon
  <2>3. Sent(i).hi <= out_queue[j].lo
    BY Zenon DEF Layout
  <2>4. QED  BY <1>1, <1>2, <1>4, <2>1, <2>2, <2>3
<1>10. Cardinality(Octets(InFlight) \cup Octets(Queued))
         = Cardinality(Octets(InFlight)) + Cardinality(Octets(Queued))
       /\ Cardinality(Octets(InFlight)) \in Nat /\ Cardinality(Octets(Queued)) \in Nat
  BY <1>8, <1>9, DisjointLen, Zenon
<1>11. Octets(InFlight \cup Queued) = Octets(InFlight) \cup Octets(Queued)
  BY OctetsUnion, Zenon
<1> HIDE DEF InFlight, Queued
<1>12. QED  BY <1>5, <1>6, <1>8, <1>9, <1>10, <1>11, Zenon DEF Disjoint, TotalLen

(* The same of the next state. *)
LEMMA LayoutDisjointNext == (TypeOK /\ Layout => Disjoint)'
BY LayoutDisjoint, PTL

(* What AssertInvariants says, in terms of the two disjoint sets. *)
LEMMA Counters ==
    TypeOK /\ Layout =>
        (AssertInvariants <=> /\ current_in_flight = TotalLen(InFlight)
                              /\ current_out_buffered = TotalLen(InFlight) + TotalLen(Queued)
                              /\ current_out_buffered <= OutBufferLimit)
BY LayoutDisjoint, Zenon DEF Disjoint, AssertInvariants

(* The same of the next state. *)
LEMMA CountersNext ==
    (TypeOK /\ Layout =>
        (AssertInvariants <=> /\ current_in_flight = TotalLen(InFlight)
                              /\ current_out_buffered = TotalLen(InFlight) + TotalLen(Queued)
                              /\ current_out_buffered <= OutBufferLimit))'
BY Counters, PTL

-----------------------------------------------------------------------------
(* One lemma per operation. *)

(* try_send_data appends one buffer and adds its length to the count. *)
LEMMA TrySendStep ==
    ASSUME Inv, NEW len \in Lens, NEW stream \in Streams, NEW unordered \in Orderings,
           TrySendData(len, stream, unordered)
    PROVE  Inv'
<1> DEFINE new == [tsn |-> 0, stream_id |-> stream, stream_seq_num |-> per_stream[stream],
                   lo |-> accepted, hi |-> accepted + len, unordered |-> unordered,
                   begin |-> TRUE, end |-> TRUE]
<1>1. len \in Nat /\ unordered \in BOOLEAN /\ accepted \in Nat /\ 0 \in Tsn
      /\ current_out_buffered \in Nat
  BY TxAssumption, TsnAssumption DEF Inv, TypeOK, Tsn
<1>2. new \in DataChunk
  <2>1. per_stream[stream] \in SeqNum
    BY Zenon DEF Inv, TypeOK
  <2>2. QED  BY <1>1, <2>1 DEF DataChunk
<1>3. out_queue \in Seq(DataChunk) /\ out_queue' = Append(out_queue, new)
  BY Zenon DEF Inv, TypeOK, TrySendData
<1>4. /\ out_queue' \in Seq(DataChunk)
      /\ Len(out_queue') = Len(out_queue) + 1
      /\ \A i \in 1 .. Len(out_queue) : out_queue'[i] = out_queue[i]
      /\ out_queue'[Len(out_queue) + 1] = new
      /\ DOMAIN out_queue = 1 .. Len(out_queue) /\ Len(out_queue) \in Nat
      /\ DOMAIN out_queue' = 1 .. Len(out_queue) + 1
  BY <1>2, <1>3
<1>5. UNCHANGED <<resend_queue, wire, tsn_counter, last_acked_tsn, duplicated_acks,
                  current_in_flight, peer_rcv_window, rto_timer, primary_congestion,
                  pmtu_probe, probed, send_next, shutdown_state, shutdown_rto_timer>>
      /\ accepted' = accepted + len /\ current_out_buffered' = current_out_buffered + len
      /\ current_out_buffered + len <= OutBufferLimit
  BY Zenon DEF TrySendData, signalVars, probeVars
<1>6. TypeOK'
  <2>1. per_stream' \in [Streams -> SeqNum]
    <3>1. per_stream \in [Streams -> SeqNum]
          /\ per_stream' = IF unordered THEN per_stream
                           ELSE [per_stream EXCEPT ![stream] = (@ + 1) % SeqMod]
      BY Zenon DEF Inv, TypeOK, TrySendData
    <3>2. \A n \in SeqNum : (n + 1) % SeqMod \in SeqNum
      BY TxAssumption DEF SeqNum
    <3>3. QED  BY <3>1, <3>2, Zenon
  <2>2. QED  BY <1>1, <1>4, <1>5, <2>1 DEF Inv, TypeOK
<1>7. /\ \A i \in DOMAIN out_queue : out_queue[i].lo \in Nat /\ out_queue[i].hi \in Nat
      /\ \A i \in DOMAIN resend_queue : Sent(i).lo \in Nat /\ Sent(i).hi \in Nat
  BY TypesOfQueues, Zenon DEF Inv
<1>8. new.lo = accepted /\ new.hi = accepted + len
  BY Zenon
<1> HIDE DEF new
<1>9. Layout'
  <2>1. Layout
    BY Zenon DEF Inv
  <2>2. \A i \in DOMAIN resend_queue : Sent(i).lo <= Sent(i).hi /\ Sent(i).hi <= accepted + len
    BY <1>1, <1>7, <2>1 DEF Layout
  <2>3. \A i \in DOMAIN out_queue' : out_queue'[i].lo <= out_queue'[i].hi
                                    /\ out_queue'[i].hi <= accepted + len
    BY <1>1, <1>4, <1>7, <1>8, <2>1 DEF Layout
  <2>4. \A i, j \in DOMAIN out_queue' : i < j => out_queue'[i].hi <= out_queue'[j].lo
    BY <1>1, <1>4, <1>7, <1>8, <2>1 DEF Layout
  <2>5. \A i \in DOMAIN resend_queue, j \in DOMAIN out_queue' : Sent(i).hi <= out_queue'[j].lo
    BY <1>1, <1>4, <1>7, <1>8, <2>1 DEF Layout
  <2>6. QED  BY <1>5, <2>1, <2>2, <2>3, <2>4, <2>5, Zenon DEF Layout, Sent
<1>10. TotalLen(Queued') = TotalLen(Queued) + len
  <2>1. Queued' = Queued \cup {new}
    <3>1. LET r == Append(out_queue, new)
          IN  {r[i] : i \in DOMAIN r} = {out_queue[i] : i \in DOMAIN out_queue} \cup {new}
      BY <1>2, <1>3, ElementsAppend
    <3>2. QED  BY <1>3, <3>1, Zenon DEF Queued
  <2>2. IsFiniteSet(Octets(Queued)) /\ Octets(Queued) \subseteq 0 .. (accepted - 1)
    BY LayoutDisjoint, Zenon DEF Inv, Disjoint
  <2>3. Octets(Queued) \cap (new.lo .. (new.hi - 1)) = {}
    BY <1>1, <1>8, <2>2
  <2>4. new.lo \in Nat /\ new.hi \in Nat /\ new.lo <= new.hi /\ BufLen(new) = len
    BY <1>1, <1>8 DEF BufLen
  <2>5. QED  BY <2>1, <2>2, <2>3, <2>4, AddChunk, Zenon
<1>11. TotalLen(InFlight') = TotalLen(InFlight)
  BY <1>5, Zenon DEF InFlight
<1>12. AssertInvariants'
  <2>1. /\ current_in_flight = TotalLen(InFlight)
        /\ current_out_buffered = TotalLen(InFlight) + TotalLen(Queued)
        /\ TotalLen(InFlight) \in Nat /\ TotalLen(Queued) \in Nat
    BY Counters, LayoutDisjoint, Zenon DEF Inv, Disjoint
  <2>2. /\ current_in_flight' = TotalLen(InFlight')
        /\ current_out_buffered' = TotalLen(InFlight') + TotalLen(Queued')
        /\ current_out_buffered' <= OutBufferLimit
    BY <1>1, <1>5, <1>10, <1>11, <2>1
  <2>3. QED  BY <1>6, <1>9, <2>2, CountersNext, Zenon
<1>13. QED  BY <1>5, <1>6, <1>9, <1>12, Zenon DEF Inv, PmtuCoversHeader, get_pmtu

(* A step that only changes the marks of the entries of resend_queue. *)
LEMMA MarksStep ==
    ASSUME Inv, TypeOK', PmtuCoversHeader',
           UNCHANGED <<out_queue, accepted, current_out_buffered, current_in_flight>>,
           DOMAIN resend_queue' = DOMAIN resend_queue,
           \A i \in DOMAIN resend_queue : resend_queue'[i].data = resend_queue[i].data
    PROVE  Inv'
<1>1. Layout'
  <2>1. Layout
    BY Zenon DEF Inv
  <2>2. QED  BY <2>1, Zenon DEF Layout, Sent
<1>2. InFlight' = InFlight /\ Queued' = Queued
  <2>1. InFlight' = InFlight
    BY Zenon DEF InFlight
  <2>2. Queued' = Queued
    BY Zenon DEF Queued
  <2>3. QED  BY <2>1, <2>2, Zenon
<1>3. AssertInvariants
  BY Zenon DEF Inv
<1>4. AssertInvariants'
  BY <1>2, <1>3, Zenon DEF AssertInvariants
<1>5. QED  BY <1>1, <1>4, Zenon DEF Inv

(* Bytes that go from the queue to the wire do not change what is buffered. *)
LEMMA MovedBytes ==
    ASSUME NEW flight \in Nat, NEW queued \in Nat, NEW moved \in Nat
    PROVE  flight + (queued + moved) = (flight + moved) + queued
OBVIOUS

(* A buffer goes from the front of out_queue to the back of resend_queue. *)
MovesToWire(packet) ==
    /\ PutOnWire(packet)
    /\ UNCHANGED <<last_acked_tsn, duplicated_acks, primary_congestion, signalVars, probeVars>>
    /\ packet.lo <= packet.hi /\ packet.hi <= accepted /\ BufLen(packet) <= peer_rcv_window
    /\ \A i \in DOMAIN resend_queue : Sent(i).hi <= packet.lo
    /\ out_queue' \in Seq(DataChunk)
    /\ \A i \in DOMAIN out_queue' : /\ out_queue'[i].lo <= out_queue'[i].hi
                                    /\ out_queue'[i].hi <= accepted
                                    /\ packet.hi <= out_queue'[i].lo
    /\ \A i, j \in DOMAIN out_queue' : i < j => out_queue'[i].hi <= out_queue'[j].lo
    /\ Octets(Queued) = Octets(Queued' \cup {packet})

(* Such a move keeps the invariant. *)
LEMMA PutOnWireStep ==
    ASSUME Inv, NEW packet \in DataChunk, MovesToWire(packet)
    PROVE  Inv'
<1>a. packet.lo <= packet.hi /\ packet.hi <= accepted /\ BufLen(packet) <= peer_rcv_window
  BY Zenon DEF MovesToWire
<1>b. \A i \in DOMAIN resend_queue : Sent(i).hi <= packet.lo
  BY Zenon DEF MovesToWire
<1>c. /\ out_queue' \in Seq(DataChunk)
      /\ \A i \in DOMAIN out_queue' : /\ out_queue'[i].lo <= out_queue'[i].hi
                                      /\ out_queue'[i].hi <= accepted
                                      /\ packet.hi <= out_queue'[i].lo
      /\ \A i, j \in DOMAIN out_queue' : i < j => out_queue'[i].hi <= out_queue'[j].lo
  BY Zenon DEF MovesToWire
<1>d. Octets(Queued) = Octets(Queued' \cup {packet})
  BY Zenon DEF MovesToWire
<1>1. packet.lo \in Nat /\ packet.hi \in Nat /\ BufLen(packet) \in Nat
  <2>1. packet.lo \in Nat /\ packet.hi \in Nat
    BY Zenon DEF DataChunk
  <2>2. QED  BY <1>a, <2>1 DEF BufLen
<1> DEFINE entry == NewResendEntry(packet)
<1>2. entry \in ResendEntry /\ entry.data = packet
  BY Zenon DEF NewResendEntry, ResendEntry
<1>3. /\ resend_queue \in Seq(ResendEntry) /\ resend_queue' = Append(resend_queue, entry)
      /\ accepted \in Nat /\ tsn_counter \in Tsn /\ wire \in SUBSET DataChunk
      /\ current_in_flight \in Nat /\ peer_rcv_window \in Nat
  BY Zenon DEF Inv, TypeOK, MovesToWire, PutOnWire
<1>4. /\ tsn_counter' = increase(tsn_counter)
      /\ peer_rcv_window' = peer_rcv_window - BufLen(packet)
      /\ current_in_flight' = current_in_flight + BufLen(packet)
      /\ rto_timer' = TRUE /\ wire' = wire \cup {packet}
      /\ UNCHANGED <<accepted, current_out_buffered, per_stream, last_acked_tsn, duplicated_acks,
                     primary_congestion, pmtu_probe, probed, send_next, shutdown_state, shutdown_rto_timer>>
  BY Zenon DEF MovesToWire, PutOnWire, signalVars, probeVars
<1> HIDE DEF entry
<1>5. /\ resend_queue' \in Seq(ResendEntry)
      /\ Len(resend_queue) \in Nat /\ DOMAIN resend_queue = 1 .. Len(resend_queue)
      /\ DOMAIN resend_queue' = 1 .. Len(resend_queue) + 1
      /\ \A i \in 1 .. Len(resend_queue) : resend_queue'[i] = resend_queue[i]
      /\ resend_queue'[Len(resend_queue) + 1] = entry
  BY <1>2, <1>3
<1>6. TypeOK'
  <2>1. tsn_counter' \in Tsn
    BY <1>3, <1>4, IncreaseDecreaseType, Zenon
  <2>2. peer_rcv_window' \in Nat /\ current_in_flight' \in Nat
    BY <1>a, <1>1, <1>3, <1>4
  <2>3. wire' \in SUBSET DataChunk
    BY <1>3, <1>4, Zenon
  <2>4. QED  BY <1>c, <1>4, <1>5, <2>1, <2>2, <2>3, Zenon DEF Inv, TypeOK
<1>7. Layout'
  <2>1. /\ Layout
        /\ \A i \in DOMAIN resend_queue : Sent(i).lo \in Nat /\ Sent(i).hi \in Nat
    BY TypesOfQueues, Zenon DEF Inv
  <2>2. \A i \in DOMAIN resend_queue' :
           \/ i \in DOMAIN resend_queue /\ resend_queue'[i].data = Sent(i)
           \/ i = Len(resend_queue) + 1 /\ resend_queue'[i].data = packet
    BY <1>2, <1>5 DEF Sent
  <2>3. \A i \in DOMAIN out_queue' : out_queue'[i].lo \in Nat
    <3>1. \A i \in DOMAIN out_queue' : out_queue'[i] \in DataChunk
      BY <1>c
    <3>2. QED  BY <3>1, Zenon DEF DataChunk
  <2>4. \A i \in DOMAIN resend_queue' : resend_queue'[i].data.lo <= resend_queue'[i].data.hi
                                       /\ resend_queue'[i].data.hi <= accepted
    BY <1>a, <2>1, <2>2, Zenon DEF Layout
  <2>5. \A i, j \in DOMAIN resend_queue' :
           i < j => resend_queue'[i].data.hi <= resend_queue'[j].data.lo
    BY <1>b, <1>5, <2>1, <2>2, SMTT(20) DEF Layout
  <2>6. \A i \in DOMAIN resend_queue', j \in DOMAIN out_queue' :
           resend_queue'[i].data.hi <= out_queue'[j].lo
    <3> TAKE i \in DOMAIN resend_queue', j \in DOMAIN out_queue'
    <3>1. packet.hi <= out_queue'[j].lo /\ out_queue'[j].lo \in Nat
      BY <1>c, <2>3, Zenon
    <3>2. CASE resend_queue'[i].data = packet
      BY <3>1, <3>2, Zenon
    <3>3. CASE i \in DOMAIN resend_queue /\ resend_queue'[i].data = Sent(i)
      <4>1. Sent(i).hi <= packet.lo /\ Sent(i).hi \in Nat
        BY <1>b, <2>1, <3>3, Zenon
      <4>2. QED  BY <1>a, <1>1, <3>1, <3>3, <4>1
    <3>4. QED  BY <2>2, <3>2, <3>3, Zenon
  <2>7. QED  BY <1>c, <1>4, <2>4, <2>5, <2>6, Zenon DEF Layout, Sent
<1>8. TotalLen(InFlight') = TotalLen(InFlight) + BufLen(packet)
  <2>1. InFlight' = InFlight \cup {packet}
    <3>1. LET r == Append(resend_queue, entry)
          IN  {r[i].data : i \in DOMAIN r}
                = {resend_queue[i].data : i \in DOMAIN resend_queue} \cup {entry.data}
      BY <1>2, <1>3, ElementsAppend
    <3>2. QED  BY <1>2, <1>3, <3>1, Zenon DEF InFlight
  <2>2. IsFiniteSet(Octets(InFlight)) /\ Octets(InFlight) \cap Octets(Queued) = {}
    BY LayoutDisjoint, Zenon DEF Inv, Disjoint
  <2>3. Octets({packet}) = packet.lo .. (packet.hi - 1)
    BY OctetsSingle, Zenon
  <2>4. Octets(Queued) = Octets(Queued') \cup Octets({packet})
    BY <1>d, OctetsUnion, Zenon
  <2>5. Octets(InFlight) \cap (packet.lo .. (packet.hi - 1)) = {}
    BY <2>2, <2>3, <2>4, Zenon
  <2>6. QED  BY <1>a, <1>1, <2>1, <2>2, <2>5, AddChunk, Zenon
<1>9. TotalLen(Queued) = TotalLen(Queued') + BufLen(packet)
  <2>1. IsFiniteSet(Octets(Queued'))
    <3>1. Octets(Queued') \subseteq Octets(Queued)
      BY <1>d, OctetsUnion
    <3>2. IsFiniteSet(Octets(Queued))
      BY LayoutDisjoint, Zenon DEF Inv, Disjoint
    <3>3. QED  BY <3>1, <3>2, FS_Subset, Zenon
  <2>2. Octets(Queued') \cap (packet.lo .. (packet.hi - 1)) = {}
    <3> SUFFICES ASSUME NEW x, x \in Octets(Queued'), x \in packet.lo .. (packet.hi - 1)
                 PROVE  FALSE
      BY Zenon
    <3>1. PICK i \in DOMAIN out_queue' : x \in out_queue'[i].lo .. (out_queue'[i].hi - 1)
      BY OctetsOfSeq, Zenon DEF Queued
    <3>2. out_queue'[i].lo \in Nat /\ out_queue'[i].hi \in Nat
      <4>1. out_queue'[i] \in DataChunk
        BY <1>c
      <4>2. QED  BY <4>1, Zenon DEF DataChunk
    <3>3. packet.hi <= out_queue'[i].lo
      BY <1>c, Zenon
    <3>4. QED  BY <1>1, <3>1, <3>2, <3>3
  <2>3. TotalLen(Queued' \cup {packet}) = TotalLen(Queued') + BufLen(packet)
    BY <1>a, <1>1, <2>1, <2>2, AddChunk, Zenon
  <2>4. QED  BY <1>d, <2>3, Zenon DEF TotalLen
<1>10. AssertInvariants'
  <2>1. /\ current_in_flight = TotalLen(InFlight)
        /\ current_out_buffered = TotalLen(InFlight) + TotalLen(Queued)
        /\ current_out_buffered <= OutBufferLimit
        /\ TotalLen(InFlight) \in Nat /\ TotalLen(Queued) \in Nat
    BY Counters, LayoutDisjoint, Zenon DEF Inv, Disjoint
  <2>2. TotalLen(Queued') \in Nat
    BY <1>6, <1>7, LayoutDisjointNext, Zenon DEF Disjoint
  <2>3. /\ current_in_flight' = TotalLen(InFlight')
        /\ current_out_buffered' = TotalLen(InFlight') + TotalLen(Queued')
        /\ current_out_buffered' <= OutBufferLimit
    <3>1. TotalLen(InFlight) + TotalLen(Queued)
             = (TotalLen(InFlight) + BufLen(packet)) + TotalLen(Queued')
      BY <1>1, <1>9, <2>1, <2>2, MovedBytes
    <3>2. current_in_flight' = TotalLen(InFlight')
      BY <1>4, <1>8, <2>1, Zenon
    <3>3. current_out_buffered' = current_out_buffered
      BY <1>4, Zenon
    <3>4. QED  BY <1>8, <2>1, <3>1, <3>2, <3>3, ZenonT(30)
  <2>4. QED  BY <1>6, <1>7, <2>3, CountersNext, Zenon
<1>11. QED  BY <1>4, <1>6, <1>7, <1>10, Zenon DEF Inv, PmtuCoversHeader, get_pmtu

(* poll_data_to_send sends the front of out_queue entirely. *)
LEMMA PollWholeStep ==
    ASSUME Inv, NEW room \in Nat, PollWhole(room),
           UNCHANGED <<last_acked_tsn, duplicated_acks, primary_congestion, signalVars, probeVars>>
    PROVE  Inv'
<1> DEFINE packet == [out_queue[1] EXCEPT !.tsn = tsn_counter, !.end = TRUE]
<1>1. /\ out_queue \in Seq(DataChunk) /\ out_queue # <<>> /\ out_queue' = Tail(out_queue)
      /\ tsn_counter \in Tsn /\ PutOnWire(packet) /\ peer_rcv_window \in Nat
      /\ BufLen(out_queue[1]) <= MinOf(room, peer_rcv_window)
  BY Zenon DEF Inv, TypeOK, PollWhole, MaySendNew
<1>2. /\ Len(out_queue) \in Nat /\ Len(out_queue) >= 1
      /\ DOMAIN out_queue = 1 .. Len(out_queue) /\ 1 \in DOMAIN out_queue
      /\ out_queue' \in Seq(DataChunk)
      /\ DOMAIN out_queue' = 1 .. (Len(out_queue) - 1)
      /\ \A i \in 1 .. (Len(out_queue) - 1) : out_queue'[i] = out_queue[i + 1]
  BY <1>1
<1>3. /\ Layout
      /\ \A i \in DOMAIN out_queue : out_queue[i] \in DataChunk
                                     /\ out_queue[i].lo \in Nat /\ out_queue[i].hi \in Nat
  BY TypesOfQueues, Zenon DEF Inv
<1>4. packet \in DataChunk /\ packet.lo = out_queue[1].lo /\ packet.hi = out_queue[1].hi
  BY <1>1, <1>2, <1>3, ZenonT(30) DEF DataChunk
<1> HIDE DEF packet
<1>5. packet.lo <= packet.hi /\ packet.hi <= accepted
      /\ \A i \in DOMAIN resend_queue : Sent(i).hi <= packet.lo
  BY <1>2, <1>3, <1>4, Zenon DEF Layout
<1>6. BufLen(packet) <= peer_rcv_window
  <2>1. BufLen(packet) = BufLen(out_queue[1]) /\ BufLen(packet) \in Int
    BY <1>2, <1>3, <1>4 DEF BufLen
  <2>2. QED  BY <1>1, <2>1 DEF MinOf
<1>7. \A i \in DOMAIN out_queue' : i + 1 \in DOMAIN out_queue /\ 1 < i + 1
                                   /\ out_queue'[i] = out_queue[i + 1]
  BY <1>2
<1>8. \A i \in DOMAIN out_queue' : /\ out_queue'[i].lo <= out_queue'[i].hi
                                    /\ out_queue'[i].hi <= accepted
                                    /\ packet.hi <= out_queue'[i].lo
  BY <1>2, <1>3, <1>4, <1>7, ZenonT(30) DEF Layout
<1>9. \A i, j \in DOMAIN out_queue' : i < j => out_queue'[i].hi <= out_queue'[j].lo
  <2>1. \A i, j \in DOMAIN out_queue' : i < j => i + 1 < j + 1
    BY <1>2
  <2>2. QED  BY <1>3, <1>7, <2>1, Zenon DEF Layout
<1>10. Octets(Queued) = Octets(Queued' \cup {packet})
  <2>1. Queued = {out_queue[1]} \cup Queued'
    BY <1>1, ElementsTail DEF Queued
  <2>2. Octets({out_queue[1]}) = Octets({packet})
    BY <1>4, OctetsSingle, Zenon
  <2>3. Octets(Queued) = Octets({out_queue[1]}) \cup Octets(Queued')
    BY <2>1, OctetsUnion, Zenon
  <2>4. Octets(Queued' \cup {packet}) = Octets(Queued') \cup Octets({packet})
    BY OctetsUnion, Zenon
  <2>5. QED  BY <2>2, <2>3, <2>4, Zenon
<1>11. QED  BY <1>1, <1>2, <1>4, <1>5, <1>6, <1>8, <1>9, <1>10, PutOnWireStep, ZenonT(30) DEF MovesToWire

(* poll_data_to_send splits the front of out_queue. *)
LEMMA PollFragmentStep ==
    ASSUME Inv, NEW room \in Nat, PollFragment(room),
           UNCHANGED <<last_acked_tsn, duplicated_acks, primary_congestion, signalVars, probeVars>>
    PROVE  Inv'
<1> DEFINE front == out_queue[1]
           len == MinOf(room, peer_rcv_window)
           packet == Fragment(front, len)
           rest == Rest(front, len)
<1>1. /\ out_queue \in Seq(DataChunk) /\ out_queue # <<>>
      /\ out_queue' = [out_queue EXCEPT ![1] = rest]
      /\ tsn_counter \in Tsn /\ PutOnWire(packet) /\ peer_rcv_window \in Nat
      /\ BufLen(front) > len /\ accepted \in Nat
  BY Zenon DEF Inv, TypeOK, PollFragment, MaySendNew
<1>2. len \in Nat /\ len <= peer_rcv_window
  BY <1>1 DEF MinOf
<1> HIDE DEF len
<1>3. Len(out_queue) \in Nat /\ DOMAIN out_queue = 1 .. Len(out_queue) /\ 1 \in DOMAIN out_queue
  BY <1>1
<1>4. /\ Layout
      /\ \A i \in DOMAIN out_queue : out_queue[i] \in DataChunk
                                     /\ out_queue[i].lo \in Nat /\ out_queue[i].hi \in Nat
  BY TypesOfQueues DEF Inv
<1>5. front \in DataChunk /\ front.lo \in Nat /\ front.hi \in Nat
      /\ front.lo + len \in Nat /\ front.lo + len < front.hi
  <2>1. front \in DataChunk /\ front.lo \in Nat /\ front.hi \in Nat
    BY <1>3, <1>4, Zenon
  <2>2. front.hi - front.lo > len
    BY <1>1, Zenon DEF BufLen
  <2>3. \A a, b, n \in Nat : b - a > n => a + n \in Nat /\ a + n < b
    OBVIOUS
  <2>4. QED  BY <1>2, <2>1, <2>2, <2>3, Zenon
<1>6. packet \in DataChunk /\ packet.lo = front.lo /\ packet.hi = front.lo + len
  BY <1>1, <1>5, Zenon DEF Fragment, DataChunk
<1>7. rest \in DataChunk /\ rest.lo = front.lo + len /\ rest.hi = front.hi
  BY <1>5, Zenon DEF Rest, DataChunk
<1> HIDE DEF packet, rest
<1>8. /\ out_queue' \in Seq(DataChunk) /\ DOMAIN out_queue' = DOMAIN out_queue
      /\ out_queue'[1] = rest /\ \A i \in DOMAIN out_queue \ {1} : out_queue'[i] = out_queue[i]
  BY <1>1, <1>3, <1>7
<1>9. packet.lo <= packet.hi /\ packet.hi <= accepted
      /\ \A i \in DOMAIN resend_queue : Sent(i).hi <= packet.lo
  <2>1. front.hi <= accepted /\ \A i \in DOMAIN resend_queue : Sent(i).hi <= front.lo
    BY <1>3, <1>4, Zenon DEF Layout
  <2>2. QED  BY <1>1, <1>2, <1>5, <1>6, <2>1
<1>10. BufLen(packet) <= peer_rcv_window
  BY <1>1, <1>2, <1>5, <1>6 DEF BufLen
<1>11. \A i \in DOMAIN out_queue' :
          \/ i = 1 /\ out_queue'[i].lo = packet.hi /\ out_queue'[i].hi = front.hi
          \/ 1 < i /\ out_queue'[i] = out_queue[i] /\ front.hi <= out_queue[i].lo
  <2>1. \A i \in DOMAIN out_queue \ {1} : 1 < i
    BY <1>3
  <2>2. \A i \in DOMAIN out_queue \ {1} : front.hi <= out_queue[i].lo
    BY <1>3, <1>4, <2>1, Zenon DEF Layout
  <2>3. QED  BY <1>6, <1>7, <1>8, <2>1, <2>2, Zenon
<1>12. \A i \in DOMAIN out_queue' : /\ out_queue'[i].lo <= out_queue'[i].hi
                                     /\ out_queue'[i].hi <= accepted
                                     /\ packet.hi <= out_queue'[i].lo
  <2> TAKE i \in DOMAIN out_queue'
  <2>1. front.hi <= accepted /\ out_queue[i].lo <= out_queue[i].hi /\ out_queue[i].hi <= accepted
        /\ out_queue[i].lo \in Nat
    BY <1>3, <1>4, <1>8, Zenon DEF Layout
  <2>2. packet.hi \in Nat /\ packet.hi <= front.hi
    BY <1>5, <1>6
  <2>3. CASE out_queue'[i].lo = packet.hi /\ out_queue'[i].hi = front.hi
    BY <2>1, <2>2, <2>3
  <2>4. CASE out_queue'[i] = out_queue[i] /\ front.hi <= out_queue[i].lo
    <3>1. \A a, b, c \in Nat : a <= b /\ b <= c => a <= c
      OBVIOUS
    <3>2. QED  BY <1>5, <2>1, <2>2, <2>4, <3>1, Zenon
  <2>5. QED  BY <1>11, <2>3, <2>4, Zenon
<1>13. \A i, j \in DOMAIN out_queue' : i < j => out_queue'[i].hi <= out_queue'[j].lo
  <2>1. DOMAIN out_queue' \subseteq Nat \ {0}
    <3>1. \A n \in Nat : 1 .. n \subseteq Nat \ {0}
      OBVIOUS
    <3>2. QED  BY <1>3, <1>8, <3>1, Zenon
  <2> TAKE i, j \in DOMAIN out_queue'
  <2> HAVE i < j
  <2>2. i \in Nat /\ j \in Nat /\ 1 <= i /\ j # 1
    BY <2>1
  <2>3. out_queue'[j] = out_queue[j] /\ front.hi <= out_queue[j].lo
    BY <1>11, <2>2, Zenon
  <2>4. CASE out_queue'[i].hi = front.hi
    BY <2>3, <2>4, Zenon
  <2>5. CASE out_queue'[i] = out_queue[i]
    BY <1>4, <1>8, <2>3, <2>5, Zenon DEF Layout
  <2>6. QED  BY <1>11, <2>4, <2>5, Zenon
<1>14. Octets(Queued) = Octets(Queued' \cup {packet})
  <2> DEFINE others == {out_queue[i] : i \in DOMAIN out_queue \ {1}}
  <2>1. Queued = {front} \cup others
    <3>1. 1 \in DOMAIN out_queue
      BY <1>3, Zenon
    <3>2. QED  BY <3>1, Zenon DEF Queued
  <2>2. Queued' = {rest} \cup others
    <3>1. 1 \in DOMAIN out_queue
      BY <1>3
    <3>2. QED  BY <1>1, <3>1, ElementsExcept, SMTT(20) DEF Queued
  <2> HIDE DEF others
  <2>3. /\ Octets({front}) = front.lo .. (front.hi - 1)
        /\ Octets({rest}) = rest.lo .. (rest.hi - 1)
        /\ Octets({packet}) = packet.lo .. (packet.hi - 1)
    BY OctetsSingle, Zenon
  <2>4. front.lo .. (front.hi - 1)
          = (rest.lo .. (rest.hi - 1)) \cup (packet.lo .. (packet.hi - 1))
    BY <1>2, <1>5, <1>6, <1>7
  <2>5. Octets({front}) = Octets({rest}) \cup Octets({packet})
    BY <2>3, <2>4, Zenon
  <2>6. /\ Octets(Queued) = Octets({front}) \cup Octets(others)
        /\ Octets(Queued') = Octets({rest}) \cup Octets(others)
    BY <2>1, <2>2, OctetsUnion, Zenon
  <2>7. Octets(Queued' \cup {packet}) = Octets(Queued') \cup Octets({packet})
    BY OctetsUnion
  <2>8. QED  BY <2>5, <2>6, <2>7, Zenon
<1>15. QED  BY <1>1, <1>6, <1>8, <1>9, <1>10, <1>12, <1>13, <1>14, PutOnWireStep, Zenon DEF MovesToWire

(* A retransmission changes one entry's marks. *)
LEMMA PollRetransmitStep ==
    ASSUME Inv, NEW room \in Nat, PollLossRecovery(room) \/ PollFastRecovery(room),
           UNCHANGED <<last_acked_tsn, duplicated_acks, primary_congestion, signalVars, probeVars>>
    PROVE  Inv'
<1>1. resend_queue \in Seq(ResendEntry) /\ wire \in SUBSET DataChunk /\ rto_timer \in BOOLEAN
  BY Zenon DEF Inv, TypeOK
<1>2. UNCHANGED <<out_queue, accepted, tsn_counter, current_out_buffered, current_in_flight,
                  peer_rcv_window, per_stream, last_acked_tsn, duplicated_acks,
                  primary_congestion, pmtu_probe, probed, send_next, shutdown_state, shutdown_rto_timer>>
  BY Zenon DEF PollLossRecovery, PollFastRecovery, signalVars, probeVars
<1>3. PICK i \in DOMAIN resend_queue, e \in ResendEntry :
         /\ e.data = resend_queue[i].data
         /\ resend_queue' = [resend_queue EXCEPT ![i] = e]
         /\ wire' = wire \cup {resend_queue[i].data}
         /\ rto_timer' \in BOOLEAN
  <2>1. CASE PollLossRecovery(room)
    <3>1. 1 \in DOMAIN resend_queue /\ resend_queue[1] \in ResendEntry
      BY <1>1, <2>1 DEF PollLossRecovery
    <3> DEFINE e == [resend_queue[1] EXCEPT !.marked_for_retransmit = FALSE]
    <3>2. e \in ResendEntry /\ e.data = resend_queue[1].data
      BY <3>1, Zenon DEF ResendEntry
    <3>3. /\ resend_queue' = [resend_queue EXCEPT ![1] = e]
          /\ wire' = wire \cup {resend_queue[1].data} /\ rto_timer' \in BOOLEAN
      BY <2>1, Zenon DEF PollLossRecovery
    <3> HIDE DEF e
    <3>4. QED  BY <3>1, <3>2, <3>3, Zenon
  <2>2. CASE PollFastRecovery(room)
    <3>1. PICK i \in DOMAIN resend_queue :
             /\ resend_queue' = [resend_queue EXCEPT ![i].marked_was_fast_retransmit = TRUE,
                                                     ![i].marked_for_fast_retransmit = FALSE]
             /\ wire' = wire \cup {resend_queue[i].data}
             /\ rto_timer' = rto_timer
      BY <2>2, Zenon DEF PollFastRecovery
    <3> DEFINE e == [resend_queue[i] EXCEPT !.marked_was_fast_retransmit = TRUE,
                                            !.marked_for_fast_retransmit = FALSE]
    <3>2. resend_queue[i] \in ResendEntry
      BY <1>1
    <3>3. e \in ResendEntry /\ e.data = resend_queue[i].data
      BY <3>2, Zenon DEF ResendEntry
    <3>4. resend_queue' = [resend_queue EXCEPT ![i] = e]
      BY <1>1, <3>1, Zenon
    <3> HIDE DEF e
    <3>5. QED  BY <1>1, <3>1, <3>3, <3>4, Zenon
  <2>3. QED  BY <2>1, <2>2, Zenon
<1>4. resend_queue' \in Seq(ResendEntry) /\ DOMAIN resend_queue' = DOMAIN resend_queue
      /\ \A j \in DOMAIN resend_queue : resend_queue'[j].data = resend_queue[j].data
  <2>1. resend_queue' \in Seq(ResendEntry)
    BY <1>1, <1>3
  <2>2. QED  BY <1>3, <2>1, Zenon
<1>5. wire' \in SUBSET DataChunk
  <2>1. resend_queue[i].data \in DataChunk
    BY TypesOfQueues, Zenon DEF Inv, Sent
  <2>2. QED  BY <1>1, <1>3, <2>1, Zenon
<1>6. TypeOK'
  BY <1>2, <1>3, <1>4, <1>5, Zenon DEF Inv, TypeOK
<1>7. PmtuCoversHeader'
  BY <1>2, Zenon DEF Inv, PmtuCoversHeader, get_pmtu
<1>8. QED  BY <1>2, <1>4, <1>6, <1>7, MarksStep, Zenon

(* poll_data_to_send in any of its cases. *)
LEMMA PollStep ==
    ASSUME Inv, NEW data_limit \in DataLimits, NEW already_packed \in Packed,
           PollDataToSend(data_limit, already_packed)
    PROVE  Inv'
<1> DEFINE room == MinOf(data_limit, get_pmtu - already_packed) - DataHeader
<1>1. room \in Nat
  <2>1. data_limit \in Nat /\ already_packed \in Nat /\ DataHeader \in Nat /\ get_pmtu \in Nat
    BY TxAssumption, ProbeAssumption DEF Inv, TypeOK, get_pmtu, PmtuProbe, Usize
  <2>2. MinOf(data_limit, get_pmtu - already_packed) > DataHeader
    BY Zenon DEF PollDataToSend
  <2>3. QED  BY <2>1, <2>2 DEF MinOf
<1>2. /\ \/ PollLossRecovery(room) \/ PollFastRecovery(room)
         \/ PollWhole(room) \/ PollFragment(room)
      /\ UNCHANGED <<last_acked_tsn, duplicated_acks, primary_congestion, signalVars, probeVars>>
  BY Zenon DEF PollDataToSend
<1> HIDE DEF room
<1>3. QED  BY <1>1, <1>2, PollRetransmitStep, PollWholeStep, PollFragmentStep, Zenon

(* The timeout handlers and the heartbeat keep the queues as they are. *)
LEMMA RtoTimeoutStep ==
    ASSUME Inv, NEW late, HandleRtoTimeout(late)
    PROVE  Inv'
<1>1. /\ resend_queue \in Seq(ResendEntry) /\ primary_congestion \in PerDestinationInfo
      /\ resend_queue' = [i \in DOMAIN resend_queue |->
                            [resend_queue[i] EXCEPT !.marked_for_retransmit = @ \/ i \in late]]
      /\ rto_timer' \in BOOLEAN
  BY Zenon DEF Inv, TypeOK, HandleRtoTimeout
<1>2. UNCHANGED <<out_queue, wire, accepted, tsn_counter, last_acked_tsn, duplicated_acks,
                  current_out_buffered, current_in_flight, peer_rcv_window, per_stream,
                  pmtu_probe, probed, send_next, shutdown_state, shutdown_rto_timer>>
  BY Zenon DEF HandleRtoTimeout, signalVars, probeVars
<1>3. /\ DOMAIN resend_queue' = DOMAIN resend_queue
      /\ \A i \in DOMAIN resend_queue : resend_queue'[i] \in ResendEntry
                                        /\ resend_queue'[i].data = resend_queue[i].data
  <2>1. \A e \in ResendEntry, b \in BOOLEAN :
           LET f == [e EXCEPT !.marked_for_retransmit = @ \/ b]
           IN  f \in ResendEntry /\ f.data = e.data
    BY Zenon DEF ResendEntry
  <2>2. \A i \in DOMAIN resend_queue : resend_queue[i] \in ResendEntry
    BY <1>1
  <2>3. QED  BY <1>1, <2>1, <2>2, Zenon
<1>4. resend_queue' \in Seq(ResendEntry)
  BY <1>1, <1>3
<1>5. primary_congestion' \in PerDestinationInfo
  <2>1. RtoExpired(primary_congestion) \in PerDestinationInfo
    BY <1>1, CongestionType, Zenon
  <2>2. QED  BY <1>1, <2>1, Zenon DEF HandleRtoTimeout
<1>6. TypeOK'
  BY <1>1, <1>2, <1>4, <1>5, Zenon DEF Inv, TypeOK
<1>7. PmtuCoversHeader'
  BY <1>2, Zenon DEF Inv, PmtuCoversHeader, get_pmtu
<1>8. QED  BY <1>2, <1>3, <1>6, <1>7, MarksStep, Zenon

(* The operations of PmtuProbe keep its type and never lower the MTU. *)
LEMMA ProbeType ==
    ASSUME NEW p \in PmtuProbe
    PROVE  /\ NextProbeSize(p) \in PmtuProbe
           /\ NextProbeSize(p).highest_successful = p.highest_successful
           /\ ProbeTimedOut(p) \in PmtuProbe
           /\ ProbeTimedOut(p).highest_successful = p.highest_successful
           /\ \A size \in Usize : /\ ProbeSuccess(p, size) \in PmtuProbe
                                  /\ ProbeSuccess(p, size).highest_successful
                                        >= p.highest_successful
<1>1. UsizeMod \in Nat \ {0} /\ PROBE_STEP_SIZE \in Nat /\ ProbeStepBack \in Nat
  BY ProbeAssumption
<1>2. \A n \in Int : n % UsizeMod \in Usize
  BY <1>1 DEF Usize
<1>3. p.last_tested_size \in Int /\ p.highest_successful \in Usize
  BY <1>1 DEF PmtuProbe, Usize
<1>4. (p.last_tested_size + PROBE_STEP_SIZE) % UsizeMod \in Usize
  <2>1. p.last_tested_size + PROBE_STEP_SIZE \in Int
    BY <1>1, <1>3
  <2>2. QED  BY <1>2, <2>1, Zenon
<1>5. (p.last_tested_size - (PROBE_STEP_SIZE + ProbeStepBack)) % UsizeMod \in Usize
  <2>1. p.last_tested_size - (PROBE_STEP_SIZE + ProbeStepBack) \in Int
    BY <1>1, <1>3
  <2>2. QED  BY <1>2, <2>1, Zenon
<1>6. NextProbeSize(p) \in PmtuProbe
      /\ NextProbeSize(p).highest_successful = p.highest_successful
  BY <1>4, Zenon DEF NextProbeSize, PmtuProbe
<1>7. ProbeTimedOut(p) \in PmtuProbe
      /\ ProbeTimedOut(p).highest_successful = p.highest_successful
  BY <1>5, Zenon DEF ProbeTimedOut, PmtuProbe
<1>8. ASSUME NEW size \in Usize
      PROVE  ProbeSuccess(p, size) \in PmtuProbe
             /\ ProbeSuccess(p, size).highest_successful >= p.highest_successful
  <2> DEFINE highest == IF p.highest_successful >= size THEN p.highest_successful ELSE size
  <2>1. highest \in Usize /\ highest >= p.highest_successful
    BY <1>1, <1>3 DEF Usize
  <2>2. ProbeSuccess(p, size) = [p EXCEPT !.highest_successful = highest,
                                          !.probe_in_flight = FALSE]
    BY Zenon DEF ProbeSuccess, PmtuProbe
  <2> HIDE DEF highest
  <2>3. QED  BY <2>1, <2>2, Zenon DEF PmtuProbe
<1>9. QED  BY <1>6, <1>7, <1>8, Zenon

(* process_heartbeat_ack only raises the MTU. *)
LEMMA HeartbeatAckStep ==
    ASSUME Inv, NEW size \in probed, ProcessHeartbeatAck(size)
    PROVE  Inv'
<1>1. size \in Usize /\ pmtu_probe \in PmtuProbe /\ PacketHeader \in Nat
      /\ PacketHeader <= pmtu_probe.highest_successful
      /\ primary_congestion \in PerDestinationInfo
  BY CongestionAssumption, Zenon DEF Inv, TypeOK, PmtuCoversHeader, get_pmtu
<1>2. pmtu_probe' \in PmtuProbe
      /\ pmtu_probe'.highest_successful >= pmtu_probe.highest_successful
  BY <1>1, ProbeType, Zenon DEF ProcessHeartbeatAck
<1>3. pmtu_probe'.highest_successful \in Nat /\ PacketHeader <= pmtu_probe'.highest_successful
  BY <1>1, <1>2, ProbeAssumption DEF PmtuProbe, Usize
<1>4. primary_congestion' \in PerDestinationInfo
  <2>1. UpdatePmtu(primary_congestion, pmtu_probe'.highest_successful) \in PerDestinationInfo
    BY <1>1, <1>3, CongestionType, Zenon
  <2>2. QED  BY <2>1, Zenon DEF ProcessHeartbeatAck
<1>5. UNCHANGED <<out_queue, resend_queue, wire, accepted, tsn_counter, last_acked_tsn,
                  duplicated_acks, current_out_buffered, current_in_flight, peer_rcv_window,
                  per_stream, rto_timer, send_next, shutdown_state, shutdown_rto_timer, probed>>
  BY Zenon DEF ProcessHeartbeatAck, signalVars
<1>6. TypeOK'
  BY <1>2, <1>4, <1>5, Zenon DEF Inv, TypeOK
<1>7. QED  BY <1>3, <1>5, <1>6, MarksStep, Zenon DEF PmtuCoversHeader, get_pmtu

(* Marking by the gap blocks keeps the entries' data. *)
LEMMA MarkByGapBlocksType ==
    ASSUME NEW q \in Seq(ResendEntry), NEW sack
    PROVE  /\ MarkByGapBlocks(q, sack) \in Seq(ResendEntry)
           /\ DOMAIN MarkByGapBlocks(q, sack) = DOMAIN q
           /\ \A i \in DOMAIN q : MarkByGapBlocks(q, sack)[i].data = q[i].data
<1> DEFINE r == MarkByGapBlocks(q, sack)
<1>1. \A e \in ResendEntry, b \in BOOLEAN, c \in BOOLEAN :
         LET f == [e EXCEPT !.marked_for_fast_retransmit = @ \/ b, !.partially_acked = c]
         IN  f \in ResendEntry /\ f.data = e.data
  BY Zenon DEF ResendEntry
<1>2. \A t : BeforeGapBlock(sack, t) \in BOOLEAN /\ InGapBlock(sack, t) \in BOOLEAN
  BY Zenon DEF BeforeGapBlock, InGapBlock
<1>3. \A i \in DOMAIN q : q[i] \in ResendEntry
  OBVIOUS
<1>4. r = [i \in DOMAIN q |->
              IF q[i].partially_acked THEN q[i]
              ELSE [q[i] EXCEPT
                      !.marked_for_fast_retransmit = @ \/ BeforeGapBlock(sack, q[i].data.tsn),
                      !.partially_acked = InGapBlock(sack, q[i].data.tsn)]]
  BY Zenon DEF MarkByGapBlocks
<1> HIDE DEF r
<1>5. DOMAIN r = DOMAIN q /\ r = [i \in DOMAIN q |-> r[i]]
  BY <1>4, Zenon
<1>6. \A i \in DOMAIN q : r[i] \in ResendEntry /\ r[i].data = q[i].data
  <2> SUFFICES ASSUME NEW i \in DOMAIN q PROVE r[i] \in ResendEntry /\ r[i].data = q[i].data
    BY Zenon
  <2>1. CASE q[i].partially_acked
    BY <1>3, <1>4, <2>1, Zenon
  <2>2. CASE ~ q[i].partially_acked
    <3> DEFINE b == BeforeGapBlock(sack, q[i].data.tsn)
               c == InGapBlock(sack, q[i].data.tsn)
    <3>1. r[i] = [q[i] EXCEPT !.marked_for_fast_retransmit = @ \/ b, !.partially_acked = c]
      BY <1>4, <2>2, Zenon
    <3>2. b \in BOOLEAN /\ c \in BOOLEAN
      BY <1>2, Zenon
    <3> HIDE DEF b, c
    <3>3. q[i] \in ResendEntry
      BY <1>3, Zenon
    <3>4. /\ [q[i] EXCEPT !.marked_for_fast_retransmit = @ \/ b, !.partially_acked = c] \in ResendEntry
          /\ [q[i] EXCEPT !.marked_for_fast_retransmit = @ \/ b, !.partially_acked = c].data = q[i].data
      BY <1>1, <3>2, <3>3, Zenon
    <3>5. QED  BY <3>1, <3>4, Zenon
  <2>3. QED  BY <2>1, <2>2, Zenon
<1>7. r \in Seq(ResendEntry)
  <2>1. DOMAIN q = 1 .. Len(q) /\ Len(q) \in Nat
    OBVIOUS
  <2>2. QED  BY <1>5, <1>6, <2>1
<1>8. QED  BY <1>5, <1>6, <1>7, Zenon DEF r

(* The bytes newly reported in gap blocks are a number of bytes. *)
LEMMA SubsetLen ==
    ASSUME NEW q, NEW S, S \subseteq {q[i].data : i \in DOMAIN q},
           IsFiniteSet(Octets({q[i].data : i \in DOMAIN q}))
    PROVE  IsFiniteSet(Octets(S)) /\ TotalLen(S) \in Nat
<1>1. Octets(S) \subseteq Octets({q[i].data : i \in DOMAIN q})
  BY Zenon DEF Octets
<1>2. IsFiniteSet(Octets(S))
  BY <1>1, FS_Subset, Zenon
<1>3. QED  BY <1>2, FS_CardinalityType, Zenon DEF TotalLen

(* handle_sack with the cumulative TSN of the last SACK pops nothing. *)
LEMMA SackDuplicateStep ==
    ASSUME Inv, NEW sack \in PeerSacks, SackDuplicate(sack),
           UNCHANGED <<out_queue, wire, accepted, tsn_counter, per_stream, signalVars, probeVars>>
    PROVE  Inv'
<1>1. /\ resend_queue \in Seq(ResendEntry) /\ primary_congestion \in PerDestinationInfo
      /\ resend_queue' = MarkByGapBlocks(resend_queue, sack)
      /\ duplicated_acks \in Nat /\ duplicated_acks' = MinOf(duplicated_acks + 1, MaxDupAcks)
      /\ current_in_flight \in Nat
      /\ peer_rcv_window' = SaturatingSub(sack.a_rwnd, current_in_flight)
  BY Zenon DEF Inv, TypeOK, SackDuplicate
<1>2. UNCHANGED <<out_queue, wire, accepted, tsn_counter, per_stream, pmtu_probe, probed, send_next,
                  shutdown_state, shutdown_rto_timer, last_acked_tsn, current_out_buffered,
                  current_in_flight, rto_timer>>
  BY Zenon DEF SackDuplicate, signalVars, probeVars
<1>3. sack.a_rwnd \in Nat
  BY TxAssumption, Zenon DEF PeerSacks
<1>4. peer_rcv_window' \in Nat
  BY <1>1, <1>3 DEF SaturatingSub
<1>5. /\ resend_queue' \in Seq(ResendEntry) /\ DOMAIN resend_queue' = DOMAIN resend_queue
      /\ \A i \in DOMAIN resend_queue : resend_queue'[i].data = resend_queue[i].data
  BY <1>1, MarkByGapBlocksType, Zenon
<1>6. primary_congestion' \in PerDestinationInfo
  <2> DEFINE before == IF duplicated_acks' >= 2 /\ resend_queue # <<>>
                       THEN EnterFastRecovery(primary_congestion) ELSE primary_congestion
             partial == TotalLen(NewlyInGapBlock(resend_queue, sack))
  <2>1. before \in PerDestinationInfo
    BY <1>1, CongestionType, Zenon
  <2>2. partial \in Nat
    <3>1. NewlyInGapBlock(resend_queue, sack) \subseteq InFlight
      BY Zenon DEF NewlyInGapBlock, InFlight
    <3>2. IsFiniteSet(Octets(InFlight))
      BY LayoutDisjoint, Zenon DEF Inv, Disjoint
    <3>3. QED  BY <3>1, <3>2, SubsetLen, Zenon DEF InFlight
  <2>3. primary_congestion' = BytesAcked(before, partial, 0, current_in_flight)
    BY Zenon DEF SackDuplicate
  <2> HIDE DEF before, partial
  <2>4. QED  BY <1>1, <2>1, <2>2, <2>3, CongestionType, ZenonT(30)
<1>7. TypeOK'
  <2>1. duplicated_acks' \in Nat
    BY <1>1, TxAssumption DEF MinOf
  <2>2. QED  BY <1>2, <1>4, <1>5, <1>6, <2>1, ZenonT(30) DEF Inv, TypeOK
<1>8. PmtuCoversHeader'
  BY <1>2, Zenon DEF Inv, PmtuCoversHeader, get_pmtu
<1>9. QED  BY <1>2, <1>5, <1>7, <1>8, MarksStep, Zenon

(* handle_sack pops the acknowledged prefix of resend_queue: its bytes are  *)
(* what both counters lose, and the rest keeps its place in the layout.     *)
LEMMA PopPrefix ==
    ASSUME TypeOK, Layout, NEW k \in 0 .. Len(resend_queue)
    PROVE  /\ Unacked(k) \in Seq(ResendEntry)
           /\ DOMAIN Unacked(k) = 1 .. (Len(resend_queue) - k)
           /\ \A i \in DOMAIN Unacked(k) : k + i \in DOMAIN resend_queue
                                           /\ Unacked(k)[i] = resend_queue[k + i]
           /\ IsFiniteSet(Octets({Unacked(k)[i].data : i \in DOMAIN Unacked(k)}))
           /\ TotalLen(Acked(k)) \in Nat
           /\ TotalLen({Unacked(k)[i].data : i \in DOMAIN Unacked(k)}) \in Nat
           /\ TotalLen(InFlight) = TotalLen(Acked(k))
                   + TotalLen({Unacked(k)[i].data : i \in DOMAIN Unacked(k)})
<1>1. resend_queue \in Seq(ResendEntry) /\ Len(resend_queue) \in Nat /\ k \in Nat
      /\ DOMAIN resend_queue = 1 .. Len(resend_queue)
  BY DEF TypeOK
<1> DEFINE rest == Unacked(k)
           left == {rest[i].data : i \in DOMAIN rest}
<1>2. /\ rest \in Seq(ResendEntry) /\ DOMAIN rest = 1 .. (Len(resend_queue) - k)
      /\ \A i \in 1 .. (Len(resend_queue) - k) : rest[i] = resend_queue[k + i]
  <2>1. rest = SubSeq(resend_queue, k + 1, Len(resend_queue))
    BY Zenon DEF Unacked
  <2>2. rest \in Seq(ResendEntry)
    BY <1>1, <2>1
  <2>3. DOMAIN rest = 1 .. (Len(resend_queue) - k)
    <3>1. k + 1 \in Int /\ Len(resend_queue) - (k + 1) + 1 = Len(resend_queue) - k
      BY <1>1
    <3>2. DOMAIN SubSeq(resend_queue, k + 1, Len(resend_queue)) = 1 .. (Len(resend_queue) - (k + 1) + 1)
      BY <1>1
    <3>3. QED  BY <2>1, <3>1, <3>2, Zenon
  <2>4. \A i \in 1 .. (Len(resend_queue) - k) : rest[i] = resend_queue[k + i]
    BY <1>1, <2>1
  <2>5. QED  BY <2>2, <2>3, <2>4, Zenon
<1> HIDE DEF rest
<1>3. \A i \in DOMAIN rest : k + i \in DOMAIN resend_queue /\ rest[i] = resend_queue[k + i]
  <2>1. \A n, m \in Nat : \A i \in 1 .. (n - m) : m + i \in 1 .. n
    OBVIOUS
  <2>2. QED  BY <1>1, <1>2, <2>1, Zenon
<1>4. left = {resend_queue[i].data : i \in (k + 1) .. Len(resend_queue)}
  <2>1. \A i \in (k + 1) .. Len(resend_queue) : i - k \in DOMAIN rest
                                               /\ rest[i - k] = resend_queue[i]
    BY <1>1, <1>2
  <2>2. \A i \in DOMAIN rest : k + i \in (k + 1) .. Len(resend_queue)
    BY <1>1, <1>2
  <2>3. QED  BY <1>3, <2>1, <2>2
<1> HIDE DEF left
<1>5. InFlight = Acked(k) \cup left
  <2> DEFINE A == 1 .. k
             B == (k + 1) .. Len(resend_queue)
  <2>1. DOMAIN resend_queue = A \cup B
    BY <1>1
  <2>2. Acked(k) = {resend_queue[i].data : i \in A} /\ left = {resend_queue[i].data : i \in B}
    BY <1>4, Zenon DEF Acked
  <2> HIDE DEF A, B
  <2>3. \A x : x \in InFlight <=> \E i \in DOMAIN resend_queue : x = resend_queue[i].data
    BY Zenon DEF InFlight
  <2>4. \A x : x \in Acked(k) \cup left <=> \E i \in DOMAIN resend_queue : x = resend_queue[i].data
    BY <2>1, <2>2, Zenon
  <2>5. QED  BY <2>3, <2>4, Zenon
<1>6. Octets(InFlight) = Octets(Acked(k)) \cup Octets(left)
  BY <1>5, OctetsUnion, Zenon
<1>7. IsFiniteSet(Octets(Acked(k))) /\ IsFiniteSet(Octets(left))
  <2>1. IsFiniteSet(Octets(InFlight))
    BY LayoutDisjoint, Zenon DEF Disjoint
  <2>2. QED  BY <1>6, <2>1, FS_Subset, Zenon
<1>8. Octets(Acked(k)) \cap Octets(left) = {}
  <2> SUFFICES ASSUME NEW x, x \in Octets(Acked(k)), x \in Octets(left) PROVE FALSE
    BY Zenon
  <2>1. PICK i \in 1 .. k : x \in Sent(i).lo .. (Sent(i).hi - 1)
    BY Zenon DEF Octets, Acked, Sent
  <2>2. PICK j \in (k + 1) .. Len(resend_queue) : x \in Sent(j).lo .. (Sent(j).hi - 1)
    BY <1>4, Zenon DEF Octets, Sent
  <2>3. i \in DOMAIN resend_queue /\ j \in DOMAIN resend_queue /\ i < j
    BY <1>1
  <2>4. Sent(i).hi <= Sent(j).lo
    BY <2>3, Zenon DEF Layout
  <2>5. Sent(i).lo \in Nat /\ Sent(i).hi \in Nat /\ Sent(j).lo \in Nat /\ Sent(j).hi \in Nat
    BY <2>3, TypesOfQueues, Zenon
  <2>6. QED  BY <2>1, <2>2, <2>4, <2>5, SMTT(20)
<1>9. Cardinality(Octets(Acked(k)) \cup Octets(left))
        = Cardinality(Octets(Acked(k))) + Cardinality(Octets(left))
      /\ Cardinality(Octets(Acked(k))) \in Nat /\ Cardinality(Octets(left)) \in Nat
  BY <1>7, <1>8, DisjointLen, Zenon
<1>10. TotalLen(InFlight) = TotalLen(Acked(k)) + TotalLen(left)
       /\ TotalLen(Acked(k)) \in Nat /\ TotalLen(left) \in Nat
  BY <1>6, <1>9, Zenon DEF TotalLen
<1>11. QED  BY <1>2, <1>3, <1>7, <1>10, ZenonT(30) DEF rest, left

(* What is left of the two counters when acknowledged bytes are popped. *)
LEMMA PoppedBytes ==
    ASSUME NEW flight \in Nat, NEW queued \in Nat, NEW acked \in Nat, NEW kept \in Nat,
           NEW limit \in Nat, flight = acked + kept, flight + queued <= limit
    PROVE  /\ flight - acked = kept /\ (flight + queued) - acked = kept + queued
           /\ kept + queued <= limit
OBVIOUS

(* handle_sack with a new cumulative TSN. *)
LEMMA SackAdvanceStep ==
    ASSUME Inv, NEW sack \in PeerSacks, SackAdvance(sack),
           UNCHANGED <<out_queue, wire, accepted, tsn_counter, per_stream, signalVars, probeVars>>
    PROVE  Inv'
<1>1. PICK k \in 0 .. Len(resend_queue) :
         /\ resend_queue' = MarkByGapBlocks(Unacked(k), sack)
         /\ current_out_buffered' = current_out_buffered - TotalLen(Acked(k))
         /\ current_in_flight' = current_in_flight - TotalLen(Acked(k))
         /\ peer_rcv_window' =
              SaturatingSub(sack.a_rwnd, current_in_flight - TotalLen(Acked(k)))
         /\ primary_congestion' =
              BytesAcked(primary_congestion, TotalLen(NewlyInGapBlock(Unacked(k), sack)),
                         TotalLen(Acked(k)), current_in_flight)
         /\ rto_timer' = TimerAfterAck(TotalLen(Acked(k)))
  BY Zenon DEF SackAdvance
<1> DEFINE rest == Unacked(k)
           bytes_acked == TotalLen(Acked(k))
           left == {rest[i].data : i \in DOMAIN rest}
<1>2. TypeOK /\ Layout /\ PmtuCoversHeader
  BY Zenon DEF Inv
<1>3. /\ rest \in Seq(ResendEntry) /\ DOMAIN rest = 1 .. (Len(resend_queue) - k)
      /\ \A i \in DOMAIN rest : k + i \in DOMAIN resend_queue /\ rest[i] = resend_queue[k + i]
      /\ IsFiniteSet(Octets(left))
      /\ bytes_acked \in Nat /\ TotalLen(left) \in Nat
      /\ TotalLen(InFlight) = bytes_acked + TotalLen(left)
  BY <1>2, PopPrefix, Zenon
<1>4. /\ resend_queue' \in Seq(ResendEntry) /\ DOMAIN resend_queue' = DOMAIN rest
      /\ \A i \in DOMAIN rest : resend_queue'[i].data = rest[i].data
  BY <1>1, <1>3, MarkByGapBlocksType, Zenon
<1>5. TotalLen(NewlyInGapBlock(rest, sack)) \in Nat
  <2>1. NewlyInGapBlock(rest, sack) \subseteq left
    BY ZenonT(30) DEF NewlyInGapBlock
  <2>2. QED  BY <1>3, <2>1, SubsetLen, Zenon
<1> HIDE DEF rest, bytes_acked
<1>6. UNCHANGED <<out_queue, wire, accepted, tsn_counter, per_stream, pmtu_probe, probed, send_next,
                  shutdown_state, shutdown_rto_timer>>
      /\ duplicated_acks' = 0 /\ last_acked_tsn' = sack.cum_tsn
  BY Zenon DEF SackAdvance, signalVars, probeVars
<1>7. sack.a_rwnd \in Nat /\ sack.cum_tsn \in Tsn
  <2>1. sack.a_rwnd \in ARwnds /\ sack.cum_tsn \in PeerCumTsns
    BY Zenon DEF PeerSacks
  <2>2. PeerCumTsns \subseteq Tsn
    <3>1. \A c \in wire : c.tsn \in Tsn
      <4>1. wire \subseteq DataChunk
        BY <1>2, Zenon DEF TypeOK
      <4>2. QED  BY <4>1, Zenon DEF DataChunk
    <3>2. decrease(InitTsn) \in Tsn
      BY TxAssumption, IncreaseDecreaseType, Zenon
    <3>3. QED  BY <3>1, <3>2, Zenon DEF PeerCumTsns
  <2>3. QED  BY <2>1, <2>2, TxAssumption, Zenon
<1>8. /\ current_in_flight = TotalLen(InFlight)
      /\ current_out_buffered = TotalLen(InFlight) + TotalLen(Queued)
      /\ current_out_buffered <= OutBufferLimit
      /\ TotalLen(InFlight) \in Nat /\ TotalLen(Queued) \in Nat /\ OutBufferLimit \in Nat
  BY Counters, LayoutDisjoint, TxAssumption, Zenon DEF Inv, Disjoint
<1>9. /\ current_in_flight' = TotalLen(left) /\ current_in_flight - bytes_acked = TotalLen(left)
      /\ current_out_buffered' = TotalLen(left) + TotalLen(Queued)
      /\ current_out_buffered' <= OutBufferLimit
  <2>1. /\ current_out_buffered' = current_out_buffered - bytes_acked
        /\ current_in_flight' = current_in_flight - bytes_acked
    BY <1>1, Zenon DEF bytes_acked
  <2>2. bytes_acked \in Nat /\ TotalLen(left) \in Nat
        /\ TotalLen(InFlight) = bytes_acked + TotalLen(left)
    BY <1>3, ZenonT(30)
  <2> HIDE DEF left
  <2>3. /\ TotalLen(InFlight) - bytes_acked = TotalLen(left)
        /\ (TotalLen(InFlight) + TotalLen(Queued)) - bytes_acked = TotalLen(left) + TotalLen(Queued)
        /\ TotalLen(left) + TotalLen(Queued) <= OutBufferLimit
    BY <1>8, <2>2, PoppedBytes
  <2>4. QED  BY <1>8, <2>1, <2>3, ZenonT(30)
<1>10. TypeOK'
  <2>1. peer_rcv_window' \in Nat
    <3>1. peer_rcv_window' = SaturatingSub(sack.a_rwnd, TotalLen(left))
      BY <1>1, <1>9, Zenon DEF bytes_acked
    <3>2. sack.a_rwnd \in Nat /\ TotalLen(left) \in Nat
      BY <1>3, <1>7, Zenon
    <3>3. \A a, b \in Nat : SaturatingSub(a, b) \in Nat
      BY DEF SaturatingSub
    <3>4. QED  BY <3>1, <3>2, <3>3, Zenon
  <2>2. primary_congestion' \in PerDestinationInfo
    <3>1. primary_congestion \in PerDestinationInfo /\ current_in_flight \in Nat
      BY <1>2, Zenon DEF TypeOK
    <3>2. primary_congestion' = BytesAcked(primary_congestion,
             TotalLen(NewlyInGapBlock(rest, sack)), bytes_acked, current_in_flight)
      BY <1>1, Zenon DEF rest, bytes_acked
    <3>3. QED  BY <1>3, <1>5, <3>1, <3>2, CongestionType, ZenonT(30)
  <2>3. rto_timer' \in BOOLEAN
    <3>1. rto_timer \in BOOLEAN /\ rto_timer' = TimerAfterAck(bytes_acked)
      BY <1>1, <1>2, Zenon DEF TypeOK, bytes_acked
    <3>2. CASE bytes_acked > 0
      BY <3>1, <3>2 DEF TimerAfterAck
    <3>3. CASE ~ (bytes_acked > 0)
      BY <3>1, <3>3, Zenon DEF TimerAfterAck
    <3>4. QED  BY <3>2, <3>3, Zenon
  <2>4. current_in_flight' \in Nat /\ current_out_buffered' \in Nat
    <3>1. \A a, b \in Nat : a + b \in Nat
      OBVIOUS
    <3>2. QED  BY <1>3, <1>8, <1>9, <3>1, ZenonT(30)
  <2>5. QED  BY <1>2, <1>4, <1>6, <1>7, <2>1, <2>2, <2>3, <2>4, ZenonT(30) DEF TypeOK
<1>11. Layout'
  <2>1. \A i \in DOMAIN resend_queue' : /\ k + i \in DOMAIN resend_queue
                                         /\ resend_queue'[i].data = Sent(k + i)
    BY <1>3, <1>4, ZenonT(30) DEF Sent
  <2>2. \A i, j \in DOMAIN resend_queue' : i < j => k + i < k + j
    <3>1. \A i, j, n \in Int : i < j => n + i < n + j
      OBVIOUS
    <3>2. DOMAIN resend_queue' \subseteq Int /\ k \in Int
      <4>1. 1 .. (Len(resend_queue) - k) \subseteq Int /\ k \in Int
        OBVIOUS
      <4>2. QED  BY <1>3, <1>4, <4>1, Zenon
    <3>3. QED  BY <3>1, <3>2, Zenon
  <2>3. \A i, j \in DOMAIN resend_queue' :
           i < j => resend_queue'[i].data.hi <= resend_queue'[j].data.lo
    BY <1>2, <2>1, <2>2, Zenon DEF Layout
  <2>4. QED  BY <1>2, <1>6, <2>1, <2>3, ZenonT(30) DEF Layout, Sent
<1>12. AssertInvariants'
  <2>1. InFlight' = left
    BY <1>4, Zenon DEF InFlight
  <2>2. Queued' = Queued
    BY <1>6, Zenon DEF Queued
  <2>3. QED  BY <1>9, <1>10, <1>11, <2>1, <2>2, CountersNext, ZenonT(30)
<1>13. QED  BY <1>2, <1>6, <1>10, <1>11, <1>12, Zenon DEF Inv, PmtuCoversHeader, get_pmtu

(* The control chunks and the shutdown sequence leave the data alone. *)
SignalNext ==
    \/ NotifySendSack \/ NotifyAbort \/ NotifyShutdown \/ InitiateShutdown
    \/ NotifyPeerShutdown \/ NotifyPeerShutdownAck \/ NotifyPeerShutdownComplete
    \/ PollSignalToSend \/ HandleShutdownRtoTimeout \/ HandleHeartbeatTimeout

(* The notifications and control chunks leave queues and counters alone. *)
LEMMA SignalStep ==
    ASSUME Inv, SignalNext
    PROVE  Inv'
<1>1. UNCHANGED dataVars
  BY Zenon DEF SignalNext, NotifySendSack, NotifyAbort, NotifyShutdown, InitiateShutdown,
         NotifyPeerShutdown, NotifyPeerShutdownAck, NotifyPeerShutdownComplete,
         PollSignalToSend, HandleShutdownRtoTimeout, HandleHeartbeatTimeout
<1>2. send_next \in Seq(ControlChunk) /\ shutdown_state \in ShutdownState
      /\ shutdown_rto_timer \in BOOLEAN /\ pmtu_probe \in PmtuProbe /\ probed \in SUBSET Usize
  BY Zenon DEF Inv, TypeOK
<1>3. shutdown_state' \in ShutdownState /\ shutdown_rto_timer' \in BOOLEAN
  BY <1>2, Zenon DEF SignalNext, ShutdownState, NotifySendSack, NotifyAbort, NotifyShutdown, InitiateShutdown,
         NotifyPeerShutdown, NotifyPeerShutdownAck, NotifyPeerShutdownComplete,
         PollSignalToSend, HandleShutdownRtoTimeout, HandleHeartbeatTimeout
<1>4. pmtu_probe' \in PmtuProbe
      /\ pmtu_probe'.highest_successful = pmtu_probe.highest_successful
  <2>1. CASE HandleHeartbeatTimeout
    BY <1>2, <2>1, ProbeType, Zenon DEF HandleHeartbeatTimeout
  <2>2. CASE UNCHANGED pmtu_probe
    BY <1>2, <2>2, Zenon
  <2>3. QED
    BY <2>1, <2>2, ZenonT(30) DEF SignalNext, probeVars, NotifySendSack, NotifyAbort, NotifyShutdown,
         InitiateShutdown, NotifyPeerShutdown, NotifyPeerShutdownAck,
         NotifyPeerShutdownComplete, PollSignalToSend, HandleShutdownRtoTimeout
<1>5. \A n \in Int : HeartBeat(n % U32Mod) \in ControlChunk /\ n % U32Mod \in Usize
  BY ProbeAssumption DEF HeartBeat, ControlChunk, Usize
<1>6. \A kind \in {"SAck", "ShutDown", "ShutDownAck", "ShutDownComplete"} :
         Control(kind) \in ControlChunk
  BY ProbeAssumption DEF Control, ControlChunk, Usize
<1>7. send_next' \in Seq(ControlChunk)
  <2>1. \A c \in ControlChunk : Append(send_next, c) \in Seq(ControlChunk)
    BY <1>2
  <2>2. \A s \in Seq(ControlChunk) : send_next \o s \in Seq(ControlChunk)
    BY <1>2
  <2>3. <<Control("ShutDown"), Control("SAck")>> \in Seq(ControlChunk)
        /\ <<Control("SAck")>> \in Seq(ControlChunk)
    BY <1>6
  <2>4. send_next # <<>> => Tail(send_next) \in Seq(ControlChunk)
    BY <1>2
  <2>5. CASE NotifySendSack
    BY <2>2, <2>3, <2>5, ZenonT(30) DEF NotifySendSack
  <2>6. CASE PollSignalToSend
    BY <1>2, <2>4, <2>6, Zenon DEF PollSignalToSend
  <2>7. CASE NotifyPeerShutdown \/ NotifyPeerShutdownAck \/ HandleShutdownRtoTimeout
    BY <1>2, <1>6, <2>1, <2>7, Zenon DEF NotifyPeerShutdown, NotifyPeerShutdownAck,
                            HandleShutdownRtoTimeout
  <2>8. CASE NotifyAbort \/ NotifyShutdown \/ InitiateShutdown \/ NotifyPeerShutdownComplete
    BY <1>2, <2>8, Zenon DEF NotifyAbort, NotifyShutdown, InitiateShutdown, NotifyPeerShutdownComplete
  <2>9. CASE HandleHeartbeatTimeout
    <3>1. pmtu_probe'.last_tested_size \in Int
      BY <1>4, ProbeAssumption DEF PmtuProbe, Usize
    <3>2. Append(send_next, HeartBeat(pmtu_probe'.last_tested_size % U32Mod)) \in Seq(ControlChunk)
      BY <1>5, <2>1, <3>1, Zenon
    <3>3. QED  BY <1>2, <2>9, <3>2, Zenon DEF HandleHeartbeatTimeout
  <2>10. QED  BY <2>5, <2>6, <2>7, <2>8, <2>9, Zenon DEF SignalNext
<1>8. probed' \in SUBSET Usize
  <2>1. CASE PollSignalToSend
    <3>1. send_next # <<>> => send_next[1].probe \in Usize
      <4>1. send_next # <<>> => send_next[1] \in ControlChunk
        BY <1>2
      <4>2. \A c \in ControlChunk : c.probe \in Usize
        BY Zenon DEF ControlChunk
      <4>3. QED  BY <4>1, <4>2, Zenon
    <3>2. CASE send_next = <<>>
      BY <1>2, <2>1, <3>2, Zenon DEF PollSignalToSend, probeVars
    <3>3. CASE send_next # <<>>
      <4>1. probed' = probed \/ probed' = probed \cup {send_next[1].probe}
        BY <2>1, <3>3, Zenon DEF PollSignalToSend
      <4>2. QED  BY <1>2, <3>1, <3>3, <4>1, Zenon
    <3>4. QED  BY <3>2, <3>3, Zenon
  <2>2. CASE UNCHANGED probed
    BY <1>2, <2>2, Zenon
  <2>3. QED
    BY <2>1, <2>2, Zenon DEF SignalNext, probeVars, NotifySendSack, NotifyAbort, NotifyShutdown,
         InitiateShutdown, NotifyPeerShutdown, NotifyPeerShutdownAck,
         NotifyPeerShutdownComplete, HandleHeartbeatTimeout, HandleShutdownRtoTimeout
<1>9. TypeOK'
  BY <1>1, <1>3, <1>4, <1>7, <1>8, Zenon DEF Inv, TypeOK, dataVars
<1>10. PmtuCoversHeader'
  BY <1>4, Zenon DEF Inv, PmtuCoversHeader, get_pmtu
<1>11. QED  BY <1>1, <1>9, <1>10, MarksStep, Zenon DEF dataVars

(* AssociationTx::new establishes the invariant. *)
LEMMA InitInv == Init => Inv
<1> SUFFICES ASSUME Init PROVE Inv
  BY Zenon
<1>1. NewPerDestinationInfo(CongestionMtu) \in PerDestinationInfo
  <2>1. CongestionMtu - PacketHeader \in Nat /\ CwndFloor \in Nat /\ UsizeMax \in Nat
    BY TxAssumption, CongestionAssumption
  <2>2. InitialCwnd(CongestionMtu - PacketHeader) \in Nat
    BY <2>1 DEF InitialCwnd, MinOf, MaxOf
  <2>3. QED  BY <2>1, <2>2, Zenon DEF NewPerDestinationInfo, PerDestinationInfo, CongestionState
<1>2. TypeOK
  <2>1. 0 \in Tsn /\ 0 \in SeqNum
    BY TsnAssumption, TxAssumption DEF Tsn, SeqNum
  <2>2. per_stream \in [Streams -> SeqNum]
    BY <2>1, Zenon DEF Init
  <2>3. out_queue \in Seq(DataChunk) /\ resend_queue \in Seq(ResendEntry)
        /\ send_next \in Seq(ControlChunk) /\ wire \in SUBSET DataChunk
    BY DEF Init
  <2>4. tsn_counter \in Tsn /\ last_acked_tsn \in Tsn /\ peer_rcv_window \in Nat
        /\ primary_congestion \in PerDestinationInfo /\ shutdown_state \in ShutdownState
    BY <1>1, <2>1, TxAssumption, Zenon DEF Init, ShutdownState
  <2>5. accepted \in Nat /\ duplicated_acks \in Nat /\ current_out_buffered \in Nat
        /\ current_in_flight \in Nat /\ rto_timer \in BOOLEAN /\ shutdown_rto_timer \in BOOLEAN
    BY Zenon DEF Init
  <2>6. pmtu_probe \in PmtuProbe /\ probed \in SUBSET Usize
    <3>1. NewPmtuProbe \in PmtuProbe
      BY ProbeAssumption DEF NewPmtuProbe, PmtuProbe, Usize
    <3>2. pmtu_probe = NewPmtuProbe /\ probed = {}
      BY Zenon DEF Init
    <3>3. QED  BY <3>1, <3>2, Zenon
  <2>7. QED  BY <2>2, <2>3, <2>4, <2>5, <2>6, Zenon DEF TypeOK
<1>3. Layout
  <2>1. DOMAIN resend_queue = {} /\ DOMAIN out_queue = {}
    BY DEF Init
  <2>2. QED  BY <2>1, Zenon DEF Layout
<1>4. AssertInvariants
  <2>1. InFlight = {} /\ Queued = {}
    <3>1. DOMAIN resend_queue = {} /\ DOMAIN out_queue = {}
      BY DEF Init
    <3>2. QED  BY <3>1, Zenon DEF InFlight, Queued
  <2>2. InFlight \cup Queued = {}
    BY <2>1, Zenon
  <2>3. current_out_buffered = 0 /\ current_in_flight = 0
    BY Zenon DEF Init
  <2>4. 0 <= OutBufferLimit
    BY TxAssumption
  <2>5. QED  BY <2>1, <2>2, <2>3, <2>4, NoOctets, Zenon DEF AssertInvariants
<1>5. PmtuCoversHeader
  BY TxAssumption, Zenon DEF Init, PmtuCoversHeader, get_pmtu, NewPmtuProbe
<1>6. QED  BY <1>2, <1>3, <1>4, <1>5, Zenon DEF Inv

(* Every operation of AssociationTx keeps the invariant. *)
LEMMA NextInv == Inv /\ [Next]_vars => Inv'
<1> SUFFICES ASSUME Inv, [Next]_vars PROVE Inv'
  BY Zenon
<1>1. ASSUME NEW len \in Lens, NEW stream \in Streams, NEW unordered \in Orderings,
             TrySendData(len, stream, unordered)
      PROVE  Inv'
  BY <1>1, TrySendStep, Zenon
<1>2. ASSUME NEW data_limit \in DataLimits, NEW already_packed \in Packed,
             PollDataToSend(data_limit, already_packed)
      PROVE  Inv'
  BY <1>2, PollStep, Zenon
<1>3. ASSUME NEW sack \in PeerSacks, HandleSack(sack)
      PROVE  Inv'
  BY <1>3, SackDuplicateStep, SackAdvanceStep, Zenon DEF HandleSack
<1>4. ASSUME NEW late \in Late, HandleRtoTimeout(late)
      PROVE  Inv'
  BY <1>4, RtoTimeoutStep, Zenon
<1>5. ASSUME NEW size \in probed, ProcessHeartbeatAck(size)
      PROVE  Inv'
  BY <1>5, HeartbeatAckStep, Zenon
<1>6. CASE SignalNext
  BY <1>6, SignalStep, Zenon
<1>7. CASE UNCHANGED vars
  <2>1. UNCHANGED <<dataVars, signalVars, probeVars>>
    BY <1>7, Zenon DEF vars
  <2>2. TypeOK'
    BY <2>1, Zenon DEF Inv, TypeOK, dataVars, signalVars, probeVars
  <2>3. QED  BY <2>1, <2>2, MarksStep, Zenon DEF Inv, PmtuCoversHeader, get_pmtu, dataVars, probeVars
<1>8. QED  BY <1>1, <1>2, <1>3, <1>4, <1>5, <1>6, <1>7, Zenon DEF Next, SignalNext

-----------------------------------------------------------------------------
(***************************************************************************)
(* Inv is an invariant of the sender, whatever the peer, the application   *)
(* and the timers do.                                                      *)
(***************************************************************************)
THEOREM Invariance == Spec => []Inv
<1>1. QED  BY InitInv, NextInv, PTL DEF Spec

(* Every field keeps its type; in particular no unsigned counter or window *)
(* is decremented below zero.                                              *)
THEOREM TypeCorrect == Spec => []TypeOK
<1>1. Inv => TypeOK
  BY Zenon DEF Inv
<1>2. QED  BY Invariance, <1>1, PTL

(* assert_invariants never fires. *)
THEOREM CountersExact == Spec => []AssertInvariants
<1>1. Inv => AssertInvariants
  BY Zenon DEF Inv
<1>2. QED  BY Invariance, <1>1, PTL

-----------------------------------------------------------------------------
(* The shutdown. *)

(* Marking the entries of an empty resend_queue leaves it empty. *)
LEMMA EmptyMarks ==
    ASSUME NEW sack
    PROVE  MarkByGapBlocks(<<>>, sack) = <<>>
BY DEF MarkByGapBlocks

(* Every step keeps ShutdownDrained: no message is accepted once a shutdown has begun. *)
LEMMA DrainedStep == TypeOK /\ ShutdownDrained /\ [Next]_vars => ShutdownDrained'
<1>. SUFFICES ASSUME TypeOK, ShutdownDrained, [Next]_vars  PROVE ShutdownDrained'
  BY Zenon
<1>. USE DEF ShutdownDrained
<1>1. CASE UNCHANGED vars
  BY <1>1, Zenon DEF vars, dataVars, signalVars
<1>2. ASSUME NEW len \in Lens, NEW stream \in Streams, NEW unordered \in Orderings,
             TrySendData(len, stream, unordered)
      PROVE  ShutdownDrained'
  BY <1>2, Zenon DEF TrySendData, signalVars
<1>3. ASSUME NEW data_limit \in DataLimits, NEW already_packed \in Packed,
             PollDataToSend(data_limit, already_packed)
      PROVE  ShutdownDrained'
  <2>1. UNCHANGED <<shutdown_state, shutdown_rto_timer>>
    BY <1>3, Zenon DEF PollDataToSend, signalVars
  <2>2. resend_queue # <<>> \/ out_queue # <<>>
    <3>1. \A room : PollLossRecovery(room) => resend_queue # <<>>
      BY Zenon DEF PollLossRecovery
    <3>2. \A room : PollFastRecovery(room) => resend_queue # <<>>
      BY DEF PollFastRecovery
    <3>3. \A room : PollWhole(room) \/ PollFragment(room) => out_queue # <<>>
      BY Zenon DEF PollWhole, PollFragment, MaySendNew
    <3>. QED  BY <1>3, <3>1, <3>2, <3>3, Zenon DEF PollDataToSend
  <2>. QED  BY <2>1, <2>2, Zenon
<1>4. ASSUME NEW sack \in PeerSacks, HandleSack(sack)
      PROVE  ShutdownDrained'
  <2>1. UNCHANGED <<out_queue, shutdown_state, shutdown_rto_timer>>
    BY <1>4, Zenon DEF HandleSack, signalVars
  <2>2. ASSUME resend_queue = <<>>  PROVE resend_queue' = <<>>
    <3>1. CASE SackDuplicate(sack)
      BY <2>2, <3>1, EmptyMarks, Zenon DEF SackDuplicate
    <3>2. CASE SackAdvance(sack)
      <4>1. PICK k \in 0 .. Len(resend_queue) : resend_queue' = MarkByGapBlocks(Unacked(k), sack)
        BY <3>2, Zenon DEF SackAdvance
      <4>2. Unacked(k) = <<>>
        BY <2>2 DEF Unacked
      <4>. QED  BY <4>1, <4>2, EmptyMarks, Zenon
    <3>. QED  BY <1>4, <3>1, <3>2, Zenon DEF HandleSack
  <2>. QED  BY <2>1, <2>2, Zenon
<1>5. ASSUME NEW late \in Late, HandleRtoTimeout(late)
      PROVE  ShutdownDrained'
  <2>1. UNCHANGED <<out_queue, shutdown_state, shutdown_rto_timer>>
    BY <1>5, Zenon DEF HandleRtoTimeout, signalVars
  <2>2. resend_queue = <<>> => resend_queue' = <<>>
    BY <1>5 DEF HandleRtoTimeout
  <2>. QED  BY <2>1, <2>2, Zenon
<1>6. ASSUME NEW size \in probed, ProcessHeartbeatAck(size)
      PROVE  ShutdownDrained'
  BY <1>6, Zenon DEF ProcessHeartbeatAck, signalVars
<1>7. CASE SignalNext
  <2>1. UNCHANGED <<resend_queue, out_queue>>
    BY <1>7, Zenon DEF dataVars, SignalNext, NotifySendSack, NotifyAbort, NotifyShutdown, InitiateShutdown,
         NotifyPeerShutdown, NotifyPeerShutdownAck, NotifyPeerShutdownComplete,
         PollSignalToSend, HandleShutdownRtoTimeout, HandleHeartbeatTimeout
  <2>2. CASE PollSignalToSend
    BY <2>1, <2>2, Zenon DEF PollSignalToSend, Drained
  <2>3. CASE UNCHANGED <<shutdown_state, shutdown_rto_timer>>
    BY <2>1, <2>3, Zenon
  <2>4. CASE shutdown_state' \in {"AbortReceived", "TryingTo", "ShutdownReceived", "Complete"}
    BY <2>4, Zenon
  <2>. QED
    BY <1>7, <2>2, <2>3, <2>4, Zenon
       DEF SignalNext, NotifySendSack, NotifyAbort, NotifyShutdown, InitiateShutdown,
         NotifyPeerShutdown, NotifyPeerShutdownAck, NotifyPeerShutdownComplete,
         HandleShutdownRtoTimeout, HandleHeartbeatTimeout
<1>. QED  BY <1>1, <1>2, <1>3, <1>4, <1>5, <1>6, <1>7, Zenon DEF Next, SignalNext

(***************************************************************************)
(* SHUTDOWN and SHUTDOWN ACK are sent, and repeated, only when everything  *)
(* accepted has been acknowledged, in whichever order the notifications    *)
(* of the receiving half and initiate_shutdown occur.                      *)
(***************************************************************************)
THEOREM ShutdownIsDrained == Spec => []ShutdownDrained
<1>1. Init => ShutdownDrained
  BY Zenon DEF Init, ShutdownDrained
<1>. QED  BY <1>1, DrainedStep, TypeCorrect, PTL DEF Spec

-----------------------------------------------------------------------------
(* Flow control. *)

Window == ARwnds \cup {PeerArwnd}

(* The windows that a peer advertises are numbers. *)
LEMMA WindowType == Window \subseteq Nat
BY TxAssumption, Zenon DEF Window

(* A SACK that advertises w, with flight bytes left in flight that fit in v. *)
LEMMA NewWindow ==
    ASSUME NEW w \in Nat, NEW v \in Nat, NEW flight \in Nat, flight <= v
    PROVE  \/ flight + SaturatingSub(w, flight) <= w
           \/ flight + SaturatingSub(w, flight) <= v
BY DEF SaturatingSub

(* What a SACK pops from resend_queue is part of what is in flight. *)
LEMMA AckedInFlight ==
    ASSUME Inv, NEW k \in 0 .. Len(resend_queue)
    PROVE  /\ TotalLen(Acked(k)) \in Nat
           /\ current_in_flight - TotalLen(Acked(k)) \in Nat
           /\ current_in_flight - TotalLen(Acked(k)) <= current_in_flight
<1>. DEFINE left == TotalLen({Unacked(k)[i].data : i \in DOMAIN Unacked(k)})
            gone == TotalLen(Acked(k))
<1>1. gone \in Nat /\ left \in Nat /\ TotalLen(InFlight) = gone + left
  BY PopPrefix, Zenon DEF Inv
<1>2. current_in_flight = TotalLen(InFlight)
  BY Zenon DEF Inv, AssertInvariants
<1>. HIDE DEF left, gone
<1>3. current_in_flight - gone \in Nat /\ current_in_flight - gone <= current_in_flight
  BY <1>1, <1>2
<1>. QED  BY <1>1, <1>3, Zenon DEF gone

(* Every step keeps FlowControlled. *)
LEMMA FlowStep == Inv /\ FlowControlled /\ [Next]_vars => FlowControlled'
<1>. SUFFICES ASSUME Inv, FlowControlled, [Next]_vars  PROVE FlowControlled'
  BY Zenon
<1>1. PICK v \in Window : current_in_flight + peer_rcv_window <= v
  BY Zenon DEF FlowControlled, Window
<1>2. /\ current_in_flight \in Nat /\ peer_rcv_window \in Nat /\ v \in Nat
      /\ current_in_flight <= v
  <2>1. current_in_flight \in Nat /\ peer_rcv_window \in Nat /\ v \in Nat
    BY <1>1, WindowType, Zenon DEF Inv, TypeOK
  <2>. QED  BY <1>1, <2>1
<1>3. ASSUME UNCHANGED <<current_in_flight, peer_rcv_window>>
      PROVE  FlowControlled'
  BY <1>1, <1>3, Zenon DEF FlowControlled, Window
<1>4. ASSUME NEW packet, BufLen(packet) \in Int, PutOnWire(packet)
      PROVE  FlowControlled'
  <2>1. /\ current_in_flight' = current_in_flight + BufLen(packet)
        /\ peer_rcv_window' = peer_rcv_window - BufLen(packet)
    BY <1>4, Zenon DEF PutOnWire
  <2>2. current_in_flight' + peer_rcv_window' = current_in_flight + peer_rcv_window
    BY <1>2, <1>4, <2>1
  <2>. QED  BY <1>1, <2>2, Zenon DEF FlowControlled, Window
<1>5. ASSUME NEW w \in ARwnds, NEW flight \in Nat, flight <= current_in_flight,
             current_in_flight' = flight, peer_rcv_window' = SaturatingSub(w, flight)
      PROVE  FlowControlled'
  <2>1. w \in Nat /\ flight <= v
    BY <1>2, <1>5, TxAssumption
  <2>2. \/ current_in_flight' + peer_rcv_window' <= w
        \/ current_in_flight' + peer_rcv_window' <= v
    BY <1>2, <1>5, <2>1, NewWindow, Zenon
  <2>. QED  BY <1>1, <2>2, Zenon DEF FlowControlled, Window
<1>6. ASSUME NEW data_limit \in DataLimits, NEW already_packed \in Packed,
             PollDataToSend(data_limit, already_packed)
      PROVE  FlowControlled'
  <2>1. PICK room \in Int : \/ PollLossRecovery(room) \/ PollFastRecovery(room)
                            \/ PollWhole(room) \/ PollFragment(room)
    <3>1. data_limit \in Int /\ already_packed \in Int /\ DataHeader \in Int /\ get_pmtu \in Int
      BY TxAssumption, ProbeAssumption DEF Inv, TypeOK, PmtuProbe, get_pmtu, Usize
    <3>2. MinOf(data_limit, get_pmtu - already_packed) - DataHeader \in Int
      BY <3>1 DEF MinOf
    <3>. QED  BY <1>6, <3>2, Zenon DEF PollDataToSend
  <2>2. CASE PollLossRecovery(room) \/ PollFastRecovery(room)
    BY <1>3, <2>2, Zenon DEF PollLossRecovery, PollFastRecovery
  <2>3. out_queue # <<>> => out_queue[1] \in DataChunk /\ out_queue[1].lo \in Nat
                            /\ out_queue[1].hi \in Nat
    <3>1. out_queue # <<>> => 1 \in DOMAIN out_queue
      BY DEF Inv, TypeOK
    <3>. QED  BY <3>1, TypesOfQueues, Zenon DEF Inv
  <2>4. CASE PollWhole(room)
    <3>. DEFINE packet == [out_queue[1] EXCEPT !.tsn = tsn_counter, !.end = TRUE]
    <3>1. PutOnWire(packet) /\ out_queue # <<>>
      BY <2>4, Zenon DEF PollWhole, MaySendNew
    <3>2. packet.lo = out_queue[1].lo /\ packet.hi = out_queue[1].hi
      BY <2>3, <3>1, Zenon DEF DataChunk
    <3>. HIDE DEF packet
    <3>3. BufLen(packet) \in Int
      BY <2>3, <3>1, <3>2 DEF BufLen
    <3>. QED  BY <1>4, <3>1, <3>3, Zenon
  <2>5. CASE PollFragment(room)
    <3>. DEFINE len == MinOf(room, peer_rcv_window)
                packet == Fragment(out_queue[1], len)
    <3>1. PutOnWire(packet) /\ out_queue # <<>> /\ len \in Int
      BY <1>2, <2>1, <2>5 DEF PollFragment, MaySendNew, MinOf
    <3>2. packet.lo = out_queue[1].lo /\ packet.hi = out_queue[1].lo + len
      BY <2>3, <3>1, Zenon DEF DataChunk, Fragment
    <3>. HIDE DEF packet, len
    <3>3. BufLen(packet) \in Int
      BY <2>3, <3>1, <3>2 DEF BufLen
    <3>. QED  BY <1>4, <3>1, <3>3, Zenon
  <2>. QED  BY <2>1, <2>2, <2>4, <2>5, Zenon
<1>7. ASSUME NEW sack \in PeerSacks, HandleSack(sack)
      PROVE  FlowControlled'
  <2>1. sack.a_rwnd \in ARwnds
    BY Zenon DEF PeerSacks
  <2>2. CASE SackDuplicate(sack)
    <3>1. /\ current_in_flight' = current_in_flight
          /\ peer_rcv_window' = SaturatingSub(sack.a_rwnd, current_in_flight)
      BY <2>2, Zenon DEF SackDuplicate
    <3>2. current_in_flight <= current_in_flight
      BY <1>2
    <3>. QED  BY <1>2, <1>5, <2>1, <3>1, <3>2, Zenon
  <2>3. CASE SackAdvance(sack)
    <3>1. PICK k \in 0 .. Len(resend_queue) :
            /\ current_in_flight' = current_in_flight - TotalLen(Acked(k))
            /\ peer_rcv_window' = SaturatingSub(sack.a_rwnd, current_in_flight - TotalLen(Acked(k)))
      BY <2>3, Zenon DEF SackAdvance
    <3>. QED  BY <1>5, <2>1, <3>1, AckedInFlight, Zenon
  <2>. QED  BY <1>7, <2>2, <2>3, Zenon DEF HandleSack
<1>8. CASE SignalNext
  BY <1>3, <1>8, Zenon DEF dataVars, SignalNext, NotifySendSack, NotifyAbort, NotifyShutdown,
         InitiateShutdown, NotifyPeerShutdown, NotifyPeerShutdownAck, NotifyPeerShutdownComplete,
         PollSignalToSend, HandleShutdownRtoTimeout, HandleHeartbeatTimeout
<1>9. CASE UNCHANGED vars
  BY <1>3, <1>9, Zenon DEF vars, dataVars
<1>10. ASSUME NEW len \in Lens, NEW stream \in Streams, NEW unordered \in Orderings,
              TrySendData(len, stream, unordered)
       PROVE  FlowControlled'
  BY <1>3, <1>10, Zenon DEF TrySendData
<1>11. ASSUME NEW late \in Late, HandleRtoTimeout(late)  PROVE FlowControlled'
  BY <1>3, <1>11, Zenon DEF HandleRtoTimeout
<1>12. ASSUME NEW size \in probed, ProcessHeartbeatAck(size)  PROVE FlowControlled'
  BY <1>3, <1>12, Zenon DEF ProcessHeartbeatAck
<1>. QED
  BY <1>6, <1>7, <1>8, <1>9, <1>10, <1>11, <1>12, Zenon DEF Next, SignalNext

(***************************************************************************)
(* What is in flight and what may still be sent never exceed the largest   *)
(* window the peer has advertised, though handle_sack computes the window  *)
(* from SACKs that arrive late and out of order.                           *)
(***************************************************************************)
THEOREM KeepsToTheWindow == Spec => []FlowControlled
<1>1. Init => FlowControlled
  <2>. SUFFICES ASSUME Init  PROVE FlowControlled
    BY Zenon
  <2>1. current_in_flight + peer_rcv_window <= PeerArwnd
    BY TxAssumption DEF Init
  <2>. QED  BY <2>1, Zenon DEF FlowControlled
<1>. QED  BY <1>1, FlowStep, Invariance, PTL DEF Spec

-----------------------------------------------------------------------------
(* What the operations do to the queues. *)

(* A retransmission sends a chunk of the resend queue again, unchanged. *)
LEMMA RetransmitEffect ==
    ASSUME TypeOK, NEW room, PollLossRecovery(room) \/ PollFastRecovery(room)
    PROVE  /\ UNCHANGED <<out_queue, accepted, tsn_counter>>
           /\ rto_timer' = TRUE \/ rto_timer' = rto_timer
           /\ DOMAIN resend_queue' = DOMAIN resend_queue
           /\ \A j \in DOMAIN resend_queue : resend_queue'[j].data = resend_queue[j].data
           /\ \E i \in DOMAIN resend_queue : wire' = wire \cup {Sent(i)}
<1>1. resend_queue \in Seq(ResendEntry)
  BY Zenon DEF TypeOK
<1>2. CASE PollLossRecovery(room)
  <2>1. 1 \in DOMAIN resend_queue /\ resend_queue[1] \in ResendEntry
    BY <1>1, <1>2 DEF PollLossRecovery
  <2>2. [resend_queue[1] EXCEPT !.marked_for_retransmit = FALSE].data = resend_queue[1].data
    BY <2>1, Zenon DEF ResendEntry
  <2>. QED  BY <1>2, <2>1, <2>2, Zenon DEF PollLossRecovery, Sent
<1>3. CASE PollFastRecovery(room)
  <2>1. PICK i \in DOMAIN resend_queue :
           /\ resend_queue' = [resend_queue EXCEPT ![i].marked_was_fast_retransmit = TRUE,
                                                   ![i].marked_for_fast_retransmit = FALSE]
           /\ wire' = wire \cup {resend_queue[i].data}
    BY <1>3, Zenon DEF PollFastRecovery
  <2>. DEFINE e == [resend_queue[i] EXCEPT !.marked_was_fast_retransmit = TRUE,
                                           !.marked_for_fast_retransmit = FALSE]
  <2>2. resend_queue[i] \in ResendEntry
    BY <1>1
  <2>3. e.data = resend_queue[i].data
    BY <2>2, Zenon DEF ResendEntry
  <2>4. resend_queue' = [resend_queue EXCEPT ![i] = e]
    BY <1>1, <2>1, Zenon
  <2>. HIDE DEF e
  <2>5. /\ DOMAIN resend_queue' = DOMAIN resend_queue
        /\ \A j \in DOMAIN resend_queue : resend_queue'[j].data = resend_queue[j].data
    BY <2>3, <2>4, Zenon
  <2>. QED  BY <1>3, <2>1, <2>5, Zenon DEF PollFastRecovery, Sent
<1>. QED  BY <1>2, <1>3, Zenon

(* The packet appended to resend_queue has the first bytes of out_queue. *)
SentFrom(packet, front) ==
    /\ packet \in DataChunk /\ packet.tsn = tsn_counter
    /\ packet.lo = front.lo /\ packet.begin = front.begin
    /\ <<packet.stream_id, packet.stream_seq_num, packet.unordered>>
         = <<front.stream_id, front.stream_seq_num, front.unordered>>

Appended(packet) ==
    /\ rto_timer' = TRUE
    /\ tsn_counter' = increase(tsn_counter)
    /\ wire' = wire \cup {packet}
    /\ accepted' = accepted
    /\ DOMAIN resend_queue' = 1 .. (Len(resend_queue) + 1)
    /\ resend_queue'[Len(resend_queue) + 1].data = packet
    /\ \A i \in 1 .. Len(resend_queue) : resend_queue'[i].data = resend_queue[i].data

(* A new chunk is appended to the resend queue with the next TSN. *)
LEMMA PutOnWireEffect ==
    ASSUME TypeOK, NEW packet \in DataChunk, PutOnWire(packet)
    PROVE  Appended(packet)
<1>1. /\ resend_queue \in Seq(ResendEntry)
      /\ resend_queue' = Append(resend_queue, NewResendEntry(packet))
  BY Zenon DEF TypeOK, PutOnWire
<1>2. NewResendEntry(packet) \in ResendEntry /\ NewResendEntry(packet).data = packet
  BY Zenon DEF NewResendEntry, ResendEntry
<1>3. /\ DOMAIN resend_queue' = 1 .. (Len(resend_queue) + 1)
      /\ resend_queue'[Len(resend_queue) + 1] = NewResendEntry(packet)
      /\ \A i \in 1 .. Len(resend_queue) : resend_queue'[i] = resend_queue[i]
  BY <1>1, <1>2
<1>. QED  BY <1>2, <1>3, Zenon DEF Appended, PutOnWire

(* The front of the out queue, if any, is a chunk. *)
LEMMA FrontType ==
    ASSUME TypeOK, out_queue # <<>>
    PROVE  /\ Len(out_queue) \in Nat /\ Len(out_queue) >= 1
           /\ DOMAIN out_queue = 1 .. Len(out_queue)
           /\ out_queue[1] \in DataChunk /\ out_queue[1].lo \in Nat /\ out_queue[1].hi \in Nat
<1>1. out_queue \in Seq(DataChunk)
  BY Zenon DEF TypeOK
<1>2. /\ Len(out_queue) \in Nat /\ Len(out_queue) >= 1 /\ DOMAIN out_queue = 1 .. Len(out_queue)
      /\ out_queue[1] \in DataChunk
  BY <1>1
<1>. QED  BY <1>2, Zenon DEF DataChunk

(* The front of the out queue is sent whole and removed. *)
LEMMA PollWholeEffect ==
    ASSUME TypeOK, NEW room, PollWhole(room)
    PROVE  /\ out_queue # <<>>
           /\ DOMAIN out_queue' = 1 .. (Len(out_queue) - 1) /\ Len(out_queue') = Len(out_queue) - 1
           /\ \A i \in 1 .. (Len(out_queue) - 1) : out_queue'[i] = out_queue[i + 1]
           /\ \E packet : /\ SentFrom(packet, out_queue[1]) /\ Appended(packet)
                          /\ packet.hi = out_queue[1].hi /\ packet.end = TRUE
<1>. DEFINE packet == [out_queue[1] EXCEPT !.tsn = tsn_counter, !.end = TRUE]
<1>1. /\ out_queue \in Seq(DataChunk) /\ out_queue # <<>> /\ out_queue' = Tail(out_queue)
      /\ tsn_counter \in Tsn /\ PutOnWire(packet)
  BY Zenon DEF TypeOK, PollWhole, MaySendNew
<1>2. /\ DOMAIN out_queue' = 1 .. (Len(out_queue) - 1) /\ Len(out_queue') = Len(out_queue) - 1
      /\ \A i \in 1 .. (Len(out_queue) - 1) : out_queue'[i] = out_queue[i + 1]
  BY <1>1
<1>3. SentFrom(packet, out_queue[1]) /\ packet.hi = out_queue[1].hi /\ packet.end = TRUE
  BY <1>1, FrontType, Zenon DEF SentFrom, DataChunk
<1>. HIDE DEF packet
<1>4. Appended(packet)
  BY <1>1, <1>3, PutOnWireEffect, Zenon DEF SentFrom
<1>. QED  BY <1>1, <1>2, <1>3, <1>4, Zenon

(* A part of the front is sent, and the front is what remains. *)
LEMMA PollFragmentEffect ==
    ASSUME TypeOK, NEW room \in Nat, PollFragment(room)
    PROVE  /\ out_queue # <<>>
           /\ DOMAIN out_queue' = DOMAIN out_queue /\ Len(out_queue') = Len(out_queue)
           /\ \A i \in DOMAIN out_queue \ {1} : out_queue'[i] = out_queue[i]
           /\ \E packet : /\ SentFrom(packet, out_queue[1]) /\ Appended(packet)
                          /\ packet.end = FALSE
                          /\ packet.lo < packet.hi /\ packet.hi < out_queue[1].hi
                          /\ Continues(packet, out_queue'[1])
                          /\ out_queue'[1].hi = out_queue[1].hi
                          /\ out_queue'[1].end = out_queue[1].end
<1>. DEFINE front == out_queue[1]
            len == MinOf(room, peer_rcv_window)
            packet == Fragment(front, len)
            rest == Rest(front, len)
<1>1. /\ out_queue \in Seq(DataChunk) /\ out_queue # <<>>
      /\ out_queue' = [out_queue EXCEPT ![1] = rest]
      /\ tsn_counter \in Tsn /\ PutOnWire(packet) /\ peer_rcv_window \in Nat
      /\ BufLen(front) > len /\ len # 0
  BY Zenon DEF TypeOK, PollFragment, MaySendNew
<1>2. len \in Nat
  BY <1>1, Zenon DEF MinOf
<1>. HIDE DEF len
<1>3. front \in DataChunk /\ front.lo \in Nat /\ front.hi \in Nat
  BY <1>1, FrontType, Zenon
<1>4. front.lo + len \in Nat /\ front.lo < front.lo + len /\ front.lo + len < front.hi
  <2>1. front.hi - front.lo > len
    BY <1>1, Zenon DEF BufLen
  <2>2. \A a, b, n \in Nat : n # 0 /\ b - a > n => a + n \in Nat /\ a < a + n /\ a + n < b
    OBVIOUS
  <2>. QED  BY <1>1, <1>2, <1>3, <2>1, <2>2, Zenon
<1>5. /\ SentFrom(packet, front) /\ packet.end = FALSE /\ packet.hi = front.lo + len
      /\ packet.lo = front.lo
  BY <1>1, <1>3, <1>4, Zenon DEF SentFrom, Fragment, DataChunk
<1>6. /\ rest.lo = front.lo + len /\ rest.hi = front.hi /\ rest.begin = FALSE
      /\ rest.end = front.end /\ rest.stream_id = front.stream_id
      /\ rest.stream_seq_num = front.stream_seq_num /\ rest.unordered = front.unordered
      /\ rest \in DataChunk
  BY <1>3, <1>4, Zenon DEF Rest, DataChunk
<1>. HIDE DEF packet, rest
<1>7. /\ DOMAIN out_queue' = DOMAIN out_queue /\ Len(out_queue') = Len(out_queue)
      /\ out_queue'[1] = rest /\ \A i \in DOMAIN out_queue \ {1} : out_queue'[i] = out_queue[i]
  BY <1>1, <1>6
<1>8. Continues(packet, rest)
  BY <1>5, <1>6, Zenon DEF SentFrom, Continues
<1>9. Appended(packet)
  BY <1>1, <1>5, PutOnWireEffect, Zenon DEF SentFrom
<1>. QED  BY <1>1, <1>4, <1>5, <1>6, <1>7, <1>8, <1>9, Zenon

(* poll_data_to_send is one of its four cases, with some room in the packet. *)
LEMMA PollRoom ==
    ASSUME Inv, NEW data_limit \in DataLimits, NEW already_packed \in Packed,
           PollDataToSend(data_limit, already_packed)
    PROVE  \E room \in Nat : \/ PollLossRecovery(room) \/ PollFastRecovery(room)
                             \/ PollWhole(room) \/ PollFragment(room)
<1>. DEFINE limit == MinOf(data_limit, get_pmtu - already_packed)
<1>1. data_limit \in Nat /\ already_packed \in Nat /\ DataHeader \in Nat /\ get_pmtu \in Int
  BY TxAssumption, ProbeAssumption DEF Inv, TypeOK, PmtuProbe, get_pmtu, Usize
<1>2. limit \in Int /\ limit > DataHeader
  BY <1>1 DEF PollDataToSend, MinOf
<1>. HIDE DEF limit
<1>3. limit - DataHeader \in Nat
  BY <1>1, <1>2
<1>. QED  BY <1>3, Zenon DEF PollDataToSend, limit

(* A SACK pops the first k entries and changes the marks of the others. *)
Popped(k) ==
    /\ k \in 0 .. Len(resend_queue)
    /\ DOMAIN resend_queue' = 1 .. (Len(resend_queue) - k)
    /\ \A i \in DOMAIN resend_queue' : /\ k + i \in DOMAIN resend_queue
                                       /\ resend_queue'[i].data = resend_queue[k + i].data

(* A duplicate SACK pops nothing. *)
LEMMA SackDuplicateEffect ==
    ASSUME Inv, NEW sack, SackDuplicate(sack)
    PROVE  Popped(0) /\ DOMAIN resend_queue' = DOMAIN resend_queue
<1>1. /\ resend_queue \in Seq(ResendEntry)
      /\ resend_queue' = MarkByGapBlocks(resend_queue, sack)
  BY Zenon DEF Inv, TypeOK, SackDuplicate
<1>2. /\ DOMAIN resend_queue' = DOMAIN resend_queue
      /\ \A i \in DOMAIN resend_queue : resend_queue'[i].data = resend_queue[i].data
  BY <1>1, MarkByGapBlocksType, Zenon
<1>3. Len(resend_queue) \in Nat /\ DOMAIN resend_queue = 1 .. Len(resend_queue)
  BY <1>1
<1>. QED  BY <1>2, <1>3 DEF Popped

(* A SACK that advances pops k chunks; marks for retransmission change no data. *)
LEMMA SackAdvanceEffect ==
    ASSUME Inv, NEW sack, NEW k \in 0 .. Len(resend_queue),
           resend_queue' = MarkByGapBlocks(Unacked(k), sack)
    PROVE  Popped(k)
<1>1. /\ Unacked(k) \in Seq(ResendEntry)
      /\ DOMAIN Unacked(k) = 1 .. (Len(resend_queue) - k)
      /\ \A i \in DOMAIN Unacked(k) : k + i \in DOMAIN resend_queue
                                      /\ Unacked(k)[i] = resend_queue[k + i]
  BY PopPrefix, Zenon DEF Inv
<1>2. /\ DOMAIN resend_queue' = DOMAIN Unacked(k)
      /\ \A i \in DOMAIN Unacked(k) : resend_queue'[i].data = Unacked(k)[i].data
  BY <1>1, MarkByGapBlocksType, Zenon
<1>. QED  BY <1>1, <1>2, Zenon DEF Popped

(* handle_rto_timeout changes no data. *)
LEMMA RtoTimeoutEffect ==
    ASSUME TypeOK, NEW late, HandleRtoTimeout(late)
    PROVE  /\ DOMAIN resend_queue' = DOMAIN resend_queue
           /\ \A i \in DOMAIN resend_queue : resend_queue'[i].data = resend_queue[i].data
<1>1. \A i \in DOMAIN resend_queue : resend_queue[i] \in ResendEntry
  BY DEF TypeOK
<1>2. resend_queue' = [i \in DOMAIN resend_queue |->
                         [resend_queue[i] EXCEPT !.marked_for_retransmit = @ \/ i \in late]]
  BY Zenon DEF HandleRtoTimeout
<1>3. ASSUME NEW i \in DOMAIN resend_queue
      PROVE  resend_queue'[i].data = resend_queue[i].data
  <2>1. resend_queue'[i] = [resend_queue[i] EXCEPT !.marked_for_retransmit = @ \/ i \in late]
    BY <1>2, Zenon
  <2>2. resend_queue[i] \in ResendEntry
    BY <1>1, Zenon
  <2>. QED  BY <2>1, <2>2, Zenon DEF ResendEntry
<1>. QED  BY <1>2, <1>3, Zenon

-----------------------------------------------------------------------------
(***************************************************************************)
(* Fragmentation.  FragmentsChain speaks of the chunks that have been sent *)
(* and the front of out_queue; it is preserved because the messages in     *)
(* out_queue continue each other up to the last accepted byte, and because *)
(* what is sent again has been sent before.                                *)
(***************************************************************************)
QueueChain ==
    /\ \A i \in DOMAIN out_queue : out_queue[i].end = TRUE
    /\ \A i \in DOMAIN out_queue : i > 1 => Continues(out_queue[i - 1], out_queue[i])
    /\ out_queue # <<>> => out_queue[Len(out_queue)].hi = accepted

SentBefore == \A i \in DOMAIN resend_queue : Sent(i) \in wire

Chain == FragmentsChain /\ QueueChain /\ SentBefore

(* A step that leaves the stream of bytes alone. *)
LEMMA ChainSame ==
    ASSUME Chain, UNCHANGED <<out_queue, accepted, tsn_counter, wire>>, SentBefore'
    PROVE  Chain'
BY Zenon DEF Chain, FragmentsChain, QueueChain

(* An accepted message continues the byte stream at the end of the out queue. *)
LEMMA ChainTrySend ==
    ASSUME Inv, Chain, NEW len \in Lens, NEW stream \in Streams, NEW unordered \in Orderings,
           TrySendData(len, stream, unordered)
    PROVE  Chain'
<1>. DEFINE new == [tsn |-> 0, stream_id |-> stream, stream_seq_num |-> per_stream[stream],
                    lo |-> accepted, hi |-> accepted + len, unordered |-> unordered,
                    begin |-> TRUE, end |-> TRUE]
<1>1. /\ out_queue \in Seq(DataChunk) /\ out_queue' = Append(out_queue, new)
      /\ accepted' = accepted + len
      /\ UNCHANGED <<resend_queue, wire, tsn_counter>>
  BY Zenon DEF Inv, TypeOK, TrySendData
<1>2. /\ Len(out_queue) \in Nat /\ DOMAIN out_queue = 1 .. Len(out_queue)
      /\ DOMAIN out_queue' = 1 .. (Len(out_queue) + 1) /\ Len(out_queue') = Len(out_queue) + 1
      /\ out_queue'[Len(out_queue) + 1] = new
      /\ \A i \in 1 .. Len(out_queue) : out_queue'[i] = out_queue[i]
      /\ (out_queue = <<>> <=> Len(out_queue) = 0) /\ out_queue' # <<>>
  BY <1>1
<1>3. new.lo = accepted /\ new.hi = accepted' /\ new.begin = TRUE /\ new.end = TRUE
  BY <1>1, Zenon
<1>. HIDE DEF new
<1>4. QueueChain'
  <2>1. \A i \in DOMAIN out_queue' : out_queue'[i].end = TRUE
    <3>1. \A i \in 1 .. Len(out_queue) : out_queue[i].end = TRUE
      BY <1>2, Zenon DEF Chain, QueueChain
    <3>2. \A i \in 1 .. (Len(out_queue) + 1) : i \in 1 .. Len(out_queue) \/ i = Len(out_queue) + 1
      BY <1>2
    <3>. QED  BY <1>2, <1>3, <3>1, <3>2, Zenon
  <2>2. ASSUME NEW i \in DOMAIN out_queue', i > 1
        PROVE  Continues(out_queue'[i - 1], out_queue'[i])
    <3>1. CASE i \in 1 .. Len(out_queue)
      BY <1>2, <2>2, <3>1 DEF Chain, QueueChain
    <3>2. CASE i = Len(out_queue) + 1
      <4>1. /\ Len(out_queue) \in DOMAIN out_queue /\ out_queue # <<>>
            /\ out_queue'[i - 1] = out_queue[Len(out_queue)] /\ out_queue'[i] = new
        BY <1>2, <2>2, <3>2
      <4>2. out_queue[Len(out_queue)].hi = accepted /\ out_queue[Len(out_queue)].end = TRUE
        BY <4>1, Zenon DEF Chain, QueueChain
      <4>. QED  BY <1>3, <4>1, <4>2, ZenonT(30) DEF Continues
    <3>. QED  BY <1>2, <3>1, <3>2
  <2>. QED  BY <1>2, <1>3, <2>1, <2>2, Zenon DEF QueueChain
<1>5. FragmentsChain'
  <2>. SUFFICES ASSUME NEW c \in wire
                PROVE  \/ \E d \in wire : d.tsn = increase(c.tsn) /\ Continues(c, d)
                       \/ tsn_counter = increase(c.tsn) /\ Continues(c, out_queue'[1])
    BY <1>1, <1>2, Zenon DEF FragmentsChain
  <2>1. CASE \E d \in wire : d.tsn = increase(c.tsn) /\ Continues(c, d)
    BY <2>1, Zenon
  <2>2. CASE tsn_counter = increase(c.tsn) /\ out_queue = <<>> /\ c.end /\ c.hi = accepted
    <3>1. c.end = TRUE /\ out_queue'[1] = new
      <4>1. c \in DataChunk
        BY Zenon DEF Inv, TypeOK
      <4>2. c.end \in BOOLEAN
        BY <4>1, Zenon DEF DataChunk
      <4>. QED  BY <1>2, <2>2, <4>2
    <3>. QED  BY <1>3, <2>2, <3>1, Zenon DEF Continues
  <2>3. CASE tsn_counter = increase(c.tsn) /\ out_queue # <<>> /\ Continues(c, out_queue[1])
    <3>1. out_queue'[1] = out_queue[1]
      BY <1>2, <2>3
    <3>. QED  BY <2>3, <3>1, Zenon
  <2>. QED  BY <2>1, <2>2, <2>3, Zenon DEF Chain, FragmentsChain
<1>6. SentBefore'
  BY <1>1, Zenon DEF Chain, SentBefore, Sent
<1>. QED  BY <1>4, <1>5, <1>6, Zenon DEF Chain

(* A packet with the first bytes of out_queue continues what the front did. *)
LEMMA ChainAppended ==
    ASSUME Inv, Chain, out_queue # <<>>, NEW packet, SentFrom(packet, out_queue[1]),
           Appended(packet), QueueChain',
           IF out_queue' = <<>> THEN packet.end /\ packet.hi = accepted
                                ELSE Continues(packet, out_queue'[1])
    PROVE  Chain'
<1>1. FragmentsChain'
  <2>. SUFFICES ASSUME NEW c \in wire'
                PROVE  \/ \E d \in wire' : d.tsn = increase(c.tsn) /\ Continues(c, d)
                       \/ /\ tsn_counter' = increase(c.tsn)
                          /\ IF out_queue' = <<>> THEN c.end /\ c.hi = accepted'
                             ELSE Continues(c, out_queue'[1])
    BY Zenon DEF FragmentsChain
  <2>1. CASE c = packet
    BY <2>1, Zenon DEF Appended, SentFrom
  <2>2. CASE c \in wire
    <3>1. CASE \E d \in wire : d.tsn = increase(c.tsn) /\ Continues(c, d)
      BY <3>1, Zenon DEF Appended
    <3>2. CASE tsn_counter = increase(c.tsn) /\ Continues(c, out_queue[1])
      <4>1. packet \in wire' /\ packet.tsn = increase(c.tsn)
        BY <3>2, Zenon DEF Appended, SentFrom
      <4>2. Continues(c, packet)
        BY <3>2, Zenon DEF SentFrom, Continues
      <4>. QED  BY <4>1, <4>2, Zenon
    <3>. QED  BY <2>2, <3>1, <3>2, Zenon DEF Chain, FragmentsChain
  <2>. QED  BY <2>1, <2>2, Zenon DEF Appended
<1>2. SentBefore'
  <2>1. Len(resend_queue) \in Nat /\ DOMAIN resend_queue = 1 .. Len(resend_queue)
    BY DEF Inv, TypeOK
  <2>2. \A i \in DOMAIN resend_queue' : i \in 1 .. Len(resend_queue) \/ i = Len(resend_queue) + 1
    BY <2>1 DEF Appended
  <2>. QED  BY <2>1, <2>2, Zenon DEF Chain, SentBefore, Sent, Appended
<1>. QED  BY <1>1, <1>2, Zenon DEF Chain

(* What is sent whole ends a message. *)
LEMMA ChainPollWhole ==
    ASSUME Inv, Chain, NEW room, PollWhole(room)
    PROVE  Chain'
<1>1. /\ out_queue # <<>>
      /\ DOMAIN out_queue' = 1 .. (Len(out_queue) - 1) /\ Len(out_queue') = Len(out_queue) - 1
      /\ \A i \in 1 .. (Len(out_queue) - 1) : out_queue'[i] = out_queue[i + 1]
  BY PollWholeEffect, Zenon DEF Inv
<1>2. PICK packet : /\ SentFrom(packet, out_queue[1]) /\ Appended(packet)
                    /\ packet.hi = out_queue[1].hi /\ packet.end = TRUE
  BY PollWholeEffect, ZenonT(30) DEF Inv
<1>3. /\ Len(out_queue) \in Nat /\ Len(out_queue) >= 1 /\ DOMAIN out_queue = 1 .. Len(out_queue)
      /\ accepted' = accepted
  BY <1>1, <1>2, FrontType, Zenon DEF Inv, Appended
<1>4. out_queue' = <<>> <=> Len(out_queue) = 1
  <2>1. out_queue' = Tail(out_queue) /\ out_queue \in Seq(DataChunk)
    BY Zenon DEF Inv, TypeOK, PollWhole
  <2>2. out_queue' \in Seq(DataChunk)
    BY <1>1, <2>1
  <2>3. out_queue' = <<>> <=> Len(out_queue') = 0
    BY <2>2
  <2>. QED  BY <1>1, <1>3, <2>3
<1>5. QueueChain'
  <2>1. \A i \in DOMAIN out_queue' : /\ i + 1 \in DOMAIN out_queue /\ i + 1 > 1
                                     /\ out_queue'[i] = out_queue[i + 1]
    BY <1>1, <1>3
  <2>2. ASSUME NEW i \in DOMAIN out_queue', i > 1
        PROVE  Continues(out_queue'[i - 1], out_queue'[i])
    <3>1. i - 1 \in DOMAIN out_queue' /\ (i - 1) + 1 = i /\ (i + 1) - 1 = i
      BY <1>1, <1>3, <2>2
    <3>2. Continues(out_queue[i], out_queue[i + 1])
      BY <2>1, <3>1, Zenon DEF Chain, QueueChain
    <3>. QED  BY <2>1, <3>1, <3>2, Zenon
  <2>3. out_queue' # <<>> => out_queue'[Len(out_queue')] = out_queue[Len(out_queue)]
    BY <1>1, <1>3, <1>4
  <2>. QED  BY <1>1, <1>3, <2>1, <2>2, <2>3, Zenon DEF Chain, QueueChain
<1>6. CASE out_queue' = <<>>
  <2>1. packet.end /\ packet.hi = accepted
    BY <1>1, <1>2, <1>3, <1>4, <1>6, Zenon DEF Chain, QueueChain
  <2>. QED  BY <1>1, <1>2, <1>5, <1>6, <2>1, ChainAppended, Zenon
<1>7. CASE out_queue' # <<>>
  <2>1. /\ 2 \in DOMAIN out_queue /\ 1 \in DOMAIN out_queue /\ 2 > 1 /\ 2 - 1 = 1
        /\ out_queue'[1] = out_queue[2]
    BY <1>1, <1>3, <1>4, <1>7
  <2>2. Continues(out_queue[1], out_queue[2]) /\ out_queue[1].end = TRUE
    BY <2>1, Zenon DEF Chain, QueueChain
  <2>3. Continues(packet, out_queue'[1])
    BY <1>2, <2>1, <2>2, ZenonT(30) DEF Continues
  <2>. QED  BY <1>1, <1>2, <1>5, <1>7, <2>3, ChainAppended, Zenon
<1>. QED  BY <1>6, <1>7, Zenon

(* A fragment continues in the front of the out queue. *)
LEMMA ChainPollFragment ==
    ASSUME Inv, Chain, NEW room \in Nat, PollFragment(room)
    PROVE  Chain'
<1>1. /\ out_queue # <<>>
      /\ DOMAIN out_queue' = DOMAIN out_queue /\ Len(out_queue') = Len(out_queue)
      /\ \A i \in DOMAIN out_queue \ {1} : out_queue'[i] = out_queue[i]
  BY PollFragmentEffect, Zenon DEF Inv
<1>2. PICK packet : /\ SentFrom(packet, out_queue[1]) /\ Appended(packet)
                    /\ Continues(packet, out_queue'[1])
                    /\ out_queue'[1].hi = out_queue[1].hi
                    /\ out_queue'[1].end = out_queue[1].end
  BY PollFragmentEffect, ZenonT(30) DEF Inv
<1>3. /\ Len(out_queue) \in Nat /\ Len(out_queue) >= 1 /\ DOMAIN out_queue = 1 .. Len(out_queue)
      /\ accepted' = accepted /\ out_queue' # <<>>
  <2>1. Len(out_queue) \in Nat /\ Len(out_queue) >= 1 /\ DOMAIN out_queue = 1 .. Len(out_queue)
    BY <1>1, FrontType, Zenon DEF Inv
  <2>2. DOMAIN <<>> = {} /\ 1 \in DOMAIN out_queue'
    BY <1>1, <2>1
  <2>. QED  BY <1>2, <2>1, <2>2, Zenon DEF Appended
<1>4. \A i \in DOMAIN out_queue : /\ out_queue'[i].hi = out_queue[i].hi
                                  /\ out_queue'[i].end = out_queue[i].end
  BY <1>1, <1>2, Zenon
<1>5. QueueChain'
  <2>1. ASSUME NEW i \in DOMAIN out_queue', i > 1
        PROVE  Continues(out_queue'[i - 1], out_queue'[i])
    <3>1. i \in DOMAIN out_queue /\ i - 1 \in DOMAIN out_queue /\ out_queue'[i] = out_queue[i]
      BY <1>1, <1>3, <2>1
    <3>2. Continues(out_queue[i - 1], out_queue[i]) /\ out_queue[i - 1].end = TRUE
      BY <2>1, <3>1, Zenon DEF Chain, QueueChain
    <3>. QED  BY <1>4, <3>1, <3>2, Zenon DEF Continues
  <2>2. Len(out_queue) \in DOMAIN out_queue
    BY <1>3
  <2>. QED  BY <1>1, <1>3, <1>4, <2>1, <2>2, Zenon DEF Chain, QueueChain
<1>. QED  BY <1>1, <1>2, <1>3, <1>5, ChainAppended, Zenon

(* Every step keeps Chain. *)
LEMMA ChainStep == Inv /\ Chain /\ [Next]_vars => Chain'
<1>. SUFFICES ASSUME Inv, Chain, [Next]_vars  PROVE Chain'
  OBVIOUS
<1>1. ASSUME NEW data_limit \in DataLimits, NEW already_packed \in Packed,
             PollDataToSend(data_limit, already_packed)
      PROVE  Chain'
  <2>1. PICK room \in Nat : \/ PollLossRecovery(room) \/ PollFastRecovery(room)
                            \/ PollWhole(room) \/ PollFragment(room)
    BY <1>1, PollRoom, Zenon
  <2>2. CASE PollLossRecovery(room) \/ PollFastRecovery(room)
    <3>1. /\ UNCHANGED <<out_queue, accepted, tsn_counter>>
          /\ DOMAIN resend_queue' = DOMAIN resend_queue
          /\ \A j \in DOMAIN resend_queue : resend_queue'[j].data = resend_queue[j].data
          /\ \E i \in DOMAIN resend_queue : wire' = wire \cup {Sent(i)}
      BY <2>2, RetransmitEffect, ZenonT(30) DEF Inv
    <3>2. wire' = wire /\ SentBefore'
      BY <3>1, Zenon DEF Chain, SentBefore, Sent
    <3>. QED  BY <3>1, <3>2, ChainSame, Zenon
  <2>. QED  BY <2>1, <2>2, ChainPollWhole, ChainPollFragment, Zenon
<1>2. ASSUME NEW sack \in PeerSacks, HandleSack(sack)
      PROVE  Chain'
  <2>1. UNCHANGED <<out_queue, accepted, tsn_counter, wire>>
    BY <1>2, Zenon DEF HandleSack
  <2>2. \E k : Popped(k)
    <3>1. SackAdvance(sack) => \E k : Popped(k)
      BY SackAdvanceEffect, Zenon DEF SackAdvance
    <3>. QED  BY <1>2, <3>1, SackDuplicateEffect, Zenon DEF HandleSack
  <2>3. SentBefore'
    BY <2>1, <2>2, Zenon DEF Chain, SentBefore, Sent, Popped
  <2>. QED  BY <2>1, <2>3, ChainSame, Zenon
<1>3. ASSUME NEW late \in Late, HandleRtoTimeout(late)
      PROVE  Chain'
  <2>1. UNCHANGED <<out_queue, accepted, tsn_counter, wire>>
    BY <1>3, Zenon DEF HandleRtoTimeout
  <2>2. SentBefore'
    BY <1>3, <2>1, RtoTimeoutEffect, Zenon DEF Inv, Chain, SentBefore, Sent
  <2>. QED  BY <2>1, <2>2, ChainSame
<1>4. ASSUME UNCHANGED <<out_queue, accepted, tsn_counter, wire, resend_queue>>
      PROVE  Chain'
  BY <1>4, ChainSame, Zenon DEF Chain, SentBefore, Sent
<1>5. ASSUME NEW size \in probed, ProcessHeartbeatAck(size)
      PROVE  Chain'
  BY <1>4, <1>5, Zenon DEF ProcessHeartbeatAck
<1>6. CASE SignalNext
  BY <1>4, <1>6, Zenon DEF dataVars, SignalNext, NotifySendSack, NotifyAbort, NotifyShutdown,
         InitiateShutdown, NotifyPeerShutdown, NotifyPeerShutdownAck, NotifyPeerShutdownComplete,
         PollSignalToSend, HandleShutdownRtoTimeout, HandleHeartbeatTimeout
<1>7. CASE UNCHANGED vars
  BY <1>4, <1>7, Zenon DEF vars, dataVars
<1>. QED  BY <1>1, <1>2, <1>3, <1>5, <1>6, <1>7, ChainTrySend, Zenon DEF Next, SignalNext

(***************************************************************************)
(* poll_data_to_send cuts the accepted bytes into chunks without a gap,    *)
(* an overlap or a mixture of messages, and numbers them one after the     *)
(* other, however retransmissions and changes of the path MTU come between *)
(* the fragments of a message, and also where the TSN wraps around.        *)
(***************************************************************************)
THEOREM FragmentsAreChained == Spec => []FragmentsChain
<1>1. Init => Chain
  <2>. SUFFICES ASSUME Init  PROVE Chain
    OBVIOUS
  <2>1. wire = {} /\ out_queue = <<>> /\ DOMAIN out_queue = {} /\ DOMAIN resend_queue = {}
    BY DEF Init
  <2>. QED  BY <2>1, ZenonT(30) DEF Chain, FragmentsChain, QueueChain, SentBefore
<1>2. Chain => FragmentsChain
  BY Zenon DEF Chain
<1>. QED  BY <1>1, <1>2, ChainStep, Invariance, PTL DEF Spec
-----------------------------------------------------------------------------
(***************************************************************************)
(* The retransmission timer.  handle_sack starts and stops it by counting  *)
(* bytes, so that it is right only if no chunk is empty: the theorems here *)
(* assume that the application sends no empty message.                     *)
(***************************************************************************)
(* Every chunk and every message has bytes. *)
Positive ==
    /\ \A i \in DOMAIN resend_queue : Sent(i).lo < Sent(i).hi
    /\ \A i \in DOMAIN out_queue : out_queue[i].lo < out_queue[i].hi

Timed == Positive /\ RtoArmed /\ RecoveryHasData

(* A collection with a chunk that is not empty has bytes. *)
LEMMA HasBytes ==
    ASSUME NEW S, IsFiniteSet(Octets(S)), NEW c \in S, c.lo \in Nat, c.hi \in Nat, c.lo < c.hi
    PROVE  TotalLen(S) \in Nat /\ TotalLen(S) > 0
<1>1. c.lo \in c.lo .. (c.hi - 1)
  OBVIOUS
<1>2. Octets(S) # {}
  BY <1>1, Zenon DEF Octets
<1>3. Cardinality(Octets(S)) \in Nat /\ Cardinality(Octets(S)) # 0
  BY <1>2, FS_EmptySet, FS_CardinalityType, Zenon
<1>. QED  BY <1>3 DEF TotalLen

(* What handle_sack reads off its byte counts. *)
LEMMA BytesTell ==
    ASSUME Inv, Positive, NEW k \in 0 .. Len(resend_queue)
    PROVE  /\ TotalLen(Acked(k)) \in Nat
           /\ TotalLen(Acked(k)) > 0 <=> k > 0
           /\ current_in_flight - TotalLen(Acked(k)) > 0 <=> k < Len(resend_queue)
<1>1. resend_queue \in Seq(ResendEntry) /\ Len(resend_queue) \in Nat /\ k \in Nat
      /\ DOMAIN resend_queue = 1 .. Len(resend_queue)
  BY DEF Inv, TypeOK
<1>. DEFINE left == {Unacked(k)[i].data : i \in DOMAIN Unacked(k)}
<1>2. /\ DOMAIN Unacked(k) = 1 .. (Len(resend_queue) - k)
      /\ \A i \in DOMAIN Unacked(k) : k + i \in DOMAIN resend_queue
                                      /\ Unacked(k)[i] = resend_queue[k + i]
      /\ IsFiniteSet(Octets(left))
      /\ TotalLen(Acked(k)) \in Nat /\ TotalLen(left) \in Nat
      /\ TotalLen(InFlight) = TotalLen(Acked(k)) + TotalLen(left)
  BY PopPrefix, ZenonT(30) DEF Inv
<1>3. \A i \in DOMAIN resend_queue : /\ resend_queue[i].data.lo \in Nat
                                     /\ resend_queue[i].data.hi \in Nat
                                     /\ resend_queue[i].data.lo < resend_queue[i].data.hi
  BY TypesOfQueues, Zenon DEF Inv, Positive, Sent
<1>4. TotalLen(Acked(k)) > 0 <=> k > 0
  <2>1. CASE k = 0
    <3>1. Acked(k) = {}
      BY <2>1 DEF Acked
    <3>. QED  BY <2>1, <3>1, NoOctets, ZenonT(30)
  <2>2. CASE k > 0
    <3>1. 1 \in 1 .. k /\ 1 \in DOMAIN resend_queue
      BY <1>1, <2>2
    <3>2. resend_queue[1].data \in Acked(k)
      BY <3>1, Zenon DEF Acked
    <3>3. Acked(k) \subseteq {resend_queue[i].data : i \in DOMAIN resend_queue}
      BY <1>1 DEF Acked
    <3>4. IsFiniteSet(Octets({resend_queue[i].data : i \in DOMAIN resend_queue}))
      BY LayoutDisjoint, Zenon DEF Inv, Disjoint, InFlight
    <3>5. IsFiniteSet(Octets(Acked(k)))
      BY <3>3, <3>4, SubsetLen, Zenon
    <3>6. TotalLen(Acked(k)) > 0
      BY <1>3, <3>1, <3>2, <3>5, HasBytes, ZenonT(30)
    <3>. QED  BY <2>2, <3>6, Zenon
  <2>. QED  BY <1>1, <2>1, <2>2
<1>5. TotalLen(left) > 0 <=> k < Len(resend_queue)
  <2>1. CASE k = Len(resend_queue)
    <3>1. DOMAIN Unacked(k) = {}
      BY <1>1, <1>2, <2>1, SMTT(30)
    <3>2. left = {}
      BY <3>1, Zenon
    <3>. HIDE DEF left
    <3>3. TotalLen(left) = 0
      BY <3>2, NoOctets, Zenon
    <3>. QED  BY <1>1, <2>1, <3>3
  <2>2. CASE k < Len(resend_queue)
    <3>1. 1 \in DOMAIN Unacked(k)
      BY <1>1, <1>2, <2>2, SMTT(30)
    <3>2. Unacked(k)[1].data \in left
      BY <3>1, Zenon
    <3>3. /\ Unacked(k)[1].data.lo \in Nat /\ Unacked(k)[1].data.hi \in Nat
          /\ Unacked(k)[1].data.lo < Unacked(k)[1].data.hi
      BY <1>2, <1>3, <3>1, Zenon
    <3>. HIDE DEF left
    <3>4. TotalLen(left) > 0
      BY <1>2, <3>2, <3>3, HasBytes, Zenon
    <3>. QED  BY <2>2, <3>4, Zenon
  <2>3. k = Len(resend_queue) \/ k < Len(resend_queue)
    <3>1. \A m \in Nat : \A n \in 0 .. m : n = m \/ n < m
      OBVIOUS
    <3>. QED  BY <1>1, <3>1, Zenon
  <2>. QED  BY <2>1, <2>2, <2>3, Zenon
<1>6. current_in_flight = TotalLen(InFlight)
  BY Zenon DEF Inv, AssertInvariants
<1>. HIDE DEF left
<1>7. current_in_flight - TotalLen(Acked(k)) = TotalLen(left)
  BY <1>2, <1>6
<1>. QED  BY <1>2, <1>4, <1>5, <1>7, Zenon

(* bytes_acked never enters a recovery, and leaves it with the first new byte. *)
LEMMA RecoveryEnds ==
    ASSUME NEW c \in PerDestinationInfo, NEW p \in Nat, NEW a \in Nat, NEW b \in Nat,
           BytesAcked(c, p, a, b).state \in {"LossRecovery", "FastRecovery"}
    PROVE  c.state \in {"LossRecovery", "FastRecovery"} /\ ~ (a > 0)
<1>1. c.state \in CongestionState
  BY Zenon DEF PerDestinationInfo
<1>2. CASE c.state \in {"LossRecovery", "FastRecovery"}
  <2>1. BytesAcked(c, p, a, b) = RecoveryBytesAcked(c, a)
    BY <1>2, Zenon DEF BytesAcked
  <2>2. CASE a > 0
    <3>1. BytesAcked(c, p, a, b).state = "SlowStart"
      BY <2>1, <2>2, Zenon DEF RecoveryBytesAcked, PerDestinationInfo
    <3>. QED  BY <3>1, Zenon
  <2>. QED  BY <1>2, <2>2, Zenon
<1>3. CASE c.state = "CongestionAvoidance"
  <2>1. BytesAcked(c, p, a, b) = AvoidanceBytesAcked(c, p, a, b)
    BY <1>3, Zenon DEF BytesAcked
  <2>2. BytesAcked(c, p, a, b).state = "CongestionAvoidance"
    BY <1>3, <2>1, Zenon DEF AvoidanceBytesAcked, PerDestinationInfo
  <2>. QED  BY <2>2, Zenon
<1>4. CASE c.state = "SlowStart"
  <2>1. BytesAcked(c, p, a, b) = SlowStartBytesAcked(c, a, b)
    BY <1>4, Zenon DEF BytesAcked
  <2>2. BytesAcked(c, p, a, b).state \in {"SlowStart", "CongestionAvoidance"}
    BY <1>4, <2>1, Zenon DEF SlowStartBytesAcked, PerDestinationInfo
  <2>. QED  BY <2>2, Zenon
<1>. QED  BY <1>1, <1>2, <1>3, <1>4, Zenon DEF CongestionState

(* A step that keeps the entries of resend_queue, up to their marks, keeps Positive. *)
LEMMA PositiveSame ==
    ASSUME Positive, UNCHANGED out_queue, NEW k, Popped(k)
    PROVE  Positive'
BY Zenon DEF Positive, Popped, Sent

(* Every step keeps chunks nonempty: a fragment takes less than the whole. *)
LEMMA PositiveStep ==
    ASSUME 0 \notin Lens, Inv, Positive, [Next]_vars
    PROVE  Positive'
<1>0. TypeOK
  BY Zenon DEF Inv
<1>1. /\ resend_queue \in Seq(ResendEntry) /\ Len(resend_queue) \in Nat
      /\ DOMAIN resend_queue = 1 .. Len(resend_queue)
  BY DEF Inv, TypeOK
<1>2. ASSUME UNCHANGED out_queue, DOMAIN resend_queue' = DOMAIN resend_queue,
             \A i \in DOMAIN resend_queue : resend_queue'[i].data = resend_queue[i].data
      PROVE  Positive'
  BY <1>2, Zenon DEF Positive, Sent
<1>3. ASSUME NEW packet, Appended(packet), packet.lo < packet.hi,
             \A i \in DOMAIN out_queue' : out_queue'[i].lo < out_queue'[i].hi
      PROVE  Positive'
  <2>1. \A i \in DOMAIN resend_queue' : i \in 1 .. Len(resend_queue) \/ i = Len(resend_queue) + 1
    BY <1>1, <1>3 DEF Appended
  <2>. QED  BY <1>1, <1>3, <2>1, Zenon DEF Positive, Sent, Appended
<1>4. ASSUME NEW len \in Lens, NEW stream \in Streams, NEW unordered \in Orderings,
             TrySendData(len, stream, unordered)
      PROVE  Positive'
  <2>. DEFINE new == [tsn |-> 0, stream_id |-> stream, stream_seq_num |-> per_stream[stream],
                      lo |-> accepted, hi |-> accepted + len, unordered |-> unordered,
                      begin |-> TRUE, end |-> TRUE]
  <2>1. /\ out_queue \in Seq(DataChunk) /\ out_queue' = Append(out_queue, new)
        /\ UNCHANGED resend_queue /\ accepted \in Nat /\ len \in Nat /\ len # 0
    BY <1>4, TxAssumption, Zenon DEF Inv, TypeOK, TrySendData
  <2>2. new.lo < new.hi
    BY <2>1
  <2>. HIDE DEF new
  <2>3. \A i \in DOMAIN out_queue' : \/ i \in DOMAIN out_queue /\ out_queue'[i] = out_queue[i]
                                     \/ out_queue'[i] = new
    BY <2>1
  <2>. QED  BY <2>1, <2>2, <2>3, Zenon DEF Positive, Sent
<1>5. ASSUME NEW data_limit \in DataLimits, NEW already_packed \in Packed,
             PollDataToSend(data_limit, already_packed)
      PROVE  Positive'
  <2>1. PICK room \in Nat : \/ PollLossRecovery(room) \/ PollFastRecovery(room)
                            \/ PollWhole(room) \/ PollFragment(room)
    BY <1>5, PollRoom, Zenon
  <2>2. CASE PollLossRecovery(room) \/ PollFastRecovery(room)
    BY <1>0, <1>2, <2>2, RetransmitEffect, ZenonT(30)
  <2>3. CASE PollWhole(room)
    <3>1. /\ out_queue # <<>> /\ DOMAIN out_queue' = 1 .. (Len(out_queue) - 1)
          /\ \A i \in 1 .. (Len(out_queue) - 1) : out_queue'[i] = out_queue[i + 1]
      BY <1>0, <2>3, PollWholeEffect, Zenon
    <3>2. PICK packet : /\ SentFrom(packet, out_queue[1]) /\ Appended(packet)
                        /\ packet.hi = out_queue[1].hi
      BY <1>0, <2>3, PollWholeEffect, Zenon
    <3>3. /\ Len(out_queue) \in Nat /\ Len(out_queue) >= 1
          /\ DOMAIN out_queue = 1 .. Len(out_queue)
      BY <1>0, <3>1, FrontType, Zenon
    <3>4. 1 \in DOMAIN out_queue /\ \A i \in 1 .. (Len(out_queue) - 1) : i + 1 \in DOMAIN out_queue
      BY <3>3
    <3>5. packet.lo < packet.hi
      BY <3>2, <3>4, Zenon DEF Positive, SentFrom
    <3>6. \A i \in DOMAIN out_queue' : out_queue'[i].lo < out_queue'[i].hi
      BY <3>1, <3>4, Zenon DEF Positive
    <3>. QED  BY <1>3, <3>2, <3>5, <3>6, Zenon
  <2>4. CASE PollFragment(room)
    <3>1. /\ out_queue # <<>> /\ DOMAIN out_queue' = DOMAIN out_queue
          /\ \A i \in DOMAIN out_queue \ {1} : out_queue'[i] = out_queue[i]
      BY <1>0, <2>4, PollFragmentEffect, Zenon
    <3>2. PICK packet : /\ SentFrom(packet, out_queue[1]) /\ Appended(packet)
                        /\ packet.lo < packet.hi /\ packet.hi < out_queue[1].hi
                        /\ Continues(packet, out_queue'[1])
                        /\ out_queue'[1].hi = out_queue[1].hi
      BY <1>0, <2>4, PollFragmentEffect, ZenonT(30)
    <3>3. out_queue'[1].lo < out_queue'[1].hi
      BY <3>2, Zenon DEF Continues
    <3>4. \A i \in DOMAIN out_queue' : out_queue'[i].lo < out_queue'[i].hi
      BY <3>1, <3>3, Zenon DEF Positive
    <3>. QED  BY <1>3, <3>2, <3>4, Zenon
  <2>. QED  BY <2>1, <2>2, <2>3, <2>4, Zenon
<1>6. ASSUME NEW sack \in PeerSacks, HandleSack(sack)
      PROVE  Positive'
  <2>1. UNCHANGED out_queue
    BY <1>6, Zenon DEF HandleSack
  <2>2. \E k : Popped(k)
    <3>1. SackAdvance(sack) => \E k : Popped(k)
      BY SackAdvanceEffect, Zenon DEF SackAdvance
    <3>. QED  BY <1>6, <3>1, SackDuplicateEffect, Zenon DEF HandleSack
  <2>. QED  BY <2>1, <2>2, PositiveSame, Zenon
<1>7. ASSUME NEW late \in Late, HandleRtoTimeout(late)
      PROVE  Positive'
  <2>1. UNCHANGED out_queue
    BY <1>7, Zenon DEF HandleRtoTimeout
  <2>. QED  BY <1>0, <1>2, <1>7, <2>1, RtoTimeoutEffect, Zenon
<1>8. ASSUME UNCHANGED <<out_queue, resend_queue>>
      PROVE  Positive'
  BY <1>8, Zenon DEF Positive, Sent
<1>9. ASSUME NEW size \in probed, ProcessHeartbeatAck(size)
      PROVE  Positive'
  BY <1>8, <1>9, Zenon DEF ProcessHeartbeatAck
<1>10. CASE SignalNext
  BY <1>8, <1>10, ZenonT(30) DEF dataVars, SignalNext, NotifySendSack, NotifyAbort, NotifyShutdown,
         InitiateShutdown, NotifyPeerShutdown, NotifyPeerShutdownAck, NotifyPeerShutdownComplete,
         PollSignalToSend, HandleShutdownRtoTimeout, HandleHeartbeatTimeout
<1>11. CASE UNCHANGED vars
  BY <1>8, <1>11, Zenon DEF vars, dataVars
<1>. QED  BY <1>4, <1>5, <1>6, <1>7, <1>9, <1>10, <1>11 DEF Next, SignalNext

InRecovery == primary_congestion.state \in {"LossRecovery", "FastRecovery"}

(* A queue is empty exactly if it has no index. *)
LEMMA EmptyDomain ==
    ASSUME NEW q \in Seq(ResendEntry)
    PROVE  q # <<>> <=> DOMAIN q # {}
<1>1. q = <<>> <=> Len(q) = 0
  OBVIOUS
<1>2. DOMAIN q = 1 .. Len(q) /\ Len(q) \in Nat
  OBVIOUS
<1>3. Len(q) = 0 <=> 1 .. Len(q) = {}
  <2>1. Len(q) # 0 => 1 \in 1 .. Len(q)
    BY <1>2
  <2>2. Len(q) = 0 => 1 .. Len(q) = {}
    OBVIOUS
  <2>. QED  BY <2>1, <2>2, Zenon
<1>. QED  BY <1>1, <1>2, <1>3, Zenon

(* handle_sack: the timer is started again for what is left, or stopped. *)
LEMMA TimedSack ==
    ASSUME Inv, TypeOK', Positive, RtoArmed, RecoveryHasData, NEW sack \in PeerSacks, HandleSack(sack)
    PROVE  RtoArmed' /\ RecoveryHasData'
<1>1. TypeOK /\ primary_congestion \in PerDestinationInfo /\ current_in_flight \in Nat
  BY Zenon DEF Inv, TypeOK
<1>2. (resend_queue # <<>> <=> DOMAIN resend_queue # {})
  <2>1. resend_queue \in Seq(ResendEntry)
    BY <1>1, Zenon DEF TypeOK
  <2>. QED  BY <2>1, EmptyDomain, Zenon
<1>3. (resend_queue' # <<>> <=> DOMAIN resend_queue' # {})
  <2>1. resend_queue' \in Seq(ResendEntry)
    BY Zenon DEF TypeOK
  <2>. QED  BY <2>1, EmptyDomain, Zenon
<1>4. CASE SackDuplicate(sack)
  <2>. DEFINE before == IF duplicated_acks' >= 2 /\ resend_queue # <<>>
                        THEN EnterFastRecovery(primary_congestion) ELSE primary_congestion
              partial == TotalLen(NewlyInGapBlock(resend_queue, sack))
  <2>1. before \in PerDestinationInfo
    BY <1>1, CongestionType, Zenon
  <2>2. partial \in Nat
    <3>1. NewlyInGapBlock(resend_queue, sack) \subseteq InFlight
      BY Zenon DEF NewlyInGapBlock, InFlight
    <3>2. IsFiniteSet(Octets(InFlight))
      BY LayoutDisjoint, Zenon DEF Inv, Disjoint
    <3>. QED  BY <3>1, <3>2, SubsetLen, Zenon DEF InFlight
  <2>3. primary_congestion' = BytesAcked(before, partial, 0, current_in_flight) /\ UNCHANGED rto_timer
    BY <1>4, Zenon DEF SackDuplicate
  <2>4. DOMAIN resend_queue' = DOMAIN resend_queue
    BY <1>4, SackDuplicateEffect, Zenon
  <2>5. resend_queue = <<>> => before = primary_congestion
    BY Zenon
  <2>. HIDE DEF before, partial
  <2>6. InRecovery' => before.state \in {"LossRecovery", "FastRecovery"}
    BY <1>1, <2>1, <2>2, <2>3, RecoveryEnds, Zenon DEF InRecovery
  <2>7. InRecovery' => resend_queue # <<>>
    BY <2>5, <2>6, Zenon DEF RecoveryHasData
  <2>. QED  BY <1>2, <1>3, <2>3, <2>4, <2>7, Zenon DEF RtoArmed, RecoveryHasData, InRecovery
<1>5. CASE SackAdvance(sack)
  <2>1. PICK k \in 0 .. Len(resend_queue) :
           /\ resend_queue' = MarkByGapBlocks(Unacked(k), sack)
           /\ primary_congestion' =
                BytesAcked(primary_congestion, TotalLen(NewlyInGapBlock(Unacked(k), sack)),
                           TotalLen(Acked(k)), current_in_flight)
           /\ rto_timer' = TimerAfterAck(TotalLen(Acked(k)))
    BY <1>5, Zenon DEF SackAdvance
  <2>. DEFINE bytes_acked == TotalLen(Acked(k))
              partial == TotalLen(NewlyInGapBlock(Unacked(k), sack))
  <2>2. /\ bytes_acked \in Nat /\ (bytes_acked > 0 <=> k > 0)
        /\ (current_in_flight - bytes_acked > 0 <=> k < Len(resend_queue))
    BY BytesTell, Zenon
  <2>3. partial \in Nat
    <3>. DEFINE left == {Unacked(k)[i].data : i \in DOMAIN Unacked(k)}
    <3>1. NewlyInGapBlock(Unacked(k), sack) \subseteq left
      BY Zenon DEF NewlyInGapBlock
    <3>2. IsFiniteSet(Octets(left))
      BY PopPrefix, Zenon DEF Inv
    <3>. QED  BY <3>1, <3>2, SubsetLen, ZenonT(30)
  <2>4. Popped(k)
    BY <2>1, SackAdvanceEffect, Zenon
  <2>5. rto_timer' = (IF bytes_acked > 0 THEN current_in_flight - bytes_acked > 0 ELSE rto_timer)
    BY <2>1, Zenon DEF TimerAfterAck
  <2>6. primary_congestion' = BytesAcked(primary_congestion, partial, bytes_acked, current_in_flight)
    BY <2>1, Zenon
  <2>. HIDE DEF bytes_acked, partial
  <2>7. InRecovery' => InRecovery /\ ~ (bytes_acked > 0)
    BY <1>1, <2>2, <2>3, <2>6, RecoveryEnds, Zenon DEF InRecovery
  <2>8. Len(resend_queue) \in Nat /\ (resend_queue # <<>> <=> Len(resend_queue) > 0)
    BY <1>1, SMTT(30) DEF TypeOK
  <2>9. resend_queue' # <<>> <=> k < Len(resend_queue)
    BY <1>3, <2>4, <2>8 DEF Popped
  <2>10. CASE bytes_acked > 0
    <3>1. rto_timer' = (current_in_flight - bytes_acked > 0)
      BY <2>5, <2>10, Zenon
    <3>2. rto_timer' <=> current_in_flight - bytes_acked > 0
      BY <3>1, Zenon
    <3>3. rto_timer' <=> resend_queue' # <<>>
      BY <2>2, <2>9, <3>2, Zenon
    <3>. QED  BY <2>7, <2>10, <3>3, Zenon DEF RtoArmed, RecoveryHasData, InRecovery
  <2>11. CASE ~ (bytes_acked > 0)
    <3>1. rto_timer' = rto_timer
      BY <2>5, <2>11, Zenon
    <3>2. resend_queue' # <<>> <=> resend_queue # <<>>
      BY <2>2, <2>8, <2>9, <2>11
    <3>. QED  BY <2>7, <3>1, <3>2, Zenon DEF RtoArmed, RecoveryHasData, InRecovery
  <2>. QED  BY <2>10, <2>11, Zenon
<1>. QED  BY <1>4, <1>5, Zenon DEF HandleSack

(* Every step keeps the timer and the recovery, which handle_sack decides from byte counts. *)
LEMMA TimerStep ==
    ASSUME Inv, TypeOK', Positive, RtoArmed, RecoveryHasData, [Next]_vars
    PROVE  RtoArmed' /\ RecoveryHasData'
<1>1. TypeOK
  BY Zenon DEF Inv
<1>2. (resend_queue # <<>> <=> DOMAIN resend_queue # {})
  <2>1. resend_queue \in Seq(ResendEntry)
    BY <1>1, Zenon DEF TypeOK
  <2>. QED  BY <2>1, EmptyDomain, Zenon
<1>3. (resend_queue' # <<>> <=> DOMAIN resend_queue' # {})
  <2>1. resend_queue' \in Seq(ResendEntry)
    BY Zenon DEF TypeOK
  <2>. QED  BY <2>1, EmptyDomain, Zenon
<1>4. ASSUME DOMAIN resend_queue' = DOMAIN resend_queue, UNCHANGED rto_timer, InRecovery' => InRecovery
      PROVE  RtoArmed' /\ RecoveryHasData'
  BY <1>2, <1>3, <1>4, Zenon DEF RtoArmed, RecoveryHasData, InRecovery
<1>5. ASSUME rto_timer' = TRUE, resend_queue' # <<>>
      PROVE  RtoArmed' /\ RecoveryHasData'
  BY <1>5, Zenon DEF RtoArmed, RecoveryHasData
<1>6. ASSUME UNCHANGED <<resend_queue, rto_timer, primary_congestion>>
      PROVE  RtoArmed' /\ RecoveryHasData'
  BY <1>6, Zenon DEF RtoArmed, RecoveryHasData
<1>7. ASSUME NEW data_limit \in DataLimits, NEW already_packed \in Packed,
             PollDataToSend(data_limit, already_packed)
      PROVE  RtoArmed' /\ RecoveryHasData'
  <2>1. PICK room \in Nat : \/ PollLossRecovery(room) \/ PollFastRecovery(room)
                            \/ PollWhole(room) \/ PollFragment(room)
    BY <1>7, PollRoom, Zenon
  <2>2. InRecovery' => InRecovery
    BY <1>7, Zenon DEF PollDataToSend, InRecovery
  <2>3. CASE PollLossRecovery(room) \/ PollFastRecovery(room)
    <3>1. /\ rto_timer' = TRUE \/ rto_timer' = rto_timer
          /\ DOMAIN resend_queue' = DOMAIN resend_queue
          /\ \E i \in DOMAIN resend_queue : wire' = wire \cup {Sent(i)}
      BY <1>1, <2>3, RetransmitEffect, ZenonT(30)
    <3>. QED  BY <1>3, <1>4, <1>5, <2>2, <3>1, ZenonT(30)
  <2>4. CASE PollWhole(room) \/ PollFragment(room)
    <3>1. \E packet : Appended(packet)
      <4>1. CASE PollWhole(room)
        BY <1>1, <4>1, PollWholeEffect, ZenonT(30)
      <4>2. CASE PollFragment(room)
        BY <1>1, <4>2, PollFragmentEffect, ZenonT(30)
      <4>. QED  BY <2>4, <4>1, <4>2, Zenon
    <3>2. rto_timer' = TRUE /\ DOMAIN resend_queue' = 1 .. (Len(resend_queue) + 1)
      BY <3>1, Zenon DEF Appended
    <3>3. Len(resend_queue) \in Nat
      BY <1>1 DEF TypeOK
    <3>4. DOMAIN resend_queue' # {}
      <4>1. 1 \in 1 .. (Len(resend_queue) + 1)
        BY <3>3
      <4>. QED  BY <3>2, <4>1, ZenonT(30)
    <3>. QED  BY <1>3, <1>5, <3>2, <3>4, Zenon
  <2>. QED  BY <2>1, <2>3, <2>4, Zenon
<1>8. ASSUME NEW late \in Late, HandleRtoTimeout(late)
      PROVE  RtoArmed' /\ RecoveryHasData'
  <2>1. DOMAIN resend_queue' = DOMAIN resend_queue
    BY <1>1, <1>8, RtoTimeoutEffect, Zenon
  <2>2. rto_timer' = (resend_queue # <<>>) /\ rto_timer
    BY <1>8, Zenon DEF HandleRtoTimeout
  <2>3. resend_queue # <<>>
    BY <2>2, Zenon DEF RtoArmed
  <2>. QED  BY <1>2, <1>3, <1>5, <2>1, <2>2, <2>3, ZenonT(30)
<1>9. ASSUME NEW size \in probed, ProcessHeartbeatAck(size)
      PROVE  RtoArmed' /\ RecoveryHasData'
  <2>1. UNCHANGED <<resend_queue, rto_timer>>
    BY <1>9, Zenon DEF ProcessHeartbeatAck
  <2>2. primary_congestion'.state = primary_congestion.state
    BY <1>1, <1>9, Zenon DEF ProcessHeartbeatAck, UpdatePmtu, TypeOK, PerDestinationInfo
  <2>. QED  BY <1>4, <2>1, <2>2, Zenon DEF InRecovery
<1>10. ASSUME NEW len \in Lens, NEW stream \in Streams, NEW unordered \in Orderings,
              TrySendData(len, stream, unordered)
       PROVE  RtoArmed' /\ RecoveryHasData'
  BY <1>6, <1>10, Zenon DEF TrySendData
<1>11. CASE SignalNext
  BY <1>6, <1>11, ZenonT(30) DEF dataVars, SignalNext, NotifySendSack, NotifyAbort, NotifyShutdown,
         InitiateShutdown, NotifyPeerShutdown, NotifyPeerShutdownAck, NotifyPeerShutdownComplete,
         PollSignalToSend, HandleShutdownRtoTimeout, HandleHeartbeatTimeout
<1>12. CASE UNCHANGED vars
  BY <1>6, <1>12, Zenon DEF vars, dataVars
<1>. QED  BY <1>7, <1>8, <1>9, <1>10, <1>11, <1>12, TimedSack DEF Next, SignalNext

(* Both together are invariant, since leaving recovery and stopping the timer go together. *)
LEMMA TimedInvariant ==
    ASSUME 0 \notin Lens
    PROVE  Spec => [](RtoArmed /\ RecoveryHasData)
<1>1. Init => Timed
  BY DEF Init, Timed, Positive, RtoArmed, RecoveryHasData, NewPerDestinationInfo
<1>2. Inv /\ Timed /\ [Next]_vars => Timed'
  BY NextInv, PositiveStep, TimerStep, Zenon DEF Timed, Inv
<1>3. Timed => RtoArmed /\ RecoveryHasData
  BY Zenon DEF Timed
<1>. QED  BY <1>1, <1>2, <1>3, Invariance, PTL DEF Spec

(***************************************************************************)
(* When no message is empty, the retransmission timer runs exactly while   *)
(* a chunk is outstanding, through every sack, timeout and retransmission: *)
(* handle_sack decides this from byte counts, and rightly so because each  *)
(* entry of resend_queue has bytes and the counters are exact.             *)
(***************************************************************************)
THEOREM TimerRuns ==
    ASSUME 0 \notin Lens
    PROVE  Spec => []RtoArmed
BY TimedInvariant, PTL

(***************************************************************************)
(* When no message is empty, the congestion controller is in a recovery    *)
(* only while resend_queue has an entry, so that the sack that ends the    *)
(* recovery can still come: outside of it nothing new would be sent.       *)
(***************************************************************************)
THEOREM RecoveryCanEnd ==
    ASSUME 0 \notin Lens
    PROVE  Spec => []RecoveryHasData
BY TimedInvariant, PTL
=============================================================================
