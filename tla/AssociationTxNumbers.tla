------------------------ MODULE AssociationTxNumbers ------------------------
(***************************************************************************)
(* The numbers that the sending half gives to its chunks, and what a       *)
(* receiver can therefore rely on.  No message is empty, so that a bound   *)
(* on bytes bounds the chunks, and with them the distance of the TSNs that *)
(* are compared.                                                           *)
(***************************************************************************)
EXTENDS AssociationTxSafety

-----------------------------------------------------------------------------
(* Distances between TSNs. *)

(* Two numbers that reach the same one in k and in l steps. *)
LEMMA AheadOrder ==
    ASSUME NEW t \in Tsn, NEW u \in Tsn, NEW k \in 0 .. (WrapRad + 1), NEW l \in 0 .. (WrapRad + 1),
           Ahead(t, k) = Ahead(u, l)
    PROVE  /\ k = l => t = u
           /\ l < k /\ k - l <= WrapRad => TsnLT(t, u) /\ ~ TsnLT(u, t)
<1>1. /\ t \in Int /\ u \in Int /\ k \in Int /\ l \in Int /\ WrapRad \in Int /\ TsnMod \in Int
      /\ 0 <= t /\ t < TsnMod /\ 0 <= u /\ u < TsnMod
      /\ 0 <= k /\ k <= WrapRad + 1 /\ 0 <= l /\ l <= WrapRad + 1
      /\ 0 < WrapRad /\ 3 * WrapRad <= TsnMod
  BY TsnAssumption DEF Tsn
<1>2. k = l => t = u
  BY <1>1 DEF Ahead
<1>3. ASSUME l < k, k - l <= WrapRad
      PROVE  TsnLT(t, u) /\ ~ TsnLT(u, t)
  <2>1. u = Ahead(t, k - l)
    BY <1>1, <1>3 DEF Ahead
  <2>2. k - l \in 1 .. WrapRad
    BY <1>1, <1>3
  <2>3. QED  BY <2>1, <2>2, TsnOrder, Zenon DEF OrderedWithinRadius
<1>4. QED  BY <1>2, <1>3, Zenon

(* One step more. *)
LEMMA AheadNext ==
    ASSUME NEW t \in Tsn, NEW k \in 0 .. (WrapRad + 1)
    PROVE  increase(Ahead(t, k)) = Ahead(t, k + 1) /\ Ahead(t, k) \in Tsn
BY TsnAssumption DEF Ahead, increase, Tsn

(* A queue that has as many entries as its domain. *)
LEMMA LenOfDomain ==
    ASSUME NEW S, NEW q \in Seq(S), NEW n \in Nat, DOMAIN q = 1 .. n
    PROVE  Len(q) = n
<1>1. Len(q) \in Nat /\ 1 .. Len(q) = 1 .. n
  OBVIOUS
<1>2. Len(q) \in 1 .. Len(q) \/ Len(q) = 0
  BY <1>1
<1>3. n \in 1 .. n \/ n = 0
  OBVIOUS
<1>4. Len(q) <= n /\ n <= Len(q)
  BY <1>1, <1>2, <1>3
<1>5. QED  BY <1>1, <1>4

-----------------------------------------------------------------------------
(***************************************************************************)
(* Which chunks wait for their acknowledgement: resend_queue holds those   *)
(* with the last numbers that have been given away, without a gap.  It     *)
(* begins after last_acked_tsn; only before the first SACK is that field   *)
(* the zero that new gives it, and then no chunk has been acknowledged.    *)
(***************************************************************************)
Waiting == Len(resend_queue)

Consecutive ==
    \A i \in DOMAIN resend_queue : tsn_counter = Ahead(Sent(i).tsn, Waiting - i + 1)

FromLast == tsn_counter = Ahead(last_acked_tsn, Waiting + 1)

NothingAcked ==
    /\ last_acked_tsn = 0 /\ tsn_counter = Ahead(InitTsn, Waiting)
    /\ \A c \in wire : \E i \in DOMAIN resend_queue : c = Sent(i)

AckedUpTo == Consecutive /\ (FromLast \/ NothingAcked)

(* There are no more chunks in flight than bytes. *)
LEMMA FewWaiting ==
    ASSUME Inv, Positive
    PROVE  Waiting \in Nat /\ Waiting <= OutBufferLimit /\ DOMAIN resend_queue = 1 .. Waiting
<1>1. resend_queue \in Seq(ResendEntry)
  BY Zenon DEF Inv, TypeOK
<1>2. Waiting \in Nat /\ DOMAIN resend_queue = 1 .. Waiting
  BY <1>1 DEF Waiting
<1>3. \A i \in 1 .. Waiting : Sent(i).lo \in Nat /\ Sent(i).hi \in Nat /\ Sent(i).lo < Sent(i).hi
  BY <1>2, TypesOfQueues, Zenon DEF Inv, Positive
<1>4. IsFiniteSet(Octets(InFlight)) /\ TotalLen(InFlight) \in Nat /\ TotalLen(Queued) \in Nat
  BY LayoutDisjoint, Zenon DEF Inv, Disjoint
<1> DEFINE f == [i \in 1 .. Waiting |-> Sent(i).lo]
<1>5. f \in Injection(1 .. Waiting, Octets(InFlight))
  <2>1. \A i \in 1 .. Waiting : Sent(i).lo \in Octets(InFlight)
    <3> SUFFICES ASSUME NEW i \in 1 .. Waiting
                 PROVE  Sent(i).lo \in Octets(InFlight)
        BY Zenon
    <3>1. Sent(i).lo \in Sent(i).lo .. (Sent(i).hi - 1)
      BY <1>3
    <3>2. Sent(i) \in InFlight
      BY <1>2, Zenon DEF InFlight, Sent
    <3>3. QED  BY <3>1, <3>2, Zenon DEF Octets
  <2>2. \A i, j \in 1 .. Waiting : i < j => Sent(i).hi <= Sent(j).lo
    BY <1>2, Zenon DEF Inv, Layout
  <2>3. \A i, j \in 1 .. Waiting : i # j => Sent(i).lo # Sent(j).lo
    BY <1>2, <1>3, <2>2
  <2>4. QED  BY <2>1, <2>3, Zenon DEF Injection, IsInjective
<1> HIDE DEF f
<1>6. IsFiniteSet(1 .. Waiting) /\ Cardinality(1 .. Waiting) = Waiting
  BY <1>2, FS_Interval
<1>7. Waiting <= TotalLen(InFlight)
  BY <1>4, <1>5, <1>6, FS_Injection DEF TotalLen
<1>8. TotalLen(InFlight) <= OutBufferLimit
  <2>1. /\ current_out_buffered = TotalLen(InFlight) + TotalLen(Queued)
        /\ current_out_buffered <= OutBufferLimit
    BY Counters, Zenon DEF Inv
  <2>2. QED  BY <1>4, <2>1, TxAssumption
<1>9. QED  BY <1>2, <1>4, <1>7, <1>8, TxAssumption

(* The numbers of the chunks that wait. *)
LEMMA SentTsn ==
    ASSUME TypeOK, NEW i \in DOMAIN resend_queue
    PROVE  Sent(i).tsn \in Tsn
BY TypesOfQueues, Zenon DEF DataChunk

(* A new chunk takes the next number. *)
LEMMA AckedUpToAppended ==
    ASSUME Inv, TypeOK', Positive, OutBufferLimit <= WrapRad, AckedUpTo, NEW packet,
           packet.tsn = tsn_counter, Appended(packet), UNCHANGED last_acked_tsn
    PROVE  AckedUpTo'
<1>1. /\ Waiting \in Nat /\ Waiting <= WrapRad /\ DOMAIN resend_queue = 1 .. Waiting
      /\ WrapRad \in Nat
  BY FewWaiting, TsnAssumption, TxAssumption
<1>2. /\ DOMAIN resend_queue' = 1 .. (Waiting + 1) /\ tsn_counter' = increase(tsn_counter)
      /\ resend_queue'[Waiting + 1].data = packet
      /\ \A i \in 1 .. Waiting : resend_queue'[i].data = resend_queue[i].data
      /\ wire' = wire \cup {packet}
  BY Zenon DEF Appended, Waiting
<1>3. Waiting' = Waiting + 1
  <2>1. resend_queue' \in Seq(ResendEntry)
    BY Zenon DEF TypeOK
  <2>2. QED  BY <1>1, <1>2, <2>1, LenOfDomain DEF Waiting
<1>4. tsn_counter \in Tsn /\ last_acked_tsn \in Tsn /\ InitTsn \in Tsn
  BY TxAssumption, Zenon DEF Inv, TypeOK
<1>5. Consecutive'
  <2>1. ASSUME NEW i \in 1 .. Waiting
        PROVE  tsn_counter' = Ahead(resend_queue'[i].data.tsn, (Waiting + 1) - i + 1)
    <3>1. i \in DOMAIN resend_queue /\ Sent(i).tsn \in Tsn
      BY <1>1, SentTsn, Zenon DEF Inv
    <3>2. tsn_counter = Ahead(Sent(i).tsn, Waiting - i + 1)
      BY <3>1, Zenon DEF AckedUpTo, Consecutive
    <3>3. Waiting - i + 1 \in 0 .. (WrapRad + 1) /\ (Waiting - i + 1) + 1 = (Waiting + 1) - i + 1
      BY <1>1
    <3>4. increase(tsn_counter) = Ahead(Sent(i).tsn, (Waiting + 1) - i + 1)
      BY <3>1, <3>2, <3>3, AheadNext, Zenon
    <3>5. QED  BY <1>2, <3>4, Zenon DEF Sent
  <2>2. tsn_counter' = Ahead(resend_queue'[Waiting + 1].data.tsn, (Waiting + 1) - (Waiting + 1) + 1)
    <3>1. (Waiting + 1) - (Waiting + 1) + 1 = 1
      BY <1>1
    <3>2. increase(tsn_counter) = Ahead(tsn_counter, 1)
      BY <1>4, TsnAssumption DEF increase, Ahead, Tsn
    <3>3. QED  BY <1>2, <3>1, <3>2, Zenon
  <2>3. \A i \in 1 .. (Waiting + 1) : i \in 1 .. Waiting \/ i = Waiting + 1
    BY <1>1
  <2>4. \A i \in 1 .. (Waiting + 1) :
           tsn_counter' = Ahead(resend_queue'[i].data.tsn, (Waiting + 1) - i + 1)
    BY <2>1, <2>2, <2>3, Zenon
  <2>5. QED  BY <1>2, <1>3, <2>4, Zenon DEF Consecutive, Sent
<1>6. FromLast => FromLast'
  <2> SUFFICES ASSUME FromLast
               PROVE  tsn_counter' = Ahead(last_acked_tsn, (Waiting + 1) + 1)
      BY <1>3, Zenon DEF FromLast
  <2>1. Waiting + 1 \in 0 .. (WrapRad + 1)
    BY <1>1
  <2>2. QED  BY <1>2, <1>4, <2>1, AheadNext, Zenon DEF FromLast
<1>7. NothingAcked => NothingAcked'
  <2> SUFFICES ASSUME NothingAcked
               PROVE  NothingAcked'
      BY Zenon
  <2>1. tsn_counter' = Ahead(InitTsn, Waiting + 1)
    <3>1. Waiting \in 0 .. (WrapRad + 1)
      BY <1>1
    <3>2. QED  BY <1>2, <1>4, <3>1, AheadNext, Zenon DEF NothingAcked
  <2>2. ASSUME NEW c \in wire'
        PROVE  \E i \in DOMAIN resend_queue' : c = resend_queue'[i].data
    <3>1. CASE c \in wire
      <4>1. PICK i \in DOMAIN resend_queue : c = Sent(i)
        BY <3>1, Zenon DEF NothingAcked
      <4>2. i \in 1 .. (Waiting + 1) /\ c = resend_queue'[i].data
        BY <1>1, <1>2, <4>1 DEF Sent
      <4>3. QED  BY <1>2, <4>2, Zenon
    <3>2. CASE c = packet
      <4>1. Waiting + 1 \in 1 .. (Waiting + 1)
        BY <1>1
      <4>2. QED  BY <1>2, <3>2, <4>1, Zenon
    <3>3. QED  BY <1>2, <3>1, <3>2, Zenon
  <2>3. QED  BY <1>3, <2>1, <2>2, Zenon DEF NothingAcked, Sent
<1>8. QED  BY <1>5, <1>6, <1>7, Zenon DEF AckedUpTo

(* A step that keeps the numbers, and the chunks that wait. *)
LEMMA AckedUpToSame ==
    ASSUME Inv, TypeOK', AckedUpTo, UNCHANGED <<tsn_counter, last_acked_tsn, wire>>,
           DOMAIN resend_queue' = DOMAIN resend_queue,
           \A i \in DOMAIN resend_queue : resend_queue'[i].data = resend_queue[i].data
    PROVE  AckedUpTo'
<1>1. Waiting' = Waiting
  <2>1. /\ resend_queue \in Seq(ResendEntry) /\ resend_queue' \in Seq(ResendEntry)
        /\ Waiting \in Nat /\ DOMAIN resend_queue = 1 .. Waiting
    BY DEF Inv, TypeOK, Waiting
  <2>2. QED  BY <2>1, LenOfDomain, Zenon DEF Waiting
<1>2. \A i \in DOMAIN resend_queue : Sent(i)' = Sent(i)
  BY Zenon DEF Sent
<1>3. Consecutive'
  BY <1>1, <1>2, Zenon DEF AckedUpTo, Consecutive
<1>4. FromLast => FromLast'
  BY <1>1, Zenon DEF FromLast
<1>5. NothingAcked => NothingAcked'
  BY <1>1, <1>2, Zenon DEF NothingAcked
<1>6. QED  BY <1>3, <1>4, <1>5, Zenon DEF AckedUpTo

(* What the field holds at first is older than the first numbers. *)
ZeroIsOld == InitTsn \in 1 .. TsnMod - 2 * WrapRad

(* The zero that last_acked_tsn begins with is older than the first TSNs. *)
LEMMA FirstNumbers ==
    ASSUME ZeroIsOld, NEW k \in 0 .. WrapRad - 1
    PROVE  TsnLT(0, Ahead(InitTsn, k)) /\ Ahead(InitTsn, k) # 0
BY TsnAssumption DEF ZeroIsOld, TsnLT, Ahead, WRAP_LO, WRAP_HI

(* A SACK pops the chunks up to its cumulative TSN, and no others. *)
LEMMA PoppedUpTo ==
    ASSUME TypeOK, Waiting \in Nat, Waiting <= WrapRad, DOMAIN resend_queue = 1 .. Waiting,
           Consecutive, NEW sack, sack.cum_tsn \in Tsn,
           NEW m \in 1 .. (Waiting + 1), tsn_counter = Ahead(sack.cum_tsn, m),
           NEW k \in 0 .. Waiting, IsAckedPrefix(k, sack)
    PROVE  k = Waiting - m + 1
<1>1. Waiting \in Int /\ m \in Int /\ k \in Int /\ WrapRad \in Int
  BY TsnAssumption
<1>2. ASSUME NEW i \in 1 .. Waiting
      PROVE  /\ i <= Waiting - m + 1 => TsnLE(Sent(i).tsn, sack.cum_tsn)
             /\ i > Waiting - m + 1 => ~ TsnLE(Sent(i).tsn, sack.cum_tsn)
  <2> DEFINE d == Waiting - i + 1
             t == Sent(i).tsn
             u == sack.cum_tsn
  <2>1. t \in Tsn /\ u \in Tsn /\ Ahead(t, d) = Ahead(u, m)
    BY SentTsn, Zenon DEF Consecutive
  <2>2. d \in 0 .. (WrapRad + 1) /\ m \in 0 .. (WrapRad + 1) /\ d \in Int
    BY <1>1
  <2>3. /\ d = m => t = u
        /\ m < d /\ d - m <= WrapRad => ~ TsnLT(u, t)
        /\ d < m /\ m - d <= WrapRad => TsnLT(u, t)
    <3> HIDE DEF d, t, u
    <3>1. QED  BY <2>1, <2>2, AheadOrder, Zenon
  <2>4. t = u => ~ TsnLT(u, t)
    BY <2>1, TsnAssumption DEF TsnLT, WRAP_HI, WRAP_LO, Tsn
  <2>5. CASE i <= Waiting - m + 1
    <3>1. d = m \/ (m < d /\ d - m <= WrapRad)
      BY <1>1, <2>5
    <3>2. QED  BY <1>1, <2>3, <2>4, <2>5, <3>1 DEF TsnLE, TsnGT
  <2>6. CASE i > Waiting - m + 1
    <3>1. d < m /\ m - d <= WrapRad
      BY <1>1, <2>6
    <3>2. QED  BY <1>1, <2>3, <2>6, <3>1 DEF TsnLE, TsnGT
  <2>7. QED  BY <1>1, <2>5, <2>6, Zenon
<1>3. k <= Waiting - m + 1
  <2>1. CASE k = 0
    BY <1>1, <2>1
  <2>2. CASE k > 0
    <3>1. k \in 1 .. k /\ k \in 1 .. Waiting
      BY <1>1, <2>2
    <3>2. TsnLE(Sent(k).tsn, sack.cum_tsn)
      BY <3>1, Zenon DEF IsAckedPrefix, Sent
    <3>3. QED  BY <1>1, <1>2, <3>1, <3>2
  <2>3. QED  BY <1>1, <2>1, <2>2
<1>4. k >= Waiting - m + 1
  <2>1. CASE k = Waiting
    BY <1>1, <2>1
  <2>2. CASE k < Waiting
    <3>1. k + 1 \in 1 .. Waiting
      BY <1>1, <2>2
    <3>2. ~ TsnLE(Sent(k + 1).tsn, sack.cum_tsn)
      BY <2>2, Zenon DEF IsAckedPrefix, Sent, Waiting
    <3>3. QED  BY <1>1, <1>2, <3>1, <3>2
  <2>3. QED  BY <1>1, <2>1, <2>2
<1>5. QED  BY <1>1, <1>3, <1>4

(* How far a SACK that is not ignored is behind the next number. *)
LEMMA SackDistance ==
    ASSUME Inv, Positive, OutBufferLimit <= WrapRad, ZeroIsOld, AckedUpTo,
           NEW sack \in PeerSacks, TsnLT(last_acked_tsn, sack.cum_tsn)
    PROVE  \E m \in 1 .. (Waiting + 1) : tsn_counter = Ahead(sack.cum_tsn, m)
<1>1. /\ Waiting \in Nat /\ Waiting <= WrapRad /\ DOMAIN resend_queue = 1 .. Waiting
      /\ WrapRad \in Nat
  BY FewWaiting, TsnAssumption, TxAssumption
<1>2. /\ last_acked_tsn \in Tsn /\ InitTsn \in Tsn /\ tsn_counter \in Tsn
      /\ \A c \in wire : c.tsn \in Tsn
  BY TxAssumption, Zenon DEF Inv, TypeOK, DataChunk
<1>3. PICK m \in 1 .. WrapRad : Ahead(sack.cum_tsn, m) = tsn_counter
  BY Zenon DEF PeerSacks, PeerCumTsns
<1>4. sack.cum_tsn = decrease(InitTsn) \/ \E c \in wire : sack.cum_tsn = c.tsn
  BY Zenon DEF PeerSacks, PeerCumTsns
<1>5. sack.cum_tsn \in Tsn
  BY <1>2, <1>4, IncreaseDecreaseType, Zenon
<1>6. CASE FromLast
  <2>1. tsn_counter = Ahead(last_acked_tsn, Waiting + 1)
    BY <1>6, Zenon DEF FromLast
  <2>2. Waiting + 1 \in 0 .. (WrapRad + 1) /\ m \in 0 .. (WrapRad + 1)
    BY <1>1
  <2>3. ~ (m > Waiting + 1)
    <3> SUFFICES ASSUME m > Waiting + 1
                 PROVE  FALSE
        BY Zenon
    <3>1. Waiting + 1 < m /\ m - (Waiting + 1) <= WrapRad
      BY <1>1
    <3>2. QED  BY <1>2, <1>3, <1>5, <2>1, <2>2, <3>1, AheadOrder, Zenon
  <2>4. m \in 1 .. (Waiting + 1)
    BY <1>1, <2>3
  <2>5. QED  BY <1>3, <2>4, Zenon
<1>7. CASE NothingAcked
  <2>1. tsn_counter = Ahead(InitTsn, Waiting)
    BY <1>7, Zenon DEF NothingAcked
  <2>2. CASE sack.cum_tsn = decrease(InitTsn)
    <3>1. Ahead(decrease(InitTsn), Waiting + 1) = Ahead(InitTsn, Waiting)
      BY <1>1, <1>2, TsnAssumption DEF decrease, Ahead, Tsn
    <3>2. Waiting + 1 \in 1 .. (Waiting + 1)
      BY <1>1
    <3>3. QED  BY <2>1, <2>2, <3>1, <3>2, Zenon
  <2>3. CASE \E c \in wire : sack.cum_tsn = c.tsn
    <3>1. PICK i \in DOMAIN resend_queue : sack.cum_tsn = Sent(i).tsn
      BY <1>7, <2>3, Zenon DEF NothingAcked
    <3>2. tsn_counter = Ahead(sack.cum_tsn, Waiting - i + 1)
      BY <3>1, Zenon DEF AckedUpTo, Consecutive
    <3>3. Waiting - i + 1 \in 1 .. (Waiting + 1)
      BY <1>1
    <3>4. QED  BY <3>2, <3>3, Zenon
  <2>4. QED  BY <1>4, <2>2, <2>3, Zenon
<1>8. QED  BY <1>6, <1>7, Zenon DEF AckedUpTo

(* A SACK that advances leaves the chunks after its cumulative TSN. *)
LEMMA AckedUpToAdvance ==
    ASSUME Inv, TypeOK', Positive, OutBufferLimit <= WrapRad, ZeroIsOld, AckedUpTo,
           NEW sack \in PeerSacks, SackAdvance(sack), UNCHANGED tsn_counter
    PROVE  AckedUpTo'
<1>1. /\ Waiting \in Nat /\ Waiting <= WrapRad /\ DOMAIN resend_queue = 1 .. Waiting
      /\ WrapRad \in Nat
  BY FewWaiting, TsnAssumption, TxAssumption
<1>2. sack.cum_tsn \in Tsn
  <2>1. InitTsn \in Tsn /\ \A c \in wire : c.tsn \in Tsn
    BY TxAssumption, Zenon DEF Inv, TypeOK, DataChunk
  <2>2. QED  BY <2>1, IncreaseDecreaseType, Zenon DEF PeerSacks, PeerCumTsns
<1>3. PICK m \in 1 .. (Waiting + 1) : tsn_counter = Ahead(sack.cum_tsn, m)
  BY SackDistance, Zenon DEF SackAdvance
<1>4. PICK k \in 0 .. Waiting : /\ IsAckedPrefix(k, sack)
                                /\ resend_queue' = MarkByGapBlocks(Unacked(k), sack)
  BY Zenon DEF SackAdvance, Waiting
<1>5. k = Waiting - m + 1
  BY <1>1, <1>2, <1>3, <1>4, PoppedUpTo, Zenon DEF AckedUpTo, Inv
<1>6. Popped(k)
  BY <1>4, SackAdvanceEffect, Zenon DEF Waiting
<1>7. Waiting' = Waiting - k /\ Waiting' = m - 1
  <2>1. /\ resend_queue' \in Seq(ResendEntry) /\ Waiting - k \in Nat
        /\ DOMAIN resend_queue' = 1 .. (Waiting - k)
    BY <1>1, <1>6 DEF Popped, TypeOK, Waiting
  <2>2. Waiting' = Waiting - k
    BY <2>1, LenOfDomain, Zenon DEF Waiting
  <2>3. QED  BY <1>1, <1>5, <2>2
<1>8. Consecutive'
  <2> SUFFICES ASSUME NEW i \in DOMAIN resend_queue'
               PROVE  tsn_counter = Ahead(resend_queue'[i].data.tsn, Waiting' - i + 1)
      BY Zenon DEF Consecutive, Sent
  <2>1. k + i \in 1 .. Waiting /\ resend_queue'[i].data = Sent(k + i) /\ i \in Int
    BY <1>1, <1>6 DEF Popped, Sent, Waiting
  <2>2. tsn_counter = Ahead(Sent(k + i).tsn, Waiting - (k + i) + 1)
    BY <1>1, <2>1, Zenon DEF AckedUpTo, Consecutive
  <2>3. Waiting - (k + i) + 1 = Waiting' - i + 1
    BY <1>1, <1>7, <2>1
  <2>4. QED  BY <2>1, <2>2, <2>3, Zenon
<1>9. FromLast'
  <2>1. last_acked_tsn' = sack.cum_tsn
    BY Zenon DEF SackAdvance
  <2>2. Waiting' + 1 = m
    BY <1>1, <1>7
  <2>3. QED  BY <1>3, <2>1, <2>2, Zenon DEF FromLast
<1>10. QED  BY <1>8, <1>9, Zenon DEF AckedUpTo

-----------------------------------------------------------------------------
(* What a step can do to the numbered chunks. *)

(* The first byte that has not been sent. *)
Front == IF out_queue = <<>> THEN accepted ELSE out_queue[1].lo

Keeps ==
    /\ UNCHANGED <<out_queue, accepted, tsn_counter, wire, last_acked_tsn>>
    /\ DOMAIN resend_queue' = DOMAIN resend_queue
    /\ \A i \in DOMAIN resend_queue : resend_queue'[i].data = resend_queue[i].data

Accepts == \E len \in Lens, stream \in Streams, unordered \in Orderings :
               TrySendData(len, stream, unordered)

(* The packet is the front of out_queue, or the rest of that stays there. *)
Splits(packet) ==
    /\ packet.hi <= out_queue[1].hi /\ (packet.end => packet.hi = out_queue[1].hi)
    /\ \A i \in DOMAIN out_queue' :
         \/ \E j \in DOMAIN out_queue : out_queue'[i] = out_queue[j]
         \/ /\ packet.hi < out_queue[1].hi
            /\ out_queue'[i].lo = packet.hi /\ out_queue'[i].hi = out_queue[1].hi
            /\ out_queue'[i].begin = FALSE /\ out_queue'[i].stream_id = packet.stream_id
            /\ out_queue'[i].unordered = packet.unordered

Sends(packet) ==
    /\ out_queue # <<>> /\ SentFrom(packet, out_queue[1]) /\ Appended(packet)
    /\ packet.lo = Front /\ packet.lo < packet.hi /\ Front' = packet.hi
    /\ Splits(packet)
    /\ UNCHANGED last_acked_tsn

Acknowledges(sack) ==
    SackAdvance(sack) /\ UNCHANGED <<out_queue, accepted, tsn_counter, wire>>

(* poll_data_to_send retransmits, or sends the next bytes. *)
LEMMA PollKinds ==
    ASSUME Inv, Chain, Positive, NEW data_limit \in DataLimits, NEW already_packed \in Packed,
           PollDataToSend(data_limit, already_packed)
    PROVE  Keeps \/ \E packet : Sends(packet)
<1>0. TypeOK
  BY Zenon DEF Inv
<1>1. PICK room \in Nat : \/ PollLossRecovery(room) \/ PollFastRecovery(room)
                          \/ PollWhole(room) \/ PollFragment(room)
  BY PollRoom, Zenon
<1>2. UNCHANGED last_acked_tsn
  BY Zenon DEF PollDataToSend
<1>3. CASE PollLossRecovery(room) \/ PollFastRecovery(room)
  <2>1. /\ UNCHANGED <<out_queue, accepted, tsn_counter>>
        /\ DOMAIN resend_queue' = DOMAIN resend_queue
        /\ \A j \in DOMAIN resend_queue : resend_queue'[j].data = resend_queue[j].data
        /\ \E i \in DOMAIN resend_queue : wire' = wire \cup {Sent(i)}
    BY <1>0, <1>3, RetransmitEffect, ZenonT(30)
  <2>2. wire' = wire
    BY <2>1, Zenon DEF Chain, SentBefore
  <2>3. QED  BY <1>2, <2>1, <2>2, Zenon DEF Keeps
<1>4. CASE PollWhole(room)
  <2>1. /\ out_queue # <<>> /\ Len(out_queue') = Len(out_queue) - 1
        /\ DOMAIN out_queue' = 1 .. (Len(out_queue) - 1)
        /\ \A i \in 1 .. (Len(out_queue) - 1) : out_queue'[i] = out_queue[i + 1]
    BY <1>0, <1>4, PollWholeEffect, Zenon
  <2>2. PICK packet : /\ SentFrom(packet, out_queue[1]) /\ Appended(packet)
                      /\ packet.hi = out_queue[1].hi /\ packet.end = TRUE
    BY <1>0, <1>4, PollWholeEffect, ZenonT(30)
  <2>3. /\ Len(out_queue) \in Nat /\ Len(out_queue) >= 1
        /\ DOMAIN out_queue = 1 .. Len(out_queue) /\ 1 \in DOMAIN out_queue
    BY <1>0, <2>1, FrontType
  <2>4. packet.lo < packet.hi /\ packet.lo = Front
    BY <2>1, <2>2, <2>3, Zenon DEF Positive, SentFrom, Front
  <2>5. Front' = packet.hi
    <3>1. CASE Len(out_queue) = 1
      <4>1. DOMAIN out_queue' = {}
        BY <2>1, <3>1
      <4>2. out_queue' = <<>>
        BY <4>1, <1>4, <2>3, <3>1 DEF PollWhole
      <4>3. out_queue[1].hi = accepted /\ accepted' = accepted
        BY <2>1, <2>2, <3>1, Zenon DEF Chain, QueueChain, Appended
      <4>4. QED  BY <2>2, <4>2, <4>3, Zenon DEF Front
    <3>2. CASE Len(out_queue) # 1
      <4>1. 1 \in 1 .. (Len(out_queue) - 1) /\ 2 \in DOMAIN out_queue /\ 2 - 1 = 1
        BY <2>3, <3>2
      <4>2. out_queue' # <<>> /\ out_queue'[1] = out_queue[2]
        BY <2>1, <4>1
      <4>3. Continues(out_queue[1], out_queue[2])
        <5>1. \A i \in DOMAIN out_queue : i > 1 => Continues(out_queue[i - 1], out_queue[i])
          BY Zenon DEF Chain, QueueChain
        <5>2. 2 > 1 => Continues(out_queue[2 - 1], out_queue[2])
          BY <4>1, <5>1, ZenonT(30)
        <5>3. QED  BY <5>2
      <4>4. QED  BY <2>2, <4>2, <4>3, Zenon DEF Front, Continues
    <3>3. QED  BY <3>1, <3>2, Zenon
  <2>6. Splits(packet)
    <3>1. \A i \in DOMAIN out_queue' : i + 1 \in DOMAIN out_queue
      BY <2>1, <2>3
    <3>2. \A i \in DOMAIN out_queue' : \E j \in DOMAIN out_queue : out_queue'[i] = out_queue[j]
      BY <2>1, <3>1, Zenon
    <3>3. packet.hi <= out_queue[1].hi
      BY <1>0, <2>1, <2>2, FrontType
    <3>4. QED  BY <2>2, <3>2, <3>3, Zenon DEF Splits
  <2>7. QED  BY <1>2, <2>1, <2>2, <2>4, <2>5, <2>6, Zenon DEF Sends
<1>5. CASE PollFragment(room)
  <2>1. /\ out_queue # <<>> /\ DOMAIN out_queue' = DOMAIN out_queue
        /\ \A i \in DOMAIN out_queue \ {1} : out_queue'[i] = out_queue[i]
    BY <1>0, <1>5, PollFragmentEffect, ZenonT(30)
  <2>2. PICK packet : /\ SentFrom(packet, out_queue[1]) /\ Appended(packet)
                      /\ packet.end = FALSE
                      /\ packet.lo < packet.hi /\ packet.hi < out_queue[1].hi
                      /\ Continues(packet, out_queue'[1])
                      /\ out_queue'[1].hi = out_queue[1].hi
    BY <1>0, <1>5, PollFragmentEffect, ZenonT(30)
  <2>3. 1 \in DOMAIN out_queue
    BY <1>0, <2>1, FrontType
  <2>4. out_queue' # <<>>
    BY <2>1, <2>3
  <2>5. packet.lo = Front /\ Front' = packet.hi
    BY <2>1, <2>2, <2>4, Zenon DEF Front, SentFrom, Continues
  <2>6. Splits(packet)
    <3>1. /\ out_queue'[1].lo = packet.hi /\ out_queue'[1].begin = FALSE
          /\ out_queue'[1].stream_id = packet.stream_id
          /\ out_queue'[1].unordered = packet.unordered
      BY <2>2, Zenon DEF Continues
    <3>2. packet.hi <= out_queue[1].hi
      BY <1>0, <2>1, <2>2, FrontType DEF SentFrom, DataChunk
    <3>3. QED  BY <2>1, <2>2, <3>1, <3>2, Zenon DEF Splits
  <2>7. QED  BY <1>2, <2>1, <2>2, <2>5, <2>6 DEF Sends
<1>6. QED  BY <1>1, <1>3, <1>4, <1>5, Zenon

(* A step sends a new chunk, accepts a message, acknowledges, or changes no number. *)
LEMMA StepKinds ==
    ASSUME Inv, Chain, Positive, [Next]_vars
    PROVE  \/ Keeps \/ Accepts \/ \E packet : Sends(packet)
           \/ \E sack \in PeerSacks : Acknowledges(sack)
<1>1. ASSUME NEW data_limit \in DataLimits, NEW already_packed \in Packed,
             PollDataToSend(data_limit, already_packed)
      PROVE  Keeps \/ \E packet : Sends(packet)
  BY <1>1, PollKinds, Zenon
<1>2. ASSUME NEW sack \in PeerSacks, HandleSack(sack)
      PROVE  Keeps \/ Acknowledges(sack)
  <2>1. UNCHANGED <<out_queue, accepted, tsn_counter, wire>>
    BY <1>2, Zenon DEF HandleSack
  <2>2. CASE SackDuplicate(sack)
    <3>1. Popped(0) /\ DOMAIN resend_queue' = DOMAIN resend_queue /\ UNCHANGED last_acked_tsn
      BY <2>2, SackDuplicateEffect, Zenon DEF SackDuplicate
    <3>2. \A i \in DOMAIN resend_queue : 0 + i = i
      BY DEF Inv, TypeOK
    <3>3. QED  BY <2>1, <3>1, <3>2, Zenon DEF Keeps, Popped
  <2>3. QED  BY <1>2, <2>1, <2>2, Zenon DEF HandleSack, Acknowledges
<1>3. ASSUME NEW late \in Late, HandleRtoTimeout(late)
      PROVE  Keeps
  <2>1. UNCHANGED <<out_queue, accepted, tsn_counter, wire, last_acked_tsn>>
    BY <1>3, Zenon DEF HandleRtoTimeout
  <2>2. QED  BY <1>3, <2>1, RtoTimeoutEffect, Zenon DEF Keeps, Inv
<1>4. ASSUME UNCHANGED <<out_queue, accepted, tsn_counter, wire, last_acked_tsn, resend_queue>>
      PROVE  Keeps
  BY <1>4, Zenon DEF Keeps
<1>5. ASSUME NEW size \in probed, ProcessHeartbeatAck(size)
      PROVE  Keeps
  BY <1>4, <1>5, Zenon DEF ProcessHeartbeatAck
<1>6. CASE SignalNext
  BY <1>4, <1>6, ZenonT(30) DEF dataVars, SignalNext, NotifySendSack, NotifyAbort, NotifyShutdown,
         InitiateShutdown, NotifyPeerShutdown, NotifyPeerShutdownAck, NotifyPeerShutdownComplete,
         PollSignalToSend, HandleShutdownRtoTimeout, HandleHeartbeatTimeout
<1>7. CASE UNCHANGED vars
  BY <1>4, <1>7, Zenon DEF vars, dataVars
<1>8. QED  BY <1>1, <1>2, <1>3, <1>5, <1>6, <1>7, Zenon DEF Next, SignalNext, Accepts

-----------------------------------------------------------------------------
(* Every chunk that waits is newer than what has been acknowledged. *)

(* Every step keeps AckedUpTo. *)
LEMMA AckedUpToStep ==
    ASSUME OutBufferLimit <= WrapRad, ZeroIsOld,
           Inv, TypeOK', Chain, Positive, AckedUpTo, [Next]_vars
    PROVE  AckedUpTo'
<1>1. CASE Keeps
  BY <1>1, AckedUpToSame, Zenon DEF Keeps
<1>2. CASE Accepts
  <2>1. UNCHANGED <<tsn_counter, last_acked_tsn, wire, resend_queue>>
    BY <1>2, Zenon DEF Accepts, TrySendData
  <2>2. QED  BY <2>1, AckedUpToSame, Zenon
<1>3. ASSUME NEW packet, Sends(packet)
      PROVE  AckedUpTo'
  BY <1>3, AckedUpToAppended, Zenon DEF Sends, SentFrom
<1>4. ASSUME NEW sack \in PeerSacks, Acknowledges(sack)
      PROVE  AckedUpTo'
  BY <1>4, AckedUpToAdvance, Zenon DEF Acknowledges
<1>5. QED  BY <1>1, <1>2, <1>3, <1>4, StepKinds, Zenon

(* What is outstanding is newer than what is acknowledged. *)
LEMMA WaitingIsNew ==
    ASSUME OutBufferLimit <= WrapRad, ZeroIsOld, Inv, Positive, AckedUpTo
    PROVE  OutstandingIsNew
<1> SUFFICES ASSUME NEW i \in DOMAIN resend_queue
             PROVE  TsnLT(last_acked_tsn, Sent(i).tsn)
    BY Zenon DEF OutstandingIsNew, Sent
<1>1. /\ Waiting \in Nat /\ Waiting <= WrapRad /\ i \in 1 .. Waiting /\ WrapRad \in Nat
  BY FewWaiting, TsnAssumption, TxAssumption
<1>2. Sent(i).tsn \in Tsn /\ last_acked_tsn \in Tsn /\ InitTsn \in Tsn
  BY SentTsn, TxAssumption, Zenon DEF Inv, TypeOK
<1>3. tsn_counter = Ahead(Sent(i).tsn, Waiting - i + 1)
  BY Zenon DEF AckedUpTo, Consecutive
<1> DEFINE d == Waiting - i + 1
<1>4. d \in 0 .. (WrapRad + 1) /\ d <= Waiting /\ d >= 1 /\ d \in Int
  BY <1>1
<1>5. CASE FromLast
  <2>1. Ahead(last_acked_tsn, Waiting + 1) = Ahead(Sent(i).tsn, d)
    BY <1>3, <1>5, Zenon DEF FromLast
  <2>2. Waiting + 1 \in 0 .. (WrapRad + 1) /\ d < Waiting + 1 /\ (Waiting + 1) - d <= WrapRad
    BY <1>1, <1>4
  <2> HIDE DEF d
  <2>3. QED  BY <1>2, <1>4, <2>1, <2>2, AheadOrder, Zenon
<1>6. CASE NothingAcked
  <2>1. Ahead(InitTsn, Waiting) = Ahead(Sent(i).tsn, d) /\ last_acked_tsn = 0
    BY <1>3, <1>6, Zenon DEF NothingAcked
  <2>2. Waiting - d \in 0 .. WrapRad - 1
    BY <1>1
  <2>3. Sent(i).tsn = Ahead(InitTsn, Waiting - d)
    <3> HIDE DEF d
    <3>1. QED  BY <1>1, <1>2, <1>4, <2>1, TsnAssumption DEF Ahead, Tsn
  <2> HIDE DEF d
  <2>4. QED  BY <2>1, <2>2, <2>3, FirstNumbers, Zenon
<1>7. QED  BY <1>5, <1>6, Zenon DEF AckedUpTo

(* Before anything has been sent. *)
LEMMA InitNumbers == Init => Inv /\ Chain /\ Positive /\ AckedUpTo
<1> SUFFICES ASSUME Init
             PROVE  Inv /\ Chain /\ Positive /\ AckedUpTo
    BY Zenon
<1>1. Inv
  BY InitInv, Zenon
<1>2. /\ wire = {} /\ out_queue = <<>> /\ resend_queue = <<>>
      /\ DOMAIN out_queue = {} /\ DOMAIN resend_queue = {}
  BY DEF Init
<1>3. Chain
  BY <1>2, Zenon DEF Chain, FragmentsChain, QueueChain, SentBefore
<1>4. Positive
  BY <1>2, Zenon DEF Positive
<1>5. AckedUpTo
  <2>1. Waiting = 0 /\ tsn_counter = InitTsn /\ last_acked_tsn = 0
    BY <1>2, Zenon DEF Init, Waiting
  <2>2. Ahead(InitTsn, 0) = InitTsn
    BY TxAssumption, TsnAssumption DEF Ahead, Tsn
  <2>3. NothingAcked
    BY <1>2, <2>1, <2>2, ZenonT(30) DEF NothingAcked
  <2>4. Consecutive
    BY <1>2, Zenon DEF Consecutive
  <2>5. QED  BY <2>3, <2>4, Zenon DEF AckedUpTo
<1>6. QED  BY <1>1, <1>3, <1>4, <1>5, Zenon

(***************************************************************************)
(* handle_sack takes a cumulative TSN behind last_acked_tsn for that of a  *)
(* reordered SACK.  It is right to: while the send buffer holds no more    *)
(* bytes than Tsn::cmp orders numbers, every chunk in resend_queue is      *)
(* newer than last_acked_tsn, whichever SACKs were lost, repeated or       *)
(* reordered and wherever the numbers wrap.  The initial TSN must be one   *)
(* that the zero with which new fills the field is older than; for the     *)
(* others tx_initial_tsn.cfg shows that the property fails.                *)
(***************************************************************************)
THEOREM TxOutstandingIsNew ==
    ASSUME 0 \notin Lens, OutBufferLimit <= WrapRad, InitTsn \in 1 .. TsnMod - 2 * WrapRad
    PROVE  Spec => []OutstandingIsNew
<1> DEFINE J == Inv /\ Chain /\ Positive /\ AckedUpTo
<1>1. ZeroIsOld
  BY Zenon DEF ZeroIsOld
<1>2. Init => J
  BY InitNumbers, Zenon
<1>3. J /\ [Next]_vars => J'
  <2> SUFFICES ASSUME J, [Next]_vars
               PROVE  J'
      BY Zenon
  <2>1. Inv'
    BY NextInv, Zenon
  <2>2. Chain' /\ Positive'
    BY ChainStep, PositiveStep, Zenon
  <2>3. AckedUpTo'
    BY <1>1, <2>1, AckedUpToStep, Zenon DEF Inv
  <2>4. QED  BY <2>1, <2>2, <2>3, Zenon
<1>4. J => OutstandingIsNew
  BY <1>1, WaitingIsNew, Zenon
<1>5. QED  BY <1>2, <1>3, <1>4, PTL DEF Spec

-----------------------------------------------------------------------------
(***************************************************************************)
(* Every number is given away once.  Counted from the initial TSN, the     *)
(* chunks on the wire have the numbers below Count, which is at most the   *)
(* number of bytes sent, in the order of their bytes.                      *)
(***************************************************************************)
Number(c) == WrappingSub(c.tsn, InitTsn)
Count == WrappingSub(tsn_counter, InitTsn)

Numbered ==
    /\ Count <= Front /\ accepted <= MaxBytes
    /\ \A c \in wire : c.lo < c.hi /\ Number(c) < Count /\ c.hi <= Front
    /\ \A c, d \in wire : Number(c) < Number(d) => c.hi <= d.lo
    /\ \A c, d \in wire : Number(c) = Number(d) => c = d

(* No number below Count is left out, and the first one begins a message. *)
Begun ==
    /\ \A n \in 0 .. Count - 1 : \E c \in wire : Number(c) = n
    /\ \A c \in wire : Number(c) = 0 => c.begin = TRUE
    /\ Count = 0 /\ out_queue # <<>> => out_queue[1].begin = TRUE

FrontOK == Front \in Nat /\ Front <= accepted

(* The front of the out queue ends within the accepted bytes. *)
LEMMA FrontBound == Inv => FrontOK
<1> SUFFICES ASSUME Inv
             PROVE  FrontOK
    BY Zenon
<1>1. accepted \in Nat /\ TypeOK
  BY Zenon DEF Inv, TypeOK
<1>2. CASE out_queue = <<>>
  BY <1>1, <1>2 DEF FrontOK, Front
<1>3. CASE out_queue # <<>>
  <2>1. 1 \in DOMAIN out_queue /\ out_queue[1].lo \in Nat /\ out_queue[1].hi \in Nat
    BY <1>1, <1>3, FrontType
  <2>2. out_queue[1].lo <= out_queue[1].hi /\ out_queue[1].hi <= accepted
    BY <2>1, Zenon DEF Inv, Layout
  <2>3. Front = out_queue[1].lo
    BY <1>3, Zenon DEF Front
  <2>4. QED  BY <1>1, <2>1, <2>2, <2>3 DEF FrontOK
<1>4. QED  BY <1>2, <1>3, Zenon

(* The same after a step. *)
LEMMA FrontBoundNext == (Inv => FrontOK)'
BY FrontBound, PTL

(* The chunks on the wire have numbers and places. *)
LEMMA NumberType ==
    ASSUME TypeOK
    PROVE  /\ Count \in Nat
           /\ \A c \in wire : /\ c.tsn \in Tsn /\ Number(c) \in Nat
                              /\ c.lo \in Nat /\ c.hi \in Nat /\ c.begin \in BOOLEAN
<1>1. tsn_counter \in Tsn /\ InitTsn \in Tsn
  BY TxAssumption, Zenon DEF TypeOK
<1>2. \A c \in wire : /\ c.tsn \in Tsn /\ c.lo \in Nat /\ c.hi \in Nat
                      /\ c.begin \in BOOLEAN
  BY Zenon DEF TypeOK, DataChunk
<1>3. Tsn \subseteq Nat /\ InitTsn \in Int
  BY <1>1, TsnAssumption DEF Tsn
<1>4. \A t \in Tsn : WrappingSub(t, InitTsn) \in Nat
  BY <1>3, WrappingType, Zenon
<1>5. QED  BY <1>1, <1>2, <1>4, Zenon DEF Count, Number

(* The number after a number, where there is one. *)
LEMMA NextNumber ==
    ASSUME NEW t \in Tsn, WrappingSub(t, InitTsn) + 1 < TsnMod
    PROVE  WrappingSub(increase(t), InitTsn) = WrappingSub(t, InitTsn) + 1
<1>1. InitTsn \in Tsn /\ increase(t) \in Tsn
  BY TxAssumption, IncreaseDecreaseType, Zenon
<1>2. WrappingSub(t, InitTsn) = IF InitTsn <= t THEN t - InitTsn ELSE t - InitTsn + TsnMod
  BY <1>1, WrappingSubIs, Zenon
<1>3. WrappingSub(increase(t), InitTsn)
        = IF InitTsn <= increase(t) THEN increase(t) - InitTsn ELSE increase(t) - InitTsn + TsnMod
  BY <1>1, WrappingSubIs, Zenon
<1>4. QED  BY <1>1, <1>2, <1>3, TsnAssumption DEF increase, Tsn

(* A step that leaves the numbered chunks alone. *)
LEMMA NumberedSame ==
    ASSUME Numbered, Begun, UNCHANGED <<tsn_counter, wire>>, Front' = Front,
           accepted' <= MaxBytes, Count = 0 /\ out_queue' # <<>> => out_queue'[1].begin = TRUE
    PROVE  Numbered' /\ Begun'
<1>1. Count' = Count /\ \A c : Number(c)' = Number(c)
  BY Zenon DEF Count, Number
<1>2. Numbered'
  BY <1>1, Zenon DEF Numbered, Number
<1>3. Begun'
  BY <1>1, Zenon DEF Begun, Number
<1>4. QED  BY <1>2, <1>3, Zenon

(* Accepting a message sends nothing. *)
LEMMA NumberedAccepts ==
    ASSUME Inv, Numbered, Begun, Accepts
    PROVE  Numbered' /\ Begun'
<1>1. PICK len \in Lens, stream \in Streams, unordered \in Orderings :
              TrySendData(len, stream, unordered)
  BY Zenon DEF Accepts
<1> DEFINE new == [tsn |-> 0, stream_id |-> stream, stream_seq_num |-> per_stream[stream],
                   lo |-> accepted, hi |-> accepted + len, unordered |-> unordered,
                   begin |-> TRUE, end |-> TRUE]
<1>2. /\ out_queue \in Seq(DataChunk) /\ out_queue' = Append(out_queue, new)
      /\ UNCHANGED <<tsn_counter, wire>> /\ accepted' <= MaxBytes
  BY <1>1, Zenon DEF Inv, TypeOK, TrySendData
<1>3. new.lo = accepted /\ new.begin = TRUE
  BY Zenon
<1> HIDE DEF new
<1>4. out_queue' # <<>> /\ IF out_queue = <<>> THEN out_queue'[1] = new
                           ELSE out_queue'[1] = out_queue[1]
  BY <1>2
<1>5. Front' = Front
  BY <1>3, <1>4, Zenon DEF Front
<1>6. Count = 0 => out_queue'[1].begin = TRUE
  BY <1>3, <1>4, Zenon DEF Begun
<1>7. QED  BY <1>2, <1>5, <1>6, NumberedSame, ZenonT(30)

(* There is a number that no chunk has. *)
NumberLeft == MaxBytes < TsnMod \/ Count + 1 < TsnMod

(* The next chunk has the next number and the next bytes. *)
LEMMA NumberedSends ==
    ASSUME NumberLeft, Inv, Inv', Numbered, Begun, NEW packet, Sends(packet)
    PROVE  Numbered' /\ Begun'
<1>1. /\ packet.tsn = tsn_counter /\ packet.lo = Front /\ packet.lo < packet.hi
      /\ Front' = packet.hi /\ wire' = wire \cup {packet} /\ accepted' = accepted
      /\ tsn_counter' = increase(tsn_counter) /\ packet \in DataChunk
      /\ packet.begin = out_queue[1].begin /\ out_queue # <<>>
  BY Zenon DEF Sends, SentFrom, Appended
<1>2. /\ packet.lo \in Nat /\ packet.hi \in Nat /\ tsn_counter \in Tsn /\ TsnMod \in Nat
      /\ MaxBytes \in Nat /\ accepted \in Nat /\ Count \in Nat
  <2>1. packet.lo \in Nat /\ packet.hi \in Nat
    BY <1>1, Zenon DEF DataChunk
  <2>2. tsn_counter \in Tsn /\ accepted \in Nat /\ Count \in Nat
    BY NumberType, Zenon DEF Inv, TypeOK
  <2>3. QED  BY <2>1, <2>2, TsnAssumption, TxAssumption, Zenon
<1>3. \A c \in wire : Number(c) \in Nat /\ c.lo \in Nat /\ c.hi \in Nat
  BY NumberType, Zenon DEF Inv
<1>4. FrontOK'
  BY FrontBoundNext, Zenon
<1>5. Count + 1 <= packet.hi /\ packet.hi <= MaxBytes
  BY <1>1, <1>2, <1>4 DEF Numbered, FrontOK
<1>6. Count' = Count + 1
  <2>1. WrappingSub(tsn_counter, InitTsn) + 1 < TsnMod
    BY <1>2, <1>5 DEF Count, NumberLeft
  <2>2. QED  BY <1>1, <1>2, <2>1, NextNumber, Zenon DEF Count
<1>7. Number(packet) = Count
  BY <1>1, Zenon DEF Number, Count
<1>8. \A c \in wire : c.lo < c.hi /\ Number(c) < Count /\ c.hi <= packet.lo
  BY <1>1, Zenon DEF Numbered
<1>9. Numbered'
  <2>1. \A c \in wire' : c.lo < c.hi /\ Number(c) < Count + 1 /\ c.hi <= packet.hi
    BY <1>1, <1>2, <1>3, <1>7, <1>8
  <2>2. \A c, d \in wire' : Number(c) < Number(d) => c.hi <= d.lo
    <3>1. \A c, d \in wire : Number(c) < Number(d) => c.hi <= d.lo
      BY Zenon DEF Numbered
    <3>2. QED  BY <1>1, <1>2, <1>3, <1>7, <1>8, <3>1
  <2>3. \A c, d \in wire' : Number(c) = Number(d) => c = d
    <3>1. \A c, d \in wire : Number(c) = Number(d) => c = d
      BY Zenon DEF Numbered
    <3>2. QED  BY <1>1, <1>2, <1>3, <1>7, <1>8, <3>1
  <2>4. Count' <= Front' /\ accepted' <= MaxBytes
    BY <1>1, <1>5, <1>6, Zenon DEF Numbered
  <2>5. QED  BY <1>1, <1>6, <2>1, <2>2, <2>3, <2>4, Zenon DEF Numbered, Number
<1>10. Begun'
  <2>1. ASSUME NEW n \in 0 .. (Count + 1) - 1
        PROVE  \E c \in wire' : Number(c) = n
    <3>1. n \in 0 .. Count - 1 \/ n = Count
      BY <1>2
    <3>2. CASE n \in 0 .. Count - 1
      BY <1>1, <3>2, Zenon DEF Begun
    <3>3. QED  BY <1>1, <1>7, <3>1, <3>2, Zenon
  <2>2. \A c \in wire' : Number(c) = 0 => c.begin = TRUE
    BY <1>1, <1>7, Zenon DEF Begun
  <2>3. Count + 1 # 0
    BY <1>2
  <2>4. QED  BY <1>6, <2>1, <2>2, <2>3, Zenon DEF Begun, Number
<1>11. QED  BY <1>9, <1>10, Zenon

(* Every step keeps Numbered and Begun while there are TSNs left. *)
LEMMA NumberedStep ==
    ASSUME NumberLeft, Inv, Inv', Chain, Positive, Numbered, Begun, [Next]_vars
    PROVE  Numbered' /\ Begun'
<1>1. ASSUME UNCHANGED <<out_queue, accepted, tsn_counter, wire>>
      PROVE  Numbered' /\ Begun'
  <2>1. Front' = Front /\ accepted' <= MaxBytes
    BY <1>1, Zenon DEF Front, Numbered
  <2>2. Count = 0 /\ out_queue' # <<>> => out_queue'[1].begin = TRUE
    BY <1>1, Zenon DEF Begun
  <2>3. QED  BY <1>1, <2>1, <2>2, NumberedSame, ZenonT(30)
<1>2. CASE Keeps
  BY <1>1, <1>2, Zenon DEF Keeps
<1>3. ASSUME NEW sack \in PeerSacks, Acknowledges(sack)
      PROVE  Numbered' /\ Begun'
  BY <1>1, <1>3, Zenon DEF Acknowledges
<1>4. QED  BY <1>2, <1>3, StepKinds, NumberedAccepts, NumberedSends

(* What holds of the sending half, and is preserved by its steps. *)
Sender == Inv /\ Chain /\ Positive /\ Numbered /\ Begun

(* The sender begins with nothing sent. *)
LEMMA SenderInit == Init => Sender
<1> SUFFICES ASSUME Init
             PROVE  Sender
    OBVIOUS
<1>1. Inv /\ Chain /\ Positive
  BY InitNumbers, Zenon
<1>2. /\ wire = {} /\ out_queue = <<>> /\ accepted = 0 /\ tsn_counter = InitTsn
      /\ MaxBytes \in Nat
  BY TxAssumption, Zenon DEF Init
<1>3. Count = 0 /\ Front = 0
  <2>1. InitTsn \in Tsn
    BY TxAssumption, Zenon
  <2>2. QED  BY <1>2, <2>1, WrappingSubIs, TsnAssumption DEF Count, Front, Tsn
<1>4. Numbered
  BY <1>2, <1>3 DEF Numbered
<1>5. Begun
  BY <1>2, <1>3 DEF Begun
<1>6. QED  BY <1>1, <1>4, <1>5, Zenon DEF Sender

(* Every step keeps Sender while there are TSNs left. *)
LEMMA SenderStep ==
    ASSUME 0 \notin Lens, NumberLeft, Sender, [Next]_vars
    PROVE  Sender'
<1>1. Inv' /\ Chain' /\ Positive'
  BY NextInv, ChainStep, PositiveStep, Zenon DEF Sender
<1>2. Numbered' /\ Begun'
  BY <1>1, NumberedStep, Zenon DEF Sender
<1>3. QED  BY <1>1, <1>2, Zenon DEF Sender

(* If fewer bytes are accepted than there are TSNs, Sender is invariant. *)
LEMMA NumbersInvariant ==
    ASSUME 0 \notin Lens, MaxBytes < TsnMod
    PROVE  Spec => []Sender
<1>1. NumberLeft
  BY Zenon DEF NumberLeft
<1>2. Sender /\ [Next]_vars => Sender'
  BY <1>1, SenderStep, Zenon
<1>3. QED  BY <1>2, SenderInit, PTL DEF Spec

(***************************************************************************)
(* As long as fewer bytes have been accepted than there are TSNs, a TSN    *)
(* stands for one chunk: what is sent again, by the timer or by fast       *)
(* retransmission, is what was sent before, also after a change of the     *)
(* path MTU between the two transmissions.                                 *)
(***************************************************************************)
THEOREM TxOneChunkPerTsn ==
    ASSUME 0 \notin Lens, MaxBytes < TsnMod
    PROVE  Spec => []OneChunkPerTsn
<1>1. Sender => OneChunkPerTsn
  BY Zenon DEF Sender, Numbered, OneChunkPerTsn, Number
<1>2. QED  BY <1>1, NumbersInvariant, PTL
-----------------------------------------------------------------------------
(* What a receiver can rely on. *)

(* The chunk that follows c on the wire. *)
LEMMA Follower ==
    ASSUME Sender, Count < WrapRad, NEW c \in wire, NEW d \in wire, Number(d) = Number(c) + 1
    PROVE  Continues(c, d)
<1>1. /\ Count \in Nat /\ Number(c) \in Nat /\ Number(d) \in Nat
      /\ c.tsn \in Tsn /\ d.tsn \in Tsn
  BY NumberType, Zenon DEF Sender, Inv
<1>2. Number(d) < Count
  BY Zenon DEF Sender, Numbered
<1>3. WrappingSub(c.tsn, InitTsn) + 1 < TsnMod
  BY <1>1, <1>2, TsnAssumption DEF Number
<1>4. WrappingSub(increase(c.tsn), InitTsn) = Number(c) + 1
  BY <1>1, <1>3, NextNumber, Zenon DEF Number
<1>5. tsn_counter # increase(c.tsn)
  BY <1>1, <1>2, <1>4 DEF Count
<1>6. PICK f \in wire : f.tsn = increase(c.tsn) /\ Continues(c, f)
  BY <1>5, Zenon DEF Sender, Chain, FragmentsChain
<1>7. Number(f) = Number(d)
  BY <1>4, <1>6, Zenon DEF Number
<1>8. f = d
  BY <1>7, Zenon DEF Sender, Numbered
<1>9. QED  BY <1>6, <1>8, Zenon

(* The chunks on the wire, as a receiver needs them. *)
WireOrdered(P) ==
    /\ P \subseteq DataChunk
    /\ \A c \in P : c.lo < c.hi /\ Number(c) < WrapRad
    /\ \A c, d \in P : c = d \/ (c.tsn # d.tsn /\ (c.hi <= d.lo \/ d.hi <= c.lo))
    /\ \A c, d \in P : Number(c) < Number(d) => c.hi <= d.lo
    /\ \A d \in P :
         IF Number(d) = 0 THEN d.begin
         ELSE \E c \in P : /\ Number(c) = Number(d) - 1
                           /\ IF c.end THEN d.begin
                              ELSE /\ ~ d.begin /\ d.lo = c.hi
                                   /\ d.stream_id = c.stream_id
                                   /\ d.stream_seq_num = c.stream_seq_num
                                   /\ d.unordered = c.unordered

(* What has been sent is numbered in the order of its bytes. *)
LEMMA WireIsOrdered ==
    ASSUME Sender, Count < WrapRad
    PROVE  WireOrdered(wire)
<1>1. /\ wire \subseteq DataChunk /\ Count \in Nat
      /\ \A c \in wire : /\ Number(c) \in Nat /\ c.lo \in Nat /\ c.hi \in Nat
                         /\ c.begin \in BOOLEAN /\ c.end \in BOOLEAN
  BY NumberType, Zenon DEF Sender, Inv, TypeOK, DataChunk
<1>2. /\ \A c \in wire : c.lo < c.hi /\ Number(c) < Count
      /\ \A c, d \in wire : Number(c) < Number(d) => c.hi <= d.lo
      /\ \A c, d \in wire : Number(c) = Number(d) => c = d
  BY Zenon DEF Sender, Numbered
<1>3. \A c \in wire : c.lo < c.hi /\ Number(c) < WrapRad
  BY <1>1, <1>2, TsnAssumption
<1>4. ASSUME NEW c \in wire, NEW d \in wire, c # d
      PROVE  c.tsn # d.tsn /\ (c.hi <= d.lo \/ d.hi <= c.lo)
  <2>1. c.tsn # d.tsn
    BY <1>2, <1>4, Zenon DEF Number
  <2>2. Number(c) < Number(d) \/ Number(d) < Number(c)
    BY <1>1, <1>2, <1>4
  <2>3. QED  BY <2>1, <2>2, <1>2, Zenon
<1>5. ASSUME NEW d \in wire, Number(d) # 0
      PROVE  \E c \in wire : /\ Number(c) = Number(d) - 1
                             /\ IF c.end THEN d.begin
                                ELSE /\ ~ d.begin /\ d.lo = c.hi
                                     /\ d.stream_id = c.stream_id
                                     /\ d.stream_seq_num = c.stream_seq_num
                                     /\ d.unordered = c.unordered
  <2>1. Number(d) - 1 \in 0 .. Count - 1
    BY <1>1, <1>2, <1>5
  <2>2. PICK c \in wire : Number(c) = Number(d) - 1
    BY <2>1, Zenon DEF Sender, Begun
  <2>3. Continues(c, d)
    BY <1>1, <2>2, Follower
  <2>4. QED  BY <1>1, <2>2, <2>3, Zenon DEF Continues
<1>6. \A d \in wire : Number(d) = 0 => d.begin
  BY Zenon DEF Sender, Begun
<1>7. QED  BY <1>1, <1>2, <1>3, <1>4, <1>5, <1>6 DEF WireOrdered

(***************************************************************************)
(* The application has handed over the messages s: what is on the wire and *)
(* in out_queue are parts of them, and no byte before the first unsent one *)
(* has been left out.                                                      *)
(***************************************************************************)
HandedOver(s) ==
    /\ AreMessages(s)
    /\ \A k \in DOMAIN s : s[k].octets \subseteq 0 .. (accepted - 1)
    /\ \A c \in wire : \E k \in DOMAIN s : PartOf(c, s[k])
    /\ \A i \in DOMAIN out_queue : \E k \in DOMAIN s : PartOf(out_queue[i], s[k])
    /\ 0 .. (Front - 1) \subseteq Octets(wire)

(* What has been sent is part of what the application handed over. *)
LEMMA WireIsSent ==
    ASSUME Sender, NEW s, HandedOver(s)
    PROVE  AreSent(wire, s)
<1>1. \A c \in wire : c.hi \in Nat /\ c.hi <= Front
  BY NumberType, Zenon DEF Sender, Inv, Numbered
<1>2. Front \in Nat
  BY FrontBound, Zenon DEF Sender, FrontOK
<1>3. \A c \in wire : 0 .. (c.hi - 1) \subseteq Octets(wire)
  BY <1>1, <1>2 DEF HandedOver
<1>4. QED  BY <1>3, Zenon DEF HandedOver, AreSent

(* At first nothing is handed over. *)
LEMMA HandedOverInit == Init => HandedOver(<<>>)
<1> SUFFICES ASSUME Init
             PROVE  HandedOver(<<>>)
  BY Zenon
<1>1. out_queue = <<>> /\ wire = {} /\ accepted = 0
  BY Zenon DEF Init
<1>2. DOMAIN <<>> = {}
  OBVIOUS
<1>3. AreMessages(<<>>)
  BY <1>2, Zenon DEF AreMessages
<1>4. Front = 0
  BY <1>1, Zenon DEF Front
<1>5. QED  BY <1>1, <1>2, <1>3, <1>4 DEF HandedOver

(* HandedOver depends on the out queue, the bytes accepted and the wire only. *)
LEMMA HandedOverSame ==
    ASSUME NEW s, HandedOver(s), UNCHANGED <<out_queue, accepted, wire>>
    PROVE  HandedOver(s)'
BY Zenon DEF HandedOver, Front

(* The message that try_send_data is called with. *)
Handed(len, stream, unordered) ==
    [stream |-> stream, unordered |-> unordered, octets |-> accepted .. accepted + len - 1]

(* try_send_data appends it. *)
LEMMA HandedOverAccepts ==
    ASSUME 0 \notin Lens, Inv, NEW len \in Lens, NEW stream \in Streams,
           NEW unordered \in Orderings, TrySendData(len, stream, unordered),
           NEW S, NEW s \in Seq(S), HandedOver(s), NEW m, m = Handed(len, stream, unordered)
    PROVE  HandedOver(Append(s, m))'
<1>1. accepted \in Nat /\ len \in Nat /\ len # 0
  BY TxAssumption, Zenon DEF Inv, TypeOK
<1>2. PICK new : /\ out_queue' = Append(out_queue, new)
                 /\ new.lo = accepted /\ new.hi = accepted + len
                 /\ new.begin = TRUE /\ new.end = TRUE
                 /\ new.stream_id = stream /\ new.unordered = unordered
  BY SMTT(30) DEF TrySendData
<1>3. out_queue \in Seq(DataChunk) /\ wire' = wire /\ accepted' = accepted + len
  BY Zenon DEF Inv, TypeOK, TrySendData
<1>4. PICK t : t = Append(s, m)
  BY ZenonT(30)
<1>5. /\ Len(s) \in Nat /\ DOMAIN s = 1 .. Len(s) /\ DOMAIN t = 1 .. (Len(s) + 1)
      /\ t[Len(s) + 1] = m
      /\ \A k \in DOMAIN s : k \in DOMAIN t /\ t[k] = s[k]
      /\ \A k \in DOMAIN t : k \in DOMAIN s \/ k = Len(s) + 1
  BY <1>4, Appends
<1>6. /\ m.stream = stream /\ m.unordered = unordered
      /\ m.octets = accepted .. (accepted + len - 1)
  BY Zenon DEF Handed
<1>7. AreMessages(t)
  <2>1. IsMessage(m)
    <3>1. accepted \in Nat /\ accepted + len - 1 \in Nat /\ accepted <= accepted + len - 1
      BY <1>1
    <3>2. m = [stream |-> m.stream, unordered |-> m.unordered, octets |-> m.octets]
      BY Zenon DEF Handed
    <3>3. QED  BY <1>6, <3>1, <3>2, ZenonT(30) DEF IsMessage
  <2>2. AreMessages(s) /\ \A k \in DOMAIN s : s[k].octets \subseteq 0 .. (accepted - 1)
    BY Zenon DEF HandedOver
  <2>3. accepted + len - 1 \in Nat
    BY <1>1
  <2>4. QED  BY <1>1, <1>4, <1>6, <2>1, <2>2, <2>3, MessagesAppend, Zenon
<1>8. \A k \in DOMAIN t : t[k].octets \subseteq 0 .. (accepted' - 1)
  <2>1. \A k \in DOMAIN s : s[k].octets \subseteq 0 .. (accepted - 1)
    BY Zenon DEF HandedOver
  <2>2. QED  BY <1>1, <1>3, <1>5, <1>6, <2>1
<1>9. \A c \in wire' : \E k \in DOMAIN t : PartOf(c, t[k])
  BY <1>3, <1>5, ZenonT(30) DEF HandedOver
<1>10. PartOf(new, m)
  <2>1. /\ new.lo .. (new.hi - 1) \subseteq m.octets
        /\ new.lo - 1 \notin m.octets /\ new.hi \notin m.octets
    BY <1>1, <1>2, <1>6
  <2>2. QED  BY <1>2, <1>6, <2>1, ZenonT(30) DEF PartOf
<1>11. \A i \in DOMAIN out_queue' : \E k \in DOMAIN t : PartOf(out_queue'[i], t[k])
  <2>1. \A i \in DOMAIN out_queue : \E k \in DOMAIN s : PartOf(out_queue[i], s[k])
    BY ZenonT(30) DEF HandedOver
  <2>2. \A i \in DOMAIN out_queue' : \/ i \in DOMAIN out_queue /\ out_queue'[i] = out_queue[i]
                                     \/ out_queue'[i] = new
    BY <1>2, <1>3, Appends
  <2>3. Len(s) + 1 \in DOMAIN t
    BY <1>5
  <2>4. QED  BY <1>5, <1>10, <2>1, <2>2, <2>3, ZenonT(30)
<1>12. 0 .. (Front' - 1) \subseteq Octets(wire')
  <2>1. /\ out_queue' # <<>> /\ IF out_queue = <<>> THEN out_queue'[1] = new
                                ELSE out_queue'[1] = out_queue[1]
    BY <1>2, <1>3
  <2>2. Front' = Front
    BY <1>2, <2>1, ZenonT(30) DEF Front
  <2>3. QED  BY <1>3, <2>2, ZenonT(30) DEF HandedOver
<1>13. QED  BY <1>4, <1>7, <1>8, <1>9, <1>11, <1>12, ZenonT(30) DEF HandedOver

(* A packet and what stays in the queue are parts of the same message. *)
LEMMA HandedOverSends ==
    ASSUME Inv, Chain, NEW s, HandedOver(s), NEW packet, Sends(packet)
    PROVE  HandedOver(s)'
<1> DEFINE front == out_queue[1]
<1>1. /\ 1 \in DOMAIN out_queue /\ front.lo \in Nat /\ front.hi \in Nat
      /\ packet.hi \in Nat /\ Front \in Nat
  BY FrontType, FrontBound DEF Sends, SentFrom, DataChunk, Inv, FrontOK
<1>2. /\ packet.lo = Front /\ packet.lo = front.lo /\ packet.lo < packet.hi
      /\ packet.begin = front.begin /\ packet.stream_id = front.stream_id
      /\ packet.unordered = front.unordered /\ Front' = packet.hi
  BY Zenon DEF Sends, SentFrom
<1>3. wire' = wire \cup {packet} /\ accepted' = accepted
  BY Zenon DEF Sends, Appended
<1>4. PICK k \in DOMAIN s : PartOf(front, s[k])
  BY <1>1, Zenon DEF HandedOver
<1>5. front.end = TRUE
  BY <1>1, Zenon DEF Chain, QueueChain
<1>6. packet.hi <= front.hi /\ (packet.end => packet.hi = front.hi)
  BY Zenon DEF Sends, Splits
<1>7. /\ \A i \in DOMAIN out_queue' :
         \/ \E j \in DOMAIN out_queue : out_queue'[i] = out_queue[j]
         \/ /\ packet.hi < front.hi
            /\ out_queue'[i].lo = packet.hi /\ out_queue'[i].hi = front.hi
            /\ out_queue'[i].begin = FALSE /\ out_queue'[i].stream_id = packet.stream_id
            /\ out_queue'[i].unordered = packet.unordered
  BY Zenon DEF Sends, Splits
<1> HIDE DEF front
<1>8. /\ s[k].stream = front.stream_id /\ s[k].unordered = front.unordered
      /\ front.lo .. (front.hi - 1) \subseteq s[k].octets
      /\ front.begin <=> front.lo - 1 \notin s[k].octets
      /\ front.hi \notin s[k].octets
  BY <1>4, <1>5, Zenon DEF PartOf
<1>9. PartOf(packet, s[k])
  <2>1. packet.lo .. (packet.hi - 1) \subseteq front.lo .. (front.hi - 1)
    BY <1>1, <1>2, <1>6
  <2>2. QED  BY <1>2, <1>6, <1>8, <2>1, Zenon DEF PartOf
<1>10. ASSUME NEW c \in wire'
       PROVE  \E j \in DOMAIN s : PartOf(c, s[j])
  BY <1>3, <1>9, Zenon DEF HandedOver
<1>11. ASSUME NEW i \in DOMAIN out_queue'
       PROVE  \E j \in DOMAIN s : PartOf(out_queue'[i], s[j])
  <2>1. CASE \E j \in DOMAIN out_queue : out_queue'[i] = out_queue[j]
    BY <2>1, Zenon DEF HandedOver
  <2>2. CASE ~ \E j \in DOMAIN out_queue : out_queue'[i] = out_queue[j]
    <3> DEFINE rest == out_queue'[i]
    <3>1. /\ packet.hi < front.hi /\ rest.lo = packet.hi /\ rest.hi = front.hi
          /\ rest.begin = FALSE /\ rest.stream_id = packet.stream_id
          /\ rest.unordered = packet.unordered
      BY <1>7, <2>2, Zenon
    <3> HIDE DEF rest
    <3>2. rest.lo .. (rest.hi - 1) \subseteq front.lo .. (front.hi - 1)
      BY <1>1, <1>2, <3>1
    <3>3. rest.lo - 1 \in front.lo .. (front.hi - 1)
      BY <1>1, <1>2, <3>1
    <3>4. PartOf(rest, s[k])
      BY <1>2, <1>8, <3>1, <3>2, <3>3, ZenonT(30) DEF PartOf
    <3>5. QED  BY <3>4, Zenon DEF rest
  <2>3. QED  BY <2>1, <2>2, Zenon
<1>12. ASSUME NEW x \in 0 .. (packet.hi - 1)
       PROVE  x \in Octets(wire')
  <2>1. x \in 0 .. (Front - 1) \/ x \in packet.lo .. (packet.hi - 1)
    BY <1>1, <1>2
  <2>2. Octets(wire) \subseteq Octets(wire') /\ packet.lo .. (packet.hi - 1) \subseteq Octets(wire')
    BY <1>3, Zenon DEF Octets
  <2>3. QED  BY <2>1, <2>2, Zenon DEF HandedOver
<1>13. AreMessages(s) /\ \A j \in DOMAIN s : s[j].octets \subseteq 0 .. (accepted' - 1)
  BY <1>3, Zenon DEF HandedOver
<1>14. QED  BY <1>2, <1>10, <1>11, <1>12, <1>13, ZenonT(30) DEF HandedOver
-----------------------------------------------------------------------------
(* The steps of the sending half, as the network sees them. *)

(* Chunks stay on the wire, and a new one has the next number. *)
LEMMA WireGrows ==
    ASSUME Sender, [Next]_vars
    PROVE  wire \subseteq wire' /\ \A c \in wire' : c \in wire \/ Number(c) = Count
<1>1. CASE Keeps
  BY <1>1, Zenon DEF Keeps
<1>2. CASE Accepts
  BY <1>2, Zenon DEF Accepts, TrySendData
<1>3. ASSUME NEW packet, Sends(packet)
      PROVE  wire \subseteq wire' /\ \A c \in wire' : c \in wire \/ Number(c) = Count
  BY <1>3, Zenon DEF Sends, SentFrom, Appended, Number, Count
<1>4. ASSUME NEW sack, Acknowledges(sack)
      PROVE  wire' = wire
  BY <1>4, Zenon DEF Acknowledges
<1>5. QED  BY <1>1, <1>2, <1>3, <1>4, StepKinds DEF Sender

(* poll_data_to_send sends only what was handed over. *)
LEMMA HandedOverPolls ==
    ASSUME Sender, NEW s, HandedOver(s), NEW data_limit \in DataLimits, NEW already_packed \in Packed,
           PollDataToSend(data_limit, already_packed)
    PROVE  HandedOver(s)'
<1>1. CASE Keeps
  BY <1>1, HandedOverSame, Zenon DEF Keeps
<1>2. QED  BY <1>1, PollKinds, HandedOverSends, Zenon DEF Sender

(***************************************************************************)
(* poll_data_to_send either appends what it sends to the resend queue, or  *)
(* changes the marks of the entry that it sends.                           *)
(***************************************************************************)
LEMMA PollShows ==
    ASSUME Sender, NEW data_limit \in DataLimits, NEW already_packed \in Packed,
           PollDataToSend(data_limit, already_packed)
    PROVE  /\ InFlight \subseteq wire'
           /\ IF Len(resend_queue') > Len(resend_queue)
              THEN resend_queue'[Len(resend_queue')].data \in wire'
              ELSE \E i \in DOMAIN resend_queue : resend_queue'[i] # resend_queue[i]
<1>0. TypeOK /\ resend_queue \in Seq(ResendEntry) /\ Len(resend_queue) \in Nat
  BY DEF Sender, Inv, TypeOK
<1>1. PICK room \in Nat : \/ PollLossRecovery(room) \/ PollFastRecovery(room)
                          \/ PollWhole(room) \/ PollFragment(room)
  BY PollRoom, Zenon DEF Sender
<1>2. InFlight \subseteq wire
  BY Zenon DEF Sender, Chain, SentBefore, Sent, InFlight
<1>3. ASSUME PollWhole(room) \/ PollFragment(room)
      PROVE  \E packet : PutOnWire(packet)
  BY <1>3, Zenon DEF PollWhole, PollFragment
<1>4. ASSUME NEW packet, PutOnWire(packet)
      PROVE  /\ wire \subseteq wire' /\ Len(resend_queue') > Len(resend_queue)
             /\ resend_queue'[Len(resend_queue')].data \in wire'
  <2>1. /\ resend_queue' = Append(resend_queue, NewResendEntry(packet))
        /\ wire' = wire \cup {packet}
    BY <1>4, Zenon DEF PutOnWire
  <2>2. NewResendEntry(packet).data = packet
    BY Zenon DEF NewResendEntry
  <2>3. Len(resend_queue') = Len(resend_queue) + 1
    BY <1>0, <2>1
  <2>4. resend_queue'[Len(resend_queue')] = NewResendEntry(packet)
    BY <1>0, <2>1, LastAppended, Zenon
  <2>5. QED  BY <1>0, <2>1, <2>2, <2>3, <2>4
<1>5. ASSUME NEW i \in DOMAIN resend_queue, NEW entry,
             resend_queue' = [resend_queue EXCEPT ![i] = entry], entry # resend_queue[i]
      PROVE  /\ ~ (Len(resend_queue') > Len(resend_queue))
             /\ \E j \in DOMAIN resend_queue : resend_queue'[j] # resend_queue[j]
  BY <1>0, <1>5
<1>6. CASE PollLossRecovery(room)
  <2> DEFINE entry == [resend_queue[1] EXCEPT !.marked_for_retransmit = FALSE]
  <2>1. 1 \in DOMAIN resend_queue /\ resend_queue' = [resend_queue EXCEPT ![1] = entry]
    BY <1>0, <1>6 DEF PollLossRecovery
  <2>2. resend_queue[1] \in ResendEntry /\ resend_queue[1].marked_for_retransmit
    BY <1>0, <1>6, <2>1 DEF PollLossRecovery
  <2>3. entry.marked_for_retransmit = FALSE
    BY <2>2, Zenon DEF ResendEntry
  <2>4. entry # resend_queue[1] /\ wire \subseteq wire'
    BY <1>6, <2>2, <2>3, ZenonT(30) DEF PollLossRecovery
  <2> HIDE DEF entry
  <2>5. QED  BY <1>2, <1>5, <2>1, <2>4
<1>7. CASE PollFastRecovery(room)
  <2>1. PICK i \in DOMAIN resend_queue :
              /\ FastRetransmittable(i, room)
              /\ resend_queue' = [resend_queue EXCEPT ![i].marked_was_fast_retransmit = TRUE,
                                                      ![i].marked_for_fast_retransmit = FALSE]
              /\ wire' = wire \cup {resend_queue[i].data}
    BY <1>7, Zenon DEF PollFastRecovery
  <2>2. resend_queue[i] \in ResendEntry /\ resend_queue[i].marked_for_fast_retransmit
    BY <1>0, <2>1 DEF FastRetransmittable
  <2>3. /\ DOMAIN resend_queue' = DOMAIN resend_queue
        /\ resend_queue'[i].marked_for_fast_retransmit = FALSE
    BY <2>1, <2>2, Zenon DEF ResendEntry
  <2>4. Len(resend_queue') = Len(resend_queue)
    BY <1>0, <2>1
  <2>5. QED  BY <1>0, <1>2, <2>1, <2>2, <2>3, <2>4
<1>8. QED  BY <1>1, <1>2, <1>3, <1>4, <1>6, <1>7

(* A SACK that reports only chunks of W. *)
IsReport(W, sack) ==
    /\ sack = [cum_tsn |-> sack.cum_tsn, a_rwnd |-> sack.a_rwnd, blocks |-> sack.blocks]
    /\ sack.cum_tsn = decrease(InitTsn) \/ \E c \in W : c.tsn = sack.cum_tsn
    /\ sack.a_rwnd \in ARwnds /\ sack.blocks \in GapBlocks
    /\ \A b \in sack.blocks : \A k \in b[1] .. b[2] :
         \E c \in W : c.tsn = WrappingAdd(sack.cum_tsn, k)

(* It reports only chunks of any larger set. *)
LEMMA ReportGrows ==
    ASSUME NEW V, NEW W, V \subseteq W, NEW sack, IsReport(V, sack)
    PROVE  IsReport(W, sack)
BY ZenonT(30) DEF IsReport

(* A report about the wire is expected, as long as it is not too old. *)
LEMMA ReportIsExpected ==
    ASSUME Sender, Count < WrapRad, NEW sack, IsReport(wire, sack)
    PROVE  sack \in PeerSacks
<1>1. InitTsn \in Tsn /\ tsn_counter \in Tsn /\ Count \in Nat
  BY TxAssumption, NumberType, Zenon DEF Sender, Inv, TypeOK
<1>2. Count = IF InitTsn <= tsn_counter THEN tsn_counter - InitTsn
              ELSE tsn_counter - InitTsn + TsnMod
  BY <1>1, WrappingSubIs, Zenon DEF Count
<1>3. CASE sack.cum_tsn = decrease(InitTsn)
  <2>1. Ahead(decrease(InitTsn), Count + 1) = tsn_counter
    BY <1>1, <1>2, TsnAssumption DEF Ahead, decrease, Tsn
  <2>2. Count + 1 \in 1 .. WrapRad
    BY <1>1, TsnAssumption
  <2>3. sack.cum_tsn \in PeerCumTsns
    BY <1>3, <2>1, <2>2, Zenon DEF PeerCumTsns
  <2>4. QED  BY <2>3, Zenon DEF IsReport, PeerSacks, Reported
<1>4. ASSUME NEW c \in wire, c.tsn = sack.cum_tsn
      PROVE  sack \in PeerSacks
  <2>1. c.tsn \in Tsn /\ Number(c) \in Nat /\ Number(c) < Count
    BY NumberType, Zenon DEF Sender, Inv, Numbered
  <2>2. Number(c) = IF InitTsn <= c.tsn THEN c.tsn - InitTsn ELSE c.tsn - InitTsn + TsnMod
    BY <1>1, <2>1, WrappingSubIs, Zenon DEF Number
  <2>3. Ahead(c.tsn, Count - Number(c)) = tsn_counter
    BY <1>1, <1>2, <2>1, <2>2, TsnAssumption DEF Ahead, Tsn
  <2>4. Count - Number(c) \in 1 .. WrapRad
    BY <1>1, <2>1, TsnAssumption
  <2>5. sack.cum_tsn \in PeerCumTsns
    BY <1>4, <2>3, <2>4, Zenon DEF PeerCumTsns
  <2>6. QED  BY <2>5, Zenon DEF IsReport, PeerSacks, Reported
<1>5. QED  BY <1>3, <1>4, Zenon DEF IsReport

-----------------------------------------------------------------------------
(* The steps of the sender as the network and the application see them. *)

(* While few chunks have been sent, a step keeps Sender and every true report true. *)
LEMMA SenderSteps ==
    ASSUME 0 \notin Lens, Sender, Count < WrapRad, [Next]_vars
    PROVE  Sender' /\ \A sack : IsReport(wire, sack) => IsReport(wire', sack)
<1>1. NumberLeft
  BY NumberType, TsnAssumption DEF Sender, Inv, NumberLeft
<1>2. Sender'
  BY <1>1, SenderStep, Zenon
<1>3. wire \subseteq wire'
  BY WireGrows, Zenon
<1>4. QED  BY <1>2, <1>3, ReportGrows, Zenon

(* try_send_data, as Transfer sees it: one new message is handed over. *)
LEMMA AcceptShows ==
    ASSUME 0 \notin Lens, Sender, NEW len \in Lens, NEW stream \in Streams,
           NEW unordered \in Orderings, TrySendData(len, stream, unordered),
           NEW S, NEW s \in Seq(S), HandedOver(s), NEW m, m = Handed(len, stream, unordered)
    PROVE  /\ [Next]_vars /\ HandedOver(Append(s, m))' /\ wire' = wire
           /\ accepted \in 0 .. MaxBytes /\ \A k \in DOMAIN s : s[k] # m
<1>1. [Next]_vars
  BY ZenonT(30) DEF Next
<1>2. HandedOver(Append(s, m))'
  BY HandedOverAccepts, Zenon DEF Sender
<1>3. accepted \in 0 .. MaxBytes /\ len \in Nat /\ len # 0
  BY TxAssumption DEF Sender, Inv, TypeOK, Numbered
<1>4. m.octets = accepted .. (accepted + len - 1)
  BY Zenon DEF Handed
<1>5. accepted \in m.octets /\ accepted \notin 0 .. (accepted - 1)
  BY <1>3, <1>4
<1>6. \A k \in DOMAIN s : s[k] # m
  BY <1>5, ZenonT(30) DEF HandedOver
<1>7. wire' = wire
  BY ZenonT(30) DEF TrySendData
<1>8. QED  BY <1>1, <1>2, <1>3, <1>6, <1>7, ZenonT(30)

(* poll_data_to_send, as Transfer sees it: the chunk that is sent is on the wire. *)
LEMMA TransmitShows ==
    ASSUME Sender, NEW s, HandedOver(s), NEW data_limit \in DataLimits, NEW already_packed \in Packed,
           PollDataToSend(data_limit, already_packed)
    PROVE  /\ [Next]_vars /\ HandedOver(s)' /\ wire \subseteq wire'
           /\ IF Len(resend_queue') > Len(resend_queue)
              THEN resend_queue'[Len(resend_queue')].data \in wire'
              ELSE resend_queue[CHOOSE i \in DOMAIN resend_queue :
                                    resend_queue'[i] # resend_queue[i]].data \in wire'
<1>1. [Next]_vars
  BY Zenon DEF Next
<1>2. HandedOver(s)'
  BY HandedOverPolls, Zenon
<1>3. wire \subseteq wire'
  BY <1>1, WireGrows, Zenon
<1>4. ASSUME ~ (Len(resend_queue') > Len(resend_queue))
      PROVE  resend_queue[CHOOSE i \in DOMAIN resend_queue :
                              resend_queue'[i] # resend_queue[i]].data \in wire'
  BY <1>4, PollShows, ZenonT(30) DEF InFlight
<1>5. Len(resend_queue') > Len(resend_queue) => resend_queue'[Len(resend_queue')].data \in wire'
  BY PollShows, Zenon
<1>6. QED  BY <1>1, <1>2, <1>3, <1>4, <1>5, ZenonT(30)

(* No more chunks are numbered than there are bytes. *)
LEMMA CountBound ==
    ASSUME Sender
    PROVE  /\ Count \in Nat /\ Count <= MaxBytes
           /\ \A c \in wire : Number(c) \in Nat /\ Number(c) < MaxBytes
<1>1. Count \in Nat /\ \A c \in wire : Number(c) \in Nat
  BY NumberType, Zenon DEF Sender, Inv
<1>2. Front \in Nat /\ Front <= accepted /\ accepted \in Nat /\ MaxBytes \in Nat
  BY FrontBound, TxAssumption, Zenon DEF Sender, Inv, TypeOK, FrontOK
<1>3. Count <= Front /\ accepted <= MaxBytes /\ \A c \in wire : Number(c) < Count
  BY Zenon DEF Sender, Numbered
<1>4. QED  BY <1>1, <1>2, <1>3
=============================================================================
