------------------------ MODULE AssociationRxSafety ------------------------
(***************************************************************************)
(* What AssociationRx does with the chunks of a peer that numbers them as  *)
(* PeerAssumption says, proved for every such peer and every value of the  *)
(* other constants.                                                        *)
(*                                                                         *)
(* The inductive invariant describes every buffer by one number, Taken,    *)
(* the number of chunks that have been taken in TSN order: the reassembly  *)
(* queues hold Pending(Taken), what the peer numbered since the last end   *)
(* of a message; every message that ended before has one event, and that   *)
(* event holds MessageOf its last fragment.                                *)
(*                                                                         *)
(* First the lemmas about what handle_in_order_packet does to Pending and  *)
(* to the events, then the steps and what follows: for a peer whose chunks *)
(* are PeerChunks and, for Transfer, with a set of chunks that grows       *)
(* (RInv).                                                                 *)
(***************************************************************************)
EXTENDS AssociationRx, DataLemmas

(* How many chunks have been taken in order. *)
Taken == WrappingSub(increase(tsn_counter), InitTsn)

(* The last fragments among the first n chunks. *)
EndsBefore(P, n) == {e \in P : e.end /\ Place(e) < n}

(* Those of the first n chunks whose message does not end among them. *)
Pending(P, n) == {c \in P : Place(c) < n /\ \A f \in EndsBefore(P, n) : Place(f) < Place(c)}

(* The message of which e is the last fragment, and its event. *)
MessageOf(P, e) == {e} \cup Pending(P, Place(e))
EventOf(P, e) == [stream |-> e.stream_id, unordered |-> e.unordered, data |-> MessageOf(P, e)]

(* What is in the buffers for in-order chunks. *)
InOrder(P) ==
    /\ Taken \in 0 .. WrapRad
    /\ reassemble_queue = Pending(P, Taken)
    /\ \A c \in tsn_reorder_buffer : Place(c) > Taken

(* Every complete message has its event, and only those have one. *)
Events(P) ==
    /\ \A i \in DOMAIN AllEvents : \E e \in EndsBefore(P, Taken) : AllEvents[i] = EventOf(P, e)
    /\ \A e \in EndsBefore(P, Taken) : \E i \in DOMAIN AllEvents : AllEvents[i] = EventOf(P, e)

(* No message has two events, and ordered messages keep their order. *)
EventOrder(P) ==
    \A i, j \in DOMAIN AllEvents : \A e, f \in EndsBefore(P, Taken) :
        i < j /\ AllEvents[i] = EventOf(P, e) /\ AllEvents[j] = EventOf(P, f) =>
            e # f /\ (~ e.unordered /\ ~ f.unordered => Place(e) < Place(f))

(* The bytes held are counted. *)
Counted ==
    /\ IsFiniteSet(Octets(Buffered))
    /\ current_in_buffer = TotalLen(Buffered)
    /\ current_in_buffer <= InBufferLimit

IInv(P) == Typed(P) /\ InOrder(P) /\ Events(P) /\ EventOrder(P) /\ Counted

(* What has been taken last is a chunk of the peer. *)
Reached(P) == Taken = 0 \/ \E c \in P : Place(c) = Taken - 1
-----------------------------------------------------------------------------
(* The numbers of the peer's chunks. *)

(* A chunk is the place of its TSN, which no other chunk has. *)
LEMMA PlaceFacts ==
    ASSUME NEW P, IsPeer(P), NEW c \in P
    PROVE  /\ Place(c) \in Nat /\ Place(c) < WrapRad
           /\ c.tsn \in Tsn /\ c.tsn = Ahead(InitTsn, Place(c))
           /\ c.lo \in Nat /\ c.hi \in Nat /\ c.lo < c.hi
           /\ c.stream_id \in Nat /\ c.unordered \in BOOLEAN
<1>1. /\ c.tsn \in Tsn /\ c.lo \in Nat /\ c.hi \in Nat /\ c.stream_id \in Nat
      /\ c.unordered \in BOOLEAN /\ c.lo < c.hi
  BY Zenon DEF DataChunk, IsPeer
<1>2. InitTsn \in Tsn /\ Place(c) < WrapRad
  BY RxAssumption, Zenon DEF IsPeer
<1>3. Place(c) = IF InitTsn <= c.tsn THEN c.tsn - InitTsn ELSE c.tsn - InitTsn + TsnMod
  BY <1>1, <1>2, WrappingSubIs, Zenon DEF Place
<1>4. Place(c) \in Nat /\ c.tsn = Ahead(InitTsn, Place(c))
  BY <1>1, <1>2, <1>3, TsnAssumption DEF Tsn, Ahead
<1>5. QED  BY <1>1, <1>2, <1>4, Zenon

(* A peer uses a number once. *)
LEMMA PlaceUnique ==
    ASSUME NEW P, IsPeer(P), NEW c \in P, NEW d \in P, Place(c) = Place(d)
    PROVE  c = d
<1>1. c.tsn = d.tsn
  BY PlaceFacts, Zenon
<1>2. QED  BY <1>1, Zenon DEF IsPeer

(* The chunks are finitely many. *)
LEMMA PeerFinite ==
    ASSUME NEW P, IsPeer(P)
    PROVE  IsFiniteSet(P)
<1> DEFINE f == [c \in P |-> Place(c)]
<1>1. f \in Injection(P, 0 .. WrapRad - 1)
  <2>1. f \in [P -> 0 .. WrapRad - 1]
    BY PlaceFacts, TsnAssumption
  <2>2. \A a, b \in P : f[a] = f[b] => a = b
    BY PlaceUnique, Zenon
  <2>3. QED  BY <2>1, <2>2, Zenon DEF Injection, IsInjective
<1>2. IsFiniteSet(0 .. WrapRad - 1)
  <2>1. 0 \in Int /\ WrapRad - 1 \in Int
    BY TsnAssumption
  <2>2. QED  BY <2>1, FS_Interval, Zenon
<1> HIDE DEF f
<1>3. QED  BY <1>1, <1>2, FS_Injection, Zenon

(* The chunk before d, when d is not the first one. *)
LEMMA Predecessor ==
    ASSUME NEW P, IsPeer(P), NEW d \in P, Place(d) # 0
    PROVE  \E c \in P : /\ Place(c) = Place(d) - 1
                                 /\ IF c.end THEN d.begin ELSE Continues(d, c)
BY Zenon DEF IsPeer

-----------------------------------------------------------------------------
(* The messages of the peer. *)

(* A set of chunks has one that comes first. *)
LEMMA FirstOf ==
    ASSUME NEW P, IsPeer(P), NEW S, S \subseteq P, S # {}
    PROVE  \E c \in S : \A d \in S : Place(c) <= Place(d)
<1> DEFINE T == {Place(c) : c \in S}
<1>1. T \subseteq Nat /\ T # {}
  BY PlaceFacts, Zenon
<1> HIDE DEF T
<1>2. PICK m \in T : \A k \in T : m <= k
  BY <1>1, LeastNat, Zenon
<1>3. QED  BY <1>2, Zenon DEF T

(* A chunk of a message precedes its end, and no other end is between. *)
LEMMA MemberOf ==
    ASSUME NEW P, IsPeer(P), NEW e \in P, NEW c \in P
    PROVE  c \in MessageOf(P, e) <=>
             /\ Place(c) <= Place(e)
             /\ \A f \in EndsBefore(P, Place(e)) : Place(f) < Place(c)
BY PlaceFacts, PlaceUnique DEF MessageOf, Pending, EndsBefore

(* The chunk before one of a message that is not its first is in it too. *)
LEMMA PredecessorInMessage ==
    ASSUME NEW P, IsPeer(P), NEW e \in P, NEW d \in MessageOf(P, e), NEW b \in MessageOf(P, e),
           Place(b) < Place(d)
    PROVE  \E c \in MessageOf(P, e) : /\ Place(c) = Place(d) - 1 /\ Place(b) <= Place(c)
                                   /\ ~ c.end /\ Continues(d, c)
<1>1. d \in P /\ b \in P
  BY Zenon DEF MessageOf, Pending
<1>2. Place(d) \in Nat /\ Place(b) \in Nat /\ Place(e) \in Nat
  BY <1>1, PlaceFacts, Zenon
<1>3. PICK c \in P : /\ Place(c) = Place(d) - 1
                              /\ IF c.end THEN d.begin ELSE Continues(d, c)
  BY <1>1, <1>2, Predecessor
<1>4. Place(c) < Place(e) /\ Place(b) <= Place(c) /\ Place(c) \in Nat
  BY <1>1, <1>2, <1>3, MemberOf, PlaceFacts
<1>5. \A f \in EndsBefore(P, Place(e)) : Place(f) < Place(b)
  BY <1>1, MemberOf, Zenon
<1>6. ~ c.end
  BY <1>2, <1>4, <1>5 DEF EndsBefore
<1>7. c \in MessageOf(P, e)
  <2>1. \A f \in EndsBefore(P, Place(e)) : Place(f) \in Nat
    BY PlaceFacts, Zenon DEF EndsBefore
  <2>2. QED  BY <1>2, <1>4, <1>5, <2>1, MemberOf
<1>8. QED  BY <1>3, <1>4, <1>6, <1>7, Zenon

(* All fragments of a message have its stream, its number and its flag. *)
LEMMA SameMessage ==
    ASSUME NEW P, IsPeer(P), NEW e \in P, NEW c \in MessageOf(P, e)
    PROVE  Key(c) = Key(e) /\ c.unordered = e.unordered
<1> DEFINE S == {g \in MessageOf(P, e) : /\ Place(c) <= Place(g)
                                      /\ Key(g) = Key(e) /\ g.unordered = e.unordered}
<1>1. MessageOf(P, e) \subseteq P
  BY Zenon DEF MessageOf, Pending
<1>2. e \in S
  <2>1. Place(c) <= Place(e)
    BY <1>1, MemberOf, Zenon
  <2>2. QED  BY <2>1, Zenon DEF MessageOf
<1>3. S \subseteq P /\ S # {}
  BY <1>1, <1>2, Zenon
<1>4. PICK g \in S : \A h \in S : Place(g) <= Place(h)
  BY <1>3, FirstOf, Zenon
<1>5. CASE Place(g) = Place(c)
  BY <1>1, <1>4, <1>5, PlaceUnique, Zenon
<1>6. CASE Place(c) < Place(g)
  <2>1. PICK h \in MessageOf(P, e) : /\ Place(h) = Place(g) - 1 /\ Place(c) <= Place(h)
                                  /\ Continues(g, h)
    BY <1>6, PredecessorInMessage, Zenon
  <2>2. h \in S
    BY <1>4, <2>1, Zenon DEF Continues, Key
  <2>3. Place(h) \in Nat /\ Place(g) \in Nat
    BY <1>1, <2>1, PlaceFacts, Zenon
  <2>4. QED  BY <1>4, <2>1, <2>2, <2>3
<1>7. Place(c) \in Nat /\ Place(g) \in Nat /\ Place(c) <= Place(g)
  BY <1>1, PlaceFacts, Zenon
<1>8. QED  BY <1>5, <1>6, <1>7

(* Two messages share no chunk, and an event belongs to one message. *)
LEMMA MessagesDisjoint ==
    ASSUME NEW P, IsPeer(P), NEW n, NEW e \in EndsBefore(P, n), NEW f \in EndsBefore(P, n), e # f
    PROVE  MessageOf(P, e) \cap MessageOf(P, f) = {} /\ EventOf(P, e) # EventOf(P, f)
<1>1. e \in P /\ f \in P /\ e.end /\ f.end
  BY Zenon DEF EndsBefore
<1>2. Place(e) \in Nat /\ Place(f) \in Nat /\ Place(e) # Place(f)
  BY <1>1, PlaceFacts, PlaceUnique, Zenon
<1>3. \A c \in P : ~ (c \in MessageOf(P, e) /\ c \in MessageOf(P, f))
  <2> SUFFICES ASSUME NEW c \in P, c \in MessageOf(P, e), c \in MessageOf(P, f)
               PROVE  FALSE
      BY Zenon
  <2>1. Place(c) <= Place(e) /\ Place(c) <= Place(f) /\ Place(c) \in Nat
    BY <1>1, MemberOf, PlaceFacts, Zenon
  <2>2. CASE Place(e) < Place(f)
    <3>1. Place(e) < Place(c)
      BY <1>1, <2>2, MemberOf, Zenon DEF EndsBefore
    <3>2. QED  BY <1>2, <2>1, <3>1
  <2>3. CASE Place(f) < Place(e)
    <3>1. Place(f) < Place(c)
      BY <1>1, <2>3, MemberOf, Zenon DEF EndsBefore
    <3>2. QED  BY <1>2, <2>1, <3>1
  <2>4. QED  BY <1>2, <2>2, <2>3
<1>4. MessageOf(P, e) \cap MessageOf(P, f) = {}
  BY <1>1, <1>3, Zenon DEF MessageOf, Pending
<1>5. EventOf(P, e) # EventOf(P, f)
  BY <1>4, Zenon DEF EventOf, MessageOf
<1>6. QED  BY <1>4, <1>5, Zenon

(* What is numbered before n is in a message that has ended, or pending. *)
LEMMA EndedOrPending ==
    ASSUME NEW P, IsPeer(P), NEW n \in Nat, NEW c \in P, Place(c) < n
    PROVE  c \in Pending(P, n) \/ \E e \in EndsBefore(P, n) : c \in MessageOf(P, e)
<1> DEFINE S == {f \in EndsBefore(P, n) : Place(c) <= Place(f)}
<1>1. CASE S = {}
  BY <1>1, PlaceFacts DEF EndsBefore, Pending
<1>2. CASE S # {}
  <2>1. S \subseteq P
    BY Zenon DEF EndsBefore
  <2>2. PICK e \in S : \A f \in S : Place(e) <= Place(f)
    BY <1>2, <2>1, FirstOf, Zenon
  <2>3. e \in P /\ Place(e) < n /\ e \in EndsBefore(P, n) /\ Place(e) \in Nat
    BY <2>1, <2>2, PlaceFacts, Zenon DEF EndsBefore
  <2>4. \A f \in EndsBefore(P, Place(e)) : Place(f) < Place(c)
    <3> SUFFICES ASSUME NEW f \in EndsBefore(P, Place(e)), ~ (Place(f) < Place(c))
                 PROVE  FALSE
        BY Zenon
    <3>1. f \in P /\ Place(f) \in Nat /\ Place(c) \in Nat /\ Place(f) < Place(e)
      BY PlaceFacts, Zenon DEF EndsBefore
    <3>2. f \in S
      BY <2>3, <3>1 DEF EndsBefore
    <3>3. QED  BY <2>2, <2>3, <3>1, <3>2
  <2>5. QED  BY <2>2, <2>3, <2>4, MemberOf, Zenon
<1>3. QED  BY <1>1, <1>2, Zenon

(* A message that has ended is no longer pending. *)
LEMMA EndedNotPending ==
    ASSUME NEW P, IsPeer(P), NEW n \in Nat, NEW e \in EndsBefore(P, n)
    PROVE  MessageOf(P, e) \cap Pending(P, n) = {}
<1>1. e \in P /\ Place(e) \in Nat
  BY PlaceFacts, Zenon DEF EndsBefore
<1>2. \A c \in Pending(P, n) : c \in P /\ Place(c) \in Nat /\ Place(e) < Place(c)
  BY PlaceFacts, Zenon DEF Pending
<1>3. QED  BY <1>1, <1>2, MemberOf
(* A message is whole: it starts with a first fragment, ends with a last    *)
(* one, has no other of either and misses no byte between them.             *)
LEMMA MessageIsWhole ==
    ASSUME NEW P, IsPeer(P), NEW e \in P, e.end
    PROVE  IsWhole(MessageOf(P, e))
<1>1. MessageOf(P, e) \subseteq P /\ e \in MessageOf(P, e)
  BY Zenon DEF MessageOf, Pending
<1>2. PICK b \in MessageOf(P, e) : \A c \in MessageOf(P, e) : Place(b) <= Place(c)
  BY <1>1, FirstOf, Zenon
<1>3. \A c \in MessageOf(P, e) : /\ c \in P /\ Place(c) \in Nat
                              /\ Place(b) <= Place(c) /\ Place(c) <= Place(e)
                              /\ c.lo \in Nat /\ c.hi \in Nat /\ c.lo < c.hi
  BY <1>1, <1>2, MemberOf, PlaceFacts, Zenon
<1>4. b.begin
  <2>1. CASE Place(b) = 0
    BY <1>1, <2>1, Zenon DEF IsPeer
  <2>2. CASE Place(b) # 0
    <3> SUFFICES ASSUME ~ b.begin
                 PROVE  FALSE
        BY Zenon
    <3>1. PICK c \in P : Place(c) = Place(b) - 1 /\ ~ c.end
      BY <1>1, <2>2, Predecessor, Zenon
    <3>2. \A f \in EndsBefore(P, Place(e)) : f \in P /\ f.end /\ Place(f) \in Nat
                                          /\ Place(f) < Place(b)
      BY <1>1, MemberOf, PlaceFacts, Zenon DEF EndsBefore
    <3>3. \A f \in EndsBefore(P, Place(e)) : Place(f) # Place(c)
      BY <3>1, <3>2, PlaceUnique, Zenon
    <3>4. Place(c) \in Nat /\ Place(b) \in Nat /\ Place(e) \in Nat /\ Place(b) <= Place(e)
      BY <1>1, <1>3, PlaceFacts, Zenon
    <3>5. c \in MessageOf(P, e)
      BY <3>1, <3>2, <3>3, <3>4, MemberOf
    <3>6. QED  BY <1>2, <3>1, <3>4, <3>5
  <2>3. QED  BY <2>1, <2>2, Zenon
<1>5. \A c \in MessageOf(P, e) : c.begin => c = b
  <2> SUFFICES ASSUME NEW c \in MessageOf(P, e), c.begin, Place(b) < Place(c)
               PROVE  FALSE
      BY <1>1, <1>3, PlaceUnique
  <2>1. QED  BY PredecessorInMessage, Zenon DEF Continues
<1>6. \A c \in MessageOf(P, e) : c.end => c = e
  <2> SUFFICES ASSUME NEW c \in MessageOf(P, e), c.end, Place(c) < Place(e)
               PROVE  FALSE
      BY <1>1, <1>3, PlaceUnique
  <2>1. Place(c) < Place(c)
    BY <1>1, MemberOf, Zenon DEF EndsBefore
  <2>2. QED  BY <1>3, <2>1
<1>7. \A c, d \in MessageOf(P, e) : Place(c) < Place(d) => c.hi <= d.lo
  BY <1>1, Zenon DEF IsPeer
<1>8. \A c \in MessageOf(P, e) : b.lo <= c.lo /\ c.hi <= e.hi
  <2> SUFFICES ASSUME NEW c \in MessageOf(P, e)
               PROVE  b.lo <= c.lo /\ c.hi <= e.hi
      BY Zenon
  <2>1. c = b \/ b.hi <= c.lo
    BY <1>3, <1>7, PlaceUnique
  <2>2. c = e \/ c.hi <= e.lo
    BY <1>1, <1>3, <1>7, PlaceUnique
  <2>3. QED  BY <1>1, <1>3, <2>1, <2>2
<1>9. \A x \in b.lo .. e.hi - 1 : \E c \in MessageOf(P, e) : x \in c.lo .. c.hi - 1
  <2> SUFFICES ASSUME NEW x \in b.lo .. e.hi - 1
               PROVE  \E c \in MessageOf(P, e) : x \in c.lo .. c.hi - 1
      BY Zenon
  <2> DEFINE S == {c \in MessageOf(P, e) : x < c.hi}
  <2>1. b.lo \in Nat /\ e.hi \in Nat /\ x \in Int /\ b.lo <= x /\ x < e.hi
    BY <1>1, <1>3
  <2>2. S \subseteq P /\ e \in S
    BY <1>1, <2>1, Zenon
  <2>3. PICK c \in S : \A d \in S : Place(c) <= Place(d)
    BY <2>2, FirstOf, Zenon
  <2>4. CASE c = b
    BY <1>3, <2>1, <2>3, <2>4
  <2>5. CASE c # b
    <3>1. Place(b) < Place(c)
      BY <1>3, <2>3, <2>5, PlaceUnique
    <3>2. PICK p \in MessageOf(P, e) : Place(p) = Place(c) - 1 /\ Continues(c, p)
      BY <2>3, <3>1, PredecessorInMessage, Zenon
    <3>3. p \notin S
      BY <1>3, <2>3, <3>2
    <3>4. p.hi <= x /\ c.lo = p.hi
      BY <1>3, <2>1, <3>2, <3>3 DEF Continues
    <3>5. QED  BY <1>3, <2>1, <2>3, <3>4
  <2>6. QED  BY <2>4, <2>5, Zenon
<1>10. Octets(MessageOf(P, e)) = b.lo .. e.hi - 1
  <2>1. \A c \in MessageOf(P, e) : \A x \in c.lo .. c.hi - 1 : x \in b.lo .. e.hi - 1
    BY <1>1, <1>3, <1>8
  <2>2. QED  BY <1>9, <2>1, Zenon DEF Octets
<1>11. QED  BY <1>1, <1>4, <1>5, <1>6, <1>10, Zenon DEF IsWhole

-----------------------------------------------------------------------------
(* Where the counter is, and where a chunk is from there. *)

(* The counter is the number before the one that is taken next. *)
LEMMA CounterFacts ==
    ASSUME tsn_counter \in Tsn, Taken \in 0 .. WrapRad
    PROVE  /\ tsn_counter = decrease(Ahead(InitTsn, Taken))
           /\ increase(tsn_counter) = Ahead(InitTsn, Taken)
           /\ increase(tsn_counter) \in Tsn
<1>1. InitTsn \in Tsn /\ increase(tsn_counter) \in Tsn
  BY RxAssumption, IncreaseDecreaseType, Zenon
<1>2. Taken = IF InitTsn <= increase(tsn_counter) THEN increase(tsn_counter) - InitTsn
              ELSE increase(tsn_counter) - InitTsn + TsnMod
  BY <1>1, WrappingSubIs, Zenon DEF Taken
<1>3. increase(tsn_counter) = Ahead(InitTsn, Taken)
  BY <1>1, <1>2, TsnAssumption DEF Tsn, Ahead
<1>4. tsn_counter = decrease(increase(tsn_counter))
  BY TsnAssumption DEF Tsn, increase, decrease
<1>5. QED  BY <1>1, <1>3, <1>4, Zenon

(* Advancing the counter by k takes k more chunks. *)
LEMMA CounterAdvance ==
    ASSUME tsn_counter \in Tsn, Taken \in 0 .. WrapRad, NEW k \in Nat, Taken + k <= WrapRad
    PROVE  /\ WrappingAdd(tsn_counter, k) \in Tsn
           /\ WrappingSub(increase(WrappingAdd(tsn_counter, k)), InitTsn) = Taken + k
<1>1. InitTsn \in Tsn
  BY RxAssumption, Zenon
<1>2. k \in Tsn /\ Taken \in Nat
  BY TsnAssumption DEF Tsn
<1>3. WrappingAdd(tsn_counter, k) = Ahead(tsn_counter, k)
  BY <1>2, WrappingAddIs, Zenon
<1>4. WrappingAdd(tsn_counter, k) \in Tsn
  BY <1>2, <1>3, TsnAssumption DEF Tsn, Ahead
<1>5. increase(Ahead(tsn_counter, k)) = Ahead(InitTsn, Taken + k)
  BY <1>1, <1>2, CounterFacts, TsnAssumption DEF Tsn, Ahead, increase, decrease
<1>6. increase(Ahead(tsn_counter, k)) \in Tsn
  BY <1>3, <1>4, IncreaseDecreaseType, Zenon
<1>7. WrappingSub(increase(Ahead(tsn_counter, k)), InitTsn) = Taken + k
  <2>1. WrappingSub(increase(Ahead(tsn_counter, k)), InitTsn)
          = IF InitTsn <= increase(Ahead(tsn_counter, k))
            THEN increase(Ahead(tsn_counter, k)) - InitTsn
            ELSE increase(Ahead(tsn_counter, k)) - InitTsn + TsnMod
    BY <1>1, <1>6, WrappingSubIs, Zenon
  <2>2. QED  BY <1>1, <1>2, <1>5, <2>1, TsnAssumption DEF Tsn, Ahead
<1>8. QED  BY <1>3, <1>4, <1>7, Zenon

(* A TSN compares with the next one expected as its place with Taken. *)
LEMMA PlaceOrder ==
    ASSUME NEW P, IsPeer(P), tsn_counter \in Tsn, Taken \in 0 .. WrapRad, NEW c \in P
    PROVE  /\ TsnGT(c.tsn, increase(tsn_counter)) <=> Place(c) > Taken
           /\ TsnLT(c.tsn, increase(tsn_counter)) <=> Place(c) < Taken
           /\ c.tsn = increase(tsn_counter) <=> Place(c) = Taken
           /\ TsnLE(c.tsn, tsn_counter) <=> Place(c) < Taken
<1>1. InitTsn \in Tsn /\ Taken \in Nat /\ Taken <= WrapRad
  BY RxAssumption, TsnAssumption
<1>2. /\ Place(c) \in Nat /\ Place(c) < WrapRad /\ c.tsn \in Tsn
      /\ c.tsn = Ahead(InitTsn, Place(c))
  BY PlaceFacts, Zenon
<1>3. increase(tsn_counter) = Ahead(InitTsn, Taken) /\ tsn_counter = decrease(Ahead(InitTsn, Taken))
  BY CounterFacts, Zenon
<1>4. c.tsn = increase(tsn_counter) <=> Place(c) = Taken
  BY <1>1, <1>2, <1>3, TsnAssumption DEF Ahead, Tsn
<1>5. TsnLT(c.tsn, increase(tsn_counter)) <=> Place(c) < Taken
  BY <1>1, <1>2, <1>3, TsnAssumption DEF Ahead, Tsn, TsnLT, WRAP_LO, WRAP_HI
<1>6. TsnGT(c.tsn, increase(tsn_counter)) <=> Place(c) > Taken
  BY <1>1, <1>2, <1>3, TsnAssumption DEF Ahead, Tsn, TsnGT, TsnLT, WRAP_LO, WRAP_HI
<1>7. TsnLE(c.tsn, tsn_counter) <=> Place(c) < Taken
  BY <1>1, <1>2, <1>3, TsnAssumption
     DEF Ahead, Tsn, TsnLE, TsnGT, TsnLT, WRAP_LO, WRAP_HI, decrease
<1>8. QED  BY <1>4, <1>5, <1>6, <1>7, Zenon

(* How far a chunk that is still to be taken is ahead of the counter. *)
LEMMA OffsetIs ==
    ASSUME NEW P, IsPeer(P), tsn_counter \in Tsn, Taken \in 0 .. WrapRad, NEW c \in P, Taken <= Place(c)
    PROVE  Offset(c) = Place(c) - Taken + 1
<1>1. InitTsn \in Tsn /\ Taken \in Nat /\ Taken <= WrapRad
  BY RxAssumption, TsnAssumption
<1>2. /\ Place(c) \in Nat /\ Place(c) < WrapRad /\ c.tsn \in Tsn
      /\ c.tsn = Ahead(InitTsn, Place(c))
  BY PlaceFacts, Zenon
<1>3. tsn_counter = decrease(Ahead(InitTsn, Taken))
  BY CounterFacts, Zenon
<1>4. Offset(c) = IF tsn_counter <= c.tsn THEN c.tsn - tsn_counter
                  ELSE c.tsn - tsn_counter + TsnMod
  BY <1>2, WrappingSubIs, Zenon DEF Offset
<1>5. QED
  BY <1>1, <1>2, <1>3, <1>4, TsnAssumption DEF Ahead, Tsn, decrease
-----------------------------------------------------------------------------
(* What handle_in_order_packet takes and completes. *)

(* The chunks numbered from n up to m. *)
Between(P, n, m) == {c \in P : n <= Place(c) /\ Place(c) < m}

(* It takes the chunks of the next places, all of them. *)
LEMMA DrainTakes ==
    ASSUME NEW P, IsPeer(P), Typed(P), InOrder(P), NEW data \in P, data.tsn = increase(tsn_counter),
           NEW n \in Nat, IsDrain(n)
    PROVE  /\ Taken + n + 1 <= WrapRad /\ \E c \in P : Place(c) = Taken + n
           /\ {data} \cup NextInOrder(n) = Between(P, Taken, Taken + n + 1)
           /\ NextInOrder(n) = {c \in tsn_reorder_buffer : Place(c) < Taken + n + 1}
           /\ Following(n) = {c \in tsn_reorder_buffer : Place(c) = Taken + n + 1}
<1>1. tsn_counter \in Tsn /\ Taken \in 0 .. WrapRad /\ Taken \in Nat /\ WrapRad \in Nat
  BY TsnAssumption DEF Typed, InOrder
<1>2. Place(data) = Taken
  BY <1>1, PlaceOrder, Zenon
<1>3. \A c \in tsn_reorder_buffer : /\ c \in P /\ Place(c) \in Nat
                                    /\ Taken < Place(c) /\ Place(c) < WrapRad
  BY <1>1, PlaceFacts, Zenon DEF Typed, InOrder
<1>4. \A c \in tsn_reorder_buffer : Offset(c) = Place(c) - Taken + 1
  BY <1>1, <1>3, OffsetIs
<1>5. NextInOrder(n) = {c \in tsn_reorder_buffer : Place(c) < Taken + n + 1}
  BY <1>1, <1>3, <1>4 DEF NextInOrder
<1>6. Following(n) = {c \in tsn_reorder_buffer : Place(c) = Taken + n + 1}
  BY <1>1, <1>3, <1>4 DEF Following
<1>7. \A k \in 1 .. n : \E c \in NextInOrder(n) : Place(c) = Taken + k
  <2> SUFFICES ASSUME NEW k \in 1 .. n
               PROVE  \E c \in NextInOrder(n) : Place(c) = Taken + k
      BY Zenon
  <2>1. k + 1 \in 2 .. n + 1
    OBVIOUS
  <2>2. PICK c \in NextInOrder(n) : Offset(c) = k + 1
    BY <2>1, Zenon DEF IsDrain
  <2>3. c \in tsn_reorder_buffer
    BY Zenon DEF NextInOrder
  <2>4. QED  BY <1>1, <1>3, <1>4, <2>2, <2>3
<1>8. Taken + n + 1 <= WrapRad /\ \E c \in P : Place(c) = Taken + n
  <2>1. CASE n = 0
    <3>1. Place(data) = Taken + n
      BY <1>1, <1>2, <2>1
    <3>2. QED  BY <1>1, <3>1, PlaceFacts
  <2>2. CASE n # 0
    <3>1. n \in 1 .. n
      BY <2>2
    <3>2. PICK c \in NextInOrder(n) : Place(c) = Taken + n
      BY <1>7, <3>1, Zenon
    <3>3. QED  BY <1>1, <1>3, <3>2 DEF NextInOrder
  <2>3. QED  BY <2>1, <2>2, Zenon
<1>9. {data} \cup NextInOrder(n) = Between(P, Taken, Taken + n + 1)
  <2>1. ASSUME NEW c \in Between(P, Taken, Taken + n + 1)
        PROVE  c \in {data} \cup NextInOrder(n)
    <3>1. c \in P /\ Place(c) \in Nat /\ Taken <= Place(c) /\ Place(c) < Taken + n + 1
      BY <2>1, PlaceFacts, Zenon DEF Between
    <3>2. CASE Place(c) = Taken
      BY <1>2, <3>1, <3>2, PlaceUnique, Zenon
    <3>3. CASE Place(c) # Taken
      <4>1. Place(c) - Taken \in 1 .. n
        BY <1>1, <3>1, <3>3
      <4>2. PICK d \in NextInOrder(n) : Place(d) = Taken + (Place(c) - Taken)
        BY <1>7, <4>1, Zenon
      <4>3. d \in P /\ Place(d) = Place(c)
        BY <1>1, <1>3, <3>1, <4>2 DEF NextInOrder
      <4>4. QED  BY <3>1, <4>2, <4>3, PlaceUnique, Zenon
    <3>4. QED  BY <3>2, <3>3, Zenon
  <2>2. ASSUME NEW c \in NextInOrder(n)
        PROVE  c \in Between(P, Taken, Taken + n + 1)
    BY <1>1, <1>3, <1>5 DEF Between
  <2>3. data \in Between(P, Taken, Taken + n + 1)
    BY <1>1, <1>2 DEF Between
  <2>4. QED  BY <2>1, <2>2, <2>3, Zenon
<1>10. QED  BY <1>5, <1>6, <1>8, <1>9, Zenon

(***************************************************************************)
(* An event gets the message whose last fragment has come: the queue is    *)
(* chosen by stream and number only, which an unordered message may share  *)
(* with an ordered one, but never more than one message is incomplete.     *)
(***************************************************************************)
LEMMA ReassembledIs ==
    ASSUME NEW P, IsPeer(P), Typed(P), InOrder(P), NEW m \in Nat, NEW e \in Between(P, Taken, m), e.end
    PROVE  Reassembled(Between(P, Taken, m), e) = MessageOf(P, e)
<1> DEFINE new == Between(P, Taken, m)
<1>1. tsn_counter \in Tsn /\ Taken \in 0 .. WrapRad /\ Taken \in Nat
  BY TsnAssumption DEF Typed, InOrder
<1>2. \A c \in new : /\ c \in P /\ Place(c) \in Nat /\ Taken <= Place(c) /\ Place(c) < m
                     /\ Offset(c) = Place(c) - Taken + 1
  BY <1>1, OffsetIs, PlaceFacts, Zenon DEF Between
<1>3. \A c \in new : (Offset(c) < Offset(e) <=> Place(c) < Place(e))
  BY <1>1, <1>2
<1>4. \A c, f \in new : (Offset(c) <= Offset(f) <=> Place(c) <= Place(f))
  BY <1>1, <1>2
<1>5. e \in P /\ Place(e) \in Nat /\ Taken <= Place(e) /\ Place(e) < m
  BY <1>2, Zenon
<1>6. ASSUME NEW c \in MessageOf(P, e), c # e
      PROVE  c \in Reassembled(new, e)
  <2>1. /\ c \in P /\ Place(c) \in Nat /\ Place(c) < Place(e)
        /\ \A f \in EndsBefore(P, Place(e)) : Place(f) < Place(c)
    BY <1>5, <1>6, PlaceFacts, Zenon DEF MessageOf, Pending
  <2>2. Key(c) = Key(e)
    BY <1>5, SameMessage, Zenon
  <2>3. c \in reassemble_queue \cup new
    <3>1. CASE Taken <= Place(c)
      BY <1>5, <2>1, <3>1 DEF Between
    <3>2. CASE Place(c) < Taken
      <4>1. \A f \in EndsBefore(P, Taken) : f \in EndsBefore(P, Place(e))
        BY <1>1, <1>5, PlaceFacts DEF EndsBefore
      <4>2. c \in Pending(P, Taken)
        BY <2>1, <3>2, <4>1, Zenon DEF Pending
      <4>3. QED  BY <4>2, Zenon DEF InOrder
    <3>3. QED  BY <1>1, <2>1, <3>1, <3>2
  <2>4. c \in new => Offset(c) < Offset(e)
    BY <1>3, <2>1, Zenon
  <2>5. ASSUME NEW f \in new, f.end, Offset(f) < Offset(e), c \in new => Offset(c) <= Offset(f)
        PROVE  FALSE
    <3>1. Place(f) < Place(e) /\ f \in P /\ Place(f) \in Nat /\ Taken <= Place(f)
      BY <1>2, <1>3, <2>5, Zenon
    <3>2. Place(f) < Place(c)
      BY <2>1, <2>5, <3>1, Zenon DEF EndsBefore
    <3>3. c \in new
      BY <1>1, <1>5, <2>1, <3>1, <3>2 DEF Between
    <3>4. QED  BY <1>4, <2>1, <2>5, <3>1, <3>2, <3>3
  <2>6. QED  BY <2>2, <2>3, <2>4, <2>5, Zenon DEF Reassembled
<1>7. ASSUME NEW c \in Reassembled(new, e), c # e
      PROVE  c \in MessageOf(P, e)
  <2>1. /\ c \in reassemble_queue \cup new /\ Key(c) = Key(e)
        /\ c \in new => Offset(c) < Offset(e)
        /\ ~ \E f \in new : /\ f.end /\ Key(f) = Key(e) /\ Offset(f) < Offset(e)
                            /\ c \in new => Offset(c) <= Offset(f)
    BY <1>7, Zenon DEF Reassembled
  <2>2. c \in P /\ Place(c) \in Nat /\ Place(c) < Place(e)
    <3>1. CASE c \in new
      BY <1>2, <1>3, <2>1, <3>1, Zenon
    <3>2. CASE c \in reassemble_queue
      BY <1>1, <1>5, <3>2, PlaceFacts DEF InOrder, Pending
    <3>3. QED  BY <2>1, <3>1, <3>2, Zenon
  <2>3. ASSUME NEW f \in EndsBefore(P, Place(e)), c \in MessageOf(P, f)
        PROVE  FALSE
    <3>1. /\ f \in P /\ f.end /\ Place(f) \in Nat /\ Place(f) < Place(e)
          /\ Place(c) <= Place(f)
      BY <2>2, <2>3, MemberOf, PlaceFacts, Zenon DEF EndsBefore
    <3>2. Key(f) = Key(e)
      BY <2>1, <2>3, <3>1, SameMessage, Zenon
    <3>3. Taken <= Place(f)
      <4> SUFFICES ASSUME Place(f) < Taken
                   PROVE  FALSE
          BY <1>1, <3>1
      <4>1. c \notin new
        BY <1>1, <1>2, <3>1
      <4>2. c \in Pending(P, Taken) /\ f \in EndsBefore(P, Taken)
        BY <2>1, <3>1, <4>1, Zenon DEF InOrder, EndsBefore
      <4>3. QED  BY <2>2, <3>1, <4>2 DEF Pending
    <3>4. f \in new
      BY <1>1, <1>5, <3>1, <3>3 DEF Between
    <3>5. Offset(f) < Offset(e) /\ (c \in new => Offset(c) <= Offset(f))
      BY <1>3, <1>4, <3>1, <3>4, Zenon
    <3>6. QED  BY <2>1, <3>1, <3>2, <3>4, <3>5, Zenon
  <2>4. QED  BY <1>5, <2>2, <2>3, EndedOrPending, Zenon DEF MessageOf
<1>8. e \in Reassembled(new, e) /\ e \in MessageOf(P, e)
  BY Zenon DEF Reassembled, MessageOf
<1>9. QED  BY <1>6, <1>7, <1>8

(* What stays in the reassembly queues is pending still. *)
LEMMA PendingStep ==
    ASSUME NEW P, IsPeer(P), NEW n \in Nat, NEW m \in Nat, n <= m
    PROVE  (Pending(P, n) \cup Between(P, n, m))
               \ UNION {MessageOf(P, e) : e \in {c \in Between(P, n, m) : c.end}} = Pending(P, m)
<1> DEFINE done == UNION {MessageOf(P, e) : e \in {c \in Between(P, n, m) : c.end}}
<1>1. ASSUME NEW c \in Pending(P, m)
      PROVE  c \in Pending(P, n) \cup Between(P, n, m) /\ c \notin done
  <2>1. /\ c \in P /\ Place(c) \in Nat /\ Place(c) < m
        /\ \A f \in EndsBefore(P, m) : Place(f) < Place(c)
    BY PlaceFacts, Zenon DEF Pending
  <2>2. \A f \in EndsBefore(P, n) : f \in EndsBefore(P, m)
    BY PlaceFacts DEF EndsBefore
  <2>3. c \in Pending(P, n) \cup Between(P, n, m)
    BY <2>1, <2>2 DEF Pending, Between
  <2>4. \A e \in Between(P, n, m) : e.end => e \in EndsBefore(P, m)
    BY Zenon DEF Between, EndsBefore
  <2>5. QED  BY <2>3, <2>4, EndedNotPending, Zenon
<1>2. ASSUME NEW c \in Pending(P, n) \cup Between(P, n, m), c \notin done
      PROVE  c \in Pending(P, m)
  <2>1. c \in P /\ Place(c) \in Nat /\ Place(c) < m
    BY PlaceFacts DEF Pending, Between
  <2>2. ASSUME NEW e \in EndsBefore(P, m), c \in MessageOf(P, e)
        PROVE  FALSE
    <3>1. e \in P /\ e.end /\ Place(e) \in Nat /\ Place(e) < m /\ Place(c) <= Place(e)
      BY <2>1, <2>2, MemberOf, PlaceFacts, Zenon DEF EndsBefore
    <3>2. CASE n <= Place(e)
      BY <1>2, <2>2, <3>1, <3>2, Zenon DEF Between
    <3>3. CASE Place(e) < n
      <4>1. c \in Pending(P, n) /\ e \in EndsBefore(P, n)
        BY <2>1, <3>1, <3>3 DEF Between, EndsBefore
      <4>2. QED  BY <2>2, <4>1, EndedNotPending, Zenon
    <3>4. QED  BY <3>1, <3>2, <3>3
  <2>3. QED  BY <2>1, <2>2, EndedOrPending, Zenon
<1>3. QED  BY <1>1, <1>2, Zenon
-----------------------------------------------------------------------------
(* Events and bytes. *)

(* Chunks that are not the same share no byte. *)
LEMMA OctetsDisjoint ==
    ASSUME NEW P, IsPeer(P), NEW S \in SUBSET P, NEW T \in SUBSET P, S \cap T = {}
    PROVE  Octets(S) \cap Octets(T) = {}
<1> SUFFICES ASSUME NEW c \in S, NEW d \in T, NEW x,
                    x \in c.lo .. (c.hi - 1), x \in d.lo .. (d.hi - 1)
             PROVE  FALSE
    BY Zenon DEF Octets
<1>1. c \in P /\ d \in P /\ c # d
  BY Zenon
<1>2. c.lo \in Nat /\ c.hi \in Nat /\ d.lo \in Nat /\ d.hi \in Nat
  BY <1>1, PlaceFacts, Zenon
<1>3. c.hi <= d.lo \/ d.hi <= c.lo
  BY <1>1, Zenon DEF IsPeer
<1>4. QED  BY <1>2, <1>3

(* Where an event is found in all of them. *)
LEMMA AllEventsIs ==
    ASSUME NEW P, IsPeer(P), Typed(P)
    PROVE  LET d == Len(delivered)
               u == Len(unordered_receive_events)
               o == Len(ordered_receive_events)
           IN  /\ d \in Nat /\ u \in Nat /\ o \in Nat
               /\ AllEvents \in Seq(EventIn(P)) /\ Len(AllEvents) = d + u + o
               /\ DOMAIN AllEvents = 1 .. d + u + o
               /\ DOMAIN delivered = 1 .. d
               /\ DOMAIN unordered_receive_events = 1 .. u
               /\ DOMAIN ordered_receive_events = 1 .. o
               /\ \A i \in 1 .. d : AllEvents[i] = delivered[i]
               /\ \A i \in 1 .. u : AllEvents[d + i] = unordered_receive_events[i]
               /\ \A i \in 1 .. o : AllEvents[d + u + i] = ordered_receive_events[i]
<1>1. /\ delivered \in Seq(EventIn(P)) /\ unordered_receive_events \in Seq(EventIn(P))
      /\ ordered_receive_events \in Seq(EventIn(P))
  BY Zenon DEF Typed
<1>2. /\ DOMAIN delivered = 1 .. Len(delivered)
      /\ DOMAIN unordered_receive_events = 1 .. Len(unordered_receive_events)
      /\ DOMAIN ordered_receive_events = 1 .. Len(ordered_receive_events)
  BY <1>1
<1>3. AreJoined(EventIn(P), delivered, unordered_receive_events, ordered_receive_events)
  BY <1>1, Concat3, Zenon
<1>4. QED  BY <1>2, <1>3, Zenon DEF AreJoined, AllEvents, Joined

(* The chunks of the events that wait, and of those that were delivered. *)
LEMMA EventChunksAre ==
    ASSUME NEW P, IsPeer(P), Typed(P)
    PROVE  EventChunks(AllEvents) = EventChunks(delivered)
                \cup EventChunks(unordered_receive_events) \cup EventChunks(ordered_receive_events)
<1> DEFINE d == Len(delivered)
           u == Len(unordered_receive_events)
           o == Len(ordered_receive_events)
<1>1. /\ d \in Nat /\ u \in Nat /\ o \in Nat
      /\ DOMAIN AllEvents = 1 .. d + u + o
      /\ DOMAIN delivered = 1 .. d
      /\ DOMAIN unordered_receive_events = 1 .. u
      /\ DOMAIN ordered_receive_events = 1 .. o
      /\ \A i \in 1 .. d : AllEvents[i] = delivered[i]
      /\ \A i \in 1 .. u : AllEvents[d + i] = unordered_receive_events[i]
      /\ \A i \in 1 .. o : AllEvents[d + u + i] = ordered_receive_events[i]
  BY AllEventsIs, Zenon
<1> HIDE DEF d, u, o
<1>2. \A i \in DOMAIN delivered : i \in DOMAIN AllEvents /\ AllEvents[i] = delivered[i]
  BY <1>1
<1>3. \A i \in DOMAIN unordered_receive_events :
         d + i \in DOMAIN AllEvents /\ AllEvents[d + i] = unordered_receive_events[i]
  BY <1>1
<1>4. \A i \in DOMAIN ordered_receive_events :
         d + u + i \in DOMAIN AllEvents /\ AllEvents[d + u + i] = ordered_receive_events[i]
  BY <1>1
<1>5. ASSUME NEW i \in DOMAIN AllEvents
      PROVE  \/ i \in DOMAIN delivered /\ AllEvents[i] = delivered[i]
             \/ \E j \in DOMAIN unordered_receive_events : AllEvents[i] = unordered_receive_events[j]
             \/ \E j \in DOMAIN ordered_receive_events : AllEvents[i] = ordered_receive_events[j]
  <2>1. CASE i <= d
    BY <1>1, <2>1
  <2>2. CASE d < i /\ i <= d + u
    <3>1. i - d \in 1 .. u /\ d + (i - d) = i
      BY <1>1, <2>2
    <3>2. QED  BY <1>1, <3>1
  <2>3. CASE d + u < i
    <3>1. i - (d + u) \in 1 .. o /\ d + u + (i - (d + u)) = i
      BY <1>1, <2>3
    <3>2. QED  BY <1>1, <3>1
  <2>4. QED  BY <1>1, <2>1, <2>2, <2>3
<1>6. \A x \in EventChunks(AllEvents) : \/ x \in EventChunks(delivered)
                                        \/ x \in EventChunks(unordered_receive_events)
                                        \/ x \in EventChunks(ordered_receive_events)
  <2> SUFFICES ASSUME NEW x \in EventChunks(AllEvents)
               PROVE  \/ x \in EventChunks(delivered)
                      \/ x \in EventChunks(unordered_receive_events)
                      \/ x \in EventChunks(ordered_receive_events)
      BY Zenon
  <2>1. PICK i \in DOMAIN AllEvents : x \in AllEvents[i].data
    BY Zenon DEF EventChunks
  <2>2. QED  BY <1>5, <2>1, Zenon DEF EventChunks
<1>7. \A x \in EventChunks(delivered) : x \in EventChunks(AllEvents)
  BY <1>2, Zenon DEF EventChunks
<1>8. \A x \in EventChunks(unordered_receive_events) : x \in EventChunks(AllEvents)
  BY <1>3, Zenon DEF EventChunks
<1>9. \A x \in EventChunks(ordered_receive_events) : x \in EventChunks(AllEvents)
  BY <1>4, Zenon DEF EventChunks
<1>10. QED  BY <1>6, <1>7, <1>8, <1>9, Zenon

(* Everything held or delivered is a chunk of the peer; what is not in the  *)
(* reorder buffer has been taken in order.                                  *)
LEMMA HeldPlaces ==
    ASSUME NEW P, IsPeer(P), Typed(P), InOrder(P), Events(P)
    PROVE  /\ EventChunks(AllEvents) \cup reassemble_queue = {c \in P : Place(c) < Taken}
           /\ EventChunks(AllEvents) \cap reassemble_queue = {}
           /\ Received = tsn_reorder_buffer \cup {c \in P : Place(c) < Taken}
           /\ Buffered \subseteq Received
<1>1. Taken \in Nat /\ reassemble_queue = Pending(P, Taken)
  BY TsnAssumption DEF InOrder
<1>2. ASSUME NEW c \in EventChunks(AllEvents)
      PROVE  c \in P /\ Place(c) < Taken /\ c \notin reassemble_queue
  <2>1. PICK i \in DOMAIN AllEvents : c \in AllEvents[i].data
    BY Zenon DEF EventChunks
  <2>2. PICK e \in EndsBefore(P, Taken) : AllEvents[i] = EventOf(P, e)
    BY Zenon DEF Events
  <2>3. c \in MessageOf(P, e)
    BY <2>1, <2>2 DEF EventOf
  <2>4. e \in P /\ Place(e) < Taken /\ Place(e) \in Nat
    BY PlaceFacts, Zenon DEF EndsBefore
  <2>5. c \in P /\ Place(c) \in Nat
    BY <2>3, <2>4, PlaceFacts, Zenon DEF MessageOf, Pending
  <2>6. Place(c) <= Place(e)
    BY <2>3, <2>4, <2>5, MemberOf, Zenon
  <2>7. c \notin Pending(P, Taken)
    BY <1>1, <2>3, EndedNotPending, Zenon
  <2>8. QED  BY <1>1, <2>4, <2>5, <2>6, <2>7
<1>3. \A c \in reassemble_queue : c \in P /\ Place(c) < Taken
  BY <1>1, Zenon DEF Pending
<1>4. ASSUME NEW c \in P, Place(c) < Taken
      PROVE  c \in EventChunks(AllEvents) \cup reassemble_queue
  <2>1. CASE c \in Pending(P, Taken)
    BY <1>1, <2>1, Zenon
  <2>2. ASSUME NEW e \in EndsBefore(P, Taken), c \in MessageOf(P, e)
        PROVE  c \in EventChunks(AllEvents)
    <3>1. PICK i \in DOMAIN AllEvents : AllEvents[i] = EventOf(P, e)
      BY Zenon DEF Events
    <3>2. c \in AllEvents[i].data
      BY <2>2, <3>1 DEF EventOf
    <3>3. QED  BY <3>2, Zenon DEF EventChunks
  <2>3. QED  BY <1>1, <1>4, <2>1, <2>2, EndedOrPending, Zenon
<1>5. EventChunks(AllEvents) \cup reassemble_queue = {c \in P : Place(c) < Taken}
  BY <1>2, <1>3, <1>4, Zenon
<1>6. Received = tsn_reorder_buffer \cup (EventChunks(AllEvents) \cup reassemble_queue)
  BY EventChunksAre, Zenon DEF Received, Buffered
<1>7. QED  BY <1>2, <1>5, <1>6, Zenon DEF Received
(* No chunk is in two events. *)
LEMMA EventsDisjoint ==
    ASSUME NEW P, IsPeer(P), Typed(P), Events(P), EventOrder(P),
           NEW i \in DOMAIN AllEvents, NEW j \in DOMAIN AllEvents, i # j
    PROVE  AllEvents[i].data \cap AllEvents[j].data = {}
<1>1. PICK e \in EndsBefore(P, Taken) : AllEvents[i] = EventOf(P, e)
  BY Zenon DEF Events
<1>2. PICK f \in EndsBefore(P, Taken) : AllEvents[j] = EventOf(P, f)
  BY Zenon DEF Events
<1>3. i \in Int /\ j \in Int
  BY AllEventsIs
<1>4. e # f
  <2>1. CASE i < j
    BY <1>1, <1>2, <2>1, Zenon DEF EventOrder
  <2>2. CASE j < i
    BY <1>1, <1>2, <2>2, Zenon DEF EventOrder
  <2>3. QED  BY <1>3, <2>1, <2>2
<1>5. MessageOf(P, e) \cap MessageOf(P, f) = {}
  BY <1>4, MessagesDisjoint, Zenon
<1>6. QED  BY <1>1, <1>2, <1>5 DEF EventOf

(* The events of the messages that end in the places from Taken up to m. *)
AreNewEvents(P, m, un, es) ==
    /\ es \in Seq(EventIn(P))
    /\ \A i \in DOMAIN es : \E e \in EndsBefore(P, m) :
         Taken <= Place(e) /\ e.unordered = un /\ es[i] = EventOf(P, e)
    /\ \A i, j \in DOMAIN es : \A e, f \in EndsBefore(P, m) :
         i < j /\ es[i] = EventOf(P, e) /\ es[j] = EventOf(P, f) => Place(e) < Place(f)
    /\ \A e \in EndsBefore(P, m) : Taken <= Place(e) /\ e.unordered = un =>
         \E i \in DOMAIN es : es[i] = EventOf(P, e)

(* The events that handle_in_order_packet adds are those. *)
LEMMA NewEvents ==
    ASSUME NEW P, IsPeer(P), Typed(P), InOrder(P), NEW m \in Nat, NEW un \in BOOLEAN,
           NEW ends \in InTsnOrder(Ends(Between(P, Taken, m), un))
    PROVE  AreNewEvents(P, m, un, EventsOf(Between(P, Taken, m), ends))
<1> DEFINE es == EventsOf(Between(P, Taken, m), ends)
<1> DEFINE S == Ends(Between(P, Taken, m), un)
<1>1. tsn_counter \in Tsn /\ Taken \in 0 .. WrapRad /\ Taken \in Nat
  BY TsnAssumption DEF Typed, InOrder
<1>2. \A e \in S : /\ e \in P /\ e.end /\ e.unordered = un /\ Place(e) \in Nat
                   /\ Taken <= Place(e) /\ e \in EndsBefore(P, m) /\ e \in Between(P, Taken, m)
                   /\ Offset(e) = Place(e) - Taken + 1
  BY <1>1, OffsetIs, PlaceFacts, Zenon DEF Ends, Between, EndsBefore
<1>3. \A e \in EndsBefore(P, m) : Taken <= Place(e) /\ e.unordered = un => e \in S
  BY Zenon DEF Ends, Between, EndsBefore
<1>4. Cardinality(S) \in Nat
  <2>1. S \in SUBSET P
    BY <1>2, Zenon
  <2>2. QED  BY <2>1, PeerFinite, FS_Subset, FS_CardinalityType, Zenon
<1>5. /\ ends \in [1 .. Cardinality(S) -> S]
      /\ S = {ends[i] : i \in DOMAIN ends}
      /\ \A i, j \in DOMAIN ends : i < j => Offset(ends[i]) < Offset(ends[j])
  BY Zenon DEF InTsnOrder
<1> HIDE DEF S
<1>6. DOMAIN ends = 1 .. Cardinality(S) /\ \A i \in DOMAIN ends : ends[i] \in S
  BY <1>5, Zenon
<1>7. DOMAIN es = DOMAIN ends
  BY Zenon DEF EventsOf
<1>8. \A i \in DOMAIN es : es[i] = EventOf(P, ends[i])
  <2> SUFFICES ASSUME NEW i \in DOMAIN ends
               PROVE  es[i] = EventOf(P, ends[i])
      BY <1>7, Zenon
  <2>1. Reassembled(Between(P, Taken, m), ends[i]) = MessageOf(P, ends[i])
    BY <1>2, <1>6, ReassembledIs, Zenon
  <2>2. QED  BY <2>1, Zenon DEF EventsOf, EventOf
<1>9. es \in Seq(EventIn(P))
  <2>1. \A e \in S : EventOf(P, e) \in EventIn(P)
    BY <1>2, PlaceFacts, Zenon DEF EventOf, EventIn, MessageOf, Pending
  <2>2. \A i \in 1 .. Cardinality(S) : es[i] \in EventIn(P)
    BY <1>6, <1>7, <1>8, <2>1, Zenon
  <2>3. es = [i \in 1 .. Cardinality(S) |-> es[i]]
    BY <1>6, <1>7, Zenon DEF EventsOf
  <2>4. QED  BY <1>4, <2>2, <2>3
<1>10. \A i \in DOMAIN es : \E e \in EndsBefore(P, m) :
          Taken <= Place(e) /\ e.unordered = un /\ es[i] = EventOf(P, e)
  BY <1>2, <1>6, <1>7, <1>8, Zenon
<1>11. ASSUME NEW i \in DOMAIN es, NEW j \in DOMAIN es, NEW e \in EndsBefore(P, m),
              NEW f \in EndsBefore(P, m), i < j, es[i] = EventOf(P, e), es[j] = EventOf(P, f)
       PROVE  Place(e) < Place(f)
  <2>1. e = ends[i] /\ f = ends[j]
    BY <1>2, <1>6, <1>7, <1>8, <1>11, MessagesDisjoint
  <2>2. Offset(e) < Offset(f)
    BY <1>5, <1>7, <1>11, <2>1, Zenon
  <2>3. QED  BY <1>1, <1>2, <1>6, <1>7, <2>1, <2>2
<1>12. \A e \in EndsBefore(P, m) : Taken <= Place(e) /\ e.unordered = un =>
          \E i \in DOMAIN es : es[i] = EventOf(P, e)
  BY <1>3, <1>5, <1>7, <1>8
<1>13. QED  BY <1>9, <1>10, <1>11, <1>12, Zenon DEF AreNewEvents

(* A peer that numbers more chunks, behind what has been taken in order,   *)
(* changes nothing of what has been received.                              *)
LEMMA PeerGrows ==
    ASSUME NEW P, NEW Q, IsPeer(P), IsPeer(Q), P \subseteq Q, IInv(P),
           \A c \in Q : c \in P \/ Taken <= Place(c)
    PROVE  IInv(Q)
<1>1. Taken \in Nat /\ \A c \in Q : Place(c) \in Nat
  BY PlaceFacts, TsnAssumption DEF IInv, InOrder
<1>2. ASSUME NEW n \in Nat, n <= Taken
      PROVE  EndsBefore(Q, n) = EndsBefore(P, n) /\ Pending(Q, n) = Pending(P, n)
  <2>1. \A c \in Q : Place(c) < n => c \in P
    BY <1>1, <1>2
  <2>2. EndsBefore(Q, n) = EndsBefore(P, n)
    BY <2>1, Zenon DEF EndsBefore
  <2>3. QED  BY <2>1, <2>2, Zenon DEF Pending
<1>3. EndsBefore(Q, Taken) = EndsBefore(P, Taken) /\ Pending(Q, Taken) = Pending(P, Taken)
  BY <1>1, <1>2
<1>4. \A e \in EndsBefore(P, Taken) : EventOf(Q, e) = EventOf(P, e)
  <2> SUFFICES ASSUME NEW e \in EndsBefore(P, Taken)
               PROVE  EventOf(Q, e) = EventOf(P, e)
      BY Zenon
  <2>1. Place(e) \in Nat /\ Place(e) <= Taken
    BY <1>1 DEF EndsBefore
  <2>2. QED  BY <1>2, <2>1, Zenon DEF EventOf, MessageOf
<1>5. Typed(Q)
  <2>1. EventIn(P) \subseteq EventIn(Q)
    BY Zenon DEF EventIn
  <2>2. \A s \in Seq(EventIn(P)) : s \in Seq(EventIn(Q))
    BY <2>1
  <2>3. QED  BY <2>2, Zenon DEF IInv, Typed
<1>6. InOrder(Q)
  BY <1>3, Zenon DEF IInv, InOrder
<1>7. Events(Q)
  BY <1>3, <1>4 DEF IInv, Events
<1>8. EventOrder(Q)
  BY <1>3, <1>4, Zenon DEF IInv, EventOrder
<1>9. QED  BY <1>5, <1>6, <1>7, <1>8, Zenon DEF IInv

-----------------------------------------------------------------------------
(* The steps. *)

(* What queue_ack adds is a notification: no subtraction goes below zero. *)
LEMMA SackIsTyped ==
    ASSUME NEW P, IsPeer(P), tx_notifications \in Seq(TxNotification), NEW counter \in Tsn,
           NEW buffer \in SUBSET P, NEW buffered \in Nat, buffered <= InBufferLimit,
           QueueAck(counter, buffer, buffered)
    PROVE  tx_notifications' \in Seq(TxNotification)
<1>1. \A o \in Offsets(counter, buffer) : o \in Nat
  <2>1. \A c \in buffer : c.tsn \in Tsn
    BY PlaceFacts, Zenon
  <2>2. counter \in Int /\ Tsn \subseteq Nat
    BY TsnAssumption DEF Tsn
  <2>3. \A c \in buffer : WrappingSub(c.tsn, counter) \in Nat
    BY <2>1, <2>2, WrappingType, Zenon
  <2>4. QED  BY <2>3, Zenon DEF Offsets
<1>2. \A r \in SackBlocks(counter, buffer) : r \in Nat \X Nat
  <2>1. \A o \in Nat : o % GapMod \in Nat
    BY RxAssumption
  <2>2. QED  BY <1>1, <2>1 DEF SackBlocks
<1>3. InBufferLimit - buffered \in Nat
  BY RxAssumption
<1>4. [kind |-> "SendSack", cum_tsn |-> counter, a_rwnd |-> InBufferLimit - buffered,
       blocks |-> SackBlocks(counter, buffer)] \in TxNotification
  BY <1>2, <1>3, Zenon DEF TxNotification
<1>5. QED  BY <1>4 DEF QueueAck

(* Nothing is held before anything has arrived. *)
LEMMA InitInv ==
    ASSUME NEW P, IsPeer(P)
    PROVE  Init => IInv(P)
<1> SUFFICES ASSUME Init
             PROVE  IInv(P)
    BY Zenon
<1>1. InitTsn \in Tsn /\ tsn_counter \in Tsn
  BY RxAssumption, IncreaseDecreaseType, Zenon DEF Init
<1>2. Taken = 0
  <2>1. increase(tsn_counter) = InitTsn
    BY <1>1, TsnAssumption DEF Init, increase, decrease, Tsn
  <2>2. QED  BY <1>1, <2>1, WrappingSubIs, TsnAssumption DEF Taken, Tsn
<1>3. EndsBefore(P, 0) = {} /\ Pending(P, 0) = {}
  BY PlaceFacts DEF EndsBefore, Pending
<1>4. AllEvents = <<>> /\ Buffered = {}
  BY DEF Init, AllEvents, Buffered, EventChunks
<1>5. Typed(P)
  BY <1>1 DEF Init, Typed
<1>6. InOrder(P)
  BY <1>2, <1>3, TsnAssumption DEF Init, InOrder
<1>7. Events(P) /\ EventOrder(P)
  BY <1>2, <1>3, <1>4 DEF Events, EventOrder
<1>8. Counted
  <2>1. Octets(Buffered) = {} /\ TotalLen(Buffered) = 0
    BY <1>4, NoOctets, Zenon
  <2>2. IsFiniteSet({}) /\ 0 <= InBufferLimit
    BY FS_EmptySet, RxAssumption
  <2>3. QED  BY <2>1, <2>2, Zenon DEF Init, Counted
<1>9. QED  BY <1>5, <1>6, <1>7, <1>8, Zenon DEF IInv

(* A chunk that is not held yet is counted once. *)
LEMMA CountOne ==
    ASSUME NEW P, IsPeer(P), IInv(P), NEW data \in P, data \notin Buffered, Fits(data)
    PROVE  /\ IsFiniteSet(Octets(Buffered \cup {data}))
           /\ current_in_buffer + BufLen(data) = TotalLen(Buffered \cup {data})
           /\ current_in_buffer + BufLen(data) \in Nat
           /\ current_in_buffer + BufLen(data) <= InBufferLimit
<1>1. Buffered \in SUBSET P
  <2>1. Received \in SUBSET P /\ Buffered \in SUBSET Received
    BY HeldPlaces, Zenon DEF IInv, Typed
  <2>2. QED  BY <2>1, Zenon
<1>2. Octets(Buffered) \cap Octets({data}) = {}
  BY <1>1, OctetsDisjoint
<1>3. Octets({data}) = data.lo .. (data.hi - 1)
  BY OctetsSingle, Zenon
<1>4. data.lo \in Nat /\ data.hi \in Nat /\ data.lo <= data.hi
  BY PlaceFacts
<1>5. IsFiniteSet(Octets(Buffered)) /\ current_in_buffer = TotalLen(Buffered)
  BY Zenon DEF IInv, Counted
<1>6. /\ IsFiniteSet(Octets(Buffered \cup {data}))
      /\ TotalLen(Buffered \cup {data}) = TotalLen(Buffered) + BufLen(data)
      /\ BufLen(data) \in Nat
  BY <1>2, <1>3, <1>4, <1>5, AddChunk, Zenon
<1>7. current_in_buffer \in Nat
  BY Zenon DEF IInv, Typed
<1>8. QED  BY <1>5, <1>6, <1>7 DEF Fits

(* What is said of the events depends on nothing but the events and Taken. *)
LEMMA SameEvents ==
    ASSUME NEW P, IsPeer(P), Events(P), EventOrder(P), AllEvents' = AllEvents, Taken' = Taken
    PROVE  Events(P)' /\ EventOrder(P)'
<1>1. Events(P)'
  BY Zenon DEF Events
<1>2. EventOrder(P)'
  BY DEF EventOrder
<1>3. QED  BY <1>1, <1>2, Zenon

(* A chunk that waits for earlier ones. *)
LEMMA ReorderStep ==
    ASSUME NEW P, IsPeer(P), IInv(P), NEW data \in P, ReorderChunk(data),
           UNCHANGED <<shutdown_state, delivered>>
    PROVE  IInv(P)'
<1>1. tsn_counter \in Tsn /\ Taken \in 0 .. WrapRad
  BY Zenon DEF IInv, Typed, InOrder
<1>2. Place(data) > Taken
  BY <1>1, PlaceOrder, Zenon DEF ReorderChunk
<1>3. data \notin Buffered
  <2>1. Received = tsn_reorder_buffer \cup {c \in P : Place(c) < Taken}
        /\ Buffered \subseteq Received
    BY HeldPlaces, Zenon DEF IInv
  <2>2. ~ (Place(data) < Taken)
    BY <1>1, <1>2, PlaceFacts, TsnAssumption
  <2>3. data \notin tsn_reorder_buffer
    BY Zenon DEF ReorderChunk
  <2>4. QED  BY <2>1, <2>2, <2>3, Zenon
<1>4. UNCHANGED <<tsn_counter, reassemble_queue, ordered_receive_events,
                  unordered_receive_events, delivered>>
      /\ tsn_reorder_buffer' = tsn_reorder_buffer \cup {data}
      /\ current_in_buffer' = current_in_buffer + BufLen(data)
  BY Zenon DEF ReorderChunk
<1>5. Taken' = Taken /\ AllEvents' = AllEvents
  BY <1>4, Zenon DEF Taken, AllEvents
<1>6. Buffered' = Buffered \cup {data}
  BY <1>4 DEF Buffered, EventChunks
<1>7. Counted'
  BY <1>3, <1>4, <1>6, CountOne, Zenon DEF Counted, ReorderChunk
<1>8. Typed(P)'
  <2>1. tsn_reorder_buffer' \in SUBSET P
    BY <1>4, Zenon DEF IInv, Typed
  <2>2. current_in_buffer' \in Nat /\ current_in_buffer' <= InBufferLimit
    BY <1>3, <1>4, CountOne, Zenon DEF ReorderChunk
  <2>3. tx_notifications' \in Seq(TxNotification)
    <3>1. QueueAck(tsn_counter, tsn_reorder_buffer', current_in_buffer')
      BY <1>4, Zenon DEF ReorderChunk
    <3>2. tx_notifications \in Seq(TxNotification)
      BY Zenon DEF IInv, Typed
    <3>3. QED  BY <1>1, <2>1, <2>2, <3>1, <3>2, SackIsTyped, Zenon
  <2>4. QED  BY <1>4, <2>1, <2>2, <2>3, Zenon DEF IInv, Typed
<1>9. InOrder(P)'
  BY <1>2, <1>4, <1>5, Zenon DEF IInv, InOrder
<1>10. Events(P)' /\ EventOrder(P)'
  BY <1>5, SameEvents, Zenon DEF IInv
<1>11. QED  BY <1>7, <1>8, <1>9, <1>10, Zenon DEF IInv

(* What leaves the buffers alone leaves the invariant. *)
LEMMA SameBuffers ==
    ASSUME NEW P, IsPeer(P), IInv(P), UNCHANGED bufferVars,
           shutdown_state' \in {"None", "AbortReceived", "ShutdownReceived", "Complete"},
           tx_notifications' \in Seq(TxNotification)
    PROVE  IInv(P)'
<1>1. Taken' = Taken /\ AllEvents' = AllEvents /\ Buffered' = Buffered
  BY DEF bufferVars, Taken, AllEvents, Buffered, EventChunks
<1>2. Typed(P)'
  BY Zenon DEF IInv, Typed, bufferVars
<1>3. InOrder(P)' /\ Counted'
  BY <1>1, Zenon DEF IInv, bufferVars, InOrder, Counted
<1>4. Events(P)' /\ EventOrder(P)'
  BY <1>1, SameEvents, Zenon DEF IInv
<1>5. QED  BY <1>2, <1>3, <1>4, Zenon DEF IInv

(* A chunk of a stream that does not exist is dropped. *)
LEMMA UnknownStreamStep ==
    ASSUME NEW P, IsPeer(P), IInv(P), NEW data \in P, IgnoreUnknownStream(data),
           UNCHANGED <<shutdown_state, delivered>>
    PROVE  IInv(P)'
<1>1. tx_notifications' \in Seq(TxNotification)
  <2>1. /\ tsn_counter \in Tsn /\ tsn_reorder_buffer \in SUBSET P
        /\ current_in_buffer \in Nat /\ current_in_buffer <= InBufferLimit
        /\ tx_notifications \in Seq(TxNotification)
    BY Zenon DEF IInv, Typed, Counted
  <2>2. QED  BY <2>1, SackIsTyped, Zenon DEF IgnoreUnknownStream
<1>2. UNCHANGED bufferVars
  BY Zenon DEF IgnoreUnknownStream, bufferVars
<1>3. shutdown_state' \in {"None", "AbortReceived", "ShutdownReceived", "Complete"}
  BY Zenon DEF IInv, Typed
<1>4. QED  BY <1>1, <1>2, <1>3, SameBuffers, Zenon

(* A control chunk changes none of the data. *)
LEMMA SignalStep ==
    ASSUME NEW P, IsPeer(P), IInv(P), NEW signal \in PeerSignals, HandleSignal(signal)
    PROVE  IInv(P)'
<1>1. signal \in Signal
  BY RxAssumption, Zenon
<1>2. [kind |-> NotificationOf(signal)] \in TxNotification
  BY <1>1, Zenon DEF Signal, NotificationOf, TxNotification
<1>3. shutdown_state' \in {"None", "AbortReceived", "ShutdownReceived", "Complete"}
  BY Zenon DEF IInv, Typed, HandleSignal, ShutdownStateAfter
<1>4. tx_notifications' \in Seq(TxNotification)
  BY <1>2 DEF IInv, Typed, HandleSignal
<1>5. QED  BY <1>3, <1>4, SameBuffers, Zenon DEF HandleSignal
(* The first event of a queue and the others. *)
LEMMA FirstEvent ==
    ASSUME NEW P, IsPeer(P), NEW s \in Seq(EventIn(P)), s # <<>>
    PROVE  /\ 1 \in DOMAIN s /\ s[1] \in EventIn(P) /\ Tail(s) \in Seq(EventIn(P))
           /\ EventChunks(s) = s[1].data \cup EventChunks(Tail(s))
           /\ \A x \in EventChunks(Tail(s)) : \E i \in DOMAIN s : i # 1 /\ x \in s[i].data
<1>1. /\ Len(s) \in Nat /\ 1 <= Len(s) /\ s[1] \in EventIn(P) /\ Tail(s) \in Seq(EventIn(P))
      /\ DOMAIN s = 1 .. Len(s) /\ DOMAIN Tail(s) = 1 .. Len(s) - 1
      /\ \A i \in 1 .. Len(s) - 1 : Tail(s)[i] = s[i + 1]
  OBVIOUS
<1> DEFINE t == Tail(s)
<1>2. \A i \in DOMAIN t : i + 1 \in DOMAIN s /\ i + 1 # 1 /\ t[i] = s[i + 1]
  BY <1>1
<1>3. \A i \in DOMAIN s : i # 1 => i - 1 \in DOMAIN t /\ t[i - 1] = s[i]
  <2> SUFFICES ASSUME NEW i \in DOMAIN s, i # 1
               PROVE  i - 1 \in DOMAIN t /\ t[i - 1] = s[i]
      BY Zenon
  <2>1. i - 1 \in 1 .. Len(s) - 1 /\ (i - 1) + 1 = i
    BY <1>1
  <2>2. QED  BY <1>1, <2>1, Zenon
<1>4. 1 \in DOMAIN s
  BY <1>1
<1> HIDE DEF t
<1>5. \A x \in EventChunks(t) : \E i \in DOMAIN s : i # 1 /\ x \in s[i].data
  BY <1>2, Zenon DEF EventChunks
<1>6. \A x \in EventChunks(s) : x \in s[1].data \/ x \in EventChunks(t)
  BY <1>3, Zenon DEF EventChunks
<1>7. \A x \in s[1].data : x \in EventChunks(s)
  BY <1>4, Zenon DEF EventChunks
<1>8. \A x \in EventChunks(t) : x \in EventChunks(s)
  BY <1>5, Zenon DEF EventChunks
<1>9. EventChunks(s) = s[1].data \cup EventChunks(t)
  BY <1>6, <1>7, <1>8, Zenon
<1>10. QED  BY <1>1, <1>4, <1>5, <1>9, Zenon DEF t

(* poll_data takes one event out of the buffers, and its bytes out of the   *)
(* count.                                                                   *)
LEMMA PollStep ==
    ASSUME NEW P, IsPeer(P), IInv(P), PollData
    PROVE  IInv(P)'
<1> DEFINE d == Len(delivered)
           u == Len(unordered_receive_events)
           waiting == EventChunks(unordered_receive_events) \cup EventChunks(ordered_receive_events)
<1>1. /\ delivered \in Seq(EventIn(P)) /\ unordered_receive_events \in Seq(EventIn(P))
      /\ ordered_receive_events \in Seq(EventIn(P)) /\ Typed(P)
  BY Zenon DEF IInv, Typed
<1>2. /\ d \in Nat /\ u \in Nat /\ DOMAIN AllEvents = 1 .. d + u + Len(ordered_receive_events)
      /\ DOMAIN unordered_receive_events = 1 .. u
      /\ DOMAIN ordered_receive_events = 1 .. Len(ordered_receive_events)
      /\ Len(ordered_receive_events) \in Nat
      /\ \A i \in 1 .. u : AllEvents[d + i] = unordered_receive_events[i]
      /\ \A i \in 1 .. Len(ordered_receive_events) :
           AllEvents[d + u + i] = ordered_receive_events[i]
  BY <1>1, AllEventsIs, Zenon
<1> HIDE DEF d, u
<1>3. \A i \in DOMAIN unordered_receive_events :
         d + i \in DOMAIN AllEvents /\ AllEvents[d + i] = unordered_receive_events[i]
  BY <1>2
<1>4. \A i \in DOMAIN ordered_receive_events :
         d + u + i \in DOMAIN AllEvents /\ AllEvents[d + u + i] = ordered_receive_events[i]
  BY <1>2
<1>5. \E ev \in EventIn(P) : /\ delivered' = Append(delivered, ev)
                        /\ unordered_receive_events' \in Seq(EventIn(P))
                        /\ ordered_receive_events' \in Seq(EventIn(P))
                        /\ AllEvents' = AllEvents
                        /\ waiting = ev.data \cup waiting'
                        /\ ev.data \cap waiting' = {}
  <2>1. CASE unordered_receive_events # <<>> /\ PopUnordered
    <3> DEFINE ev == unordered_receive_events[1]
    <3>1. /\ unordered_receive_events # <<>> /\ delivered' = Append(delivered, ev)
          /\ unordered_receive_events' = Tail(unordered_receive_events)
          /\ ordered_receive_events' = ordered_receive_events
      BY <2>1, Zenon DEF PopUnordered
    <3>2. /\ 1 \in DOMAIN unordered_receive_events /\ ev \in EventIn(P)
          /\ Tail(unordered_receive_events) \in Seq(EventIn(P))
          /\ EventChunks(unordered_receive_events)
               = ev.data \cup EventChunks(Tail(unordered_receive_events))
          /\ \A x \in EventChunks(Tail(unordered_receive_events)) :
               \E i \in DOMAIN unordered_receive_events :
                   i # 1 /\ x \in unordered_receive_events[i].data
      BY <1>1, <3>1, FirstEvent, Zenon
    <3>3. AllEvents' = AllEvents
      <4>1. Append(delivered, ev) \o Tail(unordered_receive_events)
              = delivered \o unordered_receive_events
        BY <1>1, <3>1, MoveFirst, Zenon
      <4>2. QED  BY <3>1, <4>1, Zenon DEF AllEvents
    <3>4. \A x \in waiting' : \E i \in DOMAIN AllEvents : i # d + 1 /\ x \in AllEvents[i].data
      <4> SUFFICES ASSUME NEW x \in waiting'
                   PROVE  \E i \in DOMAIN AllEvents : i # d + 1 /\ x \in AllEvents[i].data
          BY Zenon
      <4>1. CASE x \in EventChunks(Tail(unordered_receive_events))
        <5>1. PICK i \in DOMAIN unordered_receive_events :
                     i # 1 /\ x \in unordered_receive_events[i].data
          BY <3>2, <4>1, Zenon
        <5>2. d + i # d + 1
          BY <1>2, <5>1
        <5>3. QED  BY <1>3, <5>1, <5>2, Zenon
      <4>2. CASE x \in EventChunks(ordered_receive_events)
        <5>1. PICK i \in DOMAIN ordered_receive_events : x \in ordered_receive_events[i].data
          BY <4>2, Zenon DEF EventChunks
        <5>2. 1 <= u
          BY <1>2, <3>2
        <5>3. d + u + i # d + 1
          BY <1>2, <5>2
        <5>4. QED  BY <1>4, <5>1, <5>3, Zenon
      <4>3. QED  BY <3>1, <4>1, <4>2, Zenon
    <3>5. ev.data \cap waiting' = {}
      <4>1. d + 1 \in DOMAIN AllEvents /\ AllEvents[d + 1] = ev
        BY <1>3, <3>2, Zenon
      <4>2. QED  BY <1>1, <3>4, <4>1, EventsDisjoint, Zenon DEF IInv
    <3>6. QED  BY <1>1, <3>1, <3>2, <3>3, <3>5, Zenon
  <2>2. CASE unordered_receive_events = <<>> /\ PopOrdered
    <3> DEFINE ev == ordered_receive_events[1]
    <3>1. /\ unordered_receive_events = <<>> /\ ordered_receive_events # <<>>
          /\ delivered' = Append(delivered, ev)
          /\ ordered_receive_events' = Tail(ordered_receive_events)
          /\ unordered_receive_events' = unordered_receive_events
      BY <2>2, Zenon DEF PopOrdered
    <3>2. /\ 1 \in DOMAIN ordered_receive_events /\ ev \in EventIn(P)
          /\ Tail(ordered_receive_events) \in Seq(EventIn(P))
          /\ EventChunks(ordered_receive_events)
               = ev.data \cup EventChunks(Tail(ordered_receive_events))
          /\ \A x \in EventChunks(Tail(ordered_receive_events)) :
               \E i \in DOMAIN ordered_receive_events :
                   i # 1 /\ x \in ordered_receive_events[i].data
      BY <1>1, <3>1, FirstEvent, Zenon
    <3>3. AllEvents' = AllEvents
      <4>1. Append(delivered, ev) \o Tail(ordered_receive_events)
              = delivered \o ordered_receive_events
        BY <1>1, <3>1, MoveFirst, Zenon
      <4>2. \A s \in Seq(EventIn(P)) : s \o <<>> = s
        OBVIOUS
      <4>3. Append(delivered, ev) \in Seq(EventIn(P))
        BY <1>1, <3>2
      <4>4. QED  BY <1>1, <3>1, <4>1, <4>2, <4>3, Zenon DEF AllEvents
    <3>4. EventChunks(unordered_receive_events) = {}
      BY <3>1 DEF EventChunks
    <3>5. \A x \in waiting' : \E i \in DOMAIN AllEvents : i # d + u + 1 /\ x \in AllEvents[i].data
      <4> SUFFICES ASSUME NEW x \in EventChunks(Tail(ordered_receive_events))
                   PROVE  \E i \in DOMAIN AllEvents : i # d + u + 1 /\ x \in AllEvents[i].data
          BY <3>1, <3>4, Zenon
      <4>1. PICK i \in DOMAIN ordered_receive_events :
                   i # 1 /\ x \in ordered_receive_events[i].data
        BY <3>2, Zenon
      <4>2. d + u + i # d + u + 1
        BY <1>2, <4>1
      <4>3. QED  BY <1>4, <4>1, <4>2, Zenon
    <3>6. ev.data \cap waiting' = {}
      <4>1. d + u + 1 \in DOMAIN AllEvents /\ AllEvents[d + u + 1] = ev
        BY <1>4, <3>2, Zenon
      <4>2. QED  BY <1>1, <3>5, <4>1, EventsDisjoint, Zenon DEF IInv
    <3>7. QED  BY <1>1, <3>1, <3>2, <3>3, <3>4, <3>6, Zenon
  <2>3. QED  BY <2>1, <2>2, Zenon DEF PollData, PopNextReceiveEvent
<1>6. PICK ev \in EventIn(P) : /\ delivered' = Append(delivered, ev)
                          /\ unordered_receive_events' \in Seq(EventIn(P))
                          /\ ordered_receive_events' \in Seq(EventIn(P))
                          /\ AllEvents' = AllEvents
                          /\ waiting = ev.data \cup waiting'
                          /\ ev.data \cap waiting' = {}
  BY <1>5, Zenon
<1>7. /\ UNCHANGED <<tsn_counter, tsn_reorder_buffer, reassemble_queue, shutdown_state,
                     tx_notifications>>
      /\ current_in_buffer' = current_in_buffer - TotalLen(ev.data)
  <2>1. delivered'[Len(delivered')] = ev
    BY <1>1, <1>6
  <2>2. QED  BY <2>1, Zenon DEF PollData
<1>8. Taken' = Taken
  BY <1>7, Zenon DEF Taken
<1>9. Buffered' = Buffered \ ev.data /\ ev.data \subseteq Buffered
  <2>1. /\ Buffered = (tsn_reorder_buffer \cup reassemble_queue) \cup waiting
        /\ Buffered' = (tsn_reorder_buffer \cup reassemble_queue) \cup waiting'
    BY <1>7, Zenon DEF Buffered
  <2>2. ev.data \cap (tsn_reorder_buffer \cup reassemble_queue) = {}
    <3>1. ev.data \subseteq EventChunks(AllEvents)
      BY <1>1, <1>6, EventChunksAre, Zenon
    <3>2. /\ EventChunks(AllEvents) \cap reassemble_queue = {}
          /\ \A c \in EventChunks(AllEvents) : c \in P /\ Place(c) < Taken
      BY HeldPlaces, Zenon DEF IInv
    <3>3. \A c \in tsn_reorder_buffer : Place(c) > Taken /\ Taken \in Int
      BY TsnAssumption DEF IInv, InOrder
    <3>4. \A c \in EventChunks(AllEvents) : Place(c) \in Int
      BY <3>2, PlaceFacts
    <3>5. QED  BY <3>1, <3>2, <3>3, <3>4
  <2>3. QED  BY <1>6, <2>1, <2>2, Zenon
<1> HIDE DEF waiting
<1>10. Counted' /\ current_in_buffer' \in Nat
  <2>1. Buffered \in SUBSET P
    <3>1. Received \in SUBSET P /\ Buffered \in SUBSET Received
      BY HeldPlaces, Zenon DEF IInv, Typed
    <3>2. QED  BY <3>1, Zenon
  <2>2. Octets(Buffered \ ev.data) \cap Octets(ev.data) = {}
    BY <1>9, <2>1, OctetsDisjoint, Zenon
  <2>3. /\ IsFiniteSet(Octets(Buffered)) /\ current_in_buffer = TotalLen(Buffered)
        /\ current_in_buffer <= InBufferLimit
    BY Zenon DEF IInv, Counted
  <2>4. /\ IsFiniteSet(Octets(Buffered \ ev.data))
        /\ TotalLen(Buffered \ ev.data) = TotalLen(Buffered) - TotalLen(ev.data)
        /\ TotalLen(Buffered \ ev.data) \in Nat /\ TotalLen(ev.data) \in Nat
        /\ TotalLen(Buffered) \in Nat
    BY <1>9, <2>2, <2>3, RemoveChunks, ZenonT(30)
  <2>5. current_in_buffer' = TotalLen(Buffered')
    BY <1>7, <1>9, <2>3, <2>4, Zenon
  <2>6. current_in_buffer' <= InBufferLimit
    BY <1>7, <2>3, <2>4, RxAssumption
  <2>7. QED  BY <1>9, <2>4, <2>5, <2>6, Zenon DEF Counted
<1>11. Typed(P)'
  BY <1>1, <1>6, <1>7, <1>10 DEF IInv, Typed
<1>12. InOrder(P)'
  BY <1>7, <1>8, Zenon DEF IInv, InOrder
<1>13. Events(P)' /\ EventOrder(P)'
  BY <1>6, <1>8, SameEvents, Zenon DEF IInv
<1>14. QED  BY <1>10, <1>11, <1>12, <1>13, Zenon DEF IInv
(* The events after handle_in_order_packet are those of the messages that   *)
(* have ended then, each once, the ordered ones in their order.             *)
LEMMA DrainEvents ==
    ASSUME NEW P, IsPeer(P), IInv(P), NEW m \in Nat, Taken <= m, Taken' = m, delivered' = delivered,
           NEW eo, NEW eu, AreNewEvents(P, m, FALSE, eo), AreNewEvents(P, m, TRUE, eu),
           ordered_receive_events' = ordered_receive_events \o eo,
           unordered_receive_events' = unordered_receive_events \o eu
    PROVE  Events(P)' /\ EventOrder(P)'
<1>1. /\ delivered \in Seq(EventIn(P)) /\ unordered_receive_events \in Seq(EventIn(P))
      /\ ordered_receive_events \in Seq(EventIn(P)) /\ eu \in Seq(EventIn(P)) /\ eo \in Seq(EventIn(P))
      /\ Taken \in Nat
  BY TsnAssumption DEF IInv, Typed, InOrder, AreNewEvents
<1> DEFINE all == AllEvents'
<1>2. WovenOrder(AllEvents, eu, eo, all)
  <2>1. WovenOrder(Joined(delivered, unordered_receive_events, ordered_receive_events), eu, eo,
              Joined(delivered, unordered_receive_events \o eu, ordered_receive_events \o eo))
    BY <1>1, Extended, Zenon
  <2>2. QED  BY <2>1, Zenon DEF Joined, AllEvents
<1> HIDE DEF all
<1>3. \A e \in EndsBefore(P, m) : /\ e \in P /\ Place(e) \in Nat
                               /\ (Place(e) < Taken <=> e \in EndsBefore(P, Taken))
  BY PlaceFacts, Zenon DEF EndsBefore
<1>4. \A e \in EndsBefore(P, Taken) : e \in EndsBefore(P, m)
  BY <1>1, PlaceFacts DEF EndsBefore
<1>5. \A j \in DOMAIN AllEvents : \E e \in EndsBefore(P, Taken) : AllEvents[j] = EventOf(P, e)
  BY Zenon DEF IInv, Events
<1>6. /\ \A j \in DOMAIN eu : \E e \in EndsBefore(P, m) :
             Taken <= Place(e) /\ e.unordered = TRUE /\ eu[j] = EventOf(P, e)
      /\ \A j \in DOMAIN eo : \E e \in EndsBefore(P, m) :
             Taken <= Place(e) /\ e.unordered = FALSE /\ eo[j] = EventOf(P, e)
  BY Zenon DEF AreNewEvents
<1>7. \A i \in DOMAIN all : \E e \in EndsBefore(P, m) : all[i] = EventOf(P, e)
  <2> SUFFICES ASSUME NEW i \in DOMAIN all
               PROVE  \E e \in EndsBefore(P, m) : all[i] = EventOf(P, e)
      BY Zenon
  <2>1. \/ \E j \in DOMAIN AllEvents : all[i] = AllEvents[j]
        \/ \E k \in DOMAIN eu : all[i] = eu[k]
        \/ \E k \in DOMAIN eo : all[i] = eo[k]
    BY <1>2, Zenon DEF WovenOrder
  <2>2. QED  BY <1>4, <1>5, <1>6, <2>1
<1>8. ASSUME NEW e \in EndsBefore(P, m)
      PROVE  \E i \in DOMAIN all : all[i] = EventOf(P, e)
  <2>1. CASE e \in EndsBefore(P, Taken)
    <3>1. PICK j \in DOMAIN AllEvents : AllEvents[j] = EventOf(P, e)
      BY <2>1, Zenon DEF IInv, Events
    <3>2. QED  BY <1>2, <3>1 DEF WovenOrder
  <2>2. CASE Taken <= Place(e)
    <3>1. e.unordered \in BOOLEAN
      BY <1>3, PlaceFacts, Zenon
    <3>2. CASE e.unordered = TRUE
      <4>1. PICK k \in DOMAIN eu : eu[k] = EventOf(P, e)
        BY <2>2, <3>2, Zenon DEF AreNewEvents
      <4>2. QED  BY <1>2, <4>1 DEF WovenOrder
    <3>3. CASE e.unordered = FALSE
      <4>1. PICK k \in DOMAIN eo : eo[k] = EventOf(P, e)
        BY <2>2, <3>3, Zenon DEF AreNewEvents
      <4>2. QED  BY <1>2, <4>1, SMTT(30) DEF WovenOrder
    <3>4. QED  BY <3>1, <3>2, <3>3, Zenon
  <2>3. QED  BY <1>1, <1>3, <2>1, <2>2
(* An event is that of one end: where it comes from tells which. *)
<1>9. \A e, f \in EndsBefore(P, m) : EventOf(P, e) = EventOf(P, f) => e = f
  BY MessagesDisjoint, Zenon
<1>10. ASSUME NEW e \in EndsBefore(P, m), NEW j \in DOMAIN AllEvents, AllEvents[j] = EventOf(P, e)
       PROVE  e \in EndsBefore(P, Taken) /\ Place(e) < Taken
  BY <1>3, <1>4, <1>5, <1>9, <1>10, Zenon
<1>11. ASSUME NEW e \in EndsBefore(P, m), NEW j \in DOMAIN eu, eu[j] = EventOf(P, e)
       PROVE  Taken <= Place(e) /\ e.unordered = TRUE
  BY <1>6, <1>9, <1>11, Zenon
<1>12. ASSUME NEW e \in EndsBefore(P, m), NEW j \in DOMAIN eo, eo[j] = EventOf(P, e)
       PROVE  Taken <= Place(e) /\ e.unordered = FALSE
  BY <1>6, <1>9, <1>12, Zenon
<1>13. ASSUME NEW i \in DOMAIN all, NEW j \in DOMAIN all, NEW e \in EndsBefore(P, m),
              NEW f \in EndsBefore(P, m), i < j, all[i] = EventOf(P, e), all[j] = EventOf(P, f)
       PROVE  e # f /\ (~ e.unordered /\ ~ f.unordered => Place(e) < Place(f))
  <2>0. Place(e) \in Nat /\ Place(f) \in Nat
    BY <1>3, Zenon
  <2>1. CASE \E a, b \in DOMAIN AllEvents :
                 a < b /\ all[i] = AllEvents[a] /\ all[j] = AllEvents[b]
    <3>1. PICK a \in DOMAIN AllEvents, b \in DOMAIN AllEvents :
                 a < b /\ all[i] = AllEvents[a] /\ all[j] = AllEvents[b]
      BY <2>1, Zenon
    <3>2. e \in EndsBefore(P, Taken) /\ f \in EndsBefore(P, Taken)
      BY <1>10, <1>13, <3>1, Zenon
    <3>3. QED  BY <1>13, <3>1, <3>2, ZenonT(30) DEF IInv, EventOrder
  <2>2. CASE \E a \in DOMAIN AllEvents, b \in DOMAIN eu : all[i] = AllEvents[a] /\ all[j] = eu[b]
    <3>1. Place(e) < Taken /\ Taken <= Place(f)
      BY <1>10, <1>11, <1>13, <2>2, ZenonT(30)
    <3>2. QED  BY <1>1, <2>0, <3>1
  <2>3. CASE \E a \in DOMAIN AllEvents, b \in DOMAIN eo : all[i] = AllEvents[a] /\ all[j] = eo[b]
    <3>1. Place(e) < Taken /\ Taken <= Place(f)
      BY <1>10, <1>12, <1>13, <2>3, ZenonT(30)
    <3>2. QED  BY <1>1, <2>0, <3>1
  <2>4. CASE \E a \in DOMAIN eu, b \in DOMAIN AllEvents : all[i] = eu[a] /\ all[j] = AllEvents[b]
    <3>1. Place(f) < Taken /\ Taken <= Place(e) /\ e.unordered = TRUE
      BY <1>10, <1>11, <1>13, <2>4, ZenonT(30)
    <3>2. QED  BY <1>1, <2>0, <3>1
  <2>5. CASE \E a, b \in DOMAIN eu : a < b /\ all[i] = eu[a] /\ all[j] = eu[b]
    <3>1. Place(e) < Place(f)
      BY <1>13, <2>5, Zenon DEF AreNewEvents
    <3>2. QED  BY <2>0, <3>1
  <2>6. CASE \E a \in DOMAIN eu, b \in DOMAIN eo : all[i] = eu[a] /\ all[j] = eo[b]
    <3>1. e.unordered = TRUE /\ f.unordered = FALSE
      BY <1>11, <1>12, <1>13, <2>6, Zenon
    <3>2. QED  BY <3>1, Zenon
  <2>7. CASE \E a, b \in DOMAIN eo : a < b /\ all[i] = eo[a] /\ all[j] = eo[b]
    <3>1. Place(e) < Place(f)
      BY <1>13, <2>7, Zenon DEF AreNewEvents
    <3>2. QED  BY <2>0, <3>1
  <2>8. QED  BY <1>2, <1>13, <2>1, <2>2, <2>3, <2>4, <2>5, <2>6, <2>7, ZenonT(30) DEF WovenOrder
<1>14. Events(P)'
  BY <1>7, <1>8, Zenon DEF Events, all
<1>15. EventOrder(P)'
  BY <1>13, Zenon DEF EventOrder, all
<1>16. QED  BY <1>14, <1>15, Zenon

(* The chunks of a queue to which events are added. *)
LEMMA ConcatChunks ==
    ASSUME NEW P, IsPeer(P), NEW s \in Seq(EventIn(P)), NEW t \in Seq(EventIn(P))
    PROVE  EventChunks(s \o t) = EventChunks(s) \cup EventChunks(t)
<1>1. /\ Len(s) \in Nat /\ Len(t) \in Nat /\ DOMAIN s = 1 .. Len(s) /\ DOMAIN t = 1 .. Len(t)
      /\ DOMAIN (s \o t) = 1 .. Len(s) + Len(t)
      /\ \A i \in 1 .. Len(s) : (s \o t)[i] = s[i]
      /\ \A i \in 1 .. Len(t) : (s \o t)[Len(s) + i] = t[i]
  OBVIOUS
<1> DEFINE st == s \o t
<1> HIDE DEF st
<1>2. \A i \in DOMAIN s : i \in DOMAIN st /\ st[i] = s[i]
  BY <1>1 DEF st
<1>3. \A i \in DOMAIN t : Len(s) + i \in DOMAIN st /\ st[Len(s) + i] = t[i]
  BY <1>1 DEF st
<1>4. ASSUME NEW i \in DOMAIN st
      PROVE  (i \in DOMAIN s /\ st[i] = s[i]) \/ \E j \in DOMAIN t : st[i] = t[j]
  <2>1. CASE i <= Len(s)
    BY <1>1, <2>1 DEF st
  <2>2. CASE i > Len(s)
    <3>1. i - Len(s) \in DOMAIN t /\ Len(s) + (i - Len(s)) = i
      BY <1>1, <2>2 DEF st
    <3>2. QED  BY <1>3, <3>1, Zenon
  <2>3. QED  BY <1>1, <2>1, <2>2 DEF st
<1>5. \A x \in EventChunks(st) : x \in EventChunks(s) \/ x \in EventChunks(t)
  BY <1>4, Zenon DEF EventChunks
<1>6. \A x \in EventChunks(s) : x \in EventChunks(st)
  BY <1>2, Zenon DEF EventChunks
<1>7. \A x \in EventChunks(t) : x \in EventChunks(st)
  BY <1>3, Zenon DEF EventChunks
<1>8. QED  BY <1>5, <1>6, <1>7, Zenon DEF st

(* The chunks of the messages that end between two places. *)
Completed(P, n, m) == UNION {MessageOf(P, e) : e \in {c \in Between(P, n, m) : c.end}}

(* The new events hold the messages that have been completed. *)
LEMMA NewChunks ==
    ASSUME NEW P, IsPeer(P), Taken \in Nat, NEW m \in Nat, NEW eo, NEW eu,
           AreNewEvents(P, m, FALSE, eo), AreNewEvents(P, m, TRUE, eu)
    PROVE  EventChunks(eo) \cup EventChunks(eu) = Completed(P, Taken, m)
<1> DEFINE ended == {c \in Between(P, Taken, m) : c.end}
<1>1. \A e \in EndsBefore(P, m) : Taken <= Place(e) => e \in ended
  BY Zenon DEF EndsBefore, Between
<1>2. \A e \in ended : /\ e \in EndsBefore(P, m) /\ Taken <= Place(e)
                       /\ e.unordered \in BOOLEAN
  BY PlaceFacts, Zenon DEF EndsBefore, Between
<1> HIDE DEF ended
<1>3. ASSUME NEW es, NEW un, AreNewEvents(P, m, un, es), NEW x \in EventChunks(es)
      PROVE  \E e \in ended : x \in MessageOf(P, e)
  <2>1. PICK i \in DOMAIN es : x \in es[i].data
    BY Zenon DEF EventChunks
  <2>2. PICK e \in EndsBefore(P, m) : Taken <= Place(e) /\ es[i] = EventOf(P, e)
    BY <1>3, Zenon DEF AreNewEvents
  <2>3. e \in ended /\ x \in MessageOf(P, e)
    BY <1>1, <2>1, <2>2 DEF EventOf
  <2>4. QED  BY <2>3, Zenon
<1>4. \A x \in EventChunks(eo) \cup EventChunks(eu) : \E e \in ended : x \in MessageOf(P, e)
  BY <1>3, Zenon
<1>5. ASSUME NEW e \in ended, NEW x \in MessageOf(P, e)
      PROVE  x \in EventChunks(eo) \cup EventChunks(eu)
  <2>1. CASE e.unordered = TRUE
    <3>1. PICK i \in DOMAIN eu : eu[i] = EventOf(P, e)
      BY <1>2, <2>1, Zenon DEF AreNewEvents
    <3>2. x \in eu[i].data
      BY <3>1 DEF EventOf
    <3>3. QED  BY <3>2, Zenon DEF EventChunks
  <2>2. CASE e.unordered = FALSE
    <3>1. PICK i \in DOMAIN eo : eo[i] = EventOf(P, e)
      BY <1>2, <2>2, Zenon DEF AreNewEvents
    <3>2. x \in eo[i].data
      BY <3>1 DEF EventOf
    <3>3. QED  BY <3>2, Zenon DEF EventChunks
  <2>3. QED  BY <1>2, <2>1, <2>2, Zenon
<1>6. QED  BY <1>4, <1>5, Zenon DEF ended, Completed
(* What handle_in_order_packet does to the buffers, by the place m of the   *)
(* next chunk to take when it is done.                                      *)
Drained(P, data, m) ==
    /\ m \in Nat /\ Taken < m /\ m <= WrapRad /\ Taken' = m
    /\ \E c \in P : Place(c) = m - 1
    /\ tsn_counter' \in Tsn
    /\ tsn_reorder_buffer' = {c \in tsn_reorder_buffer : Place(c) > m}
    /\ \A c \in tsn_reorder_buffer : Place(c) = m => ~ KnownStream(c)
    /\ current_in_buffer' = current_in_buffer + BufLen(data)
                              - TotalLen({c \in tsn_reorder_buffer : Place(c) = m})
    /\ data \in Between(P, Taken, m) /\ Between(P, Taken, m) \subseteq tsn_reorder_buffer \cup {data}
    /\ reassemble_queue' = Pending(P, m)
    /\ \E eo, eu : /\ AreNewEvents(P, m, FALSE, eo) /\ AreNewEvents(P, m, TRUE, eu)
                   /\ ordered_receive_events' = ordered_receive_events \o eo
                   /\ unordered_receive_events' = unordered_receive_events \o eu
    /\ QueueAck(tsn_counter', tsn_reorder_buffer', current_in_buffer')

(* handle_in_order_packet, with the loop that drains the reorder buffer, takes chunks in order. *)
LEMMA DrainDoes ==
    ASSUME NEW P, IsPeer(P), IInv(P), NEW data \in P, HandleInOrderPacket(data)
    PROVE  \E m : Drained(P, data, m)
<1>1. Typed(P) /\ InOrder(P) /\ tsn_counter \in Tsn /\ Taken \in 0 .. WrapRad
  BY Zenon DEF IInv, Typed, InOrder
<1>2. Cardinality(tsn_reorder_buffer) \in Nat
  <2>1. tsn_reorder_buffer \subseteq P
    BY <1>1, Zenon DEF Typed
  <2>2. QED  BY <2>1, PeerFinite, FS_Subset, FS_CardinalityType, Zenon
<1>3. PICK n \in 0 .. Cardinality(tsn_reorder_buffer) :
         LET new == {data} \cup NextInOrder(n)
             done == UNION {Reassembled(new, e) : e \in {c \in new : c.end}}
         IN  /\ IsDrain(n)
             /\ tsn_counter' = WrappingAdd(tsn_counter, n + 1)
             /\ tsn_reorder_buffer' = tsn_reorder_buffer \ (NextInOrder(n) \cup Following(n))
             /\ current_in_buffer' = current_in_buffer + BufLen(data) - TotalLen(Following(n))
             /\ reassemble_queue' = (reassemble_queue \cup new) \ done
             /\ \E ends \in InTsnOrder(Ends(new, FALSE)) :
                  ordered_receive_events' = ordered_receive_events \o EventsOf(new, ends)
             /\ \E ends \in InTsnOrder(Ends(new, TRUE)) :
                  unordered_receive_events' = unordered_receive_events \o EventsOf(new, ends)
             /\ QueueAck(tsn_counter', tsn_reorder_buffer', current_in_buffer')
  BY Zenon DEF HandleInOrderPacket
<1>4. n \in Nat
  BY <1>2
<1> DEFINE m == Taken + n + 1
           new == Between(P, Taken, m)
           done == UNION {Reassembled(new, e) : e \in {c \in new : c.end}}
<1>5. m \in Nat /\ Taken < m /\ n + 1 \in Nat /\ Taken + (n + 1) = m /\ Taken \in Nat
  BY <1>1, <1>4, TsnAssumption
<1> HIDE DEF m, new, done
<1>6. data.tsn = increase(tsn_counter)
  BY Zenon DEF HandleInOrderPacket
<1>7. IsDrain(n)
  BY <1>3, Zenon
<1>8. /\ m <= WrapRad /\ \E c \in P : Place(c) = Taken + n
      /\ {data} \cup NextInOrder(n) = new
      /\ NextInOrder(n) = {c \in tsn_reorder_buffer : Place(c) < m}
      /\ Following(n) = {c \in tsn_reorder_buffer : Place(c) = m}
  BY <1>1, <1>4, <1>6, <1>7, DrainTakes, Zenon DEF m, new
<1>9. /\ tsn_counter' = WrappingAdd(tsn_counter, n + 1)
      /\ tsn_reorder_buffer' = tsn_reorder_buffer \ (NextInOrder(n) \cup Following(n))
      /\ current_in_buffer' = current_in_buffer + BufLen(data) - TotalLen(Following(n))
      /\ reassemble_queue' = (reassemble_queue \cup new) \ done
      /\ \E ends \in InTsnOrder(Ends(new, FALSE)) :
                  ordered_receive_events' = ordered_receive_events \o EventsOf(new, ends)
      /\ \E ends \in InTsnOrder(Ends(new, TRUE)) :
                  unordered_receive_events' = unordered_receive_events \o EventsOf(new, ends)
      /\ QueueAck(tsn_counter', tsn_reorder_buffer', current_in_buffer')
  BY <1>3, <1>8, ZenonT(30) DEF done
<1>10. Taken' = m /\ tsn_counter' \in Tsn
  BY <1>1, <1>5, <1>8, <1>9, CounterAdvance, Zenon DEF Taken
<1>11. tsn_reorder_buffer' = {c \in tsn_reorder_buffer : Place(c) > m}
  <2>1. \A c \in tsn_reorder_buffer : Place(c) \in Nat
    BY <1>1, PlaceFacts, Zenon DEF Typed
  <2>2. QED  BY <1>5, <1>8, <1>9, <2>1
<1>12. \A c \in tsn_reorder_buffer : Place(c) = m => ~ KnownStream(c)
  BY <1>7, <1>8, Zenon DEF IsDrain
<1>13. current_in_buffer' = current_in_buffer + BufLen(data)
                              - TotalLen({c \in tsn_reorder_buffer : Place(c) = m})
  BY <1>8, <1>9, Zenon
<1>14. data \in new /\ new \subseteq tsn_reorder_buffer \cup {data}
  BY <1>8, Zenon
<1>15. reassemble_queue' = Pending(P, m)
  <2>1. \A e \in new : e.end => Reassembled(new, e) = MessageOf(P, e)
    BY <1>1, <1>5, ReassembledIs, Zenon DEF new
  <2>2. done = UNION {MessageOf(P, e) : e \in {c \in new : c.end}}
    BY <2>1, Zenon DEF done
  <2>3. (Pending(P, Taken) \cup new) \ UNION {MessageOf(P, e) : e \in {c \in new : c.end}} = Pending(P, m)
    BY <1>5, PendingStep DEF new
  <2>4. reassemble_queue = Pending(P, Taken)
    BY <1>1, Zenon DEF InOrder
  <2>5. QED  BY <1>9, <2>2, <2>3, <2>4, Zenon
<1>16. PICK eo : AreNewEvents(P, m, FALSE, eo)
                 /\ ordered_receive_events' = ordered_receive_events \o eo
  <2>1. PICK ends \in InTsnOrder(Ends(new, FALSE)) :
                  ordered_receive_events' = ordered_receive_events \o EventsOf(new, ends)
    BY <1>9, Zenon
  <2>2. AreNewEvents(P, m, FALSE, EventsOf(new, ends))
    BY <1>1, <1>5, NewEvents, Zenon DEF new
  <2>3. QED  BY <2>1, <2>2, Zenon
<1>17. PICK eu : AreNewEvents(P, m, TRUE, eu)
                 /\ unordered_receive_events' = unordered_receive_events \o eu
  <2>1. PICK ends \in InTsnOrder(Ends(new, TRUE)) :
                  unordered_receive_events' = unordered_receive_events \o EventsOf(new, ends)
    BY <1>9, Zenon
  <2>2. AreNewEvents(P, m, TRUE, EventsOf(new, ends))
    BY <1>1, <1>5, NewEvents, Zenon DEF new
  <2>3. QED  BY <2>1, <2>2, Zenon
<1>18. \E c \in P : Place(c) = m - 1
  BY <1>4, <1>5, <1>8 DEF m
<1>19. Drained(P, data, m)
  BY <1>5, <1>8, <1>9, <1>10, <1>11, <1>12, <1>13, <1>14, <1>15, <1>16, <1>17, <1>18,
     ZenonT(30) DEF Drained, new
<1>20. QED  BY <1>19, Zenon

(* A chunk that is the next one, and those that waited for it. *)
LEMMA DrainStep ==
    ASSUME NEW P, IsPeer(P), IInv(P), NEW data \in P, HandleInOrderPacket(data),
           UNCHANGED <<shutdown_state, delivered>>
    PROVE  IInv(P)'
<1>1. PICK m : Drained(P, data, m)
  BY DrainDoes, Zenon
<1>2. /\ m \in Nat /\ Taken < m /\ m <= WrapRad /\ Taken' = m /\ Taken \in Nat
      /\ tsn_counter \in Tsn /\ Taken \in 0 .. WrapRad
  BY <1>1, TsnAssumption DEF Drained, IInv, Typed, InOrder
<1>3. PICK eo, eu : /\ AreNewEvents(P, m, FALSE, eo) /\ AreNewEvents(P, m, TRUE, eu)
                    /\ ordered_receive_events' = ordered_receive_events \o eo
                    /\ unordered_receive_events' = unordered_receive_events \o eu
  BY <1>1, Zenon DEF Drained
<1>4. Events(P)' /\ EventOrder(P)'
  <2>1. Taken <= m /\ delivered' = delivered
    BY <1>2
  <2>2. QED  BY <1>2, <1>3, <2>1, DrainEvents, Zenon
<1> DEFINE new == Between(P, Taken, m)
           done == UNION {MessageOf(P, e) : e \in {c \in new : c.end}}
           dropped == {c \in tsn_reorder_buffer : Place(c) = m}
<1>5. data \in new /\ new \subseteq tsn_reorder_buffer \cup {data}
  BY <1>1, Zenon DEF Drained
<1>6. \A c \in tsn_reorder_buffer : c \in P /\ Place(c) \in Nat /\ Taken < Place(c)
  BY PlaceFacts, Zenon DEF IInv, Typed, InOrder
<1>7. EventChunks(eo) \cup EventChunks(eu) = done
  <2>1. Taken \in Nat /\ m \in Nat /\ AreNewEvents(P, m, FALSE, eo) /\ AreNewEvents(P, m, TRUE, eu)
    BY <1>2, <1>3, Zenon
  <2>2. EventChunks(eo) \cup EventChunks(eu) = Completed(P, Taken, m)
    BY <2>1, NewChunks, ZenonT(30)
  <2>3. QED  BY <2>2, Zenon DEF Completed
<1>8. /\ EventChunks(ordered_receive_events') = EventChunks(ordered_receive_events) \cup EventChunks(eo)
      /\ EventChunks(unordered_receive_events') = EventChunks(unordered_receive_events) \cup EventChunks(eu)
  BY <1>3, ConcatChunks DEF IInv, Typed, AreNewEvents
<1>9. reassemble_queue' = (reassemble_queue \cup new) \ done
  BY <1>1, <1>2, PendingStep DEF Drained, IInv, InOrder
<1>10. done \subseteq reassemble_queue \cup new
  <2> SUFFICES ASSUME NEW e \in new, e.end, NEW c \in MessageOf(P, e)
               PROVE  c \in reassemble_queue \cup new
      BY Zenon
  <2>1. /\ e \in P /\ Taken <= Place(e) /\ Place(e) < m /\ Place(e) \in Nat
        /\ c \in P /\ Place(c) \in Nat
    BY PlaceFacts, Zenon DEF Between, MessageOf, Pending
  <2>2. Place(c) <= Place(e) /\ \A f \in EndsBefore(P, Place(e)) : Place(f) < Place(c)
    BY <2>1, MemberOf, Zenon
  <2>3. CASE Place(c) < Taken
    <3>1. \A f \in EndsBefore(P, Taken) : f \in EndsBefore(P, Place(e))
      BY <1>2, <2>1, PlaceFacts DEF EndsBefore
    <3>2. c \in Pending(P, Taken)
      BY <2>1, <2>2, <2>3, <3>1, Zenon DEF Pending
    <3>3. QED  BY <3>2, Zenon DEF IInv, InOrder
  <2>4. CASE Taken <= Place(c)
    BY <1>2, <2>1, <2>2, <2>4 DEF Between
  <2>5. QED  BY <1>2, <2>1, <2>3, <2>4
<1>11. Received = tsn_reorder_buffer \cup {c \in P : Place(c) < Taken}
       /\ Buffered \subseteq Received
  BY HeldPlaces DEF IInv
<1>12. Place(data) = Taken
  BY <1>2, PlaceOrder, Zenon DEF HandleInOrderPacket
<1>13. data \notin Buffered
  BY <1>2, <1>6, <1>11, <1>12
<1>14. Buffered' = (Buffered \cup {data}) \ dropped
  <2>1. tsn_reorder_buffer' = {c \in tsn_reorder_buffer : Place(c) > m}
    BY <1>1, Zenon DEF Drained
  <2>2. \A c \in tsn_reorder_buffer : Place(c) < m => c \in new
    BY <1>2, <1>6 DEF Between
  <2>3. \A c \in new : c \in tsn_reorder_buffer \cup {data} /\ c \notin dropped
    BY <1>2, <1>5, PlaceFacts DEF Between
  <2>4. \A c \in tsn_reorder_buffer : Place(c) < m \/ c \in dropped \/ Place(c) > m
    BY <1>2, <1>6
  <2>5. \A c \in dropped : /\ c \in tsn_reorder_buffer /\ ~ (Place(c) > m)
                           /\ c \notin reassemble_queue /\ c \notin EventChunks(AllEvents)
    <3>1. EventChunks(AllEvents) \cup reassemble_queue = {c \in P : Place(c) < Taken}
      BY HeldPlaces, Zenon DEF IInv
    <3>2. QED  BY <1>2, <1>6, <3>1
  <2>6. EventChunks(AllEvents) = EventChunks(delivered)
                \cup EventChunks(unordered_receive_events) \cup EventChunks(ordered_receive_events)
    BY EventChunksAre, Zenon DEF IInv
  <2>7. Buffered' = tsn_reorder_buffer' \cup reassemble_queue'
            \cup EventChunks(ordered_receive_events') \cup EventChunks(unordered_receive_events')
    BY Zenon DEF Buffered, EventChunks
  <2>8. Buffered' = tsn_reorder_buffer' \cup (reassemble_queue \cup new)
            \cup EventChunks(ordered_receive_events) \cup EventChunks(unordered_receive_events)
    BY <1>7, <1>8, <1>9, <1>10, <2>7, Zenon
  <2> HIDE DEF new, dropped, done
  <2>9. data \in new /\ \A c \in tsn_reorder_buffer' : c \in tsn_reorder_buffer /\ c \notin dropped
    BY <1>5, <2>1, <2>5, Zenon
  <2>10. \A c \in Buffered' : c \in Buffered \cup {data} /\ c \notin dropped
    BY <2>3, <2>5, <2>6, <2>8, <2>9, Zenon DEF Buffered
  <2>11. \A c \in Buffered \cup {data} : c \in dropped \/ c \in Buffered'
    BY <2>1, <2>2, <2>4, <2>8, <2>9, Zenon DEF Buffered
  <2>12. QED  BY <2>10, <2>11, Zenon
<1>15. /\ IsFiniteSet(Octets(Buffered \cup {data}))
       /\ current_in_buffer + BufLen(data) = TotalLen(Buffered \cup {data})
       /\ current_in_buffer + BufLen(data) \in Nat
       /\ current_in_buffer + BufLen(data) <= InBufferLimit
  BY <1>13, CountOne, Zenon DEF HandleInOrderPacket
<1>16. Counted' /\ current_in_buffer' \in Nat
  <2> DEFINE all == Buffered \cup {data}
  <2>1. dropped \subseteq all /\ all \in SUBSET P
    <3>1. Received \subseteq P
      BY <1>6, <1>11, Zenon
    <3>2. QED  BY <1>11, <3>1, Zenon DEF Buffered
  <2>2. Octets(all \ dropped) \cap Octets(dropped) = {}
    BY <2>1, OctetsDisjoint
  <2>3. current_in_buffer' = current_in_buffer + BufLen(data) - TotalLen(dropped)
    BY <1>1, Zenon DEF Drained
  <2> HIDE DEF dropped
  <2>4. /\ IsFiniteSet(Octets(all \ dropped))
        /\ TotalLen(all \ dropped) = TotalLen(all) - TotalLen(dropped)
        /\ TotalLen(dropped) \in Nat /\ TotalLen(all \ dropped) \in Nat
    <3>1. IsFiniteSet(Octets(all))
      BY <1>15, Zenon
    <3> HIDE DEF all
    <3>2. QED  BY <2>1, <2>2, <3>1, RemoveChunks, ZenonT(30)
  <2>5. Buffered' = all \ dropped
    BY <1>14, Zenon
  <2> DEFINE count == current_in_buffer + BufLen(data)
  <2>6. count = TotalLen(all) /\ count \in Nat /\ count <= InBufferLimit
    BY <1>15, Zenon
  <2>7. current_in_buffer' = count - TotalLen(dropped)
    <3>1. current_in_buffer \in Nat /\ BufLen(data) \in Int
      BY PlaceFacts DEF IInv, Typed, BufLen
    <3>2. QED  BY <2>3, <2>4, <3>1
  <2> HIDE DEF all, count
  <2>8. /\ current_in_buffer' = TotalLen(all \ dropped)
        /\ current_in_buffer' \in Nat /\ current_in_buffer' <= InBufferLimit
    BY <2>4, <2>6, <2>7, RxAssumption
  <2>9. QED  BY <2>4, <2>5, <2>8, Zenon DEF Counted
<1>17. Typed(P)'
  <2>1. tsn_reorder_buffer' \in SUBSET P /\ reassemble_queue' \in SUBSET P
    BY <1>1, <1>6, Zenon DEF Drained, Pending
  <2>2. /\ ordered_receive_events' \in Seq(EventIn(P))
        /\ unordered_receive_events' \in Seq(EventIn(P))
    <3>1. eo \in Seq(EventIn(P)) /\ eu \in Seq(EventIn(P))
      BY <1>3, Zenon DEF AreNewEvents
    <3>2. /\ ordered_receive_events \in Seq(EventIn(P))
          /\ unordered_receive_events \in Seq(EventIn(P))
      BY Zenon DEF IInv, Typed
    <3> HIDE DEF new, done, dropped
    <3>3. QED  BY <1>3, <3>1, <3>2
  <2>3. tx_notifications' \in Seq(TxNotification)
    <3>1. QueueAck(tsn_counter', tsn_reorder_buffer', current_in_buffer') /\ tsn_counter' \in Tsn
      BY <1>1, Zenon DEF Drained
    <3>2. tx_notifications \in Seq(TxNotification)
      BY DEF IInv, Typed
    <3>3. current_in_buffer' <= InBufferLimit
      BY <1>16, Zenon DEF Counted
    <3>4. QED  BY <1>16, <2>1, <3>1, <3>2, <3>3, SackIsTyped, Zenon
  <2>4. QED  BY <1>1, <1>16, <2>1, <2>2, <2>3, Zenon DEF Drained, IInv, Typed
<1>18. InOrder(P)'
  BY <1>1, <1>2 DEF Drained, InOrder
<1>19. QED  BY <1>4, <1>16, <1>17, <1>18, Zenon DEF IInv
-----------------------------------------------------------------------------
(* What holds in every reachable state. *)

(* Whichever of its branches handle_data_chunk takes. *)
LEMMA DataStep ==
    ASSUME NEW P, IsPeer(P), IInv(P), NEW data \in P, HandleDataChunk(data)
    PROVE  IInv(P)'
<1>1. UNCHANGED <<shutdown_state, delivered>>
  BY Zenon DEF HandleDataChunk
<1>2. CASE ReorderChunk(data)
  BY <1>1, <1>2, ReorderStep, Zenon
<1>3. CASE IgnoreUnknownStream(data)
  BY <1>1, <1>3, UnknownStreamStep, Zenon
<1>4. CASE HandleInOrderPacket(data)
  BY <1>1, <1>4, DrainStep
<1>5. QED  BY <1>2, <1>3, <1>4, Zenon DEF HandleDataChunk

(* IInv is kept by every chunk that notification is given, by poll_data    *)
(* and by tx_notifications.                                                *)
THEOREM RxInvariance == Spec => []IInv(PeerChunks)
<1>1. Init => IInv(PeerChunks)
  BY InitInv, PeerAssumption, Zenon
<1>2. IInv(PeerChunks) /\ [Next]_vars => IInv(PeerChunks)'
  <2> SUFFICES ASSUME IInv(PeerChunks), [Next]_vars
               PROVE  IInv(PeerChunks)'
      BY Zenon
  <2>1. ASSUME NEW data \in PeerChunks, HandleDataChunk(data)
        PROVE  IInv(PeerChunks)'
    BY <2>1, DataStep, PeerAssumption, Zenon
  <2>2. ASSUME NEW signal \in PeerSignals, HandleSignal(signal)
        PROVE  IInv(PeerChunks)'
    BY <2>2, SignalStep, PeerAssumption, Zenon
  <2>3. CASE TxNotifications
    <3>1. /\ UNCHANGED bufferVars /\ tx_notifications' \in Seq(TxNotification)
          /\ shutdown_state' \in {"None", "AbortReceived", "ShutdownReceived", "Complete"}
      BY <2>3 DEF TxNotifications, IInv, Typed
    <3>2. QED  BY <3>1, SameBuffers, PeerAssumption, Zenon
  <2>4. CASE PollData
    BY <2>4, PollStep, PeerAssumption, Zenon
  <2>5. CASE UNCHANGED vars
    <3>1. /\ UNCHANGED bufferVars /\ tx_notifications' \in Seq(TxNotification)
          /\ shutdown_state' \in {"None", "AbortReceived", "ShutdownReceived", "Complete"}
      BY <2>5, Zenon DEF vars, IInv, Typed
    <3>2. QED  BY <3>1, SameBuffers, PeerAssumption
  <2>6. QED  BY <2>1, <2>2, <2>3, <2>4, <2>5, Zenon DEF Next
<1>3. QED  BY <1>1, <1>2, PTL DEF Spec

(* current_in_buffer is the number of bytes held in the reorder buffer,    *)
(* the reassembly queues and both event queues, and stays within           *)
(* in_buffer_limit, so that queue_ack cannot underflow.                    *)
THEOREM RxBufferAccounting == Spec => []BufferAccounting
<1>1. IInv(PeerChunks) => BufferAccounting
  BY Zenon DEF IInv, Counted, BufferAccounting
<1>2. QED  BY <1>1, RxInvariance, PTL

(* Whatever the order in which the fragments arrive, and however often,    *)
(* poll_data only ever returns a whole message.                            *)
THEOREM RxWholeMessages == Spec => []WholeMessages
<1>1. IInv(PeerChunks) => WholeMessages
  <2> SUFFICES ASSUME IInv(PeerChunks), NEW i \in DOMAIN AllEvents
               PROVE  IsWhole(AllEvents[i].data)
      BY Zenon DEF WholeMessages
  <2>1. PICK e \in EndsBefore(PeerChunks, Taken) : AllEvents[i] = EventOf(PeerChunks, e)
    BY Zenon DEF IInv, Events
  <2>2. AllEvents[i].data = MessageOf(PeerChunks, e)
    BY <2>1 DEF EventOf
  <2>3. e \in PeerChunks /\ e.end
    BY Zenon DEF EndsBefore
  <2>4. QED  BY <2>2, <2>3, MessageIsWhole, PeerAssumption, Zenon
<1>2. QED  BY <1>1, RxInvariance, PTL

(* An ordered message is delivered after the ordered messages of its       *)
(* stream that the peer sent before it.                                    *)
LEMMA EarlierDelivered ==
    ASSUME NEW P, IsPeer(P), IInv(P), NEW i \in DOMAIN AllEvents, ~ AllEvents[i].unordered,
           NEW c \in P, ~ c.unordered, \A d \in AllEvents[i].data : c.hi <= d.lo
    PROVE  \E j \in 1 .. i - 1 : c \in AllEvents[j].data
<1>1. PICK e \in EndsBefore(P, Taken) : AllEvents[i] = EventOf(P, e)
  BY Zenon DEF IInv, Events
<1>2. e \in P /\ e.end /\ Place(e) < Taken /\ ~ e.unordered
  BY <1>1 DEF EndsBefore, EventOf
<1>3. AllEvents[i].data = MessageOf(P, e) /\ e \in MessageOf(P, e)
  BY <1>1 DEF EventOf, MessageOf
<1>4. /\ Place(c) \in Nat /\ Place(e) \in Nat /\ Taken \in Nat
      /\ c.lo \in Nat /\ c.hi \in Nat /\ c.lo < c.hi
      /\ e.lo \in Nat /\ e.hi \in Nat /\ e.lo < e.hi
  BY <1>2, PlaceFacts, TsnAssumption DEF IInv, InOrder
<1>5. c.hi <= e.lo
  BY <1>3, Zenon
<1>6. Place(c) < Place(e)
  <2>1. Place(c) # Place(e)
    BY <1>2, <1>4, <1>5, PlaceUnique
  <2>2. Place(e) < Place(c) => e.hi <= c.lo
    BY <1>2, Zenon DEF IsPeer
  <2>3. QED  BY <1>4, <1>5, <2>1, <2>2
<1>7. c \notin Pending(P, Taken)
  BY <1>4, <1>6 DEF Pending
<1>8. PICK f \in EndsBefore(P, Taken) : c \in MessageOf(P, f)
  BY <1>2, <1>4, <1>6, <1>7, EndedOrPending
<1>9. f \in P /\ f.end /\ Place(f) \in Nat
  BY PlaceFacts, Zenon DEF EndsBefore
<1>10. f # e
  BY <1>3, <1>4, <1>8
<1>11. ~ f.unordered
  BY <1>8, <1>9, SameMessage, Zenon
<1>12. PICK j \in DOMAIN AllEvents : AllEvents[j] = EventOf(P, f)
  BY Zenon DEF IInv, Events
<1>13. c \in AllEvents[j].data
  BY <1>8, <1>12 DEF EventOf
<1>14. i \in Nat /\ j \in Nat /\ 1 <= i /\ 1 <= j
  BY AllEventsIs DEF IInv
<1>15. i # j
  BY <1>1, <1>10, <1>12, MessagesDisjoint, Zenon
<1>16. ~ (i < j)
  <2> SUFFICES ASSUME i < j
               PROVE  FALSE
      BY Zenon
  <2>1. Place(e) < Place(f)
    BY <1>1, <1>2, <1>11, <1>12, Zenon DEF IInv, EventOrder
  <2>2. e \in EndsBefore(P, Place(f))
    BY <1>2, <2>1, Zenon DEF EndsBefore
  <2>3. Place(e) < Place(c)
    BY <1>8, <1>9, <2>2, MemberOf, Zenon
  <2>4. QED  BY <1>4, <1>6, <2>3
<1>17. j \in 1 .. i - 1
  BY <1>14, <1>15, <1>16
<1>18. QED  BY <1>13, <1>17, Zenon

(* However often a chunk arrives its message is delivered once, and the    *)
(* ordered messages of a stream in the order of sending without a gap.     *)
THEOREM RxDeliveredOnceInOrder == Spec => []DeliveredOnceInOrder
<1>1. IInv(PeerChunks) => DeliveredOnceInOrder
  <2> SUFFICES ASSUME IInv(PeerChunks), NEW i \in DOMAIN AllEvents
               PROVE  /\ \A j \in DOMAIN AllEvents :
                            i # j => AllEvents[i].data \cap AllEvents[j].data = {}
                      /\ ~ AllEvents[i].unordered =>
                           \A c \in PeerChunks :
                             /\ ~ c.unordered /\ c.stream_id = AllEvents[i].stream
                             /\ \A d \in AllEvents[i].data : c.hi <= d.lo
                             => \E j \in 1 .. i - 1 : c \in AllEvents[j].data
      BY Zenon DEF DeliveredOnceInOrder
  <2>1. Typed(PeerChunks) /\ Events(PeerChunks) /\ EventOrder(PeerChunks)
    BY Zenon DEF IInv
  <2>2. QED  BY <2>1, EventsDisjoint, EarlierDelivered, PeerAssumption, Zenon
<1>2. QED  BY <1>1, RxInvariance, PTL
-----------------------------------------------------------------------------
(* What a step keeps, and what it tells the peer. *)

(* The chunks received are those taken in order and those that wait. *)
Held(P) == Received = tsn_reorder_buffer \cup {c \in P : Place(c) < Taken}

(* No chunk of a known stream that has been received is lost before the    *)
(* application has it: handle_in_order_packet only drops, at the end of    *)
(* its recursion, a chunk of an unknown stream.                            *)
THEOREM RxNeverForgets == Spec => NeverForgets
<1>1. IInv(PeerChunks) => Held(PeerChunks)
  BY HeldPlaces, PeerAssumption, Zenon DEF IInv, Held
<1>2. IInv(PeerChunks) /\ IInv(PeerChunks)' /\ Held(PeerChunks) /\ Held(PeerChunks)' /\ [Next]_vars
        => [{c \in Received : KnownStream(c)} \subseteq Received']_vars
  <2> SUFFICES ASSUME IInv(PeerChunks), IInv(PeerChunks)', Held(PeerChunks), Held(PeerChunks)', Next
               PROVE  {c \in Received : KnownStream(c)} \subseteq Received'
      BY Zenon
  <2>1. Received' = tsn_reorder_buffer' \cup {c \in PeerChunks : Place(c) < Taken'}
    BY Zenon DEF Held, Place
  <2>2. Received = tsn_reorder_buffer \cup {c \in PeerChunks : Place(c) < Taken}
    BY Zenon DEF Held
  <2>3. CASE Taken' = Taken /\ tsn_reorder_buffer \subseteq tsn_reorder_buffer'
    BY <2>1, <2>2, <2>3, Zenon
  <2>4. ASSUME NEW data \in PeerChunks, HandleDataChunk(data)
        PROVE  {c \in Received : KnownStream(c)} \subseteq Received'
    <3>1. CASE ReorderChunk(data) \/ IgnoreUnknownStream(data)
      <4>1. Taken' = Taken /\ tsn_reorder_buffer \subseteq tsn_reorder_buffer'
        BY <3>1, Zenon DEF ReorderChunk, IgnoreUnknownStream, Taken
      <4>2. QED  BY <2>3, <4>1, Zenon
    <3>2. CASE HandleInOrderPacket(data)
      <4>1. PICK m : Drained(PeerChunks, data, m)
        BY <3>2, DrainDoes, PeerAssumption, Zenon
      <4>2. /\ m \in Nat /\ Taken \in Nat /\ Taken < m /\ Taken' = m
            /\ tsn_reorder_buffer' = {c \in tsn_reorder_buffer : Place(c) > m}
            /\ \A c \in tsn_reorder_buffer : Place(c) = m => ~ KnownStream(c)
        BY <4>1, TsnAssumption DEF Drained, IInv, InOrder
      <4>3. \A c \in tsn_reorder_buffer : c \in PeerChunks /\ Place(c) \in Nat
        BY PlaceFacts, PeerAssumption, Zenon DEF IInv, Typed
      <4>4. ASSUME NEW c \in Received, KnownStream(c)
            PROVE  c \in Received'
        <5>1. CASE c \in tsn_reorder_buffer
          BY <2>1, <4>2, <4>3, <4>4, <5>1
        <5>2. CASE c \in PeerChunks /\ Place(c) < Taken
          <6>1. Place(c) < Taken'
            BY <4>2, <5>2, PlaceFacts, PeerAssumption
          <6>2. QED  BY <2>1, <5>2, <6>1, Zenon
        <5>3. QED  BY <2>2, <5>1, <5>2, Zenon
      <4>5. QED  BY <4>4, Zenon
    <3>3. QED  BY <2>4, <3>1, <3>2, Zenon DEF HandleDataChunk
  <2>5. ASSUME NEW signal \in PeerSignals, HandleSignal(signal)
        PROVE  {c \in Received : KnownStream(c)} \subseteq Received'
    BY <2>3, <2>5, Zenon DEF HandleSignal, bufferVars, Taken
  <2>6. CASE TxNotifications
    BY <2>3, <2>6, Zenon DEF TxNotifications, bufferVars, Taken
  <2>7. CASE PollData
    BY <2>3, <2>7, Zenon DEF PollData, Taken
  <2>8. QED  BY <2>4, <2>5, <2>6, <2>7, Zenon DEF Next
<1>3. QED  BY <1>1, <1>2, RxInvariance, PTL DEF Spec, NeverForgets

(* The SACK that queue_ack builds in a state. *)
Sack == [kind |-> "SendSack", cum_tsn |-> tsn_counter,
         a_rwnd |-> InBufferLimit - current_in_buffer,
         blocks |-> SackBlocks(tsn_counter, tsn_reorder_buffer)]

(* No chunk waits so far ahead that its offset does not fit into u16. *)
WithinGap == \A c \in tsn_reorder_buffer : Offset(c) < GapMod

AckExact == Covered(Sack) = {c.tsn : c \in Received}

(* The maximal runs of a set of numbers. *)
Runs(S) == {r \in S \X S : /\ r[1] - 1 \notin S /\ r[2] + 1 \notin S
                           /\ r[1] <= r[2] /\ r[1] .. r[2] \subseteq S}

(* The blocks are the maximal runs of the offsets of the chunks that wait. *)
LEMMA BlocksAreRuns ==
    ASSUME NEW P, IsPeer(P), IInv(P), WithinGap
    PROVE  LET offsets == Offsets(tsn_counter, tsn_reorder_buffer)
           IN  /\ \A o \in offsets : o \in Nat /\ 1 < o /\ o <= WrapRad
               /\ SackBlocks(tsn_counter, tsn_reorder_buffer) = Runs(offsets)
<1> DEFINE offsets == Offsets(tsn_counter, tsn_reorder_buffer)
           blocks == SackBlocks(tsn_counter, tsn_reorder_buffer)
           starts == {o \in offsets : o - 1 \notin offsets}
           ends == {o \in offsets : o + 1 \notin offsets}
           runs == {r \in starts \X ends : r[1] <= r[2] /\ r[1] .. r[2] \subseteq offsets}
<1>1. \A o \in offsets : /\ o \in Nat /\ 1 < o /\ o <= WrapRad
                         /\ o % GapMod = o
  <2> SUFFICES ASSUME NEW c \in tsn_reorder_buffer
               PROVE  /\ Offset(c) \in Nat /\ 1 < Offset(c) /\ Offset(c) <= WrapRad
                      /\ Offset(c) % GapMod = Offset(c)
      BY Zenon DEF Offsets, Offset
  <2>1. /\ c \in P /\ Place(c) \in Nat /\ Place(c) > Taken /\ Taken \in Nat
        /\ tsn_counter \in Tsn /\ Taken \in 0 .. WrapRad /\ Place(c) < WrapRad
    BY PlaceFacts, TsnAssumption DEF IInv, Typed, InOrder
  <2>2. Offset(c) = Place(c) - Taken + 1
    BY <2>1, OffsetIs
  <2>3. Offset(c) < GapMod /\ GapMod \in Nat /\ WrapRad \in Nat
    BY RxAssumption, TsnAssumption, Zenon DEF WithinGap
  <2>4. Offset(c) \in Nat /\ 1 < Offset(c) /\ Offset(c) <= WrapRad
    BY <2>1, <2>2, <2>3
  <2>5. QED  BY <2>3, <2>4
<1>2. blocks = {<<r[1] % GapMod, r[2] % GapMod>> : r \in runs}
  BY Zenon DEF SackBlocks
<1> HIDE DEF offsets
<1>3. \A r \in runs : <<r[1] % GapMod, r[2] % GapMod>> = r
  BY <1>1
<1>4. runs = Runs(offsets)
  BY Zenon DEF Runs
<1>5. blocks = Runs(offsets)
  <2> HIDE DEF blocks, runs
  <2>1. QED  BY <1>2, <1>3, <1>4
<1>6. QED  BY <1>1, <1>5, Zenon DEF offsets

(* The blocks cover the offsets of the chunks that wait, and no others. *)
LEMMA BlocksCover ==
    ASSUME NEW P, IsPeer(P), IInv(P), WithinGap
    PROVE  LET offsets == Offsets(tsn_counter, tsn_reorder_buffer)
               blocks == SackBlocks(tsn_counter, tsn_reorder_buffer)
           IN  /\ \A b \in blocks : b[1] .. b[2] \subseteq offsets
               /\ \A o \in offsets : \E b \in blocks : o \in b[1] .. b[2]
<1> DEFINE offsets == Offsets(tsn_counter, tsn_reorder_buffer)
           blocks == SackBlocks(tsn_counter, tsn_reorder_buffer)
<1>1. /\ \A o \in offsets : o \in Nat /\ 1 < o /\ o <= WrapRad
      /\ blocks = Runs(offsets)
  BY BlocksAreRuns, Zenon
<1> HIDE DEF offsets, blocks
<1>2. \A b \in blocks : b[1] .. b[2] \subseteq offsets
  BY <1>1, Zenon DEF Runs
<1>3. ASSUME NEW o \in offsets
      PROVE  \E b \in blocks : o \in b[1] .. b[2]
  <2>1. WrapRad \in Nat /\ offsets \in SUBSET Nat /\ 0 \notin offsets
    BY <1>1, TsnAssumption
  <2>2. PICK a \in offsets, b \in offsets :
                /\ a - 1 \notin offsets /\ b + 1 \notin offsets
                /\ a <= o /\ o <= b /\ a .. b \subseteq offsets
    BY <1>1, <2>1, MaximalRun, Zenon
  <2>3. a \in Nat /\ b \in Nat /\ o \in Nat
    BY <1>1, Zenon
  <2>4. <<a, b>> \in Runs(offsets) /\ o \in a .. b
    BY <2>2, <2>3 DEF Runs
  <2>5. QED  BY <1>1, <2>4, Zenon
<1>4. QED  BY <1>2, <1>3, Zenon DEF offsets, blocks

(* handle_data_chunk queues the SACK of the state in which it ends. *)
LEMMA DataAcked ==
    ASSUME NEW data, HandleDataChunk(data)
    PROVE  tx_notifications' = Append(tx_notifications, Sack')
<1>1. QueueAck(tsn_counter', tsn_reorder_buffer', current_in_buffer')
  BY Zenon DEF HandleDataChunk, ReorderChunk, IgnoreUnknownStream, HandleInOrderPacket
<1>2. QED  BY <1>1, Zenon DEF QueueAck, Sack, SackBlocks, Offsets

(* The SACK that queue_ack would make now is exact. *)
LEMMA AckIsExact ==
    ASSUME IInv(PeerChunks), WithinGap
    PROVE  AckExact
<1>1. tsn_counter \in Tsn /\ Taken \in 0 .. WrapRad
  BY Zenon DEF IInv, Typed, InOrder
<1> DEFINE offsets == Offsets(tsn_counter, tsn_reorder_buffer)
           blocks == SackBlocks(tsn_counter, tsn_reorder_buffer)
           covers(d) == \/ TsnLE(d.tsn, tsn_counter)
                        \/ \E b \in blocks : Offset(d) \in b[1] .. b[2]
<1>2. /\ \A b \in blocks : b[1] .. b[2] \subseteq offsets
      /\ \A o \in offsets : \E b \in blocks : o \in b[1] .. b[2]
  BY BlocksCover, PeerAssumption, Zenon
<1>3. offsets = {Offset(c) : c \in tsn_reorder_buffer}
  BY Zenon DEF Offsets, Offset
<1>4. Received = tsn_reorder_buffer \cup {c \in PeerChunks : Place(c) < Taken}
  BY HeldPlaces, PeerAssumption, Zenon DEF IInv
<1>5. \A c \in tsn_reorder_buffer : c \in PeerChunks /\ Place(c) > Taken
  BY Zenon DEF IInv, Typed, InOrder
<1>6. Covered(Sack) = {c.tsn : c \in {d \in PeerChunks : covers(d)}}
  BY Zenon DEF Covered, Sack, Offset
<1> HIDE DEF offsets, blocks
<1>7. ASSUME NEW d \in PeerChunks
      PROVE  covers(d) <=> d \in Received
  <2>1. TsnLE(d.tsn, tsn_counter) <=> Place(d) < Taken
    BY <1>1, PlaceOrder, PeerAssumption, Zenon
  <2>2. Place(d) \in Nat /\ Taken \in Nat
    BY <1>1, PlaceFacts, TsnAssumption, PeerAssumption
  <2>3. CASE Place(d) < Taken
    BY <1>4, <2>1, <2>3, Zenon
  <2>4. CASE Taken <= Place(d)
    <3>1. Offset(d) \in offsets => d \in tsn_reorder_buffer
      <4> SUFFICES ASSUME NEW c \in tsn_reorder_buffer, Offset(d) = Offset(c)
                   PROVE  d \in tsn_reorder_buffer
          BY <1>3, Zenon
      <4>1. c \in PeerChunks /\ Place(c) > Taken /\ Place(c) \in Nat
        BY <1>5, PlaceFacts, PeerAssumption, Zenon
      <4>2. Taken <= Place(c)
        BY <2>2, <4>1
      <4>3. Offset(c) = Place(c) - Taken + 1 /\ Offset(d) = Place(d) - Taken + 1
        BY <1>1, <2>4, <4>1, <4>2, OffsetIs, PeerAssumption, Zenon
      <4>4. Place(c) = Place(d)
        BY <2>2, <4>1, <4>3
      <4>5. QED  BY <4>1, <4>4, PlaceUnique, PeerAssumption, Zenon
    <3>2. d \in tsn_reorder_buffer => Offset(d) \in offsets
      BY <1>3, Zenon
    <3>3. (\E b \in blocks : Offset(d) \in b[1] .. b[2]) <=> Offset(d) \in offsets
      BY <1>2, Zenon
    <3>4. ~ (Place(d) < Taken)
      BY <2>2, <2>4
    <3>5. QED  BY <1>4, <2>1, <3>1, <3>2, <3>3, <3>4, Zenon
  <2>5. QED  BY <2>2, <2>3, <2>4
<1>8. {d \in PeerChunks : covers(d)} = Received
  BY <1>4, <1>5, <1>7, Zenon
<1>9. QED  BY <1>6, <1>8, Zenon DEF AckExact

(***************************************************************************)
(* While no chunk waits further ahead of the cumulative TSN than the u16   *)
(* offsets of a gap block reach, every SACK covers exactly the chunks that *)
(* have been received, whether the chunk answered was reordered, ignored   *)
(* or taken in order with others behind it.                                *)
(***************************************************************************)
THEOREM RxSackExact == Spec /\ []WithinGap => SackExact
<1>1. IInv(PeerChunks) /\ WithinGap => AckExact
  BY AckIsExact, PeerAssumption, Zenon
<1>2. IInv(PeerChunks) /\ AckExact' /\ [Next]_vars =>
        [\A data \in PeerChunks : HandleDataChunk(data) =>
            Covered(tx_notifications'[Len(tx_notifications')]) = {c.tsn : c \in Received'}]_vars
  <2> SUFFICES ASSUME IInv(PeerChunks), AckExact', NEW data \in PeerChunks, HandleDataChunk(data)
               PROVE  Covered(tx_notifications'[Len(tx_notifications')])
                        = {c.tsn : c \in Received'}
      BY Zenon
  <2>2. tx_notifications' = Append(tx_notifications, Sack')
    BY DataAcked, Zenon
  <2>3. tx_notifications \in Seq(TxNotification)
    BY Zenon DEF IInv, Typed
  <2>4. tx_notifications'[Len(tx_notifications')] = Sack'
    BY <2>2, <2>3, LastAppended, Zenon
  <2>5. Covered(Sack') = {c.tsn : c \in Received'}
    BY Zenon DEF AckExact, Covered
  <2>6. QED  BY <2>4, <2>5, Zenon
<1>3. QED  BY <1>1, <1>2, RxInvariance, PTL DEF Spec, SackExact

(* The offsets fit into a gap block if the peer has few chunks. *)
LEMMA FewChunksFit ==
    ASSUME NEW P, IsPeer(P), IInv(P), \A c \in P : Place(c) + 1 < GapMod
    PROVE  WithinGap
<1> SUFFICES ASSUME NEW c \in tsn_reorder_buffer
             PROVE  Offset(c) < GapMod
    BY Zenon DEF WithinGap
<1>1. /\ c \in P /\ Place(c) \in Nat /\ Place(c) > Taken /\ Taken \in Nat
      /\ tsn_counter \in Tsn /\ Taken \in 0 .. WrapRad
  BY PlaceFacts, TsnAssumption DEF IInv, Typed, InOrder
<1>2. Taken <= Place(c) /\ Place(c) + 1 < GapMod /\ GapMod \in Nat
  BY <1>1, RxAssumption
<1>3. Offset(c) = Place(c) - Taken + 1
  BY <1>1, <1>2, OffsetIs, Zenon
<1>4. QED  BY <1>1, <1>2, <1>3

(* A peer that numbers fewer chunks than a gap block reaches never needs   *)
(* more than that: for it every SACK is exact.                             *)
COROLLARY RxSackExactForFewChunks ==
    ASSUME \A c \in PeerChunks : Place(c) + 1 < GapMod
    PROVE  Spec => SackExact
<1>1. IInv(PeerChunks) => WithinGap
  BY FewChunksFit, PeerAssumption, Zenon
<1>2. QED  BY <1>1, RxInvariance, RxSackExact, PTL

-----------------------------------------------------------------------------
(* What the sending half that numbers the chunks P may rely on. *)

(* What has been taken last is always one of them. *)
LEMMA ReachedStep ==
    ASSUME NEW P, IsPeer(P), IInv(P), Reached(P), NEW data \in P, HandleDataChunk(data)
    PROVE  Reached(P)'
<1>1. CASE ReorderChunk(data) \/ IgnoreUnknownStream(data)
  <2>1. Taken' = Taken
    BY <1>1, Zenon DEF ReorderChunk, IgnoreUnknownStream, Taken
  <2>2. QED  BY <2>1, Zenon DEF Reached, Place
<1>2. CASE HandleInOrderPacket(data)
  <2>1. PICK m : Drained(P, data, m)
    BY <1>2, DrainDoes, Zenon
  <2>2. QED  BY <2>1, Zenon DEF Drained, Reached, Place
<1>3. QED  BY <1>1, <1>2, Zenon DEF HandleDataChunk

(* A SACK that acknowledges and reports chunks of P only. *)
IsTruthful(P, sack) ==
    /\ sack.cum_tsn = decrease(InitTsn) \/ \E c \in P : c.tsn = sack.cum_tsn
    /\ sack.a_rwnd \in 0 .. InBufferLimit
    /\ sack.blocks \subseteq (2 .. WrapRad) \X (2 .. WrapRad)
    /\ \A b \in sack.blocks :
         /\ b[1] <= b[2]
         /\ \A k \in b[1] .. b[2] : \E c \in P : c.tsn = WrappingAdd(sack.cum_tsn, k)
    /\ \A b, d \in sack.blocks : b = d \/ b[2] + 1 < d[1] \/ d[2] + 1 < b[1]

(* Between two maximal runs a number is missing. *)
LEMMA RunsApart ==
    ASSUME NEW S \in SUBSET Nat, NEW b \in Runs(S), NEW d \in Runs(S)
    PROVE  b = d \/ b[2] + 1 < d[1] \/ d[2] + 1 < b[1]
<1> SUFFICES ASSUME ~ (b[2] + 1 < d[1]), ~ (d[2] + 1 < b[1])
             PROVE  b = d
    BY Zenon
<1>1. /\ b \in S \X S /\ b[1] - 1 \notin S /\ b[2] + 1 \notin S
      /\ b[1] <= b[2] /\ b[1] .. b[2] \subseteq S
  BY Zenon DEF Runs
<1>2. /\ d \in S \X S /\ d[1] - 1 \notin S /\ d[2] + 1 \notin S
      /\ d[1] <= d[2] /\ d[1] .. d[2] \subseteq S
  BY Zenon DEF Runs
<1>3. /\ b[1] \in Nat /\ b[2] \in Nat /\ d[1] \in Nat /\ d[2] \in Nat
      /\ b = <<b[1], b[2]>> /\ d = <<d[1], d[2]>>
  <2>1. \A r \in S \X S : r[1] \in S /\ r[2] \in S /\ r = <<r[1], r[2]>>
    OBVIOUS
  <2>2. QED  BY <1>1, <1>2, <2>1, Zenon
<1>4. b[1] = d[1]
  <2>1. ~ (b[1] < d[1])
    <3> SUFFICES ASSUME b[1] < d[1]
                 PROVE  FALSE
        BY Zenon
    <3>1. d[1] - 1 \in b[1] .. b[2]
      BY <1>3
    <3>2. QED  BY <1>1, <1>2, <3>1, Zenon
  <2>2. ~ (d[1] < b[1])
    <3> SUFFICES ASSUME d[1] < b[1]
                 PROVE  FALSE
        BY Zenon
    <3>1. b[1] - 1 \in d[1] .. d[2]
      BY <1>3
    <3>2. QED  BY <1>1, <1>2, <3>1, Zenon
  <2>3. QED  BY <1>3, <2>1, <2>2
<1>5. b[2] = d[2]
  <2>1. ~ (b[2] < d[2])
    <3> SUFFICES ASSUME b[2] < d[2]
                 PROVE  FALSE
        BY Zenon
    <3>1. b[2] + 1 \in d[1] .. d[2]
      BY <1>1, <1>3, <1>4
    <3>2. QED  BY <1>1, <1>2, <3>1, Zenon
  <2>2. ~ (d[2] < b[2])
    <3> SUFFICES ASSUME d[2] < b[2]
                 PROVE  FALSE
        BY Zenon
    <3>1. d[2] + 1 \in b[1] .. b[2]
      BY <1>2, <1>3, <1>4
    <3>2. QED  BY <1>1, <1>2, <3>1, Zenon
  <2>3. QED  BY <1>3, <2>1, <2>2
<1>6. QED  BY <1>3, <1>4, <1>5, Zenon

(* The SACK of every state is one. *)
LEMMA AckIsTruthful ==
    ASSUME NEW P, IsPeer(P), IInv(P), Reached(P), WithinGap
    PROVE  IsTruthful(P, Sack)
<1> DEFINE offsets == Offsets(tsn_counter, tsn_reorder_buffer)
           blocks == SackBlocks(tsn_counter, tsn_reorder_buffer)
<1>1. /\ tsn_counter \in Tsn /\ Taken \in 0 .. WrapRad /\ Taken \in Nat
      /\ tsn_counter = decrease(Ahead(InitTsn, Taken)) /\ InitTsn \in Tsn
  BY CounterFacts, RxAssumption, TsnAssumption DEF IInv, Typed, InOrder
<1>2. Sack.cum_tsn = tsn_counter /\ Sack.blocks = blocks
  BY Zenon DEF Sack
<1>3. tsn_counter = decrease(InitTsn) \/ \E c \in P : c.tsn = tsn_counter
  <2>1. CASE Taken = 0
    <3>1. Ahead(InitTsn, Taken) = InitTsn
      BY <1>1, <2>1, TsnAssumption DEF Ahead, Tsn
    <3>2. QED  BY <1>1, <3>1, Zenon
  <2>2. ASSUME NEW c \in P, Place(c) = Taken - 1
        PROVE  c.tsn = tsn_counter
    <3>1. c.tsn = Ahead(InitTsn, Taken - 1) /\ Taken >= 1
      BY <1>1, <2>2, PlaceFacts
    <3>2. QED  BY <1>1, <3>1, TsnAssumption DEF Ahead, decrease, Tsn
  <2>3. QED  BY <2>1, <2>2, Zenon DEF Reached
<1>4. Sack.a_rwnd \in 0 .. InBufferLimit
  <2>1. current_in_buffer \in Nat /\ current_in_buffer <= InBufferLimit
    BY Zenon DEF IInv, Typed, Counted
  <2>2. QED  BY <2>1, RxAssumption DEF Sack
<1>5. /\ \A o \in offsets : o \in Nat /\ 1 < o /\ o <= WrapRad
      /\ blocks = Runs(offsets)
  BY BlocksAreRuns, Zenon
<1>6. \A k \in offsets : \E c \in P : c.tsn = WrappingAdd(tsn_counter, k)
  <2> SUFFICES ASSUME NEW c \in tsn_reorder_buffer
               PROVE  c \in P /\ c.tsn = WrappingAdd(tsn_counter, WrappingSub(c.tsn, tsn_counter))
      BY Zenon DEF Offsets
  <2>1. c \in P /\ c.tsn \in Tsn
    BY PlaceFacts, Zenon DEF IInv, Typed
  <2> DEFINE k == WrappingSub(c.tsn, tsn_counter)
  <2>2. k = IF tsn_counter <= c.tsn THEN c.tsn - tsn_counter ELSE c.tsn - tsn_counter + TsnMod
    BY <1>1, <2>1, WrappingSubIs, Zenon
  <2> HIDE DEF k
  <2>3. k \in Tsn
    BY <1>1, <2>1, <2>2, TsnAssumption DEF Tsn
  <2>4. WrappingAdd(tsn_counter, k) = Ahead(tsn_counter, k)
    BY <1>1, <2>3, WrappingAddIs, Zenon
  <2>5. Ahead(tsn_counter, k) = c.tsn
    BY <1>1, <2>1, <2>2, TsnAssumption DEF Tsn, Ahead
  <2>6. QED  BY <2>1, <2>4, <2>5, Zenon DEF k
<1> HIDE DEF offsets, blocks
<1>7. \A b \in blocks : /\ b \in offsets \X offsets /\ b[1] <= b[2]
                        /\ b[1] .. b[2] \subseteq offsets
  BY <1>5, Zenon DEF Runs
<1>8. blocks \subseteq (2 .. WrapRad) \X (2 .. WrapRad)
  <2>1. offsets \subseteq 2 .. WrapRad
    BY <1>5, TsnAssumption
  <2>2. QED  BY <1>7, <2>1, Zenon
<1>9. \A b \in blocks : \A k \in b[1] .. b[2] : \E c \in P : c.tsn = WrappingAdd(tsn_counter, k)
  BY <1>6, <1>7, Zenon
<1>10. \A b, d \in blocks : b = d \/ b[2] + 1 < d[1] \/ d[2] + 1 < b[1]
  <2>1. offsets \in SUBSET Nat
    BY <1>5, Zenon
  <2>2. QED  BY <1>5, <2>1, RunsApart, Zenon
<1>11. QED  BY <1>2, <1>3, <1>4, <1>7, <1>8, <1>9, <1>10, Zenon DEF IsTruthful

(* An event with a message of the peer that shares no chunk with what has  *)
(* been delivered; if it is ordered, all ordered chunks before it have     *)
(* been delivered.                                                         *)
IsNextEvent(P, event) ==
    /\ \E e \in P : e.end /\ event = EventOf(P, e)
    /\ \A i \in DOMAIN delivered : delivered[i].data \cap event.data = {}
    /\ ~ event.unordered =>
         \A c \in P : ~ c.unordered /\ (\A d \in event.data : c.hi <= d.lo)
             => \E j \in DOMAIN delivered : c \in delivered[j].data

(* poll_data returns such an event. *)
LEMMA ReadsNextEvent ==
    ASSUME NEW P, IsPeer(P), IInv(P), PollData
    PROVE  \E event : delivered' = Append(delivered, event) /\ IsNextEvent(P, event)
<1> DEFINE n == Len(delivered)
           u == Len(unordered_receive_events)
           o == Len(ordered_receive_events)
<1>1. /\ n \in Nat /\ u \in Nat /\ o \in Nat
      /\ DOMAIN AllEvents = 1 .. n + u + o
      /\ DOMAIN delivered = 1 .. n
      /\ \A i \in 1 .. n : AllEvents[i] = delivered[i]
      /\ \A i \in 1 .. u : AllEvents[n + i] = unordered_receive_events[i]
      /\ \A i \in 1 .. o : AllEvents[n + u + i] = ordered_receive_events[i]
  BY AllEventsIs, Zenon DEF IInv
<1>2. /\ unordered_receive_events \in Seq(EventIn(P))
      /\ ordered_receive_events \in Seq(EventIn(P))
  BY Zenon DEF IInv, Typed
<1> DEFINE event == AllEvents[n + 1]
<1>3. n + 1 \in DOMAIN AllEvents /\ delivered' = Append(delivered, event)
  <2>1. CASE unordered_receive_events # <<>> /\ PopUnordered
    <3>1. 1 \in 1 .. u /\ delivered' = Append(delivered, unordered_receive_events[1])
      BY <1>2, <2>1 DEF PopUnordered
    <3>2. QED  BY <1>1, <3>1
  <2>2. CASE unordered_receive_events = <<>> /\ PopOrdered
    <3>1. /\ u = 0 /\ 1 \in 1 .. o
          /\ delivered' = Append(delivered, ordered_receive_events[1])
      BY <1>2, <2>2 DEF PopOrdered
    <3>2. n + u + 1 = n + 1
      BY <1>1, <3>1
    <3>3. QED  BY <1>1, <3>1, <3>2
  <2>3. QED  BY <2>1, <2>2, Zenon DEF PollData, PopNextReceiveEvent
<1>4. \E e \in P : e.end /\ event = EventOf(P, e)
  <2>1. PICK e \in EndsBefore(P, Taken) : event = EventOf(P, e)
    BY <1>3, Zenon DEF IInv, Events
  <2>2. QED  BY <2>1, Zenon DEF EndsBefore
<1>5. \A i \in DOMAIN delivered : i \in DOMAIN AllEvents /\ i # n + 1 /\ delivered[i] = AllEvents[i]
  BY <1>1
<1>6. \A i \in DOMAIN delivered : delivered[i].data \cap event.data = {}
  BY <1>3, <1>5, EventsDisjoint, Zenon DEF IInv
<1>7. (n + 1) - 1 = n
  BY <1>1
<1>8. ASSUME ~ event.unordered, NEW c \in P, ~ c.unordered, \A d \in event.data : c.hi <= d.lo
      PROVE  \E j \in DOMAIN delivered : c \in delivered[j].data
  <2> HIDE DEF n, u, o
  <2>1. PICK j \in 1 .. (n + 1) - 1 : c \in AllEvents[j].data
    BY <1>3, <1>8, EarlierDelivered, Zenon
  <2>2. QED  BY <1>1, <1>7, <2>1, Zenon
<1>9. IsNextEvent(P, event)
  BY <1>4, <1>6, <1>8, Zenon DEF IsNextEvent
<1>10. QED  BY <1>3, <1>9, Zenon
-----------------------------------------------------------------------------
(* The messages of s that the peer sends, and those that are read. *)

(* The chunks up to an end are those of one message that was handed over. *)
LEMMA EventIsMessage ==
    ASSUME NEW P, NEW s, IsPeer(P), AreSent(P, s), NEW e \in P, e.end
    PROVE  \E k \in DOMAIN s : s[k] = MessageFrom(EventOf(P, e))
<1> DEFINE D == MessageOf(P, e)
<1>1. D \subseteq P /\ e \in D
  BY Zenon DEF MessageOf, Pending
<1>2. PICK b, f \in D : /\ b.begin /\ f.end /\ Octets(D) = b.lo .. f.hi - 1
                        /\ \A c \in D : (c.begin => c = b) /\ (c.end => c = f)
  BY MessageIsWhole, Zenon DEF IsWhole
<1>3. e = f
  BY <1>1, <1>2, Zenon
<1>4. \A c \in D : c.lo \in Nat /\ c.hi \in Nat /\ c.lo < c.hi
  BY <1>1, PlaceFacts, Zenon
<1>5. AreMessages(s) /\ \A c \in D : \E k \in DOMAIN s : PartOf(c, s[k])
  BY <1>1, Zenon DEF AreSent
<1> HIDE DEF D
<1>6. PICK k \in DOMAIN s : PartOf(e, s[k]) /\ s[k].octets = Octets(D)
  BY <1>1, <1>2, <1>3, <1>4, <1>5, WholeIsMessage, Zenon
<1>7. s[k] = [stream |-> s[k].stream, unordered |-> s[k].unordered, octets |-> s[k].octets]
  BY <1>5, Zenon DEF AreMessages, IsMessage
<1>8. s[k] = [stream |-> e.stream_id, unordered |-> e.unordered, octets |-> Octets(D)]
  BY <1>6, <1>7, Zenon DEF PartOf
<1>9. QED  BY <1>8, Zenon DEF MessageFrom, EventOf, D

(***************************************************************************)
(* What poll_data returns next is a message of s that it has not returned  *)
(* yet, and if it is an ordered one, every ordered one before it has been  *)
(* returned.                                                               *)
(***************************************************************************)
IsNextMessage(s, m) == IsNextOf(s, delivered, m)

(* What poll_data has returned is made of the chunks of one message. *)
LEMMA DeliveredIsEvent ==
    ASSUME NEW P, IsPeer(P), IInv(P), NEW i \in DOMAIN delivered
    PROVE  \E e \in P : e.end /\ delivered[i] = EventOf(P, e)
<1>1. i \in DOMAIN AllEvents /\ AllEvents[i] = delivered[i]
  BY AllEventsIs DEF IInv
<1>2. QED  BY <1>1, Zenon DEF IInv, Events, EndsBefore

(* What poll_data returns next is a message that may be delivered next. *)
LEMMA NextEventIsMessage ==
    ASSUME NEW P, NEW s, IsPeer(P), IInv(P), AreSent(P, s), NEW event, IsNextEvent(P, event)
    PROVE  IsNextMessage(s, MessageFrom(event))
<1> DEFINE m == MessageFrom(event)
<1>1. PICK e \in P : e.end /\ event = EventOf(P, e)
  BY Zenon DEF IsNextEvent
<1>2. \E k \in DOMAIN s : s[k] = m
  BY <1>1, EventIsMessage, Zenon
<1>3. /\ event.data \subseteq P /\ e \in event.data /\ m.octets = Octets(event.data)
      /\ m.unordered = event.unordered
  BY <1>1, Zenon DEF EventOf, MessageOf, Pending, MessageFrom
<1> HIDE DEF m
<1>4. e.lo \in Nat /\ e.hi \in Nat /\ e.lo < e.hi
  BY PlaceFacts, Zenon
<1>5. e.lo \in m.octets
  <2>1. e.lo \in e.lo .. (e.hi - 1)
    BY <1>4
  <2>2. QED  BY <1>3, <2>1, Zenon DEF Octets
<1>6. ASSUME NEW i \in DOMAIN delivered
      PROVE  MessageFrom(delivered[i]) # m
  <2>1. PICK f \in P : f.end /\ delivered[i] = EventOf(P, f)
    BY DeliveredIsEvent, Zenon
  <2>2. delivered[i].data \subseteq P
    BY <2>1 DEF EventOf, MessageOf, Pending
  <2>3. Octets(delivered[i].data) \cap Octets(event.data) = {}
    BY <1>3, <2>2, OctetsDisjoint, Zenon DEF IsNextEvent
  <2>4. MessageFrom(delivered[i]).octets = Octets(delivered[i].data)
    BY Zenon DEF MessageFrom
  <2>5. QED  BY <1>3, <1>5, <2>3, <2>4, Zenon
<1>7. ASSUME ~ m.unordered, NEW j \in DOMAIN s, NEW k \in DOMAIN s, j < k, ~ s[j].unordered,
             s[k] = m
      PROVE  \E i \in DOMAIN delivered : MessageFrom(delivered[i]) = s[j]
  <2>1. AreMessages(s)
    BY Zenon DEF AreSent
  <2>2. PICK x \in Nat : x \in s[j].octets
    BY <2>1 DEF AreMessages, IsMessage
  <2>3. \A a \in s[j].octets, b \in m.octets : a < b
    BY <1>7, <2>1, Zenon DEF AreMessages
  <2>4. x < e.lo
    BY <1>5, <2>2, <2>3, Zenon
  <2>5. x \in 0 .. (e.hi - 1)
    BY <1>4, <2>2, <2>4
  <2>6. PICK c \in P : x \in c.lo .. (c.hi - 1)
    BY <2>5, Zenon DEF AreSent, Octets
  <2>7. PICK l \in DOMAIN s : PartOf(c, s[l])
    BY Zenon DEF AreSent
  <2>8. l = j
    BY <2>1, <2>2, <2>6, <2>7, ByteOfOne, Zenon DEF PartOf
  <2>9. c.lo \in Nat /\ c.hi \in Nat /\ c.lo < c.hi
    BY PlaceFacts, Zenon
  <2>10. c.hi - 1 \in s[j].octets
    BY <2>7, <2>8, <2>9 DEF PartOf
  <2>11. ASSUME NEW d \in event.data
         PROVE  c.hi <= d.lo
    <3>1. d.lo \in Nat /\ d.hi \in Nat /\ d.lo < d.hi
      BY <1>3, PlaceFacts, Zenon
    <3>2. d.lo \in d.lo .. (d.hi - 1)
      BY <3>1
    <3>3. d.lo \in m.octets
      BY <1>3, <3>2, Zenon DEF Octets
    <3>4. c.hi - 1 < d.lo
      BY <2>3, <2>10, <3>3, Zenon
    <3>5. QED  BY <2>9, <3>1, <3>4
  <2>12. ~ c.unordered
    BY <1>7, <2>7, <2>8, Zenon DEF PartOf
  <2>13. ~ event.unordered
    BY <1>3, <1>7, Zenon
  <2>14. PICK i \in DOMAIN delivered : c \in delivered[i].data
    BY <2>11, <2>12, <2>13, Zenon DEF IsNextEvent
  <2>15. PICK f \in P : f.end /\ delivered[i] = EventOf(P, f)
    BY DeliveredIsEvent, Zenon
  <2>16. PICK n \in DOMAIN s : s[n] = MessageFrom(delivered[i])
    BY <2>15, EventIsMessage, Zenon
  <2>17. x \in s[n].octets
    BY <2>6, <2>14, <2>16 DEF MessageFrom, Octets
  <2>18. n = j
    BY <2>1, <2>2, <2>17, ByteOfOne, Zenon
  <2>19. QED  BY <2>16, <2>18, Zenon
<1>8. IsNextMessage(s, m)
  BY <1>2, <1>6, <1>7, Zenon DEF IsNextMessage, IsNextOf
<1>9. QED  BY <1>8, Zenon DEF m

-----------------------------------------------------------------------------
(* The receiving half while the chunks P of its peer become more. *)

RInv(P) == IsPeer(P) /\ IInv(P) /\ Reached(P)

(* The receiver begins with nothing received. *)
LEMMA RInvInit ==
    ASSUME Init
    PROVE  RInv({})
<1>1. IsPeer({})
  BY Zenon DEF IsPeer
<1>2. IInv({})
  BY <1>1, InitInv, Zenon
<1>3. InitTsn \in Tsn
  BY RxAssumption, Zenon
<1>4. increase(decrease(InitTsn)) = InitTsn /\ WrappingSub(InitTsn, InitTsn) = 0
  BY <1>3, WrappingSubIs, TsnAssumption DEF increase, decrease, Tsn
<1>5. Taken = 0
  BY <1>4, Zenon DEF Taken, Init
<1>6. QED  BY <1>1, <1>2, <1>5, Zenon DEF RInv, Reached

(* The peer numbers one more chunk, and the receiver does nothing. *)
LEMMA RInvGrows ==
    ASSUME NEW P, RInv(P), NEW Q, IsPeer(Q), P \subseteq Q, NEW n \in Nat,
           \A c \in P : Place(c) < n, \A c \in Q : c \in P \/ Place(c) = n, UNCHANGED vars
    PROVE  RInv(Q)'
<1>1. Taken \in Nat
  BY TsnAssumption DEF RInv, IInv, InOrder
<1>2. \A c \in P : Place(c) \in Nat
  BY PlaceFacts, Zenon DEF RInv
<1>3. Taken <= n
  BY <1>1, <1>2 DEF RInv, Reached
<1>4. IInv(Q)
  BY <1>3, PeerGrows, Zenon DEF RInv
<1>5. UNCHANGED bufferVars /\ UNCHANGED shutdown_state /\ UNCHANGED tx_notifications
  BY Zenon DEF vars
<1>6. /\ shutdown_state' \in {"None", "AbortReceived", "ShutdownReceived", "Complete"}
      /\ tx_notifications' \in Seq(TxNotification)
  BY <1>4, <1>5, Zenon DEF IInv, Typed
<1>7. IInv(Q)'
  BY <1>4, <1>5, <1>6, SameBuffers, Zenon
<1>8. Taken' = Taken
  BY <1>5, Zenon DEF bufferVars, Taken
<1>9. Reached(Q)'
  BY <1>8, Zenon DEF RInv, Reached
<1>10. IsPeer(Q)'
  BY Zenon DEF IsPeer, Place, Continues
<1>11. QED  BY <1>7, <1>9, <1>10, Zenon DEF RInv

(* After a step, a SACK reports only chunks of the peer. *)
LEMMA AckIsTruthfulNext ==
    ASSUME NEW P
    PROVE  (IsPeer(P) /\ IInv(P) /\ Reached(P) /\ WithinGap => IsTruthful(P, Sack))'
<1>1. IsPeer(P) /\ IInv(P) /\ Reached(P) /\ WithinGap => IsTruthful(P, Sack)
  BY AckIsTruthful, Zenon
<1>2. QED  BY <1>1, PTL

(* handle_data_chunk acknowledges truly. *)
LEMMA RInvTakes ==
    ASSUME NEW P, RInv(P), NEW data \in P, HandleDataChunk(data)
    PROVE  /\ RInv(P)'
           /\ \E n : /\ tx_notifications' = Append(tx_notifications, n)
                     /\ WithinGap' => IsTruthful(P, n)
<1>1. IsPeer(P) /\ IInv(P) /\ Reached(P)
  BY Zenon DEF RInv
<1>2. IInv(P)' /\ Reached(P)'
  BY <1>1, DataStep, ReachedStep, Zenon
<1>3. IsPeer(P)'
  BY <1>1, Zenon DEF IsPeer, Place, Continues
<1>4. WithinGap' => IsTruthful(P, Sack')
  BY <1>2, <1>3, AckIsTruthfulNext, Zenon
<1>5. QED  BY <1>2, <1>3, <1>4, DataAcked, Zenon DEF RInv

(* Taking the notifications for the sending half changes nothing else. *)
LEMMA RInvDrains ==
    ASSUME NEW P, RInv(P), TxNotifications
    PROVE  RInv(P)'
<1>1. IsPeer(P) /\ IInv(P) /\ Reached(P)
  BY Zenon DEF RInv
<1>2. UNCHANGED bufferVars /\ UNCHANGED shutdown_state /\ tx_notifications' = <<>>
  BY Zenon DEF TxNotifications
<1>3. /\ shutdown_state' \in {"None", "AbortReceived", "ShutdownReceived", "Complete"}
      /\ tx_notifications' \in Seq(TxNotification)
  BY <1>1, <1>2 DEF IInv, Typed
<1>4. IInv(P)'
  BY <1>1, <1>2, <1>3, SameBuffers, Zenon
<1>5. Taken' = Taken
  BY <1>2, Zenon DEF bufferVars, Taken
<1>6. Reached(P)' /\ IsPeer(P)'
  BY <1>1, <1>5, Zenon DEF Reached, IsPeer, Place, Continues
<1>7. QED  BY <1>4, <1>6, Zenon DEF RInv

(* poll_data returns the next one of the messages that the peer sends. *)
LEMMA RInvReads ==
    ASSUME NEW P, RInv(P), NEW s, AreSent(P, s), PollData
    PROVE  /\ RInv(P)'
           /\ \E event : /\ delivered' = Append(delivered, event)
                         /\ IsNextMessage(s, MessageFrom(event))
<1>1. IsPeer(P) /\ IInv(P) /\ Reached(P)
  BY Zenon DEF RInv
<1>2. IInv(P)'
  BY <1>1, PollStep, Zenon
<1>3. Taken' = Taken
  BY Zenon DEF PollData, Taken
<1>4. Reached(P)' /\ IsPeer(P)'
  BY <1>1, <1>3, Zenon DEF Reached, IsPeer, Place, Continues
<1>5. QED  BY <1>1, <1>2, <1>4, ReadsNextEvent, NextEventIsMessage, Zenon DEF RInv
=============================================================================
