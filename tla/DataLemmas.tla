----------------------------- MODULE DataLemmas -----------------------------
(* Facts about TSN arithmetic, for every modulus and every wrap radius,     *)
(* about how many bytes a set of buffers holds, and about the messages that *)
(* chunks and events carry.                                                 *)
EXTENDS SerialNumber, Chunks, Sequences, FiniteSetTheorems, TLAPS

(* The successor and the predecessor of a TSN are TSNs: Tsn::increase and   *)
(* Tsn::decrease wrap.                                                      *)
LEMMA IncreaseDecreaseType ==
    ASSUME NEW t \in Tsn
    PROVE  increase(t) \in Tsn /\ decrease(t) \in Tsn
BY TsnAssumption DEF increase, decrease, Tsn

(* A u32 sum that wraps is a TSN again. *)
LEMMA WrappingType ==
    ASSUME NEW t \in Tsn, NEW n \in Int
    PROVE  WrappingAdd(t, n) \in Tsn /\ WrappingSub(t, n) \in Tsn
BY TsnAssumption DEF WrappingAdd, WrappingSub, Tsn

(* Tsn::cmp orders two numbers that are at most WrapRad apart as they were  *)
(* assigned, on both sides of the wrap and across it.                       *)
THEOREM TsnOrder == OrderedWithinRadius
<1> SUFFICES ASSUME NEW t \in Tsn, NEW k \in 1 .. WrapRad
             PROVE  TsnLT(t, Ahead(t, k)) /\ ~ TsnLT(Ahead(t, k), t)
    BY Zenon DEF OrderedWithinRadius, TsnGT
<1>1. CASE t + k < TsnMod
  <2>1. t \in Int /\ k \in Int /\ 0 <= t /\ 0 < k /\ k <= WrapRad /\ Ahead(t, k) = t + k
        BY <1>1, TsnAssumption DEF Tsn, Ahead
  <2>2. QED  BY <2>1, <1>1, TsnAssumption DEF TsnLT, WRAP_LO, WRAP_HI, Tsn
<1>2. CASE t + k >= TsnMod
  <2>1. t \in Int /\ k \in Int /\ t < TsnMod /\ 0 < k /\ k <= WrapRad
        /\ Ahead(t, k) = t + k - TsnMod
        BY <1>2, TsnAssumption DEF Tsn, Ahead
  <2>2. QED  BY <2>1, <1>2, TsnAssumption DEF TsnLT, WRAP_LO, WRAP_HI, Tsn
<1>3. QED  BY <1>1, <1>2, TsnAssumption DEF Tsn

(* A difference that wraps, computed without a division. *)
LEMMA WrappingSubIs ==
    ASSUME NEW t \in Tsn, NEW u \in Tsn
    PROVE  WrappingSub(t, u) = IF u <= t THEN t - u ELSE t - u + TsnMod
BY TsnAssumption DEF WrappingSub, Tsn

(* A sum that wraps, likewise. *)
LEMMA WrappingAddIs ==
    ASSUME NEW t \in Tsn, NEW n \in Tsn
    PROVE  WrappingAdd(t, n) = Ahead(t, n)
BY TsnAssumption DEF WrappingAdd, Ahead, Tsn

-----------------------------------------------------------------------------
(***************************************************************************)
(* A set of naturals has a least element.  A proof by induction becomes a  *)
(* proof about the least counterexample.                                   *)
(***************************************************************************)
LEMMA LeastNat ==
    ASSUME NEW T, T \subseteq Nat, T # {}
    PROVE  \E m \in T : \A k \in T : m <= k
<1>1. \E R : IsWellFoundedOn(R, Nat) /\ \A i, j \in Nat : i < j => <<i, j>> \in R
  <2>1. \A i, j \in Nat : i < j => <<i, j>> \in OpToRel(<, Nat)
    BY Zenon DEF OpToRel
  <2>2. QED  BY <2>1, NatLessThanWellFounded, Zenon
<1>2. PICK R : IsWellFoundedOn(R, Nat) /\ \A i, j \in Nat : i < j => <<i, j>> \in R
  BY <1>1, Zenon
<1>3. PICK m \in T : \A k \in T : ~ (<<k, m>> \in R)
  <2>1. IsWellFoundedOn(R, Nat)
    BY <1>2, Zenon
  <2>2. QED  BY ONLY <2>1, WFMin, T \subseteq Nat, T # {}, Zenon
<1>4. \A k \in T : ~ (k < m)
  BY <1>2, <1>3, Zenon
<1>5. QED  BY <1>4

-----------------------------------------------------------------------------
(* An interval has as many elements as its bounds say: a buffer's length. *)
LEMMA IntervalSize ==
    ASSUME NEW a \in Nat, NEW b \in Nat, a <= b
    PROVE  IsFiniteSet(a .. (b - 1)) /\ Cardinality(a .. (b - 1)) = b - a
<1>1. a \in Int /\ b - 1 \in Int
  OBVIOUS
<1>2. IsFiniteSet(a .. (b - 1))
      /\ Cardinality(a .. (b - 1)) = IF a > b - 1 THEN 0 ELSE b - 1 - a + 1
  BY <1>1, FS_Interval, Zenon
<1>3. (IF a > b - 1 THEN 0 ELSE b - 1 - a + 1) = b - a
  OBVIOUS
<1>4. QED  BY <1>2, <1>3

(* No chunks hold no bytes. *)
LEMMA NoOctets == Octets({}) = {} /\ TotalLen({}) = 0
BY FS_EmptySet, Zenon DEF Octets, TotalLen

(* The bytes of two collections of chunks are the bytes of both. *)
LEMMA OctetsUnion ==
    ASSUME NEW S, NEW T
    PROVE  Octets(S \cup T) = Octets(S) \cup Octets(T)
BY Zenon DEF Octets

(* The bytes of one chunk are its buffer. *)
LEMMA OctetsSingle ==
    ASSUME NEW c
    PROVE  Octets({c}) = c.lo .. (c.hi - 1)
BY Zenon DEF Octets

(* Collections that share no byte: their lengths add up. *)
LEMMA DisjointLen ==
    ASSUME NEW S, NEW T, IsFiniteSet(S), IsFiniteSet(T), S \cap T = {}
    PROVE  /\ IsFiniteSet(S \cup T)
           /\ Cardinality(S \cup T) = Cardinality(S) + Cardinality(T)
           /\ Cardinality(S) \in Nat /\ Cardinality(T) \in Nat
<1>1. Cardinality(S) \in Nat /\ Cardinality(T) \in Nat
  BY FS_CardinalityType, Zenon
<1>2. Cardinality(S \cap T) = 0
  BY FS_EmptySet, Zenon
<1>3. IsFiniteSet(S \cup T)
      /\ Cardinality(S \cup T) = Cardinality(S) + Cardinality(T) - Cardinality(S \cap T)
  BY FS_Union, Zenon
<1>4. QED  BY <1>1, <1>2, <1>3

(* A buffer that shares no byte with a collection adds its length to it. *)
LEMMA AddChunk ==
    ASSUME NEW S, NEW c, c.lo \in Nat, c.hi \in Nat, c.lo <= c.hi,
           IsFiniteSet(Octets(S)), Octets(S) \cap (c.lo .. (c.hi - 1)) = {}
    PROVE  /\ IsFiniteSet(Octets(S \cup {c}))
           /\ TotalLen(S \cup {c}) = TotalLen(S) + BufLen(c)
           /\ BufLen(c) \in Nat
<1>1. Octets({c}) = c.lo .. (c.hi - 1)
  BY OctetsSingle, Zenon
<1>2. Octets(S \cup {c}) = Octets(S) \cup Octets({c})
  BY OctetsUnion, Zenon
<1>3. IsFiniteSet(Octets({c})) /\ Cardinality(Octets({c})) = c.hi - c.lo
  BY <1>1, IntervalSize, Zenon
<1>4. Octets(S) \cap Octets({c}) = {}
  BY <1>1, Zenon
<1>5. /\ IsFiniteSet(Octets(S) \cup Octets({c}))
      /\ Cardinality(Octets(S) \cup Octets({c})) = Cardinality(Octets(S)) + Cardinality(Octets({c}))
  BY <1>3, <1>4, DisjointLen, Zenon
<1>6. BufLen(c) = c.hi - c.lo /\ BufLen(c) \in Nat
  BY DEF BufLen
<1>7. TotalLen(S \cup {c}) = TotalLen(S) + BufLen(c)
  BY <1>2, <1>3, <1>5, <1>6, Zenon DEF TotalLen
<1>8. QED  BY <1>2, <1>5, <1>6, <1>7, Zenon

(* Taking away buffers that share no byte with the rest takes their length. *)
LEMMA RemoveChunks ==
    ASSUME NEW S, NEW T, T \subseteq S, IsFiniteSet(Octets(S)),
           Octets(S \ T) \cap Octets(T) = {}
    PROVE  /\ IsFiniteSet(Octets(S \ T))
           /\ TotalLen(S \ T) = TotalLen(S) - TotalLen(T)
           /\ TotalLen(S \ T) \in Nat /\ TotalLen(T) \in Nat /\ TotalLen(S) \in Nat
<1>1. S = (S \ T) \cup T
  BY Zenon
<1>2. Octets(S) = Octets(S \ T) \cup Octets(T)
  BY <1>1, OctetsUnion, Zenon
<1>3. IsFiniteSet(Octets(S \ T)) /\ IsFiniteSet(Octets(T))
  BY <1>2, FS_Subset, Zenon
<1>4. /\ Cardinality(Octets(S)) = Cardinality(Octets(S \ T)) + Cardinality(Octets(T))
      /\ Cardinality(Octets(S \ T)) \in Nat /\ Cardinality(Octets(T)) \in Nat
  BY <1>2, <1>3, DisjointLen, Zenon
<1>5. QED  BY <1>3, <1>4 DEF TotalLen
-----------------------------------------------------------------------------
(* The elements of three sequences one after the other. *)
Joined(a, b, c) == a \o b \o c

AreJoined(S, a, b, c) ==
    /\ Joined(a, b, c) \in Seq(S)
    /\ Len(a) \in Nat /\ Len(b) \in Nat /\ Len(c) \in Nat
    /\ Len(Joined(a, b, c)) = Len(a) + Len(b) + Len(c)
    /\ DOMAIN Joined(a, b, c) = 1 .. Len(a) + Len(b) + Len(c)
    /\ \A i \in 1 .. Len(a) : Joined(a, b, c)[i] = a[i]
    /\ \A i \in 1 .. Len(b) : Joined(a, b, c)[Len(a) + i] = b[i]
    /\ \A i \in 1 .. Len(c) : Joined(a, b, c)[Len(a) + Len(b) + i] = c[i]

(* The elements of three sequences joined, and where they are. *)
LEMMA Concat3 ==
    ASSUME NEW S, NEW a \in Seq(S), NEW b \in Seq(S), NEW c \in Seq(S)
    PROVE  AreJoined(S, a, b, c)
<1>1. /\ a \o b \in Seq(S) /\ Len(a \o b) = Len(a) + Len(b)
      /\ \A i \in 1 .. Len(a) : (a \o b)[i] = a[i]
      /\ \A i \in 1 .. Len(b) : (a \o b)[Len(a) + i] = b[i]
  OBVIOUS
<1> DEFINE ab == a \o b
<1> HIDE DEF ab
<1>2. /\ ab \o c \in Seq(S) /\ Len(ab \o c) = Len(ab) + Len(c)
      /\ \A i \in 1 .. Len(ab) : (ab \o c)[i] = ab[i]
      /\ \A i \in 1 .. Len(c) : (ab \o c)[Len(ab) + i] = c[i]
  <2>1. ab \in Seq(S)
    BY <1>1, Zenon DEF ab
  <2>2. QED  BY <2>1
<1>3. Len(a) \in Nat /\ Len(b) \in Nat /\ Len(c) \in Nat
  OBVIOUS
<1>4. Len(ab) = Len(a) + Len(b)
  BY <1>1, Zenon DEF ab
<1>5. \A i \in 1 .. Len(a) : (ab \o c)[i] = a[i]
  BY <1>1, <1>2, <1>3, <1>4 DEF ab
<1>6. \A i \in 1 .. Len(b) : (ab \o c)[Len(a) + i] = b[i]
  BY <1>1, <1>2, <1>3, <1>4 DEF ab
<1>7. \A i \in 1 .. Len(c) : (ab \o c)[Len(a) + Len(b) + i] = c[i]
  BY <1>2, <1>3, <1>4, Zenon
<1>8. Len(ab \o c) = Len(a) + Len(b) + Len(c)
  BY <1>2, <1>4, Zenon
<1>9. DOMAIN (ab \o c) = 1 .. Len(ab \o c)
  BY <1>2
<1>10. QED  BY <1>2, <1>3, <1>5, <1>6, <1>7, <1>8, <1>9, Zenon DEF ab, Joined, AreJoined

(* Sequences with the same elements are equal. *)
LEMMA SameElements ==
    ASSUME NEW S, NEW s \in Seq(S), NEW t \in Seq(S), Len(s) = Len(t),
           \A i \in 1 .. Len(s) : s[i] = t[i]
    PROVE  s = t
OBVIOUS

(* A sequence into which two others are put, v after its first X elements   *)
(* and p at the end, and what comes before what in the result.              *)
IsWoven(old, v, p, all, X, V, O, P) ==
    /\ X \in Nat /\ V \in Nat /\ O \in Nat /\ P \in Nat
    /\ DOMAIN old = 1 .. X + O /\ DOMAIN v = 1 .. V /\ DOMAIN p = 1 .. P
    /\ DOMAIN all = 1 .. X + V + O + P
    /\ \A i \in 1 .. X : all[i] = old[i]
    /\ \A i \in 1 .. V : all[X + i] = v[i]
    /\ \A i \in 1 .. O : all[X + V + i] = old[X + i]
    /\ \A i \in 1 .. P : all[X + V + O + i] = p[i]

WovenOrder(old, v, p, all) ==
    /\ \A j \in DOMAIN old : \E i \in DOMAIN all : all[i] = old[j]
    /\ \A k \in DOMAIN v : \E i \in DOMAIN all : all[i] = v[k]
    /\ \A k \in DOMAIN p : \E i \in DOMAIN all : all[i] = p[k]
    /\ \A i \in DOMAIN all : \/ \E j \in DOMAIN old : all[i] = old[j]
                             \/ \E k \in DOMAIN v : all[i] = v[k]
                             \/ \E k \in DOMAIN p : all[i] = p[k]
    /\ \A i, j \in DOMAIN all : i < j =>
         \/ \E a, b \in DOMAIN old : a < b /\ all[i] = old[a] /\ all[j] = old[b]
         \/ \E a \in DOMAIN old, b \in DOMAIN v : all[i] = old[a] /\ all[j] = v[b]
         \/ \E a \in DOMAIN old, b \in DOMAIN p : all[i] = old[a] /\ all[j] = p[b]
         \/ \E a \in DOMAIN v, b \in DOMAIN old : all[i] = v[a] /\ all[j] = old[b]
         \/ \E a, b \in DOMAIN v : a < b /\ all[i] = v[a] /\ all[j] = v[b]
         \/ \E a \in DOMAIN v, b \in DOMAIN p : all[i] = v[a] /\ all[j] = p[b]
         \/ \E a, b \in DOMAIN p : a < b /\ all[i] = p[a] /\ all[j] = p[b]

(* A sequence woven from two others has their elements in their orders. *)
LEMMA Interleaved ==
    ASSUME NEW old, NEW v, NEW p, NEW all, NEW X, NEW V, NEW O, NEW P,
           IsWoven(old, v, p, all, X, V, O, P)
    PROVE  WovenOrder(old, v, p, all)
<1>1. X \in Nat /\ V \in Nat /\ O \in Nat /\ P \in Nat
  BY Zenon DEF IsWoven
<1>2. /\ DOMAIN old = 1 .. X + O /\ DOMAIN v = 1 .. V /\ DOMAIN p = 1 .. P
      /\ DOMAIN all = 1 .. X + V + O + P
  BY Zenon DEF IsWoven
<1>3. \A i \in 1 .. X : all[i] = old[i]
  BY Zenon DEF IsWoven
<1>4. \A i \in 1 .. V : all[X + i] = v[i]
  BY Zenon DEF IsWoven
<1>5. \A i \in 1 .. O : all[X + V + i] = old[X + i]
  BY Zenon DEF IsWoven
<1>6. \A i \in 1 .. P : all[X + V + O + i] = p[i]
  BY Zenon DEF IsWoven
(* Every element is of one of the four parts. *)
<1>7. ASSUME NEW i \in DOMAIN all
       PROVE  \/ i \in 1 .. X /\ i \in DOMAIN old /\ all[i] = old[i]
              \/ \E k \in DOMAIN v : i = X + k /\ all[i] = v[k]
              \/ \E k \in 1 .. O : /\ i = X + V + k /\ X + k \in DOMAIN old
                                   /\ all[i] = old[X + k]
              \/ \E k \in DOMAIN p : i = X + V + O + k /\ all[i] = p[k]
  <2>1. CASE i <= X
    BY <1>1, <1>2, <1>3, <2>1
  <2>2. CASE X < i /\ i <= X + V
    <3>1. i - X \in 1 .. V /\ X + (i - X) = i
      BY <1>1, <1>2, <2>2
    <3>2. QED  BY <1>2, <1>4, <3>1, Zenon
  <2>3. CASE X + V < i /\ i <= X + V + O
    <3> DEFINE k == i - (X + V)
    <3>1. k \in 1 .. O /\ X + V + k = i /\ X + k \in DOMAIN old
      BY <1>1, <1>2, <2>3
    <3>2. QED  BY <1>5, <3>1, Zenon
  <2>4. CASE X + V + O < i
    <3> DEFINE k == i - (X + V + O)
    <3>1. k \in 1 .. P /\ X + V + O + k = i
      BY <1>1, <1>2, <2>4
    <3>2. QED  BY <1>2, <1>6, <3>1, Zenon
  <2>5. QED  BY <1>1, <1>2, <2>1, <2>2, <2>3, <2>4
<1>8. ASSUME NEW j \in DOMAIN old
       PROVE  \E i \in DOMAIN all : all[i] = old[j]
  <2>1. CASE j <= X
    BY <1>1, <1>2, <1>3, <2>1
  <2>2. CASE X < j
    <3> DEFINE k == j - X
    <3>1. k \in 1 .. O /\ X + k = j /\ X + V + k \in DOMAIN all
      BY <1>1, <1>2, <2>2
    <3>2. QED  BY <1>5, <3>1, Zenon
  <2>3. QED  BY <1>1, <1>2, <2>1, <2>2
<1>9. ASSUME NEW k \in DOMAIN v
      PROVE  \E i \in DOMAIN all : all[i] = v[k]
  <2>1. X + k \in DOMAIN all /\ all[X + k] = v[k]
    BY <1>1, <1>2, <1>4
  <2>2. QED  BY <2>1, Zenon
<1>10. ASSUME NEW k \in DOMAIN p
       PROVE  \E i \in DOMAIN all : all[i] = p[k]
  <2>1. X + V + O + k \in DOMAIN all /\ all[X + V + O + k] = p[k]
    BY <1>1, <1>2, <1>6
  <2>2. QED  BY <2>1, Zenon
<1>11. ASSUME NEW i \in DOMAIN all, NEW j \in DOMAIN all, i < j
       PROVE  \/ \E a, b \in DOMAIN old : a < b /\ all[i] = old[a] /\ all[j] = old[b]
              \/ \E a \in DOMAIN old, b \in DOMAIN v : all[i] = old[a] /\ all[j] = v[b]
              \/ \E a \in DOMAIN old, b \in DOMAIN p : all[i] = old[a] /\ all[j] = p[b]
              \/ \E a \in DOMAIN v, b \in DOMAIN old : all[i] = v[a] /\ all[j] = old[b]
              \/ \E a, b \in DOMAIN v : a < b /\ all[i] = v[a] /\ all[j] = v[b]
              \/ \E a \in DOMAIN v, b \in DOMAIN p : all[i] = v[a] /\ all[j] = p[b]
              \/ \E a, b \in DOMAIN p : a < b /\ all[i] = p[a] /\ all[j] = p[b]
  <2>0. i \in Int /\ j \in Int
    BY <1>2
  <2>1. CASE i \in 1 .. X /\ i \in DOMAIN old /\ all[i] = old[i]
    <3>1. CASE j \in 1 .. X /\ j \in DOMAIN old /\ all[j] = old[j]
      BY <1>11, <2>1, <3>1, Zenon
    <3>2. ASSUME NEW k \in 1 .. O, X + k \in DOMAIN old, all[j] = old[X + k]
          PROVE  \E a, b \in DOMAIN old : a < b /\ all[i] = old[a] /\ all[j] = old[b]
      <4>1. i < X + k
        BY <1>1, <2>1
      <4>2. QED  BY <2>1, <3>2, <4>1, Zenon
    <3>3. QED  BY <1>7, <2>1, <3>1, <3>2, Zenon
  <2>2. ASSUME NEW k \in DOMAIN v, i = X + k, all[i] = v[k]
        PROVE  \/ \E a \in DOMAIN v, b \in DOMAIN old : all[i] = v[a] /\ all[j] = old[b]
               \/ \E a, b \in DOMAIN v : a < b /\ all[i] = v[a] /\ all[j] = v[b]
               \/ \E a \in DOMAIN v, b \in DOMAIN p : all[i] = v[a] /\ all[j] = p[b]
    <3>1. ASSUME NEW l \in DOMAIN v, j = X + l
          PROVE  k < l
      BY <1>1, <1>2, <1>11, <2>2, <3>1
    <3>2. QED  BY <1>7, <2>2, <3>1, Zenon
  <2>3. ASSUME NEW k \in 1 .. O, i = X + V + k, X + k \in DOMAIN old,
               all[i] = old[X + k]
        PROVE  \/ \E a, b \in DOMAIN old : a < b /\ all[i] = old[a] /\ all[j] = old[b]
               \/ \E a \in DOMAIN old, b \in DOMAIN p : all[i] = old[a] /\ all[j] = p[b]
    <3>1. ~ (j \in 1 .. X)
      BY <1>1, <1>11, <2>3
    <3>2. ~ \E l \in DOMAIN v : j = X + l
      BY <1>1, <1>2, <1>11, <2>3
    <3>3. ASSUME NEW l \in 1 .. O, j = X + V + l
          PROVE  X + k < X + l
      BY <1>1, <1>11, <2>3, <3>3
    <3>4. QED  BY <1>7, <2>3, <3>1, <3>2, <3>3, Zenon
  <2>4. ASSUME NEW k \in DOMAIN p, i = X + V + O + k, all[i] = p[k]
        PROVE  \E a, b \in DOMAIN p : a < b /\ all[i] = p[a] /\ all[j] = p[b]
    <3>1. ~ (j \in 1 .. X)
      BY <1>1, <1>2, <1>11, <2>4
    <3>2. ~ \E l \in DOMAIN v : j = X + l
      BY <1>1, <1>2, <1>11, <2>4
    <3>3. ~ \E l \in 1 .. O : j = X + V + l
      BY <1>1, <1>2, <1>11, <2>4
    <3>4. ASSUME NEW l \in DOMAIN p, j = X + V + O + l
          PROVE  k < l
      BY <1>1, <1>2, <1>11, <2>4, <3>4
    <3>5. QED  BY <1>7, <2>4, <3>1, <3>2, <3>3, <3>4, Zenon
  <2>5. QED  BY <1>7, <2>1, <2>2, <2>3, <2>4, Zenon
<1>12. \A i \in DOMAIN all : \/ \E j \in DOMAIN old : all[i] = old[j]
                             \/ \E k \in DOMAIN v : all[i] = v[k]
                             \/ \E k \in DOMAIN p : all[i] = p[k]
  BY <1>7, Zenon
<1>13. QED  BY <1>8, <1>9, <1>10, <1>11, <1>12, Zenon DEF WovenOrder
(* Two of three sequences that are extended: what comes before what. *)
LEMMA Extended ==
    ASSUME NEW S, NEW d \in Seq(S), NEW u \in Seq(S), NEW v \in Seq(S),
           NEW o \in Seq(S), NEW p \in Seq(S)
    PROVE  WovenOrder(Joined(d, u, o), v, p, Joined(d, u \o v, o \o p))
<1> DEFINE D == Len(d)
           U == Len(u)
           V == Len(v)
           O == Len(o)
           P == Len(p)
           uv == u \o v
           op == o \o p
           old == Joined(d, u, o)
           all == Joined(d, uv, op)
<1>1. D \in Nat /\ U \in Nat /\ V \in Nat /\ O \in Nat /\ P \in Nat
  OBVIOUS
<1>2. DOMAIN v = 1 .. V /\ DOMAIN p = 1 .. P
  OBVIOUS
<1>3. /\ uv \in Seq(S) /\ Len(uv) = U + V
      /\ \A i \in 1 .. U : uv[i] = u[i]
      /\ \A i \in 1 .. V : uv[U + i] = v[i]
  OBVIOUS
<1>4. /\ op \in Seq(S) /\ Len(op) = O + P
      /\ \A i \in 1 .. O : op[i] = o[i]
      /\ \A i \in 1 .. P : op[O + i] = p[i]
  OBVIOUS
<1>5. /\ DOMAIN old = 1 .. D + U + O
      /\ \A i \in 1 .. D : old[i] = d[i]
      /\ \A i \in 1 .. U : old[D + i] = u[i]
      /\ \A i \in 1 .. O : old[D + U + i] = o[i]
  <2>1. AreJoined(S, d, u, o)
    BY Concat3, Zenon
  <2>2. QED  BY <2>1, Zenon DEF AreJoined
<1> HIDE DEF uv, op, old
<1>6. /\ DOMAIN all = 1 .. D + Len(uv) + Len(op)
      /\ \A i \in 1 .. D : all[i] = d[i]
      /\ \A i \in 1 .. Len(uv) : all[D + i] = uv[i]
      /\ \A i \in 1 .. Len(op) : all[D + Len(uv) + i] = op[i]
  <2>1. uv \in Seq(S) /\ op \in Seq(S)
    BY <1>3, <1>4, Zenon
  <2>2. AreJoined(S, d, uv, op)
    BY <2>1, Concat3, Zenon
  <2>3. QED  BY <2>2, Zenon DEF AreJoined
<1> HIDE DEF D, U, V, O, P, all
<1>7. DOMAIN all = 1 .. (D + U) + V + O + P
  BY <1>1, <1>3, <1>4, <1>6
<1>8. \A i \in 1 .. D + U : all[i] = old[i]
  <2> SUFFICES ASSUME NEW i \in 1 .. D + U
               PROVE  all[i] = old[i]
      BY Zenon
  <2>1. CASE i <= D
    BY <1>1, <1>5, <1>6, <2>1, SMTT(30)
  <2>2. CASE D < i
    <3>1. i - D \in 1 .. U /\ i - D \in 1 .. Len(uv) /\ D + (i - D) = i
      BY <1>1, <1>3, <2>2
    <3>2. all[i] = uv[i - D] /\ old[i] = u[i - D] /\ uv[i - D] = u[i - D]
      BY <1>3, <1>5, <1>6, <3>1, Zenon
    <3>3. QED  BY <3>2, Zenon
  <2>3. QED  BY <1>1, <2>1, <2>2
<1>9. \A i \in 1 .. V : all[(D + U) + i] = v[i]
  <2> SUFFICES ASSUME NEW i \in 1 .. V
               PROVE  all[(D + U) + i] = v[i]
      BY Zenon
  <2>1. U + i \in 1 .. Len(uv) /\ D + (U + i) = (D + U) + i
    BY <1>1, <1>3
  <2>2. QED  BY <1>3, <1>6, <2>1, Zenon
<1>10. \A i \in 1 .. O : all[(D + U) + V + i] = old[(D + U) + i]
  <2> SUFFICES ASSUME NEW i \in 1 .. O
               PROVE  all[(D + U) + V + i] = old[(D + U) + i]
      BY Zenon
  <2>1. i \in 1 .. Len(op) /\ D + Len(uv) + i = (D + U) + V + i
    BY <1>1, <1>3, <1>4
  <2>2. QED  BY <1>4, <1>5, <1>6, <2>1
<1>11. \A i \in 1 .. P : all[(D + U) + V + O + i] = p[i]
  <2> SUFFICES ASSUME NEW i \in 1 .. P
               PROVE  all[(D + U) + V + O + i] = p[i]
      BY Zenon
  <2>1. O + i \in 1 .. Len(op) /\ D + Len(uv) + (O + i) = (D + U) + V + O + i
    <3>1. Len(uv) = U + V /\ Len(op) = O + P
      BY <1>3, <1>4, Zenon
    <3>2. QED  BY <1>1, <3>1
  <2>2. QED  BY <1>4, <1>6, <2>1, Zenon
<1>12. D + U \in Nat /\ DOMAIN old = 1 .. (D + U) + O
  BY <1>1, <1>5
<1>13. IsWoven(old, v, p, all, D + U, V, O, P)
  BY <1>1, <1>2, <1>7, <1>8, <1>9, <1>10, <1>11, <1>12, Zenon DEF IsWoven
<1>14. WovenOrder(old, v, p, all)
  BY <1>13, Interleaved, Zenon
<1>15. QED  BY <1>14, Zenon DEF old, all, uv, op

(* An event that is moved from the front of one sequence to the end of the  *)
(* one before it stays where it is in both together.                        *)
LEMMA MoveFirst ==
    ASSUME NEW S, NEW d \in Seq(S), NEW s \in Seq(S), s # <<>>
    PROVE  Append(d, s[1]) \o Tail(s) = d \o s
<1>1. /\ Len(s) \in Nat /\ 1 <= Len(s) /\ s[1] \in S /\ Tail(s) \in Seq(S)
      /\ Len(Tail(s)) = Len(s) - 1 /\ \A i \in 1 .. Len(s) - 1 : Tail(s)[i] = s[i + 1]
  OBVIOUS
<1>2. /\ Append(d, s[1]) \in Seq(S) /\ Len(d) \in Nat /\ Len(Append(d, s[1])) = Len(d) + 1
      /\ Append(d, s[1])[Len(d) + 1] = s[1]
      /\ \A i \in 1 .. Len(d) : Append(d, s[1])[i] = d[i]
  BY <1>1
<1> DEFINE a == Append(d, s[1])
           t == Tail(s)
<1> HIDE DEF a, t
<1>3. a \in Seq(S) /\ t \in Seq(S)
  BY <1>1, <1>2, Zenon DEF a, t
<1>4. /\ a \o t \in Seq(S) /\ Len(a \o t) = Len(a) + Len(t)
      /\ \A i \in 1 .. Len(a) : (a \o t)[i] = a[i]
      /\ \A i \in 1 .. Len(t) : (a \o t)[Len(a) + i] = t[i]
  BY <1>3
<1>5. /\ d \o s \in Seq(S) /\ Len(d \o s) = Len(d) + Len(s)
      /\ \A i \in 1 .. Len(d) : (d \o s)[i] = d[i]
      /\ \A i \in 1 .. Len(s) : (d \o s)[Len(d) + i] = s[i]
  OBVIOUS
<1>6. Len(a) = Len(d) + 1 /\ Len(t) = Len(s) - 1
  BY <1>1, <1>2, Zenon DEF a, t
<1>7. Len(a \o t) = Len(d \o s)
  BY <1>1, <1>2, <1>4, <1>5, <1>6
<1>8. ASSUME NEW i \in 1 .. Len(a \o t)
      PROVE  (a \o t)[i] = (d \o s)[i]
  <2>1. i \in Int /\ 1 <= i /\ i <= Len(d) + Len(s)
    BY <1>1, <1>2, <1>5, <1>7
  <2>2. CASE i <= Len(d)
    <3>1. i \in 1 .. Len(d) /\ i \in 1 .. Len(a)
      BY <1>2, <1>6, <2>1, <2>2
    <3>2. QED  BY <1>2, <1>4, <1>5, <3>1, Zenon DEF a
  <2>3. CASE i = Len(d) + 1
    <3>1. i \in 1 .. Len(a) /\ 1 \in 1 .. Len(s)
      BY <1>1, <1>2, <1>6, <2>1, <2>3
    <3>2. (a \o t)[i] = a[i] /\ a[i] = s[1]
      BY <1>2, <1>4, <2>3, <3>1, Zenon DEF a
    <3>3. (d \o s)[i] = s[1]
      BY <1>5, <2>3, <3>1, Zenon
    <3>4. QED  BY <3>2, <3>3, Zenon
  <2>4. CASE i > Len(d) + 1
    <3> DEFINE k == i - (Len(d) + 1)
    <3>1. /\ k \in 1 .. Len(t) /\ k \in 1 .. Len(s) - 1 /\ i = Len(a) + k
          /\ k + 1 \in 1 .. Len(s) /\ i = Len(d) + (k + 1)
      BY <1>1, <1>2, <1>6, <2>1, <2>4
    <3> HIDE DEF k
    <3>2. (a \o t)[i] = t[k] /\ t[k] = s[k + 1]
      BY <1>1, <1>4, <3>1, Zenon DEF t
    <3>3. (d \o s)[i] = s[k + 1]
      BY <1>5, <3>1, Zenon
    <3>4. QED  BY <3>2, <3>3, Zenon
  <2>5. QED  BY <1>2, <2>1, <2>2, <2>3, <2>4
<1>9. a \o t = d \o s
  BY <1>4, <1>5, <1>7, <1>8, SameElements, Zenon
<1>10. QED  BY <1>9, Zenon DEF a, t

(* A number of a bounded set lies in a maximal run of it. *)
LEMMA MaximalRun ==
    ASSUME NEW S \in SUBSET Nat, 0 \notin S, NEW bound \in Nat, \A o \in S : o <= bound,
           NEW o \in S
    PROVE  \E a, b \in S : /\ a - 1 \notin S /\ b + 1 \notin S
                           /\ a <= o /\ o <= b /\ a .. b \subseteq S
<1>1. o \in Nat
  BY Zenon
<1> DEFINE A == {k \in Nat : k <= o /\ k .. o \subseteq S}
           B == {k \in Nat : o <= k /\ k + 1 \notin S}
<1>2. o \in A /\ bound \in B
  BY <1>1
<1>3. PICK a \in A : \A k \in A : a <= k
  <2>1. A \in SUBSET Nat /\ A # {}
    BY <1>2, Zenon
  <2> HIDE DEF A
  <2>2. QED  BY <2>1, LeastNat, Zenon
<1>4. PICK b \in B : \A k \in B : b <= k
  <2>1. B \in SUBSET Nat /\ B # {}
    BY <1>2, Zenon
  <2> HIDE DEF B
  <2>2. QED  BY <2>1, LeastNat, Zenon
<1>5. a \in Nat /\ a <= o /\ a .. o \subseteq S /\ b \in Nat /\ o <= b /\ b + 1 \notin S
  BY Zenon
<1>6. a \in S /\ a # 0
  BY <1>1, <1>5
<1>7. a - 1 \notin S
  <2> SUFFICES ASSUME a - 1 \in S
               PROVE  FALSE
      BY Zenon
  <2>1. a - 1 \in Nat /\ a - 1 <= o
    BY <1>1, <1>5, <1>6
  <2>2. \A x \in a - 1 .. o : x = a - 1 \/ x \in a .. o
    BY <1>1, <1>5
  <2>3. a - 1 \in A
    BY <1>5, <2>1, <2>2, Zenon
  <2>4. QED  BY <1>3, <1>5, <2>3
<1>8. \A x \in o .. b : x \in S
  <2> SUFFICES ASSUME NEW x \in o .. b, x \notin S
               PROVE  FALSE
      BY Zenon
  <2>1. x \in Nat /\ x - 1 \in Nat /\ o <= x - 1 /\ x - 1 < b /\ (x - 1) + 1 = x
    BY <1>1, <1>5
  <2>2. x - 1 \in B
    BY <2>1, Zenon
  <2>3. QED  BY <1>4, <1>5, <2>1, <2>2
<1>9. b \in S /\ a .. b \subseteq S
  <2>1. \A x \in a .. b : x \in a .. o \/ x \in o .. b
    BY <1>1, <1>5
  <2>2. QED  BY <1>1, <1>5, <1>8, <2>1
<1>10. QED  BY <1>5, <1>6, <1>7, <1>9, Zenon

(* A sequence with one more element. *)
LEMMA Appends ==
    ASSUME NEW S, NEW s \in Seq(S), NEW x, NEW t, t = Append(s, x)
    PROVE  /\ Len(s) \in Nat /\ DOMAIN s = 1 .. Len(s) /\ DOMAIN t = 1 .. (Len(s) + 1)
           /\ t[Len(s) + 1] = x /\ t # <<>>
           /\ \A k \in DOMAIN s : k \in DOMAIN t /\ t[k] = s[k]
           /\ \A k \in DOMAIN t : k \in DOMAIN s \/ k = Len(s) + 1
OBVIOUS

(* The last of a sequence to which something has been added. *)
LEMMA LastAppended ==
    ASSUME NEW S, NEW s \in Seq(S), NEW x
    PROVE  Append(s, x)[Len(Append(s, x))] = x
BY SMT
-----------------------------------------------------------------------------
(* Messages, as the application hands them over, and the chunks of them. *)

(* A message has at least one byte. *)
IsMessage(m) ==
    /\ m = [stream |-> m.stream, unordered |-> m.unordered, octets |-> m.octets]
    /\ \E a, b \in Nat : a <= b /\ m.octets = a .. b

(* Chunk c carries bytes of message m, and its flags say which. *)
PartOf(c, m) ==
    /\ m.stream = c.stream_id /\ m.unordered = c.unordered
    /\ c.lo .. (c.hi - 1) \subseteq m.octets
    /\ c.begin <=> c.lo - 1 \notin m.octets
    /\ c.end => c.hi \notin m.octets

(* The messages of a sequence have their bytes in the order of the sequence. *)
AreMessages(s) ==
    /\ \A k \in DOMAIN s : IsMessage(s[k])
    /\ DOMAIN s \subseteq Nat
    /\ \A j, k \in DOMAIN s : j < k => \A x \in s[j].octets, y \in s[k].octets : x < y

(* The chunks P carry messages of s, and every byte before any of theirs. *)
AreSent(P, s) ==
    /\ AreMessages(s)
    /\ \A c \in P : \E k \in DOMAIN s : PartOf(c, s[k])
    /\ \A c \in P : 0 .. (c.hi - 1) \subseteq Octets(P)

(* What the application reads with an event. *)
MessageFrom(event) ==
    [stream |-> event.stream, unordered |-> event.unordered, octets |-> Octets(event.data)]

MessagesFrom(events) == [i \in DOMAIN events |-> MessageFrom(events[i])]

(* Reading one more event appends its message. *)
LEMMA ReadOneMore ==
    ASSUME NEW S, NEW events \in Seq(S), NEW event
    PROVE  MessagesFrom(Append(events, event)) = Append(MessagesFrom(events), MessageFrom(event))
<1> DEFINE M == S \cup {event}
           before == MessagesFrom(events)
           after == MessagesFrom(Append(events, event))
           T == {MessageFrom(e) : e \in M}
<1>1. /\ events \in Seq(M) /\ Append(events, event) \in Seq(M)
      /\ Len(events) \in Nat /\ Len(Append(events, event)) = Len(events) + 1
      /\ \A i \in 1 .. Len(events) : Append(events, event)[i] = events[i] /\ events[i] \in M
      /\ Append(events, event)[Len(events) + 1] = event /\ event \in M
  OBVIOUS
<1>2. /\ DOMAIN before = 1 .. Len(events) /\ DOMAIN after = 1 .. (Len(events) + 1)
      /\ \A i \in 1 .. Len(events) : before[i] = MessageFrom(events[i])
      /\ \A i \in 1 .. (Len(events) + 1) : after[i] = MessageFrom(Append(events, event)[i])
  BY <1>1 DEF MessagesFrom
<1>3. before \in Seq(T) /\ Len(before) = Len(events)
  BY <1>1, <1>2 DEF MessagesFrom
<1>4. after \in Seq(T) /\ Len(after) = Len(events) + 1
  BY <1>1, <1>2 DEF MessagesFrom
<1>5. MessageFrom(event) \in T
  BY <1>1, Zenon
<1> HIDE DEF before, after, T, M
<1>6. \A i \in 1 .. (Len(events) + 1) : after[i] = Append(before, MessageFrom(event))[i]
  BY <1>1, <1>2, <1>3
<1>7. Append(before, MessageFrom(event)) \in Seq(T)
      /\ Len(Append(before, MessageFrom(event))) = Len(events) + 1
  BY <1>1, <1>3, <1>5
<1>8. after = Append(before, MessageFrom(event))
  BY <1>4, <1>6, <1>7, SameElements, Zenon
<1>9. QED  BY <1>8, Zenon DEF after, before

(* m is the one of the messages s that may be read next after the events.  *)
IsNextOf(s, events, m) ==
    /\ \E k \in DOMAIN s : s[k] = m
    /\ \A i \in DOMAIN events : MessageFrom(events[i]) # m
    /\ ~ m.unordered =>
         \A j, k \in DOMAIN s : j < k /\ ~ s[j].unordered /\ s[k] = m =>
             \E i \in DOMAIN events : MessageFrom(events[i]) = s[j]

(* The bytes of the next message come after those of the ones before it. *)
LEMMA MessagesAppend ==
    ASSUME NEW S, NEW s \in Seq(S), NEW m, NEW a \in Nat, NEW b \in Nat, NEW t, t = Append(s, m),
           AreMessages(s), IsMessage(m), m.octets = a .. b,
           \A k \in DOMAIN s : s[k].octets \subseteq 0 .. (a - 1)
    PROVE  AreMessages(t)
<1>1. /\ Len(s) \in Nat /\ DOMAIN s = 1 .. Len(s) /\ DOMAIN t = 1 .. (Len(s) + 1)
      /\ t[Len(s) + 1] = m
      /\ \A k \in DOMAIN s : k \in DOMAIN t /\ t[k] = s[k]
      /\ \A k \in DOMAIN t : k \in DOMAIN s \/ k = Len(s) + 1
  BY Appends
<1>2. \A k \in DOMAIN t : IsMessage(t[k])
  BY <1>1, Zenon DEF AreMessages
<1>3. ASSUME NEW j \in DOMAIN t, NEW k \in DOMAIN t, j < k,
             NEW x \in t[j].octets, NEW y \in t[k].octets
      PROVE  x < y
  <2>1. j \in DOMAIN s
    BY <1>1, <1>3
  <2>2. CASE k \in DOMAIN s
    BY <1>1, <1>3, <2>1, <2>2, Zenon DEF AreMessages
  <2>3. CASE k = Len(s) + 1
    BY <1>1, <2>1, <2>3
  <2>4. QED  BY <1>1, <2>2, <2>3, Zenon
<1>4. DOMAIN t \subseteq Nat
  BY <1>1
<1>5. QED  BY <1>2, <1>3, <1>4, Zenon DEF AreMessages

(* No byte is in two messages. *)
LEMMA ByteOfOne ==
    ASSUME NEW s, AreMessages(s), NEW j \in DOMAIN s, NEW k \in DOMAIN s,
           NEW x \in s[j].octets, x \in s[k].octets
    PROVE  j = k
<1>1. x \in Nat /\ j \in Nat /\ k \in Nat
  BY DEF AreMessages, IsMessage
<1>2. ~ (j < k) /\ ~ (k < j)
  BY <1>1 DEF AreMessages
<1>3. QED  BY <1>1, <1>2

(***************************************************************************)
(* Chunks whose bytes are those from b, where a message begins, to e,      *)
(* where one ends, and of which only b begins one, carry a whole message.  *)
(***************************************************************************)
LEMMA WholeIsMessage ==
    ASSUME NEW s, AreMessages(s), NEW D, NEW b \in D, NEW e \in D,
           \A c \in D : c.lo \in Nat /\ c.hi \in Nat /\ c.lo < c.hi,
           \A c \in D : \E k \in DOMAIN s : PartOf(c, s[k]),
           b.begin, e.end, Octets(D) = b.lo .. (e.hi - 1), \A c \in D : c.begin => c = b
    PROVE  \E k \in DOMAIN s : PartOf(e, s[k]) /\ s[k].octets = Octets(D)
<1>1. PICK k \in DOMAIN s : PartOf(e, s[k])
  BY Zenon
<1>2. PICK lo, hi \in Nat : lo <= hi /\ s[k].octets = lo .. hi
  BY Zenon DEF AreMessages, IsMessage
<1>3. /\ b.lo \in Nat /\ b.hi \in Nat /\ b.lo < b.hi
      /\ e.lo \in Nat /\ e.hi \in Nat /\ e.lo < e.hi
  BY Zenon
<1>4. e.lo \in lo .. hi /\ e.hi - 1 \in lo .. hi /\ e.hi \notin lo .. hi
  <2>1. e.lo \in e.lo .. (e.hi - 1) /\ e.hi - 1 \in e.lo .. (e.hi - 1)
    BY <1>3
  <2>2. QED  BY <1>1, <1>2, <2>1, Zenon DEF PartOf
<1>5. hi = e.hi - 1
  BY <1>2, <1>3, <1>4
<1>6. e.lo .. (e.hi - 1) \subseteq b.lo .. (e.hi - 1)
  BY Zenon DEF Octets
<1>7. b.lo <= e.lo
  BY <1>3, <1>6
<1>8. ~ (lo < b.lo)
  <2> SUFFICES ASSUME lo < b.lo
               PROVE  FALSE
    BY Zenon
  <2>1. PICK j \in DOMAIN s : PartOf(b, s[j])
    BY Zenon
  <2>2. b.lo \in s[j].octets
    BY <1>3, <2>1 DEF PartOf
  <2>3. b.lo \in s[k].octets /\ b.lo - 1 \in s[k].octets
    BY <1>2, <1>3, <1>5, <1>7
  <2>4. j = k
    BY <2>2, <2>3, ByteOfOne, Zenon
  <2>5. QED  BY <2>1, <2>3, <2>4, Zenon DEF PartOf
<1>9. PICK c \in D : lo \in c.lo .. (c.hi - 1)
  <2>1. lo \in Octets(D)
    BY <1>2, <1>3, <1>5, <1>8
  <2>2. QED  BY <2>1, Zenon DEF Octets
<1>10. c.lo = lo /\ c.begin
  <2>1. PICK j \in DOMAIN s : PartOf(c, s[j])
    BY Zenon
  <2>2. lo \in s[j].octets
    BY <1>9, <2>1, Zenon DEF PartOf
  <2>3. lo \in s[k].octets
    BY <1>2
  <2>4. j = k
    BY <2>2, <2>3, ByteOfOne, Zenon
  <2>5. c.lo \in Nat /\ c.hi \in Nat /\ c.lo < c.hi
    BY Zenon
  <2>6. c.lo \in lo .. hi
    BY <1>2, <2>1, <2>4, <2>5, SMTT(30) DEF PartOf
  <2>7. c.lo = lo
    BY <1>2, <1>9, <2>5, <2>6
  <2>8. lo - 1 \notin lo .. hi
    BY <1>2
  <2>9. QED  BY <1>2, <2>1, <2>4, <2>7, <2>8, Zenon DEF PartOf
<1>11. b.lo = lo
  BY <1>10, Zenon
<1>12. QED  BY <1>1, <1>2, <1>5, <1>11, Zenon
=============================================================================
