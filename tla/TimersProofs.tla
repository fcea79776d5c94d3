---------------------------- MODULE TimersProofs ----------------------------
(***************************************************************************)
(* The clock, the timers and the loop that sleeps on them, for all limits  *)
(* of the timeout and any number of chunks.                                *)
(*                                                                         *)
(* The loop may sleep on a timer that has been replaced meanwhile.  What   *)
(* bounds the delay is the heartbeat, which is always armed (Awake); what  *)
(* bounds the age of a chunk is that the timer was set when the chunk was  *)
(* sent or later, and how often it may be set again (Timed).               *)
(***************************************************************************)
EXTENDS Timers, TLAPS

(* What is assumed of the limits. *)
Limits ==
    /\ MinRto \in Nat /\ MaxRto \in Nat /\ InitialRto \in Nat /\ U64 \in Nat
    /\ ProbeSoon \in Nat /\ ProbeLate \in Nat /\ Tick \in Nat /\ Horizon \in Nat
    /\ MinRto <= MaxRto /\ MaxRto <= InitialRto /\ ProbeSoon <= ProbeLate

Srtt == [uninited : BOOLEAN, measure_for_tsn : SUBSET (Nat \X Int), srtt : Int, rttvar : Int,
         rto : Nat]
Limited(s) == s \in Srtt /\ (~ s.uninited => MinRto <= s.rto /\ s.rto <= MaxRto)
Entry == [tsn : Nat, queued_at : Int, marked_for_retransmit : BOOLEAN]

(* As TimersAssumption says. *)
LEMMA LimitsHold == Limits
BY TimersAssumption DEF Limits

(* The outstanding chunks have the last numbers, and one of them is measured if any is. *)
Outstanding ==
    /\ Limited(srtt) /\ resend_queue \in Seq(Entry) /\ tsn_counter \in Nat
    /\ Len(resend_queue) <= tsn_counter
    /\ \A i \in 1 .. Len(resend_queue) :
         resend_queue[i].tsn = tsn_counter - Len(resend_queue) + i - 1
    /\ \A m \in srtt.measure_for_tsn :
         tsn_counter - Len(resend_queue) <= m[1] /\ m[1] < tsn_counter

Instants ==
    /\ rto_timer \subseteq Int /\ heartbeat_timer \subseteq Int /\ shutdown_rto_timer \subseteq Int
    /\ \A h \in held : h.at \in Int /\ h = [at |-> h.at, marker |-> h.marker]

(* A heartbeat is due soon, and the loop sleeps on nothing later. *)
Awake ==
    /\ heartbeat_timer # {} /\ \A t \in heartbeat_timer : t <= ProbeLate
    /\ \A t \in Armed : 0 <= t.at + ProbeLate
    /\ \A h \in held :
         /\ held = {h} /\ h.at <= ProbeLate
         /\ h.marker = "void" \/ h \in Armed
         /\ \A t \in Armed : h.at <= t.at + ProbeLate

Oldest == resend_queue[1]
Longest == Most(InitialRto, 2 * MaxRto)

(* The timer was set after the oldest chunk was sent. *)
Timed ==
    /\ progress \in Int /\ progress <= 0
    /\ \A i \in DOMAIN resend_queue : resend_queue[i].queued_at <= 0
    /\ resend_queue = <<>> <=> rto_timer = {}
    /\ \A t \in rto_timer :
         /\ t <= rto_duration(srtt)
         /\ Oldest.queued_at + rto_duration(srtt) <= t
         /\ ~ recovering => progress + rto_duration(srtt) <= t
         /\ ~ HasRetransmission => t <= progress + Longest
    /\ resend_queue # <<>> =>
         /\ ~ Oldest.marked_for_retransmit => Oldest.queued_at <= progress
         /\ 0 <= progress + Patience

-----------------------------------------------------------------------------
(* srtt.rs: what the operations do to the timeout and to the measurement. *)
LEMMA Duration ==
    ASSUME Limits, NEW s, Limited(s)
    PROVE  /\ rto_duration(s) \in Nat /\ rto_duration(s) <= InitialRto
           /\ s.uninited => rto_duration(s) = InitialRto
           /\ ~ s.uninited => rto_duration(s) <= MaxRto
BY DEF Limits, Limited, Srtt, rto_duration

(* tsn_sent measures the new chunk or goes on with the old one, and keeps the timeout. *)
LEMMA Sent ==
    ASSUME Limits, NEW s, Limited(s), NEW tsn \in Nat
    PROVE  /\ Limited(TsnSent(s, tsn)) /\ rto_duration(TsnSent(s, tsn)) = rto_duration(s)
           /\ \A m \in TsnSent(s, tsn).measure_for_tsn : m \in s.measure_for_tsn \/ m = <<tsn, 0>>
BY DEF Limits, Limited, Srtt, TsnSent, rto_duration

(* Division and the cast to u64 yield integers. *)
LEMMA Quotients ==
    ASSUME NEW a \in Int
    PROVE  /\ Quotient(a, 4) \in Int /\ a \div 8 \in Int /\ a \div 2 \in Int
           /\ U64 \in Nat => AsU64(a) \in Int
BY DEF Quotient, AsU64

(* The max and min in measured keep the timeout within its limits. *)
LEMMA Clamped ==
    ASSUME Limits, NEW s \in Srtt, ~ s.uninited
    PROVE  Limited(WithRto(s)) /\ WithRto(s).measure_for_tsn = s.measure_for_tsn
<1>1. s.srtt + 4 * s.rttvar \in Int
  BY DEF Srtt
<1>2. AsU64(s.srtt + 4 * s.rttvar) \in Int
  BY <1>1, Quotients DEF Limits
<1>. DEFINE r == Least(Most(AsU64(s.srtt + 4 * s.rttvar), MinRto), MaxRto)
<1>3. r \in Nat /\ MinRto <= r /\ r <= MaxRto
  BY <1>2 DEF Limits, Least, Most
<1>4. WithRto(s) = [s EXCEPT !.rto = r]
  BY DEF WithRto
<1>. HIDE DEF r
<1>. QED  BY <1>3, <1>4 DEF Limited, Srtt

(* measured yields a timeout within its limits, whatever the sample. *)
LEMMA MeasuredFacts ==
    ASSUME Limits, NEW s \in Srtt, NEW a \in Int
    PROVE  Limited(Measured(s, a)) /\ Measured(s, a).measure_for_tsn = s.measure_for_tsn
<1>1. CASE s.uninited
  <2>. DEFINE t == [s EXCEPT !.uninited = FALSE, !.srtt = a, !.rttvar = a \div 2]
  <2>1. t \in Srtt /\ ~ t.uninited /\ t.measure_for_tsn = s.measure_for_tsn
    BY Quotients, Zenon DEF Srtt
  <2>2. Measured(s, a) = WithRto(t)
    BY <1>1 DEF Measured
  <2>. QED  BY <2>1, <2>2, Clamped, Zenon
<1>2. CASE ~ s.uninited
  <2>. DEFINE v == Quotient(3 * s.rttvar, 4) + Quotient(s.srtt - a, 4)
              w == (7 * s.srtt) \div 8 + a \div 8
              t == [s EXCEPT !.rttvar = v, !.srtt = w]
  <2>1. v \in Int /\ w \in Int
    <3>1. 3 * s.rttvar \in Int /\ s.srtt - a \in Int /\ 7 * s.srtt \in Int
      BY DEF Srtt
    <3>. QED  BY <3>1, Quotients
  <2>2. Measured(s, a) = WithRto(t)
    BY <1>2 DEF Measured
  <2>. HIDE DEF v, w
  <2>3. t \in Srtt /\ ~ t.uninited /\ t.measure_for_tsn = s.measure_for_tsn
    BY <1>2, <2>1, Zenon DEF Srtt
  <2>. QED  BY <2>2, <2>3, Clamped, Zenon
<1>. QED  BY <1>1, <1>2

(* tsn_acked ends the measurement of what is acknowledged. *)
LEMMA Acked ==
    ASSUME Limits, NEW s, Limited(s), NEW tsn \in Nat
    PROVE  /\ Limited(TsnAcked(s, tsn))
           /\ \A m \in TsnAcked(s, tsn).measure_for_tsn : m \in s.measure_for_tsn /\ tsn < m[1]
<1>1. CASE \E m \in s.measure_for_tsn : IsMeasuredBy(m, tsn)
  <2>. DEFINE m == CHOOSE m \in s.measure_for_tsn : TRUE
              t == [s EXCEPT !.measure_for_tsn = {}]
  <2>1. m \in s.measure_for_tsn
    BY <1>1
  <2>2. t \in Srtt /\ t.measure_for_tsn = {} /\ 0 - m[2] \in Int
    BY <2>1 DEF Limited, Srtt
  <2>3. TsnAcked(s, tsn) = Measured(t, 0 - m[2])
    BY <1>1 DEF TsnAcked
  <2>. QED  BY <2>2, <2>3, MeasuredFacts, ZenonT(40)
<1>2. CASE ~ \E m \in s.measure_for_tsn : IsMeasuredBy(m, tsn)
  <2>1. \A m \in s.measure_for_tsn : m[1] \in Nat
    BY DEF Limited, Srtt
  <2>. QED  BY <1>2, <2>1 DEF TsnAcked, IsMeasuredBy
<1>. QED  BY <1>1, <1>2

(* rto_expired keeps the timeout within its limits and the measurement as it is. *)
LEMMA Backed ==
    ASSUME Limits, NEW s, Limited(s)
    PROVE  /\ Limited(BackedOff(s)) /\ BackedOff(s).measure_for_tsn = s.measure_for_tsn
           /\ BackedOff(s).uninited = s.uninited
<1>. DEFINE r == Least(2 * s.rto, MaxRto)
<1>1. BackedOff(s) = [s EXCEPT !.rto = r] /\ s \in Srtt
  BY DEF BackedOff, Limited
<1>2. r \in Nat /\ (~ s.uninited => MinRto <= r /\ r <= MaxRto)
  BY DEF Limits, Limited, Srtt, Least
<1>. HIDE DEF r
<1>. QED  BY <1>1, <1>2 DEF Limited, Srtt

-----------------------------------------------------------------------------
(* The chunk that is measured. *)
LEMMA OutstandingStart ==
    ASSUME Init
    PROVE  Outstanding
BY DEF Init, Outstanding, Limited, Srtt, NewSrtt

(* A new chunk has the next number and becomes the last outstanding one. *)
LEMMA OutstandingPutOnWire ==
    ASSUME Limits, Outstanding, PutOnWire
    PROVE  Outstanding'
<1>. DEFINE e == [tsn |-> tsn_counter, queued_at |-> 0, marked_for_retransmit |-> FALSE]
            n == Len(resend_queue)
<1>1. /\ n \in Nat /\ tsn_counter \in Nat /\ e \in Entry /\ e.tsn = tsn_counter
      /\ resend_queue \in Seq(Entry) /\ n <= tsn_counter /\ tsn_counter' = tsn_counter + 1
  BY DEF Outstanding, Entry, PutOnWire
<1>2. resend_queue' = Append(resend_queue, e)
  BY DEF PutOnWire
<1>. HIDE DEF e
<1>3. /\ resend_queue' \in Seq(Entry) /\ Len(resend_queue') = n + 1
      /\ \A i \in 1 .. n : resend_queue'[i] = resend_queue[i]
      /\ resend_queue'[n + 1] = e
  BY <1>1, <1>2
<1>4. /\ Limited(srtt')
      /\ \A m \in srtt'.measure_for_tsn : m \in srtt.measure_for_tsn \/ m[1] = tsn_counter
  <2>1. Limited(srtt) /\ srtt' = TsnSent(srtt, tsn_counter)
    BY DEF Outstanding, PutOnWire
  <2>2. \A m \in srtt'.measure_for_tsn : m \in srtt.measure_for_tsn \/ m = <<tsn_counter, 0>>
    BY <1>1, <2>1, Sent, Zenon
  <2>3. Limited(srtt')
    BY <1>1, <2>1, Sent, Zenon
  <2>. QED  BY <2>2, <2>3
<1>5. \A m \in srtt'.measure_for_tsn :
        tsn_counter' - Len(resend_queue') <= m[1] /\ m[1] < tsn_counter'
  <2>1. \A m \in srtt'.measure_for_tsn : m[1] \in Nat
    BY <1>4 DEF Limited, Srtt
  <2>. QED  BY <1>1, <1>3, <1>4, <2>1 DEF Outstanding
<1>6. \A i \in 1 .. Len(resend_queue') :
        resend_queue'[i].tsn = tsn_counter' - Len(resend_queue') + i - 1
  <2>1. \A i \in 1 .. n : resend_queue[i].tsn = tsn_counter - n + i - 1
    BY Zenon DEF Outstanding
  <2>. QED  BY <1>1, <1>3, <2>1
<1>7. Len(resend_queue') <= tsn_counter' /\ tsn_counter' \in Nat
  BY <1>1, <1>3
<1>. QED  BY <1>3, <1>4, <1>5, <1>6, <1>7, Zenon DEF Outstanding

(* A SACK takes a prefix off the queue, and the measurement if it is of that prefix. *)
LEMMA OutstandingHandleSack ==
    ASSUME Limits, Outstanding, NEW cum_tsn \in Nat, HandleSack(cum_tsn)
    PROVE  Outstanding'
<1>. DEFINE n == Len(resend_queue)
<1>1. PICK k \in 1 .. n : /\ resend_queue[k].tsn = cum_tsn
                          /\ resend_queue' = SubSeq(resend_queue, k + 1, n)
  <2>1. DOMAIN resend_queue = 1 .. n
    BY DEF Outstanding
  <2>. QED  BY <2>1, Zenon DEF HandleSack
<1>2. n \in Nat /\ resend_queue \in Seq(Entry) /\ tsn_counter \in Nat /\ UNCHANGED tsn_counter
  BY DEF HandleSack, Outstanding
<1>3. /\ resend_queue' \in Seq(Entry) /\ Len(resend_queue') = n - k
      /\ \A i \in 1 .. n - k : resend_queue'[i] = resend_queue[k + i]
  BY <1>1, <1>2
<1>4. cum_tsn = tsn_counter - n + k - 1
  BY <1>1, Zenon DEF Outstanding
<1>5. Limited(srtt') /\ \A m \in srtt'.measure_for_tsn : m \in srtt.measure_for_tsn /\ cum_tsn < m[1]
  BY Acked, Zenon DEF HandleSack, Outstanding
<1>6. \A m \in srtt'.measure_for_tsn :
        tsn_counter' - Len(resend_queue') <= m[1] /\ m[1] < tsn_counter'
  <2>1. \A m \in srtt'.measure_for_tsn : m[1] \in Nat
    BY <1>5 DEF Limited, Srtt
  <2>. QED  BY <1>2, <1>3, <1>4, <1>5, <2>1, SMTT(30) DEF Outstanding
<1>7. \A i \in 1 .. Len(resend_queue') :
        resend_queue'[i].tsn = tsn_counter' - Len(resend_queue') + i - 1
  <2>1. \A i \in 1 .. n : resend_queue[i].tsn = tsn_counter - n + i - 1
    BY Zenon DEF Outstanding
  <2>2. \A i \in 1 .. n - k : k + i \in 1 .. n
    BY <1>2
  <2>. QED  BY <1>2, <1>3, <2>1, <2>2, SMTT(30)
<1>8. Len(resend_queue') <= tsn_counter' /\ tsn_counter' \in Nat
  BY <1>2, <1>3 DEF Outstanding
<1>. QED  BY <1>3, <1>5, <1>6, <1>7, <1>8, Zenon DEF Outstanding

(* A step that keeps the numbers of the chunks and of the one that is measured. *)
LEMMA OutstandingKeeps ==
    ASSUME Outstanding, UNCHANGED tsn_counter, Limited(srtt'), resend_queue' \in Seq(Entry),
           Len(resend_queue') = Len(resend_queue),
           \A i \in 1 .. Len(resend_queue) : resend_queue'[i].tsn = resend_queue[i].tsn,
           \A m \in srtt'.measure_for_tsn : \E l \in srtt.measure_for_tsn : m[1] = l[1]
    PROVE  Outstanding'
BY Zenon DEF Outstanding

(* Every entry is kept, but for its time and its mark. *)
LEMMA Mapped ==
    ASSUME resend_queue \in Seq(Entry), DOMAIN resend_queue' = DOMAIN resend_queue,
           resend_queue' = [i \in DOMAIN resend_queue' |-> resend_queue'[i]],
           \A i \in DOMAIN resend_queue : resend_queue'[i] \in Entry
    PROVE  resend_queue' \in Seq(Entry) /\ Len(resend_queue') = Len(resend_queue)
OBVIOUS

(* A retransmission changes no number. *)
LEMMA OutstandingRetransmit ==
    ASSUME Outstanding, Retransmit
    PROVE  Outstanding'
<1>1. /\ resend_queue' = [resend_queue EXCEPT ![1].marked_for_retransmit = FALSE]
      /\ resend_queue \in Seq(Entry) /\ UNCHANGED <<tsn_counter, srtt>>
  BY DEF Retransmit, Outstanding
<1>2. /\ resend_queue' \in Seq(Entry) /\ Len(resend_queue') = Len(resend_queue)
      /\ \A i \in 1 .. Len(resend_queue) : resend_queue'[i].tsn = resend_queue[i].tsn
  <2>1. resend_queue # <<>> /\ DOMAIN resend_queue = 1 .. Len(resend_queue)
    BY DEF Retransmit, HasRetransmission, Outstanding
  <2>2. 1 \in DOMAIN resend_queue /\ resend_queue[1] \in Entry
    BY <1>1, <2>1
  <2>. DEFINE e == [resend_queue[1] EXCEPT !.marked_for_retransmit = FALSE]
  <2>3. e \in Entry /\ e.tsn = resend_queue[1].tsn
    BY <2>2, Zenon DEF Entry
  <2>4. resend_queue' = [resend_queue EXCEPT ![1] = e]
    BY <1>1
  <2>. HIDE DEF e
  <2>5. /\ DOMAIN resend_queue' = DOMAIN resend_queue
        /\ resend_queue' = [i \in DOMAIN resend_queue' |-> resend_queue'[i]]
        /\ \A i \in DOMAIN resend_queue : resend_queue'[i] = IF i = 1 THEN e ELSE resend_queue[i]
    BY <2>2, <2>4, Zenon
  <2>6. \A i \in DOMAIN resend_queue : resend_queue[i] \in Entry
    BY <1>1
  <2>7. \A i \in DOMAIN resend_queue : /\ resend_queue'[i] \in Entry
                                       /\ resend_queue'[i].tsn = resend_queue[i].tsn
    BY <2>3, <2>5, <2>6, Zenon
  <2>. QED  BY <1>1, <2>1, <2>5, <2>7, Mapped, Zenon
<1>. QED  BY <1>1, <1>2, OutstandingKeeps DEF Outstanding

(* What handle_rto_timeout does, and that nothing else of handle_timeout concerns chunks. *)
Backs(at) ==
    /\ recovering' /\ srtt' = BackedOff(srtt) /\ rto_timer' = {at + rto_duration(srtt')}
    /\ resend_queue' = [i \in DOMAIN resend_queue |-> resend_queue'[i]]
    /\ \A i \in DOMAIN resend_queue :
         LET e == resend_queue[i]
         IN  IF ~ e.marked_for_retransmit /\ e.queued_at + rto_duration(srtt') <= at
             THEN resend_queue'[i] = [e EXCEPT !.marked_for_retransmit = TRUE, !.queued_at = at]
             ELSE resend_queue'[i] = e

(* The retransmission timer does nothing, stops for an empty queue, or backs off. *)
LEMMA RtoTimeout ==
    ASSUME NEW h, HandleTimeout(h)
    PROVE  \/ UNCHANGED <<recovering, srtt, resend_queue, rto_timer>>
           \/ /\ h.marker = "rto"
              /\ resend_queue = <<>> /\ rto_timer' = {} /\ UNCHANGED <<recovering, srtt, resend_queue>>
           \/ h.marker = "rto" /\ resend_queue # <<>> /\ Backs(h.at)
<1>1. CASE ~ IsCurrent(h, "rto")
  BY <1>1, Zenon DEF HandleTimeout
<1>2. CASE IsCurrent(h, "rto") /\ resend_queue = <<>>
  BY <1>2, Zenon DEF HandleTimeout, HandleRtoTimeout, IsCurrent
<1>3. CASE IsCurrent(h, "rto") /\ resend_queue # <<>>
  <2>1. /\ recovering' /\ srtt' = BackedOff(srtt) /\ rto_timer' = SetRto(srtt', h.at)
        /\ resend_queue' = [i \in DOMAIN resend_queue |->
             IF /\ ~ resend_queue[i].marked_for_retransmit
                /\ resend_queue[i].queued_at + rto_duration(srtt') <= h.at
             THEN [resend_queue[i] EXCEPT !.marked_for_retransmit = TRUE, !.queued_at = h.at]
             ELSE resend_queue[i]]
    BY <1>3, Zenon DEF HandleTimeout, HandleRtoTimeout
  <2>2. Backs(h.at)
    BY <2>1, Zenon DEF Backs, SetRto
  <2>. QED  BY <1>3, <2>2, Zenon DEF IsCurrent
<1>. QED  BY <1>1, <1>2, <1>3, Zenon

(* handle_rto_timeout marks chunks and changes no number. *)
LEMMA BacksQueue ==
    ASSUME resend_queue \in Seq(Entry), NEW at \in Int, Backs(at)
    PROVE  /\ resend_queue' \in Seq(Entry) /\ Len(resend_queue') = Len(resend_queue)
           /\ \A i \in 1 .. Len(resend_queue) : resend_queue'[i].tsn = resend_queue[i].tsn
<1>1. \A e \in Entry : LET d == [e EXCEPT !.marked_for_retransmit = TRUE, !.queued_at = at]
                       IN  d \in Entry /\ d.tsn = e.tsn
  BY Zenon DEF Entry
<1>2. DOMAIN resend_queue = 1 .. Len(resend_queue)
      /\ \A i \in DOMAIN resend_queue : resend_queue[i] \in Entry
  OBVIOUS
<1>3. \A i \in DOMAIN resend_queue : /\ resend_queue'[i] \in Entry
                                     /\ resend_queue'[i].tsn = resend_queue[i].tsn
  BY <1>1, <1>2, Zenon DEF Backs
<1>4. /\ resend_queue' = [i \in DOMAIN resend_queue' |-> resend_queue'[i]]
      /\ DOMAIN resend_queue' = DOMAIN resend_queue
  BY Zenon DEF Backs
<1>. QED  BY <1>2, <1>3, <1>4, Mapped, Zenon

(* No timer that expires changes what is outstanding. *)
LEMMA OutstandingWakes ==
    ASSUME Limits, Outstanding, Instants, Wakes
    PROVE  Outstanding'
<1>1. PICK h \in held : HandleTimeout(h)
  BY Zenon DEF Wakes
<1>2. UNCHANGED tsn_counter
  BY Zenon DEF Wakes
<1>3. CASE UNCHANGED <<srtt, resend_queue>>
  BY <1>2, <1>3 DEF Outstanding
<1>4. CASE Backs(h.at)
  <2>. h.at \in Int
    BY DEF Instants
  <2>1. /\ resend_queue' \in Seq(Entry) /\ Len(resend_queue') = Len(resend_queue)
        /\ \A i \in 1 .. Len(resend_queue) : resend_queue'[i].tsn = resend_queue[i].tsn
    BY <1>4, BacksQueue, Zenon DEF Outstanding
  <2>2. Limited(srtt') /\ srtt'.measure_for_tsn = srtt.measure_for_tsn
    BY <1>4, Backed, Zenon DEF Outstanding, Backs
  <2>. QED  BY <1>2, <2>1, <2>2, OutstandingKeeps, Zenon
<1>. QED  BY <1>1, <1>3, <1>4, RtoTimeout, Zenon

(* Time moves every instant back, down to Horizon. *)
LEMMA Past ==
    ASSUME Limits, NEW a \in Int
    PROVE  Earlier(a) \in Int /\ a - Tick <= Earlier(a) /\ 0 - Horizon <= Earlier(a)
           /\ (Earlier(a) = a - Tick \/ Earlier(a) = 0 - Horizon)
BY DEF Limits, Earlier, Most

(* The passing of time changes no number. *)
LEMMA OutstandingSleeps ==
    ASSUME Limits, Outstanding, Sleeps
    PROVE  Outstanding'
<1>1. /\ srtt' = [srtt EXCEPT !.measure_for_tsn = {<<m[1], Earlier(m[2])>> : m \in @}]
      /\ resend_queue' = [i \in DOMAIN resend_queue |->
                            [resend_queue[i] EXCEPT !.queued_at = Earlier(@)]]
      /\ UNCHANGED tsn_counter
  BY Zenon DEF Sleeps
<1>2. \A e \in Entry : LET d == [e EXCEPT !.queued_at = Earlier(@)]
                       IN  d \in Entry /\ d.tsn = e.tsn
  <2>1. \A e \in Entry : Earlier(e.queued_at) \in Int
    BY Past DEF Entry
  <2>. QED  BY <2>1, Zenon DEF Entry
<1>3. /\ resend_queue \in Seq(Entry) /\ DOMAIN resend_queue = 1 .. Len(resend_queue)
      /\ \A i \in DOMAIN resend_queue : resend_queue[i] \in Entry
  BY DEF Outstanding
<1>4. /\ DOMAIN resend_queue' = DOMAIN resend_queue
      /\ resend_queue' = [i \in DOMAIN resend_queue' |-> resend_queue'[i]]
      /\ \A i \in DOMAIN resend_queue : /\ resend_queue'[i] \in Entry
                                        /\ resend_queue'[i].tsn = resend_queue[i].tsn
  BY <1>1, <1>2, <1>3, Zenon
<1>5. resend_queue' \in Seq(Entry) /\ Len(resend_queue') = Len(resend_queue)
  BY <1>3, <1>4, Mapped, Zenon
<1>6. /\ srtt \in Srtt /\ \A m \in srtt.measure_for_tsn : m[1] \in Nat /\ m[2] \in Int
  BY DEF Outstanding, Limited, Srtt
<1>. DEFINE M == {<<m[1], Earlier(m[2])>> : m \in srtt.measure_for_tsn}
<1>7. M \in SUBSET (Nat \X Int)
  BY <1>6, Past
<1>8. srtt' = [srtt EXCEPT !.measure_for_tsn = M]
  BY <1>1, Zenon
<1>9. \A m \in M : \E l \in srtt.measure_for_tsn : m[1] = l[1]
  OBVIOUS
<1>. HIDE DEF M
<1>10. Limited(srtt') /\ srtt'.measure_for_tsn = M
  BY <1>6, <1>7, <1>8 DEF Outstanding, Limited, Srtt
<1>. QED  BY <1>1, <1>3, <1>4, <1>5, <1>9, <1>10, ZenonT(40) DEF Outstanding

(* Every step keeps Outstanding. *)
LEMMA OutstandingStep ==
    ASSUME Limits, Outstanding, Instants, [Next]_vars
    PROVE  Outstanding'
<1>1. CASE PutOnWire
  BY <1>1, OutstandingPutOnWire, Zenon
<1>2. CASE Retransmit
  BY <1>2, OutstandingRetransmit, Zenon
<1>3. CASE \E tsn \in 1 .. MaxTsn : HandleSack(tsn)
  BY <1>3, OutstandingHandleSack
<1>4. CASE Wakes
  BY <1>4, OutstandingWakes, Zenon
<1>5. CASE Sleeps
  BY <1>5, OutstandingSleeps, Zenon
<1>6. CASE \/ ProcessHeartbeatAck \/ SendShutdown \/ PeerCompletes \/ NextTimeout
           \/ UNCHANGED vars
  <2>1. UNCHANGED <<srtt, resend_queue, tsn_counter>>
    BY <1>6, Zenon DEF ProcessHeartbeatAck, SendShutdown, PeerCompletes, NextTimeout, vars
  <2>. QED  BY <2>1, Zenon DEF Outstanding
<1>. QED  BY <1>1, <1>2, <1>3, <1>4, <1>5, <1>6, Zenon DEF Next

-----------------------------------------------------------------------------
(* Instants are numbers. *)
LEMMA HeartbeatTimeout ==
    ASSUME NEW h, HandleTimeout(h)
    PROVE  /\ \/ UNCHANGED heartbeat_timer
              \/ /\ h.marker = "heartbeat"
                 /\ \E d \in {ProbeSoon, ProbeLate} : heartbeat_timer' = {h.at + d}
           /\ \/ UNCHANGED shutdown_rto_timer
              \/ h.marker = "shutdown" /\ shutdown_rto_timer' = {h.at + rto_duration(srtt)}
<1>1. \/ UNCHANGED heartbeat_timer
      \/ h.marker = "heartbeat" /\ \E p : heartbeat_timer' = NextProbe(p, h.at)
  BY Zenon DEF HandleTimeout, HandleHeartbeatTimeout, IsCurrent
<1>2. \A p : \E d \in {ProbeSoon, ProbeLate} : NextProbe(p, h.at) = {h.at + d}
  BY Zenon DEF NextProbe
<1>3. \/ UNCHANGED shutdown_rto_timer
      \/ h.marker = "shutdown" /\ shutdown_rto_timer' = {h.at + rto_duration(srtt)}
  BY Zenon DEF HandleTimeout, HandleShutdownRtoTimeout, IsCurrent, SetRto
<1>. QED  BY <1>1, <1>2, <1>3, Zenon

(* No timer but that of the heartbeat is armed at first. *)
LEMMA InstantsStart ==
    ASSUME Limits, Init
    PROVE  Instants
BY DEF Limits, Init, Instants

(* The timer that the loop holds is void once its field has been set again. *)
LEMMA Voided ==
    ASSUME Instants, NEW marker, NEW h \in Void(marker)
    PROVE  \E l \in held : /\ h = [at |-> h.at, marker |-> h.marker] /\ h.at = l.at
                           /\ \/ h = l /\ l.marker # marker
                              \/ l.marker = marker /\ h.marker = "void"
<1>1. PICK l \in held : h = IF l.marker = marker THEN [l EXCEPT !.marker = "void"] ELSE l
  BY Zenon DEF Void
<1>2. l = [at |-> l.at, marker |-> l.marker]
  BY DEF Instants
<1>3. [l EXCEPT !.marker = "void"] = [at |-> l.at, marker |-> "void"]
  BY <1>2
<1>. QED  BY <1>1, <1>2, <1>3

(* What is armed is a timer. *)
LEMMA ArmedInstants ==
    ASSUME Instants, NEW t \in Armed
    PROVE  t.at \in Int /\ t = [at |-> t.at, marker |-> t.marker]
BY DEF Instants, Armed

(* The timer that the loop holds comes closer as time passes. *)
LEMMA HeldEarlier ==
    ASSUME Instants, Sleeps
    PROVE  held' = {[at |-> Earlier(l.at), marker |-> l.marker] : l \in held}
<1>1. held' = {[l EXCEPT !.at = Earlier(@)] : l \in held}
  BY Zenon DEF Sleeps
<1>2. \A l \in held : [l EXCEPT !.at = Earlier(@)] = [at |-> Earlier(l.at), marker |-> l.marker]
  BY DEF Instants
<1>. QED  BY <1>1, <1>2, Zenon

(* Every step keeps Instants. *)
LEMMA InstantsStep ==
    ASSUME Limits, Outstanding, Instants, [Next]_vars
    PROVE  Instants'
<1>. DEFINE d == rto_duration(srtt)
<1>0. d \in Int /\ \A a \in Int : a + d \in Int /\ a + ProbeSoon \in Int /\ a + ProbeLate \in Int
  BY Duration DEF Outstanding, Limits
<1>00. rto_duration(srtt') \in Int /\ \A a \in Int : a + rto_duration(srtt') \in Int
  BY OutstandingStep, Duration DEF Outstanding
<1>. HIDE DEF d
<1>1. CASE PutOnWire
  <2>1. rto_timer' \in {rto_timer, {0 + d}} /\ held' = {}
        /\ UNCHANGED <<heartbeat_timer, shutdown_rto_timer>>
    BY <1>1, Zenon DEF PutOnWire, SetRto, d
  <2>. QED  BY <1>0, <2>1 DEF Instants
<1>2. CASE Retransmit
  <2>1. rto_timer' \in {rto_timer, {0 + d}} /\ held' = {}
        /\ UNCHANGED <<heartbeat_timer, shutdown_rto_timer>>
    BY <1>2, Zenon DEF Retransmit, SetRto, d
  <2>. QED  BY <1>0, <2>1 DEF Instants
<1>3. CASE \E tsn \in 1 .. MaxTsn : HandleSack(tsn)
  <2>1. rto_timer' \in {{}, {0 + rto_duration(srtt')}} /\ held' = Void("rto")
        /\ UNCHANGED <<heartbeat_timer, shutdown_rto_timer>>
    BY <1>3, Zenon DEF HandleSack, SetRto
  <2>2. \A h \in held' : h.at \in Int /\ h = [at |-> h.at, marker |-> h.marker]
    BY <2>1, Voided, Zenon DEF Instants
  <2>. QED  BY <1>00, <2>1, <2>2 DEF Instants
<1>4. CASE ProcessHeartbeatAck
  <2>1. /\ \E p : heartbeat_timer' = NextProbe(p, 0)
        /\ held' = Void("heartbeat") /\ UNCHANGED <<rto_timer, shutdown_rto_timer>>
    BY <1>4, Zenon DEF ProcessHeartbeatAck
  <2>2. \A h \in held' : h.at \in Int /\ h = [at |-> h.at, marker |-> h.marker]
    BY <2>1, Voided, Zenon DEF Instants
  <2>3. heartbeat_timer' \subseteq Int
    BY <1>0, <2>1 DEF NextProbe
  <2>. QED  BY <2>1, <2>2, <2>3, Zenon DEF Instants
<1>5. CASE SendShutdown
  <2>1. shutdown_rto_timer' = {0 + d} /\ held' = {} /\ UNCHANGED <<rto_timer, heartbeat_timer>>
    BY <1>5, Zenon DEF SendShutdown, SetRto, d
  <2>. QED  BY <1>0, <2>1 DEF Instants
<1>6. CASE NextTimeout
  BY <1>6, ArmedInstants, Zenon DEF NextTimeout, next_timeout, Instants
<1>7. CASE Wakes
  <2>1. PICK h \in held : HandleTimeout(h) /\ held' = {}
    BY <1>7, Zenon DEF Wakes
  <2>2. h.at \in Int
    BY DEF Instants
  <2>3. rto_timer' \in {rto_timer, {}, {h.at + rto_duration(srtt')}}
    BY <2>1, RtoTimeout, Zenon DEF Backs
  <2>4. heartbeat_timer' \in {heartbeat_timer, {h.at + ProbeSoon}, {h.at + ProbeLate}}
        /\ shutdown_rto_timer' \in {shutdown_rto_timer, {h.at + d}}
    BY <2>1, HeartbeatTimeout, Zenon DEF d
  <2>. QED  BY <1>0, <1>00, <2>1, <2>2, <2>3, <2>4 DEF Instants
<1>8. CASE Sleeps
  <2>1. \A T : T \subseteq Int => EarlierTimer(T) \subseteq Int
    BY Past DEF EarlierTimer
  <2>2. \A h \in held' : \E l \in held : h = [at |-> Earlier(l.at), marker |-> l.marker]
    BY <1>8, HeldEarlier, Zenon
  <2>3. \A h \in held' : h.at \in Int /\ h = [at |-> h.at, marker |-> h.marker]
    BY <2>2, Past DEF Instants
  <2>. QED  BY <1>8, <2>1, <2>3, Zenon DEF Sleeps, Instants
<1>9. CASE PeerCompletes \/ UNCHANGED vars
  BY <1>9, Zenon DEF PeerCompletes, vars, Instants
<1>. QED  BY <1>1, <1>2, <1>3, <1>4, <1>5, <1>6, <1>7, <1>8, <1>9, Zenon DEF Next

(***************************************************************************)
(* A chunk that is measured is outstanding, for all values of the limits:  *)
(* some SACK will cover it and end the measurement (tsn_acked, srtt.rs).   *)
(***************************************************************************)
THEOREM TimersMeasureOutstanding == Spec => []MeasuresOutstanding
<1>1. Init => Outstanding /\ Instants
  BY LimitsHold, OutstandingStart, InstantsStart, Zenon
<1>2. Outstanding /\ Instants /\ [Next]_vars => Outstanding' /\ Instants'
  BY LimitsHold, OutstandingStep, InstantsStep, Zenon
<1>3. Outstanding => MeasuresOutstanding
  <2>. SUFFICES ASSUME Outstanding, NEW m \in srtt.measure_for_tsn
                PROVE  \E i \in DOMAIN resend_queue : resend_queue[i].tsn = m[1]
    BY DEF MeasuresOutstanding
  <2>. DEFINE n == Len(resend_queue)
              i == m[1] - tsn_counter + n + 1
  <2>1. m[1] \in Nat /\ tsn_counter - n <= m[1] /\ m[1] < tsn_counter /\ n \in Nat
        /\ tsn_counter \in Nat
    BY DEF Outstanding, Limited, Srtt
  <2>2. i \in 1 .. n /\ tsn_counter - n + i - 1 = m[1]
    BY <2>1
  <2>3. i \in DOMAIN resend_queue
    BY <2>2 DEF Outstanding
  <2>4. resend_queue[i].tsn = tsn_counter - n + i - 1
    BY <2>2 DEF Outstanding
  <2>. QED  BY <2>2, <2>3, <2>4, Zenon
<1>. QED  BY <1>1, <1>2, <1>3, PTL DEF Spec

-----------------------------------------------------------------------------
(* The timers. *)
LEMMA ArmedTimers ==
    /\ \A x : x \in Armed <=> \/ \E t \in rto_timer : x = [at |-> t, marker |-> "rto"]
                              \/ \E t \in heartbeat_timer : x = [at |-> t, marker |-> "heartbeat"]
                              \/ \E t \in shutdown_rto_timer : x = [at |-> t, marker |-> "shutdown"]
    /\ \A x : x \in Armed' <=> \/ \E t \in rto_timer' : x = [at |-> t, marker |-> "rto"]
                               \/ \E t \in heartbeat_timer' : x = [at |-> t, marker |-> "heartbeat"]
                               \/ \E t \in shutdown_rto_timer' : x = [at |-> t, marker |-> "shutdown"]
BY Zenon DEF Armed

(* What is armed after a step is in the field of its marker. *)
LEMMA WasArmed ==
    ASSUME NEW x \in Armed'
    PROVE  \/ x.marker = "rto" /\ x.at \in rto_timer' /\ (x.at \in rto_timer => x \in Armed)
           \/ /\ x.marker = "heartbeat" /\ x.at \in heartbeat_timer'
              /\ x.at \in heartbeat_timer => x \in Armed
           \/ /\ x.marker = "shutdown" /\ x.at \in shutdown_rto_timer'
              /\ x.at \in shutdown_rto_timer => x \in Armed
<1>1. CASE \E t \in rto_timer' : x = [at |-> t, marker |-> "rto"]
  <2>1. x.marker = "rto" /\ x.at \in rto_timer' /\ x = [at |-> x.at, marker |-> "rto"]
    BY <1>1
  <2>. QED  BY <2>1, ArmedTimers, Zenon
<1>2. CASE \E t \in heartbeat_timer' : x = [at |-> t, marker |-> "heartbeat"]
  <2>1. /\ x.marker = "heartbeat" /\ x.at \in heartbeat_timer'
        /\ x = [at |-> x.at, marker |-> "heartbeat"]
    BY <1>2
  <2>. QED  BY <2>1, ArmedTimers, Zenon
<1>3. CASE \E t \in shutdown_rto_timer' : x = [at |-> t, marker |-> "shutdown"]
  <2>1. /\ x.marker = "shutdown" /\ x.at \in shutdown_rto_timer'
        /\ x = [at |-> x.at, marker |-> "shutdown"]
    BY <1>3
  <2>. QED  BY <2>1, ArmedTimers, Zenon
<1>. QED  BY <1>1, <1>2, <1>3, ArmedTimers, Zenon

(* What is armed stays so unless the field of its marker is set again. *)
LEMMA StaysArmed ==
    ASSUME NEW x \in Armed
    PROVE  \/ /\ x.marker = "rto" /\ x.at \in rto_timer /\ (x.at \in rto_timer' => x \in Armed')
              /\ \A t \in rto_timer' : [at |-> t, marker |-> x.marker] \in Armed'
           \/ /\ x.marker = "heartbeat" /\ x.at \in heartbeat_timer
              /\ x.at \in heartbeat_timer' => x \in Armed'
              /\ \A t \in heartbeat_timer' : [at |-> t, marker |-> x.marker] \in Armed'
           \/ /\ x.marker = "shutdown" /\ x.at \in shutdown_rto_timer
              /\ x.at \in shutdown_rto_timer' => x \in Armed'
              /\ \A t \in shutdown_rto_timer' : [at |-> t, marker |-> x.marker] \in Armed'
<1>1. CASE \E t \in rto_timer : x = [at |-> t, marker |-> "rto"]
  <2>1. x.marker = "rto" /\ x.at \in rto_timer /\ x = [at |-> x.at, marker |-> "rto"]
    BY <1>1
  <2>. QED  BY <2>1, ArmedTimers, Zenon
<1>2. CASE \E t \in heartbeat_timer : x = [at |-> t, marker |-> "heartbeat"]
  <2>1. /\ x.marker = "heartbeat" /\ x.at \in heartbeat_timer
        /\ x = [at |-> x.at, marker |-> "heartbeat"]
    BY <1>2
  <2>. QED  BY <2>1, ArmedTimers, Zenon
<1>3. CASE \E t \in shutdown_rto_timer : x = [at |-> t, marker |-> "shutdown"]
  <2>1. /\ x.marker = "shutdown" /\ x.at \in shutdown_rto_timer
        /\ x = [at |-> x.at, marker |-> "shutdown"]
    BY <1>3
  <2>. QED  BY <2>1, ArmedTimers, Zenon
<1>. QED  BY <1>1, <1>2, <1>3, ArmedTimers, Zenon

(* A timer that is set anew, to a time that is not past. *)
LEMMA AwakeSets ==
    ASSUME Limits, Instants, Awake,
           heartbeat_timer' # {}, \A t \in heartbeat_timer' : t <= ProbeLate,
           \A t \in Armed' : \/ t \in Armed
                             \/ /\ t.at \in Int /\ 0 <= t.at + ProbeLate
                                /\ held' = {} \/ 0 <= t.at,
           \A h \in held' : /\ held' = {h}
                            /\ \E l \in held : h.at = l.at
                            /\ h.marker = "void" \/ h \in Armed'
    PROVE  Awake'
<1>1. \A t \in Armed' : 0 <= t.at + ProbeLate
  BY Zenon DEF Awake
<1>2. ASSUME NEW h \in held', NEW t \in Armed'
      PROVE  h.at <= ProbeLate /\ h.at <= t.at + ProbeLate
  <2>1. PICK l \in held : h.at = l.at
    BY Zenon
  <2>2. /\ l.at \in Int /\ l.at <= ProbeLate /\ \A u \in Armed : l.at <= u.at + ProbeLate
    BY Zenon DEF Awake, Instants
  <2>3. CASE t \in Armed
    BY <2>1, <2>2, <2>3, Zenon
  <2>4. CASE t.at \in Int /\ 0 <= t.at
    BY <2>1, <2>2, <2>4 DEF Limits
  <2>. QED  BY <2>3, <2>4, Zenon
<1>3. \A h \in held' : h.at <= ProbeLate
  BY Zenon DEF Awake
<1>. QED  BY <1>1, <1>2, <1>3, Zenon DEF Awake

(* The loop holds on to a timer while another one is set. *)
LEMMA AwakeVoids ==
    ASSUME Instants, Awake, NEW marker, held' = Void(marker),
           \A x \in Armed : x.marker # marker => x \in Armed'
    PROVE  \A h \in held' : /\ held' = {h}
                            /\ \E l \in held : h.at = l.at
                            /\ h.marker = "void" \/ h \in Armed'
<1>. TAKE h \in held'
<1>1. PICK l \in held : /\ h.at = l.at
                        /\ \/ h = l /\ l.marker # marker
                           \/ l.marker = marker /\ h.marker = "void"
  BY Voided, Zenon
<1>2. held = {l} /\ (l.marker = "void" \/ l \in Armed)
  BY Zenon DEF Awake
<1>3. held' = {h}
  BY <1>2, Zenon DEF Void
<1>. QED  BY <1>1, <1>2, <1>3, Zenon

(* The heartbeat timer is armed from the start. *)
LEMMA AwakeStart ==
    ASSUME Limits, Init
    PROVE  Awake
BY DEF Limits, Init, Awake, Armed

(* Sleeping on a timer overlooks no other one by more than ProbeLate. *)
LEMMA AwakeSleeps ==
    ASSUME Limits, Tick = 1, Instants, Awake, Sleeps
    PROVE  Awake'
<1>1. PICK l \in held : 0 < l.at
  BY Zenon DEF Sleeps
<1>2. /\ held = {l} /\ l.at \in Int /\ l.at <= ProbeLate
      /\ l.marker = "void" \/ l \in Armed
      /\ \A t \in Armed : l.at <= t.at + ProbeLate
      /\ l = [at |-> l.at, marker |-> l.marker]
  BY Zenon DEF Awake, Instants
<1>. DEFINE h == [at |-> Earlier(l.at), marker |-> l.marker]
<1>3. held' = {h}
  BY <1>2, HeldEarlier, Zenon
<1>4. h.at = l.at - 1
  BY <1>1, <1>2 DEF Earlier, Most, Limits
<1>5. /\ rto_timer' = {Earlier(t) : t \in rto_timer}
      /\ heartbeat_timer' = {Earlier(t) : t \in heartbeat_timer}
      /\ shutdown_rto_timer' = {Earlier(t) : t \in shutdown_rto_timer}
  BY Zenon DEF Sleeps, EarlierTimer
<1>6. \A x \in Armed' : \E t \in Armed : x.at = Earlier(t.at)
  <2>1. \A t, m : [at |-> t, marker |-> m].at = t
    OBVIOUS
  <2>2. /\ \A t \in rto_timer : \E x \in Armed : x.at = t
        /\ \A t \in heartbeat_timer : \E x \in Armed : x.at = t
        /\ \A t \in shutdown_rto_timer : \E x \in Armed : x.at = t
    BY <2>1, ArmedTimers, ZenonT(40)
  <2>3. \A x \in Armed' : x.at \in rto_timer' \cup heartbeat_timer' \cup shutdown_rto_timer'
    BY WasArmed, Zenon
  <2>4. \A x \in Armed' : \E t \in rto_timer \cup heartbeat_timer \cup shutdown_rto_timer :
                             x.at = Earlier(t)
    BY <1>5, <2>3, Zenon
  <2>5. \A t \in rto_timer \cup heartbeat_timer \cup shutdown_rto_timer : \E x \in Armed : x.at = t
    BY <2>2, Zenon
  <2>. QED  BY <2>4, <2>5
<1>7. \A t \in Armed : /\ t.at \in Int /\ Earlier(t.at) \in Int
                       /\ l.at - 1 <= Earlier(t.at) + ProbeLate
                       /\ 0 <= Earlier(t.at) + ProbeLate
  BY <1>1, <1>2, ArmedInstants, Past DEF Limits
<1>8. heartbeat_timer' # {} /\ \A t \in heartbeat_timer' : t <= ProbeLate
  <2>1. \A t \in heartbeat_timer : Earlier(t) <= ProbeLate
    BY DEF Instants, Awake, Earlier, Most, Limits
  <2>. QED  BY <1>5, <2>1, ZenonT(40) DEF Awake
<1>9. h.marker = "void" \/ h \in Armed'
  <2>1. CASE l.marker = "void"
    BY <2>1
  <2>2. CASE l \in Armed
    BY <1>5, <2>2, StaysArmed, Zenon
  <2>. QED  BY <1>2, <2>1, <2>2, Zenon
<1>10. h.at <= ProbeLate
  BY <1>2, <1>4 DEF Limits
<1>. HIDE DEF h
<1>11. \A x \in Armed' : 0 <= x.at + ProbeLate /\ h.at <= x.at + ProbeLate
  BY <1>4, <1>6, <1>7, Zenon
<1>. QED  BY <1>3, <1>8, <1>9, <1>10, <1>11, Zenon DEF Awake

(* What handle_timeout arms is not in the past. *)
LEMMA AwakeWakes ==
    ASSUME Limits, Outstanding, Instants, Awake, Wakes, rto_duration(srtt') \in Nat
    PROVE  Awake'
<1>1. PICK h \in held : HandleTimeout(h) /\ held' = {} /\ h.at <= 0
  BY Zenon DEF Wakes
<1>. DEFINE d == rto_duration(srtt)
            e == rto_duration(srtt')
<1>2. h.at \in Int /\ h.at <= 0 /\ d \in Nat /\ e \in Nat
  BY <1>1, Duration, Zenon DEF Instants, Outstanding
<1>. HIDE DEF d, e
<1>3. h.marker # "void" => 0 <= h.at + ProbeLate
  BY Zenon DEF Awake
<1>4. /\ \/ UNCHANGED heartbeat_timer
         \/ heartbeat_timer' \in {{h.at + ProbeSoon}, {h.at + ProbeLate}} /\ h.marker # "void"
      /\ UNCHANGED shutdown_rto_timer \/ (shutdown_rto_timer' = {h.at + d} /\ h.marker # "void")
  <2>1. "heartbeat" # "void" /\ "shutdown" # "void"
    OBVIOUS
  <2>. QED  BY <1>1, <2>1, HeartbeatTimeout, Zenon DEF d
<1>5. rto_timer' \in {rto_timer, {}} \/ (rto_timer' = {h.at + e} /\ h.marker # "void")
  <2>1. "rto" # "void"
    OBVIOUS
  <2>. QED  BY <1>1, <2>1, RtoTimeout, Zenon DEF Backs, e
<1>6. /\ h.at + ProbeSoon \in Int /\ h.at + ProbeSoon <= ProbeLate
      /\ h.at + ProbeLate \in Int /\ h.at + ProbeLate <= ProbeLate
      /\ h.at + d \in Int /\ h.at + e \in Int
  BY <1>2 DEF Limits
<1>7. h.marker # "void" => /\ 0 <= h.at + ProbeSoon + ProbeLate
                           /\ 0 <= h.at + ProbeLate + ProbeLate
                           /\ 0 <= h.at + d + ProbeLate
                           /\ 0 <= h.at + e + ProbeLate
  BY <1>2, <1>3 DEF Limits
<1>8. heartbeat_timer' # {} /\ \A t \in heartbeat_timer' : t <= ProbeLate
  BY <1>4, <1>6, Zenon DEF Awake
<1>9. \A t \in Armed' : \/ t \in Armed
                        \/ t.at \in Int /\ 0 <= t.at + ProbeLate
  BY <1>4, <1>5, <1>6, <1>7, WasArmed, Zenon
<1>. QED  BY <1>1, <1>8, <1>9, AwakeSets, Zenon

(* Every step keeps Awake. *)
LEMMA AwakeStep ==
    ASSUME Limits, Tick = 1, Outstanding, Instants, Awake, [Next]_vars
    PROVE  Awake'
<1>. DEFINE d == rto_duration(srtt)
            e == rto_duration(srtt')
<1>0. /\ d \in Nat /\ 0 + d = d /\ d \in Int /\ 0 <= d /\ 0 <= d + ProbeLate
      /\ e \in Nat /\ 0 + e = e /\ e \in Int /\ 0 <= e /\ 0 <= e + ProbeLate
  <2>1. Limited(srtt) /\ Limited(srtt')
    BY OutstandingStep, Zenon DEF Outstanding
  <2>2. d \in Nat /\ e \in Nat
    BY <2>1, Duration, Zenon
  <2>. HIDE DEF d, e
  <2>. QED  BY <2>2 DEF Limits
<1>. HIDE DEF d, e
<1>1. CASE PutOnWire \/ Retransmit
  <2>1. rto_timer' \in {rto_timer, {d}} /\ held' = {}
        /\ UNCHANGED <<heartbeat_timer, shutdown_rto_timer>>
    BY <1>0, <1>1, Zenon DEF PutOnWire, Retransmit, SetRto, d
  <2>2. \A t \in Armed' : t \in Armed \/ (t.at \in Int /\ 0 <= t.at + ProbeLate)
    BY <1>0, <2>1, WasArmed, Zenon
  <2>. QED  BY <2>1, <2>2, AwakeSets, Zenon DEF Awake
<1>2. CASE \E tsn \in 1 .. MaxTsn : HandleSack(tsn)
  <2>1. rto_timer' \in {{}, {e}} /\ held' = Void("rto")
        /\ UNCHANGED <<heartbeat_timer, shutdown_rto_timer>>
    BY <1>0, <1>2, Zenon DEF HandleSack, SetRto, e
  <2>2. \A t \in Armed' : t \in Armed \/ (t.at \in Int /\ 0 <= t.at /\ 0 <= t.at + ProbeLate)
    BY <1>0, <2>1, WasArmed, Zenon
  <2>3. \A x \in Armed : x.marker # "rto" => x \in Armed'
    BY <2>1, StaysArmed, Zenon
  <2>4. \A h \in held' : /\ held' = {h} /\ \E l \in held : h.at = l.at
                         /\ h.marker = "void" \/ h \in Armed'
    BY <2>1, <2>3, AwakeVoids, Zenon
  <2>. QED  BY <2>1, <2>2, <2>4, AwakeSets, Zenon DEF Awake
<1>3. CASE ProcessHeartbeatAck
  <2>1. /\ heartbeat_timer' \in {{0 + ProbeSoon}, {0 + ProbeLate}}
        /\ held' = Void("heartbeat") /\ UNCHANGED <<rto_timer, shutdown_rto_timer>>
    BY <1>3, Zenon DEF ProcessHeartbeatAck, NextProbe
  <2>2. \A p \in {0 + ProbeSoon, 0 + ProbeLate} :
          p \in Int /\ 0 <= p /\ 0 <= p + ProbeLate /\ p <= ProbeLate
    BY DEF Limits
  <2>3. \A t \in Armed' : t \in Armed \/ (t.at \in Int /\ 0 <= t.at /\ 0 <= t.at + ProbeLate)
    BY <2>1, <2>2, WasArmed, Zenon
  <2>4. \A x \in Armed : x.marker # "heartbeat" => x \in Armed'
    BY <2>1, StaysArmed, Zenon
  <2>5. \A h \in held' : /\ held' = {h} /\ \E l \in held : h.at = l.at
                         /\ h.marker = "void" \/ h \in Armed'
    BY <2>1, <2>4, AwakeVoids, Zenon
  <2>6. heartbeat_timer' # {} /\ \A t \in heartbeat_timer' : t <= ProbeLate
    BY <2>1, <2>2, Zenon
  <2>. QED  BY <2>3, <2>5, <2>6, AwakeSets, Zenon
<1>4. CASE SendShutdown
  <2>1. shutdown_rto_timer' = {d} /\ held' = {} /\ UNCHANGED <<rto_timer, heartbeat_timer>>
    BY <1>0, <1>4, Zenon DEF SendShutdown, SetRto, d
  <2>2. \A t \in Armed' : t \in Armed \/ (t.at \in Int /\ 0 <= t.at + ProbeLate)
    BY <1>0, <2>1, WasArmed, Zenon
  <2>. QED  BY <2>1, <2>2, AwakeSets, Zenon DEF Awake
<1>5. CASE NextTimeout
  <2>1. PICK h \in Armed : held' = {h} /\ \A u \in Armed : h.at <= u.at
    BY <1>5, Zenon DEF NextTimeout, next_timeout
  <2>2. PICK b \in heartbeat_timer : b <= ProbeLate
    BY Zenon DEF Awake
  <2>3. h.at <= b /\ b \in Int /\ h.at \in Int
    <3>1. [at |-> b, marker |-> "heartbeat"] \in Armed
      BY ArmedTimers, Zenon
    <3>2. h.at <= b
      BY <2>1, <3>1
    <3>. QED  BY <3>2, ArmedInstants, Zenon DEF Instants
  <2>4. h.at <= ProbeLate /\ \A u \in Armed : h.at <= u.at + ProbeLate
    BY <2>1, <2>2, <2>3, ArmedInstants DEF Limits
  <2>5. Armed' = Armed /\ UNCHANGED heartbeat_timer
    BY <1>5, Zenon DEF NextTimeout, Armed
  <2>. QED  BY <2>1, <2>4, <2>5, Zenon DEF Awake
<1>6. CASE Wakes
  BY <1>0, <1>6, AwakeWakes, Zenon DEF e
<1>7. CASE Sleeps
  BY <1>7, AwakeSleeps, Zenon
<1>8. CASE PeerCompletes \/ UNCHANGED vars
  <2>1. UNCHANGED <<rto_timer, heartbeat_timer, shutdown_rto_timer, held>>
    BY <1>8, Zenon DEF PeerCompletes, vars
  <2>. QED  BY <2>1, Zenon DEF Awake, Armed
<1>. QED  BY <1>1, <1>2, <1>3, <1>4, <1>5, <1>6, <1>7, <1>8, Zenon DEF Next

(***************************************************************************)
(* No timer is overlooked for longer than ProbeLate, for all values of the *)
(* limits, if the clock counts the nanoseconds, although the loop takes    *)
(* next_timeout before it sleeps and timers are set meanwhile.             *)
(***************************************************************************)
THEOREM TimersPunctual ==
    ASSUME Tick = 1
    PROVE  Spec => []Punctual
<1>1. Init => Outstanding /\ Instants /\ Awake
  BY LimitsHold, OutstandingStart, InstantsStart, AwakeStart, Zenon
<1>2. Outstanding /\ Instants /\ Awake /\ [Next]_vars => Outstanding' /\ Instants' /\ Awake'
  BY LimitsHold, OutstandingStep, InstantsStep, AwakeStep, Zenon
<1>3. Awake => Punctual
  BY Zenon DEF Awake, Punctual
<1>. QED  BY <1>1, <1>2, <1>3, PTL DEF Spec

-----------------------------------------------------------------------------
(* The retransmission timer and the oldest chunk. *)
LEMMA TimedStart ==
    ASSUME Init
    PROVE  Timed
BY DEF Init, Timed

(* The timeout and the bounds that are made of it. *)
LEMMA TimedLimits ==
    ASSUME Limits, Outstanding
    PROVE  /\ rto_duration(srtt) \in Nat /\ rto_duration(srtt) <= InitialRto
           /\ InitialRto \in Nat /\ MaxRto \in Nat /\ ProbeLate \in Nat /\ Horizon \in Nat
           /\ Longest \in Nat /\ rto_duration(srtt) <= Longest /\ 2 * MaxRto <= Longest
           /\ InitialRto <= Longest /\ Patience = Longest + ProbeLate /\ Patience \in Nat
<1>1. rto_duration(srtt) \in Nat /\ rto_duration(srtt) <= InitialRto
  BY Duration DEF Outstanding
<1>. QED  BY <1>1 DEF Limits, Longest, Patience, Most

(* The front of the resend queue is an entry. *)
LEMMA OldestEntry ==
    ASSUME Outstanding, resend_queue # <<>>
    PROVE  1 \in DOMAIN resend_queue /\ Oldest \in Entry
           /\ Oldest.queued_at \in Int /\ Oldest.marked_for_retransmit \in BOOLEAN
<1>1. resend_queue \in Seq(Entry)
  BY Zenon DEF Outstanding
<1>2. 1 \in DOMAIN resend_queue /\ resend_queue[1] \in Entry
  BY <1>1
<1>. QED  BY <1>2, Zenon DEF Oldest, Entry

(* The first outstanding chunk starts the timer. *)
LEMMA TimedPutOnWire ==
    ASSUME Limits, Outstanding, Timed, PutOnWire
    PROVE  Timed'
<1>. DEFINE d == rto_duration(srtt)
            n == [tsn |-> tsn_counter, queued_at |-> 0, marked_for_retransmit |-> FALSE]
<1>1. /\ ~ recovering /\ ~ recovering' /\ resend_queue' = Append(resend_queue, n)
      /\ srtt' = TsnSent(srtt, tsn_counter)
      /\ rto_timer' = IF rto_timer = {} THEN {0 + d} ELSE rto_timer
      /\ progress' = IF resend_queue = <<>> THEN 0 ELSE progress
  BY Zenon DEF PutOnWire, SetRto
<1>2. rto_duration(srtt') = d
  BY <1>1, Sent, Zenon DEF Outstanding
<1>3. n.queued_at = 0 /\ ~ n.marked_for_retransmit
  OBVIOUS
<1>. HIDE DEF n
<1>4. /\ resend_queue \in Seq(Entry) /\ resend_queue' # <<>>
      /\ resend_queue = <<>> => resend_queue'[1] = n
      /\ resend_queue # <<>> => resend_queue'[1] = resend_queue[1]
      /\ \A i \in DOMAIN resend_queue' : \/ i \in DOMAIN resend_queue /\ resend_queue'[i] = resend_queue[i]
                                         \/ resend_queue'[i] = n
  <2>1. resend_queue \in Seq(Entry) /\ n \in Entry
    BY DEF Outstanding, n, Entry
  <2>. QED  BY <1>1, <2>1
<1>5. /\ d \in Nat /\ d <= Longest /\ Longest \in Nat /\ Patience \in Nat
  BY TimedLimits, Zenon
<1>. HIDE DEF d
<1>6. \A i \in DOMAIN resend_queue' : resend_queue'[i].queued_at <= 0
  <2>1. 0 <= 0
    OBVIOUS
  <2>. QED  BY <1>3, <1>4, <2>1, Zenon DEF Timed
<1>7. ~ HasRetransmission /\ ~ HasRetransmission'
  BY <1>1, Zenon DEF HasRetransmission
<1>8. CASE resend_queue = <<>>
  <2>1. rto_timer' = {d} /\ progress' = 0 /\ Oldest' = n
    BY <1>1, <1>4, <1>5, <1>8 DEF Timed, Oldest
  <2>2. /\ 0 \in Int /\ 0 <= 0 /\ d <= d /\ 0 + d <= d /\ d <= 0 + Longest /\ 0 <= 0 + Patience
    BY <1>5
  <2>3. rto_timer' # {}
    BY <2>1
  <2>. QED  BY <1>2, <1>3, <1>4, <1>6, <2>1, <2>2, <2>3, Zenon DEF Timed, d
<1>9. CASE resend_queue # <<>>
  <2>1. /\ rto_timer # {} /\ rto_timer' = rto_timer /\ progress' = progress /\ Oldest' = Oldest
    BY <1>1, <1>4, <1>9, Zenon DEF Timed, Oldest
  <2>. QED  BY <1>1, <1>2, <1>4, <1>6, <1>7, <1>9, <2>1, Zenon DEF Timed, d
<1>. QED  BY <1>8, <1>9, Zenon

(* A retransmission is the progress of the oldest chunk; a timer that runs goes on. *)
LEMMA TimedRetransmit ==
    ASSUME Limits, Outstanding, Instants, Timed, Retransmit
    PROVE  Timed'
<1>. DEFINE d == rto_duration(srtt)
<1>1. /\ recovering /\ recovering' /\ resend_queue # <<>>
      /\ rto_timer' = rto_timer /\ progress' = 0 /\ srtt' = srtt
      /\ resend_queue' = [resend_queue EXCEPT ![1].marked_for_retransmit = FALSE]
  BY Zenon DEF Retransmit, HasRetransmission, Timed
<1>2. 1 \in DOMAIN resend_queue /\ Oldest \in Entry /\ Oldest.queued_at \in Int
  BY <1>1, OldestEntry, Zenon
<1>3. /\ DOMAIN resend_queue' = DOMAIN resend_queue
      /\ resend_queue'[1] = [Oldest EXCEPT !.marked_for_retransmit = FALSE]
      /\ \A i \in DOMAIN resend_queue : i # 1 => resend_queue'[i] = resend_queue[i]
  BY <1>1, <1>2, Zenon DEF Oldest
<1>4. resend_queue'[1].queued_at = Oldest.queued_at /\ ~ resend_queue'[1].marked_for_retransmit
  BY <1>2, <1>3 DEF Entry
<1>5. resend_queue' # <<>>
  BY <1>2, <1>3
<1>6. \A i \in DOMAIN resend_queue' : resend_queue'[i].queued_at <= 0
  BY <1>2, <1>3, <1>4, Zenon DEF Timed, Oldest
<1>7. \A t \in rto_timer : t <= 0 + Longest
  BY TimedLimits DEF Timed, Instants
<1>8. Oldest.queued_at <= 0 /\ 0 <= 0 + Patience /\ 0 \in Int /\ 0 <= 0
  BY <1>2, TimedLimits DEF Timed, Oldest
<1>. QED  BY <1>1, <1>4, <1>5, <1>6, <1>7, <1>8, Zenon DEF Timed, Oldest

(* A SACK that advances starts the timer anew, or stops it with nothing outstanding. *)
LEMMA TimedHandleSack ==
    ASSUME Limits, Outstanding, Outstanding', Timed, NEW tsn, HandleSack(tsn)
    PROVE  Timed'
<1>. DEFINE d == rto_duration(srtt')
<1>1. PICK k \in DOMAIN resend_queue :
        /\ resend_queue' = SubSeq(resend_queue, k + 1, Len(resend_queue)) /\ ~ recovering'
        /\ rto_timer' = (IF resend_queue' = <<>> THEN {} ELSE {0 + d}) /\ progress' = 0
  BY Zenon DEF HandleSack, SetRto
<1>2. \A i \in DOMAIN resend_queue' : /\ k + i \in DOMAIN resend_queue
                                      /\ resend_queue'[i] = resend_queue[k + i]
  <2>1. resend_queue \in Seq(Entry) /\ k \in 1 .. Len(resend_queue)
    BY DEF Outstanding
  <2>. QED  BY <1>1, <2>1
<1>3. \A i \in DOMAIN resend_queue' : resend_queue'[i].queued_at <= 0
  BY <1>2, Zenon DEF Timed
<1>4. resend_queue' # <<>> => 1 \in DOMAIN resend_queue' /\ resend_queue'[1].queued_at \in Int
  <2>1. resend_queue' \in Seq(Entry)
    BY Zenon DEF Outstanding
  <2>2. resend_queue' # <<>> => 1 \in DOMAIN resend_queue' /\ resend_queue'[1] \in Entry
    BY <2>1
  <2>. QED  BY <2>2, Zenon DEF Entry
<1>5. d \in Nat /\ d <= Longest /\ Longest \in Nat /\ Patience \in Nat
  <2>1. d <= InitialRto /\ d \in Nat
    BY Duration DEF Outstanding
  <2>. HIDE DEF d
  <2>. QED  BY <2>1, TimedLimits
<1>. HIDE DEF d
<1>6. /\ 0 \in Int /\ 0 <= 0 /\ d <= d /\ 0 + d = d /\ d <= 0 + Longest /\ 0 <= 0 + Patience
  BY <1>5
<1>7. resend_queue' # <<>> => resend_queue'[1].queued_at + d <= d
  BY <1>3, <1>4, <1>5
<1>8. \A t \in rto_timer' : t = d /\ resend_queue' # <<>>
  BY <1>1, <1>6, Zenon
<1>9. resend_queue' = <<>> <=> rto_timer' = {}
  BY <1>1
<1>. QED  BY <1>1, <1>3, <1>4, <1>6, <1>7, <1>8, <1>9, Zenon DEF Timed, Oldest, d

(* After a timeout that does not mark the oldest chunk, it is marked by the next one. *)
LEMMA TimedWakes ==
    ASSUME Limits, Outstanding, Outstanding', Instants, Awake, Timed, Wakes
    PROVE  Timed' /\ (~ recovering /\ recovering' => progress + rto_duration(srtt) <= 0)
<1>1. PICK h \in held : HandleTimeout(h) /\ h.at <= 0 /\ UNCHANGED progress
  BY Zenon DEF Wakes
<1>2. CASE UNCHANGED <<recovering, srtt, resend_queue, rto_timer>>
  <2>1. UNCHANGED HasRetransmission
    BY <1>2, Zenon DEF HasRetransmission
  <2>. QED  BY <1>1, <1>2, <2>1, Zenon DEF Timed, Oldest
<1>3. CASE resend_queue = <<>> /\ rto_timer' = {} /\ UNCHANGED <<recovering, srtt, resend_queue>>
  BY <1>1, <1>3, Zenon DEF Timed
<1>4. CASE h.marker = "rto" /\ resend_queue # <<>> /\ Backs(h.at)
  <2>. DEFINE t == h.at
              d == rto_duration(srtt)
              e == rto_duration(srtt')
              q == Oldest.queued_at
  <2>1. t \in rto_timer
    <3>1. h.marker # "void"
      BY <1>4
    <3>2. h \in Armed
      BY <3>1, Zenon DEF Awake
    <3>. QED  BY <1>4, <3>2, StaysArmed
  <2>2. /\ t \in Int /\ t <= 0 /\ q \in Int /\ progress \in Int
        /\ t <= d /\ q + d <= t /\ (~ recovering => progress + d <= t)
        /\ Oldest.marked_for_retransmit \in BOOLEAN /\ 1 \in DOMAIN resend_queue
        /\ ~ Oldest.marked_for_retransmit => q <= progress
    BY <1>1, <1>4, <2>1, OldestEntry, Zenon DEF Timed, Instants
  <2>3. /\ d \in Nat /\ d <= InitialRto /\ InitialRto \in Nat /\ MaxRto \in Nat
        /\ Longest \in Nat /\ 2 * MaxRto <= Longest /\ InitialRto <= Longest
    BY TimedLimits, Zenon
  <2>4. /\ e \in Nat /\ e <= InitialRto
        /\ srtt.uninited => d = InitialRto /\ e = InitialRto
        /\ ~ srtt.uninited => e <= MaxRto
    <3>1. srtt' = BackedOff(srtt) /\ Limited(srtt) /\ Limited(srtt')
      BY <1>4, Zenon DEF Backs, Outstanding
    <3>2. srtt'.uninited = srtt.uninited
      BY <3>1, Backed, Zenon
    <3>. QED  BY <3>1, <3>2, Duration, Zenon
  <2>5. /\ recovering' /\ rto_timer' = {t + e} /\ DOMAIN resend_queue' = DOMAIN resend_queue
        /\ \A i \in DOMAIN resend_queue : LET o == resend_queue[i]
             IN  IF ~ o.marked_for_retransmit /\ o.queued_at + e <= t
                 THEN resend_queue'[i] = [o EXCEPT !.marked_for_retransmit = TRUE, !.queued_at = t]
                 ELSE resend_queue'[i] = o
    BY <1>4, Zenon DEF Backs
  <2>. HIDE DEF t, d, e, q
  <2>6. \A i \in DOMAIN resend_queue : \/ resend_queue'[i] = resend_queue[i]
                                       \/ /\ resend_queue'[i].queued_at = t
                                          /\ resend_queue'[i].marked_for_retransmit
    <3>1. \A o \in Entry : LET p == [o EXCEPT !.marked_for_retransmit = TRUE, !.queued_at = t]
                           IN  p.queued_at = t /\ p.marked_for_retransmit
      BY DEF Entry
    <3>2. \A i \in DOMAIN resend_queue : resend_queue[i] \in Entry
      BY DEF Outstanding
    <3>. QED  BY <2>5, <3>1, <3>2, Zenon
  <2>7. \A i \in DOMAIN resend_queue' : resend_queue'[i].queued_at <= 0
    BY <2>2, <2>5, <2>6, Zenon DEF Timed
  <2>8. resend_queue' # <<>> /\ rto_timer' # {}
    <3>1. DOMAIN resend_queue' # {} /\ rto_timer' # {}
      BY <2>2, <2>5, Zenon
    <3>2. DOMAIN <<>> = {}
      OBVIOUS
    <3>. QED  BY <3>1, <3>2, Zenon
  <2>9. t + e <= e /\ q + e <= t + e /\ t + e \in Int /\ (q <= t)
    BY <2>2, <2>3, <2>4
  <2>10. Oldest'.queued_at + e <= t + e
    BY <2>2, <2>4, <2>6, <2>9 DEF Oldest, q
  <2>11. ASSUME ~ Oldest'.marked_for_retransmit
         PROVE  t + e <= progress + Longest /\ Oldest'.queued_at <= progress
    <3>1. Oldest' = Oldest /\ ~ Oldest.marked_for_retransmit
      BY <2>2, <2>6, <2>11, Zenon DEF Oldest
    <3>2. ~ (q + e <= t)
      <4>1. SUFFICES ASSUME q + e <= t PROVE FALSE
        OBVIOUS
      <4>2. Oldest' = [Oldest EXCEPT !.marked_for_retransmit = TRUE, !.queued_at = t]
        BY <2>2, <2>5, <3>1, <4>1, Zenon DEF Oldest, q
      <4>3. Oldest \in Entry
        BY <1>4, OldestEntry, Zenon
      <4>. QED  BY <2>11, <4>2, <4>3 DEF Entry
    <3>3. ~ srtt.uninited
      BY <2>2, <2>4, <3>2, Zenon
    <3>4. q <= progress /\ e <= MaxRto
      BY <2>2, <2>4, <3>1, <3>3, Zenon
    <3>5. t + e <= progress + Longest
      BY <2>2, <2>3, <2>4, <3>2, <3>4
    <3>. QED  BY <3>1, <3>4, <3>5, Zenon DEF q
  <2>12. ~ recovering => progress + d <= 0
    BY <2>2, <2>3
  <2>13. HasRetransmission' <=> Oldest'.marked_for_retransmit
    BY <2>5, <2>8, Zenon DEF HasRetransmission, Oldest
  <2>14. Timed'
    BY <1>1, <1>4, <2>5, <2>7, <2>8, <2>9, <2>10, <2>11, <2>13, Zenon DEF Timed, e
  <2>. QED  BY <2>12, <2>14, Zenon DEF d
<1>. QED  BY <1>1, <1>2, <1>3, <1>4, RtoTimeout, Zenon

(* While time passes, the timer comes nearer, and no Instant that matters is forgotten. *)
LEMMA TimedSleeps ==
    ASSUME Limits, Tick = 1, Patience <= Horizon, Outstanding, Instants, Awake, Awake', Timed, Sleeps
    PROVE  Timed'
<1>. DEFINE d == rto_duration(srtt)
            q == Oldest.queued_at
<1>1. /\ ~ HasRetransmission /\ UNCHANGED recovering
      /\ resend_queue' = [i \in DOMAIN resend_queue |->
                            [resend_queue[i] EXCEPT !.queued_at = Earlier(@)]]
      /\ rto_timer' = {Earlier(t) : t \in rto_timer} /\ progress' = Earlier(progress)
      /\ srtt' = [srtt EXCEPT !.measure_for_tsn = {<<m[1], Earlier(m[2])>> : m \in @}]
  BY Zenon DEF Sleeps, EarlierTimer
<1>2. rto_duration(srtt') = d
  BY <1>1 DEF rto_duration, Outstanding, Limited, Srtt
<1>3. /\ d \in Nat /\ d <= InitialRto /\ InitialRto \in Nat /\ ProbeLate \in Nat /\ Horizon \in Nat
      /\ Longest \in Nat /\ InitialRto <= Longest /\ Patience = Longest + ProbeLate
      /\ Longest + ProbeLate <= Horizon
  BY TimedLimits, Zenon
<1>4. \A e \in Entry : LET o == [e EXCEPT !.queued_at = Earlier(@)]
                       IN  /\ o.queued_at = Earlier(e.queued_at) /\ e.queued_at \in Int
                           /\ o.marked_for_retransmit = e.marked_for_retransmit
  BY DEF Entry
<1>5. /\ DOMAIN resend_queue' = DOMAIN resend_queue
      /\ \A i \in DOMAIN resend_queue :
           /\ resend_queue'[i].queued_at = Earlier(resend_queue[i].queued_at)
           /\ resend_queue'[i].marked_for_retransmit = resend_queue[i].marked_for_retransmit
           /\ resend_queue[i].queued_at \in Int
  <2>1. \A i \in DOMAIN resend_queue : resend_queue[i] \in Entry
    BY DEF Outstanding
  <2>. QED  BY <1>1, <1>4, <2>1, Zenon
<1>. HIDE DEF d, q
<1>6. \A a \in Int : a <= 0 => Earlier(a) <= 0
  BY <1>3 DEF Earlier, Most
<1>7. progress \in Int /\ progress' \in Int /\ progress' <= 0
  BY <1>1, <1>6, Past DEF Timed
<1>8. \A i \in DOMAIN resend_queue' : resend_queue'[i].queued_at <= 0
  BY <1>5, <1>6, Zenon DEF Timed
<1>9. resend_queue' = <<>> <=> resend_queue = <<>>
  BY <1>1
<1>10. rto_timer' = {} <=> rto_timer = {}
  BY <1>1, Zenon
<1>11. ASSUME resend_queue # <<>>
       PROVE  /\ 1 \in DOMAIN resend_queue /\ q \in Int /\ Oldest'.queued_at = Earlier(q)
              /\ Oldest'.marked_for_retransmit = Oldest.marked_for_retransmit
  BY <1>5, <1>11, OldestEntry, Zenon DEF Oldest, q
<1>12. ASSUME NEW s \in rto_timer'
       PROVE  /\ s <= d /\ Oldest'.queued_at + d <= s /\ s <= progress' + Longest
              /\ ~ recovering' => progress' + d <= s
              /\ 0 <= progress' + Patience
  <2>1. PICK t \in rto_timer : s = Earlier(t)
    BY <1>1, Zenon
  <2>2. /\ t \in Int /\ t <= d /\ q + d <= t /\ t <= progress + Longest
        /\ ~ recovering => progress + d <= t
    BY <1>1, Zenon DEF Timed, Instants, d, q
  <2>3. resend_queue # <<>>
    BY <2>1, Zenon DEF Timed
  <2>4. 0 <= s + ProbeLate
    <3>1. [at |-> s, marker |-> "rto"] \in Armed'
      BY <1>12, ArmedTimers, Zenon
    <3>. QED  BY <3>1 DEF Awake
  <2>5. /\ s \in Int /\ s = t - 1
    <3>1. PICK l \in held : 0 < l.at /\ l.at \in Int
      BY Zenon DEF Sleeps, Instants
    <3>2. [at |-> t, marker |-> "rto"] \in Armed
      BY <2>1, ArmedTimers, Zenon
    <3>3. l.at <= t + ProbeLate
      BY <3>1, <3>2 DEF Awake
    <3>4. 0 - Horizon <= t - 1
      BY <1>3, <2>2, <3>1, <3>3
    <3>. QED  BY <1>3, <2>1, <2>2, <3>4 DEF Earlier, Most
  <2>6. \A a \in Int : a + d <= t => Earlier(a) + d <= s
    BY <1>3, <2>2, <2>4, <2>5 DEF Earlier, Most
  <2>7. Oldest'.queued_at + d <= s
    BY <1>11, <2>2, <2>3, <2>6, Zenon
  <2>8. ~ recovering' => progress' + d <= s
    BY <1>1, <1>7, <2>2, <2>6, Zenon
  <2>9. s <= d /\ s <= progress' + Longest
    <3>1. progress - 1 <= progress'
      BY <1>1, <1>7, Past
    <3>2. \A a, b, l \in Int : t <= a + l /\ a - 1 <= b => t - 1 <= b + l
      BY <2>2
    <3>3. s <= d
      BY <1>3, <2>2, <2>5
    <3>4. Longest \in Int
      BY <1>3
    <3>. QED  BY <1>7, <2>2, <2>5, <3>1, <3>2, <3>3, <3>4, Zenon
  <2>10. 0 <= progress' + Patience
    <3>1. \A b, l, p \in Int : 0 <= s + p /\ s <= b + l => 0 <= b + (l + p)
      BY <2>5
    <3>2. Longest \in Int /\ ProbeLate \in Int
      BY <1>3
    <3>. QED  BY <1>3, <1>7, <2>4, <2>9, <3>1, <3>2, Zenon
  <2>. QED  BY <2>7, <2>8, <2>9, <2>10, Zenon
<1>13. ASSUME resend_queue # <<>>, ~ Oldest'.marked_for_retransmit
       PROVE  Oldest'.queued_at <= progress'
  <2>1. /\ ~ Oldest.marked_for_retransmit /\ q \in Int /\ Oldest'.queued_at = Earlier(q)
    BY <1>11, <1>13, Zenon
  <2>2. q <= progress
    BY <1>13, <2>1, Zenon DEF Timed, q
  <2>. QED  BY <1>1, <1>3, <1>7, <2>1, <2>2 DEF Earlier, Most
<1>14. resend_queue # <<>> => 0 <= progress' + Patience
  BY <1>10, <1>12, Zenon DEF Timed
<1>15. resend_queue' = <<>> <=> rto_timer' = {}
  BY <1>9, <1>10, Zenon DEF Timed
<1>. QED  BY <1>2, <1>7, <1>8, <1>9, <1>12, <1>13, <1>14, <1>15, Zenon DEF Timed, d

(* Every step keeps Timed, and loss recovery begins only after a timeout without progress. *)
LEMMA TimedStep ==
    ASSUME Limits, Tick = 1, Patience <= Horizon, Outstanding, Instants, Awake, Timed, [Next]_vars
    PROVE  Timed' /\ (~ recovering /\ recovering' => progress + rto_duration(srtt) <= 0)
<1>0. Outstanding' /\ Awake'
  BY OutstandingStep, AwakeStep, Zenon
<1>1. CASE PutOnWire
  BY <1>1, TimedPutOnWire, Zenon DEF PutOnWire
<1>2. CASE Retransmit
  BY <1>2, TimedRetransmit, Zenon DEF Retransmit
<1>3. CASE \E tsn \in 1 .. MaxTsn : HandleSack(tsn)
  BY <1>0, <1>3, TimedHandleSack, Zenon DEF HandleSack
<1>4. CASE Wakes
  BY <1>0, <1>4, TimedWakes, Zenon
<1>5. CASE Sleeps
  <2>1. UNCHANGED recovering
    BY <1>5, Zenon DEF Sleeps
  <2>. QED  BY <1>0, <1>5, <2>1, TimedSleeps, Zenon
<1>6. CASE \/ ProcessHeartbeatAck \/ SendShutdown \/ PeerCompletes \/ NextTimeout
           \/ UNCHANGED vars
  <2>1. UNCHANGED <<srtt, resend_queue, recovering, rto_timer, progress>>
    BY <1>6, Zenon DEF ProcessHeartbeatAck, SendShutdown, PeerCompletes, NextTimeout, vars
  <2>2. UNCHANGED HasRetransmission
    BY <2>1, Zenon DEF HasRetransmission
  <2>. QED  BY <2>1, <2>2, Zenon DEF Timed, Oldest
<1>. QED  BY <1>1, <1>2, <1>3, <1>4, <1>5, <1>6, Zenon DEF Next

(* What holds together if the clock counts nanoseconds, and looks back far enough. *)
Clocked == Outstanding /\ Instants /\ Awake /\ Timed

(* All of it holds at first. *)
LEMMA ClockedStart ==
    ASSUME Limits, Init
    PROVE  Clocked
BY OutstandingStart, InstantsStart, AwakeStart, TimedStart, Zenon DEF Clocked

(* Every step keeps all of it. *)
LEMMA ClockedStep ==
    ASSUME Limits, Tick = 1, Patience <= Horizon, Clocked, [Next]_vars
    PROVE  Clocked'
BY OutstandingStep, InstantsStep, AwakeStep, TimedStep, Zenon DEF Clocked

(***************************************************************************)
(* The oldest chunk is sent again, or acknowledged, within Patience, for   *)
(* all values of the limits and any number of chunks, although             *)
(* handle_rto_timeout passes over chunks that are not old enough.          *)
(***************************************************************************)
THEOREM TimersRetransmitInTime ==
    ASSUME Tick = 1, Patience <= Horizon
    PROVE  Spec => []RetransmittedInTime
<1>1. Init => Clocked
  BY LimitsHold, ClockedStart, Zenon
<1>2. Clocked /\ [Next]_vars => Clocked'
  BY LimitsHold, ClockedStep, Zenon
<1>3. Clocked => RetransmittedInTime
  BY Zenon DEF Clocked, Timed, RetransmittedInTime
<1>. QED  BY <1>1, <1>2, <1>3, PTL DEF Spec

(***************************************************************************)
(* The window collapses only when the peer has been silent for a whole     *)
(* timeout: handle_timeout ignores a timer that a SACK has replaced.       *)
(***************************************************************************)
THEOREM TimersNotSpurious ==
    ASSUME Tick = 1, Patience <= Horizon
    PROVE  Spec => NoSpuriousTimeout
<1>1. Init => Clocked
  BY LimitsHold, ClockedStart, Zenon
<1>2. Clocked /\ [Next]_vars => Clocked'
  BY LimitsHold, ClockedStep, Zenon
<1>3. Clocked /\ [Next]_vars =>
        [~ recovering /\ recovering' => progress + rto_duration(srtt) <= 0]_vars
  BY LimitsHold, TimedStep, Zenon DEF Clocked
<1>. QED  BY <1>1, <1>2, <1>3, PTL DEF Spec, NoSpuriousTimeout
=============================================================================
