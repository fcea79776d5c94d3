------------------------------- MODULE Timers -------------------------------
(***************************************************************************)
(* Time in the sending half: the round-trip estimate (srtt.rs), the three  *)
(* timers (timeouts.rs) and the loop of the examples that drives them.     *)
(* AssociationTx lets a timer expire whenever it is armed; here a clock    *)
(* decides.                                                                *)
(*                                                                         *)
(* Durations are whole numbers of nanoseconds.  An Instant is kept as its  *)
(* distance from the present, which is 0: when time passes, by Tick, every *)
(* Instant moves back, but not further than Horizon.  Chunks are reduced   *)
(* to what the timers see of them, congestion control to whether it is in  *)
(* loss recovery, TSNs do not wrap.  A timer and an Option are sets with   *)
(* at most one element.  A marker is only ever compared with that of the   *)
(* timer in one of the three fields: the timer that the loop holds has the *)
(* name of its field for a marker, until that field is set again.          *)
(*                                                                         *)
(* A definition whose name ends in an underscore and a word is the one     *)
(* below it with a mistake planted; the specification uses none of them.   *)
(***************************************************************************)
EXTENDS Integers, Sequences

CONSTANTS Tick,                  \* how far the clock advances
          MinRto, MaxRto,        \* the limits of the timeout
          InitialRto,            \* the timeout before the first measurement
          ProbeSoon, ProbeLate,  \* the time to the next heartbeat
          U64,                   \* 2^64
          MaxTsn,                \* bound: chunks that are sent
          Horizon                \* bound: how far back the past is told apart

ASSUME TimersAssumption ==
    /\ {Tick, MinRto, MaxRto, InitialRto, ProbeSoon, ProbeLate, U64, MaxTsn, Horizon}
          \subseteq Nat \ {0}
    /\ MinRto <= MaxRto /\ MaxRto <= InitialRto /\ ProbeSoon <= ProbeLate

VARIABLES srtt,                  \* Srtt
          resend_queue,          \* entries of the resend queue
          tsn_counter,
          recovering,            \* congestion control is in LossRecovery
          rto_timer, heartbeat_timer, shutdown_rto_timer,  \* when they are due
          pmtu_probe,            \* last_success and probe_in_flight
          shutdown_state,
          held,                  \* the timer that the loop sleeps on
          progress               \* history: when the oldest chunk became that or was repeated

vars == <<srtt, resend_queue, tsn_counter, recovering, rto_timer, heartbeat_timer,
          shutdown_rto_timer, pmtu_probe, shutdown_state, held, progress>>

-----------------------------------------------------------------------------
(* srtt.rs.  The division of an i64 truncates, a cast to u64 wraps around. *)
Least(a, b) == IF a <= b THEN a ELSE b
Most(a, b) == IF a >= b THEN a ELSE b
Quotient(a, b) == IF a >= 0 THEN a \div b ELSE 0 - ((0 - a) \div b)
AsU64(a) == IF a >= 0 THEN a ELSE a + U64

NewSrtt == [uninited |-> TRUE, measure_for_tsn |-> {}, srtt |-> 0, rttvar |-> 0, rto |-> 0]

TsnSent(s, tsn) ==
    IF s.measure_for_tsn = {} THEN [s EXCEPT !.measure_for_tsn = {<<tsn, 0>>}] ELSE s

WithRto(s) == [s EXCEPT !.rto = Least(Most(AsU64(s.srtt + 4 * s.rttvar), MinRto), MaxRto)]
Measured(s, measurement) ==
    WithRto(IF s.uninited
            THEN [s EXCEPT !.uninited = FALSE, !.srtt = measurement, !.rttvar = measurement \div 2]
            ELSE [s EXCEPT !.rttvar = Quotient(3 * @, 4) + Quotient(s.srtt - measurement, 4),
                           !.srtt = (7 * @) \div 8 + measurement \div 8])

IsMeasuredBy_Strictly(m, tsn) == m[1] < tsn
IsMeasuredBy(m, tsn) == m[1] <= tsn
TsnAcked(s, tsn) ==
    IF \E m \in s.measure_for_tsn : IsMeasuredBy(m, tsn)
    THEN LET m == CHOOSE m \in s.measure_for_tsn : TRUE
         IN Measured([s EXCEPT !.measure_for_tsn = {}], 0 - m[2])
    ELSE s

rto_duration(s) == IF s.uninited THEN InitialRto ELSE s.rto
BackedOff_Unlimited(s) == [s EXCEPT !.rto = 2 * @]
BackedOff(s) == [s EXCEPT !.rto = Least(2 * @, MaxRto)]

-----------------------------------------------------------------------------
(* timeouts.rs and next_timeout *)
Armed ==
    {[at |-> t, marker |-> "rto"] : t \in rto_timer}
    \cup {[at |-> t, marker |-> "heartbeat"] : t \in heartbeat_timer}
    \cup {[at |-> t, marker |-> "shutdown"] : t \in shutdown_rto_timer}
Void(marker) == {IF t.marker = marker THEN [t EXCEPT !.marker = "void"] ELSE t : t \in held}

SetRto(s, from) == {from + rto_duration(s)}
NextProbe(probe, from) == {from + IF probe.last_success THEN ProbeSoon ELSE ProbeLate}

next_timeout_Last(timers) == {t \in timers : \A u \in timers : u.at <= t.at}
next_timeout(timers) == {t \in timers : \A u \in timers : t.at <= u.at}

Init ==
    /\ srtt = NewSrtt
    /\ resend_queue = <<>>
    /\ tsn_counter = 1
    /\ recovering = FALSE
    /\ rto_timer = {} /\ shutdown_rto_timer = {}
    /\ heartbeat_timer = {ProbeSoon}
    /\ pmtu_probe = [last_success |-> TRUE, probe_in_flight |-> FALSE]
    /\ shutdown_state = "None"
    /\ held = {}
    /\ progress = 0

(* The branches of poll_data_to_send.  The loop starts over when it has sent something. *)
PutOnWire ==
    /\ ~ recovering /\ shutdown_state = "None" /\ tsn_counter <= MaxTsn
    /\ resend_queue' = Append(resend_queue, [tsn |-> tsn_counter, queued_at |-> 0,
                                             marked_for_retransmit |-> FALSE])
    /\ tsn_counter' = tsn_counter + 1
    /\ srtt' = TsnSent(srtt, tsn_counter)
    /\ rto_timer' = IF rto_timer = {} THEN SetRto(srtt, 0) ELSE rto_timer
    /\ progress' = IF resend_queue = <<>> THEN 0 ELSE progress
    /\ held' = {}
    /\ UNCHANGED <<recovering, heartbeat_timer, shutdown_rto_timer, pmtu_probe, shutdown_state>>

HasRetransmission == recovering /\ resend_queue # <<>> /\ resend_queue[1].marked_for_retransmit
Retransmit ==
    /\ HasRetransmission
    /\ resend_queue' = [resend_queue EXCEPT ![1].marked_for_retransmit = FALSE]
    /\ rto_timer' = IF rto_timer = {} THEN SetRto(srtt, 0) ELSE rto_timer
    /\ held' = {} /\ progress' = 0
    /\ UNCHANGED <<srtt, tsn_counter, recovering, heartbeat_timer, shutdown_rto_timer,
                   pmtu_probe, shutdown_state>>

(* handle_sack for a SACK that advances the cumulative TSN; the others set no timer. *)
HandleSack(cum_tsn) == \E k \in DOMAIN resend_queue :
    LET left == SubSeq(resend_queue, k + 1, Len(resend_queue))
        measured == TsnAcked(srtt, cum_tsn)
    IN /\ resend_queue[k].tsn = cum_tsn
       /\ resend_queue' = left
       /\ recovering' = FALSE
       /\ srtt' = measured
       /\ rto_timer' = IF left = <<>> THEN {} ELSE SetRto(measured, 0)
       /\ held' = Void("rto") /\ progress' = 0
       /\ UNCHANGED <<tsn_counter, heartbeat_timer, shutdown_rto_timer, pmtu_probe, shutdown_state>>

ProcessHeartbeatAck ==
    LET probe == [last_success |-> TRUE, probe_in_flight |-> FALSE]
    IN /\ pmtu_probe.probe_in_flight
       /\ pmtu_probe' = probe
       /\ heartbeat_timer' = NextProbe(probe, 0)
       /\ held' = Void("heartbeat")
       /\ UNCHANGED <<srtt, resend_queue, tsn_counter, recovering, rto_timer,
                      shutdown_rto_timer, shutdown_state, progress>>

(* The SHUTDOWN or SHUTDOWN ACK of poll_signal_to_send, and the peer's answer to it. *)
Repeated == {"ShutdownSent", "ShutdownAckSent"}
SendShutdown ==
    /\ shutdown_state = "None" /\ resend_queue = <<>>
    /\ shutdown_state' \in Repeated
    /\ shutdown_rto_timer' = SetRto(srtt, 0)
    /\ held' = {}
    /\ UNCHANGED <<srtt, resend_queue, tsn_counter, recovering, rto_timer, heartbeat_timer,
                   pmtu_probe, progress>>

PeerCompletes ==
    /\ shutdown_state \in Repeated
    /\ shutdown_state' = "Complete"
    /\ UNCHANGED <<srtt, resend_queue, tsn_counter, recovering, rto_timer, heartbeat_timer,
                   shutdown_rto_timer, pmtu_probe, held, progress>>

-----------------------------------------------------------------------------
(* handle_timeout, for the timer that the loop has slept on. *)
HandleRtoTimeout(timeout) ==
    LET backed == BackedOff(srtt)
        late(e) == ~ e.marked_for_retransmit /\ e.queued_at + rto_duration(backed) <= timeout.at
    IN IF resend_queue = <<>>
       THEN rto_timer' = {} /\ UNCHANGED <<recovering, srtt, resend_queue>>
       ELSE /\ recovering' = TRUE
            /\ srtt' = backed
            /\ resend_queue' = [i \in DOMAIN resend_queue |->
                 IF late(resend_queue[i])
                 THEN [resend_queue[i] EXCEPT !.marked_for_retransmit = TRUE, !.queued_at = timeout.at]
                 ELSE resend_queue[i]]
            /\ rto_timer' = SetRto(backed, timeout.at)

HandleShutdownRtoTimeout(timeout) ==
    shutdown_rto_timer' = IF shutdown_state \in Repeated THEN SetRto(srtt, timeout.at)
                          ELSE shutdown_rto_timer

HandleHeartbeatTimeout(timeout) ==
    LET probe == IF pmtu_probe.probe_in_flight
                 THEN [last_success |-> FALSE, probe_in_flight |-> FALSE]
                 ELSE [pmtu_probe EXCEPT !.probe_in_flight = TRUE]
    IN pmtu_probe' = probe /\ heartbeat_timer' = NextProbe(probe, timeout.at)

IsCurrent_AnyOfField(timeout, marker) ==
    timeout.marker = marker \/ (timeout.marker = "void" /\ marker = "rto" /\ rto_timer # {})
IsCurrent(timeout, marker) == timeout.marker = marker

HandleTimeout(timeout) ==
    /\ IF IsCurrent(timeout, "rto") THEN HandleRtoTimeout(timeout)
       ELSE UNCHANGED <<recovering, srtt, resend_queue, rto_timer>>
    /\ IF IsCurrent(timeout, "shutdown") THEN HandleShutdownRtoTimeout(timeout)
       ELSE UNCHANGED shutdown_rto_timer
    /\ IF IsCurrent(timeout, "heartbeat") THEN HandleHeartbeatTimeout(timeout)
       ELSE UNCHANGED <<pmtu_probe, heartbeat_timer>>

(* The loop: take the next timer, then sleep until it is due or something can be sent. *)
NextTimeout ==
    /\ held = {} /\ shutdown_state # "Complete"
    /\ \E t \in next_timeout(Armed) : held' = {t}
    /\ UNCHANGED <<srtt, resend_queue, tsn_counter, recovering, rto_timer, heartbeat_timer,
                   shutdown_rto_timer, pmtu_probe, shutdown_state, progress>>

Wakes ==
    /\ shutdown_state # "Complete"
    /\ \E timeout \in held : timeout.at <= 0 /\ HandleTimeout(timeout)
    /\ held' = {}
    /\ UNCHANGED <<tsn_counter, shutdown_state, progress>>

(* Time passes while the loop sleeps, and what can be retransmitted is. *)
Earlier(instant) == Most(instant - Tick, 0 - Horizon)
EarlierTimer(timer) == {Earlier(t) : t \in timer}
Sleeps ==
    /\ shutdown_state # "Complete" /\ ~ HasRetransmission
    /\ \E timeout \in held : 0 < timeout.at
    /\ srtt' = [srtt EXCEPT !.measure_for_tsn = {<<m[1], Earlier(m[2])>> : m \in @}]
    /\ resend_queue' = [i \in DOMAIN resend_queue |->
                          [resend_queue[i] EXCEPT !.queued_at = Earlier(@)]]
    /\ rto_timer' = EarlierTimer(rto_timer)
    /\ heartbeat_timer' = EarlierTimer(heartbeat_timer)
    /\ shutdown_rto_timer' = EarlierTimer(shutdown_rto_timer)
    /\ held' = {[t EXCEPT !.at = Earlier(@)] : t \in held}
    /\ progress' = Earlier(progress)
    /\ UNCHANGED <<tsn_counter, recovering, pmtu_probe, shutdown_state>>

Next ==
    \/ PutOnWire \/ Retransmit
    \/ \E tsn \in 1 .. MaxTsn : HandleSack(tsn)
    \/ ProcessHeartbeatAck \/ SendShutdown \/ PeerCompletes
    \/ NextTimeout \/ Wakes \/ Sleeps

Spec == Init /\ [][Next]_vars

-----------------------------------------------------------------------------
(***************************************************************************)
(* The estimate never stops: what is being measured is a chunk that still  *)
(* waits for its acknowledgement, whatever the SACKs skip, so that some    *)
(* SACK ends the measurement and the next chunk is measured.  tsn_acked.   *)
(***************************************************************************)
MeasuresOutstanding ==
    \A m \in srtt.measure_for_tsn : \E i \in DOMAIN resend_queue : resend_queue[i].tsn = m[1]

(***************************************************************************)
(* No timer is overlooked for longer than a heartbeat takes to come round, *)
(* although the loop sleeps on the timer it took while a SACK or the       *)
(* answer to a heartbeat sets an earlier one.  next_timeout.               *)
(***************************************************************************)
Punctual == shutdown_state # "Complete" => \A t \in Armed : 0 <= t.at + ProbeLate

(***************************************************************************)
(* The window collapses only after the peer has been silent for a whole    *)
(* timeout: a SACK that arrives while the loop sleeps on the old timer     *)
(* makes that timer void.  handle_timeout compares the markers ("give it   *)
(* an old timeout, this should be ignored", test rto_timeout).             *)
(***************************************************************************)
NoSpuriousTimeout ==
    [][~ recovering /\ recovering' => progress + rto_duration(srtt) <= 0]_vars

(***************************************************************************)
(* The oldest chunk is repeated in time: neither the doubling of the       *)
(* timeout, nor the age it is compared with, nor timers that are restarted *)
(* and overlooked keep handle_rto_timeout from it longer than this.        *)
(***************************************************************************)
Patience == Most(InitialRto, 2 * MaxRto) + ProbeLate
RetransmittedInTime ==
    resend_queue # <<>> /\ shutdown_state # "Complete" =>
        0 <= progress + Patience

(***************************************************************************)
(* "time it out", "now we should get a retransmission" (test rto_timeout): *)
(* after handle_rto_timeout the oldest chunk is marked to be repeated.     *)
(***************************************************************************)
TimeoutRetransmits ==
    [][\A timeout \in held : Wakes /\ resend_queue # <<>> /\ IsCurrent(timeout, "rto") =>
          resend_queue'[1].marked_for_retransmit]_vars
=============================================================================
