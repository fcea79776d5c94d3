---------------------------- MODULE AssociationTx ----------------------------
(***************************************************************************)
(* The sending half of an association: struct AssociationTx of tx.rs with  *)
(* tx/ack.rs and tx/timeouts.rs.  One action per public operation; an      *)
(* operation that returns an error or None changes nothing and is the      *)
(* stuttering step.                                                        *)
(*                                                                         *)
(* Time is abstracted: a timer is armed or not, an armed timer may expire  *)
(* at any moment, and which of the outstanding chunks have been out for    *)
(* longer than the retransmission timeout is the environment's choice.     *)
(*                                                                         *)
(* A definition whose name ends in an underscore and a word is the one     *)
(* below it with a mistake planted; the specification uses none of them.   *)
(***************************************************************************)
EXTENDS SerialNumber, Chunks, Congestion, PmtuProbe, Sequences

CONSTANTS InitTsn,         \* settings.init_tsn
          OutStreams,      \* settings.out_streams
          OutBufferLimit,  \* settings.out_buffer_limit
          PeerArwnd,       \* settings.peer_arwnd
          CongestionMtu,   \* 1500, the argument of PerDestinationInfo::new
          DataHeader,      \* 16, the header of a DATA chunk
          SeqMod           \* 2^16, how many stream sequence numbers there are

(* What the callers and the peer may do. *)
CONSTANTS Lens,            \* sizes of the messages the application sends
          Orderings,       \* its unordered arguments
          DataLimits,      \* the data_limit arguments of poll_data_to_send
          Packed,          \* its already_packed arguments
          ARwnds,          \* windows the peer advertises
          GapBlocks,       \* sets of gap blocks the peer reports
          Notifications    \* shutdown signals that occur

(* Bounds on what would grow without end. *)
CONSTANTS MaxBytes,        \* bytes accepted from the application
          MaxDupAcks,      \* where the count of duplicated acks saturates
          MaxSendNext,     \* control chunks waiting to be sent
          MaxProbeSize     \* size of a path MTU probe

(* The ascending list of disjoint blocks of a SACK is the set of them. *)
AreGapBlocks(B) ==
    /\ \A b \in B : 1 < b[1] /\ b[1] <= b[2]
    /\ \A b, c \in B : b = c \/ b[2] + 1 < c[1] \/ c[2] + 1 < b[1]

ASSUME TxAssumption ==
    /\ InitTsn \in Tsn
    /\ OutStreams \in Nat /\ OutBufferLimit \in Nat /\ PeerArwnd \in Nat
    /\ SeqMod \in Nat \ {0} /\ DataHeader \in Nat /\ CongestionMtu \in Nat
    /\ PacketHeader <= InitPmtu /\ PacketHeader <= CongestionMtu
    /\ Lens \subseteq Nat /\ Orderings \subseteq BOOLEAN
    /\ DataLimits \subseteq Nat /\ Packed \subseteq Nat
    /\ ARwnds \subseteq Nat
    /\ GapBlocks \subseteq SUBSET (Nat \X Nat) /\ \A B \in GapBlocks : AreGapBlocks(B)
    /\ MaxBytes \in Nat /\ MaxDupAcks \in Nat \ {0, 1} /\ MaxSendNext \in Nat
    /\ MaxProbeSize \in Nat

VARIABLES out_queue, resend_queue, wire, accepted,
          tsn_counter, last_acked_tsn, duplicated_acks,
          current_out_buffered, current_in_flight, peer_rcv_window,
          per_stream, rto_timer, primary_congestion,
          send_next, shutdown_state, shutdown_rto_timer,
          pmtu_probe,
          probed           \* the sizes of the probes that have been sent

dataVars == <<out_queue, resend_queue, wire, accepted, tsn_counter, last_acked_tsn,
              duplicated_acks, current_out_buffered, current_in_flight,
              peer_rcv_window, per_stream, rto_timer, primary_congestion>>
signalVars == <<send_next, shutdown_state, shutdown_rto_timer>>
probeVars == <<pmtu_probe, probed>>
vars == <<dataVars, signalVars, probeVars>>

Streams == 0 .. OutStreams - 1
SeqNum == 0 .. SeqMod - 1

(* struct DataChunk; ppid and immediate are carried along unread. *)
DataChunk ==
    [tsn : Tsn, stream_id : Streams, stream_seq_num : SeqNum,
     lo : Nat, hi : Nat, unordered : BOOLEAN, begin : BOOLEAN, end : BOOLEAN]

ResendEntry ==
    [data : DataChunk, marked_for_retransmit : BOOLEAN,
     marked_for_fast_retransmit : BOOLEAN, marked_was_fast_retransmit : BOOLEAN,
     partially_acked : BOOLEAN]

NewResendEntry(c) ==
    [data |-> c, marked_for_retransmit |-> FALSE, marked_for_fast_retransmit |-> FALSE,
     marked_was_fast_retransmit |-> FALSE, partially_acked |-> FALSE]

ShutdownState == {"None", "TryingTo", "ShutdownSent", "ShutdownReceived",
                  "ShutdownAckSent", "Complete", "AbortReceived"}

(* The chunks of send_next; only a heartbeat's content is ever looked at. *)
ControlChunk ==
    [kind : {"SAck", "ShutDown", "ShutDownAck", "ShutDownComplete", "HeartBeat"}, probe : Usize]

Control(kind) == [kind |-> kind, probe |-> 0]
HeartBeat(size) == [kind |-> "HeartBeat", probe |-> size]

get_pmtu == pmtu_probe.highest_successful

Sack == [cum_tsn : Tsn, a_rwnd : Nat, blocks : SUBSET (Nat \X Nat)]

(* The chunks waiting for their acknowledgement, and those not sent yet. *)
InFlight == {resend_queue[i].data : i \in DOMAIN resend_queue}
Queued == {out_queue[i] : i \in DOMAIN out_queue}

-----------------------------------------------------------------------------
Init ==
    /\ out_queue = <<>> /\ resend_queue = <<>> /\ wire = {} /\ accepted = 0
    /\ tsn_counter = InitTsn /\ last_acked_tsn = 0 /\ duplicated_acks = 0
    /\ current_out_buffered = 0 /\ current_in_flight = 0
    /\ peer_rcv_window = PeerArwnd
    /\ per_stream = [s \in Streams |-> 0]
    /\ rto_timer = FALSE
    /\ primary_congestion = NewPerDestinationInfo(CongestionMtu)
    /\ send_next = <<>> /\ shutdown_state = "None" /\ shutdown_rto_timer = FALSE
    /\ pmtu_probe = NewPmtuProbe /\ probed = {}

TrySendData(len, stream, unordered) ==
    /\ shutdown_state = "None"
    /\ stream \in Streams
    /\ current_out_buffered + len <= OutBufferLimit
    /\ accepted + len <= MaxBytes
    /\ current_out_buffered' = current_out_buffered + len
    /\ accepted' = accepted + len
    /\ out_queue' = Append(out_queue,
         [tsn |-> 0, stream_id |-> stream, stream_seq_num |-> per_stream[stream],
          lo |-> accepted, hi |-> accepted + len, unordered |-> unordered,
          begin |-> TRUE, end |-> TRUE])
    /\ per_stream' = IF unordered THEN per_stream
                     ELSE [per_stream EXCEPT ![stream] = (@ + 1) % SeqMod]
    /\ UNCHANGED <<resend_queue, wire, tsn_counter, last_acked_tsn, duplicated_acks,
                   current_in_flight, peer_rcv_window, rto_timer, primary_congestion,
                   signalVars, probeVars>>

-----------------------------------------------------------------------------
(* poll_data_to_send: room is the data_limit left after the chunk header. *)

PollLossRecovery_AsEnd(room) ==
    /\ primary_congestion.state = "LossRecovery"
    /\ resend_queue # <<>>
    /\ BufLen(resend_queue[1].data) <= room
    /\ resend_queue[1].marked_for_retransmit
    /\ resend_queue' = [resend_queue EXCEPT ![1].marked_for_retransmit = FALSE]
    /\ rto_timer' = TRUE
    /\ wire' = wire \cup {[resend_queue[1].data EXCEPT !.end = TRUE]}
    /\ UNCHANGED <<out_queue, accepted, tsn_counter, current_out_buffered,
                   current_in_flight, peer_rcv_window, per_stream>>

PollLossRecovery(room) ==
    /\ primary_congestion.state = "LossRecovery"
    /\ resend_queue # <<>>
    /\ BufLen(resend_queue[1].data) <= room
    /\ resend_queue[1].marked_for_retransmit
    /\ resend_queue' = [resend_queue EXCEPT ![1].marked_for_retransmit = FALSE]
    /\ rto_timer' = TRUE
    /\ wire' = wire \cup {resend_queue[1].data}
    /\ UNCHANGED <<out_queue, accepted, tsn_counter, current_out_buffered,
                   current_in_flight, peer_rcv_window, per_stream>>

FastRetransmittable(i, room) ==
    /\ resend_queue[i].marked_for_fast_retransmit
    /\ ~ resend_queue[i].marked_was_fast_retransmit
    /\ BufLen(resend_queue[i].data) <= room

PollFastRecovery(room) ==
    /\ primary_congestion.state = "FastRecovery"
    /\ \E i \in DOMAIN resend_queue :
         /\ FastRetransmittable(i, room)
         /\ \A j \in 1 .. i - 1 : ~ FastRetransmittable(j, room)
         /\ resend_queue' = [resend_queue EXCEPT ![i].marked_was_fast_retransmit = TRUE,
                                                 ![i].marked_for_fast_retransmit = FALSE]
         /\ wire' = wire \cup {resend_queue[i].data}
    /\ UNCHANGED <<out_queue, accepted, tsn_counter, current_out_buffered,
                   current_in_flight, peer_rcv_window, per_stream, rto_timer>>

(* New data is sent only outside of recovery and inside the windows. *)
MaySendNew ==
    /\ primary_congestion.state \in {"SlowStart", "CongestionAvoidance"}
    /\ out_queue # <<>>
    /\ current_in_flight <= primary_congestion.cwnd

PutOnWire(packet) ==
    /\ tsn_counter' = increase(tsn_counter)
    /\ peer_rcv_window' = peer_rcv_window - BufLen(packet)
    /\ current_in_flight' = current_in_flight + BufLen(packet)
    /\ resend_queue' = Append(resend_queue, NewResendEntry(packet))
    /\ rto_timer' = TRUE
    /\ wire' = wire \cup {packet}
    /\ UNCHANGED <<accepted, current_out_buffered, per_stream>>

PollWhole(room) ==
    /\ MaySendNew
    /\ BufLen(out_queue[1]) <= MinOf(room, peer_rcv_window)
    /\ out_queue' = Tail(out_queue)
    /\ PutOnWire([out_queue[1] EXCEPT !.tsn = tsn_counter, !.end = TRUE])

(* The first len bytes of a message, and what stays in the queue. *)
Fragment(full, len) == [full EXCEPT !.tsn = tsn_counter, !.hi = full.lo + len, !.end = FALSE]
Rest_KeepsBegin(full, len) == [full EXCEPT !.lo = @ + len]
Rest(full, len) == [full EXCEPT !.begin = FALSE, !.lo = @ + len]

PollFragment(room) ==
    LET front == out_queue[1]
        fragment_data_len == MinOf(room, peer_rcv_window)
    IN  /\ MaySendNew
        /\ BufLen(front) > fragment_data_len
        /\ BufLen(front) > get_pmtu
        /\ fragment_data_len # 0
        /\ out_queue' = [out_queue EXCEPT ![1] = Rest(front, fragment_data_len)]
        /\ PutOnWire(Fragment(front, fragment_data_len))

PollDataToSend(data_limit, already_packed) ==
    LET limit == MinOf(data_limit, get_pmtu - already_packed)
    IN  /\ get_pmtu > already_packed
        /\ limit > DataHeader
        /\ \/ PollLossRecovery(limit - DataHeader)
           \/ PollFastRecovery(limit - DataHeader)
           \/ PollWhole(limit - DataHeader)
           \/ PollFragment(limit - DataHeader)
        /\ UNCHANGED <<last_acked_tsn, duplicated_acks, primary_congestion, signalVars,
                       probeVars>>

-----------------------------------------------------------------------------
(***************************************************************************)
(* process_sack_gap_blocks.  The code merges the two ascending lists; per  *)
(* entry that means: it was received when its TSN lies in a block, end     *)
(* excluded, and it is missing when it lies before one and in none.        *)
(***************************************************************************)
InBlock(sack, b, t) ==
    /\ TsnLE(WrappingAdd(sack.cum_tsn, b[1]), t)
    /\ TsnLT(t, WrappingAdd(sack.cum_tsn, b[2]))

InGapBlock(sack, t) == \E b \in sack.blocks : InBlock(sack, b, t)

BeforeGapBlock(sack, t) ==
    /\ ~ InGapBlock(sack, t)
    /\ \E b \in sack.blocks : TsnLT(t, WrappingAdd(sack.cum_tsn, b[1]))

MarkByGapBlocks(queue, sack) ==
    [i \in DOMAIN queue |->
        IF queue[i].partially_acked THEN queue[i]
        ELSE [queue[i] EXCEPT
                !.marked_for_fast_retransmit = @ \/ BeforeGapBlock(sack, queue[i].data.tsn),
                !.partially_acked = InGapBlock(sack, queue[i].data.tsn)]]

NewlyInGapBlock(queue, sack) ==
    {queue[i].data : i \in {j \in DOMAIN queue :
        ~ queue[j].partially_acked /\ InGapBlock(sack, queue[j].data.tsn)}}

SaturatingSub_Plain(a, b) == a - b
SaturatingSub_Forgets(a, b) == a
SaturatingSub(a, b) == IF a >= b THEN a - b ELSE 0

(* The count is only compared with 2, so that it may saturate there. *)
SackDuplicate(sack) ==
    /\ sack.cum_tsn = last_acked_tsn
    /\ duplicated_acks' = MinOf(duplicated_acks + 1, MaxDupAcks)
    /\ peer_rcv_window' = SaturatingSub(sack.a_rwnd, current_in_flight)
    /\ resend_queue' = MarkByGapBlocks(resend_queue, sack)
    /\ primary_congestion' =
         BytesAcked(IF duplicated_acks' >= 2 /\ resend_queue # <<>>
                    THEN EnterFastRecovery(primary_congestion) ELSE primary_congestion,
                    TotalLen(NewlyInGapBlock(resend_queue, sack)), 0, current_in_flight)
    /\ UNCHANGED <<last_acked_tsn, current_out_buffered, current_in_flight, rto_timer>>

(* k is how many entries the loop pops from the front of the resend queue. *)
IsAckedPrefix_Strict(k, sack) ==
    /\ \A i \in 1 .. k : TsnLT(resend_queue[i].data.tsn, sack.cum_tsn)
    /\ k < Len(resend_queue) => ~ TsnLT(resend_queue[k + 1].data.tsn, sack.cum_tsn)
IsAckedPrefix(k, sack) ==
    /\ \A i \in 1 .. k : TsnLE(resend_queue[i].data.tsn, sack.cum_tsn)
    /\ k < Len(resend_queue) => ~ TsnLE(resend_queue[k + 1].data.tsn, sack.cum_tsn)

Acked_ButLast(k) == {resend_queue[i].data : i \in 1 .. k - 1}
Acked(k) == {resend_queue[i].data : i \in 1 .. k}
Unacked(k) == SubSeq(resend_queue, k + 1, Len(resend_queue))

TimerAfterAck_Stops(bytes_acked) == IF bytes_acked > 0 THEN FALSE ELSE rto_timer
TimerAfterAck(bytes_acked) ==
    IF bytes_acked > 0 THEN current_in_flight - bytes_acked > 0 ELSE rto_timer

SackAdvance(sack) ==
    /\ TsnLT(last_acked_tsn, sack.cum_tsn)
    /\ last_acked_tsn' = sack.cum_tsn
    /\ duplicated_acks' = 0
    /\ \E k \in 0 .. Len(resend_queue) :
         LET bytes_acked == TotalLen(Acked(k))
         IN  /\ IsAckedPrefix(k, sack)
             /\ resend_queue' = MarkByGapBlocks(Unacked(k), sack)
             /\ current_out_buffered' = current_out_buffered - bytes_acked
             /\ current_in_flight' = current_in_flight - bytes_acked
             /\ peer_rcv_window' = SaturatingSub(sack.a_rwnd, current_in_flight - bytes_acked)
             /\ primary_congestion' =
                  BytesAcked(primary_congestion, TotalLen(NewlyInGapBlock(Unacked(k), sack)),
                             bytes_acked, current_in_flight)
             /\ rto_timer' = TimerAfterAck(bytes_acked)

(* A reordered sack, last_acked_tsn > cum_tsn, is ignored. *)
HandleSack(sack) ==
    /\ SackDuplicate(sack) \/ SackAdvance(sack)
    /\ UNCHANGED <<out_queue, wire, accepted, tsn_counter, per_stream, signalVars, probeVars>>

-----------------------------------------------------------------------------
(* late are the entries with queued_at + rto_duration <= timeout.at. *)
HandleRtoTimeout(late) ==
    /\ rto_timer
    /\ rto_timer' = (resend_queue # <<>>)
    /\ primary_congestion' = IF resend_queue = <<>> THEN primary_congestion
                             ELSE RtoExpired(primary_congestion)
    /\ resend_queue' = [i \in DOMAIN resend_queue |->
                          [resend_queue[i] EXCEPT !.marked_for_retransmit = @ \/ i \in late]]
    /\ UNCHANGED <<out_queue, wire, accepted, tsn_counter, last_acked_tsn, duplicated_acks,
                   current_out_buffered, current_in_flight, peer_rcv_window, per_stream,
                   signalVars, probeVars>>

(***************************************************************************)
(* The heartbeat timer always runs.  It declares the probe in flight lost, *)
(* or queues the next one.                                                 *)
(***************************************************************************)
HandleHeartbeatTimeout ==
    /\ \/ /\ pmtu_probe.probe_in_flight
          /\ pmtu_probe' = ProbeTimedOut(pmtu_probe)
          /\ UNCHANGED send_next
       \/ /\ ~ pmtu_probe.probe_in_flight
          /\ Len(send_next) < MaxSendNext
          /\ pmtu_probe' = NextProbeSize(pmtu_probe)
          /\ pmtu_probe'.last_tested_size <= MaxProbeSize
          /\ send_next' = Append(send_next, HeartBeat(pmtu_probe'.last_tested_size % U32Mod))
    /\ UNCHANGED <<dataVars, shutdown_state, shutdown_rto_timer, probed>>

ProcessHeartbeatAck(size) ==
    /\ pmtu_probe' = ProbeSuccess(pmtu_probe, size)
    /\ primary_congestion' = UpdatePmtu(primary_congestion, pmtu_probe'.highest_successful)
    /\ UNCHANGED <<out_queue, resend_queue, wire, accepted, tsn_counter, last_acked_tsn,
                   duplicated_acks, current_out_buffered, current_in_flight,
                   peer_rcv_window, per_stream, rto_timer, signalVars, probed>>

-----------------------------------------------------------------------------
(* The control chunks and the shutdown sequence. *)

NotifySendSack ==
    /\ "SAck" \in Notifications
    /\ Len(send_next) < MaxSendNext
    /\ send_next' = send_next \o IF shutdown_state = "ShutdownSent"
                                 THEN <<Control("ShutDown"), Control("SAck")>>
                                 ELSE <<Control("SAck")>>
    /\ UNCHANGED <<dataVars, shutdown_state, shutdown_rto_timer, probeVars>>

NotifyAbort ==
    /\ "Abort" \in Notifications
    /\ shutdown_state' = "AbortReceived"
    /\ UNCHANGED <<dataVars, send_next, shutdown_rto_timer, probeVars>>

NotifyShutdown ==
    /\ "Shutdown" \in Notifications
    /\ shutdown_state = "None"
    /\ shutdown_state' = "TryingTo"
    /\ UNCHANGED <<dataVars, send_next, shutdown_rto_timer, probeVars>>

InitiateShutdown ==
    /\ "InitiateShutdown" \in Notifications
    /\ shutdown_state' = "TryingTo"
    /\ UNCHANGED <<dataVars, send_next, shutdown_rto_timer, probeVars>>

NotifyPeerShutdown ==
    /\ "PeerShutdown" \in Notifications
    /\ \/ /\ shutdown_state = "None"
          /\ shutdown_state' = "ShutdownReceived"
          /\ UNCHANGED send_next
       \/ /\ shutdown_state \in {"ShutdownSent", "ShutdownAckSent"}
          /\ Len(send_next) < MaxSendNext
          /\ send_next' = Append(send_next, Control("ShutDownAck"))
          /\ UNCHANGED shutdown_state
    /\ UNCHANGED <<dataVars, shutdown_rto_timer, probeVars>>

NotifyPeerShutdownAck ==
    /\ "PeerShutdownAck" \in Notifications
    /\ Len(send_next) < MaxSendNext
    /\ send_next' = Append(send_next, Control("ShutDownComplete"))
    /\ shutdown_state' = "Complete"
    /\ UNCHANGED <<dataVars, shutdown_rto_timer, probeVars>>

NotifyPeerShutdownComplete ==
    /\ "PeerShutdownComplete" \in Notifications
    /\ shutdown_state' = "Complete"
    /\ UNCHANGED <<dataVars, send_next, shutdown_rto_timer, probeVars>>

Drained_OnlyQueue == out_queue = <<>>
Drained == resend_queue = <<>> /\ out_queue = <<>>

(* Whether the front control chunk fits is left to the caller's limit. *)
PollSignalToSend ==
    \/ /\ send_next # <<>>
       /\ send_next' = Tail(send_next)
       /\ probed' = IF send_next[1].kind = "HeartBeat"
                    THEN probed \cup {send_next[1].probe} ELSE probed
       /\ UNCHANGED <<dataVars, shutdown_state, shutdown_rto_timer, pmtu_probe>>
    \/ /\ send_next = <<>>
       /\ Drained
       /\ \/ shutdown_state = "TryingTo" /\ shutdown_state' = "ShutdownSent"
          \/ shutdown_state = "ShutdownReceived" /\ shutdown_state' = "ShutdownAckSent"
       /\ shutdown_rto_timer' = TRUE
       /\ UNCHANGED <<dataVars, send_next, probeVars>>

HandleShutdownRtoTimeout ==
    /\ shutdown_rto_timer
    /\ Len(send_next) < MaxSendNext
    /\ \/ shutdown_state = "ShutdownSent" /\ send_next' = Append(send_next, Control("ShutDown"))
       \/ shutdown_state = "ShutdownAckSent" /\ send_next' = Append(send_next, Control("ShutDownAck"))
    /\ UNCHANGED <<dataVars, shutdown_state, shutdown_rto_timer, probeVars>>

-----------------------------------------------------------------------------
(***************************************************************************)
(* The peer acknowledges only what has been put on the wire, and no SACK   *)
(* is in the network for longer than it takes to send WrapRad chunks: an   *)
(* older one cannot be told from a newer one.                              *)
(***************************************************************************)
PeerCumTsns ==
    {t \in {decrease(InitTsn)} \cup {c.tsn : c \in wire} :
        \E k \in 1 .. WrapRad : Ahead(t, k) = tsn_counter}

(* The TSNs that a SACK reports as received beyond its cumulative one. *)
Reported(sack) ==
    {WrappingAdd(sack.cum_tsn, k) : k \in UNION {b[1] .. b[2] : b \in sack.blocks}}

PeerSacks ==
    {sack \in [cum_tsn : PeerCumTsns, a_rwnd : ARwnds, blocks : GapBlocks] :
        Reported(sack) \subseteq {c.tsn : c \in wire}}

Late == {l \in SUBSET DOMAIN resend_queue :
            \A i \in l : ~ resend_queue[i].marked_for_retransmit}

Next ==
    \/ \E len \in Lens, stream \in Streams, unordered \in Orderings :
          TrySendData(len, stream, unordered)
    \/ \E data_limit \in DataLimits, already_packed \in Packed :
          PollDataToSend(data_limit, already_packed)
    \/ \E sack \in PeerSacks : HandleSack(sack)
    \/ \E late \in Late : HandleRtoTimeout(late)
    \/ HandleHeartbeatTimeout
    \/ \E size \in probed : ProcessHeartbeatAck(size)
    \/ NotifySendSack \/ NotifyAbort \/ NotifyShutdown \/ InitiateShutdown
    \/ NotifyPeerShutdown \/ NotifyPeerShutdownAck \/ NotifyPeerShutdownComplete
    \/ PollSignalToSend \/ HandleShutdownRtoTimeout

Spec == Init /\ [][Next]_vars

-----------------------------------------------------------------------------
(* Every variable stays within the type its field has in the source. *)
TypeOK ==
    /\ out_queue \in Seq(DataChunk)
    /\ resend_queue \in Seq(ResendEntry)
    /\ wire \in SUBSET DataChunk
    /\ accepted \in Nat
    /\ tsn_counter \in Tsn /\ last_acked_tsn \in Tsn
    /\ duplicated_acks \in Nat
    /\ current_out_buffered \in Nat /\ current_in_flight \in Nat
    /\ peer_rcv_window \in Nat
    /\ per_stream \in [Streams -> SeqNum]
    /\ rto_timer \in BOOLEAN
    /\ primary_congestion \in PerDestinationInfo
    /\ send_next \in Seq(ControlChunk)
    /\ shutdown_state \in ShutdownState
    /\ shutdown_rto_timer \in BOOLEAN
    /\ pmtu_probe \in PmtuProbe
    /\ probed \in SUBSET Usize

(***************************************************************************)
(* assert_invariants: the two byte counters, which every operation updates *)
(* incrementally, are what is really in the queues, and the application    *)
(* never gets more than out_buffer_limit bytes into them.                  *)
(***************************************************************************)
AssertInvariants ==
    /\ current_out_buffered = TotalLen(InFlight \cup Queued)
    /\ current_in_flight = TotalLen(InFlight)
    /\ current_out_buffered <= OutBufferLimit

(***************************************************************************)
(* A sender in recovery has something to recover.  In loss recovery this   *)
(* is what keeps poll_data_to_send from its panic, "We are in loss         *)
(* recovery but have no packets in the resend queue"; in fast recovery an  *)
(* empty resend queue would mean that no chunk is ever sent again, because *)
(* only an acknowledgement ends the recovery.                              *)
(***************************************************************************)
RecoveryHasData ==
    primary_congestion.state \in {"LossRecovery", "FastRecovery"} => resend_queue # <<>>

(***************************************************************************)
(* The retransmission timer runs exactly while a chunk waits for its       *)
(* acknowledgement (RFC 2988 section 5, which next_timeout refers to): a   *)
(* chunk without a running timer is never sent again.                      *)
(***************************************************************************)
RtoArmed == rto_timer <=> resend_queue # <<>>

(***************************************************************************)
(* Flow control: what is outstanding plus what may still be sent never     *)
(* exceeds the largest window the peer has ever advertised.                *)
(***************************************************************************)
FlowControlled ==
    \E w \in ARwnds \cup {PeerArwnd} : current_in_flight + peer_rcv_window <= w

(***************************************************************************)
(* A retransmission is equal to the original transmission: one TSN never   *)
(* stands for two different chunks (the assertions of test rto_timeout).   *)
(***************************************************************************)
OneChunkPerTsn == \A c, d \in wire : c.tsn = d.tsn => c = d

(***************************************************************************)
(* Fragmentation loses, repeats and mixes nothing: a fragment that is not  *)
(* the end of its message is followed, at the next TSN and the next byte,  *)
(* by a fragment of the same message, or that message is still at the      *)
(* front of out_queue; and a message starts only after an end.             *)
(***************************************************************************)
Continues(c, d) ==
    /\ d.lo = c.hi
    /\ d.begin = c.end
    /\ c.end \/ <<d.stream_id, d.stream_seq_num, d.unordered>>
                  = <<c.stream_id, c.stream_seq_num, c.unordered>>

FragmentsChain ==
    \A c \in wire :
        \/ \E d \in wire : d.tsn = increase(c.tsn) /\ Continues(c, d)
        \/ /\ tsn_counter = increase(c.tsn)
           /\ IF out_queue = <<>> THEN c.end /\ c.hi = accepted ELSE Continues(c, out_queue[1])

(***************************************************************************)
(* Every chunk that waits for its acknowledgement is newer than the last   *)
(* cumulative TSN, so handle_sack takes no SACK that acknowledges it for   *)
(* "a reordered sack, we can safely ignore".                               *)
(***************************************************************************)
OutstandingIsNew ==
    \A i \in DOMAIN resend_queue : TsnLT(last_acked_tsn, resend_queue[i].data.tsn)

(***************************************************************************)
(* SHUTDOWN and SHUTDOWN ACK are sent only once everything accepted from   *)
(* the application has been acknowledged, and from then on the timer that  *)
(* repeats them is armed.                                                  *)
(***************************************************************************)
ShutdownDrained ==
    shutdown_state \in {"ShutdownSent", "ShutdownAckSent"} =>
        /\ resend_queue = <<>> /\ out_queue = <<>>
        /\ shutdown_rto_timer

-----------------------------------------------------------------------------
(* What comments of the source say and the code does not do. *)

(***************************************************************************)
(* poll_data_to_send: "check if we can just send the next chunk entirely   *)
(* or if we need to fragment".  When the windows are open, one of the two  *)
(* is possible for the front of out_queue.                                 *)
(***************************************************************************)
FrontIsSendable ==
    MaySendNew /\ peer_rcv_window >= get_pmtu => ENABLED PollDataToSend(get_pmtu, 0)

(***************************************************************************)
(* process_sack_gap_blocks marks a chunk for fast retransmission under the *)
(* comment "Missing packet".  A chunk whose TSN lies in a gap block, both  *)
(* of whose ends queue_ack of the peer fills with TSNs it has received, is *)
(* not missing.                                                            *)
(***************************************************************************)
MarkedFast(queue) == {queue[i].data.tsn : i \in
    {j \in DOMAIN queue : queue[j].marked_for_fast_retransmit}}

ReportedReceivedIsNotMissing ==
    [][\A sack \in PeerSacks : HandleSack(sack) =>
          \A t \in MarkedFast(resend_queue') \ MarkedFast(resend_queue) :
              t \notin Reported(sack)]_vars
=============================================================================
