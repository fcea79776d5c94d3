---------------------------- MODULE AssociationRx ----------------------------
(***************************************************************************)
(* The receiving half of an association: struct AssociationRx of rx.rs.    *)
(* One action per kind of chunk given to notification, one for poll_data   *)
(* and one for tx_notifications, the drain the wrappers call.              *)
(*                                                                         *)
(* Chunks are pushed to a reassembly queue in the order of their TSNs, so  *)
(* the Vec of a queue or of an event is the set of its chunks, and all the *)
(* queues of all streams are one set, of which Key selects one.            *)
(*                                                                         *)
(* A definition whose name ends in an underscore and a word is the one     *)
(* below it with a mistake planted; the specification uses none of them.   *)
(***************************************************************************)
EXTENDS SerialNumber, Chunks, Sequences

CONSTANTS InitTsn,        \* init_tsn, the first TSN of the peer
          InStreams,      \* in_streams
          InBufferLimit,  \* in_buffer_limit
          GapMod,         \* 2^16, the range of the offsets of a gap block
          PeerChunks,     \* the DATA chunks the peer sends, and repeats
          PeerSignals,    \* the other chunks the peer sends
          MaxTxNotifications \* bound: notifications waiting for the other half

DataChunk ==
    [tsn : Tsn, stream_id : Nat, stream_seq_num : Nat,
     lo : Nat, hi : Nat, unordered : BOOLEAN, begin : BOOLEAN, end : BOOLEAN]

(* On a chunk of any other kind handle_chunk panics, todo!(). *)
Signal == {"SAck", "Abort", "ShutDown", "ShutDownAck", "ShutDownComplete",
           "HeartBeat", "HeartBeatAck"}

ASSUME RxAssumption ==
    /\ InitTsn \in Tsn
    /\ InStreams \in Nat /\ InBufferLimit \in Nat /\ GapMod \in Nat \ {0}
    /\ PeerSignals \subseteq Signal
    /\ MaxTxNotifications \in Nat

(* How many chunks the peer numbered before c. *)
Place(c) == WrappingSub(c.tsn, InitTsn)

(* Whether d continues the message of c. *)
Continues(d, c) ==
    /\ ~ d.begin /\ d.lo = c.hi
    /\ d.stream_id = c.stream_id /\ d.stream_seq_num = c.stream_seq_num
    /\ d.unordered = c.unordered

(***************************************************************************)
(* The chunks P are those of a sending half: it gives every TSN, and every *)
(* byte, to one chunk, numbers its chunks one after the other in the order *)
(* of their bytes, and the fragments of a message follow each other, as    *)
(* FragmentsChain says of AssociationTx.  As a chunk may be repeated at    *)
(* any time, all of them are within the reach of Tsn::cmp.                 *)
(***************************************************************************)
IsPeer(P) ==
    /\ P \subseteq DataChunk
    /\ \A c \in P : c.lo < c.hi /\ Place(c) < WrapRad
    /\ \A c, d \in P : c = d \/ (c.tsn # d.tsn /\ (c.hi <= d.lo \/ d.hi <= c.lo))
    /\ \A c, d \in P : Place(c) < Place(d) => c.hi <= d.lo
    /\ \A d \in P :
         IF Place(d) = 0 THEN d.begin
         ELSE \E c \in P : /\ Place(c) = Place(d) - 1
                           /\ IF c.end THEN d.begin ELSE Continues(d, c)

ASSUME PeerAssumption == IsPeer(PeerChunks)

VARIABLES tsn_counter, tsn_reorder_buffer, reassemble_queue,
          ordered_receive_events, unordered_receive_events,
          current_in_buffer, shutdown_state, tx_notifications,
          delivered   \* the events poll_data has returned

bufferVars == <<tsn_counter, tsn_reorder_buffer, reassemble_queue, ordered_receive_events,
                unordered_receive_events, current_in_buffer, delivered>>
vars == <<bufferVars, shutdown_state, tx_notifications>>

(* struct StreamReceiveEvent; unordered and stream are those of its chunks. *)
EventIn(P) == [stream : Nat, unordered : BOOLEAN, data : SUBSET P]

TxNotification ==
    [kind : {"SendSack"}, cum_tsn : Tsn, a_rwnd : Nat, blocks : SUBSET (Nat \X Nat)]
    \cup [kind : {"SAck", "Abort", "PeerShutdown", "PeerShutdownAck",
                  "PeerShutdownComplete", "SendHeartBeatAck", "HeartBeatAck"}]

EventChunks(events) == UNION {events[i].data : i \in DOMAIN events}

-----------------------------------------------------------------------------
Init ==
    /\ tsn_counter = decrease(InitTsn)
    /\ tsn_reorder_buffer = {} /\ reassemble_queue = {}
    /\ ordered_receive_events = <<>> /\ unordered_receive_events = <<>>
    /\ current_in_buffer = 0
    /\ shutdown_state = "None"
    /\ tx_notifications = <<>>
    /\ delivered = <<>>

-----------------------------------------------------------------------------
(***************************************************************************)
(* queue_ack, for the values counter, buffer and buffered that the fields  *)
(* have when it is called.  A gap block is a maximal run of TSNs in the    *)
(* reorder buffer, as offsets from the cumulative TSN cut to u16.          *)
(***************************************************************************)
Offsets(counter, buffer) == {WrappingSub(c.tsn, counter) : c \in buffer}

SackBlocks_OpenEnd(counter, buffer) ==
    LET offsets == Offsets(counter, buffer)
        starts == {o \in offsets : o - 1 \notin offsets}
        ends == {o \in offsets : o + 1 \notin offsets}
        runs == {r \in starts \X ends : r[1] <= r[2] /\ r[1] .. r[2] \subseteq offsets}
    IN  {<<r[1] % GapMod, (r[2] + 1) % GapMod>> : r \in runs}

SackBlocks(counter, buffer) ==
    LET offsets == Offsets(counter, buffer)
        starts == {o \in offsets : o - 1 \notin offsets}
        ends == {o \in offsets : o + 1 \notin offsets}
        runs == {r \in starts \X ends : r[1] <= r[2] /\ r[1] .. r[2] \subseteq offsets}
    IN  {<<r[1] % GapMod, r[2] % GapMod>> : r \in runs}

QueueAck(counter, buffer, buffered) ==
    tx_notifications' = Append(tx_notifications,
        [kind |-> "SendSack", cum_tsn |-> counter,
         a_rwnd |-> InBufferLimit - buffered, blocks |-> SackBlocks(counter, buffer)])

-----------------------------------------------------------------------------
(***************************************************************************)
(* assert_invariants, which notification runs after every chunk, as it is  *)
(* written: it does not count the bytes of unordered_receive_events.  Once *)
(* it fails, notification has panicked and the receiver takes no step.     *)
(***************************************************************************)
AssertInvariants ==
    current_in_buffer = TotalLen(tsn_reorder_buffer)
        + TotalLen(reassemble_queue \cup EventChunks(ordered_receive_events))

-----------------------------------------------------------------------------
Fits(data) == current_in_buffer + BufLen(data) <= InBufferLimit

(* handle_data_chunk for a TSN beyond the next one. *)
ReorderChunk(data) ==
    LET buffer == tsn_reorder_buffer \cup {data}
        buffered == current_in_buffer + BufLen(data)
    IN  /\ TsnGT(data.tsn, increase(tsn_counter))
        /\ \A c \in tsn_reorder_buffer : c.tsn # data.tsn
        /\ Fits(data)
        /\ tsn_reorder_buffer' = buffer
        /\ current_in_buffer' = buffered
        /\ QueueAck(tsn_counter, buffer, buffered)
        /\ UNCHANGED <<tsn_counter, reassemble_queue, ordered_receive_events,
                       unordered_receive_events>>

KnownStream(c) == c.stream_id < InStreams
Offset(c) == WrappingSub(c.tsn, tsn_counter)

(* A chunk of an unknown stream is acknowledged and forgotten. *)
IgnoreUnknownStream(data) ==
    /\ data.tsn = increase(tsn_counter)
    /\ ~ KnownStream(data)
    /\ QueueAck(tsn_counter, tsn_reorder_buffer, current_in_buffer)
    /\ UNCHANGED <<tsn_counter, tsn_reorder_buffer, reassemble_queue,
                   ordered_receive_events, unordered_receive_events, current_in_buffer>>

(***************************************************************************)
(* handle_in_order_packet calls itself for every reordered chunk that has  *)
(* become the next one, and stops at a gap or after it has dropped a chunk *)
(* of an unknown stream.  n is how many chunks it takes in that way.  They *)
(* fit, because their bytes are counted already.                           *)
(***************************************************************************)
NextInOrder(n) == {c \in tsn_reorder_buffer : Offset(c) \in 2 .. n + 1}
Following(n) == {c \in tsn_reorder_buffer : Offset(c) = n + 2}

IsDrain_PopsOne(n) == n = 0
IsDrain(n) ==
    /\ \A o \in 2 .. n + 1 : \E c \in NextInOrder(n) : Offset(c) = o /\ KnownStream(c)
    /\ \A c \in Following(n) : ~ KnownStream(c)

(* The chunks of the reassembly queue when e, the end of a message, comes. *)
Key(c) == <<c.stream_id, c.stream_seq_num>>

Reassembled_OnlyNew(new, e) == {e} \cup {c \in new : Key(c) = Key(e) /\ Offset(c) < Offset(e)}
Reassembled(new, e) ==
    {e} \cup {c \in reassemble_queue \cup new :
        /\ Key(c) = Key(e)
        /\ c \in new => Offset(c) < Offset(e)
        /\ ~ \E f \in new : /\ f.end /\ Key(f) = Key(e) /\ Offset(f) < Offset(e)
                            /\ c \in new => Offset(c) <= Offset(f)}

(* The ends of the messages that are completed, in the order they are. *)
Ends(new, unordered) == {e \in new : e.end /\ e.unordered = unordered}

InTsnOrder(S) ==
    {q \in [1 .. Cardinality(S) -> S] :
        /\ S = {q[i] : i \in DOMAIN q}
        /\ \A i, j \in DOMAIN q : i < j => Offset(q[i]) < Offset(q[j])}

EventsOf(new, ends) ==
    [i \in DOMAIN ends |->
        [stream |-> ends[i].stream_id, unordered |-> ends[i].unordered,
         data |-> Reassembled(new, ends[i])]]

HandleInOrderPacket(data) ==
    /\ data.tsn = increase(tsn_counter)
    /\ KnownStream(data)
    /\ Fits(data)
    /\ \E n \in 0 .. Cardinality(tsn_reorder_buffer) :
         LET new == {data} \cup NextInOrder(n)
             done == UNION {Reassembled(new, e) : e \in {c \in new : c.end}}
         IN  /\ IsDrain(n)
             /\ tsn_counter' = WrappingAdd(tsn_counter, n + 1)
             /\ tsn_reorder_buffer' = tsn_reorder_buffer \ (NextInOrder(n) \cup Following(n))
             /\ current_in_buffer' = current_in_buffer + BufLen(data) - TotalLen(Following(n))
             /\ reassemble_queue' = (reassemble_queue \cup new) \ done
             /\ \E ends \in InTsnOrder(Ends(new, FALSE)) :
                  ordered_receive_events' = ordered_receive_events \o EventsOf(new, ends)
             /\ \E ends \in InTsnOrder(Ends(new, TRUE)) :
                  unordered_receive_events' = unordered_receive_events \o EventsOf(new, ends)
             /\ QueueAck(tsn_counter', tsn_reorder_buffer', current_in_buffer')

(* A duplicate, and a chunk that does not fit, change nothing. *)
Ignored(data) ==
    \/ TsnLT(data.tsn, increase(tsn_counter))
    \/ \E c \in tsn_reorder_buffer : c.tsn = data.tsn
    \/ ~ Fits(data) /\ (data.tsn = increase(tsn_counter) => KnownStream(data))

HandleDataChunk(data) ==
    /\ AssertInvariants
    /\ Len(tx_notifications) < MaxTxNotifications
    /\ \/ ReorderChunk(data)
       \/ IgnoreUnknownStream(data)
       \/ HandleInOrderPacket(data)
    /\ UNCHANGED <<shutdown_state, delivered>>

-----------------------------------------------------------------------------
(* The other chunks are passed on to the sending half. *)
ShutdownStateAfter(signal) ==
    CASE signal = "Abort" -> "AbortReceived"
      [] signal = "ShutDown" -> "ShutdownReceived"
      [] signal \in {"ShutDownAck", "ShutDownComplete"} -> "Complete"
      [] OTHER -> shutdown_state

NotificationOf(signal) ==
    CASE signal = "ShutDown" -> "PeerShutdown"
      [] signal = "ShutDownAck" -> "PeerShutdownAck"
      [] signal = "ShutDownComplete" -> "PeerShutdownComplete"
      [] signal = "HeartBeat" -> "SendHeartBeatAck"
      [] OTHER -> signal

HandleSignal(signal) ==
    /\ AssertInvariants
    /\ Len(tx_notifications) < MaxTxNotifications
    /\ shutdown_state' = ShutdownStateAfter(signal)
    /\ tx_notifications' = Append(tx_notifications, [kind |-> NotificationOf(signal)])
    /\ UNCHANGED bufferVars

(* What the other half takes over. *)
TxNotifications ==
    /\ AssertInvariants
    /\ tx_notifications # <<>>
    /\ tx_notifications' = <<>>
    /\ UNCHANGED <<bufferVars, shutdown_state>>

-----------------------------------------------------------------------------
(***************************************************************************)
(* pop_next_receive_event prefers unordered messages.  As far as the model *)
(* goes it finds none: a chunk that completes one fails assert_invariants. *)
(***************************************************************************)
PopUnordered ==
    /\ delivered' = Append(delivered, unordered_receive_events[1])
    /\ unordered_receive_events' = Tail(unordered_receive_events)
    /\ UNCHANGED ordered_receive_events

PopOrdered_Newest ==
    /\ ordered_receive_events # <<>>
    /\ delivered' = Append(delivered, ordered_receive_events[Len(ordered_receive_events)])
    /\ ordered_receive_events' = SubSeq(ordered_receive_events, 1, Len(ordered_receive_events) - 1)
    /\ UNCHANGED unordered_receive_events

PopOrdered ==
    /\ ordered_receive_events # <<>>
    /\ delivered' = Append(delivered, ordered_receive_events[1])
    /\ ordered_receive_events' = Tail(ordered_receive_events)
    /\ UNCHANGED unordered_receive_events

PopNextReceiveEvent == IF unordered_receive_events # <<>> THEN PopUnordered ELSE PopOrdered

PollData_KeepsCount ==
    /\ AssertInvariants
    /\ shutdown_state = "None"
    /\ PopNextReceiveEvent
    /\ UNCHANGED <<tsn_counter, tsn_reorder_buffer, reassemble_queue, current_in_buffer,
                   shutdown_state, tx_notifications>>

PollData ==
    /\ AssertInvariants
    /\ shutdown_state = "None"
    /\ PopNextReceiveEvent
    /\ current_in_buffer' = current_in_buffer - TotalLen(delivered'[Len(delivered')].data)
    /\ UNCHANGED <<tsn_counter, tsn_reorder_buffer, reassemble_queue, shutdown_state,
                   tx_notifications>>

-----------------------------------------------------------------------------
Next ==
    \/ \E data \in PeerChunks : HandleDataChunk(data)
    \/ \E signal \in PeerSignals : HandleSignal(signal)
    \/ TxNotifications
    \/ PollData

Spec == Init /\ [][Next]_vars

-----------------------------------------------------------------------------
Buffered ==
    tsn_reorder_buffer \cup reassemble_queue
        \cup EventChunks(ordered_receive_events) \cup EventChunks(unordered_receive_events)

Received == Buffered \cup EventChunks(delivered)

(* Every variable stays within the type its field has in the source. *)
Typed(P) ==
    /\ tsn_counter \in Tsn
    /\ tsn_reorder_buffer \in SUBSET P
    /\ reassemble_queue \in SUBSET P
    /\ ordered_receive_events \in Seq(EventIn(P))
    /\ unordered_receive_events \in Seq(EventIn(P))
    /\ delivered \in Seq(EventIn(P))
    /\ current_in_buffer \in Nat
    /\ shutdown_state \in {"None", "AbortReceived", "ShutdownReceived", "Complete"}
    /\ tx_notifications \in Seq(TxNotification)

TypeOK == Typed(PeerChunks)

(***************************************************************************)
(* current_in_buffer, which every operation updates incrementally, counts  *)
(* every byte held, each once, and never exceeds in_buffer_limit, so that  *)
(* the subtraction for the window in queue_ack cannot underflow.  This is  *)
(* what assert_invariants would say if it counted unordered messages too;  *)
(* that it does not is the subject of the run rx_assert.                   *)
(***************************************************************************)
BufferAccounting ==
    /\ current_in_buffer = TotalLen(Buffered)
    /\ current_in_buffer <= InBufferLimit

(***************************************************************************)
(* A message is handed to the application whole: its first fragment, its   *)
(* last one, all the bytes between them and nothing of another message.    *)
(***************************************************************************)
IsWhole(data) ==
    \E b, e \in data :
        /\ b.begin /\ e.end /\ Octets(data) = b.lo .. e.hi - 1
        /\ \A c \in data : (c.begin => c = b) /\ (c.end => c = e)

AllEvents == delivered \o unordered_receive_events \o ordered_receive_events

WholeMessages == \A i \in DOMAIN AllEvents : IsWhole(AllEvents[i].data)

(***************************************************************************)
(* A message is delivered once, however often its chunks arrive, and the   *)
(* ordered messages of a stream are delivered in the order in which they   *)
(* were sent, without a gap, however their chunks are reordered.           *)
(***************************************************************************)
DeliveredOnceInOrder ==
    \A i \in DOMAIN AllEvents :
        /\ \A j \in DOMAIN AllEvents : i # j => AllEvents[i].data \cap AllEvents[j].data = {}
        /\ ~ AllEvents[i].unordered =>
             \A c \in PeerChunks :
                 /\ ~ c.unordered /\ c.stream_id = AllEvents[i].stream
                 /\ \A d \in AllEvents[i].data : c.hi <= d.lo
                 => \E j \in 1 .. i - 1 : c \in AllEvents[j].data

(***************************************************************************)
(* A SACK tells the truth and all of it: it covers exactly the TSNs of the *)
(* chunks that have been received when queue_ack builds it.                *)
(***************************************************************************)
Covered(sack) ==
    {c.tsn : c \in {d \in PeerChunks :
        \/ TsnLE(d.tsn, sack.cum_tsn)
        \/ \E b \in sack.blocks : WrappingSub(d.tsn, sack.cum_tsn) \in b[1] .. b[2]}}

SackExact ==
    [][\A data \in PeerChunks : HandleDataChunk(data) =>
          Covered(tx_notifications'[Len(tx_notifications')]) = {c.tsn : c \in Received'}]_vars

(***************************************************************************)
(* What has been received for a known stream stays in the buffers until    *)
(* poll_data has handed it to the application.                             *)
(***************************************************************************)
NeverForgets == [][{c \in Received : KnownStream(c)} \subseteq Received']_vars
=============================================================================
