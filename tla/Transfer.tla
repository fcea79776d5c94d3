------------------------------ MODULE Transfer ------------------------------
(***************************************************************************)
(* One direction of an association from end to end: AssociationTx of one   *)
(* endpoint, AssociationRx of the other, and the network between them,     *)
(* which reorders, repeats and loses what it carries.  Both halves are the *)
(* modules themselves; the actions here only carry chunks between them.    *)
(*                                                                         *)
(* The sending half of the receiving endpoint does nothing but pass SACKs  *)
(* on, so a drained notification is in the network at once, which may      *)
(* delay it as well.                                                       *)
(*                                                                         *)
(* A definition whose name ends in an underscore and a word is the one     *)
(* below it with a mistake planted; the specification uses none of them.   *)
(***************************************************************************)
EXTENDS AssociationTx

CONSTANTS InStreams, InBufferLimit, GapMod, MaxTxNotifications, \* of AssociationRx
          MaxSacks    \* bound: SACKs in the network

(* Whatever the receiver can report is among the reports of TxAssumption. *)
ASSUME TransferAssumption ==
    /\ InStreams \in Nat /\ InBufferLimit \in Nat /\ GapMod \in Nat \ {0}
    /\ MaxTxNotifications \in Nat
    /\ 0 .. InBufferLimit \subseteq ARwnds
    /\ \A B \in SUBSET ((2 .. WrapRad) \X (2 .. WrapRad)) : AreGapBlocks(B) => B \in GapBlocks

(* The variables of AssociationRx; its tsn_counter is rcv_tsn_counter here. *)
VARIABLES rcv_tsn_counter, tsn_reorder_buffer, reassemble_queue,
          ordered_receive_events, unordered_receive_events,
          current_in_buffer, tx_notifications, delivered

VARIABLES data_net,   \* the DATA chunks in the network
          sack_net,   \* the SACKs in the network
          sent        \* the messages try_send_data has accepted

rcvVars == <<rcv_tsn_counter, tsn_reorder_buffer, reassemble_queue,
             ordered_receive_events, unordered_receive_events,
             current_in_buffer, tx_notifications, delivered>>
transferVars == <<vars, rcvVars, data_net, sack_net, sent>>

R == INSTANCE AssociationRx WITH tsn_counter <- rcv_tsn_counter, shutdown_state <- "None",
                                 PeerChunks <- {}, PeerSignals <- {}

TransferInit ==
    /\ Init /\ R!Init
    /\ data_net = {} /\ sack_net = {} /\ sent = <<>>

-----------------------------------------------------------------------------
Send(len, stream, unordered) ==
    /\ TrySendData(len, stream, unordered)
    /\ sent' = Append(sent, [stream |-> stream, unordered |-> unordered,
                             octets |-> accepted .. accepted + len - 1])
    /\ UNCHANGED <<rcvVars, data_net, sack_net>>

(* The chunk that poll_data_to_send returns: the new entry of the resend   *)
(* queue, or the one whose mark it has cleared.                            *)
Transmitted ==
    IF Len(resend_queue') > Len(resend_queue) THEN resend_queue'[Len(resend_queue')].data
    ELSE resend_queue[CHOOSE i \in DOMAIN resend_queue : resend_queue'[i] # resend_queue[i]].data

Transmit(data_limit, already_packed) ==
    /\ PollDataToSend(data_limit, already_packed)
    /\ data_net' = data_net \cup {Transmitted}
    /\ UNCHANGED <<rcvVars, sack_net, sent>>

Expire(late) ==
    /\ HandleRtoTimeout(late)
    /\ UNCHANGED <<rcvVars, data_net, sack_net, sent>>

(* What arrives may arrive again, until the network loses it. *)
ReceiveData(data) ==
    /\ data \in data_net
    /\ \/ R!HandleDataChunk(data)
       \/ R!AssertInvariants /\ R!Ignored(data) /\ UNCHANGED rcvVars
    /\ UNCHANGED <<vars, data_net, sack_net, sent>>

SackOf(n) == [cum_tsn |-> n.cum_tsn, a_rwnd |-> n.a_rwnd, blocks |-> n.blocks]

Acknowledge ==
    /\ Cardinality(sack_net) < MaxSacks
    /\ R!TxNotifications
    /\ sack_net' = sack_net \cup {SackOf(tx_notifications[i]) : i \in DOMAIN tx_notifications}
    /\ UNCHANGED <<vars, data_net, sent>>

(* A reordered SACK changes nothing. *)
SackIgnored(sack) == TsnGT(last_acked_tsn, sack.cum_tsn)

ReceiveSack(sack) ==
    /\ sack \in sack_net /\ sack_net' \in {sack_net, sack_net \ {sack}}
    /\ \/ HandleSack(sack)
       \/ SackIgnored(sack) /\ UNCHANGED vars
    /\ UNCHANGED <<rcvVars, data_net, sent>>

Read ==
    /\ R!PollData
    /\ UNCHANGED <<vars, data_net, sack_net, sent>>

(* The network may lose whatever it carries. *)
Lose ==
    /\ \/ /\ \E data \in data_net : data_net' = data_net \ {data}
          /\ UNCHANGED sack_net
       \/ /\ \E sack \in sack_net : sack_net' = sack_net \ {sack}
          /\ UNCHANGED data_net
    /\ UNCHANGED <<vars, rcvVars, sent>>

TransferNext ==
    \/ \E len \in Lens, stream \in Streams, unordered \in Orderings : Send(len, stream, unordered)
    \/ \E data_limit \in DataLimits, already_packed \in Packed : Transmit(data_limit, already_packed)
    \/ \E late \in Late : Expire(late)
    \/ \E data \in data_net : ReceiveData(data)
    \/ Acknowledge
    \/ \E sack \in sack_net : ReceiveSack(sack)
    \/ Read
    \/ Lose

TransferSpec == TransferInit /\ [][TransferNext]_transferVars

(***************************************************************************)
(* Fairness.  The wrappers poll for data to send and drain notifications   *)
(* whenever they can, and the application keeps reading.  The network does *)
(* not lose every copy of the chunk the receiver waits for, nor does it    *)
(* repeat one SACK for ever; it may lose every SACK.  The retransmission   *)
(* timer expires, and the front of the resend queue has then been out for  *)
(* long enough; the front is never younger than when the timer was set.    *)
(***************************************************************************)
ReceiveNext ==
    \E data \in data_net : data.tsn = increase(rcv_tsn_counter) /\ ReceiveData(data)

ReceiveLastCopy ==
    \E sack \in sack_net : ReceiveSack(sack) /\ sack_net' = sack_net \ {sack}

ExpireFront ==
    \E late \in Late :
        /\ resend_queue # <<>> => 1 \in late \/ resend_queue[1].marked_for_retransmit
        /\ Expire(late)

TransferFairSpec ==
    /\ TransferSpec
    /\ WF_transferVars(\E data_limit \in DataLimits, already_packed \in Packed :
                          Transmit(data_limit, already_packed))
    /\ WF_transferVars(Acknowledge)
    /\ WF_transferVars(Read)
    /\ WF_transferVars(ExpireFront)
    /\ SF_transferVars(ReceiveNext)
    /\ WF_transferVars(ReceiveLastCopy)

-----------------------------------------------------------------------------
(* What the application sees: the messages it hands over, and those it reads. *)
Message ==
    [stream : Streams, unordered : Orderings,
     octets : {lo .. lo + len - 1 : lo \in 0 .. MaxBytes, len \in Lens}]

received ==
    [i \in DOMAIN delivered |->
        [stream |-> delivered[i].stream, unordered |-> delivered[i].unordered,
         octets |-> Octets(delivered[i].data)]]

Promise == INSTANCE ReliableDelivery

(***************************************************************************)
(* Sender, receiver and network together implement ReliableDelivery:       *)
(* whatever is lost, repeated, reordered, fragmented and sent again,       *)
(* poll_data returns messages that try_send_data has accepted, whole and   *)
(* once, and the ordered ones of a stream in the order they were sent.     *)
(***************************************************************************)
Implements == Promise!Spec

(***************************************************************************)
(* Every SACK queue_ack builds is one that AssociationTx assumes of its    *)
(* peer: it acknowledges only what has been put on the wire, and its gap   *)
(* blocks name only chunks that have been sent.  What is shown of the      *)
(* sender against any such peer therefore holds against AssociationRx.     *)
(***************************************************************************)
PeerIsFaithful == sack_net \subseteq PeerSacks

(***************************************************************************)
(* What the code leaves to luck.  No SACK is ever repeated, because        *)
(* handle_data_chunk answers no duplicate: if the last one is lost, the    *)
(* sender never learns what has arrived.  No SACK follows a poll_data, so  *)
(* that a window advertised as closed may stay closed; and a message (or   *)
(* what is left of it) that is too long for a packet, but not for the path *)
(* MTU, is neither sent nor fragmented.                                    *)
(***************************************************************************)
AcksCatchUp == []<>(last_acked_tsn = rcv_tsn_counter \/ sent = <<>>)

FrontFits ==
    out_queue # <<>> =>
        \E data_limit \in DataLimits :
            LET len == MinOf(MinOf(data_limit, get_pmtu) - DataHeader, peer_rcv_window)
            IN  BufLen(out_queue[1]) <= len \/ (BufLen(out_queue[1]) > get_pmtu /\ len > 0)

(***************************************************************************)
(* Given that the acknowledgements catch up with the receiver again and    *)
(* again, and that the front of out_queue fits the packet and the window   *)
(* again and again, everything the application has handed over is again    *)
(* and again delivered and acknowledged.  Retransmission ("Retransmission  *)
(* of lost packets", README) closes every gap that lost DATA leaves, and   *)
(* neither recovery state, nor the congestion window, nor a full receive   *)
(* buffer stops the sender for good.                                       *)
(***************************************************************************)
EverythingArrives ==
    AcksCatchUp /\ []<>FrontFits =>
        []<>(out_queue = <<>> /\ resend_queue = <<>> /\ Len(delivered) = Len(sent))
=============================================================================
