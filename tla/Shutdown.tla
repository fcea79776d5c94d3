------------------------------ MODULE Shutdown ------------------------------
(***************************************************************************)
(* Closing an association: the two endpoints of one association with the   *)
(* shutdown state of tx.rs and of rx.rs, the control chunks they exchange, *)
(* and a network that reorders, repeats and loses them.                    *)
(*                                                                         *)
(* Of the data there is at most one message in each direction, because a   *)
(* shutdown asks only whether everything has been acknowledged.  Module    *)
(* Transfer is about its way through the network; here it arrives once and *)
(* its SACK is not lost.  ABORT is left out: neither endpoint sends it.    *)
(*                                                                         *)
(* A definition whose name ends in an underscore and a word is the one     *)
(* below it with a mistake planted; the specification uses none of them.   *)
(***************************************************************************)
EXTENDS Naturals, Sequences

CONSTANTS Endpoint,       \* the two ends of the association
          Senders,        \* the endpoints whose application has a message to send
          InitiateIn,     \* the states in which the application calls initiate_shutdown
          Removes,        \* the endpoints whose wrapper forgets a closed association
          Lossy,          \* the kinds of control chunks the network may lose
          MaxSendNext     \* bound: control chunks waiting while timers expire

ASSUME ShutdownAssumption ==
    /\ \E a, b \in Endpoint : a # b /\ Endpoint = {a, b}
    /\ Senders \subseteq Endpoint /\ Removes \subseteq Endpoint
    /\ MaxSendNext \in Nat

VARIABLES shutdown_state,      \* of the sending half of each endpoint
          rx_shutdown_state,   \* of the receiving half of each endpoint
          send_next,           \* of the sending half of each endpoint
          shutdown_rto_timer,  \* of the sending half of each endpoint
          net,                 \* the control chunks on their way to each endpoint
          accepted,            \* the endpoints whose message try_send_data has accepted
          received,            \* those whose message the peer has received
          acked                \* those whose message is acknowledged: its queues are empty

vars == <<shutdown_state, rx_shutdown_state, send_next, shutdown_rto_timer, net,
          accepted, received, acked>>

Peer(e) == CHOOSE p \in Endpoint : p # e

Control == {"SAck", "ShutDown", "ShutDownAck", "ShutDownComplete"}

Init ==
    /\ shutdown_state = [e \in Endpoint |-> "None"]
    /\ rx_shutdown_state = [e \in Endpoint |-> "None"]
    /\ send_next = [e \in Endpoint |-> <<>>]
    /\ shutdown_rto_timer = [e \in Endpoint |-> FALSE]
    /\ net = [e \in Endpoint |-> {}]
    /\ accepted = {} /\ received = {} /\ acked = {}

-----------------------------------------------------------------------------
(* The application. *)

TrySendData(e) ==
    /\ shutdown_state[e] = "None"
    /\ e \in Senders \ accepted
    /\ accepted' = accepted \cup {e}
    /\ UNCHANGED <<shutdown_state, rx_shutdown_state, send_next, shutdown_rto_timer, net,
                   received, acked>>

InitiateShutdown(e) ==
    /\ shutdown_state[e] \in InitiateIn
    /\ shutdown_state' = [shutdown_state EXCEPT ![e] = "TryingTo"]
    /\ UNCHANGED <<rx_shutdown_state, send_next, shutdown_rto_timer, net, accepted, received,
                   acked>>

-----------------------------------------------------------------------------
(* poll_signal_to_send: a waiting control chunk goes first. *)

Drained_Always(e) == TRUE
Drained(e) == e \in accepted => e \in acked

PollSendNext(e) ==
    /\ send_next[e] # <<>>
    /\ send_next' = [send_next EXCEPT ![e] = Tail(@)]
    /\ net' = [net EXCEPT ![Peer(e)] = @ \cup {Head(send_next[e])}]
    /\ UNCHANGED <<shutdown_state, rx_shutdown_state, shutdown_rto_timer, accepted, received,
                   acked>>

PollShutdown(e, from, to, chunk) ==
    /\ send_next[e] = <<>> /\ Drained(e)
    /\ shutdown_state[e] = from
    /\ shutdown_state' = [shutdown_state EXCEPT ![e] = to]
    /\ shutdown_rto_timer' = [shutdown_rto_timer EXCEPT ![e] = TRUE]
    /\ net' = [net EXCEPT ![Peer(e)] = @ \cup {chunk}]
    /\ UNCHANGED <<rx_shutdown_state, send_next, accepted, received, acked>>

PollSignalToSend(e) ==
    \/ PollSendNext(e)
    \/ PollShutdown(e, "TryingTo", "ShutdownSent", "ShutDown")
    \/ PollShutdown(e, "ShutdownReceived", "ShutdownAckSent", "ShutDownAck")

(* The bound: retransmissions and repetitions pause while chunks wait to be sent. *)
Roomy == \A e \in Endpoint : Len(send_next[e]) < MaxSendNext

HandleShutdownRtoTimeout(e) ==
    /\ shutdown_rto_timer[e]
    /\ Roomy
    /\ \/ /\ shutdown_state[e] = "ShutdownSent"
          /\ send_next' = [send_next EXCEPT ![e] = Append(@, "ShutDown")]
       \/ /\ shutdown_state[e] = "ShutdownAckSent"
          /\ send_next' = [send_next EXCEPT ![e] = Append(@, "ShutDownAck")]
    /\ UNCHANGED <<shutdown_state, rx_shutdown_state, shutdown_rto_timer, net, accepted,
                   received, acked>>

-----------------------------------------------------------------------------
(***************************************************************************)
(* A chunk arrives: the notification of the receiving half, followed by    *)
(* the one it passes on to the sending half.  Both happen under the locks  *)
(* of the wrapper.  A wrapper that has removed the association ignores it. *)
(***************************************************************************)
Known(e) == ~ (e \in Removes /\ shutdown_state[e] = "Complete")

(* The message of the peer, whose SACK a closing endpoint accompanies. *)
ReceiveData(e) ==
    /\ Known(e)
    /\ Peer(e) \in accepted \ received
    /\ received' = received \cup {Peer(e)}
    /\ send_next' = [send_next EXCEPT ![e] =
         @ \o IF shutdown_state[e] = "ShutdownSent" THEN <<"ShutDown", "SAck">> ELSE <<"SAck">>]
    /\ UNCHANGED <<shutdown_state, rx_shutdown_state, shutdown_rto_timer, net, accepted, acked>>

RxStateAfter(e, chunk) ==
    CASE chunk = "ShutDown" -> "ShutdownReceived"
      [] chunk \in {"ShutDownAck", "ShutDownComplete"} -> "Complete"
      [] OTHER -> rx_shutdown_state[e]

PeerShutdown_Silent(e) ==
    /\ send_next' = send_next
    /\ shutdown_state' = [shutdown_state EXCEPT ![e] =
         IF @ = "None" THEN "ShutdownReceived" ELSE @]

(* In any other state a SHUTDOWN of the peer changes nothing. *)
PeerShutdown(e) ==
    /\ send_next' = [send_next EXCEPT ![e] =
         IF shutdown_state[e] \in {"ShutdownSent", "ShutdownAckSent"}
         THEN Append(@, "ShutDownAck") ELSE @]
    /\ shutdown_state' = [shutdown_state EXCEPT ![e] =
         IF @ = "None" THEN "ShutdownReceived" ELSE @]

PeerShutdownAck(e) ==
    /\ send_next' = [send_next EXCEPT ![e] = Append(@, "ShutDownComplete")]
    /\ shutdown_state' = [shutdown_state EXCEPT ![e] = "Complete"]

PeerShutdownComplete(e) ==
    /\ shutdown_state' = [shutdown_state EXCEPT ![e] = "Complete"]
    /\ UNCHANGED send_next

Notification(e, chunk) ==
    \/ chunk = "SAck" /\ acked' = acked \cup {e} /\ UNCHANGED <<shutdown_state, send_next>>
    \/ chunk = "ShutDown" /\ PeerShutdown(e) /\ UNCHANGED acked
    \/ chunk = "ShutDownAck" /\ PeerShutdownAck(e) /\ UNCHANGED acked
    \/ chunk = "ShutDownComplete" /\ PeerShutdownComplete(e) /\ UNCHANGED acked

(* What arrives may arrive again. *)
Receive(e, chunk) ==
    /\ chunk \in net[e]
    /\ \/ net' = [net EXCEPT ![e] = @ \ {chunk}]
       \/ Roomy /\ net' = net
    /\ \/ /\ Known(e)
          /\ rx_shutdown_state' = [rx_shutdown_state EXCEPT ![e] = RxStateAfter(e, chunk)]
          /\ Notification(e, chunk)
       \/ /\ ~ Known(e)
          /\ UNCHANGED <<rx_shutdown_state, shutdown_state, send_next, acked>>
    /\ UNCHANGED <<shutdown_rto_timer, accepted, received>>

Lose(e) ==
    /\ \E chunk \in net[e] \cap Lossy : net' = [net EXCEPT ![e] = @ \ {chunk}]
    /\ UNCHANGED <<shutdown_state, rx_shutdown_state, send_next, shutdown_rto_timer,
                   accepted, received, acked>>

-----------------------------------------------------------------------------
Next ==
    \E e \in Endpoint :
        \/ TrySendData(e) \/ InitiateShutdown(e)
        \/ PollSignalToSend(e) \/ HandleShutdownRtoTimeout(e)
        \/ ReceiveData(e)
        \/ \E chunk \in Control : Receive(e, chunk)
        \/ Lose(e)

Spec == Init /\ [][Next]_vars

(***************************************************************************)
(* Fairness: the wrappers poll, timers expire, data arrives, and of a      *)
(* control chunk that is sent again and again some copy arrives.           *)
(***************************************************************************)
FairSpec ==
    /\ Spec
    /\ \A e \in Endpoint :
         /\ WF_vars(PollSignalToSend(e))
         /\ SF_vars(HandleShutdownRtoTimeout(e))
         /\ WF_vars(ReceiveData(e))
         /\ \A chunk \in Lossy : SF_vars(Receive(e, chunk))
         /\ \A chunk \in Control \ Lossy : WF_vars(Receive(e, chunk))

-----------------------------------------------------------------------------
(***************************************************************************)
(* Every variable has its type, and a message is acknowledged after it was *)
(* received, which is after it was accepted.                               *)
(***************************************************************************)
TypeOK ==
    /\ shutdown_state \in [Endpoint -> {"None", "TryingTo", "ShutdownSent", "ShutdownReceived",
                                        "ShutdownAckSent", "Complete"}]
    /\ rx_shutdown_state \in [Endpoint -> {"None", "ShutdownReceived", "Complete"}]
    /\ send_next \in [Endpoint -> Seq(Control)]
    /\ shutdown_rto_timer \in [Endpoint -> BOOLEAN]
    /\ net \in [Endpoint -> SUBSET Control]
    /\ acked \subseteq received /\ received \subseteq accepted /\ accepted \subseteq Endpoint

(***************************************************************************)
(* An endpoint finds the association completely shut down only when        *)
(* everything that try_send_data has accepted at either end has been       *)
(* received and acknowledged, and try_send_data refuses more at both ends. *)
(* Each end looks only at its own queues before it announces the shutdown. *)
(***************************************************************************)
NothingLostByClosing ==
    (\E e \in Endpoint : shutdown_state[e] = "Complete") =>
        /\ accepted \subseteq acked
        /\ \A e \in Endpoint : shutdown_state[e] # "None"

(***************************************************************************)
(* Once an endpoint has begun to shut down, both end up Complete, also     *)
(* when both begin at the same time and when SHUTDOWN and SHUTDOWN ACK are *)
(* lost or repeated ("Shut down process", README).  SHUTDOWN COMPLETE must *)
(* be polled from an endpoint that is Complete, and must arrive: the code  *)
(* repeats it only for a SHUTDOWN ACK that its wrapper still passes on.    *)
(***************************************************************************)
BothClose ==
    (\E e \in Endpoint : shutdown_state[e] # "None")
        ~> (\A e \in Endpoint : shutdown_state[e] = "Complete")
=============================================================================
