-------------------------- MODULE AssociationView --------------------------
(***************************************************************************)
(* An association as its wrappers see it: of the sending half how many     *)
(* messages and control chunks it holds, whether it has data to send and   *)
(* its shutdown state, of the receiving half how many messages can be read *)
(* and whether it is closed.  AssociationTx and AssociationRx have the     *)
(* rest; what depends on it is a choice here, so that an operation has a   *)
(* set of results.                                                         *)
(*                                                                         *)
(* A definition whose name ends in an underscore and a word is the one     *)
(* below it with a mistake planted; the specifications use none of them.   *)
(***************************************************************************)
EXTENDS Naturals, Sequences

CONSTANT OutBufferLimit    \* how many messages the sending half can hold

ASSUME ViewAssumption == OutBufferLimit \in Nat \ {0}

ShutdownState == {"None", "TryingTo", "ShutdownSent", "ShutdownReceived",
                  "ShutdownAckSent", "Complete", "AbortReceived"}

Tx == [unsent : 0 .. OutBufferLimit, outstanding : 0 .. OutBufferLimit,
       sendable : BOOLEAN,   \* whether poll_data_to_send has a chunk for an empty packet
       send_next : Nat, shutdown_state : ShutdownState]

NewTx == [unsent |-> 0, outstanding |-> 0, sendable |-> FALSE, send_next |-> 0,
          shutdown_state |-> "None"]
NewRx == [events |-> 0, closed |-> FALSE]

Buffered(x) == x.unsent + x.outstanding
Drained(x) == x.unsent = 0 /\ x.outstanding = 0
IsCompletelyShutdown(x) == x.shutdown_state \in {"Complete", "AbortReceived"}

(* poll_signal_to_send, and if it has nothing poll_data_to_send. *)
HasSignal_PeerOnly(x) == \/ x.send_next > 0
                         \/ x.shutdown_state = "ShutdownReceived" /\ Drained(x)

HasSignal(x) == \/ x.send_next > 0
                \/ x.shutdown_state \in {"TryingTo", "ShutdownReceived"} /\ Drained(x)

(***************************************************************************)
(* Whether there is data to send depends on the congestion state, the two  *)
(* windows, what is marked for retransmission and whether the next message *)
(* is one of the lengths that are neither sent nor fragmented.  All of it  *)
(* may change when a SACK is taken in, a timer expires or a chunk is sent. *)
(***************************************************************************)
May(x) == {[x EXCEPT !.sendable = b] : b \in IF Drained(x) THEN {FALSE} ELSE BOOLEAN}

HasData(x) == x.sendable

IsClosed(x) == ~HasSignal(x) /\ IsCompletelyShutdown(x)
HasChunk(x) == HasSignal(x) \/ (~IsClosed(x) /\ HasData(x))
PollsData(x) == ~HasSignal(x) /\ ~IsClosed(x) /\ HasData(x)

(* The data chunk: all that was left of a message, or a fragment of it or  *)
(* a retransmission, after which as much is unsent and outstanding.        *)
AfterPollData(x) ==
    May(x) \cup (IF x.unsent > 0 THEN May([x EXCEPT !.unsent = @ - 1, !.outstanding = @ + 1])
                 ELSE {})

AfterPoll(x) ==
    IF x.send_next > 0 THEN {[x EXCEPT !.send_next = @ - 1]}
    ELSE IF HasSignal(x)
         THEN {[x EXCEPT !.shutdown_state = IF @ = "TryingTo" THEN "ShutdownSent"
                                                              ELSE "ShutdownAckSent"]}
    ELSE AfterPollData(x)

(* try_send_data: the message is taken in, or the call fails in one of two ways. *)
Accepts(x) == x.shutdown_state = "None" /\ Buffered(x) < OutBufferLimit
BufferFull_EvenClosed(x) == Buffered(x) = OutBufferLimit
BufferFull(x) == x.shutdown_state = "None" /\ Buffered(x) = OutBufferLimit
Refuses(x) == x.shutdown_state # "None"

(* Only the message at the front of the queue is ever considered for sending. *)
AfterSend(x) == LET y == [x EXCEPT !.unsent = @ + 1]
                IN  IF x.unsent = 0 /\ ~x.sendable THEN May(y) ELSE {y}

(* What a timer does that expires: retransmission, a control chunk, or nothing. *)
AfterTimeout(x) == May(x) \cup May([x EXCEPT !.send_next = @ + 1])

(***************************************************************************)
(* AssociationRx::notification on a chunk.  DATA may complete a message    *)
(* or not; "UnorderedData" stands for DATA that completes an unordered     *)
(* one, after which assert_invariants fails.  Chunks that handle_chunk     *)
(* does not know make it panic as well.                                    *)
(***************************************************************************)
NotificationPanics(c) == c \in {"UnorderedData", "CookieEcho", "CookieAck", "OpError"}

RxAfter(r, c) ==
    CASE c = "Data" -> {r, [r EXCEPT !.events = @ + 1]}
      [] c = "UnorderedData" -> {[r EXCEPT !.events = @ + 1]}
      [] c \in {"Abort", "ShutDown", "ShutDownAck", "ShutDownComplete"} -> {[r EXCEPT !.closed = TRUE]}
      [] OTHER -> {r}

(* Whether it may queue no notification: DATA that is ignored has no SACK. *)
MayBeSilent(c) == c = "Data"

(* What the notification that it queues for the sending half does there.   *)
(* A SACK acknowledges any number of messages, and an old one none.        *)
TxAfterSack(x) == UNION {May([x EXCEPT !.outstanding = n]) : n \in 0 .. x.outstanding}

TxAfterPeerShutdown(x) ==
    CASE x.shutdown_state = "None" -> [x EXCEPT !.shutdown_state = "ShutdownReceived"]
      [] x.shutdown_state \in {"ShutdownSent", "ShutdownAckSent"} -> [x EXCEPT !.send_next = @ + 1]
      [] OTHER -> x

TxAfter(x, c) ==
    CASE c = "Data" -> {[x EXCEPT !.send_next = @ + IF x.shutdown_state = "ShutdownSent" THEN 2 ELSE 1]}
      [] c = "SAck" -> TxAfterSack(x)
      [] c = "HeartBeatAck" -> May(x)
      [] c = "ShutDown" -> {TxAfterPeerShutdown(x)}
      [] c = "ShutDownAck" -> {[x EXCEPT !.send_next = @ + 1, !.shutdown_state = "Complete"]}
      [] c = "ShutDownComplete" -> {[x EXCEPT !.shutdown_state = "Complete"]}
      [] c = "Abort" -> {[x EXCEPT !.shutdown_state = "AbortReceived"]}
      [] OTHER -> {x}

(***************************************************************************)
(* Sctp::receive_data on the chunks of a packet for a live association.    *)
(* INIT and a cookie are taken off the front, and nothing comes after INIT. *)
(* Of the others all are forwarded but those that are answered at once or  *)
(* ignored, up to an ABORT that makes the rest void.                       *)
(***************************************************************************)
Opens(p) == p[1] \in {"CookieEcho", "CookieAck"}
ToProcess(p) == IF p[1] = "Init" THEN <<>> ELSE IF Opens(p) THEN Tail(p) ELSE p
Aborts(p) == \E i \in DOMAIN ToProcess(p) : ToProcess(p)[i] = "Abort"

Forwarded(p) ==
    IF Aborts(p) THEN <<"Abort">>
    ELSE SelectSeq(ToProcess(p),
                   LAMBDA c : c \notin {"Init", "InitAck", "HeartBeat", "Padding", "Unknown"})

(* Packets that leave something behind each time they come; models bound their number. *)
Piles(p) == ~Opens(p) /\ \E i \in DOMAIN p : p[i] \in {"Init", "Data", "HeartBeat", "ShutDown", "Unknown"}

(* HEARTBEAT ACK, an error for an unknown chunk, INIT ACK. *)
Replies(p) == IF p[1] = "Init" THEN <<"Init">>
              ELSE SelectSeq(ToProcess(p), LAMBDA c : c \in {"HeartBeat", "Unknown"})
=============================================================================
