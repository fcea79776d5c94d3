---------------------------- MODULE AsyncWrapper ----------------------------
(***************************************************************************)
(* assoc_async/assoc.rs: the futures, wakers and mutexes around the core,  *)
(* on an executor with several threads.  One association is followed from  *)
(* its creation to its removal.                                            *)
(*                                                                         *)
(* There are three mutexes: InnerSctp, InnerRx and InnerTx.  They are      *)
(* taken in this order, so InnerTx is always the last one and a step that  *)
(* needs it holds it only for that step.  receive_data holds InnerSctp     *)
(* over several steps, and it and RecvFuture hold InnerRx while they wait  *)
(* for InnerTx; net and status tell who holds these two.  A thread that    *)
(* panics poisons the mutexes it holds, and lock().unwrap() panics on a    *)
(* poisoned one.                                                           *)
(*                                                                         *)
(* The core is reduced to what makes a future ready: AssociationView.      *)
(*                                                                         *)
(* A definition whose name ends in an underscore and a word is the one     *)
(* below it with a mistake planted; the specification uses none of them.   *)
(***************************************************************************)
EXTENDS AssociationView, Integers, Sequences, FiniteSets

CONSTANTS Connectors,        \* tasks that await connect
          Acceptors,         \* tasks that await accept
          ImmediateSenders,  \* tasks that await next_send_immediate in a loop
          Senders,           \* tasks that await send_data, Messages times
          Pollers,           \* tasks that await poll_chunk_to_send in a loop
          Receivers,         \* tasks that await recv_data in a loop
          Waiters,           \* tasks that await await_shutdown
          Messages,          \* how many messages a sender sends
          Packets,           \* what may arrive: sequences of kinds of chunks
          MaxPackets,        \* bound: packets that pile something up
          MaxTimeouts,       \* bound: timers that leave a control chunk behind
          MaxShutdowns       \* bound: calls of initiate_shutdown

AssocTasks == Senders \cup Pollers \cup Receivers \cup Waiters
Tasks == Connectors \cup Acceptors \cup ImmediateSenders \cup AssocTasks

(* Tasks that await different futures are different, and a packet has a first chunk. *)
ASSUME AsyncAssumption ==
    /\ (Connectors \cup Acceptors) \cap (ImmediateSenders \cup AssocTasks) = {}
    /\ ImmediateSenders \cap AssocTasks = {}
    /\ Senders \cap (Pollers \cup Receivers \cup Waiters) = {}
    /\ Pollers \cap (Receivers \cup Waiters) = {} /\ Receivers \cap Waiters = {}
    /\ \A p \in Packets : 1 \in DOMAIN p
    /\ Messages \in Nat \ {0}
    /\ MaxPackets \in Nat /\ MaxTimeouts \in Nat /\ MaxShutdowns \in Nat

VARIABLES status,          \* of each task
          wakers,          \* the six lists of wakers, each a set of tasks
          ready_assocs,    \* how many associations wait for connect or accept
          assocs,          \* whether the association is in the map of InnerSctp
          assoc_infos,     \* what the core knows of it: "none", "live", "aborted"
          send_immediate,  \* chunks for next_send_immediate
          tx,              \* the sending half
          rx,              \* the receiving half
          net,             \* where the thread in receive_data stands
          missed,          \* history: the sleepers whom a call gave something to do and did not wake
          todo,            \* how many messages each sender has left
          used             \* how much of the bounds has been used

innerVars == <<ready_assocs, assocs, assoc_infos, send_immediate>>
taskVars == <<status, wakers, missed>>
vars == <<taskVars, innerVars, tx, rx, net, todo, used>>

Queue == {"new_assoc", "send_immediate", "send", "poll", "shutdown", "recv"}

(* In receive_data: which mutexes are held, or that it has panicked with   *)
(* InnerSctp and InnerRx locked, and the notifications left.               *)
At == {"idle", "notify", "rx_locked", "remove", "remove_locked", "poisoned"}

Net == [at : At,
        tx_notifications : 0 .. 1, rx_notifications : Seq(STRING)]

Idle == [at |-> "idle", tx_notifications |-> 0, rx_notifications |-> <<>>]

Init ==
    /\ status = [t \in Tasks |-> IF t \in Acceptors \cup ImmediateSenders THEN "ready" ELSE "new"]
    /\ wakers = [q \in Queue |-> {}]
    /\ ready_assocs = 0 /\ assocs = FALSE /\ assoc_infos = "none" /\ send_immediate = <<>>
    /\ tx = NewTx /\ rx = NewRx
    /\ net = Idle /\ missed = {}
    /\ todo = [t \in Senders |-> Messages]
    /\ used = [packets |-> 0, timeouts |-> 0, shutdowns |-> 0]

-----------------------------------------------------------------------------
(***************************************************************************)
(* Tasks.  A task is "ready" if the executor is to poll it, "asleep" if    *)
(* its future returned Pending, "checked" in the middle of await_shutdown  *)
(* and "locked" when RecvFuture holds InnerRx and wants InnerTx.           *)
(***************************************************************************)
InnerFree == net.at = "idle"
RxFree == /\ net.at \notin {"rx_locked", "remove_locked", "poisoned"}
          /\ \A t \in Receivers : status[t] # "locked"

(* drain(..).for_each(Waker::wake) on the lists Q, in the state st of the tasks. *)
Woken(st, Q) == [t \in Tasks |-> IF st[t] = "asleep" /\ \E q \in Q : t \in wakers[q]
                                 THEN "ready" ELSE st[t]]

WakeAs(st, Q) == /\ status' = Woken(st, Q)
                 /\ wakers' = [q \in Queue |-> IF q \in Q THEN {} ELSE wakers[q]]
                 /\ missed' = {t \in missed : \A q \in Q : t \notin wakers[q]}

Wake(Q) == WakeAs(status, Q)

Becomes(t, s) == [status EXCEPT ![t] = s]
Asleep(T) == {t \in T : status[t] = "asleep"}

(* push(cx.waker().to_owned()), and Pending is returned. *)
SleepAs(t, q, M) == /\ wakers' = [wakers EXCEPT ![q] = @ \cup {t}]
                    /\ status' = Becomes(t, "asleep")
                    /\ missed' = missed \cup M

Sleep(t, q) == SleepAs(t, q, {})

-----------------------------------------------------------------------------
(***************************************************************************)
(* receive_data.  What the peer may send follows from what it has been     *)
(* sent: it acknowledges data and answers INIT, SHUTDOWN and SHUTDOWN ACK. *)
(***************************************************************************)
PeerMaySend(c) ==
    CASE c = "CookieEcho" -> assoc_infos = "none"
      [] c = "CookieAck" -> /\ assoc_infos = "none" /\ \E t \in Connectors : status[t] # "new"
                            /\ \A i \in DOMAIN send_immediate : send_immediate[i] # "Init"
      [] c = "ShutDownAck" -> tx.shutdown_state = "ShutdownSent"
      [] c = "ShutDownComplete" -> tx.shutdown_state = "ShutdownAckSent"
      [] OTHER -> TRUE

(* Where handle_notifications goes on; InnerSctp is released at its end. *)
GoOn(txn, rxn) == IF txn = 0 /\ rxn = <<>> THEN Idle
                  ELSE [at |-> "notify", tx_notifications |-> txn, rx_notifications |-> rxn]

ToRemove(rxn) == [at |-> "remove", tx_notifications |-> 0, rx_notifications |-> rxn]

(* A new association is put into the map and handed out. *)
NewAssoc(p) == /\ assocs' = (assocs \/ Opens(p))
               /\ ready_assocs' = IF Opens(p) THEN ready_assocs + 1 ELSE ready_assocs

(* Up to the loops over the notifications: the core takes in the packet,   *)
(* and a task is woken if there is something for it.                       *)
ReceiveData(p) ==
    LET forUs == Opens(p) \/ assoc_infos = "live"
        replies == IF p[1] = "Init" \/ forUs THEN [i \in DOMAIN Replies(p) |-> "Reply"] ELSE <<>>
        queue == IF forUs /\ Aborts(p) THEN <<>> ELSE send_immediate \o replies
        Q == (IF queue # <<>> THEN {"send_immediate"} ELSE {})
               \cup (IF Opens(p) THEN {"new_assoc"} ELSE {})
    IN  /\ InnerFree
        /\ \A i \in DOMAIN p : PeerMaySend(p[i])
        /\ used' = [used EXCEPT !.packets = IF Piles(p) THEN @ + 1 ELSE @]
        /\ used'.packets <= MaxPackets
        /\ assoc_infos' = IF forUs THEN (IF Aborts(p) THEN "aborted" ELSE "live") ELSE assoc_infos
        /\ send_immediate' = queue
        /\ NewAssoc(p)
        /\ Wake(Q)
        /\ net' = GoOn(IF p[1] = "CookieEcho" /\ ~Aborts(p) THEN 1 ELSE 0,
                       IF forUs THEN Forwarded(p) ELSE <<>>)
        /\ UNCHANGED <<tx, rx, todo>>

(* The loop over tx_notifications: the only one is to send COOKIE ACK. *)
TxNotification ==
    /\ net.at = "notify" /\ net.tx_notifications > 0
    /\ tx' = [tx EXCEPT !.send_next = @ + 1]
    /\ Wake({"poll"})
    /\ net' = IF IsCompletelyShutdown(tx') THEN ToRemove(net.rx_notifications)
              ELSE GoOn(0, net.rx_notifications)
    /\ UNCHANGED <<innerVars, rx, todo, used>>

(* Whom a chunk for the receiving half wakes, whom the notification that   *)
(* it leads to in the sending half, and whom the end of the association.   *)
RxWakes_None == {}

RxWakes == {"recv"}

ForwardWakes == {"poll", "send"}

RemovalWakes == {"send", "poll", "shutdown"}

(* The loop over rx_notifications: InnerRx is taken, and InnerTx is next,  *)
(* unless AssociationRx::notification panics.  What is left is lost then,  *)
(* and nobody has been woken.                                              *)
RxNotification ==
    /\ net.at = "notify" /\ net.tx_notifications = 0 /\ assocs /\ RxFree
    /\ rx' \in RxAfter(rx, Head(net.rx_notifications))
    /\ IF NotificationPanics(Head(net.rx_notifications))
       THEN net' = [Idle EXCEPT !.at = "poisoned"] /\ UNCHANGED taskVars
       ELSE net' = [net EXCEPT !.at = "rx_locked"] /\ Wake(RxWakes)
    /\ UNCHANGED <<innerVars, tx, todo, used>>

(* The association has been removed: self.assocs.get_mut(&id) is None. *)
DropNotification ==
    /\ net.at = "notify" /\ net.tx_notifications = 0 /\ ~assocs
    /\ net' = GoOn(0, Tail(net.rx_notifications))
    /\ UNCHANGED <<taskVars, innerVars, tx, rx, todo, used>>

(* What it has to tell the sending half, if anything. *)
Forward ==
    LET c == Head(net.rx_notifications)
    IN  \/ tx' \in TxAfter(tx, c) /\ Wake(ForwardWakes)
        \/ MayBeSilent(c) /\ UNCHANGED <<tx, taskVars>>

ForwardToTx_NoRemoval ==
    /\ net.at = "rx_locked"
    /\ Forward
    /\ net' = GoOn(0, Tail(net.rx_notifications))
    /\ UNCHANGED <<innerVars, rx, todo, used>>

(* InnerTx is taken for what the receiving half has to tell it. *)
ForwardToTx ==
    /\ net.at = "rx_locked"
    /\ Forward
    /\ net' = IF IsCompletelyShutdown(tx') THEN ToRemove(Tail(net.rx_notifications))
              ELSE GoOn(0, Tail(net.rx_notifications))
    /\ UNCHANGED <<innerVars, rx, todo, used>>

(* remove_assoc: out of the map, then InnerRx and InnerTx one after the other. *)
RemoveAssoc ==
    /\ net.at = "remove" /\ RxFree
    /\ assocs' = FALSE
    /\ Wake({"recv"})
    /\ net' = [net EXCEPT !.at = "remove_locked"]
    /\ UNCHANGED <<ready_assocs, assoc_infos, send_immediate, tx, rx, todo, used>>

RemoveAssocTx ==
    /\ net.at = "remove_locked"
    /\ Wake(RemovalWakes)
    /\ net' = GoOn(0, net.rx_notifications)
    /\ UNCHANGED <<innerVars, tx, rx, todo, used>>

-----------------------------------------------------------------------------
(***************************************************************************)
(* The futures and calls of Sctp.                                          *)
(***************************************************************************)
(* connect, before its future is polled: nobody is woken for the INIT. *)
Connect(t) ==
    /\ status[t] = "new" /\ InnerFree
    /\ send_immediate' = Append(send_immediate, "Init")
    /\ status' = Becomes(t, "ready")
    /\ missed' = missed \cup Asleep(ImmediateSenders)
    /\ UNCHANGED <<wakers, ready_assocs, assocs, assoc_infos, tx, rx, net, todo, used>>

(* ConnectFuture and AcceptFuture; the task that gets the association      *)
(* starts the others.                                                      *)
PollNewAssoc(t) ==
    /\ status[t] = "ready" /\ InnerFree
    /\ IF ready_assocs > 0
       THEN /\ ready_assocs' = ready_assocs - 1
            /\ status' = [u \in Tasks |-> IF u = t THEN "done"
                                         ELSE IF u \in AssocTasks THEN "ready" ELSE status[u]]
            /\ UNCHANGED <<wakers, missed>>
       ELSE Sleep(t, "new_assoc") /\ UNCHANGED ready_assocs
    /\ UNCHANGED <<assocs, assoc_infos, send_immediate, tx, rx, net, todo, used>>

NextSendImmediate(t) ==
    /\ status[t] = "ready" /\ InnerFree
    /\ IF send_immediate # <<>>
       THEN send_immediate' = Tail(send_immediate) /\ UNCHANGED taskVars
       ELSE Sleep(t, "send_immediate") /\ UNCHANGED send_immediate
    /\ UNCHANGED <<ready_assocs, assocs, assoc_infos, tx, rx, net, todo, used>>

-----------------------------------------------------------------------------
(***************************************************************************)
(* The futures and calls of the two halves.                                *)
(***************************************************************************)
SendDataWakes == {"poll"}

SendData(t) ==
    /\ status[t] = "ready"
    /\ \/ /\ Refuses(tx)
          /\ status' = Becomes(t, "done")
          /\ UNCHANGED <<wakers, missed, tx, todo>>
       \/ /\ Accepts(tx)
          /\ tx' \in AfterSend(tx)
          /\ todo' = [todo EXCEPT ![t] = @ - 1]
          /\ WakeAs(Becomes(t, IF todo[t] = 1 THEN "done" ELSE "ready"), SendDataWakes)
       \/ /\ BufferFull(tx)
          /\ Sleep(t, "send")
          /\ UNCHANGED <<tx, todo>>
    /\ UNCHANGED <<innerVars, rx, net, used>>

(* PollFuture. *)
PollChunkToSend(t) ==
    /\ status[t] = "ready"
    /\ \/ /\ HasChunk(tx)
          /\ tx' \in AfterPoll(tx)
          /\ Wake(IF PollsData(tx) THEN {"send"} ELSE {})
       \/ /\ IsClosed(tx)
          /\ WakeAs(Becomes(t, "done"), {"send"})
          /\ UNCHANGED tx
       \/ /\ ~HasChunk(tx) /\ ~IsClosed(tx)
          /\ Sleep(t, "poll")
          /\ UNCHANGED tx
    /\ UNCHANGED <<innerVars, rx, net, todo, used>>

(* try_poll_chunk_to_send, with which the sending task fills up a packet. *)
TryPollChunkToSend(t) ==
    /\ status[t] = "ready" /\ HasChunk(tx)
    /\ tx' \in AfterPoll(tx)
    /\ UNCHANGED <<taskVars, innerVars, rx, net, todo, used>>

(* handle_timeout, called by the task that sends. *)
HandleTimeout ==
    /\ \E t \in Pollers : status[t] \in {"ready", "asleep"}
    /\ tx' \in AfterTimeout(tx)
    /\ used' = [used EXCEPT !.timeouts = @ + tx'.send_next - tx.send_next]
    /\ used'.timeouts <= MaxTimeouts
    /\ Wake({"poll"})
    /\ UNCHANGED <<innerVars, rx, net, todo>>

(* RecvFuture: InnerRx is taken, and for a message InnerTx as well.  What  *)
(* it forwards to the sending half is empty: receive_data, which filled    *)
(* it, has also drained it before it released InnerRx.                     *)
RecvData(t) ==
    /\ status[t] = "ready" /\ RxFree
    /\ \/ /\ rx.closed
          /\ status' = Becomes(t, "done") /\ UNCHANGED <<wakers, missed, rx>>
       \/ /\ ~rx.closed /\ rx.events > 0
          /\ rx' = [rx EXCEPT !.events = @ - 1]
          /\ status' = Becomes(t, "locked") /\ UNCHANGED <<wakers, missed>>
       \/ /\ ~rx.closed /\ rx.events = 0
          /\ Sleep(t, "recv") /\ UNCHANGED rx
    /\ UNCHANGED <<innerVars, tx, net, todo, used>>

RecvDataTx(t) ==
    /\ status[t] = "locked"
    /\ status' = Becomes(t, "ready")
    /\ UNCHANGED <<wakers, missed, innerVars, tx, rx, net, todo, used>>

AwaitShutdown_NotAborted(t) ==
    /\ status[t] = "ready"
    /\ status' = Becomes(t, IF tx.shutdown_state = "Complete" THEN "done" ELSE "checked")
    /\ UNCHANGED <<wakers, missed, innerVars, tx, rx, net, todo, used>>

(* WaitForShutdownFuture looks under one lock ... *)
AwaitShutdown(t) ==
    /\ status[t] = "ready"
    /\ status' = Becomes(t, IF IsCompletelyShutdown(tx) THEN "done" ELSE "checked")
    /\ UNCHANGED <<wakers, missed, innerVars, tx, rx, net, todo, used>>

(* ... and registers under another. *)
AwaitShutdownRegister(t) ==
    /\ status[t] = "checked"
    /\ SleepAs(t, "shutdown", IF IsCompletelyShutdown(tx) THEN {t} ELSE {})
    /\ UNCHANGED <<innerVars, tx, rx, net, todo, used>>

(* initiate_shutdown on a handle of the association, which wakes nobody,   *)
(* or shutdown_all_connections.                                            *)
HasHandle == \E t \in Connectors \cup Acceptors : status[t] = "done"

InitiateShutdown ==
    /\ HasHandle \/ (InnerFree /\ assocs)
    /\ used.shutdowns < MaxShutdowns
    /\ used' = [used EXCEPT !.shutdowns = @ + 1]
    /\ tx' = [tx EXCEPT !.shutdown_state = "TryingTo"]
    /\ missed' = missed \cup Asleep(Senders) \cup (IF Drained(tx) THEN Asleep(Pollers) ELSE {})
    /\ UNCHANGED <<status, wakers, innerVars, rx, net, todo>>

(* lock().unwrap() on InnerSctp or InnerRx after the panic. *)
LockPoisoned(t) ==
    /\ net.at = "poisoned"
    /\ status[t] = "ready" \/ (t \in Connectors /\ status[t] = "new")
    /\ status' = Becomes(t, "panicked")
    /\ UNCHANGED <<wakers, missed, innerVars, tx, rx, net, todo, used>>

-----------------------------------------------------------------------------
HandleNotifications == \/ TxNotification \/ RxNotification \/ DropNotification
                       \/ ForwardToTx \/ RemoveAssoc \/ RemoveAssocTx

Next == \/ \E p \in Packets : ReceiveData(p)
        \/ HandleNotifications
        \/ \E t \in Connectors : Connect(t)
        \/ \E t \in Connectors \cup Acceptors : PollNewAssoc(t)
        \/ \E t \in ImmediateSenders : NextSendImmediate(t)
        \/ \E t \in Senders : SendData(t)
        \/ \E t \in Pollers : PollChunkToSend(t) \/ TryPollChunkToSend(t)
        \/ HandleTimeout
        \/ \E t \in Receivers : RecvData(t) \/ RecvDataTx(t)
        \/ \E t \in Waiters : AwaitShutdown(t) \/ AwaitShutdownRegister(t)
        \/ InitiateShutdown
        \/ \E t \in Tasks \ (Senders \cup Pollers \cup Waiters) : LockPoisoned(t)

Spec == Init /\ [][Next]_vars

(* The executor polls the tasks of the sending half that were woken,       *)
(* mutexes are obtained, and timers that expire are handled: at least the  *)
(* one for heartbeats is always running.  Nothing is assumed of packets    *)
(* and of the other tasks.                                                 *)
Fairness ==
    /\ WF_vars(HandleNotifications)
    /\ \A t \in Senders : WF_vars(SendData(t))
    /\ \A t \in Pollers : WF_vars(PollChunkToSend(t))
    /\ \A t \in Receivers : WF_vars(RecvDataTx(t))
    /\ \A t \in Waiters : WF_vars(AwaitShutdown(t) \/ AwaitShutdownRegister(t))
    /\ WF_vars(HandleTimeout)

FairSpec == Spec /\ Fairness

-----------------------------------------------------------------------------
TypeOK ==
    /\ status \in [Tasks -> {"new", "ready", "asleep", "checked", "locked", "done",
                             "panicked"}]
    /\ wakers \in [Queue -> SUBSET Tasks] /\ missed \subseteq Asleep(Tasks)
    /\ ready_assocs \in 0 .. 1 /\ assocs \in BOOLEAN
    /\ assoc_infos \in {"none", "live", "aborted"}
    /\ \A i \in DOMAIN send_immediate : send_immediate[i] \in {"Init", "Reply"}
    /\ tx \in Tx /\ Buffered(tx) <= OutBufferLimit /\ (HasData(tx) => ~Drained(tx))
    /\ rx.events \in Nat /\ rx.closed \in BOOLEAN
    /\ net.at \in At

(***************************************************************************)
(* No wake-up is lost: a future that returned Pending would return Pending *)
(* again if it were polled now, so whatever made it ready has woken it, or *)
(* for await_shutdown is about to.  The code wakes nobody in the cases     *)
(* that missed records: next_send_immediate when connect queues an INIT    *)
(* (assoc.rs:98), send_data when initiate_shutdown makes it fail and       *)
(* poll_chunk_to_send when that makes SHUTDOWN due (assoc.rs:381), and     *)
(* await_shutdown that registers after the shutdown it has not seen        *)
(* (assoc.rs:364).  And a message whose arrival makes receive_data panic   *)
(* wakes nobody, but recv_data would panic now.                            *)
(***************************************************************************)
NoLostWakeup ==
    \A t \in Asleep(Tasks) \ missed :
        /\ t \in Receivers => net.at = "poisoned" \/ (rx.events = 0 /\ ~rx.closed)
        /\ t \in Senders => BufferFull(tx)
        /\ t \in Pollers => ~HasChunk(tx) /\ ~IsClosed(tx)
        /\ t \in Waiters => ~IsCompletelyShutdown(tx) \/ net.at \in {"remove", "remove_locked"}
        /\ t \in Connectors \cup Acceptors => ready_assocs = 0
        /\ t \in ImmediateSenders => send_immediate = <<>>

(***************************************************************************)
(* What has_assocs_left reports: whenever InnerSctp is free, the map holds *)
(* no association that is completely shut down.                            *)
(***************************************************************************)
MapHoldsOnlyOpen == InnerFree /\ assocs => ~IsCompletelyShutdown(tx)

(***************************************************************************)
(* send_data does not sleep through free space: if again and again the     *)
(* buffer has space or the association is completely shut down, every      *)
(* send_data returns, with the message accepted or with an error.  That    *)
(* space becomes free is a hypothesis, because the code does not see to    *)
(* it: a SACK that is lost is not repeated (rx.rs:361), a window may stay  *)
(* closed and a message may have a length that is never sent (tx.rs:570).  *)
(***************************************************************************)
SendReturns ==
    []<>(Buffered(tx) < OutBufferLimit \/ IsCompletelyShutdown(tx))
        => \A t \in Senders : (status[t] # "new") ~> (status[t] = "done")

(***************************************************************************)
(* A shutdown that the application requests is carried out once everything *)
(* is acknowledged, whether that is already so at the request, which wakes *)
(* nobody, or later.  That it is acknowledged some day is a hypothesis, as *)
(* in SendReturns.                                                         *)
(***************************************************************************)
ShutdownFollowsData ==
    []<>Drained(tx)
        => (tx.shutdown_state = "TryingTo" /\ assocs /\ HasHandle)
               ~> (tx.shutdown_state # "TryingTo" \/ ~assocs)

(***************************************************************************)
(* An await_shutdown that is registered when the association has been shut *)
(* down and is about to be removed returns (unless initiate_shutdown makes *)
(* the state fall back to TryingTo).                                       *)
(***************************************************************************)
RegisteredWaiterReturns ==
    \A t \in Waiters : (t \in wakers["shutdown"] /\ assocs /\ IsCompletelyShutdown(tx))
                           ~> (status[t] = "done" \/ ~IsCompletelyShutdown(tx))
=============================================================================
