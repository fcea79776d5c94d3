----------------------------- MODULE SyncWrapper -----------------------------
(***************************************************************************)
(* assoc_sync/assoc.rs: threads, mutexes and condition variables around    *)
(* the core.  One association is followed from its creation on; the sync   *)
(* wrapper never forgets it.                                               *)
(*                                                                         *)
(* There are three mutexes, each with a condition variable: InnerSctp, the *)
(* sending half and the receiving half.  Only handle_notifications takes   *)
(* one while it holds another, in this order; every other critical section *)
(* is one step.  A thread that panics poisons the mutexes it holds, and    *)
(* lock().unwrap() and wait().unwrap() panic on a poisoned one.            *)
(*                                                                         *)
(* Time is abstracted: wait_timeout may return at any moment.  The code    *)
(* passes it now - timeout.at(), so it returns at once until the deadline. *)
(*                                                                         *)
(* A definition whose name ends in an underscore and a word is the one     *)
(* below it with a mistake planted; the specification uses none of them.   *)
(***************************************************************************)
EXTENDS AssociationView, FiniteSets

CONSTANTS Main,           \* the thread that new spawns
          Nets,           \* threads that call receive_data in a loop
          Connectors,     \* threads that call connect
          Acceptors,      \* threads that call accept
          Killers,        \* threads that call kill
          Senders,        \* threads that call send_data, Messages times
          Pollers,        \* threads that call poll_chunk_to_send in a loop
          Receivers,      \* threads that call recv_data in a loop
          Messages,       \* how many messages a sender sends
          Packets,        \* what may arrive: sequences of kinds of chunks
          MaxPackets,     \* bound: packets that pile something up
          MaxTimeouts,    \* bound: timers that leave a control chunk behind
          MaxCbErrors     \* bound: errors that a send callback returns

TxThreads == Senders \cup Pollers
AssocThreads == TxThreads \cup Receivers
InnerThreads == {Main} \cup Connectors \cup Acceptors
Threads == InnerThreads \cup AssocThreads \cup Nets \cup Killers

ASSUME SyncAssumption ==
    Messages \in Nat \ {0} /\ MaxPackets \in Nat /\ MaxTimeouts \in Nat /\ MaxCbErrors \in Nat

VARIABLES status,          \* of each thread
          poisoned,        \* the mutexes that are poisoned
          holder,          \* the threads in the middle of handle_notifications: at most one
          notifications,   \* what is left for it to pass on
          ready_assocs,    \* how many associations wait for connect or accept
          assoc_infos,     \* what the core knows of the association: "none", "live", "aborted"
          send_immediate,  \* how many chunks the core wants to be sent
          send_cb,         \* whether the address of the peer has a callback
          done,            \* set by kill
          tx, rx,          \* the two halves
          todo,            \* how many messages each sender has left
          used             \* how much of the bounds has been used

innerVars == <<ready_assocs, assoc_infos, send_immediate, send_cb, done>>
notifyVars == <<holder, notifications>>
vars == <<status, poisoned, notifyVars, innerVars, tx, rx, todo, used>>

Init ==
    /\ status = [t \in Threads |-> IF t \in {Main} \cup Nets THEN "running" ELSE "new"]
    /\ poisoned = {} /\ holder = {} /\ notifications = <<>>
    /\ ready_assocs = 0 /\ assoc_infos = "none" /\ send_immediate = 0 /\ send_cb = FALSE
    /\ done = FALSE /\ tx = NewTx /\ rx = NewRx
    /\ todo = [t \in Senders |-> Messages]
    /\ used = [packets |-> 0, timeouts |-> 0, cb_errors |-> 0]

-----------------------------------------------------------------------------
Becomes(t, s) == [status EXCEPT ![t] = s]

(* notify_all for the condition variable on which the threads of W wait. *)
NotifyAs(st, W) == [t \in Threads |-> IF t \in W /\ st[t] = "waiting" THEN "running" ELSE st[t]]
Notify(W) == NotifyAs(status, W)

Panics(t, held) ==
    /\ status' = Becomes(t, "panicked")
    /\ poisoned' = poisoned \cup held

(* lock(): the mutex is free; on a poisoned one unwrap panics. *)
LockInner == holder = {}
FailsToLock(t, mutex) ==
    /\ mutex \in poisoned
    /\ Panics(t, {})
    /\ UNCHANGED <<notifyVars, innerVars, tx, rx, todo, used>>

-----------------------------------------------------------------------------
(***************************************************************************)
(* receive_data.  What the peer may send follows from what it has been     *)
(* sent.                                                                   *)
(***************************************************************************)
PeerMaySend(c) ==
    CASE c = "CookieEcho" -> assoc_infos = "none"
      [] c = "CookieAck" -> /\ assoc_infos = "none" /\ send_immediate = 0
                            /\ \E t \in Connectors : status[t] # "new"
      [] c = "ShutDownAck" -> tx.shutdown_state = "ShutdownSent"
      [] c = "ShutDownComplete" -> tx.shutdown_state \in {"ShutdownAckSent", "Complete"}
      [] OTHER -> TRUE

(* The loop over send_immediate: it hands all of them to their callback,   *)
(* or panics at an error of it.                                            *)
CallbackFails(n) ==
    /\ n > 0 /\ send_cb /\ used.cb_errors < MaxCbErrors
    /\ used' = [used EXCEPT !.cb_errors = @ + 1]
    /\ send_immediate' = 0

(* The core takes in the packet; handle_notifications, up to its loops     *)
(* over the notifications.  An ABORT voids what was queued before it.      *)
ReceiveData(t, p) ==
    LET forUs == Opens(p) \/ assoc_infos = "live"
        aborted == forUs /\ Aborts(p)
        replies == IF p[1] = "Init" \/ forUs THEN Len(Replies(p)) ELSE 0
    IN  /\ status[t] = "running" /\ LockInner /\ "inner" \notin poisoned
        /\ \A i \in DOMAIN p : PeerMaySend(p[i])
        /\ Piles(p) => used.packets < MaxPackets
        /\ assoc_infos' = IF forUs THEN (IF aborted THEN "aborted" ELSE "live") ELSE assoc_infos
        /\ ready_assocs' = IF Opens(p) THEN ready_assocs + 1 ELSE ready_assocs
        /\ \/ /\ CallbackFails(IF aborted THEN 0 ELSE send_immediate + replies)
              /\ Panics(t, {"inner"})
              /\ UNCHANGED notifyVars
           \/ /\ send_immediate' = 0
              /\ used' = [used EXCEPT !.packets = IF Piles(p) THEN @ + 1 ELSE @]
              /\ holder' = {t}
              /\ notifications' = (IF p[1] = "CookieEcho" /\ ~aborted THEN <<"SendCookieAck">> ELSE <<>>)
                                    \o (IF forUs THEN Forwarded(p) ELSE <<>>)
              /\ status' = Becomes(t, "handling")
              /\ UNCHANGED poisoned
        /\ UNCHANGED <<send_cb, done, tx, rx, todo>>

(* Who is notified of a notification for the sending half, and of a chunk  *)
(* for the receiving half.                                                 *)
TxSignal == TxThreads

RxSignal == Receivers

(***************************************************************************)
(* One notification.  The first may be one for the sending half, to send   *)
(* COOKIE ACK; the others are for the receiving half, which may have       *)
(* something to tell the sending half then, so that both mutexes are       *)
(* taken.  AssociationRx::notification may panic with all three locked.    *)
(***************************************************************************)
CookieAckNotification(t) ==
    /\ Head(notifications) = "SendCookieAck"
    /\ tx' = [tx EXCEPT !.send_next = @ + 1]
    /\ status' = Notify(TxSignal)
    /\ notifications' = Tail(notifications)
    /\ UNCHANGED <<rx, poisoned, holder>>

ChunkNotification(t) ==
    LET c == Head(notifications)
    IN  /\ c # "SendCookieAck"
        /\ rx' \in RxAfter(rx, c)
        /\ \/ /\ NotificationPanics(c)
              /\ Panics(t, {"inner", "tx", "rx"})
              /\ holder' = {}
              /\ UNCHANGED <<notifications, tx>>
           \/ /\ ~NotificationPanics(c)
              /\ \/ tx' \in TxAfter(tx, c) /\ status' = Notify(RxSignal \cup TxSignal)
                 \/ MayBeSilent(c) /\ UNCHANGED tx /\ status' = Notify(RxSignal)
              /\ notifications' = Tail(notifications)
              /\ UNCHANGED <<poisoned, holder>>

Notification(t) ==
    /\ status[t] = "handling" /\ notifications # <<>>
    /\ \/ /\ "tx" \in poisoned
          /\ Panics(t, {"inner"})
          /\ holder' = {}
          /\ UNCHANGED <<notifications, tx, rx>>
       \/ "tx" \notin poisoned /\ (CookieAckNotification(t) \/ ChunkNotification(t))
    /\ UNCHANGED <<innerVars, todo, used>>

(* The mutex is released, and only then the threads are notified. *)
Unlock(t) ==
    /\ status[t] = "handling" /\ notifications = <<>>
    /\ holder' = {}
    /\ status' = Becomes(t, "notifying")
    /\ UNCHANGED <<poisoned, notifications, innerVars, tx, rx, todo, used>>

NotifyAll_First(t) ==
    /\ status[t] = "notifying"
    /\ \E w \in InnerThreads :
         status' = NotifyAs(Becomes(t, IF t \in Nets THEN "running" ELSE "done"), {w})
    /\ UNCHANGED <<poisoned, notifyVars, innerVars, tx, rx, todo, used>>

NotifyAll(t) ==
    /\ status[t] = "notifying"
    /\ status' = NotifyAs(Becomes(t, IF t \in Nets THEN "running" ELSE "done"), InnerThreads)
    /\ UNCHANGED <<poisoned, notifyVars, innerVars, tx, rx, todo, used>>

-----------------------------------------------------------------------------
(***************************************************************************)
(* The other threads that use InnerSctp.                                   *)
(***************************************************************************)
(* main_loop: receive_data has left it nothing but the INIT of connect. *)
MainLoop ==
    /\ status[Main] = "running" /\ LockInner /\ "inner" \notin poisoned
    /\ \/ /\ done
          /\ status' = Becomes(Main, "done")
          /\ UNCHANGED <<poisoned, send_immediate, used>>
       \/ /\ ~ done /\ CallbackFails(send_immediate)
          /\ Panics(Main, {"inner"})
       \/ /\ ~ done /\ send_immediate' = 0
          /\ status' = Becomes(Main, "waiting")
          /\ UNCHANGED <<poisoned, used>>
    /\ UNCHANGED <<notifyVars, ready_assocs, assoc_infos, send_cb, done, tx, rx, todo>>

(* The loop of connect and accept, with the threads in the state st.  The  *)
(* thread that gets the association starts the others.                     *)
TakeAssoc(t, st) ==
    IF ready_assocs > 0
    THEN /\ ready_assocs' = ready_assocs - 1
         /\ status' = [u \in Threads |-> IF u = t THEN "done"
                                        ELSE IF u \in AssocThreads THEN "running" ELSE st[u]]
    ELSE /\ status' = [st EXCEPT ![t] = "waiting"]
         /\ UNCHANGED ready_assocs

Connect(t) ==
    /\ status[t] = "new" /\ LockInner /\ "inner" \notin poisoned
    /\ send_immediate' = send_immediate + 1
    /\ TakeAssoc(t, Notify(InnerThreads))
    /\ UNCHANGED <<poisoned, notifyVars, assoc_infos, send_cb, done, tx, rx, todo, used>>

Accept(t) ==
    /\ status[t] = "running" \/ (t \in Acceptors /\ status[t] = "new")
    /\ LockInner /\ "inner" \notin poisoned
    /\ TakeAssoc(t, status)
    /\ UNCHANGED <<poisoned, notifyVars, assoc_infos, send_immediate, send_cb, done, tx, rx, todo,
                   used>>

Kill(t) ==
    /\ status[t] = "new" /\ LockInner /\ "inner" \notin poisoned
    /\ done' = TRUE
    /\ status' = Becomes(t, "notifying")
    /\ UNCHANGED <<poisoned, notifyVars, ready_assocs, assoc_infos, send_immediate, send_cb, tx, rx,
                   todo, used>>

RegisterAddress ==
    /\ LockInner /\ "inner" \notin poisoned
    /\ send_cb' = TRUE
    /\ UNCHANGED <<status, poisoned, notifyVars, ready_assocs, assoc_infos, send_immediate, done,
                   tx, rx, todo, used>>

-----------------------------------------------------------------------------
(***************************************************************************)
(* The threads that use one half.                                          *)
(***************************************************************************)
SendData(t) ==
    /\ status[t] = "running" /\ "tx" \notin poisoned
    /\ \/ /\ Refuses(tx)
          /\ status' = Becomes(t, "done")
          /\ UNCHANGED <<tx, todo>>
       \/ /\ Accepts(tx)
          /\ tx' \in AfterSend(tx)
          /\ todo' = [todo EXCEPT ![t] = @ - 1]
          /\ status' = NotifyAs(Becomes(t, IF todo[t] = 1 THEN "done" ELSE "running"), TxThreads)
       \/ /\ BufferFull(tx)
          /\ status' = Becomes(t, "waiting")
          /\ UNCHANGED <<tx, todo>>
    /\ UNCHANGED <<poisoned, notifyVars, innerVars, rx, used>>

PanicsOn_Draining(x) == IsClosed(x) \/ x.shutdown_state = "ShutdownAckSent"
PanicsOn(x) == IsClosed(x)

PollChunkToSend(t) ==
    /\ status[t] = "running" /\ "tx" \notin poisoned
    /\ \/ /\ HasChunk(tx)
          /\ tx' \in AfterPoll(tx)
          /\ UNCHANGED <<status, poisoned>>
       \/ /\ ~ HasChunk(tx) /\ PanicsOn(tx)
          /\ Panics(t, {"tx"})
          /\ UNCHANGED tx
       \/ /\ ~ HasChunk(tx) /\ ~ PanicsOn(tx)
          /\ status' = Becomes(t, "waiting")
          /\ UNCHANGED <<poisoned, tx>>
    /\ UNCHANGED <<notifyVars, innerVars, rx, todo, used>>

(* wait_timeout has timed out: handle_timeout, and round the loop again. *)
TimedOut(t) ==
    /\ status[t] = "waiting" /\ "tx" \notin poisoned
    /\ tx' \in AfterTimeout(tx)
    /\ used' = [used EXCEPT !.timeouts = @ + tx'.send_next - tx.send_next]
    /\ used'.timeouts <= MaxTimeouts
    /\ status' = Becomes(t, "running")
    /\ UNCHANGED <<poisoned, notifyVars, innerVars, rx, todo>>

RecvData(t) ==
    /\ status[t] = "running" /\ "rx" \notin poisoned
    /\ \/ /\ rx.closed
          /\ status' = Becomes(t, "done") /\ UNCHANGED rx
       \/ /\ ~ rx.closed /\ rx.events > 0
          /\ rx' = [rx EXCEPT !.events = @ - 1] /\ UNCHANGED status
       \/ /\ ~ rx.closed /\ rx.events = 0
          /\ status' = Becomes(t, "waiting") /\ UNCHANGED rx
    /\ UNCHANGED <<poisoned, notifyVars, innerVars, tx, todo, used>>

(* The mutex a thread is about to lock, be it in a call or at the end of a *)
(* wait.  Nobody notifies those who wait for a mutex that is poisoned, but *)
(* the wait of a poller ends by itself.                                    *)
Wants(t) == CASE t \in TxThreads -> "tx" [] t \in Receivers -> "rx" [] OTHER -> "inner"

LockPoisoned(t) ==
    /\ \/ status[t] = "running" \/ (status[t] = "new" /\ t \notin AssocThreads)
       \/ status[t] = "waiting" /\ t \in Pollers
    /\ FailsToLock(t, Wants(t))

-----------------------------------------------------------------------------
HandleNotifications(t) == Notification(t) \/ Unlock(t)

Next ==
    \/ \E t \in Nets : HandleNotifications(t) \/ \E p \in Packets : ReceiveData(t, p)
    \/ \E t \in Nets \cup Killers : NotifyAll(t)
    \/ MainLoop
    \/ \E t \in Connectors : Connect(t)
    \/ \E t \in Connectors \cup Acceptors : Accept(t)
    \/ \E t \in Killers : Kill(t)
    \/ RegisterAddress
    \/ \E t \in Senders : SendData(t)
    \/ \E t \in Pollers : PollChunkToSend(t) \/ TimedOut(t)
    \/ \E t \in Receivers : RecvData(t)
    \/ \E t \in Threads : LockPoisoned(t)

Spec == Init /\ [][Next]_vars

(***************************************************************************)
(* Fairness: threads that can go on do so, in particular they obtain the   *)
(* mutexes they wait for.  Nothing is assumed of timers and of packets.    *)
(***************************************************************************)
FairSpec ==
    /\ Spec
    /\ \A t \in Nets : WF_vars(HandleNotifications(t)) /\ WF_vars(NotifyAll(t))
    /\ \A t \in Senders : WF_vars(SendData(t))
    /\ \A t \in Pollers : WF_vars(PollChunkToSend(t))
    /\ \A t \in TxThreads : WF_vars(LockPoisoned(t))

-----------------------------------------------------------------------------
(* Every variable has its type, and at most one thread holds InnerSctp over steps. *)
TypeOK ==
    /\ status \in [Threads -> {"new", "running", "waiting", "handling", "notifying", "done",
                               "panicked"}]
    /\ poisoned \subseteq {"inner", "tx", "rx"}
    /\ holder = {t \in Threads : status[t] = "handling"} /\ Cardinality(holder) <= 1
    /\ ready_assocs \in 0 .. 1
    /\ assoc_infos \in {"none", "live", "aborted"} /\ send_immediate \in Nat
    /\ tx \in Tx /\ rx.events \in Nat /\ rx.closed \in BOOLEAN

Notifying == holder # {} \/ \E t \in Nets \cup Killers : status[t] = "notifying"

(***************************************************************************)
(* No notification is lost: a thread that waits for a condition variable   *)
(* would wait again if it looked now.  For InnerSctp this holds up to the  *)
(* notify_all that receive_data and kill owe after they release the mutex, *)
(* and for InnerSctp and the receiving half unless a panic has kept        *)
(* receive_data from it.  One thread only may call poll_chunk_to_send: it  *)
(* notifies nobody, be it of what its timer has left to send.              *)
(***************************************************************************)
NoLostWakeup ==
    \A t \in Threads : status[t] = "waiting" =>
        /\ t \in Receivers => "rx" \in poisoned \/ (rx.events = 0 /\ ~ rx.closed)
        /\ t \in Senders => BufferFull(tx)
        /\ t \in Pollers => ~ HasChunk(tx) /\ ~ IsClosed(tx)
        /\ t \in InnerThreads /\ "inner" \notin poisoned /\ ~ Notifying =>
             IF t = Main THEN ~ done /\ send_immediate = 0 ELSE ready_assocs = 0

(***************************************************************************)
(* Where panics come from.  The mutex of the receiving half is poisoned    *)
(* only together with the other two, by a chunk on which                   *)
(* AssociationRx::notification panics (assoc.rs:195); that of the sending  *)
(* half else only by poll_chunk_to_send on an association that is closed   *)
(* for good; and that of InnerSctp else only by a packet for an            *)
(* association whose sending half is poisoned, or by an error of a send    *)
(* callback.                                                               *)
(***************************************************************************)
PanicHasCause ==
    /\ "rx" \in poisoned => /\ {"inner", "tx"} \subseteq poisoned
                            /\ notifications # <<>> /\ NotificationPanics(Head(notifications))
    /\ "tx" \in poisoned => IsClosed(tx) \/ "rx" \in poisoned
    /\ "inner" \in poisoned => "tx" \in poisoned \/ used.cb_errors > 0

(***************************************************************************)
(* send_data does not sleep through free space: if again and again the     *)
(* buffer has space or the association is completely shut down, every      *)
(* send_data returns or panics, unless a panic has stopped receive_data    *)
(* for good.  That space becomes free is a hypothesis, because the code    *)
(* does not see to it: a SACK that is lost is not repeated (rx.rs:361), a  *)
(* window may stay closed and a message may have a length that is never    *)
(* sent (tx.rs:570).                                                       *)
(***************************************************************************)
SendReturns ==
    []<>(Buffered(tx) < OutBufferLimit \/ IsCompletelyShutdown(tx))
        => \A t \in Senders : status[t] \in {"running", "waiting"}
                                 ~> status[t] \in {"done", "panicked"} \/ "inner" \in poisoned
=============================================================================
