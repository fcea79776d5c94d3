-------------------------- MODULE WrapperProofs ---------------------------
(***************************************************************************)
(* The two wrappers around the core: no wake-up is lost and no mutex is    *)
(* poisoned without a cause, for any number of tasks and threads.          *)
(*                                                                         *)
(* First the futures and wakers of AsyncWrapper, then the threads and      *)
(* condition variables of SyncWrapper.  The argument is the same: whoever  *)
(* changes what a sleeper waits for wakes it in the same step, or holds    *)
(* on to the obligation to do so (Follows, StillOwed).                     *)
(***************************************************************************)
EXTENDS AsyncWrapper, TLAPS

(* What a task that sleeps has found. *)
NothingToRead(r) == r.events = 0 /\ ~ r.closed
ReadsNothing == net.at = "poisoned" \/ NothingToRead(rx)
NothingToSend(x) == ~ HasChunk(x) /\ ~ IsClosed(x)
Waits == ~ IsCompletelyShutdown(tx) \/ net.at \in {"remove", "remove_locked"}

(* A task that sleeps is in the list of wakers of what it has found, and it has found
   what is still so, unless it is one that was missed. *)
Sound(t) ==
    /\ t \in Receivers => t \in wakers["recv"] /\ ReadsNothing
    /\ t \in Senders => t \in wakers["send"] /\ (t \in missed \/ BufferFull(tx))
    /\ t \in Pollers => t \in wakers["poll"] /\ (t \in missed \/ NothingToSend(tx))
    /\ t \in Waiters => t \in wakers["shutdown"] /\ (t \in missed \/ Waits)
    /\ t \in Connectors \cup Acceptors => t \in wakers["new_assoc"] /\ ready_assocs = 0
    /\ t \in ImmediateSenders => /\ t \in wakers["send_immediate"]
                                 /\ (t \in missed \/ send_immediate = <<>>)

(* The sending half, with less said about its fields than in Tx. *)
ShapeOf(x) ==
    /\ x = [unsent |-> x.unsent, outstanding |-> x.outstanding, sendable |-> x.sendable,
            send_next |-> x.send_next, shutdown_state |-> x.shutdown_state]
    /\ x.unsent \in Int /\ x.outstanding \in Int /\ x.send_next \in Nat

Registered ==
    /\ status = [t \in Tasks |-> status[t]] /\ wakers = [q \in Queue |-> wakers[q]]
    /\ ShapeOf(tx) /\ ready_assocs \in Nat
    /\ \A t \in Tasks : status[t] = "asleep" => Sound(t)

IsNet(n) == n = [at |-> n.at, tx_notifications |-> n.tx_notifications,
                 rx_notifications |-> n.rx_notifications]
NetOK == IsNet(net)

(* The association is in the map until it is removed, and once it is known to the core
   it is not made again. *)
Removal ==
    /\ assocs /\ IsCompletelyShutdown(tx) => net.at = "remove"
    /\ assoc_infos = "none" => net.at = "idle" /\ ~ IsCompletelyShutdown(tx)

(* u sleeps on: it was not in any of the lists of Q. *)
Kept(u, Q) ==
    /\ status[u] = "asleep" /\ (u \in missed => u \in missed')
    /\ \A q \in Queue : u \in wakers[q] => q \notin Q /\ u \in wakers'[q]

AllKept(Q) == \A u \in Tasks : status'[u] = "asleep" => Kept(u, Q)
AllKeptBut(t, Q) == \A u \in Tasks : status'[u] = "asleep" => u = t \/ Kept(u, Q)

Tables == status = [t \in Tasks |-> status[t]] /\ wakers = [q \in Queue |-> wakers[q]]

(* Draining lists of wakers leaves asleep only those who were not in them. *)
LEMMA WakeKeeps ==
    ASSUME Tables, NEW st, NEW Q, WakeAs(st, Q),
           \A u \in Tasks : st[u] = "asleep" => status[u] = "asleep"
    PROVE  Tables' /\ AllKept(Q)
BY DEF Tables, WakeAs, Woken, Kept, AllKept

(* A future that returns Pending is in the list it was added to; the others are as before. *)
LEMMA SleepKeeps ==
    ASSUME Tables, NEW t \in Tasks, NEW q \in Queue, NEW M, SleepAs(t, q, M)
    PROVE  /\ Tables' /\ t \in wakers'[q] /\ M \subseteq missed'
           /\ AllKeptBut(t, {})
BY DEF Tables, SleepAs, Becomes, Kept, AllKeptBut

(* A task that returns or goes on disturbs nobody else. *)
LEMMA BecomesKeeps ==
    ASSUME Tables, NEW t \in Tasks, NEW s, s # "asleep", status' = Becomes(t, s),
           UNCHANGED wakers, missed \subseteq missed'
    PROVE  Tables' /\ AllKept({})
BY DEF Tables, Becomes, Kept, AllKept

(* A step that touches no task leaves all sleepers in their lists. *)
LEMMA SameKeeps ==
    ASSUME Tables, UNCHANGED <<status, wakers>>, missed \subseteq missed'
    PROVE  Tables' /\ AllKept({})
BY DEF Tables, Kept, AllKept

(* The six lists of wakers. *)
LEMMA QueueNames ==
    /\ "recv" \in Queue /\ "send" \in Queue /\ "poll" \in Queue
    /\ "new_assoc" \in Queue /\ "send_immediate" \in Queue /\ "shutdown" \in Queue
BY DEF Queue

(* What makes a future ready is followed by a wake-up of its list, or its sleepers are
   among those who are missed. *)
Follows(Q) ==
    /\ "recv" \in Q \/ (ReadsNothing => ReadsNothing')
    /\ "send" \in Q \/ (BufferFull(tx) => BufferFull(tx')) \/ Asleep(Senders) \subseteq missed'
    /\ "poll" \in Q \/ (NothingToSend(tx) => NothingToSend(tx')) \/ Asleep(Pollers) \subseteq missed'
    /\ "shutdown" \in Q \/ (Waits => Waits')
    /\ "new_assoc" \in Q \/ (ready_assocs = 0 => ready_assocs' = 0)
    /\ \/ "send_immediate" \in Q
       \/ send_immediate = <<>> => send_immediate' = <<>>
       \/ Asleep(ImmediateSenders) \subseteq missed'

(* A sleeper that is not woken has still nothing to do, if the step woke whom it concerns. *)
LEMMA KeptSound ==
    ASSUME NEW u \in Tasks, NEW Q, Sound(u), Kept(u, Q), Follows(Q)
    PROVE  Sound(u)'
<1>1. (u \in Receivers => u \in wakers'["recv"] /\ ReadsNothing')
  BY QueueNames, Zenon DEF Sound, Kept, Follows
<1>2. u \in Senders => u \in wakers'["send"] /\ (u \in missed' \/ BufferFull(tx'))
  BY QueueNames, Zenon DEF Sound, Kept, Follows, Asleep
<1>3. u \in Pollers => u \in wakers'["poll"] /\ (u \in missed' \/ NothingToSend(tx'))
  BY QueueNames, Zenon DEF Sound, Kept, Follows, Asleep
<1>4. u \in Waiters => u \in wakers'["shutdown"] /\ (u \in missed' \/ Waits')
  BY QueueNames, Zenon DEF Sound, Kept, Follows
<1>5. u \in Connectors \cup Acceptors => u \in wakers'["new_assoc"] /\ ready_assocs' = 0
  BY QueueNames, Zenon DEF Sound, Kept, Follows
<1>6. u \in ImmediateSenders => /\ u \in wakers'["send_immediate"]
                               /\ (u \in missed' \/ send_immediate' = <<>>)
  BY QueueNames, Zenon DEF Sound, Kept, Follows, Asleep
<1>. QED  BY <1>1, <1>2, <1>3, <1>4, <1>5, <1>6 DEF Sound

(* Registered after a step in which t fell asleep. *)
LEMMA RegisteredKeepsBut ==
    ASSUME Registered, NEW Q, NEW t, Follows(Q), Tables', ShapeOf(tx'), ready_assocs' \in Nat,
           AllKeptBut(t, Q), Sound(t)'
    PROVE  Registered'
<1>1. ASSUME NEW u \in Tasks, status'[u] = "asleep", Kept(u, Q)  PROVE Sound(u)'
  <2>1. Sound(u)
    BY <1>1 DEF Registered, Kept
  <2>. QED  BY <1>1, <2>1, KeptSound
<1>2. \A u \in Tasks : status'[u] = "asleep" => Sound(u)'
  BY <1>1 DEF AllKeptBut
<1>. QED  BY <1>2, Zenon DEF Registered, Tables

(* Registered after a step in which nobody fell asleep. *)
LEMMA RegisteredKeeps ==
    ASSUME Registered, NEW Q, Follows(Q), Tables', ShapeOf(tx'), ready_assocs' \in Nat, AllKept(Q)
    PROVE  Registered'
<1>1. ASSUME NEW u \in Tasks, status'[u] = "asleep"  PROVE Sound(u)'
  <2>1. Sound(u) /\ Kept(u, Q)
    BY <1>1 DEF Registered, Kept, AllKept
  <2>. QED  BY <2>1, KeptSound
<1>. QED  BY <1>1, Zenon DEF Registered, Tables

-----------------------------------------------------------------------------
(* What the calls of the core do to the sending half: first, what is left open. *)
LEMMA MayShape ==
    ASSUME NEW x, ShapeOf(x), NEW y \in May(x)
    PROVE  /\ ShapeOf(y) /\ y.unsent = x.unsent /\ y.outstanding = x.outstanding
           /\ y.send_next = x.send_next /\ y.shutdown_state = x.shutdown_state
<1>1. PICK b : y = [x EXCEPT !.sendable = b]
  BY Zenon DEF May
<1>2. y = [unsent |-> x.unsent, outstanding |-> x.outstanding, sendable |-> b,
           send_next |-> x.send_next, shutdown_state |-> x.shutdown_state]
  BY <1>1, Zenon DEF ShapeOf
<1>. QED  BY <1>2, Zenon DEF ShapeOf

(* poll_chunk_to_send frees no buffer space and completes no shutdown. *)
LEMMA PollShape ==
    ASSUME NEW x, ShapeOf(x), HasChunk(x), NEW y \in AfterPoll(x)
    PROVE  /\ ShapeOf(y) /\ (BufferFull(x) => BufferFull(y))
           /\ IsCompletelyShutdown(y) => IsCompletelyShutdown(x)
<1>1. CASE x.send_next > 0
  <2>1. y = [unsent |-> x.unsent, outstanding |-> x.outstanding, sendable |-> x.sendable,
             send_next |-> x.send_next - 1, shutdown_state |-> x.shutdown_state]
    BY <1>1, Zenon DEF AfterPoll, ShapeOf
  <2>2. x.send_next - 1 \in Nat
    BY <1>1 DEF ShapeOf
  <2>. QED  BY <2>1, <2>2, Zenon DEF ShapeOf, BufferFull, Buffered, IsCompletelyShutdown
<1>2. CASE ~ (x.send_next > 0) /\ HasSignal(x)
  <2>1. PICK d \in {"ShutdownSent", "ShutdownAckSent"} : y = [x EXCEPT !.shutdown_state = d]
    BY <1>2, Zenon DEF AfterPoll
  <2>2. y = [unsent |-> x.unsent, outstanding |-> x.outstanding, sendable |-> x.sendable,
             send_next |-> x.send_next, shutdown_state |-> d]
    BY <2>1, Zenon DEF ShapeOf
  <2>3. ~ BufferFull(x)
    BY <1>2, ViewAssumption DEF HasSignal, BufferFull, Drained, Buffered
  <2>4. ShapeOf(y) /\ y.shutdown_state = d
    BY <2>2, Zenon DEF ShapeOf
  <2>. QED  BY <2>1, <2>3, <2>4 DEF IsCompletelyShutdown
<1>3. CASE ~ HasSignal(x)
  <2>1. y \in AfterPollData(x)
    BY <1>3, Zenon DEF AfterPoll, HasSignal
  <2>2. CASE y \in May(x)
    BY <2>2, MayShape DEF BufferFull, Buffered, IsCompletelyShutdown
  <2>3. CASE y \in May([x EXCEPT !.unsent = @ - 1, !.outstanding = @ + 1])
    <3>. DEFINE z == [unsent |-> x.unsent - 1, outstanding |-> x.outstanding + 1,
                      sendable |-> x.sendable, send_next |-> x.send_next,
                      shutdown_state |-> x.shutdown_state]
    <3>1. [x EXCEPT !.unsent = @ - 1, !.outstanding = @ + 1] = z
      <4>. DEFINE w == [x EXCEPT !.unsent = @ - 1]
      <4>1. w = [unsent |-> x.unsent - 1, outstanding |-> x.outstanding, sendable |-> x.sendable,
                 send_next |-> x.send_next, shutdown_state |-> x.shutdown_state]
        BY DEF ShapeOf
      <4>. HIDE DEF w
      <4>2. [w EXCEPT !.outstanding = @ + 1] = z
        BY <4>1
      <4>. QED  BY <4>2 DEF w
    <3>2. x.unsent \in Int /\ x.outstanding \in Int /\ x.send_next \in Nat
      BY DEF ShapeOf
    <3>3. ShapeOf(z)
      BY <3>2 DEF ShapeOf
    <3>4. /\ ShapeOf(y) /\ y.unsent = z.unsent /\ y.outstanding = z.outstanding
          /\ y.shutdown_state = z.shutdown_state
      BY <2>3, <3>1, <3>3, MayShape, Zenon
    <3>5. /\ y.unsent = x.unsent - 1 /\ y.outstanding = x.outstanding + 1
          /\ y.shutdown_state = x.shutdown_state
      BY <3>4
    <3>. QED  BY <3>2, <3>4, <3>5 DEF BufferFull, Buffered, IsCompletelyShutdown
  <2>. QED  BY <2>1, <2>2, <2>3 DEF AfterPollData
<1>. QED  BY <1>1, <1>2, <1>3

(* try_send_data leaves the shutdown state alone. *)
LEMMA SendShape ==
    ASSUME NEW x, ShapeOf(x), NEW y \in AfterSend(x)
    PROVE  ShapeOf(y) /\ y.shutdown_state = x.shutdown_state
<1>. DEFINE z == [unsent |-> x.unsent + 1, outstanding |-> x.outstanding, sendable |-> x.sendable,
                  send_next |-> x.send_next, shutdown_state |-> x.shutdown_state]
<1>1. [x EXCEPT !.unsent = @ + 1] = z
  BY DEF ShapeOf
<1>2. ShapeOf(z) /\ z.shutdown_state = x.shutdown_state
  BY DEF ShapeOf
<1>3. y \in May(z) \/ y = z
  BY <1>1, Zenon DEF AfterSend
<1>. HIDE DEF z
<1>. QED  BY <1>2, <1>3, MayShape, Zenon

(* One control chunk more. *)
LEMMA SignalShape ==
    ASSUME NEW x, ShapeOf(x), NEW n \in Nat
    PROVE  /\ ShapeOf([x EXCEPT !.send_next = @ + n])
           /\ [x EXCEPT !.send_next = @ + n].send_next = x.send_next + n
           /\ [x EXCEPT !.send_next = @ + n].unsent = x.unsent
           /\ [x EXCEPT !.send_next = @ + n].outstanding = x.outstanding
           /\ [x EXCEPT !.send_next = @ + n].shutdown_state = x.shutdown_state
<1>1. [x EXCEPT !.send_next = @ + n]
        = [unsent |-> x.unsent, outstanding |-> x.outstanding, sendable |-> x.sendable,
           send_next |-> x.send_next + n, shutdown_state |-> x.shutdown_state]
  BY DEF ShapeOf
<1>2. x.send_next + n \in Nat
  BY DEF ShapeOf
<1>. QED  BY <1>1, <1>2, Zenon DEF ShapeOf

(* handle_timeout frees no buffer space and leaves the shutdown state alone. *)
LEMMA TimeoutShape ==
    ASSUME NEW x, ShapeOf(x), NEW y \in AfterTimeout(x)
    PROVE  /\ ShapeOf(y) /\ Buffered(y) = Buffered(x) /\ y.shutdown_state = x.shutdown_state
<1>1. y \in May(x) \/ y \in May([x EXCEPT !.send_next = @ + 1])
  BY Zenon DEF AfterTimeout
<1>2. 1 \in Nat
  OBVIOUS
<1>3. CASE y \in May(x)
  BY <1>3, MayShape, Zenon DEF Buffered
<1>4. CASE y \in May([x EXCEPT !.send_next = @ + 1])
  <2>. DEFINE z == [x EXCEPT !.send_next = @ + 1]
  <2>1. /\ ShapeOf(z) /\ z.unsent = x.unsent /\ z.outstanding = x.outstanding
        /\ z.shutdown_state = x.shutdown_state
    BY <1>2, SignalShape, Zenon
  <2>. HIDE DEF z
  <2>2. y \in May(z)
    BY <1>4, Zenon DEF z
  <2>. QED  BY <2>1, <2>2, MayShape, Zenon DEF Buffered
<1>. QED  BY <1>1, <1>3, <1>4

(* A notification leaves the sending half well formed. *)
LEMMA NotificationShape ==
    ASSUME NEW x, ShapeOf(x), NEW c, NEW y \in TxAfter(x, c)
    PROVE  ShapeOf(y)
<1>0. 1 \in Nat /\ 2 \in Nat
  OBVIOUS
<1>1. CASE c = "Data"
  <2>1. PICK n \in {1, 2} : y = [x EXCEPT !.send_next = @ + n]
    BY <1>1, Zenon DEF TxAfter
  <2>. QED  BY <1>0, <2>1, SignalShape
<1>2. CASE c = "SAck"
  <2>1. PICK n \in 0 .. x.outstanding : y \in May([x EXCEPT !.outstanding = n])
    BY <1>2 DEF TxAfter, TxAfterSack
  <2>. DEFINE z == [unsent |-> x.unsent, outstanding |-> n, sendable |-> x.sendable,
                    send_next |-> x.send_next, shutdown_state |-> x.shutdown_state]
  <2>2. [x EXCEPT !.outstanding = n] = z
    BY DEF ShapeOf
  <2>3. n \in Int
    OBVIOUS
  <2>4. ShapeOf(z)
    BY <2>3 DEF ShapeOf
  <2>. QED  BY <2>1, <2>2, <2>4, MayShape, Zenon
<1>3. CASE c = "ShutDown"
  <2>1. \/ y = x \/ y = [x EXCEPT !.send_next = @ + 1]
        \/ y = [x EXCEPT !.shutdown_state = "ShutdownReceived"]
    BY <1>3, Zenon DEF TxAfter, TxAfterPeerShutdown
  <2>2. ShapeOf([x EXCEPT !.shutdown_state = "ShutdownReceived"])
    BY DEF ShapeOf
  <2>. QED  BY <1>0, <2>1, <2>2, SignalShape
<1>4. CASE c \in {"ShutDownAck", "ShutDownComplete", "Abort"}
  <2>1. \/ y = [x EXCEPT !.send_next = @ + 1, !.shutdown_state = "Complete"]
        \/ y = [x EXCEPT !.shutdown_state = "Complete"]
        \/ y = [x EXCEPT !.shutdown_state = "AbortReceived"]
    BY <1>4 DEF TxAfter
  <2>2. \E n \in {x.send_next, x.send_next + 1}, d \in {"Complete", "AbortReceived"} :
          y = [unsent |-> x.unsent, outstanding |-> x.outstanding, sendable |-> x.sendable,
               send_next |-> n, shutdown_state |-> d]
    BY <2>1, Zenon DEF ShapeOf
  <2>3. x.send_next \in Nat /\ x.send_next + 1 \in Nat
    BY DEF ShapeOf
  <2>. QED  BY <2>2, <2>3 DEF ShapeOf
<1>5. CASE c = "HeartBeatAck"
  BY <1>5, MayShape DEF TxAfter
<1>6. CASE c \notin {"Data", "SAck", "HeartBeatAck", "ShutDown", "ShutDownAck", "ShutDownComplete",
                     "Abort"}
  BY <1>6 DEF TxAfter
<1>. QED  BY <1>1, <1>2, <1>3, <1>4, <1>5, <1>6
-----------------------------------------------------------------------------
(* Where receive_data stands is one place only. *)
LEMMA IdleIs == /\ "idle" \notin {"remove", "remove_locked", "poisoned"}
                /\ "notify" \notin {"remove", "remove_locked", "poisoned"}
                /\ "rx_locked" \notin {"remove", "remove_locked", "poisoned"}
OBVIOUS

(* A step that leaves both halves and receive_data where they are. *)
LEMMA SameFollows ==
    ASSUME UNCHANGED <<tx, rx, net>>
    PROVE  (ReadsNothing => ReadsNothing') /\ (Waits => Waits')
BY DEF ReadsNothing, NothingToRead, Waits

(* No action loses a wake-up. *)
LEMMA RegisteredReceiveData ==
    ASSUME Registered, NEW p \in Packets, ReceiveData(p)
    PROVE  Registered'
<1>. DEFINE forUs == Opens(p) \/ assoc_infos = "live"
            replies == IF p[1] = "Init" \/ forUs THEN [i \in DOMAIN Replies(p) |-> "Reply"] ELSE <<>>
            queue == IF forUs /\ Aborts(p) THEN <<>> ELSE send_immediate \o replies
            Q == (IF queue # <<>> THEN {"send_immediate"} ELSE {})
                   \cup (IF Opens(p) THEN {"new_assoc"} ELSE {})
<1>1. /\ send_immediate' = queue /\ Wake(Q) /\ UNCHANGED <<tx, rx>> /\ net.at = "idle"
      /\ ready_assocs' = IF Opens(p) THEN ready_assocs + 1 ELSE ready_assocs
  BY DEF ReceiveData, NewAssoc, InnerFree
<1>. HIDE DEF queue
<1>2. Follows(Q)
  <2>1. "send_immediate" \in Q \/ send_immediate' = <<>>
    BY <1>1
  <2>2. "new_assoc" \in Q \/ ready_assocs' = ready_assocs
    BY <1>1
  <2>3. (ReadsNothing => ReadsNothing') /\ (Waits => Waits')
    BY <1>1, IdleIs DEF ReadsNothing, Waits
  <2>. QED  BY <1>1, <2>1, <2>2, <2>3, Zenon DEF Follows
<1>. HIDE DEF Q
<1>3. Tables' /\ AllKept(Q)
  BY <1>1, WakeKeeps DEF Registered, Tables, Wake
<1>4. ShapeOf(tx') /\ ready_assocs' \in Nat
  BY <1>1 DEF Registered
<1>. QED  BY <1>2, <1>3, <1>4, RegisteredKeeps

(* Registered after a step that only drains lists of wakers. *)
LEMMA RegisteredWakes ==
    ASSUME Registered, NEW Q, Wake(Q), Follows(Q), ShapeOf(tx'), UNCHANGED ready_assocs
    PROVE  Registered'
<1>1. Tables' /\ AllKept(Q)
  BY WakeKeeps DEF Registered, Tables, Wake
<1>2. ready_assocs' \in Nat
  BY DEF Registered
<1>. QED  BY <1>1, <1>2, RegisteredKeeps

(* Registered after a step that wakes nobody and need not. *)
LEMMA RegisteredSame ==
    ASSUME Registered, UNCHANGED <<status, wakers>>, missed \subseteq missed', Follows({}),
           ShapeOf(tx'), UNCHANGED ready_assocs
    PROVE  Registered'
<1>1. Tables' /\ AllKept({})
  BY SameKeeps DEF Registered, Tables
<1>2. ready_assocs' \in Nat
  BY DEF Registered
<1>. QED  BY <1>1, <1>2, RegisteredKeeps

(* Registered after a task returned without waking anybody. *)
LEMMA RegisteredBecomes ==
    ASSUME Registered, NEW t \in Tasks, NEW s, s # "asleep", status' = Becomes(t, s),
           UNCHANGED wakers, missed \subseteq missed', Follows({}), ShapeOf(tx'),
           UNCHANGED ready_assocs
    PROVE  Registered'
<1>1. Tables' /\ AllKept({})
  BY BecomesKeeps DEF Registered, Tables
<1>2. ready_assocs' \in Nat
  BY DEF Registered
<1>. QED  BY <1>1, <1>2, RegisteredKeeps

(* A task goes to sleep: what it has found is what it sleeps for. *)
LEMMA RegisteredSleep ==
    ASSUME Registered, NEW t \in Tasks, NEW q \in Queue, NEW M, SleepAs(t, q, M),
           UNCHANGED <<tx, rx, net, ready_assocs, send_immediate>>,
           t \in wakers'[q] /\ M \subseteq missed' => Sound(t)'
    PROVE  Registered'
<1>1. Tables' /\ t \in wakers'[q] /\ M \subseteq missed' /\ AllKeptBut(t, {})
  BY SleepKeeps DEF Registered, Tables
<1>2. Follows({})
  BY SameFollows, Zenon DEF Follows
<1>3. ShapeOf(tx') /\ ready_assocs' \in Nat
  BY DEF Registered
<1>. QED  BY <1>1, <1>2, <1>3, RegisteredKeepsBut

(* What receive_data does to where it stands. *)
LEMMA NetStep ==
    ASSUME NetOK, [Next]_vars
    PROVE  NetOK'
<1>1. \A txn, rxn : IsNet(GoOn(txn, rxn))
  BY Zenon DEF IsNet, GoOn, Idle
<1>2. \A m, n : IsNet(m) => IsNet([m EXCEPT !.at = n])
  BY DEF IsNet
<1>6. IsNet(Idle) /\ \A rxn : IsNet(ToRemove(rxn))
  BY DEF IsNet, Idle, ToRemove
<1>7. /\ IsNet([net EXCEPT !.at = "rx_locked"]) /\ IsNet([net EXCEPT !.at = "remove_locked"])
      /\ IsNet([Idle EXCEPT !.at = "poisoned"])
  BY <1>2, <1>6 DEF NetOK
<1>3. CASE HandleNotifications
  <2>1. \/ \E rxn : net' = GoOn(0, rxn) \/ net' = ToRemove(rxn)
        \/ net' = [net EXCEPT !.at = "rx_locked"] \/ net' = [net EXCEPT !.at = "remove_locked"]
        \/ net' = [Idle EXCEPT !.at = "poisoned"]
    BY <1>3, Zenon
       DEF HandleNotifications, TxNotification, RxNotification, DropNotification, ForwardToTx,
           RemoveAssoc, RemoveAssocTx
  <2>. QED  BY <1>1, <1>6, <1>7, <2>1 DEF NetOK
<1>4. ASSUME NEW p, ReceiveData(p) PROVE NetOK'
  BY <1>1, <1>4, Zenon DEF ReceiveData, NetOK
<1>5. CASE UNCHANGED net
  BY <1>5, Zenon DEF NetOK, IsNet
<1>. QED
  BY <1>3, <1>4, <1>5, Zenon
     DEF Next, vars, Connect, PollNewAssoc, NextSendImmediate, SendData, PollChunkToSend,
         TryPollChunkToSend, HandleTimeout, RecvData, RecvDataTx, AwaitShutdown,
         AwaitShutdownRegister, InitiateShutdown, LockPoisoned

(* receive_data: every notification wakes those that it concerns, and one that panics
   leaves the mutexes poisoned. *)
LEMMA RegisteredNotifications ==
    ASSUME Registered, NetOK, HandleNotifications
    PROVE  Registered'
<1>0. ShapeOf(tx)
  BY DEF Registered
<1>1. CASE TxNotification
  <2>0. tx' = [tx EXCEPT !.send_next = @ + 1] /\ net.at = "notify" /\ 1 \in Nat
    BY <1>1 DEF TxNotification
  <2>1. ShapeOf(tx') /\ Buffered(tx') = Buffered(tx) /\ tx'.shutdown_state = tx.shutdown_state
    BY <1>0, <2>0, SignalShape, Zenon DEF Buffered
  <2>2. (BufferFull(tx) => BufferFull(tx')) /\ (Waits => Waits')
    BY <2>0, <2>1, IdleIs DEF BufferFull, Waits, IsCompletelyShutdown
  <2>3. UNCHANGED <<rx, ready_assocs, send_immediate>> /\ Wake({"poll"})
    BY <1>1 DEF TxNotification, innerVars
  <2>4. ReadsNothing => ReadsNothing'
    BY <2>0, <2>3, IdleIs DEF ReadsNothing
  <2>5. Follows({"poll"})
    BY <2>2, <2>3, <2>4, Zenon DEF Follows
  <2>. QED  BY <2>1, <2>3, <2>5, RegisteredWakes, Zenon
<1>2. CASE RxNotification
  <2>1. UNCHANGED <<tx, ready_assocs, send_immediate>> /\ net.at = "notify"
    BY <1>2 DEF RxNotification, innerVars
  <2>2. ShapeOf(tx') /\ (Waits => Waits')
    BY <1>0, <2>1, IdleIs DEF Waits
  <2>3. CASE Wake(RxWakes)
    <3>1. Follows({"recv"})
      BY <2>1, <2>2, Zenon DEF Follows
    <3>. QED  BY <2>1, <2>2, <2>3, <3>1, RegisteredWakes, Zenon DEF RxWakes
  <2>4. CASE net' = [Idle EXCEPT !.at = "poisoned"] /\ UNCHANGED taskVars
    <3>1. ReadsNothing'
      BY <2>4 DEF ReadsNothing, Idle
    <3>2. Follows({})
      BY <2>1, <2>2, <3>1, Zenon DEF Follows
    <3>3. UNCHANGED <<status, wakers>> /\ missed \subseteq missed'
      BY <2>4 DEF taskVars
    <3>. QED  BY <2>1, <2>2, <3>2, <3>3, RegisteredSame, Zenon
  <2>. QED  BY <1>2, <2>3, <2>4, Zenon DEF RxNotification
<1>3. CASE DropNotification
  <2>1. /\ UNCHANGED <<status, wakers>> /\ missed \subseteq missed' /\ net.at = "notify"
        /\ UNCHANGED <<tx, rx, ready_assocs, send_immediate>>
    BY <1>3 DEF DropNotification, innerVars, taskVars
  <2>2. (ReadsNothing => ReadsNothing') /\ (Waits => Waits')
    BY <2>1, IdleIs DEF ReadsNothing, Waits
  <2>3. Follows({})
    BY <2>1, <2>2, Zenon DEF Follows
  <2>. QED  BY <1>0, <2>1, <2>3, RegisteredSame, Zenon
<1>4. CASE ForwardToTx
  <2>1. /\ net.at = "rx_locked" /\ UNCHANGED <<rx, ready_assocs, send_immediate>>
        /\ IsCompletelyShutdown(tx') => net' = ToRemove(Tail(net.rx_notifications))
    BY <1>4, Zenon DEF ForwardToTx, innerVars
  <2>2. IsCompletelyShutdown(tx') => net'.at = "remove"
    BY <2>1 DEF ToRemove
  <2>3. (ReadsNothing => ReadsNothing') /\ Waits'
    BY <2>1, <2>2, IdleIs DEF ReadsNothing, Waits
  <2>. DEFINE c == Head(net.rx_notifications)
  <2>4. CASE tx' \in TxAfter(tx, c) /\ Wake(ForwardWakes)
    <3>1. ShapeOf(tx')
      BY <1>0, <2>4, NotificationShape, Zenon
    <3>2. Follows({"poll", "send"})
      BY <2>1, <2>3 DEF Follows
    <3>. QED  BY <2>1, <2>4, <3>1, <3>2, RegisteredWakes, Zenon DEF ForwardWakes
  <2>5. CASE UNCHANGED <<tx, taskVars>>
    <3>1. UNCHANGED <<tx, status, wakers>> /\ missed \subseteq missed'
      BY <2>5 DEF taskVars
    <3>2. Follows({})
      BY <2>1, <2>3, <3>1, Zenon DEF Follows
    <3>. QED  BY <1>0, <2>1, <3>1, <3>2, RegisteredSame, Zenon
  <2>. QED  BY <1>4, <2>4, <2>5, Zenon DEF ForwardToTx, Forward
<1>5. CASE RemoveAssoc
  <2>1. /\ UNCHANGED <<tx, rx, ready_assocs, send_immediate>> /\ Wake({"recv"})
        /\ net' = [net EXCEPT !.at = "remove_locked"]
    BY <1>5, Zenon DEF RemoveAssoc
  <2>2. net'.at = "remove_locked"
    BY <2>1, Zenon DEF NetOK, IsNet
  <2>3. Follows({"recv"})
    BY <2>1, <2>2 DEF Follows, Waits
  <2>. QED  BY <1>0, <2>1, <2>3, RegisteredWakes, Zenon
<1>6. CASE RemoveAssocTx
  <2>1. /\ UNCHANGED <<tx, rx, ready_assocs, send_immediate>> /\ Wake(RemovalWakes)
        /\ net.at = "remove_locked"
    BY <1>6, Zenon DEF RemoveAssocTx, innerVars
  <2>2. ReadsNothing => ReadsNothing'
    BY <2>1 DEF ReadsNothing
  <2>3. Follows({"send", "poll", "shutdown"})
    BY <2>1, <2>2 DEF Follows
  <2>. QED  BY <1>0, <2>1, <2>3, RegisteredWakes, Zenon DEF RemovalWakes
<1>. QED  BY <1>1, <1>2, <1>3, <1>4, <1>5, <1>6, Zenon DEF HandleNotifications

(* connect queues an INIT, and whoever sleeps for one is missed. *)
LEMMA RegisteredConnect ==
    ASSUME Registered, NEW t \in Connectors, Connect(t)
    PROVE  Registered'
<1>1. t \in Tasks
  BY DEF Tasks
<1>2. /\ UNCHANGED <<tx, rx, net, wakers, ready_assocs>> /\ status' = Becomes(t, "ready")
      /\ missed' = missed \cup Asleep(ImmediateSenders)
  BY Zenon DEF Connect
<1>3. missed \subseteq missed' /\ Asleep(ImmediateSenders) \subseteq missed'
  BY <1>2, Zenon
<1>4. Follows({})
  BY <1>2, <1>3, SameFollows, Zenon DEF Follows
<1>5. ShapeOf(tx') /\ "ready" # "asleep"
  BY <1>2 DEF Registered
<1>. QED  BY <1>1, <1>2, <1>3, <1>4, <1>5, RegisteredBecomes, Zenon

(* connect and accept take an association or register. *)
LEMMA RegisteredPollNewAssoc ==
    ASSUME Registered, NEW t \in Connectors \cup Acceptors, PollNewAssoc(t)
    PROVE  Registered'
<1>1. t \in Tasks
  BY DEF Tasks
<1>2. UNCHANGED <<send_immediate, tx, rx, net>> /\ ShapeOf(tx)
  BY DEF PollNewAssoc, Registered
<1>3. CASE ready_assocs > 0
  <2>1. /\ ready_assocs' = ready_assocs - 1 /\ wakers' = wakers /\ missed' = missed
        /\ status' = [u \in Tasks |-> IF u = t THEN "done"
                                     ELSE IF u \in AssocTasks THEN "ready" ELSE status[u]]
    BY <1>3 DEF PollNewAssoc
  <2>2. Tables' /\ AllKept({})
    BY <2>1 DEF Registered, Tables, Kept, AllKept
  <2>3. ready_assocs' \in Nat /\ ~ (ready_assocs = 0)
    BY <1>3, <2>1 DEF Registered
  <2>4. Follows({})
    BY <1>2, <2>3, SameFollows, Zenon DEF Follows
  <2>. QED  BY <1>2, <2>2, <2>3, <2>4, RegisteredKeeps
<1>4. CASE ~ (ready_assocs > 0)
  <2>1. SleepAs(t, "new_assoc", {}) /\ UNCHANGED ready_assocs /\ ready_assocs = 0
    BY <1>4 DEF PollNewAssoc, Registered, Sleep
  <2>2. t \in wakers'["new_assoc"] => Sound(t)'
    BY <2>1, AsyncAssumption DEF Sound, AssocTasks
  <2>. QED  BY <1>1, <1>2, <2>1, <2>2, QueueNames, RegisteredSleep
<1>. QED  BY <1>3, <1>4

(* next_send_immediate takes a packet or registers. *)
LEMMA RegisteredNextSendImmediate ==
    ASSUME Registered, NEW t \in ImmediateSenders, NextSendImmediate(t)
    PROVE  Registered'
<1>1. t \in Tasks
  BY DEF Tasks
<1>2. UNCHANGED <<ready_assocs, tx, rx, net>> /\ ShapeOf(tx)
  BY DEF NextSendImmediate, Registered
<1>3. CASE send_immediate # <<>>
  <2>1. UNCHANGED <<status, wakers>> /\ missed \subseteq missed'
    BY <1>3 DEF NextSendImmediate, taskVars
  <2>2. Follows({})
    BY <1>2, <1>3, SameFollows, Zenon DEF Follows
  <2>. QED  BY <1>2, <2>1, <2>2, RegisteredSame
<1>4. CASE send_immediate = <<>>
  <2>1. SleepAs(t, "send_immediate", {}) /\ UNCHANGED send_immediate
    BY <1>4 DEF NextSendImmediate, Sleep
  <2>2. t \in wakers'["send_immediate"] => Sound(t)'
    BY <1>4, <2>1, AsyncAssumption DEF Sound, AssocTasks
  <2>. QED  BY <1>1, <1>2, <2>1, <2>2, QueueNames, RegisteredSleep
<1>. QED  BY <1>3, <1>4

(* send_data is accepted and wakes the pollers, fails, or registers. *)
LEMMA RegisteredSendData ==
    ASSUME Registered, NEW t \in Senders, SendData(t)
    PROVE  Registered'
<1>1. t \in Tasks
  BY DEF Tasks, AssocTasks
<1>2. UNCHANGED <<ready_assocs, send_immediate, rx, net>> /\ ShapeOf(tx)
  BY DEF SendData, Registered, innerVars
<1>3. CASE status' = Becomes(t, "done") /\ UNCHANGED <<wakers, missed, tx, todo>>
  <2>1. Follows({}) /\ missed \subseteq missed' /\ "done" # "asleep"
    BY <1>2, <1>3, SameFollows DEF Follows
  <2>. QED  BY <1>1, <1>2, <1>3, <2>1, RegisteredBecomes
<1>4. CASE /\ Accepts(tx) /\ tx' \in AfterSend(tx)
           /\ WakeAs(Becomes(t, IF todo[t] = 1 THEN "done" ELSE "ready"), SendDataWakes)
  <2>. DEFINE st == Becomes(t, IF todo[t] = 1 THEN "done" ELSE "ready")
  <2>1. \A u \in Tasks : st[u] = "asleep" => status[u] = "asleep"
    BY DEF Becomes, Registered
  <2>. HIDE DEF st
  <2>2. Tables' /\ AllKept({"poll"})
    BY <1>4, <2>1, WakeKeeps DEF Registered, Tables, SendDataWakes, st
  <2>3. ShapeOf(tx') /\ tx'.shutdown_state = tx.shutdown_state /\ ~ BufferFull(tx)
    BY <1>2, <1>4, SendShape, ViewAssumption DEF ShapeOf, Accepts, BufferFull, Buffered
  <2>4. ReadsNothing => ReadsNothing'
    BY <1>2 DEF ReadsNothing
  <2>6. Waits => Waits'
    BY <1>2, <2>3 DEF Waits, IsCompletelyShutdown
  <2>7. Follows({"poll"})
    BY <1>2, <2>3, <2>4, <2>6, Zenon DEF Follows
  <2>5. ready_assocs' \in Nat
    BY <1>2 DEF Registered
  <2>. QED  BY <2>2, <2>3, <2>5, <2>7, RegisteredKeeps
<1>5. CASE BufferFull(tx) /\ SleepAs(t, "send", {}) /\ UNCHANGED tx
  <2>1. t \in wakers'["send"] => Sound(t)'
    BY <1>5, AsyncAssumption DEF Sound, AssocTasks
  <2>. QED  BY <1>1, <1>2, <1>5, <2>1, QueueNames, RegisteredSleep
<1>. QED  BY <1>3, <1>4, <1>5, Zenon DEF SendData, Sleep

(* poll_chunk_to_send takes a chunk, finds the association closed, or registers. *)
LEMMA RegisteredPollChunkToSend ==
    ASSUME Registered, NEW t \in Pollers, PollChunkToSend(t) \/ TryPollChunkToSend(t)
    PROVE  Registered'
<1>1. t \in Tasks
  BY DEF Tasks, AssocTasks
<1>2. UNCHANGED <<ready_assocs, send_immediate, rx, net>> /\ ShapeOf(tx)
  BY DEF PollChunkToSend, TryPollChunkToSend, Registered, innerVars
<1>3. ASSUME HasChunk(tx), tx' \in AfterPoll(tx)
      PROVE  ShapeOf(tx') /\ \A Q : Follows(Q)
  <2>1. /\ ShapeOf(tx') /\ (BufferFull(tx) => BufferFull(tx'))
        /\ IsCompletelyShutdown(tx') => IsCompletelyShutdown(tx)
    BY <1>2, <1>3, PollShape, Zenon
  <2>2. (ReadsNothing => ReadsNothing') /\ (Waits => Waits') /\ ~ NothingToSend(tx)
    BY <1>2, <1>3, <2>1 DEF ReadsNothing, Waits, NothingToSend
  <2>3. ASSUME NEW Q PROVE Follows(Q)
    BY <1>2, <2>1, <2>2 DEF Follows
  <2>. QED  BY <2>1, <2>3
<1>4. CASE HasChunk(tx) /\ tx' \in AfterPoll(tx) /\ Wake(IF PollsData(tx) THEN {"send"} ELSE {})
  BY <1>2, <1>3, <1>4, RegisteredWakes
<1>5. CASE HasChunk(tx) /\ tx' \in AfterPoll(tx) /\ UNCHANGED taskVars
  <2>1. UNCHANGED <<status, wakers>> /\ missed \subseteq missed'
    BY <1>5 DEF taskVars
  <2>. QED  BY <1>2, <1>3, <1>5, <2>1, RegisteredSame
<1>6. CASE WakeAs(Becomes(t, "done"), {"send"}) /\ UNCHANGED tx
  <2>1. \A u \in Tasks : Becomes(t, "done")[u] = "asleep" => status[u] = "asleep"
    BY DEF Becomes, Registered
  <2>2. Tables' /\ AllKept({"send"})
    BY <1>6, <2>1, WakeKeeps DEF Registered, Tables
  <2>3. Follows({"send"})
    BY <1>2, <1>6, SameFollows, Zenon DEF Follows
  <2>4. ShapeOf(tx') /\ ready_assocs' \in Nat
    BY <1>2, <1>6 DEF Registered
  <2>. QED  BY <2>2, <2>3, <2>4, RegisteredKeeps
<1>7. CASE ~ HasChunk(tx) /\ ~ IsClosed(tx) /\ SleepAs(t, "poll", {}) /\ UNCHANGED tx
  <2>1. NothingToSend(tx)
    BY <1>7 DEF NothingToSend
  <2>2. t \in wakers'["poll"] => Sound(t)'
    BY <1>7, <2>1, AsyncAssumption DEF Sound, AssocTasks
  <2>. QED  BY <1>1, <1>2, <1>7, <2>2, QueueNames, RegisteredSleep
<1>. QED  BY <1>4, <1>5, <1>6, <1>7, Zenon DEF PollChunkToSend, TryPollChunkToSend, Sleep

(* recv_data takes a message or registers; its second lock is that of the sending half. *)
LEMMA RegisteredRecvData ==
    ASSUME Registered, NEW t \in Receivers, RecvData(t) \/ RecvDataTx(t)
    PROVE  Registered'
<1>1. t \in Tasks
  BY DEF Tasks, AssocTasks
<1>2. UNCHANGED <<ready_assocs, send_immediate, tx, net>> /\ ShapeOf(tx)
  BY DEF RecvData, RecvDataTx, Registered, innerVars
<1>3. CASE /\ \/ status' = Becomes(t, "done") \/ status' = Becomes(t, "locked")
              \/ status' = Becomes(t, "ready")
           /\ UNCHANGED <<wakers, missed>>
           /\ UNCHANGED rx \/ (rx.events > 0 /\ net.at # "poisoned")
  <2>1. (ReadsNothing => ReadsNothing') /\ (Waits => Waits') /\ missed \subseteq missed'
    BY <1>2, <1>3 DEF ReadsNothing, NothingToRead, Waits
  <2>2. Follows({})
    BY <1>2, <2>1, Zenon DEF Follows
  <2>. QED  BY <1>1, <1>2, <1>3, <2>1, <2>2, RegisteredBecomes
<1>4. CASE ~ rx.closed /\ rx.events = 0 /\ SleepAs(t, "recv", {}) /\ UNCHANGED rx
  <2>1. t \in wakers'["recv"] => Sound(t)'
    BY <1>4, AsyncAssumption DEF Sound, AssocTasks, ReadsNothing, NothingToRead
  <2>. QED  BY <1>1, <1>2, <1>4, <2>1, QueueNames, RegisteredSleep
<1>5. net.at \in {"rx_locked", "remove_locked", "poisoned"} => ~ RecvData(t)
  BY Zenon DEF RecvData, RxFree
<1>6. CASE RecvData(t)
  BY <1>3, <1>4, <1>5, <1>6 DEF RecvData, Sleep
<1>7. CASE RecvDataTx(t)
  BY <1>3, <1>7 DEF RecvDataTx
<1>. QED  BY <1>6, <1>7

(* await_shutdown registers, and if it does so too late it is missed. *)
LEMMA RegisteredAwaitShutdown ==
    ASSUME Registered, NEW t \in Waiters, AwaitShutdown(t) \/ AwaitShutdownRegister(t)
    PROVE  Registered'
<1>1. t \in Tasks
  BY DEF Tasks, AssocTasks
<1>2. UNCHANGED <<ready_assocs, send_immediate, tx, rx, net>> /\ ShapeOf(tx)
  BY DEF AwaitShutdown, AwaitShutdownRegister, Registered, innerVars
<1>3. CASE AwaitShutdown(t)
  <2>1. Follows({})
    BY <1>2, SameFollows, Zenon DEF Follows
  <2>2. PICK s : s # "asleep" /\ status' = Becomes(t, s)
    BY <1>3 DEF AwaitShutdown
  <2>3. UNCHANGED wakers /\ missed \subseteq missed'
    BY <1>3 DEF AwaitShutdown
  <2>. QED  BY <1>1, <1>2, <2>1, <2>2, <2>3, RegisteredBecomes
<1>4. CASE AwaitShutdownRegister(t)
  <2>. DEFINE M == IF IsCompletelyShutdown(tx) THEN {t} ELSE {}
  <2>1. t \in wakers'["shutdown"] /\ M \subseteq missed' => Sound(t)'
    BY <1>2, AsyncAssumption DEF Sound, AssocTasks, Waits
  <2>2. SleepAs(t, "shutdown", M)
    BY <1>4, Zenon DEF AwaitShutdownRegister
  <2>. HIDE DEF M
  <2>. QED  BY <1>1, <1>2, <2>1, <2>2, QueueNames, RegisteredSleep
<1>. QED  BY <1>3, <1>4

(* initiate_shutdown wakes nobody: those who would fail or have SHUTDOWN to send are missed. *)
LEMMA RegisteredInitiateShutdown ==
    ASSUME Registered, InitiateShutdown
    PROVE  Registered'
<1>1. /\ UNCHANGED <<status, wakers, rx, net, ready_assocs, send_immediate>>
      /\ tx' = [tx EXCEPT !.shutdown_state = "TryingTo"]
      /\ missed' = missed \cup Asleep(Senders) \cup (IF Drained(tx) THEN Asleep(Pollers) ELSE {})
  BY Zenon DEF InitiateShutdown, innerVars
<1>2. /\ missed \subseteq missed' /\ Asleep(Senders) \subseteq missed'
      /\ Drained(tx) => Asleep(Pollers) \subseteq missed'
  BY <1>1, Zenon
<1>3. tx' = [unsent |-> tx.unsent, outstanding |-> tx.outstanding, sendable |-> tx.sendable,
             send_next |-> tx.send_next, shutdown_state |-> "TryingTo"]
  BY <1>1, Zenon DEF Registered, ShapeOf
<1>4. /\ ShapeOf(tx') /\ tx'.unsent = tx.unsent /\ tx'.outstanding = tx.outstanding
      /\ tx'.sendable = tx.sendable /\ tx'.send_next = tx.send_next
      /\ tx'.shutdown_state = "TryingTo"
  BY <1>3, Zenon DEF Registered, ShapeOf
<1>5. ~ IsCompletelyShutdown(tx')
  BY <1>4 DEF IsCompletelyShutdown
<1>6. ~ Drained(tx) /\ NothingToSend(tx) => NothingToSend(tx')
  BY <1>4, <1>5, Zenon DEF NothingToSend, HasChunk, HasSignal, IsClosed, HasData, Drained
<1>7. (ReadsNothing => ReadsNothing') /\ Waits'
  BY <1>1, <1>5 DEF ReadsNothing, Waits
<1>8. Follows({})
  BY <1>1, <1>2, <1>6, <1>7, Zenon DEF Follows
<1>. QED  BY <1>1, <1>2, <1>4, <1>8, RegisteredSame, Zenon

(* Every step of the async wrapper keeps Registered. *)
LEMMA RegisteredStep ==
    ASSUME Registered, NetOK, [Next]_vars
    PROVE  Registered'
<1>0. ShapeOf(tx)
  BY DEF Registered
<1>1. CASE UNCHANGED vars
  <2>1. /\ UNCHANGED <<status, wakers, tx, rx, net, ready_assocs, send_immediate>>
        /\ missed \subseteq missed'
    BY <1>1 DEF vars, innerVars, taskVars
  <2>2. Follows({})
    BY <2>1, SameFollows, Zenon DEF Follows
  <2>. QED  BY <1>0, <2>1, <2>2, RegisteredSame
<1>2. CASE HandleTimeout
  <2>1. UNCHANGED <<rx, net, ready_assocs, send_immediate>> /\ Wake({"poll"})
    BY <1>2, Zenon DEF HandleTimeout, innerVars
  <2>2. ShapeOf(tx') /\ Buffered(tx') = Buffered(tx) /\ tx'.shutdown_state = tx.shutdown_state
    BY <1>0, <1>2, TimeoutShape, Zenon DEF HandleTimeout
  <2>3. /\ ReadsNothing => ReadsNothing'
        /\ (Waits => Waits') /\ (BufferFull(tx) => BufferFull(tx'))
    BY <2>1, <2>2, Zenon DEF ReadsNothing, NothingToRead, Waits, IsCompletelyShutdown, BufferFull
  <2>4. Follows({"poll"})
    BY <2>1, <2>3, Zenon DEF Follows
  <2>. QED  BY <2>1, <2>2, <2>4, RegisteredWakes, Zenon
<1>3. ASSUME NEW t \in Tasks, LockPoisoned(t) PROVE Registered'
  <2>1. /\ UNCHANGED <<wakers, tx, rx, net, ready_assocs, send_immediate>>
        /\ missed \subseteq missed' /\ "panicked" # "asleep" /\ status' = Becomes(t, "panicked")
    BY <1>3 DEF LockPoisoned, innerVars
  <2>2. Follows({})
    BY <2>1, SameFollows, Zenon DEF Follows
  <2>. QED  BY <1>0, <2>1, <2>2, RegisteredBecomes
<1>. QED  BY <1>1, <1>2, <1>3, RegisteredReceiveData, RegisteredNotifications, RegisteredConnect,
             RegisteredPollNewAssoc, RegisteredNextSendImmediate, RegisteredSendData,
             RegisteredPollChunkToSend, RegisteredRecvData, RegisteredAwaitShutdown,
             RegisteredInitiateShutdown, Zenon DEF Next

-----------------------------------------------------------------------------
(* Nobody sleeps at first. *)
LEMMA RegisteredStart == Init => Registered /\ NetOK
<1>. SUFFICES ASSUME Init PROVE Registered /\ NetOK
  OBVIOUS
<1>1. /\ tx = NewTx /\ net = Idle /\ ready_assocs = 0 /\ wakers = [q \in Queue |-> {}]
      /\ status = [t \in Tasks |-> IF t \in Acceptors \cup ImmediateSenders THEN "ready" ELSE "new"]
  BY Zenon DEF Init
<1>2. ShapeOf(tx) /\ ready_assocs \in Nat
  BY <1>1 DEF ShapeOf, NewTx
<1>3. NetOK
  BY <1>1, Zenon DEF NetOK, IsNet, Idle
<1>4. \A t \in Tasks : status[t] # "asleep"
  BY <1>1
<1>5. Tables
  BY <1>1 DEF Tables
<1>. QED  BY <1>2, <1>3, <1>4, <1>5, Zenon DEF Registered, Tables

(***************************************************************************)
(* No wake-up is lost, for any number of tasks and messages and whatever   *)
(* packets arrive: a task that sleeps is in the list of wakers that the    *)
(* next event for it will drain and has nothing to do yet, but for those   *)
(* in missed: the sleepers that connect, initiate_shutdown and a late      *)
(* await_shutdown do not wake (assoc_async/assoc.rs).                      *)
(***************************************************************************)
THEOREM AsyncLosesNoWakeup == Spec => []NoLostWakeup
<1>1. Registered => NoLostWakeup
  <2>. SUFFICES ASSUME Registered, NEW t \in Asleep(Tasks) \ missed
                PROVE  /\ t \in Receivers => net.at = "poisoned" \/ (rx.events = 0 /\ ~rx.closed)
                       /\ t \in Senders => BufferFull(tx)
                       /\ t \in Pollers => ~HasChunk(tx) /\ ~IsClosed(tx)
                       /\ t \in Waiters => \/ ~IsCompletelyShutdown(tx)
                                           \/ net.at \in {"remove", "remove_locked"}
                       /\ t \in Connectors \cup Acceptors => ready_assocs = 0
                       /\ t \in ImmediateSenders => send_immediate = <<>>
    BY Zenon DEF NoLostWakeup
  <2>1. Sound(t) /\ t \notin missed
    BY Zenon DEF Registered, Asleep
  <2>. QED  BY <2>1, Zenon DEF Sound, ReadsNothing, NothingToRead, NothingToSend, Waits
<1>. QED  BY <1>1, RegisteredStart, RegisteredStep, NetStep, PTL DEF Spec

-----------------------------------------------------------------------------
(* The association leaves the map when it is shut down. *)
LEMMA RemovalStep ==
    ASSUME Registered, NetOK, Removal, [Next]_vars
    PROVE  Removal'
<1>0. ShapeOf(tx)
  BY DEF Registered
<1>. DEFINE Quiet == /\ UNCHANGED <<assocs, assoc_infos, net>>
                     /\ IsCompletelyShutdown(tx') => IsCompletelyShutdown(tx)
<1>1. Quiet => Removal'
  BY DEF Removal
<1>2. CASE UNCHANGED vars
  BY <1>1, <1>2 DEF vars, innerVars
<1>3. ASSUME NEW p \in Packets, ReceiveData(p) PROVE Removal'
  <2>1. 1 \in DOMAIN p
    BY AsyncAssumption
  <2>2. Opens(p) => assoc_infos = "none"
    BY <1>3, <2>1 DEF ReceiveData, Opens, PeerMaySend
  <2>3. UNCHANGED tx /\ assocs' = (assocs \/ Opens(p)) /\ net.at = "idle"
    BY <1>3 DEF ReceiveData, NewAssoc, InnerFree
  <2>4. assocs' => ~ IsCompletelyShutdown(tx)
    BY <2>2, <2>3, Zenon DEF Removal
  <2>5. assoc_infos' = "none" => assoc_infos = "none" /\ ~ Opens(p)
    BY <1>3 DEF ReceiveData
  <2>6. assoc_infos' = "none" => net'.at = "idle"
    BY <1>3, <2>5 DEF ReceiveData, Opens, GoOn, Idle
  <2>. QED  BY <2>3, <2>4, <2>5, <2>6 DEF Removal
<1>4. CASE HandleNotifications
  <2>1. UNCHANGED assoc_infos /\ net.at # "idle"
    BY <1>4 DEF HandleNotifications, TxNotification, RxNotification, DropNotification,
                ForwardToTx,
                RemoveAssoc, RemoveAssocTx, innerVars
  <2>2. assoc_infos' # "none"
    BY <2>1 DEF Removal
  <2>3. \A rxn : ToRemove(rxn).at = "remove"
    BY Zenon DEF ToRemove
  <2>4. assocs' /\ IsCompletelyShutdown(tx') => net'.at = "remove"
    <3>1. CASE TxNotification
      BY <2>3, <3>1, Zenon DEF TxNotification
    <3>2. CASE ForwardToTx
      BY <2>3, <3>2, Zenon DEF ForwardToTx
    <3>3. CASE RxNotification
      BY <3>3 DEF RxNotification, Removal, innerVars
    <3>4. CASE DropNotification
      BY <3>4, Zenon DEF DropNotification, innerVars
    <3>5. CASE RemoveAssocTx
      BY <3>5 DEF RemoveAssocTx, Removal, innerVars
    <3>6. CASE RemoveAssoc
      BY <3>6 DEF RemoveAssoc
    <3>. QED  BY <1>4, <3>1, <3>2, <3>3, <3>4, <3>5, <3>6 DEF HandleNotifications
  <2>. QED  BY <2>2, <2>4 DEF Removal
<1>5. ASSUME NEW t, \/ Connect(t) \/ PollNewAssoc(t) \/ NextSendImmediate(t) \/ RecvData(t)
                    \/ RecvDataTx(t) \/ AwaitShutdown(t) \/ AwaitShutdownRegister(t)
                    \/ LockPoisoned(t)
      PROVE  Quiet
  BY <1>5 DEF Connect, PollNewAssoc, NextSendImmediate, RecvData, RecvDataTx, AwaitShutdown,
              AwaitShutdownRegister, LockPoisoned, innerVars
<1>6. ASSUME NEW t, SendData(t) PROVE Quiet
  BY <1>0, <1>6, SendShape DEF SendData, innerVars, IsCompletelyShutdown
<1>7. ASSUME NEW t, PollChunkToSend(t) \/ TryPollChunkToSend(t) PROVE Quiet
  BY <1>0, <1>7, PollShape DEF PollChunkToSend, TryPollChunkToSend, innerVars
<1>8. CASE HandleTimeout
  BY <1>0, <1>1, <1>8, TimeoutShape DEF HandleTimeout, innerVars, IsCompletelyShutdown
<1>9. CASE InitiateShutdown
  BY <1>0, <1>1, <1>9 DEF InitiateShutdown, innerVars, ShapeOf, IsCompletelyShutdown
<1>. HIDE DEF Quiet
<1>. QED  BY <1>1, <1>2, <1>3, <1>4, <1>5, <1>6, <1>7, <1>8, <1>9, Zenon DEF Next

(***************************************************************************)
(* has_assocs_left: whenever InnerSctp is free, the map holds no           *)
(* association that is completely shut down, for any number of tasks and   *)
(* packets: the last notification of it is followed by remove_assoc.       *)
(***************************************************************************)
THEOREM AsyncMapHoldsOnlyOpen == Spec => []MapHoldsOnlyOpen
<1>1. Init => Removal
  BY DEF Init, Removal, NewTx, Idle, IsCompletelyShutdown
<1>2. Removal => MapHoldsOnlyOpen
  BY DEF Removal, MapHoldsOnlyOpen, InnerFree
<1>. QED  BY <1>1, <1>2, RegisteredStart, RegisteredStep, NetStep, RemovalStep, PTL DEF Spec

-----------------------------------------------------------------------------
(***************************************************************************)
(* Threads and condition variables: SyncWrapper, with the constants and    *)
(* variables that it has in common with AsyncWrapper under the same names. *)
(* Nothing is assumed of them but what a theorem says.                     *)
(***************************************************************************)
CONSTANTS Main, Nets, Killers, MaxCbErrors

VARIABLES poisoned, holder, notifications, send_cb, done

Sync == INSTANCE SyncWrapper

(* Both wrappers see the association in the same way. *)
LEMMA SameView ==
    ASSUME NEW x, NEW c
    PROVE  /\ Sync!AfterPoll(x) = AfterPoll(x) /\ Sync!AfterTimeout(x) = AfterTimeout(x)
           /\ Sync!AfterSend(x) = AfterSend(x) /\ Sync!TxAfter(x, c) = TxAfter(x, c)
           /\ Sync!HasChunk(x) = HasChunk(x) /\ Sync!BufferFull(x) = BufferFull(x)
BY Zenon DEF Sync!AfterPoll, AfterPoll, Sync!AfterPollData, AfterPollData, Sync!May, May,
             Sync!Drained, Drained, Sync!HasSignal, HasSignal, Sync!AfterTimeout, AfterTimeout,
             Sync!AfterSend, AfterSend, Sync!TxAfter, TxAfter, Sync!TxAfterSack, TxAfterSack,
             Sync!TxAfterPeerShutdown, TxAfterPeerShutdown, Sync!HasChunk, HasChunk,
             Sync!IsClosed, IsClosed, Sync!IsCompletelyShutdown, IsCompletelyShutdown,
             Sync!HasData, HasData, Sync!BufferFull, BufferFull, Sync!Buffered, Buffered

-----------------------------------------------------------------------------
(* Threads of different kinds are different. *)
ThreadsApart ==
    /\ {Main} \cap (Connectors \cup Acceptors) = {}
    /\ Sync!InnerThreads \cap (Sync!AssocThreads \cup Nets \cup Killers) = {}
    /\ Sync!AssocThreads \cap (Nets \cup Killers) = {}
    /\ Receivers \cap Sync!TxThreads = {} /\ Senders \cap Pollers = {}

(* One thread only calls poll_chunk_to_send. *)
OnePoller == \A t, u \in Pollers : t = u

(* What the threads wait for, one kind after the other. *)
ReadersWait ==
    \A t \in Receivers : status[t] = "waiting" => "rx" \in poisoned \/ NothingToRead(rx)
SendersWait == \A t \in Senders : status[t] = "waiting" => Sync!BufferFull(tx)
PollersWait ==
    \A t \in Pollers : status[t] = "waiting" => ~ Sync!HasChunk(tx) /\ ~ Sync!IsClosed(tx)
AssocWait == ReadersWait /\ SendersWait /\ PollersWait

MainWaits == status[Main] = "waiting" => ~ done /\ send_immediate = 0
OthersWait == \A t \in Connectors \cup Acceptors : status[t] = "waiting" => ready_assocs = 0
InnerWait == "inner" \notin poisoned /\ ~ Sync!Notifying => MainWaits /\ OthersWait

Sane ==
    /\ status = [t \in Sync!Threads |-> status[t]] /\ ShapeOf(tx) /\ ready_assocs \in Nat
    /\ used = [packets |-> used.packets, timeouts |-> used.timeouts, cb_errors |-> used.cb_errors]
    /\ used.cb_errors \in Nat

Waiting == Sane /\ AssocWait /\ InnerWait

(* Only threads of S begin to wait, and who owes a notify_all still does. *)
CalmBut(S) == \A u \in Sync!Threads \ S : status'[u] = "waiting" => status[u] = "waiting"
StillOwed == \A u \in Nets \cup Killers : status[u] = "notifying" => status'[u] = "notifying"

(* Which threads there are, and which of them wait for which mutex. *)
LEMMA ThreadKinds ==
    /\ Main \in Sync!Threads /\ Receivers \subseteq Sync!Threads /\ Senders \subseteq Sync!Threads
    /\ Pollers \subseteq Sync!Threads /\ Connectors \cup Acceptors \subseteq Sync!Threads
    /\ Nets \cup Killers \subseteq Sync!Threads /\ Sync!TxThreads = Senders \cup Pollers
    /\ Sync!AssocThreads = Sync!TxThreads \cup Receivers
    /\ Sync!InnerThreads = {Main} \cup Connectors \cup Acceptors
BY DEF Sync!Threads, Sync!InnerThreads, Sync!AssocThreads, Sync!TxThreads

(* A step that leaves both halves alone does not concern those who wait for them. *)
LEMMA AssocKeeps ==
    ASSUME ThreadsApart, AssocWait, UNCHANGED <<tx, rx>>, poisoned \subseteq poisoned',
           CalmBut(Sync!InnerThreads)
    PROVE  AssocWait'
BY ThreadKinds DEF ThreadsApart, AssocWait, ReadersWait, SendersWait, PollersWait, CalmBut

(* A step that leaves InnerSctp alone does not concern those who wait for it. *)
LEMMA InnerKeeps ==
    ASSUME ThreadsApart, InnerWait, UNCHANGED <<ready_assocs, send_immediate, done, holder>>,
           poisoned \subseteq poisoned', CalmBut(Sync!AssocThreads), StillOwed
    PROVE  InnerWait'
<1>1. Sync!Notifying => Sync!Notifying'
  BY DEF Sync!Notifying, StillOwed
<1>2. (MainWaits => MainWaits') /\ (OthersWait => OthersWait')
  BY ThreadKinds DEF ThreadsApart, MainWaits, OthersWait, CalmBut
<1>. QED  BY <1>1, <1>2 DEF InnerWait

(* One thread goes on. *)
LEMMA OneGoesOn ==
    ASSUME Sane, NEW t \in Sync!Threads, NEW s, status' = Sync!Becomes(t, s)
    PROVE  /\ status' = [u \in Sync!Threads |-> status'[u]] /\ status'[t] = s
           /\ \A u \in Sync!Threads : u # t => status'[u] = status[u]
BY DEF Sane, Sync!Becomes

(* notify_all: none of W waits afterwards, and nobody begins to. *)
LEMMA Notified ==
    ASSUME NEW st, NEW W, status' = Sync!NotifyAs(st, W)
    PROVE  /\ status' = [u \in Sync!Threads |-> status'[u]]
           /\ \A u \in Sync!Threads : /\ u \in W => status'[u] # "waiting"
                                      /\ status'[u] = "waiting" => st[u] = "waiting"
                                      /\ st[u] # "waiting" => status'[u] = st[u]
BY DEF Sync!NotifyAs

-----------------------------------------------------------------------------
(* The threads that use InnerSctp. *)
LEMMA WaitingReceiveData ==
    ASSUME ThreadsApart, Waiting, NEW t \in Nets, NEW p \in Packets, Sync!ReceiveData(t, p)
    PROVE  Waiting'
<1>1. t \in Sync!Threads /\ \E s \in {"handling", "panicked"} : status' = Sync!Becomes(t, s)
  BY ThreadKinds, Zenon DEF Sync!ReceiveData, Sync!Panics
<1>2. status' = [u \in Sync!Threads |-> status'[u]] /\ CalmBut({})
  BY <1>1, OneGoesOn DEF Waiting, CalmBut
<1>3. /\ UNCHANGED <<tx, rx>> /\ ready_assocs' \in {ready_assocs, ready_assocs + 1}
      /\ poisoned \subseteq poisoned'
  BY DEF Sync!ReceiveData, Sync!Panics
<1>4. \/ used' = [used EXCEPT !.cb_errors = @ + 1]
      \/ \E n : used' = [used EXCEPT !.packets = n]
  BY Zenon DEF Sync!ReceiveData, Sync!CallbackFails
<1>5. Sane'
  <2>1. /\ used' = [packets |-> used'.packets, timeouts |-> used'.timeouts,
                    cb_errors |-> used'.cb_errors]
        /\ used'.cb_errors \in {used.cb_errors, used.cb_errors + 1}
    BY <1>4, Zenon DEF Waiting, Sane
  <2>. QED  BY <1>2, <1>3, <2>1 DEF Waiting, Sane
<1>6. AssocWait'
  BY <1>2, <1>3, AssocKeeps DEF Waiting, CalmBut
<1>7. "inner" \in poisoned' \/ holder' = {t}
  BY Zenon DEF Sync!ReceiveData, Sync!Panics
<1>. QED  BY <1>5, <1>6, <1>7 DEF Waiting, InnerWait, Sync!Notifying

(* receive_data: each notification wakes the threads of its half under the lock. *)
LEMMA WaitingHandleNotifications ==
    ASSUME ThreadsApart, Waiting, NEW t \in Nets, Sync!HandleNotifications(t)
    PROVE  Waiting'
<1>0. t \in Sync!Threads /\ ShapeOf(tx) /\ UNCHANGED <<Sync!innerVars, used>>
  BY ThreadKinds DEF Waiting, Sane, Sync!HandleNotifications, Sync!Notification, Sync!Unlock
<1>1. ASSUME \E s \in {"notifying", "panicked"} : status' = Sync!Becomes(t, s), UNCHANGED tx,
             UNCHANGED rx \/ "rx" \in poisoned', poisoned \subseteq poisoned',
             "inner" \in poisoned' \/ status' = Sync!Becomes(t, "notifying")
      PROVE  Waiting'
  <2>1. /\ status' = [u \in Sync!Threads |-> status'[u]] /\ CalmBut({})
        /\ "inner" \in poisoned' \/ status'[t] = "notifying"
    BY <1>0, <1>1, OneGoesOn DEF Waiting, CalmBut
  <2>2. AssocWait'
    BY <1>1, <2>1, ThreadKinds DEF Waiting, AssocWait, ReadersWait, SendersWait, PollersWait, CalmBut
  <2>. QED  BY <1>0, <1>1, <2>1, <2>2 DEF Waiting, Sane, InnerWait, Sync!Notifying, Sync!innerVars
<1>2. ASSUME ShapeOf(tx'), UNCHANGED <<poisoned, holder>>,
             \/ status' = Sync!Notify(Sync!RxSignal \cup Sync!TxSignal)
             \/ status' = Sync!Notify(Sync!TxSignal) /\ UNCHANGED rx
             \/ status' = Sync!Notify(Sync!RxSignal) /\ UNCHANGED tx
      PROVE  Waiting'
  <2>1. /\ status' = [u \in Sync!Threads |-> status'[u]] /\ CalmBut({}) /\ StillOwed
        /\ UNCHANGED tx \/ \A u \in Sync!TxThreads : status'[u] # "waiting"
        /\ UNCHANGED rx \/ \A u \in Receivers : status'[u] # "waiting"
    BY <1>2, ThreadKinds, Notified DEF Sync!Notify, CalmBut, StillOwed, Sync!RxSignal, Sync!TxSignal
  <2>2. AssocWait'
    BY <1>2, <2>1, ThreadKinds DEF Waiting, AssocWait, ReadersWait, SendersWait, PollersWait, CalmBut
  <2>3. InnerWait'
    BY <1>0, <1>2, <2>1, InnerKeeps DEF Waiting, CalmBut, Sync!innerVars
  <2>. QED  BY <1>0, <1>2, <2>1, <2>2, <2>3 DEF Waiting, Sane, Sync!innerVars
<1>3. CASE Sync!Unlock(t)
  BY <1>1, <1>3 DEF Sync!Unlock
<1>4. CASE Sync!Notification(t) /\ "tx" \in poisoned
  BY <1>1, <1>4 DEF Sync!Notification, Sync!Panics
<1>5. CASE Sync!CookieAckNotification(t)
  <2>1. ShapeOf(tx')
    BY <1>0, <1>5, SignalShape DEF Sync!CookieAckNotification
  <2>. QED  BY <1>2, <1>5, <2>1 DEF Sync!CookieAckNotification
<1>6. CASE Sync!ChunkNotification(t)
  <2>. DEFINE c == Head(notifications)
  <2>1. CASE Sync!Panics(t, {"inner", "tx", "rx"}) /\ UNCHANGED tx
    BY <1>1, <2>1 DEF Sync!Panics
  <2>2. CASE /\ tx' \in Sync!TxAfter(tx, c) /\ UNCHANGED <<poisoned, holder>>
             /\ status' = Sync!Notify(Sync!RxSignal \cup Sync!TxSignal)
    <3>1. ShapeOf(tx')
      BY <1>0, <2>2, SameView, NotificationShape, Zenon
    <3>. QED  BY <1>2, <2>2, <3>1
  <2>3. CASE status' = Sync!Notify(Sync!RxSignal) /\ UNCHANGED <<tx, poisoned, holder>>
    BY <1>0, <1>2, <2>3
  <2>. QED  BY <1>6, <2>1, <2>2, <2>3, Zenon DEF Sync!ChunkNotification
<1>. QED  BY <1>3, <1>4, <1>5, <1>6, Zenon DEF Sync!HandleNotifications, Sync!Notification

(* The notify_all that receive_data and kill owe wakes all who wait for InnerSctp. *)
LEMMA WaitingNotifyAll ==
    ASSUME ThreadsApart, Waiting, NEW t \in Nets \cup Killers, Sync!NotifyAll(t)
    PROVE  Waiting'
<1>. DEFINE s == IF t \in Nets THEN "running" ELSE "done"
            st == Sync!Becomes(t, s)
<1>1. /\ status' = Sync!NotifyAs(st, Sync!InnerThreads)
      /\ \A u \in Sync!Threads : st[u] = "waiting" => status[u] = "waiting"
  BY ThreadKinds DEF Sync!NotifyAll, Sync!Becomes, Waiting, Sane
<1>. HIDE DEF st
<1>2. /\ status' = [u \in Sync!Threads |-> status'[u]]
      /\ \A u \in Sync!Threads : /\ u \in Sync!InnerThreads => status'[u] # "waiting"
                                 /\ status'[u] = "waiting" => st[u] = "waiting"
  BY <1>1, Notified
<1>3. CalmBut({}) /\ \A u \in Sync!InnerThreads : status'[u] # "waiting"
  BY <1>1, <1>2, ThreadKinds, Zenon DEF CalmBut
<1>4. UNCHANGED <<tx, rx, poisoned, ready_assocs, used>>
  BY DEF Sync!NotifyAll, Sync!innerVars
<1>5. AssocWait'
  BY <1>3, <1>4, AssocKeeps DEF Waiting, CalmBut
<1>6. MainWaits' /\ OthersWait'
  BY <1>3, ThreadKinds DEF MainWaits, OthersWait
<1>. QED  BY <1>2, <1>4, <1>5, <1>6 DEF Waiting, Sane, InnerWait

(* The main loop takes what is to be sent at once, waits, or ends. *)
LEMMA WaitingMainLoop ==
    ASSUME ThreadsApart, Waiting, Sync!MainLoop
    PROVE  Waiting'
<1>1. /\ \E s \in {"done", "panicked", "waiting"} : status' = Sync!Becomes(Main, s)
      /\ status[Main] = "running" /\ UNCHANGED <<tx, rx, ready_assocs, holder, done>>
      /\ poisoned \subseteq poisoned'
  BY DEF Sync!MainLoop, Sync!Panics, Sync!notifyVars
<1>2. \/ status' = Sync!Becomes(Main, "done")
      \/ "inner" \in poisoned'
      \/ ~ done /\ send_immediate' = 0
  BY DEF Sync!MainLoop, Sync!Panics
<1>3. /\ status' = [u \in Sync!Threads |-> status'[u]] /\ CalmBut({Main}) /\ StillOwed
      /\ \A u \in Sync!Threads : u # Main => status'[u] = status[u]
  BY <1>1, ThreadKinds, OneGoesOn DEF Waiting, CalmBut, StillOwed
<1>4. Sane'
  <2>1. UNCHANGED used \/ used' = [used EXCEPT !.cb_errors = @ + 1]
    BY DEF Sync!MainLoop, Sync!CallbackFails
  <2>2. /\ used' = [packets |-> used'.packets, timeouts |-> used'.timeouts,
                    cb_errors |-> used'.cb_errors]
        /\ used'.cb_errors \in {used.cb_errors, used.cb_errors + 1}
    BY <2>1, Zenon DEF Waiting, Sane
  <2>. QED  BY <1>1, <1>3, <2>2 DEF Waiting, Sane
<1>5. AssocWait'
  BY <1>1, <1>3, AssocKeeps, ThreadKinds DEF Waiting, CalmBut
<1>6. "inner" \notin poisoned' => MainWaits'
  BY <1>1, <1>2, ThreadKinds, OneGoesOn DEF MainWaits, Waiting
<1>7. OthersWait => OthersWait'
  BY <1>1, <1>3, ThreadKinds DEF ThreadsApart, OthersWait
<1>8. Sync!Notifying => Sync!Notifying'
  BY <1>1, <1>3 DEF Sync!Notifying, StillOwed
<1>. QED  BY <1>1, <1>4, <1>5, <1>6, <1>7, <1>8 DEF Waiting, InnerWait

(* connect and accept pop an association or wait for one. *)
LEMMA WaitingTakeAssoc ==
    ASSUME ThreadsApart, Waiting, NEW t \in Connectors \cup Acceptors, NEW st,
           Sync!TakeAssoc(t, st),
           st = [u \in Sync!Threads |-> st[u]], UNCHANGED <<poisoned, holder, tx, rx, done, used>>,
           \A u \in Sync!Threads : st[u] = "waiting" => status[u] = "waiting",
           \A u \in Nets \cup Killers : st[u] = status[u],
           st[Main] # "waiting" \/ UNCHANGED send_immediate
    PROVE  Waiting'
<1>0. t \in Sync!Threads /\ t # Main /\ t \notin Sync!AssocThreads /\ t \notin Nets \cup Killers
  BY ThreadKinds DEF ThreadsApart
<1>1. CASE ready_assocs > 0
  <2>1. /\ ready_assocs' = ready_assocs - 1
        /\ status' = [u \in Sync!Threads |-> IF u = t THEN "done"
                                       ELSE IF u \in Sync!AssocThreads THEN "running" ELSE st[u]]
    BY <1>1 DEF Sync!TakeAssoc
  <2>2. /\ status' = [u \in Sync!Threads |-> status'[u]] /\ CalmBut({}) /\ StillOwed
        /\ status'[Main] = "waiting" => st[Main] = "waiting" /\ status[Main] = "waiting"
    BY <1>0, <2>1, ThreadKinds DEF CalmBut, StillOwed, ThreadsApart
  <2>3. Sane' /\ AssocWait'
    BY <1>1, <2>1, <2>2, AssocKeeps DEF Waiting, Sane, CalmBut
  <2>4. (MainWaits => MainWaits') /\ (OthersWait => OthersWait')
    BY <1>1, <2>2, ThreadKinds DEF MainWaits, OthersWait, CalmBut
  <2>5. Sync!Notifying => Sync!Notifying'
    BY <2>2 DEF Sync!Notifying, StillOwed
  <2>. QED  BY <2>3, <2>4, <2>5 DEF Waiting, InnerWait
<1>2. CASE ~ (ready_assocs > 0)
  <2>1. status' = [st EXCEPT ![t] = "waiting"] /\ UNCHANGED ready_assocs /\ ready_assocs = 0
    BY <1>2 DEF Sync!TakeAssoc, Waiting, Sane
  <2>2. /\ status' = [u \in Sync!Threads |-> status'[u]] /\ CalmBut({t}) /\ StillOwed
        /\ status'[Main] = "waiting" => st[Main] = "waiting" /\ status[Main] = "waiting"
    BY <1>0, <2>1, ThreadKinds DEF CalmBut, StillOwed
  <2>3. CalmBut(Sync!InnerThreads)
    BY <2>2, ThreadKinds DEF CalmBut
  <2>4. Sane' /\ AssocWait'
    BY <2>1, <2>2, <2>3, AssocKeeps DEF Waiting, Sane
  <2>5. (MainWaits => MainWaits') /\ OthersWait'
    BY <2>1, <2>2 DEF MainWaits, OthersWait
  <2>6. Sync!Notifying => Sync!Notifying'
    BY <2>2 DEF Sync!Notifying, StillOwed
  <2>. QED  BY <2>4, <2>5, <2>6 DEF Waiting, InnerWait
<1>. QED  BY <1>1, <1>2

(* connect queues an INIT and wakes the main loop. *)
LEMMA WaitingConnect ==
    ASSUME ThreadsApart, Waiting, NEW t \in Connectors, Sync!Connect(t)
    PROVE  Waiting'
<1>. DEFINE st == Sync!Notify(Sync!InnerThreads)
<1>1. /\ st = [u \in Sync!Threads |-> st[u]] /\ st[Main] # "waiting"
      /\ \A u \in Sync!Threads : st[u] = "waiting" => status[u] = "waiting"
      /\ \A u \in Nets \cup Killers : st[u] = status[u]
  BY ThreadKinds DEF Sync!Notify, Sync!NotifyAs, ThreadsApart
<1>2. Sync!TakeAssoc(t, st) /\ UNCHANGED <<poisoned, holder, tx, rx, done, used>>
  BY DEF Sync!Connect, Sync!notifyVars
<1>. HIDE DEF st
<1>. QED  BY <1>1, <1>2, WaitingTakeAssoc

(* accept, and connect after its wait. *)
LEMMA WaitingAccept ==
    ASSUME ThreadsApart, Waiting, NEW t \in Connectors \cup Acceptors, Sync!Accept(t)
    PROVE  Waiting'
<1>1. Sync!TakeAssoc(t, status) /\ UNCHANGED <<poisoned, holder, tx, rx, done, used, send_immediate>>
  BY DEF Sync!Accept, Sync!notifyVars
<1>2. status = [u \in Sync!Threads |-> status[u]]
  BY DEF Waiting, Sane
<1>. QED  BY <1>1, <1>2, WaitingTakeAssoc

(* kill sets done and owes a notify_all. *)
LEMMA WaitingKill ==
    ASSUME ThreadsApart, Waiting, NEW t \in Killers, Sync!Kill(t)
    PROVE  Waiting'
<1>1. /\ status' = Sync!Becomes(t, "notifying") /\ t \in Sync!Threads
      /\ UNCHANGED <<tx, rx, poisoned, ready_assocs, used>>
  BY ThreadKinds DEF Sync!Kill
<1>2. status' = [u \in Sync!Threads |-> status'[u]] /\ CalmBut({}) /\ status'[t] = "notifying"
  BY <1>1, OneGoesOn DEF Waiting, CalmBut
<1>3. AssocWait'
  BY <1>1, <1>2, AssocKeeps DEF Waiting, CalmBut
<1>. QED  BY <1>1, <1>2, <1>3 DEF Waiting, Sane, InnerWait, Sync!Notifying

(* A thread that finds a mutex poisoned. *)
LEMMA WaitingLockPoisoned ==
    ASSUME ThreadsApart, Waiting, NEW t \in Sync!Threads, Sync!LockPoisoned(t)
    PROVE  Waiting'
<1>1. /\ status' = Sync!Becomes(t, "panicked") /\ status[t] \in {"running", "new", "waiting"}
      /\ UNCHANGED <<tx, rx, used, ready_assocs, send_immediate, done, holder>>
      /\ poisoned \subseteq poisoned'
  BY DEF Sync!LockPoisoned, Sync!FailsToLock, Sync!Panics, Sync!notifyVars, Sync!innerVars
<1>2. status' = [u \in Sync!Threads |-> status'[u]] /\ CalmBut({}) /\ StillOwed
  BY <1>1, OneGoesOn, ThreadKinds DEF Waiting, CalmBut, StillOwed
<1>3. AssocWait'
  BY <1>1, <1>2, AssocKeeps DEF Waiting, CalmBut
<1>4. InnerWait'
  BY <1>1, <1>2, InnerKeeps DEF Waiting, CalmBut
<1>. QED  BY <1>1, <1>2, <1>3, <1>4 DEF Waiting, Sane
-----------------------------------------------------------------------------
(* The threads that use one half. *)
LEMMA OneWaits ==
    ASSUME ThreadsApart, Waiting, NEW t \in Sync!AssocThreads, status[t] # "notifying",
           NEW s, status' = Sync!Becomes(t, s), UNCHANGED <<Sync!innerVars, Sync!notifyVars>>,
           poisoned \subseteq poisoned'
    PROVE  /\ status' = [u \in Sync!Threads |-> status'[u]] /\ status'[t] = s
           /\ \A u \in Sync!Threads : u # t => status'[u] = status[u]
           /\ InnerWait'
<1>1. t \in Sync!Threads
  BY DEF Sync!Threads
<1>2. /\ status' = [u \in Sync!Threads |-> status'[u]] /\ status'[t] = s
      /\ \A u \in Sync!Threads : u # t => status'[u] = status[u]
  BY <1>1, OneGoesOn DEF Waiting
<1>3. CalmBut(Sync!AssocThreads) /\ StillOwed
  BY <1>2, ThreadKinds DEF CalmBut, StillOwed, ThreadsApart
<1>4. InnerWait'
  BY <1>3, InnerKeeps DEF Waiting, Sync!innerVars, Sync!notifyVars
<1>. QED  BY <1>2, <1>4

(* send_data is accepted and wakes the pollers, fails, or waits for room. *)
LEMMA WaitingSendData ==
    ASSUME ThreadsApart, Waiting, NEW t \in Senders, Sync!SendData(t)
    PROVE  Waiting'
<1>0. /\ t \in Sync!AssocThreads /\ t \in Sync!Threads /\ t \notin Pollers /\ t \notin Receivers
      /\ status[t] = "running" /\ UNCHANGED <<poisoned, Sync!notifyVars, Sync!innerVars, rx, used>>
      /\ ShapeOf(tx)
  BY ThreadKinds DEF Sync!SendData, ThreadsApart, Waiting, Sane
<1>1. ASSUME NEW s, status' = Sync!Becomes(t, s), UNCHANGED tx, s = "waiting" => Sync!BufferFull(tx)
      PROVE  Waiting'
  <2>1. /\ status' = [u \in Sync!Threads |-> status'[u]] /\ status'[t] = s
        /\ \A u \in Sync!Threads : u # t => status'[u] = status[u]
        /\ InnerWait'
    BY <1>0, <1>1, OneWaits
  <2>2. AssocWait'
    BY <1>0, <1>1, <2>1, ThreadKinds DEF Waiting, AssocWait, ReadersWait, SendersWait, PollersWait
  <2>. QED  BY <1>0, <1>1, <2>1, <2>2 DEF Waiting, Sane, Sync!innerVars
<1>2. CASE /\ Sync!Accepts(tx) /\ tx' \in Sync!AfterSend(tx)
           /\ status' = Sync!NotifyAs(Sync!Becomes(t, IF todo[t] = 1 THEN "done" ELSE "running"),
                                     Sync!TxThreads)
  <2>. DEFINE st == Sync!Becomes(t, IF todo[t] = 1 THEN "done" ELSE "running")
  <2>1. \A u \in Sync!Threads : /\ st[u] = "waiting" => status[u] = "waiting"
                                /\ status[u] = "notifying" => st[u] = "notifying"
    BY <1>0 DEF Sync!Becomes, Waiting, Sane
  <2>. HIDE DEF st
  <2>2. /\ status' = [u \in Sync!Threads |-> status'[u]]
        /\ \A u \in Sync!Threads : /\ u \in Sync!TxThreads => status'[u] # "waiting"
                                   /\ status'[u] = "waiting" => st[u] = "waiting"
                                   /\ st[u] # "waiting" => status'[u] = st[u]
    <3>1. status' = Sync!NotifyAs(st, Sync!TxThreads)
      BY <1>2 DEF st
    <3>. QED  BY <3>1, Notified
  <2>. /\ CalmBut({}) /\ StillOwed
       /\ \A u \in Sync!TxThreads : status'[u] # "waiting"
    BY <2>1, <2>2, ThreadKinds DEF CalmBut, StillOwed
  <2>3. AssocWait'
    BY <1>0, <2>2, ThreadKinds DEF Waiting, AssocWait, ReadersWait, SendersWait, PollersWait,
                                   CalmBut
  <2>4. InnerWait'
    BY <1>0, <2>2, InnerKeeps DEF Waiting, CalmBut, Sync!innerVars, Sync!notifyVars
  <2>5. ShapeOf(tx')
    BY <1>0, <1>2, SameView, SendShape, Zenon
  <2>. QED  BY <1>0, <2>2, <2>3, <2>4, <2>5 DEF Waiting, Sane, Sync!innerVars
<1>. QED  BY <1>1, <1>2 DEF Sync!SendData

(* poll_chunk_to_send takes a chunk, which frees no buffer space, panics, or waits. *)
LEMMA WaitingPollChunkToSend ==
    ASSUME ThreadsApart, Waiting, NEW t \in Pollers, Sync!PollChunkToSend(t)
    PROVE  Waiting'
<1>0. /\ t \in Sync!AssocThreads /\ t \in Sync!Threads /\ t \notin Senders /\ t \notin Receivers
      /\ status[t] = "running" /\ UNCHANGED <<Sync!notifyVars, Sync!innerVars, rx, used>>
      /\ poisoned \subseteq poisoned' /\ ShapeOf(tx)
  BY ThreadKinds DEF Sync!PollChunkToSend, Sync!Panics, ThreadsApart, Waiting, Sane
<1>1. ASSUME NEW s, status' = Sync!Becomes(t, s), UNCHANGED tx,
             s = "waiting" => ~ Sync!HasChunk(tx) /\ ~ Sync!IsClosed(tx)
      PROVE  Waiting'
  <2>1. /\ status' = [u \in Sync!Threads |-> status'[u]] /\ status'[t] = s
        /\ \A u \in Sync!Threads : u # t => status'[u] = status[u]
        /\ InnerWait'
    BY <1>0, <1>1, OneWaits
  <2>2. AssocWait'
    BY <1>0, <1>1, <2>1, ThreadKinds DEF Waiting, AssocWait, ReadersWait, SendersWait, PollersWait
  <2>. QED  BY <1>0, <1>1, <2>1, <2>2 DEF Waiting, Sane, Sync!innerVars
<1>2. CASE Sync!HasChunk(tx) /\ tx' \in Sync!AfterPoll(tx) /\ UNCHANGED <<status, poisoned>>
  <2>1. ShapeOf(tx') /\ (Sync!BufferFull(tx) => Sync!BufferFull(tx'))
    BY <1>0, <1>2, SameView, PollShape, Zenon
  <2>3. AssocWait'
    BY <1>0, <1>2, <2>1 DEF Waiting, AssocWait, ReadersWait, SendersWait, PollersWait
  <2>4. InnerWait'
    BY <1>0, <1>2, InnerKeeps DEF Waiting, CalmBut, StillOwed, Sync!innerVars, Sync!notifyVars
  <2>. QED  BY <1>0, <1>2, <2>1, <2>3, <2>4 DEF Waiting, Sane, Sync!innerVars
<1>. QED  BY <1>1, <1>2 DEF Sync!PollChunkToSend, Sync!Panics, Sync!PanicsOn

(* A wait_timeout that ends: handle_timeout concerns only the thread that calls it. *)
LEMMA WaitingTimedOut ==
    ASSUME ThreadsApart, OnePoller, Waiting, NEW t \in Pollers, Sync!TimedOut(t)
    PROVE  Waiting'
<1>0. /\ t \in Sync!AssocThreads /\ t \in Sync!Threads /\ t \notin Senders /\ t \notin Receivers
      /\ status[t] = "waiting" /\ UNCHANGED <<poisoned, Sync!notifyVars, Sync!innerVars, rx>>
      /\ status' = Sync!Becomes(t, "running") /\ ShapeOf(tx)
  BY ThreadKinds DEF Sync!TimedOut, ThreadsApart, Waiting, Sane
<1>1. /\ status' = [u \in Sync!Threads |-> status'[u]] /\ status'[t] = "running"
      /\ \A u \in Sync!Threads : u # t => status'[u] = status[u]
      /\ InnerWait'
  BY <1>0, OneWaits
<1>2. /\ ShapeOf(tx') /\ Buffered(tx') = Buffered(tx) /\ tx'.shutdown_state = tx.shutdown_state
  BY <1>0, SameView, TimeoutShape, Zenon DEF Sync!TimedOut
<1>3. Sync!BufferFull(tx) => Sync!BufferFull(tx')
  BY <1>2, SameView, Zenon DEF BufferFull
<1>4. AssocWait'
  BY <1>0, <1>1, <1>2, <1>3, ThreadKinds DEF OnePoller, Waiting, AssocWait, ReadersWait,
                                             SendersWait,
                                             PollersWait
<1>5. /\ used' = [packets |-> used'.packets, timeouts |-> used'.timeouts,
                  cb_errors |-> used'.cb_errors]
      /\ used'.cb_errors = used.cb_errors
  <2>1. PICK n : used' = [used EXCEPT !.timeouts = n]
    BY Zenon DEF Sync!TimedOut
  <2>. QED  BY <2>1, Zenon DEF Waiting, Sane
<1>. QED  BY <1>0, <1>1, <1>2, <1>4, <1>5 DEF Waiting, Sane, Sync!innerVars

(* recv_data takes a message or waits for one. *)
LEMMA WaitingRecvData ==
    ASSUME ThreadsApart, Waiting, NEW t \in Receivers, Sync!RecvData(t)
    PROVE  Waiting'
<1>0. /\ t \in Sync!AssocThreads /\ t \in Sync!Threads /\ t \notin Senders /\ t \notin Pollers
      /\ status[t] = "running" /\ UNCHANGED <<poisoned, Sync!notifyVars, Sync!innerVars, tx, used>>
  BY ThreadKinds DEF Sync!RecvData, ThreadsApart
<1>1. ASSUME NEW s, status' = Sync!Becomes(t, s), UNCHANGED rx, s = "waiting" => NothingToRead(rx)
      PROVE  Waiting'
  <2>1. /\ status' = [u \in Sync!Threads |-> status'[u]] /\ status'[t] = s
        /\ \A u \in Sync!Threads : u # t => status'[u] = status[u]
        /\ InnerWait'
    BY <1>0, <1>1, OneWaits
  <2>2. AssocWait'
    BY <1>0, <1>1, <2>1, ThreadKinds DEF Waiting, AssocWait, ReadersWait, SendersWait, PollersWait
  <2>. QED  BY <1>0, <2>1, <2>2 DEF Waiting, Sane, Sync!innerVars
<1>2. CASE rx.events > 0 /\ "rx" \notin poisoned /\ UNCHANGED status
  <2>1. AssocWait'
    BY <1>0, <1>2 DEF Waiting, AssocWait, ReadersWait, SendersWait, PollersWait, NothingToRead
  <2>2. InnerWait'
    BY <1>0, <1>2, InnerKeeps DEF Waiting, CalmBut, StillOwed, Sync!innerVars, Sync!notifyVars
  <2>. QED  BY <1>0, <1>2, <2>1, <2>2 DEF Waiting, Sane, Sync!innerVars
<1>. QED  BY <1>1, <1>2 DEF Sync!RecvData, NothingToRead

(* Every step of the sync wrapper keeps Waiting. *)
LEMMA WaitingStep ==
    ASSUME ThreadsApart, OnePoller, Waiting, [Sync!Next]_(Sync!vars)
    PROVE  Waiting'
<1>1. CASE Sync!RegisterAddress \/ UNCHANGED Sync!vars
  <2>1. UNCHANGED <<status, poisoned, holder, ready_assocs, send_immediate, done, tx, rx, used>>
    BY <1>1 DEF Sync!RegisterAddress, Sync!vars, Sync!notifyVars, Sync!innerVars
  <2>2. AssocWait' /\ InnerWait'
    BY <2>1, AssocKeeps, InnerKeeps DEF Waiting, CalmBut, StillOwed
  <2>. QED  BY <2>1, <2>2 DEF Waiting, Sane
<1>. QED  BY <1>1, WaitingReceiveData, WaitingHandleNotifications, WaitingNotifyAll,
             WaitingMainLoop,
             WaitingConnect, WaitingAccept, WaitingKill, WaitingLockPoisoned, WaitingSendData,
             WaitingPollChunkToSend, WaitingTimedOut, WaitingRecvData DEF Sync!Next

(* Nobody waits at first. *)
LEMMA WaitingStart == Sync!Init => Waiting
<1>. SUFFICES ASSUME Sync!Init  PROVE Waiting
  OBVIOUS
<1>1. \A t \in Sync!Threads : status[t] # "waiting"
  BY DEF Sync!Init
<1>2. AssocWait /\ InnerWait
  BY <1>1, ThreadKinds DEF AssocWait, ReadersWait, SendersWait, PollersWait, InnerWait, MainWaits,
                           OthersWait
<1>3. Sane
  BY DEF Sync!Init, Sane, Sync!NewTx, ShapeOf
<1>. QED  BY <1>2, <1>3 DEF Waiting

(***************************************************************************)
(* With any number of threads, of which one at a time polls the sending    *)
(* half, no notification of a condition variable is lost: whoever changes  *)
(* what a thread waits for notifies it, or still owes it the notify_all    *)
(* that follows the release of the mutex (assoc_sync/assoc.rs).  With two  *)
(* threads in poll_chunk_to_send it is lost: the one whose wait_timeout    *)
(* ends calls handle_timeout and notifies nobody.                          *)
(***************************************************************************)
THEOREM SyncLosesNoWakeup ==
    ASSUME ThreadsApart, OnePoller
    PROVE  Sync!Spec => []Sync!NoLostWakeup
<1>1. Waiting => Sync!NoLostWakeup
  BY ThreadKinds DEF ThreadsApart, Waiting, AssocWait, ReadersWait, SendersWait, PollersWait,
     InnerWait, MainWaits, OthersWait, NothingToRead, Sync!NoLostWakeup
<1>2. Waiting /\ [Sync!Next]_(Sync!vars) => Waiting'
  BY WaitingStep
<1>. QED  BY <1>1, <1>2, WaitingStart, PTL DEF Sync!Spec

-----------------------------------------------------------------------------
(* Where panics come from. *)
CauseStands ==
    /\ used = [packets |-> used.packets, timeouts |-> used.timeouts, cb_errors |-> used.cb_errors]
    /\ used.cb_errors \in Nat /\ Sync!PanicHasCause

(* Every step keeps the causes: nobody changes the sending half once its mutex is poisoned,
   and with that of InnerSctp poisoned as well nobody takes the next notification. *)
LEMMA CauseStep ==
    ASSUME CauseStands, [Sync!Next]_(Sync!vars)
    PROVE  CauseStands'
<1>1. /\ "tx" \in poisoned => UNCHANGED tx
      /\ {"tx", "inner"} \subseteq poisoned => UNCHANGED notifications
  BY Zenon DEF Sync!Next, Sync!HandleNotifications, Sync!Notification, Sync!Unlock,
               Sync!ReceiveData, Sync!NotifyAll, Sync!MainLoop, Sync!Connect,
               Sync!Accept, Sync!Kill, Sync!RegisterAddress, Sync!SendData,
               Sync!PollChunkToSend, Sync!TimedOut, Sync!RecvData, Sync!LockPoisoned,
               Sync!FailsToLock, Sync!vars, Sync!notifyVars
<1>2. \/ UNCHANGED used
      \/ used' = [used EXCEPT !.cb_errors = @ + 1]
      \/ \E n : used' = [used EXCEPT !.packets = n] \/ used' = [used EXCEPT !.timeouts = n]
  BY Zenon DEF Sync!Next, Sync!HandleNotifications, Sync!Notification, Sync!Unlock,
               Sync!ReceiveData, Sync!NotifyAll, Sync!MainLoop, Sync!Connect,
               Sync!Accept, Sync!Kill, Sync!RegisterAddress, Sync!SendData,
               Sync!PollChunkToSend, Sync!TimedOut, Sync!RecvData, Sync!LockPoisoned,
               Sync!FailsToLock, Sync!vars, Sync!CallbackFails
<1>3. /\ used' = [packets |-> used'.packets, timeouts |-> used'.timeouts,
                  cb_errors |-> used'.cb_errors]
      /\ used'.cb_errors \in {used.cb_errors, used.cb_errors + 1}
  BY <1>2, Zenon DEF CauseStands
<1>4. \/ UNCHANGED poisoned
      \/ poisoned' = poisoned \cup {}
      \/ poisoned' = poisoned \cup {"tx"} /\ Sync!IsClosed(tx) /\ UNCHANGED tx
      \/ /\ poisoned' = poisoned \cup {"inner"}
         /\ "tx" \in poisoned \/ used' = [used EXCEPT !.cb_errors = @ + 1]
      \/ /\ poisoned' = poisoned \cup {"inner", "tx", "rx"} /\ UNCHANGED notifications
         /\ notifications # <<>> /\ Sync!NotificationPanics(Head(notifications))
  BY Zenon DEF Sync!Next, Sync!HandleNotifications, Sync!Notification, Sync!Unlock,
               Sync!ReceiveData, Sync!NotifyAll, Sync!MainLoop, Sync!Connect,
               Sync!Accept, Sync!Kill, Sync!RegisterAddress, Sync!SendData,
               Sync!PollChunkToSend, Sync!TimedOut, Sync!RecvData, Sync!LockPoisoned,
               Sync!FailsToLock, Sync!vars, Sync!CallbackFails, Sync!Panics, Sync!PanicsOn,
               Sync!CookieAckNotification, Sync!ChunkNotification
<1>5. used' = [used EXCEPT !.cb_errors = @ + 1] => used'.cb_errors > 0
  BY <1>3 DEF CauseStands
<1>6. Sync!PanicHasCause'
  BY <1>1, <1>3, <1>4, <1>5 DEF CauseStands, Sync!PanicHasCause
<1>. QED  BY <1>3, <1>6 DEF CauseStands

(***************************************************************************)
(* With any number of threads of any kind and whatever packets arrive, a   *)
(* mutex is poisoned only for the reasons that PanicHasCause names, that   *)
(* of the receiving half only by a panic of AssociationRx::notification    *)
(* while handle_notifications has all three locked (assoc_sync/assoc.rs:   *)
(* 195-197).  The cause stays in sight: nobody gets past the poisoned      *)
(* mutexes to undo it.                                                     *)
(***************************************************************************)
THEOREM SyncPanicHasCause == Sync!Spec => []Sync!PanicHasCause
<1>1. Sync!Init => CauseStands
  BY DEF Sync!Init, CauseStands, Sync!PanicHasCause
<1>2. CauseStands => Sync!PanicHasCause
  BY DEF CauseStands
<1>. QED  BY <1>1, <1>2, CauseStep, PTL DEF Sync!Spec
=============================================================================
