--------------------------- MODULE TransferProofs ---------------------------
(***************************************************************************)
(* Sender, receiver and network together implement ReliableDelivery.       *)
(*                                                                         *)
(* The chunks on the wire are the meeting point of the two halves.  The    *)
(* sender numbers them as AssociationRx assumes of its peer (WireIsPeer),  *)
(* so the invariant RInv of the receiver holds for the set of chunks sent  *)
(* so far, and goes on to hold when the set grows (ReceiverSame).  From it *)
(* the receiver reports only what was sent (ReceiverTakes), which is what  *)
(* the invariant of the sender assumes of its peer (ReportIsExpected).     *)
(* Each half thus relies on what the other has done, never on what it will *)
(* do, and one induction over the steps of TransferNext proves both.       *)
(*                                                                         *)
(* The first half of the module is about everything but the receiver, and  *)
(* states what it needs of a step of the receiver as a hypothesis; the     *)
(* second half brings in what AssociationRxSafety proves.                  *)
(***************************************************************************)
EXTENDS Transfer, AssociationTxNumbers

(* The network carries chunks of the wire, and true reports about them. *)
Network ==
    /\ data_net \subseteq wire
    /\ \A sack \in sack_net : IsReport(wire, sack)
    /\ \A i \in DOMAIN tx_notifications : IsReport(wire, SackOf(tx_notifications[i]))

(* The chunks carry what the application has handed over. *)
Application == sent \in Seq(Message) /\ HandedOver(sent)

Outside == Sender /\ Network /\ Application

(* A step of the sender or of the network only. *)
OutsideStep == Outside' /\ [Next]_vars /\ UNCHANGED rcvVars

-----------------------------------------------------------------------------
(* The steps of the sending half. *)

(* A step of the sender alone. *)
LEMMA SenderSide ==
    ASSUME 0 \notin Lens, Outside, Count < WrapRad, [Next]_vars, UNCHANGED rcvVars,
           data_net' \subseteq wire', sack_net' \subseteq sack_net, Application'
    PROVE  OutsideStep
<1>1. Sender' /\ \A sack : IsReport(wire, sack) => IsReport(wire', sack)
  BY SenderSteps, Zenon DEF Outside
<1>2. Network'
  BY <1>1, Zenon DEF Outside, Network, rcvVars, SackOf
<1>3. QED  BY <1>1, <1>2, Zenon DEF Outside, OutsideStep

(* try_send_data accepts a message that it has not accepted before. *)
LEMMA SendStep ==
    ASSUME 0 \notin Lens, Outside, Count < WrapRad, NEW len \in Lens, NEW stream \in Streams,
           NEW unordered \in Orderings, Send(len, stream, unordered)
    PROVE  OutsideStep /\ \E m \in Message : Promise!Accept(m)
<1>.  PICK s, m : s = sent /\ m = Handed(len, stream, unordered)
  BY Zenon
<1>.  /\ [Next]_vars /\ HandedOver(Append(s, m))' /\ wire' = wire
      /\ accepted \in 0 .. MaxBytes /\ \A k \in DOMAIN s : s[k] # m
  BY AcceptShows, Zenon DEF Outside, Application, Send
<1>3. m \in Message
  BY DEF Message, Handed
<1>.  sent' = Append(s, m) /\ UNCHANGED <<rcvVars, data_net, sack_net>>
  BY Zenon DEF Send, Handed
<1>5. Application'
  BY <1>3 DEF Outside, Application
<1>6. OutsideStep
  BY <1>5, SenderSide, Zenon DEF Outside, Network
<1>7. UNCHANGED received
  BY Zenon DEF received, rcvVars
<1>8. QED  BY <1>3, <1>6, <1>7 DEF Promise!Accept, Promise!Occurs

(* poll_data_to_send puts a chunk of the wire into the network. *)
LEMMA TransmitStep ==
    ASSUME 0 \notin Lens, Outside, Count < WrapRad, NEW data_limit \in DataLimits,
           NEW already_packed \in Packed, Transmit(data_limit, already_packed)
    PROVE  OutsideStep
<1>.  PICK s : s = sent
  BY Zenon
<1>2. [Next]_vars /\ HandedOver(s)' /\ wire \subseteq wire' /\ Transmitted \in wire'
  BY TransmitShows, Zenon DEF Outside, Application, Transmit, Transmitted
<1>3. QED  BY <1>2, SenderSide, Zenon DEF Outside, Application, Network, Transmit

(* The other steps leave the queue of the application and the wire alone. *)
LEMMA QuietStep ==
    ASSUME 0 \notin Lens, Outside, Count < WrapRad, [Next]_vars,
           UNCHANGED <<rcvVars, sent, out_queue, accepted, wire>>,
           data_net' \subseteq data_net, sack_net' \subseteq sack_net
    PROVE  OutsideStep
<1>.  PICK s : s = sent
  BY Zenon
<1>2. Application'
  BY HandedOverSame, Zenon DEF Outside, Application
<1>3. QED  BY <1>2, SenderSide DEF Outside, Network

(* The retransmission timer expires. *)
LEMMA ExpireStep ==
    ASSUME 0 \notin Lens, Outside, Count < WrapRad, NEW late \in Late, Expire(late)
    PROVE  OutsideStep
<1>1. [Next]_vars
  BY Zenon DEF Next, Expire
<1>2. QED  BY <1>1, QuietStep, Zenon DEF Expire, HandleRtoTimeout

(* A SACK that arrives is one that the sender expects. *)
LEMMA SackStep ==
    ASSUME 0 \notin Lens, Outside, Count < WrapRad, NEW sack \in sack_net, ReceiveSack(sack)
    PROVE  OutsideStep
<1>1. sack \in PeerSacks
  BY ReportIsExpected, Zenon DEF Outside, Network
<1>2. [Next]_vars
  BY <1>1, Zenon DEF Next, ReceiveSack
<1>3. QED  BY <1>2, QuietStep, Zenon DEF ReceiveSack, HandleSack, vars, dataVars

(* The network loses a chunk. *)
LEMMA LoseStep ==
    ASSUME 0 \notin Lens, Outside, Count < WrapRad, Lose
    PROVE  OutsideStep
BY QuietStep, Zenon DEF Lose, vars, dataVars

(* All steps but those in which the receiver does something. *)
LEMMA StepsOutside ==
    ASSUME 0 \notin Lens, Outside, Count < WrapRad, [TransferNext]_transferVars
    PROVE  \/ OutsideStep /\ [Promise!Next]_<<sent, received>>
           \/ \E data \in data_net : ReceiveData(data) /\ R!HandleDataChunk(data)
           \/ Acknowledge \/ Read
<1>.  UNCHANGED rcvVars => UNCHANGED received
  BY Zenon DEF received, rcvVars
<1>2. ASSUME NEW len \in Lens, NEW stream \in Streams, NEW unordered \in Orderings,
             Send(len, stream, unordered)
      PROVE  OutsideStep /\ Promise!Next
  BY <1>2, SendStep, Zenon DEF Promise!Next
<1>3. ASSUME NEW data_limit \in DataLimits, NEW already_packed \in Packed,
             Transmit(data_limit, already_packed)
      PROVE  OutsideStep /\ UNCHANGED <<sent, received>>
  BY <1>3, TransmitStep DEF Transmit
<1>4. ASSUME NEW late \in Late, Expire(late)
      PROVE  OutsideStep /\ UNCHANGED <<sent, received>>
  BY <1>4, ExpireStep DEF Expire
<1>5. ASSUME NEW sack \in sack_net, ReceiveSack(sack)
      PROVE  OutsideStep /\ UNCHANGED <<sent, received>>
  BY <1>5, SackStep DEF ReceiveSack
<1>6. ASSUME Lose
      PROVE  OutsideStep /\ UNCHANGED <<sent, received>>
  BY <1>6, LoseStep DEF Lose
<1>7. ASSUME UNCHANGED transferVars
      PROVE  OutsideStep /\ UNCHANGED <<sent, received>>
  BY <1>7, QuietStep DEF transferVars, vars, dataVars
<1>8. ASSUME NEW data \in data_net, ReceiveData(data), ~ R!HandleDataChunk(data)
      PROVE  OutsideStep /\ UNCHANGED <<sent, received>>
  BY <1>8, QuietStep DEF ReceiveData, vars, dataVars
<1>9. QED
  BY <1>2, <1>3, <1>4, <1>5, <1>6, <1>7, <1>8 DEF TransferNext

-----------------------------------------------------------------------------
(* What the steps of the receiver leave alone, and what they must do. *)

(* A step of the receiver alone, whose SACKs are true. *)
LEMMA ReceivingSide ==
    ASSUME 0 \notin Lens, Outside, Count < WrapRad, UNCHANGED <<vars, sent>>,
           data_net' \subseteq data_net, \A sack \in sack_net' : IsReport(wire, sack),
           \A i \in DOMAIN tx_notifications' : IsReport(wire, SackOf(tx_notifications'[i]))
    PROVE  Outside'
<1>.  PICK s : s = sent
  BY Zenon
<1>.  Sender' /\ UNCHANGED <<out_queue, accepted, wire>>
  BY SenderSteps, Zenon DEF Outside, vars, dataVars
<1>3. Application'
  BY HandedOverSame, Zenon DEF Outside, Application
<1>4. Network'
  BY Zenon DEF Outside, Network, SackOf
<1>5. QED  BY <1>3, <1>4 DEF Outside

(* One more report, if it is a true one. *)
LEMMA Reports ==
    ASSUME Network, NEW S, tx_notifications \in Seq(S), NEW n, IsReport(wire, SackOf(n)),
           tx_notifications' = Append(tx_notifications, n)
    PROVE  \A i \in DOMAIN tx_notifications' : IsReport(wire, SackOf(tx_notifications'[i]))
<1>1. \A i \in DOMAIN tx_notifications' :
        tx_notifications'[i] = n \/ (i \in DOMAIN tx_notifications
                                     /\ tx_notifications'[i] = tx_notifications[i])
  OBVIOUS
<1>2. QED  BY <1>1, Zenon DEF Network

(* A report of the receiver is one of those that the sender expects. *)
LEMMA TruthIsReport ==
    ASSUME NEW P, NEW n,
           n.cum_tsn = decrease(InitTsn) \/ \E c \in P : c.tsn = n.cum_tsn,
           n.a_rwnd \in 0 .. InBufferLimit,
           n.blocks \subseteq (2 .. WrapRad) \X (2 .. WrapRad),
           \A b \in n.blocks :
             /\ b[1] <= b[2]
             /\ \A k \in b[1] .. b[2] : \E c \in P : c.tsn = WrappingAdd(n.cum_tsn, k),
           \A b, d \in n.blocks : b = d \/ b[2] + 1 < d[1] \/ d[2] + 1 < b[1]
    PROVE  IsReport(P, SackOf(n))
<1> DEFINE sack == SackOf(n)
<1>1. /\ sack.cum_tsn = n.cum_tsn /\ sack.a_rwnd = n.a_rwnd /\ sack.blocks = n.blocks
      /\ sack = [cum_tsn |-> sack.cum_tsn, a_rwnd |-> sack.a_rwnd, blocks |-> sack.blocks]
  BY Zenon DEF SackOf
<1>2. \A b \in n.blocks : b[1] \in 2 .. WrapRad
  BY Zenon
<1>3. AreGapBlocks(n.blocks)
  BY <1>2 DEF AreGapBlocks
<1>4. n.a_rwnd \in ARwnds /\ n.blocks \in GapBlocks
  BY <1>3, TransferAssumption
<1>5. QED  BY <1>1, <1>4, Zenon DEF IsReport

(* What poll_data returns is a message that ReliableDelivery may deliver. *)
LEMMA Delivers ==
    ASSUME Application, NEW S, delivered \in Seq(S), NEW event,
           delivered' = Append(delivered, event), UNCHANGED sent,
           IsNextOf(sent, delivered, MessageFrom(event))
    PROVE  \E m \in Message : Promise!Deliver(m)
<1>1. received = MessagesFrom(delivered) /\ received' = MessagesFrom(delivered')
  BY Zenon DEF received, MessagesFrom, MessageFrom
<1> DEFINE m == MessageFrom(event)
<1>2. received' = Append(received, m)
  BY <1>1, ReadOneMore
<1>3. IsNextOf(sent, delivered, m)
  BY Zenon
<1> HIDE DEF m
<1>4. m \in Message /\ Promise!Deliver(m)
  BY <1>1, <1>2, <1>3 DEF Application, IsNextOf, Promise!Deliver, Promise!Occurs,
     Promise!OrderedBehind, MessagesFrom
<1>5. QED  BY <1>4, Zenon

-----------------------------------------------------------------------------
(* The receiving half with what is proved of it. *)
RP == INSTANCE AssociationRxSafety
          WITH tsn_counter <- rcv_tsn_counter, shutdown_state <- "None",
               PeerChunks <- {}, PeerSignals <- {}

(* What AssociationRx assumes of its constants. *)
LEMMA RxConstants ==
    /\ RP!IsPeer({}) /\ InitTsn \in RP!Tsn /\ {} \subseteq RP!Signal
    /\ InStreams \in Nat /\ InBufferLimit \in Nat /\ GapMod \in Nat \ {0}
    /\ MaxTxNotifications \in Nat
    /\ TsnMod \in Nat /\ WrapRad \in Nat /\ 0 < WrapRad /\ 3 * WrapRad <= TsnMod
<1>1. RP!IsPeer({})
  BY Zenon DEF RP!IsPeer
<1>2. InitTsn \in RP!Tsn
  BY TxAssumption DEF RP!Tsn, Tsn
<1>3. QED  BY <1>1, <1>2, TransferAssumption, TsnAssumption

USE RxConstants

(* R and RP are the same receiver. *)
LEMMA SameDataStep ==
    ASSUME NEW data, R!HandleDataChunk(data)
    PROVE  RP!HandleDataChunk(data)
BY Zenon DEF R!HandleDataChunk, RP!HandleDataChunk, R!AssertInvariants, RP!AssertInvariants,
   R!EventChunks, RP!EventChunks, R!ReorderChunk, RP!ReorderChunk,
   R!IgnoreUnknownStream, RP!IgnoreUnknownStream,
   R!HandleInOrderPacket, RP!HandleInOrderPacket, R!QueueAck, RP!QueueAck, R!SackBlocks, RP!SackBlocks,
   R!Offsets, RP!Offsets, R!Fits, RP!Fits, R!KnownStream, RP!KnownStream, R!Offset, RP!Offset,
   R!NextInOrder, RP!NextInOrder, R!Following, RP!Following, R!IsDrain, RP!IsDrain, R!Key, RP!Key,
   R!Reassembled, RP!Reassembled, R!Ends, RP!Ends, R!InTsnOrder, RP!InTsnOrder,
   R!EventsOf, RP!EventsOf,
   R!increase, RP!increase, R!TsnGT, RP!TsnGT, R!TsnLT, RP!TsnLT, R!BufLen, RP!BufLen, R!TotalLen, RP!TotalLen,
   R!Octets, RP!Octets, R!WrappingSub, RP!WrappingSub, R!WrappingAdd, RP!WrappingAdd, R!WRAP_HI, RP!WRAP_HI,
   R!WRAP_LO, RP!WRAP_LO, R!Cardinality, RP!Cardinality, R!IsFiniteSet, RP!IsFiniteSet

(* poll_data is the same in both instances of the receiver. *)
LEMMA SamePollData ==
    ASSUME R!PollData
    PROVE  RP!PollData
BY Zenon DEF R!PollData, RP!PollData, R!AssertInvariants, RP!AssertInvariants, R!EventChunks,
   RP!EventChunks, R!PopNextReceiveEvent, RP!PopNextReceiveEvent, R!PopUnordered, RP!PopUnordered, R!PopOrdered, RP!PopOrdered,
   R!TotalLen, RP!TotalLen, R!Octets, RP!Octets, R!Cardinality, RP!Cardinality,
   R!IsFiniteSet, RP!IsFiniteSet

-----------------------------------------------------------------------------
(* The chunks on the wire are those of a peer that AssociationRx assumes. *)

(* Sender and receiver count TSNs alike. *)
LEMMA SamePlace == RP!Tsn = Tsn /\ \A c : RP!Place(c) = Number(c)
BY Zenon DEF RP!Tsn, Tsn, RP!Place, RP!WrappingSub, Number, WrappingSub

(* What the sender has sent is what the receiver assumes of a peer. *)
LEMMA WireIsPeer ==
    ASSUME Sender, Count < WrapRad
    PROVE  RP!IsPeer(wire)
<1>.  PICK P : P = wire
  BY Zenon
<1>2. WireOrdered(P) /\ DataChunk \subseteq RP!DataChunk
  BY WireIsOrdered, SamePlace, TxAssumption DEF RP!DataChunk, DataChunk, Streams, SeqNum
<1>3. QED  BY <1>2, SamePlace DEF RP!IsPeer, WireOrdered, RP!Continues

(* The same after a step. *)
LEMMA WireIsPeerNext == (Sender /\ Count < WrapRad => RP!IsPeer(wire))'
<1>1. Sender /\ Count < WrapRad => RP!IsPeer(wire)
  BY WireIsPeer
<1>2. QED  BY <1>1, PTL

-----------------------------------------------------------------------------
(* The invariant. *)

(* The receiver knows no chunk but those on the wire. *)
Receiver == RP!RInv(wire)

TInv == Outside /\ Receiver

(***************************************************************************)
(* No more than WrapRad chunks are sent, the reach of Tsn::cmp, and the    *)
(* offsets of the gap blocks fit their field.                              *)
(***************************************************************************)
InReach == Count < WrapRad /\ RP!WithinGap

(* InReach, where the invariant of the two halves holds. *)
BothInReach == (Sender => Count < WrapRad) /\ (Sender /\ Receiver => RP!WithinGap)

(* The receiver is not disturbed by what the sender adds to the wire. *)
LEMMA ReceiverSame ==
    ASSUME Sender, Sender', Count' < WrapRad, Receiver, [Next]_vars, UNCHANGED rcvVars
    PROVE  Receiver'
<1>.  PICK P, Q : P = wire /\ Q = wire'
  OBVIOUS
<1>2. /\ RP!RInv(P) /\ RP!IsPeer(Q)
      /\ P \subseteq Q /\ \A c \in Q : c \in P \/ RP!Place(c) = Count
  BY WireIsPeerNext, WireGrows, SamePlace DEF Receiver
<1>3. Count \in Nat /\ \A c \in P : RP!Place(c) < Count
  BY NumberType, SamePlace DEF Sender, Inv, Numbered
<1>4. UNCHANGED RP!vars
  BY DEF rcvVars, RP!bufferVars, RP!vars
<1>5. QED  BY <1>2, <1>3, <1>4, RP!RInvGrows DEF Receiver

(* handle_data_chunk queues a true report. *)
LEMMA ReceiverTakes ==
    ASSUME 0 \notin Lens, TInv, BothInReach, BothInReach', NEW data \in data_net,
           ReceiveData(data), R!HandleDataChunk(data)
    PROVE  TInv' /\ UNCHANGED <<sent, received>>
<1>.  PICK P : P = wire
  OBVIOUS
<1>.  /\ UNCHANGED <<vars, sack_net, sent, delivered>> /\ wire' = P
      /\ data_net' \subseteq data_net /\ RP!RInv(P) /\ data \in P
  BY DEF ReceiveData, R!HandleDataChunk, vars, dataVars, TInv, Outside, Receiver, Network
<1>3. /\ RP!RInv(P)' /\ Sender'
      /\ \E n : /\ tx_notifications' = Append(tx_notifications, n)
                /\ RP!WithinGap' => RP!IsTruthful(P, n)
  BY SameDataStep, SenderSteps, RP!RInvTakes DEF TInv, Outside, BothInReach
<1>4. Receiver' /\ RP!WithinGap'
  BY <1>3 DEF Receiver, BothInReach
<1>.  PICK n : tx_notifications' = Append(tx_notifications, n) /\ RP!IsTruthful(P, n)
  BY <1>3, <1>4
<1>6. IsReport(P, SackOf(n))
  BY TruthIsReport DEF RP!IsTruthful, RP!decrease, decrease, RP!WrappingAdd, WrappingAdd
<1>7. tx_notifications \in Seq(RP!TxNotification)
  BY DEF RP!RInv, RP!IInv, RP!Typed
<1>8. \A i \in DOMAIN tx_notifications' : IsReport(wire, SackOf(tx_notifications'[i]))
  BY <1>6, <1>7, Reports DEF TInv, Outside
<1>9. Outside'
  BY <1>8, ReceivingSide DEF TInv, Outside, Network, BothInReach
<1>10. QED  BY <1>4, <1>9, Zenon DEF TInv, received

(* The wrapper takes a SACK from the receiver and sends it. *)
LEMMA ReceiverDrains ==
    ASSUME 0 \notin Lens, TInv, BothInReach, Acknowledge
    PROVE  TInv' /\ UNCHANGED <<sent, received>>
<1>.  PICK P : P = wire
  OBVIOUS
<1>.  RP!TxNotifications /\ UNCHANGED <<vars, data_net, sent>> /\ wire' = P
  <2>1. R!AssertInvariants => RP!AssertInvariants
    BY Zenon DEF R!AssertInvariants, RP!AssertInvariants, R!EventChunks, RP!EventChunks,
       R!TotalLen, RP!TotalLen, R!Octets, RP!Octets, R!Cardinality, RP!Cardinality,
       R!IsFiniteSet, RP!IsFiniteSet
  <2>. QED  BY <2>1 DEF Acknowledge, R!TxNotifications, RP!TxNotifications, R!bufferVars,
                        RP!bufferVars, vars, dataVars
<1>3. Receiver'
  BY RP!RInvDrains DEF TInv, Receiver
<1>.  tx_notifications' = <<>> /\ UNCHANGED delivered
  BY DEF RP!TxNotifications, RP!bufferVars
<1>5. \A sack \in sack_net' : IsReport(wire, sack)
  BY DEF TInv, Outside, Network, Acknowledge
<1>6. Outside'
  BY <1>5, ReceivingSide DEF TInv, Outside, BothInReach
<1>7. QED  BY <1>3, <1>6, Zenon DEF TInv, received

(* poll_data returns the next message. *)
LEMMA ReceiverReads ==
    ASSUME 0 \notin Lens, TInv, BothInReach, Read
    PROVE  TInv' /\ \E m \in Message : Promise!Deliver(m)
<1>.  PICK P, s : P = wire /\ s = sent
  OBVIOUS
<1>.  UNCHANGED <<vars, data_net, sack_net, sent>> /\ wire' = P /\ R!PollData
  BY DEF Read, vars, dataVars
<1>3. RP!AreSent(P, s)
  <2>1. AreSent(P, s)
    BY WireIsSent DEF TInv, Outside, Application
  <2>2. QED
    BY <2>1, Zenon DEF AreSent, RP!AreSent, AreMessages, RP!AreMessages, IsMessage, RP!IsMessage,
       PartOf, RP!PartOf, Octets, RP!Octets
<1>4. /\ RP!RInv(P)'
      /\ \E event : /\ delivered' = Append(delivered, event)
                    /\ RP!IsNextMessage(s, RP!MessageFrom(event))
  BY <1>3, SamePollData, RP!RInvReads DEF TInv, Receiver
<1>.  PICK event : /\ delivered' = Append(delivered, event)
                   /\ RP!IsNextMessage(s, RP!MessageFrom(event))
  BY <1>4
<1>6. IsNextOf(s, delivered, MessageFrom(event))
  BY Zenon DEF RP!IsNextMessage, RP!IsNextOf, IsNextOf, RP!MessageFrom, MessageFrom,
     RP!Octets, Octets
<1>7. delivered \in Seq(RP!EventIn(P))
  BY DEF TInv, Receiver, RP!RInv, RP!IInv, RP!Typed
<1>8. \E m \in Message : Promise!Deliver(m)
  BY <1>6, <1>7, Delivers DEF TInv, Outside
<1>9. UNCHANGED tx_notifications
  BY DEF R!PollData
<1>10. Outside'
  BY <1>9, ReceivingSide DEF TInv, Outside, Network, BothInReach
<1>11. QED  BY <1>4, <1>8, <1>10 DEF TInv, Receiver

(* Every step keeps TInv and is one of ReliableDelivery, or none. *)
LEMMA TransferStep ==
    ASSUME 0 \notin Lens, TInv, BothInReach, BothInReach', [TransferNext]_transferVars
    PROVE  TInv' /\ [Promise!Next]_<<sent, received>>
<1>1. ASSUME OutsideStep  PROVE TInv'
  BY <1>1, ReceiverSame DEF TInv, Outside, OutsideStep, BothInReach
<1>2. ASSUME Read  PROVE TInv' /\ Promise!Next
  BY <1>2, ReceiverReads, Zenon DEF Promise!Next
<1>3. \/ OutsideStep /\ [Promise!Next]_<<sent, received>>
      \/ \E data \in data_net : ReceiveData(data) /\ R!HandleDataChunk(data)
      \/ Acknowledge \/ Read
  BY StepsOutside DEF TInv, Outside, BothInReach
<1>4. QED  BY <1>1, <1>2, <1>3, ReceiverTakes, ReceiverDrains

-----------------------------------------------------------------------------
(* What follows for every behavior. *)

(* Sender, receiver and network begin empty. *)
LEMMA TransferStart == TransferInit => TInv /\ Promise!Init
<1> SUFFICES ASSUME TransferInit  PROVE TInv /\ Promise!Init
    OBVIOUS
<1>1. Sender /\ HandedOver(<<>>) /\ wire = {}
  BY SenderInit, HandedOverInit DEF TransferInit, Init
<1>2. RP!Init
  BY Zenon DEF TransferInit, R!Init, RP!Init, R!decrease, RP!decrease
<1>3. Receiver
  BY <1>1, <1>2, RP!RInvInit DEF Receiver
<1>4. tx_notifications = <<>> /\ delivered = <<>> /\ received = <<>>
  BY <1>2 DEF RP!Init, received
<1>5. QED  BY <1>1, <1>3, <1>4 DEF TInv, Outside, Network, Application, TransferInit, Promise!Init

(* While TSNs and gap offsets are in reach, TInv holds and the refinement with it. *)
LEMMA TransferInvariance ==
    ASSUME 0 \notin Lens
    PROVE  TransferSpec /\ []BothInReach => Implements /\ []TInv
<1>1. TInv /\ BothInReach /\ BothInReach' /\ [TransferNext]_transferVars
        => TInv' /\ [Promise!Next]_<<sent, received>>
  BY TransferStep
<1>2. QED  BY <1>1, TransferStart, PTL DEF TransferSpec, Implements, Promise!Spec

(* Under TInv, the receiver's SACKs are those the sender expects. *)
LEMMA ExpectedSacks == TInv /\ BothInReach => PeerIsFaithful
BY ReportIsExpected DEF TInv, Outside, BothInReach, Network, PeerIsFaithful

(***************************************************************************)
(* While no more chunks are sent than Tsn::cmp can tell apart and the      *)
(* offsets of gap blocks fit their field, an association implements        *)
(* ReliableDelivery: poll_data returns only messages that try_send_data    *)
(* has accepted, each at most once, whole, and the ordered ones of a       *)
(* stream in order, whatever the network loses, repeats or reorders.       *)
(***************************************************************************)
THEOREM TransferImplements ==
    ASSUME 0 \notin Lens
    PROVE  TransferSpec /\ []InReach => Implements
<1>1. InReach => BothInReach
  BY DEF InReach, BothInReach
<1>2. QED  BY <1>1, TransferInvariance, PTL

(***************************************************************************)
(* As long, every SACK that queue_ack builds and the network carries is    *)
(* one that handle_sack may expect: the receiving half is a peer of the    *)
(* kind for which the properties of the sending half are proved.           *)
(***************************************************************************)
THEOREM TransferPeerIsFaithful ==
    ASSUME 0 \notin Lens
    PROVE  TransferSpec /\ []InReach => []PeerIsFaithful
<1>1. InReach => BothInReach
  BY DEF InReach, BothInReach
<1>2. QED  BY <1>1, TransferInvariance, ExpectedSacks, PTL

(* With few bytes, TSNs and gap offsets are always in reach. *)
LEMMA FewBytesFit ==
    ASSUME MaxBytes < WrapRad, MaxBytes < GapMod
    PROVE  BothInReach
<1>1. ASSUME Sender  PROVE Count < WrapRad
  BY <1>1, CountBound, TxAssumption
<1>2. ASSUME Sender, Receiver  PROVE RP!WithinGap
  <2>1. PICK P : P = wire
    OBVIOUS
  <2>2. \A c \in P : RP!Place(c) + 1 < GapMod
    BY <1>2, <2>1, CountBound, SamePlace, TxAssumption
  <2>3. QED  BY <1>2, <2>1, <2>2, RP!FewChunksFit DEF Receiver, RP!RInv
<1>3. QED  BY <1>1, <1>2 DEF BothInReach

(* An application that hands over fewer bytes than either bound stays      *)
(* within both, whatever happens: then nothing else is assumed.            *)
COROLLARY TransferOfFewBytes ==
    ASSUME 0 \notin Lens, MaxBytes < WrapRad, MaxBytes < GapMod
    PROVE  TransferSpec => Implements /\ []PeerIsFaithful
BY FewBytesFit, TransferInvariance, ExpectedSacks, PTL
=============================================================================
