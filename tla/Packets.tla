------------------------------ MODULE Packets -------------------------------
(***************************************************************************)
(* Packets, octet by octet: collect_all_chunks packs the chunks that an    *)
(* association has queued, Sctp::receive_data takes a packet apart again.  *)
(*                                                                         *)
(* One endpoint receives, each of its peers is known by its port.  A peer  *)
(* connects with an INIT, echoes the cookie of the INIT ACK and sends      *)
(* packets: those its own association packs, and packets of other SCTP     *)
(* programs.  The network delivers them; what else it may do to them is in *)
(* Setup and Transfer, and so are the tags, which are fixed here.  Only    *)
(* the endpoint that answers is modelled, so wait_init_ack and             *)
(* wait_cookie_ack stay empty, and a peer's cookie opens one association.  *)
(***************************************************************************)
EXTENDS Integers, Sequences, Wire

CONSTANTS Port,            \* the peers
          LocalPort,
          Pmtu,            \* highest_successful of a peer's path MTU search
          Capacity,        \* the octets a peer's packet buffer has
          Inits,           \* the INIT chunks each peer may connect with
          Queues,          \* what each peer's association may have queued: signals, DATA
          Bundles,         \* what each peer may send behind its COOKIE ECHO
          Foreign,         \* the packets that each peer may send as another program
          MaxForeign       \* bound: packets that each peer sends as another program

ASSUME PacketsAssumption ==
    /\ Port \subseteq 1 .. 1000 /\ LocalPort \in 1 .. 1000 /\ LocalPort \notin Port
    /\ Pmtu \in Nat /\ Capacity \in Nat /\ Capacity % 4 = 0 /\ MaxForeign \in [Port -> Nat]

VARIABLES send_next,          \* of each peer, the signals that wait
          out_queue,          \* of each peer, the DATA chunks that wait
          assoc_infos,        \* the associations, with the cookie they were opened by
          rx_notifications,   \* of the endpoint, as <<port, chunk>>
          send_immediate,     \* of the endpoint, as <<port, chunk>>
          packets,            \* of each peer, the packets it has sent, as chunks
          foreign             \* of each peer, how many of them as another program

endpointVars == <<assoc_infos, rx_notifications, send_immediate>>
vars == <<send_next, out_queue, endpointVars, packets, foreign>>

TagOf(port) == 1000 + port
PeerTag == 7

Init ==
    /\ \E queues \in [Port -> UNION {Queues[p] : p \in Port}] :
         /\ \A p \in Port : queues[p] \in Queues[p]
         /\ send_next = [p \in Port |-> queues[p][1]]
         /\ out_queue = [p \in Port |-> queues[p][2]]
    /\ assoc_infos = <<>>
    /\ rx_notifications = <<>>
    /\ send_immediate = <<>>
    /\ packets = [p \in Port |-> <<>>]
    /\ foreign = [p \in Port |-> 0]

-----------------------------------------------------------------------------
(* The limits of poll_signal_to_send and poll_data_to_send.  What else holds DATA back is *)
(* in AssociationTx; here a message fits in the path MTU and is not fragmented.           *)
Least(a, b) == IF a <= b THEN a ELSE b

SignalFits(c, limit, already_packed) ==
    \/ serialized_size(c) <= Least(limit, Pmtu - Least(Pmtu, already_packed))
    \/ c.kind = "HeartBeat" /\ already_packed = 0

DataFits_NoHeader(c, limit, already_packed) ==
    /\ Pmtu > already_packed
    /\ Len(c.buf) <= Least(limit, Pmtu - already_packed)
DataFits(c, limit, already_packed) ==
    /\ Pmtu > already_packed
    /\ LET data_limit == Least(limit, Pmtu - already_packed)
       IN data_limit > 16 /\ Len(c.buf) <= data_limit - 16

(* try_poll_any_chunk: the chunk that is next, as a sequence of at most one. *)
TryPoll(signals, data, limit, already_packed) ==
    IF signals # <<>> /\ SignalFits(Head(signals), limit, already_packed) THEN <<Head(signals)>>
    ELSE IF data # <<>> /\ DataFits(Head(data), limit, already_packed) THEN <<Head(data)>>
    ELSE <<>>

Without(queue, polled) == IF polled # <<>> /\ queue # <<>> /\ Head(queue) = polled[1]
                          THEN Tail(queue) ELSE queue

(* collect_all_chunks, from the point where chunks are packed and byte_ctr counted. *)
RECURSIVE Collect(_, _, _, _, _), CollectMore(_, _, _, _, _, _)
Collect(signals, data, room, already_packed, byte_ctr) ==
    CollectMore(TryPoll(signals, data, room, already_packed),
                signals, data, room, already_packed, byte_ctr)
CollectMore(polled, signals, data, room, already_packed, byte_ctr) ==
    IF polled = <<>> THEN <<>>
    ELSE LET left == room - Len(SerializeChunk(polled[1]))
             counted == byte_ctr + serialized_size(polled[1])
         IN polled \o (IF already_packed # 0 /\ left < 20 THEN <<>>
                       ELSE Collect(Without(signals, polled), Without(data, polled),
                                    left, counted, counted))

collect_all_chunks(signals, data) == Collect(signals, data, Capacity, 0, 12)

Octets(chunks) == Concat([i \in DOMAIN chunks |-> SerializeChunk(chunks[i])])
PacketOf(port, octets) ==
    SerializePacket([from |-> port, to |-> LocalPort, verification_tag |-> TagOf(port)], octets)
    \o octets

-----------------------------------------------------------------------------
(* process_chunks, one iteration: s has the octets left and what becomes of the queues. *)
To(port, chunk) == <<port, chunk>>
NotOf(port, queue) == SelectSeq(queue, LAMBDA e : e[1] # port)

ProcessChunk(port, s, c, rest) ==
    CASE c.kind \in {"Done", "IllegalFormat"} -> [s EXCEPT !.data = <<>>]
      [] c.kind = "Unrecognized" ->
           [s EXCEPT !.data = IF c.stop THEN <<>> ELSE rest,
                     !.send = IF c.report THEN Append(@, To(port, [kind |-> "OpError"])) ELSE @]
      [] c.kind = "Abort" ->
           [s EXCEPT !.data = <<>>, !.open = FALSE,
                     !.rx = Append(NotOf(port, @), To(port, c)),
                     !.send = NotOf(port, @)]
      [] c.kind = "HeartBeat" ->
           [s EXCEPT !.data = rest,
                     !.send = Append(@, To(port, [kind |-> "HeartBeatAck", content |-> c.content]))]
      [] c.kind \in {"Init", "InitAck", "Padding"} -> [s EXCEPT !.data = rest]
      [] OTHER -> [s EXCEPT !.data = rest, !.rx = Append(@, To(port, c))]

RECURSIVE process_chunks(_, _), ProcessParsed(_, _, _)
process_chunks(port, s) == IF s.data = <<>> THEN s ELSE ProcessParsed(port, s, ParseChunk(s.data))
ProcessParsed(port, s, p) ==
    process_chunks(port, ProcessChunk(port, s, p.result, From(s.data, 1 + p.size)))

-----------------------------------------------------------------------------
(* handle_init: the cookie and the INIT ACK that answer an INIT. *)
CookieFor(packet, init) ==
    LET c == [mac |-> 0, init_address |-> [kind |-> "Fake", addr |-> packet.from],
              aliases |-> init.aliases, peer_port |-> packet.from, local_port |-> packet.to,
              local_verification_tag |-> TagOf(packet.from),
              peer_verification_tag |-> init.initiate_tag, local_initial_tsn |-> 30,
              peer_initial_tsn |-> init.initial_tsn, incoming_streams |-> Least(10, init.outbound_streams),
              outgoing_streams |-> Least(10, init.inbound_streams), peer_arwnd |-> init.a_rwnd]
    IN [c EXCEPT !.mac = calc_mac(c)]

InitAckFor(packet, init) ==
    [kind |-> "InitAck", initiate_tag |-> TagOf(packet.from), a_rwnd |-> 90, outbound_streams |-> 10,
     inbound_streams |-> 10, initial_tsn |-> 30, cookie |-> Ours(CookieFor(packet, init)),
     unrecognized |-> init.unrecognized, aliases |-> <<>>, cookie_preservative |-> {},
     supported_addr_types |-> {}]

Starts(data, typ) == Len(data) >= 4 /\ data[1] = typ

HandleInit(packet, data, first) ==
    /\ UNCHANGED <<assoc_infos, rx_notifications>>
    /\ send_immediate' = IF first.result.kind = "Init" /\ first.size = Len(data)
                         THEN Append(send_immediate, To(packet.from, InitAckFor(packet, first.result)))
                         ELSE send_immediate

(* From the look up of the association on. *)
Processed(port, infos, s) ==
    /\ assoc_infos' = [q \in IF s.open THEN DOMAIN infos ELSE DOMAIN infos \ {port} |-> infos[q]]
    /\ rx_notifications' = s.rx
    /\ send_immediate' = s.send
Ignored(infos) == assoc_infos' = infos /\ UNCHANGED <<rx_notifications, send_immediate>>
Dispatch(packet, infos, data) ==
    IF \/ packet.from \notin DOMAIN infos
       \/ infos[packet.from].local_verification_tag # packet.verification_tag
    THEN Ignored(infos)
    ELSE Processed(packet.from, infos,
                   process_chunks(packet.from, [data |-> data, open |-> TRUE,
                                                rx |-> rx_notifications, send |-> send_immediate]))

(* first is the chunk at the head of data. *)
HandleCookieAck(packet, infos, data, first) ==
    CASE ~ Starts(data, 11) -> Dispatch(packet, infos, data)
      [] Starts(data, 11) /\ first.result.kind = "StateCookieAck" ->
           Dispatch(packet, infos, From(data, 1 + first.size))
      [] OTHER -> Ignored(infos)

(* The cookies that the chunk is accepted with, and the associations after the first of them. *)
EchoedCookie(c) ==
    IF c.kind # "StateCookie" THEN {}
    ELSE {cookie \in MakeOurs(c.cookie) : calc_mac(cookie) = cookie.mac}
Opened(port, cookies) ==
    [q \in DOMAIN assoc_infos \cup {port} |->
        IF q \in DOMAIN assoc_infos THEN assoc_infos[q] ELSE CHOOSE cookie \in cookies : TRUE]
HandleCookieEcho(packet, rest, cookies) ==
    IF cookies = {} THEN Ignored(assoc_infos)
    ELSE HandleCookieAck(packet, Opened(packet.from, cookies), rest, ParseChunk(rest))

HandlePacket(packet, data, first) ==
    CASE Starts(data, 1) -> HandleInit(packet, data, first)
      [] Starts(data, 2) -> Ignored(assoc_infos)
      [] Starts(data, 10) ->
           HandleCookieEcho(packet, From(data, 1 + first.size), EchoedCookie(first.result))
      [] OTHER -> HandleCookieAck(packet, assoc_infos, data, first)

ReceiveData(octets) ==
    IF ParsePacket(octets) = {} THEN Ignored(assoc_infos)
    ELSE \E packet \in ParsePacket(octets) :
            HandlePacket(packet, From(octets, 13), ParseChunk(From(octets, 13)))

-----------------------------------------------------------------------------
(* The peers.  The network delivers a packet when it is sent. *)
Send(port, chunks) ==
    /\ packets' = [packets EXCEPT ![port] = Append(@, chunks)]
    /\ ReceiveData(PacketOf(port, Octets(chunks)))

HasConnected(port) == \E i \in DOMAIN packets[port] : packets[port][i][1].kind = "Init"
Connect(port) ==
    /\ ~ HasConnected(port)
    /\ \E init \in Inits[port] : Send(port, <<init>>)
    /\ UNCHANGED <<send_next, out_queue, foreign>>

HasEchoed(port) == \E i \in DOMAIN packets[port] : packets[port][i][1].kind = "StateCookie"

(* handle_init_ack of the peer: it parses the INIT ACK it got and returns the cookie. *)
Read(c) == {ParseChunk(SerializeChunk(c)).result}
Echo(port) ==
    /\ ~ HasEchoed(port)
    /\ \E i \in DOMAIN send_immediate, more \in Bundles[port] :
         /\ send_immediate[i][1] = port /\ send_immediate[i][2].kind = "InitAck"
         /\ \E ack \in Read(send_immediate[i][2]) :
              /\ ack.kind = "InitAck"
              /\ Send(port, <<[kind |-> "StateCookie", cookie |-> ack.cookie]>> \o more)
    /\ UNCHANGED <<send_next, out_queue, foreign>>

Transmit(port) ==
    \E chunks \in {collect_all_chunks(send_next[port], out_queue[port])} :
    LET sent(queue) == Len(SelectSeq(chunks, LAMBDA c : (c.kind = "Data") = (queue = "out_queue")))
    IN /\ HasEchoed(port) /\ chunks # <<>>
       /\ Send(port, chunks)
       /\ send_next' = [send_next EXCEPT ![port] = From(@, 1 + sent("send_next"))]
       /\ out_queue' = [out_queue EXCEPT ![port] = From(@, 1 + sent("out_queue"))]
       /\ UNCHANGED foreign

OtherProgram(port) ==
    /\ foreign[port] < MaxForeign[port]
    /\ foreign' = [foreign EXCEPT ![port] = @ + 1]
    /\ \E chunks \in Foreign[port] : Send(port, chunks)
    /\ UNCHANGED <<send_next, out_queue>>

Next == \E port \in Port : Connect(port) \/ Echo(port) \/ Transmit(port) \/ OtherProgram(port)
Spec == Init /\ [][Next]_vars

-----------------------------------------------------------------------------
(* What a peer has sent, read off the chunks: those that follow the opening of its        *)
(* association, up to a chunk that stops the packet, and up to an ABORT.                  *)
Behind(chunks) ==
    LET unechoed == IF chunks[1].kind = "StateCookie" THEN Tail(chunks) ELSE chunks
    IN CASE unechoed = <<>> \/ chunks[1].kind \in {"Init", "InitAck"} -> <<>>
         [] unechoed # <<>> /\ unechoed[1].kind = "StateCookieAck" -> Tail(unechoed)
         [] OTHER -> unechoed
UpTo(chunks, last) == IF last = {} THEN chunks ELSE SubSeq(chunks, 1, Min(last))
UpToStop(chunks) ==
    UpTo(chunks, {i \in DOMAIN chunks : chunks[i].kind = "Unknown" /\ chunks[i].typ < 128})
UpToAbort(chunks) == UpTo(chunks, {i \in DOMAIN chunks : chunks[i].kind = "Abort"})

Meant(port) ==
    LET echoes == {i \in DOMAIN packets[port] : packets[port][i][1].kind = "StateCookie"}
        opened == From(packets[port], Min(echoes))
        effective == [i \in DOMAIN opened |-> UpToStop(Behind(opened[i]))]
    IN IF echoes = {} THEN <<>> ELSE UpToAbort(Concat(effective))
HasAborted(port) == \E i \in DOMAIN Meant(port) : Meant(port)[i].kind = "Abort"

Of(port, queue) ==
    LET its == SelectSeq(queue, LAMBDA e : e[1] = port) IN [i \in DOMAIN its |-> its[i][2]]
Answer(c) == IF c.kind = "Unknown" THEN [kind |-> "OpError"]
             ELSE [kind |-> "HeartBeatAck", content |-> Opaque(HeartBeatValue(c.content))]
(* A received chunk has its cookie or its heartbeat as octets. *)
Received(c) ==
    CASE c.kind = "HeartBeatAck" -> [c EXCEPT !.content = Opaque(HeartBeatValue(@))]
      [] c.kind = "StateCookie" -> [c EXCEPT !.cookie = Opaque(SerializeStateCookie(@))]
      [] OTHER -> c

(***************************************************************************)
(* Whatever is packed together, and however long its chunks are, an        *)
(* association gets exactly the chunks that its peer sent, unchanged and   *)
(* in order: padding is skipped, unknown chunks and the PAD of a probe     *)
(* shift nothing, an ABORT voids what came before it and touches no other  *)
(* association.  Chunk::serialize, Chunk::parse and process_chunks.        *)
(***************************************************************************)
Dispatched ==
    \A port \in Port :
        LET kept == SelectSeq(Meant(port), LAMBDA c : c.kind \notin {"Init", "InitAck", "HeartBeat", "Unknown"})
        IN Of(port, rx_notifications) =
             IF HasAborted(port) THEN <<Last(kept)>> ELSE [i \in DOMAIN kept |-> Received(kept[i])]

(***************************************************************************)
(* Every heartbeat is answered once with its own content, so that the      *)
(* answer to a probe tells the prober (HeartBeatAck::ours) which size got  *)
(* through; of the unknown chunks exactly those that ask for it are        *)
(* reported.  Nothing is left to send to a peer that has aborted.          *)
(* process_chunks and HeartBeat, HeartBeatAck of packet.rs.                *)
(***************************************************************************)
Answered ==
    \A port \in Port :
        LET asks == SelectSeq(Meant(port), LAMBDA c : \/ c.kind = "HeartBeat"
                                                      \/ c.kind = "Unknown" /\ c.typ \div 64 \in {1, 3})
            answers == SelectSeq(Of(port, send_immediate), LAMBDA c : c.kind # "InitAck")
        IN /\ answers = (IF HasAborted(port) THEN <<>> ELSE [i \in DOMAIN asks |-> Answer(asks[i])])
           /\ ~ HasAborted(port) =>
                \A i \in DOMAIN asks : asks[i].kind = "HeartBeat" /\ asks[i].content.kind = "Probe" =>
                    ours(ParseChunk(SerializeChunk(answers[i])).result.content)
                        = {asks[i].content.pmtu_probe}

(***************************************************************************)
(* A cookie survives its way through INIT ACK and COOKIE ECHO: an INIT is  *)
(* answered, whatever parameters it has; the peer can read the answer, in  *)
(* which exactly the parameters that ask for it are reported to it; its    *)
(* echo is accepted, and the association has the values of that INIT.      *)
(* handle_init, handle_cookie_echo, InitChunk, InitAck, Param and Cookie.  *)
(***************************************************************************)
InitOfPeer(port) ==
    LET sent == {i \in DOMAIN packets[port] : packets[port][i][1].kind = "Init"}
    IN packets[port][Min(sent)][1]
TypesOf(params) == [i \in DOMAIN params |-> params[i].typ]
AsksForReport(p) == p.typ \div 16384 \in {1, 3}
UpToStopParam(params) == UpTo(params, {i \in DOMAIN params : params[i].typ < 32768})

CookieOpens ==
    /\ \A port \in Port : HasConnected(port) /\ ~ HasAborted(port) =>
         \E i \in DOMAIN send_immediate : send_immediate[i][1] = port /\ send_immediate[i][2].kind = "InitAck"
    /\ \A i \in DOMAIN send_immediate : send_immediate[i][2].kind = "InitAck" =>
         \A ack \in Read(send_immediate[i][2]) :
            /\ ack.kind = "InitAck"
            /\ TypesOf(ack.unrecognized)
                 = TypesOf(SelectSeq(UpToStopParam(InitOfPeer(send_immediate[i][1]).others), AsksForReport))
    /\ \A port \in Port : HasEchoed(port) /\ ~ HasAborted(port) =>
         LET init == InitOfPeer(port)
         IN /\ port \in DOMAIN assoc_infos
            /\ assoc_infos[port].peer_verification_tag = init.initiate_tag
            /\ assoc_infos[port].peer_initial_tsn = init.initial_tsn
            /\ assoc_infos[port].peer_arwnd = init.a_rwnd
            /\ assoc_infos[port].aliases = Wired(init.aliases)
            /\ assoc_infos[port].init_address.addr = port

Packed(port) == {collect_all_chunks(send_next[port], out_queue[port])}
IsProbe(c) == c.kind = "HeartBeat" /\ serialized_size(c) > Pmtu

(***************************************************************************)
(* What collect_all_chunks packs never overruns its buffer, although       *)
(* serialized_size leaves out the padding, and exceeds the path MTU at     *)
(* most by the packet header and the padding, which nobody counts.         *)
(***************************************************************************)
PacketsFit ==
    \A port \in Port : \A packed \in Packed(port) :
        LET octets == Len(Octets(packed))
        IN /\ octets <= Capacity
           /\ \/ octets <= Pmtu + 3 * Len(packed)
              \/ Len(packed) = 1 /\ IsProbe(packed[1])
=============================================================================
