-------------------------------- MODULE Setup --------------------------------
(***************************************************************************)
(* Setting up associations: struct Sctp of lib.rs with assoc/init.rs, in   *)
(* several endpoints that exchange packets.  One action per chunk that     *)
(* receive_data handles, and one for init_association.                     *)
(*                                                                         *)
(* The wrappers call receive_data and handle_notifications under one lock, *)
(* so new_assoc, tx_notifications and rx_notifications are empty between   *)
(* two steps: an association goes straight to assocs, a chunk for it to    *)
(* received.  What waits in send_immediate or in send_next is already in   *)
(* net, because the network may delay it as well.                          *)
(*                                                                         *)
(* An endpoint has one address and one port, so an alias is the endpoint   *)
(* at the other end.  Settings other than the numbers of streams are left  *)
(* out, and so is all of the association after its creation.               *)
(*                                                                         *)
(* A definition whose name ends in an underscore and a word is the one     *)
(* below it with a mistake planted; the specification uses none of them.   *)
(***************************************************************************)
EXTENDS Integers, Sequences

CONSTANTS Endpoint,
          incoming_streams,   \* settings.incoming_streams, for each endpoint
          outgoing_streams,   \* settings.outgoing_streams, for each endpoint
          Connects,           \* which endpoint the application connects to which
          MaxDraws,           \* bound: pairs of random numbers that are drawn
          MaxAssocs,          \* bound: associations that an endpoint creates
          MaxRestarts,        \* bound: restarts of an endpoint
          OutlivesRestart     \* the kinds of chunks that stay in the network so long

ASSUME SetupAssumption ==
    /\ incoming_streams \in [Endpoint -> Nat] /\ outgoing_streams \in [Endpoint -> Nat]
    /\ Connects \subseteq Endpoint \X Endpoint /\ \A c \in Connects : c[1] # c[2]
    /\ MaxDraws \in Nat /\ MaxAssocs \in Nat /\ MaxRestarts \in Nat

VARIABLES wait_init_ack,    \* of each endpoint, by alias
          wait_cookie_ack,  \* of each endpoint, by alias
          aliases,          \* of each endpoint, from alias to AssocId
          assoc_infos,      \* of each endpoint, the AssocIds that are live
          assocs,           \* of each endpoint, the associations it has created, by AssocId
          received,         \* of each endpoint, the chunks its associations were given
          net,              \* the packets that have been sent
          drawn,            \* how many random numbers have been drawn
          restarts            \* how often an endpoint has been restarted

tableVars == <<wait_init_ack, wait_cookie_ack, aliases, assoc_infos, assocs, received>>
vars == <<tableVars, net, drawn, restarts>>

Put(f, k, v) == [x \in DOMAIN f \cup {k} |-> IF x = k THEN v ELSE f[x]]
Drop(f, K) == [x \in DOMAIN f \ K |-> f[x]]
Least(a, b) == IF a <= b THEN a ELSE b

(***************************************************************************)
(* A verification tag and an initial TSN are always drawn together; all    *)
(* draws are different.                                                    *)
(***************************************************************************)
Ident == [tag : 1 .. MaxDraws, tsn : 1 .. MaxDraws]
Drawn == [tag |-> drawn + 1, tsn |-> drawn + 1]

(* The sender, the receiver and the tag of a packet, and its one chunk. *)
Packet(from, to, tag, chunk) ==
    [from |-> from, to |-> to, verification_tag |-> tag, chunk |-> chunk]

InitChunk(e, ident) ==
    [kind |-> "Init", ident |-> ident, outbound_streams |-> outgoing_streams[e],
     inbound_streams |-> outgoing_streams[e]]

InitAck(e, ident, cookie) ==
    [kind |-> "InitAck", ident |-> ident, outbound_streams |-> outgoing_streams[e],
     inbound_streams |-> incoming_streams[e], cookie |-> cookie]

(* The mac shows which endpoint has made the cookie. *)
Cookie(e, from, init, local) ==
    [mac |-> e, init_address |-> from, local |-> local, peer |-> init.ident,
     incoming_streams |-> Least(incoming_streams[e], init.outbound_streams),
     outgoing_streams |-> Least(outgoing_streams[e], init.inbound_streams)]

Association ==
    [peer_addr : Endpoint, local : Ident, peer : Ident, in_streams : Nat, out_streams : Nat]

-----------------------------------------------------------------------------
Init ==
    /\ wait_init_ack = [e \in Endpoint |-> <<>>]
    /\ wait_cookie_ack = [e \in Endpoint |-> <<>>]
    /\ aliases = [e \in Endpoint |-> <<>>]
    /\ assoc_infos = [e \in Endpoint |-> {}]
    /\ assocs = [e \in Endpoint |-> <<>>]
    /\ received = [e \in Endpoint |-> {}]
    /\ net = {} /\ drawn = 0 /\ restarts = 0

(***************************************************************************)
(* The application connects to a peer that it is not connected, and not    *)
(* already connecting, to.                                                 *)
(***************************************************************************)
Idle(e, peer) ==
    /\ peer \notin DOMAIN wait_init_ack[e]
    /\ peer \notin DOMAIN wait_cookie_ack[e]
    /\ peer \notin DOMAIN aliases[e]

InitAssociation(e, peer) ==
    /\ Idle(e, peer)
    /\ drawn < MaxDraws
    /\ drawn' = drawn + 1
    /\ wait_init_ack' = [wait_init_ack EXCEPT ![e] = Put(@, peer, Drawn)]
    /\ net' = net \cup {Packet(e, peer, 0, InitChunk(e, Drawn))}
    /\ UNCHANGED <<wait_cookie_ack, aliases, assoc_infos, assocs, received, restarts>>

(***************************************************************************)
(* An INIT that crosses our own is answered with the numbers we have sent, *)
(* any other with new ones.  Nothing is stored: the cookie holds it all.   *)
(***************************************************************************)
HandleInit(e, p) ==
    LET overlap == p.from \in DOMAIN wait_init_ack[e]
        local == IF overlap THEN wait_init_ack[e][p.from] ELSE Drawn
    IN  /\ p.chunk.kind = "Init"
        /\ overlap \/ drawn < MaxDraws
        /\ drawn' = IF overlap THEN drawn ELSE drawn + 1
        /\ net' = net \cup {Packet(e, p.from, p.chunk.ident.tag,
                                   InitAck(e, local, Cookie(e, p.from, p.chunk, local)))}
        /\ UNCHANGED <<tableVars, restarts>>

HalfOpen(e, p) ==
    [local |-> wait_init_ack[e][p.from], peer |-> p.chunk.ident,
     peer_in_streams |-> p.chunk.inbound_streams, peer_out_streams |-> p.chunk.outbound_streams]

HandleInitAck_Keeps(e, p) ==
    /\ p.chunk.kind = "InitAck"
    /\ p.from \in DOMAIN wait_init_ack[e]
    /\ wait_cookie_ack' = [wait_cookie_ack EXCEPT ![e] = Put(@, p.from, HalfOpen(e, p))]
    /\ net' = net \cup {Packet(e, p.from, p.chunk.ident.tag,
                               [kind |-> "StateCookie", cookie |-> p.chunk.cookie])}
    /\ UNCHANGED <<wait_init_ack, aliases, assoc_infos, assocs, received, drawn, restarts>>

HandleInitAck(e, p) ==
    /\ p.chunk.kind = "InitAck"
    /\ p.from \in DOMAIN wait_init_ack[e]
    /\ wait_init_ack' = [wait_init_ack EXCEPT ![e] = Drop(@, {p.from})]
    /\ wait_cookie_ack' = [wait_cookie_ack EXCEPT ![e] = Put(@, p.from, HalfOpen(e, p))]
    /\ net' = net \cup {Packet(e, p.from, p.chunk.ident.tag,
                               [kind |-> "StateCookie", cookie |-> p.chunk.cookie])}
    /\ UNCHANGED <<aliases, assoc_infos, assocs, received, drawn, restarts>>

-----------------------------------------------------------------------------
(* AssocIds count the associations of an endpoint; none is used twice. *)
MakeNewAssoc(e, assoc) ==
    LET id == Len(assocs[e]) + 1
    IN  /\ id <= MaxAssocs
        /\ assoc_infos' = [assoc_infos EXCEPT ![e] = @ \cup {id}]
        /\ aliases' = [aliases EXCEPT ![e] = Put(@, assoc.peer_addr, id)]
        /\ assocs' = [assocs EXCEPT ![e] = Put(@, id, assoc)]

(***************************************************************************)
(* A cookie of ours opens an association, unless there is one already: the *)
(* cookie is then ignored, and not acknowledged again.                     *)
(***************************************************************************)
HandleCookieEcho_NoAck(e, p) ==
    LET cookie == p.chunk.cookie
    IN  /\ p.chunk.kind = "StateCookie"
        /\ cookie.mac = e
        /\ p.from \notin DOMAIN aliases[e]
        /\ MakeNewAssoc(e, [peer_addr |-> cookie.init_address,
                            local |-> cookie.local, peer |-> cookie.peer,
                            in_streams |-> cookie.incoming_streams,
                            out_streams |-> cookie.outgoing_streams])
        /\ UNCHANGED <<wait_init_ack, wait_cookie_ack, received, net, drawn, restarts>>

HandleCookieEcho(e, p) ==
    LET cookie == p.chunk.cookie
    IN  /\ p.chunk.kind = "StateCookie"
        /\ cookie.mac = e
        /\ p.from \notin DOMAIN aliases[e]
        /\ MakeNewAssoc(e, [peer_addr |-> cookie.init_address,
                            local |-> cookie.local, peer |-> cookie.peer,
                            in_streams |-> cookie.incoming_streams,
                            out_streams |-> cookie.outgoing_streams])
        /\ net' = net \cup {Packet(e, cookie.init_address, cookie.peer.tag,
                                   [kind |-> "StateCookieAck"])}
        /\ UNCHANGED <<wait_init_ack, wait_cookie_ack, received, drawn, restarts>>

(* The streams of the side that has sent the INIT. *)
InStreams(e, half_open) == Least(incoming_streams[e], half_open.peer_in_streams)
OutStreams_Own(e, half_open) == outgoing_streams[e]
OutStreams(e, half_open) == Least(outgoing_streams[e], half_open.peer_out_streams)

HandleCookieAck(e, p) ==
    LET half_open == wait_cookie_ack[e][p.from]
    IN  /\ p.chunk.kind = "StateCookieAck"
        /\ p.from \notin DOMAIN aliases[e]
        /\ p.from \in DOMAIN wait_cookie_ack[e]
        /\ wait_cookie_ack' = [wait_cookie_ack EXCEPT ![e] = Drop(@, {p.from})]
        /\ MakeNewAssoc(e, [peer_addr |-> p.from, local |-> half_open.local,
                            peer |-> half_open.peer,
                            in_streams |-> InStreams(e, half_open),
                            out_streams |-> OutStreams(e, half_open)])
        /\ UNCHANGED <<wait_init_ack, received, net, drawn, restarts>>

-----------------------------------------------------------------------------
(* process_chunks: the tag must be the one this endpoint has drawn. *)
TagMatches_NoCheck(e, id, p) == TRUE
TagMatches(e, id, p) == assocs[e][id].local.tag = p.verification_tag

ProcessAbort_KeepsAlias(e, id, p) ==
    /\ p.chunk.kind = "Abort"
    /\ assoc_infos' = [assoc_infos EXCEPT ![e] = @ \ {id}]
    /\ received' = [received EXCEPT ![e] = @ \cup {<<id, p.chunk>>}]
    /\ UNCHANGED <<wait_init_ack, wait_cookie_ack, aliases, assocs, net, drawn, restarts>>

ProcessAbort(e, id, p) ==
    /\ p.chunk.kind = "Abort"
    /\ aliases' = [aliases EXCEPT ![e] = Drop(@, {a \in DOMAIN @ : @[a] = id})]
    /\ assoc_infos' = [assoc_infos EXCEPT ![e] = @ \ {id}]
    /\ received' = [received EXCEPT ![e] = @ \cup {<<id, p.chunk>>}]
    /\ UNCHANGED <<wait_init_ack, wait_cookie_ack, assocs, net, drawn, restarts>>

ProcessHeartBeat(e, id, p) ==
    /\ p.chunk.kind = "HeartBeat"
    /\ net' = net \cup {Packet(e, p.from, assocs[e][id].peer.tag, [kind |-> "HeartBeatAck"])}
    /\ UNCHANGED <<tableVars, drawn, restarts>>

ForwardChunk(e, id, p) ==
    /\ p.chunk.kind \in {"Data", "HeartBeatAck"}
    /\ received' = [received EXCEPT ![e] = @ \cup {<<id, p.chunk>>}]
    /\ UNCHANGED <<wait_init_ack, wait_cookie_ack, aliases, assoc_infos, assocs,
                   net, drawn, restarts>>

ProcessChunk(e, p) ==
    /\ p.from \in DOMAIN aliases[e]
    /\ LET id == aliases[e][p.from]
       IN  /\ id \in assoc_infos[e]
           /\ TagMatches(e, id, p)
           /\ ProcessAbort(e, id, p) \/ ProcessHeartBeat(e, id, p) \/ ForwardChunk(e, id, p)

ReceiveData(p) ==
    \/ HandleInit(p.to, p) \/ HandleInitAck(p.to, p)
    \/ HandleCookieEcho(p.to, p) \/ HandleCookieAck(p.to, p)
    \/ ProcessChunk(p.to, p)

-----------------------------------------------------------------------------
(* The sending half sends DATA, which starts at its initial TSN, and probes. *)
SendChunk(e, id) ==
    /\ LET assoc == assocs[e][id]
       IN  \E chunk \in {[kind |-> "Data", tsn |-> assoc.local.tsn], [kind |-> "HeartBeat"]} :
             net' = net \cup {Packet(e, assoc.peer_addr, assoc.peer.tag, chunk)}
    /\ UNCHANGED <<tableVars, drawn, restarts>>

(***************************************************************************)
(* The environment: an endpoint with a live association is stopped and     *)
(* started again, as a new Sctp with the same cookie secret.  The peer is  *)
(* told with an ABORT, which this program never sends but does handle.     *)
(* Packets of the kinds in OutlivesRestart are still on their way then.    *)
(***************************************************************************)
Restart(e, id) ==
    /\ restarts < MaxRestarts
    /\ restarts' = restarts + 1
    /\ LET assoc == assocs[e][id]
       IN  net' = {p \in net : p.chunk.kind \in OutlivesRestart}
                        \cup {Packet(e, assoc.peer_addr, assoc.peer.tag, [kind |-> "Abort"])}
    /\ wait_init_ack' = [wait_init_ack EXCEPT ![e] = <<>>]
    /\ wait_cookie_ack' = [wait_cookie_ack EXCEPT ![e] = <<>>]
    /\ aliases' = [aliases EXCEPT ![e] = <<>>]
    /\ assoc_infos' = [assoc_infos EXCEPT ![e] = {}]
    /\ UNCHANGED <<assocs, received, drawn>>

Next ==
    \/ \E c \in Connects : InitAssociation(c[1], c[2])
    \/ \E p \in net : ReceiveData(p)
    \/ \E e \in Endpoint : \E id \in assoc_infos[e] : SendChunk(e, id) \/ Restart(e, id)

Spec == Init /\ [][Next]_vars

(***************************************************************************)
(* Fairness: the network delivers, in some order, what is sent; the        *)
(* program does not retransmit during the setup.                           *)
(***************************************************************************)
FairSpec ==
    Spec /\ WF_vars(\E p \in net : HandleInitAck(p.to, p))
         /\ WF_vars(\E p \in net : HandleCookieEcho(p.to, p))
         /\ WF_vars(\E p \in net : HandleCookieAck(p.to, p))
         /\ WF_vars(\E p \in net : HandleInit(p.to, p))

-----------------------------------------------------------------------------
(***************************************************************************)
(* The tables of an endpoint are well formed, and every alias leads to a   *)
(* live association: process_chunks finds a tag to check a packet against. *)
(***************************************************************************)
TypeOK ==
    \A e \in Endpoint :
        /\ DOMAIN wait_init_ack[e] \subseteq Endpoint
        /\ \A p \in DOMAIN wait_init_ack[e] : wait_init_ack[e][p] \in Ident
        /\ DOMAIN wait_cookie_ack[e] \subseteq Endpoint
        /\ DOMAIN aliases[e] \subseteq Endpoint
        /\ \A p \in DOMAIN aliases[e] : aliases[e][p] \in assoc_infos[e]
        /\ assoc_infos[e] \subseteq DOMAIN assocs[e]
        /\ \A id \in DOMAIN assocs[e] : assocs[e][id] \in Association

Established(e, peer) == peer \in DOMAIN aliases[e]
AssocWith(e, peer) == assocs[e][aliases[e][peer]]

(***************************************************************************)
(* Two endpoints that both hold an association with the other hold the     *)
(* same one: the tag and the TSN that one sends with are those the other   *)
(* expects, whatever the order in which the four chunks of the setup and   *)
(* their duplicates arrive (init.rs).                                      *)
(***************************************************************************)
Agreement ==
    restarts = 0 =>
        \A e, peer \in Endpoint : Established(e, peer) /\ Established(peer, e) =>
            /\ AssocWith(e, peer).peer = AssocWith(peer, e).local
            /\ AssocWith(e, peer).local = AssocWith(peer, e).peer

(***************************************************************************)
(* No endpoint may send on a stream that the other does not have, where no *)
(* settings ask for more outgoing than incoming streams: the numbers in    *)
(* INIT and INIT-ACK are compared differently by the two sides (init.rs).  *)
(***************************************************************************)
StreamsAgree ==
    (restarts = 0 /\ \A e \in Endpoint : outgoing_streams[e] <= incoming_streams[e]) =>
        \A e, peer \in Endpoint : Established(e, peer) /\ Established(peer, e) =>
            AssocWith(e, peer).out_streams <= AssocWith(peer, e).in_streams

(***************************************************************************)
(* An association is only given DATA that was numbered for it: what is     *)
(* left in the network of an association before a restart is discarded by  *)
(* the check of the tag in process_chunks.                                 *)
(***************************************************************************)
DataOfThisAssociation ==
    \A e \in Endpoint : \A r \in received[e] :
        r[2].kind = "Data" => r[2].tsn = assocs[e][r[1]].peer.tsn

(***************************************************************************)
(* connect ends: if the network delivers, both endpoints come to hold the  *)
(* association that one of them asked for.                                 *)
(***************************************************************************)
ConnectCompletes ==
    \A c \in Connects :
        c[2] \in DOMAIN wait_init_ack[c[1]] ~>
            (restarts > 0 \/ (Established(c[1], c[2]) /\ Established(c[2], c[1])))
=============================================================================
