-------------------------- MODULE LifecycleProofs --------------------------
(***************************************************************************)
(* The beginning and the end of an association.                            *)
(*                                                                         *)
(* First Setup: the two ends agree on the association they set up, and no  *)
(* association is given the DATA of another one.  Then Shutdown: closing   *)
(* it loses nothing.                                                       *)
(***************************************************************************)
EXTENDS Setup, TLAPS

(***************************************************************************)
(* First, what holds whoever connects to whom: the tables and the packets  *)
(* are well formed, a packet says the truth about who has sent it and with *)
(* which settings.                                                         *)
(***************************************************************************)
Tables ==
    /\ wait_init_ack = [e \in Endpoint |-> wait_init_ack[e]]
    /\ wait_cookie_ack = [e \in Endpoint |-> wait_cookie_ack[e]]
    /\ aliases = [e \in Endpoint |-> aliases[e]]
    /\ assoc_infos = [e \in Endpoint |-> assoc_infos[e]]
    /\ assocs = [e \in Endpoint |-> assocs[e]]
    /\ received = [e \in Endpoint |-> received[e]]
    /\ drawn \in Nat /\ restarts \in Nat

(* A tag and a TSN that were drawn together, among the first n draws. *)
Known(i, n) == i \in Ident /\ i.tag = i.tsn /\ i.tag <= n

(* A half-open association, after the INIT-ACK of r. *)
GoodHalfOpen(r, h, n) ==
    /\ r \in Endpoint /\ Known(h.local, n) /\ Known(h.peer, n)
    /\ h.peer_in_streams = incoming_streams[r] /\ h.peer_out_streams = outgoing_streams[r]

(* An association of e: which of the two sides it is on shows in in_streams. *)
GoodAssoc(e, a, n) ==
    /\ a \in Association /\ Known(a.local, n) /\ Known(a.peer, n)
    /\ a.out_streams = Least(outgoing_streams[e], outgoing_streams[a.peer_addr])
    /\ \/ a.in_streams = Least(incoming_streams[e], incoming_streams[a.peer_addr])
       \/ a.in_streams = Least(incoming_streams[e], outgoing_streams[a.peer_addr])

(* A cookie that r has made for e. *)
GoodCookie(c, r, e, n) ==
    /\ c.mac = r /\ c.init_address = e /\ Known(c.local, n) /\ Known(c.peer, n)
    /\ c.incoming_streams = Least(incoming_streams[r], outgoing_streams[e])
    /\ c.outgoing_streams = Least(outgoing_streams[r], outgoing_streams[e])

GoodPacket(p, n) ==
    /\ p.from \in Endpoint /\ p.to \in Endpoint
    /\ p.chunk.kind = "Init" =>
         /\ Known(p.chunk.ident, n)
         /\ p.chunk.outbound_streams = outgoing_streams[p.from]
         /\ p.chunk.inbound_streams = outgoing_streams[p.from]
    /\ p.chunk.kind = "InitAck" =>
         /\ GoodCookie(p.chunk.cookie, p.from, p.to, n) /\ p.chunk.ident = p.chunk.cookie.local
         /\ p.chunk.outbound_streams = outgoing_streams[p.from]
         /\ p.chunk.inbound_streams = incoming_streams[p.from]
    /\ p.chunk.kind = "StateCookie" => GoodCookie(p.chunk.cookie, p.to, p.from, n)
    /\ p.chunk.kind = "Abort" => p.verification_tag \in Nat /\ p.verification_tag <= n

(* The tables of one endpoint. *)
GoodWaits(waiting, half_open, n) ==
    /\ \A r \in DOMAIN waiting : r \in Endpoint /\ Known(waiting[r], n)
    /\ \A r \in DOMAIN half_open : GoodHalfOpen(r, half_open[r], n)

GoodAssocs(e, alias, infos, created, n) ==
    /\ \A r \in DOMAIN alias : /\ r \in Endpoint /\ alias[r] \in infos
                                /\ created[alias[r]].peer_addr = r
    /\ infos \subseteq DOMAIN created
    /\ \A id \in DOMAIN created : GoodAssoc(e, created[id], n)
    /\ \E k \in 0 .. MaxAssocs : DOMAIN created = 1 .. k

Shape ==
    /\ Tables
    /\ \A e \in Endpoint : GoodWaits(wait_init_ack[e], wait_cookie_ack[e], drawn)
    /\ \A e \in Endpoint : GoodAssocs(e, aliases[e], assoc_infos[e], assocs[e], drawn)
    /\ \A p \in net : GoodPacket(p, drawn)

-----------------------------------------------------------------------------
(***************************************************************************)
(* Second, what holds if of two endpoints at most one connects to the      *)
(* other, and no INIT and no INIT-ACK is delayed beyond a restart.         *)
(***************************************************************************)
OneSided == \A e, r \in Endpoint : <<e, r>> \in Connects => <<r, e>> \notin Connects
Fresh == restarts = 0 \/ OutlivesRestart \cap {"Init", "InitAck"} = {}

(* e, which connects to r, uses i to r at present. *)
Uses(e, r, i) ==
    \/ r \in DOMAIN wait_init_ack[e] /\ wait_init_ack[e][r] = i
    \/ r \in DOMAIN wait_cookie_ack[e] /\ wait_cookie_ack[e][r].local = i
    \/ Established(e, r) /\ AssocWith(e, r).local = i

(* r has answered the INIT of e with j in it by an INIT-ACK with i in it. *)
Offered(r, e, i, j) ==
    \E p \in net : /\ p.chunk.kind = "InitAck" /\ p.from = r /\ p.to = e
                   /\ p.chunk.cookie.local = i /\ p.chunk.cookie.peer = j

(* e has accepted that INIT-ACK. *)
Accepted(r, e, i, j) ==
    \/ \E p \in net : /\ p.chunk.kind = "StateCookie" /\ p.from = e /\ p.to = r
                      /\ p.chunk.cookie.local = i /\ p.chunk.cookie.peer = j
    \/ /\ r \in DOMAIN wait_cookie_ack[e]
       /\ wait_cookie_ack[e][r].peer = i /\ wait_cookie_ack[e][r].local = j
    \/ \E id \in DOMAIN assocs[e] :
         assocs[e][id].peer_addr = r /\ assocs[e][id].peer = i /\ assocs[e][id].local = j
    \/ \E id \in DOMAIN assocs[r] :
         assocs[r][id].peer_addr = e /\ assocs[r][id].local = i /\ assocs[r][id].peer = j

Linked(r, e, i, j) == Offered(r, e, i, j) \/ Accepted(r, e, i, j)

(* Only the endpoints of Connects ever set up anything. *)
Asked ==
    /\ \A e \in Endpoint :
         /\ \A r \in DOMAIN wait_init_ack[e] : <<e, r>> \in Connects
         /\ \A r \in DOMAIN wait_cookie_ack[e] : <<e, r>> \in Connects
         /\ \A id \in DOMAIN assocs[e] : LET r == assocs[e][id].peer_addr
                                         IN  <<e, r>> \in Connects \/ <<r, e>> \in Connects
    /\ \A p \in net : /\ p.chunk.kind \in {"Init", "StateCookie"} => <<p.from, p.to>> \in Connects
                      /\ p.chunk.kind = "InitAck" => <<p.to, p.from>> \in Connects

(* An endpoint is in one state with a peer at a time. *)
Exclusive ==
    \A e \in Endpoint :
        /\ \A r \in DOMAIN wait_init_ack[e] :
             r \notin DOMAIN wait_cookie_ack[e] /\ r \notin DOMAIN aliases[e]
        /\ \A r \in DOMAIN wait_cookie_ack[e] : r \notin DOMAIN aliases[e]

(* An INIT in the network is the present one, and no ABORT is as young. *)
Current ==
    \A p \in net : p.chunk.kind = "Init" =>
        /\ Uses(p.from, p.to, p.chunk.ident)
        /\ \A q \in net : q.chunk.kind = "Abort" => q.verification_tag < p.chunk.ident.tag

(* An INIT-ACK answers an INIT that is still there. *)
Answers ==
    \A p \in net : p.chunk.kind = "InitAck" =>
        \E q \in net : /\ q.chunk.kind = "Init" /\ q.from = p.to /\ q.to = p.from
                       /\ q.chunk.ident = p.chunk.cookie.peer

(* Between an r and an e that connects to it, the number of r determines that of e,
   and what was accepted also the other way round. *)
PairsOf(e, r) ==
    /\ \A i, j, k \in Ident : Linked(r, e, i, j) /\ Linked(r, e, i, k) => j = k
    /\ \A i, j, k \in Ident : Accepted(r, e, i, k) /\ Accepted(r, e, j, k) => i = j
    /\ r \in DOMAIN wait_init_ack[e] => \A i \in Ident : ~ Accepted(r, e, i, wait_init_ack[e][r])

Pairs == \A e, r \in Endpoint : <<e, r>> \in Connects => PairsOf(e, r)

(* Before any restart there is one association between two endpoints, if any. *)
OnceOf(e, r) ==
    \A i, j \in Ident : Accepted(r, e, i, j) =>
        /\ r \in DOMAIN wait_cookie_ack[e] \/ r \in DOMAIN aliases[e]
        /\ \A k, l \in Ident : Accepted(r, e, k, l) => i = k /\ j = l

Once ==
    restarts = 0 => /\ \A p \in net : p.chunk.kind # "Abort"
                    /\ \A e, r \in Endpoint : <<e, r>> \in Connects => OnceOf(e, r)

Pairing == Asked /\ Exclusive /\ Current /\ Answers /\ Pairs /\ Once

(* DATA in the network was sent by an association that is remembered. *)
Sent ==
    \A p \in net : p.chunk.kind = "Data" =>
        \E id \in DOMAIN assocs[p.from] : LET a == assocs[p.from][id]
                                          IN  /\ a.peer_addr = p.to /\ a.peer.tag = p.verification_tag
                                              /\ a.local.tsn = p.chunk.tsn

Delivered == \A e \in Endpoint : \A x \in received[e] : x[1] \in DOMAIN assocs[e]

History == Sent /\ Delivered /\ DataOfThisAssociation

-----------------------------------------------------------------------------
(* What was drawn stays drawn, so what is good stays good. *)
LEMMA KnownGrows ==
    ASSUME NEW m \in Nat, NEW n \in Nat, m <= n
    PROVE  /\ \A i : Known(i, m) => Known(i, n)
           /\ \A r, h : GoodHalfOpen(r, h, m) => GoodHalfOpen(r, h, n)
           /\ \A e, a : GoodAssoc(e, a, m) => GoodAssoc(e, a, n)
           /\ \A c, r, e : GoodCookie(c, r, e, m) => GoodCookie(c, r, e, n)
<1>1. \A i : Known(i, m) => Known(i, n)
  <2>1. \A i \in Ident : i.tag \in Nat
    BY SetupAssumption DEF Ident
  <2>. QED  BY <2>1 DEF Known
<1>2. \A r, h : GoodHalfOpen(r, h, m) => GoodHalfOpen(r, h, n)
  BY <1>1, Zenon DEF GoodHalfOpen
<1>3. \A e, a : GoodAssoc(e, a, m) => GoodAssoc(e, a, n)
  BY <1>1, Zenon DEF GoodAssoc
<1>4. \A c, r, e : GoodCookie(c, r, e, m) => GoodCookie(c, r, e, n)
  BY <1>1, Zenon DEF GoodCookie
<1>. QED  BY <1>1, <1>2, <1>3, <1>4, Zenon

(* What is well formed stays so as more numbers are drawn. *)
LEMMA GoodGrows ==
    ASSUME NEW m \in Nat, NEW n \in Nat, m <= n
    PROVE  /\ \A p : GoodPacket(p, m) => GoodPacket(p, n)
           /\ \A w, h : GoodWaits(w, h, m) => GoodWaits(w, h, n)
           /\ \A e, l, i, a : GoodAssocs(e, l, i, a, m) => GoodAssocs(e, l, i, a, n)
<1>1. ASSUME NEW p, GoodPacket(p, m) PROVE GoodPacket(p, n)
  BY <1>1, KnownGrows DEF GoodPacket
<1>2. \A w, h : GoodWaits(w, h, m) => GoodWaits(w, h, n)
  BY KnownGrows, Zenon DEF GoodWaits
<1>3. \A e, l, i, a : GoodAssocs(e, l, i, a, m) => GoodAssocs(e, l, i, a, n)
  BY KnownGrows DEF GoodAssocs
<1>. QED  BY <1>1, <1>2, <1>3, Zenon

(* The next two numbers. *)
LEMMA DrawsKnown ==
    ASSUME drawn \in Nat, drawn < MaxDraws
    PROVE  Known(Drawn, drawn + 1) /\ Drawn \in Ident /\ (Drawn).tag = drawn + 1
BY SetupAssumption DEF Known, Drawn, Ident

(* The smaller of two numbers of streams. *)
LEMMA LeastFacts ==
    ASSUME NEW a \in Nat, NEW b \in Nat
    PROVE  Least(a, b) \in Nat /\ Least(a, b) = Least(b, a) /\ Least(a, b) <= a /\ Least(a, b) <= b
BY DEF Least

(* The tables of an endpoint that has begun to wait, and goes on to wait. *)
LEMMA WaitsPut ==
    ASSUME NEW w, NEW h, NEW n, GoodWaits(w, h, n)
    PROVE  /\ \A r \in Endpoint : \A v : Known(v, n) => GoodWaits(Put(w, r, v), h, n)
           /\ \A r, v : GoodHalfOpen(r, v, n) => GoodWaits(w, Put(h, r, v), n)
<1>1. ASSUME NEW r \in Endpoint, NEW v, Known(v, n) PROVE GoodWaits(Put(w, r, v), h, n)
  <2>1. ASSUME NEW x \in DOMAIN Put(w, r, v) PROVE x \in Endpoint /\ Known(Put(w, r, v)[x], n)
    BY <1>1, <2>1, Zenon DEF GoodWaits, Put
  <2>. QED  BY <2>1, Zenon DEF GoodWaits
<1>2. ASSUME NEW r, NEW v, GoodHalfOpen(r, v, n) PROVE GoodWaits(w, Put(h, r, v), n)
  <2>1. ASSUME NEW x \in DOMAIN Put(h, r, v) PROVE GoodHalfOpen(x, Put(h, r, v)[x], n)
    BY <1>2, <2>1, Zenon DEF GoodWaits, Put
  <2>. QED  BY <2>1, Zenon DEF GoodWaits
<1>. QED  BY <1>1, <1>2, Zenon

(* Removing half-open associations leaves the others well formed. *)
LEMMA WaitsDrop ==
    ASSUME NEW w, NEW h, NEW n, GoodWaits(w, h, n), NEW K
    PROVE  GoodWaits(Drop(w, K), h, n) /\ GoodWaits(w, Drop(h, K), n)
BY Zenon DEF GoodWaits, Drop

-----------------------------------------------------------------------------
(* Steps that create no association. *)
LEMMA ShapeKeeps ==
    ASSUME Shape, drawn' \in Nat, drawn <= drawn', UNCHANGED <<aliases, assoc_infos, assocs>>,
           Tables',
           \A e \in Endpoint : GoodWaits(wait_init_ack'[e], wait_cookie_ack'[e], drawn'),
           \A p \in net' : p \in net \/ GoodPacket(p, drawn')
    PROVE  Shape'
<1>1. drawn \in Nat
  BY Zenon DEF Shape, Tables
<1>2. \A e \in Endpoint : GoodAssocs(e, aliases'[e], assoc_infos'[e], assocs'[e], drawn')
  BY <1>1, GoodGrows, Zenon DEF Shape
<1>3. \A q \in net' : GoodPacket(q, drawn')
  BY <1>1, GoodGrows, Zenon DEF Shape
<1>. QED  BY <1>2, <1>3, Zenon DEF Shape

(* Steps that only send a packet. *)
LEMMA ShapePost ==
    ASSUME Shape, drawn' \in Nat, drawn <= drawn', UNCHANGED <<tableVars, restarts>>,
           NEW p, net' = net \cup {p}, GoodPacket(p, drawn')
    PROVE  Shape'
<1>1. Tables'
  BY Zenon DEF Shape, Tables, tableVars
<1>2. \A e \in Endpoint : GoodWaits(wait_init_ack'[e], wait_cookie_ack'[e], drawn')
  BY GoodGrows, Zenon DEF Shape, Tables, tableVars
<1>. QED  BY <1>1, <1>2, ShapeKeeps, Zenon DEF tableVars

(* init_association sends an INIT with numbers just drawn. *)
LEMMA ShapeInitAssociation ==
    ASSUME Shape, NEW c \in Connects, InitAssociation(c[1], c[2])
    PROVE  Shape'
<1>. DEFINE e == c[1]
            r == c[2]
            q == Packet(e, r, 0, InitChunk(e, Drawn))
<1>1. e \in Endpoint /\ r \in Endpoint
  BY SetupAssumption, Zenon
<1>2. drawn \in Nat /\ drawn' = drawn + 1 /\ drawn' \in Nat /\ drawn <= drawn' /\ Known(Drawn, drawn')
  BY DrawsKnown DEF Shape, Tables, InitAssociation
<1>3. Tables'
  BY <1>2, Zenon DEF Shape, Tables, InitAssociation
<1>4. /\ wait_init_ack'[e] = Put(wait_init_ack[e], r, Drawn)
      /\ \A f \in Endpoint : f # e => wait_init_ack'[f] = wait_init_ack[f]
  BY <1>1, Zenon DEF Shape, Tables, InitAssociation
<1>5. ASSUME NEW f \in Endpoint PROVE GoodWaits(wait_init_ack'[f], wait_cookie_ack'[f], drawn')
  <2>1. GoodWaits(wait_init_ack[f], wait_cookie_ack[f], drawn') /\ wait_cookie_ack'[f] = wait_cookie_ack[f]
    BY <1>2, GoodGrows, Zenon DEF Shape, InitAssociation
  <2>2. CASE f # e
    BY <1>4, <2>1, <2>2, Zenon
  <2>3. CASE f = e
    BY <1>1, <1>2, <1>4, <2>1, <2>3, WaitsPut
  <2>. QED  BY <2>2, <2>3, Zenon
<1>6. GoodPacket(q, drawn')
  BY <1>1, <1>2, Zenon DEF GoodPacket, Packet, InitChunk
<1>7. net' = net \cup {q} /\ UNCHANGED <<aliases, assoc_infos, assocs>>
  BY Zenon DEF InitAssociation
<1>. QED  BY <1>2, <1>3, <1>5, <1>6, <1>7, ShapeKeeps, Zenon

(* handle_init answers with a cookie of both sides' numbers and stores nothing. *)
LEMMA ShapeHandleInit ==
    ASSUME Shape, NEW p \in net, HandleInit(p.to, p)
    PROVE  Shape'
<1>. DEFINE e == p.to
            local == IF p.from \in DOMAIN wait_init_ack[e] THEN wait_init_ack[e][p.from] ELSE Drawn
            cookie == Cookie(e, p.from, p.chunk, local)
            q == Packet(e, p.from, p.chunk.ident.tag, InitAck(e, local, cookie))
<1>1. GoodPacket(p, drawn) /\ p.chunk.kind = "Init" /\ e \in Endpoint /\ p.from \in Endpoint
  BY Zenon DEF Shape, GoodPacket, HandleInit
<1>2. drawn \in Nat /\ drawn' \in Nat /\ drawn <= drawn'
  BY DEF Shape, Tables, HandleInit
<1>3. Known(local, drawn')
  <2>1. CASE p.from \in DOMAIN wait_init_ack[e]
    <3>1. GoodWaits(wait_init_ack[e], wait_cookie_ack[e], drawn')
      BY <1>1, <1>2, GoodGrows, Zenon DEF Shape
    <3>. QED  BY <2>1, <3>1, Zenon DEF GoodWaits
  <2>2. CASE p.from \notin DOMAIN wait_init_ack[e]
    BY <1>2, <2>2, DrawsKnown, Zenon DEF HandleInit
  <2>. QED  BY <2>1, <2>2, Zenon
<1>4. Known(p.chunk.ident, drawn')
  BY <1>1, <1>2, KnownGrows, Zenon DEF GoodPacket
<1>5. net' = net \cup {q} /\ UNCHANGED <<tableVars, restarts>>
  BY Zenon DEF HandleInit
<1>. HIDE DEF local
<1>6. GoodCookie(cookie, e, p.from, drawn') /\ cookie.local = local
  BY <1>1, <1>3, <1>4, Zenon DEF GoodCookie, Cookie, GoodPacket
<1>. HIDE DEF cookie
<1>7. GoodPacket(q, drawn')
  BY <1>1, <1>6, Zenon DEF GoodPacket, Packet, InitAck
<1>. HIDE DEF q
<1>. QED  BY <1>2, <1>5, <1>7, ShapePost, Zenon

(* handle_init_ack turns the entry into one with the numbers of both sides. *)
LEMMA ShapeHandleInitAck ==
    ASSUME Shape, NEW p \in net, HandleInitAck(p.to, p)
    PROVE  Shape'
<1>. DEFINE e == p.to
            r == p.from
            q == Packet(e, r, p.chunk.ident.tag, [kind |-> "StateCookie", cookie |-> p.chunk.cookie])
<1>1. GoodPacket(p, drawn) /\ e \in Endpoint /\ r \in Endpoint /\ r \in DOMAIN wait_init_ack[e]
  BY Zenon DEF Shape, GoodPacket, HandleInitAck
<1>2. drawn \in Nat /\ drawn' = drawn
  BY Zenon DEF Shape, Tables, HandleInitAck
<1>3. Tables'
  BY <1>2, Zenon DEF Shape, Tables, HandleInitAck
<1>4. /\ wait_init_ack'[e] = Drop(wait_init_ack[e], {r})
      /\ wait_cookie_ack'[e] = Put(wait_cookie_ack[e], r, HalfOpen(e, p))
      /\ \A f \in Endpoint : f # e => /\ wait_init_ack'[f] = wait_init_ack[f]
                                      /\ wait_cookie_ack'[f] = wait_cookie_ack[f]
  BY <1>1, Zenon DEF Shape, Tables, HandleInitAck
<1>5. GoodHalfOpen(r, HalfOpen(e, p), drawn)
  <2>1. Known(wait_init_ack[e][r], drawn)
    BY <1>1, Zenon DEF Shape, GoodWaits
  <2>. QED  BY <1>1, <2>1, Zenon DEF HalfOpen, GoodHalfOpen, GoodPacket, GoodCookie, HandleInitAck
<1>6. ASSUME NEW f \in Endpoint PROVE GoodWaits(wait_init_ack'[f], wait_cookie_ack'[f], drawn')
  <2>1. GoodWaits(wait_init_ack[f], wait_cookie_ack[f], drawn)
    BY Zenon DEF Shape
  <2>2. CASE f # e
    BY <1>2, <1>4, <2>1, <2>2, Zenon
  <2>3. CASE f = e
    BY <1>2, <1>4, <1>5, <2>1, <2>3, WaitsPut, WaitsDrop
  <2>. QED  BY <2>2, <2>3, Zenon
<1>7. GoodPacket(q, drawn)
  BY <1>1, Zenon DEF GoodPacket, Packet, HandleInitAck
<1>8. net' = net \cup {q} /\ UNCHANGED <<aliases, assoc_infos, assocs>>
  BY Zenon DEF HandleInitAck
<1>. HIDE DEF q
<1>. QED  BY <1>2, <1>3, <1>6, <1>7, <1>8, ShapeKeeps
-----------------------------------------------------------------------------
(***************************************************************************)
(* The id that make_new_assoc takes is new.                                *)
(***************************************************************************)
LEMMA NewAssoc ==
    ASSUME Shape, NEW e \in Endpoint, NEW a, MakeNewAssoc(e, a)
    PROVE  \E id : /\ id \notin DOMAIN assocs[e]
                   /\ \E k \in 0 .. MaxAssocs : DOMAIN assocs[e] \cup {id} = 1 .. k
                   /\ assoc_infos' = [assoc_infos EXCEPT ![e] = @ \cup {id}]
                   /\ aliases' = [aliases EXCEPT ![e] = Put(@, a.peer_addr, id)]
                   /\ assocs' = [assocs EXCEPT ![e] = Put(@, id, a)]
<1>1. PICK k \in 0 .. MaxAssocs : DOMAIN assocs[e] = 1 .. k
  BY Zenon DEF Shape, GoodAssocs
<1>2. Len(assocs[e]) = k
  BY <1>1
<1>3. k + 1 \notin DOMAIN assocs[e] /\ k + 1 <= MaxAssocs
  BY <1>1, <1>2 DEF MakeNewAssoc
<1>4. k + 1 \in 0 .. MaxAssocs /\ DOMAIN assocs[e] \cup {k + 1} = 1 .. (k + 1)
  BY <1>1, <1>3, SetupAssumption
<1>. QED  BY <1>2, <1>3, <1>4, Zenon DEF MakeNewAssoc

(* What it leaves alone. *)
LEMMA NewAssocTables ==
    ASSUME Shape, NEW e \in Endpoint, NEW a, MakeNewAssoc(e, a)
    PROVE  \E id : /\ id \notin DOMAIN assocs[e]
                   /\ \E k \in 0 .. MaxAssocs : DOMAIN assocs[e] \cup {id} = 1 .. k
                   /\ assoc_infos'[e] = assoc_infos[e] \cup {id}
                   /\ aliases'[e] = Put(aliases[e], a.peer_addr, id)
                   /\ assocs'[e] = Put(assocs[e], id, a)
                   /\ \A f \in Endpoint : f # e => /\ assoc_infos'[f] = assoc_infos[f]
                                                   /\ aliases'[f] = aliases[f]
                                                   /\ assocs'[f] = assocs[f]
<1>1. PICK id : /\ id \notin DOMAIN assocs[e]
                /\ \E k \in 0 .. MaxAssocs : DOMAIN assocs[e] \cup {id} = 1 .. k
                /\ assoc_infos' = [assoc_infos EXCEPT ![e] = @ \cup {id}]
                /\ aliases' = [aliases EXCEPT ![e] = Put(@, a.peer_addr, id)]
                /\ assocs' = [assocs EXCEPT ![e] = Put(@, id, a)]
  BY NewAssoc, Zenon
<1>2. /\ assoc_infos'[e] = assoc_infos[e] \cup {id}
      /\ aliases'[e] = Put(aliases[e], a.peer_addr, id)
      /\ assocs'[e] = Put(assocs[e], id, a)
  BY <1>1, Zenon DEF Shape, Tables
<1>3. \A f \in Endpoint : f # e => /\ assoc_infos'[f] = assoc_infos[f]
                                   /\ aliases'[f] = aliases[f]
                                   /\ assocs'[f] = assocs[f]
  BY <1>1, Zenon DEF Shape, Tables
<1>. QED  BY <1>1, <1>2, <1>3, Zenon

(* A good association makes good tables. *)
LEMMA AssocsPut ==
    ASSUME NEW e, NEW l, NEW i, NEW s, NEW n, GoodAssocs(e, l, i, s, n),
           NEW a, GoodAssoc(e, a, n), NEW id, id \notin DOMAIN s,
           \E k \in 0 .. MaxAssocs : DOMAIN s \cup {id} = 1 .. k
    PROVE  GoodAssocs(e, Put(l, a.peer_addr, id), i \cup {id}, Put(s, id, a), n)
<1>1. a.peer_addr \in Endpoint
  BY Zenon DEF GoodAssoc, Association
<1>2. DOMAIN Put(s, id, a) = DOMAIN s \cup {id} /\ Put(s, id, a)[id] = a
      /\ \A x \in DOMAIN s : Put(s, id, a)[x] = s[x]
  BY Zenon DEF Put
<1>3. ASSUME NEW r \in DOMAIN Put(l, a.peer_addr, id)
      PROVE  /\ r \in Endpoint /\ Put(l, a.peer_addr, id)[r] \in i \cup {id}
             /\ Put(s, id, a)[Put(l, a.peer_addr, id)[r]].peer_addr = r
  <2>1. CASE r = a.peer_addr
    BY <1>1, <1>2, <2>1, Zenon DEF Put
  <2>2. CASE r # a.peer_addr
    <3>1. r \in DOMAIN l /\ Put(l, a.peer_addr, id)[r] = l[r]
      BY <1>3, <2>2, Zenon DEF Put
    <3>. QED  BY <1>2, <3>1 DEF GoodAssocs
  <2>. QED  BY <2>1, <2>2, Zenon
<1>4. i \cup {id} \subseteq DOMAIN Put(s, id, a)
  BY <1>2, Zenon DEF GoodAssocs
<1>5. \A x \in DOMAIN Put(s, id, a) : GoodAssoc(e, Put(s, id, a)[x], n)
  BY <1>2, Zenon DEF GoodAssocs
<1>6. \E k \in 0 .. MaxAssocs : DOMAIN Put(s, id, a) = 1 .. k
  BY <1>2, Zenon
<1>. QED  BY <1>3, <1>4, <1>5, <1>6, Zenon DEF GoodAssocs

(* Steps that create an association. *)
LEMMA ShapeMakes ==
    ASSUME Shape, NEW e \in Endpoint, NEW a, MakeNewAssoc(e, a), GoodAssoc(e, a, drawn),
           UNCHANGED <<wait_init_ack, received, drawn, restarts>>,
           wait_cookie_ack' = [f \in Endpoint |-> wait_cookie_ack'[f]],
           \A f \in Endpoint : GoodWaits(wait_init_ack[f], wait_cookie_ack'[f], drawn),
           \A p \in net' : p \in net \/ GoodPacket(p, drawn)
    PROVE  Shape'
<1>1. Tables'
  BY Zenon DEF Shape, Tables, MakeNewAssoc
<1>2. ASSUME NEW f \in Endpoint
      PROVE  GoodAssocs(f, aliases'[f], assoc_infos'[f], assocs'[f], drawn')
  <2>1. GoodAssocs(f, aliases[f], assoc_infos[f], assocs[f], drawn)
    BY Zenon DEF Shape
  <2>2. CASE f # e
    <3>1. aliases'[f] = aliases[f] /\ assoc_infos'[f] = assoc_infos[f] /\ assocs'[f] = assocs[f]
      BY <2>2, NewAssocTables, Zenon
    <3>. QED  BY <2>1, <3>1, Zenon
  <2>3. CASE f = e
    <3>1. PICK id : /\ id \notin DOMAIN assocs[e]
                    /\ \E k \in 0 .. MaxAssocs : DOMAIN assocs[e] \cup {id} = 1 .. k
                    /\ assoc_infos'[e] = assoc_infos[e] \cup {id}
                    /\ aliases'[e] = Put(aliases[e], a.peer_addr, id)
                    /\ assocs'[e] = Put(assocs[e], id, a)
      BY NewAssocTables
    <3>2. GoodAssocs(e, Put(aliases[e], a.peer_addr, id), assoc_infos[e] \cup {id},
                     Put(assocs[e], id, a), drawn)
      BY <2>1, <2>3, <3>1, AssocsPut, Zenon
    <3>. QED  BY <2>3, <3>1, <3>2, Zenon
  <2>. QED  BY <2>2, <2>3, Zenon
<1>3. \A p \in net' : GoodPacket(p, drawn')
  BY Zenon DEF Shape
<1>. QED  BY <1>1, <1>2, <1>3, Zenon DEF Shape

(* handle_cookie_echo makes the association that the cookie describes. *)
LEMMA ShapeHandleCookieEcho ==
    ASSUME Shape, NEW p \in net, HandleCookieEcho(p.to, p)
    PROVE  Shape'
<1>. DEFINE e == p.to
            cookie == p.chunk.cookie
            a == [peer_addr |-> cookie.init_address, local |-> cookie.local, peer |-> cookie.peer,
                  in_streams |-> cookie.incoming_streams, out_streams |-> cookie.outgoing_streams]
            q == Packet(e, cookie.init_address, cookie.peer.tag, [kind |-> "StateCookieAck"])
<1>1. GoodCookie(cookie, e, p.from, drawn) /\ e \in Endpoint /\ p.from \in Endpoint
  BY Zenon DEF Shape, GoodPacket, HandleCookieEcho
<1>2. MakeNewAssoc(e, a) /\ net' = net \cup {q}
      /\ UNCHANGED <<wait_init_ack, wait_cookie_ack, received, drawn, restarts>>
  BY Zenon DEF HandleCookieEcho
<1>3. GoodAssoc(e, a, drawn)
  <2>1. /\ Least(incoming_streams[e], outgoing_streams[p.from]) \in Nat
        /\ Least(outgoing_streams[e], outgoing_streams[p.from]) \in Nat
    BY <1>1, SetupAssumption, LeastFacts, Zenon
  <2>. QED  BY <1>1, <2>1, Zenon DEF GoodCookie, GoodAssoc, Association, Known
<1>4. GoodPacket(q, drawn)
  BY <1>1, Zenon DEF GoodPacket, Packet, GoodCookie
<1>. HIDE DEF a, q
<1>5. wait_cookie_ack' = [f \in Endpoint |-> wait_cookie_ack'[f]]
  BY <1>2, Zenon DEF Shape, Tables
<1>6. \A f \in Endpoint : GoodWaits(wait_init_ack[f], wait_cookie_ack'[f], drawn)
  BY <1>2, Zenon DEF Shape
<1>. QED  BY <1>1, <1>2, <1>3, <1>4, <1>5, <1>6, ShapeMakes, Zenon

(* handle_cookie_ack makes the association of the half-open entry. *)
LEMMA ShapeHandleCookieAck ==
    ASSUME Shape, NEW p \in net, HandleCookieAck(p.to, p)
    PROVE  Shape'
<1>. DEFINE e == p.to
            h == wait_cookie_ack[e][p.from]
            a == [peer_addr |-> p.from, local |-> h.local, peer |-> h.peer,
                  in_streams |-> InStreams(e, h), out_streams |-> OutStreams(e, h)]
<1>1. e \in Endpoint /\ p.from \in Endpoint /\ p.from \in DOMAIN wait_cookie_ack[e]
  BY Zenon DEF Shape, GoodPacket, HandleCookieAck
<1>2. GoodHalfOpen(p.from, h, drawn)
  BY <1>1, Zenon DEF Shape, GoodWaits
<1>3. /\ MakeNewAssoc(e, a) /\ wait_cookie_ack' = [wait_cookie_ack EXCEPT ![e] = Drop(@, {p.from})]
      /\ UNCHANGED <<wait_init_ack, received, drawn, restarts, net>>
  BY Zenon DEF HandleCookieAck
<1>4. GoodAssoc(e, a, drawn)
  <2>1. /\ Least(incoming_streams[e], incoming_streams[p.from]) \in Nat
        /\ Least(outgoing_streams[e], outgoing_streams[p.from]) \in Nat
    BY <1>1, SetupAssumption, LeastFacts, Zenon
  <2>. QED  BY <1>1, <1>2, <2>1, Zenon DEF GoodHalfOpen, GoodAssoc, Association, Known,
                                           InStreams, OutStreams
<1>. HIDE DEF a
<1>5. wait_cookie_ack' = [f \in Endpoint |-> wait_cookie_ack'[f]]
  BY <1>3, Zenon DEF Shape, Tables
<1>6. ASSUME NEW f \in Endpoint PROVE GoodWaits(wait_init_ack[f], wait_cookie_ack'[f], drawn)
  <2>1. GoodWaits(wait_init_ack[f], wait_cookie_ack[f], drawn)
    BY DEF Shape
  <2>2. wait_cookie_ack'[f] = IF f = e THEN Drop(wait_cookie_ack[e], {p.from}) ELSE wait_cookie_ack[f]
    BY <1>1, <1>3, Zenon DEF Shape, Tables
  <2>. QED  BY <2>1, <2>2, WaitsDrop, Zenon
<1>. QED  BY <1>1, <1>3, <1>4, <1>5, <1>6, ShapeMakes, Zenon

(* An ABORT removes the association, and all that leads to it. *)
LEMMA ShapeProcessAbort ==
    ASSUME Shape, NEW p \in net, NEW id, ProcessAbort(p.to, id, p)
    PROVE  Shape'
<1>. DEFINE e == p.to
            K == {x \in DOMAIN aliases[e] : aliases[e][x] = id}
<1>1. e \in Endpoint
  BY Zenon DEF Shape, GoodPacket
<1>2. Tables'
  BY Zenon DEF Shape, Tables, ProcessAbort
<1>3. /\ aliases'[e] = Drop(aliases[e], K)
      /\ assoc_infos'[e] = assoc_infos[e] \ {id}
      /\ \A f \in Endpoint : f # e => aliases'[f] = aliases[f] /\ assoc_infos'[f] = assoc_infos[f]
  BY <1>1, Zenon DEF Shape, Tables, ProcessAbort
<1>4. ASSUME NEW f \in Endpoint
      PROVE  GoodAssocs(f, aliases'[f], assoc_infos'[f], assocs'[f], drawn')
  <2>1. GoodAssocs(f, aliases[f], assoc_infos[f], assocs[f], drawn)
    BY Zenon DEF Shape
  <2>2. CASE f # e
    BY <1>3, <2>1, <2>2, Zenon DEF ProcessAbort
  <2>3. CASE f = e
    <3>1. \A r \in DOMAIN aliases'[e] : r \in DOMAIN aliases[e] /\ aliases'[e][r] = aliases[e][r]
                                        /\ aliases[e][r] # id
      BY <1>3, Zenon DEF Drop
    <3>2. assocs' = assocs /\ drawn' = drawn
      BY Zenon DEF ProcessAbort
    <3>3. \A r \in DOMAIN aliases'[e] : /\ r \in Endpoint /\ aliases'[e][r] \in assoc_infos'[e]
                                        /\ assocs[e][aliases'[e][r]].peer_addr = r
      BY <1>3, <2>1, <2>3, <3>1, Zenon DEF GoodAssocs
    <3>4. assoc_infos'[e] \subseteq DOMAIN assocs[e]
      BY <1>3, <2>1, <2>3, Zenon DEF GoodAssocs
    <3>. QED  BY <2>1, <2>3, <3>2, <3>3, <3>4, Zenon DEF GoodAssocs
  <2>. QED  BY <2>2, <2>3, Zenon
<1>. QED  BY <1>2, <1>4, Zenon DEF Shape, ProcessAbort

(* A heartbeat is answered. *)
LEMMA ShapeProcessHeartBeat ==
    ASSUME Shape, NEW p \in net, NEW id, ProcessHeartBeat(p.to, id, p)
    PROVE  Shape'
<1>. DEFINE q == Packet(p.to, p.from, assocs[p.to][id].peer.tag, [kind |-> "HeartBeatAck"])
<1>1. GoodPacket(q, drawn)
  BY Zenon DEF Shape, GoodPacket, Packet
<1>2. net' = net \cup {q} /\ UNCHANGED <<tableVars, restarts>> /\ drawn' = drawn /\ drawn \in Nat
  BY Zenon DEF ProcessHeartBeat, Shape, Tables
<1>. HIDE DEF q
<1>. QED  BY <1>1, <1>2, ShapePost

(* An ABORT removes the association and its aliases, other chunks are handed over. *)
LEMMA ShapeForwardChunk ==
    ASSUME Shape, NEW p \in net, NEW id, ForwardChunk(p.to, id, p)
    PROVE  Shape'
BY Zenon DEF Shape, Tables, ForwardChunk

(* An association sends with its own numbers. *)
LEMMA ShapeSendChunk ==
    ASSUME Shape, NEW e \in Endpoint, NEW id \in assoc_infos[e], SendChunk(e, id)
    PROVE  Shape'
<1>. DEFINE a == assocs[e][id]
<1>1. a.peer_addr \in Endpoint
  BY Zenon DEF Shape, GoodAssocs, GoodAssoc, Association
<1>2. PICK chunk \in {[kind |-> "Data", tsn |-> a.local.tsn], [kind |-> "HeartBeat"]} :
         net' = net \cup {Packet(e, a.peer_addr, a.peer.tag, chunk)}
  BY Zenon DEF SendChunk
<1>3. chunk.kind \in {"Data", "HeartBeat"}
  BY <1>2
<1>4. GoodPacket(Packet(e, a.peer_addr, a.peer.tag, chunk), drawn)
  BY <1>1, <1>3, Zenon DEF GoodPacket, Packet
<1>5. UNCHANGED <<tableVars, restarts>> /\ drawn' = drawn /\ drawn \in Nat
  BY Zenon DEF SendChunk, Shape, Tables
<1>. QED  BY <1>2, <1>4, <1>5, ShapePost

(* A restart empties the tables and thins out the network. *)
LEMMA ShapeRestart ==
    ASSUME Shape, NEW e \in Endpoint, NEW id \in assoc_infos[e], Restart(e, id)
    PROVE  Shape'
<1>. DEFINE a == assocs[e][id]
            q == Packet(e, a.peer_addr, a.peer.tag, [kind |-> "Abort"])
<1>1. a.peer_addr \in Endpoint /\ Known(a.peer, drawn)
  BY Zenon DEF Shape, GoodAssocs, GoodAssoc, Association
<1>2. GoodPacket(q, drawn)
  BY <1>1, SetupAssumption DEF GoodPacket, Packet, Known, Ident
<1>3. Tables'
  <2>1. restarts' \in Nat /\ drawn' \in Nat
    BY DEF Shape, Tables, Restart
  <2>. QED  BY <2>1, Zenon DEF Shape, Tables, Restart
<1>4. /\ wait_init_ack'[e] = <<>> /\ wait_cookie_ack'[e] = <<>> /\ aliases'[e] = <<>> /\ assoc_infos'[e] = {}
      /\ \A f \in Endpoint : f # e => /\ wait_init_ack'[f] = wait_init_ack[f]
                                      /\ wait_cookie_ack'[f] = wait_cookie_ack[f]
                                      /\ aliases'[f] = aliases[f]
                                      /\ assoc_infos'[f] = assoc_infos[f]
  BY Zenon DEF Shape, Tables, Restart
<1>5. ASSUME NEW f \in Endpoint PROVE GoodWaits(wait_init_ack'[f], wait_cookie_ack'[f], drawn')
  BY <1>4 DEF Shape, GoodWaits, Restart
<1>6. ASSUME NEW f \in Endpoint
      PROVE  GoodAssocs(f, aliases'[f], assoc_infos'[f], assocs'[f], drawn')
  BY <1>4 DEF Shape, GoodAssocs, Restart
<1>7. \A x \in net' : x \in net \/ x = q
  BY Zenon DEF Restart
<1>. HIDE DEF q
<1>8. \A x \in net' : GoodPacket(x, drawn')
  BY <1>2, <1>7, Zenon DEF Shape, Restart
<1>. QED  BY <1>3, <1>5, <1>6, <1>8, Zenon DEF Shape

(* All tables are empty at first. *)
LEMMA ShapeStart ==
    Init => Shape
<1>. SUFFICES ASSUME Init PROVE Shape
  BY Zenon
<1>1. Tables
  BY Zenon DEF Init, Tables
<1>2. DOMAIN <<>> = 1 .. 0 /\ 0 \in 0 .. MaxAssocs /\ 1 .. 0 = {}
  BY SetupAssumption
<1>3. \A e \in Endpoint : GoodWaits(wait_init_ack[e], wait_cookie_ack[e], drawn)
  BY <1>2, Zenon DEF Init, GoodWaits
<1>4. \A e \in Endpoint : GoodAssocs(e, aliases[e], assoc_infos[e], assocs[e], drawn)
  BY <1>2, Zenon DEF Init, GoodAssocs
<1>. QED  BY <1>1, <1>3, <1>4, Zenon DEF Init, Shape

(* Every step keeps Shape. *)
LEMMA ShapeStep ==
    ASSUME Shape, [Next]_vars
    PROVE  Shape'
<1>1. CASE UNCHANGED vars
  BY <1>1, Zenon DEF Shape, Tables, vars, tableVars
<1>2. ASSUME NEW c \in Connects, InitAssociation(c[1], c[2]) PROVE Shape'
  BY <1>2, ShapeInitAssociation, Zenon
<1>3. ASSUME NEW p \in net, ReceiveData(p) PROVE Shape'
  <2>1. CASE ProcessChunk(p.to, p)
    BY <2>1, ShapeProcessAbort, ShapeProcessHeartBeat, ShapeForwardChunk, Zenon DEF ProcessChunk
  <2>. QED  BY <1>3, <2>1, ShapeHandleInit, ShapeHandleInitAck, ShapeHandleCookieEcho,
               ShapeHandleCookieAck, Zenon DEF ReceiveData
<1>4. ASSUME NEW e \in Endpoint, NEW id \in assoc_infos[e], SendChunk(e, id) \/ Restart(e, id)
      PROVE  Shape'
  BY <1>4, ShapeSendChunk, ShapeRestart, Zenon
<1>. QED  BY <1>1, <1>2, <1>3, <1>4, Zenon DEF Next

(***************************************************************************)
(* The tables of every endpoint are well formed, whoever connects to whom  *)
(* and whatever is restarted: an alias leads to a live association         *)
(* (make_new_assoc, process_chunks).                                       *)
(***************************************************************************)
THEOREM SetupTables ==
    Spec => []TypeOK
<1>1. Shape => TypeOK
  <2>. SUFFICES ASSUME Shape, NEW e \in Endpoint
                PROVE  /\ DOMAIN wait_init_ack[e] \subseteq Endpoint
                       /\ \A p \in DOMAIN wait_init_ack[e] : wait_init_ack[e][p] \in Ident
                       /\ DOMAIN wait_cookie_ack[e] \subseteq Endpoint
                       /\ DOMAIN aliases[e] \subseteq Endpoint
                       /\ \A p \in DOMAIN aliases[e] : aliases[e][p] \in assoc_infos[e]
                       /\ assoc_infos[e] \subseteq DOMAIN assocs[e]
                       /\ \A id \in DOMAIN assocs[e] : assocs[e][id] \in Association
    BY Zenon DEF TypeOK
  <2>1. GoodWaits(wait_init_ack[e], wait_cookie_ack[e], drawn)
    BY Zenon DEF Shape
  <2>2. GoodAssocs(e, aliases[e], assoc_infos[e], assocs[e], drawn)
    BY Zenon DEF Shape
  <2>3. /\ DOMAIN wait_init_ack[e] \subseteq Endpoint
        /\ \A p \in DOMAIN wait_init_ack[e] : wait_init_ack[e][p] \in Ident
        /\ DOMAIN wait_cookie_ack[e] \subseteq Endpoint
    BY <2>1, Zenon DEF GoodWaits, Known, GoodHalfOpen
  <2>4. /\ DOMAIN aliases[e] \subseteq Endpoint
        /\ \A p \in DOMAIN aliases[e] : aliases[e][p] \in assoc_infos[e]
        /\ assoc_infos[e] \subseteq DOMAIN assocs[e]
        /\ \A id \in DOMAIN assocs[e] : assocs[e][id] \in Association
    BY <2>2, Zenon DEF GoodAssocs, GoodAssoc
  <2>. QED  BY <2>3, <2>4, Zenon
<1>. QED  BY <1>1, ShapeStart, ShapeStep, PTL DEF Spec

(***************************************************************************)
(* Neither side may send on a stream that the other does not have, even if *)
(* both connect: the two sides compare the numbers in INIT and INIT-ACK    *)
(* differently, but settings without more outgoing than incoming streams   *)
(* make up for it (init.rs).                                               *)
(***************************************************************************)
THEOREM SetupStreams ==
    Spec => []StreamsAgree
<1>1. Shape => StreamsAgree
  <2>. SUFFICES ASSUME Shape, \A e \in Endpoint : outgoing_streams[e] <= incoming_streams[e],
                       NEW e \in Endpoint, NEW r \in Endpoint, Established(e, r), Established(r, e)
                PROVE  AssocWith(e, r).out_streams <= AssocWith(r, e).in_streams
    BY Zenon DEF StreamsAgree
  <2>1. ASSUME NEW f \in Endpoint, NEW g \in Endpoint, Established(f, g)
        PROVE  GoodAssoc(f, AssocWith(f, g), drawn) /\ AssocWith(f, g).peer_addr = g
    BY <2>1, Zenon DEF Shape, GoodAssocs, Established, AssocWith
  <2>2. /\ AssocWith(e, r).out_streams = Least(outgoing_streams[e], outgoing_streams[r])
        /\ \/ AssocWith(r, e).in_streams = Least(incoming_streams[r], incoming_streams[e])
           \/ AssocWith(r, e).in_streams = Least(incoming_streams[r], outgoing_streams[e])
    BY <2>1 DEF GoodAssoc
  <2>3. /\ incoming_streams[e] \in Nat /\ incoming_streams[r] \in Nat
        /\ outgoing_streams[e] \in Nat /\ outgoing_streams[r] \in Nat
    BY SetupAssumption, Zenon
  <2>. QED  BY <2>2, <2>3 DEF Least
<1>. QED  BY <1>1, ShapeStart, ShapeStep, PTL DEF Spec
-----------------------------------------------------------------------------
(* What the tables and packets hold was drawn before. *)
LEMMA LinkedKnown ==
    ASSUME Shape, NEW e \in Endpoint, NEW r \in Endpoint, NEW i, NEW j, Linked(r, e, i, j)
    PROVE  Known(i, drawn) /\ Known(j, drawn)
<1>1. CASE Offered(r, e, i, j)
  BY <1>1, Zenon DEF Offered, Shape, GoodPacket, GoodCookie
<1>2. CASE Accepted(r, e, i, j)
  <2>1. CASE \E p \in net : /\ p.chunk.kind = "StateCookie" /\ p.from = e /\ p.to = r
                            /\ p.chunk.cookie.local = i /\ p.chunk.cookie.peer = j
    BY <2>1, Zenon DEF Shape, GoodPacket, GoodCookie
  <2>2. CASE /\ r \in DOMAIN wait_cookie_ack[e]
             /\ wait_cookie_ack[e][r].peer = i /\ wait_cookie_ack[e][r].local = j
    BY <2>2, Zenon DEF Shape, GoodWaits, GoodHalfOpen
  <2>3. CASE \E id \in DOMAIN assocs[e] :
               assocs[e][id].peer_addr = r /\ assocs[e][id].peer = i /\ assocs[e][id].local = j
    BY <2>3 DEF Shape, GoodAssocs, GoodAssoc
  <2>4. CASE \E id \in DOMAIN assocs[r] :
               assocs[r][id].peer_addr = e /\ assocs[r][id].local = i /\ assocs[r][id].peer = j
    BY <2>4 DEF Shape, GoodAssocs, GoodAssoc
  <2>. QED  BY <1>2, <2>1, <2>2, <2>3, <2>4, Zenon DEF Accepted
<1>. QED  BY <1>1, <1>2, Zenon DEF Linked

(* The numbers that are drawn next are not among them. *)
LEMMA DrawnIsNew ==
    ASSUME Shape, NEW e \in Endpoint, NEW r \in Endpoint, NEW i
    PROVE  ~ Linked(r, e, Drawn, i) /\ ~ Linked(r, e, i, Drawn)
<1>1. drawn \in Nat /\ ~ Known(Drawn, drawn)
  BY DEF Shape, Tables, Known, Drawn
<1>. QED  BY <1>1, LinkedKnown, Zenon

(* Steps that accept nothing, and steps that offer nothing. *)
LEMMA NothingAccepted ==
    ASSUME \A p \in net' : p.chunk.kind = "StateCookie" => p \in net,
           \A e \in Endpoint : \A r \in DOMAIN wait_cookie_ack'[e] :
             r \in DOMAIN wait_cookie_ack[e] /\ wait_cookie_ack'[e][r] = wait_cookie_ack[e][r],
           assocs' = assocs, NEW e \in Endpoint, NEW r, NEW i, NEW j, Accepted(r, e, i, j)'
    PROVE  Accepted(r, e, i, j)
BY Zenon DEF Accepted

(* Without a new INIT-ACK nothing is offered. *)
LEMMA NothingOffered ==
    ASSUME \A p \in net' : p.chunk.kind = "InitAck" => p \in net,
           NEW e, NEW r, NEW i, NEW j, Offered(r, e, i, j)'
    PROVE  Offered(r, e, i, j)
BY Zenon DEF Offered

(* The pairs stay unambiguous if none is added. *)
LEMMA PairsStay ==
    ASSUME NEW e, NEW r, PairsOf(e, r),
           \A i, j \in Ident : Accepted(r, e, i, j)' => Accepted(r, e, i, j),
           \A i, j \in Ident : Offered(r, e, i, j)' => Linked(r, e, i, j),
           r \in DOMAIN wait_init_ack'[e] =>
             \/ r \in DOMAIN wait_init_ack[e] /\ wait_init_ack'[e][r] = wait_init_ack[e][r]
             \/ \A i \in Ident : ~ Accepted(r, e, i, wait_init_ack'[e][r]),
           r \in DOMAIN wait_init_ack'[e] => wait_init_ack'[e][r] \in Ident
    PROVE  PairsOf(e, r)'
<1>1. \A i, j \in Ident : Linked(r, e, i, j)' => Linked(r, e, i, j)
  BY Zenon DEF Linked
<1>2. \A i, j, k \in Ident : Linked(r, e, i, j)' /\ Linked(r, e, i, k)' => j = k
  BY <1>1, Zenon DEF PairsOf
<1>3. \A i, j, k \in Ident : Accepted(r, e, i, k)' /\ Accepted(r, e, j, k)' => i = j
  BY Zenon DEF PairsOf
<1>4. r \in DOMAIN wait_init_ack'[e] => \A i \in Ident : ~ Accepted(r, e, i, wait_init_ack'[e][r])
  BY Zenon DEF PairsOf
<1>5. ASSUME r \in DOMAIN wait_init_ack'[e], NEW i \in Ident, NEW j \in Ident, j = wait_init_ack'[e][r]
      PROVE  ~ Accepted(r, e, i, j)'
  BY <1>4, <1>5, Zenon
<1>. QED  BY <1>2, <1>3, <1>5, Zenon DEF PairsOf

(* OnceOf holds on if nothing is accepted and nothing removed. *)
LEMMA OnceStays ==
    ASSUME NEW e, NEW r, OnceOf(e, r),
           \A i, j \in Ident : Accepted(r, e, i, j)' => Accepted(r, e, i, j),
           r \in DOMAIN wait_cookie_ack[e] \/ r \in DOMAIN aliases[e] =>
             r \in DOMAIN wait_cookie_ack'[e] \/ r \in DOMAIN aliases'[e]
    PROVE  OnceOf(e, r)'
BY DEF OnceOf
-----------------------------------------------------------------------------
(***************************************************************************)
(* Steps that leave the tables alone and send nothing that is about the    *)
(* setup.                                                                  *)
(***************************************************************************)
LEMMA PairingQuiet ==
    ASSUME Pairing, UNCHANGED <<wait_init_ack, wait_cookie_ack, aliases, assocs, restarts>>,
           net \subseteq net', Shape,
           \A p \in net' : p \in net \/ p.chunk.kind \notin {"Init", "InitAck", "StateCookie", "Abort"}
    PROVE  Pairing'
<1>1. Asked'
  BY Zenon DEF Pairing, Asked
<1>2. Exclusive'
  BY Zenon DEF Pairing, Exclusive
<1>3. \A e, r, i : Uses(e, r, i)' <=> Uses(e, r, i)
  BY DEF Uses, Established, AssocWith
<1>4. Current'
  BY <1>3, Zenon DEF Pairing, Current
<1>5. Answers'
  BY Zenon DEF Pairing, Answers
<1>6. \A e \in Endpoint, r \in Endpoint : \A i, j : Accepted(r, e, i, j)' => Accepted(r, e, i, j)
  BY NothingAccepted, Zenon
<1>7. \A e, r, i, j : Offered(r, e, i, j)' => Offered(r, e, i, j)
  BY NothingOffered, Zenon
<1>8. ASSUME NEW e \in Endpoint, NEW r \in Endpoint, <<e, r>> \in Connects
      PROVE  PairsOf(e, r)' /\ (restarts = 0 => OnceOf(e, r)')
  <2>1. PairsOf(e, r) /\ (restarts = 0 => OnceOf(e, r))
    BY <1>8, Zenon DEF Pairing, Pairs, Once
  <2>2. r \in DOMAIN wait_init_ack'[e] => wait_init_ack'[e][r] \in Ident
    BY Zenon DEF Shape, GoodWaits, Known
  <2>3. PairsOf(e, r)'
    BY <1>6, <1>7, <2>1, <2>2, PairsStay, Zenon DEF Linked
  <2>4. restarts = 0 => OnceOf(e, r)'
    BY <1>6, <2>1, OnceStays, Zenon
  <2>. QED  BY <2>3, <2>4, Zenon
<1>9. Pairs' /\ Once'
  BY <1>8, Zenon DEF Pairing, Pairs, Once
<1>. QED  BY <1>1, <1>2, <1>4, <1>5, <1>9, Zenon DEF Pairing

(* init_association draws numbers that nothing is paired with yet. *)
LEMMA PairingInitAssociation ==
    ASSUME Shape, Pairing, NEW e \in Endpoint, NEW r \in Endpoint, <<e, r>> \in Connects,
           InitAssociation(e, r)
    PROVE  Pairing'
<1>. DEFINE q == Packet(e, r, 0, InitChunk(e, Drawn))
<1>1. /\ q.from = e /\ q.to = r /\ q.chunk.kind = "Init" /\ q.chunk.ident = Drawn
      /\ net' = net \cup {q}
  BY Zenon DEF Packet, InitChunk, InitAssociation
<1>. HIDE DEF q
<1>2. UNCHANGED <<wait_cookie_ack, aliases, assocs, restarts>> /\ Idle(e, r)
  BY Zenon DEF InitAssociation
<1>3. drawn \in Nat /\ Drawn \in Ident /\ (Drawn).tag = drawn + 1
  BY DrawsKnown, Zenon DEF Shape, Tables, InitAssociation
<1>4. /\ r \in DOMAIN wait_init_ack'[e] /\ wait_init_ack'[e][r] = Drawn
      /\ \A f, g \in Endpoint : f # e \/ g # r =>
           /\ g \in DOMAIN wait_init_ack'[f] <=> g \in DOMAIN wait_init_ack[f]
           /\ g \in DOMAIN wait_init_ack[f] => wait_init_ack'[f][g] = wait_init_ack[f][g]
  <2>1. wait_init_ack'[e] = Put(wait_init_ack[e], r, Drawn)
        /\ \A f \in Endpoint : f # e => wait_init_ack'[f] = wait_init_ack[f]
    BY Zenon DEF InitAssociation, Shape, Tables
  <2>. QED  BY <2>1, Zenon DEF Put
<1>5. \A f \in Endpoint : \A g \in DOMAIN wait_init_ack'[f] : g \in Endpoint
  <2>1. \A f \in Endpoint : DOMAIN wait_init_ack'[f] \subseteq DOMAIN wait_init_ack[f] \cup {r}
    BY Zenon DEF InitAssociation, Shape, Tables, Put
  <2>. QED  BY <2>1, Zenon DEF Shape, GoodWaits
<1>6. Asked'
  BY <1>1, <1>2, <1>4, <1>5, Zenon DEF Pairing, Asked
<1>7. Exclusive'
  BY <1>2, <1>4, <1>5, Zenon DEF Pairing, Exclusive, Idle
<1>8. Current'
  <2>1. ASSUME NEW p \in net, p.chunk.kind = "Init"
        PROVE  /\ Uses(p.from, p.to, p.chunk.ident)'
               /\ \A x \in net' : x.chunk.kind = "Abort" => x.verification_tag < p.chunk.ident.tag
    <3>1. Uses(p.from, p.to, p.chunk.ident) /\ p.from \in Endpoint /\ p.to \in Endpoint
      BY <2>1, Zenon DEF Pairing, Current, Shape, GoodPacket
    <3>2. Uses(p.from, p.to, p.chunk.ident)'
      BY <1>2, <1>4, <3>1, SMTT(30) DEF Uses, Established, AssocWith, Idle
    <3>. QED  BY <1>1, <2>1, <3>2, Zenon DEF Pairing, Current
  <2>2. ASSUME NEW p, p = q
        PROVE  /\ Uses(p.from, p.to, p.chunk.ident)'
               /\ \A x \in net' : x.chunk.kind = "Abort" => x.verification_tag < p.chunk.ident.tag
    <3>1. p.from = e /\ p.to = r /\ p.chunk.ident = Drawn
      BY <1>1, <2>2, Zenon
    <3>2. Uses(p.from, p.to, p.chunk.ident)'
      BY <1>4, <3>1, Zenon DEF Uses
    <3>3. \A x \in net' : x.chunk.kind = "Abort" => x.verification_tag < p.chunk.ident.tag
      BY <1>1, <1>3, <3>1 DEF Shape, GoodPacket
    <3>. QED  BY <3>2, <3>3, Zenon
  <2>3. \A p \in net' : p \in net \/ p = q
    BY <1>1, Zenon
  <2>. QED  BY <2>1, <2>2, <2>3, Zenon DEF Current
<1>9. Answers'
  BY <1>1 DEF Pairing, Answers
<1>10. \A f \in Endpoint, g \in Endpoint : \A i, j : Accepted(g, f, i, j)' => Accepted(g, f, i, j)
  BY <1>1, <1>2, NothingAccepted, Zenon
<1>11. \A f, g, i, j : Offered(g, f, i, j)' => Offered(g, f, i, j)
  BY <1>1, NothingOffered, Zenon
<1>12. ASSUME NEW f \in Endpoint, NEW g \in Endpoint, <<f, g>> \in Connects
       PROVE  PairsOf(f, g)' /\ (restarts = 0 => OnceOf(f, g)')
  <2>1. PairsOf(f, g) /\ (restarts = 0 => OnceOf(f, g))
    BY <1>12, Zenon DEF Pairing, Pairs, Once
  <2>2. g \in DOMAIN wait_init_ack'[f] => wait_init_ack'[f][g] \in Ident
    BY <1>3, <1>4 DEF Shape, GoodWaits, Known
  <2>3. g \in DOMAIN wait_init_ack'[f] =>
          \/ g \in DOMAIN wait_init_ack[f] /\ wait_init_ack'[f][g] = wait_init_ack[f][g]
          \/ \A i \in Ident : ~ Accepted(g, f, i, wait_init_ack'[f][g])
    <3>1. CASE f # e \/ g # r
      BY <1>4, <3>1, Zenon
    <3>2. CASE f = e /\ g = r
      BY <1>4, <3>2, DrawnIsNew, Zenon DEF Linked
    <3>. QED  BY <3>1, <3>2, Zenon
  <2>4. PairsOf(f, g)'
    BY <1>10, <1>11, <2>1, <2>2, <2>3, PairsStay, Zenon DEF Linked
  <2>5. restarts = 0 => OnceOf(f, g)'
    BY <1>2, <1>10, <2>1, OnceStays, Zenon
  <2>. QED  BY <2>4, <2>5, Zenon
<1>13. Pairs' /\ Once'
  BY <1>1, <1>2, <1>12, Zenon DEF Pairing, Pairs, Once
<1>. QED  BY <1>6, <1>7, <1>8, <1>9, <1>13, Zenon DEF Pairing

(* handle_init pairs a number just drawn with that of the INIT. *)
LEMMA PairingHandleInit ==
    ASSUME Shape, Pairing, OneSided, NEW p \in net, HandleInit(p.to, p)
    PROVE  Pairing'
<1>. DEFINE e == p.from
            r == p.to
            q == Packet(r, e, p.chunk.ident.tag, InitAck(r, Drawn, Cookie(r, e, p.chunk, Drawn)))
<1>1. e \in Endpoint /\ r \in Endpoint /\ <<e, r>> \in Connects /\ p.chunk.kind = "Init"
  BY Zenon DEF Shape, GoodPacket, Pairing, Asked, HandleInit
<1>2. e \notin DOMAIN wait_init_ack[r]
  BY <1>1, Zenon DEF OneSided, Pairing, Asked
<1>3. net' = net \cup {q} /\ UNCHANGED <<wait_init_ack, wait_cookie_ack, aliases, assocs, restarts>>
  BY <1>2, Zenon DEF HandleInit, tableVars
<1>4. /\ q.from = r /\ q.to = e /\ q.chunk.kind = "InitAck"
      /\ q.chunk.cookie.local = Drawn /\ q.chunk.cookie.peer = p.chunk.ident
  BY Zenon DEF Packet, InitAck, Cookie
<1>. HIDE DEF q
<1>5. Asked'
  BY <1>1, <1>3, <1>4, Zenon DEF Pairing, Asked
<1>6. Exclusive'
  BY <1>3, Zenon DEF Pairing, Exclusive
<1>7. \A f, g, i : Uses(f, g, i)' <=> Uses(f, g, i)
  BY <1>3 DEF Uses, Established, AssocWith
<1>8. Current'
  BY <1>3, <1>4, <1>7, Zenon DEF Pairing, Current
<1>9. Answers'
  BY <1>1, <1>3, <1>4 DEF Pairing, Answers
<1>10. \A f \in Endpoint, g \in Endpoint : \A i, j : Accepted(g, f, i, j)' => Accepted(g, f, i, j)
  BY <1>3, <1>4, NothingAccepted, Zenon
<1>11. ASSUME NEW f \in Endpoint, NEW g \in Endpoint, NEW i, NEW j, Linked(g, f, i, j)'
       PROVE  Linked(g, f, i, j) \/ (i = Drawn /\ j = p.chunk.ident)
  BY <1>3, <1>4, <1>10, <1>11, Zenon DEF Linked, Offered
<1>12. ASSUME NEW f \in Endpoint, NEW g \in Endpoint, <<f, g>> \in Connects
       PROVE  PairsOf(f, g)' /\ (restarts = 0 => OnceOf(f, g)')
  <2>1. PairsOf(f, g) /\ (restarts = 0 => OnceOf(f, g))
    BY <1>12, Zenon DEF Pairing, Pairs, Once
  <2>2. \A i, j, k \in Ident : Linked(g, f, i, j)' /\ Linked(g, f, i, k)' => j = k
    BY <1>11, <2>1, DrawnIsNew DEF PairsOf
  <2>3. \A i, j, k \in Ident : Accepted(g, f, i, k)' /\ Accepted(g, f, j, k)' => i = j
    BY <1>10, <2>1, Zenon DEF PairsOf
  <2>4. g \in DOMAIN wait_init_ack'[f] => \A i \in Ident : ~ Accepted(g, f, i, wait_init_ack[f][g])'
    <3>1. ASSUME g \in DOMAIN wait_init_ack[f], NEW i \in Ident, NEW j, j = wait_init_ack[f][g]
          PROVE  ~ Accepted(g, f, i, j)'
      BY <1>10, <2>1, <3>1, Zenon DEF PairsOf
    <3>. QED  BY <1>3, <3>1, Zenon
  <2>5. restarts = 0 => OnceOf(f, g)'
    BY <1>3, <1>10, <2>1, OnceStays, Zenon
  <2>. QED  BY <2>2, <2>3, <2>4, <2>5, Zenon DEF PairsOf
<1>13. Pairs' /\ Once'
  BY <1>3, <1>4, <1>12, Zenon DEF Pairing, Pairs, Once
<1>. QED  BY <1>5, <1>6, <1>8, <1>9, <1>13, Zenon DEF Pairing

(* handle_init_ack accepts one of the offers for the numbers it waits with. *)
LEMMA PairingHandleInitAck ==
    ASSUME Shape, Pairing, NEW p \in net, HandleInitAck(p.to, p)
    PROVE  Pairing'
<1>. DEFINE e == p.to
            r == p.from
            i0 == p.chunk.cookie.local
            j0 == p.chunk.cookie.peer
            q == Packet(e, r, p.chunk.ident.tag, [kind |-> "StateCookie", cookie |-> p.chunk.cookie])
<1>1. /\ e \in Endpoint /\ r \in Endpoint /\ <<e, r>> \in Connects /\ p.chunk.kind = "InitAck"
      /\ r \in DOMAIN wait_init_ack[e] /\ i0 \in Ident /\ j0 \in Ident /\ p.chunk.ident = i0
  BY Zenon DEF Shape, GoodPacket, GoodCookie, Known, Pairing, Asked, HandleInitAck
<1>2. /\ q.from = e /\ q.to = r /\ q.chunk.kind = "StateCookie"
      /\ q.chunk.cookie.local = i0 /\ q.chunk.cookie.peer = j0
  BY Zenon DEF Packet
<1>3. net' = net \cup {q} /\ UNCHANGED <<aliases, assocs, restarts>>
  BY Zenon DEF HandleInitAck
<1>. HIDE DEF q
<1>4. r \notin DOMAIN wait_cookie_ack[e] /\ r \notin DOMAIN aliases[e]
  BY <1>1, Zenon DEF Pairing, Exclusive
<1>5. wait_init_ack[e][r] = j0
  <2>1. PICK x \in net : x.chunk.kind = "Init" /\ x.from = e /\ x.to = r /\ x.chunk.ident = j0
    BY <1>1, Zenon DEF Pairing, Answers
  <2>2. Uses(e, r, j0)
    BY <2>1, Zenon DEF Pairing, Current
  <2>. QED  BY <1>4, <2>2, Zenon DEF Uses, Established
<1>6. /\ r \notin DOMAIN wait_init_ack'[e]
      /\ \A f, g \in Endpoint : f # e \/ g # r =>
           /\ g \in DOMAIN wait_init_ack'[f] <=> g \in DOMAIN wait_init_ack[f]
           /\ g \in DOMAIN wait_init_ack[f] => wait_init_ack'[f][g] = wait_init_ack[f][g]
      /\ \A f \in Endpoint : DOMAIN wait_init_ack'[f] \subseteq Endpoint
  <2>1. wait_init_ack'[e] = Drop(wait_init_ack[e], {r})
        /\ \A f \in Endpoint : f # e => wait_init_ack'[f] = wait_init_ack[f]
    BY <1>1, Zenon DEF HandleInitAck, Shape, Tables
  <2>2. \A f \in Endpoint : DOMAIN wait_init_ack[f] \subseteq Endpoint
    BY Zenon DEF Shape, GoodWaits
  <2>. QED  BY <1>1, <2>1, <2>2, Zenon DEF Drop
<1>7. /\ r \in DOMAIN wait_cookie_ack'[e]
      /\ wait_cookie_ack'[e][r].local = j0 /\ wait_cookie_ack'[e][r].peer = i0
      /\ \A f, g \in Endpoint : f # e \/ g # r =>
           /\ g \in DOMAIN wait_cookie_ack'[f] <=> g \in DOMAIN wait_cookie_ack[f]
           /\ g \in DOMAIN wait_cookie_ack[f] => wait_cookie_ack'[f][g] = wait_cookie_ack[f][g]
      /\ \A f \in Endpoint : DOMAIN wait_cookie_ack'[f] \subseteq Endpoint
  <2>1. wait_cookie_ack'[e] = Put(wait_cookie_ack[e], r, HalfOpen(e, p))
        /\ \A f \in Endpoint : f # e => wait_cookie_ack'[f] = wait_cookie_ack[f]
    BY <1>1, Zenon DEF HandleInitAck, Shape, Tables
  <2>2. \A f \in Endpoint : DOMAIN wait_cookie_ack[f] \subseteq Endpoint
    BY Zenon DEF Shape, GoodWaits, GoodHalfOpen
  <2>3. (HalfOpen(e, p)).local = j0 /\ (HalfOpen(e, p)).peer = i0
    BY <1>1, <1>5, Zenon DEF HalfOpen
  <2>. QED  BY <1>1, <2>1, <2>2, <2>3 DEF Put
<1>8. Asked'
  BY <1>1, <1>2, <1>3, <1>6, <1>7, Zenon DEF Pairing, Asked
<1>9. Exclusive'
  BY <1>3, <1>4, <1>6, <1>7 DEF Pairing, Exclusive
<1>10. Current'
  <2>1. ASSUME NEW x \in net, x.chunk.kind = "Init" PROVE Uses(x.from, x.to, x.chunk.ident)'
    <3>1. Uses(x.from, x.to, x.chunk.ident) /\ x.from \in Endpoint /\ x.to \in Endpoint
      BY <2>1, Zenon DEF Pairing, Current, Shape, GoodPacket
    <3>2. CASE x.from = e /\ x.to = r
      <4>1. x.chunk.ident = j0
        BY <1>1, <1>4, <1>5, <3>1, <3>2, Zenon DEF Uses, Established
      <4>. QED  BY <1>7, <3>2, <4>1, Zenon DEF Uses
    <3>3. CASE x.from # e \/ x.to # r
      BY <1>3, <1>6, <1>7, <3>1, <3>3 DEF Uses, Established, AssocWith
    <3>. QED  BY <3>2, <3>3, Zenon
  <2>. QED  BY <1>2, <1>3, <2>1, Zenon DEF Pairing, Current
<1>11. Answers'
  BY <1>2, <1>3 DEF Pairing, Answers
<1>12. ASSUME NEW f \in Endpoint, NEW g \in Endpoint, NEW i, NEW j, Accepted(g, f, i, j)'
       PROVE  Accepted(g, f, i, j) \/ (f = e /\ g = r /\ i = i0 /\ j = j0)
  <2>1. CASE \E x \in net' : /\ x.chunk.kind = "StateCookie" /\ x.from = f /\ x.to = g
                             /\ x.chunk.cookie.local = i /\ x.chunk.cookie.peer = j
    BY <1>2, <1>3, <2>1, Zenon DEF Accepted
  <2>2. CASE /\ g \in DOMAIN wait_cookie_ack'[f]
             /\ wait_cookie_ack'[f][g].peer = i /\ wait_cookie_ack'[f][g].local = j
    BY <1>7, <2>2, Zenon DEF Accepted
  <2>. QED  BY <1>3, <1>12, <2>1, <2>2, Zenon DEF Accepted
<1>13. Offered(r, e, i0, j0)
  BY <1>1, Zenon DEF Offered
<1>14. \A f, g, i, j : Offered(g, f, i, j)' => Offered(g, f, i, j)
  BY <1>2, <1>3, NothingOffered, Zenon
<1>15. ASSUME NEW f \in Endpoint, NEW g \in Endpoint, <<f, g>> \in Connects
       PROVE  PairsOf(f, g)' /\ (restarts = 0 => OnceOf(f, g)')
  <2>1. PairsOf(f, g) /\ (restarts = 0 => OnceOf(f, g))
    BY <1>15, Zenon DEF Pairing, Pairs, Once
  <2>2. CASE f # e \/ g # r
    <3>1. \A i, j \in Ident : Accepted(g, f, i, j)' => Accepted(g, f, i, j)
      BY <1>12, <2>2, Zenon
    <3>2. g \in DOMAIN wait_init_ack'[f] => wait_init_ack'[f][g] \in Ident
      BY <1>6, <2>2 DEF Shape, GoodWaits, Known
    <3>3. PairsOf(f, g)'
      BY <1>6, <1>14, <2>1, <2>2, <3>1, <3>2, PairsStay DEF Linked
    <3>4. restarts = 0 => OnceOf(f, g)'
      BY <1>3, <1>7, <2>1, <2>2, <3>1, OnceStays, Zenon
    <3>. QED  BY <3>3, <3>4, Zenon
  <2>3. CASE f = e /\ g = r
    <3>1. \A i \in Ident : ~ Accepted(r, e, i, j0)
      BY <1>1, <1>5, <2>1, <2>3, Zenon DEF PairsOf
    <3>2. \A i, j \in Ident : Linked(r, e, i, j)' => Linked(r, e, i, j)
      BY <1>1, <1>12, <1>13, <1>14, Zenon DEF Linked
    <3>3. \A i, j, k \in Ident : Linked(r, e, i, j)' /\ Linked(r, e, i, k)' => j = k
      BY <2>1, <2>3, <3>2, Zenon DEF PairsOf
    <3>4. \A i, j, k \in Ident : Accepted(r, e, i, k)' /\ Accepted(r, e, j, k)' => i = j
      BY <1>1, <1>12, <2>1, <2>3, <3>1 DEF PairsOf
    <3>5. PairsOf(f, g)'
      BY <1>6, <2>3, <3>3, <3>4, Zenon DEF PairsOf
    <3>6. restarts = 0 => \A i, j \in Ident : ~ Accepted(r, e, i, j)
      BY <1>4, <2>1, <2>3, Zenon DEF OnceOf
    <3>7. restarts = 0 => \A i, j \in Ident : Accepted(r, e, i, j)' => i = i0 /\ j = j0
      BY <1>1, <1>12, <3>6, Zenon
    <3>8. restarts = 0 => OnceOf(f, g)'
      BY <1>7, <2>3, <3>7 DEF OnceOf
    <3>. QED  BY <3>5, <3>8
  <2>. QED  BY <2>2, <2>3, Zenon
<1>16. Pairs' /\ Once'
  BY <1>2, <1>3, <1>15, Zenon DEF Pairing, Pairs, Once
<1>. QED  BY <1>8, <1>9, <1>10, <1>11, <1>16, Zenon DEF Pairing
-----------------------------------------------------------------------------
(* make_new_assoc adds one association, and the way to it. *)
LEMMA MakesOne ==
    ASSUME Shape, NEW e \in Endpoint, NEW a, MakeNewAssoc(e, a)
    PROVE  /\ \A f \in Endpoint : \A x \in DOMAIN assocs[f] :
                x \in DOMAIN assocs'[f] /\ assocs'[f][x] = assocs[f][x]
           /\ \A f \in Endpoint : \A x \in DOMAIN assocs'[f] :
                (x \in DOMAIN assocs[f] /\ assocs'[f][x] = assocs[f][x]) \/ (f = e /\ assocs'[f][x] = a)
           /\ \A f \in Endpoint : \A g : f # e \/ g # a.peer_addr =>
                /\ g \in DOMAIN aliases'[f] <=> g \in DOMAIN aliases[f]
                /\ g \in DOMAIN aliases[f] => AssocWith(f, g)' = AssocWith(f, g)
           /\ a.peer_addr \in DOMAIN aliases'[e] /\ assocs'[e][aliases'[e][a.peer_addr]] = a
<1>1. PICK id : /\ id \notin DOMAIN assocs[e]
                /\ aliases'[e] = Put(aliases[e], a.peer_addr, id)
                /\ assocs'[e] = Put(assocs[e], id, a)
                /\ \A f \in Endpoint : f # e => aliases'[f] = aliases[f] /\ assocs'[f] = assocs[f]
  BY NewAssocTables, Zenon
<1>2. /\ DOMAIN assocs'[e] = DOMAIN assocs[e] \cup {id} /\ assocs'[e][id] = a
      /\ \A x \in DOMAIN assocs[e] : assocs'[e][x] = assocs[e][x]
  BY <1>1, Zenon DEF Put
<1>3. /\ DOMAIN aliases'[e] = DOMAIN aliases[e] \cup {a.peer_addr} /\ aliases'[e][a.peer_addr] = id
      /\ \A g \in DOMAIN aliases[e] : g # a.peer_addr => aliases'[e][g] = aliases[e][g]
  BY <1>1, Zenon DEF Put
<1>4. \A g \in DOMAIN aliases[e] : aliases[e][g] \in DOMAIN assocs[e]
  BY Zenon DEF Shape, GoodAssocs
<1>5. ASSUME NEW f \in Endpoint, NEW g, f # e \/ g # a.peer_addr
      PROVE  /\ g \in DOMAIN aliases'[f] <=> g \in DOMAIN aliases[f]
             /\ g \in DOMAIN aliases[f] => AssocWith(f, g)' = AssocWith(f, g)
  <2>1. CASE f # e
    BY <1>1, <2>1, Zenon DEF AssocWith
  <2>2. CASE f = e /\ g # a.peer_addr
    BY <1>2, <1>3, <1>4, <2>2, Zenon DEF AssocWith
  <2>. QED  BY <1>5, <2>1, <2>2, Zenon
<1>6. \A f \in Endpoint : \A x \in DOMAIN assocs[f] :
        x \in DOMAIN assocs'[f] /\ assocs'[f][x] = assocs[f][x]
  BY <1>1, <1>2, Zenon
<1>7. \A f \in Endpoint : \A x \in DOMAIN assocs'[f] :
        (x \in DOMAIN assocs[f] /\ assocs'[f][x] = assocs[f][x]) \/ (f = e /\ assocs'[f][x] = a)
  BY <1>1, <1>2, Zenon
<1>. QED  BY <1>2, <1>3, <1>5, <1>6, <1>7, Zenon

(* Of what is half open, at most e's with r is gone. *)
OthersKept(e, r) ==
    /\ \A f \in Endpoint : DOMAIN wait_cookie_ack[f] \subseteq Endpoint
    /\ \A f \in Endpoint, g \in Endpoint : f # e \/ g # r =>
         (g \in DOMAIN wait_cookie_ack'[f] <=> g \in DOMAIN wait_cookie_ack[f])
    /\ \A f \in Endpoint : \A g \in DOMAIN wait_cookie_ack'[f] :
         g \in DOMAIN wait_cookie_ack[f] /\ wait_cookie_ack'[f][g] = wait_cookie_ack[f][g]

(* Whoever waits for a COOKIE ACK has accepted an INIT-ACK. *)
LEMMA HalfOpenAccepted ==
    ASSUME NEW f, NEW g, g \in DOMAIN wait_cookie_ack[f]
    PROVE  Accepted(g, f, wait_cookie_ack[f][g].peer, wait_cookie_ack[f][g].local)
BY Zenon DEF Accepted

(* Steps that open an association of what was accepted. *)
LEMMA PairingMakes ==
    ASSUME Shape, Pairing, OneSided,
           NEW e \in Endpoint, NEW r \in Endpoint, NEW a, MakeNewAssoc(e, a), a.peer_addr = r,
           \/ <<e, r>> \in Connects /\ Accepted(r, e, a.peer, a.local)
           \/ <<r, e>> \in Connects /\ Accepted(e, r, a.local, a.peer),
           r \notin DOMAIN aliases[e], r \notin DOMAIN wait_init_ack[e],
           r \notin DOMAIN wait_cookie_ack'[e],
           r \in DOMAIN wait_cookie_ack[e] => wait_cookie_ack[e][r].local = a.local,
           OthersKept(e, r),
           UNCHANGED <<wait_init_ack, restarts>>, net \subseteq net',
           \A p \in net' : p \in net \/ p.chunk.kind \notin {"Init", "InitAck", "StateCookie", "Abort"}
    PROVE  Pairing'
<1>. USE DEF OthersKept
<1>1. /\ \A f \in Endpoint : \A x \in DOMAIN assocs'[f] :
           (x \in DOMAIN assocs[f] /\ assocs'[f][x] = assocs[f][x]) \/ (f = e /\ assocs'[f][x] = a)
      /\ \A f \in Endpoint : \A g : f # e \/ g # r =>
           /\ g \in DOMAIN aliases'[f] <=> g \in DOMAIN aliases[f]
           /\ g \in DOMAIN aliases[f] => AssocWith(f, g)' = AssocWith(f, g)
      /\ r \in DOMAIN aliases'[e] /\ assocs'[e][aliases'[e][r]] = a
  BY MakesOne
<1>2. Asked'
  <2>1. ASSUME NEW f \in Endpoint, NEW x \in DOMAIN assocs'[f]
        PROVE  \/ <<f, assocs'[f][x].peer_addr>> \in Connects
               \/ <<assocs'[f][x].peer_addr, f>> \in Connects
    <3>1. CASE x \in DOMAIN assocs[f] /\ assocs'[f][x] = assocs[f][x]
      BY <3>1, Zenon DEF Pairing, Asked
    <3>2. CASE f = e /\ assocs'[f][x] = a
      BY <3>2, Zenon
    <3>. QED  BY <1>1, <2>1, <3>1, <3>2
  <2>. QED  BY <2>1, Zenon DEF Pairing, Asked
<1>3. Exclusive'
  <2>1. ASSUME NEW f \in Endpoint, NEW g \in DOMAIN wait_init_ack[f]
        PROVE  g \notin DOMAIN wait_cookie_ack'[f] /\ g \notin DOMAIN aliases'[f]
    BY <1>1, <2>1 DEF Pairing, Exclusive
  <2>2. ASSUME NEW f \in Endpoint, NEW g \in DOMAIN wait_cookie_ack'[f]
        PROVE  g \notin DOMAIN aliases'[f]
    BY <1>1, <2>2 DEF Pairing, Exclusive
  <2>. QED  BY <2>1, <2>2, Zenon DEF Exclusive
<1>4. ASSUME NEW f \in Endpoint, NEW g \in Endpoint, NEW i, Uses(f, g, i)
      PROVE  Uses(f, g, i)'
  <2>1. CASE f # e \/ g # r
    BY <1>1, <1>4, <2>1 DEF Uses, Established
  <2>2. CASE f = e /\ g = r
    <3>1. i = a.local
      BY <1>4, <2>2, Zenon DEF Uses, Established
    <3>. QED  BY <1>1, <2>2, <3>1, Zenon DEF Uses, Established, AssocWith
  <2>. QED  BY <2>1, <2>2, Zenon
<1>5. Current'
  <2>1. ASSUME NEW p \in net', p.chunk.kind = "Init"
        PROVE  Uses(p.from, p.to, p.chunk.ident)'
    <3>1. p \in net /\ p.from \in Endpoint /\ p.to \in Endpoint
      BY <2>1, Zenon DEF Shape, GoodPacket
    <3>. QED  BY <1>4, <2>1, <3>1, Zenon DEF Pairing, Current
  <2>. QED  BY <2>1, Zenon DEF Pairing, Current
<1>6. Answers'
  BY DEF Pairing, Answers
<1>7. ASSUME NEW f \in Endpoint, NEW g \in Endpoint, <<f, g>> \in Connects, NEW i, NEW j,
             Accepted(g, f, i, j)'
      PROVE  Accepted(g, f, i, j)
  <2>1. CASE \E p \in net' : /\ p.chunk.kind = "StateCookie" /\ p.from = f /\ p.to = g
                             /\ p.chunk.cookie.local = i /\ p.chunk.cookie.peer = j
    BY <2>1, Zenon DEF Accepted
  <2>2. CASE /\ g \in DOMAIN wait_cookie_ack'[f]
             /\ wait_cookie_ack'[f][g].peer = i /\ wait_cookie_ack'[f][g].local = j
    <3>1. g \in DOMAIN wait_cookie_ack[f] /\ wait_cookie_ack'[f][g] = wait_cookie_ack[f][g]
      BY <2>2
    <3>. QED  BY <2>2, <3>1, HalfOpenAccepted
  <2>3. ASSUME NEW id \in DOMAIN assocs'[f],
               assocs'[f][id].peer_addr = g, assocs'[f][id].peer = i, assocs'[f][id].local = j
        PROVE  Accepted(g, f, i, j)
    <3>1. CASE id \in DOMAIN assocs[f] /\ assocs'[f][id] = assocs[f][id]
      BY <2>3, <3>1, Zenon DEF Accepted
    <3>2. CASE f = e /\ assocs'[f][id] = a
      BY <1>7, <2>3, <3>2, Zenon DEF OneSided
    <3>. QED  BY <1>1, <3>1, <3>2
  <2>4. ASSUME NEW id \in DOMAIN assocs'[g],
               assocs'[g][id].peer_addr = f, assocs'[g][id].local = i, assocs'[g][id].peer = j
        PROVE  Accepted(g, f, i, j)
    <3>1. CASE id \in DOMAIN assocs[g] /\ assocs'[g][id] = assocs[g][id]
      BY <2>4, <3>1, Zenon DEF Accepted
    <3>2. CASE g = e /\ assocs'[g][id] = a
      BY <1>7, <2>4, <3>2, Zenon DEF OneSided
    <3>. QED  BY <1>1, <3>1, <3>2
  <2>. QED  BY <1>7, <2>1, <2>2, <2>3, <2>4, Zenon DEF Accepted
<1>8. \A f, g, i, j : Offered(g, f, i, j)' => Offered(g, f, i, j)
  BY NothingOffered, Zenon
<1>9. ASSUME NEW f \in Endpoint, NEW g \in Endpoint, <<f, g>> \in Connects
      PROVE  PairsOf(f, g)' /\ (restarts = 0 => OnceOf(f, g)')
  <2>1. PairsOf(f, g) /\ (restarts = 0 => OnceOf(f, g))
    BY <1>9, Zenon DEF Pairing, Pairs, Once
  <2>2. g \in DOMAIN wait_init_ack'[f] => wait_init_ack'[f][g] \in Ident
    BY Zenon DEF Shape, GoodWaits, Known
  <2>3. \A i, j \in Ident : Accepted(g, f, i, j)' => Accepted(g, f, i, j)
    BY <1>7, <1>9, Zenon
  <2>4. PairsOf(f, g)'
    BY <1>8, <2>1, <2>2, <2>3, PairsStay, Zenon DEF Linked
  <2>5. g \in DOMAIN wait_cookie_ack[f] \/ g \in DOMAIN aliases[f] =>
          g \in DOMAIN wait_cookie_ack'[f] \/ g \in DOMAIN aliases'[f]
    BY <1>1, Zenon
  <2>6. restarts = 0 => OnceOf(f, g)'
    BY <2>1, <2>3, <2>5, OnceStays, Zenon
  <2>. QED  BY <2>4, <2>6, Zenon
<1>10. Pairs' /\ Once'
  BY <1>9, Zenon DEF Pairing, Pairs, Once
<1>. QED  BY <1>2, <1>3, <1>5, <1>6, <1>10, Zenon DEF Pairing

(* handle_cookie_echo takes a pair that its peer has accepted. *)
LEMMA PairingHandleCookieEcho ==
    ASSUME Shape, Pairing, OneSided, NEW p \in net, HandleCookieEcho(p.to, p)
    PROVE  Pairing'
<1>. DEFINE e == p.to
            r == p.from
            cookie == p.chunk.cookie
            a == [peer_addr |-> cookie.init_address, local |-> cookie.local, peer |-> cookie.peer,
                  in_streams |-> cookie.incoming_streams, out_streams |-> cookie.outgoing_streams]
            q == Packet(e, cookie.init_address, cookie.peer.tag, [kind |-> "StateCookieAck"])
<1>1. /\ e \in Endpoint /\ r \in Endpoint /\ <<r, e>> \in Connects
      /\ p.chunk.kind = "StateCookie" /\ cookie.init_address = r
  BY Zenon DEF Shape, GoodPacket, GoodCookie, Pairing, Asked, HandleCookieEcho
<1>2. r \notin DOMAIN wait_init_ack[e] /\ r \notin DOMAIN wait_cookie_ack[e]
  BY <1>1, Zenon DEF OneSided, Pairing, Asked
<1>3. a.peer_addr = r /\ a.local = cookie.local /\ a.peer = cookie.peer
  BY <1>1, Zenon
<1>4. /\ MakeNewAssoc(e, a) /\ net' = net \cup {q} /\ r \notin DOMAIN aliases[e]
      /\ UNCHANGED <<wait_init_ack, wait_cookie_ack, restarts>>
  BY Zenon DEF HandleCookieEcho
<1>5. q.chunk.kind = "StateCookieAck"
  BY Zenon DEF Packet
<1>. HIDE DEF a, q
<1>6. Accepted(e, r, a.local, a.peer)
  BY <1>1, <1>3, Zenon DEF Accepted
<1>7. \A f \in Endpoint : DOMAIN wait_cookie_ack[f] \subseteq Endpoint
  BY Zenon DEF Shape, GoodWaits, GoodHalfOpen
<1>8. net \subseteq net' /\ \A x \in net' : x \in net
          \/ x.chunk.kind \notin {"Init", "InitAck", "StateCookie", "Abort"}
  BY <1>4, <1>5, Zenon
<1>9. OthersKept(e, r)
  BY <1>4, <1>7, Zenon DEF OthersKept
<1>. QED  BY <1>1, <1>2, <1>3, <1>4, <1>6, <1>8, <1>9, PairingMakes, Zenon

(* handle_cookie_ack takes the pair of the half-open entry. *)
LEMMA PairingHandleCookieAck ==
    ASSUME Shape, Pairing, OneSided, NEW p \in net, HandleCookieAck(p.to, p)
    PROVE  Pairing'
<1>. DEFINE e == p.to
            r == p.from
            h == wait_cookie_ack[e][r]
            a == [peer_addr |-> r, local |-> h.local, peer |-> h.peer,
                  in_streams |-> InStreams(e, h), out_streams |-> OutStreams(e, h)]
<1>1. e \in Endpoint /\ r \in Endpoint /\ r \in DOMAIN wait_cookie_ack[e]
  BY Zenon DEF Shape, GoodPacket, HandleCookieAck
<1>2. <<e, r>> \in Connects /\ r \notin DOMAIN wait_init_ack[e] /\ r \notin DOMAIN aliases[e]
  BY <1>1, Zenon DEF Pairing, Asked, Exclusive
<1>3. a.peer_addr = r /\ a.local = h.local /\ a.peer = h.peer
  BY Zenon
<1>4. wait_cookie_ack' = [wait_cookie_ack EXCEPT ![e] = Drop(@, {r})]
  BY Zenon DEF HandleCookieAck
<1>11. MakeNewAssoc(e, a) /\ UNCHANGED <<wait_init_ack, restarts, net>>
  BY Zenon DEF HandleCookieAck
<1>. HIDE DEF a
<1>5. Accepted(r, e, a.peer, a.local)
  BY <1>1, <1>3, Zenon DEF Accepted
<1>6. \A f \in Endpoint : DOMAIN wait_cookie_ack[f] \subseteq Endpoint
  BY DEF Shape, GoodWaits, GoodHalfOpen
<1>7. /\ wait_cookie_ack'[e] = Drop(wait_cookie_ack[e], {r})
      /\ \A f \in Endpoint : f # e => wait_cookie_ack'[f] = wait_cookie_ack[f]
  BY <1>1, <1>4, Zenon DEF Shape, Tables
<1>8. /\ r \notin DOMAIN wait_cookie_ack'[e]
      /\ DOMAIN wait_cookie_ack'[e] = DOMAIN wait_cookie_ack[e] \ {r}
      /\ \A g \in DOMAIN wait_cookie_ack'[e] : wait_cookie_ack'[e][g] = wait_cookie_ack[e][g]
  BY <1>7, Zenon DEF Drop
<1>9. \A f \in Endpoint, g \in Endpoint : f # e \/ g # r =>
        (g \in DOMAIN wait_cookie_ack'[f] <=> g \in DOMAIN wait_cookie_ack[f])
  BY <1>7, <1>8, Zenon
<1>10. ASSUME NEW f \in Endpoint, NEW g \in DOMAIN wait_cookie_ack'[f]
       PROVE  g \in DOMAIN wait_cookie_ack[f] /\ wait_cookie_ack'[f][g] = wait_cookie_ack[f][g]
  <2>1. CASE f = e
    BY <1>8, <1>10, <2>1, Zenon
  <2>2. CASE f # e
    BY <1>7, <1>10, <2>2, Zenon
  <2>. QED  BY <2>1, <2>2, Zenon
<1>12. r \notin DOMAIN wait_cookie_ack'[e] /\ wait_cookie_ack[e][r].local = a.local
  BY <1>3, <1>8, Zenon
<1>13. net \subseteq net' /\ \A x \in net' : x \in net
  BY <1>11, Zenon
<1>14. OthersKept(e, r)
  BY <1>6, <1>9, <1>10, Zenon DEF OthersKept
<1>. HIDE DEF e, r, h
<1>15. a.peer_addr = r
  BY <1>3, Zenon
<1>. QED  BY <1>1, <1>2, <1>5, <1>11, <1>12, <1>13, <1>14, <1>15, PairingMakes, Zenon

(* An ABORT is not for an association whose INIT is still in the network. *)
LEMMA PairingProcessAbort ==
    ASSUME Shape, Pairing, NEW p \in net, p.from \in DOMAIN aliases[p.to],
           TagMatches(p.to, aliases[p.to][p.from], p),
           ProcessAbort(p.to, aliases[p.to][p.from], p)
    PROVE  Pairing'
<1>. DEFINE e == p.to
            id == aliases[e][p.from]
            K == {x \in DOMAIN aliases[e] : aliases[e][x] = id}
<1>1. e \in Endpoint /\ p.chunk.kind = "Abort" /\ assocs[e][id].local.tag = p.verification_tag
  BY Zenon DEF Shape, GoodPacket, ProcessAbort, TagMatches
<1>2. UNCHANGED <<wait_init_ack, wait_cookie_ack, assocs, net, restarts>>
  BY Zenon DEF ProcessAbort
<1>3. /\ aliases'[e] = Drop(aliases[e], K)
      /\ \A f \in Endpoint : f # e => aliases'[f] = aliases[f]
  BY <1>1, Zenon DEF Shape, Tables, ProcessAbort
<1>4. /\ \A f \in Endpoint : DOMAIN aliases'[f] \subseteq DOMAIN aliases[f]
      /\ \A f \in Endpoint : \A g \in DOMAIN aliases[f] :
           \/ g \in DOMAIN aliases'[f] /\ aliases'[f][g] = aliases[f][g]
           \/ f = e /\ aliases[f][g] = id
  BY <1>3 DEF Drop
<1>. HIDE DEF K, id
<1>5. Asked'
  BY <1>2, Zenon DEF Pairing, Asked
<1>6. Exclusive'
  BY <1>2, <1>4, Zenon DEF Pairing, Exclusive
<1>7. Current'
  <2>1. ASSUME NEW q \in net, q.chunk.kind = "Init"
        PROVE  Uses(q.from, q.to, q.chunk.ident)'
    <3>1. /\ Uses(q.from, q.to, q.chunk.ident) /\ q.from \in Endpoint /\ q.to \in Endpoint
          /\ p.verification_tag < q.chunk.ident.tag /\ p.verification_tag \in Nat
      BY <1>1, <2>1, Zenon DEF Pairing, Current, Shape, GoodPacket
    <3>2. CASE q.from = e /\ q.to \in DOMAIN aliases[e] /\ aliases[e][q.to] = id
                /\ AssocWith(e, q.to).local = q.chunk.ident
      BY <1>1, <3>1, <3>2 DEF AssocWith
    <3>3. CASE q.to \in DOMAIN aliases[q.from] /\ AssocWith(q.from, q.to).local = q.chunk.ident
               /\ ~ (q.from = e /\ aliases[e][q.to] = id)
      <4>1. q.to \in DOMAIN aliases'[q.from] /\ aliases'[q.from][q.to] = aliases[q.from][q.to]
        BY <1>4, <3>1, <3>3
      <4>. QED  BY <1>2, <3>3, <4>1, Zenon DEF Uses, Established, AssocWith
    <3>4. CASE \/ q.to \in DOMAIN wait_init_ack[q.from] /\ wait_init_ack[q.from][q.to] = q.chunk.ident
               \/ /\ q.to \in DOMAIN wait_cookie_ack[q.from]
                  /\ wait_cookie_ack[q.from][q.to].local = q.chunk.ident
      BY <1>2, <3>4, Zenon DEF Uses
    <3>. QED  BY <3>1, <3>2, <3>3, <3>4, SMTT(30) DEF Uses, Established
  <2>. QED  BY <1>2, <2>1, Zenon DEF Pairing, Current
<1>8. Answers'
  BY <1>2, Zenon DEF Pairing, Answers
<1>9. \A f \in Endpoint, g \in Endpoint : \A i, j : Accepted(g, f, i, j)' => Accepted(g, f, i, j)
  BY <1>2, NothingAccepted, Zenon
<1>10. \A f, g, i, j : Offered(g, f, i, j)' => Offered(g, f, i, j)
  BY <1>2, NothingOffered, Zenon
<1>11. Pairs'
  <2>. SUFFICES ASSUME NEW f \in Endpoint, NEW g \in Endpoint, <<f, g>> \in Connects
                PROVE  PairsOf(f, g)'
    BY Zenon DEF Pairs
  <2>1. PairsOf(f, g)
    BY Zenon DEF Pairing, Pairs
  <2>2. g \in DOMAIN wait_init_ack'[f] => wait_init_ack'[f][g] \in Ident
    BY <1>2, Zenon DEF Shape, GoodWaits, Known
  <2>. QED  BY <1>2, <1>9, <1>10, <2>1, <2>2, PairsStay, Zenon DEF Linked
<1>12. Once'
  BY <1>1, <1>2, Zenon DEF Pairing, Once
<1>. QED  BY <1>5, <1>6, <1>7, <1>8, <1>11, <1>12, Zenon DEF Pairing

(* After a restart no INIT and no INIT-ACK is left. *)
LEMMA PairingRestart ==
    ASSUME Shape, Pairing, Fresh', NEW e \in Endpoint, NEW id \in assoc_infos[e], Restart(e, id)
    PROVE  Pairing'
<1>. DEFINE a == assocs[e][id]
            q == Packet(e, a.peer_addr, a.peer.tag, [kind |-> "Abort"])
<1>1. q.chunk.kind = "Abort"
  BY Zenon DEF Packet
<1>2. restarts' > 0 /\ OutlivesRestart \cap {"Init", "InitAck"} = {}
  BY DEF Restart, Fresh, Shape, Tables
<1>3. net' = {p \in net : p.chunk.kind \in OutlivesRestart} \cup {q}
  BY Zenon DEF Restart
<1>. HIDE DEF q
<1>4. \A p \in net' : p.chunk.kind \notin {"Init", "InitAck"} /\ (p \in net \/ p.chunk.kind = "Abort")
  BY <1>1, <1>2, <1>3, Zenon
<1>5. /\ \A f \in Endpoint : /\ DOMAIN wait_init_ack'[f] \subseteq DOMAIN wait_init_ack[f]
                             /\ DOMAIN wait_cookie_ack'[f] \subseteq DOMAIN wait_cookie_ack[f]
                             /\ DOMAIN aliases'[f] \subseteq DOMAIN aliases[f]
                             /\ \A g \in DOMAIN wait_init_ack'[f] :
                                  wait_init_ack'[f][g] = wait_init_ack[f][g]
                             /\ \A g \in DOMAIN wait_cookie_ack'[f] :
                                  wait_cookie_ack'[f][g] = wait_cookie_ack[f][g]
      /\ assocs' = assocs
  BY DEF Restart, Shape, Tables
<1>6. Asked'
  BY <1>4, <1>5, Zenon DEF Pairing, Asked
<1>7. Exclusive'
  BY <1>5, Zenon DEF Pairing, Exclusive
<1>8. Current' /\ Answers'
  BY <1>4, Zenon DEF Current, Answers
<1>9. \A f \in Endpoint, g \in Endpoint : \A i, j : Accepted(g, f, i, j)' => Accepted(g, f, i, j)
  BY <1>4, <1>5, NothingAccepted, Zenon
<1>10. \A f, g, i, j : Offered(g, f, i, j)' => Offered(g, f, i, j)
  BY <1>4, NothingOffered, Zenon
<1>11. Pairs'
  <2>. SUFFICES ASSUME NEW f \in Endpoint, NEW g \in Endpoint, <<f, g>> \in Connects
                PROVE  PairsOf(f, g)'
    BY Zenon DEF Pairs
  <2>1. PairsOf(f, g)
    BY Zenon DEF Pairing, Pairs
  <2>2. g \in DOMAIN wait_init_ack'[f] => wait_init_ack'[f][g] \in Ident
    BY <1>5, Zenon DEF Shape, GoodWaits, Known
  <2>. QED  BY <1>5, <1>9, <1>10, <2>1, <2>2, PairsStay, Zenon DEF Linked
<1>12. Once'
  BY <1>2 DEF Once
<1>. QED  BY <1>6, <1>7, <1>8, <1>11, <1>12, Zenon DEF Pairing
(* Restarts are not undone. *)
LEMMA FreshBefore ==
    ASSUME Shape, [Next]_vars, Fresh'
    PROVE  Fresh
<1>1. restarts' = restarts \/ restarts' = restarts + 1
  BY Zenon DEF Next, vars, InitAssociation, ReceiveData, HandleInit, HandleInitAck,
               HandleCookieEcho,
         HandleCookieAck, ProcessChunk, ProcessAbort, ProcessHeartBeat, ForwardChunk, SendChunk,
         Restart
<1>. QED  BY <1>1 DEF Fresh, Shape, Tables

(* Every step keeps Pairing while no INIT or INIT-ACK has outlived a restart. *)
LEMMA PairingStep ==
    ASSUME Shape, Pairing, OneSided, [Next]_vars, Fresh'
    PROVE  Pairing'
<1>1. CASE UNCHANGED vars
  BY <1>1, PairingQuiet, Zenon DEF vars, tableVars
<1>2. ASSUME NEW c \in Connects, InitAssociation(c[1], c[2]) PROVE Pairing'
  <2>1. c[1] \in Endpoint /\ c[2] \in Endpoint /\ <<c[1], c[2]>> \in Connects
    BY SetupAssumption
  <2>. QED  BY <1>2, <2>1, PairingInitAssociation, Zenon
<1>3. ASSUME NEW p \in net, ProcessChunk(p.to, p) PROVE Pairing'
  <2>. DEFINE id == aliases[p.to][p.from]
  <2>1. p.from \in DOMAIN aliases[p.to] /\ TagMatches(p.to, id, p)
    BY <1>3, Zenon DEF ProcessChunk
  <2>2. CASE ProcessAbort(p.to, id, p)
    BY <2>1, <2>2, PairingProcessAbort, Zenon
  <2>3. CASE ProcessHeartBeat(p.to, id, p)
    <3>1. PICK q : q.chunk.kind = "HeartBeatAck" /\ net' = net \cup {q}
      BY <2>3, Zenon DEF ProcessHeartBeat, Packet
    <3>. QED  BY <2>3, <3>1, PairingQuiet, Zenon DEF ProcessHeartBeat, tableVars
  <2>4. CASE ForwardChunk(p.to, id, p)
    BY <2>4, PairingQuiet, Zenon DEF ForwardChunk
  <2>. QED  BY <1>3, <2>2, <2>3, <2>4, Zenon DEF ProcessChunk
<1>4. ASSUME NEW p \in net, ReceiveData(p) PROVE Pairing'
  BY <1>3, <1>4, PairingHandleInit, PairingHandleInitAck, PairingHandleCookieEcho,
     PairingHandleCookieAck, Zenon DEF ReceiveData
<1>5. ASSUME NEW e \in Endpoint, NEW id \in assoc_infos[e], SendChunk(e, id) PROVE Pairing'
  <2>. DEFINE a == assocs[e][id]
              C == {[kind |-> "Data", tsn |-> a.local.tsn], [kind |-> "HeartBeat"]}
  <2>0. PICK c \in C : net' = net \cup {Packet(e, a.peer_addr, a.peer.tag, c)}
    BY <1>5, Zenon DEF SendChunk
  <2>2. c.kind \in {"Data", "HeartBeat"}
    OBVIOUS
  <2>. DEFINE q == Packet(e, a.peer_addr, a.peer.tag, c)
  <2>1. q.chunk.kind \in {"Data", "HeartBeat"} /\ net' = net \cup {q}
    BY <2>0, <2>2, Zenon DEF Packet
  <2>. HIDE DEF q
  <2>. QED  BY <1>5, <2>1, PairingQuiet, Zenon DEF SendChunk, tableVars
<1>6. ASSUME NEW e \in Endpoint, NEW id \in assoc_infos[e], Restart(e, id) PROVE Pairing'
  BY <1>6, PairingRestart, Zenon
<1>. QED  BY <1>1, <1>2, <1>4, <1>5, <1>6, Zenon DEF Next

(* Nothing is paired at first. *)
LEMMA PairingStart ==
    ASSUME Init
    PROVE  Pairing
<1>1. \A r \in Endpoint, e \in Endpoint : \A i, j : ~ Linked(r, e, i, j)
  BY DEF Init, Linked, Offered, Accepted
<1>2. Pairs /\ Once
  BY <1>1, Zenon DEF Init, Pairs, PairsOf, Once, OnceOf, Linked
<1>3. Asked /\ Exclusive /\ Current /\ Answers
  BY DEF Init, Asked, Exclusive, Current, Answers
<1>. QED  BY <1>2, <1>3, Zenon DEF Pairing
-----------------------------------------------------------------------------
(* The history of the DATA that was sent and delivered. *)

(* An association is remembered for good. *)
LEMMA AssocsGrow ==
    ASSUME Shape, [Next]_vars
    PROVE  \A e \in Endpoint : \A id \in DOMAIN assocs[e] :
             id \in DOMAIN assocs'[e] /\ assocs'[e][id] = assocs[e][id]
<1>1. CASE UNCHANGED assocs
  BY <1>1, Zenon
<1>2. ASSUME NEW p \in net, NEW a, MakeNewAssoc(p.to, a)
      PROVE  \A e \in Endpoint : \A id \in DOMAIN assocs[e] :
               id \in DOMAIN assocs'[e] /\ assocs'[e][id] = assocs[e][id]
  <2>1. p.to \in Endpoint
    BY Zenon DEF Shape, GoodPacket
  <2>. QED  BY <1>2, <2>1, MakesOne, Zenon
<1>3. ASSUME NEW p \in net, HandleCookieEcho(p.to, p) \/ HandleCookieAck(p.to, p)
      PROVE  \E a : MakeNewAssoc(p.to, a)
  BY <1>3, Zenon DEF HandleCookieEcho, HandleCookieAck
<1>4. \/ UNCHANGED assocs
      \/ \E p \in net : HandleCookieEcho(p.to, p) \/ HandleCookieAck(p.to, p)
  BY Zenon DEF Next, vars, tableVars, InitAssociation, ReceiveData, HandleInit, HandleInitAck,
         ProcessChunk, ProcessAbort, ProcessHeartBeat, ForwardChunk, SendChunk, Restart
<1>. QED  BY <1>1, <1>2, <1>3, <1>4, Zenon

(* Steps that send and deliver no DATA. *)
LEMMA HistoryKeeps ==
    ASSUME Shape, History, [Next]_vars,
           \A p \in net' : p.chunk.kind = "Data" => p \in net,
           \A e \in Endpoint : \A x \in received'[e] :
             x \in received[e] \/ (x[1] \in DOMAIN assocs[e] /\ x[2].kind # "Data")
    PROVE  History'
<1>1. \A e \in Endpoint : \A id \in DOMAIN assocs[e] :
        id \in DOMAIN assocs'[e] /\ assocs'[e][id] = assocs[e][id]
  BY AssocsGrow, Zenon
<1>2. Sent'
  <2>. SUFFICES ASSUME NEW p \in net', p.chunk.kind = "Data"
                PROVE  \E id \in DOMAIN assocs'[p.from] :
                         LET a == assocs'[p.from][id]
                         IN  /\ a.peer_addr = p.to /\ a.peer.tag = p.verification_tag
                             /\ a.local.tsn = p.chunk.tsn
    BY Zenon DEF Sent
  <2>1. p \in net /\ p.from \in Endpoint
    BY Zenon DEF Shape, GoodPacket
  <2>. QED  BY <1>1, <2>1 DEF History, Sent
<1>3. Delivered' /\ DataOfThisAssociation'
  BY <1>1 DEF History, Delivered, DataOfThisAssociation
<1>. QED  BY <1>2, <1>3, Zenon DEF History

(* What the check of the tag lets through is of this association. *)
LEMMA HistoryForwardChunk ==
    ASSUME Shape, History, Pairing, [Next]_vars, NEW p \in net, p.from \in DOMAIN aliases[p.to],
           TagMatches(p.to, aliases[p.to][p.from], p),
           ForwardChunk(p.to, aliases[p.to][p.from], p)
    PROVE  History'
<1>. DEFINE e == p.to
            f == p.from
            id == aliases[e][f]
            b == assocs[e][id]
<1>1. e \in Endpoint /\ f \in Endpoint
  BY Zenon DEF Shape, GoodPacket
<1>2. id \in DOMAIN assocs[e] /\ b.peer_addr = f /\ GoodAssoc(e, b, drawn)
  BY <1>1, Zenon DEF Shape, GoodAssocs
<1>3. /\ UNCHANGED <<assocs, net>> /\ received'[e] = received[e] \cup {<<id, p.chunk>>}
      /\ \A g \in Endpoint : g # e => received'[g] = received[g]
  BY <1>1, Zenon DEF ForwardChunk, Shape, Tables
<1>4. b.local.tag = p.verification_tag
  BY Zenon DEF TagMatches
<1>. HIDE DEF id, b
<1>5. p.chunk.kind = "Data" => p.chunk.tsn = b.peer.tsn
  <2>. SUFFICES ASSUME p.chunk.kind = "Data" PROVE p.chunk.tsn = b.peer.tsn
    BY Zenon
  <2>1. PICK x \in DOMAIN assocs[f] : /\ assocs[f][x].peer_addr = e
                                      /\ assocs[f][x].peer.tag = p.verification_tag
                                      /\ assocs[f][x].local.tsn = p.chunk.tsn
    BY Zenon DEF History, Sent
  <2>. DEFINE a == assocs[f][x]
  <2>2. GoodAssoc(f, a, drawn)
    BY <1>1, Zenon DEF Shape, GoodAssocs
  <2>. HIDE DEF a
  <2>3. /\ a.local \in Ident /\ a.peer \in Ident /\ b.local \in Ident /\ b.peer \in Ident
        /\ a.peer.tag = a.peer.tsn /\ b.local.tag = b.local.tsn
    BY <1>2, <2>2, Zenon DEF GoodAssoc, Known
  <2>4. a.peer = b.local
    BY <1>4, <2>1, <2>3, SMTT(30) DEF Ident, a
  <2>5. <<e, f>> \in Connects \/ <<f, e>> \in Connects
    BY <1>1, <1>2, Zenon DEF Pairing, Asked, b
  <2>6. a.local = b.peer
    <3>1. CASE <<f, e>> \in Connects
      <4>1. Linked(e, f, a.peer, a.local) /\ Linked(e, f, b.local, b.peer)
        BY <1>2, <2>1, Zenon DEF Linked, Accepted, a, b
      <4>2. PairsOf(f, e)
        BY <1>1, <3>1, Zenon DEF Pairing, Pairs
      <4>. QED  BY <2>3, <2>4, <4>1, <4>2, Zenon DEF PairsOf
    <3>2. CASE <<e, f>> \in Connects
      <4>1. Accepted(f, e, b.peer, b.local) /\ Accepted(f, e, a.local, a.peer)
        BY <1>2, <2>1, Zenon DEF Accepted, a, b
      <4>2. PairsOf(e, f)
        BY <1>1, <3>2, Zenon DEF Pairing, Pairs
      <4>. QED  BY <2>3, <2>4, <4>1, <4>2, Zenon DEF PairsOf
    <3>. QED  BY <2>5, <3>1, <3>2, Zenon
  <2>. QED  BY <2>1, <2>6, Zenon DEF a
<1>6. Sent'
  BY <1>3, Zenon DEF History, Sent
<1>7. Delivered'
  BY <1>2, <1>3 DEF History, Delivered
<1>8. DataOfThisAssociation'
  BY <1>3, <1>5 DEF History, DataOfThisAssociation, b
<1>. QED  BY <1>6, <1>7, <1>8, Zenon DEF History

(* DATA has the numbers of the association that sends it. *)
LEMMA HistorySendChunk ==
    ASSUME Shape, History, [Next]_vars, NEW e \in Endpoint, NEW id \in assoc_infos[e],
           SendChunk(e, id)
    PROVE  History'
<1>1. id \in DOMAIN assocs[e]
  BY Zenon DEF Shape, GoodAssocs
<1>2. UNCHANGED <<assocs, received>>
  BY Zenon DEF SendChunk, tableVars
<1>3. ASSUME NEW p \in net', p \notin net, p.chunk.kind = "Data"
      PROVE  /\ p.from = e /\ p.to = assocs[e][id].peer_addr
             /\ p.verification_tag = assocs[e][id].peer.tag
             /\ p.chunk.tsn = assocs[e][id].local.tsn
  BY <1>3 DEF SendChunk, Packet
<1>4. Sent'
  <2>. SUFFICES ASSUME NEW p \in net', p.chunk.kind = "Data"
                PROVE  \E x \in DOMAIN assocs[p.from] :
                         LET a == assocs[p.from][x]
                         IN  /\ a.peer_addr = p.to /\ a.peer.tag = p.verification_tag
                             /\ a.local.tsn = p.chunk.tsn
    BY <1>2, Zenon DEF Sent
  <2>1. CASE p \in net
    BY <2>1, Zenon DEF History, Sent
  <2>2. CASE p \notin net
    BY <1>1, <1>3, <2>2, Zenon
  <2>. QED  BY <2>1, <2>2, Zenon
<1>. QED  BY <1>2, <1>4, Zenon DEF History, Delivered, DataOfThisAssociation

(* Every step keeps History: the tag that process_chunks compares names one association. *)
LEMMA HistoryStep ==
    ASSUME Shape, History, Pairing, [Next]_vars
    PROVE  History'
<1>. DEFINE Quiet == /\ \A p \in net' : p.chunk.kind = "Data" => p \in net
                     /\ received' = received
<1>1. ASSUME Quiet PROVE History'
  <2>1. \A e \in Endpoint : \A x \in received'[e] : x \in received[e]
    BY <1>1, Zenon
  <2>. QED  BY <1>1, <2>1, HistoryKeeps, Zenon
<1>2. CASE UNCHANGED vars
  BY <1>1, <1>2, Zenon DEF vars, tableVars
<1>3. ASSUME NEW c \in Connects, InitAssociation(c[1], c[2]) PROVE Quiet
  BY <1>3 DEF InitAssociation, Packet, InitChunk
<1>4. ASSUME NEW p \in net, HandleInit(p.to, p) PROVE Quiet
  BY <1>4 DEF HandleInit, Packet, InitAck, tableVars
<1>5. ASSUME NEW p \in net, HandleInitAck(p.to, p) PROVE Quiet
  BY <1>5 DEF HandleInitAck, Packet
<1>6. ASSUME NEW p \in net, HandleCookieEcho(p.to, p) \/ HandleCookieAck(p.to, p) PROVE Quiet
  BY <1>6, SMTT(30) DEF HandleCookieEcho, HandleCookieAck, MakeNewAssoc, Packet
<1>7. ASSUME NEW p \in net, ProcessChunk(p.to, p) PROVE History'
  <2>. DEFINE id == aliases[p.to][p.from]
  <2>1. p.from \in DOMAIN aliases[p.to] /\ TagMatches(p.to, id, p)
    BY <1>7, Zenon DEF ProcessChunk
  <2>2. CASE ProcessAbort(p.to, id, p)
    <3>1. p.to \in Endpoint /\ id \in DOMAIN assocs[p.to]
      BY <2>1, Zenon DEF Shape, GoodPacket, GoodAssocs
    <3>2. /\ net' = net /\ p.chunk.kind # "Data"
          /\ received'[p.to] = received[p.to] \cup {<<id, p.chunk>>}
          /\ \A e \in Endpoint : e # p.to => received'[e] = received[e]
      BY <2>2, <3>1, Zenon DEF ProcessAbort, Shape, Tables
    <3>3. \A e \in Endpoint : \A x \in received'[e] :
            x \in received[e] \/ (x[1] \in DOMAIN assocs[e] /\ x[2].kind # "Data")
      BY <3>1, <3>2
    <3>. QED  BY <3>2, <3>3, HistoryKeeps, Zenon
  <2>3. CASE ProcessHeartBeat(p.to, id, p)
    <3>1. PICK q : q.chunk.kind = "HeartBeatAck" /\ net' = net \cup {q}
      BY <2>3, Zenon DEF ProcessHeartBeat, Packet
    <3>2. Quiet
      BY <2>3, <3>1, Zenon DEF ProcessHeartBeat, tableVars
    <3>. QED  BY <1>1, <3>2, Zenon
  <2>4. CASE ForwardChunk(p.to, id, p)
    BY <2>1, <2>4, HistoryForwardChunk, Zenon
  <2>. QED  BY <1>7, <2>2, <2>3, <2>4, Zenon DEF ProcessChunk
<1>8. ASSUME NEW e \in Endpoint, NEW id \in assoc_infos[e], SendChunk(e, id) PROVE History'
  BY <1>8, HistorySendChunk, Zenon
<1>9. ASSUME NEW e \in Endpoint, NEW id \in assoc_infos[e], Restart(e, id) PROVE Quiet
  BY <1>9 DEF Restart, Packet
<1>. HIDE DEF Quiet
<1>. QED  BY <1>1, <1>2, <1>3, <1>4, <1>5, <1>6, <1>7, <1>8, <1>9, Zenon DEF Next, ReceiveData
-----------------------------------------------------------------------------
(* What the two theorems below rest on. *)
OInv == Shape /\ (OneSided /\ Fresh => Pairing /\ History)

(* All of it holds at first. *)
LEMMA OInvStart == Init => OInv
<1>1. Init => History
  BY Zenon DEF Init, History, Sent, Delivered, DataOfThisAssociation
<1>. QED  BY <1>1, ShapeStart, PairingStart, Zenon DEF OInv

(* Every step keeps all of it. *)
LEMMA OInvStep == OInv /\ [Next]_vars => OInv'
<1>. SUFFICES ASSUME OInv, [Next]_vars PROVE OInv'
  BY Zenon
<1>1. Shape /\ Shape'
  BY ShapeStep, Zenon DEF OInv
<1>2. ASSUME OneSided, Fresh' PROVE Pairing' /\ History'
  <2>1. Pairing /\ History
    BY <1>1, <1>2, FreshBefore, Zenon DEF OInv
  <2>. QED  BY <1>1, <1>2, <2>1, PairingStep, HistoryStep, Zenon
<1>3. OneSided' <=> OneSided
  BY Zenon DEF OneSided
<1>. QED  BY <1>1, <1>2, <1>3, Zenon DEF OInv

(***************************************************************************)
(* If of two endpoints at most one connects to the other, the two hold     *)
(* the same association: what one sends with is what the other expects,    *)
(* for any number of endpoints and whatever the order in which the chunks  *)
(* of the setup and their duplicates arrive (handle_init, handle_init_ack, *)
(* handle_cookie_echo, handle_cookie_ack).  If both connect, it is false.  *)
(***************************************************************************)
THEOREM SetupAgrees ==
    OneSided => (Spec => []Agreement)
<1>1. ASSUME OneSided, OInv PROVE Agreement
  <2>. SUFFICES ASSUME restarts = 0, NEW e \in Endpoint, NEW r \in Endpoint,
                       Established(e, r), Established(r, e)
                PROVE  /\ AssocWith(e, r).peer = AssocWith(r, e).local
                       /\ AssocWith(e, r).local = AssocWith(r, e).peer
    BY Zenon DEF Agreement
  <2>1. Shape /\ Pairing
    BY <1>1, Zenon DEF OInv, Fresh
  <2>2. ASSUME NEW f \in Endpoint, NEW g \in Endpoint, Established(f, g)
        PROVE  /\ aliases[f][g] \in DOMAIN assocs[f] /\ AssocWith(f, g).peer_addr = g
               /\ GoodAssoc(f, AssocWith(f, g), drawn)
    BY <2>1, <2>2, Zenon DEF Shape, GoodAssocs, Established, AssocWith
  <2>3. ASSUME NEW f \in Endpoint, NEW g \in Endpoint, Established(f, g), Established(g, f),
               <<f, g>> \in Connects
        PROVE  /\ AssocWith(f, g).peer = AssocWith(g, f).local
               /\ AssocWith(f, g).local = AssocWith(g, f).peer
    <3>. DEFINE a == AssocWith(f, g)
                b == AssocWith(g, f)
    <3>1. /\ aliases[f][g] \in DOMAIN assocs[f] /\ a.peer_addr = g
          /\ aliases[g][f] \in DOMAIN assocs[g] /\ b.peer_addr = f
      BY <2>2, <2>3, Zenon
    <3>2. Accepted(g, f, a.peer, a.local) /\ Accepted(g, f, b.local, b.peer)
      BY <3>1, Zenon DEF Accepted, AssocWith
    <3>3. a.peer \in Ident /\ a.local \in Ident /\ b.peer \in Ident /\ b.local \in Ident
      BY <2>2, <2>3, Zenon DEF GoodAssoc, Known
    <3>4. OnceOf(f, g)
      BY <2>1, <2>3, Zenon DEF Pairing, Once
    <3>. QED  BY <3>2, <3>3, <3>4, Zenon DEF OnceOf
  <2>4. <<e, r>> \in Connects \/ <<r, e>> \in Connects
    <3>1. aliases[e][r] \in DOMAIN assocs[e] /\ assocs[e][aliases[e][r]].peer_addr = r
      BY <2>2, Zenon DEF AssocWith
    <3>. QED  BY <2>1, <3>1, Zenon DEF Pairing, Asked
  <2>. QED  BY <2>3, <2>4, Zenon
<1>. SUFFICES ASSUME OneSided PROVE Spec => []Agreement
  BY Zenon
<1>2. OInv => Agreement
  BY <1>1, Zenon
<1>. QED  BY <1>2, OInvStart, OInvStep, PTL DEF Spec

(***************************************************************************)
(* If moreover no INIT and no INIT-ACK is delayed beyond a restart, no     *)
(* association is given DATA of another one, through any number of         *)
(* restarts and new associations: the tag keeps them apart                 *)
(* (process_chunks, lib.rs).                                               *)
(***************************************************************************)
THEOREM SetupKeepsDataApart ==
    OneSided /\ OutlivesRestart \cap {"Init", "InitAck"} = {} => (Spec => []DataOfThisAssociation)
<1>. SUFFICES ASSUME OneSided, OutlivesRestart \cap {"Init", "InitAck"} = {}
              PROVE  Spec => []DataOfThisAssociation
  BY Zenon
<1>1. OInv => DataOfThisAssociation
  BY Zenon DEF OInv, Fresh, History
<1>. QED  BY <1>1, OInvStart, OInvStep, PTL DEF Spec

-----------------------------------------------------------------------------
(***************************************************************************)
(* The end of an association.  Closing loses nothing: NothingLostByClosing *)
(* holds for every choice of the constants of Shutdown with two ends, in   *)
(* particular whichever control chunks the network loses and in whichever  *)
(* states the application calls initiate_shutdown, also again and after    *)
(* the association is closed.                                              *)
(***************************************************************************)
CONSTANTS End, Senders, InitiateIn, Removes, Lossy, MaxSendNext

VARIABLES shutdown_state, rx_shutdown_state, send_next, shutdown_rto_timer, control_net,
          accepted, arrived, acked

Closing == INSTANCE Shutdown WITH Endpoint <- End, net <- control_net, received <- arrived

(* What Shutdown assumes of its endpoints. *)
TwoEnds == \E a, b \in End : a # b /\ End = {a, b}

(* An endpoint has closed when it takes no more data and has none that is not
   acknowledged.  It never opens again. *)
Closed(e) == shutdown_state[e] # "None" /\ Closing!Drained(e)

InQueue(c, s) == \E i \in 1 .. Len(s) : s[i] = c

(* e has sent c, or is about to. *)
Says(e, c) == c \in control_net[Closing!Peer(e)] \/ InQueue(c, send_next[e])

(***************************************************************************)
(* What a state of the shutdown, and a chunk on its way, tell about the    *)
(* two ends: a SHUTDOWN that its sender has closed, a SHUTDOWN ACK or      *)
(* COMPLETE that both have.  NothingLostByClosing alone is not inductive,  *)
(* because an endpoint completes on the word of such a chunk.              *)
(***************************************************************************)
Truthful(e) ==
    /\ shutdown_state[e] = "ShutdownSent" => Closed(e)
    /\ shutdown_state[e] = "ShutdownReceived" => Closed(Closing!Peer(e))
    /\ shutdown_state[e] \in {"ShutdownAckSent", "Complete"} => Closed(e) /\ Closed(Closing!Peer(e))
    /\ Says(e, "ShutDown") => Closed(e)
    /\ Says(e, "ShutDownAck") => Closed(e) /\ Closed(Closing!Peer(e))
    /\ Says(e, "ShutDownComplete") => Closed(e) /\ Closed(Closing!Peer(e))
    /\ Says(e, "SAck") => Closing!Peer(e) \in arrived

IInv == Closing!TypeOK /\ \A e \in End : Truthful(e)

-----------------------------------------------------------------------------
(* There are two endpoints, each the peer of the other. *)
LEMMA Peers ==
    ASSUME TwoEnds, NEW e \in End
    PROVE  /\ Closing!Peer(e) \in End /\ Closing!Peer(e) # e /\ Closing!Peer(Closing!Peer(e)) = e
           /\ \A f \in End : f = e \/ f = Closing!Peer(e)
BY DEF TwoEnds, Closing!Peer

(* What is in send_next after a chunk was taken from it or put into it. *)
LEMMA TailQueue ==
    ASSUME NEW s \in Seq(Closing!Control), s # <<>>
    PROVE  /\ Tail(s) \in Seq(Closing!Control) /\ Head(s) \in Closing!Control
           /\ InQueue(Head(s), s)
           /\ \A c : InQueue(c, Tail(s)) => InQueue(c, s)
<1>1. Len(s) \in Nat /\ Len(s) >= 1 /\ Head(s) = s[1]
  OBVIOUS
<1>2. Len(Tail(s)) = Len(s) - 1 /\ \A i \in 1 .. Len(Tail(s)) : Tail(s)[i] = s[i + 1]
  OBVIOUS
<1>. QED  BY <1>1, <1>2 DEF InQueue

(* What is in a queue of control chunks after one is added. *)
LEMMA AppendQueue ==
    ASSUME NEW s \in Seq(Closing!Control), NEW d \in Closing!Control
    PROVE  /\ Append(s, d) \in Seq(Closing!Control)
           /\ \A c : InQueue(c, Append(s, d)) => InQueue(c, s) \/ c = d
BY DEF InQueue

(* What is in two queues of control chunks joined. *)
LEMMA ConcatQueue ==
    ASSUME NEW s \in Seq(Closing!Control), NEW t \in Seq(Closing!Control)
    PROVE  /\ s \o t \in Seq(Closing!Control)
           /\ \A c : InQueue(c, s \o t) => InQueue(c, s) \/ InQueue(c, t)
<1>1. /\ s \o t \in Seq(Closing!Control) /\ Len(s \o t) = Len(s) + Len(t)
      /\ \A i \in 1 .. Len(s) + Len(t) :
           (s \o t)[i] = IF i <= Len(s) THEN s[i] ELSE t[i - Len(s)]
  OBVIOUS
<1>2. ASSUME NEW c, InQueue(c, s \o t), ~ InQueue(c, s)
      PROVE  InQueue(c, t)
  <2>1. PICK i \in 1 .. Len(s) + Len(t) : (s \o t)[i] = c
    BY <1>1, <1>2 DEF InQueue
  <2>2. i > Len(s) /\ i - Len(s) \in 1 .. Len(t)
    BY <1>1, <1>2, <2>1 DEF InQueue
  <2>. QED  BY <1>1, <2>1, <2>2 DEF InQueue
<1>. QED  BY <1>1, <1>2

-----------------------------------------------------------------------------
(***************************************************************************)
(* The steps, one lemma for each action.  In each of them: what an         *)
(* endpoint says after the step it said before, but for the chunk the      *)
(* action sends; an endpoint that has closed stays closed.                 *)
(***************************************************************************)
LEMMA TrySendDataStep ==
    ASSUME TwoEnds, IInv, NEW e \in End, Closing!TrySendData(e)
    PROVE  IInv'
<1>1. Closing!TypeOK'
  BY DEF IInv, Closing!TypeOK, Closing!TrySendData
<1>2. \A f \in End : Closed(f) => Closed(f)'
  BY DEF Closed, Closing!Drained, Closing!TrySendData
<1>3. \A f \in End, c \in Closing!Control : Says(f, c)' <=> Says(f, c)
  BY DEF Says, Closing!TrySendData
<1>4. \A f \in End : Truthful(f)'
  BY <1>2, <1>3, Peers DEF IInv, Truthful, Closing!TrySendData, Closing!Control
<1>. QED  BY <1>1, <1>4 DEF IInv

(* initiate_shutdown refuses further messages and sends nothing yet. *)
LEMMA InitiateShutdownStep ==
    ASSUME TwoEnds, IInv, NEW e \in End, Closing!InitiateShutdown(e)
    PROVE  IInv'
<1>1. Closing!TypeOK'
  BY DEF IInv, Closing!TypeOK, Closing!InitiateShutdown
<1>2. \A f \in End : Closed(f) => Closed(f)'
  BY DEF IInv, Closing!TypeOK, Closed, Closing!Drained, Closing!InitiateShutdown
<1>3. \A f \in End, c \in Closing!Control : Says(f, c)' <=> Says(f, c)
  BY DEF Says, Closing!InitiateShutdown
<1>4. \A f \in End : Truthful(f)'
  BY <1>2, <1>3, Peers DEF IInv, Closing!TypeOK, Truthful, Closing!InitiateShutdown,
                           Closing!Control
<1>. QED  BY <1>1, <1>4 DEF IInv

(* A queued control chunk is sent as it is. *)
LEMMA PollSendNextStep ==
    ASSUME TwoEnds, IInv, NEW e \in End, Closing!PollSendNext(e)
    PROVE  IInv'
<1>1. /\ Tail(send_next[e]) \in Seq(Closing!Control) /\ Head(send_next[e]) \in Closing!Control
      /\ InQueue(Head(send_next[e]), send_next[e])
      /\ \A c : InQueue(c, Tail(send_next[e])) => InQueue(c, send_next[e])
  BY TailQueue DEF IInv, Closing!TypeOK, Closing!PollSendNext
<1>2. Closing!TypeOK'
  BY <1>1, Peers DEF IInv, Closing!TypeOK, Closing!PollSendNext
<1>3. \A f \in End : Closed(f) => Closed(f)'
  BY DEF Closed, Closing!Drained, Closing!PollSendNext
<1>4. \A f \in End, c \in Closing!Control : Says(f, c)' => Says(f, c)
  BY <1>1, Peers DEF IInv, Closing!TypeOK, Says, Closing!PollSendNext
<1>5. \A f \in End : Truthful(f)'
  BY <1>3, <1>4, Peers DEF IInv, Truthful, Closing!PollSendNext, Closing!Control
<1>. QED  BY <1>2, <1>5 DEF IInv

(* SHUTDOWN and SHUTDOWN ACK are sent by an endpoint that is closed and drained. *)
LEMMA PollShutdownStep ==
    ASSUME TwoEnds, IInv, NEW e \in End, NEW from, NEW to, NEW chunk,
           Closing!PollShutdown(e, from, to, chunk),
           \/ from = "TryingTo" /\ to = "ShutdownSent" /\ chunk = "ShutDown"
           \/ from = "ShutdownReceived" /\ to = "ShutdownAckSent" /\ chunk = "ShutDownAck"
    PROVE  IInv'
<1>1. Closing!TypeOK'
  BY Peers DEF IInv, Closing!TypeOK, Closing!PollShutdown, Closing!Control
<1>2. Closed(e) /\ \A f \in End : Closed(f) => Closed(f)'
  BY DEF IInv, Closing!TypeOK, Closed, Closing!Drained, Closing!PollShutdown
<1>3. \A f \in End, c \in Closing!Control : Says(f, c)' => Says(f, c) \/ (f = e /\ c = chunk)
  BY Peers DEF IInv, Closing!TypeOK, Says, Closing!PollShutdown
<1>4. ASSUME NEW f \in End  PROVE Truthful(f)'
  <2>1. CASE f = e
    BY <1>2, <1>3, <2>1, Peers DEF IInv, Closing!TypeOK, Truthful, Closing!PollShutdown,
                                   Closing!Control
  <2>2. CASE f # e
    BY <1>2, <1>3, <2>2, Peers DEF IInv, Closing!TypeOK, Truthful, Closing!PollShutdown,
                                   Closing!Control
  <2>. QED  BY <2>1, <2>2
<1>. QED  BY <1>1, <1>4 DEF IInv

(* The timer sends SHUTDOWN again only in ShutdownSent. *)
LEMMA HandleShutdownRtoTimeoutStep ==
    ASSUME TwoEnds, IInv, NEW e \in End, Closing!HandleShutdownRtoTimeout(e)
    PROVE  IInv'
<1>1. PICK chunk \in Closing!Control :
        /\ send_next' = [send_next EXCEPT ![e] = Append(@, chunk)]
        /\ \/ chunk = "ShutDown" /\ shutdown_state[e] = "ShutdownSent"
           \/ chunk = "ShutDownAck" /\ shutdown_state[e] = "ShutdownAckSent"
  BY DEF Closing!HandleShutdownRtoTimeout, Closing!Control
<1>2. /\ Append(send_next[e], chunk) \in Seq(Closing!Control)
      /\ \A c : InQueue(c, Append(send_next[e], chunk)) => InQueue(c, send_next[e]) \/ c = chunk
  BY AppendQueue DEF IInv, Closing!TypeOK
<1>3. Closing!TypeOK'
  BY <1>1, <1>2 DEF IInv, Closing!TypeOK, Closing!HandleShutdownRtoTimeout
<1>4. \A f \in End : Closed(f) => Closed(f)'
  BY DEF Closed, Closing!Drained, Closing!HandleShutdownRtoTimeout
<1>5. \A f \in End, c \in Closing!Control : Says(f, c)' => Says(f, c) \/ (f = e /\ c = chunk)
  BY <1>1, <1>2, Peers DEF IInv, Closing!TypeOK, Says, Closing!HandleShutdownRtoTimeout
<1>6. \A f \in End : Truthful(f)'
  BY <1>1, <1>4, <1>5, Peers DEF IInv, Truthful, Closing!HandleShutdownRtoTimeout, Closing!Control
<1>. QED  BY <1>3, <1>6 DEF IInv

(* DATA that arrives makes nothing untrue. *)
LEMMA ReceiveDataStep ==
    ASSUME TwoEnds, IInv, NEW e \in End, Closing!ReceiveData(e)
    PROVE  IInv'
<1>1. PICK t \in Seq(Closing!Control) :
        /\ send_next' = [send_next EXCEPT ![e] = @ \o t]
        /\ \A c : InQueue(c, t) => \/ c = "SAck"
                                   \/ c = "ShutDown" /\ shutdown_state[e] = "ShutdownSent"
  <2>1. CASE shutdown_state[e] = "ShutdownSent"
    <3>1. /\ send_next' = [send_next EXCEPT ![e] = @ \o <<"ShutDown", "SAck">>]
          /\ <<"ShutDown", "SAck">> \in Seq(Closing!Control)
      BY <2>1 DEF Closing!ReceiveData, Closing!Control
    <3>2. \A c : InQueue(c, <<"ShutDown", "SAck">>) => c = "ShutDown" \/ c = "SAck"
      BY DEF InQueue
    <3>. QED  BY <2>1, <3>1, <3>2, Zenon
  <2>2. CASE shutdown_state[e] # "ShutdownSent"
    <3>1. send_next' = [send_next EXCEPT ![e] = @ \o <<"SAck">>] /\ <<"SAck">> \in Seq(Closing!Control)
      BY <2>2 DEF Closing!ReceiveData, Closing!Control
    <3>2. \A c : InQueue(c, <<"SAck">>) => c = "SAck"
      BY DEF InQueue
    <3>. QED  BY <3>1, <3>2, Zenon
  <2>. QED  BY <2>1, <2>2
<1>2. /\ send_next[e] \o t \in Seq(Closing!Control)
      /\ \A c : InQueue(c, send_next[e] \o t) => InQueue(c, send_next[e]) \/ InQueue(c, t)
  BY ConcatQueue DEF IInv, Closing!TypeOK
<1>. /\ Closing!Peer(e) \in accepted /\ arrived' = arrived \cup {Closing!Peer(e)}
     /\ UNCHANGED <<shutdown_state, rx_shutdown_state, shutdown_rto_timer, control_net, accepted, acked>>
  BY DEF Closing!ReceiveData
<1>3. Closing!TypeOK'
  BY <1>1, <1>2, Peers DEF IInv, Closing!TypeOK
<1>4. \A f \in End : Closed(f) => Closed(f)'
  BY DEF Closed, Closing!Drained
<1>5. \A f \in End, c \in Closing!Control : Says(f, c)' => Says(f, c) \/ (f = e /\ InQueue(c, t))
  BY <1>1, <1>2, Peers DEF IInv, Closing!TypeOK, Says
<1>6. \A f \in End : Truthful(f)'
  BY <1>1, <1>4, <1>5, Peers DEF IInv, Truthful, Closing!Control
<1>. QED  BY <1>3, <1>6 DEF IInv

(* An endpoint that acts on a control chunk acts on something true. *)
LEMMA ReceiveStep ==
    ASSUME TwoEnds, IInv, NEW e \in End, NEW chunk \in Closing!Control, Closing!Receive(e, chunk)
    PROVE  IInv'
<1>. DEFINE f == Closing!Peer(e)
<1>1. /\ f \in End /\ f # e /\ Closing!Peer(f) = e /\ \A g \in End : g = e \/ g = f
      /\ Says(f, chunk)
  BY Peers DEF Says, Closing!Receive
<1>2. /\ control_net' \in [End -> SUBSET Closing!Control] /\ \A g \in End : control_net'[g] \subseteq control_net[g]
      /\ UNCHANGED <<shutdown_rto_timer, accepted, arrived>>
  BY Zenon DEF IInv, Closing!TypeOK, Closing!Receive
<1>3. CASE ~ Closing!Known(e)
  <2>1. UNCHANGED <<rx_shutdown_state, shutdown_state, send_next, acked>>
    BY <1>3 DEF Closing!Receive
  <2>2. Closing!TypeOK'
    BY <1>2, <2>1 DEF IInv, Closing!TypeOK
  <2>3. \A g \in End : Closed(g) => Closed(g)'
    BY <1>2, <2>1 DEF Closed, Closing!Drained
  <2>4. \A g \in End, c \in Closing!Control : Says(g, c)' => Says(g, c)
    BY <1>2, <2>1, Peers DEF Says
  <2>5. \A g \in End : Truthful(g)'
    BY <1>2, <2>1, <2>3, <2>4, Peers DEF IInv, Truthful, Closing!Control
  <2>. QED  BY <2>2, <2>5 DEF IInv
<1>4. CASE Closing!Known(e)
  <2>1. /\ rx_shutdown_state' \in [End -> {"None", "ShutdownReceived", "Complete"}]
        /\ Closing!Notification(e, chunk)
    BY <1>4, Zenon DEF IInv, Closing!TypeOK, Closing!Receive, Closing!RxStateAfter
  <2>2. CASE chunk = "SAck"
    <3>1. acked' = acked \cup {e} /\ UNCHANGED <<shutdown_state, send_next>> /\ e \in arrived
      BY <1>1, <2>1, <2>2 DEF IInv, Truthful, Closing!Notification
    <3>2. Closing!TypeOK'
      BY <1>2, <2>1, <3>1 DEF IInv, Closing!TypeOK
    <3>3. \A g \in End : Closed(g) => Closed(g)'
      BY <1>2, <3>1 DEF Closed, Closing!Drained
    <3>4. \A g \in End, c \in Closing!Control : Says(g, c)' => Says(g, c)
      BY <1>2, <3>1, Peers DEF Says
    <3>5. \A g \in End : Truthful(g)'
      BY <1>2, <3>1, <3>3, <3>4, Peers DEF IInv, Truthful, Closing!Control
    <3>. QED  BY <3>2, <3>5 DEF IInv
  <2>3. CASE chunk = "ShutDown"
    <3>1. Closed(f) /\ Closing!PeerShutdown(e) /\ UNCHANGED acked
      BY <1>1, <2>1, <2>3 DEF IInv, Truthful, Closing!Notification
    <3>2. /\ Append(send_next[e], "ShutDownAck") \in Seq(Closing!Control)
          /\ \A c : InQueue(c, Append(send_next[e], "ShutDownAck"))
                      => InQueue(c, send_next[e]) \/ c = "ShutDownAck"
      BY AppendQueue DEF IInv, Closing!TypeOK, Closing!Control
    <3>3. Closing!TypeOK'
      BY <1>2, <2>1, <3>1, <3>2 DEF IInv, Closing!TypeOK, Closing!PeerShutdown
    <3>4. \A g \in End : Closed(g) => Closed(g)'
      BY <1>2, <3>1 DEF IInv, Closing!TypeOK, Closed, Closing!Drained, Closing!PeerShutdown
    <3>5. \A g \in End, c \in Closing!Control :
            Says(g, c)' => \/ Says(g, c)
                           \/ /\ g = e /\ c = "ShutDownAck"
                              /\ shutdown_state[e] \in {"ShutdownSent", "ShutdownAckSent"}
      BY <1>2, <3>1, <3>2, Peers DEF IInv, Closing!TypeOK, Says, Closing!PeerShutdown
    <3>6. Truthful(e)'
      BY <1>1, <1>2, <3>1, <3>4, <3>5 DEF IInv, Closing!TypeOK, Truthful, Closing!PeerShutdown,
                                          Closing!Control
    <3>7. Truthful(f)'
      BY <1>1, <1>2, <3>1, <3>4, <3>5 DEF IInv, Closing!TypeOK, Truthful, Closing!PeerShutdown,
                                          Closing!Control
    <3>. QED  BY <1>1, <3>3, <3>6, <3>7 DEF IInv
  <2>4. CASE chunk = "ShutDownAck" \/ chunk = "ShutDownComplete"
    <3>1. /\ Closed(e) /\ Closed(f) /\ UNCHANGED acked
          /\ shutdown_state' = [shutdown_state EXCEPT ![e] = "Complete"]
          /\ \/ send_next' = [send_next EXCEPT ![e] = Append(@, "ShutDownComplete")]
             \/ UNCHANGED send_next
      BY <1>1, <2>1, <2>4
         DEF IInv, Truthful, Closing!Notification, Closing!PeerShutdownAck,
         Closing!PeerShutdownComplete
    <3>2. /\ Append(send_next[e], "ShutDownComplete") \in Seq(Closing!Control)
          /\ \A c : InQueue(c, Append(send_next[e], "ShutDownComplete"))
                      => InQueue(c, send_next[e]) \/ c = "ShutDownComplete"
      BY AppendQueue DEF IInv, Closing!TypeOK, Closing!Control
    <3>3. Closing!TypeOK'
      BY <1>2, <2>1, <3>1, <3>2, Zenon DEF IInv, Closing!TypeOK
    <3>4. \A g \in End : Closed(g) => Closed(g)'
      BY <1>2, <3>1 DEF IInv, Closing!TypeOK, Closed, Closing!Drained
    <3>5. \A g \in End, c \in Closing!Control :
            Says(g, c)' => Says(g, c) \/ (g = e /\ c = "ShutDownComplete")
      <4>1. \A g \in End, c \in Closing!Control :
              InQueue(c, send_next'[g])
                => InQueue(c, send_next[g]) \/ (g = e /\ c = "ShutDownComplete")
        <5>1. CASE UNCHANGED send_next
          BY <5>1
        <5>2. CASE send_next' = [send_next EXCEPT ![e] = Append(@, "ShutDownComplete")]
          <6>1. send_next'[e] = Append(send_next[e], "ShutDownComplete")
            BY <5>2 DEF IInv, Closing!TypeOK
          <6>2. \A g \in End : g # e => send_next'[g] = send_next[g]
            BY <5>2 DEF IInv, Closing!TypeOK
          <6>. QED  BY <3>2, <6>1, <6>2, Zenon
        <5>. QED  BY <3>1, <5>1, <5>2
      <4>. QED  BY <1>2, <4>1, Peers, Zenon DEF Says
    <3>6. Truthful(e)'
      BY <1>1, <1>2, <3>1, <3>4, <3>5 DEF IInv, Closing!TypeOK, Truthful, Closing!Control
    <3>7. Truthful(f)'
      BY <1>1, <1>2, <3>1, <3>4, <3>5 DEF IInv, Closing!TypeOK, Truthful, Closing!Control
    <3>. QED  BY <1>1, <3>3, <3>6, <3>7 DEF IInv
  <2>. QED  BY <2>2, <2>3, <2>4 DEF Closing!Control
<1>. QED  BY <1>3, <1>4

(* What is lost makes nothing untrue. *)
LEMMA LoseStep ==
    ASSUME TwoEnds, IInv, NEW e \in End, Closing!Lose(e)
    PROVE  IInv'
<1>1. Closing!TypeOK' /\ \A g \in End : control_net'[g] \subseteq control_net[g]
  BY DEF IInv, Closing!TypeOK, Closing!Lose
<1>2. \A f \in End : Closed(f) => Closed(f)'
  BY DEF Closed, Closing!Drained, Closing!Lose
<1>3. \A f \in End, c \in Closing!Control : Says(f, c)' => Says(f, c)
  BY <1>1, Peers, Zenon DEF Says, Closing!Lose
<1>4. \A f \in End : Truthful(f)'
  BY <1>2, <1>3, Peers DEF IInv, Truthful, Closing!Lose, Closing!Control
<1>. QED  BY <1>1, <1>4 DEF IInv

-----------------------------------------------------------------------------
(* The invariant of the shutdown holds at first. *)
LEMMA Initially == TwoEnds /\ Closing!Init => IInv
<1>. SUFFICES ASSUME TwoEnds, Closing!Init  PROVE IInv
  OBVIOUS
<1>1. Closing!TypeOK
  BY DEF Closing!Init, Closing!TypeOK
<1>2. \A e \in End, c \in Closing!Control : ~ Says(e, c)
  BY Peers DEF Closing!Init, Says, InQueue
<1>3. \A e \in End : Truthful(e)
  BY <1>2, Zenon DEF Closing!Init, Truthful, Closing!Control
<1>. QED  BY <1>1, <1>3 DEF IInv

(* Every step keeps the invariant of the shutdown. *)
LEMMA Inductive == TwoEnds /\ IInv /\ [Closing!Next]_(Closing!vars) => IInv'
<1>. SUFFICES ASSUME TwoEnds, IInv, [Closing!Next]_(Closing!vars)  PROVE IInv'
  OBVIOUS
<1>1. CASE UNCHANGED Closing!vars
  BY <1>1 DEF Closing!vars, IInv, Closing!TypeOK, Truthful, Says, Closed, Closing!Drained
<1>2. ASSUME NEW e \in End, Closing!TrySendData(e) \/ Closing!InitiateShutdown(e)  PROVE IInv'
  BY <1>2, TrySendDataStep, InitiateShutdownStep
<1>3. ASSUME NEW e \in End, Closing!PollSignalToSend(e)  PROVE IInv'
  BY <1>3, PollSendNextStep, PollShutdownStep DEF Closing!PollSignalToSend
<1>4. ASSUME NEW e \in End,
             Closing!HandleShutdownRtoTimeout(e) \/ Closing!ReceiveData(e) \/ Closing!Lose(e)
      PROVE  IInv'
  BY <1>4, HandleShutdownRtoTimeoutStep, ReceiveDataStep, LoseStep
<1>5. ASSUME NEW e \in End, NEW chunk \in Closing!Control, Closing!Receive(e, chunk)  PROVE IInv'
  BY <1>5, ReceiveStep
<1>. QED  BY <1>1, <1>2, <1>3, <1>4, <1>5 DEF Closing!Next

(***************************************************************************)
(* Every variable keeps its type.  Received data is acknowledged by a SACK *)
(* only, so that no step acknowledges what the peer has not received.      *)
(***************************************************************************)
THEOREM ClosingTypes == TwoEnds => (Closing!Spec => []Closing!TypeOK)
<1>. SUFFICES ASSUME TwoEnds PROVE Closing!Spec => []Closing!TypeOK
  OBVIOUS
<1>1. Closing!Init => IInv
  BY Initially
<1>2. IInv /\ [Closing!Next]_(Closing!vars) => IInv'
  BY Inductive
<1>3. IInv => Closing!TypeOK
  BY DEF IInv
<1>. QED  BY <1>1, <1>2, <1>3, PTL DEF Closing!Spec

(***************************************************************************)
(* is_completely_shutdown, through the states of tx.rs:249-299, holds at   *)
(* an endpoint only when all that try_send_data has accepted at both ends  *)
(* is acknowledged and both refuse more, whatever the network loses,       *)
(* repeats and reorders, and however often and late initiate_shutdown is   *)
(* called.                                                                 *)
(***************************************************************************)
THEOREM ClosingIsSafe == TwoEnds => (Closing!Spec => []Closing!NothingLostByClosing)
<1>. SUFFICES ASSUME TwoEnds PROVE Closing!Spec => []Closing!NothingLostByClosing
  OBVIOUS
<1>1. Closing!Init => IInv
  BY Initially
<1>2. IInv /\ [Closing!Next]_(Closing!vars) => IInv'
  BY Inductive
<1>3. IInv => Closing!NothingLostByClosing
  <2>. SUFFICES ASSUME IInv, NEW e \in End, shutdown_state[e] = "Complete"
                PROVE  accepted \subseteq acked /\ \A f \in End : shutdown_state[f] # "None"
    BY DEF Closing!NothingLostByClosing
  <2>1. Closed(e) /\ Closed(Closing!Peer(e))
    BY DEF IInv, Truthful
  <2>2. accepted \subseteq End
    BY DEF IInv, Closing!TypeOK
  <2>3. \A f \in End : Closed(f)
    BY <2>1, Peers
  <2>. QED  BY <2>2, <2>3 DEF Closed, Closing!Drained
<1>. QED  BY <1>1, <1>2, <1>3, PTL DEF Closing!Spec
=============================================================================
