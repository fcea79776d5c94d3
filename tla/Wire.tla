-------------------------------- MODULE Wire --------------------------------
(***************************************************************************)
(* The wire format: packet.rs and the files of packet/.  A buffer is a      *)
(* sequence of octets.  SerializeChunk and ParseChunk are serialize and    *)
(* parse of Chunk; a parse returns how many octets it consumed and either  *)
(* what it read or the ParseError, a record whose kind is "Done",          *)
(* "IllegalFormat" or "Unrecognized".                                      *)
(*                                                                         *)
(* Numbers keep the width of their field; the ones used here are below     *)
(* 2^16, so the octets above the last two are 0.  An Option is a set with  *)
(* at most one element.  A parameter of an INIT is the record that the     *)
(* chunk keeps for it, so an alias is its own parameter.                   *)
(*                                                                         *)
(* A definition whose name ends in an underscore and a word is the one     *)
(* below it with a mistake planted; the specification uses none of them.   *)
(***************************************************************************)
EXTENDS Naturals, Sequences, SequencesExt

Zeros(n) == [i \in 1 .. n |-> 0]
U16(n) == <<(n \div 256) % 256, n % 256>>
U32(n) == Zeros(2) \o U16(n)
U64(n) == Zeros(6) \o U16(n)
U128(n) == Zeros(14) \o U16(n)

Number(octets) ==
    LET n[i \in 0 .. Len(octets)] == IF i = 0 THEN 0 ELSE 256 * n[i - 1] + octets[i]
    IN n[Len(octets)]
Field(octets, first, width) == Number(SubSeq(octets, first, first + width - 1))
From(octets, first) == SubSeq(octets, first, Len(octets))

Sum(s) == LET n[i \in 0 .. Len(s)] == IF i = 0 THEN 0 ELSE n[i - 1] + s[i] IN n[Len(s)]
Concat(s) == LET c[i \in 0 .. Len(s)] == IF i = 0 THEN <<>> ELSE c[i - 1] \o s[i] IN c[Len(s)]
OfKind(s, kinds) == SelectSeq(s, LAMBDA r : r.kind \in kinds)

(* The crc crate and the std hasher: some function of all the octets. *)
RECURSIVE Digest(_)
Digest(octets) ==
    LET half == Len(octets) \div 2 IN
    CASE Len(octets) = 0 -> 7
      [] Len(octets) = 1 -> octets[1] + 11
      [] OTHER -> (31 * Digest(SubSeq(octets, 1, half)) + Digest(From(octets, 1 + half))) % 65521

padding_needed(size) == (4 - (size % 4)) % 4
padded_len(size) == ((size + 3) \div 4) * 4

-----------------------------------------------------------------------------
(* The common shape of chunks and parameters: two octets, the length, the value, padding. *)
Tlv(tag, size, value) == tag \o U16(size) \o value \o Zeros(padding_needed(size))

Done == [kind |-> "Done"]
IllegalFormat == [kind |-> "IllegalFormat"]

(* parse_error: typ >> 6 of a chunk is typ >> 14 of a parameter. *)
Unrecognized(octet) ==
    [kind |-> "Unrecognized", stop |-> octet \div 64 \in {0, 1}, report |-> octet \div 64 \in {1, 3}]

(* A buffer cut after the padding: the octets consumed, and the tag and the value or the error. *)
Cut(data, len) ==
    IF len > Len(data) \/ len < 4 THEN [size |-> Len(data), result |-> IllegalFormat]
    ELSE [size |-> IF padded_len(len) <= Len(data) THEN padded_len(len) ELSE Len(data),
          result |-> [kind |-> "Tlv", tag |-> SubSeq(data, 1, 2), value |-> SubSeq(data, 5, len)]]
ParseTlv(data) ==
    IF Len(data) < 4 THEN [size |-> Len(data), result |-> Done] ELSE Cut(data, Field(data, 3, 2))

-----------------------------------------------------------------------------
(* packet/cookie.rs.  FakeAddr is the u64 of the tests and examples. *)
AddressTag == [Fake |-> 0, IpV4 |-> 1, IpV6 |-> 2]
AddressWidth == [Fake |-> 8, IpV4 |-> 4, IpV6 |-> 16]
Address(a) ==
    <<AddressTag[a.kind]>> \o (CASE a.kind = "Fake" -> U64(a.addr)
                                 [] a.kind = "IpV4" -> U32(a.addr)
                                 [] a.kind = "IpV6" -> U128(a.addr))
Addresses(s) == Concat([i \in DOMAIN s |-> Address(s[i])])
Wired(aliases) == OfKind(aliases, {"IpV4", "IpV6"})

CookieSize(c) ==
    36 + 1 + AddressWidth[c.init_address.kind]
       + Sum([i \in DOMAIN Wired(c.aliases) |-> 1 + AddressWidth[Wired(c.aliases)[i].kind]])

SerializeCookie(c) ==
    U64(c.mac) \o U16(c.peer_port) \o U16(c.local_port)
    \o U32(c.peer_verification_tag) \o U32(c.local_verification_tag)
    \o U32(c.peer_initial_tsn) \o U32(c.local_initial_tsn)
    \o U16(c.incoming_streams) \o U16(c.outgoing_streams) \o U32(c.peer_arwnd)
    \o Address(c.init_address) \o Addresses(Wired(c.aliases))

(* The address at the head of data, or {}: the tags in kinds are accepted. *)
ParseAddress(data, kinds) ==
    {[kind |-> k, addr |-> Field(data, 2, AddressWidth[k])] :
        k \in {k \in kinds : AddressTag[k] = data[1] /\ Len(data) > AddressWidth[k]}}
AfterAddress(data, a) == From(data, 2 + AddressWidth[a.kind])

RECURSIVE ParseAliases(_)
ParseAliases(data) ==
    IF Len(data) < 5 THEN {<<>>}
    ELSE {<<a>> \o rest : a \in ParseAddress(data, {"IpV4", "IpV6"}),
                          rest \in UNION {ParseAliases(AfterAddress(data, b)) :
                                             b \in ParseAddress(data, {"IpV4", "IpV6"})}}

(* No case, and no value, for 33 to 36 octets: parse asks for 33, reads 37 and panics. *)
ParseCookie(data) ==
    CASE Len(data) < 33 -> {}
      [] Len(data) > 36 ->
         UNION {{[mac |-> Field(data, 1, 8), peer_port |-> Field(data, 9, 2),
                  local_port |-> Field(data, 11, 2),
                  peer_verification_tag |-> Field(data, 13, 4),
                  local_verification_tag |-> Field(data, 17, 4),
                  peer_initial_tsn |-> Field(data, 21, 4),
                  local_initial_tsn |-> Field(data, 25, 4),
                  incoming_streams |-> Field(data, 29, 2),
                  outgoing_streams |-> Field(data, 31, 2), peer_arwnd |-> Field(data, 33, 4),
                  init_address |-> a, aliases |-> s] :
                     s \in ParseAliases(AfterAddress(From(data, 37), a))} :
                  a \in ParseAddress(From(data, 37), {"Fake", "IpV4", "IpV6"})}

(* What is hashed is every field but the mac, the aliases that are not sent included. *)
calc_mac(c) ==
    Digest(Address(c.init_address) \o Addresses(c.aliases)
           \o <<c.peer_port, c.local_port, c.peer_verification_tag, c.local_verification_tag,
                c.peer_initial_tsn, c.local_initial_tsn, c.incoming_streams,
                c.outgoing_streams, c.peer_arwnd>>)

(* StateCookie: a cookie of this endpoint, or the octets of one. *)
Ours(c) == [kind |-> "Ours", cookie |-> c]
Opaque(data) == [kind |-> "Opaque", data |-> data]
StateCookieSize(s) == IF s.kind = "Ours" THEN CookieSize(s.cookie) ELSE Len(s.data)
SerializeStateCookie(s) == IF s.kind = "Ours" THEN SerializeCookie(s.cookie) ELSE s.data
MakeOurs(s) == IF s.kind = "Ours" THEN {s.cookie} ELSE ParseCookie(s.data)

-----------------------------------------------------------------------------
(* packet/param.rs.  Unknown is a parameter of another program, of a type that Param lacks. *)
ParamType ==
    [IpV4 |-> 5, IpV6 |-> 6, StateCookie |-> 7, UnrecognizedParam |-> 8,
     CookiePreservative |-> 9, SupportedAddrTypes |-> 12]

ParamSize(p) ==
    CASE p.kind = "Unknown" -> 4 + Len(p.value)
      [] p.kind \in {"IpV4", "CookiePreservative"} -> 8
      [] p.kind = "IpV6" -> 20
      [] p.kind = "SupportedAddrTypes" -> 4 + (IF p.ipv4 THEN 2 ELSE 0) + (IF p.ipv6 THEN 2 ELSE 0)
      [] p.kind = "StateCookie" -> 4 + StateCookieSize(p.cookie)
      [] p.kind = "UnrecognizedParam" -> 8 + Len(p.data)

ParamValue(p) ==
    CASE p.kind = "Unknown" -> p.value
      [] p.kind = "IpV4" -> U32(p.addr)
      [] p.kind = "IpV6" -> U128(p.addr)
      [] p.kind = "CookiePreservative" -> U32(p.millis)
      [] p.kind = "SupportedAddrTypes" ->
            (IF p.ipv4 THEN U16(5) ELSE <<>>) \o (IF p.ipv6 THEN U16(6) ELSE <<>>)
      [] p.kind = "StateCookie" -> SerializeStateCookie(p.cookie)
      [] p.kind = "UnrecognizedParam" -> U16(p.typ) \o U16(4 + Len(p.data)) \o p.data

SerializeParam(p) ==
    Tlv(U16(IF p.kind = "Unknown" THEN p.typ ELSE ParamType[p.kind]), ParamSize(p), ParamValue(p))

(* An unrecognized parameter is reported with all of the buffer from it on. *)
ParamBody(typ, value, data) ==
    CASE typ = 5 -> IF Len(value) = 4 THEN [kind |-> "IpV4", addr |-> Number(value)]
                                      ELSE IllegalFormat
      [] typ = 6 -> IF Len(value) = 16 THEN [kind |-> "IpV6", addr |-> Number(value)]
                                       ELSE IllegalFormat
      [] typ = 7 -> [kind |-> "StateCookie", cookie |-> Opaque(value)]
      [] typ = 8 -> IF Len(value) >= 4 /\ (\/ Field(value, 3, 2) = Len(value)
                                           \/ padded_len(Field(value, 3, 2)) = Len(value))
                    THEN [kind |-> "UnrecognizedParam", typ |-> Field(value, 1, 2),
                          data |-> From(value, 5)]
                    ELSE IllegalFormat
      [] typ = 9 -> IF Len(value) = 4 THEN [kind |-> "CookiePreservative", millis |-> Number(value)]
                                      ELSE IllegalFormat
      [] typ = 11 -> [kind |-> "HostNameDeprecated"]
      [] typ = 12 -> LET named == {Field(value, 2 * i - 1, 2) : i \in 1 .. Len(value) \div 2}
                     IN [kind |-> "SupportedAddrTypes", ipv4 |-> 5 \in named, ipv6 |-> 6 \in named]
      [] OTHER -> Unrecognized(typ \div 256)
                  @@ [typ |-> typ, data |-> data]

ParamOf(p, data) ==
    IF p.result.kind # "Tlv" THEN p
    ELSE [p EXCEPT !.result = ParamBody(Number(@.tag), @.value, data)]
ParseParam(data) == ParamOf(ParseTlv(data), data)

-----------------------------------------------------------------------------
(* packet/init.rs: the parameters of an INIT or INIT ACK, in the order they are written;    *)
(* others are those that another program adds to its INIT.                                  *)
InitParams(c) ==
    (IF c.kind = "InitAck" THEN <<[kind |-> "StateCookie", cookie |-> c.cookie]>> ELSE <<>>)
    \o Wired(c.aliases)
    \o (IF c.kind = "InitAck" THEN c.unrecognized ELSE c.others)
    \o SetToSeq(c.cookie_preservative) \o SetToSeq(c.supported_addr_types)

InitSize_Unpadded(c) ==
    LET params == InitParams(c)
    IN 20 + Sum([i \in DOMAIN params |-> ParamSize(params[i])])
InitSize(c) ==
    LET params == InitParams(c)
    IN 20 + Sum([i \in DOMAIN params |-> padded_len(ParamSize(params[i]))])

InitValue(c) ==
    LET params == InitParams(c) IN
    U32(c.initiate_tag) \o U32(c.a_rwnd) \o U16(c.outbound_streams) \o U16(c.inbound_streams)
    \o U32(c.initial_tsn) \o Concat([i \in DOMAIN params |-> SerializeParam(params[i])])

(* The loop over the parameters; the last result is the one that ended it, if any did. *)
EndsParams(r) == r.kind \in {"Done", "IllegalFormat"} \/ (r.kind = "Unrecognized" /\ r.stop)
RECURSIVE ParseParams(_), WithParam(_, _)
ParseParams(data) == IF data = <<>> THEN <<>> ELSE WithParam(ParseParam(data), data)
WithParam(p, data) ==
    <<p.result>> \o (IF EndsParams(p.result) THEN <<>> ELSE ParseParams(From(data, 1 + p.size)))

LastOf(found) == IF found = <<>> THEN {} ELSE {Last(found)}
LastOfKind(params, kind) == LastOf(OfKind(params, {kind}))

Reported(params) ==
    LET unknown == SelectSeq(OfKind(params, {"Unrecognized"}), LAMBDA r : r.report)
    IN [i \in DOMAIN unknown |->
          [kind |-> "UnrecognizedParam", typ |-> unknown[i].typ, data |-> unknown[i].data]]

InitOf(kind, value, params) ==
    [kind |-> kind, initiate_tag |-> Field(value, 1, 4), a_rwnd |-> Field(value, 5, 4),
     outbound_streams |-> Field(value, 9, 2), inbound_streams |-> Field(value, 11, 2),
     initial_tsn |-> Field(value, 13, 4), aliases |-> Wired(params),
     cookie_preservative |-> LastOfKind(params, "CookiePreservative"),
     supported_addr_types |-> LastOfKind(params, "SupportedAddrTypes"),
     unrecognized |-> IF kind = "Init" THEN Reported(params) ELSE OfKind(params, {"UnrecognizedParam"})]

(* InitChunk::parse and InitAck::parse, from the parameters on. *)
ParsedInit(value, params) ==
    IF Len(value) < 16 \/ OfKind(params, {"IllegalFormat"}) # <<>> THEN IllegalFormat
    ELSE InitOf("Init", value, params)
ParsedInitAck(value, params) ==
    IF \/ Len(value) < 16 \/ OfKind(params, {"IllegalFormat"}) # <<>>
       \/ OfKind(params, {"StateCookie"}) = <<>>
    THEN IllegalFormat
    ELSE InitOf("InitAck", value, params)
         @@ [cookie |-> Last(OfKind(params, {"StateCookie"})).cookie]

-----------------------------------------------------------------------------
(* packet/data.rs and packet/sack.rs *)
Bit(b, n) == IF b THEN 2^n ELSE 0
IsSet(flags, n) == (flags \div 2^n) % 2 = 1

serialize_flags(d) == Bit(d.immediate, 3) + Bit(d.unordered, 2) + Bit(d.begin, 1) + Bit(d.end, 0)

DataValue(d) ==
    U32(d.tsn) \o U16(d.stream_id) \o U16(d.stream_seq_num) \o U32(d.ppid) \o d.buf

ParseData(flags, value) ==
    IF Len(value) < 13 THEN IllegalFormat
    ELSE [kind |-> "Data", tsn |-> Field(value, 1, 4), stream_id |-> Field(value, 5, 2),
          stream_seq_num |-> Field(value, 7, 2), ppid |-> Field(value, 9, 4), buf |-> From(value, 13),
          immediate |-> IsSet(flags, 3), unordered |-> IsSet(flags, 2),
          begin |-> IsSet(flags, 1), end |-> IsSet(flags, 0)]

SackValue_Swapped(s) ==
    U32(s.cum_tsn) \o U32(s.a_rwnd) \o U16(Len(s.duplicated_tsn)) \o U16(Len(s.blocks))
    \o Concat([i \in DOMAIN s.blocks |-> U16(s.blocks[i][1]) \o U16(s.blocks[i][2])])
    \o Concat([i \in DOMAIN s.duplicated_tsn |-> U32(s.duplicated_tsn[i])])
SackValue(s) ==
    U32(s.cum_tsn) \o U32(s.a_rwnd) \o U16(Len(s.blocks)) \o U16(Len(s.duplicated_tsn))
    \o Concat([i \in DOMAIN s.blocks |-> U16(s.blocks[i][1]) \o U16(s.blocks[i][2])])
    \o Concat([i \in DOMAIN s.duplicated_tsn |-> U32(s.duplicated_tsn[i])])

SackOf(value, n_blocks, n_dups) ==
    IF Len(value) - 12 < 4 * (n_blocks + n_dups) THEN IllegalFormat
    ELSE [kind |-> "SAck", cum_tsn |-> Field(value, 1, 4), a_rwnd |-> Field(value, 5, 4),
          blocks |-> [i \in 1 .. n_blocks |->
                        <<Field(value, 9 + 4 * i, 2), Field(value, 11 + 4 * i, 2)>>],
          duplicated_tsn |-> [i \in 1 .. n_dups |-> Field(value, 9 + 4 * (n_blocks + i), 4)]]
ParseSack(value) ==
    IF Len(value) < 12 THEN IllegalFormat ELSE SackOf(value, Field(value, 9, 2), Field(value, 11, 2))

-----------------------------------------------------------------------------
(* Heartbeats: content is Opaque(octets) or a path MTU probe of this endpoint. *)
Probe(pmtu_probe) == [kind |-> "Probe", pmtu_probe |-> pmtu_probe]
HeartBeatValue(h) == IF h.kind = "Opaque" THEN h.data ELSE U16(1) \o U16(8) \o U32(h.pmtu_probe)

(* A probe is followed by a PAD chunk that makes the packet as large as the size it probes. *)
PaddingSize(n) == 4 + padded_len(n)
SerializePadding(n) == Tlv(<<132, 0>>, PaddingSize(n), Zeros(padded_len(n)))
ProbePadding(c) ==
    IF c.kind = "HeartBeat" /\ c.content.kind = "Probe" /\ c.content.pmtu_probe > 0
    THEN SerializePadding(c.content.pmtu_probe) ELSE <<>>

(* HeartBeatAck::ours.  No case, and no value, where get_u16 runs out of octets and panics. *)
HasTag(data) == Len(data) >= 2 /\ (Field(data, 1, 2) = 1 => Len(data) >= 4)
IsOurs(data) == Len(data) = 8 /\ Field(data, 1, 2) = 1 /\ Field(data, 3, 2) = 8
ours_Offset(h) ==
    CASE h.kind = "Probe" -> {h.pmtu_probe}
      [] h.kind # "Probe" /\ HasTag(h.data) -> IF IsOurs(h.data) THEN {Field(h.data, 3, 4)} ELSE {}
ours(h) ==
    CASE h.kind = "Probe" -> {h.pmtu_probe}
      [] h.kind # "Probe" /\ HasTag(h.data) -> IF IsOurs(h.data) THEN {Field(h.data, 5, 4)} ELSE {}

-----------------------------------------------------------------------------
(* Chunk.  Unknown stands for a chunk of a type that Chunk does not have; the kinds that    *)
(* serialize does not implement (OpError, ECNE, CWR) and Unknown come from other programs.  *)
ChunkType ==
    [Data |-> 0, Init |-> 1, InitAck |-> 2, SAck |-> 3, HeartBeat |-> 4, HeartBeatAck |-> 5,
     Abort |-> 6, ShutDown |-> 7, ShutDownAck |-> 8, OpError |-> 9, StateCookie |-> 10,
     StateCookieAck |-> 11, _ReservedECNE |-> 12, _ReservedCWR |-> 13, ShutDownComplete |-> 14]

ChunkTag(c) ==
    CASE c.kind = "Unknown" -> <<c.typ, 0>>
      [] c.kind = "Data" -> <<0, serialize_flags(c)>>
      [] c.kind \in {"Abort", "ShutDownComplete"} -> <<ChunkType[c.kind], Bit(c.reflected, 0)>>
      [] OTHER -> <<ChunkType[c.kind], 0>>

ChunkValue(c) ==
    CASE c.kind = "Data" -> DataValue(c)
      [] c.kind \in {"Init", "InitAck"} -> InitValue(c)
      [] c.kind = "SAck" -> SackValue(c)
      [] c.kind \in {"HeartBeat", "HeartBeatAck"} -> HeartBeatValue(c.content)
      [] c.kind = "Abort" -> c.error_causes
      [] c.kind = "ShutDown" -> U32(c.tsn)
      [] c.kind = "StateCookie" -> SerializeStateCookie(c.cookie)
      [] c.kind = "Unknown" -> c.value
      [] OTHER -> <<>>

(* The length field.  It leaves the PAD chunk of a probe out, serialized_size counts it. *)
ChunkLength(c) ==
    CASE c.kind = "Data" -> 16 + Len(c.buf)
      [] c.kind \in {"Init", "InitAck"} -> InitSize(c)
      [] c.kind = "SAck" -> 16 + 4 * Len(c.blocks) + 4 * Len(c.duplicated_tsn)
      [] c.kind \in {"HeartBeat", "HeartBeatAck"} ->
            IF c.content.kind = "Opaque" THEN Len(c.content.data) + 4 ELSE 12
      [] c.kind = "Abort" -> 4 + Len(c.error_causes)
      [] c.kind = "ShutDown" -> 8
      [] c.kind = "StateCookie" -> 4 + StateCookieSize(c.cookie)
      [] c.kind = "Unknown" -> 4 + Len(c.value)
      [] OTHER -> 4

serialized_size(c) ==
    ChunkLength(c) + (IF ProbePadding(c) = <<>> THEN 0 ELSE PaddingSize(c.content.pmtu_probe))

SerializeChunk(c) ==
    IF c.kind = "Data" /\ c.buf = <<>> THEN <<>>
    ELSE Tlv(ChunkTag(c), ChunkLength(c), ChunkValue(c)) \o ProbePadding(c)

ChunkBody(typ, flags, value) ==
    CASE typ = 0 -> ParseData(flags, value)
      [] typ = 1 -> ParsedInit(value, ParseParams(From(value, 17)))
      [] typ = 2 -> ParsedInitAck(value, ParseParams(From(value, 17)))
      [] typ = 3 -> ParseSack(value)
      [] typ = 4 -> [kind |-> "HeartBeat", content |-> Opaque(value)]
      [] typ = 5 -> [kind |-> "HeartBeatAck", content |-> Opaque(value)]
      [] typ = 6 -> [kind |-> "Abort", reflected |-> IsSet(flags, 0), error_causes |-> value]
      [] typ = 7 -> IF Len(value) = 4 THEN [kind |-> "ShutDown", tsn |-> Number(value)]
                                      ELSE IllegalFormat
      [] typ = 8 -> IF value = <<>> THEN [kind |-> "ShutDownAck"] ELSE IllegalFormat
      [] typ = 9 -> [kind |-> "OpError"]
      [] typ = 10 -> [kind |-> "StateCookie", cookie |-> Opaque(value)]
      [] typ = 11 -> IF value = <<>> THEN [kind |-> "StateCookieAck"] ELSE IllegalFormat
      [] typ = 12 -> [kind |-> "_ReservedECNE"]
      [] typ = 13 -> [kind |-> "_ReservedCWR"]
      [] typ = 14 -> IF value = <<>> THEN [kind |-> "ShutDownComplete", reflected |-> IsSet(flags, 0)]
                                     ELSE IllegalFormat
      [] typ = 132 -> [kind |-> "Padding", size |-> Len(value)]
      [] OTHER -> Unrecognized(typ)

ChunkOf(p) ==
    IF p.result.kind # "Tlv" THEN p
    ELSE [p EXCEPT !.result = ChunkBody(@.tag[1], @.tag[2], @.value)]
ParseChunk(data) == ChunkOf(ParseTlv(data))

-----------------------------------------------------------------------------
(* Packet: ports, verification tag and a checksum of it all. *)
PacketFields(p) == U16(p.from) \o U16(p.to) \o U32(p.verification_tag)
SerializePacket(p, chunks) ==
    PacketFields(p) \o U32(Digest(PacketFields(p) \o Zeros(4) \o chunks))

ParsePacket(data) ==
    IF \/ Len(data) < 12
       \/ Digest(SubSeq(data, 1, 8) \o Zeros(4) \o From(data, 13)) # Field(data, 9, 4)
    THEN {}
    ELSE {[from |-> Field(data, 1, 2), to |-> Field(data, 3, 2),
           verification_tag |-> Field(data, 5, 4)]}
=============================================================================
