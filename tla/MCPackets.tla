------------------------------ MODULE MCPackets ------------------------------
(* The chunks of the packets run: every kind, values of every length modulo 4, and a second  *)
(* peer that does little but must not be disturbed.                                         *)
EXTENDS Packets

Buf(n) == [i \in 1 .. n |-> 100 + i]
Data(tsn, len, begin, end) ==
    [kind |-> "Data", tsn |-> tsn, stream_id |-> 1, stream_seq_num |-> 300, ppid |-> 2, buf |-> Buf(len),
     immediate |-> FALSE, unordered |-> ~ begin, begin |-> begin, end |-> end]
SAck(blocks, dups) ==
    [kind |-> "SAck", cum_tsn |-> 9, a_rwnd |-> 500, blocks |-> blocks, duplicated_tsn |-> dups]
HeartBeat(content) == [kind |-> "HeartBeat", content |-> content]
Abort(n) == [kind |-> "Abort", reflected |-> TRUE, error_causes |-> Buf(n)]
Unknown(typ, n) == [kind |-> "Unknown", typ |-> typ, value |-> Buf(n)]
ShutDown == [kind |-> "ShutDown", tsn |-> 12]
IpV4(n) == [kind |-> "IpV4", addr |-> n]
IpV6(n) == [kind |-> "IpV6", addr |-> n]

AnInit(aliases, others, preservative, supported) ==
    [kind |-> "Init", initiate_tag |-> PeerTag, a_rwnd |-> 700, outbound_streams |-> 3,
     inbound_streams |-> 12, initial_tsn |-> 41, aliases |-> aliases, others |-> others,
     cookie_preservative |-> preservative, supported_addr_types |-> supported]
Other(typ, n) == [kind |-> "Unknown", typ |-> typ, value |-> Buf(n)]
Supported(v4, v6) == {[kind |-> "SupportedAddrTypes", ipv4 |-> v4, ipv6 |-> v6]}

MCInits ==
  <<{AnInit(<<IpV4(5), IpV6(6)>>, <<Other(49157, 3), Other(32769, 1), Other(20000, 2), Other(49158, 0)>>,
            {[kind |-> "CookiePreservative", millis |-> 4]}, Supported(TRUE, FALSE))},
    {AnInit(<<>>, <<>>, {}, Supported(TRUE, FALSE))}>>

Probes == HeartBeat(Probe(41))
MCQueues ==
  <<{<<<<Probes, SAck(<<>>, <<>>)>>, <<Data(1, 1, TRUE, FALSE), Data(2, 6, FALSE, TRUE)>>>>,
     <<<<SAck(<<<<2, 3>>, <<5, 5>>>>, <<8>>), Probes, ShutDown>>, <<Data(1, 22, TRUE, TRUE)>>>>,
     <<<<HeartBeat(Probe(0)), [kind |-> "ShutDownAck"], [kind |-> "ShutDownComplete", reflected |-> FALSE]>>,
       <<Data(1, 24, TRUE, TRUE), Data(2, 40, TRUE, TRUE)>>>>},
    {<<<<>>, <<>>>>}>>
MCBundles ==
  <<{<<>>, <<[kind |-> "StateCookieAck"], Data(1, 3, TRUE, TRUE)>>, <<HeartBeat(Opaque(Buf(7))), Abort(3)>>},
    {<<ShutDown>>}>>
MCForeign ==
  <<{<<Unknown(63, 1), ShutDown>>, <<Unknown(127, 2), ShutDown>>,
     <<Unknown(191, 3), Unknown(255, 5), HeartBeat(Opaque(Buf(6))), ShutDown>>,
     <<[kind |-> "StateCookieAck"], SAck(<<>>, <<3, 4>>), AnInit(<<IpV4(1)>>, <<>>, {}, {}), [kind |-> "OpError"]>>,
     <<[kind |-> "HeartBeatAck", content |-> Opaque(Buf(9))],
       [kind |-> "StateCookie", cookie |-> Opaque(Buf(10))], [kind |-> "StateCookieAck"]>>,
     <<[kind |-> "_ReservedECNE"], Abort(2), ShutDown>>},
    {<<HeartBeat(Opaque(Buf(1))), Abort(0)>>}>>
MCMaxForeign == <<1, 1>>
=============================================================================
