--------------------------- MODULE MCPeerProcess ---------------------------
(* One peer's process: two STUN servers, and the packets they may send.      *)
EXTENDS PeerProcess

\* The peer's public endpoint, as the servers see it.
MyIp == << <<49320, 1>> >>
MyPort == 8500
MyIp6 == << <<8193, 3512>>, <<0, 1>>, <<0, 32>>, <<0, 2>> >>

Software == Words(Attribute(32802, << <<20300, 21537>>, <<8237, 0>> >>))
Preambles == {<<>>, Software, Software \o Software}
Trailers == {<<>>, Software} \cup {Words(m.attribute) : m \in Mappings}

SomeMethods == {1, 2, 16, 17, 128, 513, 1025, 2049, 4095}
SomeCookies == {COOKIE, <<8466, 42051>>}
SomeIps == {MyIp}
SomeIp6s == {MyIp6}

\* One verdict of every kind.
Replies ==
  {[is |-> kind, endpoint |-> NoAddress] : kind \in {"reject", "ignore", "silent", "notImplemented"}}
    \cup {[is |-> "address", endpoint |-> [ip |-> MyIp, port |-> MyPort]]}
=============================================================================
