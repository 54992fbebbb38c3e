------------------------------ MODULE StunMessage ------------------------------
(***************************************************************************)
(* The part of base/StunClient.cpp that reads a packet: the header's       *)
(* bits, and the search for a mapped address among the attributes.         *)
(*                                                                         *)
(* A packet is its first 16 bits, its cookie, whether it is shorter than a *)
(* header, and its body as 32-bit words <<high 16 bits, low 16 bits>>.     *)
(***************************************************************************)
EXTENDS Integers, Sequences, FiniteSets

CONSTANTS NoAddress,
          Methods, Cookies,   \* what a header can hold
          Ports, Ips, Ip6s,   \* what can be mapped: an address is a sequence of words
          Before, After       \* the words in front of and behind the attribute with the address

Half == {n \in Nat : n < 65536}
Word == Half \X Half

COOKIE == <<8466, 42050>>     \* 0x2112 A442
BIND_METHOD == 1
SUCCESS_CLASS == 2            \* bitset "10"
ATTRIB_MAPPED_ADDRESS == 1
ATTRIB_XOR_MAPPED_ADDRESS == 32
IPV4 == 1
IPV6 == 2

Bit(data, place) == (data \div place) % 2

\* Bits 4 and 8 belong to the class; bit 11 lands on the place of bit 12.
decode_method(data) ==
  LET low == data % 16
      mid == 16 * Bit(data, 32) + 32 * Bit(data, 64) + 64 * Bit(data, 128)
      high == 128 * Bit(data, 512) + 256 * Bit(data, 1024) + 2048 * Bit(data, 8192)
      shared == IF Bit(data, 2048) = 1 \/ Bit(data, 4096) = 1 THEN 1024 ELSE 0
  IN low + mid + high + shared

decode_class(data) == Bit(data, 16) + 2 * Bit(data, 256)

decode_plex(data) == Bit(data, 16384) + 2 * Bit(data, 32768)

\* The places of 16 bits, and the number that has given bits there.
Places == {1, 2, 4, 8, 16, 32, 64, 128, 256, 512, 1024, 2048, 4096, 8192, 16384, 32768}

BitSum(b) ==
  b[1] + 2 * b[2] + 4 * b[4] + 8 * b[8] + 16 * b[16] + 32 * b[32] + 64 * b[64] + 128 * b[128]
    + 256 * (b[256] + 2 * b[512] + 4 * b[1024] + 8 * b[2048] + 16 * b[4096] + 32 * b[8192]
               + 64 * b[16384] + 128 * b[32768])

\* The operator ^ of C++ on 16 bits.
Xor(x, y) == BitSum([p \in Places |-> (Bit(x, p) + Bit(y, p)) % 2])

XorWord(x, y) == <<Xor(x[1], y[1]), Xor(x[2], y[2])>>

Silent == [is |-> "silent", endpoint |-> NoAddress]
NotImplemented == [is |-> "notImplemented", endpoint |-> NoAddress]
Rejected == [is |-> "reject", endpoint |-> NoAddress]
Ignored == [is |-> "ignore", endpoint |-> NoAddress]
Address(ip, port) == [is |-> "address", endpoint |-> [ip |-> ip, port |-> port]]

\* The family and the port are the word behind the attribute's type and length.
Family(body, i) == body[i + 1][1] % 256
PortWord(body, i) == body[i + 1][2]
Length(body, i) == body[i][2]

\* Otherwise the decoder reports an error.  The attribute's own length is all it looks at.
Holds(body, i, bytes) == Length(body, i) >= bytes

decode_mapped_address(body, i) ==
  CASE Holds(body, i, 8) /\ Family(body, i) = IPV4 ->
         Address(<<body[i + 2]>>, PortWord(body, i))
    [] Holds(body, i, 20) /\ Family(body, i) = IPV6 ->
         Address(SubSeq(body, i + 2, i + 5), PortWord(body, i))
    [] OTHER -> Silent

\* Wrong variant: only the address is unmasked.
DecodePortPlain(body, i) ==
  CASE Holds(body, i, 8) /\ Family(body, i) = IPV4 ->
         Address(<<XorWord(body[i + 2], COOKIE)>>, PortWord(body, i))
    [] Holds(body, i, 4) /\ Family(body, i) = IPV6 -> NotImplemented
    [] OTHER -> Silent

decode_xor_mapped_address(body, i) ==
  CASE Holds(body, i, 8) /\ Family(body, i) = IPV4 ->
         Address(<<XorWord(body[i + 2], COOKIE)>>, Xor(PortWord(body, i), COOKIE[1]))
    [] Holds(body, i, 4) /\ Family(body, i) = IPV6 -> NotImplemented
    [] OTHER -> Silent

\* decode_attribute() moves on by the 4 bytes of the type and the length, not by the value: every
\* word of the body is taken for an attribute.
AddressWords(body) ==
  {i \in DOMAIN body : body[i][1] \in {ATTRIB_MAPPED_ADDRESS, ATTRIB_XOR_MAPPED_ADDRESS}}

FirstAddressWord(body) ==
  CHOOSE i \in AddressWords(body) : \A j \in AddressWords(body) : i <= j

DecodeAttribute(body, i) ==
  IF body[i][1] = ATTRIB_MAPPED_ADDRESS
  THEN decode_mapped_address(body, i)
  ELSE decode_xor_mapped_address(body, i)

\* The loop over the attributes ends at the first one that has an address.
DecodeBody(body) ==
  IF AddressWords(body) = {} THEN Silent ELSE DecodeAttribute(body, FirstAddressWord(body))

\* What on_recv() makes of a packet from a server that was asked.
Verdict(packet) ==
  CASE packet.short -> Rejected
    [] ~packet.short /\ decode_plex(packet.type) # 0 -> Ignored
    [] ~packet.short /\ decode_plex(packet.type) = 0 /\
         ( \/ packet.cookie # COOKIE
           \/ decode_method(packet.type) # BIND_METHOD
           \/ decode_class(packet.type) # SUCCESS_CLASS )
         -> Rejected
    [] OTHER -> DecodeBody(packet.body)

-----------------------------------------------------------------------------
(* What RFC 5389 says a server sends (external).                            *)

\* An attribute: its type, and its value in words.
Attribute(type, value) == [type |-> type, value |-> value]

\* The family and the port, then the address.
MappedValue(family, ip, port) == <<<<family, port>>>> \o ip

\* The masks are those of an IPv4 address; those of an IPv6 one involve the transaction id.
XorValue(ip, port) == <<<<IPV4, Xor(port, COOKIE[1])>>, XorWord(ip[1], COOKIE)>>

Words(attribute) == <<<<attribute.type, 4 * Len(attribute.value)>>>> \o attribute.value

\* The 14 bits of a message's type: the method's 12 with the class's 2 among them.
EncodeType(method, class) ==
  (method % 16) + 16 * (class % 2) + 32 * ((method \div 16) % 8) + 256 * (class \div 2)
    + 512 * (method \div 128)

Packet(method, class, plex, cookie, body) ==
  [short |-> FALSE, type |-> EncodeType(method, class) + 16384 * plex, cookie |-> cookie,
   body |-> body]

\* Words of attributes that have no address, none of which looks like one that has.
ASSUME BodiesAssumption ==
  /\ Before \cup After \subseteq Seq(Word)
  /\ \A body \in Before : AddressWords(body) = {}
ASSUME MappingsAssumption ==
  Methods \subseteq {n \in Nat : n < 4096} /\ Ports \subseteq Half /\ Ips \subseteq [1..1 -> Word]
    /\ Ip6s \subseteq [1..4 -> Word]

Said(type, value, meant) == [attribute |-> Attribute(type, value), meant |-> meant]

\* The attributes with an address, and what they say.  The last kind is cut off behind the port.
Mappings ==
  {Said(ATTRIB_MAPPED_ADDRESS, MappedValue(IPV4, ip, port), Address(ip, port)) :
     ip \in Ips, port \in Ports}
  \cup {Said(ATTRIB_XOR_MAPPED_ADDRESS, XorValue(ip, port), Address(ip, port)) :
          ip \in Ips, port \in Ports}
  \cup {Said(ATTRIB_MAPPED_ADDRESS, MappedValue(IPV6, ip, port), Address(ip, port)) :
          ip \in Ip6s, port \in Ports}
  \cup {Said(ATTRIB_XOR_MAPPED_ADDRESS, MappedValue(IPV6, ip, port), NotImplemented) :
          ip \in Ip6s, port \in Ports}
  \cup {Said(ATTRIB_MAPPED_ADDRESS, MappedValue(IPV4, <<>>, port), Silent) : port \in Ports}

\* What a packet's header lets through.
Expected(method, class, plex, cookie, meant) ==
  CASE plex # 0 -> Ignored
    [] plex = 0 /\ (cookie # COOKIE \/ method # 1 \/ class # 2) -> Rejected
    [] OTHER -> meant

\* The first mapped address is read, behind attributes that hold none.
DecodesWhatWasEncoded ==
  \A method \in Methods, class \in 0..3, plex \in 0..3, cookie \in Cookies, before \in Before :
    LET read(body) == Verdict(Packet(method, class, plex, cookie, body))
        expected(meant) == Expected(method, class, plex, cookie, meant)
    IN /\ read(before) = expected(Silent)
       /\ \A after \in After, m \in Mappings :
            read(before \o Words(m.attribute) \o after) = expected(m.meant)
=============================================================================
