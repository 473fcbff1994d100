---------------------------- MODULE PacketCodecs ----------------------------
(***************************************************************************)
(* The packet classes of jxnet-packet: what newInstance makes of a byte    *)
(* array, what getPacket decodes of a payload, what setPacket does to the  *)
(* two packets it joins, and what toBytes writes.                          *)
(*                                                                         *)
(* A byte array is a sequence of 0 .. 255.  A packet is a record: its      *)
(* class, the bytes of each of its fields, the options of IPv4 and TCP (or *)
(* the routing data), and the payload it keeps in nextPacket.  A field is  *)
(* kept as the bytes it occupies on the wire; Kept says which of its bits  *)
(* survive the setter and the getter.  Null is the null of Java, Thrown an *)
(* exception.                                                              *)
(***************************************************************************)
EXTENDS Naturals, Sequences, FiniteSets, TLC

Null == [class |-> "null"]

Thrown == [class |-> "exception"]

(* The fixed header of each class: the bytes that each field occupies.  An *)
(* Ethernet header with a VLAN tag has a layout of its own, and Fragment   *)
(* reads its offset where the reserved byte is.                            *)
EthernetFields == [dst |-> 1 .. 6, src |-> 7 .. 12, type |-> 13 .. 14]

TaggedFields ==
  [dst |-> 1 .. 6, src |-> 7 .. 12, tpid |-> 13 .. 14, tci |-> 15 .. 16, type |-> 17 .. 18]

ARPFields ==
  [hrd |-> 1 .. 2, type |-> 3 .. 4, hln |-> 5 .. 5, pln |-> 6 .. 6, op |-> 7 .. 8,
   sha |-> 9 .. 14, spa |-> 15 .. 18, tha |-> 19 .. 24, tpa |-> 25 .. 28]

IPv4Fields ==
  [verihl |-> 1 .. 1, tos |-> 2 .. 2, len |-> 3 .. 4, id |-> 5 .. 6, frag |-> 7 .. 8, ttl |-> 9 .. 9,
   proto |-> 10 .. 10, sum |-> 11 .. 12, src |-> 13 .. 16, dst |-> 17 .. 20]

IPv6Fields ==
  [flow |-> 1 .. 4, len |-> 5 .. 6, proto |-> 7 .. 7, hop |-> 8 .. 8, src |-> 9 .. 24, dst |-> 25 .. 40]

TCPFields ==
  [sport |-> 1 .. 2, dport |-> 3 .. 4, seq |-> 5 .. 8, ack |-> 9 .. 12,
   off |-> 13 .. 14, window |-> 15 .. 16, sum |-> 17 .. 18, urgent |-> 19 .. 20]

UDPFields == [sport |-> 1 .. 2, dport |-> 3 .. 4, len |-> 5 .. 6, sum |-> 7 .. 8]

ICMPv4Fields == [typecode |-> 1 .. 2, sum |-> 3 .. 4]

ICMPv6Fields == [typecode |-> 1 .. 2, sum |-> 3 .. 4]

SLLFields ==
  [pkttype |-> 1 .. 2, hatype |-> 3 .. 4, halen |-> 5 .. 6, addr |-> 7 .. 14, type |-> 15 .. 16]

RadioTapFields == [version |-> 1 .. 1, pad |-> 2 .. 2, len |-> 3 .. 4, present |-> 5 .. 8]

RoutingFields == [proto |-> 1 .. 1, ext |-> 2 .. 2, rtype |-> 3 .. 3, left |-> 4 .. 4]

FragmentFields == [proto |-> 1 .. 1, off |-> 2 .. 3, id |-> 4 .. 7]

UnknownFields == << >>

Fields ==
  [Ethernet |-> EthernetFields, Tagged |-> TaggedFields, ARP |-> ARPFields, IPv4 |-> IPv4Fields,
   IPv6 |-> IPv6Fields, TCP |-> TCPFields, UDP |-> UDPFields, ICMPv4 |-> ICMPv4Fields,
   ICMPv6 |-> ICMPv6Fields, SLL |-> SLLFields, RadioTap |-> RadioTapFields,
   Routing |-> RoutingFields, Fragment |-> FragmentFields, Unknown |-> UnknownFields]

HeaderLength ==
  [Ethernet |-> 14, Tagged |-> 18, ARP |-> 28, IPv4 |-> 20, IPv6 |-> 40, TCP |-> 20, UDP |-> 8,
   ICMPv4 |-> 4, ICMPv6 |-> 4, SLL |-> 16, RadioTap |-> 8, Routing |-> 4, Fragment |-> 7, Unknown |-> 0]

Classes == DOMAIN Fields

Names(layout) == DOMAIN Fields[layout]

(* The bytes of field f in a byte array that starts with a header. *)
Field(layout, f, bytes) ==
  LET at == Fields[layout][f]
      from == CHOOSE i \in at : i - 1 \notin at
  IN  [i \in 1 .. Cardinality(at) |-> bytes[from + i - 1]]

Short(b) == 256 * b[1] + b[2]

Bytes2(n) == <<(n \div 256) % 256, n % 256>>

(* The entries of the static registries of the types. *)
ProtocolTypes == {2048, 2054, 33024, 32821, 32923, 34525, 34827, 34887, 34915, 34916}
IPProtocols == {0, 1, 2, 6, 17, 41, 43, 44, 50, 51, 58, 60}
OperationCodes == {1, 2}
DataLinkTypes == {0, 1, 6, 9, 10, 50, 105, 113, 127, 143, 65535}
TypesAndCodes ==
  {<<3, c>> : c \in 0 .. 15} \union {<<1, c>> : c \in 0 .. 7}
    \union {<<t, c>> : t \in {4, 12}, c \in 0 .. 2} \union {<<11, 0>>, <<11, 1>>}
    \union {<<t, 0>> : t \in {0, 2, 5, 8, 9, 10, 13, 14, 128, 129}}

-----------------------------------------------------------------------------
(***************************************************************************)
(* Reading.                                                                *)
(***************************************************************************)

(* What is left of a field after its setter: unregistered types become     *)
(* UNKNOWN, some setters mask bits, the format bit of a VLAN tag is read   *)
(* from the bit two above it, and the setters that assign the field to     *)
(* itself (setDiffServ, IPv4.setChecksum, setHopLimit, UDP.setLength) keep *)
(* what the constructor set.                                               *)
Kept(layout, f, b) ==
  CASE f = "type" -> IF Short(b) \in ProtocolTypes \union 0 .. 1500 THEN b ELSE <<255, 255>>
    [] f = "proto" -> IF b[1] \in IPProtocols THEN b ELSE <<255>>
    [] f = "op" -> IF Short(b) \in OperationCodes THEN b ELSE <<255, 255>>
    [] f = "typecode" -> IF b \in TypesAndCodes THEN b ELSE <<255, 255>>
    [] f = "tci" -> <<32 * (b[1] \div 32) + 16 * ((b[1] \div 64) % 2) + (b[1] % 16), b[2]>>
    [] f = "tos" -> <<b[1] % 4>>
    [] f = "hop" -> <<0>>
    [] f = "present" -> [i \in 1 .. 4 |-> IF i = 4 THEN b[4] ELSE IF b[4] > 127 THEN 255 ELSE 0]
    [] layout = "IPv4" /\ f = "sum" -> <<0, 0>>
    [] layout = "UDP" /\ f = "len" -> <<0, 0>>
    [] layout = "TCP" /\ f = "off" -> <<16 * (b[1] \div 16) + (b[1] % 2), b[2]>>
    [] layout = "Fragment" /\ f = "off" -> <<b[1], 8 * (b[2] \div 8) + (b[2] % 2)>>
    [] OTHER -> b

Layout(class, bytes) ==
  IF class = "Ethernet" /\ Len(bytes) >= 14 /\ Short(Field("Ethernet", "type", bytes)) = 33024
  THEN "Tagged"
  ELSE class

(* The length of what follows the fixed header and is not payload. *)
OptionsLength(class, bytes) ==
  CASE class = "IPv4" -> LET ihl == bytes[1] % 16 IN IF ihl > 5 THEN 4 * (ihl - 5) ELSE 0
    [] class = "TCP" -> LET off == bytes[13] \div 16
                            rest == Len(bytes) - 20
                        IN  IF off <= 5 THEN 0 ELSE IF 4 * (off - 5) > rest THEN rest ELSE 4 * (off - 5)
    [] class = "Routing" -> 4 + 8 * bytes[2]
    [] OTHER -> 0

(* newInstance throws when the buffer underflows, ARP also for address     *)
(* lengths its address classes refuse, Routing for a negative length, and  *)
(* UnknownPacket for an empty array.  ARP and Fragment keep no payload.     *)
NewInstance(class, bytes) ==
  LET layout == Layout(class, bytes)
      n == HeaderLength[layout]
      m == n + OptionsLength(class, bytes)
  IN  IF \/ Len(bytes) < n
         \/ Len(bytes) < m
         \/ class = "ARP" /\ <<bytes[5], bytes[6]>> # <<6, 4>>
         \/ class = "Routing" /\ bytes[2] > 127
         \/ class = "Unknown" /\ bytes = << >>
      THEN Thrown
      ELSE [class |-> class, layout |-> layout,
            options |-> SubSeq(bytes, n + 1, m),
            padding |-> FALSE,
            next |-> IF class \in {"ARP", "Fragment"} THEN << >> ELSE SubSeq(bytes, m + 1, Len(bytes))]
             @@ [f \in Names(layout) |-> Kept(layout, f, Field(layout, f, bytes))]

(* ProtocolType.decode: the value is a signed short, so that 0x86dd never  *)
(* equals the case label of IPv6.                                          *)
DecodeType(type, bytes) ==
  CASE bytes = << >> -> Null
    [] bytes # << >> /\ type = 2048 -> NewInstance("IPv4", bytes)
    [] bytes # << >> /\ type = 2054 -> NewInstance("ARP", bytes)
    [] OTHER -> Null

(* Mutant of DecodeProtocol: the two versions of ICMP are swapped. *)
DecodeProtocolSwapped(proto, bytes) ==
  LET class == [p \in {1, 41, 58, 43, 44, 6, 17} |->
                  CASE p = 1 -> "ICMPv6" [] p = 41 -> "IPv6" [] p = 58 -> "ICMPv4" [] p = 43 -> "Routing"
                    [] p = 44 -> "Fragment" [] p = 6 -> "TCP" [] p = 17 -> "UDP"]
  IN  IF bytes = << >> \/ proto \notin DOMAIN class THEN Null ELSE NewInstance(class[proto], bytes)

(* IPProtocolType.decode. *)
DecodeProtocol(proto, bytes) ==
  LET class == [p \in {1, 41, 58, 43, 44, 6, 17} |->
                  CASE p = 1 -> "ICMPv4" [] p = 41 -> "IPv6" [] p = 58 -> "ICMPv6" [] p = 43 -> "Routing"
                    [] p = 44 -> "Fragment" [] p = 6 -> "TCP" [] p = 17 -> "UDP"]
  IN  IF bytes = << >> \/ proto \notin DOMAIN class THEN Null ELSE NewInstance(class[proto], bytes)

(* Routing.getPacket has a switch of its own. *)
DecodeRouting(proto, bytes) ==
  CASE bytes = << >> -> Null
    [] bytes # << >> /\ proto \in {6, 17, 41, 43, 44} -> DecodeProtocol(proto, bytes)
    [] OTHER -> NewInstance("Unknown", bytes)

GetPacket(p) ==
  CASE p.class \in {"Ethernet", "SLL"} -> DecodeType(Short(p.type), p.next)
    [] p.class \in {"IPv4", "IPv6"} -> DecodeProtocol(p.proto[1], p.next)
    [] p.class = "Routing" -> DecodeRouting(p.proto[1], p.next)
    [] p.class \in {"TCP", "UDP"} -> IF p.next = << >> THEN Null ELSE NewInstance("Unknown", p.next)
    [] OTHER -> Null

-----------------------------------------------------------------------------
(***************************************************************************)
(* Writing.  toBytes changes its packet too: IPv4 and ICMPv4 keep the      *)
(* checksum they compute, and compute none when they have one.             *)
(***************************************************************************)

(* The sum of the 16-bit words of b, an odd last byte padded with zero. *)
WordSum(b) ==
  LET s[i \in 0 .. Len(b)] == IF i = 0 THEN 0 ELSE s[i - 1] + (IF i % 2 = 1 THEN 256 * b[i] ELSE b[i])
  IN  s[Len(b)]

(* Mutant of Complement16: the carry is dropped. *)
Complement16NoCarry(sum) == Bytes2(65535 - (sum % 65536))

(* The one's complement of a sum whose carry is added once. *)
Complement16(sum) == Bytes2(65535 - ((((sum \div 65536) % 65536) + (sum % 65536)) % 65536))

Zero2 == <<0, 0>>

(* The fields of a packet in their order, its options and its payload. *)
Encode(p) ==
  LET byte(i) == LET f == CHOOSE g \in Names(p.layout) : i \in Fields[p.layout][g]
                     from == CHOOSE k \in Fields[p.layout][f] : k - 1 \notin Fields[p.layout][f]
                 IN  p[f][i - from + 1]
  IN  [i \in 1 .. HeaderLength[p.layout] |-> byte(i)] \o p.options \o p.next

(* (byte) of a short, written as a short again *)
ByteOfShort(b) == <<IF b[2] > 127 THEN 255 ELSE 0, b[2]>>

(* There is room for whole words of options only. *)
IPv4ToBytes(p) ==
  LET n == 5 + Len(p.options) \div 4
      q == [p EXCEPT !.verihl = <<16 * (@[1] \div 16) + n>>, !.len = Bytes2(4 * n + Len(p.next)),
                     !.options = IF n > 5 THEN @ ELSE << >>]
      header == SubSeq(Encode([q EXCEPT !.sum = Zero2]), 1, 4 * n)
      sum == IF p.sum = Zero2 THEN Complement16(WordSum(header)) ELSE p.sum
  IN  IF Len(p.options) > 4 /\ Len(p.options) % 4 # 0 THEN Thrown
      ELSE
      [packet |-> [q EXCEPT !.sum = sum],
       bytes |-> Encode([q EXCEPT !.sum = IF p.sum = Zero2 THEN sum ELSE ByteOfShort(p.sum)])]

ICMPv4ToBytes(p) ==
  LET q == IF p.sum = Zero2 THEN [p EXCEPT !.sum = Complement16(WordSum(Encode(p)))] ELSE p
  IN  [packet |-> q, bytes |-> Encode(q)]

UDPToBytes(p) ==
  LET q == [p EXCEPT !.len = Bytes2(8 + Len(p.next))]
  IN  [packet |-> q, bytes |-> Encode(q)]

(* Ethernet pads to 60 bytes when it was told to.  The priority and the    *)
(* format bit of a tag are masked after they are shifted away, so that     *)
(* only the identifier is written.                                         *)
EthernetToBytes(p) ==
  LET b == Encode(IF p.layout = "Tagged" THEN [p EXCEPT !.tci = <<@[1] % 16, @[2]>>] ELSE p)
      short == IF p.padding /\ Len(b) < 60 THEN 60 - Len(b) ELSE 0
  IN  [packet |-> p, bytes |-> b \o [i \in 1 .. short |-> 0]]

(* IPv6.toBytes writes the source address in both places. *)
IPv6ToBytes(p) == [packet |-> p, bytes |-> Encode([p EXCEPT !.dst = p.src])]

FragmentToBytes(p) == [packet |-> p, bytes |-> p.proto \o <<0>> \o p.off \o p.id \o p.next]

(* The allocation of SLL.toBytes has no room for a payload. *)
SLLToBytes(p) == IF p.next # << >> THEN Thrown ELSE [packet |-> p, bytes |-> Encode(p)]

(* ARP.toBytes uses the hardware type that valueOf may have made null. *)
ARPToBytes(p) == IF Short(p.hrd) \notin DataLinkTypes THEN Thrown ELSE [packet |-> p, bytes |-> Encode(p)]

ToBytes(p) ==
  CASE p.class = "Ethernet" -> EthernetToBytes(p)
    [] p.class = "IPv4" -> IPv4ToBytes(p)
    [] p.class = "ICMPv4" -> ICMPv4ToBytes(p)
    [] p.class = "UDP" -> UDPToBytes(p)
    [] p.class = "IPv6" -> IPv6ToBytes(p)
    [] p.class = "Fragment" -> FragmentToBytes(p)
    [] p.class = "SLL" -> SLLToBytes(p)
    [] p.class = "ARP" -> ARPToBytes(p)
    [] OTHER -> [packet |-> p, bytes |-> Encode(p)]

(* The checksum of a TCP segment, over the pseudo header of IPv4 or IPv6   *)
(* as they are before setPacket sets their protocol.  The length is the    *)
(* data offset the user set, in bytes, and the payload.                    *)
TcpChecksum(ip, tcp) ==
  LET n == 4 * (tcp.off[1] \div 16) + Len(tcp.next)
  IN  Complement16(WordSum(ip.src \o ip.dst) + ip.proto[1] + (n % 65536) + WordSum(SubSeq(Encode(tcp), 1, n)))

TcpUnderflows(tcp) == 4 * (tcp.off[1] \div 16) > 20 + Len(tcp.options)

(* ICMPv6: getPacket of an ICMP packet is null, so its payload is left out *)
(* of the sum, and the length is that of an IPv6 header.                   *)
Icmp6Checksum(ip, icmp) ==
  Complement16(WordSum(ip.src \o ip.dst) + 40 + 58 + WordSum(icmp.typecode))

(* p with the bytes of q as its payload. *)
WithPayload(p, e) == IF e = Thrown THEN Thrown ELSE [outer |-> [p EXCEPT !.next = e.bytes], inner |-> e.packet]
Joined(p, q) == WithPayload(p, ToBytes(q))

(* p.setPacket(q) of each class.  Ethernet sets its type for the classes   *)
(* it knows and keeps the bytes of any packet.                             *)
EthernetSetPacket(p, q) ==
  LET type == [IPv4 |-> 2048, IPv6 |-> 34525, ARP |-> 2054]
  IN  Joined(IF q.class \in DOMAIN type THEN [p EXCEPT !.type = Bytes2(type[q.class])] ELSE p, q)

TcpSummed(ip, tcp) == IF tcp.sum = Zero2 THEN [tcp EXCEPT !.sum = TcpChecksum(ip, tcp)] ELSE tcp

(* The class name of UDP is misspelt in IPv4 and IPv6: an IPv4 packet      *)
(* takes no notice of a UDP packet ...                                     *)
IPv4SetPacket(p, q) ==
  IF q.class = "TCP" /\ q.sum = Zero2 /\ TcpUnderflows(q) THEN Thrown
  ELSE IF q.class \notin {"TCP", "ICMPv4"} THEN [outer |-> p, inner |-> q]
  ELSE Joined([p EXCEPT !.proto = IF q.class = "TCP" THEN <<6>> ELSE <<1>>],
              IF q.class = "TCP" THEN TcpSummed(p, q) ELSE q)

(* ... and an IPv6 packet takes its bytes and leaves the next header. *)
IPv6SetPacket(p, q) ==
  IF q.class = "TCP" /\ q.sum = Zero2 /\ TcpUnderflows(q) THEN Thrown
  ELSE Joined([p EXCEPT !.proto = CASE q.class = "TCP" -> <<6>> [] q.class = "ICMPv6" -> <<58>> [] OTHER -> @],
              CASE q.class = "TCP" -> TcpSummed(p, q)
                [] q.class = "ICMPv6" /\ q.sum = Zero2 -> [q EXCEPT !.sum = Icmp6Checksum(p, q)]
                [] OTHER -> q)

SetPacket(p, q) ==
  CASE p.class = "Ethernet" -> EthernetSetPacket(p, q)
    [] p.class = "IPv4" -> IPv4SetPacket(p, q)
    [] p.class = "IPv6" -> IPv6SetPacket(p, q)
    [] p.class \in {"ARP", "Unknown", "Routing", "Fragment"} -> [outer |-> p, inner |-> q]
    [] OTHER -> Joined(p, q)

=============================================================================
