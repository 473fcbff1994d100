---------------------------- MODULE MCPacketPath ----------------------------
(* Instances of PacketPath: frames of each link type and packets to build. *)
EXTENDS PacketPath

CONSTANTS t1, t2

Macs == <<255, 255, 255, 255, 255, 255, 2, 0, 0, 0, 0, 1>>
Ip4(len, proto) == <<69, 1, 0, len, 0, 7, 64, 0, 64, proto, 0, 0, 192, 168, 1, 150, 222, 165, 255, 196>>
Ip6(len, proto) == <<96, 0, 0, 0, 0, len, proto, 64>> \o [i \in 1 .. 32 |-> i]
Udp == <<0, 53, 237, 199, 0, 8, 0, 0>>
Segment == <<31, 144, 0, 80, 1, 2, 3, 4, 0, 0, 0, 0, 96, 2, 114, 16, 160, 215, 0, 0, 2, 4, 5, 180>>
Arp == <<0, 1, 8, 0, 6, 4, 0, 1, 2, 0, 0, 0, 0, 1, 10, 0, 0, 1, 0, 0, 0, 0, 0, 0, 10, 0, 0, 2>>
Sll == <<0, 4, 0, 1, 0, 6, 2, 0, 0, 0, 0, 1, 0, 0>>

MCForeign ==
  [EN10MB |-> {Macs \o <<8, 0>> \o Ip4(44, 6) \o Segment,
               Macs \o <<8, 0>> \o SubSeq(Ip4(44, 6) \o Segment, 1, 36),
               Macs \o <<8, 0>> \o Ip4(108, 41) \o Ip6(48, 41) \o Ip6(8, 17) \o Udp,
               Macs \o <<129, 0, 0, 5, 8, 0>> \o Ip4(28, 1) \o <<8, 0, 1, 2, 0, 1, 0, 1>>,
               Macs \o <<136, 204, 1, 2, 3, 4>>},
   IEEE802_11_RADIO |-> {<<0, 0, 8, 0, 0, 0, 0, 0, 128, 0, 1, 2, 3, 4, 5, 6>>},
   LINUX_SLL |-> {Sll \o <<8, 0>> \o Ip4(28, 17) \o Udp, Sll \o <<8, 6>> \o Arp},
   PPP |-> {<<255, 3, 0, 33, 69>>}]

Job(kind, wanted, number, user) == [kind |-> kind, wanted |-> wanted, number |-> number, user |-> user]

MCJobs ==
  t1 :> {Job("handler", "none", 0, "replies"), Job("next", "none", 0, "quiet"), Job("nextEx", "none", 0, "quiet"),
         Job("listener", "none", 0, "quiet"), Job("listener", "IPv6", 0, "quiet"), Job("listener", "IPv6", 2, "quiet"),
         Job("abstract", "TCP", 0, "quiet"), Job("abstract", "ARP", 0, "quiet"),
         Job("abstract", "SLL", 0, "quiet"), Job("abstract", "RadioTap", 0, "quiet")}
  @@ t2 :> {Job("abstract", "IPv4", 0, "throws")}

(* What a user sets: for a TCP segment the data offset, and the protocol   *)
(* of the IPv4 packet around it.                                           *)
New(class, bytes, padding) == [NewInstance(class, bytes) EXCEPT !.padding = padding, !.next = << >>]
Payload(b) == NewInstance("Unknown", b)

MCTemplates ==
  LET eth(padding) == New("Ethernet", Macs \o <<255, 255>>, padding)
      ip(proto) == New("IPv4", Ip4(0, proto), FALSE)
      ip6(proto) == New("IPv6", Ip6(0, proto), FALSE)
      tcp(n) == New("TCP", [Segment EXCEPT ![13] = 16 * (n \div 4), ![17] = 0, ![18] = 0], FALSE)
  IN  {<<eth(TRUE), New("ARP", Arp, FALSE)>>,
       <<eth(FALSE), ip(6), tcp(24), Payload(<<71, 69, 84>>)>>,
       <<eth(FALSE), ip(1), New("ICMPv4", <<8, 0, 0, 0>>, FALSE), Payload(<<0, 1, 0, 1, 255>>)>>,
       <<eth(FALSE), ip(17), New("UDP", Udp, FALSE), Payload(<<1, 2>>)>>,
       <<eth(FALSE), ip6(59), tcp(20), Payload(<<71, 69, 84>>)>>}

MCRebuilt == {<<"Ethernet", "ARP">>}

=============================================================================
