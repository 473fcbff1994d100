---------------------------- MODULE FilterFrames ----------------------------
(***************************************************************************)
(* The frames a filter is run on, and what the filter language says of     *)
(* them.  A frame is a sequence of headers, the outermost first, and       *)
(* Encode gives its bytes as they are on the wire.  Meaning states, of the *)
(* headers and never of an offset, when a primitive is true, as            *)
(* pcap-filter.manmisc.in describes it; FilterPrimitives is the code that  *)
(* has to find the same answer in the bytes.                               *)
(***************************************************************************)
EXTENDS Integers, Sequences, SequencesExt, FiniteSets, Bitwise

-----------------------------------------------------------------------------
(* Numbers of protocols: EtherType, LLC SAP, PPP protocol, IP protocol *)
EtherType == [ip |-> 2048, arp |-> 2054, rarp |-> 32821, ip6 |-> 34525,
              vlan |-> 33024, mpls |-> 34887, pppoed |-> 34915,
              pppoes |-> 34916, atalk |-> 32923, aarp |-> 33011,
              decnet |-> 24579, ipx |-> 33079, lat |-> 24580, sca |-> 24583,
              mopdl |-> 24577, moprc |-> 24578, teb |-> 25944]
Sap == [iso |-> 254, netbeui |-> 240, ipx |-> 224, stp |-> 66]
PppType == [ip |-> 33, ip6 |-> 87, decnet |-> 39, atalk |-> 41, iso |-> 35,
            stp |-> 49, ipx |-> 43, mpls |-> 641, vjc |-> 45, vjnc |-> 47]
ArcType == [ip |-> 212, arp |-> 213, rarp |-> 214, atalk |-> 221, ip6 |-> 196]
Nlpid == [clnp |-> 129, esis |-> 130, isis |-> 131]
IpProto == [icmp |-> 1, igmp |-> 2, tcp |-> 6, igrp |-> 9, udp |-> 17,
            frag |-> 44, esp |-> 50, ah |-> 51, icmp6 |-> 58, nonext |-> 59,
            pim |-> 103, vrrp |-> 112, carp |-> 112, sctp |-> 132]
\* PDU types of IS-IS: hello, link state, complete and partial sequence numbers
IsisPdu == [l1iih |-> 15, l2iih |-> 16, ptpiih |-> 17, l1lsp |-> 18, l2lsp |-> 20,
            l1csnp |-> 24, l2csnp |-> 25, l1psnp |-> 26, l2psnp |-> 27]
\* LLC supervisory and unnumbered commands; messages of Q.2931
LlcS == [rr |-> 1, rnr |-> 5, rej |-> 9]
LlcU == [ui |-> 3, ua |-> 99, disc |-> 67, dm |-> 15, sabme |-> 111, test |-> 227,
         xid |-> 175, frmr |-> 135]
Q2931 == [setup |-> 5, proceed |-> 2, connect |-> 7, ack |-> 15, release |-> 77, done |-> 90]
GenevePort == 6081

U16(n) == <<(n \div 256) % 256, n % 256>>
U32(n) == U16(n \div 65536) \o U16(n % 65536)
Zeros(n) == [i \in 1..n |-> 0]
SnapOf(org, type) == <<170, 170, 3>> \o org \o U16(type)

\* The header after the last one
NoLayer == [k |-> "end", p |-> "end", enc |-> "ether2"]
After(ls, i) == IF i < Len(ls) THEN ls[i + 1] ELSE NoLayer

-----------------------------------------------------------------------------
(* Encoding.  A header has a kind k, the name p of its protocol and the    *)
(* way enc the header before it announces it: an EtherType, an LLC SAP, a  *)
(* SNAP header or Novell's raw 802.3.                                      *)

OrgOf(n) == IF n.p = "atalk" THEN <<8, 0, 7>> ELSE <<0, 0, 0>>
LlcOf(n) == CASE n.enc = "llc"  -> <<Sap[n.p], Sap[n.p], n.ctl>>
              [] n.enc = "snap" -> SnapOf(OrgOf(n), EtherType[n.p])
              [] n.enc = "raw"  -> <<255, 255>>
LengthField == U16(46)

\* What an Ethernet or VLAN header says of the header n after it
EtherNext(n) == CASE n.k = "end" -> U16(36864)
                  [] n.enc = "ether2" -> U16(EtherType[n.p])
                  [] OTHER -> LengthField \o LlcOf(n)
SllNext(n) == CASE n.k = "end" -> U16(36864)
                [] n.enc = "ether2" -> U16(EtherType[n.p])
                [] n.enc = "raw" -> U16(1) \o LlcOf(n)
                [] OTHER -> U16(4) \o LlcOf(n)
\* A link with LLC and nothing else: IEEE 802.5, FDDI, 802.11, Fibre Channel
LlcNext(n) == CASE n.k = "end" -> <<>>
                [] n.enc = "ether2" -> SnapOf(OrgOf(n), EtherType[n.p])
                [] OTHER -> LlcOf(n)
PppNext(n) == IF n.k = "end" THEN U16(49185) ELSE U16(PppType[n.p])

\* 802.11: frame control, the four addresses as the two DS bits order them
WlanLen(l) == 24 + (IF l.ds = 3 THEN 6 ELSE 0) + (IF l.qos THEN 2 ELSE 0)
WlanPad(l) == IF l.pad THEN Zeros((4 - (WlanLen(l) % 4)) % 4) ELSE <<>>
Wlan(l, n) ==
    IF l.type = 4
    THEN <<l.type + l.sub, 0, 0, 0>> \o l.a1 \o (IF l.sub \in {192, 208} THEN <<>> ELSE l.a2)
    ELSE <<l.type + l.sub + (IF l.qos THEN 128 ELSE 0), l.ds, 0, 0>>
         \o l.a1 \o l.a2 \o l.a3 \o <<0, 0>>
         \o (IF l.ds = 3 THEN l.a4 ELSE <<>>)
         \o (IF l.qos THEN <<0, 0>> ELSE <<>>) \o WlanPad(l) \o LlcNext(n)

Radiotap(l) ==
    LET body == (IF l.tsft THEN Zeros(8) ELSE <<>>)
                \o <<IF l.datapad THEN 32 ELSE 0>> \o Zeros(l.more)
    IN  <<0, 0, 8 + Len(body), 0, IF l.tsft THEN 3 ELSE 2, 0, 0, 0>> \o body

\* The address family of BSD loopback headers, in the byte order of the capturing host
Family(l, n) == LET w == U32(IF n.p = "ip6" THEN 10 ELSE 2) IN IF l.big THEN w ELSE Reverse(w)

\* SS7: the routing label of MTP3, 14 bits of each point code, and the link selection
RoutingLabel(l) == <<l.dpc % 256, (l.dpc \div 256) + (l.opc % 4) * 64, (l.opc \div 4) % 256,
                     (l.opc \div 1024) + l.sls * 16>>
Mtp2(l) == (IF l.phdr THEN Zeros(4) ELSE <<>>)
           \o (IF l.hsl THEN Zeros(4) \o U16(l.li * 128) ELSE <<0, 0, l.li>>)
           \o <<l.sio>> \o RoutingLabel(l) \o Zeros(4)

\* SunATM: the direction and the kind of traffic, then the circuit
SunAtm(l, n) == LET kind == CASE n.k = "eth" -> 1 [] n.k = "sig" -> 6 [] OTHER -> 2 IN
                <<(IF l.out THEN 128 ELSE 0) + kind, l.vpi>> \o U16(l.vci)
                \o (CASE kind = 1 -> <<0, 0>> [] kind = 2 -> LlcNext(n) [] OTHER -> <<>>)

\* DECnet: a length, padding of one byte, and the long or the short header
Decnet(l) == <<0, 0>> \o (IF l.pad THEN <<129>> ELSE <<>>)
             \o (IF l.long THEN <<6, 0, 0, 170, 0, 4, 0>> \o l.dst \o <<0, 0, 170, 0, 4, 0>> \o l.src
                 ELSE <<2>> \o l.dst \o l.src) \o Zeros(4)

Layer(l, n) ==
    CASE l.k = "eth"   -> l.dst \o l.src \o EtherNext(n)
      [] l.k = "sll"   -> U16(IF l.out THEN 4 ELSE 0) \o Zeros(12) \o SllNext(n)
      [] l.k = "raw"   -> <<>>
      [] l.k = "slip"  -> <<IF l.out THEN 1 ELSE 0>> \o Zeros(15)
      [] l.k = "ppp"   -> <<255, 3>> \o PppNext(n)
      [] l.k = "pppd"  -> <<IF l.out THEN 1 ELSE 0, 3>> \o PppNext(n)
      [] l.k = "pppeth" -> <<17, 0, 0, 1, 0, 0>> \o PppNext(n)
      [] l.k = "pppbsd" -> Zeros(5) \o PppNext(n) \o Zeros(17)
      [] l.k = "loop"  -> U32(IF n.p = "ip6" THEN 10 ELSE 2)
      [] l.k = "null"  -> Family(l, n)
      [] l.k = "enc"   -> Family(l, n) \o Zeros(8)
      [] l.k = "atm"   -> LlcNext(n)
      [] l.k = "sunatm" -> SunAtm(l, n)
      [] l.k = "sig"   -> Zeros(5) \o <<l.msg>>
      [] l.k = "firewire" -> Zeros(16) \o EtherNext(n)
      [] l.k = "symantec" -> Zeros(6) \o EtherNext(n) \o Zeros(36)
      [] l.k = "arc"   -> l.src \o l.dst \o Zeros(l.more) \o <<ArcType[n.p], 0, 0, 0>>
      [] l.k = "mtp2"  -> Mtp2(l)
      [] l.k = "chdlc" -> <<15, 0>> \o (IF n.p = "iso" THEN <<254, 254, 3>>
                                        ELSE EtherNext(n))
      [] l.k = "tr"    -> <<16, 64>> \o l.dst \o l.src \o LlcNext(n)
      [] l.k = "fddi"  -> <<80>> \o l.dst \o l.src \o LlcNext(n)
      [] l.k = "fc"    -> <<0, 0>> \o l.dst \o <<0, 0>> \o l.src \o LlcNext(n)
      [] l.k = "wlan"  -> Wlan(l, n)
      [] l.k = "radiotap" -> Radiotap(l)
      [] l.k = "prism" -> <<0, 0, 0, 68>> \o Zeros(140)
      [] l.k = "avs"   -> <<128, 33, 16, 1>> \o U32(12 + l.more) \o Zeros(4 + l.more)
      [] l.k = "pseudo" -> Zeros(l.more)
      [] l.k = "vlan"  -> U16(l.n) \o EtherNext(n)
      [] l.k = "mpls"  -> U16(l.n \div 16)
                          \o <<(l.n % 16) * 16 + (IF n.k = "mpls" THEN 0 ELSE 1), 64>>
      [] l.k = "pppoes" -> <<17, 0>> \o U16(l.n) \o <<0, 0>> \o PppNext(n)
      [] l.k = "ip"    -> <<IF l.opt THEN 70 ELSE 69, 0, 0, 0, 0, 0>> \o U16(l.frag)
                          \o <<64, l.proto, 0, 0>> \o l.src \o l.dst
                          \o (IF l.opt THEN <<1, 1, 1, 0>> ELSE <<>>)
      [] l.k = "ip6"   -> <<96, 0, 0, 0, 0, 0, l.proto, 64>> \o l.src \o l.dst
      [] l.k = "ext"   -> <<l.proto, 0, 0, 0, 0, 0, 0, 0>>
      [] l.k = "ah"    -> <<l.proto, 1, 0, 0, 0, 0, 0, 0, 0, 0, 0, 0>>
      [] l.k = "arp"   -> <<0, 1, 8, 0, 6, 4, 0, 1>> \o Zeros(6) \o l.src
                          \o Zeros(6) \o l.dst
      [] l.k = "ports" -> U16(l.sport) \o U16(l.dport) \o Zeros(4)
      [] l.k = "geneve" -> <<l.opts, 0>>
                           \o U16(IF n.k = "eth" THEN EtherType.teb ELSE EtherType[n.p])
                           \o <<0, l.n \div 256, l.n % 256, 0>> \o Zeros(4 * l.opts)
      [] l.k = "dn"    -> Decnet(l)
      [] l.k = "osi"   -> <<Nlpid[l.nlpid], 0, 0, 0, l.pdu, 0>>
      [] OTHER         -> Zeros(8)

\* A live capture on Linux gets the outermost VLAN tag beside the packet
OnWire(f) == IF f.offload /\ After(f.layers, 1).k = "vlan" THEN RemoveAt(f.layers, 2)
             ELSE f.layers
Encode(f) == LET ls == OnWire(f) IN
             FlattenSeq([i \in 1..Len(ls) |-> Layer(ls[i], After(ls, i))])
Tagged(f) == OnWire(f) # f.layers

\* Where header i of a frame ends
Wire(f, i) == IF Tagged(f) /\ i > 1 THEN i - 1 ELSE i
End(f, i) == LET ls == OnWire(f) IN
             Len(FlattenSeq([j \in 1..Wire(f, i) |-> Layer(ls[j], After(ls, j))]))

-----------------------------------------------------------------------------
(***************************************************************************)
(* What a primitive means.  The context of a frame is the index of the     *)
(* header whose payload the next primitive is about: 1 at first, further   *)
(* in after vlan, mpls, pppoes and geneve, which change "the decoding      *)
(* offsets for the remainder of the expression".  It is 0 when the frame   *)
(* has no such header: then the language promises nothing of what follows. *)
(***************************************************************************)
PrefixKinds == {"radiotap", "prism", "avs", "pseudo"}
Outer(f) == IF f.layers[1].k \in PrefixKinds THEN 2 ELSE 1
Payload(f, i) == After(f.layers, i)
Beyond(f, i) == After(f.layers, i + 1)

\* The link-layer header of a context
LinkKinds == {"eth", "sll", "raw", "slip", "ppp", "loop", "chdlc", "tr", "fddi",
              "fc", "wlan", "pppoes", "pppd", "pppeth", "pppbsd", "null", "enc",
              "atm", "sunatm", "firewire", "symantec", "arc", "mtp2", "opaque"}
LinkAt(f, i) == LET js == {j \in 1..i : f.layers[j].k \in LinkKinds} IN
                CHOOSE j \in js : \A j2 \in js : j2 =< j
LinkOf(f, i) == f.layers[LinkAt(f, i)]
LinkStart(f, i) == IF LinkAt(f, i) = 1 THEN 0 ELSE End(f, LinkAt(f, i) - 1)

Either(dir, src, dst) == CASE dir = "src" -> src [] dir = "dst" -> dst
                           [] dir = "and" -> src /\ dst
                           [] OTHER -> src \/ dst

InNet(a, addr, mask) == \A i \in 1..Len(a) : (a[i] & mask[i]) = addr[i]

HostIs(l, q) == Either(q.dir, InNet(l.src, q.a, q.m), InNet(l.dst, q.a, q.m))

\* The protocol after IPv4, or after IPv6 and its fragment header
Carries(f, i, v) ==
    LET l == Payload(f, i) IN
    \/ l.k = "ip" /\ l.proto = v
    \/ l.k = "ip6" /\ (l.proto = v \/ (l.proto = IpProto.frag /\ Beyond(f, i).proto = v))

OnlyOver == [icmp |-> "ip", igmp |-> "ip", igrp |-> "ip", vrrp |-> "ip", carp |-> "ip",
             icmp6 |-> "ip6"]
Wanted(q) == IF q = "none" THEN {IpProto.tcp, IpProto.udp, IpProto.sctp} ELSE {IpProto[q]}

PortIs(f, i, q) ==
    LET l == Payload(f, i)
        t == Beyond(f, i)
        In(n) == n \in q.r[1]..q.r[2] \/ n \in q.r[2]..q.r[1]
    IN  /\ l.k \in {"ip", "ip6"}
        /\ l.proto \in Wanted(q.q)
        /\ (l.k = "ip" => l.frag % 8192 = 0)
        /\ t.k = "ports"
        /\ Either(q.dir, In(t.sport), In(t.dport))

\* The chain of headers from IP on, as long as each names the next
ChainHas(f, i, v) ==
    \E j \in (i + 1)..Len(f.layers) :
        /\ f.layers[j].k \in {"ip", "ip6", "ext", "ah"}
        /\ f.layers[j].proto = v
        /\ \A h \in (i + 1)..(j - 1) : f.layers[h].k \in {"ip", "ip6", "ext", "ah"}

\* 802.11 addresses by their role: addresses 3 and 4 change place with the DS bits
WlanSrc(l) == CASE l.type = 0 -> l.a2
                [] l.ds = 3 -> l.a4
                [] l.ds = 2 -> l.a3
                [] OTHER -> l.a2
WlanDst(l) == IF l.type = 8 /\ l.ds \in {1, 3} THEN l.a3 ELSE l.a1
WlanHost(l, q) ==
    CASE q.dir = "ra" -> l.type # 0 /\ l.a1 = q.a
      [] q.dir = "ta" -> l.type # 0 /\ ~(l.type = 4 /\ l.sub \in {192, 208}) /\ l.a2 = q.a
      [] q.dir = "addr1" -> l.a1 = q.a
      [] q.dir = "addr2" -> ~(l.type = 4 /\ l.sub \in {192, 208}) /\ l.a2 = q.a
      [] q.dir = "addr3" -> l.type # 4 /\ l.a3 = q.a
      [] q.dir = "addr4" -> l.ds = 3 /\ l.a4 = q.a
      [] OTHER -> l.type # 4 /\ Either(q.dir, WlanSrc(l) = q.a, WlanDst(l) = q.a)

EtherHost(f, i, q) ==
    LET l == LinkOf(f, i) IN
    /\ ~(f.layers[i].k = "geneve")
    /\ IF l.k = "wlan" THEN WlanHost(l, q)
       ELSE Either(q.dir, l.src = q.a, l.dst = q.a)

Broadcast == [j \in 1..6 |-> 255]
\* Everyone on an ARCNET is address 0, for broadcast and for multicast
ToAll(f, i, a) == IF LinkOf(f, i).k = "arc" THEN a = <<0>> ELSE a = Broadcast
ToGroup(f, i, a) == IF LinkOf(f, i).k = "arc" THEN a = <<0>> ELSE a[1] % 2 = 1
DstMac(f, i) == IF LinkOf(f, i).k = "wlan" THEN WlanDst(LinkOf(f, i)) ELSE LinkOf(f, i).dst
HasDst(f, i) == f.layers[i].k # "geneve"
                /\ (LinkOf(f, i).k = "wlan" => LinkOf(f, i).type # 4)

\* The IS-IS PDUs of a level and of a kind; a point-to-point hello is of either level
IsisGroup == [l1 |-> {15, 17, 18, 24, 26}, l2 |-> {16, 17, 20, 25, 27}, iih |-> {15, 16, 17},
              lsp |-> {18, 20}, snp |-> {24, 25, 26, 27}, csnp |-> {24, 25}, psnp |-> {26, 27}]

\* Names that say which header is meant
NamedProto(f, i, q) ==
    LET l == Payload(f, i) IN
    CASE q \in DOMAIN IpProto ->
            /\ Carries(f, i, IpProto[q])
            /\ q \in DOMAIN OnlyOver => l.k = OnlyOver[q]
      [] q \in DOMAIN Nlpid -> l.k = "osi" /\ l.nlpid = q
      [] q \in DOMAIN IsisGroup -> l.k = "osi" /\ l.nlpid = "isis" /\ l.pdu \in IsisGroup[q]
      [] OTHER -> l.p = q

LlcFrame(f, i) == LET l == LinkOf(f, i) IN
    CASE l.k = "eth" -> Payload(f, i).enc \in {"llc", "snap"}
      [] l.k = "wlan" -> l.type = 8
      [] l.k = "sunatm" -> Payload(f, i).k \notin {"eth", "sig"}
      [] OTHER -> TRUE
Control(f, i) == IF Payload(f, i).enc = "llc" THEN Payload(f, i).ctl ELSE 3
LlcIs(f, i, q) == /\ LlcFrame(f, i)
                  /\ CASE q = "any" -> TRUE
                       [] q = "i" -> Control(f, i) % 2 = 0
                       [] q = "s" -> Control(f, i) % 4 = 1
                       [] q = "u" -> Control(f, i) % 4 = 3
                       [] q \in DOMAIN LlcS -> Control(f, i) % 16 = LlcS[q]
                       [] OTHER -> (Control(f, i) & 239) = LlcU[q]

True3(c) == IF c THEN "T" ELSE "F"

\* No claim is made of the payload of 802.11 frames between access points (four
\* addresses), of ports behind IPv6 extensions, of LLC inside a tag on 802.11, and of a
\* primitive for the other speed of an SS7 link, and of a second lane
NoPayloadClaim(f, i) == f.layers[Outer(f)].k = "wlan" /\ f.layers[Outer(f)].ds = 3

GeneveIn(f, i, q) == /\ Payload(f, i).k \in {"ip", "ip6"}
                     /\ PortIs(f, i, [q |-> "udp", dir |-> "dst", r |-> <<GenevePort, GenevePort>>])
                     /\ i + 3 =< Len(f.layers)
                     /\ f.layers[i + 3].k = "geneve"
                     /\ q.n \in {-1, f.layers[i + 3].n}

\* ATM circuits and SS7 signal units
Against(rel, v, n) == CASE rel = "eq" -> v = n [] rel = "ne" -> v # n [] rel = "gt" -> v > n
                        [] rel = "le" -> v =< n [] rel = "ge" -> v >= n [] OTHER -> v < n
Circuit == [metac |-> {1}, bcc |-> {2}, oamf4sc |-> {3}, oamf4ec |-> {4}, sc |-> {5}, ilmic |-> {16},
            oamf4 |-> {3, 4}, oam |-> {3, 4}, connectmsg |-> {5}, metaconnect |-> {1}]
AtmIs(f, q) ==
    LET l == f.layers[1]
        msg == IF f.layers[2].k = "sig" THEN f.layers[2].msg ELSE 0
    IN  /\ l.vpi = 0 /\ l.vci \in Circuit[q]
        /\ q = "connectmsg" => msg \in {Q2931[m] : m \in DOMAIN Q2931}
        /\ q = "metaconnect" => msg \in {Q2931[m] : m \in DOMAIN Q2931 \ {"ack"}}
Unit(l) == CASE l.li = 0 -> "fisu" [] l.li \in {1, 2} -> "lssu" [] OTHER -> "msu"

\* A VLAN tag holds a priority over the identifier
IdOf(l) == IF l.k = "vlan" THEN l.n % 4096 ELSE l.n

\* An address that is not written to its end is a network; a name is any of its addresses
Full(q) == [q EXCEPT !.a = @ \o Zeros(4 - Len(@)), !.m = IF Len(@) > 0 THEN @
                ELSE [j \in 1..Len(q.a) |-> 255] \o Zeros(4 - Len(q.a))]
Host4Is(l, q) == l.k \in {"ip", "arp"} /\ q.q \in {"none", l.p} /\ HostIs(l, Full(q))
NameIs(l, q) == IF Len(q.a) = 4 THEN Host4Is(l, q)
                ELSE l.k = "ip6" /\ q.q \in {"none", "ip6"} /\ Either(q.dir, l.src = q.a, l.dst = q.a)
\* The services file says which protocols a name is a port of
PortOf(q) == IF q.op = "portname" /\ q.q = "none" THEN [q EXCEPT !.q = q.real] ELSE q

PayloadMeaning(f, i, q) ==
    LET l == Payload(f, i) IN
    CASE q.op = "proto" -> NamedProto(f, i, q.q)
      [] q.op \in {"host", "net"} -> Host4Is(l, q)
      [] q.op \in {"host6", "net6"} -> l.k = "ip6" /\ HostIs(l, q)
      [] q.op = "hostname" -> \E j \in DOMAIN q.as : NameIs(l, [q EXCEPT !.a = q.as[j]])
      [] q.op = "dnhost" -> l.k = "dn" /\ Either(q.dir, l.src = q.a, l.dst = q.a)
      [] q.op \in {"port", "portname"} -> PortIs(f, i, PortOf(q))
      [] q.op = "ipproto" ->
            (CASE q.q = "link" -> l.p \in DOMAIN EtherType /\ EtherType[l.p] = q.n
               [] q.q = "iso" -> l.k = "osi" /\ Nlpid[l.nlpid] = q.n
               [] q.q = "isis" -> l.k = "osi" /\ l.nlpid = "isis" /\ l.pdu = q.n
               [] OTHER -> Carries(f, i, q.n) /\ q.q \in {"none", l.p})
      [] q.op = "protochain" -> ChainHas(f, i, q.n) /\ l.k \in {"ip", "ip6"}
                                /\ q.q \in {"none", l.p}
      [] q.op = "llc"   -> LlcIs(f, i, q.q)
      [] q.op = "pppoed" -> l.p = "pppoed"
      [] q.op \in {"vlan", "mpls", "pppoes"} -> l.k = q.op /\ q.n \in {-1, IdOf(l)}
      [] q.op = "geneve" -> GeneveIn(f, i, q)
      [] q.op = "multicast" /\ q.q = "ip" -> l.k = "ip" /\ l.dst[1] >= 224
      [] q.op = "multicast" /\ q.q = "ip6" -> l.k = "ip6" /\ l.dst[1] = 255
      [] q.op = "broadcast" /\ q.q = "ip" ->
            l.k = "ip" /\ l.dst[4] \in {0, 255}

LinkMeaning(f, i, q) ==
    CASE q.op = "ehost" -> EtherHost(f, i, q)
      [] q.op = "ename" -> EtherHost(f, i, [q EXCEPT !.a = q.as[1]])
      [] q.op = "ahost" -> Either(q.dir, LinkOf(f, i).src = q.a, LinkOf(f, i).dst = q.a)
      [] q.op = "atmtype" -> (IF q.q = "lane" THEN f.layers[2].k = "eth" ELSE AtmIs(f, q.q))
      [] q.op = "atmfield" -> Against(q.dir, IF q.q = "vpi" THEN f.layers[1].vpi ELSE f.layers[1].vci, q.n)
      [] q.op = "mtp2type" -> Unit(f.layers[1]) = q.q
      [] q.op = "mtp3" -> f.layers[1][q.q] = q.n
      [] q.op = "byte" -> (LET b == f.bytes[LinkStart(f, i) + q.r[1] + 1] IN
                           CASE q.dir = "&" -> (b & q.n) # 0 [] q.dir = "|" -> (b | q.n) # 0
                             [] OTHER -> Against(q.dir, b, q.n))
      [] q.op = "inbound" -> f.out = (q.dir = "out")
      [] q.op = "broadcast" -> HasDst(f, i) /\ ToAll(f, i, DstMac(f, i))
      [] q.op = "multicast" -> HasDst(f, i) /\ ToGroup(f, i, DstMac(f, i))
      [] q.op = "wlantype" -> LinkOf(f, i).type = q.n
      [] q.op = "wlansub" -> LinkOf(f, i).type + LinkOf(f, i).sub + (IF LinkOf(f, i).qos THEN 128 ELSE 0) = q.n
      [] q.op = "fcdir" -> LinkOf(f, i).ds = q.n

OfLink(q) == \/ q.op \in {"ehost", "ename", "ahost", "inbound", "wlantype", "wlansub", "fcdir", "atmtype",
                          "atmfield", "mtp2type", "mtp3", "byte"}
             \/ q.op \in {"broadcast", "multicast"} /\ q.q = "link"

\* A tag beside the packet is no header of it: only vlan looks at it
Seen(f, i, q) == IF Tagged(f) /\ i = 1 /\ q.op # "vlan" THEN 2 ELSE i

Meaning(f, i, q) ==
    CASE i = 0 -> "U"
      [] q.op \in {"mtp2type", "mtp3"} /\ f.layers[1].hsl # (q.dir = "hsl") -> "U"
      [] q.op = "atmtype" /\ q.q = "lane" /\ i # 1 -> "U"
      [] OfLink(q) -> True3(LinkMeaning(f, i, q))
      [] NoPayloadClaim(f, i) -> "U"
      [] q.op \in {"port", "portname"} /\ Payload(f, i).k = "ip6" /\ Beyond(f, i).k = "ext" -> "U"
      [] q.op = "llc" /\ LinkOf(f, i).k = "wlan" /\ f.layers[i].k = "vlan" -> "U"
      [] OTHER -> True3(PayloadMeaning(f, Seen(f, i, q), q))

\* Where the header is whose payload the rest of the expression is about
Shift(f, i, q) ==
    LET j == Seen(f, i, q) IN
    IF i = 0 \/ NoPayloadClaim(f, i) THEN 0
    ELSE CASE q.op \in {"vlan", "mpls", "pppoes"} ->
                IF Payload(f, j).k = q.op THEN j + 1 ELSE 0
           [] q.op = "atmtype" /\ q.q = "lane" -> IF f.layers[2].k = "eth" THEN 2 ELSE 0
           [] q.op = "geneve" ->
                IF ~GeneveIn(f, j, q) THEN 0
                ELSE IF After(f.layers, j + 3).k = "eth" THEN j + 4 ELSE j + 3
           [] OTHER -> i
=============================================================================
