------------------------- MODULE MCFilterPrimitives -------------------------
(* Frames and primitives for FilterPrimitives *)
EXTENDS FilterPrimitives, TLC

MacA == <<2, 0, 0, 0, 0, 10>>
MacB == <<2, 0, 0, 0, 0, 11>>
MacC == <<2, 0, 0, 0, 0, 12>>
MacM == <<1, 0, 94, 0, 0, 1>>
A4 == <<10, 0, 0, 1>>
B4 == <<10, 0, 1, 2>>
G4 == <<224, 0, 0, 9>>
A6 == <<32, 1>> \o Zeros(13) \o <<1>>
B6 == <<255, 2>> \o Zeros(13) \o <<2>>

Eth(dst, src) == [k |-> "eth", p |-> "eth", enc |-> "ether2", dst |-> dst, src |-> src]
EthAB == Eth(MacB, MacA)
Link(k) == [k |-> k, p |-> k, enc |-> "ether2", dst |-> MacB, src |-> MacA, out |-> FALSE]
LinkOut(k) == [Link(k) EXCEPT !.out = TRUE]
Vlan(n) == [k |-> "vlan", p |-> "vlan", enc |-> "ether2", n |-> n]
Mpls(n) == [k |-> "mpls", p |-> "mpls", enc |-> "ether2", n |-> n]
Pppoes(n) == [k |-> "pppoes", p |-> "pppoes", enc |-> "ether2", n |-> n]
Geneve(n, opts) == [k |-> "geneve", p |-> "geneve", enc |-> "ether2", n |-> n, opts |-> opts]
IpFull(src, dst, proto, frag, opt) ==
    [k |-> "ip", p |-> "ip", enc |-> "ether2", src |-> src, dst |-> dst, proto |-> proto,
     frag |-> frag, opt |-> opt]
Ip(proto) == IpFull(A4, B4, proto, 16384, FALSE)
Ip6(proto) == [k |-> "ip6", p |-> "ip6", enc |-> "ether2", src |-> A6, dst |-> B6, proto |-> proto]
Ext(proto) == [k |-> "ext", p |-> "ext", enc |-> "ether2", proto |-> proto]
Ah(proto) == [k |-> "ah", p |-> "ah", enc |-> "ether2", proto |-> proto]
Arp(p) == [k |-> "arp", p |-> p, enc |-> "ether2", src |-> A4, dst |-> B4]
Ports(s, d) == [k |-> "ports", p |-> "ports", enc |-> "ether2", sport |-> s, dport |-> d]
Net(p, enc) == [k |-> "net", p |-> p, enc |-> enc, ctl |-> 3]
Osi(nlpid) == [k |-> "osi", p |-> "iso", enc |-> "llc", ctl |-> 3, nlpid |-> nlpid, pdu |-> 20]
WlanHdr(type, sub, ds, qos, pad) ==
    [k |-> "wlan", p |-> "wlan", enc |-> "ether2", type |-> type, sub |-> sub, ds |-> ds,
     qos |-> qos, pad |-> pad, a1 |-> MacB, a2 |-> MacA, a3 |-> MacM, a4 |-> MacC]
ControlHdr(sub, a1, a2) == [WlanHdr(4, sub, 0, FALSE, FALSE) EXCEPT !.a1 = a1, !.a2 = a2]
RadioHdr(tsft, datapad, more) ==
    [k |-> "radiotap", p |-> "radiotap", enc |-> "ether2", tsft |-> tsft, datapad |-> datapad,
     more |-> more]

Fr(d, ls) == [dlt |-> d, layers |-> ls, out |-> FALSE, offload |-> FALSE]
FrOut(d, ls) == [Fr(d, ls) EXCEPT !.out = TRUE]
FrTag(d, ls) == [Fr(d, ls) EXCEPT !.offload = TRUE]

Tcp == <<Ip(6), Ports(80, 1025)>>
ToGeneve == <<Ip(17), Ports(9, GenevePort)>>

\* What Ethernet carries, with and without encapsulations
Plain ==
    <<<<EthAB>> \o Tcp, <<EthAB, IpFull(A4, B4, 17, 16384, TRUE), Ports(53, 80)>>,
      <<EthAB, IpFull(A4, B4, 6, 185, FALSE), Ports(80, 80)>>,
      <<EthAB, Ip6(6), Ports(80, 1025)>>, <<EthAB, Ip6(44), Ext(6), Ports(80, 1025)>>,
      <<EthAB, Arp("arp")>>, <<EthAB, Net("ipx", "raw")>>, <<EthAB>>>>
Tags ==
    <<<<EthAB, Vlan(5)>> \o Tcp, <<EthAB, Vlan(5), Vlan(6)>> \o Tcp,
      <<EthAB, Vlan(6), Arp("arp")>>, <<EthAB, Vlan(5), Mpls(7)>> \o Tcp>>
Labels ==
    <<<<EthAB, Mpls(7)>> \o Tcp, <<EthAB, Mpls(8), Mpls(7), Ip6(6), Ports(80, 1025)>>>>
Sessions ==
    <<<<EthAB, Pppoes(3)>> \o Tcp, <<EthAB, Vlan(5), Pppoes(4), Ip6(17), Ports(53, 80)>>,
      <<EthAB, Pppoes(3), Mpls(7)>> \o Tcp>>
Tunnels ==
    <<<<EthAB>> \o ToGeneve \o <<Geneve(11, 0), Eth(MacA, MacM)>> \o Tcp,
      <<EthAB>> \o ToGeneve \o <<Geneve(12, 2), Ip6(6), Ports(80, 1025)>>,
      <<EthAB, Ip6(17), Ports(9, GenevePort), Geneve(11, 1), Eth(MacB, MacA), Vlan(5)>> \o Tcp>>

Of(d, lss) == [i \in DOMAIN lss |-> Fr(d, lss[i])]
Under(pre, lss) == [i \in DOMAIN lss |-> pre \o lss[i]]
EtherFrames == Of("EN10MB", Plain \o Tags \o Labels \o Sessions \o Tunnels)

\* A live capture: tags beside the packets, and the other link-layer types
Beside == <<FrTag("EN10MB", <<EthAB, Vlan(5)>> \o Tcp),
            FrTag("EN10MB", <<EthAB, Vlan(5), Vlan(6)>> \o Tcp),
            FrTag("EN10MB", <<EthAB, Vlan(6), Arp("arp")>>)>>
Others == Of("EN10MB",
         <<<<EthAB>> \o Tcp, <<EthAB, Arp("rarp")>>, <<Eth(Broadcast, MacA), Arp("arp")>>,
           <<Eth(MacM, MacB), IpFull(B4, G4, 2, 0, TRUE)>>,
           <<EthAB, IpFull(A4, <<10, 0, 1, 255>>, 1, 0, FALSE)>>,
           <<EthAB, Net("ipx", "raw")>>, <<EthAB, Net("ipx", "llc")>>,
           <<EthAB, Net("ipx", "snap")>>, <<EthAB, Net("ipx", "ether2")>>,
           <<EthAB, Net("atalk", "snap")>>, <<EthAB, Net("aarp", "ether2")>>,
           <<EthAB, Net("stp", "llc")>>, <<EthAB, Net("decnet", "ether2")>>,
           <<EthAB, [Net("netbeui", "llc") EXCEPT !.ctl = 1]>>,
           <<EthAB, [Net("netbeui", "llc") EXCEPT !.ctl = 4]>>, <<EthAB, Osi("isis")>>>>)
Routed == <<Tcp, <<Ip6(58)>>, <<IpFull(B4, G4, 17, 0, TRUE), Ports(53, 80)>>>>
On(d, k) == Of(d, Under(<<Link(k)>>, Routed))
OnTyped(d, k) == Of(d, Under(<<Link(k)>>, Routed \o <<<<Arp("arp")>>, <<Osi("clnp")>>>>))
OnWlan(d, pre) ==
    Of(d, Under(pre, <<<<WlanHdr(8, 0, 0, FALSE, FALSE)>> \o Tcp, <<WlanHdr(8, 0, 1, FALSE, FALSE)>> \o Tcp,
                       <<WlanHdr(8, 0, 2, FALSE, FALSE)>> \o Tcp, <<WlanHdr(8, 0, 3, FALSE, FALSE)>> \o Tcp,
                       <<WlanHdr(8, 0, 1, TRUE, FALSE)>> \o Tcp,
                       <<WlanHdr(8, 0, 2, FALSE, FALSE), Vlan(5), Arp("arp")>>,
                       <<WlanHdr(0, 128, 0, FALSE, FALSE)>>,
                       <<ControlHdr(192, MacC, MacC)>>, <<ControlHdr(176, MacC, MacC)>>>>))
LinkFrames ==
    Beside \o Others \o <<FrOut("EN10MB", <<EthAB>> \o Tcp)>>
    \o On("LINUX_SLL", "sll")
    \o <<Fr("LINUX_SLL", <<Link("sll"), Arp("arp")>>),
         FrOut("LINUX_SLL", <<LinkOut("sll"), Net("ipx", "raw")>>),
         Fr("LINUX_SLL", <<Link("sll"), Net("ipx", "snap")>>),
         Fr("LINUX_SLL", <<Link("sll"), Net("stp", "llc")>>)>>
    \o On("RAW", "raw") \o On("LOOP", "loop") \o On("PPP", "ppp")
    \o <<Fr("PPP", <<Link("ppp"), Mpls(7)>> \o Tcp)>>
    \o OnTyped("C_HDLC", "chdlc")
    \o OnTyped("IEEE802", "tr") \o OnTyped("FDDI", "fddi") \o OnTyped("IP_OVER_FC", "fc")
    \o OnWlan("IEEE802_11", <<>>)
    \o OnWlan("RADIO", <<RadioHdr(TRUE, FALSE, 0)>>)
    \o <<Fr("RADIO", <<RadioHdr(FALSE, TRUE, 3), WlanHdr(8, 0, 1, TRUE, TRUE)>> \o Tcp)>>


\* A savefile of this machine or of one of the other byte order
Families(k, big) == <<[Link(k) EXCEPT !.p = k] @@ [big |-> big]>>
OnNull(d, k, big) == Of(d, Under(Families(k, big), Routed))
Circ(vpi, vci) == [k |-> "sunatm", p |-> "sunatm", enc |-> "ether2", vpi |-> vpi, vci |-> vci, out |-> FALSE]
Sig(msg) == [k |-> "sig", p |-> "sig", enc |-> "ether2", msg |-> msg]
Lane(ls) == <<Circ(0, 33), Eth(MacM, MacA)>> \o ls
LaneFrames == Of("SUNATM", <<Lane(Tcp), Lane(<<Vlan(5)>> \o Tcp), Lane(<<Mpls(7)>> \o Tcp),
                            Lane(<<Pppoes(3)>> \o Tcp), Lane(<<Ip6(6), Ports(80, 1025)>>),
                            <<Circ(3, 40)>> \o Tcp>>)
TunnelTypes == EtherFrames \o LaneFrames \o OnNull("NULL", "null", TRUE) \o OnNull("ENC", "enc", TRUE)

\* The other link-layer types
Dn(pad, long, src, dst) == [k |-> "dn", p |-> "decnet", enc |-> "ether2", pad |-> pad, long |-> long,
                            src |-> src, dst |-> dst]
Prefix(k, more) == [k |-> k, p |-> k, enc |-> "ether2", more |-> more]
Arc(src, dst, more) == [k |-> "arc", p |-> "arc", enc |-> "ether2", src |-> src, dst |-> dst, more |-> more]
Su(li, sio, opc, dpc, sls, hsl, phdr) ==
    [k |-> "mtp2", p |-> "mtp2", enc |-> "ether2", li |-> li, sio |-> sio, opc |-> opc, dpc |-> dpc,
     sls |-> sls, hsl |-> hsl, phdr |-> phdr]
Pdu(n) == [Osi("isis") EXCEPT !.pdu = n]
Llc(p, ctl) == [Net(p, "llc") EXCEPT !.ctl = ctl]
OnPpp(d, k) == On(d, k) \o <<FrOut(d, <<LinkOut(k)>> \o Tcp)>>
OnMac(d, pre) ==
    Of(d, Under(pre, Routed \o <<<<Arp("arp")>>, <<Vlan(5)>> \o Tcp, <<Pdu(15)>>, <<Pdu(26)>>, <<Osi("clnp")>>,
                     <<Dn(TRUE, TRUE, <<5, 4>>, <<6, 4>>)>>, <<Dn(FALSE, FALSE, <<5, 4>>, <<7, 4>>)>>,
                     <<Llc("netbeui", 5)>>, <<Llc("netbeui", 191)>>, <<Net("ipx", "raw")>>>>))
OnLlc(d, k) == OnTyped(d, k) \o Of(d, <<<<Link(k), Llc("netbeui", 5)>>, <<Link(k), Llc("stp", 3)>>>>)
OnArc(d, more) ==
    Of(d, Under(<<Arc(<<7>>, <<9>>, more)>>, Routed \o <<<<Arp("arp")>>>>)) \o
    <<Fr(d, <<Arc(<<9>>, <<0>>, more)>> \o Tcp)>>
OnMtp2(d, phdr) == Of(d, <<<<Su(0, 0, 5, 5, 0, FALSE, phdr)>>, <<Su(2, 1, 5, 6, 0, FALSE, phdr)>>,
                          <<Su(9, 131, 4660, 5, 9, FALSE, phdr)>>, <<Su(9, 131, 5, 4660, 9, TRUE, phdr)>>,
                          <<Su(1, 0, 4660, 5, 9, TRUE, phdr)>>, <<Su(0, 0, 4660, 5, 9, TRUE, phdr)>>>>)
OtherFrames ==
    OnMac("EN10MB", <<EthAB>>) \o OnMac("NETANALYZER", <<Prefix("pseudo", 4), EthAB>>)
    \o OnMac("NETANALYZER_TRANSPARENT", <<Prefix("pseudo", 12), EthAB>>)
    \o OnPpp("PPP_PPPD", "pppd") \o On("PPP_SERIAL", "ppp") \o On("PPP_ETHER", "pppeth")
    \o On("PPP_BSDOS", "pppbsd") \o OnNull("NULL", "null", FALSE) \o OnNull("ENC", "enc", FALSE)
    \o OnWlan("PRISM_HEADER", <<Prefix("prism", 0)>>) \o OnWlan("RADIO_AVS", <<Prefix("avs", 52)>>)
    \o Of("PRISM_HEADER", <<<<Prefix("avs", 52), WlanHdr(8, 0, 1, TRUE, FALSE)>> \o Tcp>>)
    \o OnLlc("ATM_RFC1483", "atm") \o OnTyped("ATM_CLIP", "atm")
    \o Of("SUNATM", <<<<Circ(3, 40)>> \o Tcp, <<Circ(0, 5), Sig(5)>>, <<Circ(0, 5), Sig(15)>>,
                      <<Circ(0, 1), Sig(15)>>, <<Circ(0, 1), Sig(7)>>, <<Circ(0, 4), Sig(0)>>,
                      <<Circ(0, 33), Llc("stp", 3)>>, <<Circ(0, 33), Eth(MacM, MacA)>>>>)
    \o Of("IPV4", Under(<<Link("raw")>>, <<Tcp>>)) \o Of("IPV6", Under(<<Link("raw")>>, <<<<Ip6(58)>>>>))
    \o Of("LTALK", <<<<Link("raw"), Net("atalk", "ether2")>>>>)
    \o On("APPLE_IP_OVER_IEEE1394", "firewire") \o On("SYMANTEC_FIREWALL", "symantec")
    \o OnArc("ARCNET", 0) \o OnArc("ARCNET_LINUX", 2) \o OnMtp2("MTP2", FALSE) \o OnMtp2("MTP2_WITH_PHDR", TRUE)
    \o Of("USB_LINUX", <<<<Link("opaque")>>>>)

\* Primitives
Pr(op, q, dir) == [op |-> op, q |-> q, dir |-> dir, a |-> <<>>, m |-> <<>>, n |-> -1,
                   r |-> <<0, 0>>, as |-> <<>>, real |-> "none"]
PrN(op, q, dir, n) == [Pr(op, q, dir) EXCEPT !.n = n]
PrA(op, q, dir, a) == [Pr(op, q, dir) EXCEPT !.a = a]
Named(q) == Pr("proto", q, "default")
Enc(op, n) == PrN(op, "none", "default", n)
Host(q, dir, a) == PrA("host", q, dir, a)
NetQ(op, q, dir, a, m) == [PrA(op, q, dir, a) EXCEPT !.m = m]
EHost(dir, a) == PrA("ehost", "link", dir, a)
Name(op, q, dir, as) == [Pr(op, q, dir) EXCEPT !.as = as]
Port(q, dir, n, n2) == [Pr("port", q, dir) EXCEPT !.r = <<n, n2>>]
Service(q, dir, n, real) == [Pr("portname", q, dir) EXCEPT !.r = <<n, n>>, !.real = real]
ByteIs(op, i, n) == [PrN("byte", "none", op, n) EXCEPT !.r = <<i, i>>]

EtherPrimitives ==
    {Enc("vlan", -1), Enc("vlan", 5), Enc("mpls", 7), Enc("mpls", -1), Enc("pppoes", 3),
     Enc("pppoes", -1), Enc("geneve", 11), Enc("geneve", -1), Named("ip6"), Named("tcp"),
     Host("none", "src", A4), Port("none", "or", 80, 80), EHost("dst", MacB),
     Pr("atmtype", "lane", "default")}

LinkPrimitives ==
    {Named(q) : q \in {"ip", "arp", "ip6", "udp", "igmp", "icmp6", "ipx", "atalk", "aarp", "stp",
                       "netbeui", "iso", "isis", "clnp", "decnet"}}
    \union {Host("none", "and", A4), Host("ip", "or", B4), Host("tcp", "or", A4),
            NetQ("net", "arp", "dst", <<10, 0, 0, 0>>, <<255, 255, 0, 0>>),
            NetQ("host6", "none", "src", A6, Ones(16))}
    \union {EHost("src", MacA), EHost("or", MacM), EHost("ra", MacB), EHost("ta", MacA),
            EHost("addr1", MacB), EHost("addr2", MacA), EHost("addr3", MacM), EHost("addr4", MacC)}
    \union {Port("udp", "dst", 80, 80), Port("none", "src", 90, 50), Port("ip", "or", 80, 80),
            PrN("ipproto", "none", "default", 17), PrN("protochain", "none", "default", 58)}
    \union {Pr("broadcast", "link", "default"), Pr("broadcast", "ip", "default"),
            [Pr("broadcast", "ip", "default") EXCEPT !.m = <<0, 0, 0, 255>>],
            Pr("multicast", "link", "default"), Pr("multicast", "ip", "default"),
            Pr("multicast", "ip6", "default"), Pr("inbound", "none", "out"), Pr("inbound", "none", "in")}
    \union {Pr("llc", q, "default") : q \in {"any", "i", "s", "u"}}
    \union {Enc("wlantype", 8), Enc("fcdir", 1), Enc("vlan", 5), Enc("vlan", -1), Enc("mpls", 7),
            Enc("pppoed", -1)}

\* The primitives that the other types and the names call for
OtherPrimitives ==
    {Named(q) : q \in {"ip", "ip6", "arp", "tcp", "atalk", "decnet", "iso", "l1", "lsp", "psnp"}}
    \union {Host("none", "or", <<10, 0>>), Host("none", "src", A4), Host("ip", "ra", A4),
            NetQ("net", "none", "src", <<10, 0, 0, 0>>, <<255, 255, 0, 0>>),
            NetQ("net", "none", "src", <<10, 0, 0, 1>>, <<255, 255, 0, 0>>),
            NetQ("net6", "none", "dst", <<255>> \o Zeros(15), <<255>> \o Zeros(15)),
            PrA("dnhost", "decnet", "src", <<5, 4>>), PrA("dnhost", "decnet", "or", <<6, 4>>),
            Name("hostname", "none", "or", <<A4, A6>>), Name("hostname", "ip6", "or", <<A4>>),
            Name("hostname", "ip", "src", <<A4, A6>>), Name("ename", "link", "dst", <<MacB>>),
            Name("ename", "link", "src", <<>>), Port("none", "ta", 80, 80),
            Service("none", "src", 80, "tcp"), Service("udp", "src", 80, "tcp"),
            Service("udp", "dst", 80, "none")}
    \union {PrN("ipproto", "link", "default", 2048), PrN("ipproto", "ip", "default", 6),
            PrN("ipproto", "iso", "default", 131), PrN("ipproto", "isis", "default", 26),
            PrN("ipproto", "none", "src", 6)}
    \union {Pr("llc", q, "default") : q \in {"any", "rnr", "ui", "xid"}}
    \union {Pr("broadcast", "link", "default"), Pr("multicast", "link", "default"),
            PrA("ahost", "link", "src", <<7>>), PrA("ahost", "link", "or", <<9>>),
            Pr("inbound", "none", "out"), Enc("wlansub", 128), Enc("vlan", -1), Pr("pf", "none", "default")}
    \union {Pr("atmtype", q, "default") : q \in {"sc", "metac", "bcc", "oamf4", "connectmsg", "metaconnect"}}
    \union {PrN("atmfield", "vpi", "eq", 3), PrN("atmfield", "vci", "le", 5),
            PrN("atmfield", "vci", "ge", 16), PrN("atmfield", "vpi", "lt", 3)}
    \union {Pr("mtp2type", q, s) : q \in {"fisu", "lssu", "msu"}, s \in {"low", "hsl"}}
    \union {PrN("mtp3", q, "low", n) : q \in {"opc", "dpc"}, n \in {5, 4660, 16384}}
    \union {PrN("mtp3", "sio", "hsl", 131), PrN("mtp3", "sls", "low", 9), PrN("mtp3", "opc", "hsl", 4660)}
    \union {ByteIs("eq", 0, 69), ByteIs("gt", 1, 60), ByteIs("lt", 1, 60)}

\* A chain of headers with an authentication header in it
ChainFrames == <<Fr("EN10MB", <<EthAB, [Ip6(51) EXCEPT !.src = <<32, 1, 0, 0, 17>> \o Zeros(10) \o <<1>>],
                               Ah(44), Ext(6), Ports(80, 1025)>>),
                Fr("EN10MB", <<EthAB, Ip6(0), Ext(44), Ext(6), Ports(80, 1025)>>)>>
ChainPrimitives == {PrN("protochain", "ip6", "default", 6)}

\* A tunnel inside a label
TunnelFrames == EtherFrames \o
    <<Fr("EN10MB", <<EthAB, Mpls(7)>> \o ToGeneve \o <<Geneve(11, 0), Eth(MacA, MacM)>> \o Tcp)>>

\* Control frames of 802.11
ControlFrames == <<Fr("IEEE802_11", <<ControlHdr(176, MacB, MacA)>>)>>

\* Serial lines
SlipFrames == <<Fr("SLIP", <<Link("slip")>> \o Tcp), FrOut("SLIP", <<LinkOut("slip"), Ip6(58)>>)>>

\* A padded 802.11 header after a radiotap header of an odd length
PadFrames == <<Fr("RADIO", <<RadioHdr(FALSE, TRUE, 0), WlanHdr(8, 0, 1, TRUE, TRUE)>> \o Tcp)>>

\* The circuit of a LANE frame, a circuit negated, the bits of a byte, a direction of 802.11
LanePrimitives == {Pr("atmtype", "lane", "default"), PrN("atmfield", "vpi", "eq", 3)}
CircuitPrimitives == {PrN("atmfield", "vpi", "ne", 3)}
BytePrimitives == {ByteIs("&", 0, 2)}
AbortPrimitives == {Host("ip", "ra", A4), Port("none", "ta", 80, 80), Named("ip")}
CircuitFrames == Of("SUNATM", <<Lane(Tcp), <<Circ(3, 40), Eth(MacM, MacA)>> \o Tcp, <<Circ(3, 40)>> \o Tcp>>)
-----------------------------------------------------------------------------
(* The captures *)
Saved(frames, primitives, n) ==
    [frames |-> frames, primitives |-> primitives, terms |-> n, compiles |-> 1,
     file |-> TRUE, swapped |-> FALSE]

MCCaptures ==
    [tunnels |-> [Saved(TunnelTypes, EtherPrimitives, 3) EXCEPT !.swapped = TRUE],
     links   |-> [Saved(LinkFrames, LinkPrimitives, 2) EXCEPT !.compiles = 2, !.file = FALSE],
     others  |-> Saved(OtherFrames, OtherPrimitives, 2)]

\* Where the code and what is said of it differ
ChainCase     == [c |-> Saved(ChainFrames, ChainPrimitives, 1)]
StackCase     == [c |-> Saved(TunnelFrames, EtherPrimitives, 3)]
SlipCase      == [c |-> Saved(SlipFrames, LinkPrimitives, 1)]
PadCase       == [c |-> Saved(PadFrames, LinkPrimitives, 1)]
ControlCase   == [c |-> Saved(ControlFrames, LinkPrimitives, 1)]
CircuitCase   == [c |-> Saved(CircuitFrames, LanePrimitives, 2)]
NegatedCase   == [c |-> Saved(CircuitFrames, CircuitPrimitives, 1)]
BitsCase      == [c |-> Saved(EtherFrames, BytePrimitives, 1)]
AbortsCase    == [c |-> Saved(EtherFrames, AbortPrimitives, 1)]
=============================================================================
