-------------------------- MODULE FilterPrimitives --------------------------
(***************************************************************************)
(* What libpcap's code generator makes of the primitives of a filter       *)
(* expression (gencode.c): which bytes of a packet are tested, and how the *)
(* static offsets the generator keeps move with vlan, mpls, pppoes and     *)
(* geneve.                                                                 *)
(*                                                                         *)
(* A generated block is the tree of its tests; what it does on a frame is  *)
(* found by running the tests in the order of the jumps, where a load      *)
(* beyond the packet ends the program with 0 ("X").  That gen_and, gen_or  *)
(* and gen_not patch the jumps so is the subject of FilterCode.            *)
(***************************************************************************)
EXTENDS FilterFrames

CONSTANT
    \* What a program may capture and compile expressions for, by name: the frames,
    \* [dlt, layers, out, offload], whether they come from a savefile, and from one
    \* of a machine of the other byte order, the primitives of its expressions, how
    \* many an expression has, and the calls of pcap_compile
    Captures

VARIABLES
    phase,      \* "idle", "parsing", or "aborted" when the process is gone
    capture,    \* what the program captures
    dlt,        \* the handle's link-layer type
    packets,    \* the frames of that type and their bytes
    cg,         \* the static variables of gencode.c
    stack,      \* the parser's blocks: what they do, and what they mean
    ctx,        \* where each frame's next header is, for the reference
    terms,      \* primitives parsed
    compiles    \* calls of pcap_compile so far

vars == <<phase, capture, dlt, packets, cg, stack, ctx, terms, compiles>>

Dlts(c) == {f.dlt : f \in Range(Captures[c].frames)}
Handle  == [file |-> Captures[capture].file, swapped |-> Captures[capture].swapped]

\* What the handle captures: each frame of its type, numbered, with its bytes
Captured(d) ==
    LET fs == SelectSeq(Captures[capture].frames, LAMBDA f : f.dlt = d) IN
    [i \in DOMAIN fs |-> [id |-> i, dlt |-> d, layers |-> fs[i].layers, out |-> fs[i].out,
                          offload |-> fs[i].offload, bytes |-> Encode(fs[i])]]

-----------------------------------------------------------------------------
(* Tests and blocks *)
Ones(n) == [i \in 1..n |-> 255]

gen_mcmp(rel, off, val, mask) ==
    [t |-> "eq", rel |-> rel, off |-> off, val |-> val, mask |-> mask]
gen_cmp(rel, off, val) == gen_mcmp(rel, off, val, Ones(Len(val)))
gen_cmp_gt(rel, off, val) == [t |-> "gt", rel |-> rel, off |-> off, val |-> val, mask |-> Ones(Len(val))]
gen_cmp_ge(rel, off, val) == [t |-> "ge", rel |-> rel, off |-> off, val |-> val, mask |-> Ones(Len(val))]
gen_cmp_lt(rel, off, val) == [t |-> "lt", rel |-> rel, off |-> off, val |-> val, mask |-> Ones(Len(val))]
gen_cmp_le(rel, off, val) == [t |-> "le", rel |-> rel, off |-> off, val |-> val, mask |-> Ones(Len(val))]
gen_bcmp(rel, off, val) == gen_cmp(rel, off, val)
Jset(rel, off, mask) == [t |-> "set", rel |-> rel, off |-> off, val |-> Zeros(Len(mask)), mask |-> mask]

gen_and(a, b) == [t |-> "and", a |-> a, b |-> b]
gen_or(a, b)  == [t |-> "or", a |-> a, b |-> b]
gen_not(a)    == [t |-> "not", a |-> a]
Checked(b0, b1) == IF b0.t = "none" THEN b1 ELSE gen_and(b0, b1)
gen_uncond(c) == [t |-> "uncond", c |-> c]
gen_true  == gen_uncond("T")
gen_false == gen_uncond("F")
None      == [t |-> "none"]
bpf_error == [t |-> "error"]
abort     == [t |-> "abort"]

\* A relation other than equality is negated when "reverse" is set
gen_ncmp(rel, off, mask, jtype, reverse, val) ==
    LET b == [t |-> jtype, rel |-> rel, off |-> off, val |-> val, mask |-> mask] IN
    IF reverse /\ jtype \in {"gt", "ge"} THEN gen_not(b) ELSE b

RECURSIVE Meets(_, _)
Meets(b, t) == CASE b.t = t -> TRUE
                 [] b.t \in {"and", "or"} -> Meets(b.a, t) \/ Meets(b.b, t)
                 [] b.t = "not" -> Meets(b.a, t)
                 [] OTHER -> FALSE
Refused(b) == Meets(b, "error")

-----------------------------------------------------------------------------
(* Offsets: a constant part, and for headers of variable length the value  *)
(* the generated code leaves in a register for each frame                  *)

Const(c) == [c |-> c, var |-> FALSE, reg |-> <<>>]
Var(r)   == [c |-> 0, var |-> TRUE, reg |-> r]
At(o, f) == o.c + (IF o.var THEN o.reg[f.id] ELSE 0)
Add(o, n) == [o EXCEPT !.c = @ + n]
NoOffset == -1

Octet(f, o) == f.bytes[o + 1]
Inside(f, o, n) == 0 =< o /\ o + n =< Len(f.bytes)

EtherDlts == {"EN10MB", "NETANALYZER", "NETANALYZER_TRANSPARENT"}
WlanDlts == {"IEEE802_11", "PRISM_HEADER", "RADIO_AVS", "RADIO"}
ArcDlts  == {"ARCNET", "ARCNET_LINUX"}
Mtp2Dlts == {"MTP2", "MTP2_WITH_PHDR"}
\* Types of which libpcap knows nothing but the bytes
OpaqueDlts == {"USB_LINUX", "CAN_SOCKETCAN", "NFLOG"}

\* Variable-length outer headers: radiotap, AVS or Prism, and the 802.11 header after it
Word(f, o) == ((Octet(f, o) * 256 + Octet(f, o + 1)) * 256 + Octet(f, o + 2)) * 256 + Octet(f, o + 3)
gen_load_radiotap_llprefixlen(f) == Octet(f, 3) * 256 + Octet(f, 2)
gen_load_avs_llprefixlen(f) == Word(f, 4)
gen_load_prism_llprefixlen(f) ==
    IF <<Octet(f, 0), Octet(f, 1), Octet(f, 2) & 240>> = <<128, 33, 16>> THEN Word(f, 4) ELSE 144
LlPrefixLen(f) == CASE f.dlt = "RADIO" -> gen_load_radiotap_llprefixlen(f)
                    [] f.dlt = "RADIO_AVS" -> gen_load_avs_llprefixlen(f)
                    [] f.dlt = "PRISM_HEADER" -> gen_load_prism_llprefixlen(f)
                    [] OTHER -> 0
IsData(f) == LET b == Octet(f, LlPrefixLen(f)) IN (b & 8) # 0 /\ (b & 4) = 0
IsQos(f)  == (Octet(f, LlPrefixLen(f)) & 128) # 0
DataPad(f) == /\ (Octet(f, 4) & 2) # 0
              /\ (Octet(f, IF (Octet(f, 4) & 1) # 0 THEN 16 ELSE 8) & 32) # 0
gen_load_802_11_header_len(f) ==
    LET len == LlPrefixLen(f) + 24 + (IF IsData(f) /\ IsQos(f) THEN 2 ELSE 0) IN
    IF IsData(f) /\ f.dlt = "RADIO" /\ DataPad(f) THEN ((len + 3) \div 4) * 4 ELSE len

\* The offsets of each type: link type, payload, network layer with and without SNAP
OffsetsOfLan == [
    ARCNET |-> <<2, 6, 0, 0>>, ARCNET_LINUX |-> <<4, 8, 0, 0>>, EN10MB |-> <<12, 14, 0, 3>>,
    FDDI |-> <<13, 13, 8, 3>>, IEEE802 |-> <<14, 14, 8, 3>>,
    IEEE802_11 |-> <<24, 0, 8, 3>>, PRISM_HEADER |-> <<24, 0, 8, 3>>,
    RADIO_AVS |-> <<24, 0, 8, 3>>, RADIO |-> <<24, 0, 8, 3>>,
    NETANALYZER |-> <<16, 18, 0, 3>>, NETANALYZER_TRANSPARENT |-> <<24, 26, 0, 3>>]
OffsetsOfSerial == [
    SLIP |-> <<NoOffset, 16, 0, 0>>, SLIP_BSDOS |-> <<NoOffset, 24, 0, 0>>,
    NULL |-> <<0, 4, 0, 0>>, LOOP |-> <<0, 4, 0, 0>>, ENC |-> <<0, 12, 0, 0>>,
    PPP |-> <<2, 4, 0, 0>>, PPP_PPPD |-> <<2, 4, 0, 0>>, C_HDLC |-> <<2, 4, 0, 0>>,
    PPP_SERIAL |-> <<2, 4, 0, 0>>, PPP_ETHER |-> <<6, 8, 0, 0>>, PPP_BSDOS |-> <<5, 24, 0, 0>>]
OffsetsOfOthers == [
    ATM_RFC1483 |-> <<0, 0, 8, 3>>, ATM_CLIP |-> <<0, 0, 8, 3>>, SUNATM |-> <<4, 4, 8, 3>>,
    RAW |-> <<NoOffset, 0, 0, 0>>, IPV4 |-> <<NoOffset, 0, 0, 0>>, IPV6 |-> <<NoOffset, 0, 0, 0>>,
    LINUX_SLL |-> <<14, 16, 0, 0>>, LTALK |-> <<NoOffset, 0, 0, 0>>, IP_OVER_FC |-> <<16, 16, 8, 3>>,
    APPLE_IP_OVER_IEEE1394 |-> <<16, 18, 0, 0>>, SYMANTEC_FIREWALL |-> <<6, 44, 0, 0>>]
OffsetsOf(d) == CASE d \in DOMAIN OffsetsOfLan -> OffsetsOfLan[d]
                  [] d \in DOMAIN OffsetsOfSerial -> OffsetsOfSerial[d]
                  [] d \in DOMAIN OffsetsOfOthers -> OffsetsOfOthers[d]
                  [] OTHER -> <<NoOffset, NoOffset, NoOffset, NoOffset>>

\* The code for variable headers goes before the first test: insert_compute_vloffsets
LinkHeader(d, ps) ==
    CASE d \in WlanDlts \ {"IEEE802_11"} -> Var([i \in DOMAIN ps |-> LlPrefixLen(ps[i])])
      [] d = "NETANALYZER" -> Const(4)
      [] d = "NETANALYZER_TRANSPARENT" -> Const(12)
      [] OTHER -> Const(0)
LinkPayload(d, ps) ==
    IF d \in WlanDlts THEN Var([i \in DOMAIN ps |-> gen_load_802_11_header_len(ps[i])])
    ELSE Const(OffsetsOf(d)[2])

\* bpf_pcap is the handle; init_linktype sets the rest
init_linktype(d, ps, handle) ==
    [bpf_pcap |-> handle, linktype |-> d, prev |-> d, outertype |-> d,
     linkhdr |-> LinkHeader(d, ps), prevhdr |-> LinkHeader(d, ps), outer |-> LinkHeader(d, ps),
     off_linktype |-> Const(OffsetsOf(d)[1]), linkpl |-> LinkPayload(d, ps),
     nl |-> OffsetsOf(d)[3], nosnap |-> OffsetsOf(d)[4],
     labels |-> 0, vlans |-> 0, geneve |-> FALSE]
is_atm(g) == g.outertype = "SUNATM"

\* A new link-layer header; the type kept for the header before it is the new one too
PUSH_LINKHDR(g, type, hdr) ==
    [g EXCEPT !.prev = type, !.prevhdr = g.linkhdr, !.linktype = type, !.linkhdr = hdr,
              !.geneve = FALSE]

\* The length of the IPv4 header a frame has where the generator expects it
gen_loadx_iphdrlen(g, f) ==
    LET o == At(g.linkpl, f) + g.nl IN
    IF Inside(f, o, 1) THEN (Octet(f, o) & 15) * 4 ELSE NoOffset

Base(g, rel, f) ==
    CASE rel = "PACKET"   -> 0
      [] rel = "LINKHDR"  -> At(g.linkhdr, f)
      [] rel = "PREVLINKHDR" -> At(g.prevhdr, f)
      [] rel = "LLC"      -> At(g.linkpl, f)
      [] rel = "PREVMPLSHDR" -> At(g.linkpl, f) + g.nl - 4
      [] rel = "LINKPL"   -> At(g.linkpl, f) + g.nl
      [] rel = "LINKPL_NOSNAP" -> At(g.linkpl, f) + g.nosnap
      [] rel = "LINKTYPE" -> At(g.off_linktype, f)
      [] rel = "TRAN_IPV4" -> At(g.linkpl, f) + g.nl + gen_loadx_iphdrlen(g, f)
      [] rel = "TRAN_IPV6" -> At(g.linkpl, f) + g.nl + 40

gen_load_a(g, b, f) ==
    LET o == Base(g, b.rel, f) + b.off IN
    IF \/ b.rel = "TRAN_IPV4" /\ gen_loadx_iphdrlen(g, f) = NoOffset
       \/ ~Inside(f, o, Len(b.val))
    THEN <<>>
    ELSE [i \in 1..Len(b.val) |-> IF b.mask[i] = 255 THEN Octet(f, o + i - 1)
                                   ELSE Octet(f, o + i - 1) & b.mask[i]]

-----------------------------------------------------------------------------
(* Running a block on a frame *)

Number(w) == IF Len(w) = 1 THEN w[1] ELSE w[1] * 256 + w[2]
Compare(t, w, v) ==
    CASE t = "eq" -> w = v
      [] t = "set" -> w # v
      [] t = "gt" -> Number(w) > Number(v)
      [] t = "ge" -> Number(w) >= Number(v)
      [] t = "lt" -> Number(w) < Number(v)
      [] t = "le" -> Number(w) =< Number(v)

ChainFuel == 8      \* headers one packet can chain
Skipped == {0, 60, 43, 44}

\* The loop protochain generates: A is the next protocol, X the offset of its header
RECURSIVE Chase(_, _, _, _, _, _)
Chase(b, f, base, a, x, fuel) ==
    LET o == base + x
        next == Octet(f, o)
    IN  CASE a = b.v -> "T"
          [] fuel = 0 -> "X"
          [] a = IpProto.nonext -> "F"
          [] b.six /\ a \in Skipped ->
                IF ~Inside(f, o, 2) THEN "X"
                ELSE Chase(b, f, base, next, x + 8 * (Octet(f, o + 1) + 1), fuel - 1)
          [] a = IpProto.ah ->
                IF ~Inside(f, o, 2) THEN "X"
                ELSE Chase(b, f, base, next, 4 * (Octet(f, o + 1) + 2), fuel - 1)
          [] OTHER -> "F"

RunChain(b, g, f) ==
    LET base == At(g.linkpl, f) + g.nl
        first == base + (IF b.six THEN 6 ELSE 9)
    IN  IF ~Inside(f, first, 1) THEN "X"
        ELSE Chase(b, f, base, Octet(f, first),
                   IF b.six THEN 40 ELSE gen_loadx_iphdrlen(g, f), ChainFuel)

RECURSIVE Run(_, _, _)
Run(b, g, f) ==
    CASE b.t = "and" -> LET r == Run(b.a, g, f) IN IF r = "T" THEN Run(b.b, g, f) ELSE r
      [] b.t = "or"  -> LET r == Run(b.a, g, f) IN IF r = "F" THEN Run(b.b, g, f) ELSE r
      [] b.t = "not" -> CASE Run(b.a, g, f) = "T" -> "F" [] Run(b.a, g, f) = "F" -> "T"
                          [] OTHER -> "X"
      [] b.t = "uncond" -> b.c
      [] b.t = "chain" -> RunChain(b, g, f)
      [] b.t = "tag" -> True3(Tagged(f) /\ b.n \in {-1, f.layers[2].n})
      [] b.t = "outgoing" -> True3(f.out)
      [] b.t = "acc" -> True3(b.n # 0 /\ b.op = "|")
      [] b.t = "inner" -> True3(At(g.linkhdr, f) # At(g.linkpl, f))
      [] OTHER -> LET w == gen_load_a(g, b, f) IN
                  IF w = <<>> THEN "X" ELSE True3(Compare(b.t, w, b.val))

-----------------------------------------------------------------------------
(* Link-layer types *)

ETHERMTU == 1500
gen_snap(org, type) == gen_bcmp("LLC", 0, SnapOf(org, type))
TooLongForLength == gen_cmp_gt("LINKTYPE", 0, U16(ETHERMTU))

gen_ether_linktype(proto) ==
    CASE proto \in {254, 6, 240} ->
            gen_and(gen_not(TooLongForLength), gen_cmp("LLC", 0, <<proto, proto>>))
      [] proto = Sap.ipx ->
            gen_or(gen_cmp("LINKTYPE", 0, U16(EtherType.ipx)),
               gen_and(gen_not(TooLongForLength),
                   gen_or(gen_snap(<<0, 0, 0>>, EtherType.ipx),
                      gen_or(gen_cmp("LLC", 0, <<Sap.ipx>>), gen_cmp("LLC", 0, <<255, 255>>)))))
      [] proto \in {EtherType.atalk, EtherType.aarp} ->
            gen_or(gen_cmp("LINKTYPE", 0, U16(proto)),
               gen_and(gen_not(TooLongForLength),
                   gen_snap(IF proto = EtherType.atalk THEN <<8, 0, 7>> ELSE <<0, 0, 0>>, proto)))
      [] proto =< ETHERMTU /\ proto \notin {254, 6, 240, Sap.ipx} ->
            gen_and(gen_not(TooLongForLength), gen_cmp("LINKTYPE", 2, <<proto>>))
      [] OTHER -> gen_cmp("LINKTYPE", 0, U16(proto))

Sll802_2 == gen_cmp("LINKTYPE", 0, U16(4))

gen_linux_sll_linktype(g, proto) ==
    CASE proto \in {254, 6, 240} -> gen_and(Sll802_2, gen_cmp("LLC", 0, <<proto, proto>>))
      [] proto = Sap.ipx ->
            gen_or(gen_cmp("LINKTYPE", 0, U16(EtherType.ipx)),
               gen_or(gen_cmp("LINKTYPE", 0, U16(1)),
                  gen_and(Sll802_2, gen_or(gen_cmp("LLC", 0, <<Sap.ipx>>),
                                   gen_snap(<<0, 0, 0>>, EtherType.ipx)))))
      [] proto \in {EtherType.atalk, EtherType.aarp} ->
            gen_or(gen_cmp("LINKTYPE", 0, U16(proto)),
               gen_and(Sll802_2, gen_snap(IF proto = EtherType.atalk THEN <<8, 0, 7>>
                                      ELSE <<0, 0, 0>>, proto)))
      [] proto =< ETHERMTU /\ proto \notin {254, 6, 240, Sap.ipx} ->
            gen_and(Sll802_2, gen_cmp("LINKHDR", g.linkpl.c, <<proto>>))
      [] OTHER -> gen_cmp("LINKTYPE", 0, U16(proto))

gen_llc_linktype(proto) ==
    CASE proto \in {254, 6, 240} -> gen_cmp("LLC", 0, <<proto, proto>>)
      [] proto = EtherType.atalk -> gen_snap(<<8, 0, 7>>, proto)
      [] proto =< ETHERMTU /\ proto \notin {254, 6, 240} -> gen_cmp("LLC", 0, <<proto>>)
      [] OTHER -> gen_cmp("LLC", 6, U16(proto))

ethertype_to_ppptype(proto) ==
    CASE proto = EtherType.ip -> PppType.ip      [] proto = EtherType.ip6 -> PppType.ip6
      [] proto = EtherType.decnet -> PppType.decnet
      [] proto = EtherType.atalk -> PppType.atalk
      [] proto = Sap.iso -> PppType.iso          [] proto = Sap.stp -> PppType.stp
      [] proto = Sap.ipx -> PppType.ipx          [] OTHER -> proto

gen_check_802_11_data_frame == gen_and(gen_not(Jset("LINKHDR", 0, <<4>>)), Jset("LINKHDR", 0, <<8>>))

\* Under labels only the bottom of the stack and the version tell what follows
gen_mpls_linktype(version) ==
    gen_and(gen_mcmp("LINKPL", -2, <<1>>, <<1>>), gen_mcmp("LINKPL", 0, <<version>>, <<240>>))

gen_geneve_ll_check == [t |-> "inner"]
gen_prevlinkhdr_check(g) ==
    CASE g.geneve -> gen_geneve_ll_check
      [] ~g.geneve /\ g.prev = "SUNATM" -> gen_not(gen_cmp("PREVLINKHDR", 4, <<255, 0>>))
      [] OTHER -> None

Arcnet(proto) ==
    CASE proto = EtherType.ip6 -> gen_cmp("LINKTYPE", 0, <<196>>)
      [] proto = EtherType.ip -> gen_or(gen_cmp("LINKTYPE", 0, <<212>>), gen_cmp("LINKTYPE", 0, <<240>>))
      [] proto = EtherType.arp -> gen_or(gen_cmp("LINKTYPE", 0, <<213>>), gen_cmp("LINKTYPE", 0, <<241>>))
      [] proto = EtherType.rarp -> gen_cmp("LINKTYPE", 0, <<214>>)
      [] proto = EtherType.atalk -> gen_cmp("LINKTYPE", 0, <<221>>)
      [] OTHER -> gen_false

\* The address family that begins BSD loopback headers, compared as it is loaded
FamilyTest(g, proto) ==
    LET Ordered(w) == IF g.linktype = "LOOP" \/ g.bpf_pcap.swapped THEN w ELSE Reverse(w) IN
    CASE proto = EtherType.ip -> gen_cmp("LINKHDR", 0, Ordered(U32(2)))
      [] proto = EtherType.ip6 -> gen_cmp("LINKHDR", 0, Ordered(U32(10)))
      [] OTHER -> gen_false
VersionTest(proto) ==
    CASE proto = EtherType.ip -> gen_mcmp("LINKHDR", 0, <<64>>, <<240>>)
      [] proto = EtherType.ip6 -> gen_mcmp("LINKHDR", 0, <<96>>, <<240>>)
      [] OTHER -> gen_false
OnlyType(proto, type) == IF proto = type THEN gen_true ELSE gen_false

PppTypeTest(g, proto) ==
    IF g.linktype = "PPP_BSDOS" /\ proto = EtherType.ip
    THEN gen_or(gen_or(gen_cmp("LINKTYPE", 0, U16(PppType.ip)), gen_cmp("LINKTYPE", 0, U16(PppType.vjc))),
                gen_cmp("LINKTYPE", 0, U16(PppType.vjnc)))
    ELSE gen_cmp("LINKTYPE", 0, U16(ethertype_to_ppptype(proto)))

\* Two kinds of ATM traffic are told apart by the low bits of the first byte
PtLane == 1
PtLlc  == 2
AtmPrototype(n) == gen_ncmp("LINKHDR", 0, <<15>>, "eq", FALSE, <<n>>)

OverMpls(proto) ==
    CASE proto \in {EtherType.ip, PppType.ip} -> gen_mpls_linktype(64)
      [] proto \in {EtherType.ip6, PppType.ip6} -> gen_mpls_linktype(96)
      [] OTHER -> bpf_error

\* The types whose header has a test of its own
LinktypeOf(g, proto) ==
    CASE g.linktype \in EtherDlts ->
            Checked(IF g.geneve THEN None ELSE gen_prevlinkhdr_check(g), gen_ether_linktype(proto))
      [] g.linktype = "C_HDLC" ->
            gen_cmp("LINKTYPE", 0, IF proto = Sap.iso THEN <<254, 254>> ELSE U16(proto))
      [] g.linktype \in WlanDlts -> gen_and(gen_check_802_11_data_frame, gen_llc_linktype(proto))
      [] g.linktype \in {"FDDI", "IEEE802", "ATM_RFC1483", "ATM_CLIP", "IP_OVER_FC"} ->
            gen_llc_linktype(proto)
      [] g.linktype = "SUNATM" -> gen_and(AtmPrototype(PtLlc), gen_llc_linktype(proto))
      [] g.linktype = "LINUX_SLL" -> gen_linux_sll_linktype(g, proto)
      [] g.linktype \in {"SLIP", "SLIP_BSDOS", "RAW"} -> VersionTest(proto)
      [] g.linktype = "IPV4" -> OnlyType(proto, EtherType.ip)
      [] g.linktype = "IPV6" -> OnlyType(proto, EtherType.ip6)
      [] g.linktype \in {"PPP", "PPP_PPPD", "PPP_SERIAL", "PPP_ETHER", "PPP_BSDOS"} ->
            PppTypeTest(g, proto)
      [] g.linktype \in {"NULL", "LOOP", "ENC"} -> FamilyTest(g, proto)
      [] g.linktype \in ArcDlts -> Arcnet(proto)
      [] g.linktype = "LTALK" -> OnlyType(proto, EtherType.atalk)
      [] g.linktype \in Mtp2Dlts \union OpaqueDlts -> bpf_error
      [] OTHER -> gen_cmp("LINKTYPE", 0, U16(proto))

gen_linktype(g, proto) == IF g.labels > 0 THEN OverMpls(proto) ELSE LinktypeOf(g, proto)

-----------------------------------------------------------------------------
(* Hosts, networks and ports *)

\* A test of the source, of the destination, or of both (Q_DEFAULT is Q_OR); the
\* directions that only 802.11 has are refused by some callers and abort others
Directed(dir, src, dst, other) == CASE dir = "src" -> src
                                    [] dir = "dst" -> dst
                                    [] dir = "and" -> gen_and(src, dst)
                                    [] dir \in {"or", "default"} -> gen_or(src, dst)
                                    [] OTHER -> other

gen_hostop(g, q, proto, src_off, dst_off) ==
    LET Side(off) == gen_and(gen_linktype(g, proto), gen_mcmp("LINKPL", off, q.a, q.m))
    IN  Directed(q.dir, Side(src_off), Side(dst_off), abort)

\* An IPv6 address is compared a word at a time, the first word first
gen_hostop6(g, q, proto, src_off, dst_off) ==
    LET Words(off) == gen_mcmp("LINKPL", off, q.a, q.m)
        Side(off) == gen_and(gen_linktype(g, proto), Words(off))
    IN  Directed(q.dir, Side(src_off), Side(dst_off), abort)

\* DECnet: the long and the short header, each with and without a byte of padding
gen_dnhostop(g, q) ==
    LET Header(flags, pad) == IF pad = 1 THEN gen_mcmp("LINKPL", 2, <<129, flags>>, <<255, 7>>)
                              ELSE gen_mcmp("LINKPL", 2, <<flags>>, <<7>>)
        Test(flags, pad, off) == gen_and(Header(flags, pad), gen_cmp("LINKPL", 2 + pad + off, q.a))
        Side(sh, lh) == gen_and(gen_linktype(g, EtherType.decnet),
                            gen_or(Test(2, 0, sh), gen_or(Test(2, 1, sh),
                                gen_or(Test(6, 0, lh), Test(6, 1, lh)))))
    IN  Directed(q.dir, Side(3, 15), Side(1, 7), abort)

gen_host(g, q) ==
    LET ip   == gen_hostop(g, q, EtherType.ip, 12, 16)
        arp  == gen_hostop(g, q, EtherType.arp, 14, 24)
        rarp == gen_hostop(g, q, EtherType.rarp, 14, 24)
    IN  CASE q.q = "none" -> IF g.labels = 0 THEN gen_or(gen_or(ip, arp), rarp) ELSE ip
          [] q.q = "ip" -> ip
          [] q.q = "arp" -> arp
          [] q.q = "rarp" -> rarp
          [] q.q = "decnet" -> gen_dnhostop(g, q)
          [] OTHER -> bpf_error

gen_host6(g, q) == IF q.q \in {"none", "ip6"} THEN gen_hostop6(g, q, EtherType.ip6, 8, 24)
                   ELSE bpf_error

\* An address that is not written to its end is a network
HostNumber(g, q) ==
    IF q.q = "decnet" THEN gen_host(g, q)
    ELSE gen_host(g, [q EXCEPT !.a = @ \o Zeros(4 - Len(@)), !.m = Ones(Len(q.a)) \o Zeros(4 - Len(q.a))])

\* A network is refused when the address has bits outside its mask
HasHostBits(q) == \E i \in DOMAIN q.a : (q.a[i] & q.m[i]) # q.a[i]
gen_mcode(g, q) == IF HasHostBits(q) THEN bpf_error ELSE gen_host(g, q)
gen_mcode6(g, q) ==
    IF HasHostBits(q) \/ (q.op = "host6" /\ q.m # Ones(16)) THEN bpf_error ELSE gen_host6(g, q)

\* A name has addresses of both families; a type without a type field has no ARP
HostName(g, q) ==
    LET untyped == g.off_linktype.c = NoOffset /\ q.q = "none"
        proto4 == IF untyped THEN "ip" ELSE q.q
        proto6 == IF untyped THEN "ip6" ELSE q.q
        usable == SelectSeq(q.as, LAMBDA a : IF Len(a) = 4 THEN proto4 # "ip6" ELSE proto6 # "ip")
        Of(a) == IF Len(a) = 4 THEN gen_host(g, [q EXCEPT !.q = proto4, !.a = a, !.m = Ones(4)])
                 ELSE gen_host6(g, [q EXCEPT !.q = proto6, !.a = a, !.m = Ones(16)])
        Join(b, a) == gen_or(b, Of(a))
    IN  IF usable = <<>> THEN bpf_error ELSE FoldLeft(Join, Of(Head(usable)), Tail(usable))

\* Link-layer addresses
MacTests(src_off, dst_off, q) ==
    Directed(q.dir, gen_bcmp("LINKHDR", src_off, q.a), gen_bcmp("LINKHDR", dst_off, q.a), bpf_error)
gen_ahostop(q) == MacTests(0, 1, q)

FromDS == Jset("LINKHDR", 1, <<2>>)
ToDS   == Jset("LINKHDR", 1, <<1>>)
DataBit == Jset("LINKHDR", 0, <<8>>)
NotControl == gen_not(Jset("LINKHDR", 0, <<4>>))
Addr(off, q) == gen_bcmp("LINKHDR", off, q.a)
NotCtsOrAck ==
    gen_or(gen_not(gen_mcmp("LINKHDR", 0, <<4>>, <<12>>)),
           gen_and(gen_not(gen_mcmp("LINKHDR", 0, <<192>>, <<240>>)),
                   gen_not(gen_mcmp("LINKHDR", 0, <<208>>, <<240>>))))

\* The source of a data frame: where the two DS bits put it
WlanSource(q) ==
    gen_and(NotControl,
        gen_or(gen_and(gen_not(DataBit), Addr(10, q)),
               gen_and(DataBit,
                   gen_or(gen_and(gen_not(FromDS), Addr(10, q)),
                          gen_and(FromDS,
                              gen_or(gen_and(gen_not(ToDS), Addr(16, q)),
                                     gen_and(ToDS, Addr(24, q))))))))
WlanDestination(q) ==
    gen_and(NotControl,
        gen_or(gen_and(gen_not(DataBit), Addr(4, q)),
               gen_and(DataBit, gen_or(gen_and(gen_not(ToDS), Addr(4, q)),
                                       gen_and(ToDS, Addr(16, q))))))

gen_wlanhostop(q) ==
    CASE q.dir \in {"src", "dst", "and", "or", "default"} ->
            Directed(q.dir, WlanSource(q), WlanDestination(q), bpf_error)
      [] q.dir = "ra" -> gen_and(DataBit, Addr(4, q))
      [] q.dir = "ta" -> gen_and(gen_and(DataBit, NotCtsOrAck), Addr(10, q))
      [] q.dir = "addr1" -> Addr(4, q)
      [] q.dir = "addr2" -> gen_and(NotCtsOrAck, Addr(10, q))
      [] q.dir = "addr3" -> gen_and(gen_not(gen_mcmp("LINKHDR", 0, <<4>>, <<12>>)), Addr(16, q))
      [] q.dir = "addr4" -> gen_and(gen_mcmp("LINKHDR", 1, <<3>>, <<3>>), Addr(24, q))

gen_ecode(g, q) ==
    CASE q.q # "link" -> bpf_error
      [] g.linktype \in EtherDlts -> Checked(gen_prevlinkhdr_check(g), MacTests(6, 0, q))
      [] g.linktype = "FDDI" -> MacTests(7, 1, q)
      [] g.linktype = "IEEE802" -> MacTests(8, 2, q)
      [] g.linktype = "IP_OVER_FC" -> MacTests(10, 2, q)
      [] g.linktype \in WlanDlts -> gen_wlanhostop(q)
      [] OTHER -> bpf_error

gen_acode(g, q) == IF g.linktype \in ArcDlts /\ q.q = "link" THEN gen_ahostop(q) ELSE bpf_error
\* A name of an Ethernet address, which may be unknown
EtherName(g, q) == IF q.as = <<>> THEN bpf_error ELSE gen_ecode(g, [q EXCEPT !.a = q.as[1]])

gen_ipfrag == gen_not(Jset("LINKPL", 6, <<31, 255>>))

\* A range is given in either order; one port is the range of itself
Lower(n) == IF n[1] =< n[2] THEN n[1] ELSE n[2]
Upper(n) == IF n[1] =< n[2] THEN n[2] ELSE n[1]
gen_portrangeatom(rel, off, n) ==
    IF n[1] = n[2] THEN gen_cmp(rel, off, U16(n[1]))
    ELSE gen_and(gen_cmp_ge(rel, off, U16(Lower(n))), gen_cmp_le(rel, off, U16(Upper(n))))

gen_portop(rel, protoTest, q) ==
    gen_and(protoTest, Directed(q.dir, gen_portrangeatom(rel, 0, q.r), gen_portrangeatom(rel, 2, q.r),
                                abort))

PortTests4(v, q) == gen_portop("TRAN_IPV4", gen_and(gen_cmp("LINKPL", 9, <<v>>), gen_ipfrag), q)
PortTests6(v, q) == gen_portop("TRAN_IPV6", gen_cmp("LINKPL", 6, <<v>>), q)

gen_port(g, q) ==
    gen_and(gen_linktype(g, EtherType.ip),
            IF q.q # "none" THEN PortTests4(IpProto[q.q], q)
            ELSE gen_or(PortTests4(IpProto.sctp, q),
                        gen_or(PortTests4(IpProto.tcp, q), PortTests4(IpProto.udp, q))))
gen_port6(g, q) ==
    gen_and(gen_linktype(g, EtherType.ip6),
            IF q.q # "none" THEN PortTests6(IpProto[q.q], q)
            ELSE gen_or(PortTests6(IpProto.sctp, q),
                        gen_or(PortTests6(IpProto.tcp, q), PortTests6(IpProto.udp, q))))

\* Ports and ranges of ports, named by number
PortCode(g, q) ==
    IF q.q \notin {"none", "tcp", "udp", "sctp"} \/ q.r[1] > 65535 \/ q.r[2] > 65535
    THEN bpf_error
    ELSE gen_or(gen_port6(g, q), gen_port(g, q))
\* A name is a port of one protocol or of all
PortName(g, q) ==
    IF q.real = "unknown" \/ (q.q # "none" /\ q.real \notin {q.q, "none"}) THEN bpf_error
    ELSE PortCode(g, [q EXCEPT !.q = IF q.q = "none" THEN q.real ELSE q.q])

-----------------------------------------------------------------------------
(* Protocols *)

OverIp(g, v)  == gen_and(gen_linktype(g, EtherType.ip), gen_cmp("LINKPL", 9, <<v>>))
OverIp6(g, v) == gen_and(gen_linktype(g, EtherType.ip6),
                         gen_or(gen_cmp("LINKPL", 6, <<v>>),
                                gen_and(gen_cmp("LINKPL", 6, <<IpProto.frag>>),
                                        gen_cmp("LINKPL", 40, <<v>>))))
OverIso(g, v) ==
    IF g.linktype = "C_HDLC"
    THEN gen_and(gen_linktype(g, 65278), gen_cmp("LINKPL_NOSNAP", 1, <<v>>))
    ELSE gen_and(gen_linktype(g, Sap.iso), gen_cmp("LINKPL_NOSNAP", 0, <<v>>))

\* The type of an IS-IS PDU; several types are tested one after the other
PduType(g, v) == gen_and(OverIso(g, Nlpid.isis), gen_cmp("LINKPL_NOSNAP", 4, <<v>>))
AnyPdu(g, names) ==
    LET Join(b, name) == gen_or(PduType(g, IsisPdu[name]), b) IN
    FoldLeft(Join, PduType(g, IsisPdu[names[1]]), Tail(names))
PdusOf == [l1 |-> <<"l1iih", "ptpiih", "l1lsp", "l1csnp", "l1psnp">>,
           l2 |-> <<"l2iih", "ptpiih", "l2lsp", "l2csnp", "l2psnp">>,
           iih |-> <<"l1iih", "l2iih", "ptpiih">>, lsp |-> <<"l1lsp", "l2lsp">>,
           snp |-> <<"l1csnp", "l2csnp", "l1psnp", "l2psnp">>,
           csnp |-> <<"l1csnp", "l2csnp">>, psnp |-> <<"l1psnp", "l2psnp">>]

gen_proto(g, q) ==
    CASE q.dir # "default" -> bpf_error
      [] q.dir = "default" /\ q.q = "none" -> gen_or(OverIp(g, q.n), OverIp6(g, q.n))
      [] q.dir = "default" /\ q.q = "ip"   -> OverIp(g, q.n)
      [] q.dir = "default" /\ q.q = "ip6"  -> OverIp6(g, q.n)
      [] q.dir = "default" /\ q.q = "iso"  -> OverIso(g, q.n)
      [] q.dir = "default" /\ q.q = "isis" -> PduType(g, q.n)
      [] q.dir = "default" /\ q.q = "link" -> gen_linktype(g, q.n)
      [] OTHER -> bpf_error

gen_proto_abbrev(g, name) ==
    CASE name \in {"sctp", "tcp", "udp", "pim", "ah", "esp"} ->
            gen_or(OverIp6(g, IpProto[name]), OverIp(g, IpProto[name]))
      [] name \in {"icmp", "igmp", "igrp", "vrrp", "carp"} -> OverIp(g, IpProto[name])
      [] name = "icmp6" -> OverIp6(g, IpProto.icmp6)
      [] name \in {"ip", "arp", "rarp", "ip6", "atalk", "aarp", "decnet", "lat", "sca",
                   "mopdl", "moprc"} -> gen_linktype(g, EtherType[name])
      [] name \in {"iso", "stp", "ipx", "netbeui"} -> gen_linktype(g, Sap[name])
      [] name \in DOMAIN Nlpid -> OverIso(g, Nlpid[name])
      [] name \in DOMAIN PdusOf -> AnyPdu(g, PdusOf[name])
      [] OTHER -> bpf_error

Chained(g, six, v) == gen_and(gen_linktype(g, IF six THEN EtherType.ip6 ELSE EtherType.ip),
                              [t |-> "chain", six |-> six, v |-> v])
gen_protochain(g, q) ==
    CASE g.linkpl.var -> bpf_error
      [] ~g.linkpl.var /\ q.q = "none" -> gen_or(Chained(g, FALSE, q.n), Chained(g, TRUE, q.n))
      [] ~g.linkpl.var /\ q.q \in {"ip", "ip6"} -> Chained(g, q.q = "ip6", q.n)
      [] OTHER -> bpf_error

-----------------------------------------------------------------------------
(* Link-layer properties *)

gen_broadcast(g, q) ==
    CASE q.q = "link" /\ g.linktype \in ArcDlts -> gen_ahostop([q EXCEPT !.dir = "dst", !.a = <<0>>])
      [] q.q = "link" /\ g.linktype \notin ArcDlts ->
            gen_ecode(g, [q EXCEPT !.dir = "dst", !.a = Broadcast])
      [] q.q = "ip" /\ q.m # <<>> ->
            gen_and(gen_linktype(g, EtherType.ip),
                               gen_or(gen_mcmp("LINKPL", 16, Zeros(4), q.m),
                                      gen_mcmp("LINKPL", 16, q.m, q.m)))
      [] OTHER -> bpf_error

gen_mac_multicast(off) == Jset("LINKHDR", off, <<1>>)
WlanMulticast ==
    gen_and(NotControl,
        gen_or(gen_and(gen_not(DataBit), gen_mac_multicast(4)),
               gen_and(DataBit, gen_or(gen_and(gen_not(ToDS), gen_mac_multicast(4)),
                                       gen_and(ToDS, gen_mac_multicast(16))))))
gen_multicast(g, q) ==
    CASE q.q = "ip"  -> gen_and(gen_linktype(g, EtherType.ip), gen_cmp_ge("LINKPL", 16, <<224>>))
      [] q.q = "ip6" -> gen_and(gen_linktype(g, EtherType.ip6), gen_cmp("LINKPL", 24, <<255>>))
      [] q.q = "link" /\ g.linktype \in ArcDlts -> gen_ahostop([q EXCEPT !.dir = "dst", !.a = <<0>>])
      [] q.q = "link" /\ g.linktype \in EtherDlts ->
            Checked(gen_prevlinkhdr_check(g), gen_mac_multicast(0))
      [] q.q = "link" /\ g.linktype = "FDDI" -> gen_mac_multicast(1)
      [] q.q = "link" /\ g.linktype \in {"IEEE802", "IP_OVER_FC"} -> gen_mac_multicast(2)
      [] q.q = "link" /\ g.linktype \in WlanDlts -> WlanMulticast
      [] OTHER -> bpf_error

\* The direction: in the header of some types, else beside the packet of a live capture
gen_inbound(g, out) ==
    CASE g.linktype = "SLIP" ->
            (IF out THEN gen_not(gen_cmp("LINKHDR", 0, <<0>>)) ELSE gen_cmp("LINKHDR", 0, <<0>>))
      [] g.linktype = "LINUX_SLL" ->
            (IF out THEN gen_cmp("LINKHDR", 0, U16(4)) ELSE gen_not(gen_cmp("LINKHDR", 0, U16(4))))
      [] g.linktype = "PPP_PPPD" -> gen_cmp("LINKHDR", 0, IF out THEN <<1>> ELSE <<0>>)
      [] g.linktype \notin {"SLIP", "LINUX_SLL", "PPP_PPPD"} /\ ~g.bpf_pcap.file ->
            (IF out THEN [t |-> "outgoing"] ELSE gen_not([t |-> "outgoing"]))
      [] OTHER -> bpf_error

gen_llc(g) ==
    CASE g.linktype = "EN10MB" -> gen_and(gen_not(TooLongForLength),
                                          gen_not(gen_cmp("LLC", 0, <<255, 255>>)))
      [] g.linktype = "SUNATM" -> AtmPrototype(PtLlc)
      [] g.linktype \in {"IEEE802", "FDDI", "ATM_RFC1483"} -> gen_true
      [] g.linktype \in WlanDlts -> gen_check_802_11_data_frame
      [] OTHER -> bpf_error
LlcCode(g, q) ==
    CASE q = "any" -> gen_llc(g)
      [] q = "i" -> gen_and(gen_llc(g), gen_not(Jset("LLC", 2, <<1>>)))
      [] q = "s" -> gen_and(gen_llc(g), gen_mcmp("LLC", 2, <<1>>, <<3>>))
      [] q = "u" -> gen_and(gen_llc(g), gen_mcmp("LLC", 2, <<3>>, <<3>>))
      [] q \in DOMAIN LlcS -> gen_and(gen_llc(g), gen_mcmp("LLC", 2, <<LlcS[q]>>, <<15>>))
      [] q \in DOMAIN LlcU -> gen_and(gen_llc(g), gen_mcmp("LLC", 2, <<LlcU[q]>>, <<239>>))
      [] OTHER -> bpf_error

gen_p80211_type(g, n, mask) == IF g.linktype \in WlanDlts THEN gen_mcmp("LINKHDR", 0, <<n>>, mask)
                               ELSE bpf_error
gen_p80211_fcdir(g, n) == IF g.linktype \in WlanDlts THEN gen_mcmp("LINKHDR", 1, <<n>>, <<3>>)
                          ELSE bpf_error

\* "byte": the two operations on bits work on what the accumulator holds, which is
\* nothing when they are the first test, and forget the byte
gen_byteop(op, idx, val) ==
    CASE op = "eq" -> gen_cmp("LINKHDR", idx, <<val>>)
      [] op = "lt" -> gen_cmp_lt("LINKHDR", idx, <<val>>)
      [] op = "gt" -> gen_cmp_gt("LINKHDR", idx, <<val>>)
      [] OTHER -> [t |-> "acc", op |-> op, n |-> val]

\* libpcap is built without the packet filter of BSD
gen_pf == bpf_error

-----------------------------------------------------------------------------
(* ATM circuits and SS7 *)

Relation(rel) == CASE rel \in {"eq", "ne"} -> "eq" [] rel \in {"gt", "le"} -> "gt" [] OTHER -> "ge"
gen_atmfield_code(g, field, rel, n) ==
    LET reverse == rel \in {"ne", "le", "lt"} IN
    CASE ~is_atm(g) -> bpf_error
      [] is_atm(g) /\ field = "vpi" -> gen_ncmp("LINKHDR", 1, Ones(1), Relation(rel), reverse, <<n>>)
      [] OTHER -> gen_ncmp("LINKHDR", 2, Ones(2), Relation(rel), reverse, U16(n))
InCircuit(g, vci) == gen_and(gen_atmfield_code(g, "vpi", "eq", 0), gen_atmfield_code(g, "vci", "eq", vci))
MsgType(msg) == gen_ncmp("LINKHDR", 9, Ones(1), "eq", FALSE, <<Q2931[msg]>>)
gen_msg_abbrev(msgs) == LET Join(b, m) == gen_or(MsgType(m), b) IN
                        FoldLeft(Join, MsgType(msgs[1]), Tail(msgs))
VciOf == [metac |-> 1, bcc |-> 2, oamf4sc |-> 3, oamf4ec |-> 4, sc |-> 5, ilmic |-> 16]

gen_atmtype_abbrev(g, type) ==
    CASE ~is_atm(g) -> bpf_error
      [] is_atm(g) /\ type \in DOMAIN VciOf -> InCircuit(g, VciOf[type])
      [] OTHER -> AtmPrototype(PtLane)
gen_atmmulti_abbrev(g, type) ==
    CASE ~is_atm(g) -> bpf_error
      [] is_atm(g) /\ type \in {"oam", "oamf4"} ->
            gen_and(gen_atmfield_code(g, "vpi", "eq", 0),
                    gen_or(gen_atmfield_code(g, "vci", "eq", 3), gen_atmfield_code(g, "vci", "eq", 4)))
      [] is_atm(g) /\ type = "connectmsg" ->
            gen_and(gen_atmtype_abbrev(g, "sc"),
                    gen_msg_abbrev(<<"proceed", "setup", "connect", "ack", "release", "done">>))
      [] OTHER -> gen_and(gen_atmtype_abbrev(g, "metac"),
                          gen_msg_abbrev(<<"proceed", "setup", "connect", "release", "done">>))
AfterLane(g) ==
    LET hdr == Const(6) IN
    [PUSH_LINKHDR(g, "EN10MB", hdr) EXCEPT !.off_linktype = Add(hdr, 12), !.linkpl = Add(hdr, 14),
                                           !.nl = 0, !.nosnap = 3]

\* The length of a signal unit tells its kind, on ordinary and on high speed links
SS7At(g, off) == off + (IF g.outertype = "MTP2_WITH_PHDR" THEN 4 ELSE 0)
gen_mtp2type_abbrev(g, type, hsl) ==
    LET Li(jtype, reverse, n) ==
            IF hsl THEN gen_ncmp("PACKET", SS7At(g, 4), <<255, 128>>, jtype, reverse, U16(n * 128))
            ELSE gen_ncmp("PACKET", SS7At(g, 2), <<63>>, jtype, reverse, <<n>>)
    IN  CASE g.linktype \notin Mtp2Dlts -> bpf_error
          [] g.linktype \in Mtp2Dlts /\ type = "fisu" -> Li("eq", FALSE, 0)
          [] g.linktype \in Mtp2Dlts /\ type = "lssu" -> gen_and(Li("gt", FALSE, 0), Li("gt", TRUE, 2))
          [] OTHER -> Li("gt", FALSE, 2)

\* The fields of the routing label, their bits moved to where the message has them
Opc(n) == <<0, (n % 4) * 64, (n \div 4) % 256, n \div 1024>>
Dpc(n) == <<n % 256, n \div 256, 0, 0>>
gen_mtp3field_code(g, field, hsl, n) ==
    LET Off(o) == SS7At(g, o) + (IF hsl THEN 3 ELSE 0) IN
    CASE g.outertype \notin Mtp2Dlts -> bpf_error
      [] g.outertype \in Mtp2Dlts /\ field = "sio" /\ n =< 255 ->
            gen_ncmp("PACKET", Off(3), Ones(1), "eq", FALSE, <<n>>)
      [] g.outertype \in Mtp2Dlts /\ field = "opc" /\ n =< 16383 ->
            gen_ncmp("PACKET", Off(4), <<0, 192, 255, 15>>, "eq", FALSE, Opc(n))
      [] g.outertype \in Mtp2Dlts /\ field = "dpc" /\ n =< 16383 ->
            gen_ncmp("PACKET", Off(4), <<255, 63, 0, 0>>, "eq", FALSE, Dpc(n))
      [] g.outertype \in Mtp2Dlts /\ field = "sls" /\ n =< 15 ->
            gen_ncmp("PACKET", Off(7), <<240>>, "eq", FALSE, <<n * 16>>)
      [] OTHER -> bpf_error

-----------------------------------------------------------------------------
(* Encapsulations: a test, and new offsets for what follows *)

gen_vlan_bpf_extensions(n) == [t |-> "tag", n |-> n]
gen_vlan_no_bpf_extensions(g, n) ==
    LET isVlan == gen_or(gen_linktype(g, EtherType.vlan), gen_linktype(g, 34984)) IN
    IF n >= 0 THEN gen_and(isVlan, gen_mcmp("LINKPL", 0, U16(n), <<15, 255>>)) ELSE isVlan

\* Only the outermost tag can be beside the packet, and only in a live capture
TagBeside(g) == g.linktype \in EtherDlts /\ g.vlans = 0 /\ ~g.linkhdr.var
                /\ g.linkhdr.c = g.outer.c /\ ~g.bpf_pcap.file
gen_vlan(g, n) ==
    CASE g.labels > 0 \/ g.linktype \notin EtherDlts \union WlanDlts -> bpf_error
      [] g.labels = 0 /\ TagBeside(g) -> gen_vlan_bpf_extensions(n)
      [] OTHER -> gen_vlan_no_bpf_extensions(g, n)
AfterVlan(g) ==
    IF TagBeside(g) THEN [g EXCEPT !.vlans = @ + 1]
    ELSE [g EXCEPT !.vlans = @ + 1, !.linkpl = Add(@, 4), !.off_linktype = Add(@, 4)]

gen_mpls(g, n) ==
    LET isMpls == CASE g.labels > 0 -> gen_mcmp("PREVMPLSHDR", 2, <<0>>, <<1>>)
                    [] g.labels = 0 /\ g.linktype \in {"C_HDLC"} \union EtherDlts ->
                          gen_linktype(g, EtherType.mpls)
                    [] g.labels = 0 /\ g.linktype = "PPP" -> gen_linktype(g, PppType.mpls)
                    [] OTHER -> bpf_error
    IN  IF n >= 0
        THEN gen_and(isMpls, gen_mcmp("LINKPL", 0, U16(n \div 16) \o <<(n % 16) * 16, 0>>,
                                      <<255, 255, 240, 0>>))
        ELSE isMpls
AfterMpls(g) == [g EXCEPT !.nosnap = @ + 4, !.nl = @ + 4, !.labels = @ + 1]

gen_pppoed(g) == gen_linktype(g, EtherType.pppoed)
gen_pppoes(g, n) ==
    IF n >= 0 THEN gen_and(gen_linktype(g, EtherType.pppoes),
                           gen_mcmp("LINKPL", 0, <<0, 0>> \o U16(n), <<0, 0, 255, 255>>))
    ELSE gen_linktype(g, EtherType.pppoes)
\* Changed form of AfterPppoes: a PPP header with address and control
AfterPppoesFramed(g) ==
    LET hdr == Add(g.linkpl, g.nl + 6) IN
    [PUSH_LINKHDR(g, "PPP", hdr) EXCEPT !.off_linktype = Add(hdr, 2), !.linkpl = Add(hdr, 4),
                                        !.nl = 0, !.nosnap = 0]
AfterPppoes(g) ==
    LET hdr == Add(g.linkpl, g.nl + 6) IN
    [PUSH_LINKHDR(g, "PPP", hdr) EXCEPT !.off_linktype = hdr, !.linkpl = Add(hdr, 2),
                                        !.nl = 0, !.nosnap = 0]

GeneveHeader(rel, n) ==
    LET version == gen_mcmp(rel, 8, <<0>>, <<192>>) IN
    IF n >= 0 THEN gen_and(version, gen_mcmp(rel, 12, <<0>> \o U16(n) \o <<0>>, <<255, 255, 255, 0>>))
    ELSE version
ToGenevePort == [q |-> "udp", dir |-> "dst", r |-> <<GenevePort, GenevePort>>]
gen_geneve(g, n) ==
    gen_or(gen_and(gen_port(g, ToGenevePort), GeneveHeader("TRAN_IPV4", n)),
           gen_and(gen_port6(g, ToGenevePort), GeneveHeader("TRAN_IPV6", n)))

\* The code of gen_geneve_offsets: registers for the link-layer header, the type
\* and the payload inside, where the test before it has let the frame through
GeneveAt(g, f) ==
    LET o == At(g.linkpl, f) + g.nl
        v6 == Inside(f, o, 1) /\ Octet(f, o) \div 16 = 6
    IN  o + 8 + (IF v6 THEN 40 ELSE gen_loadx_iphdrlen(g, f))
InnerHeaders(f, at) ==
    LET inner == at + 8 + 4 * (Octet(f, at) & 63)
        ether == Octet(f, at + 2) * 256 + Octet(f, at + 3) = EtherType.teb
    IN  [linkhdr |-> inner,
         linktype |-> IF ether THEN inner + 12 ELSE at + 2,
         linkpl |-> IF ether THEN inner + 14 ELSE inner]
GeneveRegisters(g, n, ps) ==
    LET Ok(f) == Run(gen_geneve(g, n), g, f) = "T" /\ Inside(f, GeneveAt(g, f), 8) IN
    [i \in DOMAIN ps |-> IF Ok(ps[i]) THEN InnerHeaders(ps[i], GeneveAt(g, ps[i]))
                         ELSE [linkhdr |-> 0, linktype |-> 0, linkpl |-> 0]]
gen_geneve_offsets(g, regs) ==
    [PUSH_LINKHDR(g, "EN10MB", Var([i \in DOMAIN regs |-> regs[i].linkhdr])) EXCEPT
              !.geneve = TRUE, !.nl = 0,
              !.off_linktype = Var([i \in DOMAIN regs |-> regs[i].linktype]),
              !.linkpl = Var([i \in DOMAIN regs |-> regs[i].linkpl])]

-----------------------------------------------------------------------------
(* The parser's rules *)

\* The block of a primitive
Code(g, q) ==
    CASE q.op = "proto" -> gen_proto_abbrev(g, q.q)
      [] q.op \in {"host", "dnhost"} -> HostNumber(g, q)
      [] q.op = "net"   -> gen_mcode(g, q)
      [] q.op \in {"host6", "net6"} -> gen_mcode6(g, q)
      [] q.op = "hostname" -> HostName(g, q)
      [] q.op = "ehost" -> gen_ecode(g, q)
      [] q.op = "ename" -> EtherName(g, q)
      [] q.op = "ahost" -> gen_acode(g, q)
      [] q.op = "port"  -> PortCode(g, q)
      [] q.op = "portname" -> PortName(g, q)
      [] q.op = "byte"  -> gen_byteop(q.dir, q.r[1], q.n)
      [] q.op = "pf"    -> gen_pf
      [] q.op = "atmfield" -> gen_atmfield_code(g, q.q, q.dir, q.n)
      [] q.op = "atmtype" -> (IF q.q \in DOMAIN VciOf \union {"lane"} THEN gen_atmtype_abbrev(g, q.q)
                              ELSE gen_atmmulti_abbrev(g, q.q))
      [] q.op = "mtp2type" -> gen_mtp2type_abbrev(g, q.q, q.dir = "hsl")
      [] q.op = "mtp3" -> gen_mtp3field_code(g, q.q, q.dir = "hsl", q.n)
      [] q.op = "ipproto" -> gen_proto(g, q)
      [] q.op = "protochain" -> gen_protochain(g, q)
      [] q.op = "broadcast" -> gen_broadcast(g, q)
      [] q.op = "multicast" -> gen_multicast(g, q)
      [] q.op = "inbound" -> gen_inbound(g, q.dir = "out")
      [] q.op = "llc" -> LlcCode(g, q.q)
      [] q.op = "wlantype" -> gen_p80211_type(g, q.n, <<12>>)
      [] q.op = "wlansub" -> gen_p80211_type(g, q.n, <<252>>)
      [] q.op = "fcdir" -> gen_p80211_fcdir(g, q.n)
      [] q.op = "vlan" -> gen_vlan(g, q.n)
      [] q.op = "mpls" -> gen_mpls(g, q.n)
      [] q.op = "pppoed" -> gen_pppoed(g)
      [] q.op = "pppoes" -> gen_pppoes(g, q.n)
      [] q.op = "geneve" -> gen_geneve(g, q.n)

\* The offsets after it
Offsets(g, q) ==
    CASE q.op = "vlan" -> {AfterVlan(g)}
      [] q.op = "mpls" -> {AfterMpls(g)}
      [] q.op = "pppoes" -> {AfterPppoes(g)}
      [] q.op = "atmtype" /\ q.q = "lane" -> {AfterLane(g)}
      [] q.op = "geneve" -> {gen_geneve_offsets(g, regs) : regs \in {GeneveRegisters(g, q.n, packets)}}
      [] OTHER -> {g}

\* The registers of a variable outermost header are those of the header that is
\* innermost when the program is finished: not modelled for new link headers
CanPush(g, q) == q.op \in {"pppoes", "geneve"} => ~g.outer.var /\ g.outertype \notin WlanDlts

Idle == /\ phase' = "idle" /\ stack' = <<>> /\ terms' = 0 /\ ctx' = <<>>
        /\ packets' = <<>>
        /\ UNCHANGED <<capture, dlt, cg, compiles>>

Init == /\ phase = "idle" /\ capture \in DOMAIN Captures /\ dlt \in Dlts(capture)
        /\ cg = init_linktype(dlt, <<>>, Handle)
        /\ packets = <<>> /\ stack = <<>> /\ ctx = <<>> /\ terms = 0 /\ compiles = 0

\* Changed form of PcapCompile: the depths of the last expression are kept
PcapCompileKeepsDepths(d) ==
    /\ phase = "idle" /\ compiles < Captures[capture].compiles
    /\ phase' = "parsing" /\ dlt' = d /\ compiles' = compiles + 1
    /\ packets' = Captured(d)
    /\ cg' = [init_linktype(d, packets', Handle) EXCEPT !.labels = cg.labels, !.vlans = cg.vlans]
    /\ stack' = <<>> /\ terms' = 0 /\ UNCHANGED capture
    /\ ctx' = [i \in DOMAIN packets' |-> Outer(packets'[i])]

PcapCompile(d) ==
    /\ phase = "idle" /\ compiles < Captures[capture].compiles
    /\ phase' = "parsing" /\ dlt' = d /\ compiles' = compiles + 1
    /\ packets' = Captured(d)
    /\ cg' = init_linktype(d, packets', Handle)
    /\ stack' = <<>> /\ terms' = 0 /\ UNCHANGED capture
    /\ ctx' = [i \in DOMAIN packets' |-> Outer(packets'[i])]

\* The bit operations of "byte" are modelled where they begin the program
CanParse(q) == /\ phase = "parsing" /\ terms < Captures[capture].terms
               /\ CanPush(cg, q)
               /\ q.op = "byte" /\ q.dir \in {"&", "|"} => terms = 0

Block(b, q) == [code |-> [i \in DOMAIN packets |-> Run(b, cg, packets[i])],
                mean |-> [i \in DOMAIN packets |-> Meaning(packets[i], ctx[i], q)],
                regs |-> q.op = "geneve"]

\* bpf_error leaves the statics as they are
Error(b) == Refused(b) /\ Idle

\* Some generators call abort() for a direction they do not know
Abort(b) == /\ ~Refused(b) /\ Meets(b, "abort")
            /\ phase' = "aborted" /\ stack' = <<>> /\ ctx' = <<>> /\ packets' = <<>>
            /\ UNCHANGED <<capture, dlt, cg, terms, compiles>>

Push(b, q) ==
    /\ ~Refused(b) /\ ~Meets(b, "abort")
    /\ stack' = Append(stack, Block(b, q))
    /\ cg' \in Offsets(cg, q)
    /\ ctx' = [i \in DOMAIN packets |-> Shift(packets[i], ctx[i], q)]
    /\ terms' = terms + 1
    /\ UNCHANGED <<phase, capture, dlt, packets, compiles>>
Primitive(q) == CanParse(q) /\ \E b \in {Code(cg, q)} : Error(b) \/ Abort(b) \/ Push(b, q)

And3(a, b) == CASE a = "F" \/ b = "F" -> "F" [] a = "T" /\ b = "T" -> "T" [] OTHER -> "U"
Or3(a, b)  == CASE a = "T" \/ b = "T" -> "T" [] a = "F" /\ b = "F" -> "F" [] OTHER -> "U"
Not3(a)    == CASE a = "T" -> "F" [] a = "F" -> "T" [] OTHER -> a

Below == stack[Len(stack) - 1]
Top   == stack[Len(stack)]

\* Jumps decide whether Top's tests are run: when they are not, neither is the
\* code of a geneve among them, and nothing is claimed of what follows
Merge(through, Mean(_, _)) ==
    /\ phase = "parsing" /\ Len(stack) >= 2
    /\ LET fs == DOMAIN packets
           both == [code |-> [f \in fs |-> IF Below.code[f] = through THEN Top.code[f] ELSE Below.code[f]],
                    mean |-> [f \in fs |-> Mean(Below.mean[f], Top.mean[f])],
                    regs |-> Below.regs \/ Top.regs]
       IN  /\ stack' = Append(SubSeq(stack, 1, Len(stack) - 2), both)
           /\ ctx' = [f \in fs |-> IF Top.regs /\ Below.code[f] # through THEN 0 ELSE ctx[f]]
    /\ UNCHANGED <<phase, capture, dlt, packets, cg, terms, compiles>>

GenAnd == Merge("T", And3)
GenOr  == Merge("F", Or3)

GenNot == /\ phase = "parsing" /\ stack # <<>>
          /\ stack' = [stack EXCEPT
                ![Len(stack)].code = [f \in DOMAIN packets |-> Not3(Top.code[f])],
                ![Len(stack)].mean = [f \in DOMAIN packets |-> Not3(Top.mean[f])]]
          /\ UNCHANGED <<phase, capture, dlt, packets, cg, ctx, terms, compiles>>

FinishParse == phase = "parsing" /\ Len(stack) = 1 /\ Idle

Next == \/ \E d \in Dlts(capture) : PcapCompile(d)
        \/ \E q \in Captures[capture].primitives : Primitive(q)
        \/ GenAnd \/ GenOr \/ GenNot
        \/ FinishParse

Spec == Init /\ [][Next]_vars

-----------------------------------------------------------------------------
(* Properties *)

\* The kinds of the variables: the offsets are numbers, and every block says
\* of every frame of the handle what its tests answer (gencode.c:169, 842-936).
TypeOK ==
    /\ phase \in {"idle", "parsing", "aborted"} /\ capture \in DOMAIN Captures /\ dlt \in Dlts(capture)
    /\ terms \in 0..Captures[capture].terms /\ compiles \in 0..Captures[capture].compiles
    /\ cg.nl \in Int /\ cg.labels \in 0..terms /\ cg.vlans \in 0..terms
    /\ \A j \in 1..Len(stack) : /\ stack[j].code \in [DOMAIN packets -> {"T", "F", "X"}]
                                /\ stack[j].mean \in [DOMAIN packets -> {"T", "F", "U"}]

\* The tests that gencode.c generates accept a frame exactly when the language
\* says the expression is true of it, for the primitives and frames of Captures:
\* whichever of their encapsulations the expression has named before, whichever
\* primitive came from an earlier compile or was refused, and without a load beyond
\* a packet that is complete. It is not so, and Captures leave it out (the
\* last instances of MCFilterPrimitives), for geneve after mpls, IP on SLIP, what lies
\* behind radiotap padding, ra and ta of control frames, lane with a vpi, vpi with !=,
\* byte with &, and protochain past an authentication header.
DocumentedMeaning ==
    \A j \in 1..Len(stack) : \A f \in DOMAIN packets :
        stack[j].mean[f] # "U" => stack[j].code[f] = stack[j].mean[f]

\* pcap_compile returns: no expression ends the process (pcap_compile.3pcap.in:60).
NeverAborts == phase # "aborted"

\* The statics follow the packet: while an expression is parsed, the offset of
\* the network layer is that of the header after the ones the expression has
\* named, in every frame that has them, and the offset of the link-layer header
\* is that of the innermost one (gencode.c:842, 932, PUSH_LINKHDR). Radiotap padding
\* and geneve after mpls are in no capture (PadCase, StackCase).
OffsetsFollowHeaders ==
    \A n \in DOMAIN ctx :
        LET f == packets[n]
            i == ctx[n]
            link == LinkAt(f, i)
        IN  (i # 0 /\ Payload(f, i).k \notin {"end", "eth", "sig"} /\ Payload(f, i).enc = "ether2"
             /\ ~NoPayloadClaim(f, i)) =>
                /\ At(cg.linkpl, f) + cg.nl = End(f, i)
                /\ (f.layers[link].k # "pppoes" /\ f.layers[i].k # "geneve") =>
                        At(cg.linkhdr, f) = LinkStart(f, i)
=============================================================================
