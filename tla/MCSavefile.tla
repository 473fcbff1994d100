----------------------------- MODULE MCSavefile -----------------------------
(* Instances of Savefile: bytes of two bits.                               *)
EXTENDS Savefile

P(frac, len, data) == [frac |-> frac, len |-> len, data |-> data]

(* A packet of a byte, and one longer than the snapshot length.            *)
MCPackets == {P(1, 2, <<1>>), P(2, 3, <<2, 3, 1>>)}

F(order, magic, v, snaplen, linktype) ==
    [order |-> order, magic |-> magic, major |-> v[1], minor |-> v[2], reversed |-> v[3],
     snaplen |-> snaplen, linktype |-> linktype,
     packets |-> <<P(3, 2, <<1, 2>>), P(1, 3, <<3, 2, 1>>), P(2, 4, <<>>)>>]

(* The versions told apart: the lengths in either order or in an open one, *)
(* DG/UX, a later and an archaic version.                                  *)
Versions == {<<2, 2, TRUE>>, <<2, 3, TRUE>>, <<2, 3, FALSE>>, <<2, 4, FALSE>>,
             <<DGUX, 0, TRUE>>, <<3, 0, FALSE>>, <<1, 4, FALSE>>}

(* Both orders, all magic numbers and versions, and the link types.        *)
AllFiles == {F(order, magic, v, snaplen, linktype) :
              order \in {"little", "big"}, magic \in Magics, v \in Versions,
              snaplen \in {0, 2}, linktype \in {DLT_EN10MB, DLT_USB_LINUX}}

(* A patched file of an Ethernet without a snapshot length is left out:    *)
(* see the README.                                                         *)
MCFiles == {f \in AllFiles :
              ~(f.magic = KUZNETZOV /\ f.snaplen = 0 /\ f.linktype = DLT_EN10MB)}

SHB(order, major) == [type |-> "SHB", ok |-> TRUE, order |-> order, major |-> major]
IDB(opts) == [type |-> "IDB", ok |-> TRUE, linktype |-> 1, snaplen |-> 2, opts |-> opts]
Opt(code, v) == [code |-> code, ok |-> TRUE, binary |-> FALSE, v |-> v]
Pkt(type, iface, t, data) ==
    [type |-> type, ok |-> TRUE, iface |-> iface, t |-> t, caplen |-> Len(data), len |-> 3,
     data |-> data]

First == <<SHB("big", 1)>>
NgBlocks == {SHB("big", 1), IDB(<<>>), IDB(<<Opt("tsresol", 3), Opt("tsoffset", 2)>>),
             Pkt("EPB", 0, 14, <<1>>), Pkt("EPB", 1, 14, <<2, 3, 1>>), Pkt("SPB", 0, 0, <<1, 2>>)}

(* Blocks that end the reading, or are passed over.                        *)
Odd == {SHB("little", 1), SHB("big", 2), IDB(<<Opt("tsresol", 1), Opt("tsresol", 1)>>),
        [IDB(<<>>) EXCEPT !.snaplen = 1], [type |-> "other", ok |-> TRUE],
        [type |-> "other", ok |-> FALSE], IDB(<<Opt("end", 0), Opt("tsresol", 1)>>),
        IDB(<<[Opt("tsresol", 2) EXCEPT !.binary = TRUE], Opt("other", 0)>>),
        IDB(<<[Opt("tsoffset", 2) EXCEPT !.ok = FALSE]>>), Pkt("PB", 0, 5, <<1>>),
        [Pkt("PB", 0, 5, <<1>>) EXCEPT !.caplen = 2]}

MCNgFiles ==
    {First \o s : s \in UNION {[1..n -> NgBlocks] : n \in 0..4}}
    \cup {First \o <<a, b, c>> : a \in NgBlocks \cup Odd, b \in Odd, c \in NgBlocks}
=============================================================================
