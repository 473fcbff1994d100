------------------------------ MODULE Savefile ------------------------------
(***************************************************************************)
(* Savefiles: PcapDumpOpen, PcapDump, PcapDumpFlush and PcapDumpClose of   *)
(* jxnet.c write one through sf-pcap.c, and PcapOpenOffline and the loops  *)
(* read one through savefile.c, sf-pcap.c and sf-pcap-ng.c.                *)
(*                                                                         *)
(* A file in the pcap format is a sequence of bytes: it can be cut         *)
(* anywhere, and a reader may meet it while the dumper is still writing.   *)
(* A byte is a digit of Base and a field two bytes in the order of the     *)
(* writing machine; what is left of the headers is the fields that decide  *)
(* something.  A file in the pcap-ng format is a sequence of blocks.       *)
(*                                                                         *)
(* The stdio buffer, the disk and the end of the process are the           *)
(* environment: the bytes in the buffer are lost with the process, and the *)
(* ones that do not fit on the disk are lost for good.                     *)
(***************************************************************************)
EXTENDS Integers, Sequences, SequencesExt

CONSTANTS
    Base,           \* 256 in the code
    BufSize,        \* the bytes of the stdio buffer
    DiskSize,       \* the bytes that fit on the disk
    MaximumSnaplen, \* MAXIMUM_SNAPLEN
    DumpSnaplen,    \* the snapshot of the handle given to PcapDumpOpen
    DumpLinktype,   \* and its link type
    Packets,        \* the packets dumped: [frac, len, data]
    MaxPackets,     \* bound: how many are dumped
    Files,          \* files that other programs wrote: [order, magic, major, minor, snaplen,
                    \* linktype, packets]
    NgFiles,        \* the same in pcap-ng: sequences of blocks
    Ten,            \* 10 in the code: the base of resolutions
    UintSize        \* 2^32 in the code

ASSUME SavefileAssumption ==
    /\ Base \in Nat /\ Base >= 4
    /\ BufSize \in Nat \ {0} /\ DiskSize \in Nat /\ MaximumSnaplen \in Nat \ {0, 1}
    /\ DumpSnaplen \in Nat /\ MaxPackets \in Nat
    /\ Ten \in Nat /\ Ten > 1 /\ UintSize \in Nat /\ UintSize > 1

(* What a byte and a field of two bytes can hold, and a packet in terms of *)
(* both.                                                                   *)
Byte == 0..(Base - 1)
FieldValue == 0..(Base * Base - 1)
Packet == [frac : FieldValue, len : FieldValue, data : Seq(Byte)]

(* What is dumped has fields that fit.                                     *)
ASSUME PacketsAssumption ==
    /\ Packets \subseteq Packet
    /\ \A p \in Packets : Len(p.data) \in FieldValue
    /\ DumpSnaplen \in FieldValue /\ DumpLinktype \in FieldValue

VARIABLES
    disk,       \* the bytes of the file
    ng,         \* the blocks of the file, when it is one of NgFiles
    content,    \* history: the packets that its writer put into the file
    file,       \* history: what the writer said of it, and whether it finished it
    dumper,     \* "none", "open", "half" between the two fwrite, "closed", "gone"
    buf,        \* what the dumper's FILE holds back
    failed,     \* history: a write to the disk has failed
    synced,     \* history: how many packets PcapDumpFlush made safe; -1 before any flush
    reader,     \* the handle of PcapOpenOffline
    got         \* the packets its callback was given

vars == <<disk, ng, content, file, dumper, buf, failed, synced, reader, got>>
Written == <<disk, ng, content, file, dumper, buf, failed, synced>>

-----------------------------------------------------------------------------
(* Bytes.                                                                  *)

Host == "little"
Field(v, order) == IF order = "little" THEN <<v % Base, v \div Base>>
                                       ELSE <<v \div Base, v % Base>>
(* A field of the file as the reading machine sees it.                     *)
FieldAt(i) == disk[i] + Base * disk[i + 1]
SWAP(v) == (v % Base) * Base + v \div Base

TCPDUMP == 1 * Base + 2
NSEC == 1 * Base + 3
KUZNETZOV == 2 * Base + 3
Magics == {TCPDUMP, NSEC, KUZNETZOV}

(* pcap_file_header, and the versions that are told apart.                 *)
FileHeader(order, magic, major, minor, snaplen, linktype) ==
    Field(magic, order) \o Field(major, order) \o Field(minor, order)
        \o Field(snaplen, order) \o Field(linktype, order)
FileHeaderSize == 10
PCAP_VERSION_MAJOR == 2
PCAP_VERSION_MINOR == 4
DGUX == Base + 1    \* 543 in the code: DG/UX tcpdump

DLT_EN10MB == 1
DLT_USB_LINUX == 2  \* 189 in the code, for all whose packets begin with a pseudo-header

(* pcap_sf_pkthdr; the patched one has a field more.                       *)
RecordHeader(order, frac, caplen, len) ==
    Field(frac, order) \o Field(caplen, order) \o Field(len, order)
HeaderSize(magic) == IF magic = KUZNETZOV THEN 8 ELSE 6
PatchedPad == 1     \* 14 in the code

(* swap_pseudo_headers of pcap-common.c: the pseudo-header, here a field,  *)
(* is in the order of the machine that saved the packet.                   *)
swap_pseudo_headers(linktype, data) ==
    IF linktype = DLT_USB_LINUX /\ Len(data) >= 2
    THEN <<data[2], data[1]>> \o SubSeq(data, 3, Len(data))
    ELSE data

(* How other programs wrote a packet: with the two lengths the wrong way   *)
(* round before version 2.3, on DG/UX and, some of them, in 2.3.           *)
ForeignRecord(f, p) ==
    LET cap == Len(p.data)
        h == IF f.reversed THEN RecordHeader(f.order, p.frac, p.len, cap)
                           ELSE RecordHeader(f.order, p.frac, cap, p.len)
        pad == IF f.magic = KUZNETZOV THEN Field(0, f.order) ELSE <<>>
        data == IF f.order = Host THEN p.data ELSE swap_pseudo_headers(f.linktype, p.data)
    IN  h \o pad \o data
ForeignFile(f) ==
    FileHeader(f.order, f.magic, f.major, f.minor, f.snaplen, f.linktype)
        \o FlattenSeq([i \in DOMAIN f.packets |-> ForeignRecord(f, f.packets[i])])

(* What other programs wrote: the lengths in the order that the version    *)
(* says, where 2.3 leaves it open no more bytes than the packet had; in a  *)
(* patched file of an Ethernet a snapshot length (see the README); and     *)
(* pseudo-headers that are not cut.                                        *)
ASSUME FilesAssumption ==
    \A f \in Files :
        /\ f.order \in {"little", "big"} /\ f.magic \in Magics
        /\ f.major \in FieldValue /\ f.minor \in FieldValue /\ f.snaplen \in FieldValue
        /\ f.linktype \in FieldValue /\ f.reversed \in BOOLEAN
        /\ f.major = DGUX \/ (f.major = 2 /\ f.minor < 3) => f.reversed
        /\ (f.major > 2 /\ f.major # DGUX) \/ (f.major = 2 /\ f.minor > 3) => ~f.reversed
        /\ f.magic = KUZNETZOV /\ f.linktype = DLT_EN10MB => f.snaplen # 0
        /\ f.order # Host /\ f.linktype = DLT_USB_LINUX => f.snaplen # 1
        /\ f.packets \in Seq(Packet)
        /\ \A i \in DOMAIN f.packets :
              /\ Len(f.packets[i].data) \in FieldValue
              /\ f.major = 2 /\ f.minor = 3 => Len(f.packets[i].data) =< f.packets[i].len
              /\ f.linktype = DLT_USB_LINUX => Len(f.packets[i].data) # 1

(* A packet block names its interface by a number.                         *)
ASSUME NgFilesAssumption ==
    \A f \in NgFiles :
        /\ Len(f) \in Nat
        /\ \A i \in 1..Len(f) : f[i].type \in {"EPB", "PB"} => f[i].iface \in Nat

-----------------------------------------------------------------------------
(* The dumper.                                                             *)

(* Bytes leave the buffer in whole buffers; what the disk has no room for  *)
(* is dropped, and only ferror would tell.                                 *)
ToDisk(bytes) ==
    LET room == DiskSize - Len(disk)
    IN  /\ disk' = disk \o SubSeq(bytes, 1, IF Len(bytes) < room THEN Len(bytes) ELSE room)
        /\ failed' = (failed \/ Len(bytes) > room)

fwrite(bytes) ==
    LET all == buf \o bytes
        n == (Len(all) \div BufSize) * BufSize
    IN  /\ ToDisk(SubSeq(all, 1, n))
        /\ buf' = SubSeq(all, n + 1, Len(all))

(* pcap_dump_open: fopen(fname, "w") and sf_write_header.                  *)
PcapDumpOpen ==
    LET header == FileHeader(Host, TCPDUMP, PCAP_VERSION_MAJOR, PCAP_VERSION_MINOR,
                             DumpSnaplen, DumpLinktype)
        n == (Len(header) \div BufSize) * BufSize
        fits == IF n < DiskSize THEN n ELSE DiskSize
    IN  /\ dumper = "none"
        /\ reader.st = "none"
        /\ disk' = SubSeq(header, 1, fits)
        /\ failed' = (n > DiskSize)
        /\ buf' = SubSeq(header, n + 1, Len(header))
        /\ ng' = <<>> /\ content' = <<>> /\ synced' = -1
        /\ file' = [magic |-> TCPDUMP, snaplen |-> DumpSnaplen, linktype |-> DumpLinktype,
                    whole |-> FALSE]
        \* The header that does not reach the disk is noticed here, and only here.
        /\ dumper' = IF n > DiskSize THEN "gone" ELSE "open"
        /\ UNCHANGED <<reader, got>>

(* pcap_dump, which is called with whatever header and buffer the Java     *)
(* program gives: first the header of the packet.                          *)
PcapDump ==
    \E p \in Packets :
        /\ dumper = "open"
        /\ Len(content) < MaxPackets
        /\ dumper' = "half"
        /\ content' = Append(content, p)
        /\ fwrite(RecordHeader(Host, p.frac, Len(p.data), p.len))
        /\ UNCHANGED <<ng, file, synced, reader, got>>

(* Then its bytes.                                                         *)
PcapDumpData ==
    /\ dumper = "half"
    /\ dumper' = "open"
    /\ fwrite(Last(content).data)
    /\ UNCHANGED <<ng, content, file, synced, reader, got>>

(* Mutant of PcapDumpFlush: no fflush before the return.                   *)
PcapDumpFlushForgets ==
    /\ dumper = "open"
    /\ synced' = Len(content)
    /\ UNCHANGED <<disk, failed, buf, dumper, ng, content, file, reader, got>>

(* pcap_dump_flush: fflush, whose error is the caller's.                   *)
PcapDumpFlush ==
    /\ dumper = "open"
    /\ ToDisk(buf)
    /\ buf' = <<>>
    /\ synced' = IF Len(buf) > DiskSize - Len(disk) THEN synced ELSE Len(content)
    /\ UNCHANGED <<dumper, ng, content, file, reader, got>>

(* Mutant of PcapDumpClose: the buffer is freed without being written.     *)
PcapDumpCloseDrops ==
    /\ dumper = "open"
    /\ dumper' = "closed"
    /\ file' = [file EXCEPT !.whole = TRUE]
    /\ buf' = <<>>
    /\ UNCHANGED <<disk, failed, ng, content, synced, reader, got>>

(* pcap_dump_close: fclose writes what is left; its result is not used.    *)
PcapDumpClose ==
    /\ dumper = "open"
    /\ dumper' = "closed"
    /\ ToDisk(buf)
    /\ buf' = <<>>
    /\ file' = [file EXCEPT !.whole = ~failed']
    /\ UNCHANGED <<ng, content, synced, reader, got>>

(* The process ends without PcapDumpClose: killed, or crashed.             *)
(* A reader of the file is another process, or a later one.                *)
Crash ==
    /\ dumper \in {"open", "half"}
    /\ dumper' = "gone"
    /\ buf' = <<>>
    /\ UNCHANGED <<disk, failed, ng, content, file, synced, reader, got>>

-----------------------------------------------------------------------------
(* PcapOpenOffline.                                                        *)

(* erred is history: a read of a pcap file has failed.                     *)
Closed == [st |-> "none", pos |-> 0, swapped |-> FALSE, magic |-> 0, lengths |-> "not",
           snapshot |-> 0, linktype |-> 0, ifaces |-> <<>>, erred |-> FALSE,
           whole |-> FALSE, synced |-> -1]

(* What the reader may count on: the state of the file when it was opened. *)
Opened == [Closed EXCEPT !.whole = file.whole, !.synced = IF failed THEN -1 ELSE synced]

(* linktype_to_dlt: most types have one number, LINKTYPE_RAW has two.      *)
linktype_to_dlt(l) == IF l = 101 THEN 12 ELSE l

(* Which of the two lengths comes first, by the version.                   *)
lengths_swapped(major, minor) ==
    CASE major = DGUX \/ (major = 2 /\ minor < 3) -> "swapped"
      [] major = 2 /\ minor = 3 -> "maybe"
      [] OTHER -> "not"

(* pcap_check_header: the magic in either order, the rest of the header,   *)
(* a version that is not archaic, and what follows from them.              *)
pcap_check_header ==
    LET magic == FieldAt(1)
        swapped == magic \notin Magics
        At(i) == IF swapped THEN SWAP(FieldAt(i)) ELSE FieldAt(i)
        dlt == linktype_to_dlt(At(9))
        cooked == At(1) = KUZNETZOV /\ dlt = DLT_EN10MB
    IN  IF \/ Len(disk) < FileHeaderSize \/ {magic, SWAP(magic)} \cap Magics = {}
           \/ At(3) < PCAP_VERSION_MAJOR
        THEN [Opened EXCEPT !.st = "refused"]
        ELSE [Opened EXCEPT
                !.st = "open", !.pos = FileHeaderSize, !.swapped = swapped, !.magic = At(1),
                !.lengths = lengths_swapped(At(3), At(5)), !.linktype = dlt,
                !.snapshot = IF cooked THEN At(7) + PatchedPad ELSE At(7)]

PcapOpenOffline ==
    /\ reader.st = "none"
    /\ ng = <<>>
    /\ reader' = pcap_check_header
    /\ UNCHANGED <<Written, got>>

-----------------------------------------------------------------------------
(* One packet of a pcap file: pcap_offline_read and pcap_next_packet.      *)

(* The lengths of a header: the order that the version of the file says,   *)
(* or for 2.3 the one that makes sense.                                    *)
Lengths(caplen, len) ==
    IF reader.lengths = "not" \/ (reader.lengths = "maybe" /\ caplen =< len)
    THEN [cap |-> caplen, len |-> len]
    ELSE [cap |-> len, len |-> caplen]

(* Mutant of Scaled: nanoseconds are handed on as microseconds.            *)
ScaledNever(frac) == frac

(* The fraction of a second, of a file in nanoseconds or in microseconds.  *)
Scaled(frac) == IF reader.magic = NSEC THEN frac \div 2 ELSE frac

BufferSize(snapshot) == IF snapshot = 0 THEN MaximumSnaplen ELSE snapshot

Cut(data, n) == SubSeq(data, 1, IF Len(data) < n THEN Len(data) ELSE n)

(* After an error a caller may read on, from where the reading stopped: it *)
(* takes what comes there for the header of a packet.                      *)
NextPacket ==
    LET at == reader.pos
        left == Len(disk) - at
        size == HeaderSize(reader.magic)
        In(i) == IF reader.swapped THEN SWAP(FieldAt(at + i)) ELSE FieldAt(at + i)
        l == Lengths(In(3), In(5))
        bufsize == BufferSize(reader.snapshot)
        data == Cut(SubSeq(disk, at + size + 1, at + size + l.cap), bufsize)
        TooLong == l.cap > bufsize /\ l.cap > MaximumSnaplen
        Fails(pos) == /\ reader' = [reader EXCEPT !.st = "error", !.erred = TRUE, !.pos = pos]
                      /\ UNCHANGED got
    IN  /\ reader.st \in {"open", "eof", "error"}
        /\ ng = <<>>
        /\ UNCHANGED Written
        /\ \/ left = 0 /\ reader' = [reader EXCEPT !.st = "eof"] /\ UNCHANGED got
           \/ left \in 1..(size - 1) /\ Fails(Len(disk))
           \/ left >= size /\ TooLong /\ Fails(at + size)
           \/ left >= size /\ ~TooLong /\ l.cap > left - size /\ Fails(Len(disk))
           \/ /\ left >= size /\ ~TooLong /\ l.cap =< left - size
              /\ reader' = [reader EXCEPT !.st = "open", !.pos = at + size + l.cap]
              /\ got' = Append(got, [frac |-> Scaled(In(1)), len |-> l.len,
                                     data |-> IF reader.swapped
                                              THEN swap_pseudo_headers(reader.linktype, data)
                                              ELSE data])

-----------------------------------------------------------------------------
(* pcap-ng.                                                                *)

Micro == Ten * Ten     \* 1000000 in the code: the user's resolution

(* read_block: a block that is cut off or has an impossible length cannot  *)
(* be read, and in a section of the other byte order no length makes sense.*)
SectionStart(i) == CHOOSE j \in 1..i : /\ ng[j].type = "SHB"
                                       /\ \A h \in (j + 1)..i : ng[h].type # "SHB"
Readable(i) == ng[i].ok /\ ng[SectionStart(i)].order = ng[1].order

(* process_idb_options, up to opt_endofopt.                                *)
Effective(opts) ==
    LET end == SelectInSeq(opts, LAMBDA o : o.code = "end")
    IN  IF end = 0 THEN opts ELSE SubSeq(opts, 1, end - 1)
Resolution(o) == (IF o.binary THEN 2 ^ o.v ELSE Ten ^ o.v) % UintSize
OptionsGood(opts) ==
    /\ \A i \in DOMAIN opts : (i =< Len(Effective(opts)) + 1) => opts[i].ok
    /\ \A i, j \in DOMAIN Effective(opts) :
          /\ opts[i].code = opts[j].code /\ opts[i].code # "other" => i = j
          /\ opts[i].code = "tsresol" => Resolution(opts[i]) # 0
Option(opts, code, default, Value(_)) ==
    LET i == SelectInSeq(Effective(opts), LAMBDA o : o.code = code)
    IN  IF i = 0 THEN default ELSE Value(opts[i])

(* add_interface.                                                          *)
Interface(idb) == [tsresol |-> Option(idb.opts, "tsresol", Micro, Resolution),
                   tsoffset |-> Option(idb.opts, "tsoffset", 0, LAMBDA o : o.v)]

PacketTypes == {"EPB", "SPB", "PB"}

(* pcap_ng_check_header: the section header, and the blocks up to the      *)
(* first description of an interface, whatever they are.                   *)
pcap_ng_check_header ==
    LET Decides(b) == ~b.ok \/ b.type \in {"IDB"} \cup PacketTypes
        i == SelectInSubSeq(ng, 2, Len(ng), Decides)
    IN  IF \/ ng[1].type # "SHB" \/ ~ng[1].ok \/ ng[1].major # 1
           \/ i = 0
        THEN [Opened EXCEPT !.st = "refused"]
        ELSE IF \/ \E j \in 2..i : ~Readable(j)
                \/ ng[i].type # "IDB"
                \/ ~OptionsGood(ng[i].opts)
             THEN [Opened EXCEPT !.st = "refused"]
             ELSE [Opened EXCEPT !.st = "open", !.pos = i, !.snapshot = ng[i].snaplen,
                                 !.linktype = linktype_to_dlt(ng[i].linktype),
                                 !.ifaces = <<Interface(ng[i])>>]

NgOpenOffline ==
    /\ reader.st = "none"
    /\ ng # <<>>
    /\ reader' = pcap_ng_check_header
    /\ UNCHANGED <<Written, got>>

(* The loop of pcap_ng_next_packet, block by block.                        *)
NgAt == reader.pos + 1
NgReads(type) ==
    /\ reader.st = "open"
    /\ ng # <<>>
    /\ reader.pos < Len(ng)
    /\ Readable(NgAt)
    /\ ng[NgAt].type \in type
    /\ UNCHANGED Written

NgFails == reader' = [reader EXCEPT !.st = "error"] /\ UNCHANGED got
NgGoesOn(ifaces) ==
    reader' = [reader EXCEPT !.pos = NgAt, !.ifaces = ifaces] /\ UNCHANGED got

NgEnd ==
    /\ reader.st = "open"
    /\ ng # <<>>
    /\ \/ reader.pos = Len(ng) /\ reader' = [reader EXCEPT !.st = "eof"]
       \/ /\ reader.pos < Len(ng)
          /\ ~Readable(NgAt)
          /\ reader' = [reader EXCEPT !.st = "error"]
    /\ UNCHANGED <<Written, got>>

NgOther == NgReads({"other"}) /\ NgGoesOn(reader.ifaces)

(* The type of the first interface was translated; this one is not.        *)
NgInterface ==
    LET b == ng[NgAt]
        fits == /\ reader.linktype = b.linktype
                /\ reader.snapshot = b.snaplen
                /\ OptionsGood(b.opts)
    IN  /\ NgReads({"IDB"})
        /\ IF fits THEN NgGoesOn(Append(reader.ifaces, Interface(b))) ELSE NgFails

(* Mutant of NgSection: the interface count is not reset.                  *)
NgSectionKeeps ==
    /\ NgReads({"SHB"})
    /\ IF ng[NgAt].major = 1 THEN NgGoesOn(reader.ifaces) ELSE NgFails

(* A new section forgets the interfaces of the one before.                 *)
NgSection ==
    /\ NgReads({"SHB"})
    /\ IF ng[NgAt].major = 1 THEN NgGoesOn(<<>>) ELSE NgFails

(* What a packet block holds; a simple one is of interface 0, has no time, *)
(* and as many bytes as the snapshot length allows.                        *)
NgCap(b, snapshot) ==
    IF b.type # "SPB" THEN b.caplen ELSE IF b.len > snapshot THEN snapshot ELSE b.len
NgIface(b) == IF b.type = "SPB" THEN 0 ELSE b.iface
NgStamp(b) == IF b.type = "SPB" THEN 0 ELSE b.t

NgDecode(b, iface, snapshot) ==
    LET t == NgStamp(b)
        frac == t % iface.tsresol
    IN  [sec |-> t \div iface.tsresol + iface.tsoffset,
         frac |-> IF iface.tsresol = Micro THEN frac ELSE (frac * Micro) \div iface.tsresol,
         len |-> b.len, data |-> SubSeq(b.data, 1, NgCap(b, snapshot))]

NgPacket ==
    LET b == ng[NgAt]
        id == NgIface(b)
    IN  /\ NgReads(PacketTypes)
        /\ IF id >= Len(reader.ifaces) \/ NgCap(b, reader.snapshot) > Len(b.data)
           THEN NgFails
           ELSE /\ reader' = [reader EXCEPT !.pos = NgAt]
                /\ got' = Append(got, NgDecode(b, reader.ifaces[id + 1], reader.snapshot))

PcapClose ==
    /\ reader.st # "none"
    /\ reader' = Closed
    /\ got' = <<>>
    /\ UNCHANGED Written

-----------------------------------------------------------------------------
(* No file, one of another program, cut anywhere, or a pcap-ng file.       *)
NoFile == [magic |-> TCPDUMP, snaplen |-> 0, linktype |-> 0, whole |-> FALSE]

Init ==
    /\ dumper = "none" /\ buf = <<>> /\ failed = FALSE /\ synced = -1
    /\ reader = Closed /\ got = <<>>
    /\ \/ disk = <<>> /\ ng = <<>> /\ content = <<>> /\ file = NoFile
       \/ \E f \in Files : \E n \in 0..Len(ForeignFile(f)) :
             /\ disk = SubSeq(ForeignFile(f), 1, n)
             /\ ng = <<>> /\ content = f.packets
             /\ file = [magic |-> f.magic, snaplen |-> f.snaplen, linktype |-> f.linktype,
                        whole |-> /\ n = Len(ForeignFile(f))
                                  /\ f.major >= PCAP_VERSION_MAJOR]
       \/ disk = <<>> /\ content = <<>> /\ file = NoFile /\ ng \in NgFiles

Next == \/ PcapDumpOpen \/ PcapDump \/ PcapDumpData \/ PcapDumpFlush \/ PcapDumpClose \/ Crash
        \/ PcapOpenOffline \/ NextPacket \/ PcapClose
        \/ NgOpenOffline \/ NgEnd \/ NgOther \/ NgInterface \/ NgSection \/ NgPacket

Spec == Init /\ [][Next]_vars

-----------------------------------------------------------------------------
(* The state is well typed; what a dumper writes fits on the disk and its  *)
(* buffer is never full after a call (pcap_dump, stdio).                    *)
TypeOK ==
    /\ Len(disk) =< DiskSize \/ dumper = "none"
    /\ \A i \in DOMAIN disk : disk[i] \in 0..(Base - 1)
    /\ Len(buf) < BufSize
    /\ dumper \in {"none", "open", "half", "closed", "gone"}
    /\ failed \in BOOLEAN
    /\ synced \in -1..MaxPackets
    /\ reader.st \in {"none", "open", "eof", "error", "refused"}

(* What a reader should get of a packet: its time in microseconds, and no  *)
(* more of its bytes than the file's snapshot length.                      *)
View(p) ==
    LET pad == IF file.magic = KUZNETZOV /\ file.linktype = DLT_EN10MB THEN PatchedPad ELSE 0
    IN  [frac |-> IF file.magic = NSEC THEN p.frac \div 2 ELSE p.frac, len |-> p.len,
         data |-> Cut(p.data, BufferSize(IF file.snaplen = 0 THEN 0 ELSE file.snaplen + pad))]
ViewAll == [i \in DOMAIN content |-> View(content[i])]

(* A reader gets the packets that were written, in their order and with    *)
(* nothing between them, whatever the byte order, the magic number, the    *)
(* version and the link type of the file, wherever it is cut, and however  *)
(* far the dumper has got, up to the first error it is given: what it gets *)
(* when it reads on after one is excepted, the rest of a record may then   *)
(* be taken for packets (pcap_check_header, pcap_next_packet, pcap_dump).  *)
ReadsWhatWasWritten == ng = <<>> /\ ~reader.erred => IsPrefix(got, ViewAll)

(* When PcapDumpFlush has returned 0, the packets dumped before it are     *)
(* there for every later reader, though the process may die and the disk   *)
(* may fill up afterwards (Jxnet.PcapDumpFlush, pcap_dump_flush).          *)
FlushedSurvives ==
    /\ reader.st \in {"eof", "error"} => Len(got) >= reader.synced
    /\ reader.st = "refused" => reader.synced = -1

(* A file that was closed after writes that all succeeded, or that another *)
(* program wrote to its end in a version that is not archaic, is read      *)
(* without an error, and to the last packet (pcap_dump_close,              *)
(* pcap_offline_read).                                                     *)
WholeFileReadWhole ==
    reader.whole => /\ reader.st \notin {"error", "refused"}
                    /\ reader.st = "eof" => Len(got) = Len(content)

(* The packet blocks up to the i-th, and the interfaces that the section   *)
(* of the i-th block describes before it.                                  *)
PacketsTo(i) == {j \in 1..i : ng[j].type \in PacketTypes}
Described(i) == {j \in 1..(i - 1) : ng[j].type = "IDB" /\ j > SectionStart(i)}

(* Of a pcap-ng file a reader gets every packet block up to where it has   *)
(* read, each one with the resolution and the offset of the interface with *)
(* its number in its own section, and nothing of a block whose section     *)
(* does not describe that interface (add_interface, pcap_ng_next_packet).  *)
NgFaithful ==
    ng # <<>> /\ reader.st \in {"open", "eof", "error"} =>
        /\ Len(got) = Cardinality(PacketsTo(reader.pos))
        /\ \A i \in PacketsTo(reader.pos) : \E d \in Described(i) :
              /\ Cardinality({j \in Described(i) : j < d}) = NgIface(ng[i])
              /\ got[Cardinality(PacketsTo(i))] =
                     NgDecode(ng[i], Interface(ng[d]), reader.snapshot)
=============================================================================
