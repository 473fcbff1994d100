---------------------------- MODULE DeviceReaders ----------------------------
(***************************************************************************)
(* The read operations of libpcap other than the mapped ring and the       *)
(* savefile of CaptureLoop: for sockets that give one datagram a call      *)
(* (plain packet sockets, USB, Bluetooth, CAN, netfilter, D-Bus, snoop),   *)
(* for devices that fill a buffer whose rest is kept for the next call     *)
(* (BPF, DLPI, NIT, packetfilter, NPF, DAG), and for queues (mapped USB    *)
(* events, SNF, Septel, CANUSB).                                           *)
(*                                                                         *)
(* They differ in where they look at the break flag, in what becomes of    *)
(* the packets they hold when they leave, and in what they count.          *)
(***************************************************************************)
EXTENDS CaptureLoop

-----------------------------------------------------------------------------
(* What the readers' steps are made of. *)

Quiet == UNCHANGED <<break_loop, broken, late>>

Keep == UNCHANGED <<ring, taken, cc, lost, spoilt, again, handled>>

(* To another point of the reader, with k packets in hand. *)
Load(l, k) ==
  /\ pc' = l /\ toRead' = k
  /\ UNCHANGED <<kind, want, cnt, pkts, seen, ret>>

(* The reader begins, and has counted nothing. *)
Enter(l, k) ==
  /\ pc' = l /\ toRead' = k /\ pkts' = 0
  /\ UNCHANGED <<kind, want, cnt, seen, ret>>

(* read_op returns a count, or an error. *)
Give(n) == EndRead(n) /\ Quiet
FailWith(n) == Finish(n) /\ Quiet

(* The flag alone decides: PCAP_ERROR_BREAK, or going on. *)
Look(otherwise) == IF break_loop THEN Break ELSE otherwise

(* A datagram or a buffer comes in. *)
Received(l) ==
  /\ ring # <<>>
  /\ ring' = Tail(ring)
  /\ Load(l, Head(ring)) /\ Quiet
  /\ UNCHANGED <<taken, cc, lost, spoilt, again, handled>>

(* Nothing is there, and the call does not wait for it any longer. *)
NothingThere == ring = <<>> /\ ~BlocksForever

(* What is in hand is thrown away, with an error. *)
Spoil ==
  /\ pc = "packet"
  /\ FailWith(PCAP_ERROR)
  /\ spoilt' = spoilt + toRead
  /\ UNCHANGED <<ring, taken, cc, lost, again, handled>>

(* A packet in hand is passed over, uncounted. *)
Skip ==
  /\ pc = "packet"
  /\ pc' = "after" /\ handled' = handled + 1
  /\ Quiet
  /\ UNCHANGED <<reader, ring, taken, cc, lost, spoilt, again>>

-----------------------------------------------------------------------------
(* One datagram a call, the flag looked at before it is asked for. *)

LookThenReceive ==
  \/ pc = "read" /\ Look(Enter("recv", 0) /\ Quiet) /\ Keep
  \/ pc = "recv" /\ Received("packet")
  \/ pc = "recv" /\ NothingThere /\ Give(0) /\ Keep
  \/ pc = "after" /\ Give(pkts) /\ Keep

(* The do loop around recvmsg, EAGAIN, and what pcap_read_linux returns. *)
pcap_read_packet == read_op = "packet" /\ LookThenReceive

(* A packet of another interface, or of the direction not asked for.  A
   cooked header and the VLAN tag are put in front of the others. *)
PacketUnwanted == read_op = "packet" /\ Skip

(* Without its time stamp the packet cannot be handed over. *)
PacketStampFails == read_op = "packet" /\ Spoil

pcap_read_snoop == read_op = "snoop" /\ LookThenReceive

-----------------------------------------------------------------------------
(* One datagram a call, the flag looked at once it is there: a break throws
   it away.  Without one the call returns `empty' when it does not wait. *)

ReceiveThenLook(empty) ==
  \/ pc = "read" /\ Enter("recv", 0) /\ Quiet /\ Keep
  \/ /\ pc = "recv" /\ ~break_loop
     /\ Received("packet")
  \/ /\ pc = "recv" /\ break_loop /\ ring # <<>>
     /\ Break
     /\ ring' = Tail(ring) /\ lost' = lost + Head(ring)
     /\ UNCHANGED <<taken, cc, spoilt, again, handled>>
  \/ pc = "recv" /\ NothingThere /\ Look(empty) /\ Keep
  \/ pc = "after" /\ toRead = 1 /\ Give(pkts) /\ Keep

usb_read_linux == read_op = "usb" /\ ReceiveThenLook(Give(0))

(* A line of usbmon that does not parse; a URB of the direction not asked for. *)
UsbLine == read_op = "usb" /\ (Spoil \/ Skip)

usb_read_linux_bin == read_op = "usb_bin" /\ ReceiveThenLook(Give(0))

(* EAGAIN is an error for these. *)
bt_read_linux == read_op = "bt" /\ (ReceiveThenLook(FailWith(PCAP_ERROR)) \/ Skip)

can_read_linux == read_op = "can" /\ (ReceiveThenLook(FailWith(PCAP_ERROR)) \/ Spoil)

netfilter_read_linux == read_op = "netfilter" /\ ReceiveThenLook(FailWith(PCAP_ERROR))

(* A datagram has several messages: those that are not packets are passed
   over, a damaged one ends the call, and cnt is not looked at. *)
NetfilterMessage ==
  /\ read_op = "netfilter"
  /\ \/ Spoil \/ Skip
     \/ pc = "after" /\ toRead > 1 /\ Load("packet", toRead - 1) /\ Quiet /\ Keep

(* dbus_read looks at the flag only when no message waits, every 100 ms; the
   flag is then looked at before the message that came. *)
dbus_read ==
  /\ read_op = "dbus"
  /\ \/ /\ pc = "read" /\ ring # <<>>
        /\ ring' = Tail(ring)
        /\ Enter("packet", 1) /\ Quiet
        /\ UNCHANGED <<taken, cc, lost, spoilt, again, handled>>
     \/ pc = "read" /\ ring = <<>> /\ Enter("recv", 0) /\ Quiet /\ Keep
     \/ pc = "recv" /\ break_loop /\ Break /\ Keep
     \/ pc = "recv" /\ ~break_loop /\ Received("packet")
     \/ pc = "after" /\ Give(pkts) /\ Keep
     \/ Skip

-----------------------------------------------------------------------------
(* A buffer of packets.  What a call leaves of it stays in p->cc and p->bp,
   when the call saves them. *)

(* The place in the buffer is saved. *)
Saved(k) == cc' = k /\ UNCHANGED <<ring, taken, lost, spoilt, again, handled>>

(* It is not: a buffer that was just read is forgotten, and added to `gone';
   one that an earlier call left is read again from where that call left it. *)
Unsaved(gone) ==
  /\ IF cc = 0 THEN gone' = gone + toRead /\ again' = again
               ELSE gone' = gone /\ again' = again + (cc - toRead)
  /\ UNCHANGED <<ring, taken, cc, handled>>

(* The buffer is asked for, or taken from the last call; `asks' is what is
   done before, `empty' what is done when nothing comes. *)
Fill(asks, empty) ==
  \/ pc = "read" /\ cc = 0 /\ asks /\ Keep
  \/ pc = "read" /\ cc > 0 /\ Enter("chunk", cc) /\ Quiet /\ Keep
  \/ pc = "recv" /\ Received("chunk")
  \/ pc = "recv" /\ NothingThere /\ empty /\ Keep

Ask == Enter("recv", 0) /\ Quiet
LookAndAsk == Look(Ask)

(* The loop over the packets of the buffer; `leave' is what is done for a
   break, before each packet. *)
EachPacket(leave) ==
  \/ pc = "chunk" /\ toRead > 0 /\ break_loop /\ leave
  \/ pc = "chunk" /\ toRead > 0 /\ ~break_loop /\ Load("packet", toRead) /\ Quiet /\ Keep
  \/ pc = "chunk" /\ toRead = 0 /\ ~(read_op = "npf" /\ break_loop) /\ Give(pkts) /\ Saved(0)
  \/ /\ pc = "after" /\ pkts >= cnt /\ ~Unlimited(cnt)
     /\ Give(pkts) /\ Saved(toRead - 1)
  \/ /\ pc = "after" /\ (pkts < cnt \/ Unlimited(cnt))
     /\ Load("chunk", toRead - 1) /\ Quiet /\ Keep

(* A break before the first packet clears the flag; after others it is left
   for the next read, and the place saved. *)
LeaveSaving == IF pkts = 0 THEN Break /\ Saved(toRead) ELSE Give(pkts) /\ Saved(toRead)
LeaveForgetting ==
  IF pkts = 0 THEN Break /\ Unsaved(lost) /\ UNCHANGED spoilt
              ELSE Give(pkts) /\ Saved(toRead)

(* A damaged packet header, with the place unsaved. *)
BadHeader ==
  /\ pc = "chunk" /\ toRead > 0 /\ ~break_loop
  /\ FailWith(PCAP_ERROR)
  /\ Unsaved(spoilt) /\ UNCHANGED lost

(* pcap_read_bpf looks at the flag whether or not a buffer is left, and its
   read returns an empty buffer, or EWOULDBLOCK, at the timeout. *)
BpfRead ==
  /\ read_op = "bpf"
  /\ \/ pc = "read" /\ break_loop /\ Break /\ Keep
     \/ ~(pc = "read" /\ break_loop) /\ Fill(Ask, Give(0))

(* The two shared buffers: pcap_next_zbuf waits for the other one, or has the
   kernel rotate them at the timeout; with nothing in it, it is called again. *)
pcap_next_zbuf ==
  /\ read_op = "zbpf"
  /\ \/ pc = "read" /\ break_loop /\ Break /\ Keep
     \/ ~(pc = "read" /\ break_loop) /\ Fill(Ask, Load("read", 0) /\ Quiet)

pcap_read_bpf == read_op \in {"bpf", "zbpf"} /\ EachPacket(LeaveSaving)

(* getmsg gives an empty message at the timeout, and EAGAIN without waiting. *)
pcap_read_dlpi ==
  /\ read_op = "dlpi"
  /\ Fill(LookAndAsk, (Give(0) \/ Load("read", 0)) /\ Quiet)

pcap_read_libdlpi ==
  /\ read_op = "libdlpi"
  /\ Fill(LookAndAsk, Load("read", 0) /\ Quiet)

pcap_process_pkts == read_op \in {"dlpi", "libdlpi"} /\ EachPacket(LeaveForgetting)

(* Status records of the NIT are passed over without counting. *)
pcap_read_nit ==
  /\ read_op = "nit"
  /\ Fill(Ask, Give(0)) \/ EachPacket(LeaveForgetting) \/ BadHeader

pcap_read_snit ==
  /\ read_op = "snit"
  /\ Fill(Ask, Give(0)) \/ EachPacket(LeaveForgetting)

pcap_read_pf ==
  /\ read_op = "pf"
  /\ Fill(Ask, Give(0)) \/ EachPacket(LeaveForgetting) \/ BadHeader

(* The loop looks at the flag at the end of the buffer too, and an empty
   buffer enters it. *)
pcap_read_win32_npf ==
  /\ read_op = "npf"
  /\ \/ Fill(LookAndAsk, Load("chunk", 0) /\ Quiet)
     \/ EachPacket(LeaveForgetting)
     \/ pc = "chunk" /\ toRead = 0 /\ break_loop /\ LeaveForgetting

(* The window on the card's memory moves with every record, so its place is
   never lost. *)
DagAdvance ==
  /\ read_op = "dag"
  /\ Fill(LookAndAsk, Give(0))

(* A break clears the flag and the count of the packets already handed over;
   a record that is too small stays in the way of every later read. *)
DagRecord ==
  /\ read_op = "dag"
  /\ \/ EachPacket(Break /\ Saved(toRead))
     \/ /\ pc = "chunk" /\ toRead > 0 /\ ~break_loop
        /\ FailWith(PCAP_ERROR) /\ Saved(toRead)

(* Padding, and records with no link type of their own, are passed over;
   from the others the ERF headers are removed. *)
DagEncapsulation == read_op = "dag" /\ Skip

(* A filter that the kernel takes discards what it and the handle have
   buffered; one that it does not take is run in user space. *)
DiscardsBuffered ==
  /\ pc \in {"idle", "callback"}
  /\ cc' = 0 /\ ring' = <<>>
  /\ spoilt' = spoilt + SumFunction(ring) + (IF pc = "idle" THEN cc ELSE 0)
  /\ Quiet
  /\ UNCHANGED <<pc, reader, taken, lost, again, handled>>

pcap_setfilter_bpf == read_op \in {"bpf", "zbpf"} /\ DiscardsBuffered
pcap_setfilter_pf == read_op = "pf" /\ DiscardsBuffered
pcap_setfilter_win32_npf == read_op = "npf" /\ DiscardsBuffered

-----------------------------------------------------------------------------
(* Queues. *)

(* MON_IOCX_MFETCH first gives back the events that were read, then fetches
   the offsets of others: no more than VEC_SIZE, nor than are still wanted. *)
FetchLimit ==
  IF cnt - pkts <= 0 \/ cnt - pkts > MaxBlock THEN MaxBlock ELSE cnt - pkts

UsbFetch ==
  /\ read_op = "usb_mmap"
  /\ \/ pc = "read" /\ Enter("recv", 0) /\ Quiet /\ Keep
     \/ /\ pc = "recv" /\ taken > 0
        /\ taken' = 0
        /\ Quiet /\ UNCHANGED <<pc, reader, ring, cc, lost, spoilt, again, handled>>
     \/ /\ pc = "recv" /\ taken = 0 /\ ring # <<>>
        /\ Look(/\ Load("packet", IF Len(ring) < FetchLimit THEN Len(ring) ELSE FetchLimit)
                /\ Quiet)
        /\ Keep
     \/ pc = "recv" /\ taken = 0 /\ NothingThere /\ Look(Give(0)) /\ Keep

(* The events of one fetch; the flag is not looked at between them.  With no
   limit one fetch is enough. *)
UsbEvents ==
  /\ read_op = "usb_mmap"
  /\ \/ /\ pc = "after"
        /\ ring' = PacketRead /\ taken' = taken + 1
        /\ IF toRead > 1 THEN Load("packet", toRead - 1)
           ELSE IF Unlimited(cnt) \/ pkts = cnt THEN Load("chunk", 0)
           ELSE Load("recv", 0)
        /\ Quiet /\ UNCHANGED <<cc, lost, spoilt, again, handled>>
     \/ /\ pc = "chunk" /\ Give(pkts)
        /\ taken' = 0
        /\ UNCHANGED <<ring, cc, lost, spoilt, again, handled>>

(* MON_IOCH_MFLUSH fails: the events stay, and are fetched again. *)
UsbFlushFails ==
  /\ read_op = "usb_mmap" /\ pc = "chunk"
  /\ FailWith(PCAP_ERROR)
  /\ ring' = [i \in 1..taken |-> 1] \o ring
  /\ again' = again + taken /\ taken' = 0
  /\ UNCHANGED <<cc, lost, spoilt, handled>>

(* Only the first wait of a call of snf_read has a timeout: toRead is 1 at
   "chunk" and "recv" once it is used up. *)
snf_read ==
  /\ read_op = "snf"
  /\ \/ pc = "read" /\ Enter("chunk", 0) /\ Quiet /\ Keep
     \/ pc = "chunk" /\ ~MorePackets /\ Give(pkts) /\ Keep
     \/ /\ pc = "chunk" /\ MorePackets
        /\ IF ~break_loop THEN Load("recv", toRead) /\ Quiet
           ELSE IF pkts = 0 THEN Break ELSE Give(pkts)
        /\ Keep
     \/ pc = "recv" /\ Received("packet")
     \/ /\ pc = "recv" /\ ring = <<>> /\ (toRead = 1 \/ ~BlocksForever)
        /\ Give(pkts) /\ Keep
     \/ pc = "after" /\ Load("chunk", 1) /\ Quiet /\ Keep

(* n is incremented for a packet that the filter rejects, too. *)
SnfFiltered ==
  /\ read_op = "snf" /\ pc = "packet"
  /\ pc' = "after" /\ pkts' = pkts + 1 /\ handled' = handled + 1
  /\ Quiet
  /\ UNCHANGED <<kind, want, cnt, toRead, seen, ret, ring, taken, cc, lost, spoilt, again>>

(* A hundred polls that find nothing count as a packet; a message that is not
   of SS7 does not.  A break forgets what was counted. *)
septel_read ==
  /\ read_op = "septel"
  /\ \/ pc = "read" /\ Enter("chunk", 0) /\ Quiet /\ Keep
     \/ pc = "chunk" /\ Look(Load("recv", 0) /\ Quiet) /\ Keep
     \/ pc = "recv" /\ Received("packet")
     \/ /\ pc = "recv" /\ ring # <<>>
        /\ Load("chunk", 0) /\ Quiet
        /\ ring' = Tail(ring) /\ handled' = handled + 1
        /\ UNCHANGED <<taken, cc, lost, spoilt, again>>
     \/ /\ pc = "recv" /\ ring = <<>>
        /\ IF pkts + 1 < cnt
           THEN /\ pc' = "chunk" /\ pkts' = pkts + 1
                /\ UNCHANGED <<kind, want, cnt, toRead, seen, ret>> /\ Quiet
           ELSE Give(pkts + 1)
        /\ Keep
     \/ /\ pc = "after"
        /\ IF pkts < cnt THEN Load("chunk", 0) /\ Quiet ELSE Give(pkts)
        /\ Keep

(* The pipe that the capture thread of the device writes to: every failure to
   read it ends the call, and a cnt that is not positive reads nothing. *)
canusb_read_linux ==
  /\ read_op = "canusb"
  /\ \/ pc = "read" /\ Enter("chunk", 0) /\ Quiet /\ Keep
     \/ /\ pc = "chunk"
        /\ IF pkts < cnt THEN Load("recv", 0) /\ Quiet ELSE Give(pkts)
        /\ Keep
     \/ pc = "recv" /\ Received("packet")
     \/ pc = "recv" /\ NothingThere /\ Give(pkts) /\ Keep
     \/ pc = "after" /\ Load("chunk", 0) /\ Quiet /\ Keep

-----------------------------------------------------------------------------
(* Failures of the system calls. *)

(* A signal: the call is made again, after a look at the flag where the
   reader has one there.  NIT and packetfilter take it for an error. *)
Interrupted ==
  /\ pc = "recv"
  /\ \/ read_op \in {"packet", "snoop", "bpf", "zbpf", "dlpi", "libdlpi"} /\ Load("read", 0) /\ Quiet
     \/ /\ read_op \in {"usb", "usb_bin", "bt", "can", "netfilter", "usb_mmap"}
        /\ taken = 0 /\ break_loop /\ Break
     \/ read_op = "snf" /\ Load("chunk", 1) /\ Quiet
     \/ read_op = "canusb" /\ Give(pkts)
  /\ Keep

(* The interface or the device goes away. *)
DeviceFails ==
  /\ pc = "recv" /\ read_op \notin {"canusb", "septel"} /\ taken = 0
  /\ IF read_op \in {"usb", "usb_bin", "bt", "can", "netfilter", "usb_mmap"}
     THEN Look(FailWith(PCAP_ERROR))
     ELSE FailWith(PCAP_ERROR)
  /\ Keep

-----------------------------------------------------------------------------
DeviceStep ==
  /\ \/ pcap_read_packet \/ pcap_read_snoop
     \/ usb_read_linux \/ usb_read_linux_bin \/ bt_read_linux \/ can_read_linux
     \/ netfilter_read_linux \/ NetfilterMessage \/ dbus_read
     \/ BpfRead \/ pcap_next_zbuf \/ pcap_read_bpf \/ pcap_read_dlpi \/ pcap_read_libdlpi
     \/ pcap_process_pkts \/ pcap_read_nit \/ pcap_read_snit \/ pcap_read_pf
     \/ pcap_read_win32_npf \/ DagAdvance \/ DagRecord
     \/ UsbFetch \/ UsbEvents \/ snf_read \/ SnfFiltered \/ septel_read \/ canusb_read_linux
  /\ UNCHANGED <<config, arrived, calls, breaks>>

DeviceChoice ==
  /\ \/ PacketUnwanted \/ PacketStampFails \/ UsbLine \/ DagEncapsulation
     \/ UsbFlushFails \/ Interrupted \/ DeviceFails
     \/ pcap_setfilter_bpf \/ pcap_setfilter_pf \/ pcap_setfilter_win32_npf
  /\ UNCHANGED <<config, arrived, calls, breaks>>

AllNext == Next \/ DeviceStep \/ DeviceChoice

AllSpec == Init /\ [][AllNext]_vars

(* As FairSpec, of every reader. *)
AllFairSpec == AllSpec /\ WF_vars(ReaderStep \/ DeviceStep)
=============================================================================
