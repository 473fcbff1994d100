----------------------------- MODULE CaptureLoop -----------------------------
(***************************************************************************)
(* One capture handle: PcapLoop and PcapDispatch of jni/src/jxnet.c, the   *)
(* read loops of the bundled libpcap they run (pcap_loop over the          *)
(* memory-mapped ring of pcap-linux.c with TPACKET_V1, V2 or V3, or        *)
(* over a savefile), the Java callback, and PcapBreakLoop, which any       *)
(* thread, the callback included, may call at any time.  The readers of    *)
(* other devices, and those of other systems, are in DeviceReaders.        *)
(*                                                                         *)
(* A packet is only counted.  The ring is the sequence of blocks the       *)
(* kernel has handed over, each the number of packets left in it; with     *)
(* TPACKET_V1 and V2, and in a savefile, a block is one packet.            *)
(***************************************************************************)
EXTENDS Integers, Sequences, Functions

(* Readers of DeviceReaders: of one datagram at a time; of a buffer of packets
   that is kept between calls; and of a queue, packet by packet. *)
Receivers == {"packet", "snoop", "usb", "usb_bin", "bt", "can", "netfilter", "dbus"}
Buffered == {"bpf", "zbpf", "dlpi", "libdlpi", "nit", "snit", "pf", "npf", "dag"}
Queues == {"usb_mmap", "snf", "septel", "canusb"}
Rings == {"v1", "v2", "v3"}

CONSTANTS Configs,     \* kinds of handles: a reader, and a read timeout, 0 for none;
                       \* a reader that has no timeout is in non-blocking mode with 1
          Cnts,        \* values of the argument cnt
          MaxBlock,    \* packets in a block of the ring
          MaxArrivals, MaxCalls, MaxBreaks  \* bounds on environment and clients

ASSUME CaptureAssumption ==
         /\ Configs \subseteq (Rings \cup {"offline"} \cup Receivers \cup Buffered \cup Queues) \X Nat
         /\ Cnts \subseteq Int
         /\ MaxBlock \in Nat \ {0}
         /\ MaxArrivals \in Nat /\ MaxCalls \in Nat /\ MaxBreaks \in Nat

VARIABLES read_op,   \* the reader of the handle
          timeout,   \* its read timeout
          pc,        \* where the capturing thread is
          break_loop,  \* the flag of the pcap_t
          ring,      \* blocks waiting, the first one is being read
          taken,     \* packets of the first block that were read before
          kind,      \* "loop" or "dispatch"
          want, cnt, \* the argument, and what pcap_loop has left of it
          pkts,      \* packets counted by the current read_op
          toRead,    \* packets_to_read of the TPACKET_V3 reader
          seen,      \* calls of pcap_callback made by this PcapLoop or PcapDispatch
          ret,       \* its result
          arrived, handled, again,  \* packets delivered by the kernel, taken by
                     \* the reader, and put back for a second reading
          calls, breaks, broken,  \* PcapLoop calls, PcapBreakLoop calls, results -2
          late,      \* callbacks of this call since break_loop was set
          cc,        \* packets left in the handle's buffer between two reads
          lost, spoilt  \* packets dropped with a break, and with an error or a new filter

vars == <<read_op, timeout, pc, break_loop, ring, taken, kind, want, cnt, pkts,
          toRead, seen, ret, arrived, handled, again, calls, breaks, broken, late,
          cc, lost, spoilt>>

config == <<read_op, timeout>>
reader == <<kind, want, cnt, pkts, toRead, seen, ret>>
counters == <<arrived, handled, again, calls, breaks, broken, late>>
device == <<cc, lost, spoilt>>

PCAP_ERROR == -1
PCAP_ERROR_BREAK == -2

(* Packets that the kernel hands over together, and packets that are read
   between two looks at the break flag. *)
Chunk == IF read_op \in Buffered \cup {"v3", "netfilter"} THEN MaxBlock ELSE 1
BlockSize == IF read_op \in {"v3", "netfilter", "usb_mmap"} THEN MaxBlock ELSE 1

(* Counters and program points are in range. *)
TypeOK ==
  /\ <<read_op, timeout>> \in Configs
  /\ pc \in {"idle", "read", "poll", "frames", "packet", "callback", "after", "check",
            "recv", "chunk"}
  /\ break_loop \in BOOLEAN
  /\ ring \in Seq(1..Chunk)
  /\ taken \in 0..BlockSize
  /\ kind \in {"loop", "dispatch"}
  /\ want \in Int /\ cnt \in Int /\ ret \in Int
  /\ pkts \in Nat /\ toRead \in Nat /\ seen \in Nat
  /\ arrived \in Nat /\ handled \in Nat /\ again \in Nat /\ late \in Nat
  /\ calls \in Nat /\ breaks \in Nat /\ broken \in Nat
  /\ cc \in 0..Chunk /\ lost \in Nat /\ spoilt \in Nat

(* A live handle starts with an empty ring; a savefile with its packets. *)
Init ==
  /\ \E c \in Configs : read_op = c[1] /\ timeout = c[2]
  /\ pc = "idle" /\ break_loop = FALSE
  /\ IF read_op = "offline"
     THEN \E n \in 0..MaxArrivals : ring = [i \in 1..n |-> 1]
     ELSE ring = <<>>
  /\ kind = "loop" /\ want = 0 /\ cnt = 0 /\ pkts = 0 /\ toRead = 0
  /\ seen = 0 /\ ret = 0
  /\ arrived = Len(ring) /\ handled = 0 /\ again = 0 /\ taken = 0
  /\ calls = 0 /\ breaks = 0 /\ broken = 0 /\ late = 0
  /\ cc = 0 /\ lost = 0 /\ spoilt = 0

(* PACKET_COUNT_IS_UNLIMITED *)
Unlimited(n) == n <= 0

(* Mutant of MorePackets: one packet too many. *)
MorePacketsOffByOne == pkts <= cnt \/ Unlimited(cnt)

MorePackets == pkts < cnt \/ Unlimited(cnt)

-----------------------------------------------------------------------------
(* The environment. *)

(* The kernel hands over a block. *)
Arrive ==
  /\ read_op # "offline"
  /\ \E k \in 1..Chunk :
       /\ arrived + k <= MaxArrivals
       /\ ring' = Append(ring, k)
       /\ arrived' = arrived + k
  /\ UNCHANGED <<config, device, pc, break_loop, taken, reader, handled, again, calls, breaks,
                 broken, late>>

(* PcapBreakLoop, from the callback or from any other thread. *)
PcapBreakLoop ==
  /\ breaks < MaxBreaks
  /\ breaks' = breaks + 1
  /\ break_loop' = TRUE
  /\ late' = IF break_loop THEN late ELSE 0
  /\ UNCHANGED <<config, device, pc, ring, taken, reader, arrived, handled, again, calls, broken>>

-----------------------------------------------------------------------------
(* Entering. *)

Start(k, c) ==
  /\ pc = "idle" /\ calls < MaxCalls
  /\ kind' = k /\ want' = c /\ cnt' = c
  /\ pkts' = 0 /\ toRead' = 0 /\ seen' = 0 /\ ret' = 0
  /\ calls' = calls + 1 /\ late' = 0
  /\ pc' = "read"
  /\ UNCHANGED <<config, device, break_loop, ring, taken, arrived, handled, again, breaks, broken>>

PcapLoop == \E c \in Cnts : Start("loop", c)

(* CheckArgument(jcnt > 0) throws, but does not keep the call from running. *)
PcapDispatch == \E c \in Cnts : Start("dispatch", c)

-----------------------------------------------------------------------------
(* Leaving. *)

Finish(n) ==
  /\ pc' = "idle" /\ ret' = n
  /\ UNCHANGED <<kind, want, cnt, pkts, toRead, seen>>

(* Mutant of Break: the flag stays set. *)
BreakKeepsFlag ==
  /\ broken' = broken + 1
  /\ Finish(PCAP_ERROR_BREAK)
  /\ UNCHANGED <<break_loop, late>>

(* PCAP_ERROR_BREAK clears the flag and ends pcap_loop and pcap_dispatch. *)
Break ==
  /\ break_loop' = FALSE /\ late' = 0 /\ broken' = broken + 1
  /\ Finish(PCAP_ERROR_BREAK)

(* Mutant of EndRead: an empty read ends pcap_loop on a live handle too. *)
EndReadAtZero(n) ==
  IF kind = "dispatch" THEN Finish(n)
  ELSE IF n = 0 \/ (~Unlimited(cnt) /\ cnt - n <= 0) THEN Finish(0)
  ELSE /\ pc' = "read"
       /\ cnt' = IF Unlimited(cnt) THEN cnt ELSE cnt - n
       /\ UNCHANGED <<kind, want, pkts, toRead, seen, ret>>

(* read_op returns n >= 0: pcap_dispatch returns it, pcap_loop reads again
   until cnt packets were counted. *)
EndRead(n) ==
  IF kind = "dispatch" THEN Finish(n)
  ELSE IF n > 0 /\ ~Unlimited(cnt) /\ cnt - n <= 0 THEN Finish(0)
  ELSE /\ pc' = "read"
       /\ cnt' = IF Unlimited(cnt) THEN cnt ELSE cnt - n
       /\ UNCHANGED <<kind, want, pkts, toRead, seen, ret>>

-----------------------------------------------------------------------------
(* The ring readers, pcap_read_linux_mmap_v2 and _v3. *)

(* pcap_wait_for_frames_mmap polls only when no frame is there. *)
ReadLive ==
  /\ pc = "read" /\ read_op \in Rings
  /\ pkts' = 0
  /\ pc' = IF ring = <<>> THEN "poll" ELSE "frames"
  /\ UNCHANGED <<config, device, break_loop, ring, taken, kind, want, cnt, toRead, seen, ret, counters>>

(* poll blocks for ever when there is no timeout, except that the V3 reader
   then uses a timeout of one millisecond. *)
BlocksForever == timeout = 0 /\ read_op \notin {"v3", "offline", "dbus", "septel"}

(* Mutant of PollReturns: the break flag is not looked at. *)
PollIgnoresBreak ==
  /\ pc = "poll"
  /\ ring # <<>> \/ ~BlocksForever
  /\ pc' = "frames"
  /\ UNCHANGED <<config, device, break_loop, reader, ring, taken, counters>>

(* poll returns with a frame or by its timeout; then, and only then, the
   break flag is looked at. *)
PollReturns ==
  /\ pc = "poll"
  /\ ring # <<>> \/ ~BlocksForever
  /\ IF break_loop
     THEN Break
     ELSE pc' = "frames" /\ UNCHANGED <<break_loop, reader, broken, late>>
  /\ UNCHANGED <<config, device, ring, taken, arrived, handled, again, calls, breaks>>

(* A signal interrupts poll: the flag is looked at, and poll called again. *)
PollInterrupted ==
  /\ pc = "poll" /\ break_loop
  /\ Break
  /\ UNCHANGED <<config, device, ring, taken, arrived, handled, again, calls, breaks>>

(* The interface went down, or poll failed. *)
PollFails ==
  /\ pc = "poll"
  /\ Finish(PCAP_ERROR)
  /\ UNCHANGED <<config, device, break_loop, ring, taken, counters>>

(* One frame at a time for TPACKET_V1 and V2. *)
TakeFrame ==
  /\ pc = "frames" /\ ring # <<>> /\ MorePackets
  /\ read_op \in {"v1", "v2"}
  /\ toRead' = 1
  /\ pc' = "packet"
  /\ UNCHANGED <<config, device, break_loop, ring, taken, kind, want, cnt, pkts, seen, ret, counters>>

(* The V3 reader takes up to max_packets packets of every block, however many
   it has counted before. *)
TakeBlock ==
  /\ pc = "frames" /\ ring # <<>> /\ MorePackets
  /\ read_op = "v3"
  /\ toRead' = IF ~Unlimited(cnt) /\ Head(ring) > cnt THEN cnt ELSE Head(ring)
  /\ pc' = "packet"
  /\ UNCHANGED <<config, device, break_loop, ring, taken, kind, want, cnt, pkts, seen, ret, counters>>

(* No frame, or enough of them.  Without a timeout the V3 reader waits until
   it has a packet. *)
FramesDone ==
  /\ pc = "frames" /\ ~(ring # <<>> /\ MorePackets)
  /\ IF read_op = "v3" /\ pkts = 0 /\ timeout = 0
     THEN pc' = "read" /\ UNCHANGED reader
     ELSE EndRead(pkts)
  /\ UNCHANGED <<config, device, break_loop, ring, taken, counters>>

-----------------------------------------------------------------------------
(* One packet, for all readers. *)

(* pcap_callback enters nextPacket ... *)
HandPacket ==
  /\ pc = "packet"
  /\ pc' = "callback"
  /\ pkts' = pkts + 1 /\ seen' = seen + 1
  /\ handled' = handled + 1
  /\ late' = IF break_loop THEN late + 1 ELSE 0
  /\ UNCHANGED <<config, device, break_loop, ring, taken, kind, want, cnt, toRead, ret,
                 arrived, again, calls, breaks, broken>>

(* ... unless the filter, run in user space, rejects the packet. *)
FilterPacket ==
  /\ pc = "packet" /\ read_op \notin {"can", "canusb", "snf"}
  /\ pc' = "after"
  /\ handled' = handled + 1
  /\ UNCHANGED <<config, device, break_loop, ring, taken, reader, arrived, again, calls, breaks,
                 broken, late>>

(* ... or its frame is not sound: the read ends there, the block stays with
   the reader, and the next read starts it afresh. *)
FrameCorrupt ==
  /\ pc = "packet" /\ read_op \in Rings
  /\ Finish(PCAP_ERROR)
  /\ ring' = [ring EXCEPT ![1] = @ + taken]
  /\ again' = again + taken /\ taken' = 0
  /\ UNCHANGED <<config, device, break_loop, arrived, handled, calls, breaks, broken, late>>

CallbackReturns ==
  /\ pc = "callback"
  /\ pc' = "after"
  /\ UNCHANGED <<config, device, break_loop, ring, taken, reader, counters>>

(* Mutant of PacketRead: the block is handed back with packets left in it. *)
BlockReleasedEarly == Tail(ring)

(* The ring after one more packet of its first block was read. *)
PacketRead == IF Head(ring) = 1 THEN Tail(ring) ELSE [ring EXCEPT ![1] = @ - 1]

(* Mutant of AfterLive: the flag is looked at only in poll. *)
AfterLiveUnchecked ==
  /\ pc = "after" /\ read_op \in Rings
  /\ ring' = PacketRead
  /\ taken' = IF Head(ring) = 1 THEN 0 ELSE taken + 1
  /\ IF toRead > 1
     THEN /\ pc' = "packet" /\ toRead' = toRead - 1
          /\ UNCHANGED <<kind, want, cnt, pkts, seen, ret>>
     ELSE pc' = "frames" /\ UNCHANGED reader
  /\ UNCHANGED <<config, device, break_loop, counters>>

(* The flag is looked at after the last packet of what was taken. *)
AfterLive ==
  /\ pc = "after" /\ read_op \in Rings
  /\ ring' = PacketRead
  /\ taken' = IF Head(ring) = 1 THEN 0 ELSE taken + 1
  /\ IF toRead > 1
     THEN /\ pc' = "packet" /\ toRead' = toRead - 1
          /\ UNCHANGED <<break_loop, kind, want, cnt, pkts, seen, ret, broken, late>>
     ELSE IF break_loop
     THEN Break
     ELSE pc' = "frames" /\ UNCHANGED <<break_loop, reader, broken, late>>
  /\ UNCHANGED <<config, device, arrived, handled, again, calls, breaks>>

-----------------------------------------------------------------------------
(* The savefile reader, pcap_offline_read. *)

ReadOffline ==
  /\ pc = "read" /\ read_op = "offline"
  /\ pkts' = 0
  /\ pc' = "check"
  /\ UNCHANGED <<config, device, break_loop, ring, taken, kind, want, cnt, toRead, seen, ret, counters>>

(* A flag found after some packets is left set for the next read. *)
CheckBreak ==
  /\ pc = "check" /\ break_loop
  /\ IF pkts = 0
     THEN Break
     ELSE EndRead(pkts) /\ UNCHANGED <<break_loop, broken, late>>
  /\ UNCHANGED <<config, device, ring, taken, arrived, handled, again, calls, breaks>>

NextRecord ==
  /\ pc = "check" /\ ~break_loop /\ ring # <<>>
  /\ pc' = "packet"
  /\ UNCHANGED <<config, device, break_loop, ring, taken, reader, counters>>

(* Status 1, end of file, is returned as 0; a damaged record as -1.  Neither
   depends on the packets read before. *)
EndOfFile ==
  /\ pc = "check" /\ ~break_loop
  /\ \/ ring = <<>> /\ Finish(0)
     \/ ring # <<>> /\ Finish(PCAP_ERROR)
  /\ UNCHANGED <<config, device, break_loop, ring, taken, counters>>

AfterOffline ==
  /\ pc = "after" /\ read_op = "offline"
  /\ ring' = PacketRead
  /\ taken' = IF Head(ring) = 1 THEN 0 ELSE taken + 1
  /\ IF pkts >= cnt /\ cnt > 0 THEN EndRead(pkts) ELSE pc' = "check" /\ UNCHANGED reader
  /\ UNCHANGED <<config, device, break_loop, counters>>

-----------------------------------------------------------------------------
ReaderStep ==
  \/ ReadLive \/ PollReturns \/ TakeFrame \/ TakeBlock \/ FramesDone
  \/ HandPacket \/ FilterPacket \/ CallbackReturns \/ AfterLive
  \/ ReadOffline \/ CheckBreak \/ NextRecord \/ EndOfFile \/ AfterOffline

Next ==
  \/ ReaderStep \/ PollFails \/ PollInterrupted \/ FrameCorrupt
  \/ Arrive \/ PcapBreakLoop \/ PcapLoop \/ PcapDispatch

Spec == Init /\ [][Next]_vars

(* The operating system keeps running the capturing thread, poll returns by
   its timeout, and the callback returns. *)
FairSpec == Spec /\ WF_vars(ReaderStep)

-----------------------------------------------------------------------------
(* Properties. *)

(* What the readers keep to: TPACKET_V3 and a netfilter datagram exceed cnt by
   less than a block, TPACKET_V3 by less than cnt too, and the other readers
   never do.  (The reader of mapped USB events forgets, when it runs out of
   events, the packets it has handed over: pcap_loop counts them again.) *)
CntNearlyMaximum ==
  want > 0 /\ ~(read_op = "usb_mmap" /\ kind = "loop")
    => /\ seen <= want \/ seen - want < BlockSize
       /\ seen < 2 * want \/ read_op = "netfilter"

(* A PcapLoop on a live handle with a positive cnt that returns 0 has called
   back at least cnt times.  (The SNF reader counts packets that its filter
   rejects, the Septel reader polls that find nothing.) *)
ZeroMeansAll ==
  read_op \notin {"offline", "snf", "septel"}
    /\ pc = "idle" /\ calls > 0 /\ kind = "loop" /\ ret = 0
    => want > 0 /\ seen >= want

(* Packets that a reader of DeviceReaders has taken from the system and not
   handled, in its buffer or, between two reads, left there. *)
Held ==
  IF read_op \in Rings \cup {"offline", "usb_mmap"} THEN 0
  ELSE IF pc \in {"packet", "callback", "after"} THEN toRead
  ELSE IF read_op \in Queues THEN 0
  ELSE IF pc = "chunk" THEN toRead ELSE cc

(* No packet is lost, skipped or delivered twice, across breaks, calls and new
   filters.  The exceptions: the packets of a block that is read again after
   one of its frames was found corrupt, and of a buffer that is read again
   because a break or an error came before its place was saved; what a device
   reader throws away with the error it returns; and what it throws away for a
   break, at most one datagram or buffer for each PCAP_ERROR_BREAK. *)
EachPacketOnce ==
  /\ arrived + again = SumFunction(ring) + Held + lost + spoilt + handled
                         - (IF pc \in {"callback", "after"} THEN 1 ELSE 0)
  /\ lost <= MaxBlock * broken

(* Every PcapBreakLoop ends at most one loop, and a flag that has ended one
   is clear. *)
BreaksAccounted == broken + (IF break_loop THEN 1 ELSE 0) <= breaks

(* Once the flag is set, a PcapLoop or PcapDispatch makes no more callbacks
   than there are packets in one block: it looks at the flag between blocks.
   (The CANUSB reader never looks, the D-Bus reader not while messages wait.) *)
FewLateCallbacks == read_op \notin {"canusb", "dbus"} => late <= BlockSize

(* Readers that do not look at the flag at all (canusb), while messages wait
   (dbus), or while none comes (the others, whose reads need not block). *)
Deaf == {"canusb", "dbus", "nit", "snit", "pf"}

(* "Set a flag that will force PcapDispatch() or PcapLoop() to return rather
   than looping." *)
BreakForcesReturn ==
  break_loop /\ pc # "idle" /\ ~BlocksForever /\ read_op \notin Deaf ~> pc = "idle"
=============================================================================
