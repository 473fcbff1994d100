# Jxnet: a TLA+ verification project

Jxnet is a Java binding of libpcap. Java programs open, configure, read and
close capture handles through static native methods (`Jxnet.java`); a layer of
C (`jni/src`) turns each into one libpcap call; the bundled libpcap 1.7.4
(`jni/libpcap`) reads packets from the kernel or from a savefile and calls the
program's handler for each. On top are packet classes that decode and build
headers, and helpers that combine both.

The modules here model the parts in which something can go wrong that a test
hardly reaches: native memory behind Java objects, the activation of a handle
whose system calls fail half-way, a capture loop that another thread
interrupts, a filter that is compiled, optimized, and replaced while packets are
in flight, savefiles that are cut or still growing, the way of a packet through
decoders and handlers and back to the wire, and global JNI references shared by
all native methods.

## Inventory

| Component | State it keeps | Operations | Interacts with | What makes it correct |
|---|---|---|---|---|
| JNI bridge, handles (`jxnet.c`, `utils.c`, `preconditions.c`, `Pcap.java`, `PcapDumper.java`) | the field `address` of each object, the structures it points to | all of `Jxnet.java`: open, create, use, loop, dump, close | libpcap (calls), Java callbacks (re-entrant) | a call works on the structure of its own object; nothing is freed twice, used after it is freed, or lost |
| JNI bridge, globals (`ids.c`) | one class reference and some IDs per Java class, in C globals | `Set*IDs`, called by nearly every method | every thread in native code | a reference that is read is still good for the thread that reads it; no ID is used before it is set |
| Handle configuration (`Pcap.java`, `jxnet.c`, `pcap.c`, `pcap-linux.c`) | options, sockets, ring, buffers, `pcaps_to_close`, the interface's mode and flags; link type and snapshot length cached in Java | `PcapCreate`, setters, `PcapActivate`, `PcapOpenLive`, `PcapSetNonBlock`, `PcapClose`, exit | kernel, other handles on the interface | a failure leaves nothing behind; the interface is restored; the cache agrees with libpcap; activation returns |
| Capture loop (`jxnet.c`, `pcap.c`, `savefile.c`, `pcap-linux.c`) | `break_loop`, the ring or file position, the count left | `PcapLoop`, `PcapDispatch`, `PcapBreakLoop` | kernel ring (shared memory), callbacks, breaks of any thread | counts and results; each packet once; a break ends a loop, and only one |
| Packet filter (`jxnet.c`, `bpf.c`, `pcap-linux.c`, `optimize.c`) | the program object, libpcap's copy, the socket's filter, two variables that say who filters | `PcapCompile`, `PcapSetFilter`, `PcapFreeCode` | kernel ring and socket filter, the reader | what is delivered passes the filter that was set last; nothing the client wants is refused |
| Filter compiler (`grammar.y`, `gencode.c`, `optimize.c`, `bpf_filter.c`) | the graph of blocks, scratch registers, what the passes found out | the reductions of the parser, the passes of the optimizer, the generation of the program | packet filter | the program accepts what the expression means; it is valid and reads nothing it has not set; the optimizer ends |
| Savefiles (`sf-pcap.c`, `sf-pcap-ng.c`, `savefile.c`) | the stdio buffer and the file; the reader's position, byte order, versions, interfaces | `PcapDumpOpen`, `PcapDump`, `PcapDumpFlush`, `PcapDumpClose`, `PcapOpenOffline`, reading | disk, other programs that write files, crashes | what is read is what was written; what was flushed survives |
| Packet listeners (`PacketHelper`, `AbstractPacketListener`) | a static packet counter; number and header in a listener | `loop`, `next`, `nextEx`, `decode`, `sendPacket` | capture loop, codecs, handlers that throw | a handler gets the layer it asked for of its own packet, with its number; decoding ends |
| Packet codecs (`jxnet-packet`) | a packet's fields and payload | `newInstance`, `getPacket`, `setPacket`, `toBytes`, checksums | `ByteUtils` | a packet that is built is decoded to the same packet; checksums verify |
| Addresses, discovery, utilities, loading, ARP look-up | little or none | parsing, printing, searching | operating system | conversions are inverse |

Hard behaviours: the two steps of a close against calls of other threads;
addresses that `malloc` reuses; callbacks that call native methods, close their
own handle included, or throw; a break at any moment of a loop; `poll` without
a timeout; blocks of the ring that are left half read; a new filter while the
kernel is storing packets that passed the old one; system calls that fail
half-way; two handles that change the same interface; optimizer passes that
work on stale analyses; a file cut anywhere; locals of one native method kept in
globals. `PROJECT.json` lists them with their lines under `hazards`.

## Modules

`JxnetHandles` is the core. Its state is, per Java object, whether Java code has
it (`life`) and its field `address`; per address, the object its block was
allocated for (`heap`); per thread, the native call it is in: the program point
`pc`, the object, the pointer that `GetPcap` read (`ptr`), the exception that is
pending, and the loop it is in (`loop`, `loopPtr`: a thread in a callback is
back in Java and can call again). A native method is three steps: its entry with
the argument checks, the read of the address (`GetPcap`, `GetPcapDumper`), and
the libpcap call; a close has a fourth, the store of zero; an open call
allocates and then makes the object. There is one entry action per native method
that takes a handle, so that `PcapNext`, which checks the pointer, and
`PcapStats`, which does not, differ. `jvm` records the first use of a null or
dangling pointer. Two constants describe the clients: `Exclusive` ones keep a
close apart from other calls on the same handle, the synchronisation that Jxnet
leaves to its callers; with `IllegalArgs` they also pass arguments that
`CheckArgument` rejects.

`HandleLifecycle` is the abstract specification of a handle: opened once,
entered only while it is open, closed once by a thread that is alone inside.
`JxnetHandles` maps its heap to `status` and the threads that hold a pointer
to `inside`.

`CaptureLoop` is one handle and the thread that captures on it. A packet is only
counted; the ring is the sequence of blocks the kernel has handed over. The
variable `read_op`, which never changes, is the reader of the handle:
`pcap_read_linux_mmap_v2`, `_v3` or `pcap_offline_read`. `PcapBreakLoop` may happen between any two steps. Left out:
which thread calls it (it makes no difference to the flag), and what is in a
packet (a filter in user space may skip any).

`PacketFilter` is one live handle with a TPACKET_V2 ring, on a kernel that can
run the filters in `kernel`, which never changes. A packet is its kind
and a filter the set of kinds it accepts; `frame`, `kpos` and `cpu` are the
kernel's, everything else libpcap's and the program object's. `PcapSetFilter`
is taken apart at its system calls and at every look at a frame, since the kernel
stores packets all the while.

`JniIds` gives each native method as the sequence of its accesses to the class
globals. A reference is the number of the native call that made it; a call that
has returned is no longer on its thread's stack, and its references are gone. A
loop stays on the stack while its callback makes further calls. Clients make one
native call at a time, except that loops go on beside them: without that rule
the globals are simply unprotected.

`HandleActivation` goes below the libpcap call that `JxnetHandles` has as one
step, for `PcapCreate`, the setters, `PcapActivate`, `PcapOpenLive`,
`PcapSetNonBlock` and `PcapClose` on Linux. Each system call is a step that may
fail, and the steps of several handles interleave: they share the socket
numbers, the interface's flags and wireless mode, and `pcaps_to_close`. A buffer
is a pointer that is null, live or dangling; `errors` collects what the heap
and the kernel would have caught (a buffer freed twice or overwritten while live,
a device's name that is null when it is used, a socket closed by a handle that does
not own it). Devices stand for the kinds that take different
paths: "any", a name that is too long, Ethernet, wireless and ISDN (cooked).

`DeviceActivation` adds the devices of libpcap that have a driver of their own,
one name standing for each driver: what `pcap_activate` opens on it, in which order,
and who undoes what when a step fails, `pcap_cleanup_live_common`, the driver's own
cleanup function or nobody. `held` is what a handle keeps besides descriptors and
buffers: mappings, adapters, streams, threads, connections. The code has paths that
forget something or close it twice; they are followed, and `lost` and `spoilt` mark
the descriptors and handles concerned, about which the properties then say nothing.

`DeviceReaders` adds to `CaptureLoop` the other twenty read operations of libpcap: a
step per system call, per packet in hand and per way out, made from a few common
ones (`LookThenReceive`, `ReceiveThenLook`, `Fill`, `EachPacket`), with the flag
looked at where each reader looks, and the place in its buffer saved where each saves
it (`cc`). `lost` counts what a reader drops because of a break, `spoilt` what it drops
with an error or a new filter, `again` what it reads a second time; `Held` is what it
has in hand. So `EachPacketOnce` is one equation for all of them.

`BpfMachine` is the filter machine (`bpf_filter`, `bpf_validate`) with the width
of a byte as a parameter; a read of what C leaves undefined gives a value of its
own. `BpfOptimizer` is `optimize.c` as operators on the graph of blocks: the
analyses (levels, dominators, closure, use and definition, dominating edges), the
peephole steps, value numbering, dead stores, `opt_j`, the pull-ups, the merging
of equal blocks, and the conversion to a program with long jumps. `FilterCode`
runs them. Its first actions are the reductions of `grammar.y` with the
functions of `gencode.c` they call, in every order in which an expression can make
them; then each pass of the optimizer is a step. Next to each expression on the
parser's stack it keeps what the expression means on every packet, computed from
the expression and not from the code: `MeaningKept` compares the two.

`FilterPrimitives` is the rest of `gencode.c`: which bytes the generators of hosts,
networks, ports, protocols, 802.11, ATM, SS7, LLC and of the encapsulations test.
Its state is the static variables of the file (`cg`: the link type, the offsets,
constant or in a register, the depths of labels and tags), the parser's blocks, and
what the program captures. A primitive is one action, with all that its generator
does: it pushes a block, moves the offsets, is refused by `bpf_error`, or ends the
process in `abort()`. Blocks are trees of tests, since `FilterCode` has shown
what `gen_and` and its like do with the jumps; a block is run on every frame of the
handle's type. `FilterFrames` is the reference: frames are sequences of headers
with their bytes (`Encode`), and `Meaning` says of the headers, never of an
offset, what `pcap-filter.manmisc.in` says of the primitive; `Shift` says which header
the primitives after it speak of. "U" is where the manual makes no claim.

`Savefile` has the dumper with its stdio buffer, a disk that can be full, the end
of the process at any moment, and a reader that may open the file at any
moment, also while it grows. A pcap file is a sequence of bytes (so that it can be
cut anywhere) whose fields have two bytes in the order of the writer; a pcap-ng
file is a sequence of blocks. Files of other programs come in both orders, all
magic numbers and all versions, whole or cut.

`PacketCodecs` gives each class of `jxnet-packet` as a layout of byte ranges, with
what `newInstance` keeps of each field (a value that an enumeration does not know
is replaced, as the code does), how `getPacket` chooses the next class, and what
`setPacket` and `toBytes` change. `PacketPath` puts them to use: threads
with a handle each run the loops of `PacketHelper`, `next` or `nextEx`, decode
layer by layer, and hand what they find to handlers, which may return, throw, or
build packets and send them; what is sent reaches every handle of the interface,
the sender's too. `++packetNumber` is a read and a write.

`MC*` modules hold the small instances. The theorems are in `JxnetHandlesProofs`,
`CaptureLoopProofs`, `PacketFilterProofs`, `JniIdsProofs`, `DeviceActivationProofs`
(with those of `HandleActivation`), `DeviceResources`, `SavefileProofs` and `PacketPathProofs`.

The modules meet where the code does. The libpcap calls of `JxnetHandles` are
taken apart in `HandleActivation`, `CaptureLoop`, `PacketFilter` and
`Savefile`; a filter is a set of kinds in `PacketFilter` and a program in
`FilterCode`, whose comparisons `FilterPrimitives` generates; the callback of `CaptureLoop` is the handler of `PacketPath`.

## Runs

| Run | Result | What it shows |
|---|---|---|
| HandlesExclusive | holds, 36,333 states | two threads, two `Pcap`, one `PcapDumper`, three addresses: with exclusive clients each call uses its own structure, equal objects exist only during a close, and the bridge implements `HandleLifecycle`; illegal arguments included |
| HandlesAnyClient | holds, 90,099 states | clients without synchronisation: with legal arguments, whatever else breaks, no structure is lost |
| Activation | holds, 455,008 states | one handle on each kind of Linux interface and on each of 18 other devices, any failure: descriptors, buffers and what libraries hand out are accounted for, a failed activation leaves nothing, apart from what the properties except, and can be repeated, the blocking mode is the one set, the cached snapshot length is right, and activation returns |
| ActivationPair | holds, 2,280,872 states | two handles on a wireless interface, any failure: the exit list is sound but for handles noted for both modes, and the interface is restored when all are closed, unless a failure left nothing to restore it with |
| CaptureReaders | holds, about 640,000 states | over all 24 readers: each packet once, apart from what a reader drops with a break, an error or a new filter; each break ends at most one loop, few callbacks after a break, `cnt` is a maximum (exceeded by less than a block with TPACKET_V3 and netfilter), a result of 0 means that all `cnt` packets came, and a break ends the loop |
| FilterSets | holds, 4,611,258 states | two processors, a kernel that runs both filters, one or none and may refuse any: what is delivered passes the filter last set, although the ring may hold older packets, but for those on the processors; the total filter never stays behind |
| FilterCode | holds, 242,000 states | all filters of up to three comparisons and lengths, and all relations with up to four constants, bytes of the packet and operations (ADD, AND, NEG) on them: the meaning is kept, the program is valid, no scratch register is read unset, the optimizer ends |
| FilterNets | violated | three equal tests of a network with a mask whose bits are zero (in the code two suffice, as checks of the Ethernet type lie between): the program rejects every packet |
| FilterPrimitives | holds, 55,208 states | what `gencode.c` makes of the primitives on 36 link types: the captured frames are accepted exactly when the language says so, apart from the cases below, and the offsets follow the headers that the expression has named |
| JniSerial | holds, 30,809 states | references that are read are good, but in a loop whose class a later call has looked up, and IDs are set before use, with loops, callbacks and other threads' calls between |
| PacketPath | holds, 1,060,884 states | two threads, four link types: each handler gets its own packet's layer, or what the missing breaks make of it, numbers count, what is built arrives as built but for UDP in IPv4 and the destination of IPv6, checksums of IPv4 packets built once are valid, decoding ends |
| Savefile | holds, 100,142 states | files written, cut, flushed, grown, in either order and any version: what is read before the first error is a prefix of what was written, at least what was flushed; a finished file is read whole; pcap-ng times are those of the packet's own interface |

`TypeOK` is stated in every module with state. The runs list it where proofs
start from it (`JxnetHandles`).

Bounds. Two threads, two objects of one class and fewer addresses than opens
make every pairwise race and the reuse of an address possible; larger instances
of `JxnetHandles` are covered by the proofs. `CaptureLoop` bounds arrivals,
calls and breaks (`MaxArrivals`, `MaxCalls`, `MaxBreaks`) so that a flag left by
one call meets the next, and counts (`SomeCnts`: -1, which is no limit, one and two)
are both below and above the packets of a block (`MaxBlock`). `PacketFilter`
needs no bound on its behaviours: it is finite, with three frames, so
that the ring can be empty, full and wrapped around, and two processors (`CPUs`),
each with a packet that it has filtered and not yet stored: `pcap_setfilter_linux_mmap`
allows for one packet that lost the race with the new filter, and its comment asks
whether there can be more.
`JniIds` allows three calls, nested two deep: a loop, a call that replaces the
global, in the callback or beside it, and one that reads it. `HandleActivation` has a socket more than a handle
keeps (the second is the one of monitor mode), a ring of two blocks that can shrink
once, and at most `MaxSets` options that differ from their defaults: one in
Activation, where each is tried on each device, and two in ActivationPair; `Inquire`
leaves the questions between the calls out of ActivationPair, and `Retry` the second
attempts of a handle that could not undo everything (Activation has them). Every call
may fail, also after an interface was changed; `left` and `ringless` keep which interfaces
and handles a failure then leaves in the states listed below. `DeviceActivation` takes three descriptors, since a handle
on a BSD can lose one, hold one and need one to restore the mode; `MaxBlocks` is the
number of netfilter groups, of buffer sizes and of SAPs that are tried; on BPF
`pcap_can_set_rfmon` is asked at most once, before activation; packetfilter adds its
FDDI padding once. `FilterCode` has bytes of one bit and words of four: all
arithmetic (ADD, AND, NEG) is modulo the word, so overflow and carry happen
in every expression; there are two scratch registers, so that an expression can
need more than there are; a branch reaches `JumpLimit` = 4 instructions, so
that every longer filter needs long jumps; a program writes expressions of one of
two `Languages`, so that tests and arithmetic are not multiplied; packets are all contents of the given
lengths, shorter than a field included. The bound `blocks` is three comparisons, which is
what a pull-up needs; `turns` is the number of turns that no such expression needs more of.
`FilterPrimitives` has three captures: a savefile of the other byte order with three
primitives, so that two encapsulations and a test, in any nesting, meet; a live
capture, with tags beside the packet and two compiles; and the other types with two
primitives. No claim is made of payloads of 802.11 frames with four addresses, of ports
behind IPv6 extension headers, of LLC inside a tag on 802.11, of a second `lane`, of
what follows a `geneve` that the jumps have skipped, and of SS7 fields of the other
speed; `CanPush` leaves out `pppoes` and `geneve` over 802.11.
`Savefile` has bytes of two bits, a buffer smaller than a record, and a disk smaller
than four records; versions are 1.4, 2.2, 2.3, 2.4, 3.0 and that of DG/UX, link types Ethernet and
one with a pseudo-header. `PacketPath` has two frames per behaviour, one of others and
one that is sent, or two of either; a snapshot length that cuts none of the
frames and that one of them fills exactly; what users build is ARP, TCP, UDP and ICMPv4 in
IPv4, and TCP in IPv6. Deadlock is not checked where
these bounds, or clients that stop calling, end a behaviour.

Fairness. `CaptureLoop` assumes weak fairness of the reader's own steps: the
thread is scheduled, `poll` returns when its timeout is over or a packet is there
(its action is not enabled otherwise), and callbacks return. Packets, breaks,
signals and errors are not assumed. `HandleActivation` assumes weak fairness of the
steps of a call that has begun (`Running`): system calls return, with success or an
error. That the optimizer and the decoders end is stated as safety: `LoopEnds`
bounds the turns of `opt_loop`, and `DecodingAdvances` gives a measure that
every step of decoding makes smaller.

Symmetry is used for threads, objects, addresses and handles in runs of
invariants and action properties; it is not used with the liveness properties.

## Known differences

What the code does and a comment, a document or a reader's expectation says
otherwise. The first one has a run; the others show with the constants given, or
are described in the module that models them.

Filter compiler. `opt_peep` swaps the successors of a block while `opt_j` uses
dominating edges computed before (`optimize.c:856`; run FilterNets). `jset
#ffffffff` is taken to be always true (`optimize.c:860-867`). `gen_arth` keeps
the checks of the left operand only (`gencode.c:7024-7047`), where the manual says
that an index implies a check of the protocol (`pcap-filter.manmisc.in:857`);
`LostChecks` = TRUE shows it. A division by a constant zero is compiled, and
refused by `bpf_validate` only. A `tcp[-n]` index is folded into an offset that wraps
(`index` keeps it positive). In FilterPrimitives, with `Captures` as named,
`DocumentedMeaning` is violated: past an authentication header `protochain` sets X to
the length instead of adding it (`ChainCase`; `gencode.c:5798`, comment at 5762); `geneve`
after `mpls` still tests types as under a label (`StackCase`; 8338); on SLIP the
version of IP is looked for in the direction byte (`SlipCase`; 2969); radiotap padding
rounds the offset of the payload, not the length of the 802.11 header (`PadCase`; 2571,
comment at 2566); `wlan ra` and `ta` are false of control frames (`ControlCase`;
4207, `pcap-filter.manmisc.in:580`); `lane and vpi n` reads the emulated Ethernet
header (`CircuitCase`; 8482); `vpi != n` tests equality, since `gen_ncmp` negates JGT and
JGE only (`NegatedCase`; 793, comment at 769); `byte i & v` loads no byte (`BitsCase`;
7167). The directions of 802.11 before an IP host or a port end in `abort()`
(`AbortsCase` with `NeverAborts`; 3676). Without an instance: `clnp`, `esis` and `isis` on
LINUX_SLL look at offset 0; IS-IS types on C_HDLC ignore the padding byte; the check
for LE Control in `gen_prevlinkhdr_check` is never reached, since PUSH_LINKHDR has set
the previous type; a tag beside the packet is compared unmasked (7870); `(A or geneve)
and B` reads registers that A's jump left unwritten; relations on SS7 fields compare
scrambled bits; `arp host` refuses a name that also has an IPv6 address.

Handles. An argument that `CheckArgument` rejects does not stop an open call:
`preconditions.c:26` returns true exactly when it has thrown, and the handle that
is then opened is lost (HandlesAnyClient with `IllegalArgs` = TRUE violates
`NoLeak`; `Jxnet.java:57` says "@return null on error."). `PcapSetImmediateMode`
(`jxnet.c:1160`) and `PcapStats` (`jxnet.c:941`) pass on what `GetPcap` returned
unchecked (HandlesExclusive with `NoNullCall`). `PcapLoop` and `PcapDispatch`
return -2 after a break and `PcapDispatch` the number of packets, where
`Jxnet.java:68` says "-1 on error, 0 otherwise."; `PcapDispatch` throws for `cnt`
-1 (`jxnet.c:217`), which `Jxnet.java:75` allows.

Capture loop. TPACKET_V3 applies `cnt` to each block anew (`pcap-linux.c:4868`;
`Jxnet.java:64` says "maximum iteration"). Without a read timeout a break waits for
the next packet (`pcap-linux.c:4381`; `Jxnet.java:192` says that the flag will
"force" the return; `BreakForcesReturn` leaves out what `BlocksForever`).
The other readers differ from what `PcapLoop` promises in more ways, each of which
the properties name: those of USB, Bluetooth, CAN and netfilter drop the datagram
they have read when the flag is set (a packet of an NFQUEUE gets no verdict then);
those of Bluetooth, CAN and netfilter return an error where others return 0, when
nothing is there in non-blocking mode; those of NIT and packetfilter look at the flag
only when packets came, of D-Bus only when none waits, of CANUSB never, and with a
`cnt` that is not positive the last reads nothing for ever; those of DLPI, NIT,
packetfilter and NPF forget the place in their buffer when a break comes before its
first packet; that of mapped USB events forgets its count when it runs out of events;
SNF counts filtered packets and Septel empty polls; DAG and Septel return -2 although
packets were handed over.

Packet filter. A filter in user space inherits the count of an earlier kernel
filter, and filtering stops when the count ends (`pcap-linux.c:4963`; the comment
at 4959 says "there's nothing to do"): a second filter that the kernel refuses, though
it ran the first, is enough. `DeliveredPassFilter` excepts it (`inherited`). Packets on
several processors when the filter is taken are more than the one that
`blocks_to_filter_in_userland` allows for (4983; `spare`).

JNI globals. `PcapDump` in the callback of a loop leaves in `PcapPktHdrClass` a
reference that is gone when the next packet comes (`utils.c:203`); the test
`PcapDump.java:36` does so for every packet. `ReferencesValid` excepts such a loop
(`overtaken`).

Activation. When the ring cannot be set up, `status = ret` (`pcap-linux.c:1423`)
copies a `ret` that still is 1: everything is cleaned up, and the handle is
declared active without a socket; the comment above says that "ret has been set to
the error status" (`MCHandleActivation` on "eth0" with `ActiveHasSocket`). If something was to be
undone on its interface, undoing it uses the device name that the cleanup has set to null (`ringless`).
A failure after monitor mode was set leaves no socket to restore the mode with (`left`); a
pending error of the bind to an interface in both monitor and promiscuous mode puts
the handle on `pcaps_to_close` twice; a mode refused for an interface found down
writes flags of zero, and one set on an interface that then cannot be put up again stays
set (`left`). `ListSound`, `InterfacesRestored`, `MemorySound` and `FailureLeavesNothing`
except these by name. `create_ring` resets the warning that "any" cannot be
promiscuous. The `dlt_list` of a first attempt is lost when the old socket type is
tried. Closing one of two handles in monitor mode takes the mode from the other.

Other devices (`lost` and `spoilt`). USB closes its descriptor in the driver and again
in the cleanup (`pcap-usb-linux.c:339-454`), DAG does so through `dag_close`
(`pcap-dag.c:872`). D-Bus never closes its connection, since no `cleanup_op` is set, nor
one that cannot be registered (`pcap-dbus.c:148-246`). CANUSB ignores a missing pipe and
leaves the pipe open (`pcap-canusb-linux.c:290-337`). `monitor_mode` leaves its socket open
when it succeeds (`pcap-bpf.c:2316`), `pcap_can_set_rfmon_bpf` its own on several paths.
snoop keeps the socket of an interface that refuses monitor mode (`pcap-snoop.c:311`).
packetfilter adds FDDI padding to the snapshot length at every attempt. After a failed
activation with shared buffers, BPF keeps their addresses, which a second cleanup would
unmap. SNF leaves ring and board open when it fails (`pcap-snf.c:244`), `get_dlpi_ppa` its table
when the unit is not found. `dag_setnonblock` can fail after it has changed the mode.

Savefiles. `pcap_dump` drops the results of `fwrite` (603, 604), and a flush after a
failed write can return 0: the properties say nothing of a file whose writes have
failed, except that what is read is a prefix. The buffer for long packets is
static (500), shared by all readers. A patched file of an Ethernet with a snapshot length of zero
gets a buffer of 14 bytes (363; `MCFiles` leaves it out). In pcap-ng the type of
the first interface is translated and those of later ones are compared untranslated
(`sf-pcap-ng.c:1095`); a simple packet block in a file with snapshot length zero has
no data (1035); a resolution of 10^-n overflows 32 bits unless the result is exactly
zero (472-476; `UintSize`); the captured length of an enhanced packet block is not
limited by the snapshot length. A read that is tried again after a truncated record
starts at the wrong place and takes the rest of the record for packets: `NextPacket` goes on
so, and `ReadsWhatWasWritten` ends at the first error (`erred`). What the C library remembers
of an end of file is not modelled: a later read sees what was appended. A USB packet saved
in the other byte order whose snapshot length cuts the pseudo-header is not swapped back as
it was written, which `FilesAssumption` leaves out. The reader of pcap-ng files stops at an
error in the model. `PcapDumpOpen` on a file that is being read is left out.

Packets. `nextEx` decodes the zeros behind the packet unless it fills the buffer
(`PacketHelper.java:88`; `Remaining`). The switch of `decode` has no breaks, so a
listener for a class of another link type is handed a packet that is not there
(`HandedOwnPacket` allows it, by `Roots`), and
short frames throw. `ProtocolType.decode` compares signed numbers, so IPv6 in
Ethernet or SLL frames is never decoded. `setPacket` of IPv4 and IPv6 names a class
"packet.tcp.UDP" that does not exist: IPv4 drops a UDP packet (`BuiltArrives`, by `OnWire`). Some setters assign the field to itself
(`setDiffServ`, `IPv4.setChecksum`, `IPv6.setHopLimit`, `UDP.setLength`). A second
`IPv4.toBytes` writes the low byte of the checksum only (350), so `MCRebuilt` has no
IPv4. Checksums fold the carry once, and use the protocol and the data offset
before they may be set (`MCTemplates` sets them). The payload includes Ethernet
padding. `SLL.toBytes` throws for a packet with payload. The priority and format
bits of a VLAN tag are not written, and one is read from the wrong bit.
`IPv6.toBytes` writes the source twice, so its destination is lost and the checksums over it are wrong. `Fragment` reads its offset one byte early.
`RadioTap` truncates its field map. Overlapping loops with abstract listeners share
one packet number. The class initialisers of `ICMPTypeAndCode` and its subclasses
need each other, so two threads that decode their first ICMP packets can wait for
each other for ever; class loading is not modelled.

## Proofs

The theorems hold for every value of the constants that satisfies the `ASSUME` of
the module, and under the hypotheses named here. Each proof finds an invariant that
every step preserves, first checked by TLC, and has one lemma per action, or per
form of steps that the actions share.

`JxnetHandlesProofs`, for any threads, objects and addresses:

- `TypeCorrect`: `TypeOK`. The invariant `TypeInv` adds `LocalsOK`,
  what the program point says of the thread's locals (a thread in "wrap" has
  a new object, a thread in a libpcap call has an object unless it was given
  null, and so on): without it a step could store `None` where an object belongs.
- `CallsSafe`, `AliasesAreClosing`: with exclusive clients,
  `CallsUseOwnStructure` and `AliasOnlyWhileClosing`. The
  invariant `SafeInv` adds `MemorySafe` (nothing freed has been used), `LifeInv` (objects that do not exist yet, or were
  lost, are in no call), `ExclusionInv` (a thread that closes is alone on its
  handle) and `OwnerInv` (an address in a Java object is that of its own block,
  unless a close of it is at its last step). `OwnerInv` is what makes the reuse
  of addresses harmless, and it depends on `ExclusionInv`: another thread's call
  would otherwise read the address between `pcap_close` and the store of zero.
- `NothingLeaks`: with legal arguments and any clients, `NoLeak`. `LeakInv` adds
  `ArgInv` (no illegal-argument exception is pending, so a new object reaches
  Java), `PtrInv` (an object in a call still has the address the call has read,
  or zero; one that is about to be zeroed owns no block) and `UnbornInv`
  (objects not yet handed out have no address).
- `LifecycleIsFollowed`: with exclusive clients the bridge implements
  `HandleLifecycle`, initial states and every step. The mapping reads the status of
  an object off the heap, so `FollowInv` adds to `SafeInv` that a live block
  belongs to one object that has its address or is about to get it (`BlockInv`),
  that nothing is left of an object about to be zeroed (`FreedInv`), and what a
  method that makes an object knows of it (`MakerInv`). The actions fall into those
  that the abstract specification does not see, and one lemma each for entering,
  leaving, opening and closing.

`CaptureLoopProofs`, for all readers of
`CaptureLoop` and `DeviceReaders` together, and rings, buffers and counts of any size:

- `CaptureTypeCorrect`. That `toRead` stays a number of packets that are really
  there takes `HandInv` (what a reader has in hand fits in the first block of
  the ring, or in its buffer) and `PlaceInv` (a reader is only at its own program points).
  The 37 actions of `DeviceReaders` are brought to twenty forms first
  (`Leaves`, `Receives`, `Drops`, `EventsDone` ...); all later proofs go by forms.
- `EachPacketIsHandledOnce` and `BreaksAreAccounted`. `Balance` is the equation of
  `EachPacketOnce` itself; that each step keeps it comes down to what it does to the sum over
  the ring (`SumOK`), for which the first lemmas prove, from the recursive function that
  defines `SumFunction`, what a sum is after `Append`, `Tail` and a change of the first block.
  `LossInv` bounds what is dropped by the breaks.
- `LateCallbacksAreFew`. `LateInv` bounds, after a break, the callbacks made by those
  that may still come before the flag is looked at (`Coming`).
- `CntIsNearlyMaximum` and `ZeroMeansThatAllWereSeen`. `CntInv` relates `cnt` to what
  was asked for and seen in earlier reads of the same call, `CountInv` bounds the
  packets counted and in hand by `cnt`, with the excess of each kind of reader, and
  `SeenInv` says that readers that count what they hand over count no more.

`PacketFilterProofs`, for any filters and number of frames:

- `FilterTypeCorrect`, and `KernelAlwaysLetsThrough` from `SocketInv`: while frames are
  counted the new filter is already on the socket.
- `DeliveredPassed`: `DeliveredPassFilter`, for any kernels and processors. `RingInv` says where the reader and the kernel are on the
  ring (`Full`), that a packet that passed an earlier filter is so many places
  ahead as the free frames counted leave room for (`Counted`, `Reach`), and that each of
  those will be filtered when the reader comes to it (`Guarded`).

`JniIdsProofs`, for any number of threads and nested calls:

- `JniTypeCorrect`, and `IdsAreResolved`. The program of each native method is shown to have
  a shape (`FindsFirst`, `ResolvesFirst`): a class is found before it is resolved, an ID
  resolved or tested before it is used. `IdsInv` says that what is left of a method
  in progress has the shape with the IDs set so far, and that all methods but
  one wait in a loop.
- `ReferencesAreValid`. `RefsInv` says that a
  method that is left with the use of a class has found it itself, and `Newest`
  that a thread in native code is in the call made last.

`DeviceActivationProofs`, for any number of handles on any Linux devices, as
`HandleActivation` has them:

- `ActivationTypeCorrect`. `TypeInv` adds `Path`, what the place of a call says of its
  handle: between the first socket and the last buffer the handle has the
  ops of Linux and a status that is no error, with a socket of `activate_new` or the
  handle's descriptor where the code uses one, and the mode kept for later is not monitor.
- `ListIsSound` and `InterfacesAreRestored`, whatever fails.
  `Undoable` says that a handle on `pcaps_to_close` has the means to undo: it is
  at a wireless device on its way to the ring, or has its descriptor, and its ops
  are such that closing it comes by `pcap_cleanup_linux`. `Owed` says that an
  interface that is not as it was is the interface of a handle that is in the middle of
  `enter_rfmon_mode_wext` or is on the list with that very thing to undo. With
  `Distinct`, taking the first entry of a handle out of the list takes the handle out.
  31 lemmas are for the steps that touch neither the list nor an interface
  (`Plain`), and five for those that do.

The same module, for any handles and devices, those of Linux and the others:

- `CachedSnapshotHolds`: the invariant `Basic` says that an active handle is in no
  activation, so that its snapshot length stays what it is.
- `NonBlockIsAsSet`, for timeouts that are natural numbers, or devices none of
  which has a ring (`TimeoutsNatural`; a ring tells the mode by the sign of its timeout).
  `Modes` says that a ring keeps its timeout or the complement of it, as asked, and every
  other handle the mode itself. Each of the steps of an activation is shown to have the
  same `Effect` on what these invariants speak of.

`SavefileProofs`, for any packets and files, and any sizes of a byte, of the buffer of
stdio and of the disk:

- `ReadAsWritten`: `ReadsWhatWasWritten`.
- `FlushedIsRead` and `WholeIsRead`: `FlushedSurvives` and `WholeFileReadWhole`, where no
  packet is longer than `MaximumSnaplen` (`Short`): a reader takes a longer one for a
  damaged file, unless the snapshot length allows for it, and stops before it.

  None of these is inductive: what will be read depends on what the bytes of the file mean.
  The invariant `SaveInv` says that there are a format `f`, a sequence `S` of all the bytes
  the file is to have, and offsets `off` at which its packets end (`Placed`). The disk is a
  beginning of `S` (`Begins`), what the dumper holds back follows there, unless a write has
  failed (`Writing`, `Follows`), and what `PcapDumpFlush` or `PcapDumpClose` said is true of
  the disk (`Said`). An open reader has understood the header as `f` has it (`Understands`)
  and, up to its first error, stands at `off[n]` when it has given `n` packets (`Stands`), each as the writer
  had it (`HasRead`). Lemmas on bytes come first: a field of two bytes in either order is read
  back, and `SWAP` undoes the other order; that the bytes of a file come packet by packet is
  an induction on their number, made with well-founded sets.
- `NgIsRead`: `NgFaithful`. `NgKnows` says that the reader's table is, in order, the interfaces that
  the section it is in described so far, `NgHasRead` that each packet block it went past
  has its packet in `got`. Both count with sets of block numbers, as `NgFaithful` does: the
  place of a packet in `got`, or of an interface in the table, is the number of those before it.

The assumptions on the constants: bytes and fields are in range, and an interface is named by a
number. Of files of other programs, that lengths are in the order their version says: swapped
before 2.3, not swapped after it; 2.3 leaves it open, and the code swaps when more is captured
than the packet had (`sf-pcap.c:470`), so there no packet of the files may have more bytes than it
says it had. A patched file of an Ethernet says its snapshot length (`pcap_check_header` gives
one that says zero a buffer of its 14 bytes of padding only). And a file of the other byte order
with pseudo-headers does not cut them.

`DeviceResources`, for any number of handles on all devices, together:

- `DescriptorsAreHeld`: `SocketsHeld`, whatever fails.
- `MemoryIsSound` and `FailureLeaves`: `MemorySound` and `FailureLeavesNothing`, whatever
  fails.

  The three follow from one invariant, `Accounts`. Tables say for every step of the
  activations what its handle has there: its own descriptor (`WithFd`), the one
  beside it (`WithSecond`), the buffer (`WithBuffer`), what libraries gave it (`Holding`,
  `MayHold`), and whether something may have to be undone (`MayList`). `Where` and
  `Holds` state it for a handle in a call and between calls, `Debt` relates what is to
  be undone to the list of `atexit`, and `Opener` and `Owner` relate the descriptors that
  are open to the handles that hold them. None of the properties is inductive without the tables: a
  step that fails gives back what its place says it holds, no more and no
  less, and `Gives` says what the clean-up function of a device gives back.
  Each step of `DevicesNext` is shown to leave what the next one expects (`Accounted`)
  and the other handles alone (`Keeps`, `Apart`). Most steps are of a few forms (`Passing`,
  `Taking`, `Leaving`), whose conditions on the tables (`Follows`, `Gains`, `Opening` ...) are
  checked device by device; those of Linux, the undoing of what was set on an interface, DAG
  and BPF have proofs of their own.

`PacketPathProofs`, for any threads, jobs and frames:

- `NumbersAreCounted`. `NumberInv` says that while a loop with an abstract listener is
  alone no other thread has one, and that the static field is then the number of its
  callbacks, or one less while one is being numbered.

Only model-checked: liveness, which is outside the prover's reach, and the other properties of
`PacketPath`, and those of `FilterCode` and `FilterPrimitives`. `BpfMachine` uses bit operations, and what `BpfOptimizer`,
`FilterPrimitives` and `PacketCodecs` compute follows recursion over data: both are
outside of the prover's reach too.

## Not modelled

The generated scanner and parser (`scanner.c`, `grammar.c`), whose grammar is modelled
from `grammar.y`; the capture modules of MS-DOS and SITA, the activation of NIT (which
clears the `pcap_t` it activates), and of the others lists of devices, statistics and
sending. Of DLPI and BPF the splitting of device names, loading the driver on AIX and the
look-up of the unit in the kernel's memory on HP-UX 9.
Of `gencode.c`, `gateway` and the link types PPI, FRELAY, MFR, Juniper, PFLOG, IPNET,
BACNET and ERF; of `grammar.y`, the qualifiers that an operand takes over from the one
before. `PcapFile` and `PcapDumpFile`, which no Java declaration reaches; library
loading, name look-ups and the ARP helpers, which are I/O; the system calls of
`mac_address.c`; setters and `toString` of packets; addresses and the choice of a
device, which are conversions without state.

## Plan

1. Proofs of `PacketPath`: `DecodingAdvances` and `HandedOwnPacket`.
2. `Addresses` and `Devices`; `PacketFilter` with a second thread that sets the
   filter while the first reads.
