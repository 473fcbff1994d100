-------------------------- MODULE DeviceActivation --------------------------
(***************************************************************************)
(* pcap_activate and pcap_close on the devices of libpcap that are not     *)
(* Linux interfaces: what each activate_op opens, in which order, which    *)
(* failures it undoes by itself, which through its own cleanup function    *)
(* and which not at all, and what that cleanup function gives back.        *)
(*                                                                         *)
(* A step is a call that can fail, or a run of calls whose failures are    *)
(* undone alike.  Link types that are treated alike are one, "OTHER".      *)
(* Some paths of the code leave a descriptor open, close one twice or      *)
(* forget what they hold.  They are followed as they are; lost and spoilt  *)
(* remember that they were taken.                                          *)
(***************************************************************************)
EXTENDS HandleActivation

inert == <<state, priv, call, oldflags, client, iface, pcaps_to_close, exiting, marks>>

Resources == {"mapping", "context", "device", "worker", "conn", "adapter", "packet", "table",
              "zbuf", "attached", "stream", "node", "board", "ring"}

PCAP_WARNING == 1
PCAP_ERROR_PROMISC_PERM_DENIED == -11
WIN32_DEFAULT_KERNEL_BUFFER_SIZE == 2     \* a size of its own, as in Mmap
PCAP_FDDIPAD == 3
MTU == 1500                               \* of every interface of IRIX

(* The devices, by their drivers; en0 is macOS's, ath0 FreeBSD's. *)
Drivers == {"usb", "can", "bt", "nflog", "nfqueue", "canusb", "dbus", "snit", "pf", "snoop",
            "npf", "libdlpi", "dlpi", "en0", "ath0", "dag", "snf", "septel"}

ASSUME DevicesAssumption == Devices \subseteq LinuxDevices \cup Drivers

(* The calls on devices have places of their own. *)
DevicesTypeOK ==
  /\ StructuresOK /\ pc \in [Handles -> STRING]
  /\ held \in [Handles -> SUBSET Resources]
  /\ lost \subseteq Sockets /\ spoilt \subseteq Handles

-----------------------------------------------------------------------------
(* What a step does. *)

Proceed(h, step, q) ==
  /\ Goto(h, step) /\ p' = [p EXCEPT ![h] = q]
  /\ UNCHANGED <<inert, blocks, status, sock_fd, sockets, errors, devices>>

Pass(h, step) == Proceed(h, step, p[h])

Warn(h, step, st) ==
  /\ Goto(h, step) /\ status' = [status EXCEPT ![h] = st]
  /\ UNCHANGED <<inert, p, blocks, sock_fd, sockets, errors, devices>>

(* n tries are left. *)
Try(h, step, n) ==
  /\ Goto(h, step) /\ blocks' = [blocks EXCEPT ![h] = n]
  /\ UNCHANGED <<inert, p, status, sock_fd, sockets, errors, devices>>

(* open or socket: the lowest free descriptor becomes the handle's. *)
Descriptor(h, step, q) ==
  /\ Goto(h, step)
  /\ \E s \in Sockets : /\ Opened(h, s)
                        /\ p' = [p EXCEPT ![h] = [q EXCEPT !.fd = s, !.nonblock = FALSE]]
  /\ UNCHANGED <<inert, blocks, status, sock_fd, errors, devices>>

(* The same for the descriptor beside it. *)
SecondDescriptor(h, step) ==
  /\ Goto(h, step)
  /\ \E s \in Sockets : Opened(h, s) /\ sock_fd' = [sock_fd EXCEPT ![h] = s]
  /\ UNCHANGED <<inert, p, blocks, status, errors, devices>>

Malloc(h, step) ==
  /\ Goto(h, step)
  /\ p' = [p EXCEPT ![h].buffer = "live"] /\ errors' = errors \cup Alloc(p[h].buffer)
  /\ UNCHANGED <<inert, blocks, status, sock_fd, sockets, devices>>

Take(h, step, r) ==
  /\ Goto(h, step)
  /\ held' = [held EXCEPT ![h] = @ \cup {r}]
  /\ errors' = errors \cup (IF r \in held[h] THEN {"leak"} ELSE {})
  /\ UNCHANGED <<inert, p, blocks, status, sock_fd, sockets, lost, spoilt>>

(* A plain return, which leaves everything as it is. *)
Answer(h, st) ==
  /\ Return(h, st)
  /\ UNCHANGED <<inert, p, blocks, sock_fd, sockets, errors, devices>>

(* A plain return from where something should have been undone. *)
Forget(h, st) ==
  /\ Return(h, st)
  /\ spoilt' = spoilt \cup {h}
  /\ UNCHANGED <<inert, p, blocks, sock_fd, sockets, errors, held, lost>>

(* close of a descriptor that the handle keeps, and will close again. *)
CloseOnly(h, st) ==
  /\ Return(h, st)
  /\ sockets' = Closed(p[h].fd) /\ spoilt' = spoilt \cup {h}
  /\ UNCHANGED <<inert, p, blocks, sock_fd, errors, held, lost>>

(* Success, with the cleanup_op of every handle or one of the device. *)
Done(h, ops, st, q) ==
  /\ Return(h, st)
  /\ p' = [p EXCEPT ![h] = [q EXCEPT !.ops = ops]]
  /\ UNCHANGED <<inert, blocks, sock_fd, sockets, errors, devices>>

(* Failure, after pcap_cleanup_live_common. *)
Undo(h, st) ==
  /\ Return(h, st)
  /\ LiveCommon(h) /\ errors' = errors \cup LiveErrors(h)
  /\ UNCHANGED <<inert, blocks, sock_fd, devices>>

(* Failure, through the device's own cleanup function. *)
Abort(h, st) == Goto(h, "cleanup") /\ status' = [status EXCEPT ![h] = st]
                /\ UNCHANGED <<inert, p, blocks, sock_fd, sockets, errors, devices>>

(* What a cleanup function gives back: R, which it uses without asking whether
   it is there if sure, both descriptors, and all of live_common. *)
CleanUp(h, R, sure) ==
  /\ pc[h] = "cleanup"
  /\ held' = [held EXCEPT ![h] = @ \ R]
  /\ p' = [p EXCEPT ![h].buffer = "null", ![h].dlt_list = {}, ![h].fd = NULL]
  /\ sockets' = [s \in Sockets |-> IF s \in {p[h].fd, sock_fd[h]} THEN NULL ELSE sockets[s]]
  /\ sock_fd' = [sock_fd EXCEPT ![h] = NULL]
  /\ errors' = errors \cup LiveErrors(h) \cup CloseError(h, sock_fd[h])
                      \cup (IF sure /\ ~(R \subseteq held[h]) THEN {"double free"} ELSE {})
  /\ IF call[h] = "close" THEN Gone(h) ELSE Goto(h, "return") /\ UNCHANGED state
  /\ UNCHANGED <<call, oldflags, blocks, status, client, exiting, lost, marks>>

Elsewhere == UNCHANGED <<priv, iface, pcaps_to_close, spoilt>>

Of(q, type) == [q EXCEPT !.linktype = type]
Ethernet(q) == [Of(q, "EN10MB") EXCEPT !.dlt_list = {"EN10MB", "DOCSIS"}]

(* The link type an interface turns out to have; without memory for the list
   an Ethernet goes without one. *)
Media(q) == {Ethernet(q), Of(q, "EN10MB"), Of(q, "OTHER")}
Real(q) == {Ethernet(q), Of(q, "EN10MB")}

SetBufferMayFail(h) == p[h].buffer_size # 0

DeviceStart(h) ==
  /\ pc[h] = "start" /\ p[h].source \notin LinuxDevices
  /\ Pass(h, CASE p[h].source \in {"en0", "ath0"} -> "bpf"
               [] p[h].source \in {"nflog", "nfqueue"} -> "netfilter"
               [] OTHER -> p[h].source)

-----------------------------------------------------------------------------
(* Linux: USB, CAN, Bluetooth, netfilter, D-Bus and the CANUSB adapter. *)

(* The binary file of the bus, mapped if possible, or one of its text files. *)
usb_activate(h) ==
  \/ /\ pc[h] = "usb"
     /\ \/ Answer(h, PCAP_ERROR)
        \/ Descriptor(h, "usb.binary", Of(p[h], "OTHER"))
        \/ Descriptor(h, "usb.text", Of(p[h], "OTHER"))
  \/ pc[h] \in {"usb.binary", "usb.text"} /\ p[h].rfmon /\ CloseOnly(h, PCAP_ERROR_RFMON_NOTSUP)
  \/ /\ pc[h] \in {"usb.binary", "usb.text"} /\ ~p[h].rfmon
     /\ Malloc(h, "usb.buffer") \/ CloseOnly(h, PCAP_ERROR)
  \/ pc[h] = "usb.mapped" /\ Done(h, "own", 0, p[h])
  \/ pc[h] = "usb.buffer" /\ Done(h, "device", 0, p[h])

usb_mmap(h) == pc[h] = "usb.binary" /\ ~p[h].rfmon /\ Take(h, "usb.mapped", "mapping")

usb_cleanup_linux_mmap(h) == p[h].source = "usb" /\ CleanUp(h, {"mapping"}, FALSE) /\ Elsewhere

can_activate(h) ==
  \/ pc[h] = "can" /\ (Answer(h, PCAP_ERROR) \/ Descriptor(h, "can.buffer", Of(p[h], "OTHER")))
  \/ pc[h] = "can.buffer" /\ (Undo(h, PCAP_ERROR) \/ Malloc(h, "can.bind"))
  \/ pc[h] = "can.bind" /\ (Undo(h, PCAP_ERROR) \/ Pass(h, "can.rfmon"))
  \/ /\ pc[h] = "can.rfmon"
     /\ IF p[h].rfmon THEN Undo(h, PCAP_ERROR_RFMON_NOTSUP) ELSE Done(h, "device", 0, p[h])

bt_activate(h) ==
  \/ pc[h] = "bt" /\ (Answer(h, PCAP_ERROR) \/ Descriptor(h, "bt.buffer", Of(p[h], "OTHER")))
  \/ pc[h] = "bt.buffer" /\ (Undo(h, PCAP_ERROR) \/ Malloc(h, "bt.bind"))
  \/ pc[h] = "bt.bind" /\ (Undo(h, PCAP_ERROR) \/ Pass(h, "bt.rfmon"))
  \/ /\ pc[h] = "bt.rfmon"
     /\ IF p[h].rfmon THEN Undo(h, PCAP_ERROR_RFMON_NOTSUP)
        ELSE Done(h, "device", 0, p[h]) \/ (SetBufferMayFail(h) /\ Undo(h, PCAP_ERROR))

(* A configuration message to the kernel and its answer, for each message that
   is left.  Answers to others and older answers are passed over, an
   interrupted call is made again; reading nothing counts as success. *)
netfilter_send_config_msg(h) ==
  /\ pc[h] = "netfilter.send"
  /\ \/ Undo(h, PCAP_ERROR)
     \/ blocks[h] > 1 /\ Try(h, "netfilter.send", blocks[h] - 1)
     \/ blocks[h] = 1 /\ Try(h, "netfilter.rfmon", 0)

(* The groups in the name of the device, and the socket. *)
netfilter_open(h) ==
  LET nflog == [Of(p[h], "OTHER") EXCEPT !.dlt_list = {"OTHER", "NULL"}] IN
  /\ pc[h] = "netfilter"
  /\ \/ Answer(h, PCAP_ERROR)
     \/ /\ p[h].source = "nflog"
        /\ \E q \in {nflog, Of(p[h], "OTHER")} : Descriptor(h, "netfilter.buffer", q)
     \/ p[h].source = "nfqueue" /\ Descriptor(h, "netfilter.buffer", Of(p[h], "NULL"))

(* Two messages for the family, two for each group (MaxBlocks for the 32). *)
netfilter_activate(h) ==
  \/ pc[h] = "netfilter.buffer" /\ (Undo(h, PCAP_ERROR) \/ Malloc(h, "netfilter.groups"))
  \/ /\ pc[h] = "netfilter.groups"
     /\ \E groups \in 1..MaxBlocks : Try(h, "netfilter.send", 2 + 2 * groups)
  \/ /\ pc[h] = "netfilter.rfmon"
     /\ IF p[h].rfmon THEN Undo(h, PCAP_ERROR_RFMON_NOTSUP)
        ELSE Done(h, "device", 0, p[h]) \/ (SetBufferMayFail(h) /\ Undo(h, PCAP_ERROR))

(* cleanup_op is never set, so that only failures give the connection back,
   and not the one to register on a bus given by its address. *)
dbus_activate(h) ==
  \/ pc[h] = "dbus" /\ (Answer(h, PCAP_ERROR) \/ Take(h, "dbus.register", "conn"))
  \/ /\ pc[h] = "dbus.register"
     /\ Forget(h, PCAP_ERROR) \/ Proceed(h, "dbus.rules", Of(p[h], "OTHER"))
  \/ pc[h] = "dbus.rules" /\ p[h].rfmon /\ Abort(h, PCAP_ERROR_RFMON_NOTSUP)
  \/ /\ pc[h] = "dbus.rules" /\ ~p[h].rfmon
     /\ Abort(h, PCAP_ERROR) \/ Forget(h, 0)

dbus_cleanup(h) == p[h].source = "dbus" /\ CleanUp(h, {"conn"}, TRUE) /\ Elsewhere

(* The first adapter that opens, detaches, configures and claims; the library's
   context is given up if there is none. *)
canusb_activate(h) ==
  pc[h] = "canusb" /\ (Answer(h, PCAP_ERROR) \/ Take(h, "canusb.open", "context"))

canusb_opendevice(h) ==
  /\ pc[h] = "canusb.open"
  /\ \/ /\ held' = [held EXCEPT ![h] = @ \ {"context"}] /\ Return(h, PCAP_ERROR)
        /\ UNCHANGED <<inert, p, blocks, sock_fd, sockets, errors, lost, spoilt>>
     \/ Take(h, "canusb.start", "device")

(* A pipe, its reading end being the handle's descriptor, and the thread that
   fills it; no pipe is no error. *)
canusb_startcapture(h) ==
  /\ pc[h] = "canusb.start"
  /\ Return(h, 0)
  /\ \/ \E rd, wr \in Free :
          /\ rd < wr /\ \A s \in Free : s < wr => s = rd
          /\ sockets' = [sockets EXCEPT ![rd] = h, ![wr] = h]
          /\ p' = [p EXCEPT ![h] = [@ EXCEPT !.fd = rd, !.nonblock = FALSE, !.ops = "own",
                                             !.linktype = "OTHER"]]
          /\ sock_fd' = [sock_fd EXCEPT ![h] = wr]
          /\ held' = [held EXCEPT ![h] = @ \cup {"worker"}]
          /\ UNCHANGED spoilt
     \/ /\ p' = [p EXCEPT ![h] = [@ EXCEPT !.ops = "own", !.linktype = "OTHER"]]
        /\ spoilt' = spoilt \cup {h}
        /\ UNCHANGED <<sockets, sock_fd, held>>
  /\ UNCHANGED <<inert, blocks, errors, lost>>

(* The worker, the adapter and the context; not the pipe. *)
canusb_close(h) ==
  /\ pc[h] = "cleanup" /\ p[h].source = "canusb"
  /\ held' = [held EXCEPT ![h] = @ \ {"worker", "device", "context"}]
  /\ lost' = lost \cup ({p[h].fd, sock_fd[h]} \ {NULL})
  /\ p' = [p EXCEPT ![h].fd = NULL] /\ sock_fd' = [sock_fd EXCEPT ![h] = NULL]
  /\ Gone(h)
  /\ UNCHANGED <<priv, call, oldflags, blocks, status, client, sockets, iface, pcaps_to_close,
                 exiting, errors, spoilt, marks>>

-----------------------------------------------------------------------------
(* SunOS, Digital UNIX and IRIX. *)

snit_activate(h) ==
  \/ /\ pc[h] = "snit"
     /\ IF p[h].rfmon THEN Answer(h, PCAP_ERROR_RFMON_NOTSUP)
        ELSE Proceed(h, "snit.open", [p[h] EXCEPT !.snapshot = IF @ < 96 THEN 96 ELSE @])
  \/ pc[h] = "snit.open" /\ (Undo(h, PCAP_ERROR) \/ Descriptor(h, "snit.bind", p[h]))
  \/ pc[h] = "snit.bind" /\ (Undo(h, PCAP_ERROR) \/ Pass(h, "snit.flags"))
  \/ pc[h] = "snit.buffer" /\ (Undo(h, PCAP_ERROR) \/ Malloc(h, "snit.list"))
  \/ pc[h] = "snit.list" /\ \E q \in Real(p[h]) : Done(h, "device", 0, q)

(* Immediate delivery, the timeout and promiscuous mode, as asked for. *)
nit_setflags(h) ==
  pc[h] = "snit.flags" /\ (Undo(h, PCAP_ERROR) \/ Proceed(h, "snit.buffer", Of(p[h], "EN10MB")))

(* For reading and writing, else for reading; the modes; the device's type. *)
pf_open(h) ==
  \/ pc[h] = "pf" /\ (Undo(h, PCAP_ERROR) \/ Descriptor(h, "pf.type", p[h]))
  \/ /\ pc[h] = "pf.type"
     /\ \/ Undo(h, PCAP_ERROR)
        \/ \E q \in Media(p[h]) : Proceed(h, "pf.truncate", q)
        \/ /\ p[h].snapshot \in Snaplens \cup {MAXIMUM_SNAPLEN}     \* once: it adds up
           /\ Proceed(h, "pf.truncate", [Of(p[h], "OTHER") EXCEPT !.snapshot = @ + PCAP_FDDIPAD])

pf_truncate(h) ==
  \/ pc[h] = "pf.truncate" /\ (Undo(h, PCAP_ERROR) \/ Malloc(h, "pf.end"))
  \/ pc[h] = "pf.end" /\ Done(h, "device", 0, p[h])

(* The socket, bound and snooping; the interface's name tells its link type. *)
snoop_open(h) ==
  \/ pc[h] = "snoop" /\ (Undo(h, PCAP_ERROR) \/ Descriptor(h, "snoop.bind", p[h]))
  \/ /\ pc[h] = "snoop.bind"
     /\ \/ Undo(h, PCAP_ERROR)
        \/ \E q \in Media(p[h]) \cup {Of(p[h], "NULL")} : Proceed(h, "snoop.length", q)

(* Not more is captured than an interface can send. *)
snoop_length(h) ==
  LET longest == MTU + CASE p[h].linktype = "EN10MB" -> 14 [] p[h].linktype = "NULL" -> 4
                         [] OTHER -> 13 IN
  \/ /\ pc[h] = "snoop.length"
     /\ IF p[h].rfmon THEN Forget(h, PCAP_ERROR_RFMON_NOTSUP)
        ELSE \/ Undo(h, PCAP_ERROR)
             \/ Proceed(h, "snoop.buffer",
                        [p[h] EXCEPT !.snapshot = IF @ > longest THEN longest ELSE @])
  \/ pc[h] = "snoop.buffer" /\ (Undo(h, PCAP_ERROR) \/ Malloc(h, "snoop.end"))
  \/ pc[h] = "snoop.end" /\ Done(h, "device", 0, p[h])

-----------------------------------------------------------------------------
(* Windows: an adapter of the driver NPF, without a descriptor. *)

npf_open(h) ==
  \/ /\ pc[h] = "npf"
     /\ IF p[h].rfmon THEN Answer(h, PCAP_ERROR_RFMON_NOTSUP)
        ELSE Answer(h, PCAP_ERROR) \/ Take(h, "npf.type", "adapter")
  \/ /\ pc[h] = "npf.type"
     /\ \/ Abort(h, PCAP_ERROR)
        \/ \E q \in Media(p[h]) \cup {Of(p[h], "NULL"), Of(p[h], "IEEE802_11")} :
             Proceed(h, "npf.packet", q)

(* The adapter of a DAG card is given up in a build without the DAG library. *)
npf_packet(h) ==
  \/ pc[h] = "npf.packet" /\ (Abort(h, PCAP_ERROR) \/ Take(h, "npf.size", "packet"))
  \/ /\ pc[h] = "npf.size"
     /\ \/ Abort(h, PCAP_ERROR)
        \/ Proceed(h, "npf.buffer", [p[h] EXCEPT !.buffer_size =
                     IF @ = 0 THEN WIN32_DEFAULT_KERNEL_BUFFER_SIZE ELSE @])
  \/ pc[h] = "npf.buffer" /\ (Abort(h, PCAP_ERROR) \/ Malloc(h, "npf.copy"))
  \/ pc[h] = "npf.copy" /\ (Abort(h, PCAP_ERROR) \/ Done(h, "own", 0, p[h]))

pcap_cleanup_win32(h) ==
  p[h].source = "npf" /\ CleanUp(h, {"adapter", "packet"}, FALSE) /\ Elsewhere

-----------------------------------------------------------------------------
(* DLPI: Solaris through libdlpi, HP-UX, AIX and others through streams. *)

(* The link type that a MAC type stands for, unless it stands for none. *)
pcap_process_mactype(q) == Media(q)

pcap_conf_bufmod(h) ==
  pc[h] = "bufmod" /\ (Abort(h, PCAP_ERROR) \/ Pass(h, "databuf"))

pcap_alloc_databuf(h) ==
  \/ pc[h] = "databuf" /\ (Abort(h, PCAP_ERROR) \/ Malloc(h, "dlpi.end"))
  \/ pc[h] = "dlpi.end" /\ Done(h, "own", status[h], p[h])

(* What asking for a promiscuous mode ends with; an answer to a DLPI request
   also tells that there is no such unit. *)
dlpi_promiscon == {0, PCAP_ERROR, PCAP_ERROR_PERM_DENIED}
recv_ack == {0, PCAP_ERROR, PCAP_ERROR_PERM_DENIED, PCAP_ERROR_NO_SUCH_DEVICE}

(* A mode that was asked for is needed: one that a user may not set is told
   apart from a device that he may not open. *)
Promiscuous(h, answers, step) ==
  \/ Pass(h, step)
  \/ \E e \in answers \ {0} :
       Abort(h, IF p[h].promisc /\ e = PCAP_ERROR_PERM_DENIED
                THEN PCAP_ERROR_PROMISC_PERM_DENIED ELSE e)

(* All SAPs besides: in promiscuous mode without them there is a warning. *)
AllSaps(h, answers, step) ==
  \/ Pass(h, step)
  \/ \E e \in answers \ {0} :
       IF p[h].promisc THEN Warn(h, step, PCAP_WARNING) ELSE Abort(h, e)

(* The second descriptor is libdlpi's, until it becomes the handle's too. *)
libdlpi_activate(h) ==
  \/ /\ pc[h] = "libdlpi"
     /\ \/ \E e \in recv_ack \ {0} : Answer(h, e)
        \/ SecondDescriptor(h, "libdlpi.bind")
  \/ /\ pc[h] = "libdlpi.bind"
     /\ IF p[h].rfmon THEN Abort(h, PCAP_ERROR_RFMON_NOTSUP)
        ELSE Abort(h, PCAP_ERROR) \/ Pass(h, "libdlpi.promisc")
  \/ pc[h] = "libdlpi.promisc" /\ Promiscuous(h, dlpi_promiscon, "libdlpi.sap")
  \/ pc[h] = "libdlpi.sap" /\ AllSaps(h, dlpi_promiscon, "libdlpi.info")
  \/ /\ pc[h] = "libdlpi.info"
     /\ \/ Abort(h, PCAP_ERROR)
        \/ \E q \in pcap_process_mactype(p[h]) :
             Proceed(h, "bufmod", [q EXCEPT !.fd = sock_fd[h], !.nonblock = FALSE])

(* One descriptor, closed once. *)
pcap_cleanup_libdlpi(h) ==
  p[h].source = "libdlpi" /\ CleanUp(h, {}, FALSE) /\ Elsewhere

(* HP-UX reads and sends through two descriptors, of which it can miss the
   second, and looks for the unit in a table. *)
dlpi_open(h) ==
  \/ /\ pc[h] = "dlpi"
     /\ \/ \E e \in recv_ack \ {0} : Abort(h, e)
        \/ Descriptor(h, "dlpi.send", p[h])
  \/ pc[h] = "dlpi.send" /\ (Pass(h, "dlpi.ppa") \/ SecondDescriptor(h, "dlpi.ppa"))

(* The others open the device without its unit, else the device with it. *)
dlpi_unit(h) ==
  /\ pc[h] = "dlpi"
  /\ \/ \E e \in recv_ack \ {0} : Abort(h, e)
     \/ Descriptor(h, "dlpi.attach", p[h])

(* The table is freed, unless the unit is not in it. *)
get_dlpi_ppa(h) ==
  \/ pc[h] = "dlpi.ppa" /\ (Abort(h, PCAP_ERROR) \/ Take(h, "dlpi.table", "table"))
  \/ /\ pc[h] = "dlpi.table"
     /\ \/ /\ held' = [held EXCEPT ![h] = @ \ {"table"}] /\ UNCHANGED spoilt
           /\ \/ Goto(h, "dlpi.attach") /\ UNCHANGED status
              \/ Goto(h, "cleanup") /\ status' = [status EXCEPT ![h] = PCAP_ERROR]
        \/ /\ spoilt' = spoilt \cup {h} /\ UNCHANGED held
           /\ Goto(h, "cleanup")
           /\ \E e \in {PCAP_ERROR, PCAP_ERROR_NO_SUCH_DEVICE} : status' = [status EXCEPT ![h] = e]
     /\ UNCHANGED <<inert, p, blocks, sock_fd, sockets, errors, lost>>

(* Attaching, and binding where that comes first. *)
dlpi_attach(h) ==
  \/ /\ pc[h] = "dlpi.attach"
     /\ \E e \in recv_ack : IF e < 0 THEN Abort(h, e) ELSE Pass(h, "dlpi.bind")
  \/ /\ pc[h] = "dlpi.bind"
     /\ IF p[h].rfmon THEN Abort(h, PCAP_ERROR_RFMON_NOTSUP)
        ELSE Abort(h, PCAP_ERROR) \/ Pass(h, "dlpi.promisc")

(* SunATM has a mode of its own, and multicast is asked for besides; HP-UX
   binds last, from the first SAP (MaxBlocks for the 79 of them). *)
dlpi_promisc(h) ==
  \/ pc[h] = "dlpi.promisc" /\ p[h].promisc /\ Promiscuous(h, recv_ack, "dlpi.multi")
  \/ pc[h] = "dlpi.promisc" /\ ~p[h].promisc /\ Pass(h, "dlpi.sap")
  \/ pc[h] = "dlpi.promisc" /\ (Abort(h, PCAP_ERROR) \/ Pass(h, "dlpi.info"))
  \/ pc[h] = "dlpi.multi" /\ (Pass(h, "dlpi.sap") \/ Warn(h, "dlpi.sap", PCAP_WARNING))
  \/ pc[h] = "dlpi.sap" /\ AllSaps(h, recv_ack, "dlpi.last")
  \/ pc[h] = "dlpi.last" /\ (Pass(h, "dlpi.info") \/ Try(h, "dlpi.hpux", MaxBlocks))

(* The next SAP while somebody has this one. *)
dl_dohpuxbind(h) ==
  /\ pc[h] = "dlpi.hpux"
  /\ \/ Abort(h, PCAP_ERROR) \/ Pass(h, "dlpi.info")
     \/ blocks[h] > 1 /\ Try(h, "dlpi.hpux", blocks[h] - 1)

(* Early releases of Solaris cannot cut packets, about which there is a warning. *)
dlpi_linktype(h) ==
  \/ /\ pc[h] = "dlpi.info"
     /\ \/ Abort(h, PCAP_ERROR)
        \/ \E q \in pcap_process_mactype(p[h]) : Proceed(h, "bufmod", q)
  \/ pc[h] = "bufmod" /\ p[h].source = "dlpi" /\ Warn(h, "databuf", PCAP_WARNING)

pcap_cleanup_dlpi(h) == p[h].source = "dlpi" /\ CleanUp(h, {}, FALSE) /\ Elsewhere

-----------------------------------------------------------------------------
(* BPF: macOS, whose wireless types switch monitor mode on, and the BSDs. *)

Apple(h) == p[h].source = "en0"
Radio == {"IEEE802_11", "IEEE802_11_RADIO"}

(* The best 802.11 type, with a radio header if there is one. *)
find_802_11(l) == IF "IEEE802_11_RADIO" \in l THEN "IEEE802_11_RADIO"
                  ELSE IF "IEEE802_11" \in l THEN "IEEE802_11" ELSE "none"

remove_en(l) == l \ {"EN10MB"}
remove_802_11(l) == l \ Radio

(* The types an interface of type v offers, DOCSIS among those of a real
   Ethernet; none if it cannot be asked. *)
get_dlt_list(v) ==
  {IF l = {"EN10MB"} THEN {"EN10MB", "DOCSIS"} ELSE l :
     l \in {{}, {v}, {v, "IEEE802_11"}, {v} \cup Radio}}

(* The first device file that nobody has open, for reading and writing or for
   reading. *)
bpf_open(h) ==
  /\ pc[h] = "bpf"
  /\ \/ \E e \in {PCAP_ERROR, PCAP_ERROR_PERM_DENIED} : Abort(h, e)
     \/ Descriptor(h, "bpf.device", p[h])

(* The kernel's version, the zone, and a copy of the interface's name. *)
bpf_device(h) ==
  pc[h] = "bpf.device" /\ (Abort(h, PCAP_ERROR) \/ Take(h, "bpf.rfmon", "device"))

(* Before macOS 10.5 monitor mode is refused, or another interface. *)
bpf_rfmon(h) ==
  /\ pc[h] = "bpf.rfmon"
  /\ \/ Pass(h, "bpf.mode")
     \/ /\ Apple(h) /\ p[h].rfmon
        /\ \E e \in {PCAP_ERROR, PCAP_ERROR_RFMON_NOTSUP, PCAP_ERROR_NO_SUCH_DEVICE} : Abort(h, e)

(* FreeBSD shares two buffers with the kernel, if it offers to. *)
bpf_zerocopy(h) ==
  \/ /\ pc[h] = "bpf.mode"
     /\ Pass(h, "bpf.size") \/ (~Apple(h) /\ (Abort(h, PCAP_ERROR) \/ Take(h, "bpf.zbuf", "zbuf")))
  \/ pc[h] = "bpf.zbuf" /\ (Abort(h, PCAP_ERROR) \/ Pass(h, "bpf.type"))

check_setif_failure(h) ==
  {PCAP_ERROR, PCAP_ERROR_NO_SUCH_DEVICE, PCAP_ERROR_IFACE_NOT_UP}
    \cup (IF Apple(h) /\ p[h].rfmon THEN {PCAP_ERROR_RFMON_NOTSUP} ELSE {})

(* Binding with the buffer that was asked for, or with the default, halved
   while the kernel has no room (MaxBlocks for the 20 sizes). *)
bpf_size(h) ==
  \/ /\ pc[h] = "bpf.size" /\ p[h].buffer_size # 0
     /\ Pass(h, "bpf.type") \/ \E e \in check_setif_failure(h) : Abort(h, e)
  \/ pc[h] = "bpf.size" /\ p[h].buffer_size = 0 /\ Try(h, "bpf.halve", MaxBlocks)
  \/ /\ pc[h] = "bpf.halve"
     /\ \/ Pass(h, "bpf.type")
        \/ \E e \in check_setif_failure(h) : Abort(h, e)
        \/ blocks[h] > 1 /\ Try(h, "bpf.halve", blocks[h] - 1)

(* The interface's type, which linktype keeps at once, and its types. *)
bpf_type(h) ==
  /\ pc[h] = "bpf.type"
  /\ \/ Abort(h, PCAP_ERROR)
     \/ \E v \in {"EN10MB", "IEEE802_11", "OTHER"} : \E l \in get_dlt_list(v) :
          Proceed(h, "bpf.monitor", [Of(p[h], v) EXCEPT !.dlt_list = l])

(* macOS: who wants monitor mode is offered the types that switch it on, and
   who does not is offered the others; pcap_open_live offers all. *)
bpf_apple(h) ==
  LET new == find_802_11(p[h].dlt_list) IN
  /\ pc[h] = "bpf.monitor" /\ Apple(h)
  /\ \/ /\ new = "none"
        /\ IF p[h].rfmon THEN Abort(h, PCAP_ERROR_RFMON_NOTSUP) ELSE Pass(h, "bpf.list")
     \/ /\ new # "none" /\ p[h].rfmon
        /\ \E v \in {p[h].linktype, new} :
             Proceed(h, "bpf.list", [Of(p[h], v) EXCEPT !.dlt_list = remove_en(@)])
     \/ /\ new # "none" /\ ~p[h].rfmon
        /\ Proceed(h, "bpf.list", IF call[h] = "open" THEN p[h]
                                  ELSE [p[h] EXCEPT !.dlt_list = remove_802_11(@)])

(* The BSDs: a socket of its own asks for monitor mode and sets it.  It is
   closed if that fails, and left open if not. *)
monitor_mode(h) ==
  /\ pc[h] = "bpf.monitor" /\ ~Apple(h)
  /\ \/ ~p[h].rfmon /\ Pass(h, "bpf.list")
     \/ /\ p[h].rfmon
        /\ \E e \in {PCAP_ERROR, PCAP_ERROR_RFMON_NOTSUP, PCAP_ERROR_NO_SUCH_DEVICE} : Abort(h, e)
     \/ /\ p[h].rfmon
        /\ \E s \in Sockets : Opened(h, s) /\ lost' = lost \cup {s}
        /\ IF iface[p[h].source].mode = Monitor
           THEN UNCHANGED <<iface, priv, pcaps_to_close>>
           ELSE iface' = [iface EXCEPT ![p[h].source].mode = Monitor] /\ MustDo(h, "rfmon")
        /\ Goto(h, "bpf.best")
        /\ UNCHANGED <<state, p, call, sock_fd, status, oldflags, blocks, client, exiting, errors,
                       held, spoilt, marks>>

bpf_best(h) ==
  LET new == find_802_11(p[h].dlt_list) IN
  /\ pc[h] = "bpf.best"
  /\ \E v \in {p[h].linktype} \cup ({new} \ {"none"}) : Proceed(h, "bpf.list", Of(p[h], v))

(* The list of an Ethernet that could not be asked; then the modes. *)
bpf_modes(h) ==
  \/ /\ pc[h] = "bpf.list"
     /\ \E q \in IF p[h].linktype = "EN10MB" /\ p[h].dlt_list = {} THEN Real(p[h]) ELSE {p[h]} :
          Proceed(h, "bpf.modes", q)
  \/ /\ pc[h] = "bpf.modes"
     /\ \/ Abort(h, PCAP_ERROR)
        \/ Pass(h, "bpf.buffer")
        \/ p[h].promisc /\ Warn(h, "bpf.buffer", PCAP_WARNING_PROMISC_NOTSUP)

bpf_buffer(h) ==
  \/ /\ pc[h] = "bpf.buffer"
     /\ \/ Abort(h, PCAP_ERROR)
        \/ IF "zbuf" \in held[h] THEN Pass(h, "bpf.filter") ELSE Malloc(h, "bpf.filter")
  \/ pc[h] = "bpf.filter" /\ (Abort(h, PCAP_ERROR) \/ Done(h, "own", status[h], p[h]))

(* Monitor mode is left through one more socket, if there is one.  After a
   failure the handle keeps the addresses of the buffers it has unmapped. *)
pcap_cleanup_bpf(h) ==
  LET must == priv[h].must_do_on_close IN
  /\ p[h].source \in {"en0", "ath0"}
  /\ CleanUp(h, {"device", "zbuf"}, FALSE)
  /\ iface' = IF must = {} \/ Free = {} THEN iface
              ELSE [iface EXCEPT ![p[h].source].mode = "managed"]
  /\ priv' = [priv EXCEPT ![h].must_do_on_close = {}]
  /\ pcaps_to_close' = pcap_remove_from_pcaps_to_close(h)
  /\ spoilt' = IF call[h] # "close" /\ "zbuf" \in held[h] THEN spoilt \cup {h} ELSE spoilt

(* pcap_can_set_rfmon: the socket of monitor_mode, and on macOS the device file
   of an interface without an 802.11 type, is left open.  Else nothing is. *)
pcap_can_set_rfmon_bpf(h) ==
  /\ Idle(h) /\ p[h].source \in {"en0", "ath0"}
  /\ lost = {} /\ ~p[h].activated     \* a bound: asked once, before activation
  /\ \E s \in Sockets : Opened(h, s) /\ lost' = lost \cup {s}
  /\ UNCHANGED <<inert, p, pc, blocks, status, sock_fd, errors, held, spoilt>>

-----------------------------------------------------------------------------
(* Cards with libraries of their own: DAG, SNF and Septel. *)

(* failstop, faildetach, failclose: dag_close, then live_common closes again. *)
dag_fail(h) ==
  /\ Goto(h, "dag.fail") /\ status' = [status EXCEPT ![h] = PCAP_ERROR]
  /\ held' = [held EXCEPT ![h] = @ \ {"attached", "stream"}]
  /\ sockets' = Closed(p[h].fd) /\ spoilt' = spoilt \cup {h}
  /\ UNCHANGED <<inert, p, blocks, sock_fd, errors, lost>>

dag_open(h) ==
  \/ pc[h] = "dag" /\ (Undo(h, PCAP_ERROR) \/ Descriptor(h, "dag.attach", p[h]))
  \/ pc[h] = "dag.attach" /\ (dag_fail(h) \/ Take(h, "dag.start", "attached"))
  \/ pc[h] = "dag.start" /\ (dag_fail(h) \/ Take(h, "dag.settle", "stream"))

(* How much of each packet is its check sum: the card or the environment tells. *)
dag_settle(h) == pc[h] = "dag.settle" /\ (dag_fail(h) \/ Pass(h, "dag.types"))

(* The types of the card's streams, ERF always among them. *)
dag_get_datalink(h) ==
  /\ pc[h] = "dag.types"
  /\ \/ dag_fail(h)
     \/ \E q \in {[Ethernet(p[h]) EXCEPT !.dlt_list = @ \cup {"OTHER"}],
                  [Of(p[h], "OTHER") EXCEPT !.dlt_list = {"OTHER"}]} : Proceed(h, "dag.node", q)

new_pcap_dag(h) ==
  \/ pc[h] = "dag.node" /\ (dag_fail(h) \/ Take(h, "dag.end", "node"))
  \/ pc[h] = "dag.end" /\ Done(h, "own", 0, p[h])
  \/ pc[h] = "dag.fail" /\ Undo(h, PCAP_ERROR)

dag_platform_cleanup(h) ==
  p[h].source = "dag" /\ CleanUp(h, {"stream", "attached", "node"}, TRUE) /\ Elsewhere

(* The card's own way to poll may fail to change when the descriptor's has. *)
dag_setnonblock(h) ==
  /\ Idle(h) /\ p[h].activated /\ p[h].source = "dag"
  /\ \E b \in BOOLEAN : p' = [p EXCEPT ![h].nonblock = b]
  /\ spoilt' = spoilt \cup {h}
  /\ UNCHANGED <<inert, pc, blocks, status, sock_fd, sockets, errors, held, lost>>

(* At exit the cards that are still in the list are stopped. *)
atexit_handler ==
  /\ exiting /\ \A h \in Handles : pc[h] = "idle"
  /\ \E h \in Handles : "node" \in held[h] /\ Close(h)
  /\ UNCHANGED devices

(* Nothing that was opened is closed when a later call fails. *)
snf_activate(h) ==
  \/ pc[h] = "snf" /\ (Answer(h, PCAP_ERROR) \/ Take(h, "snf.ring", "board"))
  \/ pc[h] = "snf.ring" /\ (Forget(h, PCAP_ERROR) \/ Take(h, "snf.start", "ring"))
  \/ pc[h] = "snf.start" /\ (Forget(h, PCAP_ERROR) \/ Done(h, "own", 0, Of(p[h], "EN10MB")))

snf_platform_cleanup(h) == p[h].source = "snf" /\ CleanUp(h, {"ring", "board"}, TRUE) /\ Elsewhere

septel_activate(h) == pc[h] = "septel" /\ Done(h, "device", 0, Of(p[h], "OTHER"))

(* NPF and SNF turn the mode into a timeout, -1 and 0.  Windows stays in
   non-blocking mode when -1 is what was set before. *)
pcap_setnonblock_win32(h) ==
  /\ Idle(h) /\ p[h].activated /\ p[h].source = "npf"
  /\ \E b \in BOOLEAN : /\ p' = [p EXCEPT ![h].nonblock = b \/ p[h].timeout = -1]
                        /\ asked' = [asked EXCEPT ![h] = b]
  /\ UNCHANGED <<state, priv, pc, local, cache, sockets, iface, pcaps_to_close, exiting, errors,
                 devices, marks>>

snf_setnonblock(h) ==
  /\ Idle(h) /\ p[h].activated /\ p[h].source = "snf"
  /\ \E b \in BOOLEAN : /\ p' = [p EXCEPT ![h].nonblock = b]
                        /\ asked' = [asked EXCEPT ![h] = b]
  /\ UNCHANGED <<state, priv, pc, local, cache, sockets, iface, pcaps_to_close, exiting, errors,
                 devices, marks>>

-----------------------------------------------------------------------------
CleaningUp(h) ==
  \/ usb_cleanup_linux_mmap(h) \/ dbus_cleanup(h) \/ canusb_close(h) \/ pcap_cleanup_win32(h)
  \/ pcap_cleanup_libdlpi(h) \/ pcap_cleanup_dlpi(h) \/ pcap_cleanup_bpf(h)
  \/ dag_platform_cleanup(h) \/ snf_platform_cleanup(h)

DeviceRunning(h) ==
  \/ DeviceStart(h) \/ usb_activate(h) \/ usb_mmap(h) \/ can_activate(h)
  \/ bt_activate(h) \/ netfilter_open(h) \/ netfilter_activate(h)
  \/ netfilter_send_config_msg(h) \/ dbus_activate(h) \/ canusb_activate(h)
  \/ canusb_opendevice(h) \/ canusb_startcapture(h) \/ snit_activate(h)
  \/ nit_setflags(h) \/ pf_open(h) \/ pf_truncate(h) \/ snoop_open(h)
  \/ snoop_length(h) \/ npf_open(h) \/ npf_packet(h) \/ pcap_conf_bufmod(h)
  \/ pcap_alloc_databuf(h) \/ libdlpi_activate(h) \/ dlpi_open(h) \/ dlpi_unit(h)
  \/ get_dlpi_ppa(h) \/ dlpi_attach(h) \/ dlpi_promisc(h) \/ dl_dohpuxbind(h)
  \/ dlpi_linktype(h) \/ bpf_open(h) \/ bpf_device(h) \/ bpf_rfmon(h)
  \/ bpf_zerocopy(h) \/ bpf_size(h) \/ bpf_type(h) \/ bpf_apple(h) \/ monitor_mode(h)
  \/ bpf_best(h) \/ bpf_modes(h) \/ bpf_buffer(h) \/ dag_open(h) \/ dag_settle(h)
  \/ dag_get_datalink(h) \/ new_pcap_dag(h) \/ snf_activate(h) \/ septel_activate(h)
  \/ CleaningUp(h)

Inquired(h) ==
  \/ pcap_can_set_rfmon_bpf(h) \/ pcap_setnonblock_win32(h) \/ snf_setnonblock(h)
  \/ dag_setnonblock(h)

DevicesNext ==
  \/ Next
  \/ \E h \in Handles : DeviceRunning(h) \/ (Inquire /\ Inquired(h))
  \/ atexit_handler

DevicesSpec == Init /\ [][DevicesNext]_vars

(* A call that is in progress goes on. *)
FairDevicesSpec ==
  /\ DevicesSpec
  /\ \A h \in Handles : WF_vars(DeviceRunning(h) \/ Running(h))

-----------------------------------------------------------------------------
(* Properties. *)

(* Every open descriptor is held by the handle that opened it, as its own or as
   the one beside it, or is one of those that the code is known to lose: none
   is lost on another path of an activation.  And none is closed that belongs
   to another handle, as long as no handle has closed one twice or kept one
   that is closed. *)
SocketsHeld ==
  /\ \A s \in Sockets \ lost : sockets[s] # NULL =>
       \E h \in Handles : /\ sockets[s] = h
                          /\ \/ h \in spoilt
                             \/ state[h] = "open" /\ s \in {p[h].fd, sock_fd[h]}
  /\ spoilt = {} => \A h \in Handles : p[h].fd # NULL => sockets[p[h].fd] = h

(* The cleanup functions free each buffer once, forget none of them and never
   use what is not there, whatever fails, also when a handle that could not be
   activated is activated again; but for the paths that spoil a handle.  On
   Linux the name of the interface is used when it is freed already, once the
   ring of a handle with something to undo could not be set up. *)
MemorySound == spoilt = {} => errors \subseteq IF ringless = {} THEN {} ELSE {"null device"}

(* An activation that fails leaves nothing behind, whatever the device and the
   step: no descriptor, buffer or mapping, nothing of the device's libraries,
   and no entry in pcaps_to_close, unless it is noted there for both things,
   as ListSound says; nor does a handle that is closed. *)
FailureLeavesNothing ==
  \A h \in Handles \ spoilt :
    /\ pc[h] = "return" /\ status[h] < 0 =>
         /\ p[h].fd = NULL /\ sock_fd[h] = NULL /\ p[h].buffer = "null" /\ held[h] = {}
         /\ priv[h].device # "live" /\ ~priv[h].mmapbuf /\ priv[h].oneshot_buffer # "live"
         /\ \/ priv[h].must_do_on_close = {"promisc", "rfmon"}
            \/ \A i \in DOMAIN pcaps_to_close : pcaps_to_close[i] # h
    /\ state[h] = "closed" => p[h].fd = NULL /\ p[h].buffer = "null" /\ held[h] = {}

(* On an active handle PcapGetNonBlock tells what PcapSetNonBlock set last, and
   switching a ring back restores the timeout that was asked for. *)
NonBlockAsSet ==
  \A h \in Handles \ spoilt : p[h].activated /\ state[h] = "open" /\ pc[h] = "idle"
                     /\ (p[h].fd # NULL \/ p[h].source \in {"npf", "snf"}) =>
    /\ PcapGetNonBlock(h) = asked[h] \/ (p[h].source = "npf" /\ p[h].timeout = -1)
    /\ p[h].ops = "mmap" /\ ~asked[h] => priv[h].timeout = p[h].timeout
=============================================================================
