-------------------------- MODULE HandleActivation --------------------------
(***************************************************************************)
(* PcapCreate, the setters, PcapActivate, PcapOpenLive and PcapClose over  *)
(* the bundled libpcap: pcap.c, and the activation of a Linux interface in *)
(* pcap-linux.c with its sockets, its ring, its buffers, the interface's   *)
(* flags and wireless mode, and everything that is undone when a step      *)
(* fails, when the handle is closed and when the process exits.  The calls *)
(* on one handle follow one another; handles are used side by side, each   *)
(* system call being a step of its own.                                    *)
(*                                                                         *)
(* A buffer is only a pointer: null, live, or dangling after a free that   *)
(* does not clear it.  Socket numbers are handed out again once closed.    *)
(***************************************************************************)
EXTENDS Integers, Sequences, FiniteSets

Options == {"snapshot", "promisc", "rfmon", "immediate", "timeout", "buffer_size"}

CONSTANTS Handles, Devices,   \* names: LinuxDevices and others
          Sockets,            \* file descriptors, natural numbers
          Snaplens, Timeouts, \* arguments of the setters
          MaxBlocks,          \* blocks of the ring that is asked for first
          Tpacket,            \* the newest TPACKET version that the kernel has
          Inquire,            \* do clients ask and change modes besides?
          Retry,              \* is a handle activated again that could not undo everything?
          Settable, MaxSets   \* the options clients set, and how many may differ
                              \* from their defaults, over all handles

ASSUME ActivationAssumption ==
         /\ Sockets \subseteq Nat /\ Snaplens \subseteq Nat /\ Timeouts \subseteq Int
         /\ Devices \subseteq STRING /\ Devices # {}
         /\ Inquire \in BOOLEAN /\ Retry \in BOOLEAN
         /\ Tpacket \in 1..3 /\ MaxBlocks \in Nat \ {0} /\ MaxSets \in Nat
         /\ Settable \subseteq Options

NULL == -1

ASSUME HandlesAssumption == NULL \notin Handles

VARIABLES
  state,    \* "none", "open" or "closed": the Java object and its pcap_t
  p,        \* the pcap_t of each handle
  priv,     \* its struct pcap_linux
  pc, call, \* where a call on the handle is, and which call: "activate", "open", "close"
  sock_fd, status, oldflags, blocks,   \* its locals: a socket, the result, was the
            \* interface up, tp_block_nr
  cache,    \* Pcap.java: snapshotLength and dataLinkType
  asked,    \* the mode last set by PcapSetNonBlock
  sockets,  \* the handle that opened each open socket
  iface,    \* flags and wireless mode of each interface
  pcaps_to_close, exiting,
  errors,   \* what the heap and the kernel would have caught
  held, lost, spoilt, \* of the devices in DeviceActivation: what a handle holds besides
            \* its descriptors and its buffer; descriptors that nobody will close; handles
            \* that went through a path that leaves something behind
  left, ringless  \* of Linux: interfaces that a failure has left changed; handles declared
            \* active without a ring, for which something was to be undone

local == <<call, sock_fd, status, oldflags, blocks>>
client == <<cache, asked>>
devices == <<held, lost, spoilt>>
marks == <<left, ringless>>
aside == <<client, devices, marks>>
vars == <<state, p, priv, pc, call, sock_fd, status, oldflags, blocks, cache, asked,
          sockets, iface, pcaps_to_close, exiting, errors, held, lost, spoilt, left, ringless>>

LinuxDevices == {"any", "toolong", "eth0", "wlan0", "isdn0"}   \* see Link
Interfaces == Devices \cap {"eth0", "wlan0", "isdn0", "ath0"}
Original == [mode |-> "managed", up |-> TRUE, promisc |-> FALSE]
Monitor == "monitor"

PCAP_ERROR == -1
PCAP_ERROR_NOT_ACTIVATED == -3
PCAP_ERROR_NO_SUCH_DEVICE == -5
PCAP_ERROR_RFMON_NOTSUP == -6
PCAP_ERROR_PERM_DENIED == -8
PCAP_ERROR_IFACE_NOT_UP == -9
PCAP_WARNING_PROMISC_NOTSUP == 2
Statuses == -12..3

MAXIMUM_SNAPLEN == 262144
SLL_HDR_LEN == 16
Pointers == {"null", "live", "dangling"}
Types == {"NULL", "EN10MB", "DOCSIS", "IEEE802_11", "IEEE802_11_RADIO", "LINUX_SLL", "OTHER"}

(* pcap_create_common and pcap_create_interface: the defaults. *)
NewPcap(dev) ==
  [source |-> dev, activated |-> FALSE, ops |-> "none", fd |-> NULL, nonblock |-> FALSE,
   snapshot |-> MAXIMUM_SNAPLEN, linktype |-> "NULL", dlt_list |-> {}, buffer |-> "null",
   promisc |-> FALSE, rfmon |-> FALSE, immediate |-> FALSE, timeout |-> 0, buffer_size |-> 0]

NewPriv ==
  [device |-> "null", oneshot_buffer |-> "null", mmapbuf |-> FALSE, must_do_on_close |-> {},
   oldmode |-> "managed", timeout |-> 0, cooked |-> FALSE, tp_version |-> 1]

(* The places of a call. *)
Places ==
  {"idle", "start", "socket", "rfmon", "down", "mode", "up", "arptype", "reopen", "bind", "finish",
   "mmap", "ring", "map", "rcvbuf", "old", "oldbind", "oldpromisc", "restore", "release", "return",
   "live", "destroy", "probe", "cleanup"}

PcapType ==
  [source : Devices, activated : BOOLEAN, ops : {"none", "linux", "mmap", "device", "own"},
   fd : Sockets \cup {NULL}, nonblock : BOOLEAN, snapshot : Nat,
   linktype : Types, dlt_list : SUBSET Types, buffer : Pointers,
   promisc : BOOLEAN, rfmon : BOOLEAN, immediate : BOOLEAN,
   timeout : Int, buffer_size : {0, 1, 2}]
PrivType ==
  [device : Pointers, oneshot_buffer : Pointers, mmapbuf : BOOLEAN,
   must_do_on_close : SUBSET {"promisc", "rfmon"}, oldmode : {"managed", Monitor},
   timeout : Int, cooked : BOOLEAN, tp_version : 1..3]
CacheType == [snapshotLength : Int, dataLinkType : Types \cup {"null"}]
IfaceType == [mode : {"managed", Monitor}, up : BOOLEAN, promisc : BOOLEAN]

(* What does not depend on the places that a call may be at. *)
StructuresOK ==
  /\ state \in [Handles -> {"none", "open", "closed"}]
  /\ p \in [Handles -> PcapType] /\ priv \in [Handles -> PrivType]
  /\ cache \in [Handles -> CacheType]
  /\ call \in [Handles -> {"activate", "open", "close"}]
  /\ sock_fd \in [Handles -> Sockets \cup {NULL}]
  /\ status \in [Handles -> Statuses] /\ oldflags \in [Handles -> BOOLEAN]
  /\ blocks \in [Handles -> Nat] /\ asked \in [Handles -> BOOLEAN]
  /\ sockets \in [Sockets -> Handles \cup {NULL}] /\ iface \in [Interfaces -> IfaceType]
  /\ pcaps_to_close \in Seq(Handles) /\ exiting \in BOOLEAN
  /\ errors \subseteq {"leak", "double free", "null device", "foreign socket"}
  /\ left \subseteq Interfaces /\ ringless \subseteq Handles
  /\ \A h \in Handles : pc[h] # "idle" => state[h] = "open"

(* Every variable has its type; a call is in progress on open handles only. *)
TypeOK == StructuresOK /\ pc \in [Handles -> Places]

Init ==
  /\ state = [h \in Handles |-> "none"]
  /\ p = [h \in Handles |-> NewPcap(CHOOSE dev \in Devices : TRUE)]
  /\ priv = [h \in Handles |-> NewPriv]
  /\ pc = [h \in Handles |-> "idle"] /\ call = [h \in Handles |-> "activate"]
  /\ sock_fd = [h \in Handles |-> NULL] /\ status = [h \in Handles |-> 0]
  /\ blocks = [h \in Handles |-> 0] /\ oldflags = [h \in Handles |-> FALSE]
  /\ cache = [h \in Handles |-> [snapshotLength |-> 0, dataLinkType |-> "null"]]
  /\ asked = [h \in Handles |-> FALSE]
  /\ sockets = [s \in Sockets |-> NULL]
  /\ iface = [i \in Interfaces |-> Original]
  /\ pcaps_to_close = <<>> /\ exiting = FALSE /\ errors = {}
  /\ held = [h \in Handles |-> {}] /\ lost = {} /\ spoilt = {}
  /\ left = {} /\ ringless = {}

-----------------------------------------------------------------------------
(* Helpers. *)

Idle(h) == state[h] = "open" /\ pc[h] = "idle" /\ ~exiting

Goto(h, step) == pc' = [pc EXCEPT ![h] = step]
Return(h, st) == Goto(h, "return") /\ status' = [status EXCEPT ![h] = st]
Fail(h, st) == Goto(h, "restore") /\ status' = [status EXCEPT ![h] = st]

(* The kernel gives the lowest free descriptor. *)
Free == {s \in Sockets : sockets[s] = NULL}
Opened(h, s) == /\ s \in Free /\ \A t \in Free : s <= t
                /\ sockets' = [sockets EXCEPT ![s] = h]
Closed(s) == IF s = NULL THEN sockets ELSE [sockets EXCEPT ![s] = NULL]

(* Assigning a fresh buffer to a pointer, and freeing what it points to. *)
Alloc(x) == IF x = "live" THEN {"leak"} ELSE {}
Dealloc(x) == IF x = "dangling" THEN {"double free"} ELSE {}
CloseError(h, s) == IF s # NULL /\ sockets[s] # h THEN {"foreign socket"} ELSE {}

(* What an interface of this name is: its link-layer type, the types it may
   be set to, and whether it can only be read through a cooked socket. *)
Link(dev) ==
  CASE dev = "eth0" -> [linktype |-> "EN10MB", dlt_list |-> {"EN10MB", "DOCSIS"}, cooked |-> FALSE]
    [] dev = "wlan0" -> [linktype |-> IF iface[dev].mode = Monitor THEN "IEEE802_11" ELSE "EN10MB",
                         dlt_list |-> {}, cooked |-> FALSE]
    [] OTHER -> [linktype |-> "EN10MB", dlt_list |-> {}, cooked |-> TRUE]

-----------------------------------------------------------------------------
(* Creating and configuring. *)

PcapCreate(h) ==
  /\ state[h] = "none" /\ ~exiting
  /\ state' = [state EXCEPT ![h] = "open"]
  /\ \E dev \in Devices : p' = [p EXCEPT ![h] = NewPcap(dev)]
  /\ UNCHANGED <<priv, pc, local, aside, sockets, iface, pcaps_to_close, exiting, errors>>

(* pcap_open_live: create, three setters and pcap_activate in one call. *)
PcapOpenLive(h) ==
  /\ state[h] = "none" /\ ~exiting
  /\ state' = [state EXCEPT ![h] = "open"]
  /\ \E dev \in Devices, len \in Snaplens, to \in Timeouts, pr \in BOOLEAN :
       p' = [p EXCEPT ![h] = [NewPcap(dev) EXCEPT !.snapshot = len, !.timeout = to,
                                                  !.promisc = pr]]
  /\ Goto(h, "start") /\ call' = [call EXCEPT ![h] = "open"]
  /\ UNCHANGED <<priv, sock_fd, status, oldflags, blocks, aside, sockets, iface, pcaps_to_close,
                 exiting, errors>>

(* A setter: on an activated handle it returns PCAP_ERROR_ACTIVATED only. *)
Set(h, option, v) ==
  /\ Idle(h) /\ ~p[h].activated /\ option \in Settable
  /\ p' = [p EXCEPT ![h][option] = v]
  /\ Cardinality({ho \in Handles \X Options :
                    p'[ho[1]][ho[2]] # NewPcap(p[ho[1]].source)[ho[2]]}) <= MaxSets
  /\ UNCHANGED <<state, priv, pc, local, aside, sockets, iface, pcaps_to_close, exiting, errors>>

PcapSetSnaplen(h) == \E n \in Snaplens : Set(h, "snapshot", n)
PcapSetPromisc(h) == \E b \in BOOLEAN : Set(h, "promisc", b)
PcapSetTimeout(h) == \E t \in Timeouts : Set(h, "timeout", t)
PcapSetRfMon(h) == \E b \in BOOLEAN : Set(h, "rfmon", b)
PcapSetImmediateMode(h) == \E b \in BOOLEAN : Set(h, "immediate", b)
PcapSetBufferSize(h) == Set(h, "buffer_size", 1)

(* pcap_set_datalink: one of dlt_list; also on a handle that is not active. *)
PcapSetDataLink(h) ==
  /\ Idle(h)
  /\ \E dlt \in p[h].dlt_list : p' = [p EXCEPT ![h].linktype = dlt]
  /\ UNCHANGED <<state, priv, pc, local, aside, sockets, iface, pcaps_to_close, exiting, errors>>

(* pcap_can_set_rfmon_linux opens a socket to ask for the wireless mode. *)
PcapCanSetRfMon(h) ==
  /\ Idle(h) /\ p[h].source \in LinuxDevices \ {"any"}
  /\ \E s \in Sockets : Opened(h, s) /\ sock_fd' = [sock_fd EXCEPT ![h] = s]
  /\ Goto(h, "probe")
  /\ UNCHANGED <<state, p, priv, call, status, oldflags, blocks, aside, iface, pcaps_to_close,
                 exiting, errors>>

Probe(h) ==
  /\ pc[h] = "probe"
  /\ sockets' = Closed(sock_fd[h]) /\ sock_fd' = [sock_fd EXCEPT ![h] = NULL]
  /\ errors' = errors \cup CloseError(h, sock_fd[h])
  /\ Goto(h, "idle")
  /\ UNCHANGED <<state, p, priv, call, status, oldflags, blocks, aside, iface, pcaps_to_close, exiting>>

(* Mutant of pcap_snapshot: answers before activation. *)
pcap_snapshotEarly(h) == p[h].snapshot

(* Pcap.getSnapshotLength and getDataLinkType keep what they were told; an
   unknown link type is the null that is asked for again. *)
pcap_snapshot(h) ==
  IF p[h].activated THEN p[h].snapshot ELSE PCAP_ERROR_NOT_ACTIVATED

pcap_datalink(h) == IF p[h].activated THEN p[h].linktype ELSE "null"

getSnapshotLength(h) ==
  /\ Idle(h) /\ cache[h].snapshotLength = 0
  /\ cache' = [cache EXCEPT ![h].snapshotLength = pcap_snapshot(h)]
  /\ UNCHANGED <<state, p, priv, pc, local, asked, devices, marks, sockets, iface, pcaps_to_close,
                 exiting, errors>>

getDataLinkType(h) ==
  /\ Idle(h) /\ cache[h].dataLinkType = "null"
  /\ cache' = [cache EXCEPT ![h].dataLinkType = pcap_datalink(h)]
  /\ UNCHANGED <<state, p, priv, pc, local, asked, devices, marks, sockets, iface, pcaps_to_close,
                 exiting, errors>>

(* Mutant of Complement: the sign only, so that 0 stays 0. *)
Negative(t) == -t

(* PcapSetNonBlock.  A ring keeps its timeout as the complement, which is
   negative, while it is in non-blocking mode. *)
Complement(t) == -t - 1

PcapSetNonBlock(h) ==
  /\ Idle(h) /\ p[h].ops # "none" /\ p[h].fd # NULL
  /\ \E b \in BOOLEAN :
       /\ p' = [p EXCEPT ![h].nonblock = b]
       /\ priv' = IF p[h].ops = "mmap" /\ b # (priv[h].timeout < 0)
                  THEN [priv EXCEPT ![h].timeout = Complement(@)] ELSE priv
       /\ asked' = [asked EXCEPT ![h] = b]
  /\ UNCHANGED <<state, pc, local, cache, devices, marks, sockets, iface, pcaps_to_close, exiting,
                 errors>>

PcapGetNonBlock(h) ==
  IF p[h].ops = "mmap" THEN priv[h].timeout < 0 ELSE p[h].nonblock

-----------------------------------------------------------------------------
(* pcap_activate and pcap_activate_linux. *)

PcapActivate(h) ==
  /\ Idle(h) /\ ~p[h].activated /\ (Retry \/ priv[h].must_do_on_close = {})
  /\ Goto(h, "start") /\ call' = [call EXCEPT ![h] = "activate"]
  /\ UNCHANGED <<state, p, priv, sock_fd, status, oldflags, blocks, aside, sockets, iface,
                 pcaps_to_close, exiting, errors>>

(* A name that is too long; the ops; no promiscuous mode on "any"; the name. *)
Start(h) ==
  /\ pc[h] = "start"
  /\ \/ /\ p[h].source = "toolong"
        /\ Fail(h, PCAP_ERROR_NO_SUCH_DEVICE)
        /\ UNCHANGED <<p, priv, errors>>
     \/ /\ p[h].source \in LinuxDevices \ {"toolong"}
        /\ LET warn == p[h].source = "any" /\ p[h].promisc IN
             /\ p' = [p EXCEPT ![h].ops = "linux", ![h].promisc = @ /\ ~warn]
             /\ \/ /\ priv' = [priv EXCEPT ![h].device = "live", ![h].timeout = p[h].timeout]
                   /\ errors' = errors \cup Alloc(priv[h].device)
                   /\ Goto(h, "socket")
                   /\ status' = [status EXCEPT ![h] =
                                   IF warn THEN PCAP_WARNING_PROMISC_NOTSUP ELSE 0]
                \/ /\ priv' = [priv EXCEPT ![h].device = "null"]
                   /\ errors' = errors \cup Alloc(priv[h].device)
                   /\ Return(h, PCAP_ERROR)
  /\ UNCHANGED <<state, call, sock_fd, oldflags, blocks, aside, sockets, iface, pcaps_to_close, exiting>>

(* activate_new: the packet socket.  Old kernels have none. *)
Socket(h) ==
  /\ pc[h] = "socket"
  /\ \/ /\ \E s \in Sockets : Opened(h, s) /\ sock_fd' = [sock_fd EXCEPT ![h] = s]
        /\ Goto(h, IF p[h].source = "any" THEN "finish"
                   ELSE IF p[h].rfmon THEN "rfmon" ELSE "arptype")
        /\ UNCHANGED status
     \/ /\ Goto(h, "old") /\ UNCHANGED <<status, sock_fd, sockets>>
     \/ /\ \E e \in {PCAP_ERROR, PCAP_ERROR_PERM_DENIED} : Fail(h, e)
        /\ UNCHANGED <<sock_fd, sockets>>
  /\ UNCHANGED <<state, p, priv, call, oldflags, blocks, aside, iface, pcaps_to_close, exiting, errors>>

(* Mutant of CloseAndFail: the socket is forgotten. *)
FailOpen(h, st) ==
  /\ Fail(h, st)
  /\ sock_fd' = [sock_fd EXCEPT ![h] = NULL]
  /\ UNCHANGED <<p, priv, sockets, errors, iface, pcaps_to_close>>

(* activate_new closes its socket before it returns an error. *)
CloseAndFail(h, st) ==
  /\ Fail(h, st)
  /\ sockets' = Closed(sock_fd[h]) /\ sock_fd' = [sock_fd EXCEPT ![h] = NULL]
  /\ errors' = errors \cup CloseError(h, sock_fd[h])
  /\ UNCHANGED <<p, priv, iface, pcaps_to_close>>

(* Mutant of Rfmon: a mode that is monitor already is taken for the old one. *)
RfmonAlways(h) ==
  /\ pc[h] = "rfmon"
  /\ \/ p[h].source # "wlan0" /\ CloseAndFail(h, PCAP_ERROR_RFMON_NOTSUP)
     \/ /\ p[h].source = "wlan0"
        /\ Goto(h, "down") /\ priv' = [priv EXCEPT ![h].oldmode = iface[p[h].source].mode]
        /\ UNCHANGED <<p, status, sock_fd, sockets, iface, pcaps_to_close, errors>>
  /\ UNCHANGED <<state, call, oldflags, blocks, aside, exiting>>

(* An interface in monitor mode is left as it is; else its mode is kept for
   the time when it will be put back. *)
OldMode(h) ==
  IF iface[p[h].source].mode = Monitor
  THEN Goto(h, "arptype") /\ UNCHANGED priv
  ELSE Goto(h, "down") /\ priv' = [priv EXCEPT ![h].oldmode = iface[p[h].source].mode]

(* enter_rfmon_mode_wext.  First the questions: is it wireless, which way is
   it set, which mode is it in?  Then down, the mode, and up again. *)
Rfmon(h) ==
  /\ pc[h] = "rfmon"
  /\ \/ p[h].source # "wlan0" /\ CloseAndFail(h, PCAP_ERROR_RFMON_NOTSUP)
     \/ p[h].source = "wlan0" /\ CloseAndFail(h, PCAP_ERROR)
     \/ /\ p[h].source = "wlan0"
        /\ OldMode(h)
        /\ UNCHANGED <<p, status, sock_fd, sockets, iface, pcaps_to_close, errors>>
  /\ UNCHANGED <<state, call, oldflags, blocks, aside, exiting>>

(* pcap_add_to_pcaps_to_close, with what will have to be undone. *)
MustDo(h, what) ==
  /\ priv' = [priv EXCEPT ![h].must_do_on_close = @ \cup {what}]
  /\ pcaps_to_close' = <<h>> \o pcaps_to_close

(* MONITOR_PRISM: a private ioctl changes the mode; else the interface goes down. *)
Down(h) ==
  /\ pc[h] = "down"
  /\ \/ /\ iface' = [iface EXCEPT ![p[h].source].mode = Monitor]
        /\ MustDo(h, "rfmon")
        /\ Goto(h, "arptype")
        /\ UNCHANGED <<p, status, sock_fd, sockets, errors, oldflags>>
     \/ /\ oldflags' = [oldflags EXCEPT ![h] = iface[p[h].source].up]
        /\ iface' = [iface EXCEPT ![p[h].source].up = FALSE]
        /\ Goto(h, "mode")
        /\ UNCHANGED <<p, priv, status, sock_fd, sockets, pcaps_to_close, errors>>
     \/ CloseAndFail(h, PCAP_ERROR) /\ UNCHANGED oldflags
  /\ UNCHANGED <<state, call, blocks, aside, exiting>>

(* An interface that was found down is taken down again when the mode is
   refused, also if somebody has put it up meanwhile. *)
Mode(h) ==
  /\ pc[h] = "mode"
  /\ \/ /\ iface' = [iface EXCEPT ![p[h].source].mode = Monitor]
        /\ Goto(h, "up")
        /\ UNCHANGED <<status, sock_fd, sockets, errors, left>>
     \/ /\ left' = IF oldflags[h] THEN left ELSE left \cup {p[h].source}
        /\ iface' = [iface EXCEPT ![p[h].source].up = oldflags[h],
                                  ![p[h].source].promisc = @ /\ oldflags[h]]
        /\ Fail(h, PCAP_ERROR_RFMON_NOTSUP)
        /\ sockets' = Closed(sock_fd[h]) /\ sock_fd' = [sock_fd EXCEPT ![h] = NULL]
        /\ errors' = errors \cup CloseError(h, sock_fd[h])
  /\ UNCHANGED <<state, p, priv, call, oldflags, blocks, client, devices, ringless, pcaps_to_close,
                 exiting>>

(* Nothing was noted yet: if the interface cannot be put up, it stays as it is. *)
Up(h) ==
  /\ pc[h] = "up"
  /\ \/ /\ iface' = [iface EXCEPT ![p[h].source].up = @ \/ oldflags[h]]
        /\ MustDo(h, "rfmon")
        /\ Goto(h, "arptype")
        /\ UNCHANGED <<p, status, sock_fd, sockets, errors, left>>
     \/ CloseAndFail(h, PCAP_ERROR) /\ left' = left \cup {p[h].source}
  /\ UNCHANGED <<state, call, oldflags, blocks, client, devices, ringless, exiting>>

(* iface_get_arptype and map_arphrd_to_dlt; some types need a cooked socket. *)
ArpType(h) ==
  /\ pc[h] = "arptype"
  /\ \/ \E e \in {PCAP_ERROR, PCAP_ERROR_NO_SUCH_DEVICE} : CloseAndFail(h, e)
     \/ LET link == Link(p[h].source) IN
        /\ p' = [p EXCEPT ![h].linktype = link.linktype, ![h].dlt_list = link.dlt_list]
        /\ Goto(h, IF link.cooked THEN "reopen" ELSE "bind")
        /\ priv' = [priv EXCEPT ![h].cooked = FALSE]
        /\ sockets' = IF link.cooked THEN Closed(sock_fd[h]) ELSE sockets
        /\ sock_fd' = IF link.cooked THEN [sock_fd EXCEPT ![h] = NULL] ELSE sock_fd
        /\ UNCHANGED <<status, iface, pcaps_to_close, errors>>
  /\ UNCHANGED <<state, call, oldflags, blocks, aside, exiting>>

Reopen(h) ==
  /\ pc[h] = "reopen"
  /\ \/ /\ \E s \in Sockets : Opened(h, s) /\ sock_fd' = [sock_fd EXCEPT ![h] = s]
        /\ p' = [p EXCEPT ![h].linktype = "LINUX_SLL", ![h].dlt_list = {}]
        /\ priv' = [priv EXCEPT ![h].cooked = TRUE]
        /\ Goto(h, "bind") /\ UNCHANGED status
     \/ /\ \E e \in {PCAP_ERROR, PCAP_ERROR_PERM_DENIED} : Fail(h, e)
        /\ UNCHANGED <<p, priv, sock_fd, sockets>>
  /\ UNCHANGED <<state, call, oldflags, blocks, aside, iface, pcaps_to_close, exiting, errors>>

(* iface_bind; a pending error of the socket sends it to activate_old. *)
Bind(h) ==
  /\ pc[h] = "bind"
  /\ \/ Goto(h, "finish") /\ UNCHANGED <<p, priv, status, sock_fd, sockets, iface,
                                         pcaps_to_close, errors>>
     \/ \E e \in {PCAP_ERROR, PCAP_ERROR_IFACE_NOT_UP} : CloseAndFail(h, e)
     \/ /\ sockets' = Closed(sock_fd[h]) /\ sock_fd' = [sock_fd EXCEPT ![h] = NULL]
        /\ errors' = errors \cup CloseError(h, sock_fd[h])
        /\ Goto(h, "old")
        /\ UNCHANGED <<p, priv, status, iface, pcaps_to_close>>
  /\ UNCHANGED <<state, call, oldflags, blocks, aside, exiting>>

(* The rest of activate_new: promiscuous membership, options, and the socket
   becomes the handle's. *)
Finish(h) ==
  LET any == p[h].source = "any"
      cooked == any \/ priv[h].cooked IN
  /\ pc[h] = "finish"
  /\ \/ any /\ p[h].rfmon /\ CloseAndFail(h, PCAP_ERROR_RFMON_NOTSUP)
     \/ CloseAndFail(h, PCAP_ERROR)
     \/ /\ ~(any /\ p[h].rfmon)
        /\ p' = [p EXCEPT ![h].fd = sock_fd[h], ![h].nonblock = FALSE,
                          ![h].linktype = IF any THEN "LINUX_SLL" ELSE @,
                          ![h].snapshot = IF cooked /\ @ < SLL_HDR_LEN + 1
                                          THEN SLL_HDR_LEN + 1 ELSE @]
        /\ priv' = [priv EXCEPT ![h].cooked = cooked]
        /\ sock_fd' = [sock_fd EXCEPT ![h] = NULL]
        /\ Goto(h, "mmap")
        /\ UNCHANGED <<status, sockets, iface, pcaps_to_close, errors>>
  /\ UNCHANGED <<state, call, oldflags, blocks, aside, exiting>>

(* TPACKET_V3 unless packets are wanted at once, else the newest before it. *)
prepare_tpacket_socket(h) == IF p[h].immediate /\ Tpacket = 3 THEN 2 ELSE Tpacket

(* The size of a frame, from the snapshot length, and the buffer size say how
   many blocks there will be, possibly none. *)
BlocksAsked == 0..MaxBlocks

(* create_ring clears the status; time stamps of the adapter are not asked for. *)
create_ring(h) ==
  /\ status' = [status EXCEPT ![h] = 0]
  /\ \E n \in BlocksAsked : blocks' = [blocks EXCEPT ![h] = n]
  /\ Goto(h, "ring")

(* activate_mmap.  pcap_activate_linux answers its -1 with the result of
   activate_new, 1. *)
MmapFailed == 1

FailRing(h) ==
  /\ Fail(h, MmapFailed)
  /\ ringless' = IF priv[h].must_do_on_close = {} THEN ringless ELSE ringless \cup {h}

Mmap(h) ==
  /\ pc[h] = "mmap"
  /\ errors' = errors \cup Alloc(priv[h].oneshot_buffer)
  /\ \/ /\ priv' = [priv EXCEPT ![h].oneshot_buffer = "null"]
        /\ FailRing(h) /\ UNCHANGED <<p, blocks>>
     \/ /\ p' = [p EXCEPT ![h].buffer_size = IF @ = 0 THEN 2 ELSE @]
        /\ \/ /\ priv' = [priv EXCEPT ![h].oneshot_buffer = "dangling"]
              /\ FailRing(h) /\ UNCHANGED blocks
           \/ /\ priv' = [priv EXCEPT ![h].oneshot_buffer = "live",
                                       ![h].tp_version = prepare_tpacket_socket(h)]
              /\ create_ring(h) /\ UNCHANGED ringless
  /\ UNCHANGED <<state, call, sock_fd, oldflags, client, devices, left, sockets, iface,
                 pcaps_to_close, exiting>>

(* Mutant of RingRetry: also below one block, where the unsigned number wraps. *)
RingRetryWraps(h) ==
  /\ pc[h] = "ring"
  /\ blocks' = [blocks EXCEPT ![h] = (@ - 1) % (MaxBlocks + 1)]
  /\ UNCHANGED <<state, p, priv, pc, call, sock_fd, status, oldflags, aside, sockets, iface,
                 pcaps_to_close, exiting, errors>>

(* create_ring asks for fewer blocks while the kernel has no memory. *)
RingRetry(h) ==
  /\ pc[h] = "ring" /\ blocks[h] > 1
  /\ blocks' = [blocks EXCEPT ![h] = @ - 1]
  /\ UNCHANGED <<state, p, priv, pc, call, sock_fd, status, oldflags, aside, sockets, iface,
                 pcaps_to_close, exiting, errors>>

(* The ring is granted, not supported (ENOPROTOOPT), or refused. *)
Ring(h) ==
  /\ pc[h] = "ring"
  /\ \/ blocks[h] > 0 /\ Goto(h, "map") /\ UNCHANGED <<priv, status, ringless>>
     \/ /\ priv' = [priv EXCEPT ![h].oneshot_buffer = "dangling"]
        /\ Goto(h, "rcvbuf") /\ UNCHANGED <<status, ringless>>
     \/ /\ priv' = [priv EXCEPT ![h].oneshot_buffer = "dangling"]
        /\ FailRing(h)
  /\ UNCHANGED <<state, p, call, sock_fd, oldflags, blocks, client, devices, left, sockets, iface,
                 pcaps_to_close, exiting, errors>>

(* The ring is mapped and its frame pointers allocated, or destroyed again. *)
Map(h) ==
  /\ pc[h] = "map"
  /\ \/ /\ priv' = [priv EXCEPT ![h].mmapbuf = TRUE]
        /\ p' = [p EXCEPT ![h].buffer = "live", ![h].ops = "mmap"]
        /\ errors' = errors \cup Alloc(p[h].buffer)
        /\ Return(h, status[h]) /\ UNCHANGED ringless
     \/ /\ priv' = [priv EXCEPT ![h].mmapbuf = FALSE, ![h].oneshot_buffer = "dangling"]
        /\ FailRing(h) /\ UNCHANGED <<p, errors>>
  /\ UNCHANGED <<state, call, sock_fd, oldflags, blocks, client, devices, left, sockets, iface,
                 pcaps_to_close, exiting>>

(* Without a ring: the size of the socket's buffer, and a buffer of our own. *)
RcvBuf(h) ==
  /\ pc[h] = "rcvbuf"
  /\ \/ /\ p' = [p EXCEPT ![h].buffer = "live"]
        /\ errors' = errors \cup Alloc(p[h].buffer)
        /\ Return(h, status[h])
     \/ Fail(h, PCAP_ERROR) /\ UNCHANGED <<p, errors>>
  /\ UNCHANGED <<state, priv, call, sock_fd, oldflags, blocks, aside, sockets, iface,
                 pcaps_to_close, exiting>>

(* activate_old: a SOCK_PACKET socket, bound by name; promiscuous mode is a
   flag of the interface, to be cleared when the handle is closed. *)
Old(h) ==
  /\ pc[h] = "old"
  /\ \/ /\ \E s \in Sockets : Opened(h, s) /\ p' = [p EXCEPT ![h].fd = s, ![h].nonblock = FALSE]
        /\ priv' = [priv EXCEPT ![h].cooked = FALSE]
        /\ IF p[h].source = "any" THEN Fail(h, PCAP_ERROR)
                                  ELSE Goto(h, "oldbind") /\ UNCHANGED status
     \/ /\ \E e \in {PCAP_ERROR, PCAP_ERROR_PERM_DENIED} : Fail(h, e)
        /\ UNCHANGED <<p, priv, sockets>>
  /\ UNCHANGED <<state, call, sock_fd, oldflags, blocks, aside, iface, pcaps_to_close,
                 exiting, errors>>

(* Mutant of OldBind: an error that returns without the cleanup. *)
OldBindReturns(h) ==
  /\ pc[h] = "oldbind"
  /\ \/ /\ p' = [p EXCEPT ![h].linktype = Link(p[h].source).linktype,
                          ![h].dlt_list = Link(p[h].source).dlt_list]
        /\ Goto(h, IF p[h].promisc THEN "oldpromisc" ELSE "rcvbuf")
        /\ UNCHANGED status
     \/ Return(h, PCAP_ERROR) /\ UNCHANGED p
  /\ UNCHANGED <<state, priv, call, sock_fd, oldflags, blocks, aside, sockets, iface,
                 pcaps_to_close, exiting, errors>>

OldBind(h) ==
  /\ pc[h] = "oldbind"
  /\ \/ /\ p' = [p EXCEPT ![h].linktype = Link(p[h].source).linktype,
                          ![h].dlt_list = Link(p[h].source).dlt_list]
        /\ Goto(h, IF p[h].promisc THEN "oldpromisc" ELSE "rcvbuf")
        /\ UNCHANGED status
     \/ Fail(h, PCAP_ERROR) /\ UNCHANGED p
  /\ UNCHANGED <<state, priv, call, sock_fd, oldflags, blocks, aside, sockets, iface,
                 pcaps_to_close, exiting, errors>>

OldPromisc(h) ==
  /\ pc[h] = "oldpromisc"
  /\ \/ /\ IF iface[p[h].source].promisc
           THEN UNCHANGED <<iface, priv, pcaps_to_close>>
           ELSE iface' = [iface EXCEPT ![p[h].source].promisc = TRUE] /\ MustDo(h, "promisc")
        /\ Goto(h, "rcvbuf") /\ UNCHANGED status
     \/ Fail(h, PCAP_ERROR) /\ UNCHANGED <<iface, priv, pcaps_to_close>>
  /\ UNCHANGED <<state, p, call, sock_fd, oldflags, blocks, aside, sockets, exiting, errors>>

-----------------------------------------------------------------------------
(* Undoing. *)

(* Mutant of Restore: the handle stays in the list. *)
RestoreOnly(h) ==
  LET must == priv[h].must_do_on_close IN
  /\ pc[h] = "restore"
  /\ Goto(h, "release")
  /\ iface' = IF must = {} THEN iface
              ELSE [iface EXCEPT ![p[h].source].promisc = FALSE,
                                 ![p[h].source].mode = priv[h].oldmode]
  /\ left' = IF must = {} \/ p[h].fd # NULL THEN left ELSE left \cup {p[h].source}
  /\ UNCHANGED <<state, p, priv, local, client, devices, ringless, sockets, pcaps_to_close, exiting,
                 errors>>

(* The first entry that is the handle's is taken out of the list: those behind
   it move up. *)
pcap_remove_from_pcaps_to_close(h) ==
  IF \A i \in DOMAIN pcaps_to_close : pcaps_to_close[i] # h THEN pcaps_to_close
  ELSE [i \in 1..(Len(pcaps_to_close) - 1) |->
          IF \E j \in 1..i : pcaps_to_close[j] = h THEN pcaps_to_close[i + 1]
                                                   ELSE pcaps_to_close[i]]

(* pcap_cleanup_linux: the flags and the mode are put back through the
   handle's socket; without one they stay. *)
Restore(h) ==
  LET must == priv[h].must_do_on_close
      able == p[h].fd # NULL IN
  /\ pc[h] = "restore"
  /\ Goto(h, "release")
  /\ iface' = IF must = {} \/ ~able THEN iface
              ELSE [iface EXCEPT ![p[h].source].promisc = @ /\ "promisc" \notin must,
                                 ![p[h].source].mode = IF "rfmon" \in must THEN priv[h].oldmode
                                                                           ELSE @]
  /\ pcaps_to_close' = IF must = {} THEN pcaps_to_close ELSE pcap_remove_from_pcaps_to_close(h)
  /\ errors' = errors \cup (IF must # {} /\ priv[h].device = "null" THEN {"null device"} ELSE {})
  /\ left' = IF must = {} \/ able THEN left ELSE left \cup {p[h].source}
  /\ UNCHANGED <<state, p, priv, local, client, devices, ringless, sockets, exiting>>

(* pcap_cleanup_live_common *)
LiveCommon(h) ==
  /\ p' = [p EXCEPT ![h].buffer = "null", ![h].dlt_list = {}, ![h].fd = NULL]
  /\ sockets' = Closed(p[h].fd)

LiveErrors(h) == Dealloc(p[h].buffer) \cup CloseError(h, p[h].fd)

Gone(h) == state' = [state EXCEPT ![h] = "closed"] /\ Goto(h, "idle")

(* Mutant of Release: the freed name is kept. *)
ReleaseKeepsName(h) ==
  /\ pc[h] = "release"
  /\ priv' = [priv EXCEPT ![h].device = IF @ = "null" THEN @ ELSE "dangling"]
  /\ LiveCommon(h)
  /\ errors' = errors \cup Dealloc(priv[h].device) \cup LiveErrors(h)
  /\ IF call[h] = "close" THEN Gone(h) ELSE Goto(h, "return") /\ UNCHANGED state
  /\ UNCHANGED <<local, aside, iface, pcaps_to_close, exiting>>

(* The end of pcap_cleanup_linux, in a failed activation or in pcap_close. *)
Release(h) ==
  /\ pc[h] = "release"
  /\ priv' = [priv EXCEPT ![h].device = "null"]
  /\ LiveCommon(h)
  /\ errors' = errors \cup Dealloc(priv[h].device) \cup LiveErrors(h)
  /\ IF call[h] = "close" THEN Gone(h) ELSE Goto(h, "return") /\ UNCHANGED state
  /\ UNCHANGED <<local, aside, iface, pcaps_to_close, exiting>>

(* pcap_activate returns; pcap_open_live closes what could not be activated. *)
ActivateReturns(h) ==
  /\ pc[h] = "return"
  /\ IF status[h] >= 0
     THEN p' = [p EXCEPT ![h].activated = TRUE] /\ Goto(h, "idle") /\ UNCHANGED call
     ELSE /\ p' = [p EXCEPT ![h].ops = "none"]
          /\ Goto(h, IF call[h] = "open" THEN "live" ELSE "idle")
          /\ call' = [call EXCEPT ![h] = "close"]
  /\ status' = [status EXCEPT ![h] = 0]
  /\ oldflags' = [oldflags EXCEPT ![h] = FALSE] /\ blocks' = [blocks EXCEPT ![h] = 0]
  /\ UNCHANGED <<state, priv, sock_fd, aside, sockets, iface,
                 pcaps_to_close, exiting, errors>>

(* cleanup_op of a handle that is not active, and pcap_close. *)
Live(h) ==
  /\ pc[h] = "live"
  /\ LiveCommon(h) /\ Gone(h)
  /\ errors' = errors \cup LiveErrors(h)
  /\ UNCHANGED <<priv, local, aside, iface, pcaps_to_close, exiting>>

(* pcap_cleanup_linux_mmap *)
Destroy(h) ==
  /\ pc[h] = "destroy"
  /\ priv' = [priv EXCEPT ![h].mmapbuf = FALSE, ![h].oneshot_buffer = "null"]
  /\ errors' = errors \cup Dealloc(priv[h].oneshot_buffer)
  /\ Goto(h, "restore")
  /\ UNCHANGED <<state, p, local, aside, sockets, iface, pcaps_to_close, exiting>>

Close(h) ==
  /\ state[h] = "open" /\ pc[h] = "idle"
  /\ call' = [call EXCEPT ![h] = "close"]
  /\ Goto(h, CASE p[h].ops \in {"none", "device"} -> "live" [] p[h].ops = "linux" -> "restore"
               [] p[h].ops = "mmap" -> "destroy" [] p[h].ops = "own" -> "cleanup")
  /\ UNCHANGED <<state, p, priv, sock_fd, status, oldflags, blocks, aside, sockets, iface,
                 pcaps_to_close, exiting, errors>>

PcapClose(h) == ~exiting /\ Close(h)

(* exit: pcap_close_all closes the handles that have something to undo. *)
Exit ==
  /\ ~exiting /\ \A h \in Handles : pc[h] = "idle"
  /\ exiting' = TRUE
  /\ UNCHANGED <<state, p, priv, pc, local, aside, sockets, iface, pcaps_to_close, errors>>

CloseAll ==
  /\ exiting /\ pcaps_to_close # <<>> /\ \A h \in Handles : pc[h] = "idle"
  /\ Close(Head(pcaps_to_close))

-----------------------------------------------------------------------------
Calls(h) ==
  \/ PcapCreate(h) \/ PcapOpenLive(h) \/ PcapActivate(h) \/ PcapClose(h)
  \/ PcapSetSnaplen(h) \/ PcapSetPromisc(h) \/ PcapSetTimeout(h) \/ PcapSetRfMon(h)
  \/ PcapSetImmediateMode(h) \/ PcapSetBufferSize(h)

Inquiries(h) ==
  \/ PcapSetDataLink(h) \/ PcapCanSetRfMon(h) \/ PcapSetNonBlock(h)
  \/ getSnapshotLength(h) \/ getDataLinkType(h)

(* What runs by itself once a call was made. *)
Running(h) ==
  \/ Start(h) \/ Socket(h) \/ Rfmon(h) \/ Down(h) \/ Mode(h) \/ Up(h) \/ ArpType(h)
  \/ Reopen(h) \/ Bind(h) \/ Finish(h) \/ Mmap(h) \/ RingRetry(h) \/ Ring(h) \/ Map(h)
  \/ RcvBuf(h) \/ Old(h) \/ OldBind(h) \/ OldPromisc(h) \/ Restore(h) \/ Release(h)
  \/ ActivateReturns(h) \/ Live(h) \/ Destroy(h) \/ Probe(h)

Next == \/ \E h \in Handles : Calls(h) \/ Running(h) \/ (Inquire /\ Inquiries(h))
        \/ Exit \/ CloseAll

Spec == Init /\ [][Next]_vars
FairSpec == Spec /\ \A h \in Handles : WF_vars(Running(h))

-----------------------------------------------------------------------------
(* Properties. *)

(* pcap_close_all terminates and frees no handle twice, whatever has failed:
   pcaps_to_close has every handle at most once, only open ones, each with
   something to undo.  The exception is a handle that is noted for both things:
   a bind refused after monitor mode was set sends it to activate_old, where
   promiscuous mode notes it a second time. *)
ListSound ==
  \A i \in DOMAIN pcaps_to_close :
    LET h == pcaps_to_close[i] IN
    \/ priv[h].must_do_on_close = {"promisc", "rfmon"}
    \/ /\ \A j \in DOMAIN pcaps_to_close : pcaps_to_close[j] = h => i = j
       /\ state[h] = "open" /\ priv[h].must_do_on_close # {}

(* When every handle is closed, or the process has run pcap_close_all, each
   interface has the wireless mode and the flags it had at first, whatever has
   failed; but for those in left: no socket to restore them with, one not put
   up again after its mode was set, or taken down when its mode was refused. *)
InterfacesRestored ==
  \/ \A h \in Handles : state[h] # "open"
  \/ exiting /\ pcaps_to_close = <<>> /\ \A h \in Handles : pc[h] = "idle"
  => \A i \in Interfaces \ left : iface[i] = Original

(* The snapshot length that Pcap keeps is the handle's, or the error that was
   returned before activation; never a length that activation has changed. *)
CachedSnapshot ==
  \A h \in Handles : cache[h].snapshotLength \in
    {0, PCAP_ERROR_NOT_ACTIVATED, p[h].snapshot}

(* A handle that pcap_activate has declared active has a socket. *)
ActiveHasSocket ==
  \A h \in Handles : state[h] = "open" /\ p[h].activated /\ pc[h] = "idle" => p[h].fd # NULL

(* PcapActivate and PcapOpenLive return: the search for a ring that fits
   into the kernel's memory ends. *)
ActivationReturns == \A h \in Handles : pc[h] = "start" ~> pc[h] = "idle"
=============================================================================
