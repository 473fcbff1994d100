----------------------- MODULE DeviceResources -----------------------
EXTENDS DeviceActivationProofs
(***************************************************************************)
(* What pcap_activate() takes on a device, and that all of it is given     *)
(* back: by the step that fails, by the clean-up function when the handle  *)
(* is closed, or by atexit() for what is set on an interface.              *)
(*                                                                         *)
(* The inductive invariant Accounts says for every step of every           *)
(* activation what the handle holds there (the tables below), whose each   *)
(* open descriptor is, and what is still to be undone on an interface.     *)
(* The proof shows for each step of DevicesNext, on the device it belongs  *)
(* to, that what it leaves is what the next step expects (Accounted), and  *)
(* that other handles are left alone (Keeps, of DeviceActivationProofs,    *)
(* and Apart); AccountsKept puts the two together.                         *)
(***************************************************************************)

(* What the activation of a device holds at each of its steps: the handle's
   descriptor, the one beside it, its buffer, and what libraries gave it. *)
WithFd ==
  {"mmap", "ring", "map", "rcvbuf", "oldbind", "oldpromisc", "restore", "release", "live",
   "destroy", "probe", "idle", "return", "cleanup",
   "usb.binary", "usb.text", "usb.mapped", "usb.buffer",
   "can.buffer", "can.bind", "can.rfmon", "bt.buffer", "bt.bind", "bt.rfmon",
   "netfilter.buffer", "netfilter.groups", "netfilter.send", "netfilter.rfmon",
   "snit.bind", "snit.flags", "snit.buffer", "snit.list", "pf.type", "pf.truncate", "pf.end",
   "snoop.bind", "snoop.length", "snoop.buffer", "snoop.end",
   "bufmod", "databuf", "dlpi.end", "dlpi.send", "dlpi.ppa", "dlpi.table", "dlpi.attach",
   "dlpi.bind", "dlpi.promisc", "dlpi.multi", "dlpi.sap", "dlpi.last", "dlpi.info", "dlpi.hpux",
   "bpf.device", "bpf.rfmon", "bpf.mode", "bpf.zbuf", "bpf.size", "bpf.halve", "bpf.type",
   "bpf.monitor", "bpf.best", "bpf.list", "bpf.modes", "bpf.buffer", "bpf.filter",
   "dag.attach", "dag.start", "dag.settle", "dag.types", "dag.node", "dag.end", "dag.fail"}
WithSecond ==
  {"rfmon", "down", "mode", "up", "arptype", "bind", "finish", "probe", "idle", "return", "cleanup",
   "libdlpi.bind", "libdlpi.promisc", "libdlpi.sap", "libdlpi.info", "bufmod", "databuf",
   "dlpi.end", "dlpi.ppa", "dlpi.table", "dlpi.attach", "dlpi.bind", "dlpi.promisc",
   "dlpi.multi", "dlpi.sap", "dlpi.last", "dlpi.info", "dlpi.hpux"}
WithBuffer ==
  {"restore", "release", "live", "destroy", "probe", "idle", "return", "cleanup", "usb.buffer",
   "can.bind", "can.rfmon", "bt.bind", "bt.rfmon",
   "netfilter.groups", "netfilter.send", "netfilter.rfmon", "snit.list", "pf.end", "snoop.end",
   "npf.copy", "dlpi.end", "bpf.filter"}

(* What libraries gave it by then. *)
Holding(x) ==
  CASE x = "usb.mapped" -> {"mapping"}
    [] x \in {"dbus.register", "dbus.rules"} -> {"conn"}
    [] x = "canusb.open" -> {"context"}
    [] x = "canusb.start" -> {"context", "device"}
    [] x \in {"npf.type", "npf.packet"} -> {"adapter"}
    [] x \in {"npf.size", "npf.buffer", "npf.copy"} -> {"adapter", "packet"}
    [] x = "dlpi.table" -> {"table"}
    [] x \in {"bpf.rfmon", "bpf.mode", "bpf.zbuf", "bpf.size", "bpf.halve", "bpf.type",
              "bpf.monitor", "bpf.best", "bpf.list", "bpf.modes", "bpf.buffer", "bpf.filter"} ->
         {"device"}
    [] x = "dag.start" -> {"attached"}
    [] x \in {"dag.settle", "dag.types", "dag.node"} -> {"attached", "stream"}
    [] x = "dag.end" -> {"attached", "stream", "node"}
    [] x = "snf.ring" -> {"board"}
    [] x = "snf.start" -> {"board", "ring"}
    [] OTHER -> {}
MayHold(x) ==
  IF x \in {"bpf.zbuf", "bpf.size", "bpf.halve", "bpf.type", "bpf.monitor", "bpf.best", "bpf.list",
            "bpf.modes", "bpf.buffer", "bpf.filter"} THEN {"zbuf"} ELSE {}

(* What the cleanup function of a device gives back, and what it takes to be
   there. *)
Gives(source) ==
  CASE source = "usb" -> {"mapping"} [] source = "dbus" -> {"conn"}
    [] source = "canusb" -> {"worker", "device", "context"}
    [] source = "npf" -> {"adapter", "packet"}
    [] source \in {"en0", "ath0"} -> {"device", "zbuf"}
    [] source = "dag" -> {"stream", "attached", "node"}
    [] source = "snf" -> {"ring", "board"} [] OTHER -> {}

(* The devices whose clean-up function does not ask whether it is there. *)
Sure == {"dbus", "dag", "snf"}

(* Whose steps they are. *)
LinuxSteps ==
  {"socket", "rfmon", "down", "mode", "up", "arptype", "reopen", "bind", "finish",
   "mmap", "ring", "map", "rcvbuf", "old", "oldbind", "oldpromisc"}
Undoing == {"restore", "release", "destroy"}
Between == {"idle", "probe", "start", "return", "live", "cleanup"}
StepsOf(source) ==
  CASE source = "usb" -> {"usb", "usb.binary", "usb.text", "usb.mapped", "usb.buffer"}
    [] source = "can" -> {"can", "can.buffer", "can.bind", "can.rfmon"}
    [] source = "bt" -> {"bt", "bt.buffer", "bt.bind", "bt.rfmon"}
    [] source \in {"nflog", "nfqueue"} ->
         {"netfilter", "netfilter.buffer", "netfilter.groups", "netfilter.send", "netfilter.rfmon"}
    [] source = "dbus" -> {"dbus", "dbus.register", "dbus.rules"}
    [] source = "canusb" -> {"canusb", "canusb.open", "canusb.start"}
    [] source = "snit" -> {"snit", "snit.open", "snit.bind", "snit.flags", "snit.buffer", "snit.list"}
    [] source = "pf" -> {"pf", "pf.type", "pf.truncate", "pf.end"}
    [] source = "snoop" -> {"snoop", "snoop.bind", "snoop.length", "snoop.buffer", "snoop.end"}
    [] source = "npf" -> {"npf", "npf.type", "npf.packet", "npf.size", "npf.buffer", "npf.copy"}
    [] source = "libdlpi" ->
         {"libdlpi", "libdlpi.bind", "libdlpi.promisc", "libdlpi.sap", "libdlpi.info",
          "bufmod", "databuf", "dlpi.end"}
    [] source = "dlpi" ->
         {"dlpi", "dlpi.send", "dlpi.ppa", "dlpi.table", "dlpi.attach", "dlpi.bind",
          "dlpi.promisc", "dlpi.multi", "dlpi.sap", "dlpi.last", "dlpi.info", "dlpi.hpux",
          "bufmod", "databuf", "dlpi.end"}
    [] source \in {"en0", "ath0"} ->
         {"bpf", "bpf.device", "bpf.rfmon", "bpf.mode", "bpf.zbuf", "bpf.size", "bpf.halve",
          "bpf.type", "bpf.monitor", "bpf.best", "bpf.list", "bpf.modes", "bpf.buffer",
          "bpf.filter"}
    [] source = "dag" ->
         {"dag", "dag.attach", "dag.start", "dag.settle", "dag.types", "dag.node", "dag.end",
          "dag.fail"}
    [] source = "snf" -> {"snf", "snf.ring", "snf.start"}
    [] source = "septel" -> {"septel"}
    [] OTHER -> LinuxSteps \cup Undoing \cup {"probe"}

(* On which something may have to be undone, and by when it is one of these. *)
Indebted == {"eth0", "wlan0", "isdn0", "ath0"}
OnInterface == {"down", "mode", "up", "oldbind", "oldpromisc"}

(* Where a handle is in its call. *)
Where(h) ==
  /\ pc[h] # "idle" => state[h] = "open"
  /\ h \in spoilt => state[h] # "none" /\ p[h].source \notin LinuxDevices
  /\ state[h] = "none" => status[h] >= 0
  /\ state[h] = "open" =>
       /\ pc[h] \in Between \cup StepsOf(p[h].source)
       /\ p[h].ops \in IF p[h].source \in LinuxDevices THEN {"none", "linux", "mmap"}
                                                       ELSE {"none", "device", "own"}
       /\ pc[h] \notin Undoing \cup {"return", "cleanup", "dag.fail"} => status[h] >= 0
       /\ pc[h] \in LinuxSteps =>
            /\ p[h].ops = "linux" /\ p[h].source # "toolong"
            /\ pc[h] \in OnInterface => p[h].source \in Indebted
       /\ pc[h] = "cleanup" =>
            p[h].source \notin LinuxDevices /\ (call[h] # "close" => status[h] < 0)

(* The fields that only Linux interfaces use. *)
Untouched(h) ==
  priv[h].device = "null" /\ ~priv[h].mmapbuf /\ priv[h].oneshot_buffer # "live"

(* Nothing is left of an activation, or there was none. *)
Nothing(h) == p[h].fd = NULL /\ p[h].buffer = "null" /\ held[h] = {} /\ Untouched(h)

(* What an activation that succeeded leaves, by the functions that undo it. *)
Active(h) ==
  /\ p[h].ops # "none"
  /\ p[h].ops = "device" => held[h] = {}
  /\ p[h].ops = "linux" => priv[h].oneshot_buffer # "live" /\ ~priv[h].mmapbuf
  /\ p[h].ops = "mmap" => priv[h].oneshot_buffer = "live" /\ priv[h].device = "live"
  /\ p[h].ops = "own" =>
       /\ held[h] \subseteq Gives(p[h].source)
       /\ p[h].source \in Sure => held[h] = Gives(p[h].source)

(* What an open handle holds. *)
Pointing(h) ==
  /\ p[h].fd # NULL => pc[h] \in WithFd
  /\ sock_fd[h] # NULL => pc[h] \in WithSecond
  /\ p[h].buffer \in {"null", "live"} /\ (p[h].buffer = "live" => pc[h] \in WithBuffer)
  /\ p[h].source = "canusb" => p[h].buffer = "null"
  /\ priv[h].device # "dangling"
  /\ p[h].source \notin LinuxDevices => Untouched(h)
  /\ p[h].source \in LinuxDevices => held[h] = {}

(* In the middle of an activation. *)
Progress(h) ==
  /\ pc[h] \notin Between \cup Undoing => held[h] \ MayHold(pc[h]) = Holding(pc[h])
  /\ pc[h] \in LinuxSteps =>
       /\ priv[h].device = "live" /\ ~priv[h].mmapbuf
       /\ priv[h].oneshot_buffer = "live" <=> pc[h] \in {"ring", "map"}

(* Between the calls, and as one begins or returns. *)
Waiting(h) ==
  /\ pc[h] \in {"idle", "probe"} =>
       IF p[h].activated THEN Active(h) ELSE Nothing(h) /\ p[h].ops = "none"
  /\ pc[h] \in {"idle", "return"} /\ sock_fd[h] # NULL => p[h].ops = "own"
  /\ pc[h] = "probe" /\ spoilt = {} => sock_fd[h] = NULL \/ p[h].fd # sock_fd[h]
  /\ pc[h] = "start" => Nothing(h)
  /\ pc[h] = "return" => IF status[h] < 0 THEN Nothing(h) /\ sock_fd[h] = NULL ELSE Active(h)

(* While what an activation took is being given back. *)
Ending(h) ==
  /\ pc[h] = "live" => held[h] = {}
  /\ pc[h] = "cleanup" => /\ held[h] \subseteq Gives(p[h].source)
                          /\ p[h].source \in Sure => held[h] = Gives(p[h].source)
  /\ pc[h] \in {"restore", "release"} =>
       /\ ~priv[h].mmapbuf /\ priv[h].oneshot_buffer # "live"
       /\ call[h] # "close" /\ status[h] >= 0 => p[h].ops = "linux"
  /\ pc[h] = "destroy" =>
       call[h] = "close" /\ priv[h].oneshot_buffer = "live" /\ priv[h].device = "live"

(* What the handle holds, as long as it has not closed a descriptor twice. *)
Holds(h) ==
  /\ state[h] # "open" =>
       p[h].fd = NULL /\ sock_fd[h] = NULL /\ p[h].buffer = "null" /\ held[h] = {}
  /\ state[h] = "none" => Untouched(h)
  /\ state[h] = "open" => Pointing(h) /\ Progress(h) /\ Waiting(h) /\ Ending(h)

(* What is to be undone on an interface. *)
MayList == {"arptype", "reopen", "bind", "old", "oldbind", "oldpromisc", "finish", "mmap", "ring",
            "map", "rcvbuf", "restore", "destroy", "probe", "idle", "return", "cleanup",
            "bpf.best", "bpf.list", "bpf.modes", "bpf.buffer", "bpf.filter"}

(* The last call to activate the handle succeeded. *)
Succeeded(h) ==
  \/ state[h] = "open" /\ pc[h] \in {"idle", "probe"} /\ p[h].activated
  \/ pc[h] = "return" /\ status[h] >= 0

(* What is to be undone is on the list of atexit(), is given up by a failed
   call, and still has the data it is undone with when the handle is closed;
   but a handle noted for both things may stay on the list, and one whose ring
   could not be set up has lost the name of its interface. *)
Debt(h) ==
  LET must == priv[h].must_do_on_close IN
  /\ must \subseteq {"promisc", "rfmon"}
  /\ must # {} => state[h] # "none" /\ p[h].source \in Indebted
  /\ p[h].source \notin LinuxDevices => "promisc" \notin must
  /\ Listed(h) => must # {} /\ (Twice(h) \/ (state[h] = "open" /\ pc[h] \in MayList))
  /\ Listed(h) /\ pc[h] \in Early => "rfmon" \in must
  /\ Listed(h) /\ ~Twice(h) /\ pc[h] \in {"idle", "probe", "return"} =>
       Succeeded(h) /\ p[h].ops \in {"linux", "mmap", "own"}
  /\ pc[h] \in {"restore", "release"} /\ call[h] # "close" /\ status[h] >= 0 =>
       must = {} \/ h \in ringless
  /\ p[h].source \in LinuxDevices /\ must # {}
       /\ (pc[h] = "restore" \/ (Succeeded(h) /\ p[h].ops = "linux")) =>
       priv[h].device = "live" \/ h \in ringless

-----------------------------------------------------------------------------
(* What a step of a handle may rely on, and what it leaves. *)

(* Who opened an open descriptor holds it, but for what is known to be lost. *)
Opener(h) ==
  \A s \in Sockets \ lost : sockets[s] = h =>
    h \in spoilt \/ (state[h] = "open" /\ s \in {p[h].fd, sock_fd[h]})

(* Who holds a descriptor opened it. *)
Owner(h) ==
  /\ p[h].fd # NULL => sockets[p[h].fd] = h
  /\ sock_fd[h] # NULL => sockets[sock_fd[h]] = h

(* All that is known of one handle: its part of the invariant. *)
Ready(h) ==
  /\ Shapes /\ Basic(h)
  /\ DOMAIN sock_fd = Handles /\ DOMAIN status = Handles /\ DOMAIN held = Handles
  /\ p[h].fd \in Sockets \cup {NULL} /\ sock_fd[h] \in Sockets \cup {NULL} /\ status[h] \in Int
  /\ sockets \in [Sockets -> Handles \cup {NULL}]
  /\ Where(h) /\ (h \notin spoilt => Holds(h))
  /\ Distinct /\ Debt(h)
  /\ Opener(h) /\ (spoilt = {} => Owner(h))

(* The inductive invariant. *)
Accounts ==
  /\ Invariant /\ \A h \in Handles : Ready(h)
  /\ \A s \in Sockets : sockets[s] # NULL => sockets[s] \in Handles
  /\ MemorySound

(* The rest of the frame. *)
Apart(h) ==
  /\ DOMAIN sock_fd' = Handles /\ DOMAIN status' = Handles /\ DOMAIN held' = Handles
  /\ \A g \in Handles \ {h} :
       /\ sock_fd'[g] = sock_fd[g] /\ status'[g] = status[g] /\ held'[g] = held[g]
       /\ Listed(g)' <=> Listed(g)
  /\ spoilt' \subseteq spoilt \cup {h} /\ lost \subseteq lost' /\ ringless \subseteq ringless'
  /\ p'[h].fd \in Sockets \cup {NULL} /\ sock_fd'[h] \in Sockets \cup {NULL} /\ status'[h] \in Int

(* What the handle says of itself afterwards. *)
Claimed(h) ==
  Where(h)' /\ (h \notin spoilt' => Holds(h)') /\ Distinct' /\ Debt(h)'

(* What becomes of the descriptors: nobody's but this handle's are closed, and
   it opens none but for itself. *)
Trade(h) ==
  /\ sockets' \in [Sockets -> Handles \cup {NULL}]
  /\ \A s \in Sockets : sockets'[s] \notin {NULL, h} => sockets'[s] = sockets[s]
  /\ Opener(h)'
  /\ spoilt' = {} =>
       /\ \A s \in Sockets : sockets[s] \notin {NULL, h} => sockets'[s] = sockets[s]
       /\ Owner(h)'
       /\ \/ errors' = errors
          \/ h \in ringless' /\ errors' = errors \cup {"null device"}

(* What the proof asks of each step. *)
Accounted(h) == Apart(h) /\ Claimed(h) /\ Trade(h)

(* What is said of every handle is kept by what each step leaves. *)
LEMMA AccountsKept ==
  ASSUME Accounts, Invariant', NEW h \in Handles, Keeps(h), Accounted(h)
  PROVE  Accounts'
<1>1. Ready(h) BY DEF Accounts
<1>2. Ready(h)'
  <2>1. Basic(h)' BY DEF Keeps
  <2> QED BY <2>1 DEF Ready, Accounted, Apart, Claimed, Trade, Keeps
<1>3. ASSUME NEW g \in Handles, g # h PROVE Ready(g)'
  <2>1. Ready(g) BY DEF Accounts
  <2>2. /\ p'[g] = p[g] /\ priv'[g] = priv[g] /\ pc'[g] = pc[g] /\ state'[g] = state[g]
        /\ call'[g] = call[g] /\ spoilt \subseteq spoilt'
    BY <1>3 DEF Keeps, Others
  <2>3. /\ sock_fd'[g] = sock_fd[g] /\ status'[g] = status[g] /\ held'[g] = held[g]
        /\ Listed(g)' <=> Listed(g)
        /\ g \in spoilt' <=> g \in spoilt
        /\ lost \subseteq lost' /\ ringless \subseteq ringless'
    BY <1>3, <2>2 DEF Accounted, Apart
  <2>4. Where(g)' BY <2>1, <2>2, <2>3 DEF Ready, Where
  <2>5. g \notin spoilt' => Holds(g)'
    BY <2>1, <2>2, <2>3 DEF Ready, Holds, Pointing, Progress, Waiting, Ending, Active,
       Nothing,
       Untouched
  <2>6. Distinct' /\ Debt(g)'
    BY <2>1, <2>2, <2>3 DEF Ready, Debt, Succeeded, Accounted, Claimed, Twice
  <2>7. Opener(g)'
    BY <1>3, <2>1, <2>2, <2>3, ActivationAssumption, HandlesAssumption DEF Ready, Opener,
       Accounted, Trade, NULL
  <2>8. spoilt' = {} => Owner(g)'
    <3> SUFFICES ASSUME spoilt' = {} PROVE Owner(g)' OBVIOUS
    <3>1. spoilt = {} /\ Owner(g) BY <2>1, <2>2 DEF Ready
    <3>2. \A s \in Sockets : sockets[s] = g => sockets'[s] = g
      BY <1>3, ActivationAssumption, HandlesAssumption DEF Accounted, Trade, NULL
    <3>3. p[g].fd \in Sockets \cup {NULL} /\ sock_fd[g] \in Sockets \cup {NULL}
      BY <2>1 DEF Ready
    <3> QED BY <2>2, <2>3, <3>1, <3>2, <3>3 DEF Owner
  <2>9. Basic(g)' /\ Shapes' BY DEF Invariant
  <2> QED
    BY <2>1, <2>2, <2>3, <2>4, <2>5, <2>6, <2>7, <2>8, <2>9 DEF Ready, Accounted, Apart,
       Trade
<1>4. \A s \in Sockets : sockets'[s] # NULL => sockets'[s] \in Handles
  BY DEF Accounted, Trade
<1>5. MemorySound'
  <2>1. spoilt \subseteq spoilt' /\ ringless \subseteq ringless'
    BY DEF Keeps, Others, Accounted, Apart
  <2> QED BY <2>1 DEF Accounts, Accounted, Trade, MemorySound
<1> QED BY <1>2, <1>3, <1>4, <1>5 DEF Accounts

(* A step that opens and closes nothing. *)
LEMMA Same ==
  ASSUME NEW h \in Handles, Ready(h), Keeps(h), sockets' = sockets, lost \subseteq lost',
         state'[h] = state[h],
         h \notin spoilt => {p'[h].fd, sock_fd'[h]} \ {NULL} = {p[h].fd, sock_fd[h]} \ {NULL},
         spoilt' = {} => \/ errors' = errors
                         \/ h \in ringless' /\ errors' = errors \cup {"null device"}
  PROVE  Trade(h)
<1>1. spoilt \subseteq spoilt' BY DEF Keeps, Others
<1>2. Opener(h)'
  <2> SUFFICES ASSUME NEW s \in Sockets \ lost, sockets[s] = h, h \notin spoilt
               PROVE  state'[h] = "open" /\ s \in {p'[h].fd, sock_fd'[h]}
    BY <1>1 DEF Opener
  <2>1. state[h] = "open" /\ s \in {p[h].fd, sock_fd[h]} BY DEF Ready, Opener
  <2>2. s # NULL
    <3>1. s \in Nat BY ActivationAssumption
    <3> QED BY ONLY <3>1 DEF NULL
  <2>3. s \in {p[h].fd, sock_fd[h]} \ {NULL} BY ONLY <2>1, <2>2
  <2> QED BY <2>1, <2>3
<1>3. spoilt' = {} => Owner(h)' BY <1>1 DEF Ready, Owner
<1> QED BY <1>2, <1>3 DEF Trade, Ready

(* When the list of atexit() is left alone, and what its handle has to undo. *)
LEMMA ListStays ==
  ASSUME NEW h \in Handles, Ready(h), Keeps(h), pcaps_to_close' = pcaps_to_close,
         priv'[h].must_do_on_close = priv[h].must_do_on_close
  PROVE  /\ Distinct' /\ (Twice(h)' <=> Twice(h)) /\ \A g : Listed(g)' <=> Listed(g)
         /\ Debt(h) /\ Distinct
<1>1. Twice(h)' <=> Twice(h) BY DEF Twice
<1>2. \A g \in Handles : Twice(g) => Twice(g)' BY <1>1 DEF Keeps, Others, Twice
<1>3. pcaps_to_close \in Seq(Handles) /\ Debt(h) /\ Distinct BY DEF Ready, Shapes
<1>4. Distinct' BY <1>2, <1>3 DEF Distinct
<1>5. \A g : Listed(g)' <=> Listed(g) BY DEF Listed
<1> QED BY <1>1, <1>3, <1>4, <1>5

(* A step that opens a descriptor. *)
LEMMA Opens ==
  ASSUME NEW h \in Handles, Ready(h), Keeps(h), NEW d \in Sockets, Opened(h, d), lost' = lost,
         state'[h] = "open",
         h \notin spoilt =>
           {p'[h].fd, sock_fd'[h]} \ {NULL} = ({p[h].fd, sock_fd[h]} \ {NULL}) \cup {d},
         spoilt' = {} => errors' = errors
  PROVE  Trade(h)
<1>1. spoilt \subseteq spoilt' BY DEF Keeps, Others
<1>2. /\ sockets' = [sockets EXCEPT ![d] = h] /\ sockets[d] = NULL
      /\ sockets \in [Sockets -> Handles \cup {NULL}]
  BY DEF Opened, Free, Ready
<1>3. \A s \in Sockets : sockets'[s] = IF s = d THEN h ELSE sockets[s] BY <1>2
<1>4. Opener(h)'
  <2> SUFFICES ASSUME NEW s \in Sockets \ lost, sockets'[s] = h, h \notin spoilt
               PROVE  s \in {p'[h].fd, sock_fd'[h]}
    BY <1>1 DEF Opener
  <2>1. s # NULL BY ActivationAssumption, HandlesAssumption DEF NULL
  <2>2. s = d \/ s \in {p[h].fd, sock_fd[h]} BY <1>3 DEF Ready, Opener
  <2> QED BY <2>1, <2>2
<1>5. spoilt' = {} => Owner(h)'
  <2> SUFFICES ASSUME spoilt' = {} PROVE Owner(h)' OBVIOUS
  <2>1. spoilt = {} /\ Owner(h) /\ h \notin spoilt BY <1>1 DEF Ready
  <2>2. \A c \in {p'[h].fd, sock_fd'[h]} \ {NULL} : c = d \/ c \in {p[h].fd, sock_fd[h]} \ {NULL}
    BY <2>1
  <2>3. \A c \in {p[h].fd, sock_fd[h]} \ {NULL} : c \in Sockets /\ sockets[c] = h
    BY <2>1 DEF Owner, Ready
  <2>4. \A c \in {p'[h].fd, sock_fd'[h]} \ {NULL} : sockets'[c] = h
    BY <1>3, <2>2, <2>3
  <2> QED BY <2>4 DEF Owner
<1> QED BY <1>2, <1>3, <1>4, <1>5 DEF Trade

(* A step that closes descriptors of its handle. *)
LEMMA ClosesSome ==
  ASSUME NEW h \in Handles, Ready(h), Keeps(h), NEW C, C \subseteq {p[h].fd, sock_fd[h]},
         sockets' = [s \in Sockets |-> IF s \in C THEN NULL ELSE sockets[s]],
         h \notin spoilt' =>
           {p[h].fd, sock_fd[h]} \ (C \cup {NULL}) \subseteq {p'[h].fd, sock_fd'[h]},
         spoilt' = {} =>
           {p'[h].fd, sock_fd'[h]} \ {NULL} \subseteq {p[h].fd, sock_fd[h]} \ (C \cup {NULL}),
         h \notin spoilt' /\ state'[h] # "open" => {p'[h].fd, sock_fd'[h]} = {NULL},
         lost' = lost,
         spoilt' = {} => errors' = errors
  PROVE  Trade(h)
<1>1. spoilt \subseteq spoilt' BY DEF Keeps, Others
<1>2. sockets \in [Sockets -> Handles \cup {NULL}] BY DEF Ready
<1>3. \A s \in Sockets : sockets'[s] = IF s \in C THEN NULL ELSE sockets[s] OBVIOUS
<1>4. NULL \notin Handles /\ NULL \notin Sockets
  BY ActivationAssumption, HandlesAssumption DEF NULL
<1>5. Opener(h)'
  <2> SUFFICES ASSUME NEW s \in Sockets \ lost, sockets'[s] = h, h \notin spoilt'
               PROVE  state'[h] = "open" /\ s \in {p'[h].fd, sock_fd'[h]}
    BY DEF Opener
  <2>1. s \notin C /\ sockets[s] = h BY <1>3, <1>4
  <2>2. s \in {p[h].fd, sock_fd[h]} \ (C \cup {NULL})
    BY <1>1, <1>4, <2>1 DEF Ready, Opener
  <2> QED BY <1>4, <2>2
<1>6. ASSUME spoilt' = {}
      PROVE  Owner(h)' /\ \A s \in Sockets : sockets[s] \notin {NULL, h} => sockets'[s] = sockets[s]
  <2>1. Owner(h) /\ h \notin spoilt' BY <1>1, <1>6 DEF Ready
  <2>2. \A c \in {p[h].fd, sock_fd[h]} \ {NULL} : c \in Sockets /\ sockets[c] = h
    BY <2>1 DEF Owner, Ready
  <2>3. \A c \in {p'[h].fd, sock_fd'[h]} \ {NULL} : sockets'[c] = h
    <3> SUFFICES ASSUME NEW c \in {p'[h].fd, sock_fd'[h]} \ {NULL} PROVE sockets'[c] = h
      OBVIOUS
    <3>1. c \in {p[h].fd, sock_fd[h]} \ (C \cup {NULL}) BY <1>6
    <3> QED BY <1>3, <2>2, <3>1
  <2> QED BY <1>3, <1>4, <2>2, <2>3 DEF Owner
<1> QED BY <1>2, <1>3, <1>5, <1>6 DEF Trade

(* The same when what is left is exactly what was not closed. *)
LEMMA Closes ==
  ASSUME NEW h \in Handles, Ready(h), Keeps(h), NEW C, C \subseteq {p[h].fd, sock_fd[h]},
         sockets' = [s \in Sockets |-> IF s \in C THEN NULL ELSE sockets[s]],
         h \notin spoilt' => {p'[h].fd, sock_fd'[h]} \ {NULL} = {p[h].fd, sock_fd[h]} \ (C \cup {NULL}),
         h \notin spoilt' /\ state'[h] # "open" => {p'[h].fd, sock_fd'[h]} = {NULL},
         lost' = lost,
         spoilt' = {} => errors' = errors
  PROVE  Trade(h)
<1>1. h \notin spoilt' =>
        /\ {p[h].fd, sock_fd[h]} \ (C \cup {NULL}) \subseteq {p'[h].fd, sock_fd'[h]}
        /\ {p'[h].fd, sock_fd'[h]} \ {NULL} \subseteq {p[h].fd, sock_fd[h]} \ (C \cup {NULL})
  OBVIOUS
<1> QED BY <1>1, ClosesSome

-----------------------------------------------------------------------------
(* The steps of which the activations of the devices are made. *)

(* A step of an activation that is not the Linux one. *)
DevicePlace(x) == x \notin Between \cup Undoing \cup LinuxSteps \cup {"dag.fail"}

(* From x to y nothing has to be given back. *)
Leads(x, y) ==
  /\ DevicePlace(x) /\ DevicePlace(y)
  /\ \A source : x \in StepsOf(source) => y \in StepsOf(source)
  /\ x \in WithFd => y \in WithFd
  /\ x \in WithSecond => y \in WithSecond
  /\ x \in WithBuffer => y \in WithBuffer
  /\ x \in MayList => y \in MayList
  /\ MayHold(x) \subseteq MayHold(y)

(* From x to y nothing is taken either, or one thing is. *)
Follows(x, y) == Leads(x, y) /\ Holding(x) \ MayHold(y) = Holding(y)
Gains(x, y, r) ==
  /\ Leads(x, y) /\ (Holding(x) \cup {r}) \ MayHold(y) = Holding(y)
  /\ r \notin Holding(x) \cup MayHold(x)

(* A descriptor, one beside it, or a buffer comes with it. *)
Opening(x, y) == Follows(x, y) /\ x \notin WithFd /\ y \in WithFd
Doubling(x, y) == Follows(x, y) /\ x \notin WithSecond /\ y \in WithSecond
Allotting(x, y) ==
  Follows(x, y) /\ x \notin WithBuffer \cup StepsOf("canusb") /\ y \in WithBuffer

(* The frame of such a step, but for the list of atexit(). *)
Beside(h) ==
  /\ DOMAIN sock_fd' = Handles /\ DOMAIN status' = Handles /\ DOMAIN held' = Handles
  /\ \A g \in Handles \ {h} :
       sock_fd'[g] = sock_fd[g] /\ status'[g] = status[g] /\ held'[g] = held[g]
  /\ p'[h].fd \in Sockets \cup {NULL} /\ sock_fd'[h] \in Sockets \cup {NULL} /\ status'[h] \in Int
  /\ p'[h].source = p[h].source

(* A step to another one of the same activation. *)
LEMMA Onward ==
  ASSUME NEW h \in Handles, Ready(h), NEW y, Leads(pc[h], y), pc'[h] = y, Beside(h),
         UNCHANGED <<inert, spoilt>>, lost \subseteq lost',
         p'[h].ops = p[h].ops, status'[h] >= 0,
         h \notin spoilt =>
           /\ p'[h].fd # NULL => y \in WithFd
           /\ sock_fd'[h] # NULL => y \in WithSecond
           /\ p'[h].buffer \in {"null", "live"} /\ (p'[h].buffer = "live" => y \in WithBuffer)
           /\ p'[h].source = "canusb" => p'[h].buffer = "null"
           /\ held'[h] \ MayHold(y) = Holding(y)
  PROVE  Apart(h) /\ Claimed(h)
<1>1. /\ state' = state /\ priv' = priv /\ call' = call
      /\ pcaps_to_close' = pcaps_to_close /\ ringless' = ringless
  BY DEF inert, marks
<1>2. state[h] = "open" /\ p'[h].source = p[h].source
  BY DEF Ready, Where, Leads, DevicePlace, Between, Beside
<1>3. /\ pc[h] \in StepsOf(p[h].source) /\ y \in StepsOf(p[h].source)
      /\ pc[h] \notin Between \cup Undoing \cup LinuxSteps
      /\ y \notin Between \cup Undoing \cup LinuxSteps \cup {"dag.fail"}
  BY <1>2 DEF Ready, Where, Leads, DevicePlace
<1>4. y \notin {"idle", "probe", "start", "return", "live", "cleanup", "restore", "release", "destroy"}
  BY <1>3 DEF Between, Undoing
<1>5. Apart(h) BY <1>1 DEF Apart, Beside, Listed
<1>6. p[h].source \notin LinuxDevices
  <2> SUFFICES ASSUME p[h].source \in LinuxDevices PROVE FALSE OBVIOUS
  <2>1. StepsOf(p[h].source) = LinuxSteps \cup Undoing \cup {"probe"}
    BY DEF StepsOf, LinuxDevices
  <2> QED BY <1>3, <2>1 DEF Between
<1>7. Where(h)' BY <1>1, <1>2, <1>3, <1>4 DEF Ready, Where
<1>8. h \notin spoilt' => Holds(h)'
  <2> SUFFICES ASSUME h \notin spoilt PROVE Holds(h)' OBVIOUS
  <2>1. Holds(h) BY DEF Ready
  <2>2. Pointing(h)' BY <1>1, <1>2, <1>6, <2>1 DEF Holds, Pointing, Untouched
  <2>3. Progress(h)' /\ Waiting(h)' /\ Ending(h)'
    BY <1>3, <1>4 DEF Progress, Waiting, Ending
  <2> QED BY <1>1, <1>2, <2>2, <2>3 DEF Holds
<1>9. Distinct' /\ Debt(h)'
  <2>1. Debt(h) /\ Distinct BY DEF Ready
  <2>2. Listed(h)' <=> Listed(h) BY <1>1 DEF Listed
  <2>3. ~Succeeded(h)' BY <1>4 DEF Succeeded
  <2> QED BY <1>1, <1>2, <1>4, <1>6, <2>1, <2>2, <2>3 DEF Debt, Twice, Distinct, Leads
<1> QED BY <1>5, <1>7, <1>8, <1>9 DEF Claimed

(* The same but for the kind of the handle's own fields that are set besides. *)
Alike(q, r) ==
  q.source = r.source /\ q.ops = r.ops /\ q.fd = r.fd /\ q.buffer = r.buffer /\ DOMAIN q = Fields

(* A step that takes nothing, with or without a warning. *)
LEMMA Passing ==
  ASSUME NEW h \in Handles, Ready(h), Keeps(h), NEW step, Follows(pc[h], step)
  PROVE  /\ \A q : Alike(q, p[h]) /\ Proceed(h, step, q) => Accounted(h)
         /\ Pass(h, step) => Accounted(h)
         /\ \A st \in Nat : Warn(h, step, st) => Accounted(h)
         /\ \A n : Try(h, step, n) => Accounted(h)
<1>0. /\ DOMAIN p = Handles /\ DOMAIN pc = Handles /\ DOMAIN p[h] = Fields
      /\ DOMAIN sock_fd = Handles /\ DOMAIN status = Handles /\ DOMAIN held = Handles
      /\ p[h].fd \in Sockets \cup {NULL} /\ sock_fd[h] \in Sockets \cup {NULL} /\ status[h] \in Int
      /\ Where(h) /\ (h \notin spoilt => Holds(h)) /\ Leads(pc[h], step)
  BY DEF Ready, Shapes, Shaped, Follows
<1>1. state[h] = "open" /\ status[h] >= 0 /\ pc[h] \notin Between \cup Undoing
  BY <1>0 DEF Where, Leads, DevicePlace, Between, Undoing
<1>2. h \notin spoilt => Pointing(h) /\ Progress(h) BY <1>0, <1>1 DEF Holds
<1>3. ASSUME UNCHANGED <<inert, spoilt, lost, sockets, sock_fd, held, errors>>, Goto(h, step),
             NEW q, Alike(q, p[h]), p'[h] = q, DOMAIN status' = Handles,
             \A g \in Handles \ {h} : status'[g] = status[g], status'[h] \in Nat
      PROVE  Accounted(h)
  <2>1. pc'[h] = step BY <1>0, <1>3 DEF Goto
  <2>2. Beside(h) BY <1>0, <1>3 DEF Beside, Alike
  <2>3. Apart(h) /\ Claimed(h)
    <3>1. p'[h].ops = p[h].ops /\ status'[h] >= 0 /\ lost \subseteq lost'
      BY <1>3 DEF Alike
    <3>2. h \notin spoilt =>
           /\ p'[h].fd # NULL => step \in WithFd
           /\ sock_fd'[h] # NULL => step \in WithSecond
           /\ p'[h].buffer \in {"null", "live"} /\ (p'[h].buffer = "live" => step \in WithBuffer)
           /\ p'[h].source = "canusb" => p'[h].buffer = "null"
           /\ held'[h] \ MayHold(step) = Holding(step)
      BY <1>0, <1>1, <1>2, <1>3 DEF Pointing, Progress, Alike, Leads, Follows
    <3> QED BY <1>0, <1>3, <2>1, <2>2, <3>1, <3>2, Onward
  <2>4. Trade(h) BY <1>3, Same DEF Alike, inert
  <2> QED BY <2>3, <2>4 DEF Accounted
<1>4. Alike(p[h], p[h]) BY <1>0 DEF Alike
<1>5. \A q : Alike(q, p[h]) /\ Proceed(h, step, q) => Accounted(h)
  BY <1>0, <1>1, <1>3 DEF Proceed, devices
<1>6. Pass(h, step) => Accounted(h) BY <1>4, <1>5 DEF Pass
<1>7. \A st \in Nat : Warn(h, step, st) => Accounted(h)
  BY <1>0, <1>3, <1>4 DEF Warn, devices
<1>8. \A n : Try(h, step, n) => Accounted(h)
  BY <1>0, <1>1, <1>3, <1>4 DEF Try, devices
<1> QED BY <1>5, <1>6, <1>7, <1>8

(* A step that takes a descriptor, a buffer or something of a library's. *)
LEMMA Taking ==
  ASSUME NEW h \in Handles, Ready(h), Keeps(h), NEW step
  PROVE  /\ \A q : Alike(q, p[h]) /\ Descriptor(h, step, q) /\ Opening(pc[h], step) => Accounted(h)
         /\ SecondDescriptor(h, step) /\ Doubling(pc[h], step) => Accounted(h)
         /\ Malloc(h, step) /\ Allotting(pc[h], step) => Accounted(h)
         /\ \A r : Take(h, step, r) /\ Gains(pc[h], step, r) => Accounted(h)
<1>0. /\ DOMAIN p = Handles /\ DOMAIN pc = Handles /\ DOMAIN p[h] = Fields
      /\ DOMAIN sock_fd = Handles /\ DOMAIN status = Handles /\ DOMAIN held = Handles
      /\ p[h].fd \in Sockets \cup {NULL} /\ sock_fd[h] \in Sockets \cup {NULL} /\ status[h] \in Int
      /\ Where(h) /\ (h \notin spoilt => Holds(h))
  BY DEF Ready, Shapes, Shaped
<1>1. ASSUME Leads(pc[h], step)
      PROVE  /\ state[h] = "open" /\ status[h] >= 0 /\ pc[h] \notin Between \cup Undoing
             /\ h \notin spoilt => Pointing(h) /\ Progress(h)
             /\ pc[h] \in StepsOf(p[h].source)
  <2>1. state[h] = "open" /\ status[h] >= 0 /\ pc[h] \notin Between \cup Undoing
    BY <1>0, <1>1 DEF Where, Leads, DevicePlace, Between, Undoing
  <2> QED BY <1>0, <2>1 DEF Holds, Where
<1>2. ASSUME NEW q, Alike(q, p[h]), Descriptor(h, step, q), Opening(pc[h], step)
      PROVE  Accounted(h)
  <2>0. Follows(pc[h], step) /\ pc[h] \notin WithFd /\ step \in WithFd BY <1>2 DEF Opening
  <2>1. /\ UNCHANGED <<inert, spoilt, lost, sock_fd, held, errors, status>> /\ pc'[h] = step
    BY <1>0, <1>2, <2>0 DEF Descriptor, devices, Goto
  <2>2. PICK s \in Sockets : Opened(h, s) /\ p' = [p EXCEPT ![h] = [q EXCEPT !.fd = s, !.nonblock = FALSE]]
    BY <1>2, <2>0 DEF Descriptor
  <2>3. p'[h].fd = s /\ p'[h].source = p[h].source /\ p'[h].ops = p[h].ops /\ p'[h].buffer = p[h].buffer
    BY <1>0, <1>2, <2>0, <2>2 DEF Alike, Fields
  <2>4. Leads(pc[h], step) BY <1>2, <2>0 DEF Follows
  <2>5. h \notin spoilt => p[h].fd = NULL BY <1>1, <1>2, <2>0, <2>4 DEF Pointing
  <2>6. Apart(h) /\ Claimed(h)
    <3>1. Beside(h) BY <1>0, <2>1, <2>3 DEF Beside
    <3>2. h \notin spoilt =>
           /\ p'[h].fd # NULL => step \in WithFd
           /\ sock_fd'[h] # NULL => step \in WithSecond
           /\ p'[h].buffer \in {"null", "live"} /\ (p'[h].buffer = "live" => step \in WithBuffer)
           /\ p'[h].source = "canusb" => p'[h].buffer = "null"
           /\ held'[h] \ MayHold(step) = Holding(step)
      BY <1>0, <1>1, <1>2, <2>0, <2>1, <2>3, <2>4 DEF Pointing, Progress, Leads, Follows
    <3> QED BY <1>0, <1>1, <2>1, <2>3, <2>4, <3>1, <3>2, Onward
  <2>7. Trade(h)
    <3>1. state'[h] = "open" /\ lost' = lost /\ errors' = errors
      BY <1>1, <2>1, <2>4 DEF inert
    <3>2. h \notin spoilt =>
            {p'[h].fd, sock_fd'[h]} \ {NULL} = ({p[h].fd, sock_fd[h]} \ {NULL}) \cup {s}
      BY <2>1, <2>3, <2>5, ActivationAssumption, HandlesAssumption DEF NULL
    <3> QED BY <2>2, <3>1, <3>2, Opens
  <2> QED BY <2>6, <2>7 DEF Accounted
<1>3. ASSUME SecondDescriptor(h, step), Doubling(pc[h], step)
      PROVE  Accounted(h)
  <2>0. Follows(pc[h], step) /\ pc[h] \notin WithSecond /\ step \in WithSecond
    BY <1>3 DEF Doubling
  <2>1. /\ UNCHANGED <<inert, spoilt, lost, p, held, errors, status>> /\ pc'[h] = step
    BY <1>0, <1>3, <2>0 DEF SecondDescriptor, devices, Goto
  <2>2. PICK s \in Sockets : Opened(h, s) /\ sock_fd' = [sock_fd EXCEPT ![h] = s]
    BY <1>3, <2>0 DEF SecondDescriptor
  <2>3. sock_fd'[h] = s /\ DOMAIN sock_fd' = Handles /\ \A g \in Handles \ {h} : sock_fd'[g] = sock_fd[g]
    BY <1>0, <2>2
  <2>4. Leads(pc[h], step) BY <1>3, <2>0 DEF Follows
  <2>5. h \notin spoilt => sock_fd[h] = NULL BY <1>1, <1>3, <2>0, <2>4 DEF Pointing
  <2>6. Apart(h) /\ Claimed(h)
    <3>1. Beside(h) BY <1>0, <2>1, <2>3 DEF Beside
    <3>2. h \notin spoilt =>
           /\ p'[h].fd # NULL => step \in WithFd
           /\ sock_fd'[h] # NULL => step \in WithSecond
           /\ p'[h].buffer \in {"null", "live"} /\ (p'[h].buffer = "live" => step \in WithBuffer)
           /\ p'[h].source = "canusb" => p'[h].buffer = "null"
           /\ held'[h] \ MayHold(step) = Holding(step)
      BY <1>0, <1>1, <1>3, <2>0, <2>1, <2>3, <2>4 DEF Pointing, Progress, Leads, Follows
    <3> QED BY <1>0, <1>1, <2>1, <2>3, <2>4, <3>1, <3>2, Onward
  <2>7. Trade(h)
    <3>1. state'[h] = "open" /\ lost' = lost /\ errors' = errors
      BY <1>1, <2>1, <2>4 DEF inert
    <3>2. h \notin spoilt =>
            {p'[h].fd, sock_fd'[h]} \ {NULL} = ({p[h].fd, sock_fd[h]} \ {NULL}) \cup {s}
      BY <2>1, <2>3, <2>5, ActivationAssumption, HandlesAssumption DEF NULL
    <3> QED BY <2>2, <3>1, <3>2, Opens
  <2> QED BY <2>6, <2>7 DEF Accounted
<1>4. ASSUME Malloc(h, step), Allotting(pc[h], step)
      PROVE  Accounted(h)
  <2>0. /\ Follows(pc[h], step) /\ pc[h] \notin WithBuffer /\ step \in WithBuffer
        /\ pc[h] \notin StepsOf("canusb")
    BY <1>4 DEF Allotting
  <2>1. /\ UNCHANGED <<inert, spoilt, lost, sockets, sock_fd, held, status>> /\ pc'[h] = step
        /\ p' = [p EXCEPT ![h].buffer = "live"] /\ errors' = errors \cup Alloc(p[h].buffer)
    BY <1>0, <1>4, <2>0 DEF Malloc, devices, Goto
  <2>2. /\ p'[h].fd = p[h].fd /\ p'[h].source = p[h].source /\ p'[h].ops = p[h].ops
        /\ p'[h].buffer = "live"
    BY <1>0, <2>1 DEF Fields
  <2>3. Leads(pc[h], step) BY <1>4, <2>0 DEF Follows
  <2>4. h \notin spoilt => p[h].buffer = "null" BY <1>1, <1>4, <2>0, <2>3 DEF Pointing
  <2>5. p[h].source # "canusb" BY <1>1, <1>4, <2>0, <2>3
  <2>6. Apart(h) /\ Claimed(h)
    <3>1. Beside(h) BY <1>0, <2>1, <2>2 DEF Beside
    <3>2. h \notin spoilt =>
           /\ p'[h].fd # NULL => step \in WithFd
           /\ sock_fd'[h] # NULL => step \in WithSecond
           /\ p'[h].buffer \in {"null", "live"} /\ (p'[h].buffer = "live" => step \in WithBuffer)
           /\ p'[h].source = "canusb" => p'[h].buffer = "null"
           /\ held'[h] \ MayHold(step) = Holding(step)
      BY <1>0, <1>1, <1>4, <2>0, <2>1, <2>2, <2>3, <2>5 DEF Pointing, Progress, Leads,
         Follows
    <3> QED BY <1>0, <1>1, <2>1, <2>2, <2>3, <3>1, <3>2, Onward
  <2>7. Trade(h)
    <3>1. spoilt' = {} => errors' = errors BY <2>1, <2>4 DEF Alloc
    <3> QED BY <2>1, <2>2, <3>1, Same DEF inert
  <2> QED BY <2>6, <2>7 DEF Accounted
<1>5. ASSUME NEW r, Take(h, step, r), Gains(pc[h], step, r) PROVE Accounted(h)
  <2>1. /\ UNCHANGED <<inert, spoilt, lost, sockets, sock_fd, p, status>> /\ pc'[h] = step
        /\ held' = [held EXCEPT ![h] = @ \cup {r}]
        /\ errors' = errors \cup (IF r \in held[h] THEN {"leak"} ELSE {})
    BY <1>0, <1>5 DEF Take, Goto
  <2>2. held'[h] = held[h] \cup {r} /\ DOMAIN held' = Handles /\ \A g \in Handles \ {h} : held'[g] = held[g]
    BY <1>0, <2>1
  <2>3. Leads(pc[h], step) BY <1>5 DEF Gains
  <2>4. h \notin spoilt => held[h] \ MayHold(pc[h]) = Holding(pc[h])
    BY <1>1, <2>3 DEF Progress
  <2>6. Apart(h) /\ Claimed(h)
    <3>1. Beside(h) BY <1>0, <2>1, <2>2 DEF Beside
    <3>2. h \notin spoilt => held'[h] \ MayHold(step) = Holding(step)
      BY <1>5, <2>2, <2>3, <2>4 DEF Leads, Gains
    <3>3. h \notin spoilt =>
           /\ p'[h].fd # NULL => step \in WithFd
           /\ sock_fd'[h] # NULL => step \in WithSecond
           /\ p'[h].buffer \in {"null", "live"} /\ (p'[h].buffer = "live" => step \in WithBuffer)
           /\ p'[h].source = "canusb" => p'[h].buffer = "null"
      BY <1>1, <2>1, <2>3 DEF Pointing, Leads
    <3> QED BY <1>0, <1>1, <2>1, <2>3, <3>1, <3>2, <3>3, Onward
  <2>7. Trade(h)
    <3>1. spoilt' = {} => errors' = errors BY <1>5, <2>1, <2>4 DEF Gains
    <3> QED BY <2>1, <3>1, Same DEF inert
  <2> QED BY <2>6, <2>7 DEF Accounted
<1> QED BY <1>2, <1>3, <1>4, <1>5

-----------------------------------------------------------------------------
(* The ends of an activation. *)

(* A step from which such an activation may end. *)
Device(x) == DevicePlace(x) \/ x = "dag.fail"

(* What a success leaves, by the function that will undo it. *)
Left(ops, rs, source) ==
  \/ ops = "device" /\ rs = {}
  \/ ops = "own" /\ rs \subseteq Gives(source) /\ (source \in Sure => rs = Gives(source))

(* From a step of a device a handle is nowhere else. *)
LEMMA InDevice ==
  ASSUME NEW h \in Handles, Ready(h), Device(pc[h])
  PROVE  /\ state[h] = "open" /\ p[h].source \notin LinuxDevices
         /\ pc[h] \notin Between \cup Undoing \cup LinuxSteps
         /\ p[h].ops \in {"none", "device", "own"}
         /\ pc[h] \in StepsOf(p[h].source)
         /\ h \notin spoilt => Pointing(h) /\ held[h] \ MayHold(pc[h]) = Holding(pc[h])
         /\ pc[h] # "dag.fail" => status[h] >= 0
         /\ pc[h] \notin MayList => ~Listed(h)
<1>1. pc[h] \notin Between \cup Undoing \cup LinuxSteps
  BY DEF Device, DevicePlace, Between, Undoing, LinuxSteps
<1>2. state[h] = "open" /\ pc[h] \in StepsOf(p[h].source)
  BY <1>1 DEF Ready, Where, Between
<1>3. p[h].source \notin LinuxDevices
  <2> SUFFICES ASSUME p[h].source \in LinuxDevices PROVE FALSE OBVIOUS
  <2>1. StepsOf(p[h].source) = LinuxSteps \cup Undoing \cup {"probe"}
    BY DEF StepsOf, LinuxDevices
  <2> QED BY <1>1, <1>2, <2>1 DEF Between
<1>4. p[h].ops \in {"none", "device", "own"} BY <1>2, <1>3 DEF Ready, Where
<1>5. h \notin spoilt => Pointing(h) /\ held[h] \ MayHold(pc[h]) = Holding(pc[h])
  BY <1>1, <1>2 DEF Ready, Holds, Progress
<1>6. pc[h] # "dag.fail" => status[h] >= 0
  BY <1>1, <1>2 DEF Ready, Where, Between
<1>7. pc[h] \notin MayList => ~Listed(h)
  BY <1>3 DEF Ready, Debt, Twice
<1> QED BY <1>1, <1>2, <1>3, <1>4, <1>5, <1>6, <1>7

(* A step that ends an activation, or turns it to the device's own clean-up. *)
LEMMA Leaving ==
  ASSUME NEW h \in Handles, Ready(h), Device(pc[h]), Beside(h), UNCHANGED inert,
         pc'[h] \in {"return", "cleanup", "dag.fail"},
         spoilt \subseteq spoilt', spoilt' \subseteq spoilt \cup {h}, lost \subseteq lost',
         p'[h].ops \in {"none", "device", "own"},
         pc'[h] = "cleanup" => status'[h] < 0,
         pc'[h] = "dag.fail" => p[h].source = "dag" /\ h \in spoilt',
         pc[h] \in MayList =>
           pc'[h] = "cleanup" \/ (pc'[h] = "return" /\ status'[h] >= 0 /\ p'[h].ops = "own"),
         h \notin spoilt' =>
           /\ p'[h].buffer \in {"null", "live"}
           /\ p'[h].source = "canusb" => p'[h].buffer = "null"
           /\ pc'[h] = "cleanup" => Left("own", held'[h], p[h].source)
           /\ pc'[h] = "return" /\ sock_fd'[h] # NULL => p'[h].ops = "own"
           /\ pc'[h] = "return" =>
                IF status'[h] < 0
                THEN /\ p'[h].fd = NULL /\ sock_fd'[h] = NULL /\ p'[h].buffer = "null"
                     /\ held'[h] = {}
                ELSE Left(p'[h].ops, held'[h], p[h].source)
  PROVE  Apart(h) /\ Claimed(h)
<1>1. /\ state' = state /\ priv' = priv /\ call' = call
      /\ pcaps_to_close' = pcaps_to_close /\ ringless' = ringless
  BY DEF inert, marks
<1>2. /\ state[h] = "open" /\ p[h].source \notin LinuxDevices
      /\ h \notin spoilt => Pointing(h)
      /\ pc[h] \notin MayList => ~Listed(h)
  BY InDevice
<1>3. p'[h].source = p[h].source /\ status'[h] \in Int BY DEF Beside
<1>4. Apart(h) BY <1>1 DEF Apart, Beside, Listed
<1>5. Where(h)'
  <2>1. pc'[h] \in Between \cup StepsOf(p'[h].source) BY <1>3 DEF Between, StepsOf
  <2> QED BY <1>1, <1>2, <1>3, <2>1 DEF Ready, Where, Undoing, LinuxSteps
<1>6. h \notin spoilt' => Holds(h)'
  <2> SUFFICES ASSUME h \notin spoilt' PROVE Holds(h)' OBVIOUS
  <2>1. Pointing(h) BY <1>2
  <2>2. pc'[h] \in {"return", "cleanup"} OBVIOUS
  <2>3. Untouched(h)' BY <1>1, <1>2, <2>1 DEF Pointing, Untouched
  <2>4. pc'[h] \in WithFd /\ pc'[h] \in WithSecond /\ pc'[h] \in WithBuffer
    BY <2>2 DEF WithFd, WithSecond, WithBuffer
  <2>5. Pointing(h)' BY <1>1, <1>2, <1>3, <2>1, <2>3, <2>4 DEF Pointing
  <2>6. Progress(h)' BY <2>2 DEF Progress, Between, LinuxSteps
  <2>7. Waiting(h)'
    <3>1. pc'[h] = "return" /\ status'[h] >= 0 => Active(h)'
      BY <1>3 DEF Active, Left
    <3> QED BY <1>3, <2>2, <2>3, <3>1 DEF Waiting, Nothing
  <2>8. Ending(h)' BY <1>3, <2>2 DEF Ending, Left
  <2> QED BY <1>1, <1>2, <2>5, <2>6, <2>7, <2>8 DEF Holds
<1>7. Distinct' /\ Debt(h)'
  <2>1. Debt(h) /\ Distinct BY DEF Ready
  <2>2. Listed(h)' <=> Listed(h) BY <1>1 DEF Listed
  <2>3. Listed(h) =>
          pc'[h] = "cleanup" \/ (pc'[h] = "return" /\ status'[h] >= 0 /\ p'[h].ops = "own")
    BY <1>2
  <2> QED BY <1>1, <1>2, <1>3, <2>1, <2>2, <2>3 DEF Debt, Twice, Distinct, Succeeded, MayList
<1> QED BY <1>4, <1>5, <1>6, <1>7 DEF Claimed

(* One descriptor is closed. *)
LEMMA ClosedOne ==
  ASSUME sockets \in [Sockets -> Handles \cup {NULL}], NEW d \in Sockets \cup {NULL}
  PROVE  Closed(d) = [s \in Sockets |-> IF s \in {d} THEN NULL ELSE sockets[s]]
<1>1. NULL \notin Sockets BY ActivationAssumption, HandlesAssumption DEF NULL
<1>2. CASE d = NULL
  <2>1. sockets = [s \in Sockets |-> IF s \in {d} THEN NULL ELSE sockets[s]] BY <1>1, <1>2
  <2> QED BY <1>2, <2>1 DEF Closed
<1>3. CASE d # NULL
  <2>1. [sockets EXCEPT ![d] = NULL] = [s \in Sockets |-> IF s \in {d} THEN NULL ELSE sockets[s]]
    BY <1>3
  <2> QED BY <1>3, <2>1 DEF Closed
<1> QED BY <1>2, <1>3

(* Where nothing is held, where no second descriptor is, and where all that
   is held is what the device's own clean-up gives back. *)
Bare(x) == x \notin WithFd \cup WithSecond \cup WithBuffer /\ Holding(x) = {} /\ MayHold(x) = {}
Single(x) == x \notin WithSecond /\ Holding(x) = {} /\ MayHold(x) = {}
Covered(x) ==
  \A source : x \in StepsOf(source) =>
    /\ Holding(x) \cup MayHold(x) \subseteq Gives(source)
    /\ source \in Sure => Holding(x) = Gives(source) /\ MayHold(x) = {}

(* With which an activation of a device ends or turns back. *)
LEMMA Parting ==
  ASSUME NEW h \in Handles, Ready(h), Keeps(h), Device(pc[h]), NEW st \in Int
  PROVE  /\ Answer(h, st) /\ st < 0 /\ Bare(pc[h]) /\ pc[h] \notin MayList => Accounted(h)
         /\ Forget(h, st) /\ pc[h] \notin MayList => Accounted(h)
         /\ CloseOnly(h, st) /\ pc[h] \notin MayList => Accounted(h)
         /\ Undo(h, st) /\ st < 0 /\ Single(pc[h]) /\ pc[h] \notin MayList => Accounted(h)
         /\ Abort(h, st) /\ st < 0 /\ Covered(pc[h]) => Accounted(h)
         /\ dag_fail(h) /\ pc[h] \in StepsOf("dag") => Accounted(h)
         /\ \A q : Alike(q, p[h]) /\ Done(h, "device", st, q) /\ st >= 0 /\ Single(pc[h])
              /\ pc[h] \notin MayList => Accounted(h)
         /\ \A q : Alike(q, p[h]) /\ Done(h, "own", st, q) /\ st >= 0
              /\ Covered(pc[h]) => Accounted(h)
<1>0. /\ DOMAIN p = Handles /\ DOMAIN pc = Handles /\ DOMAIN p[h] = Fields
      /\ DOMAIN sock_fd = Handles /\ DOMAIN status = Handles /\ DOMAIN held = Handles
      /\ p[h].fd \in Sockets \cup {NULL} /\ sock_fd[h] \in Sockets \cup {NULL} /\ status[h] \in Int
      /\ sockets \in [Sockets -> Handles \cup {NULL}]
      /\ spoilt = {} => Owner(h)
  BY DEF Ready, Shapes, Shaped
<1>1. /\ state[h] = "open" /\ p[h].source \notin LinuxDevices
      /\ p[h].ops \in {"none", "device", "own"}
      /\ h \notin spoilt => Pointing(h) /\ held[h] \ MayHold(pc[h]) = Holding(pc[h])
      /\ pc[h] \notin MayList => ~Listed(h)
      /\ pc[h] \in StepsOf(p[h].source)
  BY InDevice
<1>2. spoilt \subseteq spoilt' BY DEF Keeps, Others
<1>3. h \notin spoilt =>
        /\ p[h].buffer \in {"null", "live"} /\ (p[h].source = "canusb" => p[h].buffer = "null")
        /\ p[h].fd # NULL => pc[h] \in WithFd
        /\ sock_fd[h] # NULL => pc[h] \in WithSecond
        /\ p[h].buffer = "live" => pc[h] \in WithBuffer
        /\ held[h] \subseteq Holding(pc[h]) \cup MayHold(pc[h])
        /\ Holding(pc[h]) \subseteq held[h]
  BY <1>1 DEF Pointing
<1>4. h \notin spoilt /\ Covered(pc[h]) => Left("own", held[h], p[h].source)
  BY <1>1, <1>3 DEF Covered, Left
<1>5. ASSUME Answer(h, st), st < 0, Bare(pc[h]), pc[h] \notin MayList PROVE Accounted(h)
  <2>1. /\ UNCHANGED <<inert, p, sock_fd, sockets, errors, held, lost, spoilt>>
        /\ pc'[h] = "return" /\ status'[h] = st
        /\ DOMAIN status' = Handles /\ \A g \in Handles \ {h} : status'[g] = status[g]
    BY <1>0, <1>5 DEF Answer, Return, Goto, devices
  <2>2. Beside(h) BY <1>0, <2>1 DEF Beside
  <2>3. h \notin spoilt =>
          p[h].fd = NULL /\ sock_fd[h] = NULL /\ p[h].buffer = "null" /\ held[h] = {}
    BY <1>3, <1>5 DEF Bare
  <2>4. Apart(h) /\ Claimed(h)
    BY <1>0, <1>1, <1>5, <2>1, <2>2, <2>3, Leaving
  <2>5. Trade(h) BY <2>1, Same DEF inert
  <2> QED BY <2>4, <2>5 DEF Accounted
<1>6. ASSUME Forget(h, st), pc[h] \notin MayList PROVE Accounted(h)
  <2>1. /\ UNCHANGED <<inert, p, sock_fd, sockets, errors, held, lost>>
        /\ spoilt' = spoilt \cup {h}
        /\ pc'[h] = "return" /\ status'[h] = st
        /\ DOMAIN status' = Handles /\ \A g \in Handles \ {h} : status'[g] = status[g]
    BY <1>0, <1>6 DEF Forget, Return, Goto
  <2>2. Beside(h) BY <1>0, <2>1 DEF Beside
  <2>4. Apart(h) /\ Claimed(h)
    BY <1>1, <1>6, <2>1, <2>2, Leaving
  <2>5. Trade(h) BY <2>1, Same DEF inert
  <2> QED BY <2>4, <2>5 DEF Accounted
<1>7. ASSUME CloseOnly(h, st), pc[h] \notin MayList PROVE Accounted(h)
  <2>1. /\ UNCHANGED <<inert, p, sock_fd, errors, held, lost>>
        /\ spoilt' = spoilt \cup {h} /\ sockets' = Closed(p[h].fd)
        /\ pc'[h] = "return" /\ status'[h] = st
        /\ DOMAIN status' = Handles /\ \A g \in Handles \ {h} : status'[g] = status[g]
    BY <1>0, <1>7 DEF CloseOnly, Return, Goto
  <2>2. Beside(h) BY <1>0, <2>1 DEF Beside
  <2>4. Apart(h) /\ Claimed(h)
    BY <1>1, <1>7, <2>1, <2>2, Leaving
  <2>5. sockets' = [s \in Sockets |-> IF s \in {p[h].fd} THEN NULL ELSE sockets[s]]
    BY <1>0, <2>1, ClosedOne
  <2>6. Trade(h) BY <2>1, <2>5, Closes
  <2> QED BY <2>4, <2>6 DEF Accounted
<1>8. ASSUME Undo(h, st), st < 0, Single(pc[h]), pc[h] \notin MayList PROVE Accounted(h)
  <2>1. /\ UNCHANGED <<inert, sock_fd, held, lost, spoilt>>
        /\ p' = [p EXCEPT ![h].buffer = "null", ![h].dlt_list = {}, ![h].fd = NULL]
        /\ sockets' = Closed(p[h].fd) /\ errors' = errors \cup LiveErrors(h)
        /\ pc'[h] = "return" /\ status'[h] = st
        /\ DOMAIN status' = Handles /\ \A g \in Handles \ {h} : status'[g] = status[g]
    BY <1>0, <1>8 DEF Undo, LiveCommon, Return, Goto, devices
  <2>2. /\ p'[h].fd = NULL /\ p'[h].buffer = "null" /\ p'[h].source = p[h].source
        /\ p'[h].ops = p[h].ops
    BY <1>0, <2>1 DEF Fields
  <2>3. Beside(h) BY <1>0, <2>1, <2>2 DEF Beside
  <2>4. h \notin spoilt => sock_fd[h] = NULL /\ held[h] = {} BY <1>3, <1>8 DEF Single
  <2>5. Apart(h) /\ Claimed(h)
    BY <1>1, <1>8, <2>1, <2>2, <2>3, <2>4, Leaving
  <2>6. sockets' = [s \in Sockets |-> IF s \in {p[h].fd} THEN NULL ELSE sockets[s]]
    BY <1>0, <2>1, ClosedOne
  <2>7. spoilt = {} => LiveErrors(h) = {}
    BY <1>0, <1>3 DEF LiveErrors, Dealloc, CloseError, Owner
  <2>8. Trade(h)
    <3>1. state'[h] = "open" BY <1>1, <2>1 DEF inert
    <3>2. h \notin spoilt' => {p'[h].fd, sock_fd'[h]} \ {NULL} = {p[h].fd, sock_fd[h]} \ ({p[h].fd} \cup {NULL})
      BY <2>1, <2>2, <2>4
    <3>3. spoilt' = {} => errors' = errors BY <2>1, <2>7
    <3> QED BY <2>1, <2>6, <3>1, <3>2, <3>3, Closes
  <2> QED BY <2>5, <2>8 DEF Accounted
<1>9. ASSUME Abort(h, st), st < 0, Covered(pc[h]) PROVE Accounted(h)
  <2>1. /\ UNCHANGED <<inert, p, sock_fd, sockets, errors, held, lost, spoilt>>
        /\ pc'[h] = "cleanup" /\ status'[h] = st
        /\ DOMAIN status' = Handles /\ \A g \in Handles \ {h} : status'[g] = status[g]
    BY <1>0, <1>9 DEF Abort, Goto, devices
  <2>2. Beside(h) BY <1>0, <2>1 DEF Beside
  <2>4. Apart(h) /\ Claimed(h)
    BY <1>1, <1>3, <1>4, <1>9, <2>1, <2>2, Leaving
  <2>5. Trade(h) BY <2>1, Same DEF inert
  <2> QED BY <2>4, <2>5 DEF Accounted
<1>10. ASSUME dag_fail(h), pc[h] \in StepsOf("dag") PROVE Accounted(h)
  <2>1. /\ UNCHANGED <<inert, p, sock_fd, errors, lost>>
        /\ held' = [held EXCEPT ![h] = @ \ {"attached", "stream"}]
        /\ spoilt' = spoilt \cup {h} /\ sockets' = Closed(p[h].fd)
        /\ pc'[h] = "dag.fail" /\ status'[h] = PCAP_ERROR
        /\ DOMAIN status' = Handles /\ \A g \in Handles \ {h} : status'[g] = status[g]
    BY <1>0, <1>10 DEF dag_fail, Goto
  <2>2. PCAP_ERROR \in Int BY DEF PCAP_ERROR
  <2>3. Beside(h) BY <1>0, <2>1, <2>2 DEF Beside
  <2>4. pc[h] \notin MayList /\ p[h].source = "dag"
    BY <1>1, <1>10 DEF StepsOf, MayList, LinuxSteps, Undoing
  <2>5. Apart(h) /\ Claimed(h)
    BY <1>1, <1>10, <2>1, <2>3, <2>4, Leaving
  <2>6. sockets' = [s \in Sockets |-> IF s \in {p[h].fd} THEN NULL ELSE sockets[s]]
    BY <1>0, <2>1, ClosedOne
  <2>7. Trade(h) BY <2>1, <2>6, Closes
  <2> QED BY <2>5, <2>7 DEF Accounted
<1>11. ASSUME NEW ops \in {"device", "own"}, NEW q, Alike(q, p[h]), Done(h, ops, st, q), st >= 0,
              h \notin spoilt => Left(ops, held[h], p[h].source),
              h \notin spoilt /\ sock_fd[h] # NULL => ops = "own",
              pc[h] \in MayList => ops = "own"
       PROVE  Accounted(h)
  <2>1. /\ UNCHANGED <<inert, sock_fd, sockets, errors, held, lost, spoilt>>
        /\ p' = [p EXCEPT ![h] = [q EXCEPT !.ops = ops]]
        /\ pc'[h] = "return" /\ status'[h] = st
        /\ DOMAIN status' = Handles /\ \A g \in Handles \ {h} : status'[g] = status[g]
    BY <1>0, <1>11 DEF Done, Return, Goto, devices
  <2>2. /\ p'[h].fd = p[h].fd /\ p'[h].buffer = p[h].buffer /\ p'[h].source = p[h].source
        /\ p'[h].ops = ops
    <3>1. DOMAIN q = Fields BY <1>11 DEF Alike
    <3>2. p'[h] = [q EXCEPT !.ops = ops] BY <1>0, <2>1
    <3> QED BY <1>11, <3>1, <3>2 DEF Alike, Fields
  <2>3. Beside(h) BY <1>0, <2>1, <2>2 DEF Beside
  <2>5. Apart(h) /\ Claimed(h)
    <3>1. h \notin spoilt =>
           /\ p'[h].buffer \in {"null", "live"}
           /\ p'[h].source = "canusb" => p'[h].buffer = "null"
      BY <1>3, <2>2
    <3>2. h \notin spoilt => Left(p'[h].ops, held'[h], p[h].source)
      BY <1>11, <2>1, <2>2
    <3> QED BY <1>0, <1>11, <2>1, <2>2, <2>3, <3>1, <3>2, Leaving
  <2>6. Trade(h) BY <2>1, <2>2, Same DEF inert
  <2> QED BY <2>5, <2>6 DEF Accounted
<1>12. ASSUME NEW q, Alike(q, p[h]), Done(h, "device", st, q), st >= 0, Single(pc[h]),
              pc[h] \notin MayList
       PROVE  Accounted(h)
  <2>1. h \notin spoilt => sock_fd[h] = NULL /\ Left("device", held[h], p[h].source)
    BY <1>3, <1>12 DEF Single, Left
  <2> QED BY <1>11, <1>12, <2>1
<1>13. ASSUME NEW q, Alike(q, p[h]), Done(h, "own", st, q), st >= 0, Covered(pc[h])
       PROVE  Accounted(h)
  BY <1>4, <1>11, <1>13
<1> QED BY <1>5, <1>6, <1>7, <1>8, <1>9, <1>10, <1>12, <1>13

-----------------------------------------------------------------------------
(* The courses that the activations take. *)

(* The devices of USB buses. *)
LEMMA UsbCourse ==
  /\ \A y \in {"usb.binary", "usb.text"} : Opening("usb", y) /\ Allotting(y, "usb.buffer")
  /\ Gains("usb.binary", "usb.mapped", "mapping")
  /\ Bare("usb") /\ Covered("usb.mapped") /\ Single("usb.buffer")
  /\ \A x \in {"usb", "usb.binary", "usb.text", "usb.mapped", "usb.buffer"} : Device(x) /\ x \notin MayList
BY DEF Opening, Doubling, Allotting, Follows, Gains, Leads, DevicePlace, Between, Undoing,
   LinuxSteps, StepsOf, WithFd,
  WithSecond, WithBuffer, MayList, MayHold, Holding, Device, Bare, Single, Covered, Gives, Sure

(* CAN and Bluetooth. *)
LEMMA CanBtCourse ==
  /\ Opening("can", "can.buffer") /\ Allotting("can.buffer", "can.bind") /\ Follows("can.bind", "can.rfmon")
  /\ Opening("bt", "bt.buffer") /\ Allotting("bt.buffer", "bt.bind") /\ Follows("bt.bind", "bt.rfmon")
  /\ Bare("can") /\ Bare("bt")
  /\ \A x \in {"can.buffer", "can.bind", "can.rfmon", "bt.buffer", "bt.bind", "bt.rfmon"} : Single(x)
  /\ \A x \in {"can", "can.buffer", "can.bind", "can.rfmon", "bt", "bt.buffer", "bt.bind", "bt.rfmon"} :
       Device(x) /\ x \notin MayList
BY DEF Opening, Doubling, Allotting, Follows, Gains, Leads, DevicePlace, Between, Undoing,
   LinuxSteps, StepsOf, WithFd,
  WithSecond, WithBuffer, MayList, MayHold, Holding, Device, Bare, Single, Covered, Gives, Sure

(* Netfilter. *)
LEMMA NetfilterCourse ==
  /\ Opening("netfilter", "netfilter.buffer") /\ Allotting("netfilter.buffer", "netfilter.groups")
  /\ Follows("netfilter.groups", "netfilter.send") /\ Follows("netfilter.send", "netfilter.send")
  /\ Follows("netfilter.send", "netfilter.rfmon") /\ Bare("netfilter")
  /\ \A x \in {"netfilter.buffer", "netfilter.groups", "netfilter.send", "netfilter.rfmon"} : Single(x)
  /\ \A x \in {"netfilter", "netfilter.buffer", "netfilter.groups", "netfilter.send", "netfilter.rfmon"} :
       Device(x) /\ x \notin MayList
BY DEF Opening, Doubling, Allotting, Follows, Gains, Leads, DevicePlace, Between, Undoing,
   LinuxSteps, StepsOf, WithFd,
  WithSecond, WithBuffer, MayList, MayHold, Holding, Device, Bare, Single, Covered, Gives, Sure

(* D-Bus and the CANUSB adapter. *)
LEMMA DbusCourse ==
  /\ Gains("dbus", "dbus.register", "conn") /\ Follows("dbus.register", "dbus.rules")
  /\ Bare("dbus") /\ Covered("dbus.rules")
  /\ Gains("canusb", "canusb.open", "context") /\ Gains("canusb.open", "canusb.start", "device")
  /\ Bare("canusb")
  /\ \A x \in {"dbus", "dbus.register", "dbus.rules", "canusb", "canusb.open", "canusb.start"} :
       Device(x) /\ x \notin MayList
BY DEF Opening, Doubling, Allotting, Follows, Gains, Leads, DevicePlace, Between, Undoing,
   LinuxSteps, StepsOf, WithFd,
  WithSecond, WithBuffer, MayList, MayHold, Holding, Device, Bare, Single, Covered, Gives, Sure

(* SunOS and Digital UNIX. *)
LEMMA SnitCourse ==
  /\ Follows("snit", "snit.open") /\ Opening("snit.open", "snit.bind") /\ Follows("snit.bind", "snit.flags")
  /\ Follows("snit.flags", "snit.buffer") /\ Allotting("snit.buffer", "snit.list") /\ Bare("snit")
  /\ Opening("pf", "pf.type") /\ Follows("pf.type", "pf.truncate") /\ Allotting("pf.truncate", "pf.end")
  /\ \A x \in {"snit", "snit.open", "snit.bind", "snit.flags", "snit.buffer", "snit.list",
             "pf", "pf.type", "pf.truncate", "pf.end"} :
       Device(x) /\ Single(x) /\ x \notin MayList
BY DEF Opening, Doubling, Allotting, Follows, Gains, Leads, DevicePlace, Between, Undoing,
   LinuxSteps, StepsOf, WithFd,
  WithSecond, WithBuffer, MayList, MayHold, Holding, Device, Bare, Single, Covered, Gives, Sure

(* IRIX, and Septel cards. *)
LEMMA SnoopCourse ==
  /\ Opening("snoop", "snoop.bind") /\ Follows("snoop.bind", "snoop.length")
  /\ Follows("snoop.length", "snoop.buffer") /\ Allotting("snoop.buffer", "snoop.end")
  /\ \A x \in {"snoop", "snoop.bind", "snoop.length", "snoop.buffer", "snoop.end", "septel"} :
       Device(x) /\ Single(x) /\ x \notin MayList
BY DEF Opening, Doubling, Allotting, Follows, Gains, Leads, DevicePlace, Between, Undoing,
   LinuxSteps, StepsOf, WithFd,
  WithSecond, WithBuffer, MayList, MayHold, Holding, Device, Bare, Single, Covered, Gives, Sure

(* Windows. *)
LEMMA NpfCourse ==
  /\ Gains("npf", "npf.type", "adapter") /\ Follows("npf.type", "npf.packet")
  /\ Gains("npf.packet", "npf.size", "packet") /\ Follows("npf.size", "npf.buffer")
  /\ Allotting("npf.buffer", "npf.copy") /\ Bare("npf")
  /\ \A x \in {"npf", "npf.type", "npf.packet", "npf.size", "npf.buffer", "npf.copy"} :
       Device(x) /\ Covered(x) /\ x \notin MayList
BY DEF Opening, Doubling, Allotting, Follows, Gains, Leads, DevicePlace, Between, Undoing,
   LinuxSteps, StepsOf, WithFd,
  WithSecond, WithBuffer, MayList, MayHold, Holding, Device, Bare, Single, Covered, Gives, Sure

(* DLPI through libdlpi, and the end of both ways. *)
LEMMA LibdlpiCourse ==
  /\ Doubling("libdlpi", "libdlpi.bind") /\ Follows("libdlpi.bind", "libdlpi.promisc")
  /\ Follows("libdlpi.promisc", "libdlpi.sap") /\ Follows("libdlpi.sap", "libdlpi.info") /\ Bare("libdlpi")
  /\ Follows("bufmod", "databuf") /\ Allotting("databuf", "dlpi.end")
  /\ \A x \in {"libdlpi", "libdlpi.bind", "libdlpi.promisc", "libdlpi.sap", "libdlpi.info", "bufmod",
             "databuf", "dlpi.end"} : Device(x) /\ Covered(x) /\ x \notin MayList
BY DEF Opening, Doubling, Allotting, Follows, Gains, Leads, DevicePlace, Between, Undoing,
   LinuxSteps, StepsOf, WithFd,
  WithSecond, WithBuffer, MayList, MayHold, Holding, Device, Bare, Single, Covered, Gives, Sure

(* DLPI through streams. *)
LEMMA DlpiCourse ==
  /\ Opening("dlpi", "dlpi.send") /\ Opening("dlpi", "dlpi.attach")
  /\ Follows("dlpi.send", "dlpi.ppa") /\ Doubling("dlpi.send", "dlpi.ppa")
  /\ Gains("dlpi.ppa", "dlpi.table", "table") /\ Follows("dlpi.attach", "dlpi.bind")
  /\ Follows("dlpi.bind", "dlpi.promisc") /\ Follows("dlpi.promisc", "dlpi.multi")
  /\ Follows("dlpi.promisc", "dlpi.sap") /\ Follows("dlpi.promisc", "dlpi.info")
  /\ Follows("dlpi.multi", "dlpi.sap") /\ Follows("dlpi.sap", "dlpi.last") /\ Follows("dlpi.last", "dlpi.info")
  /\ Follows("dlpi.last", "dlpi.hpux") /\ Follows("dlpi.hpux", "dlpi.hpux")
  /\ Follows("dlpi.hpux", "dlpi.info") /\ Follows("dlpi.info", "bufmod")
  /\ \A x \in {"dlpi", "dlpi.send", "dlpi.ppa", "dlpi.attach", "dlpi.bind", "dlpi.promisc", "dlpi.multi",
             "dlpi.sap", "dlpi.last", "dlpi.info", "dlpi.hpux"} :
       Device(x) /\ Covered(x) /\ x \notin MayList
BY DEF Opening, Doubling, Allotting, Follows, Gains, Leads, DevicePlace, Between, Undoing,
   LinuxSteps, StepsOf, WithFd,
  WithSecond, WithBuffer, MayList, MayHold, Holding, Device, Bare, Single, Covered, Gives, Sure

(* BPF. *)
LEMMA BpfCourse ==
  /\ Opening("bpf", "bpf.device") /\ Gains("bpf.device", "bpf.rfmon", "device")
  /\ Follows("bpf.rfmon", "bpf.mode") /\ Follows("bpf.mode", "bpf.size") /\ Gains("bpf.mode", "bpf.zbuf", "zbuf")
  /\ Follows("bpf.zbuf", "bpf.type") /\ Follows("bpf.size", "bpf.type") /\ Follows("bpf.size", "bpf.halve")
  /\ Follows("bpf.halve", "bpf.type") /\ Follows("bpf.halve", "bpf.halve")
  /\ Follows("bpf.type", "bpf.monitor") /\ Follows("bpf.monitor", "bpf.list") /\ Follows("bpf.best", "bpf.list")
  /\ Follows("bpf.list", "bpf.modes") /\ Follows("bpf.modes", "bpf.buffer")
  /\ Follows("bpf.buffer", "bpf.filter") /\ Allotting("bpf.buffer", "bpf.filter")
  /\ \A x \in {"bpf", "bpf.device", "bpf.rfmon", "bpf.mode", "bpf.zbuf", "bpf.size", "bpf.halve",
             "bpf.type", "bpf.monitor", "bpf.best", "bpf.list", "bpf.modes", "bpf.buffer",
             "bpf.filter"} :
       Device(x) /\ Covered(x)
BY DEF Opening, Doubling, Allotting, Follows, Gains, Leads, DevicePlace, Between, Undoing,
   LinuxSteps, StepsOf, WithFd,
  WithSecond, WithBuffer, MayList, MayHold, Holding, Device, Bare, Single, Covered, Gives, Sure

(* DAG and SNF cards. *)
LEMMA DagCourse ==
  /\ Opening("dag", "dag.attach") /\ Gains("dag.attach", "dag.start", "attached")
  /\ Gains("dag.start", "dag.settle", "stream") /\ Follows("dag.settle", "dag.types")
  /\ Follows("dag.types", "dag.node") /\ Gains("dag.node", "dag.end", "node")
  /\ Single("dag") /\ Single("dag.fail") /\ Covered("dag.end")
  /\ \A x \in {"dag", "dag.attach", "dag.start", "dag.settle", "dag.types", "dag.node", "dag.end",
             "dag.fail"} : Device(x) /\ x \notin MayList /\ x \in StepsOf("dag")
  /\ Gains("snf", "snf.ring", "board") /\ Gains("snf.ring", "snf.start", "ring")
  /\ Bare("snf") /\ Covered("snf.start")
  /\ \A x \in {"snf", "snf.ring", "snf.start"} : Device(x) /\ x \notin MayList
BY DEF Opening, Doubling, Allotting, Follows, Gains, Leads, DevicePlace, Between, Undoing,
   LinuxSteps, StepsOf, WithFd,
  WithSecond, WithBuffer, MayList, MayHold, Holding, Device, Bare, Single, Covered, Gives, Sure

-----------------------------------------------------------------------------
(* The steps of the devices' activations. *)

(* What an activation sets besides leaves a handle alike. *)
LEMMA AlikeSettings ==
  ASSUME NEW q, NEW r, Alike(q, r)
  PROVE  /\ \A v : /\ Alike([q EXCEPT !.linktype = v], r)
                   /\ Alike([q EXCEPT !.dlt_list = v], r)
                   /\ Alike([q EXCEPT !.snapshot = v], r)
                   /\ Alike([q EXCEPT !.buffer_size = v], r)
                   /\ Alike(Of(q, v), r)
         /\ Alike(Ethernet(q), r)
         /\ \A u \in Media(q) \cup Real(q) : Alike(u, r)
<1>1. DOMAIN q = Fields BY DEF Alike
<1>2. \A v : Alike([q EXCEPT !.linktype = v], r) BY <1>1 DEF Alike, Fields
<1>3. \A v : Alike([q EXCEPT !.dlt_list = v], r) BY <1>1 DEF Alike, Fields
<1>4. \A v : Alike([q EXCEPT !.snapshot = v], r) BY <1>1 DEF Alike, Fields
<1>5. \A v : Alike([q EXCEPT !.buffer_size = v], r) BY <1>1 DEF Alike, Fields
<1>6. \A v : Alike(Of(q, v), r) BY <1>2 DEF Of
<1>7. Alike(Ethernet(q), r)
  <2>1. Alike(Of(q, "EN10MB"), r) /\ DOMAIN Of(q, "EN10MB") = Fields BY <1>6 DEF Alike
  <2> QED BY <2>1 DEF Ethernet, Alike, Fields
<1>8. \A u \in Media(q) \cup Real(q) : Alike(u, r) BY <1>6, <1>7 DEF Media, Real
<1> QED BY <1>2, <1>3, <1>4, <1>5, <1>6, <1>7, <1>8

(* The steps that are made of those above. *)
LEMMA DeviceSteps ==
  ASSUME NEW h \in Handles, Ready(h), Keeps(h)
  PROVE  /\ usb_activate(h) => Accounted(h)
         /\ usb_mmap(h) => Accounted(h)
         /\ can_activate(h) => Accounted(h)
         /\ bt_activate(h) => Accounted(h)
         /\ netfilter_send_config_msg(h) => Accounted(h)
         /\ netfilter_open(h) => Accounted(h)
         /\ netfilter_activate(h) => Accounted(h)
         /\ dbus_activate(h) => Accounted(h)
         /\ canusb_activate(h) => Accounted(h)
         /\ snit_activate(h) => Accounted(h)
         /\ nit_setflags(h) => Accounted(h)
         /\ pf_open(h) => Accounted(h)
         /\ pf_truncate(h) => Accounted(h)
         /\ snoop_open(h) => Accounted(h)
         /\ snoop_length(h) => Accounted(h)
         /\ npf_open(h) => Accounted(h)
         /\ npf_packet(h) => Accounted(h)
         /\ pcap_conf_bufmod(h) => Accounted(h)
         /\ pcap_alloc_databuf(h) => Accounted(h)
         /\ dlpi_open(h) => Accounted(h)
         /\ dlpi_unit(h) => Accounted(h)
         /\ dlpi_attach(h) => Accounted(h)
         /\ dlpi_promisc(h) => Accounted(h)
         /\ dl_dohpuxbind(h) => Accounted(h)
         /\ dlpi_linktype(h) => Accounted(h)
         /\ bpf_open(h) => Accounted(h)
         /\ bpf_device(h) => Accounted(h)
         /\ bpf_rfmon(h) => Accounted(h)
         /\ bpf_zerocopy(h) => Accounted(h)
         /\ bpf_size(h) => Accounted(h)
         /\ bpf_type(h) => Accounted(h)
         /\ bpf_apple(h) => Accounted(h)
         /\ bpf_best(h) => Accounted(h)
         /\ bpf_modes(h) => Accounted(h)
         /\ bpf_buffer(h) => Accounted(h)
         /\ dag_open(h) => Accounted(h)
         /\ dag_settle(h) => Accounted(h)
         /\ dag_get_datalink(h) => Accounted(h)
         /\ new_pcap_dag(h) => Accounted(h)
         /\ snf_activate(h) => Accounted(h)
         /\ septel_activate(h) => Accounted(h)
<1>1. /\ Alike(p[h], p[h]) /\ \A v : Alike(Of(p[h], v), p[h])
      /\ \A u \in Media(p[h]) \cup Real(p[h]) : Alike(u, p[h])
      /\ \A v : /\ Alike([p[h] EXCEPT !.snapshot = v], p[h])
                /\ Alike([p[h] EXCEPT !.buffer_size = v], p[h])
                /\ Alike([p[h] EXCEPT !.dlt_list = v], p[h])
                /\ Alike([Ethernet(p[h]) EXCEPT !.dlt_list = v], p[h])
      /\ \A v, w : /\ Alike([Of(p[h], v) EXCEPT !.dlt_list = w], p[h])
                   /\ Alike([Of(p[h], v) EXCEPT !.snapshot = w], p[h])
      /\ status[h] \in Int
  <2>1. Alike(p[h], p[h]) /\ status[h] \in Int BY DEF Alike, Ready, Shapes, Shaped
  <2>2. /\ Alike(Ethernet(p[h]), p[h]) /\ \A v : Alike(Of(p[h], v), p[h])
        /\ \A u \in Media(p[h]) \cup Real(p[h]) : Alike(u, p[h])
        /\ \A v : /\ Alike([p[h] EXCEPT !.snapshot = v], p[h])
                  /\ Alike([p[h] EXCEPT !.buffer_size = v], p[h])
                  /\ Alike([p[h] EXCEPT !.dlt_list = v], p[h])
    BY <2>1, AlikeSettings
  <2>3. \A v : Alike([Ethernet(p[h]) EXCEPT !.dlt_list = v], p[h]) BY <2>2, AlikeSettings
  <2>4. \A v, w : Alike([Of(p[h], v) EXCEPT !.dlt_list = w], p[h]) BY <2>2, AlikeSettings
  <2>5. \A v, w : Alike([Of(p[h], v) EXCEPT !.snapshot = w], p[h]) BY <2>2, AlikeSettings
  <2> QED BY <2>1, <2>2, <2>3, <2>4, <2>5
<1>2. ASSUME usb_activate(h) PROVE Accounted(h)
  <2>1. CASE pc[h] = "usb"
    BY <1>1, <1>2, <2>1, UsbCourse, Taking, Parting DEF usb_activate, PCAP_ERROR
  <2>2. CASE pc[h] = "usb.binary"
    BY <1>1, <1>2, <2>2, UsbCourse, Taking, Parting DEF usb_activate, PCAP_ERROR,
       PCAP_ERROR_RFMON_NOTSUP
  <2>3. CASE pc[h] = "usb.text"
    BY <1>1, <1>2, <2>3, UsbCourse, Taking, Parting DEF usb_activate, PCAP_ERROR,
       PCAP_ERROR_RFMON_NOTSUP
  <2>4. CASE pc[h] = "usb.mapped"
    BY <1>1, <1>2, <2>4, UsbCourse, Parting DEF usb_activate
  <2>5. CASE pc[h] = "usb.buffer"
    BY <1>1, <1>2, <2>5, UsbCourse, Parting DEF usb_activate
  <2> QED BY <1>2, <2>1, <2>2, <2>3, <2>4, <2>5 DEF usb_activate
<1>3. ASSUME usb_mmap(h) PROVE Accounted(h)
  BY <1>1, <1>3, UsbCourse, Taking DEF usb_mmap
<1>4. ASSUME can_activate(h) PROVE Accounted(h)
  <2>1. CASE pc[h] = "can"
    BY <1>1, <1>4, <2>1, CanBtCourse, Taking, Parting DEF can_activate, PCAP_ERROR
  <2>2. CASE pc[h] = "can.buffer"
    BY <1>1, <1>4, <2>2, CanBtCourse, Taking, Parting DEF can_activate, PCAP_ERROR
  <2>3. CASE pc[h] = "can.bind"
    BY <1>1, <1>4, <2>3, CanBtCourse, Passing, Parting DEF can_activate, PCAP_ERROR
  <2>4. CASE pc[h] = "can.rfmon"
    BY <1>1, <1>4, <2>4, CanBtCourse, Parting DEF can_activate, PCAP_ERROR_RFMON_NOTSUP
  <2> QED BY <1>4, <2>1, <2>2, <2>3, <2>4 DEF can_activate
<1>5. ASSUME bt_activate(h) PROVE Accounted(h)
  <2>1. CASE pc[h] = "bt"
    BY <1>1, <1>5, <2>1, CanBtCourse, Taking, Parting DEF bt_activate, PCAP_ERROR
  <2>2. CASE pc[h] = "bt.buffer"
    BY <1>1, <1>5, <2>2, CanBtCourse, Taking, Parting DEF bt_activate, PCAP_ERROR
  <2>3. CASE pc[h] = "bt.bind"
    BY <1>1, <1>5, <2>3, CanBtCourse, Passing, Parting DEF bt_activate, PCAP_ERROR
  <2>4. CASE pc[h] = "bt.rfmon"
    BY <1>1, <1>5, <2>4, CanBtCourse, Parting DEF bt_activate, PCAP_ERROR,
       PCAP_ERROR_RFMON_NOTSUP
  <2> QED BY <1>5, <2>1, <2>2, <2>3, <2>4 DEF bt_activate
<1>6. ASSUME netfilter_send_config_msg(h) PROVE Accounted(h)
  BY <1>1, <1>6, NetfilterCourse, Passing, Parting DEF netfilter_send_config_msg, PCAP_ERROR
<1>7. ASSUME netfilter_open(h) PROVE Accounted(h)
  <2>1. pc[h] = "netfilter" BY <1>7 DEF netfilter_open
  <2>2. CASE Answer(h, PCAP_ERROR) BY <2>1, <2>2, NetfilterCourse, Parting DEF PCAP_ERROR
  <2>3. ASSUME NEW v, Descriptor(h, "netfilter.buffer", [Of(p[h], "OTHER") EXCEPT !.dlt_list = v])
       PROVE  Accounted(h)
    BY <1>1, <2>1, <2>3, NetfilterCourse, Taking
  <2>4. ASSUME NEW v, Descriptor(h, "netfilter.buffer", Of(p[h], v)) PROVE Accounted(h)
    BY <1>1, <2>1, <2>4, NetfilterCourse, Taking
  <2> QED BY <1>7, <2>2, <2>3, <2>4 DEF netfilter_open
<1>8. ASSUME netfilter_activate(h) PROVE Accounted(h)
  <2>1. CASE pc[h] = "netfilter.buffer"
    BY <1>1, <1>8, <2>1, NetfilterCourse, Taking, Parting DEF netfilter_activate, PCAP_ERROR
  <2>2. CASE pc[h] = "netfilter.groups"
    BY <1>1, <1>8, <2>2, NetfilterCourse, Passing DEF netfilter_activate
  <2>3. CASE pc[h] = "netfilter.rfmon"
    BY <1>1, <1>8, <2>3, NetfilterCourse, Parting DEF netfilter_activate, PCAP_ERROR,
       PCAP_ERROR_RFMON_NOTSUP
  <2> QED BY <1>8, <2>1, <2>2, <2>3 DEF netfilter_activate
<1>9. ASSUME dbus_activate(h) PROVE Accounted(h)
  <2>1. CASE pc[h] = "dbus"
    BY <1>1, <1>9, <2>1, DbusCourse, Taking, Parting DEF dbus_activate, PCAP_ERROR
  <2>2. CASE pc[h] = "dbus.register"
    BY <1>1, <1>9, <2>2, DbusCourse, Passing, Parting DEF dbus_activate, PCAP_ERROR
  <2>3. CASE pc[h] = "dbus.rules"
    BY <1>1, <1>9, <2>3, DbusCourse, Parting DEF dbus_activate, PCAP_ERROR,
       PCAP_ERROR_RFMON_NOTSUP
  <2> QED BY <1>9, <2>1, <2>2, <2>3 DEF dbus_activate
<1>10. ASSUME canusb_activate(h) PROVE Accounted(h)
  BY <1>1, <1>10, DbusCourse, Taking, Parting DEF canusb_activate, PCAP_ERROR
<1>11. ASSUME snit_activate(h) PROVE Accounted(h)
  <2>1. CASE pc[h] = "snit"
    <3>1. CASE Answer(h, PCAP_ERROR_RFMON_NOTSUP)
      BY <2>1, <3>1, SnitCourse, Parting DEF PCAP_ERROR_RFMON_NOTSUP
    <3>2. ASSUME NEW v, Proceed(h, "snit.open", [p[h] EXCEPT !.snapshot = v]) PROVE Accounted(h)
      BY <1>1, <2>1, <3>2, SnitCourse, Passing
    <3> QED BY <1>11, <2>1, <3>1, <3>2 DEF snit_activate
  <2>2. CASE pc[h] = "snit.open"
    BY <1>1, <1>11, <2>2, SnitCourse, Taking, Parting DEF snit_activate, PCAP_ERROR
  <2>3. CASE pc[h] = "snit.bind"
    BY <1>1, <1>11, <2>3, SnitCourse, Passing, Parting DEF snit_activate, PCAP_ERROR
  <2>4. CASE pc[h] = "snit.buffer"
    BY <1>1, <1>11, <2>4, SnitCourse, Taking, Parting DEF snit_activate, PCAP_ERROR
  <2>5. CASE pc[h] = "snit.list"
    BY <1>1, <1>11, <2>5, SnitCourse, Parting DEF snit_activate
  <2> QED BY <1>11, <2>1, <2>2, <2>3, <2>4, <2>5 DEF snit_activate
<1>12. ASSUME nit_setflags(h) PROVE Accounted(h)
  BY <1>1, <1>12, SnitCourse, Passing, Parting DEF nit_setflags, PCAP_ERROR
<1>13. ASSUME pf_open(h) PROVE Accounted(h)
  <2>1. CASE pc[h] = "pf"
    BY <1>1, <1>13, <2>1, SnitCourse, Taking, Parting DEF pf_open, PCAP_ERROR
  <2>2. CASE pc[h] = "pf.type"
    <3>1. CASE Undo(h, PCAP_ERROR) BY <2>2, <3>1, SnitCourse, Parting DEF PCAP_ERROR
    <3>2. ASSUME NEW q \in Media(p[h]), Proceed(h, "pf.truncate", q) PROVE Accounted(h)
      BY <1>1, <2>2, <3>2, SnitCourse, Passing
    <3>3. ASSUME NEW v, Proceed(h, "pf.truncate", [Of(p[h], "OTHER") EXCEPT !.snapshot = v])
         PROVE  Accounted(h)
      BY <1>1, <2>2, <3>3, SnitCourse, Passing
    <3> QED BY <1>13, <2>2, <3>1, <3>2, <3>3 DEF pf_open
  <2> QED BY <1>13, <2>1, <2>2 DEF pf_open
<1>14. ASSUME pf_truncate(h) PROVE Accounted(h)
  <2>1. CASE pc[h] = "pf.truncate"
    BY <1>1, <1>14, <2>1, SnitCourse, Taking, Parting DEF pf_truncate, PCAP_ERROR
  <2>2. CASE pc[h] = "pf.end"
    BY <1>1, <1>14, <2>2, SnitCourse, Parting DEF pf_truncate
  <2> QED BY <1>14, <2>1, <2>2 DEF pf_truncate
<1>15. ASSUME snoop_open(h) PROVE Accounted(h)
  <2>1. CASE pc[h] = "snoop"
    BY <1>1, <1>15, <2>1, SnoopCourse, Taking, Parting DEF snoop_open, PCAP_ERROR
  <2>2. CASE pc[h] = "snoop.bind"
    BY <1>1, <1>15, <2>2, SnoopCourse, Passing, Parting DEF snoop_open, PCAP_ERROR
  <2> QED BY <1>15, <2>1, <2>2 DEF snoop_open
<1>16. ASSUME snoop_length(h) PROVE Accounted(h)
  <2>1. CASE pc[h] = "snoop.length"
    <3>1. CASE Forget(h, PCAP_ERROR_RFMON_NOTSUP)
      BY <2>1, <3>1, SnoopCourse, Parting DEF PCAP_ERROR_RFMON_NOTSUP
    <3>2. CASE Undo(h, PCAP_ERROR) BY <2>1, <3>2, SnoopCourse, Parting DEF PCAP_ERROR
    <3>3. ASSUME NEW v, Proceed(h, "snoop.buffer", [p[h] EXCEPT !.snapshot = v]) PROVE Accounted(h)
      BY <1>1, <2>1, <3>3, SnoopCourse, Passing
    <3> QED BY <1>16, <2>1, <3>1, <3>2, <3>3 DEF snoop_length
  <2>2. CASE pc[h] = "snoop.buffer"
    BY <1>1, <1>16, <2>2, SnoopCourse, Taking, Parting DEF snoop_length, PCAP_ERROR
  <2>3. CASE pc[h] = "snoop.end"
    BY <1>1, <1>16, <2>3, SnoopCourse, Parting DEF snoop_length
  <2> QED BY <1>16, <2>1, <2>2, <2>3 DEF snoop_length
<1>17. ASSUME npf_open(h) PROVE Accounted(h)
  <2>1. CASE pc[h] = "npf"
    BY <1>1, <1>17, <2>1, NpfCourse, Taking, Parting DEF npf_open, PCAP_ERROR,
       PCAP_ERROR_RFMON_NOTSUP
  <2>2. CASE pc[h] = "npf.type"
    BY <1>1, <1>17, <2>2, NpfCourse, Passing, Parting DEF npf_open, PCAP_ERROR
  <2> QED BY <1>17, <2>1, <2>2 DEF npf_open
<1>18. ASSUME npf_packet(h) PROVE Accounted(h)
  <2>1. CASE pc[h] = "npf.packet"
    BY <1>1, <1>18, <2>1, NpfCourse, Taking, Parting DEF npf_packet, PCAP_ERROR
  <2>2. CASE pc[h] = "npf.size"
    <3>1. CASE Abort(h, PCAP_ERROR) BY <2>2, <3>1, NpfCourse, Parting DEF PCAP_ERROR
    <3>2. ASSUME NEW v, Proceed(h, "npf.buffer", [p[h] EXCEPT !.buffer_size = v]) PROVE Accounted(h)
      BY <1>1, <2>2, <3>2, NpfCourse, Passing
    <3> QED BY <1>18, <2>2, <3>1, <3>2 DEF npf_packet
  <2>3. CASE pc[h] = "npf.buffer"
    BY <1>1, <1>18, <2>3, NpfCourse, Taking, Parting DEF npf_packet, PCAP_ERROR
  <2>4. CASE pc[h] = "npf.copy"
    BY <1>1, <1>18, <2>4, NpfCourse, Parting DEF npf_packet, PCAP_ERROR
  <2> QED BY <1>18, <2>1, <2>2, <2>3, <2>4 DEF npf_packet
<1>19. ASSUME pcap_conf_bufmod(h) PROVE Accounted(h)
  BY <1>1, <1>19, LibdlpiCourse, Passing, Parting DEF pcap_conf_bufmod, PCAP_ERROR
<1>20. ASSUME pcap_alloc_databuf(h) PROVE Accounted(h)
  <2>1. CASE pc[h] = "databuf"
    BY <1>1, <1>20, <2>1, LibdlpiCourse, Taking, Parting DEF pcap_alloc_databuf, PCAP_ERROR
  <2>2. CASE pc[h] = "dlpi.end"
    BY <1>1, <1>20, <2>2, LibdlpiCourse, Parting, InDevice DEF pcap_alloc_databuf
  <2> QED BY <1>20, <2>1, <2>2 DEF pcap_alloc_databuf
<1>21. ASSUME dlpi_open(h) PROVE Accounted(h)
  <2>1. CASE pc[h] = "dlpi"
    <3>1. ASSUME NEW e \in recv_ack \ {0}, Abort(h, e) PROVE Accounted(h)
      BY <2>1, <3>1, DlpiCourse, Parting
      DEF recv_ack, PCAP_ERROR, PCAP_ERROR_PERM_DENIED, PCAP_ERROR_NO_SUCH_DEVICE
    <3>2. CASE Descriptor(h, "dlpi.send", p[h]) BY <1>1, <2>1, <3>2, DlpiCourse, Taking
    <3> QED BY <1>21, <2>1, <3>1, <3>2 DEF dlpi_open
  <2>2. CASE pc[h] = "dlpi.send"
    BY <1>1, <1>21, <2>2, DlpiCourse, Passing, Taking DEF dlpi_open
  <2> QED BY <1>21, <2>1, <2>2 DEF dlpi_open
<1>22. ASSUME dlpi_unit(h) PROVE Accounted(h)
  BY <1>1, <1>22, DlpiCourse, Taking, Parting DEF dlpi_unit, recv_ack, PCAP_ERROR,
     PCAP_ERROR_PERM_DENIED, PCAP_ERROR_NO_SUCH_DEVICE
<1>23. ASSUME dlpi_attach(h) PROVE Accounted(h)
  <2>1. CASE pc[h] = "dlpi.attach"
    BY <1>1, <1>23, <2>1, DlpiCourse, Passing, Parting DEF dlpi_attach, recv_ack,
       PCAP_ERROR,
       PCAP_ERROR_PERM_DENIED, PCAP_ERROR_NO_SUCH_DEVICE
  <2>2. CASE pc[h] = "dlpi.bind"
    BY <1>1, <1>23, <2>2, DlpiCourse, Passing, Parting DEF dlpi_attach, PCAP_ERROR,
       PCAP_ERROR_RFMON_NOTSUP
  <2> QED BY <1>23, <2>1, <2>2 DEF dlpi_attach
<1>24. ASSUME dlpi_promisc(h) PROVE Accounted(h)
  <2>1. CASE pc[h] = "dlpi.promisc"
    BY <1>1, <1>24, <2>1, DlpiCourse, Passing, Parting DEF dlpi_promisc, recv_ack,
       PCAP_ERROR,
       PCAP_ERROR_PERM_DENIED, PCAP_ERROR_NO_SUCH_DEVICE, Promiscuous,
       PCAP_ERROR_PROMISC_PERM_DENIED
  <2>2. CASE pc[h] = "dlpi.multi"
    BY <1>1, <1>24, <2>2, DlpiCourse, Passing DEF dlpi_promisc, PCAP_WARNING
  <2>3. CASE pc[h] = "dlpi.sap"
    BY <1>1, <1>24, <2>3, DlpiCourse, Passing, Parting DEF dlpi_promisc, recv_ack,
       PCAP_ERROR,
       PCAP_ERROR_PERM_DENIED, PCAP_ERROR_NO_SUCH_DEVICE, AllSaps, PCAP_WARNING
  <2>4. CASE pc[h] = "dlpi.last"
    BY <1>1, <1>24, <2>4, DlpiCourse, Passing DEF dlpi_promisc
  <2> QED BY <1>24, <2>1, <2>2, <2>3, <2>4 DEF dlpi_promisc
<1>25. ASSUME dl_dohpuxbind(h) PROVE Accounted(h)
  <2>1. pc[h] = "dlpi.hpux" BY <1>25 DEF dl_dohpuxbind
  <2>2. CASE Abort(h, PCAP_ERROR) BY <2>1, <2>2, DlpiCourse, Parting DEF PCAP_ERROR
  <2>3. CASE Pass(h, "dlpi.info") BY <2>1, <2>3, DlpiCourse, Passing
  <2>4. CASE Try(h, "dlpi.hpux", blocks[h] - 1) BY <2>1, <2>4, DlpiCourse, Passing
  <2> QED BY <1>25, <2>2, <2>3, <2>4 DEF dl_dohpuxbind
<1>26. ASSUME dlpi_linktype(h) PROVE Accounted(h)
  <2>1. CASE pc[h] = "dlpi.info"
    BY <1>1, <1>26, <2>1, DlpiCourse, Passing, Parting DEF dlpi_linktype, PCAP_ERROR,
       pcap_process_mactype
  <2>2. CASE pc[h] = "bufmod"
    BY <1>1, <1>26, <2>2, DlpiCourse, Passing, LibdlpiCourse DEF dlpi_linktype, PCAP_WARNING
  <2> QED BY <1>26, <2>1, <2>2 DEF dlpi_linktype
<1>27. ASSUME bpf_open(h) PROVE Accounted(h)
  BY <1>1, <1>27, BpfCourse, Taking, Parting DEF bpf_open, PCAP_ERROR,
     PCAP_ERROR_PERM_DENIED
<1>28. ASSUME bpf_device(h) PROVE Accounted(h)
  BY <1>1, <1>28, BpfCourse, Taking, Parting DEF bpf_device, PCAP_ERROR
<1>29. ASSUME bpf_rfmon(h) PROVE Accounted(h)
  BY <1>1, <1>29, BpfCourse, Passing, Parting DEF bpf_rfmon, PCAP_ERROR,
     PCAP_ERROR_RFMON_NOTSUP,
     PCAP_ERROR_NO_SUCH_DEVICE
<1>30. ASSUME bpf_zerocopy(h) PROVE Accounted(h)
  <2>1. CASE pc[h] = "bpf.mode"
    BY <1>1, <1>30, <2>1, BpfCourse, Passing, Taking, Parting DEF bpf_zerocopy, PCAP_ERROR
  <2>2. CASE pc[h] = "bpf.zbuf"
    BY <1>1, <1>30, <2>2, BpfCourse, Passing, Parting DEF bpf_zerocopy, PCAP_ERROR
  <2> QED BY <1>30, <2>1, <2>2 DEF bpf_zerocopy
<1>31. ASSUME bpf_size(h) PROVE Accounted(h)
  <2>1. CASE pc[h] = "bpf.size"
    BY <1>1, <1>31, <2>1, BpfCourse, Passing, Parting DEF bpf_size, check_setif_failure,
       PCAP_ERROR, PCAP_ERROR_NO_SUCH_DEVICE, PCAP_ERROR_IFACE_NOT_UP, PCAP_ERROR_RFMON_NOTSUP
  <2>2. CASE pc[h] = "bpf.halve"
    <3>1. ASSUME NEW e \in check_setif_failure(h), Abort(h, e) PROVE Accounted(h)
      BY <2>2, <3>1, BpfCourse, Parting
      DEF check_setif_failure, PCAP_ERROR, PCAP_ERROR_NO_SUCH_DEVICE, PCAP_ERROR_IFACE_NOT_UP,
          PCAP_ERROR_RFMON_NOTSUP
    <3>2. CASE Pass(h, "bpf.type") BY <2>2, <3>2, BpfCourse, Passing
    <3>3. CASE Try(h, "bpf.halve", blocks[h] - 1) BY <2>2, <3>3, BpfCourse, Passing
    <3> QED BY <1>31, <2>2, <3>1, <3>2, <3>3 DEF bpf_size
  <2> QED BY <1>31, <2>1, <2>2 DEF bpf_size
<1>32. ASSUME bpf_type(h) PROVE Accounted(h)
  <2>1. pc[h] = "bpf.type" BY <1>32 DEF bpf_type
  <2>2. CASE Abort(h, PCAP_ERROR) BY <2>1, <2>2, BpfCourse, Parting DEF PCAP_ERROR
  <2>3. ASSUME NEW v, NEW l, Proceed(h, "bpf.monitor", [Of(p[h], v) EXCEPT !.dlt_list = l])
       PROVE  Accounted(h)
    BY <1>1, <2>1, <2>3, BpfCourse, Passing
  <2> QED BY <1>32, <2>2, <2>3 DEF bpf_type
<1>33. ASSUME bpf_apple(h) PROVE Accounted(h)
  <2>1. pc[h] = "bpf.monitor" BY <1>33 DEF bpf_apple
  <2>2. CASE Abort(h, PCAP_ERROR_RFMON_NOTSUP)
    BY <2>1, <2>2, BpfCourse, Parting DEF PCAP_ERROR_RFMON_NOTSUP
  <2>3. CASE Pass(h, "bpf.list") BY <2>1, <2>3, BpfCourse, Passing
  <2>4. ASSUME NEW v, NEW l, Proceed(h, "bpf.list", [Of(p[h], v) EXCEPT !.dlt_list = l])
       PROVE  Accounted(h)
    BY <1>1, <2>1, <2>4, BpfCourse, Passing
  <2>5. ASSUME NEW l, Proceed(h, "bpf.list", [p[h] EXCEPT !.dlt_list = l]) PROVE Accounted(h)
    BY <1>1, <2>1, <2>5, BpfCourse, Passing
  <2> QED BY <1>33, <2>2, <2>3, <2>4, <2>5 DEF bpf_apple, Pass
<1>34. ASSUME bpf_best(h) PROVE Accounted(h)
  BY <1>1, <1>34, BpfCourse, Passing DEF bpf_best
<1>35. ASSUME bpf_modes(h) PROVE Accounted(h)
  <2>1. CASE pc[h] = "bpf.list"
    BY <1>1, <1>35, <2>1, BpfCourse, Passing DEF bpf_modes
  <2>2. CASE pc[h] = "bpf.modes"
    BY <1>1, <1>35, <2>2, BpfCourse, Passing, Parting DEF bpf_modes, PCAP_ERROR,
       PCAP_WARNING_PROMISC_NOTSUP
  <2> QED BY <1>35, <2>1, <2>2 DEF bpf_modes
<1>36. ASSUME bpf_buffer(h) PROVE Accounted(h)
  <2>1. CASE pc[h] = "bpf.buffer"
    BY <1>1, <1>36, <2>1, BpfCourse, Passing, Taking, Parting DEF bpf_buffer, PCAP_ERROR
  <2>2. CASE pc[h] = "bpf.filter"
    BY <1>1, <1>36, <2>2, BpfCourse, Parting, InDevice DEF bpf_buffer, PCAP_ERROR
  <2> QED BY <1>36, <2>1, <2>2 DEF bpf_buffer
<1>37. ASSUME dag_open(h) PROVE Accounted(h)
  <2>1. CASE pc[h] = "dag"
    BY <1>1, <1>37, <2>1, DagCourse, Taking, Parting DEF dag_open, PCAP_ERROR
  <2>2. CASE pc[h] = "dag.attach"
    BY <1>1, <1>37, <2>2, DagCourse, Taking, Parting DEF dag_open
  <2>3. CASE pc[h] = "dag.start"
    BY <1>1, <1>37, <2>3, DagCourse, Taking, Parting DEF dag_open
  <2> QED BY <1>37, <2>1, <2>2, <2>3 DEF dag_open
<1>38. ASSUME dag_settle(h) PROVE Accounted(h)
  BY <1>1, <1>38, DagCourse, Passing, Parting DEF dag_settle
<1>39. ASSUME dag_get_datalink(h) PROVE Accounted(h)
  BY <1>1, <1>39, DagCourse, Passing, Parting DEF dag_get_datalink
<1>40. ASSUME new_pcap_dag(h) PROVE Accounted(h)
  <2>1. CASE pc[h] = "dag.node"
    BY <1>1, <1>40, <2>1, DagCourse, Taking, Parting DEF new_pcap_dag
  <2>2. CASE pc[h] = "dag.end"
    BY <1>1, <1>40, <2>2, DagCourse, Parting DEF new_pcap_dag
  <2>3. CASE pc[h] = "dag.fail"
    BY <1>1, <1>40, <2>3, DagCourse, Parting DEF new_pcap_dag, PCAP_ERROR
  <2> QED BY <1>40, <2>1, <2>2, <2>3 DEF new_pcap_dag
<1>41. ASSUME snf_activate(h) PROVE Accounted(h)
  <2>1. CASE pc[h] = "snf"
    BY <1>1, <1>41, <2>1, DagCourse, Taking, Parting DEF snf_activate, PCAP_ERROR
  <2>2. CASE pc[h] = "snf.ring"
    BY <1>1, <1>41, <2>2, DagCourse, Taking, Parting DEF snf_activate, PCAP_ERROR
  <2>3. CASE pc[h] = "snf.start"
    BY <1>1, <1>41, <2>3, DagCourse, Parting, SMTT(20) DEF snf_activate, PCAP_ERROR
  <2> QED BY <1>41, <2>1, <2>2, <2>3 DEF snf_activate
<1>42. ASSUME septel_activate(h) PROVE Accounted(h)
  BY <1>1, <1>42, SnoopCourse, Parting DEF septel_activate
<1> QED
  BY <1>2, <1>3, <1>4, <1>5, <1>6, <1>7, <1>8, <1>9, <1>10, <1>11, <1>12, <1>13, <1>14,
   <1>15, <1>16, <1>17, <1>18, <1>19, <1>20, <1>21, <1>22, <1>23, <1>24, <1>25, <1>26, <1>27,
   <1>28, <1>29, <1>30, <1>31, <1>32, <1>33, <1>34, <1>35, <1>36, <1>37, <1>38, <1>39, <1>40,
   <1>41, <1>42

(* What a handle has at a step of a device. *)
LEMMA Carried ==
  ASSUME NEW h \in Handles, Ready(h), Device(pc[h])
  PROVE  /\ DOMAIN p = Handles /\ DOMAIN pc = Handles /\ DOMAIN p[h] = Fields
         /\ DOMAIN sock_fd = Handles /\ DOMAIN status = Handles /\ DOMAIN held = Handles
         /\ p[h].fd \in Sockets \cup {NULL} /\ sock_fd[h] \in Sockets \cup {NULL}
         /\ status[h] \in Int /\ sockets \in [Sockets -> Handles \cup {NULL}]
         /\ state[h] = "open" /\ p[h].source \notin LinuxDevices
         /\ p[h].ops \in {"none", "device", "own"} /\ pc[h] \in StepsOf(p[h].source)
         /\ pc[h] # "dag.fail" => status[h] >= 0
         /\ pc[h] \notin MayList => ~Listed(h)
         /\ h \notin spoilt =>
              /\ p[h].buffer \in {"null", "live"} /\ (p[h].source = "canusb" => p[h].buffer = "null")
              /\ p[h].fd # NULL => pc[h] \in WithFd
              /\ sock_fd[h] # NULL => pc[h] \in WithSecond
              /\ p[h].buffer = "live" => pc[h] \in WithBuffer
              /\ held[h] \ MayHold(pc[h]) = Holding(pc[h])
              /\ Untouched(h)
<1>1. /\ DOMAIN p = Handles /\ DOMAIN pc = Handles /\ DOMAIN p[h] = Fields
      /\ DOMAIN sock_fd = Handles /\ DOMAIN status = Handles /\ DOMAIN held = Handles
      /\ p[h].fd \in Sockets \cup {NULL} /\ sock_fd[h] \in Sockets \cup {NULL}
      /\ status[h] \in Int /\ sockets \in [Sockets -> Handles \cup {NULL}]
  BY DEF Ready, Shapes, Shaped
<1> QED BY <1>1, InDevice DEF Pointing

(* libdlpi: its descriptor becomes the handle's too. *)
LEMMA libdlpi_activateStep ==
  ASSUME NEW h \in Handles, Ready(h), Keeps(h), libdlpi_activate(h)
  PROVE  Accounted(h)
<1>1. Alike(p[h], p[h]) BY DEF Alike, Ready, Shapes, Shaped
<1>2. CASE pc[h] = "libdlpi"
  <2>1. ASSUME NEW e \in recv_ack \ {0}, Answer(h, e) PROVE Accounted(h)
    BY <1>2, <2>1, LibdlpiCourse, Parting
    DEF recv_ack, PCAP_ERROR, PCAP_ERROR_PERM_DENIED, PCAP_ERROR_NO_SUCH_DEVICE
  <2>2. CASE SecondDescriptor(h, "libdlpi.bind") BY <1>2, <2>2, LibdlpiCourse, Taking
  <2> QED BY <1>2, <2>1, <2>2 DEF libdlpi_activate
<1>3. CASE pc[h] = "libdlpi.bind"
  BY <1>3, LibdlpiCourse, Passing, Parting DEF libdlpi_activate, PCAP_ERROR,
     PCAP_ERROR_RFMON_NOTSUP
<1>4. CASE pc[h] = "libdlpi.promisc"
  BY <1>4, LibdlpiCourse, Passing, Parting
  DEF libdlpi_activate, Promiscuous, dlpi_promiscon, PCAP_ERROR, PCAP_ERROR_PERM_DENIED,
      PCAP_ERROR_PROMISC_PERM_DENIED
<1>5. CASE pc[h] = "libdlpi.sap"
  BY <1>5, LibdlpiCourse, Passing, Parting
  DEF libdlpi_activate, AllSaps, dlpi_promiscon, PCAP_ERROR, PCAP_ERROR_PERM_DENIED, PCAP_WARNING
<1>6. CASE pc[h] = "libdlpi.info"
  <2>1. CASE Abort(h, PCAP_ERROR) BY <1>6, <2>1, LibdlpiCourse, Parting DEF PCAP_ERROR
  <2>2. ASSUME NEW q \in Media(p[h]),
               Proceed(h, "bufmod", [q EXCEPT !.fd = sock_fd[h], !.nonblock = FALSE])
        PROVE  Accounted(h)
    <3>0. Device(pc[h]) BY <1>6, LibdlpiCourse
    <3>1. Alike(q, p[h]) BY <1>1, AlikeSettings
    <3>2. /\ UNCHANGED <<inert, spoilt, lost, sockets, sock_fd, held, errors, status>>
          /\ pc'[h] = "bufmod"
          /\ p' = [p EXCEPT ![h] = [q EXCEPT !.fd = sock_fd[h], !.nonblock = FALSE]]
      BY <2>2, <3>0, Carried DEF Proceed, Goto, devices
    <3>3. /\ p'[h].fd = sock_fd[h] /\ p'[h].source = p[h].source /\ p'[h].ops = p[h].ops
          /\ p'[h].buffer = p[h].buffer
      BY <3>0, <3>1, <3>2, Carried DEF Alike, Fields
    <3>4. Leads("libdlpi.info", "bufmod") /\ "libdlpi.info" \notin WithFd \cup WithBuffer
          /\ "bufmod" \in WithFd /\ "bufmod" \in WithSecond
          /\ Holding("libdlpi.info") = {} /\ Holding("bufmod") = {}
          /\ MayHold("libdlpi.info") = {} /\ MayHold("bufmod") = {}
      BY DEF Leads, DevicePlace, Between, Undoing, LinuxSteps, StepsOf, WithFd, WithSecond,
         WithBuffer, MayList, MayHold, Holding
    <3>5. Beside(h) BY <3>0, <3>2, <3>3, Carried DEF Beside
    <3>6. h \notin spoilt => p[h].fd = NULL /\ p[h].buffer = "null" /\ held[h] = {}
      BY <1>6, <3>0, <3>4, Carried
    <3>7. Apart(h) /\ Claimed(h)
      <4>1. status'[h] >= 0 BY <1>6, <3>0, <3>2, Carried
      <4> QED BY <1>6, <3>2, <3>3, <3>4, <3>5, <3>6, <4>1, Onward
    <3>8. Trade(h) BY <3>2, <3>3, <3>6, Same DEF inert
    <3> QED BY <3>7, <3>8 DEF Accounted
  <2> QED BY <1>6, <2>1, <2>2 DEF libdlpi_activate, pcap_process_mactype
<1> QED BY <1>2, <1>3, <1>4, <1>5, <1>6 DEF libdlpi_activate

(* CANUSB: the context is given up without an adapter. *)
LEMMA canusb_opendeviceStep ==
  ASSUME NEW h \in Handles, Ready(h), Keeps(h), canusb_opendevice(h)
  PROVE  Accounted(h)
<1>1. pc[h] = "canusb.open" BY DEF canusb_opendevice
<1>2. CASE Take(h, "canusb.start", "device") BY <1>1, <1>2, DbusCourse, Taking
<1>3. CASE /\ held' = [held EXCEPT ![h] = @ \ {"context"}] /\ Return(h, PCAP_ERROR)
           /\ UNCHANGED <<inert, p, blocks, sock_fd, sockets, errors, lost, spoilt>>
  <2>0. Device(pc[h]) /\ pc[h] \notin MayList BY <1>1, DbusCourse
  <2>1. /\ UNCHANGED <<inert, p, sock_fd, sockets, errors, lost, spoilt>>
        /\ pc'[h] = "return" /\ status'[h] = PCAP_ERROR /\ held'[h] = held[h] \ {"context"}
        /\ DOMAIN status' = Handles /\ \A g \in Handles \ {h} : status'[g] = status[g]
        /\ DOMAIN held' = Handles /\ \A g \in Handles \ {h} : held'[g] = held[g]
    BY <1>3, <2>0, Carried DEF Return, Goto
  <2>2. Beside(h) BY <2>0, <2>1, Carried DEF Beside, PCAP_ERROR
  <2>3. h \notin spoilt =>
          p[h].fd = NULL /\ sock_fd[h] = NULL /\ p[h].buffer = "null" /\ held'[h] = {}
    BY <1>1, <2>0, <2>1, Carried DEF WithFd, WithSecond, WithBuffer, Holding, MayHold
  <2>4. Apart(h) /\ Claimed(h)
    BY <2>0, <2>1, <2>2, <2>3, Carried, Leaving DEF PCAP_ERROR
  <2>5. Trade(h) BY <2>1, Same DEF inert
  <2> QED BY <2>4, <2>5 DEF Accounted
<1> QED BY <1>2, <1>3 DEF canusb_opendevice

(* CANUSB: both ends of the pipe, or none and no error. *)
LEMMA canusb_startcaptureStep ==
  ASSUME NEW h \in Handles, Ready(h), Keeps(h), canusb_startcapture(h)
  PROVE  Accounted(h)
<1>1. pc[h] = "canusb.start" BY DEF canusb_startcapture
<1>2. Device(pc[h]) /\ pc[h] \notin MayList BY <1>1, DbusCourse
<1>3. /\ UNCHANGED <<inert, errors, lost>>
      /\ pc'[h] = "return" /\ status'[h] = 0
      /\ DOMAIN status' = Handles /\ \A g \in Handles \ {h} : status'[g] = status[g]
  BY <1>2, Carried DEF canusb_startcapture, Return, Goto
<1>4. p[h].source = "canusb" /\ "canusb" \notin Sure
  BY <1>1, <1>2, Carried DEF StepsOf, LinuxSteps, Undoing, Sure
<1>5. h \notin spoilt => /\ p[h].fd = NULL /\ sock_fd[h] = NULL /\ p[h].buffer = "null"
                         /\ held[h] = {"context", "device"}
  BY <1>1, <1>2, Carried DEF WithFd, WithSecond, WithBuffer, Holding, MayHold
<1>6. ASSUME NEW rd \in Free, NEW wr \in Free, rd < wr,
             sockets' = [sockets EXCEPT ![rd] = h, ![wr] = h],
             p' = [p EXCEPT ![h] = [@ EXCEPT !.fd = rd, !.nonblock = FALSE, !.ops = "own",
                                             !.linktype = "OTHER"]],
             sock_fd' = [sock_fd EXCEPT ![h] = wr],
             held' = [held EXCEPT ![h] = @ \cup {"worker"}], spoilt' = spoilt
      PROVE  Accounted(h)
  <2>1. /\ p'[h].fd = rd /\ p'[h].source = p[h].source /\ p'[h].ops = "own"
        /\ p'[h].buffer = p[h].buffer
    BY <1>2, <1>6, Carried DEF Fields
  <2>2. /\ sock_fd'[h] = wr /\ held'[h] = held[h] \cup {"worker"}
        /\ DOMAIN held' = Handles /\ \A g \in Handles \ {h} : held'[g] = held[g]
        /\ DOMAIN sock_fd' = Handles /\ \A g \in Handles \ {h} : sock_fd'[g] = sock_fd[g]
    BY <1>2, <1>6, Carried
  <2>3. rd \in Sockets /\ wr \in Sockets /\ sockets[rd] = NULL /\ sockets[wr] = NULL
    BY DEF Free
  <2>4. Beside(h) BY <1>2, <1>3, <2>1, <2>2, <2>3, Carried DEF Beside
  <2>5. h \notin spoilt => Left("own", held'[h], p[h].source)
    BY <1>4, <1>5, <2>2 DEF Left, Gives
  <2>6. Apart(h) /\ Claimed(h)
    <3>1. h \notin spoilt =>
            /\ p'[h].buffer \in {"null", "live"}
            /\ p'[h].source = "canusb" => p'[h].buffer = "null"
      BY <1>5, <2>1
    <3>2. UNCHANGED inert /\ spoilt' = spoilt /\ lost' = lost
      BY <1>3, <1>6
    <3>3. pc'[h] = "return" /\ status'[h] = 0 /\ p'[h].ops = "own" BY <1>3, <2>1
    <3>4. h \notin spoilt' =>
            /\ p'[h].buffer \in {"null", "live"}
            /\ p'[h].source = "canusb" => p'[h].buffer = "null"
            /\ pc'[h] = "cleanup" => Left("own", held'[h], p[h].source)
            /\ pc'[h] = "return" /\ sock_fd'[h] # NULL => p'[h].ops = "own"
            /\ pc'[h] = "return" =>
                 IF status'[h] < 0
                 THEN /\ p'[h].fd = NULL /\ sock_fd'[h] = NULL /\ p'[h].buffer = "null"
                      /\ held'[h] = {}
                 ELSE Left(p'[h].ops, held'[h], p[h].source)
      BY <2>5, <3>1, <3>2, <3>3
    <3> QED BY <1>2, <2>4, <3>2, <3>3, <3>4, Leaving
  <2>7. Trade(h)
    <3>1. sockets \in [Sockets -> Handles \cup {NULL}] /\ state'[h] = "open"
      BY <1>2, <1>3, Carried DEF inert
    <3>2. \A s \in Sockets : sockets'[s] = IF s \in {rd, wr} THEN h ELSE sockets[s]
      BY <1>6, <2>3, <3>1
    <3>3. NULL \notin Handles /\ NULL \notin Sockets
      BY ActivationAssumption, HandlesAssumption DEF NULL
    <3>4. Opener(h)'
      BY <1>2, <1>3, <1>5, <1>6, <2>1, <2>2, <3>1, <3>2, <3>3 DEF Ready, Opener
    <3>5. Owner(h)' BY <2>1, <2>2, <2>3, <3>2 DEF Owner
    <3>6. sockets' \in [Sockets -> Handles \cup {NULL}] BY <1>6, <2>3, <3>1
    <3> QED BY <1>3, <2>3, <3>2, <3>4, <3>5, <3>6 DEF Trade
  <2> QED BY <2>6, <2>7 DEF Accounted
<1>7. ASSUME p' = [p EXCEPT ![h] = [@ EXCEPT !.ops = "own", !.linktype = "OTHER"]],
             spoilt' = spoilt \cup {h}, UNCHANGED <<sockets, sock_fd, held>>
      PROVE  Accounted(h)
  <2>1. /\ p'[h].fd = p[h].fd /\ p'[h].source = p[h].source /\ p'[h].ops = "own"
    BY <1>2, <1>7, Carried DEF Fields
  <2>2. Beside(h) BY <1>2, <1>3, <1>7, <2>1, Carried DEF Beside
  <2>3. Apart(h) /\ Claimed(h) BY <1>2, <1>3, <1>7, <2>1, <2>2, Leaving
  <2>4. Trade(h) BY <1>3, <1>7, <2>1, Same DEF inert
  <2> QED BY <2>3, <2>4 DEF Accounted
<1> QED BY <1>6, <1>7 DEF canusb_startcapture

(* The table of units is freed, or forgotten. *)
LEMMA get_dlpi_ppaStep ==
  ASSUME NEW h \in Handles, Ready(h), Keeps(h), get_dlpi_ppa(h)
  PROVE  Accounted(h)
<1>1. CASE pc[h] = "dlpi.ppa"
  <2>1. CASE Abort(h, PCAP_ERROR) BY <1>1, <2>1, DlpiCourse, Parting DEF PCAP_ERROR
  <2>2. CASE Take(h, "dlpi.table", "table") BY <1>1, <2>2, DlpiCourse, Taking
  <2> QED BY <1>1, <2>1, <2>2 DEF get_dlpi_ppa
<1>2. CASE pc[h] = "dlpi.table"
  <2>0. /\ Leads("dlpi.table", "dlpi.attach") /\ Device("dlpi.table")
        /\ "dlpi.table" \notin WithBuffer \cup MayList
        /\ "dlpi.attach" \in WithFd /\ "dlpi.attach" \in WithSecond
        /\ Holding("dlpi.table") = {"table"} /\ MayHold("dlpi.table") = {}
        /\ Holding("dlpi.attach") = {} /\ MayHold("dlpi.attach") = {}
    BY DEF Leads, Device, DevicePlace, Between, Undoing, LinuxSteps, StepsOf, WithFd,
       WithSecond,
       WithBuffer, MayList, MayHold, Holding
  <2>1. /\ UNCHANGED <<inert, p, sock_fd, sockets, errors, lost>>
        /\ DOMAIN p = Handles /\ DOMAIN pc = Handles
        /\ DOMAIN status = Handles /\ DOMAIN held = Handles
        /\ p[h].fd \in Sockets \cup {NULL} /\ sock_fd[h] \in Sockets \cup {NULL}
        /\ DOMAIN sock_fd = Handles /\ status[h] \in Int /\ status[h] >= 0
        /\ PCAP_ERROR \in Int /\ PCAP_ERROR_NO_SUCH_DEVICE \in Int
        /\ PCAP_ERROR < 0 /\ PCAP_ERROR_NO_SUCH_DEVICE < 0
    BY <1>2, <2>0, Carried DEF get_dlpi_ppa, PCAP_ERROR, PCAP_ERROR_NO_SUCH_DEVICE
  <2>2. p[h].source = "dlpi" /\ "dlpi" \notin Sure
    BY <1>2, <2>0, Carried DEF StepsOf, LinuxSteps, Undoing, Sure
  <2>3. h \notin spoilt => p[h].buffer = "null" /\ held[h] = {"table"}
    BY <1>2, <2>0, Carried
  <2>4. ASSUME held' = [held EXCEPT ![h] = @ \ {"table"}], spoilt' = spoilt,
               Goto(h, "dlpi.attach"), UNCHANGED status
        PROVE  Accounted(h)
    <3>1. pc'[h] = "dlpi.attach" /\ held'[h] = held[h] \ {"table"} /\ DOMAIN held' = Handles
          /\ \A g \in Handles \ {h} : held'[g] = held[g]
      BY <2>1, <2>4 DEF Goto
    <3>2. Beside(h) BY <2>1, <2>4, <3>1 DEF Beside
    <3>3. Apart(h) /\ Claimed(h) BY <1>2, <2>0, <2>1, <2>3, <2>4, <3>1, <3>2, Onward
    <3>4. Trade(h) BY <2>1, <2>4, Same DEF inert
    <3> QED BY <3>3, <3>4 DEF Accounted
  <2>5. ASSUME held' = [held EXCEPT ![h] = @ \ {"table"}], spoilt' = spoilt,
               Goto(h, "cleanup"), status' = [status EXCEPT ![h] = PCAP_ERROR]
        PROVE  Accounted(h)
    <3>1. /\ pc'[h] = "cleanup" /\ held'[h] = held[h] \ {"table"} /\ DOMAIN held' = Handles
          /\ \A g \in Handles \ {h} : held'[g] = held[g]
          /\ status'[h] = PCAP_ERROR /\ DOMAIN status' = Handles
          /\ \A g \in Handles \ {h} : status'[g] = status[g]
      BY <2>1, <2>5 DEF Goto
    <3>2. Beside(h) BY <2>1, <2>5, <3>1 DEF Beside
    <3>3. h \notin spoilt => Left("own", held'[h], p[h].source)
      BY <2>2, <2>3, <3>1 DEF Left
    <3>4. Apart(h) /\ Claimed(h)
      <4>1. p[h].ops \in {"none", "device", "own"} BY <1>2, <2>0, Carried
      <4>2. h \notin spoilt' =>
              /\ p'[h].buffer \in {"null", "live"}
              /\ p'[h].source = "canusb" => p'[h].buffer = "null"
              /\ pc'[h] = "cleanup" => Left("own", held'[h], p[h].source)
        BY <2>1, <2>2, <2>3, <2>5, <3>3
      <4> QED BY <1>2, <2>0, <2>1, <2>5, <3>1, <3>2, <4>1, <4>2, Leaving
    <3>5. Trade(h) BY <2>1, <2>5, Same DEF inert
    <3> QED BY <3>4, <3>5 DEF Accounted
  <2>6. ASSUME spoilt' = spoilt \cup {h}, UNCHANGED held, Goto(h, "cleanup"),
               NEW e \in {PCAP_ERROR, PCAP_ERROR_NO_SUCH_DEVICE}, status' = [status EXCEPT ![h] = e]
        PROVE  Accounted(h)
    <3>1. /\ pc'[h] = "cleanup" /\ status'[h] = e /\ DOMAIN status' = Handles
          /\ \A g \in Handles \ {h} : status'[g] = status[g]
      BY <2>1, <2>6 DEF Goto
    <3>2. Beside(h) BY <2>1, <2>6, <3>1 DEF Beside
    <3>3. Apart(h) /\ Claimed(h)
      BY <1>2, <2>0, <2>1, <2>2, <2>6, <3>1, <3>2, Carried, Leaving
    <3>4. Trade(h) BY <2>1, <2>6, Same DEF inert
    <3> QED BY <3>3, <3>4 DEF Accounted
  <2> QED BY <1>2, <2>4, <2>5, <2>6 DEF get_dlpi_ppa
<1> QED BY <1>1, <1>2 DEF get_dlpi_ppa

-----------------------------------------------------------------------------
(* The steps on Linux interfaces. *)

(* What is known of a handle whose Linux interface is being activated. *)
LEMMA OnLinux ==
  ASSUME NEW h \in Handles, Ready(h), pc[h] \in LinuxSteps
  PROVE  /\ DOMAIN p = Handles /\ DOMAIN pc = Handles /\ DOMAIN p[h] = Fields
         /\ DOMAIN priv = Handles /\ DOMAIN priv[h] = PrivFields
         /\ DOMAIN sock_fd = Handles /\ DOMAIN status = Handles /\ DOMAIN held = Handles
         /\ p[h].fd \in Sockets \cup {NULL} /\ sock_fd[h] \in Sockets \cup {NULL}
         /\ status[h] \in Int /\ sockets \in [Sockets -> Handles \cup {NULL}]
         /\ pcaps_to_close \in Seq(Handles)
         /\ state[h] = "open" /\ p[h].source \in LinuxDevices /\ h \notin spoilt
         /\ p[h].ops = "linux" /\ status[h] >= 0 /\ p[h].source # "toolong"
         /\ pc[h] \in OnInterface => p[h].source \in Indebted
         /\ p[h].fd # NULL => pc[h] \in WithFd
         /\ sock_fd[h] # NULL => pc[h] \in WithSecond
         /\ p[h].buffer = "null"
         /\ priv[h].device = "live" /\ ~priv[h].mmapbuf
         /\ priv[h].oneshot_buffer = "live" <=> pc[h] \in {"ring", "map"}
         /\ spoilt = {} => Owner(h)
<1>1. /\ DOMAIN p = Handles /\ DOMAIN pc = Handles /\ DOMAIN p[h] = Fields
      /\ DOMAIN priv = Handles /\ DOMAIN priv[h] = PrivFields
      /\ DOMAIN sock_fd = Handles /\ DOMAIN status = Handles /\ DOMAIN held = Handles
      /\ p[h].fd \in Sockets \cup {NULL} /\ sock_fd[h] \in Sockets \cup {NULL}
      /\ status[h] \in Int /\ sockets \in [Sockets -> Handles \cup {NULL}]
      /\ pcaps_to_close \in Seq(Handles)
      /\ spoilt = {} => Owner(h)
  BY DEF Ready, Shapes, Shaped, PrivShaped
<1>2. state[h] = "open" /\ pc[h] \notin Between \cup Undoing
  BY DEF Ready, Where, LinuxSteps, Between, Undoing
<1>3. p[h].source \in LinuxDevices
  <2>1. p[h].source \in LinuxDevices \cup Drivers
    BY <1>2, DevicesAssumption DEF Ready, Basic
  <2>2. pc[h] \in StepsOf(p[h].source) BY <1>2 DEF Ready, Where
  <2>3. \A source \in Drivers : StepsOf(source) \cap LinuxSteps = {}
    BY DEF Drivers, StepsOf, LinuxSteps
  <2> QED BY <2>1, <2>2, <2>3
<1>4. /\ h \notin spoilt /\ p[h].ops = "linux" /\ status[h] >= 0 /\ p[h].source # "toolong"
      /\ pc[h] \in OnInterface => p[h].source \in Indebted
  BY <1>2, <1>3 DEF Ready, Where, Between, LinuxSteps
<1>5. Pointing(h) /\ Progress(h) BY <1>2, <1>4 DEF Ready, Holds
<1>6. pc[h] \notin WithBuffer BY DEF LinuxSteps, WithBuffer
<1> QED BY <1>1, <1>2, <1>3, <1>4, <1>5, <1>6 DEF Pointing, Progress

(* What no such step changes. *)
Steady(h) ==
  /\ DOMAIN sock_fd' = Handles /\ DOMAIN status' = Handles
  /\ \A g \in Handles \ {h} : sock_fd'[g] = sock_fd[g] /\ status'[g] = status[g]
  /\ state' = state /\ call' = call /\ held' = held /\ lost' = lost /\ spoilt' = spoilt
  /\ ringless \subseteq ringless'

(* Where it goes to, with what. *)
Moves(h) ==
  /\ p'[h].source = p[h].source /\ p'[h].ops \in {"none", "linux", "mmap"}
  /\ p'[h].fd \in Sockets \cup {NULL} /\ sock_fd'[h] \in Sockets \cup {NULL} /\ status'[h] \in Int
  /\ pc'[h] \in LinuxSteps \cup {"restore", "return"}
  /\ p'[h].fd # NULL => pc'[h] \in WithFd
  /\ sock_fd'[h] # NULL => pc'[h] \in WithSecond \ {"return"}
  /\ p'[h].buffer \in {"null", "live"} /\ (p'[h].buffer = "live" => pc'[h] \in WithBuffer)
  /\ priv'[h].device # "dangling"
  /\ pc'[h] \in LinuxSteps =>
       /\ p'[h].ops = "linux" /\ p[h].source # "toolong"
       /\ pc'[h] \in OnInterface => p[h].source \in Indebted
       /\ status'[h] >= 0 /\ priv'[h].device = "live" /\ ~priv'[h].mmapbuf
       /\ priv'[h].oneshot_buffer = "live" <=> pc'[h] \in {"ring", "map"}
  /\ pc'[h] = "restore" =>
       /\ ~priv'[h].mmapbuf /\ priv'[h].oneshot_buffer # "live"
       /\ status'[h] >= 0 => p'[h].ops = "linux"
  /\ pc'[h] = "return" =>
       IF status'[h] < 0
       THEN /\ p'[h].fd = NULL /\ p'[h].buffer = "null" /\ priv'[h].device = "null"
            /\ ~priv'[h].mmapbuf /\ priv'[h].oneshot_buffer # "live"
       ELSE \/ /\ p'[h].ops = "linux"
               /\ priv'[h].oneshot_buffer # "live" /\ ~priv'[h].mmapbuf
            \/ /\ p'[h].ops = "mmap"
               /\ priv'[h].oneshot_buffer = "live" /\ priv'[h].device = "live"

(* A step of the Linux activation leaves what the next one expects. *)
LEMMA LinuxMoves ==
  ASSUME NEW h \in Handles, Ready(h), pc[h] \in LinuxSteps \cup {"start"},
         p[h].source \in LinuxDevices, Steady(h), Moves(h),
         \A g \in Handles \ {h} : Listed(g)' <=> Listed(g)
  PROVE  Apart(h) /\ Where(h)' /\ (h \notin spoilt' => Holds(h)')
<1>1. state[h] = "open" /\ h \notin spoilt BY DEF Ready, Where, LinuxSteps
<1>2. Apart(h) BY DEF Apart, Steady, Moves, Ready
<1>3. pc'[h] \notin {"idle", "probe", "start", "live", "cleanup", "release", "destroy"}
  BY DEF Moves, LinuxSteps
<1>4. StepsOf(p[h].source) = LinuxSteps \cup Undoing \cup {"probe"}
  BY DEF StepsOf, LinuxDevices
<1>5. Where(h)'
  <2>1. pc'[h] \in Between \cup StepsOf(p'[h].source)
    BY <1>4 DEF Moves, Between, Undoing
  <2>2. pc'[h] \notin Undoing \cup {"return", "cleanup", "dag.fail"} => status'[h] >= 0
    BY DEF Moves, Undoing
  <2> QED BY <1>1, <1>3, <2>1, <2>2 DEF Where, Moves, Steady
<1>6. held[h] = {} /\ p[h].source # "canusb"
  BY <1>1 DEF Ready, Holds, Pointing, LinuxDevices
<1>7. Pointing(h)' BY <1>6 DEF Pointing, Moves, Steady
<1>8. Progress(h)'
  <2>1. pc'[h] \in LinuxSteps => Holding(pc'[h]) = {} BY DEF LinuxSteps, Holding
  <2>2. pc'[h] \notin Between \cup Undoing => pc'[h] \in LinuxSteps
    BY DEF Moves, Between, Undoing
  <2> QED BY <1>6, <2>1, <2>2 DEF Progress, Moves, Steady
<1>9. Waiting(h)' BY <1>3, <1>6 DEF Waiting, Nothing, Untouched, Active, Moves, Steady
<1>10. Ending(h)' BY <1>3 DEF Ending, Moves, Steady
<1> QED BY <1>1, <1>2, <1>5, <1>7, <1>8, <1>9, <1>10 DEF Holds, Steady

(* What is to be undone is known. *)
Lasting(h) ==
  Distinct' /\ Debt(h)' /\ \A g \in Handles \ {h} : Listed(g)' <=> Listed(g)

(* It does not change: the handle stays on the list, or was not on it. *)
Stays(h) ==
  /\ pcaps_to_close' = pcaps_to_close
  /\ priv'[h].must_do_on_close = priv[h].must_do_on_close
  /\ pc'[h] \in MayList \/ pc[h] \notin MayList
  /\ pc'[h] \in Early => pc[h] \in Early \/ pc[h] \notin MayList
  /\ pc'[h] = "restore" /\ status'[h] >= 0 =>
       priv[h].must_do_on_close = {} \/ h \in ringless'
  /\ pc'[h] = "return" /\ status'[h] < 0 => pc[h] = "start"
  /\ \/ priv'[h].device = "live" \/ priv[h].must_do_on_close = {}
     \/ pc'[h] = "return" /\ status'[h] < 0

(* What such a step leaves to be undone, when it leaves the list alone. *)
LEMMA OwesStill ==
  ASSUME NEW h \in Handles, Ready(h), Keeps(h), pc[h] \in LinuxSteps \cup {"start"},
         p[h].source \in LinuxDevices, Steady(h), Moves(h), Stays(h)
  PROVE  Lasting(h)
<1>1. \A g : Listed(g)' <=> Listed(g) BY DEF Listed, Stays
<1>2. Distinct' /\ Debt(h)'
  <2>1. Debt(h) /\ Distinct BY DEF Ready
  <2>2. (Twice(h)' <=> Twice(h)) /\ Distinct'
    <3>1. Twice(h)' <=> Twice(h) BY DEF Twice, Stays
    <3>2. \A g \in Handles : Twice(g) => Twice(g)' BY <3>1 DEF Keeps, Others, Twice
    <3>3. pcaps_to_close \in Seq(Handles) BY DEF Ready, Shapes
    <3> QED BY <2>1, <3>1, <3>2, <3>3 DEF Distinct, Stays
  <2>3. state[h] = "open" BY DEF Ready, Where, LinuxSteps
  <2>4. Listed(h) => /\ Twice(h) \/ pc[h] \in MayList
                     /\ priv[h].must_do_on_close # {}
    BY <2>1 DEF Debt
  <2>5. Listed(h) => /\ Twice(h) \/ pc'[h] \in MayList
                     /\ pc'[h] \in Early => "rfmon" \in priv[h].must_do_on_close
    BY <2>1, <2>4 DEF Stays, Early, Debt, Twice
  <2>6. pc'[h] \notin {"idle", "probe", "release"} BY DEF Moves, LinuxSteps
  <2>7. "start" \notin MayList BY DEF MayList
  <2>8. pc'[h] = "return" /\ status'[h] >= 0 => p'[h].ops \in {"linux", "mmap"} BY DEF Moves
  <2> QED BY <1>1, <2>1, <2>2, <2>3, <2>4, <2>5, <2>6, <2>7, <2>8
          DEF Debt, Succeeded, Moves, Steady, Stays
<1> QED BY <1>1, <1>2 DEF Lasting

(* Something more is to be undone: the wireless mode, or promiscuous mode when
   the handle is on the list for the wireless mode at most. *)
LEMMA OwesMore ==
  ASSUME NEW h \in Handles, Ready(h), Keeps(h), pc[h] \in LinuxSteps,
         p[h].source \in LinuxDevices \cap Indebted, Steady(h), Moves(h),
         NEW what \in {"promisc", "rfmon"}, MustDo(h, what),
         IF what = "rfmon" THEN pc[h] \notin MayList ELSE pc[h] \in Early,
         pc'[h] \in LinuxSteps \cap MayList, what = "rfmon" \/ pc'[h] \notin Early
  PROVE  Lasting(h)
<1>1. DOMAIN priv = Handles /\ DOMAIN priv[h] = PrivFields /\ pcaps_to_close \in Seq(Handles)
  BY DEF Ready, Shapes, PrivShaped
<1>2. /\ priv'[h].must_do_on_close = priv[h].must_do_on_close \cup {what}
      /\ pcaps_to_close' = <<h>> \o pcaps_to_close
  BY <1>1 DEF MustDo, PrivFields
<1>3. Debt(h) /\ Distinct /\ priv[h].must_do_on_close \subseteq {"promisc", "rfmon"}
  BY DEF Ready, Debt
<1>4. Twice(h) => Twice(h)' BY <1>2 DEF Twice
<1>5. Listed(h) => Twice(h)'
  <2>1. ASSUME Listed(h), what = "rfmon" PROVE Twice(h)' BY <1>3, <1>4, <2>1 DEF Debt
  <2>2. ASSUME Listed(h), what = "promisc" PROVE Twice(h)'
    <3>1. "rfmon" \in priv[h].must_do_on_close BY <1>3, <2>2 DEF Debt
    <3> QED BY <1>2, <1>3, <2>2, <3>1 DEF Twice
  <2> QED BY <2>1, <2>2
<1>6. \A g \in Handles : Twice(g) => Twice(g)' BY <1>4 DEF Keeps, Others, Twice
<1>7. /\ Listed(h)' /\ \A g \in Handles \ {h} : Listed(g)' <=> Listed(g)
      /\ Distinct'
  BY <1>1, <1>2, <1>3, <1>5, <1>6, Adding
<1>8. state'[h] = "open" BY DEF Ready, Where, LinuxSteps, Steady
<1>9. pc'[h] \notin {"idle", "probe", "return", "restore", "release"} BY DEF LinuxSteps
<1>10. Debt(h)' BY <1>2, <1>3, <1>7, <1>8, <1>9 DEF Debt, Succeeded, Moves
<1> QED BY <1>7, <1>10 DEF Lasting

(* A step that opens and closes nothing, *)
LEMMA LinuxSame ==
  ASSUME NEW h \in Handles, Ready(h), Keeps(h), pc[h] \in LinuxSteps \cup {"start"},
         p[h].source \in LinuxDevices, Steady(h), Moves(h), Stays(h) \/ Lasting(h),
         sockets' = sockets, {p'[h].fd, sock_fd'[h]} \ {NULL} = {p[h].fd, sock_fd[h]} \ {NULL},
         spoilt = {} => errors' = errors
  PROVE  Accounted(h)
<1>1. Lasting(h) BY OwesStill
<1>2. Apart(h) /\ Where(h)' /\ (h \notin spoilt' => Holds(h)')
  BY <1>1, LinuxMoves DEF Lasting
<1>3. Trade(h) BY Same DEF Steady
<1> QED BY <1>1, <1>2, <1>3 DEF Accounted, Claimed, Lasting

(* one that opens a socket, *)
LEMMA LinuxOpens ==
  ASSUME NEW h \in Handles, Ready(h), Keeps(h), pc[h] \in LinuxSteps,
         Steady(h), Moves(h), Stays(h), NEW s \in Sockets, Opened(h, s),
         {p'[h].fd, sock_fd'[h]} \ {NULL} = ({p[h].fd, sock_fd[h]} \ {NULL}) \cup {s},
         errors' = errors
  PROVE  Accounted(h)
<1>0. state[h] = "open" /\ p[h].source \in LinuxDevices BY OnLinux
<1>1. Lasting(h) BY <1>0, OwesStill
<1>2. Apart(h) /\ Where(h)' /\ (h \notin spoilt' => Holds(h)')
  BY <1>0, <1>1, LinuxMoves DEF Lasting
<1>3. Trade(h) BY <1>0, Opens DEF Steady
<1> QED BY <1>1, <1>2, <1>3 DEF Accounted, Claimed, Lasting

(* and one that closes the socket of activate_new. *)
LEMMA LinuxCloses ==
  ASSUME NEW h \in Handles, Ready(h), Keeps(h), pc[h] \in LinuxSteps \ WithFd,
         Steady(h), Moves(h), Stays(h),
         sockets' = Closed(sock_fd[h]), sock_fd'[h] = NULL, p'[h].fd = p[h].fd,
         errors' \in {errors, errors \cup CloseError(h, sock_fd[h])}
  PROVE  Accounted(h)
<1>0. /\ state[h] = "open" /\ p[h].source \in LinuxDevices /\ p[h].fd = NULL
      /\ sockets \in [Sockets -> Handles \cup {NULL}] /\ sock_fd[h] \in Sockets \cup {NULL}
      /\ spoilt = {} => Owner(h)
  BY OnLinux
<1>1. Lasting(h) BY <1>0, OwesStill
<1>2. Apart(h) /\ Where(h)' /\ (h \notin spoilt' => Holds(h)')
  BY <1>0, <1>1, LinuxMoves DEF Lasting
<1>3. sockets' = [s \in Sockets |-> IF s \in {sock_fd[h]} THEN NULL ELSE sockets[s]]
  BY <1>0, ClosedOne
<1>4. spoilt = {} => errors' = errors BY <1>0 DEF Owner, CloseError
<1>5. Trade(h)
  <2>1. {p'[h].fd, sock_fd'[h]} \ {NULL} = {p[h].fd, sock_fd[h]} \ ({sock_fd[h]} \cup {NULL})
    BY <1>0
  <2>2. state'[h] = "open" /\ lost' = lost /\ spoilt' = spoilt BY <1>0 DEF Steady
  <2> QED BY <1>3, <1>4, <2>1, <2>2, Closes
<1> QED BY <1>1, <1>2, <1>5 DEF Accounted, Claimed, Lasting

(* activate_new gives up and closes its socket. *)
LEMMA GivesUp ==
  ASSUME NEW h \in Handles, Ready(h), Keeps(h), pc[h] \in LinuxSteps \ WithFd,
         Steady(h), NEW st \in Int, st < 0, CloseAndFail(h, st)
  PROVE  Accounted(h)
<1>1. /\ p' = p /\ priv' = priv /\ pcaps_to_close' = pcaps_to_close
      /\ pc'[h] = "restore" /\ status'[h] = st /\ sock_fd'[h] = NULL
      /\ sockets' = Closed(sock_fd[h]) /\ errors' = errors \cup CloseError(h, sock_fd[h])
  BY OnLinux DEF CloseAndFail, Fail, Goto
<1>3. Moves(h)
  BY <1>1, OnLinux DEF Moves, WithFd, WithSecond, WithBuffer, LinuxSteps
<1>4. Stays(h) BY <1>1, OnLinux DEF Stays, Early, MayList
<1> QED BY <1>1, <1>3, <1>4, LinuxCloses

(* Start: the name is too long, or the handle becomes a Linux one. *)
LEMMA StartAccounts ==
  ASSUME NEW h \in Handles, Ready(h), Keeps(h), Start(h)
  PROVE  Accounted(h)
<1>1. /\ DOMAIN p = Handles /\ DOMAIN pc = Handles /\ DOMAIN p[h] = Fields
      /\ DOMAIN priv = Handles /\ DOMAIN priv[h] = PrivFields
      /\ DOMAIN sock_fd = Handles /\ DOMAIN status = Handles
      /\ sock_fd[h] \in Sockets \cup {NULL} /\ status[h] \in Int
      /\ pc[h] = "start" /\ p[h].source \in LinuxDevices /\ state[h] = "open"
  BY DEF Ready, Shapes, Shaped, PrivShaped, Start, LinuxDevices, Where
<1>2. /\ Nothing(h) /\ sock_fd[h] = NULL /\ p[h].ops \in {"none", "linux", "mmap"}
      /\ p[h].source = "toolong" => priv[h].must_do_on_close = {}
  <2>1. h \notin spoilt /\ p[h].ops \in {"none", "linux", "mmap"} BY <1>1 DEF Ready, Where
  <2>2. Nothing(h) /\ sock_fd[h] = NULL
    BY <1>1, <2>1 DEF Ready, Holds, Waiting, Pointing, WithSecond
  <2> QED BY <2>1, <2>2 DEF Ready, Debt, Twice, Indebted
<1>3. Steady(h) BY <1>1 DEF Start, Fail, Return, Steady, aside, devices, marks
<1>4. /\ sock_fd' = sock_fd /\ sockets' = sockets /\ pcaps_to_close' = pcaps_to_close
      /\ "start" \notin MayList
  BY DEF Start, MayList
<1>5. CASE /\ p[h].source = "toolong" /\ Fail(h, PCAP_ERROR_NO_SUCH_DEVICE)
           /\ UNCHANGED <<p, priv, errors>>
  <2>1. pc'[h] = "restore" /\ status'[h] = -5 /\ p' = p /\ priv' = priv
    BY <1>1, <1>5 DEF Fail, Goto, PCAP_ERROR_NO_SUCH_DEVICE
  <2>2. Moves(h) BY <1>1, <1>2, <1>4, <2>1 DEF Moves, Nothing, Untouched, LinuxSteps
  <2>3. Lasting(h)
    <3>1. Stays(h) BY <1>2, <1>4, <1>5, <2>1 DEF Stays, Early, MayList, Early
    <3> QED BY <1>1, <1>3, <2>2, <3>1, OwesStill
  <2> QED BY <1>1, <1>3, <1>4, <1>5, <2>1, <2>2, <2>3, LinuxSame
<1>6. ASSUME p[h].source \in LinuxDevices \ {"toolong"},
             p' = [p EXCEPT ![h].ops = "linux",
                            ![h].promisc = @ /\ ~(p[h].source = "any" /\ p[h].promisc)]
      PROVE  /\ p'[h].fd = NULL /\ p'[h].buffer = "null" /\ p'[h].source = p[h].source
             /\ p'[h].ops = "linux"
  BY <1>1, <1>2, <1>6 DEF Fields, Nothing
<1>7. priv[h].device = "null" /\ ~priv[h].mmapbuf /\ priv[h].oneshot_buffer # "live"
  BY <1>2 DEF Nothing, Untouched
<1>8. ASSUME p[h].source # "toolong", p'[h].fd = NULL /\ p'[h].buffer = "null" /\ p'[h].source = p[h].source,
             p'[h].ops = "linux",
             priv' = [priv EXCEPT ![h].device = "live", ![h].timeout = p[h].timeout],
             errors' = errors \cup Alloc(priv[h].device), Goto(h, "socket"),
             status' = [status EXCEPT ![h] =
                          IF p[h].source = "any" /\ p[h].promisc THEN PCAP_WARNING_PROMISC_NOTSUP
                                                                 ELSE 0]
      PROVE  Accounted(h)
  <2>1. /\ pc'[h] = "socket" /\ status'[h] \in {0, 2} /\ errors' = errors
        /\ priv'[h].device = "live" /\ priv'[h].mmapbuf = priv[h].mmapbuf
        /\ priv'[h].oneshot_buffer = priv[h].oneshot_buffer
        /\ priv'[h].must_do_on_close = priv[h].must_do_on_close
    BY <1>1, <1>7, <1>8 DEF Goto, Alloc, PrivFields, PCAP_WARNING_PROMISC_NOTSUP
  <2>2. Moves(h) BY <1>1, <1>2, <1>4, <1>7, <1>8, <2>1 DEF Moves, LinuxSteps, OnInterface
  <2>3. Stays(h) BY <1>1, <1>4, <2>1 DEF Stays, Early
  <2> QED BY <1>1, <1>2, <1>3, <1>4, <1>8, <2>1, <2>2, <2>3, LinuxSame DEF Nothing
<1>9. ASSUME p'[h].fd = NULL /\ p'[h].buffer = "null" /\ p'[h].source = p[h].source,
             p'[h].ops = "linux", priv' = [priv EXCEPT ![h].device = "null"],
             errors' = errors \cup Alloc(priv[h].device), Return(h, PCAP_ERROR)
      PROVE  Accounted(h)
  <2>1. /\ pc'[h] = "return" /\ status'[h] = -1 /\ errors' = errors
        /\ priv'[h].device = "null" /\ priv'[h].mmapbuf = priv[h].mmapbuf
        /\ priv'[h].oneshot_buffer = priv[h].oneshot_buffer
        /\ priv'[h].must_do_on_close = priv[h].must_do_on_close
    BY <1>1, <1>7, <1>9 DEF Return, Goto, Alloc, PrivFields, PCAP_ERROR
  <2>2. Moves(h) BY <1>1, <1>2, <1>4, <1>7, <1>9, <2>1 DEF Moves, LinuxSteps, OnInterface
  <2>3. Stays(h) BY <1>1, <1>4, <2>1 DEF Stays, Early
  <2> QED BY <1>1, <1>2, <1>3, <1>4, <1>9, <2>1, <2>2, <2>3, LinuxSame DEF Nothing
<1> QED BY <1>5, <1>6, <1>8, <1>9 DEF Start

(* Socket: activate_new's socket, an old kernel, or a failure. *)
LEMMA SocketAccounts ==
  ASSUME NEW h \in Handles, Ready(h), Keeps(h), Socket(h)
  PROVE  Accounted(h)
<1>1. pc[h] = "socket" /\ pc[h] \in LinuxSteps \ (MayList \cup WithFd \cup WithSecond)
  BY DEF Socket, LinuxSteps, MayList, WithFd, WithSecond
<1>2. Steady(h) BY <1>1, OnLinux DEF Socket, Fail, Steady, aside, devices, marks
<1>3. p[h].fd = NULL /\ sock_fd[h] = NULL BY <1>1, OnLinux
<1>4. p' = p /\ priv' = priv /\ pcaps_to_close' = pcaps_to_close /\ errors' = errors
  BY DEF Socket
<1>5. ASSUME NEW s \in Sockets, Opened(h, s), sock_fd' = [sock_fd EXCEPT ![h] = s],
             NEW y \in {"finish", "rfmon", "arptype"}, Goto(h, y), status' = status
      PROVE  Accounted(h)
  <2>1. pc'[h] = y /\ sock_fd'[h] = s /\ y \in LinuxSteps \cap WithSecond /\ y \notin {"ring", "map"}
    BY <1>1, <1>5, OnLinux DEF Goto, LinuxSteps, WithSecond
  <2>2. Moves(h) BY <1>1, <1>3, <1>4, <1>5, <2>1, OnLinux DEF Moves, LinuxSteps, OnInterface
  <2>3. Stays(h) BY <1>1, <1>4, <2>1, OnLinux DEF Stays, Early, LinuxSteps
  <2>4. {p'[h].fd, sock_fd'[h]} \ {NULL} = ({p[h].fd, sock_fd[h]} \ {NULL}) \cup {s}
    BY <1>3, <1>4, <2>1, ActivationAssumption, HandlesAssumption DEF NULL
  <2> QED BY <1>1, <1>2, <1>4, <1>5, <2>2, <2>3, <2>4, LinuxOpens
<1>6. ASSUME sock_fd' = sock_fd, sockets' = sockets, NEW y \in {"old", "restore"}, Goto(h, y),
             status'[h] \in Int, IF y = "old" THEN status'[h] = status[h] ELSE status'[h] < 0
      PROVE  Accounted(h)
  <2>1. pc'[h] = y BY <1>1, <1>6, OnLinux DEF Goto
  <2>2. Moves(h) BY <1>1, <1>3, <1>4, <1>6, <2>1, OnLinux DEF Moves, LinuxSteps, OnInterface
  <2>3. Stays(h) BY <1>1, <1>4, <1>6, <2>1, OnLinux DEF Stays, Early, LinuxSteps
  <2> QED BY <1>1, <1>2, <1>4, <1>6, <2>2, <2>3, OnLinux, LinuxSame
<1>7. ASSUME NEW e \in {PCAP_ERROR, PCAP_ERROR_PERM_DENIED}, Fail(h, e)
      PROVE  Goto(h, "restore") /\ status'[h] \in Int /\ status'[h] < 0
  BY <1>1, <1>7, OnLinux DEF Fail, PCAP_ERROR, PCAP_ERROR_PERM_DENIED
<1> QED BY <1>1, <1>5, <1>6, <1>7, OnLinux DEF Socket

(* Rfmon: not wireless, a question that fails, or the mode is kept. *)
LEMMA RfmonAccounts ==
  ASSUME NEW h \in Handles, Ready(h), Keeps(h), Rfmon(h)
  PROVE  Accounted(h)
<1>1. pc[h] = "rfmon" /\ pc[h] \in LinuxSteps \ (MayList \cup WithFd)
  BY DEF Rfmon, LinuxSteps, MayList, WithFd
<1>2. Steady(h) BY <1>1, OnLinux DEF Rfmon, CloseAndFail, Fail, Steady, aside, devices, marks
<1>3. ASSUME NEW e \in {PCAP_ERROR_RFMON_NOTSUP, PCAP_ERROR}, CloseAndFail(h, e)
      PROVE  Accounted(h)
  BY <1>1, <1>2, <1>3, GivesUp DEF PCAP_ERROR_RFMON_NOTSUP, PCAP_ERROR
<1>4. ASSUME p[h].source = "wlan0", OldMode(h),
             UNCHANGED <<p, status, sock_fd, sockets, iface, pcaps_to_close, errors>>
      PROVE  Accounted(h)
  <2>1. /\ pc'[h] \in {"arptype", "down"} /\ priv'[h].device = priv[h].device
        /\ priv'[h].mmapbuf = priv[h].mmapbuf
        /\ priv'[h].oneshot_buffer = priv[h].oneshot_buffer
        /\ priv'[h].must_do_on_close = priv[h].must_do_on_close
    BY <1>1, <1>4, OnLinux DEF OldMode, Goto, PrivFields
  <2>2. pc'[h] \in LinuxSteps \cap WithSecond BY <2>1 DEF LinuxSteps, WithSecond
  <2>3. Moves(h) BY <1>1, <1>4, <2>1, <2>2, OnLinux DEF Moves, OnInterface, Indebted
  <2>4. Stays(h) BY <1>1, <1>4, <2>1, OnLinux DEF Stays, Early
  <2> QED BY <1>1, <1>2, <1>4, <2>3, <2>4, OnLinux, LinuxSame
<1> QED BY <1>3, <1>4 DEF Rfmon

(* MustDo changes nothing else of the structure. *)
LEMMA MustDoAlone ==
  ASSUME NEW h \in Handles, Ready(h), NEW what, MustDo(h, what)
  PROVE  /\ priv'[h].device = priv[h].device /\ priv'[h].mmapbuf = priv[h].mmapbuf
         /\ priv'[h].oneshot_buffer = priv[h].oneshot_buffer
BY DEF MustDo, Ready, Shapes, PrivShaped, PrivFields

(* Down: the mode at once, or the interface first. *)
LEMMA DownAccounts ==
  ASSUME NEW h \in Handles, Ready(h), Keeps(h), Down(h)
  PROVE  Accounted(h)
<1>1. pc[h] = "down" /\ pc[h] \in (LinuxSteps \cap OnInterface) \ (MayList \cup WithFd)
  BY DEF Down, LinuxSteps, OnInterface, MayList, WithFd
<1>2. Steady(h) BY <1>1, OnLinux DEF Down, CloseAndFail, Fail, Steady, aside, devices, marks
<1>3. CASE CloseAndFail(h, PCAP_ERROR) BY <1>1, <1>2, <1>3, GivesUp DEF PCAP_ERROR
<1>4. ASSUME MustDo(h, "rfmon"), Goto(h, "arptype"),
             UNCHANGED <<p, status, sock_fd, sockets, errors>>
      PROVE  Accounted(h)
  <2>1. pc'[h] = "arptype" BY <1>1, <1>4, OnLinux DEF Goto
  <2>2. pc'[h] \in LinuxSteps \cap WithSecond \cap MayList
    BY <2>1 DEF LinuxSteps, WithSecond, MayList
  <2>3. Moves(h)
    BY <1>1, <1>4, <2>1, <2>2, OnLinux, MustDoAlone DEF Moves, OnInterface, Indebted
  <2>4. Lasting(h) BY <1>1, <1>2, <1>4, <2>2, <2>3, OnLinux, OwesMore
  <2> QED BY <1>1, <1>2, <1>4, <2>3, <2>4, OnLinux, LinuxSame
<1>5. ASSUME Goto(h, "mode"),
             UNCHANGED <<p, priv, status, sock_fd, sockets, pcaps_to_close, errors>>
      PROVE  Accounted(h)
  <2>1. pc'[h] = "mode" BY <1>1, <1>5, OnLinux DEF Goto
  <2>2. pc'[h] \in LinuxSteps \cap WithSecond BY <2>1 DEF LinuxSteps, WithSecond
  <2>3. Moves(h) BY <1>1, <1>5, <2>1, <2>2, OnLinux DEF Moves, OnInterface, Indebted
  <2>4. Stays(h) BY <1>1, <1>5, <2>1, OnLinux DEF Stays, Early
  <2> QED BY <1>1, <1>2, <1>5, <2>3, <2>4, OnLinux, LinuxSame
<1> QED BY <1>3, <1>4, <1>5 DEF Down

(* Mode: monitor mode, or the flags again and a failure. *)
LEMMA ModeAccounts ==
  ASSUME NEW h \in Handles, Ready(h), Keeps(h), Mode(h)
  PROVE  Accounted(h)
<1>1. pc[h] = "mode" /\ pc[h] \in LinuxSteps \ (MayList \cup WithFd)
  BY DEF Mode, LinuxSteps, MayList, WithFd
<1>2. Steady(h) BY <1>1, OnLinux DEF Mode, Fail, Steady, aside, devices, marks
<1>3. p' = p /\ priv' = priv /\ pcaps_to_close' = pcaps_to_close BY DEF Mode
<1>4. ASSUME Goto(h, "up"), UNCHANGED <<status, sock_fd, sockets, errors>>
      PROVE  Accounted(h)
  <2>1. pc'[h] = "up" BY <1>1, <1>4, OnLinux DEF Goto
  <2>2. pc'[h] \in LinuxSteps \cap WithSecond BY <2>1 DEF LinuxSteps, WithSecond
  <2>3. Moves(h) BY <1>1, <1>3, <1>4, <2>1, <2>2, OnLinux DEF Moves, OnInterface, Indebted
  <2>4. Stays(h) BY <1>1, <1>3, <1>4, <2>1, OnLinux DEF Stays, Early
  <2> QED BY <1>1, <1>2, <1>3, <1>4, <2>3, <2>4, OnLinux, LinuxSame
<1>5. ASSUME Fail(h, PCAP_ERROR_RFMON_NOTSUP),
             sockets' = Closed(sock_fd[h]), sock_fd' = [sock_fd EXCEPT ![h] = NULL],
             errors' = errors \cup CloseError(h, sock_fd[h])
      PROVE  Accounted(h)
  <2>1. pc'[h] = "restore" /\ status'[h] = -6 /\ sock_fd'[h] = NULL
    BY <1>1, <1>5, OnLinux DEF Fail, Goto, PCAP_ERROR_RFMON_NOTSUP
  <2>2. Moves(h)
    BY <1>1, <1>3, <2>1, OnLinux DEF Moves, WithFd, WithSecond, WithBuffer, LinuxSteps
  <2>3. Stays(h) BY <1>3, <1>1, <2>1, OnLinux DEF Stays, Early, MayList
  <2> QED BY <1>1, <1>2, <1>3, <1>5, <2>1, <2>2, <2>3, LinuxCloses
<1> QED BY <1>4, <1>5 DEF Mode

(* Up: the interface is up and its mode has to be put back, or a failure. *)
LEMMA UpAccounts ==
  ASSUME NEW h \in Handles, Ready(h), Keeps(h), Up(h)
  PROVE  Accounted(h)
<1>1. pc[h] = "up" /\ pc[h] \in (LinuxSteps \cap OnInterface) \ (MayList \cup WithFd)
  BY DEF Up, LinuxSteps, OnInterface, MayList, WithFd
<1>2. Steady(h) BY <1>1, OnLinux DEF Up, CloseAndFail, Fail, Steady, aside, devices, marks
<1>3. CASE CloseAndFail(h, PCAP_ERROR) BY <1>1, <1>2, <1>3, GivesUp DEF PCAP_ERROR
<1>4. ASSUME MustDo(h, "rfmon"), Goto(h, "arptype"),
             UNCHANGED <<p, status, sock_fd, sockets, errors>>
      PROVE  Accounted(h)
  <2>1. pc'[h] = "arptype" BY <1>1, <1>4, OnLinux DEF Goto
  <2>2. pc'[h] \in LinuxSteps \cap WithSecond \cap MayList
    BY <2>1 DEF LinuxSteps, WithSecond, MayList
  <2>3. Moves(h)
    BY <1>1, <1>4, <2>1, <2>2, OnLinux, MustDoAlone DEF Moves, OnInterface, Indebted
  <2>4. Lasting(h) BY <1>1, <1>2, <1>4, <2>2, <2>3, OnLinux, OwesMore
  <2> QED BY <1>1, <1>2, <1>4, <2>3, <2>4, OnLinux, LinuxSame
<1> QED BY <1>3, <1>4 DEF Up

(* ArpType: a failure, or the link type, for which the socket may have to be
   opened anew. *)
LEMMA ArpTypeAccounts ==
  ASSUME NEW h \in Handles, Ready(h), Keeps(h), ArpType(h)
  PROVE  Accounted(h)
<1>1. pc[h] = "arptype" /\ pc[h] \in LinuxSteps \ WithFd BY DEF ArpType, LinuxSteps, WithFd
<1>2. Steady(h) BY <1>1, OnLinux DEF ArpType, CloseAndFail, Fail, Steady, aside, devices, marks
<1>3. ASSUME NEW e \in {PCAP_ERROR, PCAP_ERROR_NO_SUCH_DEVICE}, CloseAndFail(h, e)
      PROVE  Accounted(h)
  BY <1>1, <1>2, <1>3, GivesUp DEF PCAP_ERROR_NO_SUCH_DEVICE, PCAP_ERROR
<1>4. ASSUME NEW l, NEW d, p' = [p EXCEPT ![h].linktype = l, ![h].dlt_list = d],
             priv' = [priv EXCEPT ![h].cooked = FALSE],
             UNCHANGED <<status, pcaps_to_close, errors>>,
             NEW y \in {"bind", "reopen"}, Goto(h, y),
             IF y = "reopen" THEN /\ sockets' = Closed(sock_fd[h])
                                  /\ sock_fd' = [sock_fd EXCEPT ![h] = NULL]
                             ELSE sockets' = sockets /\ sock_fd' = sock_fd
      PROVE  Accounted(h)
  <2>1. /\ pc'[h] = y /\ p'[h].fd = p[h].fd /\ p'[h].source = p[h].source
        /\ p'[h].ops = p[h].ops /\ p'[h].buffer = p[h].buffer
    BY <1>1, <1>4, OnLinux DEF Goto, Fields
  <2>2. /\ priv'[h].device = priv[h].device /\ priv'[h].mmapbuf = priv[h].mmapbuf
        /\ priv'[h].oneshot_buffer = priv[h].oneshot_buffer
        /\ priv'[h].must_do_on_close = priv[h].must_do_on_close
    BY <1>1, <1>4, OnLinux DEF PrivFields
  <2>3. p[h].fd = NULL /\ y \in (LinuxSteps \cap MayList) \ OnInterface /\ (y = "bind" => y \in WithSecond)
    BY <1>1, OnLinux DEF LinuxSteps, MayList, OnInterface, WithSecond
  <2>4. sock_fd'[h] \in Sockets \cup {NULL} /\ (sock_fd'[h] # NULL => y = "bind")
        /\ (y = "reopen" => sock_fd'[h] = NULL)
    BY <1>1, <1>4, OnLinux
  <2>5. Moves(h) BY <1>1, <1>4, <2>1, <2>2, <2>3, <2>4, OnLinux DEF Moves
  <2>6. Stays(h) BY <1>1, <1>4, <2>1, <2>2, <2>3, OnLinux DEF Stays, Early
  <2>7. CASE y = "bind" BY <1>1, <1>2, <1>4, <2>1, <2>5, <2>6, <2>7, OnLinux, LinuxSame
  <2>8. CASE y = "reopen" BY <1>1, <1>2, <1>4, <2>1, <2>4, <2>5, <2>6, <2>8, LinuxCloses
  <2> QED BY <2>7, <2>8
<1>5. ASSUME ~ \E e \in {PCAP_ERROR, PCAP_ERROR_NO_SUCH_DEVICE} : CloseAndFail(h, e)
      PROVE  Accounted(h)
  <2> DEFINE link == Link(p[h].source)
  <2>1. /\ p' = [p EXCEPT ![h].linktype = link.linktype, ![h].dlt_list = link.dlt_list]
        /\ Goto(h, IF link.cooked THEN "reopen" ELSE "bind")
        /\ priv' = [priv EXCEPT ![h].cooked = FALSE]
        /\ sockets' = IF link.cooked THEN Closed(sock_fd[h]) ELSE sockets
        /\ sock_fd' = IF link.cooked THEN [sock_fd EXCEPT ![h] = NULL] ELSE sock_fd
        /\ UNCHANGED <<status, pcaps_to_close, errors>>
    BY <1>5 DEF ArpType
  <2> HIDE DEF link
  <2>2. CASE link.cooked BY <1>4, <2>1, <2>2
  <2>3. CASE ~link.cooked BY <1>4, <2>1, <2>3
  <2> QED BY <2>2, <2>3
<1> QED BY <1>3, <1>5

(* Reopen: a cooked socket, or none. *)
LEMMA ReopenAccounts ==
  ASSUME NEW h \in Handles, Ready(h), Keeps(h), Reopen(h)
  PROVE  Accounted(h)
<1>1. pc[h] = "reopen" /\ pc[h] \in LinuxSteps \ (WithFd \cup WithSecond)
  BY DEF Reopen, LinuxSteps, WithFd, WithSecond
<1>2. Steady(h) BY <1>1, OnLinux DEF Reopen, Fail, Steady, aside, devices, marks
<1>3. p[h].fd = NULL /\ sock_fd[h] = NULL BY <1>1, OnLinux
<1>4. pcaps_to_close' = pcaps_to_close /\ errors' = errors BY DEF Reopen
<1>5. ASSUME NEW s \in Sockets, Opened(h, s), sock_fd' = [sock_fd EXCEPT ![h] = s],
             p' = [p EXCEPT ![h].linktype = "LINUX_SLL", ![h].dlt_list = {}],
             priv' = [priv EXCEPT ![h].cooked = TRUE], Goto(h, "bind"), status' = status
      PROVE  Accounted(h)
  <2>1. /\ pc'[h] = "bind" /\ p'[h].fd = NULL /\ p'[h].source = p[h].source
        /\ p'[h].ops = p[h].ops /\ p'[h].buffer = p[h].buffer /\ sock_fd'[h] = s
    BY <1>1, <1>3, <1>5, OnLinux DEF Goto, Fields
  <2>2. /\ priv'[h].device = priv[h].device /\ priv'[h].mmapbuf = priv[h].mmapbuf
        /\ priv'[h].oneshot_buffer = priv[h].oneshot_buffer
        /\ priv'[h].must_do_on_close = priv[h].must_do_on_close
    BY <1>1, <1>5, OnLinux DEF PrivFields
  <2>3. "bind" \in (LinuxSteps \cap MayList \cap WithSecond) \ OnInterface
    BY DEF LinuxSteps, MayList, OnInterface, WithSecond
  <2>4. Moves(h)
    <3>1. /\ "bind" \notin {"ring", "map", "restore", "return"} /\ NULL \in Sockets \cup {NULL}
          /\ sock_fd'[h] \in Sockets \cup {NULL} /\ status'[h] = status[h]
      BY <1>5, <2>1
    <3>2. "bind" \in WithSecond \ {"return"} BY <2>3, <3>1
    <3> HIDE DEF Moves
    <3> QED BY <1>1, <2>1, <2>2, <2>3, <3>1, <3>2, OnLinux DEF Moves
  <2>5. Stays(h) BY <1>1, <1>4, <2>1, <2>2, <2>3, OnLinux DEF Stays, Early
  <2>6. {p'[h].fd, sock_fd'[h]} \ {NULL} = ({p[h].fd, sock_fd[h]} \ {NULL}) \cup {s}
    BY <1>3, <2>1, ActivationAssumption, HandlesAssumption DEF NULL
  <2> QED BY <1>1, <1>2, <1>4, <1>5, <2>4, <2>5, <2>6, LinuxOpens
<1>6. ASSUME NEW e \in {PCAP_ERROR, PCAP_ERROR_PERM_DENIED}, Fail(h, e),
             UNCHANGED <<p, priv, sock_fd, sockets>>
      PROVE  Accounted(h)
  <2>1. pc'[h] = "restore" /\ status'[h] = e /\ e \in Int /\ e < 0
    BY <1>1, <1>6, OnLinux DEF Fail, Goto, PCAP_ERROR, PCAP_ERROR_PERM_DENIED
  <2>2. Moves(h) BY <1>1, <1>3, <1>6, <2>1, OnLinux DEF Moves, LinuxSteps
  <2>3. Stays(h) BY <1>1, <1>4, <1>6, <2>1, OnLinux DEF Stays, Early, MayList
  <2> QED BY <1>1, <1>2, <1>4, <1>6, <2>2, <2>3, OnLinux, LinuxSame
<1> QED BY <1>5, <1>6 DEF Reopen

(* Bind: bound, a failure, or activate_old. *)
LEMMA BindAccounts ==
  ASSUME NEW h \in Handles, Ready(h), Keeps(h), Bind(h)
  PROVE  Accounted(h)
<1>1. pc[h] = "bind" /\ pc[h] \in LinuxSteps \ WithFd BY DEF Bind, LinuxSteps, WithFd
<1>2. Steady(h) BY <1>1, OnLinux DEF Bind, CloseAndFail, Fail, Steady, aside, devices, marks
<1>3. ASSUME NEW e \in {PCAP_ERROR, PCAP_ERROR_IFACE_NOT_UP}, CloseAndFail(h, e)
      PROVE  Accounted(h)
  BY <1>1, <1>2, <1>3, GivesUp DEF PCAP_ERROR_IFACE_NOT_UP, PCAP_ERROR
<1>4. ASSUME Goto(h, "finish"),
             UNCHANGED <<p, priv, status, sock_fd, sockets, iface, pcaps_to_close, errors>>
      PROVE  Accounted(h)
  <2>1. pc'[h] = "finish" BY <1>1, <1>4, OnLinux DEF Goto
  <2>2. pc'[h] \in LinuxSteps \cap WithSecond \cap MayList
    BY <2>1 DEF LinuxSteps, WithSecond, MayList
  <2>3. Moves(h) BY <1>1, <1>4, <2>1, <2>2, OnLinux DEF Moves, OnInterface
  <2>4. Stays(h) BY <1>1, <1>4, <2>1, <2>2, OnLinux DEF Stays, Early
  <2> QED BY <1>1, <1>2, <1>4, <2>3, <2>4, OnLinux, LinuxSame
<1>5. ASSUME Goto(h, "old"), UNCHANGED <<p, priv, status, iface, pcaps_to_close>>,
             sockets' = Closed(sock_fd[h]), sock_fd' = [sock_fd EXCEPT ![h] = NULL],
             errors' = errors \cup CloseError(h, sock_fd[h])
      PROVE  Accounted(h)
  <2>1. pc'[h] = "old" /\ sock_fd'[h] = NULL BY <1>1, <1>5, OnLinux DEF Goto
  <2>2. Moves(h) BY <1>1, <1>5, <2>1, OnLinux DEF Moves, OnInterface, LinuxSteps
  <2>3. Stays(h) BY <1>1, <1>5, <2>1, OnLinux DEF Stays, Early, MayList
  <2> QED BY <1>1, <1>2, <1>5, <2>1, <2>2, <2>3, LinuxCloses
<1> QED BY <1>3, <1>4, <1>5 DEF Bind

(* Finish: the socket becomes the handle's descriptor. *)
LEMMA FinishAccounts ==
  ASSUME NEW h \in Handles, Ready(h), Keeps(h), Finish(h)
  PROVE  Accounted(h)
<1>1. pc[h] = "finish" /\ pc[h] \in LinuxSteps \ WithFd BY DEF Finish, LinuxSteps, WithFd
<1>2. Steady(h) BY <1>1, OnLinux DEF Finish, CloseAndFail, Fail, Steady, aside, devices, marks
<1>3. ASSUME NEW e \in {PCAP_ERROR_RFMON_NOTSUP, PCAP_ERROR}, CloseAndFail(h, e)
      PROVE  Accounted(h)
  BY <1>1, <1>2, <1>3, GivesUp DEF PCAP_ERROR_RFMON_NOTSUP, PCAP_ERROR
<1>4. ASSUME NEW l, NEW n,
             p' = [p EXCEPT ![h].fd = sock_fd[h], ![h].nonblock = FALSE, ![h].linktype = l,
                            ![h].snapshot = n],
             NEW c, priv' = [priv EXCEPT ![h].cooked = c],
             sock_fd' = [sock_fd EXCEPT ![h] = NULL], Goto(h, "mmap"),
             UNCHANGED <<status, sockets, iface, pcaps_to_close, errors>>
      PROVE  Accounted(h)
  <2>1. /\ pc'[h] = "mmap" /\ p'[h].fd = sock_fd[h] /\ p'[h].source = p[h].source
        /\ p'[h].ops = p[h].ops /\ p'[h].buffer = p[h].buffer /\ sock_fd'[h] = NULL
    BY <1>1, <1>4, OnLinux DEF Goto, Fields
  <2>2. /\ priv'[h].device = priv[h].device /\ priv'[h].mmapbuf = priv[h].mmapbuf
        /\ priv'[h].oneshot_buffer = priv[h].oneshot_buffer
        /\ priv'[h].must_do_on_close = priv[h].must_do_on_close
    BY <1>1, <1>4, OnLinux DEF PrivFields
  <2>3. "mmap" \in (LinuxSteps \cap MayList \cap WithFd) \ OnInterface /\ p[h].fd = NULL
    BY <1>1, OnLinux DEF LinuxSteps, MayList, OnInterface, WithFd
  <2>4. Moves(h) BY <1>1, <1>4, <2>1, <2>2, <2>3, OnLinux, SMTT(20) DEF Moves
  <2>5. Stays(h) BY <1>1, <1>4, <2>1, <2>2, <2>3, OnLinux DEF Stays, Early
  <2>6. {p'[h].fd, sock_fd'[h]} \ {NULL} = {p[h].fd, sock_fd[h]} \ {NULL} BY <2>1, <2>3
  <2> QED BY <1>1, <1>2, <1>4, <2>4, <2>5, <2>6, OnLinux, LinuxSame
<1>5. ASSUME ~ \E e \in {PCAP_ERROR_RFMON_NOTSUP, PCAP_ERROR} : CloseAndFail(h, e)
      PROVE  Accounted(h)
  <2> DEFINE any == p[h].source = "any"
             cooked == any \/ priv[h].cooked
             l == IF any THEN "LINUX_SLL" ELSE p[h].linktype
             n == IF cooked /\ p[h].snapshot < SLL_HDR_LEN + 1 THEN SLL_HDR_LEN + 1
                  ELSE p[h].snapshot
  <2>1. /\ p' = [p EXCEPT ![h].fd = sock_fd[h], ![h].nonblock = FALSE, ![h].linktype = l,
                         ![h].snapshot = n]
        /\ priv' = [priv EXCEPT ![h].cooked = cooked]
        /\ sock_fd' = [sock_fd EXCEPT ![h] = NULL] /\ Goto(h, "mmap")
        /\ UNCHANGED <<status, sockets, iface, pcaps_to_close, errors>>
    BY <1>5 DEF Finish
  <2> HIDE DEF cooked, l, n
  <2> QED BY <1>4, <2>1
<1> QED BY <1>3, <1>5

(* Mmap: the buffer for one packet and a ring to be asked for, or neither. *)
LEMMA MmapAccounts ==
  ASSUME NEW h \in Handles, Ready(h), Keeps(h), Mmap(h)
  PROVE  Accounted(h)
<1>1. pc[h] = "mmap" /\ pc[h] \in LinuxSteps \ WithSecond
  BY DEF Mmap, LinuxSteps, WithSecond
<1>2. Steady(h) BY <1>1, OnLinux DEF Mmap, create_ring, FailRing, Fail, Steady, aside, devices, marks
<1>3. /\ sock_fd' = sock_fd /\ sockets' = sockets /\ pcaps_to_close' = pcaps_to_close
      /\ errors' = errors /\ sock_fd[h] = NULL
  <2>1. priv[h].oneshot_buffer # "live" BY <1>1, OnLinux
  <2> QED BY <1>1, <2>1, OnLinux DEF Mmap, Alloc
<1>4. ASSUME NEW n, p' = [p EXCEPT ![h].buffer_size = n] \/ p' = p
      PROVE  /\ p'[h].fd = p[h].fd /\ p'[h].source = p[h].source /\ p'[h].ops = p[h].ops
             /\ p'[h].buffer = p[h].buffer
  BY <1>1, <1>4, OnLinux DEF Fields
<1>5. ASSUME NEW x \in {"null", "dangling"}, priv' = [priv EXCEPT ![h].oneshot_buffer = x],
             FailRing(h), NEW n, p' = [p EXCEPT ![h].buffer_size = n] \/ p' = p
      PROVE  Accounted(h)
  <2>1. /\ pc'[h] = "restore" /\ status'[h] = 1 /\ priv'[h].oneshot_buffer = x
        /\ priv'[h].device = priv[h].device /\ priv'[h].mmapbuf = priv[h].mmapbuf
        /\ priv'[h].must_do_on_close = priv[h].must_do_on_close
    BY <1>1, <1>5, OnLinux DEF FailRing, Fail, Goto, MmapFailed, PrivFields
  <2>2. "restore" \in WithFd \cap MayList /\ "restore" \notin LinuxSteps
    BY DEF WithFd, MayList, LinuxSteps
  <2>3. /\ p'[h].fd = p[h].fd /\ p'[h].source = p[h].source /\ p'[h].ops = p[h].ops
        /\ p'[h].buffer = p[h].buffer
    BY <1>4, <1>5
  <2>4. Moves(h)
    <3>1. /\ sock_fd'[h] = NULL /\ priv'[h].oneshot_buffer # "live" /\ ~priv'[h].mmapbuf
          /\ priv'[h].device = "live"
      BY <1>1, <1>3, <1>5, <2>1, OnLinux
    <3> QED BY <1>1, <2>1, <2>2, <2>3, <3>1, OnLinux DEF Moves
  <2>5. Stays(h)
    <3>1. priv[h].must_do_on_close = {} \/ h \in ringless' BY <1>5 DEF FailRing
    <3> QED BY <1>1, <1>3, <2>1, <2>2, <3>1, OnLinux DEF Stays, Early
  <2>6. {p'[h].fd, sock_fd'[h]} \ {NULL} = {p[h].fd, sock_fd[h]} \ {NULL} BY <1>3, <2>3
  <2> QED BY <1>1, <1>2, <1>3, <2>4, <2>5, <2>6, OnLinux, LinuxSame
<1>6. ASSUME NEW v, priv' = [priv EXCEPT ![h].oneshot_buffer = "live", ![h].tp_version = v],
             create_ring(h), NEW n, p' = [p EXCEPT ![h].buffer_size = n]
      PROVE  Accounted(h)
  <2>1. /\ pc'[h] = "ring" /\ status'[h] = 0 /\ priv'[h].oneshot_buffer = "live"
        /\ priv'[h].device = priv[h].device /\ priv'[h].mmapbuf = priv[h].mmapbuf
        /\ priv'[h].must_do_on_close = priv[h].must_do_on_close
    BY <1>1, <1>6, OnLinux DEF create_ring, Goto, PrivFields
  <2>2. "ring" \in (LinuxSteps \cap WithFd \cap MayList) \ OnInterface
    BY DEF WithFd, MayList, LinuxSteps, OnInterface
  <2>3. Moves(h) BY <1>1, <1>3, <1>4, <1>6, <2>1, <2>2, OnLinux DEF Moves
  <2>4. Stays(h) BY <1>1, <1>3, <2>1, <2>2, OnLinux DEF Stays, Early
  <2>5. {p'[h].fd, sock_fd'[h]} \ {NULL} = {p[h].fd, sock_fd[h]} \ {NULL}
    BY <1>3, <1>4, <1>6
  <2> QED BY <1>1, <1>2, <1>3, <2>3, <2>4, <2>5, OnLinux, LinuxSame
<1> QED BY <1>5, <1>6 DEF Mmap

(* RingRetry changes nothing that is said here. *)
LEMMA RingRetryAccounts ==
  ASSUME NEW h \in Handles, Ready(h), Keeps(h), RingRetry(h)
  PROVE  Accounted(h)
<1>1. /\ pc[h] = "ring" /\ pc[h] \in (LinuxSteps \cap MayList) \ OnInterface
      /\ pc[h] \notin WithSecond \cup WithBuffer
  BY DEF RingRetry, LinuxSteps, MayList, OnInterface, WithSecond, WithBuffer
<1>2. Steady(h) BY <1>1, OnLinux DEF RingRetry, Steady, aside, devices, marks
<1>3. /\ p' = p /\ priv' = priv /\ pc' = pc /\ sock_fd' = sock_fd /\ status' = status
      /\ sockets' = sockets /\ pcaps_to_close' = pcaps_to_close /\ errors' = errors
  BY DEF RingRetry
<1>4. Moves(h) BY <1>1, <1>3, OnLinux DEF Moves
<1>5. Stays(h) BY <1>1, <1>3, OnLinux DEF Stays, Early
<1> QED BY <1>1, <1>2, <1>3, <1>4, <1>5, OnLinux, LinuxSame

(* Ring: to be mapped, or the buffer for one packet is freed. *)
LEMMA RingAccounts ==
  ASSUME NEW h \in Handles, Ready(h), Keeps(h), Ring(h)
  PROVE  Accounted(h)
<1>1. pc[h] = "ring" /\ pc[h] \in LinuxSteps /\ pc[h] \notin WithSecond
  BY DEF Ring, LinuxSteps, WithSecond
<1>2. Steady(h) BY <1>1, OnLinux DEF Ring, FailRing, Fail, Steady, aside, devices, marks
<1>3. /\ p' = p /\ sock_fd' = sock_fd /\ sockets' = sockets
      /\ pcaps_to_close' = pcaps_to_close /\ errors' = errors /\ sock_fd[h] = NULL
  <2>1. sock_fd[h] = NULL BY <1>1, OnLinux
  <2> QED BY <2>1 DEF Ring
<1>4. ASSUME NEW y \in {"map", "rcvbuf", "restore"}, Goto(h, y), status'[h] \in Int,
             status'[h] >= 0,
             y = "restore" => priv[h].must_do_on_close = {} \/ h \in ringless',
             IF y = "map" THEN priv' = priv
                          ELSE priv' = [priv EXCEPT ![h].oneshot_buffer = "dangling"]
      PROVE  Accounted(h)
  <2>1. /\ pc'[h] = y /\ priv'[h].oneshot_buffer = IF y = "map" THEN "live" ELSE "dangling"
        /\ priv'[h].device = priv[h].device /\ priv'[h].mmapbuf = priv[h].mmapbuf
        /\ priv'[h].must_do_on_close = priv[h].must_do_on_close
    BY <1>1, <1>4, OnLinux DEF Goto, PrivFields
  <2>2. /\ y \in (WithFd \cap MayList) \ OnInterface /\ y \in LinuxSteps \cup {"restore"}
        /\ "restore" \notin LinuxSteps /\ y # "return"
    BY DEF WithFd, MayList, LinuxSteps, OnInterface
  <2>3. Moves(h) BY <1>1, <1>3, <1>4, <2>1, <2>2, OnLinux DEF Moves
  <2>4. Stays(h) BY <1>1, <1>3, <1>4, <2>1, <2>2, OnLinux DEF Stays, Early
  <2> QED BY <1>1, <1>2, <1>3, <2>3, <2>4, OnLinux, LinuxSame
<1>5. status'[h] \in Int /\ status'[h] >= 0
  BY <1>1, OnLinux DEF Ring, FailRing, Fail, MmapFailed
<1> QED BY <1>4, <1>5 DEF Ring, FailRing, Fail

(* Map: the ring is ready, or destroyed again. *)
LEMMA MapAccounts ==
  ASSUME NEW h \in Handles, Ready(h), Keeps(h), Map(h)
  PROVE  Accounted(h)
<1>1. pc[h] = "map" /\ pc[h] \in LinuxSteps /\ pc[h] \notin WithSecond
  BY DEF Map, LinuxSteps, WithSecond
<1>2. Steady(h) BY <1>1, OnLinux DEF Map, FailRing, Fail, Return, Steady, aside, devices, marks
<1>3. /\ sock_fd' = sock_fd /\ sockets' = sockets
      /\ pcaps_to_close' = pcaps_to_close /\ errors' = errors /\ sock_fd[h] = NULL
  BY <1>1, OnLinux, ZenonT(30) DEF Map, Alloc
<1>4. ASSUME priv' = [priv EXCEPT ![h].mmapbuf = TRUE],
             p' = [p EXCEPT ![h].buffer = "live", ![h].ops = "mmap"], Return(h, status[h])
      PROVE  Accounted(h)
  <2>1. /\ pc'[h] = "return" /\ priv'[h].oneshot_buffer = "live" /\ status'[h] = status[h]
        /\ priv'[h].device = priv[h].device
        /\ priv'[h].must_do_on_close = priv[h].must_do_on_close
        /\ p'[h].buffer = "live" /\ p'[h].ops = "mmap" /\ p'[h].fd = p[h].fd
        /\ p'[h].source = p[h].source
    BY <1>1, <1>4, OnLinux DEF Return, Goto, PrivFields, Fields
  <2>2. "return" \in WithFd \cap WithBuffer \cap MayList /\ "return" \notin LinuxSteps
    BY DEF WithFd, WithBuffer, MayList, LinuxSteps
  <2>3. Moves(h) BY <1>1, <1>3, <2>1, <2>2, OnLinux DEF Moves
  <2>4. Stays(h) BY <1>1, <1>3, <2>1, <2>2, OnLinux DEF Stays, Early
  <2>5. {p'[h].fd, sock_fd'[h]} \ {NULL} = {p[h].fd, sock_fd[h]} \ {NULL} BY <1>3, <2>1
  <2> QED BY <1>1, <1>2, <1>3, <2>3, <2>4, <2>5, OnLinux, LinuxSame
<1>5. ASSUME FailRing(h), p' = p,
             priv' = [priv EXCEPT ![h].mmapbuf = FALSE, ![h].oneshot_buffer = "dangling"]
      PROVE  Accounted(h)
  <2>1. /\ pc'[h] = "restore" /\ status'[h] = 1 /\ priv'[h].oneshot_buffer = "dangling"
        /\ priv'[h].device = priv[h].device /\ ~priv'[h].mmapbuf
        /\ priv'[h].must_do_on_close = priv[h].must_do_on_close
    BY <1>1, <1>5, OnLinux DEF FailRing, Fail, Goto, MmapFailed, PrivFields
  <2>2. "restore" \in WithFd \cap MayList /\ "restore" \notin LinuxSteps
    BY DEF WithFd, MayList, LinuxSteps
  <2>3. Moves(h) BY <1>1, <1>3, <1>5, <2>1, <2>2, OnLinux DEF Moves
  <2>4. Stays(h)
    <3>1. priv[h].must_do_on_close = {} \/ h \in ringless' BY <1>5 DEF FailRing
    <3> QED BY <1>1, <1>3, <2>1, <2>2, <3>1, OnLinux DEF Stays, Early
  <2> QED BY <1>1, <1>2, <1>3, <1>5, <2>3, <2>4, OnLinux, LinuxSame
<1> QED BY <1>4, <1>5 DEF Map

(* RcvBuf: a buffer without a ring, or a failure. *)
LEMMA RcvBufAccounts ==
  ASSUME NEW h \in Handles, Ready(h), Keeps(h), RcvBuf(h)
  PROVE  Accounted(h)
<1>1. pc[h] = "rcvbuf" /\ pc[h] \in LinuxSteps /\ pc[h] \notin WithSecond
  BY DEF RcvBuf, LinuxSteps, WithSecond
<1>2. Steady(h) BY <1>1, OnLinux DEF RcvBuf, Fail, Return, Steady, aside, devices, marks
<1>3. /\ priv' = priv /\ sock_fd' = sock_fd /\ sockets' = sockets
      /\ pcaps_to_close' = pcaps_to_close /\ errors' = errors /\ sock_fd[h] = NULL
  BY <1>1, OnLinux DEF RcvBuf, Alloc
<1>4. ASSUME p' = [p EXCEPT ![h].buffer = "live"], Return(h, status[h])
      PROVE  Accounted(h)
  <2>1. /\ pc'[h] = "return" /\ status'[h] = status[h]
        /\ p'[h].buffer = "live" /\ p'[h].ops = p[h].ops /\ p'[h].fd = p[h].fd
        /\ p'[h].source = p[h].source
    BY <1>1, <1>4, OnLinux DEF Return, Goto, Fields
  <2>2. "return" \in WithFd \cap WithBuffer \cap MayList /\ "return" \notin LinuxSteps
    BY DEF WithFd, WithBuffer, MayList, LinuxSteps
  <2>3. Moves(h) BY <1>1, <1>3, <2>1, <2>2, OnLinux DEF Moves
  <2>4. Stays(h) BY <1>1, <1>3, <2>1, <2>2, OnLinux DEF Stays, Early
  <2>5. {p'[h].fd, sock_fd'[h]} \ {NULL} = {p[h].fd, sock_fd[h]} \ {NULL} BY <1>3, <2>1
  <2> QED BY <1>1, <1>2, <1>3, <2>3, <2>4, <2>5, OnLinux, LinuxSame
<1>5. ASSUME Fail(h, PCAP_ERROR), p' = p
      PROVE  Accounted(h)
  <2>1. pc'[h] = "restore" /\ status'[h] = -1
    BY <1>1, <1>5, OnLinux DEF Fail, Goto, PCAP_ERROR
  <2>2. "restore" \in WithFd \cap MayList /\ "restore" \notin LinuxSteps
    BY DEF WithFd, MayList, LinuxSteps
  <2>3. Moves(h) BY <1>1, <1>3, <1>5, <2>1, <2>2, OnLinux DEF Moves
  <2>4. Stays(h) BY <1>1, <1>3, <1>5, <2>1, <2>2, OnLinux DEF Stays, Early
  <2> QED BY <1>1, <1>2, <1>3, <1>5, <2>3, <2>4, OnLinux, LinuxSame
<1> QED BY <1>4, <1>5 DEF RcvBuf

(* Old: activate_old's socket, which "any" has none of, or a failure. *)
LEMMA OldAccounts ==
  ASSUME NEW h \in Handles, Ready(h), Keeps(h), Old(h)
  PROVE  Accounted(h)
<1>1. pc[h] = "old" /\ pc[h] \in LinuxSteps \ (WithFd \cup WithSecond)
  BY DEF Old, LinuxSteps, WithFd, WithSecond
<1>2. Steady(h) BY <1>1, OnLinux DEF Old, Fail, Steady, aside, devices, marks
<1>3. p[h].fd = NULL /\ sock_fd[h] = NULL /\ p[h].source \in Indebted \cup {"any"}
  BY <1>1, OnLinux DEF LinuxDevices, Indebted
<1>4. pcaps_to_close' = pcaps_to_close /\ errors' = errors /\ sock_fd' = sock_fd BY DEF Old
<1>5. ASSUME NEW s \in Sockets, Opened(h, s), p' = [p EXCEPT ![h].fd = s, ![h].nonblock = FALSE],
             priv' = [priv EXCEPT ![h].cooked = FALSE],
             NEW y \in {"restore", "oldbind"}, Goto(h, y), status'[h] \in Int,
             IF y = "restore" THEN status'[h] < 0
                              ELSE status'[h] = status[h] /\ p[h].source # "any"
      PROVE  Accounted(h)
  <2>1. /\ pc'[h] = y /\ p'[h].fd = s /\ p'[h].source = p[h].source
        /\ p'[h].ops = p[h].ops /\ p'[h].buffer = p[h].buffer
    BY <1>1, <1>5, OnLinux DEF Goto, Fields
  <2>2. /\ priv'[h].device = priv[h].device /\ priv'[h].mmapbuf = priv[h].mmapbuf
        /\ priv'[h].oneshot_buffer = priv[h].oneshot_buffer
        /\ priv'[h].must_do_on_close = priv[h].must_do_on_close
    BY <1>1, <1>5, OnLinux DEF PrivFields
  <2>3. y \in WithFd \cap MayList /\ y \in LinuxSteps \cup {"restore"} /\ "restore" \notin LinuxSteps
    BY DEF LinuxSteps, WithFd, MayList
  <2>4. Moves(h)
    <3>1. /\ y \notin {"ring", "map", "return"} /\ sock_fd'[h] = NULL
          /\ p'[h].source \in Indebted \/ y = "restore"
      BY <1>3, <1>4, <1>5, <2>1
    <3> QED BY <1>1, <1>5, <2>1, <2>2, <2>3, <3>1, OnLinux DEF Moves
  <2>5. Stays(h) BY <1>1, <1>4, <1>5, <2>1, <2>2, <2>3, OnLinux DEF Stays, Early
  <2>6. {p'[h].fd, sock_fd'[h]} \ {NULL} = ({p[h].fd, sock_fd[h]} \ {NULL}) \cup {s}
    BY <1>3, <1>4, <2>1, ActivationAssumption, HandlesAssumption DEF NULL
  <2> QED BY <1>1, <1>2, <1>4, <1>5, <2>4, <2>5, <2>6, LinuxOpens
<1>6. ASSUME NEW e \in {PCAP_ERROR, PCAP_ERROR_PERM_DENIED}, Fail(h, e), UNCHANGED <<p, priv, sockets>>
      PROVE  Accounted(h)
  <2>1. pc'[h] = "restore" /\ status'[h] = e /\ e \in Int /\ e < 0
    BY <1>1, <1>6, OnLinux DEF Fail, Goto, PCAP_ERROR, PCAP_ERROR_PERM_DENIED
  <2>2. Moves(h) BY <1>1, <1>3, <1>4, <1>6, <2>1, OnLinux DEF Moves, LinuxSteps
  <2>3. Stays(h) BY <1>1, <1>4, <1>6, <2>1, OnLinux DEF Stays, Early, MayList
  <2> QED BY <1>1, <1>2, <1>4, <1>6, <2>2, <2>3, OnLinux, LinuxSame
<1>7. ASSUME NEW s \in Sockets, Opened(h, s), p' = [p EXCEPT ![h].fd = s, ![h].nonblock = FALSE],
             priv' = [priv EXCEPT ![h].cooked = FALSE],
             IF p[h].source = "any" THEN Fail(h, PCAP_ERROR)
                                    ELSE Goto(h, "oldbind") /\ UNCHANGED status
      PROVE  Accounted(h)
  <2>1. CASE p[h].source = "any"
    <3>1. Goto(h, "restore") /\ status'[h] \in Int /\ status'[h] < 0
      BY <1>1, <1>7, <2>1, OnLinux DEF Fail, PCAP_ERROR
    <3> QED BY <1>5, <1>7, <3>1
  <2>2. CASE p[h].source # "any"
    <3>1. Goto(h, "oldbind") /\ status'[h] = status[h] /\ status[h] \in Int
      BY <1>1, <1>7, <2>2, OnLinux
    <3> QED BY <1>5, <1>7, <2>2, <3>1
  <2> QED BY <2>1, <2>2
<1> QED BY <1>6, <1>7 DEF Old

(* OldBind: bound by name, or a failure. *)
LEMMA OldBindAccounts ==
  ASSUME NEW h \in Handles, Ready(h), Keeps(h), OldBind(h)
  PROVE  Accounted(h)
<1>1. pc[h] = "oldbind" /\ pc[h] \in LinuxSteps \cap OnInterface /\ pc[h] \notin WithSecond
  BY DEF OldBind, LinuxSteps, OnInterface, WithSecond
<1>2. Steady(h) BY <1>1, OnLinux DEF OldBind, Fail, Steady, aside, devices, marks
<1>3. /\ priv' = priv /\ sock_fd' = sock_fd /\ sockets' = sockets
      /\ pcaps_to_close' = pcaps_to_close /\ errors' = errors /\ sock_fd[h] = NULL
  BY <1>1, OnLinux DEF OldBind
<1>4. ASSUME NEW l, NEW d, p' = [p EXCEPT ![h].linktype = l, ![h].dlt_list = d],
             NEW y \in {"oldpromisc", "rcvbuf"}, Goto(h, y), status' = status
      PROVE  Accounted(h)
  <2>1. /\ pc'[h] = y /\ p'[h].fd = p[h].fd /\ p'[h].source = p[h].source
        /\ p'[h].ops = p[h].ops /\ p'[h].buffer = p[h].buffer
    BY <1>1, <1>4, OnLinux DEF Goto, Fields
  <2>2. y \in LinuxSteps \cap WithFd \cap MayList BY DEF LinuxSteps, WithFd, MayList
  <2>3. Moves(h) BY <1>1, <1>3, <1>4, <2>1, <2>2, OnLinux DEF Moves, OnInterface, Indebted
  <2>4. Stays(h) BY <1>1, <1>3, <2>1, <2>2, OnLinux DEF Stays, Early
  <2>5. {p'[h].fd, sock_fd'[h]} \ {NULL} = {p[h].fd, sock_fd[h]} \ {NULL} BY <1>3, <2>1
  <2> QED BY <1>1, <1>2, <1>3, <2>3, <2>4, <2>5, OnLinux, LinuxSame
<1>5. ASSUME Fail(h, PCAP_ERROR), p' = p
      PROVE  Accounted(h)
  <2>1. pc'[h] = "restore" /\ status'[h] = -1
    BY <1>1, <1>5, OnLinux DEF Fail, Goto, PCAP_ERROR
  <2>2. "restore" \in WithFd \cap MayList /\ "restore" \notin LinuxSteps
    BY DEF WithFd, MayList, LinuxSteps
  <2>3. Moves(h) BY <1>1, <1>3, <1>5, <2>1, <2>2, OnLinux DEF Moves
  <2>4. Stays(h) BY <1>1, <1>3, <1>5, <2>1, <2>2, OnLinux DEF Stays, Early
  <2> QED BY <1>1, <1>2, <1>3, <1>5, <2>3, <2>4, OnLinux, LinuxSame
<1>6. \/ \E l, d : \E y \in {"oldpromisc", "rcvbuf"} :
           /\ p' = [p EXCEPT ![h].linktype = l, ![h].dlt_list = d]
           /\ Goto(h, y) /\ status' = status
      \/ Fail(h, PCAP_ERROR) /\ p' = p
  <2>1. ASSUME p[h].promisc
        PROVE  (IF p[h].promisc THEN "oldpromisc" ELSE "rcvbuf") = "oldpromisc"
    BY <2>1
  <2>2. ASSUME ~p[h].promisc
        PROVE  (IF p[h].promisc THEN "oldpromisc" ELSE "rcvbuf") = "rcvbuf"
    BY <2>2
  <2> QED BY <2>1, <2>2 DEF OldBind
<1> QED BY <1>4, <1>5, <1>6

(* OldPromisc: the interface's flag, to be put back if this handle set it. *)
LEMMA OldPromiscAccounts ==
  ASSUME NEW h \in Handles, Ready(h), Keeps(h), OldPromisc(h)
  PROVE  Accounted(h)
<1>1. /\ pc[h] = "oldpromisc" /\ pc[h] \in LinuxSteps \cap OnInterface \cap Early
      /\ pc[h] \notin WithSecond
  BY DEF OldPromisc, LinuxSteps, OnInterface, WithSecond, Early
<1>2. Steady(h) BY <1>1, OnLinux DEF OldPromisc, Fail, Steady, aside, devices, marks
<1>3. /\ p' = p /\ sock_fd' = sock_fd /\ sockets' = sockets /\ errors' = errors
      /\ sock_fd[h] = NULL
  BY <1>1, OnLinux DEF OldPromisc
<1>4. "rcvbuf" \in (LinuxSteps \cap WithFd \cap MayList) \ (OnInterface \cup Early)
  BY DEF LinuxSteps, WithFd, MayList, OnInterface, Early
<1>5. ASSUME priv' = priv, pcaps_to_close' = pcaps_to_close, Goto(h, "rcvbuf"), status' = status
      PROVE  Accounted(h)
  <2>1. pc'[h] = "rcvbuf" BY <1>1, <1>5, OnLinux DEF Goto
  <2>2. Moves(h) BY <1>1, <1>3, <1>4, <1>5, <2>1, OnLinux DEF Moves
  <2>3. Stays(h) BY <1>1, <1>4, <1>5, <2>1, OnLinux DEF Stays, Early
  <2> QED BY <1>1, <1>2, <1>3, <2>2, <2>3, OnLinux, LinuxSame
<1>6. ASSUME MustDo(h, "promisc"), Goto(h, "rcvbuf"), status' = status
      PROVE  Accounted(h)
  <2>1. pc'[h] = "rcvbuf" BY <1>1, <1>6, OnLinux DEF Goto
  <2>2. Moves(h) BY <1>1, <1>3, <1>4, <1>6, <2>1, OnLinux, MustDoAlone DEF Moves
  <2>3. Lasting(h) BY <1>1, <1>2, <1>4, <1>6, <2>1, <2>2, OnLinux, OwesMore
  <2> QED BY <1>1, <1>2, <1>3, <2>2, <2>3, OnLinux, LinuxSame
<1>7. ASSUME Fail(h, PCAP_ERROR), priv' = priv, pcaps_to_close' = pcaps_to_close
      PROVE  Accounted(h)
  <2>1. pc'[h] = "restore" /\ status'[h] = -1
    BY <1>1, <1>7, OnLinux DEF Fail, Goto, PCAP_ERROR
  <2>2. "restore" \in WithFd \cap MayList /\ "restore" \notin LinuxSteps
    BY DEF WithFd, MayList, LinuxSteps
  <2>3. Moves(h) BY <1>1, <1>3, <1>7, <2>1, <2>2, OnLinux DEF Moves
  <2>4. Stays(h) BY <1>1, <1>3, <1>7, <2>1, <2>2, OnLinux DEF Stays, Early
  <2> QED BY <1>1, <1>2, <1>3, <1>7, <2>3, <2>4, OnLinux, LinuxSame
<1> QED BY <1>5, <1>6, <1>7 DEF OldPromisc

-----------------------------------------------------------------------------
(* Undoing, and the calls that end an activation. *)

(* What is known of every handle. *)
LEMMA Standing ==
  ASSUME NEW h \in Handles, Ready(h)
  PROVE  /\ DOMAIN p = Handles /\ DOMAIN pc = Handles /\ DOMAIN p[h] = Fields
         /\ DOMAIN priv = Handles /\ DOMAIN priv[h] = PrivFields
         /\ DOMAIN call = Handles /\ DOMAIN state = Handles
         /\ DOMAIN sock_fd = Handles /\ DOMAIN status = Handles /\ DOMAIN held = Handles
         /\ p[h].fd \in Sockets \cup {NULL} /\ sock_fd[h] \in Sockets \cup {NULL}
         /\ status[h] \in Int /\ sockets \in [Sockets -> Handles \cup {NULL}]
         /\ pcaps_to_close \in Seq(Handles)
         /\ spoilt = {} => Owner(h)
         /\ Where(h) /\ (h \notin spoilt => Holds(h)) /\ Distinct /\ Debt(h)
         /\ h \in spoilt => p[h].source \notin LinuxDevices
         /\ pc[h] \in Undoing => p[h].source \in LinuxDevices
<1>1. /\ DOMAIN p = Handles /\ DOMAIN pc = Handles /\ DOMAIN p[h] = Fields
      /\ DOMAIN priv = Handles /\ DOMAIN priv[h] = PrivFields
      /\ DOMAIN call = Handles /\ DOMAIN state = Handles
      /\ DOMAIN sock_fd = Handles /\ DOMAIN status = Handles /\ DOMAIN held = Handles
      /\ pcaps_to_close \in Seq(Handles)
  BY DEF Ready, Shapes, Shaped, PrivShaped
<1>2. h \in spoilt => p[h].source \notin LinuxDevices BY DEF Ready, Where
<1>3. ASSUME pc[h] \in Undoing PROVE p[h].source \in LinuxDevices
  <2>1. pc[h] \notin Between BY <1>3 DEF Undoing, Between
  <2>2. state[h] = "open" /\ p[h].source \in LinuxDevices \cup Drivers
    BY <1>3, DevicesAssumption DEF Ready, Where, Basic, Undoing
  <2>3. \A d \in Drivers : pc[h] \notin StepsOf(d) BY <1>3 DEF Drivers, StepsOf, Undoing
  <2> QED BY <1>3, <2>1, <2>2, <2>3 DEF Ready, Where
<1> QED BY <1>1, <1>2, <1>3 DEF Ready

(* pcap_cleanup_linux: the handle is taken off the list. *)
LEMMA RestoreAccounts ==
  ASSUME NEW h \in Handles, Ready(h), Keeps(h), Restore(h)
  PROVE  Accounted(h)
<1>1. /\ pc[h] = "restore" /\ pc[h] \in Undoing \cap WithFd \cap WithBuffer
      /\ pc[h] \notin WithSecond
  BY DEF Restore, Undoing, WithFd, WithBuffer, WithSecond
<1>2. "release" \in Undoing \cap WithFd \cap WithBuffer /\ "release" \notin LinuxSteps \cup Between \cup OnInterface
  BY DEF Undoing, WithFd, WithBuffer, LinuxSteps, Between, OnInterface
<1>3. /\ pc'[h] = "release"
      /\ UNCHANGED <<state, p, priv, call, sock_fd, status, sockets, held, lost, spoilt, ringless>>
  BY <1>1, Standing DEF Restore, Goto, local, devices
<1>4. state[h] = "open" /\ p[h].source \in LinuxDevices /\ h \notin spoilt
  BY <1>1, Standing DEF Where, Undoing
<1>5. /\ Distinct' /\ (Listed(h)' => Listed(h) /\ Twice(h))
      /\ \A g \in Handles \ {h} : Listed(g)' <=> Listed(g)
      /\ errors' = errors \/ (h \in ringless /\ errors' = errors \cup {"null device"})
  <2>1. Distinct /\ Debt(h) BY Standing
  <2>2. CASE priv[h].must_do_on_close = {}
    <3>1. pcaps_to_close' = pcaps_to_close /\ errors' = errors BY <2>2 DEF Restore
    <3>2. ~Listed(h) BY <2>1, <2>2 DEF Debt
    <3> QED BY <1>3, <2>1, <3>1, <3>2 DEF Listed, Distinct, Twice
  <2>3. CASE priv[h].must_do_on_close # {}
    <3>1. pcaps_to_close' = pcap_remove_from_pcaps_to_close(h) BY <2>3 DEF Restore
    <3>2. priv[h].device = "live" \/ h \in ringless BY <1>1, <1>4, <2>1, <2>3 DEF Debt
    <3>3. errors' \in {errors, errors \cup {"null device"}}
          /\ (priv[h].device = "live" => errors' = errors)
      BY DEF Restore
    <3>4. \A g \in Handles : Twice(g) => Twice(g)' BY <1>3 DEF Twice
    <3>5. /\ Listed(h)' => Listed(h) /\ Twice(h)
          /\ \A g \in Handles \ {h} : Listed(g)' <=> Listed(g)
          /\ Distinct'
      BY <2>1, <3>1, <3>4, Standing, Removing
    <3> QED BY <3>2, <3>3, <3>5
  <2> QED BY <2>2, <2>3
<1>6. Apart(h) BY <1>3, <1>5, Standing DEF Apart
<1>7. Where(h)'
  <2>1. "release" \in StepsOf(p[h].source) BY <1>4 DEF StepsOf, LinuxDevices, Undoing
  <2> QED BY <1>2, <1>3, <1>4, <2>1, Standing DEF Where
<1>8. h \notin spoilt' => Holds(h)'
  <2>1. Holds(h) /\ Pointing(h) /\ Ending(h) BY <1>4, Standing DEF Holds
  <2>2. Pointing(h)' BY <1>1, <1>2, <1>3, <2>1 DEF Pointing, Untouched
  <2>3. Progress(h)' /\ Waiting(h)' BY <1>2, <1>3 DEF Progress, Waiting
  <2>4. Ending(h)' BY <1>1, <1>2, <1>3, <2>1 DEF Ending
  <2> QED BY <1>3, <1>4, <2>2, <2>3, <2>4 DEF Holds
<1>9. Distinct' /\ Debt(h)'
  <2>1. Debt(h) BY Standing
  <2> QED BY <1>1, <1>3, <1>4, <1>5, <2>1 DEF Debt, Twice, Succeeded
<1>10. Trade(h) BY <1>3, <1>5, Same
<1> QED BY <1>6, <1>7, <1>8, <1>9, <1>10 DEF Accounted, Claimed

(* A step that frees what pcap_cleanup_live_common frees. *)
LEMMA LiveCommonTrades ==
  ASSUME NEW h \in Handles, Ready(h), Keeps(h), pc[h] \in {"release", "live"}, LiveCommon(h),
         errors' \in {errors \cup LiveErrors(h), errors}, sock_fd' = sock_fd, lost' = lost
  PROVE  /\ Trade(h)
         /\ p'[h].fd = NULL /\ p'[h].buffer = "null" /\ p'[h].source = p[h].source
         /\ p'[h].ops = p[h].ops /\ p'[h].activated = p[h].activated
         /\ h \notin spoilt => sock_fd[h] = NULL
<1>1. /\ p'[h].fd = NULL /\ p'[h].buffer = "null" /\ p'[h].source = p[h].source
      /\ p'[h].ops = p[h].ops /\ p'[h].activated = p[h].activated
  BY Standing DEF LiveCommon, Fields
<1>2. h \notin spoilt => Pointing(h)
  BY Standing DEF Where, Holds
<1>3. h \notin spoilt => sock_fd[h] = NULL BY <1>2 DEF Pointing, WithSecond
<1>4. spoilt = {} => errors' = errors
  BY <1>2, Standing DEF LiveErrors, Dealloc, CloseError, Owner, Pointing
<1>5. sockets' = [s \in Sockets |-> IF s \in {p[h].fd} THEN NULL ELSE sockets[s]]
  BY Standing, ClosedOne DEF LiveCommon
<1>6. spoilt \subseteq spoilt' BY DEF Keeps, Others
<1>7. Trade(h)
  <2>1. h \notin spoilt' =>
          {p'[h].fd, sock_fd'[h]} \ {NULL} = {p[h].fd, sock_fd[h]} \ ({p[h].fd} \cup {NULL})
    BY <1>1, <1>3, <1>6
  <2>2. h \notin spoilt' => {p'[h].fd, sock_fd'[h]} = {NULL} BY <1>1, <1>3, <1>6
  <2>3. spoilt' = {} => errors' = errors BY <1>4, <1>6
  <2> QED BY <1>5, <2>1, <2>2, <2>3, Closes
<1> QED BY <1>1, <1>3, <1>7

(* The end of pcap_cleanup_linux. *)
LEMMA ReleaseAccounts ==
  ASSUME NEW h \in Handles, Ready(h), Keeps(h), Release(h)
  PROVE  Accounted(h)
<1>1. pc[h] = "release" /\ pc[h] \in Undoing /\ pc[h] \notin MayList
  BY DEF Release, Undoing, MayList
<1>2. /\ UNCHANGED <<call, sock_fd, status, held, lost, spoilt, ringless, pcaps_to_close>>
      /\ priv'[h].device = "null" /\ priv'[h].mmapbuf = priv[h].mmapbuf
      /\ priv'[h].oneshot_buffer = priv[h].oneshot_buffer
      /\ priv'[h].must_do_on_close = priv[h].must_do_on_close
      /\ IF call[h] = "close" THEN state'[h] = "closed" /\ pc'[h] = "idle"
                              ELSE state'[h] = state[h] /\ pc'[h] = "return"
  BY Standing DEF Release, Gone, Goto, local, aside, devices, marks, PrivFields
<1>3. state[h] = "open" /\ p[h].source \in LinuxDevices /\ h \notin spoilt
  BY <1>1, Standing DEF Where, Undoing
<1>4. Pointing(h) /\ Ending(h) BY <1>3, Standing DEF Holds
<1>5. errors' = errors \cup LiveErrors(h)
  BY <1>4 DEF Release, Dealloc, Pointing
<1>6. /\ Trade(h)
      /\ p'[h].fd = NULL /\ p'[h].buffer = "null" /\ p'[h].source = p[h].source
      /\ p'[h].ops = p[h].ops /\ p'[h].activated = p[h].activated
      /\ sock_fd[h] = NULL
  BY <1>1, <1>2, <1>3, <1>5, LiveCommonTrades DEF Release
<1>7. Apart(h) BY <1>2, <1>6, Standing DEF Apart, Listed
<1>8. Where(h)' BY <1>2, <1>3, <1>6, Standing DEF Where, Between, Undoing, LinuxSteps
<1>9. Holds(h)'
  <2>1. held[h] = {} /\ p[h].source # "canusb" BY <1>3, <1>4 DEF Pointing, LinuxDevices
  <2>2. CASE call[h] = "close" BY <1>2, <1>6, <2>1, <2>2 DEF Holds
  <2>3. CASE call[h] # "close"
    <3>1. Pointing(h)' BY <1>2, <1>3, <1>6, <2>1, <2>3 DEF Pointing, Untouched
    <3>2. Progress(h)' /\ Ending(h)' BY <1>2, <2>3 DEF Progress, Ending, Between, LinuxSteps
    <3>3. Waiting(h)'
      <4>1. status[h] >= 0 => Active(h)' BY <1>1, <1>2, <1>4, <1>6, <2>3 DEF Active, Ending
      <4>2. Nothing(h)' BY <1>1, <1>2, <1>4, <1>6, <2>1 DEF Nothing, Untouched, Ending
      <4>3. pc'[h] = "return" /\ sock_fd'[h] = NULL /\ status'[h] = status[h]
            /\ status[h] \in Int
        BY <1>2, <1>6, <2>3, Standing
      <4> QED BY <4>1, <4>2, <4>3 DEF Waiting
    <3> QED BY <1>2, <1>3, <2>3, <3>1, <3>2, <3>3 DEF Holds
  <2> QED BY <2>2, <2>3
<1>10. Distinct' /\ Debt(h)'
  <2>1. /\ Debt(h) /\ Distinct' /\ (Twice(h)' <=> Twice(h))
        /\ Listed(h)' <=> Listed(h)
    BY <1>2, ListStays
  <2>2. Listed(h) => Twice(h) BY <1>1, <2>1 DEF Debt
  <2>3. pc'[h] = "return" /\ status'[h] >= 0 =>
          priv[h].must_do_on_close = {} \/ h \in ringless
    BY <1>1, <1>2, <2>1 DEF Debt
  <2>4. pc'[h] \in {"idle", "return"} /\ "idle" \notin Early /\ "return" \notin Early
    BY <1>2 DEF Early
  <2> QED BY <1>2, <1>3, <1>6, <2>1, <2>2, <2>3, <2>4 DEF Debt, Succeeded
<1> QED BY <1>6, <1>7, <1>8, <1>9, <1>10 DEF Accounted, Claimed

(* pcap_cleanup_linux_mmap: the ring and the buffer for one packet. *)
LEMMA DestroyAccounts ==
  ASSUME NEW h \in Handles, Ready(h), Keeps(h), Destroy(h)
  PROVE  Accounted(h)
<1>1. pc[h] = "destroy" /\ pc[h] \in Undoing /\ pc[h] \notin WithSecond
  BY DEF Destroy, Undoing, WithSecond
<1>2. /\ UNCHANGED <<state, p, call, sock_fd, status, sockets, held, lost, spoilt, ringless,
                     pcaps_to_close>>
      /\ pc'[h] = "restore"
      /\ priv'[h].device = priv[h].device /\ ~priv'[h].mmapbuf
      /\ priv'[h].oneshot_buffer = "null"
      /\ priv'[h].must_do_on_close = priv[h].must_do_on_close
  BY <1>1, Standing DEF Destroy, Goto, local, aside, devices, marks, PrivFields
<1>3. state[h] = "open" /\ p[h].source \in LinuxDevices /\ h \notin spoilt
  BY <1>1, Standing DEF Where, Undoing
<1>4. Pointing(h) /\ Ending(h) BY <1>3, Standing DEF Holds
<1>5. call[h] = "close" /\ priv[h].device = "live" /\ errors' = errors
  BY <1>1, <1>4 DEF Ending, Destroy, Dealloc
<1>6. Apart(h) BY <1>2, Standing DEF Apart, Listed
<1>7. "restore" \in WithFd \cap WithBuffer \cap MayList \cap Undoing /\ "restore" \notin LinuxSteps
  BY DEF WithFd, WithBuffer, MayList, Undoing, LinuxSteps
<1>8. Where(h)'
  <2>1. "restore" \in StepsOf(p[h].source) BY <1>3 DEF StepsOf, LinuxDevices, Undoing
  <2> QED BY <1>2, <1>3, <1>7, <2>1, Standing DEF Where
<1>9. Holds(h)'
  <2>1. Pointing(h)' BY <1>1, <1>2, <1>3, <1>4, <1>7 DEF Pointing
  <2>2. Progress(h)' /\ Waiting(h)' BY <1>2, <1>7 DEF Progress, Waiting
  <2>3. Ending(h)' BY <1>2, <1>5 DEF Ending
  <2> QED BY <1>2, <1>3, <2>1, <2>2, <2>3 DEF Holds
<1>10. Distinct' /\ Debt(h)'
  <2>1. /\ Debt(h) /\ Distinct' /\ (Twice(h)' <=> Twice(h))
        /\ Listed(h)' <=> Listed(h)
    BY <1>2, ListStays
  <2>2. "restore" \notin Early BY DEF Early
  <2> QED BY <1>1, <1>2, <1>3, <1>5, <1>7, <2>1, <2>2 DEF Debt, Succeeded
<1>11. Trade(h) BY <1>2, <1>5, Same
<1> QED BY <1>6, <1>8, <1>9, <1>10, <1>11 DEF Accounted, Claimed

(* pcap_close of a handle that has no clean-up of its own. *)
LEMMA LiveAccounts ==
  ASSUME NEW h \in Handles, Ready(h), Keeps(h), Live(h)
  PROVE  Accounted(h)
<1>1. pc[h] = "live" /\ pc[h] \notin MayList BY DEF Live, MayList
<1>2. /\ UNCHANGED <<priv, call, sock_fd, status, held, lost, spoilt, ringless, pcaps_to_close>>
      /\ state'[h] = "closed" /\ pc'[h] = "idle" /\ errors' = errors \cup LiveErrors(h)
  BY Standing DEF Live, Gone, Goto, local, aside, devices, marks
<1>3. state[h] = "open" BY <1>1, Standing DEF Where
<1>4. h \notin spoilt => held[h] = {} BY <1>1, <1>3, Standing DEF Holds, Ending
<1>5. /\ Trade(h)
      /\ p'[h].fd = NULL /\ p'[h].buffer = "null" /\ p'[h].source = p[h].source
      /\ h \notin spoilt => sock_fd[h] = NULL
  BY <1>1, <1>2, LiveCommonTrades DEF Live
<1>6. Apart(h) BY <1>2, <1>5, Standing DEF Apart, Listed
<1>7. Where(h)' BY <1>2, <1>3, <1>5, Standing DEF Where
<1>8. h \notin spoilt' => Holds(h)' BY <1>2, <1>4, <1>5 DEF Holds
<1>9. Distinct' /\ Debt(h)'
  <2>1. /\ Debt(h) /\ Distinct' /\ (Twice(h)' <=> Twice(h))
        /\ Listed(h)' <=> Listed(h)
    BY <1>2, ListStays
  <2>2. Listed(h) => Twice(h) BY <1>1, <2>1 DEF Debt
  <2>3. "idle" \notin Early BY DEF Early
  <2> QED BY <1>2, <1>3, <1>5, <2>1, <2>2, <2>3 DEF Debt, Succeeded
<1> QED BY <1>5, <1>6, <1>7, <1>8, <1>9 DEF Accounted, Claimed

(* The socket of pcap_can_set_rfmon_linux is closed. *)
LEMMA ProbeAccounts ==
  ASSUME NEW h \in Handles, Ready(h), Keeps(h), Probe(h)
  PROVE  Accounted(h)
<1>1. pc[h] = "probe" BY DEF Probe
<1>2. /\ UNCHANGED <<state, p, priv, call, status, held, lost, spoilt, ringless, pcaps_to_close>>
      /\ pc'[h] = "idle" /\ sock_fd'[h] = NULL /\ DOMAIN sock_fd' = Handles
      /\ \A g \in Handles \ {h} : sock_fd'[g] = sock_fd[g]
  BY Standing DEF Probe, Goto, aside, devices, marks
<1>3. state[h] = "open" BY <1>1, Standing DEF Where
<1>4. h \notin spoilt => Pointing(h) /\ Waiting(h) BY <1>3, Standing DEF Holds
<1>5. Apart(h) BY <1>2, Standing DEF Apart, Listed
<1>6. Where(h)' BY <1>1, <1>2, <1>3, Standing DEF Where, Between, Undoing, LinuxSteps
<1>7. ASSUME h \notin spoilt PROVE Holds(h)'
  <2>1. "idle" \in WithFd \cap WithBuffer \cap Between BY DEF WithFd, WithBuffer, Between
  <2>2. Pointing(h)' BY <1>2, <1>4, <1>7, <2>1 DEF Pointing, Untouched
  <2>3. Progress(h)' BY <1>2, <2>1 DEF Progress, LinuxSteps
  <2>4. Waiting(h)' BY <1>1, <1>2, <1>4, <1>7 DEF Waiting, Active, Nothing, Untouched
  <2>5. Ending(h)' BY <1>2 DEF Ending
  <2> QED BY <1>2, <1>3, <2>2, <2>3, <2>4, <2>5 DEF Holds
<1>8. Distinct' /\ Debt(h)'
  <2>1. /\ Debt(h) /\ Distinct' /\ (Twice(h)' <=> Twice(h))
        /\ Listed(h)' <=> Listed(h)
    BY <1>2, ListStays
  <2>2. Succeeded(h)' <=> Succeeded(h) BY <1>1, <1>2, <1>3 DEF Succeeded
  <2>3. "idle" \in MayList \ Early BY DEF MayList, Early
  <2> QED BY <1>1, <1>2, <1>3, <2>1, <2>2, <2>3 DEF Debt
<1>9. Trade(h)
  <2>1. sockets' = [s \in Sockets |-> IF s \in {sock_fd[h]} THEN NULL ELSE sockets[s]]
    BY Standing, ClosedOne DEF Probe
  <2>2. spoilt = {} => errors' = errors BY Standing DEF Probe, CloseError, Owner
  <2>3. spoilt' = {} => sock_fd[h] = NULL \/ p[h].fd # sock_fd[h]
    BY <1>1, <1>2, <1>4 DEF Waiting
  <2>4. {p[h].fd, sock_fd[h]} \ ({sock_fd[h]} \cup {NULL}) \subseteq {p'[h].fd, sock_fd'[h]}
    BY <1>2
  <2>5. spoilt' = {} =>
          {p'[h].fd, sock_fd'[h]} \ {NULL} \subseteq {p[h].fd, sock_fd[h]} \ ({sock_fd[h]} \cup {NULL})
    BY <1>2, <2>3
  <2> QED BY <1>2, <1>3, <2>1, <2>2, <2>4, <2>5, ClosesSome
<1> QED BY <1>2, <1>5, <1>6, <1>7, <1>8, <1>9 DEF Accounted, Claimed

(* pcap_activate returns. *)
LEMMA ActivateReturnsAccounts ==
  ASSUME NEW h \in Handles, Ready(h), Keeps(h), ActivateReturns(h)
  PROVE  Accounted(h)
<1>1. pc[h] = "return" /\ state[h] = "open" BY Standing DEF ActivateReturns, Where
<1>2. /\ UNCHANGED <<state, priv, sock_fd, sockets, held, lost, spoilt, ringless, pcaps_to_close,
                     errors>>
      /\ status'[h] = 0 /\ DOMAIN status' = Handles
      /\ \A g \in Handles \ {h} : status'[g] = status[g]
      /\ p'[h].fd = p[h].fd /\ p'[h].source = p[h].source /\ p'[h].buffer = p[h].buffer
  BY Standing DEF ActivateReturns, aside, devices, marks, Fields
<1>3. Apart(h) BY <1>2, Standing DEF Apart, Listed
<1>4. Trade(h) BY <1>2, Same
<1>5. h \notin spoilt => Pointing(h) /\ Waiting(h) BY <1>1, Standing DEF Holds
<1>6. CASE status[h] >= 0
  <2>1. pc'[h] = "idle" /\ call'[h] = call[h] /\ p'[h].activated /\ p'[h].ops = p[h].ops
    BY <1>6, Standing DEF ActivateReturns, Goto, Fields
  <2>2. Where(h)' BY <1>1, <1>2, <2>1, Standing DEF Where, Between, Undoing, LinuxSteps
  <2>3. ASSUME h \notin spoilt PROVE Holds(h)'
    <3>1. "idle" \in WithFd \cap WithBuffer \cap WithSecond \cap Between
      BY DEF WithFd, WithBuffer, WithSecond, Between
    <3>2. Pointing(h)' BY <1>1, <1>2, <1>5, <2>1, <2>3, <3>1 DEF Pointing, Untouched
    <3>3. Progress(h)' BY <2>1, <3>1 DEF Progress, LinuxSteps
    <3>4. Waiting(h)'
      <4>1. Active(h) BY <1>1, <1>5, <1>6, <2>3, Standing DEF Waiting
      <4>2. sock_fd[h] # NULL => p[h].ops = "own" BY <1>1, <1>5, <2>3 DEF Waiting
      <4> QED BY <1>2, <2>1, <4>1, <4>2 DEF Waiting, Active
    <3>5. Ending(h)' BY <2>1 DEF Ending
    <3> QED BY <1>1, <1>2, <3>2, <3>3, <3>4, <3>5 DEF Holds
  <2>4. Distinct' /\ Debt(h)'
    <3>1. /\ Debt(h) /\ Distinct' /\ (Twice(h)' <=> Twice(h))
          /\ Listed(h)' <=> Listed(h)
      BY <1>2, ListStays
    <3>2. Succeeded(h)' /\ Succeeded(h) BY <1>1, <1>2, <1>6, <2>1 DEF Succeeded
    <3>3. "idle" \in MayList \ Early BY DEF MayList, Early
    <3> QED BY <1>1, <1>2, <2>1, <3>1, <3>2, <3>3 DEF Debt
  <2> QED BY <1>2, <1>3, <1>4, <2>2, <2>3, <2>4 DEF Accounted, Claimed
<1>7. CASE ~(status[h] >= 0)
  <2>1. /\ pc'[h] \in {"idle", "live"} /\ call'[h] = "close" /\ p'[h].ops = "none"
        /\ p'[h].activated = p[h].activated
    BY <1>7, Standing DEF ActivateReturns, Goto, Fields
  <2>2. Where(h)' BY <1>1, <1>2, <2>1, Standing DEF Where, Between, Undoing, LinuxSteps
  <2>3. ~p[h].activated BY <1>1 DEF Ready, Basic, Quiet
  <2>4. ASSUME h \notin spoilt PROVE Holds(h)'
    <3>1. Nothing(h) /\ sock_fd[h] = NULL BY <1>1, <1>5, <1>7, <2>4, Standing DEF Waiting
    <3>2. pc'[h] \in WithFd \cap WithBuffer \cap Between
      BY <2>1 DEF WithFd, WithBuffer, Between
    <3>3. Pointing(h)' BY <1>1, <1>2, <1>5, <2>1, <2>4, <3>1, <3>2 DEF Pointing, Untouched
    <3>4. Progress(h)' BY <2>1, <3>2 DEF Progress, LinuxSteps
    <3>5. Waiting(h)' BY <1>2, <2>1, <2>3, <3>1 DEF Waiting, Nothing, Untouched
    <3>6. Ending(h)' BY <1>2, <2>1, <3>1 DEF Ending, Nothing
    <3> QED BY <1>1, <1>2, <3>3, <3>4, <3>5, <3>6 DEF Holds
  <2>5. Distinct' /\ Debt(h)'
    <3>1. /\ Debt(h) /\ Distinct' /\ (Twice(h)' <=> Twice(h))
          /\ Listed(h)' <=> Listed(h)
      BY <1>2, ListStays
    <3>2. ~Succeeded(h) /\ ~Succeeded(h)' BY <1>1, <1>7, <2>1, <2>3, Standing DEF Succeeded
    <3>3. Listed(h) => Twice(h) BY <1>1, <3>1, <3>2 DEF Debt
    <3>4. "idle" \notin Early /\ "live" \notin Early BY DEF Early
    <3> QED BY <1>1, <1>2, <2>1, <3>1, <3>2, <3>3, <3>4 DEF Debt
  <2> QED BY <1>2, <1>3, <1>4, <2>2, <2>4, <2>5 DEF Accounted, Claimed
<1> QED BY <1>6, <1>7

(* pcap_close calls the clean-up of the handle's kind. *)
LEMMA CloseAccounts ==
  ASSUME NEW h \in Handles, Ready(h), Keeps(h), Close(h), UNCHANGED devices
  PROVE  Accounted(h)
<1>1. pc[h] = "idle" /\ state[h] = "open" BY DEF Close
<1>2. /\ UNCHANGED <<state, p, priv, sock_fd, status, sockets, held, lost, spoilt,
                     ringless, pcaps_to_close, errors>>
      /\ call'[h] = "close"
      /\ pc'[h] = CASE p[h].ops \in {"none", "device"} -> "live" [] p[h].ops = "linux" -> "restore"
                    [] p[h].ops = "mmap" -> "destroy" [] p[h].ops = "own" -> "cleanup"
  BY Standing DEF Close, Goto, aside, devices, marks
<1>3. Apart(h) BY <1>2, Standing DEF Apart, Listed
<1>4. Trade(h) BY <1>2, Same
<1>5. /\ h \notin spoilt => Pointing(h) /\ Waiting(h)
      /\ status[h] >= 0
  BY <1>1, Standing DEF Holds, Where, Undoing
<1>6. p[h].ops \in IF p[h].source \in LinuxDevices THEN {"none", "linux", "mmap"}
                                                   ELSE {"none", "device", "own"}
  BY <1>1, Standing DEF Where
<1>7. h \notin spoilt => /\ p[h].activated => Active(h)
                         /\ ~p[h].activated => Nothing(h) /\ p[h].ops = "none"
                         /\ sock_fd[h] # NULL => p[h].ops = "own"
  BY <1>1, <1>5 DEF Waiting
<1>8. CASE p[h].ops \in {"none", "device"}
  <2>1. pc'[h] = "live" BY <1>2, <1>8
  <2>2. Where(h)'
    BY <1>1, <1>2, <1>5, <2>1, Standing DEF Where, Between, Undoing, LinuxSteps
  <2>3. ASSUME h \notin spoilt PROVE Holds(h)'
    <3>1. held[h] = {} /\ sock_fd[h] = NULL BY <1>7, <1>8, <2>3 DEF Active, Nothing
    <3>2. "live" \in WithFd \cap WithBuffer \cap Between BY DEF WithFd, WithBuffer, Between
    <3>3. Pointing(h)' BY <1>1, <1>2, <1>5, <2>1, <2>3, <3>1, <3>2 DEF Pointing, Untouched
    <3>4. Progress(h)' /\ Waiting(h)' BY <2>1, <3>2 DEF Progress, Waiting, LinuxSteps
    <3>5. Ending(h)' BY <1>2, <2>1, <3>1 DEF Ending
    <3> QED BY <1>1, <1>2, <3>3, <3>4, <3>5 DEF Holds
  <2>4. Distinct' /\ Debt(h)'
    <3>1. /\ Debt(h) /\ Distinct' /\ (Twice(h)' <=> Twice(h))
          /\ Listed(h)' <=> Listed(h)
      BY <1>2, ListStays
    <3>2. Listed(h) => Twice(h) BY <1>1, <1>8, <3>1 DEF Debt
    <3>3. "live" \notin Early BY DEF Early
    <3> QED BY <1>1, <1>2, <2>1, <3>1, <3>2, <3>3 DEF Debt, Succeeded
  <2> QED BY <1>2, <1>3, <1>4, <2>2, <2>3, <2>4 DEF Accounted, Claimed
<1>9. CASE p[h].ops \in {"linux", "mmap"}
  <2>1. pc'[h] \in {"restore", "destroy"} /\ (pc'[h] = "restore" <=> p[h].ops = "linux")
    BY <1>2, <1>9
  <2>2. p[h].source \in LinuxDevices /\ h \notin spoilt BY <1>6, <1>9, Standing
  <2>3. Active(h) /\ p[h].activated /\ sock_fd[h] = NULL BY <1>7, <1>9, <2>2
  <2>4. pc'[h] \in WithFd \cap WithBuffer \cap Undoing /\ pc'[h] \notin LinuxSteps \cup Between
    BY <2>1 DEF WithFd, WithBuffer, Undoing, LinuxSteps, Between
  <2>5. Where(h)'
    <3>1. pc'[h] \in StepsOf(p[h].source) BY <2>2, <2>4 DEF StepsOf, LinuxDevices
    <3> QED BY <1>1, <1>2, <2>1, <2>2, <2>4, <3>1, Standing DEF Where
  <2>6. Holds(h)'
    <3>1. Pointing(h)' BY <1>1, <1>2, <1>5, <2>2, <2>3, <2>4 DEF Pointing
    <3>2. Progress(h)' /\ Waiting(h)' BY <2>1, <2>4 DEF Progress, Waiting
    <3>3. Ending(h)' BY <1>2, <1>9, <2>1, <2>3 DEF Ending, Active
    <3> QED BY <1>1, <1>2, <3>1, <3>2, <3>3 DEF Holds
  <2>7. Distinct' /\ Debt(h)'
    <3>1. /\ Debt(h) /\ Distinct' /\ (Twice(h)' <=> Twice(h))
          /\ Listed(h)' <=> Listed(h)
      BY <1>2, ListStays
    <3>2. Succeeded(h) BY <1>1, <2>3 DEF Succeeded
    <3>3. ~Succeeded(h)' /\ pc'[h] \in MayList \ Early BY <2>1 DEF Succeeded, MayList, Early
    <3> QED BY <1>1, <1>2, <1>9, <2>1, <2>2, <3>1, <3>2, <3>3 DEF Debt
  <2> QED BY <1>3, <1>4, <2>5, <2>6, <2>7 DEF Accounted, Claimed
<1>10. CASE p[h].ops = "own"
  <2>1. pc'[h] = "cleanup" BY <1>2, <1>10
  <2>2. p[h].source \notin LinuxDevices BY <1>6, <1>10
  <2>3. Where(h)'
    BY <1>1, <1>2, <2>1, <2>2, Standing DEF Where, Between, Undoing, LinuxSteps
  <2>4. ASSUME h \notin spoilt PROVE Holds(h)'
    <3>1. Active(h) BY <1>7, <1>10, <2>4
    <3>2. "cleanup" \in WithFd \cap WithBuffer \cap WithSecond \cap Between
      BY DEF WithFd, WithBuffer, WithSecond, Between
    <3>3. Pointing(h)' BY <1>1, <1>2, <1>5, <2>1, <2>4, <3>2 DEF Pointing, Untouched
    <3>4. Progress(h)' /\ Waiting(h)' BY <2>1, <3>2 DEF Progress, Waiting, LinuxSteps
    <3>5. Ending(h)' BY <1>2, <1>10, <2>1, <3>1 DEF Ending, Active
    <3> QED BY <1>1, <1>2, <3>3, <3>4, <3>5 DEF Holds
  <2>5. Distinct' /\ Debt(h)'
    <3>1. /\ Debt(h) /\ Distinct' /\ (Twice(h)' <=> Twice(h))
          /\ Listed(h)' <=> Listed(h)
      BY <1>2, ListStays
    <3>2. "cleanup" \in MayList \ Early BY DEF MayList, Early
    <3> QED BY <1>1, <1>2, <2>1, <2>2, <3>1, <3>2 DEF Debt, Succeeded
  <2> QED BY <1>2, <1>3, <1>4, <2>3, <2>4, <2>5 DEF Accounted, Claimed
<1> QED BY <1>6, <1>8, <1>9, <1>10

(* Where the activation of a device begins nothing is held yet. *)
Beginning(source) ==
  CASE source \in {"en0", "ath0"} -> "bpf"
    [] source \in {"nflog", "nfqueue"} -> "netfilter"
    [] OTHER -> source

(* Nothing is held at the first step of an activation. *)
LEMMA Beginnings ==
  \A source \in Drivers :
    /\ DevicePlace(Beginning(source)) /\ Bare(Beginning(source))
    /\ Beginning(source) \in StepsOf(source)
<1> SUFFICES ASSUME NEW source \in Drivers
             PROVE  /\ DevicePlace(Beginning(source)) /\ Bare(Beginning(source))
                    /\ Beginning(source) \in StepsOf(source)
  OBVIOUS
<1>1. DevicePlace(Beginning(source))
  BY DEF Beginning, Drivers, DevicePlace, Between, Undoing, LinuxSteps
<1>2. Beginning(source) \notin WithFd \cup WithSecond \cup WithBuffer
  BY DEF Beginning, Drivers, WithFd, WithSecond, WithBuffer
<1>3. Holding(Beginning(source)) = {} /\ MayHold(Beginning(source)) = {}
  BY DEF Beginning, Drivers, Holding, MayHold
<1>4. Beginning(source) \in StepsOf(source) BY DEF Beginning, Drivers, StepsOf
<1> QED BY <1>1, <1>2, <1>3, <1>4 DEF Bare

(* pcap_activate() on a device that is not a Linux interface. *)
LEMMA DeviceStartAccounts ==
  ASSUME NEW h \in Handles, Ready(h), Keeps(h), DeviceStart(h)
  PROVE  Accounted(h)
<1> DEFINE y == Beginning(p[h].source)
<1>1. pc[h] = "start" /\ state[h] = "open" /\ p[h].source \notin LinuxDevices
  BY Standing DEF DeviceStart, Where
<1>2. p[h].source \in Drivers
  BY <1>1, DevicesAssumption DEF Ready, Basic
<1>3. /\ DevicePlace(y) /\ Bare(y) /\ y \in StepsOf(p[h].source) BY <1>2, Beginnings
<1>4. /\ y \notin Between \cup Undoing \cup LinuxSteps \cup {"dag.fail"}
      /\ "start" \notin Undoing \cup LinuxSteps \cup MayList
  BY <1>3 DEF DevicePlace, Undoing, LinuxSteps, MayList
<1>5. pc'[h] = y /\ p'[h] = p[h] /\ UNCHANGED <<inert, status, sock_fd, sockets, errors, devices>>
  <2>1. y = CASE p[h].source \in {"en0", "ath0"} -> "bpf"
              [] p[h].source \in {"nflog", "nfqueue"} -> "netfilter"
              [] OTHER -> p[h].source
    BY DEF Beginning
  <2> HIDE DEF y
  <2>2. pc'[h] = y BY <1>1, <2>1, Standing DEF DeviceStart, Pass, Proceed, Goto
  <2>3. /\ p' = [p EXCEPT ![h] = p[h]]
        /\ UNCHANGED <<inert, status, sock_fd, sockets, errors, devices>>
    BY DEF DeviceStart, Pass, Proceed
  <2> QED BY <2>2, <2>3, Standing
<1> HIDE DEF y
<1>6. /\ state' = state /\ priv' = priv /\ call' = call /\ pcaps_to_close' = pcaps_to_close
      /\ held' = held /\ lost' = lost /\ spoilt' = spoilt /\ ringless' = ringless
  BY <1>5 DEF inert, devices, marks
<1>7. Apart(h) BY <1>5, <1>6, Standing DEF Apart, Listed
<1>8. Where(h)' BY <1>1, <1>3, <1>4, <1>5, <1>6, Standing DEF Where, Between
<1>9. ASSUME h \notin spoilt PROVE Holds(h)'
  <2>1. Pointing(h) /\ Nothing(h) BY <1>1, <1>9, Standing DEF Holds, Waiting
  <2>2. sock_fd[h] = NULL BY <1>1, <2>1 DEF Pointing, WithSecond
  <2>3. Pointing(h)' BY <1>1, <1>5, <1>6, <2>1, <2>2 DEF Pointing, Nothing, Untouched
  <2>4. Progress(h)' BY <1>3, <1>4, <1>5, <1>6, <2>1 DEF Progress, Nothing, Bare
  <2>5. Waiting(h)' /\ Ending(h)' BY <1>4, <1>5 DEF Waiting, Ending, Between, Undoing
  <2> QED BY <1>1, <1>6, <2>3, <2>4, <2>5 DEF Holds
<1>10. Distinct' /\ Debt(h)'
  <2>1. /\ Debt(h) /\ Distinct' /\ (Twice(h)' <=> Twice(h))
        /\ Listed(h)' <=> Listed(h)
    BY <1>6, ListStays
  <2>2. ~Listed(h) BY <1>1, <1>4, <2>1 DEF Debt, Twice
  <2>3. ~Succeeded(h)' /\ pc'[h] \notin {"restore", "release"}
    BY <1>4, <1>5 DEF Succeeded, Between, Undoing
  <2> QED BY <1>1, <1>5, <1>6, <2>1, <2>2, <2>3 DEF Debt
<1>11. Trade(h) BY <1>5, <1>6, Same
<1> QED BY <1>6, <1>7, <1>8, <1>9, <1>10, <1>11 DEF Accounted, Claimed

(* A descriptor that is lost as soon as it is open. *)
LEMMA OpensLost ==
  ASSUME NEW h \in Handles, Ready(h), Keeps(h), NEW d \in Sockets, Opened(h, d),
         lost' = lost \cup {d}, state' = state, p' = p, sock_fd' = sock_fd, errors' = errors
  PROVE  Trade(h)
<1>1. spoilt \subseteq spoilt' BY DEF Keeps, Others
<1>2. /\ sockets' = [sockets EXCEPT ![d] = h] /\ sockets[d] = NULL
      /\ sockets \in [Sockets -> Handles \cup {NULL}]
  BY DEF Opened, Free, Ready
<1>3. \A s \in Sockets : sockets'[s] = IF s = d THEN h ELSE sockets[s] BY <1>2
<1>4. Opener(h)' BY <1>1, <1>3 DEF Ready, Opener
<1>5. spoilt' = {} => Owner(h)'
  <2> SUFFICES ASSUME spoilt' = {} PROVE Owner(h)' OBVIOUS
  <2>1. Owner(h) BY <1>1 DEF Ready
  <2> QED BY <1>3, <2>1 DEF Owner, Ready
<1> QED BY <1>2, <1>3, <1>4, <1>5 DEF Trade

(* FreeBSD: monitor mode, through a socket that stays open. *)
LEMMA monitor_modeStep ==
  ASSUME NEW h \in Handles, Ready(h), Keeps(h), monitor_mode(h)
  PROVE  Accounted(h)
<1>1. pc[h] = "bpf.monitor" /\ ~Apple(h) /\ Device("bpf.monitor") /\ Covered("bpf.monitor")
  BY BpfCourse DEF monitor_mode
<1>2. CASE Pass(h, "bpf.list") BY <1>1, <1>2, BpfCourse, Passing
<1>3. ASSUME NEW e \in {PCAP_ERROR, PCAP_ERROR_RFMON_NOTSUP, PCAP_ERROR_NO_SUCH_DEVICE},
             Abort(h, e)
      PROVE  Accounted(h)
  BY <1>1, <1>3, Parting DEF PCAP_ERROR, PCAP_ERROR_RFMON_NOTSUP, PCAP_ERROR_NO_SUCH_DEVICE
<1>4. ASSUME NEW s \in Sockets, Opened(h, s), lost' = lost \cup {s},
             \/ UNCHANGED <<iface, priv, pcaps_to_close>>
             \/ MustDo(h, "rfmon"),
             Goto(h, "bpf.best"),
             UNCHANGED <<state, p, call, sock_fd, status, oldflags, blocks, client, marks, exiting,
                         errors, held, spoilt>>
      PROVE  Accounted(h)
  <2>1. Leads("bpf.monitor", "bpf.best") /\ "bpf.best" \notin {"idle", "probe", "return", "restore", "release"}
        /\ Holding("bpf.best") = Holding("bpf.monitor") /\ MayHold("bpf.best") = MayHold("bpf.monitor")
        /\ "bpf.monitor" \notin MayList /\ "bpf.best" \in MayList
    BY DEF Leads, DevicePlace, Between, Undoing, LinuxSteps, StepsOf, WithFd, WithSecond,
       WithBuffer, MayList, MayHold, Holding
  <2>2. pc'[h] = "bpf.best" BY <1>4, Standing DEF Goto
  <2>3. Trade(h) BY <1>4, OpensLost
  <2>4. Beside(h) BY <1>4, Standing DEF Beside
  <2>5. status[h] >= 0 BY <1>1, Carried
  <2>6. h \notin spoilt =>
          /\ p[h].fd # NULL => "bpf.best" \in WithFd
          /\ sock_fd[h] # NULL => "bpf.best" \in WithSecond
          /\ p[h].buffer \in {"null", "live"} /\ (p[h].buffer = "live" => "bpf.best" \in WithBuffer)
          /\ p[h].source = "canusb" => p[h].buffer = "null"
          /\ held[h] \ MayHold("bpf.best") = Holding("bpf.best")
    BY <1>1, <2>1, Carried DEF Leads
  <2>7. CASE UNCHANGED <<iface, priv, pcaps_to_close>>
    <3>1. UNCHANGED inert BY <1>4, <2>7 DEF inert
    <3>2. Apart(h) /\ Claimed(h)
      BY <1>1, <1>4, <2>1, <2>2, <2>4, <2>5, <2>6, <3>1, Onward
    <3> QED BY <2>3, <3>2 DEF Accounted
  <2>8. CASE MustDo(h, "rfmon")
    <3>1. state[h] = "open" /\ p[h].source \notin LinuxDevices BY <1>1, Carried
    <3>2. /\ priv'[h].must_do_on_close = priv[h].must_do_on_close \cup {"rfmon"}
          /\ priv'[h].device = priv[h].device /\ priv'[h].mmapbuf = priv[h].mmapbuf
          /\ priv'[h].oneshot_buffer = priv[h].oneshot_buffer
          /\ pcaps_to_close' = <<h>> \o pcaps_to_close /\ pcaps_to_close \in Seq(Handles)
      BY <2>8, Standing DEF MustDo, PrivFields
    <3>3. pc[h] \in StepsOf(p[h].source) BY <1>1, Carried
    <3>4. p[h].source = "ath0"
      BY <1>1, <3>3 DEF Apple, StepsOf, LinuxSteps, Undoing
    <3>5. Apart(h) /\ Distinct' /\ Listed(h)'
      <4>1. Distinct /\ ~Listed(h) /\ ~Twice(h)
        BY <1>1, <2>1, <3>1, Standing DEF Debt, Twice
      <4>3. \A g \in Handles : Twice(g) => Twice(g)' BY <4>1 DEF Keeps, Others, Twice
      <4>2. /\ Listed(h)' /\ \A g \in Handles \ {h} : Listed(g)' <=> Listed(g)
            /\ Distinct'
        BY <3>2, <4>1, <4>3, Adding
      <4> QED BY <1>4, <2>4, <4>2 DEF Apart, Beside, marks
    <3>6. "bpf.best" \notin Between \cup Undoing \cup LinuxSteps /\ "bpf.best" \in StepsOf("ath0")
      BY DEF Between, Undoing, LinuxSteps, StepsOf
    <3>7. Where(h)'
      BY <1>4, <2>2, <2>5, <3>1, <3>4, <3>6, Standing DEF Where, Undoing, Between
    <3>8. ASSUME h \notin spoilt PROVE Holds(h)'
      <4>1. Pointing(h) BY <1>1, <3>8, InDevice
      <4>2. Pointing(h)' BY <1>4, <2>2, <2>6, <3>1, <3>2, <3>8, <4>1 DEF Pointing, Untouched
      <4>3. Progress(h)' BY <1>4, <2>2, <2>6, <3>6, <3>8 DEF Progress
      <4>4. Waiting(h)' /\ Ending(h)' BY <2>2 DEF Waiting, Ending
      <4> QED BY <1>4, <3>1, <4>2, <4>3, <4>4 DEF Holds
    <3>9. Debt(h)'
      <4>1. Debt(h) /\ "bpf.best" \notin Early BY Standing DEF Early
      <4> QED
       BY <4>1, <1>4, <2>1, <2>2, <3>1, <3>2, <3>4, <3>5 DEF Debt, Twice, Indebted, Succeeded,
         LinuxDevices
    <3> QED BY <1>4, <2>3, <3>5, <3>7, <3>8, <3>9 DEF Accounted, Claimed
  <2> QED BY <1>4, <2>7, <2>8
<1> QED BY <1>1, <1>2, <1>3, <1>4 DEF monitor_mode

-----------------------------------------------------------------------------
(* The clean-up functions of the devices. *)

(* What a clean-up function leaves of what is to be undone: nothing, because
   there was nothing or because it takes the handle off the list. *)
Settled(h) ==
  \/ UNCHANGED <<priv, pcaps_to_close>> /\ p[h].source \notin Indebted
  \/ /\ priv' = [priv EXCEPT ![h].must_do_on_close = {}]
     /\ pcaps_to_close' = pcap_remove_from_pcaps_to_close(h)
     /\ p[h].source \notin LinuxDevices

(* And then nothing is left to be undone. *)
LEMMA SettledOwesNothing ==
  ASSUME NEW h \in Handles, Ready(h), Settled(h)
  PROVE  /\ priv'[h].device = priv[h].device /\ priv'[h].mmapbuf = priv[h].mmapbuf
         /\ priv'[h].oneshot_buffer = priv[h].oneshot_buffer
         /\ priv'[h].must_do_on_close = {} /\ ~Listed(h)' /\ Distinct'
         /\ \A g \in Handles \ {h} : Listed(g)' <=> Listed(g)
<1>1. CASE UNCHANGED <<priv, pcaps_to_close>> /\ p[h].source \notin Indebted
  <2>1. Distinct /\ priv[h].must_do_on_close = {} /\ ~Listed(h)
    BY <1>1, Standing DEF Debt
  <2> QED BY <1>1, <2>1 DEF Listed, Distinct, Twice
<1>2. CASE /\ priv' = [priv EXCEPT ![h].must_do_on_close = {}]
           /\ pcaps_to_close' = pcap_remove_from_pcaps_to_close(h)
           /\ p[h].source \notin LinuxDevices
  <2>1. /\ priv'[h].device = priv[h].device /\ priv'[h].mmapbuf = priv[h].mmapbuf
        /\ priv'[h].oneshot_buffer = priv[h].oneshot_buffer
        /\ priv'[h].must_do_on_close = {}
    BY <1>2, Standing DEF PrivFields
  <2>2. Distinct /\ ~Twice(h) BY <1>2, Standing DEF Debt, Twice
  <2>3. \A g \in Handles : Twice(g) => Twice(g)'
    <3>1. \A g \in Handles \ {h} : priv'[g] = priv[g] BY <1>2, Standing
    <3> QED BY <2>2, <3>1 DEF Twice
  <2> QED BY <1>2, <2>1, <2>2, <2>3, Standing, Removing
<1> QED BY <1>1, <1>2 DEF Settled

(* A handle that is closed holds nothing, nor one whose activation failed. *)
LEMMA Emptied ==
  ASSUME NEW h \in Handles, Ready(h), pc[h] = "cleanup", Settled(h),
         UNCHANGED <<call, status>>, spoilt \subseteq spoilt', spoilt' \subseteq spoilt \cup {h},
         lost \subseteq lost', UNCHANGED ringless, DOMAIN sock_fd' = Handles, DOMAIN held' = Handles,
         \A g \in Handles \ {h} : sock_fd'[g] = sock_fd[g] /\ held'[g] = held[g],
         p'[h].fd = NULL, sock_fd'[h] = NULL, h \notin spoilt => p'[h].buffer = "null",
         h \notin spoilt => held'[h] = {},
         p'[h].source = p[h].source, p'[h].ops = p[h].ops,
         \/ state'[h] = "closed" /\ pc'[h] = "idle"
         \/ state'[h] = state[h] /\ pc'[h] = "return" /\ call[h] # "close"
  PROVE  Apart(h) /\ Claimed(h)
<1>1. /\ state[h] = "open" /\ p[h].source \notin LinuxDevices
      /\ call[h] # "close" => status[h] < 0
  BY Standing DEF Where
<1>2. h \notin spoilt => Pointing(h) BY <1>1, Standing DEF Holds
<1>3. Apart(h) BY Standing, SettledOwesNothing DEF Apart
<1>4. Where(h)' BY <1>1, Standing DEF Where, Between, Undoing, LinuxSteps
<1>5. ASSUME h \notin spoilt' PROVE Holds(h)'
  <2>1. h \notin spoilt /\ Untouched(h) BY <1>1, <1>2, <1>5 DEF Pointing
  <2>2. Untouched(h)' BY <2>1, SettledOwesNothing DEF Untouched
  <2>3. CASE state'[h] = "closed" BY <2>1, <2>3 DEF Holds
  <2>4. CASE state'[h] = state[h] /\ pc'[h] = "return" /\ call[h] # "close"
    <3>1. Nothing(h)' BY <2>1, <2>2 DEF Nothing
    <3>2. Pointing(h)' BY <1>1, <1>2, <2>1, <2>2, SettledOwesNothing DEF Pointing
    <3>3. Progress(h)' /\ Ending(h)' BY <2>4 DEF Progress, Ending, Between, LinuxSteps
    <3>4. Waiting(h)' BY <1>1, <2>4, <3>1 DEF Waiting
    <3> QED BY <1>1, <2>4, <3>2, <3>3, <3>4 DEF Holds
  <2> QED BY <2>3, <2>4
<1>6. Distinct' /\ Debt(h)'
  <2>1. /\ priv'[h].must_do_on_close = {} /\ ~Listed(h)' /\ Distinct' BY SettledOwesNothing
  <2> QED BY <2>1 DEF Debt
<1> QED BY <1>3, <1>4, <1>5, <1>6 DEF Claimed

(* The resources of the device, both descriptors, and the buffer. *)
LEMMA CleanUpAccounts ==
  ASSUME NEW h \in Handles, Ready(h), Keeps(h), Settled(h), spoilt' \subseteq spoilt \cup {h},
         NEW sure \in BOOLEAN, CleanUp(h, Gives(p[h].source), sure), sure => p[h].source \in Sure
  PROVE  Accounted(h)
<1> DEFINE R == Gives(p[h].source)
<1>0. CleanUp(h, R, sure) OBVIOUS
<1> HIDE DEF R
<1>1. /\ pc[h] = "cleanup" /\ UNCHANGED <<call, status, lost, ringless>>
      /\ held'[h] = held[h] \ R /\ DOMAIN held' = Handles
      /\ DOMAIN sock_fd' = Handles /\ sock_fd'[h] = NULL
      /\ \A g \in Handles \ {h} : sock_fd'[g] = sock_fd[g] /\ held'[g] = held[g]
  BY <1>0, Standing DEF CleanUp, marks
<1>2. /\ p'[h].fd = NULL /\ p'[h].buffer = "null" /\ p'[h].source = p[h].source
      /\ p'[h].ops = p[h].ops
  <2>1. p' = [p EXCEPT ![h].buffer = "null", ![h].dlt_list = {}, ![h].fd = NULL]
    BY <1>0 DEF CleanUp
  <2> QED BY <2>1, Standing DEF Fields
<1>3. \/ state'[h] = "closed" /\ pc'[h] = "idle"
      \/ state'[h] = state[h] /\ pc'[h] = "return" /\ call[h] # "close"
  <2>1. IF call[h] = "close"
        THEN state' = [state EXCEPT ![h] = "closed"] /\ pc' = [pc EXCEPT ![h] = "idle"]
        ELSE pc' = [pc EXCEPT ![h] = "return"] /\ state' = state
    BY <1>0 DEF CleanUp, Gone, Goto
  <2> QED BY <2>1, Standing
<1>4. state[h] = "open" BY <1>1, Standing DEF Where
<1>5. h \notin spoilt => /\ held[h] \subseteq R /\ (sure => R \subseteq held[h])
                         /\ p[h].buffer \in {"null", "live"}
  BY <1>1, <1>4, Standing DEF Holds, Ending, Pointing, R
<1>6. spoilt \subseteq spoilt' BY DEF Keeps, Others
<1>7. Apart(h) /\ Claimed(h)
  <2>1. h \notin spoilt => held'[h] = {} BY <1>1, <1>5
  <2> QED BY <1>1, <1>2, <1>3, <1>6, <2>1, Emptied
<1>8. ASSUME spoilt = {} PROVE errors' = errors
  <2>1. Owner(h) /\ h \notin spoilt BY <1>8, Standing
  <2>2. Dealloc(p[h].buffer) = {} BY <1>5, <2>1 DEF Dealloc
  <2>3. CloseError(h, p[h].fd) = {} /\ CloseError(h, sock_fd[h]) = {}
    BY <2>1 DEF CloseError, Owner
  <2>4. ~(sure /\ ~(R \subseteq held[h])) BY <1>5, <2>1
  <2>5. errors' = errors \cup LiveErrors(h) \cup CloseError(h, sock_fd[h])
                    \cup (IF sure /\ ~(R \subseteq held[h]) THEN {"double free"} ELSE {})
    BY <1>0 DEF CleanUp
  <2> QED BY <2>2, <2>3, <2>4, <2>5 DEF LiveErrors
<1>9. Trade(h)
  <2> DEFINE C == {p[h].fd, sock_fd[h]}
  <2>1. sockets' = [s \in Sockets |-> IF s \in C THEN NULL ELSE sockets[s]]
    BY <1>0 DEF CleanUp
  <2>2. {p'[h].fd, sock_fd'[h]} = {NULL} /\ C \ (C \cup {NULL}) = {} BY <1>1, <1>2
  <2> HIDE DEF C
  <2>3. C = {p[h].fd, sock_fd[h]} BY DEF C
  <2> QED BY <1>1, <1>6, <1>8, <2>1, <2>2, <2>3, Closes
<1> QED BY <1>7, <1>9 DEF Accounted

(* The worker, the adapter and the context; both ends of the pipe are lost. *)
LEMMA canusb_closeAccounts ==
  ASSUME NEW h \in Handles, Ready(h), Keeps(h), canusb_close(h)
  PROVE  Accounted(h)
<1>1. pc[h] = "cleanup" /\ p[h].source = "canusb" BY DEF canusb_close
<1>2. /\ UNCHANGED <<priv, call, status, pcaps_to_close, sockets, errors, spoilt, ringless>>
      /\ held'[h] = held[h] \ {"worker", "device", "context"} /\ DOMAIN held' = Handles
      /\ DOMAIN sock_fd' = Handles /\ sock_fd'[h] = NULL
      /\ \A g \in Handles \ {h} : sock_fd'[g] = sock_fd[g] /\ held'[g] = held[g]
      /\ lost' = lost \cup ({p[h].fd, sock_fd[h]} \ {NULL})
      /\ state'[h] = "closed" /\ pc'[h] = "idle"
  BY Standing DEF canusb_close, Gone, Goto, marks
<1>3. /\ p'[h].fd = NULL /\ p'[h].buffer = p[h].buffer /\ p'[h].source = p[h].source
      /\ p'[h].ops = p[h].ops
  BY Standing DEF canusb_close, Fields
<1>4. state[h] = "open" BY <1>1, Standing DEF Where
<1>5. h \notin spoilt => held'[h] = {} /\ p[h].buffer = "null"
  BY <1>1, <1>2, <1>4, Standing DEF Holds, Ending, Pointing, Gives
<1>6. Settled(h) BY <1>1, <1>2 DEF Settled, Indebted
<1>7. Apart(h) /\ Claimed(h) BY <1>1, <1>2, <1>3, <1>5, <1>6, Emptied
<1>8. Trade(h)
  <2>1. NULL \notin Sockets BY ActivationAssumption, HandlesAssumption DEF NULL
  <2>2. Opener(h)' BY <1>2, <2>1 DEF Ready, Opener
  <2>3. Owner(h)' BY <1>2, <1>3 DEF Owner
  <2> QED BY <1>2, <2>2, <2>3, Standing DEF Trade
<1> QED BY <1>7, <1>8 DEF Accounted

(* The clean-up function of a device gives back what the device holds. *)
LEMMA CleaningUpAccounts ==
  ASSUME NEW h \in Handles, Ready(h), Keeps(h), CleaningUp(h)
  PROVE  Accounted(h)
<1>1. ASSUME NEW R, NEW sure \in BOOLEAN, CleanUp(h, R, sure), Elsewhere,
             R = Gives(p[h].source), sure => p[h].source \in Sure, p[h].source \notin Indebted
      PROVE  Accounted(h)
  <2>1. Settled(h) BY <1>1 DEF Elsewhere, Settled
  <2>2. spoilt' \subseteq spoilt \cup {h} BY <1>1 DEF Elsewhere
  <2> QED BY <1>1, <2>1, <2>2, CleanUpAccounts
<1>2. CASE usb_cleanup_linux_mmap(h)
  BY <1>1, <1>2 DEF usb_cleanup_linux_mmap, Gives, Indebted
<1>3. CASE dbus_cleanup(h) BY <1>1, <1>3 DEF dbus_cleanup, Gives, Sure, Indebted
<1>4. CASE pcap_cleanup_win32(h) BY <1>1, <1>4 DEF pcap_cleanup_win32, Gives, Indebted
<1>5. CASE pcap_cleanup_libdlpi(h) BY <1>1, <1>5 DEF pcap_cleanup_libdlpi, Gives, Indebted
<1>6. CASE pcap_cleanup_dlpi(h) BY <1>1, <1>6 DEF pcap_cleanup_dlpi, Gives, Indebted
<1>7. CASE dag_platform_cleanup(h)
  <2>1. p[h].source = "dag" /\ CleanUp(h, {"stream", "attached", "node"}, TRUE) /\ Elsewhere
    BY <1>7 DEF dag_platform_cleanup
  <2>2. Gives("dag") = {"stream", "attached", "node"} BY DEF Gives
  <2> QED BY <1>1, <2>1, <2>2 DEF Sure, Indebted
<1>8. CASE snf_platform_cleanup(h)
  BY <1>1, <1>8 DEF snf_platform_cleanup, Gives, Sure, Indebted
<1>9. CASE pcap_cleanup_bpf(h)
  <2>1. Settled(h) BY <1>9 DEF pcap_cleanup_bpf, Settled, LinuxDevices
  <2>2. spoilt' \subseteq spoilt \cup {h} BY <1>9 DEF pcap_cleanup_bpf
  <2>3. Gives(p[h].source) = {"device", "zbuf"} BY <1>9 DEF pcap_cleanup_bpf, Gives
  <2>4. CleanUp(h, {"device", "zbuf"}, FALSE) BY <1>9 DEF pcap_cleanup_bpf
  <2> QED BY <2>1, <2>2, <2>3, <2>4, CleanUpAccounts
<1> QED
  BY <1>2, <1>3, <1>4, <1>5, <1>6, <1>7, <1>8, <1>9, canusb_closeAccounts DEF CleaningUp

-----------------------------------------------------------------------------
(* The calls of a client. *)

(* What is said here of a handle stays as it is. *)
Unaffected(h) ==
  /\ UNCHANGED <<state, call, sock_fd, status, held, ringless, pcaps_to_close, errors>>
  /\ pc'[h] = pc[h] /\ spoilt' \subseteq spoilt \cup {h} /\ lost \subseteq lost'
  /\ p'[h].source = p[h].source /\ p'[h].ops = p[h].ops /\ p'[h].activated = p[h].activated
  /\ p'[h].fd = p[h].fd /\ p'[h].buffer = p[h].buffer
  /\ priv'[h].device = priv[h].device /\ priv'[h].mmapbuf = priv[h].mmapbuf
  /\ priv'[h].oneshot_buffer = priv[h].oneshot_buffer
  /\ priv'[h].must_do_on_close = priv[h].must_do_on_close

(* What a handle holds is still true when none of it is touched. *)
LEMMA UnaffectedClaims ==
  ASSUME NEW h \in Handles, Ready(h), Keeps(h), Unaffected(h),
         h \in spoilt' => h \in spoilt \/ (state[h] = "open" /\ p[h].source \notin LinuxDevices)
  PROVE  Apart(h) /\ Claimed(h)
<1>1. spoilt \subseteq spoilt' BY DEF Keeps, Others
<1>2. Apart(h) BY Standing DEF Apart, Unaffected, Listed
<1>3. Where(h)' BY Standing DEF Where, Unaffected
<1>4. h \notin spoilt' => Holds(h)'
  <2> SUFFICES ASSUME h \notin spoilt' PROVE Holds(h)' OBVIOUS
  <2>1. Holds(h) BY <1>1, Standing
  <2>2. Untouched(h)' <=> Untouched(h) BY DEF Untouched, Unaffected
  <2>3. Pointing(h) => Pointing(h)' BY <2>2 DEF Pointing, Unaffected
  <2>4. Progress(h) => Progress(h)' BY DEF Progress, Unaffected
  <2>5. Waiting(h) => Waiting(h)' BY <1>1, <2>2 DEF Waiting, Unaffected, Active, Nothing
  <2>6. Ending(h) => Ending(h)' BY DEF Ending, Unaffected
  <2> QED BY <2>1, <2>2, <2>3, <2>4, <2>5, <2>6 DEF Holds, Unaffected
<1>5. Distinct' /\ Debt(h)'
  <2>1. /\ Debt(h) /\ Distinct' /\ (Twice(h)' <=> Twice(h))
        /\ Listed(h)' <=> Listed(h)
    BY ListStays DEF Unaffected
  <2>2. Succeeded(h)' <=> Succeeded(h) BY DEF Succeeded, Unaffected
  <2> QED BY <2>1, <2>2 DEF Debt, Unaffected
<1> QED BY <1>2, <1>3, <1>4, <1>5 DEF Claimed

(* The same, when no descriptor is opened or closed either. *)
LEMMA UnaffectedAccounts ==
  ASSUME NEW h \in Handles, Ready(h), Keeps(h), Unaffected(h), UNCHANGED sockets,
         h \in spoilt' => h \in spoilt \/ (state[h] = "open" /\ p[h].source \notin LinuxDevices)
  PROVE  Accounted(h)
<1>1. Trade(h) BY Same DEF Unaffected
<1> QED BY <1>1, UnaffectedClaims DEF Accounted

(* A setter, and what asks for or sets a mode. *)
LEMMA SettersAccount ==
  ASSUME NEW h \in Handles, Ready(h), Keeps(h)
  PROVE  /\ \A option \in Options : \A v : Set(h, option, v) => Accounted(h)
         /\ PcapSetDataLink(h) => Accounted(h)
         /\ PcapSetNonBlock(h) => Accounted(h)
         /\ getSnapshotLength(h) => Accounted(h)
         /\ getDataLinkType(h) => Accounted(h)
         /\ pcap_setnonblock_win32(h) => Accounted(h)
         /\ snf_setnonblock(h) => Accounted(h)
         /\ dag_setnonblock(h) => Accounted(h)
<1>1. ASSUME NEW option \in Options, NEW v, Set(h, option, v) PROVE Accounted(h)
  <2>1. p'[h] = [p[h] EXCEPT ![option] = v] BY <1>1, Standing DEF Set
  <2>2. option \notin {"source", "ops", "activated", "fd", "buffer"} BY DEF Options
  <2>3. /\ p'[h].source = p[h].source /\ p'[h].ops = p[h].ops
        /\ p'[h].activated = p[h].activated /\ p'[h].fd = p[h].fd /\ p'[h].buffer = p[h].buffer
    BY <2>1, <2>2, Standing DEF Fields
  <2>4. Unaffected(h) /\ UNCHANGED <<sockets, spoilt>>
    BY <1>1, <2>3 DEF Set, Unaffected, local, aside, devices, marks
  <2> QED BY <2>4, UnaffectedAccounts
<1>2. ASSUME PcapSetDataLink(h) PROVE Accounted(h)
  <2>1. PICK dlt : p' = [p EXCEPT ![h].linktype = dlt] BY <1>2 DEF PcapSetDataLink
  <2>2. /\ p'[h].source = p[h].source /\ p'[h].ops = p[h].ops
        /\ p'[h].activated = p[h].activated /\ p'[h].fd = p[h].fd /\ p'[h].buffer = p[h].buffer
    BY <2>1, Standing DEF Fields
  <2>3. Unaffected(h) /\ UNCHANGED <<sockets, spoilt>>
    BY <1>2, <2>2 DEF PcapSetDataLink, Unaffected, local, aside, devices, marks
  <2> QED BY <2>3, UnaffectedAccounts
<1>3. ASSUME NEW b, p' = [p EXCEPT ![h].nonblock = b],
             \/ UNCHANGED priv
             \/ \E t : priv' = [priv EXCEPT ![h].timeout = t],
             UNCHANGED <<state, pc, local, sockets, pcaps_to_close, errors, held, lost, marks>>,
             spoilt' \in {spoilt, spoilt \cup {h}}, state[h] = "open",
             spoilt' = spoilt \/ p[h].source \notin LinuxDevices
      PROVE  Accounted(h)
  <2>1. /\ p'[h].source = p[h].source /\ p'[h].ops = p[h].ops
        /\ p'[h].activated = p[h].activated /\ p'[h].fd = p[h].fd /\ p'[h].buffer = p[h].buffer
    BY <1>3, Standing DEF Fields
  <2>2. /\ priv'[h].device = priv[h].device /\ priv'[h].mmapbuf = priv[h].mmapbuf
        /\ priv'[h].oneshot_buffer = priv[h].oneshot_buffer
        /\ priv'[h].must_do_on_close = priv[h].must_do_on_close
    BY <1>3, Standing DEF PrivFields
  <2>3. Unaffected(h) BY <1>3, <2>1, <2>2 DEF Unaffected, local, marks
  <2> QED BY <1>3, <2>3, UnaffectedAccounts
<1>4. ASSUME PcapSetNonBlock(h) PROVE Accounted(h)
  <2>1. PICK b \in BOOLEAN :
          /\ p' = [p EXCEPT ![h].nonblock = b]
          /\ priv' = IF p[h].ops = "mmap" /\ b # (priv[h].timeout < 0)
                     THEN [priv EXCEPT ![h].timeout = Complement(@)] ELSE priv
    BY <1>4 DEF PcapSetNonBlock
  <2>2. \/ UNCHANGED priv
        \/ \E t : priv' = [priv EXCEPT ![h].timeout = t]
    BY <2>1
  <2>3. /\ UNCHANGED <<state, pc, local, sockets, pcaps_to_close, errors, held, lost, spoilt,
                       marks>>
        /\ state[h] = "open"
    BY <1>4 DEF PcapSetNonBlock, devices, Idle
  <2> QED BY <1>3, <2>1, <2>2, <2>3
<1>5. ASSUME getSnapshotLength(h) \/ getDataLinkType(h) PROVE Accounted(h)
  <2>1. Unaffected(h) /\ UNCHANGED <<sockets, spoilt>>
    BY <1>5 DEF getSnapshotLength, getDataLinkType, Unaffected, local, devices, marks
  <2> QED BY <2>1, UnaffectedAccounts
<1>6. ASSUME pcap_setnonblock_win32(h) PROVE Accounted(h)
  <2>1. PICK b : p' = [p EXCEPT ![h].nonblock = b] BY <1>6 DEF pcap_setnonblock_win32
  <2>2. /\ UNCHANGED <<state, priv, pc, local, sockets, pcaps_to_close, errors, held, lost, spoilt,
                       marks>>
        /\ state[h] = "open"
    BY <1>6 DEF pcap_setnonblock_win32, devices, Idle
  <2> QED BY <1>3, <2>1, <2>2
<1>7. ASSUME snf_setnonblock(h) PROVE Accounted(h)
  <2>1. PICK b : p' = [p EXCEPT ![h].nonblock = b] BY <1>7 DEF snf_setnonblock
  <2>2. /\ UNCHANGED <<state, priv, pc, local, sockets, pcaps_to_close, errors, held, lost, spoilt,
                       marks>>
        /\ state[h] = "open"
    BY <1>7 DEF snf_setnonblock, devices, Idle
  <2> QED BY <1>3, <2>1, <2>2
<1>8. ASSUME dag_setnonblock(h) PROVE Accounted(h)
  <2>1. PICK b : p' = [p EXCEPT ![h].nonblock = b] BY <1>8 DEF dag_setnonblock
  <2>2. /\ UNCHANGED <<state, priv, pc, local, sockets, pcaps_to_close, errors, held, lost, marks>>
        /\ spoilt' = spoilt \cup {h} /\ state[h] = "open" /\ p[h].source \notin LinuxDevices
    BY <1>8 DEF dag_setnonblock, inert, local, Idle, LinuxDevices
  <2> QED BY <1>3, <2>1, <2>2
<1> QED BY <1>1, <1>2, <1>4, <1>5, <1>6, <1>7, <1>8

(* A handle is created: nothing is known of it before. *)
LEMMA CreatedAccounts ==
  ASSUME NEW h \in Handles, Ready(h), Keeps(h), state[h] = "none", state'[h] = "open",
         pc'[h] \in {"idle", "start"}, NEW dev,
         p'[h].source = dev, p'[h].ops = "none", ~p'[h].activated, p'[h].fd = NULL,
         p'[h].buffer = "null",
         UNCHANGED <<priv, sock_fd, status, sockets, held, lost, spoilt, ringless, pcaps_to_close,
                     errors>>
  PROVE  Accounted(h)
<1>1. h \notin spoilt /\ status[h] >= 0 BY Standing DEF Where
<1>2. sock_fd[h] = NULL /\ held[h] = {} /\ Untouched(h) BY <1>1, Standing DEF Holds
<1>3. NULL \in Sockets \cup {NULL} OBVIOUS
<1>4. Apart(h) BY <1>3, Standing DEF Apart, Listed
<1>5. "idle" \in Between /\ "start" \in Between BY DEF Between
<1>6. Where(h)' BY <1>1, <1>5 DEF Where, Undoing, LinuxSteps
<1>7. Holds(h)'
  <2>1. Untouched(h)' /\ Nothing(h)' BY <1>2 DEF Untouched, Nothing
  <2>2. Pointing(h)' BY <1>2, <2>1 DEF Pointing, Untouched
  <2>3. Progress(h)' BY <1>5 DEF Progress, LinuxSteps
  <2>4. Waiting(h)' /\ Ending(h)' BY <1>2, <2>1 DEF Waiting, Ending
  <2> QED BY <2>2, <2>3, <2>4 DEF Holds
<1>8. Distinct' /\ Debt(h)'
  <2>1. Distinct' /\ Debt(h) /\ (Listed(h)' <=> Listed(h)) BY ListStays
  <2>2. priv[h].must_do_on_close = {} /\ ~Listed(h) BY <2>1 DEF Debt
  <2> QED BY <2>1, <2>2 DEF Debt
<1>9. Trade(h)
  <2>1. Opener(h)' BY <1>1 DEF Ready, Opener
  <2>2. Owner(h)' BY <1>2 DEF Owner
  <2> QED BY <2>1, <2>2, Standing DEF Trade
<1> QED BY <1>4, <1>6, <1>7, <1>8, <1>9 DEF Accounted, Claimed

(* pcap_create and pcap_open_live. *)
LEMMA CreateAccounts ==
  ASSUME NEW h \in Handles, Ready(h), Keeps(h)
  PROVE  /\ PcapCreate(h) => Accounted(h)
         /\ PcapOpenLive(h) => Accounted(h)
<1>1. state[h] = "none" => pc[h] = "idle" BY DEF Ready, Basic
<1>2. ASSUME PcapCreate(h) PROVE Accounted(h)
  <2>1. PICK dev \in Devices : p' = [p EXCEPT ![h] = NewPcap(dev)] BY <1>2 DEF PcapCreate
  <2>2. /\ p'[h].source = dev /\ p'[h].ops = "none" /\ ~p'[h].activated /\ p'[h].fd = NULL
        /\ p'[h].buffer = "null"
    BY <2>1, Standing DEF NewPcap
  <2>3. /\ state[h] = "none" /\ state'[h] = "open" /\ pc'[h] = "idle"
        /\ UNCHANGED <<priv, sock_fd, status, sockets, held, lost, spoilt, ringless,
                       pcaps_to_close, errors>>
    BY <1>1, <1>2, Standing DEF PcapCreate, local, aside, devices, marks
  <2> QED BY <2>2, <2>3, CreatedAccounts
<1>3. ASSUME PcapOpenLive(h) PROVE Accounted(h)
  <2>1. PICK dev \in Devices, len \in Snaplens, to \in Timeouts, pr \in BOOLEAN :
          p' = [p EXCEPT ![h] = [NewPcap(dev) EXCEPT !.snapshot = len, !.timeout = to,
                                                     !.promisc = pr]]
    BY <1>3 DEF PcapOpenLive
  <2>2. /\ p'[h].source = dev /\ p'[h].ops = "none" /\ ~p'[h].activated /\ p'[h].fd = NULL
        /\ p'[h].buffer = "null"
    BY <2>1, Standing DEF NewPcap
  <2>3. /\ state[h] = "none" /\ state'[h] = "open" /\ pc'[h] = "start"
        /\ UNCHANGED <<priv, sock_fd, status, sockets, held, lost, spoilt, ringless,
                       pcaps_to_close, errors>>
    BY <1>1, <1>3, Standing DEF PcapOpenLive, Goto, aside, devices, marks
  <2> QED BY <2>2, <2>3, CreatedAccounts
<1> QED BY <1>2, <1>3

(* What an open handle has between calls. *)
LEMMA AtIdle ==
  ASSUME NEW h \in Handles, Ready(h), Idle(h)
  PROVE  /\ state[h] = "open" /\ pc[h] = "idle" /\ status[h] >= 0
         /\ p[h].ops \in IF p[h].source \in LinuxDevices THEN {"none", "linux", "mmap"}
                                                         ELSE {"none", "device", "own"}
         /\ h \notin spoilt =>
              /\ Pointing(h)
              /\ IF p[h].activated THEN Active(h) ELSE Nothing(h) /\ p[h].ops = "none"
              /\ sock_fd[h] # NULL => p[h].ops = "own"
         /\ ~p[h].activated => (Listed(h) => Twice(h))
<1>1. state[h] = "open" /\ pc[h] = "idle" BY DEF Idle
<1>2. /\ status[h] >= 0
      /\ p[h].ops \in IF p[h].source \in LinuxDevices THEN {"none", "linux", "mmap"}
                                                      ELSE {"none", "device", "own"}
  BY <1>1, Standing DEF Where, Undoing
<1>3. h \notin spoilt => Pointing(h) /\ Waiting(h) BY <1>1, Standing DEF Holds
<1>4. ~p[h].activated => (Listed(h) => Twice(h))
  BY <1>1, Standing DEF Debt, Succeeded
<1> QED BY <1>1, <1>2, <1>3, <1>4 DEF Waiting

(* pcap_activate. *)
LEMMA ActivateAccounts ==
  ASSUME NEW h \in Handles, Ready(h), Keeps(h), PcapActivate(h)
  PROVE  Accounted(h)
<1>1. Idle(h) /\ ~p[h].activated BY DEF PcapActivate
<1>2. /\ UNCHANGED <<state, p, priv, sock_fd, status, sockets, held, lost, spoilt,
                     ringless, pcaps_to_close, errors>>
      /\ pc'[h] = "start"
  BY Standing DEF PcapActivate, Goto, aside, devices, marks
<1>3. state[h] = "open" /\ status[h] >= 0 BY <1>1, AtIdle
<1>4. Apart(h) BY <1>2, Standing DEF Apart, Listed
<1>5. "start" \in Between /\ "start" \notin Undoing \cup LinuxSteps
  BY DEF Between, Undoing, LinuxSteps
<1>6. Where(h)' BY <1>2, <1>3, <1>5, Standing DEF Where
<1>7. ASSUME h \notin spoilt PROVE Holds(h)'
  <2>1. Pointing(h) /\ Nothing(h) /\ sock_fd[h] = NULL BY <1>1, <1>7, AtIdle
  <2>2. Pointing(h)' BY <1>2, <2>1 DEF Pointing, Nothing, Untouched
  <2>3. Progress(h)' BY <1>2, <1>5 DEF Progress
  <2>4. Waiting(h)' /\ Ending(h)' BY <1>2, <2>1 DEF Waiting, Nothing, Untouched, Ending
  <2> QED BY <1>2, <1>3, <2>2, <2>3, <2>4 DEF Holds
<1>8. Distinct' /\ Debt(h)'
  <2>1. /\ Debt(h) /\ Distinct' /\ (Twice(h)' <=> Twice(h))
        /\ Listed(h)' <=> Listed(h)
    BY <1>2, ListStays
  <2>2. Listed(h) => Twice(h) BY <1>1, AtIdle
  <2>3. "start" \notin Early BY DEF Early
  <2> QED BY <1>2, <1>3, <2>1, <2>2, <2>3 DEF Debt, Succeeded
<1>9. Trade(h) BY <1>2, Same
<1> QED BY <1>2, <1>4, <1>6, <1>7, <1>8, <1>9 DEF Accounted, Claimed

(* pcap_can_set_rfmon_linux opens a socket beside the handle's descriptor. *)
LEMMA CanSetRfMonAccounts ==
  ASSUME NEW h \in Handles, Ready(h), Keeps(h), PcapCanSetRfMon(h)
  PROVE  Accounted(h)
<1>1. Idle(h) /\ p[h].source \in LinuxDevices BY DEF PcapCanSetRfMon
<1>2. h \notin spoilt BY <1>1, Standing
<1>3. state[h] = "open" /\ pc[h] = "idle" /\ status[h] >= 0 /\ sock_fd[h] = NULL
  BY <1>1, <1>2, AtIdle
<1>4. PICK s \in Sockets : Opened(h, s) /\ sock_fd' = [sock_fd EXCEPT ![h] = s]
  BY DEF PcapCanSetRfMon
<1>5. /\ UNCHANGED <<state, p, priv, call, status, held, lost, spoilt, ringless, pcaps_to_close,
                     errors>>
      /\ pc'[h] = "probe" /\ sock_fd'[h] = s /\ DOMAIN sock_fd' = Handles
      /\ \A g \in Handles \ {h} : sock_fd'[g] = sock_fd[g]
  BY <1>4, Standing DEF PcapCanSetRfMon, Goto, aside, devices, marks
<1>6. Apart(h) BY <1>5, Standing DEF Apart, Listed
<1>7. "probe" \in Between \cap WithFd \cap WithSecond \cap WithBuffer \cap MayList
      /\ "probe" \notin Undoing \cup LinuxSteps
  BY DEF Between, WithFd, WithSecond, WithBuffer, MayList, Undoing, LinuxSteps
<1>8. Where(h)' BY <1>2, <1>3, <1>5, <1>7, Standing DEF Where
<1>9. Holds(h)'
  <2>1. /\ Pointing(h)
        /\ IF p[h].activated THEN Active(h) ELSE Nothing(h) /\ p[h].ops = "none"
    BY <1>1, <1>2, AtIdle
  <2>2. Pointing(h)' BY <1>3, <1>5, <1>7, <2>1 DEF Pointing, Untouched
  <2>3. Progress(h)' /\ Ending(h)' BY <1>5, <1>7 DEF Progress, Ending
  <2>4. ASSUME spoilt = {} PROVE p[h].fd # s
    <3>1. p[h].fd # NULL => sockets[p[h].fd] = h BY <2>4, Standing DEF Owner
    <3>2. sockets[s] = NULL /\ NULL # h /\ s # NULL
      BY <1>4, ActivationAssumption, HandlesAssumption DEF Opened, Free, NULL
    <3> QED BY <3>1, <3>2
  <2>5. Waiting(h)' BY <1>5, <2>1, <2>4 DEF Waiting, Active, Nothing, Untouched
  <2> QED BY <1>3, <1>5, <2>2, <2>3, <2>5 DEF Holds
<1>10. Distinct' /\ Debt(h)'
  <2>1. /\ Debt(h) /\ Distinct' /\ (Twice(h)' <=> Twice(h))
        /\ Listed(h)' <=> Listed(h)
    BY <1>5, ListStays
  <2>2. Succeeded(h)' <=> Succeeded(h) BY <1>3, <1>5 DEF Succeeded
  <2>3. "probe" \notin Early BY DEF Early
  <2> QED BY <1>3, <1>5, <1>7, <2>1, <2>2, <2>3 DEF Debt
<1>11. Trade(h)
  <2>1. {p'[h].fd, sock_fd'[h]} \ {NULL} = ({p[h].fd, sock_fd[h]} \ {NULL}) \cup {s}
    <3>1. s # NULL BY ActivationAssumption DEF NULL
    <3> QED BY <1>3, <1>5, <3>1
  <2> QED BY <1>3, <1>4, <1>5, <2>1, Opens
<1> QED BY <1>2, <1>6, <1>8, <1>9, <1>10, <1>11 DEF Accounted, Claimed

(* The socket that asks FreeBSD for monitor mode stays open. *)
LEMMA CanSetRfMonBpfAccounts ==
  ASSUME NEW h \in Handles, Ready(h), Keeps(h), pcap_can_set_rfmon_bpf(h)
  PROVE  Accounted(h)
<1>1. PICK s \in Sockets : Opened(h, s) /\ lost' = lost \cup {s}
  BY DEF pcap_can_set_rfmon_bpf
<1>2. Unaffected(h) /\ UNCHANGED <<p, spoilt>>
  BY DEF pcap_can_set_rfmon_bpf, Unaffected, inert, marks
<1>3. Trade(h) BY <1>1, <1>2, OpensLost DEF Unaffected
<1> QED BY <1>2, <1>3, UnaffectedClaims DEF Accounted

-----------------------------------------------------------------------------
(* The accounts are kept. *)

(* No handle holds anything at first. *)
LEMMA AccountsAtFirst == Init => Accounts
<1> SUFFICES ASSUME Init PROVE Accounts OBVIOUS
<1>1. Invariant BY AtFirst
<1>2. /\ DOMAIN sock_fd = Handles /\ DOMAIN status = Handles /\ DOMAIN held = Handles
      /\ sockets = [s \in Sockets |-> NULL] /\ spoilt = {} /\ errors = {} /\ pcaps_to_close = <<>>
  BY DEF Init
<1>3. ASSUME NEW h \in Handles PROVE Ready(h)
  <2>1. /\ state[h] = "none" /\ pc[h] = "idle" /\ sock_fd[h] = NULL /\ status[h] = 0
        /\ held[h] = {} /\ p[h].fd = NULL /\ p[h].buffer = "null" /\ p[h].ops = "none"
    BY DEF Init, NewPcap
  <2>2. /\ priv[h].device = "null" /\ ~priv[h].mmapbuf /\ priv[h].oneshot_buffer = "null"
        /\ priv[h].must_do_on_close = {}
    BY DEF Init, NewPriv
  <2>3. Where(h) BY <1>2, <2>1 DEF Where
  <2>4. Holds(h) BY <2>1, <2>2 DEF Holds, Untouched
  <2>5. Distinct /\ ~Listed(h) BY <1>2 DEF Distinct, Twice, Listed
  <2>6. Debt(h) BY <2>1, <2>2, <2>5 DEF Debt, Twice
  <2>7. Owner(h) BY <2>1 DEF Owner
  <2>8. Opener(h) BY <1>2, HandlesAssumption DEF Opener
  <2>9. sockets \in [Sockets -> Handles \cup {NULL}] BY <1>2
  <2> QED
    BY <1>1, <1>2, <2>1, <2>3, <2>4, <2>5, <2>6, <2>7, <2>8, <2>9 DEF Ready, Invariant
<1>4. \A s \in Sockets : sockets[s] = NULL BY <1>2
<1>5. MemorySound BY <1>2 DEF MemorySound
<1> QED BY <1>1, <1>3, <1>4, <1>5 DEF Accounts

(* A step of one handle keeps what is said of it, *)
LEMMA RunningAccounts ==
  ASSUME Accounts, NEW h \in Handles, Running(h) \/ DeviceRunning(h)
  PROVE  Keeps(h) /\ Accounted(h)
<1>1. Ready(h) BY DEF Accounts
<1>2. Keeps(h) BY RunningKeeps DEF Accounts
<1>3. CASE Running(h)
  BY <1>1, <1>2, <1>3, StartAccounts, SocketAccounts, RfmonAccounts, DownAccounts,
     ModeAccounts,
     UpAccounts, ArpTypeAccounts, ReopenAccounts, BindAccounts, FinishAccounts, MmapAccounts,
     RingRetryAccounts, RingAccounts, MapAccounts, RcvBufAccounts, OldAccounts, OldBindAccounts,
     OldPromiscAccounts, RestoreAccounts, ReleaseAccounts, ActivateReturnsAccounts, LiveAccounts,
     DestroyAccounts, ProbeAccounts
  DEF Running
<1>4. CASE DeviceRunning(h)
  <2>1. CleaningUp(h) => Accounted(h) BY <1>1, <1>2, CleaningUpAccounts
  <2>2. DeviceStart(h) => Accounted(h) BY <1>1, <1>2, DeviceStartAccounts
  <2>3. /\ libdlpi_activate(h) => Accounted(h)
        /\ canusb_opendevice(h) => Accounted(h)
    BY <1>1, <1>2, libdlpi_activateStep, canusb_opendeviceStep
  <2>4. /\ canusb_startcapture(h) => Accounted(h)
        /\ get_dlpi_ppa(h) => Accounted(h)
        /\ monitor_mode(h) => Accounted(h)
    BY <1>1, <1>2, canusb_startcaptureStep, get_dlpi_ppaStep, monitor_modeStep
  <2> QED BY <1>1, <1>2, <1>4, <2>1, <2>2, <2>3, <2>4, DeviceSteps DEF DeviceRunning
<1> QED BY <1>2, <1>3, <1>4

(* The calls of a client: to create, set up, ask, activate and close. *)
LEMMA CallsAccount ==
  ASSUME Accounts, NEW h \in Handles, Calls(h) \/ Inquiries(h) \/ Inquired(h)
  PROVE  Keeps(h) /\ Accounted(h)
<1>1. Ready(h) /\ Shapes /\ Basic(h) BY DEF Accounts, Ready
<1>2. Keeps(h)
  <2>1. CASE Calls(h) BY <1>1, <2>1, OtherSteps DEF Calls, PcapClose
  <2>2. CASE Inquiries(h) BY <1>1, <2>2, OtherSteps DEF Inquiries
  <2>3. CASE Inquired(h) BY <1>1, <2>3, OtherSteps DEF Inquired
  <2> QED BY <2>1, <2>2, <2>3
<1>3. ASSUME NEW option \in Options, NEW v, Set(h, option, v) PROVE Accounted(h)
  BY <1>1, <1>2, <1>3, SettersAccount
<1>4. CASE Calls(h)
  <2>1. CASE PcapCreate(h) \/ PcapOpenLive(h) BY <1>1, <1>2, <2>1, CreateAccounts
  <2>2. CASE PcapActivate(h) BY <1>1, <1>2, <2>2, ActivateAccounts
  <2>3. CASE PcapClose(h)
    <3>1. Close(h) /\ UNCHANGED devices BY <2>3 DEF PcapClose, Close, aside
    <3> QED BY <1>1, <1>2, <3>1, CloseAccounts
  <2>4. CASE \/ PcapSetSnaplen(h) \/ PcapSetPromisc(h) \/ PcapSetTimeout(h) \/ PcapSetRfMon(h)
             \/ PcapSetImmediateMode(h) \/ PcapSetBufferSize(h)
    <3>1. \A option \in {"snapshot", "promisc", "timeout", "rfmon", "immediate", "buffer_size"} :
            option \in Options
      BY DEF Options
    <3>2. PICK option \in Options : \E v : Set(h, option, v)
      <4>1. CASE PcapSetSnaplen(h) BY <3>1, <4>1 DEF PcapSetSnaplen
      <4>2. CASE PcapSetPromisc(h) BY <3>1, <4>2 DEF PcapSetPromisc
      <4>3. CASE PcapSetTimeout(h) BY <3>1, <4>3 DEF PcapSetTimeout
      <4>4. CASE PcapSetRfMon(h) BY <3>1, <4>4 DEF PcapSetRfMon
      <4>5. CASE PcapSetImmediateMode(h) BY <3>1, <4>5 DEF PcapSetImmediateMode
      <4>6. CASE PcapSetBufferSize(h) BY <3>1, <4>6 DEF PcapSetBufferSize
      <4> QED BY <2>4, <4>1, <4>2, <4>3, <4>4, <4>5, <4>6
    <3>3. PICK v : Set(h, option, v) BY <3>2
    <3> QED BY <1>2, <1>3, <3>3
  <2> QED BY <1>4, <2>1, <2>2, <2>3, <2>4 DEF Calls
<1>5. CASE Inquiries(h)
  BY <1>1, <1>2, <1>5, SettersAccount, CanSetRfMonAccounts DEF Inquiries
<1>6. CASE Inquired(h)
  BY <1>1, <1>2, <1>6, SettersAccount, CanSetRfMonBpfAccounts DEF Inquired
<1> QED BY <1>2, <1>4, <1>5, <1>6

(* and so does every step but the exit. *)
LEMMA StepAccounts ==
  ASSUME Accounts, DevicesNext
  PROVE  Exit \/ \E h \in Handles : Keeps(h) /\ Accounted(h)
<1>1. ASSUME NEW h \in Handles, Close(h), UNCHANGED devices PROVE Keeps(h) /\ Accounted(h)
  <2>1. Ready(h) /\ Shapes /\ Basic(h) BY DEF Accounts, Ready
  <2>2. Keeps(h) BY <1>1, <2>1, OtherSteps
  <2> QED BY <1>1, <2>1, <2>2, CloseAccounts
<1>2. ASSUME CloseAll PROVE \E h \in Handles : Keeps(h) /\ Accounted(h)
  <2>1. Head(pcaps_to_close) \in Handles
    <3>1. pcaps_to_close \in Seq(Handles) /\ pcaps_to_close # <<>>
      BY <1>2 DEF CloseAll, Accounts, Invariant, Shapes
    <3> QED BY <3>1
  <2>2. Close(Head(pcaps_to_close)) /\ UNCHANGED devices BY <1>2 DEF CloseAll, Close, aside
  <2> QED BY <1>1, <2>1, <2>2
<1>3. ASSUME atexit_handler PROVE \E h \in Handles : Keeps(h) /\ Accounted(h)
  BY <1>1, <1>3 DEF atexit_handler
<1>4. CASE Next BY <1>2, <1>4, CallsAccount, RunningAccounts DEF Next
<1>5. CASE \E h \in Handles : DeviceRunning(h) \/ (Inquire /\ Inquired(h))
  BY <1>5, CallsAccount, RunningAccounts
<1> QED BY <1>3, <1>4, <1>5 DEF DevicesNext

(* The invariant of the specification. *)
LEMMA AccountsAlways == DevicesSpec => []Accounts
<1>1. Init => Accounts BY AccountsAtFirst
<1>2. ASSUME Accounts, [DevicesNext]_vars PROVE Accounts'
  <2>1. Invariant' BY <1>2, StepInvariant DEF Accounts
  <2>2. ASSUME NEW h \in Handles, Keeps(h), Accounted(h) PROVE Accounts'
    BY <1>2, <2>1, <2>2, AccountsKept
  <2>3. CASE Exit \/ UNCHANGED vars
    <3>1. UNCHANGED <<state, p, priv, pc, call, sock_fd, status, sockets, pcaps_to_close, errors,
                      held, lost, spoilt, ringless, cache>>
      BY <2>3 DEF Exit, vars, aside, client, devices, marks, local
    <3>2. ASSUME NEW h \in Handles PROVE Ready(h)'
      <4>1. Ready(h) BY <1>2 DEF Accounts
      <4>2. Shapes' /\ Basic(h)' BY <2>1 DEF Invariant
      <4>3. /\ Where(h)' /\ (h \notin spoilt' => Holds(h)') /\ Opener(h)'
            /\ spoilt' = {} => Owner(h)'
        BY <3>1, <4>1 DEF Ready, Where, Holds, Pointing, Progress, Waiting, Ending, Active,
           Nothing,
           Untouched, Opener, Owner
      <4>4. Distinct' /\ Debt(h)'
        BY <3>1, <4>1 DEF Ready, Distinct, Twice, Debt, Listed, Succeeded
      <4> QED BY <3>1, <4>1, <4>2, <4>3, <4>4 DEF Ready
    <3>3. MemorySound' BY <1>2, <3>1 DEF Accounts, MemorySound
    <3> QED BY <1>2, <2>1, <3>1, <3>2, <3>3 DEF Accounts
  <2> QED BY <1>2, <2>2, <2>3, StepAccounts
<1> QED BY <1>1, <1>2, PTL DEF DevicesSpec

-----------------------------------------------------------------------------
(* What follows. *)

(* Whatever is opened, in whatever order and on whatever devices, and whichever
   calls fail: no descriptor is lost but on the paths where the code is known
   to lose it, and as long as no handle has closed one twice none is closed
   that belongs to another handle. *)
THEOREM DescriptorsAreHeld == DevicesSpec => []SocketsHeld
<1>1. Accounts => SocketsHeld
  <2> SUFFICES ASSUME Accounts PROVE SocketsHeld OBVIOUS
  <2>1. ASSUME NEW s \in Sockets \ lost, sockets[s] # NULL
        PROVE  \E h \in Handles : /\ sockets[s] = h
                                  /\ \/ h \in spoilt
                                     \/ state[h] = "open" /\ s \in {p[h].fd, sock_fd[h]}
    <3>1. sockets[s] \in Handles BY <2>1 DEF Accounts
    <3>2. Opener(sockets[s]) BY <3>1 DEF Accounts, Ready
    <3> QED BY <3>1, <3>2 DEF Opener
  <2>2. spoilt = {} => \A h \in Handles : p[h].fd # NULL => sockets[p[h].fd] = h
    BY DEF Accounts, Ready, Owner
  <2> QED BY <2>1, <2>2 DEF SocketsHeld
<1> QED BY <1>1, AccountsAlways, PTL

(* The clean-up functions free each buffer once, forget none and use nothing
   that is not there, whatever fails; but for the name of the interface of a
   handle that was declared active without a ring, when that is undone. *)
THEOREM MemoryIsSound == DevicesSpec => []MemorySound
<1>1. Accounts => MemorySound BY DEF Accounts
<1> QED BY <1>1, AccountsAlways, PTL

(* An activation that fails has given back all that it took, on every device
   and from every step, and so has a handle that is closed; only a handle that
   is noted for both things may stay on the list of atexit(). *)
THEOREM FailureLeaves == DevicesSpec => []FailureLeavesNothing
<1>1. Accounts => FailureLeavesNothing
  <2> SUFFICES ASSUME Accounts, NEW h \in Handles \ spoilt
               PROVE  /\ pc[h] = "return" /\ status[h] < 0 =>
                           /\ p[h].fd = NULL /\ sock_fd[h] = NULL /\ p[h].buffer = "null"
                           /\ held[h] = {}
                           /\ priv[h].device # "live" /\ ~priv[h].mmapbuf
                           /\ priv[h].oneshot_buffer # "live"
                           /\ Listed(h) => Twice(h)
                      /\ state[h] = "closed" =>
                           p[h].fd = NULL /\ p[h].buffer = "null" /\ held[h] = {}
    BY DEF FailureLeavesNothing, Listed, Twice
  <2>1. Ready(h) BY DEF Accounts
  <2>2. Holds(h) BY <2>1 DEF Ready
  <2>3. ASSUME pc[h] = "return", status[h] < 0
        PROVE  Nothing(h) /\ sock_fd[h] = NULL /\ (Listed(h) => Twice(h))
    <3>1. state[h] = "open" BY <2>1, <2>3 DEF Ready, Where
    <3>2. Nothing(h) /\ sock_fd[h] = NULL BY <2>2, <2>3, <3>1 DEF Holds, Waiting
    <3>3. Debt(h) /\ status[h] \in Int BY <2>1 DEF Ready
    <3>4. Listed(h) => Twice(h) BY <2>3, <3>3 DEF Debt, Succeeded
    <3> QED BY <3>2, <3>4
  <2>4. state[h] = "closed" => p[h].fd = NULL /\ p[h].buffer = "null" /\ held[h] = {}
    BY <2>2 DEF Holds
  <2> QED BY <2>3, <2>4 DEF Nothing, Untouched
<1> QED BY <1>1, AccountsAlways, PTL
=============================================================================
