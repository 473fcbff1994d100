----------------------- MODULE DeviceActivationProofs -----------------------
(* For every number of handles.  On any of the Linux interfaces               *)
(* (HandleActivation): the types, the exit list, and the interfaces that are  *)
(* given back.  On any of the devices (DeviceActivation): the snapshot length *)
(* that Pcap.java caches, and the non-blocking mode.                          *)
EXTENDS DeviceActivation, TLAPS

-----------------------------------------------------------------------------
(* On the Linux interfaces: the inductive invariant.                         *)

Listed(h) == \E i \in DOMAIN pcaps_to_close : pcaps_to_close[i] = h

(* An activation, from the first socket to the last buffer; and its parts    *)
(* that have a socket of activate_new, or the handle's descriptor.           *)
Way == {"socket", "rfmon", "down", "mode", "up", "arptype", "reopen", "bind", "finish",
        "mmap", "ring", "map", "rcvbuf", "old", "oldbind", "oldpromisc"}
WithSocket == {"rfmon", "down", "mode", "up", "arptype", "bind", "finish"}
WithDescriptor == {"mmap", "ring", "map", "rcvbuf", "oldbind", "oldpromisc"}

(* TypeOK, by variables: a handle's own, those that only the handle and its  *)
(* client read, and those that the handles share.                            *)
OwnTypes ==
  /\ state \in [Handles -> {"none", "open", "closed"}]
  /\ p \in [Handles -> PcapType] /\ priv \in [Handles -> PrivType]
  /\ pc \in [Handles -> Places]
  /\ sock_fd \in [Handles -> Sockets \cup {NULL}]
  /\ status \in [Handles -> Statuses] /\ oldflags \in [Handles -> BOOLEAN]
OtherTypes ==
  /\ call \in [Handles -> {"activate", "open", "close"}] /\ blocks \in [Handles -> Nat]
  /\ cache \in [Handles -> CacheType] /\ asked \in [Handles -> BOOLEAN]
SharedTypes ==
  /\ sockets \in [Sockets -> Handles \cup {NULL}] /\ iface \in [Interfaces -> IfaceType]
  /\ pcaps_to_close \in Seq(Handles) /\ exiting \in BOOLEAN
  /\ errors \subseteq {"leak", "double free", "null device", "foreign socket"}
  /\ left \subseteq Interfaces /\ ringless \subseteq Handles
Typed ==
  /\ OwnTypes /\ OtherTypes /\ SharedTypes
  /\ \A h \in Handles : pc[h] # "idle" => state[h] = "open"

(* What the place of a call says of its handle. *)
Path(h) ==
  /\ priv[h].oldmode = "managed"
  /\ priv[h].must_do_on_close # {} => p[h].source \in Interfaces /\ state[h] # "none"
  /\ pc[h] \in Way => /\ p[h].ops = "linux" /\ status[h] >= 0
                      /\ p[h].source \in LinuxDevices \ {"toolong"}
  /\ pc[h] \in WithSocket => sock_fd[h] # NULL
  /\ pc[h] \in WithDescriptor => p[h].fd # NULL
  /\ pc[h] \in {"down", "mode", "up"} => p[h].source = "wlan0"
  /\ pc[h] \in {"oldbind", "oldpromisc"} => p[h].source # "any"

(* Noted for both things: then a handle may be on the exit list twice.        *)
Twice(h) == priv[h].must_do_on_close = {"promisc", "rfmon"}

(* Where a handle is still to be restored: an activation that has come as far *)
(* as arptype, and goes through Restore if it fails, an active handle, and a  *)
(* close that has not come to Restore.                                        *)
Early == {"arptype", "reopen", "bind", "old", "oldbind", "oldpromisc"}
Restorable == Early \cup {"finish", "mmap", "ring", "map", "rcvbuf", "return", "restore", "destroy",
                       "probe", "idle"}
Capable(h) ==
  /\ state[h] = "open" /\ p[h].ops \in {"linux", "mmap"} /\ pc[h] \in Restorable
  /\ pc[h] \in {"idle", "probe"} => p[h].activated
  /\ pc[h] = "return" => status[h] >= 0

(* A handle on the exit list has something to undo and will be restored.      *)
(* Before activate_old sets promiscuous mode, it is the wireless mode that is *)
(* to be undone.                                                              *)
Undoable(h) ==
  Listed(h) =>
    /\ priv[h].must_do_on_close # {}
    /\ \/ Twice(h)
       \/ Capable(h) /\ (pc[h] \in Early => "rfmon" \in priv[h].must_do_on_close)

Distinct ==
  \A i, j \in DOMAIN pcaps_to_close :
    pcaps_to_close[i] = pcaps_to_close[j] => i = j \/ Twice(pcaps_to_close[i])

(* Whatever of an interface is not as it was, some handle will put back, but  *)
(* for what a failure has left.                                               *)
Undoes(h, what) == Listed(h) /\ Capable(h) /\ what \in priv[h].must_do_on_close
SetsMode(h) == pc[h] = "up" \/ Undoes(h, "rfmon")
TookDown(h) == pc[h] \in {"mode", "up"} /\ oldflags[h]
SetsPromisc(h) == Undoes(h, "promisc")

Owed ==
  \A i \in Interfaces \ left :
    /\ iface[i].mode = Monitor => \E h \in Handles : p[h].source = i /\ SetsMode(h)
    /\ ~iface[i].up => \E h \in Handles : p[h].source = i /\ TookDown(h)
    /\ iface[i].promisc => \E h \in Handles : p[h].source = i /\ SetsPromisc(h)

TypeInv == Typed /\ \A h \in Handles : Path(h)
Sound == Distinct /\ Owed /\ \A h \in Handles : Undoable(h)
Inv == TypeInv /\ Sound

(* The other handles are as they were. *)
Alone(h) ==
  \A g \in Handles \ {h} :
    /\ state'[g] = state[g] /\ p'[g] = p[g] /\ priv'[g] = priv[g] /\ pc'[g] = pc[g]
    /\ sock_fd'[g] = sock_fd[g] /\ status'[g] = status[g] /\ oldflags'[g] = oldflags[g]

Sole(h) ==
  /\ state' = [state EXCEPT ![h] = state'[h]] /\ p' = [p EXCEPT ![h] = p'[h]]
  /\ priv' = [priv EXCEPT ![h] = priv'[h]] /\ pc' = [pc EXCEPT ![h] = pc'[h]]
  /\ sock_fd' = [sock_fd EXCEPT ![h] = sock_fd'[h]]
  /\ status' = [status EXCEPT ![h] = status'[h]]
  /\ oldflags' = [oldflags EXCEPT ![h] = oldflags'[h]]

Steps(h) == Typed' /\ Alone(h) /\ Path(h)'


(* What most steps leave of the structures. *)
Placed(h) == p'[h].source = p[h].source /\ p'[h].activated = p[h].activated
Kept(h) == Placed(h) /\ p'[h].ops = p[h].ops /\ p'[h].fd = p[h].fd
PrivKept(h) ==
  /\ priv'[h].oldmode = priv[h].oldmode
  /\ priv'[h].must_do_on_close = priv[h].must_do_on_close

(* A step that takes nothing from the list and changes no interface. *)
Plain(h) ==
  /\ UNCHANGED <<iface, pcaps_to_close, left>> /\ Undoable(h)'
  /\ Twice(h) => Twice(h)'
  /\ SetsMode(h) => SetsMode(h)' /\ p'[h].source = p[h].source
  /\ TookDown(h) => TookDown(h)' /\ p'[h].source = p[h].source
  /\ SetsPromisc(h) => SetsPromisc(h)' /\ p'[h].source = p[h].source

-----------------------------------------------------------------------------
(* Types.                                                                    *)

(* Removing an entry leaves a list of handles. *)
LEMMA Unlinked ==
  ASSUME pcaps_to_close \in Seq(Handles), NEW h
  PROVE  pcap_remove_from_pcaps_to_close(h) \in Seq(Handles)
<1>1. CASE \A i \in DOMAIN pcaps_to_close : pcaps_to_close[i] # h
  BY <1>1 DEF pcap_remove_from_pcaps_to_close
<1>2. CASE ~ \A i \in DOMAIN pcaps_to_close : pcaps_to_close[i] # h
  <2>1. Len(pcaps_to_close) - 1 \in Nat BY <1>2
  <2>2. \A i \in 1..(Len(pcaps_to_close) - 1) :
          pcaps_to_close[i + 1] \in Handles /\ pcaps_to_close[i] \in Handles
    OBVIOUS
  <2> DEFINE n == Len(pcaps_to_close) - 1
             rest == [i \in 1..n |->
                        IF \E j \in 1..i : pcaps_to_close[j] = h THEN pcaps_to_close[i + 1]
                                                                 ELSE pcaps_to_close[i]]
  <2>3. rest \in [1..n -> Handles] BY <2>2
  <2>4. rest \in Seq(Handles)
    <3> HIDE DEF rest, n
    <3> QED BY <2>1, <2>3 DEF n
  <2> QED BY <1>2, <2>4 DEF pcap_remove_from_pcaps_to_close
<1> QED BY <1>1, <1>2

(* Adding an entry, too. *)
LEMMA Linked ==
  ASSUME pcaps_to_close \in Seq(Handles), NEW h \in Handles
  PROVE  <<h>> \o pcaps_to_close \in Seq(Handles)
OBVIOUS

LEMMA Soles ==
  ASSUME NEW h \in Handles, OwnTypes, Sole(h),
         \A g \in Handles : pc[g] # "idle" => state[g] = "open",
         state'[h] \in {"none", "open", "closed"}, p'[h] \in PcapType, priv'[h] \in PrivType,
         pc'[h] \in Places, sock_fd'[h] \in Sockets \cup {NULL}, status'[h] \in Statuses,
         oldflags'[h] \in BOOLEAN, OtherTypes', SharedTypes', Path(h)',
         pc'[h] # "idle" => state'[h] = "open"
  PROVE  Steps(h)
<1>1. OwnTypes' BY DEF OwnTypes, Sole
<1>2. Alone(h) BY DEF OwnTypes, Sole, Alone
<1>3. Typed' BY <1>1, <1>2 DEF Typed, Alone
<1> QED BY <1>2, <1>3 DEF Steps

(* pcap_create_common gives values of their types. *)
LEMMA NewPcapType ==
  ASSUME NEW dev \in Devices
  PROVE  /\ NewPcap(dev) \in PcapType /\ NewPcap(dev).source = dev
BY ActivationAssumption DEF NewPcap, PcapType, MAXIMUM_SNAPLEN, Types, Pointers, NULL

(* The kernel hands out a descriptor that is one. *)
LEMMA OpenedTypes ==
  ASSUME SharedTypes, NEW h \in Handles, NEW s \in Sockets, Opened(h, s)
  PROVE  sockets' \in [Sockets -> Handles \cup {NULL}]
BY DEF SharedTypes, Opened

(* The link types of an interface are among Types. *)
LEMMA LinkTypes ==
  \A dev : Link(dev).linktype \in Types /\ Link(dev).dlt_list \in SUBSET Types
<1>1. ASSUME NEW dev PROVE Link(dev).linktype \in Types /\ Link(dev).dlt_list \in SUBSET Types
  <2>1. CASE dev = "eth0" BY <2>1 DEF Link, Types
  <2>2. CASE dev = "wlan0" BY <2>2 DEF Link, Types
  <2>3. CASE dev \notin {"eth0", "wlan0"} BY <2>3 DEF Link, Types
  <2> QED BY <2>1, <2>2, <2>3
<1> QED BY <1>1

(* What is known of a handle at any time. *)
Known(h) ==
  /\ p[h] \in PcapType /\ priv[h] \in PrivType /\ (pc[h] # "idle" => state[h] = "open")
  /\ state[h] \in {"none", "open", "closed"} /\ pc[h] \in Places
  /\ status[h] \in Statuses /\ sock_fd[h] \in Sockets \cup {NULL}
  /\ oldflags[h] \in BOOLEAN
  /\ DOMAIN state = Handles /\ DOMAIN p = Handles /\ DOMAIN priv = Handles
  /\ DOMAIN pc = Handles /\ DOMAIN sock_fd = Handles /\ DOMAIN status = Handles
  /\ DOMAIN oldflags = Handles

LEMMA Givens ==
  ASSUME TypeInv, NEW h \in Handles
  PROVE  OwnTypes /\ OtherTypes /\ SharedTypes /\ Path(h) /\ Known(h)
BY DEF TypeInv, Typed, OwnTypes, Known

-----------------------------------------------------------------------------
(* The steps that leave the list and the interfaces alone, one lemma for each. *)
(* Types are kept, the other handles do not change, and a handle that was      *)
(* sound is moved plainly.                                                     *)

Setters(h) ==
  \/ PcapSetSnaplen(h) \/ PcapSetPromisc(h) \/ PcapSetTimeout(h) \/ PcapSetRfMon(h)
  \/ PcapSetImmediateMode(h) \/ PcapSetBufferSize(h)

(* A setter changes one option of a handle that is not active. *)
LEMMA SettersStep ==
  ASSUME TypeInv, NEW h \in Handles, Setters(h)
  PROVE  Steps(h) /\ (Undoable(h) => Plain(h))
<1> USE DEF Known
<1>0. OwnTypes /\ OtherTypes /\ SharedTypes /\ Path(h) BY Givens
<1>1. Known(h) BY Givens
<1>2. UNCHANGED <<state, priv, pc, sock_fd, status, oldflags, call, blocks, cache, asked, sockets,
                  iface, pcaps_to_close, exiting, errors, left, ringless>>
  BY DEF Setters, PcapSetSnaplen, PcapSetPromisc, PcapSetTimeout, PcapSetRfMon,
     PcapSetImmediateMode, PcapSetBufferSize, Set, local, aside, client, devices, marks
<1>3. Sole(h)
  BY <1>0, <1>2 DEF Sole, OwnTypes, Setters, PcapSetSnaplen, PcapSetPromisc, PcapSetTimeout,
     PcapSetRfMon, PcapSetImmediateMode, PcapSetBufferSize, Set
<1>4. p'[h] \in PcapType /\ Kept(h)
  <2>1. CASE PcapSetSnaplen(h)
    BY <1>1, <2>1, ActivationAssumption DEF PcapType, Kept, Placed, PcapSetSnaplen, Set
  <2>2. CASE PcapSetPromisc(h)
    BY <1>1, <2>2, ActivationAssumption DEF PcapType, Kept, Placed, PcapSetPromisc, Set
  <2>3. CASE PcapSetTimeout(h)
    BY <1>1, <2>3, ActivationAssumption DEF PcapType, Kept, Placed, PcapSetTimeout, Set
  <2>4. CASE PcapSetRfMon(h)
    BY <1>1, <2>4, ActivationAssumption DEF PcapType, Kept, Placed, PcapSetRfMon, Set
  <2>5. CASE PcapSetImmediateMode(h)
    BY <1>1, <2>5, ActivationAssumption DEF PcapType, Kept, Placed, PcapSetImmediateMode,
       Set
  <2>6. CASE PcapSetBufferSize(h)
    BY <1>1, <2>6, ActivationAssumption DEF PcapType, Kept, Placed, PcapSetBufferSize, Set
  <2> QED BY <2>1, <2>2, <2>3, <2>4, <2>5, <2>6 DEF Setters
<1>5. priv'[h] \in PrivType BY <1>1, <1>2
<1>6. pc[h] = "idle"
  BY DEF Setters, PcapSetSnaplen, PcapSetPromisc, PcapSetTimeout, PcapSetRfMon,
     PcapSetImmediateMode, PcapSetBufferSize, Set, Idle
<1>7. Kept(h) BY <1>4
<1>8. state'[h] \in {"none", "open", "closed"} /\ (pc'[h] # "idle" => state'[h] = "open")
  BY <1>1, <1>2
<1>9. pc'[h] \in Places BY <1>1, <1>2
<1>10. status'[h] \in Statuses BY <1>1, <1>2
<1>11. sock_fd'[h] \in Sockets \cup {NULL} /\ oldflags'[h] \in BOOLEAN BY <1>1, <1>2
<1>12. OtherTypes' BY <1>0, <1>2 DEF OtherTypes, SharedTypes
<1>13. SharedTypes' BY <1>0, <1>2 DEF OtherTypes, SharedTypes
<1>14. Path(h)'
  BY <1>0, <1>1, <1>2, <1>4, <1>5, <1>6, <1>7 DEF Path, Kept, Placed, PrivKept, Way,
     WithSocket, WithDescriptor
<1>s. Steps(h)
  BY <1>0, <1>3, <1>4, <1>5, <1>6, <1>7, <1>8, <1>9, <1>10, <1>11, <1>12, <1>13, <1>14,
     Soles DEF TypeInv, Typed
<1>t. ASSUME Undoable(h) PROVE Plain(h)
  <2>1. Listed(h)' <=> Listed(h) BY <1>2 DEF Listed
  <2>2. Undoable(h)'
    BY <1>0, <1>1, <1>2, <1>4, <1>5, <1>6, <1>7, <1>t, <2>1 DEF Undoable, Capable, Twice, Early,
       Restorable, Path, Kept, Placed, PrivKept, Way, WithSocket, WithDescriptor, PcapType, Statuses
  <2> QED
    BY <1>0, <1>1, <1>2, <1>4, <1>5, <1>6, <1>7, <1>t, <2>1, <2>2 DEF Plain, Undoable,
       Capable, Twice, Early, Restorable, Undoes, SetsMode, TookDown, SetsPromisc, Kept, Placed,
       PrivKept
<1> QED BY <1>s, <1>t

(* A new handle has undone nothing and holds nothing. *)
LEMMA PcapCreateStep ==
  ASSUME TypeInv, NEW h \in Handles, PcapCreate(h)
  PROVE  Steps(h) /\ (Undoable(h) => Plain(h))
<1> USE DEF Known
<1>0. OwnTypes /\ OtherTypes /\ SharedTypes /\ Path(h) BY Givens
<1>1. Known(h) BY Givens
<1>2. UNCHANGED <<priv, pc, sock_fd, status, oldflags, call, blocks, cache, asked, sockets,
                  iface, pcaps_to_close, exiting, errors, left, ringless>>
  BY DEF PcapCreate, Fail, Return, Goto, local, aside, marks, client, devices
<1>4. p'[h] \in PcapType /\ p' = [p EXCEPT ![h] = p'[h]]
  <2>1. PICK dev \in Devices : p' = [p EXCEPT ![h] = NewPcap(dev)] BY DEF PcapCreate
  <2>2. p'[h] = NewPcap(dev) BY <1>1, <2>1
  <2> QED BY <2>1, <2>2, NewPcapType
<1>3. Sole(h)
  <2>1. state' = [state EXCEPT ![h] = state'[h]] BY <1>1 DEF PcapCreate
  <2> QED BY <1>0, <1>2, <1>4, <2>1 DEF Sole, OwnTypes
<1>5. priv'[h] \in PrivType BY <1>1, <1>2
<1>6. state[h] = "none" /\ pc[h] = "idle"
  BY <1>1, <1>2 DEF PcapType, PcapCreate, Fail, Return, Goto
<1>7. state'[h] \in {"none", "open", "closed"} /\ (pc'[h] # "idle" => state'[h] = "open")
  BY <1>1, <1>2, <1>4, <1>5, <1>6 DEF NULL, PcapCreate, Fail, Return, Goto
<1>8. pc'[h] \in Places BY <1>1, <1>2
<1>9. status'[h] \in Statuses BY <1>1, <1>2
<1>10. sock_fd'[h] \in Sockets \cup {NULL} /\ oldflags'[h] \in BOOLEAN BY <1>1, <1>2
<1>11. OtherTypes' BY <1>0, <1>2 DEF OtherTypes, SharedTypes
<1>12. SharedTypes' BY <1>0, <1>2 DEF OtherTypes, SharedTypes
<1>13. Path(h)'
  BY <1>0, <1>1, <1>2, <1>4, <1>5, <1>6 DEF Path, Kept, Placed, PrivKept, Way, WithSocket,
     WithDescriptor
<1>s. Steps(h)
  BY <1>0, <1>3, <1>4, <1>5, <1>6, <1>7, <1>8, <1>9, <1>10, <1>11, <1>12, <1>13, Soles
     DEF TypeInv, Typed
<1>t. ASSUME Undoable(h) PROVE Plain(h)
  <2>1. Listed(h)' <=> Listed(h) BY <1>2 DEF Listed
  <2>2. Undoable(h)'
    BY <1>0, <1>1, <1>2, <1>4, <1>5, <1>6, <1>t, <2>1 DEF Undoable, Capable, Twice, Early,
       Restorable, Path, Kept, Placed, PrivKept, Way, WithSocket, WithDescriptor, PcapType, Statuses
  <2> QED
    BY <1>0, <1>1, <1>2, <1>4, <1>5, <1>6, <1>t, <2>1, <2>2 DEF Plain, Undoable,
       Capable, Twice, Early, Restorable, Undoes, SetsMode, TookDown, SetsPromisc, Kept, Placed,
       PrivKept
<1> QED BY <1>s, <1>t

(* So has one that pcap_open_live goes on to activate. *)
LEMMA PcapOpenLiveStep ==
  ASSUME TypeInv, NEW h \in Handles, PcapOpenLive(h)
  PROVE  Steps(h) /\ (Undoable(h) => Plain(h))
<1> USE DEF Known
<1>0. OwnTypes /\ OtherTypes /\ SharedTypes /\ Path(h) BY Givens
<1>1. Known(h) BY Givens
<1>2. UNCHANGED <<priv, sock_fd, status, oldflags, blocks, cache, asked, sockets, iface,
                  pcaps_to_close, exiting, errors, left, ringless>>
  BY DEF PcapOpenLive, Fail, Return, Goto, local, aside, marks, client, devices
<1>4. p'[h] \in PcapType /\ p' = [p EXCEPT ![h] = p'[h]]
  <2>1. PICK dev \in Devices, len \in Snaplens, to \in Timeouts, pr \in BOOLEAN :
          p' = [p EXCEPT ![h] = [NewPcap(dev) EXCEPT !.snapshot = len, !.timeout = to,
                                                     !.promisc = pr]]
    BY DEF PcapOpenLive
  <2> DEFINE q == [NewPcap(dev) EXCEPT !.snapshot = len, !.timeout = to, !.promisc = pr]
  <2>2. q \in PcapType
    <3>1. NewPcap(dev) \in PcapType BY NewPcapType
    <3>2. len \in Nat /\ to \in Int BY ActivationAssumption
    <3> QED BY <3>1, <3>2 DEF PcapType
  <2>3. p' = [p EXCEPT ![h] = q] BY <2>1
  <2> HIDE DEF q
  <2>4. p'[h] = q BY <1>1, <2>3
  <2> QED BY <2>2, <2>3, <2>4
<1>3. Sole(h)
  <2>1. state' = [state EXCEPT ![h] = state'[h]] /\ pc' = [pc EXCEPT ![h] = pc'[h]]
    BY <1>1 DEF PcapOpenLive, Goto
  <2> QED BY <1>0, <1>2, <1>4, <2>1 DEF Sole, OwnTypes
<1>5. priv'[h] \in PrivType BY <1>1, <1>2
<1>6. state[h] = "none"
  BY <1>1, <1>2 DEF PcapType, PcapOpenLive, Fail, Return, Goto
<1>7. pc'[h] = "start"
  BY <1>1, <1>2 DEF PcapType, PcapOpenLive, Fail, Return, Goto
<1>8. state'[h] \in {"none", "open", "closed"} /\ (pc'[h] # "idle" => state'[h] = "open")
  BY <1>1, <1>2, <1>4, <1>5, <1>6, <1>7 DEF NULL, PcapOpenLive, Fail, Return, Goto
<1>9. pc'[h] \in Places
  BY <1>1, <1>2, <1>4, <1>5, <1>6, <1>7 DEF Places, Way, PcapOpenLive, Fail, Return, Goto
<1>10. status'[h] \in Statuses BY <1>1, <1>2
<1>11. sock_fd'[h] \in Sockets \cup {NULL} /\ oldflags'[h] \in BOOLEAN BY <1>1, <1>2
<1>12. OtherTypes'
  BY <1>0, <1>1, <1>2, ActivationAssumption DEF OtherTypes, CacheType, PcapType,
     BlocksAsked, PCAP_ERROR_NOT_ACTIVATED, PcapOpenLive, Fail, Return, Goto
<1>13. SharedTypes' BY <1>0, <1>2 DEF OtherTypes, SharedTypes
<1>14. Path(h)'
  BY <1>0, <1>1, <1>2, <1>4, <1>5, <1>6, <1>7 DEF Path, Kept, Placed, PrivKept, Way,
     WithSocket, WithDescriptor
<1>s. Steps(h)
  BY <1>0, <1>3, <1>4, <1>5, <1>6, <1>7, <1>8, <1>9, <1>10, <1>11, <1>12, <1>13, <1>14,
     Soles DEF TypeInv, Typed
<1>t. ASSUME Undoable(h) PROVE Plain(h)
  <2>1. Listed(h)' <=> Listed(h) BY <1>2 DEF Listed
  <2>2. Undoable(h)'
    BY <1>0, <1>1, <1>2, <1>4, <1>5, <1>6, <1>7, <1>t, <2>1 DEF Undoable, Capable, Twice, Early,
       Restorable, Path, Kept, Placed, PrivKept, Way, WithSocket, WithDescriptor, PcapType, Statuses
  <2> QED
    BY <1>0, <1>1, <1>2, <1>4, <1>5, <1>6, <1>7, <1>t, <2>1, <2>2 DEF Plain, Undoable,
       Capable, Twice, Early, Restorable, Undoes, SetsMode, TookDown, SetsPromisc, Kept, Placed,
       PrivKept
<1> QED BY <1>s, <1>t

(* pcap_activate begins; the handle is not on the list yet. *)
LEMMA PcapActivateStep ==
  ASSUME TypeInv, NEW h \in Handles, PcapActivate(h)
  PROVE  Steps(h) /\ (Undoable(h) => Plain(h))
<1> USE DEF Known
<1>0. OwnTypes /\ OtherTypes /\ SharedTypes /\ Path(h) BY Givens
<1>1. Known(h) BY Givens
<1>2. UNCHANGED <<state, p, priv, sock_fd, status, oldflags, blocks, cache, asked, sockets,
                  iface, pcaps_to_close, exiting, errors, left, ringless>>
  BY DEF PcapActivate, Idle, Fail, Return, Goto, local, aside, marks, client, devices
<1>3. Sole(h)
  BY <1>0, <1>2 DEF Sole, OwnTypes, PcapActivate, Idle, Fail, Return, Goto
<1>4. p'[h] \in PcapType BY <1>1, <1>2
<1>5. priv'[h] \in PrivType BY <1>1, <1>2
<1>6. pc[h] = "idle" /\ ~p[h].activated
  BY <1>1, <1>2 DEF PcapActivate, Idle, Fail, Return, Goto
<1>7. pc'[h] = "start"
  BY <1>1, <1>2 DEF PcapActivate, Idle, Fail, Return, Goto
<1>8. state'[h] \in {"none", "open", "closed"} /\ (pc'[h] # "idle" => state'[h] = "open")
  BY <1>1, <1>2, <1>4, <1>5, <1>6, <1>7 DEF NULL, PcapActivate, Idle, Fail, Return, Goto
<1>9. pc'[h] \in Places
  BY <1>1, <1>2, <1>4, <1>5, <1>6, <1>7 DEF Places, Way, PcapActivate, Idle, Fail, Return,
     Goto
<1>10. status'[h] \in Statuses BY <1>1, <1>2
<1>11. sock_fd'[h] \in Sockets \cup {NULL} /\ oldflags'[h] \in BOOLEAN BY <1>1, <1>2
<1>12. OtherTypes'
  BY <1>0, <1>1, <1>2, ActivationAssumption DEF OtherTypes, CacheType, PcapType,
     BlocksAsked, PCAP_ERROR_NOT_ACTIVATED, PcapActivate, Idle, Fail, Return, Goto
<1>13. SharedTypes' BY <1>0, <1>2 DEF OtherTypes, SharedTypes
<1>14. Path(h)'
  BY <1>0, <1>1, <1>2, <1>4, <1>5, <1>6, <1>7 DEF Path, Kept, Placed, PrivKept, Way,
     WithSocket, WithDescriptor
<1>s. Steps(h)
  BY <1>0, <1>3, <1>4, <1>5, <1>6, <1>7, <1>8, <1>9, <1>10, <1>11, <1>12, <1>13, <1>14,
     Soles DEF TypeInv, Typed
<1>t. ASSUME Undoable(h) PROVE Plain(h)
  <2>1. Listed(h)' <=> Listed(h) BY <1>2 DEF Listed
  <2>2. Undoable(h)'
    BY <1>0, <1>1, <1>2, <1>4, <1>5, <1>6, <1>7, <1>t, <2>1 DEF Undoable, Capable, Twice, Early,
       Restorable, Path, Kept, Placed, PrivKept, Way, WithSocket, WithDescriptor, PcapType, Statuses
  <2> QED
    BY <1>0, <1>1, <1>2, <1>4, <1>5, <1>6, <1>7, <1>t, <2>1, <2>2 DEF Plain, Undoable,
       Capable, Twice, Early, Restorable, Undoes, SetsMode, TookDown, SetsPromisc, Kept, Placed,
       PrivKept
<1> QED BY <1>s, <1>t

(* The link type is one of the device's own list. *)
LEMMA PcapSetDataLinkStep ==
  ASSUME TypeInv, NEW h \in Handles, PcapSetDataLink(h)
  PROVE  Steps(h) /\ (Undoable(h) => Plain(h))
<1> USE DEF Known
<1>0. OwnTypes /\ OtherTypes /\ SharedTypes /\ Path(h) BY Givens
<1>1. Known(h) BY Givens
<1>2. UNCHANGED <<state, priv, pc, sock_fd, status, oldflags, call, blocks, cache, asked,
                  sockets, iface, pcaps_to_close, exiting, errors, left, ringless>>
  BY DEF PcapSetDataLink, Idle, Fail, Return, Goto, local, aside, marks, client, devices
<1>3. Sole(h)
  BY <1>0, <1>2 DEF Sole, OwnTypes, PcapSetDataLink, Idle, Fail, Return, Goto
<1>4. p'[h] \in PcapType
  BY <1>1, ActivationAssumption DEF PcapType, Pointers, Types, SLL_HDR_LEN, NULL,
     PcapSetDataLink, Idle, Fail, Return, Goto
<1>5. priv'[h] \in PrivType BY <1>1, <1>2
<1>6. pc[h] = "idle"
  BY <1>1, <1>2 DEF PcapType, PcapSetDataLink, Idle, Fail, Return, Goto
<1>7. Kept(h)
  BY <1>1, <1>2 DEF Placed, Kept, PcapType, PcapSetDataLink, Idle, Fail, Return, Goto
<1>8. state'[h] \in {"none", "open", "closed"} /\ (pc'[h] # "idle" => state'[h] = "open")
  BY <1>1, <1>2
<1>9. pc'[h] \in Places BY <1>1, <1>2
<1>10. status'[h] \in Statuses BY <1>1, <1>2
<1>11. sock_fd'[h] \in Sockets \cup {NULL} /\ oldflags'[h] \in BOOLEAN BY <1>1, <1>2
<1>12. OtherTypes' BY <1>0, <1>2 DEF OtherTypes, SharedTypes
<1>13. SharedTypes' BY <1>0, <1>2 DEF OtherTypes, SharedTypes
<1>14. Path(h)'
  BY <1>0, <1>1, <1>2, <1>4, <1>5, <1>6, <1>7 DEF Path, Kept, Placed, PrivKept, Way,
     WithSocket, WithDescriptor
<1>s. Steps(h)
  BY <1>0, <1>3, <1>4, <1>5, <1>6, <1>7, <1>8, <1>9, <1>10, <1>11, <1>12, <1>13, <1>14,
     Soles DEF TypeInv, Typed
<1>t. ASSUME Undoable(h) PROVE Plain(h)
  <2>1. Listed(h)' <=> Listed(h) BY <1>2 DEF Listed
  <2>2. Undoable(h)'
    BY <1>0, <1>1, <1>2, <1>4, <1>5, <1>6, <1>7, <1>t, <2>1 DEF Undoable, Capable, Twice, Early,
       Restorable, Path, Kept, Placed, PrivKept, Way, WithSocket, WithDescriptor, PcapType, Statuses
  <2> QED
    BY <1>0, <1>1, <1>2, <1>4, <1>5, <1>6, <1>7, <1>t, <2>1, <2>2 DEF Plain, Undoable,
       Capable, Twice, Early, Restorable, Undoes, SetsMode, TookDown, SetsPromisc, Kept, Placed,
       PrivKept
<1> QED BY <1>s, <1>t

(* The question for the wireless mode has a socket of its own. *)
LEMMA PcapCanSetRfMonStep ==
  ASSUME TypeInv, NEW h \in Handles, PcapCanSetRfMon(h)
  PROVE  Steps(h) /\ (Undoable(h) => Plain(h))
<1> USE DEF Known
<1>0. OwnTypes /\ OtherTypes /\ SharedTypes /\ Path(h) BY Givens
<1>1. Known(h) BY Givens
<1>2. UNCHANGED <<state, p, priv, status, oldflags, call, blocks, cache, asked, iface,
                  pcaps_to_close, exiting, errors, left, ringless>>
  BY DEF PcapCanSetRfMon, Idle, Opened, Fail, Return, Goto, local, aside, marks, client, devices
<1>3. Sole(h)
  BY <1>0, <1>2 DEF Sole, OwnTypes, PcapCanSetRfMon, Idle, Opened, Fail, Return, Goto
<1>4. p'[h] \in PcapType BY <1>1, <1>2
<1>5. priv'[h] \in PrivType BY <1>1, <1>2
<1>6. pc[h] = "idle" /\ pc'[h] = "probe"
  BY <1>1, <1>2 DEF PcapCanSetRfMon, Idle, Opened, Fail, Return, Goto
<1>7. state'[h] \in {"none", "open", "closed"} /\ (pc'[h] # "idle" => state'[h] = "open")
  BY <1>1, <1>2, <1>4, <1>5, <1>6 DEF NULL, PcapCanSetRfMon, Idle, Opened, Fail, Return,
     Goto
<1>8. pc'[h] \in Places
  BY <1>1, <1>2, <1>4, <1>5, <1>6 DEF Places, Way, PcapCanSetRfMon, Idle, Opened, Fail,
     Return, Goto
<1>9. status'[h] \in Statuses BY <1>1, <1>2
<1>10. sock_fd'[h] \in Sockets \cup {NULL} /\ oldflags'[h] \in BOOLEAN
  BY <1>1, <1>2, <1>4, <1>5, <1>6 DEF NULL, PcapCanSetRfMon, Idle, Opened, Fail, Return,
     Goto
<1>11. OtherTypes' BY <1>0, <1>2 DEF OtherTypes, SharedTypes
<1>12. SharedTypes'
  BY <1>0, <1>1, <1>2, ActivationAssumption, OpenedTypes DEF SharedTypes, Closed,
     CloseError, Alloc, Dealloc, PcapCanSetRfMon, Idle, Fail, Return, Goto
<1>13. Path(h)'
  BY <1>0, <1>1, <1>2, <1>4, <1>5, <1>6 DEF Path, Kept, Placed, PrivKept, Way, WithSocket,
     WithDescriptor
<1>s. Steps(h)
  BY <1>0, <1>3, <1>4, <1>5, <1>6, <1>7, <1>8, <1>9, <1>10, <1>11, <1>12, <1>13, Soles
     DEF TypeInv, Typed
<1>t. ASSUME Undoable(h) PROVE Plain(h)
  <2>1. Listed(h)' <=> Listed(h) BY <1>2 DEF Listed
  <2>2. Undoable(h)'
    BY <1>0, <1>1, <1>2, <1>4, <1>5, <1>6, <1>t, <2>1 DEF Undoable, Capable, Twice, Early,
       Restorable, Path, Kept, Placed, PrivKept, Way, WithSocket, WithDescriptor, PcapType, Statuses
  <2> QED
    BY <1>0, <1>1, <1>2, <1>4, <1>5, <1>6, <1>t, <2>1, <2>2 DEF Plain, Undoable,
       Capable, Twice, Early, Restorable, Undoes, SetsMode, TookDown, SetsPromisc, Kept, Placed,
       PrivKept
<1> QED BY <1>s, <1>t

(* The timeout of a ring is a number before and after. *)
LEMMA PcapSetNonBlockStep ==
  ASSUME TypeInv, NEW h \in Handles, PcapSetNonBlock(h)
  PROVE  Steps(h) /\ (Undoable(h) => Plain(h))
<1> USE DEF Known
<1>0. OwnTypes /\ OtherTypes /\ SharedTypes /\ Path(h) BY Givens
<1>1. Known(h) BY Givens
<1>2. UNCHANGED <<state, pc, sock_fd, status, oldflags, call, blocks, cache, sockets, iface,
                  pcaps_to_close, exiting, errors, left, ringless>>
  BY DEF PcapSetNonBlock, Idle, Complement, Fail, Return, Goto, local, aside, marks, client,
     devices
<1>3. Sole(h)
  BY <1>0, <1>2 DEF Sole, OwnTypes, PcapSetNonBlock, Idle, Complement, Fail, Return, Goto
<1>4. p'[h] \in PcapType
  BY <1>1, ActivationAssumption DEF PcapType, Pointers, Types, SLL_HDR_LEN, NULL,
     PcapSetNonBlock, Idle, Complement, Fail, Return, Goto
<1>5. priv'[h] \in PrivType
  BY <1>1, ActivationAssumption DEF PrivType, PcapType, Pointers, prepare_tpacket_socket,
     Monitor, PcapSetNonBlock, Idle, Complement, Fail, Return, Goto
<1>6. pc[h] = "idle"
  BY <1>1, <1>2 DEF PcapType, PrivType, PcapSetNonBlock, Idle, Complement, Fail, Return,
     Goto
<1>7. Kept(h) /\ PrivKept(h)
  BY <1>1, <1>2 DEF Placed, Kept, PrivKept, PcapType, PrivType, PcapSetNonBlock, Idle,
     Complement, Fail, Return, Goto
<1>8. state'[h] \in {"none", "open", "closed"} /\ (pc'[h] # "idle" => state'[h] = "open")
  BY <1>1, <1>2
<1>9. pc'[h] \in Places BY <1>1, <1>2
<1>10. status'[h] \in Statuses BY <1>1, <1>2
<1>11. sock_fd'[h] \in Sockets \cup {NULL} /\ oldflags'[h] \in BOOLEAN BY <1>1, <1>2
<1>12. OtherTypes'
  BY <1>0, <1>1, <1>2, ActivationAssumption DEF OtherTypes, CacheType, PcapType,
     BlocksAsked, PCAP_ERROR_NOT_ACTIVATED, PcapSetNonBlock, Idle, Complement, Fail, Return,
     Goto
<1>13. SharedTypes' BY <1>0, <1>2 DEF OtherTypes, SharedTypes
<1>14. Path(h)'
  BY <1>0, <1>1, <1>2, <1>4, <1>5, <1>6, <1>7 DEF Path, Kept, Placed, PrivKept, Way,
     WithSocket, WithDescriptor
<1>s. Steps(h)
  BY <1>0, <1>3, <1>4, <1>5, <1>6, <1>7, <1>8, <1>9, <1>10, <1>11, <1>12, <1>13, <1>14,
     Soles DEF TypeInv, Typed
<1>t. ASSUME Undoable(h) PROVE Plain(h)
  <2>1. Listed(h)' <=> Listed(h) BY <1>2 DEF Listed
  <2>2. Undoable(h)'
    BY <1>0, <1>1, <1>2, <1>4, <1>5, <1>6, <1>7, <1>t, <2>1 DEF Undoable, Capable, Twice, Early,
       Restorable, Path, Kept, Placed, PrivKept, Way, WithSocket, WithDescriptor, PcapType, Statuses
  <2> QED
    BY <1>0, <1>1, <1>2, <1>4, <1>5, <1>6, <1>7, <1>t, <2>1, <2>2 DEF Plain, Undoable,
       Capable, Twice, Early, Restorable, Undoes, SetsMode, TookDown, SetsPromisc, Kept, Placed,
       PrivKept
<1> QED BY <1>s, <1>t

(* Answers are kept in the Java object only. *)
LEMMA getSnapshotLengthStep ==
  ASSUME TypeInv, NEW h \in Handles, getSnapshotLength(h)
  PROVE  Steps(h) /\ (Undoable(h) => Plain(h))
<1> USE DEF Known
<1>0. OwnTypes /\ OtherTypes /\ SharedTypes /\ Path(h) BY Givens
<1>1. Known(h) BY Givens
<1>2. UNCHANGED <<state, p, priv, pc, sock_fd, status, oldflags, call, blocks, asked, sockets,
                  iface, pcaps_to_close, exiting, errors, left, ringless>>
  BY DEF getSnapshotLength, Idle, pcap_snapshot, Fail, Return, Goto, local, aside, marks, client,
     devices
<1>3. Sole(h)
  BY <1>0, <1>2 DEF Sole, OwnTypes, getSnapshotLength, Idle, pcap_snapshot, Fail, Return,
     Goto
<1>4. p'[h] \in PcapType BY <1>1, <1>2
<1>5. priv'[h] \in PrivType BY <1>1, <1>2
<1>6. pc[h] = "idle"
  BY <1>1, <1>2 DEF getSnapshotLength, Idle, pcap_snapshot, Fail, Return, Goto
<1>7. state'[h] \in {"none", "open", "closed"} /\ (pc'[h] # "idle" => state'[h] = "open")
  BY <1>1, <1>2
<1>8. pc'[h] \in Places BY <1>1, <1>2
<1>9. status'[h] \in Statuses BY <1>1, <1>2
<1>10. sock_fd'[h] \in Sockets \cup {NULL} /\ oldflags'[h] \in BOOLEAN BY <1>1, <1>2
<1>11. OtherTypes'
  BY <1>0, <1>1, <1>2, ActivationAssumption DEF OtherTypes, CacheType, PcapType,
     BlocksAsked, PCAP_ERROR_NOT_ACTIVATED, getSnapshotLength, Idle, pcap_snapshot, Fail,
     Return, Goto
<1>12. SharedTypes' BY <1>0, <1>2 DEF OtherTypes, SharedTypes
<1>13. Path(h)'
  BY <1>0, <1>1, <1>2, <1>4, <1>5, <1>6 DEF Path, Kept, Placed, PrivKept, Way, WithSocket,
     WithDescriptor
<1>s. Steps(h)
  BY <1>0, <1>3, <1>4, <1>5, <1>6, <1>7, <1>8, <1>9, <1>10, <1>11, <1>12, <1>13, Soles
     DEF TypeInv, Typed
<1>t. ASSUME Undoable(h) PROVE Plain(h)
  <2>1. Listed(h)' <=> Listed(h) BY <1>2 DEF Listed
  <2>2. Undoable(h)'
    BY <1>0, <1>1, <1>2, <1>4, <1>5, <1>6, <1>t, <2>1 DEF Undoable, Capable, Twice, Early,
       Restorable, Path, Kept, Placed, PrivKept, Way, WithSocket, WithDescriptor, PcapType, Statuses
  <2> QED
    BY <1>0, <1>1, <1>2, <1>4, <1>5, <1>6, <1>t, <2>1, <2>2 DEF Plain, Undoable,
       Capable, Twice, Early, Restorable, Undoes, SetsMode, TookDown, SetsPromisc, Kept, Placed,
       PrivKept
<1> QED BY <1>s, <1>t

(* Answers are kept in the Java object only. *)
LEMMA getDataLinkTypeStep ==
  ASSUME TypeInv, NEW h \in Handles, getDataLinkType(h)
  PROVE  Steps(h) /\ (Undoable(h) => Plain(h))
<1> USE DEF Known
<1>0. OwnTypes /\ OtherTypes /\ SharedTypes /\ Path(h) BY Givens
<1>1. Known(h) BY Givens
<1>2. UNCHANGED <<state, p, priv, pc, sock_fd, status, oldflags, call, blocks, asked, sockets,
                  iface, pcaps_to_close, exiting, errors, left, ringless>>
  BY DEF getDataLinkType, Idle, pcap_datalink, Fail, Return, Goto, local, aside, marks, client,
     devices
<1>3. Sole(h)
  BY <1>0, <1>2 DEF Sole, OwnTypes, getDataLinkType, Idle, pcap_datalink, Fail, Return, Goto
<1>4. p'[h] \in PcapType BY <1>1, <1>2
<1>5. priv'[h] \in PrivType BY <1>1, <1>2
<1>6. pc[h] = "idle"
  BY <1>1, <1>2 DEF getDataLinkType, Idle, pcap_datalink, Fail, Return, Goto
<1>7. state'[h] \in {"none", "open", "closed"} /\ (pc'[h] # "idle" => state'[h] = "open")
  BY <1>1, <1>2
<1>8. pc'[h] \in Places BY <1>1, <1>2
<1>9. status'[h] \in Statuses BY <1>1, <1>2
<1>10. sock_fd'[h] \in Sockets \cup {NULL} /\ oldflags'[h] \in BOOLEAN BY <1>1, <1>2
<1>11. OtherTypes'
  BY <1>0, <1>1, <1>2, ActivationAssumption DEF OtherTypes, CacheType, PcapType,
     BlocksAsked, PCAP_ERROR_NOT_ACTIVATED, getDataLinkType, Idle, pcap_datalink, Fail,
     Return, Goto
<1>12. SharedTypes' BY <1>0, <1>2 DEF OtherTypes, SharedTypes
<1>13. Path(h)'
  BY <1>0, <1>1, <1>2, <1>4, <1>5, <1>6 DEF Path, Kept, Placed, PrivKept, Way, WithSocket,
     WithDescriptor
<1>s. Steps(h)
  BY <1>0, <1>3, <1>4, <1>5, <1>6, <1>7, <1>8, <1>9, <1>10, <1>11, <1>12, <1>13, Soles
     DEF TypeInv, Typed
<1>t. ASSUME Undoable(h) PROVE Plain(h)
  <2>1. Listed(h)' <=> Listed(h) BY <1>2 DEF Listed
  <2>2. Undoable(h)'
    BY <1>0, <1>1, <1>2, <1>4, <1>5, <1>6, <1>t, <2>1 DEF Undoable, Capable, Twice, Early,
       Restorable, Path, Kept, Placed, PrivKept, Way, WithSocket, WithDescriptor, PcapType, Statuses
  <2> QED
    BY <1>0, <1>1, <1>2, <1>4, <1>5, <1>6, <1>t, <2>1, <2>2 DEF Plain, Undoable,
       Capable, Twice, Early, Restorable, Undoes, SetsMode, TookDown, SetsPromisc, Kept, Placed,
       PrivKept
<1> QED BY <1>s, <1>t

(* The socket of the question is closed again. *)
LEMMA ProbeStep ==
  ASSUME TypeInv, NEW h \in Handles, Probe(h)
  PROVE  Steps(h) /\ (Undoable(h) => Plain(h))
<1> USE DEF Known
<1>0. OwnTypes /\ OtherTypes /\ SharedTypes /\ Path(h) BY Givens
<1>1. Known(h) BY Givens
<1>2. UNCHANGED <<state, p, priv, status, oldflags, call, blocks, cache, asked, iface,
                  pcaps_to_close, exiting, left, ringless>>
  BY DEF Probe, Closed, Fail, Return, Goto, local, aside, marks, client, devices
<1>3. Sole(h)
  BY <1>0, <1>2 DEF Sole, OwnTypes, Probe, Closed, Fail, Return, Goto
<1>4. p'[h] \in PcapType BY <1>1, <1>2
<1>5. priv'[h] \in PrivType BY <1>1, <1>2
<1>6. pc[h] = "probe" /\ pc'[h] = "idle"
  BY <1>1, <1>2 DEF Probe, Closed, Fail, Return, Goto
<1>7. state'[h] \in {"none", "open", "closed"} /\ (pc'[h] # "idle" => state'[h] = "open")
  BY <1>1, <1>2, <1>4, <1>5, <1>6 DEF NULL, Probe, Closed, Fail, Return, Goto
<1>8. pc'[h] \in Places
  BY <1>1, <1>2, <1>4, <1>5, <1>6 DEF Places, Way, Probe, Closed, Fail, Return, Goto
<1>9. status'[h] \in Statuses BY <1>1, <1>2
<1>10. sock_fd'[h] \in Sockets \cup {NULL} /\ oldflags'[h] \in BOOLEAN
  BY <1>1, <1>2, <1>4, <1>5, <1>6 DEF NULL, Probe, Closed, Fail, Return, Goto
<1>11. OtherTypes' BY <1>0, <1>2 DEF OtherTypes, SharedTypes
<1>12. SharedTypes'
  BY <1>0, <1>1, <1>2, ActivationAssumption DEF SharedTypes, Closed, CloseError, Alloc,
     Dealloc, Probe, Closed, Fail, Return, Goto
<1>13. Path(h)'
  BY <1>0, <1>1, <1>2, <1>4, <1>5, <1>6 DEF Path, Kept, Placed, PrivKept, Way, WithSocket,
     WithDescriptor
<1>s. Steps(h)
  BY <1>0, <1>3, <1>4, <1>5, <1>6, <1>7, <1>8, <1>9, <1>10, <1>11, <1>12, <1>13, Soles
     DEF TypeInv, Typed
<1>t. ASSUME Undoable(h) PROVE Plain(h)
  <2>1. Listed(h)' <=> Listed(h) BY <1>2 DEF Listed
  <2>2. Undoable(h)'
    BY <1>0, <1>1, <1>2, <1>4, <1>5, <1>6, <1>t, <2>1 DEF Undoable, Capable, Twice, Early,
       Restorable, Path, Kept, Placed, PrivKept, Way, WithSocket, WithDescriptor, PcapType, Statuses
  <2> QED
    BY <1>0, <1>1, <1>2, <1>4, <1>5, <1>6, <1>t, <2>1, <2>2 DEF Plain, Undoable,
       Capable, Twice, Early, Restorable, Undoes, SetsMode, TookDown, SetsPromisc, Kept, Placed,
       PrivKept
<1> QED BY <1>s, <1>t

(* A handle with something to undo goes to pcap_cleanup_linux: its ops are Linux's. *)
LEMMA CloseStep ==
  ASSUME TypeInv, NEW h \in Handles, Close(h)
  PROVE  Steps(h) /\ (Undoable(h) => Plain(h))
<1> USE DEF Known
<1>0. OwnTypes /\ OtherTypes /\ SharedTypes /\ Path(h) BY Givens
<1>1. Known(h) BY Givens
<1>2. UNCHANGED <<state, p, priv, sock_fd, status, oldflags, blocks, cache, asked, sockets,
                  iface, pcaps_to_close, exiting, errors, left, ringless>>
  BY DEF Close, Fail, Return, Goto, local, aside, marks, client, devices
<1>3. Sole(h)
  <2>1. PICK q : pc' = [pc EXCEPT ![h] = q] BY Zenon DEF Close, Goto
  <2>2. pc' = [pc EXCEPT ![h] = pc'[h]] BY <1>1, <2>1
  <2> QED BY <1>0, <1>2, <2>2 DEF Sole, OwnTypes
<1>4. p'[h] \in PcapType BY <1>1, <1>2
<1>5. priv'[h] \in PrivType BY <1>1, <1>2
<1>6. pc[h] = "idle" /\ pc'[h] \in {"live", "restore", "destroy", "cleanup"}
  <2>1. p[h].ops \in {"none", "linux", "mmap", "device", "own"} BY <1>1 DEF PcapType
  <2> QED BY <1>1, <2>1 DEF Close, Goto
<1>7. p[h].ops \in {"linux", "mmap"} => pc'[h] \in {"restore", "destroy"}
  <2>1. p[h].ops = "linux" => pc'[h] = "restore" BY <1>1 DEF Close, Goto
  <2>2. p[h].ops = "mmap" => pc'[h] = "destroy" BY <1>1 DEF Close, Goto
  <2> QED BY <2>1, <2>2
<1>8. state'[h] \in {"none", "open", "closed"} /\ (pc'[h] # "idle" => state'[h] = "open")
  BY <1>1, <1>2, <1>4, <1>5, <1>6, <1>7 DEF NULL, Close, Fail, Return, Goto
<1>9. pc'[h] \in Places
  BY <1>1, <1>2, <1>4, <1>5, <1>6, <1>7 DEF Places, Way, Close, Fail, Return, Goto
<1>10. status'[h] \in Statuses BY <1>1, <1>2
<1>11. sock_fd'[h] \in Sockets \cup {NULL} /\ oldflags'[h] \in BOOLEAN BY <1>1, <1>2
<1>12. OtherTypes'
  BY <1>0, <1>1, <1>2, ActivationAssumption DEF OtherTypes, CacheType, PcapType,
     BlocksAsked, PCAP_ERROR_NOT_ACTIVATED, Close, Fail, Return, Goto
<1>13. SharedTypes' BY <1>0, <1>2 DEF OtherTypes, SharedTypes
<1>14. Path(h)'
  BY <1>0, <1>1, <1>2, <1>4, <1>5, <1>6, <1>7 DEF Path, Kept, Placed, PrivKept, Way,
     WithSocket, WithDescriptor
<1>s. Steps(h)
  BY <1>0, <1>3, <1>4, <1>5, <1>6, <1>7, <1>8, <1>9, <1>10, <1>11, <1>12, <1>13, <1>14,
     Soles DEF TypeInv, Typed
<1>t. ASSUME Undoable(h) PROVE Plain(h)
  <2>1. Listed(h)' <=> Listed(h) BY <1>2 DEF Listed
  <2>2. Undoable(h)'
    BY <1>0, <1>1, <1>2, <1>4, <1>5, <1>6, <1>7, <1>t, <2>1 DEF Undoable, Capable, Twice, Early,
       Restorable, Path, Kept, Placed, PrivKept, Way, WithSocket, WithDescriptor, PcapType, Statuses
  <2> QED
    BY <1>0, <1>1, <1>2, <1>4, <1>5, <1>6, <1>7, <1>t, <2>1, <2>2 DEF Plain, Undoable,
       Capable, Twice, Early, Restorable, Undoes, SetsMode, TookDown, SetsPromisc, Kept, Placed,
       PrivKept
<1> QED BY <1>s, <1>t

(* The handle gets the ops of Linux before anything is to be undone. *)
LEMMA StartStep ==
  ASSUME TypeInv, NEW h \in Handles, Start(h)
  PROVE  Steps(h) /\ (Undoable(h) => Plain(h))
<1> USE DEF Known
<1>0. OwnTypes /\ OtherTypes /\ SharedTypes /\ Path(h) BY Givens
<1>1. Known(h) BY Givens
<1>2. UNCHANGED <<state, sock_fd, oldflags, call, blocks, cache, asked, sockets, iface,
                  pcaps_to_close, exiting, left, ringless>>
  BY DEF Start, Fail, Return, Goto, local, aside, marks, client, devices
<1>3. Sole(h)
  BY <1>0, <1>2 DEF Sole, OwnTypes, Start, Fail, Return, Goto
<1>4. p'[h] \in PcapType
  BY <1>1, ActivationAssumption DEF PcapType, Pointers, Types, SLL_HDR_LEN, NULL, Start,
     Fail, Return, Goto
<1>5. priv'[h] \in PrivType
  BY <1>1, ActivationAssumption DEF PrivType, PcapType, Pointers, prepare_tpacket_socket,
     Monitor, Start, Fail, Return, Goto
<1>6. pc[h] = "start" /\ Placed(h) /\ PrivKept(h)
  BY <1>1, <1>2 DEF Placed, PrivKept, PcapType, PrivType, Start, Fail, Return, Goto
<1>7. \/ pc'[h] \in {"restore", "return"}
      \/ /\ pc'[h] = "socket" /\ p'[h].ops = "linux" /\ status'[h] >= 0
         /\ p[h].source \in LinuxDevices \ {"toolong"}
  BY <1>1, <1>2 DEF PcapType, PrivType, PCAP_ERROR, PCAP_ERROR_NO_SUCH_DEVICE,
     PCAP_ERROR_RFMON_NOTSUP, PCAP_ERROR_PERM_DENIED, PCAP_ERROR_IFACE_NOT_UP,
     PCAP_WARNING_PROMISC_NOTSUP, MmapFailed, PCAP_ERROR_NOT_ACTIVATED, Statuses,
     LinuxDevices, Start, Fail, Return, Goto
<1>8. state'[h] \in {"none", "open", "closed"} /\ (pc'[h] # "idle" => state'[h] = "open")
  BY <1>1, <1>2, <1>4, <1>5, <1>6, <1>7 DEF NULL, Start, Fail, Return, Goto
<1>9. pc'[h] \in Places
  BY <1>1, <1>2, <1>4, <1>5, <1>6, <1>7 DEF Places, Way, Start, Fail, Return, Goto
<1>10. status'[h] \in Statuses
  BY <1>1, <1>2, <1>4, <1>5, <1>6, <1>7 DEF PCAP_ERROR, PCAP_ERROR_NO_SUCH_DEVICE,
     PCAP_ERROR_RFMON_NOTSUP, PCAP_ERROR_PERM_DENIED, PCAP_ERROR_IFACE_NOT_UP,
     PCAP_WARNING_PROMISC_NOTSUP, MmapFailed, PCAP_ERROR_NOT_ACTIVATED, Statuses, Start,
     Fail, Return, Goto
<1>11. sock_fd'[h] \in Sockets \cup {NULL} /\ oldflags'[h] \in BOOLEAN BY <1>1, <1>2
<1>12. OtherTypes' BY <1>0, <1>2 DEF OtherTypes, SharedTypes
<1>13. SharedTypes'
  BY <1>0, <1>1, <1>2, ActivationAssumption DEF SharedTypes, Closed, CloseError, Alloc,
     Dealloc, Start, Fail, Return, Goto
<1>14. Path(h)'
  BY <1>0, <1>1, <1>2, <1>4, <1>5, <1>6, <1>7 DEF Path, Kept, Placed, PrivKept, Way,
     WithSocket, WithDescriptor
<1>s. Steps(h)
  BY <1>0, <1>3, <1>4, <1>5, <1>6, <1>7, <1>8, <1>9, <1>10, <1>11, <1>12, <1>13, <1>14,
     Soles DEF TypeInv, Typed
<1>t. ASSUME Undoable(h) PROVE Plain(h)
  <2>1. Listed(h)' <=> Listed(h) BY <1>2 DEF Listed
  <2>2. Undoable(h)'
    BY <1>0, <1>1, <1>2, <1>4, <1>5, <1>6, <1>7, <1>t, <2>1 DEF Undoable, Capable, Twice, Early,
       Restorable, Path, Kept, Placed, PrivKept, Way, WithSocket, WithDescriptor, PcapType, Statuses
  <2> QED
    BY <1>0, <1>1, <1>2, <1>4, <1>5, <1>6, <1>7, <1>t, <2>1, <2>2 DEF Plain, Undoable,
       Capable, Twice, Early, Restorable, Undoes, SetsMode, TookDown, SetsPromisc, Kept, Placed,
       PrivKept
<1> QED BY <1>s, <1>t

(* The socket of activate_new, or an old kernel, or an error. *)
LEMMA SocketStep ==
  ASSUME TypeInv, NEW h \in Handles, Socket(h)
  PROVE  Steps(h) /\ (Undoable(h) => Plain(h))
<1> USE DEF Known
<1>0. OwnTypes /\ OtherTypes /\ SharedTypes /\ Path(h) BY Givens
<1>1. Known(h) BY Givens
<1>2. UNCHANGED <<state, p, priv, oldflags, call, blocks, cache, asked, iface, pcaps_to_close,
                  exiting, errors, left, ringless>>
  BY DEF Socket, Opened, Fail, Return, Goto, local, aside, marks, client, devices
<1>3. Sole(h)
  BY <1>0, <1>2 DEF Sole, OwnTypes, Socket, Opened, Fail, Return, Goto
<1>4. p'[h] \in PcapType BY <1>1, <1>2
<1>5. priv'[h] \in PrivType BY <1>1, <1>2
<1>6. pc[h] = "socket"
  BY <1>1, <1>2 DEF Socket, Opened, Fail, Return, Goto
<1>7. \/ pc'[h] \in {"finish", "rfmon", "arptype"} /\ sock_fd'[h] # NULL /\ status'[h] = status[h]
      \/ pc'[h] = "old" /\ status'[h] = status[h]
      \/ pc'[h] = "restore"
  BY <1>1, <1>2, ActivationAssumption DEF NULL, Socket, Opened, Fail, Return, Goto
<1>8. state'[h] \in {"none", "open", "closed"} /\ (pc'[h] # "idle" => state'[h] = "open")
  BY <1>1, <1>2, <1>4, <1>5, <1>6, <1>7 DEF NULL, Socket, Opened, Fail, Return, Goto
<1>9. pc'[h] \in Places
  BY <1>1, <1>2, <1>4, <1>5, <1>6, <1>7 DEF Places, Way, Socket, Opened, Fail, Return, Goto
<1>10. status'[h] \in Statuses
  BY <1>1, <1>2, <1>4, <1>5, <1>6, <1>7 DEF PCAP_ERROR, PCAP_ERROR_NO_SUCH_DEVICE,
     PCAP_ERROR_RFMON_NOTSUP, PCAP_ERROR_PERM_DENIED, PCAP_ERROR_IFACE_NOT_UP,
     PCAP_WARNING_PROMISC_NOTSUP, MmapFailed, PCAP_ERROR_NOT_ACTIVATED, Statuses, Socket,
     Opened, Fail, Return, Goto
<1>11. sock_fd'[h] \in Sockets \cup {NULL} /\ oldflags'[h] \in BOOLEAN
  BY <1>1, <1>2, <1>4, <1>5, <1>6, <1>7 DEF NULL, Socket, Opened, Fail, Return, Goto
<1>12. OtherTypes' BY <1>0, <1>2 DEF OtherTypes, SharedTypes
<1>13. SharedTypes'
  BY <1>0, <1>1, <1>2, ActivationAssumption, OpenedTypes DEF SharedTypes, Closed,
     CloseError, Alloc, Dealloc, Socket, Fail, Return, Goto
<1>14. Path(h)'
  BY <1>0, <1>1, <1>2, <1>4, <1>5, <1>6, <1>7 DEF Path, Kept, Placed, PrivKept, Way,
     WithSocket, WithDescriptor
<1>s. Steps(h)
  BY <1>0, <1>3, <1>4, <1>5, <1>6, <1>7, <1>8, <1>9, <1>10, <1>11, <1>12, <1>13, <1>14,
     Soles DEF TypeInv, Typed
<1>t. ASSUME Undoable(h) PROVE Plain(h)
  <2>1. Listed(h)' <=> Listed(h) BY <1>2 DEF Listed
  <2>2. Undoable(h)'
    BY <1>0, <1>1, <1>2, <1>4, <1>5, <1>6, <1>7, <1>t, <2>1 DEF Undoable, Capable, Twice, Early,
       Restorable, Path, Kept, Placed, PrivKept, Way, WithSocket, WithDescriptor, PcapType, Statuses
  <2> QED
    BY <1>0, <1>1, <1>2, <1>4, <1>5, <1>6, <1>7, <1>t, <2>1, <2>2 DEF Plain, Undoable,
       Capable, Twice, Early, Restorable, Undoes, SetsMode, TookDown, SetsPromisc, Kept, Placed,
       PrivKept
<1> QED BY <1>s, <1>t

(* Only a wireless interface goes down, and its old mode is not monitor. *)
LEMMA RfmonStep ==
  ASSUME TypeInv, NEW h \in Handles, Rfmon(h)
  PROVE  Steps(h) /\ (Undoable(h) => Plain(h))
<1> USE DEF Known
<1>0. OwnTypes /\ OtherTypes /\ SharedTypes /\ Path(h) BY Givens
<1>1. Known(h) BY Givens
<1>2. UNCHANGED <<state, p, oldflags, call, blocks, cache, asked, iface, pcaps_to_close,
                 exiting, left, ringless>>
  BY DEF Rfmon, CloseAndFail, OldMode, Fail, Return, Goto, local, aside, marks, client, devices
<1>3. Sole(h)
  BY <1>0, <1>2 DEF Sole, OwnTypes, Rfmon, CloseAndFail, OldMode, Fail, Return, Goto
<1>4. p'[h] \in PcapType BY <1>1, <1>2
<1>5. /\ priv'[h] \in PrivType
      /\ PrivKept(h)
  <2>1. \/ priv' = priv
        \/ p[h].source = "wlan0" /\ iface[p[h].source].mode # Monitor
           /\ priv' = [priv EXCEPT ![h].oldmode = iface[p[h].source].mode]
    BY DEF Rfmon, CloseAndFail, OldMode, Fail, Return, Goto
  <2>2. CASE priv' = priv
    <3> QED
      BY <1>1, <2>2, <1>0, <1>2 DEF PrivKept, SharedTypes, IfaceType, Interfaces, PcapType,
         Monitor, Path
  <2>3. CASE p[h].source = "wlan0" /\ iface[p[h].source].mode # Monitor
             /\ priv' = [priv EXCEPT ![h].oldmode = iface[p[h].source].mode]
    <3>1. p[h].source = "wlan0" /\ iface[p[h].source].mode # Monitor
          /\ priv'[h] = [priv[h] EXCEPT !.oldmode = iface[p[h].source].mode]
      BY <1>1, <2>3
    <3>2. p[h].source \in Interfaces BY <1>1, <2>3 DEF PcapType, Interfaces
    <3>3. iface[p[h].source].mode = "managed"
      BY <1>0, <2>3, <3>2 DEF SharedTypes, IfaceType
    <3>4. priv[h].oldmode = "managed" BY <1>0 DEF Path
    <3> QED BY <1>1, <3>1, <3>3, <3>4 DEF PrivType, PrivKept
  <2> QED BY <2>1, <2>2, <2>3
<1>6. pc[h] = "rfmon" /\ PrivKept(h)
  BY <1>1, <1>2, <1>5 DEF PrivKept, Rfmon, CloseAndFail, OldMode, Fail, Return, Goto
<1>7. \/ /\ pc'[h] \in {"arptype", "down"} /\ p[h].source = "wlan0"
         /\ sock_fd'[h] = sock_fd[h] /\ status'[h] = status[h]
      \/ pc'[h] = "restore"
  BY <1>1, <1>2, <1>5 DEF LinuxDevices, Link, Rfmon, CloseAndFail, OldMode, Fail, Return,
     Goto
<1>8. state'[h] \in {"none", "open", "closed"} /\ (pc'[h] # "idle" => state'[h] = "open")
  BY <1>1, <1>2, <1>4, <1>5, <1>6, <1>7 DEF NULL, Rfmon, CloseAndFail, OldMode, Fail,
     Return, Goto
<1>9. pc'[h] \in Places
  BY <1>1, <1>2, <1>4, <1>5, <1>6, <1>7 DEF Places, Way, Rfmon, CloseAndFail, OldMode, Fail,
     Return, Goto
<1>10. status'[h] \in Statuses
  BY <1>1, <1>2, <1>4, <1>5, <1>6, <1>7 DEF PCAP_ERROR, PCAP_ERROR_NO_SUCH_DEVICE,
     PCAP_ERROR_RFMON_NOTSUP, PCAP_ERROR_PERM_DENIED, PCAP_ERROR_IFACE_NOT_UP,
     PCAP_WARNING_PROMISC_NOTSUP, MmapFailed, PCAP_ERROR_NOT_ACTIVATED, Statuses, Rfmon,
     CloseAndFail, OldMode, Fail, Return, Goto
<1>11. sock_fd'[h] \in Sockets \cup {NULL} /\ oldflags'[h] \in BOOLEAN
  BY <1>1, <1>2, <1>4, <1>5, <1>6, <1>7 DEF NULL, Rfmon, CloseAndFail, OldMode, Fail,
     Return, Goto
<1>12. OtherTypes' BY <1>0, <1>2 DEF OtherTypes, SharedTypes
<1>13. SharedTypes'
  <2>1. /\ sockets' \in {sockets, Closed(sock_fd[h])} /\ UNCHANGED <<iface, pcaps_to_close>>
        /\ errors' \in {errors, errors \cup CloseError(h, sock_fd[h])}
    BY DEF Rfmon, CloseAndFail
  <2> QED BY <1>0, <1>1, <1>2, <2>1 DEF SharedTypes, Closed, CloseError
<1>14. Path(h)'
  BY <1>0, <1>1, <1>2, <1>4, <1>5, <1>6, <1>7 DEF Path, Kept, Placed, PrivKept, Way,
     WithSocket, WithDescriptor
<1>s. Steps(h)
  BY <1>0, <1>3, <1>4, <1>5, <1>6, <1>7, <1>8, <1>9, <1>10, <1>11, <1>12, <1>13, <1>14,
     Soles DEF TypeInv, Typed
<1>t. ASSUME Undoable(h) PROVE Plain(h)
  <2>1. Listed(h)' <=> Listed(h) BY <1>2 DEF Listed
  <2>2. Undoable(h)'
    BY <1>0, <1>1, <1>2, <1>4, <1>5, <1>6, <1>7, <1>t, <2>1 DEF Undoable, Capable, Twice, Early,
       Restorable, Path, Kept, Placed, PrivKept, Way, WithSocket, WithDescriptor, PcapType, Statuses
  <2> QED
    BY <1>0, <1>1, <1>2, <1>4, <1>5, <1>6, <1>7, <1>t, <2>1, <2>2 DEF Plain, Undoable,
       Capable, Twice, Early, Restorable, Undoes, SetsMode, TookDown, SetsPromisc, Kept, Placed,
       PrivKept
<1> QED BY <1>s, <1>t

(* A handle with something to undo is at a wireless device: not cooked, no failure. *)
LEMMA ArpTypeStep ==
  ASSUME TypeInv, NEW h \in Handles, ArpType(h)
  PROVE  Steps(h) /\ (Undoable(h) => Plain(h))
<1> USE DEF Known
<1>0. OwnTypes /\ OtherTypes /\ SharedTypes /\ Path(h) BY Givens
<1>1. Known(h) BY Givens
<1>2. UNCHANGED <<state, oldflags, call, blocks, cache, asked, iface, pcaps_to_close, exiting,
                 left, ringless>>
  BY DEF ArpType, CloseAndFail, Fail, Return, Goto, local, aside, marks, client, devices
<1>3. Sole(h)
  BY <1>0, <1>2 DEF Sole, OwnTypes, ArpType, CloseAndFail, Fail, Return, Goto
<1>4. /\ p'[h] \in PcapType
      /\ Kept(h)
  <2>1. \/ p' = p
        \/ p' = [p EXCEPT ![h].linktype = Link(p[h].source).linktype,
                          ![h].dlt_list = Link(p[h].source).dlt_list]
    BY DEF ArpType, CloseAndFail, Fail, Return, Goto
  <2>2. CASE p' = p
    <3> QED BY <1>1, <2>2, LinkTypes DEF Placed, Kept
  <2>3. CASE p' = [p EXCEPT ![h].linktype = Link(p[h].source).linktype,
                            ![h].dlt_list = Link(p[h].source).dlt_list]
    <3>1. p'[h] = [p[h] EXCEPT !.linktype = Link(p[h].source).linktype,
                               !.dlt_list = Link(p[h].source).dlt_list]
      BY <1>1, <2>3
    <3> QED BY <1>1, <3>1, LinkTypes DEF PcapType, Placed, Kept
  <2> QED BY <2>1, <2>2, <2>3
<1>5. /\ priv'[h] \in PrivType
      /\ PrivKept(h)
  <2>1. \/ priv' = priv
        \/ priv' = [priv EXCEPT ![h].cooked = FALSE]
    BY DEF ArpType, CloseAndFail, Fail, Return, Goto
  <2>2. CASE priv' = priv
    <3> QED BY <1>1, <2>2 DEF PrivKept
  <2>3. CASE priv' = [priv EXCEPT ![h].cooked = FALSE]
    <3>1. priv'[h] = [priv[h] EXCEPT !.cooked = FALSE] BY <1>1, <2>3
    <3> QED BY <1>1, <3>1 DEF PrivType, PrivKept
  <2> QED BY <2>1, <2>2, <2>3
<1>6. pc[h] = "arptype" /\ Kept(h) /\ PrivKept(h)
  BY <1>1, <1>2, <1>4, <1>5 DEF Placed, Kept, PrivKept, ArpType, CloseAndFail, Fail, Return,
     Goto
<1>7. \/ /\ pc'[h] = "bind" /\ sock_fd'[h] = sock_fd[h] /\ status'[h] = status[h]
      \/ pc'[h] = "reopen" /\ p[h].source # "wlan0" /\ status'[h] = status[h]
      \/ pc'[h] = "restore"
  BY <1>1, <1>2, <1>4, <1>5 DEF LinuxDevices, Link, ArpType, CloseAndFail, Fail, Return,
     Goto
<1>8. state'[h] \in {"none", "open", "closed"} /\ (pc'[h] # "idle" => state'[h] = "open")
  BY <1>1, <1>2, <1>4, <1>5, <1>6, <1>7 DEF NULL, ArpType, CloseAndFail, Fail, Return, Goto
<1>9. pc'[h] \in Places
  BY <1>1, <1>2, <1>4, <1>5, <1>6, <1>7 DEF Places, Way, ArpType, CloseAndFail, Fail,
     Return, Goto
<1>10. status'[h] \in Statuses
  BY <1>1, <1>2, <1>4, <1>5, <1>6, <1>7 DEF PCAP_ERROR, PCAP_ERROR_NO_SUCH_DEVICE,
     PCAP_ERROR_RFMON_NOTSUP, PCAP_ERROR_PERM_DENIED, PCAP_ERROR_IFACE_NOT_UP,
     PCAP_WARNING_PROMISC_NOTSUP, MmapFailed, PCAP_ERROR_NOT_ACTIVATED, Statuses, ArpType,
     CloseAndFail, Fail, Return, Goto
<1>11. sock_fd'[h] \in Sockets \cup {NULL} /\ oldflags'[h] \in BOOLEAN
  BY <1>1, <1>2, <1>4, <1>5, <1>6, <1>7 DEF NULL, ArpType, CloseAndFail, Fail, Return, Goto
<1>12. OtherTypes' BY <1>0, <1>2 DEF OtherTypes, SharedTypes
<1>13. SharedTypes'
  BY <1>0, <1>1, <1>2, ActivationAssumption DEF SharedTypes, Closed, CloseError, Alloc,
     Dealloc, ArpType, CloseAndFail, Fail, Return, Goto
<1>14. Path(h)'
  BY <1>0, <1>1, <1>2, <1>4, <1>5, <1>6, <1>7 DEF Path, Kept, Placed, PrivKept, Way,
     WithSocket, WithDescriptor
<1>s. Steps(h)
  BY <1>0, <1>3, <1>4, <1>5, <1>6, <1>7, <1>8, <1>9, <1>10, <1>11, <1>12, <1>13, <1>14,
     Soles DEF TypeInv, Typed
<1>t. ASSUME Undoable(h) PROVE Plain(h)
  <2>1. Listed(h)' <=> Listed(h) BY <1>2 DEF Listed
  <2>2. Undoable(h)'
    BY <1>0, <1>1, <1>2, <1>4, <1>5, <1>6, <1>7, <1>t, <2>1 DEF Undoable, Capable, Twice, Early,
       Restorable, Path, Kept, Placed, PrivKept, Way, WithSocket, WithDescriptor, PcapType, Statuses
  <2> QED
    BY <1>0, <1>1, <1>2, <1>4, <1>5, <1>6, <1>7, <1>t, <2>1, <2>2 DEF Plain, Undoable,
       Capable, Twice, Early, Restorable, Undoes, SetsMode, TookDown, SetsPromisc, Kept, Placed,
       PrivKept
<1> QED BY <1>s, <1>t

(* Only a device that is read cooked is opened again. *)
LEMMA ReopenStep ==
  ASSUME TypeInv, NEW h \in Handles, Reopen(h)
  PROVE  Steps(h) /\ (Undoable(h) => Plain(h))
<1> USE DEF Known
<1>0. OwnTypes /\ OtherTypes /\ SharedTypes /\ Path(h) BY Givens
<1>1. Known(h) BY Givens
<1>2. UNCHANGED <<state, oldflags, call, blocks, cache, asked, iface, pcaps_to_close, exiting,
                  errors, left, ringless>>
  BY DEF Reopen, Opened, Fail, Return, Goto, local, aside, marks, client, devices
<1>3. Sole(h)
  BY <1>0, <1>2 DEF Sole, OwnTypes, Reopen, Opened, Fail, Return, Goto
<1>4. p'[h] \in PcapType
  BY <1>1, ActivationAssumption DEF PcapType, Pointers, Types, SLL_HDR_LEN, NULL, Reopen,
     Opened, Fail, Return, Goto
<1>5. /\ priv'[h] \in PrivType
      /\ PrivKept(h)
  <2>1. \/ priv' = priv
        \/ priv' = [priv EXCEPT ![h].cooked = TRUE]
    BY DEF Reopen, Opened, Fail, Return, Goto
  <2>2. CASE priv' = priv
    <3> QED BY <1>1, <2>2 DEF PrivKept
  <2>3. CASE priv' = [priv EXCEPT ![h].cooked = TRUE]
    <3>1. priv'[h] = [priv[h] EXCEPT !.cooked = TRUE] BY <1>1, <2>3
    <3> QED BY <1>1, <3>1 DEF PrivType, PrivKept
  <2> QED BY <2>1, <2>2, <2>3
<1>6. pc[h] = "reopen" /\ Kept(h) /\ PrivKept(h)
  BY <1>1, <1>2, <1>5 DEF Placed, Kept, PrivKept, PcapType, Reopen, Opened, Fail, Return,
     Goto
<1>7. \/ pc'[h] = "bind" /\ sock_fd'[h] # NULL /\ status'[h] = status[h]
      \/ pc'[h] = "restore"
  BY <1>1, <1>2, ActivationAssumption, <1>5 DEF PcapType, NULL, Reopen, Opened, Fail,
     Return, Goto
<1>8. state'[h] \in {"none", "open", "closed"} /\ (pc'[h] # "idle" => state'[h] = "open")
  BY <1>1, <1>2, <1>4, <1>5, <1>6, <1>7 DEF NULL, Reopen, Opened, Fail, Return, Goto
<1>9. pc'[h] \in Places
  BY <1>1, <1>2, <1>4, <1>5, <1>6, <1>7 DEF Places, Way, Reopen, Opened, Fail, Return, Goto
<1>10. status'[h] \in Statuses
  BY <1>1, <1>2, <1>4, <1>5, <1>6, <1>7 DEF PCAP_ERROR, PCAP_ERROR_NO_SUCH_DEVICE,
     PCAP_ERROR_RFMON_NOTSUP, PCAP_ERROR_PERM_DENIED, PCAP_ERROR_IFACE_NOT_UP,
     PCAP_WARNING_PROMISC_NOTSUP, MmapFailed, PCAP_ERROR_NOT_ACTIVATED, Statuses, Reopen,
     Opened, Fail, Return, Goto
<1>11. sock_fd'[h] \in Sockets \cup {NULL} /\ oldflags'[h] \in BOOLEAN
  BY <1>1, <1>2, <1>4, <1>5, <1>6, <1>7 DEF NULL, Reopen, Opened, Fail, Return, Goto
<1>12. OtherTypes' BY <1>0, <1>2 DEF OtherTypes, SharedTypes
<1>13. SharedTypes'
  BY <1>0, <1>1, <1>2, ActivationAssumption, OpenedTypes DEF SharedTypes, Closed,
     CloseError, Alloc, Dealloc, Reopen, Fail, Return, Goto
<1>14. Path(h)'
  BY <1>0, <1>1, <1>2, <1>4, <1>5, <1>6, <1>7 DEF Path, Kept, Placed, PrivKept, Way,
     WithSocket, WithDescriptor
<1>s. Steps(h)
  BY <1>0, <1>3, <1>4, <1>5, <1>6, <1>7, <1>8, <1>9, <1>10, <1>11, <1>12, <1>13, <1>14,
     Soles DEF TypeInv, Typed
<1>t. ASSUME Undoable(h) PROVE Plain(h)
  <2>1. Listed(h)' <=> Listed(h) BY <1>2 DEF Listed
  <2>2. Undoable(h)'
    BY <1>0, <1>1, <1>2, <1>4, <1>5, <1>6, <1>7, <1>t, <2>1 DEF Undoable, Capable, Twice, Early,
       Restorable, Path, Kept, Placed, PrivKept, Way, WithSocket, WithDescriptor, PcapType, Statuses
  <2> QED
    BY <1>0, <1>1, <1>2, <1>4, <1>5, <1>6, <1>7, <1>t, <2>1, <2>2 DEF Plain, Undoable,
       Capable, Twice, Early, Restorable, Undoes, SetsMode, TookDown, SetsPromisc, Kept, Placed,
       PrivKept
<1> QED BY <1>s, <1>t

(* A handle with something to undo keeps its socket. *)
LEMMA BindStep ==
  ASSUME TypeInv, NEW h \in Handles, Bind(h)
  PROVE  Steps(h) /\ (Undoable(h) => Plain(h))
<1> USE DEF Known
<1>0. OwnTypes /\ OtherTypes /\ SharedTypes /\ Path(h) BY Givens
<1>1. Known(h) BY Givens
<1>2. UNCHANGED <<state, p, priv, oldflags, call, blocks, cache, asked, iface, pcaps_to_close,
                  exiting, left, ringless>>
  BY DEF Bind, CloseAndFail, Fail, Return, Goto, local, aside, marks, client, devices
<1>3. Sole(h)
  BY <1>0, <1>2 DEF Sole, OwnTypes, Bind, CloseAndFail, Fail, Return, Goto
<1>4. p'[h] \in PcapType BY <1>1, <1>2
<1>5. priv'[h] \in PrivType BY <1>1, <1>2
<1>6. pc[h] = "bind"
  BY <1>1, <1>2 DEF Bind, CloseAndFail, Fail, Return, Goto
<1>7. \/ pc'[h] = "finish" /\ sock_fd'[h] = sock_fd[h] /\ status'[h] = status[h]
      \/ pc'[h] = "old" /\ status'[h] = status[h]
      \/ pc'[h] = "restore"
  BY <1>1, <1>2 DEF Bind, CloseAndFail, Fail, Return, Goto
<1>8. state'[h] \in {"none", "open", "closed"} /\ (pc'[h] # "idle" => state'[h] = "open")
  BY <1>1, <1>2, <1>4, <1>5, <1>6, <1>7 DEF NULL, Bind, CloseAndFail, Fail, Return, Goto
<1>9. pc'[h] \in Places
  BY <1>1, <1>2, <1>4, <1>5, <1>6, <1>7 DEF Places, Way, Bind, CloseAndFail, Fail, Return,
     Goto
<1>10. status'[h] \in Statuses
  BY <1>1, <1>2, <1>4, <1>5, <1>6, <1>7 DEF PCAP_ERROR, PCAP_ERROR_NO_SUCH_DEVICE,
     PCAP_ERROR_RFMON_NOTSUP, PCAP_ERROR_PERM_DENIED, PCAP_ERROR_IFACE_NOT_UP,
     PCAP_WARNING_PROMISC_NOTSUP, MmapFailed, PCAP_ERROR_NOT_ACTIVATED, Statuses, Bind,
     CloseAndFail, Fail, Return, Goto
<1>11. sock_fd'[h] \in Sockets \cup {NULL} /\ oldflags'[h] \in BOOLEAN
  BY <1>1, <1>2, <1>4, <1>5, <1>6, <1>7 DEF NULL, Bind, CloseAndFail, Fail, Return, Goto
<1>12. OtherTypes' BY <1>0, <1>2 DEF OtherTypes, SharedTypes
<1>13. SharedTypes'
  BY <1>0, <1>1, <1>2, ActivationAssumption DEF SharedTypes, Closed, CloseError, Alloc,
     Dealloc, Bind, CloseAndFail, Fail, Return, Goto
<1>14. Path(h)'
  BY <1>0, <1>1, <1>2, <1>4, <1>5, <1>6, <1>7 DEF Path, Kept, Placed, PrivKept, Way,
     WithSocket, WithDescriptor
<1>s. Steps(h)
  BY <1>0, <1>3, <1>4, <1>5, <1>6, <1>7, <1>8, <1>9, <1>10, <1>11, <1>12, <1>13, <1>14,
     Soles DEF TypeInv, Typed
<1>t. ASSUME Undoable(h) PROVE Plain(h)
  <2>1. Listed(h)' <=> Listed(h) BY <1>2 DEF Listed
  <2>2. Undoable(h)'
    BY <1>0, <1>1, <1>2, <1>4, <1>5, <1>6, <1>7, <1>t, <2>1 DEF Undoable, Capable, Twice, Early,
       Restorable, Path, Kept, Placed, PrivKept, Way, WithSocket, WithDescriptor, PcapType, Statuses
  <2> QED
    BY <1>0, <1>1, <1>2, <1>4, <1>5, <1>6, <1>7, <1>t, <2>1, <2>2 DEF Plain, Undoable,
       Capable, Twice, Early, Restorable, Undoes, SetsMode, TookDown, SetsPromisc, Kept, Placed,
       PrivKept
<1> QED BY <1>s, <1>t

(* The socket becomes the handle's, before anything else can fail. *)
LEMMA FinishStep ==
  ASSUME TypeInv, NEW h \in Handles, Finish(h)
  PROVE  Steps(h) /\ (Undoable(h) => Plain(h))
<1> USE DEF Known
<1>0. OwnTypes /\ OtherTypes /\ SharedTypes /\ Path(h) BY Givens
<1>1. Known(h) BY Givens
<1>2. UNCHANGED <<state, oldflags, call, blocks, cache, asked, iface, pcaps_to_close, exiting,
                 left, ringless>>
  BY DEF Finish, CloseAndFail, Fail, Return, Goto, local, aside, marks, client, devices
<1>3. Sole(h)
  BY <1>0, <1>2 DEF Sole, OwnTypes, Finish, CloseAndFail, Fail, Return, Goto
<1> DEFINE Settled ==
      p' = [p EXCEPT ![h].fd = sock_fd[h], ![h].nonblock = FALSE,
                            ![h].linktype = IF p[h].source = "any" THEN "LINUX_SLL" ELSE @,
                            ![h].snapshot = IF (p[h].source = "any" \/ priv[h].cooked)
                                               /\ @ < SLL_HDR_LEN + 1
                                            THEN SLL_HDR_LEN + 1 ELSE @]
<1>4. /\ p'[h] \in PcapType
      /\ p'[h].source = p[h].source /\ p'[h].activated = p[h].activated
      /\ p'[h].ops = p[h].ops
  <2>1. \/ p' = p
        \/ \E l \in Types, n \in Nat :
             p' = [p EXCEPT ![h].fd = sock_fd[h], ![h].nonblock = FALSE,
                            ![h].linktype = l, ![h].snapshot = n]
    <3>1. /\ p[h].linktype \in Types /\ "LINUX_SLL" \in Types
          /\ p[h].snapshot \in Nat /\ SLL_HDR_LEN + 1 \in Nat
      BY <1>1 DEF PcapType, Types, SLL_HDR_LEN
    <3>2. p' = p \/ Settled BY DEF Finish, CloseAndFail
    <3> HIDE DEF SLL_HDR_LEN, Types
    <3> DEFINE l == IF p[h].source = "any" THEN "LINUX_SLL" ELSE p[h].linktype
               n == IF (p[h].source = "any" \/ priv[h].cooked) /\ p[h].snapshot < SLL_HDR_LEN + 1
                    THEN SLL_HDR_LEN + 1 ELSE p[h].snapshot
    <3>3. l \in Types /\ n \in Nat BY <3>1
    <3>4. CASE p' = p BY <3>4
    <3>5. CASE p' # p
      <4>1. p' = [p EXCEPT ![h].fd = sock_fd[h], ![h].nonblock = FALSE,
                            ![h].linktype = l, ![h].snapshot = n]
        BY <1>1, <3>2, <3>5
      <4> HIDE DEF l, n
      <4> QED BY <4>1, <3>3
    <3> QED BY <3>4, <3>5
  <2>2. CASE p' = p BY <1>1, <2>2
  <2>3. ASSUME NEW l \in Types, NEW n \in Nat,
               p' = [p EXCEPT ![h].fd = sock_fd[h], ![h].nonblock = FALSE,
                              ![h].linktype = l, ![h].snapshot = n]
        PROVE  /\ p'[h] \in PcapType
               /\ p'[h].source = p[h].source /\ p'[h].activated = p[h].activated
               /\ p'[h].ops = p[h].ops
    <3>1. p'[h] = [p[h] EXCEPT !.fd = sock_fd[h], !.nonblock = FALSE, !.linktype = l,
                               !.snapshot = n]
      BY <1>1, <2>3
    <3> QED BY <1>1, <3>1 DEF PcapType
  <2> QED BY <2>1, <2>2, <2>3
<1>5. /\ priv'[h] \in PrivType
      /\ PrivKept(h)
  <2>1. \/ priv' = priv
        \/ \E b \in BOOLEAN : priv' = [priv EXCEPT ![h].cooked = b]
    BY DEF Finish, CloseAndFail, Fail, Return, Goto
  <2>2. CASE priv' = priv
    <3> QED BY <1>1, <2>2 DEF PrivKept
  <2>3. CASE \E b \in BOOLEAN : priv' = [priv EXCEPT ![h].cooked = b]
    <3>1. \E b \in BOOLEAN : priv'[h] = [priv[h] EXCEPT !.cooked = b] BY <1>1, <2>3
    <3> QED BY <1>1, <3>1 DEF PrivType, PrivKept
  <2> QED BY <2>1, <2>2, <2>3
<1>6. pc[h] = "finish" /\ Placed(h) /\ PrivKept(h)
  BY <1>1, <1>2, <1>4, <1>5 DEF Placed, PrivKept, Finish, CloseAndFail, Fail, Return, Goto
<1>7. p'[h].ops = p[h].ops
  BY <1>1, <1>2, <1>4, <1>5 DEF Finish, CloseAndFail, Fail, Return, Goto
<1>8. \/ pc'[h] = "mmap" /\ p'[h].fd = sock_fd[h] /\ status'[h] = status[h]
      \/ pc'[h] = "restore"
  <2>1. \/ pc'[h] = "mmap" /\ Settled /\ status'[h] = status[h]
        \/ pc'[h] = "restore"
    BY <1>1 DEF Finish, CloseAndFail, Fail, Goto
  <2>2. Settled => p'[h].fd = sock_fd[h] BY <1>1 DEF PcapType
  <2> QED BY <2>1, <2>2
<1>9. state'[h] \in {"none", "open", "closed"} /\ (pc'[h] # "idle" => state'[h] = "open")
  BY <1>1, <1>2, <1>4, <1>5, <1>6, <1>7, <1>8 DEF NULL, Finish, CloseAndFail, Fail, Return,
     Goto
<1>10. pc'[h] \in Places
  BY <1>1, <1>2, <1>4, <1>5, <1>6, <1>7, <1>8 DEF Places, Way, Finish, CloseAndFail, Fail,
     Return, Goto
<1>11. status'[h] \in Statuses
  BY <1>1, <1>2, <1>4, <1>5, <1>6, <1>7, <1>8 DEF PCAP_ERROR, PCAP_ERROR_NO_SUCH_DEVICE,
     PCAP_ERROR_RFMON_NOTSUP, PCAP_ERROR_PERM_DENIED, PCAP_ERROR_IFACE_NOT_UP,
     PCAP_WARNING_PROMISC_NOTSUP, MmapFailed, PCAP_ERROR_NOT_ACTIVATED, Statuses, Finish,
     CloseAndFail, Fail, Return, Goto
<1>12. sock_fd'[h] \in Sockets \cup {NULL} /\ oldflags'[h] \in BOOLEAN
  BY <1>1, <1>2, <1>4, <1>5, <1>6, <1>7, <1>8 DEF NULL, Finish, CloseAndFail, Fail, Return,
     Goto
<1>13. OtherTypes' BY <1>0, <1>2 DEF OtherTypes, SharedTypes
<1>14. SharedTypes'
  BY <1>0, <1>1, <1>2, ActivationAssumption, ZenonT(30) DEF SharedTypes, Closed, CloseError,
       Alloc,
     Dealloc, Finish, CloseAndFail, Fail, Return, Goto
<1>15. Path(h)'
  BY <1>0, <1>1, <1>2, <1>4, <1>5, <1>6, <1>7, <1>8 DEF Path, Kept, Placed, PrivKept, Way,
     WithSocket, WithDescriptor
<1>s. Steps(h)
  BY <1>0, <1>3, <1>4, <1>5, <1>6, <1>7, <1>8, <1>9, <1>10, <1>11, <1>12, <1>13, <1>14,
     <1>15, Soles DEF TypeInv, Typed
<1>t. ASSUME Undoable(h) PROVE Plain(h)
  <2>1. Listed(h)' <=> Listed(h) BY <1>2 DEF Listed
  <2>2. Undoable(h)'
    BY <1>0, <1>1, <1>2, <1>4, <1>5, <1>6, <1>7, <1>8, <1>t, <2>1 DEF Undoable, Capable, Twice,
       Early, Restorable, Path, Kept, Placed, PrivKept, Way, WithSocket, WithDescriptor, PcapType,
       Statuses
  <2> QED
    BY <1>0, <1>1, <1>2, <1>4, <1>5, <1>6, <1>7, <1>8, <1>t, <2>1, <2>2 DEF Plain, Undoable,
       Capable, Twice, Early, Restorable, Undoes, SetsMode, TookDown, SetsPromisc, Kept, Placed,
       PrivKept
<1> QED BY <1>s, <1>t

(* A ring is asked for; the descriptor is there. *)
LEMMA MmapStep ==
  ASSUME TypeInv, NEW h \in Handles, Mmap(h)
  PROVE  Steps(h) /\ (Undoable(h) => Plain(h))
<1> USE DEF Known
<1>0. OwnTypes /\ OtherTypes /\ SharedTypes /\ Path(h) BY Givens
<1>1. Known(h) BY Givens
<1>2. UNCHANGED <<state, sock_fd, oldflags, call, cache, asked, sockets, iface, pcaps_to_close,
                  exiting, left>>
  BY DEF Mmap, create_ring, FailRing, Fail, Return, Goto, local, aside, marks, client, devices
<1>3. Sole(h)
  BY <1>0, <1>2 DEF Sole, OwnTypes, Mmap, create_ring, FailRing, Fail, Return, Goto
<1>4. p'[h] \in PcapType
  BY <1>1, ActivationAssumption DEF PcapType, Pointers, Types, SLL_HDR_LEN, NULL, Mmap,
     create_ring, FailRing, Fail, Return, Goto
<1>5. priv'[h] \in PrivType
  BY <1>1, ActivationAssumption DEF PrivType, PcapType, Pointers, prepare_tpacket_socket,
     Monitor, Mmap, create_ring, FailRing, Fail, Return, Goto
<1>6. pc[h] = "mmap" /\ Kept(h) /\ PrivKept(h)
  BY <1>1, <1>2 DEF Placed, Kept, PrivKept, PcapType, PrivType, Mmap, create_ring, FailRing, Fail,
     Return, Goto
<1>7. \/ pc'[h] = "ring" /\ status'[h] = 0
      \/ pc'[h] = "restore"
  BY <1>1, <1>2 DEF PcapType, PrivType, PCAP_ERROR, PCAP_ERROR_NO_SUCH_DEVICE,
     PCAP_ERROR_RFMON_NOTSUP, PCAP_ERROR_PERM_DENIED, PCAP_ERROR_IFACE_NOT_UP,
     PCAP_WARNING_PROMISC_NOTSUP, MmapFailed, PCAP_ERROR_NOT_ACTIVATED, Statuses, Mmap,
     create_ring, FailRing, Fail, Return, Goto
<1>8. state'[h] \in {"none", "open", "closed"} /\ (pc'[h] # "idle" => state'[h] = "open")
  BY <1>1, <1>2, <1>4, <1>5, <1>6, <1>7 DEF NULL, Mmap, create_ring, FailRing, Fail, Return, Goto
<1>9. pc'[h] \in Places
  BY <1>1, <1>2, <1>4, <1>5, <1>6, <1>7 DEF Places, Way, Mmap, create_ring, FailRing, Fail,
     Return, Goto
<1>10. status'[h] \in Statuses
  BY <1>1, <1>2, <1>4, <1>5, <1>6, <1>7 DEF PCAP_ERROR, PCAP_ERROR_NO_SUCH_DEVICE,
     PCAP_ERROR_RFMON_NOTSUP, PCAP_ERROR_PERM_DENIED, PCAP_ERROR_IFACE_NOT_UP,
     PCAP_WARNING_PROMISC_NOTSUP, MmapFailed, PCAP_ERROR_NOT_ACTIVATED, Statuses, Mmap,
     create_ring, FailRing, Fail, Return, Goto
<1>11. sock_fd'[h] \in Sockets \cup {NULL} /\ oldflags'[h] \in BOOLEAN BY <1>1, <1>2
<1>12. OtherTypes'
  BY <1>0, <1>1, <1>2, ActivationAssumption DEF OtherTypes, CacheType, PcapType,
     BlocksAsked, PCAP_ERROR_NOT_ACTIVATED, Mmap, create_ring, FailRing, Fail, Return, Goto
<1>13. SharedTypes'
  BY <1>0, <1>1, <1>2, ActivationAssumption DEF SharedTypes, Closed, CloseError, Alloc,
     Dealloc, Mmap, create_ring, FailRing, Fail, Return, Goto
<1>14. Path(h)'
  BY <1>0, <1>1, <1>2, <1>4, <1>5, <1>6, <1>7 DEF Path, Kept, Placed, PrivKept, Way,
     WithSocket, WithDescriptor
<1>s. Steps(h)
  BY <1>0, <1>3, <1>4, <1>5, <1>6, <1>7, <1>8, <1>9, <1>10, <1>11, <1>12, <1>13, <1>14,
     Soles DEF TypeInv, Typed
<1>t. ASSUME Undoable(h) PROVE Plain(h)
  <2>1. Listed(h)' <=> Listed(h) BY <1>2 DEF Listed
  <2>2. Undoable(h)'
    BY <1>0, <1>1, <1>2, <1>4, <1>5, <1>6, <1>7, <1>t, <2>1 DEF Undoable, Capable, Twice, Early,
       Restorable, Path, Kept, Placed, PrivKept, Way, WithSocket, WithDescriptor, PcapType, Statuses
  <2> QED
    BY <1>0, <1>1, <1>2, <1>4, <1>5, <1>6, <1>7, <1>t, <2>1, <2>2 DEF Plain, Undoable,
       Capable, Twice, Early, Restorable, Undoes, SetsMode, TookDown, SetsPromisc, Kept, Placed,
       PrivKept
<1> QED BY <1>s, <1>t

(* One block less. *)
LEMMA RingRetryStep ==
  ASSUME TypeInv, NEW h \in Handles, RingRetry(h)
  PROVE  Steps(h) /\ (Undoable(h) => Plain(h))
<1> USE DEF Known
<1>0. OwnTypes /\ OtherTypes /\ SharedTypes /\ Path(h) BY Givens
<1>1. Known(h) BY Givens
<1>2. UNCHANGED <<state, p, priv, pc, sock_fd, status, oldflags, call, cache, asked, sockets,
                  iface, pcaps_to_close, exiting, errors, left, ringless>>
  BY DEF RingRetry, Fail, Return, Goto, local, aside, marks, client, devices
<1>3. Sole(h)
  BY <1>0, <1>2 DEF Sole, OwnTypes, RingRetry, Fail, Return, Goto
<1>4. p'[h] \in PcapType BY <1>1, <1>2
<1>5. priv'[h] \in PrivType BY <1>1, <1>2
<1>6. pc[h] = "ring"
  BY <1>1, <1>2 DEF RingRetry, Fail, Return, Goto
<1>7. state'[h] \in {"none", "open", "closed"} /\ (pc'[h] # "idle" => state'[h] = "open")
  BY <1>1, <1>2
<1>8. pc'[h] \in Places BY <1>1, <1>2
<1>9. status'[h] \in Statuses BY <1>1, <1>2
<1>10. sock_fd'[h] \in Sockets \cup {NULL} /\ oldflags'[h] \in BOOLEAN BY <1>1, <1>2
<1>11. OtherTypes'
  BY <1>0, <1>1, <1>2, ActivationAssumption DEF OtherTypes, CacheType, PcapType,
     BlocksAsked, PCAP_ERROR_NOT_ACTIVATED, RingRetry, Fail, Return, Goto
<1>12. SharedTypes' BY <1>0, <1>2 DEF OtherTypes, SharedTypes
<1>13. Path(h)'
  BY <1>0, <1>1, <1>2, <1>4, <1>5, <1>6 DEF Path, Kept, Placed, PrivKept, Way, WithSocket,
     WithDescriptor
<1>s. Steps(h)
  BY <1>0, <1>3, <1>4, <1>5, <1>6, <1>7, <1>8, <1>9, <1>10, <1>11, <1>12, <1>13, Soles
     DEF TypeInv, Typed
<1>t. ASSUME Undoable(h) PROVE Plain(h)
  <2>1. Listed(h)' <=> Listed(h) BY <1>2 DEF Listed
  <2>2. Undoable(h)'
    BY <1>0, <1>1, <1>2, <1>4, <1>5, <1>6, <1>t, <2>1 DEF Undoable, Capable, Twice, Early,
       Restorable, Path, Kept, Placed, PrivKept, Way, WithSocket, WithDescriptor, PcapType, Statuses
  <2> QED
    BY <1>0, <1>1, <1>2, <1>4, <1>5, <1>6, <1>t, <2>1, <2>2 DEF Plain, Undoable,
       Capable, Twice, Early, Restorable, Undoes, SetsMode, TookDown, SetsPromisc, Kept, Placed,
       PrivKept
<1> QED BY <1>s, <1>t

(* Granted, or not supported, or refused through Restore. *)
LEMMA RingStep ==
  ASSUME TypeInv, NEW h \in Handles, Ring(h)
  PROVE  Steps(h) /\ (Undoable(h) => Plain(h))
<1> USE DEF Known
<1>0. OwnTypes /\ OtherTypes /\ SharedTypes /\ Path(h) BY Givens
<1>1. Known(h) BY Givens
<1>2. UNCHANGED <<state, p, sock_fd, oldflags, call, blocks, cache, asked, sockets, iface,
                  pcaps_to_close, exiting, errors, left>>
  BY DEF Ring, FailRing, Fail, Return, Goto, local, aside, marks, client, devices
<1>3. Sole(h)
  BY <1>0, <1>2 DEF Sole, OwnTypes, Ring, FailRing, Fail, Return, Goto
<1>4. p'[h] \in PcapType BY <1>1, <1>2
<1>5. priv'[h] \in PrivType
  BY <1>1, ActivationAssumption DEF PrivType, PcapType, Pointers, prepare_tpacket_socket,
     Monitor, Ring, FailRing, Fail, Return, Goto
<1>6. pc[h] = "ring" /\ PrivKept(h)
  BY <1>1, <1>2 DEF PrivKept, PrivType, Ring, FailRing, Fail, Return, Goto
<1>7. \/ pc'[h] \in {"map", "rcvbuf"} /\ status'[h] = status[h]
      \/ pc'[h] = "restore"
  BY <1>1, <1>2 DEF PrivType, Ring, FailRing, Fail, Return, Goto
<1>8. state'[h] \in {"none", "open", "closed"} /\ (pc'[h] # "idle" => state'[h] = "open")
  BY <1>1, <1>2, <1>4, <1>5, <1>6, <1>7 DEF NULL, Ring, FailRing, Fail, Return, Goto
<1>9. pc'[h] \in Places
  BY <1>1, <1>2, <1>4, <1>5, <1>6, <1>7 DEF Places, Way, Ring, FailRing, Fail, Return, Goto
<1>10. status'[h] \in Statuses
  BY <1>1, <1>2, <1>4, <1>5, <1>6, <1>7 DEF PCAP_ERROR, PCAP_ERROR_NO_SUCH_DEVICE,
     PCAP_ERROR_RFMON_NOTSUP, PCAP_ERROR_PERM_DENIED, PCAP_ERROR_IFACE_NOT_UP,
     PCAP_WARNING_PROMISC_NOTSUP, MmapFailed, PCAP_ERROR_NOT_ACTIVATED, Statuses, Ring,
     FailRing, Fail, Return, Goto
<1>11. sock_fd'[h] \in Sockets \cup {NULL} /\ oldflags'[h] \in BOOLEAN BY <1>1, <1>2
<1>12. OtherTypes' BY <1>0, <1>2 DEF OtherTypes, SharedTypes
<1>13. SharedTypes'
  BY <1>0, <1>1, <1>2 DEF SharedTypes, Ring, FailRing, Fail, Return, Goto
<1>14. Path(h)'
  BY <1>0, <1>1, <1>2, <1>4, <1>5, <1>6, <1>7 DEF Path, Kept, Placed, PrivKept, Way,
     WithSocket, WithDescriptor
<1>s. Steps(h)
  BY <1>0, <1>3, <1>4, <1>5, <1>6, <1>7, <1>8, <1>9, <1>10, <1>11, <1>12, <1>13, <1>14,
     Soles DEF TypeInv, Typed
<1>t. ASSUME Undoable(h) PROVE Plain(h)
  <2>1. Listed(h)' <=> Listed(h) BY <1>2 DEF Listed
  <2>2. Undoable(h)'
    BY <1>0, <1>1, <1>2, <1>4, <1>5, <1>6, <1>7, <1>t, <2>1 DEF Undoable, Capable, Twice, Early,
       Restorable, Path, Kept, Placed, PrivKept, Way, WithSocket, WithDescriptor, PcapType, Statuses
  <2> QED
    BY <1>0, <1>1, <1>2, <1>4, <1>5, <1>6, <1>7, <1>t, <2>1, <2>2 DEF Plain, Undoable,
       Capable, Twice, Early, Restorable, Undoes, SetsMode, TookDown, SetsPromisc, Kept, Placed,
       PrivKept
<1> QED BY <1>s, <1>t

(* The ring is mapped: the ops are those of the ring, and cleanup still restores. *)
LEMMA MapStep ==
  ASSUME TypeInv, NEW h \in Handles, Map(h)
  PROVE  Steps(h) /\ (Undoable(h) => Plain(h))
<1> USE DEF Known
<1>0. OwnTypes /\ OtherTypes /\ SharedTypes /\ Path(h) BY Givens
<1>1. Known(h) BY Givens
<1>2. UNCHANGED <<state, sock_fd, oldflags, call, blocks, cache, asked, sockets, iface,
                  pcaps_to_close, exiting, left>>
  BY DEF Map, FailRing, Fail, Return, Goto, local, aside, marks, client, devices
<1>3. Sole(h)
  BY <1>0, <1>2 DEF Sole, OwnTypes, Map, FailRing, Fail, Return, Goto
<1>4. p'[h] \in PcapType
  BY <1>1, ActivationAssumption DEF PcapType, Pointers, Types, SLL_HDR_LEN, NULL, Map, FailRing,
     Fail, Return, Goto
<1>5. /\ priv'[h] \in PrivType
      /\ PrivKept(h)
  <2>1. \/ priv' = [priv EXCEPT ![h].mmapbuf = TRUE]
        \/ priv' = [priv EXCEPT ![h].mmapbuf = FALSE, ![h].oneshot_buffer = "dangling"]
    BY DEF Map, FailRing, Fail, Return, Goto
  <2>2. CASE priv' = [priv EXCEPT ![h].mmapbuf = TRUE]
    <3>1. priv'[h] = [priv[h] EXCEPT !.mmapbuf = TRUE] BY <1>1, <2>2
    <3> QED BY <1>1, <3>1 DEF PrivType, PrivKept, Pointers
  <2>3. CASE priv' = [priv EXCEPT ![h].mmapbuf = FALSE, ![h].oneshot_buffer = "dangling"]
    <3>1. priv'[h] = [priv[h] EXCEPT !.mmapbuf = FALSE, !.oneshot_buffer = "dangling"]
      BY <1>1, <2>3
    <3> QED BY <1>1, <3>1 DEF PrivType, PrivKept, Pointers
  <2> QED BY <2>1, <2>2, <2>3
<1>6. pc[h] = "map" /\ Placed(h) /\ PrivKept(h)
  BY <1>1, <1>2, <1>5 DEF Placed, PrivKept, PcapType, Map, FailRing, Fail, Return, Goto
<1>7. p'[h].fd = p[h].fd /\ p'[h].ops \in {p[h].ops, "mmap"}
  BY <1>1, <1>2, <1>5 DEF PcapType, Map, FailRing, Fail, Return, Goto
<1>8. \/ pc'[h] = "return" /\ status'[h] = status[h]
      \/ pc'[h] = "restore"
  BY <1>1, <1>2, <1>5 DEF PcapType, Map, FailRing, Fail, Return, Goto
<1>9. state'[h] \in {"none", "open", "closed"} /\ (pc'[h] # "idle" => state'[h] = "open")
  BY <1>1, <1>2, <1>4, <1>5, <1>6, <1>7, <1>8 DEF NULL, Map, FailRing, Fail, Return, Goto
<1>10. pc'[h] \in Places
  BY <1>1, <1>2, <1>4, <1>5, <1>6, <1>7, <1>8 DEF Places, Way, Map, FailRing, Fail, Return, Goto
<1>11. status'[h] \in Statuses
  BY <1>1, <1>2, <1>4, <1>5, <1>6, <1>7, <1>8 DEF PCAP_ERROR, PCAP_ERROR_NO_SUCH_DEVICE,
     PCAP_ERROR_RFMON_NOTSUP, PCAP_ERROR_PERM_DENIED, PCAP_ERROR_IFACE_NOT_UP,
     PCAP_WARNING_PROMISC_NOTSUP, MmapFailed, PCAP_ERROR_NOT_ACTIVATED, Statuses, Map, FailRing,
     Fail, Return, Goto
<1>12. sock_fd'[h] \in Sockets \cup {NULL} /\ oldflags'[h] \in BOOLEAN BY <1>1, <1>2
<1>13. OtherTypes' BY <1>0, <1>2 DEF OtherTypes, SharedTypes
<1>14. SharedTypes'
  BY <1>0, <1>1, <1>2, ActivationAssumption DEF SharedTypes, Closed, CloseError, Alloc,
     Dealloc, Map, FailRing, Fail, Return, Goto
<1>15. Path(h)'
  BY <1>0, <1>1, <1>2, <1>4, <1>5, <1>6, <1>7, <1>8 DEF Path, Kept, Placed, PrivKept, Way,
     WithSocket, WithDescriptor
<1>s. Steps(h)
  BY <1>0, <1>3, <1>4, <1>5, <1>6, <1>7, <1>8, <1>9, <1>10, <1>11, <1>12, <1>13, <1>14,
     <1>15, Soles DEF TypeInv, Typed
<1>t. ASSUME Undoable(h) PROVE Plain(h)
  <2>1. Listed(h)' <=> Listed(h) BY <1>2 DEF Listed
  <2>2. Undoable(h)'
    BY <1>0, <1>1, <1>2, <1>4, <1>5, <1>6, <1>7, <1>8, <1>t, <2>1 DEF Undoable, Capable, Twice,
       Early, Restorable, Path, Kept, Placed, PrivKept, Way, WithSocket, WithDescriptor, PcapType,
       Statuses
  <2> QED
    BY <1>0, <1>1, <1>2, <1>4, <1>5, <1>6, <1>7, <1>8, <1>t, <2>1, <2>2 DEF Plain, Undoable,
       Capable, Twice, Early, Restorable, Undoes, SetsMode, TookDown, SetsPromisc, Kept, Placed,
       PrivKept, Path, Way, Statuses
<1> QED BY <1>s, <1>t

(* The end of an activation without a ring. *)
LEMMA RcvBufStep ==
  ASSUME TypeInv, NEW h \in Handles, RcvBuf(h)
  PROVE  Steps(h) /\ (Undoable(h) => Plain(h))
<1> USE DEF Known
<1>0. OwnTypes /\ OtherTypes /\ SharedTypes /\ Path(h) BY Givens
<1>1. Known(h) BY Givens
<1>2. UNCHANGED <<state, priv, sock_fd, oldflags, call, blocks, cache, asked, sockets, iface,
                  pcaps_to_close, exiting, left, ringless>>
  BY DEF RcvBuf, Fail, Return, Goto, local, aside, marks, client, devices
<1>3. Sole(h)
  BY <1>0, <1>2 DEF Sole, OwnTypes, RcvBuf, Fail, Return, Goto
<1>4. p'[h] \in PcapType
  BY <1>1, ActivationAssumption DEF PcapType, Pointers, Types, SLL_HDR_LEN, NULL, RcvBuf,
     Fail, Return, Goto
<1>5. priv'[h] \in PrivType BY <1>1, <1>2
<1>6. pc[h] = "rcvbuf" /\ Kept(h)
  BY <1>1, <1>2 DEF Placed, Kept, PcapType, RcvBuf, Fail, Return, Goto
<1>7. \/ pc'[h] = "return" /\ status'[h] = status[h]
      \/ pc'[h] = "restore"
  BY <1>1, <1>2 DEF PcapType, RcvBuf, Fail, Return, Goto
<1>8. state'[h] \in {"none", "open", "closed"} /\ (pc'[h] # "idle" => state'[h] = "open")
  BY <1>1, <1>2, <1>4, <1>5, <1>6, <1>7 DEF NULL, RcvBuf, Fail, Return, Goto
<1>9. pc'[h] \in Places
  BY <1>1, <1>2, <1>4, <1>5, <1>6, <1>7 DEF Places, Way, RcvBuf, Fail, Return, Goto
<1>10. status'[h] \in Statuses
  BY <1>1, <1>2, <1>4, <1>5, <1>6, <1>7 DEF PCAP_ERROR, PCAP_ERROR_NO_SUCH_DEVICE,
     PCAP_ERROR_RFMON_NOTSUP, PCAP_ERROR_PERM_DENIED, PCAP_ERROR_IFACE_NOT_UP,
     PCAP_WARNING_PROMISC_NOTSUP, MmapFailed, PCAP_ERROR_NOT_ACTIVATED, Statuses, RcvBuf,
     Fail, Return, Goto
<1>11. sock_fd'[h] \in Sockets \cup {NULL} /\ oldflags'[h] \in BOOLEAN BY <1>1, <1>2
<1>12. OtherTypes' BY <1>0, <1>2 DEF OtherTypes, SharedTypes
<1>13. SharedTypes'
  BY <1>0, <1>1, <1>2, ActivationAssumption DEF SharedTypes, Closed, CloseError, Alloc,
     Dealloc, RcvBuf, Fail, Return, Goto
<1>14. Path(h)'
  BY <1>0, <1>1, <1>2, <1>4, <1>5, <1>6, <1>7 DEF Path, Kept, Placed, PrivKept, Way,
     WithSocket, WithDescriptor
<1>s. Steps(h)
  BY <1>0, <1>3, <1>4, <1>5, <1>6, <1>7, <1>8, <1>9, <1>10, <1>11, <1>12, <1>13, <1>14,
     Soles DEF TypeInv, Typed
<1>t. ASSUME Undoable(h) PROVE Plain(h)
  <2>1. Listed(h)' <=> Listed(h) BY <1>2 DEF Listed
  <2>2. Undoable(h)'
    BY <1>0, <1>1, <1>2, <1>4, <1>5, <1>6, <1>7, <1>t, <2>1 DEF Undoable, Capable, Twice, Early,
       Restorable, Path, Kept, Placed, PrivKept, Way, WithSocket, WithDescriptor, PcapType, Statuses
  <2> QED
    BY <1>0, <1>1, <1>2, <1>4, <1>5, <1>6, <1>7, <1>t, <2>1, <2>2 DEF Plain, Undoable,
       Capable, Twice, Early, Restorable, Undoes, SetsMode, TookDown, SetsPromisc, Kept, Placed,
       PrivKept, Path, Way, Statuses
<1> QED BY <1>s, <1>t

(* The descriptor of an old kernel; nothing is to be undone yet. *)
LEMMA OldStep ==
  ASSUME TypeInv, NEW h \in Handles, Old(h)
  PROVE  Steps(h) /\ (Undoable(h) => Plain(h))
<1> USE DEF Known
<1>0. OwnTypes /\ OtherTypes /\ SharedTypes /\ Path(h) BY Givens
<1>1. Known(h) BY Givens
<1>2. UNCHANGED <<state, sock_fd, oldflags, call, blocks, cache, asked, iface, pcaps_to_close,
                  exiting, errors, left, ringless>>
  BY DEF Old, Opened, Fail, Return, Goto, local, aside, marks, client, devices
<1>3. Sole(h)
  BY <1>0, <1>2, ZenonT(30) DEF Sole, OwnTypes, Old, Opened, Fail, Return, Goto
<1>4. /\ p'[h] \in PcapType
      /\ Placed(h)
  <2>1. \/ p' = p
        \/ \E s \in Sockets : p' = [p EXCEPT ![h].fd = s, ![h].nonblock = FALSE]
    BY DEF Old, Opened, Fail, Return, Goto
  <2>2. CASE p' = p
    <3> QED BY <1>1, <2>2 DEF Placed, Kept
  <2>3. CASE \E s \in Sockets : p' = [p EXCEPT ![h].fd = s, ![h].nonblock = FALSE]
    <3>1. \E s \in Sockets : p'[h] = [p[h] EXCEPT !.fd = s, !.nonblock = FALSE]
      BY <1>1, <2>3
    <3> QED BY <1>1, <3>1 DEF PcapType, Placed, Kept
  <2> QED BY <2>1, <2>2, <2>3
<1>5. /\ priv'[h] \in PrivType
      /\ PrivKept(h)
  <2>1. \/ priv' = priv
        \/ priv' = [priv EXCEPT ![h].cooked = FALSE]
    BY DEF Old, Opened, Fail, Return, Goto
  <2>2. CASE priv' = priv
    <3> QED BY <1>1, <2>2 DEF PrivKept
  <2>3. CASE priv' = [priv EXCEPT ![h].cooked = FALSE]
    <3>1. priv'[h] = [priv[h] EXCEPT !.cooked = FALSE] BY <1>1, <2>3
    <3> QED BY <1>1, <3>1 DEF PrivType, PrivKept
  <2> QED BY <2>1, <2>2, <2>3
<1>6. pc[h] = "old" /\ Placed(h) /\ PrivKept(h)
  BY <1>1, <1>2, <1>4, <1>5 DEF Placed, PrivKept, Old, Opened, Fail, Return, Goto
<1>7. p'[h].ops = p[h].ops
  <2>1. p' = p \/ \E s \in Sockets : p' = [p EXCEPT ![h].fd = s, ![h].nonblock = FALSE]
    BY DEF Old
  <2>2. ASSUME NEW s \in Sockets, p' = [p EXCEPT ![h].fd = s, ![h].nonblock = FALSE]
        PROVE  p'[h].ops = p[h].ops
    BY <1>1, <2>2 DEF PcapType
  <2> QED BY <2>1, <2>2
<1>8. \/ /\ pc'[h] = "oldbind" /\ p'[h].fd # NULL /\ p[h].source # "any"
         /\ status'[h] = status[h]
      \/ pc'[h] = "restore"
  <2>1. \/ /\ \E s \in Sockets : p' = [p EXCEPT ![h].fd = s, ![h].nonblock = FALSE]
           /\ pc'[h] = "oldbind" /\ p[h].source # "any" /\ status'[h] = status[h]
        \/ pc'[h] = "restore"
    BY <1>1 DEF Old, Fail, Goto
  <2>2. ASSUME NEW s \in Sockets, p' = [p EXCEPT ![h].fd = s, ![h].nonblock = FALSE]
        PROVE  p'[h].fd # NULL
    <3>1. s # NULL BY ActivationAssumption DEF NULL
    <3>2. p'[h].fd = s BY <1>1, <2>2 DEF PcapType
    <3> QED BY <3>1, <3>2
  <2> QED BY <2>1, <2>2
<1>9. state'[h] \in {"none", "open", "closed"} /\ (pc'[h] # "idle" => state'[h] = "open")
  BY <1>1, <1>2, <1>4, <1>5, <1>6, <1>7, <1>8 DEF NULL, Old, Opened, Fail, Return, Goto
<1>10. pc'[h] \in Places
  BY <1>1, <1>2, <1>4, <1>5, <1>6, <1>7, <1>8 DEF Places, Way, Old, Opened, Fail, Return,
     Goto
<1>11. status'[h] \in Statuses
  BY <1>1, <1>2, <1>4, <1>5, <1>6, <1>7, <1>8 DEF PCAP_ERROR, PCAP_ERROR_NO_SUCH_DEVICE,
     PCAP_ERROR_RFMON_NOTSUP, PCAP_ERROR_PERM_DENIED, PCAP_ERROR_IFACE_NOT_UP,
     PCAP_WARNING_PROMISC_NOTSUP, MmapFailed, PCAP_ERROR_NOT_ACTIVATED, Statuses, Old,
     Opened, Fail, Return, Goto
<1>12. sock_fd'[h] \in Sockets \cup {NULL} /\ oldflags'[h] \in BOOLEAN BY <1>1, <1>2
<1>13. OtherTypes' BY <1>0, <1>2 DEF OtherTypes, SharedTypes
<1>14. SharedTypes'
  BY <1>0, <1>1, <1>2, ActivationAssumption, OpenedTypes DEF SharedTypes, Closed,
     CloseError, Alloc, Dealloc, Old, Fail, Return, Goto
<1>15. Path(h)'
  BY <1>0, <1>1, <1>2, <1>4, <1>5, <1>6, <1>7, <1>8 DEF Path, Kept, Placed, PrivKept, Way,
     WithSocket, WithDescriptor
<1>s. Steps(h)
  BY <1>0, <1>3, <1>4, <1>5, <1>6, <1>7, <1>8, <1>9, <1>10, <1>11, <1>12, <1>13, <1>14,
     <1>15, Soles DEF TypeInv, Typed
<1>t. ASSUME Undoable(h) PROVE Plain(h)
  <2>1. Listed(h)' <=> Listed(h) BY <1>2 DEF Listed
  <2>2. Undoable(h)'
    BY <1>0, <1>1, <1>2, <1>4, <1>5, <1>6, <1>7, <1>8, <1>t, <2>1 DEF Undoable, Capable, Twice,
       Early, Restorable, Path, Kept, Placed, PrivKept, Way, WithSocket, WithDescriptor, PcapType,
       Statuses
  <2> QED
    BY <1>0, <1>1, <1>2, <1>4, <1>5, <1>6, <1>7, <1>8, <1>t, <2>1, <2>2 DEF Plain, Undoable,
       Capable, Twice, Early, Restorable, Undoes, SetsMode, TookDown, SetsPromisc, Kept, Placed,
       PrivKept
<1> QED BY <1>s, <1>t

(* Bound, and possibly on to promiscuous mode. *)
LEMMA OldBindStep ==
  ASSUME TypeInv, NEW h \in Handles, OldBind(h)
  PROVE  Steps(h) /\ (Undoable(h) => Plain(h))
<1> USE DEF Known
<1>0. OwnTypes /\ OtherTypes /\ SharedTypes /\ Path(h) BY Givens
<1>1. Known(h) BY Givens
<1>2. UNCHANGED <<state, priv, sock_fd, oldflags, call, blocks, cache, asked, sockets, iface,
                  pcaps_to_close, exiting, errors, left, ringless>>
  BY DEF OldBind, Fail, Return, Goto, local, aside, marks, client, devices
<1>3. Sole(h)
  BY <1>0, <1>2 DEF Sole, OwnTypes, OldBind, Fail, Return, Goto
<1>4. /\ p'[h] \in PcapType
      /\ Kept(h)
  <2>1. \/ p' = p
        \/ p' = [p EXCEPT ![h].linktype = Link(p[h].source).linktype,
                          ![h].dlt_list = Link(p[h].source).dlt_list]
    BY DEF OldBind, Fail, Return, Goto
  <2>2. CASE p' = p
    <3> QED BY <1>1, <2>2, LinkTypes DEF Placed, Kept
  <2>3. CASE p' = [p EXCEPT ![h].linktype = Link(p[h].source).linktype,
                            ![h].dlt_list = Link(p[h].source).dlt_list]
    <3>1. p'[h] = [p[h] EXCEPT !.linktype = Link(p[h].source).linktype,
                               !.dlt_list = Link(p[h].source).dlt_list]
      BY <1>1, <2>3
    <3> QED BY <1>1, <3>1, LinkTypes DEF PcapType, Placed, Kept
  <2> QED BY <2>1, <2>2, <2>3
<1>5. priv'[h] \in PrivType BY <1>1, <1>2
<1>6. pc[h] = "oldbind" /\ Kept(h)
  BY <1>1, <1>2, <1>4 DEF Placed, Kept, OldBind, Fail, Return, Goto
<1>7. \/ pc'[h] \in {"rcvbuf", "oldpromisc"} /\ status'[h] = status[h]
      \/ pc'[h] = "restore"
  BY <1>1, <1>2, <1>4 DEF OldBind, Fail, Return, Goto
<1>8. state'[h] \in {"none", "open", "closed"} /\ (pc'[h] # "idle" => state'[h] = "open")
  BY <1>1, <1>2, <1>4, <1>5, <1>6, <1>7 DEF NULL, OldBind, Fail, Return, Goto
<1>9. pc'[h] \in Places
  BY <1>1, <1>2, <1>4, <1>5, <1>6, <1>7 DEF Places, Way, OldBind, Fail, Return, Goto
<1>10. status'[h] \in Statuses
  BY <1>1, <1>2, <1>4, <1>5, <1>6, <1>7 DEF PCAP_ERROR, PCAP_ERROR_NO_SUCH_DEVICE,
     PCAP_ERROR_RFMON_NOTSUP, PCAP_ERROR_PERM_DENIED, PCAP_ERROR_IFACE_NOT_UP,
     PCAP_WARNING_PROMISC_NOTSUP, MmapFailed, PCAP_ERROR_NOT_ACTIVATED, Statuses, OldBind,
     Fail, Return, Goto
<1>11. sock_fd'[h] \in Sockets \cup {NULL} /\ oldflags'[h] \in BOOLEAN BY <1>1, <1>2
<1>12. OtherTypes' BY <1>0, <1>2 DEF OtherTypes, SharedTypes
<1>13. SharedTypes' BY <1>0, <1>2 DEF OtherTypes, SharedTypes
<1>14. Path(h)'
  BY <1>0, <1>1, <1>2, <1>4, <1>5, <1>6, <1>7 DEF Path, Kept, Placed, PrivKept, Way,
     WithSocket, WithDescriptor
<1>s. Steps(h)
  BY <1>0, <1>3, <1>4, <1>5, <1>6, <1>7, <1>8, <1>9, <1>10, <1>11, <1>12, <1>13, <1>14,
     Soles DEF TypeInv, Typed
<1>t. ASSUME Undoable(h) PROVE Plain(h)
  <2>1. Listed(h)' <=> Listed(h) BY <1>2 DEF Listed
  <2>2. Undoable(h)'
    BY <1>0, <1>1, <1>2, <1>4, <1>5, <1>6, <1>7, <1>t, <2>1 DEF Undoable, Capable, Twice, Early,
       Restorable, Path, Kept, Placed, PrivKept, Way, WithSocket, WithDescriptor, PcapType, Statuses
  <2> QED
    BY <1>0, <1>1, <1>2, <1>4, <1>5, <1>6, <1>7, <1>t, <2>1, <2>2 DEF Plain, Undoable,
       Capable, Twice, Early, Restorable, Undoes, SetsMode, TookDown, SetsPromisc, Kept, Placed,
       PrivKept
<1> QED BY <1>s, <1>t

(* A handle is released only when it is off the list. *)
LEMMA ReleaseStep ==
  ASSUME TypeInv, NEW h \in Handles, Release(h)
  PROVE  Steps(h) /\ (Undoable(h) => Plain(h))
<1> USE DEF Known
<1>0. OwnTypes /\ OtherTypes /\ SharedTypes /\ Path(h) BY Givens
<1>1. Known(h) BY Givens
<1>2. UNCHANGED <<sock_fd, status, oldflags, call, blocks, cache, asked, iface, pcaps_to_close,
                  exiting, left, ringless>>
  BY DEF Release, LiveCommon, LiveErrors, Gone, Fail, Return, Goto, local, aside, marks, client,
     devices
<1>3. Sole(h)
  BY <1>0, <1>2 DEF Sole, OwnTypes, Release, LiveCommon, LiveErrors, Gone, Fail, Return,
     Goto
<1>4. p'[h] \in PcapType
  BY <1>1, ActivationAssumption DEF PcapType, Pointers, Types, SLL_HDR_LEN, NULL, Release,
     LiveCommon, LiveErrors, Gone, Fail, Return, Goto
<1>5. priv'[h] \in PrivType
  BY <1>1, ActivationAssumption DEF PrivType, PcapType, Pointers, prepare_tpacket_socket,
     Monitor, Release, LiveCommon, LiveErrors, Gone, Fail, Return, Goto
<1>6. pc[h] = "release" /\ Placed(h) /\ PrivKept(h)
  BY <1>1, <1>2 DEF Placed, PrivKept, PcapType, PrivType, Release, LiveCommon, LiveErrors,
     Gone, Fail, Return, Goto
<1>7. pc'[h] \in {"idle", "return"}
  BY <1>1, <1>2 DEF PcapType, PrivType, Release, LiveCommon, LiveErrors, Gone, Fail, Return,
     Goto
<1>8. state'[h] \in {"none", "open", "closed"} /\ (pc'[h] # "idle" => state'[h] = "open")
  BY <1>1, <1>2, <1>4, <1>5, <1>6, <1>7 DEF NULL, Release, LiveCommon, LiveErrors, Gone,
     Fail, Return, Goto
<1>9. pc'[h] \in Places
  BY <1>1, <1>2, <1>4, <1>5, <1>6, <1>7 DEF Places, Way, Release, LiveCommon, LiveErrors,
     Gone, Fail, Return, Goto
<1>10. status'[h] \in Statuses BY <1>1, <1>2
<1>11. sock_fd'[h] \in Sockets \cup {NULL} /\ oldflags'[h] \in BOOLEAN BY <1>1, <1>2
<1>12. OtherTypes' BY <1>0, <1>2 DEF OtherTypes, SharedTypes
<1>13. SharedTypes'
  BY <1>0, <1>1, <1>2, ActivationAssumption DEF SharedTypes, Closed, CloseError, Alloc,
     Dealloc, Release, LiveCommon, LiveErrors, Gone, Fail, Return, Goto
<1>n. state'[h] # "none" BY <1>1, <1>6 DEF Release, Gone
<1>14. Path(h)'
  BY <1>n, <1>0, <1>1, <1>2, <1>4, <1>5, <1>6, <1>7 DEF Path, Kept, Placed, PrivKept, Way,
     WithSocket, WithDescriptor
<1>s. Steps(h)
  BY <1>0, <1>3, <1>4, <1>5, <1>6, <1>7, <1>8, <1>9, <1>10, <1>11, <1>12, <1>13, <1>14,
     Soles DEF TypeInv, Typed
<1>t. ASSUME Undoable(h) PROVE Plain(h)
  <2>1. Listed(h)' <=> Listed(h) BY <1>2 DEF Listed
  <2>2. Undoable(h)'
    BY <1>0, <1>1, <1>2, <1>4, <1>5, <1>6, <1>7, <1>t, <2>1 DEF Undoable, Capable, Twice, Early,
       Restorable, Path, Kept, Placed, PrivKept, Way, WithSocket, WithDescriptor, PcapType, Statuses
  <2> QED
    BY <1>0, <1>1, <1>2, <1>4, <1>5, <1>6, <1>7, <1>t, <2>1, <2>2 DEF Plain, Undoable,
       Capable, Twice, Early, Restorable, Undoes, SetsMode, TookDown, SetsPromisc, Kept, Placed,
       PrivKept
<1> QED BY <1>s, <1>t

(* A listed handle is activated when its call returns: its status is no error. *)
LEMMA ActivateReturnsStep ==
  ASSUME TypeInv, NEW h \in Handles, ActivateReturns(h)
  PROVE  Steps(h) /\ (Undoable(h) => Plain(h))
<1> USE DEF Known
<1>0. OwnTypes /\ OtherTypes /\ SharedTypes /\ Path(h) BY Givens
<1>1. Known(h) BY Givens
<1>2. UNCHANGED <<state, priv, sock_fd, cache, asked, sockets, iface, pcaps_to_close, exiting,
                  errors, left, ringless>>
  BY DEF ActivateReturns, Fail, Return, Goto, local, aside, marks, client, devices
<1>3. Sole(h)
  BY <1>0, <1>2 DEF Sole, OwnTypes, ActivateReturns, Fail, Return, Goto
<1>4. /\ p'[h] \in PcapType
      /\ p'[h].source = p[h].source /\ p'[h].fd = p[h].fd
      /\ status[h] < 0 \/ (p'[h].activated = TRUE /\ p'[h].ops = p[h].ops)
  <2>1. CASE status[h] >= 0
    <3>1. p' = [p EXCEPT ![h].activated = TRUE] BY <2>1 DEF ActivateReturns
    <3>2. p'[h] = [p[h] EXCEPT !.activated = TRUE] BY <1>1, <3>1
    <3> QED BY <1>1, <3>2 DEF PcapType
  <2>2. CASE status[h] < 0
    <3>1. p' = [p EXCEPT ![h].ops = "none"] BY <1>1, <2>2 DEF ActivateReturns, Statuses
    <3>2. p'[h] = [p[h] EXCEPT !.ops = "none"] BY <1>1, <3>1
    <3>3. p'[h] \in PcapType BY <1>1, <3>2 DEF PcapType
    <3>4. p'[h].source = p[h].source /\ p'[h].fd = p[h].fd BY <1>1, <3>2 DEF PcapType
    <3> QED BY <2>2, <3>3, <3>4
  <2>3. status[h] >= 0 \/ status[h] < 0 BY <1>1 DEF Statuses
  <2> QED BY <2>1, <2>2, <2>3
<1>5. priv'[h] \in PrivType BY <1>1, <1>2
<1>6. pc[h] = "return" /\ p'[h].source = p[h].source /\ p'[h].fd = p[h].fd
  BY <1>1, <1>2, <1>4 DEF ActivateReturns, Fail, Return, Goto
<1>7. \/ /\ status[h] >= 0 /\ pc'[h] = "idle"
         /\ p'[h].activated = TRUE /\ p'[h].ops = p[h].ops
      \/ status[h] < 0 /\ pc'[h] \in {"live", "idle"}
  BY <1>1, <1>2, <1>4 DEF PCAP_ERROR, PCAP_ERROR_NO_SUCH_DEVICE, PCAP_ERROR_RFMON_NOTSUP,
     PCAP_ERROR_PERM_DENIED, PCAP_ERROR_IFACE_NOT_UP, PCAP_WARNING_PROMISC_NOTSUP,
     MmapFailed, PCAP_ERROR_NOT_ACTIVATED, Statuses, ActivateReturns, Fail, Return, Goto
<1>8. state'[h] \in {"none", "open", "closed"} /\ (pc'[h] # "idle" => state'[h] = "open")
  BY <1>1, <1>2, <1>4, <1>5, <1>6, <1>7 DEF NULL, ActivateReturns, Fail, Return, Goto
<1>9. pc'[h] \in Places
  BY <1>1, <1>2, <1>4, <1>5, <1>6, <1>7 DEF Places, Way, ActivateReturns, Fail, Return, Goto
<1>10. status'[h] \in Statuses
  BY <1>1, <1>2, <1>4, <1>5, <1>6, <1>7 DEF PCAP_ERROR, PCAP_ERROR_NO_SUCH_DEVICE,
     PCAP_ERROR_RFMON_NOTSUP, PCAP_ERROR_PERM_DENIED, PCAP_ERROR_IFACE_NOT_UP,
     PCAP_WARNING_PROMISC_NOTSUP, MmapFailed, PCAP_ERROR_NOT_ACTIVATED, Statuses,
     ActivateReturns, Fail, Return, Goto
<1>11. sock_fd'[h] \in Sockets \cup {NULL} /\ oldflags'[h] \in BOOLEAN
  BY <1>1, <1>2, <1>4, <1>5, <1>6, <1>7 DEF NULL, ActivateReturns, Fail, Return, Goto
<1>12. OtherTypes'
  BY <1>0, <1>1, <1>2, ActivationAssumption DEF OtherTypes, CacheType, PcapType,
     BlocksAsked, PCAP_ERROR_NOT_ACTIVATED, ActivateReturns, Fail, Return, Goto
<1>13. SharedTypes' BY <1>0, <1>2 DEF OtherTypes, SharedTypes
<1>14. Path(h)'
  BY <1>0, <1>1, <1>2, <1>4, <1>5, <1>6, <1>7 DEF Path, Kept, Placed, PrivKept, Way,
     WithSocket, WithDescriptor
<1>s. Steps(h)
  BY <1>0, <1>3, <1>4, <1>5, <1>6, <1>7, <1>8, <1>9, <1>10, <1>11, <1>12, <1>13, <1>14,
     Soles DEF TypeInv, Typed
<1>t. ASSUME Undoable(h) PROVE Plain(h)
  <2>1. Listed(h)' <=> Listed(h) BY <1>2 DEF Listed
  <2>2. Undoable(h)'
    BY <1>0, <1>1, <1>2, <1>4, <1>5, <1>6, <1>7, <1>t, <2>1 DEF Undoable, Capable, Twice, Early,
       Restorable, Path, Kept, Placed, PrivKept, Way, WithSocket, WithDescriptor, PcapType, Statuses
  <2> QED
    BY <1>0, <1>1, <1>2, <1>4, <1>5, <1>6, <1>7, <1>t, <2>1, <2>2 DEF Plain, Undoable,
       Capable, Twice, Early, Restorable, Undoes, SetsMode, TookDown, SetsPromisc, Kept, Placed,
       PrivKept, Path, Way, Statuses
<1> QED BY <1>s, <1>t

(* A handle that was never active leaves nothing. *)
LEMMA LiveStep ==
  ASSUME TypeInv, NEW h \in Handles, Live(h)
  PROVE  Steps(h) /\ (Undoable(h) => Plain(h))
<1> USE DEF Known
<1>0. OwnTypes /\ OtherTypes /\ SharedTypes /\ Path(h) BY Givens
<1>1. Known(h) BY Givens
<1>2. UNCHANGED <<priv, sock_fd, status, oldflags, call, blocks, cache, asked, iface,
                  pcaps_to_close, exiting, left, ringless>>
  BY DEF Live, LiveCommon, LiveErrors, Gone, Fail, Return, Goto, local, aside, marks, client,
     devices
<1>3. Sole(h)
  BY <1>0, <1>2 DEF Sole, OwnTypes, Live, LiveCommon, LiveErrors, Gone, Fail, Return, Goto
<1>4. p'[h] \in PcapType
  BY <1>1, ActivationAssumption DEF PcapType, Pointers, Types, SLL_HDR_LEN, NULL, Live,
     LiveCommon, LiveErrors, Gone, Fail, Return, Goto
<1>5. priv'[h] \in PrivType BY <1>1, <1>2
<1>6. pc[h] = "live" /\ Placed(h)
  BY <1>1, <1>2 DEF Placed, PcapType, Live, LiveCommon, LiveErrors, Gone, Fail, Return, Goto
<1>7. pc'[h] = "idle"
  BY <1>1, <1>2 DEF PcapType, Live, LiveCommon, LiveErrors, Gone, Fail, Return, Goto
<1>8. state'[h] \in {"none", "open", "closed"} /\ (pc'[h] # "idle" => state'[h] = "open")
  BY <1>1, <1>2, <1>4, <1>5, <1>6, <1>7 DEF NULL, Live, LiveCommon, LiveErrors, Gone, Fail,
     Return, Goto
<1>9. pc'[h] \in Places
  BY <1>1, <1>2, <1>4, <1>5, <1>6, <1>7 DEF Places, Way, Live, LiveCommon, LiveErrors, Gone,
     Fail, Return, Goto
<1>10. status'[h] \in Statuses BY <1>1, <1>2
<1>11. sock_fd'[h] \in Sockets \cup {NULL} /\ oldflags'[h] \in BOOLEAN BY <1>1, <1>2
<1>12. OtherTypes' BY <1>0, <1>2 DEF OtherTypes, SharedTypes
<1>13. SharedTypes'
  BY <1>0, <1>1, <1>2, ActivationAssumption DEF SharedTypes, Closed, CloseError, Alloc,
     Dealloc, Live, LiveCommon, LiveErrors, Gone, Fail, Return, Goto
<1>n. state'[h] # "none" BY <1>1, <1>6 DEF Live, Gone
<1>14. Path(h)'
  BY <1>n, <1>0, <1>1, <1>2, <1>4, <1>5, <1>6, <1>7 DEF Path, Kept, Placed, PrivKept, Way,
     WithSocket, WithDescriptor
<1>s. Steps(h)
  BY <1>0, <1>3, <1>4, <1>5, <1>6, <1>7, <1>8, <1>9, <1>10, <1>11, <1>12, <1>13, <1>14,
     Soles DEF TypeInv, Typed
<1>t. ASSUME Undoable(h) PROVE Plain(h)
  <2>1. Listed(h)' <=> Listed(h) BY <1>2 DEF Listed
  <2>2. Undoable(h)'
    BY <1>0, <1>1, <1>2, <1>4, <1>5, <1>6, <1>7, <1>t, <2>1 DEF Undoable, Capable, Twice, Early,
       Restorable, Path, Kept, Placed, PrivKept, Way, WithSocket, WithDescriptor, PcapType, Statuses
  <2> QED
    BY <1>0, <1>1, <1>2, <1>4, <1>5, <1>6, <1>7, <1>t, <2>1, <2>2 DEF Plain, Undoable,
       Capable, Twice, Early, Restorable, Undoes, SetsMode, TookDown, SetsPromisc, Kept, Placed,
       PrivKept
<1> QED BY <1>s, <1>t

(* The ring goes first; what is to be undone comes next. *)
LEMMA DestroyStep ==
  ASSUME TypeInv, NEW h \in Handles, Destroy(h)
  PROVE  Steps(h) /\ (Undoable(h) => Plain(h))
<1> USE DEF Known
<1>0. OwnTypes /\ OtherTypes /\ SharedTypes /\ Path(h) BY Givens
<1>1. Known(h) BY Givens
<1>2. UNCHANGED <<state, p, sock_fd, status, oldflags, call, blocks, cache, asked, sockets,
                  iface, pcaps_to_close, exiting, left, ringless>>
  BY DEF Destroy, Fail, Return, Goto, local, aside, marks, client, devices
<1>3. Sole(h)
  BY <1>0, <1>2 DEF Sole, OwnTypes, Destroy, Fail, Return, Goto
<1>4. p'[h] \in PcapType BY <1>1, <1>2
<1>5. priv'[h] \in PrivType
  BY <1>1, ActivationAssumption DEF PrivType, PcapType, Pointers, prepare_tpacket_socket,
     Monitor, Destroy, Fail, Return, Goto
<1>6. pc[h] = "destroy" /\ PrivKept(h)
  BY <1>1, <1>2 DEF PrivKept, PrivType, Destroy, Fail, Return, Goto
<1>7. pc'[h] = "restore"
  BY <1>1, <1>2 DEF PrivType, Destroy, Fail, Return, Goto
<1>8. state'[h] \in {"none", "open", "closed"} /\ (pc'[h] # "idle" => state'[h] = "open")
  BY <1>1, <1>2, <1>4, <1>5, <1>6, <1>7 DEF NULL, Destroy, Fail, Return, Goto
<1>9. pc'[h] \in Places
  BY <1>1, <1>2, <1>4, <1>5, <1>6, <1>7 DEF Places, Way, Destroy, Fail, Return, Goto
<1>10. status'[h] \in Statuses BY <1>1, <1>2
<1>11. sock_fd'[h] \in Sockets \cup {NULL} /\ oldflags'[h] \in BOOLEAN BY <1>1, <1>2
<1>12. OtherTypes' BY <1>0, <1>2 DEF OtherTypes, SharedTypes
<1>13. SharedTypes'
  BY <1>0, <1>1, <1>2, ActivationAssumption DEF SharedTypes, Closed, CloseError, Alloc,
     Dealloc, Destroy, Fail, Return, Goto
<1>14. Path(h)'
  BY <1>0, <1>1, <1>2, <1>4, <1>5, <1>6, <1>7 DEF Path, Kept, Placed, PrivKept, Way,
     WithSocket, WithDescriptor
<1>s. Steps(h)
  BY <1>0, <1>3, <1>4, <1>5, <1>6, <1>7, <1>8, <1>9, <1>10, <1>11, <1>12, <1>13, <1>14,
     Soles DEF TypeInv, Typed
<1>t. ASSUME Undoable(h) PROVE Plain(h)
  <2>1. Listed(h)' <=> Listed(h) BY <1>2 DEF Listed
  <2>2. Undoable(h)'
    BY <1>0, <1>1, <1>2, <1>4, <1>5, <1>6, <1>7, <1>t, <2>1 DEF Undoable, Capable, Twice, Early,
       Restorable, Path, Kept, Placed, PrivKept, Way, WithSocket, WithDescriptor, PcapType, Statuses
  <2> QED
    BY <1>0, <1>1, <1>2, <1>4, <1>5, <1>6, <1>7, <1>t, <2>1, <2>2 DEF Plain, Undoable,
       Capable, Twice, Early, Restorable, Undoes, SetsMode, TookDown, SetsPromisc, Kept, Placed,
       PrivKept
<1> QED BY <1>s, <1>t

-----------------------------------------------------------------------------
(* The exit list.                                                            *)

(* An entry that is added is on the list, and the others stay. *)
LEMMA Adding ==
  ASSUME pcaps_to_close \in Seq(Handles), NEW h \in Handles,
         pcaps_to_close' = <<h>> \o pcaps_to_close,
         \A g \in Handles : Twice(g) => Twice(g)'
  PROVE  /\ Listed(h)' /\ \A g \in Handles \ {h} : Listed(g)' <=> Listed(g)
         /\ Distinct /\ (Listed(h) => Twice(h)') => Distinct'
<1>1. /\ DOMAIN pcaps_to_close' = 1..(Len(pcaps_to_close) + 1)
      /\ DOMAIN pcaps_to_close = 1..Len(pcaps_to_close) /\ Len(pcaps_to_close) \in Nat
      /\ pcaps_to_close'[1] = h
      /\ \A i \in 2..(Len(pcaps_to_close) + 1) : pcaps_to_close'[i] = pcaps_to_close[i - 1]
  OBVIOUS
<1>2. \A i \in DOMAIN pcaps_to_close : i + 1 \in DOMAIN pcaps_to_close' /\ i + 1 # 1
                                        /\ pcaps_to_close'[i + 1] = pcaps_to_close[i]
  BY <1>1
<1>3. \A i \in DOMAIN pcaps_to_close' :
        i = 1 \/ (i - 1 \in DOMAIN pcaps_to_close /\ pcaps_to_close'[i] = pcaps_to_close[i - 1])
  BY <1>1
<1>4. Listed(h)' BY <1>1 DEF Listed
<1>5. \A g \in Handles \ {h} : Listed(g)' <=> Listed(g)
  <2>1. ASSUME NEW g \in Handles \ {h}, Listed(g)' PROVE Listed(g)
    <3>1. PICK i \in DOMAIN pcaps_to_close' : pcaps_to_close'[i] = g BY <2>1 DEF Listed
    <3>2. i # 1 BY <1>1, <3>1
    <3> QED BY <1>3, <3>1, <3>2 DEF Listed
  <2>2. ASSUME NEW g \in Handles \ {h}, Listed(g) PROVE Listed(g)'
    BY <1>2, <2>2 DEF Listed
  <2> QED BY <2>1, <2>2
<1>6. Distinct /\ (Listed(h) => Twice(h)') => Distinct'
  <2>0. \A i \in DOMAIN pcaps_to_close' : pcaps_to_close'[i] \in Handles BY <1>1, <1>3
  <2> SUFFICES ASSUME Distinct, Listed(h) => Twice(h)', NEW i \in DOMAIN pcaps_to_close',
                      NEW j \in DOMAIN pcaps_to_close', pcaps_to_close'[i] = pcaps_to_close'[j]
               PROVE  i = j \/ Twice(pcaps_to_close[i])'
    BY DEF Distinct
  <2>g. PICK g \in Handles : pcaps_to_close'[i] = g /\ pcaps_to_close'[j] = g BY <2>0
  <2>t. Twice(g)' => Twice(pcaps_to_close[i])' BY <2>g DEF Twice
  <2>1. CASE g = h
    <3>1. i # 1 => Listed(h) BY <1>3, <2>1, <2>g DEF Listed
    <3>2. j # 1 => Listed(h) BY <1>3, <2>1, <2>g DEF Listed
    <3> QED BY <2>1, <2>t, <3>1, <3>2
  <2>2. CASE g # h
    <3>1. /\ i - 1 \in DOMAIN pcaps_to_close /\ pcaps_to_close[i - 1] = g
          /\ j - 1 \in DOMAIN pcaps_to_close /\ pcaps_to_close[j - 1] = g
      BY <1>1, <1>3, <2>2, <2>g
    <3>2. i - 1 = j - 1 \/ Twice(g) BY <3>1 DEF Distinct
    <3> QED BY <1>1, <2>t, <3>2
  <2> QED BY <2>1, <2>2
<1> QED BY <1>4, <1>5, <1>6

(* Taken out of the list once, a handle is off it unless it is noted for both *)
(* things.                                                                    *)
LEMMA Removing ==
  ASSUME pcaps_to_close \in Seq(Handles), NEW h \in Handles, Distinct,
         \A g \in Handles : Twice(g) => Twice(g)',
         pcaps_to_close' = pcap_remove_from_pcaps_to_close(h)
  PROVE  /\ Listed(h)' => Listed(h) /\ Twice(h)
         /\ \A g \in Handles \ {h} : Listed(g)' <=> Listed(g)
         /\ Distinct'
<1>1. CASE ~Listed(h)
  <2>1. pcaps_to_close' = pcaps_to_close
    BY <1>1 DEF Listed, pcap_remove_from_pcaps_to_close
  <2>2. \A i \in DOMAIN pcaps_to_close : pcaps_to_close[i] \in Handles OBVIOUS
  <2>3. Distinct' BY <2>1, <2>2 DEF Distinct
  <2> QED BY <1>1, <2>1, <2>3 DEF Listed
<1>2. CASE Listed(h)
  <2>1. PICK k \in DOMAIN pcaps_to_close : pcaps_to_close[k] = h BY <1>2 DEF Listed
  <2> DEFINE n == Len(pcaps_to_close)
             Past(i) == \E j \in 1..i : pcaps_to_close[j] = h
             From(i) == IF Past(i) THEN i + 1 ELSE i
  <2>2. n \in Nat /\ DOMAIN pcaps_to_close = 1..n /\ k \in 1..n BY <2>1
  <2>3. \A i \in 1..n : pcaps_to_close[i] \in Handles BY <2>2
  <2>4. pcaps_to_close' = [i \in 1..(n - 1) |-> IF \E j \in 1..i : pcaps_to_close[j] = h
                                                THEN pcaps_to_close[i + 1]
                                                ELSE pcaps_to_close[i]]
    BY <2>1 DEF pcap_remove_from_pcaps_to_close
  <2> HIDE DEF n
  <2>5. /\ DOMAIN pcaps_to_close' = 1..(n - 1)
        /\ \A i \in 1..(n - 1) : pcaps_to_close'[i] = pcaps_to_close[From(i)]
    BY <2>4
  <2>6. \A i, j \in 1..(n - 1) : i < j /\ Past(i) => Past(j)
    <3> SUFFICES ASSUME NEW i \in 1..(n - 1), NEW j \in 1..(n - 1), i < j, Past(i)
                 PROVE  Past(j)
      OBVIOUS
    <3>1. PICK m \in 1..i : pcaps_to_close[m] = h OBVIOUS
    <3>2. m \in 1..j BY <2>2
    <3> QED BY <3>1, <3>2
  <2>7. \A i \in 1..n : pcaps_to_close[i] = h => Past(i) BY <2>2
  <2>8. \A i \in 1..n : pcaps_to_close[i] # h /\ Past(i) => i - 1 \in 1..(n - 1) /\ Past(i - 1)
    <3> SUFFICES ASSUME NEW i \in 1..n, pcaps_to_close[i] # h, Past(i)
                 PROVE  i - 1 \in 1..(n - 1) /\ Past(i - 1)
      OBVIOUS
    <3>1. PICK m \in 1..i : pcaps_to_close[m] = h OBVIOUS
    <3>2. m # i BY <3>1
    <3>3. i - 1 \in 1..(n - 1) /\ m \in 1..(i - 1) BY <2>2, <3>2
    <3> QED BY <3>1, <3>3
  <2>9. \A i \in 1..n : ~Past(i) => i \in 1..(n - 1)
    <3> SUFFICES ASSUME NEW i \in 1..n, ~Past(i) PROVE i \in 1..(n - 1)
      OBVIOUS
    <3>1. k \notin 1..i BY <2>1
    <3> QED BY <2>2, <3>1
  <2>10. \A i \in 1..(n - 1) : Past(i) => \E j \in 1..n : pcaps_to_close[j] = h /\ j # i + 1
    <3> SUFFICES ASSUME NEW i \in 1..(n - 1), Past(i)
                 PROVE  \E j \in 1..n : pcaps_to_close[j] = h /\ j # i + 1
      OBVIOUS
    <3>1. PICK m \in 1..i : pcaps_to_close[m] = h OBVIOUS
    <3>2. m \in 1..n /\ m # i + 1 BY <2>2
    <3> QED BY <3>1, <3>2
  <2> HIDE DEF Past
  <2>11. \A i \in 1..(n - 1) : From(i) \in 1..n BY <2>2
  <2>12. \A i, j \in 1..(n - 1) : From(i) = From(j) => i = j
    <3>1. \A i, j \in 1..(n - 1) : i < j => From(i) < From(j) BY <2>2, <2>6
    <3>2. \A i \in 1..(n - 1) : From(i) \in Int BY <2>2, <2>11
    <3> HIDE DEF From
    <3> QED BY <2>2, <3>1, <3>2
  <2>13. \A i \in 1..n : pcaps_to_close[i] # h => \E j \in 1..(n - 1) : From(j) = i
    <3> SUFFICES ASSUME NEW i \in 1..n, pcaps_to_close[i] # h
                 PROVE  \E j \in 1..(n - 1) : From(j) = i
      OBVIOUS
    <3>1. CASE Past(i)
      <4>1. i - 1 \in 1..(n - 1) /\ From(i - 1) = i BY <2>2, <2>8, <3>1
      <4> QED BY <4>1
    <3>2. CASE ~Past(i)
      <4>1. i \in 1..(n - 1) /\ From(i) = i BY <2>9, <3>2
      <4> QED BY <4>1
    <3> QED BY <3>1, <3>2
  <2>14. ASSUME Listed(h)' PROVE Twice(h)
    <3>1. PICK i \in 1..(n - 1) : pcaps_to_close[From(i)] = h BY <2>5, <2>14 DEF Listed
    <3>2. i \in 1..n BY <2>2
    <3>3. Past(i) BY <2>7, <3>1, <3>2
    <3>4. From(i) = i + 1 BY <3>3
    <3>5. PICK j \in 1..n : pcaps_to_close[j] = h /\ j # From(i) BY <2>10, <3>3, <3>4
    <3>6. From(i) \in 1..n BY <2>11
    <3> HIDE DEF From
    <3> QED BY <2>2, <3>1, <3>5, <3>6 DEF Distinct
  <2> HIDE DEF From
  <2>15. ASSUME NEW g \in Handles \ {h} PROVE Listed(g)' <=> Listed(g)
    <3>1. ASSUME Listed(g)' PROVE Listed(g)
      <4>1. PICK i \in 1..(n - 1) : pcaps_to_close'[i] = g BY <2>5, <3>1 DEF Listed
      <4> QED BY <2>2, <2>5, <2>11, <4>1 DEF Listed
    <3>2. ASSUME Listed(g) PROVE Listed(g)'
      <4>1. PICK i \in 1..n : pcaps_to_close[i] = g BY <2>2, <3>2 DEF Listed
      <4>2. PICK j \in 1..(n - 1) : From(j) = i BY <2>13, <4>1
      <4> QED BY <2>5, <4>1, <4>2 DEF Listed
    <3> QED BY <3>1, <3>2
  <2>16. Distinct'
    <3>0. \A i \in 1..(n - 1) : pcaps_to_close'[i] \in Handles BY <2>3, <2>5, <2>11
    <3> SUFFICES ASSUME NEW i \in 1..(n - 1), NEW j \in 1..(n - 1), NEW g \in Handles,
                        pcaps_to_close'[i] = g, pcaps_to_close'[j] = g
                 PROVE  i = j \/ Twice(g)'
      BY <2>5, <3>0 DEF Distinct, Twice
    <3>1. From(i) = From(j) \/ Twice(g) BY <2>2, <2>5, <2>11 DEF Distinct
    <3>2. Twice(g) => Twice(g)' OBVIOUS
    <3> HIDE DEF From
    <3> QED BY <2>12, <3>1, <3>2
  <2> QED BY <1>2, <2>14, <2>15, <2>16
<1> QED BY <1>1, <1>2

-----------------------------------------------------------------------------
(* The steps that change an interface or the list.                           *)

(* What is said of the other handles stays so. *)
LEMMA OthersStay ==
  ASSUME NEW h \in Handles, Alone(h), \A g \in Handles \ {h} : Listed(g)' <=> Listed(g)
  PROVE  \A g \in Handles \ {h} :
           /\ p'[g].source = p[g].source /\ (Undoable(g) => Undoable(g)')
           /\ SetsMode(g) <=> SetsMode(g)'
           /\ TookDown(g) <=> TookDown(g)'
           /\ SetsPromisc(g) <=> SetsPromisc(g)'
<1> SUFFICES ASSUME NEW g \in Handles \ {h}
             PROVE  /\ p'[g].source = p[g].source /\ (Undoable(g) => Undoable(g)')
                    /\ SetsMode(g) <=> SetsMode(g)'
                    /\ TookDown(g) <=> TookDown(g)'
                    /\ SetsPromisc(g) <=> SetsPromisc(g)'
  OBVIOUS
<1>1. /\ state'[g] = state[g] /\ p'[g] = p[g] /\ priv'[g] = priv[g] /\ pc'[g] = pc[g]
      /\ status'[g] = status[g] /\ oldflags'[g] = oldflags[g] /\ (Listed(g)' <=> Listed(g))
  BY DEF Alone
<1>2. Undoable(g) => Undoable(g)' BY <1>1 DEF Undoable, Capable, Twice
<1>3. SetsMode(g) <=> SetsMode(g)' BY <1>1 DEF SetsMode, Undoes, Capable
<1>4. TookDown(g) <=> TookDown(g)' BY <1>1 DEF TookDown
<1>5. SetsPromisc(g) <=> SetsPromisc(g)' BY <1>1 DEF SetsPromisc, Undoes, Capable
<1> QED BY <1>1, <1>2, <1>3, <1>4, <1>5

(* What another handle owes it still owes. *)
LEMMA OthersOwe ==
  ASSUME NEW h \in Handles, Alone(h), \A g \in Handles \ {h} : Listed(g)' <=> Listed(g),
         Owed, NEW i \in Interfaces \ left
  PROVE  /\ iface[i].mode = Monitor /\ ~(p[h].source = i /\ SetsMode(h))
              => \E g \in Handles : p'[g].source = i /\ SetsMode(g)'
         /\ ~iface[i].up /\ ~(p[h].source = i /\ TookDown(h))
              => \E g \in Handles : p'[g].source = i /\ TookDown(g)'
         /\ iface[i].promisc /\ ~(p[h].source = i /\ SetsPromisc(h))
              => \E g \in Handles : p'[g].source = i /\ SetsPromisc(g)'
<1>1. ASSUME iface[i].mode = Monitor, ~(p[h].source = i /\ SetsMode(h))
      PROVE  \E g \in Handles : p'[g].source = i /\ SetsMode(g)'
  <2>1. PICK g \in Handles : p[g].source = i /\ SetsMode(g) BY <1>1 DEF Owed
  <2> QED BY <1>1, <2>1, OthersStay
<1>2. ASSUME ~iface[i].up, ~(p[h].source = i /\ TookDown(h))
      PROVE  \E g \in Handles : p'[g].source = i /\ TookDown(g)'
  <2>1. PICK g \in Handles : p[g].source = i /\ TookDown(g) BY <1>2 DEF Owed
  <2> QED BY <1>2, <2>1, OthersStay
<1>3. ASSUME iface[i].promisc, ~(p[h].source = i /\ SetsPromisc(h))
      PROVE  \E g \in Handles : p'[g].source = i /\ SetsPromisc(g)'
  <2>1. PICK g \in Handles : p[g].source = i /\ SetsPromisc(g) BY <1>3 DEF Owed
  <2> QED BY <1>3, <2>1, OthersStay
<1> QED BY <1>1, <1>2, <1>3

(* So an interface needs to be looked at only if it is the handle's, and is    *)
(* not left changed.                                                          *)
LEMMA OwedStill ==
  ASSUME NEW h \in Handles, Alone(h), \A g \in Handles \ {h} : Listed(g)' <=> Listed(g),
         Owed, p'[h].source = p[h].source, left \subseteq left',
         \A x \in Interfaces : x # p[h].source => iface'[x] = iface[x],
         p[h].source \in Interfaces \ left' =>
           LET i == p[h].source IN
           /\ iface'[i].mode = Monitor =>
                SetsMode(h)' \/ (iface[i].mode = Monitor /\ ~SetsMode(h))
           /\ ~iface'[i].up => TookDown(h)' \/ (~iface[i].up /\ ~TookDown(h))
           /\ iface'[i].promisc => SetsPromisc(h)' \/ (iface[i].promisc /\ ~SetsPromisc(h))
  PROVE  Owed'
<1> SUFFICES ASSUME NEW i \in Interfaces \ left'
             PROVE  /\ iface'[i].mode = Monitor
                         => \E g \in Handles : p'[g].source = i /\ SetsMode(g)'
                    /\ ~iface'[i].up => \E g \in Handles : p'[g].source = i /\ TookDown(g)'
                    /\ iface'[i].promisc
                         => \E g \in Handles : p'[g].source = i /\ SetsPromisc(g)'
  BY DEF Owed
<1>1. CASE p[h].source = i BY <1>1, OthersOwe
<1>2. CASE p[h].source # i
  <2>1. iface'[i] = iface[i] BY <1>2
  <2> QED BY <1>2, <2>1, OthersOwe
<1> QED BY <1>1, <1>2

(* A plain step keeps the invariant. *)
LEMMA PlainKeeps ==
  ASSUME NEW h \in Handles, Sound, Typed', Alone(h), Plain(h)
  PROVE  Sound'
<1>1. \A g \in Handles : Listed(g)' <=> Listed(g) BY DEF Plain, Listed
<1>2. \A g \in Handles : Undoable(g)' BY <1>1, OthersStay DEF Plain, Sound
<1>3. Distinct'
  <2>1. \A g \in Handles : Twice(g) => Twice(g)'
    BY DEF Plain, Alone, Twice
  <2>2. pcaps_to_close \in Seq(Handles) BY DEF Plain, Typed, SharedTypes
  <2>3. \A i \in DOMAIN pcaps_to_close : pcaps_to_close[i] \in Handles BY <2>2
  <2> QED BY <2>1, <2>3 DEF Plain, Sound, Distinct
<1>4. Owed'
  <2> SUFFICES ASSUME NEW i \in Interfaces \ left'
               PROVE  /\ iface'[i].mode = Monitor
                           => \E g \in Handles : p'[g].source = i /\ SetsMode(g)'
                      /\ ~iface'[i].up => \E g \in Handles : p'[g].source = i /\ TookDown(g)'
                      /\ iface'[i].promisc
                           => \E g \in Handles : p'[g].source = i /\ SetsPromisc(g)'
    BY DEF Owed
  <2>1. iface'[i] = iface[i] /\ i \notin left BY DEF Plain
  <2> QED BY <1>1, <2>1, OthersOwe DEF Plain, Sound
<1> QED BY <1>2, <1>3, <1>4 DEF Sound

(* A handle that is not on the list, or cannot undo anything, owes nothing. *)
LEMMA OffTheInterfaces ==
  ASSUME NEW h \in Handles, UNCHANGED <<iface, pcaps_to_close, left, priv>>,
         ~Listed(h) \/ ~Capable(h), pc[h] \notin {"mode", "up"}, Undoable(h)
  PROVE  Plain(h)
<1>1. Listed(h)' <=> Listed(h) BY DEF Listed
<1>2. Twice(h)' <=> Twice(h) BY DEF Twice
<1> QED BY <1>1, <1>2 DEF Plain, Undoable, Undoes, SetsMode, TookDown, SetsPromisc

(* A handle that will have something to undo is put on the list. *)
LEMMA Marked ==
  ASSUME TypeInv, NEW h \in Handles, NEW what \in {"promisc", "rfmon"}, MustDo(h, what)
  PROVE  /\ priv' = [priv EXCEPT ![h] = priv'[h]] /\ priv'[h] \in PrivType
         /\ priv'[h].must_do_on_close = priv[h].must_do_on_close \cup {what}
         /\ priv'[h].oldmode = priv[h].oldmode
         /\ pcaps_to_close' \in Seq(Handles)
         /\ Listed(h)' /\ \A g \in Handles \ {h} : Listed(g)' <=> Listed(g)
         /\ Distinct /\ (Listed(h) => Twice(h)') => Distinct'
<1>1. /\ DOMAIN priv = Handles /\ priv[h] \in PrivType /\ pcaps_to_close \in Seq(Handles)
  BY Givens DEF SharedTypes, Known
<1>2. priv'[h] = [priv[h] EXCEPT !.must_do_on_close = @ \cup {what}] BY <1>1 DEF MustDo
<1>3. /\ priv' = [priv EXCEPT ![h] = priv'[h]] /\ priv'[h] \in PrivType
      /\ priv'[h].must_do_on_close = priv[h].must_do_on_close \cup {what}
      /\ priv'[h].oldmode = priv[h].oldmode
  BY <1>1, <1>2 DEF MustDo, PrivType
<1>4. pcaps_to_close' = <<h>> \o pcaps_to_close BY DEF MustDo
<1>5. \A g \in Handles : Twice(g) => Twice(g)' BY <1>1, <1>3 DEF Twice
<1>6. /\ Listed(h)' /\ \A g \in Handles \ {h} : Listed(g)' <=> Listed(g)
      /\ Distinct /\ (Listed(h) => Twice(h)') => Distinct'
  BY <1>1, <1>4, <1>5, Adding
<1> QED BY <1>1, <1>3, <1>4, <1>6, Linked

(* Private ioctls set the mode at once, or the interface goes down, or the
   socket is closed. *)
LEMMA DownStep ==
  ASSUME TypeInv, NEW h \in Handles, Down(h)
  PROVE  Steps(h) /\ (Sound => Sound')
<1> USE DEF Known
<1>0. OwnTypes /\ OtherTypes /\ SharedTypes /\ Path(h) /\ Known(h) BY Givens
<1> DEFINE i == p[h].source
<1>1. i \in Interfaces /\ pc[h] = "down" /\ p[h].ops = "linux"
  BY <1>0 DEF Path, PcapType, Interfaces, Down, Way
<1>2. UNCHANGED <<state, p, call, blocks, cache, asked, exiting, left, ringless>>
  BY DEF Down, CloseAndFail, Fail, aside, marks, client
<1>3. \/ /\ iface' = [iface EXCEPT ![i].mode = Monitor] /\ MustDo(h, "rfmon")
         /\ pc' = [pc EXCEPT ![h] = "arptype"]
         /\ UNCHANGED <<status, sock_fd, sockets, errors, oldflags>>
      \/ /\ oldflags' = [oldflags EXCEPT ![h] = iface[i].up]
         /\ iface' = [iface EXCEPT ![i].up = FALSE]
         /\ pc' = [pc EXCEPT ![h] = "mode"]
         /\ UNCHANGED <<priv, status, sock_fd, sockets, pcaps_to_close, errors>>
      \/ /\ CloseAndFail(h, PCAP_ERROR) /\ UNCHANGED oldflags
  BY DEF Down, Goto
<1> HIDE DEF i
<1>4. iface[i] \in IfaceType /\ DOMAIN iface = Interfaces BY <1>0, <1>1 DEF SharedTypes
<1>c. ~Capable(h) /\ ~SetsMode(h) /\ ~TookDown(h) /\ ~SetsPromisc(h)
  BY <1>1 DEF Capable, Restorable, Early, Undoes, SetsMode, TookDown, SetsPromisc
<1>l. Sound => Undoable(h) /\ (Listed(h) => Twice(h)) BY <1>c DEF Sound, Undoable
<1>5. CASE /\ iface' = [iface EXCEPT ![i].mode = Monitor] /\ MustDo(h, "rfmon")
           /\ pc' = [pc EXCEPT ![h] = "arptype"]
           /\ UNCHANGED <<status, sock_fd, sockets, errors, oldflags>>
  <2>1. /\ iface' = [iface EXCEPT ![i] = iface'[i]] /\ iface'[i] \in IfaceType
        /\ iface'[i].up = iface[i].up /\ iface'[i].promisc = iface[i].promisc
    BY <1>1, <1>4, <1>5 DEF IfaceType
  <2>2. pc'[h] = "arptype" /\ Sole(h) BY <1>0, <1>2, <1>5, Marked DEF Sole, OwnTypes
  <2>3. SharedTypes' BY <1>0, <1>2, <1>5, <2>1, Marked DEF SharedTypes
  <2>4. OtherTypes' BY <1>0, <1>2 DEF OtherTypes
  <2>5. Path(h)'
    BY <1>0, <1>1, <1>2, <1>5, <2>2, Marked DEF Path, Way, WithSocket, WithDescriptor, i
  <2>6. Steps(h)
    BY <1>0, <1>1, <1>2, <1>5, <2>2, <2>3, <2>4, <2>5, Marked, Soles
       DEF TypeInv, Typed, Places, Way
  <2>7. ASSUME Sound PROVE Sound'
    <3>3. priv'[h].must_do_on_close = priv[h].must_do_on_close \cup {"rfmon"}
      BY <1>5, Marked
    <3>0. Listed(h) => Twice(h)' BY <1>l, <2>7, <3>3 DEF Twice
    <3>1. Listed(h)' /\ Distinct' /\ \A g \in Handles \ {h} : Listed(g)' <=> Listed(g)
      BY <1>5, <2>7, <3>0, Marked DEF Sound
    <3>2. Alone(h) BY <2>6 DEF Steps
    <3>c. Capable(h)' BY <1>0, <1>1, <1>2, <2>2 DEF Capable, Restorable, Early
    <3>4. Undoable(h)' BY <3>3, <3>c DEF Undoable
    <3>5. SetsMode(h)' BY <3>1, <3>3, <3>c DEF SetsMode, Undoes
    <3>6. Owed'
      BY <1>1, <1>2, <1>4, <1>c, <2>1, <2>7, <3>1, <3>2, <3>5, OwedStill DEF Sound, i
    <3> QED BY <2>7, <3>1, <3>2, <3>4, <3>6, OthersStay DEF Sound
  <2> QED BY <2>6, <2>7
<1>6. CASE /\ oldflags' = [oldflags EXCEPT ![h] = iface[i].up]
           /\ iface' = [iface EXCEPT ![i].up = FALSE]
           /\ pc' = [pc EXCEPT ![h] = "mode"]
           /\ UNCHANGED <<priv, status, sock_fd, sockets, pcaps_to_close, errors>>
  <2>1. /\ iface' = [iface EXCEPT ![i] = iface'[i]] /\ iface'[i] \in IfaceType
        /\ iface'[i].mode = iface[i].mode /\ iface'[i].promisc = iface[i].promisc
        /\ iface[i].up \in BOOLEAN
    BY <1>1, <1>4, <1>6 DEF IfaceType
  <2>2. pc'[h] = "mode" /\ oldflags'[h] = iface[i].up /\ Sole(h)
    BY <1>0, <1>2, <1>6 DEF Sole, OwnTypes
  <2>3. SharedTypes' BY <1>0, <1>2, <1>6, <2>1 DEF SharedTypes
  <2>4. OtherTypes' BY <1>0, <1>2 DEF OtherTypes
  <2>5. Path(h)' BY <1>0, <1>1, <1>2, <1>6, <2>2 DEF Path, Way, WithSocket, WithDescriptor
  <2>6. Steps(h)
    BY <1>0, <1>1, <1>2, <1>6, <2>1, <2>2, <2>3, <2>4, <2>5, Soles
       DEF TypeInv, Typed, Places, Way
  <2>7. ASSUME Sound PROVE Sound'
    <3>1. Distinct' /\ \A g \in Handles : Listed(g)' <=> Listed(g)
      BY <1>6, <2>7 DEF Sound, Distinct, Listed, Twice
    <3>2. Alone(h) BY <2>6 DEF Steps
    <3>3. Undoable(h)' BY <1>6, <1>l, <2>7, <3>1 DEF Undoable, Twice
    <3>4. iface[i].up => TookDown(h)' BY <2>2 DEF TookDown
    <3>5. Owed'
      BY <1>1, <1>2, <1>4, <1>c, <2>1, <2>7, <3>1, <3>2, <3>4, OwedStill DEF Sound, i
    <3> QED BY <2>7, <3>1, <3>2, <3>3, <3>5, OthersStay DEF Sound
  <2> QED BY <2>6, <2>7
<1>7. CASE CloseAndFail(h, PCAP_ERROR) /\ UNCHANGED oldflags
  <2>1. /\ UNCHANGED <<priv, iface, pcaps_to_close, oldflags>>
        /\ pc' = [pc EXCEPT ![h] = "restore"] /\ sock_fd' = [sock_fd EXCEPT ![h] = NULL]
        /\ status' = [status EXCEPT ![h] = PCAP_ERROR] /\ sockets' = Closed(sock_fd[h])
        /\ errors' = errors \cup CloseError(h, sock_fd[h])
    BY <1>7 DEF CloseAndFail, Fail, Goto
  <2>2. Sole(h) /\ pc'[h] = "restore" /\ sock_fd'[h] = NULL /\ status'[h] = PCAP_ERROR
    BY <1>0, <1>2, <2>1 DEF Sole, OwnTypes
  <2>3. SharedTypes' BY <1>0, <1>2, <2>1 DEF SharedTypes, Closed, CloseError
  <2>4. OtherTypes' BY <1>0, <1>2 DEF OtherTypes
  <2>5. Path(h)' BY <1>0, <1>2, <2>1, <2>2 DEF Path, Way, WithSocket, WithDescriptor
  <2>6. Steps(h)
    BY <1>0, <1>1, <1>2, <2>1, <2>2, <2>3, <2>4, <2>5, Soles
       DEF TypeInv, Typed, Places, Statuses, PCAP_ERROR
  <2>7. ASSUME Sound PROVE Sound'
    BY <1>1, <1>2, <1>c, <1>l, <2>1, <2>6, <2>7, OffTheInterfaces, PlainKeeps DEF Steps
  <2> QED BY <2>6, <2>7
<1> QED BY <1>3, <1>5, <1>6, <1>7

(* The mode is set, or refused, and then the interface is as it was. *)
LEMMA ModeStep ==
  ASSUME TypeInv, NEW h \in Handles, Mode(h)
  PROVE  Steps(h) /\ (Sound => Sound')
<1> USE DEF Known
<1>0. OwnTypes /\ OtherTypes /\ SharedTypes /\ Path(h) /\ Known(h) BY Givens
<1> DEFINE i == p[h].source
<1>1. i \in Interfaces /\ pc[h] = "mode" /\ p[h].ops = "linux"
  BY <1>0 DEF Path, PcapType, Interfaces, Mode, Way
<1>2. UNCHANGED <<state, p, priv, oldflags, call, blocks, cache, asked, exiting,
                  pcaps_to_close, ringless>>
  BY DEF Mode, aside, marks, client
<1>3. \/ /\ iface' = [iface EXCEPT ![i].mode = Monitor]
         /\ pc' = [pc EXCEPT ![h] = "up"]
         /\ UNCHANGED <<status, sock_fd, sockets, errors, left>>
      \/ /\ left' = IF oldflags[h] THEN left ELSE left \cup {i}
         /\ iface' = [iface EXCEPT ![i].up = oldflags[h], ![i].promisc = @ /\ oldflags[h]]
         /\ pc' = [pc EXCEPT ![h] = "restore"]
         /\ status' = [status EXCEPT ![h] = PCAP_ERROR_RFMON_NOTSUP]
         /\ sockets' = Closed(sock_fd[h]) /\ sock_fd' = [sock_fd EXCEPT ![h] = NULL]
         /\ errors' = errors \cup CloseError(h, sock_fd[h])
  BY DEF Mode, Fail, Goto
<1> HIDE DEF i
<1>4. iface[i] \in IfaceType /\ DOMAIN iface = Interfaces BY <1>0, <1>1 DEF SharedTypes
<1>5. ~Capable(h) /\ ~SetsMode(h) /\ ~SetsPromisc(h)
  BY <1>1 DEF Capable, Restorable, Early, Undoes, SetsMode, SetsPromisc
<1>6. Sound => Distinct' /\ \A g \in Handles : Listed(g)' <=> Listed(g)
  BY <1>2 DEF Sound, Distinct, Listed, Twice
<1>7. Sound => Undoable(h)' BY <1>2, <1>5, <1>6 DEF Sound, Undoable, Twice
<1>8. OtherTypes' BY <1>0, <1>2 DEF OtherTypes
<1>9. CASE /\ iface' = [iface EXCEPT ![i].mode = Monitor]
           /\ pc' = [pc EXCEPT ![h] = "up"]
           /\ UNCHANGED <<status, sock_fd, sockets, errors, left>>
  <2>1. /\ iface' = [iface EXCEPT ![i] = iface'[i]] /\ iface'[i] \in IfaceType
        /\ iface'[i].up = iface[i].up /\ iface'[i].promisc = iface[i].promisc
    BY <1>1, <1>4, <1>9 DEF IfaceType
  <2>2. pc'[h] = "up" /\ Sole(h) BY <1>0, <1>2, <1>9 DEF Sole, OwnTypes
  <2>3. SharedTypes' BY <1>0, <1>2, <1>9, <2>1 DEF SharedTypes
  <2>4. Path(h)' BY <1>0, <1>1, <1>2, <1>9, <2>2 DEF Path, Way, WithSocket, WithDescriptor
  <2>5. Steps(h)
    BY <1>0, <1>1, <1>2, <1>8, <1>9, <2>2, <2>3, <2>4, Soles DEF TypeInv, Typed, Places, Way
  <2>6. ASSUME Sound PROVE Sound'
    <3>1. Alone(h) BY <2>5 DEF Steps
    <3>2. SetsMode(h)' /\ (TookDown(h) => TookDown(h)')
      BY <1>2, <2>2 DEF SetsMode, TookDown
    <3>3. Owed'
      BY <1>1, <1>2, <1>4, <1>5, <1>6, <1>9, <2>1, <2>6, <3>1, <3>2, OwedStill DEF Sound, i
    <3> QED BY <1>6, <1>7, <2>6, <3>1, <3>3, OthersStay DEF Sound
  <2> QED BY <2>5, <2>6
<1>10. CASE /\ left' = IF oldflags[h] THEN left ELSE left \cup {i}
            /\ iface' = [iface EXCEPT ![i].up = oldflags[h], ![i].promisc = @ /\ oldflags[h]]
            /\ pc' = [pc EXCEPT ![h] = "restore"]
            /\ status' = [status EXCEPT ![h] = PCAP_ERROR_RFMON_NOTSUP]
            /\ sockets' = Closed(sock_fd[h]) /\ sock_fd' = [sock_fd EXCEPT ![h] = NULL]
            /\ errors' = errors \cup CloseError(h, sock_fd[h])
  <2>1. /\ iface' = [iface EXCEPT ![i] = iface'[i]] /\ iface'[i] \in IfaceType
        /\ iface'[i].up = oldflags[h] /\ iface'[i].mode = iface[i].mode
        /\ iface'[i].promisc => iface[i].promisc
    BY <1>0, <1>1, <1>4, <1>10 DEF IfaceType
  <2>2. /\ pc'[h] = "restore" /\ sock_fd'[h] = NULL /\ status'[h] = PCAP_ERROR_RFMON_NOTSUP
        /\ Sole(h)
    BY <1>0, <1>2, <1>10 DEF Sole, OwnTypes
  <2>3. SharedTypes' BY <1>0, <1>1, <1>2, <1>10, <2>1 DEF SharedTypes, Closed, CloseError
  <2>4. Path(h)' BY <1>0, <1>2, <2>2 DEF Path, Way, WithSocket, WithDescriptor
  <2>5. Steps(h)
    BY <1>0, <1>1, <1>2, <1>8, <2>2, <2>3, <2>4, Soles
       DEF TypeInv, Typed, Places, Statuses, PCAP_ERROR_RFMON_NOTSUP
  <2>6. ASSUME Sound PROVE Sound'
    <3>1. Alone(h) BY <2>5 DEF Steps
    <3>2. left \subseteq left' /\ (i \notin left' => iface'[i].up)
      BY <1>0, <1>10, <2>1
    <3>3. Owed'
      BY <1>1, <1>2, <1>4, <1>5, <1>6, <2>1, <2>6, <3>1, <3>2, OwedStill DEF Sound, i
    <3> QED BY <1>6, <1>7, <2>6, <3>1, <3>3, OthersStay DEF Sound
  <2> QED BY <2>5, <2>6
<1> QED BY <1>3, <1>9, <1>10

(* The interface is up again, if it was; the handle will put the mode back. *)
LEMMA UpStep ==
  ASSUME TypeInv, NEW h \in Handles, Up(h)
  PROVE  Steps(h) /\ (Sound => Sound')
<1> USE DEF Known
<1>0. OwnTypes /\ OtherTypes /\ SharedTypes /\ Path(h) /\ Known(h) BY Givens
<1> DEFINE i == p[h].source
<1>1. i \in Interfaces /\ pc[h] = "up" /\ p[h].ops = "linux"
  BY <1>0 DEF Path, PcapType, Interfaces, Up, Way
<1>2. UNCHANGED <<state, p, oldflags, call, blocks, cache, asked, exiting, ringless>>
  BY DEF Up, CloseAndFail, aside, marks, client
<1>3. \/ /\ iface' = [iface EXCEPT ![i].up = @ \/ oldflags[h]] /\ MustDo(h, "rfmon")
         /\ pc' = [pc EXCEPT ![h] = "arptype"]
         /\ UNCHANGED <<status, sock_fd, sockets, errors, left>>
      \/ CloseAndFail(h, PCAP_ERROR) /\ left' = left \cup {i}
  BY DEF Up, Goto
<1> HIDE DEF i
<1>4. iface[i] \in IfaceType /\ DOMAIN iface = Interfaces BY <1>0, <1>1 DEF SharedTypes
<1>5. ~Capable(h) /\ ~SetsPromisc(h)
  BY <1>1 DEF Capable, Restorable, Early, Undoes, SetsPromisc
<1>l. Sound => Undoable(h) /\ (Listed(h) => Twice(h)) BY <1>5 DEF Sound, Undoable
<1>6. OtherTypes' BY <1>0, <1>2 DEF OtherTypes
<1>7. CASE /\ iface' = [iface EXCEPT ![i].up = @ \/ oldflags[h]] /\ MustDo(h, "rfmon")
           /\ pc' = [pc EXCEPT ![h] = "arptype"]
           /\ UNCHANGED <<status, sock_fd, sockets, errors, left>>
  <2>1. /\ iface' = [iface EXCEPT ![i] = iface'[i]] /\ iface'[i] \in IfaceType
        /\ iface'[i].up = (iface[i].up \/ oldflags[h]) /\ iface'[i].mode = iface[i].mode
        /\ iface'[i].promisc = iface[i].promisc
    BY <1>0, <1>1, <1>4, <1>7 DEF IfaceType
  <2>2. pc'[h] = "arptype" /\ Sole(h) BY <1>0, <1>2, <1>7, Marked DEF Sole, OwnTypes
  <2>3. SharedTypes' BY <1>0, <1>2, <1>7, <2>1, Marked DEF SharedTypes
  <2>4. Path(h)'
    BY <1>0, <1>1, <1>2, <1>7, <2>2, Marked DEF Path, Way, WithSocket, WithDescriptor, i
  <2>5. Steps(h)
    BY <1>0, <1>1, <1>2, <1>6, <1>7, <2>2, <2>3, <2>4, Marked, Soles
       DEF TypeInv, Typed, Places, Way
  <2>6. ASSUME Sound PROVE Sound'
    <3>3. priv'[h].must_do_on_close = priv[h].must_do_on_close \cup {"rfmon"}
      BY <1>7, Marked
    <3>0. Listed(h) => Twice(h)' BY <1>l, <2>6, <3>3 DEF Twice
    <3>1. Listed(h)' /\ Distinct' /\ \A g \in Handles \ {h} : Listed(g)' <=> Listed(g)
      BY <1>7, <2>6, <3>0, Marked DEF Sound
    <3>2. Alone(h) BY <2>5 DEF Steps
    <3>c. Capable(h)' BY <1>0, <1>1, <1>2, <2>2 DEF Capable, Restorable, Early
    <3>4. Undoable(h)' BY <3>3, <3>c DEF Undoable
    <3>5. SetsMode(h)' BY <3>1, <3>3, <3>c DEF SetsMode, Undoes
    <3>6. TookDown(h) => iface'[i].up BY <2>1 DEF TookDown
    <3>7. ~iface'[i].up => ~iface[i].up BY <1>0, <1>4, <2>1 DEF IfaceType
    <3>8. Owed'
      BY <1>1, <1>2, <1>4, <1>5, <1>7, <2>1, <2>6, <3>1, <3>2, <3>5, <3>6, <3>7, OwedStill
         DEF Sound, i
    <3> QED BY <2>6, <3>1, <3>2, <3>4, <3>8, OthersStay DEF Sound
  <2> QED BY <2>5, <2>6
<1>8. CASE CloseAndFail(h, PCAP_ERROR) /\ left' = left \cup {i}
  <2>1. /\ UNCHANGED <<priv, iface, pcaps_to_close>>
        /\ pc' = [pc EXCEPT ![h] = "restore"] /\ sock_fd' = [sock_fd EXCEPT ![h] = NULL]
        /\ status' = [status EXCEPT ![h] = PCAP_ERROR] /\ sockets' = Closed(sock_fd[h])
        /\ errors' = errors \cup CloseError(h, sock_fd[h])
    BY <1>8 DEF CloseAndFail, Fail, Goto
  <2>2. Sole(h) /\ pc'[h] = "restore" /\ sock_fd'[h] = NULL /\ status'[h] = PCAP_ERROR
    BY <1>0, <1>2, <2>1 DEF Sole, OwnTypes
  <2>3. SharedTypes' BY <1>0, <1>1, <1>2, <1>8, <2>1 DEF SharedTypes, Closed, CloseError
  <2>4. Path(h)' BY <1>0, <1>2, <2>1, <2>2 DEF Path, Way, WithSocket, WithDescriptor
  <2>5. Steps(h)
    BY <1>0, <1>1, <1>2, <1>6, <2>1, <2>2, <2>3, <2>4, Soles
       DEF TypeInv, Typed, Places, Statuses, PCAP_ERROR
  <2>6. ASSUME Sound PROVE Sound'
    <3>1. Alone(h) BY <2>5 DEF Steps
    <3>2. Distinct' /\ \A g \in Handles : Listed(g)' <=> Listed(g)
      BY <2>1, <2>6 DEF Sound, Distinct, Listed, Twice
    <3>3. Undoable(h)' BY <1>l, <2>1, <2>6, <3>2 DEF Undoable, Twice
    <3>4. Owed' BY <1>2, <1>8, <2>1, <2>6, <3>1, <3>2, OwedStill DEF Sound, i
    <3> QED BY <2>6, <3>1, <3>2, <3>3, <3>4, OthersStay DEF Sound
  <2> QED BY <2>5, <2>6
<1> QED BY <1>3, <1>7, <1>8

(* Promiscuous mode of an old socket is a flag of the interface. *)
LEMMA OldPromiscStep ==
  ASSUME TypeInv, NEW h \in Handles, OldPromisc(h)
  PROVE  Steps(h) /\ (Sound => Sound')
<1> USE DEF Known
<1>0. OwnTypes /\ OtherTypes /\ SharedTypes /\ Path(h) /\ Known(h) BY Givens
<1> DEFINE i == p[h].source
<1>1. /\ i \in Interfaces /\ pc[h] = "oldpromisc" /\ p[h].ops = "linux" /\ p[h].fd # NULL
      /\ status[h] >= 0
  BY <1>0 DEF Path, PcapType, Interfaces, OldPromisc, Way, WithDescriptor, LinuxDevices
<1>2. UNCHANGED <<state, p, sock_fd, oldflags, call, blocks, cache, asked, exiting, sockets,
                  errors, left, ringless>>
  BY DEF OldPromisc, aside, marks, client
<1>3. \/ /\ UNCHANGED <<iface, priv, pcaps_to_close, status>>
         /\ pc' = [pc EXCEPT ![h] = "rcvbuf"]
      \/ /\ iface' = [iface EXCEPT ![i].promisc = TRUE] /\ MustDo(h, "promisc")
         /\ pc' = [pc EXCEPT ![h] = "rcvbuf"] /\ UNCHANGED status
      \/ /\ UNCHANGED <<iface, priv, pcaps_to_close>>
         /\ pc' = [pc EXCEPT ![h] = "restore"]
         /\ status' = [status EXCEPT ![h] = PCAP_ERROR]
  BY DEF OldPromisc, Goto, Fail
<1> HIDE DEF i
<1>4. iface[i] \in IfaceType /\ DOMAIN iface = Interfaces BY <1>0, <1>1 DEF SharedTypes
<1>5. ~TookDown(h) /\ pc[h] # "up" BY <1>1 DEF TookDown
<1>l. /\ priv[h].must_do_on_close \subseteq {"promisc", "rfmon"}
      /\ Sound => /\ Undoable(h)
                  /\ Listed(h) => Twice(h) \/ "rfmon" \in priv[h].must_do_on_close
  BY <1>0, <1>1 DEF Sound, Undoable, Early, PrivType
<1>6. OtherTypes' BY <1>0, <1>2 DEF OtherTypes
<1>7. CASE /\ UNCHANGED <<iface, priv, pcaps_to_close>>
           /\ \/ pc' = [pc EXCEPT ![h] = "rcvbuf"] /\ UNCHANGED status
              \/ /\ pc' = [pc EXCEPT ![h] = "restore"]
                 /\ status' = [status EXCEPT ![h] = PCAP_ERROR]
  <2>1. /\ Sole(h) /\ pc'[h] \in {"rcvbuf", "restore"} /\ status'[h] \in Statuses
        /\ pc'[h] = "rcvbuf" => status'[h] = status[h]
    BY <1>0, <1>2, <1>7 DEF Sole, OwnTypes, Statuses, PCAP_ERROR
  <2>2. SharedTypes' BY <1>0, <1>2, <1>7 DEF SharedTypes
  <2>3. Path(h)' BY <1>0, <1>1, <1>2, <1>7, <2>1 DEF Path, Way, WithSocket, WithDescriptor
  <2>4. Steps(h)
    BY <1>0, <1>1, <1>2, <1>6, <1>7, <2>1, <2>2, <2>3, Soles DEF TypeInv, Typed, Places, Way
  <2>5. ASSUME Sound PROVE Sound'
    <3>1. (Listed(h)' <=> Listed(h)) /\ (Twice(h)' <=> Twice(h)) BY <1>7 DEF Listed, Twice
    <3>c. Capable(h)' /\ pc'[h] \notin Early
      BY <1>0, <1>1, <1>2, <2>1 DEF Capable, Restorable, Early
    <3>2. Undoable(h)' BY <1>7, <1>l, <2>5, <3>1, <3>c DEF Undoable
    <3>3. Plain(h)
      BY <1>2, <1>5, <1>7, <3>1, <3>2, <3>c DEF Plain, Undoes, SetsMode, SetsPromisc
    <3> QED BY <2>4, <2>5, <3>3, PlainKeeps DEF Steps
  <2> QED BY <2>4, <2>5
<1>8. CASE /\ iface' = [iface EXCEPT ![i].promisc = TRUE] /\ MustDo(h, "promisc")
           /\ pc' = [pc EXCEPT ![h] = "rcvbuf"] /\ UNCHANGED status
  <2>1. /\ iface' = [iface EXCEPT ![i] = iface'[i]] /\ iface'[i] \in IfaceType
        /\ iface'[i].up = iface[i].up /\ iface'[i].mode = iface[i].mode
    BY <1>1, <1>4, <1>8 DEF IfaceType
  <2>2. pc'[h] = "rcvbuf" /\ Sole(h) BY <1>0, <1>2, <1>8, Marked DEF Sole, OwnTypes
  <2>3. SharedTypes' BY <1>0, <1>2, <1>8, <2>1, Marked DEF SharedTypes
  <2>4. Path(h)'
    BY <1>0, <1>1, <1>2, <1>8, <2>2, Marked DEF Path, Way, WithSocket, WithDescriptor, i
  <2>5. Steps(h)
    BY <1>0, <1>1, <1>2, <1>6, <1>8, <2>2, <2>3, <2>4, Marked, Soles
       DEF TypeInv, Typed, Places, Way
  <2>6. ASSUME Sound PROVE Sound'
    <3>3. priv'[h].must_do_on_close = priv[h].must_do_on_close \cup {"promisc"}
      BY <1>8, Marked
    <3>0. Listed(h) => Twice(h)' BY <1>l, <2>6, <3>3 DEF Twice
    <3>1. Listed(h)' /\ Distinct' /\ \A g \in Handles \ {h} : Listed(g)' <=> Listed(g)
      BY <1>8, <2>6, <3>0, Marked DEF Sound
    <3>2. Alone(h) BY <2>5 DEF Steps
    <3>c. Capable(h)' /\ pc'[h] \notin Early
      BY <1>0, <1>1, <1>2, <2>2 DEF Capable, Restorable, Early
    <3>4. Undoable(h)' BY <3>3, <3>c DEF Undoable
    <3>5. SetsPromisc(h)' /\ (SetsMode(h) => SetsMode(h)')
      BY <1>5, <3>1, <3>3, <3>c DEF SetsPromisc, SetsMode, Undoes
    <3>6. Owed'
      BY <1>1, <1>2, <1>4, <1>5, <2>1, <2>6, <3>1, <3>2, <3>5, OwedStill DEF Sound, i
    <3> QED BY <2>6, <3>1, <3>2, <3>4, <3>6, OthersStay DEF Sound
  <2> QED BY <2>5, <2>6
<1> QED BY <1>3, <1>7, <1>8

(* What is to be undone is undone, and the handle leaves the list. *)
LEMMA RestoreStep ==
  ASSUME TypeInv, NEW h \in Handles, Restore(h)
  PROVE  Steps(h) /\ (Sound => Sound')
<1> USE DEF Known
<1>0. OwnTypes /\ OtherTypes /\ SharedTypes /\ Path(h) /\ Known(h) BY Givens
<1> DEFINE i == p[h].source
           must == priv[h].must_do_on_close
<1>1. pc[h] = "restore" /\ pc' = [pc EXCEPT ![h] = "release"] BY DEF Restore, Goto
<1>2. UNCHANGED <<state, p, priv, call, sock_fd, status, oldflags, blocks, cache, asked,
                  sockets, exiting, ringless>>
  BY DEF Restore, local, aside, marks, client
<1>3. iface' = IF must = {} \/ p[h].fd = NULL THEN iface
               ELSE [iface EXCEPT ![i].promisc = @ /\ "promisc" \notin must,
                                  ![i].mode = IF "rfmon" \in must THEN priv[h].oldmode ELSE @]
  BY DEF Restore
<1>4. /\ pcaps_to_close' = IF must = {} THEN pcaps_to_close
                           ELSE pcap_remove_from_pcaps_to_close(h)
      /\ errors' = errors \cup (IF must # {} /\ priv[h].device = "null" THEN {"null device"}
                                                                       ELSE {})
  BY DEF Restore
<1>f. left' = IF must = {} \/ p[h].fd # NULL THEN left ELSE left \cup {i} BY DEF Restore
<1> HIDE DEF i
<1>5. DOMAIN iface = Interfaces /\ \A x \in Interfaces : iface[x] \in IfaceType
  BY <1>0 DEF SharedTypes
<1>6. priv[h].oldmode = "managed" BY <1>0 DEF Path
<1>7. /\ DOMAIN iface' = Interfaces
      /\ \A x \in Interfaces : x # i => iface'[x] = iface[x]
  BY <1>3, <1>5
<1>8. i \in Interfaces =>
        /\ iface'[i] \in IfaceType /\ iface'[i].up = iface[i].up
        /\ iface'[i].promisc => iface[i].promisc
        /\ iface'[i].mode = Monitor => iface[i].mode = Monitor
        /\ must # {} /\ p[h].fd # NULL =>
             /\ "promisc" \in must => ~iface'[i].promisc
             /\ "rfmon" \in must => iface'[i].mode # Monitor
  <2> SUFFICES ASSUME i \in Interfaces
               PROVE  /\ iface'[i] \in IfaceType /\ iface'[i].up = iface[i].up
                      /\ iface'[i].promisc => iface[i].promisc
                      /\ iface'[i].mode = Monitor => iface[i].mode = Monitor
                      /\ must # {} /\ p[h].fd # NULL =>
                           /\ "promisc" \in must => ~iface'[i].promisc
                           /\ "rfmon" \in must => iface'[i].mode # Monitor
    OBVIOUS
  <2>1. CASE must = {} \/ p[h].fd = NULL
    <3>1. iface' = iface BY <1>3, <2>1
    <3> QED BY <1>5, <2>1, <3>1
  <2>2. CASE ~(must = {} \/ p[h].fd = NULL)
    <3>1. iface'[i] = [iface[i] EXCEPT !.promisc = @ /\ "promisc" \notin must,
                                       !.mode = IF "rfmon" \in must THEN "managed" ELSE @]
      BY <1>3, <1>5, <1>6, <2>2
    <3> HIDE DEF must
    <3>2. iface[i] \in IfaceType BY <1>5
    <3> QED BY <3>1, <3>2 DEF IfaceType, Monitor
  <2> QED BY <2>1, <2>2
<1>9. iface' \in [Interfaces -> IfaceType]
  <2>1. \A x \in Interfaces : iface'[x] \in IfaceType BY <1>5, <1>7, <1>8
  <2>2. iface' = [x \in Interfaces |-> iface'[x]]
    BY <1>0, <1>3, <1>5 DEF SharedTypes
  <2> QED BY <2>1, <2>2
<1>10. pc'[h] = "release" /\ Sole(h) BY <1>0, <1>1, <1>2 DEF Sole, OwnTypes
<1>11. SharedTypes'
  <2>0. left' \subseteq Interfaces BY <1>0, <1>f DEF SharedTypes, Path, i
  <2>1. pcaps_to_close' \in Seq(Handles) BY <1>0, <1>4, Unlinked DEF SharedTypes
  <2> QED BY <1>0, <1>2, <1>4, <1>9, <2>0, <2>1 DEF SharedTypes
<1>12. OtherTypes' BY <1>0, <1>2 DEF OtherTypes
<1>13. Path(h)' BY <1>0, <1>2, <1>10 DEF Path, Way, WithSocket, WithDescriptor
<1>14. Steps(h)
  BY <1>0, <1>1, <1>2, <1>10, <1>11, <1>12, <1>13, Soles DEF TypeInv, Typed, Places
<1>15. ASSUME Sound PROVE Sound'
  <2>1. Alone(h) BY <1>14 DEF Steps
  <2>2. CASE must = {}
    <3>1. ~Listed(h) BY <1>15, <2>2 DEF Sound, Undoable
    <3>2. UNCHANGED <<iface, pcaps_to_close, left, priv>> BY <1>2, <1>3, <1>4, <1>f, <2>2
    <3> QED BY <1>1, <1>15, <2>1, <3>1, <3>2, <1>14, OffTheInterfaces,
           PlainKeeps DEF Sound, Steps
  <2>3. CASE must # {}
    <3>1. /\ Listed(h)' => Twice(h)
          /\ Distinct' /\ \A g \in Handles \ {h} : Listed(g)' <=> Listed(g)
      <4>1. \A g \in Handles : Twice(g) => Twice(g)' BY <1>2 DEF Twice
      <4> QED BY <1>0, <1>4, <1>15, <2>3, <4>1, Removing DEF SharedTypes, Sound
    <3>2. Undoable(h)' BY <1>2, <2>3, <3>1 DEF Undoable, Twice
    <3>3. left \subseteq left' /\ (i \notin left' => p[h].fd # NULL) BY <1>f, <2>3
    <3>4. /\ ~TookDown(h) /\ (SetsMode(h) => "rfmon" \in must)
          /\ SetsPromisc(h) => "promisc" \in must
      BY <1>1 DEF TookDown, SetsMode, SetsPromisc, Undoes
    <3>5. p'[h].source = i BY <1>2 DEF i
    <3> HIDE DEF must
    <3>6. Owed'
      BY <1>7, <1>8, <1>15, <2>1, <2>3, <3>1, <3>3, <3>4, <3>5, OwedStill DEF Sound, i
    <3> QED BY <1>15, <2>1, <3>1, <3>2, <3>6, OthersStay DEF Sound
  <2> QED BY <2>2, <2>3
<1> QED BY <1>14, <1>15

-----------------------------------------------------------------------------
(* All steps.                                                                *)

(* A step of a handle keeps the types, and the rest. *)
LEMMA HandleStep ==
  ASSUME TypeInv, NEW h \in Handles, Calls(h) \/ Running(h) \/ Inquiries(h)
  PROVE  Steps(h) /\ (Sound => Sound')
<1>1. ASSUME Steps(h) /\ (Undoable(h) => Plain(h))
      PROVE  Steps(h) /\ (Sound => Sound')
  BY <1>1, PlainKeeps DEF Steps, Sound
<1>2. CASE Setters(h) \/ PcapCreate(h) \/ PcapOpenLive(h) \/ PcapActivate(h) \/ Close(h)
  BY <1>1, <1>2, SettersStep, PcapCreateStep, PcapOpenLiveStep, PcapActivateStep, CloseStep
<1>3. CASE Calls(h) BY <1>2, <1>3 DEF Calls, Setters, PcapClose
<1>4. CASE Inquiries(h)
  BY <1>1, <1>4, PcapSetDataLinkStep, PcapCanSetRfMonStep, PcapSetNonBlockStep,
     getSnapshotLengthStep, getDataLinkTypeStep
     DEF Inquiries
<1>5. CASE Start(h) \/ Socket(h) \/ Rfmon(h) \/ ArpType(h) \/ Reopen(h) \/ Bind(h) \/ Finish(h)
  BY <1>1, <1>5, StartStep, SocketStep, RfmonStep, ArpTypeStep, ReopenStep, BindStep,
     FinishStep
<1>6. CASE Mmap(h) \/ RingRetry(h) \/ Ring(h) \/ Map(h) \/ RcvBuf(h) \/ Old(h) \/ OldBind(h)
  BY <1>1, <1>6, MmapStep, RingRetryStep, RingStep, MapStep, RcvBufStep, OldStep,
     OldBindStep
<1>7. CASE Release(h) \/ ActivateReturns(h) \/ Live(h) \/ Destroy(h) \/ Probe(h)
  BY <1>1, <1>7, ReleaseStep, ActivateReturnsStep, LiveStep, DestroyStep, ProbeStep
<1>8. CASE Down(h) \/ Mode(h) \/ Up(h) \/ OldPromisc(h) \/ Restore(h)
  BY <1>8, DownStep, ModeStep, UpStep, OldPromiscStep, RestoreStep
<1>9. CASE Running(h) BY <1>5, <1>6, <1>7, <1>8, <1>9 DEF Running
<1> QED BY <1>3, <1>4, <1>9

(* A handle's step keeps what is said of every handle. *)
LEMMA StepsKeep ==
  ASSUME TypeInv, NEW h \in Handles, Steps(h)
  PROVE  TypeInv'
<1>1. ASSUME NEW g \in Handles PROVE Path(g)'
  <2>1. CASE g = h BY <2>1 DEF Steps
  <2>2. CASE g # h
    <3>1. /\ state'[g] = state[g] /\ p'[g] = p[g] /\ priv'[g] = priv[g] /\ pc'[g] = pc[g]
          /\ sock_fd'[g] = sock_fd[g] /\ status'[g] = status[g]
      BY <2>2 DEF Steps, Alone
    <3>2. Path(g) BY DEF TypeInv
    <3> QED BY <3>1, <3>2 DEF Path
  <2> QED BY <2>1, <2>2
<1> QED BY <1>1 DEF TypeInv, Steps

(* What the steps that only end the process, or do nothing, leave alone. *)
LEMMA NothingMoves ==
  ASSUME TypeInv, exiting' \in BOOLEAN,
         UNCHANGED <<state, p, priv, pc, call, sock_fd, status, oldflags, blocks, cache, asked,
                     sockets, iface, pcaps_to_close, errors, left, ringless>>
  PROVE  TypeInv' /\ (Sound => Sound')
<1>1. Typed' BY DEF TypeInv, Typed, OwnTypes, OtherTypes, SharedTypes
<1>2. \A h \in Handles : Path(h)' BY DEF TypeInv, Path
<1>3. Sound => Distinct' BY DEF Sound, Distinct, Twice
<1>4. Sound => \A h \in Handles : Undoable(h)'
  BY DEF Sound, Undoable, Listed, Capable, Twice
<1>5. Sound => Owed'
  BY DEF Sound, Owed, SetsMode, TookDown, SetsPromisc, Listed, Undoes, Capable
<1> QED BY <1>1, <1>2, <1>3, <1>4, <1>5 DEF TypeInv, Sound

(* Every step. *)
LEMMA NextKeeps ==
  ASSUME TypeInv, [Next]_vars
  PROVE  TypeInv' /\ (Sound => Sound')
<1>1. CASE \E h \in Handles : Calls(h) \/ Running(h) \/ Inquiries(h)
  BY <1>1, HandleStep, StepsKeep
<1>2. CASE Exit BY <1>2, NothingMoves DEF Exit, local, aside, marks, client
<1>3. CASE CloseAll
  <2> DEFINE h == Head(pcaps_to_close)
  <2>1. pcaps_to_close \in Seq(Handles) /\ pcaps_to_close # <<>> /\ Close(h)
    BY <1>3 DEF CloseAll, TypeInv, Typed, SharedTypes
  <2>2. h \in Handles BY <2>1
  <2> HIDE DEF h
  <2>3. Steps(h) /\ (Undoable(h) => Plain(h)) BY <2>1, <2>2, CloseStep
  <2>4. TypeInv' BY <2>2, <2>3, StepsKeep
  <2>5. ASSUME Sound PROVE Sound'
    BY <2>2, <2>3, <2>5, PlainKeeps DEF Steps, Sound
  <2> QED BY <2>4, <2>5
<1>4. CASE UNCHANGED vars
  BY <1>4, NothingMoves DEF vars, TypeInv, Typed, SharedTypes
<1> QED BY <1>1, <1>2, <1>3, <1>4 DEF Next

(* Nothing is to be undone at first. *)
LEMMA InitHolds ==
  ASSUME Init
  PROVE  Inv
<1> DEFINE dev == CHOOSE d \in Devices : TRUE
<1>1. dev \in Devices BY ActivationAssumption
<1>2. p = [h \in Handles |-> NewPcap(dev)] BY DEF Init
<1> HIDE DEF dev
<1>3. \A h \in Handles : p[h] \in PcapType BY <1>1, <1>2, NewPcapType
<1>4. NewPriv \in PrivType BY DEF NewPriv, PrivType, Pointers
<1>5. OwnTypes
  BY <1>1, <1>2, <1>4, NewPcapType DEF Init, OwnTypes, Places, Way, Statuses, NULL
<1>6. OtherTypes BY DEF Init, OtherTypes, CacheType
<1>7. SharedTypes
  <2>1. Original \in IfaceType BY DEF Original, IfaceType
  <2>2. pcaps_to_close \in Seq(Handles) BY DEF Init
  <2> QED BY <2>1, <2>2 DEF Init, SharedTypes
<1>8. Typed BY <1>5, <1>6, <1>7 DEF Init, Typed
<1>9. \A h \in Handles : Path(h)
  BY DEF Init, Path, NewPriv, Way, WithSocket, WithDescriptor
<1>10. DOMAIN pcaps_to_close = {} BY DEF Init
<1>11. Distinct /\ \A h \in Handles : Undoable(h) BY <1>10 DEF Distinct, Undoable, Listed
<1>12. Owed BY DEF Init, Owed, Original, Monitor
<1> QED BY <1>8, <1>9, <1>11, <1>12 DEF Inv, TypeInv, Sound

(* TypeOK is part of the invariant. *)
LEMMA TypesImplied ==
  ASSUME TypeInv
  PROVE  TypeOK
BY DEF TypeInv, Typed, OwnTypes, OtherTypes, SharedTypes, TypeOK, StructuresOK

(* An entry of the list is a handle that can be undone. *)
LEMMA Lists ==
  ASSUME Inv
  PROVE  ListSound
<1> SUFFICES ASSUME NEW i \in DOMAIN pcaps_to_close, ~Twice(pcaps_to_close[i])
             PROVE  /\ \A j \in DOMAIN pcaps_to_close :
                          pcaps_to_close[j] = pcaps_to_close[i] => i = j
                    /\ state[pcaps_to_close[i]] = "open"
                    /\ priv[pcaps_to_close[i]].must_do_on_close # {}
  BY DEF ListSound, Twice
<1>1. pcaps_to_close[i] \in Handles
  <2>1. pcaps_to_close \in Seq(Handles) BY DEF Inv, TypeInv, Typed, SharedTypes
  <2> QED BY <2>1
<1>2. Undoable(pcaps_to_close[i]) /\ Listed(pcaps_to_close[i])
  BY <1>1 DEF Inv, Sound, Listed
<1> QED BY <1>2 DEF Inv, Sound, Distinct, Undoable, Capable

(* When nobody has anything to undo, the interfaces are as they were. *)
LEMMA Restored ==
  ASSUME Inv
  PROVE  InterfacesRestored
<1> SUFFICES ASSUME \/ \A h \in Handles : state[h] # "open"
                    \/ pcaps_to_close = <<>> /\ \A h \in Handles : pc[h] = "idle",
                    NEW i \in Interfaces \ left
             PROVE  iface[i] = Original
  BY DEF InterfacesRestored
<1>1. \A h \in Handles : pc[h] = "idle" BY DEF Inv, TypeInv, Typed
<1>2. \A h \in Handles : ~(Listed(h) /\ Capable(h))
  <2>1. CASE \A h \in Handles : state[h] # "open" BY <2>1 DEF Capable
  <2>2. CASE pcaps_to_close = <<>> BY <2>2 DEF Listed
  <2> QED BY <2>1, <2>2
<1>3. \A h \in Handles : ~SetsMode(h) /\ ~TookDown(h) /\ ~SetsPromisc(h)
  BY <1>1, <1>2 DEF SetsMode, TookDown, SetsPromisc, Undoes
<1>4. iface[i].mode # Monitor /\ iface[i].up /\ ~iface[i].promisc
  BY <1>3 DEF Inv, Sound, Owed
<1>5. iface[i] \in IfaceType BY DEF Inv, TypeInv, Typed, SharedTypes
<1> QED BY <1>4, <1>5 DEF IfaceType, Original

-----------------------------------------------------------------------------
(* Theorems.                                                                 *)

(* Every variable of an activation keeps its type, whatever fails, for any   *)
(* number of handles: a call is in progress on open handles only.            *)
THEOREM ActivationTypeCorrect == Spec => []TypeOK
<1>1. Init => TypeInv BY InitHolds DEF Inv
<1>2. TypeInv /\ [Next]_vars => TypeInv' BY NextKeeps
<1>3. TypeInv => TypeOK BY TypesImplied
<1> QED BY <1>1, <1>2, <1>3, PTL DEF Spec

(* The invariant. *)
LEMMA InvHolds == Spec => []Inv
<1>1. Init => Inv BY InitHolds
<1>2. Inv /\ [Next]_vars => Inv' BY NextKeeps DEF Inv
<1> QED BY <1>1, <1>2, PTL DEF Spec

(* pcap_close_all, which closes the first entry of pcaps_to_close until there *)
(* is none, frees no handle twice and closes only handles that are open and   *)
(* have something to undo, whatever has failed: only a handle noted for both  *)
(* things, after a bind refused in monitor mode, can be listed twice.         *)
THEOREM ListIsSound == Spec => []ListSound
<1>1. Spec => []Inv BY InvHolds
<1>2. Inv => ListSound BY Lists
<1> QED BY <1>1, <1>2, PTL

(* Whatever handles do to the flags and the wireless mode of an interface is  *)
(* undone when all are closed, or when the process exits, whatever has        *)
(* failed: but for the interfaces in left.                                    *)
THEOREM InterfacesAreRestored == Spec => []InterfacesRestored
<1>1. Spec => []Inv BY InvHolds
<1>2. Inv => InterfacesRestored BY Restored
<1> QED BY <1>1, <1>2, PTL

-----------------------------------------------------------------------------
(* On all devices: the shape of the records.                                 *)

Fields == {"source", "activated", "ops", "fd", "nonblock", "snapshot", "linktype", "dlt_list",
           "buffer", "promisc", "rfmon", "immediate", "timeout", "buffer_size"}
PrivFields == {"device", "oneshot_buffer", "mmapbuf", "must_do_on_close", "oldmode", "timeout",
               "cooked", "tp_version"}
Ops == {"none", "linux", "mmap", "device", "own"}

Shaped(q) ==
  /\ DOMAIN q = Fields
  /\ q.activated \in BOOLEAN /\ q.nonblock \in BOOLEAN /\ q.ops \in Ops /\ q.timeout \in Int

PrivShaped(r) == DOMAIN r = PrivFields /\ r.timeout \in Int

Shapes ==
  /\ DOMAIN p = Handles /\ \A h \in Handles : Shaped(p[h])
  /\ DOMAIN priv = Handles /\ \A h \in Handles : PrivShaped(priv[h])
  /\ DOMAIN pc = Handles /\ DOMAIN call = Handles /\ DOMAIN state = Handles
  /\ DOMAIN cache = Handles
  /\ \A h \in Handles : DOMAIN cache[h] = {"snapshotLength", "dataLinkType"}
  /\ asked \in [Handles -> BOOLEAN]
  /\ pcaps_to_close \in Seq(Handles)

(* A handle is activated between calls, and while it is asked, closed or
   cleaned up. *)
Quiet == {"idle", "probe", "restore", "release", "live", "destroy", "cleanup"}

(* Where a handle is between calls. *)
Resting == {"idle", "probe"}

(* From the packet socket to the ring. *)
RingSteps == {"socket", "rfmon", "down", "mode", "up", "arptype", "reopen", "bind", "finish",
              "mmap", "ring", "map"}

(* What an activation leaves of the handle's configuration. *)
Similar(q, r) ==
  /\ Shaped(q) /\ q.activated = r.activated /\ q.source = r.source /\ q.timeout = r.timeout
  /\ q.nonblock \in {r.nonblock, FALSE}
  /\ q.ops = r.ops \/ q.ops \in {"linux", "device", "own"}

(* Nothing of what is said here of other handles changes. *)
Others(h) ==
  /\ \A g \in Handles \ {h} :
       /\ p'[g] = p[g] /\ priv'[g] = priv[g] /\ pc'[g] = pc[g] /\ state'[g] = state[g]
       /\ call'[g] = call[g] /\ cache'[g] = cache[g] /\ asked'[g] = asked[g]
  /\ spoilt \subseteq spoilt'

(* A step of an activation, but the first, the last, and the one that maps
   the ring. *)
Effect(h) ==
  /\ pc[h] \notin Quiet \cup {"return", "start"}
  /\ Others(h) /\ Shapes'
  /\ cache' = cache /\ asked' = asked /\ state' = state /\ call' = call
  /\ Similar(p'[h], p[h])
  /\ priv'[h].timeout = priv[h].timeout
  /\ pc'[h] \in RingSteps => pc[h] \in RingSteps
  /\ pc'[h] \notin Resting

-----------------------------------------------------------------------------
(* The steps of which the activations of the devices are made.               *)

LEMMA Means ==
  ASSUME Shapes, NEW h \in Handles, pc[h] \notin Quiet \cup {"return", "start"},
         NEW step, step \notin RingSteps \cup Resting
  PROVE  /\ \A q : Similar(q, p[h]) /\ Proceed(h, step, q) => Effect(h)
         /\ \A st : Warn(h, step, st) => Effect(h)
         /\ \A n : Try(h, step, n) => Effect(h)
         /\ \A q : Similar(q, p[h]) /\ Descriptor(h, step, q) => Effect(h)
         /\ SecondDescriptor(h, step) => Effect(h)
         /\ Malloc(h, step) => Effect(h)
         /\ \A r : Take(h, step, r) => Effect(h)
         /\ Pass(h, step) => Effect(h)
<1>0. Similar(p[h], p[h]) BY DEF Shapes, Similar
<1>1. ASSUME UNCHANGED inert, Goto(h, step), spoilt' = spoilt,
             NEW q, Similar(q, p[h]), p' = [p EXCEPT ![h] = q]
      PROVE  Effect(h)
  <2>1. /\ state' = state /\ priv' = priv /\ call' = call /\ cache' = cache /\ asked' = asked
        /\ pcaps_to_close' = pcaps_to_close /\ pc' = [pc EXCEPT ![h] = step]
    BY <1>1 DEF inert, client, Goto
  <2>2. p'[h] = q /\ DOMAIN p' = Handles /\ \A g \in Handles \ {h} : p'[g] = p[g]
    BY <1>1 DEF Shapes
  <2>3. pc'[h] = step /\ DOMAIN pc' = Handles /\ \A g \in Handles \ {h} : pc'[g] = pc[g]
    BY <2>1 DEF Shapes
  <2>4. Others(h) BY <1>1, <2>1, <2>2, <2>3 DEF Others
  <2>5. \A g \in Handles : Shaped(p'[g]) BY <1>1, <2>2 DEF Shapes, Similar
  <2>6. Shapes' BY <2>1, <2>2, <2>3, <2>5 DEF Shapes
  <2> QED BY <1>1, <2>1, <2>2, <2>3, <2>4, <2>6 DEF Effect
<1>2. ASSUME UNCHANGED inert, Goto(h, step), spoilt' = spoilt, p' = p PROVE Effect(h)
  <2>1. /\ state' = state /\ priv' = priv /\ call' = call /\ cache' = cache /\ asked' = asked
        /\ pcaps_to_close' = pcaps_to_close /\ pc' = [pc EXCEPT ![h] = step]
    BY <1>2 DEF inert, client, Goto
  <2>2. pc'[h] = step /\ DOMAIN pc' = Handles /\ \A g \in Handles \ {h} : pc'[g] = pc[g]
    BY <2>1 DEF Shapes
  <2>3. Others(h) BY <1>2, <2>1, <2>2 DEF Others
  <2>4. Shapes' BY <1>2, <2>1, <2>2 DEF Shapes
  <2> QED BY <1>0, <1>2, <2>1, <2>2, <2>3, <2>4 DEF Effect
<1>3. \A q : Similar(q, p[h]) /\ Proceed(h, step, q) => Effect(h)
  BY <1>1 DEF Proceed, devices
<1>4. \A st : Warn(h, step, st) => Effect(h) BY <1>2 DEF Warn, devices
<1>5. \A n : Try(h, step, n) => Effect(h) BY <1>2 DEF Try, devices
<1>6. ASSUME NEW q, Similar(q, p[h]), Descriptor(h, step, q) PROVE Effect(h)
  <2>1. PICK s \in Sockets : p' = [p EXCEPT ![h] = [q EXCEPT !.fd = s, !.nonblock = FALSE]]
    BY <1>6 DEF Descriptor
  <2> DEFINE r == [q EXCEPT !.fd = s, !.nonblock = FALSE]
  <2>2. Similar(r, p[h])
    <3>1. DOMAIN q = Fields BY <1>6 DEF Similar, Shaped
    <3>2. /\ DOMAIN r = Fields /\ r.activated = q.activated /\ r.source = q.source
          /\ r.timeout = q.timeout /\ r.ops = q.ops /\ r.nonblock = FALSE
      BY <3>1
    <3> QED BY <1>6, <3>2 DEF Similar, Shaped
  <2> QED BY <1>1, <1>6, <2>1, <2>2 DEF Descriptor, devices
<1>7. SecondDescriptor(h, step) => Effect(h) BY <1>2 DEF SecondDescriptor, devices
<1>8. ASSUME Malloc(h, step) PROVE Effect(h)
  <2> DEFINE r == [p[h] EXCEPT !.buffer = "live"]
  <2>1. p' = [p EXCEPT ![h] = r] BY <1>8 DEF Malloc
  <2>2. Similar(r, p[h])
    <3>1. DOMAIN p[h] = Fields BY <1>0 DEF Similar, Shaped
    <3>2. /\ DOMAIN r = Fields /\ r.activated = p[h].activated /\ r.source = p[h].source
          /\ r.timeout = p[h].timeout /\ r.ops = p[h].ops /\ r.nonblock = p[h].nonblock
      BY <3>1
    <3> QED BY <1>0, <3>2 DEF Similar, Shaped
  <2> QED BY <1>1, <1>8, <2>1, <2>2 DEF Malloc, devices
<1>9. \A r : Take(h, step, r) => Effect(h) BY <1>2 DEF Take
<1>10. Pass(h, step) => Effect(h) BY <1>0, <1>3 DEF Pass
<1> QED BY <1>3, <1>4, <1>5, <1>6, <1>7, <1>8, <1>9, <1>10

(* With which an activation of a device ends or turns back. *)
LEMMA Ends ==
  ASSUME Shapes, NEW h \in Handles, pc[h] \notin Quiet \cup {"return", "start"}
  PROVE  /\ \A st : Answer(h, st) => Effect(h)
         /\ \A st : Forget(h, st) => Effect(h)
         /\ \A st : CloseOnly(h, st) => Effect(h)
         /\ \A st : Undo(h, st) => Effect(h)
         /\ \A st : Abort(h, st) => Effect(h)
         /\ dag_fail(h) => Effect(h)
         /\ \A ops \in {"device", "own"} : \A st, q :
              Similar(q, p[h]) /\ Done(h, ops, st, q) => Effect(h)
<1>0. Similar(p[h], p[h]) BY DEF Shapes, Similar
<1>1. ASSUME UNCHANGED inert, NEW step, step \notin RingSteps \cup Resting, Goto(h, step),
             spoilt \subseteq spoilt',
             DOMAIN p' = Handles, \A g \in Handles \ {h} : p'[g] = p[g], Similar(p'[h], p[h])
      PROVE  Effect(h)
  <2>1. /\ state' = state /\ priv' = priv /\ call' = call /\ cache' = cache /\ asked' = asked
        /\ pcaps_to_close' = pcaps_to_close /\ pc' = [pc EXCEPT ![h] = step]
    BY <1>1 DEF inert, client, Goto
  <2>2. pc'[h] = step /\ DOMAIN pc' = Handles /\ \A g \in Handles \ {h} : pc'[g] = pc[g]
    BY <2>1 DEF Shapes
  <2>3. Others(h) BY <1>1, <2>1, <2>2 DEF Others
  <2>4. \A g \in Handles : Shaped(p'[g]) BY <1>1 DEF Shapes, Similar
  <2>5. Shapes' BY <1>1, <2>1, <2>2, <2>4 DEF Shapes
  <2> QED BY <1>1, <2>1, <2>2, <2>3, <2>5 DEF Effect
<1>2. ASSUME UNCHANGED inert, NEW step, step \notin RingSteps \cup Resting, Goto(h, step),
             spoilt \subseteq spoilt', p' = p
      PROVE  Effect(h)
  BY <1>0, <1>1, <1>2 DEF Shapes
<1>12. ASSUME UNCHANGED inert, NEW step, step \notin RingSteps \cup Resting, Goto(h, step),
             spoilt \subseteq spoilt',
             NEW q, Similar(q, p[h]), p' = [p EXCEPT ![h] = q]
      PROVE  Effect(h)
  <2>1. p'[h] = q /\ DOMAIN p' = Handles /\ \A g \in Handles \ {h} : p'[g] = p[g]
    BY <1>12 DEF Shapes
  <2> QED BY <1>1, <1>12, <2>1
<1>3. \A step \in {"return", "cleanup", "dag.fail"} : step \notin RingSteps \cup Resting
  BY DEF RingSteps, Resting
<1>4. \A st : Answer(h, st) => Effect(h) BY <1>2, <1>3 DEF Answer, Return, devices
<1>5. \A st : Forget(h, st) => Effect(h) BY <1>2, <1>3 DEF Forget, Return
<1>6. \A st : CloseOnly(h, st) => Effect(h) BY <1>2, <1>3 DEF CloseOnly, Return
<1>7. ASSUME NEW st, Undo(h, st) PROVE Effect(h)
  <2> DEFINE r == [p[h] EXCEPT !.buffer = "null", !.dlt_list = {}, !.fd = NULL]
  <2>1. p' = [p EXCEPT ![h] = r] BY <1>7 DEF Undo, LiveCommon
  <2>2. Similar(r, p[h])
    <3>1. DOMAIN p[h] = Fields BY <1>0 DEF Similar, Shaped
    <3>2. /\ DOMAIN r = Fields /\ r.activated = p[h].activated /\ r.source = p[h].source
          /\ r.timeout = p[h].timeout /\ r.ops = p[h].ops /\ r.nonblock = p[h].nonblock
      BY <3>1
    <3> QED BY <1>0, <3>2 DEF Similar, Shaped
  <2>3. UNCHANGED inert /\ Goto(h, "return") /\ spoilt' = spoilt
    BY <1>7 DEF Undo, Return, devices
  <2> HIDE DEF r
  <2> QED BY <1>12, <1>3, <2>1, <2>2, <2>3
<1>8. \A st : Abort(h, st) => Effect(h) BY <1>2, <1>3 DEF Abort, devices
<1>9. dag_fail(h) => Effect(h) BY <1>2, <1>3 DEF dag_fail
<1>10. ASSUME NEW ops \in {"device", "own"}, NEW st, NEW q, Similar(q, p[h]), Done(h, ops, st, q)
       PROVE  Effect(h)
  <2> DEFINE r == [q EXCEPT !.ops = ops]
  <2>1. p' = [p EXCEPT ![h] = r] BY <1>10 DEF Done
  <2>2. Similar(r, p[h])
    <3>1. DOMAIN q = Fields BY <1>10 DEF Similar, Shaped
    <3>2. /\ DOMAIN r = Fields /\ r.activated = q.activated /\ r.source = q.source
          /\ r.timeout = q.timeout /\ r.ops = ops /\ r.nonblock = q.nonblock
      BY <3>1
    <3> QED BY <1>10, <3>2 DEF Similar, Shaped, Ops
  <2>3. UNCHANGED inert /\ Goto(h, "return") /\ spoilt' = spoilt
    BY <1>10 DEF Done, Return, devices
  <2> HIDE DEF r
  <2> QED BY <1>12, <1>3, <2>1, <2>2, <2>3
<1> QED BY <1>4, <1>5, <1>6, <1>7, <1>8, <1>9, <1>10

(* The fields that an activation sets besides keep a handle similar. *)
LEMMA Settings ==
  ASSUME NEW q, NEW r, Similar(q, r)
  PROVE  /\ \A v : /\ Similar([q EXCEPT !.linktype = v], r)
                   /\ Similar([q EXCEPT !.dlt_list = v], r)
                   /\ Similar([q EXCEPT !.snapshot = v], r)
                   /\ Similar([q EXCEPT !.buffer_size = v], r)
                   /\ Similar([q EXCEPT !.buffer = v], r)
                   /\ Similar([q EXCEPT !.promisc = v], r)
                   /\ Similar([q EXCEPT !.fd = v], r)
         /\ Similar([q EXCEPT !.nonblock = FALSE], r)
<1>1. DOMAIN q = Fields BY DEF Similar, Shaped
<1>2. \A v : Similar([q EXCEPT !.linktype = v], r) BY <1>1 DEF Similar, Shaped, Fields
<1>3. \A v : Similar([q EXCEPT !.dlt_list = v], r) BY <1>1 DEF Similar, Shaped, Fields
<1>4. \A v : Similar([q EXCEPT !.snapshot = v], r) BY <1>1 DEF Similar, Shaped, Fields
<1>5. \A v : Similar([q EXCEPT !.buffer_size = v], r) BY <1>1 DEF Similar, Shaped, Fields
<1>6. \A v : Similar([q EXCEPT !.buffer = v], r) BY <1>1 DEF Similar, Shaped, Fields
<1>7. \A v : Similar([q EXCEPT !.promisc = v], r) BY <1>1 DEF Similar, Shaped, Fields
<1>8. \A v : Similar([q EXCEPT !.fd = v], r) BY <1>1 DEF Similar, Shaped, Fields
<1>9. Similar([q EXCEPT !.nonblock = FALSE], r) BY <1>1 DEF Similar, Shaped, Fields
<1> QED BY <1>2, <1>3, <1>4, <1>5, <1>6, <1>7, <1>8, <1>9

(* The link types an interface may turn out to have. *)
LEMMA LinkTypesSimilar ==
  ASSUME NEW q, NEW r, Similar(q, r)
  PROVE  /\ \A v : Similar(Of(q, v), r)
         /\ Similar(Ethernet(q), r)
         /\ \A u \in Media(q) \cup Real(q) : Similar(u, r)
<1>1. \A v : Similar(Of(q, v), r) BY Settings DEF Of
<1>2. Similar(Ethernet(q), r) BY <1>1, Settings DEF Ethernet
<1> QED BY <1>1, <1>2 DEF Media, Real
(* Every step of an activation that is made of those. *)
LEMMA Activations ==
  ASSUME Shapes, NEW h \in Handles
  PROVE  /\ usb_activate(h) => Effect(h)
         /\ usb_mmap(h) => Effect(h)
         /\ can_activate(h) => Effect(h)
         /\ bt_activate(h) => Effect(h)
         /\ netfilter_send_config_msg(h) => Effect(h)
         /\ netfilter_open(h) => Effect(h)
         /\ netfilter_activate(h) => Effect(h)
         /\ dbus_activate(h) => Effect(h)
         /\ canusb_activate(h) => Effect(h)
         /\ snit_activate(h) => Effect(h)
         /\ nit_setflags(h) => Effect(h)
         /\ pf_open(h) => Effect(h)
         /\ pf_truncate(h) => Effect(h)
         /\ snoop_open(h) => Effect(h)
         /\ snoop_length(h) => Effect(h)
         /\ npf_open(h) => Effect(h)
         /\ npf_packet(h) => Effect(h)
         /\ pcap_conf_bufmod(h) => Effect(h)
         /\ pcap_alloc_databuf(h) => Effect(h)
         /\ libdlpi_activate(h) => Effect(h)
         /\ dlpi_open(h) => Effect(h)
         /\ dlpi_unit(h) => Effect(h)
         /\ dlpi_attach(h) => Effect(h)
         /\ dlpi_promisc(h) => Effect(h)
         /\ dl_dohpuxbind(h) => Effect(h)
         /\ dlpi_linktype(h) => Effect(h)
         /\ bpf_open(h) => Effect(h)
         /\ bpf_device(h) => Effect(h)
         /\ bpf_rfmon(h) => Effect(h)
         /\ bpf_zerocopy(h) => Effect(h)
         /\ bpf_size(h) => Effect(h)
         /\ bpf_type(h) => Effect(h)
         /\ bpf_apple(h) => Effect(h)
         /\ bpf_best(h) => Effect(h)
         /\ bpf_modes(h) => Effect(h)
         /\ bpf_buffer(h) => Effect(h)
         /\ dag_open(h) => Effect(h)
         /\ dag_settle(h) => Effect(h)
         /\ dag_get_datalink(h) => Effect(h)
         /\ new_pcap_dag(h) => Effect(h)
         /\ snf_activate(h) => Effect(h)
         /\ septel_activate(h) => Effect(h)
<1>1. Similar(p[h], p[h]) BY DEF Shapes, Similar
<1>2. ASSUME usb_activate(h) PROVE Effect(h)
  <2>1. pc[h] \notin Quiet \cup {"return", "start"} BY <1>2 DEF usb_activate, Quiet
  <2> QED
    BY <1>1, <1>2, <2>1, Means, Ends, Settings, LinkTypesSimilar DEF usb_activate, RingSteps,
       Resting
<1>3. ASSUME usb_mmap(h) PROVE Effect(h)
  <2>1. pc[h] \notin Quiet \cup {"return", "start"} BY <1>3 DEF usb_mmap, Quiet
  <2> QED
    BY <1>1, <1>3, <2>1, Means, Ends, Settings, LinkTypesSimilar DEF usb_mmap, RingSteps, Resting
<1>4. ASSUME can_activate(h) PROVE Effect(h)
  <2>1. pc[h] \notin Quiet \cup {"return", "start"} BY <1>4 DEF can_activate, Quiet
  <2> QED
    BY <1>1, <1>4, <2>1, Means, Ends, Settings, LinkTypesSimilar DEF can_activate, RingSteps,
       Resting
<1>5. ASSUME bt_activate(h) PROVE Effect(h)
  <2>1. pc[h] \notin Quiet \cup {"return", "start"} BY <1>5 DEF bt_activate, Quiet
  <2> QED
    BY <1>1, <1>5, <2>1, Means, Ends, Settings, LinkTypesSimilar DEF bt_activate, RingSteps,
       Resting
<1>6. ASSUME netfilter_send_config_msg(h) PROVE Effect(h)
  <2>1. pc[h] \notin Quiet \cup {"return", "start"}
    BY <1>6 DEF netfilter_send_config_msg, Quiet
  <2> QED
    BY <1>1, <1>6, <2>1, Means, Ends, Settings, LinkTypesSimilar DEF netfilter_send_config_msg,
       RingSteps, Resting
<1>7. ASSUME netfilter_open(h) PROVE Effect(h)
  <2>1. pc[h] \notin Quiet \cup {"return", "start"} BY <1>7 DEF netfilter_open, Quiet
  <2> QED
    BY <1>1, <1>7, <2>1, Means, Ends, Settings, LinkTypesSimilar DEF netfilter_open, RingSteps,
       Resting
<1>8. ASSUME netfilter_activate(h) PROVE Effect(h)
  <2>1. pc[h] \notin Quiet \cup {"return", "start"} BY <1>8 DEF netfilter_activate, Quiet
  <2> QED
    BY <1>1, <1>8, <2>1, Means, Ends, Settings, LinkTypesSimilar DEF netfilter_activate,
       RingSteps,
       Resting
<1>9. ASSUME dbus_activate(h) PROVE Effect(h)
  <2>1. pc[h] \notin Quiet \cup {"return", "start"} BY <1>9 DEF dbus_activate, Quiet
  <2> QED
    BY <1>1, <1>9, <2>1, Means, Ends, Settings, LinkTypesSimilar DEF dbus_activate, RingSteps,
       Resting
<1>10. ASSUME canusb_activate(h) PROVE Effect(h)
  <2>1. pc[h] \notin Quiet \cup {"return", "start"} BY <1>10 DEF canusb_activate, Quiet
  <2> QED
    BY <1>1, <1>10, <2>1, Means, Ends, Settings, LinkTypesSimilar DEF canusb_activate, RingSteps,
       Resting
<1>11. ASSUME snit_activate(h) PROVE Effect(h)
  <2>1. pc[h] \notin Quiet \cup {"return", "start"} BY <1>11 DEF snit_activate, Quiet
  <2> QED
    BY <1>1, <1>11, <2>1, Means, Ends, Settings, LinkTypesSimilar DEF snit_activate, RingSteps,
       Resting
<1>12. ASSUME nit_setflags(h) PROVE Effect(h)
  <2>1. pc[h] \notin Quiet \cup {"return", "start"} BY <1>12 DEF nit_setflags, Quiet
  <2> QED
    BY <1>1, <1>12, <2>1, Means, Ends, Settings, LinkTypesSimilar DEF nit_setflags, RingSteps,
       Resting
<1>13. ASSUME pf_open(h) PROVE Effect(h)
  <2>1. pc[h] \notin Quiet \cup {"return", "start"} BY <1>13 DEF pf_open, Quiet
  <2> QED
    BY <1>1, <1>13, <2>1, Means, Ends, Settings, LinkTypesSimilar DEF pf_open, RingSteps, Resting
<1>14. ASSUME pf_truncate(h) PROVE Effect(h)
  <2>1. pc[h] \notin Quiet \cup {"return", "start"} BY <1>14 DEF pf_truncate, Quiet
  <2> QED
    BY <1>1, <1>14, <2>1, Means, Ends, Settings, LinkTypesSimilar DEF pf_truncate, RingSteps,
       Resting
<1>15. ASSUME snoop_open(h) PROVE Effect(h)
  <2>1. pc[h] \notin Quiet \cup {"return", "start"} BY <1>15 DEF snoop_open, Quiet
  <2> QED
    BY <1>1, <1>15, <2>1, Means, Ends, Settings, LinkTypesSimilar DEF snoop_open, RingSteps,
       Resting
<1>16. ASSUME snoop_length(h) PROVE Effect(h)
  <2>1. pc[h] \notin Quiet \cup {"return", "start"} BY <1>16 DEF snoop_length, Quiet
  <2> QED
    BY <1>1, <1>16, <2>1, Means, Ends, Settings, LinkTypesSimilar DEF snoop_length, RingSteps,
       Resting
<1>17. ASSUME npf_open(h) PROVE Effect(h)
  <2>1. pc[h] \notin Quiet \cup {"return", "start"} BY <1>17 DEF npf_open, Quiet
  <2> QED
    BY <1>1, <1>17, <2>1, Means, Ends, Settings, LinkTypesSimilar DEF npf_open, RingSteps, Resting
<1>18. ASSUME npf_packet(h) PROVE Effect(h)
  <2>1. pc[h] \notin Quiet \cup {"return", "start"} BY <1>18 DEF npf_packet, Quiet
  <2> QED
    BY <1>1, <1>18, <2>1, Means, Ends, Settings, LinkTypesSimilar DEF npf_packet, RingSteps,
       Resting
<1>19. ASSUME pcap_conf_bufmod(h) PROVE Effect(h)
  <2>1. pc[h] \notin Quiet \cup {"return", "start"} BY <1>19 DEF pcap_conf_bufmod, Quiet
  <2> QED
    BY <1>1, <1>19, <2>1, Means, Ends, Settings, LinkTypesSimilar DEF pcap_conf_bufmod, RingSteps,
       Resting
<1>20. ASSUME pcap_alloc_databuf(h) PROVE Effect(h)
  <2>1. pc[h] \notin Quiet \cup {"return", "start"} BY <1>20 DEF pcap_alloc_databuf, Quiet
  <2> QED
    BY <1>1, <1>20, <2>1, Means, Ends, Settings, LinkTypesSimilar DEF pcap_alloc_databuf,
       RingSteps, Resting
<1>21. ASSUME libdlpi_activate(h) PROVE Effect(h)
  <2>1. pc[h] \notin Quiet \cup {"return", "start"} BY <1>21 DEF libdlpi_activate, Quiet
  <2> QED
    BY <1>1, <1>21, <2>1, Means, Ends, Settings, LinkTypesSimilar DEF libdlpi_activate, RingSteps,
       Resting, pcap_process_mactype, Promiscuous, AllSaps
<1>22. ASSUME dlpi_open(h) PROVE Effect(h)
  <2>1. pc[h] \notin Quiet \cup {"return", "start"} BY <1>22 DEF dlpi_open, Quiet
  <2> QED
    BY <1>1, <1>22, <2>1, Means, Ends, Settings, LinkTypesSimilar DEF dlpi_open, RingSteps,
       Resting
<1>23. ASSUME dlpi_unit(h) PROVE Effect(h)
  <2>1. pc[h] \notin Quiet \cup {"return", "start"} BY <1>23 DEF dlpi_unit, Quiet
  <2> QED
    BY <1>1, <1>23, <2>1, Means, Ends, Settings, LinkTypesSimilar DEF dlpi_unit, RingSteps,
       Resting
<1>24. ASSUME dlpi_attach(h) PROVE Effect(h)
  <2>1. pc[h] \notin Quiet \cup {"return", "start"} BY <1>24 DEF dlpi_attach, Quiet
  <2> QED
    BY <1>1, <1>24, <2>1, Means, Ends, Settings, LinkTypesSimilar DEF dlpi_attach, RingSteps,
       Resting
<1>25. ASSUME dlpi_promisc(h) PROVE Effect(h)
  <2>1. pc[h] \notin Quiet \cup {"return", "start"} BY <1>25 DEF dlpi_promisc, Quiet
  <2> QED
    BY <1>1, <1>25, <2>1, Means, Ends, Settings, LinkTypesSimilar DEF dlpi_promisc, RingSteps,
       Resting, Promiscuous, AllSaps
<1>26. ASSUME dl_dohpuxbind(h) PROVE Effect(h)
  <2>1. pc[h] \notin Quiet \cup {"return", "start"} BY <1>26 DEF dl_dohpuxbind, Quiet
  <2> QED
    BY <1>1, <1>26, <2>1, Means, Ends, Settings, LinkTypesSimilar DEF dl_dohpuxbind, RingSteps,
       Resting
<1>27. ASSUME dlpi_linktype(h) PROVE Effect(h)
  <2>1. pc[h] \notin Quiet \cup {"return", "start"} BY <1>27 DEF dlpi_linktype, Quiet
  <2> QED
    BY <1>1, <1>27, <2>1, Means, Ends, Settings, LinkTypesSimilar DEF dlpi_linktype, RingSteps,
       Resting, pcap_process_mactype
<1>28. ASSUME bpf_open(h) PROVE Effect(h)
  <2>1. pc[h] \notin Quiet \cup {"return", "start"} BY <1>28 DEF bpf_open, Quiet
  <2> QED
    BY <1>1, <1>28, <2>1, Means, Ends, Settings, LinkTypesSimilar DEF bpf_open, RingSteps, Resting
<1>29. ASSUME bpf_device(h) PROVE Effect(h)
  <2>1. pc[h] \notin Quiet \cup {"return", "start"} BY <1>29 DEF bpf_device, Quiet
  <2> QED
    BY <1>1, <1>29, <2>1, Means, Ends, Settings, LinkTypesSimilar DEF bpf_device, RingSteps,
       Resting
<1>30. ASSUME bpf_rfmon(h) PROVE Effect(h)
  <2>1. pc[h] \notin Quiet \cup {"return", "start"} BY <1>30 DEF bpf_rfmon, Quiet
  <2> QED
    BY <1>1, <1>30, <2>1, Means, Ends, Settings, LinkTypesSimilar DEF bpf_rfmon, RingSteps,
       Resting
<1>31. ASSUME bpf_zerocopy(h) PROVE Effect(h)
  <2>1. pc[h] \notin Quiet \cup {"return", "start"} BY <1>31 DEF bpf_zerocopy, Quiet
  <2> QED
    BY <1>1, <1>31, <2>1, Means, Ends, Settings, LinkTypesSimilar DEF bpf_zerocopy, RingSteps,
       Resting
<1>32. ASSUME bpf_size(h) PROVE Effect(h)
  <2>1. pc[h] \notin Quiet \cup {"return", "start"} BY <1>32 DEF bpf_size, Quiet
  <2> QED
    BY <1>1, <1>32, <2>1, Means, Ends, Settings, LinkTypesSimilar DEF bpf_size, RingSteps, Resting
<1>33. ASSUME bpf_type(h) PROVE Effect(h)
  <2>1. pc[h] \notin Quiet \cup {"return", "start"} BY <1>33 DEF bpf_type, Quiet
  <2> QED
    BY <1>1, <1>33, <2>1, Means, Ends, Settings, LinkTypesSimilar DEF bpf_type, RingSteps, Resting
<1>34. ASSUME bpf_apple(h) PROVE Effect(h)
  <2>1. pc[h] \notin Quiet \cup {"return", "start"} BY <1>34 DEF bpf_apple, Quiet
  <2> QED
    BY <1>1, <1>34, <2>1, Means, Ends, Settings, LinkTypesSimilar DEF bpf_apple, RingSteps,
       Resting
<1>35. ASSUME bpf_best(h) PROVE Effect(h)
  <2>1. pc[h] \notin Quiet \cup {"return", "start"} BY <1>35 DEF bpf_best, Quiet
  <2> QED
    BY <1>1, <1>35, <2>1, Means, Ends, Settings, LinkTypesSimilar DEF bpf_best, RingSteps, Resting
<1>36. ASSUME bpf_modes(h) PROVE Effect(h)
  <2>1. pc[h] \notin Quiet \cup {"return", "start"} BY <1>36 DEF bpf_modes, Quiet
  <2> QED
    BY <1>1, <1>36, <2>1, Means, Ends, Settings, LinkTypesSimilar DEF bpf_modes, RingSteps,
       Resting
<1>37. ASSUME bpf_buffer(h) PROVE Effect(h)
  <2>1. pc[h] \notin Quiet \cup {"return", "start"} BY <1>37 DEF bpf_buffer, Quiet
  <2> QED
    BY <1>1, <1>37, <2>1, Means, Ends, Settings, LinkTypesSimilar DEF bpf_buffer, RingSteps,
       Resting
<1>38. ASSUME dag_open(h) PROVE Effect(h)
  <2>1. pc[h] \notin Quiet \cup {"return", "start"} BY <1>38 DEF dag_open, Quiet
  <2> QED
    BY <1>1, <1>38, <2>1, Means, Ends, Settings, LinkTypesSimilar DEF dag_open, RingSteps, Resting
<1>39. ASSUME dag_settle(h) PROVE Effect(h)
  <2>1. pc[h] \notin Quiet \cup {"return", "start"} BY <1>39 DEF dag_settle, Quiet
  <2> QED
    BY <1>1, <1>39, <2>1, Means, Ends, Settings, LinkTypesSimilar DEF dag_settle, RingSteps,
       Resting
<1>40. ASSUME dag_get_datalink(h) PROVE Effect(h)
  <2>1. pc[h] \notin Quiet \cup {"return", "start"} BY <1>40 DEF dag_get_datalink, Quiet
  <2> QED
    BY <1>1, <1>40, <2>1, Means, Ends, Settings, LinkTypesSimilar DEF dag_get_datalink, RingSteps,
       Resting
<1>41. ASSUME new_pcap_dag(h) PROVE Effect(h)
  <2>1. pc[h] \notin Quiet \cup {"return", "start"} BY <1>41 DEF new_pcap_dag, Quiet
  <2> QED
    BY <1>1, <1>41, <2>1, Means, Ends, Settings, LinkTypesSimilar DEF new_pcap_dag, RingSteps,
       Resting
<1>42. ASSUME snf_activate(h) PROVE Effect(h)
  <2>1. pc[h] \notin Quiet \cup {"return", "start"} BY <1>42 DEF snf_activate, Quiet
  <2> QED
    BY <1>1, <1>42, <2>1, Means, Ends, Settings, LinkTypesSimilar DEF snf_activate, RingSteps,
       Resting
<1>43. ASSUME septel_activate(h) PROVE Effect(h)
  <2>1. pc[h] \notin Quiet \cup {"return", "start"} BY <1>43 DEF septel_activate, Quiet
  <2> QED BY <1>1, <1>43, <2>1, Means, Ends, Settings, LinkTypesSimilar DEF septel_activate
<1> QED
  BY <1>2, <1>3, <1>4, <1>5, <1>6, <1>7, <1>8, <1>9, <1>10, <1>11, <1>12, <1>13, <1>14,
     <1>15, <1>16, <1>17, <1>18, <1>19, <1>20, <1>21, <1>22, <1>23, <1>24, <1>25, <1>26,
     <1>27, <1>28, <1>29, <1>30, <1>31, <1>32, <1>33, <1>34, <1>35, <1>36, <1>37, <1>38,
     <1>39, <1>40, <1>41, <1>42, <1>43

(* What every step of an activation leaves alone, by parts. *)
KeepsHandle(h) ==
  /\ DOMAIN p' = Handles /\ \A g \in Handles \ {h} : p'[g] = p[g]
  /\ Similar(p'[h], p[h])

KeepsPriv(h) ==
  /\ DOMAIN priv' = Handles /\ \A g \in Handles \ {h} : priv'[g] = priv[g]
  /\ DOMAIN priv'[h] = PrivFields /\ priv'[h].timeout = priv[h].timeout

Moved(h) ==
  /\ pc[h] \notin Quiet \cup {"return", "start"}
  /\ DOMAIN pc' = Handles /\ \A g \in Handles \ {h} : pc'[g] = pc[g]
  /\ pc'[h] \in RingSteps => pc[h] \in RingSteps
  /\ pc'[h] \notin Resting

Aside ==
  /\ state' = state /\ call' = call /\ cache' = cache /\ asked' = asked
  /\ spoilt \subseteq spoilt' /\ pcaps_to_close' \in Seq(Handles)

(* What a step does to the fields of its handle, of which the effect is made. *)
LEMMA Together ==
  ASSUME Shapes, NEW h \in Handles, KeepsHandle(h), KeepsPriv(h), Moved(h), Aside
  PROVE  Effect(h)
<1>1. Others(h) BY DEF KeepsHandle, KeepsPriv, Moved, Aside, Others
<1>2. \A g \in Handles : Shaped(p'[g]) BY DEF KeepsHandle, Similar, Shapes
<1>3. \A g \in Handles : PrivShaped(priv'[g]) BY DEF KeepsPriv, PrivShaped, Shapes
<1>4. Shapes' BY <1>2, <1>3 DEF Shapes, KeepsHandle, KeepsPriv, Moved, Aside
<1> QED BY <1>1, <1>4 DEF Effect, KeepsHandle, KeepsPriv, Moved, Aside

(* The steps of an activation that are not made of those: on Linux, but for
   the first and the one that maps the ring, and some on the other devices. *)
LEMMA OtherActivations ==
  ASSUME Shapes, NEW h \in Handles
  PROVE  /\ canusb_opendevice(h) => Effect(h)
         /\ canusb_startcapture(h) => Effect(h)
         /\ get_dlpi_ppa(h) => Effect(h)
         /\ monitor_mode(h) => Effect(h)
         /\ Socket(h) => Effect(h)
         /\ Rfmon(h) => Effect(h)
         /\ Down(h) => Effect(h)
         /\ Mode(h) => Effect(h)
         /\ Up(h) => Effect(h)
         /\ ArpType(h) => Effect(h)
         /\ Reopen(h) => Effect(h)
         /\ Bind(h) => Effect(h)
         /\ Finish(h) => Effect(h)
         /\ Mmap(h) => Effect(h)
         /\ RingRetry(h) => Effect(h)
         /\ Ring(h) => Effect(h)
         /\ RcvBuf(h) => Effect(h)
         /\ Old(h) => Effect(h)
         /\ OldBind(h) => Effect(h)
         /\ OldPromisc(h) => Effect(h)
<1>1. /\ DOMAIN p = Handles /\ Similar(p[h], p[h]) /\ DOMAIN p[h] = Fields
      /\ DOMAIN priv = Handles /\ DOMAIN priv[h] = PrivFields
      /\ DOMAIN pc = Handles
      /\ pcaps_to_close \in Seq(Handles) /\ <<h>> \o pcaps_to_close \in Seq(Handles)
  BY DEF Shapes, Similar, Shaped, PrivShaped
<1>2. ASSUME canusb_opendevice(h) PROVE Effect(h)
  <2>1. KeepsHandle(h) BY <1>1, <1>2 DEF canusb_opendevice, Take, PCAP_ERROR, KeepsHandle
  <2>2. KeepsPriv(h)
    BY <1>1, <1>2 DEF canusb_opendevice, Take, Return, PCAP_ERROR, inert, client, KeepsPriv
  <2>3. Moved(h)
    BY <1>1, <1>2 DEF canusb_opendevice, Take, Return, PCAP_ERROR, inert, client, Goto,
       Moved, Quiet, RingSteps, Resting
  <2>4. Aside
    BY <1>1, <1>2 DEF canusb_opendevice, Take, Return, PCAP_ERROR, inert, client, Aside
  <2> QED BY <2>1, <2>2, <2>3, <2>4, Together
<1>3. ASSUME canusb_startcapture(h) PROVE Effect(h)
  <2>1. KeepsHandle(h)
    <3>1. \/ \E s \in Free : p' = [p EXCEPT ![h] = [p[h] EXCEPT
               !.fd = s, !.nonblock = FALSE, !.ops = "own", !.linktype = "OTHER"]]
          \/ p' = [p EXCEPT ![h] = [p[h] EXCEPT !.ops = "own", !.linktype = "OTHER"]]
      BY <1>3 DEF canusb_startcapture
    <3>2. ASSUME NEW q, DOMAIN q = Fields, p' = [p EXCEPT ![h] = q], q.activated = p[h].activated,
                 q.source = p[h].source, q.timeout = p[h].timeout, q.ops = "own",
                 q.nonblock = p[h].nonblock \/ q.nonblock = FALSE
          PROVE  KeepsHandle(h)
      BY <1>1, <3>2 DEF KeepsHandle, Similar, Shaped, Ops
    <3>3. ASSUME NEW s, p' = [p EXCEPT ![h] = [p[h] EXCEPT
                 !.fd = s, !.nonblock = FALSE, !.ops = "own", !.linktype = "OTHER"]]
          PROVE  KeepsHandle(h)
      <4> DEFINE q == [p[h] EXCEPT !.fd = s, !.nonblock = FALSE, !.ops = "own",
                                   !.linktype = "OTHER"]
      <4>1. /\ DOMAIN q = Fields /\ q.activated = p[h].activated /\ q.source = p[h].source
            /\ q.timeout = p[h].timeout /\ q.ops = "own" /\ q.nonblock = FALSE
        BY <1>1
      <4>2. p' = [p EXCEPT ![h] = q] BY <3>3
      <4> HIDE DEF q
      <4> QED BY <3>2, <4>1, <4>2
    <3>4. ASSUME p' = [p EXCEPT ![h] = [p[h] EXCEPT !.ops = "own", !.linktype = "OTHER"]]
          PROVE  KeepsHandle(h)
      <4> DEFINE q == [p[h] EXCEPT !.ops = "own", !.linktype = "OTHER"]
      <4>1. /\ DOMAIN q = Fields /\ q.activated = p[h].activated /\ q.source = p[h].source
            /\ q.timeout = p[h].timeout /\ q.ops = "own" /\ q.nonblock = p[h].nonblock
        BY <1>1
      <4>2. p' = [p EXCEPT ![h] = q] BY <3>4
      <4> HIDE DEF q
      <4> QED BY <3>2, <4>1, <4>2
    <3> QED BY <3>1, <3>3, <3>4
  <2>2. KeepsPriv(h) BY <1>1, <1>3 DEF canusb_startcapture, inert, KeepsPriv
  <2>3. Moved(h)
    BY <1>1, <1>3 DEF canusb_startcapture, Return, inert, client, Goto, Moved, Quiet,
       RingSteps, Resting
  <2>4. Aside BY <1>1, <1>3 DEF canusb_startcapture, Return, inert, client, Aside
  <2> QED BY <2>1, <2>2, <2>3, <2>4, Together
<1>4. ASSUME get_dlpi_ppa(h) PROVE Effect(h)
  <2>1. KeepsHandle(h) BY <1>1, <1>4 DEF get_dlpi_ppa, Take, Abort, KeepsHandle
  <2>2. KeepsPriv(h)
    BY <1>1, <1>4 DEF get_dlpi_ppa, Take, Abort, inert, client, devices, KeepsPriv
  <2>3. Moved(h)
    BY <1>1, <1>4 DEF get_dlpi_ppa, Take, Abort, inert, client, devices, Goto, Moved, Quiet,
       RingSteps, Resting
  <2>4. Aside BY <1>1, <1>4 DEF get_dlpi_ppa, Take, Abort, inert, client, devices, Aside
  <2> QED BY <2>1, <2>2, <2>3, <2>4, Together
<1>5. ASSUME monitor_mode(h) PROVE Effect(h)
  <2>1. KeepsHandle(h) BY <1>1, <1>5 DEF monitor_mode, Pass, Proceed, Abort, MustDo, KeepsHandle
  <2>2. KeepsPriv(h)
    BY <1>1, <1>5 DEF monitor_mode, Pass, Proceed, Abort, MustDo, inert, client, devices,
       KeepsPriv, PrivFields
  <2>3. Moved(h)
    BY <1>1, <1>5 DEF monitor_mode, Pass, Proceed, Abort, MustDo, inert, client, devices,
       Goto, Moved, Quiet, RingSteps, Resting
  <2>4. Aside
    BY <1>1, <1>5 DEF monitor_mode, Pass, Proceed, Abort, MustDo, inert, client, devices,
       Aside
  <2> QED BY <2>1, <2>2, <2>3, <2>4, Together
<1>6. ASSUME Socket(h) PROVE Effect(h)
  <2>1. KeepsHandle(h) BY <1>1, <1>6 DEF Socket, KeepsHandle
  <2>2. KeepsPriv(h) BY <1>1, <1>6 DEF Socket, Fail, aside, client, devices, KeepsPriv
  <2>3. Moved(h) BY <1>1, <1>6 DEF Socket, Fail, Goto, Moved, Quiet, RingSteps, Resting
  <2>4. Aside BY <1>1, <1>6 DEF Socket, Fail, aside, client, devices, Aside
  <2> QED BY <2>1, <2>2, <2>3, <2>4, Together
<1>7. ASSUME Rfmon(h) PROVE Effect(h)
  <2>1. KeepsHandle(h) BY <1>1, <1>7 DEF Rfmon, CloseAndFail, OldMode, KeepsHandle
  <2>2. KeepsPriv(h)
    BY <1>1, <1>7 DEF Rfmon, CloseAndFail, Fail, OldMode, aside, client, devices, KeepsPriv,
       PrivFields
  <2>3. Moved(h)
    BY <1>1, <1>7 DEF Rfmon, CloseAndFail, Fail, OldMode, Goto, Moved, Quiet, RingSteps,
       Resting
  <2>4. Aside
    BY <1>1, <1>7 DEF Rfmon, CloseAndFail, Fail, OldMode, aside, client, devices, Aside
  <2> QED BY <2>1, <2>2, <2>3, <2>4, Together
<1>8. ASSUME Down(h) PROVE Effect(h)
  <2>1. KeepsHandle(h) BY <1>1, <1>8 DEF Down, CloseAndFail, MustDo, KeepsHandle
  <2>2. KeepsPriv(h)
    BY <1>1, <1>8 DEF Down, CloseAndFail, Fail, MustDo, aside, client, devices, KeepsPriv,
       PrivFields
  <2>3. Moved(h)
    BY <1>1, <1>8 DEF Down, CloseAndFail, Fail, MustDo, Goto, Moved, Quiet, RingSteps,
       Resting
  <2>4. Aside
    BY <1>1, <1>8 DEF Down, CloseAndFail, Fail, MustDo, aside, client, devices, Aside
  <2> QED BY <2>1, <2>2, <2>3, <2>4, Together
<1>9. ASSUME Mode(h) PROVE Effect(h)
  <2>1. KeepsHandle(h) BY <1>1, <1>9 DEF Mode, KeepsHandle
  <2>2. KeepsPriv(h) BY <1>1, <1>9 DEF Mode, Fail, aside, client, devices, KeepsPriv
  <2>3. Moved(h) BY <1>1, <1>9 DEF Mode, Fail, Goto, Moved, Quiet, RingSteps, Resting
  <2>4. Aside BY <1>1, <1>9 DEF Mode, Fail, aside, client, devices, Aside
  <2> QED BY <2>1, <2>2, <2>3, <2>4, Together
<1>10. ASSUME Up(h) PROVE Effect(h)
  <2>1. KeepsHandle(h) BY <1>1, <1>10 DEF Up, CloseAndFail, MustDo, KeepsHandle
  <2>2. KeepsPriv(h)
    BY <1>1, <1>10 DEF Up, CloseAndFail, Fail, MustDo, aside, client, devices, KeepsPriv,
       PrivFields
  <2>3. Moved(h)
    BY <1>1, <1>10 DEF Up, CloseAndFail, Fail, MustDo, Goto, Moved, Quiet, RingSteps,
       Resting
  <2>4. Aside
    BY <1>1, <1>10 DEF Up, CloseAndFail, Fail, MustDo, aside, client, devices, Aside
  <2> QED BY <2>1, <2>2, <2>3, <2>4, Together
<1>11. ASSUME ArpType(h) PROVE Effect(h)
  <2>1. KeepsHandle(h)
    <3>1. DOMAIN p' = Handles /\ \A g \in Handles \ {h} : p'[g] = p[g]
      BY <1>1, <1>11 DEF ArpType, CloseAndFail
    <3>2. /\ DOMAIN p'[h] = Fields
          /\ p'[h].activated = p[h].activated /\ p'[h].source = p[h].source
          /\ p'[h].timeout = p[h].timeout
      BY <1>1, <1>11 DEF ArpType, CloseAndFail, Fields
    <3>3. p'[h].ops \in {p[h].ops, "own"}
      BY <1>1, <1>11 DEF ArpType, CloseAndFail, Fields
    <3>4. p'[h].nonblock \in {p[h].nonblock, FALSE}
      BY <1>1, <1>11, ZenonT(30) DEF ArpType, CloseAndFail, Fields
    <3> QED BY <1>1, <3>1, <3>2, <3>3, <3>4 DEF KeepsHandle, Similar, Shaped, Ops
  <2>2. KeepsPriv(h) BY <1>1, <1>11 DEF ArpType, CloseAndFail, KeepsPriv, PrivFields
  <2>3. Moved(h)
    BY <1>1, <1>11 DEF ArpType, CloseAndFail, Fail, Goto, Moved, Quiet, RingSteps, Resting
  <2>4. Aside BY <1>1, <1>11 DEF ArpType, CloseAndFail, Fail, aside, client, devices, Aside
  <2> QED BY <2>1, <2>2, <2>3, <2>4, Together
<1>12. ASSUME Reopen(h) PROVE Effect(h)
  <2>1. KeepsHandle(h)
    <3>1. DOMAIN p' = Handles /\ \A g \in Handles \ {h} : p'[g] = p[g]
      BY <1>1, <1>12 DEF Reopen
    <3>2. /\ DOMAIN p'[h] = Fields
          /\ p'[h].activated = p[h].activated /\ p'[h].source = p[h].source
          /\ p'[h].timeout = p[h].timeout
      BY <1>1, <1>12 DEF Reopen, Fields
    <3>3. p'[h].ops \in {p[h].ops, "own"}
      BY <1>1, <1>12 DEF Reopen, Fields
    <3>4. p'[h].nonblock \in {p[h].nonblock, FALSE}
      BY <1>1, <1>12, ZenonT(30) DEF Reopen, Fields
    <3> QED BY <1>1, <3>1, <3>2, <3>3, <3>4 DEF KeepsHandle, Similar, Shaped, Ops
  <2>2. KeepsPriv(h) BY <1>1, <1>12 DEF Reopen, KeepsPriv, PrivFields
  <2>3. Moved(h) BY <1>1, <1>12 DEF Reopen, Fail, Goto, Moved, Quiet, RingSteps, Resting
  <2>4. Aside BY <1>1, <1>12 DEF Reopen, Fail, aside, client, devices, Aside
  <2> QED BY <2>1, <2>2, <2>3, <2>4, Together
<1>13. ASSUME Bind(h) PROVE Effect(h)
  <2>1. KeepsHandle(h) BY <1>1, <1>13 DEF Bind, CloseAndFail, KeepsHandle
  <2>2. KeepsPriv(h)
    BY <1>1, <1>13 DEF Bind, CloseAndFail, Fail, aside, client, devices, KeepsPriv
  <2>3. Moved(h)
    BY <1>1, <1>13 DEF Bind, CloseAndFail, Fail, Goto, Moved, Quiet, RingSteps, Resting
  <2>4. Aside BY <1>1, <1>13 DEF Bind, CloseAndFail, Fail, aside, client, devices, Aside
  <2> QED BY <2>1, <2>2, <2>3, <2>4, Together
<1>14. ASSUME Finish(h) PROVE Effect(h)
  <2>1. KeepsHandle(h)
    <3>1. DOMAIN p' = Handles /\ \A g \in Handles \ {h} : p'[g] = p[g]
      BY <1>1, <1>14 DEF Finish, CloseAndFail
    <3>2. /\ DOMAIN p'[h] = Fields
          /\ p'[h].activated = p[h].activated /\ p'[h].source = p[h].source
          /\ p'[h].timeout = p[h].timeout
      BY <1>1, <1>14 DEF Finish, CloseAndFail, Fields
    <3>3. p'[h].ops \in {p[h].ops, "own"}
      BY <1>1, <1>14 DEF Finish, CloseAndFail, Fields
    <3>4. p' = p \/ p'[h].nonblock = FALSE
      BY <1>1, <1>14 DEF Finish, CloseAndFail, Fields
    <3> QED BY <1>1, <3>1, <3>2, <3>3, <3>4 DEF KeepsHandle, Similar, Shaped, Ops
  <2>2. KeepsPriv(h) BY <1>1, <1>14 DEF Finish, CloseAndFail, KeepsPriv, PrivFields
  <2>3. Moved(h)
    BY <1>1, <1>14 DEF Finish, CloseAndFail, Fail, Goto, Moved, Quiet, RingSteps, Resting
  <2>4. Aside BY <1>1, <1>14 DEF Finish, CloseAndFail, Fail, aside, client, devices, Aside
  <2> QED BY <2>1, <2>2, <2>3, <2>4, Together
<1>15. ASSUME Mmap(h) PROVE Effect(h)
  <2>1. KeepsHandle(h)
    <3>5. p' = p \/ \E size : p' = [p EXCEPT ![h].buffer_size = size]
      BY <1>15 DEF Mmap, create_ring
    <3>1. DOMAIN p' = Handles /\ \A g \in Handles \ {h} : p'[g] = p[g]
      BY <1>1, <3>5
    <3>2. /\ DOMAIN p'[h] = Fields
          /\ p'[h].activated = p[h].activated /\ p'[h].source = p[h].source
          /\ p'[h].timeout = p[h].timeout
      BY <1>1, <3>5 DEF Fields
    <3>3. p'[h].ops \in {p[h].ops, "own"}
      BY <1>1, <3>5 DEF Fields
    <3>4. p'[h].nonblock \in {p[h].nonblock, FALSE}
      BY <1>1, <3>5 DEF Fields
    <3> QED BY <1>1, <3>1, <3>2, <3>3, <3>4 DEF KeepsHandle, Similar, Shaped, Ops
  <2>2. KeepsPriv(h) BY <1>1, <1>15 DEF Mmap, FailRing, create_ring, KeepsPriv, PrivFields
  <2>3. Moved(h)
    BY <1>1, <1>15 DEF Mmap, FailRing, Fail, create_ring, Goto, Moved, Quiet, RingSteps, Resting
  <2>4. Aside BY <1>1, <1>15 DEF Mmap, FailRing, Fail, create_ring, aside, client, devices, Aside
  <2> QED BY <2>1, <2>2, <2>3, <2>4, Together
<1>16. ASSUME RingRetry(h) PROVE Effect(h)
  <2>1. KeepsHandle(h) BY <1>1, <1>16 DEF RingRetry, KeepsHandle
  <2>2. KeepsPriv(h) BY <1>1, <1>16 DEF RingRetry, aside, client, devices, KeepsPriv
  <2>3. Moved(h) BY <1>1, <1>16 DEF RingRetry, Moved, Quiet, Resting
  <2>4. Aside BY <1>1, <1>16 DEF RingRetry, aside, client, devices, Aside
  <2> QED BY <2>1, <2>2, <2>3, <2>4, Together
<1>17. ASSUME Ring(h) PROVE Effect(h)
  <2>1. KeepsHandle(h) BY <1>1, <1>17 DEF Ring, KeepsHandle
  <2>2. KeepsPriv(h)
    BY <1>1, <1>17 DEF Ring, FailRing, Fail, aside, client, devices, KeepsPriv, PrivFields
  <2>3. Moved(h) BY <1>1, <1>17 DEF Ring, FailRing, Fail, Goto, Moved, Quiet, RingSteps, Resting
  <2>4. Aside BY <1>1, <1>17 DEF Ring, FailRing, Fail, aside, client, devices, Aside
  <2> QED BY <2>1, <2>2, <2>3, <2>4, Together
<1>18. ASSUME RcvBuf(h) PROVE Effect(h)
  <2>1. KeepsHandle(h)
    <3>1. DOMAIN p' = Handles /\ \A g \in Handles \ {h} : p'[g] = p[g]
      BY <1>1, <1>18 DEF RcvBuf
    <3>2. /\ DOMAIN p'[h] = Fields
          /\ p'[h].activated = p[h].activated /\ p'[h].source = p[h].source
          /\ p'[h].timeout = p[h].timeout
      BY <1>1, <1>18 DEF RcvBuf, Fields
    <3>3. p'[h].ops \in {p[h].ops, "own"}
      BY <1>1, <1>18 DEF RcvBuf, Fields
    <3>4. p'[h].nonblock \in {p[h].nonblock, FALSE}
      BY <1>1, <1>18 DEF RcvBuf, Fields
    <3> QED BY <1>1, <3>1, <3>2, <3>3, <3>4 DEF KeepsHandle, Similar, Shaped, Ops
  <2>2. KeepsPriv(h) BY <1>1, <1>18 DEF RcvBuf, KeepsPriv
  <2>3. Moved(h)
    BY <1>1, <1>18 DEF RcvBuf, Fail, Return, Goto, Moved, Quiet, RingSteps, Resting
  <2>4. Aside BY <1>1, <1>18 DEF RcvBuf, Fail, Return, aside, client, devices, Aside
  <2> QED BY <2>1, <2>2, <2>3, <2>4, Together
<1>19. ASSUME Old(h) PROVE Effect(h)
  <2>1. KeepsHandle(h)
    <3>5. p' = p \/ \E s \in Sockets : p' = [p EXCEPT ![h].fd = s, ![h].nonblock = FALSE]
      BY <1>19 DEF Old
    <3>1. DOMAIN p' = Handles /\ \A g \in Handles \ {h} : p'[g] = p[g]
      BY <1>1, <3>5
    <3>2. /\ DOMAIN p'[h] = Fields
          /\ p'[h].activated = p[h].activated /\ p'[h].source = p[h].source
          /\ p'[h].timeout = p[h].timeout
      BY <1>1, <3>5 DEF Fields
    <3>3. p'[h].ops \in {p[h].ops, "own"}
      BY <1>1, <3>5 DEF Fields
    <3>4. p'[h].nonblock \in {p[h].nonblock, FALSE}
      BY <1>1, <3>5 DEF Fields
    <3> QED BY <1>1, <3>1, <3>2, <3>3, <3>4 DEF KeepsHandle, Similar, Shaped, Ops
  <2>2. KeepsPriv(h) BY <1>1, <1>19 DEF Old, KeepsPriv, PrivFields
  <2>3. Moved(h) BY <1>1, <1>19 DEF Old, Fail, Goto, Moved, Quiet, RingSteps, Resting
  <2>4. Aside BY <1>1, <1>19 DEF Old, Fail, aside, client, devices, Aside
  <2> QED BY <2>1, <2>2, <2>3, <2>4, Together
<1>20. ASSUME OldBind(h) PROVE Effect(h)
  <2>1. KeepsHandle(h)
    <3>1. DOMAIN p' = Handles /\ \A g \in Handles \ {h} : p'[g] = p[g]
      BY <1>1, <1>20 DEF OldBind
    <3>2. /\ DOMAIN p'[h] = Fields
          /\ p'[h].activated = p[h].activated /\ p'[h].source = p[h].source
          /\ p'[h].timeout = p[h].timeout
      BY <1>1, <1>20 DEF OldBind, Fields
    <3>3. p'[h].ops \in {p[h].ops, "own"}
      BY <1>1, <1>20 DEF OldBind, Fields
    <3>4. p'[h].nonblock \in {p[h].nonblock, FALSE}
      BY <1>1, <1>20 DEF OldBind, Fields
    <3> QED BY <1>1, <3>1, <3>2, <3>3, <3>4 DEF KeepsHandle, Similar, Shaped, Ops
  <2>2. KeepsPriv(h) BY <1>1, <1>20 DEF OldBind, KeepsPriv
  <2>3. Moved(h) BY <1>1, <1>20 DEF OldBind, Fail, Goto, Moved, Quiet, RingSteps, Resting
  <2>4. Aside BY <1>1, <1>20 DEF OldBind, Fail, aside, client, devices, Aside
  <2> QED BY <2>1, <2>2, <2>3, <2>4, Together
<1>21. ASSUME OldPromisc(h) PROVE Effect(h)
  <2>1. KeepsHandle(h) BY <1>1, <1>21 DEF OldPromisc, MustDo, KeepsHandle
  <2>2. KeepsPriv(h)
    BY <1>1, <1>21 DEF OldPromisc, Fail, MustDo, aside, client, devices, KeepsPriv,
       PrivFields
  <2>3. Moved(h)
    BY <1>1, <1>21 DEF OldPromisc, Fail, MustDo, Goto, Moved, Quiet, RingSteps, Resting
  <2>4. Aside BY <1>1, <1>21 DEF OldPromisc, Fail, MustDo, aside, client, devices, Aside
  <2> QED BY <2>1, <2>2, <2>3, <2>4, Together
<1> QED
  BY <1>2, <1>3, <1>4, <1>5, <1>6, <1>7, <1>8, <1>9, <1>10, <1>11, <1>12, <1>13, <1>14,
     <1>15, <1>16, <1>17, <1>18, <1>19, <1>20, <1>21

-----------------------------------------------------------------------------
(* The invariants. *)

(* An active handle is not in an activation, and what runs on it is to close
   it; what Pcap.java keeps is the length of an active handle. *)
Basic(h) ==
  /\ pc[h] # "idle" => state[h] # "none"
  /\ state[h] # "none" => p[h].source \in Devices
  /\ p[h].activated =>
       /\ pc[h] \in Quiet /\ state[h] # "none"
       /\ pc[h] \notin Resting => call[h] = "close"
  /\ \/ cache[h].snapshotLength \in {0, PCAP_ERROR_NOT_ACTIVATED}
     \/ p[h].activated /\ cache[h].snapshotLength = p[h].snapshot

(* A ring keeps its timeout or the complement of it, as it was asked to, and
   every other handle the mode itself. *)
Modes(h) ==
  /\ p[h].source \in LinuxDevices => p[h].timeout \in Nat
  /\ ~p[h].activated => ~p[h].nonblock /\ ~asked[h]
  /\ ~p[h].activated /\ state[h] = "open" /\ pc[h] \in Resting => p[h].ops = "none"
  /\ pc[h] \in RingSteps => priv[h].timeout = p[h].timeout /\ p[h].source \in LinuxDevices
  /\ p[h].ops = "mmap" =>
       /\ p[h].activated \/ pc[h] = "return"
       /\ p[h].source \in LinuxDevices
       /\ priv[h].timeout = IF asked[h] THEN Complement(p[h].timeout) ELSE p[h].timeout
  /\ h \notin spoilt /\ p[h].activated /\ p[h].ops # "mmap" =>
       \/ p[h].nonblock = asked[h]
       \/ p[h].source = "npf" /\ p[h].timeout = -1

Invariant == Shapes /\ \A h \in Handles : Basic(h)
ModesInvariant == Invariant /\ \A h \in Handles : Modes(h)

(* Timeouts are milliseconds.  A ring takes a negative one for non-blocking
   mode, so that the sign matters on the interfaces that may have one. *)
TimeoutsNatural == Timeouts \subseteq Nat \/ Devices \cap LinuxDevices = {}

(* A step keeps what is said of its handle, and the others as they are. *)
Keeps(h) == Shapes' /\ Others(h) /\ Basic(h)' /\ (TimeoutsNatural /\ Modes(h) => Modes(h)')

(* An effect keeps what is said of its handle: the timeout of a ring comes from
   the handle, whose mode is the blocking one until the activation is over. *)
LEMMA EffectKeeps ==
  ASSUME NEW h \in Handles, Shapes, Basic(h), Effect(h)
  PROVE  Keeps(h)
<1>1. /\ state'[h] = state[h] /\ call'[h] = call[h] /\ cache'[h] = cache[h]
      /\ asked'[h] = asked[h] /\ spoilt \subseteq spoilt'
      /\ p'[h].activated = p[h].activated /\ p'[h].source = p[h].source
      /\ p'[h].timeout = p[h].timeout /\ priv'[h].timeout = priv[h].timeout
      /\ p'[h].nonblock \in {p[h].nonblock, FALSE}
      /\ p'[h].ops = p[h].ops \/ p'[h].ops \in {"linux", "device", "own"}
      /\ pc'[h] \in RingSteps => pc[h] \in RingSteps
      /\ pc'[h] \notin Resting /\ pc[h] \notin Quiet \cup {"return", "start"}
      /\ Shapes' /\ Others(h)
  BY DEF Effect, Similar, Others
<1>2. ~p[h].activated /\ pc[h] # "idle" BY <1>1 DEF Basic, Quiet
<1>3. Basic(h)' BY <1>1, <1>2 DEF Basic
<1>4. ASSUME Modes(h) PROVE Modes(h)'
  <2>1. p[h].ops # "mmap" BY <1>1, <1>2, <1>4 DEF Modes
  <2> QED BY <1>1, <1>2, <1>4, <2>1 DEF Modes
<1> QED BY <1>1, <1>3, <1>4 DEF Keeps

(* What a step that is none of an activation's leaves alone. *)
Frame(h) ==
  /\ DOMAIN p' = Handles /\ \A g \in Handles \ {h} : p'[g] = p[g]
  /\ DOMAIN priv' = Handles /\ \A g \in Handles \ {h} : priv'[g] = priv[g]
  /\ DOMAIN pc' = Handles /\ \A g \in Handles \ {h} : pc'[g] = pc[g]
  /\ DOMAIN call' = Handles /\ \A g \in Handles \ {h} : call'[g] = call[g]
  /\ DOMAIN state' = Handles /\ \A g \in Handles \ {h} : state'[g] = state[g]

ClientFrame(h) ==
  /\ DOMAIN cache' = Handles /\ \A g \in Handles \ {h} : cache'[g] = cache[g]
  /\ DOMAIN cache'[h] = {"snapshotLength", "dataLinkType"}
  /\ asked' \in [Handles -> BOOLEAN] /\ \A g \in Handles \ {h} : asked'[g] = asked[g]
  /\ spoilt \subseteq spoilt' /\ pcaps_to_close' \in Seq(Handles)

(* A framed step leaves the other handles as they are. *)
LEMMA Framed ==
  ASSUME NEW h \in Handles, Shapes, Frame(h), ClientFrame(h), Shaped(p'[h]), PrivShaped(priv'[h])
  PROVE  Shapes' /\ Others(h)
<1>1. Others(h) BY DEF Frame, ClientFrame, Others
<1>2. \A g \in Handles : Shaped(p'[g]) BY DEF Frame, Shapes
<1>3. \A g \in Handles : PrivShaped(priv'[g]) BY DEF Frame, Shapes
<1>4. \A g \in Handles : DOMAIN cache'[g] = {"snapshotLength", "dataLinkType"}
  BY DEF ClientFrame, Shapes
<1> QED BY <1>1, <1>2, <1>3, <1>4 DEF Shapes, Frame, ClientFrame

(* Every other step of a handle. *)
LEMMA OtherSteps ==
  ASSUME NEW h \in Handles, Shapes, Basic(h)
  PROVE  /\ DeviceStart(h) => Keeps(h)
         /\ Start(h) => Keeps(h)
         /\ Map(h) => Keeps(h)
         /\ Restore(h) => Keeps(h)
         /\ Release(h) => Keeps(h)
         /\ ActivateReturns(h) => Keeps(h)
         /\ Live(h) => Keeps(h)
         /\ Destroy(h) => Keeps(h)
         /\ Probe(h) => Keeps(h)
         /\ usb_cleanup_linux_mmap(h) => Keeps(h)
         /\ dbus_cleanup(h) => Keeps(h)
         /\ pcap_cleanup_win32(h) => Keeps(h)
         /\ pcap_cleanup_libdlpi(h) => Keeps(h)
         /\ pcap_cleanup_dlpi(h) => Keeps(h)
         /\ dag_platform_cleanup(h) => Keeps(h)
         /\ snf_platform_cleanup(h) => Keeps(h)
         /\ pcap_cleanup_bpf(h) => Keeps(h)
         /\ canusb_close(h) => Keeps(h)
         /\ PcapCreate(h) => Keeps(h)
         /\ PcapOpenLive(h) => Keeps(h)
         /\ PcapActivate(h) => Keeps(h)
         /\ Close(h) => Keeps(h)
         /\ PcapSetTimeout(h) => Keeps(h)
         /\ PcapSetSnaplen(h) => Keeps(h)
         /\ PcapSetPromisc(h) => Keeps(h)
         /\ PcapSetRfMon(h) => Keeps(h)
         /\ PcapSetImmediateMode(h) => Keeps(h)
         /\ PcapSetBufferSize(h) => Keeps(h)
         /\ PcapSetDataLink(h) => Keeps(h)
         /\ PcapCanSetRfMon(h) => Keeps(h)
         /\ PcapSetNonBlock(h) => Keeps(h)
         /\ getSnapshotLength(h) => Keeps(h)
         /\ getDataLinkType(h) => Keeps(h)
         /\ pcap_can_set_rfmon_bpf(h) => Keeps(h)
         /\ pcap_setnonblock_win32(h) => Keeps(h)
         /\ snf_setnonblock(h) => Keeps(h)
         /\ dag_setnonblock(h) => Keeps(h)
<1>1. /\ DOMAIN p = Handles /\ DOMAIN priv = Handles /\ DOMAIN pc = Handles
      /\ DOMAIN call = Handles /\ DOMAIN state = Handles
      /\ DOMAIN p[h] = Fields /\ DOMAIN priv[h] = PrivFields
  BY DEF Shapes, Shaped, PrivShaped
<1>2. /\ DOMAIN cache = Handles
      /\ \A g \in Handles : DOMAIN cache[g] = {"snapshotLength", "dataLinkType"}
      /\ asked \in [Handles -> BOOLEAN]
      /\ pcaps_to_close \in Seq(Handles) /\ pcap_remove_from_pcaps_to_close(h) \in Seq(Handles)
  BY Unlinked DEF Shapes
<1>3. /\ p[h].activated \in BOOLEAN /\ p[h].nonblock \in BOOLEAN /\ p[h].ops \in Ops
      /\ p[h].timeout \in Int /\ priv[h].timeout \in Int
  BY DEF Shapes, Shaped, PrivShaped
<1>4. ASSUME DeviceStart(h) PROVE Keeps(h)
  <2>1. Frame(h) BY <1>1, <1>4 DEF DeviceStart, Pass, Proceed, inert, Goto, Frame
  <2>2. ClientFrame(h)
    BY <1>2, <1>4 DEF DeviceStart, Pass, Proceed, devices, inert, client, ClientFrame
  <2>3. PrivShaped(priv'[h])
    BY <1>1, <1>3, <1>4 DEF DeviceStart, Pass, Proceed, devices, inert, client, PrivShaped
  <2>4. /\ DOMAIN p'[h] = Fields
        /\ p'[h].activated = p[h].activated
        /\ p'[h].source = p[h].source
        /\ p'[h].ops = p[h].ops
        /\ p'[h].nonblock = p[h].nonblock
        /\ p'[h].snapshot = p[h].snapshot
        /\ p'[h].timeout = p[h].timeout
    BY <1>1, <1>4 DEF DeviceStart, Pass, Proceed
  <2>5. /\ pc[h] = "start"
        /\ call'[h] = call[h]
        /\ state'[h] = state[h]
        /\ cache'[h] = cache[h]
        /\ asked'[h] = asked[h]
        /\ priv'[h].timeout = priv[h].timeout
    BY <1>1, <1>2, <1>3, <1>4 DEF DeviceStart, Pass, Proceed, inert, client
  <2>6. /\ pc'[h] \notin RingSteps \cup Resting
    BY <1>1, <1>4, <2>5, DevicesAssumption DEF DeviceStart, Pass, Proceed, Goto, Basic,
       Drivers, LinuxDevices, RingSteps, Resting
  <2>7. Shaped(p'[h]) BY <1>3, <2>4 DEF Shaped
  <2>8. Basic(h)' BY <2>4, <2>5, <2>6 DEF Basic, Quiet
  <2>10. TimeoutsNatural /\ Modes(h) => Modes(h)'
    BY <1>3, <2>2, <2>4, <2>5, <2>6 DEF Modes, ClientFrame, Complement
  <2> QED BY <2>1, <2>2, <2>3, <2>7, <2>8, <2>10, Framed DEF Keeps
<1>5. ASSUME Start(h) PROVE Keeps(h)
  <2>9. \/ pc' = [pc EXCEPT ![h] = "restore"] \/ pc' = [pc EXCEPT ![h] = "return"]
        \/ /\ pc' = [pc EXCEPT ![h] = "socket"] /\ p[h].source \in LinuxDevices
           /\ priv' = [priv EXCEPT ![h].device = "live", ![h].timeout = p[h].timeout]
    BY <1>5 DEF Start, Fail, Return, Goto
  <2>1. Frame(h) BY <1>1, <1>5 DEF Start, Fail, Return, Goto, Frame
  <2>2. ClientFrame(h)
    BY <1>2, <1>5 DEF Start, Fail, Return, aside, client, devices, ClientFrame
  <2>3. PrivShaped(priv'[h])
    BY <1>1, <1>3, <1>5 DEF Start, Fail, Return, aside, client, devices, PrivShaped,
       PrivFields
  <2>4. /\ DOMAIN p'[h] = Fields
        /\ p'[h].activated = p[h].activated
        /\ p'[h].source = p[h].source
        /\ p'[h].ops \in {p[h].ops, "linux"}
        /\ p'[h].nonblock = p[h].nonblock
        /\ p'[h].snapshot = p[h].snapshot
        /\ p'[h].timeout = p[h].timeout
    BY <1>1, <1>5 DEF Start, Fields
  <2>5. /\ pc[h] = "start"
        /\ priv'[h].timeout \in {p[h].timeout, priv[h].timeout}
        /\ call'[h] = call[h]
        /\ state'[h] = state[h]
        /\ cache'[h] = cache[h]
        /\ asked'[h] = asked[h]
    BY <1>1, <1>2, <1>3, <1>5 DEF Start, aside, client, PrivFields
  <2>6. /\ \/ pc'[h] \in {"restore", "return"}
           \/ pc'[h] = "socket" /\ priv'[h].timeout = p[h].timeout /\ p[h].source \in LinuxDevices
    BY <1>1, <2>9 DEF PrivFields
  <2>7. Shaped(p'[h]) BY <1>3, <2>4 DEF Shaped, Ops
  <2>8. Basic(h)' BY <2>4, <2>5, <2>6 DEF Basic, Quiet
  <2>10. TimeoutsNatural /\ Modes(h) => Modes(h)'
    BY <1>3, <2>2, <2>4, <2>5, <2>6 DEF Basic, Modes, Quiet, Resting, RingSteps, Complement
  <2> QED BY <2>1, <2>2, <2>3, <2>7, <2>8, <2>10, Framed DEF Keeps
<1>6. ASSUME Map(h) PROVE Keeps(h)
  <2>9. \/ /\ p' = [p EXCEPT ![h].buffer = "live", ![h].ops = "mmap"]
           /\ pc' = [pc EXCEPT ![h] = "return"]
        \/ p' = p /\ pc' = [pc EXCEPT ![h] = "restore"]
    BY <1>6 DEF Map, FailRing, Fail, Return, Goto
  <2>1. Frame(h) BY <1>1, <1>6 DEF Map, FailRing, Fail, Return, Goto, Frame
  <2>2. ClientFrame(h)
    BY <1>2, <1>6 DEF Map, FailRing, Fail, Return, aside, client, devices, ClientFrame
  <2>3. PrivShaped(priv'[h])
    BY <1>1, <1>3, <1>6 DEF Map, FailRing, Fail, Return, aside, client, devices, PrivShaped,
       PrivFields
  <2>4. /\ DOMAIN p'[h] = Fields
        /\ p'[h].activated = p[h].activated
        /\ p'[h].source = p[h].source
        /\ p'[h].nonblock = p[h].nonblock
        /\ p'[h].snapshot = p[h].snapshot
        /\ p'[h].timeout = p[h].timeout
    BY <1>1, <1>6 DEF Map, Fields
  <2>5. /\ pc[h] = "map"
        /\ call'[h] = call[h]
        /\ state'[h] = state[h]
        /\ cache'[h] = cache[h]
        /\ asked'[h] = asked[h]
        /\ priv'[h].timeout = priv[h].timeout
    BY <1>1, <1>2, <1>3, <1>6 DEF Map, aside, client, PrivFields
  <2>6. /\ \/ p'[h].ops = "mmap" /\ pc'[h] = "return"
           \/ p'[h].ops = p[h].ops /\ pc'[h] = "restore"
    BY <1>1, <2>9 DEF Fields
  <2>7. Shaped(p'[h]) BY <1>3, <2>4, <2>6 DEF Shaped, Ops
  <2>8. Basic(h)' BY <2>4, <2>5, <2>6 DEF Basic, Quiet
  <2>10. TimeoutsNatural /\ Modes(h) => Modes(h)'
    BY <1>3, <2>2, <2>4, <2>5, <2>6 DEF Basic, Modes, Quiet, Resting, RingSteps, Complement
  <2> QED BY <2>1, <2>2, <2>3, <2>7, <2>8, <2>10, Framed DEF Keeps
<1>7. ASSUME Restore(h) PROVE Keeps(h)
  <2>1. Frame(h) BY <1>1, <1>7 DEF Restore, local, Goto, Frame
  <2>2. ClientFrame(h) BY <1>2, <1>7 DEF Restore, aside, client, devices, local, ClientFrame
  <2>3. PrivShaped(priv'[h])
    BY <1>1, <1>3, <1>7 DEF Restore, aside, client, devices, local, PrivShaped
  <2>4. /\ DOMAIN p'[h] = Fields
        /\ p'[h].activated = p[h].activated
        /\ p'[h].source = p[h].source
        /\ p'[h].ops = p[h].ops
        /\ p'[h].nonblock = p[h].nonblock
        /\ p'[h].snapshot = p[h].snapshot
        /\ p'[h].timeout = p[h].timeout
    BY <1>1, <1>7 DEF Restore
  <2>5. /\ pc[h] = "restore"
        /\ call'[h] = call[h]
        /\ state'[h] = state[h]
        /\ cache'[h] = cache[h]
        /\ asked'[h] = asked[h]
        /\ priv'[h].timeout = priv[h].timeout
    BY <1>1, <1>2, <1>3, <1>7 DEF Restore, aside, client, local
  <2>6. /\ pc'[h] = "release"
    BY <1>1, <1>3, <1>7 DEF Restore, Goto
  <2>7. Shaped(p'[h]) BY <1>3, <2>4 DEF Shaped, Ops
  <2>8. Basic(h)' BY <2>4, <2>5, <2>6 DEF Basic, Quiet, Resting
  <2>10. TimeoutsNatural /\ Modes(h) => Modes(h)'
    BY <1>3, <2>2, <2>4, <2>5, <2>6 DEF Modes, Resting, RingSteps, ClientFrame, Complement
  <2> QED BY <2>1, <2>2, <2>3, <2>7, <2>8, <2>10, Framed DEF Keeps
<1>8. ASSUME Release(h) PROVE Keeps(h)
  <2>9. \/ /\ call[h] = "close" /\ state' = [state EXCEPT ![h] = "closed"]
           /\ pc' = [pc EXCEPT ![h] = "idle"]
        \/ call[h] # "close" /\ state' = state /\ pc' = [pc EXCEPT ![h] = "return"]
    BY <1>8 DEF Release, LiveCommon, Gone, Goto
  <2>1. Frame(h) BY <1>1, <1>8 DEF Release, LiveCommon, Gone, local, Goto, Frame
  <2>2. ClientFrame(h)
    BY <1>2, <1>8 DEF Release, LiveCommon, Gone, aside, client, devices, local, ClientFrame
  <2>3. PrivShaped(priv'[h])
    BY <1>1, <1>3, <1>8 DEF Release, LiveCommon, Gone, aside, client, devices, local,
       PrivShaped
  <2>4. /\ DOMAIN p'[h] = Fields
        /\ p'[h].activated = p[h].activated
        /\ p'[h].source = p[h].source
        /\ p'[h].ops = p[h].ops
        /\ p'[h].nonblock = p[h].nonblock
        /\ p'[h].snapshot = p[h].snapshot
        /\ p'[h].timeout = p[h].timeout
    BY <1>1, <1>8 DEF Release, LiveCommon, Gone
  <2>5. /\ pc[h] = "release"
        /\ call'[h] = call[h]
        /\ cache'[h] = cache[h]
        /\ asked'[h] = asked[h]
        /\ priv'[h].timeout = priv[h].timeout
    BY <1>1, <1>2, <1>3, <1>8 DEF Release, LiveCommon, Gone, aside, client, local
  <2>6. /\ \/ call[h] = "close" /\ state'[h] = "closed" /\ pc'[h] = "idle"
           \/ call[h] # "close" /\ state'[h] = state[h] /\ pc'[h] = "return"
    BY <1>1, <2>9
  <2>7. Shaped(p'[h]) BY <1>3, <2>4 DEF Shaped
  <2>8. Basic(h)' BY <2>4, <2>5, <2>6 DEF Basic, Quiet, Resting
  <2>10. TimeoutsNatural /\ Modes(h) => Modes(h)'
    BY <1>3, <2>2, <2>4, <2>5, <2>6 DEF Modes, Resting, RingSteps, ClientFrame, Complement
  <2> QED BY <2>1, <2>2, <2>3, <2>7, <2>8, <2>10, Framed DEF Keeps
<1>9. ASSUME ActivateReturns(h) PROVE Keeps(h)
  <2>9. \/ /\ p' = [p EXCEPT ![h].activated = TRUE] /\ pc' = [pc EXCEPT ![h] = "idle"]
           /\ call' = call
        \/ /\ p' = [p EXCEPT ![h].ops = "none"] /\ call' = [call EXCEPT ![h] = "close"]
           /\ \/ pc' = [pc EXCEPT ![h] = "live"]
              \/ pc' = [pc EXCEPT ![h] = "idle"]
    BY <1>9 DEF ActivateReturns, Goto
  <2>1. Frame(h) BY <1>1, <1>9 DEF ActivateReturns, Goto, Frame
  <2>2. ClientFrame(h)
    BY <1>2, <1>9 DEF ActivateReturns, aside, client, devices, ClientFrame
  <2>3. PrivShaped(priv'[h])
    BY <1>1, <1>3, <1>9 DEF ActivateReturns, aside, client, devices, PrivShaped
  <2>4. /\ DOMAIN p'[h] = Fields
        /\ p'[h].source = p[h].source
        /\ p'[h].nonblock = p[h].nonblock
        /\ p'[h].snapshot = p[h].snapshot
        /\ p'[h].timeout = p[h].timeout
    BY <1>1, <1>9 DEF ActivateReturns, Fields
  <2>5. /\ pc[h] = "return"
        /\ state'[h] = state[h]
        /\ cache'[h] = cache[h]
        /\ asked'[h] = asked[h]
        /\ priv'[h].timeout = priv[h].timeout
    BY <1>1, <1>2, <1>3, <1>9 DEF ActivateReturns, aside, client
  <2>6. /\ \/ /\ p'[h].activated = TRUE /\ p'[h].ops = p[h].ops
              /\ pc'[h] = "idle" /\ call'[h] = call[h]
           \/ /\ p'[h].activated = p[h].activated /\ p'[h].ops = "none"
              /\ pc'[h] \in {"live", "idle"} /\ call'[h] = "close"
    BY <1>1, <2>9 DEF Fields
  <2>7. Shaped(p'[h]) BY <1>3, <2>4, <2>6 DEF Shaped, Ops
  <2>8. Basic(h)' BY <2>4, <2>5, <2>6 DEF Basic, Quiet, Resting
  <2>10. TimeoutsNatural /\ Modes(h) => Modes(h)'
    BY <1>3, <2>2, <2>4, <2>5, <2>6 DEF Basic, Modes, Quiet, RingSteps, ClientFrame,
       Complement
  <2> QED BY <2>1, <2>2, <2>3, <2>7, <2>8, <2>10, Framed DEF Keeps
<1>10. ASSUME Live(h) PROVE Keeps(h)
  <2>1. Frame(h) BY <1>1, <1>10 DEF Live, LiveCommon, Gone, local, Goto, Frame
  <2>2. ClientFrame(h)
    BY <1>2, <1>10 DEF Live, LiveCommon, Gone, aside, client, devices, local, ClientFrame
  <2>3. PrivShaped(priv'[h])
    BY <1>1, <1>3, <1>10 DEF Live, LiveCommon, Gone, aside, client, devices, local,
       PrivShaped
  <2>4. /\ DOMAIN p'[h] = Fields
        /\ p'[h].activated = p[h].activated
        /\ p'[h].source = p[h].source
        /\ p'[h].ops = p[h].ops
        /\ p'[h].nonblock = p[h].nonblock
        /\ p'[h].snapshot = p[h].snapshot
        /\ p'[h].timeout = p[h].timeout
    BY <1>1, <1>10 DEF Live, LiveCommon, Gone
  <2>5. /\ pc[h] = "live"
        /\ call'[h] = call[h]
        /\ state'[h] = "closed"
        /\ cache'[h] = cache[h]
        /\ asked'[h] = asked[h]
        /\ priv'[h].timeout = priv[h].timeout
    BY <1>1, <1>2, <1>3, <1>10 DEF Live, LiveCommon, Gone, aside, client, local
  <2>6. /\ pc'[h] = "idle"
    BY <1>1, <1>3, <1>10 DEF Live, LiveCommon, Gone, Goto
  <2>7. Shaped(p'[h]) BY <1>3, <2>4 DEF Shaped, Ops
  <2>8. Basic(h)' BY <2>4, <2>5, <2>6 DEF Basic, Quiet, Resting
  <2>10. TimeoutsNatural /\ Modes(h) => Modes(h)'
    BY <1>3, <2>2, <2>4, <2>5, <2>6 DEF Modes, RingSteps, ClientFrame, Complement
  <2> QED BY <2>1, <2>2, <2>3, <2>7, <2>8, <2>10, Framed DEF Keeps
<1>11. ASSUME Destroy(h) PROVE Keeps(h)
  <2>1. Frame(h) BY <1>1, <1>11 DEF Destroy, local, Goto, Frame
  <2>2. ClientFrame(h)
    BY <1>2, <1>11 DEF Destroy, aside, client, devices, local, ClientFrame
  <2>3. PrivShaped(priv'[h])
    BY <1>1, <1>3, <1>11 DEF Destroy, aside, client, devices, local, PrivShaped
  <2>4. /\ DOMAIN p'[h] = Fields
        /\ p'[h].activated = p[h].activated
        /\ p'[h].source = p[h].source
        /\ p'[h].ops = p[h].ops
        /\ p'[h].nonblock = p[h].nonblock
        /\ p'[h].snapshot = p[h].snapshot
        /\ p'[h].timeout = p[h].timeout
    BY <1>1, <1>11 DEF Destroy
  <2>5. /\ pc[h] = "destroy"
        /\ call'[h] = call[h]
        /\ state'[h] = state[h]
        /\ cache'[h] = cache[h]
        /\ asked'[h] = asked[h]
        /\ priv'[h].timeout = priv[h].timeout
    BY <1>1, <1>2, <1>3, <1>11 DEF Destroy, aside, client, local
  <2>6. /\ pc'[h] = "restore"
    BY <1>1, <1>3, <1>11 DEF Destroy, Goto
  <2>7. Shaped(p'[h]) BY <1>3, <2>4 DEF Shaped, Ops
  <2>8. Basic(h)' BY <2>4, <2>5, <2>6 DEF Basic, Quiet, Resting
  <2>10. TimeoutsNatural /\ Modes(h) => Modes(h)'
    BY <1>3, <2>2, <2>4, <2>5, <2>6 DEF Modes, Resting, RingSteps, ClientFrame, Complement
  <2> QED BY <2>1, <2>2, <2>3, <2>7, <2>8, <2>10, Framed DEF Keeps
<1>12. ASSUME Probe(h) PROVE Keeps(h)
  <2>1. Frame(h) BY <1>1, <1>12 DEF Probe, Goto, Frame
  <2>2. ClientFrame(h) BY <1>2, <1>12 DEF Probe, aside, client, devices, ClientFrame
  <2>3. PrivShaped(priv'[h])
    BY <1>1, <1>3, <1>12 DEF Probe, aside, client, devices, PrivShaped
  <2>4. /\ DOMAIN p'[h] = Fields
        /\ p'[h].activated = p[h].activated
        /\ p'[h].source = p[h].source
        /\ p'[h].ops = p[h].ops
        /\ p'[h].nonblock = p[h].nonblock
        /\ p'[h].snapshot = p[h].snapshot
        /\ p'[h].timeout = p[h].timeout
    BY <1>1, <1>12 DEF Probe
  <2>5. /\ pc[h] = "probe"
        /\ call'[h] = call[h]
        /\ state'[h] = state[h]
        /\ cache'[h] = cache[h]
        /\ asked'[h] = asked[h]
        /\ priv'[h].timeout = priv[h].timeout
    BY <1>1, <1>2, <1>3, <1>12 DEF Probe, aside, client
  <2>6. /\ pc'[h] = "idle"
    BY <1>1, <1>3, <1>12 DEF Probe, Goto
  <2>7. Shaped(p'[h]) BY <1>3, <2>4 DEF Shaped, Ops
  <2>8. Basic(h)' BY <2>4, <2>5, <2>6 DEF Basic, Quiet, Resting
  <2>10. TimeoutsNatural /\ Modes(h) => Modes(h)'
    BY <1>3, <2>2, <2>4, <2>5, <2>6 DEF Modes, Resting, RingSteps, ClientFrame, Complement
  <2> QED BY <2>1, <2>2, <2>3, <2>7, <2>8, <2>10, Framed DEF Keeps
<1>13. ASSUME NEW R, NEW sure, CleanUp(h, R, sure),
              priv' = priv \/ priv' = [priv EXCEPT ![h].must_do_on_close = {}],
              spoilt \subseteq spoilt', pcaps_to_close' \in Seq(Handles)
      PROVE  Keeps(h)
  <2>9. \/ /\ call[h] = "close" /\ state' = [state EXCEPT ![h] = "closed"]
           /\ pc' = [pc EXCEPT ![h] = "idle"]
        \/ call[h] # "close" /\ state' = state /\ pc' = [pc EXCEPT ![h] = "return"]
    BY <1>13 DEF CleanUp, Gone, Goto
  <2>1. Frame(h) BY <1>1, <1>13 DEF CleanUp, Gone, Goto, Frame
  <2>2. ClientFrame(h) BY <1>2, <1>13 DEF CleanUp, Gone, client, ClientFrame
  <2>3. PrivShaped(priv'[h])
    BY <1>1, <1>3, <1>13 DEF CleanUp, Gone, client, PrivShaped, PrivFields
  <2>4. /\ DOMAIN p'[h] = Fields
        /\ p'[h].activated = p[h].activated
        /\ p'[h].source = p[h].source
        /\ p'[h].ops = p[h].ops
        /\ p'[h].nonblock = p[h].nonblock
        /\ p'[h].snapshot = p[h].snapshot
        /\ p'[h].timeout = p[h].timeout
    BY <1>1, <1>13 DEF CleanUp, Gone, Fields
  <2>5. /\ pc[h] = "cleanup"
        /\ call'[h] = call[h]
        /\ cache'[h] = cache[h]
        /\ asked'[h] = asked[h]
        /\ priv'[h].timeout = priv[h].timeout
    BY <1>1, <1>2, <1>3, <1>13 DEF CleanUp, Gone, client, PrivFields
  <2>6. /\ \/ call[h] = "close" /\ state'[h] = "closed" /\ pc'[h] = "idle"
           \/ call[h] # "close" /\ state'[h] = state[h] /\ pc'[h] = "return"
    BY <1>1, <2>9
  <2>7. Shaped(p'[h]) BY <1>3, <2>4 DEF Shaped
  <2>8. Basic(h)' BY <2>4, <2>5, <2>6 DEF Basic, Quiet, Resting
  <2>10. TimeoutsNatural /\ Modes(h) => Modes(h)'
    BY <1>3, <2>2, <2>4, <2>5, <2>6 DEF Modes, Resting, RingSteps, ClientFrame, Complement
  <2> QED BY <2>1, <2>2, <2>3, <2>7, <2>8, <2>10, Framed DEF Keeps
<1>14. usb_cleanup_linux_mmap(h) => Keeps(h)
  BY <1>2, <1>13 DEF usb_cleanup_linux_mmap, Elsewhere
<1>15. dbus_cleanup(h) => Keeps(h) BY <1>2, <1>13 DEF dbus_cleanup, Elsewhere
<1>16. pcap_cleanup_win32(h) => Keeps(h) BY <1>2, <1>13 DEF pcap_cleanup_win32, Elsewhere
<1>17. pcap_cleanup_libdlpi(h) => Keeps(h)
  BY <1>2, <1>13 DEF pcap_cleanup_libdlpi, Elsewhere
<1>18. pcap_cleanup_dlpi(h) => Keeps(h) BY <1>2, <1>13 DEF pcap_cleanup_dlpi, Elsewhere
<1>19. dag_platform_cleanup(h) => Keeps(h)
  BY <1>2, <1>13 DEF dag_platform_cleanup, Elsewhere
<1>20. snf_platform_cleanup(h) => Keeps(h)
  BY <1>2, <1>13 DEF snf_platform_cleanup, Elsewhere
<1>21. pcap_cleanup_bpf(h) => Keeps(h) BY <1>2, <1>13 DEF pcap_cleanup_bpf
<1>22. ASSUME canusb_close(h) PROVE Keeps(h)
  <2>1. Frame(h) BY <1>1, <1>22 DEF canusb_close, Gone, Goto, Frame
  <2>2. ClientFrame(h) BY <1>2, <1>22 DEF canusb_close, Gone, client, ClientFrame
  <2>3. PrivShaped(priv'[h]) BY <1>1, <1>3, <1>22 DEF canusb_close, Gone, client, PrivShaped
  <2>4. /\ DOMAIN p'[h] = Fields
        /\ p'[h].activated = p[h].activated
        /\ p'[h].source = p[h].source
        /\ p'[h].ops = p[h].ops
        /\ p'[h].nonblock = p[h].nonblock
        /\ p'[h].snapshot = p[h].snapshot
        /\ p'[h].timeout = p[h].timeout
    BY <1>1, <1>22 DEF canusb_close, Gone
  <2>5. /\ pc[h] = "cleanup"
        /\ call'[h] = call[h]
        /\ state'[h] = "closed"
        /\ cache'[h] = cache[h]
        /\ asked'[h] = asked[h]
        /\ priv'[h].timeout = priv[h].timeout
    BY <1>1, <1>2, <1>3, <1>22 DEF canusb_close, Gone, client
  <2>6. /\ pc'[h] = "idle"
    BY <1>1, <1>3, <1>22 DEF canusb_close, Gone, Goto
  <2>7. Shaped(p'[h]) BY <1>3, <2>4 DEF Shaped, Ops
  <2>8. Basic(h)' BY <2>4, <2>5, <2>6 DEF Basic, Quiet, Resting
  <2>10. TimeoutsNatural /\ Modes(h) => Modes(h)'
    BY <1>3, <2>2, <2>4, <2>5, <2>6 DEF Modes, RingSteps, ClientFrame, Complement
  <2> QED BY <2>1, <2>2, <2>3, <2>7, <2>8, <2>10, Framed DEF Keeps
<1>23. ASSUME PcapCreate(h) PROVE Keeps(h)
  <2>1. Frame(h) BY <1>1, <1>23 DEF PcapCreate, local, Frame
  <2>2. ClientFrame(h)
    BY <1>2, <1>23 DEF PcapCreate, aside, client, devices, local, ClientFrame
  <2>3. PrivShaped(priv'[h])
    BY <1>1, <1>3, <1>23 DEF PcapCreate, aside, client, devices, local, PrivShaped
  <2>4. /\ DOMAIN p'[h] = Fields
        /\ p'[h].activated = FALSE
        /\ p'[h].source \in Devices
        /\ p'[h].ops = "none"
        /\ p'[h].nonblock = FALSE
        /\ p'[h].timeout \in Nat
    BY <1>1, <1>23 DEF PcapCreate, NewPcap, Fields
  <2>5. /\ state[h] = "none"
        /\ call'[h] = call[h]
        /\ state'[h] = "open"
        /\ cache'[h] = cache[h]
        /\ asked'[h] = asked[h]
        /\ priv'[h].timeout = priv[h].timeout
    BY <1>1, <1>2, <1>3, <1>23 DEF PcapCreate, aside, client, local
  <2>6. /\ pc'[h] = pc[h]
    BY <1>1, <1>3, <1>23 DEF PcapCreate
  <2>7. Shaped(p'[h])
    <3>1. p'[h].timeout \in Int BY <2>4
    <3>2. p'[h].activated \in BOOLEAN /\ p'[h].nonblock \in BOOLEAN BY <2>4
    <3>3. p'[h].ops \in Ops BY <2>4 DEF Ops
    <3> QED BY <2>4, <3>1, <3>2, <3>3 DEF Shaped
  <2>8. Basic(h)' BY <2>4, <2>5, <2>6 DEF Basic
  <2>10. TimeoutsNatural /\ Modes(h) => Modes(h)'
    BY <1>3, <2>2, <2>4, <2>5, <2>6 DEF Basic, Modes, RingSteps, Complement
  <2> QED BY <2>1, <2>2, <2>3, <2>7, <2>8, <2>10, Framed DEF Keeps
<1>24. ASSUME PcapOpenLive(h) PROVE Keeps(h)
  <2>1. Frame(h) BY <1>1, <1>24 DEF PcapOpenLive, Goto, Frame
  <2>2. ClientFrame(h) BY <1>2, <1>24 DEF PcapOpenLive, aside, client, devices, ClientFrame
  <2>3. PrivShaped(priv'[h])
    BY <1>1, <1>3, <1>24 DEF PcapOpenLive, aside, client, devices, PrivShaped
  <2>4. /\ DOMAIN p'[h] = Fields
        /\ p'[h].activated = FALSE
        /\ p'[h].source \in Devices
        /\ p'[h].ops = "none"
        /\ p'[h].nonblock = FALSE
        /\ p'[h].timeout \in Timeouts
    BY <1>1, <1>24 DEF PcapOpenLive, NewPcap, Fields
  <2>5. /\ state[h] = "none"
        /\ call'[h] = "open"
        /\ state'[h] = "open"
        /\ cache'[h] = cache[h]
        /\ asked'[h] = asked[h]
        /\ priv'[h].timeout = priv[h].timeout
    BY <1>1, <1>2, <1>3, <1>24 DEF PcapOpenLive, aside, client
  <2>6. /\ pc'[h] = "start"
    BY <1>1, <1>3, <1>24 DEF PcapOpenLive, Goto
  <2>7. Shaped(p'[h]) BY <1>3, <2>4, ActivationAssumption DEF Shaped, Ops
  <2>8. Basic(h)' BY <2>4, <2>5, <2>6 DEF Basic
  <2>10. TimeoutsNatural /\ Modes(h) => Modes(h)'
    BY <1>3, <2>2, <2>4, <2>5, <2>6 DEF Basic, Modes, RingSteps, Complement, TimeoutsNatural
  <2> QED BY <2>1, <2>2, <2>3, <2>7, <2>8, <2>10, Framed DEF Keeps
<1>25. ASSUME PcapActivate(h) PROVE Keeps(h)
  <2>1. Frame(h) BY <1>1, <1>25 DEF PcapActivate, Goto, Frame
  <2>2. ClientFrame(h)
    BY <1>2, <1>25 DEF PcapActivate, Idle, aside, client, devices, ClientFrame
  <2>3. PrivShaped(priv'[h])
    BY <1>1, <1>3, <1>25 DEF PcapActivate, Idle, aside, client, devices, PrivShaped
  <2>4. /\ DOMAIN p'[h] = Fields
        /\ p'[h].activated = p[h].activated
        /\ p'[h].source = p[h].source
        /\ p'[h].ops = p[h].ops
        /\ p'[h].nonblock = p[h].nonblock
        /\ p'[h].snapshot = p[h].snapshot
        /\ p'[h].timeout = p[h].timeout
    BY <1>1, <1>25 DEF PcapActivate
  <2>5. /\ pc[h] = "idle" /\ state[h] = "open"
        /\ ~p[h].activated
        /\ call'[h] = "activate"
        /\ state'[h] = state[h]
        /\ cache'[h] = cache[h]
        /\ asked'[h] = asked[h]
        /\ priv'[h].timeout = priv[h].timeout
    BY <1>1, <1>2, <1>3, <1>25 DEF PcapActivate, Idle, aside, client
  <2>6. /\ pc'[h] = "start"
    BY <1>1, <1>3, <1>25 DEF PcapActivate, Goto
  <2>7. Shaped(p'[h]) BY <1>3, <2>4 DEF Shaped, Ops
  <2>8. Basic(h)' BY <2>4, <2>5, <2>6 DEF Basic
  <2>10. TimeoutsNatural /\ Modes(h) => Modes(h)'
    BY <1>3, <2>2, <2>4, <2>5, <2>6 DEF Modes, Resting, RingSteps, Complement
  <2> QED BY <2>1, <2>2, <2>3, <2>7, <2>8, <2>10, Framed DEF Keeps
<1>26. ASSUME Close(h) PROVE Keeps(h)
  <2>1. Frame(h) BY <1>1, <1>26 DEF Close, Goto, Frame
  <2>2. ClientFrame(h) BY <1>2, <1>26 DEF Close, aside, client, devices, ClientFrame
  <2>3. PrivShaped(priv'[h])
    BY <1>1, <1>3, <1>26 DEF Close, aside, client, devices, PrivShaped
  <2>4. /\ DOMAIN p'[h] = Fields
        /\ p'[h].activated = p[h].activated
        /\ p'[h].source = p[h].source
        /\ p'[h].ops = p[h].ops
        /\ p'[h].nonblock = p[h].nonblock
        /\ p'[h].snapshot = p[h].snapshot
        /\ p'[h].timeout = p[h].timeout
    BY <1>1, <1>26 DEF Close
  <2>5. /\ pc[h] = "idle" /\ state[h] = "open"
        /\ call'[h] = "close"
        /\ state'[h] = state[h]
        /\ cache'[h] = cache[h]
        /\ asked'[h] = asked[h]
        /\ priv'[h].timeout = priv[h].timeout
    BY <1>1, <1>2, <1>3, <1>26 DEF Close, aside, client
  <2>6. /\ pc'[h] \in {"live", "restore", "destroy", "cleanup"}
    BY <1>1, <1>3, <1>26 DEF Close, Goto, Ops
  <2>7. Shaped(p'[h]) BY <1>3, <2>4 DEF Shaped, Ops
  <2>8. Basic(h)' BY <2>4, <2>5, <2>6 DEF Basic, Quiet
  <2>10. TimeoutsNatural /\ Modes(h) => Modes(h)'
    BY <1>3, <2>2, <2>4, <2>5, <2>6 DEF Modes, Resting, RingSteps, ClientFrame, Complement
  <2> QED BY <2>1, <2>2, <2>3, <2>7, <2>8, <2>10, Framed DEF Keeps
<1>27. ASSUME PcapSetTimeout(h) PROVE Keeps(h)
  <2>1. Frame(h) BY <1>1, <1>27 DEF PcapSetTimeout, Set, local, Frame
  <2>2. ClientFrame(h)
    BY <1>2, <1>27 DEF PcapSetTimeout, Set, Idle, aside, client, devices, local, ClientFrame
  <2>3. PrivShaped(priv'[h])
    BY <1>1, <1>3, <1>27 DEF PcapSetTimeout, Set, Idle, aside, client, devices, local, PrivShaped
  <2>4. /\ DOMAIN p'[h] = Fields
        /\ p'[h].activated = p[h].activated
        /\ p'[h].source = p[h].source
        /\ p'[h].ops = p[h].ops
        /\ p'[h].nonblock = p[h].nonblock
        /\ p'[h].snapshot = p[h].snapshot
        /\ p'[h].timeout \in Timeouts
    BY <1>1, <1>27 DEF PcapSetTimeout, Set, NewPcap, Fields
  <2>5. /\ pc[h] = "idle" /\ state[h] = "open"
        /\ ~p[h].activated
        /\ call'[h] = call[h]
        /\ state'[h] = state[h]
        /\ cache'[h] = cache[h]
        /\ asked'[h] = asked[h]
        /\ priv'[h].timeout = priv[h].timeout
    BY <1>1, <1>2, <1>3, <1>27 DEF PcapSetTimeout, Set, Idle, aside, client, local
  <2>6. /\ pc'[h] = pc[h]
    BY <1>1, <1>3, <1>27 DEF PcapSetTimeout, Set
  <2>7. Shaped(p'[h]) BY <1>3, <2>4, ActivationAssumption DEF Shaped, Ops
  <2>8. Basic(h)' BY <2>4, <2>5, <2>6 DEF Basic
  <2>10. TimeoutsNatural /\ Modes(h) => Modes(h)'
    BY <1>3, <2>2, <2>4, <2>5, <2>6 DEF Basic, Modes, RingSteps, Complement, TimeoutsNatural
  <2> QED BY <2>1, <2>2, <2>3, <2>7, <2>8, <2>10, Framed DEF Keeps
<1>28. ASSUME NEW option \in Options \ {"timeout"}, NEW v, Set(h, option, v)
      PROVE  Keeps(h)
  <2>1. Frame(h) BY <1>1, <1>28 DEF Set, Options, local, Frame
  <2>2. ClientFrame(h) BY <1>2, <1>28 DEF Set, Idle, Options, aside, client, devices, local,
     ClientFrame
  <2>3. PrivShaped(priv'[h])
    BY <1>1, <1>3, <1>28 DEF Set, Idle, Options, aside, client, devices, local, PrivShaped
  <2>4. /\ DOMAIN p'[h] = Fields
        /\ p'[h].activated = p[h].activated
        /\ p'[h].source = p[h].source
        /\ p'[h].ops = p[h].ops
        /\ p'[h].nonblock = p[h].nonblock
        /\ p'[h].timeout = p[h].timeout
    BY <1>1, <1>28 DEF Set, Options, NewPcap
  <2>5. /\ pc[h] = "idle" /\ state[h] = "open"
        /\ ~p[h].activated
        /\ call'[h] = call[h]
        /\ state'[h] = state[h]
        /\ cache'[h] = cache[h]
        /\ asked'[h] = asked[h]
        /\ priv'[h].timeout = priv[h].timeout
    BY <1>1, <1>2, <1>3, <1>28 DEF Set, Idle, Options, aside, client, local
  <2>6. /\ pc'[h] = pc[h]
    BY <1>1, <1>3, <1>28 DEF Set, Options
  <2>7. Shaped(p'[h]) BY <1>3, <2>4 DEF Shaped, Ops
  <2>8. Basic(h)' BY <2>4, <2>5, <2>6 DEF Basic
  <2>10. TimeoutsNatural /\ Modes(h) => Modes(h)'
    BY <1>3, <2>2, <2>4, <2>5, <2>6 DEF Modes, Complement
  <2> QED BY <2>1, <2>2, <2>3, <2>7, <2>8, <2>10, Framed DEF Keeps
<1>29. PcapSetSnaplen(h) => Keeps(h) BY <1>28 DEF PcapSetSnaplen, Options
<1>30. PcapSetPromisc(h) => Keeps(h) BY <1>28 DEF PcapSetPromisc, Options
<1>31. PcapSetRfMon(h) => Keeps(h) BY <1>28 DEF PcapSetRfMon, Options
<1>32. PcapSetImmediateMode(h) => Keeps(h) BY <1>28 DEF PcapSetImmediateMode, Options
<1>33. PcapSetBufferSize(h) => Keeps(h) BY <1>28 DEF PcapSetBufferSize, Options
<1>34. ASSUME PcapSetDataLink(h) PROVE Keeps(h)
  <2>1. Frame(h) BY <1>1, <1>34 DEF PcapSetDataLink, local, Frame
  <2>2. ClientFrame(h)
    BY <1>2, <1>34 DEF PcapSetDataLink, Idle, aside, client, devices, local, ClientFrame
  <2>3. PrivShaped(priv'[h])
    BY <1>1, <1>3, <1>34 DEF PcapSetDataLink, Idle, aside, client, devices, local,
       PrivShaped
  <2>4. /\ DOMAIN p'[h] = Fields
        /\ p'[h].activated = p[h].activated
        /\ p'[h].source = p[h].source
        /\ p'[h].ops = p[h].ops
        /\ p'[h].nonblock = p[h].nonblock
        /\ p'[h].snapshot = p[h].snapshot
        /\ p'[h].timeout = p[h].timeout
    BY <1>1, <1>34 DEF PcapSetDataLink
  <2>5. /\ pc[h] = "idle"
        /\ call'[h] = call[h]
        /\ state'[h] = state[h]
        /\ cache'[h] = cache[h]
        /\ asked'[h] = asked[h]
        /\ priv'[h].timeout = priv[h].timeout
    BY <1>1, <1>2, <1>3, <1>34 DEF PcapSetDataLink, Idle, aside, client, local
  <2>6. /\ pc'[h] = pc[h]
    BY <1>1, <1>3, <1>34 DEF PcapSetDataLink
  <2>7. Shaped(p'[h]) BY <1>3, <2>4 DEF Shaped, Ops
  <2>8. Basic(h)' BY <2>4, <2>5, <2>6 DEF Basic
  <2>10. TimeoutsNatural /\ Modes(h) => Modes(h)'
    BY <1>3, <2>2, <2>4, <2>5, <2>6 DEF Modes, ClientFrame, Complement
  <2> QED BY <2>1, <2>2, <2>3, <2>7, <2>8, <2>10, Framed DEF Keeps
<1>35. ASSUME PcapCanSetRfMon(h) PROVE Keeps(h)
  <2>1. Frame(h) BY <1>1, <1>35 DEF PcapCanSetRfMon, Goto, Frame
  <2>2. ClientFrame(h)
    BY <1>2, <1>35 DEF PcapCanSetRfMon, Idle, aside, client, devices, ClientFrame
  <2>3. PrivShaped(priv'[h])
    BY <1>1, <1>3, <1>35 DEF PcapCanSetRfMon, Idle, aside, client, devices, PrivShaped
  <2>4. /\ DOMAIN p'[h] = Fields
        /\ p'[h].activated = p[h].activated
        /\ p'[h].source = p[h].source
        /\ p'[h].ops = p[h].ops
        /\ p'[h].nonblock = p[h].nonblock
        /\ p'[h].snapshot = p[h].snapshot
        /\ p'[h].timeout = p[h].timeout
    BY <1>1, <1>35 DEF PcapCanSetRfMon
  <2>5. /\ pc[h] = "idle" /\ state[h] = "open"
        /\ call'[h] = call[h]
        /\ state'[h] = state[h]
        /\ cache'[h] = cache[h]
        /\ asked'[h] = asked[h]
        /\ priv'[h].timeout = priv[h].timeout
    BY <1>1, <1>2, <1>3, <1>35 DEF PcapCanSetRfMon, Idle, aside, client
  <2>6. /\ pc'[h] = "probe"
    BY <1>1, <1>3, <1>35 DEF PcapCanSetRfMon, Goto
  <2>7. Shaped(p'[h]) BY <1>3, <2>4 DEF Shaped, Ops
  <2>8. Basic(h)' BY <2>4, <2>5, <2>6 DEF Basic, Quiet, Resting
  <2>10. TimeoutsNatural /\ Modes(h) => Modes(h)'
    BY <1>3, <2>2, <2>4, <2>5, <2>6 DEF Modes, Resting, RingSteps, ClientFrame, Complement
  <2> QED BY <2>1, <2>2, <2>3, <2>7, <2>8, <2>10, Framed DEF Keeps
<1>36. ASSUME PcapSetNonBlock(h) PROVE Keeps(h)
  <2>9. PICK b \in BOOLEAN :
           /\ p' = [p EXCEPT ![h].nonblock = b] /\ asked' = [asked EXCEPT ![h] = b]
           /\ priv' = IF p[h].ops = "mmap" /\ b # (priv[h].timeout < 0)
                      THEN [priv EXCEPT ![h].timeout = Complement(@)] ELSE priv
    BY <1>36 DEF PcapSetNonBlock
  <2>1. Frame(h) BY <1>1, <1>36 DEF PcapSetNonBlock, local, Frame
  <2>2. ClientFrame(h) BY <1>2, <1>36 DEF PcapSetNonBlock, Idle, devices, local, ClientFrame
  <2>3. PrivShaped(priv'[h])
    BY <1>1, <1>3, <1>36 DEF PcapSetNonBlock, Idle, devices, local, PrivShaped, Complement
  <2>4. /\ DOMAIN p'[h] = Fields
        /\ p'[h].activated = p[h].activated
        /\ p'[h].source = p[h].source
        /\ p'[h].ops = p[h].ops
        /\ p'[h].nonblock = b
        /\ p'[h].snapshot = p[h].snapshot
        /\ p'[h].timeout = p[h].timeout
    BY <1>1, <2>9
  <2>5. /\ pc[h] = "idle" /\ state[h] = "open" /\ p[h].ops # "none"
        /\ call'[h] = call[h]
        /\ state'[h] = state[h]
        /\ cache'[h] = cache[h]
        /\ asked'[h] = b
        /\ priv'[h].timeout = IF p[h].ops = "mmap" /\ b # (priv[h].timeout < 0)
                                 THEN Complement(priv[h].timeout) ELSE priv[h].timeout
    BY <1>1, <1>2, <1>3, <1>36, <2>9 DEF PcapSetNonBlock, Idle, local
  <2>6. /\ pc'[h] = pc[h]
    BY <1>1, <1>3, <1>36 DEF PcapSetNonBlock
  <2>7. Shaped(p'[h]) BY <1>3, <2>4 DEF Shaped, Ops
  <2>8. Basic(h)' BY <2>4, <2>5, <2>6 DEF Basic
  <2>10. TimeoutsNatural /\ Modes(h) => Modes(h)'
    BY <1>3, <2>2, <2>4, <2>5, <2>6, <2>9 DEF Modes, Resting, RingSteps, Complement
  <2> QED BY <2>1, <2>2, <2>3, <2>7, <2>8, <2>10, Framed DEF Keeps
<1>37. ASSUME getSnapshotLength(h) PROVE Keeps(h)
  <2>1. Frame(h) BY <1>1, <1>37 DEF getSnapshotLength, pcap_snapshot, local, Frame
  <2>2. ClientFrame(h)
    BY <1>2, <1>37 DEF getSnapshotLength, Idle, pcap_snapshot, devices, local, ClientFrame
  <2>3. PrivShaped(priv'[h])
    BY <1>1, <1>3, <1>37 DEF getSnapshotLength, Idle, pcap_snapshot, devices, local,
       PrivShaped
  <2>4. /\ DOMAIN p'[h] = Fields
        /\ p'[h].activated = p[h].activated
        /\ p'[h].source = p[h].source
        /\ p'[h].ops = p[h].ops
        /\ p'[h].nonblock = p[h].nonblock
        /\ p'[h].snapshot = p[h].snapshot
        /\ p'[h].timeout = p[h].timeout
    BY <1>1, <1>37 DEF getSnapshotLength, pcap_snapshot
  <2>5. /\ pc[h] = "idle"
        /\ call'[h] = call[h]
        /\ state'[h] = state[h]
        /\ cache'[h].snapshotLength =
             IF p[h].activated THEN p[h].snapshot ELSE PCAP_ERROR_NOT_ACTIVATED
        /\ asked'[h] = asked[h]
        /\ priv'[h].timeout = priv[h].timeout
    BY <1>1, <1>2, <1>3, <1>37 DEF getSnapshotLength, Idle, pcap_snapshot, local
  <2>6. /\ pc'[h] = pc[h]
    BY <1>1, <1>3, <1>37 DEF getSnapshotLength, pcap_snapshot
  <2>7. Shaped(p'[h]) BY <1>3, <2>4 DEF Shaped, Ops
  <2>8. Basic(h)' BY <2>4, <2>5, <2>6 DEF Basic
  <2>10. TimeoutsNatural /\ Modes(h) => Modes(h)'
    BY <1>3, <2>2, <2>4, <2>5, <2>6 DEF Modes, ClientFrame, Complement
  <2> QED BY <2>1, <2>2, <2>3, <2>7, <2>8, <2>10, Framed DEF Keeps
<1>38. ASSUME getDataLinkType(h) PROVE Keeps(h)
  <2>1. Frame(h) BY <1>1, <1>38 DEF getDataLinkType, local, Frame
  <2>2. ClientFrame(h) BY <1>2, <1>38 DEF getDataLinkType, Idle, devices, local, ClientFrame
  <2>3. PrivShaped(priv'[h])
    BY <1>1, <1>3, <1>38 DEF getDataLinkType, Idle, devices, local, PrivShaped
  <2>4. /\ DOMAIN p'[h] = Fields
        /\ p'[h].activated = p[h].activated
        /\ p'[h].source = p[h].source
        /\ p'[h].ops = p[h].ops
        /\ p'[h].nonblock = p[h].nonblock
        /\ p'[h].snapshot = p[h].snapshot
        /\ p'[h].timeout = p[h].timeout
    BY <1>1, <1>38 DEF getDataLinkType
  <2>5. /\ pc[h] = "idle"
        /\ call'[h] = call[h]
        /\ state'[h] = state[h]
        /\ cache'[h].snapshotLength = cache[h].snapshotLength
        /\ asked'[h] = asked[h]
        /\ priv'[h].timeout = priv[h].timeout
    BY <1>1, <1>2, <1>3, <1>38 DEF getDataLinkType, Idle, local
  <2>6. /\ pc'[h] = pc[h]
    BY <1>1, <1>3, <1>38 DEF getDataLinkType
  <2>7. Shaped(p'[h]) BY <1>3, <2>4 DEF Shaped, Ops
  <2>8. Basic(h)' BY <2>4, <2>5, <2>6 DEF Basic
  <2>10. TimeoutsNatural /\ Modes(h) => Modes(h)'
    BY <1>3, <2>2, <2>4, <2>5, <2>6 DEF Modes, ClientFrame, Complement
  <2> QED BY <2>1, <2>2, <2>3, <2>7, <2>8, <2>10, Framed DEF Keeps
<1>39. ASSUME pcap_can_set_rfmon_bpf(h) PROVE Keeps(h)
  <2>1. Frame(h) BY <1>1, <1>39 DEF pcap_can_set_rfmon_bpf, inert, Frame
  <2>2. ClientFrame(h)
    BY <1>2, <1>39 DEF pcap_can_set_rfmon_bpf, Idle, inert, client, ClientFrame
  <2>3. PrivShaped(priv'[h])
    BY <1>1, <1>3, <1>39 DEF pcap_can_set_rfmon_bpf, Idle, inert, client, PrivShaped
  <2>4. /\ DOMAIN p'[h] = Fields
        /\ p'[h].activated = p[h].activated
        /\ p'[h].source = p[h].source
        /\ p'[h].ops = p[h].ops
        /\ p'[h].nonblock = p[h].nonblock
        /\ p'[h].snapshot = p[h].snapshot
        /\ p'[h].timeout = p[h].timeout
    BY <1>1, <1>39 DEF pcap_can_set_rfmon_bpf
  <2>5. /\ pc[h] = "idle"
        /\ call'[h] = call[h]
        /\ state'[h] = state[h]
        /\ cache'[h] = cache[h]
        /\ asked'[h] = asked[h]
        /\ priv'[h].timeout = priv[h].timeout
    BY <1>1, <1>2, <1>3, <1>39 DEF pcap_can_set_rfmon_bpf, Idle, inert, client
  <2>6. /\ pc'[h] = pc[h]
    BY <1>1, <1>3, <1>39 DEF pcap_can_set_rfmon_bpf
  <2>7. Shaped(p'[h]) BY <1>3, <2>4 DEF Shaped, Ops
  <2>8. Basic(h)' BY <2>4, <2>5, <2>6 DEF Basic
  <2>10. TimeoutsNatural /\ Modes(h) => Modes(h)'
    BY <1>3, <2>2, <2>4, <2>5, <2>6 DEF Modes, ClientFrame, Complement
  <2> QED BY <2>1, <2>2, <2>3, <2>7, <2>8, <2>10, Framed DEF Keeps
<1>40. ASSUME pcap_setnonblock_win32(h) PROVE Keeps(h)
  <2>9. PICK b \in BOOLEAN, v \in BOOLEAN :
           /\ v = b \/ p[h].timeout = -1
           /\ p' = [p EXCEPT ![h].nonblock = v] /\ asked' = [asked EXCEPT ![h] = b]
    BY <1>40 DEF pcap_setnonblock_win32
  <2>1. Frame(h) BY <1>1, <1>40 DEF pcap_setnonblock_win32, local, Frame
  <2>2. ClientFrame(h)
    BY <1>2, <1>40 DEF pcap_setnonblock_win32, Idle, devices, local, ClientFrame
  <2>3. PrivShaped(priv'[h])
    BY <1>1, <1>3, <1>40 DEF pcap_setnonblock_win32, Idle, devices, local, PrivShaped
  <2>4. /\ DOMAIN p'[h] = Fields
        /\ p'[h].activated = p[h].activated
        /\ p'[h].source = p[h].source
        /\ p'[h].ops = p[h].ops
        /\ p'[h].nonblock = v
        /\ p'[h].snapshot = p[h].snapshot
        /\ p'[h].timeout = p[h].timeout
    BY <1>1, <2>9
  <2>5. /\ pc[h] = "idle" /\ p[h].activated /\ p[h].source = "npf"
        /\ call'[h] = call[h]
        /\ state'[h] = state[h]
        /\ cache'[h] = cache[h]
        /\ asked'[h] = b
        /\ priv'[h].timeout = priv[h].timeout
    BY <1>1, <1>2, <1>3, <1>40, <2>9 DEF pcap_setnonblock_win32, Idle, local
  <2>6. /\ pc'[h] = pc[h]
    BY <1>1, <1>3, <1>40 DEF pcap_setnonblock_win32
  <2>7. Shaped(p'[h]) BY <1>3, <2>4 DEF Shaped, Ops
  <2>8. Basic(h)' BY <2>4, <2>5, <2>6 DEF Basic
  <2>10. TimeoutsNatural /\ Modes(h) => Modes(h)'
    BY <1>3, <2>2, <2>4, <2>5, <2>6, <2>9 DEF Modes, Complement, LinuxDevices
  <2> QED BY <2>1, <2>2, <2>3, <2>7, <2>8, <2>10, Framed DEF Keeps
<1>41. ASSUME snf_setnonblock(h) PROVE Keeps(h)
  <2>9. PICK b \in BOOLEAN :
           p' = [p EXCEPT ![h].nonblock = b] /\ asked' = [asked EXCEPT ![h] = b]
    BY <1>41 DEF snf_setnonblock
  <2>1. Frame(h) BY <1>1, <1>41 DEF snf_setnonblock, local, Frame
  <2>2. ClientFrame(h) BY <1>2, <1>41 DEF snf_setnonblock, Idle, devices, local, ClientFrame
  <2>3. PrivShaped(priv'[h])
    BY <1>1, <1>3, <1>41 DEF snf_setnonblock, Idle, devices, local, PrivShaped
  <2>4. /\ DOMAIN p'[h] = Fields
        /\ p'[h].activated = p[h].activated
        /\ p'[h].source = p[h].source
        /\ p'[h].ops = p[h].ops
        /\ p'[h].nonblock = b
        /\ p'[h].snapshot = p[h].snapshot
        /\ p'[h].timeout = p[h].timeout
    BY <1>1, <2>9
  <2>5. /\ pc[h] = "idle" /\ p[h].activated /\ p[h].source = "snf"
        /\ call'[h] = call[h]
        /\ state'[h] = state[h]
        /\ cache'[h] = cache[h]
        /\ asked'[h] = b
        /\ priv'[h].timeout = priv[h].timeout
    BY <1>1, <1>2, <1>3, <1>41, <2>9 DEF snf_setnonblock, Idle, local
  <2>6. /\ pc'[h] = pc[h]
    BY <1>1, <1>3, <1>41 DEF snf_setnonblock
  <2>7. Shaped(p'[h]) BY <1>3, <2>4 DEF Shaped, Ops
  <2>8. Basic(h)' BY <2>4, <2>5, <2>6 DEF Basic
  <2>10. TimeoutsNatural /\ Modes(h) => Modes(h)'
    BY <1>3, <2>2, <2>4, <2>5, <2>6, <2>9 DEF Modes, Complement, LinuxDevices
  <2> QED BY <2>1, <2>2, <2>3, <2>7, <2>8, <2>10, Framed DEF Keeps
<1>42. ASSUME dag_setnonblock(h) PROVE Keeps(h)
  <2>9. PICK b \in BOOLEAN : p' = [p EXCEPT ![h].nonblock = b]
    BY <1>42 DEF dag_setnonblock
  <2>1. Frame(h) BY <1>1, <1>42 DEF dag_setnonblock, inert, Frame
  <2>2. ClientFrame(h) BY <1>2, <1>42 DEF dag_setnonblock, Idle, inert, client, ClientFrame
  <2>3. PrivShaped(priv'[h])
    BY <1>1, <1>3, <1>42 DEF dag_setnonblock, Idle, inert, client, PrivShaped
  <2>4. /\ DOMAIN p'[h] = Fields
        /\ p'[h].activated = p[h].activated
        /\ p'[h].source = p[h].source
        /\ p'[h].ops = p[h].ops
        /\ p'[h].nonblock = b
        /\ p'[h].snapshot = p[h].snapshot
        /\ p'[h].timeout = p[h].timeout
    BY <1>1, <2>9
  <2>5. /\ pc[h] = "idle" /\ p[h].activated /\ p[h].source = "dag" /\ h \in spoilt'
        /\ call'[h] = call[h]
        /\ state'[h] = state[h]
        /\ cache'[h] = cache[h]
        /\ asked'[h] = asked[h]
        /\ priv'[h].timeout = priv[h].timeout
    BY <1>1, <1>2, <1>3, <1>42, <2>9 DEF dag_setnonblock, Idle, inert, client
  <2>6. /\ pc'[h] = pc[h]
    BY <1>1, <1>3, <1>42 DEF dag_setnonblock
  <2>7. Shaped(p'[h]) BY <1>3, <2>4 DEF Shaped, Ops
  <2>8. Basic(h)' BY <2>4, <2>5, <2>6 DEF Basic
  <2>10. TimeoutsNatural /\ Modes(h) => Modes(h)'
    BY <1>3, <2>2, <2>4, <2>5, <2>6, <2>9 DEF Modes, Complement, LinuxDevices
  <2> QED BY <2>1, <2>2, <2>3, <2>7, <2>8, <2>10, Framed DEF Keeps
<1> QED
  BY <1>4, <1>5, <1>6, <1>7, <1>8, <1>9, <1>10, <1>11, <1>12, <1>13, <1>14, <1>15, <1>16,
     <1>17, <1>18, <1>19, <1>20, <1>21, <1>22, <1>23, <1>24, <1>25, <1>26, <1>27, <1>28,
     <1>29, <1>30, <1>31, <1>32, <1>33, <1>34, <1>35, <1>36, <1>37, <1>38, <1>39, <1>40,
     <1>41, <1>42

-----------------------------------------------------------------------------
(* The invariants hold. *)

(* No handle is open at first. *)
LEMMA AtFirst == Init => Invariant /\ \A h \in Handles : Modes(h)
<1> SUFFICES ASSUME Init PROVE Invariant /\ \A h \in Handles : Modes(h) OBVIOUS
<1>1. /\ DOMAIN p = Handles /\ DOMAIN priv = Handles /\ DOMAIN pc = Handles
      /\ DOMAIN call = Handles /\ DOMAIN state = Handles /\ DOMAIN cache = Handles
      /\ asked \in [Handles -> BOOLEAN] /\ pcaps_to_close \in Seq(Handles)
  BY DEF Init
<1>2. ASSUME NEW h \in Handles
      PROVE  /\ DOMAIN p[h] = Fields /\ ~p[h].activated /\ ~p[h].nonblock
             /\ p[h].activated \in BOOLEAN /\ p[h].nonblock \in BOOLEAN
             /\ p[h].ops = "none" /\ p[h].timeout \in Nat
  BY <1>2 DEF Init, NewPcap, Fields
<1>3. ASSUME NEW h \in Handles
      PROVE  /\ DOMAIN priv[h] = PrivFields /\ priv[h].timeout \in Int
             /\ DOMAIN cache[h] = {"snapshotLength", "dataLinkType"}
             /\ cache[h].snapshotLength = 0
             /\ pc[h] = "idle" /\ state[h] = "none" /\ ~asked[h]
  BY <1>3 DEF Init, NewPriv, PrivFields
<1>4. \A h \in Handles : Shaped(p[h]) BY <1>2 DEF Shaped, Ops
<1>5. Shapes BY <1>1, <1>3, <1>4 DEF Shapes, PrivShaped
<1>6. \A h \in Handles : Basic(h) BY <1>2, <1>3 DEF Basic
<1>7. \A h \in Handles : Modes(h) BY <1>2, <1>3 DEF Modes, RingSteps
<1> QED BY <1>5, <1>6, <1>7 DEF Invariant

(* What a step of one handle keeps, the step keeps of all. *)
LEMMA KeepsAll ==
  ASSUME Invariant, NEW h \in Handles, Keeps(h)
  PROVE  Invariant' /\ (TimeoutsNatural /\ (\A g \in Handles : Modes(g))
                          => \A g \in Handles : Modes(g)')
<1>1. ASSUME NEW g \in Handles, g # h
      PROVE  /\ p'[g] = p[g] /\ priv'[g] = priv[g] /\ pc'[g] = pc[g] /\ state'[g] = state[g]
             /\ call'[g] = call[g] /\ cache'[g] = cache[g] /\ asked'[g] = asked[g]
             /\ g \notin spoilt' => g \notin spoilt
  BY <1>1 DEF Keeps, Others
<1>2. ASSUME NEW g \in Handles PROVE Basic(g)'
  <2>1. CASE g = h BY <2>1 DEF Keeps
  <2>2. CASE g # h BY <1>1, <2>2 DEF Invariant, Basic
  <2> QED BY <2>1, <2>2
<1>3. ASSUME TimeoutsNatural, \A g \in Handles : Modes(g), NEW g \in Handles PROVE Modes(g)'
  <2>1. CASE g = h BY <1>3, <2>1 DEF Keeps
  <2>2. CASE g # h BY <1>1, <1>3, <2>2 DEF Modes
  <2> QED BY <2>1, <2>2
<1> QED BY <1>2, <1>3 DEF Invariant, Keeps

(* The steps of a running activation and of the clean-up after a failed one. *)
LEMMA RunningKeeps ==
  ASSUME Invariant, NEW h \in Handles
  PROVE  /\ Running(h) => Keeps(h)
         /\ DeviceRunning(h) => Keeps(h)
<1>1. Shapes /\ Basic(h) BY DEF Invariant
<1>2. Effect(h) => Keeps(h) BY <1>1, EffectKeeps
<1>3. Running(h) => Keeps(h)
  BY <1>1, <1>2, OtherActivations, OtherSteps DEF Running
<1>4. CleaningUp(h) => Keeps(h) BY <1>1, OtherSteps DEF CleaningUp
<1>5. DeviceRunning(h) => Keeps(h)
  BY <1>1, <1>2, <1>4, Activations, OtherActivations, OtherSteps DEF DeviceRunning
<1> QED BY <1>3, <1>5

(* Every step but the exit is a step of one handle that keeps its invariant. *)
LEMMA StepKeeps ==
  ASSUME Invariant, DevicesNext
  PROVE  (\E h \in Handles : Keeps(h)) \/ Exit
<1>1. \A h \in Handles : Shapes /\ Basic(h) BY DEF Invariant
<1>2. ASSUME NEW h \in Handles, Calls(h) PROVE Keeps(h)
  BY <1>1, <1>2, OtherSteps DEF Calls, PcapClose
<1>3. ASSUME NEW h \in Handles, Inquiries(h) PROVE Keeps(h)
  BY <1>1, <1>3, OtherSteps DEF Inquiries
<1>4. ASSUME NEW h \in Handles, Inquired(h) PROVE Keeps(h)
  BY <1>1, <1>4, OtherSteps DEF Inquired
<1>5. ASSUME CloseAll PROVE \E h \in Handles : Keeps(h)
  <2>1. Head(pcaps_to_close) \in Handles
    <3>1. pcaps_to_close \in Seq(Handles) /\ pcaps_to_close # <<>>
      BY <1>5 DEF CloseAll, Invariant, Shapes
    <3> QED BY <3>1
  <2>2. Close(Head(pcaps_to_close)) BY <1>5 DEF CloseAll
  <2> QED BY <1>1, <2>1, <2>2, OtherSteps
<1>6. ASSUME atexit_handler PROVE \E h \in Handles : Keeps(h)
  <2>1. PICK h \in Handles : Close(h) BY <1>6 DEF atexit_handler
  <2> QED BY <1>1, <2>1, OtherSteps
<1>7. CASE Next
  BY <1>2, <1>3, <1>5, <1>7, RunningKeeps DEF Next
<1>8. CASE \E h \in Handles : DeviceRunning(h) \/ (Inquire /\ Inquired(h))
  BY <1>4, <1>8, RunningKeeps
<1> QED BY <1>6, <1>7, <1>8 DEF DevicesNext

(* Exit, and a step that leaves everything as it is. *)
LEMMA Unchanged ==
  ASSUME Invariant, Exit \/ UNCHANGED vars
  PROVE  Invariant' /\ ((\A g \in Handles : Modes(g)) => \A g \in Handles : Modes(g)')
<1>1. /\ p' = p /\ priv' = priv /\ pc' = pc /\ state' = state /\ call' = call /\ cache' = cache
      /\ asked' = asked /\ spoilt' = spoilt /\ pcaps_to_close' = pcaps_to_close
  BY DEF Exit, vars, aside, client, devices, local
<1> QED BY <1>1 DEF Invariant, Shapes, Basic, Modes

(* The invariant is inductive, and so is its part on the modes where the
   timeouts are natural numbers. *)
LEMMA StepInvariant ==
  ASSUME Invariant, [DevicesNext]_vars
  PROVE  Invariant' /\ (TimeoutsNatural /\ (\A g \in Handles : Modes(g))
                          => \A g \in Handles : Modes(g)')
BY StepKeeps, KeepsAll, Unchanged

(* pcap_snapshot answers PCAP_ERROR_NOT_ACTIVATED or the length the handle has
   from its activation on: what Pcap.java keeps of it never grows stale. *)
THEOREM CachedSnapshotHolds == DevicesSpec => []CachedSnapshot
<1>1. Init => Invariant BY AtFirst
<1>2. Invariant /\ [DevicesNext]_vars => Invariant' BY StepInvariant
<1>3. Invariant => CachedSnapshot BY DEF Invariant, Basic, CachedSnapshot
<1> QED BY <1>1, <1>2, <1>3, PTL DEF DevicesSpec

(* PcapGetNonBlock tells the mode that was set last, and a ring that is
   switched back has its timeout again, whatever was called in between. *)
THEOREM NonBlockIsAsSet ==
  ASSUME TimeoutsNatural
  PROVE  DevicesSpec => []NonBlockAsSet
<1>1. Init => ModesInvariant BY AtFirst DEF ModesInvariant
<1>2. ModesInvariant /\ [DevicesNext]_vars => ModesInvariant'
  BY StepInvariant DEF ModesInvariant
<1>3. ModesInvariant => NonBlockAsSet
  <2> SUFFICES ASSUME ModesInvariant, NEW h \in Handles \ spoilt, p[h].activated
               PROVE  /\ \/ PcapGetNonBlock(h) = asked[h]
                         \/ p[h].source = "npf" /\ p[h].timeout = -1
                      /\ p[h].ops = "mmap" /\ ~asked[h] => priv[h].timeout = p[h].timeout
    BY DEF NonBlockAsSet
  <2>1. Modes(h) /\ asked[h] \in BOOLEAN BY DEF ModesInvariant, Invariant, Shapes
  <2>2. CASE p[h].ops = "mmap"
    <3>1. p[h].timeout \in Nat BY <2>1, <2>2 DEF Modes
    <3>2. priv[h].timeout = IF asked[h] THEN -p[h].timeout - 1 ELSE p[h].timeout
      BY <2>1, <2>2 DEF Modes, Complement
    <3>3. asked[h] => priv[h].timeout < 0 BY <3>1, <3>2
    <3>4. ~asked[h] => ~(priv[h].timeout < 0) /\ priv[h].timeout = p[h].timeout
      BY <3>1, <3>2
    <3> QED BY <2>1, <2>2, <3>3, <3>4 DEF PcapGetNonBlock
  <2>3. CASE p[h].ops # "mmap" BY <2>1, <2>3 DEF Modes, PcapGetNonBlock
  <2> QED BY <2>2, <2>3
<1> QED BY <1>1, <1>2, <1>3, PTL DEF DevicesSpec
=============================================================================
