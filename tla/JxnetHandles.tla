---------------------------- MODULE JxnetHandles ----------------------------
(***************************************************************************)
(* The life of the native handles of Jxnet.  A Java object Pcap or         *)
(* PcapDumper holds in its field "address" the pointer of a libpcap        *)
(* structure (pcap_t or FILE); zero means closed.  Every native method     *)
(* reads the field (GetPcap, GetPcapDumper in jni/src/utils.c), calls      *)
(* libpcap with the pointer it read and, for the two close calls, stores   *)
(* zero after the structure has been freed.  The three parts are separate  *)
(* steps of the calling thread, and any number of threads may call.        *)
(*                                                                         *)
(* A native call of a thread goes through these program points:            *)
(*   "java"    in Java code: no native call, or inside a packet callback   *)
(*   "get"     arguments checked, about to read the address                *)
(*   "native"  holds the pointer, about to call libpcap with it            *)
(*   "clear"   the structure is freed, the address not yet zeroed          *)
(*   "alloc"   about to call the libpcap function that allocates           *)
(*   "wrap"    structure allocated, about to make the Java object          *)
(*   "reading" inside the read loop of pcap_loop or pcap_dispatch          *)
(***************************************************************************)
CONSTANTS Threads,      \* Java threads that call Jxnet
          Pcaps,        \* Java objects of class Pcap
          Dumpers,      \* Java objects of class PcapDumper
          Addrs,        \* addresses malloc may return
          NULL,         \* address zero
          None,         \* no Java object
          Exclusive,    \* do the clients keep a close apart from other calls?
          IllegalArgs   \* may clients pass arguments that CheckArgument rejects?

Handles == Pcaps \cup Dumpers

ASSUME ConstantsAssumption ==
         /\ Pcaps \cap Dumpers = {}
         /\ NULL \notin Addrs
         /\ None \notin Handles
         /\ Exclusive \in BOOLEAN
         /\ IllegalArgs \in BOOLEAN

VARIABLES life,     \* life[h]: "unborn", "live" in Java, or "lost" with an exception
          address,  \* address[h]: the field address of the Java object
          heap,     \* heap[a]: the object block a was allocated for, None if free
          pc, op, hnd, ptr, new, exc,  \* per thread: the native call in progress
          loop, loopPtr,  \* per thread: the handle and pointer of the loop it is in
          jvm       \* "up", "crashed" on a null pointer, "corrupt" on a dangling one

vars == <<life, address, heap, pc, op, hnd, ptr, new, exc, loop, loopPtr, jvm>>

Points == {"java", "get", "native", "clear", "alloc", "wrap", "reading"}
Ops == {"none", "use", "raw", "flush", "close", "rawclose", "loop", "dumpopen",
        "open", "opendead"}
Exceptions == {"none", "IllegalArgument", "NullOrClosed"}

(* The whole state is well typed. *)
TypeOK == /\ life \in [Handles -> {"unborn", "live", "lost"}]
          /\ address \in [Handles -> Addrs \cup {NULL}]
          /\ heap \in [Addrs -> Handles \cup {None}]
          /\ pc \in [Threads -> Points]
          /\ op \in [Threads -> Ops]
          /\ hnd \in [Threads -> Handles \cup {None}]
          /\ ptr \in [Threads -> Addrs \cup {NULL}]
          /\ new \in [Threads -> Handles \cup {None}]
          /\ exc \in [Threads -> Exceptions]
          /\ loop \in [Threads -> Pcaps \cup {None}]
          /\ loopPtr \in [Threads -> Addrs \cup {NULL}]
          /\ jvm \in {"up", "crashed", "corrupt"}

Init == /\ life = [h \in Handles |-> "unborn"]
        /\ address = [h \in Handles |-> NULL]
        /\ heap = [a \in Addrs |-> None]
        /\ pc = [t \in Threads |-> "java"]
        /\ op = [t \in Threads |-> "none"]
        /\ hnd = [t \in Threads |-> None]
        /\ ptr = [t \in Threads |-> NULL]
        /\ new = [t \in Threads |-> None]
        /\ exc = [t \in Threads |-> "none"]
        /\ loop = [t \in Threads |-> None]
        /\ loopPtr = [t \in Threads |-> NULL]
        /\ jvm = "up"

-----------------------------------------------------------------------------
(* What a client does.  A client that is Exclusive enters a close only when
   no thread is in a call or a loop on that handle, and no other call on a
   handle while a close of it is in progress: the synchronisation Jxnet
   leaves to its callers.  Any other client calls whenever it likes. *)

InCall(u, h) == hnd[u] = h

Closing(u, h) == InCall(u, h) /\ op[u] \in {"close", "rawclose"}

ClientMayCall(h, o) ==
  Exclusive => IF o \in {"close", "rawclose"}
               THEN \A u \in Threads : ~InCall(u, h) /\ loop[u] # h
               ELSE \A u \in Threads : ~Closing(u, h)

(* The arguments a native method is given: within the bounds CheckArgument
   tests, or also outside of them. *)
ArgsLegal == IF IllegalArgs THEN BOOLEAN ELSE {TRUE}

(* CheckArgument throws IllegalArgumentException when its condition is false
   and then returns !expression, which is 1: no caller ever takes the early
   return it guards with "if (!CheckArgument(...))". *)
CheckArgument(legal) == IF legal THEN "none" ELSE "IllegalArgument"

(* CheckNotNull returns NULL for a null reference, and every caller returns:
   the call ends with a NullPointerException and has touched nothing. *)
CheckNotNull(t) ==
  /\ jvm = "up" /\ pc[t] = "java"
  /\ exc' = [exc EXCEPT ![t] = "NullOrClosed"]
  /\ UNCHANGED <<life, address, heap, pc, op, hnd, ptr, new, loop, loopPtr, jvm>>

(* PcapSetImmediateMode alone has no CheckNotNull: for a null reference
   GetPcap throws and returns NULL, which goes to libpcap. *)
GetPcapOfNull(t) ==
  /\ jvm = "up" /\ pc[t] = "java"
  /\ pc' = [pc EXCEPT ![t] = "native"]
  /\ op' = [op EXCEPT ![t] = "raw"]
  /\ ptr' = [ptr EXCEPT ![t] = NULL]
  /\ exc' = [exc EXCEPT ![t] = "NullOrClosed"]
  /\ UNCHANGED <<life, address, heap, hnd, new, loop, loopPtr, jvm>>

(* A native method on an existing object h enters after its checks. *)
Enter(t, h, o, n, legal) ==
  /\ jvm = "up" /\ pc[t] = "java"
  /\ life[h] = "live"
  /\ ClientMayCall(h, o)
  /\ pc' = [pc EXCEPT ![t] = "get"]
  /\ op' = [op EXCEPT ![t] = o]
  /\ hnd' = [hnd EXCEPT ![t] = h]
  /\ new' = [new EXCEPT ![t] = n]
  /\ exc' = [exc EXCEPT ![t] = CheckArgument(legal)]
  /\ UNCHANGED <<life, address, heap, ptr, loop, loopPtr, jvm>>

Enter1(t, h, o) == Enter(t, h, o, None, TRUE)

(* A native method that makes a Pcap enters; n is the object it will make. *)
EnterOpen(t, n, o, legal) ==
  /\ jvm = "up" /\ pc[t] = "java"
  /\ life[n] = "unborn" /\ \A u \in Threads : new[u] # n
  /\ pc' = [pc EXCEPT ![t] = "alloc"]
  /\ op' = [op EXCEPT ![t] = o]
  /\ hnd' = [hnd EXCEPT ![t] = None]
  /\ new' = [new EXCEPT ![t] = n]
  /\ exc' = [exc EXCEPT ![t] = CheckArgument(legal)]
  /\ UNCHANGED <<life, address, heap, ptr, loop, loopPtr, jvm>>
-----------------------------------------------------------------------------
(* The native methods of jni/src/jxnet.c.  "use": the pointer is compared
   with NULL before libpcap is called; "raw": it is not; "flush": it is not,
   but the library accepts NULL. *)

PcapOpenLive(t) ==
  \E n \in Pcaps, legal \in ArgsLegal : EnterOpen(t, n, "open", legal)
PcapOpenOffline(t) == \E n \in Pcaps : EnterOpen(t, n, "open", TRUE)
PcapCreate(t) == \E n \in Pcaps : EnterOpen(t, n, "open", TRUE)
PcapOpenDead(t) ==
  \E n \in Pcaps, legal \in ArgsLegal : EnterOpen(t, n, "opendead", legal)

(* Mutant of PcapLoop: any object with an address is taken for a Pcap. *)
PcapLoopOfAnyHandle(t) == \E h \in Handles : loop[t] = None /\ Enter1(t, h, "loop")

(* A loop started from the callback of another loop of the same thread is
   left out: one loop per thread. *)
PcapLoop(t) == \E p \in Pcaps : loop[t] = None /\ Enter1(t, p, "loop")
PcapDispatch(t) ==
  \E p \in Pcaps, legal \in ArgsLegal :
    loop[t] = None /\ Enter(t, p, "loop", None, legal)

PcapSendPacket(t) ==
  \E p \in Pcaps, legal \in ArgsLegal : Enter(t, p, "use", None, legal)
PcapSetDataLink(t) ==
  \E p \in Pcaps, legal \in ArgsLegal : Enter(t, p, "use", None, legal)
PcapSetNonBlock(t) ==
  \E p \in Pcaps, legal \in ArgsLegal : Enter(t, p, "use", None, legal)
PcapCompile(t) ==
  \E p \in Pcaps, legal \in ArgsLegal : Enter(t, p, "use", None, legal)
PcapSetFilter(t) == \E p \in Pcaps : Enter1(t, p, "use")
PcapNext(t) == \E p \in Pcaps : Enter1(t, p, "use")
PcapNextEx(t) == \E p \in Pcaps : Enter1(t, p, "use")
PcapDataLink(t) == \E p \in Pcaps : Enter1(t, p, "use")
PcapBreakLoop(t) == \E p \in Pcaps : Enter1(t, p, "use")
PcapGetErr(t) == \E p \in Pcaps : Enter1(t, p, "use")
PcapIsSwapped(t) == \E p \in Pcaps : Enter1(t, p, "use")
PcapSnapshot(t) == \E p \in Pcaps : Enter1(t, p, "use")
PcapVersion(t) == \E p \in Pcaps : Enter1(t, p, "use")
PcapGetNonBlock(t) == \E p \in Pcaps : Enter1(t, p, "use")

PcapSetOption(t) ==
  \E p \in Pcaps, legal \in ArgsLegal : Enter(t, p, "raw", None, legal)
PcapSetRfMon(t) ==
  \E p \in Pcaps, legal \in ArgsLegal : Enter(t, p, "raw", None, legal)
PcapSetImmediateMode(t) ==
  \E p \in Pcaps, legal \in ArgsLegal : Enter(t, p, "raw", None, legal)
PcapStats(t) == \E p \in Pcaps : Enter1(t, p, "raw")
PcapPError(t) == \E p \in Pcaps : Enter1(t, p, "raw")
PcapActivate(t) == \E p \in Pcaps : Enter1(t, p, "raw")
PcapSetDirection(t) == \E p \in Pcaps : Enter1(t, p, "raw")

PcapClose(t) == \E p \in Pcaps : Enter1(t, p, "close")

PcapDumpOpen(t) ==
  \E p \in Pcaps, d \in Dumpers :
    /\ life[d] = "unborn" /\ \A u \in Threads : new[u] # d
    /\ Enter(t, p, "dumpopen", d, TRUE)
PcapDump(t) == \E d \in Dumpers : Enter1(t, d, "use")
PcapDumpFlush(t) == \E d \in Dumpers : Enter1(t, d, "flush")
PcapDumpFTell(t) == \E d \in Dumpers : Enter1(t, d, "raw")
PcapDumpClose(t) == \E d \in Dumpers : Enter1(t, d, "rawclose")

-----------------------------------------------------------------------------
(* The steps inside a native method. *)

(* The method returns to Java, and its local variables are gone. *)
Return(t) ==
  /\ pc' = [pc EXCEPT ![t] = "java"]
  /\ op' = [op EXCEPT ![t] = "none"]
  /\ hnd' = [hnd EXCEPT ![t] = None]
  /\ ptr' = [ptr EXCEPT ![t] = NULL]
  /\ new' = [new EXCEPT ![t] = None]

(* GetPcap and GetPcapDumper: the synchronized getter returns the address.
   With an exception already pending the JVM may refuse to run the getter,
   and the call yields zero. *)
GetterResults(t) ==
  {address[hnd[t]]} \cup (IF exc[t] = "none" THEN {} ELSE {NULL})

GetAddress(t) ==
  /\ jvm = "up" /\ pc[t] = "get"
  /\ \E a \in GetterResults(t) \ {NULL} : ptr' = [ptr EXCEPT ![t] = a]
  /\ pc' = [pc EXCEPT ![t] = "native"]
  /\ UNCHANGED <<life, address, heap, op, hnd, new, exc, loop, loopPtr, jvm>>

(* Address zero throws; a method that compares the pointer with NULL returns,
   the others go on to call libpcap with it. *)
GetClosed(t) ==
  /\ jvm = "up" /\ pc[t] = "get"
  /\ NULL \in GetterResults(t)
  /\ exc' = [exc EXCEPT ![t] = "NullOrClosed"]
  /\ IF op[t] \in {"raw", "flush", "rawclose"}
     THEN /\ pc' = [pc EXCEPT ![t] = "native"]
          /\ ptr' = [ptr EXCEPT ![t] = NULL]
          /\ UNCHANGED <<op, hnd, new>>
     ELSE Return(t)
  /\ UNCHANGED <<life, address, heap, loop, loopPtr, jvm>>

(* libpcap is called with the null pointer: the process dies, except in
   fflush(NULL). *)
NullCall(t) ==
  /\ jvm = "up" /\ pc[t] = "native" /\ ptr[t] = NULL
  /\ IF op[t] = "flush"
     THEN Return(t) /\ UNCHANGED jvm
     ELSE jvm' = "crashed" /\ UNCHANGED <<pc, op, hnd, ptr, new>>
  /\ UNCHANGED <<life, address, heap, exc, loop, loopPtr>>

(* The thread is about to hand its pointer to libpcap; pcap_dump_open, and
   the pcap_geterr that follows when it fails, use it twice. *)
HoldsPointer(t) == \/ pc[t] = "native" /\ ptr[t] # NULL
                   \/ pc[t] = "alloc" /\ op[t] = "dumpopen"

(* libpcap is called with a pointer to a block that is not allocated. *)
DanglingCall(t) ==
  /\ jvm = "up" /\ HoldsPointer(t)
  /\ heap[ptr[t]] = None
  /\ jvm' = "corrupt"
  /\ UNCHANGED <<life, address, heap, pc, op, hnd, ptr, new, exc, loop, loopPtr>>

(* libpcap is called with a pointer to an allocated block, whichever object
   the block now belongs to. *)
InNative(t) ==
  jvm = "up" /\ pc[t] = "native" /\ ptr[t] # NULL /\ heap[ptr[t]] # None

UseHandle(t) ==
  /\ InNative(t) /\ op[t] \in {"use", "raw", "flush"}
  /\ Return(t)
  /\ UNCHANGED <<life, address, heap, exc, loop, loopPtr, jvm>>

(* Mutant of FreeHandle: the close only zeroes the address. *)
FreeHandleForgotten(t) ==
  /\ InNative(t) /\ op[t] \in {"close", "rawclose"}
  /\ pc' = [pc EXCEPT ![t] = "clear"]
  /\ UNCHANGED <<life, address, heap, op, hnd, ptr, new, exc, loop, loopPtr, jvm>>

(* pcap_close frees the pcap_t, pcap_dump_close closes the FILE. *)
FreeHandle(t) ==
  /\ InNative(t) /\ op[t] \in {"close", "rawclose"}
  /\ heap' = [heap EXCEPT ![ptr[t]] = None]
  /\ pc' = [pc EXCEPT ![t] = "clear"]
  /\ UNCHANGED <<life, address, op, hnd, ptr, new, exc, loop, loopPtr, jvm>>

(* Mutant of ClearAddress: the closed object keeps its address. *)
ClearAddressForgotten(t) ==
  /\ jvm = "up" /\ pc[t] = "clear"
  /\ Return(t)
  /\ UNCHANGED <<life, address, heap, exc, loop, loopPtr, jvm>>

(* SetLongField(env, jpcap, PcapAddressFID, 0) *)
ClearAddress(t) ==
  /\ jvm = "up" /\ pc[t] = "clear"
  /\ address' = [address EXCEPT ![hnd[t]] = NULL]
  /\ Return(t)
  /\ UNCHANGED <<life, heap, exc, loop, loopPtr, jvm>>

(* pcap_dump_open uses the pcap_t, then opens the file. *)
UseForDump(t) ==
  /\ InNative(t) /\ op[t] = "dumpopen"
  /\ pc' = [pc EXCEPT ![t] = "alloc"]
  /\ UNCHANGED <<life, address, heap, op, hnd, ptr, new, exc, loop, loopPtr, jvm>>

(* pcap_open_live, pcap_open_offline, pcap_create, pcap_open_dead and
   pcap_dump_open allocate; the address may be one that was freed before. *)
Allocate(t) ==
  /\ jvm = "up" /\ pc[t] = "alloc"
  /\ HoldsPointer(t) => heap[ptr[t]] # None
  /\ \E a \in Addrs :
       /\ heap[a] = None
       /\ heap' = [heap EXCEPT ![a] = new[t]]
       /\ ptr' = [ptr EXCEPT ![t] = a]
  /\ pc' = [pc EXCEPT ![t] = "wrap"]
  /\ UNCHANGED <<life, address, op, hnd, new, exc, loop, loopPtr, jvm>>

(* The allocation fails.  PcapOpenDead wraps the null pointer like any other;
   the other methods return null, PcapDumpOpen after throwing. *)
AllocateFails(t) ==
  /\ jvm = "up" /\ pc[t] = "alloc"
  /\ HoldsPointer(t) => heap[ptr[t]] # None
  /\ IF op[t] = "opendead"
     THEN /\ pc' = [pc EXCEPT ![t] = "wrap"]
          /\ ptr' = [ptr EXCEPT ![t] = NULL]
          /\ UNCHANGED <<op, hnd, new>>
     ELSE Return(t)
  /\ exc' = [exc EXCEPT ![t] = IF op[t] = "dumpopen" THEN "NullOrClosed" ELSE exc[t]]
  /\ UNCHANGED <<life, address, heap, loop, loopPtr, jvm>>

(* SetPcap and SetPcapDumper make the object and store the pointer; the
   method returns it, but a pending exception takes the place of the result
   and no Java code ever sees the object. *)
Wrap(t) ==
  /\ jvm = "up" /\ pc[t] = "wrap"
  /\ address' = [address EXCEPT ![new[t]] = ptr[t]]
  /\ life' = [life EXCEPT ![new[t]] = IF exc[t] = "none" THEN "live" ELSE "lost"]
  /\ Return(t)
  /\ UNCHANGED <<heap, exc, loop, loopPtr, jvm>>

(* pcap_loop and pcap_dispatch: the loop keeps the pointer it was given. *)
StartLoop(t) ==
  /\ InNative(t) /\ op[t] = "loop"
  /\ loop' = [loop EXCEPT ![t] = hnd[t]]
  /\ loopPtr' = [loopPtr EXCEPT ![t] = ptr[t]]
  /\ pc' = [pc EXCEPT ![t] = "reading"]
  /\ op' = [op EXCEPT ![t] = "none"]
  /\ hnd' = [hnd EXCEPT ![t] = None]
  /\ ptr' = [ptr EXCEPT ![t] = NULL]
  /\ UNCHANGED <<life, address, heap, new, exc, jvm>>

(* The loop reads its pcap_t, and hands a packet to nextPacket in Java (with
   an exception pending, the JVM may drop it or keep it) ... *)
Deliver(t) ==
  /\ jvm = "up" /\ pc[t] = "reading" /\ heap[loopPtr[t]] # None
  /\ pc' = [pc EXCEPT ![t] = "java"]
  /\ \E e \in {"none", exc[t]} : exc' = [exc EXCEPT ![t] = e]
  /\ UNCHANGED <<life, address, heap, op, hnd, ptr, new, loop, loopPtr, jvm>>

(* ... or returns. *)
LoopReturns(t) ==
  /\ jvm = "up" /\ pc[t] = "reading" /\ heap[loopPtr[t]] # None
  /\ loop' = [loop EXCEPT ![t] = None]
  /\ loopPtr' = [loopPtr EXCEPT ![t] = NULL]
  /\ Return(t)
  /\ UNCHANGED <<life, address, heap, exc, jvm>>

(* The pcap_t was freed under the loop. *)
DanglingRead(t) ==
  /\ jvm = "up" /\ pc[t] = "reading" /\ heap[loopPtr[t]] = None
  /\ jvm' = "corrupt"
  /\ UNCHANGED <<life, address, heap, pc, op, hnd, ptr, new, exc, loop, loopPtr>>

(* nextPacket returns into pcap_callback, and the loop goes on. *)
CallbackReturns(t) ==
  /\ jvm = "up" /\ pc[t] = "java" /\ loop[t] # None
  /\ pc' = [pc EXCEPT ![t] = "reading"]
  /\ UNCHANGED <<life, address, heap, op, hnd, ptr, new, exc, loop, loopPtr, jvm>>

-----------------------------------------------------------------------------
ClientCall(t) ==
  \/ CheckNotNull(t)
  \/ PcapOpenLive(t) \/ PcapOpenOffline(t) \/ PcapCreate(t) \/ PcapOpenDead(t)
  \/ PcapLoop(t) \/ PcapDispatch(t)
  \/ PcapSendPacket(t) \/ PcapSetDataLink(t) \/ PcapSetNonBlock(t)
  \/ PcapCompile(t) \/ PcapSetFilter(t)
  \/ PcapNext(t) \/ PcapNextEx(t) \/ PcapDataLink(t) \/ PcapBreakLoop(t)
  \/ PcapGetErr(t) \/ PcapIsSwapped(t) \/ PcapSnapshot(t) \/ PcapVersion(t)
  \/ PcapGetNonBlock(t)
  \/ GetPcapOfNull(t)
  \/ PcapSetOption(t) \/ PcapSetRfMon(t) \/ PcapSetImmediateMode(t) \/ PcapStats(t)
  \/ PcapPError(t) \/ PcapActivate(t) \/ PcapSetDirection(t)
  \/ PcapClose(t)
  \/ PcapDumpOpen(t) \/ PcapDump(t) \/ PcapDumpFlush(t) \/ PcapDumpFTell(t)
  \/ PcapDumpClose(t)

NativeStep(t) ==
  \/ GetAddress(t) \/ GetClosed(t) \/ NullCall(t) \/ DanglingCall(t) \/ UseHandle(t)
  \/ FreeHandle(t) \/ ClearAddress(t)
  \/ UseForDump(t) \/ Allocate(t) \/ AllocateFails(t) \/ Wrap(t)
  \/ StartLoop(t) \/ Deliver(t) \/ LoopReturns(t) \/ DanglingRead(t)
  \/ CallbackReturns(t)

Next == \E t \in Threads : ClientCall(t) \/ NativeStep(t)

Spec == Init /\ [][Next]_vars

-----------------------------------------------------------------------------
(* Properties. *)

(* Every pointer a thread is about to pass to libpcap, or a loop is still
   reading through, is that of the structure allocated for the very object
   the call was made on: not freed, and not reused by a later open.
   (GetPcap, then the libpcap call, then SetLongField of PcapClose.) *)
CallsUseOwnStructure ==
  \A t \in Threads :
    /\ HoldsPointer(t) => heap[ptr[t]] = hnd[t]
    /\ loop[t] # None => heap[loopPtr[t]] = loop[t]

(* Two Pcap objects carry the same non-zero address, so that Pcap.equals
   takes them for one, only while one of them is between pcap_close and the
   SetLongField that zeroes its address. *)
AliasOnlyWhileClosing ==
  \A g, h \in Handles :
    g # h /\ address[g] = address[h] /\ address[g] # NULL
      => \E t \in Threads : pc[t] = "clear" /\ hnd[t] \in {g, h}

(* Every structure libpcap allocated is held by an object Java code can
   still close, or by the method that is about to make that object. *)
NoLeak ==
  \A a \in Addrs :
    heap[a] # None =>
      \/ life[heap[a]] = "live" /\ address[heap[a]] = a
      \/ \E t \in Threads : pc[t] = "wrap" /\ new[t] = heap[a] /\ ptr[t] = a

(* The process does not die on a call on a closed handle: the methods
   document -1 on error. *)
NoNullCall == jvm # "crashed"

(* Refinement: seen from libpcap, the calls of exclusive clients follow the
   life cycle of HandleLifecycle. *)
Status ==
  [h \in Handles |->
     IF \E a \in Addrs : heap[a] = h THEN "open"
     ELSE IF life[h] = "unborn" THEN "none" ELSE "closed"]
Inside ==
  [h \in Handles |->
     {t \in Threads : \/ (HoldsPointer(t) \/ pc[t] = "wrap") /\ hnd[t] = h
                      \/ loop[t] = h}]
Lifecycle == INSTANCE HandleLifecycle WITH status <- Status, inside <- Inside
FollowsLifecycle == Lifecycle!Spec
=============================================================================
