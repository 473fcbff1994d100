------------------------ MODULE JxnetHandlesProofs ------------------------
(***************************************************************************)
(* Proofs about JxnetHandles, for any set of threads, objects and          *)
(* addresses.                                                              *)
(***************************************************************************)
EXTENDS JxnetHandles, TLAPS

(* What the local variables of a thread hold at each program point. *)
LocalsOK ==
  \A t \in Threads :
    /\ pc[t] \in {"java", "reading"} => hnd[t] = None /\ new[t] = None /\ op[t] = "none"
    /\ pc[t] \in {"get", "clear"} => hnd[t] \in Handles
    /\ pc[t] = "native" /\ hnd[t] \notin Handles => ptr[t] = NULL /\ op[t] = "raw"
    /\ pc[t] \in {"alloc", "wrap"} => new[t] \in Handles
    /\ pc[t] = "alloc" /\ op[t] = "dumpopen" => hnd[t] \in Handles /\ ptr[t] \in Addrs
    /\ op[t] = "loop" => hnd[t] \in Pcaps
    /\ op[t] = "dumpopen" => new[t] \in Handles
    /\ op[t] \notin {"dumpopen", "open", "opendead"} => new[t] = None
    /\ pc[t] = "clear" => op[t] \in {"close", "rawclose"}
    /\ op[t] \in {"close", "rawclose"} => pc[t] \in {"get", "native", "clear"}
    /\ pc[t] = "reading" => loop[t] # None
    /\ loop[t] # None => loopPtr[t] \in Addrs

TypeInv == TypeOK /\ LocalsOK

(* Every native method enters in one of three ways. *)
EntersExisting(t) ==
  \E h \in Handles, o \in Ops, n \in Handles \cup {None}, legal \in ArgsLegal :
    /\ Enter(t, h, o, n, legal)
    /\ o \notin {"none", "open", "opendead"}
    /\ o = "dumpopen" => legal
    /\ o = "loop" => h \in Pcaps /\ loop[t] = None
    /\ IF o = "dumpopen"
       THEN n \in Dumpers /\ life[n] = "unborn" /\ \A u \in Threads : new[u] # n
       ELSE n = None

EntersOpen(t) ==
  \E n \in Pcaps, o \in {"open", "opendead"}, legal \in ArgsLegal :
    EnterOpen(t, n, o, legal)

(* The native methods share these entry steps. *)
LEMMA EntryForms ==
  ASSUME NEW t \in Threads, ClientCall(t)
  PROVE  CheckNotNull(t) \/ GetPcapOfNull(t) \/ EntersExisting(t) \/ EntersOpen(t)
<1>1. TRUE \in ArgsLegal BY DEF ArgsLegal
<1>2. ASSUME NEW h \in Handles, NEW o \in {"use", "raw", "flush", "close", "rawclose"},
             NEW legal \in ArgsLegal, Enter(t, h, o, None, legal)
      PROVE  EntersExisting(t)
  BY <1>2 DEF EntersExisting, Ops
<1>3. ASSUME NEW p \in Pcaps, NEW legal \in ArgsLegal, loop[t] = None,
             Enter(t, p, "loop", None, legal)
      PROVE  EntersExisting(t)
  BY <1>3 DEF EntersExisting, Ops, Handles
<1>4. CASE CheckNotNull(t) \/ GetPcapOfNull(t) BY <1>4
<1>5. CASE \/ PcapOpenLive(t) \/ PcapOpenOffline(t) \/ PcapCreate(t) \/ PcapOpenDead(t)
  BY <1>1, <1>5 DEF PcapOpenLive, PcapOpenOffline, PcapCreate, PcapOpenDead, EntersOpen
<1>6. CASE PcapLoop(t) \/ PcapDispatch(t)
  BY <1>1, <1>3, <1>6 DEF PcapLoop, PcapDispatch, Enter1
<1>7. CASE \/ PcapSendPacket(t) \/ PcapSetDataLink(t) \/ PcapSetNonBlock(t)
           \/ PcapSetOption(t) \/ PcapSetRfMon(t) \/ PcapCompile(t)
           \/ PcapSetImmediateMode(t)
  BY <1>1, <1>2, <1>7 DEF PcapCompile, PcapSendPacket, PcapSetDataLink, PcapSetNonBlock,
     PcapSetOption, PcapSetRfMon, PcapSetImmediateMode, Handles
<1>8. CASE \/ PcapNext(t) \/ PcapNextEx(t) \/ PcapDataLink(t) \/ PcapBreakLoop(t)
           \/ PcapGetErr(t) \/ PcapIsSwapped(t) \/ PcapSnapshot(t) \/ PcapVersion(t)
           \/ PcapGetNonBlock(t) \/ PcapSetFilter(t)
  BY <1>1, <1>2, <1>8 DEF PcapSetFilter, PcapNext, PcapNextEx, PcapDataLink, PcapBreakLoop,
     PcapGetErr,
     PcapIsSwapped, PcapSnapshot, PcapVersion, PcapGetNonBlock, Enter1, Handles
<1>9. CASE \/ PcapStats(t) \/ PcapPError(t) \/ PcapActivate(t) \/ PcapSetDirection(t)
           \/ PcapClose(t)
  BY <1>1, <1>2, <1>9 DEF PcapStats, PcapPError, PcapActivate, PcapSetDirection, PcapClose,
     Enter1, Handles
<1>10. CASE PcapDumpOpen(t)
  BY <1>1, <1>10 DEF PcapDumpOpen, EntersExisting, Ops, Handles
<1>11. CASE \/ PcapDump(t) \/ PcapDumpFlush(t) \/ PcapDumpFTell(t) \/ PcapDumpClose(t)
  BY <1>1, <1>2, <1>11 DEF PcapDump, PcapDumpFlush, PcapDumpFTell, PcapDumpClose,
     Enter1, Handles
<1> QED
  BY <1>4, <1>5, <1>6, <1>7, <1>8, <1>9, <1>10, <1>11 DEF ClientCall

-----------------------------------------------------------------------------
(* Type correctness. *)

(* Before any call every local variable is empty. *)
LEMMA TypeInvInit == Init => TypeInv
BY ConstantsAssumption
   DEF Init, TypeInv, TypeOK, LocalsOK, Points, Ops, Exceptions, Handles

(* Every step keeps the types and what the locals hold. *)
LEMMA TypeInvNext == TypeInv /\ [Next]_vars => TypeInv'
<1> SUFFICES ASSUME TypeInv, [Next]_vars PROVE TypeInv'
  OBVIOUS
<1> USE ConstantsAssumption DEF TypeInv, TypeOK, LocalsOK, Points, Ops, Exceptions, Handles
<1>1. ASSUME NEW t \in Threads, CheckNotNull(t) \/ GetPcapOfNull(t) PROVE TypeInv'
  BY <1>1 DEF CheckNotNull, GetPcapOfNull
<1>2. ASSUME NEW t \in Threads, EntersExisting(t) PROVE TypeInv'
  BY <1>2 DEF EntersExisting, Enter, CheckArgument
<1>3. ASSUME NEW t \in Threads, EntersOpen(t) PROVE TypeInv'
  BY <1>3 DEF EntersOpen, EnterOpen, CheckArgument
<1>4. ASSUME NEW t \in Threads, GetAddress(t) PROVE TypeInv'
  BY <1>4 DEF GetAddress, GetterResults
<1>5. ASSUME NEW t \in Threads, GetClosed(t) PROVE TypeInv'
  BY <1>5 DEF GetClosed, Return
<1>6. ASSUME NEW t \in Threads, NullCall(t) PROVE TypeInv'
  BY <1>6 DEF NullCall, Return
<1>7. ASSUME NEW t \in Threads, DanglingCall(t) \/ DanglingRead(t) PROVE TypeInv'
  BY <1>7 DEF DanglingCall, DanglingRead
<1>8. ASSUME NEW t \in Threads, UseHandle(t) PROVE TypeInv'
  BY <1>8 DEF UseHandle, Return
<1>9. ASSUME NEW t \in Threads, FreeHandle(t) PROVE TypeInv'
  BY <1>9 DEF FreeHandle, InNative
<1>10. ASSUME NEW t \in Threads, ClearAddress(t) PROVE TypeInv'
  BY <1>10 DEF ClearAddress, Return
<1>11. ASSUME NEW t \in Threads, UseForDump(t) PROVE TypeInv'
  BY <1>11 DEF UseForDump, InNative
<1>12. ASSUME NEW t \in Threads, Allocate(t) PROVE TypeInv'
  BY <1>12 DEF Allocate
<1>13. ASSUME NEW t \in Threads, AllocateFails(t) PROVE TypeInv'
  BY <1>13 DEF AllocateFails, Return
<1>14. ASSUME NEW t \in Threads, Wrap(t) PROVE TypeInv'
  BY <1>14 DEF Wrap, Return
<1>15. ASSUME NEW t \in Threads, StartLoop(t) PROVE TypeInv'
  BY <1>15 DEF StartLoop, InNative
<1>16. ASSUME NEW t \in Threads, Deliver(t) \/ CallbackReturns(t) PROVE TypeInv'
  BY <1>16 DEF Deliver, CallbackReturns
<1>17. ASSUME NEW t \in Threads, LoopReturns(t) PROVE TypeInv'
  BY <1>17 DEF LoopReturns, Return
<1>18. CASE UNCHANGED vars
  BY <1>18 DEF vars
<1> QED
  BY EntryForms, <1>1, <1>2, <1>3, <1>4, <1>5, <1>6, <1>7, <1>8, <1>9, <1>10, <1>11,
     <1>12, <1>13, <1>14, <1>15, <1>16, <1>17, <1>18
     DEF Next, NativeStep

(* Type correctness of the model of the native handles. *)
THEOREM TypeCorrect == Spec => []TypeOK
<1>1. TypeInv => TypeOK BY DEF TypeInv
<1> QED BY TypeInvInit, TypeInvNext, <1>1, PTL DEF Spec

-----------------------------------------------------------------------------
(* Memory safety for exclusive clients. *)

(* Objects that are in a call are in Java's hands, objects being made are
   not, and no two methods make the same object. *)
LifeInv ==
  /\ \A t \in Threads :
       /\ hnd[t] # None => life[hnd[t]] = "live"
       /\ loop[t] # None => life[loop[t]] = "live"
       /\ new[t] # None => life[new[t]] = "unborn"
  /\ \A t, u \in Threads : t # u /\ new[t] # None => new[t] # new[u]

(* While a thread is in a close of h, no other thread is in a call on h and
   no thread is in a loop on h. *)
ExclusionInv ==
  \A t, u \in Threads :
    op[t] \in {"close", "rawclose"} =>
      /\ t # u => hnd[u] # hnd[t]
      /\ loop[u] # hnd[t]

(* The address of an object leads to its own structure, unless a close has
   freed it; the pointers in local variables are the address; an object not
   yet handed out owns a block only while its maker is about to wrap it. *)
OwnerInv ==
  /\ \A h \in Handles :
       address[h] # NULL /\ (\A t \in Threads : ~(pc[t] = "clear" /\ hnd[t] = h))
         => heap[address[h]] = h
  /\ \A h \in Handles : life[h] = "unborn" => address[h] = NULL
  /\ \A t \in Threads :
       /\ HoldsPointer(t) => ptr[t] = address[hnd[t]]
       /\ loop[t] # None => loopPtr[t] = address[loop[t]]
       /\ pc[t] = "wrap" /\ ptr[t] # NULL => heap[ptr[t]] = new[t]

(* No libpcap call was ever made with a dangling pointer. *)
MemorySafe == jvm # "corrupt"

SafeInv == TypeInv /\ LifeInv /\ ExclusionInv /\ OwnerInv /\ MemorySafe

(* Nothing is open, so nothing can be shared or dangle. *)
LEMMA SafeInvInit == Init => SafeInv
<1> SUFFICES ASSUME Init PROVE SafeInv
  OBVIOUS
<1>1. TypeInv BY TypeInvInit
<1>2. LifeInv /\ ExclusionInv /\ OwnerInv /\ MemorySafe
  BY ConstantsAssumption DEF Init, LifeInv, ExclusionInv, OwnerInv, MemorySafe, HoldsPointer
<1> QED BY <1>1, <1>2 DEF SafeInv

(* The invariant gives the property: no close is under way on the object of a
   call that holds a pointer. *)
LEMMA SafeInvImplies == SafeInv => CallsUseOwnStructure
<1> SUFFICES ASSUME SafeInv, NEW t \in Threads
             PROVE /\ HoldsPointer(t) => heap[ptr[t]] = hnd[t]
                   /\ loop[t] # None => heap[loopPtr[t]] = loop[t]
  BY DEF CallsUseOwnStructure
<1> USE ConstantsAssumption DEF SafeInv, TypeInv, TypeOK, LocalsOK, Handles, HoldsPointer
<1>1. ASSUME HoldsPointer(t) PROVE heap[ptr[t]] = hnd[t]
  BY <1>1 DEF ExclusionInv, OwnerInv
<1>2. ASSUME loop[t] # None PROVE heap[loopPtr[t]] = loop[t]
  BY <1>2 DEF ExclusionInv, OwnerInv
<1> QED BY <1>1, <1>2

(* Objects become live only when they are wrapped, by their one maker. *)
LEMMA LifeInvNext == TypeInv /\ LifeInv /\ [Next]_vars => LifeInv'
<1> SUFFICES ASSUME TypeInv, LifeInv, [Next]_vars PROVE LifeInv'
  OBVIOUS
<1> USE ConstantsAssumption DEF TypeInv, TypeOK, LocalsOK, LifeInv, Handles
<1>1. ASSUME NEW t \in Threads, CheckNotNull(t) \/ GetPcapOfNull(t) PROVE LifeInv'
  BY <1>1 DEF CheckNotNull, GetPcapOfNull
<1>2. ASSUME NEW t \in Threads, EntersExisting(t) PROVE LifeInv'
  BY <1>2 DEF EntersExisting, Enter
<1>3. ASSUME NEW t \in Threads, EntersOpen(t) PROVE LifeInv'
  BY <1>3 DEF EntersOpen, EnterOpen
<1>4. ASSUME NEW t \in Threads, Wrap(t) PROVE LifeInv'
  BY <1>4 DEF Wrap, Return
<1>5. ASSUME NEW t \in Threads, StartLoop(t) PROVE LifeInv'
  BY <1>5 DEF StartLoop
<1>6. ASSUME NEW t \in Threads,
             \/ GetAddress(t) \/ GetClosed(t) \/ NullCall(t) \/ DanglingCall(t)
             \/ UseHandle(t) \/ FreeHandle(t) \/ ClearAddress(t) \/ UseForDump(t)
      PROVE  LifeInv'
  BY <1>6 DEF GetAddress, GetClosed, NullCall, DanglingCall, UseHandle, FreeHandle,
     ClearAddress, UseForDump, Return
<1>7. ASSUME NEW t \in Threads,
             \/ Allocate(t) \/ AllocateFails(t) \/ Deliver(t) \/ LoopReturns(t)
             \/ DanglingRead(t) \/ CallbackReturns(t)
      PROVE  LifeInv'
  BY <1>7 DEF Allocate, AllocateFails, Deliver, LoopReturns, DanglingRead,
     CallbackReturns, Return
<1>8. CASE UNCHANGED vars
  BY <1>8 DEF vars
<1> QED
  BY EntryForms, <1>1, <1>2, <1>3, <1>4, <1>5, <1>6, <1>7, <1>8 DEF Next, NativeStep

(* The entry rule of exclusive clients lasts for the whole call. *)
LEMMA ExclusionInvNext == Exclusive /\ SafeInv /\ [Next]_vars => ExclusionInv'
<1> SUFFICES ASSUME Exclusive, SafeInv, [Next]_vars PROVE ExclusionInv'
  OBVIOUS
<1> USE ConstantsAssumption DEF SafeInv, TypeInv, TypeOK, LocalsOK, ExclusionInv, Handles
<1>1. ASSUME NEW t \in Threads, CheckNotNull(t) \/ GetPcapOfNull(t) PROVE ExclusionInv'
  BY <1>1 DEF CheckNotNull, GetPcapOfNull
<1>2. ASSUME NEW t \in Threads, EntersExisting(t) PROVE ExclusionInv'
  BY <1>2 DEF EntersExisting, Enter, ClientMayCall, InCall, Closing
<1>3. ASSUME NEW t \in Threads, EntersOpen(t) PROVE ExclusionInv'
  BY <1>3 DEF EntersOpen, EnterOpen
<1>4. ASSUME NEW t \in Threads, StartLoop(t) PROVE ExclusionInv'
  BY <1>4 DEF StartLoop
<1>5. ASSUME NEW t \in Threads,
             \/ GetAddress(t) \/ GetClosed(t) \/ NullCall(t) \/ DanglingCall(t)
             \/ UseHandle(t) \/ FreeHandle(t) \/ ClearAddress(t) \/ UseForDump(t)
      PROVE  ExclusionInv'
  BY <1>5 DEF GetAddress, GetClosed, NullCall, DanglingCall, UseHandle, FreeHandle,
     ClearAddress, UseForDump, Return
<1>6. ASSUME NEW t \in Threads,
             \/ Allocate(t) \/ AllocateFails(t) \/ Wrap(t) \/ Deliver(t) \/ LoopReturns(t)
             \/ DanglingRead(t) \/ CallbackReturns(t)
      PROVE  ExclusionInv'
  BY <1>6 DEF Allocate, AllocateFails, Wrap, Deliver, LoopReturns, DanglingRead,
     CallbackReturns, Return
<1>7. CASE UNCHANGED vars
  BY <1>7 DEF vars
<1> QED
  BY EntryForms, <1>1, <1>2, <1>3, <1>4, <1>5, <1>6, <1>7 DEF Next, NativeStep

(* The steps that neither free, allocate nor store an address keep OwnerInv
   because the pointers they set are addresses just read. *)
LEMMA OwnerInvNext == SafeInv /\ [Next]_vars => OwnerInv'
<1> SUFFICES ASSUME SafeInv, [Next]_vars PROVE OwnerInv'
  OBVIOUS
<1> USE ConstantsAssumption DEF SafeInv, TypeInv, TypeOK, LocalsOK, OwnerInv, Handles,
         HoldsPointer
<1>1. ASSUME NEW t \in Threads, CheckNotNull(t) \/ GetPcapOfNull(t) PROVE OwnerInv'
  BY <1>1 DEF CheckNotNull, GetPcapOfNull
<1>2. ASSUME NEW t \in Threads, EntersExisting(t) PROVE OwnerInv'
  BY <1>2 DEF EntersExisting, Enter
<1>3. ASSUME NEW t \in Threads, EntersOpen(t) PROVE OwnerInv'
  BY <1>3 DEF EntersOpen, EnterOpen
<1>4. ASSUME NEW t \in Threads, GetAddress(t) PROVE OwnerInv'
  BY <1>4 DEF GetAddress, GetterResults
<1>5. ASSUME NEW t \in Threads, GetClosed(t) \/ NullCall(t) PROVE OwnerInv'
  BY <1>5 DEF GetClosed, NullCall, Return
<1>6. ASSUME NEW t \in Threads, DanglingCall(t) \/ DanglingRead(t) PROVE OwnerInv'
  BY <1>6 DEF DanglingCall, DanglingRead
<1>7. ASSUME NEW t \in Threads, UseHandle(t) PROVE OwnerInv'
  BY <1>7 DEF UseHandle, InNative, Return
<1>8. ASSUME NEW t \in Threads, FreeHandle(t) PROVE OwnerInv'
  BY <1>8, SafeInvImplies DEF FreeHandle, InNative, CallsUseOwnStructure, LifeInv
<1>9. ASSUME NEW t \in Threads, ClearAddress(t) PROVE OwnerInv'
  BY <1>9 DEF ClearAddress, Return, ExclusionInv
<1>10. ASSUME NEW t \in Threads, UseForDump(t) PROVE OwnerInv'
  BY <1>10 DEF UseForDump, InNative
<1>11. ASSUME NEW t \in Threads, Allocate(t) PROVE OwnerInv'
  BY <1>11 DEF Allocate, LifeInv
<1>12. ASSUME NEW t \in Threads, AllocateFails(t) PROVE OwnerInv'
  BY <1>12 DEF AllocateFails, Return
<1>13. ASSUME NEW t \in Threads, Wrap(t) PROVE OwnerInv'
  BY <1>13 DEF Wrap, Return, LifeInv
<1>14. ASSUME NEW t \in Threads, StartLoop(t) PROVE OwnerInv'
  BY <1>14 DEF StartLoop, InNative
<1>15. ASSUME NEW t \in Threads, Deliver(t) \/ LoopReturns(t) \/ CallbackReturns(t)
       PROVE  OwnerInv'
  BY <1>15 DEF Deliver, LoopReturns, CallbackReturns, Return
<1>16. CASE UNCHANGED vars
  BY <1>16 DEF vars
<1> QED
  BY EntryForms, <1>1, <1>2, <1>3, <1>4, <1>5, <1>6, <1>7, <1>8, <1>9, <1>10, <1>11,
     <1>12, <1>13, <1>14, <1>15, <1>16 DEF Next, NativeStep

(* Only the two dangling steps corrupt the process, and none is enabled. *)
LEMMA MemorySafeNext == SafeInv /\ [Next]_vars => MemorySafe'
<1> SUFFICES ASSUME SafeInv, [Next]_vars PROVE MemorySafe'
  OBVIOUS
<1> USE DEF MemorySafe
<1>1. CallsUseOwnStructure BY SafeInvImplies
<1>2. MemorySafe BY DEF SafeInv
<1>3. ASSUME NEW t \in Threads, DanglingCall(t) PROVE FALSE
  BY <1>1, <1>3, ConstantsAssumption
     DEF DanglingCall, CallsUseOwnStructure, SafeInv, TypeInv, LocalsOK, HoldsPointer
<1>4. ASSUME NEW t \in Threads, DanglingRead(t) PROVE FALSE
  BY <1>1, <1>4, ConstantsAssumption
     DEF DanglingRead, CallsUseOwnStructure, SafeInv, TypeInv, TypeOK, LocalsOK, Handles
<1>5. ASSUME NEW t \in Threads, NullCall(t) PROVE MemorySafe'
  BY <1>2, <1>5 DEF NullCall
<1>6. ASSUME NEW t \in Threads,
             CheckNotNull(t) \/ GetPcapOfNull(t) \/ EntersExisting(t) \/ EntersOpen(t)
      PROVE  MemorySafe'
  BY <1>2, <1>6 DEF CheckNotNull, GetPcapOfNull, EntersExisting, EntersOpen, Enter,
     EnterOpen
<1>7. ASSUME NEW t \in Threads,
             \/ GetAddress(t) \/ GetClosed(t) \/ UseHandle(t) \/ FreeHandle(t)
             \/ ClearAddress(t) \/ UseForDump(t) \/ Allocate(t) \/ AllocateFails(t)
             \/ Wrap(t) \/ StartLoop(t) \/ Deliver(t) \/ LoopReturns(t)
             \/ CallbackReturns(t)
      PROVE  MemorySafe'
  BY <1>2, <1>7 DEF GetAddress, GetClosed, UseHandle, FreeHandle, ClearAddress, UseForDump,
     Allocate, AllocateFails, Wrap, StartLoop, Deliver, LoopReturns, CallbackReturns
<1>8. CASE UNCHANGED vars
  BY <1>2, <1>8 DEF vars
<1> QED
  BY EntryForms, <1>3, <1>4, <1>5, <1>6, <1>7, <1>8 DEF Next, NativeStep

(* The conjuncts together are inductive. *)
LEMMA SafeInvInvariant == Exclusive => (Spec => []SafeInv)
<1> SUFFICES ASSUME Exclusive PROVE Spec => []SafeInv
  OBVIOUS
<1>1. SafeInv /\ [Next]_vars => SafeInv'
  BY TypeInvNext, LifeInvNext, ExclusionInvNext, OwnerInvNext, MemorySafeNext DEF SafeInv
<1> QED BY SafeInvInit, <1>1, PTL DEF Spec

(* When clients keep each close apart from other calls on the same handle,
   every libpcap call of every thread works on the structure opened for its
   own handle, whatever else runs and however malloc reuses addresses. *)
THEOREM CallsSafe == Exclusive => (Spec => []CallsUseOwnStructure)
<1> SUFFICES ASSUME Exclusive PROVE Spec => []CallsUseOwnStructure
  OBVIOUS
<1> QED BY SafeInvInvariant, SafeInvImplies, PTL

(* Under the same rule, two objects are equal in the sense of Pcap.equals only
   while one of them is about to have its address zeroed: each address that is
   set leads to a block that belongs to one object. *)
THEOREM AliasesAreClosing == Exclusive => (Spec => []AliasOnlyWhileClosing)
<1> SUFFICES ASSUME Exclusive PROVE Spec => []AliasOnlyWhileClosing
  OBVIOUS
<1>1. SafeInv => AliasOnlyWhileClosing
  BY DEF SafeInv, OwnerInv, AliasOnlyWhileClosing
<1> QED BY SafeInvInvariant, <1>1, PTL

-----------------------------------------------------------------------------
(* No leak, for any clients. *)

(* A method that makes an object has no exception pending. *)
ArgInv == \A t \in Threads : op[t] \in {"open", "opendead", "dumpopen"} => exc[t] = "none"

(* The address of an object in a call is the pointer the call read, or has
   been zeroed since; and an object whose address is about to be zeroed owns
   no block any more. *)
PtrInv ==
  \A t \in Threads :
    /\ pc[t] = "native" /\ ptr[t] # NULL => address[hnd[t]] \in {ptr[t], NULL}
    /\ pc[t] = "clear" => \A a \in Addrs : heap[a] # hnd[t]

(* Objects not handed out yet have no address. *)
UnbornInv == \A h \in Handles : life[h] = "unborn" => address[h] = NULL

LeakInv == TypeInv /\ LifeInv /\ ArgInv /\ PtrInv /\ UnbornInv /\ NoLeak

(* With nothing allocated nothing is leaked. *)
LEMMA LeakInvInit == Init => LeakInv
<1> SUFFICES ASSUME Init PROVE LeakInv
  OBVIOUS
<1>1. TypeInv BY TypeInvInit
<1>2. LifeInv /\ ArgInv /\ PtrInv /\ UnbornInv /\ NoLeak
  BY ConstantsAssumption DEF Init, LifeInv, ArgInv, PtrInv, UnbornInv, NoLeak
<1> QED BY <1>1, <1>2 DEF LeakInv

(* Legal arguments leave no exception pending in a method that opens. *)
LEMMA ArgInvNext == ~IllegalArgs /\ LeakInv /\ [Next]_vars => ArgInv'
<1> SUFFICES ASSUME ~IllegalArgs, LeakInv, [Next]_vars PROVE ArgInv'
  OBVIOUS
<1> USE DEF LeakInv, TypeInv, TypeOK, LocalsOK, ArgInv
<1>1. ASSUME NEW t \in Threads, CheckNotNull(t) \/ GetPcapOfNull(t) PROVE ArgInv'
  BY <1>1 DEF CheckNotNull, GetPcapOfNull
<1>2. ASSUME NEW t \in Threads, EntersExisting(t) PROVE ArgInv'
  BY <1>2 DEF EntersExisting, Enter, CheckArgument
<1>3. ASSUME NEW t \in Threads, EntersOpen(t) PROVE ArgInv'
  BY <1>3 DEF EntersOpen, EnterOpen, CheckArgument, ArgsLegal
<1>4. ASSUME NEW t \in Threads,
             \/ GetAddress(t) \/ GetClosed(t) \/ NullCall(t) \/ DanglingCall(t)
             \/ UseHandle(t) \/ FreeHandle(t) \/ ClearAddress(t) \/ UseForDump(t)
      PROVE  ArgInv'
  BY <1>4 DEF GetAddress, GetClosed, NullCall, DanglingCall, UseHandle, FreeHandle,
     ClearAddress, UseForDump, Return
<1>5. ASSUME NEW t \in Threads,
             \/ Allocate(t) \/ AllocateFails(t) \/ Wrap(t) \/ StartLoop(t) \/ Deliver(t)
             \/ LoopReturns(t) \/ DanglingRead(t) \/ CallbackReturns(t)
      PROVE  ArgInv'
  BY <1>5 DEF Allocate, AllocateFails, Wrap, StartLoop, Deliver, LoopReturns,
     DanglingRead, CallbackReturns, Return
<1>6. CASE UNCHANGED vars
  BY <1>6 DEF vars
<1> QED
  BY EntryForms, <1>1, <1>2, <1>3, <1>4, <1>5, <1>6 DEF Next, NativeStep

(* Addresses change only from zero, when an object is wrapped, and to zero. *)
LEMMA PtrInvNext == LeakInv /\ [Next]_vars => PtrInv' /\ UnbornInv'
<1> SUFFICES ASSUME LeakInv, [Next]_vars PROVE PtrInv' /\ UnbornInv'
  OBVIOUS
<1> USE ConstantsAssumption
    DEF LeakInv, TypeInv, TypeOK, LocalsOK, PtrInv, UnbornInv, Handles
<1>1. ASSUME NEW t \in Threads, CheckNotNull(t) \/ GetPcapOfNull(t) PROVE PtrInv' /\ UnbornInv'
  BY <1>1 DEF CheckNotNull, GetPcapOfNull
<1>2. ASSUME NEW t \in Threads, EntersExisting(t) PROVE PtrInv' /\ UnbornInv'
  BY <1>2 DEF EntersExisting, Enter
<1>3. ASSUME NEW t \in Threads, EntersOpen(t) PROVE PtrInv' /\ UnbornInv'
  BY <1>3 DEF EntersOpen, EnterOpen
<1>4. ASSUME NEW t \in Threads, GetAddress(t) PROVE PtrInv' /\ UnbornInv'
  BY <1>4 DEF GetAddress, GetterResults
<1>5. ASSUME NEW t \in Threads,
             \/ GetClosed(t) \/ NullCall(t) \/ DanglingCall(t)
             \/ UseHandle(t) \/ UseForDump(t)
      PROVE  PtrInv' /\ UnbornInv'
  BY <1>5 DEF GetClosed, NullCall, DanglingCall, UseHandle, UseForDump, Return
<1>6. ASSUME NEW t \in Threads, FreeHandle(t) PROVE PtrInv' /\ UnbornInv'
  BY <1>6 DEF FreeHandle, InNative, NoLeak, LifeInv
<1>7. ASSUME NEW t \in Threads, ClearAddress(t) PROVE PtrInv' /\ UnbornInv'
  BY <1>7 DEF ClearAddress, Return
<1>8. ASSUME NEW t \in Threads, Allocate(t) PROVE PtrInv' /\ UnbornInv'
  BY <1>8 DEF Allocate, LifeInv
<1>9. ASSUME NEW t \in Threads, AllocateFails(t) PROVE PtrInv' /\ UnbornInv'
  BY <1>9 DEF AllocateFails, Return
<1>10. ASSUME NEW t \in Threads, Wrap(t) PROVE PtrInv' /\ UnbornInv'
  BY <1>10 DEF Wrap, Return, LifeInv
<1>11. ASSUME NEW t \in Threads,
              \/ StartLoop(t) \/ Deliver(t) \/ LoopReturns(t) \/ DanglingRead(t)
              \/ CallbackReturns(t)
       PROVE  PtrInv' /\ UnbornInv'
  BY <1>11 DEF StartLoop, Deliver, LoopReturns, DanglingRead, CallbackReturns, Return
<1>12. CASE UNCHANGED vars
  BY <1>12 DEF vars
<1> QED
  BY EntryForms, <1>1, <1>2, <1>3, <1>4, <1>5, <1>6, <1>7, <1>8, <1>9, <1>10, <1>11,
     <1>12 DEF Next, NativeStep

(* A block stays with its maker until the object has its address, and with
   the object until it is freed. *)
LEMMA NoLeakNext == LeakInv /\ [Next]_vars => NoLeak'
<1> SUFFICES ASSUME LeakInv, [Next]_vars PROVE NoLeak'
  OBVIOUS
<1> USE ConstantsAssumption DEF LeakInv, TypeInv, TypeOK, LocalsOK, NoLeak, Handles
<1>1. ASSUME NEW t \in Threads, CheckNotNull(t) \/ GetPcapOfNull(t) PROVE NoLeak'
  BY <1>1 DEF CheckNotNull, GetPcapOfNull
<1>2. ASSUME NEW t \in Threads, EntersExisting(t) PROVE NoLeak'
  BY <1>2 DEF EntersExisting, Enter
<1>3. ASSUME NEW t \in Threads, EntersOpen(t) PROVE NoLeak'
  BY <1>3 DEF EntersOpen, EnterOpen
<1>4. ASSUME NEW t \in Threads,
             \/ GetAddress(t) \/ GetClosed(t) \/ NullCall(t) \/ DanglingCall(t)
             \/ UseHandle(t) \/ UseForDump(t)
      PROVE  NoLeak'
  BY <1>4 DEF GetAddress, GetClosed, NullCall, DanglingCall, UseHandle, UseForDump,
     InNative, Return
<1>5. ASSUME NEW t \in Threads, FreeHandle(t) PROVE NoLeak'
  BY <1>5 DEF FreeHandle, InNative
<1>6. ASSUME NEW t \in Threads, ClearAddress(t) PROVE NoLeak'
  BY <1>6 DEF ClearAddress, Return, PtrInv
<1>7. ASSUME NEW t \in Threads, Allocate(t) PROVE NoLeak'
  BY <1>7 DEF Allocate
<1>8. ASSUME NEW t \in Threads, AllocateFails(t) PROVE NoLeak'
  BY <1>8 DEF AllocateFails, Return
<1>9. ASSUME NEW t \in Threads, Wrap(t) PROVE NoLeak'
  BY <1>9 DEF Wrap, Return, LifeInv, ArgInv
<1>10. ASSUME NEW t \in Threads,
              \/ StartLoop(t) \/ Deliver(t) \/ LoopReturns(t) \/ DanglingRead(t)
              \/ CallbackReturns(t)
       PROVE  NoLeak'
  BY <1>10 DEF StartLoop, InNative, Deliver, LoopReturns, DanglingRead, CallbackReturns,
     Return
<1>11. CASE UNCHANGED vars
  BY <1>11 DEF vars
<1> QED
  BY EntryForms, <1>1, <1>2, <1>3, <1>4, <1>5, <1>6, <1>7, <1>8, <1>9, <1>10, <1>11
     DEF Next, NativeStep

(* With arguments CheckArgument accepts, no interleaving of any clients, not
   even one that closes a handle under other calls, makes libpcap lose a
   structure: until it is freed, an object that Java code holds, or is about
   to be given, leads to it. *)
THEOREM NothingLeaks == ~IllegalArgs => (Spec => []NoLeak)
<1> SUFFICES ASSUME ~IllegalArgs PROVE Spec => []NoLeak
  OBVIOUS
<1>1. LeakInv /\ [Next]_vars => LeakInv'
  BY TypeInvNext, LifeInvNext, ArgInvNext, PtrInvNext, NoLeakNext DEF LeakInv
<1>2. LeakInv => NoLeak BY DEF LeakInv
<1> QED BY LeakInvInit, <1>1, <1>2, PTL DEF Spec

-----------------------------------------------------------------------------
(* The refinement of HandleLifecycle. *)

(* What is known of a method that makes an object, or starts a loop. *)
MakerInv ==
  \A t \in Threads :
    /\ op[t] \in {"open", "opendead"} => hnd[t] = None
    /\ pc[t] \in {"alloc", "wrap"} => op[t] \in {"open", "opendead", "dumpopen"}
    /\ pc[t] = "wrap" /\ ptr[t] = NULL => op[t] = "opendead"
    /\ op[t] = "loop" => loop[t] = None

(* A block belongs to an object that has its address, whether Java code can
   still reach it or not, or to the method that is about to make the object. *)
BlockInv ==
  \A a \in Addrs :
    heap[a] # None =>
      \/ life[heap[a]] # "unborn" /\ address[heap[a]] = a
      \/ \E t \in Threads : pc[t] = "wrap" /\ new[t] = heap[a] /\ ptr[t] = a

(* An object whose address is about to be zeroed owns no block. *)
FreedInv == \A t \in Threads : pc[t] = "clear" => \A a \in Addrs : heap[a] # hnd[t]

FollowInv == SafeInv /\ MakerInv /\ BlockInv /\ FreedInv

(* An object owns one block at most. *)
LEMMA OneBlock ==
  ASSUME TypeInv, LifeInv, BlockInv, NEW a \in Addrs, NEW b \in Addrs,
         heap[a] # None, heap[a] = heap[b]
  PROVE  a = b
BY ConstantsAssumption DEF TypeInv, TypeOK, LifeInv, BlockInv

(* The steps that the invariant speaks of. *)
LEMMA FollowInvNext == Exclusive /\ FollowInv /\ [Next]_vars => FollowInv'
<1> SUFFICES ASSUME Exclusive, FollowInv, [Next]_vars PROVE FollowInv'
  OBVIOUS
<1>1. SafeInv'
  BY TypeInvNext, LifeInvNext, ExclusionInvNext, OwnerInvNext, MemorySafeNext
     DEF FollowInv, SafeInv
<1>2. MakerInv /\ BlockInv /\ FreedInv /\ TypeInv /\ LifeInv /\ SafeInv
  BY DEF FollowInv, SafeInv
<1>3. CallsUseOwnStructure BY <1>2, SafeInvImplies
<1> DEFINE Kept == MakerInv' /\ BlockInv' /\ FreedInv'
<1> USE <1>2, ConstantsAssumption
    DEF TypeInv, TypeOK, LocalsOK, MakerInv, BlockInv, FreedInv, Handles
<1>4. ASSUME NEW t \in Threads, CheckNotNull(t) \/ GetPcapOfNull(t) PROVE Kept
  BY <1>4 DEF CheckNotNull, GetPcapOfNull
<1>5. ASSUME NEW t \in Threads, EntersExisting(t) PROVE Kept
  BY <1>5 DEF EntersExisting, Enter
<1>6. ASSUME NEW t \in Threads, EntersOpen(t) PROVE Kept
  BY <1>6 DEF EntersOpen, EnterOpen
<1>7. ASSUME NEW t \in Threads, GetAddress(t) PROVE Kept
  BY <1>7 DEF GetAddress, GetterResults
<1>8. ASSUME NEW t \in Threads,
             GetClosed(t) \/ NullCall(t) \/ UseHandle(t) \/ UseForDump(t)
      PROVE  Kept
  BY <1>8 DEF GetClosed, NullCall, UseHandle, UseForDump, InNative, Return
<1>9. ASSUME NEW t \in Threads, FreeHandle(t) PROVE Kept
  <2>1. heap[ptr[t]] = hnd[t] /\ ptr[t] \in Addrs
    BY <1>3, <1>9 DEF FreeHandle, InNative, CallsUseOwnStructure, HoldsPointer
  <2>2. \A a \in Addrs : heap'[a] # hnd[t]
    BY <1>9, <2>1, OneBlock DEF FreeHandle, InNative
  <2> QED BY <1>9, <2>1, <2>2 DEF FreeHandle, InNative
<1>10. ASSUME NEW t \in Threads, ClearAddress(t) PROVE Kept
  BY <1>10 DEF ClearAddress, Return
<1>11. ASSUME NEW t \in Threads, Allocate(t) PROVE Kept
  BY <1>11 DEF Allocate, LifeInv
<1>12. ASSUME NEW t \in Threads, AllocateFails(t) PROVE Kept
  BY <1>12 DEF AllocateFails, Return
<1>13. ASSUME NEW t \in Threads, Wrap(t) PROVE Kept
  BY <1>13 DEF Wrap, Return, LifeInv
<1>14. ASSUME NEW t \in Threads, StartLoop(t) PROVE Kept
  BY <1>14 DEF StartLoop, InNative
<1>15. ASSUME NEW t \in Threads, Deliver(t) \/ LoopReturns(t) \/ CallbackReturns(t)
       PROVE  Kept
  BY <1>15 DEF Deliver, LoopReturns, CallbackReturns, Return
<1>16. ASSUME NEW t \in Threads, DanglingCall(t) \/ DanglingRead(t) PROVE Kept
  BY <1>16 DEF DanglingCall, DanglingRead
<1>17. ASSUME UNCHANGED vars PROVE Kept BY <1>17 DEF vars, HoldsPointer
<1> HIDE <1>2 DEF Kept, TypeInv, TypeOK, LocalsOK, MakerInv, BlockInv, FreedInv, Handles
<1>18. Kept
  BY EntryForms, <1>4, <1>5, <1>6, <1>7, <1>8, <1>9, <1>10, <1>11, <1>12, <1>13, <1>14,
     <1>15, <1>16, <1>17 DEF Next, NativeStep
<1> QED BY <1>1, <1>18 DEF FollowInv, Kept

(* Whether t is inside libpcap with h, and whether h has a structure. *)
IsInside(t, h) == ((HoldsPointer(t) \/ pc[t] = "wrap") /\ hnd[t] = h) \/ loop[t] = h
HasBlock(h) == \E a \in Addrs : heap[a] = h

(* What a step of t does to who is inside ... *)
Stays(t) == \A u \in Threads, h \in Handles : IsInside(u, h)' = IsInside(u, h)
Moves(t, g, b) ==
  \A u \in Threads, h \in Handles :
    IsInside(u, h)' = IF u = t /\ h = g THEN b ELSE IsInside(u, h)

(* ... and to the structures. *)
Keeps(h) == HasBlock(h)' = HasBlock(h) /\ (life'[h] = "unborn") = (life[h] = "unborn")

(* Steps on the two sides: the threads inside ... *)
LEMMA InsideSteps ==
  ASSUME NEW t \in Threads, NEW g \in Handles
  PROVE  /\ Stays(t) => Inside' = Inside
         /\ Moves(t, g, TRUE) => Inside' = [Inside EXCEPT ![g] = @ \cup {t}]
         /\ Moves(t, g, FALSE) => Inside' = [Inside EXCEPT ![g] = @ \ {t}]
<1>1. Inside = [h \in Handles |-> {u \in Threads : IsInside(u, h)}]
  BY DEF Inside, IsInside
<1>2. Inside' = [h \in Handles |-> {u \in Threads : IsInside(u, h)'}]
  BY DEF Inside, IsInside
<1>3. Stays(t) => Inside' = Inside BY <1>1, <1>2 DEF Stays
<1>4. ASSUME Moves(t, g, TRUE) PROVE Inside' = [Inside EXCEPT ![g] = @ \cup {t}]
  <2>1. \A h \in Handles \ {g} : Inside'[h] = Inside[h] BY <1>1, <1>2, <1>4 DEF Moves
  <2>2. Inside'[g] = Inside[g] \cup {t} BY <1>1, <1>2, <1>4 DEF Moves
  <2> QED BY <1>1, <1>2, <2>1, <2>2
<1>5. ASSUME Moves(t, g, FALSE) PROVE Inside' = [Inside EXCEPT ![g] = @ \ {t}]
  <2>1. \A h \in Handles \ {g} : Inside'[h] = Inside[h] BY <1>1, <1>2, <1>5 DEF Moves
  <2>2. Inside'[g] = Inside[g] \ {t} BY <1>1, <1>2, <1>5 DEF Moves
  <2> QED BY <1>1, <1>2, <2>1, <2>2
<1> QED BY <1>3, <1>4, <1>5

(* ... and the status of a handle. *)
LEMMA StatusSteps ==
  ASSUME NEW g \in Handles, \A h \in Handles \ {g} : Keeps(h)
  PROVE  /\ Keeps(g) => Status' = Status
         /\ HasBlock(g)' => Status' = [Status EXCEPT ![g] = "open"]
         /\ ~HasBlock(g)' /\ life'[g] # "unborn" => Status' = [Status EXCEPT ![g] = "closed"]
<1>1. Status = [h \in Handles |-> IF HasBlock(h) THEN "open"
                                  ELSE IF life[h] = "unborn" THEN "none" ELSE "closed"]
  BY DEF Status, HasBlock
<1>2. Status' = [h \in Handles |-> IF HasBlock(h)' THEN "open"
                                   ELSE IF life'[h] = "unborn" THEN "none" ELSE "closed"]
  BY DEF Status, HasBlock
<1>3. \A h \in Handles : Keeps(h) => Status'[h] = Status[h] BY <1>1, <1>2 DEF Keeps
<1>4. /\ HasBlock(g)' => Status'[g] = "open"
      /\ ~HasBlock(g)' /\ life'[g] # "unborn" => Status'[g] = "closed"
  BY <1>2
<1>5. DOMAIN Status = Handles /\ DOMAIN Status' = Handles BY <1>1, <1>2
<1>6. Status = [h \in Handles |-> Status[h]] /\ Status' = [h \in Handles |-> Status'[h]]
  BY <1>1, <1>2
<1> HIDE DEF Keeps
<1> QED BY <1>3, <1>4, <1>6

(* A step inside libpcap that frees and allocates nothing. *)
LEMMA StatusKept ==
  ASSUME heap' = heap, life' = life
  PROVE  Status' = Status
BY DEF Status

(* Most steps neither go in or out, nor make or free a structure. *)
LEMMA StillSteps ==
  ASSUME FollowInv, NEW t \in Threads,
         \/ CheckNotNull(t) \/ GetPcapOfNull(t) \/ EntersExisting(t) \/ EntersOpen(t)
         \/ GetClosed(t) \/ NullCall(t) \/ UseForDump(t) \/ StartLoop(t) \/ Deliver(t)
         \/ CallbackReturns(t) \/ DanglingCall(t) \/ DanglingRead(t) \/ ClearAddress(t)
  PROVE  Stays(t) /\ heap' = heap /\ life' = life
<1> USE ConstantsAssumption
    DEF FollowInv, SafeInv, TypeInv, TypeOK, LocalsOK, MakerInv, Handles, Stays, IsInside,
        HoldsPointer
<1>1. CASE CheckNotNull(t) \/ GetPcapOfNull(t) BY <1>1 DEF CheckNotNull, GetPcapOfNull
<1>2. CASE EntersExisting(t) BY <1>2 DEF EntersExisting, Enter
<1>3. CASE EntersOpen(t) BY <1>3 DEF EntersOpen, EnterOpen
<1>4. CASE GetClosed(t) BY <1>4 DEF GetClosed, Return
<1>5. CASE NullCall(t) BY <1>5 DEF NullCall, Return
<1>6. CASE UseForDump(t) BY <1>6 DEF UseForDump, InNative
<1>7. CASE StartLoop(t) BY <1>7 DEF StartLoop, InNative
<1>8. CASE Deliver(t) \/ CallbackReturns(t) BY <1>8 DEF Deliver, CallbackReturns
<1>9. CASE DanglingCall(t) \/ DanglingRead(t) BY <1>9 DEF DanglingCall, DanglingRead
<1>10. CASE ClearAddress(t) BY <1>10 DEF ClearAddress, Return
<1> QED BY <1>1, <1>2, <1>3, <1>4, <1>5, <1>6, <1>7, <1>8, <1>9, <1>10

(* The read of the address goes inside, unless the thread is in the callback
   of a loop on the same handle. *)
LEMMA EnteringStep ==
  ASSUME Exclusive, FollowInv, NEW t \in Threads, GetAddress(t)
  PROVE  \/ Stays(t) /\ heap' = heap /\ life' = life
         \/ \E h \in Handles : Lifecycle!Enter(t, h)
<1> DEFINE h == hnd[t]
<1>2. h \in Handles /\ TypeOK
  BY DEF GetAddress, FollowInv, SafeInv, TypeInv, LocalsOK
<1>3. /\ ptr' = [ptr EXCEPT ![t] = address[h]] /\ address[h] # NULL
      /\ pc' = [pc EXCEPT ![t] = "native"] /\ pc[t] = "get"
      /\ hnd' = hnd /\ loop' = loop /\ heap' = heap /\ life' = life /\ op' = op
  BY DEF GetAddress, GetterResults
<1>4. CASE loop[t] = h
  <2>1. Stays(t)
    BY <1>2, <1>3, <1>4 DEF Stays, IsInside, HoldsPointer, TypeOK
  <2> QED BY <1>3, <2>1
<1>5. CASE loop[t] # h
  <2>1. ~IsInside(t, h) BY <1>3, <1>5 DEF IsInside, HoldsPointer
  <2>2. Moves(t, h, TRUE)
    BY <1>2, <1>3, <1>5 DEF Moves, IsInside, HoldsPointer, TypeOK
  <2>3. HasBlock(h)
    <3>1. \A u \in Threads : ~(pc[u] = "clear" /\ hnd[u] = h)
      BY <1>3 DEF FollowInv, SafeInv, TypeInv, LocalsOK, ExclusionInv
    <3>2. heap[address[h]] = h BY <1>2, <1>3, <3>1 DEF FollowInv, SafeInv, OwnerInv
    <3> QED BY <1>2, <1>3, <3>2 DEF HasBlock, TypeOK
  <2>4. Status[h] = "open" BY <1>2, <2>3 DEF Status, HasBlock
  <2>5. t \notin Inside[h] BY <1>2, <2>1 DEF Inside, IsInside
  <2>6. Inside' = [Inside EXCEPT ![h] = @ \cup {t}] BY <1>2, <2>2, InsideSteps
  <2>7. Status' = Status BY <1>3, StatusKept
  <2> QED BY <1>2, <2>4, <2>5, <2>6, <2>7 DEF Lifecycle!Enter
<1> QED BY <1>4, <1>5

(* A native method that was inside with its pointer returns. *)
LEMMA Returning ==
  ASSUME TypeOK, NEW t \in Threads, hnd[t] \in Handles, HoldsPointer(t) \/ pc[t] = "wrap",
         Return(t), loop' = loop
  PROVE  Stays(t) \/ \E h \in Handles : IsInside(t, h) /\ Moves(t, h, FALSE)
<1>1. IsInside(t, hnd[t]) BY DEF IsInside
<1>2. CASE loop[t] = hnd[t]
  BY <1>2 DEF TypeOK, Stays, IsInside, HoldsPointer, Return
<1>3. CASE loop[t] # hnd[t]
  <2>1. Moves(t, hnd[t], FALSE)
    BY <1>3 DEF TypeOK, Moves, IsInside, HoldsPointer, Return
  <2> QED BY <1>1, <2>1
<1> QED BY <1>2, <1>3

(* A call that returns leaves. *)
LEMMA LeavingStep ==
  ASSUME FollowInv, NEW t \in Threads, UseHandle(t) \/ LoopReturns(t) \/ AllocateFails(t)
  PROVE  \/ Stays(t) /\ heap' = heap /\ life' = life
         \/ \E h \in Handles : Lifecycle!Leave(t, h)
<1>1. TypeOK /\ LocalsOK /\ MakerInv BY DEF FollowInv, SafeInv, TypeInv
<1>2. heap' = heap /\ life' = life BY DEF UseHandle, LoopReturns, AllocateFails
<1>3. Stays(t) \/ \E h \in Handles : IsInside(t, h) /\ Moves(t, h, FALSE)
  <2>1. CASE UseHandle(t)
    <3>1. hnd[t] \in Handles /\ HoldsPointer(t) /\ Return(t) /\ loop' = loop
      BY <1>1, <2>1 DEF UseHandle, InNative, LocalsOK, HoldsPointer
    <3> QED BY <1>1, <3>1, Returning
  <2>2. CASE LoopReturns(t)
    <3>1. /\ loop[t] \in Handles /\ hnd[t] = None /\ pc[t] = "reading"
          /\ Return(t) /\ loop' = [loop EXCEPT ![t] = None]
      BY <1>1, <2>2 DEF LoopReturns, LocalsOK, TypeOK, Handles
    <3>2. IsInside(t, loop[t]) BY <3>1 DEF IsInside
    <3>3. Moves(t, loop[t], FALSE)
      BY <1>1, <3>1, ConstantsAssumption DEF TypeOK, Moves, IsInside, HoldsPointer, Return
    <3> QED BY <3>1, <3>2, <3>3
  <2>3. CASE AllocateFails(t) /\ op[t] = "dumpopen"
    <3>1. hnd[t] \in Handles /\ HoldsPointer(t) /\ Return(t) /\ loop' = loop
      BY <1>1, <2>3 DEF AllocateFails, LocalsOK, HoldsPointer
    <3> QED BY <1>1, <3>1, Returning
  <2>4. CASE AllocateFails(t) /\ op[t] # "dumpopen"
    <3>1. /\ pc[t] = "alloc" /\ hnd[t] = None /\ loop' = loop /\ hnd' = hnd
          /\ \A u \in Threads \ {t} : pc'[u] = pc[u] /\ ptr'[u] = ptr[u] /\ op'[u] = op[u]
      BY <1>1, <2>4 DEF AllocateFails, Return, MakerInv, TypeOK
    <3> QED
      BY <1>1, <3>1, ConstantsAssumption DEF TypeOK, Stays, IsInside, HoldsPointer
  <2> QED BY <2>1, <2>2, <2>3, <2>4
<1>4. ASSUME NEW h \in Handles, IsInside(t, h), Moves(t, h, FALSE) PROVE Lifecycle!Leave(t, h)
  <2>1. t \in Inside[h] BY <1>4 DEF Inside, IsInside
  <2>2. Inside' = [Inside EXCEPT ![h] = @ \ {t}] BY <1>4, InsideSteps
  <2> QED BY <1>2, <2>1, <2>2, StatusKept DEF Lifecycle!Leave
<1> QED BY <1>2, <1>3, <1>4

(* pcap_close frees the one block of its handle, and is alone inside. *)
LEMMA ClosingStep ==
  ASSUME Exclusive, FollowInv, NEW t \in Threads, FreeHandle(t)
  PROVE  \E h \in Handles : Lifecycle!Close(t, h)
<1> DEFINE h == hnd[t]
<1>1. TypeOK /\ LocalsOK /\ LifeInv /\ BlockInv /\ TypeInv
  BY DEF FollowInv, SafeInv, TypeInv
<1>2. /\ h \in Handles /\ HoldsPointer(t) /\ ptr[t] \in Addrs
      /\ heap' = [heap EXCEPT ![ptr[t]] = None] /\ pc' = [pc EXCEPT ![t] = "clear"]
      /\ UNCHANGED <<life, hnd, loop, op, ptr>> /\ op[t] \in {"close", "rawclose"}
  BY <1>1 DEF FreeHandle, InNative, LocalsOK, TypeOK, HoldsPointer
<1>3. heap[ptr[t]] = h
  BY <1>2, SafeInvImplies DEF FollowInv, CallsUseOwnStructure
<1>4. h # None BY <1>2, ConstantsAssumption
<1>5. life[h] # "unborn" BY <1>1, <1>2, <1>4 DEF LifeInv
<1>6. \A u \in Threads : IsInside(u, h) <=> u = t
  BY <1>2 DEF FollowInv, SafeInv, ExclusionInv, IsInside
<1>7. \A g \in Handles \ {h} : Keeps(g)
  BY <1>1, <1>2, <1>3, ConstantsAssumption DEF Keeps, HasBlock, TypeOK
<1>8. ~HasBlock(h)'
  BY <1>1, <1>2, <1>3, <1>4, OneBlock, ConstantsAssumption DEF HasBlock, TypeOK
<1>9. Status' = [Status EXCEPT ![h] = "closed"]
  BY <1>2, <1>5, <1>7, <1>8, StatusSteps
<1>10. Status[h] = "open" BY <1>2, <1>3 DEF Status
<1>11. Inside[h] = {t} BY <1>2, <1>6 DEF Inside, IsInside
<1>12. ~IsInside(t, h)'
  BY <1>1, <1>2 DEF IsInside, HoldsPointer, TypeOK, FollowInv, SafeInv, ExclusionInv
<1>13. Moves(t, h, FALSE)
  BY <1>1, <1>2, <1>12 DEF Moves, IsInside, HoldsPointer, TypeOK
<1>14. Inside' = [Inside EXCEPT ![h] = {}]
  <2>1. Inside' = [Inside EXCEPT ![h] = Inside[h] \ {t}] BY <1>2, <1>13, InsideSteps
  <2> QED BY <1>11, <2>1
<1> QED BY <1>2, <1>9, <1>10, <1>11, <1>14 DEF Lifecycle!Close

(* An allocation opens the object that the method is about to make. *)
LEMMA OpeningStep ==
  ASSUME FollowInv, NEW t \in Threads, Allocate(t)
  PROVE  \E h \in Handles : Lifecycle!Open(h)
<1>0. TypeOK /\ LocalsOK /\ LifeInv /\ BlockInv /\ MakerInv
  BY DEF FollowInv, SafeInv, TypeInv
<1>1. PICK n \in Handles : n = new[t] BY <1>0 DEF Allocate, LocalsOK
<1>2. PICK a \in Addrs : /\ heap[a] = None /\ heap' = [heap EXCEPT ![a] = n]
                          /\ ptr' = [ptr EXCEPT ![t] = a]
  BY <1>1 DEF Allocate
<1>3. /\ new[t] = n /\ n # None /\ pc[t] = "alloc" /\ pc' = [pc EXCEPT ![t] = "wrap"]
      /\ UNCHANGED <<life, hnd, loop, op>>
  BY <1>1, ConstantsAssumption DEF Allocate
<1>4. life[n] = "unborn" BY <1>0, <1>3 DEF LifeInv
<1>5. ~HasBlock(n)
  BY <1>0, <1>3, <1>4 DEF HasBlock, BlockInv, LifeInv
<1>6. HasBlock(n)' BY <1>0, <1>2 DEF HasBlock, TypeOK
<1>7. \A g \in Handles \ {n} : Keeps(g)
  BY <1>0, <1>2, <1>3, ConstantsAssumption DEF Keeps, HasBlock, TypeOK
<1>8. Status' = [Status EXCEPT ![n] = "open"] BY <1>3, <1>6, <1>7, StatusSteps
<1>9. Status[n] = "none" BY <1>3, <1>4, <1>5 DEF Status, HasBlock
<1>10. Stays(t)
  BY <1>0, <1>2, <1>3, ConstantsAssumption
     DEF Stays, IsInside, HoldsPointer, TypeOK, MakerInv
<1>11. Inside' = Inside BY <1>3, <1>10, InsideSteps
<1> QED BY <1>3, <1>8, <1>9, <1>11 DEF Lifecycle!Open

(* When the object is made, PcapDumpOpen is done with the Pcap; an object of
   PcapOpenDead without a structure is closed from the start. *)
LEMMA WrappingStep ==
  ASSUME FollowInv, NEW t \in Threads, Wrap(t)
  PROVE  \/ Stays(t) /\ Status' = Status
         \/ \E h \in Handles : Lifecycle!Leave(t, h) \/ Lifecycle!OpenClosed(h)
<1>0. TypeOK /\ LocalsOK /\ LifeInv /\ BlockInv /\ MakerInv /\ OwnerInv
  BY DEF FollowInv, SafeInv, TypeInv
<1>1. PICK n \in Handles : n = new[t] BY <1>0 DEF Wrap, LocalsOK
<1>2. /\ new[t] = n /\ n # None /\ pc[t] = "wrap" /\ Return(t)
      /\ heap' = heap /\ loop' = loop
      /\ life' \in {[life EXCEPT ![n] = "live"], [life EXCEPT ![n] = "lost"]}
  BY <1>1, ConstantsAssumption DEF Wrap
<1>3. life[n] = "unborn" /\ life'[n] # "unborn" BY <1>0, <1>2 DEF LifeInv, TypeOK
<1>4. \A g \in Handles \ {n} : Keeps(g) BY <1>0, <1>2 DEF Keeps, HasBlock, TypeOK
<1>5. hnd[t] = None => Stays(t)
  BY <1>0, <1>2, ConstantsAssumption DEF Stays, IsInside, HoldsPointer, TypeOK, Return
<1>6. CASE ptr[t] # NULL
  <2>1. HasBlock(n) /\ HasBlock(n)'
    BY <1>0, <1>2, <1>6 DEF HasBlock, OwnerInv, TypeOK
  <2>2. Status' = Status
    <3>1. Status' = [Status EXCEPT ![n] = "open"] BY <1>2, <1>4, <2>1, StatusSteps
    <3>2. Status[n] = "open" BY <1>2, <2>1 DEF Status, HasBlock
    <3>3. Status = [h \in Handles |-> Status[h]] BY DEF Status
    <3> QED BY <3>1, <3>2, <3>3
  <2>3. Stays(t) \/ \E h \in Handles : IsInside(t, h) /\ Moves(t, h, FALSE)
    BY <1>0, <1>2, <1>5, Returning DEF TypeOK
  <2>4. ASSUME NEW h \in Handles, IsInside(t, h), Moves(t, h, FALSE) PROVE Lifecycle!Leave(t, h)
    <3>1. t \in Inside[h] BY <2>4 DEF Inside, IsInside
    <3>2. Inside' = [Inside EXCEPT ![h] = @ \ {t}] BY <2>4, InsideSteps
    <3> QED BY <2>2, <3>1, <3>2 DEF Lifecycle!Leave
  <2> QED BY <2>2, <2>3, <2>4
<1>7. CASE ptr[t] = NULL
  <2>1. Stays(t) BY <1>0, <1>2, <1>5, <1>7 DEF MakerInv
  <2>2. ~HasBlock(n) /\ ~HasBlock(n)'
    BY <1>0, <1>2, <1>3, <1>7, ConstantsAssumption DEF HasBlock, BlockInv, LifeInv
  <2>3. Status' = [Status EXCEPT ![n] = "closed"]
    BY <1>2, <1>3, <1>4, <2>2, StatusSteps
  <2>4. Status[n] = "none" BY <1>2, <1>3, <2>2 DEF Status, HasBlock
  <2>5. Inside' = Inside BY <1>2, <2>1, InsideSteps
  <2> QED BY <1>2, <2>3, <2>4, <2>5 DEF Lifecycle!OpenClosed
<1> QED BY <1>6, <1>7

(* Every step of the bridge is a step of the abstract specification or leaves
   it as it is. *)
LEMMA StepFollows ==
  Exclusive /\ FollowInv /\ [Next]_vars => [Lifecycle!Next]_<<Status, Inside>>
<1> SUFFICES ASSUME Exclusive, FollowInv, [Next]_vars
             PROVE  [Lifecycle!Next]_<<Status, Inside>>
  OBVIOUS
<1>1. ASSUME NEW t \in Threads, Stays(t), heap' = heap, life' = life
      PROVE  UNCHANGED <<Status, Inside>>
  <2>1. Status' = Status BY <1>1, StatusKept
  <2>2. Inside' = Inside BY <1>1 DEF Stays, Inside, IsInside
  <2> QED BY <2>1, <2>2
<1>2. ASSUME NEW t \in Threads,
             \E h \in Handles :
               \/ Lifecycle!Open(h) \/ Lifecycle!OpenClosed(h) \/ Lifecycle!Enter(t, h)
               \/ Lifecycle!Leave(t, h) \/ Lifecycle!Close(t, h)
      PROVE  Lifecycle!Next
  BY <1>2 DEF Lifecycle!Next
<1>3. ASSUME NEW t \in Threads, Wrap(t) PROVE [Lifecycle!Next]_<<Status, Inside>>
  <2>1. Stays(t) => Inside' = Inside BY DEF Stays, Inside, IsInside
  <2> QED BY <1>2, <1>3, <2>1, WrappingStep
<1>4. ASSUME NEW t \in Threads, ClientCall(t) \/ NativeStep(t)
      PROVE  [Lifecycle!Next]_<<Status, Inside>>
  BY <1>1, <1>2, <1>3, <1>4, EntryForms, StillSteps, EnteringStep, LeavingStep, ClosingStep,
     OpeningStep DEF NativeStep
<1>5. CASE UNCHANGED vars
  BY <1>5 DEF vars, Status, Inside, HoldsPointer
<1> QED BY <1>4, <1>5 DEF Next

(* Seen from libpcap, exclusive clients follow the life cycle, whatever the
   addresses and however the calls of the threads interleave: each structure
   is opened once, entered only while it is open, and closed once, by a
   thread that is then alone inside. *)
THEOREM LifecycleIsFollowed == Exclusive => (Spec => FollowsLifecycle)
<1> SUFFICES ASSUME Exclusive PROVE Spec => FollowsLifecycle
  OBVIOUS
<1>1. Init => FollowInv
  <2> SUFFICES ASSUME Init PROVE FollowInv OBVIOUS
  <2>1. MakerInv /\ BlockInv /\ FreedInv BY DEF Init, MakerInv, BlockInv, FreedInv
  <2> QED BY <2>1, SafeInvInit DEF FollowInv
<1>2. FollowInv /\ [Next]_vars => FollowInv' BY FollowInvNext
<1>3. FollowInv /\ [Next]_vars => [Lifecycle!Next]_<<Status, Inside>> BY StepFollows
<1>4. Init => Lifecycle!Init
  <2> SUFFICES ASSUME Init PROVE Lifecycle!Init OBVIOUS
  <2>1. \A t \in Threads, h \in Handles : ~IsInside(t, h)
    BY ConstantsAssumption DEF Init, IsInside, HoldsPointer
  <2>2. Inside = [h \in Handles |-> {}] BY <2>1 DEF Inside, IsInside
  <2>3. Status = [h \in Handles |-> "none"] BY ConstantsAssumption DEF Init, Status
  <2> QED BY <2>2, <2>3 DEF Lifecycle!Init
<1> QED BY <1>1, <1>2, <1>3, <1>4, PTL DEF Spec, FollowsLifecycle, Lifecycle!Spec

=============================================================================
