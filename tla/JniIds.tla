------------------------------- MODULE JniIds -------------------------------
(***************************************************************************)
(* The class references and field and method IDs of jni/src/ids.c.  They   *)
(* are global variables, set again by almost every native method and with  *)
(* no lock.  A class reference is a JNI local reference: it is good only   *)
(* for the thread that made it, and only until the native method that made *)
(* it returns.  Field and method IDs stay good once they are there.        *)
(*                                                                         *)
(* What matters of a native method is the order in which it sets and reads *)
(* these globals, its program, a sequence of steps on a class c:           *)
(*   find     cClass = FindClass(...)                                      *)
(*   resolve  the IDs of c are looked up in cClass                         *)
(*   test     SetcIDs is called if cClass is NULL                          *)
(*   use      an ID of c is used                                           *)
(*   new      an object is made of cClass                                  *)
(*   loop     pcap_loop: for every packet an object is made of cClass and  *)
(*            Java code is called, which may call native methods           *)
(* FindClass and the look-ups succeed: the classes are part of Jxnet.      *)
(***************************************************************************)
EXTENDS Naturals, Sequences, SequencesExt

CONSTANTS Threads,
          MaxDepth,   \* native methods a thread may be in at once
          MaxCalls    \* native calls in a behaviour

ASSUME JniAssumption == MaxDepth \in Nat \ {0} /\ MaxCalls \in Nat

Classes == {"Pcap", "PcapDumper", "PcapPktHdr", "BpfProgram", "ByteBuffer", "List",
            "PcapIf", "PcapAddr", "SockAddr", "StringBuilder", "PcapStat",
            "Inet4Address", "PcapDirection", "MacAddress"}

Steps == {"find", "resolve", "test", "use", "new", "loop"} \X Classes

VARIABLES cls,    \* cls[c]: the native call that made the reference in cClass, 0 if NULL
          ids,    \* ids[c]: the IDs of c are set
          stack,  \* stack[t]: the native methods t is in, the innermost last
          calls   \* native calls made so far

vars == <<cls, ids, stack, calls>>

(* A native method that has no step left has returned. *)
TypeOK ==
  /\ cls \in [Classes -> 0..calls]
  /\ ids \in [Classes -> BOOLEAN]
  /\ calls \in 0..MaxCalls
  /\ \A t \in Threads :
       /\ Len(stack[t]) <= MaxDepth
       /\ \A i \in DOMAIN stack[t] :
            /\ stack[t][i].id \in 1..calls
            /\ stack[t][i].java \in BOOLEAN
            /\ stack[t][i].prog # <<>> /\ \A s \in ToSet(stack[t][i].prog) : s \in Steps

Init == /\ cls = [c \in Classes |-> 0]
        /\ ids = [c \in Classes |-> FALSE]
        /\ stack = [t \in Threads |-> <<>>]
        /\ calls = 0

-----------------------------------------------------------------------------
(* The programs of utils.c and ids.c. *)

SetIDs(c) == <<<<"find", c>>, <<"resolve", c>>>>
Use(c) == <<<<"use", c>>>>

GetPcap == SetIDs("Pcap") \o Use("Pcap")
GetPcapDumper == SetIDs("PcapDumper") \o Use("PcapDumper")
GetBpfProgram == SetIDs("BpfProgram") \o Use("BpfProgram")

(* Mutant of SetPcap: the class is looked up only once. *)
SetPcapCached == <<<<"test", "Pcap">>, <<"new", "Pcap">>, <<"use", "Pcap">>>>

SetPcap == SetIDs("Pcap") \o <<<<"new", "Pcap">>, <<"use", "Pcap">>>>
SetPcapDumper ==
  SetIDs("PcapDumper") \o <<<<"new", "PcapDumper">>, <<"use", "PcapDumper">>>>
SetStringBuilder == SetIDs("StringBuilder") \o Use("StringBuilder")

-----------------------------------------------------------------------------
(* The state of a thread. *)

InJava(t) == IF stack[t] = <<>> THEN TRUE ELSE Last(stack[t]).java

AtStep(t) == Head(Last(stack[t]).prog)

(* Inside native code, and not waiting for packets. *)
Busy(t) == ~InJava(t) /\ AtStep(t)[1] # "loop"

(* Jxnet leaves it to its clients to make one native call at a time.  Only
   loops go on beside other calls, of their callbacks and of other threads. *)
ClientMayCall == \A u \in Threads : ~Busy(u)

ClientCalls(t, prog) ==
  /\ InJava(t)
  /\ ClientMayCall
  /\ Len(stack[t]) < MaxDepth /\ calls < MaxCalls
  /\ calls' = calls + 1
  /\ stack' = [stack EXCEPT
       ![t] = Append(@, [id |-> calls + 1, java |-> FALSE, prog |-> prog])]
  /\ UNCHANGED <<cls, ids>>

-----------------------------------------------------------------------------
(* The native methods of jxnet.c and mac_address.c. *)

(* PcapDataLink and all others that only get the pcap_t; PcapClose too. *)
PcapDataLink(t) == ClientCalls(t, GetPcap)

(* PcapOpenLive, PcapOpenOffline, PcapOpenDead and PcapCreate, or they fail. *)
PcapOpenLive(t) == ClientCalls(t, SetPcap) \/ ClientCalls(t, SetStringBuilder)

PcapLoop(t) ==
  ClientCalls(t, SetIDs("PcapPktHdr") \o GetPcap \o <<<<"loop", "PcapPktHdr">>>>)

PcapDumpOpen(t) == ClientCalls(t, GetPcap \o SetPcapDumper)
PcapDumpFlush(t) == ClientCalls(t, GetPcapDumper)

PcapDump(t) ==
  ClientCalls(t, SetIDs("PcapPktHdr") \o GetPcapDumper \o Use("PcapPktHdr"))

(* Mutant of PcapNext: the header's IDs are taken for granted. *)
PcapNextUnchecked(t) == ClientCalls(t, GetPcap \o Use("PcapPktHdr"))

PcapNext(t) ==
  ClientCalls(t, GetPcap \o <<<<"test", "PcapPktHdr">>>> \o Use("PcapPktHdr"))

PcapNextEx(t) ==
  ClientCalls(t, GetPcap \o <<<<"test", "PcapPktHdr">>, <<"test", "ByteBuffer">>>>
                   \o Use("ByteBuffer") \o Use("PcapPktHdr"))

(* PcapSetFilter and PcapCompile. *)
PcapSetFilter(t) == ClientCalls(t, GetPcap \o GetBpfProgram)
PcapFreeCode(t) == ClientCalls(t, GetBpfProgram)
PcapStats(t) == ClientCalls(t, SetIDs("PcapStat") \o GetPcap \o Use("PcapStat"))
PcapSetDirection(t) ==
  ClientCalls(t, SetIDs("PcapDirection") \o Use("PcapDirection") \o GetPcap)
PcapLookupNet(t) ==
  ClientCalls(t, SetStringBuilder \o SetIDs("Inet4Address") \o Use("Inet4Address"))
PcapLookupDev(t) ==
  \/ ClientCalls(t, SetIDs("StringBuilder"))
  \/ ClientCalls(t, SetIDs("StringBuilder") \o SetStringBuilder)

(* One device with one address, or none. *)
PcapFindAllDevs(t) ==
  LET setup == SetIDs("List") \o SetIDs("PcapIf") \o SetIDs("PcapAddr") \o SetIDs("SockAddr")
  IN  \/ ClientCalls(t, setup \o <<<<"new", "PcapIf">>, <<"new", "PcapAddr">>,
                                    <<"new", "SockAddr">>, <<"use", "List">>>>)
      \/ ClientCalls(t, setup \o SetStringBuilder)

(* MacAddress.valueOf is called on the class. *)
fromNicName(t) == ClientCalls(t, SetIDs("MacAddress") \o <<<<"new", "MacAddress">>>>)

-----------------------------------------------------------------------------
(* One step of the innermost method. *)

Frames(t, prog) ==
  IF prog = <<>> THEN Front(stack[t])
  ELSE [stack[t] EXCEPT ![Len(stack[t])] = [@ EXCEPT !.prog = prog]]

(* The next step, or the return, after which the references are gone. *)
Advance(t) == stack' = [stack EXCEPT ![t] = Frames(t, Tail(Last(stack[t]).prog))]

At(t, kind, c) == ~InJava(t) /\ AtStep(t) = <<kind, c>>

FindClass(t) ==
  /\ \E c \in Classes : /\ At(t, "find", c)
                        /\ cls' = [cls EXCEPT ![c] = Last(stack[t]).id]
  /\ Advance(t)
  /\ UNCHANGED <<ids, calls>>

ResolveIDs(t) ==
  /\ \E c \in Classes : /\ At(t, "resolve", c)
                        /\ ids' = [ids EXCEPT ![c] = TRUE]
  /\ Advance(t)
  /\ UNCHANGED <<cls, calls>>

TestClass(t) ==
  /\ \E c \in Classes :
       /\ At(t, "test", c)
       /\ stack' = [stack EXCEPT ![t] =
            Frames(t, (IF cls[c] = 0 THEN SetIDs(c) ELSE <<>>) \o Tail(Last(stack[t]).prog))]
  /\ UNCHANGED <<cls, ids, calls>>

UseIDs(t) ==
  /\ \E c \in Classes : At(t, "use", c) \/ At(t, "new", c)
  /\ Advance(t)
  /\ UNCHANGED <<cls, ids, calls>>

(* pcap_callback makes the header and enters nextPacket ... *)
Deliver(t) ==
  /\ \E c \in Classes : At(t, "loop", c)
  /\ stack' = [stack EXCEPT ![t][Len(stack[t])] = [@ EXCEPT !.java = TRUE]]
  /\ UNCHANGED <<cls, ids, calls>>

(* ... which returns into the loop. *)
CallbackReturns(t) ==
  /\ stack[t] # <<>> /\ InJava(t)
  /\ stack' = [stack EXCEPT ![t][Len(stack[t])] = [@ EXCEPT !.java = FALSE]]
  /\ UNCHANGED <<cls, ids, calls>>

LoopReturns(t) ==
  /\ \E c \in Classes : At(t, "loop", c)
  /\ Advance(t)
  /\ UNCHANGED <<cls, ids, calls>>

-----------------------------------------------------------------------------
Next ==
  \E t \in Threads :
    \/ PcapDataLink(t) \/ PcapOpenLive(t) \/ PcapLoop(t) \/ PcapDumpOpen(t)
    \/ PcapDumpFlush(t) \/ PcapDump(t) \/ PcapNext(t) \/ PcapNextEx(t)
    \/ PcapSetFilter(t) \/ PcapFreeCode(t) \/ PcapStats(t) \/ PcapSetDirection(t)
    \/ PcapLookupNet(t) \/ PcapLookupDev(t) \/ PcapFindAllDevs(t) \/ fromNicName(t)
    \/ FindClass(t) \/ ResolveIDs(t) \/ TestClass(t) \/ UseIDs(t)
    \/ Deliver(t) \/ CallbackReturns(t) \/ LoopReturns(t)

Spec == Init /\ [][Next]_vars

-----------------------------------------------------------------------------
(* Properties. *)

(* For clients that make one native call at a time: a thread that is about to
   read the class global of c finds there a reference of its own, made by a
   method it has not returned from, in SetcIDs, in NewObject of the open calls
   and of PcapFindAllDevs, and in pcap_callback for every packet of a loop.
   One case is excepted: a loop whose class a later call has looked up since,
   PcapDump in its callback as in the test PcapDump.java:36, or another loop.
   Its next header is then made of a reference that is not its own. *)
ReferencesValid ==
  \A t \in Threads :
    LET c == AtStep(t)[2]
        overtaken == AtStep(t)[1] = "loop" /\ cls[c] > Last(stack[t]).id
    IN  ~InJava(t) /\ AtStep(t)[1] \in {"resolve", "new", "loop"} /\ ~overtaken =>
          \E i \in DOMAIN stack[t] : stack[t][i].id = cls[c]

(* No ID is used before it is set, although PcapNext and PcapNextEx go by the
   class global to see whether it is. *)
IdsResolved ==
  \A t \in Threads :
    ~InJava(t) /\ AtStep(t)[1] \in {"use", "new", "loop"} => ids[AtStep(t)[2]]
=============================================================================
