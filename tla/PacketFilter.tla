---------------------------- MODULE PacketFilter ----------------------------
(***************************************************************************)
(* PcapCompile, PcapSetFilter and PcapFreeCode of jni/src/jxnet.c, with    *)
(* what the bundled libpcap does for them on a live Linux handle: it keeps *)
(* a copy of the program, attaches it to the socket if the kernel takes    *)
(* it, and filters once more, itself, the packets that may have entered    *)
(* the ring under the previous filter (pcap_setfilter_linux_mmap).         *)
(*                                                                         *)
(* A packet is only its kind, a filter is the set of kinds it accepts.     *)
(* The ring is that of TPACKET_V2, one packet in a frame.  One thread      *)
(* captures and sets filters, inside its callback or between reads; the    *)
(* kernel, on several processors, fills the ring concurrently with         *)
(* everything it does.                                                     *)
(***************************************************************************)
EXTENDS Integers, FiniteSets

CONSTANTS Kinds,          \* kinds of packets
          Filters,        \* filters clients compile, each a set of kinds
          Kernels,        \* kinds of kernels, each the set of filters it can run
          cc,             \* frames in the ring
          CPUs,           \* processors on which the kernel receives packets
          None

ASSUME FilterAssumption ==
         /\ Filters \subseteq SUBSET Kinds
         /\ Kernels \subseteq SUBSET Filters
         /\ cc \in Nat \ {0} /\ IsFiniteSet(CPUs)
         /\ None \notin Kinds \cup Filters

VARIABLES kernel,     \* the filters the kernel can run
          frame,      \* frame[i]: the packet in it, None while it is the kernel's
          kpos,       \* the frame the kernel fills next
          cpu,        \* the packet a processor has filtered and not yet stored
          kfilter,    \* the filter of the socket, Kinds if there is none
          prog,       \* the code of the BpfProgram object, None if it has none
          fcode,      \* the copy in the pcap_t
          filter_in_userland, blocks_to_filter_in_userland,
          offset,     \* the frame the reader looks at next
          pc,         \* the reader: "idle" or in the "callback"
          sf, n, pos, \* the progress of pcap_setfilter
          wanted,     \* the filter PcapSetFilter last said it has set ...
          inherited,  \* ... with a count of blocks that an earlier filter left
          spare       \* the packets outside wanted that may still come through

\* No code reads wanted, inherited and spare: they are history, for the properties.
history == <<wanted, inherited, spare>>

vars == <<kernel, frame, kpos, cpu, kfilter, prog, fcode, filter_in_userland,
          blocks_to_filter_in_userland, offset, pc, sf, n, pos, history>>

kernelVars == <<frame, kpos, cpu>>

Frames == 0..(cc - 1)

(* Positions and counts stay within the ring. *)
TypeOK ==
  /\ kernel \in Kernels
  /\ frame \in [Frames -> Kinds \cup {None}]
  /\ kpos \in Frames /\ offset \in Frames /\ pos \in Frames
  /\ cpu \in [CPUs -> Kinds \cup {None}]
  /\ kfilter \in SUBSET Kinds
  /\ prog \in Filters \cup {None} /\ fcode \in Filters \cup {None}
  /\ wanted \in Filters \cup {None}
  /\ filter_in_userland \in BOOLEAN
  /\ blocks_to_filter_in_userland \in 0..cc
  /\ pc \in {"idle", "callback"}
  /\ sf \in {"none", "fix", "attach", "count"}
  /\ n \in 0..cc
  /\ inherited \in BOOLEAN /\ spare \in 0..Cardinality(CPUs)

Init ==
  /\ kernel \in Kernels
  /\ frame = [i \in Frames |-> None]
  /\ kpos = 0 /\ cpu = [c \in CPUs |-> None] /\ kfilter = Kinds
  /\ prog = None /\ fcode = None /\ wanted = None
  /\ filter_in_userland = FALSE /\ blocks_to_filter_in_userland = 0
  /\ offset = 0 /\ pc = "idle"
  /\ sf = "none" /\ n = 0 /\ pos = 0
  /\ inherited = FALSE /\ spare = 0

-----------------------------------------------------------------------------
(* A processor runs the socket's filter on a packet, and later, before or
   after packets of the other processors, stores it in the ring if the next
   frame is the kernel's; else the packet is dropped. *)

KernelFilter ==
  /\ \E c \in CPUs : /\ cpu[c] = None
                     /\ \E k \in kfilter : cpu' = [cpu EXCEPT ![c] = k]
  /\ UNCHANGED <<kernel, frame, kpos, kfilter, prog, fcode, filter_in_userland,
                 blocks_to_filter_in_userland, offset, pc, sf, n, pos, history>>

KernelStore ==
  /\ \E c \in CPUs :
       /\ cpu[c] # None
       /\ cpu' = [cpu EXCEPT ![c] = None]
       /\ IF frame[kpos] = None
          THEN /\ frame' = [frame EXCEPT ![kpos] = cpu[c]]
               /\ kpos' = (kpos + 1) % cc
          ELSE UNCHANGED <<frame, kpos>>
  /\ UNCHANGED <<kernel, kfilter, prog, fcode, filter_in_userland,
                 blocks_to_filter_in_userland, offset, pc, sf, n, pos, history>>

-----------------------------------------------------------------------------
(* The reader, one frame of pcap_read_linux_mmap_v2 at a time. *)

HasFrame == sf = "none" /\ pc = "idle" /\ frame[offset] # None

Rejected == filter_in_userland /\ fcode # None /\ frame[offset] \notin fcode

Deliver ==
  /\ HasFrame /\ ~Rejected
  /\ pc' = "callback"
  /\ spare' = IF wanted = None \/ frame[offset] \in wanted \/ spare = 0
              THEN spare ELSE spare - 1
  /\ UNCHANGED <<kernel, kernelVars, kfilter, prog, fcode, filter_in_userland,
                 blocks_to_filter_in_userland, offset, sf, n, pos, wanted, inherited>>

(* The last block that was in the ring when the filter was set ends the
   filtering outside of the kernel. *)
CountBlock ==
  IF blocks_to_filter_in_userland > 0
  THEN /\ blocks_to_filter_in_userland' = blocks_to_filter_in_userland - 1
       /\ filter_in_userland' =
            (filter_in_userland /\ blocks_to_filter_in_userland # 1)
  ELSE UNCHANGED <<blocks_to_filter_in_userland, filter_in_userland>>

(* The frame goes back to the kernel, after the callback or without one. *)
Release ==
  /\ sf = "none"
  /\ pc = "callback" \/ (HasFrame /\ Rejected)
  /\ frame' = [frame EXCEPT ![offset] = None]
  /\ offset' = (offset + 1) % cc
  /\ CountBlock
  /\ pc' = "idle"
  /\ UNCHANGED <<kernel, kpos, cpu, kfilter, prog, fcode, sf, n, pos, history>>

-----------------------------------------------------------------------------
(* BpfProgram objects. *)

(* PcapCompile and PcapCompileNoPcap store the code of an expression; one
   with an error leaves the object as it was. *)
PcapCompile ==
  /\ sf = "none"
  /\ \E f \in Filters : prog' = f
  /\ UNCHANGED <<kernel, kernelVars, kfilter, fcode, filter_in_userland,
                 blocks_to_filter_in_userland, offset, pc, sf, n, pos, history>>

PcapFreeCode ==
  /\ sf = "none"
  /\ prog' = None
  /\ UNCHANGED <<kernel, kernelVars, kfilter, fcode, filter_in_userland,
                 blocks_to_filter_in_userland, offset, pc, sf, n, pos, history>>

-----------------------------------------------------------------------------
(* PcapSetFilter.  bpf_validate refuses a program without code, and nothing
   has changed; so only a program with code is of interest. *)

(* install_bpf_program makes the copy, in place of the one before. *)
PcapSetFilter ==
  /\ sf = "none" /\ prog # None
  /\ fcode' = prog
  /\ filter_in_userland' = TRUE
  /\ sf' = "fix"
  /\ UNCHANGED <<kernel, kernelVars, kfilter, prog, blocks_to_filter_in_userland, offset, pc,
                 n, pos, history>>

(* There is no memory for the copy: the old one is gone. *)
InstallFails ==
  /\ sf = "none" /\ prog # None
  /\ fcode' = None
  /\ wanted' = None
  /\ UNCHANGED <<kernel, kernelVars, kfilter, prog, filter_in_userland,
                 blocks_to_filter_in_userland, offset, pc, sf, n, pos, inherited, spare>>

(* The result is 0, or -1. *)
Succeed == sf' = "none" /\ wanted' = fcode
Fail == sf' = "none" /\ wanted' = None /\ UNCHANGED <<inherited, spare>>

(* fix_program has no memory for its copy. *)
FixFails ==
  /\ sf = "fix"
  /\ Fail
  /\ UNCHANGED <<kernel, kernelVars, kfilter, prog, fcode, filter_in_userland,
                 blocks_to_filter_in_userland, offset, pc, n, pos>>

(* Filtering stays in user space; the filter of the socket is removed.  If
   reset_kernel_filter fails, perhaps because there is no filter any more, the
   call fails.  A count of blocks left by an earlier filter is not reset. *)
FilterInUserland ==
  /\ \/ /\ kfilter' = Kinds /\ Succeed
        /\ inherited' = (blocks_to_filter_in_userland > 0) /\ spare' = 0
     \/ kfilter' \in {kfilter, Kinds} /\ Fail
  /\ UNCHANGED <<kernel, kernelVars, prog, fcode, filter_in_userland,
                 blocks_to_filter_in_userland, offset, pc, n, pos>>

(* fix_program finds that the kernel cannot run the program ... *)
CannotFilterInKernel ==
  /\ sf = "fix" /\ fcode \notin kernel
  /\ FilterInUserland

(* ... or lets it through, and set_kernel_filter attaches a filter that
   rejects every packet, ignoring an error ... *)
AttachTotal ==
  /\ sf = "fix"
  /\ \/ kfilter' = {} \/ UNCHANGED kfilter
  /\ sf' = "attach"
  /\ UNCHANGED <<kernel, kernelVars, prog, fcode, filter_in_userland,
                 blocks_to_filter_in_userland, offset, pc, n, pos, history>>

(* ... and then either the kernel refuses the new one after all, for what it
   is or for want of memory, ... *)
AttachRefused ==
  /\ sf = "attach"
  /\ FilterInUserland

(* ... or draining the socket fails, which is an error, ... *)
AttachFails ==
  /\ sf = "attach"
  /\ Fail
  /\ \/ kfilter' = Kinds \/ UNCHANGED kfilter
  /\ UNCHANGED <<kernel, kernelVars, prog, fcode, filter_in_userland,
                 blocks_to_filter_in_userland, offset, pc, n, pos>>

(* Mutants of AttachNew: the total filter stays on; the packets already in
   the ring are forgotten. *)
AttachNewKeepsTotal ==
  /\ sf = "attach" /\ fcode \in kernel
  /\ filter_in_userland' = FALSE
  /\ sf' = "count" /\ n' = 0 /\ pos' = (offset - 1) % cc
  /\ UNCHANGED <<kernel, kernelVars, kfilter, prog, fcode, blocks_to_filter_in_userland, offset,
                 pc, history>>

AttachNewOnly ==
  /\ sf = "attach" /\ fcode \in kernel
  /\ kfilter' = fcode
  /\ filter_in_userland' = FALSE
  /\ Succeed /\ inherited' = FALSE /\ spare' = Cardinality(CPUs)
  /\ UNCHANGED <<kernel, kernelVars, prog, fcode, blocks_to_filter_in_userland, offset, pc, n, pos>>

(* ... or it takes the new one, in place of any other. *)
AttachNew ==
  /\ sf = "attach" /\ fcode \in kernel
  /\ kfilter' = fcode
  /\ filter_in_userland' = FALSE
  /\ sf' = "count" /\ n' = 0 /\ pos' = (offset - 1) % cc
  /\ UNCHANGED <<kernel, kernelVars, prog, fcode, blocks_to_filter_in_userland, offset, pc, history>>

(* Free frames are counted, walking the ring backward from the frame before
   the last one, while the kernel goes on. *)
CountFree ==
  /\ sf = "count" /\ n < cc /\ frame[(pos - 1) % cc] = None
  /\ n' = n + 1 /\ pos' = (pos - 1) % cc
  /\ UNCHANGED <<kernel, kernelVars, kfilter, prog, fcode, filter_in_userland,
                 blocks_to_filter_in_userland, offset, pc, sf, history>>

(* One is taken off, where there is one, for a packet that lost a race with
   the new filter; all other frames are filtered in user space.  Each packet
   that is being received meanwhile may have lost that race: if no frame was
   found free all of them may yet come through, else all but one. *)
CountDone ==
  /\ sf = "count" /\ ~(n < cc /\ frame[(pos - 1) % cc] = None)
  /\ blocks_to_filter_in_userland' = cc - (IF n # 0 THEN n - 1 ELSE n)
  /\ filter_in_userland' = TRUE
  /\ Succeed
  /\ inherited' = FALSE
  /\ spare' = IF n = 0 \/ CPUs = {} THEN Cardinality(CPUs) ELSE Cardinality(CPUs) - 1
  /\ UNCHANGED <<kernel, kernelVars, kfilter, prog, fcode, offset, pc, n, pos>>

-----------------------------------------------------------------------------
Next ==
  \/ KernelFilter \/ KernelStore
  \/ Deliver \/ Release
  \/ PcapCompile \/ PcapFreeCode
  \/ PcapSetFilter \/ InstallFails \/ FixFails \/ CannotFilterInKernel
  \/ AttachTotal \/ AttachRefused \/ AttachFails \/ AttachNew \/ CountFree \/ CountDone

Spec == Init /\ [][Next]_vars

-----------------------------------------------------------------------------
(* Properties. *)

(* Every packet handed to the callback passes the filter that PcapSetFilter
   last reported as set, whichever filter was in force in the kernel when the
   packet arrived, and although the program may have been freed or compiled
   anew since, but for two cases.  Of the packets that the kernel was receiving
   when it took the filter, as many may come through as there are processors,
   and one less if the ring had a free frame besides the last, which is what
   pcap_setfilter_linux_mmap allows for ("could there be more than one block
   added in this fashion?").  And nothing is said of a filter that is left to
   user space while blocks are counted for an earlier one: it ends with that
   count. *)
DeliveredPassFilter ==
  [][pc = "idle" /\ pc' = "callback" /\ wanted # None /\ ~inherited
       => frame[offset] \in wanted \/ spare > 0]_vars

(* The kernel does not reject what the client asked for: no filter of an
   earlier PcapSetFilter, nor the one that rejects everything, stays on the
   socket when PcapSetFilter reports success. *)
KernelLetsThrough == sf = "none" /\ wanted # None => wanted \subseteq kfilter
=============================================================================
