-------------------------- MODULE PacketFilterProofs --------------------------
(***************************************************************************)
(* Proofs about PacketFilter, for any kinds of packets, any filters and a  *)
(* ring of any size.                                                       *)
(***************************************************************************)
EXTENDS PacketFilter, FiniteSetTheorems, TLAPS

-----------------------------------------------------------------------------
(* Types. *)

(* The remainders that the walks around the ring take. *)
LEMMA Remainders ==
  ASSUME NEW c \in Nat \ {0}, NEW x \in Int
  PROVE  /\ x % c \in 0..(c - 1)
         /\ x \in 0..(c - 1) => x % c = x
         /\ c <= x /\ x < c + c => x % c = x - c
         /\ -c <= x /\ x < 0 => x % c = x + c
<1>1. x % c \in 0..(c - 1) OBVIOUS
<1>2. x \in 0..(c - 1) => x % c = x OBVIOUS
<1>3. c <= x /\ x < c + c => x % c = x - c OBVIOUS
<1>4. -c <= x /\ x < 0 => x % c = x + c OBVIOUS
<1> QED BY <1>1, <1>2, <1>3, <1>4

(* Positions in the ring, the packets being received and the fields of the
   handle stay in range, whatever clients and kernel do. *)
THEOREM FilterTypeCorrect == Spec => []TypeOK
<1> USE FilterAssumption DEF FilterAssumption
<1>0. \A x \in Int : x % cc \in Frames BY Remainders DEF Frames
<1>c. Cardinality(CPUs) \in Nat BY FS_CardinalityType
<1>1. Init => TypeOK
  <2> SUFFICES ASSUME Init PROVE TypeOK
    OBVIOUS
  <2>1. 0 \in Frames /\ 0 \in 0..Cardinality(CPUs) BY <1>c DEF Frames
  <2>2. frame \in [Frames -> Kinds \cup {None}] BY DEF Init
  <2>3. filter_in_userland \in BOOLEAN BY DEF Init
  <2>4. kfilter \in SUBSET Kinds BY DEF Init
  <2>5. 0 <= cc OBVIOUS
  <2>6. cpu \in [CPUs -> Kinds \cup {None}] BY DEF Init
  <2>7. inherited \in BOOLEAN BY DEF Init
  <2>8. kernel \in Kernels /\ prog = None /\ fcode = None /\ wanted = None /\ pc = "idle"
        /\ sf = "none" /\ kpos = 0 /\ offset = 0 /\ pos = 0 /\ n = 0 /\ spare = 0
        /\ blocks_to_filter_in_userland = 0
    BY DEF Init
  <2> QED BY <2>1, <2>2, <2>3, <2>4, <2>5, <2>6, <2>7, <2>8 DEF TypeOK
<1>2. TypeOK /\ [Next]_vars => TypeOK'
  <2> SUFFICES ASSUME TypeOK, [Next]_vars PROVE TypeOK'
    OBVIOUS
  <2> USE DEF TypeOK, kernelVars, history
  <2>1. CASE KernelFilter
    <3>1. cpu' \in [CPUs -> Kinds \cup {None}] BY <2>1 DEF KernelFilter
    <3> QED BY <2>1, <3>1 DEF KernelFilter
  <2>2. CASE KernelStore
    <3>1. cpu' \in [CPUs -> Kinds \cup {None}] BY <2>2 DEF KernelStore
    <3>2. frame' \in [Frames -> Kinds \cup {None}] BY <2>2 DEF KernelStore
    <3>3. kpos' \in Frames
      <4>1. kpos \in Int /\ (kpos + 1) % cc \in Frames BY <1>0 DEF Frames
      <4> QED BY <2>2, <4>1 DEF KernelStore
    <3> QED BY <2>2, <3>1, <3>2, <3>3 DEF KernelStore
  <2>3. CASE Deliver
    <3>1. spare' \in 0..Cardinality(CPUs) BY <1>c, <2>3 DEF Deliver
    <3> QED BY <2>3, <3>1 DEF Deliver
  <2>4. CASE Release
    <3>1. (offset + 1) % cc \in Frames BY <1>0 DEF Frames
    <3>2. frame' \in [Frames -> Kinds \cup {None}] BY <2>4 DEF Release
    <3>3. blocks_to_filter_in_userland' \in 0..cc
      BY <2>4 DEF Release, CountBlock
    <3>4. filter_in_userland' \in BOOLEAN
      BY <2>4 DEF Release, CountBlock
    <3> QED BY <2>4, <3>1, <3>2, <3>3, <3>4 DEF Release
  <2>5. CASE PcapCompile \/ PcapFreeCode BY <2>5 DEF PcapCompile, PcapFreeCode
  <2>6. CASE PcapSetFilter \/ InstallFails BY <2>6, ZenonT(30) DEF PcapSetFilter, InstallFails
  <2>7. CASE FixFails BY <2>7 DEF FixFails, Fail
  <2>8. CASE CannotFilterInKernel \/ AttachRefused
    <3>1. FilterInUserland BY <2>8 DEF CannotFilterInKernel, AttachRefused
    <3>2. inherited' \in BOOLEAN
      <4>1. inherited' = (blocks_to_filter_in_userland > 0) \/ inherited' = inherited
        BY <3>1 DEF FilterInUserland, Fail
      <4>2. (blocks_to_filter_in_userland > 0) \in BOOLEAN OBVIOUS
      <4>3. inherited \in BOOLEAN OBVIOUS
      <4> QED BY ONLY <4>1, <4>2, <4>3, Zenon
    <3>3. spare' \in 0..Cardinality(CPUs)
      <4>1. spare' = 0 \/ spare' = spare BY <3>1 DEF FilterInUserland, Fail
      <4> QED BY <1>c, <4>1
    <3> QED
      BY <2>8, <3>1, <3>2, <3>3
         DEF CannotFilterInKernel, AttachRefused, FilterInUserland, Succeed, Fail
  <2>9. CASE AttachTotal \/ AttachFails BY <2>9 DEF AttachTotal, AttachFails, Fail
  <2>10. CASE AttachNew
    <3>1. (offset - 1) % cc \in Frames BY <1>0 DEF Frames
    <3>2. fcode \in Filters BY <2>10 DEF AttachNew
    <3>3. filter_in_userland' \in BOOLEAN BY <2>10 DEF AttachNew
    <3>4. kfilter' \in SUBSET Kinds BY <2>10, <3>2 DEF AttachNew
    <3>5. pos' \in Frames /\ n' \in 0..cc /\ sf' = "count"
      BY <2>10, <3>1 DEF AttachNew
    <3> QED BY <2>10, <3>3, <3>4, <3>5 DEF AttachNew
  <2>11. CASE CountFree
    <3>1. (pos - 1) % cc \in Frames BY <1>0 DEF Frames
    <3> QED BY <2>11, <3>1 DEF CountFree
  <2>12. CASE CountDone
    <3>1. blocks_to_filter_in_userland' \in 0..cc BY <2>12 DEF CountDone
    <3>2. spare' \in 0..Cardinality(CPUs)
      <4>1. CPUs # {} => Cardinality(CPUs) - 1 \in 0..Cardinality(CPUs)
        BY <1>c, FS_EmptySet
      <4>2. Cardinality(CPUs) \in 0..Cardinality(CPUs) BY <1>c
      <4> QED BY <2>12, <4>1, <4>2 DEF CountDone
    <3>3. inherited' \in BOOLEAN BY <2>12 DEF CountDone
    <3> QED BY <2>12, <3>1, <3>2, <3>3 DEF CountDone, Succeed
  <2>13. CASE UNCHANGED vars BY <2>13 DEF vars
  <2> QED
    BY <2>1, <2>2, <2>3, <2>4, <2>5, <2>6, <2>7, <2>8, <2>9, <2>10, <2>11, <2>12, <2>13
       DEF Next
<1> QED BY <1>1, <1>2, PTL DEF Spec

-----------------------------------------------------------------------------
(* The filter of the socket. *)

(* While frames are counted the new filter is on the socket. *)
SocketInv ==
  /\ sf = "count" => kfilter = fcode
  /\ KernelLetsThrough

(* Once PcapSetFilter has reported success, no filter of an earlier call, and
   not the total one, keeps a packet that the client asked for from the ring. *)
THEOREM KernelAlwaysLetsThrough == Spec => []KernelLetsThrough
<1> USE FilterAssumption DEF FilterAssumption
<1>1. Init => SocketInv BY DEF Init, SocketInv, KernelLetsThrough
<1>2. TypeOK /\ SocketInv /\ [Next]_vars => SocketInv'
  <2> SUFFICES ASSUME TypeOK, SocketInv, [Next]_vars PROVE SocketInv'
    OBVIOUS
  <2>0. fcode # None => fcode \subseteq Kinds BY DEF TypeOK
  <2> USE DEF SocketInv, KernelLetsThrough, kernelVars, history
  <2>1. CASE KernelFilter \/ KernelStore \/ Deliver \/ Release \/ PcapCompile \/ PcapFreeCode
    BY <2>1 DEF KernelFilter, KernelStore, Deliver, Release, PcapCompile, PcapFreeCode
  <2>2. CASE PcapSetFilter \/ InstallFails \/ FixFails \/ AttachTotal \/ AttachFails
    BY <2>2 DEF PcapSetFilter, InstallFails, FixFails, AttachTotal, AttachFails, Fail
  <2>3. CASE CannotFilterInKernel \/ AttachRefused
    BY <2>0, <2>3 DEF CannotFilterInKernel, AttachRefused, FilterInUserland, Succeed, Fail
  <2>4. CASE AttachNew \/ CountFree BY <2>4 DEF AttachNew, CountFree
  <2>5. CASE CountDone
    <3>1. sf = "count" /\ kfilter' = kfilter /\ fcode' = fcode /\ sf' = "none" /\ wanted' = fcode
      BY <2>5 DEF CountDone, Succeed
    <3> QED BY <3>1
  <2>6. CASE UNCHANGED vars BY <2>6 DEF vars
  <2> QED BY <2>1, <2>2, <2>3, <2>4, <2>5, <2>6 DEF Next
<1>3. SocketInv => KernelLetsThrough BY DEF SocketInv
<1> QED BY <1>1, <1>2, <1>3, FilterTypeCorrect, PTL DEF Spec

-----------------------------------------------------------------------------
(* Delivered packets pass the filter last set, but for the spare ones.     *)
(*                                                                         *)
(* The reader is at offset, and the m frames from there on are full.  A    *)
(* packet that passed an earlier filter sits i frames ahead of the reader, *)
(* or is still being received by a processor, which will put it m frames   *)
(* ahead.  Those in the first blocks_to_filter_in_userland frames do no    *)
(* harm.  The others are no more than the spare ones, if the first to be   *)
(* stored, m frames ahead, was still among the harmless frames when the    *)
(* kernel took the filter: for after that there is a processor without an  *)
(* old packet.                                                             *)

(* The frame with the number i, counted around the ring. *)
Place(i) == IF i < 0 THEN i + cc ELSE IF i < cc THEN i ELSE i - cc

(* The frame i places ahead of the reader. *)
Ahead(i) == frame[Place(offset + i)]

(* m frames are full, and the kernel fills the one after them next. *)
Full(m) ==
  /\ kpos = Place(offset + m)
  /\ \A i \in Frames : Ahead(i) # None <=> i < m
  /\ pc = "callback" => m > 0

(* The processors with a packet outside the filter F, and the frames from d
   places ahead of the reader on that have one the reader has yet to see. *)
Receiving(F) == {c \in CPUs : cpu[c] \notin F \cup {None}}
Stored(F, d) == {i \in Frames : /\ d <= i /\ Ahead(i) \notin F \cup {None}
                                /\ ~(i = 0 /\ pc = "callback")}

(* A and B have no more than s packets together, or there are as yet none in
   B, and will not be any before one of the processors has given up its own. *)
AtMost(A, B, s, waits) ==
  \/ Cardinality(A) + Cardinality(B) <= s
  \/ B = {} /\ Cardinality(CPUs) <= s + 1 /\ waits

Few(F, d, s, m) == AtMost(Receiving(F), Stored(F, d), s, m < d)

(* After n free frames were counted, backward from the last but one, only so
   far ahead did the kernel have packets. *)
Reach == IF n < cc THEN cc - 1 - n ELSE 0

(* The packets for which the count does not allow. *)
Missed == IF n = 0 \/ CPUs = {} THEN Cardinality(CPUs) ELSE Cardinality(CPUs) - 1

Counted(m) == sf = "count" =>
  /\ kfilter = fcode /\ pos = Place(offset + (cc - 1 - n))
  /\ Few(fcode, Reach + 1, Missed, m)

(* Either everything is filtered in user space, or what comes after the blocks
   that are is what the kernel lets through, but for a few packets. *)
Guarded(m) == sf = "none" /\ wanted # None /\ ~inherited =>
  /\ fcode = wanted
  /\ \/ filter_in_userland /\ blocks_to_filter_in_userland = 0
     \/ /\ kfilter \subseteq wanted
        /\ blocks_to_filter_in_userland > 0 => filter_in_userland
        /\ Few(wanted, blocks_to_filter_in_userland, spare, m)

(* A filter that is being set is in the handle, and in use. *)
SetInv ==
  /\ sf # "none" => fcode \in Filters
  /\ sf \in {"fix", "attach"} => filter_in_userland

RingInv == \E m \in 0..cc : Full(m) /\ Counted(m) /\ Guarded(m)

(* Going around the ring. *)
LEMMA Around ==
  ASSUME TypeOK
  PROVE  /\ \A i \in Frames : Place(offset + i) \in Frames
         /\ \A i, j \in Frames : Place(offset + i) = Place(offset + j) => i = j
         /\ Place(offset) = offset /\ Ahead(0) = frame[offset]
         /\ \A m \in Frames : (Place(offset + m) + 1) % cc = Place(offset + (m + 1))
         /\ (offset - 1) % cc = Place(offset + (cc - 1))
         /\ (offset + 1) % cc = Place(offset + 1)
         /\ \A k \in 0..cc : (Place(offset + (cc - 1 - k)) - 1) % cc
                               = IF k < cc THEN Place(offset + (cc - 2 - k))
                                           ELSE Place(offset + (cc - 2))
<1>1. cc \in Nat \ {0} /\ offset \in 0..(cc - 1) /\ Frames = 0..(cc - 1)
  BY FilterAssumption DEF FilterAssumption, TypeOK, Frames
<1>r. \A x \in Int : /\ x \in 0..(cc - 1) => x % cc = x
                     /\ cc <= x /\ x < cc + cc => x % cc = x - cc
                     /\ -cc <= x /\ x < 0 => x % cc = x + cc
  BY <1>1, Remainders
<1>2. ASSUME NEW i \in Frames PROVE Place(offset + i) \in Frames
  BY <1>1 DEF Place
<1>3. ASSUME NEW i \in Frames, NEW j \in Frames, Place(offset + i) = Place(offset + j) PROVE i = j
  BY <1>1, <1>3 DEF Place
<1>4. Place(offset) = offset /\ Ahead(0) = frame[offset] BY <1>1 DEF Place, Ahead
<1>5. ASSUME NEW m \in Frames PROVE (Place(offset + m) + 1) % cc = Place(offset + (m + 1))
  <2> DEFINE x == Place(offset + m) + 1
  <2>1. x \in 1..cc BY <1>1 DEF Place
  <2>2. x < cc => x % cc = x BY <1>1, <1>r, <2>1
  <2>3. x = cc => x % cc = 0 BY <1>1, <1>r, <2>1
  <2>4. x < cc => x = Place(offset + (m + 1)) BY <1>1 DEF Place
  <2>5. x = cc => 0 = Place(offset + (m + 1)) BY <1>1 DEF Place
  <2> HIDE DEF x
  <2>6. x % cc = Place(offset + (m + 1))
    <3>1. x < cc \/ x = cc BY <1>1, <2>1
    <3> QED BY <2>2, <2>3, <2>4, <2>5, <3>1
  <2> QED BY <2>6 DEF x
<1>6. (offset - 1) % cc = Place(offset + (cc - 1))
  <2>1. offset - 1 \in Int /\ -cc <= offset - 1 BY <1>1
  <2>2. offset > 0 => (offset - 1) % cc = offset - 1 BY <1>1, <1>r, <2>1
  <2>3. offset = 0 => (offset - 1) % cc = offset - 1 + cc BY <1>1, <1>r, <2>1
  <2> QED BY <1>1, <2>2, <2>3 DEF Place
<1>7. (offset + 1) % cc = Place(offset + 1)
  <2>1. offset + 1 \in Int /\ offset + 1 < cc + cc BY <1>1
  <2>2. offset + 1 < cc => (offset + 1) % cc = offset + 1 BY <1>1, <1>r, <2>1
  <2>3. offset + 1 >= cc => (offset + 1) % cc = offset + 1 - cc BY <1>1, <1>r, <2>1
  <2> QED BY <1>1, <2>2, <2>3 DEF Place
<1>8. ASSUME NEW k \in 0..cc
      PROVE  (Place(offset + (cc - 1 - k)) - 1) % cc
               = IF k < cc THEN Place(offset + (cc - 2 - k)) ELSE Place(offset + (cc - 2))
  <2> DEFINE x == Place(offset + (cc - 1 - k)) - 1
             y == IF k < cc THEN Place(offset + (cc - 2 - k)) ELSE Place(offset + (cc - 2))
  <2>1. x \in Int /\ -1 <= x /\ x < cc BY <1>1 DEF Place
  <2>2. x >= 0 => x % cc = x BY <1>1, <1>r, <2>1
  <2>3. x < 0 => x % cc = x + cc BY <1>1, <1>r, <2>1
  <2>4. x >= 0 => x = y BY <1>1 DEF Place
  <2>5. x < 0 => x + cc = y BY <1>1 DEF Place
  <2> HIDE DEF x, y
  <2>6. x % cc = y
    <3>1. x >= 0 \/ x < 0 BY <2>1
    <3> QED BY <2>2, <2>3, <2>4, <2>5, <3>1
  <2> QED BY <2>6 DEF x, y
<1> QED BY <1>2, <1>3, <1>4, <1>5, <1>6, <1>7, <1>8

(* PcapSetFilter installs the filter before it does anything else. *)
LEMMA SetInvNext ==
  ASSUME TypeOK, SetInv, [Next]_vars
  PROVE  SetInv'
<1> USE DEF SetInv, kernelVars, history
<1>1. CASE KernelFilter \/ KernelStore \/ Deliver \/ PcapCompile \/ PcapFreeCode
  BY <1>1 DEF KernelFilter, KernelStore, Deliver, PcapCompile, PcapFreeCode
<1>2. CASE Release BY <1>2 DEF Release, CountBlock
<1>3. CASE PcapSetFilter \/ InstallFails
  BY <1>3 DEF PcapSetFilter, InstallFails, TypeOK
<1>4. CASE FixFails \/ AttachTotal \/ AttachFails
  BY <1>4 DEF FixFails, AttachTotal, AttachFails, Fail
<1>5. CASE CannotFilterInKernel \/ AttachRefused
  BY <1>5 DEF CannotFilterInKernel, AttachRefused, FilterInUserland, Succeed, Fail
<1>6. CASE AttachNew BY <1>6 DEF AttachNew
<1>7. CASE CountFree \/ CountDone BY <1>7 DEF CountFree, CountDone, Succeed
<1>8. CASE UNCHANGED vars BY <1>8 DEF vars
<1> QED BY <1>1, <1>2, <1>3, <1>4, <1>5, <1>6, <1>7, <1>8 DEF Next

(* Sets of packets that only get smaller stay small. *)
LEMMA AtMostKeeps ==
  ASSUME NEW A, NEW A2, NEW B, NEW B2, NEW s \in Int, NEW waits, NEW waits2,
         IsFiniteSet(A), IsFiniteSet(B), A2 \subseteq A, IsFiniteSet(B2),
         Cardinality(B2) <= Cardinality(B), waits => waits2, AtMost(A, B, s, waits)
  PROVE  AtMost(A2, B2, s, waits2)
<1>1. /\ Cardinality(A2) \in Nat /\ Cardinality(A) \in Nat /\ Cardinality(A2) <= Cardinality(A)
      /\ Cardinality(B) \in Nat /\ Cardinality(B2) \in Nat
  BY FS_Subset, FS_CardinalityType
<1>2. B = {} => B2 = {}
  <2>1. B = {} => Cardinality(B) = 0 BY FS_EmptySet
  <2>2. Cardinality(B2) = 0 => B2 = {} BY FS_EmptySet
  <2> QED BY <1>1, <2>1, <2>2
<1>3. CASE Cardinality(A) + Cardinality(B) <= s BY <1>1, <1>3 DEF AtMost
<1>4. CASE B = {} /\ Cardinality(CPUs) <= s + 1 /\ waits BY <1>2, <1>4 DEF AtMost
<1> QED BY <1>3, <1>4 DEF AtMost

LEMMA FiniteParts ==
  ASSUME NEW F, NEW d
  PROVE  /\ IsFiniteSet(CPUs) /\ IsFiniteSet(Frames) /\ Cardinality(CPUs) \in Nat
         /\ IsFiniteSet(Receiving(F)) /\ IsFiniteSet(Stored(F, d))
         /\ Cardinality(Receiving(F)) \in Nat /\ Cardinality(Receiving(F)) <= Cardinality(CPUs)
         /\ Cardinality(Stored(F, d)) \in Nat
<1>1. IsFiniteSet(CPUs) /\ cc \in Nat \ {0} BY FilterAssumption DEF FilterAssumption
<1>2. IsFiniteSet(Frames)
  <2>1. 0 \in Int /\ cc - 1 \in Int BY <1>1
  <2> QED BY <2>1, FS_Interval DEF Frames
<1>3. Receiving(F) \subseteq CPUs BY DEF Receiving
<1>4. Stored(F, d) \subseteq Frames BY DEF Stored
<1> QED BY <1>1, <1>2, <1>3, <1>4, FS_Subset, FS_CardinalityType

(* The kernel stores a packet: it is now the last in the ring, or was dropped. *)
LEMMA FewStore ==
  ASSUME TypeOK, NEW m \in 0..cc, Full(m), NEW F, NEW d \in Nat, NEW s \in Int, d <= cc,
         Few(F, d, s, m), NEW c \in CPUs, cpu[c] # None, cpu' = [cpu EXCEPT ![c] = None],
         NEW k \in {m, m + 1}, UNCHANGED <<offset, pc>>,
         \A i \in Frames : Ahead(i)' = IF i = m /\ k = m + 1 THEN cpu[c] ELSE Ahead(i)
  PROVE  AtMost({x \in CPUs : cpu'[x] \notin F \cup {None}},
                {i \in Frames : /\ d <= i /\ Ahead(i)' \notin F \cup {None}
                                 /\ ~(i = 0 /\ pc' = "callback")}, s, k < d)
<1> DEFINE R == Receiving(F)
           R2 == {x \in CPUs : cpu'[x] \notin F \cup {None}}
           S == Stored(F, d)
           S2 == {i \in Frames : /\ d <= i /\ Ahead(i)' \notin F \cup {None}
                                 /\ ~(i = 0 /\ pc' = "callback")}
<1>0. IsFiniteSet(CPUs) /\ IsFiniteSet(R) /\ IsFiniteSet(S) /\ Cardinality(CPUs) \in Nat
  BY FiniteParts
<1>1. R2 = R \ {c}
  <2>1. \A x \in CPUs : cpu'[x] = IF x = c THEN None ELSE cpu[x] BY DEF TypeOK
  <2> QED BY <2>1 DEF Receiving
<1>2. S2 \subseteq S \cup {m} BY DEF Stored
<1>3. S2 # S => S2 \subseteq S \/ cpu[c] \notin F
  BY DEF Stored
<1>4. m < d => S2 \subseteq S
  <2>1. ASSUME NEW i \in S2, m < d PROVE i \in S
    <3>1. i # m BY <2>1 DEF Frames
    <3> QED BY <3>1 DEF Stored
  <2> QED BY <2>1
<1>5. Cardinality(R2) <= Cardinality(R) /\ Cardinality(R2) \in Nat /\ Cardinality(R) \in Nat
      /\ IsFiniteSet(R2)
  BY <1>0, <1>1, FS_Subset, FS_CardinalityType
<1>6. IsFiniteSet(S \cup {m}) /\ IsFiniteSet(S2) /\ Cardinality(S2) \in Nat /\ Cardinality(S) \in Nat
  BY <1>0, <1>2, FS_AddElement, FS_Subset, FS_CardinalityType
<1> SUFFICES AtMost(R2, S2, s, k < d)
  OBVIOUS
<1> HIDE DEF R, R2, S, S2
<1>7. CASE Cardinality(R) + Cardinality(S) <= s
  <2>1. CASE S2 \subseteq S
    <3>1. Cardinality(S2) <= Cardinality(S) BY <1>0, <2>1, FS_Subset
    <3>2. Cardinality(R2) + Cardinality(S2) <= s BY ONLY <1>5, <1>6, <1>7, <3>1, s \in Int
    <3> QED BY ONLY <3>2 DEF AtMost
  <2>2. CASE ~(S2 \subseteq S)
    <3>1. cpu[c] \notin F BY <1>3, <2>2
    <3>2. c \in R BY <3>1 DEF R, Receiving
    <3>3. Cardinality(R2) = Cardinality(R) - 1 BY <1>0, <1>1, <3>2, FS_RemoveElement
    <3>4. Cardinality(S \cup {m}) \in {Cardinality(S), Cardinality(S) + 1}
      BY <1>0, FS_AddElement
    <3>5. Cardinality(S2) <= Cardinality(S \cup {m}) BY <1>2, <1>6, FS_Subset
    <3>6. Cardinality(R2) + Cardinality(S2) <= s
      BY ONLY <1>5, <1>6, <1>7, <3>3, <3>4, <3>5, s \in Int
    <3> QED BY ONLY <3>6 DEF AtMost
  <2> QED BY <2>1, <2>2
<1>8. CASE S = {} /\ Cardinality(CPUs) <= s + 1 /\ m < d
  <2>1. S2 = {} BY <1>4, <1>8
  <2>2. R2 \subseteq CPUs \ {c} BY <1>1 DEF R, Receiving
  <2>3. Cardinality(CPUs \ {c}) = Cardinality(CPUs) - 1 /\ IsFiniteSet(CPUs \ {c})
    BY <1>0, FS_RemoveElement
  <2>4. Cardinality(R2) <= Cardinality(CPUs \ {c}) BY <2>2, <2>3, FS_Subset
  <2>5. Cardinality(S2) = 0 BY <2>1, FS_EmptySet
  <2>6. Cardinality(R2) + Cardinality(S2) <= s
    BY ONLY <1>0, <1>5, <1>8, <2>3, <2>4, <2>5, s \in Int
  <2> QED BY ONLY <2>6 DEF AtMost
<1> QED BY <1>7, <1>8 DEF Few, AtMost, R, S

(* The kernel fills a frame, or finds none. *)
LEMMA RingStore ==
  ASSUME TypeOK, NEW m \in 0..cc, Full(m), Counted(m), Guarded(m), KernelStore
  PROVE  \E k \in 0..cc : (Full(k) /\ Counted(k) /\ Guarded(k))'
<1>0. cc \in Nat \ {0} /\ None \notin Kinds /\ Frames = 0..(cc - 1)
  BY FilterAssumption DEF FilterAssumption, Frames
<1>1. PICK c \in CPUs : /\ cpu[c] # None /\ cpu' = [cpu EXCEPT ![c] = None]
                        /\ IF frame[kpos] = None
                           THEN /\ frame' = [frame EXCEPT ![kpos] = cpu[c]]
                                /\ kpos' = (kpos + 1) % cc
                           ELSE UNCHANGED <<frame, kpos>>
  BY DEF KernelStore
<1>2. UNCHANGED <<offset, pc, sf, n, pos, kfilter, fcode, wanted, inherited, spare,
                  filter_in_userland, blocks_to_filter_in_userland>>
  BY DEF KernelStore, history
<1>3. cpu[c] \in Kinds /\ cpu[c] # None BY <1>1 DEF TypeOK
<1>4. PICK k \in 0..cc :
      /\ k \in {m, m + 1} /\ Full(k)'
      /\ \A i \in Frames : Ahead(i)' = IF i = m /\ k = m + 1 THEN cpu[c] ELSE Ahead(i)
  <2>1. CASE frame[kpos] # None
    <3>1. UNCHANGED <<frame, kpos>> BY <1>1, <2>1
    <3>2. \A i \in Frames : Ahead(i)' = Ahead(i) BY <1>2, <3>1 DEF Ahead, Place
    <3>3. Full(m)' BY <1>2, <3>1, <3>2 DEF Full, Place
    <3>4. m # m + 1 OBVIOUS
    <3> QED BY <3>2, <3>3, <3>4
  <2>2. CASE frame[kpos] = None
    <3> DEFINE h == cpu[c]
    <3>1. frame' = [frame EXCEPT ![kpos] = h] /\ kpos' = (kpos + 1) % cc BY <1>1, <2>2
    <3>2. m \in Frames
      <4>1. m = cc => kpos = offset /\ Ahead(0) # None
        BY <1>0 DEF Full, Place, TypeOK
      <4>2. Ahead(0) = frame[offset] BY Around
      <4> QED BY <1>0, <2>2, <4>1, <4>2
    <3>3. kpos = Place(offset + m) /\ kpos' = Place(offset + (m + 1))
      BY <3>1, <3>2, Around DEF Full
    <3>4. \A i \in Frames : Ahead(i)' = IF i = m THEN h ELSE Ahead(i)
      <4> SUFFICES ASSUME NEW i \in Frames PROVE Ahead(i)' = IF i = m THEN h ELSE Ahead(i)
        OBVIOUS
      <4>1. Place(offset + i) \in Frames /\ (Place(offset + i) = kpos <=> i = m)
        BY <3>2, <3>3, Around
      <4>2. Ahead(i)' = frame'[Place(offset + i)] BY <1>2 DEF Ahead, Place
      <4>3. frame \in [Frames -> Kinds \cup {None}] BY DEF TypeOK
      <4> QED BY <3>1, <4>1, <4>2, <4>3 DEF Ahead
    <3>5. m + 1 \in 0..cc /\ m + 1 > 0 /\ \A i \in Frames : i < m + 1 <=> i < m \/ i = m
      BY <1>0, <3>2
    <3>6. kpos' = Place(offset + (m + 1))' BY <1>2, <3>3 DEF Place
    <3>7. \A i \in Frames : Ahead(i)' # None <=> i < m + 1
      <4>1. \A i \in Frames : Ahead(i) # None <=> i < m BY DEF Full
      <4> QED BY <1>3, <3>4, <3>5, <4>1
    <3>8. Full(m + 1)' BY <3>5, <3>6, <3>7 DEF Full
    <3> QED BY <3>4, <3>5, <3>8
  <2> QED BY <2>1, <2>2
<1>u. UNCHANGED <<offset, pc>> BY <1>2
<1>5. Counted(k)'
  <2> SUFFICES ASSUME sf = "count" PROVE Counted(k)'
    BY <1>2 DEF Counted
  <2>1. /\ kfilter = fcode /\ pos = Place(offset + (cc - 1 - n))
        /\ Few(fcode, Reach + 1, Missed, m)
    BY DEF Counted
  <2>2. UNCHANGED <<Reach, Missed>> /\ Place(offset + (cc - 1 - n))' = Place(offset + (cc - 1 - n))
    BY <1>2 DEF Reach, Missed, Place
  <2>3. Reach + 1 \in Nat /\ Reach + 1 <= cc /\ Missed \in Int
    <3>1. n \in 0..cc BY DEF TypeOK
    <3>2. Missed \in Int BY FiniteParts DEF Missed
    <3> QED BY ONLY <1>0, <3>1, <3>2 DEF Reach
  <2>4. Few(fcode, Reach + 1, Missed, k)'
    <3>1. AtMost(Receiving(fcode)', Stored(fcode, Reach + 1)', Missed, k < Reach + 1)
      <4>1. Receiving(fcode)' = {x \in CPUs : cpu'[x] \notin fcode \cup {None}}
        BY <1>2 DEF Receiving
      <4>2. Stored(fcode, Reach + 1)' = {i \in Frames : /\ Reach + 1 <= i
                                                       /\ Ahead(i)' \notin fcode \cup {None}
                                                       /\ ~(i = 0 /\ pc' = "callback")}
        BY <1>2, <2>2 DEF Stored
      <4>3. Few(fcode, Reach + 1, Missed, m) BY <2>1
      <4>4. AtMost({x \in CPUs : cpu'[x] \notin fcode \cup {None}},
                   {i \in Frames : /\ Reach + 1 <= i /\ Ahead(i)' \notin fcode \cup {None}
                                   /\ ~(i = 0 /\ pc' = "callback")}, Missed, k < Reach + 1)
        BY ONLY TypeOK, Full(m), <1>1, <1>4, <1>u, <2>3, <4>3, FewStore
      <4> QED BY ONLY <4>1, <4>2, <4>4
    <3> QED BY <1>2, <2>2, <3>1 DEF Few, AtMost
  <2> QED BY <1>2, <2>1, <2>2, <2>4 DEF Counted
<1>6. Guarded(k)'
  <2> SUFFICES ASSUME sf = "none", wanted # None, ~inherited,
                      ~(filter_in_userland /\ blocks_to_filter_in_userland = 0)
               PROVE  Guarded(k)'
    BY <1>2 DEF Guarded
  <2>1. /\ fcode = wanted /\ kfilter \subseteq wanted
        /\ blocks_to_filter_in_userland > 0 => filter_in_userland
        /\ Few(wanted, blocks_to_filter_in_userland, spare, m)
    BY DEF Guarded
  <2>2. blocks_to_filter_in_userland \in Nat /\ blocks_to_filter_in_userland <= cc /\ spare \in Int
    BY FiniteParts DEF TypeOK
  <2>3. Few(wanted, blocks_to_filter_in_userland, spare, k)'
    <3>1. AtMost(Receiving(wanted)', Stored(wanted, blocks_to_filter_in_userland)', spare,
                 k < blocks_to_filter_in_userland)
      <4>1. Receiving(wanted)' = {x \in CPUs : cpu'[x] \notin wanted \cup {None}}
        BY <1>2 DEF Receiving
      <4>2. Stored(wanted, blocks_to_filter_in_userland)'
              = {i \in Frames : /\ blocks_to_filter_in_userland <= i
                                /\ Ahead(i)' \notin wanted \cup {None}
                                /\ ~(i = 0 /\ pc' = "callback")}
        BY <1>2 DEF Stored
      <4>3. Few(wanted, blocks_to_filter_in_userland, spare, m) BY <2>1
      <4>4. AtMost({x \in CPUs : cpu'[x] \notin wanted \cup {None}},
                   {i \in Frames : /\ blocks_to_filter_in_userland <= i
                                   /\ Ahead(i)' \notin wanted \cup {None}
                                   /\ ~(i = 0 /\ pc' = "callback")}, spare,
                   k < blocks_to_filter_in_userland)
        BY ONLY TypeOK, Full(m), <1>1, <1>4, <1>u, <2>2, <4>3, FewStore
      <4> QED BY ONLY <4>1, <4>2, <4>4
    <3> QED BY <1>2, <3>1 DEF Few, AtMost
  <2> QED BY <1>2, <2>1, <2>3 DEF Guarded
<1> QED BY <1>4, <1>5, <1>6

(* The reader gives a frame back: every packet is one place nearer, and one
   block less is to be filtered. *)
LEMMA RingRelease ==
  ASSUME TypeOK, NEW m \in 0..cc, Full(m), Guarded(m), Release
  PROVE  \E k \in 0..cc : (Full(k) /\ Counted(k) /\ Guarded(k))'
<1>0. cc \in Nat \ {0} /\ Frames = 0..(cc - 1) /\ offset \in 0..(cc - 1)
  BY FilterAssumption DEF FilterAssumption, Frames, TypeOK
<1>1. /\ sf = "none" /\ pc' = "idle" /\ CountBlock
      /\ frame' = [frame EXCEPT ![offset] = None] /\ offset' = Place(offset + 1)
      /\ UNCHANGED <<kpos, cpu, kfilter, fcode, sf, wanted, inherited, spare>>
  BY Around DEF Release, history
<1>2. m > 0 /\ m - 1 \in 0..cc
  <2>1. pc = "callback" \/ Ahead(0) # None BY Around DEF Release, HasFrame
  <2>2. 0 \in Frames BY <1>0
  <2> QED BY <1>0, <2>1, <2>2 DEF Full
<1>3. \A i \in Frames : Ahead(i)' = IF i = cc - 1 THEN None ELSE Ahead(i + 1)
  <2> SUFFICES ASSUME NEW i \in Frames
               PROVE  Ahead(i)' = IF i = cc - 1 THEN None ELSE Ahead(i + 1)
    OBVIOUS
  <2>1. Ahead(i)' = frame'[Place(offset' + i)] BY DEF Ahead, Place
  <2>2. frame \in [Frames -> Kinds \cup {None}] BY DEF TypeOK
  <2>3. CASE i = cc - 1
    <3>1. Place(offset' + i) = offset BY <1>0, <1>1, <2>3 DEF Place
    <3> QED BY <1>0, <1>1, <2>1, <2>2, <2>3, <3>1
  <2>4. CASE i # cc - 1
    <3>1. i + 1 \in Frames /\ Place(offset' + i) = Place(offset + (i + 1))
      BY <1>0, <1>1, <2>4 DEF Place
    <3>2. Place(offset + (i + 1)) \in Frames /\ Place(offset + (i + 1)) # offset
      BY <1>0, <2>4, <3>1 DEF Place
    <3> QED BY <1>1, <2>1, <2>2, <2>4, <3>1, <3>2 DEF Ahead
  <2> QED BY <2>3, <2>4
<1>4. Full(m - 1)'
  <2>1. kpos' = Place(offset + m) BY <1>1 DEF Full
  <2>2. Place(offset + m) = Place(offset' + (m - 1)) BY <1>0, <1>1, <1>2 DEF Place
  <2>3. \A i \in Frames : Ahead(i)' # None <=> i < m - 1
    <3> SUFFICES ASSUME NEW i \in Frames PROVE Ahead(i)' # None <=> i < m - 1
      OBVIOUS
    <3>1. CASE i = cc - 1 BY <1>0, <1>2, <1>3, <3>1
    <3>2. CASE i # cc - 1
      <4>1. i + 1 \in Frames BY <1>0, <3>2
      <4>2. Ahead(i + 1) # None <=> i + 1 < m BY <4>1 DEF Full
      <4> QED BY <1>0, <1>2, <1>3, <3>2, <4>2
    <3> QED BY <3>1, <3>2
  <2> QED BY <1>1, <2>1, <2>2, <2>3 DEF Full, Place
<1>5. Counted(m - 1)' BY <1>1 DEF Counted
<1>6. Guarded(m - 1)'
  <2> SUFFICES ASSUME wanted # None, ~inherited PROVE Guarded(m - 1)'
    BY <1>1 DEF Guarded
  <2>0. blocks_to_filter_in_userland \in 0..cc /\ spare \in Int BY FiniteParts DEF TypeOK
  <2>1. CASE filter_in_userland /\ blocks_to_filter_in_userland = 0
    <3>1. filter_in_userland' /\ blocks_to_filter_in_userland' = 0
      BY <1>1, <2>1 DEF CountBlock
    <3> QED BY <1>1, <2>1, <3>1 DEF Guarded
  <2>2. CASE ~(filter_in_userland /\ blocks_to_filter_in_userland = 0)
    <3> DEFINE d == blocks_to_filter_in_userland
               d2 == blocks_to_filter_in_userland'
    <3>1. /\ fcode = wanted /\ kfilter \subseteq wanted
          /\ blocks_to_filter_in_userland > 0 => filter_in_userland
          /\ Few(wanted, d, spare, m)
      BY <1>1, <2>2 DEF Guarded
    <3>2. d2 \in 0..cc /\ d2 = IF d > 0 THEN d - 1 ELSE d
      <4>1. d2 = IF d > 0 THEN d - 1 ELSE d BY <1>1, <2>0 DEF CountBlock
      <4> QED BY ONLY <1>0, <2>0, <4>1
    <3>3. d2 > 0 => filter_in_userland'
      <4>1. d2 > 0 => d > 0 /\ d # 1 BY <2>0, <3>2
      <4>2. d > 0 /\ d # 1 => filter_in_userland' = (filter_in_userland /\ d # 1)
        BY <1>1 DEF CountBlock
      <4> HIDE DEF d, d2
      <4>3. d > 0 /\ d # 1 /\ filter_in_userland => filter_in_userland' BY <4>2, Zenon
      <4> QED BY <3>1, <4>1, <4>3, Zenon DEF d
    <3> DEFINE S == Stored(wanted, d)
               S2 == {i \in Frames : /\ d2 <= i /\ Ahead(i)' \notin wanted \cup {None}
                                     /\ ~(i = 0 /\ pc' = "callback")}
    <3>4. \A i \in S2 : i \in Int /\ i + 1 \in S
      <4> SUFFICES ASSUME NEW i \in S2 PROVE i \in Int /\ i + 1 \in S
        OBVIOUS
      <4>1. i \in Frames /\ d2 <= i /\ Ahead(i)' \notin wanted \cup {None} OBVIOUS
      <4>2. i # cc - 1 /\ i + 1 \in Frames /\ i + 1 # 0 BY <1>0, <1>3, <4>1
      <4>3. Ahead(i + 1) \notin wanted \cup {None} BY <1>3, <4>1, <4>2
      <4>4. i \in Int /\ d <= i + 1 BY <1>0, <2>0, <3>2, <4>1
      <4> HIDE DEF d, d2, S2
      <4> QED BY <4>2, <4>3, <4>4 DEF Stored
    <3>5. IsFiniteSet(S) /\ IsFiniteSet(Receiving(wanted)) BY FiniteParts
    <3>6. IsFiniteSet(S2) /\ Cardinality(S2) <= Cardinality(S)
      <4> DEFINE f == [i \in S2 |-> i + 1]
      <4>1. f \in Injection(S2, S)
        <5>1. f \in [S2 -> S] BY <3>4
        <5>2. \A a, b \in S2 : f[a] = f[b] => a = b BY <3>4
        <5> QED BY <5>1, <5>2 DEF Injection, IsInjective
      <4>2. S2 \subseteq Frames /\ IsFiniteSet(Frames) /\ IsFiniteSet(S2)
        BY FiniteParts, FS_Subset
      <4> HIDE DEF f, S2, S
      <4> QED BY <3>5, <4>1, <4>2, FS_Injection
    <3>7. m < d => m - 1 < d2 BY <1>0, <1>2, <2>0, <3>2
    <3>8. AtMost(Receiving(wanted), S2, spare, m - 1 < d2)
      <4> HIDE DEF S2, S, d, d2
      <4> QED BY <2>0, <3>1, <3>5, <3>6, <3>7, AtMostKeeps DEF Few, S
    <3>9. Few(wanted, d, spare, m - 1)'
      <4>1. Receiving(wanted)' = Receiving(wanted) BY <1>1 DEF Receiving
      <4>2. Stored(wanted, d)' = S2 BY <1>1 DEF Stored
      <4> HIDE DEF S2
      <4>3. AtMost(Receiving(wanted)', Stored(wanted, d)', spare', m - 1 < d2)
        BY <1>1, <3>8, <4>1, <4>2
      <4> QED BY <4>3 DEF Few, AtMost
    <3> QED BY <1>1, <3>1, <3>3, <3>9 DEF Guarded
  <2> QED BY <2>1, <2>2
<1> QED BY <1>2, <1>4, <1>5, <1>6

(* A packet is handed over: if it is one that does not pass the filter, it is
   one of the spare ones. *)
LEMMA RingDeliver ==
  ASSUME TypeOK, NEW m \in 0..cc, Full(m), Guarded(m), Deliver
  PROVE  /\ (Full(m) /\ Counted(m) /\ Guarded(m))'
         /\ wanted # None /\ ~inherited => frame[offset] \in wanted \/ spare > 0
<1>0. cc \in Nat \ {0} /\ Frames = 0..(cc - 1) /\ 0 \in Frames
  BY FilterAssumption DEF FilterAssumption, Frames
<1>1. /\ sf = "none" /\ pc = "idle" /\ pc' = "callback" /\ frame[offset] # None
      /\ ~(filter_in_userland /\ fcode # None /\ frame[offset] \notin fcode)
      /\ spare' = IF wanted = None \/ frame[offset] \in wanted \/ spare = 0
                  THEN spare ELSE spare - 1
      /\ UNCHANGED <<frame, kpos, cpu, offset, sf, n, pos, kfilter, fcode, wanted, inherited,
                     filter_in_userland, blocks_to_filter_in_userland>>
  BY DEF Deliver, HasFrame, Rejected, kernelVars
<1>2. Ahead(0) = frame[offset] BY Around
<1>3. \A i \in Frames : Ahead(i)' = Ahead(i) BY <1>1 DEF Ahead, Place
<1>4. Full(m)'
  <2>1. m > 0 BY <1>0, <1>1, <1>2 DEF Full
  <2> QED BY <1>1, <1>3, <2>1 DEF Full, Place
<1>5. Counted(m)' BY <1>1 DEF Counted
<1> DEFINE Claim == Guarded(m)' /\ (frame[offset] \in wanted \/ spare > 0)
<1>6. ASSUME wanted # None, ~inherited PROVE Claim
  <2> DEFINE d == blocks_to_filter_in_userland
             R == Receiving(wanted)
             S == Stored(wanted, d)
  <2>0. spare \in Nat /\ d \in 0..cc BY FiniteParts DEF TypeOK
  <2>1. fcode = wanted BY <1>1, <1>6 DEF Guarded
  <2>2. CASE filter_in_userland /\ d = 0
    <3>1. frame[offset] \in wanted BY <1>1, <1>6, <2>1, <2>2
    <3> QED BY <1>1, <2>1, <2>2, <3>1 DEF Guarded
  <2>3. CASE ~(filter_in_userland /\ d = 0)
    <3>1. /\ kfilter \subseteq wanted /\ (d > 0 => filter_in_userland)
          /\ AtMost(R, S, spare, m < d)
      BY <1>1, <1>6, <2>3 DEF Guarded, Few
    <3>2. /\ IsFiniteSet(R) /\ IsFiniteSet(S) /\ Cardinality(R) \in Nat
          /\ Cardinality(S) \in Nat
      BY FiniteParts
    <3>3. Receiving(wanted)' = R BY <1>1 DEF Receiving
    <3>4. Stored(wanted, d)' = S \ {0} BY <1>0, <1>1, <1>3 DEF Stored
    <3>5. SUFFICES AtMost(R, S \ {0}, spare', m < d) /\ (frame[offset] \in wanted \/ spare > 0)
      <4>1. AtMost(R, S \ {0}, spare', m < d) => Few(wanted, d, spare, m)'
        <5> HIDE DEF R, S
        <5>1. AtMost(R, S \ {0}, spare', m < d)
                => AtMost(Receiving(wanted)', Stored(wanted, d)', spare', m < d)
          BY <3>3, <3>4
        <5> QED BY <1>1, <5>1 DEF Few, AtMost
      <4> QED BY <1>1, <2>1, <3>1, <3>5, <4>1 DEF Guarded
    <3>6. CASE frame[offset] \in wanted
      <4>1. spare' = spare BY <1>1, <3>6
      <4>2. S \ {0} \subseteq S /\ IsFiniteSet(S \ {0}) /\ Cardinality(S \ {0}) <= Cardinality(S)
        BY <3>2, FS_Subset
      <4> HIDE DEF R, S
      <4> QED BY <2>0, <3>1, <3>2, <3>6, <4>1, <4>2, AtMostKeeps
    <3>7. CASE frame[offset] \notin wanted
      <4>1. d = 0 BY <1>1, <1>6, <2>0, <2>1, <3>1, <3>7
      <4>2. 0 \in S BY <1>0, <1>1, <1>2, <3>7, <4>1 DEF Stored
      <4>3. Cardinality(S \ {0}) = Cardinality(S) - 1 /\ Cardinality(S \ {0}) \in Nat
        BY <3>2, <4>2, FS_RemoveElement, FS_CardinalityType
      <4> HIDE DEF R, S
      <4>4. Cardinality(R) + Cardinality(S) <= spare BY <3>1, <4>2 DEF AtMost
      <4>5. spare > 0 BY <2>0, <3>2, <4>3, <4>4
      <4>6. spare' = spare - 1 BY <1>1, <1>6, <2>0, <3>7, <4>5
      <4>7. Cardinality(R) + Cardinality(S \ {0}) <= spare'
        BY <2>0, <3>2, <4>3, <4>4, <4>6
      <4> QED BY <4>5, <4>7 DEF AtMost
    <3> QED BY <3>6, <3>7
  <2> QED BY <2>2, <2>3
<1>7. Guarded(m)' BY <1>1, <1>6 DEF Guarded
<1> QED BY <1>4, <1>5, <1>6, <1>7

(* Every other step leaves the ring and the place of the reader alone. *)
LEMMA RingInvNext ==
  ASSUME TypeOK, SetInv, RingInv, [Next]_vars
  PROVE  RingInv'
<1>0. cc \in Nat \ {0} /\ None \notin Kinds /\ Frames = 0..(cc - 1)
  BY FilterAssumption DEF FilterAssumption, Frames
<1>1. PICK m \in 0..cc : Full(m) /\ Counted(m) /\ Guarded(m) BY DEF RingInv
<1> DEFINE Rest == Full(m)' /\ Counted(m)' /\ Guarded(m)'
<1>2. SUFFICES ASSUME ~KernelStore, ~Release PROVE Rest
  <2>1. KernelStore \/ Release => RingInv' BY <1>1, RingStore, RingRelease DEF RingInv
  <2>2. Rest => RingInv' BY DEF RingInv
  <2> QED BY <1>2, <2>1, <2>2
<1>3. UNCHANGED <<frame, offset>> => \A i \in Frames : Ahead(i)' = Ahead(i)
  BY DEF Ahead, Place
<1>4. UNCHANGED <<frame, kpos, offset>> /\ (pc' = "callback" => pc = "callback" \/ m > 0)
        => Full(m)'
  BY <1>1, <1>3 DEF Full, Place
<1>5. UNCHANGED <<frame, offset, pc, cpu, kfilter, fcode, sf, n, pos>> => Counted(m)'
  BY <1>1, <1>3 DEF Counted, Reach, Missed, Place, Few, AtMost, Receiving, Stored
<1>6. UNCHANGED <<frame, cpu, offset, pc, kfilter, fcode, wanted, inherited, spare, sf,
                 filter_in_userland, blocks_to_filter_in_userland>> => Guarded(m)'
  BY <1>1, <1>3 DEF Guarded, Few, AtMost, Receiving, Stored
<1> USE DEF kernelVars, history
<1>7. CASE KernelFilter
  <2>1. PICK c \in CPUs, k \in kfilter : cpu' = [cpu EXCEPT ![c] = k] BY <1>7 DEF KernelFilter
  <2>2. UNCHANGED <<frame, kpos, offset, pc, kfilter, fcode, wanted, sf, n, pos, inherited, spare,
                    filter_in_userland, blocks_to_filter_in_userland>>
    BY <1>7 DEF KernelFilter
  <2>3. \A x \in CPUs : cpu'[x] = IF x = c THEN k ELSE cpu[x] BY <2>1 DEF TypeOK
  <2>4. ASSUME NEW F, kfilter \subseteq F, NEW d, NEW s \in Int,
               Few(F, d, s, m)
        PROVE  AtMost({x \in CPUs : cpu'[x] \notin F \cup {None}}, Stored(F, d), s, m < d)
    <3>1. {x \in CPUs : cpu'[x] \notin F \cup {None}} \subseteq Receiving(F)
      BY <2>1, <2>3, <2>4 DEF Receiving
    <3>2. /\ IsFiniteSet(Receiving(F)) /\ IsFiniteSet(Stored(F, d))
          /\ Cardinality(Stored(F, d)) <= Cardinality(Stored(F, d))
      BY FiniteParts
    <3> QED BY <2>4, <3>1, <3>2, AtMostKeeps DEF Few
  <2>5. Counted(m)'
    <3> SUFFICES ASSUME sf = "count" PROVE Counted(m)'
      BY <2>2 DEF Counted
    <3>1. kfilter = fcode /\ pos = Place(offset + (cc - 1 - n)) /\ Few(fcode, Reach + 1, Missed, m)
      BY <1>1 DEF Counted
    <3>2. UNCHANGED <<Reach, Missed>> /\ Place(offset + (cc - 1 - n))' = Place(offset + (cc - 1 - n))
      BY <2>2 DEF Reach, Missed, Place
    <3>3. Missed \in Int BY FiniteParts DEF Missed
    <3>4. AtMost({x \in CPUs : cpu'[x] \notin fcode \cup {None}}, Stored(fcode, Reach + 1),
                 Missed, m < Reach + 1)
      BY <2>4, <3>1, <3>3
    <3>5. Stored(fcode, Reach + 1)' = Stored(fcode, Reach + 1)
      BY <1>3, <2>2, <3>2 DEF Stored
    <3>6. Few(fcode, Reach + 1, Missed, m)'
      BY <2>2, <3>2, <3>4, <3>5 DEF Few, AtMost, Receiving
    <3> QED BY <2>2, <3>1, <3>2, <3>6 DEF Counted
  <2>6. Guarded(m)'
    <3> SUFFICES ASSUME sf = "none", wanted # None, ~inherited,
                        ~(filter_in_userland /\ blocks_to_filter_in_userland = 0)
                 PROVE  Guarded(m)'
      BY <1>1, <2>2 DEF Guarded
    <3> DEFINE d == blocks_to_filter_in_userland
    <3>1. /\ fcode = wanted /\ kfilter \subseteq wanted
          /\ blocks_to_filter_in_userland > 0 => filter_in_userland
          /\ Few(wanted, d, spare, m)
      BY <1>1 DEF Guarded
    <3>2. spare \in Int BY FiniteParts DEF TypeOK
    <3>3. AtMost({x \in CPUs : cpu'[x] \notin wanted \cup {None}}, Stored(wanted, d), spare, m < d)
      BY <2>4, <3>1, <3>2
    <3>4. Stored(wanted, d)' = Stored(wanted, d) BY <1>3, <2>2 DEF Stored
    <3>5. Few(wanted, d, spare, m)'
      BY <2>2, <3>3, <3>4 DEF Few, AtMost, Receiving
    <3> QED BY <2>2, <3>1, <3>5 DEF Guarded
  <2> QED BY <1>4, <2>2, <2>5, <2>6
<1>8. CASE Deliver BY <1>1, <1>8, RingDeliver
<1>9. CASE PcapCompile \/ PcapFreeCode
  BY <1>4, <1>5, <1>6, <1>9 DEF PcapCompile, PcapFreeCode
<1>10. CASE PcapSetFilter \/ AttachTotal
  <2>1. sf' \notin {"none", "count"} /\ UNCHANGED <<frame, kpos, offset, pc>>
    BY <1>10 DEF PcapSetFilter, AttachTotal
  <2> QED BY <1>4, <2>1 DEF Counted, Guarded
<1>11. CASE InstallFails \/ FixFails \/ AttachFails
  <2>1. sf' = "none" /\ wanted' = None /\ UNCHANGED <<frame, kpos, offset, pc>>
    BY <1>11 DEF InstallFails, FixFails, AttachFails, Fail
  <2> QED BY <1>4, <2>1 DEF Counted, Guarded
<1>12. CASE CannotFilterInKernel \/ AttachRefused
  <2>1. FilterInUserland /\ sf \in {"fix", "attach"}
    BY <1>12 DEF CannotFilterInKernel, AttachRefused
  <2>2. /\ sf' = "none"
        /\ \/ wanted' = None
           \/ wanted' = fcode /\ inherited' = (blocks_to_filter_in_userland > 0)
        /\ UNCHANGED <<frame, kpos, offset, pc, fcode, filter_in_userland,
                       blocks_to_filter_in_userland>>
    BY <2>1 DEF FilterInUserland, Succeed, Fail
  <2>3. filter_in_userland BY <2>1 DEF SetInv
  <2>4. blocks_to_filter_in_userland \in 0..cc BY DEF TypeOK
  <2>5. ~inherited' /\ wanted' # None => blocks_to_filter_in_userland = 0
    <3>1. ~(blocks_to_filter_in_userland > 0) => blocks_to_filter_in_userland = 0
      BY ONLY <1>0, <2>4
    <3> QED BY ONLY <2>2, <3>1, Zenon
  <2> QED BY <1>4, <2>2, <2>3, <2>5 DEF Counted, Guarded
<1>13. CASE AttachNew
  <2>1. /\ kfilter' = fcode /\ sf' = "count" /\ n' = 0 /\ pos' = Place(offset + (cc - 1))
        /\ UNCHANGED <<frame, kpos, offset, pc, cpu, fcode>>
    BY <1>13, Around DEF AttachNew
  <2>2. Reach' = cc - 1 /\ cc - 1 - n' = cc - 1 /\ Missed' = Cardinality(CPUs)
    BY <1>0, <2>1 DEF Reach, Missed
  <2>3. Few(fcode, Reach + 1, Missed, m)'
    <3>1. Stored(fcode, Reach + 1)' = {}
      <4>1. (Reach + 1)' = cc BY <1>0, <2>2
      <4>2. \A i \in Frames : ~(cc <= i) BY <1>0
      <4> QED BY <4>1, <4>2 DEF Stored
    <3>2. Receiving(fcode)' = Receiving(fcode) BY <2>1 DEF Receiving
    <3>3. /\ Cardinality(Receiving(fcode)) \in Nat /\ Cardinality(CPUs) \in Nat
          /\ Cardinality(Receiving(fcode)) <= Cardinality(CPUs)
      BY FiniteParts
    <3>4. Cardinality({}) = 0 BY FS_EmptySet
    <3>5. Cardinality(Receiving(fcode)) + 0 <= Missed' BY <2>2, <3>3
    <3>6. Cardinality(Receiving(fcode)') + Cardinality(Stored(fcode, Reach + 1)') <= Missed'
      BY ONLY <3>1, <3>2, <3>4, <3>5
    <3> QED BY <3>6 DEF Few, AtMost
  <2>4. Counted(m)' BY <1>0, <2>1, <2>2, <2>3 DEF Counted, Place
  <2> QED BY <1>4, <2>1, <2>4 DEF Guarded
<1>14. CASE CountFree
  <2>1. /\ sf = "count" /\ sf' = "count" /\ n < cc /\ n' = n + 1 /\ pos' = (pos - 1) % cc
        /\ frame[pos'] = None
        /\ UNCHANGED <<frame, kpos, offset, pc, cpu, fcode, kfilter>>
    BY <1>14 DEF CountFree
  <2>2. n \in 0..cc BY DEF TypeOK
  <2>3. pos' = Place(offset + (cc - 2 - n))
    <3>1. pos = Place(offset + (cc - 1 - n)) BY <1>1, <2>1 DEF Counted
    <3> QED BY <2>1, <2>2, <3>1, Around
  <2>4. cc - 1 - n' = cc - 2 - n BY <1>0, <2>1, <2>2
  <2>5. kfilter = fcode /\ Few(fcode, Reach + 1, Missed, m) BY <1>1, <2>1 DEF Counted
  <2>6. Cardinality(CPUs) \in Nat /\ Cardinality(CPUs) <= Missed' + 1
    BY FiniteParts DEF Missed
  <2>7. (m < Reach + 1 /\ Stored(fcode, Reach + 1) = {})' \/ UNCHANGED <<Reach, Missed>>
    <3>1. CASE n = cc - 1 /\ n # 0
      <4>1. n' # 0 BY <2>1, <2>2, <3>1
      <4> QED BY <1>0, <2>1, <2>2, <3>1, <4>1 DEF Reach, Missed
    <3>2. CASE ~(n = cc - 1 /\ n # 0)
      <4> DEFINE t == IF n = cc - 1 THEN 0 ELSE cc - 2 - n
      <4>1. t \in Frames /\ Reach' = t BY <1>0, <2>1, <2>2, <3>2 DEF Reach
      <4>2. Place(offset + (cc - 2 - n)) = Place(offset + t)
        BY <1>0, <2>1, <2>2, <3>2 DEF Place, TypeOK, Frames
      <4>3. Ahead(t) = None BY <2>1, <2>3, <4>2 DEF Ahead
      <4>4. m <= t BY <1>0, <1>1, <4>1, <4>3 DEF Full
      <4>5. \A i \in Frames : t + 1 <= i => Ahead(i) = None
        <5>1. ASSUME NEW i \in Frames, t + 1 <= i PROVE ~(i < m) BY <1>0, <4>1, <4>4, <5>1
        <5> QED BY <1>1, <5>1 DEF Full
      <4> HIDE DEF t
      <4>6. Stored(fcode, Reach + 1)' = {}
        BY <1>3, <2>1, <4>1, <4>5 DEF Stored
      <4>7. m < t + 1 BY <1>0, <4>1, <4>4
      <4> QED BY <4>1, <4>6, <4>7
    <3> QED BY <3>1, <3>2
  <2>8. Few(fcode, Reach + 1, Missed, m)'
    <3>1. CASE (m < Reach + 1 /\ Stored(fcode, Reach + 1) = {})'
      BY <2>6, <3>1 DEF Few, AtMost
    <3>2. CASE UNCHANGED <<Reach, Missed>>
      <4>1. Stored(fcode, Reach + 1)' = Stored(fcode, Reach + 1)
        BY <1>3, <2>1, <3>2 DEF Stored
      <4>2. Receiving(fcode)' = Receiving(fcode) BY <2>1 DEF Receiving
      <4> QED BY <2>5, <3>2, <4>1, <4>2 DEF Few, AtMost
    <3> QED BY <2>7, <3>1, <3>2
  <2>9. Counted(m)' BY <2>1, <2>3, <2>4, <2>5, <2>8 DEF Counted, Place
  <2> QED BY <1>4, <2>1, <2>9 DEF Guarded
<1>15. CASE CountDone
  <2>1. /\ sf = "count" /\ sf' = "none" /\ wanted' = fcode /\ filter_in_userland' = TRUE
        /\ blocks_to_filter_in_userland' = cc - (IF n # 0 THEN n - 1 ELSE n)
        /\ spare' = Missed
        /\ UNCHANGED <<frame, kpos, offset, pc, cpu, fcode, kfilter>>
    BY <1>15 DEF CountDone, Succeed, Missed
  <2>2. n \in 0..cc BY DEF TypeOK
  <2> DEFINE d2 == blocks_to_filter_in_userland'
  <2>3. Reach \in Int /\ d2 \in Int /\ Reach + 1 <= d2 /\ m \in Int
    BY <1>0, <2>1, <2>2 DEF Reach
  <2>4. kfilter = fcode /\ Few(fcode, Reach + 1, Missed, m) BY <1>1, <2>1 DEF Counted
  <2>5. AtMost(Receiving(fcode), Stored(fcode, d2), Missed, m < d2)
    <3>1. Stored(fcode, d2) \subseteq Stored(fcode, Reach + 1)
      BY <1>0, <2>3 DEF Stored
    <3>2. /\ IsFiniteSet(Receiving(fcode)) /\ IsFiniteSet(Stored(fcode, Reach + 1))
          /\ Missed \in Int
      BY FiniteParts DEF Missed
    <3>3. /\ IsFiniteSet(Stored(fcode, d2))
          /\ Cardinality(Stored(fcode, d2)) <= Cardinality(Stored(fcode, Reach + 1))
      BY <3>1, <3>2, FS_Subset
    <3>4. m < Reach + 1 => m < d2 BY <2>3
    <3>5. /\ Cardinality(Receiving(fcode)) \in Nat /\ Cardinality(Stored(fcode, d2)) \in Nat
          /\ Cardinality(Stored(fcode, Reach + 1)) \in Nat
      BY <3>2, <3>3, FS_CardinalityType
    <3>6. CASE Cardinality(Receiving(fcode)) + Cardinality(Stored(fcode, Reach + 1)) <= Missed
      <4>1. Cardinality(Receiving(fcode)) + Cardinality(Stored(fcode, d2)) <= Missed
        BY ONLY <3>2, <3>3, <3>5, <3>6
      <4> QED BY <4>1 DEF AtMost
    <3>7. CASE /\ Stored(fcode, Reach + 1) = {} /\ Cardinality(CPUs) <= Missed + 1
               /\ m < Reach + 1
      BY <3>1, <3>4, <3>7 DEF AtMost
    <3> QED BY <2>4, <3>6, <3>7 DEF Few, AtMost
  <2>6. Few(wanted, blocks_to_filter_in_userland, spare, m)'
    <3>1. Receiving(wanted)' = Receiving(fcode) BY <2>1 DEF Receiving
    <3>2. Stored(wanted, blocks_to_filter_in_userland)' = Stored(fcode, d2)
      BY <1>3, <2>1 DEF Stored
    <3>3. AtMost(Receiving(wanted)', Stored(wanted, blocks_to_filter_in_userland)', spare', m < d2)
      BY <2>1, <2>5, <3>1, <3>2
    <3> QED BY <3>3 DEF Few, AtMost
  <2>7. Guarded(m)' BY <2>1, <2>4, <2>6 DEF Guarded
  <2> QED BY <1>4, <2>1, <2>7 DEF Counted
<1>16. CASE UNCHANGED vars BY <1>4, <1>5, <1>6, <1>16 DEF vars
<1> QED
  BY <1>2, <1>7, <1>8, <1>9, <1>10, <1>11, <1>12, <1>13, <1>14, <1>15, <1>16 DEF Next

(* The packet handed to the callback passes the filter that PcapSetFilter last
   reported as set, whichever the kernel used when it stored the packet, but
   for as many as the processors were receiving, or one less: for any kernels,
   processors and sizes of the ring, whatever system calls fail. *)
THEOREM DeliveredPassed == Spec => DeliveredPassFilter
<1> USE FilterAssumption DEF FilterAssumption
<1> DEFINE Passed == pc = "idle" /\ pc' = "callback" /\ wanted # None /\ ~inherited
                       => frame[offset] \in wanted \/ spare > 0
<1>1. Init => SetInv /\ RingInv
  <2> SUFFICES ASSUME Init PROVE SetInv /\ RingInv
    OBVIOUS
  <2>1. SetInv BY DEF Init, SetInv
  <2>2. Full(0)
    <3>1. \A i \in Frames : Place(i) = i BY DEF Frames, Place
    <3>2. \A i \in Frames : Ahead(i) = None /\ ~(i < 0)
      BY <3>1 DEF Init, Ahead, Frames
    <3>3. kpos = Place(offset + 0) BY DEF Init, Place
    <3> QED BY <3>2, <3>3 DEF Init, Full
  <2>3. Counted(0) /\ Guarded(0) BY DEF Init, Counted, Guarded
  <2> QED BY <2>1, <2>2, <2>3 DEF RingInv
<1>2. TypeOK /\ SetInv /\ RingInv /\ [Next]_vars => (SetInv /\ RingInv)'
  BY SetInvNext, RingInvNext
<1>3. TypeOK /\ RingInv /\ [Next]_vars => [Passed]_vars
  <2> SUFFICES ASSUME TypeOK, RingInv, Next, pc = "idle", pc' = "callback", wanted # None,
                      ~inherited
               PROVE  frame[offset] \in wanted \/ spare > 0
    BY DEF Passed
  <2>1. Deliver
    <3>1. pc' # pc OBVIOUS
    <3> QED BY <3>1 DEF Next, KernelFilter, KernelStore, Release, PcapCompile, PcapFreeCode,
       PcapSetFilter, InstallFails, FixFails, CannotFilterInKernel, AttachTotal, AttachRefused,
       FilterInUserland, AttachFails, AttachNew, CountFree, CountDone
  <2>2. PICK m \in 0..cc : Full(m) /\ Guarded(m) BY DEF RingInv
  <2> QED BY <2>1, <2>2, RingDeliver
<1> QED BY <1>1, <1>2, <1>3, FilterTypeCorrect, PTL DEF Spec, DeliveredPassFilter

=============================================================================
