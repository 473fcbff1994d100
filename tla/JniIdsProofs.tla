---------------------------- MODULE JniIdsProofs ----------------------------
(* What JniIds says about the class references and IDs of jni/src/ids.c,    *)
(* for every number of threads, of nested and of successive native calls.   *)
EXTENDS JniIds, TLAPS

-----------------------------------------------------------------------------
(* The programs of the native methods.                                      *)

Before(prog, k, s) == \E j \in 1..(k - 1) : prog[j] = s

(* A class that is found is resolved at once; a loop comes last, and makes
   headers of packets. *)
Shape(prog) == \A k \in 1..Len(prog) :
  /\ prog[k][1] = "find" => k < Len(prog) /\ prog[k + 1] = <<"resolve", prog[k][2]>>
  /\ prog[k][1] = "loop" => k = Len(prog) /\ prog[k][2] = "PcapPktHdr"

(* The classes that are read are in F, or found before. *)
FindsFirst(prog, F) == \A k \in 1..Len(prog) :
  prog[k][1] \in {"resolve", "new", "loop"} =>
    prog[k][2] \in F \/ Before(prog, k, <<"find", prog[k][2]>>)

(* The IDs that are used are those of a class in R, or set before. *)
ResolvesFirst(prog, R) == \A k \in 1..Len(prog) :
  prog[k][1] \in {"use", "new", "loop"} =>
    \/ prog[k][2] \in R
    \/ Before(prog, k, <<"resolve", prog[k][2]>>)
    \/ Before(prog, k, <<"test", prog[k][2]>>)

(* A part of a program that needs the classes F and the IDs R ... *)
Part(prog, F, R) ==
  prog \in Seq(Steps) /\ Shape(prog) /\ FindsFirst(prog, F) /\ ResolvesFirst(prog, R)

WellMade(prog) == Part(prog, {}, {}) /\ prog # <<>>

NoLoop(prog) == \A k \in 1..Len(prog) : prog[k][1] # "loop"

(* ... and one that provides them. *)
Provides(prog, F, R) ==
  /\ WellMade(prog) /\ NoLoop(prog)
  /\ \A c \in F : Contains(prog, <<"find", c>>)
  /\ \A c \in R : Contains(prog, <<"resolve", c>>) \/ Contains(prog, <<"test", c>>)

(* Two sequences of steps, one behind the other. *)
LEMMA Joined ==
  ASSUME NEW p \in Seq(Steps), NEW q \in Seq(Steps)
  PROVE  /\ p \o q \in Seq(Steps) /\ Len(p \o q) = Len(p) + Len(q)
         /\ \A k \in 1..Len(p) : (p \o q)[k] = p[k]
         /\ \A k \in 1..Len(q) : (p \o q)[Len(p) + k] = q[k]
         /\ \A k \in 1..(Len(p) + Len(q)) :
              \/ k \in 1..Len(p)
              \/ k > Len(p) /\ k - Len(p) \in 1..Len(q) /\ (p \o q)[k] = q[k - Len(p)]
         /\ \A s : Contains(p, s) \/ Contains(q, s) => Contains(p \o q, s)
         /\ NoLoop(p) /\ NoLoop(q) => NoLoop(p \o q)
<1>1. p \o q \in Seq(Steps) /\ Len(p \o q) = Len(p) + Len(q) OBVIOUS
<1>2. \A k \in 1..Len(p) : (p \o q)[k] = p[k] OBVIOUS
<1>3. \A k \in 1..Len(q) : (p \o q)[Len(p) + k] = q[k] OBVIOUS
<1>4. ASSUME NEW k \in 1..(Len(p) + Len(q)), k \notin 1..Len(p)
      PROVE  k > Len(p) /\ k - Len(p) \in 1..Len(q) /\ (p \o q)[k] = q[k - Len(p)]
  <2>1. k > Len(p) /\ k - Len(p) \in 1..Len(q) /\ Len(p) + (k - Len(p)) = k BY <1>4
  <2> QED BY <1>3, <2>1
<1>5. ASSUME NEW s, Contains(p, s) \/ Contains(q, s) PROVE Contains(p \o q, s)
  <2>1. CASE Contains(p, s)
    <3>1. PICK i \in 1..Len(p) : p[i] = s BY <2>1 DEF Contains
    <3>2. i \in 1..(Len(p) + Len(q)) OBVIOUS
    <3> QED BY <1>1, <1>2, <3>1, <3>2 DEF Contains
  <2>2. CASE Contains(q, s)
    <3>1. PICK i \in 1..Len(q) : q[i] = s BY <2>2 DEF Contains
    <3>2. Len(p) + i \in 1..(Len(p) + Len(q)) OBVIOUS
    <3> QED BY <1>1, <1>3, <3>1, <3>2 DEF Contains
  <2> QED BY <1>5, <2>1, <2>2
<1>6. NoLoop(p) /\ NoLoop(q) => NoLoop(p \o q) BY <1>1, <1>2, <1>4 DEF NoLoop
<1> QED BY <1>1, <1>2, <1>3, <1>4, <1>5, <1>6

(* What a part needs is there before, or the program before it provides it. *)
LEMMA PartAppended ==
  ASSUME NEW p, NEW q, NEW F, NEW R, NEW X, NEW Y,
         Provides(p, F, R), Part(q, F \cup X, R \cup Y)
  PROVE  Part(p \o q, X, Y) /\ p \o q # <<>>
<1>0. p \in Seq(Steps) /\ q \in Seq(Steps) /\ p # <<>> BY DEF Provides, WellMade, Part
<1> DEFINE r == p \o q
<1>1. /\ r \in Seq(Steps) /\ Len(r) = Len(p) + Len(q) /\ Len(p) \in Nat /\ Len(q) \in Nat
      /\ \A k \in 1..Len(p) : r[k] = p[k]
      /\ \A k \in 1..(Len(p) + Len(q)) :
              k \in 1..Len(p) \/ (k > Len(p) /\ k - Len(p) \in 1..Len(q) /\ r[k] = q[k - Len(p)])
      /\ \A k \in 1..Len(q) : r[Len(p) + k] = q[k]
  BY <1>0, Joined
<1>2. r # <<>> BY <1>0
<1> HIDE DEF r
<1>3. Shape(r)
  <2> SUFFICES ASSUME NEW k \in 1..Len(r)
               PROVE  /\ r[k][1] = "find" => k < Len(r) /\ r[k + 1] = <<"resolve", r[k][2]>>
                      /\ r[k][1] = "loop" => k = Len(r) /\ r[k][2] = "PcapPktHdr"
    BY DEF Shape
  <2>1. CASE k \in 1..Len(p)
    <3>1. r[k] = p[k] /\ p[k][1] # "loop" BY <1>1, <2>1 DEF Provides, NoLoop
    <3>2. p[k][1] = "find" => k < Len(p) /\ p[k + 1] = <<"resolve", p[k][2]>>
      BY <2>1 DEF Provides, WellMade, Part, Shape
    <3>3. k < Len(p) => r[k + 1] = p[k + 1] BY <1>1, <2>1
    <3> QED BY <1>1, <3>1, <3>2, <3>3
  <2>2. CASE k \notin 1..Len(p)
    <3> DEFINE i == k - Len(p)
    <3>1. i \in 1..Len(q) /\ r[k] = q[i] /\ k = Len(p) + i BY <1>1, <2>2
    <3>2. i < Len(q) => i + 1 \in 1..Len(q) /\ Len(p) + (i + 1) = k + 1 BY <1>1, <3>1
    <3>3. i < Len(q) => r[k + 1] = q[i + 1] BY <1>1, <3>2
    <3>4. /\ q[i][1] = "find" => i < Len(q) /\ q[i + 1] = <<"resolve", q[i][2]>>
          /\ q[i][1] = "loop" => i = Len(q) /\ q[i][2] = "PcapPktHdr"
      BY <3>1 DEF Part, Shape
    <3> QED BY <1>1, <3>1, <3>3, <3>4
  <2> QED BY <2>1, <2>2
<1>4. ASSUME NEW k \in 1..Len(p), NEW s, Before(p, k, s) PROVE Before(r, k, s)
  <2>1. PICK j \in 1..(k - 1) : p[j] = s BY <1>4 DEF Before
  <2>2. j \in 1..Len(p) OBVIOUS
  <2> QED BY <1>1, <2>1, <2>2 DEF Before
<1>5. ASSUME NEW k \in 1..Len(r), k \notin 1..Len(p), NEW s,
             Before(q, k - Len(p), s) \/ Contains(p, s)
      PROVE  Before(r, k, s)
  <2>1. CASE Contains(p, s)
    <3>1. PICK j \in 1..Len(p) : p[j] = s BY <2>1 DEF Contains
    <3>2. j \in 1..(k - 1) BY <1>1, <1>5
    <3> QED BY <1>1, <3>1, <3>2 DEF Before
  <2>2. CASE Before(q, k - Len(p), s)
    <3>1. PICK j \in 1..((k - Len(p)) - 1) : q[j] = s BY <2>2 DEF Before
    <3>2. j \in 1..Len(q) /\ Len(p) + j \in 1..(k - 1) BY <1>1, <1>5
    <3> QED BY <1>1, <3>1, <3>2 DEF Before
  <2> QED BY <1>5, <2>1, <2>2
<1>6. FindsFirst(r, X)
  <2> SUFFICES ASSUME NEW k \in 1..Len(r), r[k][1] \in {"resolve", "new", "loop"}
               PROVE  r[k][2] \in X \/ Before(r, k, <<"find", r[k][2]>>)
    BY DEF FindsFirst
  <2>1. CASE k \in 1..Len(p)
    <3>1. Before(p, k, <<"find", p[k][2]>>)
      BY <1>1, <2>1 DEF Provides, WellMade, Part, FindsFirst
    <3> QED BY <1>1, <1>4, <2>1, <3>1
  <2>2. CASE k \notin 1..Len(p)
    <3>1. k - Len(p) \in 1..Len(q) /\ r[k] = q[k - Len(p)] BY <1>1, <2>2
    <3>2. r[k][2] \in F \cup X \/ Before(q, k - Len(p), <<"find", r[k][2]>>)
      BY <3>1 DEF Part, FindsFirst
    <3>3. r[k][2] \in F => Contains(p, <<"find", r[k][2]>>) BY DEF Provides
    <3> QED BY <1>5, <2>2, <3>2, <3>3
  <2> QED BY <2>1, <2>2
<1>7. ResolvesFirst(r, Y)
  <2> SUFFICES ASSUME NEW k \in 1..Len(r), r[k][1] \in {"use", "new", "loop"}
               PROVE  \/ r[k][2] \in Y
                      \/ Before(r, k, <<"resolve", r[k][2]>>) \/ Before(r, k, <<"test", r[k][2]>>)
    BY DEF ResolvesFirst
  <2>1. CASE k \in 1..Len(p)
    <3>1. Before(p, k, <<"resolve", p[k][2]>>) \/ Before(p, k, <<"test", p[k][2]>>)
      BY <1>1, <2>1 DEF Provides, WellMade, Part, ResolvesFirst
    <3> QED BY <1>1, <1>4, <2>1, <3>1
  <2>2. CASE k \notin 1..Len(p)
    <3>1. k - Len(p) \in 1..Len(q) /\ r[k] = q[k - Len(p)] BY <1>1, <2>2
    <3>2. \/ r[k][2] \in R \cup Y
          \/ Before(q, k - Len(p), <<"resolve", r[k][2]>>)
          \/ Before(q, k - Len(p), <<"test", r[k][2]>>)
      BY <3>1 DEF Part, ResolvesFirst
    <3>3. r[k][2] \in R =>
            Contains(p, <<"resolve", r[k][2]>>) \/ Contains(p, <<"test", r[k][2]>>)
      BY DEF Provides
    <3> QED BY <1>5, <2>2, <3>2, <3>3
  <2> QED BY <2>1, <2>2
<1>8. Part(r, X, Y) BY <1>1, <1>3, <1>6, <1>7 DEF Part
<1> QED BY <1>2, <1>8 DEF r

(* A program stays well made when steps follow that need what it provides. *)
LEMMA PartJoined ==
  ASSUME NEW p, NEW q, NEW F, NEW R, Provides(p, F, R), Part(q, F, R)
  PROVE  WellMade(p \o q)
<1>1. Part(q, F \cup {}, R \cup {}) BY DEF Part, FindsFirst, ResolvesFirst
<1> QED BY <1>1, PartAppended DEF WellMade

(* Programs one behind the other provide what both of them do. *)
LEMMA ProvidesJoined ==
  ASSUME NEW p, NEW q, NEW F, NEW R, NEW G, NEW S, Provides(p, F, R), Provides(q, G, S)
  PROVE  Provides(p \o q, F \cup G, R \cup S)
<1>0. p \in Seq(Steps) /\ q \in Seq(Steps) BY DEF Provides, WellMade, Part
<1>1. Provides(p, {}, {}) /\ Part(q, {}, {}) BY DEF Provides, WellMade
<1>2. WellMade(p \o q) BY <1>1, PartJoined
<1>3. NoLoop(p \o q) BY <1>0, Joined DEF Provides
<1>4. \A s : Contains(p, s) \/ Contains(q, s) => Contains(p \o q, s) BY <1>0, Joined
<1> QED BY <1>2, <1>3, <1>4 DEF Provides

(* Steps that only use what there is take nothing away. *)
LEMMA UserJoined ==
  ASSUME NEW p, NEW q, NEW F, NEW R, Provides(p, F, R), Part(q, F, R), NoLoop(q)
  PROVE  Provides(p \o q, F, R)
<1>0. p \in Seq(Steps) /\ q \in Seq(Steps) BY DEF Provides, WellMade, Part
<1>2. WellMade(p \o q) BY PartJoined
<1>3. NoLoop(p \o q) BY <1>0, Joined DEF Provides
<1>4. \A s : Contains(p, s) => Contains(p \o q, s) BY <1>0, Joined
<1> QED BY <1>2, <1>3, <1>4 DEF Provides

(* The parts that the programs are made of. *)
LEMMA Parts ==
  /\ \A c \in Classes :
       /\ Provides(SetIDs(c), {c}, {c})
       /\ Provides(<<<<"test", c>>>>, {}, {c})
       /\ Part(Use(c), {}, {c}) /\ NoLoop(Use(c))
       /\ Part(<<<<"new", c>>>>, {c}, {c})
       /\ Part(<<<<"new", c>>, <<"use", c>>>>, {c}, {c})
       /\ NoLoop(<<<<"new", c>>, <<"use", c>>>>)
  /\ Part(<<<<"loop", "PcapPktHdr">>>>, {"PcapPktHdr"}, {"PcapPktHdr"})
<1>1. ASSUME NEW c \in Classes PROVE Provides(SetIDs(c), {c}, {c})
  <2> DEFINE s == <<<<"find", c>>, <<"resolve", c>>>>
  <2>1. s \in Seq(Steps) /\ s # <<>> /\ Len(s) = 2 BY DEF Steps
  <2>2. s[1] = <<"find", c>> /\ s[2] = <<"resolve", c>> OBVIOUS
  <2>3. 1..Len(s) = {1, 2} /\ 1 \in 1..(2 - 1) BY <2>1
  <2> HIDE DEF s
  <2>4. Shape(s) BY <2>1, <2>2, <2>3 DEF Shape
  <2>5. FindsFirst(s, {}) BY <2>1, <2>2, <2>3 DEF FindsFirst, Before
  <2>6. ResolvesFirst(s, {}) BY <2>1, <2>2, <2>3 DEF ResolvesFirst
  <2>7. NoLoop(s) BY <2>1, <2>2, <2>3 DEF NoLoop
  <2>8. Contains(s, <<"find", c>>) /\ Contains(s, <<"resolve", c>>)
    BY <2>2, <2>3 DEF Contains
  <2>9. Provides(s, {c}, {c})
    BY <2>1, <2>4, <2>5, <2>6, <2>7, <2>8 DEF Provides, WellMade, Part
  <2> QED BY <2>9 DEF s, SetIDs
<1>2. ASSUME NEW c \in Classes PROVE Provides(<<<<"test", c>>>>, {}, {c})
  <2> DEFINE s == <<<<"test", c>>>>
  <2>1. s \in Seq(Steps) /\ s # <<>> /\ Len(s) = 1 BY DEF Steps
  <2>2. s[1] = <<"test", c>> /\ 1..Len(s) = {1} BY <2>1
  <2> HIDE DEF s
  <2>3. Shape(s) /\ FindsFirst(s, {}) /\ ResolvesFirst(s, {}) /\ NoLoop(s)
    BY <2>2 DEF Shape, FindsFirst, ResolvesFirst, NoLoop
  <2>4. Contains(s, <<"test", c>>) BY <2>2 DEF Contains
  <2>5. Provides(s, {}, {c}) BY <2>1, <2>3, <2>4 DEF Provides, WellMade, Part
  <2> QED BY <2>5 DEF s
<1>3. ASSUME NEW c \in Classes PROVE Part(Use(c), {}, {c}) /\ NoLoop(Use(c))
  <2> DEFINE s == <<<<"use", c>>>>
  <2>1. s \in Seq(Steps) /\ Len(s) = 1 BY DEF Steps
  <2>2. s[1] = <<"use", c>> /\ 1..Len(s) = {1} BY <2>1
  <2> HIDE DEF s
  <2>3. Shape(s) /\ FindsFirst(s, {}) /\ ResolvesFirst(s, {c}) /\ NoLoop(s)
    BY <2>2 DEF Shape, FindsFirst, ResolvesFirst, NoLoop
  <2>4. Part(s, {}, {c}) BY <2>1, <2>3 DEF Part
  <2> QED BY <2>3, <2>4 DEF s, Use
<1>4. ASSUME NEW c \in Classes PROVE Part(<<<<"new", c>>>>, {c}, {c})
  <2> DEFINE s == <<<<"new", c>>>>
  <2>1. s \in Seq(Steps) /\ Len(s) = 1 BY DEF Steps
  <2>2. s[1] = <<"new", c>> /\ 1..Len(s) = {1} BY <2>1
  <2> HIDE DEF s
  <2>3. Shape(s) /\ FindsFirst(s, {c}) /\ ResolvesFirst(s, {c})
    BY <2>2 DEF Shape, FindsFirst, ResolvesFirst
  <2>4. Part(s, {c}, {c}) BY <2>1, <2>3 DEF Part
  <2> QED BY <2>4 DEF s
<1>5. ASSUME NEW c \in Classes
      PROVE  /\ Part(<<<<"new", c>>, <<"use", c>>>>, {c}, {c})
             /\ NoLoop(<<<<"new", c>>, <<"use", c>>>>)
  <2> DEFINE s == <<<<"new", c>>, <<"use", c>>>>
  <2>1. s \in Seq(Steps) /\ Len(s) = 2 BY DEF Steps
  <2>2. s[1] = <<"new", c>> /\ s[2] = <<"use", c>> /\ 1..Len(s) = {1, 2} BY <2>1
  <2> HIDE DEF s
  <2>3. Shape(s) /\ FindsFirst(s, {c}) /\ ResolvesFirst(s, {c}) /\ NoLoop(s)
    BY <2>2 DEF Shape, FindsFirst, ResolvesFirst, NoLoop
  <2>4. Part(s, {c}, {c}) BY <2>1, <2>3 DEF Part
  <2> QED BY <2>3, <2>4 DEF s
<1>6. Part(<<<<"loop", "PcapPktHdr">>>>, {"PcapPktHdr"}, {"PcapPktHdr"})
  <2> DEFINE s == <<<<"loop", "PcapPktHdr">>>>
  <2>1. s \in Seq(Steps) /\ Len(s) = 1 BY DEF Steps, Classes
  <2>2. s[1] = <<"loop", "PcapPktHdr">> /\ 1..Len(s) = {1} BY <2>1
  <2> HIDE DEF s
  <2>3. Shape(s) /\ FindsFirst(s, {"PcapPktHdr"}) /\ ResolvesFirst(s, {"PcapPktHdr"})
    BY <2>1, <2>2 DEF Shape, FindsFirst, ResolvesFirst
  <2>4. Part(s, {"PcapPktHdr"}, {"PcapPktHdr"}) BY <2>1, <2>3 DEF Part
  <2> QED BY <2>4 DEF s
<1> QED BY <1>1, <1>2, <1>3, <1>4, <1>5, <1>6

(* What provides more provides less. *)
LEMMA ProvidesLess ==
  ASSUME NEW p, NEW F, NEW R, Provides(p, F, R), NEW G \in SUBSET F, NEW S \in SUBSET R
  PROVE  Provides(p, G, S)
BY DEF Provides

(* A class is set and an ID of it used. *)
LEMMA Getters ==
  ASSUME NEW c \in Classes
  PROVE  /\ Provides(SetIDs(c) \o Use(c), {}, {c})
         /\ Provides(SetIDs(c) \o <<<<"new", c>>, <<"use", c>>>>, {c}, {c})
<1>1. Provides(SetIDs(c), {c}, {c}) BY Parts
<1>2. Provides(SetIDs(c), {}, {c}) BY <1>1, ProvidesLess
<1>3. Part(Use(c), {}, {c}) /\ NoLoop(Use(c)) BY Parts
<1>4. Provides(SetIDs(c) \o Use(c), {}, {c}) BY <1>2, <1>3, UserJoined
<1>5. Provides(SetIDs(c) \o <<<<"new", c>>, <<"use", c>>>>, {c}, {c})
  BY <1>1, Parts, UserJoined
<1> QED BY <1>4, <1>5

(* A program that provides anything is well made. *)
LEMMA WellMadeIfProvides ==
  ASSUME NEW p, NEW F, NEW R, Provides(p, F, R) PROVE WellMade(p)
BY DEF Provides

(* Every native method runs a program of this kind. *)
LEMMA NativeCalls ==
  ASSUME NEW t \in Threads,
         \/ PcapDataLink(t) \/ PcapOpenLive(t) \/ PcapLoop(t) \/ PcapDumpOpen(t)
         \/ PcapDumpFlush(t) \/ PcapDump(t) \/ PcapNext(t) \/ PcapNextEx(t)
         \/ PcapSetFilter(t) \/ PcapFreeCode(t) \/ PcapStats(t) \/ PcapSetDirection(t)
         \/ PcapLookupNet(t) \/ PcapLookupDev(t) \/ PcapFindAllDevs(t) \/ fromNicName(t)
  PROVE  \E prog : WellMade(prog) /\ ClientCalls(t, prog)
<1>0. \A c \in {"Pcap", "PcapDumper", "PcapPktHdr", "BpfProgram", "ByteBuffer", "List",
                "PcapIf", "PcapAddr", "SockAddr", "StringBuilder", "PcapStat",
                "Inet4Address", "PcapDirection", "MacAddress"} : c \in Classes
  BY DEF Classes
<1>1. /\ Provides(GetPcap, {}, {"Pcap"}) /\ Provides(GetPcapDumper, {}, {"PcapDumper"})
      /\ Provides(GetBpfProgram, {}, {"BpfProgram"})
      /\ Provides(SetStringBuilder, {}, {"StringBuilder"})
      /\ Provides(SetPcap, {"Pcap"}, {"Pcap"})
      /\ Provides(SetPcapDumper, {"PcapDumper"}, {"PcapDumper"})
  BY <1>0, Getters DEF GetPcap, GetPcapDumper, GetBpfProgram, SetStringBuilder, SetPcap,
                       SetPcapDumper
<1>2. CASE PcapDataLink(t) BY <1>1, <1>2, WellMadeIfProvides DEF PcapDataLink
<1>3. CASE PcapOpenLive(t) BY <1>1, <1>3, WellMadeIfProvides DEF PcapOpenLive
<1>4. CASE PcapLoop(t)
  <2> DEFINE r == SetIDs("PcapPktHdr") \o GetPcap
  <2>1. Provides(SetIDs("PcapPktHdr"), {"PcapPktHdr"}, {"PcapPktHdr"}) BY <1>0, Parts
  <2>2. Provides(r, {"PcapPktHdr"} \cup {}, {"PcapPktHdr"} \cup {"Pcap"})
    BY <1>1, <2>1, ProvidesJoined
  <2>3. Provides(r, {"PcapPktHdr"}, {"PcapPktHdr"})
    BY <2>2, ProvidesLess
  <2>4. WellMade(r \o <<<<"loop", "PcapPktHdr">>>>) BY <2>3, Parts, PartJoined
  <2> QED BY <1>4, <2>4 DEF PcapLoop
<1>5. CASE PcapDumpOpen(t)
  <2>1. Provides(GetPcap \o SetPcapDumper, {} \cup {"PcapDumper"}, {"Pcap"} \cup {"PcapDumper"})
    BY <1>1, ProvidesJoined
  <2> QED BY <1>5, <2>1, WellMadeIfProvides DEF PcapDumpOpen
<1>6. CASE PcapDumpFlush(t) BY <1>1, <1>6, WellMadeIfProvides DEF PcapDumpFlush
<1>7. CASE PcapDump(t)
  <2> DEFINE r == SetIDs("PcapPktHdr") \o GetPcapDumper
  <2>1. Provides(SetIDs("PcapPktHdr"), {"PcapPktHdr"}, {"PcapPktHdr"}) BY <1>0, Parts
  <2>2. Provides(r, {"PcapPktHdr"} \cup {}, {"PcapPktHdr"} \cup {"PcapDumper"})
    BY <1>1, <2>1, ProvidesJoined
  <2>3. Provides(r, {}, {"PcapPktHdr"}) BY <2>2, ProvidesLess
  <2>4. WellMade(r \o Use("PcapPktHdr")) BY <1>0, <2>3, Parts, PartJoined
  <2> QED BY <1>7, <2>4 DEF PcapDump
<1>8. CASE PcapNext(t)
  <2> DEFINE r == GetPcap \o <<<<"test", "PcapPktHdr">>>>
  <2>1. Provides(<<<<"test", "PcapPktHdr">>>>, {}, {"PcapPktHdr"}) BY <1>0, Parts
  <2>2. Provides(r, {} \cup {}, {"Pcap"} \cup {"PcapPktHdr"}) BY <1>1, <2>1, ProvidesJoined
  <2>3. Provides(r, {}, {"PcapPktHdr"}) BY <2>2, ProvidesLess
  <2>4. WellMade(r \o Use("PcapPktHdr")) BY <1>0, <2>3, Parts, PartJoined
  <2> QED BY <1>8, <2>4 DEF PcapNext
<1>9. CASE PcapNextEx(t)
  <2> DEFINE tests == <<<<"test", "PcapPktHdr">>, <<"test", "ByteBuffer">>>>
             r == GetPcap \o tests
  <2>1. /\ Provides(<<<<"test", "PcapPktHdr">>>>, {}, {"PcapPktHdr"})
        /\ Provides(<<<<"test", "ByteBuffer">>>>, {}, {"ByteBuffer"})
    BY <1>0, Parts
  <2>2. tests = <<<<"test", "PcapPktHdr">>>> \o <<<<"test", "ByteBuffer">>>> OBVIOUS
  <2> HIDE DEF tests
  <2>3. Provides(tests, {} \cup {}, {"PcapPktHdr"} \cup {"ByteBuffer"})
    BY <2>1, <2>2, ProvidesJoined
  <2>4. Provides(r, {} \cup ({} \cup {}), {"Pcap"} \cup ({"PcapPktHdr"} \cup {"ByteBuffer"}))
    BY <1>1, <2>3, ProvidesJoined
  <2>5. Provides(r, {}, {"PcapPktHdr"}) /\ Provides(r, {}, {"ByteBuffer"})
    BY <2>4, ProvidesLess
  <2>6. Provides(r \o Use("ByteBuffer"), {}, {"ByteBuffer"})
    BY <1>0, <2>5, Parts, UserJoined
  <2>7. Provides(r \o Use("ByteBuffer"), {}, {"PcapPktHdr"})
    <3>1. r \in Seq(Steps) /\ Use("ByteBuffer") \in Seq(Steps)
      BY <1>0, <2>5, Parts DEF Provides, WellMade, Part
    <3>2. \A s : Contains(r, s) => Contains(r \o Use("ByteBuffer"), s) BY <3>1, Joined
    <3> QED BY <2>5, <2>6, <3>2 DEF Provides
  <2>8. WellMade((r \o Use("ByteBuffer")) \o Use("PcapPktHdr"))
    BY <1>0, <2>7, Parts, PartJoined
  <2> QED BY <1>9, <2>8 DEF PcapNextEx, tests
<1>10. CASE PcapSetFilter(t)
  <2>1. Provides(GetPcap \o GetBpfProgram, {} \cup {}, {"Pcap"} \cup {"BpfProgram"})
    BY <1>1, ProvidesJoined
  <2> QED BY <1>10, <2>1, WellMadeIfProvides DEF PcapSetFilter
<1>11. CASE PcapFreeCode(t) BY <1>1, <1>11, WellMadeIfProvides DEF PcapFreeCode
<1>12. CASE PcapStats(t)
  <2> DEFINE r == SetIDs("PcapStat") \o GetPcap
  <2>1. Provides(SetIDs("PcapStat"), {"PcapStat"}, {"PcapStat"}) BY <1>0, Parts
  <2>2. Provides(r, {"PcapStat"} \cup {}, {"PcapStat"} \cup {"Pcap"})
    BY <1>1, <2>1, ProvidesJoined
  <2>3. Provides(r, {}, {"PcapStat"}) BY <2>2, ProvidesLess
  <2>4. WellMade(r \o Use("PcapStat")) BY <1>0, <2>3, Parts, PartJoined
  <2> QED BY <1>12, <2>4 DEF PcapStats
<1>13. CASE PcapSetDirection(t)
  <2> DEFINE r == SetIDs("PcapDirection") \o Use("PcapDirection")
  <2>1. Provides(r, {}, {"PcapDirection"}) BY <1>0, Getters
  <2>2. Provides(r \o GetPcap, {} \cup {}, {"PcapDirection"} \cup {"Pcap"})
    BY <1>1, <2>1, ProvidesJoined
  <2> QED BY <1>13, <2>2, WellMadeIfProvides DEF PcapSetDirection
<1>14. CASE PcapLookupNet(t)
  <2> DEFINE r == SetStringBuilder \o SetIDs("Inet4Address")
  <2>1. Provides(SetIDs("Inet4Address"), {"Inet4Address"}, {"Inet4Address"}) BY <1>0, Parts
  <2>2. Provides(r, {} \cup {"Inet4Address"}, {"StringBuilder"} \cup {"Inet4Address"})
    BY <1>1, <2>1, ProvidesJoined
  <2>3. Provides(r, {}, {"Inet4Address"}) BY <2>2, ProvidesLess
  <2>4. WellMade(r \o Use("Inet4Address")) BY <1>0, <2>3, Parts, PartJoined
  <2> QED BY <1>14, <2>4 DEF PcapLookupNet
<1>15. CASE PcapLookupDev(t)
  <2>1. Provides(SetIDs("StringBuilder"), {"StringBuilder"}, {"StringBuilder"})
    BY <1>0, Parts
  <2>2. Provides(SetIDs("StringBuilder") \o SetStringBuilder, {"StringBuilder"} \cup {},
                 {"StringBuilder"} \cup {"StringBuilder"})
    BY <1>1, <2>1, ProvidesJoined
  <2> QED BY <1>15, <2>1, <2>2, WellMadeIfProvides DEF PcapLookupDev
<1>16. CASE PcapFindAllDevs(t)
  <2> DEFINE q == <<<<"new", "PcapIf">>, <<"new", "PcapAddr">>, <<"new", "SockAddr">>,
                    <<"use", "List">>>>
             A == {"List", "PcapIf", "PcapAddr", "SockAddr"}
             r == SetIDs("List") \o SetIDs("PcapIf") \o SetIDs("PcapAddr") \o SetIDs("SockAddr")
  <2>1. Provides(r, A, A)
    <3>1. /\ Provides(SetIDs("List"), {"List"}, {"List"})
          /\ Provides(SetIDs("PcapIf"), {"PcapIf"}, {"PcapIf"})
          /\ Provides(SetIDs("PcapAddr"), {"PcapAddr"}, {"PcapAddr"})
          /\ Provides(SetIDs("SockAddr"), {"SockAddr"}, {"SockAddr"})
      BY <1>0, Parts
    <3> DEFINE B == {"List"} \cup {"PcapIf"}
               C == B \cup {"PcapAddr"}
    <3>2. Provides(SetIDs("List") \o SetIDs("PcapIf"), B, B) BY <3>1, ProvidesJoined
    <3> HIDE DEF B
    <3>3. Provides(SetIDs("List") \o SetIDs("PcapIf") \o SetIDs("PcapAddr"), C, C)
      BY <3>1, <3>2, ProvidesJoined
    <3> HIDE DEF C
    <3>4. Provides(r, C \cup {"SockAddr"}, C \cup {"SockAddr"})
      BY <3>1, <3>3, ProvidesJoined
    <3>5. C \cup {"SockAddr"} = A BY DEF B, C
    <3> QED BY <3>4, <3>5
  <2>2. Part(q, A, A)
    <3>1. q \in Seq(Steps) /\ Len(q) = 4 BY <1>0 DEF Steps
    <3>2. /\ q[1] = <<"new", "PcapIf">> /\ q[2] = <<"new", "PcapAddr">>
          /\ q[3] = <<"new", "SockAddr">> /\ q[4] = <<"use", "List">>
          /\ 1..Len(q) = {1, 2, 3, 4}
      BY <3>1
    <3> HIDE DEF q
    <3>3. Shape(q) BY <3>2 DEF Shape
    <3>4. FindsFirst(q, A) BY <3>2 DEF FindsFirst
    <3>5. ResolvesFirst(q, A) BY <3>2 DEF ResolvesFirst
    <3> QED BY <3>1, <3>3, <3>4, <3>5 DEF Part
  <2>3. WellMade(r \o q) BY <2>1, <2>2, PartJoined
  <2>4. Provides(r \o SetStringBuilder, A \cup {}, A \cup {"StringBuilder"})
    BY <1>1, <2>1, ProvidesJoined
  <2>5. WellMade(r \o SetStringBuilder) BY <2>4, WellMadeIfProvides
  <2> HIDE DEF A
  <2> QED BY <1>16, <2>3, <2>5 DEF PcapFindAllDevs
<1>17. CASE fromNicName(t)
  <2>1. Provides(SetIDs("MacAddress"), {"MacAddress"}, {"MacAddress"}) BY <1>0, Parts
  <2>2. Part(<<<<"new", "MacAddress">>>>, {"MacAddress"}, {"MacAddress"}) BY <1>0, Parts
  <2>3. WellMade(SetIDs("MacAddress") \o <<<<"new", "MacAddress">>>>)
    BY <2>1, <2>2, PartJoined
  <2> QED BY <1>17, <2>3 DEF fromNicName
<1> QED
  BY <1>2, <1>3, <1>4, <1>5, <1>6, <1>7, <1>8, <1>9, <1>10, <1>11, <1>12, <1>13, <1>14,
     <1>15, <1>16, <1>17

-----------------------------------------------------------------------------
(* The stacks.                                                              *)

Frame == [id : Nat, java : BOOLEAN, prog : Seq(Steps)]

Typed ==
  /\ cls \in [Classes -> 0..calls]
  /\ ids \in [Classes -> BOOLEAN]
  /\ calls \in 0..MaxCalls
  /\ stack \in [Threads -> Seq(Frame)]
  /\ \A t \in Threads :
       /\ Len(stack[t]) <= MaxDepth
       /\ \A i \in 1..Len(stack[t]) : stack[t][i].id \in 1..calls /\ stack[t][i].prog # <<>>

(* The types, as the proof has them, are those of the model. *)
LEMMA TypedIsTypeOK == Typed => TypeOK
<1> SUFFICES ASSUME Typed PROVE TypeOK
  OBVIOUS
<1>1. ASSUME NEW t \in Threads, NEW i \in DOMAIN stack[t]
      PROVE  /\ stack[t][i].id \in 1..calls
             /\ stack[t][i].java \in BOOLEAN
             /\ stack[t][i].prog # <<>> /\ \A s \in ToSet(stack[t][i].prog) : s \in Steps
  <2>1. stack[t] \in Seq(Frame) /\ i \in 1..Len(stack[t]) BY <1>1 DEF Typed
  <2>2. stack[t][i] \in Frame BY <2>1
  <2>3. stack[t][i].java \in BOOLEAN /\ stack[t][i].prog \in Seq(Steps) BY <2>2 DEF Frame
  <2>4. \A s \in ToSet(stack[t][i].prog) : s \in Steps BY <2>3 DEF ToSet
  <2> QED BY <2>1, <2>3, <2>4 DEF Typed
<1> QED BY <1>1 DEF Typed, TypeOK

(* The innermost method of a thread in native code. *)
LEMMA Innermost ==
  ASSUME Typed, NEW t \in Threads, ~InJava(t)
  PROVE  /\ stack[t] \in Seq(Frame) /\ Len(stack[t]) \in Nat \ {0} /\ stack[t] # <<>>
         /\ Last(stack[t]) = stack[t][Len(stack[t])] /\ Last(stack[t]) \in Frame
         /\ ~Last(stack[t]).java /\ Last(stack[t]).id \in Nat \ {0}
         /\ Last(stack[t]).prog \in Seq(Steps) /\ Last(stack[t]).prog # <<>>
         /\ Len(Last(stack[t]).prog) \in Nat \ {0}
         /\ AtStep(t) = Last(stack[t]).prog[1] /\ AtStep(t) \in Steps
<1>1. stack[t] \in Seq(Frame) /\ stack[t] # <<>> /\ ~Last(stack[t]).java
  BY DEF Typed, InJava
<1>2. Len(stack[t]) \in Nat \ {0} BY <1>1
<1>3. Last(stack[t]) = stack[t][Len(stack[t])] /\ Last(stack[t]) \in Frame
  BY <1>1, <1>2 DEF Last
<1>4. /\ Last(stack[t]).id \in 1..calls /\ calls \in Nat /\ Last(stack[t]).prog # <<>>
      /\ Last(stack[t]).prog \in Seq(Steps)
  BY <1>2, <1>3, JniAssumption DEF Typed, Frame, JniAssumption
<1>5. Len(Last(stack[t]).prog) \in Nat \ {0} BY <1>4
<1>6. AtStep(t) = Last(stack[t]).prog[1] /\ AtStep(t) \in Steps BY <1>4, <1>5 DEF AtStep
<1> QED BY <1>1, <1>2, <1>3, <1>4, <1>5, <1>6

(* What remains of it becomes q; with nothing left it returns. *)
Advanced(t, q) ==
  /\ \A u \in Threads : u # t => stack'[u] = stack[u]
  /\ q = <<>> => Len(stack'[t]) = Len(stack[t]) - 1
  /\ q # <<>> => /\ Len(stack'[t]) = Len(stack[t])
                 /\ stack'[t][Len(stack[t])].id = Last(stack[t]).id
                 /\ ~stack'[t][Len(stack[t])].java
                 /\ stack'[t][Len(stack[t])].prog = q
  /\ \A i \in 1..(Len(stack[t]) - 1) : stack'[t][i] = stack[t][i]

(* Replacing the rest of the innermost program is what Advanced says. *)
LEMMA AdvancedByStep ==
  ASSUME Typed, NEW t \in Threads, ~InJava(t), NEW q \in Seq(Steps),
         stack' = [stack EXCEPT ![t] = Frames(t, q)]
  PROVE  stack' \in [Threads -> Seq(Frame)] /\ Advanced(t, q)
<1> DEFINE L == Len(stack[t])
<1>1. /\ stack[t] \in Seq(Frame) /\ L \in Nat \ {0} /\ Last(stack[t]) = stack[t][L]
      /\ stack[t][L] \in Frame /\ ~stack[t][L].java
  BY Innermost
<1>2. stack \in [Threads -> Seq(Frame)] BY DEF Typed
<1>3. stack'[t] = Frames(t, q) /\ \A u \in Threads : u # t => stack'[u] = stack[u] BY <1>2
<1>4. CASE q = <<>>
  <2>1. Frames(t, q) = SubSeq(stack[t], 1, L - 1) BY <1>4 DEF Frames, Front
  <2>2. /\ SubSeq(stack[t], 1, L - 1) \in Seq(Frame)
        /\ Len(SubSeq(stack[t], 1, L - 1)) = L - 1
        /\ \A i \in 1..(L - 1) : SubSeq(stack[t], 1, L - 1)[i] = stack[t][i]
    BY <1>1
  <2>3. stack' \in [Threads -> Seq(Frame)] BY <1>2, <2>1, <2>2
  <2> QED BY <1>3, <1>4, <2>1, <2>2, <2>3 DEF Advanced
<1>5. CASE q # <<>>
  <2> DEFINE f == [stack[t][L] EXCEPT !.prog = q]
  <2>1. f \in Frame /\ f.id = stack[t][L].id /\ ~f.java /\ f.prog = q BY <1>1 DEF Frame
  <2> HIDE DEF f
  <2>2. Frames(t, q) = [stack[t] EXCEPT ![L] = f] BY <1>5 DEF Frames, f
  <2>3. /\ [stack[t] EXCEPT ![L] = f] \in Seq(Frame) /\ Len([stack[t] EXCEPT ![L] = f]) = L
        /\ [stack[t] EXCEPT ![L] = f][L] = f
        /\ \A i \in 1..(L - 1) : [stack[t] EXCEPT ![L] = f][i] = stack[t][i]
    BY <1>1, <2>1
  <2>4. stack' \in [Threads -> Seq(Frame)] BY <1>2, <2>2, <2>3
  <2> QED BY <1>1, <1>3, <1>5, <2>1, <2>2, <2>3, <2>4 DEF Advanced
<1> QED BY <1>4, <1>5

(* A method enters Java code, or comes back from it. *)
Switched(t, b) ==
  /\ \A u \in Threads : u # t => stack'[u] = stack[u]
  /\ Len(stack'[t]) = Len(stack[t])
  /\ stack'[t][Len(stack[t])].id = Last(stack[t]).id
  /\ stack'[t][Len(stack[t])].java = b
  /\ stack'[t][Len(stack[t])].prog = Last(stack[t]).prog
  /\ \A i \in 1..(Len(stack[t]) - 1) : stack'[t][i] = stack[t][i]

(* Going into Java or coming back from it is what Switched says. *)
LEMMA SwitchedByStep ==
  ASSUME Typed, NEW t \in Threads, stack[t] # <<>>, NEW b \in BOOLEAN,
         stack' = [stack EXCEPT ![t][Len(stack[t])] = [@ EXCEPT !.java = b]]
  PROVE  stack' \in [Threads -> Seq(Frame)] /\ Switched(t, b)
<1> DEFINE L == Len(stack[t])
           f == [stack[t][L] EXCEPT !.java = b]
<1>1. stack[t] \in Seq(Frame) /\ L \in Nat \ {0} BY DEF Typed
<1>2. stack[t][L] \in Frame /\ Last(stack[t]) = stack[t][L] BY <1>1 DEF Last
<1>3. f \in Frame /\ f.id = stack[t][L].id /\ f.java = b /\ f.prog = stack[t][L].prog
  BY <1>2 DEF Frame
<1>4. stack' = [stack EXCEPT ![t] = [stack[t] EXCEPT ![L] = f]] BY DEF Typed
<1> HIDE DEF f
<1>5. /\ [stack[t] EXCEPT ![L] = f] \in Seq(Frame) /\ Len([stack[t] EXCEPT ![L] = f]) = L
      /\ [stack[t] EXCEPT ![L] = f][L] = f
      /\ \A i \in 1..(L - 1) : [stack[t] EXCEPT ![L] = f][i] = stack[t][i]
  BY <1>1, <1>3
<1>6. stack'[t] = [stack[t] EXCEPT ![L] = f] /\ \A u \in Threads : u # t => stack'[u] = stack[u]
  BY <1>4 DEF Typed
<1>7. stack' \in [Threads -> Seq(Frame)] BY <1>4, <1>5 DEF Typed
<1> QED BY <1>2, <1>3, <1>5, <1>6, <1>7 DEF Switched

(* A native method is called. *)
Called(t, prog) ==
  /\ \A u \in Threads : u # t => stack'[u] = stack[u]
  /\ Len(stack'[t]) = Len(stack[t]) + 1
  /\ stack'[t][Len(stack[t]) + 1].id = calls + 1
  /\ ~stack'[t][Len(stack[t]) + 1].java
  /\ stack'[t][Len(stack[t]) + 1].prog = prog
  /\ \A i \in 1..Len(stack[t]) : stack'[t][i] = stack[t][i]

(* A call of a client is what Called says. *)
LEMMA CalledByStep ==
  ASSUME Typed, NEW t \in Threads, NEW prog, WellMade(prog), ClientCalls(t, prog)
  PROVE  stack' \in [Threads -> Seq(Frame)] /\ Called(t, prog)
<1> DEFINE f == [id |-> calls + 1, java |-> FALSE, prog |-> prog]
<1>0. calls \in Nat BY JniAssumption DEF Typed, JniAssumption
<1>1. f \in Frame /\ f.id = calls + 1 /\ ~f.java /\ f.prog = prog
  BY <1>0 DEF Frame, WellMade, Part
<1>2. stack[t] \in Seq(Frame) BY DEF Typed
<1>3. stack' = [stack EXCEPT ![t] = Append(stack[t], f)] BY DEF ClientCalls
<1> HIDE DEF f
<1>4. /\ Append(stack[t], f) \in Seq(Frame) /\ Len(Append(stack[t], f)) = Len(stack[t]) + 1
      /\ Append(stack[t], f)[Len(stack[t]) + 1] = f
      /\ \A i \in 1..Len(stack[t]) : Append(stack[t], f)[i] = stack[t][i]
  BY <1>1, <1>2
<1>5. stack'[t] = Append(stack[t], f) /\ \A u \in Threads : u # t => stack'[u] = stack[u]
  BY <1>3 DEF Typed
<1>6. stack' \in [Threads -> Seq(Frame)] BY <1>3, <1>4 DEF Typed
<1> QED BY <1>1, <1>4, <1>5, <1>6 DEF Called

(* The steps within native methods, and what is left of the program. *)
Within(t, q) ==
  /\ ~InJava(t)
  /\ stack' = [stack EXCEPT ![t] = Frames(t, q)]
  /\ calls' = calls
  /\ LET s == AtStep(t)
         rest == Tail(Last(stack[t]).prog)
     IN /\ s[1] = "test" => IF cls[s[2]] = 0 THEN q = SetIDs(s[2]) \o rest ELSE q = rest
        /\ s[1] # "test" => q = rest
        /\ IF s[1] = "find" THEN cls' = [cls EXCEPT ![s[2]] = Last(stack[t]).id] ELSE cls' = cls
        /\ IF s[1] = "resolve" THEN ids' = [ids EXCEPT ![s[2]] = TRUE] ELSE ids' = ids

(* Every step is a call, a step within a program, a callback or nothing. *)
LEMMA StepCases ==
  ASSUME Typed, [Next]_vars
  PROVE  \/ \E t \in Threads : \E prog : WellMade(prog) /\ ClientCalls(t, prog)
         \/ \E t \in Threads : \E q \in Seq(Steps) : Within(t, q)
         \/ \E t \in Threads : /\ stack[t] # <<>> /\ UNCHANGED <<cls, ids, calls>>
                               /\ Deliver(t) \/ CallbackReturns(t)
         \/ UNCHANGED vars
<1> SUFFICES ASSUME NEW t \in Threads,
               \/ PcapDataLink(t) \/ PcapOpenLive(t) \/ PcapLoop(t) \/ PcapDumpOpen(t)
               \/ PcapDumpFlush(t) \/ PcapDump(t) \/ PcapNext(t) \/ PcapNextEx(t)
               \/ PcapSetFilter(t) \/ PcapFreeCode(t) \/ PcapStats(t) \/ PcapSetDirection(t)
               \/ PcapLookupNet(t) \/ PcapLookupDev(t) \/ PcapFindAllDevs(t) \/ fromNicName(t)
               \/ FindClass(t) \/ ResolveIDs(t) \/ TestClass(t) \/ UseIDs(t)
               \/ Deliver(t) \/ CallbackReturns(t) \/ LoopReturns(t)
             PROVE \/ \E prog : WellMade(prog) /\ ClientCalls(t, prog)
                   \/ \E q \in Seq(Steps) : Within(t, q)
                   \/ /\ stack[t] # <<>> /\ UNCHANGED <<cls, ids, calls>>
                      /\ Deliver(t) \/ CallbackReturns(t)
  BY DEF Next
<1> DEFINE rest == Tail(Last(stack[t]).prog)
<1>1. ~InJava(t) => rest \in Seq(Steps) BY Innermost
<1>2. CASE FindClass(t)
  <2>1. PICK c \in Classes : At(t, "find", c) /\ cls' = [cls EXCEPT ![c] = Last(stack[t]).id]
    BY <1>2 DEF FindClass
  <2>2. ~InJava(t) /\ AtStep(t)[1] = "find" /\ AtStep(t)[2] = c BY <2>1 DEF At
  <2>3. Within(t, rest) BY <1>2, <2>1, <2>2 DEF FindClass, Advance, Within
  <2> QED BY <1>1, <2>2, <2>3
<1>3. CASE ResolveIDs(t)
  <2>1. PICK c \in Classes : At(t, "resolve", c) /\ ids' = [ids EXCEPT ![c] = TRUE]
    BY <1>3 DEF ResolveIDs
  <2>2. ~InJava(t) /\ AtStep(t)[1] = "resolve" /\ AtStep(t)[2] = c BY <2>1 DEF At
  <2>3. Within(t, rest) BY <1>3, <2>1, <2>2 DEF ResolveIDs, Advance, Within
  <2> QED BY <1>1, <2>2, <2>3
<1>4. CASE TestClass(t)
  <2>1. PICK c \in Classes :
          /\ At(t, "test", c)
          /\ stack' = [stack EXCEPT ![t] =
               Frames(t, (IF cls[c] = 0 THEN SetIDs(c) ELSE <<>>) \o Tail(Last(stack[t]).prog))]
    BY <1>4 DEF TestClass
  <2>2. ~InJava(t) /\ AtStep(t)[1] = "test" /\ AtStep(t)[2] = c BY <2>1 DEF At
  <2>3. CASE cls[c] = 0
    <3>1. SetIDs(c) \in Seq(Steps) BY Parts DEF Provides, WellMade, Part
    <3>2. SetIDs(c) \o rest \in Seq(Steps) BY <1>1, <2>2, <3>1
    <3>3. stack' = [stack EXCEPT ![t] = Frames(t, SetIDs(c) \o rest)] BY <2>1, <2>3
    <3>4. Within(t, SetIDs(c) \o rest) BY <1>4, <2>2, <2>3, <3>3 DEF TestClass, Within
    <3> QED BY <3>2, <3>4
  <2>4. CASE cls[c] # 0
    <3>1. <<>> \o rest = rest BY <1>1, <2>2
    <3>2. stack' = [stack EXCEPT ![t] = Frames(t, rest)] BY <2>1, <2>4, <3>1
    <3>3. Within(t, rest) BY <1>4, <2>2, <2>4, <3>2 DEF TestClass, Within
    <3> QED BY <1>1, <2>2, <3>3
  <2> QED BY <2>3, <2>4
<1>5. CASE UseIDs(t) \/ LoopReturns(t)
  <2>1. ~InJava(t) /\ AtStep(t)[1] \in {"use", "new", "loop"}
    BY <1>5 DEF UseIDs, LoopReturns, At
  <2>2. Within(t, rest) BY <1>5, <2>1 DEF UseIDs, LoopReturns, Advance, Within
  <2> QED BY <1>1, <2>1, <2>2
<1>6. CASE Deliver(t) \/ CallbackReturns(t)
  <2>1. stack[t] # <<>> BY <1>6 DEF Deliver, CallbackReturns, At, InJava
  <2> QED BY <1>6, <2>1 DEF Deliver, CallbackReturns
<1> QED BY <1>2, <1>3, <1>4, <1>5, <1>6, NativeCalls

(* Every step keeps the types. *)
LEMMA TypedNext ==
  ASSUME Typed, [Next]_vars
  PROVE  Typed'
<1>0. calls \in Nat /\ MaxDepth \in Nat /\ MaxCalls \in Nat
  BY JniAssumption DEF Typed, JniAssumption
<1>1. ASSUME NEW t \in Threads, NEW prog, WellMade(prog), ClientCalls(t, prog)
      PROVE  Typed'
  <2>1. stack' \in [Threads -> Seq(Frame)] /\ Called(t, prog) BY <1>1, CalledByStep
  <2>2. /\ calls' = calls + 1 /\ calls < MaxCalls /\ cls' = cls /\ ids' = ids
        /\ Len(stack[t]) < MaxDepth
    BY <1>1 DEF ClientCalls
  <2>3. calls' \in 0..MaxCalls /\ cls' \in [Classes -> 0..calls'] BY <1>0, <2>2 DEF Typed
  <2>4. ASSUME NEW u \in Threads
        PROVE  /\ Len(stack'[u]) <= MaxDepth
               /\ \A i \in 1..Len(stack'[u]) :
                    stack'[u][i].id \in 1..calls' /\ stack'[u][i].prog # <<>>
    <3>1. /\ Len(stack[u]) <= MaxDepth /\ Len(stack[u]) \in Nat
          /\ \A i \in 1..Len(stack[u]) : stack[u][i].id \in 1..calls /\ stack[u][i].prog # <<>>
      BY DEF Typed
    <3>2. CASE u # t
      <4>1. stack'[u] = stack[u] BY <2>1, <3>2 DEF Called
      <4>2. \A n \in 1..calls : n \in 1..calls' BY <1>0, <2>2
      <4> QED BY <3>1, <4>1, <4>2
    <3>3. CASE u = t
      <4>1. Len(stack'[t]) = Len(stack[t]) + 1 BY <2>1 DEF Called
      <4>2. ASSUME NEW i \in 1..Len(stack'[t])
            PROVE  stack'[t][i].id \in 1..calls' /\ stack'[t][i].prog # <<>>
        <5>1. CASE i = Len(stack[t]) + 1
          BY <1>0, <1>1, <2>1, <2>2, <5>1 DEF Called, WellMade
        <5>2. CASE i # Len(stack[t]) + 1
          <6>1. i \in 1..Len(stack[t]) BY <3>1, <3>3, <4>1, <5>2
          <6>2. stack'[t][i] = stack[t][i] BY <2>1, <6>1 DEF Called
          <6>3. stack[t][i].id \in 1..calls /\ stack[t][i].prog # <<>> BY <3>1, <3>3, <6>1
          <6> QED BY <1>0, <2>2, <6>2, <6>3
        <5> QED BY <5>1, <5>2
      <4> QED BY <1>0, <2>2, <3>1, <3>3, <4>1, <4>2
    <3> QED BY <3>2, <3>3
  <2> QED BY <2>1, <2>2, <2>3, <2>4 DEF Typed
<1>2. ASSUME NEW t \in Threads, NEW q \in Seq(Steps), Within(t, q)
      PROVE  Typed'
  <2>1. stack' \in [Threads -> Seq(Frame)] /\ Advanced(t, q)
    BY <1>2, AdvancedByStep DEF Within
  <2>2. /\ Last(stack[t]) = stack[t][Len(stack[t])] /\ Len(stack[t]) \in Nat \ {0}
        /\ AtStep(t) \in Steps
    BY <1>2, Innermost DEF Within
  <2>3. calls' = calls BY <1>2 DEF Within
  <2>4. cls' \in [Classes -> 0..calls] /\ ids' \in [Classes -> BOOLEAN]
    <3>1. Last(stack[t]).id \in 0..calls BY <1>0, <2>2 DEF Typed
    <3> QED BY <1>2, <3>1 DEF Typed, Within
  <2>5. ASSUME NEW u \in Threads
        PROVE  /\ Len(stack'[u]) <= MaxDepth
               /\ \A i \in 1..Len(stack'[u]) :
                    stack'[u][i].id \in 1..calls /\ stack'[u][i].prog # <<>>
    <3>1. /\ Len(stack[u]) <= MaxDepth /\ Len(stack[u]) \in Nat
          /\ \A i \in 1..Len(stack[u]) : stack[u][i].id \in 1..calls /\ stack[u][i].prog # <<>>
      BY DEF Typed
    <3>2. CASE u # t BY <2>1, <3>1, <3>2 DEF Advanced
    <3>3. CASE u = t
      <4>1. ASSUME NEW i \in 1..Len(stack'[t])
            PROVE  stack'[t][i].id \in 1..calls /\ stack'[t][i].prog # <<>>
        <5>1. CASE q # <<>> /\ i = Len(stack[t])
          BY <2>1, <2>2, <3>1, <3>3, <5>1 DEF Advanced
        <5>2. CASE ~(q # <<>> /\ i = Len(stack[t]))
          <6>1. i \in 1..(Len(stack[t]) - 1) /\ i \in 1..Len(stack[t])
            BY <2>1, <2>2, <5>2 DEF Advanced
          <6> QED BY <2>1, <3>1, <3>3, <6>1 DEF Advanced
        <5> QED BY <5>1, <5>2
      <4> QED BY <1>0, <2>1, <3>1, <3>3, <4>1 DEF Advanced
    <3> QED BY <3>2, <3>3
  <2> QED BY <2>1, <2>3, <2>4, <2>5 DEF Typed
<1>3. ASSUME NEW t \in Threads, stack[t] # <<>>, UNCHANGED <<cls, ids, calls>>,
             Deliver(t) \/ CallbackReturns(t)
      PROVE  Typed'
  <2>1. PICK b \in BOOLEAN : stack' \in [Threads -> Seq(Frame)] /\ Switched(t, b)
    <3>1. Deliver(t) => stack' \in [Threads -> Seq(Frame)] /\ Switched(t, TRUE)
      BY <1>3, SwitchedByStep DEF Deliver
    <3>2. CallbackReturns(t) => stack' \in [Threads -> Seq(Frame)] /\ Switched(t, FALSE)
      BY <1>3, SwitchedByStep DEF CallbackReturns
    <3> QED BY <1>3, <3>1, <3>2
  <2>2. stack[t] \in Seq(Frame) /\ Len(stack[t]) \in Nat \ {0} BY <1>3 DEF Typed
  <2>3. Last(stack[t]) = stack[t][Len(stack[t])] BY <2>2 DEF Last
  <2>4. ASSUME NEW u \in Threads
        PROVE  /\ Len(stack'[u]) <= MaxDepth
               /\ \A i \in 1..Len(stack'[u]) :
                    stack'[u][i].id \in 1..calls /\ stack'[u][i].prog # <<>>
    <3>1. /\ Len(stack[u]) <= MaxDepth /\ Len(stack[u]) \in Nat
          /\ \A i \in 1..Len(stack[u]) : stack[u][i].id \in 1..calls /\ stack[u][i].prog # <<>>
      BY DEF Typed
    <3>2. CASE u # t BY <2>1, <3>1, <3>2 DEF Switched
    <3>3. CASE u = t
      <4>1. ASSUME NEW i \in 1..Len(stack[t])
            PROVE  stack'[t][i].id = stack[t][i].id /\ stack'[t][i].prog = stack[t][i].prog
        <5>1. CASE i = Len(stack[t]) BY <2>1, <2>3, <5>1 DEF Switched
        <5>2. CASE i # Len(stack[t])
          <6>1. i \in 1..(Len(stack[t]) - 1) BY <2>2, <5>2
          <6> QED BY <2>1, <6>1 DEF Switched
        <5> QED BY <5>1, <5>2
      <4> QED BY <2>1, <3>1, <3>3, <4>1 DEF Switched
    <3> QED BY <3>2, <3>3
  <2> QED BY <1>3, <2>1, <2>4 DEF Typed
<1>4. UNCHANGED vars => Typed' BY DEF vars, Typed
<1> QED BY <1>1, <1>2, <1>3, <1>4, StepCases

(* The types hold at first. *)
LEMMA TypedInit == Init => Typed
<1> SUFFICES ASSUME Init PROVE Typed
  OBVIOUS
<1>1. calls = 0 /\ cls \in [Classes -> 0..calls] /\ ids \in [Classes -> BOOLEAN] BY DEF Init
<1>2. \A t \in Threads : stack[t] = <<>> BY DEF Init
<1>3. stack \in [Threads -> Seq(Frame)] BY DEF Init
<1>4. calls \in 0..MaxCalls /\ MaxDepth \in Nat \ {0}
  BY <1>1, JniAssumption DEF JniAssumption
<1> QED BY <1>1, <1>2, <1>3, <1>4 DEF Typed

(* Every variable keeps its type, and no thread goes deeper than it may. *)
THEOREM JniTypeCorrect == Spec => []TypeOK
<1>1. Typed /\ [Next]_vars => Typed' BY TypedNext
<1> QED BY <1>1, TypedInit, TypedIsTypeOK, PTL DEF Spec

-----------------------------------------------------------------------------
(* IDs.  A method that is in progress needs no ID that is not set, or set by *)
(* one of its steps before, or made sure of by a test.  Only one method runs *)
(* at a time, so that a class that was found is resolved as well, unless     *)
(* that is what the running method does next; the others wait in a loop.     *)

Known == {c \in Classes : ids[c]}

Programs ==
  \A t \in Threads : \A i \in 1..Len(stack[t]) : Part(stack[t][i].prog, Classes, Known)

Nested ==
  \A t \in Threads : \A i \in 1..Len(stack[t]) :
    /\ i < Len(stack[t]) => stack[t][i].java
    /\ stack[t][i].java => stack[t][i].prog[1][1] = "loop"

Exclusive == \A t, u \in Threads : Busy(t) /\ Busy(u) => t = u

Tested ==
  \A c \in Classes :
    cls[c] # 0 => ids[c] \/ \E t \in Threads : Busy(t) /\ AtStep(t) = <<"resolve", c>>

IdsInv == Programs /\ Nested /\ Exclusive /\ Tested

(* What follows a few steps may also follow more. *)
LEMMA PartMore ==
  ASSUME NEW p, NEW F, NEW R, Part(p, F, R), NEW G, NEW S, F \subseteq G, R \subseteq S
  PROVE  Part(p, G, S)
BY DEF Part, FindsFirst, ResolvesFirst

(* What a step has done need not be asked of the rest. *)
LEMMA Rest ==
  ASSUME NEW p \in Seq(Steps), p # <<>>, NEW F, NEW R, Part(p, F, R),
         NEW G, F \subseteq G, p[1][1] = "find" => p[1][2] \in G,
         NEW S, R \subseteq S, p[1][1] \in {"resolve", "test"} => p[1][2] \in S
  PROVE  /\ Part(Tail(p), G, S)
         /\ p[1][1] = "find" => Tail(p) # <<>> /\ Tail(p)[1] = <<"resolve", p[1][2]>>
         /\ p[1][1] = "loop" => Tail(p) = <<>>
<1> DEFINE q == Tail(p)
<1>1. /\ q \in Seq(Steps) /\ Len(p) \in Nat \ {0} /\ Len(q) = Len(p) - 1
      /\ \A k \in 1..Len(q) : q[k] = p[k + 1]
  OBVIOUS
<1>2. Len(q) = 0 <=> q = <<>> BY <1>1, SMTT(20)
<1> HIDE DEF q
<1>3. \A k \in 1..Len(q) : k + 1 \in 1..Len(p) BY <1>1
<1>4. Shape(q)
  <2> SUFFICES ASSUME NEW k \in 1..Len(q)
               PROVE  /\ q[k][1] = "find" => k < Len(q) /\ q[k + 1] = <<"resolve", q[k][2]>>
                      /\ q[k][1] = "loop" => k = Len(q) /\ q[k][2] = "PcapPktHdr"
    BY DEF Shape
  <2>1. /\ p[k + 1][1] = "find" => k + 1 < Len(p) /\ p[(k + 1) + 1] = <<"resolve", p[k + 1][2]>>
        /\ p[k + 1][1] = "loop" => k + 1 = Len(p) /\ p[k + 1][2] = "PcapPktHdr"
    BY <1>3 DEF Part, Shape
  <2>2. q[k] = p[k + 1] BY <1>1
  <2>3. k < Len(q) => q[k + 1] = p[(k + 1) + 1] BY <1>1
  <2> QED BY <1>1, <2>1, <2>2, <2>3
<1>5. ASSUME NEW k \in 1..Len(q), NEW s, Before(p, k + 1, s), p[1] # s
      PROVE  Before(q, k, s)
  <2>1. PICK j \in 1..((k + 1) - 1) : p[j] = s BY <1>5 DEF Before
  <2>2. j # 1 BY <1>5, <2>1
  <2>3. j - 1 \in 1..(k - 1) /\ j - 1 \in 1..Len(q) /\ (j - 1) + 1 = j BY <1>1, <2>2
  <2> QED BY <1>1, <2>1, <2>3 DEF Before
<1>6. FindsFirst(q, G)
  <2> SUFFICES ASSUME NEW k \in 1..Len(q), q[k][1] \in {"resolve", "new", "loop"}
               PROVE  q[k][2] \in G \/ Before(q, k, <<"find", q[k][2]>>)
    BY DEF FindsFirst
  <2>1. q[k] = p[k + 1] BY <1>1
  <2>2. q[k][2] \in F \/ Before(p, k + 1, <<"find", q[k][2]>>)
    BY <1>3, <2>1 DEF Part, FindsFirst
  <2>3. p[1] = <<"find", q[k][2]>> => q[k][2] \in G
    <3>1. p[1] = <<"find", q[k][2]>> => p[1][1] = "find" /\ p[1][2] = q[k][2] OBVIOUS
    <3> QED BY <3>1
  <2> QED BY <1>5, <2>2, <2>3
<1>7. ResolvesFirst(q, S)
  <2> SUFFICES ASSUME NEW k \in 1..Len(q), q[k][1] \in {"use", "new", "loop"}
               PROVE  \/ q[k][2] \in S
                      \/ Before(q, k, <<"resolve", q[k][2]>>)
                      \/ Before(q, k, <<"test", q[k][2]>>)
    BY DEF ResolvesFirst
  <2>1. q[k] = p[k + 1] BY <1>1
  <2>2. \/ q[k][2] \in R
        \/ Before(p, k + 1, <<"resolve", q[k][2]>>)
        \/ Before(p, k + 1, <<"test", q[k][2]>>)
    BY <1>3, <2>1 DEF Part, ResolvesFirst
  <2>3. p[1] = <<"resolve", q[k][2]>> \/ p[1] = <<"test", q[k][2]>> => q[k][2] \in S
    <3>1. p[1] = <<"resolve", q[k][2]>> => p[1][1] = "resolve" /\ p[1][2] = q[k][2] OBVIOUS
    <3>2. p[1] = <<"test", q[k][2]>> => p[1][1] = "test" /\ p[1][2] = q[k][2] OBVIOUS
    <3> QED BY <3>1, <3>2
  <2> QED BY <1>5, <2>2, <2>3
<1>8. /\ p[1][1] = "find" => Len(q) > 0 /\ p[2] = <<"resolve", p[1][2]>>
      /\ p[1][1] = "loop" => Len(q) = 0
  <2>1. 1 \in 1..Len(p) BY <1>1
  <2>2. /\ p[1][1] = "find" => 1 < Len(p) /\ p[1 + 1] = <<"resolve", p[1][2]>>
        /\ p[1][1] = "loop" => 1 = Len(p)
    BY <2>1 DEF Part, Shape
  <2> QED BY <1>1, <2>2
<1>9. Len(q) > 0 => q[1] = p[2] BY <1>1
<1>10. Part(q, G, S) BY <1>1, <1>4, <1>6, <1>7 DEF Part
<1> QED BY <1>1, <1>2, <1>8, <1>9, <1>10 DEF q

(* A thread whose stack is the same is where it was. *)
LEMMA SameThread ==
  ASSUME NEW u, stack'[u] = stack[u]
  PROVE  /\ InJava(u)' <=> InJava(u)
         /\ Busy(u)' <=> Busy(u)
         /\ AtStep(u)' = AtStep(u)
BY DEF InJava, Busy, AtStep, Last

(* A call keeps the invariant of the IDs: its program is a whole one. *)
LEMMA IdsCalled ==
  ASSUME Typed, Typed', IdsInv, NEW t \in Threads, NEW prog, WellMade(prog), ClientCalls(t, prog)
  PROVE  IdsInv'
<1>1. Called(t, prog) BY CalledByStep
<1>2. /\ cls' = cls /\ ids' = ids /\ InJava(t) /\ \A u \in Threads : ~Busy(u)
  BY DEF ClientCalls, ClientMayCall
<1> DEFINE L == Len(stack[t])
<1>3. L \in Nat /\ stack[t] \in Seq(Frame) BY DEF Typed
<1>4. Len(stack'[t]) = L + 1 BY <1>1 DEF Called
<1>5. Programs'
  <2> SUFFICES ASSUME NEW u \in Threads, NEW i \in 1..Len(stack'[u])
               PROVE  Part(stack'[u][i].prog, Classes, Known)
    BY <1>2 DEF Programs, Known
  <2>1. CASE u = t /\ i = L + 1
    <3>1. Part(prog, Classes, Known) BY PartMore DEF WellMade
    <3> QED BY <1>1, <2>1, <3>1 DEF Called
  <2>2. CASE ~(u = t /\ i = L + 1)
    <3>1. i \in 1..Len(stack[u]) /\ stack'[u][i] = stack[u][i]
      BY <1>1, <1>3, <1>4, <2>2 DEF Called
    <3> QED BY <3>1 DEF IdsInv, Programs
  <2> QED BY <2>1, <2>2
<1>6. Nested'
  <2> SUFFICES ASSUME NEW u \in Threads, NEW i \in 1..Len(stack'[u])
               PROVE  /\ i < Len(stack'[u]) => stack'[u][i].java
                      /\ stack'[u][i].java => stack'[u][i].prog[1][1] = "loop"
    BY DEF Nested
  <2>1. CASE u # t BY <1>1, <2>1 DEF Called, IdsInv, Nested
  <2>2. CASE u = t /\ i = L + 1 BY <1>1, <1>3, <1>4, <2>2 DEF Called
  <2>3. CASE u = t /\ i # L + 1
    <3>1. i \in 1..L /\ stack'[u][i] = stack[u][i] BY <1>1, <1>3, <1>4, <2>3 DEF Called
    <3>2. i = L => stack[u][i].java
      <4>1. i = L => stack[t] # <<>> BY <1>3
      <4> QED BY <1>2, <2>3, <4>1 DEF InJava, Last
    <3>3. i < L => stack[u][i].java BY <2>3, <3>1 DEF IdsInv, Nested
    <3>4. stack[u][i].java => stack[u][i].prog[1][1] = "loop"
      BY <2>3, <3>1 DEF IdsInv, Nested
    <3> QED BY <1>3, <3>1, <3>2, <3>3, <3>4
  <2> QED BY <2>1, <2>2, <2>3
<1>7. \A u \in Threads : Busy(u)' => u = t
  <2> SUFFICES ASSUME NEW u \in Threads, u # t PROVE ~Busy(u)'
    OBVIOUS
  <2>1. stack'[u] = stack[u] BY <1>1 DEF Called
  <2> QED BY <1>2, <2>1, SameThread
<1>8. Exclusive' BY <1>7 DEF Exclusive
<1>9. Tested' BY <1>2 DEF IdsInv, Tested
<1> QED BY <1>5, <1>6, <1>8, <1>9 DEF IdsInv

(* The rest of the method is still one that needs nothing which is not there. *)
LEMMA RestWithin ==
  ASSUME Typed, Typed', IdsInv, NEW t \in Threads, NEW q \in Seq(Steps), Within(t, q)
  PROVE  /\ Part(q, Classes, Known') /\ Known \subseteq Known'
         /\ AtStep(t)[1] = "find" => q # <<>> /\ q[1] = <<"resolve", AtStep(t)[2]>>
         /\ AtStep(t)[1] = "loop" => q = <<>>
<1> DEFINE p == Last(stack[t]).prog
           c == AtStep(t)[2]
           rest == Tail(p)
<1>1. /\ p \in Seq(Steps) /\ p # <<>> /\ AtStep(t) = p[1] /\ c \in Classes
      /\ Last(stack[t]) = stack[t][Len(stack[t])] /\ Len(stack[t]) \in Nat \ {0}
  BY Innermost DEF Within, Steps
<1>2. Part(p, Classes, Known) BY <1>1 DEF IdsInv, Programs
<1>3. Known \subseteq Known' BY DEF Within, Known, Typed
<1>4. AtStep(t)[1] = "resolve" => c \in Known' BY <1>1 DEF Within, Known, Typed
<1>5. AtStep(t)[1] = "test" /\ cls[c] # 0 => c \in Known
  <2> SUFFICES ASSUME AtStep(t)[1] = "test", cls[c] # 0 PROVE ids[c]
    BY <1>1 DEF Known
  <2>1. Busy(t) BY DEF Busy, Within
  <2>2. \A u \in Threads : Busy(u) => AtStep(u) # <<"resolve", c>>
    BY <2>1 DEF IdsInv, Exclusive
  <2> QED BY <1>1, <2>2 DEF IdsInv, Tested
<1>6. /\ AtStep(t)[1] = "find" => rest # <<>> /\ rest[1] = <<"resolve", c>>
      /\ AtStep(t)[1] = "loop" => rest = <<>>
  <2>1. p[1][1] \in {"resolve", "test"} => p[1][2] \in Classes BY <1>1
  <2>2. p[1][1] = "find" => p[1][2] \in Classes BY <1>1
  <2>3. Known \subseteq Classes BY DEF Known
  <2> HIDE DEF p
  <2> QED BY <1>1, <1>2, <2>1, <2>2, <2>3, Rest
<1> HIDE DEF p, c
<1>7. CASE AtStep(t)[1] = "test" /\ cls[c] = 0
  <2>1. q = SetIDs(c) \o rest BY <1>7 DEF Within, p, c
  <2>2. Classes \subseteq {c} \cup Classes /\ Known \subseteq {c} \cup Known' BY <1>3
  <2>3. p[1][1] = "find" => p[1][2] \in {c} \cup Classes BY <1>1, <1>7
  <2>4. p[1][1] \in {"resolve", "test"} => p[1][2] \in {c} \cup Known' BY <1>1, <1>7 DEF c
  <2>5. Part(rest, {c} \cup Classes, {c} \cup Known') BY <1>1, <1>2, <2>2, <2>3, <2>4, Rest
  <2>6. Provides(SetIDs(c), {c}, {c}) BY <1>1, Parts
  <2>7. Part(q, Classes, Known') BY <2>1, <2>5, <2>6, PartAppended
  <2> QED BY <1>3, <1>7, <2>7
<1>8. CASE ~(AtStep(t)[1] = "test" /\ cls[c] = 0)
  <2>1. q = rest BY <1>8 DEF Within, p, c
  <2>2. p[1][1] = "find" => p[1][2] \in Classes BY <1>1 DEF c
  <2>3. p[1][1] \in {"resolve", "test"} => p[1][2] \in Known'
    BY <1>1, <1>3, <1>4, <1>5, <1>8 DEF c
  <2>4. Part(rest, Classes, Known') BY <1>1, <1>2, <1>3, <2>2, <2>3, Rest
  <2> QED BY <1>3, <1>6, <2>1, <2>4 DEF c
<1> QED BY <1>7, <1>8

(* So does a step of a program, which may resolve what it has found. *)
LEMMA IdsWithin ==
  ASSUME Typed, Typed', IdsInv, NEW t \in Threads, NEW q \in Seq(Steps), Within(t, q)
  PROVE  IdsInv'
<1> DEFINE L == Len(stack[t])
           c == AtStep(t)[2]
<1>1. /\ L \in Nat \ {0} /\ ~InJava(t) /\ AtStep(t) \in Steps
      /\ AtStep(t) = <<AtStep(t)[1], c>> /\ c \in Classes
  BY Innermost DEF Within, Steps
<1>2. Advanced(t, q) BY AdvancedByStep DEF Within
<1>3. /\ Part(q, Classes, Known') /\ Known \subseteq Known'
      /\ AtStep(t)[1] = "find" => q # <<>> /\ q[1] = <<"resolve", c>>
      /\ AtStep(t)[1] = "loop" => q = <<>>
  BY RestWithin
<1>4. stack'[t] \in Seq(Frame) /\ Len(stack'[t]) \in Nat BY DEF Typed
<1>5. ASSUME NEW u \in Threads, NEW i \in 1..Len(stack'[u]), ~(u = t /\ q # <<>> /\ i = L)
      PROVE  /\ i \in 1..Len(stack[u]) /\ stack'[u][i] = stack[u][i]
             /\ i < Len(stack'[u]) => i < Len(stack[u])
             /\ u = t => i < L
  <2>1. CASE u # t BY <1>2, <2>1 DEF Advanced
  <2>2. CASE u = t
    <3>1. i \in 1..(L - 1) /\ Len(stack'[t]) <= L BY <1>1, <1>2, <1>5, <2>2 DEF Advanced
    <3> QED BY <1>1, <1>2, <2>2, <3>1 DEF Advanced
  <2> QED BY <2>1, <2>2
<1>6. Programs'
  <2> SUFFICES ASSUME NEW u \in Threads, NEW i \in 1..Len(stack'[u])
               PROVE  Part(stack'[u][i].prog, Classes, Known')
    BY DEF Programs
  <2>1. CASE u = t /\ q # <<>> /\ i = L BY <1>2, <1>3, <2>1 DEF Advanced
  <2>2. CASE ~(u = t /\ q # <<>> /\ i = L)
    <3>1. i \in 1..Len(stack[u]) /\ stack'[u][i] = stack[u][i] BY <1>5, <2>2
    <3>2. Part(stack[u][i].prog, Classes, Known) BY <3>1 DEF IdsInv, Programs
    <3> QED BY <1>3, <3>1, <3>2, PartMore
  <2> QED BY <2>1, <2>2
<1>7. Nested'
  <2> SUFFICES ASSUME NEW u \in Threads, NEW i \in 1..Len(stack'[u])
               PROVE  /\ i < Len(stack'[u]) => stack'[u][i].java
                      /\ stack'[u][i].java => stack'[u][i].prog[1][1] = "loop"
    BY DEF Nested
  <2>1. CASE u = t /\ q # <<>> /\ i = L BY <1>1, <1>2, <2>1 DEF Advanced
  <2>2. CASE ~(u = t /\ q # <<>> /\ i = L)
    <3>1. /\ i \in 1..Len(stack[u]) /\ stack'[u][i] = stack[u][i]
          /\ i < Len(stack'[u]) => i < Len(stack[u])
      BY <1>5, <2>2
    <3>2. /\ i < Len(stack[u]) => stack[u][i].java
          /\ stack[u][i].java => stack[u][i].prog[1][1] = "loop"
      BY <3>1 DEF IdsInv, Nested
    <3> QED BY <3>1, <3>2
  <2> QED BY <2>1, <2>2
<1>8. \A u \in Threads : u # t =>
        (InJava(u)' <=> InJava(u)) /\ (Busy(u)' <=> Busy(u)) /\ AtStep(u)' = AtStep(u)
  BY <1>2, SameThread DEF Advanced
<1>9. q # <<>> => AtStep(t)' = q[1] /\ ~InJava(t)'
  <2> SUFFICES ASSUME q # <<>> PROVE AtStep(t)' = q[1] /\ ~InJava(t)'
    OBVIOUS
  <2>1. Len(stack'[t]) = L /\ stack'[t][L].prog = q /\ ~stack'[t][L].java /\ stack'[t] # <<>>
    BY <1>1, <1>2 DEF Advanced
  <2> QED BY <2>1 DEF AtStep, InJava, Last
<1>10. q = <<>> => InJava(t)'
  <2> SUFFICES ASSUME q = <<>>, stack'[t] # <<>> PROVE stack'[t][Len(stack'[t])].java
    BY DEF InJava, Last
  <2>1. Len(stack'[t]) = L - 1 /\ Len(stack'[t]) \in 1..Len(stack'[t])
    BY <1>2, <1>4 DEF Advanced
  <2>2. L - 1 \in 1..L /\ L - 1 < L BY <1>1, <2>1
  <2>3. stack'[t][L - 1] = stack[t][L - 1] BY <1>2, <2>1 DEF Advanced
  <2>4. stack[t][L - 1].java BY <2>2 DEF IdsInv, Nested
  <2> QED BY <2>1, <2>3, <2>4
<1>11. Busy(t)' => Busy(t)
  <2>1. Busy(t)' => q # <<>> BY <1>10 DEF Busy
  <2> QED BY <1>1, <1>3, <2>1 DEF Busy
<1>12. Exclusive' BY <1>8, <1>11 DEF IdsInv, Exclusive
<1>13. Tested'
  <2> SUFFICES ASSUME NEW d \in Classes, cls'[d] # 0
               PROVE  ids'[d] \/ \E u \in Threads : Busy(u)' /\ AtStep(u)' = <<"resolve", d>>
    BY DEF Tested
  <2>1. ids[d] => ids'[d] BY DEF Within, Typed
  <2>2. CASE AtStep(t)[1] = "find" /\ c = d
    <3>1. AtStep(t)' = <<"resolve", d>> /\ ~InJava(t)' BY <1>3, <1>9, <2>2
    <3>2. AtStep(t)'[1] = "resolve" BY <3>1
    <3> QED BY <3>1, <3>2 DEF Busy
  <2>3. CASE ~(AtStep(t)[1] = "find" /\ c = d)
    <3>1. cls[d] # 0 BY <2>3 DEF Within, Typed
    <3>2. CASE ids[d] BY <2>1, <3>2
    <3>3. CASE \E u \in Threads : Busy(u) /\ AtStep(u) = <<"resolve", d>>
      <4>1. PICK u \in Threads : Busy(u) /\ AtStep(u) = <<"resolve", d>> BY <3>3
      <4>2. CASE u # t BY <1>8, <4>1, <4>2
      <4>3. CASE u = t
        <5>1. AtStep(t)[1] = "resolve" /\ c = d BY <4>1, <4>3
        <5>2. ids' = [ids EXCEPT ![d] = TRUE] BY <5>1 DEF Within
        <5>3. ids'[d] BY <5>2 DEF Typed
        <5> QED BY <5>3
      <4> QED BY <4>2, <4>3
    <3> QED BY <3>1, <3>2, <3>3 DEF IdsInv, Tested
  <2> QED BY <2>2, <2>3
<1> QED BY <1>6, <1>7, <1>12, <1>13 DEF IdsInv

(* A thread in a callback, or about to enter one, is not busy. *)
LEMMA SwitchedLoop ==
  ASSUME Typed, IdsInv, NEW t \in Threads, stack[t] # <<>>, UNCHANGED <<cls, ids, calls>>,
         Deliver(t) \/ CallbackReturns(t)
  PROVE  /\ \E b \in BOOLEAN : Switched(t, b)
         /\ Last(stack[t]) = stack[t][Len(stack[t])] /\ Len(stack[t]) \in Nat \ {0}
         /\ Last(stack[t]).prog[1][1] = "loop"
         /\ ~Busy(t) /\ ~Busy(t)'
<1>1. stack[t] \in Seq(Frame) /\ Len(stack[t]) \in Nat \ {0} BY DEF Typed
<1>2. Last(stack[t]) = stack[t][Len(stack[t])] BY DEF Last
<1>3. PICK b \in BOOLEAN : Switched(t, b)
  <2>1. Deliver(t) => Switched(t, TRUE) BY SwitchedByStep DEF Deliver
  <2>2. CallbackReturns(t) => Switched(t, FALSE) BY SwitchedByStep DEF CallbackReturns
  <2> QED BY <2>1, <2>2
<1>4. Last(stack[t]).prog[1][1] = "loop"
  <2>1. CASE Deliver(t)
    <3>1. ~InJava(t) /\ AtStep(t)[1] = "loop" BY <2>1 DEF Deliver, At
    <3> QED BY <3>1, Innermost
  <2>2. CASE CallbackReturns(t)
    <3>1. Last(stack[t]).java BY <2>2 DEF CallbackReturns, InJava
    <3> QED BY <1>1, <1>2, <3>1 DEF IdsInv, Nested
  <2> QED BY <2>1, <2>2
<1>5. /\ AtStep(t) = Last(stack[t]).prog[1]
      /\ AtStep(t)' = Last(stack[t]).prog[1]
  <2>0. stack[t][Len(stack[t])] \in Frame BY <1>1
  <2>1. Last(stack[t]).prog \in Seq(Steps) BY <1>2, <2>0 DEF Frame
  <2>2. AtStep(t) = Last(stack[t]).prog[1] BY <2>1 DEF AtStep
  <2>3. Last(stack'[t]).prog = Last(stack[t]).prog BY <1>2, <1>3 DEF Switched, Last
  <2>4. AtStep(t)' = Last(stack[t]).prog[1] BY <2>1, <2>3 DEF AtStep
  <2> QED BY <2>2, <2>4
<1>6. ~Busy(t) /\ ~Busy(t)' BY <1>4, <1>5 DEF Busy
<1> QED BY <1>1, <1>2, <1>3, <1>4, <1>6

(* So do a callback and the return from it. *)
LEMMA IdsSwitched ==
  ASSUME Typed, IdsInv, NEW t \in Threads, stack[t] # <<>>, UNCHANGED <<cls, ids, calls>>,
         Deliver(t) \/ CallbackReturns(t)
  PROVE  IdsInv'
<1> DEFINE L == Len(stack[t])
<1>1. PICK b \in BOOLEAN : Switched(t, b) BY SwitchedLoop
<1>2. /\ Last(stack[t]) = stack[t][L] /\ L \in Nat \ {0}
      /\ Last(stack[t]).prog[1][1] = "loop" /\ ~Busy(t) /\ ~Busy(t)'
  BY SwitchedLoop
<1>3. ASSUME NEW u \in Threads, NEW i \in 1..Len(stack'[u])
      PROVE  /\ Len(stack'[u]) = Len(stack[u]) /\ stack'[u][i].prog = stack[u][i].prog
             /\ i < Len(stack[u]) => stack'[u][i].java = stack[u][i].java
             /\ u = t /\ ~(i < Len(stack[u])) => i = L
  <2>1. CASE u # t BY <1>1, <2>1 DEF Switched
  <2>2. CASE u = t
    <3>1. Len(stack'[t]) = L BY <1>1 DEF Switched
    <3>2. CASE i = L BY <1>1, <1>2, <2>2, <3>1, <3>2 DEF Switched
    <3>3. CASE i # L
      <4>1. i \in 1..(L - 1) BY <1>2, <2>2, <3>1, <3>3
      <4>2. stack'[t][i] = stack[t][i] BY <1>1, <4>1 DEF Switched
      <4> QED BY <1>2, <2>2, <3>1, <4>1, <4>2
    <3> QED BY <3>2, <3>3
  <2> QED BY <2>1, <2>2
<1>4. Programs'
  <2>1. Known' = Known BY DEF Known
  <2> QED BY <1>3, <2>1 DEF IdsInv, Programs
<1>5. Nested'
  <2> SUFFICES ASSUME NEW u \in Threads, NEW i \in 1..Len(stack'[u])
               PROVE  /\ i < Len(stack'[u]) => stack'[u][i].java
                      /\ stack'[u][i].java => stack'[u][i].prog[1][1] = "loop"
    BY DEF Nested
  <2>1. Len(stack'[u]) = Len(stack[u]) /\ stack'[u][i].prog = stack[u][i].prog BY <1>3
  <2>2. CASE i < Len(stack[u]) BY <1>3, <2>1, <2>2 DEF IdsInv, Nested
  <2>3. CASE ~(i < Len(stack[u])) /\ u = t
    <3>1. i = L BY <1>3, <2>3
    <3> QED BY <1>2, <2>1, <2>3, <3>1
  <2>4. CASE u # t BY <1>1, <2>4 DEF Switched, IdsInv, Nested
  <2> QED BY <2>2, <2>3, <2>4
<1>6. \A u \in Threads : u # t => (Busy(u)' <=> Busy(u)) /\ AtStep(u)' = AtStep(u)
  BY <1>1, SameThread DEF Switched
<1>7. Exclusive' BY <1>2, <1>6 DEF IdsInv, Exclusive
<1>8. Tested' BY <1>2, <1>6 DEF IdsInv, Tested
<1> QED BY <1>4, <1>5, <1>7, <1>8 DEF IdsInv

(* Every step keeps the invariant of the IDs. *)
LEMMA IdsNext ==
  ASSUME Typed, IdsInv, [Next]_vars
  PROVE  IdsInv'
<1>1. Typed' BY TypedNext
<1>2. UNCHANGED vars => IdsInv'
  <2> SUFFICES ASSUME UNCHANGED vars PROVE IdsInv'
    OBVIOUS
  <2>1. \A u \in Threads : (Busy(u)' <=> Busy(u)) /\ AtStep(u)' = AtStep(u)
    BY SameThread DEF vars
  <2>2. Programs' /\ Nested' BY DEF IdsInv, Programs, Nested, Known, vars
  <2>3. Exclusive' BY <2>1 DEF IdsInv, Exclusive
  <2>4. Tested' BY <2>1 DEF IdsInv, Tested, vars
  <2> QED BY <2>2, <2>3, <2>4 DEF IdsInv
<1> QED BY <1>1, <1>2, IdsCalled, IdsWithin, IdsSwitched, StepCases

(* The invariant of the IDs holds at first. *)
LEMMA IdsInit == Init => Typed /\ IdsInv
<1> SUFFICES ASSUME Init PROVE Typed /\ IdsInv
  OBVIOUS
<1>1. Typed BY TypedInit
<1>2. \A t \in Threads : stack[t] = <<>> BY DEF Init
<1>3. Programs /\ Nested BY <1>2 DEF Programs, Nested
<1>4. \A t \in Threads : ~Busy(t) BY <1>2 DEF Busy, InJava
<1>5. Exclusive BY <1>4 DEF Exclusive
<1>6. Tested BY DEF Init, Tested
<1> QED BY <1>1, <1>3, <1>5, <1>6 DEF IdsInv

(* A native method uses a field or method ID only after it was looked up, by
   whichever method and thread did so, although PcapNext and PcapNextEx ask
   the class global and not the ID. *)
THEOREM IdsAreResolved == Spec => []IdsResolved
<1>1. Typed /\ IdsInv => IdsResolved
  <2> SUFFICES ASSUME Typed, IdsInv, NEW t \in Threads, ~InJava(t),
                      AtStep(t)[1] \in {"use", "new", "loop"}
               PROVE  ids[AtStep(t)[2]]
    BY DEF IdsResolved
  <2>1. /\ Last(stack[t]) = stack[t][Len(stack[t])] /\ Len(stack[t]) \in Nat \ {0}
        /\ Len(Last(stack[t]).prog) \in Nat \ {0} /\ AtStep(t) = Last(stack[t]).prog[1]
    BY Innermost
  <2>2. ResolvesFirst(Last(stack[t]).prog, Known) BY <2>1 DEF IdsInv, Programs, Part
  <2>3. \A s : ~Before(Last(stack[t]).prog, 1, s) BY DEF Before
  <2> DEFINE p == Last(stack[t]).prog
  <2>4. \/ p[1][2] \in Known
        \/ Before(p, 1, <<"resolve", p[1][2]>>) \/ Before(p, 1, <<"test", p[1][2]>>)
    <3>1. 1 \in 1..Len(p) /\ p[1][1] \in {"use", "new", "loop"} BY <2>1
    <3> QED BY <2>2, <3>1 DEF ResolvesFirst
  <2>5. AtStep(t)[2] \in Known BY <2>1, <2>3, <2>4
  <2> QED BY <2>5 DEF Known
<1>2. Typed /\ IdsInv /\ [Next]_vars => (Typed /\ IdsInv)' BY TypedNext, IdsNext
<1> QED BY <1>1, <1>2, IdsInit, PTL DEF Spec

-----------------------------------------------------------------------------
(* Class references.  Every method in progress has found the classes it      *)
(* reads in a step before, so no global it reads is older than it is.  Only  *)
(* a busy method, which is the newest, sets one: what it has set itself is   *)
(* still there, and a method that waits in a loop may find a later one.      *)

Since(i) == {c \in Classes : cls[c] >= i}

Finders ==
  \A t \in Threads : \A i \in 1..Len(stack[t]) :
    FindsFirst(stack[t][i].prog, Since(stack[t][i].id))

Newest == \A t \in Threads : Busy(t) => Last(stack[t]).id = calls

RefsInv == Finders /\ Newest

(* A call keeps the invariant of the references: its own is the newest. *)
LEMMA RefsCalled ==
  ASSUME Typed, Typed', IdsInv, RefsInv,
         NEW t \in Threads, NEW prog, WellMade(prog), ClientCalls(t, prog)
  PROVE  RefsInv'
<1> DEFINE L == Len(stack[t])
<1>1. Called(t, prog) BY CalledByStep
<1>2. cls' = cls /\ calls' = calls + 1 /\ \A u \in Threads : ~Busy(u)
  BY DEF ClientCalls, ClientMayCall
<1>3. L \in Nat /\ stack[t] \in Seq(Frame) BY DEF Typed
<1>4. Len(stack'[t]) = L + 1 BY <1>1 DEF Called
<1>5. ASSUME NEW u \in Threads, NEW i \in 1..Len(stack'[u]), ~(u = t /\ i = L + 1)
      PROVE  i \in 1..Len(stack[u]) /\ stack'[u][i] = stack[u][i]
  BY <1>1, <1>3, <1>4, <1>5 DEF Called
<1>6. Finders'
  <2> SUFFICES ASSUME NEW u \in Threads, NEW i \in 1..Len(stack'[u])
               PROVE  FindsFirst(stack'[u][i].prog, Since(stack'[u][i].id))
    BY <1>2 DEF Finders, Since
  <2>1. CASE u = t /\ i = L + 1
    <3>1. FindsFirst(prog, Since(stack'[u][i].id)) BY DEF WellMade, Part, FindsFirst
    <3> QED BY <1>1, <2>1, <3>1 DEF Called
  <2>2. CASE ~(u = t /\ i = L + 1)
    <3>1. i \in 1..Len(stack[u]) /\ stack'[u][i] = stack[u][i] BY <1>5, <2>2
    <3> QED BY <3>1 DEF RefsInv, Finders
  <2> QED BY <2>1, <2>2
<1>7. \A u \in Threads : Busy(u)' => u = t
  <2> SUFFICES ASSUME NEW u \in Threads, u # t PROVE ~Busy(u)'
    OBVIOUS
  <2>1. stack'[u] = stack[u] BY <1>1 DEF Called
  <2> QED BY <1>2, <2>1, SameThread
<1>8. Last(stack'[t]).id = calls' BY <1>1, <1>2 DEF Called, Last
<1>9. Newest' BY <1>7, <1>8 DEF Newest
<1> QED BY <1>6, <1>9 DEF RefsInv

(* So does a step of a program: what it finds is newer than all else. *)
LEMMA RefsWithin ==
  ASSUME Typed, Typed', IdsInv, IdsInv', RefsInv,
         NEW t \in Threads, NEW q \in Seq(Steps), Within(t, q)
  PROVE  RefsInv'
<1> DEFINE L == Len(stack[t])
           p == Last(stack[t]).prog
           c == AtStep(t)[2]
           me == Last(stack[t]).id
           rest == Tail(p)
           SinceNow(i) == {d \in Classes : cls'[d] >= i}
<1>1. /\ L \in Nat \ {0} /\ ~InJava(t) /\ AtStep(t) = <<AtStep(t)[1], c>> /\ c \in Classes
      /\ p \in Seq(Steps) /\ p # <<>> /\ AtStep(t) = p[1]
      /\ Last(stack[t]) = stack[t][L] /\ me \in Nat
  BY Innermost DEF Within, Steps
<1>2. Advanced(t, q) BY AdvancedByStep DEF Within
<1>3. FindsFirst(p, Since(me)) BY <1>1, SMTT(20) DEF RefsInv, Finders
<1>4. Part(p, Since(me), Classes)
  <2>1. Part(p, Classes, Known) BY <1>1 DEF IdsInv, Programs
  <2>2. Part(p, Classes, Classes) BY <2>1, PartMore DEF Known
  <2> QED BY <1>3, <2>2 DEF Part
<1>5. Busy(t) <=> AtStep(t)[1] # "loop" BY <1>1 DEF Busy
<1>6. AtStep(t)[1] # "loop" => me = calls BY <1>5 DEF RefsInv, Newest
<1>7. AtStep(t)[1] # "find" => cls' = cls BY DEF Within
<1>8. AtStep(t)[1] = "find" => \A d \in Classes : cls'[d] = IF d = c THEN me ELSE cls[d]
  BY DEF Within, Typed
<1>9. calls \in Nat /\ \A d \in Classes : cls[d] \in 0..calls
  BY JniAssumption DEF Typed, JniAssumption
(* No reference is replaced by an older one. *)
<1>10. ASSUME NEW i \in 0..calls PROVE Since(i) \subseteq SinceNow(i)
  <2>1. CASE AtStep(t)[1] # "find" BY <1>7, <2>1 DEF Since
  <2>2. CASE AtStep(t)[1] = "find"
    <3>1. me = calls BY <1>6, <2>2
    <3> HIDE DEF me, c
    <3> QED BY <1>8, <1>9, <1>10, <2>2, <3>1 DEF Since
  <2> QED BY <2>1, <2>2
<1>11. \A u \in Threads : \A i \in 1..Len(stack[u]) : stack[u][i].id \in 0..calls
  BY <1>9 DEF Typed
<1>12. me \in 0..calls
  <2>1. L \in 1..Len(stack[t]) BY <1>1
  <2> QED BY <1>1, <1>11, <2>1
(* What is left of the method itself. *)
<1>13. Part(q, SinceNow(me), Classes)
  <2>0. Since(me) \subseteq SinceNow(me) BY <1>10, <1>12
  <2>1. p[1][1] = "find" => c \in SinceNow(me) BY <1>1, <1>8
  <2>2. CASE AtStep(t)[1] = "test" /\ cls[c] = 0
    <3>1. q = SetIDs(c) \o rest BY <2>2 DEF Within
    <3>2. Part(rest, {c} \cup SinceNow(me), {c} \cup Classes)
      <4> HIDE DEF p, SinceNow
      <4> QED BY <1>1, <1>4, <2>0, <2>2, Rest
    <3>3. Provides(SetIDs(c), {c}, {c}) BY <1>1, Parts
    <3> QED BY <3>1, <3>2, <3>3, PartAppended
  <2>3. CASE ~(AtStep(t)[1] = "test" /\ cls[c] = 0)
    <3>1. q = rest BY <2>3 DEF Within
    <3>2. Part(rest, SinceNow(me), Classes)
      <4> HIDE DEF p, SinceNow
      <4> QED BY <1>1, <1>4, <2>0, <2>1, Rest
    <3> QED BY <3>1, <3>2
  <2> QED BY <2>2, <2>3
<1>14. ASSUME NEW u \in Threads, NEW i \in 1..Len(stack'[u]), ~(u = t /\ q # <<>> /\ i = L)
       PROVE  i \in 1..Len(stack[u]) /\ stack'[u][i] = stack[u][i]
  <2>1. CASE u # t BY <1>2, <2>1 DEF Advanced
  <2>2. CASE u = t
    <3>1. i \in 1..(L - 1) BY <1>1, <1>2, <1>14, <2>2 DEF Advanced
    <3> QED BY <1>1, <1>2, <2>2, <3>1 DEF Advanced
  <2> QED BY <2>1, <2>2
<1>15. Finders'
  <2> SUFFICES ASSUME NEW u \in Threads, NEW i \in 1..Len(stack'[u])
               PROVE  FindsFirst(stack'[u][i].prog, SinceNow(stack'[u][i].id))
    BY DEF Finders, Since
  <2>1. CASE u = t /\ q # <<>> /\ i = L
    <3>1. stack'[u][i].prog = q /\ stack'[u][i].id = me BY <1>2, <2>1 DEF Advanced
    <3> QED BY <1>13, <3>1 DEF Part
  <2>2. CASE ~(u = t /\ q # <<>> /\ i = L)
    <3>1. i \in 1..Len(stack[u]) /\ stack'[u][i] = stack[u][i] BY <1>14, <2>2
    <3>2. FindsFirst(stack[u][i].prog, Since(stack[u][i].id)) BY <3>1 DEF RefsInv, Finders
    <3>3. Since(stack[u][i].id) \subseteq SinceNow(stack[u][i].id) BY <1>10, <1>11, <3>1
    <3> HIDE DEF SinceNow
    <3>4. FindsFirst(stack[u][i].prog, SinceNow(stack[u][i].id)) BY <3>2, <3>3 DEF FindsFirst
    <3> QED BY <3>1, <3>4
  <2> QED BY <2>1, <2>2
<1>16. ASSUME NEW v \in Threads, Busy(v)' PROVE Last(stack'[v]).id = calls'
  <2>1. CASE v # t
    <3>1. stack'[v] = stack[v] BY <1>2, <2>1 DEF Advanced
    <3>2. Busy(v) BY <1>16, <3>1, SameThread
    <3> QED BY <3>1, <3>2 DEF RefsInv, Newest, Within
  <2>2. CASE v = t
    <3>1. q # <<>>
      <4> SUFFICES ASSUME q = <<>> PROVE InJava(t)'
        BY <1>16, <2>2 DEF Busy
      <4>1. SUFFICES ASSUME stack'[t] # <<>> PROVE stack'[t][Len(stack'[t])].java
        BY DEF InJava, Last
      <4>2. stack'[t] \in Seq(Frame) BY DEF Typed
      <4>3. Len(stack'[t]) = L - 1 /\ Len(stack'[t]) \in Nat \ {0}
        BY <1>2, <4>1, <4>2 DEF Advanced
      <4>4. L - 1 \in 1..(L - 1) /\ L - 1 \in 1..L /\ L - 1 < L
        <5>1. L - 1 \in Nat \ {0} BY <4>3
        <5>2. \A x \in Nat : x - 1 \in Nat \ {0} =>
                x - 1 \in 1..(x - 1) /\ x - 1 \in 1..x /\ x - 1 < x
          OBVIOUS
        <5>3. L \in Nat BY <1>1
        <5> HIDE DEF L
        <5> QED BY <5>1, <5>2, <5>3
      <4>5. stack[t][L - 1].java BY <4>4 DEF IdsInv, Nested
      <4> QED BY <1>2, <4>3, <4>4, <4>5 DEF Advanced
    <3>2. Last(stack'[t]).id = me BY <1>2, <3>1 DEF Advanced, Last
    <3>3. AtStep(t)[1] # "loop" BY <3>1, RestWithin
    <3> QED BY <1>6, <2>2, <3>2, <3>3 DEF Within
  <2> QED BY <2>1, <2>2
<1>17. Newest' BY <1>16 DEF Newest
<1> QED BY <1>15, <1>17 DEF RefsInv

(* So do a callback and the return from it. *)
LEMMA RefsSwitched ==
  ASSUME Typed, IdsInv, RefsInv, NEW t \in Threads, stack[t] # <<>>, UNCHANGED <<cls, ids, calls>>,
         Deliver(t) \/ CallbackReturns(t)
  PROVE  RefsInv'
<1> DEFINE L == Len(stack[t])
<1>1. PICK b \in BOOLEAN : Switched(t, b) BY SwitchedLoop
<1>2. Last(stack[t]) = stack[t][L] /\ L \in Nat \ {0} /\ ~Busy(t)' BY SwitchedLoop
<1>3. ASSUME NEW u \in Threads
      PROVE  /\ Len(stack'[u]) = Len(stack[u])
             /\ \A i \in 1..Len(stack[u]) : stack'[u][i].prog = stack[u][i].prog
                                            /\ stack'[u][i].id = stack[u][i].id
  <2>1. CASE u # t BY <1>1, <2>1 DEF Switched
  <2>2. CASE u = t
    <3>1. Len(stack'[t]) = L BY <1>1 DEF Switched
    <3>2. ASSUME NEW i \in 1..L
          PROVE stack'[t][i].prog = stack[t][i].prog /\ stack'[t][i].id = stack[t][i].id
      <4>1. CASE i = L BY <1>1, <1>2, <4>1 DEF Switched
      <4>2. CASE i # L
        <5>1. i \in 1..(L - 1) BY <1>2, <4>2
        <5> QED BY <1>1, <5>1 DEF Switched
      <4> QED BY <4>1, <4>2
    <3> QED BY <2>2, <3>1, <3>2
  <2> QED BY <2>1, <2>2
<1>4. Finders'
  <2> SUFFICES ASSUME NEW u \in Threads, NEW i \in 1..Len(stack'[u])
               PROVE  FindsFirst(stack'[u][i].prog, Since(stack'[u][i].id))
    BY DEF Finders, Since
  <2>1. i \in 1..Len(stack[u]) BY <1>3
  <2>2. FindsFirst(stack[u][i].prog, Since(stack[u][i].id)) BY <2>1 DEF RefsInv, Finders
  <2> QED BY <1>3, <2>1, <2>2
<1>5. ASSUME NEW v \in Threads, Busy(v)' PROVE Last(stack'[v]).id = calls'
  <2>1. v # t /\ stack'[v] = stack[v] BY <1>1, <1>2, <1>5 DEF Switched
  <2>2. Busy(v) BY <1>5, <2>1, SameThread
  <2> QED BY <2>1, <2>2 DEF RefsInv, Newest
<1> QED BY <1>4, <1>5 DEF RefsInv, Newest

(* For clients that make one native call at a time, whatever their callbacks
   call: a method that reads a class global finds there the reference it made
   itself, or, in a loop only, that of a later call. *)
THEOREM ReferencesAreValid == Spec => []ReferencesValid
<1>1. Typed /\ IdsInv /\ RefsInv => ReferencesValid
  <2> SUFFICES ASSUME Typed, IdsInv, RefsInv, NEW t \in Threads, ~InJava(t),
                      AtStep(t)[1] \in {"resolve", "new", "loop"},
                      ~(AtStep(t)[1] = "loop" /\ cls[AtStep(t)[2]] > Last(stack[t]).id)
               PROVE  \E i \in DOMAIN stack[t] : stack[t][i].id = cls[AtStep(t)[2]]
    BY DEF ReferencesValid
  <2> DEFINE f == Last(stack[t])
             c == AtStep(t)[2]
  <2>1. /\ f = stack[t][Len(stack[t])] /\ Len(stack[t]) \in Nat \ {0} /\ f.id \in Nat
        /\ Len(f.prog) \in Nat \ {0} /\ AtStep(t) = f.prog[1] /\ stack[t] \in Seq(Frame)
        /\ AtStep(t) \in Steps
    BY Innermost
  <2>2. FindsFirst(f.prog, Since(f.id)) BY <2>1, SMTT(20) DEF RefsInv, Finders
  <2>3. \A s : ~Before(f.prog, 1, s) BY DEF Before
  <2>4. f.prog[1][2] \in Since(f.id) \/ Before(f.prog, 1, <<"find", f.prog[1][2]>>)
    <3>1. 1 \in 1..Len(f.prog) /\ f.prog[1][1] \in {"resolve", "new", "loop"} BY <2>1
    <3> QED BY <2>2, <3>1 DEF FindsFirst
  <2>5. c \in Since(f.id) BY <2>1, <2>3, <2>4
  <2>6. c \in Classes /\ cls[c] >= f.id BY <2>5 DEF Since
  <2>7. cls[c] \in 0..calls /\ calls \in Nat
    BY <2>6, JniAssumption DEF Typed, JniAssumption
  <2>8. AtStep(t)[1] # "loop" => f.id = calls
    <3>1. AtStep(t)[1] # "loop" => Busy(t) BY DEF Busy
    <3> QED BY <3>1 DEF RefsInv, Newest
  <2>9. cls[c] = f.id
    <3> HIDE DEF f, c
    <3>1. ~(AtStep(t)[1] = "loop" /\ cls[c] > f.id) BY DEF f, c
    <3> QED BY <2>1, <2>6, <2>7, <2>8, <3>1
  <2>10. Len(stack[t]) \in DOMAIN stack[t] BY <2>1
  <2> QED BY <2>1, <2>9, <2>10
<1>2. Init => RefsInv
  <2> SUFFICES ASSUME Init PROVE RefsInv
    OBVIOUS
  <2>1. \A t \in Threads : stack[t] = <<>> BY DEF Init
  <2>2. \A t \in Threads : ~Busy(t) BY <2>1 DEF Busy, InJava
  <2> QED BY <2>1, <2>2 DEF RefsInv, Finders, Newest
<1>3. Typed /\ IdsInv /\ RefsInv /\ [Next]_vars => (Typed /\ IdsInv /\ RefsInv)'
  <2> SUFFICES ASSUME Typed, IdsInv, RefsInv, [Next]_vars PROVE RefsInv'
    BY TypedNext, IdsNext
  <2>1. Typed' /\ IdsInv' BY TypedNext, IdsNext
  <2>2. UNCHANGED vars => RefsInv'
    <3> SUFFICES ASSUME UNCHANGED vars PROVE RefsInv'
      OBVIOUS
    <3>1. \A u \in Threads : Busy(u)' <=> Busy(u) BY SameThread DEF vars
    <3> QED BY <3>1 DEF RefsInv, Finders, Since, Newest, vars
  <2> QED BY <2>1, <2>2, RefsCalled, RefsWithin, RefsSwitched, StepCases
<1> QED BY <1>1, <1>2, <1>3, IdsInit, PTL DEF Spec
=============================================================================
