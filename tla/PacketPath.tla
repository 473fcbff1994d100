----------------------------- MODULE PacketPath -----------------------------
(***************************************************************************)
(* Packets between libpcap and the user of jxnet-packet: the loops of      *)
(* PacketHelper and its next and nextEx, which decode a captured frame     *)
(* layer by layer and hand a layer or all of them to the user, and the     *)
(* packets that a user builds and sends, which the handles capture again.  *)
(*                                                                         *)
(* Every thread has a handle of its own on the same interface and, in a    *)
(* loop with an AbstractPacketListener, a listener of its own.  The number *)
(* of the packet is a static field that all threads share.                 *)
(***************************************************************************)
EXTENDS PacketCodecs, SequencesExt

CONSTANTS
  Threads,
  Links,      \* link types of the interface
  Foreign,    \* Foreign[l]: the frames that others send on an interface of type l
  Snaplen,    \* the snapshot length of the handles
  Jobs,       \* Jobs[t]: the calls that t may make: [kind, wanted, number, user]
  Templates,  \* lists of packets that users give to PacketBuilder
  Rebuilt,    \* the classes of lists that are built more than once
  MaxFrames   \* bound: frames on the interface

ASSUME PacketPathAssumption ==
  /\ Links \subseteq {"EN10MB", "IEEE802_11_RADIO", "LINUX_SLL", "PPP"}
  /\ Snaplen \in Nat /\ MaxFrames \in Nat
  /\ \A t \in Threads : Null \notin Jobs[t]
  /\ \A l \in Links : Foreign[l] \subseteq Seq(0 .. 255)

VARIABLES
  link,          \* the link type
  frames,        \* how many frames the interface has seen
  queue,         \* queue[t]: frames captured and not yet read
  packetNumber,  \* PacketHelper.packetNumber
  thread         \* thread[t]: where t is and its local variables

vars == <<link, frames, queue, packetNumber, thread>>

(* A frame: its number, its bytes, and the packets it was built of, if it  *)
(* was built here.                                                         *)
Frame(n, bytes, built) == [id |-> n, bytes |-> bytes, built |-> built]

NoFrame == Frame(0, << >>, << >>)

Idle == [pc |-> "idle", job |-> Null, cur |-> NoFrame, read |-> 0, number |-> 0, hdr |-> 0,
         packet |-> Null, stage |-> "none", result |-> << >>, count |-> 1, given |-> Null,
         pending |-> FALSE, layers |-> << >>, at |-> 0, entered |-> 0, alone |-> FALSE]

Init ==
  /\ link \in Links
  /\ frames = 0
  /\ queue = [t \in Threads |-> << >>]
  /\ packetNumber = 0
  /\ thread = [t \in Threads |-> Idle]

Loops(t) == thread[t].job # Null /\ thread[t].job.kind \in {"handler", "listener", "abstract"}

(* A frame on the interface reaches every handle. *)
Transmit(bytes, built) ==
  /\ frames < MaxFrames
  /\ frames' = frames + 1
  /\ queue' = [t \in Threads |-> Append(queue[t], Frame(frames + 1, bytes, built))]

Arrive ==
  /\ \E b \in Foreign[link] : Transmit(b, << >>)
  /\ UNCHANGED <<link, packetNumber, thread>>

(* libpcap cuts a packet to the snapshot length. *)
Captured(f) == SubSeq(f.bytes, 1, IF Len(f.bytes) > Snaplen THEN Snaplen ELSE Len(f.bytes))

-----------------------------------------------------------------------------
(***************************************************************************)
(* The loops.                                                              *)
(***************************************************************************)

RootClass(l) == CASE l = "EN10MB" -> "Ethernet" [] l = "IEEE802_11_RADIO" -> "RadioTap"
                  [] l = "LINUX_SLL" -> "SLL" [] OTHER -> "Unknown"

(* Mutant of Loop: the number of the loop before is kept. *)
LoopKeepsNumber(t, j) ==
  LET clash == j.kind = "abstract"
      others == {u \in Threads \ {t} : Loops(u) /\ thread[u].job.kind = "abstract"}
  IN  /\ thread[t].pc = "idle"
      /\ j.kind \in {"handler", "listener", "abstract"}
      /\ thread' = [u \in Threads |->
                      IF u = t THEN [Idle EXCEPT !.pc = "loop", !.job = j, !.alone = clash /\ others = {}]
                      ELSE IF clash THEN [thread[u] EXCEPT !.alone = FALSE] ELSE thread[u]]
      /\ UNCHANGED <<link, frames, queue, packetNumber>>

(* The packet numbers of an abstract listener's loop are its own as long   *)
(* as no other such loop runs.                                             *)
Loop(t, j) ==
  LET others == {u \in Threads \ {t} : Loops(u) /\ thread[u].job.kind = "abstract"}
      clash == j.kind = "abstract"
  IN  /\ thread[t].pc = "idle"
      /\ j.kind \in {"handler", "listener", "abstract"}
      /\ packetNumber' = IF clash THEN 0 ELSE packetNumber
      /\ thread' = [u \in Threads |->
                      IF u = t THEN [Idle EXCEPT !.pc = "loop", !.job = j, !.alone = clash /\ others = {}]
                      ELSE IF clash THEN [thread[u] EXCEPT !.alone = FALSE] ELSE thread[u]]
      /\ UNCHANGED <<link, frames, queue>>

(* Starts to decode bytes as the link type says. *)
Decoding(r, bytes) ==
  [r EXCEPT !.pc = "decode", !.stage = link, !.packet = NewInstance(RootClass(link), bytes),
            !.result = IF r.job.kind = "listener" THEN Null ELSE << >>, !.count = 1]

(* pcap_callback.  The handler of an abstract listener numbers the packet  *)
(* first.                                                                  *)
Callback(t) ==
  LET r == [thread[t] EXCEPT !.cur = Head(queue[t]), !.entered = @ + 1]
  IN  /\ thread[t].pc = "loop"
      /\ queue[t] # << >>
      /\ queue' = [queue EXCEPT ![t] = Tail(@)]
      /\ thread' = [thread EXCEPT ![t] = IF r.job.kind = "abstract" THEN [r EXCEPT !.pc = "number"]
                                         ELSE Decoding(r, Captured(r.cur))]
      /\ UNCHANGED <<link, frames, packetNumber>>

(* With an exception pending, what the JNI calls of pcap_callback do is    *)
(* undefined: the handler may also not be called.                          *)
CallbackLost(t) ==
  /\ thread[t].pc = "loop"
  /\ thread[t].pending
  /\ queue[t] # << >>
  /\ queue' = [queue EXCEPT ![t] = Tail(@)]
  /\ UNCHANGED <<link, frames, packetNumber, thread>>

(* ++packetNumber reads the static field ... *)
ReadNumber(t) ==
  /\ thread[t].pc = "number"
  /\ thread' = [thread EXCEPT ![t].read = packetNumber, ![t].pc = "initialize"]
  /\ UNCHANGED <<link, frames, queue, packetNumber>>

(* Mutant of Initialize: the header of the first packet is kept. *)
InitializeOnce(t) ==
  LET r == thread[t]
  IN  /\ r.pc = "initialize"
      /\ packetNumber' = r.read + 1
      /\ thread' = [thread EXCEPT ![t] =
                      Decoding([r EXCEPT !.number = r.read + 1, !.read = 0,
                                         !.hdr = IF @ = 0 THEN r.cur.id ELSE @], Captured(r.cur))]
      /\ UNCHANGED <<link, frames, queue>>

(* ... and writes it; initialize keeps the number and the header. *)
Initialize(t) ==
  LET r == thread[t]
  IN  /\ r.pc = "initialize"
      /\ packetNumber' = r.read + 1
      /\ thread' = [thread EXCEPT ![t] =
                      Decoding([r EXCEPT !.number = r.read + 1, !.hdr = r.cur.id, !.read = 0],
                               Captured(r.cur))]
      /\ UNCHANGED <<link, frames, queue>>

(* nextPacket of the user, with a header and a packet or a map of packets. *)
Give(r, what) == [r EXCEPT !.pc = "user", !.packet = Null,
                           !.given = [hdr |-> IF r.job.kind = "abstract" THEN r.hdr ELSE r.cur.id,
                                      what |-> what]]

(* The handler returns to the loop: what remains is the listener's state. *)
Waiting(r) == [Idle EXCEPT !.pc = "loop", !.job = r.job, !.number = r.number, !.hdr = r.hdr,
                           !.pending = r.pending, !.entered = r.entered, !.alone = r.alone]

(* An exception leaves the handler and stays pending in the native loop;   *)
(* next and nextEx throw it to their caller.                               *)
Raise(r) == IF r.job.kind \in {"next", "nextEx"} THEN Idle
            ELSE [Waiting(r) EXCEPT !.pending = TRUE]

(* Mutant of FallsTo: after the last case comes the first again. *)
FallsToFirst(l) == CASE l = "EN10MB" -> "IEEE802_11_RADIO" [] l = "IEEE802_11_RADIO" -> "LINUX_SLL" [] OTHER -> "EN10MB"

(* AbstractPacketListener.decode: the first layer of the wanted class.     *)
(* The cases of the switch have no break: a frame without such a layer is  *)
(* decoded again as the next link type, and in the end null is handed on.  *)
FallsTo(l) == CASE l = "EN10MB" -> "IEEE802_11_RADIO" [] l = "IEEE802_11_RADIO" -> "LINUX_SLL" [] OTHER -> "none"

DecodeAbstract(r) ==
  CASE r.stage \notin {"EN10MB", "IEEE802_11_RADIO", "LINUX_SLL"} -> Give(r, Null)
    [] r.packet = Thrown -> Raise(r)
    [] r.packet.class = r.job.wanted -> Give(r, r.packet)
    [] r.packet = Null ->
         [r EXCEPT !.stage = FallsTo(@),
                   !.packet = IF FallsTo(r.stage) = "none" THEN Null
                              ELSE NewInstance(RootClass(FallsTo(r.stage)), Captured(r.cur))]
    [] OTHER -> [r EXCEPT !.packet = GetPacket(r.packet)]

(* parsePacket with the annotation of a PacketListener's parameter: the    *)
(* number-th layer of the wanted class, or the last one for number 0; the  *)
(* whole frame without annotation.                                         *)
DecodeTyped(r) ==
  LET match == r.packet.class = r.job.wanted
  IN  CASE r.packet = Thrown -> Raise(r)
        [] r.stage \notin {"EN10MB", "IEEE802_11_RADIO", "LINUX_SLL"} \/ r.job.wanted = "none" ->
             Give(r, r.packet)
        [] r.packet = Null -> Give(r, r.result)
        [] match /\ r.job.number = r.count -> Give(r, r.packet)
        [] OTHER -> [r EXCEPT !.packet = GetPacket(r.packet),
                              !.result = IF match /\ r.job.number = 0 THEN r.packet ELSE @,
                              !.count = IF match /\ r.job.number # 0 THEN @ + 1 ELSE @]

(* parsePacket into a map: of several layers of a class it keeps the last. *)
(* A packet of an unknown link type is not put into it.                    *)
DecodeMap(r) ==
  CASE r.packet = Thrown -> Raise(r)
    [] r.packet = Null -> Give(r, r.result)
    [] OTHER -> [r EXCEPT !.packet = GetPacket(r.packet),
                          !.result = IF RootClass(r.stage) = "Unknown" THEN @
                                     ELSE (r.packet.class :> r.packet) @@ @]

Decode(t) ==
  LET r == thread[t]
  IN  /\ r.pc = "decode"
      /\ thread' = [thread EXCEPT ![t] = CASE r.job.kind = "abstract" -> DecodeAbstract(r)
                                           [] r.job.kind = "listener" -> DecodeTyped(r)
                                           [] OTHER -> DecodeMap(r)]
      /\ UNCHANGED <<link, frames, queue, packetNumber>>

(* PcapLoop returns between two packets, and throws what is pending. *)
LoopReturns(t) ==
  /\ thread[t].pc = "loop"
  /\ thread' = [thread EXCEPT ![t] = Idle]
  /\ UNCHANGED <<link, frames, queue, packetNumber>>

-----------------------------------------------------------------------------
(***************************************************************************)
(* PacketHelper.next and nextEx.                                           *)
(***************************************************************************)

NextPacket(t, j) ==
  /\ thread[t].pc = "idle"
  /\ j.kind = "next"
  /\ queue[t] # << >>
  /\ queue' = [queue EXCEPT ![t] = Tail(@)]
  /\ thread' = [thread EXCEPT ![t] = Decoding([Idle EXCEPT !.job = j, !.cur = Head(queue[t])],
                                              Captured(Head(queue[t])))]
  /\ UNCHANGED <<link, frames, packetNumber>>

(* PcapNextEx puts the packet into a buffer of the snapshot length, whose  *)
(* position is then behind it.  toByteArray takes the bytes from the       *)
(* position on: the packet itself only if it fills the buffer, else the    *)
(* zeros after it.  After a timeout the whole buffer is zero.              *)
Remaining(b) == IF Len(b) = Snaplen THEN b ELSE [i \in 1 .. Snaplen - Len(b) |-> 0]

NextEx(t, j) ==
  LET f == IF queue[t] = << >> THEN NoFrame ELSE Head(queue[t])
  IN  /\ thread[t].pc = "idle"
      /\ j.kind = "nextEx"
      /\ queue' = [queue EXCEPT ![t] = IF @ = << >> THEN @ ELSE Tail(@)]
      /\ thread' = [thread EXCEPT ![t] = Decoding([Idle EXCEPT !.job = j, !.cur = f],
                                                  Remaining(Captured(f)))]
      /\ UNCHANGED <<link, frames, packetNumber>>

-----------------------------------------------------------------------------
(***************************************************************************)
(* The user's code: it returns, throws, or builds packets and sends them,  *)
(* as job.user says.                                                       *)
(***************************************************************************)

UserReturns(t) ==
  /\ thread[t].pc = "user"
  /\ thread' = [thread EXCEPT ![t] = IF Loops(t) THEN Waiting(@) ELSE Idle]
  /\ UNCHANGED <<link, frames, queue, packetNumber>>

UserThrows(t) ==
  /\ thread[t].pc = "user" /\ thread[t].job.user = "throws"
  /\ thread' = [thread EXCEPT ![t] = Raise(@)]
  /\ UNCHANGED <<link, frames, queue, packetNumber>>

(* PacketBuilder.build of new packets, or again of the ones just sent. *)
Build(t, packets) ==
  /\ thread[t].pc = "user"
  /\ link = "EN10MB" /\ thread[t].job.user = "replies"
  /\ thread' = [thread EXCEPT ![t].pc = "build", ![t].layers = packets, ![t].at = Len(packets)]
  /\ UNCHANGED <<link, frames, queue, packetNumber>>

NewBuild(t) == thread[t].layers = << >> /\ frames < MaxFrames /\ \E packets \in Templates : Build(t, packets)

Rebuild(t) ==
  LET packets == thread[t].layers
  IN  [i \in DOMAIN packets |-> packets[i].class] \in Rebuilt /\ frames < MaxFrames /\ Build(t, packets)

(* One turn of build: each packet is set as the payload of the one before, *)
(* from the innermost outwards.                                            *)
Built(r, j) ==
  IF j = Thrown THEN Raise(r)
  ELSE [r EXCEPT !.layers = [@ EXCEPT ![r.at - 1] = j.outer, ![r.at] = j.inner], !.at = @ - 1]

Join(t) ==
  LET r == thread[t]
  IN  /\ r.pc = "build"
      /\ r.at > 1
      /\ thread' = [thread EXCEPT ![t] = Built(r, SetPacket(r.layers[r.at - 1], r.layers[r.at]))]
      /\ UNCHANGED <<link, frames, queue, packetNumber>>

(* sendPacket encodes the outermost packet.  The handle is open as long as *)
(* its loop runs; libpcap may still fail to send, which exceptionCaught is *)
(* told of.                                                                *)
Encoded(t, r, e) ==
  IF e = Thrown
  THEN thread' = [thread EXCEPT ![t] = Raise(r)] /\ UNCHANGED <<frames, queue>>
  ELSE /\ \/ Transmit(e.bytes, [r.layers EXCEPT ![1] = e.packet])
          \/ UNCHANGED <<frames, queue>>
       /\ thread' = [thread EXCEPT ![t].pc = "user", ![t].layers[1] = e.packet]

SendPacket(t) ==
  LET r == thread[t]
  IN  /\ r.pc = "build"
      /\ r.at = 1
      /\ Encoded(t, r, ToBytes(r.layers[1]))
      /\ UNCHANGED <<link, packetNumber>>

-----------------------------------------------------------------------------

Next ==
  \/ Arrive
  \/ \E t \in Threads :
       \/ Callback(t) \/ CallbackLost(t) \/ ReadNumber(t) \/ Initialize(t) \/ Decode(t)
       \/ LoopReturns(t) \/ UserReturns(t) \/ UserThrows(t)
       \/ \E j \in Jobs[t] : Loop(t, j) \/ NextPacket(t, j) \/ NextEx(t, j)
       \/ NewBuild(t) \/ Rebuild(t) \/ Join(t) \/ SendPacket(t)

Spec == Init /\ [][Next]_vars

-----------------------------------------------------------------------------
(***************************************************************************)
(* Properties.                                                             *)
(***************************************************************************)

(* Each part of the state has its type. *)
TypeOK ==
  /\ link \in Links
  /\ frames \in 0 .. MaxFrames
  /\ packetNumber \in 0 .. MaxFrames * Cardinality(Threads)
  /\ \A t \in Threads :
       /\ thread[t].pc \in {"idle", "loop", "number", "initialize", "decode", "user", "build"}
       /\ thread[t].job \in Jobs[t] \union {Null}
       /\ thread[t].pc = "idle" <=> thread[t] = Idle
       /\ thread[t].number \in 0 .. MaxFrames * Cardinality(Threads)
       /\ thread[t].entered \in 0 .. frames
       /\ thread[t].at \in 0 .. Len(thread[t].layers)
       /\ Len(queue[t]) <= frames

(* The layers of a frame that starts with a header of class root, by the   *)
(* chain of getPacket: c[n] holds the chain of n steps.                    *)
Layers(root, bytes) ==
  LET depth == 8
      c[n \in 0 .. depth] ==
        IF n = 0 THEN {<<NewInstance(root, bytes)>>}
        ELSE {IF Last(s) \in {Null, Thrown} THEN s ELSE Append(s, GetPacket(Last(s))) : s \in c[n - 1]}
  IN  SelectSeq(CHOOSE s \in c[depth] : TRUE, LAMBDA p : p # Null)

OfClass(layers, class) == SelectSeq(layers, LAMBDA p : p.class = class)

(* The headers that a frame of link type l is decoded from: the one of l,  *)
(* and then in AbstractPacketListener.decode, whose cases have no breaks,  *)
(* those of the cases below.                                               *)
Roots(l) ==
  CASE l = "EN10MB" -> <<"Ethernet", "RadioTap", "SLL">> [] l = "IEEE802_11_RADIO" -> <<"RadioTap", "SLL">>
    [] l = "LINUX_SLL" -> <<"SLL">> [] OTHER -> <<"Unknown">>

Readings(bytes) == [i \in 1 .. Len(Roots(link)) |-> Layers(Roots(link)[i], bytes)]

(* The first layer of a class among those that are read. *)
FirstFound(class, readings) ==
  LET some == {i \in DOMAIN readings : OfClass(readings[i], class) # << >>}
  IN  IF some = {} THEN Null ELSE Head(OfClass(readings[CHOOSE i \in some : \A k \in some : i <= k], class))

(* What a job should be given of a frame. *)
Expected(job, readings) ==
  LET all == Head(readings)
      some == OfClass(all, job.wanted)
  IN  CASE job.kind = "abstract" ->
             IF RootClass(link) = "Unknown" THEN Null ELSE FirstFound(job.wanted, readings)
        [] job.kind = "listener" ->
             IF job.wanted = "none" \/ RootClass(link) = "Unknown" THEN Head(all)
             ELSE IF job.number = 0 /\ some # << >> THEN Last(some)
             ELSE IF job.number \in DOMAIN some THEN some[job.number] ELSE Null
        [] OTHER -> IF RootClass(link) = "Unknown" THEN << >>
                    ELSE [c \in {all[i].class : i \in DOMAIN all} |-> Last(OfClass(all, c))]

(* PacketHelper and AbstractPacketListener.decode: whatever other threads  *)
(* capture meanwhile, a user is given the header of the very packet it is  *)
(* called for and the layer asked for of that packet's bytes, or all its   *)
(* layers in a map.  A PacketListener is given null exactly if the packet  *)
(* has no such layer.  An AbstractPacketListener is not: its cases have no *)
(* breaks, so that for want of the layer it is handed the RadioTap or SLL, *)
(* or a layer behind that SLL, that the same bytes would make; null only   *)
(* if none of these is of the class.  For nextEx this holds of packets     *)
(* that fill the snapshot length.                                          *)
HandedOwnPacket ==
  \A t \in Threads :
    LET r == thread[t]
    IN  r.pc = "user" /\ (r.job.kind = "nextEx" => Len(Captured(r.cur)) = Snaplen)
          => /\ r.given.hdr = r.cur.id
             /\ r.given.what = Expected(r.job, Readings(Captured(r.cur)))

(* PacketHelper.loop: the packets of a loop that no other one overlaps are *)
(* numbered 1, 2, 3 ..., also after exceptions and after earlier loops.    *)
NumbersCount ==
  \A t \in Threads :
    LET r == thread[t]
    IN  r.pc \in {"decode", "user", "build"} /\ r.alone => r.number = r.entered

(* The layers that user r was given. *)
GivenLayers(r) ==
  IF r.given.what = Null THEN {}
  ELSE IF "class" \in DOMAIN r.given.what THEN {r.given.what}
  ELSE {r.given.what[c] : c \in DOMAIN r.given.what}

Whole(r) == r.job.kind # "nextEx" /\ Len(r.cur.bytes) <= Snaplen

(* The layers of which r can tell: IPv6 behind an Ethernet header, which   *)
(* ProtocolType.decode never finds, is decoded here.                       *)
Arrived(r) ==
  LET ip6 == {p \in GivenLayers(r) : p.class = "Ethernet" /\ Short(p.type) = 34525}
  IN  GivenLayers(r) \union UNION {{Layers("IPv6", p.next)[i] : i \in DOMAIN Layers("IPv6", p.next)} : p \in ip6}

(* The layers of a packet that was built which the code puts on the wire:  *)
(* IPv4.setPacket, which misspells the class UDP, drops what is in it.     *)
OnWire(built) ==
  LET dropped(k) == \E i \in 2 .. k : built[i - 1].class = "IPv4" /\ built[i].class = "UDP"
  IN  {built[k] : k \in {i \in DOMAIN built : ~dropped(i)}}

(* PacketBuilder.build, toBytes and newInstance: a packet that was built,  *)
(* sent and captured whole is decoded to the fields and the payload it was *)
(* built with, but for what the setters lose (Kept), and no layer is lost  *)
(* on the way or added.  Three exceptions: UDP in IPv4 is lost (IPv4.java, *)
(* line 287), the destination of an IPv6 packet arrives as its source      *)
(* (IPv6.java, line 320), and an abstract listener for a class that was    *)
(* not built may be handed a layer that is not there (HandedOwnPacket).    *)
BuiltArrives ==
  \A t \in Threads :
    LET r == thread[t]
        built == OnWire(r.cur.built)
        field(p, f) == IF p.class = "IPv6" /\ f = "dst" THEN p.src ELSE Kept(p.layout, f, p[f])
        asked == r.job.kind = "abstract" => \E q \in built : q.class = r.job.wanted
    IN  r.pc = "user" /\ built # {} /\ Whole(r) /\ asked =>
          /\ \A p \in Arrived(r) : \E q \in built :
               /\ p.class = q.class /\ p.layout = q.layout /\ p.options = q.options
               /\ \A f \in Names(p.layout) : p[f] = field(q, f)
               /\ IF p.class = "Ethernet" THEN IsPrefix(q.next, p.next) ELSE p.next = q.next
          /\ r.job.kind \in {"handler", "next"} =>
               {p.class : p \in Arrived(r)} \ {"Unknown"} = {q.class : q \in built} \ {"Unknown"}

(* The one's complement sum of RFC 1071, with all carries. *)
Verifies(b, pseudo) ==
  LET fold(n) == (n \div 65536) + (n % 65536)
  IN  fold(fold(WordSum(b) + pseudo)) = 65535

(* IPv4.toBytes, IPv4.setPacket and ICMPv4.toBytes: the IPv4 packets of a  *)
(* frame that was built and sent have their length in the header, and the  *)
(* checksums of the header and of the TCP segment or ICMP message in it    *)
(* are right.  Packets are built once; over IPv6 the checksum is not right *)
(* (the destination on the wire is another one), which is not asked.       *)
WireValid ==
  \A t \in Threads : \A k \in DOMAIN queue[t] :
    LET f == queue[t][k]
        ip == SubSeq(f.bytes, 15, Len(f.bytes))
        n == 4 * (ip[1] % 16)
        payload == SubSeq(ip, n + 1, Len(ip))
        pseudo == WordSum(SubSeq(ip, 13, 20)) + ip[10] + Len(payload)
    IN  f.built # << >> /\ Short(SubSeq(f.bytes, 13, 14)) = 2048 =>
          /\ Short(SubSeq(ip, 3, 4)) = Len(ip)
          /\ Verifies(SubSeq(ip, 1, n), 0)
          /\ ip[10] = 6 => Verifies(payload, pseudo)
          /\ ip[10] = 1 => Verifies(payload, 0)

Rank(stage) ==
  CASE stage = "EN10MB" -> 3
    [] stage = "IEEE802_11_RADIO" -> 2
    [] stage = "LINUX_SLL" -> 1
    [] OTHER -> 0

BytesLeft(p) ==
  CASE p = Null -> 0
    [] p = Thrown -> 1
    [] OTHER -> 2 + HeaderLength[p.layout] + Len(p.options) + Len(p.next)

Advances(old, new) ==
  \/ Rank(new.stage) < Rank(old.stage)
  \/ /\ new.stage = old.stage
     /\ BytesLeft(new.packet) < BytesLeft(old.packet)

(* AbstractPacketListener.decode and parsePacket: the loops over getPacket *)
(* and the cases that fall through cannot run for ever, since every turn   *)
(* works on fewer bytes than the one before or on a later link type.       *)
DecodingAdvances ==
  [][\A t \in Threads :
       Decode(t) /\ thread'[t].pc = "decode" => Advances(thread[t], thread'[t])]_vars

=============================================================================
