-------------------------- MODULE PacketPathProofs --------------------------
(***************************************************************************)
(* What the loops of PacketHelper promise, for any threads, jobs and       *)
(* frames: how the packets are numbered.                                   *)
(***************************************************************************)
EXTENDS PacketPath, TLAPS

-----------------------------------------------------------------------------
(* Numbers.                                                                *)

Places == {"idle", "loop", "number", "initialize", "decode", "user", "build"}

(* r is the record of a loop with an abstract listener.                    *)
Abstract(r) == r.job # Null /\ r.job.kind = "abstract"

(* Nobody but an abstract listener numbers a packet.                       *)
Shape(r) ==
  /\ DOMAIN r = DOMAIN Idle
  /\ r.pc \in Places /\ r.read \in Nat
  /\ r.pc # "idle" => r.job # Null
  /\ r.pc \in {"number", "initialize"} => Abstract(r)

(* The static field n is the number of callbacks, or one less while one is *)
(* being numbered.                                                         *)
Counts(r, n) ==
  /\ Abstract(r)
  /\ r.entered \in Nat /\ r.pc # "idle"
  /\ r.pc \in {"loop", "decode", "user", "build"} => n = r.entered
  /\ r.pc \in {"decode", "user", "build"} => r.number = r.entered
  /\ r.pc \in {"number", "initialize"} => n + 1 = r.entered
  /\ r.pc = "initialize" => r.read = n

(* While the loop of t is alone, the static field is its own.              *)
NumberInv ==
  /\ DOMAIN thread = Threads
  /\ packetNumber \in Nat
  /\ \A t \in Threads :
       /\ Shape(thread[t])
       /\ thread[t].alone =>
            /\ Counts(thread[t], packetNumber)
            /\ \A u \in Threads \ {t} : ~Abstract(thread[u])

(* A step of one thread, that leaves the number alone unless the thread has*)
(* an abstract listener.                                                   *)
LEMMA Moves ==
  ASSUME NumberInv, NEW t \in Threads, NEW r, thread' = [thread EXCEPT ![t] = r],
         Shape(r), Abstract(r) => Abstract(thread[t]),
         r.alone => thread[t].alone /\ Counts(r, packetNumber'),
         packetNumber' \in Nat, packetNumber' = packetNumber \/ Abstract(thread[t])
  PROVE  NumberInv'
<1>1. DOMAIN thread' = Threads BY DEF NumberInv
<1>2. thread'[t] = r /\ \A u \in Threads \ {t} : thread'[u] = thread[u] BY DEF NumberInv
<1>3. ASSUME NEW u \in Threads PROVE Shape(thread'[u])
  BY <1>2 DEF NumberInv
<1>4. ASSUME NEW u \in Threads, thread'[u].alone
      PROVE  /\ Counts(thread'[u], packetNumber')
             /\ \A v \in Threads \ {u} : ~Abstract(thread'[v])
  <2>1. CASE u = t
    <3>1. thread[t].alone /\ Counts(r, packetNumber') BY <1>2, <1>4, <2>1
    <3>2. \A v \in Threads \ {t} : ~Abstract(thread[v]) BY <3>1 DEF NumberInv
    <3> QED BY <1>2, <2>1, <3>1, <3>2
  <2>2. CASE u # t
    <3>1. thread[u].alone /\ thread'[u] = thread[u] BY <1>2, <1>4, <2>2
    <3>2. /\ Counts(thread[u], packetNumber)
          /\ \A v \in Threads \ {u} : ~Abstract(thread[v])
        BY <3>1 DEF NumberInv
    <3>3. ~Abstract(thread[t]) BY <2>2, <3>2
    <3>4. packetNumber' = packetNumber /\ ~Abstract(r) BY <3>3
    <3> QED BY <1>2, <3>1, <3>2, <3>4
  <2> QED BY <2>1, <2>2
<1>5. Shape(r)' = Shape(r) OBVIOUS
<1> QED BY <1>1, <1>3, <1>4 DEF NumberInv

(* What the handler does with a record keeps what numbers are about.       *)
Similar(r, q) ==
  /\ DOMAIN q = DOMAIN r
  /\ q.job = r.job /\ q.alone = r.alone /\ q.entered = r.entered /\ q.number = r.number
  /\ q.read \in {r.read, 0}

LEMMA GiveKeeps ==
  ASSUME NEW r, DOMAIN r = DOMAIN Idle, NEW what
  PROVE  Similar(r, Give(r, what)) /\ Give(r, what).pc = "user"
BY DEF Give, Similar, Idle

LEMMA DecodingKeeps ==
  ASSUME NEW r, DOMAIN r = DOMAIN Idle, NEW bytes
  PROVE  Similar(r, Decoding(r, bytes)) /\ Decoding(r, bytes).pc = "decode"
BY DEF Decoding, Similar, Idle

LEMMA RaiseKeeps ==
  ASSUME NEW r, DOMAIN r = DOMAIN Idle
  PROVE  /\ DOMAIN Raise(r) = DOMAIN Idle /\ DOMAIN Waiting(r) = DOMAIN Idle
         /\ r.job.kind \notin {"next", "nextEx"} => Raise(r).pc = "loop" /\ Similar(r, Raise(r))
         /\ r.job.kind \in {"next", "nextEx"} => Raise(r) = Idle
         /\ Waiting(r).pc = "loop" /\ Similar(r, Waiting(r))
BY DEF Raise, Waiting, Similar, Idle

(* One turn of decoding ends in the user's code, goes on, or throws.       *)
LEMMA DecodeKeeps ==
  ASSUME NEW r, DOMAIN r = DOMAIN Idle, r.pc = "decode",
         NEW q, q \in {DecodeAbstract(r), DecodeTyped(r), DecodeMap(r)}
  PROVE  \/ q = Raise(r)
         \/ Similar(r, q) /\ q.pc \in {"user", "decode"}
<1>1. ASSUME NEW what, q = Give(r, what) PROVE Similar(r, q) /\ q.pc \in {"user", "decode"}
  BY <1>1, GiveKeeps
<1>2. ASSUME NEW b, q = [r EXCEPT !.packet = b]
      PROVE  Similar(r, q) /\ q.pc \in {"user", "decode"}
  BY <1>2 DEF Similar, Idle
<1>3. ASSUME NEW a, NEW b, q = [r EXCEPT !.stage = a, !.packet = b]
      PROVE  Similar(r, q) /\ q.pc \in {"user", "decode"}
  BY <1>3 DEF Similar, Idle
<1>4. ASSUME NEW b, NEW c, q = [r EXCEPT !.packet = b, !.result = c]
      PROVE  Similar(r, q) /\ q.pc \in {"user", "decode"}
  BY <1>4 DEF Similar, Idle
<1>5. ASSUME NEW b, NEW c, NEW d, q = [r EXCEPT !.packet = b, !.result = c, !.count = d]
      PROVE  Similar(r, q) /\ q.pc \in {"user", "decode"}
  BY <1>5 DEF Similar, Idle
<1>6. CASE q = DecodeAbstract(r)
  <2>1. \/ q = Raise(r) \/ q = Give(r, Null) \/ q = Give(r, r.packet)
        \/ q = [r EXCEPT !.stage = FallsTo(r.stage),
                         !.packet = IF FallsTo(r.stage) = "none" THEN Null
                                    ELSE NewInstance(RootClass(FallsTo(r.stage)), Captured(r.cur))]
        \/ q = [r EXCEPT !.packet = GetPacket(r.packet)]
    BY ONLY <1>6 DEF DecodeAbstract
  <2> QED BY ONLY <1>1, <1>2, <1>3, <2>1
<1>7. CASE q = DecodeTyped(r)
  <2> DEFINE match == r.packet.class = r.job.wanted
             b == GetPacket(r.packet)
             c == IF match /\ r.job.number = 0 THEN r.packet ELSE r.result
             d == IF match /\ r.job.number # 0 THEN r.count + 1 ELSE r.count
  <2>1. \/ q = Raise(r) \/ q = Give(r, r.result) \/ q = Give(r, r.packet)
        \/ q = [r EXCEPT !.packet = b, !.result = c, !.count = d]
    BY ONLY <1>7 DEF DecodeTyped
  <2> HIDE DEF b, c, d
  <2> QED BY ONLY <1>1, <1>5, <2>1
<1>8. CASE q = DecodeMap(r)
  <2> DEFINE b == GetPacket(r.packet)
             c == IF RootClass(r.stage) = "Unknown" THEN r.result
                  ELSE (r.packet.class :> r.packet) @@ r.result
  <2>1. \/ q = Raise(r) \/ q = Give(r, r.result)
        \/ q = [r EXCEPT !.packet = b, !.result = c]
    BY ONLY <1>8 DEF DecodeMap
  <2> HIDE DEF b, c
  <2> QED BY ONLY <1>1, <1>4, <2>1
<1> QED BY <1>6, <1>7, <1>8

(* Every step keeps the invariant. *)
LEMMA NumbersNext == NumberInv /\ [Next]_vars => NumberInv'
<1> SUFFICES ASSUME NumberInv, [Next]_vars PROVE NumberInv'
    OBVIOUS
<1>1. ASSUME UNCHANGED <<thread, packetNumber>> PROVE NumberInv'
  BY <1>1 DEF NumberInv
<1>2. CASE Arrive BY <1>1, <1>2 DEF Arrive
<1>3. CASE UNCHANGED vars BY <1>1, <1>3 DEF vars
<1>4. ASSUME NEW t \in Threads
      PROVE  /\ Shape(thread[t]) /\ packetNumber \in Nat
             /\ thread[t].alone => Counts(thread[t], packetNumber)
  BY DEF NumberInv
(* A thread goes on with what it had. *)
<1>5. ASSUME NEW t \in Threads, NEW q, thread' = [thread EXCEPT ![t] = q],
             packetNumber' = packetNumber, Similar(thread[t], q), 
             \/ thread[t].pc \in {"decode", "user", "build"} /\ q.pc \in {"loop", "decode", "user", "build"}
             \/ thread[t].pc = "loop" /\ q.pc = "loop"
      PROVE  NumberInv'
  <2>1. Shape(q) BY <1>4, <1>5 DEF Shape, Similar, Places
  <2>2. Abstract(q) <=> Abstract(thread[t]) BY <1>5 DEF Similar, Abstract
  <2>3. q.alone => thread[t].alone /\ Counts(q, packetNumber')
    BY <1>4, <1>5, <2>2 DEF Similar, Counts
  <2> QED BY <1>4, <1>5, <2>1, <2>2, <2>3, Moves
(* Or becomes idle, or starts to decode for next and nextEx. *)
<1>6. ASSUME NEW t \in Threads, NEW q, thread' = [thread EXCEPT ![t] = q],
             packetNumber' = packetNumber, DOMAIN q = DOMAIN Idle, q.pc \in {"idle", "decode"},
             q.pc = "decode" => q.job # Null, q.read = 0, q.alone = FALSE, ~Abstract(q)
      PROVE  NumberInv'
  <2>1. Shape(q) BY <1>6 DEF Shape, Places
  <2> QED BY <1>4, <1>6, <2>1, Moves
<1>7. ASSUME NEW t \in Threads, thread' = [thread EXCEPT ![t] = Idle], packetNumber' = packetNumber
      PROVE  NumberInv'
  <2>1. Idle.pc = "idle" /\ Idle.alone = FALSE /\ Idle.read = 0 /\ ~Abstract(Idle) BY DEF Idle, Abstract
  <2> QED BY <1>6, <1>7, <2>1
<1>8. ASSUME NEW t \in Threads, thread[t].pc \in {"decode", "user", "build"},
             thread' = [thread EXCEPT ![t] = Raise(thread[t])], packetNumber' = packetNumber
      PROVE  NumberInv'
  <2>1. DOMAIN thread[t] = DOMAIN Idle BY <1>4 DEF Shape
  <2> QED BY <1>5, <1>7, <1>8, <2>1, RaiseKeeps
<1>9. ASSUME NEW t \in Threads, Callback(t) PROVE NumberInv'
  <2> DEFINE r == [thread[t] EXCEPT !.cur = Head(queue[t]), !.entered = @ + 1]
             q == IF r.job.kind = "abstract" THEN [r EXCEPT !.pc = "number"]
                  ELSE Decoding(r, Captured(r.cur))
  <2>1. thread[t].pc = "loop" /\ thread' = [thread EXCEPT ![t] = q] /\ packetNumber' = packetNumber
    BY <1>9 DEF Callback
  <2>2. DOMAIN thread[t] = DOMAIN Idle BY <1>4 DEF Shape
  <2>3. /\ DOMAIN r = DOMAIN Idle /\ r.job = thread[t].job /\ r.alone = thread[t].alone
        /\ r.entered = thread[t].entered + 1 /\ r.number = thread[t].number
        /\ r.read = thread[t].read
    BY <2>2 DEF Idle
  <2> HIDE DEF r
  <2>4. q.job = r.job /\ q.alone = r.alone /\ q.entered = r.entered /\ DOMAIN q = DOMAIN Idle
        /\ q.read \in {r.read, 0} /\ q.number = r.number /\ q.pc = IF r.job.kind = "abstract" THEN "number" ELSE "decode"
    <3>1. CASE r.job.kind = "abstract" BY <2>3, <3>1 DEF Idle
    <3>2. CASE r.job.kind # "abstract" BY <2>3, <3>2, DecodingKeeps DEF Similar
    <3> QED BY <3>1, <3>2
  <2> HIDE DEF q
  <2>5. Abstract(q) <=> Abstract(thread[t]) BY <2>3, <2>4 DEF Abstract
  <2>6. q.job # Null /\ q.job.kind = "abstract" => Abstract(q) BY DEF Abstract
  <2>7. thread[t].job # Null /\ thread[t].read \in Nat BY <1>4, <2>1 DEF Shape
  <2>8. Shape(q) BY <2>3, <2>4, <2>6, <2>7 DEF Shape, Places
  <2>9. ASSUME q.alone PROVE thread[t].alone /\ Counts(q, packetNumber')
    <3>1. thread[t].alone BY ONLY <2>3, <2>4, <2>9
    <3>2. /\ Abstract(thread[t]) /\ thread[t].entered \in Nat
          /\ packetNumber = thread[t].entered
      BY <1>4, <2>1, <3>1 DEF Counts
    <3>3. q.pc = "number" BY ONLY <2>3, <2>4, <3>2 DEF Abstract
    <3> QED BY ONLY <2>1, <2>3, <2>4, <2>5, <3>1, <3>2, <3>3 DEF Counts
  <2> QED BY <1>4, <2>1, <2>5, <2>8, <2>9, Moves
<1>10. ASSUME NEW t \in Threads, ReadNumber(t) PROVE NumberInv'
  <2> DEFINE q == [thread[t] EXCEPT !.read = packetNumber, !.pc = "initialize"]
  <2>1. thread[t].pc = "number" /\ thread' = [thread EXCEPT ![t] = q] /\ packetNumber' = packetNumber
    BY <1>10 DEF ReadNumber, NumberInv
  <2>2. DOMAIN thread[t] = DOMAIN Idle BY <1>4 DEF Shape
  <2>3. /\ DOMAIN q = DOMAIN Idle /\ q.job = thread[t].job /\ q.alone = thread[t].alone
        /\ q.entered = thread[t].entered /\ q.pc = "initialize" /\ q.read = packetNumber
    BY <2>2 DEF Idle
  <2> HIDE DEF q
  <2>4. Abstract(q) /\ Abstract(thread[t]) BY <1>4, <2>1, <2>3 DEF Abstract, Shape
  <2>5. Shape(q) BY <1>4, <2>3, <2>4 DEF Shape, Places, Abstract
  <2>6. q.alone => thread[t].alone /\ Counts(q, packetNumber')
    BY <1>4, <2>1, <2>3, <2>4 DEF Counts
  <2> QED BY <1>4, <2>1, <2>4, <2>5, <2>6, Moves
<1>11. ASSUME NEW t \in Threads, Initialize(t) PROVE NumberInv'
  <2> DEFINE r == [thread[t] EXCEPT !.number = thread[t].read + 1, !.hdr = thread[t].cur.id, !.read = 0]
             q == Decoding(r, Captured(thread[t].cur))
  <2>1. /\ thread[t].pc = "initialize" /\ thread' = [thread EXCEPT ![t] = q]
        /\ packetNumber' = thread[t].read + 1
    BY <1>11 DEF Initialize
  <2>2. DOMAIN thread[t] = DOMAIN Idle BY <1>4 DEF Shape
  <2>3. /\ DOMAIN r = DOMAIN Idle /\ r.job = thread[t].job /\ r.alone = thread[t].alone
        /\ r.entered = thread[t].entered /\ r.number = thread[t].read + 1
        /\ r.read = 0
    BY <2>2 DEF Idle
  <2> HIDE DEF r
  <2>4. Similar(r, q) /\ q.pc = "decode" BY <2>3, DecodingKeeps
  <2> HIDE DEF q
  <2>5. Abstract(q) /\ Abstract(thread[t])
    BY <1>4, <2>1, <2>3, <2>4 DEF Abstract, Shape, Similar
  <2>6. Shape(q) BY <2>3, <2>4, <2>5 DEF Shape, Places, Similar, Abstract
  <2>7. q.alone => thread[t].alone /\ Counts(q, packetNumber')
    BY <1>4, <2>1, <2>3, <2>4, <2>5 DEF Counts, Similar
  <2>8. packetNumber' \in Nat BY <1>4, <2>1 DEF Shape
  <2> QED BY <2>1, <2>5, <2>6, <2>7, <2>8, Moves
<1>12. ASSUME NEW t \in Threads, CallbackLost(t) PROVE NumberInv'
  BY <1>1, <1>12 DEF CallbackLost
<1>13. ASSUME NEW t \in Threads, Decode(t) PROVE NumberInv'
  <2> DEFINE q == CASE thread[t].job.kind = "abstract" -> DecodeAbstract(thread[t])
                    [] thread[t].job.kind = "listener" -> DecodeTyped(thread[t])
                    [] OTHER -> DecodeMap(thread[t])
  <2>1. thread[t].pc = "decode" /\ thread' = [thread EXCEPT ![t] = q] /\ packetNumber' = packetNumber
    BY ONLY <1>13 DEF Decode
  <2>2. DOMAIN thread[t] = DOMAIN Idle BY <1>4 DEF Shape
  <2>3. q \in {DecodeAbstract(thread[t]), DecodeTyped(thread[t]), DecodeMap(thread[t])}
    OBVIOUS
  <2> HIDE DEF q
  <2>4. \/ q = Raise(thread[t])
        \/ Similar(thread[t], q) /\ q.pc \in {"user", "decode"}
    BY ONLY <2>1, <2>2, <2>3, DecodeKeeps
  <2>5. CASE q = Raise(thread[t]) BY ONLY <1>8, <2>1, <2>5
  <2>6. CASE Similar(thread[t], q) /\ q.pc \in {"user", "decode"} BY ONLY <1>5, <2>1, <2>6
  <2> QED BY ONLY <2>4, <2>5, <2>6
<1>14. ASSUME NEW t \in Threads, LoopReturns(t) PROVE NumberInv'
  BY <1>7, <1>14 DEF LoopReturns
<1>15. ASSUME NEW t \in Threads, UserReturns(t) PROVE NumberInv'
  <2>1. /\ thread[t].pc = "user" /\ packetNumber' = packetNumber
        /\ \/ thread' = [thread EXCEPT ![t] = Waiting(thread[t])]
           \/ thread' = [thread EXCEPT ![t] = Idle]
    BY <1>15 DEF UserReturns
  <2>2. Waiting(thread[t]).pc = "loop" /\ Similar(thread[t], Waiting(thread[t]))
    BY <1>4, RaiseKeeps DEF Shape
  <2> QED BY ONLY <1>5, <1>7, <2>1, <2>2, <1>15
<1>16. ASSUME NEW t \in Threads, UserThrows(t) PROVE NumberInv'
  BY <1>8, <1>16 DEF UserThrows
(* Building and sending touch other fields only. *)
<1>17. ASSUME NEW t \in Threads, NEW packets, Build(t, packets) PROVE NumberInv'
  <2> DEFINE q == [thread[t] EXCEPT !.pc = "build", !.layers = packets, !.at = Len(packets)]
  <2>1. /\ thread[t].pc = "user" /\ packetNumber' = packetNumber
        /\ thread' = [thread EXCEPT ![t].pc = "build", ![t].layers = packets, ![t].at = Len(packets)]
    BY <1>17 DEF Build
  <2>2. DOMAIN thread[t] = DOMAIN Idle /\ DOMAIN thread = Threads BY <1>4 DEF Shape, NumberInv
  <2>3. thread' = [thread EXCEPT ![t] = q] BY <2>1, <2>2 DEF Idle
  <2>4. Similar(thread[t], q) /\ q.pc = "build" BY <2>2 DEF Similar, Idle
  <2> HIDE DEF q
  <2> QED BY ONLY <1>5, <1>17, <2>1, <2>3, <2>4
<1>18. ASSUME NEW t \in Threads, NewBuild(t) \/ Rebuild(t) PROVE NumberInv'
  BY <1>17, <1>18 DEF NewBuild, Rebuild
<1>19. ASSUME NEW t \in Threads, Join(t) PROVE NumberInv'
  <2> DEFINE j == SetPacket(thread[t].layers[thread[t].at - 1], thread[t].layers[thread[t].at])
             a == [thread[t].layers EXCEPT ![thread[t].at - 1] = j.outer, ![thread[t].at] = j.inner]
             b == thread[t].at - 1
             q == [thread[t] EXCEPT !.layers = a, !.at = b]
  <2>1. /\ thread[t].pc = "build" /\ packetNumber' = packetNumber
        /\ \/ thread' = [thread EXCEPT ![t] = Raise(thread[t])]
           \/ thread' = [thread EXCEPT ![t] = q]
    BY ONLY <1>19 DEF Join, Built
  <2>2. DOMAIN thread[t] = DOMAIN Idle BY <1>4 DEF Shape
  <2> HIDE DEF a, b
  <2>3. Similar(thread[t], q) /\ q.pc = "build" BY ONLY <2>1, <2>2 DEF Similar, Idle
  <2> HIDE DEF q
  <2> QED BY ONLY <1>5, <1>8, <1>19, <2>1, <2>3
<1>20. ASSUME NEW t \in Threads, SendPacket(t) PROVE NumberInv'
  <2> DEFINE e == ToBytes(thread[t].layers[1])
             a == [thread[t].layers EXCEPT ![1] = e.packet]
             q == [thread[t] EXCEPT !.pc = "user", !.layers = a]
  <2>1. /\ thread[t].pc = "build" /\ packetNumber' = packetNumber
        /\ \/ thread' = [thread EXCEPT ![t] = Raise(thread[t])]
           \/ thread' = [thread EXCEPT ![t].pc = "user", ![t].layers[1] = e.packet]
    BY ONLY <1>20 DEF SendPacket, Encoded
  <2>2. DOMAIN thread[t] = DOMAIN Idle /\ DOMAIN thread = Threads BY <1>4 DEF Shape, NumberInv
  <2> HIDE DEF e
  <2>3. [thread EXCEPT ![t].pc = "user", ![t].layers[1] = e.packet] = [thread EXCEPT ![t] = q]
    BY ONLY <2>2 DEF Idle
  <2> HIDE DEF a
  <2>4. Similar(thread[t], q) /\ q.pc = "user" BY ONLY <2>2 DEF Similar, Idle
  <2> HIDE DEF q
  <2> QED BY ONLY <1>5, <1>8, <1>20, <2>1, <2>3, <2>4
(* next and nextEx are no loops. *)
<1>21. ASSUME NEW t \in Threads, NEW j \in Jobs[t], NextPacket(t, j) \/ NextEx(t, j)
       PROVE  NumberInv'
  <2> DEFINE f == IF queue[t] = << >> THEN NoFrame ELSE Head(queue[t])
             r == [Idle EXCEPT !.job = j, !.cur = f]
  <2>1. /\ j.kind \in {"next", "nextEx"} /\ packetNumber' = packetNumber
        /\ \/ thread' = [thread EXCEPT ![t] = Decoding(r, Captured(f))]
           \/ thread' = [thread EXCEPT ![t] = Decoding(r, Remaining(Captured(f)))]
    BY ONLY <1>21 DEF NextPacket, NextEx
  <2>2. PICK bytes : thread' = [thread EXCEPT ![t] = Decoding(r, bytes)] BY ONLY <2>1
  <2>3. DOMAIN r = DOMAIN Idle /\ r.job = j /\ r.alone = FALSE /\ r.read = 0
    BY DEF Idle
  <2> HIDE DEF r
  <2> DEFINE q == Decoding(r, bytes)
  <2>4. Similar(r, q) /\ q.pc = "decode" BY ONLY <2>3, DecodingKeeps
  <2> HIDE DEF q
  <2>5. j # Null BY PacketPathAssumption
  <2>6. /\ DOMAIN q = DOMAIN Idle /\ q.job # Null /\ q.read = 0 /\ q.alone = FALSE /\ ~Abstract(q)
    BY ONLY <2>1, <2>3, <2>4, <2>5 DEF Similar, Abstract
  <2> QED BY ONLY <1>6, <1>21, <2>1, <2>2, <2>4, <2>6 DEF q
(* A loop with an abstract listener starts to count at 0, and no other loop*)
(* with one is alone from then on.                                         *)
<1>22. ASSUME NEW t \in Threads, NEW j \in Jobs[t], Loop(t, j) PROVE NumberInv'
  <2> DEFINE clash == j.kind = "abstract"
             others == {u \in Threads \ {t} : Loops(u) /\ thread[u].job.kind = "abstract"}
             q == [Idle EXCEPT !.pc = "loop", !.job = j, !.alone = clash /\ others = {}]
  <2>1. /\ packetNumber' = IF clash THEN 0 ELSE packetNumber
        /\ thread' = [u \in Threads |-> IF u = t THEN q
                          ELSE IF clash THEN [thread[u] EXCEPT !.alone = FALSE] ELSE thread[u]]
    BY ONLY <1>22 DEF Loop
  <2>2. /\ DOMAIN q = DOMAIN Idle /\ q.pc = "loop" /\ q.job = j /\ q.read = 0
        /\ q.entered = 0 /\ q.alone = (clash /\ others = {})
    BY DEF Idle
  <2>3. j # Null BY PacketPathAssumption
  <2> HIDE DEF q
  <2>4. DOMAIN thread' = Threads /\ packetNumber' \in Nat BY <1>4, <2>1
  <2>5. thread'[t] = q /\ Shape(q) /\ (Abstract(q) <=> clash)
    BY ONLY <2>1, <2>2, <2>3 DEF Shape, Abstract, Places
  <2>6. ASSUME NEW u \in Threads \ {t}
        PROVE  /\ Shape(thread'[u]) /\ (Abstract(thread'[u]) <=> Abstract(thread[u]))
               /\ thread'[u].alone => thread'[u] = thread[u] /\ ~clash
    <3>1. Shape(thread[u]) BY <1>4
    <3>2. CASE clash
      <4>1. thread'[u] = [thread[u] EXCEPT !.alone = FALSE] BY ONLY <2>1, <3>2, <2>6
      <4>2. /\ DOMAIN thread'[u] = DOMAIN Idle /\ thread'[u].alone = FALSE
            /\ thread'[u].pc = thread[u].pc /\ thread'[u].read = thread[u].read
            /\ thread'[u].job = thread[u].job
        BY ONLY <3>1, <4>1 DEF Shape, Idle
      <4> QED BY ONLY <3>1, <4>2 DEF Shape, Abstract
    <3>3. CASE ~clash
      <4>1. thread'[u] = thread[u] BY ONLY <2>1, <3>3, <2>6
      <4> QED BY ONLY <3>1, <3>3, <4>1
    <3> QED BY ONLY <3>2, <3>3
  <2>7. ASSUME q.alone
        PROVE  Counts(q, packetNumber') /\ \A u \in Threads \ {t} : ~Abstract(thread'[u])
    <3>1. clash /\ others = {} BY ONLY <2>2, <2>7
    <3>2. packetNumber' = 0 BY ONLY <2>1, <3>1
    <3>3. Counts(q, packetNumber') BY ONLY <2>2, <2>5, <3>1, <3>2 DEF Counts
    <3>4. \A u \in Threads \ {t} : ~Abstract(thread[u]) BY ONLY <3>1 DEF Loops, Abstract
    <3> QED BY ONLY <2>6, <3>3, <3>4
  <2>8. ASSUME NEW u \in Threads \ {t}, thread'[u].alone
        PROVE  /\ Counts(thread'[u], packetNumber')
               /\ \A v \in Threads \ {u} : ~Abstract(thread'[v])
    <3>1. thread'[u] = thread[u] /\ ~clash BY ONLY <2>6, <2>8
    <3>2. Counts(thread[u], packetNumber) /\ \A v \in Threads \ {u} : ~Abstract(thread[v])
      BY <2>8, <3>1 DEF NumberInv
    <3>3. packetNumber' = packetNumber BY ONLY <2>1, <3>1
    <3>4. ~Abstract(thread'[t]) BY ONLY <2>5, <3>1
    <3>5. ASSUME NEW v \in Threads \ {u}, v # t PROVE ~Abstract(thread'[v])
      BY ONLY <2>6, <3>2, <3>5
    <3>6. \A v \in Threads \ {u} : ~Abstract(thread'[v]) BY ONLY <3>4, <3>5
    <3> QED BY ONLY <3>1, <3>2, <3>3, <3>6
  <2>9. ASSUME NEW u \in Threads
        PROVE  /\ Shape(thread'[u])
               /\ thread'[u].alone =>
                    /\ Counts(thread'[u], packetNumber')
                    /\ \A v \in Threads \ {u} : ~Abstract(thread'[v])
    <3>1. CASE u = t BY ONLY <2>5, <2>7, <3>1
    <3>2. CASE u # t BY ONLY <2>6, <2>8, <2>9, <3>2
    <3> QED BY ONLY <3>1, <3>2
  <2> QED BY ONLY <2>4, <2>9 DEF NumberInv, Shape, Counts, Abstract, Idle
<1> QED
  BY <1>2, <1>3, <1>9, <1>10, <1>11, <1>12, <1>13, <1>14, <1>15, <1>16, <1>18, <1>19, <1>20, <1>21, <1>22
     DEF Next

(* NumbersCount needs no more than that. *)
THEOREM NumbersAreCounted == Spec => []NumbersCount
<1>1. Init => NumberInv
  <2> SUFFICES ASSUME Init PROVE NumberInv
      OBVIOUS
  <2>1. thread = [t \in Threads |-> Idle] /\ packetNumber = 0 BY DEF Init
  <2>2. Idle.pc = "idle" /\ Idle.alone = FALSE /\ Idle.read = 0 BY DEF Idle
  <2> QED BY ONLY <2>1, <2>2 DEF NumberInv, Shape, Places
<1>2. NumberInv /\ [Next]_vars => NumberInv' BY NumbersNext
<1>3. NumberInv => NumbersCount BY DEF NumberInv, Counts, NumbersCount
<1> QED BY <1>1, <1>2, <1>3, PTL DEF Spec

=============================================================================
