--------------------------- MODULE SavefileProofs ---------------------------
(***************************************************************************)
(* What Savefile promises, for every set of packets and of files, every    *)
(* size of a byte, of the buffer of stdio and of the disk.                 *)
(*                                                                         *)
(* The induction needs to know what the bytes mean.  SaveInv says: there   *)
(* is a format f, a sequence S of bytes that is all the file is to hold,   *)
(* and offsets off in it, at which each packet of content ends; the disk   *)
(* holds a beginning of S, the buffer what follows; and the reader, which  *)
(* took over f from the header, stands at the offset where the packets it  *)
(* gave end.  NgInv says the same of a pcap-ng file, in blocks: the reader *)
(* gave each packet block it went past, and its table of interfaces is     *)
(* that of the section it is in.                                           *)
(***************************************************************************)
EXTENDS Savefile, FiniteSetTheorems, SequenceTheorems, WellFoundedInduction, TLAPS

-----------------------------------------------------------------------------
(* Numbers.                                                                *)

(* What the constants of the model are.                                    *)
LEMMA Positive == Base \in Nat /\ Base >= 4 /\ BufSize \in Nat \ {0} /\ DiskSize \in Nat
BY SavefileAssumption

(* A set that contains 0 and with every number the next contains them all. *)
LEMMA Numbers ==
    ASSUME NEW S, 0 \in S, \A n \in Nat : n \in S => n + 1 \in S
    PROVE  \A n \in Nat : n \in S
<1> DEFINE T == Nat \ S
<1> SUFFICES ASSUME T # {} PROVE FALSE
    OBVIOUS
<1>1. PICK x \in T : \A y \in T : <<y, x>> \notin OpToRel(<, Nat)
    BY NatLessThanWellFounded, WFMin
<1>2. x \in Nat /\ x # 0 /\ x \notin S OBVIOUS
<1>3. x - 1 \in Nat /\ x - 1 < x BY <1>2
<1>4. <<x - 1, x>> \in OpToRel(<, Nat) BY <1>2, <1>3 DEF OpToRel
<1>5. x - 1 \in S BY <1>1, <1>3, <1>4
<1>6. x \in S
  <2>1. (x - 1) + 1 \in S BY <1>3, <1>5
  <2> QED BY <1>2, <2>1
<1> QED BY <1>2, <1>6

(* What stdio writes of n bytes, whole buffers, is no more than n.         *)
LEMMA Multiple ==
    ASSUME NEW a \in Nat, NEW b \in Nat \ {0}
    PROVE  (a \div b) * b \in 0..a
OBVIOUS

(* The two bytes of a field give back what they were made of, and a field  *)
(* holds them.                                                             *)
LEMMA Digits ==
    ASSUME NEW a \in Byte, NEW b \in Byte
    PROVE  /\ (a + Base * b) % Base = a /\ (a + Base * b) \div Base = b
           /\ a + Base * b \in FieldValue
<1>1. a \in 0..(Base - 1) /\ b \in Nat /\ Base \in Nat \ {0} BY Positive DEF Byte
<1>2. (a + Base * b) % Base = a /\ (a + Base * b) \div Base = b BY <1>1
<1>3. Base * b =< Base * (Base - 1) BY <1>1 DEF Byte
<1>4. Base * (Base - 1) = Base * Base - Base BY <1>1
<1>5. Base * b \in Nat BY <1>1
<1>6. Base * Base \in Nat BY <1>1
<1>7. a + Base * b \in FieldValue BY <1>1, <1>3, <1>4, <1>5, <1>6 DEF FieldValue
<1> QED BY <1>2, <1>7

(* A field splits into two bytes that give it back.                        *)
LEMMA SplitUp ==
    ASSUME NEW v \in FieldValue
    PROVE  v % Base \in Byte /\ v \div Base \in Byte /\ (v % Base) + Base * (v \div Base) = v
<1>1. Base \in Nat \ {0} /\ v \in 0..(Base * Base - 1) BY Positive DEF FieldValue
<1>2. v \div Base \in 0..(Base - 1) BY <1>1
<1>3. v % Base \in 0..(Base - 1) BY <1>1
<1>4. (v % Base) + Base * (v \div Base) = v BY <1>1
<1> QED BY <1>2, <1>3, <1>4 DEF Byte

(* A field as it is in the file.                                           *)
Word(S, i, order) == IF order = "little" THEN S[i] + Base * S[i + 1] ELSE S[i + 1] + Base * S[i]

(* A field written in either order is two bytes, and read in that order is *)
(* the value.                                                              *)
LEMMA FieldWord ==
    ASSUME NEW v \in FieldValue, NEW order
    PROVE  /\ Field(v, order) \in Seq(Byte) /\ Len(Field(v, order)) = 2
           /\ Word(Field(v, order), 1, order) = v
BY SplitUp DEF Field, Word

(* SWAPLONG exchanges the two bytes (sf-pcap.c).                           *)
LEMMA Swapping ==
    ASSUME NEW a \in Byte, NEW b \in Byte
    PROVE  SWAP(a + Base * b) = b + Base * a
<1>1. a * Base + b = b + Base * a BY Positive DEF Byte
<1> QED BY <1>1, Digits DEF SWAP

-----------------------------------------------------------------------------
(* Where the packets of a file are.                                        *)

(* The format of a file: what ForeignRecord asks of it.                    *)
GoodFormat(f) ==
    /\ f.order \in {"little", "big"} /\ f.magic \in Magics
    /\ f.major \in FieldValue /\ f.minor \in FieldValue /\ f.snaplen \in FieldValue
    /\ f.linktype \in FieldValue /\ f.reversed \in BOOLEAN
    /\ f.major = DGUX \/ (f.major = 2 /\ f.minor < 3) => f.reversed
    /\ (f.major > 2 /\ f.major # DGUX) \/ (f.major = 2 /\ f.minor > 3) => ~f.reversed
    /\ f.magic = KUZNETZOV /\ f.linktype = DLT_EN10MB => f.snaplen # 0
    /\ f.order # Host /\ f.linktype = DLT_USB_LINUX => f.snaplen # 1

(* No packet is longer than what a reader takes.                           *)
Short ==
    /\ \A p \in Packets : Len(p.data) =< MaximumSnaplen
    /\ \A f \in Files : \A i \in DOMAIN f.packets : Len(f.packets[i].data) =< MaximumSnaplen

GoodPacket(f, p) ==
    /\ p \in Packet /\ Len(p.data) \in FieldValue
    /\ f.major = 2 /\ f.minor = 3 => Len(p.data) =< p.len
    /\ Short => Len(p.data) =< MaximumSnaplen

(* What the arithmetic below asks of a packet and of a format.             *)
Bytes(f, p) == IF f.order = Host THEN p.data ELSE swap_pseudo_headers(f.linktype, p.data)
Cap(p) == Len(p.data)
Size(f) == HeaderSize(f.magic)
At(S, i, f) == Word(S, i, f.order)

(* The header of the file, and a packet behind the first at bytes.         *)
HeaderIn(S, f) ==
    /\ Len(S) >= FileHeaderSize
    /\ At(S, 1, f) = f.magic
    /\ At(S, 3, f) = f.major
    /\ At(S, 5, f) = f.minor
    /\ At(S, 7, f) = f.snaplen
    /\ At(S, 9, f) = f.linktype
First3(f, p) == IF f.reversed THEN p.len ELSE Cap(p)
First5(f, p) == IF f.reversed THEN Cap(p) ELSE p.len
RecordIn(S, at, f, p) ==
    /\ At(S, at + 1, f) = p.frac
    /\ At(S, at + 3, f) = First3(f, p)
    /\ At(S, at + 5, f) = First5(f, p)
    /\ \A j \in 1..Cap(p) : S[at + Size(f) + j] = Bytes(f, p)[j]

(* S is the file of the packets c, and the k-th ends at off[k].            *)
Placed(f, c, S, off) ==
    /\ S \in Seq(Byte) /\ off \in [0..Len(c) -> Nat]
    /\ HeaderIn(S, f) /\ off[0] = FileHeaderSize /\ off[Len(c)] = Len(S)
    /\ \A j, k \in 0..Len(c) : j < k => off[j] < off[k]
    /\ \A k \in 1..Len(c) :
          /\ off[k] = off[k - 1] + Size(f) + Cap(c[k])
          /\ RecordIn(S, off[k - 1], f, c[k])

(* What follows what, in two sequences of bytes one after the other.       *)
LEMMA Catenated ==
    ASSUME NEW s \in Seq(Byte), NEW t \in Seq(Byte)
    PROVE  /\ s \o t \in Seq(Byte) /\ Len(s \o t) = Len(s) + Len(t)
           /\ Len(s) \in Nat /\ Len(t) \in Nat
           /\ \A i \in 1..Len(s) : (s \o t)[i] = s[i]
           /\ \A i \in 1..Len(t) : (s \o t)[Len(s) + i] = t[i]
OBVIOUS

(* A record as it is written.                                              *)
Pad(f) == IF f.magic = KUZNETZOV THEN Field(0, f.order) ELSE <<>>
HeaderOf(f, p) ==
    IF f.reversed THEN RecordHeader(f.order, p.frac, p.len, Len(p.data))
                  ELSE RecordHeader(f.order, p.frac, Len(p.data), p.len)

RecordHead(f, p) == HeaderOf(f, p) \o Pad(f)

(* A file and its positions with one packet more.                          *)
With(f, S, p) == S \o (RecordHead(f, p) \o Bytes(f, p))
Further(c, off, end) == [k \in 0..(Len(c) + 1) |-> IF k =< Len(c) THEN off[k] ELSE end]

(* The same for a sequence that is known to be two, one after the other.   *)
LEMMA Joined ==
    ASSUME NEW s \in Seq(Byte), NEW t \in Seq(Byte), NEW u, u = s \o t
    PROVE  /\ u \in Seq(Byte) /\ Len(u) = Len(s) + Len(t)
           /\ Len(s) \in Nat /\ Len(t) \in Nat
           /\ \A i \in 1..Len(s) : u[i] = s[i]
           /\ \A i \in 1..Len(t) : u[Len(s) + i] = t[i]
BY Catenated

(* The same for three.                                                     *)
LEMMA JoinedThree ==
    ASSUME NEW s \in Seq(Byte), NEW t \in Seq(Byte), NEW v \in Seq(Byte), NEW w, w = s \o t \o v
    PROVE  /\ w \in Seq(Byte) /\ Len(w) = Len(s) + Len(t) + Len(v)
           /\ Len(s) \in Nat /\ Len(t) \in Nat /\ Len(v) \in Nat
           /\ \A i \in 1..Len(s) : w[i] = s[i]
           /\ \A i \in 1..Len(t) : w[Len(s) + i] = t[i]
           /\ \A i \in 1..Len(v) : w[Len(s) + Len(t) + i] = v[i]
<1> DEFINE u == s \o t
<1>1. /\ u \in Seq(Byte) /\ Len(u) = Len(s) + Len(t)
      /\ Len(s) \in Nat /\ Len(t) \in Nat
      /\ \A i \in 1..Len(s) : u[i] = s[i]
      /\ \A i \in 1..Len(t) : u[Len(s) + i] = t[i]
    BY Catenated
<1>2. w = u \o v OBVIOUS
<1> HIDE DEF u
<1>3. /\ w \in Seq(Byte) /\ Len(w) = Len(u) + Len(v) /\ Len(v) \in Nat
      /\ \A i \in 1..Len(u) : w[i] = u[i]
      /\ \A i \in 1..Len(v) : w[Len(u) + i] = v[i]
  <2>1. u \in Seq(Byte) BY <1>1
  <2> QED BY <1>2, <2>1, Joined
<1> QED BY <1>1, <1>3

(* The three fields of the header of a packet, where sf_write_header and   *)
(* pcap_dump put them.                                                     *)
LEMMA RecordWords ==
    ASSUME NEW a \in FieldValue, NEW b \in FieldValue, NEW c \in FieldValue, NEW order
    PROVE  /\ RecordHeader(order, a, b, c) \in Seq(Byte) /\ Len(RecordHeader(order, a, b, c)) = 6
           /\ Word(RecordHeader(order, a, b, c), 1, order) = a
           /\ Word(RecordHeader(order, a, b, c), 3, order) = b
           /\ Word(RecordHeader(order, a, b, c), 5, order) = c
<1> DEFINE x == Field(a, order)
           y == Field(b, order)
           z == Field(c, order)
<1>1. x \in Seq(Byte) /\ y \in Seq(Byte) /\ z \in Seq(Byte) BY FieldWord
<1>2. Len(x) = 2 /\ Len(y) = 2 /\ Len(z) = 2 BY FieldWord
<1>3. Word(x, 1, order) = a /\ Word(y, 1, order) = b /\ Word(z, 1, order) = c BY FieldWord
<1> DEFINE w == RecordHeader(order, a, b, c)
<1>4. w = x \o y \o z BY DEF RecordHeader
<1> HIDE DEF w, x, y, z
<1>5. /\ w \in Seq(Byte) /\ Len(w) = Len(x) + Len(y) + Len(z)
      /\ \A i \in 1..Len(x) : w[i] = x[i]
      /\ \A i \in 1..Len(y) : w[Len(x) + i] = y[i]
      /\ \A i \in 1..Len(z) : w[Len(x) + Len(y) + i] = z[i]
    BY ONLY <1>1, <1>4, JoinedThree
<1>6. w \in Seq(Byte) /\ Len(w) = 6 BY ONLY <1>2, <1>5
<1>7. w[1] = x[1] /\ w[2] = x[2] BY ONLY <1>2, <1>5
<1>8. w[3] = y[1] /\ w[4] = y[2] BY ONLY <1>2, <1>5
<1>9. w[5] = z[1] /\ w[6] = z[2] BY ONLY <1>2, <1>5
<1>10. Word(w, 1, order) = a /\ Word(w, 3, order) = b /\ Word(w, 5, order) = c
    BY ONLY <1>3, <1>7, <1>8, <1>9 DEF Word
<1> QED BY ONLY <1>6, <1>10 DEF w

(* A field behind a sequence of bytes is read there, and what was before   *)
(* is read as before.                                                      *)
LEMMA WordBehind ==
    \A s \in Seq(Byte), v \in FieldValue : \A order : LET w == s \o Field(v, order) IN
        /\ w \in Seq(Byte) /\ Len(w) = Len(s) + 2
        /\ Word(w, Len(s) + 1, order) = v
        /\ \A i \in 1..(Len(s) - 1) : Word(w, i, order) = Word(s, i, order)
<1> SUFFICES ASSUME NEW s \in Seq(Byte), NEW v \in FieldValue, NEW order
             PROVE  LET w == s \o Field(v, order) IN
                    /\ w \in Seq(Byte) /\ Len(w) = Len(s) + 2
                    /\ Word(w, Len(s) + 1, order) = v
                    /\ \A i \in 1..(Len(s) - 1) : Word(w, i, order) = Word(s, i, order)
    OBVIOUS
<1> DEFINE x == Field(v, order)
           w == s \o x
<1>1. x \in Seq(Byte) /\ Len(x) = 2 /\ Word(x, 1, order) = v BY FieldWord
<1>2. w = s \o x OBVIOUS
<1> HIDE DEF x, w
<1>3. /\ w \in Seq(Byte) /\ Len(w) = Len(s) + Len(x) /\ Len(s) \in Nat
      /\ \A i \in 1..Len(s) : w[i] = s[i]
      /\ \A i \in 1..Len(x) : w[Len(s) + i] = x[i]
  <2>1. s \in Seq(Byte) /\ x \in Seq(Byte) BY <1>1
  <2> QED BY <1>2, <2>1, Joined
<1>4. w[Len(s) + 1] = x[1] /\ w[(Len(s) + 1) + 1] = x[1 + 1]
  <2>1. 1 \in 1..Len(x) /\ 2 \in 1..Len(x) BY ONLY <1>1
  <2>2. w[Len(s) + 1] = x[1] /\ w[Len(s) + 2] = x[2] BY ONLY <1>3, <2>1
  <2>3. (Len(s) + 1) + 1 = Len(s) + 2 BY ONLY <1>3
  <2> QED BY ONLY <2>2, <2>3
<1>5. Word(w, Len(s) + 1, order) = v BY ONLY <1>1, <1>4 DEF Word
<1>6. ASSUME NEW i \in 1..(Len(s) - 1) PROVE Word(w, i, order) = Word(s, i, order)
  <2>1. i \in 1..Len(s) /\ i + 1 \in 1..Len(s) BY ONLY <1>3, i \in 1..(Len(s) - 1)
  <2>2. w[i] = s[i] /\ w[i + 1] = s[i + 1] BY ONLY <1>3, <2>1
  <2> QED BY ONLY <2>2 DEF Word
<1>7. /\ w \in Seq(Byte) /\ Len(w) = Len(s) + 2
      /\ Word(w, Len(s) + 1, order) = v
      /\ \A i \in 1..(Len(s) - 1) : Word(w, i, order) = Word(s, i, order)
    BY ONLY <1>1, <1>3, <1>5, <1>6
<1> QED BY ONLY <1>7 DEF w, x

(* The five fields of the header of the file.                              *)
LEMMA FileWords ==
    ASSUME NEW a \in FieldValue, NEW b \in FieldValue, NEW c \in FieldValue,
           NEW d \in FieldValue, NEW e \in FieldValue, NEW order,
           NEW w, w = FileHeader(order, a, b, c, d, e)
    PROVE  /\ w \in Seq(Byte) /\ Len(w) = 10
           /\ Word(w, 1, order) = a /\ Word(w, 3, order) = b /\ Word(w, 5, order) = c
           /\ Word(w, 7, order) = d /\ Word(w, 9, order) = e
<1> DEFINE x == RecordHeader(order, a, b, c)
           y == x \o Field(d, order)
<1>1. w = y \o Field(e, order) BY DEF FileHeader, RecordHeader
<1>2. y = x \o Field(d, order) OBVIOUS
<1>3. /\ x \in Seq(Byte) /\ Len(x) = 6
      /\ Word(x, 1, order) = a /\ Word(x, 3, order) = b /\ Word(x, 5, order) = c
    BY RecordWords
<1> HIDE DEF x, y
<1>4. /\ y \in Seq(Byte) /\ Len(y) = Len(x) + 2 /\ Word(y, Len(x) + 1, order) = d
      /\ \A i \in 1..(Len(x) - 1) : Word(y, i, order) = Word(x, i, order)
  <2>1. x \in Seq(Byte) BY <1>3
  <2> QED BY <1>2, <2>1, WordBehind
<1>5. /\ w \in Seq(Byte) /\ Len(w) = Len(y) + 2 /\ Word(w, Len(y) + 1, order) = e
      /\ \A i \in 1..(Len(y) - 1) : Word(w, i, order) = Word(y, i, order)
  <2>1. y \in Seq(Byte) BY <1>4
  <2> QED BY <1>1, <2>1, WordBehind
<1>6. Len(y) = 8 /\ Len(w) = 10 /\ Len(x) + 1 = 7 /\ Len(y) + 1 = 9 BY ONLY <1>3, <1>4, <1>5
<1>7. Word(y, 1, order) = a /\ Word(y, 3, order) = b /\ Word(y, 5, order) = c
  <2>1. 1 \in 1..(Len(x) - 1) /\ 3 \in 1..(Len(x) - 1) /\ 5 \in 1..(Len(x) - 1) BY ONLY <1>3
  <2> QED BY ONLY <1>3, <1>4, <2>1
<1>8. /\ Word(w, 1, order) = a /\ Word(w, 3, order) = b /\ Word(w, 5, order) = c
      /\ Word(w, 7, order) = d
  <2>1. \A i \in {1, 3, 5, 7} : i \in 1..(Len(y) - 1) BY ONLY <1>6
  <2>2. Word(y, 7, order) = d BY ONLY <1>4, <1>6
  <2> QED BY ONLY <1>5, <1>7, <2>1, <2>2
<1>9. Word(w, 9, order) = e BY ONLY <1>5, <1>6
<1> QED BY ONLY <1>5, <1>6, <1>8, <1>9

(* The header of a packet of a file in any of the formats holds the stamp  *)
(* and the two lengths, in the order of the format.                        *)
LEMMA RecordWritten ==
    ASSUME NEW f, GoodFormat(f), NEW p, GoodPacket(f, p)
    PROVE  /\ RecordHead(f, p) \in Seq(Byte) /\ Len(RecordHead(f, p)) = Size(f)
           /\ At(RecordHead(f, p), 1, f) = p.frac
           /\ At(RecordHead(f, p), 3, f) = First3(f, p)
           /\ At(RecordHead(f, p), 5, f) = First5(f, p)
<1> DEFINE w == HeaderOf(f, p)
           o == Pad(f)
<1> DEFINE x == p.frac
           y == p.len
           z == Len(p.data)
<1>1. x \in FieldValue /\ y \in FieldValue /\ z \in FieldValue
    BY DEF GoodPacket, Packet
<1>2. 0 \in FieldValue
  <2>1. Base * Base \in Nat /\ Base * Base >= 1 BY Positive
  <2> QED BY <2>1 DEF FieldValue
<1>3. /\ w \in Seq(Byte) /\ Len(w) = 6
      /\ At(w, 1, f) = p.frac
      /\ At(w, 3, f) = First3(f, p)
      /\ At(w, 5, f) = First5(f, p)
  <2>1. CASE f.reversed
    <3>1. w = RecordHeader(f.order, x, y, z)
        BY <2>1 DEF HeaderOf
    <3>2. /\ x = p.frac /\ First3(f, p) = y /\ First5(f, p) = z
          /\ \A i : At(w, i, f) = Word(w, i, f.order)
        BY <2>1 DEF First3, First5, Cap, At
    <3> HIDE DEF w, x, y, z
    <3>3. /\ w \in Seq(Byte) /\ Len(w) = 6
          /\ Word(w, 1, f.order) = x /\ Word(w, 3, f.order) = y /\ Word(w, 5, f.order) = z
        BY ONLY <1>1, <3>1, RecordWords
    <3> QED BY ONLY <3>2, <3>3
  <2>2. CASE ~f.reversed
    <3>1. w = RecordHeader(f.order, x, z, y)
        BY <2>2 DEF HeaderOf
    <3>2. /\ x = p.frac /\ First3(f, p) = z /\ First5(f, p) = y
          /\ \A i : At(w, i, f) = Word(w, i, f.order)
        BY <2>2 DEF First3, First5, Cap, At
    <3> HIDE DEF w, x, y, z
    <3>3. /\ w \in Seq(Byte) /\ Len(w) = 6
          /\ Word(w, 1, f.order) = x /\ Word(w, 3, f.order) = z /\ Word(w, 5, f.order) = y
        BY ONLY <1>1, <3>1, RecordWords
    <3> QED BY ONLY <3>2, <3>3
  <2> QED BY <2>1, <2>2
<1>4. o \in Seq(Byte) /\ Len(o) = Size(f) - 6 /\ Size(f) \in Nat /\ Size(f) >= 6
  <2>1. CASE f.magic = KUZNETZOV
    <3>1. o = Field(0, f.order) /\ Size(f) = 8 BY <2>1 DEF Pad, Size, HeaderSize
    <3> HIDE DEF o
    <3> QED BY <1>2, <3>1, FieldWord
  <2>2. CASE f.magic # KUZNETZOV
    <3>1. o = <<>> /\ Size(f) = 6 BY <2>2 DEF Pad, Size, HeaderSize
    <3> HIDE DEF o
    <3> QED BY <3>1
  <2> QED BY <2>1, <2>2
<1> DEFINE h == RecordHead(f, p)
<1>5. h = w \o o BY DEF RecordHead
<1> HIDE DEF w, o, h
<1>6. h \in Seq(Byte) /\ Len(h) = Size(f) /\ \A i \in 1..6 : h[i] = w[i]
  <2>1. w \in Seq(Byte) /\ o \in Seq(Byte) BY <1>3, <1>4
  <2>2. h \in Seq(Byte) /\ Len(h) = Len(w) + Len(o) /\ \A i \in 1..Len(w) : h[i] = w[i]
      BY <1>5, <2>1, Joined
  <2> QED BY ONLY <1>3, <1>4, <2>2
<1>7. \A i \in {1, 3, 5} : At(h, i, f) = At(w, i, f)
  <2>1. h[1] = w[1] /\ h[1 + 1] = w[1 + 1] /\ h[3] = w[3] /\ h[3 + 1] = w[3 + 1]
        /\ h[5] = w[5] /\ h[5 + 1] = w[5 + 1]
      BY ONLY <1>6
  <2> QED BY <2>1 DEF At, Word
<1>8. /\ At(h, 1, f) = p.frac /\ At(h, 3, f) = First3(f, p) /\ At(h, 5, f) = First5(f, p)
    BY ONLY <1>3, <1>7
<1> QED BY <1>6, <1>8 DEF h

(* No header of a packet is shorter than pcap_sf_pkthdr.                   *)
LEMMA Sizes ==
    ASSUME NEW f
    PROVE  Size(f) \in Nat /\ Size(f) >= 6
BY DEF Size, HeaderSize

(* What is left of a sequence when its first n bytes are written.          *)
LEMMA Rest ==
    ASSUME NEW s \in Seq(Byte), NEW n \in 0..Len(s), NEW r, r = SubSeq(s, n + 1, Len(s))
    PROVE  /\ r \in Seq(Byte) /\ Len(r) = Len(s) - n
           /\ \A i \in 1..Len(r) : r[i] = s[n + i]
<1>1. Len(s) \in Nat /\ n \in Nat /\ n =< Len(s) OBVIOUS
<1>2. \A i \in (n + 1)..Len(s) : s[i] \in Byte BY <1>1
<1>3. /\ SubSeq(s, n + 1, Len(s)) \in Seq(Byte)
      /\ Len(SubSeq(s, n + 1, Len(s)))
             = IF n + 1 =< Len(s) THEN Len(s) - (n + 1) + 1 ELSE 0
      /\ \A i \in 1..(Len(s) - (n + 1) + 1) :
            SubSeq(s, n + 1, Len(s))[i] = s[(n + 1) + i - 1]
    BY ONLY <1>1, <1>2, SubSeqProperties
<1>4. r \in Seq(Byte) /\ Len(r) = Len(s) - n BY ONLY <1>1, <1>3, r = SubSeq(s, n + 1, Len(s))
<1>5. ASSUME NEW i \in 1..Len(r) PROVE r[i] = s[n + i]
  <2>1. i \in 1..(Len(s) - (n + 1) + 1) /\ (n + 1) + i - 1 = n + i BY ONLY <1>1, <1>4, <1>5
  <2>2. r[i] = s[(n + 1) + i - 1] BY ONLY <1>3, <2>1, r = SubSeq(s, n + 1, Len(s))
  <2> QED BY ONLY <2>1, <2>2
<1> QED BY ONLY <1>4, <1>5

(* A pseudo-header swapped is as long, and differs in its two bytes.       *)
LEMMA PseudoSwapped ==
    ASSUME NEW l, NEW d \in Seq(Byte), NEW t, t = swap_pseudo_headers(l, d)
    PROVE  /\ t \in Seq(Byte) /\ Len(t) = Len(d)
           /\ l # DLT_USB_LINUX \/ Len(d) < 2 => t = d
           /\ l = DLT_USB_LINUX /\ Len(d) >= 2 =>
                 /\ t[1] = d[2] /\ t[2] = d[1]
                 /\ \A i \in 3..Len(d) : t[i] = d[i]
<1>1. Len(d) \in Nat OBVIOUS
<1>2. CASE l # DLT_USB_LINUX \/ Len(d) < 2
  <2>1. t = d BY <1>1, <1>2 DEF swap_pseudo_headers
  <2> QED BY <1>1, <1>2, <2>1
<1>3. CASE l = DLT_USB_LINUX /\ Len(d) >= 2
  <2> DEFINE x == <<d[2], d[1]>>
             y == SubSeq(d, 3, Len(d))
  <2>1. t = x \o y BY <1>3 DEF swap_pseudo_headers
  <2>2. x \in Seq(Byte) /\ Len(x) = 2 /\ x[1] = d[2] /\ x[2] = d[1] BY <1>1, <1>3
  <2>3. y \in Seq(Byte) /\ Len(y) = Len(d) - 2 /\ \A i \in 1..Len(y) : y[i] = d[i + 2]
    <3>1. 2 \in 0..Len(d) /\ y = SubSeq(d, 2 + 1, Len(d)) BY <1>1, <1>3
    <3>2. /\ y \in Seq(Byte) /\ Len(y) = Len(d) - 2
          /\ \A i \in 1..Len(y) : y[i] = d[2 + i]
      <4> HIDE DEF y
      <4> QED BY <3>1, Rest
    <3>3. \A i \in Nat : 2 + i = i + 2 OBVIOUS
    <3>4. \A i \in 1..Len(y) : i \in Nat
      <4> HIDE DEF y
      <4> QED BY ONLY <1>1, <1>3, <3>2
    <3> HIDE DEF y
    <3> QED BY ONLY <3>2, <3>3, <3>4
  <2> HIDE DEF x, y
  <2>4. /\ t \in Seq(Byte) /\ Len(t) = Len(x) + Len(y)
        /\ \A i \in 1..Len(x) : t[i] = x[i]
        /\ \A i \in 1..Len(y) : t[Len(x) + i] = y[i]
    <3>1. x \in Seq(Byte) /\ y \in Seq(Byte) BY <2>2, <2>3
    <3> QED BY <2>1, <3>1, Joined
  <2>5. Len(t) = Len(d) BY ONLY <1>1, <2>2, <2>3, <2>4
  <2>6. t[1] = d[2] /\ t[2] = d[1]
    <3>1. 1 \in 1..Len(x) /\ 2 \in 1..Len(x) BY ONLY <2>2
    <3> QED BY ONLY <2>2, <2>4, <3>1
  <2>7. ASSUME NEW i \in 3..Len(d) PROVE t[i] = d[i]
    <3> DEFINE j == i - 2
    <3>1. j \in 1..Len(y) /\ j + 2 = i /\ 2 + j = i BY ONLY <1>1, <2>3, i \in 3..Len(d)
    <3> HIDE DEF j
    <3>2. y[j] = d[j + 2] /\ t[2 + j] = y[j] BY ONLY <2>2, <2>3, <2>4, <3>1
    <3> QED BY ONLY <3>1, <3>2
  <2> QED BY ONLY <1>3, <1>1, <2>4, <2>5, <2>6, <2>7
<1> QED BY <1>1, <1>2, <1>3

(* Swapped by a writer and by a reader of the other order it is what it    *)
(* was, if the reader cuts the packet, but behind the pseudo-header.       *)
LEMMA SwappedBack ==
    ASSUME NEW l, NEW d \in Seq(Byte), NEW n \in Nat, l = DLT_USB_LINUX => n # 1
    PROVE  swap_pseudo_headers(l, Cut(swap_pseudo_headers(l, d), n)) = Cut(d, n)
<1> DEFINE s == swap_pseudo_headers(l, d)
           m == IF Len(d) < n THEN Len(d) ELSE n
           c == Cut(s, n)
           t == swap_pseudo_headers(l, c)
           e == Cut(d, n)
<1>1. /\ s \in Seq(Byte) /\ Len(s) = Len(d)
      /\ l # DLT_USB_LINUX \/ Len(d) < 2 => s = d
      /\ l = DLT_USB_LINUX /\ Len(d) >= 2 =>
            /\ s[1] = d[2] /\ s[2] = d[1]
            /\ \A i \in 3..Len(d) : s[i] = d[i]
    BY PseudoSwapped
<1>2. c = SubSeq(s, 1, m) /\ e = SubSeq(d, 1, m) BY <1>1 DEF Cut
<1>3. t = swap_pseudo_headers(l, c) OBVIOUS
<1>4. Len(d) \in Nat /\ m \in 0..Len(d) /\ (m = Len(d) \/ m = n) OBVIOUS
<1> HIDE DEF s, m, c, t, e
<1>5. c \in Seq(Byte) /\ Len(c) = m /\ \A i \in 1..m : c[i] = s[i]
    BY ONLY <1>1, <1>2, <1>4
<1>6. e \in Seq(Byte) /\ Len(e) = m /\ \A i \in 1..m : e[i] = d[i]
    BY ONLY <1>2, <1>4, d \in Seq(Byte)
<1>7. /\ t \in Seq(Byte) /\ Len(t) = Len(c)
      /\ l # DLT_USB_LINUX \/ Len(c) < 2 => t = c
      /\ l = DLT_USB_LINUX /\ Len(c) >= 2 =>
            /\ t[1] = c[2] /\ t[2] = c[1]
            /\ \A i \in 3..Len(c) : t[i] = c[i]
    BY ONLY <1>3, <1>5, PseudoSwapped
<1>8. CASE l # DLT_USB_LINUX \/ Len(d) < 2
  <2>1. s = d /\ c = e BY ONLY <1>1, <1>2, <1>8
  <2>2. t = c BY ONLY <1>4, <1>5, <1>7, <1>8
  <2> QED BY ONLY <2>1, <2>2 DEF t, c, s, e
<1>9. CASE l = DLT_USB_LINUX /\ Len(d) >= 2 /\ m = 0
  <2>1. Len(t) = 0 /\ Len(e) = 0 BY ONLY <1>5, <1>6, <1>7, <1>9
  <2>2. t = e BY ONLY <1>6, <1>7, <2>1
  <2> QED BY ONLY <2>2 DEF t, c, s, e
<1>10. CASE l = DLT_USB_LINUX /\ Len(d) >= 2 /\ m # 0
  <2>1. m >= 2 /\ m \in Nat /\ m =< Len(d)
      BY ONLY <1>4, <1>10, n \in Nat, l = DLT_USB_LINUX => n # 1
  <2>2. ASSUME NEW i \in 1..m PROVE t[i] = e[i]
    <3>1. CASE i = 1
      <4>1. 2 \in 1..m /\ 1 \in 1..m BY ONLY <2>1
      <4> QED BY ONLY <1>1, <1>5, <1>6, <1>7, <1>10, <2>1, <3>1, <4>1
    <3>2. CASE i = 2
      <4>1. 2 \in 1..m /\ 1 \in 1..m BY ONLY <2>1
      <4> QED BY ONLY <1>1, <1>5, <1>6, <1>7, <1>10, <2>1, <3>2, <4>1
    <3>3. CASE i # 1 /\ i # 2
      <4>1. i \in 3..Len(d) /\ i \in 3..m BY ONLY <1>4, <2>1, <3>3, i \in 1..m
      <4> QED BY ONLY <1>1, <1>5, <1>6, <1>7, <1>10, <2>1, <4>1, i \in 1..m
    <3> QED BY ONLY <3>1, <3>2, <3>3
  <2>3. t = e BY ONLY <1>5, <1>6, <1>7, <2>1, <2>2, SeqEqual
  <2> QED BY ONLY <2>3 DEF t, c, s, e
<1> QED BY ONLY <1>4, <1>8, <1>9, <1>10

(* What is captured of a packet is as long as it says.                     *)
LEMMA Caps ==
    ASSUME NEW p \in Packet
    PROVE  Cap(p) \in Nat /\ \A f : Bytes(f, p) \in Seq(Byte) /\ Len(Bytes(f, p)) = Cap(p)
<1>1. p.data \in Seq(Byte) /\ Cap(p) = Len(p.data) /\ Cap(p) \in Nat BY DEF Cap, Packet
<1>2. ASSUME NEW f PROVE Bytes(f, p) \in Seq(Byte) /\ Len(Bytes(f, p)) = Cap(p)
  <2>1. CASE f.order = Host BY <1>1, <2>1 DEF Bytes
  <2>2. CASE f.order # Host
    <3>1. Bytes(f, p) = swap_pseudo_headers(f.linktype, p.data) BY <2>2 DEF Bytes
    <3> QED BY <1>1, <3>1, PseudoSwapped
  <2> QED BY <2>1, <2>2
<1> QED BY <1>1, <1>2

(* What stands in a file stands there when more is appended.               *)
LEMMA AtSame ==
    ASSUME NEW f, NEW S, NEW R, NEW i \in Nat, NEW j \in Nat,
           R[j] = S[i], R[j + 1] = S[i + 1]
    PROVE  At(R, j, f) = At(S, i, f)
BY DEF At, Word

(* One more packet.                                                        *)
LEMMA PlacedOneMore ==
    ASSUME NEW f, GoodFormat(f), NEW c \in Seq(Packet), NEW S, NEW off, Placed(f, c, S, off),
           NEW p, GoodPacket(f, p)
    PROVE  /\ Placed(f, Append(c, p), With(f, S, p), Further(c, off, Len(With(f, S, p))))
           /\ Len(With(f, S, p)) = Len(S) + Size(f) + Cap(p)
<1> DEFINE h == RecordHead(f, p)
           R == With(f, S, p)
           d == Append(c, p)
           new == Further(c, off, Len(R))
<1>0. p \in Packet BY DEF GoodPacket
<1>1. /\ h \in Seq(Byte) /\ Len(h) = Size(f)
      /\ At(h, 1, f) = p.frac
      /\ At(h, 3, f) = First3(f, p)
      /\ At(h, 5, f) = First5(f, p)
    BY RecordWritten
<1>R. R = S \o (h \o Bytes(f, p)) BY DEF With
<1>n. new = [k \in 0..(Len(c) + 1) |-> IF k =< Len(c) THEN off[k] ELSE Len(R)] BY DEF Further
<1>d. d = Append(c, p) OBVIOUS
<1> HIDE DEF h, R, d, new
<1>2. Bytes(f, p) \in Seq(Byte) /\ Len(Bytes(f, p)) = Cap(p) /\ Cap(p) \in Nat BY <1>0, Caps
<1>3. Size(f) \in Nat /\ Size(f) >= 6 BY Sizes
<1>4. S \in Seq(Byte) /\ Len(S) \in Nat /\ Len(c) \in Nat BY DEF Placed
<1> DEFINE b == h \o Bytes(f, p)
<1>5. /\ b \in Seq(Byte) /\ Len(b) = Size(f) + Cap(p)
      /\ \A i \in 1..Size(f) : b[i] = h[i]
      /\ \A i \in 1..Cap(p) : b[Size(f) + i] = Bytes(f, p)[i]
  <2>1. h \in Seq(Byte) /\ Bytes(f, p) \in Seq(Byte) BY <1>1, <1>2
  <2>2. /\ b \in Seq(Byte) /\ Len(b) = Len(h) + Len(Bytes(f, p))
        /\ \A i \in 1..Len(h) : b[i] = h[i]
        /\ \A i \in 1..Len(Bytes(f, p)) : b[Len(h) + i] = Bytes(f, p)[i]
      BY <2>1, Joined
  <2> QED BY <1>1, <1>2, <2>2
<1>b. R = S \o b BY ONLY <1>R DEF b
<1> HIDE DEF b
<1>6. /\ R \in Seq(Byte) /\ Len(R) = Len(S) + (Size(f) + Cap(p))
      /\ \A i \in 1..Len(S) : R[i] = S[i]
      /\ \A i \in 1..(Size(f) + Cap(p)) : R[Len(S) + i] = b[i]
  <2>1. b \in Seq(Byte) BY <1>5
  <2>2. /\ R \in Seq(Byte) /\ Len(R) = Len(S) + Len(b)
        /\ \A i \in 1..Len(S) : R[i] = S[i]
        /\ \A i \in 1..Len(b) : R[Len(S) + i] = b[i]
      BY <1>4, <1>b, <2>1, Joined
  <2> QED BY <1>5, <2>2
<1>7. Len(R) = Len(S) + Size(f) + Cap(p) BY <1>2, <1>3, <1>4, <1>6
<1>8. /\ Len(d) = Len(c) + 1 /\ d[Len(c) + 1] = p
      /\ \A k \in 1..Len(c) : d[k] = c[k]
    BY <1>0, <1>d
<1>p. /\ off \in [0..Len(c) -> Nat] /\ HeaderIn(S, f) /\ off[0] = FileHeaderSize
      /\ off[Len(c)] = Len(S) /\ \A j, k \in 0..Len(c) : j < k => off[j] < off[k]
    BY DEF Placed
<1>q. \A k \in 1..Len(c) : off[k] = off[k - 1] + Size(f) + Cap(c[k])
    BY DEF Placed
<1>r. \A k \in 1..Len(c) : RecordIn(S, off[k - 1], f, c[k])
    BY DEF Placed
<1>9. new \in [0..Len(d) -> Nat] /\ new[0] = FileHeaderSize /\ new[Len(d)] = Len(R)
    BY ONLY <1>2, <1>3, <1>4, <1>7, <1>8, <1>p, <1>n
<1>w. \A k \in 0..Len(d) : new[k] = IF k =< Len(c) THEN off[k] ELSE Len(R) BY <1>8, <1>n
<1>10. ASSUME NEW i \in Nat, i >= 1, i + 1 =< Len(S)
       PROVE  At(R, i, f) = At(S, i, f)
  <2>1. R[i] = S[i] /\ R[i + 1] = S[i + 1] BY <1>4, <1>6, <1>10
  <2> QED BY <2>1, AtSame
<1>11. HeaderIn(R, f)
  <2>1. Len(S) >= 10 BY <1>p DEF HeaderIn, FileHeaderSize
  <2>2. /\ At(R, 1, f) = At(S, 1, f) /\ At(R, 3, f) = At(S, 3, f) /\ At(R, 5, f) = At(S, 5, f)
        /\ At(R, 7, f) = At(S, 7, f) /\ At(R, 9, f) = At(S, 9, f)
      BY <1>4, <1>10, <2>1
  <2>3. Len(R) >= FileHeaderSize BY <1>2, <1>3, <1>4, <1>7, <2>1 DEF FileHeaderSize
  <2> QED BY <1>p, <2>2, <2>3 DEF HeaderIn
<1>12. \A j, k \in 0..Len(d) : j < k => new[j] < new[k]
  <2> SUFFICES ASSUME NEW j \in 0..Len(d), NEW k \in 0..Len(d), j < k PROVE new[j] < new[k]
      OBVIOUS
  <2>1. j =< Len(c) /\ new[j] = off[j] BY <1>4, <1>8, <1>w
  <2>2. CASE k =< Len(c) BY <1>4, <1>8, <1>w, <1>p, <2>1, <2>2
  <2>3. CASE k = Len(c) + 1
    <3>1. off[j] =< off[Len(c)] /\ off[j] \in Nat BY ONLY <1>4, <1>p, <2>1, j \in 0..Len(d)
    <3>2. new[k] = Len(R) BY <1>4, <1>8, <1>w, <2>3
    <3> QED BY <1>2, <1>3, <1>4, <1>7, <1>p, <2>1, <3>1, <3>2
  <2> QED BY <1>4, <1>8, <2>2, <2>3
<1>13. ASSUME NEW k \in 1..Len(d)
       PROVE  /\ new[k] = new[k - 1] + Size(f) + Cap(d[k])
              /\ RecordIn(R, new[k - 1], f, d[k])
  <2>1. CASE k =< Len(c)
    <3>1. new[k] = off[k] /\ new[k - 1] = off[k - 1] /\ d[k] = c[k] BY <1>4, <1>8, <1>w, <2>1
    <3>2. off[k] = off[k - 1] + Size(f) + Cap(c[k]) BY <1>4, <1>q, <2>1
    <3>0. k \in 1..Len(c) BY ONLY <1>4, <1>8, <2>1, k \in 1..Len(d)
    <3>9. RecordIn(S, off[k - 1], f, c[k]) BY ONLY <1>r, <3>0
    <3>3. off[k - 1] \in Nat /\ off[k] \in Nat
      <4>1. k - 1 \in 0..Len(c) /\ k \in 0..Len(c) BY ONLY <1>4, <3>0
      <4>2. off \in [0..Len(c) -> Nat] BY ONLY <1>p
      <4> QED BY ONLY <4>1, <4>2
    <3>8. off[k] =< Len(S)
      <4>1. off[Len(c)] = Len(S) /\ \A j, i \in 0..Len(c) : j < i => off[j] < off[i]
          BY ONLY <1>p
      <4>2. CASE k = Len(c) BY ONLY <1>4, <4>1, <4>2
      <4>3. CASE k # Len(c)
        <5>1. k \in 0..Len(c) /\ Len(c) \in 0..Len(c) /\ k < Len(c) BY ONLY <1>4, <3>0, <4>3
        <5>2. off[k] < off[Len(c)] BY ONLY <4>1, <5>1
        <5> QED BY ONLY <1>4, <3>3, <4>1, <5>2
      <4> QED BY ONLY <4>2, <4>3
    <3>4. Cap(c[k]) \in Nat
      <4>1. c[k] \in Packet BY <1>4, <2>1
      <4> QED BY <4>1, Caps
    <3> DEFINE a == off[k - 1]
    <3>a. a \in Nat /\ a + Size(f) + Cap(c[k]) =< Len(S) BY <3>2, <3>3, <3>8
    <3> HIDE DEF a
    <3>5. /\ At(R, a + 1, f) = At(S, a + 1, f)
          /\ At(R, a + 3, f) = At(S, a + 3, f)
          /\ At(R, a + 5, f) = At(S, a + 5, f)
        BY <1>3, <1>4, <1>10, <3>4, <3>a
    <3>6. ASSUME NEW j \in 1..Cap(c[k])
          PROVE  R[a + Size(f) + j] = S[a + Size(f) + j]
      <4>1. a + Size(f) + j \in 1..Len(S)
          BY ONLY <1>3, <1>4, <3>4, <3>a, j \in 1..Cap(c[k])
      <4> QED BY ONLY <1>6, <4>1
    <3>7. RecordIn(R, a, f, c[k]) BY ONLY <3>5, <3>6, <3>9 DEF RecordIn, a
    <3> QED BY ONLY <3>1, <3>2, <3>7 DEF a
  <2>2. CASE k = Len(c) + 1
    <3>1. new[k] = Len(R) /\ new[k - 1] = Len(S) /\ d[k] = p
        BY <1>4, <1>8, <1>w, <1>p, <2>2
    <3>2. \A i \in 1..Size(f) : R[Len(S) + i] = h[i]
      <4>1. \A i \in 1..Size(f) : i \in 1..(Size(f) + Cap(p)) BY ONLY <1>2, <1>3
      <4>2. \A i \in 1..Size(f) : b[i] = h[i] BY ONLY <1>5
      <4>3. \A i \in 1..(Size(f) + Cap(p)) : R[Len(S) + i] = b[i] BY ONLY <1>6
      <4> QED BY ONLY <4>1, <4>2, <4>3
    <3>3. ASSUME NEW i \in {1, 3, 5} PROVE At(R, Len(S) + i, f) = At(h, i, f)
      <4>1. i \in 1..Size(f) /\ i + 1 \in 1..Size(f) BY <1>3
      <4>2. R[Len(S) + i] = h[i] /\ R[Len(S) + (i + 1)] = h[i + 1] BY <3>2, <4>1
      <4>3. Len(S) + (i + 1) = (Len(S) + i) + 1 /\ Len(S) + i \in Nat BY <1>4
      <4> QED BY ONLY <4>2, <4>3, AtSame, i \in {1, 3, 5}
    <3>4. ASSUME NEW j \in 1..Cap(p) PROVE R[Len(S) + Size(f) + j] = Bytes(f, p)[j]
      <4>1. Size(f) + j \in 1..(Size(f) + Cap(p)) /\ b[Size(f) + j] = Bytes(f, p)[j]
          BY <1>2, <1>3, <1>5
      <4>2. R[Len(S) + (Size(f) + j)] = Bytes(f, p)[j] BY <1>6, <4>1
      <4>3. Len(S) + (Size(f) + j) = Len(S) + Size(f) + j BY <1>2, <1>3, <1>4
      <4> QED BY <4>2, <4>3
    <3>5. RecordIn(R, Len(S), f, p) BY <1>1, <3>3, <3>4 DEF RecordIn
    <3> QED BY <1>7, <3>1, <3>5
  <2> QED BY <1>4, <1>8, <1>w, <2>1, <2>2
<1>14. Placed(f, d, R, new) BY ONLY <1>6, <1>9, <1>11, <1>12, <1>13 DEF Placed
<1> QED BY <1>7, <1>14 DEF d, R, new
-----------------------------------------------------------------------------
(* The invariant.  In terms of a format f, the file S of the packets and   *)
(* where they are in it, off.                                              *)

HostFormat(snaplen, linktype) ==
    [order |-> Host, magic |-> TCPDUMP, major |-> PCAP_VERSION_MAJOR,
     minor |-> PCAP_VERSION_MINOR, snaplen |-> snaplen, linktype |-> linktype,
     reversed |-> FALSE]
DumpFormat == HostFormat(DumpSnaplen, DumpLinktype)

Stored(f, S, off) ==
    /\ GoodFormat(f) /\ content \in Seq(Packet)
    /\ \A k \in 1..Len(content) : GoodPacket(f, content[k])
    /\ Placed(f, content, S, off)
    /\ file.magic = f.magic /\ file.snaplen = f.snaplen /\ file.linktype = f.linktype
    /\ DOMAIN file = DOMAIN NoFile
    /\ f.major < PCAP_VERSION_MAJOR => synced = -1 /\ ~file.whole

(* What the disk holds is what the file begins with.                       *)
Begins(S) == disk \in Seq(Byte) /\ Len(disk) =< Len(S) /\ \A i \in 1..Len(disk) : disk[i] = S[i]
DiskFits == Len(disk) =< DiskSize /\ failed \in BOOLEAN /\ (failed => Len(disk) = DiskSize)

(* The bytes that the dumper was given so far.                             *)
Given(S) == IF dumper = "half" THEN Len(S) - Cap(Last(content)) ELSE Len(S)

(* And the buffer holds what follows on the disk.                          *)
Follows(S, e) ==
    /\ buf \in Seq(Byte)
    /\ ~failed => /\ Len(disk) + Len(buf) = e
                  /\ \A i \in 1..Len(buf) : buf[i] = S[Len(disk) + i]
Writing(f, S) ==
    dumper \in {"open", "half"} =>
        /\ f = DumpFormat
        /\ DiskFits
        /\ Follows(S, Given(S))
        /\ dumper = "half" => content # <<>>

(* What the writer may say of the file.                                    *)
Holds(off, n) == n >= 0 => n =< Len(content) /\ off[n] =< Len(disk)
Said(S, off) ==
    /\ dumper \in {"none", "open", "half", "closed", "gone"}
    /\ synced \in Int /\ synced >= -1 /\ (~failed => Holds(off, synced))
    /\ file.whole => Len(disk) = Len(S) /\ dumper \in {"none", "closed"}

(* What the reader was told when it opened the file.                       *)
Told(off) ==
    /\ reader.synced \in Int /\ Holds(off, reader.synced)
    /\ reader.whole => file.whole

(* The reader understands the file, and stands behind what it has read.    *)
Understands(f) ==
    /\ reader.swapped = (f.order = "big") /\ reader.magic = f.magic
    /\ f.major >= PCAP_VERSION_MAJOR /\ reader.lengths = lengths_swapped(f.major, f.minor)
    /\ reader.linktype = linktype_to_dlt(f.linktype)
    /\ reader.snapshot = IF f.magic = KUZNETZOV /\ f.linktype = DLT_EN10MB
                         THEN f.snaplen + PatchedPad ELSE f.snaplen
HasRead ==
    /\ \E T : got \in Seq(T)
    /\ Len(got) \in Nat /\ Len(got) =< Len(content)
    /\ DOMAIN got = 1..Len(got)
    /\ \A k \in 1..Len(got) : got[k] = View(content[k])
Stands(off) == reader.pos = off[Len(got)] /\ reader.pos =< Len(disk)
Reading(f, S, off) ==
    /\ Told(off)
    /\ \E T : got \in Seq(T)
    /\ ~reader.erred => HasRead
    /\ DOMAIN reader = DOMAIN Closed
    /\ reader.st \in {"none", "open", "eof", "error", "refused"}
    /\ reader.st = "none" => reader = Closed /\ got = <<>>
    /\ reader.st = "refused" => reader.synced = -1 /\ ~reader.whole
    /\ reader.st \in {"open", "eof"} /\ ~reader.erred => Understands(f) /\ Stands(off)
    /\ reader.st = "error" => reader.erred
    /\ Short /\ (reader.st = "eof" \/ reader.erred) => Len(got) >= reader.synced
    /\ Short /\ reader.erred => ~reader.whole
    /\ reader.st = "eof" /\ reader.whole /\ ~reader.erred => Len(got) = Len(content)

(* A pcap-ng file is only read.                                            *)
NgOnly ==
    /\ dumper = "none" /\ file.whole = FALSE /\ synced = -1
    /\ reader.synced = -1 /\ reader.whole = FALSE
    /\ reader.st \in {"none", "open", "eof", "error", "refused"}
    /\ reader.st = "none" => reader = Closed /\ got = <<>>
    /\ DOMAIN reader = DOMAIN Closed
    /\ \E T : got \in Seq(T)

SaveInv ==
    IF ng = <<>> THEN \E f, S, off : /\ Stored(f, S, off) /\ Begins(S) /\ Writing(f, S)
                                     /\ Said(S, off) /\ Reading(f, S, off)
                 ELSE NgOnly
-----------------------------------------------------------------------------
(* The files of other programs.                                            *)

(* FlattenSeq catenates: its recursive function exists.                    *)
LEMMA Flattened ==
    ASSUME NEW s, Len(s) \in Nat, Len(s) # 0
    PROVE  \E g : /\ FlattenSeq(s) = g[Len(s)] /\ g[1] = s[1]
                  /\ \A i \in 2..Len(s) : g[i] = g[i - 1] \o s[i]
<1> DEFINE n == Len(s)
           Catenates(g, m) ==
               g = [i \in 1..m |-> IF i = 1 THEN s[i] ELSE g[i - 1] \o s[i]]
           T == {m \in Nat : \E g : Catenates(g, m)}
<1>1. 0 \in T
  <2>1. Catenates([i \in 1..0 |-> 0], 0) OBVIOUS
  <2> QED BY <2>1
<1>2. ASSUME NEW m \in Nat, m \in T PROVE m + 1 \in T
  <2>1. PICK g : Catenates(g, m) BY <1>2
  <2> DEFINE h == [i \in 1..(m + 1) |-> IF i = 1 THEN s[i] ELSE g[i - 1] \o s[i]]
  <2>2. ASSUME NEW i \in 2..(m + 1) PROVE h[i - 1] = g[i - 1]
    <3>1. i - 1 \in 1..m OBVIOUS
    <3>2. g[i - 1] = IF i - 1 = 1 THEN s[i - 1] ELSE g[i - 1 - 1] \o s[i - 1] BY <2>1, <3>1
    <3>3. h[i - 1] = IF i - 1 = 1 THEN s[i - 1] ELSE g[i - 1 - 1] \o s[i - 1] BY <3>1
    <3> QED BY <3>2, <3>3
  <2>3. Catenates(h, m + 1)
    <3> SUFFICES ASSUME NEW i \in 1..(m + 1)
                 PROVE  h[i] = IF i = 1 THEN s[i] ELSE h[i - 1] \o s[i]
        OBVIOUS
    <3>1. h[i] = IF i = 1 THEN s[i] ELSE g[i - 1] \o s[i] OBVIOUS
    <3>2. i # 1 => h[i - 1] = g[i - 1]
      <4>1. i # 1 => i \in 2..(m + 1) OBVIOUS
      <4> QED BY ONLY <2>2, <4>1
    <3> HIDE DEF h
    <3> QED BY ONLY <3>1, <3>2
  <2> HIDE DEF h, Catenates
  <2> QED BY <2>3
<1>3. n \in T
  <2> HIDE DEF T
  <2> QED BY <1>1, <1>2, Numbers
<1> DEFINE flatten == CHOOSE g : Catenates(g, n)
<1>4. FlattenSeq(s) = flatten[n] BY DEF FlattenSeq
<1>5. Catenates(flatten, n) BY <1>3
<1> HIDE DEF flatten
<1>6. \A i \in 1..n : flatten[i] = IF i = 1 THEN s[i] ELSE flatten[i - 1] \o s[i] BY <1>5
<1>7. flatten[1] = s[1] BY <1>6
<1>8. ASSUME NEW i \in 2..n PROVE flatten[i] = flatten[i - 1] \o s[i]
  <2>1. i \in 1..n /\ i # 1 OBVIOUS
  <2> QED BY ONLY <1>6, <2>1
<1> QED BY <1>4, <1>7, <1>8

(* The magic numbers and the versions fit in a field.                      *)
LEMMA MagicFields ==
    Magics \subseteq FieldValue /\ 0 \in FieldValue /\ 2 \in FieldValue /\ 4 \in FieldValue
<1>1. Base \in Nat /\ Base >= 4 BY Positive
<1>2. Base * Base >= 4 * Base BY <1>1
<1>3. Base * Base \in Nat BY <1>1
<1>4. TCPDUMP \in FieldValue /\ NSEC \in FieldValue /\ KUZNETZOV \in FieldValue
    BY <1>1, <1>2, <1>3 DEF TCPDUMP, NSEC, KUZNETZOV, FieldValue
<1>5. 0 \in FieldValue /\ 2 \in FieldValue /\ 4 \in FieldValue
    BY <1>1, <1>2, <1>3 DEF FieldValue
<1> QED BY <1>4, <1>5 DEF Magics

(* The empty file, which has only its header.                              *)
HeaderBytes(f) == FileHeader(f.order, f.magic, f.major, f.minor, f.snaplen, f.linktype)

LEMMA HeaderPlaced ==
    ASSUME NEW f, GoodFormat(f), NEW S, S = HeaderBytes(f)
    PROVE  \E off : Placed(f, <<>>, S, off)
<1> DEFINE off == [k \in 0..0 |-> 10]
<1>1. /\ f.magic \in FieldValue /\ f.major \in FieldValue /\ f.minor \in FieldValue
      /\ f.snaplen \in FieldValue /\ f.linktype \in FieldValue
    BY MagicFields DEF GoodFormat
<1>2. /\ S \in Seq(Byte) /\ Len(S) = 10
      /\ Word(S, 1, f.order) = f.magic /\ Word(S, 3, f.order) = f.major
      /\ Word(S, 5, f.order) = f.minor /\ Word(S, 7, f.order) = f.snaplen
      /\ Word(S, 9, f.order) = f.linktype
  <2>1. S = FileHeader(f.order, f.magic, f.major, f.minor, f.snaplen, f.linktype)
      BY DEF HeaderBytes
  <2> DEFINE a == f.magic
             b == f.major
             c == f.minor
             d == f.snaplen
             e == f.linktype
             o == f.order
  <2>2. a \in FieldValue /\ b \in FieldValue /\ c \in FieldValue
        /\ d \in FieldValue /\ e \in FieldValue
      BY <1>1
  <2>3. S = FileHeader(o, a, b, c, d, e) BY <2>1
  <2> HIDE DEF a, b, c, d, e, o
  <2>4. /\ S \in Seq(Byte) /\ Len(S) = 10
        /\ Word(S, 1, o) = a /\ Word(S, 3, o) = b /\ Word(S, 5, o) = c
        /\ Word(S, 7, o) = d /\ Word(S, 9, o) = e
      BY <2>2, <2>3, FileWords
  <2> QED BY ONLY <2>4 DEF a, b, c, d, e, o
<1>3. HeaderIn(S, f) BY <1>2 DEF HeaderIn, At, FileHeaderSize
<1>4. Len(<<>>) = 0 OBVIOUS
<1>5. off \in [0..Len(<<>>) -> Nat] /\ off[0] = FileHeaderSize /\ off[Len(<<>>)] = Len(S)
    BY <1>2, <1>4 DEF FileHeaderSize
<1>6. \A j, k \in 0..Len(<<>>) : j < k => off[j] < off[k] BY <1>4
<1> HIDE DEF off
<1>7. Placed(f, <<>>, S, off)
    BY ONLY <1>2, <1>3, <1>4, <1>5, <1>6 DEF Placed
<1> QED BY <1>7

(* A file another program wrote is a header and its packets one after the  *)
(* other: there are offsets off at which each ends.                        *)
LEMMA ForeignPlaced ==
    ASSUME NEW f, GoodFormat(f), f.packets \in Seq(Packet),
           \A k \in 1..Len(f.packets) : GoodPacket(f, f.packets[k])
    PROVE  \E off : Placed(f, f.packets, ForeignFile(f), off)
<1> DEFINE c == f.packets
           n == Len(c)
           H == HeaderBytes(f)
           recs == [i \in DOMAIN c |-> ForeignRecord(f, c[i])]
           all == FlattenSeq(recs)
<1>1. c \in Seq(Packet) /\ n \in Nat /\ DOMAIN c = 1..n OBVIOUS
<1>2. \A i \in 1..n : GoodPacket(f, c[i]) OBVIOUS
<1>3. ForeignFile(f) = H \o all BY DEF ForeignFile, HeaderBytes
<1>4. \E off : Placed(f, <<>>, H, off) BY HeaderPlaced
<1>5. H \in Seq(Byte) BY <1>4 DEF Placed
<1>6. Len(recs) = n BY <1>1
<1>7. \A i \in 1..n : recs[i] = (HeaderOf(f, c[i]) \o Pad(f)) \o Bytes(f, c[i])
    BY <1>1 DEF ForeignRecord, HeaderOf, Pad, Bytes
<1>8. n = 0 => recs = <<>> BY <1>1
<1> HIDE DEF c, H, recs
<1>9. \E g : /\ all = g[n] /\ g[0] = <<>>
             /\ \A i \in 1..n : g[i] = IF i = 1 THEN recs[1] ELSE g[i - 1] \o recs[i]
  <2>1. CASE n = 0
    <3>1. all = recs BY <1>6, <2>1 DEF FlattenSeq
    <3> DEFINE g == [i \in 0..0 |-> <<>>]
    <3>2. all = g[n] /\ g[0] = <<>> BY <1>8, <2>1, <3>1
    <3>3. \A i \in 1..n : FALSE BY <2>1
    <3> HIDE DEF g
    <3> QED BY <3>2, <3>3
  <2>2. CASE n # 0
    <3>1. PICK h : /\ all = h[n] /\ h[1] = recs[1]
                   /\ \A i \in 2..n : h[i] = h[i - 1] \o recs[i]
      <4>1. \E h : /\ FlattenSeq(recs) = h[Len(recs)] /\ h[1] = recs[1]
                   /\ \A i \in 2..Len(recs) : h[i] = h[i - 1] \o recs[i]
          BY ONLY <1>1, <1>6, <2>2, Flattened
      <4> QED BY ONLY <1>6, <4>1 DEF all
    <3> DEFINE g == [i \in 0..n |-> IF i = 0 THEN <<>> ELSE h[i]]
    <3>2. g[0] = <<>> /\ \A i \in 1..n : g[i] = h[i] BY <1>1
    <3> HIDE DEF g
    <3>3. all = g[n] BY <1>1, <2>2, <3>1, <3>2
    <3>4. ASSUME NEW i \in 1..n
          PROVE  g[i] = IF i = 1 THEN recs[1] ELSE g[i - 1] \o recs[i]
      <4>1. CASE i = 1 BY <3>1, <3>2, <4>1
      <4>2. CASE i # 1
        <5>1. i \in 2..n /\ i - 1 \in 1..n BY <1>1, <4>2
        <5>2. h[i] = h[i - 1] \o recs[i] BY ONLY <3>1, <5>1
        <5>3. g[i] = h[i] /\ g[i - 1] = h[i - 1] BY ONLY <3>2, <5>1, i \in 1..n
        <5> QED BY <4>2, <5>2, <5>3
      <4> QED BY <4>1, <4>2
    <3> QED BY <3>2, <3>3, <3>4
  <2> QED BY <2>1, <2>2
<1>10. PICK g : /\ all = g[n] /\ g[0] = <<>>
                /\ \A i \in 1..n : g[i] = IF i = 1 THEN recs[1] ELSE g[i - 1] \o recs[i]
    BY <1>9
<1> HIDE DEF all
<1> DEFINE PlacedUpTo(k) ==
              g[k] \in Seq(Byte) /\ \E off : Placed(f, SubSeq(c, 1, k), H \o g[k], off)
           T == {k \in Nat : k =< n => PlacedUpTo(k)}
<1>11. 0 \in T
  <2>1. SubSeq(c, 1, 0) = <<>> BY SubSeqEmpty
  <2>2. H \o <<>> = H BY <1>5, ConcatEmptySeq
  <2>3. g[0] = <<>> BY <1>10
  <2>4. g[0] \in Seq(Byte) BY ONLY <2>3
  <2>5. H \o g[0] = H BY ONLY <2>2, <2>3
  <2>6. \E off : Placed(f, SubSeq(c, 1, 0), H \o g[0], off)
    BY ONLY <1>4, <2>1, <2>5
  <2> QED BY ONLY <2>4, <2>6
<1>12. ASSUME NEW k \in Nat, k \in T PROVE k + 1 \in T
  <2> SUFFICES ASSUME k + 1 =< n PROVE PlacedUpTo(k + 1)
      OBVIOUS
  <2>1. g[k] \in Seq(Byte) /\ \E off : Placed(f, SubSeq(c, 1, k), H \o g[k], off)
      BY <1>1, <1>12
  <2>2. PICK off : Placed(f, SubSeq(c, 1, k), H \o g[k], off) BY <2>1
  <2> DEFINE p == c[k + 1]
             b == SubSeq(c, 1, k)
             S == H \o g[k]
             h == RecordHead(f, p)
             R == With(f, S, p)
             d == Append(b, p)
  <2>3. k + 1 \in 1..n BY <1>1
  <2>4. GoodPacket(f, p) BY <1>2, <2>3
  <2>5. b \in Seq(Packet) BY <1>1
  <2>6. d = SubSeq(c, 1, k + 1) BY <1>1, <2>3
  <2>7. Placed(f, b, S, off) BY <2>2
  <2>8. recs[k + 1] = h \o Bytes(f, p) BY <1>7, <2>3 DEF RecordHead
  <2> HIDE DEF p, b, S, d
  <2> HIDE DEF h
  <2>9. \E new : Placed(f, d, R, new)
    <3>1. Placed(f, Append(b, p), With(f, S, p), Further(b, off, Len(With(f, S, p))))
        BY <2>4, <2>5, <2>7, PlacedOneMore
    <3> QED BY <3>1 DEF d
  <2>10. p \in Packet BY <2>4 DEF GoodPacket
  <2>11. h \o Bytes(f, p) \in Seq(Byte)
    <3>1. Bytes(f, p) \in Seq(Byte) BY <2>10, Caps
    <3>2. h \in Seq(Byte) BY <2>4, RecordWritten DEF h
    <3> QED BY ONLY <3>1, <3>2, Joined
  <2>12. g[k + 1] = g[k] \o (h \o Bytes(f, p))
    <3> HIDE DEF h
    <3>1. CASE k = 0
      <4>1. g[k + 1] = recs[k + 1] BY <1>10, <2>3, <3>1
      <4>2. g[k] = <<>> BY <1>10, <3>1
      <4>3. <<>> \o (h \o Bytes(f, p)) = h \o Bytes(f, p) BY <2>11, ConcatEmptySeq
      <4> QED BY <2>8, <4>1, <4>2, <4>3
    <3>2. CASE k # 0
      <4>1. k + 1 # 1 /\ (k + 1) - 1 = k BY <3>2
      <4>2. g[k + 1] = g[k] \o recs[k + 1] BY <1>10, <2>3, <4>1
      <4> QED BY <2>8, <4>2
    <3> QED BY <3>1, <3>2
  <2> DEFINE r == h \o Bytes(f, p)
  <2>13. r \in Seq(Byte) /\ g[k + 1] = g[k] \o r BY <2>11, <2>12
  <2>14. R = S \o r BY DEF With, h
  <2> HIDE DEF r, R
  <2>15. g[k + 1] \in Seq(Byte) BY <2>1, <2>13
  <2>16. R = H \o g[k + 1]
    <3> DEFINE x == g[k]
    <3>1. x \in Seq(Byte) /\ r \in Seq(Byte) /\ H \in Seq(Byte) BY <1>5, <2>1, <2>13
    <3>2. S = H \o x BY DEF S
    <3>3. g[k + 1] = x \o r BY <2>13
    <3> HIDE DEF x
    <3>4. (H \o x) \o r = H \o (x \o r) BY ONLY <3>1, ConcatAssociative
    <3> QED BY ONLY <2>14, <3>2, <3>3, <3>4
  <2> QED BY <2>6, <2>9, <2>15, <2>16
<1>13. n \in T
  <2> HIDE DEF T
  <2> QED BY <1>1, <1>11, <1>12, Numbers
<1>14. PICK off : Placed(f, SubSeq(c, 1, n), H \o g[n], off) BY <1>13
<1>15. SubSeq(c, 1, n) = c BY <1>1, SubSeqFull
<1>16. Placed(f, c, ForeignFile(f), off) BY <1>3, <1>10, <1>14, <1>15 DEF all
<1> QED BY <1>16 DEF c
-----------------------------------------------------------------------------
(* The beginning.                                                          *)

(* What pcap_dump_open writes is one of the formats.                       *)
LEMMA HostGood ==
    \A n \in FieldValue, l \in FieldValue : LET f == HostFormat(n, l) IN
        /\ GoodFormat(f) /\ f.order = Host /\ f.magic = TCPDUMP /\ f.major = 2
        /\ f.minor = 4 /\ f.snaplen = n /\ f.linktype = l /\ f.reversed = FALSE
<1> TAKE n \in FieldValue, l \in FieldValue
<1> DEFINE f == HostFormat(n, l)
<1>0. f = HostFormat(n, l) OBVIOUS
<1> HIDE DEF f
<1>1. TCPDUMP # KUZNETZOV /\ DGUX # 2 BY Positive DEF TCPDUMP, KUZNETZOV, DGUX
<1>2. TCPDUMP \in Magics /\ 4 \in FieldValue /\ 2 \in FieldValue BY MagicFields DEF Magics
<1>3. /\ f.order = Host /\ f.magic = TCPDUMP /\ f.major = 2 /\ f.minor = 4 /\ f.snaplen = n
      /\ f.linktype = l /\ f.reversed = FALSE
    BY <1>0 DEF HostFormat, PCAP_VERSION_MAJOR, PCAP_VERSION_MINOR
<1>4. f.order \in {"little", "big"} /\ f.magic \in Magics /\ f.major \in FieldValue
      /\ f.minor \in FieldValue /\ f.snaplen \in FieldValue /\ f.linktype \in FieldValue
      /\ f.reversed \in BOOLEAN
    BY <1>2, <1>3 DEF Host
<1>5. /\ ~(f.major = DGUX \/ (f.major = 2 /\ f.minor < 3)) /\ ~f.reversed
      /\ f.magic # KUZNETZOV /\ f.order = Host
    BY ONLY <1>1, <1>3
<1>6. GoodFormat(f) BY ONLY <1>4, <1>5 DEF GoodFormat
<1> QED BY ONLY <1>3, <1>6 DEF f

(* In particular what the dumper writes, which is not archaic.             *)
LEMMA DumpGood ==
    ASSUME NEW f, f = DumpFormat
    PROVE  /\ GoodFormat(f) /\ f.order = Host /\ f.magic = TCPDUMP /\ f.major = 2
           /\ f.minor = 4 /\ f.snaplen = DumpSnaplen /\ f.linktype = DumpLinktype
           /\ f.reversed = FALSE /\ ~(f.major < PCAP_VERSION_MAJOR)
<1>1. DumpSnaplen \in FieldValue /\ DumpLinktype \in FieldValue BY PacketsAssumption
<1>2. f = HostFormat(DumpSnaplen, DumpLinktype) BY DEF DumpFormat
<1> DEFINE n == DumpSnaplen
           l == DumpLinktype
<1> HIDE DEF n, l
<1>3. /\ GoodFormat(f) /\ f.order = Host /\ f.magic = TCPDUMP /\ f.major = 2
      /\ f.minor = 4 /\ f.snaplen = DumpSnaplen /\ f.linktype = DumpLinktype
      /\ f.reversed = FALSE
  <2>1. n \in FieldValue /\ l \in FieldValue /\ f = HostFormat(n, l)
      BY <1>1, <1>2 DEF n, l
  <2>2. /\ GoodFormat(f) /\ f.order = Host /\ f.magic = TCPDUMP /\ f.major = 2
        /\ f.minor = 4 /\ f.snaplen = n /\ f.linktype = l /\ f.reversed = FALSE
      BY <2>1, HostGood
  <2> QED BY ONLY <2>2 DEF n, l
<1> QED BY ONLY <1>3 DEF PCAP_VERSION_MAJOR

(* So is what other programs write, by FilesAssumption.                    *)
LEMMA FilesGood ==
    ASSUME NEW f \in Files
    PROVE  /\ GoodFormat(f) /\ f.packets \in Seq(Packet)
           /\ \A k \in 1..Len(f.packets) : GoodPacket(f, f.packets[k])
<1>1. GoodFormat(f) /\ f.packets \in Seq(Packet) BY FilesAssumption DEF GoodFormat
<1>2. ASSUME NEW k \in 1..Len(f.packets) PROVE GoodPacket(f, f.packets[k])
  <2>1. k \in DOMAIN f.packets BY <1>1
  <2>2. f.packets[k] \in Packet BY <1>1
  <2>3. Len(f.packets[k].data) \in FieldValue BY <2>1, FilesAssumption
  <2>4. f.major = 2 /\ f.minor = 3 => Len(f.packets[k].data) =< f.packets[k].len
      BY <2>1, FilesAssumption
  <2>5. Short => Len(f.packets[k].data) =< MaximumSnaplen BY <2>1 DEF Short
  <2> QED BY <2>2, <2>3, <2>4, <2>5 DEF GoodPacket
<1> QED BY <1>1, <1>2

(* What stands on the disk is read in its order.                           *)
LEMMA PlacedIsSeq ==
    ASSUME NEW f, NEW c, NEW S, NEW off, Placed(f, c, S, off)
    PROVE  S \in Seq(Byte) /\ Len(S) \in Nat /\ Len(S) >= 10 /\ off[0] = 10 /\ off[Len(c)] = Len(S)
<1>1. /\ S \in Seq(Byte) /\ HeaderIn(S, f) /\ off[0] = FileHeaderSize /\ off[Len(c)] = Len(S)
    BY DEF Placed
<1>2. Len(S) >= FileHeaderSize BY <1>1 DEF HeaderIn
<1> QED BY ONLY <1>1, <1>2 DEF FileHeaderSize

(* A reader that has not begun.                                            *)
LEMMA NotBegun ==
    ASSUME NEW f, NEW S, NEW off, reader = Closed, got = <<>>, Len(content) \in Nat
    PROVE  Reading(f, S, off)
<1>1. /\ reader.st = "none" /\ reader.synced = -1 /\ reader.whole = FALSE
      /\ reader.erred = FALSE
    BY DEF Closed
<1>2. Told(off) BY <1>1 DEF Told, Holds
<1>3. HasRead /\ \E T : got \in Seq(T)
  <2>1. got \in Seq({}) OBVIOUS
  <2> QED BY <2>1 DEF HasRead
<1> QED BY <1>1, <1>2, <1>3 DEF Reading

(* No file yet: the beginning of one without packets.                      *)
LEMMA NothingYet ==
    ASSUME disk = <<>>, ng = <<>>, content = <<>>, file = NoFile, dumper = "none",
           synced = -1, reader = Closed, got = <<>>
    PROVE  SaveInv
<1> DEFINE f == HostFormat(0, 0)
<1>1. 0 \in FieldValue BY MagicFields
<1>10. f = HostFormat(0, 0) OBVIOUS
<1> HIDE DEF f
<1>2. GoodFormat(f) /\ f.magic = TCPDUMP /\ f.snaplen = 0 /\ f.linktype = 0
  <2> DEFINE z == 0
  <2>1. z \in FieldValue /\ f = HostFormat(z, z) BY <1>1, <1>10
  <2> HIDE DEF z
  <2>2. GoodFormat(f) /\ f.magic = TCPDUMP /\ f.snaplen = z /\ f.linktype = z
      BY <2>1, HostGood
  <2> QED BY ONLY <2>2 DEF z
<1>3. PICK S, off : Placed(f, <<>>, S, off) BY <1>2, HeaderPlaced
<1>4. S \in Seq(Byte) /\ Len(S) \in Nat /\ Len(S) >= 10 BY <1>3, PlacedIsSeq
<1>5. Stored(f, S, off)
  <2>1. content \in Seq(Packet) /\ \A k \in 1..Len(content) : FALSE OBVIOUS
  <2>2. /\ file.magic = TCPDUMP /\ file.snaplen = 0 /\ file.linktype = 0
        /\ DOMAIN file = DOMAIN NoFile /\ synced = -1 /\ file.whole = FALSE
      BY DEF NoFile
  <2>3. Placed(f, content, S, off) BY <1>3
  <2> QED BY ONLY <1>2, <2>1, <2>2, <2>3 DEF Stored
<1>6. Begins(S)
  <2>1. Len(disk) = 0 /\ disk \in Seq(Byte) OBVIOUS
  <2> QED BY ONLY <1>4, <2>1 DEF Begins
<1>7. Writing(f, S) BY DEF Writing
<1>8. Said(S, off) BY DEF Said, Holds, NoFile
<1>9. Reading(f, S, off)
  <2>1. Len(content) \in Nat OBVIOUS
  <2> QED BY <2>1, NotBegun
<1> QED BY ONLY <1>5, <1>6, <1>7, <1>8, <1>9, ng = <<>> DEF SaveInv

(* The invariant holds before any call: with no file, with a file of       *)
(* another program cut anywhere, with a pcap-ng file.                      *)
LEMMA InitSave == Init => SaveInv
<1> SUFFICES ASSUME Init PROVE SaveInv
    OBVIOUS
<1>1. /\ dumper = "none" /\ synced = -1 /\ failed = FALSE
      /\ reader = Closed /\ got = <<>>
    BY DEF Init
<1>2. CASE disk = <<>> /\ ng = <<>> /\ content = <<>> /\ file = NoFile
    BY <1>1, <1>2, NothingYet
<1>3. CASE \E f \in Files : \E n \in 0..Len(ForeignFile(f)) :
             /\ disk = SubSeq(ForeignFile(f), 1, n)
             /\ ng = <<>> /\ content = f.packets
             /\ file = [magic |-> f.magic, snaplen |-> f.snaplen, linktype |-> f.linktype,
                        whole |-> /\ n = Len(ForeignFile(f))
                                  /\ f.major >= PCAP_VERSION_MAJOR]
  <2>0. PICK f \in Files : \E n \in 0..Len(ForeignFile(f)) :
             /\ disk = SubSeq(ForeignFile(f), 1, n)
             /\ ng = <<>> /\ content = f.packets
             /\ file = [magic |-> f.magic, snaplen |-> f.snaplen, linktype |-> f.linktype,
                        whole |-> /\ n = Len(ForeignFile(f))
                                  /\ f.major >= PCAP_VERSION_MAJOR]
      BY <1>3
  <2>1. PICK n \in 0..Len(ForeignFile(f)) :
             /\ disk = SubSeq(ForeignFile(f), 1, n)
             /\ ng = <<>> /\ content = f.packets
             /\ file = [magic |-> f.magic, snaplen |-> f.snaplen, linktype |-> f.linktype,
                        whole |-> /\ n = Len(ForeignFile(f))
                                  /\ f.major >= PCAP_VERSION_MAJOR]
      BY <2>0
  <2> DEFINE S == ForeignFile(f)
  <2>2. /\ GoodFormat(f) /\ content \in Seq(Packet)
        /\ \A k \in 1..Len(content) : GoodPacket(f, content[k])
    <3>1. content = f.packets BY <2>1
    <3> QED BY ONLY <3>1, FilesGood, f \in Files
  <2>3. PICK off : Placed(f, content, S, off)
    <3>1. \E off : Placed(f, f.packets, ForeignFile(f), off)
        BY FilesGood, ForeignPlaced
    <3> QED BY <2>1, <3>1
  <2>4. /\ n \in 0..Len(S) /\ disk = SubSeq(S, 1, n)
        /\ file.magic = f.magic /\ file.snaplen = f.snaplen /\ file.linktype = f.linktype
        /\ DOMAIN file = DOMAIN NoFile
      BY <2>1 DEF NoFile
  <2>a. file.whole = (n = Len(S) /\ f.major >= PCAP_VERSION_MAJOR) BY <2>1
  <2>b. file.whole => n = Len(S) /\ f.major >= PCAP_VERSION_MAJOR BY ONLY <2>a
  <2>c. f.major < PCAP_VERSION_MAJOR => ~file.whole
    <3>1. f.major \in Nat BY <2>2, Positive DEF GoodFormat, FieldValue
    <3> QED BY ONLY <2>b, <3>1 DEF PCAP_VERSION_MAJOR
  <2> HIDE DEF S
  <2>5. S \in Seq(Byte) /\ Len(S) \in Nat BY <2>3, PlacedIsSeq
  <2>6. disk \in Seq(Byte) /\ Len(disk) = n /\ \A i \in 1..n : disk[i] = S[i]
      BY ONLY <2>4, <2>5
  <2>7. Begins(S) BY ONLY <2>4, <2>5, <2>6 DEF Begins
  <2>8. Stored(f, S, off) BY ONLY <1>1, <2>2, <2>3, <2>4, <2>c DEF Stored
  <2>9. Writing(f, S) BY <1>1 DEF Writing
  <2>10. Said(S, off) BY ONLY <1>1, <2>4, <2>b, <2>6 DEF Said, Holds
  <2>11. Len(content) \in Nat BY ONLY <2>2
  <2>12. Reading(f, S, off) BY <1>1, <2>11, NotBegun
  <2>13. ng = <<>> BY <2>1
  <2> QED BY ONLY <2>7, <2>8, <2>9, <2>10, <2>12, <2>13 DEF SaveInv
<1>4. CASE disk = <<>> /\ content = <<>> /\ file = NoFile /\ ng \in NgFiles
  <2>1. CASE ng = <<>> BY <1>1, <1>4, <2>1, NothingYet
  <2>2. CASE ng # <<>>
    <3>1. file.whole = FALSE BY <1>4 DEF NoFile
    <3>2. /\ reader.st = "none" /\ reader.synced = -1 /\ reader.whole = FALSE
        BY <1>1 DEF Closed
    <3>3. got \in Seq({}) BY <1>1
    <3>4. NgOnly BY ONLY <1>1, <3>1, <3>2, <3>3 DEF NgOnly
    <3> QED BY <2>2, <3>4 DEF SaveInv
  <2> QED BY <2>1, <2>2
<1> QED BY <1>2, <1>3, <1>4 DEF Init
-----------------------------------------------------------------------------
(* Reading.                                                                *)

SaveState(f, S, off) ==
    /\ Stored(f, S, off) /\ Begins(S) /\ Writing(f, S) /\ Said(S, off) /\ Reading(f, S, off)

(* What a reader does leaves the file and what is said of it as they were. *)
LEMMA WriterStays ==
    ASSUME NEW f, NEW S, NEW off, UNCHANGED Written, SaveState(f, S, off)
    PROVE  Stored(f, S, off)' /\ Begins(S)' /\ Writing(f, S)' /\ Said(S, off)'
<1>1. /\ disk' = disk /\ ng' = ng /\ content' = content /\ file' = file /\ dumper' = dumper
      /\ buf' = buf /\ failed' = failed /\ synced' = synced
    BY DEF Written
<1>2. Stored(f, S, off) /\ Begins(S) /\ Writing(f, S) /\ Said(S, off) BY DEF SaveState
<1>3. Stored(f, S, off)' BY ONLY <1>1, <1>2 DEF Stored
<1>4. Begins(S)' BY ONLY <1>1, <1>2 DEF Begins
<1>5. Writing(f, S)' BY ONLY <1>1, <1>2 DEF Writing, DiskFits, Follows, Given
<1>6. Said(S, off)' BY ONLY <1>1, <1>2 DEF Said, Holds
<1> QED BY <1>3, <1>4, <1>5, <1>6

(* The bytes of a field, in the order of the file or the other one.        *)
LEMMA FieldRead ==
    ASSUME NEW f, f.order \in {"little", "big"}, NEW S \in Seq(Byte), Begins(S),
           NEW i \in Nat, i >= 1, i + 1 =< Len(disk)
    PROVE  /\ f.order = "little" => FieldAt(i) = At(S, i, f)
           /\ f.order = "big" => SWAP(FieldAt(i)) = At(S, i, f)
           /\ At(S, i, f) \in FieldValue
<1> DEFINE a == S[i]
           b == S[i + 1]
<1>1. Len(disk) \in Nat /\ Len(S) \in Nat /\ Len(disk) =< Len(S) BY DEF Begins
<1>2. a \in Byte /\ b \in Byte BY <1>1
<1>3. disk[i] = a /\ disk[i + 1] = b BY <1>1 DEF Begins
<1>4. FieldAt(i) = a + Base * b BY <1>3 DEF FieldAt
<1>5. At(S, i, f) = IF f.order = "little" THEN a + Base * b ELSE b + Base * a
    BY DEF At, Word
<1> HIDE DEF a, b
<1>6. SWAP(a + Base * b) = b + Base * a BY ONLY <1>2, Swapping
<1>7. a + Base * b \in FieldValue /\ b + Base * a \in FieldValue BY ONLY <1>2, Digits
<1> QED BY ONLY <1>4, <1>5, <1>6, <1>7

(* A field swapped twice is what it was: a reader that swaps reads what a  *)
(* writer of the other order meant.                                        *)
LEMMA SwapTwice ==
    ASSUME NEW v \in FieldValue
    PROVE  SWAP(SWAP(v)) = v
<1>1. /\ v % Base \in Byte /\ v \div Base \in Byte /\ (v % Base) + Base * (v \div Base) = v
    BY SplitUp
<1> DEFINE a == v % Base
           b == v \div Base
<1>2. v = a + Base * b BY <1>1
<1>3. a \in Byte /\ b \in Byte BY <1>1
<1> HIDE DEF a, b
<1>4. SWAP(a + Base * b) = b + Base * a BY ONLY <1>3, Swapping
<1>5. SWAP(b + Base * a) = a + Base * b BY ONLY <1>3, Swapping
<1> QED BY ONLY <1>2, <1>4, <1>5

(* No magic number is one in the other order.                              *)
LEMMA MagicOrder ==
    ASSUME NEW m \in Magics
    PROVE  SWAP(m) \notin Magics
<1>1. Base \in Nat /\ Base >= 4 BY Positive
<1>2. 1 \in Byte /\ 2 \in Byte /\ 3 \in Byte BY <1>1 DEF Byte
<1>3. SWAP(2 + Base * 1) = 1 + Base * 2 BY ONLY <1>2, Swapping
<1>4. SWAP(3 + Base * 1) = 1 + Base * 3 BY ONLY <1>2, Swapping
<1>5. SWAP(3 + Base * 2) = 2 + Base * 3 BY ONLY <1>2, Swapping
<1>6. TCPDUMP = Base + 2 /\ NSEC = Base + 3 /\ KUZNETZOV = 2 * Base + 3
    BY <1>1 DEF TCPDUMP, NSEC, KUZNETZOV
<1>7. SWAP(TCPDUMP) = 2 * Base + 1 BY ONLY <1>1, <1>3, <1>6
<1>8. SWAP(NSEC) = 3 * Base + 1 BY ONLY <1>1, <1>4, <1>6
<1>9. SWAP(KUZNETZOV) = 3 * Base + 2 BY ONLY <1>1, <1>5, <1>6
<1> DEFINE x == TCPDUMP
           y == NSEC
           z == KUZNETZOV
<1>10. \A n \in {2 * Base + 1, 3 * Base + 1, 3 * Base + 2} : n # x /\ n # y /\ n # z
    BY ONLY <1>1, <1>6
<1> QED BY <1>7, <1>8, <1>9, <1>10 DEF Magics

(* A file whose header is there is understood.                             *)
LEMMA HeaderRead ==
    ASSUME NEW f, NEW S, NEW off, SaveState(f, S, off), Len(disk) >= 10
    PROVE  /\ {FieldAt(1), SWAP(FieldAt(1))} \cap Magics # {}
           /\ (FieldAt(1) \notin Magics) = (f.order = "big")
           /\ \A i \in {1, 3, 5, 7, 9} :
                 (IF FieldAt(1) \notin Magics THEN SWAP(FieldAt(i)) ELSE FieldAt(i)) = At(S, i, f)
           /\ At(S, 1, f) = f.magic /\ At(S, 3, f) = f.major /\ At(S, 5, f) = f.minor
           /\ At(S, 7, f) = f.snaplen /\ At(S, 9, f) = f.linktype
<1>1. GoodFormat(f) /\ Placed(f, content, S, off) BY DEF SaveState, Stored
<1>2. f.order \in {"little", "big"} /\ f.magic \in Magics BY <1>1 DEF GoodFormat
<1>3. S \in Seq(Byte) /\ HeaderIn(S, f) BY <1>1 DEF Placed
<1>4. /\ At(S, 1, f) = f.magic /\ At(S, 3, f) = f.major /\ At(S, 5, f) = f.minor
      /\ At(S, 7, f) = f.snaplen /\ At(S, 9, f) = f.linktype
    BY <1>3 DEF HeaderIn
<1>5. Begins(S) BY DEF SaveState
<1>6. Len(disk) \in Nat /\ Len(disk) >= 10 BY <1>5 DEF Begins
<1>7. \A i \in {1, 3, 5, 7, 9} : /\ f.order = "little" => FieldAt(i) = At(S, i, f)
                                 /\ f.order = "big" => SWAP(FieldAt(i)) = At(S, i, f)
  <2>1. ASSUME NEW i \in {1, 3, 5, 7, 9}
        PROVE  /\ f.order = "little" => FieldAt(i) = At(S, i, f)
               /\ f.order = "big" => SWAP(FieldAt(i)) = At(S, i, f)
    <3>1. i \in Nat /\ i >= 1 /\ i + 1 =< Len(disk) BY ONLY <1>6, i \in {1, 3, 5, 7, 9}
    <3> QED BY ONLY <1>2, <1>3, <1>5, <3>1, FieldRead
  <2> QED BY <2>1
<1>8. FieldAt(1) \in FieldValue
  <2>1. disk[1] \in Byte /\ disk[1 + 1] \in Byte
    <3>1. disk \in Seq(Byte) BY <1>5 DEF Begins
    <3> QED BY ONLY <1>6, <3>1
  <2> QED BY ONLY <2>1, Digits DEF FieldAt
<1>9. CASE f.order = "little"
  <2>1. FieldAt(1) \in Magics BY ONLY <1>2, <1>4, <1>7, <1>9
  <2> QED BY ONLY <1>4, <1>7, <1>9, <2>1
<1>10. CASE f.order = "big"
  <2>1. SWAP(FieldAt(1)) = f.magic BY ONLY <1>4, <1>7, <1>10
  <2>2. SWAP(SWAP(FieldAt(1))) = FieldAt(1) BY ONLY <1>8, SwapTwice
  <2>3. FieldAt(1) \notin Magics BY ONLY <1>2, <2>1, <2>2, MagicOrder
  <2> QED BY ONLY <1>2, <1>4, <1>7, <1>10, <2>1, <2>3
<1> QED BY ONLY <1>2, <1>9, <1>10

(* Each packet of the file ends after those before it.                     *)
LEMMA OffsetsGrow ==
    ASSUME NEW f, NEW c \in Seq(Packet), NEW S, NEW off, Placed(f, c, S, off)
    PROVE  /\ Len(c) \in Nat /\ Len(S) \in Nat /\ off[0] = 10 /\ off[Len(c)] = Len(S)
           /\ \A j \in 0..Len(c) : off[j] \in Nat /\ 10 =< off[j] /\ off[j] =< Len(S)
           /\ \A j, k \in 0..Len(c) : j < k => off[j] < off[k]
<1>1. Len(S) \in Nat /\ off[0] = 10 /\ off[Len(c)] = Len(S) BY PlacedIsSeq
<1>2. off \in [0..Len(c) -> Nat] /\ \A j, k \in 0..Len(c) : j < k => off[j] < off[k]
    BY DEF Placed
<1>3. Len(c) \in Nat OBVIOUS
<1>4. ASSUME NEW j \in 0..Len(c) PROVE off[j] \in Nat /\ 10 =< off[j] /\ off[j] =< Len(S)
  <2>1. off[j] \in Nat BY ONLY <1>2, j \in 0..Len(c)
  <2>2. 0 \in 0..Len(c) /\ Len(c) \in 0..Len(c) BY ONLY <1>3
  <2>3. j = 0 \/ off[0] < off[j] BY ONLY <1>2, <1>3, <2>2, j \in 0..Len(c)
  <2>4. j = Len(c) \/ off[j] < off[Len(c)] BY ONLY <1>2, <1>3, <2>2, j \in 0..Len(c)
  <2> QED BY ONLY <1>1, <2>1, <2>3, <2>4
<1> QED BY ONLY <1>1, <1>2, <1>3, <1>4

(* PcapOpenOffline keeps the invariant: it finds the format the file was   *)
(* written in, and stands behind the header; it refuses no file that       *)
(* PcapDumpFlush or PcapDumpClose made whole.                              *)
LEMMA OpenStep == SaveInv /\ PcapOpenOffline => SaveInv'
<1> SUFFICES ASSUME SaveInv, PcapOpenOffline PROVE SaveInv'
    OBVIOUS
<1>1. /\ reader.st = "none" /\ ng = <<>> /\ reader' = pcap_check_header
      /\ UNCHANGED Written /\ got' = got
    BY DEF PcapOpenOffline
<1>2. PICK f, S, off : SaveState(f, S, off) BY <1>1 DEF SaveInv, SaveState
<1>3. Stored(f, S, off) /\ Begins(S) /\ Said(S, off) /\ Reading(f, S, off)
    BY <1>2 DEF SaveState
<1>4. Stored(f, S, off)' /\ Begins(S)' /\ Writing(f, S)' /\ Said(S, off)'
    BY ONLY <1>1, <1>2, WriterStays
<1>5. got = <<>> BY <1>1, <1>3 DEF Reading
<1>6. Placed(f, content, S, off) /\ content \in Seq(Packet) BY <1>3 DEF Stored
<1>7. /\ Len(content) \in Nat /\ Len(S) \in Nat /\ off[0] = 10
      /\ \A j \in 0..Len(content) : off[j] \in Nat /\ 10 =< off[j] /\ off[j] =< Len(S)
  <2> QED BY ONLY <1>6, OffsetsGrow
<1>8. Len(disk) \in Nat BY <1>3 DEF Begins
<1>9. /\ disk' = disk /\ content' = content /\ file' = file /\ ng' = ng /\ got' = got
    BY <1>1 DEF Written
<1> DEFINE told == IF failed THEN -1 ELSE synced
<1>10. told \in Int /\ told >= -1 /\ Holds(off, told)
  <2>1. synced \in Int /\ synced >= -1 /\ (~failed => Holds(off, synced)) BY <1>3 DEF Said
  <2>2. Holds(off, -1) BY DEF Holds
  <2> QED BY ONLY <2>1, <2>2
<1>11. file.whole => Len(disk) = Len(S) BY <1>3 DEF Said
<1>12. Opened.whole = file.whole /\ Opened.synced = told BY DEF Opened, Closed
<1> HIDE DEF told
<1>13. HasRead' /\ \E T : got' \in Seq(T)
  <2>1. Len(got') = 0 /\ DOMAIN got' = {} /\ got' \in Seq({}) BY <1>5, <1>9
  <2> QED BY ONLY <1>7, <1>9, <2>1 DEF HasRead
<1>a. f.major < PCAP_VERSION_MAJOR => synced = -1 /\ ~file.whole BY ONLY <1>3 DEF Stored
<1>b. f.major < PCAP_VERSION_MAJOR => told = -1 BY ONLY <1>a DEF told
<1>c. GoodFormat(f) BY ONLY <1>3 DEF Stored
<1>14. reader'.whole = file.whole /\ reader'.synced = told => Told(off)'
    BY ONLY <1>9, <1>10 DEF Told, Holds
<1>r. ASSUME reader' = [Opened EXCEPT !.st = "refused"], told = -1, ~file.whole PROVE SaveInv'
  <2>1. /\ reader'.st = "refused" /\ reader'.whole = file.whole /\ reader'.synced = told
        /\ DOMAIN reader' = DOMAIN Closed /\ reader'.erred = FALSE
      BY ONLY <1>12, <1>r DEF Opened, Closed
  <2>2. Reading(f, S, off)'
      BY ONLY <1>13, <1>14, <1>r, <2>1 DEF Reading
  <2> QED BY ONLY <1>1, <1>4, <1>9, <2>2 DEF SaveInv
<1>15. CASE Len(disk) < 10
  <2>1. reader' = [Opened EXCEPT !.st = "refused"]
      BY <1>1, <1>15 DEF pcap_check_header, FileHeaderSize
  <2>2. told = -1 BY ONLY <1>7, <1>8, <1>10, <1>15 DEF Holds
  <2>3. Len(S) >= 10 BY ONLY <1>7
  <2>4. ~file.whole BY ONLY <1>7, <1>8, <1>11, <1>15, <2>3
  <2> QED BY ONLY <1>r, <2>1, <2>2, <2>4
<1>16. CASE Len(disk) >= 10
  <2> DEFINE Read(i) == IF FieldAt(1) \notin Magics THEN SWAP(FieldAt(i)) ELSE FieldAt(i)
  <2>1. /\ {FieldAt(1), SWAP(FieldAt(1))} \cap Magics # {}
        /\ (FieldAt(1) \notin Magics) = (f.order = "big")
        /\ \A i \in {1, 3, 5, 7, 9} : Read(i) = At(S, i, f)
        /\ At(S, 1, f) = f.magic /\ At(S, 3, f) = f.major /\ At(S, 5, f) = f.minor
        /\ At(S, 7, f) = f.snaplen /\ At(S, 9, f) = f.linktype
      BY ONLY <1>2, <1>16, HeaderRead
  <2>2. /\ Read(1) = f.magic /\ Read(3) = f.major /\ Read(5) = f.minor
        /\ Read(7) = f.snaplen /\ Read(9) = f.linktype
      BY ONLY <2>1
  <2> DEFINE cooked == /\ Read(1) = KUZNETZOV
                       /\ linktype_to_dlt(Read(9)) = DLT_EN10MB
  <2>3. IF Read(3) < PCAP_VERSION_MAJOR
        THEN reader' = [Opened EXCEPT !.st = "refused"]
        ELSE reader' = [Opened EXCEPT
                !.st = "open", !.pos = 10, !.swapped = FieldAt(1) \notin Magics,
                !.magic = Read(1), !.lengths = lengths_swapped(Read(3), Read(5)),
                !.linktype = linktype_to_dlt(Read(9)),
                !.snapshot = IF cooked THEN Read(7) + PatchedPad ELSE Read(7)]
      BY <1>1, <1>8, <1>16, <2>1 DEF pcap_check_header, FileHeaderSize
  <2>4. cooked = (f.magic = KUZNETZOV /\ f.linktype = DLT_EN10MB)
    <3>1. (linktype_to_dlt(f.linktype) = DLT_EN10MB) = (f.linktype = DLT_EN10MB)
        BY DEF linktype_to_dlt, DLT_EN10MB
    <3> QED BY ONLY <2>2, <3>1
  <2> HIDE DEF Read, cooked
  <2>5. CASE f.major < PCAP_VERSION_MAJOR
    <3>1. reader' = [Opened EXCEPT !.st = "refused"] BY ONLY <2>2, <2>3, <2>5
    <3> QED BY ONLY <1>r, <1>a, <1>b, <2>5, <3>1
  <2>6. CASE ~(f.major < PCAP_VERSION_MAJOR)
    <3>1. reader' = [Opened EXCEPT
                !.st = "open", !.pos = 10, !.swapped = FieldAt(1) \notin Magics,
                !.magic = Read(1), !.lengths = lengths_swapped(Read(3), Read(5)),
                !.linktype = linktype_to_dlt(Read(9)),
                !.snapshot = IF cooked THEN Read(7) + PatchedPad ELSE Read(7)]
        BY ONLY <2>2, <2>3, <2>6
    <3>2. /\ reader'.st = "open" /\ reader'.pos = 10 /\ reader'.whole = file.whole
          /\ reader'.synced = told /\ DOMAIN reader' = DOMAIN Closed
          /\ reader'.swapped = (FieldAt(1) \notin Magics) /\ reader'.erred = FALSE
          /\ reader'.magic = Read(1) /\ reader'.lengths = lengths_swapped(Read(3), Read(5))
          /\ reader'.linktype = linktype_to_dlt(Read(9))
          /\ reader'.snapshot = IF cooked THEN Read(7) + PatchedPad ELSE Read(7)
        BY ONLY <1>12, <3>1 DEF Opened, Closed
    <3>3. f.major >= PCAP_VERSION_MAJOR
      <4>1. f.major \in Nat BY <1>c, Positive DEF GoodFormat, FieldValue
      <4> QED BY ONLY <2>6, <4>1 DEF PCAP_VERSION_MAJOR
    <3>4. Understands(f)' BY ONLY <2>1, <2>2, <2>4, <3>2, <3>3 DEF Understands
    <3>5. Stands(off)'
      <4>1. Len(got') = 0 BY <1>5, <1>9
      <4> QED BY ONLY <1>7, <1>9, <1>16, <3>2, <4>1 DEF Stands
    <3>6. Reading(f, S, off)'
        BY ONLY <1>13, <1>14, <3>2, <3>4, <3>5 DEF Reading
    <3> QED BY ONLY <1>1, <1>4, <1>9, <3>6 DEF SaveInv
  <2> QED BY ONLY <2>5, <2>6
<1> QED BY ONLY <1>8, <1>15, <1>16

(* PcapClose keeps the invariant.                                          *)
LEMMA CloseStep == SaveInv /\ PcapClose => SaveInv'
<1> SUFFICES ASSUME SaveInv, PcapClose PROVE SaveInv'
    OBVIOUS
<1>1. reader' = Closed /\ got' = <<>> /\ UNCHANGED Written BY DEF PcapClose
<1>2. CASE ng = <<>>
  <2>1. PICK f, S, off : SaveState(f, S, off) BY <1>2 DEF SaveInv, SaveState
  <2>2. Stored(f, S, off)' /\ Begins(S)' /\ Writing(f, S)' /\ Said(S, off)'
      BY ONLY <1>1, <2>1, WriterStays
  <2>3. content \in Seq(Packet) BY <2>1 DEF SaveState, Stored
  <2>4. Len(content') \in Nat /\ ng' = <<>> BY <1>1, <1>2, <2>3 DEF Written
  <2>5. Reading(f, S, off)'
    <3>1. /\ reader'.st = "none" /\ reader'.synced = -1 /\ reader'.whole = FALSE
          /\ reader'.erred = FALSE
        BY <1>1 DEF Closed
    <3>2. Told(off)' BY <3>1 DEF Told, Holds
    <3>3. HasRead' /\ \E T : got' \in Seq(T)
      <4>1. got' \in Seq({}) /\ Len(got') = 0 BY <1>1
      <4> QED BY ONLY <1>1, <2>4, <4>1 DEF HasRead
    <3> QED BY ONLY <1>1, <3>1, <3>2, <3>3 DEF Reading
  <2> QED BY ONLY <2>2, <2>4, <2>5 DEF SaveInv
<1>3. CASE ng # <<>>
  <2>1. NgOnly BY <1>3 DEF SaveInv
  <2>2. dumper' = dumper /\ file' = file /\ synced' = synced /\ ng' = ng BY <1>1 DEF Written
  <2>3. /\ reader'.st = "none" /\ reader'.synced = -1 /\ reader'.whole = FALSE
      BY <1>1 DEF Closed
  <2>4. got' \in Seq({}) BY <1>1
  <2>5. NgOnly'
      BY ONLY <1>1, <2>1, <2>2, <2>3, <2>4 DEF NgOnly
  <2> QED BY ONLY <1>3, <2>2, <2>5 DEF SaveInv
<1> QED BY <1>2, <1>3

(* A packet that is on the disk, at least in part.                         *)
LEMMA PacketAhead ==
    ASSUME NEW f, NEW S, NEW off, SaveState(f, S, off), reader.st \in {"open", "eof"},
           ~reader.erred, reader.pos < Len(disk)
    PROVE  /\ Len(got) \in Nat /\ reader.pos = off[Len(got)] /\ reader.pos \in Nat
           /\ \E k \in 1..Len(content) :
                 /\ k = Len(got) + 1 /\ off[k] \in Nat /\ off[k] =< Len(S)
                 /\ off[k] = reader.pos + Size(f) + Cap(content[k])
                 /\ RecordIn(S, reader.pos, f, content[k])
                 /\ GoodPacket(f, content[k]) /\ Cap(content[k]) \in Nat
<1> PICK m : m = Len(got) OBVIOUS
<1>1. Stored(f, S, off) /\ Begins(S) /\ Reading(f, S, off) BY DEF SaveState
<1>2. Placed(f, content, S, off) /\ content \in Seq(Packet) BY <1>1 DEF Stored
<1>3. /\ Len(content) \in Nat /\ Len(S) \in Nat /\ off[Len(content)] = Len(S)
      /\ \A j \in 0..Len(content) : off[j] \in Nat /\ 10 =< off[j] /\ off[j] =< Len(S)
  <2> QED BY ONLY <1>2, OffsetsGrow
<1>4. Stands(off) /\ HasRead BY <1>1 DEF Reading
<1>5. m \in Nat /\ m =< Len(content) /\ reader.pos = off[m] BY <1>4 DEF HasRead, Stands
<1>6. Len(disk) \in Nat /\ Len(disk) =< Len(S) BY <1>1 DEF Begins
<1>7. m # Len(content)
  <2>1. m = Len(content) => reader.pos = Len(S) BY ONLY <1>3, <1>5
  <2>2. m = Len(content) => Len(S) < Len(disk) BY <2>1
  <2> QED BY ONLY <1>3, <1>6, <2>2
<1>8. m + 1 \in 1..Len(content) /\ (m + 1) - 1 = m BY ONLY <1>3, <1>5, <1>7
<1> DEFINE k == m + 1
<1>9. k \in 1..Len(content) /\ k - 1 = m BY <1>8
<1> HIDE DEF k
<1>10. /\ off[k] = off[k - 1] + Size(f) + Cap(content[k])
       /\ RecordIn(S, off[k - 1], f, content[k])
    BY ONLY <1>2, <1>9 DEF Placed
<1>11. GoodPacket(f, content[k]) BY ONLY <1>1, <1>9 DEF Stored
<1>12. Cap(content[k]) \in Nat
  <2>1. content[k] \in Packet BY ONLY <1>11 DEF GoodPacket
  <2> QED BY ONLY <2>1, Caps
<1>13. k \in 0..Len(content) /\ m \in 0..Len(content) BY ONLY <1>3, <1>5, <1>9
<1>14. off[m] \in Nat /\ off[k] \in Nat /\ off[k] =< Len(S) BY ONLY <1>3, <1>13
<1>15. /\ off[k] = off[m] + Size(f) + Cap(content[k]) /\ RecordIn(S, off[m], f, content[k])
    BY ONLY <1>9, <1>10
<1>16. /\ off[k] = reader.pos + Size(f) + Cap(content[k])
       /\ RecordIn(S, reader.pos, f, content[k]) /\ reader.pos \in Nat
    BY ONLY <1>5, <1>14, <1>15
<1>17. k = Len(got) + 1 BY ONLY m = Len(got) DEF k
<1> QED BY ONLY <1>5, <1>9, <1>11, <1>12, <1>14, <1>16, <1>17, m = Len(got)

(* The fields of its header, when it is there as a whole.                  *)
Here(i) == IF reader.swapped THEN SWAP(FieldAt(reader.pos + i)) ELSE FieldAt(reader.pos + i)

(* The fields the reader finds where it stands are those of the packet that*)
(* begins there.                                                           *)
LEMMA FieldsHere ==
    ASSUME NEW f, NEW S, NEW off, SaveState(f, S, off), reader.st \in {"open", "eof"},
           ~reader.erred, NEW p, reader.pos \in Nat, RecordIn(S, reader.pos, f, p),
           Len(disk) - reader.pos >= Size(f)
    PROVE  Here(1) = p.frac /\ Here(3) = First3(f, p) /\ Here(5) = First5(f, p)
<1>1. Stored(f, S, off) /\ Begins(S) /\ Reading(f, S, off) BY DEF SaveState
<1>2. GoodFormat(f) /\ Placed(f, content, S, off) BY <1>1 DEF Stored
<1>3. S \in Seq(Byte) BY <1>2 DEF Placed
<1>4. f.order \in {"little", "big"} BY <1>2 DEF GoodFormat
<1>5. reader.swapped = (f.order = "big") BY <1>1 DEF Reading, Understands
<1> DEFINE at == reader.pos
<1>6. at \in Nat /\ Len(disk) - at >= Size(f) OBVIOUS
<1>7. Len(disk) \in Nat BY <1>1 DEF Begins
<1>8. At(S, at + 1, f) = p.frac /\ At(S, at + 3, f) = First3(f, p)
      /\ At(S, at + 5, f) = First5(f, p)
    BY DEF RecordIn
<1>9. \A i : Here(i) = IF reader.swapped THEN SWAP(FieldAt(at + i)) ELSE FieldAt(at + i)
    BY DEF Here
<1> HIDE DEF at
<1>10. ASSUME NEW i \in {1, 3, 5} PROVE Here(i) = At(S, at + i, f)
  <2>1. at + i \in Nat /\ at + i >= 1 /\ (at + i) + 1 =< Len(disk)
      BY ONLY <1>6, <1>7, Sizes, i \in {1, 3, 5}
  <2>2. /\ f.order = "little" => FieldAt(at + i) = At(S, at + i, f)
        /\ f.order = "big" => SWAP(FieldAt(at + i)) = At(S, at + i, f)
      BY ONLY <1>1, <1>3, <1>4, <2>1, FieldRead
  <2> QED BY ONLY <1>4, <1>5, <1>9, <2>2
<1> QED BY ONLY <1>8, <1>10

(* And the two lengths, swapped as the version and the system of the writer*)
(* ask, are those of the packet.                                           *)
LEMMA LengthsHere ==
    ASSUME NEW f, GoodFormat(f), Understands(f), NEW p, GoodPacket(f, p)
    PROVE  /\ Lengths(First3(f, p), First5(f, p)).cap = Cap(p)
           /\ Lengths(First3(f, p), First5(f, p)).len = p.len
<1> DEFINE m == f.major
           n == f.minor
           cap == Cap(p)
           len == p.len
           rev == f.reversed
           w == reader.lengths
<1>1. /\ m \in Nat /\ n \in Nat /\ m >= 2 /\ rev \in BOOLEAN
      /\ m = DGUX \/ (m = 2 /\ n < 3) => rev
      /\ (m > 2 /\ m # DGUX) \/ (m = 2 /\ n > 3) => ~rev
    BY Positive DEF GoodFormat, FieldValue, Understands, PCAP_VERSION_MAJOR
<1>2. cap \in Nat /\ len \in Nat /\ (m = 2 /\ n = 3 => cap =< len)
    BY Positive DEF GoodPacket, Packet, FieldValue, Cap
<1>3. First3(f, p) = IF rev THEN len ELSE cap BY DEF First3
<1>4. First5(f, p) = IF rev THEN cap ELSE len BY DEF First5
<1>5. w = lengths_swapped(m, n) BY DEF Understands
<1>a. DGUX # 2 BY Positive DEF DGUX
<1> DEFINE a == First3(f, p)
           b == First5(f, p)
           l == Lengths(a, b)
<1>6. l = IF w = "not" \/ (w = "maybe" /\ a =< b)
          THEN [cap |-> a, len |-> b] ELSE [cap |-> b, len |-> a]
    BY DEF Lengths
<1> HIDE DEF m, n, cap, len, rev, w, a, b, l
<1>b. CASE m = DGUX \/ (m = 2 /\ n < 3)
  <2>1. w = "swapped" BY ONLY <1>1, <1>5, <1>a, <1>b DEF lengths_swapped
  <2>2. l = [cap |-> b, len |-> a] BY ONLY <1>6, <2>1
  <2> QED BY ONLY <1>1, <1>3, <1>4, <1>b, <2>2 DEF a, b, l, cap, len
<1>c. CASE m = 2 /\ n = 3
  <2>1. w = "maybe" BY ONLY <1>1, <1>5, <1>a, <1>c DEF lengths_swapped
  <2>2. a = (IF rev THEN len ELSE cap) /\ b = (IF rev THEN cap ELSE len)
      BY ONLY <1>3, <1>4 DEF a, b
  <2>3. CASE a =< b
    <3>1. l = [cap |-> a, len |-> b] BY ONLY <1>6, <2>1, <2>3
    <3>2. a = cap /\ b = len BY ONLY <1>1, <1>2, <1>c, <2>2, <2>3
    <3> QED BY ONLY <3>1, <3>2 DEF a, b, l, cap, len
  <2>4. CASE ~(a =< b)
    <3>1. l = [cap |-> b, len |-> a] BY ONLY <1>6, <2>1, <2>4
    <3>2. b = cap /\ a = len BY ONLY <1>1, <1>2, <1>c, <2>2, <2>4
    <3> QED BY ONLY <3>1, <3>2 DEF a, b, l, cap, len
  <2> QED BY ONLY <2>3, <2>4
<1>d. CASE ~(m = DGUX \/ (m = 2 /\ n < 3)) /\ ~(m = 2 /\ n = 3)
  <2>1. w = "not" BY ONLY <1>1, <1>5, <1>d DEF lengths_swapped
  <2>2. l = [cap |-> a, len |-> b] BY ONLY <1>6, <2>1
  <2>3. (m > 2 /\ m # DGUX) \/ (m = 2 /\ n > 3) BY ONLY <1>1, <1>d
  <2> QED BY ONLY <1>1, <1>3, <1>4, <2>2, <2>3 DEF a, b, l, cap, len
<1> QED BY ONLY <1>b, <1>c, <1>d DEF a, b, l, cap, len

(* The bytes of the packet, when they are there as a whole.                *)
LEMMA BytesHere ==
    ASSUME NEW S, Begins(S), NEW f, NEW p \in Packet, NEW at \in Nat, RecordIn(S, at, f, p),
           at + Size(f) + Cap(p) =< Len(disk)
    PROVE  SubSeq(disk, at + Size(f) + 1, at + Size(f) + Cap(p)) = Bytes(f, p)
<1> DEFINE n == Cap(p)
           b == at + Size(f)
           s == SubSeq(disk, b + 1, b + n)
           t == Bytes(f, p)
<1>1. n \in Nat /\ t \in Seq(Byte) /\ Len(t) = n BY Caps
<1>2. b \in Nat /\ b + n =< Len(disk) BY Sizes
<1>3. disk \in Seq(Byte) /\ \A i \in 1..Len(disk) : disk[i] = S[i] BY DEF Begins
<1>4. \A j \in 1..n : S[b + j] = t[j] BY DEF RecordIn
<1> HIDE DEF n, b, t
<1>5. s \in Seq(Byte) /\ Len(s) = n /\ \A j \in 1..n : s[j] = disk[b + j]
  <2>1. Len(disk) \in Nat BY <1>3
  <2> QED BY ONLY <1>1, <1>2, <1>3, <2>1
<1>6. \A j \in 1..n : s[j] = t[j]
  <2>1. ASSUME NEW j \in 1..n PROVE s[j] = t[j]
    <3>1. b + j \in 1..Len(disk) BY ONLY <1>1, <1>2, <1>3, j \in 1..n
    <3>2. disk[b + j] = S[b + j] BY ONLY <1>3, <3>1
    <3> QED BY ONLY <1>4, <1>5, <3>2, j \in 1..n
  <2> QED BY <2>1
<1> HIDE DEF s
<1>7. s = t BY ONLY <1>1, <1>5, <1>6, SeqEqual
<1> QED BY <1>7 DEF n, b, s, t

(* The buffer is as large as the snapshot length of the file says, and what*)
(* the reader swaps back is what was captured.                             *)
LEMMA BufferHere ==
    ASSUME NEW f, GoodFormat(f), Understands(f), file.magic = f.magic, file.snaplen = f.snaplen,
           file.linktype = f.linktype, NEW p \in Packet,
           NEW d, d = Cut(Bytes(f, p), BufferSize(reader.snapshot))
    PROVE  View(p) = [frac |-> Scaled(p.frac), len |-> p.len,
                      data |-> IF reader.swapped THEN swap_pseudo_headers(reader.linktype, d)
                                                 ELSE d]
<1> DEFINE padded == f.magic = KUZNETZOV /\ f.linktype = DLT_EN10MB
           pad == IF file.magic = KUZNETZOV /\ file.linktype = DLT_EN10MB
                  THEN PatchedPad ELSE 0
           x == f.snaplen
           wanted == IF file.snaplen = 0 THEN 0 ELSE file.snaplen + pad
           snapshot == reader.snapshot
           n == BufferSize(snapshot)
           l == f.linktype
           e == p.data
<1>1. x \in Nat /\ (padded => x # 0) BY Positive DEF GoodFormat, FieldValue
<1>2. snapshot = IF padded THEN x + PatchedPad ELSE x BY DEF Understands
<1>3. wanted = IF x = 0 THEN 0 ELSE x + (IF padded THEN PatchedPad ELSE 0)
    OBVIOUS
<1>4. View(p) = [frac |-> IF file.magic = NSEC THEN p.frac \div 2 ELSE p.frac, len |-> p.len,
                 data |-> Cut(e, BufferSize(wanted))]
    BY DEF View
<1>5. Scaled(p.frac) = IF file.magic = NSEC THEN p.frac \div 2 ELSE p.frac
    BY DEF Scaled, Understands
<1>7. e \in Seq(Byte) BY DEF Packet
<1>8. d = Cut(IF f.order = Host THEN e ELSE swap_pseudo_headers(l, e), n) BY DEF Bytes
<1>9. reader.swapped = (f.order # Host)
    BY DEF Understands, GoodFormat, Host
<1>10. f.order # Host /\ l = DLT_USB_LINUX => x # 1 BY DEF GoodFormat
<1>11. l = DLT_USB_LINUX => ~padded BY DEF DLT_USB_LINUX, DLT_EN10MB
<1>12. reader.linktype = linktype_to_dlt(l) BY DEF Understands
<1>i. n = BufferSize(snapshot) OBVIOUS
<1> HIDE DEF x, wanted, snapshot, padded, n, l, e
<1>6. snapshot = wanted BY ONLY <1>1, <1>2, <1>3 DEF PatchedPad
<1>13. n \in Nat /\ (f.order # Host /\ l = DLT_USB_LINUX => n # 1)
  <2>1. MaximumSnaplen \in Nat \ {0, 1} BY SavefileAssumption
  <2>2. n = IF snapshot = 0 THEN MaximumSnaplen ELSE snapshot BY ONLY <1>i DEF BufferSize
  <2> QED BY ONLY <1>1, <1>2, <1>10, <1>11, <2>1, <2>2 DEF PatchedPad
<1>14. CASE f.order = Host
  <2>1. d = Cut(e, n) /\ ~reader.swapped BY ONLY <1>8, <1>9, <1>14
  <2> QED BY ONLY <1>4, <1>5, <1>6, <1>i, <2>1 DEF snapshot, n
<1>15. CASE f.order # Host
  <2>1. d = Cut(swap_pseudo_headers(l, e), n) /\ reader.swapped BY ONLY <1>8, <1>9, <1>15
  <2>2. swap_pseudo_headers(l, d) = Cut(e, n)
    <3>1. swap_pseudo_headers(l, Cut(swap_pseudo_headers(l, e), n)) = Cut(e, n)
        BY ONLY <1>7, <1>13, <1>15, SwappedBack
    <3> QED BY ONLY <2>1, <3>1
  <2>3. swap_pseudo_headers(reader.linktype, d) = swap_pseudo_headers(l, d)
    <3>1. (reader.linktype = DLT_USB_LINUX) = (l = DLT_USB_LINUX)
        BY ONLY <1>12 DEF linktype_to_dlt, DLT_USB_LINUX
    <3> QED BY ONLY <3>1 DEF swap_pseudo_headers
  <2> QED BY ONLY <1>4, <1>5, <1>6, <1>i, <2>1, <2>2, <2>3 DEF snapshot, n
<1> QED BY ONLY <1>14, <1>15

(* What a reader that goes on after an error gets is only more.            *)
LEMMA AfterError ==
    ASSUME NEW f, NEW S, NEW off, Reading(f, S, off), UNCHANGED Written,
           reader.erred \/ reader'.erred, reader'.erred,
           reader'.synced = reader.synced, reader'.whole = reader.whole,
           DOMAIN reader' = DOMAIN Closed, reader'.st \in {"open", "eof", "error"},
           got' = got \/ \E e : got' = Append(got, e),
           Short => Len(got) >= reader.synced /\ ~reader.whole
    PROVE  Reading(f, S, off)'
<1>1. Told(off)'
  <2>1. disk' = disk /\ content' = content /\ file' = file BY DEF Written
  <2>2. Told(off) BY DEF Reading
  <2> QED BY ONLY <2>1, <2>2, reader'.synced = reader.synced, reader'.whole = reader.whole
          DEF Told, Holds
<1>2. (\E T : got' \in Seq(T)) /\ Len(got) \in Nat /\ Len(got') \in Nat /\ Len(got') >= Len(got)
  <2>1. PICK T : got \in Seq(T) BY DEF Reading
  <2>2. CASE got' = got BY <2>1, <2>2
  <2>3. CASE \E e : got' = Append(got, e)
    <3>1. PICK e : got' = Append(got, e) BY <2>3
    <3>2. T \subseteq T \cup {e} /\ e \in T \cup {e} OBVIOUS
    <3>3. got \in Seq(T \cup {e}) BY ONLY <2>1, <3>2, SeqMonotonic
    <3>4. /\ Append(got, e) \in Seq(T \cup {e}) /\ Len(got) \in Nat
          /\ Len(Append(got, e)) = Len(got) + 1
        BY ONLY <3>2, <3>3, AppendProperties
    <3> QED BY ONLY <3>1, <3>4
  <2> QED BY <2>2, <2>3
<1>3. reader.synced \in Int BY DEF Reading, Told
<1>4. Short => Len(got') >= reader'.synced /\ ~reader'.whole
  <2>1. Short => Len(got) >= reader.synced /\ ~reader.whole OBVIOUS
  <2>2. reader'.synced = reader.synced /\ reader'.whole = reader.whole OBVIOUS
  <2> DEFINE n == reader.synced
             k == Len(got)
             m == Len(got')
  <2>3. n \in Int /\ k \in Nat /\ m \in Nat /\ m >= k BY <1>2, <1>3
  <2>4. Short => k >= n BY <2>1
  <2> HIDE DEF n, k, m
  <2>5. Short => m >= n BY ONLY <2>3, <2>4
  <2> QED BY ONLY <2>1, <2>2, <2>5 DEF n, m
<1> QED BY ONLY <1>1, <1>2, <1>4, reader'.erred, DOMAIN reader' = DOMAIN Closed,
        reader'.st \in {"open", "eof", "error"} DEF Reading

(* NextPacket keeps the invariant: it gives the packet that begins where   *)
(* the reader stands, cut to the snapshot of the file, or it ends, or fails*)
(* where the file was cut.                                                 *)
LEMMA NextStep == SaveInv /\ NextPacket => SaveInv'
<1> SUFFICES ASSUME SaveInv, NextPacket PROVE SaveInv'
    OBVIOUS
<1> DEFINE at == reader.pos
           left == Len(disk) - at
           size == HeaderSize(reader.magic)
           l == Lengths(Here(3), Here(5))
           bufsize == BufferSize(reader.snapshot)
           data == SubSeq(disk, at + size + 1, at + size + l.cap)
           given == IF reader.swapped
                    THEN swap_pseudo_headers(reader.linktype, Cut(data, bufsize))
                    ELSE Cut(data, bufsize)
           TooLong == l.cap > bufsize /\ l.cap > MaximumSnaplen
           Fails == \E pos : /\ reader' = [reader EXCEPT !.st = "error", !.erred = TRUE,
                                                         !.pos = pos]
                             /\ got' = got
<1>1. reader.st \in {"open", "eof", "error"} /\ ng = <<>> /\ UNCHANGED Written BY DEF NextPacket
<1>2. \/ left = 0 /\ reader' = [reader EXCEPT !.st = "eof"] /\ got' = got
      \/ left \in 1..(size - 1) /\ Fails
      \/ left >= size /\ TooLong /\ Fails
      \/ left >= size /\ ~TooLong /\ l.cap > left - size /\ Fails
      \/ /\ left >= size /\ ~TooLong /\ l.cap =< left - size
         /\ reader' = [reader EXCEPT !.st = "open", !.pos = at + size + l.cap]
         /\ got' = Append(got, [frac |-> Scaled(Here(1)), len |-> l.len, data |-> given])
    BY DEF NextPacket, Here
<1>3. PICK f, S, off : SaveState(f, S, off) BY <1>1 DEF SaveInv, SaveState
<1>4. Stored(f, S, off) /\ Begins(S) /\ Said(S, off) /\ Reading(f, S, off)
    BY <1>3 DEF SaveState
<1>5. Stored(f, S, off)' /\ Begins(S)' /\ Writing(f, S)' /\ Said(S, off)'
    BY ONLY <1>1, <1>3, WriterStays
<1>10. /\ disk' = disk /\ content' = content /\ file' = file /\ ng' = ng
    BY <1>1 DEF Written
<1>a. DOMAIN reader = DOMAIN Closed /\ (reader.st = "error" => reader.erred)
    BY ONLY <1>4 DEF Reading
<1>e. ASSUME reader'.erred, reader'.synced = reader.synced, reader'.whole = reader.whole,
             DOMAIN reader' = DOMAIN Closed, reader'.st \in {"open", "eof", "error"},
             got' = got \/ \E e : got' = Append(got, e),
             Short => Len(got) >= reader.synced /\ ~reader.whole
      PROVE  SaveInv'
  <2>1. Reading(f, S, off)' BY ONLY <1>1, <1>4, <1>e, AfterError
  <2> QED BY ONLY <1>1, <1>5, <1>10, <2>1 DEF SaveInv
(* After an error.                                                         *)
<1>f. CASE reader.erred
  <2>1. Short => Len(got) >= reader.synced /\ ~reader.whole BY ONLY <1>4, <1>f DEF Reading
  <2>2. \/ reader' = [reader EXCEPT !.st = "eof"]
        \/ \E pos : reader' = [reader EXCEPT !.st = "error", !.erred = TRUE, !.pos = pos]
        \/ \E pos : reader' = [reader EXCEPT !.st = "open", !.pos = pos]
      BY ONLY <1>2
  <2>3. got' = got \/ \E e : got' = Append(got, e) BY ONLY <1>2
  <2>4. /\ reader'.erred /\ reader'.synced = reader.synced /\ reader'.whole = reader.whole
        /\ DOMAIN reader' = DOMAIN Closed /\ reader'.st \in {"open", "eof", "error"}
    <3>1. CASE reader' = [reader EXCEPT !.st = "eof"] BY ONLY <1>a, <1>f, <3>1 DEF Closed
    <3>2. CASE \E pos : reader' = [reader EXCEPT !.st = "error", !.erred = TRUE, !.pos = pos]
        BY ONLY <1>a, <3>2 DEF Closed
    <3>3. CASE \E pos : reader' = [reader EXCEPT !.st = "open", !.pos = pos]
        BY ONLY <1>a, <1>f, <3>3 DEF Closed
    <3> QED BY ONLY <2>2, <3>1, <3>2, <3>3
  <2> QED BY ONLY <1>e, <2>1, <2>3, <2>4
<1> SUFFICES ASSUME ~reader.erred PROVE SaveInv'
    BY <1>f
<1>g. reader.st \in {"open", "eof"} /\ ~reader.erred BY <1>1, <1>a
<1>6. Told(off) /\ HasRead /\ Understands(f) /\ Stands(off)
    BY ONLY <1>g, <1>4 DEF Reading
<1>7. GoodFormat(f) /\ Placed(f, content, S, off) /\ content \in Seq(Packet)
      /\ file.magic = f.magic /\ file.snaplen = f.snaplen /\ file.linktype = f.linktype
    BY <1>4 DEF Stored
<1>8. /\ Len(content) \in Nat /\ Len(S) \in Nat /\ off[Len(content)] = Len(S)
      /\ \A j \in 0..Len(content) : off[j] \in Nat /\ 10 =< off[j] /\ off[j] =< Len(S)
      /\ \A j, k \in 0..Len(content) : j < k => off[j] < off[k]
  <2>1. Placed(f, content, S, off) /\ content \in Seq(Packet) BY <1>7
  <2>2. /\ Len(content) \in Nat /\ Len(S) \in Nat /\ off[Len(content)] = Len(S)
        /\ \A j \in 0..Len(content) : off[j] \in Nat /\ 10 =< off[j] /\ off[j] =< Len(S)
      BY ONLY <2>1, OffsetsGrow
  <2>3. \A i, j \in 0..Len(content) : i < j => off[i] < off[j]
      BY ONLY <2>1 DEF Placed
  <2> QED BY ONLY <2>2, <2>3
<1>9. Len(disk) \in Nat /\ Len(disk) =< Len(S) /\ (file.whole => Len(disk) = Len(S))
    BY <1>4 DEF Begins, Said
<1> DEFINE m == Len(got)
<1>11. m \in 0..Len(content) /\ at = off[m] /\ at =< Len(disk) /\ at \in Nat
    BY ONLY <1>6, <1>8 DEF HasRead, Stands
<1>12. size = Size(f) BY ONLY <1>6 DEF Understands, Size
<1>13. size \in Nat /\ size >= 6 BY ONLY <1>12, Sizes
<1>14. reader.synced \in Int /\ Holds(off, reader.synced) /\ (reader.whole => file.whole)
    BY ONLY <1>6 DEF Told
<1>15. reader'.synced = reader.synced /\ reader'.whole = reader.whole => Told(off)'
    BY ONLY <1>10, <1>14 DEF Told, Holds
<1>16. got' = got => HasRead' BY ONLY <1>6, <1>10 DEF HasRead, View
<1>17. left \in Nat /\ (left # 0 => at < Len(disk)) BY ONLY <1>9, <1>11
<1> DEFINE k == m + 1
           p == content[k]
<1>18. left # 0 =>
           /\ k \in 1..Len(content) /\ off[k] =< Len(S) /\ off[k] \in Nat
           /\ off[k] = at + size + Cap(p)
           /\ RecordIn(S, at, f, p) /\ GoodPacket(f, p) /\ Cap(p) \in Nat
  <2> HAVE left # 0
  <2>1. reader.pos < Len(disk) BY ONLY <1>17, left # 0
  <2>2. PICK i \in 1..Len(content) :
             /\ i = Len(got) + 1 /\ off[i] \in Nat /\ off[i] =< Len(S)
             /\ off[i] = reader.pos + Size(f) + Cap(content[i])
             /\ RecordIn(S, reader.pos, f, content[i])
             /\ GoodPacket(f, content[i]) /\ Cap(content[i]) \in Nat
    <3>1. SaveState(f, S, off) /\ reader.st \in {"open", "eof"} /\ ~reader.erred
        BY ONLY <1>g, <1>3
    <3> QED BY ONLY <2>1, <3>1, PacketAhead
  <2> QED BY ONLY <1>12, <2>2
<1>19. left # 0 /\ left >= size =>
           /\ Here(1) = p.frac
           /\ l.cap = Cap(p) /\ l.len = p.len
  <2> SUFFICES ASSUME left # 0, left >= size
               PROVE  Here(1) = p.frac /\ l.cap = Cap(p) /\ l.len = p.len
      OBVIOUS
  <2>1. Len(disk) - reader.pos >= Size(f) BY <1>12
  <2>2. Here(1) = p.frac /\ Here(3) = First3(f, p) /\ Here(5) = First5(f, p)
      BY ONLY <1>g, <1>3, <1>11, <1>18, left # 0, <2>1, FieldsHere
  <2>4. GoodPacket(f, p) BY <1>18
  <2>5. /\ Lengths(First3(f, p), First5(f, p)).cap = Cap(p)
        /\ Lengths(First3(f, p), First5(f, p)).len = p.len
      BY ONLY <1>6, <1>7, <2>4, LengthsHere
  <2> QED BY ONLY <2>2, <2>5
<1>20. left # 0 /\ Short => Cap(p) =< MaximumSnaplen BY <1>18 DEF GoodPacket, Cap
<1>t. \E T : got \in Seq(T) BY ONLY <1>6 DEF HasRead
<1> HIDE DEF at, left, size, l, bufsize, given, m, k, p
(* The end of what is on the disk.                                         *)
<1>21. CASE left = 0 /\ reader' = [reader EXCEPT !.st = "eof"] /\ got' = got
  <2>1. /\ reader'.st = "eof" /\ reader'.pos = reader.pos /\ reader'.synced = reader.synced
        /\ reader'.whole = reader.whole /\ reader'.swapped = reader.swapped
        /\ reader'.magic = reader.magic /\ reader'.lengths = reader.lengths
        /\ reader'.linktype = reader.linktype /\ reader'.erred = reader.erred
        /\ reader'.snapshot = reader.snapshot /\ DOMAIN reader' = DOMAIN Closed
      BY ONLY <1>21, <1>a DEF Closed
  <2>2. Len(disk) = off[m] BY ONLY <1>9, <1>11, <1>21 DEF left, at
  <2>3. m >= reader.synced
    <3>1. reader.synced >= 0 => /\ reader.synced \in 0..Len(content)
                                /\ off[reader.synced] =< Len(disk)
        BY ONLY <1>8, <1>14 DEF Holds
    <3> QED BY ONLY <1>8, <1>11, <1>14, <2>2, <3>1
  <2>4. reader.whole => m = Len(content) BY ONLY <1>8, <1>9, <1>11, <1>14, <2>2
  <2>5. Understands(f)' BY ONLY <1>6, <2>1 DEF Understands
  <2>6. Stands(off)' BY ONLY <1>6, <1>10, <1>21, <2>1 DEF Stands
  <2>7. Told(off)' /\ HasRead' BY ONLY <1>15, <1>16, <1>21, <2>1
  <2>8. Len(got') = m BY <1>21 DEF m
  <2>9. Reading(f, S, off)'
      BY ONLY <1>10, <1>21, <1>g, <1>t, <2>1, <2>3, <2>4, <2>5, <2>6, <2>7, <2>8 DEF Reading
  <2> QED BY ONLY <1>1, <1>5, <1>10, <2>9 DEF SaveInv
(* What ends in the middle of a packet, and a packet that is too long.     *)
<1>22. ASSUME left # 0, Short => Len(disk) < off[k], Fails PROVE SaveInv'
  <2>1. /\ reader'.st = "error" /\ reader'.synced = reader.synced /\ reader'.erred
        /\ reader'.whole = reader.whole /\ DOMAIN reader' = DOMAIN Closed
      BY ONLY <1>22, <1>a DEF Closed
  <2>2. Short => m >= reader.synced
    <3>1. reader.synced >= 0 => /\ reader.synced \in 0..Len(content)
                                /\ off[reader.synced] =< Len(disk)
        BY ONLY <1>8, <1>14 DEF Holds
    <3>2. k \in 0..Len(content) /\ k = m + 1 BY ONLY <1>8, <1>11, <1>18, <1>22 DEF k
    <3> QED BY ONLY <1>8, <1>9, <1>11, <1>14, <1>22, <3>1, <3>2
  <2>3. Short => ~reader.whole BY ONLY <1>8, <1>9, <1>14, <1>18, <1>22
  <2>4. got' = got BY ONLY <1>22
  <2>5. Short => Len(got) >= reader.synced /\ ~reader.whole BY ONLY <2>2, <2>3 DEF m
  <2> QED BY ONLY <1>e, <2>1, <2>4, <2>5
<1>23. CASE left \in 1..(size - 1) /\ Fails
  <2>0. left # 0 /\ left < size BY ONLY <1>13, <1>23
  <2>1. left # 0 /\ Len(disk) < off[k]
    <3> DEFINE n == Cap(p)
    <3>1. off[k] = at + size + n /\ n \in Nat BY ONLY <1>18, <2>0
    <3>2. Len(disk) \in Nat /\ at \in Nat /\ size \in Nat BY ONLY <1>9, <1>11, <1>13
    <3>3. Len(disk) - at < size BY ONLY <2>0 DEF left
    <3> HIDE DEF n
    <3>4. Len(disk) < off[k] BY ONLY <3>1, <3>2, <3>3
    <3> QED BY ONLY <2>0, <3>4
  <2> QED BY ONLY <1>22, <1>23, <2>1
<1>24. CASE left >= size /\ TooLong /\ Fails
  <2>1. left # 0 BY ONLY <1>13, <1>24
  <2>2. ~Short
    <3>1. l.cap = Cap(p) /\ Cap(p) \in Nat BY ONLY <1>18, <1>19, <1>24, <2>1
    <3>2. Short => Cap(p) =< MaximumSnaplen BY ONLY <1>20, <2>1
    <3>3. MaximumSnaplen \in Nat BY SavefileAssumption
    <3> QED BY ONLY <1>24, <3>1, <3>2, <3>3
  <2> QED BY ONLY <1>22, <1>24, <2>1, <2>2
<1>25. CASE left >= size /\ l.cap > left - size /\ Fails
  <2>1. left # 0 BY ONLY <1>13, <1>25
  <2>2. l.cap = Cap(p) /\ Cap(p) \in Nat BY ONLY <1>18, <1>19, <1>25, <2>1
  <2> DEFINE n == Cap(p)
  <2>3. n \in Nat /\ n > left - size /\ off[k] = at + size + n /\ off[k] \in Nat
      BY ONLY <1>18, <1>25, <2>1, <2>2
  <2> HIDE DEF n
  <2>4. Len(disk) \in Nat /\ at \in Nat /\ size \in Nat BY ONLY <1>9, <1>11, <1>13
  <2>5. n > (Len(disk) - at) - size BY ONLY <2>3 DEF left
  <2>6. off[k] = at + size + n /\ n \in Nat BY ONLY <2>3
  <2>7. Len(disk) < off[k] BY ONLY <2>4, <2>5, <2>6
  <2> QED BY ONLY <1>22, <1>25, <2>1, <2>7
(* A packet.                                                               *)
<1>26. CASE /\ left >= size /\ l.cap =< left - size
            /\ reader' = [reader EXCEPT !.st = "open", !.pos = at + size + l.cap]
            /\ got' = Append(got, [frac |-> Scaled(Here(1)), len |-> l.len, data |-> given])
  <2>1. left # 0 BY ONLY <1>13, <1>26
  <2>2. /\ k \in 1..Len(content) /\ off[k] =< Len(S) /\ off[k] \in Nat
        /\ off[k] = at + size + Cap(p) /\ RecordIn(S, at, f, p) /\ GoodPacket(f, p)
        /\ Cap(p) \in Nat /\ Here(1) = p.frac /\ l.cap = Cap(p) /\ l.len = p.len
      BY ONLY <1>18, <1>19, <1>26, <2>1
  <2> DEFINE n == Cap(p)
  <2>3. n \in Nat /\ n =< left - size /\ off[k] = at + size + n BY ONLY <1>26, <2>2
  <2>4. l.cap = n BY ONLY <2>2
  <2> HIDE DEF n
  <2>5. off[k] =< Len(disk)
    <3>1. Len(disk) \in Nat /\ at \in Nat /\ size \in Nat BY ONLY <1>9, <1>11, <1>13
    <3>2. n =< (Len(disk) - at) - size BY ONLY <2>3 DEF left
    <3>3. off[k] = at + size + n /\ n \in Nat BY ONLY <2>3
    <3> QED BY ONLY <3>1, <3>2, <3>3
  <2>6. data = Bytes(f, p)
    <3>1. p \in Packet BY ONLY <2>2 DEF GoodPacket
    <3>2. data = SubSeq(disk, at + Size(f) + 1, at + Size(f) + Cap(p))
        BY ONLY <1>12, <2>2
    <3>3. at + Size(f) + Cap(p) =< Len(disk) BY ONLY <1>12, <2>2, <2>5
    <3> QED BY ONLY <1>4, <1>11, <2>2, <3>1, <3>2, <3>3, BytesHere
  <2> DEFINE e == [frac |-> Scaled(Here(1)), len |-> l.len, data |-> given]
  <2>7. e = View(p)
    <3> DEFINE d == Cut(data, bufsize)
    <3>1. p \in Packet BY ONLY <2>2 DEF GoodPacket
    <3>2. d = Cut(Bytes(f, p), BufferSize(reader.snapshot)) BY ONLY <2>6 DEF bufsize
    <3>3. given = IF reader.swapped THEN swap_pseudo_headers(reader.linktype, d) ELSE d
        BY DEF given
    <3> HIDE DEF d
    <3>4. View(p) = [frac |-> Scaled(p.frac), len |-> p.len,
                     data |-> IF reader.swapped THEN swap_pseudo_headers(reader.linktype, d)
                                                ELSE d]
        BY ONLY <1>6, <1>7, <3>1, <3>2, BufferHere
    <3> QED BY ONLY <2>2, <3>3, <3>4
  <2>8. got' = Append(got, e) BY ONLY <1>26
  <2>9. /\ reader'.st = "open" /\ reader'.pos = at + size + l.cap
        /\ reader'.synced = reader.synced
        /\ reader'.whole = reader.whole /\ reader'.swapped = reader.swapped
        /\ reader'.magic = reader.magic /\ reader'.lengths = reader.lengths
        /\ reader'.linktype = reader.linktype /\ reader'.erred = reader.erred
        /\ reader'.snapshot = reader.snapshot /\ DOMAIN reader' = DOMAIN Closed
      BY ONLY <1>26, <1>a DEF Closed
  <2> HIDE DEF e
  <2>10. PICK T : got \in Seq(T) BY ONLY <1>6 DEF HasRead
  <2>11. /\ got' \in Seq(T \cup {e}) /\ Len(got') = m + 1
         /\ \A i \in 1..m : got'[i] = got[i]
         /\ got'[m + 1] = e
    <3>1. got \in Seq(T \cup {e})
      <4>1. T \subseteq T \cup {e} OBVIOUS
      <4> QED BY ONLY <2>10, <4>1, SeqMonotonic
    <3>2. e \in T \cup {e} OBVIOUS
    <3> QED BY ONLY <2>8, <3>1, <3>2, AppendProperties DEF m
  <2>12. HasRead'
    <3>1. DOMAIN got' = 1..Len(got') BY ONLY <2>11
    <3>2. m \in Nat /\ k = m + 1 /\ k =< Len(content) BY ONLY <1>8, <1>11, <2>2 DEF k
    <3>3. \A i \in 1..m : got[i] = View(content[i]) BY ONLY <1>6 DEF HasRead, m
    <3>4. \A i \in 1..k : got'[i] = View(content[i])
      <4>1. got'[k] = View(content[k]) BY ONLY <2>7, <2>11, <3>2 DEF p
      <4> QED BY ONLY <2>11, <3>2, <3>3, <4>1
    <3>5. \A i : View(content[i])' = View(content[i]) BY ONLY <1>10 DEF View
    <3>6. \A i \in 1..Len(got') : got'[i] = View(content[i])'
        BY ONLY <2>11, <3>2, <3>4, <3>5
    <3> QED BY ONLY <1>10, <2>11, <3>1, <3>2, <3>6 DEF HasRead
  <2>13. Told(off)' BY ONLY <1>15, <2>9
  <2>14. Understands(f)' BY ONLY <1>6, <2>9 DEF Understands
  <2>15. Stands(off)'
    <3>1. reader'.pos = off[k] BY ONLY <2>3, <2>4, <2>9
    <3>2. Len(got') = k BY ONLY <2>11 DEF k
    <3> QED BY ONLY <1>10, <2>5, <3>1, <3>2 DEF Stands
  <2>16. Reading(f, S, off)'
    <3>1. \E U : got' \in Seq(U) BY ONLY <2>11
    <3>2. ~reader'.erred BY ONLY <1>g, <2>9
    <3> QED BY ONLY <2>9, <2>12, <2>13, <2>14, <2>15, <3>1, <3>2 DEF Reading
  <2> QED BY ONLY <1>1, <1>5, <1>10, <2>16 DEF SaveInv
<1> QED BY ONLY <1>2, <1>21, <1>23, <1>24, <1>25, <1>26

-----------------------------------------------------------------------------
(* pcap-ng: what the properties of the other files ask of it.              *)

(* Reading a pcap-ng file says nothing of a pcap file.                     *)
LEMMA NgStep ==
    ASSUME NgOnly, ng # <<>>, UNCHANGED Written, DOMAIN reader' = DOMAIN Closed,
           reader'.synced = -1, reader'.whole = FALSE,
           reader'.st \in {"open", "eof", "error", "refused"},
           got' = got \/ \E e : got' = Append(got, e)
    PROVE  SaveInv'
<1>1. /\ dumper' = dumper /\ file' = file /\ synced' = synced /\ ng' = ng BY DEF Written
<1>2. \E T : got' \in Seq(T)
  <2>1. PICK T : got \in Seq(T) BY DEF NgOnly
  <2>2. CASE got' = got BY <2>1, <2>2
  <2>3. CASE \E e : got' = Append(got, e)
    <3>1. PICK e : got' = Append(got, e) BY <2>3
    <3>2. T \subseteq T \cup {e} /\ e \in T \cup {e} OBVIOUS
    <3>3. got \in Seq(T \cup {e}) BY ONLY <2>1, <3>2, SeqMonotonic
    <3>4. Append(got, e) \in Seq(T \cup {e}) BY ONLY <3>2, <3>3, AppendProperties
    <3> QED BY ONLY <3>1, <3>4
  <2> QED BY <2>2, <2>3
<1>3. NgOnly' BY <1>1, <1>2 DEF NgOnly
<1> QED BY <1>1, <1>3 DEF SaveInv

(* So no action on a pcap-ng file disturbs the invariant.                  *)
LEMMA NgSteps ==
    ASSUME SaveInv, NgOpenOffline \/ NgEnd \/ NgOther \/ NgInterface \/ NgSection \/ NgPacket
    PROVE  SaveInv'
<1>1. ng # <<>> /\ UNCHANGED Written
    BY DEF NgOpenOffline, NgEnd, NgOther, NgInterface, NgSection, NgPacket, NgReads
<1>2. NgOnly BY <1>1 DEF SaveInv
<1>3. /\ DOMAIN reader = DOMAIN Closed /\ reader.synced = -1 /\ reader.whole = FALSE
      /\ file.whole = FALSE /\ synced = -1
      /\ reader.st \in {"none", "open", "eof", "error", "refused"}
    BY <1>2 DEF NgOnly
<1>4. CASE NgOpenOffline
  <2>1. reader' = pcap_ng_check_header /\ got' = got BY <1>4 DEF NgOpenOffline
  <2>2. PICK s, i, n, t, x :
           \/ pcap_ng_check_header = [Opened EXCEPT !.st = "refused"]
           \/ pcap_ng_check_header = [Opened EXCEPT !.st = s, !.pos = i, !.snapshot = n,
                                                    !.linktype = t, !.ifaces = x] /\ s = "open"
      BY DEF pcap_ng_check_header
  <2> DEFINE Passes(r) == /\ DOMAIN r = DOMAIN Closed /\ r.synced = -1 /\ r.whole = FALSE
                         /\ r.st \in {"open", "refused"}
  <2>3. CASE reader' = [Opened EXCEPT !.st = "refused"]
    <3>1. Passes([Opened EXCEPT !.st = "refused"]) BY ONLY <1>3 DEF Opened, Closed
    <3> QED BY ONLY <1>1, <1>2, <2>1, <2>3, <3>1, NgStep
  <2>4. CASE reader' = [Opened EXCEPT !.st = "open", !.pos = i, !.snapshot = n,
                                     !.linktype = t, !.ifaces = x]
    <3>1. Passes([Opened EXCEPT !.st = "open", !.pos = i, !.snapshot = n,
                              !.linktype = t, !.ifaces = x])
        BY ONLY <1>3 DEF Opened, Closed
    <3> QED BY ONLY <1>1, <1>2, <2>1, <2>4, <3>1, NgStep
  <2> QED BY ONLY <2>1, <2>2, <2>3, <2>4
<1>5. ASSUME NEW s \in {"eof", "error"}, reader' = [reader EXCEPT !.st = s], got' = got
      PROVE  SaveInv'
  <2>1. /\ DOMAIN reader' = DOMAIN Closed /\ reader'.synced = -1 /\ reader'.whole = FALSE
        /\ reader'.st \in {"eof", "error"}
      BY ONLY <1>3, <1>5 DEF Closed
  <2> QED BY ONLY <1>1, <1>2, <1>5, <2>1, NgStep
<1>6. ASSUME NEW i, NEW x, reader.st = "open",
             \/ reader' = [reader EXCEPT !.pos = i, !.ifaces = x]
             \/ reader' = [reader EXCEPT !.pos = i],
             got' = got \/ \E e : got' = Append(got, e)
      PROVE  SaveInv'
  <2>1. /\ DOMAIN reader' = DOMAIN Closed /\ reader'.synced = -1 /\ reader'.whole = FALSE
        /\ reader'.st = "open"
      BY ONLY <1>3, <1>6 DEF Closed
  <2> QED BY ONLY <1>1, <1>2, <1>6, <2>1, NgStep
<1>7. ASSUME NEW t, NgReads(t), NgFails PROVE SaveInv'
    BY <1>5, <1>7 DEF NgFails
<1>8. ASSUME NEW t, NgReads(t), NEW x, NgGoesOn(x) PROVE SaveInv'
    BY <1>6, <1>8 DEF NgGoesOn, NgReads
<1>9. CASE NgEnd BY <1>5, <1>9 DEF NgEnd
<1>10. CASE NgOther BY <1>8, <1>10 DEF NgOther
<1>11. CASE NgInterface
  <2>1. NgReads({"IDB"}) /\ (NgFails \/ \E x : NgGoesOn(x)) BY <1>11 DEF NgInterface
  <2> QED BY ONLY <1>7, <1>8, <2>1
<1>12. CASE NgSection
  <2>1. NgReads({"SHB"}) /\ (NgFails \/ \E x : NgGoesOn(x)) BY <1>12 DEF NgSection
  <2> QED BY ONLY <1>7, <1>8, <2>1
<1>13. CASE NgPacket
  <2>1. /\ NgReads(PacketTypes)
        /\ \/ NgFails
           \/ reader' = [reader EXCEPT !.pos = NgAt] /\ \E e : got' = Append(got, e)
      BY <1>13 DEF NgPacket
  <2>2. reader.st = "open" BY <2>1 DEF NgReads
  <2> QED BY ONLY <1>6, <1>7, <2>1, <2>2
<1> QED BY <1>4, <1>9, <1>10, <1>11, <1>12, <1>13

-----------------------------------------------------------------------------
(* Writing.                                                                *)

(* A reader goes on with what a file has become.                           *)
LEMMA ReaderStays ==
    ASSUME NEW f, NEW S, NEW off, Reading(f, S, off), UNCHANGED <<reader, got>>,
           content \in Seq(Packet), content' \in Seq(Packet), Len(content) =< Len(content'),
           \A k \in 1..Len(content) : content'[k] = content[k],
           NEW R, NEW new, \A k \in 0..Len(content) : new[k] = off[k] /\ off[k] \in Nat,
           Len(disk) \in Nat, Len(disk') \in Nat, Len(disk) =< Len(disk'),
           file'.magic = file.magic, file'.snaplen = file.snaplen,
           file'.linktype = file.linktype,
           reader.whole => file'.whole /\ Len(content') = Len(content)
    PROVE  Reading(f, R, new)'
<1>1. Len(content) \in Nat /\ Len(content') \in Nat OBVIOUS
<1>2. reader' = reader /\ got' = got OBVIOUS
<1>3. Told(new)'
  <2>1. reader.synced \in Int /\ Holds(off, reader.synced) BY DEF Reading, Told
  <2> DEFINE n == reader.synced
  <2>2. n >= 0 => n \in 0..Len(content) /\ off[n] =< Len(disk) BY ONLY <1>1, <2>1 DEF Holds
  <2>3. n >= 0 => n =< Len(content') /\ new[n] =< Len(disk')
    <3>1. n >= 0 => new[n] = off[n] /\ off[n] \in Nat BY ONLY <2>2,
             \A k \in 0..Len(content) : new[k] = off[k] /\ off[k] \in Nat
    <3> HIDE DEF n
    <3> QED BY ONLY <1>1, <2>2, <3>1, Len(content) =< Len(content'), Len(disk) \in Nat,
                    Len(disk') \in Nat, Len(disk) =< Len(disk')
  <2> HIDE DEF n
  <2>4. n = reader'.synced /\ (reader'.whole => file'.whole) BY <1>2 DEF n
  <2>5. n \in Int BY <2>1 DEF n
  <2> QED BY ONLY <2>3, <2>4, <2>5 DEF Told, Holds
<1>4. ASSUME ~reader.erred PROVE HasRead'
  <2>1. HasRead BY <1>4 DEF Reading
  <2>3. \A p : View(p)' = View(p) BY DEF View
  <2>4. ASSUME NEW k \in 1..Len(got) PROVE got[k] = View(content[k])'
    <3>1. k \in 1..Len(content) BY ONLY <1>1, <2>1, k \in 1..Len(got) DEF HasRead
    <3>2. content'[k] = content[k] BY <3>1
    <3>3. View(content[k])' = View(content[k]) BY ONLY <2>3, <3>2,
             file'.magic = file.magic, file'.snaplen = file.snaplen,
             file'.linktype = file.linktype DEF View
    <3> QED BY ONLY <2>1, <3>3, k \in 1..Len(got) DEF HasRead
  <2>5. Len(got) \in Nat /\ Len(got) =< Len(content')
      BY ONLY <1>1, <2>1, Len(content) =< Len(content') DEF HasRead
  <2> QED BY ONLY <1>2, <2>1, <2>4, <2>5 DEF HasRead
<1>5. reader.st \in {"open", "eof"} /\ ~reader.erred => Understands(f)' /\ Stands(new)'
  <2> SUFFICES ASSUME reader.st \in {"open", "eof"}, ~reader.erred
               PROVE  Understands(f)' /\ Stands(new)'
      OBVIOUS
  <2>1. Understands(f) /\ Stands(off) /\ HasRead BY DEF Reading
  <2>2. Understands(f)' BY ONLY <1>2, <2>1 DEF Understands
  <2>3. Len(got) \in 0..Len(content) BY ONLY <1>1, <2>1 DEF HasRead
  <2>4. new[Len(got)] = off[Len(got)] /\ off[Len(got)] \in Nat BY <2>3
  <2>5. reader.pos = off[Len(got)] /\ reader.pos =< Len(disk) BY <2>1 DEF Stands
  <2>6. reader.pos =< Len(disk') BY <2>4, <2>5
  <2> QED BY ONLY <1>2, <2>2, <2>4, <2>5, <2>6 DEF Stands
<1>6. reader.whole => Len(content') = Len(content) OBVIOUS
<1>7. Reading(f, S, off) OBVIOUS
<1> QED BY ONLY <1>2, <1>3, <1>4, <1>5, <1>6, <1>7 DEF Reading

(* What goes to the disk stands behind what is there.                      *)
LEMMA DiskGrows ==
    ASSUME NEW T \in Seq(Byte), Begins(T), DiskFits, NEW b \in Seq(Byte), ToDisk(b),
           ~failed => /\ Len(disk) + Len(b) =< Len(T)
                      /\ \A i \in 1..Len(b) : b[i] = T[Len(disk) + i]
    PROVE  /\ Begins(T)' /\ DiskFits'
           /\ Len(disk) \in Nat /\ Len(disk') \in Nat /\ Len(disk) =< Len(disk')
           /\ failed => failed'
           /\ ~failed' => Len(disk') = Len(disk) + Len(b)
           /\ failed' = (failed \/ Len(b) > DiskSize - Len(disk))
<1> DEFINE room == DiskSize - Len(disk)
           n == IF Len(b) < room THEN Len(b) ELSE room
           s == SubSeq(b, 1, n)
<1>1. disk' = disk \o s /\ failed' = (failed \/ Len(b) > room) BY DEF ToDisk
<1>2. /\ disk \in Seq(Byte) /\ Len(disk) \in Nat /\ Len(T) \in Nat /\ Len(disk) =< Len(T)
      /\ \A i \in 1..Len(disk) : disk[i] = T[i]
    BY DEF Begins
<1>3. /\ DiskSize \in Nat /\ Len(disk) =< DiskSize /\ failed \in BOOLEAN
      /\ (failed => Len(disk) = DiskSize)
    BY Positive DEF DiskFits
<1>4. Len(b) \in Nat OBVIOUS
<1>5. n \in 0..Len(b) /\ n \in 0..room /\ (n = Len(b) \/ n = room) /\ room \in Nat
    BY ONLY <1>2, <1>3, <1>4
<1>6. s \in Seq(Byte) /\ Len(s) = n /\ \A i \in 1..n : s[i] = b[i]
    BY ONLY <1>4, <1>5, b \in Seq(Byte)
<1>7. ~failed => /\ Len(disk) + Len(b) =< Len(T)
                 /\ \A i \in 1..Len(b) : b[i] = T[Len(disk) + i]
    OBVIOUS
<1>8. failed => n = 0 BY ONLY <1>2, <1>3, <1>5
<1>9. failed' => n = room BY ONLY <1>1, <1>2, <1>3, <1>4, <1>5, <1>8
<1>10. ~failed' => n = Len(b)
  <2>1. ~failed' => ~(Len(b) > room) BY ONLY <1>1
  <2>2. ~(Len(b) > room) => n = Len(b) BY ONLY <1>4, <1>5
  <2> QED BY ONLY <2>1, <2>2
<1> HIDE DEF n, s
<1>11. /\ disk' \in Seq(Byte) /\ Len(disk') = Len(disk) + n
       /\ \A i \in 1..Len(disk) : disk'[i] = disk[i]
       /\ \A i \in 1..n : disk'[Len(disk) + i] = s[i]
  <2>1. /\ disk' \in Seq(Byte) /\ Len(disk') = Len(disk) + Len(s)
        /\ \A i \in 1..Len(disk) : disk'[i] = disk[i]
        /\ \A i \in 1..Len(s) : disk'[Len(disk) + i] = s[i]
    <3> DEFINE u == disk \o s
    <3>1. disk' = u BY <1>1
    <3>2. /\ u \in Seq(Byte) /\ Len(u) = Len(disk) + Len(s)
          /\ \A i \in 1..Len(disk) : u[i] = disk[i]
          /\ \A i \in 1..Len(s) : u[Len(disk) + i] = s[i]
        BY ONLY <1>2, <1>6, Catenated
    <3> QED BY ONLY <3>1, <3>2
  <2> QED BY ONLY <1>6, <2>1
<1>12. Len(disk') =< Len(T) BY ONLY <1>2, <1>4, <1>5, <1>7, <1>8, <1>11
<1>13. \A i \in 1..Len(disk') : disk'[i] = T[i]
  <2>1. ASSUME NEW i \in 1..Len(disk') PROVE disk'[i] = T[i]
    <3>1. CASE i \in 1..Len(disk) BY ONLY <1>2, <1>11, <3>1
    <3>2. CASE i \notin 1..Len(disk)
      <4> DEFINE j == i - Len(disk)
      <4>1. j \in 1..n /\ Len(disk) + j = i BY ONLY <1>2, <1>5, <1>11, <3>2, i \in 1..Len(disk')
      <4>2. j \in 1..Len(b) /\ ~failed BY ONLY <1>4, <1>5, <1>8, <4>1
      <4> HIDE DEF j
      <4>3. b[j] = T[Len(disk) + j] BY ONLY <1>7, <4>2
      <4>4. disk'[Len(disk) + j] = b[j] BY ONLY <1>6, <1>11, <4>1
      <4> QED BY ONLY <4>1, <4>3, <4>4
    <3> QED BY <3>1, <3>2
  <2> QED BY <2>1
<1>14. Begins(T)' BY ONLY <1>11, <1>12, <1>13 DEF Begins
<1>15. DiskFits'
  <2>1. failed' \in BOOLEAN BY ONLY <1>1, <1>3
  <2>2. Len(disk') =< DiskSize /\ (failed' => Len(disk') = DiskSize)
      BY ONLY <1>2, <1>3, <1>5, <1>9, <1>11
  <2> QED BY ONLY <2>1, <2>2 DEF DiskFits
<1>16. Len(disk') \in Nat /\ Len(disk) =< Len(disk') BY ONLY <1>2, <1>5, <1>11
<1>17. failed => failed' BY ONLY <1>1, <1>3
<1> QED BY ONLY <1>1, <1>2, <1>10, <1>11, <1>14, <1>15, <1>16, <1>17

(* fwrite: what the disk and the buffer hold, one after the other, grows by*)
(* the bytes, or a write has failed.                                       *)
LEMMA BufferGrows ==
    ASSUME NEW T \in Seq(Byte), Begins(T), DiskFits, NEW e \in Nat, Follows(T, e),
           NEW bytes \in Seq(Byte), e + Len(bytes) =< Len(T),
           \A i \in 1..Len(bytes) : bytes[i] = T[e + i], fwrite(bytes)
    PROVE  /\ Begins(T)' /\ DiskFits' /\ Follows(T, e + Len(bytes))'
           /\ Len(disk) \in Nat /\ Len(disk') \in Nat /\ Len(disk) =< Len(disk')
           /\ failed => failed'
<1> DEFINE all == buf \o bytes
           n == (Len(all) \div BufSize) * BufSize
           b == SubSeq(all, 1, n)
<1>1. ToDisk(b) /\ buf' = SubSeq(all, n + 1, Len(all)) BY DEF fwrite
<1>2. buf \in Seq(Byte) BY DEF Follows
<1>3. ~failed => /\ Len(disk) + Len(buf) = e
                 /\ \A i \in 1..Len(buf) : buf[i] = T[Len(disk) + i]
    BY DEF Follows
<1>4. Len(disk) \in Nat /\ Len(T) \in Nat /\ Len(bytes) \in Nat /\ Len(buf) \in Nat
    BY <1>2 DEF Begins
<1>5. /\ all \in Seq(Byte) /\ Len(all) = Len(buf) + Len(bytes)
      /\ \A i \in 1..Len(buf) : all[i] = buf[i]
      /\ \A i \in 1..Len(bytes) : all[Len(buf) + i] = bytes[i]
    BY ONLY <1>2, bytes \in Seq(Byte), Catenated
<1> HIDE DEF all
<1>n. Len(all) = Len(buf) + Len(bytes) BY ONLY <1>5
<1>6. Len(all) \in Nat BY ONLY <1>4, <1>n
<1>7. n \in 0..Len(all) BY ONLY <1>6, Positive, Multiple
<1> HIDE DEF n
<1>8. b \in Seq(Byte) /\ Len(b) = n /\ \A i \in 1..n : b[i] = all[i] BY ONLY <1>5, <1>6, <1>7
<1>9. /\ buf' \in Seq(Byte) /\ Len(buf') = Len(all) - n
      /\ \A i \in 1..Len(buf') : buf'[i] = all[n + i]
  <2>1. buf' = SubSeq(all, n + 1, Len(all)) BY ONLY <1>1
  <2>2. all \in Seq(Byte) BY ONLY <1>5
  <2> QED BY ONLY <1>7, <2>1, <2>2, Rest
<1> HIDE DEF b
<1>10. ASSUME ~failed
       PROVE  /\ Len(disk) + Len(all) = e + Len(bytes)
              /\ \A i \in 1..Len(all) : all[i] = T[Len(disk) + i]
  <2>1. Len(disk) + Len(buf) = e /\ \A i \in 1..Len(buf) : buf[i] = T[Len(disk) + i]
      BY <1>3, <1>10
  <2>n. Len(disk) + Len(buf) = e BY ONLY <2>1
  <2>2. Len(disk) + Len(all) = e + Len(bytes) BY ONLY <1>4, <1>n, <2>n, e \in Nat
  <2>3. ASSUME NEW i \in 1..Len(all) PROVE all[i] = T[Len(disk) + i]
    <3>1. CASE i \in 1..Len(buf) BY ONLY <1>5, <2>1, <3>1
    <3>2. CASE i \notin 1..Len(buf)
      <4> DEFINE j == i - Len(buf)
      <4>1. j \in 1..Len(bytes) /\ Len(buf) + j = i /\ e + j = Len(disk) + i
          BY ONLY <1>4, <1>n, <2>n, <3>2, i \in 1..Len(all), e \in Nat
      <4> HIDE DEF j
      <4>2. all[Len(buf) + j] = bytes[j] BY ONLY <1>5, <4>1
      <4>3. bytes[j] = T[e + j] BY <4>1
      <4> QED BY ONLY <4>1, <4>2, <4>3
    <3> QED BY <3>1, <3>2
  <2> QED BY <2>2, <2>3
<1>11. ~failed => /\ Len(disk) + Len(b) =< Len(T)
                  /\ \A i \in 1..Len(b) : b[i] = T[Len(disk) + i]
  <2> SUFFICES ASSUME ~failed
               PROVE  /\ Len(disk) + Len(b) =< Len(T)
                      /\ \A i \in 1..Len(b) : b[i] = T[Len(disk) + i]
      OBVIOUS
  <2>1. /\ Len(disk) + Len(all) = e + Len(bytes)
        /\ \A i \in 1..Len(all) : all[i] = T[Len(disk) + i]
      BY <1>10
  <2>2. Len(disk) + Len(b) =< Len(T)
      BY ONLY <1>4, <1>6, <1>7, <1>8, <2>1, e \in Nat, e + Len(bytes) =< Len(T)
  <2>3. ASSUME NEW i \in 1..Len(b) PROVE b[i] = T[Len(disk) + i]
    <3>1. i \in 1..n /\ i \in 1..Len(all) BY ONLY <1>6, <1>7, <1>8, i \in 1..Len(b)
    <3> QED BY ONLY <1>8, <2>1, <3>1
  <2> QED BY <2>2, <2>3
<1>12. /\ Begins(T)' /\ DiskFits'
       /\ Len(disk) \in Nat /\ Len(disk') \in Nat /\ Len(disk) =< Len(disk')
       /\ failed => failed'
       /\ ~failed' => Len(disk') = Len(disk) + Len(b)
    BY ONLY <1>1, <1>8, <1>11, T \in Seq(Byte), Begins(T), DiskFits, DiskGrows
<1>13. ASSUME ~failed'
       PROVE  /\ Len(disk') + Len(buf') = e + Len(bytes)
              /\ \A i \in 1..Len(buf') : buf'[i] = T[Len(disk') + i]
  <2>1. ~failed /\ Len(disk') = Len(disk) + n BY <1>8, <1>12, <1>13
  <2>2. /\ Len(disk) + Len(all) = e + Len(bytes)
        /\ \A i \in 1..Len(all) : all[i] = T[Len(disk) + i]
      BY <1>10, <2>1
  <2>3. Len(disk') + Len(buf') = e + Len(bytes)
    <3>1. Len(disk) + Len(all) = e + Len(bytes) BY ONLY <2>2
    <3>2. Len(disk') = Len(disk) + n /\ Len(buf') = Len(all) - n BY ONLY <1>9, <2>1
    <3> QED BY ONLY <1>4, <1>6, <1>7, <3>1, <3>2, e \in Nat
  <2>4. ASSUME NEW i \in 1..Len(buf') PROVE buf'[i] = T[Len(disk') + i]
    <3>1. n + i \in 1..Len(all) BY ONLY <1>6, <1>7, <1>9, i \in 1..Len(buf')
    <3>2. all[n + i] = T[Len(disk) + (n + i)] BY ONLY <2>2, <3>1
    <3>3. Len(disk) + (n + i) = Len(disk') + i
        BY ONLY <1>4, <1>6, <1>7, <1>9, <2>1, i \in 1..Len(buf')
    <3> QED BY ONLY <1>9, <3>2, <3>3, i \in 1..Len(buf')
  <2> QED BY <2>3, <2>4
<1>14. Follows(T, e + Len(bytes))' BY ONLY <1>9, <1>13 DEF Follows
<1> QED BY ONLY <1>12, <1>14

(* A step of the dumper that puts nothing new into the file.               *)
LEMMA SameFile ==
    ASSUME NEW f, NEW S, NEW off, SaveState(f, S, off), UNCHANGED <<ng, content, reader, got>>,
           ng = <<>>, file'.magic = file.magic, file'.snaplen = file.snaplen,
           file'.linktype = file.linktype, DOMAIN file' = DOMAIN file, f = DumpFormat,
           Begins(S)', Writing(f, S)', Said(S, off)', Len(disk) =< Len(disk'),
           file.whole => file'.whole
    PROVE  SaveInv'
<1>1. Stored(f, S, off) /\ Begins(S) /\ Reading(f, S, off) BY DEF SaveState
<1>2. content' = content /\ ng' = <<>> OBVIOUS
<1>3. GoodFormat(f) /\ content \in Seq(Packet) /\ Placed(f, content, S, off) BY <1>1 DEF Stored
<1>4. Stored(f, S, off)'
  <2>1. ~(f.major < PCAP_VERSION_MAJOR) BY DumpGood
  <2> QED BY <1>1, <1>2, <2>1 DEF Stored
<1>5. /\ \A k \in 0..Len(content) : off[k] = off[k] /\ off[k] \in Nat
      /\ Len(content) \in Nat
  <2>1. Placed(f, content, S, off) /\ content \in Seq(Packet) BY <1>3
  <2>2. off \in [0..Len(content) -> Nat] BY <2>1 DEF Placed
  <2> QED BY ONLY <2>1, <2>2
<1>6. Len(disk) \in Nat /\ Len(disk') \in Nat BY <1>1 DEF Begins
<1>7. reader.whole => file.whole BY ONLY <1>1 DEF Reading, Told
<1>8. Len(content) =< Len(content') BY ONLY <1>2, <1>5
<1>9. Reading(f, S, off)'
  <2>1. /\ content' \in Seq(Packet) /\ \A k \in 1..Len(content) : content'[k] = content[k]
        /\ (reader.whole => file'.whole /\ Len(content') = Len(content))
      BY <1>2, <1>3, <1>7
  <2>2. UNCHANGED <<reader, got>> OBVIOUS
  <2> QED BY ONLY <1>1, <1>3, <1>5, <1>6, <1>8, <2>1, <2>2, Len(disk) =< Len(disk'),
              file'.magic = file.magic, file'.snaplen = file.snaplen,
              file'.linktype = file.linktype, ReaderStays
<1> QED BY ONLY <1>2, <1>4, <1>9, Begins(S)', Writing(f, S)', Said(S, off)' DEF SaveInv

(* What was said before holds of a file that has only grown.               *)
LEMMA SaidStays ==
    ASSUME NEW f, NEW S, NEW off, SaveState(f, S, off), dumper \in {"open", "half"},
           dumper' \in {"open", "half", "gone"}, content' = content, file' = file,
           synced' = synced, failed => failed', Len(disk) =< Len(disk'), Len(disk') \in Nat
    PROVE  Said(S, off)'
<1>1. Stored(f, S, off) /\ Begins(S) /\ Said(S, off) BY DEF SaveState
<1>2. Placed(f, content, S, off) /\ content \in Seq(Packet) BY <1>1 DEF Stored
<1>3. \A k \in 0..Len(content) : off[k] \in Nat
  <2>1. off \in [0..Len(content) -> Nat] BY <1>2 DEF Placed
  <2> QED BY ONLY <2>1
<1>4. Len(disk) \in Nat /\ Len(content) \in Nat BY <1>1, <1>2 DEF Begins
<1>5. ~file.whole BY ONLY <1>1, dumper \in {"open", "half"} DEF Said
<1>6. synced \in Int /\ synced >= -1 /\ (~failed => Holds(off, synced)) BY ONLY <1>1 DEF Said
<1> DEFINE n == synced
<1>7. ~failed => (n >= 0 => n \in 0..Len(content) /\ off[n] =< Len(disk))
    BY ONLY <1>4, <1>6 DEF Holds
<1>8. n \in 0..Len(content) /\ off[n] =< Len(disk) => off[n] =< Len(disk')
  <2> HIDE DEF n
  <2> QED BY ONLY <1>3, <1>4, Len(disk) =< Len(disk'), Len(disk') \in Nat
<1>9. n = synced' /\ n \in Int /\ n >= -1 BY <1>6
<1> HIDE DEF n
<1>10. ~failed' => (n >= 0 => n =< Len(content) /\ off[n] =< Len(disk'))
  <2>1. ~failed' => ~failed OBVIOUS
  <2>2. n \in 0..Len(content) => n =< Len(content) BY ONLY <1>4
  <2> QED BY ONLY <1>7, <1>8, <2>1, <2>2
<1> QED BY ONLY <1>5, <1>9, <1>10, content' = content, file' = file,
           dumper' \in {"open", "half", "gone"} DEF Said, Holds

(* The bytes of the packet whose header was written stand behind it.       *)
LEMMA DataBehind ==
    ASSUME NEW f, NEW S, NEW off, SaveState(f, S, off), content # <<>>,
           NEW e, e = Len(S) - Cap(Last(content))
    PROVE  /\ e \in Nat /\ Last(content) \in Packet /\ e + Cap(Last(content)) = Len(S)
           /\ \A i \in 1..Cap(Last(content)) : Bytes(f, Last(content))[i] = S[e + i]
<1> DEFINE n == Len(content)
           p == content[n]
<1>1. Stored(f, S, off) BY DEF SaveState
<1>2. Placed(f, content, S, off) /\ content \in Seq(Packet) BY <1>1 DEF Stored
<1>3. n \in Nat /\ n # 0 BY <1>2
<1>4. n \in 1..n /\ n - 1 \in 0..n BY ONLY <1>3
<1>5. p \in Packet BY ONLY <1>2, <1>3
<1>6. Cap(p) \in Nat BY <1>5, Caps
<1>7. /\ off[n] = off[n - 1] + Size(f) + Cap(p) /\ RecordIn(S, off[n - 1], f, p)
      /\ off[n] = Len(S) /\ off \in [0..n -> Nat]
    BY ONLY <1>2, <1>4 DEF Placed
<1>8. Last(content) = p BY DEF Last
<1> HIDE DEF n, p
<1> DEFINE a == off[n - 1]
           d == Cap(p)
<1>9. a \in Nat /\ Len(S) = a + Size(f) + d /\ d \in Nat BY ONLY <1>4, <1>6, <1>7
<1>10. \A i \in 1..d : S[a + Size(f) + i] = Bytes(f, p)[i] BY ONLY <1>7 DEF RecordIn
<1>11. e = Len(S) - d BY <1>8
<1> HIDE DEF a, d
<1>12. e = a + Size(f) /\ e \in Nat /\ e + d = Len(S) BY ONLY <1>9, <1>11, Sizes
<1> QED BY ONLY <1>5, <1>8, <1>10, <1>12 DEF d

(* pcap_dump, its second fwrite, keeps the invariant: the packet is then   *)
(* all written or in the buffer.                                           *)
LEMMA DataStep == SaveInv /\ PcapDumpData => SaveInv'
<1> SUFFICES ASSUME SaveInv, PcapDumpData PROVE SaveInv'
    OBVIOUS
<1>1. /\ dumper = "half" /\ dumper' = "open" /\ fwrite(Last(content).data)
      /\ UNCHANGED <<ng, content, file, synced, reader, got>>
    BY DEF PcapDumpData
<1>2. ng = <<>> BY <1>1 DEF SaveInv, NgOnly
<1>3. PICK f, S, off : SaveState(f, S, off) BY <1>2 DEF SaveInv, SaveState
<1>4. Stored(f, S, off) /\ Begins(S) /\ Writing(f, S) BY <1>3 DEF SaveState
<1>5. S \in Seq(Byte) BY <1>4 DEF Stored, Placed
<1> PICK p, e : p = Last(content) /\ e = Len(S) - Cap(p)
    OBVIOUS
<1>6. f = DumpFormat /\ DiskFits /\ Follows(S, e) /\ content # <<>>
    BY <1>1, <1>4 DEF Writing, Given
<1>7. e \in Nat /\ p \in Packet /\ e + Cap(p) = Len(S)
      /\ \A i \in 1..Cap(p) : Bytes(f, p)[i] = S[e + i]
  <2>1. p = Last(content) /\ e = Len(S) - Cap(Last(content)) OBVIOUS
  <2> QED BY ONLY <1>3, <1>6, <2>1, DataBehind
<1>8. Bytes(f, p) \in Seq(Byte) /\ Len(Bytes(f, p)) = Cap(p) /\ fwrite(Bytes(f, p))
  <2>0. f.order = Host BY <1>6, DumpGood
  <2>1. fwrite(Bytes(f, p)) BY <1>1, <2>0 DEF Bytes
  <2> QED BY ONLY <1>7, <2>1, Caps
<1>9. Len(S) \in Nat /\ e + Len(Bytes(f, p)) = Len(S)
      /\ \A i \in 1..Len(Bytes(f, p)) : Bytes(f, p)[i] = S[e + i]
  <2>1. Len(S) \in Nat BY <1>5
  <2>2. Len(Bytes(f, p)) = Cap(p) /\ e + Cap(p) = Len(S) BY ONLY <1>7, <1>8
  <2> QED BY ONLY <1>7, <2>1, <2>2
<1>10. /\ Begins(S)' /\ DiskFits' /\ Follows(S, Len(S))'
       /\ Len(disk) \in Nat /\ Len(disk') \in Nat /\ Len(disk) =< Len(disk')
       /\ failed => failed'
  <2>1. e + Len(Bytes(f, p)) =< Len(S) BY ONLY <1>9
  <2>2. Begins(S) /\ DiskFits /\ Follows(S, e) BY <1>4, <1>6
  <2>3. Bytes(f, p) \in Seq(Byte) /\ fwrite(Bytes(f, p)) /\ e \in Nat BY <1>7, <1>8
  <2>4. \A i \in 1..Len(Bytes(f, p)) : Bytes(f, p)[i] = S[e + i] BY <1>9
  <2>5. /\ Begins(S)' /\ DiskFits' /\ Follows(S, e + Len(Bytes(f, p)))'
        /\ Len(disk) \in Nat /\ Len(disk') \in Nat /\ Len(disk) =< Len(disk')
        /\ failed => failed'
      BY ONLY <1>5, <2>1, <2>2, <2>3, <2>4, BufferGrows
  <2> QED BY ONLY <1>9, <2>5
<1>11. Writing(f, S)'
  <2>1. Given(S)' = Len(S) BY <1>1 DEF Given
  <2> QED BY ONLY <1>1, <1>6, <1>10, <2>1 DEF Writing
<1>12. content' = content /\ file' = file /\ synced' = synced BY <1>1
<1>13. Said(S, off)' BY ONLY <1>1, <1>3, <1>10, <1>12, SaidStays
<1> QED BY ONLY <1>1, <1>2, <1>3, <1>6, <1>10, <1>11, <1>13, SameFile

(* A crash keeps the invariant: the disk holds a beginning of what was     *)
(* written.                                                                *)
LEMMA CrashStep == SaveInv /\ Crash => SaveInv'
<1> SUFFICES ASSUME SaveInv, Crash PROVE SaveInv'
    OBVIOUS
<1>1. /\ dumper \in {"open", "half"} /\ dumper' = "gone"
      /\ UNCHANGED <<disk, failed, ng, content, file, synced, reader, got>>
    BY DEF Crash
<1>2. ng = <<>> BY <1>1 DEF SaveInv, NgOnly
<1>3. PICK f, S, off : SaveState(f, S, off) BY <1>2 DEF SaveInv, SaveState
<1>4. Begins(S) BY <1>3 DEF SaveState
<1>a. f = DumpFormat BY <1>1, <1>3 DEF SaveState, Writing
<1>5. Begins(S)' /\ Writing(f, S)' BY <1>1, <1>4 DEF Begins, Writing
<1>6. Len(disk) \in Nat /\ Len(disk') \in Nat /\ Len(disk) =< Len(disk')
      /\ (failed => failed') /\ content' = content /\ file' = file /\ synced' = synced
    BY <1>1, <1>4 DEF Begins
<1>7. Said(S, off)'
  <2>1. dumper' \in {"open", "half", "gone"} BY <1>1
  <2> QED BY ONLY <1>1, <1>3, <1>6, <2>1, SaidStays
<1> QED BY ONLY <1>a, <1>1, <1>2, <1>3, <1>5, <1>6, <1>7, SameFile

(* What is in the buffer goes to the disk.                                 *)
LEMMA BufferOut ==
    ASSUME NEW f, NEW S, NEW off, SaveState(f, S, off), dumper = "open", ToDisk(buf)
    PROVE  /\ Begins(S)' /\ DiskFits'
           /\ Len(disk) \in Nat /\ Len(disk') \in Nat /\ Len(disk) =< Len(disk')
           /\ failed => failed'
           /\ ~failed' => Len(disk') = Len(S)
           /\ f = DumpFormat
<1>1. Stored(f, S, off) /\ Begins(S) /\ Writing(f, S) BY DEF SaveState
<1>2. S \in Seq(Byte) BY <1>1 DEF Stored, Placed
<1>3. f = DumpFormat /\ DiskFits /\ Follows(S, Len(S)) BY <1>1 DEF Writing, Given
<1>4. buf \in Seq(Byte) /\ (~failed => /\ Len(disk) + Len(buf) = Len(S)
                                       /\ \A i \in 1..Len(buf) : buf[i] = S[Len(disk) + i])
    BY <1>3 DEF Follows
<1>5. Len(S) \in Nat BY <1>2
<1>6. ~failed => /\ Len(disk) + Len(buf) =< Len(S)
                 /\ \A i \in 1..Len(buf) : buf[i] = S[Len(disk) + i]
  <2>1. Len(disk) + Len(buf) = Len(S) => Len(disk) + Len(buf) =< Len(S) BY ONLY <1>5
  <2> QED BY ONLY <1>4, <2>1
<1>7. /\ Begins(S)' /\ DiskFits'
      /\ Len(disk) \in Nat /\ Len(disk') \in Nat /\ Len(disk) =< Len(disk')
      /\ failed => failed'
      /\ ~failed' => Len(disk') = Len(disk) + Len(buf)
    BY ONLY <1>1, <1>2, <1>3, <1>4, <1>6, ToDisk(buf), DiskGrows
<1>8. ~failed' => Len(disk') = Len(S) BY ONLY <1>4, <1>7
<1> QED BY ONLY <1>3, <1>7, <1>8

(* PcapDumpFlush keeps the invariant: when it succeeds the disk holds every*)
(* packet given to PcapDump.                                               *)
LEMMA FlushStep == SaveInv /\ PcapDumpFlush => SaveInv'
<1> SUFFICES ASSUME SaveInv, PcapDumpFlush PROVE SaveInv'
    OBVIOUS
<1>1. /\ dumper = "open" /\ dumper' = dumper /\ ToDisk(buf) /\ buf' = <<>>
      /\ synced' = IF Len(buf) > DiskSize - Len(disk) THEN synced ELSE Len(content)
      /\ UNCHANGED <<ng, content, file, reader, got>>
    BY DEF PcapDumpFlush
<1>2. ng = <<>> BY <1>1 DEF SaveInv, NgOnly
<1>3. PICK f, S, off : SaveState(f, S, off) BY <1>2 DEF SaveInv, SaveState
<1>4. Stored(f, S, off) /\ Said(S, off) BY <1>3 DEF SaveState
<1>5. /\ Begins(S)' /\ DiskFits'
      /\ Len(disk) \in Nat /\ Len(disk') \in Nat /\ Len(disk) =< Len(disk')
      /\ failed => failed'
      /\ ~failed' => Len(disk') = Len(S)
      /\ f = DumpFormat
    BY ONLY <1>1, <1>3, BufferOut
<1>6. Writing(f, S)'
  <2>1. Given(S)' = Len(S) BY <1>1 DEF Given
  <2>2. buf' \in Seq(Byte) /\ Len(buf') = 0 BY <1>1
  <2>3. \A i \in 1..Len(buf') : FALSE BY ONLY <2>2
  <2>4. ~failed' => Len(disk') + Len(buf') = Len(S) BY ONLY <1>5, <2>2
  <2>5. Follows(S, Len(S))' BY ONLY <2>2, <2>3, <2>4 DEF Follows
  <2> QED BY ONLY <1>1, <1>5, <2>1, <2>5 DEF Writing
<1>7. Said(S, off)'
  <2>1. Placed(f, content, S, off) /\ content \in Seq(Packet) BY <1>4 DEF Stored
  <2>2. off[Len(content)] = Len(S) /\ Len(S) \in Nat BY <2>1, PlacedIsSeq
  <2>3. Len(content) \in Nat BY <2>1
  <2>4. failed' = (failed \/ Len(buf) > DiskSize - Len(disk)) BY <1>1 DEF ToDisk
  <2>5. ~failed' => synced' = Len(content) BY ONLY <1>1, <2>4
  <2>6. synced \in Int /\ synced >= -1 /\ ~file.whole BY ONLY <1>1, <1>4 DEF Said
  <2>7. synced' \in Int /\ synced' >= -1 BY ONLY <1>1, <2>3, <2>6
  <2>8. ~failed' => Len(content) =< Len(content) /\ off[Len(content)] =< Len(disk')
      BY ONLY <1>5, <2>2, <2>3
  <2>9. content' = content /\ file' = file BY <1>1
  <2> QED BY ONLY <1>1, <2>5, <2>6, <2>7, <2>8, <2>9 DEF Said, Holds
<1> QED BY ONLY <1>1, <1>2, <1>3, <1>5, <1>6, <1>7, SameFile

(* PcapDumpClose keeps the invariant: the file is whole when no write      *)
(* failed.                                                                 *)
LEMMA DumpCloseStep == SaveInv /\ PcapDumpClose => SaveInv'
<1> SUFFICES ASSUME SaveInv, PcapDumpClose PROVE SaveInv'
    OBVIOUS
<1>1. /\ dumper = "open" /\ dumper' = "closed" /\ ToDisk(buf)
      /\ file' = [file EXCEPT !.whole = ~failed']
      /\ UNCHANGED <<ng, content, synced, reader, got>>
    BY DEF PcapDumpClose
<1>2. ng = <<>> BY <1>1 DEF SaveInv, NgOnly
<1>3. PICK f, S, off : SaveState(f, S, off) BY <1>2 DEF SaveInv, SaveState
<1>4. Stored(f, S, off) /\ Said(S, off) BY <1>3 DEF SaveState
<1>5. /\ Begins(S)' /\ DiskFits'
      /\ Len(disk) \in Nat /\ Len(disk') \in Nat /\ Len(disk) =< Len(disk')
      /\ failed => failed'
      /\ ~failed' => Len(disk') = Len(S)
      /\ f = DumpFormat
    BY ONLY <1>1, <1>3, BufferOut
<1>6. Writing(f, S)' BY ONLY <1>1 DEF Writing
<1>7. DOMAIN file = DOMAIN NoFile /\ ~file.whole BY ONLY <1>1, <1>4 DEF Stored, Said
<1>8. /\ file'.magic = file.magic /\ file'.snaplen = file.snaplen
      /\ file'.linktype = file.linktype /\ DOMAIN file' = DOMAIN file
      /\ file'.whole = ~failed'
    BY ONLY <1>1, <1>7 DEF NoFile
<1>9. Said(S, off)'
  <2>1. Placed(f, content, S, off) /\ content \in Seq(Packet) BY <1>4 DEF Stored
  <2>2. \A k \in 0..Len(content) : off[k] \in Nat
    <3>1. off \in [0..Len(content) -> Nat] BY <2>1 DEF Placed
    <3> QED BY ONLY <3>1
  <2>3. Len(content) \in Nat BY <2>1
  <2>4. synced \in Int /\ synced >= -1 /\ (~failed => Holds(off, synced)) BY ONLY <1>4 DEF Said
  <2>5. content' = content /\ synced' = synced BY <1>1
  <2>6. Holds(off, synced) => Holds(off, synced)'
    <3> DEFINE n == synced
    <3>1. n \in Int /\ n = synced' /\ n >= -1 BY <2>4, <2>5
    <3>2. Holds(off, synced) => (n >= 0 => n \in 0..Len(content) /\ off[n] =< Len(disk))
        BY ONLY <2>3, <2>4 DEF Holds
    <3> HIDE DEF n
    <3>3. n \in 0..Len(content) /\ off[n] =< Len(disk) => off[n] =< Len(disk')
        BY ONLY <1>5, <2>2
    <3>4. n \in 0..Len(content) => n =< Len(content) BY ONLY <2>3
    <3> QED BY ONLY <2>5, <3>1, <3>2, <3>3, <3>4 DEF Holds
  <2> QED BY ONLY <1>1, <1>5, <1>8, <2>4, <2>5, <2>6 DEF Said
<1>10. ~file.whole BY <1>7
<1> QED BY ONLY <1>1, <1>2, <1>3, <1>5, <1>6, <1>8, <1>9, <1>10, SameFile

(* A file of which one packet more is to come begins as it did.            *)
LEMMA BeginsWith ==
    ASSUME NEW S \in Seq(Byte), NEW h \in Seq(Byte), NEW d \in Seq(Byte),
           Begins(S), NEW e \in Nat, e =< Len(S), Follows(S, e)
    PROVE  /\ S \o (h \o d) \in Seq(Byte)
           /\ Len(S \o (h \o d)) = Len(S) + (Len(h) + Len(d))
           /\ Begins(S \o (h \o d)) /\ Follows(S \o (h \o d), e)
           /\ \A i \in 1..Len(h) : h[i] = (S \o (h \o d))[Len(S) + i]
<1> DEFINE b == h \o d
           R == S \o b
<1>1. /\ b \in Seq(Byte) /\ Len(b) = Len(h) + Len(d) /\ Len(h) \in Nat /\ Len(d) \in Nat
      /\ \A i \in 1..Len(h) : b[i] = h[i]
    BY ONLY h \in Seq(Byte), d \in Seq(Byte), Catenated
<1>2. R = S \o b OBVIOUS
<1> HIDE DEF b, R
<1>3. /\ R \in Seq(Byte) /\ Len(R) = Len(S) + Len(b) /\ Len(S) \in Nat
      /\ \A i \in 1..Len(S) : R[i] = S[i]
      /\ \A i \in 1..Len(b) : R[Len(S) + i] = b[i]
  <2> DEFINE u == S \o b
  <2>1. b \in Seq(Byte) BY ONLY <1>1
  <2>2. /\ u \in Seq(Byte) /\ Len(u) = Len(S) + Len(b) /\ Len(S) \in Nat
        /\ \A i \in 1..Len(S) : u[i] = S[i]
        /\ \A i \in 1..Len(b) : u[Len(S) + i] = b[i]
      BY ONLY <2>1, S \in Seq(Byte), Catenated
  <2>3. R = u BY ONLY <1>2
  <2> HIDE DEF u
  <2> QED BY ONLY <2>2, <2>3
<1>4. Begins(R)
  <2>1. /\ disk \in Seq(Byte) /\ Len(disk) =< Len(S) /\ Len(disk) \in Nat
        /\ \A i \in 1..Len(disk) : disk[i] = S[i]
      BY DEF Begins
  <2>2. Len(b) \in Nat BY ONLY <1>1
  <2>3. Len(disk) =< Len(R)
    <3>1. Len(R) = Len(S) + Len(b) /\ Len(S) \in Nat BY ONLY <1>3
    <3>2. Len(disk) =< Len(S) /\ Len(disk) \in Nat BY ONLY <2>1
    <3> QED BY ONLY <2>2, <3>1, <3>2
  <2>4. \A i \in 1..Len(disk) : disk[i] = R[i] BY ONLY <1>3, <2>1
  <2> QED BY ONLY <2>1, <2>3, <2>4 DEF Begins
<1>5. Follows(R, e)
  <2>1. buf \in Seq(Byte) /\ Len(disk) \in Nat BY DEF Follows, Begins
  <2>2. ASSUME ~failed
        PROVE  /\ Len(disk) + Len(buf) = e
               /\ \A i \in 1..Len(buf) : buf[i] = R[Len(disk) + i]
    <3>1. /\ Len(disk) + Len(buf) = e
          /\ \A i \in 1..Len(buf) : buf[i] = S[Len(disk) + i]
        BY <2>2 DEF Follows
    <3>2. ASSUME NEW i \in 1..Len(buf) PROVE buf[i] = R[Len(disk) + i]
      <4>1. Len(disk) + Len(buf) = e BY ONLY <3>1
      <4>2. Len(S) \in Nat /\ Len(buf) \in Nat BY <1>3, <2>1
      <4>3. Len(disk) + i \in 1..Len(S)
          BY ONLY <2>1, <4>1, <4>2, e \in Nat, e =< Len(S), i \in 1..Len(buf)
      <4> QED BY ONLY <1>3, <3>1, <4>3, i \in 1..Len(buf)
    <3> QED BY <3>1, <3>2
  <2> QED BY ONLY <2>1, <2>2 DEF Follows
<1>6. ASSUME NEW i \in 1..Len(h) PROVE h[i] = R[Len(S) + i]
  <2>1. i \in 1..Len(b)
    <3>1. Len(b) = Len(h) + Len(d) /\ Len(h) \in Nat /\ Len(d) \in Nat BY ONLY <1>1
    <3> QED BY ONLY <3>1, i \in 1..Len(h)
  <2> QED BY ONLY <1>1, <1>3, <2>1, i \in 1..Len(h)
<1>7. Len(R) = Len(S) + (Len(h) + Len(d)) BY ONLY <1>1, <1>3
<1>8. R = S \o (h \o d) BY DEF b, R
<1> QED BY ONLY <1>3, <1>4, <1>5, <1>6, <1>7, <1>8

(* A packet of the Java program is one the format of the dumper can hold.  *)
LEMMA DumpedGood ==
    ASSUME NEW p \in Packets, NEW f, f = DumpFormat
    PROVE  /\ GoodPacket(f, p) /\ RecordHead(f, p) = RecordHeader(Host, p.frac, Len(p.data), p.len)
           /\ GoodFormat(f) /\ Size(f) = 6
<1>1. p \in Packet /\ Len(p.data) \in FieldValue BY PacketsAssumption
<1>2. /\ GoodFormat(f) /\ f.order = Host /\ f.magic = TCPDUMP /\ f.minor = 4
      /\ f.reversed = FALSE
    BY DumpGood
<1>3. TCPDUMP # KUZNETZOV BY Positive DEF TCPDUMP, KUZNETZOV
<1>4. Short => Len(p.data) =< MaximumSnaplen BY DEF Short
<1>5. f.minor # 3 BY ONLY <1>2
<1>6. GoodPacket(f, p) BY ONLY <1>1, <1>4, <1>5 DEF GoodPacket
<1>7. Pad(f) = <<>> BY ONLY <1>2, <1>3 DEF Pad
<1>8. HeaderOf(f, p) = RecordHeader(Host, p.frac, Len(p.data), p.len)
    BY ONLY <1>2 DEF HeaderOf
<1> DEFINE x == p.frac
           y == Len(p.data)
           z == p.len
           w == RecordHeader(Host, x, y, z)
<1>9. x \in FieldValue /\ y \in FieldValue /\ z \in FieldValue BY <1>1 DEF Packet
<1>10. HeaderOf(f, p) = w BY <1>8
<1> HIDE DEF x, y, z
<1>11. w \in Seq(Byte) BY ONLY <1>9, RecordWords
<1> HIDE DEF w
<1>12. w \o <<>> = w BY ONLY <1>11, ConcatEmptySeq
<1>13. RecordHead(f, p) = w BY ONLY <1>7, <1>10, <1>12 DEF RecordHead
<1>14. Size(f) = 6 BY ONLY <1>2, <1>3 DEF Size, HeaderSize
<1> QED BY ONLY <1>2, <1>6, <1>13, <1>14 DEF w, x, y, z

(* pcap_dump, its first fwrite, keeps the invariant: the file is to hold   *)
(* one more packet, which ends after its bytes.                            *)
LEMMA DumpStep == SaveInv /\ PcapDump => SaveInv'
<1> SUFFICES ASSUME SaveInv, PcapDump PROVE SaveInv'
    OBVIOUS
<1>1. PICK p \in Packets :
         /\ dumper = "open" /\ dumper' = "half" /\ content' = Append(content, p)
         /\ fwrite(RecordHeader(Host, p.frac, Len(p.data), p.len))
         /\ UNCHANGED <<ng, file, synced, reader, got>>
    BY DEF PcapDump
<1>2. ng = <<>> BY <1>1 DEF SaveInv, NgOnly
<1>3. PICK f, S, off : SaveState(f, S, off) BY <1>2 DEF SaveInv, SaveState
<1>4. Stored(f, S, off) /\ Begins(S) /\ Writing(f, S) /\ Said(S, off) /\ Reading(f, S, off)
    BY <1>3 DEF SaveState
<1>5. f = DumpFormat /\ DiskFits /\ Follows(S, Len(S))
    BY <1>1, <1>4 DEF Writing, Given
<1>p. PICK h, R, new :
         h = RecordHead(f, p) /\ R = With(f, S, p) /\ new = Further(content, off, Len(R))
    OBVIOUS
<1>6. GoodPacket(f, p) /\ fwrite(h) /\ GoodFormat(f) /\ Size(f) = 6
  <2>1. /\ GoodPacket(f, p) /\ h = RecordHeader(Host, p.frac, Len(p.data), p.len)
        /\ GoodFormat(f) /\ Size(f) = 6
      BY ONLY <1>5, <1>p, DumpedGood, p \in Packets
  <2> QED BY ONLY <1>1, <2>1
<1>7. Placed(f, content, S, off) /\ content \in Seq(Packet) /\ S \in Seq(Byte)
    BY <1>4 DEF Stored, Placed
<1>8. p \in Packet BY ONLY <1>6 DEF GoodPacket
<1>9. Bytes(f, p) \in Seq(Byte) /\ Len(Bytes(f, p)) = Cap(p) /\ Cap(p) \in Nat BY ONLY <1>8, Caps
<1>10. h \in Seq(Byte) /\ Len(h) = Size(f) BY ONLY <1>6, <1>p, RecordWritten
<1>11. R = S \o (h \o Bytes(f, p)) BY <1>p DEF With
<1>12. Placed(f, Append(content, p), R, new)
  <2>1. Placed(f, Append(content, p), With(f, S, p), Further(content, off, Len(With(f, S, p))))
      BY ONLY <1>6, <1>7, PlacedOneMore
  <2> QED BY ONLY <1>p, <2>1
<1>13. \A k \in 0..(Len(content) + 1) : new[k] = IF k =< Len(content) THEN off[k] ELSE Len(R)
    BY <1>p DEF Further
<1>14. Len(S) \in Nat /\ Len(content) \in Nat BY ONLY <1>7
<1>15. /\ R \in Seq(Byte) /\ Len(R) = Len(S) + (Len(h) + Len(Bytes(f, p)))
       /\ Begins(R) /\ Follows(R, Len(S))
       /\ \A i \in 1..Len(h) : h[i] = R[Len(S) + i]
  <2> DEFINE d == Bytes(f, p)
             e == Len(S)
  <2>1. e \in Nat /\ e =< Len(S) BY ONLY <1>14
  <2>2. Begins(S) BY ONLY <1>4
  <2>3. Follows(S, e) BY ONLY <1>5
  <2>4. S \in Seq(Byte) BY ONLY <1>7
  <2>5. d \in Seq(Byte) BY ONLY <1>9
  <2>6. h \in Seq(Byte) BY ONLY <1>10
  <2>7. R = S \o (h \o d) BY ONLY <1>11
  <2> HIDE DEF d, e
  <2>8. /\ S \o (h \o d) \in Seq(Byte)
        /\ Len(S \o (h \o d)) = Len(S) + (Len(h) + Len(d))
        /\ Begins(S \o (h \o d)) /\ Follows(S \o (h \o d), e)
        /\ \A i \in 1..Len(h) : h[i] = (S \o (h \o d))[Len(S) + i]
      BY ONLY <2>1, <2>2, <2>3, <2>4, <2>5, <2>6, BeginsWith
  <2> QED BY ONLY <2>7, <2>8 DEF d, e
<1>16. /\ Begins(R)' /\ DiskFits' /\ Follows(R, Len(S) + Len(h))'
       /\ Len(disk) \in Nat /\ Len(disk') \in Nat /\ Len(disk) =< Len(disk')
       /\ failed => failed'
  <2>1. Len(S) + Len(h) =< Len(R)
    <3>1. Len(R) = Len(S) + (Len(h) + Len(Bytes(f, p))) BY ONLY <1>15
    <3>2. Len(h) \in Nat /\ Len(Bytes(f, p)) \in Nat BY ONLY <1>9, <1>10
    <3> QED BY ONLY <1>14, <3>1, <3>2
  <2> QED BY ONLY <1>5, <1>6, <1>10, <1>14, <1>15, <2>1, BufferGrows
<1>17. /\ content' \in Seq(Packet) /\ Len(content') = Len(content) + 1
       /\ content'[Len(content) + 1] = p
       /\ \A k \in 1..Len(content) : content'[k] = content[k]
    BY ONLY <1>1, <1>7, <1>8, AppendProperties
<1>18. content' = Append(content, p) /\ file' = file /\ synced' = synced /\ ng' = <<>>
       /\ dumper' = "half"
    BY <1>1, <1>2
<1>19. Stored(f, R, new)'
  <2>1. ASSUME NEW k \in 1..Len(content') PROVE GoodPacket(f, content'[k])
    <3>1. CASE k = Len(content) + 1 BY ONLY <1>6, <1>17, <3>1
    <3>2. CASE k # Len(content) + 1
      <4>1. Len(content') = Len(content) + 1 BY ONLY <1>17
      <4>2. k \in 1..Len(content) BY ONLY <1>14, <3>2, <4>1, k \in 1..Len(content')
      <4>3. GoodPacket(f, content[k]) BY ONLY <1>4, <4>2 DEF Stored
      <4> QED BY ONLY <1>17, <4>2, <4>3
    <3> QED BY <3>1, <3>2
  <2>2. Placed(f, content', R, new) BY ONLY <1>12, <1>18
  <2>3. /\ file.magic = f.magic /\ file.snaplen = f.snaplen /\ file.linktype = f.linktype
        /\ DOMAIN file = DOMAIN NoFile
      BY ONLY <1>4 DEF Stored
  <2>4. /\ file'.magic = f.magic /\ file'.snaplen = f.snaplen /\ file'.linktype = f.linktype
        /\ DOMAIN file' = DOMAIN NoFile
      BY ONLY <1>18, <2>3
  <2>5. content' \in Seq(Packet) /\ GoodFormat(f) BY ONLY <1>6, <1>17
  <2>6. ~(f.major < PCAP_VERSION_MAJOR) BY ONLY <1>5, DumpGood
  <2> QED BY ONLY <2>1, <2>2, <2>4, <2>5, <2>6 DEF Stored
<1>20. Writing(f, R)'
  <2>1. Last(content') = p /\ content' # <<>>
    <3>1. Last(content') = p BY ONLY <1>14, <1>17 DEF Last
    <3>2. Len(content') # 0 BY ONLY <1>14, <1>17
    <3> QED BY ONLY <3>1, <3>2
  <2>2. Given(R)' = Len(R) - Cap(p) BY ONLY <1>18, <2>1 DEF Given
  <2>3. Len(R) - Cap(p) = Len(S) + Len(h)
    <3>1. Len(R) = Len(S) + (Len(h) + Len(Bytes(f, p))) BY ONLY <1>15
    <3>2. Len(h) \in Nat /\ Len(Bytes(f, p)) = Cap(p) /\ Cap(p) \in Nat BY ONLY <1>9, <1>10
    <3> QED BY ONLY <1>14, <3>1, <3>2
  <2>4. Follows(R, Given(R))'
    <3>1. Follows(R, Len(R) - Cap(p))' BY ONLY <1>16, <2>3
    <3> QED BY ONLY <2>2, <3>1 DEF Follows
  <2> QED BY ONLY <1>5, <1>16, <1>18, <2>1, <2>4 DEF Writing
<1>21. \A k \in 0..Len(content) : new[k] = off[k] /\ off[k] \in Nat
  <2>1. off \in [0..Len(content) -> Nat] BY ONLY <1>7 DEF Placed
  <2>2. ASSUME NEW k \in 0..Len(content) PROVE new[k] = off[k] /\ off[k] \in Nat
    <3>1. k \in 0..(Len(content) + 1) /\ k =< Len(content)
        BY ONLY <1>14, k \in 0..Len(content)
    <3> QED BY ONLY <1>13, <2>1, <3>1, k \in 0..Len(content)
  <2> QED BY <2>2
<1>22. ~file.whole /\ ~reader.whole
    BY ONLY <1>1, <1>4 DEF Said, Reading, Told
<1>23. Said(R, new)'
  <2>1. synced \in Int /\ synced >= -1 /\ (~failed => Holds(off, synced)) BY ONLY <1>4 DEF Said
  <2> DEFINE n == synced
  <2>2. ~failed => (n >= 0 => n \in 0..Len(content) /\ off[n] =< Len(disk))
      BY ONLY <1>14, <2>1 DEF Holds
  <2>3. n \in Int /\ n >= -1 /\ n = synced' BY <1>18, <2>1
  <2> HIDE DEF n
  <2>4. n \in 0..Len(content) /\ off[n] =< Len(disk) => n =< Len(content') /\ new[n] =< Len(disk')
    <3>1. n \in 0..Len(content) => new[n] = off[n] /\ off[n] \in Nat BY ONLY <1>21
    <3>2. n \in 0..Len(content) => n =< Len(content')
      <4>1. Len(content') = Len(content) + 1 BY ONLY <1>17
      <4> QED BY ONLY <1>14, <4>1
    <3> QED BY ONLY <1>16, <3>1, <3>2
  <2>5. ~failed' => ~failed BY ONLY <1>16
  <2>6. ~failed' => (n >= 0 => n =< Len(content') /\ new[n] =< Len(disk'))
      BY ONLY <2>2, <2>4, <2>5
  <2>7. ~failed' => (synced' >= 0 => synced' =< Len(content') /\ new[synced'] =< Len(disk'))
      BY ONLY <2>3, <2>6
  <2> QED BY ONLY <1>18, <1>22, <2>3, <2>7 DEF Said, Holds
<1>24. Reading(f, R, new)'
  <2>1. Len(content) =< Len(content')
    <3>1. Len(content') = Len(content) + 1 BY ONLY <1>17
    <3> QED BY ONLY <1>14, <3>1
  <2>2. UNCHANGED <<reader, got>> BY <1>1
  <2>3. /\ file'.magic = file.magic /\ file'.snaplen = file.snaplen
        /\ file'.linktype = file.linktype
      BY <1>18
  <2>4. reader.whole => file'.whole /\ Len(content') = Len(content) BY <1>22
  <2>5. \A k \in 1..Len(content) : content'[k] = content[k] BY ONLY <1>17
  <2>6. content \in Seq(Packet) /\ content' \in Seq(Packet) BY ONLY <1>7, <1>17
  <2>7. Reading(f, S, off) BY ONLY <1>4
  <2>8. Len(disk) \in Nat /\ Len(disk') \in Nat /\ Len(disk) =< Len(disk') BY ONLY <1>16
  <2> QED BY ONLY <1>21, <2>1, <2>2, <2>3, <2>4, <2>5, <2>6, <2>7, <2>8, ReaderStays
<1> QED BY ONLY <1>16, <1>18, <1>19, <1>20, <1>23, <1>24 DEF SaveInv

(* PcapDumpOpen keeps the invariant, whatever the file held before.        *)
LEMMA DumpOpenStep == SaveInv /\ PcapDumpOpen => SaveInv'
<1> SUFFICES ASSUME SaveInv, PcapDumpOpen PROVE SaveInv'
    OBVIOUS
<1>1. PICK f, S, n, fits :
         /\ f = DumpFormat
         /\ S = FileHeader(Host, TCPDUMP, PCAP_VERSION_MAJOR, PCAP_VERSION_MINOR,
                           DumpSnaplen, DumpLinktype)
         /\ n = (Len(S) \div BufSize) * BufSize
         /\ fits = IF n < DiskSize THEN n ELSE DiskSize
    OBVIOUS
<1>2. /\ reader.st = "none" /\ reader' = reader /\ got' = got
      /\ disk' = SubSeq(S, 1, fits) /\ failed' = (n > DiskSize)
      /\ buf' = SubSeq(S, n + 1, Len(S))
      /\ ng' = <<>> /\ content' = <<>> /\ synced' = -1
      /\ file' = [magic |-> TCPDUMP, snaplen |-> DumpSnaplen, linktype |-> DumpLinktype,
                  whole |-> FALSE]
      /\ dumper' = IF n > DiskSize THEN "gone" ELSE "open"
    BY <1>1 DEF PcapDumpOpen
<1>3. reader = Closed /\ got = <<>>
  <2>1. CASE ng = <<>>
    <3>1. PICK g, T, off : SaveState(g, T, off) BY <2>1 DEF SaveInv, SaveState
    <3> QED BY <1>2, <3>1 DEF SaveState, Reading
  <2>2. CASE ng # <<>> BY <1>2, <2>2 DEF SaveInv, NgOnly
  <2> QED BY <2>1, <2>2
<1>4. /\ GoodFormat(f) /\ f.order = Host /\ f.magic = TCPDUMP /\ f.major = 2 /\ f.minor = 4
      /\ f.snaplen = DumpSnaplen /\ f.linktype = DumpLinktype
      /\ ~(f.major < PCAP_VERSION_MAJOR)
    BY ONLY <1>1, DumpGood
<1>5. PICK off : Placed(f, <<>>, S, off)
  <2>1. S = HeaderBytes(f)
      BY ONLY <1>1, <1>4 DEF HeaderBytes, PCAP_VERSION_MAJOR, PCAP_VERSION_MINOR
  <2> QED BY ONLY <1>4, <2>1, HeaderPlaced
<1>6. S \in Seq(Byte) /\ Len(S) \in Nat BY ONLY <1>5, PlacedIsSeq
<1>7. n \in 0..Len(S) /\ DiskSize \in Nat BY ONLY <1>1, <1>6, Positive, Multiple
<1>8. /\ fits \in 0..n /\ fits =< DiskSize
      /\ ~(n > DiskSize) => fits = n
      /\ n > DiskSize => fits = DiskSize
    BY ONLY <1>1, <1>6, <1>7
<1>9. disk' \in Seq(Byte) /\ Len(disk') = fits /\ \A i \in 1..fits : disk'[i] = S[i]
    BY ONLY <1>2, <1>6, <1>7, <1>8
<1>10. /\ buf' \in Seq(Byte) /\ Len(buf') = Len(S) - n
       /\ \A i \in 1..Len(buf') : buf'[i] = S[n + i]
    BY ONLY <1>2, <1>6, <1>7
<1>11. Begins(S)'
  <2>1. Len(disk') =< Len(S) BY ONLY <1>6, <1>7, <1>8, <1>9
  <2> QED BY ONLY <1>9, <2>1 DEF Begins
<1>12. Stored(f, S, off)'
  <2>1. content' \in Seq(Packet) /\ \A k \in 1..Len(content') : FALSE BY ONLY <1>2
  <2>2. Placed(f, content', S, off) BY ONLY <1>2, <1>5
  <2>3. /\ file'.magic = f.magic /\ file'.snaplen = f.snaplen /\ file'.linktype = f.linktype
        /\ DOMAIN file' = DOMAIN NoFile
      BY ONLY <1>2, <1>4 DEF NoFile
  <2> QED BY ONLY <1>4, <2>1, <2>2, <2>3 DEF Stored
<1>13. Writing(f, S)'
  <2> SUFFICES ASSUME dumper' \in {"open", "half"} PROVE Writing(f, S)'
      BY DEF Writing
  <2>1. dumper' = "open" /\ failed' = FALSE /\ fits = n
    <3>1. ~(n > DiskSize) BY ONLY <1>2, dumper' \in {"open", "half"}
    <3>2. failed' = (n > DiskSize) BY ONLY <1>2
    <3>3. failed' = FALSE
      <4>1. (n > DiskSize) = FALSE BY ONLY <3>1
      <4> QED BY ONLY <3>2, <4>1
    <3>4. fits = n BY ONLY <1>8, <3>1
    <3>5. dumper' = "open" BY ONLY <1>2, <3>1
    <3> QED BY ONLY <3>3, <3>4, <3>5
  <2>2. DiskFits' BY ONLY <1>8, <1>9, <2>1 DEF DiskFits
  <2>3. Given(S)' = Len(S) BY ONLY <2>1 DEF Given
  <2>4. Len(disk') + Len(buf') = Len(S) BY ONLY <1>6, <1>7, <1>9, <1>10, <2>1
  <2>5. \A i \in 1..Len(buf') : buf'[i] = S[Len(disk') + i] BY ONLY <1>9, <1>10, <2>1
  <2>6. Follows(S, Len(S))' BY ONLY <1>10, <2>4, <2>5 DEF Follows
  <2> QED BY ONLY <1>1, <2>1, <2>2, <2>3, <2>6 DEF Writing
<1>14. Said(S, off)' BY ONLY <1>2 DEF Said, Holds
<1>15. Reading(f, S, off)'
  <2>1. reader' = Closed /\ got' = <<>> /\ Len(content') \in Nat BY ONLY <1>2, <1>3
  <2>2. /\ reader'.st = "none" /\ reader'.synced = -1 /\ reader'.whole = FALSE
        /\ DOMAIN reader' = DOMAIN Closed /\ reader'.erred = FALSE
      BY ONLY <2>1 DEF Closed
  <2>3. Told(off)' BY ONLY <2>2 DEF Told, Holds
  <2>4. HasRead' /\ \E T : got' \in Seq(T)
    <3>1. got' \in Seq({}) BY ONLY <2>1
    <3> QED BY ONLY <2>1, <3>1 DEF HasRead
  <2> QED BY ONLY <2>1, <2>2, <2>3, <2>4 DEF Reading
<1>16. ng' = <<>> BY <1>2
<1> QED BY ONLY <1>11, <1>12, <1>13, <1>14, <1>15, <1>16 DEF SaveInv

(* A step that changes nothing keeps the invariant.                        *)
LEMMA StutterSave == SaveInv /\ UNCHANGED vars => SaveInv'
<1> SUFFICES ASSUME SaveInv, UNCHANGED vars PROVE SaveInv'
    OBVIOUS
<1>1. UNCHANGED Written /\ reader' = reader /\ got' = got /\ ng' = ng /\ content' = content
      /\ disk' = disk /\ file' = file /\ dumper' = dumper /\ synced' = synced
    BY DEF vars, Written
<1>2. CASE ng = <<>>
  <2>1. PICK f, S, off : SaveState(f, S, off) BY <1>2 DEF SaveInv, SaveState
  <2>2. Stored(f, S, off)' /\ Begins(S)' /\ Writing(f, S)' /\ Said(S, off)'
      BY ONLY <1>1, <2>1, WriterStays
  <2>3. Reading(f, S, off) BY <2>1 DEF SaveState
  <2>4. Told(off)' BY ONLY <1>1, <2>3 DEF Reading, Told, Holds
  <2>5. ~reader.erred => HasRead' BY ONLY <1>1, <2>3 DEF Reading, HasRead, View
  <2>6. Stands(off)' = Stands(off) /\ Understands(f)' = Understands(f)
      BY ONLY <1>1 DEF Stands, Understands
  <2>7. Reading(f, S, off)' BY ONLY <1>1, <2>3, <2>4, <2>5, <2>6 DEF Reading
  <2> QED BY ONLY <1>1, <1>2, <2>2, <2>7 DEF SaveInv
<1>3. CASE ng # <<>>
  <2>1. NgOnly BY <1>3 DEF SaveInv
  <2>2. NgOnly' BY ONLY <1>1, <2>1 DEF NgOnly
  <2> QED BY ONLY <1>1, <1>3, <2>2 DEF SaveInv
<1> QED BY <1>2, <1>3

(* SaveInv is an invariant of every execution: what is on the disk is a    *)
(* beginning of what was meant to be written, and the reader stands at the *)
(* end of a packet, with all before it given.                              *)
THEOREM SavedIsRead == Spec => []SaveInv
<1>1. SaveInv /\ [Next]_vars => SaveInv'
  <2> SUFFICES ASSUME SaveInv, [Next]_vars PROVE SaveInv'
      OBVIOUS
  <2>1. CASE PcapDumpOpen BY <2>1, DumpOpenStep
  <2>2. CASE PcapDump BY <2>2, DumpStep
  <2>3. CASE PcapDumpData BY <2>3, DataStep
  <2>4. CASE PcapDumpFlush BY <2>4, FlushStep
  <2>5. CASE PcapDumpClose BY <2>5, DumpCloseStep
  <2>6. CASE Crash BY <2>6, CrashStep
  <2>7. CASE PcapOpenOffline BY <2>7, OpenStep
  <2>8. CASE NextPacket BY <2>8, NextStep
  <2>9. CASE PcapClose BY <2>9, CloseStep
  <2>10. CASE NgOpenOffline \/ NgEnd \/ NgOther \/ NgInterface \/ NgSection \/ NgPacket
      BY <2>10, NgSteps
  <2>11. CASE UNCHANGED vars BY <2>11, StutterSave
  <2> QED BY <2>1, <2>2, <2>3, <2>4, <2>5, <2>6, <2>7, <2>8, <2>9, <2>10, <2>11 DEF Next
<1> QED BY <1>1, InitSave, PTL DEF Spec

(* What was read before any error is a beginning of what was written, for  *)
(* the reader stands where the packets it gave end.                        *)
LEMMA SaveReads == SaveInv => ReadsWhatWasWritten
<1> SUFFICES ASSUME SaveInv, ng = <<>>, ~reader.erred PROVE IsPrefix(got, ViewAll)
    BY DEF ReadsWhatWasWritten
<1>1. PICK f, S, off : SaveState(f, S, off) BY DEF SaveInv, SaveState
<1>2. content \in Seq(Packet) /\ HasRead BY <1>1 DEF SaveState, Stored, Reading
<1> DEFINE n == Len(content)
           m == Len(got)
           V == ViewAll
<1>3. n \in Nat /\ DOMAIN content = 1..n BY ONLY <1>2
<1>4. V = [i \in 1..n |-> View(content[i])] BY ONLY <1>3 DEF ViewAll
<1>5. Len(V) = n /\ \A i \in 1..n : V[i] = View(content[i]) BY ONLY <1>3, <1>4
<1>6. PICK T : got \in Seq(T) BY <1>2 DEF HasRead
<1>7. m \in 0..n /\ \A k \in 1..m : got[k] = View(content[k]) BY ONLY <1>2, <1>3 DEF HasRead
<1> HIDE DEF V
<1>8. \A k \in 1..m : got[k] = V[k] BY ONLY <1>3, <1>5, <1>7
<1>9. got = SubSeq(V, 1, m)
  <2>1. SubSeq(V, 1, m) = [i \in 1..m |-> V[i]] BY ONLY <1>7
  <2>2. got = [i \in 1..m |-> got[i]] BY ONLY <1>6
  <2> QED BY ONLY <1>8, <2>1, <2>2
<1>10. Len(got) =< Len(V) BY ONLY <1>3, <1>5, <1>7
<1>11. IsPrefix(got, V) BY ONLY <1>9, <1>10 DEF IsPrefix
<1> QED BY <1>11 DEF V

(* ReadsWhatWasWritten (pcap_next_packet, sf-pcap.c): for every set of     *)
(* packets, every size of the buffer and of the disk, and every format,    *)
(* version and link type another program writes, a reader is given, up to  *)
(* its first error, the packets the writer was, in order, none twice, none *)
(* changed but for the snapshot, wherever the file was cut.                *)
THEOREM ReadAsWritten == Spec => []ReadsWhatWasWritten
BY SavedIsRead, SaveReads, PTL

(* What a flush made safe is on the disk, and a reader that stops has read *)
(* it: it stops nowhere before.                                            *)
LEMMA SaveFlushed == Short /\ SaveInv => FlushedSurvives
<1> SUFFICES ASSUME Short, SaveInv PROVE FlushedSurvives
    OBVIOUS
<1>1. CASE ng = <<>>
  <2>1. PICK f, S, off : SaveState(f, S, off) BY <1>1 DEF SaveInv, SaveState
  <2>2. Reading(f, S, off) BY <2>1 DEF SaveState
  <2>3. reader.st \in {"eof", "error"} => Len(got) >= reader.synced BY ONLY Short, <2>2 DEF Reading
  <2>4. reader.st = "refused" => reader.synced = -1 BY <2>2 DEF Reading
  <2> QED BY <2>3, <2>4 DEF FlushedSurvives
<1>2. CASE ng # <<>>
  <2>1. NgOnly BY <1>2 DEF SaveInv
  <2> QED BY <2>1 DEF NgOnly, FlushedSurvives
<1> QED BY <1>1, <1>2

(* FlushedSurvives (pcap_dump_flush): a reader that reaches the end or an  *)
(* error has given at least the packets that a flush which succeeded had   *)
(* made safe, whatever happened since. A packet longer than MAXIMUM_SNAPLEN*)
(* is refused by every reader, so Short is needed.                         *)
THEOREM FlushedIsRead ==
    ASSUME Short
    PROVE  Spec => []FlushedSurvives
<1>1. SaveInv => FlushedSurvives BY SaveFlushed
<1> QED BY <1>1, SavedIsRead, PTL

(* A file that no write failed on and that was closed is read to its end.  *)
LEMMA SaveWhole == Short /\ SaveInv => WholeFileReadWhole
<1> SUFFICES ASSUME Short, SaveInv, reader.whole
             PROVE  /\ reader.st \notin {"error", "refused"}
                    /\ reader.st = "eof" => Len(got) = Len(content)
    BY DEF WholeFileReadWhole
<1>1. ng = <<>> BY DEF SaveInv, NgOnly
<1>2. PICK f, S, off : SaveState(f, S, off) BY <1>1 DEF SaveInv, SaveState
<1> QED BY <1>2 DEF SaveState, Reading

(* WholeFileReadWhole (pcap_dump_close): a reader of a whole file reads it *)
(* without an error, and at the end has given every packet. Short is needed*)
(* as before.                                                              *)
THEOREM WholeIsRead ==
    ASSUME Short
    PROVE  Spec => []WholeFileReadWhole
<1>1. SaveInv => WholeFileReadWhole BY SaveWhole
<1> QED BY <1>1, SavedIsRead, PTL

-----------------------------------------------------------------------------
(* Sections of a pcap-ng file.                                             *)

(* The j-th block is the last section header up to the i-th.               *)
Starts(j, i) == /\ j \in 1..i /\ ng[j].type = "SHB"
                /\ \A h \in (j + 1)..i : ng[h].type # "SHB"

(* Every block is in a section, when the first one begins one.             *)
LEMMA Sections ==
    ASSUME ng[1].type = "SHB", NEW i \in Nat \ {0}
    PROVE  Starts(SectionStart(i), i)
<1> DEFINE T == {n \in Nat : \E j \in 1..(n + 1) : Starts(j, n + 1)}
<1>1. 0 \in T
  <2>1. Starts(1, 0 + 1) BY DEF Starts
  <2> QED BY <2>1
<1>2. ASSUME NEW n \in Nat, n \in T PROVE n + 1 \in T
  <2>1. PICK j \in 1..(n + 1) : Starts(j, n + 1) BY <1>2
  <2>2. CASE ng[n + 2].type = "SHB"
    <3>1. Starts(n + 2, (n + 1) + 1) BY <2>2 DEF Starts
    <3> QED BY <3>1
  <2>3. CASE ng[n + 2].type # "SHB"
    <3>1. Starts(j, (n + 1) + 1) BY <2>1, <2>3 DEF Starts
    <3> QED BY <3>1
  <2> QED BY <2>2, <2>3
<1>3. i - 1 \in T
  <2> HIDE DEF T
  <2>1. \A n \in Nat : n \in T BY <1>1, <1>2, Numbers
  <2> QED BY <2>1
<1>4. \E j \in 1..i : Starts(j, i) BY <1>3
<1>5. \E j \in 1..i : ng[j].type = "SHB" /\ \A h \in (j + 1)..i : ng[h].type # "SHB"
    BY ONLY <1>4 DEF Starts
<1> QED BY <1>5 DEF SectionStart, Starts

(* The next block is in the same section, or begins one.                   *)
LEMMA SameSection ==
    ASSUME ng[1].type = "SHB", NEW i \in Nat \ {0}
    PROVE  SectionStart(i + 1) = IF ng[i + 1].type = "SHB" THEN i + 1 ELSE SectionStart(i)
<1>1. Starts(SectionStart(i), i) BY ONLY Sections, ng[1].type = "SHB", i \in Nat \ {0}
<1>2. Starts(SectionStart(i + 1), i + 1)
  <2>1. i + 1 \in Nat \ {0} OBVIOUS
  <2> QED BY ONLY Sections, ng[1].type = "SHB", <2>1
<1> DEFINE j == SectionStart(i)
           k == SectionStart(i + 1)
<1> HIDE DEF j, k
<1>3. Starts(j, i) /\ Starts(k, i + 1) BY <1>1, <1>2 DEF j, k
<1>4. k = IF ng[i + 1].type = "SHB" THEN i + 1 ELSE j BY ONLY <1>3, i \in Nat \ {0} DEF Starts
<1> QED BY <1>4 DEF j, k

(* The interfaces described up to the i-th block, in its section.          *)
Before(i) == {j \in 1..i : ng[j].type = "IDB" /\ j > SectionStart(i)}

(* The packets and the interfaces up to a block can be counted.            *)
LEMMA Finite ==
    ASSUME NEW i \in Nat
    PROVE  /\ IsFiniteSet(PacketsTo(i)) /\ IsFiniteSet(Before(i))
           /\ Cardinality(PacketsTo(i)) \in Nat /\ Cardinality(Before(i)) \in Nat
<1>1. IsFiniteSet(1..i) BY FS_Interval
<1>2. PacketsTo(i) \in SUBSET (1..i) /\ Before(i) \in SUBSET (1..i) BY DEF PacketsTo, Before
<1>3. IsFiniteSet(PacketsTo(i)) /\ IsFiniteSet(Before(i)) BY <1>1, <1>2, FS_Subset
<1> QED BY <1>3, FS_CardinalityType

(* What the next block adds.                                               *)
LEMMA OneBlockMore ==
    ASSUME ng[1].type = "SHB", NEW i \in Nat \ {0}
    PROVE  /\ PacketsTo(i + 1) = IF ng[i + 1].type \in PacketTypes THEN PacketsTo(i) \cup {i + 1}
                                                                ELSE PacketsTo(i)
           /\ Before(i + 1) = CASE ng[i + 1].type = "SHB" -> {}
                                [] ng[i + 1].type = "IDB" -> Before(i) \cup {i + 1}
                                [] OTHER -> Before(i)
           /\ ng[i + 1].type # "SHB" => Described(i + 1) = Before(i)
           /\ i + 1 \notin PacketsTo(i) /\ i + 1 \notin Before(i)
<1>1. SectionStart(i + 1) = IF ng[i + 1].type = "SHB" THEN i + 1 ELSE SectionStart(i)
    BY SameSection
<1>2. SectionStart(i) \in 1..i BY Sections DEF Starts
<1>3. PacketsTo(i + 1) = IF ng[i + 1].type \in PacketTypes THEN PacketsTo(i) \cup {i + 1}
                                                         ELSE PacketsTo(i)
    BY DEF PacketsTo
<1>4. ng[i + 1].type = "SHB" => Before(i + 1) = {}
    BY ONLY <1>1, i \in Nat \ {0} DEF Before
<1>5. ng[i + 1].type = "IDB" => Before(i + 1) = Before(i) \cup {i + 1}
    BY ONLY <1>1, <1>2, i \in Nat \ {0} DEF Before
<1>6. ng[i + 1].type \notin {"SHB", "IDB"} => Before(i + 1) = Before(i)
    BY ONLY <1>1, i \in Nat \ {0} DEF Before
<1>7. ng[i + 1].type # "SHB" => Described(i + 1) = Before(i)
    BY ONLY <1>1, i \in Nat \ {0} DEF Before, Described
<1>8. i + 1 \notin PacketsTo(i) /\ i + 1 \notin Before(i) BY DEF PacketsTo, Before
<1> QED BY ONLY <1>3, <1>4, <1>5, <1>6, <1>7, <1>8

-----------------------------------------------------------------------------
(* Reading a pcap-ng file.                                                 *)

(* What NgFaithful says of a packet block.                                 *)
Faithful(i) ==
    \E d \in Described(i) :
        /\ Cardinality({j \in Described(i) : j < d}) = NgIface(ng[i])
        /\ got[Cardinality(PacketsTo(i))] =
               NgDecode(ng[i], Interface(ng[d]), reader.snapshot)

(* Of every packet block up to at the reader has given a packet.           *)
NgHasRead ==
    \E at \in 1..Len(ng) :
        /\ at = reader.pos
        /\ (\E T : got \in Seq(T)) /\ Len(got) = Cardinality(PacketsTo(at))
        /\ \A i \in PacketsTo(at) : Faithful(i)

(* And it has the interfaces of the section that it is in.                 *)
NgKnows ==
    /\ ng[1].type = "SHB"
    /\ \E at \in 1..Len(ng) :
          /\ at = reader.pos
          /\ (\E T : reader.ifaces \in Seq(T)) /\ Len(reader.ifaces) = Cardinality(Before(at))
          /\ \A n \in 1..Len(reader.ifaces) : \E d \in Before(at) :
                /\ Cardinality({j \in Before(at) : j < d}) = n - 1
                /\ reader.ifaces[n] = Interface(ng[d])

NgInv ==
    ng # <<>> =>
        /\ ng \in NgFiles
        /\ reader.st \in {"open", "eof", "error"} => NgHasRead
        /\ reader.st = "open" => NgKnows

(* The file stays as it is while it is read, and so does what is counted in*)
(* it.                                                                     *)
LEMMA SameBlocks ==
    ASSUME UNCHANGED ng
    PROVE  /\ \A i : PacketsTo(i)' = PacketsTo(i)
           /\ \A i : Before(i)' = Before(i)
           /\ \A i : Described(i)' = Described(i)
<1>1. \A i : SectionStart(i)' = SectionStart(i) BY DEF SectionStart
<1>2. \A i : PacketsTo(i)' = PacketsTo(i) BY DEF PacketsTo
<1>3. ASSUME NEW i PROVE Before(i)' = Before(i) /\ Described(i)' = Described(i)
  <2>1. SectionStart(i)' = SectionStart(i) BY <1>1
  <2>2. Before(i)' = {j \in 1..i : ng'[j].type = "IDB" /\ j > SectionStart(i)'} BY DEF Before
  <2>3. Described(i)' = {j \in 1..(i - 1) : ng'[j].type = "IDB" /\ j > SectionStart(i)'}
      BY DEF Described
  <2> QED BY <2>1, <2>2, <2>3 DEF Before, Described
<1> QED BY <1>2, <1>3

(* What was read stays so, when the packets given are not changed.         *)
LEMMA FaithfulStays ==
    ASSUME UNCHANGED ng, reader'.snapshot = reader.snapshot, NEW i, Faithful(i),
           NEW n, n = Cardinality(PacketsTo(i)), got'[n] = got[n]
    PROVE  Faithful(i)'
<1>1. Described(i)' = Described(i) /\ PacketsTo(i)' = PacketsTo(i) BY SameBlocks
<1>2. PICK d \in Described(i) :
        /\ Cardinality({j \in Described(i) : j < d}) = NgIface(ng[i])
        /\ got[n] = NgDecode(ng[i], Interface(ng[d]), reader.snapshot)
    BY DEF Faithful
<1>3. /\ Cardinality({j \in Described(i)' : j < d}) = NgIface(ng'[i])
      /\ got'[n] = NgDecode(ng'[i], Interface(ng'[d]), reader'.snapshot)
      /\ d \in Described(i)' /\ n = Cardinality(PacketsTo(i)')
    BY <1>1, <1>2
<1> QED BY ONLY <1>3 DEF Faithful

(* What a reader knows in the open state, and the numbers of it.           *)
LEMMA NgOpen ==
    ASSUME NgInv, ng # <<>>, reader.st = "open", NEW m, m = reader.pos
    PROVE  /\ ng[1].type = "SHB" /\ m \in 1..Len(ng) /\ Len(ng) \in Nat /\ m \in Nat \ {0}
           /\ (\E T : got \in Seq(T)) /\ Len(got) = Cardinality(PacketsTo(m))
           /\ \A i \in PacketsTo(m) : Faithful(i)
           /\ (\E T : reader.ifaces \in Seq(T)) /\ Len(reader.ifaces) = Cardinality(Before(m))
           /\ \A n \in 1..Len(reader.ifaces) : \E d \in Before(m) :
                 /\ Cardinality({j \in Before(m) : j < d}) = n - 1
                 /\ reader.ifaces[n] = Interface(ng[d])
<1>1. NgHasRead /\ NgKnows /\ ng \in NgFiles BY DEF NgInv
<1>2. Len(ng) \in Nat BY <1>1, NgFilesAssumption
<1>3. m \in 1..Len(ng) BY <1>1 DEF NgHasRead
<1>4. m \in Nat \ {0} BY ONLY <1>2, <1>3
<1>5. /\ (\E T : got \in Seq(T)) /\ Len(got) = Cardinality(PacketsTo(m))
      /\ \A i \in PacketsTo(m) : Faithful(i)
    BY ONLY <1>1, m = reader.pos DEF NgHasRead
<1>6. /\ (\E T : reader.ifaces \in Seq(T)) /\ Len(reader.ifaces) = Cardinality(Before(m))
      /\ \A n \in 1..Len(reader.ifaces) : \E d \in Before(m) :
            /\ Cardinality({j \in Before(m) : j < d}) = n - 1
            /\ reader.ifaces[n] = Interface(ng[d])
    BY ONLY <1>1, m = reader.pos DEF NgKnows
<1> QED BY ONLY <1>1, <1>2, <1>3, <1>4, <1>5, <1>6 DEF NgKnows

(* What is added to a sequence is behind what was there.                   *)
LEMMA Longer ==
    ASSUME NEW s, \E T : s \in Seq(T), NEW e
    PROVE  /\ \E T : Append(s, e) \in Seq(T)
           /\ Len(s) \in Nat /\ Len(Append(s, e)) = Len(s) + 1
           /\ \A i \in 1..Len(s) : Append(s, e)[i] = s[i]
           /\ Append(s, e)[Len(s) + 1] = e
<1>1. PICK T : s \in Seq(T) OBVIOUS
<1>2. T \subseteq T \cup {e} /\ e \in T \cup {e} OBVIOUS
<1>3. s \in Seq(T \cup {e}) BY ONLY <1>1, <1>2, SeqMonotonic
<1>4. /\ Append(s, e) \in Seq(T \cup {e})
      /\ Len(s) \in Nat /\ Len(Append(s, e)) = Len(s) + 1
      /\ \A i \in 1..Len(s) : Append(s, e)[i] = s[i]
      /\ Append(s, e)[Len(s) + 1] = e
    BY ONLY <1>2, <1>3, AppendProperties
<1> QED BY ONLY <1>4

(* A block that holds no packet.                                           *)
LEMMA NoPacket ==
    ASSUME NgInv, ng # <<>>, reader.st = "open", UNCHANGED <<ng, got>>,
           NEW m, m = reader.pos, m + 1 \in 1..Len(ng), reader'.pos = m + 1,
           reader'.snapshot = reader.snapshot, ng[m + 1].type \notin PacketTypes
    PROVE  NgHasRead'
<1>1. /\ ng[1].type = "SHB" /\ m \in Nat \ {0}
      /\ (\E T : got \in Seq(T)) /\ Len(got) = Cardinality(PacketsTo(m))
      /\ \A i \in PacketsTo(m) : Faithful(i)
    BY NgOpen
<1>2. PacketsTo(m + 1) = PacketsTo(m)
    BY ONLY <1>1, ng[m + 1].type \notin PacketTypes, OneBlockMore
<1> DEFINE at == m + 1
<1>3. PacketsTo(at)' = PacketsTo(m) BY <1>2, SameBlocks
<1>4. ASSUME NEW i \in PacketsTo(at)' PROVE Faithful(i)'
  <2>1. Faithful(i) BY ONLY <1>1, <1>3, i \in PacketsTo(at)'
  <2> QED BY <2>1, FaithfulStays
<1>5. at \in 1..Len(ng') /\ at = reader'.pos /\ Len(got') = Cardinality(PacketsTo(at)')
      /\ (\E T : got' \in Seq(T))
    BY <1>1, <1>3
<1> HIDE DEF at
<1> QED BY ONLY <1>4, <1>5 DEF NgHasRead

(* The end of the file, and an error.                                      *)
LEMMA NgStops ==
    ASSUME NgInv, ng # <<>>, reader.st = "open", UNCHANGED <<ng, got>>,
           reader'.pos = reader.pos, reader'.snapshot = reader.snapshot,
           reader'.st \in {"eof", "error"}
    PROVE  NgInv'
<1> PICK m : m = reader.pos OBVIOUS
<1>1. /\ m \in 1..Len(ng) /\ (\E T : got \in Seq(T)) /\ Len(got) = Cardinality(PacketsTo(m))
      /\ \A i \in PacketsTo(m) : Faithful(i)
    BY NgOpen
<1>2. PacketsTo(m)' = PacketsTo(m) BY SameBlocks
<1>3. ASSUME NEW i \in PacketsTo(m)' PROVE Faithful(i)'
  <2>1. Faithful(i) BY ONLY <1>1, <1>2, i \in PacketsTo(m)'
  <2> QED BY <2>1, FaithfulStays
<1>4. m \in 1..Len(ng') /\ m = reader'.pos /\ Len(got') = Cardinality(PacketsTo(m)')
      /\ (\E T : got' \in Seq(T))
    BY <1>1, <1>2
<1>5. NgHasRead' BY ONLY <1>3, <1>4 DEF NgHasRead
<1>6. ng' \in NgFiles BY DEF NgInv
<1> QED BY <1>5, <1>6 DEF NgInv

(* The interfaces after the next block.                                    *)
LEMMA KnowsOn ==
    ASSUME NgInv, ng # <<>>, reader.st = "open", UNCHANGED ng,
           NEW m, m = reader.pos, m + 1 \in 1..Len(ng), reader'.pos = m + 1,
           \/ ng[m + 1].type = "SHB" /\ reader'.ifaces = <<>>
           \/ ng[m + 1].type = "IDB" /\ reader'.ifaces = Append(reader.ifaces, Interface(ng[m + 1]))
           \/ ng[m + 1].type \notin {"SHB", "IDB"} /\ reader'.ifaces = reader.ifaces
    PROVE  NgKnows'
<1> PICK at, s, t : at = m + 1 /\ s = reader.ifaces /\ t = reader'.ifaces OBVIOUS
<1>1. /\ ng[1].type = "SHB" /\ m \in Nat \ {0}
      /\ (\E T : s \in Seq(T)) /\ Len(s) = Cardinality(Before(m))
      /\ \A n \in 1..Len(s) : \E d \in Before(m) :
            Cardinality({j \in Before(m) : j < d}) = n - 1 /\ s[n] = Interface(ng[d])
  <2>1. /\ ng[1].type = "SHB" /\ m \in Nat \ {0}
        /\ (\E T : reader.ifaces \in Seq(T)) /\ Len(reader.ifaces) = Cardinality(Before(m))
        /\ \A n \in 1..Len(reader.ifaces) : \E d \in Before(m) :
              /\ Cardinality({j \in Before(m) : j < d}) = n - 1
              /\ reader.ifaces[n] = Interface(ng[d])
      BY NgOpen
  <2>2. s = reader.ifaces OBVIOUS
  <2> QED BY ONLY <2>1, <2>2
<1>2. /\ Before(at) = CASE ng[at].type = "SHB" -> {}
                        [] ng[at].type = "IDB" -> Before(m) \cup {at}
                        [] OTHER -> Before(m)
      /\ at \notin Before(m)
  <2>1. at = m + 1 OBVIOUS
  <2> QED BY ONLY <1>1, <2>1, OneBlockMore
<1>3. Before(at)' = Before(at) /\ ng' = ng BY SameBlocks
<1>4. IsFiniteSet(Before(m)) /\ Cardinality(Before(m)) \in Nat BY ONLY <1>1, Finite
<1>5. /\ (\E T : t \in Seq(T)) /\ Len(t) = Cardinality(Before(at))
      /\ \A n \in 1..Len(t) : \E d \in Before(at) :
            Cardinality({j \in Before(at) : j < d}) = n - 1 /\ t[n] = Interface(ng[d])
  <2>1. CASE ng[at].type = "SHB" /\ t = <<>>
    <3>1. Before(at) = {} BY ONLY <1>2, <2>1
    <3>2. t \in Seq({}) /\ Len(t) = 0 BY <2>1
    <3> QED BY ONLY <3>1, <3>2, FS_EmptySet
  <2>2. CASE ng[at].type = "IDB" /\ t = Append(s, Interface(ng[at]))
    <3>1. Before(at) = Before(m) \cup {at}
      <4>1. "IDB" # "SHB" OBVIOUS
      <4> QED BY ONLY <1>2, <2>2, <4>1
    <3>2. /\ (\E T : t \in Seq(T)) /\ Len(s) \in Nat /\ Len(t) = Len(s) + 1
          /\ \A i \in 1..Len(s) : t[i] = s[i]
          /\ t[Len(s) + 1] = Interface(ng[at])
      <4> DEFINE e == Interface(ng[at])
      <4>1. t = Append(s, e) BY <2>2
      <4> HIDE DEF e
      <4>2. \E T : s \in Seq(T) BY ONLY <1>1
      <4>3. /\ (\E T : Append(s, e) \in Seq(T))
            /\ Len(s) \in Nat /\ Len(Append(s, e)) = Len(s) + 1
            /\ \A i \in 1..Len(s) : Append(s, e)[i] = s[i]
            /\ Append(s, e)[Len(s) + 1] = e
          BY ONLY <4>2, Longer
      <4> QED BY ONLY <4>1, <4>3 DEF e
    <3>3. Cardinality(Before(at)) = Cardinality(Before(m)) + 1
        BY ONLY <1>2, <1>4, <3>1, FS_AddElement
    <3>4. Len(t) = Cardinality(Before(at)) BY ONLY <1>1, <3>2, <3>3
    <3>5. ASSUME NEW n \in 1..Len(t)
          PROVE  \E d \in Before(at) :
                    Cardinality({j \in Before(at) : j < d}) = n - 1 /\ t[n] = Interface(ng[d])
      <4>0. at = m + 1 /\ Before(m) \subseteq 1..m BY DEF Before
      <4>1. CASE n \in 1..Len(s)
        <5>1. PICK d \in Before(m) :
                 Cardinality({j \in Before(m) : j < d}) = n - 1 /\ s[n] = Interface(ng[d])
            BY ONLY <1>1, <4>1
        <5>2. {j \in Before(at) : j < d} = {j \in Before(m) : j < d}
            BY ONLY <1>1, <3>1, <4>0, d \in Before(m)
        <5>3. d \in Before(at) BY ONLY <3>1, d \in Before(m)
        <5>4. t[n] = s[n] BY ONLY <3>2, <4>1
        <5>5. Cardinality({j \in Before(at) : j < d}) = n - 1 BY ONLY <5>1, <5>2
        <5> QED BY ONLY <5>1, <5>3, <5>4, <5>5
      <4>2. CASE n \notin 1..Len(s)
        <5>1. n = Len(s) + 1 BY ONLY <3>2, <4>2, n \in 1..Len(t)
        <5>2. {j \in Before(at) : j < at} = Before(m) BY ONLY <1>1, <3>1, <4>0
        <5>0. n - 1 = Len(s) BY ONLY <3>2, <5>1
        <5>3. Cardinality({j \in Before(at) : j < at}) = n - 1
            BY ONLY <1>1, <5>0, <5>2
        <5>4. at \in Before(at) /\ t[n] = Interface(ng[at]) BY ONLY <3>1, <3>2, <5>1
        <5> QED BY ONLY <5>3, <5>4
      <4> QED BY ONLY <4>1, <4>2
    <3> QED BY ONLY <3>2, <3>4, <3>5
  <2>3. CASE ng[at].type \notin {"SHB", "IDB"} /\ t = s
    <3>1. Before(at) = Before(m) BY ONLY <1>2, <2>3
    <3> QED BY ONLY <1>1, <2>3, <3>1
  <2> QED BY <2>1, <2>2, <2>3
<1>6. at \in 1..Len(ng') /\ at = reader'.pos /\ t = reader'.ifaces BY <1>3
<1>7. /\ (\E T : reader'.ifaces \in Seq(T)) /\ Len(reader'.ifaces) = Cardinality(Before(at)')
      /\ \A n \in 1..Len(reader'.ifaces) : \E d \in Before(at)' :
            /\ Cardinality({j \in Before(at)' : j < d}) = n - 1
            /\ reader'.ifaces[n] = Interface(ng'[d])
    BY ONLY <1>3, <1>5, <1>6
<1>8. ng'[1].type = "SHB" BY ONLY <1>1, <1>3
<1> QED BY ONLY <1>6, <1>7, <1>8 DEF NgKnows

(* A block with a packet, which the reader gives.                          *)
LEMMA PacketGiven ==
    ASSUME NgInv, ng # <<>>, reader.st = "open", UNCHANGED ng,
           NEW m, m = reader.pos, m + 1 \in 1..Len(ng), reader'.pos = m + 1,
           reader'.snapshot = reader.snapshot, ng[m + 1].type \in PacketTypes,
           NEW id, id = NgIface(ng[m + 1]), ~(id >= Len(reader.ifaces)),
           got' = Append(got, NgDecode(ng[m + 1], reader.ifaces[id + 1], reader.snapshot))
    PROVE  NgHasRead'
<1> PICK at : at = m + 1 OBVIOUS
<1>1. /\ ng[1].type = "SHB" /\ m \in Nat \ {0}
      /\ (\E T : got \in Seq(T)) /\ Len(got) = Cardinality(PacketsTo(m))
      /\ \A i \in PacketsTo(m) : Faithful(i)
      /\ (\E T : reader.ifaces \in Seq(T)) /\ Len(reader.ifaces) = Cardinality(Before(m))
      /\ \A n \in 1..Len(reader.ifaces) : \E d \in Before(m) :
            /\ Cardinality({j \in Before(m) : j < d}) = n - 1
            /\ reader.ifaces[n] = Interface(ng[d])
    BY NgOpen
<1>2. PacketsTo(at) = PacketsTo(m) \cup {at} /\ Described(at) = Before(m) /\ at \notin PacketsTo(m)
  <2>1. at = m + 1 /\ ng[at].type \in PacketTypes /\ ng[at].type # "SHB" BY DEF PacketTypes
  <2> QED BY ONLY <1>1, <2>1, OneBlockMore
<1>3. PacketsTo(at)' = PacketsTo(at) /\ Described(at)' = Described(at) /\ ng' = ng BY SameBlocks
<1>4. IsFiniteSet(PacketsTo(m)) /\ Cardinality(PacketsTo(m)) \in Nat BY ONLY <1>1, Finite
<1>5. Cardinality(PacketsTo(at)) = Cardinality(PacketsTo(m)) + 1
    BY ONLY <1>2, <1>4, FS_AddElement
<1>6. id \in Nat
  <2>1. ng \in NgFiles BY DEF NgInv
  <2>2. ng[m + 1].type \in {"EPB", "PB"} => ng[m + 1].iface \in Nat BY <2>1, NgFilesAssumption
  <2> QED BY <2>2 DEF NgIface, PacketTypes
<1>7. Len(reader.ifaces) \in Nat BY ONLY <1>1
<1>8. id + 1 \in 1..Len(reader.ifaces) BY ONLY <1>6, <1>7, ~(id >= Len(reader.ifaces))
<1>9. PICK d \in Before(m) :
         /\ Cardinality({j \in Before(m) : j < d}) = (id + 1) - 1
         /\ reader.ifaces[id + 1] = Interface(ng[d])
    BY ONLY <1>1, <1>8
<1>10. (id + 1) - 1 = id BY ONLY <1>6
<1> DEFINE e == NgDecode(ng[m + 1], reader.ifaces[id + 1], reader.snapshot)
<1>11. got' = Append(got, e) OBVIOUS
<1>12. e = NgDecode(ng[at], Interface(ng[d]), reader.snapshot) BY <1>9
<1> HIDE DEF e
<1>13. /\ \E T : got' \in Seq(T)
       /\ Len(got') = Len(got) + 1 /\ \A i \in 1..Len(got) : got'[i] = got[i]
       /\ got'[Len(got) + 1] = e
  <2>1. \E T : got \in Seq(T) BY ONLY <1>1
  <2>2. /\ (\E T : Append(got, e) \in Seq(T))
        /\ Len(got) \in Nat /\ Len(Append(got, e)) = Len(got) + 1
        /\ \A i \in 1..Len(got) : Append(got, e)[i] = got[i]
        /\ Append(got, e)[Len(got) + 1] = e
      BY ONLY <2>1, Longer
  <2> QED BY ONLY <1>11, <2>2
<1>14. ASSUME NEW i \in PacketsTo(at) PROVE Faithful(i)'
  <2>1. CASE i = at
    <3>1. /\ d \in Described(at)'
          /\ Cardinality({j \in Described(at)' : j < d}) = NgIface(ng'[at])
      <4>1. Described(at)' = Before(m) BY ONLY <1>2, <1>3
      <4>2. id = NgIface(ng'[at]) BY <1>3
      <4> QED BY ONLY <1>9, <1>10, <4>1, <4>2, d \in Before(m)
    <3>2. got'[Cardinality(PacketsTo(at)')] = e BY ONLY <1>1, <1>3, <1>5, <1>13
    <3>3. e = NgDecode(ng'[at], Interface(ng'[d]), reader'.snapshot) BY <1>3, <1>12
    <3> QED BY ONLY <2>1, <3>1, <3>2, <3>3 DEF Faithful
  <2>2. CASE i # at
    <3>1. i \in PacketsTo(m) BY ONLY <1>2, <2>2, i \in PacketsTo(at)
    <3>2. Faithful(i) BY ONLY <1>1, <3>1
    <3> PICK n : n = Cardinality(PacketsTo(i)) OBVIOUS
    <3>3. n \in 1..Len(got)
      <4>1. i \in 1..m /\ i \in PacketsTo(i) /\ PacketsTo(i) \subseteq PacketsTo(m)
          BY ONLY <1>1, <3>1 DEF PacketsTo
      <4>2. IsFiniteSet(PacketsTo(i)) /\ n \in Nat
        <5>1. i \in Nat BY ONLY <1>1, <4>1
        <5>2. n = Cardinality(PacketsTo(i)) OBVIOUS
        <5> QED BY ONLY <5>1, <5>2, Finite
      <4>3. n # 0
        <5>1. n = Cardinality(PacketsTo(i)) OBVIOUS
        <5> QED BY ONLY <4>1, <4>2, <5>1, FS_EmptySet
      <4>4. n <= Cardinality(PacketsTo(m))
        <5>1. PacketsTo(i) \in SUBSET PacketsTo(m) BY ONLY <4>1
        <5>2. n = Cardinality(PacketsTo(i)) OBVIOUS
        <5> QED BY ONLY <1>4, <5>1, <5>2, FS_Subset
      <4> QED BY ONLY <1>1, <1>4, <4>2, <4>3, <4>4
    <3>4. got'[n] = got[n] BY ONLY <1>13, <3>3
    <3> QED BY <3>2, <3>4, FaithfulStays
  <2> QED BY <2>1, <2>2
<1>15. Len(got') = Cardinality(PacketsTo(at)') BY ONLY <1>1, <1>3, <1>5, <1>13
<1>16. at \in 1..Len(ng') /\ at = reader'.pos BY <1>3
<1>17. \A i \in PacketsTo(at)' : Faithful(i)' BY ONLY <1>3, <1>14
<1> QED BY ONLY <1>13, <1>15, <1>16, <1>17 DEF NgHasRead

(* The Min of FiniteSetsExt gives the least.                               *)
LEMMA Least ==
    ASSUME NEW I \in SUBSET Nat, I # {}
    PROVE  Min(I) \in I /\ \A y \in I : Min(I) =< y
<1>1. PICK x \in I : \A y \in I : <<y, x>> \notin OpToRel(<, Nat)
    BY NatLessThanWellFounded, WFMin
<1>2. \A y \in I : x =< y
  <2>1. ASSUME NEW y \in I PROVE x =< y
    <3>1. ~(y < x)
      <4>1. <<y, x>> \notin OpToRel(<, Nat) BY <1>1
      <4>2. x \in Nat /\ y \in Nat OBVIOUS
      <4> QED BY <4>1, <4>2 DEF OpToRel
    <3> QED BY <3>1
  <2> QED BY <2>1
<1> QED BY <1>2 DEF Min

(* The first description of an interface is found behind the header of the *)
(* file, and no packet before it.                                          *)
LEMMA NgOpenStep ==
    ASSUME NgInv, ng # <<>>, NgOpenOffline, got = <<>>
    PROVE  NgInv'
<1>1. reader' = pcap_ng_check_header /\ UNCHANGED <<ng, got>>
    BY DEF NgOpenOffline, Written
<1> DEFINE Decides(b) == ~b.ok \/ b.type \in {"IDB"} \cup PacketTypes
           I == {j \in 2..Len(ng) : Decides(ng[j])}
           i == IF I # {} THEN Min(I) ELSE 0
<1>2. ng \in NgFiles /\ ng' = ng BY <1>1 DEF NgInv
<1>3. Len(ng) \in Nat BY <1>2, NgFilesAssumption
<1>4. \/ reader'.st = "refused"
      \/ /\ ng[1].type = "SHB" /\ I # {} /\ \A j \in 2..i : Readable(j)
         /\ ng[i].type = "IDB"
         /\ reader'.st = "open" /\ reader'.pos = i /\ reader'.ifaces = <<Interface(ng[i])>>
  <2>1. SelectInSubSeq(ng, 2, Len(ng), Decides) = i BY DEF SelectInSubSeq
  <2>2. i = 0 => I = {}
    <3>1. I # {} => Min(I) \in I BY <1>3, Least
    <3> QED BY <3>1
  <2> HIDE DEF Decides, I, i
  <2>3. \/ reader' = [Opened EXCEPT !.st = "refused"]
        \/ /\ ng[1].type = "SHB" /\ i # 0
           /\ \A j \in 2..i : Readable(j)
           /\ ng[i].type = "IDB"
           /\ reader' = [Opened EXCEPT !.st = "open", !.pos = i, !.snapshot = ng[i].snaplen,
                                 !.linktype = linktype_to_dlt(ng[i].linktype),
                                 !.ifaces = <<Interface(ng[i])>>]
      BY <1>1, <2>1 DEF pcap_ng_check_header, Decides
  <2>4. i # 0 => I # {} BY DEF i
  <2> QED BY ONLY <2>3, <2>4 DEF Opened, Closed
<1>5. CASE reader'.st = "refused" BY <1>2, <1>5 DEF NgInv
<1>6. CASE reader'.st # "refused"
  <2>1. /\ ng[1].type = "SHB" /\ I # {} /\ \A j \in 2..i : Readable(j)
        /\ ng[i].type = "IDB"
        /\ reader'.st = "open" /\ reader'.pos = i /\ reader'.ifaces = <<Interface(ng[i])>>
      BY ONLY <1>4, <1>6
  <2>2. i \in I /\ \A j \in I : i =< j
    <3>1. I \in SUBSET Nat /\ i = Min(I) BY <1>3, <2>1
    <3> HIDE DEF I, i
    <3> QED BY ONLY <2>1, <3>1, Least
  <2>3. i \in 2..Len(ng) /\ \A j \in 2..(i - 1) : ~Decides(ng[j])
    <3>1. i \in 2..Len(ng) BY <2>2
    <3> HIDE DEF i, Decides
    <3>2. ASSUME NEW j \in 2..(i - 1) PROVE ~Decides(ng[j])
      <4>1. j \in 2..Len(ng) /\ ~(i =< j) BY ONLY <1>3, <3>1, j \in 2..(i - 1)
      <4> QED BY <2>2, <4>1
    <3> QED BY <3>1, <3>2
  <2> HIDE DEF i
  <2>4. \A j \in 2..(i - 1) : ng[j].type \notin {"IDB"} \cup PacketTypes BY ONLY <2>3 DEF Decides
  <2> HIDE DEF I, Decides
  <2> PICK m : m = i OBVIOUS
  <2>5. /\ m \in 2..Len(ng) /\ ng[m].type = "IDB" /\ ng[1].type = "SHB"
        /\ \A j \in 2..(m - 1) : ng[j].type \notin {"IDB"} \cup PacketTypes
        /\ reader'.st = "open" /\ reader'.pos = m /\ reader'.ifaces = <<Interface(ng[m])>>
      BY <2>1, <2>3, <2>4
  <2>6. m \in Nat \ {0} /\ m > 1 BY ONLY <1>3, <2>5
  <2>7. PacketsTo(m) = {}
    <3>1. ASSUME NEW j \in 1..m PROVE ng[j].type \notin PacketTypes
      <4>1. CASE j = 1 BY ONLY <2>5, <4>1 DEF PacketTypes
      <4>2. CASE j = m BY ONLY <2>5, <4>2 DEF PacketTypes
      <4>3. CASE j # 1 /\ j # m
        <5>1. j \in 2..(m - 1) BY ONLY <2>6, <4>3, j \in 1..m
        <5> QED BY ONLY <2>5, <5>1
      <4> QED BY <4>1, <4>2, <4>3
    <3> QED BY ONLY <3>1 DEF PacketsTo
  <2>8. Before(m) = {m}
    <3>1. Starts(SectionStart(m), m) BY ONLY <2>5, <2>6, Sections
    <3> DEFINE k == SectionStart(m)
    <3>2. k \in 1..m /\ ng[k].type = "SHB" BY <3>1 DEF Starts
    <3> HIDE DEF k
    <3>3. k # m BY ONLY <2>5, <3>2
    <3>4. m > k BY ONLY <2>6, <3>2, <3>3
    <3>5. ASSUME NEW j \in 1..m, ng[j].type = "IDB" PROVE j = m
      <4>1. j # 1 BY ONLY <2>5, <3>5
      <4>2. j \notin 2..(m - 1) BY ONLY <2>5, <3>5
      <4> QED BY ONLY <2>6, <4>1, <4>2, j \in 1..m
    <3>6. Before(m) = {j \in 1..m : ng[j].type = "IDB" /\ j > k} BY DEF Before, k
    <3>7. m \in 1..m BY ONLY <2>6
    <3> QED BY ONLY <2>5, <3>4, <3>5, <3>6, <3>7
  <2>9. PacketsTo(m)' = {} /\ Before(m)' = {m} BY <1>1, <2>7, <2>8, SameBlocks
  <2>10. NgHasRead'
    <3>1. got' = <<>> /\ got' \in Seq({}) /\ Len(got') = 0 BY <1>1
    <3>2. Cardinality({}) = 0 BY FS_EmptySet
    <3>3. m \in 1..Len(ng') /\ m = reader'.pos BY <1>2, <1>3, <2>5
    <3>4. Len(got') = Cardinality(PacketsTo(m)') BY ONLY <2>9, <3>1, <3>2
    <3>5. \A j \in PacketsTo(m)' : FALSE BY ONLY <2>9
    <3> QED BY ONLY <3>1, <3>3, <3>4, <3>5 DEF NgHasRead
  <2>11. NgKnows'
    <3> DEFINE e == Interface(ng[m])
               t == <<e>>
    <3>1. reader'.ifaces = t /\ t \in Seq({e}) /\ Len(t) = 1 /\ t[1] = e BY <2>5
    <3>2. e = Interface(ng'[m]) BY <1>2
    <3> HIDE DEF e, t
    <3>3. m \in 1..Len(ng') /\ m = reader'.pos /\ ng'[1].type = "SHB" BY <1>2, <1>3, <2>5
    <3>4. Cardinality(Before(m)') = 1 BY ONLY <2>9, FS_Singleton
    <3>5. Len(reader'.ifaces) = Cardinality(Before(m)') BY ONLY <3>1, <3>4
    <3>6. ASSUME NEW n \in 1..Len(reader'.ifaces)
          PROVE  \E d \in Before(m)' : /\ Cardinality({j \in Before(m)' : j < d}) = n - 1
                                       /\ reader'.ifaces[n] = Interface(ng'[d])
      <4>1. n = 1 BY ONLY <3>1, n \in 1..Len(reader'.ifaces)
      <4>2. {j \in Before(m)' : j < m} = {} BY ONLY <2>6, <2>9
      <4>3. Cardinality({j \in Before(m)' : j < m}) = 0 BY ONLY <4>2, FS_EmptySet
      <4>4. m \in Before(m)' BY ONLY <2>9
      <4>5. n - 1 = 0 BY ONLY <4>1
      <4>6. reader'.ifaces[n] = Interface(ng'[m]) BY ONLY <3>1, <3>2, <4>1
      <4> QED BY ONLY <4>3, <4>4, <4>5, <4>6
    <3>7. \E T : reader'.ifaces \in Seq(T) BY ONLY <3>1
    <3> QED BY ONLY <3>3, <3>5, <3>6, <3>7 DEF NgKnows
  <2> QED BY ONLY <1>2, <2>5, <2>10, <2>11 DEF NgInv
<1> QED BY <1>5, <1>6

(* No action makes a pcap-ng file where there was none.                    *)
LEMMA NgNever == ng = <<>> /\ [Next]_vars => ng' = <<>>
<1> SUFFICES ASSUME ng = <<>>, [Next]_vars PROVE ng' = <<>>
    OBVIOUS
<1>1. CASE PcapDumpOpen BY ONLY <1>1 DEF PcapDumpOpen
<1>2. CASE PcapDump \/ PcapDumpData BY ONLY <1>2, ng = <<>> DEF PcapDump, PcapDumpData
<1>3. CASE PcapDumpFlush \/ PcapDumpClose \/ Crash
    BY ONLY <1>3, ng = <<>> DEF PcapDumpFlush, PcapDumpClose, Crash
<1>4. CASE PcapOpenOffline \/ NextPacket \/ PcapClose
    BY ONLY <1>4, ng = <<>> DEF PcapOpenOffline, NextPacket, PcapClose, Written
<1>5. CASE NgOpenOffline \/ NgEnd \/ NgOther \/ NgInterface \/ NgSection \/ NgPacket
    BY ONLY <1>5, ng = <<>> DEF NgOpenOffline, NgEnd, NgOther, NgInterface, NgSection, NgPacket,
       NgReads
<1>6. CASE UNCHANGED vars BY ONLY <1>6, ng = <<>> DEF vars
<1> QED BY ONLY <1>1, <1>2, <1>3, <1>4, <1>5, <1>6, [Next]_vars DEF Next

(* Every action keeps NgInv: the reader has given a packet for every packet*)
(* block it went past, and its table is that of the section it is in.      *)
LEMMA NgNext == SaveInv /\ NgInv /\ [Next]_vars => NgInv'
<1> SUFFICES ASSUME SaveInv, NgInv, [Next]_vars, ng # <<>>, ng' # <<>> PROVE NgInv'
    BY NgNever DEF NgInv
<1>1. /\ dumper = "none" /\ DOMAIN reader = DOMAIN Closed
      /\ reader.st = "none" => got = <<>>
    BY DEF SaveInv, NgOnly
<1>2. ng \in NgFiles BY DEF NgInv
<1> PICK m : m = reader.pos OBVIOUS
<1>3. NgAt = m + 1 BY DEF NgAt
<1>4. ASSUME reader.st = "open", m < Len(ng) PROVE m + 1 \in 1..Len(ng)
  <2>1. m \in Nat /\ Len(ng) \in Nat BY <1>4, NgOpen
  <2> QED BY ONLY <1>4, <2>1
<1>5. ASSUME reader.st = "open", UNCHANGED <<ng, got>>, NEW s \in {"eof", "error"},
             reader' = [reader EXCEPT !.st = s]
      PROVE  NgInv'
  <2>1. reader'.pos = reader.pos /\ reader'.snapshot = reader.snapshot
        /\ reader'.st \in {"eof", "error"}
      BY ONLY <1>1, <1>5 DEF Closed
  <2> QED BY <1>5, <2>1, NgStops
<1>6. ASSUME NEW t, NgReads(t)
      PROVE  /\ reader.st = "open" /\ m < Len(ng) /\ ng[m + 1].type \in t /\ ng' = ng
             /\ m + 1 \in 1..Len(ng)
    BY <1>3, <1>4, <1>6 DEF NgReads, Written
<1>7. ASSUME NEW t, NgReads(t), NgFails PROVE NgInv'
    BY <1>5, <1>6, <1>7 DEF NgFails
<1>8. ASSUME NEW t, NgReads(t), t \cap PacketTypes = {}, NEW x, NgGoesOn(x),
             \/ ng[m + 1].type = "SHB" /\ x = <<>>
             \/ ng[m + 1].type = "IDB" /\ x = Append(reader.ifaces, Interface(ng[m + 1]))
             \/ ng[m + 1].type \notin {"SHB", "IDB"} /\ x = reader.ifaces
      PROVE  NgInv'
  <2>1. reader' = [reader EXCEPT !.pos = m + 1, !.ifaces = x] /\ got' = got
      BY <1>3, <1>8 DEF NgGoesOn
  <2>2. /\ reader'.pos = m + 1 /\ reader'.ifaces = x /\ reader'.snapshot = reader.snapshot
        /\ reader'.st = reader.st
      BY ONLY <1>1, <2>1 DEF Closed
  <2>3. /\ reader.st = "open" /\ ng[m + 1].type \in t /\ ng' = ng /\ m + 1 \in 1..Len(ng)
      BY ONLY <1>6, <1>8
  <2>4. ng[m + 1].type \notin PacketTypes BY <1>8, <2>3
  <2>5. NgHasRead' BY <2>1, <2>2, <2>3, <2>4, NoPacket
  <2>6. NgKnows' BY <1>8, <2>2, <2>3, KnowsOn
  <2> QED BY <1>2, <2>3, <2>5, <2>6 DEF NgInv
<1>9. CASE NgOther
  <2>1. NgReads({"other"}) /\ NgGoesOn(reader.ifaces) BY <1>9 DEF NgOther
  <2>2. ng[m + 1].type \notin {"SHB", "IDB"} /\ {"other"} \cap PacketTypes = {}
      BY <1>6, <2>1 DEF PacketTypes
  <2> QED BY <1>8, <2>1, <2>2
<1>10. CASE NgInterface
  <2>1. NgReads({"IDB"}) /\ (NgFails \/ NgGoesOn(Append(reader.ifaces, Interface(ng[m + 1]))))
      BY <1>3, <1>10 DEF NgInterface
  <2>2. ng[m + 1].type = "IDB" /\ {"IDB"} \cap PacketTypes = {}
      BY <1>6, <2>1 DEF PacketTypes
  <2> QED BY <1>7, <1>8, <2>1, <2>2
<1>11. CASE NgSection
  <2>1. NgReads({"SHB"}) /\ (NgFails \/ NgGoesOn(<<>>)) BY <1>11 DEF NgSection
  <2>2. ng[m + 1].type = "SHB" /\ {"SHB"} \cap PacketTypes = {}
      BY <1>6, <2>1 DEF PacketTypes
  <2> QED BY <1>7, <1>8, <2>1, <2>2
<1>12. CASE NgPacket
  <2> PICK id : id = NgIface(ng[m + 1]) OBVIOUS
  <2>1. /\ NgReads(PacketTypes)
        /\ \/ NgFails
           \/ /\ ~(id >= Len(reader.ifaces)) /\ reader' = [reader EXCEPT !.pos = m + 1]
              /\ got' = Append(got, NgDecode(ng[m + 1], reader.ifaces[id + 1], reader.snapshot))
      BY <1>3, <1>12 DEF NgPacket
  <2>2. CASE NgFails BY <1>7, <2>1, <2>2
  <2>3. CASE ~NgFails
    <3>1. /\ reader'.pos = m + 1 /\ reader'.ifaces = reader.ifaces
          /\ reader'.snapshot = reader.snapshot /\ reader'.st = reader.st
        BY ONLY <1>1, <2>1, <2>3 DEF Closed
    <3>2. /\ reader.st = "open" /\ ng[m + 1].type \in PacketTypes /\ ng' = ng
          /\ m + 1 \in 1..Len(ng)
        BY ONLY <1>6, <2>1
    <3>3. NgHasRead' BY <2>1, <2>3, <3>1, <3>2, PacketGiven
    <3>4. ng[m + 1].type \notin {"SHB", "IDB"} BY <3>2 DEF PacketTypes
    <3>5. NgKnows' BY <3>1, <3>2, <3>4, KnowsOn
    <3> QED BY <1>2, <3>2, <3>3, <3>5 DEF NgInv
  <2> QED BY <2>2, <2>3
<1>13. CASE NgEnd
  <2>1. /\ reader.st = "open" /\ UNCHANGED <<ng, got>>
        /\ \E s \in {"eof", "error"} : reader' = [reader EXCEPT !.st = s]
      BY <1>13 DEF NgEnd, Written
  <2> QED BY <1>5, <2>1
<1>14. CASE NgOpenOffline
  <2>1. got = <<>> BY <1>1, <1>14 DEF NgOpenOffline
  <2> QED BY <1>14, <2>1, NgOpenStep
<1>15. CASE PcapClose
  <2>1. reader'.st = "none" /\ ng' = ng BY <1>15 DEF PcapClose, Closed, Written
  <2> QED BY <1>2, <2>1 DEF NgInv
<1>16. CASE UNCHANGED vars
  <2>1. /\ UNCHANGED <<ng, got>> /\ reader' = reader BY <1>16 DEF vars
  <2>2. ASSUME reader.st \in {"open", "eof", "error"} PROVE NgHasRead'
    <3>1. PICK at \in 1..Len(ng) :
             /\ at = reader.pos
             /\ (\E T : got \in Seq(T)) /\ Len(got) = Cardinality(PacketsTo(at))
             /\ \A i \in PacketsTo(at) : Faithful(i)
        BY <2>2 DEF NgInv, NgHasRead
    <3>2. PacketsTo(at)' = PacketsTo(at) BY <2>1, SameBlocks
    <3>3. ASSUME NEW i \in PacketsTo(at) PROVE Faithful(i)' BY <2>1, <3>1, FaithfulStays
    <3>4. /\ at \in 1..Len(ng') /\ at = reader'.pos
          /\ (\E T : got' \in Seq(T)) /\ Len(got') = Cardinality(PacketsTo(at)')
        BY <2>1, <3>1, <3>2
    <3>5. \A i \in PacketsTo(at)' : Faithful(i)' BY <3>2, <3>3
    <3> QED BY ONLY <3>4, <3>5 DEF NgHasRead
  <2>3. ASSUME reader.st = "open" PROVE NgKnows'
    <3>1. NgKnows BY <2>3 DEF NgInv
    <3>2. PICK at \in 1..Len(ng) :
             /\ at = reader.pos
             /\ (\E T : reader.ifaces \in Seq(T)) /\ Len(reader.ifaces) = Cardinality(Before(at))
             /\ \A n \in 1..Len(reader.ifaces) : \E d \in Before(at) :
                   /\ Cardinality({j \in Before(at) : j < d}) = n - 1
                   /\ reader.ifaces[n] = Interface(ng[d])
        BY ONLY <3>1 DEF NgKnows
    <3>3. Before(at)' = Before(at) BY <2>1, SameBlocks
    <3>4. /\ (\E T : reader'.ifaces \in Seq(T))
          /\ Len(reader'.ifaces) = Cardinality(Before(at)')
          /\ \A n \in 1..Len(reader'.ifaces) : \E d \in Before(at)' :
                /\ Cardinality({j \in Before(at)' : j < d}) = n - 1
                /\ reader'.ifaces[n] = Interface(ng'[d])
      <4>1. reader'.ifaces = reader.ifaces /\ ng' = ng BY ONLY <2>1
      <4>2. /\ \E T : reader'.ifaces \in Seq(T)
            /\ Len(reader'.ifaces) = Cardinality(Before(at)')
          BY ONLY <3>2, <3>3, <4>1
      <4>3. ASSUME NEW n \in 1..Len(reader'.ifaces)
            PROVE  \E d \in Before(at)' :
                      /\ Cardinality({j \in Before(at)' : j < d}) = n - 1
                      /\ reader'.ifaces[n] = Interface(ng'[d])
        <5>1. n \in 1..Len(reader.ifaces) BY ONLY <4>1, <4>3
        <5>2. PICK d \in Before(at) : /\ Cardinality({j \in Before(at) : j < d}) = n - 1
                                      /\ reader.ifaces[n] = Interface(ng[d])
            BY ONLY <3>2, <5>1
        <5>3. {j \in Before(at)' : j < d} = {j \in Before(at) : j < d} BY ONLY <3>3
        <5>4. Cardinality({j \in Before(at)' : j < d}) = n - 1 /\ d \in Before(at)'
            BY ONLY <3>3, <5>2, <5>3
        <5>5. reader'.ifaces[n] = Interface(ng'[d]) BY ONLY <4>1, <5>2
        <5> QED BY ONLY <5>4, <5>5
      <4> QED BY ONLY <4>2, <4>3
    <3>5. ng'[1].type = "SHB" /\ at \in 1..Len(ng') /\ at = reader'.pos
        BY <2>1, <3>1, <3>2 DEF NgKnows
    <3> QED BY ONLY <3>4, <3>5 DEF NgKnows
  <2> QED BY <1>2, <2>1, <2>2, <2>3 DEF NgInv
<1>17. CASE PcapDumpOpen BY <1>17 DEF PcapDumpOpen
<1>18. CASE PcapDump BY <1>1, <1>18 DEF PcapDump
<1>19. CASE PcapDumpData BY <1>1, <1>19 DEF PcapDumpData
<1>20. CASE PcapDumpFlush BY <1>1, <1>20 DEF PcapDumpFlush
<1>21. CASE PcapDumpClose BY <1>1, <1>21 DEF PcapDumpClose
<1>22. CASE Crash BY <1>1, <1>22 DEF Crash
<1>23. CASE PcapOpenOffline BY <1>23 DEF PcapOpenOffline
<1>24. CASE NextPacket BY <1>24 DEF NextPacket
<1> QED BY <1>9, <1>10, <1>11, <1>12, <1>13, <1>14, <1>15, <1>16, <1>17, <1>18, <1>19, <1>20,
           <1>21, <1>22, <1>23, <1>24 DEF Next

(* NgFaithful (pcap_ng_next_packet, sf-pcap-ng.c): for every set of pcap-ng*)
(* files, a reader is given each packet of the blocks it went past, in     *)
(* order, with the stamp and the length that the interface described in its*)
(* own section says.                                                       *)
THEOREM NgIsRead == Spec => []NgFaithful
<1>1. Init => NgInv
  <2>1. Init => reader.st = "none" BY DEF Init, Closed
  <2>2. Init => ng = <<>> \/ ng \in NgFiles BY DEF Init
  <2> QED BY <2>1, <2>2 DEF NgInv
<1>2. SaveInv /\ NgInv /\ [Next]_vars => NgInv' BY NgNext
<1>3. NgInv => NgFaithful
  <2> SUFFICES ASSUME NgInv, ng # <<>>, reader.st \in {"open", "eof", "error"}
               PROVE  /\ Len(got) = Cardinality(PacketsTo(reader.pos))
                      /\ \A i \in PacketsTo(reader.pos) : Faithful(i)
      BY DEF NgFaithful, Faithful
  <2> QED BY DEF NgInv, NgHasRead
<1> QED BY <1>1, <1>2, <1>3, SavedIsRead, PTL DEF Spec
=============================================================================
