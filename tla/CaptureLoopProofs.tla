-------------------------- MODULE CaptureLoopProofs --------------------------
(***************************************************************************)
(* Proofs about CaptureLoop and DeviceReaders, for any readers, timeouts,  *)
(* counts and sizes of blocks, and any number of packets, calls and        *)
(* breaks: the types, and what PcapLoop and PcapDispatch do with packets,  *)
(* with breaks and with cnt.  All are of AllSpec, the specification of     *)
(* every reader.                                                           *)
(***************************************************************************)
EXTENDS DeviceReaders, FiniteSets, FunctionTheorems, FiniteSetTheorems, SequenceTheorems, TLAPS

-----------------------------------------------------------------------------
(* What SumFunction of the module Functions is for a sequence of natural     *)
(* numbers, and how it changes with the sequence: the packets that wait in a *)
(* ring of blocks.  SumFunction is a recursive function over the subsets of  *)
(* the domain.  It is shown to count pairs <<i, 1>>, ..., <<i, f[i]>>, one   *)
(* set for every i; the rest is about cardinalities.                         *)

(* f[i] pairs for every i of S, for a function with values in 0..M. *)
Pairs(f, S, M) == {p \in S \X (1..M) : p[2] <= f[p[1]]}

(* They are finitely many. *)
LEMMA PairsFinite ==
  ASSUME NEW S, IsFiniteSet(S), NEW M \in Nat, NEW f
  PROVE  IsFiniteSet(Pairs(f, S, M)) /\ Cardinality(Pairs(f, S, M)) \in Nat
<1>1. IsFiniteSet(1..M) BY FS_Interval
<1>2. IsFiniteSet(S \X (1..M)) BY <1>1, FS_Product
<1>3. Pairs(f, S, M) \in SUBSET (S \X (1..M)) BY DEF Pairs
<1>4. IsFiniteSet(Pairs(f, S, M)) BY <1>2, <1>3, FS_Subset
<1> QED BY <1>4, FS_CardinalityType

(* The first n numbers. *)
LEMMA Numbers ==
  ASSUME NEW n \in Nat
  PROVE  IsFiniteSet(1..n) /\ Cardinality(1..n) = n
<1>1. 1 \in Int /\ n \in Int OBVIOUS
<1>2. /\ IsFiniteSet(1..n)
      /\ Cardinality(1..n) = IF 1 > n THEN 0 ELSE n - 1 + 1
  BY <1>1, FS_Interval
<1> QED BY <1>2

(* One element's pairs. *)
LEMMA PairsOne ==
  ASSUME NEW i, NEW M \in Nat, NEW f, f[i] \in 0..M
  PROVE  Cardinality(Pairs(f, {i}, M)) = f[i]
<1> DEFINE n == f[i]
<1>1. IsFiniteSet({i}) /\ Cardinality({i}) = 1 BY FS_Singleton
<1>n. n \in Nat OBVIOUS
<1> HIDE DEF n
<1>2. IsFiniteSet(1..n) /\ Cardinality(1..n) = n BY <1>n, Numbers
<1>3. Cardinality({i} \X (1..n)) = Cardinality({i}) * Cardinality(1..n)
  BY <1>1, <1>2, FS_Product
<1>4. Cardinality({i} \X (1..n)) = n
  BY <1>n, <1>1, <1>2, <1>3
<1>5. Pairs(f, {i}, M) = {i} \X (1..n)
  BY DEF Pairs, n
<1> QED BY <1>4, <1>5 DEF n

(* The pairs of one more element are added. *)
LEMMA PairsAdd ==
  ASSUME NEW S, IsFiniteSet(S), NEW M \in Nat, NEW f, NEW x, x \notin S, f[x] \in 0..M
  PROVE  Cardinality(Pairs(f, S \cup {x}, M)) = Cardinality(Pairs(f, S, M)) + f[x]
<1> DEFINE A == Pairs(f, S, M)
           B == Pairs(f, {x}, M)
<1>1. IsFiniteSet(A) /\ Cardinality(A) \in Nat BY PairsFinite
<1>2. IsFiniteSet({x}) BY FS_Singleton
<1>3. IsFiniteSet(B) /\ Cardinality(B) = f[x] BY <1>2, PairsFinite, PairsOne
<1>4. A \cap B = {} BY DEF Pairs
<1>5. Cardinality(A \cap B) = 0 BY <1>4, FS_EmptySet
<1>6. Pairs(f, S \cup {x}, M) = A \cup B BY DEF Pairs
<1>7. Cardinality(A \cup B) = Cardinality(A) + Cardinality(B) - Cardinality(A \cap B)
  BY <1>1, <1>3, FS_Union
<1> HIDE DEF A, B
<1>8. Cardinality(A \cup B) = Cardinality(A) + f[x] BY <1>1, <1>3, <1>5, <1>7
<1> QED BY <1>6, <1>8 DEF A
(* SumFunction counts the pairs: the recursive function exists because
   counting satisfies its equation, and a smallest set on which the two differ
   cannot exist. *)
LEMMA SumIsCardinality ==
  ASSUME NEW D, IsFiniteSet(D), NEW M \in Nat, NEW f \in [D -> 0..M]
  PROVE  SumFunction(f) = Cardinality(Pairs(f, D, M))
<1> DEFINE pick(s) == CHOOSE x \in s : TRUE
           Sums(g) == g = [s \in SUBSET D |-> IF s = {} THEN 0 ELSE f[pick(s)] + g[s \ {pick(s)}]]
           iter == CHOOSE g : Sums(g)
           count == [s \in SUBSET D |-> Cardinality(Pairs(f, s, M))]
<1>1. SumFunction(f) = iter[D]
  BY DEF SumFunction, SumFunctionOnSet, FoldFunctionOnSet, MapThenFoldSet
<1>2. Sums(count)
  <2>1. ASSUME NEW s \in SUBSET D
        PROVE  count[s] = IF s = {} THEN 0 ELSE f[pick(s)] + count[s \ {pick(s)}]
    <3>1. CASE s = {}
      <4>1. Pairs(f, s, M) = {} BY <3>1 DEF Pairs
      <4> QED BY <3>1, <4>1, FS_EmptySet
    <3>2. CASE s # {}
      <4> DEFINE x == pick(s)
                 r == s \ {x}
      <4>1. x \in s BY <3>2
      <4> HIDE DEF x
      <4>2. IsFiniteSet(r) BY FS_Subset
      <4>3. x \notin r /\ f[x] \in 0..M BY <4>1
      <4>4. s = r \cup {x} /\ r \in SUBSET D BY <4>1
      <4> HIDE DEF r
      <4>5. Cardinality(Pairs(f, r \cup {x}, M)) = Cardinality(Pairs(f, r, M)) + f[x]
        BY <4>2, <4>3, PairsAdd
      <4>6. Cardinality(Pairs(f, r, M)) \in Nat BY <4>2, PairsFinite
      <4>7. count[s] = f[x] + count[r] BY <4>3, <4>4, <4>5, <4>6
      <4> QED BY <3>2, <4>7 DEF r, x
    <3> QED BY <3>1, <3>2
  <2> QED BY <2>1
<1>3. Sums(iter)
  BY <1>2
<1> HIDE DEF iter
<1>4. iter[D] = count[D]
  <2> DEFINE Bad == {s \in SUBSET D : iter[s] # count[s]}
             R == StrictSubsetOrdering(D)
  <2> SUFFICES ASSUME Bad # {} PROVE FALSE
    OBVIOUS
  <2>1. IsWellFoundedOn(R, SUBSET D)
    BY FS_StrictSubsetOrderingWellFounded, FS_FiniteSubsetsOfFinite
  <2>2. Bad \subseteq SUBSET D OBVIOUS
  <2> HIDE DEF Bad, R
  <2>3. PICK s \in Bad : \A r \in Bad : <<r, s>> \notin R
    BY <2>1, <2>2, WFMin
  <2>4. s \in SUBSET D /\ iter[s] # count[s] BY <2>3 DEF Bad
  <2> DEFINE x == pick(s)
             r == s \ {x}
  <2>5. s # {} BY <1>2, <1>3, <2>4
  <2>6. x \in s BY <2>5
  <2> HIDE DEF x
  <2>7. <<r, s>> \in R BY <2>4, <2>6 DEF R, StrictSubsetOrdering
  <2>8. iter[r] = count[r] BY <2>3, <2>4, <2>7 DEF Bad
  <2> HIDE DEF count
  <2>9. iter[s] = f[x] + iter[r] BY <1>3, <2>4, <2>5 DEF x
  <2>10. count[s] = f[x] + count[r] BY <1>2, <2>4, <2>5 DEF x
  <2> QED BY <2>4, <2>8, <2>9, <2>10
<1> QED BY <1>1, <1>4
-----------------------------------------------------------------------------
(* Sequences. *)

(* The sum of a sequence is a natural number. *)
LEMMA SumOfSeq ==
  ASSUME NEW M \in Nat, NEW s \in Seq(0..M)
  PROVE  /\ SumFunction(s) = Cardinality(Pairs(s, 1..Len(s), M))
         /\ SumFunction(s) \in Nat
<1>1. s \in [1..Len(s) -> 0..M] /\ Len(s) \in Nat BY LenProperties
<1>2. IsFiniteSet(1..Len(s)) BY <1>1, FS_Interval
<1>3. SumFunction(s) = Cardinality(Pairs(s, 1..Len(s), M)) BY <1>1, <1>2, SumIsCardinality
<1> QED BY <1>2, <1>3, PairsFinite

(* The pairs of the second sequence are moved behind those of the first. *)
LEMMA SumConcat ==
  ASSUME NEW M \in Nat, NEW s \in Seq(0..M), NEW t \in Seq(0..M)
  PROVE  SumFunction(s \o t) = SumFunction(s) + SumFunction(t)
<1> DEFINE m == Len(s)
           n == Len(t)
           A == Pairs(s, 1..m, M)
           B == Pairs(t, 1..n, M)
           C == {p \in ((m + 1)..(m + n)) \X (1..M) : p[2] <= t[p[1] - m]}
           f == [p \in B |-> <<p[1] + m, p[2]>>]
<1>1. /\ m \in Nat /\ n \in Nat
      /\ s \in [1..m -> 0..M] /\ t \in [1..n -> 0..M]
  BY LenProperties
<1>2. /\ s \o t \in Seq(0..M) /\ Len(s \o t) = m + n
      /\ \A i \in 1..(m + n) : (s \o t)[i] = IF i <= m THEN s[i] ELSE t[i - m]
  BY ConcatProperties
<1> HIDE DEF m, n
<1>3. f \in Bijection(B, C)
  <2>1. ASSUME NEW p \in B PROVE f[p] \in C
    <3>1. /\ p[1] \in 1..n /\ p[2] \in 1..M /\ p[2] <= t[p[1]]
          /\ p = <<p[1], p[2]>>
      BY DEF Pairs
    <3>2. p[1] + m \in (m + 1)..(m + n) /\ (p[1] + m) - m = p[1] BY <1>1, <3>1
    <3> QED BY <3>1, <3>2
  <2>2. ASSUME NEW p \in B, NEW q \in B, f[p] = f[q] PROVE p = q
    <3>1. p[1] + m = q[1] + m /\ p[2] = q[2] BY <2>2
    <3>2. /\ p[1] \in 1..n /\ q[1] \in 1..n
          /\ p = <<p[1], p[2]>> /\ q = <<q[1], q[2]>>
      BY DEF Pairs
    <3>3. p[1] = q[1] BY <1>1, <3>1, <3>2
    <3> QED BY <3>1, <3>2, <3>3
  <2>3. ASSUME NEW q \in C PROVE \E p \in B : f[p] = q
    <3>1. /\ q[1] \in (m + 1)..(m + n) /\ q[2] \in 1..M /\ q[2] <= t[q[1] - m]
          /\ q = <<q[1], q[2]>>
      OBVIOUS
    <3>2. <<q[1] - m, q[2]>> \in B BY <1>1, <3>1 DEF Pairs
    <3>3. (q[1] - m) + m = q[1] BY <1>1, <3>1
    <3>4. f[<<q[1] - m, q[2]>>] = q BY <3>1, <3>2, <3>3
    <3> QED BY <3>2, <3>4
  <2>4. f \in [B -> C] BY <2>1
  <2> HIDE DEF f, B, C
  <2> QED BY <2>2, <2>3, <2>4, Fun_IsBij
<1>4. Pairs(s \o t, 1..(m + n), M) = A \cup C
  <2> DEFINE r == s \o t
  <2>1. \A i \in 1..m : i \in 1..(m + n) /\ r[i] = s[i] BY <1>1, <1>2
  <2>2. \A i \in (m + 1)..(m + n) : i \in 1..(m + n) /\ r[i] = t[i - m] BY <1>1, <1>2
  <2>3. \A i \in 1..(m + n) : i \in 1..m \/ i \in (m + 1)..(m + n) BY <1>1
  <2> HIDE DEF r
  <2>4. Pairs(r, 1..(m + n), M) = A \cup C
    BY <2>1, <2>2, <2>3 DEF Pairs
  <2> QED BY <2>4 DEF r
<1>5. A \cap C = {} BY <1>1 DEF Pairs
<1>6. IsFiniteSet(A) /\ IsFiniteSet(B) /\ Cardinality(A) \in Nat /\ Cardinality(B) \in Nat
  <2>1. IsFiniteSet(1..m) /\ IsFiniteSet(1..n) BY <1>1, Numbers
  <2> QED BY <2>1, PairsFinite
<1> HIDE DEF f, A, B, C
<1>7. ExistsBijection(B, C) BY <1>3 DEF ExistsBijection
<1>8. IsFiniteSet(C) /\ Cardinality(C) = Cardinality(B) BY <1>6, <1>7, FS_Bijection
<1>9. Cardinality(A \cap C) = 0 BY <1>5, FS_EmptySet
<1>10. Cardinality(A \cup C) = Cardinality(A) + Cardinality(C) - Cardinality(A \cap C)
  BY <1>6, <1>8, FS_Union
<1>11. Cardinality(A \cup C) = Cardinality(A) + Cardinality(B) BY <1>6, <1>8, <1>9, <1>10
<1> QED BY <1>2, <1>4, <1>11, SumOfSeq DEF A, B, m, n

(* Nothing waits in an empty ring. *)
LEMMA SumOfNone == SumFunction(<<>>) = 0
<1>1. <<>> \in Seq(0..0) BY EmptySeq
<1>2. SumFunction(<<>>) = Cardinality(Pairs(<<>>, 1..Len(<<>>), 0)) BY <1>1, SumOfSeq
<1>3. Pairs(<<>>, 1..Len(<<>>), 0) = {} BY DEF Pairs
<1> QED BY <1>2, <1>3, FS_EmptySet

(* One block. *)
LEMMA SumOfOne ==
  ASSUME NEW k \in Nat
  PROVE  SumFunction(<<k>>) = k
<1>1. <<k>> \in Seq(0..k) /\ Len(<<k>>) = 1 OBVIOUS
<1>2. SumFunction(<<k>>) = Cardinality(Pairs(<<k>>, 1..1, k)) BY <1>1, SumOfSeq
<1>3. 1..1 = {1} OBVIOUS
<1>4. Cardinality(Pairs(<<k>>, {1}, k)) = k BY PairsOne
<1> QED BY <1>2, <1>3, <1>4

(* A block comes. *)
LEMMA SumAppend ==
  ASSUME NEW M \in Nat, NEW s \in Seq(0..M), NEW k \in 0..M
  PROVE  SumFunction(Append(s, k)) = SumFunction(s) + k
<1>1. <<k>> \in Seq(0..M) /\ Append(s, k) = s \o <<k>> OBVIOUS
<1>2. SumFunction(s \o <<k>>) = SumFunction(s) + SumFunction(<<k>>) BY <1>1, SumConcat
<1> QED BY <1>1, <1>2, SumOfOne

(* The first block goes. *)
LEMMA SumTail ==
  ASSUME NEW M \in Nat, NEW s \in Seq(0..M), s # <<>>
  PROVE  SumFunction(s) = Head(s) + SumFunction(Tail(s))
<1>1. /\ <<Head(s)>> \in Seq(0..M) /\ Tail(s) \in Seq(0..M) /\ Head(s) \in Nat
      /\ s = <<Head(s)>> \o Tail(s)
  OBVIOUS
<1>2. SumFunction(<<Head(s)>> \o Tail(s)) = SumFunction(<<Head(s)>>) + SumFunction(Tail(s))
  BY <1>1, SumConcat
<1> QED BY <1>1, <1>2, SumOfOne

(* The first block changes. *)
LEMMA SumExceptFirst ==
  ASSUME NEW M \in Nat, NEW s \in Seq(0..M), s # <<>>, NEW v \in 0..M
  PROVE  SumFunction([s EXCEPT ![1] = v]) = SumFunction(s) - Head(s) + v
<1> DEFINE r == [s EXCEPT ![1] = v]
<1>1. r \in Seq(0..M) /\ r # <<>> /\ Head(r) = v /\ Tail(r) = Tail(s) OBVIOUS
<1>2. /\ SumFunction(s) = Head(s) + SumFunction(Tail(s))
      /\ SumFunction(r) = v + SumFunction(Tail(s))
  BY <1>1, SumTail
<1>3. Head(s) \in Nat /\ Tail(s) \in Seq(0..M) OBVIOUS
<1>4. SumFunction(Tail(s)) \in Nat BY <1>3, SumOfSeq
<1> QED BY <1>2, <1>3, <1>4

(* Blocks of one packet. *)
LEMMA SumOfOnes ==
  ASSUME NEW n \in Nat
  PROVE  SumFunction([i \in 1..n |-> 1]) = n
<1> DEFINE s == [i \in 1..n |-> 1]
<1>1. s \in Seq(0..1) /\ Len(s) = n OBVIOUS
<1>2. SumFunction(s) = Cardinality(Pairs(s, 1..n, 1)) BY <1>1, SumOfSeq
<1>3. Pairs(s, 1..n, 1) = (1..n) \X (1..1) BY DEF Pairs
<1>4. /\ IsFiniteSet(1..n) /\ IsFiniteSet(1..1)
      /\ Cardinality(1..n) = n /\ Cardinality(1..1) = 1
  BY Numbers
<1>5. Cardinality((1..n) \X (1..1)) = Cardinality(1..n) * Cardinality(1..1)
  BY <1>4, FS_Product
<1>6. Cardinality((1..n) \X (1..1)) = n BY <1>4, <1>5
<1> QED BY <1>2, <1>3, <1>6

-----------------------------------------------------------------------------
(* Type correctness, with what each reader has in hand. *)

(* Readers that hand over several packets between two looks at the flag. *)
Several == {"v3", "netfilter", "usb_mmap"}

AtPacket == pc \in {"packet", "callback", "after"}

(* Each reader keeps to its own program points. *)
PlaceInv ==
  /\ pc \in {"poll", "frames"} => read_op \in Rings
  /\ pc = "check" => read_op = "offline"
  /\ pc \in {"recv", "chunk"} => read_op \notin Rings \cup {"offline"}
  /\ pc = "chunk" => read_op \in Buffered \cup Queues

(* What a reader has in hand is there: in the first block of the ring or in
   the handle's buffer. *)
HandInv ==
  /\ toRead <= MaxBlock /\ (read_op \notin Several \cup Buffered => toRead <= 1)
  /\ AtPacket /\ read_op # "offline" => toRead > 0
  /\ read_op \in Rings \cup {"offline"} =>
       /\ ring = <<>> => taken = 0 /\ ~AtPacket
       /\ ring # <<>> => taken + Head(ring) <= BlockSize /\ (AtPacket => toRead <= Head(ring))
  /\ read_op = "usb_mmap" /\ AtPacket => toRead <= Len(ring) /\ taken + toRead <= MaxBlock
  /\ read_op \notin Rings \cup {"offline", "usb_mmap"} => taken = 0
  /\ read_op \notin Buffered \/ pc = "recv" => cc = 0
  /\ cc > 0 /\ (AtPacket \/ pc = "chunk") => toRead <= cc

TypeInv == TypeOK /\ PlaceInv /\ HandInv

(* The blocks after each thing that a reader does to them. *)
RingOK ==
  /\ Chunk \in 1..MaxBlock /\ BlockSize \in 1..MaxBlock
  /\ read_op \in Rings \cup {"offline"} => Chunk = BlockSize
  /\ read_op \in Buffered => Chunk = MaxBlock
  /\ read_op \in (Receivers \ {"netfilter"}) \cup Queues => Chunk = 1
  /\ read_op \in {"netfilter", "usb_mmap"} => BlockSize = MaxBlock
  /\ UNCHANGED config => Chunk' = Chunk /\ BlockSize' = BlockSize
  /\ ring \in Seq(0..MaxBlock) /\ ring \in Seq(1..Chunk) /\ Len(ring) \in Nat
  /\ <<>> \in Seq(1..Chunk)
  /\ \A k \in 1..Chunk :
       /\ Append(ring, k) \in Seq(1..Chunk) /\ Append(ring, k) # <<>>
       /\ Len(Append(ring, k)) = Len(ring) + 1
       /\ Head(Append(ring, k)) = IF ring = <<>> THEN k ELSE Head(ring)
  /\ ring # <<>> =>
       /\ Head(ring) \in 1..Chunk
       /\ Len(ring) > 0
       /\ Tail(ring) \in Seq(1..Chunk) /\ Len(Tail(ring)) = Len(ring) - 1
       /\ Tail(ring) # <<>> => Head(Tail(ring)) \in 1..Chunk
       /\ PacketRead \in Seq(1..Chunk)
       /\ Head(ring) > 1 => /\ PacketRead # <<>>
                            /\ Head(PacketRead) = Head(ring) - 1
                            /\ Len(PacketRead) = Len(ring)
       /\ Head(ring) = 1 => PacketRead = Tail(ring)
       /\ \A v \in 1..Chunk : /\ [ring EXCEPT ![1] = v] \in Seq(1..Chunk)
                              /\ [ring EXCEPT ![1] = v] # <<>>
                              /\ Head([ring EXCEPT ![1] = v]) = v
       /\ [ring EXCEPT ![1] = @ + taken] = [ring EXCEPT ![1] = Head(ring) + taken]

(* A ring of the type of TypeOK has these properties. *)
LEMMA RingFacts == TypeOK => RingOK
<1> SUFFICES ASSUME TypeOK PROVE RingOK
  OBVIOUS
<1> USE CaptureAssumption DEF CaptureAssumption
<1>1. Chunk \in 1..MaxBlock /\ BlockSize \in 1..MaxBlock BY DEF Chunk, BlockSize
<1>2. ring \in Seq(1..Chunk) BY DEF TypeOK
<1> DEFINE C == Chunk
<1>3. C \in 1..MaxBlock /\ ring \in Seq(1..C) BY <1>1, <1>2
<1> HIDE DEF C
<1>4. ring \in Seq(0..MaxBlock) /\ Len(ring) \in Nat BY <1>3
<1>5. <<>> \in Seq(1..C) OBVIOUS
<1>6. \A k \in 1..C : /\ Append(ring, k) \in Seq(1..C) /\ Append(ring, k) # <<>>
                      /\ Len(Append(ring, k)) = Len(ring) + 1
                      /\ Head(Append(ring, k)) = IF ring = <<>> THEN k ELSE Head(ring)
  <2>1. ASSUME NEW k \in 1..C
        PROVE  /\ Append(ring, k) \in Seq(1..C) /\ Append(ring, k) # <<>>
               /\ Len(Append(ring, k)) = Len(ring) + 1
    BY <1>3, <2>1, SMTT(20)
  <2>2. ASSUME NEW k \in 1..C, ring = <<>> PROVE Head(Append(ring, k)) = k
    BY <2>2
  <2>3. ASSUME NEW k \in 1..C, ring # <<>> PROVE Head(Append(ring, k)) = Head(ring)
    BY <1>3, <2>3
  <2> QED BY <2>1, <2>2, <2>3
<1>c. UNCHANGED config => Chunk' = Chunk /\ BlockSize' = BlockSize
  BY DEF config, Chunk, BlockSize
<1>r. /\ read_op \in Rings \cup {"offline"} => Chunk = BlockSize
      /\ read_op \in Buffered => Chunk = MaxBlock
      /\ read_op \in (Receivers \ {"netfilter"}) \cup Queues => Chunk = 1
      /\ read_op \in {"netfilter", "usb_mmap"} => BlockSize = MaxBlock
  BY DEF Chunk, BlockSize, Rings, Buffered, Receivers, Queues
<1>7. ASSUME ring # <<>>
      PROVE  /\ Head(ring) \in 1..C /\ Tail(ring) \in Seq(1..C)
             /\ Len(ring) > 0 /\ Len(Tail(ring)) = Len(ring) - 1
             /\ Tail(ring) # <<>> => Head(Tail(ring)) \in 1..C
  BY <1>3, <1>7
<1>v. ASSUME ring # <<>>, NEW v \in 1..C
      PROVE  /\ [ring EXCEPT ![1] = v] \in Seq(1..C) /\ [ring EXCEPT ![1] = v] # <<>>
             /\ Head([ring EXCEPT ![1] = v]) = v
  BY <1>3, <1>v
<1>w. ring # <<>> => [ring EXCEPT ![1] = @ + taken] = [ring EXCEPT ![1] = Head(ring) + taken]
  BY <1>3
<1>8. ASSUME ring # <<>>, Head(ring) > 1
      PROVE  /\ PacketRead # <<>> /\ PacketRead \in Seq(1..C)
             /\ Head(PacketRead) = Head(ring) - 1
             /\ Len(PacketRead) = Len(ring)
  <2> DEFINE v == Head(ring) - 1
             r == [ring EXCEPT ![1] = v]
  <2>1. v \in 1..C BY <1>3, <1>7, <1>8
  <2>2. PacketRead = r BY <1>3, <1>7, <1>8 DEF PacketRead
  <2> HIDE DEF v
  <2>3. r \in Seq(1..C) /\ Len(r) = Len(ring) /\ r # <<>> /\ Head(r) = v BY <1>3, <1>8, <2>1
  <2> QED BY <2>2, <2>3 DEF v
<1>9. ring # <<>> /\ Head(ring) = 1 => PacketRead = Tail(ring) BY DEF PacketRead
<1>10. ring # <<>> => PacketRead \in Seq(1..C)
  <2>1. ring # <<>> => Head(ring) = 1 \/ Head(ring) > 1 BY <1>3, <1>7
  <2> QED BY <1>7, <1>8, <1>9, <2>1
<1> QED
  BY <1>1, <1>3, <1>4, <1>5, <1>6, <1>7, <1>c, <1>r, <1>v, <1>w, <1>8, <1>9, <1>10 DEF C,
     RingOK

(* Every handle starts with nothing in hand. *)
LEMMA TypeInvInit == Init => TypeInv
<1> SUFFICES ASSUME Init PROVE TypeInv
  OBVIOUS
<1>0. MaxBlock \in Nat \ {0} /\ MaxArrivals \in Nat BY CaptureAssumption
<1>1. <<read_op, timeout>> \in Configs
  <2>1. PICK c \in Configs : read_op = c[1] /\ timeout = c[2] BY DEF Init
  <2>2. c = <<c[1], c[2]>> BY CaptureAssumption
  <2> QED BY <2>1, <2>2
<1>2. /\ ring \in Seq(1..1) /\ Len(ring) \in Nat
      /\ ring # <<>> => read_op = "offline" /\ Head(ring) = 1
  <2>1. CASE read_op = "offline"
    <3>1. PICK n \in 0..MaxArrivals : ring = [i \in 1..n |-> 1] BY <2>1 DEF Init
    <3> QED BY <1>0, <2>1, <3>1
  <2>2. CASE read_op # "offline" BY <2>2 DEF Init
  <2> QED BY <2>1, <2>2
<1>3. Chunk \in 1..MaxBlock /\ BlockSize \in 1..MaxBlock BY <1>0 DEF Chunk, BlockSize
<1>4. ring \in Seq(1..Chunk) BY <1>2, <1>3
<1>5. TypeOK
  <2>1. /\ pc = "idle" /\ break_loop = FALSE /\ taken = 0 /\ kind = "loop" /\ want = 0 /\ cnt = 0
        /\ pkts = 0 /\ toRead = 0 /\ seen = 0 /\ ret = 0 /\ arrived = Len(ring) /\ handled = 0
        /\ again = 0 /\ calls = 0 /\ breaks = 0 /\ broken = 0 /\ late = 0 /\ cc = 0 /\ lost = 0
        /\ spoilt = 0
    BY DEF Init
  <2>3. taken \in 0..BlockSize /\ cc \in 0..Chunk BY <1>0, <1>3, <2>1
  <2>4. break_loop \in BOOLEAN BY <2>1
  <2> QED BY <1>1, <1>2, <1>4, <2>1, <2>3, <2>4 DEF TypeOK
<1>6. PlaceInv BY DEF Init, PlaceInv
<1>7. HandInv BY <1>0, <1>2, <1>3 DEF Init, HandInv, AtPacket
<1> QED BY <1>5, <1>6, <1>7 DEF TypeInv

(* The types of what a call of PcapLoop or PcapDispatch keeps. *)
ReaderTypes ==
  /\ pc \in {"idle", "read", "poll", "frames", "packet", "callback", "after", "check",
            "recv", "chunk"}
  /\ kind \in {"loop", "dispatch"}
  /\ want \in Int /\ cnt \in Int /\ ret \in Int
  /\ pkts \in Nat /\ toRead \in Nat /\ seen \in Nat

FlagTypes == break_loop \in BOOLEAN /\ broken \in Nat /\ late \in Nat

FormsOK ==
  /\ PCAP_ERROR \in Int
  /\ ReaderTypes /\ FlagTypes
  /\ \A n \in Int : Finish(n) => ReaderTypes'
  /\ \A n \in Nat : EndRead(n) => ReaderTypes'
  /\ Break => ReaderTypes' /\ FlagTypes'
  /\ UNCHANGED <<break_loop, broken, late>> => FlagTypes'

(* The ways in which a step leaves a call of pcap_loop or goes on with it. *)
LEMMA FormTypes == TypeOK => FormsOK
<1> SUFFICES ASSUME TypeOK PROVE FormsOK
  OBVIOUS
<1> USE DEF TypeOK, ReaderTypes, FlagTypes
<1>0. PCAP_ERROR \in Int BY DEF PCAP_ERROR
<1>1. ReaderTypes /\ FlagTypes OBVIOUS
<1>2. ASSUME NEW n \in Int, Finish(n) PROVE ReaderTypes' BY <1>2 DEF Finish
<1>3. ASSUME NEW n \in Nat, EndRead(n) PROVE ReaderTypes'
  <2>1. CASE Finish(n) \/ Finish(0) BY <1>2, <2>1
  <2>2. CASE ~(Finish(n) \/ Finish(0)) BY <1>3, <2>2, SMTT(20) DEF EndRead
  <2> QED BY <2>1, <2>2
<1>4. ASSUME Break PROVE ReaderTypes' /\ FlagTypes'
  <2>1. ReaderTypes' BY <1>2, <1>4 DEF Break, PCAP_ERROR_BREAK
  <2>2. break_loop' = FALSE /\ late' = 0 /\ broken' = broken + 1 BY <1>4 DEF Break
  <2>3. break_loop' \in BOOLEAN BY <2>2
  <2>4. late' \in Nat /\ broken' \in Nat BY <2>2
  <2> QED BY <2>1, <2>3, <2>4
<1>5. ASSUME UNCHANGED <<break_loop, broken, late>> PROVE FlagTypes' BY <1>5
<1> QED BY <1>0, <1>1, <1>2, <1>3, <1>4, <1>5 DEF FormsOK

(* Steps of the ring readers, the savefile reader and the clients. *)
LEMMA TypeOKNext == TypeInv /\ [Next]_vars => TypeOK'
<1> SUFFICES ASSUME TypeInv, [Next]_vars PROVE TypeOK'
  OBVIOUS
<1>0. MaxBlock \in Nat \ {0} /\ Cnts \subseteq Int BY CaptureAssumption
<1>1. TypeOK BY DEF TypeInv
<1>f. RingOK BY <1>1, RingFacts
<1>c. /\ UNCHANGED config => Chunk' = Chunk /\ BlockSize' = BlockSize
      /\ Chunk \in 1..MaxBlock /\ BlockSize \in 1..MaxBlock
  BY <1>f DEF RingOK
<1> USE <1>0, <1>1, <1>c
<1>g. FormsOK BY <1>1, FormTypes
<1> USE <1>g DEF TypeInv, TypeOK, HandInv, AtPacket, Rings, FormsOK, ReaderTypes, FlagTypes,
        config, device, reader, counters
<1>2. CASE Arrive
  BY <1>f, <1>2 DEF Arrive
<1>3. CASE PcapBreakLoop
  BY <1>3 DEF PcapBreakLoop
<1>4. CASE PcapLoop \/ PcapDispatch
  <2>1. PICK k \in {"loop", "dispatch"}, c \in Cnts : Start(k, c)
    BY <1>4 DEF PcapLoop, PcapDispatch
  <2>2. c \in Int BY <1>0
  <2> QED BY <2>1, <2>2 DEF Start
<1>5. CASE ReadLive
  BY <1>5 DEF ReadLive
<1>6. CASE PollReturns
  BY <1>6 DEF PollReturns
<1>7. CASE PollInterrupted \/ PollFails
  BY <1>7 DEF PollInterrupted, PollFails
<1>8. CASE TakeFrame
  BY <1>8 DEF TakeFrame
<1>9. CASE TakeBlock
  BY <1>f, <1>9 DEF TakeBlock, Unlimited
<1>10. CASE FramesDone
  BY <1>10 DEF FramesDone
<1>11. CASE HandPacket
  BY <1>11 DEF HandPacket
<1>12. CASE FilterPacket
  BY <1>12 DEF FilterPacket
<1>13. CASE FrameCorrupt
  <2>1. ring # <<>> /\ Head(ring) + taken \in 1..Chunk /\ 0 \in 0..BlockSize
    <3>1. ring # <<>> /\ taken + Head(ring) <= BlockSize BY <1>13 DEF FrameCorrupt
    <3>2. Head(ring) \in 1..Chunk /\ Chunk = BlockSize
      BY <1>f, <1>13, <3>1 DEF RingOK, FrameCorrupt
    <3> QED BY <3>1, <3>2
  <2>2. ring' \in Seq(1..Chunk) BY <1>f, <1>13, <2>1 DEF FrameCorrupt
  <2>3. ReaderTypes' /\ FlagTypes' BY <1>13 DEF FrameCorrupt
  <2> QED BY <1>13, <2>1, <2>2, <2>3 DEF FrameCorrupt
<1>14. CASE CallbackReturns
  BY <1>14 DEF CallbackReturns
<1>15. CASE AfterLive
  <2>1. ring # <<>> /\ ring' \in Seq(1..Chunk) BY <1>f, <1>15 DEF AfterLive, RingOK
  <2>2. /\ taken' = IF Head(ring) = 1 THEN 0 ELSE taken + 1
        /\ taken + Head(ring) <= BlockSize
        /\ Head(ring) \in 1..Chunk
    BY <1>f, <1>15, <2>1 DEF AfterLive, RingOK
  <2>3. taken' \in 0..BlockSize BY <2>2
  <2>4. ReaderTypes' /\ FlagTypes'
    <3>1. CASE toRead > 1 BY <1>15, <3>1 DEF AfterLive
    <3>2. CASE ~(toRead > 1) /\ break_loop BY <1>15, <3>2 DEF AfterLive
    <3>3. CASE ~(toRead > 1) /\ ~break_loop BY <1>15, <3>3 DEF AfterLive
    <3> QED BY <3>1, <3>2, <3>3
  <2> QED BY <1>15, <2>1, <2>3, <2>4 DEF AfterLive
<1>16. CASE ReadOffline
  BY <1>16 DEF ReadOffline
<1>17. CASE NextRecord
  BY <1>17 DEF NextRecord
<1>18. CASE CheckBreak
  BY <1>18 DEF CheckBreak
<1>19. CASE EndOfFile
  BY <1>19 DEF EndOfFile
<1>20. CASE AfterOffline
  <2>1. ring # <<>> /\ ring' \in Seq(1..Chunk) BY <1>f, <1>20 DEF AfterOffline, RingOK
  <2>2. /\ taken' = IF Head(ring) = 1 THEN 0 ELSE taken + 1
        /\ taken + Head(ring) <= BlockSize
        /\ Head(ring) \in 1..Chunk
    BY <1>f, <1>20, <2>1 DEF AfterOffline
  <2>3. taken' \in 0..BlockSize BY <2>2
  <2>4. ReaderTypes' /\ FlagTypes' BY <1>20 DEF AfterOffline
  <2> QED BY <1>20, <2>1, <2>3, <2>4 DEF AfterOffline
<1>21. CASE UNCHANGED vars
  BY <1>21 DEF vars
<1> QED
  BY <1>2, <1>3, <1>4, <1>5, <1>6, <1>7, <1>8, <1>9, <1>10, <1>11, <1>12, <1>13, <1>14,
     <1>15, <1>16, <1>17, <1>18, <1>19, <1>20, <1>21 DEF Next, ReaderStep

(* Each keeps the place and what is in hand. *)
LEMMA HandNext == TypeInv /\ [Next]_vars => (PlaceInv /\ HandInv)'
<1> SUFFICES ASSUME TypeInv, [Next]_vars PROVE (PlaceInv /\ HandInv)'
  OBVIOUS
<1>0. MaxBlock \in Nat \ {0} /\ Cnts \subseteq Int BY CaptureAssumption
<1>1. TypeOK BY DEF TypeInv
<1>f. RingOK BY <1>1, RingFacts
<1>c. /\ UNCHANGED config => Chunk' = Chunk /\ BlockSize' = BlockSize
      /\ Chunk \in 1..MaxBlock /\ BlockSize \in 1..MaxBlock
  BY <1>f DEF RingOK
<1> USE <1>0, <1>1, <1>c
<1> USE DEF TypeInv, TypeOK, PlaceInv, HandInv, AtPacket, config, device, reader, counters
<1>2. CASE Arrive
  <2>1. PICK k \in 1..Chunk : ring' = Append(ring, k) BY <1>2 DEF Arrive
  <2>2. /\ ring' # <<>> /\ Len(ring') = Len(ring) + 1
        /\ Head(ring') = IF ring = <<>> THEN k ELSE Head(ring)
    BY <1>f, <2>1 DEF RingOK
  <2>3. UNCHANGED <<read_op, timeout, pc, taken, toRead, cc>> BY <1>2 DEF Arrive
  <2>4. /\ BlockSize' = BlockSize
        /\ read_op \in Rings \cup {"offline"} => Chunk = BlockSize
    BY <1>f, <2>3 DEF RingOK, config
  <2> QED BY <2>2, <2>3, <2>4
<1>3. CASE PcapBreakLoop
  BY <1>3 DEF PcapBreakLoop
<1>4. CASE PcapLoop \/ PcapDispatch
  <2>1. PICK k \in {"loop", "dispatch"}, c \in Cnts : Start(k, c)
    BY <1>4 DEF PcapLoop, PcapDispatch
  <2> QED BY <2>1 DEF Start
<1>5. CASE ReadLive
  BY <1>5 DEF ReadLive
<1>6. CASE PollReturns
  BY <1>6 DEF PollReturns, Finish, Break
<1>7. CASE PollInterrupted \/ PollFails
  BY <1>7 DEF PollInterrupted, PollFails, Finish, Break
<1>8. CASE TakeFrame
  BY <1>8 DEF TakeFrame
<1>9. CASE TakeBlock
  <2>1. /\ ring # <<>> /\ read_op = "v3"
        /\ toRead' = IF ~Unlimited(cnt) /\ Head(ring) > cnt THEN cnt ELSE Head(ring)
        /\ UNCHANGED <<read_op, timeout, cc, ring, taken>> /\ BlockSize' = BlockSize
        /\ pc' = "packet" /\ taken + Head(ring) <= BlockSize
    BY <1>9 DEF TakeBlock
  <2>2. Head(ring) \in 1..MaxBlock BY <1>f, <2>1
  <2>3. toRead' \in 1..Head(ring) BY <2>1, <2>2 DEF Unlimited
  <2>4. toRead' <= Head(ring) /\ toRead' <= MaxBlock /\ toRead' > 0 BY <2>2, <2>3
  <2>5. cc = 0 BY <2>1 DEF Buffered
  <2> QED BY <2>1, <2>4, <2>5 DEF Several, Buffered
<1>10. CASE FramesDone
  BY <1>10 DEF FramesDone, Finish, EndRead
<1>11. CASE HandPacket
  BY <1>11 DEF HandPacket
<1>12. CASE FilterPacket
  BY <1>12 DEF FilterPacket
<1>13. CASE FrameCorrupt
  BY <1>f, <1>13 DEF FrameCorrupt, Finish
<1>14. CASE CallbackReturns
  BY <1>14 DEF CallbackReturns
<1>15. CASE AfterLive
  <2>1. /\ ring # <<>> /\ ring' = PacketRead /\ toRead <= Head(ring)
        /\ taken' = IF Head(ring) = 1 THEN 0 ELSE taken + 1
        /\ UNCHANGED <<read_op, timeout, cc>> /\ cc = 0 /\ BlockSize' = BlockSize
        /\ read_op \in Rings /\ pc' \in {"packet", "frames", "idle"}
    BY <1>15 DEF AfterLive, Rings, Buffered, Break, Finish
  <2>2. IF toRead > 1 THEN toRead' = toRead - 1 ELSE toRead' = toRead /\ pc' # "packet"
    BY <1>15 DEF AfterLive, Break, Finish
  <2>3. Head(ring) \in 1..Chunk /\ Chunk = BlockSize BY <1>f, <2>1 DEF RingOK
  <2>4. ring' = <<>> => taken' = 0 /\ pc' # "packet"
    <3>1. CASE Head(ring) = 1 BY <2>1, <2>2, <3>1
    <3>2. CASE Head(ring) > 1 BY <1>f, <2>1, <3>2 DEF RingOK
    <3> QED BY <2>3, <3>1, <3>2
  <2>5. ring' # <<>> => taken' + Head(ring') <= BlockSize
    <3>1. CASE Head(ring) = 1 BY <1>f, <2>1, <2>3, <3>1, SMTT(20) DEF RingOK
    <3>2. CASE Head(ring) > 1
      <4>1. Head(ring') = Head(ring) - 1 /\ taken' = taken + 1
        BY <1>f, <2>1, <3>2, SMTT(20) DEF RingOK
      <4>2. taken + Head(ring) <= BlockSize BY <1>15, <2>1
      <4> QED BY <2>3, <4>1, <4>2
    <3> QED BY <2>3, <3>1, <3>2
  <2>6. ring' # <<>> /\ pc' = "packet" => toRead' <= Head(ring')
    <3>1. CASE Head(ring) = 1 BY <2>1, <2>2, <3>1
    <3>2. CASE Head(ring) > 1
      <4>1. Head(ring') = Head(ring) - 1 BY <1>f, <2>1, <3>2 DEF RingOK
      <4> QED BY <2>1, <2>2, <2>3, <4>1
    <3> QED BY <2>3, <3>1, <3>2
  <2>7. AtPacket' => pc' = "packet" BY <2>1
  <2> QED BY <2>1, <2>2, <2>4, <2>5, <2>6, <2>7 DEF Rings
<1>16. CASE ReadOffline
  BY <1>16 DEF ReadOffline
<1>17. CASE NextRecord
  BY <1>17 DEF NextRecord, Several, Buffered
<1>18. CASE CheckBreak
  BY <1>18 DEF CheckBreak, Finish, Break, EndRead
<1>19. CASE EndOfFile
  BY <1>19 DEF EndOfFile, Finish
<1>20. CASE AfterOffline
  <2>1. /\ ring # <<>> /\ ring' = PacketRead
        /\ taken' = IF Head(ring) = 1 THEN 0 ELSE taken + 1
        /\ UNCHANGED <<read_op, timeout, cc, toRead>> /\ BlockSize' = BlockSize
        /\ read_op = "offline" /\ pc' \in {"check", "read", "idle"}
    BY <1>20 DEF AfterOffline, EndRead, Finish
  <2>2. CASE Head(ring) = 1 BY <1>f, <2>1, <2>2, SMTT(20) DEF RingOK, Buffered
  <2>3. CASE Head(ring) > 1
    <3>1. /\ ring' # <<>> /\ Head(ring') = Head(ring) - 1 /\ taken' = taken + 1
          /\ Head(ring) \in Nat /\ Chunk = BlockSize
      BY <1>f, <2>1, <2>3, SMTT(20) DEF RingOK
    <3>2. taken + Head(ring) <= BlockSize BY <2>1
    <3>3. taken' + Head(ring') <= BlockSize BY <3>1, <3>2
    <3> QED BY <2>1, <3>1, <3>3
  <2> QED BY <1>f, <2>1, <2>2, <2>3
<1>21. CASE UNCHANGED vars
  BY <1>21 DEF vars
<1> QED
  BY <1>2, <1>3, <1>4, <1>5, <1>6, <1>7, <1>8, <1>9, <1>10, <1>11, <1>12, <1>13, <1>14,
     <1>15, <1>16, <1>17, <1>18, <1>19, <1>20, <1>21 DEF Next, ReaderStep

-----------------------------------------------------------------------------
(* The steps of the device readers. *)

DeviceFrame == UNCHANGED <<config, arrived, calls, breaks>>

(* A read begins: something is asked for, or what is left is gone on with. *)
BeginsAsking ==
  /\ pc = "read" /\ cc = 0
  /\ read_op \notin Rings \cup {"offline", "snf", "septel", "canusb"}
  /\ read_op \in {"packet", "snoop"} => ~break_loop
  /\ Enter("recv", 0) /\ Quiet /\ Keep

BeginsHolding ==
  /\ pc = "read"
  /\ \/ read_op \in Buffered /\ cc > 0 /\ Enter("chunk", cc)
     \/ read_op \in {"snf", "septel", "canusb"} /\ Enter("chunk", 0)
  /\ Quiet /\ Keep

(* A message was there before it was asked for. *)
BeginsReceiving ==
  /\ pc = "read" /\ read_op = "dbus"
  /\ ring # <<>> /\ ring' = Tail(ring)
  /\ Enter("packet", 1) /\ Quiet
  /\ UNCHANGED <<taken, cc, lost, spoilt, again, handled>>

(* From one point of the reader to another, with k packets in hand. *)
Way(l, k) ==
  \/ read_op = "netfilter" /\ pc = "after" /\ toRead > 1 /\ l = "packet" /\ k = toRead - 1
  \/ read_op \in Buffered /\ pc = "chunk" /\ toRead > 0 /\ ~break_loop /\ l = "packet" /\ k = toRead
  \/ read_op \in Buffered /\ pc = "after" /\ MorePackets /\ l = "chunk" /\ k = toRead - 1
  \/ read_op \in Buffered \cup {"packet", "snoop"} /\ pc = "recv" /\ l = "read" /\ k = 0
  \/ read_op = "npf" /\ pc = "recv" /\ l = "chunk" /\ k = 0
  \/ /\ read_op = "usb_mmap" /\ pc = "recv" /\ taken = 0 /\ ring # <<>> /\ ~break_loop
     /\ l = "packet" /\ k = IF Len(ring) < FetchLimit THEN Len(ring) ELSE FetchLimit
  \/ read_op = "snf" /\ pc = "chunk" /\ MorePackets /\ ~break_loop /\ l = "recv" /\ k = toRead
  \/ read_op = "snf" /\ pc \in {"recv", "after"} /\ l = "chunk" /\ k = 1
  \/ read_op = "septel" /\ pc = "chunk" /\ ~break_loop /\ l = "recv" /\ k = 0
  \/ read_op = "septel" /\ pc = "after" /\ pkts < cnt /\ l = "chunk" /\ k = 0
  \/ read_op = "canusb" /\ pc = "chunk" /\ pkts < cnt /\ l = "recv" /\ k = 0
  \/ read_op = "canusb" /\ pc = "after" /\ l = "chunk" /\ k = 0

GoesOn == \E l \in {"packet", "chunk", "read", "recv"}, k \in Int :
            Way(l, k) /\ Load(l, k) /\ Quiet /\ Keep

BreakSet == break_loop /\ Break

(* The read ends with nothing in hand. *)
Leaves ==
  /\ read_op \notin Rings \cup {"offline"}
  /\ \/ pc = "read" /\ BreakSet
     \/ pc = "recv" /\ (BreakSet \/ FailWith(PCAP_ERROR) \/ Give(pkts))
     \/ pc = "recv" /\ read_op \notin {"snf", "septel", "canusb"} /\ Give(0)
     \/ pc = "recv" /\ read_op = "septel" /\ Give(pkts + 1)
     \/ pc = "chunk" /\ read_op \in {"snf", "septel", "canusb"} /\ (BreakSet \/ Give(pkts))
     \/ pc = "after" /\ toRead = 1 /\ read_op \in Receivers \cup {"septel"} /\ Give(pkts)
  /\ Keep

Receives(l) ==
  /\ pc = "recv"
  /\ \/ l = "packet" /\ read_op \notin Rings \cup Buffered \cup {"offline", "usb_mmap"}
     \/ l = "chunk" /\ read_op \in Buffered
  /\ read_op \in {"usb", "usb_bin", "bt", "can", "netfilter"} => ~break_loop
  /\ Received(l)

(* A datagram that came with a break is thrown away. *)
Drops ==
  /\ pc = "recv" /\ break_loop /\ ring # <<>> /\ read_op \in Receivers
  /\ Break
  /\ ring' = Tail(ring) /\ lost' = lost + Head(ring)
  /\ UNCHANGED <<taken, cc, spoilt, again, handled>>

Spoils == read_op \in Receivers /\ Spoil

Skips == read_op \in Receivers \cup {"dag"} /\ Skip

(* The read ends, its place in the buffer saved. *)
LeavesSaving ==
  /\ read_op \in Buffered
  /\ \/ pc = "chunk" /\ Saved(toRead) /\ (BreakSet \/ FailWith(PCAP_ERROR) \/ Give(pkts))
     \/ pc = "after" /\ Saved(toRead - 1) /\ Give(pkts)

Forgets ==
  /\ pc = "chunk" /\ read_op \in Buffered
  /\ BreakSet /\ Unsaved(lost) /\ UNCHANGED spoilt

Damaged == read_op \in Buffered /\ BadHeader

(* Mapped USB events: they are given back, one is handed over, the last ones
   are given back at the end of the read, or they stay. *)
EventsGivenBack ==
  /\ read_op = "usb_mmap" /\ pc = "recv" /\ taken > 0
  /\ taken' = 0
  /\ Quiet /\ UNCHANGED <<pc, reader, ring, cc, lost, spoilt, again, handled>>

EventHandled ==
  /\ read_op = "usb_mmap" /\ pc = "after"
  /\ ring' = PacketRead /\ taken' = taken + 1
  /\ \/ toRead > 1 /\ Load("packet", toRead - 1)
     \/ toRead <= 1 /\ (Unlimited(cnt) \/ pkts = cnt) /\ Load("chunk", 0)
     \/ toRead <= 1 /\ ~(Unlimited(cnt) \/ pkts = cnt) /\ Load("recv", 0)
  /\ Quiet /\ UNCHANGED <<cc, lost, spoilt, again, handled>>

EventsDone ==
  /\ read_op = "usb_mmap" /\ pc = "chunk" /\ Give(pkts)
  /\ taken' = 0
  /\ UNCHANGED <<ring, cc, lost, spoilt, again, handled>>

(* A message that is not of SS7, and polls that found none. *)
OtherMessage ==
  /\ read_op = "septel" /\ pc = "recv" /\ ring # <<>>
  /\ Load("chunk", 0) /\ Quiet
  /\ ring' = Tail(ring) /\ handled' = handled + 1
  /\ UNCHANGED <<taken, cc, lost, spoilt, again>>

NoMessage ==
  /\ read_op = "septel" /\ pc = "recv" /\ pkts + 1 < cnt
  /\ pc' = "chunk" /\ pkts' = pkts + 1
  /\ UNCHANGED <<kind, want, cnt, toRead, seen, ret>> /\ Quiet
  /\ Keep

NewFilter == read_op \in Buffered /\ DiscardsBuffered

DeviceForm ==
  \/ BeginsAsking \/ BeginsHolding \/ BeginsReceiving \/ GoesOn \/ Leaves
  \/ (\E l \in {"packet", "chunk"} : Receives(l))
  \/ Drops \/ Spoils \/ Skips \/ LeavesSaving \/ Forgets \/ Damaged
  \/ EventsGivenBack \/ EventHandled \/ EventsDone \/ UsbFlushFails
  \/ SnfFiltered \/ OtherMessage \/ NoMessage \/ NewFilter

(* Every step of a device reader has one of these forms. *)
LEMMA DeviceForms == TypeInv /\ (DeviceStep \/ DeviceChoice) => DeviceForm /\ DeviceFrame
<1> SUFFICES ASSUME TypeInv, DeviceStep \/ DeviceChoice PROVE DeviceForm
  BY DEF DeviceStep, DeviceChoice, DeviceFrame
<1>1. /\ toRead \in Nat /\ cc \in Nat /\ MaxBlock \in Nat /\ Len(ring) \in Nat
      /\ pkts \in Nat /\ cnt \in Int /\ FetchLimit \in Int
      /\ pc \in {"recv", "chunk"} => read_op \notin Rings \cup {"offline"}
      /\ read_op \notin Buffered => cc = 0
      /\ AtPacket => toRead > 0 \/ read_op = "offline"
      /\ read_op \in Receivers \cup Queues /\ read_op \notin {"netfilter", "usb_mmap"}
           => toRead <= 1
  BY CaptureAssumption, RingFacts DEF TypeInv, TypeOK, PlaceInv, HandInv, RingOK,
     FetchLimit, Several, Receivers, Queues
<1>g. ASSUME NEW l \in {"packet", "chunk", "read", "recv"}, NEW k \in Int,
             Way(l, k), Load(l, k) /\ Quiet /\ Keep
      PROVE  GoesOn
  BY <1>g DEF GoesOn
<1> USE <1>1 DEF AtPacket
<1>s. ASSUME read_op \in Buffered, EachPacket(LeaveSaving) PROVE DeviceForm
  BY <1>g, <1>s DEF EachPacket, LeaveSaving, Way, LeavesSaving, BreakSet, DeviceForm,
     MorePackets
<1>u. ASSUME read_op \in Buffered, EachPacket(LeaveForgetting) PROVE DeviceForm
  BY <1>g, <1>u DEF EachPacket, LeaveForgetting, Way, LeavesSaving, Forgets, BreakSet,
     DeviceForm, MorePackets
<1>2. CASE pcap_read_packet \/ pcap_read_snoop
  BY <1>g, <1>s, <1>u, <1>2 DEF pcap_read_packet, pcap_read_snoop, LookThenReceive, Look,
     BeginsAsking, Leaves, BreakSet, Receives, DeviceForm, Receivers, Buffered, Rings
<1>3. CASE usb_read_linux \/ usb_read_linux_bin
  BY <1>g, <1>s, <1>u, <1>3 DEF usb_read_linux, usb_read_linux_bin, ReceiveThenLook, Look,
     BeginsAsking, Leaves, BreakSet, Receives, Drops, DeviceForm, Receivers, Buffered, Rings
<1>4. CASE bt_read_linux
  BY <1>g, <1>s, <1>u, <1>4 DEF bt_read_linux, ReceiveThenLook, Look, BeginsAsking, Leaves,
     BreakSet, Receives, Drops, Skips, DeviceForm, Receivers, Buffered, Rings
<1>5. CASE can_read_linux
  BY <1>g, <1>s, <1>u, <1>5 DEF can_read_linux, ReceiveThenLook, Look, BeginsAsking, Leaves,
     BreakSet, Receives, Drops, Spoils, DeviceForm, Receivers, Buffered, Rings
<1>6. CASE netfilter_read_linux
  BY <1>g, <1>s, <1>u, <1>6 DEF netfilter_read_linux, ReceiveThenLook, Look, BeginsAsking,
     Leaves, BreakSet, Receives, Drops, DeviceForm, Receivers, Buffered, Rings
<1>7. CASE NetfilterMessage
  BY <1>g, <1>s, <1>u, <1>7 DEF NetfilterMessage, Way, Spoils, Skips, DeviceForm, Receivers
<1>8. CASE dbus_read
  BY <1>g, <1>s, <1>u, <1>8 DEF dbus_read, BeginsAsking, BeginsReceiving, Leaves, BreakSet,
     Receives, Skips, DeviceForm, Receivers, Buffered, Rings
<1>9. CASE BpfRead
  BY <1>g, <1>s, <1>u, <1>9 DEF BpfRead, Fill, Ask, BeginsAsking, BeginsHolding, Leaves,
     BreakSet, Receives, DeviceForm, Buffered, Rings
<1>10. CASE pcap_next_zbuf
  BY <1>g, <1>s, <1>u, <1>10 DEF pcap_next_zbuf, Fill, Ask, BeginsAsking, BeginsHolding,
     Way, Leaves, BreakSet, Receives, DeviceForm, Buffered, Rings
<1>11. CASE pcap_read_bpf
  BY <1>g, <1>s, <1>u, <1>11 DEF pcap_read_bpf, Buffered
<1>12. CASE pcap_read_dlpi \/ pcap_read_libdlpi
  BY <1>g, <1>s, <1>u, <1>12 DEF pcap_read_dlpi, pcap_read_libdlpi, Fill, Ask, LookAndAsk,
     Look, BeginsAsking, BeginsHolding, Way, Leaves, BreakSet, Receives, DeviceForm,
     Buffered, Rings
<1>13. CASE pcap_process_pkts
  BY <1>g, <1>s, <1>u, <1>13 DEF pcap_process_pkts, Buffered
<1>14. CASE pcap_read_nit \/ pcap_read_pf
  BY <1>g, <1>s, <1>u, <1>14 DEF pcap_read_nit, pcap_read_pf, Fill, Ask, BeginsAsking,
     BeginsHolding, Leaves, Receives, Damaged, DeviceForm, Buffered, Rings
<1>15. CASE pcap_read_snit
  BY <1>g, <1>s, <1>u, <1>15 DEF pcap_read_snit, Fill, Ask, BeginsAsking, BeginsHolding,
     Leaves, Receives, DeviceForm, Buffered, Rings
<1>16. CASE pcap_read_win32_npf
  BY <1>g, <1>s, <1>u, <1>16 DEF pcap_read_win32_npf, Fill, Ask, LookAndAsk, Look,
     LeaveForgetting, BeginsAsking, BeginsHolding, Way, Leaves, BreakSet, Receives,
     LeavesSaving, Forgets, DeviceForm, Buffered, Rings
<1>17. CASE DagAdvance
  BY <1>g, <1>s, <1>u, <1>17 DEF DagAdvance, Fill, Ask, LookAndAsk, Look, BeginsAsking,
     BeginsHolding, Leaves, BreakSet, Receives, DeviceForm, Buffered, Rings
<1>18. CASE DagRecord
  BY <1>g, <1>s, <1>u, <1>18 DEF DagRecord, EachPacket, LeaveSaving, LeaveForgetting,
     BreakSet, LeavesSaving, DeviceForm, Buffered
<1>19. CASE UsbFetch
  BY <1>g, <1>s, <1>u, <1>19 DEF UsbFetch, Look, BeginsAsking, Way, Leaves, BreakSet,
     EventsGivenBack, DeviceForm, Buffered, Rings
<1>20. CASE UsbEvents
  BY <1>g, <1>s, <1>u, <1>20 DEF UsbEvents, EventHandled, EventsDone, DeviceForm
<1>21. CASE snf_read
  BY <1>g, <1>s, <1>u, <1>21 DEF snf_read, BeginsHolding, Way, Leaves, BreakSet, Receives,
     DeviceForm, Buffered
<1>22. CASE SnfFiltered
  BY <1>g, <1>s, <1>u, <1>22 DEF DeviceForm
<1>23. CASE septel_read
  BY <1>g, <1>s, <1>u, <1>23 DEF septel_read, Look, BeginsHolding, Way, Leaves, BreakSet,
     Receives, OtherMessage, NoMessage, DeviceForm, Buffered, Queues, Rings
<1>24. CASE canusb_read_linux
  BY <1>g, <1>s, <1>u, <1>24 DEF canusb_read_linux, BeginsHolding, Way, Leaves, Receives,
     DeviceForm, Buffered
<1>25. CASE PacketUnwanted \/ DagEncapsulation
  BY <1>g, <1>s, <1>u, <1>25 DEF PacketUnwanted, DagEncapsulation, Skips, DeviceForm,
     Receivers
<1>26. CASE PacketStampFails
  BY <1>g, <1>s, <1>u, <1>26 DEF PacketStampFails, Spoils, DeviceForm, Receivers
<1>27. CASE UsbLine
  BY <1>g, <1>s, <1>u, <1>27 DEF UsbLine, Spoils, Skips, DeviceForm, Receivers
<1>28. CASE UsbFlushFails
  BY <1>g, <1>s, <1>u, <1>28 DEF DeviceForm
<1>29. CASE Interrupted
  BY <1>g, <1>s, <1>u, <1>29 DEF Interrupted, Way, Leaves, BreakSet, DeviceForm, Buffered
<1>30. CASE DeviceFails
  BY <1>g, <1>s, <1>u, <1>30 DEF DeviceFails, Look, Leaves, BreakSet, DeviceForm
<1>31. CASE pcap_setfilter_bpf \/ pcap_setfilter_pf \/ pcap_setfilter_win32_npf
  BY <1>g, <1>s, <1>u, <1>31 DEF pcap_setfilter_bpf, pcap_setfilter_pf,
     pcap_setfilter_win32_npf, NewFilter, DeviceForm, Buffered
<1> QED
  BY <1>2, <1>3, <1>4, <1>5, <1>6, <1>7, <1>8, <1>9, <1>10, <1>11, <1>12, <1>13, <1>14,
     <1>15, <1>16, <1>17, <1>18, <1>19, <1>20, <1>21, <1>22, <1>23, <1>24, <1>25, <1>26,
     <1>27, <1>28, <1>29, <1>30, <1>31 DEF DeviceStep, DeviceChoice

(* Steps of the device readers keep the types ... *)
LEMMA TypeOKDevice == TypeInv /\ DeviceForm /\ DeviceFrame => TypeOK'
<1> SUFFICES ASSUME TypeInv, DeviceForm, DeviceFrame PROVE TypeOK'
  OBVIOUS
<1>0. MaxBlock \in Nat \ {0} BY CaptureAssumption
<1>1. TypeOK BY DEF TypeInv
<1>f. RingOK BY <1>1, RingFacts
<1>c. /\ Chunk' = Chunk /\ BlockSize' = BlockSize
      /\ Chunk \in 1..MaxBlock /\ BlockSize \in 1..MaxBlock
      /\ UNCHANGED <<read_op, timeout, arrived, calls, breaks>>
  BY <1>f DEF RingOK, DeviceFrame, config
<1>g. FormsOK BY <1>1, FormTypes
<1> USE <1>0, <1>1, <1>c, <1>g DEF TypeInv, TypeOK, PlaceInv, HandInv, AtPacket, FormsOK,
        ReaderTypes, FlagTypes, reader
<1>2. CASE BeginsAsking
  BY <1>2 DEF BeginsAsking, Enter, Quiet, Keep
<1>3. CASE BeginsHolding
  BY <1>3 DEF BeginsHolding, Enter, Quiet, Keep
<1>4. CASE BeginsReceiving
  BY <1>f, <1>4 DEF BeginsReceiving, Enter, Quiet
<1>5. CASE GoesOn
  BY <1>f, <1>5 DEF GoesOn, Way, Load, Quiet, Keep, FetchLimit, Buffered
<1>6. CASE Leaves
  BY <1>6 DEF Leaves, BreakSet, Keep, Give, FailWith, Quiet, Receivers
<1>7. CASE \E l \in {"packet", "chunk"} : Receives(l)
  BY <1>f, <1>7 DEF Receives, Received, Load, Quiet
<1>8. CASE Drops
  <2>1. Head(ring) \in Nat /\ Tail(ring) \in Seq(1..Chunk) BY <1>f, <1>8, SMTT(20) DEF RingOK, Drops
  <2>2. ReaderTypes' /\ FlagTypes' BY <1>8 DEF Drops
  <2>3. lost' = lost + Head(ring) /\ lost \in Nat BY <1>8 DEF Drops
  <2>4. lost' \in Nat BY <2>1, <2>3
  <2> QED BY <1>8, <2>1, <2>2, <2>4 DEF Drops
<1>9. CASE Spoils
  BY <1>9 DEF Spoils, Spoil, FailWith, Quiet
<1>10. CASE Skips
  BY <1>10 DEF Skips, Skip, Quiet
<1>11. CASE LeavesSaving
  <2>1. Chunk = MaxBlock BY <1>f, <1>11 DEF LeavesSaving, RingOK
  <2>2. cc' \in 0..Chunk
    <3>1. CASE pc = "chunk" BY <1>11, <2>1, <3>1 DEF LeavesSaving, Saved
    <3>2. CASE pc = "after"
      <4>1. toRead > 0 BY <1>11, <3>2 DEF LeavesSaving, Buffered
      <4> QED BY <1>11, <2>1, <3>2, <4>1 DEF LeavesSaving, Saved
    <3> QED BY <1>11, <3>1, <3>2 DEF LeavesSaving
  <2>3. ReaderTypes' /\ FlagTypes'
    BY <1>11 DEF LeavesSaving, BreakSet, Give, FailWith, Quiet
  <2> QED BY <1>11, <2>2, <2>3 DEF LeavesSaving, Saved
<1>12. CASE Forgets
  BY <1>12, SMTT(20) DEF Forgets, BreakSet, Unsaved
<1>13. CASE Damaged
  BY <1>13, SMTT(20) DEF Damaged, BadHeader, Unsaved, FailWith, Quiet
<1>14. CASE EventsGivenBack
  BY <1>14 DEF EventsGivenBack, Quiet
<1>15. CASE EventHandled
  <2>1. /\ toRead > 0 /\ toRead <= Len(ring) /\ taken + toRead <= MaxBlock
        /\ read_op = "usb_mmap" /\ ring' = PacketRead /\ taken' = taken + 1
        /\ taken \in Nat /\ toRead \in Nat
    BY <1>15 DEF EventHandled
  <2>2. BlockSize = MaxBlock /\ Len(<<>>) = 0 BY <1>f, <2>1 DEF RingOK
  <2>3. ring # <<>> BY <2>1, <2>2
  <2>4. ring' \in Seq(1..Chunk) BY <1>f, <2>1, <2>3 DEF RingOK
  <2>5. taken' \in 0..BlockSize
    <3>1. taken' \in Nat /\ taken' <= MaxBlock BY <2>1
    <3> QED BY <2>2, <3>1
  <2>6. FlagTypes' BY <1>15 DEF EventHandled, Quiet
  <2>7. pc' \in {"packet", "chunk", "recv"} /\ toRead' \in Nat
    BY <1>15, SMTT(20) DEF EventHandled, Load
  <2>8. ReaderTypes' BY <1>15, <2>7 DEF EventHandled, Load
  <2> QED BY <1>15, <2>4, <2>5, <2>6, <2>8 DEF EventHandled
<1>16. CASE EventsDone
  BY <1>16 DEF EventsDone, Give, Quiet
<1>17. CASE UsbFlushFails
  BY <1>f, <1>17 DEF UsbFlushFails, FailWith, Quiet
<1>18. CASE SnfFiltered
  BY <1>18 DEF SnfFiltered, Quiet
<1>19. CASE OtherMessage
  BY <1>f, <1>19 DEF OtherMessage, Load, Quiet
<1>20. CASE NoMessage
  BY <1>20 DEF NoMessage, Quiet, Keep
<1>21. CASE NewFilter
  <2>0. ring \in Seq(0..Chunk) /\ Chunk \in Nat BY <1>f DEF RingOK
  <2>1. SumFunction(ring) \in Nat BY <2>0, SumOfSeq
  <2>2. <<>> \in Seq(1..Chunk) BY <1>f DEF RingOK
  <2>3. spoilt' \in Nat BY <1>21, <2>1 DEF NewFilter, DiscardsBuffered
  <2>4. ReaderTypes' /\ FlagTypes' BY <1>21 DEF NewFilter, DiscardsBuffered, Quiet
  <2> QED BY <1>21, <2>2, <2>3, <2>4 DEF NewFilter, DiscardsBuffered
<1> QED
  BY <1>2, <1>3, <1>4, <1>5, <1>6, <1>7, <1>8, <1>9, <1>10, <1>11, <1>12, <1>13, <1>14,
     <1>15, <1>16, <1>17, <1>18, <1>19, <1>20, <1>21 DEF DeviceForm

(* ... and what is in hand. *)
LEMMA HandDevice == TypeInv /\ DeviceForm /\ DeviceFrame => (PlaceInv /\ HandInv)'
<1> SUFFICES ASSUME TypeInv, DeviceForm, DeviceFrame PROVE (PlaceInv /\ HandInv)'
  OBVIOUS
<1>0. MaxBlock \in Nat \ {0} BY CaptureAssumption
<1>1. TypeOK BY DEF TypeInv
<1>f. RingOK BY <1>1, RingFacts
<1>c. /\ Chunk' = Chunk /\ BlockSize' = BlockSize
      /\ Chunk \in 1..MaxBlock /\ BlockSize \in 1..MaxBlock
      /\ UNCHANGED <<read_op, timeout, arrived, calls, breaks>>
  BY <1>f DEF RingOK, DeviceFrame, config
<1> USE <1>0, <1>1, <1>c DEF TypeInv, TypeOK, PlaceInv, HandInv, AtPacket, reader
<1>2. CASE BeginsAsking
  BY <1>2 DEF BeginsAsking, Enter, Keep
<1>3. CASE BeginsHolding
  BY <1>3 DEF BeginsHolding, Enter, Keep, Rings, Buffered, Queues
<1>4. CASE BeginsReceiving
  BY <1>f, <1>4 DEF BeginsReceiving, Enter, Rings
<1>5. CASE GoesOn
  <2>1. PICK l \in {"packet", "chunk", "read", "recv"}, k \in Int :
               Way(l, k) /\ Load(l, k) /\ Quiet /\ Keep
    BY <1>5 DEF GoesOn
  <2>2. pc' = l /\ toRead' = k /\ UNCHANGED <<ring, taken, cc>> BY <2>1 DEF Load, Keep
  <2>3. CASE read_op = "usb_mmap" /\ pc = "recv" /\ l = "packet"
    <3>1. /\ taken = 0 /\ ring # <<>>
          /\ k = IF Len(ring) < FetchLimit THEN Len(ring) ELSE FetchLimit
      BY <2>1, <2>3 DEF Way
    <3>2. Len(ring) \in Nat /\ Len(ring) > 0 BY <1>f, <3>1
    <3>3. FetchLimit \in 1..MaxBlock BY DEF FetchLimit
    <3>4. k \in 1..MaxBlock /\ k <= Len(ring) BY <3>1, <3>2, <3>3
    <3> QED BY <2>2, <2>3, <3>1, <3>4 DEF Several
  <2>4. CASE ~(read_op = "usb_mmap" /\ pc = "recv" /\ l = "packet")
    BY <2>1, <2>2, <2>4 DEF Way, Rings, Buffered, Queues
  <2> QED BY <2>3, <2>4
<1>6. CASE Leaves
  BY <1>6 DEF Leaves, BreakSet, Keep, Give, FailWith, Finish, Break, EndRead
<1>7. CASE \E l \in {"packet", "chunk"} : Receives(l)
  <2>1. PICK l \in {"packet", "chunk"} : Receives(l) BY <1>7
  <2>2. /\ pc = "recv" /\ pc' = l /\ toRead' = Head(ring) /\ ring # <<>>
        /\ UNCHANGED <<taken, cc>>
        /\ \/ l = "packet" /\ read_op \notin Rings \cup Buffered \cup {"offline", "usb_mmap"}
           \/ l = "chunk" /\ read_op \in Buffered
    BY <2>1 DEF Receives, Received, Load
  <2>3. Head(ring) \in 1..Chunk BY <1>f, <2>2
  <2>4. read_op \in (Receivers \ {"netfilter"}) \cup Queues => Chunk = 1 BY <1>f DEF RingOK
  <2>5. toRead' \in 1..MaxBlock /\ (read_op \notin Several \cup Buffered => toRead' = 1)
    <3>1. read_op \in Rings \cup {"offline"} \cup Receivers \cup Buffered \cup Queues
      BY CaptureAssumption
    <3> QED BY <2>2, <2>3, <2>4, <3>1 DEF Several
  <2>6. toRead' <= MaxBlock /\ toRead' > 0 /\ cc = 0 BY <2>2, <2>5
  <2> QED BY <2>2, <2>5, <2>6
<1>8. CASE Drops
  BY <1>f, <1>8 DEF Drops, Finish, Break
<1>9. CASE Spoils
  BY <1>9 DEF Spoils, Spoil, FailWith, Finish
<1>10. CASE Skips
  BY <1>10 DEF Skips, Skip
<1>11. CASE LeavesSaving
  BY <1>11 DEF LeavesSaving, BreakSet, Saved, Give, FailWith, Finish, Break, EndRead
<1>12. CASE Forgets
  BY <1>12 DEF Forgets, BreakSet, Unsaved, Finish, Break
<1>13. CASE Damaged
  BY <1>13 DEF Damaged, BadHeader, Unsaved, FailWith, Finish
<1>14. CASE EventsGivenBack
  BY <1>14 DEF EventsGivenBack
<1>15. CASE EventHandled
  <2>1. /\ toRead > 0 /\ toRead <= Len(ring) /\ taken + toRead <= MaxBlock
        /\ read_op = "usb_mmap" /\ ring' = PacketRead /\ taken' = taken + 1
        /\ UNCHANGED cc
        /\ \/ toRead > 1 /\ pc' = "packet" /\ toRead' = toRead - 1
           \/ toRead <= 1 /\ pc' \in {"chunk", "recv"} /\ toRead' = 0
    BY <1>15 DEF EventHandled, Load
  <2>2. /\ BlockSize = MaxBlock /\ Len(<<>>) = 0 /\ Chunk = 1
        /\ ring # <<>> => Head(ring) \in 1..Chunk /\ Len(Tail(ring)) = Len(ring) - 1
        /\ Len(ring) \in Nat
    BY <1>f, <2>1 DEF RingOK, Queues
  <2>3. ring # <<>> BY <2>1, <2>2
  <2>4. Len(ring') = Len(ring) - 1
    <3>1. Head(ring) = 1 BY <2>2, <2>3
    <3> QED BY <2>1, <2>2, <2>3, <3>1 DEF PacketRead
  <2>5. cc = 0 BY <2>1 DEF Buffered
  <2>6. pc' = "packet" => toRead' <= Len(ring') /\ taken' + toRead' <= MaxBlock
    BY <2>1, <2>2, <2>4
  <2> QED BY <2>1, <2>5, <2>6 DEF Rings, Queues
<1>16. CASE EventsDone
  BY <1>16 DEF EventsDone, Give, Finish, EndRead
<1>17. CASE UsbFlushFails
  BY <1>f, <1>17 DEF UsbFlushFails, FailWith, Finish
<1>18. CASE SnfFiltered
  BY <1>18 DEF SnfFiltered
<1>19. CASE OtherMessage
  BY <1>f, <1>19 DEF OtherMessage, Load, Queues
<1>20. CASE NoMessage
  BY <1>20 DEF NoMessage, Keep, Queues
<1>21. CASE NewFilter
  BY <1>21 DEF NewFilter, DiscardsBuffered, Rings, Buffered
<1> QED
  BY <1>2, <1>3, <1>4, <1>5, <1>6, <1>7, <1>8, <1>9, <1>10, <1>11, <1>12, <1>13, <1>14,
     <1>15, <1>16, <1>17, <1>18, <1>19, <1>20, <1>21 DEF DeviceForm

(* Every step of every reader keeps the types and what is in hand. *)
LEMMA TypeInvNext == TypeInv /\ [AllNext]_vars => TypeInv'
<1> SUFFICES ASSUME TypeInv, [AllNext]_vars PROVE TypeInv'
  OBVIOUS
<1>1. CASE [Next]_vars BY <1>1, TypeOKNext, HandNext DEF TypeInv
<1>2. CASE DeviceStep \/ DeviceChoice
  BY <1>2, DeviceForms, TypeOKDevice, HandDevice DEF TypeInv
<1> QED BY <1>1, <1>2 DEF AllNext

(* TypeInv always holds, of every reader. *)
LEMMA TypeInvAlways == AllSpec => []TypeInv
BY TypeInvInit, TypeInvNext, PTL DEF AllSpec

(* Counters, program points and the ring of every reader stay in range,
   whatever the bounds. *)
THEOREM CaptureTypeCorrect == AllSpec => []TypeOK
<1>1. TypeInv => TypeOK BY DEF TypeInv
<1> QED BY <1>1, TypeInvAlways, PTL


-----------------------------------------------------------------------------
(* No packet is lost, skipped or delivered twice. *)

(* What the steps of the readers do to the number of packets in the ring. *)
SumOK ==
  /\ SumFunction(ring) \in Nat /\ SumFunction(<<>>) = 0
  /\ \A k \in 1..Chunk : SumFunction(Append(ring, k)) = SumFunction(ring) + k
  /\ ring # <<>> =>
       /\ SumFunction(Tail(ring)) = SumFunction(ring) - Head(ring)
       /\ SumFunction(PacketRead) = SumFunction(ring) - 1
       /\ \A v \in 1..Chunk :
            SumFunction([ring EXCEPT ![1] = v]) = SumFunction(ring) - Head(ring) + v
  /\ SumFunction([i \in 1..taken |-> 1] \o ring) = taken + SumFunction(ring)

(* They are so. *)
LEMMA SumFacts == TypeOK => SumOK
<1> SUFFICES ASSUME TypeOK PROVE SumOK
  OBVIOUS
<1>1. MaxBlock \in Nat \ {0} BY CaptureAssumption
<1>2. RingOK BY RingFacts
<1>3. /\ ring \in Seq(0..MaxBlock) /\ Chunk \in 1..MaxBlock /\ taken \in Nat
      /\ \A k \in 1..Chunk : k \in 0..MaxBlock
  BY <1>1, <1>2 DEF RingOK, TypeOK
<1>4. SumFunction(ring) \in Nat BY <1>1, <1>3, SumOfSeq
<1>5. \A k \in 1..Chunk : SumFunction(Append(ring, k)) = SumFunction(ring) + k
  BY <1>1, <1>3, SumAppend
<1>6. ASSUME ring # <<>>
      PROVE  \A v \in 0..MaxBlock :
               SumFunction([ring EXCEPT ![1] = v]) = SumFunction(ring) - Head(ring) + v
  BY <1>1, <1>3, <1>6, SumExceptFirst
<1>7. ASSUME ring # <<>>
      PROVE  /\ SumFunction(Tail(ring)) = SumFunction(ring) - Head(ring)
             /\ SumFunction(PacketRead) = SumFunction(ring) - 1
  <2>1. Head(ring) \in 1..MaxBlock /\ Tail(ring) \in Seq(0..MaxBlock)
    BY <1>1, <1>2, <1>3, <1>7 DEF RingOK
  <2>2. SumFunction(Tail(ring)) \in Nat BY <1>1, <2>1, SumOfSeq
  <2>3. SumFunction(ring) = Head(ring) + SumFunction(Tail(ring))
    BY <1>1, <1>3, <1>7, SumTail
  <2>4. CASE Head(ring) = 1 BY <1>4, <2>2, <2>3, <2>4 DEF PacketRead
  <2>5. CASE Head(ring) # 1
    <3> DEFINE v == Head(ring) - 1
    <3>1. v \in 0..MaxBlock BY <1>1, <2>1
    <3>2. PacketRead = [ring EXCEPT ![1] = v] BY <1>3, <1>7, <2>5 DEF PacketRead
    <3>3. SumFunction([ring EXCEPT ![1] = v]) = SumFunction(ring) - Head(ring) + v
      BY <1>6, <1>7, <3>1
    <3> QED BY <1>4, <2>1, <2>2, <2>3, <3>2, <3>3
  <2> QED BY <1>4, <2>1, <2>2, <2>3, <2>4, <2>5
<1>8. SumFunction([i \in 1..taken |-> 1] \o ring) = taken + SumFunction(ring)
  <2> DEFINE ones == [i \in 1..taken |-> 1]
  <2>1. ones \in Seq(0..MaxBlock) BY <1>1, <1>3
  <2>2. SumFunction(ones) = taken BY <1>3, SumOfOnes
  <2> HIDE DEF ones
  <2>3. SumFunction(ones \o ring) = SumFunction(ones) + SumFunction(ring)
    BY <1>1, <1>3, <2>1, SumConcat
  <2> QED BY <2>2, <2>3 DEF ones
<1>9. SumFunction(<<>>) = 0 BY SumOfNone
<1>10. \A v \in 1..Chunk : v \in 0..MaxBlock BY <1>3
<1> QED BY <1>4, <1>5, <1>6, <1>7, <1>8, <1>9, <1>10 DEF SumOK

(* The packet of the callback is handled, and still in the ring or in hand. *)
Handing == IF pc \in {"callback", "after"} THEN 1 ELSE 0

(* The first half of EachPacketOnce. *)
Balance ==
  arrived + again = SumFunction(ring) + Held + lost + spoilt + handled - Handing

(* The steps of the ring readers, the savefile reader and the clients move
   packets, or count them; none is lost. *)
LEMMA BalanceReaders ==
  ASSUME TypeInv, Balance, Next
  PROVE  Balance'
<1>0. MaxBlock \in Nat \ {0} BY CaptureAssumption
<1>1. TypeOK BY DEF TypeInv
<1>2. /\ arrived \in Nat /\ again \in Nat /\ handled \in Nat /\ lost \in Nat /\ spoilt \in Nat
      /\ taken \in Nat /\ toRead \in Nat /\ cc \in Nat /\ SumFunction(ring) \in Nat
  BY <1>0, <1>1, RingFacts, SumFacts DEF TypeOK, SumOK
<1>h. /\ TypeOK /\ PlaceInv /\ HandInv
  BY DEF TypeInv
<1>s. SumOK BY <1>1, SumFacts
<1>f. RingOK BY <1>1, RingFacts
<1> USE <1>2 DEF Balance, config, device, reader, counters
<1>3. CASE Arrive
  <2>1. PICK k \in 1..Chunk : ring' = Append(ring, k) /\ arrived' = arrived + k
    BY <1>3 DEF Arrive
  <2>u. UNCHANGED <<again, lost, spoilt, handled>> BY <1>3 DEF Arrive
  <2>2. SumFunction(ring') = SumFunction(ring) + k /\ k \in Nat
    BY <1>f, <1>s, <2>1 DEF SumOK
  <2>3. Held' = Held /\ Handing' = Handing /\ Held \in Int /\ Handing \in Int
    BY <1>3 DEF Arrive, Held, Handing
  <2>4. arrived' + again' = (arrived + again) + k BY <2>1, <2>u, <2>2
  <2>5. SumFunction(ring') + Held' + lost' + spoilt' + handled' - Handing'
          = (SumFunction(ring) + Held + lost + spoilt + handled - Handing) + k
    BY <2>u, <2>2, <2>3
  <2> QED BY <2>4, <2>5
<1>4. CASE PcapBreakLoop
  BY <1>4, <1>1 DEF Held, Handing, PcapBreakLoop
<1>5. CASE PcapLoop \/ PcapDispatch
  BY <1>5, <1>1 DEF Held, Handing, PcapLoop, PcapDispatch, Start
<1>6. CASE ReadLive
  BY <1>6, <1>1 DEF Held, Handing, ReadLive
<1>7. CASE PollReturns
  BY <1>7, <1>1 DEF Held, Handing, PollReturns, Finish, Break
<1>8. CASE PollInterrupted \/ PollFails
  BY <1>8, <1>1 DEF Held, Handing, PollInterrupted, PollFails, Finish, Break
<1>9. CASE TakeFrame
  BY <1>9, <1>1 DEF TypeInv, PlaceInv, Held, Handing, TakeFrame
<1>10. CASE TakeBlock
  BY <1>10, <1>1 DEF TypeInv, PlaceInv, Held, Handing, TakeBlock
<1>11. CASE FramesDone
  BY <1>11, <1>1 DEF Held, Handing, FramesDone, Finish, EndRead
<1>12. CASE HandPacket
  BY <1>12, <1>1 DEF Held, Handing, HandPacket
<1>13. CASE FilterPacket
  BY <1>13, <1>1 DEF Held, Handing, FilterPacket
<1>14. CASE FrameCorrupt
  <2>1. ring # <<>> /\ taken + Head(ring) <= BlockSize /\ read_op \in Rings
    BY <1>h, <1>14 DEF FrameCorrupt, HandInv, AtPacket
  <2>2. Head(ring) \in 1..Chunk /\ Chunk = BlockSize BY <1>f, <2>1 DEF RingOK
  <2>3. Head(ring) + taken \in 1..Chunk BY <2>1, <2>2
  <2>4. ring' = [ring EXCEPT ![1] = Head(ring) + taken]
    BY <1>f, <1>14, <2>1 DEF FrameCorrupt
  <2>5. SumFunction(ring') = SumFunction(ring) + taken
    <3>1. SumFunction(ring') = SumFunction(ring) - Head(ring) + (Head(ring) + taken)
      BY <1>s, <2>1, <2>3, <2>4 DEF SumOK
    <3> QED BY <2>2, <3>1
  <2>6. Held = 0 /\ Held' = 0 /\ Handing = 0 /\ Handing' = 0
    BY <1>14, <2>1 DEF FrameCorrupt, Finish, Held, Handing
  <2> QED BY <1>14, <2>5, <2>6 DEF FrameCorrupt
<1>15. CASE CallbackReturns
  BY <1>15, <1>1 DEF Held, Handing, CallbackReturns
<1>16. CASE AfterLive
  <2>1. /\ ring # <<>> /\ read_op \in Rings /\ ring' = PacketRead
        /\ pc = "after" /\ pc' \in {"packet", "idle", "frames"}
        /\ UNCHANGED <<read_op, arrived, again, lost, spoilt, handled>>
    BY <1>h, <1>16 DEF AfterLive, HandInv, AtPacket, Break, Finish
  <2>2. SumFunction(ring') = SumFunction(ring) - 1 BY <1>s, <2>1 DEF SumOK
  <2>3. Held = 0 /\ Held' = 0 /\ Handing = 1 /\ Handing' = 0 BY <2>1 DEF Held, Handing
  <2> QED BY <2>1, <2>2, <2>3
<1>17. CASE ReadOffline
  BY <1>17, <1>1 DEF Held, Handing, ReadOffline
<1>18. CASE NextRecord
  BY <1>18, <1>1 DEF TypeInv, PlaceInv, Held, Handing, NextRecord
<1>19. CASE CheckBreak
  BY <1>19, <1>1 DEF Held, Handing, CheckBreak, Finish, Break, EndRead
<1>20. CASE EndOfFile
  BY <1>20, <1>1 DEF Held, Handing, EndOfFile, Finish
<1>21. CASE AfterOffline
  <2>1. /\ ring # <<>> /\ read_op = "offline" /\ ring' = PacketRead
        /\ pc = "after" /\ pc' \in {"check", "idle", "read"}
        /\ UNCHANGED <<read_op, arrived, again, lost, spoilt, handled>>
    BY <1>h, <1>21 DEF AfterOffline, HandInv, AtPacket, EndRead, Finish
  <2>2. SumFunction(ring') = SumFunction(ring) - 1 BY <1>s, <2>1 DEF SumOK
  <2>3. Held = 0 /\ Held' = 0 /\ Handing = 1 /\ Handing' = 0 BY <2>1 DEF Held, Handing
  <2> QED BY <2>1, <2>2, <2>3
<1> QED
  BY <1>3, <1>4, <1>5, <1>6, <1>7, <1>8, <1>9, <1>10, <1>11, <1>12, <1>13, <1>14, <1>15,
     <1>16, <1>17, <1>18, <1>19, <1>20, <1>21 DEF Next, ReaderStep

(* So do the steps of the device readers, those that throw packets away
   included. *)
LEMMA BalanceDevice ==
  ASSUME TypeInv, Balance, DeviceForm, DeviceFrame
  PROVE  Balance'
<1>0. MaxBlock \in Nat \ {0} BY CaptureAssumption
<1>1. TypeOK BY DEF TypeInv
<1>2. /\ arrived \in Nat /\ again \in Nat /\ handled \in Nat /\ lost \in Nat /\ spoilt \in Nat
      /\ taken \in Nat /\ toRead \in Nat /\ cc \in Nat /\ SumFunction(ring) \in Nat
  BY <1>0, <1>1, RingFacts, SumFacts DEF TypeOK, SumOK
<1>h. /\ TypeOK /\ PlaceInv /\ HandInv
  BY DEF TypeInv
<1>u. UNCHANGED <<read_op, arrived>> BY DEF DeviceFrame, config
<1>s. SumOK BY <1>1, SumFacts
<1>f. RingOK BY <1>1, RingFacts
<1> USE <1>2, <1>u DEF Balance, config, device, reader, counters
<1>3. CASE BeginsAsking
  BY <1>3, <1>1 DEF Held, Handing, BeginsAsking, Enter, Keep
<1>4. CASE BeginsHolding
  BY <1>4, <1>1 DEF Held, Handing, BeginsHolding, Enter, Keep, Queues
<1>5. CASE BeginsReceiving
  BY <1>s, <1>f, <1>5, <1>1 DEF TypeInv, HandInv, Held, Handing, SumOK, RingOK,
     BeginsReceiving, Enter, Rings, Receivers, Buffered
<1>6. CASE GoesOn
  <2>1. PICK l \in {"packet", "chunk", "read", "recv"}, k \in Int :
               Way(l, k) /\ Load(l, k) /\ Quiet /\ Keep
    BY <1>6 DEF GoesOn
  <2>2. pc' = l /\ toRead' = k /\ UNCHANGED <<ring, cc, lost, spoilt, again, handled>>
    BY <2>1 DEF Load, Keep
  <2>3. CASE read_op \in Buffered
    <3>1. pc = "recv" => cc = 0 BY <1>h DEF HandInv
    <3>2. Held' - Handing' = Held - Handing
      BY <2>1, <2>2, <2>3, <3>1, SMTT(20) DEF Way, Held, Handing, Buffered, Queues, Rings
    <3> QED BY <2>2, <3>2, SMTT(20) DEF Held, Handing
  <2>4. CASE read_op \notin Buffered
    <3>1. cc = 0 /\ (pc = "after" => toRead > 0) /\ (read_op \notin Several => toRead <= 1)
      BY <1>h, <2>1, <2>4 DEF HandInv, AtPacket, Way
    <3>2. Held' - Handing' = Held - Handing
      BY <2>1, <2>2, <2>4, <3>1, SMTT(20) DEF Way, Held, Handing, Queues, Rings, Several
    <3> QED BY <2>2, <3>2, SMTT(20) DEF Held, Handing
  <2> QED BY <2>3, <2>4
<1>7. CASE Leaves
  <2>1. /\ pc' \in {"idle", "read"} /\ toRead' = toRead
        /\ UNCHANGED <<ring, cc, lost, spoilt, again, handled>>
    BY <1>7 DEF Leaves, BreakSet, Break, FailWith, Give, EndRead, Finish, Keep
  <2>2. /\ read_op \notin Rings \cup {"offline"}
        /\ \/ pc \in {"read", "recv"}
           \/ pc = "chunk" /\ read_op \in {"snf", "septel", "canusb"}
           \/ pc = "after" /\ toRead = 1 /\ read_op \in Receivers \cup {"septel"}
    BY <1>7 DEF Leaves
  <2>3. read_op \in Receivers => cc = 0 BY <1>h DEF HandInv, Receivers, Buffered
  <2>4. Held' - Handing' = Held - Handing
    BY <2>1, <2>2, <2>3 DEF Held, Handing, Receivers, Queues
  <2> QED BY <2>1, <2>4 DEF Held, Handing
<1>8. CASE \E l \in {"packet", "chunk"} : Receives(l)
  <2>1. /\ pc = "recv" /\ ring # <<>> /\ ring' = Tail(ring) /\ toRead' = Head(ring)
        /\ UNCHANGED <<lost, spoilt, again, handled>>
        /\ \/ pc' = "packet" /\ read_op \notin Rings \cup Buffered \cup {"offline", "usb_mmap"}
           \/ pc' = "chunk" /\ read_op \in Buffered
    BY <1>8 DEF Receives, Received, Load
  <2>2. SumFunction(ring') = SumFunction(ring) - Head(ring) /\ Head(ring) \in Nat
    <3>1. Head(ring) \in Nat BY <1>f, <2>1 DEF RingOK
    <3> QED BY <1>s, <2>1, <3>1 DEF SumOK
  <2>3. cc = 0 BY <1>h, <2>1 DEF HandInv
  <2>4. Held = 0 /\ Held' = Head(ring) /\ Handing = 0 /\ Handing' = 0
    BY <2>1, <2>3 DEF Held, Handing, Rings, Buffered, Queues
  <2> QED BY <2>1, <2>2, <2>4
<1>9. CASE Drops
  <2>1. /\ pc = "recv" /\ ring # <<>> /\ ring' = Tail(ring) /\ lost' = lost + Head(ring)
        /\ UNCHANGED <<cc, spoilt, again, handled>> /\ pc' = "idle" /\ read_op \in Receivers
    BY <1>9 DEF Drops, Break, Finish
  <2>2. SumFunction(ring') = SumFunction(ring) - Head(ring) /\ Head(ring) \in Nat
    <3>1. Head(ring) \in Nat BY <1>f, <2>1 DEF RingOK
    <3> QED BY <1>s, <2>1, <3>1 DEF SumOK
  <2>3. cc = 0 BY <1>h, <2>1 DEF HandInv
  <2>4. Held = 0 /\ Held' = 0 /\ Handing = 0 /\ Handing' = 0
    BY <2>1, <2>3 DEF Held, Handing
  <2> QED BY <2>1, <2>2, <2>4
<1>10. CASE Spoils
  BY <1>10, <1>1, SMTT(20) DEF TypeInv, HandInv, Held, Handing, Spoils, Spoil, FailWith, Finish,
     Rings, Receivers, Buffered
<1>11. CASE Skips
  BY <1>11, <1>1 DEF Held, Handing, Skips, Skip
<1>12. CASE LeavesSaving
  <2>1. /\ pc' \in {"idle", "read"} /\ UNCHANGED <<ring, lost, spoilt, again, handled>>
        /\ read_op \in Buffered
    BY <1>12 DEF LeavesSaving, BreakSet, Break, FailWith, Give, EndRead, Finish, Saved
  <2>2. CASE pc = "chunk"
    <3>1. cc' = toRead BY <1>12, <2>2 DEF LeavesSaving, Saved
    <3>2. Held = toRead /\ Held' = cc' /\ Handing = 0 /\ Handing' = 0
      BY <2>1, <2>2 DEF Held, Handing, Buffered, Queues, Rings
    <3> QED BY <2>1, <3>1, <3>2
  <2>3. CASE pc = "after"
    <3>1. cc' = toRead - 1 BY <1>12, <2>3 DEF LeavesSaving, Saved
    <3>2. Held = toRead /\ Held' = cc' /\ Handing = 1 /\ Handing' = 0
      BY <2>1, <2>3 DEF Held, Handing, Buffered, Queues, Rings
    <3> QED BY <2>1, <3>1, <3>2
  <2> QED BY <1>12, <2>2, <2>3 DEF LeavesSaving
<1>13. CASE Forgets
  <2>1. /\ pc = "chunk" /\ pc' = "idle" /\ UNCHANGED <<ring, spoilt, handled, cc>>
        /\ read_op \in Buffered /\ IF cc = 0 THEN lost' = lost + toRead /\ again' = again
                                           ELSE lost' = lost /\ again' = again + (cc - toRead)
    BY <1>13 DEF Forgets, BreakSet, Break, Finish, Unsaved
  <2>2. Held = toRead /\ Held' = cc /\ Handing = 0 /\ Handing' = 0
    BY <2>1 DEF Held, Handing, Buffered, Queues, Rings
  <2> QED BY <2>1, <2>2
<1>14. CASE Damaged
  <2>1. /\ pc = "chunk" /\ pc' = "idle" /\ UNCHANGED <<ring, lost, handled, cc>>
        /\ read_op \in Buffered /\ IF cc = 0 THEN spoilt' = spoilt + toRead /\ again' = again
                                           ELSE spoilt' = spoilt /\ again' = again + (cc - toRead)
    BY <1>14 DEF Damaged, BadHeader, FailWith, Finish, Unsaved
  <2>2. Held = toRead /\ Held' = cc /\ Handing = 0 /\ Handing' = 0
    BY <2>1 DEF Held, Handing, Buffered, Queues, Rings
  <2> QED BY <2>1, <2>2
<1>15. CASE EventsGivenBack
  BY <1>15, <1>1 DEF Held, Handing, EventsGivenBack
<1>16. CASE EventHandled
  <2>1. /\ read_op = "usb_mmap" /\ pc = "after" /\ ring' = PacketRead
        /\ pc' \in {"packet", "chunk", "recv"} /\ UNCHANGED <<cc, lost, spoilt, again, handled>>
    BY <1>16 DEF EventHandled, Load
  <2>2. ring # <<>>
    <3>1. Len(ring) > 0 BY <1>h, <1>f, <2>1 DEF HandInv, AtPacket
    <3> QED BY <3>1
  <2>3. SumFunction(ring') = SumFunction(ring) - 1 BY <1>s, <2>1, <2>2 DEF SumOK
  <2>4. Held = 0 /\ Held' = 0 /\ Handing = 1 /\ Handing' = 0 BY <2>1 DEF Held, Handing
  <2> QED BY <2>1, <2>3, <2>4
<1>17. CASE EventsDone
  BY <1>17, <1>1 DEF Held, Handing, EventsDone, Give, Finish, EndRead
<1>18. CASE UsbFlushFails
  <2>1. /\ read_op = "usb_mmap" /\ pc = "chunk" /\ pc' = "idle"
        /\ ring' = [i \in 1..taken |-> 1] \o ring /\ again' = again + taken
        /\ UNCHANGED <<lost, spoilt, handled>>
    BY <1>18 DEF UsbFlushFails, FailWith, Finish
  <2>2. SumFunction(ring') = taken + SumFunction(ring) BY <1>s, <2>1 DEF SumOK
  <2>3. Held = 0 /\ Held' = 0 /\ Handing = 0 /\ Handing' = 0 BY <2>1 DEF Held, Handing
  <2>4. arrived' + again' = (arrived + again) + taken BY <2>1
  <2>5. SumFunction(ring') + Held' + lost' + spoilt' + handled' - Handing'
          = (SumFunction(ring) + Held + lost + spoilt + handled - Handing) + taken
    BY <2>1, <2>2, <2>3
  <2> QED BY <2>4, <2>5
<1>19. CASE SnfFiltered
  BY <1>19, <1>1 DEF Held, Handing, SnfFiltered
<1>20. CASE OtherMessage
  <2>1. /\ read_op = "septel" /\ pc = "recv" /\ pc' = "chunk" /\ ring # <<>> /\ ring' = Tail(ring)
        /\ handled' = handled + 1 /\ UNCHANGED <<cc, lost, spoilt, again>>
    BY <1>20 DEF OtherMessage, Load
  <2>2. Head(ring) = 1 BY <1>f, <2>1 DEF RingOK, Queues
  <2>3. SumFunction(ring') = SumFunction(ring) - 1 BY <1>s, <2>1, <2>2 DEF SumOK
  <2>4. Held = 0 /\ Held' = 0 /\ Handing = 0 /\ Handing' = 0
    BY <2>1 DEF Held, Handing, Queues
  <2> QED BY <2>1, <2>3, <2>4
<1>21. CASE NoMessage
  BY <1>21, <1>1 DEF Held, Handing, NoMessage, Keep, Queues
<1>22. CASE NewFilter
  <2>1. /\ read_op \in Buffered /\ pc \in {"idle", "callback"} /\ pc' = pc /\ cc' = 0
        /\ ring' = <<>> /\ toRead' = toRead /\ UNCHANGED <<lost, again, handled>>
        /\ spoilt' = spoilt + SumFunction(ring) + (IF pc = "idle" THEN cc ELSE 0)
    BY <1>22 DEF NewFilter, DiscardsBuffered
  <2>2. SumFunction(ring') = 0 BY <1>s, <2>1 DEF SumOK
  <2>3. Handing' = Handing /\ Handing \in Int
    BY <2>1 DEF Handing
  <2>4. IF pc = "idle" THEN Held = cc /\ Held' = 0 ELSE Held = toRead /\ Held' = toRead
    BY <2>1 DEF Held, Buffered, Queues, Rings
  <2> QED BY <2>1, <2>2, <2>3, <2>4
<1> QED
  BY <1>3, <1>4, <1>5, <1>6, <1>7, <1>8, <1>9, <1>10, <1>11, <1>12, <1>13, <1>14, <1>15,
     <1>16, <1>17, <1>18, <1>19, <1>20, <1>21, <1>22 DEF DeviceForm

-----------------------------------------------------------------------------
(* Breaks. *)

(* What a step may do to the flag, and what it throws away when it does. *)
FlagStep ==
  \/ break_loop' = TRUE /\ breaks' = breaks + 1 /\ UNCHANGED <<broken, lost>>
  \/ /\ break_loop /\ break_loop' = FALSE
     /\ broken' = broken + 1 /\ breaks' = breaks
     /\ lost' >= lost /\ lost' <= lost + MaxBlock
  \/ UNCHANGED <<break_loop, broken, breaks, lost>>

(* Only PcapBreakLoop sets the flag, and only a break clears it: in the steps
   of the ring readers, the savefile reader and the clients ... *)
LEMMA FlagReaders ==
  ASSUME TypeInv, Next
  PROVE  FlagStep
<1>1. /\ toRead \in Nat /\ toRead <= MaxBlock /\ lost \in Nat /\ MaxBlock \in Nat
  BY CaptureAssumption DEF TypeInv, TypeOK, HandInv
<1>2. ring # <<>> => Head(ring) \in 1..MaxBlock
  <2>1. ASSUME ring # <<>> PROVE Head(ring) \in 1..Chunk /\ Chunk \in 1..MaxBlock
    BY <2>1, RingFacts DEF TypeInv, RingOK
  <2> QED BY <1>1, <2>1
<1> USE <1>1 DEF FlagStep, device, reader, counters
<1>4. CASE Arrive
  BY <1>4 DEF Arrive
<1>5. CASE PcapBreakLoop
  BY <1>5 DEF PcapBreakLoop
<1>6. CASE PcapLoop \/ PcapDispatch
  BY <1>6 DEF PcapLoop, PcapDispatch, Start
<1>7. CASE ReadLive
  BY <1>7 DEF ReadLive
<1>8. CASE PollReturns
  <2>1. CASE break_loop
    <3>1. break_loop /\ Break /\ UNCHANGED <<breaks, lost>> BY <1>8, <2>1 DEF PollReturns
    <3>2. break_loop' = FALSE /\ broken' = broken + 1 BY <3>1 DEF Break
    <3>3. lost' >= lost /\ lost' <= lost + MaxBlock BY <3>1
    <3> QED BY <3>1, <3>2, <3>3
  <2>2. CASE ~break_loop BY <1>8, <2>2 DEF PollReturns
  <2> QED BY <2>1, <2>2
<1>9. CASE PollInterrupted \/ PollFails
  BY <1>9 DEF PollInterrupted, PollFails, Break
<1>10. CASE TakeFrame
  BY <1>10 DEF TakeFrame
<1>11. CASE TakeBlock
  BY <1>11 DEF TakeBlock
<1>12. CASE FramesDone
  BY <1>12 DEF FramesDone
<1>13. CASE HandPacket
  BY <1>13 DEF HandPacket
<1>14. CASE FilterPacket
  BY <1>14 DEF FilterPacket
<1>15. CASE FrameCorrupt
  BY <1>15 DEF FrameCorrupt
<1>16. CASE CallbackReturns
  BY <1>16 DEF CallbackReturns
<1>17. CASE AfterLive
  BY <1>17 DEF AfterLive, Break
<1>18. CASE ReadOffline
  BY <1>18 DEF ReadOffline
<1>19. CASE NextRecord
  BY <1>19 DEF NextRecord
<1>20. CASE CheckBreak
  <2>1. CASE pkts = 0
    <3>1. break_loop /\ Break /\ UNCHANGED <<breaks, lost>> BY <1>20, <2>1 DEF CheckBreak
    <3>2. break_loop' = FALSE /\ broken' = broken + 1 BY <3>1 DEF Break
    <3>3. lost' >= lost /\ lost' <= lost + MaxBlock BY <3>1
    <3> QED BY <3>1, <3>2, <3>3
  <2>2. CASE pkts # 0 BY <1>20, <2>2 DEF CheckBreak
  <2> QED BY <2>1, <2>2
<1>21. CASE EndOfFile
  BY <1>21 DEF EndOfFile
<1>22. CASE AfterOffline
  BY <1>22 DEF AfterOffline
<1> QED
  BY <1>4, <1>5, <1>6, <1>7, <1>8, <1>9, <1>10, <1>11, <1>12, <1>13, <1>14, <1>15, <1>16,
     <1>17, <1>18, <1>19, <1>20, <1>21, <1>22 DEF Next, ReaderStep

(* ... and in those of the device readers. *)
LEMMA FlagDevice ==
  ASSUME TypeInv, DeviceForm, DeviceFrame
  PROVE  FlagStep
<1>1. /\ toRead \in Nat /\ toRead <= MaxBlock /\ lost \in Nat /\ MaxBlock \in Nat
  BY CaptureAssumption DEF TypeInv, TypeOK, HandInv
<1>2. ring # <<>> => Head(ring) \in 1..MaxBlock
  <2>1. ASSUME ring # <<>> PROVE Head(ring) \in 1..Chunk /\ Chunk \in 1..MaxBlock
    BY <2>1, RingFacts DEF TypeInv, RingOK
  <2> QED BY <1>1, <2>1
<1>3. UNCHANGED breaks BY DEF DeviceFrame
<1> USE <1>1, <1>3 DEF FlagStep, device, reader, counters
<1>4. CASE BeginsAsking
  BY <1>4 DEF BeginsAsking, Quiet, Keep
<1>5. CASE BeginsHolding
  BY <1>5 DEF BeginsHolding, Quiet, Keep
<1>6. CASE BeginsReceiving
  BY <1>6 DEF BeginsReceiving, Quiet
<1>7. CASE GoesOn
  BY <1>7 DEF GoesOn, Quiet, Keep, FetchLimit
<1>8. CASE Leaves
  BY <1>8 DEF Leaves, Keep, Give, FailWith, Quiet, BreakSet, Break
<1>9. CASE \E l \in {"packet", "chunk"} : Receives(l)
  BY <1>9 DEF Receives, Received, Quiet
<1>10. CASE Drops
  <2>1. Head(ring) \in 1..MaxBlock BY <1>2, <1>10 DEF Drops
  <2>2. lost' = lost + Head(ring) BY <1>10 DEF Drops
  <2>3. lost' >= lost /\ lost' <= lost + MaxBlock BY <2>1, <2>2
  <2>4. break_loop /\ break_loop' = FALSE /\ broken' = broken + 1 BY <1>10 DEF Drops, Break
  <2> QED BY <2>3, <2>4
<1>11. CASE Spoils
  BY <1>11 DEF Spoils, Spoil, FailWith, Quiet
<1>12. CASE Skips
  BY <1>12 DEF Skips, Skip, Quiet
<1>13. CASE LeavesSaving
  BY <1>13 DEF LeavesSaving, Saved, Give, FailWith, Quiet, BreakSet, Break
<1>14. CASE Forgets
  <2>1. break_loop /\ break_loop' = FALSE /\ broken' = broken + 1
    BY <1>14 DEF Forgets, BreakSet, Break
  <2>2. lost' = lost \/ lost' = lost + toRead BY <1>14 DEF Forgets, Unsaved
  <2>3. lost' >= lost /\ lost' <= lost + MaxBlock BY <2>2
  <2> QED BY <2>1, <2>3
<1>15. CASE Damaged
  BY <1>15 DEF Damaged, BadHeader, FailWith, Quiet
<1>16. CASE EventsGivenBack
  BY <1>16 DEF EventsGivenBack, Quiet
<1>17. CASE EventHandled
  BY <1>17 DEF EventHandled, Quiet
<1>18. CASE EventsDone
  BY <1>18 DEF EventsDone, Give, Quiet
<1>19. CASE UsbFlushFails
  BY <1>19 DEF UsbFlushFails, FailWith, Quiet
<1>20. CASE SnfFiltered
  BY <1>20 DEF SnfFiltered, Quiet
<1>21. CASE OtherMessage
  BY <1>21 DEF OtherMessage, Quiet
<1>22. CASE NoMessage
  BY <1>22 DEF NoMessage, Quiet, Keep
<1>23. CASE NewFilter
  BY <1>23 DEF NewFilter, DiscardsBuffered, Quiet
<1> QED
  BY <1>4, <1>5, <1>6, <1>7, <1>8, <1>9, <1>10, <1>11, <1>12, <1>13, <1>14, <1>15, <1>16,
     <1>17, <1>18, <1>19, <1>20, <1>21, <1>22, <1>23 DEF DeviceForm


(* Packets thrown away for breaks, and the breaks themselves. *)
LossInv == BreaksAccounted /\ lost <= MaxBlock * broken

(* Every step keeps that. *)
LEMMA LossInvNext == TypeInv /\ LossInv /\ [AllNext]_vars => LossInv'
<1> SUFFICES ASSUME TypeInv, LossInv, [AllNext]_vars PROVE LossInv'
  OBVIOUS
<1>1. /\ broken \in Nat /\ breaks \in Nat /\ lost \in Nat /\ MaxBlock \in Nat
      /\ break_loop \in BOOLEAN
  BY CaptureAssumption DEF TypeInv, TypeOK
<1>2. FlagStep \/ UNCHANGED vars
  BY FlagReaders, FlagDevice, DeviceForms DEF AllNext
<1>3. MaxBlock * (broken + 1) = MaxBlock * broken + MaxBlock /\ MaxBlock * broken \in Nat
  BY <1>1
<1>4. CASE break_loop' = TRUE /\ breaks' = breaks + 1 /\ UNCHANGED <<broken, lost>>
  BY <1>1, <1>4 DEF LossInv, BreaksAccounted
<1>5. CASE /\ break_loop /\ break_loop' = FALSE
           /\ broken' = broken + 1 /\ breaks' = breaks
           /\ lost' >= lost /\ lost' <= lost + MaxBlock
  <2>1. BreaksAccounted' BY <1>1, <1>5 DEF LossInv, BreaksAccounted
  <2> DEFINE p == MaxBlock * broken
  <2>2. lost <= p /\ p \in Nat /\ MaxBlock * broken' = p + MaxBlock
    BY <1>3, <1>5 DEF LossInv
  <2> HIDE DEF p
  <2>3. lost' \in Int /\ lost' <= p + MaxBlock
    <3>1. TypeInv' BY TypeInvNext
    <3>2. lost' \in Nat BY <3>1 DEF TypeInv, TypeOK
    <3> QED BY <1>1, <1>5, <2>2, <3>2
  <2> QED BY <2>1, <2>2, <2>3 DEF LossInv
<1>6. CASE UNCHANGED <<break_loop, broken, breaks, lost>> \/ UNCHANGED vars
  BY <1>6 DEF LossInv, BreaksAccounted, vars
<1> QED BY <1>2, <1>4, <1>5, <1>6 DEF FlagStep

(* A PcapBreakLoop ends at most one PcapLoop or PcapDispatch. *)
THEOREM BreaksAreAccounted == AllSpec => []BreaksAccounted
<1>1. Init => LossInv
  BY CaptureAssumption DEF Init, LossInv, BreaksAccounted
<1>2. LossInv => BreaksAccounted BY DEF LossInv
<1> QED BY <1>1, <1>2, TypeInvAlways, LossInvNext, PTL DEF AllSpec

(* Every packet that arrived is in the ring, in hand, handed over or counted
   among those thrown away, across breaks, calls, errors and new filters; and
   a break throws away no more than a block. *)
THEOREM EachPacketIsHandledOnce == AllSpec => []EachPacketOnce
<1>1. Init => Balance
  <2> SUFFICES ASSUME Init PROVE Balance
    OBVIOUS
  <2>1. SumFunction(ring) = Len(ring) /\ Len(ring) \in Nat
    <3>1. CASE read_op = "offline"
      <4>1. PICK n \in 0..MaxArrivals : ring = [i \in 1..n |-> 1] BY <3>1 DEF Init
      <4>2. n \in Nat BY CaptureAssumption
      <4> QED BY <4>1, <4>2, SumOfOnes
    <3>2. CASE read_op # "offline" BY <3>2, SumOfNone DEF Init
    <3> QED BY <3>1, <3>2
  <2>2. /\ arrived = Len(ring) /\ again = 0 /\ handled = 0 /\ lost = 0 /\ spoilt = 0
        /\ pc = "idle" /\ cc = 0
    BY DEF Init
  <2>3. Held = 0 /\ Handing = 0 BY <2>2 DEF Held, Handing
  <2> QED BY <2>1, <2>2, <2>3 DEF Balance
<1>2. TypeInv /\ Balance /\ [AllNext]_vars => Balance'
  <2> SUFFICES ASSUME TypeInv, Balance, [AllNext]_vars PROVE Balance'
    OBVIOUS
  <2>1. CASE UNCHANGED vars BY <2>1 DEF vars, Balance, Held, Handing
  <2>2. CASE AllNext BY <2>2, BalanceReaders, BalanceDevice, DeviceForms DEF AllNext
  <2> QED BY <2>1, <2>2
<1>3. Init => LossInv
  BY CaptureAssumption DEF Init, LossInv, BreaksAccounted
<1>4. Balance /\ LossInv => EachPacketOnce
  BY DEF Balance, LossInv, EachPacketOnce, Handing
<1> QED BY <1>1, <1>2, <1>3, <1>4, TypeInvAlways, LossInvNext, PTL DEF AllSpec

-----------------------------------------------------------------------------
(* Callbacks after a break. *)

(* Packets in hand that are handed over before the flag is looked at. *)
InHand == IF read_op \in Several THEN toRead ELSE 1
Coming == IF pc = "packet" THEN InHand ELSE IF AtPacket THEN InHand - 1 ELSE 0

(* What may still come before the flag is looked at. *)
LateInv ==
  read_op \notin {"canusb", "dbus"} =>
    /\ ~break_loop => late = 0
    /\ late + Coming <= BlockSize
    /\ pc \in {"poll", "frames"} => late = 0
    /\ pc = "read" /\ read_op \in Rings => late = 0
    /\ pc = "recv" /\ read_op \in {"packet", "snoop", "snf", "septel"} => late = 0

(* The ring readers look at the flag after a block, the savefile reader
   before every record. *)
LEMMA LateReaders ==
  ASSUME TypeInv, LateInv, Next
  PROVE  LateInv'
<1>1. /\ toRead \in Nat /\ late \in Nat /\ MaxBlock \in Nat \ {0}
      /\ toRead <= MaxBlock
      /\ BlockSize \in 1..MaxBlock /\ (UNCHANGED config => BlockSize' = BlockSize)
      /\ read_op \in {"netfilter", "usb_mmap"} => BlockSize = MaxBlock
  BY CaptureAssumption, RingFacts DEF TypeInv, TypeOK, HandInv, RingOK
<1>h. PlaceInv /\ HandInv /\ RingOK BY RingFacts DEF TypeInv
<1> USE <1>1 DEF LateInv, Coming, InHand, AtPacket, config, device, reader, counters
<1>4. CASE Arrive
  BY <1>4 DEF Arrive
<1>5. CASE PcapBreakLoop
  BY <1>5 DEF PcapBreakLoop
<1>6. CASE PcapLoop \/ PcapDispatch
  BY <1>6 DEF PcapLoop, PcapDispatch, Start
<1>7. CASE ReadLive
  BY <1>7 DEF ReadLive
<1>8. CASE PollReturns
  BY <1>8 DEF PollReturns, Break, Finish
<1>9. CASE PollInterrupted \/ PollFails
  BY <1>9 DEF PollInterrupted, PollFails, Break, Finish
<1>10. CASE TakeFrame
  BY <1>10 DEF TakeFrame
<1>11. CASE TakeBlock
  <2>1. /\ read_op = "v3" /\ pc = "frames" /\ pc' = "packet" /\ ring # <<>>
        /\ UNCHANGED <<read_op, timeout, break_loop, late>> /\ BlockSize' = BlockSize
        /\ toRead' = IF ~Unlimited(cnt) /\ Head(ring) > cnt THEN cnt ELSE Head(ring)
    BY <1>11 DEF TakeBlock
  <2>2. taken + Head(ring) <= BlockSize /\ Head(ring) \in Int /\ taken \in Nat /\ cnt \in Int
    <3>1. Head(ring) \in 1..Chunk /\ Chunk \in 1..MaxBlock BY <1>h, <2>1 DEF RingOK
    <3> QED BY <1>h, <2>1, <3>1 DEF HandInv, Rings, TypeInv, TypeOK
  <2>3. toRead' <= BlockSize /\ toRead' \in Int BY <2>1, <2>2
  <2> QED BY <2>1, <2>3
<1>12. CASE FramesDone
  BY <1>12 DEF FramesDone, Finish, EndRead
<1>13. CASE HandPacket
  BY <1>13 DEF HandPacket
<1>14. CASE FilterPacket
  BY <1>14 DEF FilterPacket
<1>15. CASE FrameCorrupt
  BY <1>15 DEF FrameCorrupt, Finish
<1>16. CASE CallbackReturns
  BY <1>16 DEF CallbackReturns
<1>17. CASE AfterLive
  <2>1. /\ pc = "after" /\ read_op \in Rings /\ UNCHANGED read_op /\ BlockSize' = BlockSize
        /\ read_op \notin Several => toRead <= 1
        /\ late + (InHand - 1) <= BlockSize
    BY <1>h, <1>17 DEF AfterLive, HandInv, Buffered, Rings
  <2>2. CASE toRead > 1
    <3>1. pc' = "packet" /\ toRead' = toRead - 1 /\ UNCHANGED <<break_loop, late>>
      BY <1>17, <2>2 DEF AfterLive
    <3> QED BY <2>1, <2>2, <3>1
  <2>3. CASE ~(toRead > 1) /\ break_loop
    <3>1. pc' = "idle" /\ late' = 0 BY <1>17, <2>3 DEF AfterLive, Break, Finish
    <3> QED BY <2>1, <3>1
  <2>4. CASE ~(toRead > 1) /\ ~break_loop
    <3>1. pc' = "frames" /\ UNCHANGED <<break_loop, late>> BY <1>17, <2>4 DEF AfterLive
    <3>2. late = 0 BY <2>1, <2>4 DEF Rings
    <3> QED BY <2>1, <3>1, <3>2
  <2> QED BY <2>2, <2>3, <2>4
<1>18. CASE ReadOffline
  BY <1>18 DEF ReadOffline
<1>19. CASE NextRecord
  <2>1. /\ pc = "check" /\ ~break_loop /\ pc' = "packet" /\ UNCHANGED <<read_op, break_loop, late>>
        /\ BlockSize' = BlockSize
    BY <1>19 DEF NextRecord
  <2>2. read_op = "offline" BY <1>h, <2>1 DEF PlaceInv
  <2> QED BY <2>1, <2>2 DEF Several
<1>20. CASE CheckBreak
  <2>1. /\ pc = "check" /\ break_loop /\ read_op = "offline"
        /\ UNCHANGED read_op /\ BlockSize' = BlockSize
    BY <1>h, <1>20 DEF CheckBreak, PlaceInv
  <2>2. CASE pkts = 0
    <3>1. pc' = "idle" /\ late' = 0 BY <1>20, <2>2 DEF CheckBreak, Break, Finish
    <3> QED BY <2>1, <3>1
  <2>3. CASE pkts # 0
    <3>1. pc' \in {"idle", "read"} /\ UNCHANGED <<break_loop, late>>
      BY <1>20, <2>3 DEF CheckBreak, EndRead, Finish
    <3> QED BY <2>1, <3>1 DEF Rings
  <2> QED BY <2>2, <2>3
<1>21. CASE EndOfFile
  BY <1>21 DEF EndOfFile, Finish
<1>22. CASE AfterOffline
  BY <1>22 DEF AfterOffline, Finish, EndRead, Rings, Several
<1> QED
  BY <1>4, <1>5, <1>6, <1>7, <1>8, <1>9, <1>10, <1>11, <1>12, <1>13, <1>14, <1>15, <1>16,
     <1>17, <1>18, <1>19, <1>20, <1>21, <1>22 DEF Next, ReaderStep

(* The device readers look at it before or after what they ask for. *)
LEMMA LateDevice ==
  ASSUME TypeInv, LateInv, DeviceForm, DeviceFrame
  PROVE  LateInv'
<1>1. /\ toRead \in Nat /\ late \in Nat /\ MaxBlock \in Nat \ {0}
      /\ toRead <= MaxBlock
      /\ BlockSize \in 1..MaxBlock /\ (UNCHANGED config => BlockSize' = BlockSize)
      /\ read_op \in {"netfilter", "usb_mmap"} => BlockSize = MaxBlock
  BY CaptureAssumption, RingFacts DEF TypeInv, TypeOK, HandInv, RingOK
<1>h. PlaceInv /\ HandInv /\ RingOK BY RingFacts DEF TypeInv
<1>3. BlockSize' = BlockSize /\ UNCHANGED read_op BY <1>1 DEF DeviceFrame, config
<1> USE <1>1, <1>3 DEF LateInv, Coming, InHand, AtPacket, config, device, reader, counters
<1>4. CASE BeginsAsking
  BY <1>4 DEF BeginsAsking, Enter, Quiet
<1>5. CASE BeginsHolding
  BY <1>5 DEF BeginsHolding, Enter, Quiet
<1>6. CASE BeginsReceiving
  BY <1>6 DEF BeginsReceiving
<1>7. CASE GoesOn
  <2>1. PICK l \in {"packet", "chunk", "read", "recv"}, k \in Int :
               Way(l, k) /\ Load(l, k) /\ Quiet /\ Keep
    BY <1>7 DEF GoesOn
  <2>2. pc' = l /\ toRead' = k /\ UNCHANGED <<break_loop, late>> BY <2>1 DEF Load, Quiet
  <2>3. CASE l = "packet"
    <3>1. CASE read_op = "netfilter"
      <4>1. pc = "after" /\ k = toRead - 1 BY <2>1, <2>3, <3>1 DEF Way, Buffered
      <4> QED BY <2>2, <2>3, <3>1, <4>1 DEF Several
    <3>2. CASE read_op = "usb_mmap"
      <4>1. /\ ~break_loop /\ ring # <<>>
            /\ k = IF Len(ring) < FetchLimit THEN Len(ring) ELSE FetchLimit
        BY <2>1, <2>3, <3>2 DEF Way, Buffered
      <4>2. Len(ring) \in Nat /\ FetchLimit \in 1..MaxBlock
        BY <1>h DEF FetchLimit, TypeInv, TypeOK
      <4>3. k <= MaxBlock BY <4>1, <4>2
      <4> QED BY <2>2, <2>3, <3>2, <4>1, <4>3
    <3>3. CASE read_op \notin {"netfilter", "usb_mmap"}
      <4>1. read_op \in Buffered /\ ~break_loop BY <2>1, <2>3, <3>3 DEF Way
      <4> QED BY <2>2, <2>3, <4>1 DEF Several, Buffered
    <3> QED BY <3>1, <3>2, <3>3
  <2>4. CASE l # "packet"
    <3>1. /\ read_op \notin Rings /\ Coming >= 0 /\ pc' \notin {"packet", "callback", "after"}
          /\ pc' \in {"chunk", "read", "recv"}
          /\ pc' = "recv" /\ read_op \in {"packet", "snoop", "snf", "septel"} => ~break_loop
      BY <1>h, <2>1, <2>2, <2>4 DEF Way, HandInv, Buffered, Rings
    <3> QED BY <2>2, <3>1
  <2> QED BY <2>3, <2>4
<1>8. CASE Leaves
  BY <1>8 DEF Leaves, Give, FailWith, Quiet, BreakSet, Break, Finish, EndRead
<1>9. CASE \E l \in {"packet", "chunk"} : Receives(l)
  <2>1. PICK l \in {"packet", "chunk"} : Receives(l) BY <1>9
  <2>2. /\ pc = "recv" /\ pc' = l /\ toRead' = Head(ring) /\ ring # <<>>
        /\ UNCHANGED <<break_loop, late>> /\ read_op \notin Rings
    BY <2>1 DEF Receives, Received, Load, Quiet, Rings, Buffered
  <2>3. CASE l = "packet"
    <3>1. /\ read_op \notin {"canusb", "dbus"} => late = 0
          /\ read_op \in Several => read_op = "netfilter"
      <4>1. read_op \in Rings \cup {"offline"} \cup Receivers \cup Buffered \cup Queues
        BY CaptureAssumption DEF TypeInv, TypeOK
      <4>2. /\ read_op \notin Rings \cup Buffered \cup {"offline", "usb_mmap"}
            /\ read_op \in {"usb", "usb_bin", "bt", "can", "netfilter"} => ~break_loop
        BY <2>1, <2>3 DEF Receives
      <4> QED BY <2>2, <4>1, <4>2 DEF Receivers, Queues, Several
    <3>2. Head(ring) \in 1..MaxBlock
      <4>1. Head(ring) \in 1..Chunk /\ Chunk \in 1..MaxBlock BY <1>h, <2>2 DEF RingOK
      <4> QED BY <4>1
    <3> QED BY <2>2, <2>3, <3>1, <3>2
  <2>4. CASE l = "chunk" BY <2>2, <2>4
  <2> QED BY <2>3, <2>4
<1>10. CASE Drops
  BY <1>10 DEF Drops, Break, Finish
<1>11. CASE Spoils
  BY <1>11 DEF Spoils, Spoil, FailWith, Quiet, Finish
<1>12. CASE Skips
  BY <1>12 DEF Skips, Skip, Quiet
<1>13. CASE LeavesSaving
  BY <1>13 DEF LeavesSaving, Give, FailWith, Quiet, BreakSet, Break, Finish, EndRead, Rings,
     Several, Buffered
<1>14. CASE Forgets
  BY <1>14 DEF Forgets, BreakSet, Break, Finish
<1>15. CASE Damaged
  BY <1>15 DEF Damaged, BadHeader, FailWith, Quiet, Finish
<1>16. CASE EventsGivenBack
  BY <1>16 DEF EventsGivenBack, Quiet
<1>17. CASE EventHandled
  <2>1. /\ read_op = "usb_mmap" /\ pc = "after" /\ UNCHANGED <<break_loop, late>>
        /\ \/ toRead > 1 /\ pc' = "packet" /\ toRead' = toRead - 1
           \/ pc' \in {"chunk", "recv"}
    BY <1>17 DEF EventHandled, Load, Quiet
  <2>2. toRead > 0 BY <1>h, <2>1 DEF HandInv
  <2> QED BY <2>1, <2>2 DEF Several
<1>18. CASE EventsDone
  BY <1>18 DEF EventsDone, Give, Quiet, Finish, EndRead, Rings
<1>19. CASE UsbFlushFails
  BY <1>19 DEF UsbFlushFails, FailWith, Quiet, Finish
<1>20. CASE SnfFiltered
  BY <1>20 DEF SnfFiltered, Quiet
<1>21. CASE OtherMessage
  BY <1>21 DEF OtherMessage, Load, Quiet
<1>22. CASE NoMessage
  BY <1>22 DEF NoMessage, Quiet
<1>23. CASE NewFilter
  BY <1>23 DEF NewFilter, DiscardsBuffered, Quiet
<1> QED
  BY <1>4, <1>5, <1>6, <1>7, <1>8, <1>9, <1>10, <1>11, <1>12, <1>13, <1>14, <1>15, <1>16,
     <1>17, <1>18, <1>19, <1>20, <1>21, <1>22, <1>23 DEF DeviceForm

(* Once the flag is set, a call makes no more callbacks than a block has
   packets, whichever reader it is and whoever set the flag. *)
THEOREM LateCallbacksAreFew == AllSpec => []FewLateCallbacks
<1>1. Init => LateInv
  BY TypeInvInit, RingFacts DEF TypeInv, RingOK, Init, LateInv, Coming, AtPacket
<1>2. TypeInv /\ LateInv /\ [AllNext]_vars => LateInv'
  <2> SUFFICES ASSUME TypeInv, LateInv, [AllNext]_vars PROVE LateInv'
    OBVIOUS
  <2>1. CASE UNCHANGED vars
    BY <2>1 DEF vars, LateInv, Coming, InHand, AtPacket, BlockSize
  <2>2. CASE AllNext BY <2>2, LateReaders, LateDevice, DeviceForms DEF AllNext
  <2> QED BY <2>1, <2>2
<1>3. TypeInv /\ LateInv => FewLateCallbacks
  <2> SUFFICES ASSUME TypeInv, LateInv, read_op \notin {"canusb", "dbus"} PROVE late <= BlockSize
    BY DEF FewLateCallbacks
  <2>1. late \in Nat /\ toRead \in Nat /\ BlockSize \in Nat
    BY RingFacts, CaptureAssumption DEF CaptureAssumption, TypeInv, TypeOK, RingOK
  <2>2. AtPacket /\ read_op \in Several => toRead > 0
    BY DEF TypeInv, HandInv, Several
  <2>3. Coming \in Nat BY <2>1, <2>2 DEF Coming, InHand
  <2> QED BY <2>1, <2>3 DEF LateInv
<1> QED BY <1>1, <1>2, <1>3, TypeInvAlways, PTL DEF AllSpec

-----------------------------------------------------------------------------
(* cnt is what pcap_loop has left of the argument. *)
CntInv ==
  /\ kind = "dispatch" \/ want <= 0 => cnt = want
  /\ want > 0 => 0 < cnt /\ cnt <= want
  /\ pc # "idle" => calls > 0
  /\ pc = "recv" /\ read_op \notin Queues => pkts = 0

(* pcap_loop takes what was counted off cnt, and ends when nothing is left. *)
LEMMA CntReaders ==
  ASSUME TypeInv, CntInv, Next
  PROVE  CntInv'
<1>1. /\ want \in Int /\ cnt \in Int /\ pkts \in Nat /\ calls \in Nat /\ Cnts \subseteq Int
  BY CaptureAssumption DEF TypeInv, TypeOK
<1>2. PlaceInv BY DEF TypeInv
<1> USE <1>1 DEF CntInv, config, device, reader, counters
<1>4. CASE Arrive
  BY <1>4 DEF Arrive
<1>5. CASE PcapBreakLoop
  BY <1>5 DEF PcapBreakLoop
<1>6. CASE PcapLoop \/ PcapDispatch
  <2>1. PICK k \in {"loop", "dispatch"}, c \in Cnts : Start(k, c)
    BY <1>6 DEF PcapLoop, PcapDispatch
  <2>2. c \in Int BY <1>1
  <2> QED BY <2>1, <2>2 DEF Start
<1>7. CASE ReadLive
  BY <1>7 DEF ReadLive
<1>8. CASE PollReturns
  BY <1>8 DEF PollReturns, Break, Finish
<1>9. CASE PollInterrupted \/ PollFails
  BY <1>9 DEF PollInterrupted, PollFails, Break, Finish
<1>10. CASE TakeFrame
  BY <1>10 DEF TakeFrame
<1>11. CASE TakeBlock
  BY <1>11 DEF TakeBlock
<1>12. CASE FramesDone
  BY <1>12 DEF FramesDone, Finish, EndRead
<1>13. CASE HandPacket
  BY <1>13 DEF HandPacket
<1>14. CASE FilterPacket
  BY <1>14 DEF FilterPacket
<1>15. CASE FrameCorrupt
  BY <1>15 DEF FrameCorrupt, Finish
<1>16. CASE CallbackReturns
  BY <1>16 DEF CallbackReturns
<1>17. CASE AfterLive
  BY <1>17 DEF AfterLive, Break, Finish
<1>18. CASE ReadOffline
  BY <1>18 DEF ReadOffline
<1>19. CASE NextRecord
  BY <1>19 DEF NextRecord
<1>20. CASE CheckBreak
  <2>1. CASE pkts = 0
    <3>1. pc' = "idle" /\ UNCHANGED <<kind, want, cnt, calls>>
      BY <1>20, <2>1 DEF CheckBreak, Break, Finish
    <3> QED BY <3>1
  <2>2. CASE pkts # 0
    <3>1. EndRead(pkts) /\ UNCHANGED calls /\ pc = "check" BY <1>20, <2>2 DEF CheckBreak
    <3> QED BY <3>1 DEF EndRead, Finish
  <2> QED BY <2>1, <2>2
<1>21. CASE EndOfFile
  BY <1>21 DEF EndOfFile, Finish
<1>22. CASE AfterOffline
  BY <1>22 DEF AfterOffline, Finish, EndRead
<1> QED
  BY <1>4, <1>5, <1>6, <1>7, <1>8, <1>9, <1>10, <1>11, <1>12, <1>13, <1>14, <1>15, <1>16,
     <1>17, <1>18, <1>19, <1>20, <1>21, <1>22 DEF Next, ReaderStep

(* A device reader hands its count to pcap_loop in the same way. *)
LEMMA CntDevice ==
  ASSUME TypeInv, CntInv, DeviceForm, DeviceFrame
  PROVE  CntInv'
<1>1. /\ want \in Int /\ cnt \in Int /\ pkts \in Nat /\ calls \in Nat /\ Cnts \subseteq Int
  BY CaptureAssumption DEF TypeInv, TypeOK
<1>2. PlaceInv BY DEF TypeInv
<1>3. UNCHANGED <<read_op, calls>> BY DEF DeviceFrame, config
<1> USE <1>1, <1>3 DEF CntInv, config, device, reader, counters
<1>4. CASE BeginsAsking
  BY <1>4 DEF BeginsAsking, Enter
<1>5. CASE BeginsHolding
  BY <1>5 DEF BeginsHolding, Enter
<1>6. CASE BeginsReceiving
  BY <1>6 DEF BeginsReceiving, Enter
<1>7. CASE GoesOn
  BY <1>7 DEF GoesOn, Way, Load, FetchLimit, Queues
<1>8. CASE Leaves
  BY <1>8 DEF Leaves, Give, FailWith, BreakSet, Break, Finish, EndRead
<1>9. CASE \E l \in {"packet", "chunk"} : Receives(l)
  BY <1>9 DEF Receives, Received, Load
<1>10. CASE Drops
  BY <1>10 DEF Drops, Break, Finish
<1>11. CASE Spoils
  BY <1>11 DEF Spoils, Spoil, FailWith, Finish
<1>12. CASE Skips
  BY <1>12 DEF Skips, Skip
<1>13. CASE LeavesSaving
  BY <1>13 DEF LeavesSaving, Saved, Give, FailWith, BreakSet, Break, Finish, EndRead
<1>14. CASE Forgets
  BY <1>14 DEF Forgets, BreakSet, Break, Finish
<1>15. CASE Damaged
  BY <1>15 DEF Damaged, BadHeader, FailWith, Finish
<1>16. CASE EventsGivenBack
  BY <1>16 DEF EventsGivenBack
<1>17. CASE EventHandled
  BY <1>17 DEF EventHandled, Load, Queues
<1>18. CASE EventsDone
  BY <1>18 DEF EventsDone, Give, Finish, EndRead
<1>19. CASE UsbFlushFails
  BY <1>19 DEF UsbFlushFails, FailWith, Finish
<1>20. CASE SnfFiltered
  BY <1>20 DEF SnfFiltered
<1>21. CASE OtherMessage
  BY <1>21 DEF OtherMessage, Load
<1>22. CASE NoMessage
  BY <1>22 DEF NoMessage
<1>23. CASE NewFilter
  BY <1>23 DEF NewFilter, DiscardsBuffered
<1> QED
  BY <1>4, <1>5, <1>6, <1>7, <1>8, <1>9, <1>10, <1>11, <1>12, <1>13, <1>14, <1>15, <1>16,
     <1>17, <1>18, <1>19, <1>20, <1>21, <1>22, <1>23 DEF DeviceForm

(* No more callbacks than were counted, and room for the packets in hand. *)
CountInv ==
  want > 0 /\ ~(read_op = "usb_mmap" /\ kind = "loop") =>
    /\ pc = "read" => seen <= want - cnt
    /\ pc \notin {"read", "idle"} => seen <= want - cnt + pkts
    /\ pc \in {"check", "recv"} => pkts < cnt
    /\ pc = "chunk" /\ read_op \in Buffered \cup {"septel"} => pkts < cnt
    /\ AtPacket /\ read_op = "v3" => pkts + Coming < 2 * cnt /\ pkts + Coming < cnt + MaxBlock
    /\ AtPacket /\ read_op = "netfilter" => pkts + Coming <= MaxBlock
    /\ AtPacket /\ read_op \notin {"v3", "netfilter"} => pkts + Coming <= cnt

(* Nor fewer, for the readers that count what they hand over. *)
SeenInv ==
  read_op \notin {"offline", "snf", "septel"} /\ kind = "loop" /\ want > 0 =>
    /\ pc = "read" => seen >= want - cnt
    /\ pc \notin {"read", "idle"} => seen >= want - cnt + pkts

(* A packet is taken in hand only when there is room for it, or for a block. *)
LEMMA CountReaders ==
  ASSUME TypeInv, CntInv, CountInv, Next
  PROVE  CountInv'
<1>1. /\ Cnts \subseteq Int /\ want \in Int /\ cnt \in Int
      /\ pkts \in Nat /\ seen \in Nat /\ toRead \in Nat
      /\ MaxBlock \in Nat \ {0} /\ toRead <= MaxBlock /\ kind \in {"loop", "dispatch"}
  BY CaptureAssumption DEF TypeInv, TypeOK, HandInv
<1>2. /\ AtPacket /\ read_op # "offline" => toRead > 0
      /\ read_op \notin Several \cup Buffered => toRead <= 1
  BY DEF TypeInv, HandInv
<1>i. PlaceInv /\ RingOK /\ CntInv BY RingFacts DEF TypeInv
<1>n. /\ want > 0 => 0 < cnt /\ cnt <= want
      /\ pc = "recv" /\ read_op \notin Queues => pkts = 0
      /\ pc = "check" => read_op = "offline"
      /\ pc \in {"poll", "frames"} => read_op \in Rings
      /\ pc \in {"recv", "chunk"} => read_op \notin Rings \cup {"offline"}
  BY <1>i DEF CntInv, PlaceInv
<1> USE <1>1, <1>2, <1>n DEF CountInv, Coming, InHand, AtPacket, config, device, reader, counters
<1>4. CASE Arrive
  BY <1>4 DEF Arrive
<1>5. CASE PcapBreakLoop
  BY <1>5 DEF PcapBreakLoop
<1>6. CASE PcapLoop \/ PcapDispatch
  <2>1. PICK k \in {"loop", "dispatch"}, c \in Cnts : Start(k, c)
    BY <1>6 DEF PcapLoop, PcapDispatch
  <2>2. c \in Int BY <1>1
  <2> QED BY <2>1, <2>2 DEF Start
<1>7. CASE ReadLive
  BY <1>7 DEF ReadLive
<1>8. CASE PollReturns
  BY <1>8 DEF PollReturns, Break, Finish
<1>9. CASE PollInterrupted \/ PollFails
  BY <1>9 DEF PollInterrupted, PollFails, Break, Finish
<1>10. CASE TakeFrame
  BY <1>10 DEF TakeFrame, Unlimited, MorePackets
<1>11. CASE TakeBlock
  <2>1. /\ read_op = "v3" /\ pc = "frames" /\ pc' = "packet" /\ ring # <<>> /\ MorePackets
        /\ UNCHANGED <<read_op, kind, want, cnt, pkts, seen>>
        /\ toRead' = IF ~Unlimited(cnt) /\ Head(ring) > cnt THEN cnt ELSE Head(ring)
    BY <1>11 DEF TakeBlock
  <2>2. Head(ring) \in 1..MaxBlock
    <3>1. Head(ring) \in 1..Chunk /\ Chunk \in 1..MaxBlock BY <1>i, <2>1 DEF RingOK
    <3> QED BY <3>1
  <2>3. cnt > 0 => pkts < cnt /\ toRead' <= cnt /\ toRead' <= MaxBlock /\ toRead' \in Int
    BY <2>1, <2>2 DEF MorePackets, Unlimited
  <2>4. want > 0 => pkts + toRead' < 2 * cnt /\ pkts + toRead' < cnt + MaxBlock BY <2>3
  <2> QED BY <2>1, <2>4 DEF Several
<1>12. CASE FramesDone
  BY <1>12 DEF FramesDone, Finish, EndRead, Unlimited, MorePackets
<1>13. CASE HandPacket
  BY <1>13 DEF HandPacket
<1>14. CASE FilterPacket
  BY <1>14 DEF FilterPacket
<1>15. CASE FrameCorrupt
  BY <1>15 DEF FrameCorrupt, Finish
<1>16. CASE CallbackReturns
  BY <1>16 DEF CallbackReturns
<1>17. CASE AfterLive
  <2>1. /\ pc = "after" /\ read_op \in Rings /\ UNCHANGED <<read_op, kind, want, cnt, pkts, seen>>
        /\ \/ toRead > 1 /\ toRead' = toRead - 1 /\ pc' = "packet"
           \/ pc' \in {"frames", "idle"}
    BY <1>17 DEF AfterLive, Break, Finish
  <2>2. pc' = "packet" => Coming' = Coming BY <2>1 DEF Rings, Buffered
  <2>3. Coming \in Int BY DEF Several
  <2> HIDE DEF Coming
  <2> QED BY <2>1, <2>2, <2>3
<1>18. CASE ReadOffline
  BY <1>18 DEF ReadOffline
<1>19. CASE NextRecord
  BY <1>19 DEF NextRecord, Several
<1>20. CASE CheckBreak
  <2>1. CASE pkts = 0
    <3>1. pc' = "idle" /\ UNCHANGED <<read_op, kind, want, cnt, pkts, seen>>
      BY <1>20, <2>1 DEF CheckBreak, Break, Finish
    <3> QED BY <3>1
  <2>2. CASE pkts # 0
    <3>1. EndRead(pkts) /\ UNCHANGED read_op /\ pc = "check" BY <1>20, <2>2 DEF CheckBreak
    <3> QED BY <3>1 DEF EndRead, Finish, Unlimited
  <2> QED BY <2>1, <2>2
<1>21. CASE EndOfFile
  BY <1>21 DEF EndOfFile, Finish
<1>22. CASE AfterOffline
  BY <1>22 DEF AfterOffline, Finish, EndRead, Unlimited
<1> QED
  BY <1>4, <1>5, <1>6, <1>7, <1>8, <1>9, <1>10, <1>11, <1>12, <1>13, <1>14, <1>15, <1>16,
     <1>17, <1>18, <1>19, <1>20, <1>21, <1>22 DEF Next, ReaderStep

(* The same of the device readers. *)
LEMMA CountDevice ==
  ASSUME TypeInv, CntInv, CountInv, DeviceForm, DeviceFrame
  PROVE  CountInv'
<1>1. /\ Cnts \subseteq Int /\ want \in Int /\ cnt \in Int
      /\ pkts \in Nat /\ seen \in Nat /\ toRead \in Nat
      /\ MaxBlock \in Nat \ {0} /\ toRead <= MaxBlock /\ kind \in {"loop", "dispatch"}
  BY CaptureAssumption DEF TypeInv, TypeOK, HandInv
<1>2. /\ AtPacket /\ read_op # "offline" => toRead > 0
      /\ read_op \notin Several \cup Buffered => toRead <= 1
  BY DEF TypeInv, HandInv
<1>i. PlaceInv /\ RingOK /\ CntInv BY RingFacts DEF TypeInv
<1>n. /\ want > 0 => 0 < cnt /\ cnt <= want
      /\ pc = "recv" /\ read_op \notin Queues => pkts = 0
      /\ pc = "check" => read_op = "offline"
      /\ pc \in {"poll", "frames"} => read_op \in Rings
      /\ pc \in {"recv", "chunk"} => read_op \notin Rings \cup {"offline"}
  BY <1>i DEF CntInv, PlaceInv
<1>3. UNCHANGED <<read_op, calls>> BY DEF DeviceFrame, config
<1> USE <1>1, <1>2, <1>n, <1>3 DEF CountInv, Coming, InHand, AtPacket, config, device, reader,
        counters
<1>4. CASE BeginsAsking
  BY <1>4 DEF BeginsAsking, Enter
<1>5. CASE BeginsHolding
  BY <1>5 DEF BeginsHolding, Enter
<1>6. CASE BeginsReceiving
  BY <1>6 DEF BeginsReceiving, Enter
<1>7. CASE GoesOn
  BY <1>7 DEF GoesOn, Way, Load, FetchLimit, Unlimited, MorePackets, Several, Buffered,
     Queues
<1>8. CASE Leaves
  <2>1. /\ pc # "idle" /\ UNCHANGED <<read_op, kind, want, seen, pkts>>
        /\ \/ pc' = "idle"
           \/ pc' = "read" /\ kind = "loop" /\ cnt' = IF Unlimited(cnt) THEN cnt ELSE cnt - pkts
           \/ /\ pc = "recv" /\ pc' = "read" /\ kind = "loop" /\ cnt' = cnt
              /\ read_op \notin {"snf", "septel", "canusb"}
           \/ /\ pc = "recv" /\ pc' = "read" /\ kind = "loop"
              /\ cnt' = IF Unlimited(cnt) THEN cnt ELSE cnt - (pkts + 1)
    BY <1>8 DEF Leaves, BreakSet, Break, FailWith, Give, EndRead, Finish
  <2>2. CASE pc' = "idle" BY <2>1, <2>2
  <2>3. CASE pc' = "read"
    <3>1. want > 0 /\ pc = "recv" /\ read_op \notin {"usb_mmap", "snf", "septel", "canusb"}
            => pkts = 0
      BY DEF Queues
    <3>2. pc # "read" \/ cnt' = cnt
      BY <1>8 DEF Leaves, BreakSet, Break, Finish
    <3>3. want > 0 /\ read_op # "usb_mmap" => seen <= want - cnt + pkts
      BY <2>1, <2>3, <1>8
    <3> QED BY <2>1, <2>3, <3>1, <3>3 DEF Unlimited
  <2> QED BY <2>1, <2>2, <2>3
<1>9. CASE \E l \in {"packet", "chunk"} : Receives(l)
  <2>1. PICK l \in {"packet", "chunk"} : Receives(l) BY <1>9
  <2>2. /\ pc = "recv" /\ pc' = l /\ toRead' = Head(ring) /\ ring # <<>>
        /\ UNCHANGED <<read_op, kind, want, cnt, pkts, seen>>
        /\ l = "packet" => read_op \notin Rings \cup Buffered \cup {"offline", "usb_mmap"}
    BY <2>1 DEF Receives, Received, Load
  <2>3. Head(ring) \in 1..MaxBlock
    <3>1. Head(ring) \in 1..Chunk /\ Chunk \in 1..MaxBlock BY <1>i, <2>2 DEF RingOK
    <3> QED BY <3>1
  <2>4. l = "packet" => Coming' = IF read_op = "netfilter" THEN Head(ring) ELSE 1
    BY <2>2 DEF Several, Rings
  <2>5. want > 0 /\ read_op = "netfilter" => pkts = 0 BY <2>2 DEF Queues
  <2> HIDE DEF Coming
  <2> QED BY <2>2, <2>3, <2>4, <2>5
<1>10. CASE Drops
  BY <1>10 DEF Drops, Break, Finish
<1>11. CASE Spoils
  BY <1>11 DEF Spoils, Spoil, FailWith, Finish
<1>12. CASE Skips
  BY <1>12 DEF Skips, Skip
<1>13. CASE LeavesSaving
  BY <1>13 DEF LeavesSaving, Saved, Give, FailWith, BreakSet, Break, Finish, EndRead,
     Unlimited
<1>14. CASE Forgets
  BY <1>14 DEF Forgets, BreakSet, Break, Finish
<1>15. CASE Damaged
  BY <1>15 DEF Damaged, BadHeader, FailWith, Finish
<1>16. CASE EventsGivenBack
  BY <1>16 DEF EventsGivenBack
<1>17. CASE EventHandled
  BY <1>17 DEF EventHandled, Load, Buffered
<1>18. CASE EventsDone
  BY <1>18 DEF EventsDone, Give, Finish, EndRead
<1>19. CASE UsbFlushFails
  BY <1>19 DEF UsbFlushFails, FailWith, Finish
<1>20. CASE SnfFiltered
  BY <1>20 DEF SnfFiltered
<1>21. CASE OtherMessage
  BY <1>21 DEF OtherMessage, Load
<1>22. CASE NoMessage
  BY <1>22 DEF NoMessage
<1>23. CASE NewFilter
  BY <1>23 DEF NewFilter, DiscardsBuffered
<1> QED
  BY <1>4, <1>5, <1>6, <1>7, <1>8, <1>9, <1>10, <1>11, <1>12, <1>13, <1>14, <1>15, <1>16,
     <1>17, <1>18, <1>19, <1>20, <1>21, <1>22, <1>23 DEF DeviceForm

(* What is counted was handed over: by the ring readers ... *)
LEMMA SeenReaders ==
  ASSUME TypeInv, CntInv, SeenInv, Next
  PROVE  SeenInv'
<1>1. /\ Cnts \subseteq Int /\ want \in Int /\ cnt \in Int
      /\ pkts \in Nat /\ seen \in Nat /\ toRead \in Nat
      /\ MaxBlock \in Nat \ {0} /\ toRead <= MaxBlock /\ kind \in {"loop", "dispatch"}
  BY CaptureAssumption DEF TypeInv, TypeOK, HandInv
<1>2. /\ AtPacket /\ read_op # "offline" => toRead > 0
      /\ read_op \notin Several \cup Buffered => toRead <= 1
  BY DEF TypeInv, HandInv
<1>i. PlaceInv /\ RingOK /\ CntInv BY RingFacts DEF TypeInv
<1>n. /\ want > 0 => 0 < cnt /\ cnt <= want
      /\ pc = "recv" /\ read_op \notin Queues => pkts = 0
      /\ pc = "check" => read_op = "offline"
      /\ pc \in {"poll", "frames"} => read_op \in Rings
      /\ pc \in {"recv", "chunk"} => read_op \notin Rings \cup {"offline"}
  BY <1>i DEF CntInv, PlaceInv
<1> USE <1>1, <1>n DEF SeenInv, config, device, reader, counters
<1>4. CASE Arrive
  BY <1>4 DEF Arrive
<1>5. CASE PcapBreakLoop
  BY <1>5 DEF PcapBreakLoop
<1>6. CASE PcapLoop \/ PcapDispatch
  <2>1. PICK k \in {"loop", "dispatch"}, c \in Cnts : Start(k, c)
    BY <1>6 DEF PcapLoop, PcapDispatch
  <2>2. c \in Int BY <1>1
  <2> QED BY <2>1, <2>2 DEF Start
<1>7. CASE ReadLive
  BY <1>7 DEF ReadLive
<1>8. CASE PollReturns
  BY <1>8 DEF PollReturns, Break, Finish
<1>9. CASE PollInterrupted \/ PollFails
  BY <1>9 DEF PollInterrupted, PollFails, Break, Finish
<1>10. CASE TakeFrame
  BY <1>10 DEF TakeFrame
<1>11. CASE TakeBlock
  BY <1>11 DEF TakeBlock
<1>12. CASE FramesDone
  BY <1>12 DEF FramesDone, Finish, EndRead
<1>13. CASE HandPacket
  BY <1>13 DEF HandPacket
<1>14. CASE FilterPacket
  BY <1>14 DEF FilterPacket
<1>15. CASE FrameCorrupt
  BY <1>15 DEF FrameCorrupt, Finish
<1>16. CASE CallbackReturns
  BY <1>16 DEF CallbackReturns
<1>17. CASE AfterLive
  BY <1>17 DEF AfterLive, Break, Finish
<1>18. CASE ReadOffline
  BY <1>18 DEF ReadOffline
<1>19. CASE NextRecord
  BY <1>19 DEF NextRecord
<1>20. CASE CheckBreak
  BY <1>20 DEF CheckBreak
<1>21. CASE EndOfFile
  BY <1>21 DEF EndOfFile
<1>22. CASE AfterOffline
  BY <1>22 DEF AfterOffline
<1> QED
  BY <1>4, <1>5, <1>6, <1>7, <1>8, <1>9, <1>10, <1>11, <1>12, <1>13, <1>14, <1>15, <1>16,
     <1>17, <1>18, <1>19, <1>20, <1>21, <1>22 DEF Next, ReaderStep

(* ... and by the device readers, except SNF and Septel. *)
LEMMA SeenDevice ==
  ASSUME TypeInv, CntInv, SeenInv, DeviceForm, DeviceFrame
  PROVE  SeenInv'
<1>1. /\ Cnts \subseteq Int /\ want \in Int /\ cnt \in Int
      /\ pkts \in Nat /\ seen \in Nat /\ toRead \in Nat
      /\ MaxBlock \in Nat \ {0} /\ toRead <= MaxBlock /\ kind \in {"loop", "dispatch"}
  BY CaptureAssumption DEF TypeInv, TypeOK, HandInv
<1>2. /\ AtPacket /\ read_op # "offline" => toRead > 0
      /\ read_op \notin Several \cup Buffered => toRead <= 1
  BY DEF TypeInv, HandInv
<1>i. PlaceInv /\ RingOK /\ CntInv BY RingFacts DEF TypeInv
<1>n. /\ want > 0 => 0 < cnt /\ cnt <= want
      /\ pc = "recv" /\ read_op \notin Queues => pkts = 0
      /\ pc = "check" => read_op = "offline"
      /\ pc \in {"poll", "frames"} => read_op \in Rings
      /\ pc \in {"recv", "chunk"} => read_op \notin Rings \cup {"offline"}
  BY <1>i DEF CntInv, PlaceInv
<1>3. UNCHANGED <<read_op, calls>> BY DEF DeviceFrame, config
<1> USE <1>1, <1>n, <1>3 DEF SeenInv, config, device, reader, counters
<1>4. CASE BeginsAsking
  BY <1>4 DEF BeginsAsking, Enter
<1>5. CASE BeginsHolding
  BY <1>5 DEF BeginsHolding, Enter
<1>6. CASE BeginsReceiving
  BY <1>6 DEF BeginsReceiving, Enter
<1>7. CASE GoesOn
  BY <1>7 DEF GoesOn, Way, Load, FetchLimit
<1>8. CASE Leaves
  BY <1>8 DEF Leaves, Give, FailWith, BreakSet, Break, Finish, EndRead
<1>9. CASE \E l \in {"packet", "chunk"} : Receives(l)
  BY <1>9 DEF Receives, Received, Load
<1>10. CASE Drops
  BY <1>10 DEF Drops, Break, Finish
<1>11. CASE Spoils
  BY <1>11 DEF Spoils, Spoil, FailWith, Finish
<1>12. CASE Skips
  BY <1>12 DEF Skips, Skip
<1>13. CASE LeavesSaving
  BY <1>13 DEF LeavesSaving, Saved, Give, FailWith, BreakSet, Break, Finish, EndRead
<1>14. CASE Forgets
  BY <1>14 DEF Forgets, BreakSet, Break, Finish
<1>15. CASE Damaged
  BY <1>15 DEF Damaged, BadHeader, FailWith, Finish
<1>16. CASE EventsGivenBack
  BY <1>16 DEF EventsGivenBack
<1>17. CASE EventHandled
  BY <1>17 DEF EventHandled, Load
<1>18. CASE EventsDone
  BY <1>18 DEF EventsDone, Give, Finish, EndRead
<1>19. CASE UsbFlushFails
  BY <1>19 DEF UsbFlushFails, FailWith, Finish
<1>20. CASE SnfFiltered
  BY <1>20 DEF SnfFiltered
<1>21. CASE OtherMessage
  BY <1>21 DEF OtherMessage
<1>22. CASE NoMessage
  BY <1>22 DEF NoMessage
<1>23. CASE NewFilter
  BY <1>23 DEF NewFilter, DiscardsBuffered
<1> QED
  BY <1>4, <1>5, <1>6, <1>7, <1>8, <1>9, <1>10, <1>11, <1>12, <1>13, <1>14, <1>15, <1>16,
     <1>17, <1>18, <1>19, <1>20, <1>21, <1>22, <1>23 DEF DeviceForm

(* A result of 0 ends pcap_loop only when cnt packets were counted. *)
LEMMA ZeroReaders ==
  ASSUME TypeInv, CntInv, SeenInv, ZeroMeansAll, Next
  PROVE  ZeroMeansAll'
<1>1. /\ Cnts \subseteq Int /\ want \in Int /\ cnt \in Int /\ pkts \in Nat /\ seen \in Nat
      /\ want <= 0 => cnt = want
      /\ PCAP_ERROR # 0 /\ PCAP_ERROR_BREAK # 0
      /\ pc = "check" => read_op = "offline"
      /\ pc # "idle" => calls > 0
  BY CaptureAssumption DEF TypeInv, TypeOK, PlaceInv, CntInv, PCAP_ERROR, PCAP_ERROR_BREAK
<1> USE <1>1 DEF SeenInv, ZeroMeansAll, config, device, reader, counters
<1>4. CASE Arrive
  BY <1>4 DEF Arrive
<1>5. CASE PcapBreakLoop
  BY <1>5 DEF PcapBreakLoop
<1>6. CASE PcapLoop \/ PcapDispatch
  <2>1. PICK k \in {"loop", "dispatch"}, c \in Cnts : Start(k, c)
    BY <1>6 DEF PcapLoop, PcapDispatch
  <2>2. c \in Int BY <1>1
  <2> QED BY <2>1, <2>2 DEF Start
<1>7. CASE ReadLive
  BY <1>7 DEF ReadLive
<1>8. CASE PollReturns
  BY <1>8 DEF PollReturns, Break, Finish
<1>9. CASE PollInterrupted \/ PollFails
  BY <1>9 DEF PollInterrupted, PollFails, Break, Finish
<1>10. CASE TakeFrame
  BY <1>10 DEF TakeFrame
<1>11. CASE TakeBlock
  BY <1>11 DEF TakeBlock
<1>12. CASE FramesDone
  BY <1>12 DEF FramesDone, Finish, EndRead, Unlimited
<1>13. CASE HandPacket
  BY <1>13 DEF HandPacket
<1>14. CASE FilterPacket
  BY <1>14 DEF FilterPacket
<1>15. CASE FrameCorrupt
  BY <1>15 DEF FrameCorrupt, Finish
<1>16. CASE CallbackReturns
  BY <1>16 DEF CallbackReturns
<1>17. CASE AfterLive
  BY <1>17 DEF AfterLive, Break, Finish
<1>18. CASE ReadOffline
  BY <1>18 DEF ReadOffline
<1>19. CASE NextRecord
  BY <1>19 DEF NextRecord
<1>20. CASE CheckBreak
  BY <1>20 DEF CheckBreak
<1>21. CASE EndOfFile
  BY <1>21 DEF EndOfFile
<1>22. CASE AfterOffline
  BY <1>22 DEF AfterOffline
<1> QED
  BY <1>4, <1>5, <1>6, <1>7, <1>8, <1>9, <1>10, <1>11, <1>12, <1>13, <1>14, <1>15, <1>16,
     <1>17, <1>18, <1>19, <1>20, <1>21, <1>22 DEF Next, ReaderStep

(* No device reader has another way to end pcap_loop with 0. *)
LEMMA ZeroDevice ==
  ASSUME TypeInv, CntInv, SeenInv, ZeroMeansAll, DeviceForm, DeviceFrame
  PROVE  ZeroMeansAll'
<1>1. /\ Cnts \subseteq Int /\ want \in Int /\ cnt \in Int /\ pkts \in Nat /\ seen \in Nat
      /\ want <= 0 => cnt = want
      /\ PCAP_ERROR # 0 /\ PCAP_ERROR_BREAK # 0
      /\ pc = "check" => read_op = "offline"
      /\ pc # "idle" => calls > 0
  BY CaptureAssumption DEF TypeInv, TypeOK, PlaceInv, CntInv, PCAP_ERROR, PCAP_ERROR_BREAK
<1>3. UNCHANGED <<read_op, calls>> BY DEF DeviceFrame, config
<1> USE <1>1, <1>3 DEF SeenInv, ZeroMeansAll, config, device, reader, counters
<1>4. CASE BeginsAsking
  BY <1>4 DEF BeginsAsking, Enter
<1>5. CASE BeginsHolding
  BY <1>5 DEF BeginsHolding, Enter
<1>6. CASE BeginsReceiving
  BY <1>6 DEF BeginsReceiving, Enter
<1>7. CASE GoesOn
  BY <1>7 DEF GoesOn, Way, Load, FetchLimit
<1>8. CASE Leaves
  BY <1>8 DEF Leaves, Give, FailWith, BreakSet, Break, Finish, EndRead, Unlimited
<1>9. CASE \E l \in {"packet", "chunk"} : Receives(l)
  BY <1>9 DEF Receives, Received, Load
<1>10. CASE Drops
  BY <1>10 DEF Drops, Break, Finish
<1>11. CASE Spoils
  BY <1>11 DEF Spoils, Spoil, FailWith, Finish
<1>12. CASE Skips
  BY <1>12 DEF Skips, Skip
<1>13. CASE LeavesSaving
  BY <1>13 DEF LeavesSaving, Saved, Give, FailWith, BreakSet, Break, Finish, EndRead,
     Unlimited
<1>14. CASE Forgets
  BY <1>14 DEF Forgets, BreakSet, Break, Finish
<1>15. CASE Damaged
  BY <1>15 DEF Damaged, BadHeader, FailWith, Finish
<1>16. CASE EventsGivenBack
  BY <1>16 DEF EventsGivenBack
<1>17. CASE EventHandled
  BY <1>17 DEF EventHandled, Load
<1>18. CASE EventsDone
  BY <1>18 DEF EventsDone, Give, Finish, EndRead, Unlimited
<1>19. CASE UsbFlushFails
  BY <1>19 DEF UsbFlushFails, FailWith, Finish
<1>20. CASE SnfFiltered
  BY <1>20 DEF SnfFiltered
<1>21. CASE OtherMessage
  BY <1>21 DEF OtherMessage
<1>22. CASE NoMessage
  BY <1>22 DEF NoMessage
<1>23. CASE NewFilter
  BY <1>23 DEF NewFilter, DiscardsBuffered
<1> QED
  BY <1>4, <1>5, <1>6, <1>7, <1>8, <1>9, <1>10, <1>11, <1>12, <1>13, <1>14, <1>15, <1>16,
     <1>17, <1>18, <1>19, <1>20, <1>21, <1>22, <1>23 DEF DeviceForm

(* Who changes what pcap_callback counts, and the result. *)
Calls ==
  \/ UNCHANGED <<read_op, kind, want, seen>>
  \/ seen' = 0 /\ want' \in Int
  \/ HandPacket

(* No other step does. *)
LEMMA CallsOfAStep ==
  ASSUME TypeInv, [AllNext]_vars
  PROVE  Calls
<1> USE DEF config, device, reader, counters
<1>1. CASE UNCHANGED vars BY <1>1 DEF vars, Calls
<1>2. CASE Next
  <2>1. CASE PcapLoop \/ PcapDispatch
    <3>1. PICK k \in {"loop", "dispatch"}, c \in Cnts : Start(k, c)
      BY <2>1 DEF PcapLoop, PcapDispatch
    <3>2. c \in Int BY CaptureAssumption
    <3> QED BY <3>1, <3>2 DEF Start, Calls
  <2>2. CASE Arrive \/ PcapBreakLoop \/ ReadLive \/ PollReturns \/ PollInterrupted \/ PollFails
    BY <2>2 DEF Arrive, PcapBreakLoop, ReadLive, PollReturns, PollInterrupted, PollFails,
       Break, Finish, Calls
  <2>3. CASE TakeFrame \/ TakeBlock \/ FramesDone \/ FilterPacket \/ FrameCorrupt
    BY <2>3 DEF TakeFrame, TakeBlock, FramesDone, FilterPacket, FrameCorrupt, EndRead,
       Finish, Calls
  <2>4. CASE CallbackReturns \/ AfterLive \/ ReadOffline \/ NextRecord
    BY <2>4 DEF CallbackReturns, AfterLive, ReadOffline, NextRecord, Break, Finish, Calls
  <2>5. CASE CheckBreak \/ EndOfFile \/ AfterOffline
    BY <2>5 DEF CheckBreak, EndOfFile, AfterOffline, EndRead, Break, Finish, Calls
  <2>6. CASE HandPacket BY <2>6 DEF Calls
  <2> QED BY <1>2, <2>1, <2>2, <2>3, <2>4, <2>5, <2>6 DEF Next, ReaderStep
<1>3. CASE DeviceForm /\ DeviceFrame
  <2>1. UNCHANGED read_op BY <1>3 DEF DeviceFrame
  <2>2. CASE BeginsAsking \/ BeginsHolding \/ BeginsReceiving \/ GoesOn
    BY <2>1, <2>2 DEF BeginsAsking, BeginsHolding, BeginsReceiving, GoesOn, Enter, Load,
       Calls
  <2>3. CASE Leaves
    BY <2>1, <2>3 DEF Leaves, BreakSet, FailWith, Give, EndRead, Break, Finish, Calls
  <2>4. CASE (\E l \in {"packet", "chunk"} : Receives(l)) \/ Drops \/ Spoils \/ Skips
    BY <2>1, <2>4 DEF Receives, Received, Load, Drops, Spoils, Spoil, FailWith, Skips, Skip,
       Break, Finish, Calls
  <2>5. CASE LeavesSaving \/ Forgets \/ Damaged
    BY <2>1, <2>5 DEF LeavesSaving, Forgets, Damaged, BadHeader, BreakSet, FailWith, Give,
       EndRead, Break, Finish, Calls
  <2>6. CASE EventsGivenBack \/ EventHandled \/ EventsDone \/ UsbFlushFails
    BY <2>1, <2>6 DEF EventsGivenBack, EventHandled, EventsDone, UsbFlushFails, Load,
       FailWith, Give, EndRead, Finish, Calls
  <2>7. CASE SnfFiltered \/ OtherMessage \/ NoMessage \/ NewFilter
    BY <2>1, <2>7 DEF SnfFiltered, OtherMessage, NoMessage, NewFilter, DiscardsBuffered,
       Load, Calls
  <2> QED BY <1>3, <2>2, <2>3, <2>4, <2>5, <2>6, <2>7 DEF DeviceForm
<1> QED BY <1>1, <1>2, <1>3, DeviceForms DEF AllNext

(* The invariants of the counts hold of every step. *)
LEMMA CountsNext ==
  ASSUME TypeInv, CntInv, [AllNext]_vars
  PROVE  CntInv' /\ (CountInv => CountInv') /\ (SeenInv => SeenInv')
<1>1. CASE UNCHANGED vars
  BY <1>1 DEF vars, CntInv, CountInv, SeenInv, Coming, InHand, AtPacket
<1>2. CASE Next
  <2>1. CntInv' BY <1>2, CntReaders
  <2>2. CountInv => CountInv' BY <1>2, CountReaders
  <2>3. SeenInv => SeenInv' BY <1>2, SeenReaders
  <2> QED BY <2>1, <2>2, <2>3
<1>3. CASE DeviceStep \/ DeviceChoice
  <2>1. DeviceForm /\ DeviceFrame BY <1>3, DeviceForms
  <2>2. CntInv' BY <2>1, CntDevice
  <2>3. CountInv => CountInv' BY <2>1, CountDevice
  <2>4. SeenInv => SeenInv' BY <2>1, SeenDevice
  <2> QED BY <2>2, <2>3, <2>4
<1> QED BY <1>1, <1>2, <1>3 DEF AllNext

(* What pcap_loop has left of cnt, in every behaviour. *)
LEMMA CntInvAlways == AllSpec => []CntInv
<1>1. Init => CntInv BY DEF Init, CntInv
<1> QED BY <1>1, TypeInvAlways, CountsNext, PTL DEF AllSpec

(* No reader exceeds cnt by a block or more, and none but netfilter doubles
   it: the packets in hand are bounded by what is left to count. *)
THEOREM CntIsNearlyMaximum == AllSpec => []CntNearlyMaximum
<1>1. Init => CountInv /\ CntNearlyMaximum
  BY DEF Init, CountInv, CntNearlyMaximum
<1>2. TypeInv /\ CntInv /\ CountInv /\ CntNearlyMaximum /\ [AllNext]_vars => CntNearlyMaximum'
  <2> SUFFICES ASSUME TypeInv, CntInv, CountInv, CntNearlyMaximum, [AllNext]_vars
               PROVE  CntNearlyMaximum'
    OBVIOUS
  <2>t. /\ want \in Int /\ cnt \in Int /\ pkts \in Nat /\ seen \in Nat /\ toRead \in Nat
        /\ MaxBlock \in Nat \ {0} /\ BlockSize \in 1..MaxBlock
        /\ read_op \in {"v3", "netfilter"} => BlockSize = MaxBlock
    BY CaptureAssumption, RingFacts DEF CaptureAssumption, TypeInv, TypeOK, RingOK,
       BlockSize
  <2>1. CASE UNCHANGED <<read_op, kind, want, seen>>
    BY <2>1 DEF CntNearlyMaximum, BlockSize
  <2>2. CASE seen' = 0 /\ want' \in Int
    <3>0. \A w \in Int : w > 0 => 0 <= w /\ 0 < 2 * w
      OBVIOUS
    <3>1. want' > 0 => seen' <= want' /\ seen' < 2 * want' BY <2>2, <3>0
    <3> QED BY <3>1 DEF CntNearlyMaximum
  <2>3. CASE HandPacket
    <3>1. /\ pc = "packet" /\ seen' = seen + 1 /\ UNCHANGED <<read_op, kind, want>>
      BY <2>3 DEF HandPacket, config
    <3>2. BlockSize' = BlockSize BY <3>1 DEF BlockSize
    <3> SUFFICES ASSUME want > 0, ~(read_op = "usb_mmap" /\ kind = "loop")
                 PROVE  /\ seen + 1 <= want \/ seen + 1 - want < BlockSize
                        /\ seen + 1 < 2 * want \/ read_op = "netfilter"
      <4>1. /\ seen' <= want' <=> seen + 1 <= want
            /\ seen' - want' < BlockSize' <=> seen + 1 - want < BlockSize
        BY <2>t, <3>1, <3>2
      <4>2. seen' < 2 * want' <=> seen + 1 < 2 * want
        BY <2>t, <3>1
      <4> QED BY <3>1, <4>1, <4>2 DEF CntNearlyMaximum
    <3>3. seen <= want - cnt + pkts /\ 0 < cnt /\ cnt <= want BY <3>1 DEF CountInv, CntInv
    <3>4. Coming >= 1 /\ Coming \in Int
      <4>1. read_op \in Several => toRead > 0
        BY <3>1 DEF TypeInv, HandInv, AtPacket, Several
      <4> QED BY <2>t, <3>1, <4>1 DEF Coming, InHand
    <3>5. CASE read_op = "v3"
      <4>1. pkts + Coming < 2 * cnt /\ pkts + Coming < cnt + MaxBlock
        BY <3>1, <3>5 DEF CountInv, AtPacket
      <4> QED BY <2>t, <3>3, <3>4, <3>5, <4>1
    <3>6. CASE read_op = "netfilter"
      <4>1. pkts + Coming <= MaxBlock BY <3>1, <3>6 DEF CountInv, AtPacket
      <4> QED BY <2>t, <3>3, <3>4, <3>6, <4>1
    <3>7. CASE read_op \notin {"v3", "netfilter"}
      <4>1. pkts + Coming <= cnt BY <3>1, <3>7 DEF CountInv, AtPacket
      <4> QED BY <2>t, <3>3, <3>4, <3>7, <4>1
    <3> QED BY <3>5, <3>6, <3>7
  <2> QED BY <2>1, <2>2, <2>3, CallsOfAStep DEF Calls
<1> QED BY <1>1, <1>2, TypeInvAlways, CntInvAlways, CountsNext, PTL DEF AllSpec

(* When PcapLoop on a live handle returns 0, cnt was positive and there were at
   least cnt callbacks: seen keeps up with what pcap_loop has counted. *)
THEOREM ZeroMeansThatAllWereSeen == AllSpec => []ZeroMeansAll
<1>1. Init => SeenInv /\ ZeroMeansAll
  BY DEF Init, SeenInv, ZeroMeansAll
<1>2. TypeInv /\ CntInv /\ SeenInv /\ ZeroMeansAll /\ [AllNext]_vars => ZeroMeansAll'
  <2> SUFFICES ASSUME TypeInv, CntInv, SeenInv, ZeroMeansAll, [AllNext]_vars
               PROVE  ZeroMeansAll'
    OBVIOUS
  <2>1. CASE Next BY <2>1, ZeroReaders
  <2>2. CASE UNCHANGED vars BY <2>2 DEF vars, ZeroMeansAll
  <2>3. CASE DeviceStep \/ DeviceChoice BY <2>3, DeviceForms, ZeroDevice
  <2> QED BY <2>1, <2>2, <2>3 DEF AllNext
<1> QED BY <1>1, <1>2, TypeInvAlways, CntInvAlways, CountsNext, PTL DEF AllSpec
==============================================================================
