----------------------- MODULE ConnectionBufferProofs -----------------------
(***************************************************************************)
(* Proofs about ConnectionBuffer, for frames and limits of any size and    *)
(* queues of any length.  Nothing of the argument is about the three       *)
(* queues a chunk passes through: putting chunks on the channel leaves the *)
(* Line of an end as it was, so that a chunk only ever leaves it at the    *)
(* front.                                                                  *)
(***************************************************************************)
EXTENDS ConnectionBuffer, FiniteSetTheorems, SequenceTheorems, WellFoundedInduction, TLAPS

-----------------------------------------------------------------------------
(* Sums.  Induction is by the least number that would be an exception.     *)

LEMMA Least ==
    ASSUME NEW S \in SUBSET Nat, S # {}
    PROVE  \E x \in S : \A y \in S : x <= y
<1>1. PICK x \in S : \A y \in S : <<y, x>> \notin OpToRel(<, Nat)
  BY NatLessThanWellFounded, WFMin
<1>2. \A y \in S : ~(y < x)
  BY <1>1, Zenon DEF OpToRel
<1> QED
  BY <1>2

(* Partial sums: f[n] is the sum of the first n. *)
Sums(s, m, f) ==
    f \in [0 .. m -> Nat] /\ f[0] = 0 /\ \A n \in 1 .. m : f[n] = f[n - 1] + s[n]

LEMMA SumsExist ==
    ASSUME NEW s \in Seq(Nat), NEW m \in 0 .. Len(s)
    PROVE  \E f : Sums(s, m, f)
<1> DEFINE Bad == {k \in 0 .. Len(s) : ~\E f : Sums(s, k, f)}
<1> SUFFICES ASSUME Bad # {} PROVE FALSE
  OBVIOUS
<1>0. Bad \in SUBSET Nat
  OBVIOUS
<1>1. PICK k \in Bad : \A j \in Bad : k <= j
  BY <1>0, Least
<1>2. k # 0
  <2>1. Sums(s, 0, [n \in 0 .. 0 |-> 0])
    BY DEF Sums
  <2> QED
    BY <2>1
<1>3. k - 1 \in 0 .. Len(s) /\ k - 1 \notin Bad
  BY <1>1, <1>2
<1>4. PICK f : Sums(s, k - 1, f)
  BY <1>3
<1> DEFINE g == [n \in 0 .. k |-> IF n < k THEN f[n] ELSE f[k - 1] + s[k]]
<1>5. Sums(s, k, g)
  <2>1. k \in Nat /\ k > 0 /\ s[k] \in Nat /\ f[k - 1] \in Nat
    BY <1>1, <1>2, <1>4 DEF Sums
  <2>2. g \in [0 .. k -> Nat] /\ g[0] = 0
    BY <1>4, <2>1 DEF Sums
  <2>3. ASSUME NEW n \in 1 .. k PROVE g[n] = g[n - 1] + s[n]
    BY <1>4, <2>1 DEF Sums
  <2> QED
    BY <2>2, <2>3 DEF Sums
<1> QED
  BY <1>1, <1>5

LEMMA SumsUnique ==
    ASSUME NEW s \in Seq(Nat), NEW m \in 0 .. Len(s), NEW f, NEW g, Sums(s, m, f), Sums(s, m, g)
    PROVE  \A n \in 0 .. m : f[n] = g[n]
<1> DEFINE Bad == {k \in 0 .. m : f[k] # g[k]}
<1> SUFFICES ASSUME Bad # {} PROVE FALSE
  OBVIOUS
<1>0. Bad \in SUBSET Nat
  OBVIOUS
<1>1. PICK k \in Bad : \A j \in Bad : k <= j
  BY <1>0, Least
<1>2. k # 0
  BY DEF Sums
<1>3. k - 1 \in 0 .. m /\ f[k - 1] = g[k - 1]
  BY <1>1, <1>2
<1> QED
  BY <1>1, <1>2, <1>3 DEF Sums

LEMMA TotalSums ==
    ASSUME NEW s \in Seq(Nat), NEW f, Sums(s, Len(s), f)
    PROVE  Total(s) = f[Len(s)] /\ Total(s) \in Nat
<1> DEFINE Is(h) == h = [n \in 0 .. Len(s) |-> IF n = 0 THEN 0 ELSE h[n - 1] + s[n]]
           sum == CHOOSE h : Is(h)
<1>1. Is(f)
  BY DEF Sums
<1>2. Is(sum)
  BY <1>1
<1> HIDE DEF sum
<1>3. \A n \in 0 .. Len(s) : sum[n] = f[n]
  <2> DEFINE Bad == {k \in 0 .. Len(s) : sum[k] # f[k]}
  <2> SUFFICES ASSUME Bad # {} PROVE FALSE
    OBVIOUS
  <2>0. Bad \in SUBSET Nat
    OBVIOUS
  <2>1. PICK k \in Bad : \A j \in Bad : k <= j
    BY <2>0, Least
  <2>2. sum[k] = IF k = 0 THEN 0 ELSE sum[k - 1] + s[k]
    BY <1>2
  <2>3. k # 0
    BY <2>1, <2>2 DEF Sums
  <2>4. k - 1 \in 0 .. Len(s) /\ sum[k - 1] = f[k - 1]
    BY <2>1, <2>3
  <2> QED
    BY <2>1, <2>2, <2>3, <2>4 DEF Sums
<1>4. Total(s) = sum[Len(s)]
  BY DEF Total, sum
<1> QED
  BY <1>3, <1>4 DEF Sums

LEMMA TotalEmpty == Total(<<>>) = 0
<1>1. <<>> \in Seq(Nat) /\ Len(<<>>) = 0
  OBVIOUS
<1>2. Sums(<<>>, 0, [n \in 0 .. 0 |-> 0])
  BY DEF Sums
<1> QED
  BY <1>1, <1>2, TotalSums

LEMMA TotalZeros ==
    ASSUME NEW s \in Seq(Nat), \A i \in DOMAIN s : s[i] = 0
    PROVE  Total(s) = 0
<1>1. Sums(s, Len(s), [n \in 0 .. Len(s) |-> 0])
  BY DEF Sums
<1> QED
  BY <1>1, TotalSums

LEMMA TotalOne ==
    ASSUME NEW x \in Nat
    PROVE  Total(<<x>>) = x
<1>1. <<x>> \in Seq(Nat) /\ Len(<<x>>) = 1 /\ <<x>>[1] = x
  OBVIOUS
<1>2. Sums(<<x>>, 1, [n \in 0 .. 1 |-> IF n = 0 THEN 0 ELSE x])
  BY <1>1 DEF Sums
<1> QED
  BY <1>1, <1>2, TotalSums

LEMMA TotalNat ==
    ASSUME NEW s \in Seq(Nat)
    PROVE  Total(s) \in Nat
BY SumsExist, TotalSums

LEMMA TotalConcat ==
    ASSUME NEW s \in Seq(Nat), NEW t \in Seq(Nat)
    PROVE  Total(s \o t) = Total(s) + Total(t)
<1>1. PICK f : Sums(s, Len(s), f)
  BY SumsExist
<1>2. PICK g : Sums(t, Len(t), g)
  BY SumsExist
<1>3. /\ s \o t \in Seq(Nat) /\ Len(s \o t) = Len(s) + Len(t)
      /\ Len(s) \in Nat /\ Len(t) \in Nat
      /\ \A i \in 1 .. Len(s) : (s \o t)[i] = s[i]
      /\ \A i \in Len(s) + 1 .. Len(s) + Len(t) : (s \o t)[i] = t[i - Len(s)]
  OBVIOUS
<1>0. f[Len(s)] \in Nat
  <2>1. Len(s) \in 0 .. Len(s) /\ f \in [0 .. Len(s) -> Nat]
    BY <1>1, <1>3 DEF Sums
  <2> QED
    BY <2>1
<1> DEFINE m == Len(s)
           h == [n \in 0 .. Len(s) + Len(t) |-> IF n <= m THEN f[n] ELSE f[m] + g[n - m]]
<1>4. /\ f \in [0 .. m -> Nat] /\ f[0] = 0 /\ g \in [0 .. Len(t) -> Nat] /\ g[0] = 0
      /\ \A n \in 1 .. m : f[n] = f[n - 1] + s[n]
      /\ \A n \in 1 .. Len(t) : g[n] = g[n - 1] + t[n]
  BY <1>1, <1>2 DEF Sums
<1>5. h \in [0 .. Len(s) + Len(t) -> Nat] /\ h[0] = 0 /\ h[m + Len(t)] = f[m] + g[Len(t)]
  <2>1. ASSUME NEW n \in 0 .. Len(s) + Len(t)
        PROVE  (IF n <= m THEN f[n] ELSE f[m] + g[n - m]) \in Nat
    <3>1. CASE n <= m
      BY <1>3, <1>4, <3>1
    <3>2. CASE n > m
      <4>1. n - m \in 0 .. Len(t) /\ m \in 0 .. m
        BY <1>3, <3>2
      <4>2. f[m] \in Nat /\ g[n - m] \in Nat
        BY <1>4, <4>1
      <4> QED
        BY <1>3, <3>2, <4>2
    <3> QED
      BY <1>3, <3>1, <3>2
  <2>2. h[0] = 0
    BY <1>3, <1>4
  <2>3. h[m + Len(t)] = f[m] + g[Len(t)]
    <3>1. CASE Len(t) = 0
      BY <1>0, <1>3, <1>4, <3>1
    <3>2. CASE Len(t) # 0
      BY <1>3, <3>2
    <3> QED
      BY <3>1, <3>2
  <2> QED
    BY <2>1, <2>2, <2>3
<1>6. ASSUME NEW n \in 1 .. Len(s) + Len(t) PROVE h[n] = h[n - 1] + (s \o t)[n]
  <2>1. CASE n <= m
    BY <1>3, <1>4, <2>1
  <2>2. CASE n = m + 1
    BY <1>3, <1>4, <2>2
  <2>3. CASE n > m + 1
    <3>1. h[n] = f[m] + g[n - m] /\ h[n - 1] = f[m] + g[n - m - 1] /\ n - m \in 1 .. Len(t)
      BY <1>3, <2>3
    <3>2. g[n - m] = g[n - m - 1] + t[n - m]
      BY <1>4, <3>1
    <3>3. (s \o t)[n] = t[n - m]
      BY <1>3, <2>3
    <3>4. f[m] \in Nat
      BY <1>0
    <3>5. g[n - m - 1] \in Nat
      <4>1. n - m - 1 \in 0 .. Len(t)
        BY <1>3, <2>3
      <4> QED
        BY <1>4, <4>1
    <3>6. t[n - m] \in Nat
      BY <3>1
    <3> QED
      BY <3>1, <3>2, <3>3, <3>4, <3>5, <3>6
  <2> QED
    BY <1>3, <2>1, <2>2, <2>3
<1>7. Sums(s \o t, Len(s \o t), h)
  BY <1>3, <1>5, <1>6 DEF Sums
<1>8. Total(s) = f[m] /\ Total(t) = g[Len(t)]
  BY <1>1, <1>2, TotalSums
<1>9. Total(s \o t) = h[Len(s \o t)]
  BY <1>3, <1>7, TotalSums
<1> QED
  BY <1>3, <1>5, <1>8, <1>9

-----------------------------------------------------------------------------
(* The pieces of the model.                                                *)

LEMMA Peers ==
    ASSUME NEW e \in Ends
    PROVE  /\ Peer(e) \in Ends /\ Peer(e) # e /\ Peer(Peer(e)) = e
           /\ \A d \in Ends : d = e \/ d = Peer(e)
<1>1. PICK x \in Ends : \E y \in Ends \ {x} : Ends = {x, y}
  BY BufferAssumption
<1>2. PICK y \in Ends \ {x} : Ends = {x, y}
  BY <1>1
<1>3. ASSUME NEW d \in Ends PROVE Peer(d) \in Ends /\ Peer(d) # d
  <2>1. \E p \in Ends : p # d
    BY <1>2
  <2> QED
    BY <2>1 DEF Peer
<1> QED
  BY <1>2, <1>3

LEMMA DivFacts ==
    ASSUME NEW a \in Nat, NEW c \in Nat, c > 0
    PROVE  a \div c \in Nat /\ c * (a \div c) <= a /\ a < c * (a \div c) + c
OBVIOUS

LEMMA CountFacts ==
    ASSUME NEW len \in Nat
    PROVE  /\ ChunkCount(len) \in Nat /\ ChunkCount(len) >= 1
           /\ ChunkCount(len) = 1 <=> Single(len)
           /\ len - (ChunkCount(len) - 1) * CHUNK_SIZE \in Nat
<1>1. CHUNK_SIZE \in Nat /\ CHUNK_SIZE > 0
  BY BufferAssumption
<1>2. CASE len <= CHUNK_SIZE
  BY <1>1, <1>2 DEF ChunkCount, Single
<1>3. CASE len > CHUNK_SIZE
  <2> DEFINE k == (len + CHUNK_SIZE - 1) \div CHUNK_SIZE
  <2>1. /\ k \in Nat /\ CHUNK_SIZE * k <= len + CHUNK_SIZE - 1
        /\ len + CHUNK_SIZE - 1 < CHUNK_SIZE * k + CHUNK_SIZE
    BY <1>1, DivFacts
  <2>2. ChunkCount(len) = k
    BY <1>1, <1>3 DEF ChunkCount
  <2> HIDE DEF k
  <2>3. k # 0 /\ k # 1
    BY <1>1, <1>3, <2>1
  <2>4. (k - 1) * CHUNK_SIZE = CHUNK_SIZE * k - CHUNK_SIZE
    BY <1>1, <2>1
  <2> DEFINE x == CHUNK_SIZE * k
  <2>5. x \in Nat
    BY <1>1, <2>1
  <2> HIDE DEF x
  <2>6. len - (k - 1) * CHUNK_SIZE \in Nat
    BY <1>1, <1>3, <2>1, <2>4, <2>5 DEF x
  <2> QED
    BY <1>1, <1>3, <2>1, <2>2, <2>3, <2>6 DEF Single
<1> QED
  BY <1>1, <1>2, <1>3

(* The chunk `ix` of frame `id`. *)
ChunkOf(id, len, ix) ==  Chunks(id, len)[ix + 1]

LEMMA ChunkFacts ==
    ASSUME NEW id \in Nat, NEW len \in Nat
    PROVE  /\ Chunks(id, len) \in Seq(ChunkType) /\ Len(Chunks(id, len)) = ChunkCount(len)
           /\ \A i \in 1 .. ChunkCount(len) :
                 LET c == Chunks(id, len)[i]
                 IN  /\ c.type = "Chunk" /\ c.frame_id = id /\ c.chunk_id = i - 1
                     /\ c.chunk_count = ChunkCount(len) /\ InAirSize(c) \in Nat
<1>1. CHUNK_SIZE \in Nat /\ HEADER \in Nat
  BY BufferAssumption
<1>2. ASSUME NEW i \in 1 .. ChunkCount(len)
      PROVE  /\ Chunks(id, len)[i] \in ChunkType
             /\ LET c == Chunks(id, len)[i]
                IN  /\ c.type = "Chunk" /\ c.frame_id = id /\ c.chunk_id = i - 1
                    /\ c.chunk_count = ChunkCount(len) /\ InAirSize(c) \in Nat
  <2> DEFINE l == IF i < ChunkCount(len) THEN CHUNK_SIZE
                  ELSE len - (ChunkCount(len) - 1) * CHUNK_SIZE
  <2>1. l \in Nat
    BY <1>1, CountFacts
  <2>2. Chunks(id, len)[i] = Chunk(id, i - 1, ChunkCount(len), l)
    BY DEF Chunks
  <2> HIDE DEF l
  <2> QED
    BY <1>1, <2>1, <2>2, CountFacts DEF Chunk, ChunkType, Pieces, InAirSize
<1>3. ChunkCount(len) \in Nat
  BY CountFacts
<1>4. Chunks(id, len) \in Seq(ChunkType) /\ Len(Chunks(id, len)) = ChunkCount(len)
  <2>1. Chunks(id, len) \in [1 .. ChunkCount(len) -> ChunkType]
    <3>1. Chunks(id, len) = [i \in 1 .. ChunkCount(len) |-> Chunks(id, len)[i]]
      BY DEF Chunks
    <3> QED
      BY <1>2, <3>1
  <2> QED
    BY <1>3, <2>1
<1> QED
  BY <1>2, <1>4

LEMMA CountTo ==
    ASSUME NEW n \in Nat
    PROVE  IsFiniteSet(0 .. n - 1) /\ Cardinality(0 .. n - 1) = n
BY FS_Interval

LEMMA IntoIterWhole ==
    ASSUME NEW n \in Nat, NEW f, DOMAIN f = 0 .. n - 1
    PROVE  IntoIter(f) = [i \in 1 .. n |-> f[i - 1]]
<1>1. Cardinality(DOMAIN f) = n
  BY FS_Interval
<1> DEFINE Nth(i) == CHOOSE ix \in DOMAIN f : Cardinality({k \in DOMAIN f : k < ix}) = i - 1
<1>2. ASSUME NEW i \in 1 .. n PROVE Nth(i) = i - 1
  <2>1. ASSUME NEW ix \in DOMAIN f PROVE Cardinality({k \in DOMAIN f : k < ix}) = ix
    <3>1. {k \in DOMAIN f : k < ix} = 0 .. ix - 1
      OBVIOUS
    <3>2. Cardinality(0 .. ix - 1) = ix
      BY FS_Interval
    <3> QED
      BY <3>1, <3>2
  <2>2. i - 1 \in DOMAIN f
    OBVIOUS
  <2> QED
    BY <2>1, <2>2
<1>3. IntoIter(f) = [i \in 1 .. n |-> f[Nth(i)]]
  BY <1>1, Zenon DEF IntoIter
<1> HIDE DEF Nth
<1> QED
  BY <1>2, <1>3

LEMMA Greatest ==
    ASSUME NEW b \in Nat, NEW S \in SUBSET (0 .. b), S # {}
    PROVE  Max(S) \in S /\ \A y \in S : Max(S) >= y
<1> DEFINE T == {b - x : x \in S}
<1>1. T \in SUBSET Nat /\ T # {}
  <2>1. PICK x \in S : TRUE
    OBVIOUS
  <2>2. b - x \in T
    OBVIOUS
  <2> QED
    BY <2>2
<1>2. PICK t \in T : \A u \in T : t <= u
  BY <1>1, Least
<1>3. PICK x \in S : t = b - x
  BY <1>2
<1>4. \A y \in S : x >= y
  <2> TAKE y \in S
  <2>1. b - x <= b - y
    BY <1>2, <1>3
  <2> QED
    BY <2>1
<1> QED
  BY <1>4 DEF Max

-----------------------------------------------------------------------------
(* Putting on the channel what the limit allows.                           *)

Msg == ChunkType \cup AckType

Big == {c \in ChunkType : c.chunk_count > 1}

(* What can be in a buffer, apart from the maps of frames. *)
Buffer(b) ==
    /\ DOMAIN b = DOMAIN EmptyBuffer
    /\ b.high_priority \in Seq(Msg) /\ b.low_priority \in Seq(Big)
    /\ b.in_air_size \in Nat /\ b.in_air_size <= AIR_LIMIT

LEMMA SizesNat ==
    ASSUME NEW q \in Seq(Msg)
    PROVE  [i \in DOMAIN q |-> InAirSize(q[i])] \in Seq(Nat) /\ SizeOf(q) \in Nat
<1>1. HEADER \in Nat
  BY BufferAssumption
<1>2. ASSUME NEW c \in Msg PROVE InAirSize(c) \in Nat
  BY <1>1 DEF Msg, ChunkType, AckType, Pieces, InAirSize
<1>3. [i \in DOMAIN q |-> InAirSize(q[i])] \in Seq(Nat)
  BY <1>2
<1> QED
  BY <1>3, TotalNat DEF SizeOf

LEMMA SizeOfConcat ==
    ASSUME NEW q \in Seq(Msg), NEW r \in Seq(Msg)
    PROVE  SizeOf(q \o r) = SizeOf(q) + SizeOf(r)
<1> DEFINE S(s) == [i \in DOMAIN s |-> InAirSize(s[i])]
<1>1. q \o r \in Seq(Msg)
  OBVIOUS
<1>2. S(q) \in Seq(Nat) /\ S(r) \in Seq(Nat) /\ S(q \o r) \in Seq(Nat)
  BY <1>1, SizesNat
<1>3. S(q \o r) = S(q) \o S(r)
  <2> HIDE DEF InAirSize
  <2> QED
    OBVIOUS
<1> QED
  BY <1>2, <1>3, TotalConcat DEF SizeOf

LEMMA SizeOfEmpty == SizeOf(<<>>) = 0
<1>1. [i \in DOMAIN <<>> |-> InAirSize(<<>>[i])] = <<>>
  OBVIOUS
<1> QED
  BY <1>1, TotalEmpty DEF SizeOf

LEMMA Popping ==
    ASSUME NEW b, Buffer(b)
    PROVE  \E n \in 0 .. Len(b.high_priority \o b.low_priority) :
              /\ PopSend(b) = SubSeq(b.high_priority \o b.low_priority, 1, n)
              /\ b.in_air_size + SizeOf(PopSend(b)) <= AIR_LIMIT
<1> DEFINE queue == b.high_priority \o b.low_priority
           Fits == {n \in 0 .. Len(queue) :
                       \A k \in 1 .. n : b.in_air_size + SizeOf(SubSeq(queue, 1, k)) <= AIR_LIMIT}
<1>1. queue \in Seq(Msg) /\ Len(queue) \in Nat
  <2>1. b.low_priority \in Seq(Msg)
    BY SeqMonotonic DEF Buffer, Big, Msg
  <2>2. b.high_priority \in Seq(Msg)
    BY DEF Buffer
  <2> QED
    BY <2>1, <2>2, ConcatProperties, LenProperties
<1>2. Fits \in SUBSET (0 .. Len(queue)) /\ 0 \in Fits
  <2> HIDE DEF queue
  <2>1. 0 \in 0 .. Len(queue) /\ 1 .. 0 = {}
    BY <1>1
  <2> QED
    BY <2>1
<1>3. Max(Fits) \in Fits
  <2> HIDE DEF Fits, queue
  <2> QED
    BY <1>1, <1>2, Greatest
<1>4. PopSend(b) = SubSeq(queue, 1, Max(Fits))
  BY DEF PopSend
<1> DEFINE n == Max(Fits)
<1>5. n \in 0 .. Len(queue) /\ \A k \in 1 .. n : b.in_air_size + SizeOf(SubSeq(queue, 1, k)) <= AIR_LIMIT
  BY <1>3
<1> HIDE DEF n, Fits
<1>6. b.in_air_size + SizeOf(SubSeq(queue, 1, n)) <= AIR_LIMIT
  <2>1. CASE n = 0
    <3>1. SubSeq(queue, 1, n) = <<>>
      BY <2>1
    <3>2. b.in_air_size \in Nat /\ b.in_air_size <= AIR_LIMIT
      BY DEF Buffer
    <3>3. SizeOf(SubSeq(queue, 1, n)) = 0
      BY <3>1, SizeOfEmpty
    <3> HIDE DEF queue
    <3> QED
      BY <3>2, <3>3
  <2>2. CASE n # 0
    BY <1>5, <2>2
  <2> QED
    BY <2>1, <2>2
<1> QED
  BY <1>4, <1>5, <1>6 DEF n

LEMMA Cut ==
    ASSUME NEW S, NEW s \in Seq(S), NEW m \in 0 .. Len(s)
    PROVE  /\ SubSeq(s, 1, m) \in Seq(S) /\ Len(SubSeq(s, 1, m)) = m
           /\ SubSeq(s, m + 1, Len(s)) \in Seq(S)
           /\ SubSeq(s, 1, m) \o SubSeq(s, m + 1, Len(s)) = s
<1>1. SubSeq(s, 1, m) \in Seq(S) /\ Len(SubSeq(s, 1, m)) = m
  OBVIOUS
<1>2. SubSeq(s, m + 1, Len(s)) \in Seq(S)
  BY SubSeqProperties
<1>3. SubSeq(s, 1, m) \o SubSeq(s, m + 1, Len(s)) = SubSeq(s, 1, Len(s))
  <2>1. 1 \in 1 .. Len(s) + 1 /\ m \in 1 - 1 .. Len(s) /\ Len(s) \in m .. Len(s)
    OBVIOUS
  <2> QED
    BY <2>1, ConcatAdjacentSubSeq
<1> QED
  BY <1>1, <1>2, <1>3, SubSeqFull

LEMMA PrefixShort ==
    ASSUME NEW S, NEW h \in Seq(S), NEW l \in Seq(S), NEW n \in 0 .. Len(h)
    PROVE  SubSeq(h \o l, 1, n) = SubSeq(h, 1, n)
OBVIOUS

LEMMA PrefixLong ==
    ASSUME NEW S, NEW h \in Seq(S), NEW l \in Seq(S), NEW m \in 0 .. Len(l)
    PROVE  SubSeq(h \o l, 1, Len(h) + m) = h \o SubSeq(l, 1, m)
OBVIOUS

Three(S, w, h, l) == w \in Seq(S) /\ h \in Seq(S) /\ l \in Seq(S)

Regrouped(w, h, l) == (w \o h) \o l = w \o (h \o l)

LEMMA JoinShort ==
    ASSUME NEW S, NEW w, NEW h, NEW l, Three(S, w, h, l)
    PROVE  Regrouped(w, h, l)
BY ConcatAssociative DEF Three, Regrouped

ShortCut(S, w, h, l, n) ==
    /\ SubSeq(h \o l, 1, n) \in Seq(S) /\ Len(SubSeq(h \o l, 1, n)) = n
    /\ SubSeq(h, n + 1, Len(h)) \in Seq(S)
    /\ (w \o SubSeq(h \o l, 1, n)) \o SubSeq(h, n + 1, Len(h)) = w \o h

LongCut(S, w, h, l, m) ==
    /\ SubSeq(h \o l, 1, Len(h) + m) \in Seq(S)
    /\ Len(SubSeq(h \o l, 1, Len(h) + m)) = Len(h) + m
    /\ SubSeq(h, Len(h) + m + 1, Len(h)) = <<>>
    /\ SubSeq(l, m + 1, Len(l)) \in Seq(S)
    /\ (w \o SubSeq(h \o l, 1, Len(h) + m)) \o SubSeq(l, m + 1, Len(l)) = (w \o h) \o l

LEMMA SplitShort ==
    ASSUME NEW S, NEW w, NEW h, NEW l, Three(S, w, h, l), NEW n \in 0 .. Len(h)
    PROVE  ShortCut(S, w, h, l, n)
<1>0. w \in Seq(S) /\ h \in Seq(S) /\ l \in Seq(S)
  BY DEF Three
<1> USE <1>0
<1>1. /\ SubSeq(h \o l, 1, n) = SubSeq(h, 1, n) /\ SubSeq(h, 1, n) \in Seq(S)
      /\ SubSeq(h, n + 1, Len(h)) \in Seq(S) /\ Len(SubSeq(h, 1, n)) = n
      /\ SubSeq(h, 1, n) \o SubSeq(h, n + 1, Len(h)) = h
  BY Cut, PrefixShort
<1>2. (w \o SubSeq(h, 1, n)) \o SubSeq(h, n + 1, Len(h))
         = w \o (SubSeq(h, 1, n) \o SubSeq(h, n + 1, Len(h)))
  <2> DEFINE x == SubSeq(h, 1, n)
             y == SubSeq(h, n + 1, Len(h))
  <2>1. x \in Seq(S) /\ y \in Seq(S)
    BY <1>1
  <2> HIDE DEF x, y
  <2>2. (w \o x) \o y = w \o (x \o y)
    <3>1. Three(S, w, x, y)
      BY <2>1 DEF Three
    <3>2. Regrouped(w, x, y)
      BY <3>1, JoinShort
    <3> QED
      BY <3>2 DEF Regrouped
  <2> QED
    BY <2>2 DEF x, y
<1> QED
  BY <1>1, <1>2, Zenon DEF ShortCut

Four(S, w, h, x, y) == w \in Seq(S) /\ h \in Seq(S) /\ x \in Seq(S) /\ y \in Seq(S)

Joined(w, h, x, y) == (w \o (h \o x)) \o y = (w \o h) \o (x \o y)

LEMMA JoinLong ==
    ASSUME NEW S, NEW w, NEW h, NEW x, NEW y, Four(S, w, h, x, y)
    PROVE  Joined(w, h, x, y)
<1>0. w \in Seq(S) /\ h \in Seq(S) /\ x \in Seq(S) /\ y \in Seq(S)
  BY DEF Four
<1>1. w \o (h \o x) = (w \o h) \o x
  <2>1. Three(S, w, h, x)
    BY <1>0 DEF Three
  <2>2. Regrouped(w, h, x)
    BY <2>1, JoinShort
  <2> QED
    BY <2>2 DEF Regrouped
<1>2. w \o h \in Seq(S)
  BY <1>0, ConcatProperties
<1>3. ((w \o h) \o x) \o y = (w \o h) \o (x \o y)
  <2>1. Three(S, w \o h, x, y)
    BY <1>0, <1>2 DEF Three
  <2>2. Regrouped(w \o h, x, y)
    BY <2>1, JoinShort
  <2> QED
    BY <2>2 DEF Regrouped
<1> QED
  BY <1>1, <1>3 DEF Joined

LEMMA SplitLong ==
    ASSUME NEW S, NEW w, NEW h, NEW l, Three(S, w, h, l), NEW m \in 1 .. Len(l)
    PROVE  LongCut(S, w, h, l, m)
<1>0. w \in Seq(S) /\ h \in Seq(S) /\ l \in Seq(S)
  BY DEF Three
<1> USE <1>0
<1>1. m \in 0 .. Len(l) /\ Len(h) \in Nat
  OBVIOUS
<1>2. /\ SubSeq(h \o l, 1, Len(h) + m) = h \o SubSeq(l, 1, m)
      /\ SubSeq(l, 1, m) \in Seq(S) /\ SubSeq(l, m + 1, Len(l)) \in Seq(S)
      /\ Len(SubSeq(l, 1, m)) = m
      /\ SubSeq(l, 1, m) \o SubSeq(l, m + 1, Len(l)) = l
  BY <1>1, Cut, PrefixLong, SMTT(40)
<1>3. (w \o (h \o SubSeq(l, 1, m))) \o SubSeq(l, m + 1, Len(l))
         = (w \o h) \o (SubSeq(l, 1, m) \o SubSeq(l, m + 1, Len(l)))
  <2>1. SubSeq(l, 1, m) \in Seq(S) /\ SubSeq(l, m + 1, Len(l)) \in Seq(S)
    BY <1>2
  <2> DEFINE x == SubSeq(l, 1, m)
             y == SubSeq(l, m + 1, Len(l))
  <2>2. x \in Seq(S) /\ y \in Seq(S)
    BY <2>1
  <2> HIDE DEF x, y
  <2>3. (w \o (h \o x)) \o y = (w \o h) \o (x \o y)
    <3>1. Four(S, w, h, x, y)
      BY <2>2 DEF Four
    <3>2. Joined(w, h, x, y)
      BY <3>1, JoinLong
    <3> QED
      BY <3>2 DEF Joined
  <2> QED
    BY <2>3 DEF x, y
<1>4. SubSeq(h, Len(h) + m + 1, Len(h)) = <<>>
  <2>1. Len(h) < Len(h) + m + 1 /\ Len(h) + m + 1 \in Int /\ Len(h) \in Int
    BY <1>1
  <2> QED
    BY <2>1, SubSeqEmpty, Zenon
<1>5. h \o SubSeq(l, 1, m) \in Seq(S) /\ Len(h \o SubSeq(l, 1, m)) = Len(h) + m
  BY <1>2, ConcatProperties, Zenon
<1>6. (w \o SubSeq(h \o l, 1, Len(h) + m)) \o SubSeq(l, m + 1, Len(l)) = (w \o h) \o l
  BY <1>2, <1>3, Zenon
<1> QED
  BY <1>2, <1>4, <1>5, <1>6, Zenon DEF LongCut

-----------------------------------------------------------------------------
(* The inductive invariant.  l is what one end is sending and r what comes *)
(* back to it; n is the number of frames it was given and s their lengths, *)
(* out its `outgoings`, inc the other end's `incomings`.                   *)

IsChunk(c) == c.type = "Chunk"

SameChunk(c, d) == c.frame_id = d.frame_id /\ c.chunk_id = d.chunk_id

(* The chunks and the acknowledgements under way are of frames that exist, *)
(* no chunk is under way twice, and none is together with its own          *)
(* acknowledgement.                                                        *)
Below(n, l, r) ==
    /\ \A i \in DOMAIN l : IsChunk(l[i]) => l[i].frame_id < n
    /\ \A i \in DOMAIN r : ~IsChunk(r[i]) => r[i].frame_id < n

ChunkOnce(l) ==
    \A i, j \in DOMAIN l : (IsChunk(l[i]) /\ IsChunk(l[j]) /\ SameChunk(l[i], l[j])) => i = j

AckOnce(r) ==
    \A i, j \in DOMAIN r : (~IsChunk(r[i]) /\ ~IsChunk(r[j]) /\ SameChunk(r[i], r[j])) => i = j

Apart(l, r) ==
    \A i \in DOMAIN l, j \in DOMAIN r : (IsChunk(l[i]) /\ ~IsChunk(r[j])) => ~SameChunk(l[i], r[j])

(* The sender remembers the size of each. *)
Remembered(out, c) == c.frame_id \in DOMAIN out /\ c.chunk_id \in DOMAIN out[c.frame_id]

Kept(out, l, r) ==
    /\ \A i \in DOMAIN l : IsChunk(l[i]) =>
          Remembered(out, l[i]) /\ out[l[i].frame_id][l[i].chunk_id] = InAirSize(l[i])
    /\ \A i \in DOMAIN r : ~IsChunk(r[i]) =>
          Remembered(out, r[i]) /\ out[r[i].frame_id][r[i].chunk_id] \in Nat

Counted(n, l, r, out) ==
    Below(n, l, r) /\ ChunkOnce(l) /\ AckOnce(r) /\ Apart(l, r) /\ Kept(out, l, r)

AckSizes(out, r) ==
    [i \in DOMAIN r |-> IF IsChunk(r[i]) THEN 0 ELSE out[r[i].frame_id][r[i].chunk_id]]

(* A chunk under way is one of those its frame was cut into, and those of  *)
(* one class go in order.                                                  *)
Good(s, c) ==
    /\ c.frame_id < Len(s) /\ c.chunk_id < ChunkCount(s[c.frame_id + 1])
    /\ c = ChunkOf(c.frame_id, s[c.frame_id + 1], c.chunk_id)

ChunksGood(s, l) == \A i \in DOMAIN l : IsChunk(l[i]) => Good(s, l[i])

SameClass(c, d) == c.chunk_count = 1 <=> d.chunk_count = 1

Order(l) ==
    \A i, j \in DOMAIN l :
        (i < j /\ IsChunk(l[i]) /\ IsChunk(l[j]) /\ SameClass(l[i], l[j]))
            => l[i].frame_id <= l[j].frame_id

(* A frame being put together has more than one chunk, of which one is     *)
(* still missing; what is there are its pieces.                            *)
Partial(s, f, frame) ==
    LET n == ChunkCount(s[f + 1])
    IN  /\ f \in 0 .. Len(s) - 1 /\ n > 1 /\ frame.chunk_count = n
        /\ DOMAIN frame = {"chunk_count", "chunks"}
        /\ DOMAIN frame.chunks \subseteq 0 .. n - 1 /\ 0 .. n - 1 # DOMAIN frame.chunks
        /\ \A ix \in DOMAIN frame.chunks : frame.chunks[ix] = ChunkOf(f, s[f + 1], ix).data

Assembled(s, inc) == \A f \in DOMAIN inc : Partial(s, f, inc[f])

UnderWay(l, f, ix) ==
    \E i \in DOMAIN l : IsChunk(l[i]) /\ l[i].frame_id = f /\ l[i].chunk_id = ix

(* Of an unfinished frame, each chunk is at the receiver or under way, and *)
(* not both.                                                               *)
Here(inc, f, ix) == f \in DOMAIN inc /\ ix \in DOMAIN inc[f].chunks

Open(l, inc, f) == f \in DOMAIN inc \/ \E i \in DOMAIN l : IsChunk(l[i]) /\ l[i].frame_id = f

Rest(s, l, inc) ==
    \A f \in 0 .. Len(s) - 1 : Open(l, inc, f) =>
        \A ix \in 0 .. ChunkCount(s[f + 1]) - 1 : Here(inc, f, ix) \/ UnderWay(l, f, ix)

Excl(l, inc) ==
    \A i \in DOMAIN l : IsChunk(l[i]) => ~Here(inc, l[i].frame_id, l[i].chunk_id)

Framed(s, l, inc) ==
    ChunksGood(s, l) /\ Order(l) /\ Assembled(s, inc) /\ Rest(s, l, inc) /\ Excl(l, inc)

(* What was handed to the node are whole frames. *)
Whole(id, len) == [i \in 1 .. ChunkCount(len) |-> Chunks(id, len)[i].data]

Taken(s, g) ==
    \A i \in DOMAIN g : \E id \in 0 .. Len(s) - 1 : g[i] = Whole(id, s[id + 1])

(* One direction of a connection; w is on the channel, b the buffer and g  *)
(* what the receiver handed to its node.                                   *)
Dir(s, w, l, r, b, inc, g) ==
    /\ Counted(Len(s), l, r, b.outgoings)
    /\ b.in_air_size = SizeOf(w) + Total(AckSizes(b.outgoings, r))
    /\ Framed(s, l, inc)
    /\ Taken(s, g)

Direction(e) ==
    Dir(sent[e], wire[Peer(e)], Line(e), Line(Peer(e)), buffer[e], buffer[Peer(e)].incomings,
        got[Peer(e)])

Inv == TypeOK /\ AirLimit /\ \A e \in Ends : Direction(e)

-----------------------------------------------------------------------------
(* Positions.  o tells where the chunks (the acknowledgements) of a line   *)
(* stood in an earlier one; they keep their order.                         *)

ChunksFrom(l2, l, o) ==
    \A i \in DOMAIN l2 : IsChunk(l2[i]) =>
        /\ o[i] \in DOMAIN l /\ l2[i] = l[o[i]]
        /\ \A j \in DOMAIN l2 : (i < j /\ IsChunk(l2[j])) => o[i] < o[j]

AcksFrom(r2, r, o) ==
    \A i \in DOMAIN r2 : ~IsChunk(r2[i]) =>
        /\ o[i] \in DOMAIN r /\ r2[i] = r[o[i]]
        /\ \A j \in DOMAIN r2 : (i < j /\ ~IsChunk(r2[j])) => o[i] < o[j]

LEMMA FewerCounted ==
    ASSUME NEW l \in Seq(Msg), NEW l2 \in Seq(Msg), NEW r \in Seq(Msg), NEW r2 \in Seq(Msg),
           NEW o, NEW q, NEW n, NEW out,
           Counted(n, l, r, out), ChunksFrom(l2, l, o), AcksFrom(r2, r, q)
    PROVE  Counted(n, l2, r2, out)
<1>1. Below(n, l2, r2)
  BY DEF Counted, Below, ChunksFrom, AcksFrom
<1>2. ChunkOnce(l2)
  <2> SUFFICES ASSUME NEW i \in DOMAIN l2, NEW j \in DOMAIN l2,
                      IsChunk(l2[i]), IsChunk(l2[j]), SameChunk(l2[i], l2[j]), i # j
               PROVE  FALSE
    BY DEF ChunkOnce
  <2>1. i < j \/ j < i
    OBVIOUS
  <2>2. /\ o[i] \in DOMAIN l /\ l2[i] = l[o[i]] /\ o[j] \in DOMAIN l /\ l2[j] = l[o[j]]
        /\ o[i] < o[j] \/ o[j] < o[i]
    BY <2>1 DEF ChunksFrom
  <2>3. o[i] = o[j]
    BY <2>2 DEF Counted, ChunkOnce
  <2>4. o[i] \in Nat
    BY <2>2
  <2> QED
    BY <2>2, <2>3, <2>4
<1>3. AckOnce(r2)
  <2> SUFFICES ASSUME NEW i \in DOMAIN r2, NEW j \in DOMAIN r2,
                      ~IsChunk(r2[i]), ~IsChunk(r2[j]), SameChunk(r2[i], r2[j]), i # j
               PROVE  FALSE
    BY DEF AckOnce
  <2>1. i < j \/ j < i
    OBVIOUS
  <2>2. /\ q[i] \in DOMAIN r /\ r2[i] = r[q[i]] /\ q[j] \in DOMAIN r /\ r2[j] = r[q[j]]
        /\ q[i] < q[j] \/ q[j] < q[i]
    BY <2>1 DEF AcksFrom
  <2>3. q[i] = q[j]
    BY <2>2 DEF Counted, AckOnce
  <2>4. q[i] \in Nat
    BY <2>2
  <2> QED
    BY <2>2, <2>3, <2>4
<1>4. Apart(l2, r2)
  BY DEF Counted, Apart, ChunksFrom, AcksFrom
<1>5. Kept(out, l2, r2)
  <2>1. ASSUME NEW i \in DOMAIN l2, IsChunk(l2[i])
        PROVE  Remembered(out, l2[i]) /\ out[l2[i].frame_id][l2[i].chunk_id] = InAirSize(l2[i])
    BY <2>1 DEF Counted, Kept, ChunksFrom
  <2>2. ASSUME NEW i \in DOMAIN r2, ~IsChunk(r2[i])
        PROVE  Remembered(out, r2[i]) /\ out[r2[i].frame_id][r2[i].chunk_id] \in Nat
    BY <2>2 DEF Counted, Kept, AcksFrom
  <2> QED
    BY <2>1, <2>2, Zenon DEF Kept
<1> QED
  BY <1>1, <1>2, <1>3, <1>4, <1>5 DEF Counted

LEMMA FewerOrder ==
    ASSUME NEW l \in Seq(Msg), NEW l2 \in Seq(Msg), NEW o, Order(l), ChunksFrom(l2, l, o)
    PROVE  Order(l2)
<1> SUFFICES ASSUME NEW i \in DOMAIN l2, NEW j \in DOMAIN l2, i < j,
                    IsChunk(l2[i]), IsChunk(l2[j]), SameClass(l2[i], l2[j])
             PROVE  l2[i].frame_id <= l2[j].frame_id
  BY DEF Order
<1>1. /\ o[i] \in DOMAIN l /\ l2[i] = l[o[i]] /\ o[j] \in DOMAIN l /\ l2[j] = l[o[j]]
      /\ o[i] < o[j]
  BY DEF ChunksFrom
<1> QED
  BY <1>1 DEF Order

(* At the front: what is left when the head is gone. *)
LEMMA TailFrom ==
    ASSUME NEW l \in Seq(Msg), l # <<>>
    PROVE  /\ Tail(l) \in Seq(Msg) /\ Head(l) \in Msg /\ Head(l) = l[1] /\ 1 \in DOMAIN l
           /\ \A i \in DOMAIN Tail(l) : Tail(l)[i] = l[i + 1] /\ i + 1 \in DOMAIN l
           /\ \A i \in DOMAIN l : i # 1 => i - 1 \in DOMAIN Tail(l) /\ Tail(l)[i - 1] = l[i]
           /\ ChunksFrom(Tail(l), l, [i \in DOMAIN Tail(l) |-> i + 1])
           /\ AcksFrom(Tail(l), l, [i \in DOMAIN Tail(l) |-> i + 1])
<1>1. /\ Tail(l) \in Seq(Msg) /\ Head(l) \in Msg /\ Head(l) = l[1] /\ 1 \in DOMAIN l
      /\ \A i \in DOMAIN Tail(l) : Tail(l)[i] = l[i + 1] /\ i + 1 \in DOMAIN l
      /\ \A i \in DOMAIN l : i # 1 => i - 1 \in DOMAIN Tail(l) /\ Tail(l)[i - 1] = l[i]
  OBVIOUS
<1>2. \A i, j \in DOMAIN Tail(l) : i < j => i + 1 < j + 1
  OBVIOUS
<1> DEFINE o == [i \in DOMAIN Tail(l) |-> i + 1]
<1>3. \A i \in DOMAIN Tail(l) : o[i] = i + 1
  OBVIOUS
<1> HIDE DEF o
<1>4. ChunksFrom(Tail(l), l, o) /\ AcksFrom(Tail(l), l, o)
  BY <1>1, <1>2, <1>3, Zenon DEF ChunksFrom, AcksFrom
<1> QED
  BY <1>1, <1>4 DEF o

LEMMA SelfFrom ==
    ASSUME NEW l \in Seq(Msg)
    PROVE  /\ ChunksFrom(l, l, [i \in DOMAIN l |-> i])
           /\ AcksFrom(l, l, [i \in DOMAIN l |-> i])
BY DEF ChunksFrom, AcksFrom

(* x stands in l2, which is otherwise l, behind the first k. *)
Insert(l, l2, k, x) ==
    /\ k \in 0 .. Len(l) /\ Len(l2) = Len(l) + Len(x)
    /\ \A i \in 1 .. k : l2[i] = l[i]
    /\ \A i \in 1 .. Len(x) : l2[k + i] = x[i]
    /\ \A i \in k + 1 .. Len(l) : l2[i + Len(x)] = l[i]

Before(l2, k, m) == [i \in DOMAIN l2 |-> IF i <= k THEN i ELSE i - m]

LEMMA Inserted ==
    ASSUME NEW S, NEW a \in Seq(S), NEW b \in Seq(S), NEW x \in Seq(S)
    PROVE  a \o b \in Seq(S) /\ (a \o x) \o b \in Seq(S) /\ Insert(a \o b, (a \o x) \o b, Len(a), x)
<1>1. a \o b \in Seq(S) /\ (a \o x) \o b \in Seq(S)
  BY ConcatProperties
<1>2. Len(a) \in 0 .. Len(a \o b) /\ Len((a \o x) \o b) = Len(a \o b) + Len(x)
  OBVIOUS
<1>3. \A i \in 1 .. Len(a) : ((a \o x) \o b)[i] = (a \o b)[i]
  OBVIOUS
<1>4. \A i \in 1 .. Len(x) : ((a \o x) \o b)[Len(a) + i] = x[i]
  OBVIOUS
<1>5. \A i \in Len(a) + 1 .. Len(a \o b) : ((a \o x) \o b)[i + Len(x)] = (a \o b)[i]
  OBVIOUS
<1> QED
  BY <1>1, <1>2, <1>3, <1>4, <1>5 DEF Insert

(* An element of l2 is one of x or one of l. *)
LEMMA InsertFrom ==
    ASSUME NEW S, NEW l \in Seq(S), NEW l2 \in Seq(S), NEW x \in Seq(S), NEW k, Insert(l, l2, k, x)
    PROVE  \A i \in DOMAIN l2 :
              \/ i - k \in DOMAIN x /\ l2[i] = x[i - k]
              \/ /\ i - k \notin DOMAIN x
                 /\ Before(l2, k, Len(x))[i] \in DOMAIN l /\ l2[i] = l[Before(l2, k, Len(x))[i]]
                 /\ \A j \in DOMAIN l2 : (i < j /\ j - k \notin DOMAIN x) =>
                       Before(l2, k, Len(x))[i] < Before(l2, k, Len(x))[j]
<1> SUFFICES ASSUME NEW i \in DOMAIN l2, i - k \notin DOMAIN x
             PROVE  /\ Before(l2, k, Len(x))[i] \in DOMAIN l /\ l2[i] = l[Before(l2, k, Len(x))[i]]
                    /\ \A j \in DOMAIN l2 : (i < j /\ j - k \notin DOMAIN x) =>
                          Before(l2, k, Len(x))[i] < Before(l2, k, Len(x))[j]
  <2>1. \A i \in DOMAIN l2 : i - k \in DOMAIN x => l2[i] = x[i - k]
    <3> TAKE i \in DOMAIN l2
    <3>1. k \in Int /\ i \in Int
      BY DEF Insert
    <3> HAVE i - k \in DOMAIN x
    <3>2. i = k + (i - k) /\ i - k \in 1 .. Len(x)
      BY <3>1
    <3> QED
      BY <3>2 DEF Insert
  <2> QED
    BY <2>1
<1> DEFINE m == Len(x)
           o == Before(l2, k, m)
<1>1. /\ k \in Nat /\ m \in Nat /\ k <= Len(l) /\ Len(l2) = Len(l) + m
      /\ Len(l) \in Nat /\ DOMAIN l = 1 .. Len(l) /\ DOMAIN l2 = 1 .. Len(l2) /\ DOMAIN x = 1 .. m
  BY DEF Insert
<1>2. \A j \in DOMAIN l2 : o[j] = IF j <= k THEN j ELSE j - m
  BY DEF Before
<1> HIDE DEF o
<1>3. \A j \in DOMAIN l2 : j - k \notin DOMAIN x => j <= k \/ j > k + m
  <2> HIDE DEF m
  <2> QED
    BY <1>1
<1>4. CASE i <= k
  <2>1. o[i] = i /\ i \in 1 .. k /\ i \in DOMAIN l
    BY <1>1, <1>2, <1>4
  <2>2. l2[i] = l[i]
    BY <2>1 DEF Insert
  <2>3. ASSUME NEW j \in DOMAIN l2, i < j, j - k \notin DOMAIN x PROVE o[i] < o[j]
    <3> HIDE DEF m
    <3> QED
      BY <1>1, <1>2, <1>3, <1>4, <2>3
  <2> QED
    BY <2>1, <2>2, <2>3 DEF o
<1>5. CASE i > k + m
  <2> DEFINE h == i - m
  <2>1. o[i] = h /\ h \in k + 1 .. Len(l) /\ i = h + m /\ h \in DOMAIN l
    <3> HIDE DEF m
    <3> QED
      BY <1>1, <1>2, <1>5
  <2> HIDE DEF h
  <2>2. l2[h + Len(x)] = l[h]
    BY <2>1 DEF Insert
  <2>3. ASSUME NEW j \in DOMAIN l2, i < j, j - k \notin DOMAIN x PROVE o[i] < o[j]
    <3> HIDE DEF m
    <3> QED
      BY <1>1, <1>2, <1>3, <1>5, <2>3
  <2> QED
    BY <2>1, <2>2, <2>3 DEF o
<1> QED
  BY <1>1, <1>3, <1>4, <1>5

(* Every element of l is one of l2. *)
LEMMA InsertTo ==
    ASSUME NEW S, NEW l \in Seq(S), NEW l2 \in Seq(S), NEW x \in Seq(S), NEW k, Insert(l, l2, k, x)
    PROVE  /\ \A i \in DOMAIN l : \E j \in DOMAIN l2 : l2[j] = l[i]
           /\ \A i \in DOMAIN x : \E j \in DOMAIN l2 : l2[j] = x[i]
<1>1. /\ k \in Nat /\ Len(x) \in Nat /\ k <= Len(l) /\ Len(l2) = Len(l) + Len(x)
      /\ Len(l) \in Nat /\ DOMAIN l = 1 .. Len(l) /\ DOMAIN l2 = 1 .. Len(l2) /\ DOMAIN x = 1 .. Len(x)
  BY DEF Insert
<1>2. ASSUME NEW i \in DOMAIN l PROVE \E j \in DOMAIN l2 : l2[j] = l[i]
  <2>1. CASE i <= k
    <3>1. i \in 1 .. k /\ i \in DOMAIN l2
      BY <1>1, <2>1
    <3> QED
      BY <3>1 DEF Insert
  <2>2. CASE i > k
    <3>1. i \in k + 1 .. Len(l) /\ i + Len(x) \in DOMAIN l2
      BY <1>1, <2>2
    <3> QED
      BY <3>1 DEF Insert
  <2> QED
    BY <1>1, <2>1, <2>2
<1>3. ASSUME NEW i \in DOMAIN x PROVE \E j \in DOMAIN l2 : l2[j] = x[i]
  <2>1. i \in 1 .. Len(x) /\ k + i \in DOMAIN l2
    BY <1>1
  <2> QED
    BY <2>1 DEF Insert
<1> QED
  BY <1>2, <1>3

LEMMA InsertAcks ==
    ASSUME NEW l \in Seq(Msg), NEW l2 \in Seq(Msg), NEW x \in Seq(Msg), NEW k, Insert(l, l2, k, x),
           \A i \in DOMAIN x : ~IsChunk(x[i])
    PROVE  ChunksFrom(l2, l, Before(l2, k, Len(x)))
<1> DEFINE o == Before(l2, k, Len(x))
<1>1. \A i \in DOMAIN l2 :
              \/ i - k \in DOMAIN x /\ l2[i] = x[i - k]
              \/ /\ i - k \notin DOMAIN x
                 /\ o[i] \in DOMAIN l /\ l2[i] = l[o[i]]
                 /\ \A j \in DOMAIN l2 : (i < j /\ j - k \notin DOMAIN x) => o[i] < o[j]
  BY InsertFrom
<1> HIDE DEF o
<1>2. \A i \in DOMAIN l2 : IsChunk(l2[i]) => i - k \notin DOMAIN x
  BY <1>1
<1>3. ChunksFrom(l2, l, o)
  BY <1>1, <1>2 DEF ChunksFrom
<1> QED
  BY <1>3 DEF o

LEMMA InsertChunks ==
    ASSUME NEW l \in Seq(Msg), NEW l2 \in Seq(Msg), NEW x \in Seq(Msg), NEW k, Insert(l, l2, k, x),
           \A i \in DOMAIN x : IsChunk(x[i])
    PROVE  AcksFrom(l2, l, Before(l2, k, Len(x)))
<1> DEFINE o == Before(l2, k, Len(x))
<1>1. \A i \in DOMAIN l2 :
              \/ i - k \in DOMAIN x /\ l2[i] = x[i - k]
              \/ /\ i - k \notin DOMAIN x
                 /\ o[i] \in DOMAIN l /\ l2[i] = l[o[i]]
                 /\ \A j \in DOMAIN l2 : (i < j /\ j - k \notin DOMAIN x) => o[i] < o[j]
  BY InsertFrom
<1> HIDE DEF o
<1>2. \A i \in DOMAIN l2 : ~IsChunk(l2[i]) => i - k \notin DOMAIN x
  BY <1>1
<1>3. AcksFrom(l2, l, o)
  BY <1>1, <1>2 DEF AcksFrom
<1> QED
  BY <1>3 DEF o

-----------------------------------------------------------------------------
(* Counting.                                                               *)

(* The frame given last: its chunks are new and their sizes remembered. *)
New(x, n) == \A i \in DOMAIN x : IsChunk(x[i]) /\ x[i].frame_id = n /\ x[i].chunk_id = i - 1

Note(out, n, x) ==
    [f \in DOMAIN out \cup {n} |->
        IF f = n THEN [ix \in 0 .. Len(x) - 1 |-> InAirSize(x[ix + 1])] ELSE out[f]]

LEMMA SendCounted ==
    ASSUME NEW l \in Seq(Msg), NEW l2 \in Seq(Msg), NEW r \in Seq(Msg), NEW x \in Seq(Msg),
           NEW n \in Nat, NEW out, NEW k, Counted(n, l, r, out), Insert(l, l2, k, x), New(x, n)
    PROVE  Counted(n + 1, l2, r, Note(out, n, x))
<1> DEFINE o == Before(l2, k, Len(x))
           out2 == Note(out, n, x)
<1>a. \A i \in DOMAIN x : IsChunk(x[i]) /\ x[i].frame_id = n /\ x[i].chunk_id = i - 1
  BY DEF New
<1>b. out2 = [f \in DOMAIN out \cup {n} |->
                 IF f = n THEN [ix \in 0 .. Len(x) - 1 |-> InAirSize(x[ix + 1])] ELSE out[f]]
  BY DEF Note
<1> HIDE DEF out2
<1> USE <1>a
<1>0. \A c \in Msg : c.frame_id \in Nat
  BY DEF Msg, ChunkType, AckType
<1>1. \A i \in DOMAIN l2 :
              \/ i - k \in DOMAIN x /\ l2[i] = x[i - k]
              \/ /\ i - k \notin DOMAIN x
                 /\ o[i] \in DOMAIN l /\ l2[i] = l[o[i]]
                 /\ \A j \in DOMAIN l2 : (i < j /\ j - k \notin DOMAIN x) => o[i] < o[j]
  BY InsertFrom
<1>2. \A i \in DOMAIN l2 : i - k \notin DOMAIN x => o[i] \in DOMAIN l /\ l2[i] = l[o[i]]
  BY <1>1
<1>3. k \in Nat
  BY DEF Insert
<1> HIDE DEF o
<1>4. /\ \A i \in DOMAIN l : l[i] \in Msg
      /\ \A i \in DOMAIN l2 : l2[i] \in Msg
      /\ \A i \in DOMAIN r : r[i] \in Msg
  OBVIOUS
<1>5. /\ \A i \in DOMAIN l : IsChunk(l[i]) => l[i].frame_id < n
      /\ \A i \in DOMAIN r : ~IsChunk(r[i]) => r[i].frame_id < n
  BY DEF Counted, Below
<1>6. ASSUME NEW i \in DOMAIN l2, IsChunk(l2[i])
      PROVE  \/ i - k \in DOMAIN x /\ l2[i] = x[i - k] /\ l2[i].frame_id = n /\ l2[i].chunk_id = i - k - 1
             \/ /\ i - k \notin DOMAIN x /\ o[i] \in DOMAIN l /\ l2[i] = l[o[i]]
                /\ IsChunk(l[o[i]]) /\ l2[i].frame_id < n
  BY <1>1, <1>5, <1>6
<1>7. Below(n + 1, l2, r)
  BY <1>0, <1>4, <1>5, <1>6 DEF Below
<1>8. ChunkOnce(l2)
  <2> SUFFICES ASSUME NEW i \in DOMAIN l2, NEW j \in DOMAIN l2,
                      IsChunk(l2[i]), IsChunk(l2[j]), SameChunk(l2[i], l2[j]), i # j
               PROVE  FALSE
    BY DEF ChunkOnce
  <2>0. i \in Nat /\ j \in Nat /\ l2[i].frame_id = l2[j].frame_id /\ l2[i].chunk_id = l2[j].chunk_id
    BY DEF SameChunk
  <2>1. CASE i - k \in DOMAIN x
    <3>1. l2[i].frame_id = n /\ l2[i].chunk_id = i - k - 1
      BY <1>6, <2>1
    <3>2. ~(l2[j].frame_id < n)
      <4>1. ~(n < n)
        OBVIOUS
      <4> QED
        BY <2>0, <3>1, <4>1, Zenon
    <3>3. l2[j].chunk_id = j - k - 1
      BY <1>6, <3>2
    <3>4. i - k - 1 = j - k - 1
      BY <2>0, <3>1, <3>3, Zenon
    <3>5. i = j
      BY <1>3, <2>0, <3>4
    <3> QED
      BY <3>5
  <2>2. CASE i - k \notin DOMAIN x
    <3>1. o[i] \in DOMAIN l /\ l2[i] = l[o[i]] /\ IsChunk(l[o[i]]) /\ l2[i].frame_id < n
      BY <1>6, <2>2
    <3>2. j - k \notin DOMAIN x
      BY <1>6, <2>0, <3>1
    <3>3. o[j] \in DOMAIN l /\ l2[j] = l[o[j]] /\ IsChunk(l[o[j]])
      BY <1>6, <3>2
    <3>4. o[i] < o[j] \/ o[j] < o[i]
      <4>1. i < j \/ j < i
        BY <2>0
      <4> QED
        BY <1>1, <2>2, <3>2, <4>1
    <3>5. o[i] = o[j]
      BY <3>1, <3>3 DEF Counted, ChunkOnce
    <3>6. o[i] \in Nat
      BY <3>1
    <3> QED
      BY <3>4, <3>5, <3>6
  <2> QED
    BY <2>1, <2>2
<1>9. AckOnce(r)
  BY DEF Counted
<1>10. Apart(l2, r)
  <2> SUFFICES ASSUME NEW i \in DOMAIN l2, NEW j \in DOMAIN r,
                      IsChunk(l2[i]), ~IsChunk(r[j]), SameChunk(l2[i], r[j])
               PROVE  FALSE
    BY DEF Apart
  <2>1. r[j].frame_id < n /\ l2[i].frame_id = r[j].frame_id
    BY <1>5 DEF SameChunk
  <2>2. i - k \notin DOMAIN x
    BY <1>6, <2>1
  <2> QED
    BY <1>6, <2>2 DEF Counted, Apart
<1>11. Kept(out2, l2, r)
  <2>1. ASSUME NEW c \in Msg, c.frame_id < n, Remembered(out, c)
        PROVE  Remembered(out2, c) /\ out2[c.frame_id] = out[c.frame_id]
    <3>1. c.frame_id # n
      BY <1>0, <2>1
    <3> QED
      BY <1>b, <2>1, <3>1 DEF Remembered
  <2>2. ASSUME NEW i \in DOMAIN l2, IsChunk(l2[i])
        PROVE  Remembered(out2, l2[i]) /\ out2[l2[i].frame_id][l2[i].chunk_id] = InAirSize(l2[i])
    <3>1. CASE i - k \in DOMAIN x
      <4> DEFINE h == i - k
      <4>1. l2[i] = x[h] /\ l2[i].frame_id = n /\ l2[i].chunk_id = h - 1 /\ h \in 1 .. Len(x)
        BY <1>6, <2>2, <3>1
      <4> HIDE DEF h
      <4>2. h - 1 \in 0 .. Len(x) - 1 /\ (h - 1) + 1 = h
        BY <4>1
      <4>3. out2[n] = [ix \in 0 .. Len(x) - 1 |-> InAirSize(x[ix + 1])] /\ n \in DOMAIN out2
        BY <1>b
      <4>4. h - 1 \in DOMAIN out2[n] /\ out2[n][h - 1] = InAirSize(x[h])
        BY <4>2, <4>3
      <4> QED
        BY <4>1, <4>3, <4>4, Zenon DEF Remembered
    <3>2. CASE i - k \notin DOMAIN x
      <4>1. o[i] \in DOMAIN l /\ l2[i] = l[o[i]] /\ IsChunk(l[o[i]]) /\ l2[i].frame_id < n
        BY <1>6, <2>2, <3>2
      <4>2. Remembered(out, l2[i]) /\ out[l2[i].frame_id][l2[i].chunk_id] = InAirSize(l2[i])
        BY <4>1 DEF Counted, Kept
      <4> QED
        BY <1>4, <2>1, <4>1, <4>2
    <3> QED
      BY <3>1, <3>2
  <2>3. ASSUME NEW i \in DOMAIN r, ~IsChunk(r[i])
        PROVE  Remembered(out2, r[i]) /\ out2[r[i].frame_id][r[i].chunk_id] \in Nat
    <3>1. Remembered(out, r[i]) /\ out[r[i].frame_id][r[i].chunk_id] \in Nat
      BY <2>3 DEF Counted, Kept
    <3> QED
      BY <1>4, <1>5, <2>1, <2>3, <3>1
  <2> QED
    BY <2>2, <2>3, Zenon DEF Kept
<1> QED
  BY <1>7, <1>8, <1>9, <1>10, <1>11 DEF Counted, out2

(* A chunk has arrived: its acknowledgement takes its place. *)
LEMMA ReceiveCounted ==
    ASSUME NEW l \in Seq(Msg), NEW r \in Seq(Msg), NEW r2 \in Seq(Msg), NEW a \in Msg,
           NEW n, NEW out, NEW k,
           Counted(n, l, r, out), l # <<>>, IsChunk(Head(l)), Insert(r, r2, k, <<a>>),
           ~IsChunk(a), SameChunk(a, Head(l)), InAirSize(Head(l)) \in Nat
    PROVE  Counted(n, Tail(l), r2, out)
<1> DEFINE o == Before(r2, k, 1)
           c == Head(l)
<1>1. \A i \in DOMAIN r2 :
              \/ i - k = 1 /\ r2[i] = a
              \/ /\ i - k # 1
                 /\ o[i] \in DOMAIN r /\ r2[i] = r[o[i]]
                 /\ \A j \in DOMAIN r2 : (i < j /\ j - k # 1) => o[i] < o[j]
  <2>1. <<a>> \in Seq(Msg) /\ Len(<<a>>) = 1 /\ <<a>>[1] = a /\ DOMAIN <<a>> = {1}
    OBVIOUS
  <2>2. \A i : i \in DOMAIN <<a>> <=> i = 1
    BY <2>1
  <2>3. \A i \in DOMAIN r2 :
              \/ i - k \in DOMAIN <<a>> /\ r2[i] = <<a>>[i - k]
              \/ /\ i - k \notin DOMAIN <<a>>
                 /\ Before(r2, k, Len(<<a>>))[i] \in DOMAIN r /\ r2[i] = r[Before(r2, k, Len(<<a>>))[i]]
                 /\ \A j \in DOMAIN r2 : (i < j /\ j - k \notin DOMAIN <<a>>) =>
                        Before(r2, k, Len(<<a>>))[i] < Before(r2, k, Len(<<a>>))[j]
    BY <2>1, InsertFrom
  <2> QED
    BY <2>1, <2>2, <2>3
<1> HIDE DEF o
<1>2. /\ c = l[1] /\ 1 \in DOMAIN l
      /\ \A i \in DOMAIN Tail(l) : Tail(l)[i] = l[i + 1] /\ i + 1 \in DOMAIN l /\ i + 1 # 1
      /\ Tail(l) \in Seq(Msg) /\ k \in Nat
  BY TailFrom DEF Insert
<1> HIDE DEF c
<1>3. IsChunk(c) /\ SameChunk(a, c) /\ InAirSize(c) \in Nat
  BY DEF c
<1>4. c.frame_id < n /\ Remembered(out, c) /\ out[c.frame_id][c.chunk_id] = InAirSize(c)
  BY <1>2, <1>3 DEF Counted, Below, Kept
<1>5. a.frame_id = c.frame_id /\ a.chunk_id = c.chunk_id
  BY <1>3 DEF SameChunk
<1>6. Below(n, Tail(l), r2)
  BY <1>1, <1>2, <1>4, <1>5 DEF Counted, Below
<1>7. ChunkOnce(Tail(l))
  <2> SUFFICES ASSUME NEW i \in DOMAIN Tail(l), NEW j \in DOMAIN Tail(l),
                      IsChunk(Tail(l)[i]), IsChunk(Tail(l)[j]), SameChunk(Tail(l)[i], Tail(l)[j])
               PROVE  i = j
    BY DEF ChunkOnce
  <2>1. i + 1 = j + 1
    BY <1>2 DEF Counted, ChunkOnce
  <2>2. i \in Nat /\ j \in Nat
    BY <1>2
  <2> QED
    BY <2>1, <2>2
<1>8. ASSUME NEW j \in DOMAIN r, ~IsChunk(r[j]) PROVE ~SameChunk(a, r[j])
  <2>1. ~SameChunk(c, r[j])
    BY <1>2, <1>3, <1>8 DEF Counted, Apart
  <2> QED
    BY <1>5, <2>1 DEF SameChunk
<1>9. AckOnce(r2)
  <2> SUFFICES ASSUME NEW i \in DOMAIN r2, NEW j \in DOMAIN r2,
                      ~IsChunk(r2[i]), ~IsChunk(r2[j]), SameChunk(r2[i], r2[j]), i # j
               PROVE  FALSE
    BY DEF AckOnce
  <2>0. i \in Nat /\ j \in Nat /\ SameChunk(r2[j], r2[i]) /\ (i < j \/ j < i)
    BY DEF SameChunk
  <2>1. CASE i - k = 1
    <3>1. j - k # 1
      BY <1>2, <2>0, <2>1
    <3>2. r2[i] = a /\ o[j] \in DOMAIN r /\ r2[j] = r[o[j]]
      BY <1>1, <2>1, <3>1
    <3> QED
      BY <1>8, <3>2
  <2>2. CASE j - k = 1
    <3>1. i - k # 1
      BY <1>2, <2>0, <2>2
    <3>2. r2[j] = a /\ o[i] \in DOMAIN r /\ r2[i] = r[o[i]]
      BY <1>1, <2>2, <3>1
    <3> QED
      BY <1>8, <2>0, <3>2
  <2>3. CASE i - k # 1 /\ j - k # 1
    <3>1. /\ o[i] \in DOMAIN r /\ r2[i] = r[o[i]] /\ o[j] \in DOMAIN r /\ r2[j] = r[o[j]]
          /\ o[i] < o[j] \/ o[j] < o[i]
      BY <1>1, <2>0, <2>3
    <3>2. o[i] = o[j]
      BY <3>1 DEF Counted, AckOnce
    <3>3. o[i] \in Nat
      BY <3>1
    <3> QED
      BY <3>1, <3>2, <3>3
  <2> QED
    BY <2>1, <2>2, <2>3
<1>10. Apart(Tail(l), r2)
  <2> SUFFICES ASSUME NEW i \in DOMAIN Tail(l), NEW j \in DOMAIN r2,
                      IsChunk(Tail(l)[i]), ~IsChunk(r2[j]), SameChunk(Tail(l)[i], r2[j])
               PROVE  FALSE
    BY DEF Apart
  <2>1. CASE j - k = 1
    <3>1. r2[j] = a
      BY <1>1, <2>1
    <3>2. SameChunk(l[i + 1], c) /\ IsChunk(l[i + 1])
      BY <1>2, <1>5, <3>1 DEF SameChunk
    <3> QED
      BY <1>2, <1>3, <3>2 DEF Counted, ChunkOnce
  <2>2. CASE j - k # 1
    <3>1. o[j] \in DOMAIN r /\ r2[j] = r[o[j]]
      BY <1>1, <2>2
    <3> QED
      BY <1>2, <3>1 DEF Counted, Apart
  <2> QED
    BY <2>1, <2>2
<1>11. Kept(out, Tail(l), r2)
  <2>1. ASSUME NEW i \in DOMAIN Tail(l), IsChunk(Tail(l)[i])
        PROVE  /\ Remembered(out, Tail(l)[i])
               /\ out[Tail(l)[i].frame_id][Tail(l)[i].chunk_id] = InAirSize(Tail(l)[i])
    BY <1>2, <2>1 DEF Counted, Kept
  <2>2. ASSUME NEW i \in DOMAIN r2, ~IsChunk(r2[i])
        PROVE  Remembered(out, r2[i]) /\ out[r2[i].frame_id][r2[i].chunk_id] \in Nat
    <3>1. CASE i - k = 1
      <4>1. r2[i] = a
        BY <1>1, <3>1
      <4> QED
        BY <1>3, <1>4, <1>5, <4>1 DEF Remembered
    <3>2. CASE i - k # 1
      <4>1. o[i] \in DOMAIN r /\ r2[i] = r[o[i]]
        BY <1>1, <3>2
      <4> QED
        BY <2>2, <4>1 DEF Counted, Kept
    <3> QED
      BY <3>1, <3>2
  <2> QED
    BY <2>1, <2>2, Zenon DEF Kept
<1> QED
  BY <1>6, <1>7, <1>9, <1>10, <1>11 DEF Counted

(* out without the chunk that c acknowledges. *)
Forget(out, c) ==
    LET rest == [ix \in DOMAIN out[c.frame_id] \ {c.chunk_id} |-> out[c.frame_id][ix]]
        kept == IF DOMAIN rest = {} THEN DOMAIN out \ {c.frame_id} ELSE DOMAIN out
    IN  [f \in kept |-> IF f = c.frame_id THEN rest ELSE out[f]]

LEMMA Forgotten ==
    ASSUME NEW out, NEW c, NEW d, Remembered(out, c), Remembered(out, d), ~SameChunk(c, d)
    PROVE  /\ Remembered(Forget(out, c), d)
           /\ Forget(out, c)[d.frame_id][d.chunk_id] = out[d.frame_id][d.chunk_id]
<1>1. CASE c.frame_id = d.frame_id
  <2>1. d.chunk_id \in DOMAIN out[c.frame_id] \ {c.chunk_id}
    BY <1>1 DEF Remembered, SameChunk
  <2> QED
    BY <1>1, <2>1 DEF Remembered, Forget
<1>2. CASE c.frame_id # d.frame_id
  BY <1>2 DEF Remembered, Forget
<1> QED
  BY <1>1, <1>2

LEMMA AckCounted ==
    ASSUME NEW l \in Seq(Msg), NEW r \in Seq(Msg), NEW n, NEW out,
           Counted(n, l, r, out), r # <<>>, ~IsChunk(Head(r))
    PROVE  /\ Counted(n, l, Tail(r), Forget(out, Head(r)))
           /\ Remembered(out, Head(r)) /\ out[Head(r).frame_id][Head(r).chunk_id] \in Nat
           /\ \A i \in DOMAIN Tail(r) : ~IsChunk(Tail(r)[i]) =>
                 Forget(out, Head(r))[Tail(r)[i].frame_id][Tail(r)[i].chunk_id]
                    = out[Tail(r)[i].frame_id][Tail(r)[i].chunk_id]
<1> DEFINE a == Head(r)
           out2 == Forget(out, a)
<1>1. /\ a = r[1] /\ 1 \in DOMAIN r
      /\ \A i \in DOMAIN Tail(r) : Tail(r)[i] = r[i + 1] /\ i + 1 \in DOMAIN r /\ i + 1 # 1
      /\ Tail(r) \in Seq(Msg)
  BY TailFrom
<1>2. Counted(n, l, Tail(r), out)
  BY TailFrom, SelfFrom, FewerCounted
<1>3. ~IsChunk(a)
  OBVIOUS
<1> HIDE DEF a, out2
<1>4. Remembered(out, a) /\ out[a.frame_id][a.chunk_id] \in Nat
  BY <1>1, <1>3 DEF Counted, Kept
<1>5. ASSUME NEW d, Remembered(out, d), ~SameChunk(a, d)
      PROVE  Remembered(out2, d) /\ out2[d.frame_id][d.chunk_id] = out[d.frame_id][d.chunk_id]
  BY <1>4, <1>5, Forgotten DEF out2
<1>6. ASSUME NEW i \in DOMAIN Tail(r), ~IsChunk(Tail(r)[i])
      PROVE  /\ Remembered(out2, Tail(r)[i]) /\ out2[Tail(r)[i].frame_id][Tail(r)[i].chunk_id] \in Nat
             /\ out2[Tail(r)[i].frame_id][Tail(r)[i].chunk_id]
                  = out[Tail(r)[i].frame_id][Tail(r)[i].chunk_id]
  <2>1. Remembered(out, Tail(r)[i]) /\ out[Tail(r)[i].frame_id][Tail(r)[i].chunk_id] \in Nat
    BY <1>2, <1>6 DEF Counted, Kept
  <2>2. ~SameChunk(a, Tail(r)[i])
    BY <1>1, <1>3, <1>6 DEF Counted, AckOnce
  <2> QED
    BY <1>5, <2>1, <2>2
<1>7. ASSUME NEW i \in DOMAIN l, IsChunk(l[i])
      PROVE  Remembered(out2, l[i]) /\ out2[l[i].frame_id][l[i].chunk_id] = InAirSize(l[i])
  <2>1. Remembered(out, l[i]) /\ out[l[i].frame_id][l[i].chunk_id] = InAirSize(l[i])
    BY <1>7 DEF Counted, Kept
  <2>2. ~SameChunk(l[i], a)
    BY <1>1, <1>3, <1>7 DEF Counted, Apart
  <2>3. ~SameChunk(a, l[i])
    BY <2>2 DEF SameChunk
  <2> QED
    BY <1>5, <2>1, <2>3
<1>8. Kept(out2, l, Tail(r))
  BY <1>6, <1>7, Zenon DEF Kept
<1>9. Counted(n, l, Tail(r), out2)
  BY <1>2, <1>8 DEF Counted
<1> QED
  BY <1>4, <1>6, <1>9, Zenon DEF a, out2

-----------------------------------------------------------------------------
(* What the acknowledgements under way will take from in_air_size.         *)

AckNat(out, r) ==
    \A i \in DOMAIN r : ~IsChunk(r[i]) => out[r[i].frame_id][r[i].chunk_id] \in Nat

LEMMA AckSizesNat ==
    ASSUME NEW r \in Seq(Msg), NEW out, AckNat(out, r)
    PROVE  AckSizes(out, r) \in Seq(Nat) /\ Total(AckSizes(out, r)) \in Nat
<1>1. \A i \in DOMAIN r : (IF IsChunk(r[i]) THEN 0 ELSE out[r[i].frame_id][r[i].chunk_id]) \in Nat
  BY DEF AckNat
<1>2. AckSizes(out, r) \in Seq(Nat)
  BY <1>1 DEF AckSizes
<1> QED
  BY <1>2, TotalNat

LEMMA AckSizesConcat ==
    ASSUME NEW a \in Seq(Msg), NEW b \in Seq(Msg), NEW out, AckNat(out, a \o b)
    PROVE  /\ AckNat(out, a) /\ AckNat(out, b)
           /\ Total(AckSizes(out, a \o b)) = Total(AckSizes(out, a)) + Total(AckSizes(out, b))
<1>1. a \o b \in Seq(Msg)
  OBVIOUS
<1>2. /\ \A i \in DOMAIN a : i \in DOMAIN (a \o b) /\ (a \o b)[i] = a[i]
      /\ \A i \in DOMAIN b : Len(a) + i \in DOMAIN (a \o b) /\ (a \o b)[Len(a) + i] = b[i]
  OBVIOUS
<1>3. AckNat(out, a) /\ AckNat(out, b)
  BY <1>2 DEF AckNat
<1>4. /\ AckSizes(out, a) \in Seq(Nat) /\ AckSizes(out, b) \in Seq(Nat)
      /\ AckSizes(out, a \o b) \in Seq(Nat)
  BY <1>1, <1>3, AckSizesNat
<1>5. AckSizes(out, a \o b) = AckSizes(out, a) \o AckSizes(out, b)
  <2> DEFINE Z(c) == IF IsChunk(c) THEN 0 ELSE out[c.frame_id][c.chunk_id]
             A(s) == [i \in DOMAIN s |-> Z(s[i])]
  <2>1. /\ AckSizes(out, a) = A(a) /\ AckSizes(out, b) = A(b)
        /\ AckSizes(out, a \o b) = A(a \o b)
    BY DEF AckSizes
  <2> HIDE DEF Z
  <2>2. A(a \o b) = A(a) \o A(b)
    BY SMTT(40)
  <2> HIDE DEF A
  <2> QED
    BY <2>1, <2>2, Zenon
<1> QED
  BY <1>3, <1>4, <1>5, TotalConcat

LEMMA AckSizesInsert ==
    ASSUME NEW a \in Seq(Msg), NEW b \in Seq(Msg), NEW x \in Seq(Msg), NEW out,
           AckNat(out, (a \o x) \o b)
    PROVE  Total(AckSizes(out, (a \o x) \o b)) = Total(AckSizes(out, a \o b)) + Total(AckSizes(out, x))
<1> DEFINE T(s) == Total(AckSizes(out, s))
<1>0. a \o x \in Seq(Msg)
  BY ConcatProperties
<1>1. AckNat(out, a \o x) /\ AckNat(out, b) /\ T((a \o x) \o b) = T(a \o x) + T(b)
  <2> DEFINE ax == a \o x
  <2>1. ax \in Seq(Msg) /\ AckNat(out, ax \o b)
    BY <1>0
  <2> HIDE DEF ax
  <2>2. AckNat(out, ax) /\ AckNat(out, b) /\ T(ax \o b) = T(ax) + T(b)
    BY <2>1, AckSizesConcat
  <2> QED
    BY <2>2 DEF ax
<1>2. AckNat(out, a) /\ AckNat(out, x) /\ T(a \o x) = T(a) + T(x)
  BY <1>1, AckSizesConcat
<1>3. AckNat(out, a \o b)
  <2>1. \A i \in DOMAIN (a \o b) :
            \/ i \in DOMAIN a /\ (a \o b)[i] = a[i]
            \/ i - Len(a) \in DOMAIN b /\ (a \o b)[i] = b[i - Len(a)]
    OBVIOUS
  <2> QED
    BY <1>1, <1>2, <2>1 DEF AckNat
<1>4. T(a \o b) = T(a) + T(b)
  BY <1>3, AckSizesConcat
<1>5. T(a) \in Nat /\ T(b) \in Nat /\ T(x) \in Nat
  BY <1>1, <1>2, AckSizesNat
<1> HIDE DEF T
<1>6. T((a \o x) \o b) = T(a \o b) + T(x)
  BY <1>1, <1>2, <1>4, <1>5
<1> QED
  BY <1>6 DEF T

LEMMA HeadTail ==
    ASSUME NEW S, NEW r \in Seq(S), r # <<>>
    PROVE  /\ Head(r) \in S /\ Tail(r) \in Seq(S) /\ <<Head(r)>> \in Seq(S)
           /\ r = <<Head(r)>> \o Tail(r)
OBVIOUS

LEMMA OneAckSize ==
    ASSUME NEW c \in Msg, NEW out, AckNat(out, <<c>>)
    PROVE  Total(AckSizes(out, <<c>>)) = IF IsChunk(c) THEN 0 ELSE out[c.frame_id][c.chunk_id]
<1> DEFINE v == IF IsChunk(c) THEN 0 ELSE out[c.frame_id][c.chunk_id]
<1>1. DOMAIN <<c>> = {1} /\ <<c>>[1] = c
  OBVIOUS
<1>2. v \in Nat
  BY <1>1 DEF AckNat
<1>3. AckSizes(out, <<c>>) = <<v>>
  BY <1>1 DEF AckSizes
<1> HIDE DEF v
<1>4. Total(AckSizes(out, <<c>>)) = v
  BY <1>2, <1>3, TotalOne
<1> QED
  BY <1>4 DEF v

LEMMA AckSizesTail ==
    ASSUME NEW r \in Seq(Msg), r # <<>>, NEW out, AckNat(out, r)
    PROVE  Total(AckSizes(out, r)) =
              (IF IsChunk(Head(r)) THEN 0 ELSE out[Head(r).frame_id][Head(r).chunk_id])
                 + Total(AckSizes(out, Tail(r)))
<1> DEFINE c == Head(r)
           t == Tail(r)
<1>1. c \in Msg /\ t \in Seq(Msg) /\ <<c>> \in Seq(Msg) /\ r = <<c>> \o t
  BY HeadTail
<1> HIDE DEF c, t
<1>2. AckNat(out, <<c>> \o t)
  BY <1>1
<1>3. /\ AckNat(out, <<c>>)
      /\ Total(AckSizes(out, <<c>> \o t)) = Total(AckSizes(out, <<c>>)) + Total(AckSizes(out, t))
  BY <1>1, <1>2, AckSizesConcat
<1>4. Total(AckSizes(out, <<c>>)) = IF IsChunk(c) THEN 0 ELSE out[c.frame_id][c.chunk_id]
  BY <1>1, <1>3, OneAckSize
<1>5. Total(AckSizes(out, r)) = (IF IsChunk(c) THEN 0 ELSE out[c.frame_id][c.chunk_id])
                                  + Total(AckSizes(out, t))
  BY <1>1, <1>3, <1>4, Zenon
<1> QED
  BY <1>5 DEF c, t

LEMMA SizeOfTail ==
    ASSUME NEW w \in Seq(Msg), w # <<>>
    PROVE  SizeOf(w) = InAirSize(Head(w)) + SizeOf(Tail(w)) /\ InAirSize(Head(w)) \in Nat
<1> DEFINE c == Head(w)
           t == Tail(w)
<1>1. c \in Msg /\ t \in Seq(Msg) /\ <<c>> \in Seq(Msg) /\ w = <<c>> \o t
  BY HeadTail
<1> HIDE DEF c, t
<1>2. SizeOf(<<c>> \o t) = SizeOf(<<c>>) + SizeOf(t)
  BY <1>1, SizeOfConcat
<1>3. InAirSize(c) \in Nat
  BY <1>1, BufferAssumption DEF Msg, ChunkType, AckType, Pieces, InAirSize
<1>4. SizeOf(<<c>>) = InAirSize(c)
  <2>1. DOMAIN <<c>> = {1} /\ <<c>>[1] = c
    OBVIOUS
  <2>2. [i \in DOMAIN <<c>> |-> InAirSize(<<c>>[i])] = <<InAirSize(c)>>
    <3> DEFINE z == InAirSize(c)
    <3>1. [i \in DOMAIN <<c>> |-> InAirSize(<<c>>[i])] = [i \in {1} |-> z]
      BY <2>1, Zenon
    <3> HIDE DEF z
    <3>2. [i \in {1} |-> z] = <<z>>
      OBVIOUS
    <3> QED
      BY <3>1, <3>2 DEF z
  <2> QED
    BY <1>3, <2>2, TotalOne DEF SizeOf
<1>5. SizeOf(w) = InAirSize(c) + SizeOf(t)
  BY <1>1, <1>2, <1>4, Zenon
<1> QED
  BY <1>3, <1>5 DEF c, t

LEMMA AckSizesSame ==
    ASSUME NEW r, NEW out, NEW out2,
           \A i \in DOMAIN r : ~IsChunk(r[i]) =>
              out2[r[i].frame_id][r[i].chunk_id] = out[r[i].frame_id][r[i].chunk_id]
    PROVE  AckSizes(out2, r) = AckSizes(out, r)
BY DEF AckSizes

LEMMA CountedNat ==
    ASSUME NEW n, NEW l, NEW r, NEW out, Counted(n, l, r, out)
    PROVE  AckNat(out, r)
BY DEF Counted, Kept, AckNat

-----------------------------------------------------------------------------
(* Putting frames together.                                                *)

LEMMA GoodFacts ==
    ASSUME NEW s \in Seq(Nat), NEW c \in Msg, IsChunk(c), Good(s, c)
    PROVE  /\ c.frame_id \in 0 .. Len(s) - 1 /\ s[c.frame_id + 1] \in Nat
           /\ c.chunk_id \in 0 .. ChunkCount(s[c.frame_id + 1]) - 1
           /\ c.chunk_count = ChunkCount(s[c.frame_id + 1])
           /\ c.data = ChunkOf(c.frame_id, s[c.frame_id + 1], c.chunk_id).data
           /\ ChunkCount(s[c.frame_id + 1]) \in Nat
<1>1. c.frame_id \in Nat /\ c.chunk_id \in Nat
  BY DEF Msg, ChunkType, AckType
<1>2. /\ c.frame_id < Len(s) /\ c.chunk_id < ChunkCount(s[c.frame_id + 1])
      /\ c = ChunkOf(c.frame_id, s[c.frame_id + 1], c.chunk_id)
  BY DEF Good
<1>3. c.frame_id \in 0 .. Len(s) - 1 /\ s[c.frame_id + 1] \in Nat
  BY <1>1, <1>2
<1> DEFINE f == c.frame_id
           len == s[f + 1]
           ix == c.chunk_id
<1> HIDE DEF f, len, ix
<1>4. ChunkCount(len) \in Nat
  BY <1>3, CountFacts DEF len, f
<1>5. ix \in 0 .. ChunkCount(len) - 1 /\ ix + 1 \in 1 .. ChunkCount(len)
  BY <1>1, <1>2, <1>4 DEF len, f, ix
<1>6. Chunks(f, len)[ix + 1].chunk_count = ChunkCount(len)
  BY <1>1, <1>3, <1>5, ChunkFacts DEF f, len
<1> QED
  BY <1>2, <1>3, <1>4, <1>5, <1>6 DEF f, len, ix, ChunkOf

ChunksTo(l, l2) == \A i \in DOMAIN l : IsChunk(l[i]) => \E j \in DOMAIN l2 : l2[j] = l[i]

(* Acknowledgements come and go. *)
LEMMA FewerFramed ==
    ASSUME NEW s \in Seq(Nat), NEW l \in Seq(Msg), NEW l2 \in Seq(Msg), NEW o, NEW inc,
           Framed(s, l, inc), ChunksFrom(l2, l, o), ChunksTo(l, l2)
    PROVE  Framed(s, l2, inc)
<1>1. Order(l2)
  BY FewerOrder DEF Framed
<1>2. ChunksGood(s, l2)
  BY DEF Framed, ChunksGood, ChunksFrom
<1>3. Excl(l2, inc)
  BY DEF Framed, Excl, ChunksFrom
<1>4. Rest(s, l2, inc)
  <2> SUFFICES ASSUME NEW f \in 0 .. Len(s) - 1, Open(l2, inc, f),
                      NEW ix \in 0 .. ChunkCount(s[f + 1]) - 1
               PROVE  Here(inc, f, ix) \/ UnderWay(l2, f, ix)
    BY DEF Rest
  <2>1. Open(l, inc, f)
    BY DEF Open, ChunksFrom
  <2>2. Here(inc, f, ix) \/ UnderWay(l, f, ix)
    BY <2>1 DEF Framed, Rest
  <2>3. UnderWay(l, f, ix) => UnderWay(l2, f, ix)
    BY DEF UnderWay, ChunksTo
  <2> QED
    BY <2>2, <2>3
<1> QED
  BY <1>1, <1>2, <1>3, <1>4 DEF Framed

LEMMA Longer ==
    ASSUME NEW s \in Seq(Nat), NEW len \in Nat
    PROVE  /\ Append(s, len) \in Seq(Nat) /\ Len(Append(s, len)) = Len(s) + 1 /\ Len(s) \in Nat
           /\ Append(s, len)[Len(s) + 1] = len
           /\ \A f \in 0 .. Len(s) - 1 : Append(s, len)[f + 1] = s[f + 1] /\ s[f + 1] \in Nat
OBVIOUS

(* A frame is given: x are its chunks, put behind all chunks of its class. *)
LEMMA SendFramed ==
    ASSUME NEW s \in Seq(Nat), NEW len \in Nat, NEW l \in Seq(Msg), NEW l2 \in Seq(Msg),
           NEW k, NEW inc,
           Framed(s, l, inc), Insert(l, l2, k, Chunks(Len(s), len)),
           \A i \in k + 1 .. Len(l) : IsChunk(l[i]) /\ (l[i].chunk_count = 1 <=> ~Single(len))
    PROVE  Framed(Append(s, len), l2, inc)
<1> DEFINE n == Len(s)
           x == Chunks(n, len)
           s2 == Append(s, len)
           o == Before(l2, k, Len(x))
<1>1. /\ s2 \in Seq(Nat) /\ Len(s2) = n + 1 /\ n \in Nat /\ s2[n + 1] = len
      /\ \A f \in 0 .. n - 1 : s2[f + 1] = s[f + 1] /\ s[f + 1] \in Nat
  BY Longer
<1>2. x \in Seq(Msg) /\ Len(x) = ChunkCount(len) /\ ChunkCount(len) \in Nat /\ DOMAIN x = 1 .. ChunkCount(len)
  <2>1. x \in Seq(ChunkType) /\ Len(x) = ChunkCount(len)
    BY <1>1, ChunkFacts
  <2>2. x \in Seq(Msg)
    BY <2>1, SeqMonotonic DEF Msg
  <2> HIDE DEF x
  <2> QED
    BY <2>1, <2>2, CountFacts
<1>3. \A i \in DOMAIN x : /\ IsChunk(x[i]) /\ x[i].frame_id = n /\ x[i].chunk_id = i - 1
                          /\ x[i].chunk_count = ChunkCount(len)
  <2>1. ASSUME NEW i \in 1 .. ChunkCount(len)
        PROVE  /\ Chunks(n, len)[i].type = "Chunk" /\ Chunks(n, len)[i].frame_id = n
               /\ Chunks(n, len)[i].chunk_id = i - 1 /\ Chunks(n, len)[i].chunk_count = ChunkCount(len)
    BY <1>1, ChunkFacts
  <2> QED
    BY <1>2, <2>1, Zenon DEF IsChunk
<1>4. \A i \in DOMAIN l2 :
              \/ i - k \in DOMAIN x /\ l2[i] = x[i - k]
              \/ /\ i - k \notin DOMAIN x
                 /\ o[i] \in DOMAIN l /\ l2[i] = l[o[i]]
                 /\ \A j \in DOMAIN l2 : (i < j /\ j - k \notin DOMAIN x) => o[i] < o[j]
  BY <1>2, InsertFrom
<1>5. /\ \A i \in DOMAIN l : \E j \in DOMAIN l2 : l2[j] = l[i]
      /\ \A i \in DOMAIN x : \E j \in DOMAIN l2 : l2[j] = x[i]
  BY <1>2, InsertTo
<1>6. k \in Nat /\ k <= Len(l) /\ Len(l2) = Len(l) + Len(x)
  BY <1>2 DEF Insert
<1>7. \A j \in DOMAIN l2 : o[j] = IF j <= k THEN j ELSE j - Len(x)
  BY DEF Before
<1>8. ASSUME NEW ix \in 0 .. ChunkCount(len) - 1 PROVE ix + 1 \in DOMAIN x /\ x[ix + 1] = ChunkOf(n, len, ix)
  <2>1. ix + 1 \in 1 .. ChunkCount(len)
    BY <1>2
  <2> QED
    BY <1>2, <2>1 DEF ChunkOf
<1> HIDE DEF x, o, s2
<1>9. ASSUME NEW i \in DOMAIN l, IsChunk(l[i])
      PROVE  Good(s, l[i]) /\ l[i].frame_id \in 0 .. n - 1 /\ Good(s2, l[i])
  <2>1. Good(s, l[i]) /\ l[i] \in Msg
    BY <1>9 DEF Framed, ChunksGood
  <2>2. l[i].frame_id \in 0 .. n - 1
    BY <1>9, <2>1, GoodFacts
  <2>3. Good(s2, l[i])
    <3> DEFINE c == l[i]
    <3>1. c.frame_id < n + 1
      BY <1>1, <2>2
    <3>2. s2[c.frame_id + 1] = s[c.frame_id + 1]
      BY <1>1, <2>2
    <3> HIDE DEF c
    <3>3. Good(s, c)
      BY <2>1 DEF c
    <3>4. Good(s2, c)
      BY <1>1, <3>1, <3>2, <3>3 DEF Good
    <3> QED
      BY <3>4 DEF c
  <2> QED
    BY <2>1, <2>2, <2>3
<1>10. ASSUME NEW i \in DOMAIN l2, IsChunk(l2[i])
       PROVE  \/ i - k \in DOMAIN x /\ l2[i] = x[i - k]
              \/ /\ i - k \notin DOMAIN x /\ o[i] \in DOMAIN l /\ l2[i] = l[o[i]] /\ IsChunk(l[o[i]])
                 /\ l2[i].frame_id \in 0 .. n - 1
  BY <1>4, <1>9, <1>10
<1>11. ChunksGood(s2, l2)
  <2> SUFFICES ASSUME NEW i \in DOMAIN l2, IsChunk(l2[i]) PROVE Good(s2, l2[i])
    BY DEF ChunksGood
  <2>1. CASE i - k \in DOMAIN x /\ l2[i] = x[i - k]
    <3> DEFINE h == i - k
    <3>1. l2[i].frame_id = n /\ l2[i].chunk_id = h - 1 /\ h \in 1 .. ChunkCount(len) /\ l2[i] = x[h]
      BY <1>2, <1>3, <2>1
    <3> HIDE DEF h
    <3>2. h - 1 \in 0 .. ChunkCount(len) - 1 /\ (h - 1) + 1 = h /\ h - 1 < ChunkCount(len) /\ n < n + 1
      BY <1>1, <1>2, <3>1
    <3>3. x[h] = ChunkOf(n, len, h - 1)
      BY <1>8, <3>2
    <3> QED
      BY <1>1, <3>1, <3>2, <3>3 DEF Good
  <2>2. CASE o[i] \in DOMAIN l /\ l2[i] = l[o[i]]
    BY <1>9, <2>2
  <2> QED
    BY <1>10, <2>1, <2>2
<1>12. Order(l2)
  <2> SUFFICES ASSUME NEW i \in DOMAIN l2, NEW j \in DOMAIN l2, i < j,
                      IsChunk(l2[i]), IsChunk(l2[j]), SameClass(l2[i], l2[j])
               PROVE  l2[i].frame_id <= l2[j].frame_id
    BY DEF Order
  <2>1. CASE j - k \in DOMAIN x /\ l2[j] = x[j - k]
    <3>1. l2[j].frame_id = n
      BY <1>3, <2>1
    <3>2. l2[i].frame_id = n \/ l2[i].frame_id \in 0 .. n - 1
      BY <1>3, <1>10
    <3> QED
      BY <1>1, <3>1, <3>2
  <2>2. CASE j - k \notin DOMAIN x
    <3>0. o[j] \in DOMAIN l /\ l2[j] = l[o[j]]
      BY <1>10, <2>2
    <3>1. CASE i - k \in DOMAIN x /\ l2[i] = x[i - k]
      <4>1. i \in Nat /\ j \in Nat /\ j > k + Len(x) /\ j <= Len(l2)
        BY <1>2, <1>6, <2>2, <3>1
      <4>2. o[j] \in k + 1 .. Len(l)
        BY <1>2, <1>6, <1>7, <4>1, SMTT(40)
      <4>3. l[o[j]].chunk_count = 1 <=> ~Single(len)
        BY <4>2
      <4>4. l2[i].chunk_count = 1 <=> Single(len)
        BY <1>3, <3>1, CountFacts
      <4> QED
        BY <3>0, <4>3, <4>4 DEF SameClass
    <3>2. CASE i - k \notin DOMAIN x
      <4>1. o[i] \in DOMAIN l /\ l2[i] = l[o[i]] /\ o[i] < o[j]
        BY <1>4, <2>2, <3>2
      <4> QED
        BY <3>0, <4>1 DEF Framed, Order
    <3> QED
      BY <1>10, <3>1, <3>2
  <2> QED
    BY <1>10, <2>1, <2>2
<1>13. ASSUME NEW f \in DOMAIN inc PROVE f \in 0 .. n - 1 /\ Partial(s2, f, inc[f])
  <2>1. Partial(s, f, inc[f])
    BY DEF Framed, Assembled
  <2>2. f \in 0 .. n - 1
    BY <2>1 DEF Partial
  <2>3. s2[f + 1] = s[f + 1]
    BY <1>1, <2>2
  <2>4. f \in 0 .. Len(s2) - 1
    <3>1. Len(s2) = n + 1 /\ n \in Nat
      BY <1>1
    <3> HIDE DEF n
    <3> QED
      BY <2>2, <3>1
  <2> QED
    BY <2>1, <2>2, <2>3, <2>4 DEF Partial
<1>14. Assembled(s2, inc)
  BY <1>13 DEF Assembled
<1>15. Rest(s2, l2, inc)
  <2> SUFFICES ASSUME NEW f \in 0 .. Len(s2) - 1, Open(l2, inc, f),
                      NEW ix \in 0 .. ChunkCount(s2[f + 1]) - 1
               PROVE  Here(inc, f, ix) \/ UnderWay(l2, f, ix)
    BY DEF Rest
  <2>1. CASE f = n
    <3>1. ix \in 0 .. ChunkCount(len) - 1
      BY <1>1, <2>1
    <3>2. ix + 1 \in DOMAIN x /\ ix \in Int
      BY <1>8, <3>1
    <3>3. x[ix + 1].frame_id = n /\ x[ix + 1].chunk_id = ix /\ IsChunk(x[ix + 1])
      BY <1>3, <3>2
    <3> QED
      BY <1>5, <2>1, <3>2, <3>3 DEF UnderWay
  <2>2. CASE f # n
    <3>1. f \in 0 .. n - 1 /\ s2[f + 1] = s[f + 1]
      BY <1>1, <2>2
    <3>2. Open(l, inc, f)
      <4>1. CASE f \in DOMAIN inc
        BY <4>1 DEF Open
      <4>2. CASE f \notin DOMAIN inc
        <5>1. PICK i \in DOMAIN l2 : IsChunk(l2[i]) /\ l2[i].frame_id = f
          BY <4>2 DEF Open
        <5>2. o[i] \in DOMAIN l /\ l2[i] = l[o[i]] /\ IsChunk(l[o[i]])
          BY <1>3, <1>10, <2>2, <5>1
        <5> QED
          BY <5>1, <5>2 DEF Open
      <4> QED
        BY <4>1, <4>2
    <3>3. Here(inc, f, ix) \/ UnderWay(l, f, ix)
      BY <3>1, <3>2 DEF Framed, Rest
    <3>4. UnderWay(l, f, ix) => UnderWay(l2, f, ix)
      BY <1>5 DEF UnderWay
    <3> QED
      BY <3>3, <3>4
  <2> QED
    BY <2>1, <2>2
<1>16. Excl(l2, inc)
  <2> SUFFICES ASSUME NEW i \in DOMAIN l2, IsChunk(l2[i]), Here(inc, l2[i].frame_id, l2[i].chunk_id)
               PROVE  FALSE
    BY DEF Excl
  <2>1. CASE i - k \in DOMAIN x /\ l2[i] = x[i - k]
    <3>1. n \in DOMAIN inc
      BY <1>3, <2>1 DEF Here
    <3>2. n \in 0 .. n - 1
      BY <1>13, <3>1
    <3> QED
      BY <1>1, <3>2
  <2>2. CASE o[i] \in DOMAIN l /\ l2[i] = l[o[i]] /\ IsChunk(l[o[i]])
    BY <2>2 DEF Framed, Excl
  <2> QED
    BY <1>10, <2>1, <2>2
<1>17. Framed(s2, l2, inc)
  BY <1>11, <1>12, <1>14, <1>15, <1>16 DEF Framed
<1> QED
  BY <1>17 DEF s2

(* The frame of the chunk that arrives is over, or has one piece more. *)
Over(l, inc2) ==
    /\ Head(l).frame_id \notin DOMAIN inc2
    /\ \A i \in DOMAIN Tail(l) : IsChunk(Tail(l)[i]) => Tail(l)[i].frame_id # Head(l).frame_id

OneMore(s, l, inc, inc2) ==
    LET f == Head(l).frame_id
    IN  /\ f \in DOMAIN inc2 /\ Partial(s, f, inc2[f])
        /\ \A ix : ix \in DOMAIN inc2[f].chunks <=> (Here(inc, f, ix) \/ ix = Head(l).chunk_id)

Elsewhere(l, inc, inc2) ==
    \A f : f # Head(l).frame_id =>
        (f \in DOMAIN inc2 <=> f \in DOMAIN inc) /\ (f \in DOMAIN inc => inc2[f] = inc[f])

LEMMA ReceiveFramed ==
    ASSUME NEW s \in Seq(Nat), NEW l \in Seq(Msg), NEW inc, NEW inc2, Framed(s, l, inc), ChunkOnce(l),
           l # <<>>, IsChunk(Head(l)), Elsewhere(l, inc, inc2), Over(l, inc2) \/ OneMore(s, l, inc, inc2)
    PROVE  Framed(s, Tail(l), inc2)
<1> DEFINE c == Head(l)
           t == Tail(l)
<1>1. /\ t \in Seq(Msg) /\ c \in Msg /\ c = l[1] /\ 1 \in DOMAIN l
      /\ \A i \in DOMAIN t : t[i] = l[i + 1] /\ i + 1 \in DOMAIN l /\ i + 1 # 1
      /\ \A i \in DOMAIN l : i # 1 => i - 1 \in DOMAIN t /\ t[i - 1] = l[i]
      /\ ChunksFrom(t, l, [i \in DOMAIN t |-> i + 1])
  BY TailFrom
<1>2. IsChunk(c)
  OBVIOUS
<1> HIDE DEF c, t
<1>3. Order(t)
  BY <1>1, FewerOrder DEF Framed
<1>4. ChunksGood(s, t)
  BY <1>1 DEF Framed, ChunksGood
<1>5. \A i \in DOMAIN t : IsChunk(t[i]) =>
          ~SameChunk(t[i], c) /\ ~Here(inc, t[i].frame_id, t[i].chunk_id)
  BY <1>1, <1>2 DEF Framed, Excl, ChunkOnce
<1>6. \A f : f # c.frame_id =>
        (f \in DOMAIN inc2 <=> f \in DOMAIN inc) /\ (f \in DOMAIN inc => inc2[f] = inc[f])
  BY DEF Elsewhere, c
<1>7. Over(l, inc2) => /\ c.frame_id \notin DOMAIN inc2
                       /\ \A i \in DOMAIN t : IsChunk(t[i]) => t[i].frame_id # c.frame_id
  BY DEF Over, c, t
<1>8. OneMore(s, l, inc, inc2) =>
         /\ c.frame_id \in DOMAIN inc2 /\ Partial(s, c.frame_id, inc2[c.frame_id])
         /\ \A ix : ix \in DOMAIN inc2[c.frame_id].chunks <=> (Here(inc, c.frame_id, ix) \/ ix = c.chunk_id)
  BY DEF OneMore, c
<1>9. \A f : f # c.frame_id => \A ix : Here(inc2, f, ix) <=> Here(inc, f, ix)
  BY <1>6 DEF Here
<1>10. OneMore(s, l, inc, inc2) =>
          \A ix : Here(inc2, c.frame_id, ix) <=> (Here(inc, c.frame_id, ix) \/ ix = c.chunk_id)
  BY <1>8 DEF Here
<1>11. Assembled(s, inc2)
  <2> SUFFICES ASSUME NEW f \in DOMAIN inc2 PROVE Partial(s, f, inc2[f])
    BY DEF Assembled
  <2>1. CASE f = c.frame_id
    BY <1>7, <1>8, <2>1
  <2>2. CASE f # c.frame_id
    BY <1>6, <2>2 DEF Framed, Assembled
  <2> QED
    BY <2>1, <2>2
<1>12. Excl(t, inc2)
  <2> SUFFICES ASSUME NEW i \in DOMAIN t, IsChunk(t[i]), Here(inc2, t[i].frame_id, t[i].chunk_id)
               PROVE  FALSE
    BY DEF Excl
  <2>1. CASE t[i].frame_id = c.frame_id
    <3>1. OneMore(s, l, inc, inc2)
      BY <1>7, <2>1
    <3>2. Here(inc, c.frame_id, t[i].chunk_id) \/ t[i].chunk_id = c.chunk_id
      BY <1>10, <2>1, <3>1
    <3> QED
      BY <1>5, <2>1, <3>2 DEF SameChunk
  <2>2. CASE t[i].frame_id # c.frame_id
    BY <1>5, <1>9, <2>2
  <2> QED
    BY <2>1, <2>2
<1>13. Rest(s, t, inc2)
  <2> SUFFICES ASSUME NEW f \in 0 .. Len(s) - 1, Open(t, inc2, f),
                      NEW ix \in 0 .. ChunkCount(s[f + 1]) - 1
               PROVE  Here(inc2, f, ix) \/ UnderWay(t, f, ix)
    BY DEF Rest
  <2>1. Open(l, inc, f)
    <3>1. CASE f \in DOMAIN inc2 /\ f # c.frame_id
      BY <1>6, <3>1 DEF Open
    <3>2. CASE f = c.frame_id
      BY <1>1, <1>2, <3>2 DEF Open
    <3>3. CASE f \notin DOMAIN inc2
      BY <1>1, <3>3 DEF Open
    <3> QED
      BY <3>1, <3>2, <3>3
  <2>2. Here(inc, f, ix) \/ UnderWay(l, f, ix)
    BY <2>1 DEF Framed, Rest
  <2>3. UnderWay(l, f, ix) => UnderWay(t, f, ix) \/ (f = c.frame_id /\ ix = c.chunk_id)
    <3> SUFFICES ASSUME NEW i \in DOMAIN l, IsChunk(l[i]), l[i].frame_id = f, l[i].chunk_id = ix,
                        ~(f = c.frame_id /\ ix = c.chunk_id)
                 PROVE  UnderWay(t, f, ix)
      BY DEF UnderWay
    <3>1. i - 1 \in DOMAIN t /\ t[i - 1] = l[i]
      BY <1>1
    <3> QED
      BY <3>1 DEF UnderWay
  <2>4. CASE f # c.frame_id
    BY <1>9, <2>2, <2>3, <2>4
  <2>5. CASE f = c.frame_id
    <3>1. ~Over(l, inc2)
      BY <1>7, <2>5 DEF Open
    <3> QED
      BY <1>10, <2>2, <2>3, <2>5, <3>1
  <2> QED
    BY <2>4, <2>5
<1>14. Framed(s, t, inc2)
  BY <1>3, <1>4, <1>11, <1>12, <1>13 DEF Framed
<1> QED
  BY <1>14 DEF t

(* The chunk of a small frame is the frame. *)
LEMMA ReceiveSingle ==
    ASSUME NEW s \in Seq(Nat), NEW l \in Seq(Msg), NEW inc, Framed(s, l, inc), ChunkOnce(l),
           l # <<>>, IsChunk(Head(l)), Head(l).chunk_count = 1
    PROVE  /\ Over(l, inc) /\ Elsewhere(l, inc, inc)
           /\ <<Head(l).data>> = Whole(Head(l).frame_id, s[Head(l).frame_id + 1])
<1> DEFINE c == Head(l)
           t == Tail(l)
<1>1. /\ c \in Msg /\ c = l[1] /\ 1 \in DOMAIN l /\ IsChunk(c)
      /\ \A i \in DOMAIN t : t[i] = l[i + 1] /\ i + 1 \in DOMAIN l /\ i + 1 # 1
      /\ \A i \in DOMAIN l : l[i] \in Msg
  BY TailFrom
<1>0. c.chunk_count = 1
  OBVIOUS
<1> HIDE DEF c, t
<1>2. \A i \in DOMAIN l : IsChunk(l[i]) => Good(s, l[i])
  BY DEF Framed, ChunksGood
<1> DEFINE f == c.frame_id
<1>3. /\ f \in 0 .. Len(s) - 1 /\ s[f + 1] \in Nat /\ c.chunk_id \in 0 .. ChunkCount(s[f + 1]) - 1
      /\ c.chunk_count = ChunkCount(s[f + 1])
      /\ c.data = ChunkOf(f, s[f + 1], c.chunk_id).data
  BY <1>1, <1>2, GoodFacts
<1>4. ChunkCount(s[f + 1]) = 1 /\ c.chunk_id = 0
  BY <1>0, <1>3
<1>5. f \notin DOMAIN inc
  <2> SUFFICES ASSUME f \in DOMAIN inc PROVE FALSE
    OBVIOUS
  <2>1. Partial(s, f, inc[f])
    BY DEF Framed, Assembled
  <2> QED
    BY <1>4, <2>1 DEF Partial
<1>6. ASSUME NEW i \in DOMAIN t, IsChunk(t[i]), t[i].frame_id = f PROVE FALSE
  <2>1. l[i + 1] = t[i] /\ l[i + 1] \in Msg /\ Good(s, l[i + 1]) /\ i + 1 \in DOMAIN l /\ i + 1 # 1
    BY <1>1, <1>2, <1>6
  <2>2. t[i].chunk_id \in 0 .. ChunkCount(s[f + 1]) - 1
    BY <1>6, <2>1, GoodFacts
  <2>3. t[i].chunk_id = c.chunk_id
    BY <1>4, <2>2
  <2> QED
    BY <1>1, <1>6, <2>1, <2>3 DEF ChunkOnce, SameChunk
<1>7. <<c.data>> = Whole(f, s[f + 1])
  <2>1. c.data = Chunks(f, s[f + 1])[1].data
    BY <1>3, <1>4 DEF ChunkOf
  <2>2. Whole(f, s[f + 1]) = [i \in 1 .. 1 |-> Chunks(f, s[f + 1])[i].data]
    BY <1>4 DEF Whole
  <2> DEFINE d(i) == Chunks(f, s[f + 1])[i].data
  <2> HIDE DEF d
  <2>3. [i \in 1 .. 1 |-> d(i)] = <<d(1)>>
    OBVIOUS
  <2> QED
    BY <2>1, <2>2, <2>3 DEF d
<1>8. Elsewhere(l, inc, inc)
  BY DEF Elsewhere
<1>9. Over(l, inc)
  BY <1>5, <1>6 DEF Over, c, t
<1> QED
  BY <1>7, <1>8, <1>9 DEF c

(* The frame of chunk c as far as it is there, without and with c. *)
Known(inc, c) ==
    IF c.frame_id \in DOMAIN inc THEN inc[c.frame_id]
    ELSE [chunk_count |-> c.chunk_count, chunks |-> <<>>]

Added(inc, c) ==
    [ix \in DOMAIN Known(inc, c).chunks \cup {c.chunk_id} |->
        IF ix = c.chunk_id THEN c.data ELSE Known(inc, c).chunks[ix]]

(* With c, all that is there of its frame are pieces of that frame. *)
Gathered(s, inc, c) ==
    LET f == c.frame_id
        n == ChunkCount(s[f + 1])
    IN  /\ f \in 0 .. Len(s) - 1 /\ s[f + 1] \in Nat /\ n \in Nat /\ n > 1
        /\ Known(inc, c).chunk_count = n
        /\ DOMAIN Known(inc, c) = {"chunk_count", "chunks"}
        /\ DOMAIN Added(inc, c) \subseteq 0 .. n - 1
        /\ \A ix \in DOMAIN Added(inc, c) : Added(inc, c)[ix] = ChunkOf(f, s[f + 1], ix).data
        /\ \A ix : ix \in DOMAIN Added(inc, c) <=> (Here(inc, f, ix) \/ ix = c.chunk_id)

LEMMA Collecting ==
    ASSUME NEW s \in Seq(Nat), NEW l \in Seq(Msg), NEW inc, Framed(s, l, inc), ChunkOnce(l),
           l # <<>>, IsChunk(Head(l)), Head(l).chunk_count # 1
    PROVE  Gathered(s, inc, Head(l))
<1> DEFINE c == Head(l)
           f == c.frame_id
           n == ChunkCount(s[f + 1])
<1>1. c \in Msg /\ c = l[1] /\ 1 \in DOMAIN l /\ IsChunk(c)
  BY TailFrom
<1>0. c.chunk_count # 1
  OBVIOUS
<1> HIDE DEF c
<1>2. Good(s, c)
  BY <1>1 DEF Framed, ChunksGood
<1>3. /\ f \in 0 .. Len(s) - 1 /\ s[f + 1] \in Nat /\ c.chunk_id \in 0 .. n - 1
      /\ c.chunk_count = n /\ c.data = ChunkOf(f, s[f + 1], c.chunk_id).data /\ n \in Nat
  BY <1>1, <1>2, GoodFacts
<1>4. n > 1
  <2> HIDE DEF n
  <2> QED
    BY <1>0, <1>3
<1> HIDE DEF f, n
<1>5. CASE f \in DOMAIN inc
  <2> DEFINE k == inc[f]
  <2>1. Known(inc, c) = k
    BY <1>5 DEF Known, f
  <2>2. /\ k.chunk_count = n /\ DOMAIN k = {"chunk_count", "chunks"} /\ DOMAIN k.chunks \subseteq 0 .. n - 1
        /\ \A ix \in DOMAIN k.chunks : k.chunks[ix] = ChunkOf(f, s[f + 1], ix).data
    BY <1>5 DEF Framed, Assembled, Partial, n
  <2> HIDE DEF k
  <2>3. Added(inc, c) = [ix \in DOMAIN k.chunks \cup {c.chunk_id} |-> IF ix = c.chunk_id THEN c.data ELSE k.chunks[ix]]
    BY <2>1 DEF Added
  <2>4. \A ix : ix \in DOMAIN k.chunks <=> Here(inc, f, ix)
    BY <1>5 DEF Here, k
  <2> QED
    BY <1>3, <1>4, <2>1, <2>2, <2>3, <2>4 DEF f, n, c, Gathered
<1>6. CASE f \notin DOMAIN inc
  <2>1. Known(inc, c) = [chunk_count |-> n, chunks |-> <<>>]
    BY <1>3, <1>6 DEF Known, f
  <2>2. /\ Known(inc, c).chunk_count = n /\ DOMAIN Known(inc, c) = {"chunk_count", "chunks"}
        /\ DOMAIN Known(inc, c).chunks = {}
    BY <2>1
  <2>3. Added(inc, c) = [ix \in {c.chunk_id} |-> c.data]
    BY <2>2 DEF Added
  <2>4. \A ix : ~Here(inc, f, ix)
    BY <1>6 DEF Here
  <2> QED
    BY <1>3, <1>4, <2>2, <2>3, <2>4 DEF f, n, c, Gathered
<1> QED
  BY <1>5, <1>6

LEMMA ReceiveLast ==
    ASSUME NEW s \in Seq(Nat), NEW l \in Seq(Msg), NEW inc, Framed(s, l, inc), ChunkOnce(l),
           l # <<>>, IsChunk(Head(l)), Head(l).chunk_count # 1,
           Complete(Added(inc, Head(l)), Known(inc, Head(l)).chunk_count),
           NEW inc2, inc2 = [f \in DOMAIN inc \ {Head(l).frame_id} |-> inc[f]]
    PROVE  /\ Over(l, inc2) /\ Elsewhere(l, inc, inc2)
           /\ IntoIter(Added(inc, Head(l))) = Whole(Head(l).frame_id, s[Head(l).frame_id + 1])
<1> DEFINE c == Head(l)
           t == Tail(l)
           f == c.frame_id
           n == ChunkCount(s[f + 1])
           chunks == Added(inc, c)
<1>1. /\ n \in Nat /\ n > 1 /\ Known(inc, c).chunk_count = n
      /\ DOMAIN chunks \subseteq 0 .. n - 1
      /\ \A ix \in DOMAIN chunks : chunks[ix] = ChunkOf(f, s[f + 1], ix).data
      /\ \A ix : ix \in DOMAIN chunks <=> (Here(inc, f, ix) \/ ix = c.chunk_id)
  <2>1. Gathered(s, inc, Head(l))
    BY Collecting
  <2> QED
    BY <2>1, Zenon DEF Gathered
<1>2. /\ c \in Msg /\ c = l[1] /\ 1 \in DOMAIN l /\ IsChunk(c)
      /\ \A i \in DOMAIN t : t[i] = l[i + 1] /\ i + 1 \in DOMAIN l /\ i + 1 # 1
      /\ \A i \in DOMAIN l : l[i] \in Msg
  BY TailFrom
<1>3. Cardinality(DOMAIN chunks) = n
  BY <1>1 DEF Complete
<1> HIDE DEF chunks, c, t, f, n
<1>4. DOMAIN chunks = 0 .. n - 1
  <2>1. IsFiniteSet(0 .. n - 1) /\ Cardinality(0 .. n - 1) = n
    BY <1>1, FS_Interval
  <2> QED
    BY <1>1, <1>3, <2>1, FS_Subset
<1>5. ASSUME NEW i \in DOMAIN t, IsChunk(t[i]), t[i].frame_id = f PROVE FALSE
  <2>1. l[i + 1] = t[i] /\ l[i + 1] \in Msg /\ i + 1 \in DOMAIN l /\ i + 1 # 1 /\ Good(s, t[i])
    BY <1>2, <1>5 DEF Framed, ChunksGood
  <2>2. t[i].chunk_id \in 0 .. n - 1
    BY <1>5, <2>1, GoodFacts DEF n
  <2>3. Here(inc, f, t[i].chunk_id) \/ t[i].chunk_id = c.chunk_id
    BY <1>1, <1>4, <2>2
  <2>4. ~Here(inc, f, t[i].chunk_id)
    BY <1>5, <2>1 DEF Framed, Excl
  <2>5. SameChunk(l[i + 1], l[1])
    BY <1>2, <1>5, <2>1, <2>3, <2>4 DEF SameChunk, f
  <2> QED
    BY <1>2, <1>5, <2>1, <2>5 DEF ChunkOnce
<1>6. Over(l, inc2)
  BY <1>5 DEF Over, c, t, f
<1>7. Elsewhere(l, inc, inc2)
  BY DEF Elsewhere
<1>8. IntoIter(chunks) = [i \in 1 .. n |-> chunks[i - 1]]
  BY <1>1, <1>4, IntoIterWhole
<1>9. ASSUME NEW i \in 1 .. n PROVE chunks[i - 1] = Chunks(f, s[f + 1])[i].data
  <2>1. i - 1 \in 0 .. n - 1 /\ (i - 1) + 1 = i
    BY <1>1
  <2> QED
    BY <1>1, <1>4, <2>1 DEF ChunkOf
<1>10. IntoIter(chunks) = Whole(f, s[f + 1])
  BY <1>8, <1>9 DEF Whole, n
<1> QED
  BY <1>6, <1>7, <1>10 DEF chunks, c, f

LEMMA ReceiveMore ==
    ASSUME NEW s \in Seq(Nat), NEW l \in Seq(Msg), NEW inc, Framed(s, l, inc), ChunkOnce(l),
           l # <<>>, IsChunk(Head(l)), Head(l).chunk_count # 1,
           ~Complete(Added(inc, Head(l)), Known(inc, Head(l)).chunk_count),
           NEW inc2,
           inc2 = [f \in DOMAIN inc \cup {Head(l).frame_id} |->
                      IF f = Head(l).frame_id
                      THEN [Known(inc, Head(l)) EXCEPT !.chunks = Added(inc, Head(l))]
                      ELSE inc[f]]
    PROVE  OneMore(s, l, inc, inc2) /\ Elsewhere(l, inc, inc2)
<1> DEFINE c == Head(l)
           f == c.frame_id
           n == ChunkCount(s[f + 1])
           chunks == Added(inc, c)
           known == Known(inc, c)
           frame == [known EXCEPT !.chunks = chunks]
<1>1. /\ f \in 0 .. Len(s) - 1 /\ n \in Nat /\ n > 1 /\ known.chunk_count = n
      /\ DOMAIN known = {"chunk_count", "chunks"}
      /\ DOMAIN chunks \subseteq 0 .. n - 1
      /\ \A ix \in DOMAIN chunks : chunks[ix] = ChunkOf(f, s[f + 1], ix).data
      /\ \A ix : ix \in DOMAIN chunks <=> (Here(inc, f, ix) \/ ix = c.chunk_id)
  <2>1. Gathered(s, inc, Head(l))
    BY Collecting
  <2> QED
    BY <2>1, Zenon DEF Gathered
<1>2. Cardinality(DOMAIN chunks) # n
  BY <1>1 DEF Complete
<1>3. f \in DOMAIN inc2 /\ inc2[f] = frame
  OBVIOUS
<1> HIDE DEF chunks, known
<1>4. /\ frame.chunks = chunks /\ frame.chunk_count = n /\ DOMAIN frame = {"chunk_count", "chunks"}
  BY <1>1
<1> HIDE DEF frame, c, f, n
<1>5. 0 .. n - 1 # DOMAIN chunks
  <2>1. n \in Nat /\ n > 1
    BY <1>1
  <2>2. Cardinality(0 .. n - 1) = n
    BY <2>1, CountTo
  <2> QED
    BY <1>2, <2>2
<1>6. Partial(s, f, frame)
  BY <1>1, <1>4, <1>5 DEF Partial, n
<1>7. OneMore(s, l, inc, inc2)
  BY <1>1, <1>3, <1>4, <1>6 DEF OneMore, c, f
<1>8. Elsewhere(l, inc, inc2)
  BY DEF Elsewhere
<1> QED
  BY <1>7, <1>8

(* No frame of its class is older than the one a chunk arrives of. *)
LEMMA Oldest ==
    ASSUME NEW s \in Seq(Nat), NEW l \in Seq(Msg), NEW inc, Framed(s, l, inc), l # <<>>,
           IsChunk(Head(l)), NEW f \in 0 .. Len(s) - 1, Open(l, inc, f),
           Single(s[f + 1]) <=> Single(s[Head(l).frame_id + 1])
    PROVE  Head(l).frame_id <= f
<1> DEFINE c == Head(l)
<1>1. /\ c \in Msg /\ c = l[1] /\ 1 \in DOMAIN l /\ IsChunk(c)
      /\ \A i \in DOMAIN l : l[i] \in Msg
  BY TailFrom
<1>2. Single(s[f + 1]) <=> Single(s[c.frame_id + 1])
  OBVIOUS
<1> HIDE DEF c
<1>3. PICK i \in DOMAIN l : IsChunk(l[i]) /\ l[i].frame_id = f
  <2>1. CASE f \in DOMAIN inc
    <3>1. Partial(s, f, inc[f])
      BY <2>1 DEF Framed, Assembled
    <3>2. PICK ix \in 0 .. ChunkCount(s[f + 1]) - 1 : ix \notin DOMAIN inc[f].chunks
      BY <3>1 DEF Partial
    <3>3. UnderWay(l, f, ix)
      BY <3>2 DEF Framed, Rest, Here
    <3> QED
      BY <3>3 DEF UnderWay
  <2>2. CASE f \notin DOMAIN inc
    BY <2>2 DEF Open
  <2> QED
    BY <2>1, <2>2
<1>4. Good(s, c) /\ Good(s, l[i])
  BY <1>1, <1>3 DEF Framed, ChunksGood
<1>5. /\ c.chunk_count = ChunkCount(s[c.frame_id + 1]) /\ s[c.frame_id + 1] \in Nat
      /\ c.frame_id \in 0 .. Len(s) - 1
  BY <1>1, <1>4, GoodFacts
<1>6. l[i].chunk_count = ChunkCount(s[f + 1]) /\ s[f + 1] \in Nat
  BY <1>1, <1>3, <1>4, GoodFacts
<1>7. SameClass(c, l[i])
  BY <1>2, <1>5, <1>6, CountFacts DEF SameClass
<1>8. CASE i = 1
  BY <1>1, <1>3, <1>5, <1>8 DEF c
<1>9. CASE i # 1
  <2>1. 1 < i
    BY <1>9
  <2> QED
    BY <1>1, <1>3, <1>7, <2>1 DEF Framed, Order, c
<1> QED
  BY <1>8, <1>9

-----------------------------------------------------------------------------
(* Draining: nothing is lost, doubled or moved.                            *)

SameMaps(b, nb) ==
    /\ nb.frame_id_seed = b.frame_id_seed /\ nb.incomings = b.incomings
    /\ nb.outgoings = b.outgoings /\ nb.outs = b.outs

LEMMA PoppedFacts ==
    ASSUME NEW b, Buffer(b), NEW w \in Seq(Msg), NEW n \in 0 .. Len(b.high_priority \o b.low_priority),
           NEW out, out = SubSeq(b.high_priority \o b.low_priority, 1, n),
           b.in_air_size + SizeOf(out) <= AIR_LIMIT
    PROVE  /\ out \in Seq(Msg) /\ Buffer(Popped(b, out)) /\ SameMaps(b, Popped(b, out))
           /\ Popped(b, out).in_air_size = b.in_air_size + SizeOf(out)
           /\ (w \o out) \o Popped(b, out).high_priority \o Popped(b, out).low_priority
                = w \o b.high_priority \o b.low_priority
<1> DEFINE h == b.high_priority
           l == b.low_priority
           nb == Popped(b, out)
<1>1. h \in Seq(Msg) /\ l \in Seq(Big) /\ b.in_air_size \in Nat /\ DOMAIN b = DOMAIN EmptyBuffer
  BY DEF Buffer
<1>2. l \in Seq(Msg)
  BY <1>1, SeqMonotonic DEF Big, Msg
<1>3. DOMAIN EmptyBuffer = {"frame_id_seed", "high_priority", "low_priority", "incomings", "outgoings",
                            "outs", "in_air_size"}
  BY DEF EmptyBuffer
<1>4. /\ nb.high_priority = SubSeq(h, Len(out) + 1, Len(h))
      /\ nb.low_priority = IF Len(out) > Len(h) THEN SubSeq(l, Len(out) - Len(h) + 1, Len(l)) ELSE l
      /\ nb.in_air_size = b.in_air_size + SizeOf(out)
      /\ DOMAIN nb = DOMAIN EmptyBuffer /\ SameMaps(b, nb)
  <2>1. nb.high_priority = SubSeq(h, Len(out) + 1, Len(h))
    BY <1>1, <1>3 DEF Popped
  <2>2. nb.low_priority = IF Len(out) > Len(h) THEN SubSeq(l, Len(out) - Len(h) + 1, Len(l)) ELSE l
    BY <1>1, <1>3 DEF Popped
  <2>3. nb.in_air_size = b.in_air_size + SizeOf(out)
    BY <1>1, <1>3 DEF Popped
  <2>4. DOMAIN nb = DOMAIN EmptyBuffer
    BY <1>1 DEF Popped
  <2>5. SameMaps(b, nb)
    BY <1>1, <1>3 DEF Popped, SameMaps
  <2> QED
    BY <2>1, <2>2, <2>3, <2>4, <2>5
<1>0. n \in 0 .. Len(h \o l) /\ out = SubSeq(h \o l, 1, n) /\ b.in_air_size + SizeOf(out) <= AIR_LIMIT
  OBVIOUS
<1> HIDE DEF h, l, nb
<1>5. Len(h) \in Nat /\ Len(l) \in Nat /\ Len(h \o l) = Len(h) + Len(l)
  BY <1>1, <1>2
<1>6. /\ out \in Seq(Msg) /\ nb.high_priority \in Seq(Msg) /\ nb.low_priority \in Seq(Big)
      /\ (w \o out) \o nb.high_priority \o nb.low_priority = w \o h \o l
  <2>1. CASE n <= Len(h)
    <3>1. n \in 0 .. Len(h)
      BY <1>0, <1>5, <2>1
    <3>0. /\ SubSeq(h \o l, 1, n) \in Seq(Msg) /\ Len(SubSeq(h \o l, 1, n)) = n
          /\ SubSeq(h, n + 1, Len(h)) \in Seq(Msg)
          /\ (w \o SubSeq(h \o l, 1, n)) \o SubSeq(h, n + 1, Len(h)) = w \o h
      <4>1. Three(Msg, w, h, l)
        BY <1>1, <1>2 DEF Three
      <4>2. ShortCut(Msg, w, h, l, n)
        BY <3>1, <4>1, SplitShort
      <4> QED
        BY <4>2, Zenon DEF ShortCut
    <3>2. /\ out \in Seq(Msg) /\ Len(out) = n /\ SubSeq(h, n + 1, Len(h)) \in Seq(Msg)
          /\ (w \o out) \o SubSeq(h, n + 1, Len(h)) = w \o h
      BY <1>0, <3>0, Zenon
    <3>3. nb.high_priority = SubSeq(h, n + 1, Len(h)) /\ nb.low_priority = l
      <4>1. ~(n > Len(h))
        BY <1>5, <3>1
      <4>2. Len(out) = n
        BY <3>2
      <4> QED
        BY <1>4, <4>1, <4>2, Zenon
    <3> QED
      BY <1>1, <3>2, <3>3
  <2>2. CASE n > Len(h)
    <3> DEFINE m == n - Len(h)
    <3>1. m \in 1 .. Len(l) /\ n = Len(h) + m /\ m \in 0 .. Len(l)
      BY <1>0, <1>5, <2>2
    <3> HIDE DEF m
    <3>0. /\ SubSeq(h \o l, 1, Len(h) + m) \in Seq(Msg)
          /\ Len(SubSeq(h \o l, 1, Len(h) + m)) = Len(h) + m
          /\ SubSeq(h, Len(h) + m + 1, Len(h)) = <<>>
          /\ SubSeq(l, m + 1, Len(l)) \in Seq(Msg)
          /\ (w \o SubSeq(h \o l, 1, Len(h) + m)) \o SubSeq(l, m + 1, Len(l)) = (w \o h) \o l
      <4>1. Three(Msg, w, h, l)
        BY <1>1, <1>2 DEF Three
      <4>2. LongCut(Msg, w, h, l, m)
        BY <3>1, <4>1, SplitLong
      <4> QED
        BY <4>2, Zenon DEF LongCut
    <3>2. /\ out \in Seq(Msg) /\ Len(out) = Len(h) + m
          /\ SubSeq(h, Len(h) + m + 1, Len(h)) = <<>>
          /\ SubSeq(l, m + 1, Len(l)) \in Seq(Msg)
          /\ (w \o out) \o SubSeq(l, m + 1, Len(l)) = (w \o h) \o l
      BY <1>0, <3>0, <3>1, Zenon
    <3>3. Len(out) > Len(h) /\ Len(out) - Len(h) = m
      BY <1>5, <3>1, <3>2
    <3>4. nb.high_priority = <<>> /\ nb.low_priority = SubSeq(l, m + 1, Len(l))
      BY <1>4, <3>2, <3>3
    <3>5. SubSeq(l, m + 1, Len(l)) \in Seq(Big)
      BY <1>1, <3>1, Cut
    <3>6. (w \o out) \o <<>> = w \o out
      <4>1. w \o out \in Seq(Msg)
        BY <3>2, ConcatProperties
      <4> QED
        BY <4>1, ConcatEmptySeq
    <3>7. <<>> \in Seq(Msg)
      OBVIOUS
    <3> QED
      BY <3>2, <3>4, <3>5, <3>6, <3>7
  <2>3. n <= Len(h) \/ n > Len(h)
    <3>1. n \in Nat
      BY <1>5, <1>0
    <3> QED
      BY <1>5, <3>1
  <2> QED
    BY <2>1, <2>2, <2>3, Zenon
<1>7. b.in_air_size + SizeOf(out) \in Nat
  <2>1. SizeOf(out) \in Nat
    BY <1>6, SizesNat
  <2>2. b.in_air_size \in Nat
    BY <1>1
  <2> QED
    BY <2>1, <2>2
<1>8. Buffer(nb)
  BY <1>0, <1>4, <1>6, <1>7 DEF Buffer
<1> QED
  BY <1>4, <1>6, <1>8 DEF h, l, nb

(* What an end does last, whichever event it handles. *)
Kind(a, b, channel) ==
    /\ a \in Ends /\ Buffer(b) /\ channel \in [Ends -> Seq(Msg)] /\ DOMAIN buffer = Ends

Left(a, b, channel, nb) ==
    /\ Buffer(nb) /\ SameMaps(b, nb)
    /\ buffer' = [buffer EXCEPT ![a] = nb]
    /\ wire' \in [Ends -> Seq(Msg)] /\ wire'[a] = channel[a]
    /\ wire'[Peer(a)] \o nb.high_priority \o nb.low_priority
         = channel[Peer(a)] \o b.high_priority \o b.low_priority
    /\ \E out \in Seq(Msg) : /\ wire'[Peer(a)] = channel[Peer(a)] \o out
                             /\ nb.in_air_size = b.in_air_size + SizeOf(out)

LEMMA Drained ==
    ASSUME NEW a, NEW b, NEW channel, Kind(a, b, channel), Drain(a, b, channel)
    PROVE  \E nb : Left(a, b, channel, nb)
<1> DEFINE p == Peer(a)
           out == Outgoing(a, b)
           nb == Popped(b, out)
           w == channel[p]
<1>1. a \in Ends /\ Buffer(b) /\ channel \in [Ends -> Seq(Msg)] /\ DOMAIN buffer = Ends
  BY DEF Kind
<1>2. p \in Ends /\ p # a /\ w \in Seq(Msg)
  BY <1>1, Peers
<1>3. buffer' = [buffer EXCEPT ![a] = nb] /\ wire' = [channel EXCEPT ![p] = @ \o out]
  BY DEF Drain
<1>4. \E n \in 0 .. Len(b.high_priority \o b.low_priority) :
          /\ out = SubSeq(b.high_priority \o b.low_priority, 1, n)
          /\ b.in_air_size + SizeOf(out) <= AIR_LIMIT
  <2>1. CASE a \in open
    <3>1. out = PopSend(b)
      BY <2>1 DEF Outgoing
    <3> QED
      BY <1>1, <3>1, Popping
  <2>2. CASE a \notin open
    <3>1. out = <<>>
      BY <2>2 DEF Outgoing
    <3> DEFINE q == b.high_priority \o b.low_priority
    <3>2. q \in Seq(Msg)
      <4>1. b.low_priority \in Seq(Msg)
        BY <1>1, SeqMonotonic DEF Buffer, Big, Msg
      <4>2. b.high_priority \in Seq(Msg)
        BY <1>1 DEF Buffer
      <4> QED
        BY <4>1, <4>2, ConcatProperties
    <3>3. b.in_air_size + SizeOf(out) <= AIR_LIMIT
      <4>1. SizeOf(out) = 0
        BY <3>1, SizeOfEmpty
      <4>2. b.in_air_size \in Nat /\ b.in_air_size <= AIR_LIMIT
        BY <1>1 DEF Buffer
      <4> HIDE DEF out
      <4> QED
        BY <4>1, <4>2
    <3> HIDE DEF q, out
    <3>4. 0 \in 0 .. Len(q) /\ SubSeq(q, 1, 0) = <<>>
      BY <3>2
    <3> QED
      BY <3>1, <3>3, <3>4 DEF q
  <2> QED
    BY <2>1, <2>2
<1> HIDE DEF p, out, w
<1>5. /\ out \in Seq(Msg) /\ Buffer(nb) /\ SameMaps(b, nb)
      /\ nb.in_air_size = b.in_air_size + SizeOf(out)
      /\ (w \o out) \o nb.high_priority \o nb.low_priority = w \o b.high_priority \o b.low_priority
  BY <1>1, <1>2, <1>4, PoppedFacts
<1> HIDE DEF nb
<1>6. wire'[p] = w \o out /\ wire'[a] = channel[a]
  BY <1>1, <1>2, <1>3 DEF w
<1>7. wire' \in [Ends -> Seq(Msg)]
  <2>1. w \o out \in Seq(Msg)
    BY <1>2, <1>5, ConcatProperties
  <2>2. wire' = [channel EXCEPT ![p] = w \o out]
    BY <1>3 DEF w
  <2> HIDE DEF w
  <2> QED
    BY <1>1, <1>2, <2>1, <2>2
<1>8. Left(a, b, channel, nb)
  BY <1>3, <1>5, <1>6, <1>7 DEF Left, p, w
<1> QED
  BY <1>8

-----------------------------------------------------------------------------
(* Where chunks and acknowledgements are put in a line.                    *)

Queue(w, b) == w \o b.high_priority \o b.low_priority

Splits(l, l2, x, a, b) ==
    /\ a \in Seq(Msg) /\ b \in Seq(Msg) /\ x \in Seq(Msg)
    /\ l = a \o b /\ l2 = (a \o x) \o b

LEMMA SplitsFacts ==
    ASSUME NEW l, NEW l2, NEW x, NEW a, NEW b, Splits(l, l2, x, a, b)
    PROVE  /\ l \in Seq(Msg) /\ l2 \in Seq(Msg) /\ x \in Seq(Msg) /\ Insert(l, l2, Len(a), x)
           /\ \A i \in Len(a) + 1 .. Len(l) : i - Len(a) \in DOMAIN b /\ l[i] = b[i - Len(a)]
<1>1. /\ a \in Seq(Msg) /\ b \in Seq(Msg) /\ x \in Seq(Msg)
      /\ l = a \o b /\ l2 = (a \o x) \o b
  BY DEF Splits
<1>2. a \o b \in Seq(Msg) /\ (a \o x) \o b \in Seq(Msg) /\ Insert(a \o b, (a \o x) \o b, Len(a), x)
  BY <1>1, Inserted
<1>3. \A i \in Len(a) + 1 .. Len(a \o b) : i - Len(a) \in DOMAIN b /\ (a \o b)[i] = b[i - Len(a)]
  <2>1. a \in Seq(Msg) /\ b \in Seq(Msg)
    BY <1>1
  <2> QED
    BY <2>1
<1> QED
  BY <1>1, <1>2, <1>3

LEMMA SplitsSizes ==
    ASSUME NEW l, NEW l2, NEW x, NEW a, NEW b, NEW out, Splits(l, l2, x, a, b), AckNat(out, l2)
    PROVE  Total(AckSizes(out, l2)) = Total(AckSizes(out, l)) + Total(AckSizes(out, x))
<1>1. /\ a \in Seq(Msg) /\ b \in Seq(Msg) /\ x \in Seq(Msg)
      /\ l = a \o b /\ l2 = (a \o x) \o b
  BY DEF Splits
<1>2. Total(AckSizes(out, (a \o x) \o b)) = Total(AckSizes(out, a \o b)) + Total(AckSizes(out, x))
  BY <1>1, AckSizesInsert
<1> QED
  BY <1>1, <1>2, Zenon

(* Behind the high-priority queue, or behind everything. *)
LEMMA PlacedHigh ==
    ASSUME NEW w \in Seq(Msg), NEW h \in Seq(Msg), NEW l \in Seq(Msg), NEW x \in Seq(Msg)
    PROVE  Splits((w \o h) \o l, (w \o (h \o x)) \o l, x, w \o h, l)
<1>1. w \o h \in Seq(Msg)
  BY ConcatProperties
<1>2. w \o (h \o x) = (w \o h) \o x
  <2>1. Three(Msg, w, h, x)
    BY DEF Three
  <2>2. Regrouped(w, h, x)
    BY <2>1, JoinShort
  <2> QED
    BY <2>2 DEF Regrouped
<1> QED
  BY <1>1, <1>2, Zenon DEF Splits

LEMMA PlacedLow ==
    ASSUME NEW w \in Seq(Msg), NEW h \in Seq(Msg), NEW l \in Seq(Msg), NEW x \in Seq(Msg)
    PROVE  Splits((w \o h) \o l, (w \o h) \o (l \o x), x, (w \o h) \o l, <<>>)
<1> DEFINE v == w \o h
           y == v \o l
<1>1. v \in Seq(Msg)
  BY ConcatProperties
<1> HIDE DEF v
<1>2. y \in Seq(Msg)
  BY <1>1, ConcatProperties
<1>3. v \o (l \o x) = y \o x
  <2>1. Three(Msg, v, l, x)
    BY <1>1 DEF Three
  <2>2. Regrouped(v, l, x)
    BY <2>1, JoinShort
  <2> QED
    BY <2>2 DEF Regrouped
<1> HIDE DEF y
<1>4. y \o x \in Seq(Msg) /\ <<>> \in Seq(Msg)
  BY <1>2, ConcatProperties
<1>5. y = y \o <<>>
  BY <1>2, ConcatEmptySeq
<1>6. y \o x = (y \o x) \o <<>>
  BY <1>4, ConcatEmptySeq
<1>7. Splits(y, y \o x, x, y, <<>>)
  BY <1>2, <1>4, <1>5, <1>6, Zenon DEF Splits
<1> QED
  BY <1>3, <1>7 DEF v, y

(* The front of a line. *)
LEMMA HeadQueue ==
    ASSUME NEW w \in Seq(Msg), NEW h \in Seq(Msg), NEW l \in Seq(Msg), w # <<>>
    PROVE  /\ (w \o h) \o l \in Seq(Msg) /\ (w \o h) \o l # <<>>
           /\ Head((w \o h) \o l) = Head(w) /\ Tail((w \o h) \o l) = (Tail(w) \o h) \o l
<1>1. w \o h \in Seq(Msg) /\ w \o h # <<>> /\ Head(w \o h) = Head(w) /\ Tail(w \o h) = Tail(w) \o h
  OBVIOUS
<1> DEFINE v == w \o h
<1> HIDE DEF v
<1>2. v \in Seq(Msg) /\ v # <<>>
  BY <1>1 DEF v
<1>3. v \o l \in Seq(Msg) /\ v \o l # <<>> /\ Head(v \o l) = Head(v) /\ Tail(v \o l) = Tail(v) \o l
  BY <1>2
<1> QED
  BY <1>1, <1>3, Zenon DEF v

-----------------------------------------------------------------------------
(* The buffer's operations.                                                *)

LEMMA BufferFields ==
    /\ DOMAIN EmptyBuffer = {"frame_id_seed", "high_priority", "low_priority", "incomings", "outgoings",
                             "outs", "in_air_size"}
    /\ EmptyBuffer.high_priority = <<>> /\ EmptyBuffer.low_priority = <<>>
BY DEF EmptyBuffer

Pushed(b, n, len, pb) ==
    LET x == Chunks(n, len)
    IN  /\ Buffer(pb) /\ pb.frame_id_seed = n + 1 /\ pb.incomings = b.incomings
        /\ pb.outs = b.outs /\ pb.in_air_size = b.in_air_size
        /\ pb.outgoings = Note(b.outgoings, n, x)
        /\ pb.high_priority = IF Single(len) THEN b.high_priority \o x ELSE b.high_priority
        /\ pb.low_priority = IF Single(len) THEN b.low_priority ELSE b.low_priority \o x

LEMMA PushFacts ==
    ASSUME NEW b, Buffer(b), NEW n \in Nat, b.frame_id_seed = n, NEW len \in Nat
    PROVE  Pushed(b, n, len, PushFrame(b, len))
<1> DEFINE pb == PushFrame(b, len)
           x == Chunks(n, len)
           frame == [ix \in 0 .. Len(x) - 1 |-> InAirSize(x[ix + 1])]
           outs == [f \in DOMAIN b.outgoings \cup {n} |-> IF f = n THEN frame ELSE b.outgoings[f]]
           high == IF Single(len) THEN b.high_priority \o x ELSE b.high_priority
           low == IF Single(len) THEN b.low_priority ELSE b.low_priority \o x
<1>1. pb = [b EXCEPT !.frame_id_seed = n + 1, !.outgoings = outs, !.high_priority = high, !.low_priority = low]
  BY DEF PushFrame
<1>2. /\ DOMAIN b = DOMAIN EmptyBuffer /\ b.high_priority \in Seq(Msg) /\ b.low_priority \in Seq(Big)
      /\ b.in_air_size \in Nat /\ b.in_air_size <= AIR_LIMIT
  BY DEF Buffer
<1>3. high \in Seq(Msg) /\ low \in Seq(Big)
  <2>1. x \in Seq(ChunkType) /\ Len(x) = ChunkCount(len)
    BY ChunkFacts
  <2>2. \A i \in 1 .. ChunkCount(len) : x[i].chunk_count = ChunkCount(len)
    BY ChunkFacts
  <2> HIDE DEF x
  <2>3. x \in Seq(Msg)
    BY <2>1, SeqMonotonic DEF Msg
  <2>4. CASE Single(len)
    <3>1. b.high_priority \o x \in Seq(Msg)
      BY <1>2, <2>3, ConcatProperties
    <3> QED
      BY <1>2, <2>4, <3>1
  <2>5. CASE ~Single(len)
    <3>1. ChunkCount(len) \in Nat /\ ChunkCount(len) > 1
      BY <2>5, CountFacts
    <3>2. \A i \in 1 .. Len(x) : x[i] \in Big
      BY <2>1, <2>2, <3>1 DEF Big
    <3>3. x \in Seq(Big)
      BY <2>1, <3>2
    <3>4. b.low_priority \o x \in Seq(Big)
      BY <1>2, <3>3, ConcatProperties
    <3> QED
      BY <1>2, <2>5, <3>4
  <2> QED
    BY <2>4, <2>5
<1> HIDE DEF pb, outs, high, low
<1>4. /\ pb.frame_id_seed = n + 1 /\ pb.incomings = b.incomings /\ pb.outs = b.outs
      /\ pb.in_air_size = b.in_air_size /\ pb.outgoings = outs /\ pb.high_priority = high
      /\ pb.low_priority = low /\ DOMAIN pb = DOMAIN EmptyBuffer
  BY <1>1, <1>2, BufferFields
<1>5. Buffer(pb)
  BY <1>2, <1>3, <1>4 DEF Buffer
<1> QED
  BY <1>4, <1>5, Zenon DEF Pushed, Note, pb, outs, high, low

(* OnChunk, field by field. *)
Collected(b, c, q, n) ==
    LET inc == b.incomings
        chunks == Added(inc, c)
        known == Known(inc, c)
    IN  /\ Buffer(n) /\ n.frame_id_seed = b.frame_id_seed /\ n.outgoings = b.outgoings
        /\ n.in_air_size = b.in_air_size /\ n.outs = <<>>
        /\ n.high_priority = b.high_priority \o <<ChunkAck(c)>> /\ n.low_priority = b.low_priority
        /\ n.incomings =
              IF c.chunk_count = 1 THEN inc
              ELSE IF Complete(chunks, known.chunk_count)
              THEN [f \in DOMAIN inc \ {c.frame_id} |-> inc[f]]
              ELSE [f \in DOMAIN inc \cup {c.frame_id} |->
                       IF f = c.frame_id THEN [known EXCEPT !.chunks = chunks] ELSE inc[f]]
        /\ q.outs = IF c.chunk_count = 1 THEN <<(<<c.data>>)>>
                    ELSE IF Complete(chunks, known.chunk_count) THEN <<IntoIter(chunks)>> ELSE <<>>

LEMMA ChunkReceived ==
    ASSUME NEW b, Buffer(b), b.outs = <<>>, NEW c \in ChunkType
    PROVE  Collected(b, c, OnChunk(b, c), [OnChunk(b, c) EXCEPT !.outs = <<>>])
<1> DEFINE ack == ChunkAck(c)
           q == OnChunk(b, c)
           n == [q EXCEPT !.outs = <<>>]
           inc == b.incomings
           chunks == Added(inc, c)
           known == Known(inc, c)
           acked == [b EXCEPT !.high_priority = Append(@, ack)]
           inc1 == [f \in DOMAIN inc \ {c.frame_id} |-> inc[f]]
           inc2 == [f \in DOMAIN inc \cup {c.frame_id} |->
                       IF f = c.frame_id THEN [known EXCEPT !.chunks = chunks] ELSE inc[f]]
<1>1. /\ DOMAIN b = DOMAIN EmptyBuffer /\ b.high_priority \in Seq(Msg) /\ b.low_priority \in Seq(Big)
      /\ b.in_air_size \in Nat /\ b.in_air_size <= AIR_LIMIT
  BY DEF Buffer
<1>2. ack \in Msg
  BY DEF ChunkAck, ChunkType, AckType, Msg
<1>3. /\ acked.high_priority = Append(b.high_priority, ack) /\ acked.frame_id_seed = b.frame_id_seed
      /\ acked.outgoings = b.outgoings /\ acked.in_air_size = b.in_air_size /\ acked.outs = <<>>
      /\ acked.low_priority = b.low_priority /\ acked.incomings = inc /\ DOMAIN acked = DOMAIN EmptyBuffer
  BY <1>1, BufferFields
<1> HIDE DEF ack
<1>4. /\ Append(b.high_priority, ack) = b.high_priority \o <<ack>>
      /\ b.high_priority \o <<ack>> \in Seq(Msg)
  <2> DEFINE h == b.high_priority
  <2>1. h \in Seq(Msg)
    BY <1>1
  <2> HIDE DEF h
  <2>2. Append(h, ack) = h \o <<ack>> /\ h \o <<ack>> \in Seq(Msg)
    BY <1>2, <2>1
  <2> QED
    BY <2>2 DEF h
<1>5. q = IF c.chunk_count = 1
          THEN [acked EXCEPT !.outs = Append(@, <<c.data>>)]
          ELSE IF Complete(chunks, known.chunk_count)
          THEN [acked EXCEPT !.incomings = [f \in DOMAIN @ \ {c.frame_id} |-> @[f]],
                             !.outs = Append(@, IntoIter(chunks))]
          ELSE [acked EXCEPT
                 !.incomings = [f \in DOMAIN @ \cup {c.frame_id} |->
                                   IF f = c.frame_id THEN [known EXCEPT !.chunks = chunks] ELSE @[f]]]
  BY Zenon DEF OnChunk, Acked, Known, Added, ack
<1> HIDE DEF acked, q, chunks, known
<1>6. q = IF c.chunk_count = 1
          THEN [acked EXCEPT !.outs = <<(<<c.data>>)>>]
          ELSE IF Complete(chunks, known.chunk_count)
          THEN [acked EXCEPT !.incomings = inc1, !.outs = <<IntoIter(chunks)>>]
          ELSE [acked EXCEPT !.incomings = inc2]
  <2>1. \A v : Append(<<>>, v) = <<v>>
    OBVIOUS
  <2> HIDE DEF IntoIter, Complete
  <2> QED
    BY <1>3, <1>5, <2>1
<1> HIDE DEF inc1, inc2
<1>7. /\ DOMAIN q = DOMAIN EmptyBuffer /\ q.high_priority = acked.high_priority
      /\ q.low_priority = acked.low_priority /\ q.in_air_size = acked.in_air_size
      /\ q.outgoings = acked.outgoings /\ q.frame_id_seed = acked.frame_id_seed
  BY <1>3, <1>6, BufferFields
<1>8. /\ q.incomings = IF c.chunk_count = 1 THEN inc
                       ELSE IF Complete(chunks, known.chunk_count) THEN inc1 ELSE inc2
      /\ q.outs = IF c.chunk_count = 1 THEN <<(<<c.data>>)>>
                  ELSE IF Complete(chunks, known.chunk_count) THEN <<IntoIter(chunks)>> ELSE <<>>
  BY <1>3, <1>6, BufferFields
<1>9. /\ DOMAIN n = DOMAIN q /\ n.outs = <<>> /\ n.high_priority = q.high_priority
      /\ n.low_priority = q.low_priority /\ n.in_air_size = q.in_air_size /\ n.incomings = q.incomings
      /\ n.outgoings = q.outgoings /\ n.frame_id_seed = q.frame_id_seed
  BY <1>7, BufferFields
<1> HIDE DEF n
<1>10. Buffer(n)
  BY <1>1, <1>3, <1>4, <1>7, <1>9 DEF Buffer
<1> QED
  BY <1>3, <1>4, <1>7, <1>8, <1>9, <1>10, Zenon DEF Collected, q, n, ack, chunks, known, inc1, inc2

(* OnAck, when the chunk is remembered. *)
Acknowledged(b, c, q, n) ==
    /\ DOMAIN n = DOMAIN EmptyBuffer /\ n.frame_id_seed = b.frame_id_seed
    /\ n.outgoings = Forget(b.outgoings, c)
    /\ n.in_air_size = b.in_air_size - b.outgoings[c.frame_id][c.chunk_id]
    /\ n.outs = <<>> /\ n.incomings = b.incomings
    /\ n.high_priority = b.high_priority /\ n.low_priority = b.low_priority
    /\ q.outs = <<>>

LEMMA AckReceived ==
    ASSUME NEW b, Buffer(b), b.outs = <<>>, NEW c, Remembered(b.outgoings, c)
    PROVE  Acknowledged(b, c, OnAck(b, c), [OnAck(b, c) EXCEPT !.outs = <<>>])
<1> DEFINE q == OnAck(b, c)
           n == [q EXCEPT !.outs = <<>>]
           out2 == Forget(b.outgoings, c)
           air == b.in_air_size - b.outgoings[c.frame_id][c.chunk_id]
<1>1. DOMAIN b = DOMAIN EmptyBuffer
  BY DEF Buffer
<1>2. q = [b EXCEPT !.in_air_size = air, !.outgoings = out2]
  BY DEF OnAck, Remembered, Forget
<1> HIDE DEF q, out2, air
<1>3. /\ DOMAIN q = DOMAIN EmptyBuffer /\ q.frame_id_seed = b.frame_id_seed /\ q.outgoings = out2
      /\ q.in_air_size = air /\ q.outs = <<>> /\ q.incomings = b.incomings
      /\ q.high_priority = b.high_priority /\ q.low_priority = b.low_priority
  BY <1>1, <1>2, BufferFields
<1>4. /\ DOMAIN n = DOMAIN q /\ n.outs = <<>> /\ n.high_priority = q.high_priority
      /\ n.low_priority = q.low_priority /\ n.in_air_size = q.in_air_size /\ n.incomings = q.incomings
      /\ n.outgoings = q.outgoings /\ n.frame_id_seed = q.frame_id_seed
  BY <1>3, BufferFields
<1> HIDE DEF n
<1> QED
  BY <1>3, <1>4, Zenon DEF Acknowledged, q, n, out2, air

-----------------------------------------------------------------------------
(* The steps.                                                              *)

LEMMA Typed ==
    ASSUME TypeOK, AirLimit, NEW e \in Ends
    PROVE  /\ Buffer(buffer[e]) /\ buffer[e].outs = <<>> /\ buffer[e].frame_id_seed = Len(sent[e])
           /\ sent[e] \in Seq(Nat) /\ wire[e] \in Seq(Msg) /\ Line(e) \in Seq(Msg)
           /\ Line(e) = Queue(wire[Peer(e)], buffer[e]) /\ wire \in [Ends -> Seq(Msg)]
           /\ DOMAIN buffer = Ends /\ Peer(e) \in Ends
<1>1. /\ DOMAIN buffer[e] = DOMAIN EmptyBuffer /\ buffer[e].frame_id_seed = Len(sent[e])
      /\ buffer[e].high_priority \in Seq(Msg) /\ buffer[e].low_priority \in Seq(Big)
      /\ buffer[e].in_air_size \in Nat /\ buffer[e].outs = <<>>
  BY DEF TypeOK, Msg, Big
<1>2. wire \in [Ends -> Seq(Msg)] /\ sent[e] \in Seq(Nat) /\ Peer(e) \in Ends /\ DOMAIN buffer = Ends
  BY Peers DEF TypeOK, Msg
<1>3. Buffer(buffer[e])
  BY <1>1 DEF Buffer, AirLimit
<1>4. Line(e) = Queue(wire[Peer(e)], buffer[e])
  BY DEF Line, Queue
<1>5. Line(e) \in Seq(Msg)
  <2> DEFINE w == wire[Peer(e)]
             h == buffer[e].high_priority
             l == buffer[e].low_priority
  <2>1. w \in Seq(Msg) /\ h \in Seq(Msg) /\ l \in Seq(Big)
    BY <1>1, <1>2
  <2>2. l \in Seq(Msg)
    BY <2>1, SeqMonotonic DEF Big, Msg
  <2>3. Line(e) = (w \o h) \o l
    BY DEF Line
  <2> HIDE DEF w, h, l
  <2>4. w \o h \in Seq(Msg)
    BY <2>1, ConcatProperties
  <2>5. (w \o h) \o l \in Seq(Msg)
    BY <2>2, <2>4, ConcatProperties
  <2> QED
    BY <2>3, <2>5
<1> QED
  BY <1>1, <1>2, <1>3, <1>4, <1>5

(* An end left with b, before it puts on the channel what it can. *)
Ready(a, b, channel) ==
    LET p == Peer(a)
        la == Queue(channel[p], b)
        lp == Queue(channel[a], buffer[p])
    IN  /\ Dir(sent'[a], channel[p], la, lp, b, buffer[p].incomings, got'[p])
        /\ Dir(sent'[p], channel[a], lp, la, buffer[p], b.incomings, got'[a])

Carried(a, b) ==
    /\ b.frame_id_seed = Len(sent'[a]) /\ b.outs = <<>> /\ sent'[Peer(a)] = sent[Peer(a)]
    /\ sent' \in [Ends -> Seq(Nat)] /\ got' \in [Ends -> Seq(Seq(Pieces))] /\ open' \subseteq Ends

LEMMA Settled ==
    ASSUME Inv, NEW a, NEW b, NEW channel, Kind(a, b, channel), Drain(a, b, channel),
           Ready(a, b, channel), Carried(a, b)
    PROVE  Inv'
<1> DEFINE p == Peer(a)
           la == Queue(channel[p], b)
           lp == Queue(channel[a], buffer[p])
<1>1. PICK nb : Left(a, b, channel, nb)
  BY Drained
<1>2. a \in Ends /\ Buffer(b) /\ channel \in [Ends -> Seq(Msg)] /\ DOMAIN buffer = Ends
  BY DEF Kind
<1>3. p \in Ends /\ p # a /\ Peer(p) = a /\ \A d \in Ends : d = a \/ d = p
  BY <1>2, Peers
<1>4. /\ Buffer(nb) /\ SameMaps(b, nb) /\ buffer' = [buffer EXCEPT ![a] = nb]
      /\ wire' \in [Ends -> Seq(Msg)] /\ wire'[a] = channel[a]
      /\ wire'[p] \o nb.high_priority \o nb.low_priority
           = channel[p] \o b.high_priority \o b.low_priority
      /\ \E out \in Seq(Msg) : /\ wire'[p] = channel[p] \o out
                               /\ nb.in_air_size = b.in_air_size + SizeOf(out)
  BY <1>1 DEF Left
<1>5. buffer'[a] = nb /\ buffer'[p] = buffer[p] /\ DOMAIN buffer' = Ends
  BY <1>2, <1>3, <1>4
<1>6. Line(a)' = la /\ Line(p)' = lp
  <2>1. Line(a)' = wire'[p] \o nb.high_priority \o nb.low_priority
    BY <1>5 DEF Line
  <2>2. Line(p)' = wire'[a] \o buffer[p].high_priority \o buffer[p].low_priority
    BY <1>3, <1>5 DEF Line
  <2> QED
    BY <1>4, <2>1, <2>2 DEF Queue
<1>7. /\ Dir(sent'[a], channel[p], la, lp, b, buffer[p].incomings, got'[p])
      /\ Dir(sent'[p], channel[a], lp, la, buffer[p], b.incomings, got'[a])
  BY DEF Ready
<1>8. /\ b.frame_id_seed = Len(sent'[a]) /\ b.outs = <<>> /\ sent'[p] = sent[p]
      /\ sent' \in [Ends -> Seq(Nat)] /\ got' \in [Ends -> Seq(Seq(Pieces))] /\ open' \subseteq Ends
  BY DEF Carried
<1>9. /\ Buffer(buffer[p]) /\ buffer[p].outs = <<>> /\ buffer[p].frame_id_seed = Len(sent[p])
  BY <1>3, Typed DEF Inv
<1>10. /\ nb.frame_id_seed = b.frame_id_seed /\ nb.incomings = b.incomings
       /\ nb.outgoings = b.outgoings /\ nb.outs = b.outs
  BY <1>4 DEF SameMaps
<1> HIDE DEF la, lp, p
<1>11. nb.in_air_size = SizeOf(wire'[p]) + Total(AckSizes(nb.outgoings, lp))
  <2>1. PICK out \in Seq(Msg) : wire'[p] = channel[p] \o out /\ nb.in_air_size = b.in_air_size + SizeOf(out)
    BY <1>4
  <2>2. SizeOf(wire'[p]) = SizeOf(channel[p]) + SizeOf(out)
    BY <1>2, <1>3, <2>1, SizeOfConcat
  <2>3. SizeOf(channel[p]) \in Nat /\ SizeOf(out) \in Nat
    BY <1>2, <1>3, SizesNat
  <2>4. b.in_air_size = SizeOf(channel[p]) + Total(AckSizes(b.outgoings, lp)) /\ AckNat(b.outgoings, lp)
    BY <1>7, CountedNat DEF Dir
  <2>5. lp \in Seq(Msg)
    <3>1. DOMAIN buffer' = Ends /\ wire' \in [Ends -> Seq(Msg)]
      BY <1>4, <1>5
    <3> DEFINE w == channel[a]
               h == buffer[p].high_priority
               l == buffer[p].low_priority
    <3>2. w \in Seq(Msg) /\ h \in Seq(Msg) /\ l \in Seq(Big)
      BY <1>2, <1>9 DEF Buffer
    <3>3. l \in Seq(Msg)
      BY <3>2, SeqMonotonic DEF Big, Msg
    <3>4. lp = (w \o h) \o l
      BY DEF lp, Queue
    <3> HIDE DEF w, h, l
    <3>5. w \o h \in Seq(Msg)
      BY <3>2, ConcatProperties
    <3>6. (w \o h) \o l \in Seq(Msg)
      BY <3>3, <3>5, ConcatProperties
    <3> QED
      BY <3>4, <3>6
  <2>6. Total(AckSizes(b.outgoings, lp)) \in Nat
    BY <2>4, <2>5, AckSizesNat
  <2>7. Total(AckSizes(nb.outgoings, lp)) = Total(AckSizes(b.outgoings, lp))
    BY <1>10
  <2> DEFINE A == SizeOf(channel[p])
             B == SizeOf(out)
             C == Total(AckSizes(b.outgoings, lp))
  <2>8. A \in Nat /\ B \in Nat /\ C \in Nat /\ b.in_air_size = A + C
    BY <2>3, <2>4, <2>6
  <2>9. SizeOf(wire'[p]) = A + B /\ nb.in_air_size = b.in_air_size + B
        /\ Total(AckSizes(nb.outgoings, lp)) = C
    BY <2>1, <2>2, <2>7
  <2> HIDE DEF A, B, C
  <2> QED
    BY <2>8, <2>9
<1>12. Direction(a)'
  <2>1. Dir(sent'[a], wire'[p], la, lp, nb, buffer[p].incomings, got'[p])
    BY <1>7, <1>10, <1>11 DEF Dir
  <2>2. Direction(a)' = Dir(sent'[a], wire'[p], Line(a)', Line(p)', buffer'[a], buffer'[p].incomings, got'[p])
    BY DEF Direction, p
  <2> QED
    BY <1>5, <1>6, <2>1, <2>2
<1>13. Direction(p)'
  <2>1. Dir(sent'[p], wire'[a], lp, la, buffer[p], nb.incomings, got'[a])
    BY <1>4, <1>7, <1>10
  <2>2. Direction(p)' = Dir(sent'[p], wire'[a], Line(p)', Line(a)', buffer'[p], buffer'[a].incomings, got'[a])
    BY <1>3 DEF Direction
  <2> QED
    BY <1>5, <1>6, <2>1, <2>2
<1>14. \A d \in Ends : Buffer(buffer'[d]) /\ buffer'[d].outs = <<>> /\ buffer'[d].frame_id_seed = Len(sent'[d])
  BY <1>3, <1>4, <1>5, <1>8, <1>9, <1>10
<1>15. AirLimit'
  BY <1>14 DEF AirLimit, Buffer
<1>16. TypeOK'
  <2>1. \A d \in Ends :
          /\ DOMAIN buffer'[d] = DOMAIN EmptyBuffer /\ buffer'[d].high_priority \in Seq(Msg)
          /\ buffer'[d].low_priority \in Seq(Big) /\ buffer'[d].in_air_size \in Nat
    BY <1>14 DEF Buffer
  <2> QED
    BY <1>4, <1>5, <1>8, <1>14, <2>1 DEF TypeOK, Msg, Big
<1>17. \A d \in Ends : Direction(d)'
  BY <1>3, <1>12, <1>13
<1> QED
  BY <1>15, <1>16, <1>17 DEF Inv

LEMMA TakenLonger ==
    ASSUME NEW s \in Seq(Nat), NEW len \in Nat, NEW g, Taken(s, g)
    PROVE  Taken(Append(s, len), g)
<1> SUFFICES ASSUME NEW i \in DOMAIN g
             PROVE  \E id \in 0 .. Len(Append(s, len)) - 1 : g[i] = Whole(id, Append(s, len)[id + 1])
  BY DEF Taken
<1>1. PICK id \in 0 .. Len(s) - 1 : g[i] = Whole(id, s[id + 1])
  BY DEF Taken
<1>2. Len(Append(s, len)) = Len(s) + 1 /\ Len(s) \in Nat /\ Append(s, len)[id + 1] = s[id + 1]
  BY Longer
<1>3. id \in 0 .. Len(Append(s, len)) - 1
  BY <1>2
<1> QED
  BY <1>1, <1>2, <1>3

(* Which of the two places a pushed frame is put in, and what is behind it. *)
Between(w, b, n, len, x1, x2) ==
    /\ Splits(Queue(w, b), Queue(w, PushFrame(b, len)), Chunks(n, len), x1, x2)
    /\ \A i \in DOMAIN x2 : IsChunk(x2[i]) /\ (x2[i].chunk_count = 1 <=> ~Single(len))

LEMMA PushedLine ==
    ASSUME NEW w \in Seq(Msg), NEW b, Buffer(b), NEW n \in Nat, b.frame_id_seed = n, NEW len \in Nat
    PROVE  \E x1, x2 : Between(w, b, n, len, x1, x2)
<1> DEFINE h == b.high_priority
           l == b.low_priority
           x == Chunks(n, len)
           pb == PushFrame(b, len)
<1>1. h \in Seq(Msg) /\ l \in Seq(Big)
  BY DEF Buffer
<1>2. l \in Seq(Msg)
  BY <1>1, SeqMonotonic DEF Big, Msg
<1>3. x \in Seq(Msg)
  <2>1. x \in Seq(ChunkType)
    BY ChunkFacts
  <2> HIDE DEF x
  <2> QED
    BY <2>1, SeqMonotonic DEF Msg
<1>4. /\ pb.high_priority = IF Single(len) THEN h \o x ELSE h
      /\ pb.low_priority = IF Single(len) THEN l ELSE l \o x
  <2>1. Pushed(b, n, len, pb)
    BY PushFacts
  <2> HIDE DEF pb
  <2> QED
    BY <2>1, Zenon DEF Pushed
<1>5. Queue(w, b) = (w \o h) \o l /\ Queue(w, pb) = (w \o pb.high_priority) \o pb.low_priority
  BY DEF Queue
<1>6. \A i \in DOMAIN l : IsChunk(l[i]) /\ l[i].chunk_count # 1
  <2>1. \A c \in Big : IsChunk(c) /\ c.chunk_count # 1
    BY DEF Big, ChunkType, IsChunk
  <2>2. \A i \in DOMAIN l : l[i] \in Big
    BY <1>1
  <2> QED
    BY <2>1, <2>2
<1> HIDE DEF h, l, x, pb
<1>7. CASE Single(len)
  <2>1. Splits((w \o h) \o l, (w \o (h \o x)) \o l, x, w \o h, l)
    BY <1>1, <1>2, <1>3, PlacedHigh
  <2>2. Splits(Queue(w, b), Queue(w, pb), x, w \o h, l)
    BY <1>4, <1>5, <1>7, <2>1
  <2>3. Between(w, b, n, len, w \o h, l)
    BY <1>6, <1>7, <2>2 DEF Between, x, pb
  <2> QED
    BY <2>3
<1>8. CASE ~Single(len)
  <2>1. Splits((w \o h) \o l, (w \o h) \o (l \o x), x, (w \o h) \o l, <<>>)
    BY <1>1, <1>2, <1>3, PlacedLow
  <2>2. Splits(Queue(w, b), Queue(w, pb), x, (w \o h) \o l, <<>>)
    BY <1>4, <1>5, <1>8, <2>1
  <2>3. DOMAIN <<>> = {}
    OBVIOUS
  <2>4. Between(w, b, n, len, (w \o h) \o l, <<>>)
    BY <2>2, <2>3 DEF Between, x, pb
  <2> QED
    BY <2>4
<1> QED
  BY <1>7, <1>8

LEMMA DrainLines ==
    ASSUME NEW a, NEW b, NEW channel, Kind(a, b, channel), Drain(a, b, channel)
    PROVE  /\ Line(a)' = Queue(channel[Peer(a)], b)
           /\ Line(Peer(a))' = Queue(channel[a], buffer[Peer(a)])
           /\ buffer'[a].incomings = b.incomings
           /\ buffer'[Peer(a)].incomings = buffer[Peer(a)].incomings
<1> DEFINE p == Peer(a)
<1>1. PICK nb : Left(a, b, channel, nb)
  BY Drained
<1>2. a \in Ends /\ DOMAIN buffer = Ends
  BY DEF Kind
<1>3. p \in Ends /\ p # a /\ Peer(p) = a
  BY <1>2, Peers
<1>4. /\ SameMaps(b, nb) /\ buffer' = [buffer EXCEPT ![a] = nb] /\ wire'[a] = channel[a]
      /\ wire'[p] \o nb.high_priority \o nb.low_priority
           = channel[p] \o b.high_priority \o b.low_priority
  BY <1>1 DEF Left
<1>5. buffer'[a] = nb /\ buffer'[p] = buffer[p]
  BY <1>2, <1>3, <1>4
<1>6. Line(a)' = wire'[p] \o nb.high_priority \o nb.low_priority
  BY <1>5 DEF Line
<1>7. Line(p)' = wire'[a] \o buffer[p].high_priority \o buffer[p].low_priority
  BY <1>3, <1>5 DEF Line
<1> QED
  BY <1>4, <1>5, <1>6, <1>7 DEF Queue, SameMaps

(* The numbers of the frames that l and inc still hold chunks of. *)
Going(l, inc) == {l[i].frame_id : i \in {j \in DOMAIN l : IsChunk(l[j])}} \cup DOMAIN inc

Pictured(s, ids) == {[id |-> id, len |-> s[id + 1]] : id \in ids}

LEMMA GoingOpen ==
    ASSUME NEW l, NEW inc
    PROVE  \A id : id \in Going(l, inc) <=> Open(l, inc, id)
BY DEF Going, Open

LEMMA GoingBound ==
    ASSUME NEW s \in Seq(Nat), NEW l \in Seq(Msg), NEW inc, Framed(s, l, inc)
    PROVE  \A id \in Going(l, inc) : id \in 0 .. Len(s) - 1
<1> SUFFICES ASSUME NEW id \in Going(l, inc) PROVE id \in 0 .. Len(s) - 1
  OBVIOUS
<1>1. CASE id \in DOMAIN inc
  BY <1>1 DEF Framed, Assembled, Partial
<1>2. CASE id \notin DOMAIN inc
  <2>1. PICK i \in DOMAIN l : IsChunk(l[i]) /\ l[i].frame_id = id
    BY <1>2 DEF Going
  <2>2. l[i] \in Msg /\ Good(s, l[i])
    BY <2>1 DEF Framed, ChunksGood
  <2> QED
    BY <2>1, <2>2, GoodFacts
<1> QED
  BY <1>1, <1>2

(* The frames that e's end is still sending. *)
Now(e) == Going(Line(e), buffer[Peer(e)].incomings)

LEMMA Picture ==
    ASSUME NEW e
    PROVE  /\ InTransit(e) = Pictured(sent[e], Now(e))
           /\ InTransit(e)' = Pictured(sent'[e], Now(e)')
<1>1. Unfinished(e) = Now(e) /\ Unfinished(e)' = Now(e)'
  BY Zenon DEF Unfinished, Now, Going, IsChunk
<1> QED
  BY <1>1, Zenon DEF InTransit, Pictured

LEMMA DrainGoing ==
    ASSUME NEW a, NEW b, NEW channel, Kind(a, b, channel), Drain(a, b, channel)
    PROVE  /\ Now(a)' = Going(Queue(channel[Peer(a)], b), buffer[Peer(a)].incomings)
           /\ Now(Peer(a))' = Going(Queue(channel[a], buffer[Peer(a)]), b.incomings)
<1>1. Peer(Peer(a)) = a
  BY Peers DEF Kind
<1> QED
  BY <1>1, DrainLines DEF Now

(* No frame more or less goes when only acknowledgements come and go. *)
LEMMA SameGoing ==
    ASSUME NEW l, NEW l2, NEW o, NEW inc, ChunksFrom(l2, l, o), ChunksTo(l, l2)
    PROVE  Going(l2, inc) = Going(l, inc)
<1>1. \A id : Open(l2, inc, id) <=> Open(l, inc, id)
  BY DEF Open, ChunksFrom, ChunksTo
<1> QED
  BY <1>1, GoingOpen

LEMMA SendGoing ==
    ASSUME NEW l \in Seq(Msg), NEW l2 \in Seq(Msg), NEW x \in Seq(Msg), NEW k, NEW n, NEW inc,
           Insert(l, l2, k, x), New(x, n), 1 \in DOMAIN x
    PROVE  Going(l2, inc) = Going(l, inc) \cup {n}
<1>1. \A i \in DOMAIN l2 :
              \/ i - k \in DOMAIN x /\ l2[i] = x[i - k]
              \/ \E j \in DOMAIN l : l2[i] = l[j]
  BY InsertFrom
<1>2. /\ \A i \in DOMAIN l : \E j \in DOMAIN l2 : l2[j] = l[i]
      /\ \A i \in DOMAIN x : \E j \in DOMAIN l2 : l2[j] = x[i]
  BY InsertTo
<1>3. \A i \in DOMAIN x : IsChunk(x[i]) /\ x[i].frame_id = n
  BY DEF New
<1>4. \A id : Open(l2, inc, id) => Open(l, inc, id) \/ id = n
  BY <1>1, <1>3 DEF Open
<1>5. \A id : Open(l, inc, id) => Open(l2, inc, id)
  BY <1>2 DEF Open
<1>6. Open(l2, inc, n)
  BY <1>2, <1>3 DEF Open
<1> QED
  BY <1>4, <1>5, <1>6, GoingOpen

LEMMA SendPicture ==
    ASSUME NEW s \in Seq(Nat), NEW len \in Nat, NEW G, \A id \in G : id \in 0 .. Len(s) - 1
    PROVE  Pictured(Append(s, len), G \cup {Len(s)}) = Pictured(s, G) \cup {[id |-> Len(s), len |-> len]}
<1> DEFINE s2 == Append(s, len)
           n == Len(s)
<1>1. \A id \in G : s2[id + 1] = s[id + 1]
  BY Longer
<1>2. s2[n + 1] = len
  BY Longer
<1> HIDE DEF s2, n
<1>3. Pictured(s2, G \cup {n}) = Pictured(s, G) \cup {[id |-> n, len |-> len]}
  BY <1>1, <1>2 DEF Pictured
<1> QED
  BY <1>3 DEF s2, n

(* A frame that is over goes no longer. *)
LEMMA OverGoing ==
    ASSUME NEW l \in Seq(Msg), l # <<>>, NEW inc, NEW inc2, IsChunk(Head(l)),
           Elsewhere(l, inc, inc2), Over(l, inc2)
    PROVE  /\ Going(Tail(l), inc2) = Going(l, inc) \ {Head(l).frame_id}
           /\ Head(l).frame_id \in Going(l, inc)
<1> DEFINE c == Head(l)
           t == Tail(l)
<1>1. /\ c = l[1] /\ 1 \in DOMAIN l /\ IsChunk(c)
      /\ \A i \in DOMAIN t : t[i] = l[i + 1] /\ i + 1 \in DOMAIN l
      /\ \A i \in DOMAIN l : i # 1 => i - 1 \in DOMAIN t /\ t[i - 1] = l[i]
  BY TailFrom
<1>2. /\ c.frame_id \notin DOMAIN inc2
      /\ \A i \in DOMAIN t : IsChunk(t[i]) => t[i].frame_id # c.frame_id
  BY DEF Over
<1>3. \A f : f # c.frame_id => (f \in DOMAIN inc2 <=> f \in DOMAIN inc)
  BY DEF Elsewhere
<1> HIDE DEF c, t
<1>4. \A id : Open(t, inc2, id) => Open(l, inc, id) /\ id # c.frame_id
  BY <1>1, <1>2, <1>3 DEF Open
<1>5. \A id : Open(l, inc, id) /\ id # c.frame_id => Open(t, inc2, id)
  BY <1>1, <1>3 DEF Open
<1>6. Open(l, inc, c.frame_id)
  BY <1>1 DEF Open
<1>7. Going(t, inc2) = Going(l, inc) \ {c.frame_id} /\ c.frame_id \in Going(l, inc)
  BY <1>4, <1>5, <1>6, GoingOpen
<1> QED
  BY <1>7 DEF c, t

LEMMA MoreGoing ==
    ASSUME NEW u, NEW l \in Seq(Msg), l # <<>>, NEW inc, NEW inc2, IsChunk(Head(l)),
           Elsewhere(l, inc, inc2), OneMore(u, l, inc, inc2)
    PROVE  Going(Tail(l), inc2) = Going(l, inc)
<1> DEFINE c == Head(l)
           t == Tail(l)
<1>1. /\ c = l[1] /\ 1 \in DOMAIN l /\ IsChunk(c)
      /\ \A i \in DOMAIN t : t[i] = l[i + 1] /\ i + 1 \in DOMAIN l
      /\ \A i \in DOMAIN l : i # 1 => i - 1 \in DOMAIN t /\ t[i - 1] = l[i]
  BY TailFrom
<1>2. c.frame_id \in DOMAIN inc2
  BY DEF OneMore
<1>3. \A f : f # c.frame_id => (f \in DOMAIN inc2 <=> f \in DOMAIN inc)
  BY DEF Elsewhere
<1> HIDE DEF c, t
<1>4. \A id : Open(t, inc2, id) => Open(l, inc, id)
  BY <1>1, <1>3 DEF Open
<1>5. \A id : Open(l, inc, id) => Open(t, inc2, id)
  BY <1>1, <1>2, <1>3 DEF Open
<1>6. Going(t, inc2) = Going(l, inc)
  BY <1>4, <1>5, GoingOpen
<1> QED
  BY <1>6 DEF t

LEMMA SendKeeps ==
    ASSUME Inv, NEW a \in Ends, NEW len \in Lengths[a], SendData(a, len)
    PROVE  /\ Inv' /\ Now(a)' = Now(a) \cup {Len(sent[a])} /\ Now(Peer(a))' = Now(Peer(a))
<1> DEFINE p == Peer(a)
           b == buffer[a]
           s == sent[a]
           n == Len(s)
           x == Chunks(n, len)
           pb == PushFrame(b, len)
           la == Queue(wire[p], b)
           la2 == Queue(wire[p], pb)
           lp == Line(p)
           s2 == Append(s, len)
<1>1. p \in Ends /\ p # a /\ Peer(p) = a
  BY Peers
<1>2. /\ Buffer(b) /\ b.outs = <<>> /\ b.frame_id_seed = n /\ s \in Seq(Nat) /\ n \in Nat
      /\ wire[p] \in Seq(Msg) /\ la \in Seq(Msg) /\ lp \in Seq(Msg) /\ Line(a) = la
      /\ wire \in [Ends -> Seq(Msg)] /\ DOMAIN buffer = Ends /\ lp = Queue(wire[a], buffer[p])
  BY <1>1, Typed DEF Inv
<1>3. len \in Nat
  BY BufferAssumption
<1>4. Drain(a, pb, wire) /\ sent' = [sent EXCEPT ![a] = s2] /\ open' = open /\ got' = got
  BY DEF SendData
<1>5. sent'[a] = s2 /\ sent'[p] = sent[p] /\ s2 \in Seq(Nat) /\ Len(s2) = n + 1 /\ sent' \in [Ends -> Seq(Nat)]
  <2>1. s2 \in Seq(Nat) /\ Len(s2) = n + 1
    BY <1>2, <1>3, Longer
  <2>2. sent \in [Ends -> Seq(Nat)]
    BY DEF Inv, TypeOK
  <2> HIDE DEF s2
  <2> QED
    BY <1>1, <1>4, <2>1, <2>2
<1>6. /\ Dir(s, wire[p], la, lp, b, buffer[p].incomings, got[p])
      /\ Dir(sent[p], wire[a], lp, la, buffer[p], b.incomings, got[a])
  <2>1. Direction(a) /\ Direction(p)
    BY <1>1 DEF Inv
  <2> QED
    BY <1>1, <1>2, <2>1 DEF Direction
<1>7. /\ Buffer(pb) /\ pb.frame_id_seed = n + 1 /\ pb.incomings = b.incomings
      /\ pb.outs = b.outs /\ pb.in_air_size = b.in_air_size
      /\ pb.outgoings = Note(b.outgoings, n, x)
  <2> HIDE DEF b, n
  <2>1. Pushed(b, n, len, pb)
    BY <1>2, <1>3, PushFacts
  <2> HIDE DEF pb, x
  <2> QED
    BY <2>1, Zenon DEF Pushed, x
<1>8. PICK x1, x2 : /\ Splits(la, la2, x, x1, x2)
                    /\ \A i \in DOMAIN x2 : IsChunk(x2[i]) /\ (x2[i].chunk_count = 1 <=> ~Single(len))
  <2> DEFINE w == wire[p]
  <2>1. w \in Seq(Msg)
    BY <1>2
  <2> HIDE DEF b, n, w
  <2>2. \E x1, x2 : Between(w, b, n, len, x1, x2)
    BY <1>2, <1>3, <2>1, PushedLine
  <2> QED
    BY <2>2 DEF Between, w
<1> DEFINE k == Len(x1)
<1>9. /\ la2 \in Seq(Msg) /\ x \in Seq(Msg) /\ Insert(la, la2, k, x)
      /\ \A i \in k + 1 .. Len(la) : i - k \in DOMAIN x2 /\ la[i] = x2[i - k]
  BY <1>8, SplitsFacts
<1>10. \A i \in DOMAIN x : IsChunk(x[i]) /\ x[i].frame_id = n /\ x[i].chunk_id = i - 1
  <2>1. Len(x) = ChunkCount(len)
    BY <1>2, <1>3, ChunkFacts
  <2>2. ASSUME NEW i \in 1 .. ChunkCount(len)
        PROVE  /\ Chunks(n, len)[i].type = "Chunk" /\ Chunks(n, len)[i].frame_id = n
               /\ Chunks(n, len)[i].chunk_id = i - 1
    BY <1>2, <1>3, ChunkFacts
  <2>3. DOMAIN x = 1 .. ChunkCount(len)
    <3> HIDE DEF x
    <3> QED
      BY <1>9, <2>1
  <2> QED
    BY <2>2, <2>3, Zenon DEF IsChunk
<1> HIDE DEF p, b, s, n, x, pb, la, la2, lp, s2, k
<1>11. Counted(n, la, lp, b.outgoings)
  BY <1>6 DEF Dir, n
<1>12. Counted(n + 1, la2, lp, pb.outgoings)
  <2> DEFINE o1 == b.outgoings
  <2>1. Counted(n, la, lp, o1) /\ New(x, n)
    BY <1>10, <1>11 DEF New
  <2> HIDE DEF o1
  <2>2. Counted(n + 1, la2, lp, Note(o1, n, x))
    BY <1>2, <1>9, <2>1, SendCounted
  <2> QED
    BY <1>7, <2>2 DEF o1
<1>13. Framed(s2, la2, buffer[p].incomings)
  <2>1. Framed(s, la, buffer[p].incomings)
    BY <1>6 DEF Dir
  <2>2. \A i \in k + 1 .. Len(la) : IsChunk(la[i]) /\ (la[i].chunk_count = 1 <=> ~Single(len))
    BY <1>8, <1>9
  <2>3. Insert(la, la2, k, Chunks(Len(s), len))
    BY <1>9 DEF x, n
  <2>4. Framed(Append(s, len), la2, buffer[p].incomings)
    BY <1>2, <1>3, <1>9, <2>1, <2>2, <2>3, SendFramed
  <2> QED
    BY <2>4 DEF s2
<1>14. Total(AckSizes(pb.outgoings, lp)) = Total(AckSizes(b.outgoings, lp))
  <2>1. \A i \in DOMAIN lp : ~IsChunk(lp[i]) => lp[i].frame_id < n /\ lp[i].frame_id \in DOMAIN b.outgoings
    BY <1>11 DEF Counted, Below, Kept, Remembered
  <2>2. \A f \in DOMAIN b.outgoings : f # n => pb.outgoings[f] = b.outgoings[f]
    BY <1>7 DEF Note
  <2>3. ~(n < n)
    BY <1>2
  <2>4. \A i \in DOMAIN lp : ~IsChunk(lp[i]) => pb.outgoings[lp[i].frame_id] = b.outgoings[lp[i].frame_id]
    BY <2>1, <2>2, <2>3
  <2>5. AckSizes(pb.outgoings, lp) = AckSizes(b.outgoings, lp)
    BY <2>4, AckSizesSame
  <2> QED
    BY <2>5
<1>15. Dir(s2, wire[p], la2, lp, pb, buffer[p].incomings, got[p])
  <2>1. Taken(s2, got[p])
    BY <1>2, <1>3, <1>6, TakenLonger DEF Dir, s2
  <2>2. Counted(Len(s2), la2, lp, pb.outgoings)
    BY <1>5, <1>12
  <2>3. pb.in_air_size = SizeOf(wire[p]) + Total(AckSizes(pb.outgoings, lp))
    BY <1>6, <1>7, <1>14 DEF Dir
  <2> QED
    BY <1>13, <2>1, <2>2, <2>3 DEF Dir
<1>16. Dir(sent[p], wire[a], lp, la2, buffer[p], pb.incomings, got[a])
  <2> DEFINE out == buffer[p].outgoings
  <2>1. Counted(Len(sent[p]), lp, la, out)
    BY <1>6 DEF Dir
  <2> HIDE DEF out
  <2>2. AcksFrom(la2, la, Before(la2, k, Len(x)))
    BY <1>2, <1>9, <1>10, InsertChunks
  <2>3. ChunksFrom(lp, lp, [i \in DOMAIN lp |-> i])
    BY <1>2, SelfFrom
  <2>4. Counted(Len(sent[p]), lp, la2, out)
    BY <1>2, <1>9, <2>1, <2>2, <2>3, FewerCounted
  <2>5. Total(AckSizes(out, la2)) = Total(AckSizes(out, la)) + Total(AckSizes(out, x))
    BY <1>8, <2>4, CountedNat, SplitsSizes
  <2>6. Total(AckSizes(out, x)) = 0
    <3>1. AckNat(out, x)
      BY <1>10 DEF AckNat
    <3>2. AckSizes(out, x) \in Seq(Nat)
      BY <1>9, <3>1, AckSizesNat
    <3>3. \A i \in DOMAIN AckSizes(out, x) : AckSizes(out, x)[i] = 0
      BY <1>10 DEF AckSizes
    <3> QED
      BY <3>2, <3>3, TotalZeros
  <2>7. Total(AckSizes(out, la)) \in Nat
    BY <1>2, <2>1, CountedNat, AckSizesNat
  <2>8. Total(AckSizes(out, la2)) = Total(AckSizes(out, la))
    BY <2>5, <2>6, <2>7
  <2>9. Total(AckSizes(buffer[p].outgoings, la2)) = Total(AckSizes(buffer[p].outgoings, la))
    BY <2>8 DEF out
  <2> QED
    BY <1>6, <1>7, <2>4, <2>9 DEF Dir, out
<1>17. Ready(a, pb, wire)
  BY <1>2, <1>4, <1>5, <1>15, <1>16 DEF Ready, p, la2
<1>18. Carried(a, pb)
  <2>1. got \in [Ends -> Seq(Seq(Pieces))] /\ open \subseteq Ends
    BY DEF Inv, TypeOK
  <2> QED
    BY <1>2, <1>4, <1>5, <1>7, <2>1 DEF Carried, p
<1>19. Kind(a, pb, wire)
  BY <1>2, <1>7 DEF Kind
<1>20. /\ Now(a)' = Going(la2, buffer[p].incomings) /\ Now(p)' = Going(lp, pb.incomings)
       /\ Now(a) = Going(la, buffer[p].incomings) /\ Now(p) = Going(lp, b.incomings)
  <2>1. Drain(a, pb, wire)
    BY <1>4 DEF pb
  <2>2. /\ Now(a)' = Going(Queue(wire[p], pb), buffer[p].incomings)
        /\ Now(p)' = Going(Queue(wire[a], buffer[p]), pb.incomings)
    BY <1>19, <2>1, DrainGoing DEF p
  <2> QED
    BY <1>1, <1>2, <2>2 DEF Now, la2, p, b, lp
<1>21. Now(a)' = Now(a) \cup {n}
  <2> DEFINE inc == buffer[p].incomings
  <2> HIDE DEF inc
  <2>1. New(x, n) /\ 1 \in DOMAIN x
    <3>1. New(x, n)
      BY <1>10 DEF New
    <3>2. Len(x) = ChunkCount(len) /\ ChunkCount(len) \in Nat /\ ChunkCount(len) >= 1
      BY <1>2, <1>3, ChunkFacts, CountFacts DEF x
    <3> QED
      BY <1>9, <3>1, <3>2
  <2>2. Going(la2, inc) = Going(la, inc) \cup {n}
    BY <1>2, <1>9, <2>1, SendGoing
  <2> QED
    BY <1>20, <2>2 DEF inc
<1>22. Now(p)' = Now(p)
  BY <1>7, <1>20
<1>23. Inv'
  BY <1>4, <1>17, <1>18, <1>19, Settled DEF pb
<1> QED
  BY <1>21, <1>22, <1>23 DEF n, s, p

(* The line that a chunk received or an acknowledgement is the front of. *)
LEMMA FrontOf ==
    ASSUME Inv, NEW a \in Ends, wire[a] # <<>>
    PROVE  LET p == Peer(a)
           IN  /\ Line(p) # <<>> /\ Head(Line(p)) = Head(wire[a])
               /\ Tail(Line(p)) = Queue(Tail(wire[a]), buffer[p])
               /\ Tail(wire[a]) \in Seq(Msg) /\ Head(wire[a]) \in Msg
<1> DEFINE p == Peer(a)
           w == wire[a]
           h == buffer[p].high_priority
           l == buffer[p].low_priority
<1>1. p \in Ends /\ Peer(p) = a
  BY Peers
<1>2. Buffer(buffer[p]) /\ w \in Seq(Msg) /\ Line(p) = Queue(w, buffer[p])
  BY <1>1, Typed DEF Inv
<1>3. h \in Seq(Msg) /\ l \in Seq(Big)
  BY <1>2 DEF Buffer
<1>4. l \in Seq(Msg)
  BY <1>3, SeqMonotonic DEF Big, Msg
<1>5. Line(p) = (w \o h) \o l /\ Queue(Tail(w), buffer[p]) = (Tail(w) \o h) \o l
  BY <1>2 DEF Queue
<1>6. w # <<>>
  OBVIOUS
<1> HIDE DEF w, h, l, p
<1>7. /\ (w \o h) \o l # <<>> /\ Head((w \o h) \o l) = Head(w)
      /\ Tail((w \o h) \o l) = (Tail(w) \o h) \o l
  BY <1>2, <1>3, <1>4, <1>6, HeadQueue, SMTT(40)
<1>8. Tail(w) \in Seq(Msg) /\ Head(w) \in Msg
  BY <1>2, <1>6, HeadTail
<1> QED
  BY <1>5, <1>7, <1>8, Zenon DEF p, w

(* Before and after a step in which a receives the front of its wire. *)
Receipt(a, b2) ==
    /\ Inv /\ a \in Ends /\ wire[a] # <<>>
    /\ Drain(a, b2, [wire EXCEPT ![a] = Tail(@)])
    /\ open' = open /\ sent' = sent

LEMMA ReceiptFacts ==
    ASSUME NEW a, NEW b2, Receipt(a, b2)
    PROVE  LET p == Peer(a)
               channel == [wire EXCEPT ![a] = Tail(@)]
           IN  /\ a \in Ends /\ p \in Ends /\ p # a /\ Peer(p) = a
               /\ channel \in [Ends -> Seq(Msg)] /\ channel[p] = wire[p] /\ channel[a] = Tail(wire[a])
               /\ Line(p) # <<>> /\ Head(Line(p)) = Head(wire[a])
               /\ Tail(Line(p)) = Queue(channel[a], buffer[p]) /\ Tail(Line(p)) \in Seq(Msg)
               /\ Line(a) = Queue(wire[p], buffer[a]) /\ Line(a) \in Seq(Msg) /\ Line(p) \in Seq(Msg)
               /\ wire[a] \in Seq(Msg) /\ wire[p] \in Seq(Msg)
               /\ Head(wire[a]) \in Msg /\ sent[a] \in Seq(Nat) /\ sent[p] \in Seq(Nat)
               /\ Buffer(buffer[a]) /\ buffer[a].outs = <<>> /\ buffer[a].frame_id_seed = Len(sent[a])
               /\ Dir(sent[a], wire[p], Line(a), Line(p), buffer[a], buffer[p].incomings, got[p])
               /\ Dir(sent[p], wire[a], Line(p), Line(a), buffer[p], buffer[a].incomings, got[a])
<1> DEFINE p == Peer(a)
           channel == [wire EXCEPT ![a] = Tail(@)]
<1>0. Inv /\ a \in Ends /\ wire[a] # <<>>
  BY DEF Receipt
<1>1. p \in Ends /\ p # a /\ Peer(p) = a
  BY <1>0, Peers
<1>2. /\ Line(a) = Queue(wire[p], buffer[a]) /\ Line(a) \in Seq(Msg) /\ Line(p) \in Seq(Msg)
      /\ wire[a] \in Seq(Msg) /\ wire[p] \in Seq(Msg) /\ wire \in [Ends -> Seq(Msg)]
      /\ sent[a] \in Seq(Nat) /\ sent[p] \in Seq(Nat)
      /\ Buffer(buffer[a]) /\ buffer[a].outs = <<>> /\ buffer[a].frame_id_seed = Len(sent[a])
  BY <1>0, <1>1, Typed DEF Inv
<1>3. /\ Line(p) # <<>> /\ Head(Line(p)) = Head(wire[a])
      /\ Tail(Line(p)) = Queue(Tail(wire[a]), buffer[p])
      /\ Tail(wire[a]) \in Seq(Msg) /\ Head(wire[a]) \in Msg
  BY <1>0, FrontOf
<1>4. channel[p] = wire[p] /\ channel[a] = Tail(wire[a])
  BY <1>0, <1>1, <1>2
<1>5. channel \in [Ends -> Seq(Msg)]
  BY <1>0, <1>2, <1>3
<1>6. Direction(a) /\ Direction(p)
  BY <1>0, <1>1 DEF Inv
<1>7. /\ Dir(sent[a], wire[p], Line(a), Line(p), buffer[a], buffer[p].incomings, got[p])
      /\ Dir(sent[p], wire[a], Line(p), Line(a), buffer[p], buffer[a].incomings, got[a])
  BY <1>1, <1>6 DEF Direction
<1>8. Tail(Line(p)) \in Seq(Msg)
  <2> DEFINE l == Line(p)
  <2>1. l \in Seq(Msg) /\ l # <<>>
    BY <1>2, <1>3
  <2> HIDE DEF l
  <2>2. Tail(l) \in Seq(Msg)
    BY <2>1, HeadTail
  <2> QED
    BY <2>2 DEF l
<1> HIDE DEF p, channel
<1> QED
  BY <1>0, <1>1, <1>2, <1>3, <1>4, <1>5, <1>7, <1>8, Zenon DEF p, channel

LEMMA Kinds ==
    ASSUME NEW c \in Msg
    PROVE  /\ IsChunk(c) <=> c \in ChunkType
           /\ ~IsChunk(c) => InAirSize(c) = 0
           /\ IsChunk(c) => /\ ChunkAck(c) \in Msg /\ ~IsChunk(ChunkAck(c)) /\ SameChunk(ChunkAck(c), c)
                            /\ InAirSize(c) \in Nat /\ c.data \in Pieces
BY BufferAssumption DEF Msg, ChunkType, AckType, Pieces, IsChunk, InAirSize, ChunkAck, SameChunk

(* An acknowledgement arrives. *)
LEMMA AckKeeps ==
    ASSUME NEW a, NEW b2, Receipt(a, b2), ~IsChunk(Head(wire[a])),
           b2 = [OnAck(buffer[a], Head(wire[a])) EXCEPT !.outs = <<>>],
           got' = [got EXCEPT ![a] = @ \o OnAck(buffer[a], Head(wire[a])).outs]
    PROVE  Inv' /\ got' = got /\ Now(a)' = Now(a) /\ Now(Peer(a))' = Now(Peer(a))
<1> DEFINE p == Peer(a)
           channel == [wire EXCEPT ![a] = Tail(@)]
           b == buffer[a]
           c == Head(wire[a])
           la == Line(a)
           lp == Line(p)
           la2 == Queue(channel[p], b2)
           lp2 == Queue(channel[a], buffer[p])
           w == wire[a]
           v == wire[p]
           s == sent[a]
           u == sent[p]
           inc == buffer[p].incomings
<1>1. /\ a \in Ends /\ p \in Ends /\ p # a /\ Peer(p) = a
      /\ channel \in [Ends -> Seq(Msg)] /\ channel[p] = v /\ channel[a] = Tail(w)
      /\ lp # <<>> /\ Head(lp) = c /\ Tail(lp) = lp2 /\ lp2 \in Seq(Msg)
      /\ la = Queue(v, b) /\ la \in Seq(Msg) /\ lp \in Seq(Msg)
      /\ w \in Seq(Msg) /\ v \in Seq(Msg) /\ c \in Msg /\ s \in Seq(Nat) /\ u \in Seq(Nat)
      /\ Buffer(b) /\ b.outs = <<>> /\ b.frame_id_seed = Len(s)
  BY ReceiptFacts
<1>2. /\ Dir(s, v, la, lp, b, inc, got[p])
      /\ Dir(u, w, lp, la, buffer[p], b.incomings, got[a])
  BY ReceiptFacts
<1>3. /\ Inv /\ w # <<>> /\ Drain(a, b2, channel) /\ open' = open /\ sent' = sent
  BY DEF Receipt
<1>4. /\ ~IsChunk(c) /\ b2 = [OnAck(b, c) EXCEPT !.outs = <<>>]
      /\ got' = [got EXCEPT ![a] = @ \o OnAck(b, c).outs]
  OBVIOUS
<1> HIDE DEF p, channel, b, c, la, lp, la2, lp2, w, v, s, u, inc
<1> DEFINE out == b.outgoings
<1>5. Counted(Len(s), la, lp, out)
  BY <1>2 DEF Dir
<1> HIDE DEF out
<1>6. /\ Counted(Len(s), la, Tail(lp), Forget(out, Head(lp)))
      /\ Remembered(out, Head(lp)) /\ out[Head(lp).frame_id][Head(lp).chunk_id] \in Nat
      /\ \A i \in DOMAIN Tail(lp) : ~IsChunk(Tail(lp)[i]) =>
                 Forget(out, Head(lp))[Tail(lp)[i].frame_id][Tail(lp)[i].chunk_id]
                    = out[Tail(lp)[i].frame_id][Tail(lp)[i].chunk_id]
  <2>1. ~IsChunk(Head(lp))
    BY <1>1, <1>4
  <2> QED
    BY <1>1, <1>5, <2>1, AckCounted
<1> DEFINE z == out[c.frame_id][c.chunk_id]
<1>7. Remembered(out, c) /\ z \in Nat /\ Counted(Len(s), la, lp2, Forget(out, c))
  BY <1>1, <1>6
<1>8. /\ DOMAIN b2 = DOMAIN EmptyBuffer /\ b2.frame_id_seed = b.frame_id_seed
      /\ b2.outgoings = Forget(out, c)
      /\ b2.in_air_size = b.in_air_size - z
      /\ b2.outs = <<>> /\ b2.incomings = b.incomings
      /\ b2.high_priority = b.high_priority /\ b2.low_priority = b.low_priority
      /\ OnAck(b, c).outs = <<>>
  <2>1. Remembered(b.outgoings, c)
    BY <1>7 DEF out
  <2> QED
    <3>1. Acknowledged(b, c, OnAck(b, c), b2)
      BY <1>1, <1>4, <2>1, AckReceived
    <3> QED
      BY <3>1, Zenon DEF Acknowledged, out
<1>9. la2 = la
  BY <1>1, <1>8 DEF la2, Queue
<1>10. got' = got
  <2>1. got \in [Ends -> Seq(Seq(Pieces))]
    BY <1>3 DEF Inv, TypeOK
  <2>2. got[a] \o <<>> = got[a]
    BY <1>1, <2>1, ConcatEmptySeq
  <2>3. got' = [got EXCEPT ![a] = got[a]]
    BY <1>4, <1>8, <2>2
  <2> QED
    BY <1>1, <2>1, <2>3
<1>11. /\ Total(AckSizes(out, lp)) = z + Total(AckSizes(out, lp2))
       /\ Total(AckSizes(Forget(out, c), lp2)) = Total(AckSizes(out, lp2))
       /\ Total(AckSizes(out, lp2)) \in Nat
  <2>1. AckNat(out, lp)
    BY <1>5, CountedNat
  <2>2. Total(AckSizes(out, lp)) = (IF IsChunk(Head(lp)) THEN 0 ELSE out[Head(lp).frame_id][Head(lp).chunk_id])
                                     + Total(AckSizes(out, Tail(lp)))
    BY <1>1, <2>1, AckSizesTail
  <2>3. AckSizes(Forget(out, c), lp2) = AckSizes(out, lp2)
    <3>1. \A i \in DOMAIN lp2 : ~IsChunk(lp2[i]) =>
             Forget(out, c)[lp2[i].frame_id][lp2[i].chunk_id] = out[lp2[i].frame_id][lp2[i].chunk_id]
      BY <1>1, <1>6, Zenon
    <3> QED
      BY <3>1, AckSizesSame
  <2>4. AckNat(Forget(out, c), lp2)
    BY <1>7, CountedNat
  <2>5. Total(AckSizes(Forget(out, c), lp2)) \in Nat
    BY <1>1, <2>4, AckSizesNat
  <2> QED
    BY <1>1, <1>4, <2>2, <2>3, <2>5, Zenon
<1> HIDE DEF z
<1>12. SizeOf(v) \in Nat /\ b.in_air_size = SizeOf(v) + Total(AckSizes(out, lp))
  BY <1>1, <1>2, SizesNat DEF Dir, out
<1>13. /\ b2.in_air_size = SizeOf(v) + Total(AckSizes(b2.outgoings, lp2))
       /\ b2.in_air_size \in Nat /\ b2.in_air_size <= b.in_air_size
  <2> DEFINE A == SizeOf(v)
             T == Total(AckSizes(out, lp2))
  <2>1. A \in Nat /\ T \in Nat /\ z \in Nat /\ b.in_air_size = A + (z + T) /\ b2.in_air_size = b.in_air_size - z
    BY <1>7, <1>8, <1>11, <1>12
  <2>2. Total(AckSizes(b2.outgoings, lp2)) = T
    BY <1>8, <1>11
  <2> HIDE DEF A, T
  <2>3. b2.in_air_size = A + T /\ b2.in_air_size \in Nat /\ b2.in_air_size <= b.in_air_size
    BY <2>1
  <2> QED
    BY <2>2, <2>3 DEF A
<1>14. Buffer(b2)
  <2>1. /\ b.high_priority \in Seq(Msg) /\ b.low_priority \in Seq(Big)
        /\ b.in_air_size \in Nat /\ b.in_air_size <= AIR_LIMIT
    BY <1>1 DEF Buffer
  <2>2. AIR_LIMIT \in Nat
    BY BufferAssumption
  <2>3. b2.in_air_size \in Nat /\ b2.in_air_size <= AIR_LIMIT
    BY <1>13, <2>1, <2>2
  <2> QED
    BY <1>8, <2>1, <2>3 DEF Buffer
<1>15. Dir(s, v, la2, lp2, b2, inc, got[p])
  BY <1>2, <1>7, <1>8, <1>9, <1>13 DEF Dir
<1>16. Dir(u, Tail(w), lp2, la2, buffer[p], b2.incomings, got[a])
  <2> DEFINE ob == buffer[p].outgoings
             i2 == b.incomings
  <2>1. Counted(Len(u), lp, la, ob) /\ Framed(u, lp, i2) /\ Taken(u, got[a])
        /\ buffer[p].in_air_size = SizeOf(w) + Total(AckSizes(ob, la))
    BY <1>2 DEF Dir
  <2> HIDE DEF ob, i2
  <2> DEFINE o == [i \in DOMAIN lp2 |-> i + 1]
             q == [i \in DOMAIN la |-> i]
  <2>2. /\ ChunksFrom(lp2, lp, o) /\ Head(lp) = lp[1]
        /\ \A i \in DOMAIN lp : i # 1 => i - 1 \in DOMAIN lp2 /\ lp2[i - 1] = lp[i]
    BY <1>1, TailFrom
  <2>3. AcksFrom(la, la, q)
    BY <1>1, SelfFrom
  <2> HIDE DEF o, q
  <2>4. Counted(Len(u), lp2, la, ob)
    BY <1>1, <2>1, <2>2, <2>3, FewerCounted
  <2>5. ChunksTo(lp, lp2)
    BY <1>1, <1>4, <2>2 DEF ChunksTo
  <2>6. Framed(u, lp2, i2)
    BY <1>1, <2>1, <2>2, <2>5, FewerFramed
  <2>7. SizeOf(w) = SizeOf(Tail(w))
    <3>1. SizeOf(w) = InAirSize(c) + SizeOf(Tail(w)) /\ Tail(w) \in Seq(Msg)
      BY <1>1, <1>3, SizeOfTail, HeadTail DEF c, w
    <3>2. InAirSize(c) = 0
      BY <1>1, <1>4, Kinds
    <3>3. SizeOf(Tail(w)) \in Nat
      BY <3>1, SizesNat
    <3> QED
      BY <3>1, <3>2, <3>3
  <2> QED
    BY <1>8, <1>9, <2>1, <2>4, <2>6, <2>7 DEF Dir, ob, i2
<1>17. Ready(a, b2, channel)
  <2>1. sent'[a] = s /\ sent'[p] = u /\ got'[p] = got[p] /\ got'[a] = got[a]
    BY <1>3, <1>10 DEF s, u
  <2> QED
    BY <1>1, <1>15, <1>16, <2>1 DEF Ready, p, la2, lp2, inc
<1>18. Carried(a, b2)
  <2>1. got \in [Ends -> Seq(Seq(Pieces))] /\ open \subseteq Ends /\ sent \in [Ends -> Seq(Nat)]
    BY <1>3 DEF Inv, TypeOK
  <2> QED
    BY <1>1, <1>3, <1>8, <1>10, <2>1 DEF Carried, s
<1>19. Kind(a, b2, channel)
  <2>1. DOMAIN buffer = Ends
    BY <1>3 DEF Inv, TypeOK
  <2> QED
    BY <1>1, <1>14, <2>1 DEF Kind
<1>20. /\ Now(a)' = Going(la2, inc) /\ Now(p)' = Going(lp2, b.incomings)
       /\ Now(a) = Going(la, inc) /\ Now(p) = Going(lp, b.incomings)
  <2>1. /\ Now(a)' = Going(Queue(channel[p], b2), buffer[p].incomings)
        /\ Now(p)' = Going(Queue(channel[a], buffer[p]), b2.incomings)
    BY <1>3, <1>19, DrainGoing DEF p
  <2> QED
    BY <1>1, <1>8, <2>1 DEF Now, la, la2, lp2, p, b, lp, inc
<1>21. Now(a)' = Now(a)
  BY <1>9, <1>20
<1>22. Now(p)' = Now(p)
  <2> DEFINE o == [i \in DOMAIN lp2 |-> i + 1]
  <2>1. /\ ChunksFrom(lp2, lp, o) /\ Head(lp) = lp[1]
        /\ \A i \in DOMAIN lp : i # 1 => i - 1 \in DOMAIN lp2 /\ lp2[i - 1] = lp[i]
    BY <1>1, TailFrom
  <2> HIDE DEF o
  <2>2. ChunksTo(lp, lp2)
    BY <1>1, <1>4, <2>1 DEF ChunksTo
  <2>3. Going(lp2, b.incomings) = Going(lp, b.incomings)
    BY <2>1, <2>2, SameGoing
  <2> QED
    BY <1>20, <2>3
<1>23. Inv'
  BY <1>3, <1>10, <1>17, <1>18, <1>19, Settled
<1> QED
  BY <1>10, <1>21, <1>22, <1>23 DEF p

(* A chunk arrives: its frame is over and handed on, or there is one more  *)
(* piece of it.                                                            *)
Handed(u, l, inc, inc2, outs) ==
    /\ Elsewhere(l, inc, inc2)
    /\ \/ Over(l, inc2) /\ outs = <<Whole(Head(l).frame_id, u[Head(l).frame_id + 1])>>
       \/ OneMore(u, l, inc, inc2) /\ outs = <<>>

LEMMA ChunkHanded ==
    ASSUME NEW b, NEW q, NEW n, NEW u \in Seq(Nat), NEW l \in Seq(Msg), l # <<>>, IsChunk(Head(l)),
           ChunkOnce(l), Framed(u, l, b.incomings), Collected(b, Head(l), q, n)
    PROVE  Handed(u, l, b.incomings, n.incomings, q.outs)
<1> DEFINE inc == b.incomings
           inc2 == n.incomings
           outs == q.outs
           c == Head(l)
           chunks == Added(inc, c)
           known == Known(inc, c)
<1>1. /\ inc2 =
              IF c.chunk_count = 1 THEN inc
              ELSE IF Complete(chunks, known.chunk_count)
              THEN [f \in DOMAIN inc \ {c.frame_id} |-> inc[f]]
              ELSE [f \in DOMAIN inc \cup {c.frame_id} |->
                       IF f = c.frame_id THEN [known EXCEPT !.chunks = chunks] ELSE inc[f]]
      /\ outs = IF c.chunk_count = 1 THEN <<(<<c.data>>)>>
                  ELSE IF Complete(chunks, known.chunk_count) THEN <<IntoIter(chunks)>> ELSE <<>>
  BY Zenon DEF Collected
<1>2. Framed(u, l, inc)
  OBVIOUS
<1> HIDE DEF inc, inc2, outs
<1>3. CASE c.chunk_count = 1
  <2>1. /\ Over(l, inc) /\ Elsewhere(l, inc, inc) /\ <<c.data>> = Whole(c.frame_id, u[c.frame_id + 1])
    BY <1>2, <1>3, ReceiveSingle
  <2>2. inc2 = inc /\ outs = <<(<<c.data>>)>>
    BY <1>1, <1>3, Zenon
  <2> HIDE DEF c
  <2> QED
    BY <2>1, <2>2, Zenon DEF Handed, inc, inc2, outs, c
<1>4. CASE c.chunk_count # 1 /\ Complete(chunks, known.chunk_count)
  <2>1. inc2 = [f \in DOMAIN inc \ {c.frame_id} |-> inc[f]] /\ outs = <<IntoIter(chunks)>>
    BY <1>1, <1>4, Zenon
  <2>2. /\ Over(l, inc2) /\ Elsewhere(l, inc, inc2)
        /\ IntoIter(chunks) = Whole(c.frame_id, u[c.frame_id + 1])
    BY <1>2, <1>4, <2>1, ReceiveLast
  <2> HIDE DEF c, chunks
  <2> QED
    BY <2>1, <2>2, Zenon DEF Handed, inc, inc2, outs, c
<1>5. CASE c.chunk_count # 1 /\ ~Complete(chunks, known.chunk_count)
  <2>1. /\ inc2 = [f \in DOMAIN inc \cup {c.frame_id} |->
                       IF f = c.frame_id THEN [known EXCEPT !.chunks = chunks] ELSE inc[f]]
        /\ outs = <<>>
    BY <1>1, <1>5, Zenon
  <2>2. OneMore(u, l, inc, inc2) /\ Elsewhere(l, inc, inc2)
    BY <1>2, <1>5, <2>1, ReceiveMore
  <2> QED
    BY <2>1, <2>2, Zenon DEF Handed, inc, inc2, outs
<1> QED
  BY <1>3, <1>4, <1>5

LEMMA WholePieces ==
    ASSUME NEW id \in Nat, NEW len \in Nat
    PROVE  /\ Whole(id, len) \in Seq(Pieces) /\ 1 \in DOMAIN Whole(id, len)
           /\ Whole(id, len)[1].frame = id
<1>1. Chunks(id, len) \in Seq(ChunkType) /\ Len(Chunks(id, len)) = ChunkCount(len)
  BY ChunkFacts
<1>2. ChunkCount(len) \in Nat /\ ChunkCount(len) >= 1
  BY CountFacts
<1>3. \A i \in 1 .. ChunkCount(len) : Chunks(id, len)[i].data \in Pieces
  <2> DEFINE x == Chunks(id, len)
  <2>1. \A c \in ChunkType : c.data \in Pieces
    BY DEF ChunkType
  <2>2. x \in Seq(ChunkType) /\ Len(x) = ChunkCount(len)
    BY <1>1
  <2> HIDE DEF x
  <2>3. \A i \in 1 .. ChunkCount(len) : x[i].data \in Pieces
    BY <2>1, <2>2
  <2> QED
    BY <2>3 DEF x
<1>4. Whole(id, len) \in [1 .. ChunkCount(len) -> Pieces]
  BY <1>3 DEF Whole
<1>5. Chunks(id, len)[1].data.frame = id
  <2>1. 1 \in 1 .. ChunkCount(len)
    BY <1>2
  <2> QED
    BY <2>1 DEF Chunks, Chunk
<1>6. 1 \in 1 .. ChunkCount(len) /\ Whole(id, len)[1] = Chunks(id, len)[1].data
  BY <1>2 DEF Whole
<1> QED
  BY <1>2, <1>4, <1>5, <1>6

(* a hears of frame f from p: that was the last of it, which was the       *)
(* oldest of its class, or more of it is to come.                          *)
Heard(a, p, f) ==
    \/ Now(p)' = Now(p) /\ got' = got
    \/ /\ f \in Now(p) /\ Now(p)' = Now(p) \ {f}
       /\ got' = [got EXCEPT ![a] = @ \o <<Whole(f, sent[p][f + 1])>>]
       /\ \A g \in Now(p) : (Single(sent[p][g + 1]) <=> Single(sent[p][f + 1])) => f <= g

LEMMA ChunkKeeps ==
    ASSUME NEW a, NEW b2, Receipt(a, b2), IsChunk(Head(wire[a])),
           b2 = [OnChunk(buffer[a], Head(wire[a])) EXCEPT !.outs = <<>>],
           got' = [got EXCEPT ![a] = @ \o OnChunk(buffer[a], Head(wire[a])).outs]
    PROVE  Inv' /\ Now(a)' = Now(a) /\ Heard(a, Peer(a), Head(wire[a]).frame_id)
<1> DEFINE p == Peer(a)
           channel == [wire EXCEPT ![a] = Tail(@)]
           b == buffer[a]
           c == Head(wire[a])
           la == Line(a)
           lp == Line(p)
           la2 == Queue(channel[p], b2)
           lp2 == Queue(channel[a], buffer[p])
           w == wire[a]
           v == wire[p]
           s == sent[a]
           u == sent[p]
           inc == buffer[p].incomings
           outs == OnChunk(b, c).outs
           ack == ChunkAck(c)
<1>1. /\ a \in Ends /\ p \in Ends /\ p # a /\ Peer(p) = a
      /\ channel \in [Ends -> Seq(Msg)] /\ channel[p] = v /\ channel[a] = Tail(w)
      /\ lp # <<>> /\ Head(lp) = c /\ Tail(lp) = lp2 /\ lp2 \in Seq(Msg)
      /\ la = Queue(v, b) /\ la \in Seq(Msg) /\ lp \in Seq(Msg)
      /\ w \in Seq(Msg) /\ v \in Seq(Msg) /\ c \in Msg /\ s \in Seq(Nat) /\ u \in Seq(Nat)
      /\ Buffer(b) /\ b.outs = <<>> /\ b.frame_id_seed = Len(s)
  BY ReceiptFacts
<1>2. /\ Dir(s, v, la, lp, b, inc, got[p])
      /\ Dir(u, w, lp, la, buffer[p], b.incomings, got[a])
  BY ReceiptFacts
<1>3. /\ Inv /\ w # <<>> /\ Drain(a, b2, channel) /\ open' = open /\ sent' = sent
  BY DEF Receipt
<1>4. /\ IsChunk(c) /\ b2 = [OnChunk(b, c) EXCEPT !.outs = <<>>]
      /\ got' = [got EXCEPT ![a] = @ \o outs]
  OBVIOUS
<1> HIDE DEF p, b, c
<1>5. Collected(b, c, OnChunk(b, c), b2)
  <2>1. c \in ChunkType
    BY <1>1, <1>4, Kinds
  <2> QED
    BY <1>1, <1>4, <2>1, ChunkReceived
<1>6. /\ Buffer(b2) /\ b2.frame_id_seed = b.frame_id_seed /\ b2.outgoings = b.outgoings
      /\ b2.in_air_size = b.in_air_size /\ b2.outs = <<>>
      /\ b2.high_priority = b.high_priority \o <<ack>> /\ b2.low_priority = b.low_priority
  BY <1>5, Zenon DEF Collected
<1>7. Handed(u, lp, b.incomings, b2.incomings, outs)
  <2>1. ChunkOnce(lp) /\ Framed(u, lp, b.incomings)
    BY <1>2 DEF Dir, Counted
  <2> HIDE DEF lp, u
  <2>2. Collected(b, Head(lp), OnChunk(b, c), b2) /\ IsChunk(Head(lp))
    BY <1>1, <1>4, <1>5
  <2> QED
    BY <1>1, <2>1, <2>2, ChunkHanded
<1>8. /\ ack \in Msg /\ ~IsChunk(ack) /\ SameChunk(ack, c) /\ InAirSize(c) \in Nat /\ <<ack>> \in Seq(Msg)
  <2>1. ack \in Msg /\ ~IsChunk(ack) /\ SameChunk(ack, c) /\ InAirSize(c) \in Nat
    BY <1>1, <1>4, Kinds
  <2> HIDE DEF ack
  <2> QED
    BY <2>1
<1> HIDE DEF channel, la, lp, la2, lp2, w, v, s, u, inc, outs, ack
<1>9. PICK x1, x2 : Splits(la, la2, <<ack>>, x1, x2)
  <2> DEFINE h == b.high_priority
             l == b.low_priority
  <2>1. h \in Seq(Msg) /\ l \in Seq(Big)
    BY <1>1 DEF Buffer
  <2>2. l \in Seq(Msg)
    BY <2>1, SeqMonotonic DEF Big, Msg
  <2>3. la = (v \o h) \o l /\ la2 = (v \o (h \o <<ack>>)) \o l
    BY <1>1, <1>6 DEF Queue, la2
  <2> HIDE DEF h, l
  <2>4. Splits((v \o h) \o l, (v \o (h \o <<ack>>)) \o l, <<ack>>, v \o h, l)
    BY <1>1, <1>8, <2>1, <2>2, PlacedHigh
  <2>5. Splits(la, la2, <<ack>>, v \o h, l)
    BY <2>3, <2>4
  <2> QED
    BY <2>5
<1> DEFINE k == Len(x1)
<1>10. la2 \in Seq(Msg) /\ Insert(la, la2, k, <<ack>>)
  BY <1>9, SplitsFacts
<1> HIDE DEF k
<1>11. \A i \in DOMAIN <<ack>> : ~IsChunk(<<ack>>[i])
  <2>1. DOMAIN <<ack>> = {1} /\ <<ack>>[1] = ack
    OBVIOUS
  <2> QED
    BY <1>8, <2>1
<1>12. Dir(s, v, la2, lp2, b2, inc, got[p])
  <2> DEFINE out == b.outgoings
             o == Before(la2, k, Len(<<ack>>))
             q == [i \in DOMAIN lp2 |-> i + 1]
  <2>1. /\ Counted(Len(s), la, lp, out) /\ Framed(s, la, inc) /\ Taken(s, got[p])
        /\ b.in_air_size = SizeOf(v) + Total(AckSizes(out, lp))
    BY <1>2 DEF Dir
  <2>2. ChunksFrom(la2, la, o)
    BY <1>1, <1>8, <1>10, <1>11, InsertAcks
  <2>3. AcksFrom(lp2, lp, q)
    BY <1>1, TailFrom
  <2>4. ChunksTo(la, la2)
    <3> DEFINE y == <<ack>>
    <3>0. y \in Seq(Msg) /\ Insert(la, la2, k, y)
      BY <1>8, <1>10
    <3> HIDE DEF y
    <3>1. \A i \in DOMAIN la : \E j \in DOMAIN la2 : la2[j] = la[i]
      BY <1>1, <1>10, <3>0, InsertTo
    <3> QED
      BY <3>1 DEF ChunksTo
  <2> HIDE DEF o, q, out
  <2>5. Counted(Len(s), la2, lp2, out)
    BY <1>1, <1>10, <2>1, <2>2, <2>3, FewerCounted
  <2>6. Framed(s, la2, inc)
    BY <1>1, <1>10, <2>1, <2>2, <2>4, FewerFramed
  <2>7. Total(AckSizes(out, lp)) = Total(AckSizes(out, lp2))
    <3>1. AckNat(out, lp) /\ AckNat(out, lp2)
      BY <2>1, <2>5, CountedNat
    <3>2. Total(AckSizes(out, lp)) = (IF IsChunk(Head(lp)) THEN 0 ELSE out[Head(lp).frame_id][Head(lp).chunk_id])
                                     + Total(AckSizes(out, Tail(lp)))
      BY <1>1, <3>1, AckSizesTail
    <3>3. IsChunk(Head(lp))
      BY <1>1, <1>4
    <3>4. Total(AckSizes(out, lp)) = 0 + Total(AckSizes(out, lp2))
      BY <1>1, <3>2, <3>3, Zenon
    <3>5. Total(AckSizes(out, lp2)) \in Nat
      BY <1>1, <3>1, AckSizesNat
    <3> QED
      BY <3>4, <3>5
  <2> QED
    BY <1>6, <2>1, <2>5, <2>6, <2>7 DEF Dir, out
<1>13. Dir(u, Tail(w), lp2, la2, buffer[p], b2.incomings, got'[a])
  <2> DEFINE out == buffer[p].outgoings
             i1 == b.incomings
             i2 == b2.incomings
  <2>1. /\ Counted(Len(u), lp, la, out) /\ Framed(u, lp, i1) /\ Taken(u, got[a])
        /\ buffer[p].in_air_size = SizeOf(w) + Total(AckSizes(out, la))
    BY <1>2 DEF Dir
  <2>2. Handed(u, lp, i1, i2, outs)
    BY <1>7
  <2> HIDE DEF out, i1, i2
  <2>3. Counted(Len(u), lp2, la2, out)
    <3>1. IsChunk(Head(lp)) /\ SameChunk(ack, Head(lp)) /\ InAirSize(Head(lp)) \in Nat
      BY <1>1, <1>4, <1>8
    <3>2. Counted(Len(u), Tail(lp), la2, out)
      BY <1>1, <1>8, <1>10, <2>1, <3>1, ReceiveCounted
    <3> QED
      BY <1>1, <3>2
  <2>4. Framed(u, lp2, i2)
    <3>1. ChunkOnce(lp) /\ IsChunk(Head(lp))
      BY <1>1, <1>4, <2>1 DEF Counted
    <3>2. Elsewhere(lp, i1, i2) /\ (Over(lp, i2) \/ OneMore(u, lp, i1, i2))
      BY <2>2 DEF Handed
    <3>3. Framed(u, Tail(lp), i2)
      BY <1>1, <2>1, <3>1, <3>2, ReceiveFramed
    <3> QED
      BY <1>1, <3>3
  <2>5. Taken(u, got'[a])
    <3>0. got \in [Ends -> Seq(Seq(Pieces))] /\ got'[a] = got[a] \o outs
      BY <1>1, <1>3, <1>4 DEF Inv, TypeOK
    <3> DEFINE g == got[a]
    <3>1. g \in Seq(Seq(Pieces)) /\ Taken(u, g) /\ got'[a] = g \o outs
      BY <1>1, <2>1, <3>0
    <3> HIDE DEF g
    <3>2. CASE outs = <<>>
      BY <3>1, <3>2, ConcatEmptySeq
    <3>3. CASE outs # <<>>
      <4> DEFINE f == Head(lp).frame_id
                 x == Whole(f, u[f + 1])
      <4>1. outs = <<x>>
        BY <2>2, <3>3 DEF Handed
      <4>2. f \in 0 .. Len(u) - 1
        <5>1. Head(lp) = lp[1] /\ 1 \in DOMAIN lp /\ lp[1] \in Msg
          BY <1>1, TailFrom
        <5>2. IsChunk(lp[1]) /\ Good(u, lp[1])
          BY <1>1, <1>4, <2>1, <5>1 DEF Framed, ChunksGood
        <5> QED
          BY <1>1, <5>1, <5>2, GoodFacts
      <4> HIDE DEF x
      <4>3. \A i \in DOMAIN (g \o <<x>>) : (i \in DOMAIN g /\ (g \o <<x>>)[i] = g[i]) \/ (g \o <<x>>)[i] = x
        BY <3>1
      <4>4. x = Whole(f, u[f + 1])
        BY DEF x
      <4> HIDE DEF f
      <4> QED
        BY <3>1, <4>1, <4>2, <4>3, <4>4 DEF Taken
    <3> QED
      BY <3>2, <3>3
  <2>6. buffer[p].in_air_size = SizeOf(Tail(w)) + Total(AckSizes(out, la2))
    <3> DEFINE z == InAirSize(c)
               A == SizeOf(Tail(w))
               T == Total(AckSizes(out, la))
    <3>1. SizeOf(w) = z + A /\ z \in Nat /\ Tail(w) \in Seq(Msg)
      BY <1>1, <1>3, SizeOfTail, HeadTail DEF c, w
    <3>2. A \in Nat
      BY <3>1, SizesNat
    <3>3. T \in Nat
      BY <1>1, <2>1, CountedNat, AckSizesNat
    <3>4. Total(AckSizes(out, la2)) = T + Total(AckSizes(out, <<ack>>))
      BY <1>9, <2>3, CountedNat, SplitsSizes
    <3>5. Total(AckSizes(out, <<ack>>)) = z
      <4>1. c = lp[1] /\ 1 \in DOMAIN lp
        BY <1>1, TailFrom
      <4>2. out[c.frame_id][c.chunk_id] = z
        BY <1>4, <2>1, <4>1 DEF Counted, Kept
      <4>3. ack.frame_id = c.frame_id /\ ack.chunk_id = c.chunk_id
        BY <1>8 DEF SameChunk
      <4>4. out[ack.frame_id][ack.chunk_id] = z
        BY <4>2, <4>3
      <4>5. AckNat(out, <<ack>>)
        <5>1. DOMAIN <<ack>> = {1} /\ <<ack>>[1] = ack
          OBVIOUS
        <5> QED
          BY <1>8, <4>4, <5>1 DEF AckNat
      <4> QED
        BY <1>8, <4>4, <4>5, OneAckSize
    <3>6. buffer[p].in_air_size = (z + A) + T
      BY <2>1, <3>1
    <3> HIDE DEF z, A, T
    <3>7. buffer[p].in_air_size = A + (T + z)
      BY <3>1, <3>2, <3>3, <3>6
    <3> QED
      BY <3>4, <3>5, <3>7 DEF A
  <2> QED
    BY <2>3, <2>4, <2>5, <2>6 DEF Dir, out, i2
<1>14. got'[p] = got[p]
  BY <1>1, <1>3, <1>4 DEF Inv, TypeOK
<1>15. Ready(a, b2, channel)
  <2>1. sent'[a] = s /\ sent'[p] = u
    BY <1>3 DEF s, u
  <2> QED
    BY <1>1, <1>12, <1>13, <1>14, <2>1 DEF Ready, p, la2, lp2, inc
<1>16. got' \in [Ends -> Seq(Seq(Pieces))]
  <2>0. got \in [Ends -> Seq(Seq(Pieces))]
    BY <1>3 DEF Inv, TypeOK
  <2>1. outs \in Seq(Seq(Pieces))
    <3>1. CASE outs = <<>>
      BY <3>1
    <3>2. CASE outs # <<>>
      <4> DEFINE f == Head(lp).frame_id
                 x == Whole(f, u[f + 1])
      <4>1. outs = <<x>>
        BY <1>7, <3>2 DEF Handed
      <4>2. f \in Nat /\ u[f + 1] \in Nat
        <5>1. Head(lp) = lp[1] /\ 1 \in DOMAIN lp /\ lp[1] \in Msg
          BY <1>1, TailFrom
        <5>2. IsChunk(lp[1]) /\ Good(u, lp[1])
          BY <1>1, <1>2, <1>4, <5>1 DEF Dir, Framed, ChunksGood
        <5> QED
          BY <1>1, <5>1, <5>2, GoodFacts
      <4>3. x \in Seq(Pieces)
        BY <4>2, WholePieces
      <4> HIDE DEF x
      <4> QED
        BY <4>1, <4>3
    <3> QED
      BY <3>1, <3>2
  <2>2. got[a] \o outs \in Seq(Seq(Pieces))
    BY <1>1, <2>0, <2>1, ConcatProperties
  <2> QED
    BY <1>1, <1>4, <2>0, <2>2
<1>17. Carried(a, b2)
  <2>1. open \subseteq Ends /\ sent \in [Ends -> Seq(Nat)]
    BY <1>3 DEF Inv, TypeOK
  <2> QED
    BY <1>1, <1>3, <1>6, <1>16, <2>1 DEF Carried, s
<1>18. Kind(a, b2, channel)
  <2>1. DOMAIN buffer = Ends
    BY <1>3 DEF Inv, TypeOK
  <2> QED
    BY <1>1, <1>6, <2>1 DEF Kind
<1>19. Inv'
  BY <1>3, <1>15, <1>17, <1>18, Settled
<1> DEFINE i1 == b.incomings
           i2 == b2.incomings
           f == c.frame_id
<1>20. /\ Now(a)' = Going(la2, inc) /\ Now(p)' = Going(lp2, i2)
       /\ Now(a) = Going(la, inc) /\ Now(p) = Going(lp, i1)
  <2>1. /\ Now(a)' = Going(Queue(channel[p], b2), buffer[p].incomings)
        /\ Now(p)' = Going(Queue(channel[a], buffer[p]), b2.incomings)
    BY <1>3, <1>18, DrainGoing DEF p
  <2> QED
    BY <1>1, <2>1 DEF Now, la, la2, lp2, p, b, lp, inc
<1>21. Now(a)' = Now(a)
  <2> DEFINE o == Before(la2, k, Len(<<ack>>))
             y == <<ack>>
  <2>1. ChunksFrom(la2, la, o)
    BY <1>1, <1>8, <1>10, <1>11, InsertAcks
  <2>2. y \in Seq(Msg) /\ Insert(la, la2, k, y)
    BY <1>8, <1>10
  <2> HIDE DEF y, o
  <2>3. \A i \in DOMAIN la : \E j \in DOMAIN la2 : la2[j] = la[i]
    BY <1>1, <1>10, <2>2, InsertTo
  <2>4. ChunksTo(la, la2)
    BY <2>3 DEF ChunksTo
  <2>5. Going(la2, inc) = Going(la, inc)
    BY <2>1, <2>4, SameGoing
  <2> QED
    BY <1>20, <2>5
<1>22. Heard(a, p, f)
  <2>1. IsChunk(Head(lp)) /\ Framed(u, lp, i1) /\ Head(lp).frame_id = f
    BY <1>1, <1>2, <1>4 DEF Dir
  <2>2. Handed(u, lp, i1, i2, outs)
    BY <1>7
  <2>3. got \in [Ends -> Seq(Seq(Pieces))]
    BY <1>3 DEF Inv, TypeOK
  <2> HIDE DEF i1, i2, f
  <2>4. Elsewhere(lp, i1, i2)
    BY <2>2 DEF Handed
  <2>5. CASE OneMore(u, lp, i1, i2) /\ outs = <<>>
    <3>0. lp \in Seq(Msg) /\ lp # <<>> /\ IsChunk(Head(lp))
      BY <1>1, <2>1
    <3>1. Going(Tail(lp), i2) = Going(lp, i1)
      BY <2>4, <2>5, <3>0, MoreGoing
    <3>2. got[a] \o <<>> = got[a]
      BY <1>1, <2>3, ConcatEmptySeq
    <3>3. got' = [got EXCEPT ![a] = got[a]]
      BY <1>4, <2>5, <3>2
    <3>4. got' = got
      BY <1>1, <2>3, <3>3
    <3> QED
      BY <1>1, <1>20, <3>1, <3>4 DEF Heard
  <2>6. CASE Over(lp, i2) /\ outs = <<Whole(f, u[f + 1])>>
    <3>1. Going(lp2, i2) = Going(lp, i1) \ {f} /\ f \in Going(lp, i1)
      BY <1>1, <2>1, <2>4, <2>6, OverGoing
    <3>2. ASSUME NEW g \in Going(lp, i1), Single(u[g + 1]) <=> Single(u[f + 1]) PROVE f <= g
      <4>1. Open(lp, i1, g)
        BY GoingOpen
      <4>2. g \in 0 .. Len(u) - 1
        BY <1>1, <2>1, GoingBound
      <4>3. Single(u[g + 1]) <=> Single(u[Head(lp).frame_id + 1])
        BY <2>1, <3>2
      <4>4. Head(lp).frame_id <= g
        BY <1>1, <2>1, <4>1, <4>2, <4>3, Oldest
      <4> QED
        BY <2>1, <4>4
    <3>3. got' = [got EXCEPT ![a] = @ \o <<Whole(f, u[f + 1])>>]
      BY <1>4, <2>6
    <3> QED
      BY <1>20, <3>1, <3>2, <3>3, Zenon DEF Heard, u
  <2> QED
    BY <2>1, <2>2, <2>5, <2>6 DEF Handed
<1> QED
  BY <1>19, <1>21, <1>22 DEF c, p

-----------------------------------------------------------------------------
(* The theorems.                                                           *)

LEMMA ReceiveStep ==
    ASSUME Inv, NEW a \in Ends, ChannelData(a)
    PROVE  \E b2 :
              /\ Receipt(a, b2)
              /\ \/ /\ ~IsChunk(Head(wire[a]))
                    /\ b2 = [OnAck(buffer[a], Head(wire[a])) EXCEPT !.outs = <<>>]
                    /\ got' = [got EXCEPT ![a] = @ \o OnAck(buffer[a], Head(wire[a])).outs]
                 \/ /\ IsChunk(Head(wire[a]))
                    /\ b2 = [OnChunk(buffer[a], Head(wire[a])) EXCEPT !.outs = <<>>]
                    /\ got' = [got EXCEPT ![a] = @ \o OnChunk(buffer[a], Head(wire[a])).outs]
<1> DEFINE q == OnReceived(buffer[a], Head(wire[a]))
           b2 == [q EXCEPT !.outs = <<>>]
<1>1. /\ wire[a] # <<>> /\ got' = [got EXCEPT ![a] = @ \o q.outs]
      /\ Drain(a, b2, [wire EXCEPT ![a] = Tail(@)]) /\ open' = open /\ sent' = sent
  BY DEF ChannelData
<1>2. q = IF IsChunk(Head(wire[a])) THEN OnChunk(buffer[a], Head(wire[a])) ELSE OnAck(buffer[a], Head(wire[a]))
  BY Zenon DEF OnReceived, IsChunk
<1> HIDE DEF q
<1>3. Receipt(a, b2)
  BY <1>1 DEF Receipt
<1> QED
  BY <1>1, <1>2, <1>3, Zenon

LEMMA StartInv == Init => Inv
<1> SUFFICES ASSUME Init PROVE Inv
  OBVIOUS
<1>1. /\ \A e \in Ends : buffer[e] = EmptyBuffer /\ wire[e] = <<>> /\ got[e] = <<>> /\ sent[e] = <<>>
      /\ DOMAIN buffer = Ends
  BY DEF Init
<1>2. /\ EmptyBuffer.frame_id_seed = 0 /\ EmptyBuffer.high_priority = <<>>
      /\ EmptyBuffer.low_priority = <<>> /\ EmptyBuffer.incomings = <<>>
      /\ EmptyBuffer.outgoings = <<>> /\ EmptyBuffer.outs = <<>> /\ EmptyBuffer.in_air_size = 0
  BY DEF EmptyBuffer
<1>3. TypeOK
  <2>1. <<>> \in Seq(ChunkType \cup AckType) /\ <<>> \in Seq(Seq(Pieces)) /\ <<>> \in Seq(Nat)
        /\ <<>> \in Seq({c \in ChunkType : c.chunk_count > 1}) /\ Len(<<>>) = 0
    OBVIOUS
  <2>2. /\ open \subseteq Ends /\ wire \in [Ends -> Seq(ChunkType \cup AckType)]
        /\ got \in [Ends -> Seq(Seq(Pieces))] /\ sent \in [Ends -> Seq(Nat)]
    BY <2>1, Zenon DEF Init
  <2> QED
    BY <1>1, <1>2, <2>1, <2>2 DEF TypeOK
<1>4. AirLimit
  BY <1>1, <1>2, BufferAssumption DEF AirLimit
<1>5. ASSUME NEW e \in Ends PROVE Direction(e)
  <2> DEFINE p == Peer(e)
  <2>1. p \in Ends /\ Peer(p) = e
    BY Peers
  <2>2. Line(e) = <<>> /\ Line(p) = <<>>
    <3>1. <<>> \o <<>> = <<>>
      OBVIOUS
    <3> QED
      BY <1>1, <1>2, <2>1, <3>1 DEF Line
  <2>3. DOMAIN <<>> = {} /\ Len(<<>>) = 0 /\ 0 .. 0 - 1 = {}
    OBVIOUS
  <2>4. Counted(0, <<>>, <<>>, <<>>)
    BY <2>3, Zenon DEF Counted, Below, ChunkOnce, AckOnce, Apart, Kept
  <2>5. Framed(<<>>, <<>>, <<>>)
    BY <2>3, Zenon DEF Framed, ChunksGood, Order, Assembled, Rest, Excl
  <2>6. Taken(<<>>, <<>>)
    BY <2>3, Zenon DEF Taken
  <2>7. Total(AckSizes(<<>>, <<>>)) = 0
    <3>1. AckSizes(<<>>, <<>>) = <<>>
      BY DEF AckSizes
    <3> QED
      BY <3>1, TotalEmpty
  <2>8. 0 = SizeOf(<<>>) + Total(AckSizes(<<>>, <<>>))
    BY <2>7, SizeOfEmpty
  <2>9. Dir(<<>>, <<>>, <<>>, <<>>, EmptyBuffer, <<>>, <<>>)
    BY <1>2, <2>3, <2>4, <2>5, <2>6, <2>8, Zenon DEF Dir
  <2> QED
    BY <1>1, <1>2, <2>1, <2>2, <2>9 DEF Direction
<1> QED
  BY <1>3, <1>4, <1>5 DEF Inv

LEMMA StepInv == Inv /\ [Next]_vars => Inv'
<1> SUFFICES ASSUME Inv, [Next]_vars PROVE Inv'
  OBVIOUS
<1>1. ASSUME NEW e \in Ends, ChannelOpen(e) PROVE Inv'
  <2>1. UNCHANGED <<buffer, wire, got, sent>> /\ open' \subseteq Ends
    BY <1>1 DEF ChannelOpen, Inv, TypeOK
  <2>2. TypeOK'
    BY <2>1 DEF Inv, TypeOK
  <2>3. AirLimit'
    BY <2>1 DEF Inv, AirLimit
  <2>4. \A d \in Ends : Direction(d)'
    BY <2>1 DEF Inv, Direction, Line
  <2> QED
    BY <2>2, <2>3, <2>4 DEF Inv
<1>2. ASSUME NEW e \in Ends, ChannelData(e) PROVE Inv'
  BY <1>2, ReceiveStep, AckKeeps, ChunkKeeps
<1>3. ASSUME NEW e \in Ends, NEW len \in Lengths[e], SendData(e, len) PROVE Inv'
  BY <1>3, SendKeeps
<1>4. CASE UNCHANGED vars
  <2>1. TypeOK'
    BY <1>4 DEF Inv, TypeOK, vars
  <2>2. AirLimit'
    BY <1>4 DEF Inv, AirLimit, vars
  <2>3. \A d \in Ends : Direction(d)'
    BY <1>4 DEF Inv, Direction, Line, vars
  <2> QED
    BY <2>1, <2>2, <2>3 DEF Inv
<1> QED
  BY <1>1, <1>2, <1>3, <1>4 DEF Next

(* The invariant holds of every reachable state of the two RemoteConns.    *)
THEOREM BufferInvariant == Spec => []Inv
BY StartInv, StepInv, PTL DEF Spec

(* pop_send never takes the bytes on the channel without acknowledgement   *)
(* past AIR_LIMIT, and received_chunk never takes more off than was put on.*)
THEOREM AirLimitHolds == Spec => []AirLimit
<1>1. Inv => AirLimit
  BY DEF Inv
<1> QED
  BY <1>1, BufferInvariant, PTL

(* Every variable keeps its type: big frames' chunks stay out of the       *)
(* high-priority queue, and frame ids count the frames push_frame was given.*)
THEOREM BufferTypes == Spec => []TypeOK
<1>1. Inv => TypeOK
  BY DEF Inv
<1> QED
  BY <1>1, BufferInvariant, PTL

(* in_air_size is exactly the size of the chunks on the channel and of     *)
(* those whose acknowledgement is under way, at both ends and always.      *)
THEOREM InAirIsExact == Spec => []InAirIsWhatIsInAir
<1>1. Inv => InAirIsWhatIsInAir
  <2> SUFFICES ASSUME Inv, NEW e \in Ends
               PROVE  buffer[e].in_air_size =
                         SizeOf(wire[Peer(e)])
                           + Total([i \in DOMAIN Line(Peer(e)) |-> AckSize(e, Line(Peer(e))[i])])
    BY Zenon DEF InAirIsWhatIsInAir
  <2> DEFINE r == Line(Peer(e))
  <2>1. buffer[e].in_air_size = SizeOf(wire[Peer(e)]) + Total(AckSizes(buffer[e].outgoings, r))
    BY DEF Inv, Direction, Dir
  <2>2. r \in Seq(Msg)
    BY Peers, Typed DEF Inv
  <2> HIDE DEF r
  <2>3. \A i \in DOMAIN r : AckSize(e, r[i]) =
           IF IsChunk(r[i]) THEN 0 ELSE buffer[e].outgoings[r[i].frame_id][r[i].chunk_id]
    <3>1. \A c \in Msg : c.type = "ChunkAck" <=> ~IsChunk(c)
      BY DEF Msg, ChunkType, AckType, IsChunk
    <3> QED
      BY <2>2, <3>1 DEF AckSize
  <2>4. [i \in DOMAIN r |-> AckSize(e, r[i])] = AckSizes(buffer[e].outgoings, r)
    BY <2>3, Zenon DEF AckSizes
  <2> QED
    BY <2>1, <2>4 DEF r
<1> QED
  BY <1>1, BufferInvariant, PTL

-----------------------------------------------------------------------------
(* The connection as a channel of whole frames.                            *)

(* Bytes that are a whole frame's are recognised, then and later. *)
FrameIn(s, bytes) ==
    LET id    == bytes[1].frame
        whole == [i \in DOMAIN Chunks(id, s[id + 1]) |-> Chunks(id, s[id + 1])[i].data]
    IN  [id |-> id, len |-> IF bytes = whole THEN s[id + 1] ELSE -1]

FramesIn(s, g) == [i \in DOMAIN g |-> FrameIn(s, g[i])]

LEMMA Recognised ==
    ASSUME NEW s \in Seq(Nat), NEW id \in 0 .. Len(s) - 1
    PROVE  FrameIn(s, Whole(id, s[id + 1])) = [id |-> id, len |-> s[id + 1]]
<1> DEFINE len == s[id + 1]
           x == Whole(id, len)
<1>0. id \in Nat /\ len \in Nat
  OBVIOUS
<1>1. x[1].frame = id
  BY <1>0, WholePieces
<1>2. x = [i \in DOMAIN Chunks(id, len) |-> Chunks(id, len)[i].data]
  <2>1. DOMAIN Chunks(id, len) = 1 .. ChunkCount(len)
    BY DEF Chunks
  <2> QED
    BY <2>1, Zenon DEF Whole
<1> HIDE DEF x
<1> QED
  BY <1>1, <1>2 DEF FrameIn, x

LEMMA RecognisedLater ==
    ASSUME NEW s \in Seq(Nat), NEW len \in Nat, NEW g, Taken(s, g)
    PROVE  FramesIn(Append(s, len), g) = FramesIn(s, g)
<1> DEFINE s2 == Append(s, len)
<1>1. s2 \in Seq(Nat) /\ \A f \in 0 .. Len(s) - 1 : f \in 0 .. Len(s2) - 1 /\ s2[f + 1] = s[f + 1]
  OBVIOUS
<1> HIDE DEF s2
<1>2. ASSUME NEW i \in DOMAIN g PROVE FrameIn(s2, g[i]) = FrameIn(s, g[i])
  <2>1. PICK id \in 0 .. Len(s) - 1 : g[i] = Whole(id, s[id + 1])
    BY DEF Taken
  <2>2. FrameIn(s, Whole(id, s[id + 1])) = [id |-> id, len |-> s[id + 1]]
    BY Recognised
  <2>3. id \in 0 .. Len(s2) - 1 /\ s2[id + 1] = s[id + 1]
    BY <1>1
  <2>4. FrameIn(s2, Whole(id, s2[id + 1])) = [id |-> id, len |-> s2[id + 1]]
    BY <1>1, <2>3, Recognised
  <2> QED
    BY <2>1, <2>2, <2>3, <2>4
<1>3. FramesIn(s2, g) = FramesIn(s, g)
  BY <1>2 DEF FramesIn
<1> QED
  BY <1>3 DEF s2

LEMMA OneArrival ==
    ASSUME NEW s \in Seq(Nat), NEW g \in Seq(Seq(Pieces)), NEW id \in 0 .. Len(s) - 1
    PROVE  FramesIn(s, g \o <<Whole(id, s[id + 1])>>)
              = Append(FramesIn(s, g), [id |-> id, len |-> s[id + 1]])
<1> DEFINE x == Whole(id, s[id + 1])
           f == [id |-> id, len |-> s[id + 1]]
           g2 == g \o <<x>>
<1>1. FrameIn(s, x) = f
  BY Recognised
<1>2. x \in Seq(Pieces)
  <2>1. id \in Nat /\ s[id + 1] \in Nat
    OBVIOUS
  <2> QED
    BY <2>1, WholePieces
<1> HIDE DEF x, f
<1>3. g2 \in Seq(Seq(Pieces)) /\ Len(g2) = Len(g) + 1 /\ g2[Len(g) + 1] = x /\ Len(g) \in Nat
      /\ \A i \in 1 .. Len(g) : g2[i] = g[i]
  BY <1>2
<1> HIDE DEF g2
<1> DEFINE F(y) == FrameIn(s, y)
           a == [i \in 1 .. Len(g) |-> F(g[i])]
           a2 == [i \in 1 .. Len(g) + 1 |-> F(g2[i])]
<1>4. FramesIn(s, g) = a /\ FramesIn(s, g2) = a2
  <2>1. DOMAIN g = 1 .. Len(g) /\ DOMAIN g2 = 1 .. Len(g) + 1
    BY <1>3
  <2> QED
    BY <2>1, Zenon DEF FramesIn
<1>5. F(x) = f
  BY <1>1
<1> HIDE DEF F
<1>6. a2 = Append(a, f)
  <2> DEFINE S == {F(g[i]) : i \in 1 .. Len(g)}
  <2>0. a \in [1 .. Len(g) -> S] /\ Len(g) \in Nat
    BY <1>3
  <2>1. a \in Seq(S) /\ Len(a) = Len(g)
    <3> DEFINE m == Len(g)
    <3>1. a \in [1 .. m -> S] /\ m \in Nat
      BY <2>0
    <3> HIDE DEF a, S, m
    <3>2. a \in Seq(S) /\ Len(a) = m
      BY <3>1
    <3> QED
      BY <3>2 DEF m
  <2>2. Append(a, f) = [i \in 1 .. Len(g) + 1 |-> IF i = Len(g) + 1 THEN f ELSE a[i]]
    BY <1>3, <2>1
  <2>3. ASSUME NEW i \in 1 .. Len(g) + 1 PROVE F(g2[i]) = IF i = Len(g) + 1 THEN f ELSE a[i]
    BY <1>3, <1>5
  <2> HIDE DEF a
  <2> QED
    BY <2>2, <2>3
<1> QED
  BY <1>4, <1>6 DEF g2, x, f

(* The abstract variables, and those after a step. *)
LEMMA Abstract ==
    /\ \A e : [i \in DOMAIN got[e] |-> FrameOf(Peer(e), got[e][i])] = FramesIn(sent[Peer(e)], got[e])
    /\ \A e : [i \in DOMAIN got'[e] |-> FrameOf(Peer(e), got[e][i])'] = FramesIn(sent'[Peer(e)], got'[e])
<1>1. \A e : [i \in DOMAIN got[e] |-> FrameOf(Peer(e), got[e][i])] = FramesIn(sent[Peer(e)], got[e])
  BY Zenon DEF FramesIn, FrameOf, FrameIn
<1>2. \A e : [i \in DOMAIN got'[e] |-> FrameOf(Peer(e), got[e][i])'] = FramesIn(sent'[Peer(e)], got'[e])
  BY Zenon DEF FramesIn, FrameOf, FrameIn
<1> QED
  BY <1>1, <1>2

(* The refinement mapping, by name. *)
Transit == [e \in Ends |-> InTransit(e)]
Arrivals == [e \in Ends |-> [i \in DOMAIN got[e] |-> FrameOf(Peer(e), got[e][i])]]
Count == [e \in Ends |-> Len(sent[e])]

LEMMA Mapping ==
    /\ Transit = [e \in Ends |-> Pictured(sent[e], Now(e))]
    /\ Transit' = [e \in Ends |-> Pictured(sent'[e], Now(e)')]
    /\ Arrivals = [e \in Ends |-> FramesIn(sent[Peer(e)], got[e])]
    /\ Arrivals' = [e \in Ends |-> FramesIn(sent'[Peer(e)], got'[e])]
    /\ Count = [e \in Ends |-> Len(sent[e])]
    /\ Count' = [e \in Ends |-> Len(sent'[e])]
<1>1. Transit = [e \in Ends |-> Pictured(sent[e], Now(e))]
  BY Picture, Zenon DEF Transit
<1>2. Transit' = [e \in Ends |-> Pictured(sent'[e], Now(e)')]
  BY Picture, Zenon DEF Transit
<1>3. Arrivals = [e \in Ends |-> FramesIn(sent[Peer(e)], got[e])]
  BY Abstract, Zenon DEF Arrivals
<1>4. Arrivals' = [e \in Ends |-> FramesIn(sent'[Peer(e)], got'[e])]
  BY Abstract, Zenon DEF Arrivals
<1>5. Count = [e \in Ends |-> Len(sent[e])] /\ Count' = [e \in Ends |-> Len(sent'[e])]
  BY DEF Count
<1> QED
  BY <1>1, <1>2, <1>3, <1>4, <1>5

(* A step that leaves the mapping as it is. *)
LEMMA Stutter ==
    ASSUME sent' = sent, got' = got, \A e \in Ends : Now(e)' = Now(e)
    PROVE  Transit' = Transit /\ Arrivals' = Arrivals /\ Count' = Count
BY Mapping, Zenon

(* The two ends are all the ends. *)
LEMMA BothEnds ==
    ASSUME NEW a \in Ends, NEW e \in Ends
    PROVE  e = a \/ e = Peer(a)
BY Peers, BufferAssumption

LEMMA Sends ==
    ASSUME Inv, NEW a \in Ends, NEW len \in Lengths[a], SendData(a, len)
    PROVE  Frames!FSend(a, len)
<1> DEFINE p == Peer(a)
           s == sent[a]
           n == Len(s)
<1>1. p \in Ends /\ p # a /\ Peer(p) = a
  BY Peers
<1>2. Now(a)' = Now(a) \cup {n} /\ Now(p)' = Now(p)
  BY SendKeeps
<1>3. s \in Seq(Nat) /\ n \in Nat /\ Line(a) \in Seq(Msg) /\ sent \in [Ends -> Seq(Nat)]
  <2>1. s \in Seq(Nat) /\ n \in Nat /\ Line(a) \in Seq(Msg)
    BY Typed DEF Inv
  <2>2. sent \in [Ends -> Seq(Nat)]
    BY DEF Inv, TypeOK
  <2> QED
    BY <2>1, <2>2
<1>4. len \in Nat
  BY BufferAssumption
<1>5. n < MaxFrames /\ sent' = [sent EXCEPT ![a] = Append(s, len)] /\ got' = got
  BY DEF SendData
<1>6. Framed(s, Line(a), buffer[p].incomings) /\ Taken(s, got[p])
  BY DEF Inv, Direction, Dir
<1>7. sent'[a] = Append(s, len) /\ sent'[p] = sent[p] /\ Len(Append(s, len)) = n + 1
  BY <1>1, <1>3, <1>4, <1>5
<1>8. Pictured(sent'[a], Now(a)') = Pictured(s, Now(a)) \cup {[id |-> n, len |-> len]}
  <2>1. \A id \in Now(a) : id \in 0 .. Len(s) - 1
    BY <1>3, <1>6, GoingBound DEF Now
  <2>2. Pictured(Append(s, len), Now(a) \cup {n}) = Pictured(s, Now(a)) \cup {[id |-> n, len |-> len]}
    BY <1>3, <1>4, <2>1, SendPicture
  <2> QED
    BY <1>2, <1>7, <2>2
<1>9. Pictured(sent'[p], Now(p)') = Pictured(sent[p], Now(p))
  BY <1>2, <1>7
<1>10. FramesIn(sent'[a], got'[p]) = FramesIn(s, got[p])
  BY <1>3, <1>4, <1>5, <1>6, <1>7, RecognisedLater
<1> HIDE DEF p, n, s
<1>11. Transit' = [Transit EXCEPT ![a] = @ \cup {[id |-> n, len |-> len]}]
  <2>1. /\ Transit = [e \in Ends |-> Pictured(sent[e], Now(e))]
        /\ Transit' = [e \in Ends |-> Pictured(sent'[e], Now(e)')]
    BY Mapping
  <2>2. Transit[a] = Pictured(s, Now(a))
    BY <2>1 DEF s
  <2>3. ASSUME NEW e \in Ends
        PROVE  Pictured(sent'[e], Now(e)') = IF e = a THEN Transit[a] \cup {[id |-> n, len |-> len]} ELSE Transit[e]
    <3>1. CASE e = a
      BY <1>8, <2>2, <3>1
    <3>2. CASE e = p
      BY <1>1, <1>9, <2>1, <3>2
    <3> QED
      BY <3>1, <3>2, BothEnds DEF p
  <2>4. Transit' = [e \in Ends |-> IF e = a THEN Transit[a] \cup {[id |-> n, len |-> len]} ELSE Transit[e]]
    BY <2>1, <2>3
  <2> QED
    BY <2>1, <2>4
<1>12. Arrivals' = Arrivals
  <2>1. /\ Arrivals = [e \in Ends |-> FramesIn(sent[Peer(e)], got[e])]
        /\ Arrivals' = [e \in Ends |-> FramesIn(sent'[Peer(e)], got'[e])]
    BY Mapping
  <2>2. ASSUME NEW e \in Ends PROVE FramesIn(sent'[Peer(e)], got'[e]) = FramesIn(sent[Peer(e)], got[e])
    <3>1. CASE e = a
      BY <1>5, <1>7, <3>1 DEF p
    <3>2. CASE e = p
      BY <1>1, <1>10, <3>2 DEF s
    <3> QED
      BY <3>1, <3>2, BothEnds DEF p
  <2> QED
    BY <2>1, <2>2
<1>13. Count[a] = n /\ Count' = [Count EXCEPT ![a] = @ + 1]
  <2>1. Count = [e \in Ends |-> Len(sent[e])] /\ Count' = [e \in Ends |-> Len(sent'[e])]
    BY Mapping
  <2>2. Count[a] = n
    BY <2>1 DEF n, s
  <2>3. ASSUME NEW e \in Ends PROVE Len(sent'[e]) = IF e = a THEN n + 1 ELSE Len(sent[e])
    <3>1. CASE e = a
      BY <1>7, <3>1
    <3>2. CASE e = p
      BY <1>1, <1>7, <3>2
    <3> QED
      BY <3>1, <3>2, BothEnds DEF p
  <2>4. Count' = [e \in Ends |-> IF e = a THEN n + 1 ELSE Len(sent[e])]
    BY <2>1, <2>3
  <2> QED
    BY <2>1, <2>2, <2>4
<1>14. Count[a] < MaxFrames
  BY <1>5, <1>13
<1>15. Transit' = [Transit EXCEPT ![a] = @ \cup {[id |-> Count[a], len |-> len]}]
  BY <1>11, <1>13
<1> QED
  BY <1>12, <1>13, <1>14, <1>15, Zenon DEF Frames!FSend, Transit, Arrivals, Count

LEMMA OnePicture ==
    ASSUME NEW u, NEW G, NEW f \in G
    PROVE  /\ Pictured(u, G \ {f}) = Pictured(u, G) \ {[id |-> f, len |-> u[f + 1]]}
           /\ [id |-> f, len |-> u[f + 1]] \in Pictured(u, G)
<1> DEFINE R(i) == [id |-> i, len |-> u[i + 1]]
<1>1. \A i, j : R(i) = R(j) => i = j
  OBVIOUS
<1>2. \A H : Pictured(u, H) = {R(i) : i \in H}
  BY Zenon DEF Pictured
<1> HIDE DEF R
<1>3. {R(i) : i \in G \ {f}} = {R(i) : i \in G} \ {R(f)} /\ R(f) \in {R(i) : i \in G}
  BY <1>1
<1> QED
  BY <1>2, <1>3, Zenon DEF R

LEMMA Delivers ==
    ASSUME Inv, NEW a \in Ends, NEW f, sent' = sent, Now(a)' = Now(a),
           f \in Now(Peer(a)), Now(Peer(a))' = Now(Peer(a)) \ {f},
           got' = [got EXCEPT ![a] = @ \o <<Whole(f, sent[Peer(a)][f + 1])>>],
           \A g \in Now(Peer(a)) :
               (Single(sent[Peer(a)][g + 1]) <=> Single(sent[Peer(a)][f + 1])) => f <= g
    PROVE  \E r \in Transit[Peer(a)] : Frames!FDeliver(Peer(a), a, r)
<1> DEFINE p == Peer(a)
           u == sent[p]
           r == [id |-> f, len |-> u[f + 1]]
           x == Whole(f, u[f + 1])
<1>1. p \in Ends /\ p # a /\ Peer(p) = a
  BY Peers
<1>2. u \in Seq(Nat) /\ Line(p) \in Seq(Msg)
  BY <1>1, Typed DEF Inv
<1>3. got \in [Ends -> Seq(Seq(Pieces))]
  BY DEF Inv, TypeOK
<1>4. f \in 0 .. Len(u) - 1
  <2>1. Framed(u, Line(p), buffer[a].incomings)
    BY <1>1 DEF Inv, Direction, Dir
  <2>2. f \in Going(Line(p), buffer[a].incomings)
    BY <1>1 DEF Now
  <2> QED
    BY <1>2, <2>1, <2>2, GoingBound
<1>5. FramesIn(u, got[a] \o <<x>>) = Append(FramesIn(u, got[a]), r)
  BY <1>2, <1>3, <1>4, OneArrival
<1>6. got'[a] = got[a] \o <<x>> /\ got'[p] = got[p]
  BY <1>1, <1>3
<1>7. /\ Pictured(u, Now(p) \ {f}) = Pictured(u, Now(p)) \ {r}
      /\ r \in Pictured(u, Now(p))
  BY OnePicture
<1>8. \A g \in Now(p) : (Single(u[g + 1]) <=> Single(u[f + 1])) => f <= g
  OBVIOUS
<1>9. Now(p)' = Now(p) \ {f}
  OBVIOUS
<1>10. r.id = f /\ r.len = u[f + 1]
  OBVIOUS
<1> HIDE DEF p, u, r, x
<1>11. /\ Transit = [e \in Ends |-> Pictured(sent[e], Now(e))]
       /\ Transit' = [e \in Ends |-> Pictured(sent'[e], Now(e)')]
       /\ Arrivals = [e \in Ends |-> FramesIn(sent[Peer(e)], got[e])]
       /\ Arrivals' = [e \in Ends |-> FramesIn(sent'[Peer(e)], got'[e])]
  BY Mapping
<1>12. Transit[p] = Pictured(u, Now(p)) /\ r \in Transit[p]
  BY <1>1, <1>7, <1>11 DEF u
<1>13. Transit' = [Transit EXCEPT ![p] = @ \ {r}]
  <2>1. ASSUME NEW e \in Ends
        PROVE  Pictured(sent'[e], Now(e)') = IF e = p THEN Transit[p] \ {r} ELSE Transit[e]
    <3>1. CASE e = a
      BY <1>1, <1>11, <3>1
    <3>2. CASE e = p
      BY <1>7, <1>9, <1>12, <3>2 DEF u
    <3> QED
      BY <3>1, <3>2, BothEnds DEF p
  <2>2. Transit' = [e \in Ends |-> IF e = p THEN Transit[p] \ {r} ELSE Transit[e]]
    BY <1>11, <2>1
  <2> QED
    BY <1>11, <2>2
<1>14. Arrivals' = [Arrivals EXCEPT ![a] = Append(@, r)]
  <2>0. Arrivals[a] = FramesIn(u, got[a])
    BY <1>11 DEF u, p
  <2>1. ASSUME NEW e \in Ends
        PROVE  FramesIn(sent'[Peer(e)], got'[e]) = IF e = a THEN Append(Arrivals[a], r) ELSE Arrivals[e]
    <3>1. CASE e = a
      BY <1>5, <1>6, <2>0, <3>1 DEF u, p
    <3>2. CASE e = p
      BY <1>1, <1>6, <1>11, <3>2
    <3> QED
      BY <3>1, <3>2, BothEnds DEF p
  <2>2. Arrivals' = [e \in Ends |-> IF e = a THEN Append(Arrivals[a], r) ELSE Arrivals[e]]
    BY <1>11, <2>1
  <2> QED
    BY <1>11, <2>2
<1>15. Count' = Count
  BY Zenon DEF Count
<1>16. \A g \in Transit[p] : (Frames!Small(g) <=> Frames!Small(r)) => r.id <= g.id
  <2> SUFFICES ASSUME NEW g \in Transit[p], Frames!Small(g) <=> Frames!Small(r) PROVE r.id <= g.id
    OBVIOUS
  <2>1. PICK i \in Now(p) : g = [id |-> i, len |-> u[i + 1]]
    BY <1>12 DEF Pictured
  <2>2. g.id = i /\ g.len = u[i + 1]
    BY <2>1
  <2>3. Single(u[i + 1]) <=> Single(u[f + 1])
    BY <1>10, <2>2 DEF Frames!Small, Single
  <2> QED
    BY <1>8, <1>10, <2>2, <2>3
<1>17. PICK q : q = r
  OBVIOUS
<1>18. /\ q \in Transit[p] /\ Transit' = [Transit EXCEPT ![p] = @ \ {q}]
       /\ Arrivals' = [Arrivals EXCEPT ![a] = Append(@, q)]
       /\ \A g \in Transit[p] : (Frames!Small(g) <=> Frames!Small(q)) => q.id <= g.id
  BY <1>12, <1>13, <1>14, <1>16, <1>17
<1>19. Frames!FDeliver(p, a, q)
  BY <1>1, <1>15, <1>18, Zenon DEF Frames!FDeliver, Transit, Arrivals, Count
<1> QED
  BY <1>18, <1>19, Zenon DEF p

LEMMA StartFrames == Init => Frames!FInit
<1> SUFFICES ASSUME Init PROVE Frames!FInit
  OBVIOUS
<1>1. /\ \A e \in Ends : buffer[e] = EmptyBuffer /\ wire[e] = <<>> /\ got[e] = <<>> /\ sent[e] = <<>>
  BY DEF Init
<1>2. /\ EmptyBuffer.high_priority = <<>> /\ EmptyBuffer.low_priority = <<>>
      /\ EmptyBuffer.incomings = <<>>
  BY DEF EmptyBuffer
<1>3. ASSUME NEW e \in Ends PROVE Now(e) = {}
  <2>1. Peer(e) \in Ends
    BY Peers
  <2>2. Line(e) = <<>> /\ buffer[Peer(e)].incomings = <<>>
    <3>1. <<>> \o <<>> = <<>>
      OBVIOUS
    <3> QED
      BY <1>1, <1>2, <2>1, <3>1 DEF Line
  <2>3. DOMAIN <<>> = {}
    OBVIOUS
  <2> QED
    BY <2>2, <2>3 DEF Now, Going
<1>4. Transit = [e \in Ends |-> {}]
  <2>1. \A e \in Ends : Pictured(sent[e], Now(e)) = {}
    BY <1>3 DEF Pictured
  <2> QED
    BY <2>1, Mapping
<1>5. Arrivals = [e \in Ends |-> <<>>]
  <2>1. \A e \in Ends : FramesIn(sent[Peer(e)], got[e]) = <<>>
    BY <1>1 DEF FramesIn
  <2> QED
    BY <2>1, Mapping
<1>6. Count = [e \in Ends |-> 0]
  <2>1. \A e \in Ends : Len(sent[e]) = 0
    BY <1>1
  <2> QED
    BY <2>1, Mapping
<1> QED
  BY <1>4, <1>5, <1>6, Zenon DEF Frames!FInit, Transit, Arrivals, Count

LEMMA StepFrames == Inv /\ [Next]_vars => [Frames!FNext]_(Frames!fvars)
<1> SUFFICES ASSUME Inv, [Next]_vars
             PROVE  Frames!FNext \/ (Transit' = Transit /\ Arrivals' = Arrivals /\ Count' = Count)
  BY Zenon DEF Frames!fvars, Transit, Arrivals, Count
<1>1. ASSUME NEW e \in Ends, ChannelOpen(e) PROVE Transit' = Transit /\ Arrivals' = Arrivals /\ Count' = Count
  <2>1. UNCHANGED <<buffer, wire, got, sent>>
    BY <1>1 DEF ChannelOpen
  <2>2. \A d : Now(d)' = Now(d)
    BY <2>1, Zenon DEF Now, Line
  <2> QED
    BY <2>1, <2>2, Stutter
<1>2. CASE UNCHANGED vars
  <2>1. UNCHANGED <<buffer, wire, got, sent>>
    BY <1>2 DEF vars
  <2>2. \A d : Now(d)' = Now(d)
    BY <2>1, Zenon DEF Now, Line
  <2> QED
    BY <2>1, <2>2, Stutter
<1>3. ASSUME NEW e \in Ends, NEW len \in Lengths[e], SendData(e, len) PROVE Frames!FNext
  BY <1>3, Sends DEF Frames!FNext
<1>4. ASSUME NEW e \in Ends, ChannelData(e)
      PROVE  Frames!FNext \/ (Transit' = Transit /\ Arrivals' = Arrivals /\ Count' = Count)
  <2>0. Peer(e) \in Ends /\ \A d \in Ends : d = e \/ d = Peer(e)
    BY Peers, BothEnds
  <2>1. PICK b2 :
              /\ Receipt(e, b2)
              /\ \/ /\ ~IsChunk(Head(wire[e]))
                    /\ b2 = [OnAck(buffer[e], Head(wire[e])) EXCEPT !.outs = <<>>]
                    /\ got' = [got EXCEPT ![e] = @ \o OnAck(buffer[e], Head(wire[e])).outs]
                 \/ /\ IsChunk(Head(wire[e]))
                    /\ b2 = [OnChunk(buffer[e], Head(wire[e])) EXCEPT !.outs = <<>>]
                    /\ got' = [got EXCEPT ![e] = @ \o OnChunk(buffer[e], Head(wire[e])).outs]
    BY <1>4, ReceiveStep
  <2>2. sent' = sent
    BY <2>1 DEF Receipt
  <2>3. CASE ~IsChunk(Head(wire[e]))
    <3>1. got' = got /\ Now(e)' = Now(e) /\ Now(Peer(e))' = Now(Peer(e))
      BY <2>1, <2>3, AckKeeps
    <3> QED
      BY <2>0, <2>2, <3>1, Stutter
  <2>4. CASE IsChunk(Head(wire[e]))
    <3> DEFINE f == Head(wire[e]).frame_id
    <3>1. Now(e)' = Now(e) /\ Heard(e, Peer(e), f)
      BY <2>1, <2>4, ChunkKeeps
    <3> HIDE DEF f
    <3>2. CASE Now(Peer(e))' = Now(Peer(e)) /\ got' = got
      BY <2>0, <2>2, <3>1, <3>2, Stutter
    <3>3. CASE ~(Now(Peer(e))' = Now(Peer(e)) /\ got' = got)
      <4>1. /\ f \in Now(Peer(e)) /\ Now(Peer(e))' = Now(Peer(e)) \ {f}
            /\ got' = [got EXCEPT ![e] = @ \o <<Whole(f, sent[Peer(e)][f + 1])>>]
            /\ \A g \in Now(Peer(e)) :
                   (Single(sent[Peer(e)][g + 1]) <=> Single(sent[Peer(e)][f + 1])) => f <= g
        BY <3>1, <3>3, Zenon DEF Heard
      <4>2. \E r \in Transit[Peer(e)] : Frames!FDeliver(Peer(e), e, r)
        BY <2>2, <3>1, <4>1, Delivers
      <4> QED
        BY <2>0, <4>2, Zenon DEF Frames!FNext, Transit
    <3> QED
      BY <3>2, <3>3
  <2> QED
    BY <2>3, <2>4
<1> QED
  BY <1>1, <1>2, <1>3, <1>4 DEF Next

(* The connection implements the channel of whole frames, however the      *)
(* chunks of the two ends interleave, whenever the limit holds them back,  *)
(* and whatever the lengths of the frames: push_frame's cutting and        *)
(* on_received's assembly lose, double, mix up and garble none, and keep   *)
(* the small frames and the big ones each in the order they were sent.     *)
THEOREM BufferImplementsFrames == Spec => WholeFramesInOrder
<1>1. Init => Frames!FInit
  BY StartFrames
<1>2. Inv /\ [Next]_vars => [Frames!FNext]_(Frames!fvars)
  BY StepFrames
<1> QED
  BY <1>1, <1>2, BufferInvariant, PTL DEF Spec, WholeFramesInOrder, Frames!FSpec

=============================================================================
