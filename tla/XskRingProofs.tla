--------------------------- MODULE XskRingProofs ---------------------------
(***************************************************************************)
(* The ring of xdp/umem.rs keeps its bounds and implements a bounded FIFO, *)
(* for every ring size, cursor width and set of values.                    *)
(***************************************************************************)
EXTENDS XskRing, SequenceTheorems, TLAPS

LEMMA WrapTypes ==
    ASSUME NEW a \in Cursors, NEW b \in Cursors
    PROVE  WrapAdd(a, b) \in Cursors /\ WrapSub(a, b) \in Cursors
BY RingAssumption DEF WrapAdd, WrapSub, Cursors

LEMMA IdxType ==
    ASSUME NEW c \in Cursors
    PROVE  Idx(c) \in 0 .. RingSize - 1
BY RingAssumption DEF Idx, Cursors

\* Euclidean division, as the provers know it.
LEMMA DivMod ==
    ASSUME NEW a \in Nat, NEW n \in Nat \ {0}
    PROVE  /\ a \div n \in Nat
           /\ a % n \in 0 .. n - 1
           /\ a = (n * (a \div n)) + (a % n)
OBVIOUS

\* A multiple of n strictly between -n and n is 0.
LEMMA SmallMultiple ==
    ASSUME NEW n \in Nat \ {0}, NEW x \in Int, NEW y \in Int, NEW d \in Int,
           d = (n * x) - (n * y), -n < d, d < n
    PROVE  d = 0
<1>1. CASE x = y
  BY <1>1
<1>2. CASE x > y
  <2>1. x - y \in Nat /\ x - y >= 1
    BY <1>2
  <2>2. n * (x - y) >= n
    BY <2>1
  <2> QED BY <2>2
<1>3. CASE x < y
  <2>1. y - x \in Nat /\ y - x >= 1
    BY <1>3
  <2>2. n * (y - x) >= n
    BY <2>1
  <2> QED BY <2>2
<1> QED BY <1>1, <1>2, <1>3

\* Cursors less than a ring apart never share a slot, also when the cursor
\* wraps between them: this is where the ring size must divide 2^32.
LEMMA IdxInjective ==
    ASSUME NEW c \in Cursors, NEW i \in 0 .. RingSize - 1, NEW j \in 0 .. RingSize - 1,
           Idx(WrapAdd(c, i)) = Idx(WrapAdd(c, j))
    PROVE  i = j
<1> DEFINE p == WrapAdd(c, i)
           q == WrapAdd(c, j)
           m == CursorMod \div RingSize
<1>1. p \in Nat /\ q \in Nat
  BY RingAssumption DEF WrapAdd, Cursors
<1>2. p = (RingSize * (p \div RingSize)) + (p % RingSize) /\ p \div RingSize \in Nat
  BY <1>1, RingAssumption, DivMod
<1>3. q = (RingSize * (q \div RingSize)) + (q % RingSize) /\ q \div RingSize \in Nat
  BY <1>1, RingAssumption, DivMod
<1>4. m \in Nat /\ CursorMod = RingSize * m
  <2>1. CursorMod = (RingSize * m) + (CursorMod % RingSize) /\ m \in Nat
    BY RingAssumption, DivMod
  <2> QED BY <2>1, RingAssumption
<1>5. \/ p - q = i - j
      \/ p - q = (i - j) + CursorMod
      \/ p - q = (i - j) - CursorMod
  <2>1. p = c + i \/ p = c + i - CursorMod
    BY DEF WrapAdd
  <2>2. q = c + j \/ q = c + j - CursorMod
    BY DEF WrapAdd
  <2>3. c \in Int /\ i \in Int /\ j \in Int /\ CursorMod \in Int
    BY RingAssumption DEF Cursors
  <2> HIDE DEF p, q
  <2> QED BY <2>1, <2>2, <2>3
<1> DEFINE x == p \div RingSize
           y == q \div RingSize
           r == p % RingSize
<1>6. p = (RingSize * x) + r /\ q = (RingSize * y) + r /\ r \in Nat
  <2>1. q % RingSize = r
    BY DEF Idx
  <2>2. r \in Nat
    BY <1>1, RingAssumption, DivMod
  <2> QED BY <1>2, <1>3, <2>1, <2>2
<1>7. x \in Nat /\ y \in Nat
  BY <1>2, <1>3
<1> HIDE DEF p, q, m, x, y, r
<1>8. p - q = (RingSize * x) - (RingSize * y)
  BY <1>6, <1>7, RingAssumption
<1>9. \E z \in Int : i - j = (RingSize * x) - (RingSize * z)
  <2>1. CASE p - q = i - j
    BY <2>1, <1>7, <1>8
  <2>2. CASE p - q = (i - j) + CursorMod
    <3>1. RingSize * (y + m) = (RingSize * y) + CursorMod /\ y + m \in Int
      BY <1>4, <1>7, RingAssumption
    <3>2. i - j = (RingSize * x) - (RingSize * (y + m))
      BY <2>2, <1>7, <1>8, <3>1, RingAssumption
    <3> QED BY <3>1, <3>2
  <2>3. CASE p - q = (i - j) - CursorMod
    <3>1. RingSize * (y - m) = (RingSize * y) - CursorMod /\ y - m \in Int
      BY <1>4, <1>7, RingAssumption
    <3>2. i - j = (RingSize * x) - (RingSize * (y - m))
      BY <2>3, <1>7, <1>8, <3>1, RingAssumption
    <3> QED BY <3>1, <3>2
  <2> QED BY <1>5, <2>1, <2>2, <2>3
<1>10. i - j = 0
  BY <1>7, <1>9, SmallMultiple, RingAssumption
<1> QED BY <1>10

-----------------------------------------------------------------------------
(* Walking along the ring.                                                  *)

LEMMA WrapAddAssoc ==
    ASSUME NEW c \in Cursors, NEW i \in Nat, NEW j \in Nat, i + j < CursorMod
    PROVE  /\ WrapAdd(c, i) \in Cursors
           /\ WrapAdd(WrapAdd(c, i), j) = WrapAdd(c, i + j)
BY RingAssumption DEF WrapAdd, Cursors

LEMMA OccupancyType ==
    ASSUME producer \in Cursors, consumer \in Cursors
    PROVE  /\ Occupancy \in Nat
           /\ Occupancy < CursorMod
           /\ producer = WrapAdd(consumer, Occupancy)
BY RingAssumption DEF Occupancy, WrapAdd, WrapSub, Cursors

LEMMA OccupancyAfterPut ==
    ASSUME producer \in Cursors, consumer \in Cursors, NEW n \in Nat,
           Occupancy + n <= RingSize
    PROVE  /\ WrapAdd(producer, n) \in Cursors
           /\ WrapSub(WrapAdd(producer, n), consumer) = Occupancy + n
BY RingAssumption DEF Occupancy, WrapAdd, WrapSub, Cursors

LEMMA OccupancyAfterTake ==
    ASSUME producer \in Cursors, consumer \in Cursors, NEW n \in Nat,
           n <= Occupancy
    PROVE  /\ WrapAdd(consumer, n) \in Cursors
           /\ WrapSub(producer, WrapAdd(consumer, n)) = Occupancy - n
BY RingAssumption DEF Occupancy, WrapAdd, WrapSub, Cursors

-----------------------------------------------------------------------------
LEMMA InitIInv == Init => IInv
BY RingAssumption
   DEF Init, IInv, TypeOK, RingBounds, ReadsPublished, WrittenInPlace,
       Occupancy, WrapSub, Cursors

LEMMA EnqStartIInv == IInv /\ EnqStart => IInv'
<1> SUFFICES ASSUME IInv, EnqStart PROVE IInv'
  OBVIOUS
<1> USE DEF IInv, EnqStart
<1>1. PICK addrs \in Batches :
        batch' = SubSeq(addrs, 1, IF Len(addrs) <= Free THEN Len(addrs) ELSE Free)
  OBVIOUS
<1>2. addrs \in Seq(Values) /\ Len(addrs) \in Nat
  BY DEF Batches
<1>3. Occupancy \in Nat /\ Free \in Nat /\ Occupancy + Free = RingSize
  BY OccupancyType, RingAssumption DEF TypeOK, RingBounds, Free
<1>4. batch' \in Seq(Values) /\ Len(batch') <= Free /\ Len(batch') \in Nat
  BY <1>1, <1>2, <1>3
<1>5. Occupancy' = Occupancy
  BY DEF Occupancy
<1>6. TypeOK'
  BY <1>4 DEF TypeOK, deqVars
<1>7. RingBounds'
  BY <1>3, <1>4, <1>5 DEF RingBounds, deqVars, TypeOK
<1>8. ReadsPublished'
  BY DEF ReadsPublished, deqVars
<1>9. WrittenInPlace'
  BY DEF WrittenInPlace
<1> QED BY <1>6, <1>7, <1>8, <1>9

\* The slot written lies past the producer cursor, so it is neither one of the
\* live slots nor one already written.
LEMMA WriteBeyondLive ==
    ASSUME IInv, EnqWrite
    PROVE  /\ slots' \in [0 .. RingSize - 1 -> Values]
           /\ \A k \in 0 .. Occupancy + written - 1 :
                slots'[Idx(WrapAdd(consumer, k))] = slots[Idx(WrapAdd(consumer, k))]
           /\ slots'[Idx(WrapAdd(consumer, Occupancy + written))] = batch[written + 1]
           /\ Occupancy + written < RingSize
<1> USE DEF IInv, EnqWrite
<1> DEFINE w == Idx(WrapAdd(producer, written))
<1>1. /\ Occupancy \in Nat /\ written \in Nat /\ Len(batch) \in Nat
      /\ Occupancy + written < RingSize
      /\ producer = WrapAdd(consumer, Occupancy)
  BY OccupancyType, RingAssumption DEF TypeOK, RingBounds
<1>2. WrapAdd(producer, written) = WrapAdd(consumer, Occupancy + written)
  BY <1>1, WrapAddAssoc, RingAssumption DEF TypeOK
<1>3. w \in 0 .. RingSize - 1
  BY <1>1, WrapAddAssoc, IdxType, RingAssumption DEF TypeOK
<1>4. batch[written + 1] \in Values
  BY <1>1 DEF TypeOK
<1>5. slots' = [slots EXCEPT ![w] = batch[written + 1]]
  OBVIOUS
<1>6. ASSUME NEW k \in 0 .. Occupancy + written - 1
      PROVE  /\ Idx(WrapAdd(consumer, k)) # w
             /\ Idx(WrapAdd(consumer, k)) \in 0 .. RingSize - 1
  <2>1. k \in 0 .. RingSize - 1 /\ Occupancy + written \in 0 .. RingSize - 1 /\ k # Occupancy + written
    BY <1>1, RingAssumption
  <2>2. WrapAdd(consumer, k) \in Cursors
    BY <2>1, WrapAddAssoc, RingAssumption DEF TypeOK
  <2> QED BY <1>2, <2>1, <2>2, IdxInjective, IdxType DEF TypeOK
<1> HIDE DEF w
<1>7. slots'[w] = batch[written + 1] /\ slots' \in [0 .. RingSize - 1 -> Values]
  BY <1>3, <1>4, <1>5 DEF TypeOK
<1>8. \A k \in 0 .. Occupancy + written - 1 :
         slots'[Idx(WrapAdd(consumer, k))] = slots[Idx(WrapAdd(consumer, k))]
  BY <1>3, <1>5, <1>6 DEF TypeOK
<1> QED BY <1>1, <1>2, <1>7, <1>8 DEF w

LEMMA EnqWriteIInv == IInv /\ EnqWrite => IInv'
<1> SUFFICES ASSUME IInv, EnqWrite PROVE IInv'
  OBVIOUS
<1> USE DEF IInv, EnqWrite
<1>1. /\ Occupancy \in Nat /\ written \in Nat /\ Len(batch) \in Nat /\ Len(out) \in Nat
      /\ producer = WrapAdd(consumer, Occupancy)
      /\ Occupancy' = Occupancy
  BY OccupancyType, RingAssumption DEF TypeOK, Occupancy
<1>2. TypeOK'
  BY WriteBeyondLive, <1>1 DEF TypeOK, deqVars
<1>3. RingBounds'
  BY <1>1 DEF RingBounds, deqVars
<1>4. ReadsPublished'
  <2> SUFFICES ASSUME NEW k \in 1..Len(out)
               PROVE  out[k] = slots'[Idx(WrapAdd(consumer, k - 1))]
    BY DEF ReadsPublished, deqVars
  <2>1. k - 1 \in 0 .. Occupancy + written - 1
    BY <1>1 DEF TypeOK, RingBounds
  <2> QED BY <2>1, WriteBeyondLive DEF ReadsPublished
<1>5. WrittenInPlace'
  <2> SUFFICES ASSUME NEW k \in 1 .. written + 1
               PROVE  slots'[Idx(WrapAdd(producer, k - 1))] = batch[k]
    BY DEF WrittenInPlace
  <2>1. WrapAdd(producer, k - 1) = WrapAdd(consumer, Occupancy + (k - 1))
    BY <1>1, WrapAddAssoc, WriteBeyondLive, RingAssumption DEF TypeOK
  <2>2. CASE k = written + 1
    BY <1>1, <2>1, <2>2, WriteBeyondLive
  <2>3. CASE k \in 1..written
    <3>1. Occupancy + (k - 1) \in 0 .. Occupancy + written - 1
      BY <1>1, <2>3
    <3> QED BY <2>1, <2>3, <3>1, WriteBeyondLive DEF WrittenInPlace
  <2> QED BY <1>1, <2>2, <2>3
<1> QED BY <1>2, <1>3, <1>4, <1>5

LEMMA EnqPublishIInv == IInv /\ EnqPublish => IInv'
<1> SUFFICES ASSUME IInv, EnqPublish PROVE IInv'
  OBVIOUS
<1> USE DEF IInv, EnqPublish
<1>1. /\ Occupancy \in Nat /\ Len(batch) \in Nat
      /\ WrapAdd(producer, Len(batch)) \in Cursors
      /\ Occupancy' = Occupancy + Len(batch)
  BY OccupancyType, OccupancyAfterPut DEF TypeOK, RingBounds, Occupancy
<1>2. TypeOK'
  BY <1>1 DEF TypeOK, deqVars
<1>3. RingBounds'
  BY <1>1 DEF TypeOK, RingBounds, deqVars
<1>4. ReadsPublished'
  BY DEF ReadsPublished, deqVars
<1>5. WrittenInPlace'
  BY DEF WrittenInPlace
<1> QED BY <1>2, <1>3, <1>4, <1>5

LEMMA DeqStartIInv == IInv /\ DeqStart => IInv'
<1> SUFFICES ASSUME IInv, DeqStart PROVE IInv'
  OBVIOUS
<1> USE DEF IInv, DeqStart
<1>1. Occupancy \in Nat /\ Occupancy' = Occupancy
  BY OccupancyType DEF TypeOK, Occupancy
<1>2. TypeOK'
  BY <1>1 DEF TypeOK, enqVars
<1>3. RingBounds'
  BY <1>1 DEF TypeOK, RingBounds, enqVars
<1>4. ReadsPublished'
  BY DEF ReadsPublished
<1>5. WrittenInPlace'
  BY DEF WrittenInPlace, enqVars
<1> QED BY <1>2, <1>3, <1>4, <1>5

LEMMA DeqReadIInv == IInv /\ DeqRead => IInv'
<1> SUFFICES ASSUME IInv, DeqRead PROVE IInv'
  OBVIOUS
<1> USE DEF IInv, DeqRead, ReadSlot
<1>1. Occupancy \in Nat /\ Occupancy' = Occupancy /\ Len(out) \in Nat
  BY OccupancyType DEF TypeOK, Occupancy
<1>2. slots[Idx(WrapAdd(consumer, Len(out)))] \in Values
  <2>1. WrapAdd(consumer, Len(out)) \in Cursors
    BY <1>1, WrapAddAssoc, RingAssumption DEF TypeOK, RingBounds
  <2> QED BY <2>1, IdxType DEF TypeOK
<1>3. TypeOK'
  BY <1>1, <1>2 DEF TypeOK, enqVars
<1>4. RingBounds'
  BY <1>1 DEF TypeOK, RingBounds, enqVars
<1>5. ReadsPublished'
  <2> DEFINE v == slots[Idx(WrapAdd(consumer, Len(out)))]
  <2>1. /\ out' = Append(out, v) /\ Len(out') = Len(out) + 1
        /\ \A k \in 1..Len(out) : out'[k] = out[k]
        /\ out'[Len(out) + 1] = v
    BY <1>1, <1>2 DEF TypeOK
  <2> SUFFICES ASSUME NEW k \in 1 .. Len(out) + 1
               PROVE  out'[k] = slots[Idx(WrapAdd(consumer, k - 1))]
    BY <2>1 DEF ReadsPublished
  <2>2. CASE k = Len(out) + 1
    <3>1. k - 1 = Len(out)
      BY <1>1, <2>2
    <3> QED BY <2>1, <2>2, <3>1
  <2>3. CASE k \in 1..Len(out)
    BY <2>1, <2>3 DEF ReadsPublished
  <2> QED BY <1>1, <2>2, <2>3
<1>6. WrittenInPlace'
  BY DEF WrittenInPlace, enqVars
<1> QED BY <1>3, <1>4, <1>5, <1>6

LEMMA DeqPublishIInv == IInv /\ DeqPublish => IInv'
<1> SUFFICES ASSUME IInv, DeqPublish PROVE IInv'
  OBVIOUS
<1> USE DEF IInv, DeqPublish
<1>1. /\ Occupancy \in Nat /\ avail \in Nat /\ avail <= Occupancy
      /\ WrapAdd(consumer, avail) \in Cursors
      /\ Occupancy' = Occupancy - avail
  BY OccupancyType, OccupancyAfterTake DEF TypeOK, RingBounds, Occupancy
<1>2. TypeOK'
  BY <1>1 DEF TypeOK, enqVars
<1>3. RingBounds'
  BY <1>1, RingAssumption DEF TypeOK, RingBounds, enqVars
<1>4. ReadsPublished'
  BY DEF ReadsPublished
<1>5. WrittenInPlace'
  BY DEF WrittenInPlace, enqVars
<1> QED BY <1>2, <1>3, <1>4, <1>5

LEMMA NextIInv == IInv /\ [Next]_vars => IInv'
<1> SUFFICES ASSUME IInv, [Next]_vars PROVE IInv'
  OBVIOUS
<1>1. CASE Next
  BY <1>1, EnqStartIInv, EnqWriteIInv, EnqPublishIInv, DeqStartIInv, DeqReadIInv,
     DeqPublishIInv DEF Next
<1>2. CASE UNCHANGED vars
  BY <1>2 DEF vars, IInv, TypeOK, RingBounds, ReadsPublished, WrittenInPlace, Occupancy
<1> QED BY <1>1, <1>2

\* The inductive invariant holds in every reachable state of the ring.
THEOREM RingInvariant == Spec => []IInv
BY InitIInv, NextIInv, PTL DEF Spec

\* The cursors stay u32 and the ends in their states, for every ring size and
\* cursor width (umem.rs:88-202).
THEOREM TypeCorrect == Spec => []TypeOK
<1>1. IInv => TypeOK
  BY DEF IInv
<1> QED BY <1>1, RingInvariant, PTL

\* umem.rs never lets the cursors drift further apart than the ring is long,
\* whatever the ring size, the cursor width and the interleaving of the ends.
THEOREM RingBoundsAlways == Spec => []RingBounds
<1>1. IInv => RingBounds
  BY DEF IInv
<1> QED BY <1>1, RingInvariant, PTL

\* No slot counted as available is reused before dequeue_all or consume_rx
\* has copied it.
THEOREM ReadsPublishedAlways == Spec => []ReadsPublished
<1>1. IInv => ReadsPublished
  BY DEF IInv
<1> QED BY <1>1, RingInvariant, PTL

-----------------------------------------------------------------------------
(* Refinement: the live window of the slots is the abstract queue.          *)

LEMMA LiveProperties ==
    ASSUME IInv
    PROVE  /\ Occupancy \in 0..RingSize
           /\ Live \in Seq(Values)
           /\ Len(Live) = Occupancy
           /\ \A k \in 1..Occupancy : Live[k] = slots[Idx(WrapAdd(consumer, k - 1))]
<1>1. Occupancy \in 0..RingSize
  BY OccupancyType, RingAssumption DEF IInv, TypeOK, RingBounds
<1>2. \A k \in 1..Occupancy : slots[Idx(WrapAdd(consumer, k - 1))] \in Values
  <2> TAKE k \in 1..Occupancy
  <2>1. k - 1 \in Nat /\ k - 1 < CursorMod
    BY <1>1, RingAssumption
  <2>2. WrapAdd(consumer, k - 1) \in Cursors
    BY <2>1, WrapAddAssoc DEF IInv, TypeOK
  <2> QED BY <2>2, IdxType DEF IInv, TypeOK
<1> QED BY <1>1, <1>2 DEF Live

\* What a write past the producer cursor, or a step that moves no cursor, does
\* to the abstract queue: nothing.
LEMMA LiveUnchanged ==
    ASSUME UNCHANGED <<producer, consumer>>,
           \A k \in 1..Occupancy :
               slots'[Idx(WrapAdd(consumer, k - 1))] = slots[Idx(WrapAdd(consumer, k - 1))]
    PROVE  Live' = Live
BY DEF Live, Occupancy

\* A concatenation given element by element.
LEMMA ConcatByElements ==
    ASSUME NEW s \in Seq(Values), NEW t \in Seq(Values), NEW f \in Seq(Values),
           Len(f) = Len(s) + Len(t),
           \A k \in 1..Len(s) : f[k] = s[k],
           \A k \in 1..Len(t) : f[Len(s) + k] = t[k]
    PROVE  f = s \o t
<1> DEFINE m == Len(s)
           n == Len(t)
           u == s \o t
<1>1. m \in Nat /\ n \in Nat
  OBVIOUS
<1>2. \A k \in 1 .. m + n : u[k] = IF k <= m THEN s[k] ELSE t[k - m]
  BY ConcatProperties
<1>3. u \in Seq(Values) /\ Len(u) = m + n
  BY ConcatProperties
<1> HIDE DEF m, n, u
<1>4. \A k \in 1 .. m + n : f[k] = u[k]
  <2> TAKE k \in 1 .. m + n
  <2>1. CASE k <= m
    <3>1. k \in 1..m
      BY <1>1, <2>1
    <3> QED BY <1>2, <2>1, <3>1 DEF m
  <2>2. CASE ~(k <= m)
    <3>1. k - m \in 1..n /\ k = m + (k - m)
      BY <1>1, <2>2
    <3> QED BY <1>2, <2>2, <3>1 DEF m, n
  <2> QED BY <2>1, <2>2
<1>5. Len(f) = m + n
  BY DEF m, n
<1>6. f = u
  BY <1>3, <1>4, <1>5, SeqEqual
<1> QED BY <1>6 DEF u

LEMMA EnqPublishIsPut == IInv /\ EnqPublish => Fifo!Put
<1> SUFFICES ASSUME IInv, EnqPublish PROVE Fifo!Put
  OBVIOUS
<1>1. /\ Occupancy \in 0..RingSize /\ Len(batch) \in Nat /\ batch \in Seq(Values)
      /\ Occupancy + Len(batch) <= RingSize
      /\ producer = WrapAdd(consumer, Occupancy)
      /\ Occupancy' = Occupancy + Len(batch)
  BY LiveProperties, OccupancyType, OccupancyAfterPut
     DEF IInv, TypeOK, RingBounds, Occupancy, EnqPublish
<1>2. IInv'
  BY EnqPublishIInv
<1>3. /\ Live \in Seq(Values) /\ Len(Live) = Occupancy
      /\ \A k \in 1..Occupancy : Live[k] = slots[Idx(WrapAdd(consumer, k - 1))]
  BY LiveProperties
<1>4. /\ Live' = [k \in 1 .. Occupancy + Len(batch) |-> slots[Idx(WrapAdd(consumer, k - 1))]]
      /\ \A k \in 1 .. Occupancy + Len(batch) :
            Live'[k] = slots[Idx(WrapAdd(consumer, k - 1))]
  BY <1>1 DEF Live, EnqPublish
<1>5. \A k \in 1..Len(batch) : Live'[Occupancy + k] = batch[k]
  <2> TAKE k \in 1..Len(batch)
  <2>1. WrapAdd(producer, k - 1) = WrapAdd(consumer, Occupancy + (k - 1))
    BY <1>1, WrapAddAssoc, RingAssumption DEF IInv, TypeOK
  <2>2. slots[Idx(WrapAdd(producer, k - 1))] = batch[k]
    BY DEF IInv, WrittenInPlace, EnqPublish
  <2>3. Occupancy + k \in 1 .. Occupancy + Len(batch) /\ (Occupancy + k) - 1 = Occupancy + (k - 1)
    BY <1>1
  <2> QED BY <1>4, <2>1, <2>2, <2>3
<1>6. Live' = Live \o batch
  <2> DEFINE f == Live'
             g == Live
  <2>1. \A k \in 1..Occupancy : f[k] = g[k]
    BY <1>1, <1>3, <1>4
  <2>2. \A k \in 1 .. Occupancy + Len(batch) : f[k] \in Values
    <3> TAKE k \in 1 .. Occupancy + Len(batch)
    <3>1. CASE k \in 1..Occupancy
      BY <1>3, <2>1, <3>1
    <3>2. CASE k \notin 1..Occupancy
      <4>1. k - Occupancy \in 1..Len(batch) /\ k = Occupancy + (k - Occupancy)
        BY <1>1, <3>2
      <4>2. batch[k - Occupancy] \in Values
        BY <1>1, <4>1, ElementOfSeq
      <4>3. f[Occupancy + (k - Occupancy)] = batch[k - Occupancy]
        BY <1>5, <4>1
      <4> HIDE DEF f
      <4> QED BY <4>1, <4>2, <4>3
    <3> QED BY <3>1, <3>2
  <2>3. f \in Seq(Values) /\ Len(f) = Occupancy + Len(batch)
    BY <1>1, <1>4, <2>2
  <2>4. g \in Seq(Values) /\ batch \in Seq(Values) /\ Len(g) = Occupancy
    BY <1>1, <1>3
  <2>5. \A k \in 1..Len(batch) : f[Occupancy + k] = batch[k]
    BY <1>5
  <2> HIDE DEF f, g
  <2>6. f = g \o batch
    BY <2>1, <2>3, <2>4, <2>5, ConcatByElements
  <2> QED BY <2>6 DEF f, g
<1>7. batch \in Fifo!Batches
  <2>1. batch \in [1..Len(batch) -> Values]
    BY <1>1, LenProperties
  <2>2. Len(batch) \in 0..RingSize
    BY <1>1, RingAssumption
  <2> QED BY <2>1, <2>2 DEF Fifo!Batches
<1> QED BY <1>1, <1>3, <1>6, <1>7 DEF Fifo!Put, EnqPublish, deqVars

LEMMA DeqPublishIsTake == IInv /\ DeqPublish => Fifo!Take
<1> SUFFICES ASSUME IInv, DeqPublish PROVE Fifo!Take
  OBVIOUS
<1>1. /\ Occupancy \in 0..RingSize /\ avail \in Nat /\ avail <= Occupancy
      /\ out \in Seq(Values) /\ Len(out) = avail
      /\ Occupancy' = Occupancy - avail
  BY LiveProperties, OccupancyAfterTake
     DEF IInv, TypeOK, RingBounds, Occupancy, DeqPublish
<1>2. /\ Live \in Seq(Values) /\ Len(Live) = Occupancy
      /\ \A k \in 1..Occupancy : Live[k] = slots[Idx(WrapAdd(consumer, k - 1))]
  BY LiveProperties
<1>3. got' = SubSeq(Live, 1, avail)
  <2>1. \A k \in 1..avail : out[k] = Live[k]
    BY <1>1, <1>2 DEF IInv, ReadsPublished
  <2>2. got' = out
    BY DEF DeqPublish
  <2> QED BY <1>1, <1>2, <2>1, <2>2
<1>4. Live' = [k \in 1 .. Occupancy - avail |-> slots[Idx(WrapAdd(WrapAdd(consumer, avail), k - 1))]]
  BY <1>1 DEF Live, DeqPublish
<1>5. \A k \in 1 .. Occupancy - avail :
         slots[Idx(WrapAdd(WrapAdd(consumer, avail), k - 1))] = Live[avail + k]
  <2> TAKE k \in 1 .. Occupancy - avail
  <2>1. WrapAdd(WrapAdd(consumer, avail), k - 1) = WrapAdd(consumer, avail + (k - 1))
    BY <1>1, WrapAddAssoc, RingAssumption DEF IInv, TypeOK
  <2>2. avail + k \in 1..Occupancy /\ (avail + k) - 1 = avail + (k - 1)
    BY <1>1
  <2> QED BY <1>2, <2>1, <2>2
<1>6. Live' = SubSeq(Live, avail + 1, Len(Live))
  <2>1. Live' = [k \in 1 .. Occupancy - avail |-> Live[avail + k]]
    BY <1>4, <1>5
  <2>2. SubSeq(Live, avail + 1, Occupancy) \in Seq(Values)
    BY <1>1, <1>2
  <2> QED BY <1>1, <1>2, <2>1
<1> QED BY <1>1, <1>2, <1>3, <1>6 DEF Fifo!Take

\* xdp/umem.rs implements a bounded FIFO queue: whatever is enqueued comes out
\* once, in order and unaltered, for every ring size that divides the cursor
\* range, across every wrap of the cursors and every interleaving of the ends.
THEOREM RingRefinesFifo == Spec => RefinesFifo
<1>1. Init => Fifo!Init
  BY RingAssumption DEF Init, Fifo!Init, Live, Occupancy, WrapSub
<1>2. IInv /\ [Next]_vars => [Fifo!Next]_Fifo!vars
  <2> SUFFICES ASSUME IInv, [Next]_vars PROVE [Fifo!Next]_Fifo!vars
    OBVIOUS
  <2>1. CASE EnqPublish
    BY <2>1, EnqPublishIsPut DEF Fifo!Next
  <2>2. CASE DeqPublish
    BY <2>2, DeqPublishIsTake DEF Fifo!Next
  <2>3. CASE EnqWrite
    <3>1. \A k \in 1..Occupancy :
            slots'[Idx(WrapAdd(consumer, k - 1))] = slots[Idx(WrapAdd(consumer, k - 1))]
      <4> TAKE k \in 1..Occupancy
      <4>1. k - 1 \in 0 .. Occupancy + written - 1
        BY LiveProperties DEF IInv, TypeOK
      <4> QED BY <2>3, <4>1, WriteBeyondLive
    <3> QED BY <2>3, <3>1, LiveUnchanged DEF EnqWrite, deqVars, Fifo!vars
  <2>4. CASE EnqStart \/ DeqStart \/ DeqRead \/ UNCHANGED vars
    <3>1. UNCHANGED <<producer, consumer, slots, got>>
      BY <2>4 DEF EnqStart, DeqStart, DeqRead, ReadSlot, vars, deqVars
    <3> QED BY <3>1, LiveUnchanged DEF Fifo!vars
  <2> QED BY <2>1, <2>2, <2>3, <2>4 DEF Next
<1> QED BY <1>1, <1>2, RingInvariant, PTL DEF Spec, RefinesFifo, Fifo!Spec
=============================================================================
