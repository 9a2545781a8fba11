-------------------------- MODULE UdpServerProofs --------------------------
(***************************************************************************)
(* The socket UDP server counts every datagram it is handed and, for       *)
(* clients whose stream ids differ, exactly the loss between the datagrams *)
(* its workers see, for every number of workers, flows and datagrams, also *)
(* while the kernel moves flows to sockets that are just being bound.      *)
(***************************************************************************)
EXTENDS UdpServer, DistinctSeqs

W == 1..Workers

\* While sockets are being bound, one is missing.
BindInv == mpc = "binding" => bound < Workers

-----------------------------------------------------------------------------
LEMMA Bounds ==
    /\ Workers \in Nat \ {0} /\ QueueSize \in Nat \ {0} /\ Batch \in Nat \ {0}
    /\ MaxSeq \in Nat /\ MaxDatagrams \in Nat
BY ServerAssumption

LEMMA InitType == Init => TypeOK /\ BindInv
<1> SUFFICES ASSUME Init PROVE TypeOK /\ BindInv
  OBVIOUS
<1> USE ServerAssumption DEF Init
<1>1. << >> \in Seq(Datagrams) /\ Len(<< >>) = 0
  BY EmptySeq
<1>2. /\ queue \in [1..Workers -> Seq(Datagrams)] /\ batch \in [1..Workers -> Seq(Datagrams)]
      /\ handled \in [1..Workers -> SUBSET Datagrams] /\ next \in [Flows -> 0..MaxSeq]
  BY <1>1
<1>3. \A w \in 1..Workers : Len(queue[w]) = 0 /\ Len(batch[w]) = 0 /\ DOMAIN lastSeq[w] = {}
  BY <1>1
<1> QED BY <1>2, <1>3 DEF TypeOK, BindInv

\* The datagrams a step of recvmmsg takes, and those it leaves.
LEMMA RecvParts ==
    ASSUME TypeOK, NEW w \in W, Recv(w)
    PROVE  \E k \in Nat :
             /\ k <= Batch /\ k <= Len(queue[w])
             /\ batch'[w] \in Seq(Datagrams) /\ Len(batch'[w]) = k
             /\ queue'[w] \in Seq(Datagrams) /\ Len(queue'[w]) = Len(queue[w]) - k
             /\ \A i \in 1..k : batch'[w][i] = queue[w][i]
             /\ \A i \in 1 .. Len(queue[w]) - k : queue'[w][i] = queue[w][k + i]
             /\ \A v \in W \ {w} : batch'[v] = batch[v] /\ queue'[v] = queue[v]
             /\ batch' \in [W -> Seq(Datagrams)] /\ queue' \in [W -> Seq(Datagrams)]
<1> DEFINE q == queue[w]
           k == Lower(Batch, Len(q))
           front == SubSeq(q, 1, k)
           rest == SubSeq(q, k + 1, Len(q))
<1>1. q \in Seq(Datagrams) /\ Len(q) \in Nat /\ Batch \in Nat
  BY ServerAssumption, LenProperties DEF TypeOK, W
<1>2. k \in Nat /\ k <= Batch /\ k <= Len(q)
  BY <1>1 DEF Lower
<1>3. \A i \in 1..Len(q) : q[i] \in Datagrams
  BY <1>1, ElementOfSeq
<1>4. batch' = [batch EXCEPT ![w] = front] /\ queue' = [queue EXCEPT ![w] = rest]
  BY DEF Recv
<1> HIDE DEF q, k
<1>5. /\ front \in Seq(Datagrams) /\ Len(front) = k
      /\ \A i \in 1..k : front[i] = q[i]
  <2>1. \A i \in 1..k : q[i] \in Datagrams
    BY <1>1, <1>2, <1>3
  <2>2. /\ front \in Seq(Datagrams) /\ Len(front) = IF 1 <= k THEN k - 1 + 1 ELSE 0
        /\ \A i \in 1 .. k - 1 + 1 : front[i] = q[1 + i - 1]
    BY <1>2, <2>1, SubSeqProperties
  <2> HIDE DEF front
  <2> QED BY <1>2, <2>2
<1>6. /\ rest \in Seq(Datagrams) /\ Len(rest) = Len(q) - k
      /\ \A i \in 1 .. Len(q) - k : rest[i] = q[k + i]
  <2>1. k + 1 \in Int /\ Len(q) \in Int /\ \A i \in k + 1 .. Len(q) : q[i] \in Datagrams
    BY <1>1, <1>2, <1>3
  <2>2. /\ rest \in Seq(Datagrams) /\ Len(rest) = IF k + 1 <= Len(q) THEN Len(q) - (k + 1) + 1 ELSE 0
        /\ \A i \in 1 .. Len(q) - (k + 1) + 1 : rest[i] = q[k + 1 + i - 1]
    BY <2>1, SubSeqProperties
  <2> HIDE DEF rest
  <2> QED BY <1>1, <1>2, <2>2
<1> HIDE DEF front, rest
<1>7. /\ batch'[w] = front /\ queue'[w] = rest
      /\ \A v \in W \ {w} : batch'[v] = batch[v] /\ queue'[v] = queue[v]
      /\ batch' \in [W -> Seq(Datagrams)] /\ queue' \in [W -> Seq(Datagrams)]
  BY <1>4, <1>5, <1>6 DEF TypeOK, W
<1> QED BY <1>2, <1>5, <1>6, <1>7 DEF q

LEMMA RecvType == ASSUME TypeOK, BindInv, NEW w \in W, Recv(w) PROVE TypeOK' /\ BindInv'
<1>1. PICK k \in Nat :
        /\ k <= Batch /\ k <= Len(queue[w])
        /\ Len(batch'[w]) = k /\ Len(queue'[w]) = Len(queue[w]) - k
        /\ \A v \in W \ {w} : batch'[v] = batch[v] /\ queue'[v] = queue[v]
        /\ batch' \in [W -> Seq(Datagrams)] /\ queue' \in [W -> Seq(Datagrams)]
  BY RecvParts
<1>2. UNCHANGED <<mpc, bound, lastSeq, packets, drops, next, lost, handled>>
  BY DEF Recv
<1>3. Len(queue[w]) \in Nat /\ QueueSize \in Nat
  BY ServerAssumption, LenProperties DEF TypeOK, W
<1>4. ASSUME NEW v \in W PROVE Len(queue'[v]) <= QueueSize /\ Len(batch'[v]) <= Batch
  <2>1. Len(queue[v]) <= QueueSize /\ Len(batch[v]) <= Batch
    BY DEF TypeOK, W
  <2>2. CASE v = w
    BY <1>1, <1>3, <2>1, <2>2
  <2>3. CASE v # w
    BY <1>1, <2>1, <2>3
  <2> QED BY <2>2, <2>3
<1> QED BY <1>1, <1>2, <1>4 DEF TypeOK, BindInv, W

LEMMA ProcessType == ASSUME TypeOK, BindInv, NEW w \in W, Process(w) PROVE TypeOK' /\ BindInv'
<1> DEFINE d == Head(batch[w])
           sid == SidOf[d.flow]
<1>1. /\ batch[w] # << >> /\ batch' = [batch EXCEPT ![w] = Tail(@)]
      /\ handled' = [handled EXCEPT ![w] = @ \cup {d}] /\ packets' = packets + 1
      /\ UNCHANGED <<mpc, bound, queue, next, lost>>
      /\ \/ sid = NoHeader /\ UNCHANGED <<drops, lastSeq>>
         \/ /\ sid # NoHeader /\ drops' = drops + Gap(lastSeq[w], sid, d.seq)
            /\ lastSeq' = [lastSeq EXCEPT ![w] = LastSeqInsert(@, sid, d.seq)]
  BY DEF Process
<1>2. /\ batch[w] \in Seq(Datagrams) /\ d \in Datagrams
      /\ Tail(batch[w]) \in Seq(Datagrams) /\ Len(Tail(batch[w])) = Len(batch[w]) - 1
      /\ Len(batch[w]) \in Nat
  BY <1>1, HeadTailProperties, LenProperties DEF TypeOK, W
<1> HIDE DEF d, sid
<1>3. batch' \in [W -> Seq(Datagrams)] /\ handled' \in [W -> SUBSET Datagrams]
  BY <1>1, <1>2 DEF TypeOK, W
<1>4. \A v \in W : Len(batch'[v]) <= Batch
  BY <1>1, <1>2, ServerAssumption DEF TypeOK, W
<1>5. d.seq \in 0 .. MaxSeq - 1 /\ d.seq \in Nat
  BY <1>2, ServerAssumption DEF Datagrams
<1>6. drops' \in Nat
  <2>1. \A s \in DOMAIN lastSeq[w] : lastSeq[w][s] \in Nat
    BY ServerAssumption DEF TypeOK, W
  <2>2. Gap(lastSeq[w], sid, d.seq) \in Nat
    BY <1>5, <2>1 DEF Gap
  <2> QED BY <1>1, <2>2 DEF TypeOK
<1>7. DOMAIN lastSeq' = W /\ \A v \in W : \A s \in DOMAIN lastSeq'[v] : lastSeq'[v][s] \in 0 .. MaxSeq - 1
  <2>1. CASE UNCHANGED lastSeq
    BY <2>1 DEF TypeOK, W
  <2>2. CASE lastSeq' = [lastSeq EXCEPT ![w] = LastSeqInsert(@, sid, d.seq)]
    BY <1>5, <2>2 DEF TypeOK, W, LastSeqInsert
  <2> QED BY <1>1, <2>1, <2>2
<1> QED BY <1>1, <1>3, <1>4, <1>6, <1>7 DEF TypeOK, BindInv, W

LEMMA DeliverParts ==
    ASSUME TypeOK, NEW f \in Flows, Deliver(f)
    PROVE  /\ bound \in 1..Workers /\ RouteOf[f][bound] \in W
           /\ Len(queue[RouteOf[f][bound]]) < QueueSize
           /\ queue' = [queue EXCEPT ![RouteOf[f][bound]] = Append(@, Datagram(f))]
           /\ UNCHANGED <<mpc, bound, batch, lastSeq, packets, drops, lost, handled>>
<1>1. bound \in 1..Workers /\ Workers \in Nat
  BY Bounds DEF Deliver, TypeOK
<1>2. RouteOf[f][bound] \in 1..bound
  BY <1>1, ServerAssumption
<1>3. RouteOf[f][bound] \in W
  BY <1>1, <1>2 DEF W
<1> QED BY <1>1, <1>3 DEF Deliver

LEMMA NetType ==
    ASSUME TypeOK, BindInv, NEW f \in Flows, Deliver(f) \/ Lose(f)
    PROVE  TypeOK' /\ BindInv' /\ Datagram(f) \in Datagrams
<1>1. /\ next[f] < MaxSeq /\ next[f] \in Nat /\ next' = [next EXCEPT ![f] = @ + 1] /\ MaxSeq \in Nat
  BY ServerAssumption DEF Deliver, Lose, TypeOK
<1>2. Datagram(f) \in Datagrams /\ next' \in [Flows -> 0..MaxSeq]
  BY <1>1 DEF Datagram, Datagrams, TypeOK
<1>3. CASE Lose(f)
  BY <1>2, <1>3 DEF Lose, serverVars, TypeOK, BindInv
<1>4. CASE Deliver(f)
  <2> DEFINE w == RouteOf[f][bound]
  <2>1. /\ Len(queue[w]) < QueueSize
        /\ queue' = [queue EXCEPT ![w] = Append(@, Datagram(f))]
        /\ UNCHANGED <<mpc, bound, batch, lastSeq, packets, drops, lost, handled>>
    BY <1>4, DeliverParts
  <2>2. w \in W
    BY <1>4, DeliverParts
  <2> HIDE DEF w
  <2>3. Len(queue[w]) \in Nat /\ QueueSize \in Nat /\ Append(queue[w], Datagram(f)) \in Seq(Datagrams)
        /\ Len(Append(queue[w], Datagram(f))) = Len(queue[w]) + 1
    BY <1>2, <2>2, ServerAssumption, AppendProperties, LenProperties DEF TypeOK, W
  <2>4. queue' \in [W -> Seq(Datagrams)] /\ \A v \in W : Len(queue'[v]) <= QueueSize
    BY <2>1, <2>2, <2>3 DEF TypeOK, W
  <2> QED BY <1>2, <2>1, <2>4 DEF TypeOK, BindInv, W
<1> QED BY <1>2, <1>3, <1>4

LEMMA NextType == TypeOK /\ BindInv /\ [Next]_vars => TypeOK' /\ BindInv'
<1> SUFFICES ASSUME TypeOK, BindInv, [Next]_vars PROVE TypeOK' /\ BindInv'
  OBVIOUS
<1>1. CASE Bind
  BY <1>1, ServerAssumption DEF Bind, TypeOK, BindInv
<1>2. CASE BindFails
  BY <1>2 DEF BindFails, TypeOK, BindInv
<1>3. CASE UNCHANGED vars
  BY <1>3 DEF vars, TypeOK, BindInv
<1> QED BY <1>1, <1>2, <1>3, RecvType, ProcessType, NetType DEF Next, Finished, W

\* The main thread, the sockets and the workers stay in their ranges: no queue,
\* batch or map of last numbers grows past its bound (net.rs:388-471).
THEOREM TypeCorrect == Spec => []TypeOK
BY InitType, NextType, PTL DEF Spec
-----------------------------------------------------------------------------
(* Every datagram is counted.                                               *)

LEMMA FiniteDatagrams == IsFiniteSet(Datagrams)
<1> DEFINE I == 0 .. MaxSeq - 1
           f == [u \in Flows \X I |-> [flow |-> u[1], seq |-> u[2]]]
<1>1. IsFiniteSet(Flows) /\ IsFiniteSet(I)
  BY ServerAssumption, FS_Interval
<1> HIDE DEF I
<1>2. IsFiniteSet(Flows \X I)
  BY <1>1, FS_Product
<1>3. f \in Surjection(Flows \X I, [flow : Flows, seq : I])
  <2>1. f \in [Flows \X I -> [flow : Flows, seq : I]]
    OBVIOUS
  <2>2. ASSUME NEW p \in [flow : Flows, seq : I] PROVE \E u \in Flows \X I : f[u] = p
    <3>1. <<p.flow, p.seq>> \in Flows \X I /\ f[<<p.flow, p.seq>>] = p
      OBVIOUS
    <3> QED BY <3>1
  <2> QED BY <2>1, <2>2 DEF Surjection
<1> HIDE DEF f
<1>4. IsFiniteSet([flow : Flows, seq : I])
  BY <1>2, <1>3, FS_Surjection
<1> QED BY <1>4 DEF Datagrams, I

LEMMA FiniteWaiting == IsFiniteSet(Waiting) /\ Cardinality(Waiting) \in Nat
<1> DEFINE I == 1..Workers
           J == 1 .. QueueSize + Batch
<1>1. IsFiniteSet(I) /\ IsFiniteSet(J)
  <2>1. QueueSize + Batch \in Int /\ Workers \in Int
    BY ServerAssumption
  <2> QED BY <2>1, FS_Interval
<1>2. Waiting \in SUBSET (I \X J)
  BY DEF Waiting
<1> HIDE DEF I, J
<1>3. IsFiniteSet(I \X J)
  BY <1>1, FS_Product
<1>4. IsFiniteSet(Waiting)
  BY <1>2, <1>3, FS_Subset
<1> QED BY <1>4, FS_CardinalityType

Size(w) == Len(batch[w]) + Len(queue[w])

LEMMA SizeType ==
    ASSUME NEW b, NEW q, b \in Seq(Datagrams), q \in Seq(Datagrams),
           Len(b) <= Batch, Len(q) <= QueueSize
    PROVE  Len(b) + Len(q) \in 0 .. QueueSize + Batch
<1>1. Len(b) \in Nat /\ Len(q) \in Nat /\ QueueSize \in Nat /\ Batch \in Nat
  BY LenProperties, Bounds
<1> QED BY <1>1

LEMMA SizeTypes ==
    ASSUME TypeOK, TypeOK', NEW w \in W
    PROVE  Size(w) \in 0 .. QueueSize + Batch /\ Size(w)' \in 0 .. QueueSize + Batch
BY SizeType DEF TypeOK, W, Size

LEMMA AddOne == \A m, n \in Nat : m + (n + 1) = (m + n) + 1
OBVIOUS

\* Waiting as the pairs below each worker's size.
LEMMA WaitingPairs ==
    /\ Waiting = {u \in W \X (1 .. QueueSize + Batch) : u[2] <= Size(u[1])}
    /\ Waiting' = {u \in W \X (1 .. QueueSize + Batch) : u[2] <= Size(u[1])'}
BY DEF Waiting, Size, W

\* A datagram more at one worker.
LEMMA OneMoreWaits ==
    ASSUME TypeOK, TypeOK', NEW w \in W, Size(w)' = Size(w) + 1,
           \A v \in W \ {w} : Size(v)' = Size(v)
    PROVE  Cardinality(Waiting') = Cardinality(Waiting) + 1
<1> DEFINE n == Size(w)
           M == 1 .. QueueSize + Batch
           u == <<w, n + 1>>
<1>1. n \in Nat /\ n + 1 \in M /\ \A i \in M : i \in Nat
  BY SizeTypes, Bounds
<1> HIDE DEF M
<1>2. ASSUME NEW v \in W, NEW i \in M
      PROVE  i <= Size(v)' <=> i <= Size(v) \/ <<v, i>> = u
  <2>1. CASE v = w
    <3>1. i <= n + 1 <=> i <= n \/ i = n + 1
      BY <1>1
    <3> QED BY <2>1, <3>1
  <2>2. CASE v # w
    BY <2>2
  <2> QED BY <2>1, <2>2
<1>3. /\ Waiting = {x \in W \X M : x[2] <= Size(x[1])}
      /\ Waiting' = {x \in W \X M : x[2] <= Size(x[1])'}
  BY WaitingPairs DEF M
<1>4. u \notin Waiting /\ u \in W \X M
  BY <1>1, <1>3
<1> HIDE DEF u
<1>5. Waiting' = Waiting \cup {u}
  BY <1>2, <1>3, <1>4
<1> QED BY <1>4, <1>5, FiniteWaiting, FS_AddElement

\* A datagram less.
LEMMA OneLessWaits ==
    ASSUME TypeOK, TypeOK', NEW w \in W, Size(w) = Size(w)' + 1,
           \A v \in W \ {w} : Size(v)' = Size(v)
    PROVE  Cardinality(Waiting') = Cardinality(Waiting) - 1
<1> DEFINE n == Size(w)
           M == 1 .. QueueSize + Batch
           u == <<w, n>>
<1>1. n \in Nat /\ n \in M /\ Size(w)' = n - 1 /\ \A i \in M : i \in Nat
  BY SizeTypes, Bounds
<1> HIDE DEF M
<1>2. ASSUME NEW v \in W, NEW i \in M
      PROVE  i <= Size(v)' <=> i <= Size(v) /\ <<v, i>> # u
  <2>1. CASE v = w
    <3>1. i <= n - 1 <=> i <= n /\ i # n
      BY <1>1
    <3> QED BY <1>1, <2>1, <3>1
  <2>2. CASE v # w
    BY <2>2
  <2> QED BY <2>1, <2>2
<1>3. /\ Waiting = {x \in W \X M : x[2] <= Size(x[1])}
      /\ Waiting' = {x \in W \X M : x[2] <= Size(x[1])'}
  BY WaitingPairs DEF M
<1>4. u \in Waiting
  BY <1>1, <1>3
<1> HIDE DEF u
<1>5. Waiting' = Waiting \ {u}
  BY <1>2, <1>3, <1>4
<1> QED BY <1>4, <1>5, FiniteWaiting, FS_RemoveElement

\* What a new datagram does to the set of those sent.
LEMMA SentGrows ==
    ASSUME TypeOK, NEW f \in Flows, Deliver(f) \/ Lose(f)
    PROVE  /\ Datagram(f) \notin Sent /\ Sent' = Sent \cup {Datagram(f)}
           /\ Cardinality(Sent') = Cardinality(Sent) + 1
<1> DEFINE p == Datagram(f)
<1>1. /\ next[f] < MaxSeq /\ next[f] \in Nat /\ next' = [next EXCEPT ![f] = @ + 1] /\ MaxSeq \in Nat
  BY ServerAssumption DEF Deliver, Lose, TypeOK
<1>2. p \in Datagrams /\ p \notin Sent
  BY <1>1 DEF Datagram, Datagrams, Sent
<1>3. ASSUME NEW q \in Datagrams PROVE q.seq < next'[q.flow] <=> q.seq < next[q.flow] \/ q = p
  <2>1. /\ q = [flow |-> q.flow, seq |-> q.seq] /\ q.flow \in Flows /\ q.seq \in Nat
        /\ next[q.flow] \in Nat
    BY ServerAssumption DEF Datagrams, TypeOK
  <2>2. CASE q.flow = f
    <3>1. q.seq < next'[f] <=> q.seq < next[f] \/ q.seq = next[f]
      BY <1>1, <2>1 DEF TypeOK
    <3> QED BY <2>1, <2>2, <3>1 DEF Datagram
  <2>3. CASE q.flow # f
    BY <1>1, <2>1, <2>3 DEF TypeOK, Datagram
  <2> QED BY <2>2, <2>3
<1> HIDE DEF p
<1>4. Sent' = Sent \cup {p}
  BY <1>2, <1>3 DEF Sent
<1>5. IsFiniteSet(Sent)
  BY FiniteDatagrams, FS_Subset DEF Sent
<1>6. Cardinality(Sent') = Cardinality(Sent) + 1
  BY <1>2, <1>4, <1>5, FS_AddElement
<1> QED BY <1>2, <1>4, <1>6 DEF p

\* Every datagram sent is somewhere, once.
CountInv == lost \subseteq Sent /\ EveryDatagramCounted

LEMMA InitCount == Init => CountInv
<1> SUFFICES ASSUME Init PROVE CountInv
  OBVIOUS
<1>1. Sent = {} /\ lost = {} /\ packets = 0
  BY Bounds DEF Init, Sent, Datagrams
<1>2. \A w \in W : Size(w) = 0
  BY DEF Init, Size, W
<1>3. Waiting = {}
  BY <1>2, WaitingPairs
<1>4. Cardinality({}) = 0
  BY FS_EmptySet
<1> QED BY <1>1, <1>3, <1>4 DEF CountInv, EveryDatagramCounted, DatagramsSent

LEMMA NextCount == TypeOK /\ BindInv /\ CountInv /\ [Next]_vars => CountInv'
<1> SUFFICES ASSUME TypeOK, BindInv, CountInv, [Next]_vars PROVE CountInv'
  OBVIOUS
<1>1. TypeOK'
  BY NextType
<1>2. /\ Cardinality(Waiting) \in Nat /\ packets \in Nat /\ IsFiniteSet(lost)
      /\ Cardinality(lost) \in Nat /\ Cardinality(Sent) \in Nat
  <2>1. IsFiniteSet(lost) /\ IsFiniteSet(Sent)
    BY FiniteDatagrams, FS_Subset DEF Sent, TypeOK
  <2> QED BY <2>1, FiniteWaiting, FS_CardinalityType DEF TypeOK
<1>3. Cardinality(Sent) = Cardinality(lost) + packets + Cardinality(Waiting) /\ lost \subseteq Sent
  BY DEF CountInv, EveryDatagramCounted, DatagramsSent
<1>4. SUFFICES /\ lost' \subseteq Sent'
               /\ Cardinality(Sent') = Cardinality(lost') + packets' + Cardinality(Waiting')
  BY DEF CountInv, EveryDatagramCounted, DatagramsSent
<1>5. ASSUME NEW f \in Flows, Lose(f) PROVE CountInv'
  <2>1. /\ Datagram(f) \notin Sent /\ Sent' = Sent \cup {Datagram(f)}
        /\ Cardinality(Sent') = Cardinality(Sent) + 1
    BY <1>5, SentGrows
  <2>2. lost' = lost \cup {Datagram(f)} /\ UNCHANGED <<packets, Waiting>>
    BY <1>5 DEF Lose, serverVars, Waiting
  <2>3. Cardinality(lost') = Cardinality(lost) + 1
    BY <1>2, <1>3, <2>1, <2>2, FS_AddElement
  <2>4. Cardinality(Waiting') = Cardinality(Waiting) /\ packets' = packets
    BY <2>2
  <2>5. Cardinality(Sent') = Cardinality(lost') + packets' + Cardinality(Waiting')
    BY <1>2, <1>3, <2>1, <2>3, <2>4
  <2> QED BY <1>3, <2>1, <2>2, <2>5 DEF CountInv, EveryDatagramCounted, DatagramsSent
<1>6. ASSUME NEW f \in Flows, Deliver(f) PROVE CountInv'
  <2>1. /\ Sent' = Sent \cup {Datagram(f)} /\ Cardinality(Sent') = Cardinality(Sent) + 1
    BY <1>6, SentGrows
  <2>2. PICK w \in W : /\ queue' = [queue EXCEPT ![w] = Append(@, Datagram(f))]
                       /\ UNCHANGED <<batch, packets, lost>>
    BY <1>6, DeliverParts
  <2>3. Datagram(f) \in Datagrams
    BY <1>6, NetType
  <2>4. Size(w)' = Size(w) + 1 /\ \A v \in W \ {w} : Size(v)' = Size(v)
    <3>1. Len(queue'[w]) = Len(queue[w]) + 1 /\ \A v \in W \ {w} : queue'[v] = queue[v]
      BY <2>2, <2>3, AppendProperties DEF TypeOK, W
    <3>2. Len(queue[w]) \in Nat /\ Len(batch[w]) \in Nat
      BY <2>2, LenProperties DEF TypeOK, W
    <3>3. \A v \in W : batch'[v] = batch[v]
      BY <2>2
    <3>4. Size(w)' = Size(w) + 1
      <4>1. /\ Size(w) = Len(batch[w]) + Len(queue[w])
            /\ Size(w)' = Len(batch[w]) + Len(queue'[w])
        BY <3>3 DEF Size
      <4>2. Len(queue'[w]) = Len(queue[w]) + 1
        BY <3>1
      <4>3. Len(batch[w]) + (Len(queue[w]) + 1) = (Len(batch[w]) + Len(queue[w])) + 1
        BY <3>2, AddOne
      <4> QED BY ONLY <4>1, <4>2, <4>3
    <3> QED BY <3>1, <3>3, <3>4 DEF Size
  <2>5. Cardinality(Waiting') = Cardinality(Waiting) + 1
    BY <1>1, <2>2, <2>4, OneMoreWaits
  <2>6. Cardinality(lost') = Cardinality(lost) /\ packets' = packets
    BY <2>2
  <2>7. Cardinality(Sent') = Cardinality(lost') + packets' + Cardinality(Waiting')
    BY <1>2, <1>3, <2>1, <2>5, <2>6
  <2> QED BY <1>3, <2>1, <2>2, <2>7 DEF CountInv, EveryDatagramCounted, DatagramsSent
<1>7. ASSUME NEW w \in W, Process(w) PROVE CountInv'
  <2>1. /\ batch[w] # << >> /\ batch' = [batch EXCEPT ![w] = Tail(@)]
        /\ packets' = packets + 1 /\ UNCHANGED <<queue, next, lost>>
    BY <1>7 DEF Process
  <2>2. Size(w) = Size(w)' + 1 /\ \A v \in W \ {w} : Size(v)' = Size(v)
    <3>1. Len(batch'[w]) = Len(batch[w]) - 1 /\ \A v \in W \ {w} : batch'[v] = batch[v]
      BY <2>1, HeadTailProperties DEF TypeOK, W
    <3>2. Len(queue[w]) \in Nat /\ Len(batch[w]) \in Nat
      BY LenProperties DEF TypeOK, W
    <3>3. \A v \in W : queue'[v] = queue[v]
      BY <2>1
    <3>4. Size(w) = Size(w)' + 1
      <4>1. /\ Size(w) = Len(batch[w]) + Len(queue[w])
            /\ Size(w)' = Len(batch'[w]) + Len(queue[w])
        BY <3>3 DEF Size
      <4> QED BY <3>1, <3>2, <4>1
    <3> QED BY <3>1, <3>3, <3>4 DEF Size
  <2>3. Cardinality(Waiting') = Cardinality(Waiting) - 1
    BY <1>1, <2>2, OneLessWaits
  <2>4. Sent' = Sent /\ lost' = lost
    BY <2>1 DEF Sent
  <2>5. Cardinality(Sent') = Cardinality(lost') + packets' + Cardinality(Waiting')
    BY <1>2, <1>3, <2>1, <2>3, <2>4
  <2> QED BY <1>3, <2>4, <2>5 DEF CountInv, EveryDatagramCounted, DatagramsSent
<1>8. ASSUME NEW w \in W, Recv(w) PROVE CountInv'
  <2>1. \A v \in W : Size(v)' = Size(v)
    <3>1. PICK k \in Nat :
            /\ Len(batch'[w]) = k /\ Len(queue'[w]) = Len(queue[w]) - k
            /\ \A v \in W \ {w} : batch'[v] = batch[v] /\ queue'[v] = queue[v]
      BY <1>8, RecvParts
    <3>2. Len(queue[w]) \in Nat /\ Len(batch[w]) = 0
      BY <1>8, LenProperties DEF TypeOK, W, Recv
    <3>3. Size(w)' = Size(w)
      BY <3>1, <3>2 DEF Size
    <3> QED BY <3>1, <3>3 DEF Size
  <2>2. Waiting' = Waiting
    BY <2>1, WaitingPairs
  <2>3. UNCHANGED <<Sent, lost, packets>>
    BY <1>8 DEF Recv, Sent
  <2> QED BY <1>3, <2>2, <2>3 DEF CountInv, EveryDatagramCounted, DatagramsSent
<1>9. ASSUME Bind \/ BindFails \/ UNCHANGED vars PROVE CountInv'
  <2>1. UNCHANGED <<Sent, lost, packets, Waiting>>
    BY <1>9 DEF Bind, BindFails, vars, Sent, Waiting
  <2> QED BY <2>1 DEF CountInv, EveryDatagramCounted, DatagramsSent
<1>10. CountInv'
  BY <1>5, <1>6, <1>7, <1>8, <1>9 DEF Next, Finished, W
<1> QED BY <1>10 DEF CountInv, EveryDatagramCounted, DatagramsSent

\* Nothing a worker reads goes missing between its socket and the shared counter
\* and nothing is counted twice, whatever the batches (net.rs:443-459).
THEOREM AllDatagramsCounted == Spec => []EveryDatagramCounted
<1> DEFINE CInv == TypeOK /\ BindInv /\ CountInv
<1>1. Init => CInv
  BY InitType, InitCount
<1>2. CInv /\ [Next]_vars => CInv'
  BY NextType, NextCount
<1>3. CInv => EveryDatagramCounted
  BY DEF CountInv
<1> QED BY <1>1, <1>2, <1>3, PTL DEF Spec

-----------------------------------------------------------------------------
(* The loss count.  A worker handles, has read and has waiting the datagrams *)
(* of a flow in their order; the flow moves only to later sockets.  So what  *)
(* lies between two datagrams of one worker went to no other one.            *)

Before(d, e) == d.flow = e.flow => d.seq < e.seq

Ordered(q) == \A i, j \in 1..Len(q) : i < j => Before(q[i], q[j])

\* A worker's batch b, socket queue q and handled datagrams h.
WorkerOrder(b, q, h) ==
    /\ Ordered(b) /\ Ordered(q)
    /\ \A d \in Range(b), e \in Range(q) : Before(d, e)
    /\ \A d \in h, e \in Range(b) \cup Range(q) : Before(d, e)

Held(b, q, h) == Range(b) \cup Range(q) \cup h

At(w) == Held(batch[w], queue[w], handled[w])

LEMMA TailOrder ==
    ASSUME NEW s \in Seq(Datagrams), s # << >>, Ordered(s)
    PROVE  /\ Tail(s) \in Seq(Datagrams) /\ Ordered(Tail(s)) /\ Head(s) \in Datagrams
           /\ Range(s) = Range(Tail(s)) \cup {Head(s)}
           /\ \A e \in Range(Tail(s)) : Before(Head(s), e)
<1> DEFINE t == Tail(s)
           n == Len(s)
<1>1. /\ t \in Seq(Datagrams) /\ n \in Nat \ {0} /\ Len(t) = n - 1
      /\ \A i \in 1 .. n - 1 : t[i] = s[i + 1]
      /\ Head(s) = s[1] /\ Head(s) \in Datagrams
  BY HeadTailProperties, EmptySeq, LenProperties, ElementOfSeq
<1>2. /\ \A x : x \in Range(s) <=> \E i \in 1..n : s[i] = x
      /\ \A x : x \in Range(t) <=> \E i \in 1..Len(t) : t[i] = x
  BY <1>1, SeqElements
<1>3. \A i, j \in 1..n : i < j => Before(s[i], s[j])
  BY DEF Ordered
<1> HIDE DEF t, n
<1>4. Ordered(t)
  <2> SUFFICES ASSUME NEW i \in 1..Len(t), NEW j \in 1..Len(t), i < j PROVE Before(t[i], t[j])
    BY DEF Ordered
  <2>1. /\ i + 1 \in 1..n /\ j + 1 \in 1..n /\ i + 1 < j + 1
        /\ t[i] = s[i + 1] /\ t[j] = s[j + 1]
    BY <1>1
  <2> QED BY <1>3, <2>1
<1>5. ASSUME NEW e \in Range(t) PROVE Before(s[1], e) /\ e \in Range(s)
  <2>1. PICK i \in 1..Len(t) : t[i] = e
    BY <1>2
  <2>2. i + 1 \in 1..n /\ 1 \in 1..n /\ 1 < i + 1 /\ s[i + 1] = e
    BY <1>1, <2>1
  <2> QED BY <1>2, <1>3, <2>2
<1>6. ASSUME NEW e \in Range(s), e # s[1] PROVE e \in Range(t)
  <2>1. PICK i \in 1..n : s[i] = e
    BY <1>2
  <2>2. i # 1
    BY <1>6, <2>1
  <2>3. i - 1 \in 1..Len(t) /\ (i - 1) + 1 = i
    BY <1>1, <2>2
  <2>4. t[i - 1] = e
    BY <1>1, <2>1, <2>3
  <2> QED BY <1>2, <2>3, <2>4
<1>7. s[1] \in Range(s)
  BY <1>1, <1>2
<1>8. Range(s) = Range(t) \cup {s[1]}
  BY <1>5, <1>6, <1>7
<1> QED BY <1>1, <1>4, <1>5, <1>8 DEF t

\* One datagram goes from the batch to the handled ones.
LEMMA HandleOrder ==
    ASSUME NEW b \in Seq(Datagrams), NEW q, NEW h, b # << >>, WorkerOrder(b, q, h)
    PROVE  /\ WorkerOrder(Tail(b), q, h \cup {Head(b)})
           /\ Held(Tail(b), q, h \cup {Head(b)}) = Held(b, q, h)
           /\ \A e \in h : Before(e, Head(b))
           /\ \A e \in Held(b, q, h) : e \in h \/ e = Head(b) \/ Before(Head(b), e)
           /\ Head(b) \in Datagrams /\ Head(b) \in Held(b, q, h)
<1>1. /\ Ordered(Tail(b)) /\ Head(b) \in Datagrams
      /\ Range(b) = Range(Tail(b)) \cup {Head(b)}
      /\ \A e \in Range(Tail(b)) : Before(Head(b), e)
  BY TailOrder DEF WorkerOrder
<1> QED BY <1>1 DEF WorkerOrder, Held

\* The kernel appends one that is later than all of its flow.
LEMMA ArriveOrder ==
    ASSUME NEW b, NEW q \in Seq(Datagrams), NEW h, NEW d \in Datagrams, WorkerOrder(b, q, h),
           \A e \in Held(b, q, h) : Before(e, d)
    PROVE  /\ WorkerOrder(b, Append(q, d), h)
           /\ Held(b, Append(q, d), h) = Held(b, q, h) \cup {d}
<1> DEFINE t == Append(q, d)
           n == Len(q)
<1>1. /\ t \in Seq(Datagrams) /\ n \in Nat /\ Len(t) = n + 1 /\ Range(t) = Range(q) \cup {d}
      /\ \A i \in 1..n : t[i] = q[i] /\ q[i] \in Range(q)
      /\ t[n + 1] = d
  BY AppendProperties, AppendDistinct, SeqElements, LenProperties
<1>2. \A i, j \in 1..n : i < j => Before(q[i], q[j])
  BY DEF WorkerOrder, Ordered
<1> HIDE DEF t, n
<1>3. Ordered(t)
  <2> SUFFICES ASSUME NEW i \in 1..Len(t), NEW j \in 1..Len(t), i < j PROVE Before(t[i], t[j])
    BY DEF Ordered
  <2>1. i \in 1..n /\ t[i] = q[i] /\ q[i] \in Range(q)
    BY <1>1
  <2>2. CASE j = n + 1
    BY <1>1, <2>1, <2>2 DEF Held
  <2>3. CASE j # n + 1
    <3>1. j \in 1..n
      BY <1>1, <2>3
    <3> QED BY <1>1, <1>2, <2>1, <3>1
  <2> QED BY <2>2, <2>3
<1>4. WorkerOrder(b, t, h) /\ Held(b, t, h) = Held(b, q, h) \cup {d}
  BY <1>1, <1>3 DEF WorkerOrder, Held
<1> QED BY <1>4 DEF t

\* recvmmsg cuts the queue s in two.
IsCut(s, b, q, k) ==
    /\ k <= Len(s) /\ Len(b) = k /\ Len(q) = Len(s) - k
    /\ \A i \in 1..k : b[i] = s[i]
    /\ \A i \in 1 .. Len(s) - k : q[i] = s[k + i]

LEMMA CutOrder ==
    ASSUME NEW s \in Seq(Datagrams), NEW b \in Seq(Datagrams), NEW q \in Seq(Datagrams), NEW h,
           NEW k \in Nat, IsCut(s, b, q, k), WorkerOrder(<< >>, s, h)
    PROVE  WorkerOrder(b, q, h) /\ Held(b, q, h) = Held(<< >>, s, h)
<1> DEFINE n == Len(s)
<1>1. /\ n \in Nat /\ Range(<< >>) = {}
      /\ \A x : x \in Range(s) <=> \E i \in 1..n : s[i] = x
      /\ \A x : x \in Range(b) <=> \E i \in 1..Len(b) : b[i] = x
      /\ \A x : x \in Range(q) <=> \E i \in 1..Len(q) : q[i] = x
  BY SeqElements, EmptyDistinct
<1>2. /\ \A i, j \in 1..n : i < j => Before(s[i], s[j])
      /\ \A d \in h, e \in Range(s) : Before(d, e)
  BY DEF WorkerOrder, Ordered
<1>3. /\ Len(b) = k /\ Len(q) = n - k /\ k <= n /\ \A i \in 1..k : b[i] = s[i]
      /\ \A i \in 1 .. n - k : q[i] = s[k + i]
  BY DEF IsCut
<1> HIDE DEF n
<1>4. Ordered(b)
  BY <1>1, <1>2, <1>3 DEF Ordered
<1>5. Ordered(q)
  <2> SUFFICES ASSUME NEW i \in 1..Len(q), NEW j \in 1..Len(q), i < j PROVE Before(q[i], q[j])
    BY DEF Ordered
  <2>1. /\ k + i \in 1..n /\ k + j \in 1..n /\ k + i < k + j
        /\ q[i] = s[k + i] /\ q[j] = s[k + j]
    BY <1>1, <1>3
  <2> QED BY <1>2, <2>1
<1>6. ASSUME NEW d \in Range(b), NEW e \in Range(q) PROVE Before(d, e)
  <2>1. PICK i \in 1..k : b[i] = d
    BY <1>1, <1>3
  <2>2. PICK j \in 1 .. n - k : q[j] = e
    BY <1>1, <1>3
  <2>3. i \in 1..n /\ k + j \in 1..n /\ i < k + j /\ d = s[i] /\ e = s[k + j]
    BY <1>1, <1>3, <2>1, <2>2
  <2> QED BY <1>2, <2>3
<1>7. Range(b) \cup Range(q) = Range(s)
  <2>1. ASSUME NEW x \in Range(s) PROVE x \in Range(b) \cup Range(q)
    <3>1. PICK i \in 1..n : s[i] = x
      BY <1>1
    <3>2. CASE i <= k
      <4>1. i \in 1..Len(b) /\ b[i] = x
        BY <1>1, <1>3, <3>1, <3>2
      <4> QED BY <1>1, <4>1
    <3>3. CASE ~(i <= k)
      <4>1. i - k \in 1..Len(q) /\ k + (i - k) = i
        BY <1>1, <1>3, <3>3
      <4>2. q[i - k] = x
        BY <1>3, <3>1, <4>1
      <4> QED BY <1>1, <4>1, <4>2
    <3> QED BY <3>2, <3>3
  <2>2. ASSUME NEW x \in Range(b) PROVE x \in Range(s)
    BY <1>1, <1>3
  <2>3. ASSUME NEW x \in Range(q) PROVE x \in Range(s)
    <3>1. PICK i \in 1 .. n - k : q[i] = x
      BY <1>1, <1>3
    <3>2. k + i \in 1..n /\ s[k + i] = x
      BY <1>1, <1>3, <3>1
    <3> QED BY <1>1, <3>2
  <2> QED BY <2>1, <2>2, <2>3
<1> QED BY <1>1, <1>2, <1>4, <1>5, <1>6, <1>7 DEF WorkerOrder, Held

OrderInv == \A w \in W : WorkerOrder(batch[w], queue[w], handled[w])

\* Where the datagrams sent are: lost, or at one worker or another; what is at a
\* worker is no later than the socket its flow goes to now, and no earlier than
\* what came before it.
PlaceInv ==
    /\ \A d \in Sent : d \in lost \/ \E w \in W : d \in At(w)
    /\ \A w \in W : At(w) \subseteq Sent /\ At(w) \cap lost = {}
    /\ \A w \in W : \A d \in At(w) : bound \in W /\ w <= RouteOf[d.flow][bound]
    /\ \A w, v \in W : \A d \in At(w), e \in At(v) : d.flow = e.flow /\ d.seq < e.seq => w <= v

FlowInv == TypeOK /\ BindInv /\ CountInv /\ OrderInv /\ PlaceInv

LEMMA DatagramParts ==
    ASSUME NEW d \in Datagrams
    PROVE  d = [flow |-> d.flow, seq |-> d.seq] /\ d.flow \in Flows /\ d.seq \in Nat /\ d.seq < MaxSeq
BY Bounds DEF Datagrams

LEMMA InitFlow == Init => FlowInv
<1> SUFFICES ASSUME Init PROVE FlowInv
  OBVIOUS
<1>1. TypeOK /\ BindInv /\ CountInv
  BY InitType, InitCount
<1>2. Range(<< >>) = {} /\ Len(<< >>) = 0
  BY EmptyDistinct
<1>3. \A w \in W : batch[w] = << >> /\ queue[w] = << >> /\ handled[w] = {}
  BY DEF Init, W
<1>4. \A w \in W : WorkerOrder(batch[w], queue[w], handled[w]) /\ At(w) = {}
  BY <1>2, <1>3 DEF WorkerOrder, Ordered, At, Held
<1>5. Sent = {}
  BY Bounds DEF Init, Sent, Datagrams
<1> QED BY <1>1, <1>4, <1>5 DEF FlowInv, OrderInv, PlaceInv

\* A worker's own steps leave each datagram at its worker.
LEMMA SamePlaces ==
    ASSUME PlaceInv, \A w \in W : At(w)' = At(w), UNCHANGED <<next, lost, bound>>
    PROVE  PlaceInv'
<1>1. Sent' = Sent
  BY DEF Sent, Datagrams
<1> QED BY <1>1 DEF PlaceInv, W

LEMMA RecvFlow ==
    ASSUME FlowInv, NEW w \in W, Recv(w)
    PROVE  OrderInv' /\ PlaceInv'
<1>1. PICK k \in Nat :
        /\ k <= Len(queue[w]) /\ batch'[w] \in Seq(Datagrams) /\ Len(batch'[w]) = k
        /\ queue'[w] \in Seq(Datagrams) /\ Len(queue'[w]) = Len(queue[w]) - k
        /\ \A i \in 1..k : batch'[w][i] = queue[w][i]
        /\ \A i \in 1 .. Len(queue[w]) - k : queue'[w][i] = queue[w][k + i]
        /\ \A v \in W \ {w} : batch'[v] = batch[v] /\ queue'[v] = queue[v]
  BY RecvParts DEF FlowInv
<1>2. batch[w] = << >> /\ queue[w] \in Seq(Datagrams) /\ UNCHANGED <<next, lost, bound, handled>>
  BY DEF Recv, FlowInv, TypeOK, W
<1>3. WorkerOrder(<< >>, queue[w], handled[w])
  BY <1>2 DEF FlowInv, OrderInv
<1>4. /\ WorkerOrder(batch'[w], queue'[w], handled[w])
      /\ Held(batch'[w], queue'[w], handled[w]) = Held(<< >>, queue[w], handled[w])
  <2>1. /\ IsCut(queue[w], batch'[w], queue'[w], k)
        /\ batch'[w] \in Seq(Datagrams) /\ queue'[w] \in Seq(Datagrams)
    BY <1>1 DEF IsCut
  <2> QED BY <1>2, <1>3, <2>1, CutOrder
<1>5. \A v \in W : WorkerOrder(batch'[v], queue'[v], handled'[v]) /\ At(v)' = At(v)
  <2> SUFFICES ASSUME NEW v \in W PROVE WorkerOrder(batch'[v], queue'[v], handled'[v]) /\ At(v)' = At(v)
    OBVIOUS
  <2>1. CASE v = w
    BY <1>2, <1>4, <2>1 DEF At
  <2>2. CASE v # w
    BY <1>1, <1>2, <2>2 DEF At, FlowInv, OrderInv
  <2> QED BY <2>1, <2>2
<1>6. PlaceInv'
  BY <1>2, <1>5, SamePlaces DEF FlowInv
<1> QED BY <1>5, <1>6 DEF OrderInv, W

\* What Process(w) does to the worker, and where its datagram stands.
LEMMA ProcessParts ==
    ASSUME FlowInv, NEW w \in W, Process(w)
    PROVE  LET d == Head(batch[w])
           IN  /\ d \in Datagrams /\ d \in At(w) /\ d \in Sent
               /\ handled'[w] = handled[w] \cup {d}
               /\ \A v \in W \ {w} : handled'[v] = handled[v]
               /\ \A e \in handled[w] : Before(e, d)
               /\ \A e \in At(w) : e \in handled[w] \/ e = d \/ Before(d, e)
               /\ OrderInv' /\ PlaceInv'
               /\ UNCHANGED <<next, lost>>
<1> DEFINE d == Head(batch[w])
<1>1. /\ batch[w] # << >> /\ batch' = [batch EXCEPT ![w] = Tail(@)]
      /\ handled' = [handled EXCEPT ![w] = @ \cup {d}]
      /\ UNCHANGED <<next, lost, bound, queue>>
  BY DEF Process
<1>2. batch[w] \in Seq(Datagrams) /\ WorkerOrder(batch[w], queue[w], handled[w])
  BY DEF FlowInv, TypeOK, OrderInv, W
<1>3. /\ WorkerOrder(Tail(batch[w]), queue[w], handled[w] \cup {d})
      /\ Held(Tail(batch[w]), queue[w], handled[w] \cup {d}) = At(w)
      /\ \A e \in handled[w] : Before(e, d)
      /\ \A e \in At(w) : e \in handled[w] \/ e = d \/ Before(d, e)
      /\ d \in Datagrams /\ d \in At(w)
  BY <1>1, <1>2, HandleOrder DEF At
<1>4. /\ batch'[w] = Tail(batch[w]) /\ handled'[w] = handled[w] \cup {d}
      /\ \A v \in W \ {w} : batch'[v] = batch[v] /\ handled'[v] = handled[v]
  BY <1>1 DEF FlowInv, TypeOK, W
<1> HIDE DEF d
<1>5. \A v \in W : WorkerOrder(batch'[v], queue'[v], handled'[v]) /\ At(v)' = At(v)
  <2> SUFFICES ASSUME NEW v \in W PROVE WorkerOrder(batch'[v], queue'[v], handled'[v]) /\ At(v)' = At(v)
    OBVIOUS
  <2>1. CASE v = w
    BY <1>1, <1>3, <1>4, <2>1 DEF At
  <2>2. CASE v # w
    BY <1>1, <1>4, <2>2 DEF At, FlowInv, OrderInv
  <2> QED BY <2>1, <2>2
<1>6. PlaceInv'
  BY <1>1, <1>5, SamePlaces DEF FlowInv
<1>7. OrderInv'
  BY <1>5 DEF OrderInv, W
<1>8. d \in Sent
  BY <1>3 DEF FlowInv, PlaceInv
<1> QED BY <1>1, <1>3, <1>4, <1>6, <1>7, <1>8 DEF d

LEMMA DeliverFlow ==
    ASSUME FlowInv, NEW f \in Flows, Deliver(f)
    PROVE  OrderInv' /\ PlaceInv'
<1> DEFINE d == Datagram(f)
<1>1. d \notin Sent /\ Sent' = Sent \cup {d}
  BY SentGrows DEF FlowInv
<1>2. d \in Datagrams /\ d.flow = f /\ d.seq = next[f]
  BY NetType DEF FlowInv, Datagram
<1>3. PICK w \in W :
        /\ w = RouteOf[f][bound] /\ bound \in W
        /\ queue' = [queue EXCEPT ![w] = Append(@, d)]
        /\ UNCHANGED <<bound, batch, lost, handled>>
  BY DeliverParts DEF FlowInv, W
<1>4. \A v \in W : \A e \in At(v) : Before(e, d)
  BY <1>2 DEF FlowInv, PlaceInv, Sent, Before
<1> HIDE DEF d
<1>5. queue[w] \in Seq(Datagrams) /\ WorkerOrder(batch[w], queue[w], handled[w])
  BY DEF FlowInv, TypeOK, OrderInv, W
<1>6. /\ WorkerOrder(batch[w], Append(queue[w], d), handled[w])
      /\ Held(batch[w], Append(queue[w], d), handled[w]) = At(w) \cup {d}
  BY <1>2, <1>4, <1>5, ArriveOrder DEF At
<1>7. queue'[w] = Append(queue[w], d) /\ \A v \in W \ {w} : queue'[v] = queue[v]
  BY <1>3 DEF FlowInv, TypeOK, W
<1>8. /\ At(w)' = At(w) \cup {d} /\ WorkerOrder(batch'[w], queue'[w], handled'[w])
      /\ \A v \in W \ {w} : At(v)' = At(v) /\ WorkerOrder(batch'[v], queue'[v], handled'[v])
  BY <1>3, <1>6, <1>7 DEF At, FlowInv, OrderInv
<1>9. OrderInv'
  BY <1>8 DEF OrderInv, W
<1>10. \A v \in W : \A e \in At(v)' : e \in At(v) \/ (e = d /\ v = w)
  BY <1>8
<1>11. \A e \in Sent' : e \in lost' \/ \E v \in W : e \in At(v)'
  <2> SUFFICES ASSUME NEW e \in Sent' PROVE e \in lost' \/ \E v \in W : e \in At(v)'
    OBVIOUS
  <2>1. CASE e = d
    BY <1>8, <2>1
  <2>2. CASE e # d
    <3>1. e \in lost \/ \E v \in W : e \in At(v)
      BY <1>1, <2>2 DEF FlowInv, PlaceInv
    <3> QED BY <1>3, <1>8, <3>1
  <2> QED BY <2>1, <2>2
<1>12. \A v \in W : At(v)' \subseteq Sent' /\ At(v)' \cap lost' = {}
  <2>1. lost' = lost /\ lost \subseteq Sent
    BY <1>3 DEF FlowInv, CountInv
  <2> SUFFICES ASSUME NEW v \in W, NEW e \in At(v)' PROVE e \in Sent' /\ e \notin lost'
    OBVIOUS
  <2>2. CASE e \in At(v)
    BY <1>1, <2>1, <2>2 DEF FlowInv, PlaceInv
  <2>3. CASE e = d
    BY <1>1, <2>1, <2>3
  <2> QED BY <1>10, <2>2, <2>3
<1>13. w \in Nat
  BY Bounds DEF W
<1>14. \A v \in W : \A e \in At(v)' : bound' \in W /\ v <= RouteOf[e.flow][bound']
  BY <1>2, <1>3, <1>10, <1>13 DEF FlowInv, PlaceInv
<1>15. ASSUME NEW u \in W, NEW v \in W, NEW a \in At(u)', NEW e \in At(v)',
              a.flow = e.flow, a.seq < e.seq
       PROVE  u <= v
  <2>1. a.seq \in Nat /\ e.seq \in Nat
    BY <1>12, DatagramParts DEF Sent, Datagrams
  <2>2. CASE a \in At(u) /\ e \in At(v)
    BY <1>15, <2>2 DEF FlowInv, PlaceInv
  <2>3. CASE a \in At(u) /\ e = d /\ v = w
    BY <1>2, <1>3, <1>15, <2>3 DEF FlowInv, PlaceInv
  <2>4. CASE a = d /\ u = w /\ e = d /\ v = w
    BY <1>13, <2>4
  <2>5. CASE a = d /\ e \in At(v)
    BY <1>4, <1>15, <2>1, <2>5 DEF Before
  <2> QED BY <1>10, <2>2, <2>3, <2>4, <2>5
<1>16. PlaceInv'
  BY <1>11, <1>12, <1>14, <1>15 DEF PlaceInv, W
<1> QED BY <1>9, <1>16

\* A socket more: the flows may move, but only upwards.
LEMMA BindFlow ==
    ASSUME FlowInv, Bind
    PROVE  OrderInv' /\ PlaceInv'
<1>1. /\ bound' = bound + 1 /\ bound < Workers /\ bound \in Nat
      /\ UNCHANGED <<queue, batch, next, lost, handled>>
  BY Bounds DEF Bind, FlowInv, TypeOK, BindInv
<1>2. OrderInv' /\ Sent' = Sent /\ \A w \in W : At(w)' = At(w)
  BY <1>1 DEF FlowInv, OrderInv, Sent, Datagrams, At, W
<1>3. ASSUME NEW w \in W, NEW d \in At(w) PROVE bound' \in W /\ w <= RouteOf[d.flow][bound']
  <2>1. bound \in W /\ w <= RouteOf[d.flow][bound] /\ d \in Datagrams
    BY DEF FlowInv, PlaceInv, Sent
  <2>2. d.flow \in Flows /\ w \in Nat /\ bound \in 1..Workers /\ Workers \in Nat
    BY <2>1, Bounds, DatagramParts DEF W
  <2>3. bound + 1 \in 1..Workers /\ bound + 1 > 1 /\ (bound + 1) - 1 = bound
    BY <1>1, <2>2
  <2>4. /\ RouteOf[d.flow][bound + 1] \in 1 .. bound + 1 /\ RouteOf[d.flow][bound] \in 1..bound
        /\ RouteOf[d.flow][bound + 1] >= RouteOf[d.flow][bound]
    BY <2>2, <2>3, ServerAssumption
  <2> QED BY <1>1, <2>1, <2>2, <2>3, <2>4 DEF W
<1>4. PlaceInv'
  BY <1>1, <1>2, <1>3 DEF FlowInv, PlaceInv, W
<1> QED BY <1>2, <1>4

LEMMA LoseFlow ==
    ASSUME FlowInv, NEW f \in Flows, Lose(f)
    PROVE  OrderInv' /\ PlaceInv'
<1>1. Datagram(f) \notin Sent /\ Sent' = Sent \cup {Datagram(f)}
  BY SentGrows DEF FlowInv
<1>2. lost' = lost \cup {Datagram(f)} /\ UNCHANGED <<bound, queue, batch, handled>>
  BY DEF Lose, serverVars
<1>3. OrderInv' /\ \A w \in W : At(w)' = At(w)
  BY <1>2 DEF FlowInv, OrderInv, At, W
<1>4. PlaceInv'
  BY <1>1, <1>2, <1>3 DEF FlowInv, PlaceInv, W
<1> QED BY <1>3, <1>4

LEMMA NextFlow == FlowInv /\ [Next]_vars => FlowInv'
<1> SUFFICES ASSUME FlowInv, [Next]_vars PROVE FlowInv'
  OBVIOUS
<1>1. TypeOK' /\ BindInv' /\ CountInv'
  BY NextType, NextCount DEF FlowInv
<1>2. ASSUME BindFails \/ UNCHANGED vars PROVE OrderInv' /\ PlaceInv'
  <2>1. UNCHANGED <<bound, queue, batch, next, lost, handled>>
    BY <1>2 DEF BindFails, vars
  <2>2. OrderInv' /\ \A w \in W : At(w)' = At(w)
    BY <2>1 DEF FlowInv, OrderInv, At, W
  <2> QED BY <2>1, <2>2, SamePlaces DEF FlowInv
<1>3. OrderInv' /\ PlaceInv'
  BY <1>2, BindFlow, RecvFlow, ProcessParts, DeliverFlow, LoseFlow DEF Next, Finished, W
<1> QED BY <1>1, <1>3 DEF FlowInv

-----------------------------------------------------------------------------
HeaderFlows == {f \in Flows : SidOf[f] # NoHeader}

\* last_seq of a worker holds the latest datagram it handled of every flow.
SeenInv ==
    \A w \in W : \A f \in HeaderFlows :
        /\ (\E d \in handled[w] : d.flow = f) => SidOf[f] \in DOMAIN lastSeq[w]
        /\ SidOf[f] \in DOMAIN lastSeq[w] =>
             /\ [flow |-> f, seq |-> lastSeq[w][SidOf[f]]] \in handled[w]
             /\ \A d \in handled[w] : d.flow = f => d.seq <= lastSeq[w][SidOf[f]]

LossInv == DistinctSids => SeenInv /\ drops = Cardinality(LostBetween)

\* LostBetween without the sets of numbers.
Lies(d, h) ==
    /\ SidOf[d.flow] # NoHeader
    /\ \E a, e \in h : a.flow = d.flow /\ e.flow = d.flow /\ a.seq < d.seq /\ d.seq < e.seq

LEMMA LostPairs ==
    /\ \A u : u \in LostBetween <=> u \in W \X lost /\ Lies(u[2], handled[u[1]])
    /\ \A u : u \in LostBetween' <=> u \in W \X lost' /\ Lies(u[2], handled'[u[1]])
<1>1. ASSUME NEW u PROVE u \in LostBetween <=> u \in W \X lost /\ Lies(u[2], handled[u[1]])
  BY DEF LostBetween, Lies, Seen, W
<1>2. ASSUME NEW u PROVE u \in LostBetween' <=> u \in W \X lost' /\ Lies(u[2], handled'[u[1]])
  BY DEF LostBetween, Lies, Seen, W
<1> QED BY <1>1, <1>2

LEMMA FiniteLostBetween ==
    ASSUME TypeOK
    PROVE  IsFiniteSet(LostBetween) /\ Cardinality(LostBetween) \in Nat
<1>1. IsFiniteSet(W)
  BY Bounds, FS_Interval DEF W
<1>2. IsFiniteSet(lost)
  BY FiniteDatagrams, FS_Subset DEF TypeOK
<1>3. IsFiniteSet(W \X lost)
  BY <1>1, <1>2, FS_Product
<1>4. LostBetween \subseteq W \X lost
  BY LostPairs
<1> QED BY <1>3, <1>4, FS_Subset, FS_CardinalityType

\* The datagrams of flow f strictly between the numbers l and n, at worker w.
Between(w, f, l, n) == {<<w, [flow |-> f, seq |-> m]>> : m \in l + 1 .. n - 1}

LEMMA BetweenSize ==
    ASSUME NEW w, NEW f, NEW l \in Nat, NEW n \in Nat, n > l
    PROVE  IsFiniteSet(Between(w, f, l, n)) /\ Cardinality(Between(w, f, l, n)) = n - l - 1
<1> DEFINE I == l + 1 .. n - 1
           g == [m \in I |-> <<w, [flow |-> f, seq |-> m]>>]
<1>1. IsFiniteSet(I) /\ Cardinality(I) = n - l - 1
  <2>1. l + 1 \in Int /\ n - 1 \in Int
    OBVIOUS
  <2>2. IsFiniteSet(I) /\ Cardinality(I) = IF l + 1 > n - 1 THEN 0 ELSE n - 1 - (l + 1) + 1
    BY <2>1, FS_Interval
  <2> QED BY <2>2
<1>2. g \in Surjection(I, Between(w, f, l, n)) /\ g \in Injection(I, Between(w, f, l, n))
  <2> HIDE DEF I
  <2>1. Between(w, f, l, n) = {<<w, [flow |-> f, seq |-> m]>> : m \in I}
    BY DEF Between, I
  <2>2. g \in [I -> Between(w, f, l, n)]
    BY <2>1
  <2>3. \A a, c \in I : g[a] = g[c] => a = c
    <3> SUFFICES ASSUME NEW a \in I, NEW c \in I, g[a] = g[c] PROVE a = c
      OBVIOUS
    <3>1. g[a][2].seq = a /\ g[c][2].seq = c
      OBVIOUS
    <3> QED BY <3>1
  <2>4. \A t \in Between(w, f, l, n) : \E m \in I : g[m] = t
    BY <2>1
  <2> QED BY <2>2, <2>3, <2>4 DEF Surjection, Injection, IsInjective
<1> HIDE DEF I, g
<1> QED BY <1>1, <1>2, FS_Surjection

\* A datagram between two that worker w holds is lost, unless w holds it too.
LEMMA NoDetour ==
    ASSUME FlowInv, NEW w \in W, NEW a \in At(w), NEW e \in At(w), NEW d \in Datagrams,
           a.flow = d.flow, e.flow = d.flow, a.seq < d.seq, d.seq < e.seq
    PROVE  d \in lost \/ d \in At(w)
<1>1. d \in Sent
  <2>1. e \in Datagrams /\ e.seq < next[e.flow] /\ next[e.flow] \in Nat
    BY DatagramParts, Bounds DEF FlowInv, PlaceInv, Sent, TypeOK
  <2> QED BY <2>1, DatagramParts DEF Sent
<1>2. CASE d \notin lost
  <2>1. PICK v \in W : d \in At(v)
    BY <1>1, <1>2 DEF FlowInv, PlaceInv
  <2>2. w <= v /\ v <= w
    BY <2>1 DEF FlowInv, PlaceInv
  <2>3. v = w
    BY <2>2, Bounds DEF W
  <2> QED BY <2>1, <2>3
<1> QED BY <1>2

\* The gap that one datagram adds is what it adds to LostBetween.
LEMMA GapCounts ==
    ASSUME FlowInv, SeenInv, NEW w \in W, Process(w), SidOf[Head(batch[w]).flow] # NoHeader
    PROVE  LET d == Head(batch[w])
           IN  Cardinality(LostBetween') = Cardinality(LostBetween) + Gap(lastSeq[w], SidOf[d.flow], d.seq)
<1> DEFINE d == Head(batch[w])
           f == d.flow
           n == d.seq
           sid == SidOf[f]
<1>1. /\ d \in Datagrams /\ d \in At(w)
      /\ handled'[w] = handled[w] \cup {d} /\ \A v \in W \ {w} : handled'[v] = handled[v]
      /\ \A e \in handled[w] : Before(e, d)
      /\ \A e \in At(w) : e \in handled[w] \/ e = d \/ Before(d, e)
      /\ lost' = lost
  BY ProcessParts
<1> HIDE DEF d
<1>2. f \in Flows /\ n \in Nat /\ n < MaxSeq /\ sid # NoHeader /\ f \in HeaderFlows
  BY <1>1, DatagramParts DEF d, HeaderFlows
<1>3. /\ lost \subseteq Datagrams /\ handled[w] \subseteq Datagrams /\ handled[w] \subseteq At(w)
      /\ handled[w] \cap lost = {} /\ d \notin lost
  BY <1>1 DEF FlowInv, TypeOK, PlaceInv, At, Held, W
<1>4. \A e \in Datagrams : e.seq \in Nat /\ e = [flow |-> e.flow, seq |-> e.seq]
  BY DatagramParts
<1>5. ASSUME NEW u \in W \X lost, u[1] # w \/ u[2].flow # f
      PROVE  u \in LostBetween' <=> u \in LostBetween
  <2>1. u[1] \in W /\ u[2] \in lost /\ lost' = lost
    BY <1>1
  <2>2. Lies(u[2], handled'[u[1]]) <=> Lies(u[2], handled[u[1]])
    <3>1. CASE u[1] # w
      BY <1>1, <2>1, <3>1
    <3>2. CASE u[1] = w /\ u[2].flow # f
      BY <1>1, <3>2 DEF Lies
    <3> QED BY <1>5, <3>1, <3>2
  <2> QED BY <2>1, <2>2, LostPairs
<1>6. ASSUME NEW u \in W \X lost, u[1] = w, u[2].flow = f
      PROVE  u \in LostBetween' <=>
               \E a \in handled[w] : /\ a.flow = f /\ a.seq < u[2].seq
                                     /\ \E e \in handled[w] \cup {d} : e.flow = f /\ u[2].seq < e.seq
  <2>1. u \in LostBetween' <=> Lies(u[2], handled[w] \cup {d})
    BY <1>1, <1>6, LostPairs
  <2>2. u[2].seq \in Nat /\ \A e \in handled[w] : e.seq \in Nat
    BY <1>3, <1>4
  <2>3. \A e \in handled[w] \cup {d} : e.flow = f => e.seq <= n /\ e.seq \in Nat
    BY <1>1, <1>2, <2>2 DEF Before
  <2>4. ASSUME NEW a \in handled[w] \cup {d}, NEW e \in handled[w] \cup {d},
               a.flow = f, e.flow = f, a.seq < u[2].seq, u[2].seq < e.seq
        PROVE  a \in handled[w]
    <3>1. a.seq < n
      BY <1>2, <2>2, <2>3, <2>4
    <3> QED BY <1>2, <3>1
  <2> QED BY <1>2, <1>6, <2>1, <2>4 DEF Lies
<1>7. /\ LostBetween \subseteq W \X lost /\ LostBetween' \subseteq W \X lost
      /\ IsFiniteSet(LostBetween) /\ Cardinality(LostBetween) \in Nat
  BY <1>1, LostPairs, FiniteLostBetween DEF FlowInv
<1>8. CASE sid \notin DOMAIN lastSeq[w]
  <2>1. \A e \in handled[w] : e.flow # f
    BY <1>2, <1>8 DEF SeenInv
  <2>2. ASSUME NEW u \in W \X lost, u[1] = w, u[2].flow = f PROVE u \notin LostBetween' /\ u \notin LostBetween
    BY <1>6, <2>1, <2>2, LostPairs DEF Lies
  <2>3. LostBetween' = LostBetween
    BY <1>5, <1>7, <2>2
  <2>4. Gap(lastSeq[w], sid, n) = 0
    BY <1>8 DEF Gap
  <2> QED BY <1>7, <2>3, <2>4 DEF d
<1>9. CASE sid \in DOMAIN lastSeq[w]
  <2> DEFINE l == lastSeq[w][sid]
             last == [flow |-> f, seq |-> l]
             B == Between(w, f, l, n)
  <2>1. last \in handled[w] /\ \A e \in handled[w] : e.flow = f => e.seq <= l
    BY <1>2, <1>9 DEF SeenInv
  <2>2. l \in Nat /\ l < n
    <3>1. last.seq \in Nat /\ Before(last, d)
      BY <1>1, <1>3, <1>4, <2>1
    <3> QED BY <3>1 DEF Before
  <2>3. Gap(lastSeq[w], sid, n) = n - l - 1
    BY <1>2, <1>9, <2>2 DEF Gap
  <2> HIDE DEF l
  <2>4. IsFiniteSet(B) /\ Cardinality(B) = n - l - 1
    BY <1>2, <2>2, BetweenSize
  <2>5. B \subseteq W \X lost
    <3> SUFFICES ASSUME NEW m \in l + 1 .. n - 1 PROVE [flow |-> f, seq |-> m] \in lost
      BY DEF Between
    <3> DEFINE e == [flow |-> f, seq |-> m]
    <3>1. e \in Datagrams /\ e.flow = f /\ e.seq = m /\ m \in Nat /\ l < m /\ m < n
      BY <1>2, <2>2, Bounds DEF Datagrams
    <3>2. e \in lost \/ e \in At(w)
      BY <1>1, <1>3, <2>1, <3>1, NoDetour
    <3> HIDE DEF e
    <3>3. e \notin handled[w] /\ e # d
      BY <1>2, <2>1, <2>2, <3>1
    <3>4. ~Before(d, e)
      BY <1>2, <3>1 DEF Before
    <3> QED BY <1>1, <3>2, <3>3, <3>4 DEF e
  <2>6. \A u : u \in B <=> u \in W \X lost /\ u[1] = w /\ u[2].flow = f /\ l < u[2].seq /\ u[2].seq < n
    <3>1. ASSUME NEW u \in B PROVE u \in W \X lost /\ u[1] = w /\ u[2].flow = f /\ l < u[2].seq /\ u[2].seq < n
      <4>1. PICK m \in l + 1 .. n - 1 : u = <<w, [flow |-> f, seq |-> m]>>
        BY DEF Between
      <4>2. u[1] = w /\ u[2].flow = f /\ u[2].seq = m
        BY <4>1
      <4>3. l < m /\ m < n
        BY <1>2, <2>2
      <4> QED BY <2>5, <4>2, <4>3
    <3>2. ASSUME NEW u \in W \X lost, u[1] = w, u[2].flow = f, l < u[2].seq, u[2].seq < n
          PROVE  u \in B
      <4>1. u = <<u[1], u[2]>> /\ u[2] = [flow |-> f, seq |-> u[2].seq] /\ u[2].seq \in Nat
        BY <1>3, <1>4, <3>2
      <4>2. u[2].seq \in l + 1 .. n - 1
        BY <1>2, <2>2, <3>2, <4>1
      <4> QED BY <3>2, <4>1, <4>2 DEF Between
    <3> QED BY <3>1, <3>2
  <2> HIDE DEF B
  <2>7. ASSUME NEW u \in W \X lost, u[1] = w, u[2].flow = f
        PROVE  /\ u \in LostBetween' <=> u \in LostBetween \/ u \in B
               /\ ~(u \in LostBetween /\ u \in B)
    <3> DEFINE m == u[2].seq
    <3>1. m \in Nat /\ m # l
      <4>1. u[2] \in Datagrams /\ u[2] = [flow |-> f, seq |-> m] /\ u[2] \notin handled[w]
        BY <1>3, <1>4, <2>7
      <4> QED BY <1>4, <2>1, <4>1
    <3>2. u \in LostBetween <=>
            \E a \in handled[w] : /\ a.flow = f /\ a.seq < m
                                  /\ \E e \in handled[w] : e.flow = f /\ m < e.seq
      BY <1>2, <2>7, LostPairs DEF Lies
    <3>3. (\E e \in handled[w] : e.flow = f /\ m < e.seq) <=> m < l
      BY <1>3, <1>4, <2>1, <2>2, <3>1
    <3>4. (\E e \in handled[w] \cup {d} : e.flow = f /\ m < e.seq) <=> m < n
      BY <1>2, <1>3, <1>4, <2>1, <2>2, <3>1
    <3>5. l < m => \E a \in handled[w] : a.flow = f /\ a.seq < m
      BY <2>1
    <3>6. u \in B <=> l < m /\ m < n
      BY <2>6, <2>7
    <3>7. u \in LostBetween' <=> m < n /\ \E a \in handled[w] : a.flow = f /\ a.seq < m
      BY <1>6, <2>7, <3>4
    <3>8. u \in LostBetween <=> m < l /\ \E a \in handled[w] : a.flow = f /\ a.seq < m
      BY <3>2, <3>3
    <3> HIDE DEF m
    <3>9. (m < l \/ l < m) /\ ~(m < l /\ l < m) /\ (m < l => m < n)
      BY <1>2, <2>2, <3>1
    <3> QED BY <3>5, <3>6, <3>7, <3>8, <3>9
  <2>8. LostBetween' = LostBetween \cup B /\ LostBetween \cap B = {}
    BY <1>5, <1>7, <2>6, <2>7
  <2>9. Cardinality(LostBetween \cup B) = Cardinality(LostBetween) + (n - l - 1)
    <3>1. Cardinality(LostBetween \cap B) = 0
      BY <2>8, FS_EmptySet
    <3>2. Cardinality(LostBetween \cup B)
            = Cardinality(LostBetween) + Cardinality(B) - Cardinality(LostBetween \cap B)
      BY <1>7, <2>4, FS_Union
    <3> QED BY <1>2, <1>7, <2>2, <2>4, <3>1, <3>2
  <2> QED BY <2>3, <2>8, <2>9 DEF d, l
<1> QED BY <1>8, <1>9

LEMMA ProcessLoss ==
    ASSUME FlowInv, LossInv, DistinctSids, NEW w \in W, Process(w)
    PROVE  SeenInv' /\ drops' = Cardinality(LostBetween')
<1> DEFINE d == Head(batch[w])
           f == d.flow
           sid == SidOf[f]
<1>1. SeenInv /\ drops = Cardinality(LostBetween)
  BY DEF LossInv
<1>2. /\ d \in Datagrams
      /\ handled'[w] = handled[w] \cup {d} /\ \A v \in W \ {w} : handled'[v] = handled[v]
      /\ \A e \in handled[w] : Before(e, d)
      /\ lost' = lost
  BY ProcessParts
<1>3. d = [flow |-> f, seq |-> d.seq] /\ f \in Flows /\ d.seq \in Nat
  BY <1>2, DatagramParts
<1>4. CASE sid = NoHeader
  <2>1. UNCHANGED <<drops, lastSeq>>
    BY <1>4 DEF Process
  <2> HIDE DEF d
  <2>2. \A v \in W : \A g \in HeaderFlows : \A e : e.flow = g => (e \in handled'[v] <=> e \in handled[v])
    BY <1>2, <1>4 DEF HeaderFlows
  <2>3. SeenInv'
    <3> SUFFICES ASSUME NEW v \in W, NEW g \in HeaderFlows
                 PROVE  /\ (\E e \in handled'[v] : e.flow = g) => SidOf[g] \in DOMAIN lastSeq[v]
                        /\ SidOf[g] \in DOMAIN lastSeq[v] =>
                             /\ [flow |-> g, seq |-> lastSeq[v][SidOf[g]]] \in handled'[v]
                             /\ \A e \in handled'[v] : e.flow = g => e.seq <= lastSeq[v][SidOf[g]]
      BY <2>1 DEF SeenInv, HeaderFlows, W
    <3> QED BY <1>1, <2>2 DEF SeenInv
  <2>4. \A u : u \in LostBetween' <=> u \in LostBetween
    <3> SUFFICES ASSUME NEW u \in W \X lost PROVE Lies(u[2], handled'[u[1]]) <=> Lies(u[2], handled[u[1]])
      BY <1>2, LostPairs
    <3>1. u[1] \in W /\ u[2] \in lost
      OBVIOUS
    <3>2. CASE u[1] # w
      BY <1>2, <3>1, <3>2
    <3>3. CASE u[1] = w
      BY <1>2, <1>4, <3>3 DEF Lies
    <3> QED BY <3>2, <3>3
  <2>5. LostBetween' = LostBetween
    BY <2>4
  <2> QED BY <1>1, <2>1, <2>3, <2>5
<1>5. CASE sid # NoHeader
  <2>1. /\ drops' = drops + Gap(lastSeq[w], sid, d.seq)
        /\ lastSeq' = [lastSeq EXCEPT ![w] = LastSeqInsert(@, sid, d.seq)]
    BY <1>5 DEF Process
  <2>2. Cardinality(LostBetween') = Cardinality(LostBetween) + Gap(lastSeq[w], sid, d.seq)
    BY <1>1, <1>5, GapCounts
  <2> HIDE DEF d
  <2>3. /\ DOMAIN lastSeq'[w] = DOMAIN lastSeq[w] \cup {sid} /\ lastSeq'[w][sid] = d.seq
        /\ \A s \in DOMAIN lastSeq[w] : s # sid => lastSeq'[w][s] = lastSeq[w][s]
        /\ \A v \in W \ {w} : lastSeq'[v] = lastSeq[v]
    BY <2>1 DEF LastSeqInsert, FlowInv, TypeOK, W
  <2>4. SeenInv'
    <3> SUFFICES ASSUME NEW v \in W, NEW g \in HeaderFlows
                 PROVE  /\ (\E e \in handled'[v] : e.flow = g) => SidOf[g] \in DOMAIN lastSeq'[v]
                        /\ SidOf[g] \in DOMAIN lastSeq'[v] =>
                             /\ [flow |-> g, seq |-> lastSeq'[v][SidOf[g]]] \in handled'[v]
                             /\ \A e \in handled'[v] : e.flow = g => e.seq <= lastSeq'[v][SidOf[g]]
      BY DEF SeenInv, HeaderFlows, W
    <3>1. CASE v # w
      BY <1>1, <1>2, <2>3, <3>1 DEF SeenInv
    <3>2. CASE v = w /\ g # f
      <4>1. SidOf[g] # sid
        BY <1>3, <3>2 DEF DistinctSids, HeaderFlows
      <4> QED BY <1>1, <1>2, <2>3, <3>2, <4>1 DEF SeenInv
    <3>3. CASE v = w /\ g = f
      <4>1. \A e \in handled[w] : e.flow = f => e.seq <= d.seq
        <5> SUFFICES ASSUME NEW e \in handled[w], e.flow = f PROVE e.seq <= d.seq
          OBVIOUS
        <5>1. e.seq \in Nat /\ e.seq < d.seq
          BY <1>2, DatagramParts DEF FlowInv, TypeOK, W, Before
        <5> QED BY <1>3, <5>1
      <4> QED BY <1>2, <1>3, <2>3, <3>3, <4>1
    <3> QED BY <3>1, <3>2, <3>3
  <2> QED BY <1>1, <2>1, <2>2, <2>4
<1> QED BY <1>4, <1>5

\* A step that handles nothing changes neither side of the comparison.
LEMMA NothingHandled ==
    ASSUME FlowInv, LossInv, UNCHANGED <<drops, lastSeq, handled>>,
           \/ lost' = lost
           \/ \E f \in Flows : Lose(f)
    PROVE  LossInv'
<1>1. \A u : u \in LostBetween' <=> u \in LostBetween
  <2>1. CASE lost' = lost
    BY <2>1, LostPairs
  <2>2. ASSUME NEW f \in Flows, Lose(f) PROVE \A u : u \in LostBetween' <=> u \in LostBetween
    <3> DEFINE d == Datagram(f)
    <3>1. lost' = lost \cup {d} /\ d.flow = f /\ d.seq = next[f] /\ next[f] \in Nat
      BY <2>2, Bounds DEF Lose, Datagram, FlowInv, TypeOK
    <3>2. \A w \in W : \A e \in handled[w] : e.flow = f => e.seq < next[f] /\ e.seq \in Nat
      BY Bounds DEF FlowInv, PlaceInv, Sent, Datagrams, At, Held
    <3> HIDE DEF d
    <3>3. \A w \in W : ~Lies(d, handled[w])
      <4> SUFFICES ASSUME NEW w \in W, NEW e \in handled[w], e.flow = f, next[f] < e.seq PROVE FALSE
        BY <3>1 DEF Lies
      <4>1. e.seq < next[f] /\ e.seq \in Nat
        BY <3>2
      <4> QED BY <3>1, <4>1
    <3>4. \A u \in W \X lost' : u \in W \X lost \/ (u[1] \in W /\ u[2] = d)
      BY <3>1
    <3> QED BY <3>1, <3>3, <3>4, LostPairs
  <2> QED BY <2>1, <2>2
<1>2. LostBetween' = LostBetween
  BY <1>1
<1>3. SeenInv => SeenInv'
  BY DEF SeenInv, HeaderFlows, W
<1> QED BY <1>2, <1>3 DEF LossInv

LEMMA NextLoss == FlowInv /\ LossInv /\ [Next]_vars => LossInv'
<1> SUFFICES ASSUME FlowInv, LossInv, [Next]_vars PROVE LossInv'
  OBVIOUS
<1>1. ASSUME NEW w \in W, Process(w) PROVE LossInv'
  BY <1>1, ProcessLoss DEF LossInv
<1>2. ASSUME NEW f \in Flows, Lose(f) PROVE LossInv'
  <2>1. UNCHANGED <<drops, lastSeq, handled>>
    BY <1>2 DEF Lose, serverVars
  <2> QED BY <1>2, <2>1, NothingHandled
<1>3. ASSUME NEW w \in W, Recv(w) PROVE LossInv'
  <2>1. UNCHANGED <<drops, lastSeq, handled, lost>>
    BY <1>3 DEF Recv
  <2> QED BY <2>1, NothingHandled
<1>4. ASSUME NEW f \in Flows, Deliver(f) PROVE LossInv'
  <2>1. UNCHANGED <<drops, lastSeq, handled, lost>>
    BY <1>4 DEF Deliver
  <2> QED BY <2>1, NothingHandled
<1>5. ASSUME Bind \/ BindFails \/ UNCHANGED vars PROVE LossInv'
  <2>1. UNCHANGED <<drops, lastSeq, handled, lost>>
    BY <1>5 DEF Bind, BindFails, vars
  <2> QED BY <2>1, NothingHandled
<1> QED BY <1>1, <1>2, <1>3, <1>4, <1>5 DEF Next, Finished, W

LEMMA InitLoss == Init => LossInv
<1> SUFFICES ASSUME Init PROVE LossInv
  OBVIOUS
<1>1. /\ lost = {} /\ drops = 0
      /\ \A w \in W : handled[w] = {} /\ DOMAIN lastSeq[w] = {}
  BY DEF Init, W
<1>2. LostBetween = {}
  BY <1>1, LostPairs
<1>3. Cardinality({}) = 0
  BY FS_EmptySet
<1> QED BY <1>1, <1>2, <1>3 DEF LossInv, SeenInv

\* If no two clients use a stream id, the server's drops column is the number of
\* datagrams lost between two that one worker handled, although the workers keep
\* separate maps, share one counter and take over flows from each other while the
\* sockets are bound one after the other (net.rs:388-404, 459-468).
THEOREM DropsAreExact == Spec => []DropsExact
<1>1. Init => FlowInv /\ LossInv
  BY InitFlow, InitLoss
<1>2. FlowInv /\ LossInv /\ [Next]_vars => (FlowInv /\ LossInv)'
  BY NextFlow, NextLoss
<1>3. LossInv => DropsExact
  BY DEF LossInv, DropsExact
<1> QED BY <1>1, <1>2, <1>3, PTL DEF Spec
=============================================================================
