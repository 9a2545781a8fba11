---------------------------- MODULE RxSinkProofs ----------------------------
(***************************************************************************)
(* The receive worker keeps every frame and never gives back one it still  *)
(* has to read, counts every packet, and reports exactly the losses in     *)
(* between as long as packets arrive in order, for every number of frames, *)
(* ring size and set of streams, and for every behaviour of the kernel and *)
(* the network RxSink allows.                                              *)
(***************************************************************************)
EXTENDS RxSink, DistinctSeqs

\* Outside the processing loop the worker holds no frame.
HandsEmpty == pc # "process" => batch = << >> /\ recycle = << >>

IInv == TypeOK /\ HandsEmpty /\ RxFrameConservation

-----------------------------------------------------------------------------
(* The gap rule.                                                            *)

LEMMA GapType ==
    ASSUME NEW last, NEW sid, NEW n \in Nat, \A s \in DOMAIN last : last[s] \in Nat
    PROVE  Gap(last, sid, n) \in Nat
BY DEF Gap

LEMMA InsertType ==
    ASSUME NEW last, NEW sid, NEW n, NEW S, NEW T,
           DOMAIN last \in SUBSET S, \A s \in DOMAIN last : last[s] \in T,
           sid \in S, n \in T
    PROVE  /\ DOMAIN LastSeqInsert(last, sid, n) \in SUBSET S
           /\ \A s \in DOMAIN LastSeqInsert(last, sid, n) :
                LastSeqInsert(last, sid, n)[s] \in T
BY DEF LastSeqInsert

\* enqueue_batch never cuts a batch of recycled addresses short: the fill ring
\* and the batch together hold no more frames than there are, and there are no
\* more than slots.
LEMMA RecycleFits ==
    ASSUME TypeOK, RxFrameConservation
    PROVE  SubSeq(recycle, 1, Lower(Len(recycle), RingSize - Len(fill))) = recycle
<1>1. /\ fill \in Seq(Frames) /\ IsInjective(fill)
      /\ recycle \in Seq(Frames) /\ IsInjective(recycle)
      /\ Range(fill) \cap Range(recycle) = {}
      /\ Range(fill) \cup Range(recycle) \in SUBSET Frames
  BY DEF TypeOK, RxFrameConservation
<1>2. /\ IsFiniteSet(Range(fill)) /\ Cardinality(Range(fill)) = Len(fill)
      /\ IsFiniteSet(Range(recycle)) /\ Cardinality(Range(recycle)) = Len(recycle)
      /\ Len(fill) \in Nat /\ Len(recycle) \in Nat
  BY <1>1, DistinctCardinality, LenProperties, SinkAssumption
<1>3. Cardinality(Range(fill) \cup Range(recycle)) = Len(fill) + Len(recycle)
  <2>1. Cardinality(Range(fill) \cup Range(recycle))
          = Cardinality(Range(fill)) + Cardinality(Range(recycle))
            - Cardinality(Range(fill) \cap Range(recycle))
    BY <1>2, FS_Union
  <2>2. Cardinality(Range(fill) \cap Range(recycle)) = 0
    BY <1>1, FS_EmptySet
  <2> QED BY <1>2, <2>1, <2>2
<1>4. Cardinality(Range(fill) \cup Range(recycle)) <= Cardinality(Frames)
  BY <1>1, FS_Subset, SinkAssumption
<1>5. Len(fill) + Len(recycle) <= RingSize
  <2>1. Cardinality(Frames) \in Nat
    BY FS_CardinalityType, SinkAssumption
  <2> QED BY <1>2, <1>3, <1>4, <2>1, SinkAssumption
<1>6. Lower(Len(recycle), RingSize - Len(fill)) = Len(recycle)
  BY <1>2, <1>5, SinkAssumption DEF Lower
<1>7. SubSeq(recycle, 1, Len(recycle)) = recycle
  BY <1>1
<1> QED BY <1>6, <1>7

-----------------------------------------------------------------------------
LEMMA InitIInv == Init => IInv
<1> SUFFICES ASSUME Init PROVE IInv
  OBVIOUS
<1> USE SinkAssumption DEF Init
<1>1. Cardinality(Frames) \in Nat
  BY FS_CardinalityType
<1>2. /\ fill \in [1..Cardinality(Frames) -> Frames]
      /\ IsInjective(fill)
      /\ \A f \in Frames : \E i \in 1..Cardinality(Frames) : fill[i] = f
  BY DEF Bijection, Injection, Surjection
<1>3. fill \in Seq(Frames)
  BY <1>1, <1>2
<1>4. Range(fill) = Frames
  BY <1>2 DEF Range
<1>5. TypeOK
  <2>1. batch \in Seq(Frames) /\ recycle \in Seq(Frames) /\ rx \in Seq(Frames)
    BY EmptySeq
  <2>2. Blank \in Packets
    BY DEF Blank, Packets, Sources
  <2>3. mem \in [Frames -> Packets] /\ next \in [Sources -> 0..MaxSeq]
    BY <2>2
  <2>4. DOMAIN lastSeq = {}
    OBVIOUS
  <2> QED BY <1>3, <2>1, <2>3, <2>4 DEF TypeOK
<1>6. HandsEmpty
  BY DEF HandsEmpty
<1>7. RxFrameConservation
  <2>1. IsInjective(<< >>) /\ Range(<< >>) = {}
    BY EmptyDistinct
  <2> QED BY <1>2, <1>4, <2>1 DEF RxFrameConservation
<1> QED BY <1>5, <1>6, <1>7 DEF IInv

-----------------------------------------------------------------------------
(* Type correctness, action by action.                                      *)

LEMMA NextType == IInv /\ Next => TypeOK' /\ HandsEmpty'
<1> SUFFICES ASSUME TypeOK, HandsEmpty, RxFrameConservation, Next
             PROVE  TypeOK' /\ HandsEmpty'
  BY DEF IInv
<1> USE SinkAssumption DEF TypeOK, HandsEmpty, workerVars, netVars
<1>1. CASE Exit
  BY <1>1 DEF Exit
<1>2. CASE Poll
  BY <1>2 DEF Poll
<1>3. CASE ConsumeRx
  BY <1>3 DEF ConsumeRx
<1>4. CASE Process
  <2> DEFINE p == mem[Head(batch)]
  <2>1. Head(batch) \in Frames /\ Tail(batch) \in Seq(Frames)
        /\ Append(recycle, Head(batch)) \in Seq(Frames)
    BY <1>4, HeadTailProperties, AppendProperties DEF Process
  <2>2. p \in Packets /\ p.seq \in 0 .. MaxSeq - 1
    BY <2>1 DEF Packets
  <2>3. pkts' \in Nat /\ batch' \in Seq(Frames) /\ recycle' \in Seq(Frames) /\ pc' = "process"
        /\ UNCHANGED <<expired, fill, held, rx, mem, next, wire, lost, overtaken>>
    BY <1>4, <2>1 DEF Process
  <2>4. /\ drops' \in Nat
        /\ DOMAIN lastSeq' \in SUBSET Streams
        /\ \A s \in DOMAIN lastSeq' : lastSeq'[s] \in 0 .. MaxSeq - 1
    <3>1. CASE p.sid \in Streams
      <4>1. drops' = drops + Gap(lastSeq, p.sid, p.seq)
            /\ lastSeq' = LastSeqInsert(lastSeq, p.sid, p.seq)
        BY <1>4, <3>1 DEF Process
      <4> HIDE DEF p
      <4>2. Gap(lastSeq, p.sid, p.seq) \in Nat
        BY <2>2, GapType
      <4>3. /\ DOMAIN LastSeqInsert(lastSeq, p.sid, p.seq) \in SUBSET Streams
            /\ \A s \in DOMAIN LastSeqInsert(lastSeq, p.sid, p.seq) :
                 LastSeqInsert(lastSeq, p.sid, p.seq)[s] \in 0 .. MaxSeq - 1
        <5> DEFINE T == 0 .. MaxSeq - 1
        <5>1. \A s \in DOMAIN lastSeq : lastSeq[s] \in T
          OBVIOUS
        <5>2. p.seq \in T
          BY <2>2
        <5> HIDE DEF T
        <5>3. /\ DOMAIN LastSeqInsert(lastSeq, p.sid, p.seq) \in SUBSET Streams
              /\ \A s \in DOMAIN LastSeqInsert(lastSeq, p.sid, p.seq) :
                   LastSeqInsert(lastSeq, p.sid, p.seq)[s] \in T
          BY <3>1, <5>1, <5>2, InsertType
        <5> QED BY <5>3 DEF T
      <4> QED BY <4>1, <4>2, <4>3
    <3>2. CASE p.sid \notin Streams
      BY <1>4, <3>2 DEF Process
    <3> QED BY <3>1, <3>2
  <2> QED BY <2>3, <2>4
<1>5. CASE Refill
  <2>1. fill' = fill \o recycle
    BY <1>5, RecycleFits DEF Refill
  <2>2. fill' \in Seq(Frames)
    BY <2>1, ConcatProperties
  <2>3. recycle' = << >> /\ batch = << >> /\ pc' = "head"
        /\ UNCHANGED <<batch, lastSeq, pkts, drops, expired, held, rx, mem, next, wire, lost, overtaken>>
    BY <1>5 DEF Refill
  <2> QED BY <2>2, <2>3
<1>6. CASE Expire
  BY <1>6 DEF Expire
<1>7. CASE KernelTakesFrame
  BY <1>7, HeadTailProperties DEF KernelTakesFrame
<1>8. CASE Send
  <2>1. PICK s \in Sources :
          /\ next[s] < MaxSeq
          /\ wire' = wire \cup {[sid |-> s, seq |-> next[s]]}
          /\ next' = [next EXCEPT ![s] = @ + 1]
    BY <1>8 DEF Send
  <2>2. next[s] < MaxSeq /\ next[s] \in Nat
    BY <2>1
  <2>3. wire' \in SUBSET Packets
    <3>1. next[s] \in 0 .. MaxSeq - 1
      BY <2>2
    <3>2. [sid |-> s, seq |-> next[s]] \in Packets
      BY <3>1 DEF Packets
    <3>3. wire \subseteq Packets
      OBVIOUS
    <3> QED BY <2>1, <3>2, <3>3
  <2>4. next' \in [Sources -> 0..MaxSeq]
    BY <2>1, <2>2
  <2> QED BY <1>8, <2>3, <2>4 DEF Send
<1>9. CASE Lose
  BY <1>9 DEF Lose
<1>10. CASE Deliver
  BY <1>10, AppendProperties DEF Deliver
<1>11. CASE Finished
  BY <1>11 DEF Finished, vars
<1> QED BY <1>1, <1>2, <1>3, <1>4, <1>5, <1>6, <1>7, <1>8, <1>9, <1>10, <1>11
        DEF Next, Worker, Kernel
-----------------------------------------------------------------------------
(* Conservation of frames: one lemma per action that moves one.             *)

LEMMA ConsumeRxFrames == IInv /\ ConsumeRx => RxFrameConservation'
<1> SUFFICES ASSUME IInv, ConsumeRx PROVE RxFrameConservation'
  OBVIOUS
<1>1. /\ batch = << >> /\ recycle = << >>
      /\ batch' = rx /\ rx' = << >> /\ recycle' = << >> /\ fill' = fill /\ held' = held
  BY DEF IInv, HandsEmpty, ConsumeRx
<1>2. IsInjective(<< >>) /\ Range(<< >>) = {}
  BY EmptyDistinct
<1> QED BY <1>1, <1>2 DEF IInv, RxFrameConservation

LEMMA ProcessFrames == IInv /\ Process => RxFrameConservation'
<1> SUFFICES ASSUME IInv, Process PROVE RxFrameConservation'
  OBVIOUS
<1>1. /\ batch # << >> /\ batch' = Tail(batch) /\ recycle' = Append(recycle, Head(batch))
      /\ fill' = fill /\ held' = held /\ rx' = rx
  BY DEF Process
<1>2. /\ IsInjective(batch') /\ Head(batch) \in Range(batch)
      /\ Range(batch') = Range(batch) \ {Head(batch)}
  BY <1>1, TailDistinct DEF IInv, TypeOK, RxFrameConservation
<1>3. Head(batch) \in Frames /\ Head(batch) \notin Range(recycle)
  BY <1>2 DEF IInv, RxFrameConservation
<1>4. IsInjective(recycle') /\ Range(recycle') = Range(recycle) \cup {Head(batch)}
  BY <1>1, <1>3, AppendDistinct DEF IInv, TypeOK, RxFrameConservation
<1> QED BY <1>1, <1>2, <1>4 DEF IInv, RxFrameConservation

LEMMA RefillFrames == IInv /\ Refill => RxFrameConservation'
<1> SUFFICES ASSUME IInv, Refill PROVE RxFrameConservation'
  OBVIOUS
<1>1. /\ fill' = fill \o recycle /\ recycle' = << >>
      /\ batch' = batch /\ held' = held /\ rx' = rx
  BY RecycleFits DEF IInv, Refill
<1>2. IsInjective(fill') /\ Range(fill') = Range(fill) \cup Range(recycle)
  BY <1>1, ConcatDistinct DEF IInv, TypeOK, RxFrameConservation
<1>3. IsInjective(recycle') /\ Range(recycle') = {}
  BY <1>1, EmptyDistinct
<1> QED BY <1>1, <1>2, <1>3 DEF IInv, RxFrameConservation

LEMMA KernelTakesFrames == IInv /\ KernelTakesFrame => RxFrameConservation'
<1> SUFFICES ASSUME IInv, KernelTakesFrame PROVE RxFrameConservation'
  OBVIOUS
<1>1. /\ fill # << >> /\ fill' = Tail(fill) /\ held' = held \cup {Head(fill)}
      /\ batch' = batch /\ recycle' = recycle /\ rx' = rx
  BY DEF KernelTakesFrame, workerVars
<1>2. /\ IsInjective(fill') /\ Head(fill) \in Range(fill)
      /\ Range(fill') = Range(fill) \ {Head(fill)}
  BY <1>1, TailDistinct DEF IInv, TypeOK, RxFrameConservation
<1> QED BY <1>1, <1>2 DEF IInv, RxFrameConservation

LEMMA DeliverFrames == IInv /\ Deliver => RxFrameConservation'
<1> SUFFICES ASSUME IInv, Deliver PROVE RxFrameConservation'
  OBVIOUS
<1>1. PICK f \in held : held' = held \ {f} /\ rx' = Append(rx, f)
  BY DEF Deliver
<1>2. batch' = batch /\ recycle' = recycle /\ fill' = fill
  BY DEF Deliver, workerVars
<1>3. IsInjective(rx') /\ Range(rx') = Range(rx) \cup {f}
  BY <1>1, AppendDistinct DEF IInv, TypeOK, RxFrameConservation
<1> QED BY <1>1, <1>2, <1>3 DEF IInv, RxFrameConservation

LEMMA NextIInv == IInv /\ [Next]_vars => IInv'
<1> SUFFICES ASSUME IInv, [Next]_vars PROVE IInv'
  OBVIOUS
<1>1. CASE UNCHANGED vars
  BY <1>1 DEF IInv, TypeOK, HandsEmpty, RxFrameConservation, vars
<1>2. CASE Next
  <2>1. TypeOK' /\ HandsEmpty'
    BY <1>2, NextType
  <2>2. ASSUME UNCHANGED <<fill, held, rx, batch, recycle>> PROVE RxFrameConservation'
    BY <2>2 DEF IInv, RxFrameConservation
  <2>3. ASSUME Exit \/ Poll \/ Expire \/ Send \/ Lose \/ Finished PROVE RxFrameConservation'
    BY <2>2, <2>3 DEF Exit, Poll, Expire, Send, Lose, Finished, vars, workerVars
  <2>4. RxFrameConservation'
    BY <1>2, <2>3, ConsumeRxFrames, ProcessFrames, RefillFrames, KernelTakesFrames,
       DeliverFrames DEF Next, Worker, Kernel
  <2> QED BY <2>1, <2>4 DEF IInv
<1> QED BY <1>1, <1>2

-----------------------------------------------------------------------------
\* The inductive invariant of the receive worker: types, empty hands outside the
\* processing loop, and every frame in exactly one place (sink.rs:65-102).
THEOREM SinkInvariant == Spec => []IInv
BY InitIInv, NextIInv, PTL DEF Spec

\* rx_loop's frames, rings and last_seq stay in their ranges, for every number of
\* frames and set of streams (sink.rs:65-102).
THEOREM TypeCorrect == Spec => []TypeOK
<1>1. IInv => TypeOK
  BY DEF IInv
<1> QED BY <1>1, SinkInvariant, PTL

\* No frame of the RX half is ever lost or duplicated although the result of
\* enqueue_batch is ignored (sink.rs:100).
THEOREM RxFramesConserved == Spec => []RxFrameConservation
<1>1. IInv => RxFrameConservation
  BY DEF IInv
<1> QED BY <1>1, SinkInvariant, PTL

\* The bytes the worker has still to read are never overwritten: the kernel only
\* writes frames it holds, and those are neither in the RX ring nor in the batch
\* (sink.rs:83-100).
THEOREM UnreadFramesUntouched == Spec => UnreadFramesStable
<1> DEFINE Stable == \A f \in Range(rx) \cup Range(batch) : mem'[f] = mem[f]
<1>1. IInv /\ [Next]_vars => [Stable]_vars
  <2> SUFFICES ASSUME IInv, Next PROVE Stable
    OBVIOUS
  <2>1. CASE Deliver
    <3>1. PICK p \in wire, f \in held : mem' = [mem EXCEPT ![f] = p]
      BY <2>1 DEF Deliver
    <3>2. \A g \in Range(rx) \cup Range(batch) : g # f /\ g \in Frames
      BY DEF IInv, RxFrameConservation
    <3> QED BY <3>1, <3>2 DEF IInv, TypeOK
  <2>2. ASSUME UNCHANGED mem PROVE Stable
    BY <2>2
  <2> QED BY <2>1, <2>2 DEF Next, Worker, Kernel, Exit, Poll, ConsumeRx, Process, Refill,
             Expire, KernelTakesFrame, Send, Lose, Finished, vars
<1> QED BY <1>1, SinkInvariant, PTL DEF Spec, UnreadFramesStable

-----------------------------------------------------------------------------
(* The exchange of frames with the kernel.                                  *)

\* What waits is in the batch in hand or in the RX ring.
LEMMA WaitingElements ==
    ASSUME TypeOK
    PROVE  /\ Waiting \in Seq(Frames) /\ Len(Waiting) \in Nat
           /\ {Waiting[i] : i \in 1..Len(Waiting)} = Range(batch) \cup Range(rx)
<1>1. batch \in Seq(Frames) /\ rx \in Seq(Frames)
  BY DEF TypeOK
<1>2. /\ Len(Waiting) = Len(batch) + Len(rx) /\ Waiting \in Seq(Frames)
      /\ \A i \in 1..Len(batch) : Waiting[i] = batch[i]
      /\ \A i \in 1..Len(rx) : Waiting[Len(batch) + i] = rx[i]
  BY <1>1 DEF Waiting
<1>3. Len(batch) \in Nat /\ Len(rx) \in Nat
  BY <1>1
<1>4. ASSUME NEW i \in 1..Len(Waiting) PROVE Waiting[i] \in Range(batch) \cup Range(rx)
  <2>1. CASE i <= Len(batch)
    BY <1>1, <1>2, <1>3, <2>1, SeqElements
  <2>2. CASE i > Len(batch)
    <3>1. i - Len(batch) \in 1..Len(rx) /\ i = Len(batch) + (i - Len(batch))
      BY <1>2, <1>3, <2>2
    <3>2. Waiting[i] = rx[i - Len(batch)]
      BY <1>2, <3>1
    <3> QED BY <1>1, <3>1, <3>2, SeqElements
  <2> QED BY <1>2, <1>3, <2>1, <2>2
<1>5. ASSUME NEW f \in Range(batch) PROVE \E i \in 1..Len(Waiting) : Waiting[i] = f
  <2>1. PICK i \in 1..Len(batch) : batch[i] = f
    BY <1>1, SeqElements
  <2> QED BY <1>2, <1>3, <2>1
<1>6. ASSUME NEW f \in Range(rx) PROVE \E i \in 1..Len(Waiting) : Waiting[i] = f
  <2>1. PICK i \in 1..Len(rx) : rx[i] = f
    BY <1>1, SeqElements
  <2>2. Len(batch) + i \in 1..Len(Waiting)
    BY <1>2, <1>3
  <2> QED BY <1>2, <2>1, <2>2
<1> QED BY <1>2, <1>3, <1>4, <1>5, <1>6

\* The frames the abstract exchange has out are those of the RX ring, the batch
\* and the list of frames to give back.
LEMMA RxFramesOut ==
    ASSUME TypeOK
    PROVE  Exchange!Out = Range(batch) \cup Range(rx) \cup Range(recycle)
<1>1. Len(RxQueue) = Len(Waiting)
  BY WaitingElements DEF RxQueue
<1>2. \A f : Loaded(f).frame = f
  BY DEF Loaded
<1>3. {RxQueue[i].frame : i \in 1..Len(RxQueue)} = {Waiting[i] : i \in 1..Len(Waiting)}
  <2>1. \A i \in 1..Len(Waiting) : RxQueue[i].frame = Waiting[i]
    BY <1>2 DEF RxQueue
  <2> QED BY <1>1, <2>1
<1>4. {c.frame : c \in ReadFrames} = Range(recycle)
  BY <1>2, Zenon DEF ReadFrames
<1> QED BY <1>3, <1>4, WaitingElements DEF Exchange!Out

\* The kernel delivers into a frame it holds, so one that is not out.
LEMMA DeliverSubmits == IInv /\ Deliver => Exchange!Submit
<1> SUFFICES ASSUME IInv, Deliver PROVE Exchange!Submit
  OBVIOUS
<1>1. PICK p \in wire, f \in held : mem' = [mem EXCEPT ![f] = p] /\ rx' = Append(rx, f)
                                  /\ batch' = batch /\ recycle' = recycle
  BY DEF Deliver, workerVars
<1>2. /\ p \in Packets /\ f \in Frames /\ mem \in [Frames -> Packets]
      /\ batch \in Seq(Frames) /\ rx \in Seq(Frames) /\ recycle \in Seq(Frames)
  BY DEF IInv, TypeOK
<1>3. f \in Frames \ Exchange!Out
  BY <1>2, RxFramesOut DEF IInv, RxFrameConservation
<1>4. f \notin Range(batch) \cup Range(rx) \cup Range(recycle)
  BY DEF IInv, RxFrameConservation
<1>5. /\ Waiting \in Seq(Frames) /\ Len(Waiting) \in Nat
      /\ \A i \in 1..Len(Waiting) : Waiting[i] \in Frames /\ Waiting[i] # f
  <2>1. TypeOK
    BY DEF IInv
  <2>2. \A i \in 1..Len(Waiting) : Waiting[i] \in Range(batch) \cup Range(rx)
    BY <2>1, WaitingElements
  <2>3. Waiting \in Seq(Frames) /\ Len(Waiting) \in Nat
    BY <2>1, WaitingElements
  <2>4. Range(batch) \cup Range(rx) \in SUBSET Frames
    BY <1>2, SeqElements
  <2> QED BY <1>4, <2>2, <2>3, <2>4
<1>6. Waiting' = Append(Waiting, f)
  BY <1>1, <1>2 DEF Waiting
<1>7. RxQueue' = Append(RxQueue, [frame |-> f, data |-> p])
  <2>1. /\ Len(Waiting') = Len(Waiting) + 1 /\ Waiting'[Len(Waiting) + 1] = f
        /\ \A i \in 1..Len(Waiting) : Waiting'[i] = Waiting[i]
    BY <1>2, <1>5, <1>6
  <2>2. mem'[f] = p /\ \A i \in 1..Len(Waiting) : mem'[Waiting[i]] = mem[Waiting[i]]
    BY <1>1, <1>2, <1>5
  <2> QED BY <1>5, <2>1, <2>2 DEF RxQueue, Loaded
<1>8. ReadFrames' = ReadFrames
  <2>1. \A g \in Range(recycle) : mem'[g] = mem[g]
    BY <1>1, <1>2, <1>4, SeqElements
  <2> QED BY <1>1, <2>1 DEF ReadFrames, Loaded
<1> QED BY <1>2, <1>3, <1>7, <1>8 DEF Exchange!Submit

\* The worker processes the oldest frame waiting, with what was delivered.
LEMMA ProcessTakes == IInv /\ Process => Exchange!Take
<1> SUFFICES ASSUME IInv, Process PROVE Exchange!Take
  OBVIOUS
<1>1. /\ batch # << >> /\ batch' = Tail(batch) /\ recycle' = Append(recycle, Head(batch))
      /\ rx' = rx /\ mem' = mem
  BY DEF Process
<1>2. batch \in Seq(Frames) /\ rx \in Seq(Frames) /\ recycle \in Seq(Frames)
  BY DEF IInv, TypeOK
<1>3. /\ Waiting \in Seq(Frames) /\ Waiting # << >> /\ Len(Waiting) \in Nat \ {0}
      /\ Head(Waiting) = Head(batch) /\ Head(batch) \in Frames
  BY <1>1, <1>2 DEF Waiting
<1>4. Waiting' = Tail(Waiting)
  BY <1>1, <1>2 DEF Waiting
<1>5. RxQueue # << >> /\ Head(RxQueue) = Loaded(Head(batch))
  BY <1>3 DEF RxQueue
<1>6. RxQueue' = Tail(RxQueue)
  <2>1. Len(Waiting') = Len(Waiting) - 1
        /\ \A i \in 1 .. Len(Waiting) - 1 : Waiting'[i] = Waiting[i + 1]
    BY <1>3, <1>4
  <2> QED BY <1>1, <1>3, <2>1 DEF RxQueue, Loaded
<1>7. ReadFrames' = ReadFrames \cup {Loaded(Head(batch))}
  <2>1. Range(recycle') = Range(recycle) \cup {Head(batch)}
    BY <1>1, <1>2, <1>3, AppendDistinct
  <2> QED BY <1>1, <2>1 DEF ReadFrames, Loaded
<1> QED BY <1>5, <1>6, <1>7 DEF Exchange!Take

\* Only frames that have been read go back through the fill ring.
LEMMA RefillReleases == IInv /\ Refill => Exchange!Release
<1> SUFFICES ASSUME IInv, Refill PROVE Exchange!Release
  OBVIOUS
<1>1. UNCHANGED <<batch, rx, mem>> /\ recycle' = << >>
  BY DEF Refill
<1>2. ReadFrames' = {}
  BY <1>1, EmptyDistinct DEF ReadFrames
<1>3. RxQueue' = RxQueue
  BY <1>1 DEF RxQueue, Waiting, Loaded
<1> QED BY <1>2, <1>3 DEF Exchange!Release

\* The kernel and the receive worker implement the exchange of frames (rx_loop,
\* sink.rs:83-100), for every number of frames, size of the rings and order in
\* which packets come in.
THEOREM RxImplementsExchange == Spec => RxExchange
<1>1. Init => Exchange!Init
  <2> SUFFICES ASSUME Init PROVE Exchange!Init
    OBVIOUS
  <2>1. Waiting = << >> /\ Range(recycle) = {}
    BY EmptyDistinct DEF Init, Waiting
  <2> QED BY <2>1 DEF Exchange!Init, RxQueue, ReadFrames
<1>2. IInv /\ [Next]_vars => [Exchange!Next]_(Exchange!vars)
  <2> SUFFICES ASSUME IInv, [Next]_vars
               PROVE  Exchange!Next \/ UNCHANGED <<RxQueue, ReadFrames>>
    BY DEF Exchange!vars
  <2>1. ASSUME Waiting' = Waiting, UNCHANGED <<recycle, mem>> PROVE UNCHANGED <<RxQueue, ReadFrames>>
    BY <2>1 DEF RxQueue, ReadFrames, Loaded
  <2>2. CASE ConsumeRx
    <3>1. /\ batch = << >> /\ recycle = << >> /\ rx \in Seq(Frames)
          /\ batch' = rx /\ rx' = << >> /\ recycle' = << >> /\ mem' = mem
      BY <2>2 DEF ConsumeRx, IInv, HandsEmpty, TypeOK
    <3>2. Waiting' = Waiting
      BY <3>1 DEF Waiting
    <3> QED BY <2>1, <3>1, <3>2
  <2>3. CASE Process
    BY <2>3, ProcessTakes DEF Exchange!Next
  <2>4. CASE Refill
    BY <2>4, RefillReleases DEF Exchange!Next
  <2>5. CASE Deliver
    BY <2>5, DeliverSubmits DEF Exchange!Next
  <2>6. CASE Exit \/ Poll \/ Expire \/ KernelTakesFrame \/ Send \/ Lose \/ Finished \/ UNCHANGED vars
    <3>1. UNCHANGED <<batch, rx, recycle, mem>>
      BY <2>6 DEF Exit, Poll, Expire, KernelTakesFrame, Send, Lose, Finished, vars, workerVars
    <3> QED BY <2>1, <3>1 DEF Waiting
  <2> QED BY <2>2, <2>3, <2>4, <2>5, <2>6 DEF Next, Worker, Kernel
<1> QED BY <1>1, <1>2, SinkInvariant, PTL DEF Spec, RxExchange, Exchange!Spec

-----------------------------------------------------------------------------
(* Packets.  Each one sent is in exactly one place: lost, on the wire,      *)
(* waiting in a frame, or processed.                                        *)

Unread == Range(rx) \cup Range(batch)
Pending == {mem[f] : f \in Unread}
Processed == {p \in Sent : p \notin lost \cup wire \cup Pending}

NetInv ==
    /\ wire \subseteq Sent /\ lost \subseteq Sent /\ wire \cap lost = {}
    /\ Pending \subseteq Sent /\ Pending \cap (wire \cup lost) = {}
    /\ \A f, g \in Unread : mem[f] = mem[g] => f = g

LEMMA FinitePackets == IsFiniteSet(Packets)
<1> DEFINE I == 0 .. MaxSeq - 1
           f == [u \in Sources \X I |-> [sid |-> u[1], seq |-> u[2]]]
<1>1. IsFiniteSet(Sources)
  BY SinkAssumption, FS_AddElement DEF Sources
<1>2. IsFiniteSet(I)
  BY SinkAssumption, FS_Interval
<1> HIDE DEF I
<1>3. IsFiniteSet(Sources \X I)
  BY <1>1, <1>2, FS_Product
<1>4. f \in Surjection(Sources \X I, [sid : Sources, seq : I])
  <2>1. f \in [Sources \X I -> [sid : Sources, seq : I]]
    OBVIOUS
  <2>2. ASSUME NEW p \in [sid : Sources, seq : I] PROVE \E u \in Sources \X I : f[u] = p
    <3>1. <<p.sid, p.seq>> \in Sources \X I /\ f[<<p.sid, p.seq>>] = p
      OBVIOUS
    <3> QED BY <3>1
  <2> QED BY <2>1, <2>2 DEF Surjection
<1> HIDE DEF f
<1>5. IsFiniteSet([sid : Sources, seq : I])
  BY <1>3, <1>4, FS_Surjection
<1> QED BY <1>5 DEF Packets, I

LEMMA FiniteNet ==
    ASSUME TypeOK
    PROVE  /\ IsFiniteSet(Sent) /\ IsFiniteSet(wire) /\ IsFiniteSet(lost)
           /\ Cardinality(Sent) \in Nat /\ Cardinality(wire) \in Nat /\ Cardinality(lost) \in Nat
<1>1. IsFiniteSet(Sent) /\ IsFiniteSet(wire) /\ IsFiniteSet(lost)
  BY FinitePackets, FS_Subset DEF TypeOK, Sent
<1> QED BY <1>1, FS_CardinalityType

\* What a step of the network does to the packets.
LEMMA SendPackets ==
    ASSUME IInv, NetInv, Send
    PROVE  \E p \in Packets : /\ p \notin Sent /\ Sent' = Sent \cup {p} /\ wire' = wire \cup {p}
                             /\ \A q \in Sent : q.sid = p.sid => q.seq < p.seq
<1>1. PICK s \in Sources :
        /\ next[s] < MaxSeq
        /\ wire' = wire \cup {[sid |-> s, seq |-> next[s]]}
        /\ next' = [next EXCEPT ![s] = @ + 1]
  BY DEF Send
<1> DEFINE p == [sid |-> s, seq |-> next[s]]
<1>2. next[s] \in Nat /\ next \in [Sources -> 0..MaxSeq] /\ MaxSeq \in Nat
  BY SinkAssumption DEF IInv, TypeOK
<1>3. p \in Packets /\ p \notin Sent
  BY <1>1, <1>2 DEF Packets, Sent
<1>4. ASSUME NEW q \in Packets PROVE q.seq < next'[q.sid] <=> q.seq < next[q.sid] \/ q = p
  <2>1. q = [sid |-> q.sid, seq |-> q.seq] /\ q.sid \in Sources /\ q.seq \in Nat /\ next[q.sid] \in Nat
    BY <1>2, SinkAssumption DEF Packets
  <2>2. CASE q.sid = s
    <3>1. q.seq < next'[s] <=> q.seq < next[s] \/ q.seq = next[s]
      BY <1>1, <1>2, <2>1
    <3> QED BY <2>1, <2>2, <3>1
  <2>3. CASE q.sid # s
    BY <1>1, <1>2, <2>1, <2>3
  <2> QED BY <2>2, <2>3
<1>5. Sent' = Sent \cup {p}
  BY <1>3, <1>4 DEF Sent
<1>6. \A q \in Sent : q.sid = s => q.seq < next[s]
  BY DEF Sent
<1> QED BY <1>1, <1>3, <1>5, <1>6

LEMMA SameFrames ==
    ASSUME UNCHANGED <<rx, batch, mem>>
    PROVE  Unread' = Unread /\ Pending' = Pending
<1>1. Unread' = Unread
  BY DEF Unread
<1> QED BY <1>1 DEF Pending

LEMMA SendNet == IInv /\ NetInv /\ Send => NetInv' /\ Processed' = Processed
<1> SUFFICES ASSUME IInv, NetInv, Send PROVE NetInv' /\ Processed' = Processed
  OBVIOUS
<1>1. PICK p \in Packets : p \notin Sent /\ Sent' = Sent \cup {p} /\ wire' = wire \cup {p}
  BY SendPackets
<1>2. lost' = lost /\ mem' = mem /\ Unread' = Unread /\ Pending' = Pending
  BY SameFrames DEF Send, workerVars
<1> QED BY <1>1, <1>2 DEF NetInv, Processed

LEMMA LoseNet == IInv /\ NetInv /\ Lose => NetInv' /\ Processed' = Processed
<1> SUFFICES ASSUME IInv, NetInv, Lose PROVE NetInv' /\ Processed' = Processed
  OBVIOUS
<1>1. PICK p \in wire : wire' = wire \ {p} /\ lost' = lost \cup {p}
  BY DEF Lose
<1>2. next' = next /\ mem' = mem /\ Unread' = Unread /\ Pending' = Pending
  BY SameFrames DEF Lose, workerVars
<1>3. Sent' = Sent
  BY <1>2 DEF Sent
<1> QED BY <1>1, <1>2, <1>3 DEF NetInv, Processed

\* Deliver moves a packet from the wire into a frame that was not waiting.
LEMMA DeliverNet ==
    ASSUME IInv, NetInv, Deliver
    PROVE  /\ NetInv' /\ Processed' = Processed
           /\ \E p \in wire : Pending' = Pending \cup {p} /\ wire' = wire \ {p}
<1>1. PICK p \in wire, f \in held :
        mem' = [mem EXCEPT ![f] = p] /\ rx' = Append(rx, f) /\ wire' = wire \ {p}
  BY DEF Deliver
<1>2. batch' = batch /\ next' = next /\ lost' = lost /\ Sent' = Sent
  BY DEF Deliver, workerVars, Sent
<1>3. Unread' = Unread \cup {f} /\ f \notin Unread /\ Unread \subseteq Frames /\ f \in Frames
  BY <1>1, <1>2, AppendDistinct DEF IInv, TypeOK, RxFrameConservation, Unread
<1>4. mem'[f] = p /\ \A g \in Unread : mem'[g] = mem[g]
  BY <1>1, <1>3 DEF IInv, TypeOK
<1>5. Pending' = Pending \cup {p}
  BY <1>3, <1>4 DEF Pending
<1>6. \A g \in Unread : mem[g] # p
  BY DEF NetInv, Pending
<1>7. \A g, h \in Unread' : mem'[g] = mem'[h] => g = h
  BY <1>3, <1>4, <1>6 DEF NetInv
<1>8. NetInv'
  BY <1>1, <1>2, <1>5, <1>7 DEF NetInv
<1>9. Processed' = Processed
  BY <1>1, <1>2, <1>5 DEF NetInv, Processed
<1> QED BY <1>1, <1>5, <1>8, <1>9

\* Process takes the packet of the first frame of the batch.
LEMMA ProcessNet ==
    ASSUME IInv, NetInv, Process
    PROVE  /\ NetInv' /\ Head(batch) \in Unread /\ mem[Head(batch)] \in Pending
           /\ Processed' = Processed \cup {mem[Head(batch)]}
           /\ Pending' = Pending \ {mem[Head(batch)]}
<1> DEFINE h == Head(batch)
<1>1. batch # << >> /\ batch' = Tail(batch) /\ UNCHANGED <<rx, mem, next, wire, lost>>
  BY DEF Process, netVars
<1>2. h \in Range(batch) /\ Range(batch') = Range(batch) \ {h}
  BY <1>1, TailDistinct DEF IInv, TypeOK, RxFrameConservation
<1>3. h \in Unread /\ Unread' = Unread \ {h} /\ Sent' = Sent
  BY <1>1, <1>2 DEF IInv, RxFrameConservation, Unread, Sent
<1> HIDE DEF h
<1>4. Pending' = Pending \ {mem[h]} /\ mem[h] \in Pending
  BY <1>1, <1>3 DEF Pending, NetInv
<1>5. NetInv'
  BY <1>1, <1>3, <1>4 DEF NetInv
<1>6. Processed' = Processed \cup {mem[h]}
  BY <1>1, <1>3, <1>4 DEF NetInv, Processed
<1> QED BY <1>3, <1>4, <1>5, <1>6 DEF h

\* The other steps move no packet.
LEMMA OtherNet ==
    ASSUME IInv, NetInv, [Next]_vars, ~(Send \/ Lose \/ Deliver \/ Process)
    PROVE  /\ NetInv' /\ Processed' = Processed /\ Pending' = Pending
           /\ UNCHANGED <<mem, next, wire, lost, Sent, pkts, drops, lastSeq, overtaken>>
           /\ UNCHANGED <<rx, batch>> \/ (batch = << >> /\ batch' = rx /\ rx' = << >>)
<1>1. UNCHANGED <<mem, next, wire, lost, pkts, drops, lastSeq, overtaken>>
  BY DEF Next, Worker, Kernel, Exit, Poll, ConsumeRx, Refill, Expire, KernelTakesFrame, Finished,
         vars, workerVars, netVars
<1>2. \/ UNCHANGED <<rx, batch>>
      \/ batch = << >> /\ batch' = rx /\ rx' = << >>
  BY DEF Next, Worker, Kernel, Exit, Poll, ConsumeRx, Refill, Expire, KernelTakesFrame, Finished,
         vars, workerVars, IInv, HandsEmpty
<1>3. Range(<< >>) = {}
  BY EmptyDistinct
<1>4. Unread' = Unread
  BY <1>2, <1>3 DEF Unread
<1>5. Pending' = Pending /\ Sent' = Sent
  BY <1>1, <1>4 DEF Pending, Sent
<1> QED BY <1>1, <1>2, <1>4, <1>5 DEF NetInv, Processed
-----------------------------------------------------------------------------
LEMMA InitNet == Init => NetInv /\ EveryDeliveredPacketCounted /\ Processed = {}
<1> SUFFICES ASSUME Init PROVE NetInv /\ EveryDeliveredPacketCounted /\ Processed = {}
  OBVIOUS
<1>1. Sent = {}
  BY SinkAssumption DEF Init, Sent, Packets
<1>2. Unread = {} /\ Pending = {}
  BY EmptyDistinct DEF Init, Unread, Pending
<1>3. Cardinality({}) = 0
  BY FS_EmptySet
<1> QED BY <1>1, <1>2, <1>3 DEF Init, NetInv, Processed, EveryDeliveredPacketCounted, PacketsSent

LEMMA NextNet == IInv /\ NetInv /\ [Next]_vars => NetInv'
BY SendNet, LoseNet, DeliverNet, ProcessNet, OtherNet

LEMMA NextCounted ==
    IInv /\ NetInv /\ EveryDeliveredPacketCounted /\ [Next]_vars => EveryDeliveredPacketCounted'
<1> SUFFICES ASSUME IInv, NetInv, EveryDeliveredPacketCounted, [Next]_vars
             PROVE  EveryDeliveredPacketCounted'
  OBVIOUS
<1> USE DEF EveryDeliveredPacketCounted, PacketsSent
<1>1. /\ IsFiniteSet(Sent) /\ IsFiniteSet(wire) /\ IsFiniteSet(lost)
      /\ Cardinality(Sent) \in Nat /\ Cardinality(wire) \in Nat /\ Cardinality(lost) \in Nat
      /\ Len(rx) \in Nat /\ Len(batch) \in Nat /\ pkts \in Nat
  BY FiniteNet, LenProperties DEF IInv, TypeOK
<1>2. CASE Send
  <2>1. PICK p \in Packets : p \notin Sent /\ Sent' = Sent \cup {p} /\ wire' = wire \cup {p}
    BY <1>2, SendPackets
  <2>2. Cardinality(Sent') = Cardinality(Sent) + 1 /\ Cardinality(wire') = Cardinality(wire) + 1
    BY <1>1, <2>1, FS_AddElement DEF NetInv
  <2> QED BY <1>1, <1>2, <2>2 DEF Send, workerVars
<1>3. CASE Lose
  <2>1. PICK p \in wire : wire' = wire \ {p} /\ lost' = lost \cup {p}
    BY <1>3 DEF Lose
  <2>2. Cardinality(wire') = Cardinality(wire) - 1
    BY <1>1, <2>1, FS_RemoveElement
  <2>3. Cardinality(lost') = Cardinality(lost) + 1
    BY <1>1, <2>1, FS_AddElement DEF NetInv
  <2>4. UNCHANGED <<Sent, rx, batch, pkts>>
    BY <1>3 DEF Lose, workerVars, Sent
  <2>5. UNCHANGED <<Cardinality(Sent), Len(rx), Len(batch), pkts>>
    BY <2>4
  <2> QED BY <1>1, <2>2, <2>3, <2>5
<1>4. CASE Deliver
  <2>1. PICK p \in wire, f \in held : wire' = wire \ {p} /\ rx' = Append(rx, f)
    BY <1>4 DEF Deliver
  <2>2. Cardinality(wire') = Cardinality(wire) - 1
    BY <1>1, <2>1, FS_RemoveElement
  <2>3. Len(rx') = Len(rx) + 1
    BY <1>1, <2>1, AppendProperties DEF IInv, TypeOK
  <2>4. UNCHANGED <<Sent, lost, batch, pkts>>
    BY <1>4 DEF Deliver, workerVars, Sent
  <2>5. UNCHANGED <<Cardinality(Sent), Cardinality(lost), Len(batch), pkts>>
    BY <2>4
  <2>6. \A a, m, n \in Nat : (a + (m - 1)) + (n + 1) = (a + m) + n
    OBVIOUS
  <2>7. Cardinality(lost) \in Nat /\ Cardinality(wire) \in Nat /\ Len(rx) \in Nat
    BY <1>1
  <2>8. Cardinality(lost) + (Cardinality(wire) - 1) + (Len(rx) + 1)
          = Cardinality(lost) + Cardinality(wire) + Len(rx)
    BY <2>6, <2>7, Zenon
  <2> QED BY <2>2, <2>3, <2>5, <2>8
<1>5. CASE Process
  <2>1. batch # << >> /\ batch' = Tail(batch) /\ pkts' = pkts + 1
    BY <1>5 DEF Process
  <2>2. Len(batch') = Len(batch) - 1
    BY <2>1, HeadTailProperties DEF IInv, TypeOK
  <2>3. UNCHANGED <<Sent, lost, wire, rx>>
    BY <1>5 DEF Process, netVars, Sent
  <2>4. UNCHANGED <<Cardinality(Sent), Cardinality(lost), Cardinality(wire), Len(rx)>>
    BY <2>3
  <2>5. pkts' = pkts + 1
    BY <2>1
  <2>6. \A a, n, k \in Nat : (a + (n - 1)) + (k + 1) = (a + n) + k
    OBVIOUS
  <2>7. Cardinality(lost) + Cardinality(wire) + Len(rx) \in Nat
    BY <1>1
  <2>8. Cardinality(lost) + Cardinality(wire) + Len(rx) + (Len(batch) - 1) + (pkts + 1)
          = Cardinality(lost) + Cardinality(wire) + Len(rx) + Len(batch) + pkts
    BY <1>1, <2>6, <2>7
  <2> QED BY <2>2, <2>4, <2>5, <2>8
<1>6. CASE ~(Send \/ Lose \/ Deliver \/ Process)
  <2>1. /\ UNCHANGED <<wire, lost, Sent, pkts>>
        /\ UNCHANGED <<rx, batch>> \/ (batch = << >> /\ batch' = rx /\ rx' = << >>)
    BY <1>6, OtherNet
  <2>2. Len(<< >>) = 0
    OBVIOUS
  <2>3. UNCHANGED <<Cardinality(Sent), Cardinality(lost), Cardinality(wire), pkts>>
    BY <2>1
  <2>4. CASE UNCHANGED <<rx, batch>>
    <3>1. UNCHANGED <<Len(rx), Len(batch)>>
      BY <2>4
    <3> QED BY <2>3, <3>1
  <2>5. CASE batch = << >> /\ batch' = rx /\ rx' = << >>
    <3>1. Len(batch) = 0 /\ Len(rx') = 0 /\ Len(batch') = Len(rx)
      BY <2>2, <2>5
    <3> QED BY <1>1, <2>3, <3>1
  <2> QED BY <2>1, <2>4, <2>5
<1> QED BY <1>2, <1>3, <1>4, <1>5, <1>6

\* No packet handed to the worker escapes the count, and none is counted twice:
\* whatever the rings' size, all that was sent is lost, under way, waiting or
\* counted (sink.rs:77-87).
THEOREM EveryPacketCounted == Spec => []EveryDeliveredPacketCounted
<1> DEFINE CInv == IInv /\ NetInv /\ EveryDeliveredPacketCounted
<1>1. Init => CInv
  BY InitIInv, InitNet
<1>2. CInv /\ [Next]_vars => CInv'
  BY NextIInv, NextNet, NextCounted
<1> QED BY <1>1, <1>2, PTL DEF Spec
-----------------------------------------------------------------------------
(* The gap rule.  drops is compared with the numbers the rule should have   *)
(* counted: not processed, with a processed one of their stream below and   *)
(* the last one processed above.                                            *)

Missing ==
    {p \in Packets : /\ p.sid \in DOMAIN lastSeq /\ p.seq < lastSeq[p.sid] /\ p \notin Processed
                     /\ \E q \in Processed : q.sid = p.sid /\ q.seq < p.seq}

SeenInv ==
    /\ \A p \in Processed : p.sid \in Streams => p.sid \in DOMAIN lastSeq
    /\ \A s \in DOMAIN lastSeq : [sid |-> s, seq |-> lastSeq[s]] \in Processed

Before(p, q) == p.sid = q.sid => p.seq < q.seq

Ordered(q) == \A i, j \in 1..Len(q) : i < j => Before(mem[q[i]], mem[q[j]])

\* Without overtaking every stream is processed, waits and travels in order.
InOrder ==
    /\ \A p \in Processed, q \in Pending \cup wire : Before(p, q)
    /\ \A p \in Pending, q \in wire : Before(p, q)
    /\ \A p \in Processed : p.sid \in Streams => p.seq <= lastSeq[p.sid]
    /\ Ordered(batch) /\ Ordered(rx)
    /\ \A f \in Range(batch), g \in Range(rx) : Before(mem[f], mem[g])

LossInv ==
    /\ SeenInv
    /\ drops >= Cardinality(Missing)
    /\ ~overtaken => InOrder /\ drops = Cardinality(Missing)

LEMMA FiniteMissing == IsFiniteSet(Missing) /\ Cardinality(Missing) \in Nat
BY FinitePackets, FS_Subset, FS_CardinalityType DEF Missing

\* The numbers of stream s strictly between l and n.
Between(s, l, n) == {[sid |-> s, seq |-> m] : m \in l + 1 .. n - 1}

LEMMA BetweenSize ==
    ASSUME NEW s, NEW l \in Nat, NEW n \in Nat, n > l
    PROVE  IsFiniteSet(Between(s, l, n)) /\ Cardinality(Between(s, l, n)) = n - l - 1
<1> DEFINE I == l + 1 .. n - 1
           f == [m \in I |-> [sid |-> s, seq |-> m]]
<1>1. IsFiniteSet(I) /\ Cardinality(I) = n - l - 1
  <2>1. l + 1 \in Int /\ n - 1 \in Int
    OBVIOUS
  <2>2. IsFiniteSet(I) /\ Cardinality(I) = IF l + 1 > n - 1 THEN 0 ELSE n - 1 - (l + 1) + 1
    BY <2>1, FS_Interval
  <2> QED BY <2>2
<1>2. f \in Surjection(I, Between(s, l, n)) /\ f \in Injection(I, Between(s, l, n))
  <2> HIDE DEF I
  <2>1. Between(s, l, n) = {[sid |-> s, seq |-> m] : m \in I}
    BY DEF Between, I
  <2>2. f \in [I -> Between(s, l, n)]
    BY <2>1
  <2>3. \A a, c \in I : f[a] = f[c] => a = c
    <3> SUFFICES ASSUME NEW a \in I, NEW c \in I, f[a] = f[c] PROVE a = c
      OBVIOUS
    <3>1. f[a].seq = a /\ f[c].seq = c
      OBVIOUS
    <3> QED BY <3>1
  <2>4. \A t \in Between(s, l, n) : \E m \in I : f[m] = t
    BY <2>1
  <2> QED BY <2>2, <2>3, <2>4 DEF Surjection, Injection, IsInjective
<1> HIDE DEF I, f
<1> QED BY <1>1, <1>2, FS_Surjection

\* What one processed packet of a stream does to the set of missing numbers: the
\* gap it adds is never too small and, in order, exact.
LEMMA GapCounts ==
    ASSUME IInv, NetInv, SeenInv, Process, mem[Head(batch)].sid \in Streams
    PROVE  LET p == mem[Head(batch)]
               g == Gap(lastSeq, p.sid, p.seq)
           IN  /\ Cardinality(Missing') <= Cardinality(Missing) + g
               /\ InOrder => Cardinality(Missing') = Cardinality(Missing) + g
<1> DEFINE p == mem[Head(batch)]
           s == p.sid
           n == p.seq
<1>1. /\ Processed' = Processed \cup {p} /\ p \in Pending /\ p \notin Processed
      /\ lastSeq' = LastSeqInsert(lastSeq, s, n)
  BY ProcessNet DEF Process, Processed
<1>2. /\ Pending \subseteq Packets /\ Processed \subseteq Packets
      /\ \A q \in Packets : q.seq \in Nat /\ q = [sid |-> q.sid, seq |-> q.seq]
  BY SinkAssumption DEF NetInv, Sent, Processed, Packets
<1> HIDE DEF p
<1>3. p \in Packets /\ n \in Nat /\ s \in Streams
  BY <1>1, <1>2 DEF p
<1>4. /\ DOMAIN lastSeq' = DOMAIN lastSeq \cup {s} /\ lastSeq'[s] = n
      /\ \A t \in DOMAIN lastSeq : t # s => lastSeq'[t] = lastSeq[t]
  BY <1>1 DEF LastSeqInsert
<1>5. \A q \in Packets : q.sid # s => (q \in Missing' <=> q \in Missing)
  BY <1>1, <1>4 DEF Missing
<1>6. \A q \in Packets : q.sid = s =>
        (q \in Missing' <=> q.seq < n /\ q \notin Processed /\ \E r \in Processed : r.sid = s /\ r.seq < q.seq)
  BY <1>1, <1>2, <1>3, <1>4 DEF Missing
<1>7. Missing \subseteq Packets /\ Missing' \subseteq Packets
  BY DEF Missing, Packets
<1>8. Cardinality(Missing) \in Nat /\ IsFiniteSet(Missing)
  BY FiniteMissing
<1>9. CASE s \notin DOMAIN lastSeq
  <2>1. \A r \in Processed : r.sid # s
    BY <1>3, <1>9 DEF SeenInv
  <2>2. Missing' = Missing
    BY <1>5, <1>6, <1>7, <1>9, <2>1 DEF Missing
  <2>3. Gap(lastSeq, s, n) = 0
    BY <1>9 DEF Gap
  <2> QED BY <1>8, <2>2, <2>3 DEF p
<1>10. CASE s \in DOMAIN lastSeq
  <2> DEFINE l == lastSeq[s]
  <2>1. l \in Nat /\ [sid |-> s, seq |-> l] \in Processed /\ l # n
    BY <1>1, <1>2, <1>3, <1>10 DEF SeenInv
  <2>2. \A q \in Packets : q.sid = s =>
          (q \in Missing <=> q.seq < l /\ q \notin Processed /\ \E r \in Processed : r.sid = s /\ r.seq < q.seq)
    BY <1>10 DEF Missing
  <2> HIDE DEF l
  <2>3. CASE n < l
    <3>1. Missing' \subseteq Missing
      BY <1>2, <1>3, <1>5, <1>6, <1>7, <2>1, <2>2, <2>3
    <3>2. Cardinality(Missing') <= Cardinality(Missing)
      BY <1>8, <3>1, FS_Subset
    <3>3. Gap(lastSeq, s, n) = 0
      BY <1>3, <2>1, <2>3 DEF Gap, l
    <3>4. ~InOrder
      BY <1>1, <1>2, <2>1, <2>3 DEF InOrder, Before
    <3>5. Cardinality(Missing') \in Nat
      BY <1>8, <3>1, FS_Subset, FS_CardinalityType
    <3> QED BY <1>8, <3>2, <3>3, <3>4, <3>5 DEF p
  <2>4. CASE n > l
    <3> DEFINE B == Between(s, l, n)
    <3>1. \A q : q \in B <=> q \in Packets /\ q.sid = s /\ l < q.seq /\ q.seq < n
      <4>1. s \in Sources /\ n <= MaxSeq - 1 /\ MaxSeq \in Nat
        BY <1>3, SinkAssumption DEF Packets, Sources
      <4>2. ASSUME NEW m \in l + 1 .. n - 1 PROVE [sid |-> s, seq |-> m] \in Packets /\ l < m /\ m < n
        BY <1>3, <2>1, <4>1 DEF Packets
      <4>3. ASSUME NEW q \in Packets, q.sid = s, l < q.seq, q.seq < n PROVE q \in B
        <5>1. q.seq \in l + 1 .. n - 1 /\ q = [sid |-> s, seq |-> q.seq]
          BY <1>2, <1>3, <2>1, <4>3
        <5> QED BY <5>1 DEF Between
      <4>4. ASSUME NEW q \in B PROVE q \in Packets /\ q.sid = s /\ l < q.seq /\ q.seq < n
        <5>1. PICK m \in l + 1 .. n - 1 : q = [sid |-> s, seq |-> m]
          BY DEF Between
        <5>2. q.sid = s /\ q.seq = m
          BY <5>1
        <5> QED BY <4>2, <5>1, <5>2
      <4> HIDE DEF B
      <4> QED BY <4>3, <4>4
    <3>2. IsFiniteSet(B) /\ Cardinality(B) = n - l - 1
      BY <1>3, <2>1, <2>4, BetweenSize
    <3>3. Gap(lastSeq, s, n) = n - l - 1
      <4>1. Gap(lastSeq, s, n) = IF n > l + 1 THEN n - l - 1 ELSE 0
        BY <1>10 DEF Gap, l
      <4>2. n \in Nat /\ l \in Nat
        BY <1>3, <2>1
      <4>3. ~(n > l + 1) => n - l - 1 = 0
        BY <2>4, <4>2
      <4> QED BY <4>1, <4>3
    <3> HIDE DEF B
    <3>4. Missing \cap B = {}
      BY <1>2, <2>1, <2>2, <3>1
    <3>5. Missing' \subseteq Missing \cup B
      <4> SUFFICES ASSUME NEW q \in Missing', q \notin Missing PROVE q \in B
        OBVIOUS
      <4>1. q \in Packets /\ q.sid = s /\ q.seq < n /\ q \notin Processed /\ ~(q.seq < l)
        BY <1>5, <1>6, <1>7, <2>2
      <4>2. q.seq # l
        BY <1>2, <2>1, <4>1
      <4> QED BY <1>2, <2>1, <3>1, <4>1, <4>2
    <3>6. InOrder => Missing \cup B \subseteq Missing'
      <4> SUFFICES ASSUME InOrder, NEW q \in Missing \cup B PROVE q \in Missing'
        OBVIOUS
      <4>1. CASE q \in Missing
        BY <1>2, <1>3, <1>5, <1>6, <1>7, <2>1, <2>2, <2>4, <4>1
      <4>2. CASE q \in B
        <5>1. q \in Packets /\ q.sid = s /\ l < q.seq /\ q.seq < n
          BY <3>1, <4>2
        <5>2. q \notin Processed
          BY <1>2, <1>3, <2>1, <5>1 DEF InOrder, l
        <5>3. \E r \in Processed : r.sid = s /\ r.seq < q.seq
          BY <2>1, <5>1
        <5> QED BY <1>6, <5>1, <5>2, <5>3
      <4> QED BY <4>1, <4>2
    <3>7. IsFiniteSet(Missing \cup B) /\ Cardinality(Missing \cup B) = Cardinality(Missing) + (n - l - 1)
      <4>1. Cardinality(Missing \cap B) = 0
        BY <3>4, FS_EmptySet
      <4>2. /\ IsFiniteSet(Missing \cup B)
            /\ Cardinality(Missing \cup B) = Cardinality(Missing) + Cardinality(B) - Cardinality(Missing \cap B)
        BY <1>8, <3>2, FS_Union
      <4> QED BY <1>3, <1>8, <2>1, <3>2, <4>1, <4>2
    <3>8. Cardinality(Missing') <= Cardinality(Missing) + (n - l - 1)
      BY <3>5, <3>7, FS_Subset
    <3>9. InOrder => Cardinality(Missing') = Cardinality(Missing) + (n - l - 1)
      <4>1. InOrder => Missing' = Missing \cup B
        BY <3>5, <3>6
      <4> QED BY <3>7, <4>1
    <3> QED BY <3>3, <3>8, <3>9 DEF p
  <2> QED BY <1>3, <2>1, <2>3, <2>4
<1> QED BY <1>9, <1>10
LEMMA ProcessOrder ==
    ASSUME IInv, NetInv, SeenInv, InOrder, Process
    PROVE  InOrder'
<1> DEFINE p == mem[Head(batch)]
<1>1. /\ Processed' = Processed \cup {p} /\ Pending' = Pending \ {p} /\ p \in Pending
      /\ batch # << >> /\ batch' = Tail(batch) /\ UNCHANGED <<mem, rx, wire>>
  BY ProcessNet DEF Process, netVars
<1>2. batch \in Seq(Frames) /\ Len(batch) \in Nat /\ Len(batch) > 0 /\ Head(batch) = batch[1]
  BY <1>1, LenProperties, EmptySeq DEF IInv, TypeOK
<1>3. Len(batch') = Len(batch) - 1 /\ \A i \in 1 .. Len(batch) - 1 : batch'[i] = batch[i + 1]
  BY <1>1, <1>2
<1>4. Ordered(batch)'
  <2> SUFFICES ASSUME NEW i \in 1 .. Len(batch'), NEW j \in 1 .. Len(batch'), i < j
               PROVE  Before(mem[batch'[i]], mem[batch'[j]])
    BY <1>1 DEF Ordered, Before
  <2>1. i + 1 \in 1..Len(batch) /\ j + 1 \in 1..Len(batch) /\ i + 1 < j + 1
        /\ batch'[i] = batch[i + 1] /\ batch'[j] = batch[j + 1]
    BY <1>2, <1>3
  <2> QED BY <2>1 DEF InOrder, Ordered
<1>5. ASSUME NEW q \in Pending', q # p PROVE Before(p, q)
  <2>1. PICK f \in Unread : q = mem[f]
    BY <1>1, <1>5 DEF Pending
  <2>2. CASE f \in Range(rx)
    <3>1. Head(batch) \in Range(batch)
      BY <1>1, TailDistinct DEF IInv, TypeOK, RxFrameConservation
    <3> QED BY <2>1, <2>2, <3>1 DEF InOrder
  <2>3. CASE f \in Range(batch)
    <3>1. PICK j \in 1..Len(batch) : batch[j] = f
      BY <1>2, <2>3, SeqElements
    <3>2. j # 1
      BY <1>2, <1>5, <2>1, <3>1
    <3>3. 1 \in 1..Len(batch) /\ 1 < j
      BY <1>2, <3>1, <3>2
    <3> QED BY <1>2, <2>1, <3>1, <3>3 DEF InOrder, Ordered
  <2> QED BY <2>2, <2>3 DEF Unread
<1> HIDE DEF p
<1>6. \A a \in Processed', q \in Pending' \cup wire' : Before(a, q)'
  BY <1>1, <1>5 DEF InOrder, Before
<1>7. \A a \in Pending', q \in wire' : Before(a, q)'
  BY <1>1 DEF InOrder, Before
<1>8. ASSUME NEW a \in Processed', a.sid \in Streams PROVE a.seq <= lastSeq'[a.sid]
  <2>1. a \in Packets /\ a.seq \in Nat /\ p.seq \in Nat
    BY <1>1, <1>8, SinkAssumption DEF NetInv, Sent, Processed, Packets
  <2>2. CASE a.sid = p.sid
    <3>1. lastSeq'[p.sid] = p.seq
      BY <1>8, <2>2 DEF Process, LastSeqInsert, p
    <3>2. a = p \/ a.seq < p.seq
      BY <1>1, <1>8, <2>2 DEF InOrder, Before
    <3> QED BY <2>1, <2>2, <3>1, <3>2
  <2>3. CASE a.sid # p.sid
    <3>1. a \in Processed /\ a.sid \in DOMAIN lastSeq
      BY <1>1, <1>8, <2>3 DEF SeenInv
    <3>2. lastSeq'[a.sid] = lastSeq[a.sid]
      BY <2>3, <3>1 DEF Process, LastSeqInsert, p
    <3> QED BY <1>8, <3>1, <3>2 DEF InOrder
  <2> QED BY <2>2, <2>3
<1>9. Ordered(rx)'
  BY <1>1 DEF InOrder, Ordered, Before
<1>10. \A f \in Range(batch'), g \in Range(rx') : Before(mem'[f], mem'[g])
  <2>1. Range(batch') \subseteq Range(batch)
    BY <1>1, TailDistinct DEF IInv, TypeOK, RxFrameConservation
  <2> QED BY <1>1, <2>1 DEF InOrder
<1> QED BY <1>4, <1>6, <1>7, <1>8, <1>9, <1>10 DEF InOrder, Before

LEMMA ProcessLoss == IInv /\ NetInv /\ LossInv /\ Process => LossInv'
<1> SUFFICES ASSUME IInv, NetInv, LossInv, Process PROVE LossInv'
  OBVIOUS
<1> DEFINE p == mem[Head(batch)]
<1>1. Processed' = Processed \cup {p} /\ p \in Pending /\ p \in Packets /\ overtaken' = overtaken
  BY ProcessNet DEF Process, netVars, NetInv, Sent
<1>2. Cardinality(Missing) \in Nat /\ drops \in Nat
  BY FiniteMissing DEF IInv, TypeOK
<1>3. ~overtaken => InOrder'
  BY ProcessOrder DEF LossInv
<1>4. CASE p.sid \in Streams
  <2>1. drops' = drops + Gap(lastSeq, p.sid, p.seq) /\ lastSeq' = LastSeqInsert(lastSeq, p.sid, p.seq)
    BY <1>4 DEF Process
  <2>2. /\ Cardinality(Missing') <= Cardinality(Missing) + Gap(lastSeq, p.sid, p.seq)
        /\ InOrder => Cardinality(Missing') = Cardinality(Missing) + Gap(lastSeq, p.sid, p.seq)
    BY <1>4, GapCounts DEF LossInv
  <2>3. Gap(lastSeq, p.sid, p.seq) \in Nat
    <3>1. p.seq \in Nat /\ \A s \in DOMAIN lastSeq : lastSeq[s] \in Nat
      BY <1>1, SinkAssumption DEF IInv, TypeOK, Packets
    <3> HIDE DEF p
    <3> QED BY <3>1, GapType
  <2>4. Cardinality(Missing') \in Nat
    <3>1. IsFiniteSet(Missing')
      <4>1. Missing' \subseteq Packets
        BY DEF Missing, Packets
      <4> QED BY <4>1, FinitePackets, FS_Subset
    <3> QED BY <3>1, FS_CardinalityType
  <2>5. SeenInv'
    <3> HIDE DEF p
    <3>1. p = [sid |-> p.sid, seq |-> p.seq]
      BY <1>1 DEF Packets
    <3>2. /\ DOMAIN lastSeq' = DOMAIN lastSeq \cup {p.sid} /\ lastSeq'[p.sid] = p.seq
          /\ \A t \in DOMAIN lastSeq : t # p.sid => lastSeq'[t] = lastSeq[t]
      BY <2>1 DEF LastSeqInsert
    <3> QED BY <1>1, <3>1, <3>2 DEF LossInv, SeenInv
  <2>6. drops' >= Cardinality(Missing') /\ (~overtaken => drops' = Cardinality(Missing'))
    BY <1>2, <2>1, <2>2, <2>3, <2>4 DEF LossInv
  <2> QED BY <1>1, <1>3, <2>5, <2>6 DEF LossInv
<1>5. CASE p.sid \notin Streams
  <2>1. drops' = drops /\ lastSeq' = lastSeq
    BY <1>5 DEF Process
  <2>2. \A s \in DOMAIN lastSeq : s # p.sid
    BY <1>5 DEF IInv, TypeOK
  <2> HIDE DEF p
  <2>3. \A q \in Packets : q.sid \in DOMAIN lastSeq => (q \in Processed' <=> q \in Processed)
    BY <1>1, <2>2
  <2>4. Missing' = Missing
    BY <1>1, <2>1, <2>2, <2>3 DEF Missing, Packets
  <2>5. SeenInv'
    BY <1>1, <1>5, <2>1 DEF LossInv, SeenInv
  <2> QED BY <1>1, <1>3, <2>1, <2>4, <2>5 DEF LossInv
<1> QED BY <1>4, <1>5
\* A step that processes nothing changes neither side of the comparison.
LEMMA NothingProcessed ==
    ASSUME LossInv, Processed' = Processed, UNCHANGED <<drops, lastSeq>>,
           ~overtaken' => ~overtaken /\ InOrder'
    PROVE  LossInv'
<1>1. Missing' = Missing
  BY DEF Missing, Packets
<1> QED BY <1>1 DEF LossInv, SeenInv

LEMMA DeliverOrder ==
    ASSUME IInv, NetInv, InOrder, Deliver, ~overtaken'
    PROVE  InOrder'
<1>1. PICK p \in wire, f \in held :
        /\ ~\E q \in wire : q.sid = p.sid /\ q.seq < p.seq
        /\ mem' = [mem EXCEPT ![f] = p] /\ rx' = Append(rx, f) /\ wire' = wire \ {p}
  BY DEF Deliver
<1>2. UNCHANGED <<batch, lastSeq>> /\ Processed' = Processed
  BY DeliverNet DEF Deliver, workerVars
<1>3. f \notin Unread /\ Unread \subseteq Frames /\ f \in Frames
  BY DEF IInv, TypeOK, RxFrameConservation, Unread
<1>4. mem'[f] = p /\ \A g \in Unread : mem'[g] = mem[g] /\ mem[g] \in Pending
  BY <1>1, <1>3 DEF IInv, TypeOK, Pending
<1>5. Range(rx') = Range(rx) \cup {f}
  BY <1>1, <1>3, AppendDistinct DEF IInv, TypeOK
<1>6. Pending' = Pending \cup {p}
  BY <1>2, <1>4, <1>5 DEF Pending, Unread
<1>7. ASSUME NEW q \in wire' PROVE Before(p, q)
  <2>1. /\ p = [sid |-> p.sid, seq |-> p.seq] /\ q = [sid |-> q.sid, seq |-> q.seq]
        /\ p.seq \in Nat /\ q.seq \in Nat
    <3>1. p \in Packets /\ q \in Packets
      BY <1>1 DEF IInv, TypeOK
    <3>2. \A r \in Packets : r = [sid |-> r.sid, seq |-> r.seq] /\ r.seq \in Nat
      BY SinkAssumption DEF Packets
    <3> QED BY <3>1, <3>2
  <2>2. q # p /\ q \in wire
    BY <1>1
  <2> QED BY <1>1, <2>1, <2>2 DEF Before
<1>8. /\ \A a \in Processed', q \in Pending' \cup wire' : Before(a, q)
      /\ \A a \in Pending', q \in wire' : Before(a, q)
  BY <1>1, <1>2, <1>6, <1>7 DEF InOrder
<1>9. Ordered(rx)'
  <2>1. /\ Len(rx) \in Nat /\ Len(rx') = Len(rx) + 1 /\ rx'[Len(rx) + 1] = f
        /\ \A i \in 1..Len(rx) : rx'[i] = rx[i] /\ rx[i] \in Unread
    <3>1. rx \in Seq(Frames) /\ f \in Frames /\ rx' = Append(rx, f)
      BY <1>1, <1>3 DEF IInv, TypeOK
    <3>2. /\ Len(rx) \in Nat /\ Len(rx') = Len(rx) + 1 /\ rx'[Len(rx) + 1] = f
          /\ \A i \in 1..Len(rx) : rx'[i] = rx[i]
      BY <3>1, LenProperties, AppendProperties
    <3>3. \A i \in 1..Len(rx) : rx[i] \in Range(rx)
      BY <3>1, SeqElements
    <3> QED BY <3>2, <3>3 DEF Unread
  <2> SUFFICES ASSUME NEW i \in 1 .. Len(rx'), NEW j \in 1 .. Len(rx'), i < j
               PROVE  Before(mem'[rx'[i]], mem'[rx'[j]])
    BY DEF Ordered, Before
  <2>2. i \in 1..Len(rx) /\ mem'[rx'[i]] = mem[rx[i]] /\ mem[rx[i]] \in Pending
    BY <1>4, <2>1
  <2>3. CASE j = Len(rx) + 1
    BY <1>4, <2>1, <2>2, <2>3 DEF InOrder
  <2>4. CASE j # Len(rx) + 1
    <3>1. j \in 1..Len(rx) /\ mem'[rx'[j]] = mem[rx[j]]
      BY <1>4, <2>1, <2>4
    <3> QED BY <2>2, <3>1 DEF InOrder, Ordered
  <2> QED BY <2>3, <2>4
<1>10. Ordered(batch)'
  <2>1. \A i \in 1..Len(batch) : mem'[batch[i]] = mem[batch[i]]
    BY <1>4, SeqElements DEF IInv, TypeOK, Unread
  <2>2. \A i, j \in 1..Len(batch) : i < j => Before(mem[batch[i]], mem[batch[j]])
    BY DEF InOrder, Ordered
  <2>3. \A i, j \in 1..Len(batch) : i < j => Before(mem'[batch[i]], mem'[batch[j]])
    BY <2>1, <2>2
  <2> QED BY <1>2, <2>3 DEF Ordered, Before
<1>11. \A g \in Range(batch'), h \in Range(rx') : Before(mem'[g], mem'[h])
  <2> SUFFICES ASSUME NEW g \in Range(batch), NEW h \in Range(rx) \cup {f}
               PROVE  Before(mem'[g], mem'[h])
    BY <1>2, <1>5
  <2>1. mem'[g] = mem[g] /\ mem[g] \in Pending
    BY <1>4 DEF Unread
  <2>2. CASE h \in Range(rx)
    <3>1. mem'[h] = mem[h]
      BY <1>4, <2>2 DEF Unread
    <3>2. Before(mem[g], mem[h])
      BY <2>2 DEF InOrder
    <3> QED BY <2>1, <3>1, <3>2
  <2>3. CASE h = f
    <3>1. Before(mem[g], p)
      BY <2>1 DEF InOrder
    <3> QED BY <1>4, <2>1, <2>3, <3>1
  <2> QED BY <2>2, <2>3
<1> QED BY <1>2, <1>8, <1>9, <1>10, <1>11 DEF InOrder, Before

LEMMA NextLoss == IInv /\ NetInv /\ LossInv /\ [Next]_vars => LossInv'
<1> SUFFICES ASSUME IInv, NetInv, LossInv, [Next]_vars PROVE LossInv'
  OBVIOUS
<1>1. CASE Process
  BY <1>1, ProcessLoss
<1>2. CASE Deliver
  <2>1. Processed' = Processed /\ UNCHANGED <<drops, lastSeq>> /\ (~overtaken' => ~overtaken)
    BY <1>2, DeliverNet DEF Deliver, workerVars
  <2> QED BY <1>2, <2>1, DeliverOrder, NothingProcessed DEF LossInv
<1>3. CASE Send \/ Lose
  <2>1. UNCHANGED <<drops, lastSeq, overtaken, rx, batch, mem>>
    BY <1>3 DEF Send, Lose, workerVars
  <2>2. Processed' = Processed /\ Pending' = Pending
    BY <1>3, <2>1, SendNet, LoseNet, SameFrames
  <2>3. ASSUME NEW q \in wire', q \notin wire
        PROVE  \A a \in Processed \cup Pending : Before(a, q)
    BY <1>3, <2>3, SendPackets DEF Lose, NetInv, Processed, Before
  <2>4. InOrder => InOrder'
    BY <2>1, <2>2, <2>3 DEF InOrder, Ordered, Before
  <2> QED BY <2>1, <2>2, <2>4, NothingProcessed DEF LossInv
<1>4. CASE ~(Send \/ Lose \/ Deliver \/ Process)
  <2>1. /\ Processed' = Processed /\ Pending' = Pending
        /\ UNCHANGED <<mem, wire, drops, lastSeq, overtaken>>
        /\ UNCHANGED <<rx, batch>> \/ (batch = << >> /\ batch' = rx /\ rx' = << >>)
    BY <1>4, OtherNet
  <2>2. InOrder => InOrder'
    <3>1. CASE UNCHANGED <<rx, batch>>
      <4>1. (Ordered(batch) => Ordered(batch)') /\ (Ordered(rx) => Ordered(rx)')
        <5>1. mem' = mem /\ batch' = batch /\ rx' = rx
          BY <2>1, <3>1
        <5>2. Ordered(batch) => Ordered(batch)'
          BY <5>1 DEF Ordered, Before
        <5>3. Ordered(rx) => Ordered(rx)'
          BY <5>1 DEF Ordered, Before
        <5> QED BY <5>2, <5>3
      <4>2. Range(batch') = Range(batch) /\ Range(rx') = Range(rx)
        BY <3>1
      <4> QED BY <2>1, <4>1, <4>2 DEF InOrder, Before
    <3>2. CASE batch' = rx /\ rx' = << >>
      <4>1. Range(<< >>) = {} /\ Len(<< >>) = 0
        BY EmptyDistinct
      <4>2. Ordered(rx)'
        BY <3>2, <4>1 DEF Ordered
      <4>3. ASSUME Ordered(rx) PROVE Ordered(batch)'
        BY <2>1, <3>2, <4>3 DEF Ordered, Before
      <4>4. \A g \in Range(batch'), h \in Range(rx') : Before(mem'[g], mem'[h])
        BY <3>2, <4>1
      <4> QED BY <2>1, <4>2, <4>3, <4>4 DEF InOrder, Before
    <3> QED BY <2>1, <3>1, <3>2
  <2> QED BY <2>1, <2>2, NothingProcessed DEF LossInv
<1> QED BY <1>1, <1>2, <1>3, <1>4

LEMMA InitLoss == Init => LossInv
<1> SUFFICES ASSUME Init PROVE LossInv
  OBVIOUS
<1>1. Processed = {} /\ Pending = {} /\ wire = {} /\ DOMAIN lastSeq = {} /\ drops = 0
  BY InitNet, EmptyDistinct DEF Init, Pending, Unread
<1>2. Missing = {}
  BY <1>1 DEF Missing
<1>3. Cardinality({}) = 0
  BY FS_EmptySet
<1>4. InOrder
  <2>1. Range(<< >>) = {} /\ Len(<< >>) = 0 /\ rx = << >> /\ batch = << >>
    BY EmptyDistinct DEF Init
  <2>2. 1..0 = {}
    OBVIOUS
  <2>3. Ordered(rx) /\ Ordered(batch)
    BY <2>1, <2>2 DEF Ordered
  <2> QED BY <1>1, <2>1, <2>3 DEF InOrder
<1> QED BY <1>1, <1>2, <1>3, <1>4 DEF LossInv, SeenInv

\* Types, frames, packets and the loss count together.
SinkInv == IInv /\ NetInv /\ LossInv

LEMMA SinkInvAlways == Spec => []SinkInv
<1>1. Init => SinkInv
  BY InitIInv, InitNet, InitLoss DEF SinkInv
<1>2. SinkInv /\ [Next]_vars => SinkInv'
  BY NextIInv, NextNet, NextLoss DEF SinkInv
<1> QED BY <1>1, <1>2, PTL DEF Spec

\* In terms of packets: Arrived(s) are the packets processed or waiting.
LEMMA ArrivedPackets ==
    ASSUME SinkInv, NEW s \in Streams
    PROVE  \A n : n \in Arrived(s) <=> [sid |-> s, seq |-> n] \in Processed \cup Pending
<1>1. next[s] \in 0..MaxSeq /\ MaxSeq \in Nat /\ s \in Sources
  BY SinkAssumption DEF SinkInv, IInv, TypeOK, Sources
<1>2. ASSUME NEW n PROVE [sid |-> s, seq |-> n] \in Sent <=> n \in 0 .. next[s] - 1
  BY <1>1 DEF Sent, Packets
<1>3. Pending \subseteq Sent /\ Pending \cap (wire \cup lost) = {} /\ Processed \subseteq Sent
  BY DEF SinkInv, NetInv, Processed
<1> QED BY <1>2, <1>3 DEF Arrived, Processed

\* As long as packets arrive in order, drops is exactly the number of packets
\* lost in between, for any number of streams, frames and packets (sink.rs:91-95).
THEOREM DropsAreExact == Spec => []DropsExact
<1>1. SinkInv => DropsExact
  <2> SUFFICES ASSUME SinkInv, ~overtaken PROVE drops = Cardinality(LostInBetween)
    BY DEF DropsExact
  <2>1. InOrder /\ SeenInv /\ drops = Cardinality(Missing)
    BY DEF SinkInv, LossInv
  <2>2. /\ lost \subseteq Packets /\ DOMAIN lastSeq \subseteq Streams
        /\ \A q \in Packets : q.seq \in Nat /\ q = [sid |-> q.sid, seq |-> q.seq]
        /\ Processed \cup Pending \subseteq Packets
        /\ \A s \in DOMAIN lastSeq : lastSeq[s] \in Nat /\ [sid |-> s, seq |-> lastSeq[s]] \in Processed
    <3>1. lost \subseteq Packets /\ DOMAIN lastSeq \subseteq Streams
      BY DEF SinkInv, IInv, TypeOK
    <3>2. \A q \in Packets : q.seq \in Nat /\ q = [sid |-> q.sid, seq |-> q.seq]
      BY SinkAssumption DEF Packets
    <3>3. Processed \cup Pending \subseteq Packets
      BY DEF SinkInv, NetInv, Sent, Processed
    <3>4. \A s \in DOMAIN lastSeq : [sid |-> s, seq |-> lastSeq[s]] \in Processed
      BY <2>1 DEF SeenInv
    <3>5. \A s \in DOMAIN lastSeq : lastSeq[s] \in Nat
      BY <3>2, <3>3, <3>4
    <3> QED BY <3>1, <3>2, <3>3, <3>4, <3>5
  <2>3. ASSUME NEW p \in LostInBetween PROVE p \in Missing
    <3>1. /\ p \in lost /\ p \in Packets /\ p \notin Processed
          /\ p.sid \in DOMAIN lastSeq /\ p.seq < lastSeq[p.sid]
      BY <2>2 DEF LostInBetween, Processed
    <3>2. PICK n \in Arrived(p.sid) : n < p.seq
      BY DEF LostInBetween
    <3> DEFINE q == [sid |-> p.sid, seq |-> n]
    <3>3. q \in Processed \cup Pending /\ n \in Nat
      BY <2>2, <3>1, <3>2, ArrivedPackets
    <3>4. q \notin Pending
      <4>1. q \in Pending => lastSeq[p.sid] < n
        <5> DEFINE last == [sid |-> p.sid, seq |-> lastSeq[p.sid]]
        <5>1. last \in Processed
          BY <2>2, <3>1
        <5>2. q \in Pending => Before(last, q)
          BY <2>1, <5>1 DEF InOrder
        <5>3. last.sid = q.sid /\ last.seq = lastSeq[p.sid] /\ q.seq = n
          OBVIOUS
        <5> QED BY <5>2, <5>3 DEF Before
      <4>2. lastSeq[p.sid] \in Nat /\ p.seq \in Nat /\ p.seq < lastSeq[p.sid]
        BY <2>2, <3>1
      <4>3. ~(lastSeq[p.sid] < n)
        <5>1. \A x, y, z \in Nat : x < y /\ y < z => ~(z < x)
          OBVIOUS
        <5>2. n \in Nat /\ n < p.seq
          BY <3>2, <3>3
        <5> QED BY <4>2, <5>1, <5>2
      <4> QED BY <4>1, <4>3
    <3> QED BY <3>1, <3>2, <3>3, <3>4 DEF Missing
  <2>4. ASSUME NEW p \in Missing PROVE p \in LostInBetween
    <3> DEFINE last == [sid |-> p.sid, seq |-> lastSeq[p.sid]]
    <3>1. /\ p \in Packets /\ p.sid \in DOMAIN lastSeq /\ p.seq < lastSeq[p.sid]
          /\ p \notin Processed /\ last \in Processed
          /\ \E q \in Processed : q.sid = p.sid /\ q.seq < p.seq
      BY <2>2 DEF Missing
    <3>2. p \in Sent
      <4>1. lastSeq[p.sid] < next[p.sid] /\ next[p.sid] \in Nat
        <5>1. last \in Sent
          BY <3>1 DEF Processed
        <5>2. p.sid \in Sources
          BY <3>1 DEF Packets
        <5>3. last.sid = p.sid /\ last.seq = lastSeq[p.sid]
          OBVIOUS
        <5>4. last.seq < next[last.sid]
          BY <5>1 DEF Sent
        <5>5. next[p.sid] \in Nat
          BY <5>2, SinkAssumption DEF SinkInv, IInv, TypeOK
        <5> QED BY <5>3, <5>4, <5>5
      <4> QED BY <2>2, <3>1, <4>1 DEF Sent
    <3>3. p \notin Pending \cup wire
      <4>1. p \in Pending \cup wire => lastSeq[p.sid] < p.seq
        BY <2>1, <3>1 DEF InOrder, Before
      <4> QED BY <2>2, <3>1, <4>1
    <3>4. p \in lost
      BY <3>1, <3>2, <3>3 DEF Processed
    <3>5. \E n \in Arrived(p.sid) : n < p.seq
      <4>1. PICK q \in Processed : q.sid = p.sid /\ q.seq < p.seq
        BY <3>1
      <4>2. q = [sid |-> p.sid, seq |-> q.seq]
        BY <2>2, <4>1
      <4> QED BY <2>2, <3>1, <4>1, <4>2, ArrivedPackets
    <3> QED BY <3>1, <3>4, <3>5 DEF LostInBetween
  <2>5. LostInBetween = Missing
    BY <2>3, <2>4
  <2> QED BY <2>1, <2>5
<1> QED BY <1>1, SinkInvAlways, PTL

\* With any reordering, once everything that arrived has been processed no loss in
\* between has been missed (sink.rs:91-95).
THEOREM NoLossMissed == Spec => []LossNeverMissed
<1>1. SinkInv => LossNeverMissed
  <2> SUFFICES ASSUME SinkInv, rx = << >>, batch = << >> PROVE drops >= Cardinality(LostInBetween)
    BY DEF LossNeverMissed
  <2>1. Pending = {}
    BY EmptyDistinct DEF Pending, Unread
  <2>2. /\ lost \subseteq Packets /\ DOMAIN lastSeq \subseteq Streams /\ drops \in Nat
    BY DEF SinkInv, IInv, TypeOK
  <2>3. ASSUME NEW p \in LostInBetween PROVE p \in Missing
    <3>1. /\ p \in lost /\ p \in Packets /\ p \notin Processed
          /\ p.sid \in DOMAIN lastSeq /\ p.seq < lastSeq[p.sid]
      BY <2>2 DEF LostInBetween, Processed
    <3>2. PICK n \in Arrived(p.sid) : n < p.seq
      BY DEF LostInBetween
    <3>3. [sid |-> p.sid, seq |-> n] \in Processed
      BY <2>1, <2>2, <3>1, <3>2, ArrivedPackets
    <3> QED BY <3>1, <3>2, <3>3 DEF Missing
  <2>4. LostInBetween \in SUBSET Missing
    BY <2>3
  <2>5. /\ Cardinality(LostInBetween) <= Cardinality(Missing)
        /\ Cardinality(LostInBetween) \in Nat /\ Cardinality(Missing) \in Nat
    BY <2>4, FiniteMissing, FS_Subset, FS_CardinalityType
  <2> QED BY <2>2, <2>5 DEF SinkInv, LossInv
<1> QED BY <1>1, SinkInvAlways, PTL
=============================================================================
