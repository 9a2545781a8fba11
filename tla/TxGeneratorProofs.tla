------------------------- MODULE TxGeneratorProofs -------------------------
(***************************************************************************)
(* The transmit worker keeps every frame, and never overwrites one the     *)
(* kernel owns, for every number of frames, ring size, batch size and      *)
(* rate, and for every behaviour of the kernel that TxGenerator allows.    *)
(* Over a perfect link its stream arrives in order, and what it counts is  *)
(* what it sent (XdpStream).                                               *)
(***************************************************************************)
EXTENDS XdpStream, DistinctSeqs

LEMMA PlusType ==
    ASSUME NEW a \in Nat, NEW b \in Nat
    PROVE  Plus(a, b) \in Counters
BY GeneratorAssumption DEF Plus, Counters

LEMMA PlusSmall ==
    ASSUME NEW a \in Nat, NEW b \in Nat, a + b < CounterMod
    PROVE  Plus(a, b) = a + b
BY GeneratorAssumption DEF Plus

\* The batch under way still has room, and a paced worker that is not asleep
\* has not reached its rate.
WorkerInv ==
    /\ pc = "produce" => sent < TxBatch
    /\ PpsPer > 0 => sentSec < PpsPer \/ pc = "asleep"

IInv == TypeOK /\ WorkerInv /\ PacedBurstBound /\ FrameConservation

-----------------------------------------------------------------------------
LEMMA InitIInv == Init => IInv
<1> SUFFICES ASSUME Init PROVE IInv
  OBVIOUS
<1> USE GeneratorAssumption DEF Init
<1>1. Cardinality(Frames) \in Nat
  BY FS_CardinalityType
<1>2. /\ pool \in [1..Cardinality(Frames) -> Frames]
      /\ IsInjective(pool)
      /\ \A f \in Frames : \E i \in 1..Cardinality(Frames) : pool[i] = f
  BY DEF Bijection, Injection, Surjection
<1>3. pool \in Seq(Frames)
  BY <1>1, <1>2
<1>4. Range(pool) = Frames
  BY <1>2 DEF Range
<1>5. TypeOK
  <2>1. 0 \in Counters
    BY DEF Counters
  <2>2. mem \in [Frames -> Counters]
    BY <2>1
  <2>3. tx \in Seq(Frames) /\ comp \in Seq(Frames)
    BY EmptySeq
  <2>4. hand \notin Frames /\ sent \in 0..TxBatch
    OBVIOUS
  <2> QED BY <1>3, <2>1, <2>2, <2>3, <2>4 DEF TypeOK
<1>6. WorkerInv /\ PacedBurstBound
  BY DEF WorkerInv, PacedBurstBound
<1>7. FrameConservation
  <2>1. Held = {}
    BY DEF Held
  <2>2. IsInjective(tx) /\ IsInjective(comp) /\ Range(tx) = {} /\ Range(comp) = {}
    BY EmptyDistinct
  <2> QED BY <1>2, <1>4, <2>1, <2>2 DEF FrameConservation
<1> QED BY <1>5, <1>6, <1>7 DEF IInv

-----------------------------------------------------------------------------
(* Type correctness and the counters, action by action.                     *)

LEMMA NextType == TypeOK /\ WorkerInv /\ PacedBurstBound /\ Next
                    => TypeOK' /\ WorkerInv' /\ PacedBurstBound'
<1> SUFFICES ASSUME TypeOK, WorkerInv, PacedBurstBound, Next
             PROVE  TypeOK' /\ WorkerInv' /\ PacedBurstBound'
  OBVIOUS
<1> USE GeneratorAssumption DEF TypeOK, WorkerInv, PacedBurstBound, nicVars, workerVars
<1>0. seq \in Nat /\ sent \in Nat /\ sentSec \in Nat /\ pkts \in Nat
  BY DEF Counters
<1>1. CASE Exit
  BY <1>1 DEF Exit
<1>2. CASE Recycle
  <2>1. pool \o comp \in Seq(Frames)
    BY ConcatProperties
  <2> QED BY <1>2, <2>1 DEF Recycle, DequeueAll
<1>3. CASE TxEmptyPool
  <2>1. Plus(seq, 1) \in Counters
    BY <1>0, PlusType
  <2> QED BY <1>3, <2>1 DEF TxEmptyPool
<1>4. CASE TxPop
  <2>1. Plus(seq, 1) \in Counters
    BY <1>0, PlusType
  <2>2. pool[Len(pool)] \in Frames /\ SubSeq(pool, 1, Len(pool) - 1) \in Seq(Frames)
    BY <1>4 DEF TxPop, Fill
  <2> QED BY <1>4, <2>1, <2>2 DEF TxPop, Fill
<1>5. CASE TxProduce
  BY <1>5 DEF TxProduce
<1>6. CASE TxRingFull
  BY <1>6 DEF TxRingFull
<1>7. CASE BatchOver
  BY <1>7 DEF BatchOver
<1>8. CASE KickAccepted \/ KickFailed
  <2>1. PICK k \in {"idle", "kicked", "draining"} : EndBatch(k, sent) /\ missed' \in BOOLEAN
    BY <1>8 DEF KickAccepted, KickFailed
  <2>2. Plus(pkts, sent) \in Counters /\ Plus(sentSec, sent) \in Counters
    BY <1>0, PlusType
  <2>3. PpsPer > 0 => Plus(sentSec, sent) < PpsPer + TxBatch
    <3>1. CASE PpsPer > 0
      <4>1. sentSec < PpsPer /\ sentSec + sent < CounterMod
        BY <2>1, <3>1 DEF EndBatch, Counters
      <4>2. Plus(sentSec, sent) = sentSec + sent
        BY <1>0, <4>1, PlusSmall
      <4> QED BY <4>1, <4>2 DEF Counters
    <3> QED BY <3>1
  <2> QED BY <2>1, <2>2, <2>3 DEF EndBatch, Pace, Counters
<1>9. CASE SkipKick
  BY <1>9 DEF SkipKick, Pace, Counters
<1>10. CASE WakeUp
  BY <1>10 DEF WakeUp, Counters
<1>11. CASE Expire
  BY <1>11 DEF Expire
<1>12. CASE NicTake
  <2>1. Head(tx) \in Frames /\ Tail(tx) \in Seq(Frames)
    BY <1>12, HeadTailProperties DEF NicTake
  <2> QED BY <1>12, <2>1 DEF NicTake
<1>13. CASE NicSleep
  BY <1>13 DEF NicSleep
<1>14. CASE \E f \in Frames : NicComplete(f)
  BY <1>14 DEF NicComplete
<1>15. CASE Finished
  BY <1>15 DEF Finished, vars
<1> QED BY <1>1, <1>2, <1>3, <1>4, <1>5, <1>6, <1>7, <1>8, <1>9, <1>10, <1>11, <1>12,
           <1>13, <1>14, <1>15 DEF Next, Worker, Kernel

-----------------------------------------------------------------------------
(* Conservation of frames: one lemma per action that moves one.             *)

LEMMA RecycleFrames == TypeOK /\ FrameConservation /\ Recycle => FrameConservation'
<1> SUFFICES ASSUME TypeOK, FrameConservation, Recycle PROVE FrameConservation'
  OBVIOUS
<1>1. pool' = pool \o comp /\ comp' = << >>
      /\ tx' = tx /\ nic' = nic /\ Held' = Held
  BY DEF Recycle, DequeueAll, nicVars, Held
<1>2. IsInjective(pool') /\ Range(pool') = Range(pool) \cup Range(comp)
  <2>1. Range(pool) \cap Range(comp) = {}
    BY DEF FrameConservation
  <2> QED BY <1>1, <2>1, ConcatDistinct DEF TypeOK, FrameConservation
<1>3. IsInjective(comp') /\ Range(comp') = {}
  BY <1>1, EmptyDistinct
<1> QED BY <1>1, <1>2, <1>3 DEF FrameConservation

LEMMA TxPopFrames == TypeOK /\ FrameConservation /\ TxPop => FrameConservation'
<1> SUFFICES ASSUME TypeOK, FrameConservation, TxPop PROVE FrameConservation'
  OBVIOUS
<1> DEFINE f == pool[Len(pool)]
<1>1. tx' = tx /\ nic' = nic /\ comp' = comp /\ hand' = f
  BY DEF TxPop, Fill, nicVars
<1>2. /\ IsInjective(pool') /\ Range(pool') = Range(pool) \ {f} /\ f \in Range(pool)
  BY FrontDistinct DEF TypeOK, FrameConservation, TxPop, Fill
<1>3. Held = {} /\ Held' = {f}
  <2>1. hand = NoFrame
    BY DEF TypeOK, TxPop, Fill
  <2>2. f \in Frames
    BY <1>2 DEF FrameConservation
  <2> HIDE DEF f
  <2> QED BY <1>1, <2>1, <2>2, GeneratorAssumption DEF Held
<1> HIDE DEF f
<1> QED BY <1>1, <1>2, <1>3 DEF FrameConservation

LEMMA TxProduceFrames == TypeOK /\ FrameConservation /\ TxProduce => FrameConservation'
<1> SUFFICES ASSUME TypeOK, FrameConservation, TxProduce PROVE FrameConservation'
  OBVIOUS
<1>1. pool' = pool /\ nic' = nic /\ comp' = comp /\ tx' = Append(tx, hand)
  BY DEF TxProduce, nicVars
<1>2. Held = {hand} /\ Held' = {} /\ hand \in Frames
  BY GeneratorAssumption DEF Held, TxProduce, TypeOK
<1>3. IsInjective(tx') /\ Range(tx') = Range(tx) \cup {hand}
  BY <1>1, <1>2, AppendDistinct DEF FrameConservation, TypeOK
<1> QED BY <1>1, <1>2, <1>3 DEF FrameConservation

LEMMA TxRingFullFrames == TypeOK /\ FrameConservation /\ TxRingFull => FrameConservation'
<1> SUFFICES ASSUME TypeOK, FrameConservation, TxRingFull PROVE FrameConservation'
  OBVIOUS
<1>1. tx' = tx /\ nic' = nic /\ comp' = comp /\ pool' = Append(pool, hand)
  BY DEF TxRingFull, nicVars
<1>2. Held = {hand} /\ Held' = {} /\ hand \in Frames
  BY GeneratorAssumption DEF Held, TxRingFull, TypeOK
<1>3. IsInjective(pool') /\ Range(pool') = Range(pool) \cup {hand}
  BY <1>1, <1>2, AppendDistinct DEF FrameConservation, TypeOK
<1> QED BY <1>1, <1>2, <1>3 DEF FrameConservation

LEMMA NicTakeFrames == TypeOK /\ FrameConservation /\ NicTake => FrameConservation'
<1> SUFFICES ASSUME TypeOK, FrameConservation, NicTake PROVE FrameConservation'
  OBVIOUS
<1>1. /\ pool' = pool /\ comp' = comp /\ Held' = Held
      /\ nic' = nic \cup {Head(tx)} /\ tx' = Tail(tx) /\ tx # << >>
  BY DEF NicTake, workerVars, Held
<1>2. IsInjective(tx') /\ Head(tx) \in Range(tx) /\ Range(tx') = Range(tx) \ {Head(tx)}
  BY <1>1, TailDistinct DEF FrameConservation, TypeOK
<1> QED BY <1>1, <1>2 DEF FrameConservation

LEMMA NicCompleteFrames ==
    ASSUME TypeOK, FrameConservation, NEW f \in Frames, NicComplete(f)
    PROVE  FrameConservation'
<1>1. /\ pool' = pool /\ tx' = tx /\ Held' = Held
      /\ nic' = nic \ {f} /\ f \in nic /\ comp' = Append(comp, f)
  BY DEF NicComplete, workerVars, Held
<1>2. IsInjective(comp') /\ Range(comp') = Range(comp) \cup {f}
  BY <1>1, AppendDistinct DEF FrameConservation, TypeOK
<1> QED BY <1>1, <1>2 DEF FrameConservation

LEMMA NextFrames == TypeOK /\ FrameConservation /\ [Next]_vars => FrameConservation'
<1> SUFFICES ASSUME TypeOK, FrameConservation, [Next]_vars PROVE FrameConservation'
  OBVIOUS
<1>1. ASSUME UNCHANGED <<pool, hand, tx, nic, comp>> PROVE FrameConservation'
  BY <1>1 DEF FrameConservation, Held
<1>2. CASE Exit \/ TxEmptyPool \/ BatchOver \/ SkipKick \/ WakeUp \/ Expire \/ NicSleep
           \/ Finished \/ UNCHANGED vars
  BY <1>1, <1>2 DEF Exit, TxEmptyPool, BatchOver, SkipKick, WakeUp, Expire, NicSleep,
                    Finished, vars, nicVars, workerVars
<1>3. CASE KickAccepted \/ KickFailed
  BY <1>1, <1>3 DEF KickAccepted, KickFailed, EndBatch
<1> QED BY <1>2, <1>3, RecycleFrames, TxPopFrames, TxProduceFrames, TxRingFullFrames,
           NicTakeFrames, NicCompleteFrames DEF Next, Worker, Kernel

LEMMA NextIInv == IInv /\ [Next]_vars => IInv'
<1> SUFFICES ASSUME IInv, [Next]_vars PROVE IInv'
  OBVIOUS
<1>1. CASE Next
  BY <1>1, NextType, NextFrames DEF IInv
<1>2. CASE UNCHANGED vars
  <2>1. TypeOK'
    BY <1>2 DEF IInv, TypeOK, vars, nicVars
  <2>2. WorkerInv' /\ PacedBurstBound'
    BY <1>2 DEF IInv, WorkerInv, PacedBurstBound, vars, nicVars
  <2> QED BY <2>1, <2>2, NextFrames DEF IInv
<1> QED BY <1>1, <1>2

\* Every state tx_loop reaches is type correct and keeps its frames.
THEOREM GeneratorInvariant == Spec => []IInv
BY InitIInv, NextIInv, PTL DEF Spec

\* tx_loop's frames, rings and wrapping counters stay in their ranges, for every
\* number of frames, batch and rate (gen.rs:174-225).
THEOREM TypeCorrect == Spec => []TypeOK
<1>1. IInv => TypeOK
  BY DEF IInv
<1> QED BY <1>1, GeneratorInvariant, PTL

\* No UMEM frame is lost or handed out twice by tx_one, by the recycling of
\* completions or by the full-ring error path, whatever the kernel does.
THEOREM FramesConserved == Spec => []FrameConservation
<1>1. IInv => FrameConservation
  BY DEF IInv
<1> QED BY <1>1, GeneratorInvariant, PTL

\* Between two resets of sent_sec a paced worker sends less than its rate plus
\* one batch, for every rate and batch size.
THEOREM BurstBounded == Spec => []PacedBurstBound
<1>1. IInv => PacedBurstBound
  BY DEF IInv
<1> QED BY <1>1, GeneratorInvariant, PTL

-----------------------------------------------------------------------------
(* Counting the frames.                                                     *)

LEMMA RingsHaveRoom == IInv => RingsNeverFull
<1> SUFFICES ASSUME IInv PROVE RingsNeverFull
  OBVIOUS
<1> USE GeneratorAssumption DEF IInv
<1>1. Cardinality(Frames) \in Nat
  BY FS_CardinalityType
<1>2. /\ IsFiniteSet(Range(tx)) /\ Cardinality(Range(tx)) = Len(tx)
      /\ IsFiniteSet(Range(comp)) /\ Cardinality(Range(comp)) = Len(comp)
      /\ Len(tx) \in Nat /\ Len(comp) \in Nat
  BY DistinctCardinality, LenProperties DEF TypeOK, FrameConservation
<1>3. ASSUME NEW x \in Frames, NEW T \in SUBSET Frames, x \notin T
      PROVE  IsFiniteSet(T) /\ Cardinality(T) \in Nat /\ Cardinality(T) < Cardinality(Frames)
  <2>1. IsFiniteSet(T) /\ Cardinality(T) \in Nat /\ Cardinality(T) <= Cardinality(Frames)
    BY FS_Subset, FS_CardinalityType
  <2>2. Cardinality(T) # Cardinality(Frames)
    BY <1>3, FS_Subset
  <2> QED BY <1>1, <2>1, <2>2
<1>4. ASSUME pc = "produce", Cardinality(Frames) <= RingSize PROVE Len(tx) < RingSize
  <2>1. hand \in Frames /\ hand \notin Range(tx) /\ Range(tx) \in SUBSET Frames
    BY <1>4 DEF TypeOK, FrameConservation, Held
  <2>2. Cardinality(Range(tx)) < Cardinality(Frames)
    BY <1>3, <2>1
  <2> QED BY <1>1, <1>2, <1>4, <2>2
<1>5. ASSUME tx # << >>, Cardinality(Frames) <= CompSize PROVE CompletionRoom
  <2> DEFINE U == Range(comp) \cup nic
  <2>1. Head(tx) \in Range(tx)
    BY <1>5, TailDistinct DEF TypeOK, FrameConservation
  <2>2. Head(tx) \in Frames /\ U \in SUBSET Frames /\ Head(tx) \notin U
    BY <2>1 DEF FrameConservation
  <2>3. Cardinality(U) < Cardinality(Frames) /\ Cardinality(U) \in Nat
    BY <1>3, <2>2
  <2>4. IsFiniteSet(nic) /\ Cardinality(nic) \in Nat
    BY FS_Subset, FS_CardinalityType DEF TypeOK
  <2>5. Range(comp) \cap nic = {}
    BY DEF FrameConservation
  <2>6. Cardinality(U) = Cardinality(Range(comp)) + Cardinality(nic) - Cardinality(Range(comp) \cap nic)
    BY <1>2, <2>4, FS_Union
  <2>7. Cardinality(U) = Len(comp) + Cardinality(nic)
    <3>1. Cardinality(Range(comp) \cap nic) = 0
      BY <2>5, FS_EmptySet
    <3> HIDE DEF U
    <3> QED BY <1>2, <2>4, <2>6, <3>1
  <2> QED BY <1>1, <1>2, <1>5, <2>3, <2>4, <2>7 DEF CompletionRoom
<1> QED BY <1>4, <1>5 DEF RingsNeverFull

\* With at most as many TX frames as ring slots (umem.rs makes them equal),
\* produce_tx never fails and the completion ring never holds up the kernel.
THEOREM RingsAlwaysHaveRoom == Spec => []RingsNeverFull
BY GeneratorInvariant, RingsHaveRoom, PTL

-----------------------------------------------------------------------------
\* tx_one never writes into a frame that is in the TX ring or in the NIC.
THEOREM KernelFramesUntouched == Spec => KernelFramesStable
<1> DEFINE Stable == \A f \in Range(tx) \cup nic : mem'[f] = mem[f]
<1>1. IInv /\ [Next]_vars => [Stable]_vars
  <2> SUFFICES ASSUME IInv, Next PROVE Stable
    OBVIOUS
  <2>1. ASSUME mem' = mem PROVE Stable
    BY <2>1
  <2>2. CASE TxPop
    <3>1. pool[Len(pool)] \in Range(pool)
      BY <2>2, FrontDistinct DEF TxPop, Fill, IInv, TypeOK, FrameConservation
    <3>2. \A f \in Range(tx) \cup nic : f \in Frames /\ f # pool[Len(pool)]
      BY <3>1 DEF IInv, FrameConservation
    <3>3. mem' = [mem EXCEPT ![pool[Len(pool)]] = seq] /\ mem \in [Frames -> Counters]
      BY <2>2 DEF TxPop, Fill, IInv, TypeOK
    <3> QED BY <3>2, <3>3
  <2>3. CASE Exit \/ Recycle \/ TxEmptyPool \/ TxProduce \/ TxRingFull \/ BatchOver
             \/ KickAccepted \/ KickFailed \/ SkipKick \/ WakeUp
    BY <2>1, <2>3 DEF Exit, Recycle, DequeueAll, TxEmptyPool, TxProduce, TxRingFull, BatchOver,
                      KickAccepted, KickFailed, EndBatch, SkipKick, WakeUp
  <2>4. CASE Expire \/ Kernel \/ Finished
    BY <2>1, <2>4 DEF Expire, Kernel, NicTake, NicSleep, NicComplete, Finished, vars
  <2> QED BY <2>2, <2>3, <2>4 DEF Next, Worker
<1> QED BY <1>1, GeneratorInvariant, PTL DEF Spec, KernelFramesStable

-----------------------------------------------------------------------------
(* The exchange of frames with the kernel.                                  *)

\* Seen by the exchange nothing happens as long as the TX ring, the NIC and the
\* bytes of the kernel's frames stay as they are.
LEMMA NothingExchanged ==
    ASSUME TypeOK, tx' = tx, nic' = nic,
           \A f \in Range(tx) \cup nic : mem'[f] = mem[f]
    PROVE  UNCHANGED <<TxQueue, NicLoad>>
<1>1. \A i \in 1..Len(tx) : mem'[tx[i]] = mem[tx[i]]
  BY DEF Range, TypeOK
<1>2. TxQueue' = TxQueue
  BY <1>1 DEF TxQueue, Loaded
<1>3. NicLoad' = NicLoad
  BY DEF NicLoad, Loaded
<1> QED BY <1>2, <1>3

\* The frames the abstract exchange has out are those of the TX ring and the NIC.
LEMMA FramesOut ==
    ASSUME TypeOK
    PROVE  Exchange!Out = Range(tx) \cup nic
<1>1. Len(tx) \in Nat /\ Len(TxQueue) = Len(tx) /\ DOMAIN tx = 1..Len(tx)
  BY DEF TypeOK, TxQueue
<1>2. {TxQueue[i].frame : i \in 1..Len(TxQueue)} = Range(tx)
  BY <1>1 DEF TxQueue, Loaded, Range
<1>3. {c.frame : c \in NicLoad} = nic
  <2>1. \A f : Loaded(f).frame = f
    BY DEF Loaded
  <2> QED BY <2>1, Zenon DEF NicLoad
<1> QED BY <1>2, <1>3 DEF Exchange!Out

\* The frame in hand is not out, so submitting it is a Submit.
LEMMA TxProduceSubmits == IInv /\ TxProduce => Exchange!Submit
<1> SUFFICES ASSUME IInv, TxProduce PROVE Exchange!Submit
  OBVIOUS
<1>1. /\ tx \in Seq(Frames) /\ Len(tx) \in Nat /\ hand \in Frames /\ mem[hand] \in Counters
      /\ tx' = Append(tx, hand) /\ mem' = mem /\ nic' = nic
  BY DEF IInv, TypeOK, TxProduce, nicVars
<1>2. hand \in Frames \ Exchange!Out
  <2>1. hand \in Held
    BY <1>1, GeneratorAssumption DEF Held
  <2> QED BY <1>1, <2>1, FramesOut DEF IInv, FrameConservation
<1>3. TxQueue' = Append(TxQueue, Loaded(hand))
  <2>1. /\ Len(tx') = Len(tx) + 1 /\ tx'[Len(tx) + 1] = hand
        /\ \A i \in 1..Len(tx) : tx'[i] = tx[i]
    BY <1>1
  <2> QED BY <1>1, <2>1 DEF TxQueue, Loaded
<1>4. NicLoad' = NicLoad
  BY <1>1 DEF NicLoad, Loaded
<1> QED BY <1>1, <1>2, <1>3, <1>4 DEF Exchange!Submit, Loaded

\* The NIC takes the head of the TX ring with what was written to it.
LEMMA NicTakeTakes == IInv /\ NicTake => Exchange!Take
<1> SUFFICES ASSUME IInv, NicTake PROVE Exchange!Take
  OBVIOUS
<1>1. /\ tx \in Seq(Frames) /\ tx # << >> /\ Len(tx) \in Nat \ {0}
      /\ tx' = Tail(tx) /\ mem' = mem /\ nic' = nic \cup {Head(tx)}
  BY DEF IInv, TypeOK, NicTake
<1>2. TxQueue # << >> /\ Head(TxQueue) = Loaded(Head(tx))
  BY <1>1 DEF TxQueue
<1>3. TxQueue' = Tail(TxQueue)
  <2>1. Len(tx') = Len(tx) - 1 /\ \A i \in 1 .. Len(tx) - 1 : tx'[i] = tx[i + 1]
    BY <1>1
  <2> QED BY <1>1, <2>1 DEF TxQueue, Loaded
<1>4. NicLoad' = NicLoad \cup {Loaded(Head(tx))}
  BY <1>1 DEF NicLoad, Loaded
<1> QED BY <1>2, <1>3, <1>4 DEF Exchange!Take

\* A completion takes frames from the NIC and nothing else.
LEMMA NicCompleteReleases ==
    ASSUME NEW f, IInv, NicComplete(f)
    PROVE  Exchange!Release
<1>1. UNCHANGED <<tx, mem>> /\ nic' = nic \ {f}
  BY DEF NicComplete
<1> QED BY <1>1 DEF Exchange!Release, TxQueue, NicLoad, Loaded

\* The transmit worker and the kernel implement the exchange of frames
\* (tx_one and tx_loop, gen.rs:33-49, 193-208), for every number of frames and
\* size of the rings and whatever order the kernel completes frames in.
THEOREM TxImplementsExchange == Spec => TxExchange
<1> DEFINE Stable == \A f \in Range(tx) \cup nic : mem'[f] = mem[f]
<1>1. Init => Exchange!Init
  BY DEF Init, Exchange!Init, TxQueue, NicLoad
<1>2. IInv /\ [Stable]_vars /\ [Next]_vars => [Exchange!Next]_(Exchange!vars)
  <2> SUFFICES ASSUME IInv, [Stable]_vars, [Next]_vars
               PROVE  Exchange!Next \/ UNCHANGED <<TxQueue, NicLoad>>
    BY DEF Exchange!vars
  <2>1. Stable
    BY DEF vars
  <2>2. ASSUME tx' = tx, nic' = nic PROVE UNCHANGED <<TxQueue, NicLoad>>
    BY <2>1, <2>2, NothingExchanged DEF IInv
  <2>3. CASE TxProduce
    BY <2>3, TxProduceSubmits DEF Exchange!Next
  <2>4. CASE NicTake
    BY <2>4, NicTakeTakes DEF Exchange!Next
  <2>5. ASSUME NEW f \in Frames, NicComplete(f) PROVE Exchange!Next
    BY <2>5, NicCompleteReleases DEF Exchange!Next
  <2>6. CASE Exit \/ Recycle \/ TxEmptyPool \/ TxPop \/ TxRingFull \/ BatchOver
             \/ KickAccepted \/ KickFailed \/ SkipKick \/ WakeUp
    BY <2>2, <2>6 DEF Exit, Recycle, DequeueAll, TxEmptyPool, TxPop, Fill, TxRingFull, BatchOver,
                      KickAccepted, KickFailed, EndBatch, SkipKick, WakeUp, nicVars
  <2>7. CASE Expire \/ NicSleep \/ Finished \/ UNCHANGED vars
    BY <2>2, <2>7 DEF Expire, NicSleep, Finished, vars, nicVars
  <2> QED BY <2>3, <2>4, <2>5, <2>6, <2>7 DEF Next, Worker, Kernel
<1>3. Spec => [][Stable]_vars
  BY KernelFramesUntouched DEF KernelFramesStable
<1> QED BY <1>1, <1>2, <1>3, GeneratorInvariant, PTL DEF Spec, TxExchange, Exchange!Spec

-----------------------------------------------------------------------------
(* What it takes to stall the transmit path.                                *)

\* With every frame in the TX ring, a kick was accepted and the kernel has not
\* taken a frame since, or the batch that filled the ring has still to kick.
OwedInv ==
    ~missed /\ tx # << >> /\ Range(tx) = Frames =>
        nicState = "kicked" \/ (pc \in {"stamp", "endbatch"} /\ sent > 0)

\* A batch sends nothing only for want of frames.
StarvedInv ==
    Cardinality(Frames) <= RingSize /\ pc = "endbatch" /\ sent = 0 => pool = << >>

\* A kick is owed from the first frame of a batch to its end.
LEMMA NextOwed == IInv /\ OwedInv /\ [Next]_vars => OwedInv'
<1> SUFFICES ASSUME IInv, OwedInv, [Next]_vars PROVE OwedInv'
  OBVIOUS
<1> USE DEF OwedInv
<1>1. sent \in 0..TxBatch /\ TxBatch \in Nat /\ tx \in Seq(Frames) /\ pool \in Seq(Frames)
  BY GeneratorAssumption DEF IInv, TypeOK
<1>2. CASE TxProduce
  BY <1>1, <1>2 DEF TxProduce
<1>3. CASE TxPop
  <2>1. pool # << >> /\ tx' = tx
    BY <1>3 DEF TxPop, Fill
  <2>2. pool[Len(pool)] \in Range(pool) /\ Range(pool) \cap Range(tx) = {}
    BY <1>1, <2>1, FrontDistinct DEF IInv, FrameConservation
  <2>3. Range(tx) # Frames
    BY <2>2 DEF IInv, FrameConservation
  <2> QED BY <2>1, <2>3
<1>4. CASE TxRingFull
  <2>1. tx' = tx /\ hand \in Held
    BY <1>4, GeneratorAssumption DEF TxRingFull, IInv, TypeOK, Held
  <2>2. Range(tx) # Frames
    BY <2>1 DEF IInv, FrameConservation
  <2> QED BY <2>1, <2>2
<1>5. CASE TxEmptyPool \/ BatchOver
  BY <1>5 DEF TxEmptyPool, BatchOver, nicVars
<1>6. CASE KickAccepted \/ KickFailed
  BY <1>6 DEF KickAccepted, KickFailed, EndBatch
<1>7. CASE Exit \/ Recycle \/ SkipKick \/ WakeUp
  BY <1>7 DEF Exit, Recycle, DequeueAll, SkipKick, WakeUp, nicVars
<1>8. CASE NicTake
  <2>1. tx # << >> /\ tx' = Tail(tx)
    BY <1>8 DEF NicTake
  <2>2. Head(tx) \in Range(tx) /\ Range(tx') = Range(tx) \ {Head(tx)}
    BY <1>1, <2>1, TailDistinct DEF IInv, FrameConservation
  <2> QED BY <2>2 DEF IInv, FrameConservation
<1>9. CASE NicSleep
  <2>1. UNCHANGED <<missed, tx, pc, sent>>
    BY <1>9 DEF NicSleep, workerVars
  <2>2. ASSUME Range(tx) = Frames PROVE CompletionRoom
    <3>1. nic = {} /\ Range(comp) = {}
      BY <2>2 DEF IInv, FrameConservation
    <3>2. comp = << >>
      BY <3>1, TailDistinct DEF IInv, TypeOK, FrameConservation
    <3>3. Cardinality({}) = 0 /\ Len(<< >>) = 0
      BY FS_EmptySet
    <3> QED BY <3>1, <3>2, <3>3, GeneratorAssumption DEF CompletionRoom
  <2>3. tx # << >> /\ Range(tx) = Frames => nicState = "draining"
    BY <1>9, <2>2 DEF NicSleep
  <2> QED BY <2>1, <2>3
<1>10. CASE Expire \/ (\E f \in Frames : NicComplete(f)) \/ Finished \/ UNCHANGED vars
  BY <1>10 DEF Expire, NicComplete, Finished, vars, workerVars, nicVars
<1> QED BY <1>2, <1>3, <1>4, <1>5, <1>6, <1>7, <1>8, <1>9, <1>10 DEF Next, Worker, Kernel

\* With room for every frame in the ring, tx_one fails on an empty pool only.
LEMMA NextStarved == IInv /\ StarvedInv /\ [Next]_vars => StarvedInv'
<1> SUFFICES ASSUME IInv, StarvedInv, [Next]_vars, Cardinality(Frames) <= RingSize,
                    pc' = "endbatch", sent' = 0
             PROVE  pool' = << >>
  BY DEF StarvedInv
<1> USE DEF StarvedInv
<1>1. CASE TxEmptyPool
  BY <1>1 DEF TxEmptyPool
<1>2. CASE TxRingFull
  <2>1. Len(tx) < RingSize
    BY <1>2, RingsHaveRoom DEF TxRingFull, RingsNeverFull
  <2> QED BY <1>2, <2>1, GeneratorAssumption DEF TxRingFull, IInv, TypeOK
<1>3. CASE BatchOver
  BY <1>3, GeneratorAssumption DEF BatchOver
<1>4. CASE Exit \/ Recycle \/ TxPop \/ TxProduce \/ WakeUp
  BY <1>4 DEF Exit, Recycle, DequeueAll, TxPop, Fill, TxProduce, WakeUp
<1>5. CASE KickAccepted \/ KickFailed \/ SkipKick
  BY <1>5 DEF KickAccepted, KickFailed, EndBatch, SkipKick, Pace
<1>6. CASE Expire \/ Kernel \/ Finished \/ UNCHANGED vars
  BY <1>6 DEF Expire, Kernel, NicTake, NicSleep, NicComplete, Finished, vars, workerVars
<1> QED BY <1>1, <1>2, <1>3, <1>4, <1>5, <1>6 DEF Next, Worker

\* The transmit path can stall only after a failed kick, whatever the number of
\* frames, the batch size and the rate, however the kernel falls asleep between
\* kicks (gen.rs:51-58, 210-214): the safety half of FramesReturnOrStall.
THEOREM NoStallWithoutFailedKick == Spec => []StallNeedsFailedKick
<1>1. Init => OwedInv /\ StarvedInv
  BY DEF Init, OwedInv, StarvedInv
<1>2. IInv /\ OwedInv /\ StarvedInv => StallNeedsFailedKick
  <2> SUFFICES ASSUME IInv, OwedInv, StarvedInv, Cardinality(Frames) <= RingSize, Stalled
               PROVE  missed
    BY DEF StallNeedsFailedKick
  <2>1. /\ pc = "endbatch" /\ sent = 0 /\ nicState = "idle" /\ nic = {} /\ tx # << >>
        /\ comp = << >>
    BY DEF Stalled
  <2>2. Range(pool) = {} /\ Range(comp) = {}
    BY <2>1, EmptyDistinct DEF StarvedInv
  <2>3. Held = {}
    BY <2>1 DEF IInv, TypeOK, Held
  <2>4. Range(tx) = Frames
    BY <2>1, <2>2, <2>3 DEF IInv, FrameConservation
  <2> QED BY <2>1, <2>4 DEF OwedInv
<1> QED BY <1>1, <1>2, GeneratorInvariant, NextOwed, NextStarved, PTL DEF Spec

-----------------------------------------------------------------------------
(* The stream over a perfect link.                                          *)

LEMMA StreamStep == StreamNext => Next
BY DEF StreamNext, Local, Transmit, Next, Worker, Kernel

LEMMA StreamIInv == StreamSpec => []IInv
<1>1. StreamInit => IInv
  BY InitIInv DEF StreamInit
<1>2. IInv /\ [StreamNext]_allVars => IInv'
  BY StreamStep, NextIInv DEF allVars
<1> QED BY <1>1, <1>2, PTL DEF StreamSpec

LEMMA AddMod ==
    ASSUME NEW x \in Int, x % CounterMod = 0
    PROVE  (x + CounterMod) % CounterMod = 0
<1> DEFINE q == x \div CounterMod
           d == (x + CounterMod) \div CounterMod
           k == q + 1 - d
           r == (x + CounterMod) % CounterMod
<1> USE GeneratorAssumption
<1>1. CounterMod \in Nat /\ CounterMod > 0
  OBVIOUS
<1>2. q \in Int /\ x = CounterMod * q
  BY <1>1
<1>3. d \in Int /\ r \in 0 .. CounterMod - 1 /\ x + CounterMod = CounterMod * d + r
  BY <1>1
<1>4. k \in Int /\ r = CounterMod * k
  BY <1>1, <1>2, <1>3
<1> HIDE DEF q, d, k, r
<1>5. ~ k >= 1
  BY <1>1, <1>3, <1>4
<1>6. ~ k <= -1
  BY <1>1, <1>3, <1>4
<1>7. k = 0
  BY <1>4, <1>5, <1>6
<1> QED BY <1>1, <1>4, <1>7 DEF r

LEMMA PlusCases ==
    ASSUME NEW x \in Counters, NEW y \in 0..TxBatch
    PROVE  Plus(x, y) = x + y \/ Plus(x, y) = x + y - CounterMod
BY GeneratorAssumption DEF Plus, Counters

SentInv == rxPkts \in Nat /\ CountedIsSent

LEMMA NextSent == IInv /\ SentInv /\ [StreamNext]_allVars => SentInv'
<1> SUFFICES ASSUME IInv, SentInv, [StreamNext]_allVars PROVE SentInv'
  OBVIOUS
<1>1. /\ Len(tx) \in Nat /\ sent \in 0..TxBatch /\ pkts \in Counters /\ rxPkts \in Nat
      /\ tx \in Seq(Frames) /\ pkts \in Nat /\ TxBatch \in Nat /\ CounterMod \in Nat
  BY GeneratorAssumption, LenProperties DEF IInv, TypeOK, SentInv, Counters
<1>2. ASSUME rxPkts' \in Nat, rxPkts' + Len(tx)' - Counted' = rxPkts + Len(tx) - Counted
      PROVE  SentInv'
  BY <1>2 DEF SentInv, CountedIsSent
<1> USE <1>1
<1>3. CASE Transmit
  <2>1. Len(tx') = Len(tx) - 1
    BY <1>3 DEF Transmit, NicTake
  <2>2. rxPkts' = rxPkts + 1 /\ Counted' = Counted
    BY <1>3 DEF Transmit, NicTake, workerVars, Counted
  <2>3. Counted \in Int
    BY DEF Counted
  <2> QED BY <1>2, <2>1, <2>2, <2>3
<1>4. CASE TxProduce /\ UNCHANGED rxVars
  <2>1. Len(tx') = Len(tx) + 1
    BY <1>4 DEF TxProduce, IInv, TypeOK
  <2>2. rxPkts' = rxPkts /\ Counted' = Counted + 1
    BY <1>4 DEF TxProduce, rxVars, Counted
  <2>3. Counted \in Int
    BY DEF Counted
  <2> QED BY <1>2, <2>1, <2>2, <2>3
<1>5. CASE (KickAccepted \/ KickFailed) /\ UNCHANGED rxVars
  <2>1. PICK k \in {"idle", "kicked", "draining"} : EndBatch(k, sent)
    BY <1>5 DEF KickAccepted, KickFailed, IInv, TypeOK
  <2>2. /\ Counted = pkts + sent /\ Counted' = Plus(pkts, sent)
        /\ tx' = tx /\ rxPkts' = rxPkts
    <3>1. pc = "endbatch" /\ pkts' = Plus(pkts, sent) /\ pc' \in {"head", "asleep"}
      BY <2>1 DEF EndBatch, Pace
    <3>2. Plus(pkts, sent) \in Int
      BY PlusType DEF Counters
    <3>3. Counted = pkts + sent /\ Counted' = Plus(pkts, sent)
      BY <3>1, <3>2 DEF Counted
    <3> QED BY <1>5, <2>1, <3>3 DEF EndBatch, rxVars
  <2>3. CASE Plus(pkts, sent) = pkts + sent
    BY <1>2, <2>2, <2>3
  <2>4. CASE Plus(pkts, sent) = pkts + sent - CounterMod
    <3>1. rxPkts' + Len(tx)' - Counted' = (rxPkts + Len(tx) - Counted) + CounterMod
      BY <2>2, <2>4
    <3>2. rxPkts + Len(tx) - Counted \in Int
      BY <2>2
    <3>3. (rxPkts' + Len(tx)' - Counted') % CounterMod = 0
      BY <3>1, <3>2, AddMod DEF SentInv, CountedIsSent
    <3> QED BY <2>2, <3>3 DEF SentInv, CountedIsSent
  <2> QED BY <2>3, <2>4, PlusCases
<1>6. CASE (SkipKick \/ BatchOver \/ TxRingFull \/ Recycle \/ TxPop \/ TxEmptyPool) /\ UNCHANGED rxVars
  <2>1. tx' = tx /\ rxPkts' = rxPkts
    BY <1>6 DEF SkipKick, BatchOver, TxRingFull, Recycle, DequeueAll, TxPop, Fill, TxEmptyPool, rxVars
  <2>2. Counted' = Counted
    BY <1>6 DEF SkipKick, BatchOver, TxRingFull, Recycle, DequeueAll, TxPop, Fill, TxEmptyPool,
                Pace, Counted
  <2> QED BY <1>2, <2>1, <2>2
<1>7. CASE (Exit \/ WakeUp \/ Expire \/ NicSleep \/ (\E f \in Frames : NicComplete(f)) \/ Finished)
             /\ UNCHANGED rxVars
  <2>1. tx' = tx /\ rxPkts' = rxPkts /\ Counted' = Counted
    BY <1>7 DEF Exit, WakeUp, Expire, NicSleep, NicComplete, Finished, vars, workerVars, rxVars,
                Counted
  <2> QED BY <1>2, <2>1
<1>8. CASE UNCHANGED allVars
  BY <1>2, <1>8 DEF allVars, vars, rxVars, Counted
<1> QED BY <1>3, <1>4, <1>5, <1>6, <1>7, <1>8 DEF StreamNext, Local

\* pkts counts exactly the frames that left or wait in the TX ring, through
\* short batches, failed kicks and the wrap of the counter.
THEOREM CountIsExact == StreamSpec => []CountedIsSent
<1>1. StreamInit => SentInv
  BY GeneratorAssumption DEF StreamInit, Init, SentInv, CountedIsSent, Counted
<1>2. SentInv => CountedIsSent
  BY DEF SentInv
<1> QED BY <1>1, <1>2, StreamIInv, NextSent, PTL DEF StreamSpec

-----------------------------------------------------------------------------
(* The order of the stream.                                                 *)

\* seq stays below the point where it wraps: a batch starts below MaxSeq and
\* takes one number per frame, and one more only when it ends.
SeqBound ==
    /\ seq <= MaxSeq - 1 + TxBatch
    /\ pc = "stamp" => seq <= MaxSeq - 1 + sent
    /\ pc = "produce" => seq <= MaxSeq + sent

Last == IF Sid \in DOMAIN rxLast THEN rxLast[Sid] ELSE -1

\* The numbers received, in the TX ring in its order, in the frame in hand and
\* next to be given are strictly increasing.
OrderInv ==
    /\ Last \in Int /\ Last < seq
    /\ \A i \in 1..Len(tx) : Last < mem[tx[i]] /\ mem[tx[i]] < seq
    /\ \A i, j \in 1..Len(tx) : i < j => mem[tx[i]] < mem[tx[j]]
    /\ pc = "produce" => /\ Last < mem[hand] /\ mem[hand] < seq
                         /\ \A i \in 1..Len(tx) : mem[tx[i]] < mem[hand]

LEMMA NextSeqBound == IInv /\ SeqBound /\ [StreamNext]_allVars => SeqBound'
<1> SUFFICES ASSUME IInv, SeqBound, [StreamNext]_allVars PROVE SeqBound'
  OBVIOUS
<1>1. /\ seq \in Nat /\ sent \in 0..TxBatch /\ TxBatch \in Nat \ {0} /\ MaxSeq \in Nat
      /\ CounterMod \in Nat /\ MaxSeq + TxBatch <= CounterMod
      /\ pc = "produce" => sent < TxBatch
  BY GeneratorAssumption, StreamAssumption DEF IInv, TypeOK, WorkerInv, Counters
<1> USE <1>1 DEF SeqBound
<1>2. CASE TxPop \/ TxEmptyPool
  <2>1. pc = "stamp" /\ sent < TxBatch /\ seq' = Plus(seq, 1) /\ pc' \in {"produce", "endbatch"}
        /\ sent' = sent
    BY <1>2 DEF TxPop, Fill, TxEmptyPool
  <2>2. Plus(seq, 1) = seq + 1
    BY <2>1, PlusSmall
  <2> QED BY <2>1, <2>2
<1>3. CASE Recycle /\ seq < MaxSeq
  BY <1>3 DEF Recycle, DequeueAll
<1>4. CASE TxProduce
  BY <1>4 DEF TxProduce
<1>5. CASE TxRingFull \/ BatchOver \/ KickAccepted \/ KickFailed \/ SkipKick \/ WakeUp \/ Exit
  <2>1. seq' = seq /\ pc' \notin {"stamp", "produce"}
    BY <1>5 DEF TxRingFull, BatchOver, KickAccepted, KickFailed, EndBatch, SkipKick, Pace, WakeUp, Exit
  <2> QED BY <2>1
<1>6. CASE Transmit \/ Expire \/ NicSleep \/ (\E f \in Frames : NicComplete(f)) \/ Finished
           \/ UNCHANGED allVars
  <2>1. seq' = seq /\ pc' = pc /\ sent' = sent
    BY <1>6 DEF Transmit, NicTake, Expire, NicSleep, NicComplete, Finished, allVars, vars, workerVars
  <2> QED BY <2>1
<1> QED BY <1>2, <1>3, <1>4, <1>5, <1>6 DEF StreamNext, Local

LEMMA NextOrder == IInv /\ SeqBound /\ OrderInv /\ [StreamNext]_allVars => OrderInv'
<1> SUFFICES ASSUME IInv, SeqBound, OrderInv, [StreamNext]_allVars PROVE OrderInv'
  OBVIOUS
<1>1. /\ seq \in Nat /\ mem \in [Frames -> Nat] /\ tx \in Seq(Frames) /\ Len(tx) \in Nat
      /\ sent \in 0..TxBatch /\ pool \in Seq(Frames)
      /\ \A i \in 1..Len(tx) : tx[i] \in Frames /\ mem[tx[i]] \in Nat
  <2>1. Counters \in SUBSET Nat
    BY GeneratorAssumption DEF Counters
  <2>2. /\ seq \in Counters /\ mem \in [Frames -> Counters] /\ tx \in Seq(Frames)
        /\ sent \in 0..TxBatch /\ pool \in Seq(Frames)
    BY DEF IInv, TypeOK
  <2>3. seq \in Nat /\ mem \in [Frames -> Nat]
    BY <2>1, <2>2
  <2>4. Len(tx) \in Nat /\ \A i \in 1..Len(tx) : tx[i] \in Frames
    BY <2>2, LenProperties, ElementOfSeq
  <2> QED BY <2>2, <2>3, <2>4
<1>2. pc = "produce" => hand \in Frames /\ mem[hand] \in Nat
  BY <1>1 DEF IInv, TypeOK
<1>3. CASE Transmit
  <2>1. tx # << >> /\ tx' = Tail(tx) /\ UNCHANGED <<mem, seq, pc, hand>>
    BY <1>3 DEF Transmit, NicTake, workerVars
  <2>2. /\ Len(tx) >= 1 /\ Len(tx') = Len(tx) - 1
        /\ \A i \in 1..Len(tx') : i + 1 \in 1..Len(tx) /\ tx'[i] = tx[i + 1]
    BY <1>1, <2>1
  <2>3. Last' = mem[tx[1]]
    BY <1>1, <1>3, <2>1 DEF Transmit, LastSeqInsert, Last
  <2>4. /\ Last' \in Int /\ Last' < seq
        /\ pc = "produce" => Last' < mem[hand]
    BY <1>1, <2>2, <2>3 DEF OrderInv
  <2>5. ASSUME NEW i \in 1..Len(tx') PROVE Last' < mem[tx'[i]] /\ mem[tx'[i]] < seq
    <3>1. i + 1 \in 1..Len(tx) /\ tx'[i] = tx[i + 1]
      BY <2>2
    <3>2. 1 \in 1..Len(tx) /\ 1 < i + 1
      <4>1. Len(tx) \in Nat /\ Len(tx) >= 1 /\ i \in Nat /\ i >= 1
        BY <1>1, <2>2
      <4> QED BY <4>1
    <3> QED BY <2>3, <3>1, <3>2 DEF OrderInv
  <2>6. ASSUME NEW i \in 1..Len(tx'), NEW j \in 1..Len(tx'), i < j
        PROVE  mem[tx'[i]] < mem[tx'[j]]
    <3>1. i + 1 \in 1..Len(tx) /\ tx'[i] = tx[i + 1]
      BY <2>2
    <3>2. j + 1 \in 1..Len(tx) /\ tx'[j] = tx[j + 1]
      BY <2>2
    <3>3. i \in Nat /\ j \in Nat
      BY <1>1, <2>2
    <3>4. i + 1 < j + 1
      BY <2>6, <3>3
    <3> QED BY <3>1, <3>2, <3>4 DEF OrderInv
  <2>7. pc = "produce" => \A i \in 1..Len(tx') : mem[tx'[i]] < mem[hand]
    BY <2>2 DEF OrderInv
  <2> QED BY <2>1, <2>4, <2>5, <2>6, <2>7 DEF OrderInv
<1>4. CASE TxPop /\ UNCHANGED rxVars
  <2> DEFINE f == pool[Len(pool)]
  <2>1. /\ pc = "stamp" /\ sent < TxBatch /\ hand' = f /\ mem' = [mem EXCEPT ![f] = seq]
        /\ seq' = Plus(seq, 1) /\ tx' = tx /\ rxLast' = rxLast /\ pc' = "produce" /\ pool # << >>
    BY <1>4 DEF TxPop, Fill, rxVars
  <2>2. seq' = seq + 1
    BY <1>1, <2>1, PlusSmall, GeneratorAssumption, StreamAssumption DEF SeqBound
  <2>3. f \in Range(pool) /\ f \in Frames
    BY <2>1, FrontDistinct DEF IInv, TypeOK, FrameConservation
  <2>4. ASSUME NEW i \in 1..Len(tx) PROVE tx[i] # f
    <3>1. tx[i] \in Range(tx)
      BY <1>1 DEF Range
    <3>2. Range(pool) \cap Range(tx) = {}
      BY DEF IInv, FrameConservation
    <3> QED BY <2>3, <3>1, <3>2
  <2>5. /\ mem'[f] = seq
        /\ \A i \in 1..Len(tx) : mem'[tx[i]] = mem[tx[i]]
    BY <1>1, <2>1, <2>3, <2>4
  <2>6. Last' = Last
    BY <2>1 DEF Last
  <2> HIDE DEF f
  <2>7. \A i \in 1..Len(tx) : Last < mem[tx[i]] /\ mem[tx[i]] < seq
    BY DEF OrderInv
  <2>8. \A i, j \in 1..Len(tx) : i < j => mem'[tx[i]] < mem'[tx[j]]
    BY <2>5 DEF OrderInv
  <2>9. Last \in Int /\ Last < seq
    BY DEF OrderInv
  <2>10. \A i \in 1..Len(tx) : Last < mem'[tx[i]] /\ mem'[tx[i]] < seq /\ mem'[tx[i]] < seq + 1
    BY <1>1, <2>5, <2>7
  <2>11. Last < mem'[f] /\ mem'[f] < seq + 1 /\ Last < seq + 1
    BY <1>1, <2>5, <2>9
  <2> QED BY <2>1, <2>2, <2>5, <2>6, <2>8, <2>9, <2>10, <2>11 DEF OrderInv
<1>5. CASE TxProduce /\ UNCHANGED rxVars
  <2>1. /\ pc = "produce" /\ tx' = Append(tx, hand) /\ pc' = "stamp" /\ mem' = mem /\ seq' = seq
        /\ rxLast' = rxLast
    BY <1>5 DEF TxProduce, rxVars
  <2>2. /\ Len(tx') = Len(tx) + 1 /\ tx'[Len(tx) + 1] = hand
        /\ \A i \in 1..Len(tx) : tx'[i] = tx[i]
    BY <1>1, <1>2, <2>1
  <2>3. Last' = Last
    BY <2>1 DEF Last
  <2>4. \A i \in 1..Len(tx') : Last < mem[tx'[i]] /\ mem[tx'[i]] < seq
    BY <1>1, <1>2, <2>1, <2>2 DEF OrderInv
  <2>5. ASSUME NEW i \in 1..Len(tx'), NEW j \in 1..Len(tx'), i < j
        PROVE  mem[tx'[i]] < mem[tx'[j]]
    <3>1. i \in 1..Len(tx) /\ tx'[i] = tx[i] /\ j \in 1 .. Len(tx) + 1
      BY <1>1, <2>2, <2>5
    <3>2. CASE j = Len(tx) + 1
      BY <2>1, <2>2, <3>1, <3>2 DEF OrderInv
    <3>3. CASE j \in 1..Len(tx)
      BY <2>2, <2>5, <3>1, <3>3 DEF OrderInv
    <3>4. \A n \in Nat : \A m \in 1 .. n + 1 : m = n + 1 \/ m \in 1..n
      OBVIOUS
    <3>5. j = Len(tx) + 1 \/ j \in 1..Len(tx)
      BY <1>1, <3>1, <3>4, Zenon
    <3> QED BY <3>2, <3>3, <3>5
  <2> QED BY <2>1, <2>3, <2>4, <2>5 DEF OrderInv
<1>6. ASSUME UNCHANGED <<tx, mem, rxLast>>, seq' \in Nat, seq' >= seq,
             pc' = "produce" => pc = "produce" /\ hand' = hand
      PROVE  OrderInv'
  <2>1. Last' = Last
    BY <1>6 DEF Last
  <2> QED BY <1>1, <1>2, <1>6, <2>1 DEF OrderInv
<1>7. CASE TxEmptyPool /\ UNCHANGED rxVars
  <2>1. seq' = seq + 1
    BY <1>1, <1>7, PlusSmall, GeneratorAssumption, StreamAssumption DEF SeqBound, TxEmptyPool
  <2> QED BY <1>1, <1>6, <1>7, <2>1 DEF TxEmptyPool, rxVars
<1>8. CASE (Exit \/ Recycle \/ TxRingFull \/ BatchOver \/ WakeUp) /\ UNCHANGED rxVars
  BY <1>1, <1>6, <1>8 DEF Exit, Recycle, DequeueAll, TxRingFull, BatchOver, WakeUp, rxVars
<1>9. CASE (KickAccepted \/ KickFailed \/ SkipKick) /\ UNCHANGED rxVars
  <2>1. UNCHANGED <<tx, mem, rxLast, seq>> /\ pc' # "produce"
    BY <1>9 DEF KickAccepted, KickFailed, EndBatch, SkipKick, Pace, rxVars
  <2> QED BY <1>1, <1>6, <2>1
<1>10. CASE (Expire \/ NicSleep \/ (\E f \in Frames : NicComplete(f)) \/ Finished) /\ UNCHANGED rxVars
  BY <1>1, <1>6, <1>10 DEF Expire, NicSleep, NicComplete, Finished, vars, workerVars, rxVars
<1>11. CASE UNCHANGED allVars
  BY <1>1, <1>6, <1>11 DEF allVars, vars, workerVars, rxVars
<1> QED BY <1>3, <1>4, <1>5, <1>7, <1>8, <1>9, <1>10, <1>11 DEF StreamNext, Local

LEMMA StreamOrderInv == StreamSpec => [](SeqBound /\ OrderInv)
<1>1. StreamInit => SeqBound /\ OrderInv
  BY GeneratorAssumption, StreamAssumption DEF StreamInit, Init, SeqBound, OrderInv, Last
<1> QED BY <1>1, StreamIInv, NextSeqBound, NextOrder, PTL DEF StreamSpec

\* Over a perfect link the numbers of a stream arrive strictly increasing, for
\* every number of frames, ring and batch size and every order of completions.
THEOREM StreamOrdered == StreamSpec => StreamInOrder
<1> DEFINE InOrder == rxPkts' # rxPkts /\ Sid \in DOMAIN rxLast => rxLast'[Sid] > rxLast[Sid]
<1>1. IInv /\ OrderInv /\ [StreamNext]_allVars => [InOrder]_allVars
  <2> SUFFICES ASSUME IInv, OrderInv, StreamNext, rxPkts' # rxPkts, Sid \in DOMAIN rxLast
               PROVE  rxLast'[Sid] > rxLast[Sid]
    OBVIOUS
  <2>1. Transmit
    BY DEF StreamNext, rxVars
  <2>2. tx # << >> /\ rxLast'[Sid] = mem[tx[1]] /\ 1 \in 1..Len(tx)
    BY <2>1 DEF Transmit, NicTake, LastSeqInsert, IInv, TypeOK
  <2> QED BY <2>2 DEF OrderInv, Last
<1> QED BY <1>1, StreamIInv, StreamOrderInv, PTL DEF StreamSpec, StreamInOrder
-----------------------------------------------------------------------------
(* What the receiver makes of the numbers.                                  *)

\* Before the first packet has left, it carries number 0 or is still to be
\* filled with it: with the whole pool at hand tx_one cannot fail.
FirstIsZero ==
    /\ rxPkts = 0 /\ rxDrops = 0 /\ nic = {} /\ comp = << >>
    /\ tx # << >> => mem[tx[1]] = 0
    /\ tx = << >> /\ Frames # {} => IF pc = "produce" THEN mem[hand] = 0 ELSE seq = 0

AccountInv ==
    /\ rxPkts \in Nat /\ rxDrops \in Nat
    /\ IF Sid \in DOMAIN rxLast THEN rxLast[Sid] \in Nat ELSE FirstIsZero
    /\ NumbersAccountedFor

\* A number received after a gap accounts for itself and for the gap.
LEMMA TransmitAccounts == IInv /\ OrderInv /\ AccountInv /\ Transmit => AccountInv'
<1> SUFFICES ASSUME IInv, OrderInv, AccountInv, Transmit PROVE AccountInv'
  OBVIOUS
<1> DEFINE n == mem[tx[1]]
<1>1. tx # << >> /\ tx \in Seq(Frames) /\ mem \in [Frames -> Counters]
  BY DEF Transmit, NicTake, IInv, TypeOK
<1>2. 1 \in 1..Len(tx) /\ Head(tx) = tx[1] /\ tx[1] \in Frames
  BY <1>1
<1>3. n \in Nat
  BY <1>1, <1>2, GeneratorAssumption DEF Counters
<1>4. Last < n
  BY <1>2 DEF OrderInv
<1>5. /\ rxDrops' = rxDrops + Gap(rxLast, Sid, n) /\ rxPkts' = rxPkts + 1
      /\ rxLast' = LastSeqInsert(rxLast, Sid, n)
  BY <1>2 DEF Transmit
<1> HIDE DEF n
<1>6. Sid \in DOMAIN rxLast' /\ rxLast'[Sid] = n
  BY <1>5 DEF LastSeqInsert
<1>7. CASE Sid \in DOMAIN rxLast
  <2>1. /\ rxLast[Sid] \in Nat /\ rxLast[Sid] < n /\ rxPkts \in Nat /\ rxDrops \in Nat
        /\ rxPkts + rxDrops = rxLast[Sid] + 1
    BY <1>4, <1>7 DEF AccountInv, NumbersAccountedFor, Last
  <2>2. Gap(rxLast, Sid, n) = n - rxLast[Sid] - 1
    BY <1>3, <1>7, <2>1 DEF Gap
  <2>3. rxDrops' \in Nat /\ rxPkts' \in Nat /\ rxPkts' + rxDrops' = n + 1
    BY <1>3, <1>5, <2>1, <2>2
  <2> QED BY <1>3, <1>6, <2>3 DEF AccountInv, NumbersAccountedFor
<1>8. CASE Sid \notin DOMAIN rxLast
  <2>1. rxPkts = 0 /\ rxDrops = 0 /\ n = 0
    BY <1>1, <1>8 DEF AccountInv, FirstIsZero, n
  <2>2. Gap(rxLast, Sid, n) = 0
    BY <1>8 DEF Gap
  <2>3. rxDrops' = 0 /\ rxPkts' = 1
    BY <1>5, <2>1, <2>2
  <2> QED BY <1>6, <2>1, <2>3 DEF AccountInv, NumbersAccountedFor
<1> QED BY <1>7, <1>8

\* Until a frame has left, the pool cannot run empty before number 0 is used.
LEMMA FirstStaysZero == IInv /\ FirstIsZero /\ Local /\ UNCHANGED rxVars => FirstIsZero'
<1> SUFFICES ASSUME IInv, FirstIsZero, Local, UNCHANGED rxVars PROVE FirstIsZero'
  OBVIOUS
<1> USE DEF FirstIsZero, rxVars
<1>1. /\ tx \in Seq(Frames) /\ pool \in Seq(Frames) /\ mem \in [Frames -> Counters]
      /\ pc = "produce" => hand \in Frames
  BY DEF IInv, TypeOK
<1>2. CASE TxPop
  <2> DEFINE f == pool[Len(pool)]
  <2>1. /\ pool # << >> /\ pc = "stamp" /\ pc' = "produce" /\ hand' = f
        /\ mem' = [mem EXCEPT ![f] = seq]
        /\ UNCHANGED <<tx, nic, comp>>
    BY <1>2 DEF TxPop, Fill, nicVars
  <2>2. f \in Range(pool) /\ f \in Frames
    BY <1>1, <2>1, FrontDistinct DEF IInv, FrameConservation
  <2>3. CASE tx # << >>
    <3>1. tx[1] \in Range(tx)
      BY <1>1, <2>3, SeqElements
    <3>2. tx[1] # f /\ tx[1] \in Frames
      BY <2>2, <3>1 DEF IInv, FrameConservation
    <3>3. mem'[tx[1]] = mem[tx[1]]
      BY <1>1, <2>1, <3>2
    <3> QED BY <2>1, <2>3, <3>3
  <2>4. CASE tx = << >>
    <3>1. seq = 0 /\ mem'[f] = seq
      BY <1>1, <2>1, <2>2, <2>4
    <3> QED BY <2>1, <2>4, <3>1
  <2> QED BY <2>3, <2>4
<1>3. CASE TxProduce
  <2>1. /\ pc = "produce" /\ tx' = Append(tx, hand) /\ UNCHANGED <<mem, nic, comp>>
    BY <1>3 DEF TxProduce, nicVars
  <2>2. tx' # << >> /\ tx'[1] = IF tx = << >> THEN hand ELSE tx[1]
    BY <1>1, <2>1
  <2>3. mem[tx'[1]] = 0
    BY <1>1, <2>1, <2>2
  <2> QED BY <2>1, <2>2, <2>3
<1>4. CASE TxEmptyPool
  <2>1. pool = << >> /\ UNCHANGED <<tx, mem, nic, comp>> /\ pc = "stamp"
    BY <1>4 DEF TxEmptyPool, nicVars
  <2>2. Held = {}
    BY <2>1 DEF IInv, TypeOK, Held
  <2>3. tx # << >> \/ Frames = {}
    BY <2>1, <2>2, EmptyDistinct DEF IInv, FrameConservation
  <2> QED BY <2>1, <2>3
<1>5. CASE TxRingFull
  <2>1. tx # << >> /\ UNCHANGED <<tx, mem, nic, comp>>
    BY <1>5, GeneratorAssumption DEF TxRingFull, nicVars
  <2> QED BY <2>1
<1>6. CASE Recycle
  BY <1>6 DEF Recycle, DequeueAll, nicVars
<1>7. CASE Exit \/ BatchOver \/ WakeUp
  BY <1>7 DEF Exit, BatchOver, WakeUp, nicVars
<1>8. CASE KickAccepted \/ KickFailed \/ SkipKick
  BY <1>8 DEF KickAccepted, KickFailed, EndBatch, SkipKick, Pace, nicVars
<1>9. CASE Expire \/ NicSleep \/ Finished
  BY <1>9 DEF Expire, NicSleep, Finished, vars, workerVars, nicVars
<1>10. ASSUME NEW f \in Frames, NicComplete(f) PROVE FALSE
  BY <1>10 DEF NicComplete
<1> QED BY <1>2, <1>3, <1>4, <1>5, <1>6, <1>7, <1>8, <1>9, <1>10 DEF Local

\* Every number up to the last one received was received or is reported lost,
\* for every number of frames, ring and batch size and rate: over a perfect link
\* the reported loss is the numbers consumed by a tx_one that failed
\* (gen.rs:196-207).
THEOREM EveryNumberAccounted == StreamSpec => []NumbersAccountedFor
<1>1. StreamInit => AccountInv
  BY DEF StreamInit, Init, AccountInv, FirstIsZero, NumbersAccountedFor
<1>2. IInv /\ OrderInv /\ AccountInv /\ [StreamNext]_allVars => AccountInv'
  <2> SUFFICES ASSUME IInv, OrderInv, AccountInv, [StreamNext]_allVars PROVE AccountInv'
    OBVIOUS
  <2>1. CASE Transmit
    BY <2>1, TransmitAccounts
  <2>2. CASE Local /\ UNCHANGED rxVars
    <3>1. CASE Sid \in DOMAIN rxLast
      BY <2>2, <3>1 DEF rxVars, AccountInv, NumbersAccountedFor
    <3>2. CASE Sid \notin DOMAIN rxLast
      <4>1. FirstIsZero'
        BY <2>2, <3>2, FirstStaysZero DEF AccountInv
      <4> QED BY <2>2, <3>2, <4>1 DEF rxVars, AccountInv, NumbersAccountedFor
    <3> QED BY <3>1, <3>2
  <2>3. CASE UNCHANGED allVars
    BY <2>3 DEF allVars, vars, nicVars, rxVars, AccountInv, FirstIsZero, NumbersAccountedFor
  <2> QED BY <2>1, <2>2, <2>3 DEF StreamNext
<1>3. AccountInv => NumbersAccountedFor
  BY DEF AccountInv
<1> QED BY <1>1, <1>2, <1>3, StreamIInv, StreamOrderInv, PTL DEF StreamSpec
=============================================================================
