---------------------------- MODULE TxGenerator ----------------------------
(***************************************************************************)
(* One AF_XDP transmit worker (xdp/gen.rs, tx_loop with tx_one and kick)   *)
(* and the kernel transmit path of its queue.                              *)
(*                                                                         *)
(* A UMEM frame travels pool -> hand -> tx -> nic -> comp -> pool.  The    *)
(* worker owns it in the pool and in hand, the kernel in the TX ring, in   *)
(* the NIC and in the completion ring.  The two rings are bounded FIFO     *)
(* queues, which is what module XskRing shows xdp/umem.rs to implement.    *)
(*                                                                         *)
(* The kernel is not part of the repository.  It is modelled from the use  *)
(* gen.rs makes of it: it starts draining the TX ring when kicked, takes   *)
(* at least one frame per kick it accepts, may go back to sleep with       *)
(* frames left in the ring, and completes frames in any order.             *)
(***************************************************************************)
EXTENDS Integers, Sequences, FiniteSets, Functions

CONSTANTS
    Frames,      \* the UMEM frames of the TX half: RING_SIZE..FRAME_COUNT
    NoFrame,
    RingSize,    \* RING_SIZE: slots of the TX ring
    CompSize,    \* RING_SIZE again: slots of the completion ring
    TxBatch,     \* TX_BATCH
    PpsPer,      \* pps_per: frames per second of this worker, 0 = unlimited
    CounterMod,  \* 2^64 in the code: where seq, pkts and sent_sec wrap
    KickMayFail  \* whether sendto may fail (its result is ignored)

ASSUME GeneratorAssumption ==
    /\ NoFrame \notin Frames
    /\ IsFiniteSet(Frames)
    /\ RingSize \in Nat \ {0} /\ CompSize \in Nat \ {0}
    /\ TxBatch \in Nat \ {0}
    /\ PpsPer \in Nat
    /\ CounterMod \in Nat
    /\ PpsPer + TxBatch < CounterMod
    /\ KickMayFail \in BOOLEAN

VARIABLES
    pc,         \* where tx_loop is
    pool,       \* state.pool, a stack
    hand,       \* the frame tx_one holds between pop and produce_tx
    mem,        \* the sequence number stamped in each frame of the UMEM area
    tx, comp,   \* the TX and the completion ring
    nic,        \* frames the kernel has taken and not completed
    nicState,   \* "idle": waits for a kick; "kicked": owes a frame; "draining"
    missed,     \* history: a kick has failed
    seq, sent, sentSec, pkts,
    expired     \* Instant::now() >= deadline

workerVars == <<pc, hand, seq, sent, sentSec, pkts>>
nicVars == <<nic, nicState, missed>>
vars == <<pc, pool, hand, mem, tx, comp, nicVars, seq, sent, sentSec, pkts, expired>>

-----------------------------------------------------------------------------
(* Slips a rewrite of this code could make; the properties are tested       *)
(* against them.                                                            *)

\* The error path of tx_one forgets the frame.
TxRingFullLeaks ==
    /\ pc = "produce"
    /\ Len(tx) >= RingSize
    /\ hand' = NoFrame
    /\ pc' = "endbatch"
    /\ UNCHANGED <<pool, mem, tx, comp, nicVars, seq, sent, sentSec, pkts, expired>>

\* A new second starts with the old count.
WakeUpKeepsCount ==
    /\ pc = "asleep"
    /\ pc' = "head"
    /\ UNCHANGED <<pool, hand, mem, tx, comp, nicVars, seq, sent, sentSec, pkts, expired>>

-----------------------------------------------------------------------------
Counters == 0 .. CounterMod - 1
Plus(a, b) == (a + b) % CounterMod

Init ==
    /\ pc = "head"
    /\ pool \in Bijection(1..Cardinality(Frames), Frames)
    /\ hand = NoFrame
    /\ mem = [f \in Frames |-> 0]
    /\ tx = << >> /\ comp = << >>
    /\ nic = {} /\ nicState = "idle" /\ missed = FALSE
    /\ seq = 0 /\ sent = 0 /\ sentSec = 0 /\ pkts = 0
    /\ expired = FALSE

-----------------------------------------------------------------------------
(* The worker: tx_loop.                                                     *)

\* while run && now < deadline: nobody clears `run`, only the deadline ends it.
Exit ==
    /\ pc = "head" /\ expired
    /\ pc' = "done"
    /\ UNCHANGED <<pool, hand, mem, tx, comp, nicVars, seq, sent, sentSec, pkts, expired>>

\* dequeue_all on the completion ring, appended to the pool; sent = 0.
DequeueAll(left) ==
    /\ pc = "head" /\ ~expired
    /\ pool' = pool \o comp
    /\ comp' = left
    /\ sent' = 0
    /\ pc' = "stamp"
    /\ UNCHANGED <<hand, mem, tx, nicVars, seq, sentSec, pkts, expired>>

\* A slip: the completion ring's consumer cursor is not advanced.
RecycleKeepsRing == DequeueAll(comp)

Recycle == DequeueAll(<< >>)

\* The sequence number is consumed before tx_one is known to succeed: with an
\* empty pool tx_one fails and the batch ends, with seq already advanced.
TxEmptyPool ==
    /\ pc = "stamp" /\ sent < TxBatch
    /\ pool = << >>
    /\ seq' = Plus(seq, 1)
    /\ pc' = "endbatch"
    /\ UNCHANGED <<pool, hand, mem, tx, comp, nicVars, sent, sentSec, pkts, expired>>

\* tx_one pops a frame and writes headers and payload into it.
Fill(rest, nextSeq) ==
    /\ pc = "stamp" /\ sent < TxBatch
    /\ pool # << >>
    /\ hand' = pool[Len(pool)]
    /\ pool' = rest
    /\ mem' = [mem EXCEPT ![pool[Len(pool)]] = seq]
    /\ seq' = nextSeq
    /\ pc' = "produce"
    /\ UNCHANGED <<tx, comp, nicVars, sent, sentSec, pkts, expired>>

\* Slips: the frame stays in the pool; the next one gets the same number.
TxPeek == Fill(pool, Plus(seq, 1))
TxPopKeepsSeq == Fill(SubSeq(pool, 1, Len(pool) - 1), seq)

TxPop == Fill(SubSeq(pool, 1, Len(pool) - 1), Plus(seq, 1))

TxProduce ==
    /\ pc = "produce"
    /\ Len(tx) < RingSize
    /\ tx' = Append(tx, hand)
    /\ hand' = NoFrame
    /\ sent' = sent + 1
    /\ pc' = "stamp"
    /\ UNCHANGED <<pool, mem, comp, nicVars, seq, sentSec, pkts, expired>>

\* produce_tx returned 0: the frame goes back to the pool and the batch ends.
TxRingFull ==
    /\ pc = "produce"
    /\ Len(tx) >= RingSize
    /\ pool' = Append(pool, hand)
    /\ hand' = NoFrame
    /\ pc' = "endbatch"
    /\ UNCHANGED <<mem, tx, comp, nicVars, seq, sent, sentSec, pkts, expired>>

BatchOver ==
    /\ pc = "stamp" /\ sent = TxBatch
    /\ pc' = "endbatch"
    /\ UNCHANGED <<pool, hand, mem, tx, comp, nicVars, seq, sent, sentSec, pkts, expired>>

\* After the batch: the pacing test, then the loop head or the sleep.
Pace(total) ==
    /\ sentSec' = total
    /\ pc' = IF PpsPer > 0 /\ total >= PpsPer THEN "asleep" ELSE "head"

\* if sent > 0: kick, count, pace.
EndBatch(kernel, counted) ==
    /\ pc = "endbatch" /\ sent > 0
    /\ nicState' = kernel
    /\ pkts' = Plus(pkts, counted)
    /\ Pace(Plus(sentSec, sent))
    /\ UNCHANGED <<pool, hand, mem, tx, comp, nic, seq, sent, expired>>

\* The kick made only when the kernel is already draining, as the NEED_WAKEUP
\* flag invites to (the deadlock recalled at gen.rs:51-56).
KickIfDraining ==
    EndBatch(IF nicState = "draining" THEN "kicked" ELSE nicState, sent) /\ UNCHANGED missed

\* A batch cut short counted as a whole one.
KickCountsAll == EndBatch("kicked", TxBatch) /\ UNCHANGED missed

KickAccepted == EndBatch("kicked", sent) /\ UNCHANGED missed

\* The result of sendto is ignored.
KickFailed == KickMayFail /\ EndBatch(nicState, sent) /\ missed' = TRUE

\* A batch that sent nothing is not kicked.
SkipKick ==
    /\ pc = "endbatch" /\ sent = 0
    /\ Pace(sentSec)
    /\ UNCHANGED <<pool, hand, mem, tx, comp, nicVars, seq, sent, pkts, expired>>

\* The rest of the second is slept off and a new one starts.
WakeUp ==
    /\ pc = "asleep"
    /\ sentSec' = 0
    /\ pc' = "head"
    /\ UNCHANGED <<pool, hand, mem, tx, comp, nicVars, seq, sent, pkts, expired>>

Worker ==
    \/ Exit \/ Recycle \/ TxEmptyPool \/ TxPop \/ TxProduce \/ TxRingFull
    \/ BatchOver \/ KickAccepted \/ KickFailed \/ SkipKick \/ WakeUp

-----------------------------------------------------------------------------
(* The environment: the clock and the kernel transmit path.                 *)

Expire ==
    /\ ~expired
    /\ expired' = TRUE
    /\ UNCHANGED <<workerVars, pool, mem, tx, comp, nicVars>>

CompletionRoom == Len(comp) + Cardinality(nic) < CompSize

NicTake ==
    /\ nicState # "idle" /\ tx # << >> /\ CompletionRoom
    /\ nic' = nic \cup {Head(tx)}
    /\ tx' = Tail(tx)
    /\ nicState' = "draining"
    /\ UNCHANGED <<workerVars, pool, mem, comp, missed, expired>>

NicSleep ==
    /\ \/ nicState = "draining"
       \/ nicState = "kicked" /\ (tx = << >> \/ ~CompletionRoom)
    /\ nicState' = "idle"
    /\ UNCHANGED <<workerVars, pool, mem, tx, comp, nic, missed, expired>>

NicComplete(f) ==
    /\ f \in nic
    /\ nic' = nic \ {f}
    /\ comp' = Append(comp, f)
    /\ UNCHANGED <<workerVars, pool, mem, tx, nicState, missed, expired>>

Kernel == NicTake \/ NicSleep \/ \E f \in Frames : NicComplete(f)

\* tx_loop has returned and the kernel has nothing left to do.
Finished ==
    /\ pc = "done" /\ expired /\ nicState = "idle" /\ nic = {}
    /\ UNCHANGED vars

Next == Worker \/ Expire \/ Kernel \/ Finished

Spec == Init /\ [][Next]_vars

\* The worker's thread is scheduled; a kernel that has been kicked takes a
\* frame; the NIC completes every frame it took.  sendto may fail, but not
\* every time it is called.
Fairness ==
    /\ WF_vars(Worker)
    /\ SF_vars(KickAccepted)
    /\ WF_vars(NicTake)
    /\ \A f \in Frames : WF_vars(NicComplete(f))

FairSpec == Spec /\ Fairness

-----------------------------------------------------------------------------
\* Every variable of tx_loop, the pool, the rings and the kernel's side stays
\* in its range (gen.rs:174-225).
TypeOK ==
    /\ pc \in {"head", "stamp", "produce", "endbatch", "asleep", "done"}
    /\ pool \in Seq(Frames)
    /\ hand \in Frames \cup {NoFrame}
    /\ hand \in Frames <=> pc = "produce"
    /\ mem \in [Frames -> Counters]
    /\ tx \in Seq(Frames) /\ comp \in Seq(Frames)
    /\ nic \in SUBSET Frames
    /\ nicState \in {"idle", "kicked", "draining"} /\ missed \in BOOLEAN
    /\ seq \in Counters /\ sent \in 0..TxBatch
    /\ sentSec \in Counters /\ pkts \in Counters
    /\ expired \in BOOLEAN

Held == {hand} \ {NoFrame}

\* Every UMEM frame is in exactly one place, once: none is lost on the error
\* paths of tx_one and none is handed out twice, however completions, kicks
\* and the worker's steps interleave (gen.rs:33-49, 193-208).
FrameConservation ==
    /\ IsInjective(pool) /\ IsInjective(tx) /\ IsInjective(comp)
    /\ Range(pool) \cap (Held \cup Range(tx) \cup nic \cup Range(comp)) = {}
    /\ Held \cap (Range(tx) \cup nic \cup Range(comp)) = {}
    /\ Range(tx) \cap (nic \cup Range(comp)) = {}
    /\ nic \cap Range(comp) = {}
    /\ Frames = Range(pool) \cup Held \cup Range(tx) \cup nic \cup Range(comp)

\* With no more TX frames than ring slots, which is the geometry umem.rs sets
\* up (FRAME_COUNT - RING_SIZE = RING_SIZE), produce_tx always finds a slot and
\* the kernel always finds room in the completion ring: the full-ring branch of
\* tx_one (gen.rs:44-47) is never taken and completions never hold up the NIC.
RingsNeverFull ==
    /\ Cardinality(Frames) <= RingSize /\ pc = "produce" => Len(tx) < RingSize
    /\ Cardinality(Frames) <= CompSize /\ tx # << >> => CompletionRoom

\* Between two resets of sent_sec, which are at least a second apart, a paced
\* worker sends less than its rate plus one batch (gen.rs:216-223).
PacedBurstBound == PpsPer > 0 => sentSec < PpsPer + TxBatch

\* The bytes of a frame do not change as long as the kernel owns it: tx_one
\* writes only frames it popped from the pool (gen.rs:34-43).
KernelFramesStable ==
    [][\A f \in Range(tx) \cup nic : mem'[f] = mem[f]]_vars

Loaded(f) == [frame |-> f, data |-> mem[f]]
TxQueue == [i \in 1..Len(tx) |-> Loaded(tx[i])]
NicLoad == {Loaded(f) : f \in nic}

Exchange == INSTANCE FrameExchange WITH
    Contents <- Counters, queue <- TxQueue, taken <- NicLoad

\* The worker and the kernel exchange frames as FrameExchange says: the kernel
\* takes every frame once, in the order of submission and with the bytes it was
\* submitted with, and a frame is popped and filled again only once the kernel
\* has completed it (gen.rs:33-49, 193-208).
TxExchange == Exchange!Spec

\* A frame the worker handed to the kernel comes back to the pool, unless the
\* run ends first: the transmit path never stalls with frames in the ring
\* (the failure described at gen.rs:51-58).
FramesReturn ==
    \A f \in Frames : f \in Range(tx) \cup nic ~> (f \in Range(pool) \/ pc = "done")

\* A batch sends nothing, so kicks nothing, while frames sit in the TX ring of a
\* kernel that sleeps and will complete nothing.
Stalled ==
    /\ pc = "endbatch" /\ sent = 0
    /\ nicState = "idle" /\ nic = {} /\ tx # << >> /\ comp = << >>

\* With no more frames than slots, the geometry of umem.rs, it takes a failed kick
\* to get there: whenever every frame is in the TX ring, a kick is still owed by
\* the batch under way or the kernel still owes it a frame (gen.rs:51-58, 210-214).
StallNeedsFailedKick == Cardinality(Frames) <= RingSize /\ Stalled => missed

\* The one way for that to fail: a kick failed earlier, and with the pool empty or
\* the ring full no later batch sends anything that would be kicked again
\* (gen.rs:196-214).
FramesReturnOrStall ==
    \A f \in Frames : f \in Range(tx) \cup nic ~>
        (f \in Range(pool) \/ pc = "done" \/ (Stalled /\ missed))
=============================================================================
