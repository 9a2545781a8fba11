------------------------------ MODULE XskRing ------------------------------
(***************************************************************************)
(* One AF_XDP ring shared by the process and the kernel: two free-running  *)
(* u32 cursors and a power-of-two array of slots (xdp/umem.rs, AddrRing    *)
(* and DescRing, which run the same code on u64 and on XdpDesc slots).     *)
(* Each end first reads both cursors, then touches the slots one by one,   *)
(* then stores its own cursor, so that the two ends interleave between     *)
(* any two of these accesses.                                              *)
(*                                                                         *)
(* One end is the program, the other the kernel.  Fill and TX rings: the   *)
(* program enqueues and the kernel consumes what it likes.  Completion and *)
(* RX rings: the kernel enqueues and the program drains.                   *)
(***************************************************************************)
EXTENDS Integers, Sequences

CONSTANTS
    RingSize,       \* size; mask = size - 1
    CursorMod,      \* 2^32 in the code: where the cursors wrap
    Values,         \* addresses or descriptors
    MaxBatch        \* bound on a batch offered to enqueue_batch/produce_tx

ASSUME RingAssumption ==
    /\ RingSize \in Nat \ {0}
    /\ CursorMod \in Nat
    /\ RingSize < CursorMod
    /\ CursorMod % RingSize = 0
    /\ MaxBatch \in Nat

VARIABLES
    producer, consumer, slots,      \* the shared mapping
    enqPc, batch, written,          \* the enqueuing end's locals
    deqPc, avail, out,              \* the dequeuing end's locals
    got                             \* what the last dequeue returned

enqVars == <<enqPc, batch, written>>
deqVars == <<deqPc, avail, out, got>>
vars == <<producer, consumer, slots, enqPc, batch, written,
          deqPc, avail, out, got>>

Cursors == 0 .. CursorMod - 1
Batches == UNION {[1..n -> Values] : n \in 0..MaxBatch}

-----------------------------------------------------------------------------
(* Slips a rewrite of this code could make; the properties are tested       *)
(* against them.                                                            *)

\* saturating_sub in place of wrapping_sub.
WrapSubSaturating(a, b) == IF a >= b THEN a - b ELSE 0

\* A mask one bit short.
IdxShortMask(c) == c % (RingSize - 1)

\* The room computed from the ring's size alone.
EnqStartIgnoresConsumer == \E addrs \in Batches :
    /\ enqPc = "idle"
    /\ enqPc' = "write"
    /\ batch' = SubSeq(addrs, 1, IF Len(addrs) <= RingSize THEN Len(addrs) ELSE RingSize)
    /\ written' = 0
    /\ UNCHANGED <<producer, consumer, slots, deqVars>>

-----------------------------------------------------------------------------
(* u32 arithmetic: wrapping_add, wrapping_sub and `& self.mask`.            *)

WrapAdd(a, b) == IF a + b < CursorMod THEN a + b ELSE a + b - CursorMod
WrapSub(a, b) == IF a >= b THEN a - b ELSE a - b + CursorMod
Idx(c) == c % RingSize

Occupancy == WrapSub(producer, consumer)
Free == RingSize - Occupancy

-----------------------------------------------------------------------------
Init ==
    /\ producer = 0 /\ consumer = 0
    /\ slots \in [0 .. RingSize - 1 -> Values]
    /\ enqPc = "idle" /\ batch = << >> /\ written = 0
    /\ deqPc = "idle" /\ avail = 0 /\ out = << >>
    /\ got = << >>

\* Both cursors are read and the batch is cut to the room there was then:
\* let n = addrs.len().min(free).  `batch` keeps addrs[..n].
EnqStart == \E addrs \in Batches :
    /\ enqPc = "idle"
    /\ enqPc' = "write"
    /\ batch' = SubSeq(addrs, 1, IF Len(addrs) <= Free THEN Len(addrs) ELSE Free)
    /\ written' = 0
    /\ UNCHANGED <<producer, consumer, slots, deqVars>>

EnqWrite ==
    /\ enqPc = "write"
    /\ written < Len(batch)
    /\ slots' = [slots EXCEPT ![Idx(WrapAdd(producer, written))] = batch[written + 1]]
    /\ written' = written + 1
    /\ UNCHANGED <<producer, consumer, enqPc, batch, deqVars>>

EnqPublish ==
    /\ enqPc = "write"
    /\ written = Len(batch)
    /\ producer' = WrapAdd(producer, Len(batch))
    /\ enqPc' = "idle"
    /\ batch' = << >>
    /\ written' = 0
    /\ UNCHANGED <<consumer, slots, deqVars>>

\* The program drains everything it sees; the kernel takes what it wants.
DeqStart == \E n \in 0..Occupancy :
    /\ deqPc = "idle"
    /\ avail' = n
    /\ out' = << >>
    /\ deqPc' = "read"
    /\ UNCHANGED <<producer, consumer, slots, enqVars, got>>

\* Reads the next slot out of `memory`: the shared slots as the processor
\* lets this end see them.
ReadSlot(memory) ==
    /\ deqPc = "read"
    /\ Len(out) < avail
    /\ out' = Append(out, memory[Idx(WrapAdd(consumer, Len(out)))])
    /\ UNCHANGED <<producer, consumer, slots, enqVars, deqPc, avail, got>>

DeqRead == ReadSlot(slots)

DeqPublish ==
    /\ deqPc = "read"
    /\ Len(out) = avail
    /\ consumer' = WrapAdd(consumer, avail)
    /\ got' = out
    /\ deqPc' = "idle"
    /\ avail' = 0
    /\ out' = << >>
    /\ UNCHANGED <<producer, slots, enqVars>>

Next == EnqStart \/ EnqWrite \/ EnqPublish \/ DeqStart \/ DeqRead \/ DeqPublish

Spec == Init /\ [][Next]_vars

-----------------------------------------------------------------------------
\* The cursors are u32s, the slots hold what was written to them, and the
\* locals of the two ends are batches of slot values (umem.rs:111-139, 173-202).
TypeOK ==
    /\ producer \in Cursors /\ consumer \in Cursors
    /\ slots \in [0 .. RingSize - 1 -> Values]
    /\ enqPc \in {"idle", "write"}
    /\ batch \in Seq(Values) /\ written \in 0..Len(batch)
    /\ deqPc \in {"idle", "read"}
    /\ out \in Seq(Values) /\ avail \in Nat /\ Len(out) <= avail
    /\ got \in Seq(Values)

\* The number of values between the two cursors, also across the wrap of the
\* u32 cursors, is never more than the ring holds, even counting the batch the
\* enqueuing end is about to publish on the strength of cursors it read
\* earlier; and the dequeuing end never takes more than there is
\* (enqueue_batch's `free`, dequeue_all's `available`).
RingBounds ==
    /\ Occupancy + Len(batch) <= RingSize
    /\ avail <= Occupancy

\* What the dequeuing end has copied so far is what is still published at the
\* consumer cursor: no slot is reused between the moment dequeue_all or
\* consume_rx counts it as available and the moment it is read.
ReadsPublished ==
    \A k \in 1..Len(out) : out[k] = slots[Idx(WrapAdd(consumer, k - 1))]

\* The slots past the producer cursor already hold what enqueue_batch wrote.
WrittenInPlace ==
    \A k \in 1..written : slots[Idx(WrapAdd(producer, k - 1))] = batch[k]

\* The inductive invariant: all of the above.
IInv == TypeOK /\ RingBounds /\ ReadsPublished /\ WrittenInPlace

\* The values between the cursors, oldest first.
Live == [k \in 1..Occupancy |-> slots[Idx(WrapAdd(consumer, k - 1))]]

Fifo == INSTANCE BoundedFifo WITH Capacity <- RingSize, queue <- Live, got <- got

\* The ring with its wrapping cursors, its mask and its unsynchronised slot
\* accesses implements a bounded FIFO queue (AddrRing and DescRing, all of
\* enqueue_batch, produce_tx, dequeue_all and consume_rx).
RefinesFifo == Fifo!Spec

=============================================================================
