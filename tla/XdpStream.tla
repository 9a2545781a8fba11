----------------------------- MODULE XdpStream -----------------------------
(***************************************************************************)
(* Generator and sink together: one transmit worker (TxGenerator) feeds    *)
(* one stream over a perfect link, which neither loses nor reorders, to a  *)
(* receiver that runs the gap rule (LossAccounting).  Frames leave in the  *)
(* order the kernel takes them from the TX ring.                           *)
(***************************************************************************)
EXTENDS TxGenerator, LossAccounting

CONSTANTS
    Sid,     \* the worker's stream id, payload[0..8]
    MaxSeq   \* bound: no batch starts once seq has reached it

ASSUME StreamAssumption == MaxSeq \in Nat /\ MaxSeq + TxBatch <= CounterMod

VARIABLES rxLast, rxPkts, rxDrops   \* the receiver's last_seq, pkts and drops

rxVars == <<rxLast, rxPkts, rxDrops>>
allVars == <<vars, rxVars>>

StreamInit ==
    /\ Init
    /\ rxLast = [s \in {} |-> 0] /\ rxPkts = 0 /\ rxDrops = 0

\* The packet is received as it stands in the frame.
Transmit ==
    /\ NicTake
    /\ LET n == mem[Head(tx)] IN
         /\ rxDrops' = rxDrops + Gap(rxLast, Sid, n)
         /\ rxLast' = LastSeqInsert(rxLast, Sid, n)
    /\ rxPkts' = rxPkts + 1

Local ==
    \/ Exit \/ (Recycle /\ seq < MaxSeq) \/ TxEmptyPool \/ TxPop \/ TxProduce \/ TxRingFull
    \/ BatchOver \/ KickAccepted \/ KickFailed \/ SkipKick \/ WakeUp
    \/ Expire \/ NicSleep \/ (\E f \in Frames : NicComplete(f)) \/ Finished

StreamNext == Transmit \/ (Local /\ UNCHANGED rxVars)

StreamSpec == StreamInit /\ [][StreamNext]_allVars

-----------------------------------------------------------------------------
\* What the generator has counted, the batch under way included.
Counted == pkts + IF pc \in {"stamp", "produce", "endbatch"} THEN sent ELSE 0

\* Every frame the generator counts as sent has left or is still in the TX
\* ring, and nothing else has left, up to where pkts wraps (gen.rs:203-215).
CountedIsSent == (rxPkts + Len(tx) - Counted) % CounterMod = 0

\* The stream arrives in the order of its sequence numbers, each number at most
\* once: frames are recycled, refilled and resubmitted out of order, their
\* contents are not.
StreamInOrder ==
    [][rxPkts' # rxPkts /\ Sid \in DOMAIN rxLast => rxLast'[Sid] > rxLast[Sid]]_allVars

\* The receiver accounts for every sequence number up to the last one it has
\* seen, as received or as lost, once: the loss it reports over a perfect link is
\* the numbers tx_loop consumed and sent no frame with (gen.rs:196-207).
NumbersAccountedFor ==
    Sid \in DOMAIN rxLast => rxPkts + rxDrops = rxLast[Sid] + 1

\* "Loss measured server-side from per-stream sequence gaps" (README.md:30):
\* over a perfect link the receiver reports no loss.
NoPhantomLoss == rxDrops = 0
=============================================================================
