------------------------------- MODULE RxSink -------------------------------
(***************************************************************************)
(* One AF_XDP receive worker (xdp/sink.rs, rx_loop), the kernel receive    *)
(* path of its queue and the network that feeds it.                        *)
(*                                                                         *)
(* A UMEM frame travels fill -> held -> rx -> batch -> recycle -> fill.    *)
(* The kernel owns it in the fill ring and while it is held for the next   *)
(* packet; the worker from the moment it drains the RX ring until it       *)
(* enqueues it again.                                                      *)
(*                                                                         *)
(* The kernel and the network are not part of the repository.  Packets are *)
(* sent in the order of their numbers, may be lost and may overtake others *)
(* on the wire.                                                            *)
(***************************************************************************)
EXTENDS LossAccounting, Sequences, FiniteSets, FiniteSetsExt

CONSTANTS
    Frames,    \* the UMEM frames of the RX half: 0..RING_SIZE
    RingSize,  \* RING_SIZE: slots of the fill and of the RX ring
    Streams,   \* stream ids
    Runt,      \* a source whose frames are too short for a stream header
    MaxSeq,    \* bound: packets each source sends
    MaxPackets \* bound: packets sent in all

ASSUME SinkAssumption ==
    /\ IsFiniteSet(Frames)
    /\ RingSize \in Nat \ {0}
    /\ Cardinality(Frames) <= RingSize
    /\ IsFiniteSet(Streams) /\ Runt \notin Streams
    /\ MaxSeq \in Nat \ {0}
    /\ MaxPackets \in Nat

VARIABLES
    pc, batch, recycle, lastSeq, pkts, drops, expired,  \* rx_loop
    fill, held, rx, mem,                                \* rings, UMEM area
    next, wire, lost,                                   \* the network
    overtaken                                           \* history: has a packet been overtaken

workerVars == <<pc, batch, recycle, lastSeq, pkts, drops>>
netVars == <<next, wire, lost, overtaken>>
vars == <<pc, batch, recycle, lastSeq, pkts, drops, expired, fill, held, rx, mem,
          next, wire, lost, overtaken>>

Sources == Streams \cup {Runt}
Packets == [sid : Sources, seq : 0 .. MaxSeq - 1]
Sent == {p \in Packets : p.seq < next[p.sid]}
PacketsSent == Cardinality(Sent)
Blank == [sid |-> Runt, seq |-> 0]

Lower(a, b) == IF a <= b THEN a ELSE b

-----------------------------------------------------------------------------
(* Slips a rewrite of this code could make; the properties are tested       *)
(* against them.                                                            *)

\* The addresses go back to the fill ring as soon as they are read, before the
\* frames behind them are.
ConsumeRxRefillsEarly ==
    /\ pc = "consume"
    /\ batch' = rx
    /\ rx' = << >>
    /\ fill' = fill \o rx
    /\ recycle' = << >>
    /\ pc' = IF rx = << >> THEN "head" ELSE "process"
    /\ UNCHANGED <<lastSeq, pkts, drops, expired, held, mem, netVars>>

\* Only packets with a stream header are counted.
ProcessCountsStreams ==
    /\ pc = "process" /\ batch # << >>
    /\ LET p == mem[Head(batch)] IN
         IF p.sid \in Streams
         THEN /\ drops' = drops + Gap(lastSeq, p.sid, p.seq)
              /\ lastSeq' = LastSeqInsert(lastSeq, p.sid, p.seq)
              /\ pkts' = pkts + 1
         ELSE UNCHANGED <<drops, lastSeq, pkts>>
    /\ recycle' = Append(recycle, Head(batch))
    /\ batch' = Tail(batch)
    /\ UNCHANGED <<pc, expired, fill, held, rx, mem, netVars>>

\* One slot of the fill ring kept free.
RefillOneShort ==
    /\ pc = "process" /\ batch = << >>
    /\ fill' = fill \o SubSeq(recycle, 1, Lower(Len(recycle), RingSize - 1 - Len(fill)))
    /\ recycle' = << >>
    /\ pc' = "head"
    /\ UNCHANGED <<batch, lastSeq, pkts, drops, expired, held, rx, mem, netVars>>

-----------------------------------------------------------------------------
\* The fill ring starts with every RX frame in it (Umem::new).
Init ==
    /\ pc = "head" /\ batch = << >> /\ recycle = << >>
    /\ lastSeq = [s \in {} |-> 0] /\ pkts = 0 /\ drops = 0 /\ expired = FALSE
    /\ fill \in Bijection(1..Cardinality(Frames), Frames)
    /\ held = {} /\ rx = << >>
    /\ mem = [f \in Frames |-> Blank]
    /\ next = [s \in Sources |-> 0] /\ wire = {} /\ lost = {}
    /\ overtaken = FALSE

-----------------------------------------------------------------------------
(* The worker: rx_loop.                                                     *)

Exit ==
    /\ pc = "head" /\ expired
    /\ pc' = "done"
    /\ UNCHANGED <<batch, recycle, lastSeq, pkts, drops, expired, fill, held, rx, mem, netVars>>

\* poll returns when a packet is there or after 100 ms; either way the ring is
\* drained next.
Poll ==
    /\ pc = "head" /\ ~expired
    /\ pc' = "consume"
    /\ UNCHANGED <<batch, recycle, lastSeq, pkts, drops, expired, fill, held, rx, mem, netVars>>

ConsumeRx ==
    /\ pc = "consume"
    /\ batch' = rx
    /\ rx' = << >>
    /\ recycle' = << >>
    /\ pc' = IF rx = << >> THEN "head" ELSE "process"
    /\ UNCHANGED <<lastSeq, pkts, drops, expired, fill, held, mem, netVars>>

\* One frame of the batch: counted; its header, if it has one, goes through the
\* gap rule; its address is kept for the fill ring.
Process ==
    /\ pc = "process" /\ batch # << >>
    /\ LET p == mem[Head(batch)] IN
         IF p.sid \in Streams
         THEN /\ drops' = drops + Gap(lastSeq, p.sid, p.seq)
              /\ lastSeq' = LastSeqInsert(lastSeq, p.sid, p.seq)
         ELSE UNCHANGED <<drops, lastSeq>>
    /\ pkts' = pkts + 1
    /\ recycle' = Append(recycle, Head(batch))
    /\ batch' = Tail(batch)
    /\ UNCHANGED <<pc, expired, fill, held, rx, mem, netVars>>

\* enqueue_batch takes what fits; what it returns is ignored.
Refill ==
    /\ pc = "process" /\ batch = << >>
    /\ fill' = fill \o SubSeq(recycle, 1, Lower(Len(recycle), RingSize - Len(fill)))
    /\ recycle' = << >>
    /\ pc' = "head"
    /\ UNCHANGED <<batch, lastSeq, pkts, drops, expired, held, rx, mem, netVars>>

Worker == Exit \/ Poll \/ ConsumeRx \/ Process \/ Refill

-----------------------------------------------------------------------------
(* The environment: the clock, the kernel receive path and the network.     *)

Expire ==
    /\ ~expired
    /\ expired' = TRUE
    /\ UNCHANGED <<workerVars, fill, held, rx, mem, netVars>>

KernelTakesFrame ==
    /\ fill # << >>
    /\ held' = held \cup {Head(fill)}
    /\ fill' = Tail(fill)
    /\ UNCHANGED <<workerVars, expired, rx, mem, netVars>>

Send == \E s \in Sources :
    /\ next[s] < MaxSeq /\ PacketsSent < MaxPackets
    /\ wire' = wire \cup {[sid |-> s, seq |-> next[s]]}
    /\ next' = [next EXCEPT ![s] = @ + 1]
    /\ UNCHANGED <<workerVars, expired, fill, held, rx, mem, lost, overtaken>>

Lose == \E p \in wire :
    /\ wire' = wire \ {p}
    /\ lost' = lost \cup {p}
    /\ UNCHANGED <<workerVars, expired, fill, held, rx, mem, next, overtaken>>

\* The XDP program redirects a packet into a held frame and the RX ring.
Deliver == \E p \in wire, f \in held :
    /\ overtaken' = (overtaken \/ \E q \in wire : q.sid = p.sid /\ q.seq < p.seq)
    /\ Len(rx) < RingSize
    /\ mem' = [mem EXCEPT ![f] = p]
    /\ held' = held \ {f}
    /\ rx' = Append(rx, f)
    /\ wire' = wire \ {p}
    /\ UNCHANGED <<workerVars, expired, fill, next, lost>>

Kernel == KernelTakesFrame \/ Deliver

\* The worker has returned and the network is silent.
Finished ==
    /\ pc = "done" /\ wire = {} /\ (PacketsSent = MaxPackets \/ \A s \in Sources : next[s] = MaxSeq)
    /\ UNCHANGED vars

Next == Worker \/ Expire \/ Kernel \/ Send \/ Lose \/ Finished

Spec == Init /\ [][Next]_vars

\* The worker's thread is scheduled and poll returns within 100 ms.
FairSpec == Spec /\ WF_vars(Worker)

-----------------------------------------------------------------------------
\* Every variable of rx_loop, the rings and the area stays in its range
\* (sink.rs:65-102).
TypeOK ==
    /\ pc \in {"head", "consume", "process", "done"}
    /\ batch \in Seq(Frames) /\ recycle \in Seq(Frames)
    /\ DOMAIN lastSeq \in SUBSET Streams
    /\ \A s \in DOMAIN lastSeq : lastSeq[s] \in 0 .. MaxSeq - 1
    /\ pkts \in Nat /\ drops \in Nat /\ expired \in BOOLEAN
    /\ fill \in Seq(Frames) /\ rx \in Seq(Frames)
    /\ held \in SUBSET Frames
    /\ mem \in [Frames -> Packets]
    /\ next \in [Sources -> 0..MaxSeq]
    /\ wire \in SUBSET Packets /\ lost \in SUBSET Packets
    /\ overtaken \in BOOLEAN

\* Every RX frame is in exactly one place, once: refilling never cuts a batch
\* short and so leaks no frame, although the number of addresses enqueue_batch
\* accepted is ignored (sink.rs:100).
RxFrameConservation ==
    /\ IsInjective(fill) /\ IsInjective(rx) /\ IsInjective(batch) /\ IsInjective(recycle)
    /\ Range(fill) \cap (held \cup Range(rx) \cup Range(batch) \cup Range(recycle)) = {}
    /\ held \cap (Range(rx) \cup Range(batch) \cup Range(recycle)) = {}
    /\ Range(rx) \cap (Range(batch) \cup Range(recycle)) = {}
    /\ Range(batch) \cap Range(recycle) = {}
    /\ Frames = Range(fill) \cup held \cup Range(rx) \cup Range(batch) \cup Range(recycle)

\* While the worker still has to read a frame, its bytes stay as the kernel
\* delivered them: no frame is back in the fill ring before it has been
\* processed (sink.rs:83-100).
UnreadFramesStable ==
    [][\A f \in Range(rx) \cup Range(batch) : mem'[f] = mem[f]]_vars

Loaded(f) == [frame |-> f, data |-> mem[f]]
Waiting == batch \o rx
RxQueue == [i \in 1..Len(Waiting) |-> Loaded(Waiting[i])]
ReadFrames == {Loaded(f) : f \in Range(recycle)}

Exchange == INSTANCE FrameExchange WITH
    Contents <- Packets, queue <- RxQueue, taken <- ReadFrames

\* The kernel and the worker exchange frames as FrameExchange says, the kernel
\* writing this time: rx_loop processes every delivered frame once, in the order
\* of delivery and with the bytes it was delivered with, and the kernel gets a
\* frame back only after it was processed (sink.rs:83-100).
RxExchange == Exchange!Spec

\* Every packet sent is lost, on the wire, waiting in a frame, or counted.
EveryDeliveredPacketCounted ==
    PacketsSent = Cardinality(lost) + Cardinality(wire) + Len(rx) + Len(batch) + pkts

\* The numbers of stream s that were sent, not lost, and are not under way.
Arrived(s) == {n \in 0 .. next[s] - 1 : [sid |-> s, seq |-> n] \notin lost \cup wire}

\* The packets lost after one and before another packet of their stream that
\* arrived, the latter being the last one processed.
LostInBetween ==
    {p \in lost : /\ p.sid \in DOMAIN lastSeq /\ p.seq < lastSeq[p.sid]
                  /\ \E n \in Arrived(p.sid) : n < p.seq}

\* "derives loss from per-stream sequence gaps" (sink.rs:6): as long as packets
\* arrive in order the count is exactly the packets lost in between; none is
\* counted twice, none missed.  Losses before a stream's first and after its last
\* packet are not seen.
DropsExact == ~overtaken => drops = Cardinality(LostInBetween)

\* Also with packets overtaking each other no loss in between is missed, once
\* everything that arrived has been processed (sink.rs:91-95).
LossNeverMissed == rx = << >> /\ batch = << >> => drops >= Cardinality(LostInBetween)

\* A packet in the RX ring is processed and its frame given back to the kernel,
\* unless the run ends first.
RxFramesReturn ==
    \A f \in Frames : f \in Range(rx) ~> (f \in Range(fill) \cup held \/ pc = "done")
=============================================================================
