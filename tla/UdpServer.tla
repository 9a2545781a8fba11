----------------------------- MODULE UdpServer -----------------------------
(***************************************************************************)
(* The socket UDP server (net.rs, udp_server and udp_server_worker): the   *)
(* main thread binds one SO_REUSEPORT socket per worker, one after the     *)
(* other, and starts its worker at once; each worker drains its socket     *)
(* with recvmmsg and keeps its own last_seq, all share the counters.       *)
(*                                                                         *)
(* The network and the kernel are not part of the repository.  A flow is   *)
(* one socket of one client.  Its datagrams stay in order, may be lost,    *)
(* and go to the socket its hash selects among those bound at the time.    *)
(***************************************************************************)
EXTENDS LossAccounting, Sequences, FiniteSets, FiniteSetsExt

CONSTANTS
    Workers,    \* number of sockets and workers
    Flows,      \* client sockets
    SidOf,      \* the stream id each flow stamps: the client's thread index
    NoHeader,   \* the SidOf of a flow whose datagrams are shorter than HDR
    RouteOf,    \* RouteOf[f][n]: the socket for flow f when n are bound
    MaxSeq,     \* bound: datagrams each flow sends
    MaxDatagrams,  \* bound: datagrams sent in all
    QueueSize,  \* bound: datagrams a socket buffers
    Batch       \* BATCH: datagrams per recvmmsg

\* The socket is floor(hash * n) for a hash in [0, 1): it moves only upwards
\* as the group grows.
ASSUME ServerAssumption ==
    /\ Workers \in Nat \ {0}
    /\ IsFiniteSet(Flows)
    /\ \A f \in Flows : \A n \in 1..Workers :
         /\ RouteOf[f][n] \in 1..n
         /\ n > 1 => RouteOf[f][n] >= RouteOf[f][n - 1]
    /\ MaxSeq \in Nat /\ MaxDatagrams \in Nat /\ QueueSize \in Nat \ {0} /\ Batch \in Nat \ {0}

VARIABLES
    mpc, bound,                     \* the main thread; sockets bound so far
    queue, batch, lastSeq,          \* per worker
    packets, drops,                 \* Counters
    next, lost,                     \* the network
    handled                         \* history: what each worker processed

serverVars == <<mpc, bound, queue, batch, lastSeq, packets, drops, handled>>
vars == <<mpc, bound, queue, batch, lastSeq, packets, drops, next, lost, handled>>

Datagrams == [flow : Flows, seq : 0 .. MaxSeq - 1]
Lower(a, c) == IF a <= c THEN a ELSE c

-----------------------------------------------------------------------------
(* Slips a rewrite of this code could make; the properties are tested       *)
(* against them.                                                            *)

\* The batch is cut to one datagram and the rest of it dropped.
RecvKeepsOne(w) ==
    /\ mpc # "failed" /\ w <= bound
    /\ batch[w] = << >> /\ queue[w] # << >>
    /\ LET k == Lower(Batch, Len(queue[w])) IN
         /\ batch' = [batch EXCEPT ![w] = SubSeq(queue[w], 1, 1)]
         /\ queue' = [queue EXCEPT ![w] = SubSeq(@, k + 1, Len(@))]
    /\ UNCHANGED <<mpc, bound, lastSeq, packets, drops, next, lost, handled>>

\* Without MSG_WAITFORONE recvmmsg blocks until the batch is full.
RecvWaitsForAll(w) ==
    /\ mpc # "failed" /\ w <= bound
    /\ batch[w] = << >> /\ Len(queue[w]) >= Batch
    /\ batch' = [batch EXCEPT ![w] = SubSeq(queue[w], 1, Batch)]
    /\ queue' = [queue EXCEPT ![w] = SubSeq(@, Batch + 1, Len(@))]
    /\ UNCHANGED <<mpc, bound, lastSeq, packets, drops, next, lost, handled>>

-----------------------------------------------------------------------------
Init ==
    /\ mpc = "binding" /\ bound = 0
    /\ queue = [w \in 1..Workers |-> << >>]
    /\ batch = [w \in 1..Workers |-> << >>]
    /\ lastSeq = [w \in 1..Workers |-> [s \in {} |-> 0]]
    /\ packets = 0 /\ drops = 0
    /\ next = [f \in Flows |-> 0] /\ lost = {}
    /\ handled = [w \in 1..Workers |-> {}]

\* reuseport_udp_socket, then the worker's thread; joins once all are started.
Bind ==
    /\ mpc = "binding"
    /\ bound' = bound + 1
    /\ mpc' = IF bound + 1 = Workers THEN "serving" ELSE "binding"
    /\ UNCHANGED <<queue, batch, lastSeq, packets, drops, next, lost, handled>>

\* The error leaves udp_server and main: the process ends with its workers.
BindFails ==
    /\ mpc = "binding"
    /\ mpc' = "failed"
    /\ UNCHANGED <<bound, queue, batch, lastSeq, packets, drops, next, lost, handled>>

\* recvmmsg with MSG_WAITFORONE: at least one datagram, at most a batch.
Recv(w) ==
    /\ mpc # "failed" /\ w <= bound
    /\ batch[w] = << >> /\ queue[w] # << >>
    /\ LET k == Lower(Batch, Len(queue[w])) IN
         /\ batch' = [batch EXCEPT ![w] = SubSeq(queue[w], 1, k)]
         /\ queue' = [queue EXCEPT ![w] = SubSeq(@, k + 1, Len(@))]
    /\ UNCHANGED <<mpc, bound, lastSeq, packets, drops, next, lost, handled>>

\* One message of the batch: counted and, if it has a header, put through the
\* gap rule.
Process(w) ==
    /\ mpc # "failed" /\ batch[w] # << >>
    /\ LET d == Head(batch[w])
           sid == SidOf[d.flow]
       IN /\ IF sid = NoHeader THEN UNCHANGED <<drops, lastSeq>>
             ELSE /\ drops' = drops + Gap(lastSeq[w], sid, d.seq)
                  /\ lastSeq' = [lastSeq EXCEPT ![w] = LastSeqInsert(@, sid, d.seq)]
          /\ handled' = [handled EXCEPT ![w] = @ \cup {d}]
    /\ packets' = packets + 1
    /\ batch' = [batch EXCEPT ![w] = Tail(@)]
    /\ UNCHANGED <<mpc, bound, queue, next, lost>>

Worker(w) == Recv(w) \/ Process(w)

-----------------------------------------------------------------------------
(* The environment: clients and the network.                                *)

Sent == {d \in Datagrams : d.seq < next[d.flow]}
DatagramsSent == Cardinality(Sent)

Datagram(f) == [flow |-> f, seq |-> next[f]]

Deliver(f) ==
    /\ next[f] < MaxSeq /\ DatagramsSent < MaxDatagrams
    /\ mpc # "failed" /\ bound > 0
    /\ LET w == RouteOf[f][bound] IN
         /\ Len(queue[w]) < QueueSize
         /\ queue' = [queue EXCEPT ![w] = Append(@, Datagram(f))]
    /\ next' = [next EXCEPT ![f] = @ + 1]
    /\ UNCHANGED <<mpc, bound, batch, lastSeq, packets, drops, lost, handled>>

\* In the network, at a full socket, or with no socket bound.
Lose(f) ==
    /\ next[f] < MaxSeq /\ DatagramsSent < MaxDatagrams
    /\ lost' = lost \cup {Datagram(f)}
    /\ next' = [next EXCEPT ![f] = @ + 1]
    /\ UNCHANGED serverVars

\* The clients are silent and the workers have nothing left to read.
Finished ==
    /\ DatagramsSent = MaxDatagrams \/ \A f \in Flows : next[f] = MaxSeq
    /\ mpc = "failed" \/ \A w \in 1..Workers : queue[w] = << >> /\ batch[w] = << >>
    /\ UNCHANGED vars

Next ==
    \/ Bind \/ BindFails \/ Finished
    \/ \E w \in 1..Workers : Recv(w) \/ Process(w)
    \/ \E f \in Flows : Deliver(f) \/ Lose(f)

Spec == Init /\ [][Next]_vars

\* The workers' threads are scheduled.
FairSpec == Spec /\ \A w \in 1..Workers : WF_vars(Worker(w))

-----------------------------------------------------------------------------
\* The main thread, the sockets and the workers stay in their ranges
\* (net.rs:388-471).
TypeOK ==
    /\ mpc \in {"binding", "serving", "failed"}
    /\ bound \in 0..Workers /\ (mpc = "serving" => bound = Workers)
    /\ queue \in [1..Workers -> Seq(Datagrams)] /\ batch \in [1..Workers -> Seq(Datagrams)]
    /\ handled \in [1..Workers -> SUBSET Datagrams] /\ DOMAIN lastSeq = 1..Workers
    /\ \A w \in 1..Workers :
         /\ Len(queue[w]) <= QueueSize /\ Len(batch[w]) <= Batch
         /\ \A s \in DOMAIN lastSeq[w] : lastSeq[w][s] \in 0 .. MaxSeq - 1
    /\ packets \in Nat /\ drops \in Nat
    /\ next \in [Flows -> 0..MaxSeq] /\ lost \in SUBSET Datagrams

\* The places at the workers in which a datagram waits.
Waiting == {u \in (1..Workers) \X (1 .. QueueSize + Batch) :
               u[2] <= Len(batch[u[1]]) + Len(queue[u[1]])}

\* Every datagram sent is lost, waiting at some worker, or counted, once: the
\* workers share the counters and nothing they read goes missing between a
\* socket and the counters (net.rs:443-459).
EveryDatagramCounted == DatagramsSent = Cardinality(lost) + packets + Cardinality(Waiting)

\* The numbers of flow f that worker w processed.
Seen(w, f) == {d.seq : d \in {e \in handled[w] : e.flow = f}}

\* The datagrams lost between two of their flow that worker w processed.
LostBetween ==
    {u \in (1..Workers) \X lost :
        /\ SidOf[u[2].flow] # NoHeader
        /\ \E m, n \in Seen(u[1], u[2].flow) : m < u[2].seq /\ u[2].seq < n}

DistinctSids == \A f, g \in Flows : SidOf[f] = SidOf[g] /\ SidOf[f] # NoHeader => f = g

\* With stream ids that differ, the count is the number of datagrams lost
\* between the first and the last one that a worker processed of a stream, over
\* all workers and streams, also while the sockets are still being bound
\* (net.rs:415-416, 463-467).
DropsExact == DistinctSids => drops = Cardinality(LostBetween)

\* A datagram that has reached a socket is processed, however few follow it,
\* unless the server ends first (MSG_WAITFORONE, net.rs:448).
DatagramsProcessed ==
    \A d \in Datagrams :
        (\E w \in 1..Workers : d \in Range(queue[w]))
            ~> ((\E w \in 1..Workers : d \in handled[w]) \/ mpc = "failed")

\* "Loss measured server-side from per-stream sequence gaps" (README.md:30):
\* the server reports no more loss than there was.
ReportedLossIsLoss == drops <= Cardinality(lost)
=============================================================================
