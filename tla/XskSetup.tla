------------------------------ MODULE XskSetup ------------------------------
(***************************************************************************)
(* An AF_XDP session from start to return: xdp_udp_blast (xdp/gen.rs) and  *)
(* xdp_udp_sink (xdp/sink.rs), with create_xsk_socket (xdp/socket.rs),     *)
(* Umem::new and the ring mappings (xdp/umem.rs) and the XDP program's     *)
(* handle (xdp/loader.rs).  Any system call may fail.                      *)
(*                                                                         *)
(* A socket is named by the attempt that makes it: a queue and a mode.     *)
(* held is what the process holds for each attempt.  Nothing unmaps a      *)
(* ring, and a mapped ring keeps its socket alive in the kernel, so that a *)
(* socket once bound stays bound.                                          *)
(***************************************************************************)
EXTENDS Naturals, FiniteSets

CONSTANTS
    Queues,   \* RX queues of the interface (get_rx_queue_count)
    Cpus      \* CPUs given to the session

ASSUME SetupAssumption ==
    /\ Queues \in Nat \ {0}
    /\ Cpus \in Nat \ {0}

VARIABLES
    role,         \* "generator" or "sink"
    pc, q, mode, \* the main thread: where, at which queue, in which mode it binds
    program,      \* the XDP program on the interface, which XdpHandle attaches
    redirect,     \* attempts whose socket is in the XSKS map
    held,         \* what the process holds: pairs of an attempt and a resource
    bound,        \* attempts whose socket the kernel has bound to its queue
    made,         \* attempts that gave a queue its socket
    worker,       \* the thread of each queue
    failedAt      \* history: the call at which an attempt failed

vars == <<role, pc, q, mode, program, redirect, held, bound, made, worker, failedAt>>

Lower(a, b) == IF a <= b THEN a ELSE b

Workers == Lower(Cpus, Queues)
Q == 0 .. Workers - 1
Modes == {"zerocopy", "copy"}
Attempts == Q \X Modes
None == "none"

Rings == {"fill", "comp", "rx", "tx"}
Resources == {"fd", "area"} \cup Rings

\* The calls of create_xsk_socket and, inside it, of Umem::new, in order.
After ==
    [socket |-> "mmap_area", mmap_area |-> "umem_reg", umem_reg |-> "fill_ring",
     fill_ring |-> "comp_ring", comp_ring |-> "offsets", offsets |-> "map_fill",
     map_fill |-> "map_comp", map_comp |-> "rx_ring", rx_ring |-> "tx_ring",
     tx_ring |-> "rx_tx_offsets", rx_tx_offsets |-> "map_rx", map_rx |-> "map_tx",
     map_tx |-> "bind", bind |-> "created"]

Calls == DOMAIN After
att == <<q, mode>>
Mine(rs) == {att} \X rs

\* The socket of a worker.
Of(w) == {a \in made : a[1] = w}

-----------------------------------------------------------------------------
(* Slips a rewrite of this code could make; the properties are tested       *)
(* against them.                                                            *)

\* The socket is dropped at the end of the loop body instead of forgotten.
KeepForWorkerDrops ==
    /\ made' = made \cup {att}
    /\ held' = held \ Mine({"fd", "area"})

\* A bind that fails returns without closing the descriptor.
BindFailsLeaks ==
    /\ pc = "bind"
    /\ held' = held \ Mine({"area"})
    /\ failedAt' = [failedAt EXCEPT ![att] = "bind"]
    /\ pc' = "failed"
    /\ UNCHANGED <<role, q, mode, program, redirect, bound, made, worker>>

\* The handle is forgotten, not dropped, when the session fails.
ReturnErrorForgets ==
    /\ pc' = "err"
    /\ UNCHANGED <<program, redirect>>

\* A socket that cannot be registered is replaced by one in copy mode.
RegisterFailsRetries ==
    /\ pc = "created" /\ role = "sink"
    /\ pc' = "failed"
    /\ held' = held \ Mine({"fd", "area"})
    /\ UNCHANGED <<role, q, mode, program, redirect, bound, made, worker, failedAt>>

\* The last worker is not spawned.
SpawnOneShort ==
    /\ pc = "spawn"
    /\ IF q + 1 < Workers
       THEN q' = q + 1 /\ worker' = [worker EXCEPT ![q] = "running"] /\ UNCHANGED pc
       ELSE q' = 0 /\ pc' = "join" /\ UNCHANGED worker
    /\ UNCHANGED <<role, mode, program, redirect, held, bound, made, failedAt>>

-----------------------------------------------------------------------------
Init ==
    /\ role \in {"generator", "sink"}
    /\ pc = "resolve" /\ q = 0 /\ mode = "copy"
    /\ program = "detached" /\ redirect = {}
    /\ held = {} /\ bound = {}
    /\ made = {}
    /\ worker = [w \in Q |-> None]
    /\ failedAt = [a \in Attempts |-> None]

\* The session returns an error and drops its handle, which detaches the program.
ReturnError ==
    /\ pc' = "err"
    /\ program' = "detached"
    /\ redirect' = {}

\* The interface, its addresses and the destination's are looked up.
Resolve ==
    /\ pc = "resolve"
    /\ pc' \in {"load", "err"}
    /\ UNCHANGED <<role, q, mode, program, redirect, held, bound, made, worker, failedAt>>

\* XdpHandle::load: rlimit, load, attach in driver or in generic mode.
Load ==
    /\ pc = "load"
    /\ program' = "attached"
    /\ mode' = "zerocopy"
    /\ pc' = "socket"
    /\ UNCHANGED <<role, q, redirect, held, bound, made, worker, failedAt>>

\* Without a program (or without the feature xdp) a generator uses copy mode.
LoadFails ==
    /\ pc = "load"
    /\ pc' = IF role = "sink" THEN "err" ELSE "socket"
    /\ UNCHANGED <<role, q, mode, program, redirect, held, bound, made, worker, failedAt>>

-----------------------------------------------------------------------------
(* create_xsk_socket.                                                       *)

Succeeds(call, gained) ==
    /\ pc = call
    /\ held' = held \cup Mine(gained)
    /\ pc' = After[call]
    /\ UNCHANGED <<role, q, mode, program, redirect, bound, made, worker, failedAt>>

Fails(call, released) ==
    /\ pc = call
    /\ held' = held \ Mine(released)
    /\ failedAt' = [failedAt EXCEPT ![att] = call]
    /\ pc' = "failed"
    /\ UNCHANGED <<role, q, mode, program, redirect, bound, made, worker>>

Call(call, gained, released) == Succeeds(call, gained) \/ Fails(call, released)

OpenSocket == Call("socket", {"fd"}, {})

MapArea == Call("mmap_area", {"area"}, {"fd"})

UmemOption ==
    \E call \in {"umem_reg", "fill_ring", "comp_ring"} : Call(call, {}, {"fd", "area"})

\* Umem::new returns with ?: its caller closes the socket, the area stays.
MmapOffsets == Call("offsets", {}, {"fd"})

MapFill == Call("map_fill", {"fill"}, {"fd", "area"})

\* The fill ring then gets the first RING_SIZE frames and the pool the rest, which is
\* where RxSink and TxGenerator start.
MapComp == Call("map_comp", {"comp"}, {"fd", "area"})

RingOption == \E call \in {"rx_ring", "tx_ring"} : Call(call, {}, {"fd", "area"})

\* create_xsk_socket returns with ?: the Umem is dropped, the socket stays.
RxTxOffsets == Call("rx_tx_offsets", {}, {"area"})

MapRx == Call("map_rx", {"rx"}, {"fd", "area"})

MapTx == Call("map_tx", {"tx"}, {"fd", "area"})

\* The kernel binds one socket to a queue.
Bind ==
    /\ pc = "bind"
    /\ \A a \in bound : a[1] # q
    /\ bound' = bound \cup {att}
    /\ pc' = After[pc]
    /\ UNCHANGED <<role, q, mode, program, redirect, held, made, worker, failedAt>>

BindFails == Fails("bind", {"fd", "area"})

CreateXskSocket ==
    \/ OpenSocket \/ MapArea \/ UmemOption \/ MmapOffsets \/ MapFill \/ MapComp
    \/ RingOption \/ RxTxOffsets \/ MapRx \/ MapTx \/ Bind \/ BindFails

\* or_else: copy mode after zero-copy.
Retry ==
    /\ pc = "failed" /\ mode = "zerocopy"
    /\ mode' = "copy"
    /\ pc' = "socket"
    /\ UNCHANGED <<role, q, program, redirect, held, bound, made, worker, failedAt>>

\* A sink drops the sockets it has; a generator has forgotten its own.
GiveUp ==
    /\ pc = "failed" /\ mode = "copy"
    /\ held' = IF role = "sink" THEN held \ (made \X {"fd", "area"}) ELSE held
    /\ ReturnError
    /\ UNCHANGED <<role, q, mode, bound, made, worker, failedAt>>

-----------------------------------------------------------------------------
(* The socket is handed over, the workers run, the session returns.         *)

NextQueue(first) ==
    IF q + 1 < Workers
    THEN q' = q + 1 /\ mode' = first /\ pc' = "socket"
    ELSE q' = 0 /\ pc' = "spawn" /\ UNCHANGED mode

\* extract_tx moves the rings and the pool out, and forget keeps the rest.
KeepForWorker ==
    /\ made' = made \cup {att}
    /\ UNCHANGED held

HandOver ==
    /\ pc = "created" /\ role = "generator"
    /\ KeepForWorker
    /\ NextQueue(IF program = "attached" THEN "zerocopy" ELSE "copy")
    /\ UNCHANGED <<role, program, redirect, bound, worker, failedAt>>

Register ==
    /\ pc = "created" /\ role = "sink"
    /\ redirect' = redirect \cup {att}
    /\ made' = made \cup {att}
    /\ NextQueue("zerocopy")
    /\ UNCHANGED <<role, program, held, bound, worker, failedAt>>

\* The XSKS map has 64 entries, among other reasons.  sock, socks and the handle
\* are dropped, in this order.
RegisterFails ==
    /\ pc = "created" /\ role = "sink"
    /\ held' = held \ ((made \cup {att}) \X {"fd", "area"})
    /\ ReturnError
    /\ UNCHANGED <<role, q, mode, bound, made, worker, failedAt>>

Spawn ==
    /\ pc = "spawn"
    /\ worker' = [worker EXCEPT ![q] = "running"]
    /\ IF q + 1 < Workers
       THEN q' = q + 1 /\ UNCHANGED pc
       ELSE q' = 0 /\ pc' = "join"
    /\ UNCHANGED <<role, mode, program, redirect, held, bound, made, failedAt>>

\* The deadline passes.  rx_loop owns its socket and drops
\* it; tx_loop borrows a TxState, whose parts have no Drop.
WorkerEnds(w) ==
    /\ worker[w] = "running"
    /\ worker' = [worker EXCEPT ![w] = "ended"]
    /\ held' = IF role = "sink" THEN held \ (Of(w) \X {"fd", "area"}) ELSE held
    /\ UNCHANGED <<role, pc, q, mode, program, redirect, bound, made, failedAt>>

Join ==
    /\ pc = "join"
    /\ worker[q] = "ended"
    /\ IF q + 1 < Workers
       THEN q' = q + 1 /\ UNCHANGED pc
       ELSE q' = 0 /\ pc' = "joined"
    /\ UNCHANGED <<role, mode, program, redirect, held, bound, made, worker, failedAt>>

\* The handle is dropped, which detaches the program.
Finish ==
    /\ pc = "joined"
    /\ program' = "detached"
    /\ redirect' = {}
    /\ pc' = "ok"
    /\ UNCHANGED <<role, q, mode, held, bound, made, worker, failedAt>>

Main ==
    \/ Resolve \/ Load \/ LoadFails \/ CreateXskSocket \/ Retry \/ GiveUp
    \/ HandOver \/ Register \/ RegisterFails \/ Spawn \/ Join \/ Finish

Next == Main \/ \E w \in Q : WorkerEnds(w)

\* The main thread runs, and every worker sees the deadline.
Fairness == WF_vars(Main) /\ \A w \in Q : WF_vars(WorkerEnds(w))

Spec == Init /\ [][Next]_vars /\ Fairness

-----------------------------------------------------------------------------
Returned == pc \in {"ok", "err"}

\* Types of the variables.
TypeOK ==
    /\ role \in {"generator", "sink"}
    /\ pc \in Calls \cup {"resolve", "load", "failed", "created", "spawn", "join",
                          "joined", "ok", "err"}
    /\ q \in Q /\ mode \in Modes /\ program \in {"attached", "detached"}
    /\ redirect \subseteq Attempts
    /\ held \subseteq Attempts \X Resources
    /\ bound \subseteq Attempts
    /\ made \subseteq Attempts
    /\ worker \in [Q -> {None, "running", "ended"}]
    /\ failedAt \in [Attempts -> Calls \cup {None}]

\* While a worker runs, what it uses through raw pointers and a bare descriptor
\* is there: its socket is open and bound, its UMEM area and its rings are
\* mapped; the program that arms zero-copy transmission is program, and so is
\* the one that redirects a sink's queue into this very socket (gen.rs:139-149,
\* sink.rs:53-61).
RunningWorkerEquipped ==
    \A w \in Q : worker[w] = "running" =>
        \E a \in Of(w) :
            /\ Of(w) = {a}
            /\ a \in bound
            /\ {a} \X Resources \subseteq held
            /\ a[2] = "zerocopy" => program = "attached"
            /\ role = "sink" => program = "attached" /\ a \in redirect

\* A socket the session still answers for: a sink's until its worker ends or the
\* session fails, a generator's for good.
Live(a) ==
    /\ a \in made
    /\ role = "sink" => worker[a[1]] # "ended" /\ pc # "err"

\* The descriptors and areas held are those of the attempt in progress, of live
\* sockets, and of the two error returns that release only one of them: an
\* attempt that fails at the second XDP_MMAP_OFFSETS leaves its descriptor
\* (socket.rs:72), at the first its area (umem.rs:274).
HandlesAccountedFor ==
    \A a \in Attempts :
        /\ <<a, "fd">> \in held <=>
              \/ a = att /\ pc \in (Calls \cup {"created"}) \ {"socket"}
              \/ Live(a)
              \/ failedAt[a] = "rx_tx_offsets"
        /\ <<a, "area">> \in held <=>
              \/ a = att /\ pc \in (Calls \cup {"created"}) \ {"socket", "mmap_area"}
              \/ Live(a)
              \/ failedAt[a] = "offsets"

\* A bind never meets an earlier socket of this session on its queue, although
\* an abandoned one lives on in its mappings: the fallback to copy mode is
\* refused only for reasons of the driver (gen.rs:124-129, sink.rs:40-41).
FallbackFindsQueueFree == pc = "bind" => \A a \in bound : a[1] # q

\* "The program detaches on exit (RAII)" (README.md:98): however the session
\* returns, the program is detached.
DetachedOnReturn == Returned => program = "detached"

\* The session returns: set-up fails or every worker is joined.
SessionReturns == <>Returned

\* The steps an attempt can still take.
CallsLeft ==
    [socket |-> 15, mmap_area |-> 14, umem_reg |-> 13, fill_ring |-> 12, comp_ring |-> 11,
     offsets |-> 10, map_fill |-> 9, map_comp |-> 8, rx_ring |-> 7, tx_ring |-> 6,
     rx_tx_offsets |-> 5, map_rx |-> 4, map_tx |-> 3, bind |-> 2, created |-> 1, failed |-> 1]

\* A bound on the steps the main thread can still take: two attempts of 16 steps
\* for a queue, then a spawn and a join for a worker.
MainStepsLeft ==
    CASE pc = "resolve" -> 34 * Workers + 35
      [] pc = "load" -> 34 * Workers + 34
      [] pc \in DOMAIN CallsLeft ->
            2 * Workers + 2 + 32 * (Workers - q)
                + (IF mode = "zerocopy" THEN 16 ELSE 0) + CallsLeft[pc]
      [] pc = "spawn" -> 2 * Workers + 2 - q
      [] pc = "join" -> Workers + 2 - q
      [] pc = "joined" -> 1
      [] OTHER -> 0

Unfinished == {w \in Q : worker[w] # "ended"}
StepsLeft == MainStepsLeft + Cardinality(Unfinished)

\* Every step of the session brings its end nearer: no failure, retry or fallback
\* makes it start over (gen.rs:115-171, sink.rs:36-63).
SessionShrinks == [][StepsLeft' < StepsLeft]_vars

\* The main thread waits only for threads it has started (gen.rs:161-169,
\* sink.rs:51-60).
AwaitedWasStarted == pc = "join" => worker[q] # None
=============================================================================
