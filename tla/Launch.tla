------------------------------- MODULE Launch -------------------------------
(***************************************************************************)
(* From the command line to the running engine (main.rs, with affinity.rs  *)
(* for the CPU list and the first lines of each engine for its number of   *)
(* workers, its buffers and its rate).  A flag is looked up where its      *)
(* value is used; a flag that is absent or does not parse has no value.    *)
(* An optional value is a set of at most one element.  A part of a CPU     *)
(* list is the range it denotes, empty if it does not parse.               *)
(***************************************************************************)
EXTENDS Integers, Sequences, FiniteSets, FiniteSetsExt, SequencesExt

CONSTANTS
    Lens, Threads, Rates,   \* values of --len, --threads, --target-pps
    CpuLists,               \* values of --cpus, and contents of a node's cpulist
    Onlines,                \* what sched_getaffinity may report
    QueueCounts,            \* what get_rx_queue_count may report
    Mems,                   \* MemAvailable
    DefaultCap,             \* 1 << 30: the cap if MemAvailable is unreadable
    WordMod                 \* 2^64: where u64 products wrap

\* Lengths, counts and rates are unsigned.
ASSUME LaunchAssumption ==
    /\ Lens \subseteq Nat /\ Threads \subseteq Nat /\ Rates \subseteq Nat
    /\ CpuLists \subseteq Seq([lo : Nat, hi : Nat])
    /\ Onlines \subseteq Seq(Nat)
    /\ QueueCounts \subseteq Nat /\ Mems \subseteq Nat
    /\ DefaultCap \in Nat /\ WordMod \in Nat \ {0}

VARIABLES
    pc,
    job   \* what has been settled so far

Optional(S) == {{}} \cup {{x} : x \in S}
ValueOr(option, default) == IF option = {} THEN default ELSE CHOOSE x \in option : TRUE
Larger(x, y) == IF x >= y THEN x ELSE y
Smaller(x, y) == IF x <= y THEN x ELSE y

BATCH == 64
HDR == 16
TcpBuffer == 256 * 1024
MinServerBuffer == 2048

LaunchInit ==
    /\ pc = "start"
    /\ job = [udp |-> FALSE, len |-> 0, cpus |-> << >>, engine |-> "none", workers |-> 0,
              pps |-> 0, share |-> 0, planned |-> 0, cap |-> 0]

-----------------------------------------------------------------------------
(* affinity.rs.                                                             *)

ParseCpulist(parts) ==
    FlattenSeq([i \in DOMAIN parts |->
                  [k \in 1 .. parts[i].hi - parts[i].lo + 1 |-> parts[i].lo + k - 1]])

\* --cpus before --numa; an unreadable node has an empty list.
ResolveCpus(list, node) == ParseCpulist(ValueOr(list, ValueOr(node, << >>)))

OnlineCpus(online) == IF online = << >> THEN <<0>> ELSE online

EffectiveCpus(list, node, online) ==
    LET explicit == ResolveCpus(list, node)
    IN  IF explicit = << >> THEN OnlineCpus(online) ELSE explicit

\* A slip: workers beyond the list stay on its last CPU.
PinSlotSlip(w) == Smaller(w, Len(job.cpus) - 1) + 1

\* Where in the list the CPU of worker w is: cpus[w % cpus.len()].
PinSlot(w) == (w % Len(job.cpus)) + 1

-----------------------------------------------------------------------------
(* main: each step ends in an exit, an engine or the next question.         *)

\* No arguments or --help, --version, or a mode that is neither: nothing runs.
Answer == pc = "start" /\ pc' \in {"usage", "version"} /\ UNCHANGED job

Parse ==
    /\ pc = "start"
    /\ \E udp \in BOOLEAN, len \in Optional(Lens), list \in Optional(CpuLists),
          node \in Optional(CpuLists), online \in Onlines :
         job' = [job EXCEPT !.udp = udp, !.len = ValueOr(len, 1400),
                            !.cpus = EffectiveCpus(list, node, online)]
    /\ pc' = "mode"

\* --xdp needs a build with the feature, exit 1, and --iface, exit 2.
ServeXdp ==
    /\ pc = "mode"
    /\ job' = [job EXCEPT !.engine = "xdp_sink"]
    /\ pc' \in {"error", "usage", "queues"}

\* Only the UDP server is guarded, for the buffers of one worker.
ServeUdp ==
    /\ pc = "mode" /\ job.udp
    /\ job' = [job EXCEPT !.engine = "udp_server", !.workers = Larger(Len(job.cpus), 1),
                          !.planned = (BATCH * Larger(job.len, MinServerBuffer)) % WordMod]
    /\ pc' = "guard"

ServeTcp ==
    /\ pc = "mode" /\ ~job.udp
    /\ job' = [job EXCEPT !.engine = "tcp_server", !.workers = Larger(Len(job.cpus), 1)]
    /\ pc' = "running"

NoConnect == pc = "mode" /\ pc' = "usage" /\ UNCHANGED job

\* --xdp: without --iface, exit 2; --connect that is no IPv4 HOST:PORT, exit 1.
ConnectXdp ==
    /\ pc = "mode"
    /\ \E rate \in Rates : job' = [job EXCEPT !.engine = "xdp_client", !.pps = rate]
    /\ pc' \in {"usage", "error", "resolve"}

ConnectSocket ==
    /\ pc = "mode"
    /\ \E threads \in Optional(Threads), rate \in Rates :
         LET n == ValueOr(threads, IF job.udp THEN Len(job.cpus) ELSE 1) IN
         job' = [job EXCEPT
                   !.engine = IF job.udp THEN "udp_client" ELSE "tcp_client",
                   !.workers = n,
                   !.pps = rate,
                   !.planned = IF job.udp THEN (n * BATCH * job.len) % WordMod
                                          ELSE (n * TcpBuffer) % WordMod]
    /\ pc' = "guard"

\* A slip: the cap is not applied when MemAvailable is unreadable.
OomGuardSlip ==
    /\ pc = "guard"
    /\ \E mem \in Optional(Mems) :
         LET cap == ValueOr({m \div 4 : m \in mem}, DefaultCap) IN
         /\ job' = [job EXCEPT !.cap = cap]
         /\ pc' = IF job.planned > cap /\ mem # {} THEN "refused" ELSE "spawn"

OomGuard ==
    /\ pc = "guard"
    /\ \E mem \in Optional(Mems) :
         LET cap == ValueOr({m \div 4 : m \in mem}, DefaultCap) IN
         /\ job' = [job EXCEPT !.cap = cap]
         /\ pc' = IF job.planned > cap THEN "refused" ELSE "spawn"

\* A slip: no .max(1).
ShareSlip(pps, workers) == IF pps = 0 THEN 0 ELSE pps \div workers

\* pps_per_thread and pps_per: 0 means no limit.
Share(pps, workers) == IF pps = 0 THEN 0 ELSE Larger(pps \div workers, 1)

\* A rate to be shared by no thread is a division by zero.
Spawn ==
    /\ pc = "spawn"
    /\ IF job.engine = "udp_client" /\ job.pps > 0 /\ job.workers = 0
       THEN pc' = "panic" /\ UNCHANGED job
       ELSE /\ pc' = "running"
            /\ job' = [job EXCEPT !.share = IF job.engine = "udp_client"
                                            THEN Share(job.pps, job.workers) ELSE 0]

\* AF_XDP: one worker per queue and CPU.
SpawnXdp ==
    /\ pc = "queues"
    /\ \E queues \in QueueCounts :
         LET n == Larger(Smaller(Len(job.cpus), Larger(queues, 1)), 1) IN
         job' = [job EXCEPT !.workers = n, !.share = Share(job.pps, n)]
    /\ pc' = "running"

LaunchNext ==
    \/ Answer \/ Parse \/ ServeXdp \/ ServeUdp \/ ServeTcp \/ NoConnect \/ ConnectXdp
    \/ ConnectSocket \/ OomGuard \/ Spawn \/ SpawnXdp

-----------------------------------------------------------------------------
\* An engine always has a CPU to pin to, whatever --cpus and --numa say, and its
\* workers are spread over the list evenly: no entry gets two more than another
\* (main.rs:98-105, net.rs:75-79, gen.rs:163, sink.rs:54).
PinsBalanced ==
    LET load(i) == Cardinality({w \in 0 .. job.workers - 1 : PinSlot(w) = i})
    IN  pc = "running" => /\ job.cpus # << >>
                          /\ \A i, j \in DOMAIN job.cpus : load(i) <= load(j) + 1

\* --target-pps is never exceeded in all, and is missed by less than one packet
\* per worker; only with more workers than packets does each send one.  A paced
\* engine is never left without a limit (net.rs:303, gen.rs:154).
RateRespected ==
    pc = "running" /\ job.engine \in {"udp_client", "xdp_client"} /\ job.pps > 0 /\ job.workers > 0 =>
        /\ job.share > 0
        /\ \/ job.workers * job.share \in job.pps - job.workers + 1 .. job.pps
           \/ job.pps < job.workers /\ job.share = 1

\* What the threads of the engine allocate.
Allocated ==
    CASE job.engine = "udp_client" -> job.workers * BATCH * Larger(job.len, HDR)
      [] job.engine = "udp_server" -> job.workers * BATCH * Larger(job.len, MinServerBuffer)
      [] job.engine = "tcp_client" -> job.workers * TcpBuffer
      [] OTHER -> 0

\* oom_guard keeps the buffers of the socket engines under its cap but for three
\* cases: the product it is given wraps, --len is shorter than the header every
\* datagram is padded to, and the UDP server, which plans for one of its workers
\* (main.rs:67-78, 138, 210-215).
BuffersUnderCap ==
    pc = "running" /\ Allocated > job.cap =>
        \/ Allocated >= WordMod
        \/ job.engine = "udp_client" /\ job.len < HDR
        \/ job.engine = "udp_server" /\ Allocated <= job.workers * job.cap
=============================================================================
