---------------------------- MODULE SocketClient ----------------------------
(***************************************************************************)
(* The socket clients (net.rs, udp_client, tcp_client and spawn_reporter): *)
(* sender threads, the reporter thread that samples the shared counters,   *)
(* and the main thread that joins both and returns the Summary.  Counters  *)
(* are atomics added to and loaded one at a time.  The unit of `bytes` is  *)
(* a datagram for UDP, where all have one length, and a chunk of the write *)
(* buffer for TCP; units are numbered per thread.                          *)
(***************************************************************************)
EXTENDS Integers, FiniteSets

CONSTANTS
    Threads,       \* sender threads
    Batch,         \* BATCH: datagrams per sendmmsg; chunks of TCP's 256 KiB buffer
    PpsPerThread,  \* pps_per_thread, 0 = blast
    MaxSeq,        \* bound: datagrams stamped per thread
    MaxChunks      \* bound: TCP chunks written per thread

ASSUME ClientAssumption ==
    /\ IsFiniteSet(Threads)
    /\ Batch \in Nat \ {0}
    /\ PpsPerThread \in Nat
    /\ MaxSeq \in Nat /\ MaxChunks \in Nat

VARIABLES
    proto,                                \* "udp" or "tcp"
    tpc, seq, sentSec, sending,           \* per thread; sending: result being counted
    accepted,                             \* the <<thread, number>> the kernel took
    packets, bytes,                       \* Counters
    rpc, b, lastB, lastP,                 \* the reporter and its locals
    late,                                 \* history: its sleeps ended with run cleared
    mpc, run, summary,                    \* the main thread
    expired                               \* Instant::now() >= deadline

senderVars == <<tpc, seq, sentSec, sending, accepted>>
reporterVars == <<rpc, b, lastB, lastP, late>>
mainVars == <<mpc, run, summary, expired, proto>>
vars == <<senderVars, packets, bytes, reporterVars, mainVars>>

Init ==
    /\ proto \in {"udp", "tcp"}
    /\ tpc = [t \in Threads |-> "start"]
    /\ seq = [t \in Threads |-> 0]
    /\ sentSec = [t \in Threads |-> 0]
    /\ sending = [t \in Threads |-> 0]
    /\ accepted = {}
    /\ packets = 0 /\ bytes = 0
    /\ rpc = "check" /\ b = 0 /\ lastB = 0 /\ lastP = 0 /\ late = 0
    /\ mpc = "join" /\ run = TRUE /\ summary = [packets |-> 0, bytes |-> 0]
    /\ expired = FALSE

-----------------------------------------------------------------------------
(* A sender thread.  The operators named ...Slip, here and below, are the   *)
(* code with a plausible mistake; the properties are tested against them.   *)

Goto(t, label) == tpc' = [tpc EXCEPT ![t] = label]

\* bind and connect, or the staggered TcpStream::connect; a failure is printed
\* and ends this thread only.
Open(t, next) ==
    /\ tpc[t] = "start" /\ next \in {"head", "done"}
    /\ Goto(t, next)
    /\ UNCHANGED <<seq, sentSec, sending, accepted, packets, bytes, reporterVars, mainVars>>

Stop(t) ==
    /\ tpc[t] = "head" /\ expired
    /\ Goto(t, "done")
    /\ UNCHANGED <<seq, sentSec, sending, accepted, packets, bytes, reporterVars, mainVars>>

\* UDP: the whole batch is stamped, and its numbers consumed, before it is sent.
Stamp(t) ==
    /\ proto = "udp" /\ tpc[t] = "head" /\ ~expired /\ seq[t] + Batch <= MaxSeq
    /\ seq' = [seq EXCEPT ![t] = @ + Batch]
    /\ Goto(t, "send")
    /\ UNCHANGED <<sentSec, sending, accepted, packets, bytes, reporterVars, mainVars>>

\* The kernel takes the n units of thread t that start with number `first`.
Take(t, first, n) ==
    /\ accepted' = accepted \cup ({t} \X (first .. first + n - 1))
    /\ sending' = [sending EXCEPT ![t] = n]

\* sendmmsg takes a prefix of the batch, or fails (n = 0).
SendMmsg(t, n) ==
    /\ proto = "udp" /\ tpc[t] = "send" /\ n \in 0..Batch
    /\ Take(t, seq[t] - Batch, n)
    /\ Goto(t, IF n > 0 THEN "packets" ELSE "pace")
    /\ UNCHANGED <<seq, sentSec, packets, bytes, reporterVars, mainVars>>

\* TCP: past the deadline test, the thread is in write until it returns.
EnterWrite(t) ==
    /\ proto = "tcp" /\ tpc[t] = "head" /\ ~expired /\ seq[t] < MaxChunks
    /\ Goto(t, "send")
    /\ UNCHANGED <<seq, sentSec, sending, accepted, packets, bytes, reporterVars, mainVars>>

Write(t, n) ==
    /\ proto = "tcp" /\ tpc[t] = "send" /\ n \in 1..Batch /\ seq[t] + n <= MaxChunks
    /\ Take(t, seq[t], n)
    /\ seq' = [seq EXCEPT ![t] = @ + n]
    /\ Goto(t, "bytes")
    /\ UNCHANGED <<sentSec, packets, bytes, reporterVars, mainVars>>

\* Ok(0) or an error: the thread's loop ends.
WriteFails(t) ==
    /\ proto = "tcp" /\ tpc[t] = "send"
    /\ Goto(t, "done")
    /\ UNCHANGED <<seq, sentSec, sending, accepted, packets, bytes, reporterVars, mainVars>>

PacketsBecome(t, total) ==
    /\ tpc[t] = "packets"
    /\ packets' = total
    /\ Goto(t, "bytes")
    /\ UNCHANGED <<seq, sentSec, sending, accepted, bytes, reporterVars, mainVars>>

\* store instead of fetch_add.
CountPacketsSlip(t) == PacketsBecome(t, sending[t])

CountPackets(t) == PacketsBecome(t, packets + sending[t])

BytesBecome(t, total) ==
    /\ tpc[t] = "bytes"
    /\ bytes' = total
    /\ sentSec' = [sentSec EXCEPT ![t] = IF proto = "udp" THEN @ + sending[t] ELSE @]
    /\ sending' = [sending EXCEPT ![t] = 0]
    /\ Goto(t, IF proto = "udp" THEN "pace" ELSE "head")
    /\ UNCHANGED <<seq, accepted, packets, reporterVars, mainVars>>

\* A short send counted as the whole batch.
CountBytesSlip(t) == BytesBecome(t, bytes + Batch)

CountBytes(t) == BytesBecome(t, bytes + sending[t])

\* UDP: at or above the rate the rest of the second is slept off.
Pace(t) ==
    /\ tpc[t] = "pace"
    /\ sentSec' = [sentSec EXCEPT ![t] = IF PpsPerThread > 0 /\ @ >= PpsPerThread THEN 0 ELSE @]
    /\ Goto(t, "head")
    /\ UNCHANGED <<seq, sending, accepted, packets, bytes, reporterVars, mainVars>>

-----------------------------------------------------------------------------
(* The reporter: while run { sleep 1 s; load bytes; load packets; print }.  *)

RepCheckSlip ==
    /\ rpc = "check" /\ rpc' = "asleep"
    /\ UNCHANGED <<senderVars, packets, bytes, b, lastB, lastP, late, mainVars>>

RepCheck ==
    /\ rpc = "check"
    /\ rpc' = IF run THEN "asleep" ELSE "done"
    /\ UNCHANGED <<senderVars, packets, bytes, b, lastB, lastP, late, mainVars>>

RepLoadBytes ==
    /\ rpc = "asleep"
    /\ b' = bytes
    /\ late' = IF run THEN late ELSE late + 1
    /\ rpc' = "loaded"
    /\ UNCHANGED <<senderVars, packets, bytes, lastB, lastP, mainVars>>

RepLoadPackets ==
    /\ rpc = "loaded"
    /\ lastP' = packets /\ lastB' = b
    /\ b' = 0
    /\ rpc' = "check"
    /\ UNCHANGED <<senderVars, packets, bytes, late, mainVars>>

Reporter == RepCheck \/ RepLoadBytes \/ RepLoadPackets

-----------------------------------------------------------------------------
(* The main thread: join the senders, clear run, join the reporter, load.   *)

JoinWhen(condition) ==
    /\ mpc = "join" /\ condition
    /\ mpc' = "stop"
    /\ UNCHANGED <<senderVars, packets, bytes, reporterVars, run, summary, expired, proto>>

\* The main thread waits for the deadline, not for the senders.
JoinSendersSlip == JoinWhen(expired)

JoinSenders == JoinWhen(\A t \in Threads : tpc[t] = "done")

StopReporter(flag) ==
    /\ mpc = "stop"
    /\ run' = flag
    /\ mpc' = "report"
    /\ UNCHANGED <<senderVars, packets, bytes, reporterVars, summary, expired, proto>>

ClearRunSlip == StopReporter(run)

ClearRun == StopReporter(FALSE)

Summarise ==
    /\ mpc = "report" /\ rpc = "done"
    /\ summary' = [packets |-> IF proto = "udp" THEN packets ELSE 0, bytes |-> bytes]
    /\ mpc' = "done"
    /\ UNCHANGED <<senderVars, packets, bytes, reporterVars, run, expired, proto>>

Main == JoinSenders \/ ClearRun \/ Summarise

Expire ==
    /\ ~expired
    /\ expired' = TRUE
    /\ UNCHANGED <<senderVars, packets, bytes, reporterVars, mpc, run, summary, proto>>

Next ==
    \/ \E t \in Threads :
         \/ \E next \in {"head", "done"} : Open(t, next)
         \/ \E n \in 0..Batch : SendMmsg(t, n) \/ Write(t, n)
         \/ Stop(t) \/ Stamp(t) \/ EnterWrite(t) \/ WriteFails(t)
         \/ CountPackets(t) \/ CountBytes(t) \/ Pace(t)
    \/ Reporter \/ Main \/ Expire

Spec == Init /\ [][Next]_vars

-----------------------------------------------------------------------------
\* Every variable of the three kinds of thread stays in its range
\* (net.rs:45-73, 223-386).
TypeOK ==
    /\ proto \in {"udp", "tcp"}
    /\ tpc \in [Threads -> {"start", "head", "send", "packets", "bytes", "pace", "done"}]
    /\ seq \in [Threads -> Nat]
    /\ sentSec \in [Threads -> Nat]
    /\ sending \in [Threads -> 0..Batch]
    /\ accepted \in SUBSET (Threads \X Nat)
    /\ \A u \in accepted : u[2] < seq[u[1]]
    /\ packets \in Nat /\ bytes \in Nat
    /\ rpc \in {"check", "asleep", "loaded", "done"}
    /\ b \in Nat /\ lastB \in Nat /\ lastP \in Nat /\ late \in Nat
    /\ mpc \in {"join", "stop", "report", "done"}
    /\ run \in BOOLEAN /\ expired \in BOOLEAN
    /\ summary \in [packets : Nat, bytes : Nat]

Handed == Cardinality(accepted)

\* The Summary printed at the end counts every datagram or byte the kernel
\* accepted, of every thread, and no other: no addition is still under way when
\* the counters are loaded (net.rs:274-283, 376-385).
SummaryExact ==
    mpc = "done" => summary = [packets |-> IF proto = "udp" THEN Handed ELSE 0, bytes |-> Handed]

\* A UDP report never shows more bytes than packets: senders add to packets
\* first and the reporter loads bytes first (net.rs:54-55, 360-361).
ReportConsistent == proto = "udp" => lastB <= lastP /\ b <= packets

\* The interval deltas b - last_b and p - last_p are never negative, which as
\* u64 subtractions would wrap or panic (net.rs:56, 59).
DeltasNeverNegative == [][lastB' >= lastB /\ lastP' >= lastP]_vars

\* Summary.secs is taken after the reporter has been joined: by then at most one
\* of its one-second sleeps has ended since the last sender was joined and run
\* cleared, so secs is at most about a second too long (net.rs:277-282, 379-384).
AtMostOneLateSleep == late <= 1
=============================================================================
