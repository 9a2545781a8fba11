--------------------------- MODULE SocketSession ---------------------------
(***************************************************************************)
(* A socket client and the server it talks to, over a network that neither *)
(* loses nor reorders.  UDP: a receiver that runs the gap rule             *)
(* (LossAccounting).  TCP: the listeners and reader threads of tcp_server, *)
(* one connection per sender thread with a window of unread bytes; the     *)
(* server may exit, which resets its connections, or hang.                 *)
(***************************************************************************)
EXTENDS SocketClient, LossAccounting

CONSTANTS
    Workers,   \* SO_REUSEPORT listeners of the TCP server
    Window     \* bound: bytes a TCP connection holds unread

ASSUME SessionAssumption == Workers \in Nat \ {0} /\ Window \in Nat \ {0}

VARIABLES
    rxLast, rxDrops,          \* the UDP receiver's last_seq and drops
    server, listeners,        \* the TCP server: its state, its listeners
    conn, rcvd, got,          \* per connection: its reader, bytes read, bytes to count
    srvBytes                  \* the server's bytes counter

udpVars == <<rxLast, rxDrops>>
tcpVars == <<server, listeners, conn, rcvd, got, srvBytes>>
sessionVars == <<vars, udpVars, tcpVars>>

SessionInit ==
    /\ Init
    /\ rxLast = [s \in {} |-> 0] /\ rxDrops = 0
    /\ server = "binding" /\ listeners = 0
    /\ conn = [t \in Threads |-> "none"]
    /\ rcvd = [t \in Threads |-> 0] /\ got = [t \in Threads |-> 0]
    /\ srvBytes = 0

-----------------------------------------------------------------------------
(* UDP.                                                                     *)

\* The datagrams sendmmsg took arrive as one run of consecutive numbers: only
\* the first can be ahead of what the receiver has seen.
Arrive(t, first, n) ==
    IF n = 0 THEN UNCHANGED udpVars
    ELSE /\ rxDrops' = rxDrops + Gap(rxLast, t, first)
         /\ rxLast' = LastSeqInsert(rxLast, t, first + n - 1)

Transmit(t) == \E n \in 0..Batch :
    SendMmsg(t, n) /\ Arrive(t, seq[t] - Batch, n) /\ UNCHANGED tcpVars

UdpOpen(t) == \E next \in {"head", "done"} :
    proto = "udp" /\ Open(t, next) /\ UNCHANGED <<udpVars, tcpVars>>

-----------------------------------------------------------------------------
(* TCP.                                                                     *)

\* The process is running: it has neither exited nor hung.
Alive == server \in {"binding", "serving"}

Listen ==
    /\ proto = "tcp" /\ server = "binding"
    /\ listeners' = listeners + 1
    /\ server' = IF listeners + 1 = Workers THEN "serving" ELSE "binding"
    /\ UNCHANGED <<vars, udpVars, conn, rcvd, got, srvBytes>>

ResetAll == [t \in Threads |-> IF conn[t] \in {"queued", "open"} THEN "reset" ELSE conn[t]]

\* reuseport_tcp_listener fails, or the process is killed, which is how it ends:
\* its connections are reset and what they held unread is gone.
Exit ==
    /\ proto = "tcp" /\ Alive
    /\ server' = "exited"
    /\ conn' = ResetAll
    /\ UNCHANGED <<vars, udpVars, listeners, rcvd, got, srvBytes>>

\* The handshake needs a listening socket, not an accept.
Connect(t) ==
    /\ proto = "tcp" /\ listeners > 0 /\ server # "exited"
    /\ Open(t, "head")
    /\ conn' = [conn EXCEPT ![t] = "queued"]
    /\ UNCHANGED <<udpVars, server, listeners, rcvd, got, srvBytes>>

ConnectFails(t) == proto = "tcp" /\ Open(t, "done") /\ UNCHANGED <<udpVars, tcpVars>>

Unread(t) == seq[t] - rcvd[t]

\* A blocking write returns once there is room for something.
TcpSend(t) == \E n \in 1..Batch :
    /\ conn[t] # "reset" /\ Unread(t) + n <= Window
    /\ Write(t, n)
    /\ UNCHANGED <<udpVars, tcpVars>>

TcpSendFails(t) == conn[t] = "reset" /\ WriteFails(t) /\ UNCHANGED <<udpVars, tcpVars>>

\* incoming() yields the stream and its reader thread is spawned.
Accept(t) ==
    /\ Alive /\ conn[t] = "queued"
    /\ conn' = [conn EXCEPT ![t] = "open"]
    /\ UNCHANGED <<vars, udpVars, server, listeners, rcvd, got, srvBytes>>

Read(t) == \E n \in 1..Batch :
    /\ Alive /\ conn[t] = "open" /\ got[t] = 0 /\ n <= Unread(t)
    /\ rcvd' = [rcvd EXCEPT ![t] = @ + n]
    /\ got' = [got EXCEPT ![t] = n]
    /\ UNCHANGED <<vars, udpVars, server, listeners, conn, srvBytes>>

CountReadAs(t, n) ==
    /\ Alive /\ got[t] > 0
    /\ srvBytes' = srvBytes + n
    /\ got' = [got EXCEPT ![t] = 0]
    /\ UNCHANGED <<vars, udpVars, server, listeners, conn, rcvd>>

\* A short read counted as a full buffer.
CountReadSlip(t) == CountReadAs(t, Batch)

CountRead(t) == CountReadAs(t, got[t])

\* The sender's stream is dropped when its thread returns.  Ok(0) comes after
\* the last byte.
ReadEnds(t) ==
    /\ Alive /\ conn[t] = "open" /\ got[t] = 0
    /\ tpc[t] = "done" /\ Unread(t) = 0
    /\ conn' = [conn EXCEPT ![t] = "ended"]
    /\ UNCHANGED <<vars, udpVars, server, listeners, rcvd, got, srvBytes>>

\* The server stops running without closing anything.
Hang ==
    /\ proto = "tcp" /\ Alive
    /\ server' = "hung"
    /\ UNCHANGED <<vars, udpVars, listeners, conn, rcvd, got, srvBytes>>

-----------------------------------------------------------------------------
Internal(t) ==
    /\ Stop(t) \/ Stamp(t) \/ EnterWrite(t) \/ CountPackets(t) \/ CountBytes(t) \/ Pace(t)
    /\ UNCHANGED <<udpVars, tcpVars>>

Sender(t) ==
    \/ UdpOpen(t) \/ Transmit(t) \/ Connect(t) \/ ConnectFails(t) \/ TcpSend(t)
    \/ TcpSendFails(t) \/ Internal(t)

Reader(t) == Accept(t) \/ Read(t) \/ CountRead(t) \/ ReadEnds(t)

Senders == \E t \in Threads : Sender(t)
Readers == \E t \in Threads : Reader(t)
Report == Reporter /\ UNCHANGED <<udpVars, tcpVars>>
Return == Main /\ UNCHANGED <<udpVars, tcpVars>>
Deadline == Expire /\ UNCHANGED <<udpVars, tcpVars>>

Finished == mpc = "done" /\ expired /\ UNCHANGED sessionVars

SessionNext ==
    \/ Senders \/ Readers \/ Report \/ Return \/ Deadline \/ Listen \/ Exit \/ Hang \/ Finished

\* If sender threads can run, one of them does; so with the server's threads
\* while the server runs, the reporter and the main thread.  Time passes.
SessionSpec ==
    /\ SessionInit /\ [][SessionNext]_sessionVars
    /\ WF_sessionVars(Senders) /\ WF_sessionVars(Readers)
    /\ WF_sessionVars(Report) /\ WF_sessionVars(Return) /\ WF_sessionVars(Deadline)

-----------------------------------------------------------------------------
\* The datagrams the kernel did not take, between two of their thread it took.
Skipped ==
    {u \in Threads \X (0 .. MaxSeq - 1) :
        /\ u \notin accepted
        /\ \E m, n \in 0 .. MaxSeq - 1 :
             {<<u[1], m>>, <<u[1], n>>} \subseteq accepted /\ m < u[2] /\ u[2] < n}

\* Over a perfect network the loss reported is exactly the datagrams that were
\* stamped and that sendmmsg did not take, between the first and the last one
\* taken (net.rs:351-363 with 463-467).
DropsAreUnsent == proto = "udp" => rxDrops = Cardinality(Skipped)

\* When every connection has come to its end without a reset, the server has
\* counted the bytes the client reports: bytes written just before the deadline
\* are still read after it (net.rs:205-212 with 264-283).
EndsAgree ==
    mpc = "done" /\ proto = "tcp" /\ (\A t \in Threads : conn[t] \in {"none", "ended"})
        => srvBytes = summary.bytes

\* A thread in write, on a full connection that the server no longer reads.
WriterStuck == \E t \in Threads :
    tpc[t] = "send" /\ proto = "tcp" /\ server = "hung" /\ Unread(t) = Window

\* Once the deadline has passed the client ends, the reporter included, and no
\* thread waits for another forever.  The deadline is tested between writes: only
\* a write to a server that reads no more keeps the client (net.rs:264-278,
\* 349, 376-380).
ClientEnds == expired ~> (mpc = "done" \/ WriterStuck)

\* A thread in a write that finds no room is never left alone with it: its
\* connection is reset, the server hangs, or the connection has a running server
\* and something for its reader to do (net.rs:196-217, 264-272).
WriterHasReader == \A t \in Threads :
    proto = "tcp" /\ tpc[t] = "send" /\ Unread(t) = Window =>
        \/ conn[t] = "reset"
        \/ server = "hung"
        \/ Alive /\ (conn[t] = "queued" \/ (conn[t] = "open" /\ Unread(t) > 0))

\* The steps of a sender thread after the deadline, of the reporter once run has
\* been cleared, and of the main thread.
SenderLeft ==
    [send |-> 5, packets |-> 4, bytes |-> 3, pace |-> 2, start |-> 2, head |-> 1, done |-> 0]
ReporterLeft == [asleep |-> 3, loaded |-> 2, check |-> 1, done |-> 0]
MainLeft == [join |-> 3, stop |-> 2, report |-> 1, done |-> 0]

\* Once told to end, every thread only moves towards its end: no sender starts
\* another batch or write after the deadline and the reporter no other interval
\* after run was cleared (net.rs:51-63, 264, 277-278, 349, 379-380).
ThreadsWindDown ==
    [][/\ expired => \A t \in Threads :
            tpc'[t] = tpc[t] \/ SenderLeft[tpc'[t]] < SenderLeft[tpc[t]]
       /\ ~run => rpc' = rpc \/ ReporterLeft[rpc'] < ReporterLeft[rpc]
       /\ mpc' = mpc \/ MainLeft[mpc'] < MainLeft[mpc]]_sessionVars
=============================================================================
