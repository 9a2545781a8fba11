--------------------------- MODULE LossAccounting ---------------------------
(***************************************************************************)
(* How a receiver derives loss from sequence numbers: the map last_seq     *)
(* from stream id to the last sequence number seen, and the gap rule.  The *)
(* AF_XDP sink (sink.rs:88-97) and the socket server (net.rs:459-468) run  *)
(* the same code.                                                          *)
(***************************************************************************)
EXTENDS Integers

\* HashMap::insert: the map is a function on the streams seen so far.
LastSeqInsert(lastSeq, sid, seq) ==
    [s \in DOMAIN lastSeq \cup {sid} |-> IF s = sid THEN seq ELSE lastSeq[s]]

\* A slip: a gap counted from the previous packet itself.
GapOffByOne(lastSeq, sid, seq) ==
    IF sid \in DOMAIN lastSeq /\ seq > lastSeq[sid] + 1 THEN seq - lastSeq[sid] ELSE 0

\* A slip: a single missing packet is no gap.
GapSkipsOne(lastSeq, sid, seq) ==
    IF sid \in DOMAIN lastSeq /\ seq > lastSeq[sid] + 2 THEN seq - lastSeq[sid] - 1 ELSE 0

\* What one packet adds to drops: nothing for a stream's first packet, for the
\* next number, or for a number that is not ahead.
Gap(lastSeq, sid, seq) ==
    IF sid \in DOMAIN lastSeq /\ seq > lastSeq[sid] + 1 THEN seq - lastSeq[sid] - 1 ELSE 0
=============================================================================
