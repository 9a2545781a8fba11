---------------------------- MODULE BoundedFifo ----------------------------
(***************************************************************************)
(* What an AF_XDP ring promises its two ends, without saying how: a queue  *)
(* of at most Capacity values.  A put appends a batch that fits, a take    *)
(* removes a prefix and returns exactly what it removed.                   *)
(***************************************************************************)
EXTENDS Integers, Sequences

CONSTANTS Capacity, Values

VARIABLES
    queue,  \* the values put and not yet taken, oldest first
    got     \* what the last take returned

vars == <<queue, got>>

Batches == UNION {[1..n -> Values] : n \in 0..Capacity}

Init == queue = << >> /\ got = << >>

Put == \E batch \in Batches :
    /\ Len(queue) + Len(batch) <= Capacity
    /\ queue' = queue \o batch
    /\ UNCHANGED got

Take == \E n \in 0..Len(queue) :
    /\ got' = SubSeq(queue, 1, n)
    /\ queue' = SubSeq(queue, n + 1, Len(queue))

Next == Put \/ Take

Spec == Init /\ [][Next]_vars
=============================================================================
