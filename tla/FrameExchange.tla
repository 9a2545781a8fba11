--------------------------- MODULE FrameExchange ---------------------------
(***************************************************************************)
(* What a UMEM area shared between a worker and the kernel promises,       *)
(* without rings, pools or batches: one side writes frames and submits     *)
(* them, the other takes them in the order they were submitted, with the   *)
(* contents they were submitted with, and releases them in any order.  A   *)
(* frame is not submitted again before it has been released.               *)
(***************************************************************************)
EXTENDS Integers, Sequences

CONSTANTS Frames, Contents

VARIABLES
    queue,  \* submitted and not yet taken, oldest first
    taken   \* taken and not yet released

vars == <<queue, taken>>

Out == {queue[i].frame : i \in 1..Len(queue)} \cup {c.frame : c \in taken}

Init == queue = << >> /\ taken = {}

Submit == \E f \in Frames \ Out, d \in Contents :
    /\ queue' = Append(queue, [frame |-> f, data |-> d])
    /\ UNCHANGED taken

Take ==
    /\ queue # << >>
    /\ taken' = taken \cup {Head(queue)}
    /\ queue' = Tail(queue)

Release ==
    /\ taken' \in SUBSET taken
    /\ UNCHANGED queue

Next == Submit \/ Take \/ Release

Spec == Init /\ [][Next]_vars
=============================================================================
