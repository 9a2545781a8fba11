---------------------------- MODULE XskRingWeak ----------------------------
(***************************************************************************)
(* The draining end of the ring on a processor that reorders loads, such   *)
(* as the aarch64 the project builds for.  dequeue_all and consume_rx      *)
(* issue their acquire fence BEFORE they load the producer cursor          *)
(* (umem.rs:126-127, 190-191), so nothing orders that load before the      *)
(* loads of the slots: a slot may be read as it was at any moment since    *)
(* the fence, that is, before the producer published it.                   *)
(***************************************************************************)
EXTENDS XskRing

VARIABLE view   \* the slots as loads issued ahead of the cursor saw them

weakVars == <<vars, view>>

WeakInit == Init /\ view = slots

\* A fresh look at the slots between the fence and the load of the cursor.
EarlyLoad ==
    /\ deqPc = "idle"
    /\ view' = slots
    /\ UNCHANGED vars

\* dequeue_all and consume_rx take everything they see.
WeakDeqStart == DeqStart /\ avail' = Occupancy /\ UNCHANGED view

\* Each slot is read in program order or was read early.
WeakDeqRead == \E memory \in {slots, view} : ReadSlot(memory) /\ UNCHANGED view

\* The next call's fence discards what this one loaded.
WeakDeqPublish == DeqPublish /\ view' = slots

WeakNext ==
    \/ (EnqStart \/ EnqWrite \/ EnqPublish) /\ UNCHANGED view
    \/ EarlyLoad
    \/ WeakDeqStart
    \/ WeakDeqRead
    \/ WeakDeqPublish

WeakSpec == WeakInit /\ [][WeakNext]_weakVars
=============================================================================
