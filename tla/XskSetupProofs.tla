--------------------------- MODULE XskSetupProofs ---------------------------
(***************************************************************************)
(* XskSetup for every number of queues and CPUs: no handle is lost beyond  *)
(* the two known error returns, and a running worker has what it uses.     *)
(***************************************************************************)
EXTENDS XskSetup, FiniteSetTheorems, TLAPS

Setup == pc \in Calls \cup {"created", "failed"}

\* What the attempt in progress holds when a call is reached.
Gained ==
    [socket |-> {}, mmap_area |-> {"fd"}, umem_reg |-> {"fd", "area"},
     fill_ring |-> {"fd", "area"}, comp_ring |-> {"fd", "area"},
     offsets |-> {"fd", "area"}, map_fill |-> {"fd", "area"},
     map_comp |-> {"fd", "area", "fill"}, rx_ring |-> {"fd", "area", "fill", "comp"},
     tx_ring |-> {"fd", "area", "fill", "comp"},
     rx_tx_offsets |-> {"fd", "area", "fill", "comp"},
     map_rx |-> {"fd", "area", "fill", "comp"},
     map_tx |-> {"fd", "area", "fill", "comp", "rx"},
     bind |-> Resources, created |-> Resources]

\* A worker could run: its one socket is bound, open, mapped and served by the
\* program.
Equipped(w) ==
    \E a \in Attempts :
        /\ Of(w) = {a}
        /\ a \in bound
        /\ {a} \X Resources \subseteq held
        /\ a[2] = "zerocopy" => program = "attached"
        /\ role = "sink" => program = "attached" /\ a \in redirect

\* The program is attached while somebody relies on it, and only then.
ProgramInv ==
    /\ pc \in {"resolve", "load", "ok", "err"} => program = "detached"
    /\ pc \in {"resolve", "load"} => mode = "copy"
    /\ pc \notin {"resolve", "load", "ok", "err"} =>
          /\ role = "sink" => program = "attached"
          /\ mode = "zerocopy" => program = "attached"

\* Queues are served in order: those before q are done, those after untouched.
QueueInv ==
    /\ pc \in {"resolve", "load"} => made = {} /\ bound = {} /\ q = 0
    /\ Setup => /\ \A a \in made : a[1] < q
                /\ \A a \in bound : a[1] < q \/ (a = att /\ pc = "created")
                /\ \A w \in Q : w < q => Equipped(w)
    /\ pc = "created" => att \in bound
    /\ pc \in Calls \cup {"created"} => Mine(Gained[pc]) \subseteq held

\* Threads exist from the spawn on, and have what they use until they end.
ThreadInv ==
    /\ pc \notin {"spawn", "join", "joined", "ok"} => \A w \in Q : worker[w] = None
    /\ pc = "spawn" => \A w \in Q : q <= w <=> worker[w] = None
    /\ pc \in {"spawn", "join"} => \A w \in Q : worker[w] # "ended" => Equipped(w)
    /\ pc = "join" => \A w \in Q : worker[w] # None /\ (w < q => worker[w] = "ended")
    /\ pc \in {"joined", "ok"} => \A w \in Q : worker[w] = "ended"

\* An attempt fails once, before the next one of its queue.
FailureInv ==
    /\ \A a \in made : failedAt[a] = None
    /\ pc \in {"resolve", "load"} => \A a \in Attempts : failedAt[a] = None
    /\ Setup => \A a \in Attempts : failedAt[a] # None =>
          \/ a[1] < q
          \/ a[1] = q /\ a[2] = "zerocopy" /\ mode = "copy"
          \/ a = att /\ pc = "failed"

IInv ==
    /\ TypeOK
    /\ ProgramInv
    /\ QueueInv
    /\ ThreadInv
    /\ FailureInv
    /\ HandlesAccountedFor

-----------------------------------------------------------------------------
(* The constants.                                                           *)

\* The calls, by name.
LEMMA CallNames ==
    /\ Calls = {"socket", "mmap_area", "umem_reg", "fill_ring", "comp_ring", "offsets",
                "map_fill", "map_comp", "rx_ring", "tx_ring", "rx_tx_offsets", "map_rx",
                "map_tx", "bind"}
    /\ \A c \in Calls : After[c] \in (Calls \cup {"created"}) \ {"socket"}
BY DEF Calls, After

\* There is a worker, and the loops over the workers stay among them.
LEMMA QueueRange ==
    /\ Workers \in Nat \ {0}
    /\ 0 \in Q
    /\ \A w \in Q : w \in Nat /\ w < Workers /\ (w + 1 < Workers => w + 1 \in Q)
    /\ \A w \in Q : ~(w + 1 < Workers) => \A v \in Q : v <= w
    /\ \A a \in Attempts : a[1] \in Nat
BY SetupAssumption DEF Workers, Lower, Q, Attempts

\* The descriptor is gained by the first call, the area by the second.
LEMMA GainedFacts ==
    \A c \in Calls \cup {"created"} :
        /\ Gained[c] \subseteq Resources
        /\ "fd" \in Gained[c] <=> c # "socket"
        /\ "area" \in Gained[c] <=> c \notin {"socket", "mmap_area"}
BY CallNames DEF Gained, Resources, Rings

\* A step that takes nothing from a worker's socket leaves it equipped.
LEMMA EquippedStays ==
    ASSUME NEW w \in Q, Equipped(w),
           UNCHANGED <<role, program>>, Of(w)' = Of(w),
           bound \subseteq bound', redirect \subseteq redirect',
           \A a \in Attempts, r \in Resources :
               a[1] = w /\ <<a, r>> \in held => <<a, r>> \in held'
    PROVE  Equipped(w)'
<1>1. PICK a \in Attempts :
          /\ Of(w) = {a}
          /\ a \in bound
          /\ {a} \X Resources \subseteq held
          /\ a[2] = "zerocopy" => program = "attached"
          /\ role = "sink" => program = "attached" /\ a \in redirect
  BY DEF Equipped
<1>2. a[1] = w
  BY <1>1 DEF Of
<1>3. {a} \X Resources \subseteq held'
  BY <1>1, <1>2
<1> QED
  BY <1>1, <1>3 DEF Equipped

\* IInv holds initially.
LEMMA InitIInv == Init => IInv
<1> SUFFICES ASSUME Init PROVE IInv
  OBVIOUS
<1> USE DEF Init
<1>1. TypeOK
  BY QueueRange, CallNames DEF TypeOK, Modes
<1>2. ProgramInv
  BY DEF ProgramInv
<1>3. QueueInv
  BY CallNames DEF QueueInv, Setup
<1>4. ThreadInv
  BY DEF ThreadInv
<1>5. FailureInv
  BY CallNames DEF FailureInv, Setup
<1>6. HandlesAccountedFor
  BY CallNames DEF HandlesAccountedFor, Live, None
<1> QED
  BY <1>1, <1>2, <1>3, <1>4, <1>5, <1>6 DEF IInv

-----------------------------------------------------------------------------
(* create_xsk_socket.                                                       *)

\* A call that succeeds adds to what the attempt holds what the next call expects.
LEMMA SucceedsIInv ==
    ASSUME IInv, NEW call \in Calls \ {"bind"}, NEW gained, Succeeds(call, gained),
           gained \subseteq Gained[After[call]],
           Gained[After[call]] \subseteq Gained[call] \cup gained
    PROVE  IInv'
<1> USE DEF IInv
<1>1. /\ pc = call /\ pc' = After[call] /\ held' = held \cup Mine(gained)
      /\ UNCHANGED <<role, q, mode, program, redirect, bound, made, worker, failedAt>>
      /\ pc \in Calls /\ pc' \in (Calls \cup {"created"}) \ {"socket"}
  BY CallNames DEF Succeeds
<1>2. att' = att /\ att \in Attempts
  BY <1>1 DEF att, TypeOK, Attempts
<1>3. gained \subseteq Resources
  BY <1>1, GainedFacts
<1>4. TypeOK'
  BY <1>1, <1>2, <1>3 DEF TypeOK, Mine
<1>5. ProgramInv'
  BY <1>1, CallNames DEF ProgramInv
<1>6. \A w \in Q : Equipped(w) => Equipped(w)'
  <2> SUFFICES ASSUME NEW w \in Q, Equipped(w) PROVE Equipped(w)'
    OBVIOUS
  <2>1. Of(w)' = Of(w)
    BY <1>1 DEF Of
  <2> QED
    BY <1>1, <2>1, EquippedStays
<1>7. QueueInv'
  <2>1. pc' # "created"
    BY <1>1, CallNames DEF After
  <2>2. {att} \X Gained[call] \subseteq held
    BY <1>1 DEF QueueInv, Mine
  <2>3. {att} \X Gained[pc'] \subseteq held'
    BY <1>1, <2>2 DEF Mine
  <2> QED
    BY <1>1, <1>2, <1>6, <2>1, <2>3, CallNames DEF QueueInv, Setup, Mine
<1>8. ThreadInv'
  BY <1>1, CallNames DEF ThreadInv
<1>9. FailureInv'
  BY <1>1, <1>2, CallNames DEF FailureInv, Setup
<1>10. HandlesAccountedFor'
  <2> SUFFICES ASSUME NEW a \in Attempts
               PROVE  /\ <<a, "fd">> \in held' <=>
                            \/ a = att' /\ pc' \in (Calls \cup {"created"}) \ {"socket"}
                            \/ Live(a)' \/ failedAt'[a] = "rx_tx_offsets"
                      /\ <<a, "area">> \in held' <=>
                            \/ /\ a = att'
                               /\ pc' \in (Calls \cup {"created"}) \ {"socket", "mmap_area"}
                            \/ Live(a)' \/ failedAt'[a] = "offsets"
    BY DEF HandlesAccountedFor
  <2>1. Live(a)' <=> Live(a)
    BY <1>1, CallNames DEF Live
  <2>2. CASE a # att
    BY <1>1, <1>2, <2>1, <2>2 DEF HandlesAccountedFor, Mine
  <2>3. CASE a = att
    <3>1. ~Live(a) /\ failedAt[a] = None
      BY <1>1, <1>2, <2>3, QueueRange, CallNames DEF Live, QueueInv, FailureInv, Setup, att, TypeOK
    <3>2. <<a, "fd">> \in held'
      BY <1>1, <1>2, <2>3, GainedFacts, <1>7 DEF QueueInv, Mine
    <3>3. <<a, "area">> \in held' <=> pc' # "mmap_area"
      <4>1. pc' # "mmap_area" => <<a, "area">> \in held'
        BY <1>1, <1>2, <2>3, GainedFacts, <1>7 DEF QueueInv, Mine
      <4>2. pc' = "mmap_area" => pc = "socket"
        BY <1>1, CallNames DEF After
      <4>3. pc' = "mmap_area" => <<a, "area">> \notin held'
        BY <1>1, <1>2, <2>3, <3>1, <4>2, GainedFacts, CallNames DEF HandlesAccountedFor, Mine, None
      <4> QED
        BY <4>1, <4>3
    <3> QED
      BY <1>1, <1>2, <2>1, <2>3, <3>1, <3>2, <3>3 DEF None
  <2> QED
    BY <2>2, <2>3
<1> QED
  BY <1>4, <1>5, <1>7, <1>8, <1>9, <1>10

\* A call that fails releases the descriptor and the area, but for the two
\* returns with ?.
LEMMA FailsIInv ==
    ASSUME IInv, NEW call \in Calls, NEW released \in SUBSET {"fd", "area"},
           Fails(call, released),
           "fd" \in released <=> call \notin {"socket", "rx_tx_offsets"},
           "area" \in released <=> call \notin {"socket", "mmap_area", "offsets"}
    PROVE  IInv'
<1> USE DEF IInv
<1>1. /\ pc = call /\ pc' = "failed" /\ held' = held \ Mine(released)
      /\ failedAt' = [failedAt EXCEPT ![att] = call]
      /\ UNCHANGED <<role, q, mode, program, redirect, bound, made, worker>>
      /\ pc \in Calls
  BY DEF Fails
<1>2. att' = att /\ att \in Attempts /\ att[1] = q
  BY <1>1 DEF att, TypeOK, Attempts
<1>3. TypeOK'
  BY <1>1, <1>2 DEF TypeOK
<1>4. ProgramInv'
  BY <1>1, CallNames DEF ProgramInv
<1>5. \A w \in Q : w < q /\ Equipped(w) => Equipped(w)'
  <2> SUFFICES ASSUME NEW w \in Q, w < q, Equipped(w) PROVE Equipped(w)'
    OBVIOUS
  <2>1. Of(w)' = Of(w)
    BY <1>1 DEF Of
  <2>2. \A a \in Attempts, r \in Resources :
            a[1] = w /\ <<a, r>> \in held => <<a, r>> \in held'
    BY <1>1, <1>2, QueueRange DEF Mine, TypeOK
  <2> QED
    BY <1>1, <2>1, <2>2, EquippedStays
<1>6. QueueInv'
  BY <1>1, <1>2, <1>5, CallNames DEF QueueInv, Setup
<1>7. ThreadInv'
  BY <1>1, CallNames DEF ThreadInv
<1>8. att \notin made /\ failedAt[att] = None
  BY <1>1, <1>2, QueueRange, CallNames DEF QueueInv, FailureInv, Setup, att, TypeOK
<1>9. FailureInv'
  BY <1>1, <1>2, <1>8, CallNames DEF FailureInv, Setup, TypeOK
<1>10. HandlesAccountedFor'
  <2> SUFFICES ASSUME NEW a \in Attempts
               PROVE  /\ <<a, "fd">> \in held' <=>
                            Live(a)' \/ failedAt'[a] = "rx_tx_offsets"
                      /\ <<a, "area">> \in held' <=>
                            Live(a)' \/ failedAt'[a] = "offsets"
    BY <1>1, CallNames DEF HandlesAccountedFor
  <2>1. Live(a)' <=> Live(a)
    BY <1>1, CallNames DEF Live
  <2>2. CASE a # att
    BY <1>1, <1>2, <2>1, <2>2 DEF HandlesAccountedFor, Mine, TypeOK
  <2>3. CASE a = att
    <3>1. ~Live(a)
      BY <1>8, <2>3 DEF Live
    <3>2. failedAt'[a] = call
      BY <1>1, <1>2, <2>3 DEF TypeOK
    <3>3. /\ <<a, "fd">> \in held <=> call # "socket"
          /\ <<a, "area">> \in held <=> call \notin {"socket", "mmap_area"}
      BY <1>1, <1>8, <2>3, <3>1, CallNames DEF HandlesAccountedFor, None
    <3> QED
      BY <1>1, <2>1, <2>3, <3>1, <3>2, <3>3, CallNames DEF Mine
  <2> QED
    BY <2>2, <2>3
<1> QED
  BY <1>3, <1>4, <1>6, <1>7, <1>9, <1>10

\* A bind that succeeds ends the attempt.
LEMMA BindIInv == IInv /\ Bind => IInv'
<1> SUFFICES ASSUME IInv, Bind PROVE IInv'
  OBVIOUS
<1> USE DEF IInv
<1>1. /\ pc = "bind" /\ pc' = "created" /\ bound' = bound \cup {att}
      /\ UNCHANGED <<role, q, mode, program, redirect, held, made, worker, failedAt>>
  BY DEF Bind, After
<1>2. att' = att /\ att \in Attempts
  BY <1>1 DEF att, TypeOK, Attempts
<1>3. TypeOK'
  BY <1>1, <1>2 DEF TypeOK
<1>4. ProgramInv'
  BY <1>1 DEF ProgramInv
<1>5. \A w \in Q : Equipped(w) => Equipped(w)'
  <2> SUFFICES ASSUME NEW w \in Q, Equipped(w) PROVE Equipped(w)'
    OBVIOUS
  <2>1. Of(w)' = Of(w)
    BY <1>1 DEF Of
  <2> QED
    BY <1>1, <2>1, EquippedStays
<1>6. QueueInv'
  <2>1. Gained["created"] = Gained["bind"]
    BY DEF Gained
  <2> QED
    BY <1>1, <1>2, <1>5, <2>1, CallNames DEF QueueInv, Setup, Mine
<1>7. ThreadInv'
  BY <1>1 DEF ThreadInv
<1>8. FailureInv'
  BY <1>1, <1>2, CallNames DEF FailureInv, Setup
<1>9. HandlesAccountedFor'
  <2>1. \A a : Live(a)' <=> Live(a)
    BY <1>1 DEF Live
  <2>2. /\ pc \in (Calls \cup {"created"}) \ {"socket", "mmap_area"}
        /\ pc' \in (Calls \cup {"created"}) \ {"socket", "mmap_area"}
    BY <1>1, CallNames
  <2> QED
    BY <1>1, <1>2, <2>1, <2>2 DEF HandlesAccountedFor
<1> QED
  BY <1>3, <1>4, <1>6, <1>7, <1>8, <1>9

\* Every step of create_xsk_socket preserves IInv.
LEMMA CreateIInv == IInv /\ CreateXskSocket => IInv'
<1> SUFFICES ASSUME IInv, CreateXskSocket PROVE IInv'
  OBVIOUS
<1> DEFINE Good(c, g) == /\ c \in Calls \ {"bind"}
                         /\ g \subseteq Gained[After[c]]
                         /\ Gained[After[c]] \subseteq Gained[c] \cup g
           Bad(c, r) == /\ c \in Calls /\ r \in SUBSET {"fd", "area"}
                        /\ "fd" \in r <=> c \notin {"socket", "rx_tx_offsets"}
                        /\ "area" \in r <=> c \notin {"socket", "mmap_area", "offsets"}
<1>1. ASSUME NEW c, NEW g, NEW r, Good(c, g), Bad(c, r), Call(c, g, r)
      PROVE  IInv'
  <2>1. CASE Succeeds(c, g)
    BY <1>1, <2>1, SucceedsIInv
  <2>2. CASE Fails(c, r)
    BY <1>1, <2>2, FailsIInv
  <2> QED
    BY <1>1, <2>1, <2>2 DEF Call
<1>2. /\ Good("socket", {"fd"}) /\ Good("mmap_area", {"area"})
      /\ Good("umem_reg", {}) /\ Good("fill_ring", {}) /\ Good("comp_ring", {})
      /\ Good("offsets", {}) /\ Good("map_fill", {"fill"}) /\ Good("map_comp", {"comp"})
      /\ Good("rx_ring", {}) /\ Good("tx_ring", {}) /\ Good("rx_tx_offsets", {})
      /\ Good("map_rx", {"rx"}) /\ Good("map_tx", {"tx"})
  BY CallNames DEF Gained, After, Resources, Rings
<1>3. /\ Bad("socket", {}) /\ Bad("mmap_area", {"fd"})
      /\ \A c \in {"umem_reg", "fill_ring", "comp_ring", "map_fill", "map_comp",
                   "rx_ring", "tx_ring", "map_rx", "map_tx", "bind"} : Bad(c, {"fd", "area"})
      /\ Bad("offsets", {"fd"}) /\ Bad("rx_tx_offsets", {"area"})
  BY CallNames
<1> HIDE DEF Good, Bad
<1>4. CASE OpenSocket
  BY <1>1, <1>2, <1>3, <1>4 DEF OpenSocket
<1>5. CASE MapArea
  BY <1>1, <1>2, <1>3, <1>5 DEF MapArea
<1>6. CASE UmemOption
  BY <1>1, <1>2, <1>3, <1>6 DEF UmemOption
<1>7. CASE MmapOffsets
  BY <1>1, <1>2, <1>3, <1>7 DEF MmapOffsets
<1>8. CASE MapFill
  BY <1>1, <1>2, <1>3, <1>8 DEF MapFill
<1>9. CASE MapComp
  BY <1>1, <1>2, <1>3, <1>9 DEF MapComp
<1>10. CASE RingOption
  BY <1>1, <1>2, <1>3, <1>10 DEF RingOption
<1>11. CASE RxTxOffsets
  BY <1>1, <1>2, <1>3, <1>11 DEF RxTxOffsets
<1>12. CASE MapRx
  BY <1>1, <1>2, <1>3, <1>12 DEF MapRx
<1>13. CASE MapTx
  BY <1>1, <1>2, <1>3, <1>13 DEF MapTx
<1>14. CASE Bind
  BY <1>14, BindIInv
<1>15. CASE BindFails
  BY <1>3, <1>15, FailsIInv DEF BindFails, Bad
<1> QED
  BY <1>4, <1>5, <1>6, <1>7, <1>8, <1>9, <1>10, <1>11, <1>12, <1>13, <1>14, <1>15
     DEF CreateXskSocket

-----------------------------------------------------------------------------
(* The session around it.                                                   *)

\* The steps before the first socket, and the fallback to copy mode.
LEMMA StartIInv == IInv /\ (Resolve \/ Load \/ LoadFails \/ Retry) => IInv'
<1> SUFFICES ASSUME IInv, Resolve \/ Load \/ LoadFails \/ Retry PROVE IInv'
  OBVIOUS
<1> USE DEF IInv
<1>1. /\ UNCHANGED <<role, q, redirect, held, bound, made, worker, failedAt>>
      /\ \/ pc = "resolve" /\ pc' \in {"load", "err"} /\ UNCHANGED <<mode, program>>
         \/ pc = "load" /\ pc' = "socket" /\ program' = "attached" /\ mode' = "zerocopy"
         \/ pc = "load" /\ role = "sink" /\ pc' = "err" /\ UNCHANGED <<mode, program>>
         \/ pc = "load" /\ role # "sink" /\ pc' = "socket" /\ UNCHANGED <<mode, program>>
         \/ pc = "failed" /\ pc' = "socket" /\ mode = "zerocopy" /\ mode' = "copy"
            /\ UNCHANGED program
  BY DEF Resolve, Load, LoadFails, Retry
<1>2. TypeOK'
  BY <1>1, CallNames DEF TypeOK, Modes
<1>3. ProgramInv'
  BY <1>1 DEF ProgramInv
<1>4. pc = "failed" => \A w \in Q : Equipped(w) => Equipped(w)'
  <2> SUFFICES ASSUME pc = "failed", NEW w \in Q, Equipped(w) PROVE Equipped(w)'
    OBVIOUS
  <2>1. Of(w)' = Of(w)
    BY <1>1 DEF Of
  <2> QED
    BY <1>1, <2>1, EquippedStays
<1>5. QueueInv'
  <2>1. \A w \in Q : ~(w < 0)
    BY QueueRange
  <2>2. Gained["socket"] = {}
    BY DEF Gained
  <2> QED
    BY <1>1, <1>4, <2>1, <2>2, CallNames DEF QueueInv, Setup, Mine
<1>6. ThreadInv'
  BY <1>1 DEF ThreadInv
<1>7. FailureInv'
  BY <1>1, CallNames DEF FailureInv, Setup, att, Attempts, TypeOK
<1>8. HandlesAccountedFor'
  <2> SUFFICES ASSUME NEW a \in Attempts
               PROVE  /\ <<a, "fd">> \in held <=>
                            Live(a)' \/ failedAt[a] = "rx_tx_offsets"
                      /\ <<a, "area">> \in held <=> Live(a)' \/ failedAt[a] = "offsets"
    BY <1>1, CallNames DEF HandlesAccountedFor
  <2>1. Live(a)' <=> Live(a)
    BY <1>1 DEF Live, QueueInv
  <2> QED
    BY <1>1, <2>1, CallNames DEF HandlesAccountedFor
<1> QED
  BY <1>2, <1>3, <1>5, <1>6, <1>7, <1>8

\* An error return: a sink closes what it has made, a generator keeps it.
LEMMA ErrorIInv == IInv /\ (GiveUp \/ RegisterFails) => IInv'
<1> SUFFICES ASSUME IInv, GiveUp \/ RegisterFails PROVE IInv'
  OBVIOUS
<1> USE DEF IInv
<1> DEFINE Dropped == IF role = "sink"
                      THEN IF pc = "created" THEN made \cup {att} ELSE made
                      ELSE {}
<1>1. /\ pc \in {"failed", "created"} /\ (pc = "created" => role = "sink")
      /\ pc' = "err" /\ program' = "detached" /\ redirect' = {}
      /\ held' = held \ (Dropped \X {"fd", "area"})
      /\ UNCHANGED <<role, q, mode, bound, made, worker, failedAt>>
  BY DEF GiveUp, RegisterFails, ReturnError
<1>2. att' = att /\ att \in Attempts
  BY <1>1 DEF att, TypeOK, Attempts
<1>3. TypeOK'
  BY <1>1 DEF TypeOK
<1>4. ProgramInv' /\ QueueInv' /\ ThreadInv' /\ FailureInv'
  BY <1>1, CallNames DEF ProgramInv, QueueInv, ThreadInv, FailureInv, Setup
<1>5. HandlesAccountedFor'
  <2> SUFFICES ASSUME NEW a \in Attempts
               PROVE  /\ <<a, "fd">> \in held' <=>
                            Live(a)' \/ failedAt[a] = "rx_tx_offsets"
                      /\ <<a, "area">> \in held' <=> Live(a)' \/ failedAt[a] = "offsets"
    BY <1>1, CallNames DEF HandlesAccountedFor
  <2>1. Live(a)' <=> a \in made /\ role # "sink"
    BY <1>1 DEF Live
  <2>2. Live(a) <=> a \in made
    BY <1>1 DEF Live, ThreadInv, TypeOK, Attempts, None
  <2>3. a \in Dropped => failedAt[a] = None
    BY <1>1, <1>2, QueueRange DEF FailureInv, Setup, att, TypeOK
  <2> QED
    BY <1>1, <1>2, <2>1, <2>2, <2>3, CallNames DEF HandlesAccountedFor, None
<1> QED
  BY <1>3, <1>4, <1>5

\* A socket is handed over: its worker is equipped, and the next queue is
\* untouched.
LEMMA HandOverIInv == IInv /\ (HandOver \/ Register) => IInv'
<1> SUFFICES ASSUME IInv, HandOver \/ Register PROVE IInv'
  OBVIOUS
<1> USE DEF IInv
<1>1. /\ pc = "created" /\ made' = made \cup {att}
      /\ redirect \subseteq redirect' /\ redirect' \subseteq redirect \cup {att}
      /\ role = "sink" => att \in redirect'
      /\ UNCHANGED <<role, program, held, bound, worker, failedAt>>
      /\ \/ /\ q + 1 < Workers /\ q' = q + 1 /\ pc' = "socket" /\ mode' \in Modes
            /\ mode' = "zerocopy" => role = "sink" \/ program = "attached"
         \/ /\ ~(q + 1 < Workers) /\ q' = 0 /\ pc' = "spawn" /\ UNCHANGED mode
  BY DEF HandOver, Register, KeepForWorker, NextQueue, Modes
<1>2. att \in Attempts /\ att[1] = q /\ att[2] = mode /\ q \in Nat
  BY <1>1, QueueRange DEF att, TypeOK, Attempts
<1>3. TypeOK'
  BY <1>1, <1>2, QueueRange, CallNames DEF TypeOK
<1>4. ProgramInv'
  BY <1>1 DEF ProgramInv
<1>5. \A w \in Q : w < q => Equipped(w)'
  <2> SUFFICES ASSUME NEW w \in Q, w < q PROVE Equipped(w)'
    OBVIOUS
  <2>1. Of(w)' = Of(w)
    BY <1>1, <1>2, QueueRange DEF Of
  <2>2. Equipped(w)
    BY <1>1 DEF QueueInv, Setup
  <2> QED
    BY <1>1, <2>1, <2>2, EquippedStays
<1>6. \A w \in Q : w = q => Equipped(w)'
  <2> SUFFICES ASSUME NEW w \in Q, w = q PROVE Equipped(w)'
    OBVIOUS
  <2>1. Of(w)' = {att}
    BY <1>1, <1>2 DEF QueueInv, Setup, Of
  <2>2. {att} \X Resources \subseteq held'
    BY <1>1 DEF QueueInv, Mine, Gained
  <2>3. /\ att \in bound'
        /\ att[2] = "zerocopy" => program' = "attached"
        /\ role' = "sink" => program' = "attached" /\ att \in redirect'
    BY <1>1, <1>2 DEF QueueInv, ProgramInv
  <2> QED
    BY <1>2, <2>1, <2>2, <2>3 DEF Equipped
<1>7. \A a \in made' : a[1] < q \/ a = att
  BY <1>1 DEF QueueInv, Setup
<1>8. QueueInv'
  <2>1. CASE pc' = "spawn"
    BY <2>1, CallNames DEF QueueInv, Setup
  <2>2. CASE pc' = "socket"
    <3>1. \A a \in bound' : a[1] < q'
      BY <1>1, <1>2, <1>3, <2>2, QueueRange DEF QueueInv, Setup, TypeOK
    <3>2. \A a \in made' : a[1] < q'
      BY <1>1, <1>2, <1>3, <1>7, <2>2, QueueRange DEF TypeOK
    <3>3. \A w \in Q : w < q' => Equipped(w)'
      BY <1>1, <1>2, <1>5, <1>6, <2>2, QueueRange
    <3>4. Gained["socket"] = {}
      BY DEF Gained
    <3> QED
      BY <2>2, <3>1, <3>2, <3>3, <3>4 DEF QueueInv, Setup, Mine
  <2> QED
    BY <1>1, <2>1, <2>2
<1>9. ThreadInv'
  <2>1. pc' = "spawn" => \A w \in Q : Equipped(w)'
    BY <1>1, <1>2, <1>5, <1>6, QueueRange DEF TypeOK
  <2>2. \A w \in Q : worker'[w] = None
    BY <1>1 DEF ThreadInv
  <2> QED
    BY <1>1, <2>1, <2>2, QueueRange DEF ThreadInv
<1>10. failedAt[att] = None
  BY <1>1, <1>2 DEF FailureInv, Setup
<1>11. FailureInv'
  <2>1. \A a \in made' : failedAt'[a] = None
    BY <1>1, <1>10 DEF FailureInv
  <2>2. \A a \in Attempts : failedAt'[a] # None => a[1] <= q
    BY <1>1, <1>2 DEF FailureInv, Setup, Attempts, Q
  <2>3. pc' = "socket" => \A a \in Attempts : failedAt'[a] # None => a[1] < q'
    BY <1>1, <1>2, <2>2 DEF Attempts, Q
  <2> QED
    BY <1>1, <2>1, <2>3, CallNames DEF FailureInv, Setup
<1>12. HandlesAccountedFor'
  <2> SUFFICES ASSUME NEW a \in Attempts
               PROVE  /\ <<a, "fd">> \in held' <=>
                            Live(a)' \/ failedAt'[a] = "rx_tx_offsets"
                      /\ <<a, "area">> \in held' <=> Live(a)' \/ failedAt'[a] = "offsets"
    BY <1>1, CallNames DEF HandlesAccountedFor
  <2>1. Live(a)' <=> Live(a) \/ a = att
    BY <1>1 DEF Live, ThreadInv, Attempts, None
  <2> QED
    BY <1>1, <2>1, CallNames DEF HandlesAccountedFor
<1> QED
  BY <1>3, <1>4, <1>8, <1>9, <1>11, <1>12

\* Spawning and joining.
LEMMA ThreadsIInv == IInv /\ (Spawn \/ Join \/ Finish) => IInv'
<1> SUFFICES ASSUME IInv, Spawn \/ Join \/ Finish PROVE IInv'
  OBVIOUS
<1> USE DEF IInv
<1>1. /\ pc \in {"spawn", "join", "joined"} /\ pc' \in {"spawn", "join", "joined", "ok"}
      /\ UNCHANGED <<role, mode, held, bound, made, failedAt>>
  BY DEF Spawn, Join, Finish
<1>2. TypeOK'
  BY QueueRange DEF TypeOK, Spawn, Join, Finish
<1>3. ProgramInv'
  BY DEF ProgramInv, Spawn, Join, Finish
<1>4. QueueInv' /\ FailureInv'
  BY <1>1, CallNames DEF QueueInv, FailureInv, Setup
<1>5. Spawn \/ Join => \A w \in Q : Equipped(w) => Equipped(w)'
  <2> SUFFICES ASSUME Spawn \/ Join, NEW w \in Q, Equipped(w) PROVE Equipped(w)'
    OBVIOUS
  <2>1. Of(w)' = Of(w)
    BY <1>1 DEF Of
  <2> QED
    BY <1>1, <2>1, EquippedStays DEF Spawn, Join
<1>6. ThreadInv'
  <2>1. CASE Spawn
    <3>1. /\ pc = "spawn" /\ worker' = [worker EXCEPT ![q] = "running"]
          /\ \/ q + 1 < Workers /\ q' = q + 1 /\ pc' = "spawn"
             \/ ~(q + 1 < Workers) /\ q' = 0 /\ pc' = "join"
      BY <2>1 DEF Spawn
    <3>2. \A w \in Q : worker'[w] = IF w = q THEN "running" ELSE worker[w]
      BY <3>1 DEF TypeOK
    <3>3. \A w \in Q : worker'[w] # "ended" => Equipped(w)'
      BY <1>5, <2>1, <3>1, <3>2, QueueRange DEF ThreadInv, TypeOK, None
    <3>4. pc' = "spawn" => \A w \in Q : q' <= w <=> worker'[w] = None
      BY <3>1, <3>2, QueueRange DEF ThreadInv, TypeOK, None
    <3>5. pc' = "join" => \A w \in Q : worker'[w] # None /\ ~(w < q')
      BY <3>1, <3>2, QueueRange DEF ThreadInv, TypeOK, None
    <3> QED
      BY <3>1, <3>3, <3>4, <3>5 DEF ThreadInv
  <2>2. CASE Join
    <3>1. /\ pc = "join" /\ worker[q] = "ended" /\ worker' = worker
          /\ \/ q + 1 < Workers /\ q' = q + 1 /\ pc' = "join"
             \/ ~(q + 1 < Workers) /\ q' = 0 /\ pc' = "joined"
      BY <2>2 DEF Join
    <3>2. \A w \in Q : w <= q => worker[w] = "ended"
      BY <3>1, QueueRange DEF ThreadInv, TypeOK
    <3>3. pc' = "join" => \A w \in Q : w < q' => worker[w] = "ended"
      BY <3>1, <3>2, QueueRange DEF TypeOK
    <3>4. pc' = "joined" => \A w \in Q : worker[w] = "ended"
      BY <3>1, <3>2, QueueRange DEF TypeOK
    <3> QED
      BY <1>5, <2>2, <3>1, <3>3, <3>4 DEF ThreadInv
  <2>3. CASE Finish
    BY <2>3 DEF Finish, ThreadInv
  <2> QED
    BY <2>1, <2>2, <2>3
<1>7. HandlesAccountedFor'
  <2> SUFFICES ASSUME NEW a \in Attempts
               PROVE  /\ <<a, "fd">> \in held <=>
                            Live(a)' \/ failedAt[a] = "rx_tx_offsets"
                      /\ <<a, "area">> \in held <=> Live(a)' \/ failedAt[a] = "offsets"
    BY <1>1, CallNames DEF HandlesAccountedFor
  <2>1. \A w \in Q : worker'[w] # "ended" <=> worker[w] # "ended"
    BY QueueRange DEF Spawn, Join, Finish, ThreadInv, TypeOK, None
  <2>2. Live(a)' <=> Live(a)
    BY <1>1, <2>1 DEF Live, Attempts
  <2> QED
    BY <1>1, <2>2, CallNames DEF HandlesAccountedFor
<1> QED
  BY <1>2, <1>3, <1>4, <1>6, <1>7

\* A worker ends; the sockets of the others are not touched.
LEMMA WorkerEndsIInv ==
    ASSUME IInv, NEW v \in Q, WorkerEnds(v)
    PROVE  IInv'
<1> USE DEF IInv
<1> DEFINE Dropped == IF role = "sink" THEN Of(v) ELSE {}
<1>1. /\ worker[v] = "running" /\ worker' = [worker EXCEPT ![v] = "ended"]
      /\ held' = held \ (Dropped \X {"fd", "area"})
      /\ UNCHANGED <<role, pc, q, mode, program, redirect, bound, made, failedAt>>
  BY DEF WorkerEnds
<1>2. /\ \A w \in Q : worker'[w] = IF w = v THEN "ended" ELSE worker[w]
      /\ att' = att
  BY <1>1 DEF TypeOK, att
<1>3. pc \in {"spawn", "join"}
  BY <1>1 DEF ThreadInv, None
<1>4. TypeOK'
  BY <1>1 DEF TypeOK
<1>5. ProgramInv'
  BY <1>1 DEF ProgramInv
<1>6. QueueInv' /\ FailureInv'
  BY <1>1, <1>3, CallNames DEF QueueInv, FailureInv, Setup
<1>7. \A w \in Q : w # v /\ Equipped(w) => Equipped(w)'
  <2> SUFFICES ASSUME NEW w \in Q, w # v, Equipped(w) PROVE Equipped(w)'
    OBVIOUS
  <2>1. Of(w)' = Of(w)
    BY <1>1 DEF Of
  <2>2. \A a \in Attempts, r \in Resources :
            a[1] = w /\ <<a, r>> \in held => <<a, r>> \in held'
    BY <1>1 DEF Of
  <2> QED
    BY <1>1, <2>1, <2>2, EquippedStays
<1>8. ThreadInv'
  BY <1>1, <1>2, <1>3, <1>7 DEF ThreadInv, None
<1>9. HandlesAccountedFor'
  <2> SUFFICES ASSUME NEW a \in Attempts
               PROVE  /\ <<a, "fd">> \in held' <=>
                            Live(a)' \/ failedAt[a] = "rx_tx_offsets"
                      /\ <<a, "area">> \in held' <=> Live(a)' \/ failedAt[a] = "offsets"
    BY <1>1, <1>3, CallNames DEF HandlesAccountedFor
  <2>1. Live(a)' <=> Live(a) /\ a \notin Dropped
    BY <1>1, <1>2 DEF Live, Of, Attempts
  <2>2. a \in Dropped => failedAt[a] = None
    BY DEF FailureInv, Of
  <2> QED
    BY <1>1, <1>3, <2>1, <2>2, CallNames DEF HandlesAccountedFor, None
<1> QED
  BY <1>4, <1>5, <1>6, <1>8, <1>9

\* Every step preserves IInv.
LEMMA NextIInv == IInv /\ [Next]_vars => IInv'
<1> SUFFICES ASSUME IInv, [Next]_vars PROVE IInv'
  OBVIOUS
<1>1. CASE Main
  BY <1>1, StartIInv, CreateIInv, ErrorIInv, HandOverIInv, ThreadsIInv DEF Main
<1>2. CASE \E w \in Q : WorkerEnds(w)
  BY <1>2, WorkerEndsIInv
<1>3. CASE UNCHANGED vars
  <2> USE <1>3 DEF vars
  <2>1. TypeOK' <=> TypeOK
    BY DEF TypeOK
  <2>2. ProgramInv' <=> ProgramInv
    BY DEF ProgramInv
  <2>3. /\ att' = att
        /\ Setup' <=> Setup
        /\ Mine(Gained[pc])' = Mine(Gained[pc])
    BY DEF att, Setup, Mine
  <2>4. \A w \in Q : Equipped(w)' <=> Equipped(w)
    BY DEF Equipped, Of
  <2>5. QueueInv' <=> QueueInv
    BY <2>3, <2>4 DEF QueueInv
  <2>6. ThreadInv' <=> ThreadInv
    BY <2>4 DEF ThreadInv
  <2>7. FailureInv' <=> FailureInv
    BY <2>3 DEF FailureInv
  <2>8. HandlesAccountedFor' <=> HandlesAccountedFor
    BY <2>3 DEF HandlesAccountedFor, Live
  <2> QED
    BY <2>1, <2>2, <2>5, <2>6, <2>7, <2>8 DEF IInv
<1> QED
  BY <1>1, <1>2, <1>3 DEF Next

-----------------------------------------------------------------------------
\* The set-up's inductive invariant, for every number of queues and CPUs.
THEOREM SetupInvariant == Spec => []IInv
BY InitIInv, NextIInv, PTL DEF Spec

\* What the process holds stays a set of its own attempts and workers, for every
\* number of queues and CPUs (gen.rs:76-171, sink.rs:21-63).
THEOREM TypeCorrect == Spec => []TypeOK
<1>1. IInv => TypeOK
  BY DEF IInv
<1> QED BY <1>1, SetupInvariant, PTL

\* No descriptor and no UMEM area is lost, whichever calls fail, but for the two
\* returns with ? (socket.rs:72, umem.rs:274).
THEOREM HandlesAlwaysAccountedFor == Spec => []HandlesAccountedFor
<1>1. IInv => HandlesAccountedFor
  BY DEF IInv
<1> QED
  BY <1>1, SetupInvariant, PTL

\* A running worker's socket, memory and program outlive it (gen.rs:139-149,
\* sink.rs:53-61).
THEOREM WorkersEquipped == Spec => []RunningWorkerEquipped
<1>1. IInv => RunningWorkerEquipped
  <2> SUFFICES ASSUME IInv, NEW w \in Q, worker[w] = "running"
               PROVE  \E a \in Of(w) :
                          /\ Of(w) = {a}
                          /\ a \in bound
                          /\ {a} \X Resources \subseteq held
                          /\ a[2] = "zerocopy" => program = "attached"
                          /\ role = "sink" => program = "attached" /\ a \in redirect
    BY DEF RunningWorkerEquipped
  <2>1. Equipped(w)
    BY DEF IInv, ThreadInv, None
  <2> QED
    BY <2>1 DEF Equipped
<1> QED
  BY <1>1, SetupInvariant, PTL

\* The fallback to copy mode never meets this session's own socket (gen.rs:124-129,
\* sink.rs:40-41).
THEOREM FallbackNeverCollides == Spec => []FallbackFindsQueueFree
<1>1. IInv => FallbackFindsQueueFree
  BY QueueRange, CallNames DEF IInv, TypeOK, QueueInv, Setup, FallbackFindsQueueFree
<1> QED
  BY <1>1, SetupInvariant, PTL

\* The program is detached whenever the session has returned (README.md:98).
THEOREM AlwaysDetachedOnReturn == Spec => []DetachedOnReturn
<1>1. IInv => DetachedOnReturn
  BY DEF IInv, ProgramInv, DetachedOnReturn, Returned
<1> QED
  BY <1>1, SetupInvariant, PTL

-----------------------------------------------------------------------------
(* Termination.                                                             *)

\* Every call that succeeds leaves the attempt fewer calls, one that fails a
\* single step.
LEMMA CallsLeftDecrease ==
    /\ DOMAIN CallsLeft = Calls \cup {"created", "failed"}
    /\ CallsLeft["created"] = 1 /\ CallsLeft["failed"] = 1 /\ CallsLeft["socket"] = 15
    /\ \A c \in Calls : /\ CallsLeft[c] \in Nat /\ CallsLeft[c] > 1
                        /\ CallsLeft[After[c]] \in Nat /\ CallsLeft[After[c]] < CallsLeft[c]
<1>1. DOMAIN CallsLeft = Calls \cup {"created", "failed"}
  BY CallNames DEF CallsLeft
<1>2. CallsLeft["created"] = 1 /\ CallsLeft["failed"] = 1 /\ CallsLeft["socket"] = 15
  BY DEF CallsLeft
<1>3. ASSUME NEW c \in Calls
      PROVE  /\ CallsLeft[c] \in Nat /\ CallsLeft[c] > 1
             /\ CallsLeft[After[c]] \in Nat /\ CallsLeft[After[c]] < CallsLeft[c]
  <2>1. /\ CallsLeft["socket"] = 15 /\ CallsLeft["mmap_area"] = 14 /\ CallsLeft["umem_reg"] = 13
        /\ CallsLeft["fill_ring"] = 12 /\ CallsLeft["comp_ring"] = 11 /\ CallsLeft["offsets"] = 10
        /\ CallsLeft["map_fill"] = 9 /\ CallsLeft["map_comp"] = 8 /\ CallsLeft["rx_ring"] = 7
        /\ CallsLeft["tx_ring"] = 6 /\ CallsLeft["rx_tx_offsets"] = 5 /\ CallsLeft["map_rx"] = 4
        /\ CallsLeft["map_tx"] = 3 /\ CallsLeft["bind"] = 2 /\ CallsLeft["created"] = 1
    BY DEF CallsLeft
  <2>2. /\ After["socket"] = "mmap_area" /\ After["mmap_area"] = "umem_reg"
        /\ After["umem_reg"] = "fill_ring" /\ After["fill_ring"] = "comp_ring"
        /\ After["comp_ring"] = "offsets" /\ After["offsets"] = "map_fill"
        /\ After["map_fill"] = "map_comp" /\ After["map_comp"] = "rx_ring"
        /\ After["rx_ring"] = "tx_ring" /\ After["tx_ring"] = "rx_tx_offsets"
        /\ After["rx_tx_offsets"] = "map_rx" /\ After["map_rx"] = "map_tx"
        /\ After["map_tx"] = "bind" /\ After["bind"] = "created"
    BY DEF After
  <2>3. c \in {"socket", "mmap_area", "umem_reg", "fill_ring", "comp_ring", "offsets",
               "map_fill", "map_comp", "rx_ring", "tx_ring", "rx_tx_offsets", "map_rx",
               "map_tx", "bind"}
    BY CallNames
  <2> QED BY <2>1, <2>2, <2>3
<1> QED BY <1>1, <1>2, <1>3

\* Both terms of the bound are natural numbers.
LEMMA StepsLeftType ==
    ASSUME TypeOK
    PROVE  /\ MainStepsLeft \in Nat /\ StepsLeft \in Nat
           /\ IsFiniteSet(Unfinished) /\ Cardinality(Unfinished) \in Nat
<1>1. q \in Nat /\ q < Workers /\ Workers \in Nat
  BY QueueRange DEF TypeOK
<1>2. pc \in DOMAIN CallsLeft => CallsLeft[pc] \in Nat
  BY CallsLeftDecrease
<1>3. MainStepsLeft \in Nat
  BY <1>1, <1>2 DEF MainStepsLeft
<1>4. IsFiniteSet(Q)
  BY QueueRange, FS_Interval DEF Q
<1>5. Unfinished \in SUBSET Q
  BY DEF Unfinished
<1>6. IsFiniteSet(Unfinished) /\ Cardinality(Unfinished) \in Nat
  BY <1>4, <1>5, FS_Subset, FS_CardinalityType
<1> QED BY <1>3, <1>6 DEF StepsLeft

\* A step of the main thread during which no worker ends.
LEMMA MainShrinks ==
    ASSUME TypeOK, Unfinished' = Unfinished, MainStepsLeft' \in Int,
           MainStepsLeft' < MainStepsLeft
    PROVE  StepsLeft' < StepsLeft
<1>1. MainStepsLeft \in Nat /\ Cardinality(Unfinished) \in Nat
  BY StepsLeftType
<1>2. Cardinality(Unfinished') = Cardinality(Unfinished)
  OBVIOUS
<1>3. StepsLeft' = MainStepsLeft' + Cardinality(Unfinished)
  BY <1>2 DEF StepsLeft
<1> QED BY <1>1, <1>3 DEF StepsLeft

\* What the bound is while sockets are made.
LEMMA SetupStepsLeft ==
    pc \in Calls \cup {"created", "failed"} =>
        MainStepsLeft = 2 * Workers + 2 + 32 * (Workers - q)
                            + (IF mode = "zerocopy" THEN 16 ELSE 0) + CallsLeft[pc]
BY CallsLeftDecrease, CallNames DEF MainStepsLeft

\* A call of create_xsk_socket.
LEMMA CallShrinks ==
    ASSUME IInv, pc \in Calls, UNCHANGED <<q, mode, worker>>, pc' \in {"failed", After[pc]}
    PROVE  StepsLeft' < StepsLeft
<1>1. TypeOK
  BY DEF IInv
<1>2. q \in Nat /\ Workers \in Nat
  BY <1>1, QueueRange DEF TypeOK
<1>3. /\ CallsLeft[pc] \in Nat /\ CallsLeft[pc'] \in Nat /\ CallsLeft[pc'] < CallsLeft[pc]
      /\ pc' \in Calls \cup {"created", "failed"}
  BY CallsLeftDecrease, CallNames
<1>4. MainStepsLeft = 2 * Workers + 2 + 32 * (Workers - q)
                          + (IF mode = "zerocopy" THEN 16 ELSE 0) + CallsLeft[pc]
  BY SetupStepsLeft
<1>5. MainStepsLeft' = 2 * Workers + 2 + 32 * (Workers - q)
                          + (IF mode = "zerocopy" THEN 16 ELSE 0) + CallsLeft[pc']
  BY <1>3, CallsLeftDecrease, CallNames DEF MainStepsLeft
<1>6. MainStepsLeft' < MainStepsLeft /\ MainStepsLeft' \in Int /\ MainStepsLeft \in Int
  BY <1>2, <1>3, <1>4, <1>5
<1>7. Unfinished' = Unfinished
  BY DEF Unfinished
<1> QED BY <1>1, <1>6, <1>7, MainShrinks

\* From the last call on: the fallback, the next queue, the first spawn, the end.
LEMMA AttemptEndShrinks ==
    ASSUME IInv, Retry \/ GiveUp \/ HandOver \/ Register \/ RegisterFails
    PROVE  StepsLeft' < StepsLeft
<1>1. TypeOK
  BY DEF IInv
<1>2. q \in Nat /\ q < Workers /\ Workers \in Nat
  BY <1>1, QueueRange DEF TypeOK
<1>3. Unfinished' = Unfinished
  BY DEF Retry, GiveUp, HandOver, Register, RegisterFails, Unfinished
<1>4. pc \in {"created", "failed"}
  BY DEF Retry, GiveUp, HandOver, Register, RegisterFails
<1>5. MainStepsLeft = 2 * Workers + 2 + 32 * (Workers - q)
                          + (IF mode = "zerocopy" THEN 16 ELSE 0) + 1
  BY <1>4, SetupStepsLeft, CallsLeftDecrease
<1>6. ASSUME pc' = "socket", q' \in Nat
      PROVE  MainStepsLeft' = 2 * Workers + 2 + 32 * (Workers - q')
                                 + (IF mode' = "zerocopy" THEN 16 ELSE 0) + 15
  BY <1>6, CallsLeftDecrease, CallNames DEF MainStepsLeft
<1>7. CASE Retry
  <2>1. pc' = "socket" /\ q' = q /\ mode = "zerocopy" /\ mode' = "copy"
    BY <1>7 DEF Retry
  <2>2. MainStepsLeft' = 2 * Workers + 2 + 32 * (Workers - q) + 15
    BY <1>2, <1>6, <2>1
  <2>3. MainStepsLeft = 2 * Workers + 2 + 32 * (Workers - q) + 17
    BY <1>2, <1>5, <2>1
  <2> QED BY <1>1, <1>2, <1>3, <2>2, <2>3, MainShrinks
<1>8. CASE GiveUp \/ RegisterFails
  <2>1. pc' = "err"
    BY <1>8 DEF GiveUp, RegisterFails, ReturnError
  <2>2. MainStepsLeft' = 0
    BY <2>1, CallsLeftDecrease, CallNames DEF MainStepsLeft
  <2>3. MainStepsLeft > 0
    BY <1>2, <1>5
  <2> QED BY <1>1, <1>3, <2>2, <2>3, MainShrinks
<1>9. CASE HandOver \/ Register
  <2>1. \/ pc' = "socket" /\ q' = q + 1 /\ q + 1 < Workers
        \/ pc' = "spawn" /\ q' = 0
    BY <1>9 DEF HandOver, Register, NextQueue
  <2>2. CASE pc' = "socket" /\ q' = q + 1
    <3>1. MainStepsLeft' = 2 * Workers + 2 + 32 * (Workers - (q + 1))
                               + (IF mode' = "zerocopy" THEN 16 ELSE 0) + 15
      BY <1>2, <1>6, <2>2
    <3>2. MainStepsLeft' \in Int /\ MainStepsLeft' <= 2 * Workers + 2 + 32 * (Workers - q) - 1
      BY <1>2, <3>1
    <3> QED BY <1>1, <1>2, <1>3, <1>5, <3>2, MainShrinks
  <2>3. CASE pc' = "spawn" /\ q' = 0
    <3>1. MainStepsLeft' = 2 * Workers + 2
      BY <1>2, <2>3, CallsLeftDecrease, CallNames DEF MainStepsLeft
    <3> QED BY <1>1, <1>2, <1>3, <1>5, <3>1, MainShrinks
  <2> QED BY <2>1, <2>2, <2>3
<1> QED BY <1>7, <1>8, <1>9

\* Before the first call and after the last socket.
LEMMA OuterShrinks ==
    ASSUME IInv, Resolve \/ Load \/ LoadFails \/ Spawn \/ Join \/ Finish
    PROVE  StepsLeft' < StepsLeft
<1>1. TypeOK
  BY DEF IInv
<1>2. q \in Nat /\ q < Workers /\ Workers \in Nat \ {0}
  BY <1>1, QueueRange DEF TypeOK
<1>3. \A c \in {"resolve", "load", "spawn", "join", "joined", "ok", "err"} : c \notin DOMAIN CallsLeft
  BY CallsLeftDecrease, CallNames
<1>4. CASE Resolve
  <2>1. pc = "resolve" /\ pc' \in {"load", "err"} /\ worker' = worker
    BY <1>4 DEF Resolve
  <2>2. MainStepsLeft = 34 * Workers + 35 /\ MainStepsLeft' \in {34 * Workers + 34, 0}
    BY <1>3, <2>1 DEF MainStepsLeft
  <2> QED BY <1>1, <1>2, <2>1, <2>2, MainShrinks DEF Unfinished
<1>5. CASE Load \/ LoadFails
  <2>1. pc = "load" /\ pc' \in {"socket", "err"} /\ worker' = worker /\ q' = q
    BY <1>5 DEF Load, LoadFails
  <2>2. q = 0
    BY <2>1 DEF IInv, QueueInv
  <2>3. MainStepsLeft = 34 * Workers + 34
    BY <1>3, <2>1 DEF MainStepsLeft
  <2>4. CASE pc' = "err"
    <3>1. MainStepsLeft' = 0
      BY <1>3, <2>4 DEF MainStepsLeft
    <3> QED BY <1>1, <1>2, <2>1, <2>3, <3>1, MainShrinks DEF Unfinished
  <2>5. CASE pc' = "socket"
    <3>1. MainStepsLeft' = 2 * Workers + 2 + 32 * (Workers - 0)
                               + (IF mode' = "zerocopy" THEN 16 ELSE 0) + 15
      BY <2>1, <2>2, <2>5, CallsLeftDecrease, CallNames DEF MainStepsLeft
    <3>2. MainStepsLeft' \in Int /\ MainStepsLeft' < MainStepsLeft
      BY <1>2, <2>3, <3>1
    <3> QED BY <1>1, <2>1, <3>2, MainShrinks DEF Unfinished
  <2> QED BY <2>1, <2>4, <2>5
<1>6. CASE Spawn
  <2>1. /\ pc = "spawn" /\ worker' = [worker EXCEPT ![q] = "running"] /\ worker[q] = None
        /\ (pc' = "spawn" /\ q' = q + 1) \/ (pc' = "join" /\ q' = 0 /\ ~(q + 1 < Workers))
    BY <1>2, <1>6 DEF Spawn, IInv, ThreadInv, TypeOK
  <2>2. Unfinished' = Unfinished
    BY <1>1, <2>1 DEF Unfinished, TypeOK, None
  <2>3. MainStepsLeft = 2 * Workers + 2 - q
    BY <1>3, <2>1 DEF MainStepsLeft
  <2>4. \/ MainStepsLeft' = 2 * Workers + 2 - (q + 1)
        \/ MainStepsLeft' = Workers + 2 - 0 /\ ~(q + 1 < Workers)
    BY <1>3, <2>1 DEF MainStepsLeft
  <2>5. MainStepsLeft' \in Int /\ MainStepsLeft' < MainStepsLeft
    BY <1>2, <2>3, <2>4
  <2> QED BY <1>1, <2>2, <2>5, MainShrinks
<1>7. CASE Join
  <2>1. /\ pc = "join" /\ worker' = worker
        /\ (pc' = "join" /\ q' = q + 1) \/ pc' = "joined"
    BY <1>7 DEF Join
  <2>2. MainStepsLeft = Workers + 2 - q /\ MainStepsLeft' \in {Workers + 2 - (q + 1), 1}
    BY <1>3, <2>1 DEF MainStepsLeft
  <2>3. MainStepsLeft' \in Int /\ MainStepsLeft' < MainStepsLeft
    BY <1>2, <2>2
  <2> QED BY <1>1, <2>1, <2>3, MainShrinks DEF Unfinished
<1>8. CASE Finish
  <2>1. pc = "joined" /\ pc' = "ok" /\ worker' = worker
    BY <1>8 DEF Finish
  <2>2. MainStepsLeft = 1 /\ MainStepsLeft' = 0
    BY <1>3, <2>1 DEF MainStepsLeft
  <2> QED BY <1>1, <2>1, <2>2, MainShrinks DEF Unfinished
<1> QED BY <1>4, <1>5, <1>6, <1>7, <1>8

\* A worker that ends is one less to wait for.
LEMMA WorkerEndShrinks ==
    ASSUME IInv, NEW w \in Q, WorkerEnds(w)
    PROVE  StepsLeft' < StepsLeft
<1>1. /\ worker[w] = "running" /\ worker' = [worker EXCEPT ![w] = "ended"]
      /\ UNCHANGED <<pc, q, mode>> /\ worker \in [Q -> {None, "running", "ended"}]
  BY DEF WorkerEnds, IInv, TypeOK
<1>2. w \in Unfinished /\ Unfinished' = Unfinished \ {w}
  BY <1>1 DEF Unfinished
<1>3. /\ MainStepsLeft \in Nat /\ IsFiniteSet(Unfinished) /\ Cardinality(Unfinished) \in Nat
  BY StepsLeftType DEF IInv
<1>4. Cardinality(Unfinished') = Cardinality(Unfinished) - 1
  BY <1>2, <1>3, FS_RemoveElement
<1>5. MainStepsLeft' = MainStepsLeft
  BY <1>1 DEF MainStepsLeft
<1>6. StepsLeft' = MainStepsLeft + Cardinality(Unfinished) - 1
  BY <1>3, <1>4, <1>5 DEF StepsLeft
<1> QED BY <1>3, <1>6 DEF StepsLeft

\* A session ends after at most 35 * (Workers + 1) steps of its threads,
\* whichever calls fail and however its workers and its main thread interleave:
\* each step lowers a bound that is never negative (gen.rs:76-171,
\* sink.rs:21-63).
THEOREM SessionIsFinite ==
    Spec => /\ StepsLeft = 35 * (Workers + 1)
            /\ [](StepsLeft \in Nat)
            /\ SessionShrinks
<1>1. Init => StepsLeft = 35 * (Workers + 1)
  <2> SUFFICES ASSUME Init PROVE StepsLeft = 35 * (Workers + 1)
    OBVIOUS
  <2>1. MainStepsLeft = 34 * Workers + 35
    BY CallsLeftDecrease, CallNames DEF Init, MainStepsLeft
  <2>2. Unfinished = 0 .. Workers - 1
    BY DEF Init, Unfinished, None, Q
  <2>3. Cardinality(Unfinished) = Workers
    BY <2>2, QueueRange, FS_Interval
  <2> QED BY <2>1, <2>3, QueueRange DEF StepsLeft
<1>2. IInv => StepsLeft \in Nat
  BY StepsLeftType DEF IInv
<1>3. IInv /\ [Next]_vars => [StepsLeft' < StepsLeft]_vars
  <2> SUFFICES ASSUME IInv, Next PROVE StepsLeft' < StepsLeft
    OBVIOUS
  <2>1. CASE CreateXskSocket
    <3>1. /\ pc \in Calls /\ UNCHANGED <<q, mode, worker>> /\ pc' \in {"failed", After[pc]}
      BY <2>1, CallNames DEF CreateXskSocket, OpenSocket, MapArea, UmemOption, MmapOffsets,
           MapFill, MapComp, RingOption, RxTxOffsets, MapRx, MapTx, Bind, BindFails,
           Call, Succeeds, Fails
    <3> QED BY <3>1, CallShrinks
  <2>2. CASE Retry \/ GiveUp \/ HandOver \/ Register \/ RegisterFails
    BY <2>2, AttemptEndShrinks
  <2>3. CASE Resolve \/ Load \/ LoadFails \/ Spawn \/ Join \/ Finish
    BY <2>3, OuterShrinks
  <2>4. CASE \E w \in Q : WorkerEnds(w)
    BY <2>4, WorkerEndShrinks
  <2> QED BY <2>1, <2>2, <2>3, <2>4 DEF Next, Main
<1> QED BY <1>1, <1>2, <1>3, SetupInvariant, PTL DEF Spec, SessionShrinks

\* The main thread never waits for a thread that does not exist: where it waits,
\* the worker runs or has ended (gen.rs:161-169, sink.rs:51-60).
THEOREM AwaitedAlwaysStarted == Spec => []AwaitedWasStarted
<1>1. IInv => AwaitedWasStarted
  BY DEF IInv, ThreadInv, TypeOK, AwaitedWasStarted
<1> QED BY <1>1, SetupInvariant, PTL
=============================================================================
