---------------------------- MODULE SocketProofs ----------------------------
(***************************************************************************)
(* The counters of the socket clients are exact and what is reported from  *)
(* them is consistent, for every number of threads, batch size and rate.   *)
(*                                                                         *)
(* A sum over threads is written as the number of elements of a set: the   *)
(* counters are the numbers of accepted units that no thread is still      *)
(* about to add.                                                           *)
(***************************************************************************)
EXTENDS SocketSession, FiniteSetTheorems, TLAPS

\* The units thread t handed over last and is adding to the counters.
Under(t) ==
    IF proto = "udp" THEN seq[t] - Batch .. seq[t] - Batch + sending[t] - 1
                     ELSE seq[t] - sending[t] .. seq[t] - 1

\* The accepted units that no thread at one of the labels L is adding.
Added(L) == {u \in accepted : tpc[u[1]] \in L => u[2] \notin Under(u[1])}

PacketsAdded == Added({"packets"})
BytesAdded == Added({"packets", "bytes"})

\* Numbers are handed over once; what is being added has been accepted.
ThreadInv ==
    \A t \in Threads :
        /\ proto = "tcp" => tpc[t] \notin {"packets", "pace"}
        /\ proto = "udp" /\ tpc[t] \in {"send", "packets", "bytes"} => seq[t] >= Batch
        /\ proto = "udp" /\ tpc[t] = "send" => \A u \in accepted : u[1] = t => u[2] < seq[t] - Batch
        /\ tpc[t] \in {"packets", "bytes"} => {t} \X Under(t) \subseteq accepted
        /\ proto = "tcp" => sending[t] <= seq[t]

CountInv ==
    /\ IsFiniteSet(accepted)
    /\ proto = "udp" => packets = Cardinality(PacketsAdded)
    /\ bytes = Cardinality(BytesAdded)

\* The main thread goes on only after every sender, and loads at the end.
MainInv ==
    /\ mpc # "join" => \A t \in Threads : tpc[t] = "done"
    /\ mpc = "done" => summary = [packets |-> IF proto = "udp" THEN packets ELSE 0, bytes |-> bytes]

ReportInv ==
    /\ lastB <= bytes /\ lastP <= packets
    /\ rpc = "loaded" => lastB <= b /\ b <= bytes
    /\ rpc # "loaded" => b = 0
    /\ proto = "udp" => b <= packets /\ lastB <= lastP
    /\ late \in {0, 1}
    /\ run => late = 0
    /\ rpc = "asleep" => late = 0

IInv == TypeOK /\ ThreadInv /\ CountInv /\ MainInv /\ ReportInv

-----------------------------------------------------------------------------
LEMMA InitIInv == Init => IInv
<1> SUFFICES ASSUME Init PROVE IInv
  OBVIOUS
<1> USE ClientAssumption DEF Init
<1>1. TypeOK
  <2>1. sending \in [Threads -> 0..Batch] /\ seq \in [Threads -> Nat] /\ sentSec \in [Threads -> Nat]
    OBVIOUS
  <2>2. tpc \in [Threads -> {"start", "head", "send", "packets", "bytes", "pace", "done"}]
    OBVIOUS
  <2>3. summary \in [packets : Nat, bytes : Nat]
    OBVIOUS
  <2> QED BY <2>1, <2>2, <2>3 DEF TypeOK
<1>2. ThreadInv
  BY DEF ThreadInv
<1>3. CountInv
  <2>1. PacketsAdded = {} /\ BytesAdded = {}
    BY DEF PacketsAdded, BytesAdded, Added
  <2> QED BY <2>1, FS_EmptySet DEF CountInv
<1>4. MainInv /\ ReportInv
  BY DEF MainInv, ReportInv
<1> QED BY <1>1, <1>2, <1>3, <1>4 DEF IInv

-----------------------------------------------------------------------------
(* The sets behind the counters.                                            *)

\* They do not change when accepted does not and threads keep what they add.
LEMMA AddedSame ==
    ASSUME TypeOK, NEW L, accepted' = accepted,
           \A t \in Threads : tpc'[t] \in L <=> tpc[t] \in L,
           \A t \in Threads : tpc[t] \in L => Under(t)' = Under(t)
    PROVE  Added(L)' = Added(L)
<1>1. ASSUME NEW u \in accepted
      PROVE  (tpc'[u[1]] \in L => u[2] \notin Under(u[1])') <=> (tpc[u[1]] \in L => u[2] \notin Under(u[1]))
  <2>1. u[1] \in Threads
    BY DEF TypeOK
  <2> QED BY <2>1
<1> QED BY <1>1 DEF Added

LEMMA AddedFinite ==
    ASSUME IsFiniteSet(accepted), NEW L
    PROVE  /\ IsFiniteSet(Added(L)) /\ Cardinality(Added(L)) \in Nat
BY FS_Subset, FS_CardinalityType DEF Added

LEMMA IntervalSize ==
    \A x \in Int, n \in Nat : IsFiniteSet(x .. x + n - 1) /\ Cardinality(x .. x + n - 1) = n
BY FS_Interval

LEMMA FreshUnits ==
    ASSUME NEW S, IsFiniteSet(S), NEW t, NEW U, IsFiniteSet(U), S \cap ({t} \X U) = {}
    PROVE  /\ IsFiniteSet(S \cup ({t} \X U))
           /\ Cardinality(S \cup ({t} \X U)) = Cardinality(S) + Cardinality(U)
<1>1. IsFiniteSet({t}) /\ Cardinality({t}) = 1
  BY FS_Singleton
<1>2. IsFiniteSet({t} \X U) /\ Cardinality({t} \X U) = 1 * Cardinality(U)
  BY <1>1, FS_Product
<1>3. Cardinality(S \cap ({t} \X U)) = 0 /\ Cardinality(S) \in Nat /\ Cardinality(U) \in Nat
  BY FS_EmptySet, FS_CardinalityType
<1>4. /\ IsFiniteSet(S \cup ({t} \X U))
      /\ Cardinality(S \cup ({t} \X U))
           = Cardinality(S) + Cardinality({t} \X U) - Cardinality(S \cap ({t} \X U))
  BY <1>2, FS_Union
<1> QED BY <1>2, <1>3, <1>4

\* A thread that leaves the labels L adds its sending[t] units to the set.
LEMMA AddedGrows ==
    ASSUME TypeOK, ThreadInv, IsFiniteSet(accepted), NEW L, NEW t \in Threads,
           tpc[t] \in {"packets", "bytes"}, tpc[t] \in L,
           accepted' = accepted, tpc'[t] \notin L,
           \A s \in Threads \ {t} : tpc'[s] = tpc[s] /\ Under(s)' = Under(s)
    PROVE  Cardinality(Added(L)') = Cardinality(Added(L)) + sending[t]
<1> DEFINE New == {t} \X Under(t)
<1>1. Added(L)' = Added(L) \cup New
  <2>1. New \subseteq accepted
    BY DEF ThreadInv
  <2>2. ASSUME NEW u \in accepted, u[1] # t
        PROVE  u \in Added(L)' <=> u \in Added(L)
    <3>1. u[1] \in Threads
      BY DEF TypeOK
    <3> QED BY <2>2, <3>1 DEF Added
  <2>3. ASSUME NEW u \in accepted, u[1] = t
        PROVE  u \in Added(L)' /\ (u \in Added(L) <=> u[2] \notin Under(t)) /\ u = <<u[1], u[2]>>
    BY <2>3 DEF Added, TypeOK
  <2>4. ASSUME NEW u \in accepted PROVE u \in New <=> u[1] = t /\ u[2] \in Under(t)
    BY <2>3
  <2>5. Added(L)' \subseteq accepted /\ Added(L) \subseteq accepted
    BY DEF Added
  <2> QED BY <2>1, <2>2, <2>3, <2>4, <2>5
<1>2. Added(L) \cap New = {}
  <2>1. ASSUME NEW u \in Added(L), u \in New PROVE FALSE
    BY <2>1 DEF Added
  <2> QED BY <2>1
<1>3. IsFiniteSet(Under(t)) /\ Cardinality(Under(t)) = sending[t]
  <2>1. seq[t] \in Nat /\ sending[t] \in Nat /\ Batch \in Nat
    BY ClientAssumption DEF TypeOK
  <2> DEFINE x == IF proto = "udp" THEN seq[t] - Batch ELSE seq[t] - sending[t]
  <2>2. x \in Int /\ Under(t) = x .. x + sending[t] - 1
    BY <2>1 DEF Under
  <2> HIDE DEF x
  <2> QED BY <2>1, <2>2, IntervalSize
<1>4. IsFiniteSet(Added(L))
  BY AddedFinite
<1>5. Cardinality(Added(L) \cup New) = Cardinality(Added(L)) + Cardinality(Under(t))
  BY <1>2, <1>3, <1>4, FreshUnits
<1> QED BY <1>1, <1>3, <1>5
-----------------------------------------------------------------------------
(* The steps of a sender thread.                                            *)

Labels == {"start", "head", "send", "packets", "bytes", "pace", "done"}

\* No sender runs once the main thread has joined them; counters only grow.
LEMMA OthersUntouched ==
    ASSUME IInv, NEW t \in Threads, tpc[t] # "done",
           UNCHANGED <<reporterVars, mainVars>>,
           packets' \in Nat, bytes' \in Nat, packets' >= packets, bytes' >= bytes
    PROVE  MainInv' /\ ReportInv'
<1> USE DEF reporterVars, mainVars
<1>1. mpc = "join"
  BY DEF IInv, MainInv
<1>2. MainInv'
  BY <1>1 DEF MainInv
<1>3. ReportInv'
  BY DEF IInv, TypeOK, ReportInv
<1> QED BY <1>2, <1>3

\* A step between labels at which nothing is being added.
LEMMA NothingAdded ==
    ASSUME IInv, NEW t \in Threads, tpc[t] \notin {"packets", "bytes", "done"},
           NEW l \in Labels \ {"packets", "bytes"}, Goto(t, l),
           UNCHANGED <<sending, accepted, packets, bytes, reporterVars, mainVars>>,
           \A s \in Threads \ {t} : seq'[s] = seq[s]
    PROVE  CountInv' /\ MainInv' /\ ReportInv'
<1>1. ASSUME NEW s \in Threads
      PROVE  /\ tpc'[s] \in {"packets"} <=> tpc[s] \in {"packets"}
             /\ tpc'[s] \in {"packets", "bytes"} <=> tpc[s] \in {"packets", "bytes"}
             /\ tpc[s] \in {"packets", "bytes"} => s # t
  BY DEF Goto, IInv, TypeOK, Labels
<1>2. ASSUME NEW s \in Threads, s # t PROVE Under(s)' = Under(s)
  BY <1>2 DEF Under, mainVars
<1>3. PacketsAdded' = PacketsAdded /\ BytesAdded' = BytesAdded
  BY <1>1, <1>2, AddedSame DEF PacketsAdded, BytesAdded, IInv
<1>4. CountInv'
  BY <1>3 DEF IInv, CountInv, mainVars
<1> QED BY <1>4, OthersUntouched DEF IInv, TypeOK

LEMMA QuietStep ==
    ASSUME IInv, NEW t \in Threads,
           \/ \E next \in {"head", "done"} : Open(t, next)
           \/ Stop(t) \/ EnterWrite(t) \/ WriteFails(t) \/ Pace(t)
    PROVE  IInv'
<1>1. PICK l \in {"head", "done", "send"} :
        /\ Goto(t, l)
        /\ l = "send" => proto = "tcp"
        /\ tpc[t] \notin {"packets", "bytes", "done"}
        /\ UNCHANGED <<seq, sending, accepted, packets, bytes, reporterVars, mainVars>>
        /\ sentSec' \in [Threads -> Nat]
  BY DEF Open, Stop, EnterWrite, WriteFails, Pace, IInv, TypeOK
<1>2. TypeOK'
  BY <1>1 DEF IInv, TypeOK, Goto, reporterVars, mainVars
<1>3. ThreadInv'
  <2> SUFFICES ASSUME NEW s \in Threads
      PROVE  (/\ proto = "tcp" => tpc[s] \notin {"packets", "pace"}
              /\ proto = "udp" /\ tpc[s] \in {"send", "packets", "bytes"} => seq[s] >= Batch
              /\ proto = "udp" /\ tpc[s] = "send" => \A u \in accepted : u[1] = s => u[2] < seq[s] - Batch
              /\ tpc[s] \in {"packets", "bytes"} => {s} \X Under(s) \subseteq accepted
              /\ proto = "tcp" => sending[s] <= seq[s])'
    BY DEF ThreadInv
  <2>1. Under(s)' = Under(s) /\ proto' = proto /\ accepted' = accepted /\ seq' = seq /\ sending' = sending
    BY <1>1 DEF Under, mainVars
  <2>2. CASE s # t
    <3>1. tpc'[s] = tpc[s]
      BY <1>1, <2>2 DEF Goto, IInv, TypeOK
    <3> QED BY <2>1, <3>1 DEF IInv, ThreadInv
  <2>3. CASE s = t
    <3>1. tpc'[s] = l
      BY <1>1, <2>3 DEF Goto, IInv, TypeOK
    <3> QED BY <1>1, <2>1, <3>1 DEF IInv, ThreadInv
  <2> QED BY <2>2, <2>3
<1>4. CountInv' /\ MainInv' /\ ReportInv'
  BY <1>1, NothingAdded DEF Labels
<1> QED BY <1>2, <1>3, <1>4 DEF IInv

LEMMA StampStep == ASSUME IInv, NEW t \in Threads, Stamp(t) PROVE IInv'
<1> USE ClientAssumption
<1>1. /\ Goto(t, "send") /\ tpc[t] = "head" /\ proto = "udp"
      /\ seq' = [seq EXCEPT ![t] = @ + Batch]
      /\ UNCHANGED <<sentSec, sending, accepted, packets, bytes, reporterVars, mainVars>>
  BY DEF Stamp
<1>2. \A s \in Threads : seq'[s] = IF s = t THEN seq[s] + Batch ELSE seq[s]
  BY <1>1 DEF IInv, TypeOK
<1>3. \A s \in Threads : tpc'[s] = IF s = t THEN "send" ELSE tpc[s]
  BY <1>1 DEF IInv, TypeOK, Goto
<1>4. TypeOK'
  <2>1. seq' \in [Threads -> Nat]
    BY <1>1 DEF IInv, TypeOK
  <2>2. \A u \in accepted : u[1] \in Threads /\ u[2] \in Nat /\ u[2] < seq'[u[1]]
    BY <1>2 DEF IInv, TypeOK
  <2> QED BY <1>1, <2>1, <2>2 DEF IInv, TypeOK, Goto, reporterVars, mainVars
<1>5. ThreadInv'
  <2>1. proto' = proto /\ accepted' = accepted /\ sending' = sending
    BY <1>1 DEF mainVars
  <2>2. \A s \in Threads \ {t} : Under(s)' = Under(s)
    BY <1>2, <2>1 DEF Under
  <2>3. \A u \in accepted : u[1] = t => u[2] < seq'[t] - Batch
    BY <1>2 DEF IInv, TypeOK
  <2>4. seq'[t] >= Batch
    BY <1>2 DEF IInv, TypeOK
  <2> QED BY <1>1, <1>2, <1>3, <2>1, <2>2, <2>3, <2>4 DEF IInv, ThreadInv
<1>6. CountInv' /\ MainInv' /\ ReportInv'
  BY <1>1, <1>2, NothingAdded DEF Labels
<1> QED BY <1>4, <1>5, <1>6 DEF IInv
\* Units that have just been accepted are all still to be added.
LEMMA AddedTaken ==
    ASSUME IInv, NEW t \in Threads, NEW L, NEW first \in Nat, NEW n \in Nat,
           Take(t, first, n), tpc[t] \notin L,
           \A u \in accepted : u[1] = t => u[2] < first,
           IF n = 0 THEN tpc'[t] \notin L ELSE tpc'[t] \in L,
           n # 0 => Under(t)' = first .. first + n - 1,
           \A s \in Threads \ {t} : tpc'[s] = tpc[s] /\ Under(s)' = Under(s)
    PROVE  Added(L)' = Added(L)
<1>1. accepted' = accepted \cup ({t} \X (first .. first + n - 1))
  BY DEF Take
<1>2. ASSUME NEW u \in accepted PROVE u \in Added(L)' <=> u \in Added(L)
  <2>1. u[1] \in Threads /\ u[2] \in Nat /\ u \in accepted'
    BY <1>1 DEF IInv, TypeOK
  <2>2. CASE u[1] # t
    BY <2>1, <2>2 DEF Added
  <2>3. CASE u[1] = t
    <3>1. u[2] < first
      BY <2>3
    <3>2. n # 0 => u[2] \notin Under(t)'
      BY <2>1, <3>1
    <3>3. u \in Added(L)'
      BY <2>1, <2>3, <3>2 DEF Added
    <3>4. u \in Added(L)
      BY <2>3 DEF Added
    <3> QED BY <3>3, <3>4
  <2> QED BY <2>2, <2>3
<1>3. ASSUME NEW u \in {t} \X (first .. first + n - 1) PROVE u \notin Added(L)' /\ u \notin accepted
  <2>1. u[1] = t /\ u[2] \in first .. first + n - 1 /\ n # 0
    OBVIOUS
  <2>2. u \notin Added(L)'
    BY <2>1 DEF Added
  <2>3. u \notin accepted
    BY <2>1
  <2> QED BY <2>2, <2>3
<1>4. Added(L)' \subseteq accepted' /\ Added(L) \subseteq accepted
  BY DEF Added
<1> QED BY <1>1, <1>2, <1>3, <1>4

LEMMA TakenFinite ==
    ASSUME IInv, NEW t, NEW first \in Nat, NEW n \in Nat, Take(t, first, n)
    PROVE  IsFiniteSet(accepted')
<1>1. IsFiniteSet(first .. first + n - 1) /\ IsFiniteSet({t})
  <2>1. first \in Int /\ first + n - 1 \in Int
    OBVIOUS
  <2> QED BY <2>1, FS_Interval, FS_Singleton
<1>2. IsFiniteSet({t} \X (first .. first + n - 1))
  BY <1>1, FS_Product
<1> QED BY <1>2, FS_Union DEF Take, IInv, CountInv

\* sendmmsg or write: the kernel takes n units, from `first` on.
LEMMA TakeStep ==
    ASSUME IInv, NEW t \in Threads, NEW n \in 0..Batch, NEW l \in {"packets", "bytes", "pace"},
           NEW first \in Nat,
           tpc[t] = "send", Goto(t, l), Take(t, first, n),
           \A u \in accepted : u[1] = t => u[2] < first,
           seq' \in [Threads -> Nat], \A s \in Threads \ {t} : seq'[s] = seq[s],
           first + n <= seq'[t],
           n # 0 => Under(t)' = first .. first + n - 1,
           IF proto = "udp" THEN /\ l = IF n = 0 THEN "pace" ELSE "packets"
                                 /\ seq'[t] = first + Batch
                            ELSE l = "bytes" /\ n # 0,
           UNCHANGED <<sentSec, packets, bytes, reporterVars, mainVars>>
    PROVE  IInv'
<1> USE ClientAssumption
<1>1. /\ accepted' = accepted \cup ({t} \X (first .. first + n - 1))
      /\ \A s \in Threads : sending'[s] = IF s = t THEN n ELSE sending[s]
      /\ sending' \in [Threads -> 0..Batch]
  BY DEF Take, IInv, TypeOK
<1>2. /\ tpc' \in [Threads -> Labels]
      /\ \A s \in Threads : tpc'[s] = IF s = t THEN l ELSE tpc[s]
  BY DEF Goto, IInv, TypeOK, Labels
<1>3. proto' = proto /\ proto \in {"udp", "tcp"}
  BY DEF mainVars, IInv, TypeOK
<1>4. \A s \in Threads \ {t} : Under(s)' = Under(s)
  BY <1>1, <1>3 DEF Under
<1>5. \A u \in {t} \X (first .. first + n - 1) : u[1] = t /\ u[2] \in Nat /\ first <= u[2] /\ u[2] < first + n
  OBVIOUS
<1>6. TypeOK'
  <2>1. accepted' \in SUBSET (Threads \X Nat)
    BY <1>1 DEF IInv, TypeOK
  <2>2. ASSUME NEW u \in accepted' PROVE u[2] < seq'[u[1]]
    <3>1. CASE u \in accepted
      <4>1. u[1] \in Threads /\ u[2] \in Nat /\ u[2] < seq[u[1]]
        BY <3>1 DEF IInv, TypeOK
      <4>2. CASE u[1] = t
        BY <3>1, <4>1, <4>2
      <4>3. CASE u[1] # t
        BY <4>1, <4>3
      <4> QED BY <4>2, <4>3
    <3>2. CASE u \in {t} \X (first .. first + n - 1)
      BY <1>5, <3>2
    <3> QED BY <1>1, <3>1, <3>2
  <2> QED BY <1>1, <1>2, <1>3, <2>1, <2>2 DEF IInv, TypeOK, Labels, reporterVars, mainVars
<1>7. ThreadInv'
  <2> SUFFICES ASSUME NEW s \in Threads
      PROVE  (/\ proto = "tcp" => tpc[s] \notin {"packets", "pace"}
              /\ proto = "udp" /\ tpc[s] \in {"send", "packets", "bytes"} => seq[s] >= Batch
              /\ proto = "udp" /\ tpc[s] = "send" => \A u \in accepted : u[1] = s => u[2] < seq[s] - Batch
              /\ tpc[s] \in {"packets", "bytes"} => {s} \X Under(s) \subseteq accepted
              /\ proto = "tcp" => sending[s] <= seq[s])'
    BY DEF ThreadInv
  <2>1. CASE s = t
    <3>1. tpc'[s] = l /\ sending'[s] = n
      BY <1>1, <1>2, <2>1
    <3>2. l \in {"packets", "bytes"} => {s} \X Under(s)' \subseteq accepted'
      BY <1>1, <1>3, <2>1
    <3>3. proto = "tcp" => l = "bytes"
      BY <1>3
    <3>4. proto = "udp" => seq'[s] >= Batch
      BY <2>1
    <3>5. sending'[s] <= seq'[s]
      BY <2>1, <3>1
    <3> QED BY <1>3, <3>1, <3>2, <3>3, <3>4, <3>5
  <2>2. CASE s # t
    <3>1. tpc'[s] = tpc[s] /\ sending'[s] = sending[s] /\ seq'[s] = seq[s] /\ Under(s)' = Under(s)
      BY <1>1, <1>2, <1>4, <2>2
    <3>2. \A u \in accepted' : u[1] = s => u \in accepted
      BY <1>1, <1>5, <2>2
    <3>3. accepted \subseteq accepted'
      BY <1>1
    <3> QED BY <1>3, <3>1, <3>2, <3>3 DEF IInv, ThreadInv
  <2> QED BY <2>1, <2>2
<1>8. CountInv'
  <2>1. BytesAdded' = BytesAdded
    <3> DEFINE L == {"packets", "bytes"}
    <3>1. /\ n \in Nat /\ tpc[t] \notin L
          /\ IF n = 0 THEN tpc'[t] \notin L ELSE tpc'[t] \in L
      BY <1>2, <1>3
    <3>2. \A s \in Threads \ {t} : tpc'[s] = tpc[s] /\ Under(s)' = Under(s)
      BY <1>2, <1>4
    <3> HIDE DEF L
    <3>3. Added(L)' = Added(L)
      BY <3>1, <3>2, AddedTaken
    <3> QED BY <3>3 DEF L, BytesAdded
  <2>2. proto = "udp" => PacketsAdded' = PacketsAdded
    BY <1>2, <1>3, <1>4, AddedTaken DEF PacketsAdded
  <2> QED BY <1>3, <2>1, <2>2, TakenFinite DEF IInv, CountInv
<1>9. MainInv' /\ ReportInv'
  <2>1. packets \in Nat /\ bytes \in Nat
    BY DEF IInv, TypeOK
  <2>2. packets' \in Nat /\ bytes' \in Nat /\ packets' >= packets /\ bytes' >= bytes
    BY <2>1
  <2> QED BY <2>2, OthersUntouched
<1> QED BY <1>6, <1>7, <1>8, <1>9 DEF IInv

LEMMA SendMmsgStep ==
    ASSUME IInv, NEW t \in Threads, NEW n \in 0..Batch, SendMmsg(t, n) PROVE IInv'
<1> USE ClientAssumption
<1>1. proto = "udp" /\ tpc[t] = "send" /\ seq' = seq /\ seq \in [Threads -> Nat] /\ seq[t] >= Batch
      /\ sending'[t] = n /\ proto' = proto
  BY DEF SendMmsg, Take, mainVars, IInv, TypeOK, ThreadInv
<1> DEFINE first == seq[t] - Batch
           l == IF n = 0 THEN "pace" ELSE "packets"
<1>2. first \in Nat /\ first + n <= seq'[t] /\ seq'[t] = first + Batch
  BY <1>1
<1>3. Under(t)' = first .. first + n - 1
  BY <1>1 DEF Under
<1>4. Goto(t, l) /\ Take(t, first, n) /\ UNCHANGED <<sentSec, packets, bytes, reporterVars, mainVars>>
  BY DEF SendMmsg
<1>5. \A u \in accepted : u[1] = t => u[2] < first
  BY <1>1 DEF IInv, ThreadInv
<1>6. l \in {"packets", "bytes", "pace"}
  OBVIOUS
<1> QED BY <1>1, <1>2, <1>3, <1>4, <1>5, <1>6, TakeStep

LEMMA WriteStep ==
    ASSUME IInv, NEW t \in Threads, NEW n \in 0..Batch, Write(t, n) PROVE IInv'
<1> USE ClientAssumption
<1>1. proto = "tcp" /\ tpc[t] = "send" /\ seq' = [seq EXCEPT ![t] = @ + n] /\ seq \in [Threads -> Nat]
      /\ n # 0 /\ sending'[t] = n /\ proto' = proto
  BY DEF Write, Take, mainVars, IInv, TypeOK
<1> DEFINE first == seq[t]
<1>2. /\ first \in Nat /\ seq'[t] = first + n /\ seq' \in [Threads -> Nat]
      /\ \A s \in Threads \ {t} : seq'[s] = seq[s]
  BY <1>1
<1>3. Under(t)' = first .. first + n - 1
  <2>1. Under(t)' = (first + n) - n .. (first + n) - 1
    BY <1>1, <1>2 DEF Under
  <2> QED BY <1>2, <2>1
<1>4. /\ Goto(t, "bytes") /\ Take(t, first, n)
      /\ UNCHANGED <<sentSec, packets, bytes, reporterVars, mainVars>>
  BY DEF Write
<1>5. \A u \in accepted : u[1] = t => u[2] < first
  BY DEF IInv, TypeOK
<1> QED BY <1>1, <1>2, <1>3, <1>4, <1>5, TakeStep
LEMMA CountPacketsStep == ASSUME IInv, NEW t \in Threads, CountPackets(t) PROVE IInv'
<1> USE ClientAssumption
<1>1. /\ tpc[t] = "packets" /\ packets' = packets + sending[t] /\ Goto(t, "bytes")
      /\ UNCHANGED <<seq, sentSec, sending, accepted, bytes, reporterVars, mainVars>>
  BY DEF CountPackets, PacketsBecome
<1>2. proto = "udp" /\ proto' = proto /\ sending[t] \in Nat /\ packets \in Nat
  BY <1>1 DEF IInv, TypeOK, ThreadInv, mainVars
<1>3. \A s \in Threads : tpc'[s] = IF s = t THEN "bytes" ELSE tpc[s]
  BY <1>1 DEF Goto, IInv, TypeOK
<1>4. \A s \in Threads : Under(s)' = Under(s)
  BY <1>1, <1>2 DEF Under
<1>5. TypeOK'
  BY <1>1, <1>2 DEF IInv, TypeOK, Goto, reporterVars, mainVars
<1>6. ThreadInv'
  BY <1>1, <1>2, <1>3, <1>4 DEF IInv, ThreadInv
<1>7. CountInv'
  <2>1. Cardinality(PacketsAdded') = Cardinality(PacketsAdded) + sending[t]
    <3> DEFINE L == {"packets"}
    <3>1. tpc[t] \in L /\ tpc'[t] \notin L
      BY <1>1, <1>3
    <3> HIDE DEF L
    <3>2. Cardinality(Added(L)') = Cardinality(Added(L)) + sending[t]
      BY <1>1, <1>3, <1>4, <3>1, AddedGrows DEF IInv, CountInv
    <3> QED BY <3>2 DEF L, PacketsAdded
  <2>2. BytesAdded' = BytesAdded
    <3> DEFINE L == {"packets", "bytes"}
    <3>1. \A s \in Threads : tpc'[s] \in L <=> tpc[s] \in L
      BY <1>1, <1>3
    <3> HIDE DEF L
    <3>2. Added(L)' = Added(L)
      BY <1>1, <1>4, <3>1, AddedSame DEF IInv
    <3> QED BY <3>2 DEF L, BytesAdded
  <2> QED BY <1>1, <1>2, <2>1, <2>2 DEF IInv, CountInv
<1>8. MainInv' /\ ReportInv'
  BY <1>1, <1>2, OthersUntouched DEF IInv, TypeOK
<1> QED BY <1>5, <1>6, <1>7, <1>8 DEF IInv

LEMMA CountBytesStep == ASSUME IInv, NEW t \in Threads, CountBytes(t) PROVE IInv'
<1> USE ClientAssumption
<1> DEFINE l == IF proto = "udp" THEN "pace" ELSE "head"
<1>1. /\ tpc[t] = "bytes" /\ bytes' = bytes + sending[t] /\ Goto(t, l)
      /\ sending' = [sending EXCEPT ![t] = 0]
      /\ UNCHANGED <<seq, accepted, packets, reporterVars, mainVars>>
  BY DEF CountBytes, BytesBecome
<1>2. sentSec' \in [Threads -> Nat]
  BY DEF CountBytes, BytesBecome, IInv, TypeOK
<1>3. proto' = proto /\ sending[t] \in Nat /\ bytes \in Nat
  BY <1>1 DEF IInv, TypeOK, mainVars
<1>4. /\ \A s \in Threads : tpc'[s] = IF s = t THEN l ELSE tpc[s]
      /\ \A s \in Threads : sending'[s] = IF s = t THEN 0 ELSE sending[s]
  BY <1>1 DEF Goto, IInv, TypeOK
<1>5. \A s \in Threads \ {t} : Under(s)' = Under(s)
  BY <1>1, <1>3, <1>4 DEF Under
<1>6. TypeOK'
  <2>1. tpc' \in [Threads -> Labels] /\ sending' \in [Threads -> 0..Batch]
    BY <1>1 DEF IInv, TypeOK, Goto, Labels
  <2> QED BY <1>1, <1>2, <1>3, <2>1 DEF IInv, TypeOK, Labels, reporterVars, mainVars
<1>7. ThreadInv'
  <2>1. \A s \in Threads : seq[s] \in Nat
    BY DEF IInv, TypeOK
  <2>2. l \notin {"send", "packets", "bytes"} /\ (proto = "tcp" => l = "head")
    OBVIOUS
  <2> HIDE DEF l
  <2> QED BY <1>1, <1>3, <1>4, <1>5, <2>1, <2>2 DEF IInv, ThreadInv
<1>8. CountInv'
  <2>1. Cardinality(BytesAdded') = Cardinality(BytesAdded) + sending[t]
    <3> DEFINE L == {"packets", "bytes"}
    <3>1. tpc[t] \in L /\ tpc'[t] \notin L
      BY <1>1, <1>4
    <3> HIDE DEF L
    <3>2. Cardinality(Added(L)') = Cardinality(Added(L)) + sending[t]
      BY <1>1, <1>4, <1>5, <3>1, AddedGrows DEF IInv, CountInv
    <3> QED BY <3>2 DEF L, BytesAdded
  <2>2. PacketsAdded' = PacketsAdded
    <3> DEFINE L == {"packets"}
    <3>1. \A s \in Threads : /\ tpc'[s] \in L <=> tpc[s] \in L
                             /\ tpc[s] \in L => s # t
      BY <1>1, <1>4
    <3> HIDE DEF L
    <3>2. Added(L)' = Added(L)
      BY <1>1, <1>5, <3>1, AddedSame DEF IInv
    <3> QED BY <3>2 DEF L, PacketsAdded
  <2> QED BY <1>1, <1>3, <2>1, <2>2 DEF IInv, CountInv
<1>9. MainInv' /\ ReportInv'
  BY <1>1, <1>3, OthersUntouched DEF IInv, TypeOK
<1> QED BY <1>6, <1>7, <1>8, <1>9 DEF IInv

-----------------------------------------------------------------------------
(* The reporter and the main thread.                                        *)

\* A report of a UDP client: senders add to packets first.
LEMMA BytesBehindPackets == IInv /\ proto = "udp" => bytes <= packets
<1> SUFFICES ASSUME IInv, proto = "udp" PROVE bytes <= packets
  OBVIOUS
<1>1. BytesAdded \in SUBSET PacketsAdded
  BY DEF BytesAdded, PacketsAdded, Added
<1>2. IsFiniteSet(PacketsAdded)
  BY AddedFinite DEF PacketsAdded, IInv, CountInv
<1> QED BY <1>1, <1>2, FS_Subset DEF IInv, CountInv

LEMMA SendersSame ==
    ASSUME IInv, UNCHANGED <<senderVars, packets, bytes, proto>>
    PROVE  ThreadInv' /\ CountInv'
<1> USE DEF senderVars
<1>1. \A t : Under(t)' = Under(t)
  BY DEF Under
<1>2. PacketsAdded' = PacketsAdded /\ BytesAdded' = BytesAdded
  BY <1>1 DEF PacketsAdded, BytesAdded, Added
<1>3. CountInv'
  BY <1>2 DEF IInv, CountInv
<1>4. ThreadInv'
  BY <1>1 DEF IInv, ThreadInv
<1> QED BY <1>3, <1>4

LEMMA ReporterStep == IInv /\ Reporter => IInv'
<1> SUFFICES ASSUME IInv, Reporter PROVE IInv'
  OBVIOUS
<1>1. UNCHANGED <<senderVars, packets, bytes, mainVars>>
  BY DEF Reporter, RepCheck, RepLoadBytes, RepLoadPackets
<1>2. ThreadInv' /\ CountInv'
  BY <1>1, SendersSame DEF mainVars
<1>3. MainInv'
  BY <1>1 DEF IInv, MainInv, senderVars, mainVars
<1>4. TypeOK' /\ ReportInv'
  <2> USE DEF senderVars, mainVars, IInv, TypeOK, ReportInv
  <2>1. CASE RepCheck
    BY <1>1, <2>1 DEF RepCheck
  <2>2. CASE RepLoadBytes
    BY <1>1, <2>2, BytesBehindPackets DEF RepLoadBytes
  <2>3. CASE RepLoadPackets
    BY <1>1, <2>3 DEF RepLoadPackets
  <2> QED BY <2>1, <2>2, <2>3 DEF Reporter
<1> QED BY <1>2, <1>3, <1>4 DEF IInv

LEMMA MainStep == IInv /\ (Main \/ Expire) => IInv'
<1> SUFFICES ASSUME IInv, Main \/ Expire PROVE IInv'
  OBVIOUS
<1>1. UNCHANGED <<senderVars, packets, bytes, reporterVars, proto>>
  BY DEF Main, JoinSenders, JoinWhen, ClearRun, StopReporter, Summarise, Expire
<1>2. ThreadInv' /\ CountInv'
  BY <1>1, SendersSame
<1>3. TypeOK' /\ ReportInv' /\ MainInv'
  <2> USE <1>1 DEF senderVars, reporterVars, IInv, TypeOK, ReportInv, MainInv
  <2>1. CASE JoinSenders
    BY <2>1 DEF JoinSenders, JoinWhen
  <2>2. CASE ClearRun
    BY <2>2 DEF ClearRun, StopReporter
  <2>3. CASE Summarise
    BY <2>3 DEF Summarise
  <2>4. CASE Expire
    BY <2>4 DEF Expire
  <2> QED BY <2>1, <2>2, <2>3, <2>4 DEF Main
<1> QED BY <1>2, <1>3 DEF IInv

LEMMA NextIInv == IInv /\ [Next]_vars => IInv'
<1> SUFFICES ASSUME IInv, [Next]_vars PROVE IInv'
  OBVIOUS
<1>1. CASE UNCHANGED vars
  <2>1. ThreadInv' /\ CountInv'
    BY <1>1, SendersSame DEF vars, mainVars
  <2>2. TypeOK'
    BY <1>1 DEF IInv, TypeOK, vars, senderVars, reporterVars, mainVars
  <2>3. MainInv' /\ ReportInv'
    BY <1>1 DEF IInv, MainInv, ReportInv, vars, senderVars, reporterVars, mainVars
  <2> QED BY <2>1, <2>2, <2>3 DEF IInv
<1>2. CASE Next
  <2>1. ASSUME NEW t \in Threads,
               \/ \E next \in {"head", "done"} : Open(t, next)
               \/ Stop(t) \/ EnterWrite(t) \/ WriteFails(t) \/ Pace(t)
        PROVE  IInv'
    BY <2>1, QuietStep
  <2>2. ASSUME NEW t \in Threads, NEW n \in 0..Batch, SendMmsg(t, n) \/ Write(t, n) PROVE IInv'
    BY <2>2, SendMmsgStep, WriteStep
  <2>3. ASSUME NEW t \in Threads, Stamp(t) \/ CountPackets(t) \/ CountBytes(t) PROVE IInv'
    BY <2>3, StampStep, CountPacketsStep, CountBytesStep
  <2> QED BY <1>2, <2>1, <2>2, <2>3, ReporterStep, MainStep DEF Next
<1> QED BY <1>1, <1>2
LEMMA Invariant == Spec => []IInv
BY InitIInv, NextIInv, PTL DEF Spec

\* Once every sender is done, everything accepted has been added.
LEMMA AllAdded ==
    ASSUME IInv, \A t \in Threads : tpc[t] = "done"
    PROVE  bytes = Handed /\ (proto = "udp" => packets = Handed)
<1>1. \A u \in accepted : tpc[u[1]] = "done"
  BY DEF IInv, TypeOK
<1>2. PacketsAdded = accepted /\ BytesAdded = accepted
  BY <1>1 DEF PacketsAdded, BytesAdded, Added
<1> QED BY <1>2 DEF IInv, CountInv, Handed

-----------------------------------------------------------------------------
\* Every variable of the clients stays in its range (net.rs:45-73, 223-386).
THEOREM TypeCorrect == Spec => []TypeOK
BY Invariant, PTL DEF IInv

LEMMA InvSummaryExact == IInv => SummaryExact
<1> SUFFICES ASSUME IInv, mpc = "done"
             PROVE  summary = [packets |-> IF proto = "udp" THEN Handed ELSE 0, bytes |-> Handed]
  BY DEF SummaryExact
<1>1. \A t \in Threads : tpc[t] = "done"
  BY DEF IInv, MainInv
<1> QED BY <1>1, AllAdded DEF IInv, MainInv

\* The Summary counts exactly what the kernel accepted, whatever the number of
\* threads, the batch size and the interleaving of their additions
\* (net.rs:274-283, 376-385).
THEOREM SummaryIsExact == Spec => []SummaryExact
BY Invariant, InvSummaryExact, PTL

\* No UDP report shows more bytes than packets (net.rs:54-55, 360-361).
THEOREM ReportIsConsistent == Spec => []ReportConsistent
<1>1. IInv => ReportConsistent
  BY DEF IInv, ReportInv, ReportConsistent
<1> QED BY <1>1, Invariant, PTL

\* The reporter is joined after at most one more of its sleeps (net.rs:277-282,
\* 379-384).
THEOREM LateSleepBounded == Spec => []AtMostOneLateSleep
<1>1. IInv => AtMostOneLateSleep
  BY DEF IInv, ReportInv, AtMostOneLateSleep
<1> QED BY <1>1, Invariant, PTL

\* The subtractions of the reporter never go below zero (net.rs:56, 59).
THEOREM NoNegativeDelta == Spec => DeltasNeverNegative
<1>1. IInv /\ [Next]_vars => [lastB' >= lastB /\ lastP' >= lastP]_vars
  <2> SUFFICES ASSUME IInv, Next PROVE lastB' >= lastB /\ lastP' >= lastP
    OBVIOUS
  <2>1. lastB \in Nat /\ lastP \in Nat
    BY DEF IInv, TypeOK
  <2>2. CASE Reporter
    BY <2>1, <2>2 DEF Reporter, RepCheck, RepLoadBytes, RepLoadPackets, IInv, TypeOK, ReportInv
  <2>3. CASE ~Reporter
    <3>1. UNCHANGED <<lastB, lastP>>
      BY <2>3 DEF Next, Open, Stop, Stamp, SendMmsg, EnterWrite, Write, WriteFails, CountPackets,
            PacketsBecome, CountBytes, BytesBecome, Pace, Main, JoinSenders, JoinWhen, ClearRun,
            StopReporter, Summarise, Expire, reporterVars
    <3> QED BY <2>1, <3>1
  <2> QED BY <2>2, <2>3
<1> QED BY <1>1, Invariant, PTL DEF Spec, DeltasNeverNegative

-----------------------------------------------------------------------------
(* The session: its steps are the client's, or leave the client alone.      *)

LEMMA SessionStep == [SessionNext]_sessionVars => [Next]_vars
<1> SUFFICES ASSUME SessionNext PROVE [Next]_vars
  BY DEF sessionVars
<1>1. ASSUME NEW t \in Threads, Sender(t) PROVE Next
  <2>1. CASE UdpOpen(t) \/ Transmit(t) \/ Connect(t) \/ ConnectFails(t)
    BY <2>1 DEF UdpOpen, Transmit, Connect, ConnectFails, Next
  <2>2. CASE TcpSend(t)
    <3>1. PICK n \in 1..Batch : Write(t, n)
      BY <2>2 DEF TcpSend
    <3>2. n \in 0..Batch
      BY ClientAssumption
    <3> QED BY <3>1, <3>2 DEF Next
  <2>3. CASE TcpSendFails(t) \/ Internal(t)
    BY <2>3 DEF TcpSendFails, Internal, Next
  <2> QED BY <1>1, <2>1, <2>2, <2>3 DEF Sender
<1>2. ASSUME NEW t \in Threads, Reader(t) PROVE UNCHANGED vars
  BY <1>2 DEF Reader, Accept, Read, CountRead, CountReadAs, ReadEnds
<1>3. Report \/ Return \/ Deadline => Next
  BY DEF Report, Return, Deadline, Next
<1>4. Listen \/ Exit \/ Hang \/ Finished => UNCHANGED vars
  BY DEF Listen, Exit, Hang, Finished, sessionVars
<1> QED BY <1>1, <1>2, <1>3, <1>4 DEF SessionNext, Senders, Readers

\* A client in a session with a server is a client: what is proved of Spec holds
\* against every server, one that exits or hangs included.
THEOREM SessionIsClient == SessionSpec => Spec
BY SessionStep, PTL DEF SessionSpec, SessionInit, Spec
-----------------------------------------------------------------------------
(* The bytes the TCP server has counted are those its readers have taken    *)
(* from their connections and are not about to add.                         *)

ServerCounted == {u \in Threads \X Nat : u[2] < rcvd[u[1]] - got[u[1]]}

TcpTypes ==
    /\ conn \in [Threads -> {"none", "queued", "open", "reset", "ended"}]
    /\ rcvd \in [Threads -> Nat] /\ got \in [Threads -> Nat]
    /\ \A t \in Threads : got[t] <= rcvd[t] /\ rcvd[t] <= seq[t]

TcpCountInv == IsFiniteSet(ServerCounted) /\ srvBytes = Cardinality(ServerCounted)

\* What the kernel accepted is what was written; a connection that never was,
\* or has ended, has been read to its end.
StreamInv ==
    proto = "tcp" =>
        /\ accepted = {u \in Threads \X Nat : u[2] < seq[u[1]]}
        /\ \A t \in Threads :
             /\ conn[t] = "none" => tpc[t] \in {"start", "done"} /\ seq[t] = 0
             /\ conn[t] = "ended" => tpc[t] = "done" /\ got[t] = 0 /\ rcvd[t] = seq[t]

SInv == IInv /\ TcpTypes /\ TcpCountInv /\ StreamInv

LEMMA InitSInv == SessionInit => SInv
<1> SUFFICES ASSUME SessionInit PROVE SInv
  OBVIOUS
<1>1. IInv
  BY InitIInv DEF SessionInit
<1>2. TcpTypes
  BY DEF SessionInit, Init, TcpTypes
<1>3. TcpCountInv
  <2>1. ServerCounted = {}
    BY DEF SessionInit, ServerCounted
  <2> QED BY <2>1, FS_EmptySet DEF SessionInit, TcpCountInv
<1>4. StreamInv
  <2>1. {u \in Threads \X Nat : u[2] < seq[u[1]]} = {}
    BY DEF SessionInit, Init
  <2> QED BY <2>1 DEF SessionInit, Init, StreamInv
<1> QED BY <1>1, <1>2, <1>3, <1>4 DEF SInv

\* A step of the server's readers.
LEMMA ReaderStep == ASSUME SInv, NEW t \in Threads, Reader(t) PROVE SInv'
<1> USE DEF SInv
<1>1. UNCHANGED vars
  BY DEF Reader, Accept, Read, CountRead, CountReadAs, ReadEnds
<1>2. IInv'
  BY <1>1, NextIInv
<1>3. UNCHANGED <<seq, tpc, accepted, proto>> /\ seq \in [Threads -> Nat]
  BY <1>1 DEF vars, senderVars, mainVars, IInv, TypeOK
<1>4. CASE Accept(t) \/ ReadEnds(t)
  <2>1. TcpTypes'
    BY <1>3, <1>4 DEF Accept, ReadEnds, TcpTypes
  <2>2. ServerCounted' = ServerCounted /\ srvBytes' = srvBytes
    BY <1>4 DEF Accept, ReadEnds, ServerCounted
  <2>3. StreamInv'
    BY <1>3, <1>4 DEF Accept, ReadEnds, Unread, TcpTypes, StreamInv
  <2> QED BY <1>2, <2>1, <2>2, <2>3 DEF TcpCountInv
<1>5. CASE Read(t)
  <2>1. PICK n \in 1..Batch :
          /\ conn[t] = "open" /\ got[t] = 0 /\ n <= seq[t] - rcvd[t]
          /\ rcvd' = [rcvd EXCEPT ![t] = @ + n] /\ got' = [got EXCEPT ![t] = n]
          /\ UNCHANGED <<conn, srvBytes>>
    BY <1>5 DEF Read, Unread
  <2>2. n \in Nat
    BY ClientAssumption
  <2>3. TcpTypes'
    BY <1>3, <2>1, <2>2 DEF TcpTypes
  <2>4. \A s \in Threads : rcvd'[s] - got'[s] = rcvd[s] - got[s]
    BY <2>1, <2>2 DEF TcpTypes
  <2>5. ServerCounted' = ServerCounted
    BY <2>4 DEF ServerCounted
  <2>6. StreamInv'
    BY <1>3, <2>1 DEF StreamInv, TcpTypes
  <2> QED BY <1>2, <2>1, <2>3, <2>5, <2>6 DEF TcpCountInv
<1>6. CASE CountRead(t)
  <2>1. /\ got[t] > 0 /\ srvBytes' = srvBytes + got[t]
        /\ got' = [got EXCEPT ![t] = 0] /\ UNCHANGED <<conn, rcvd>>
    BY <1>6 DEF CountRead, CountReadAs
  <2>2. TcpTypes' /\ got[t] \in Nat /\ rcvd[t] \in Nat /\ got[t] <= rcvd[t]
    BY <1>3, <2>1 DEF TcpTypes
  <2>3. PICK x \in Int : x = rcvd[t] - got[t]
    BY <2>2
  <2> DEFINE U == x .. x + got[t] - 1
             New == {t} \X U
  <2>4. ServerCounted' = ServerCounted \cup New
    <3>1. ASSUME NEW s \in Threads, NEW m \in Nat
          PROVE  m < rcvd'[s] - got'[s] <=> m < rcvd[s] - got[s] \/ (s = t /\ m \in x .. x + got[t] - 1)
      BY <2>1, <2>2, <2>3 DEF TcpTypes
    <3>2. \A m \in x .. x + got[t] - 1 : m \in Nat
      BY <2>2, <2>3
    <3> QED BY <3>1, <3>2 DEF ServerCounted
  <2>5. ServerCounted \cap New = {}
    BY <2>2, <2>3 DEF ServerCounted
  <2>6. TcpCountInv'
    <3>1. IsFiniteSet(U) /\ Cardinality(U) = got[t]
      BY <2>2, IntervalSize
    <3>2. IsFiniteSet(ServerCounted)
      BY DEF TcpCountInv
    <3>3. ServerCounted \cap ({t} \X U) = {}
      BY <2>5
    <3> HIDE DEF U
    <3>4. Cardinality(ServerCounted \cup ({t} \X U)) = Cardinality(ServerCounted) + Cardinality(U)
      BY ONLY <3>1, <3>2, <3>3, FreshUnits, ZenonT(120)
    <3>5. IsFiniteSet(ServerCounted \cup ({t} \X U))
      BY <3>1, <3>2, <3>3, FreshUnits
    <3> QED BY <2>1, <2>4, <3>1, <3>4, <3>5 DEF TcpCountInv
  <2>7. StreamInv'
    BY <1>3, <2>1 DEF StreamInv
  <2> QED BY <1>2, <2>2, <2>6, <2>7
<1> QED BY <1>4, <1>5, <1>6 DEF Reader
\* Steps that leave the readers and the server's counter alone.
LEMMA ServerSame ==
    ASSUME SInv, UNCHANGED <<rcvd, got, srvBytes>>
    PROVE  TcpCountInv'
BY DEF SInv, TcpCountInv, ServerCounted

\* A step of a sender that writes nothing.
LEMMA NothingWritten ==
    ASSUME SInv, IInv', UNCHANGED <<accepted, rcvd, got, srvBytes, proto>>,
           conn' \in [Threads -> {"none", "queued", "open", "reset", "ended"}],
           \A s \in Threads :
               /\ seq'[s] >= seq[s] /\ (proto = "tcp" => seq'[s] = seq[s])
               /\ tpc[s] = "done" => tpc'[s] = "done"
               /\ conn'[s] = "none" => conn[s] = "none" /\ (tpc[s] = "start" => tpc'[s] \in {"start", "done"} \/ proto = "udp")
               /\ conn'[s] = "ended" => conn[s] = "ended"
    PROVE  SInv'
<1> USE DEF SInv
<1>1. \A s \in Threads : seq[s] \in Nat /\ seq'[s] \in Nat
  BY DEF IInv, TypeOK
<1>2. TcpTypes'
  BY <1>1 DEF TcpTypes
<1>3. StreamInv'
  <2> SUFFICES ASSUME proto = "tcp" PROVE StreamInv'
    BY DEF StreamInv, IInv, TypeOK
  <2>1. {u \in Threads \X Nat : u[2] < seq'[u[1]]} = {u \in Threads \X Nat : u[2] < seq[u[1]]}
    OBVIOUS
  <2> QED BY <2>1 DEF StreamInv
<1> QED BY <1>2, <1>3, ServerSame

\* A step that at most resets connections.
LEMMA SendersStill ==
    ASSUME SInv, IInv', UNCHANGED <<seq, tpc, accepted, rcvd, got, srvBytes, proto>>,
           conn' = conn \/ conn' = ResetAll
    PROVE  SInv'
<1>1. /\ conn \in [Threads -> {"none", "queued", "open", "reset", "ended"}]
      /\ \A s \in Threads : seq[s] \in Nat
  BY DEF SInv, TcpTypes, IInv, TypeOK
<1>2. /\ conn' \in [Threads -> {"none", "queued", "open", "reset", "ended"}]
      /\ \A s \in Threads : /\ conn'[s] = "none" => conn[s] = "none"
                            /\ conn'[s] = "ended" => conn[s] = "ended"
  BY <1>1 DEF ResetAll
<1>3. \A s \in Threads : seq'[s] >= seq[s] /\ seq'[s] = seq[s] /\ tpc'[s] = tpc[s]
  BY <1>1
<1> QED BY <1>2, <1>3, NothingWritten

LEMMA SenderStep == ASSUME SInv, NEW t \in Threads, Sender(t) PROVE SInv'
<1> USE DEF SInv
<1>1. IInv'
  BY SessionStep, NextIInv DEF SessionNext, Senders
<1>2. /\ seq \in [Threads -> Nat] /\ tpc \in [Threads -> Labels]
      /\ Batch \in Nat \ {0} /\ proto \in {"udp", "tcp"}
  BY ClientAssumption DEF IInv, TypeOK, Labels
<1>3. conn \in [Threads -> {"none", "queued", "open", "reset", "ended"}]
  BY DEF TcpTypes
<1>4. CASE UdpOpen(t) \/ Connect(t) \/ ConnectFails(t)
  <2>1. /\ UNCHANGED <<accepted, rcvd, got, srvBytes, proto, seq>>
        /\ tpc[t] = "start" /\ (\E l \in {"head", "done"} : Goto(t, l))
    BY <1>4 DEF UdpOpen, Connect, ConnectFails, Open, tcpVars, mainVars
  <2>2. \/ conn' = conn /\ proto = "udp"
        \/ conn' = conn /\ tpc'[t] = "done"
        \/ conn' = [conn EXCEPT ![t] = "queued"]
    BY <1>2, <1>4 DEF UdpOpen, Connect, ConnectFails, Open, Goto, tcpVars
  <2>3. \A s \in Threads : tpc'[s] = IF s = t THEN tpc'[t] ELSE tpc[s]
    BY <1>2, <2>1 DEF Goto
  <2> QED BY <1>1, <1>2, <1>3, <2>1, <2>2, <2>3, NothingWritten
<1>5. CASE Transmit(t)
  <2>1. /\ UNCHANGED <<rcvd, got, srvBytes, conn, seq, proto>> /\ proto = "udp"
    BY <1>5 DEF Transmit, SendMmsg, tcpVars, mainVars
  <2>2. TcpTypes' /\ StreamInv'
    BY <2>1 DEF TcpTypes, StreamInv
  <2> QED BY <1>1, <2>1, <2>2, ServerSame
<1>6. CASE TcpSendFails(t) \/ Internal(t)
  <2>1. UNCHANGED <<accepted, rcvd, got, srvBytes, proto, conn>>
    BY <1>6 DEF TcpSendFails, WriteFails, Internal, Stop, Stamp, EnterWrite, CountPackets,
          PacketsBecome, CountBytes, BytesBecome, Pace, tcpVars, mainVars
  <2>2. /\ tpc[t] \notin {"start", "done"} /\ \E l \in Labels : Goto(t, l)
    BY <1>6 DEF TcpSendFails, WriteFails, Internal, Stop, Stamp, EnterWrite, CountPackets,
          PacketsBecome, CountBytes, BytesBecome, Pace, Labels
  <2>3. seq' = seq \/ (proto = "udp" /\ seq' = [seq EXCEPT ![t] = @ + Batch])
    BY <1>6 DEF TcpSendFails, WriteFails, Internal, Stop, Stamp, EnterWrite, CountPackets,
          PacketsBecome, CountBytes, BytesBecome, Pace
  <2>4. \A s \in Threads : s # t => tpc'[s] = tpc[s]
    BY <1>2, <2>2 DEF Goto
  <2>5. \A s \in Threads : seq'[s] >= seq[s] /\ (proto = "tcp" => seq'[s] = seq[s])
    BY <1>2, <2>3
  <2> QED BY <1>1, <1>3, <2>1, <2>2, <2>4, <2>5, NothingWritten
<1>7. CASE TcpSend(t)
  <2>1. PICK n \in 1..Batch : Write(t, n) /\ UNCHANGED tcpVars
    BY <1>7 DEF TcpSend
  <2>2. /\ proto = "tcp" /\ tpc[t] = "send" /\ proto' = proto
        /\ accepted' = accepted \cup ({t} \X (seq[t] .. seq[t] + n - 1))
        /\ seq' = [seq EXCEPT ![t] = @ + n] /\ Goto(t, "bytes")
        /\ UNCHANGED <<conn, rcvd, got, srvBytes>>
    BY <2>1 DEF Write, Take, tcpVars, mainVars
  <2>3. n \in Nat
    BY <1>2
  <2>4. TcpTypes'
    BY <1>2, <2>2, <2>3 DEF TcpTypes
  <2>5. accepted' = {u \in Threads \X Nat : u[2] < seq'[u[1]]}
    <3>1. ASSUME NEW s \in Threads, NEW m \in Nat
          PROVE  m < seq'[s] <=> m < seq[s] \/ (s = t /\ m \in seq[t] .. seq[t] + n - 1)
      BY <1>2, <2>2, <2>3
    <3>2. \A m \in seq[t] .. seq[t] + n - 1 : m \in Nat
      BY <1>2
    <3>3. accepted = {u \in Threads \X Nat : u[2] < seq[u[1]]}
      BY <2>2 DEF StreamInv
    <3> QED BY <2>2, <3>1, <3>2, <3>3
  <2>6. \A s \in Threads : conn[s] \in {"none", "ended"} => s # t
    BY <2>2 DEF StreamInv
  <2>7. StreamInv'
    BY <1>2, <2>2, <2>5, <2>6 DEF StreamInv, Goto
  <2> QED BY <1>1, <2>2, <2>4, <2>7, ServerSame
<1> QED BY <1>4, <1>5, <1>6, <1>7 DEF Sender

LEMMA NextSInv == SInv /\ [SessionNext]_sessionVars => SInv'
<1> SUFFICES ASSUME SInv, [SessionNext]_sessionVars PROVE SInv'
  OBVIOUS
<1>1. IInv'
  BY SessionStep, NextIInv DEF SInv
<1>2. CASE Senders \/ Readers
  BY <1>2, SenderStep, ReaderStep DEF Senders, Readers
<1>3. CASE Report \/ Return \/ Deadline
  <2>1. UNCHANGED <<senderVars, proto, udpVars, tcpVars>>
    BY <1>3 DEF Report, Reporter, RepCheck, RepLoadBytes, RepLoadPackets, Return, Main, JoinSenders,
          JoinWhen, ClearRun, StopReporter, Summarise, Deadline, Expire, mainVars
  <2> QED BY <1>1, <2>1, SendersStill DEF senderVars, tcpVars
<1>4. CASE Listen \/ Exit \/ Hang
  <2>1. UNCHANGED <<vars, rcvd, got, srvBytes>> /\ (conn' = conn \/ conn' = ResetAll)
    BY <1>4 DEF Listen, Exit, Hang
  <2>2. UNCHANGED <<seq, tpc, accepted, proto>>
    BY <2>1 DEF vars, senderVars, mainVars
  <2> QED BY <1>1, <2>1, <2>2, SendersStill
<1>5. CASE UNCHANGED sessionVars
  <2>1. UNCHANGED <<seq, tpc, accepted, proto, conn, rcvd, got, srvBytes>>
    BY <1>5 DEF sessionVars, vars, senderVars, mainVars, tcpVars
  <2> QED BY <1>1, <2>1, SendersStill
<1> QED BY <1>2, <1>3, <1>4, <1>5 DEF SessionNext, Finished

\* When no connection was reset, the bytes the server counted are the bytes the
\* client reports, for every number of threads and listeners, every size of the
\* connection's window and every split into reads (net.rs:205-212, 264-283).
THEOREM BothEndsAgree == SessionSpec => []EndsAgree
<1>1. SInv => EndsAgree
  <2> SUFFICES ASSUME SInv, mpc = "done", proto = "tcp",
                      \A t \in Threads : conn[t] \in {"none", "ended"}
               PROVE  srvBytes = summary.bytes
    BY DEF EndsAgree
  <2>1. \A t \in Threads : rcvd[t] - got[t] = seq[t]
    BY DEF SInv, IInv, TypeOK, StreamInv, TcpTypes
  <2>2. ServerCounted = accepted
    BY <2>1 DEF ServerCounted, SInv, StreamInv
  <2> QED BY <2>2, InvSummaryExact DEF SInv, TcpCountInv, SummaryExact, Handed
<1>2. SessionSpec => []SInv
  BY InitSInv, NextSInv, PTL DEF SessionSpec
<1> QED BY <1>1, <1>2, PTL

-----------------------------------------------------------------------------
(* The receiver of a UDP session.                                           *)

\* It has last seen, of every thread, the highest number the kernel took.
DropInv ==
    proto = "udp" =>
        /\ \A t \in Threads : seq[t] <= MaxSeq
        /\ DOMAIN rxLast \subseteq Threads
        /\ \A t \in DOMAIN rxLast : <<t, rxLast[t]>> \in accepted
        /\ \A u \in accepted : u[1] \in DOMAIN rxLast /\ u[2] <= rxLast[u[1]]
        /\ rxDrops = Cardinality(Skipped)

\* Nothing sent, nothing skipped.
LEMMA InitDropInv == SessionInit => DropInv
<1> SUFFICES ASSUME SessionInit PROVE DropInv
  OBVIOUS
<1>1. accepted = {} /\ DOMAIN rxLast = {} /\ rxDrops = 0 /\ \A t \in Threads : seq[t] <= MaxSeq
  BY ClientAssumption DEF SessionInit, Init
<1>2. Skipped = {}
  BY <1>1 DEF Skipped
<1> QED BY <1>1, <1>2, FS_EmptySet DEF DropInv

Numbered == Threads \X (0 .. MaxSeq - 1)

\* Skipped, of a set A of datagrams the kernel took.
SkippedOf(A) ==
    {u \in Numbered :
        /\ u \notin A
        /\ \E m, n \in 0 .. MaxSeq - 1 : {<<u[1], m>>, <<u[1], n>>} \subseteq A /\ m < u[2] /\ u[2] < n}

\* There are no more skipped numbers than numbers.
LEMMA SkippedFinite == \A A : IsFiniteSet(SkippedOf(A))
<1>1. IsFiniteSet(0 .. MaxSeq - 1)
  BY ClientAssumption, FS_Interval
<1>2. IsFiniteSet(Numbered)
  BY <1>1, ClientAssumption, FS_Product DEF Numbered
<1> QED BY <1>2, FS_Subset DEF SkippedOf

\* A datagram is skipped if its thread has one taken before it and one after it.
LEMMA SkippedMeans ==
    ASSUME NEW A \in SUBSET Numbered, NEW t \in Threads, NEW k \in Nat
    PROVE  <<t, k>> \in SkippedOf(A) <=>
             /\ <<t, k>> \notin A
             /\ \E m, n \in Nat : <<t, m>> \in A /\ <<t, n>> \in A /\ m < k /\ k < n
<1>1. ASSUME NEW m \in Nat, NEW n \in Nat, <<t, m>> \in A, <<t, n>> \in A, m < k, k < n
      PROVE  m \in 0 .. MaxSeq - 1 /\ n \in 0 .. MaxSeq - 1 /\ k \in 0 .. MaxSeq - 1
  <2>1. m \in 0 .. MaxSeq - 1 /\ n \in 0 .. MaxSeq - 1
    BY <1>1 DEF Numbered
  <2> QED BY <2>1, <1>1, ClientAssumption
<1>2. \A m \in 0 .. MaxSeq - 1 : m \in Nat
  OBVIOUS
<1> QED BY <1>1, <1>2 DEF SkippedOf, Numbered

\* What is skipped of a thread depends on what was taken of it only.
LEMMA SkippedOther ==
    ASSUME NEW A \in SUBSET Numbered, NEW B \in SUBSET Numbered, NEW s \in Threads,
           \A m \in Nat : <<s, m>> \in B <=> <<s, m>> \in A, NEW k \in Nat
    PROVE  <<s, k>> \in SkippedOf(B) <=> <<s, k>> \in SkippedOf(A)
<1>1. <<s, k>> \in SkippedOf(A) <=>
        /\ <<s, k>> \notin A
        /\ \E m, n \in Nat : <<s, m>> \in A /\ <<s, n>> \in A /\ m < k /\ k < n
  BY SkippedMeans
<1>2. <<s, k>> \in SkippedOf(B) <=>
        /\ <<s, k>> \notin B
        /\ \E m, n \in Nat : <<s, m>> \in B /\ <<s, n>> \in B /\ m < k /\ k < n
  BY SkippedMeans
<1> QED BY <1>1, <1>2

\* r is the highest number of thread t in A.
Highest(r, t, A) == <<t, r>> \in A /\ \A k \in Nat : <<t, k>> \in A => k <= r

\* B is A with the numbers first to last of thread t.
AddsRun(B, A, t, first, last) ==
    \A s \in Threads, m \in Nat :
        <<s, m>> \in B <=> <<s, m>> \in A \/ (s = t /\ first <= m /\ m <= last)

Between(t, r, first) == {t} \X (r + 1 .. first - 1)

\* A run of numbers above all taken so far: what lies between is skipped anew.
LEMMA SkippedGrows ==
    ASSUME NEW A \in SUBSET Numbered, NEW B \in SUBSET Numbered, NEW t \in Threads,
           NEW first \in Nat, NEW last \in Nat, first <= last, AddsRun(B, A, t, first, last),
           NEW r \in Nat, r < first, Highest(r, t, A)
    PROVE  SkippedOf(B) = SkippedOf(A) \cup Between(t, r, first)
<1> USE DEF Highest, Between
<1>1. \A s \in Threads, m \in Nat : <<s, m>> \in B <=> <<s, m>> \in A \/ (s = t /\ first <= m /\ m <= last)
  BY DEF AddsRun
<1>2. B \in SUBSET Numbered
  OBVIOUS
<1>3. ASSUME NEW s \in Threads, NEW k \in Nat, s # t
      PROVE  <<s, k>> \in SkippedOf(B) <=> <<s, k>> \in SkippedOf(A)
  <2>1. \A m \in Nat : <<s, m>> \in B <=> <<s, m>> \in A
    BY <1>1, <1>3
  <2> QED BY <1>2, <2>1, SkippedOther
<1>4. ASSUME NEW k \in Nat, <<t, k>> \in SkippedOf(B)
      PROVE  <<t, k>> \in SkippedOf(A) \/ k \in r + 1 .. first - 1
  <2>1. <<t, k>> \notin B
    BY <1>2, <1>4, SkippedMeans
  <2>2. PICK m \in Nat, n \in Nat : <<t, m>> \in B /\ <<t, n>> \in B /\ m < k /\ k < n
    BY <1>2, <1>4, SkippedMeans
  <2>3. <<t, k>> \notin A /\ k < first
    BY <1>1, <2>1, <2>2
  <2>4. CASE k > r
    BY <2>3, <2>4
  <2>5. CASE k <= r
    <3>1. k < r /\ <<t, m>> \in A
      BY <1>1, <2>2, <2>3, <2>5
    <3>2. <<t, k>> \in SkippedOf(A)
      BY <2>2, <2>3, <3>1, SkippedMeans
    <3> QED BY <3>2
  <2> QED BY <2>4, <2>5
<1>5. ASSUME NEW k \in Nat, <<t, k>> \in SkippedOf(A) PROVE <<t, k>> \in SkippedOf(B)
  <2>1. <<t, k>> \notin A
    BY <1>5, SkippedMeans
  <2>2. PICK m \in Nat, n \in Nat : <<t, m>> \in A /\ <<t, n>> \in A /\ m < k /\ k < n
    BY <1>5, SkippedMeans
  <2>3. <<t, k>> \notin B /\ <<t, m>> \in B /\ <<t, n>> \in B
    BY <1>1, <2>1, <2>2
  <2> QED BY <1>2, <2>2, <2>3, SkippedMeans
<1>6. ASSUME NEW k \in r + 1 .. first - 1 PROVE <<t, k>> \in SkippedOf(B)
  <2>1. k \in Nat /\ r < k /\ k < first
    OBVIOUS
  <2>2. <<t, k>> \notin B /\ <<t, r>> \in B /\ <<t, first>> \in B
    BY <1>1, <2>1
  <2> QED BY <1>2, <2>1, <2>2, SkippedMeans
<1>7. \A k \in r + 1 .. first - 1 : k \in Nat
  OBVIOUS
<1>8. \A u \in SkippedOf(A) \cup SkippedOf(B) : u = <<u[1], u[2]>> /\ u[1] \in Threads /\ u[2] \in Nat
  BY DEF SkippedOf, Numbered
<1>9. SkippedOf(B) \subseteq SkippedOf(A) \cup ({t} \X (r + 1 .. first - 1))
  BY <1>3, <1>4, <1>8
<1>10. SkippedOf(A) \subseteq SkippedOf(B)
  BY <1>3, <1>5, <1>8
<1>11. {t} \X (r + 1 .. first - 1) \subseteq SkippedOf(B)
  BY <1>6
<1> QED BY <1>9, <1>10, <1>11

\* The first run of a thread leaves nothing skipped.
LEMMA SkippedStarts ==
    ASSUME NEW A \in SUBSET Numbered, NEW t \in Threads, NEW first \in Nat, NEW last \in Nat,
           A \cup ({t} \X (first .. last)) \in SUBSET Numbered,
           \A k \in Nat : <<t, k>> \notin A
    PROVE  SkippedOf(A \cup ({t} \X (first .. last))) = SkippedOf(A)
<1> DEFINE B == A \cup ({t} \X (first .. last))
<1>1. \A s \in Threads, m \in Nat : <<s, m>> \in B <=> <<s, m>> \in A \/ (s = t /\ first <= m /\ m <= last)
  OBVIOUS
<1>2. B \in SUBSET Numbered
  OBVIOUS
<1> HIDE DEF B
<1>3. ASSUME NEW s \in Threads, NEW k \in Nat, s # t
      PROVE  <<s, k>> \in SkippedOf(B) <=> <<s, k>> \in SkippedOf(A)
  <2>1. \A m \in Nat : <<s, m>> \in B <=> <<s, m>> \in A
    BY <1>1, <1>3
  <2> QED BY <1>2, <2>1, SkippedOther
<1>4. ASSUME NEW k \in Nat PROVE <<t, k>> \notin SkippedOf(B)
  <2> SUFFICES ASSUME <<t, k>> \in SkippedOf(B) PROVE FALSE
    OBVIOUS
  <2>1. <<t, k>> \notin B
    BY <1>2, SkippedMeans
  <2>2. PICK m \in Nat, n \in Nat : <<t, m>> \in B /\ <<t, n>> \in B /\ m < k /\ k < n
    BY <1>2, SkippedMeans
  <2> QED BY <1>1, <2>1, <2>2
<1>5. ASSUME NEW k \in Nat PROVE <<t, k>> \notin SkippedOf(A)
  <2> SUFFICES ASSUME <<t, k>> \in SkippedOf(A) PROVE FALSE
    OBVIOUS
  <2>1. \E m, n \in Nat : <<t, m>> \in A /\ <<t, n>> \in A /\ m < k /\ k < n
    BY SkippedMeans
  <2> QED BY <2>1
<1>6. \A u \in SkippedOf(A) \cup SkippedOf(B) : u = <<u[1], u[2]>> /\ u[1] \in Threads /\ u[2] \in Nat
  BY DEF SkippedOf, Numbered
<1>7. SkippedOf(B) = SkippedOf(A)
  BY <1>3, <1>4, <1>5, <1>6
<1> QED BY <1>7 DEF B

\* What sendmmsg took arrives: exactly the numbers between the last one seen
\* and the first of these are skipped anew, and the gap rule counts them.
LEMMA TransmitDrops ==
    ASSUME IInv, IInv', DropInv, NEW t \in Threads, Transmit(t)
    PROVE  DropInv'
<1>1. PICK n \in 0..Batch : SendMmsg(t, n) /\ Arrive(t, seq[t] - Batch, n)
  BY DEF Transmit
<1>2. /\ proto = "udp" /\ proto' = "udp" /\ tpc[t] = "send" /\ seq' = seq
      /\ accepted' = accepted \cup ({t} \X (seq[t] - Batch .. seq[t] - Batch + n - 1))
  BY <1>1 DEF SendMmsg, Take, mainVars
<1>3. PICK first \in Nat : first = seq[t] - Batch
  <2>1. seq[t] \in Nat /\ Batch \in Nat
    BY ClientAssumption DEF IInv, TypeOK
  <2>2. seq[t] >= Batch
    BY <1>2 DEF IInv, ThreadInv
  <2> QED BY <2>1, <2>2
<1>4. \A u \in accepted : u[1] = t => u[2] < first
  BY <1>2, <1>3 DEF IInv, ThreadInv
<1>5. TypeOK /\ (\A s \in Threads : seq'[s] <= MaxSeq) /\ accepted \in SUBSET Numbered /\ accepted' \in SUBSET Numbered
  <2>1. TypeOK /\ TypeOK' /\ (\A s \in Threads : seq[s] <= MaxSeq /\ seq'[s] <= MaxSeq)
    BY <1>2 DEF IInv, DropInv
  <2>2. ASSUME NEW u \in accepted PROVE u \in Numbered
    <3>1. u \in Threads \X Nat /\ u[2] < seq[u[1]] /\ seq[u[1]] <= MaxSeq /\ seq[u[1]] \in Nat
      BY <2>1 DEF TypeOK
    <3> QED BY <3>1, ClientAssumption DEF Numbered
  <2>3. ASSUME NEW u \in accepted' PROVE u \in Numbered
    <3>1. u \in Threads \X Nat /\ u[2] < seq'[u[1]] /\ seq'[u[1]] <= MaxSeq /\ seq'[u[1]] \in Nat
      BY <2>1 DEF TypeOK
    <3> QED BY <3>1, ClientAssumption DEF Numbered
  <2> QED BY <2>1, <2>2, <2>3
<1>6. CASE n = 0
  <2>1. accepted' = accepted
    BY <1>2, <1>3, <1>6
  <2>2. UNCHANGED udpVars
    BY <1>1, <1>6 DEF Arrive
  <2>3. Skipped' = Skipped
    BY <2>1 DEF Skipped
  <2> QED BY <1>2, <2>1, <2>2, <2>3 DEF DropInv, udpVars
<1>7. CASE n # 0
  <2>1. PICK last \in Nat : last = first + n - 1 /\ first <= last
    BY <1>7
  <2>2. accepted' = accepted \cup ({t} \X (first .. last))
    BY <1>2, <1>3, <2>1
  <2>3. rxDrops' = rxDrops + Gap(rxLast, t, first) /\ rxLast' = LastSeqInsert(rxLast, t, last)
    BY <1>1, <1>3, <1>7, <2>1 DEF Arrive
  <2>4. /\ DOMAIN rxLast' = DOMAIN rxLast \cup {t} /\ rxLast'[t] = last
        /\ \A s \in DOMAIN rxLast : s # t => rxLast'[s] = rxLast[s]
    BY <2>3 DEF LastSeqInsert
  <2>5. /\ DOMAIN rxLast' \subseteq Threads
        /\ \A s \in DOMAIN rxLast' : <<s, rxLast'[s]>> \in accepted'
    BY <1>2, <2>1, <2>2, <2>4 DEF DropInv
  <2>6. \A u \in accepted' : u[1] \in DOMAIN rxLast' /\ u[2] <= rxLast'[u[1]]
    <3>1. ASSUME NEW u \in accepted PROVE u[1] \in DOMAIN rxLast' /\ u[2] <= rxLast'[u[1]]
      <4>1. u[1] \in DOMAIN rxLast /\ u[2] <= rxLast[u[1]] /\ u[2] \in Nat
        BY <1>2, <1>5 DEF DropInv, TypeOK
      <4>2. CASE u[1] = t
        BY <1>4, <2>1, <2>4, <4>1, <4>2
      <4>3. CASE u[1] # t
        BY <2>4, <4>1, <4>3
      <4> QED BY <4>2, <4>3
    <3>2. ASSUME NEW u \in {t} \X (first .. last) PROVE u[1] \in DOMAIN rxLast' /\ u[2] <= rxLast'[u[1]]
      BY <2>1, <2>4
    <3> QED BY <2>2, <3>1, <3>2
  <2>7. rxDrops' = Cardinality(Skipped')
    <3>1. Skipped = SkippedOf(accepted) /\ Skipped' = SkippedOf(accepted')
      BY DEF Skipped, SkippedOf, Numbered
    <3>2. rxDrops = Cardinality(SkippedOf(accepted)) /\ rxDrops \in Nat
      BY <1>2, <3>1, SkippedFinite, FS_CardinalityType DEF DropInv
    <3>3. CASE t \notin DOMAIN rxLast
      <4>1. \A k \in Nat : <<t, k>> \notin accepted
        BY <1>2, <3>3 DEF DropInv
      <4>2. SkippedOf(accepted') = SkippedOf(accepted)
        BY <1>5, <2>2, <4>1, SkippedStarts
      <4>3. rxDrops' = rxDrops
        BY <2>3, <3>2, <3>3 DEF Gap
      <4> QED BY <3>1, <3>2, <4>2, <4>3
    <3>4. CASE t \in DOMAIN rxLast
      <4>1. PICK r \in Nat : r = rxLast[t] /\ <<t, r>> \in accepted
        <5>1. <<t, rxLast[t]>> \in accepted
          BY <1>2, <3>4 DEF DropInv
        <5>2. rxLast[t] \in 0 .. MaxSeq - 1
          BY <1>5, <5>1 DEF Numbered
        <5> QED BY <5>1, <5>2
      <4>2. r < first /\ \A k \in Nat : <<t, k>> \in accepted => k <= r
        BY <1>2, <1>4, <4>1 DEF DropInv
      <4>3. SkippedOf(accepted') = SkippedOf(accepted) \cup ({t} \X (r + 1 .. first - 1))
        <5>1. first <= last /\ r < first
          BY <2>1, <4>2
        <5>2. AddsRun(accepted', accepted, t, first, last)
          BY <2>2 DEF AddsRun
        <5>3. Highest(r, t, accepted)
          BY <4>1, <4>2 DEF Highest
        <5>4. accepted \in SUBSET Numbered /\ accepted' \in SUBSET Numbered
          BY <1>5
        <5>5. SkippedOf(accepted') = SkippedOf(accepted) \cup Between(t, r, first)
          BY <5>1, <5>2, <5>3, <5>4, SkippedGrows
        <5> QED BY <5>5 DEF Between
      <4>4. rxDrops' = rxDrops + (first - r - 1)
        BY <2>3, <3>2, <3>4, <4>1, <4>2 DEF Gap
      <4>5. IsFiniteSet(r + 1 .. first - 1) /\ Cardinality(r + 1 .. first - 1) = first - r - 1
        BY <4>2, FS_Interval
      <4>6. SkippedOf(accepted) \cap ({t} \X (r + 1 .. first - 1)) = {}
        <5> SUFFICES ASSUME NEW k \in r + 1 .. first - 1 PROVE <<t, k>> \notin SkippedOf(accepted)
          OBVIOUS
        <5>1. k \in Nat /\ r < k
          OBVIOUS
        <5>2. SUFFICES ASSUME <<t, k>> \in SkippedOf(accepted) PROVE FALSE
          OBVIOUS
        <5>3. PICK m \in Nat, l \in Nat : <<t, l>> \in accepted /\ k < l
          BY <1>5, <5>1, <5>2, SkippedMeans
        <5> QED BY <4>2, <5>1, <5>3
      <4>7. Cardinality(SkippedOf(accepted) \cup ({t} \X (r + 1 .. first - 1)))
              = Cardinality(SkippedOf(accepted)) + Cardinality(r + 1 .. first - 1)
        BY <4>5, <4>6, SkippedFinite, FreshUnits
      <4> QED BY <3>1, <3>2, <4>3, <4>4, <4>5, <4>7
    <3> QED BY <3>3, <3>4
  <2> QED BY <1>2, <1>5, <2>5, <2>6, <2>7 DEF DropInv
<1> QED BY <1>6, <1>7

\* Only a batch or datagram the kernel takes changes what is skipped.
LEMMA NextDropInv ==
    ASSUME IInv, IInv', DropInv, [SessionNext]_sessionVars
    PROVE  DropInv'
<1>1. CASE \E t \in Threads : Transmit(t)
  BY <1>1, TransmitDrops
<1>2. CASE ~ \E t \in Threads : Transmit(t)
  <2>1. UNCHANGED <<rxLast, rxDrops, proto>>
    <3>1. CASE Senders
      <4>1. PICK t \in Threads : Sender(t)
        BY <3>1 DEF Senders
      <4> QED BY <1>2, <4>1 DEF Sender, UdpOpen, Open, Connect, ConnectFails, TcpSend, Write,
            TcpSendFails, WriteFails, Internal, Stop, Stamp, EnterWrite, CountPackets, PacketsBecome,
            CountBytes, BytesBecome, Pace, udpVars, mainVars
    <3>2. CASE Readers
      BY <3>2 DEF Readers, Reader, Accept, Read, CountRead, CountReadAs, ReadEnds, udpVars,
                  vars, mainVars
    <3>3. CASE Report \/ Return \/ Deadline
      BY <3>3 DEF Report, Reporter, RepCheck, RepLoadBytes, RepLoadPackets, Return, Main, JoinSenders,
          JoinWhen, ClearRun, StopReporter, Summarise, Deadline, Expire, mainVars, udpVars
    <3>4. CASE Listen \/ Exit \/ Hang \/ Finished \/ UNCHANGED sessionVars
      BY <3>4 DEF Listen, Exit, Hang, Finished, sessionVars, vars, mainVars, udpVars
    <3> QED BY <3>1, <3>2, <3>3, <3>4 DEF SessionNext
  <2>2. proto = "udp" => accepted' = accepted /\ \A s \in Threads : seq[s] <= MaxSeq => seq'[s] <= MaxSeq
    <3>1. CASE Senders
      <4>1. PICK t \in Threads : Sender(t)
        BY <3>1 DEF Senders
      <4>2. CASE \E s \in Threads : Stamp(s)
        BY <4>2 DEF Stamp, IInv, TypeOK
      <4>3. CASE ~ \E s \in Threads : Stamp(s)
        BY <1>2, <4>1, <4>3 DEF Sender, UdpOpen, Open, Connect, ConnectFails, TcpSend, Write,
            TcpSendFails, WriteFails, Internal, Stop, EnterWrite, CountPackets, PacketsBecome,
            CountBytes, BytesBecome, Pace
      <4> QED BY <4>2, <4>3
    <3>2. CASE Readers
      BY <3>2 DEF Readers, Reader, Accept, Read, CountRead, CountReadAs, ReadEnds, vars, senderVars
    <3>3. CASE Report \/ Return \/ Deadline
      BY <3>3 DEF Report, Reporter, RepCheck, RepLoadBytes, RepLoadPackets, Return, Main, JoinSenders,
          JoinWhen, ClearRun, StopReporter, Summarise, Deadline, Expire, senderVars
    <3>4. CASE Listen \/ Exit \/ Hang \/ Finished \/ UNCHANGED sessionVars
      BY <3>4 DEF Listen, Exit, Hang, Finished, sessionVars, vars, senderVars
    <3> QED BY <3>1, <3>2, <3>3, <3>4 DEF SessionNext
  <2>3. proto = "udp" => Skipped' = Skipped
    BY <2>2 DEF Skipped
  <2> QED BY <2>1, <2>2, <2>3 DEF DropInv
<1> QED BY <1>1, <1>2

\* Over a network that loses nothing, the loss the receiver reports is what
\* sendmmsg did not take between two datagrams it took, for every number of
\* threads, batch size and length of the run (net.rs:351-363 with 463-467).
THEOREM DropsAreWhatWasNotSent == SessionSpec => []DropsAreUnsent
<1>1. IInv /\ DropInv /\ [SessionNext]_sessionVars => IInv' /\ DropInv'
  BY SessionStep, NextIInv, NextDropInv
<1>2. SessionInit => IInv /\ DropInv
  BY InitIInv, InitDropInv DEF SessionInit
<1>3. DropInv => DropsAreUnsent
  BY DEF DropInv, DropsAreUnsent
<1> QED BY <1>1, <1>2, <1>3, PTL DEF SessionSpec

-----------------------------------------------------------------------------
(* The end of the client.                                                   *)

\* A server that has exited has reset its connections.
ServerInv ==
    /\ server \in {"binding", "serving", "exited", "hung"}
    /\ server = "exited" => \A t \in Threads : conn[t] \notin {"queued", "open"}

\* No connection is made with a server that exited, and Exit resets them all.
LEMMA NextServer == SInv /\ ServerInv /\ [SessionNext]_sessionVars => ServerInv'
<1> SUFFICES ASSUME SInv, ServerInv, [SessionNext]_sessionVars PROVE ServerInv'
  OBVIOUS
<1> USE DEF ServerInv
<1>1. conn \in [Threads -> {"none", "queued", "open", "reset", "ended"}]
  BY DEF SInv, TcpTypes
<1>2. ASSUME NEW t \in Threads, Sender(t) PROVE ServerInv'
  <2>1. CASE Connect(t)
    BY <2>1 DEF Connect
  <2>2. CASE ~Connect(t)
    <3>1. UNCHANGED tcpVars
      BY <1>2, <2>2 DEF Sender, UdpOpen, Transmit, ConnectFails, TcpSend, TcpSendFails, Internal
    <3> QED BY <3>1 DEF tcpVars
  <2> QED BY <2>1, <2>2
<1>3. ASSUME NEW t \in Threads, Reader(t) PROVE ServerInv'
  BY <1>3 DEF Reader, Accept, Read, CountRead, CountReadAs, ReadEnds, Alive
<1>4. CASE Listen \/ Hang
  BY <1>4 DEF Listen, Hang
<1>5. CASE Exit
  <2>1. server' = "exited" /\ conn' = ResetAll
    BY <1>5 DEF Exit
  <2> QED BY <1>1, <2>1 DEF ResetAll
<1>6. CASE Report \/ Return \/ Deadline \/ Finished \/ UNCHANGED sessionVars
  <2>1. UNCHANGED tcpVars
    BY <1>6 DEF Report, Return, Deadline, Finished, sessionVars
  <2> QED BY <2>1 DEF tcpVars
<1> QED BY <1>2, <1>3, <1>4, <1>5, <1>6 DEF SessionNext, Senders, Readers

\* A write that finds no room ends with a reset, waits for a server that hangs,
\* or has a reader that makes room, for every number of threads and listeners
\* and every size of the window (net.rs:196-217, 264-272): no thread waits for
\* another that waits for it.
THEOREM BlockedWriterHasReader == SessionSpec => []WriterHasReader
<1>1. SessionInit => ServerInv
  BY DEF SessionInit, ServerInv
<1>2. SInv /\ ServerInv => WriterHasReader
  <2> SUFFICES ASSUME SInv, ServerInv, NEW t \in Threads,
                      proto = "tcp", tpc[t] = "send", Unread(t) = Window
               PROVE  \/ conn[t] = "reset"
                      \/ server = "hung"
                      \/ Alive /\ (conn[t] = "queued" \/ (conn[t] = "open" /\ Unread(t) > 0))
    BY DEF WriterHasReader
  <2>1. conn[t] \in {"queued", "open", "reset"}
    BY DEF SInv, TcpTypes, StreamInv
  <2>2. Unread(t) > 0
    BY SessionAssumption
  <2> QED BY <2>1, <2>2 DEF ServerInv, Alive
<1>3. SessionSpec => []SInv
  BY InitSInv, NextSInv, PTL DEF SessionSpec
<1> QED BY <1>1, <1>2, <1>3, NextServer, PTL DEF SessionSpec

\* What ThreadsWindDown says of a step.
SendersDown == \A t \in Threads :
    tpc'[t] = tpc[t] \/ SenderLeft[tpc'[t]] < SenderLeft[tpc[t]]
ReporterDown == rpc' = rpc \/ ReporterLeft[rpc'] < ReporterLeft[rpc]
MainDown == mpc' = mpc \/ MainLeft[mpc'] < MainLeft[mpc]
Down == (expired => SendersDown) /\ (~run => ReporterDown) /\ MainDown

\* A sender goes to a label with fewer steps left; the other threads stay.
LEMMA GotoDown ==
    ASSUME IInv, NEW t \in Threads, NEW label, Goto(t, label), UNCHANGED <<rpc, mpc>>,
           expired => SenderLeft[label] < SenderLeft[tpc[t]]
    PROVE  Down
<1>1. DOMAIN tpc = Threads
  BY DEF IInv, TypeOK
<1>2. tpc'[t] = label /\ \A s \in Threads : s # t => tpc'[s] = tpc[s]
  BY <1>1 DEF Goto
<1>3. ASSUME expired PROVE SendersDown
  <2> SUFFICES ASSUME NEW s \in Threads PROVE tpc'[s] = tpc[s] \/ SenderLeft[tpc'[s]] < SenderLeft[tpc[s]]
    BY DEF SendersDown
  <2>1. CASE s = t
    BY <1>2, <1>3, <2>1
  <2>2. CASE s # t
    BY <1>2, <2>2
  <2> QED BY <2>1, <2>2
<1> QED BY <1>3 DEF Down, ReporterDown, MainDown

\* Every action of a sender is such a step.
LEMMA SenderDown ==
    ASSUME IInv, NEW t \in Threads,
           \/ \E next \in {"head", "done"} : Open(t, next)
           \/ \E n \in 0..Batch : SendMmsg(t, n) \/ Write(t, n)
           \/ Stop(t) \/ Stamp(t) \/ EnterWrite(t) \/ WriteFails(t)
           \/ CountPackets(t) \/ CountBytes(t) \/ Pace(t)
    PROVE  Down
<1> DEFINE Step(from, to) == tpc[t] = from /\ Goto(t, to) /\ UNCHANGED <<rpc, mpc>>
<1>1. /\ SenderLeft["send"] = 5 /\ SenderLeft["packets"] = 4 /\ SenderLeft["bytes"] = 3
      /\ SenderLeft["pace"] = 2 /\ SenderLeft["start"] = 2 /\ SenderLeft["head"] = 1
      /\ SenderLeft["done"] = 0
  BY DEF SenderLeft
<1>2. ASSUME NEW from, NEW to, Step(from, to), expired => SenderLeft[to] < SenderLeft[from]
      PROVE  Down
  BY <1>2, GotoDown
<1>3. ASSUME NEW next \in {"head", "done"}, Open(t, next) PROVE Down
  <2>1. Step("start", next)
    BY <1>3 DEF Open, reporterVars, mainVars
  <2>2. SenderLeft[next] < SenderLeft["start"]
    BY <1>1
  <2> HIDE DEF Step
  <2> QED BY <1>2, <2>1, <2>2
<1>4. ASSUME NEW n \in 0..Batch, SendMmsg(t, n) PROVE Down
  <2>1. Step("send", IF n > 0 THEN "packets" ELSE "pace")
    BY <1>4 DEF SendMmsg, reporterVars, mainVars
  <2>2. SenderLeft[IF n > 0 THEN "packets" ELSE "pace"] < SenderLeft["send"]
    BY <1>1
  <2> HIDE DEF Step
  <2> QED BY <1>2, <2>1, <2>2
<1>5. ASSUME NEW n \in 0..Batch, Write(t, n) PROVE Down
  <2>1. Step("send", "bytes")
    BY <1>5 DEF Write, reporterVars, mainVars
  <2>2. SenderLeft["bytes"] < SenderLeft["send"]
    BY <1>1
  <2> HIDE DEF Step
  <2> QED BY <1>2, <2>1, <2>2
<1>6. CASE Stop(t)
  <2>1. Step("head", "done")
    BY <1>6 DEF Stop, reporterVars, mainVars
  <2>2. SenderLeft["done"] < SenderLeft["head"]
    BY <1>1
  <2> HIDE DEF Step
  <2> QED BY <1>2, <2>1, <2>2
<1>7. CASE Stamp(t) \/ EnterWrite(t)
  <2>1. Step("head", "send") /\ ~expired
    BY <1>7 DEF Stamp, EnterWrite, reporterVars, mainVars
  <2> HIDE DEF Step
  <2> QED BY <1>2, <2>1
<1>8. CASE WriteFails(t)
  <2>1. Step("send", "done")
    BY <1>8 DEF WriteFails, reporterVars, mainVars
  <2>2. SenderLeft["done"] < SenderLeft["send"]
    BY <1>1
  <2> HIDE DEF Step
  <2> QED BY <1>2, <2>1, <2>2
<1>9. CASE CountPackets(t)
  <2>1. Step("packets", "bytes")
    BY <1>9 DEF CountPackets, PacketsBecome, reporterVars, mainVars
  <2>2. SenderLeft["bytes"] < SenderLeft["packets"]
    BY <1>1
  <2> HIDE DEF Step
  <2> QED BY <1>2, <2>1, <2>2
<1>10. CASE CountBytes(t)
  <2>1. Step("bytes", IF proto = "udp" THEN "pace" ELSE "head")
    BY <1>10 DEF CountBytes, BytesBecome, reporterVars, mainVars
  <2>2. SenderLeft[IF proto = "udp" THEN "pace" ELSE "head"] < SenderLeft["bytes"]
    BY <1>1
  <2> HIDE DEF Step
  <2> QED BY <1>2, <2>1, <2>2
<1>11. CASE Pace(t)
  <2>1. Step("pace", "head")
    BY <1>11 DEF Pace, reporterVars, mainVars
  <2>2. SenderLeft["head"] < SenderLeft["pace"]
    BY <1>1
  <2> HIDE DEF Step
  <2> QED BY <1>2, <2>1, <2>2
<1> QED BY <1>3, <1>4, <1>5, <1>6, <1>7, <1>8, <1>9, <1>10, <1>11

\* So is every action of the reporter after run was cleared.
LEMMA ReporterStepDown == Reporter => Down
<1> SUFFICES ASSUME Reporter PROVE Down
  OBVIOUS
<1>1. /\ ReporterLeft["asleep"] = 3 /\ ReporterLeft["loaded"] = 2 /\ ReporterLeft["check"] = 1
      /\ ReporterLeft["done"] = 0
  BY DEF ReporterLeft
<1>2. tpc' = tpc /\ mpc' = mpc
  BY DEF Reporter, RepCheck, RepLoadBytes, RepLoadPackets, senderVars, mainVars
<1>3. ~run => \/ rpc = "check" /\ rpc' = "done"
              \/ rpc = "asleep" /\ rpc' = "loaded"
              \/ rpc = "loaded" /\ rpc' = "check"
  BY DEF Reporter, RepCheck, RepLoadBytes, RepLoadPackets
<1>4. ~run => ReporterDown
  BY <1>1, <1>3 DEF ReporterDown
<1> QED BY <1>2, <1>4 DEF Down, SendersDown, MainDown

\* And every action of the main thread, whenever.
LEMMA MainStepDown == Main \/ Expire => Down
<1> SUFFICES ASSUME Main \/ Expire PROVE Down
  OBVIOUS
<1>1. MainLeft["join"] = 3 /\ MainLeft["stop"] = 2 /\ MainLeft["report"] = 1 /\ MainLeft["done"] = 0
  BY DEF MainLeft
<1>2. tpc' = tpc /\ rpc' = rpc
  BY DEF Main, JoinSenders, JoinWhen, ClearRun, StopReporter, Summarise, Expire,
         senderVars, reporterVars
<1>3. \/ mpc = "join" /\ mpc' = "stop"
      \/ mpc = "stop" /\ mpc' = "report"
      \/ mpc = "report" /\ mpc' = "done"
      \/ mpc' = mpc
  BY DEF Main, JoinSenders, JoinWhen, ClearRun, StopReporter, Summarise, Expire
<1>4. MainDown
  BY <1>1, <1>3 DEF MainDown
<1> QED BY <1>2, <1>4 DEF Down, SendersDown, ReporterDown

\* After the deadline a sender takes at most five more steps, and one in a write
\* or sendmmsg the most of them; after run is cleared the reporter takes at most
\* three, its last sleep included; the main thread never goes back
\* (net.rs:51-63, 264, 277-278, 349, 379-380).  With WriterHasReader this is the
\* safety half of ClientEnds.
THEOREM AllThreadsWindDown == SessionSpec => ThreadsWindDown
<1>1. IInv /\ Next => Down
  BY SenderDown, ReporterStepDown, MainStepDown DEF Next
<1>2. UNCHANGED vars => Down
  BY DEF vars, senderVars, reporterVars, mainVars, Down, SendersDown, ReporterDown, MainDown
<1>3. IInv /\ [SessionNext]_sessionVars => [Down]_sessionVars
  BY <1>1, <1>2, SessionStep
<1>4. SessionSpec => []IInv
  BY SessionIsClient, Invariant, PTL
<1> QED BY <1>3, <1>4, PTL DEF SessionSpec, ThreadsWindDown, Down, SendersDown, ReporterDown, MainDown
=============================================================================
