-------------------------- MODULE FramePathProofs --------------------------
(***************************************************************************)
(* The launch, the first frame and the vector copy, for every command line *)
(* and every length: what Launch, FramePath and SimdCopy promise.          *)
(***************************************************************************)
EXTENDS FramePath, FiniteSetTheorems, SequenceTheorems, WellFoundedInduction, TLAPS

(* Induction over the naturals, from the well-foundedness of <.             *)

\* A non-empty set of naturals has a least member.
LEMMA NatMin == ASSUME NEW T, T \subseteq Nat, T # {} PROVE \E m \in T : \A n \in T : m <= n
<1> DEFINE R == {ss \in Nat \X Nat : ss[1] < ss[2]}
<1>1. IsWellFoundedOn(R, Nat)
  BY NatLessThanWellFounded DEF OpToRel
<1>2. \E m \in T : \A n \in T : ~(<<n, m>> \in R)
  <2> HIDE DEF R
  <2> QED BY <1>1, WFMin, Zenon
<1>3. \A m, n \in Nat : n < m => <<n, m>> \in R
  OBVIOUS
<1> HIDE DEF R
<1>4. PICK m \in T : \A n \in T : ~(<<n, m>> \in R)
  BY <1>2
<1>5. ASSUME NEW n \in T PROVE m <= n
  <2>1. ~(<<n, m>> \in R)
    BY <1>4
  <2>2. m \in Nat /\ n \in Nat
    OBVIOUS
  <2>3. ~(n < m)
    BY <1>3, <2>1, <2>2, Zenon
  <2> QED BY <2>2, <2>3
<1> QED BY <1>5

\* A set of naturals that has 0 and the successor of each of its members has all.
LEMMA NatInd == ASSUME NEW T, 0 \in T, \A n \in Nat : n \in T => n + 1 \in T PROVE Nat \subseteq T
<1> DEFINE B == {n \in Nat : n \notin T}
<1> SUFFICES ASSUME B # {} PROVE FALSE
  OBVIOUS
<1>1. PICK m \in B : \A n \in B : m <= n
  BY NatMin
<1>2. m # 0 /\ m \in Nat
  OBVIOUS
<1>3. m - 1 \in Nat /\ m - 1 \notin B
  BY <1>1, <1>2
<1>4. m - 1 + 1 \in T
  BY <1>3
<1> QED BY <1>2, <1>4

-----------------------------------------------------------------------------
(* FlattenSeq of a sequence of sequences over S is a sequence over S.        *)

Accumulates(f, n, ss) ==
    f = [i \in 1..n |-> IF i = 1 THEN ss[i] ELSE f[i - 1] \o ss[i]]

\* The recursive function FlattenSeq chooses exists, for every length.
LEMMA Accumulator == 
   ASSUME NEW ss PROVE \A n \in Nat : \E f : Accumulates(f, n, ss)
<1> DEFINE T == {n \in Nat : \E f : Accumulates(f, n, ss)}
<1>1. 0 \in T
  <2>1. \A f : [i \in 1..0 |-> IF i = 1 THEN ss[i] ELSE f[i - 1] \o ss[i]] = [i \in 1..0 |-> 0]
    OBVIOUS
  <2> QED BY <2>1 DEF Accumulates
<1>2. ASSUME NEW n \in Nat, n \in T PROVE n + 1 \in T
  <2>1. PICK f : Accumulates(f, n, ss)
    BY <1>2
  <2> DEFINE g == [i \in 1 .. n + 1 |-> IF i = n + 1 THEN (IF i = 1 THEN ss[i] ELSE f[i - 1] \o ss[i]) ELSE f[i]]
  <2>2. ASSUME NEW i \in 1 .. n + 1 PROVE g[i] = IF i = 1 THEN ss[i] ELSE g[i - 1] \o ss[i]
    <3>1. CASE i = n + 1
      <4>1. CASE i = 1
         BY <3>1, <4>1
      <4>2. CASE i # 1
        <5>1. i - 1 \in 1 .. n + 1 /\ i - 1 # n + 1
          BY <3>1, <4>2
        <5>2. g[i - 1] = f[i - 1]
          BY <5>1
        <5> QED BY <3>1, <4>2, <5>2
      <4> QED BY <4>1, <4>2
    <3>2. CASE i # n + 1
      <4>1. i \in 1..n
        BY <3>2
      <4>2. f[i] = IF i = 1 THEN ss[i] ELSE f[i - 1] \o ss[i]
        BY <2>1, <4>1 DEF Accumulates
      <4>3. CASE i = 1
         BY <3>2, <4>2, <4>3
      <4>4. CASE i # 1
        <5>1. i - 1 \in 1 .. n + 1 /\ i - 1 # n + 1
          BY <4>1, <4>4
        <5>2. g[i - 1] = f[i - 1]
          BY <5>1
        <5> QED BY <3>2, <4>2, <4>4, <5>2
      <4> QED BY <4>3, <4>4
    <3> QED BY <3>1, <3>2
  <2>3. g = [i \in 1 .. n + 1 |-> g[i]]
    OBVIOUS
  <2> HIDE DEF g
  <2>4. Accumulates(g, n + 1, ss)
    BY <2>2, <2>3 DEF Accumulates
  <2> QED BY <2>4
<1> HIDE DEF T
<1>3. Nat \subseteq T
  BY <1>1, <1>2, NatInd
<1> QED BY <1>3 DEF T

\* What it accumulates from sequences over S is a sequence over S.
LEMMA AccumulatesSeq ==
   ASSUME NEW S, NEW ss, NEW m \in Nat, \A i \in 1..m : ss[i] \in Seq(S),
          NEW f, Accumulates(f, m, ss)
   PROVE  \A i \in 1..m : f[i] \in Seq(S)
<1> DEFINE T == {n \in Nat : n \in 1..m => f[n] \in Seq(S)}
<1>1. 0 \in T
  OBVIOUS
<1>2. ASSUME NEW n \in Nat, n \in T PROVE n + 1 \in T
  <2> SUFFICES ASSUME n + 1 \in 1..m PROVE f[n + 1] \in Seq(S)
    OBVIOUS
  <2>1. ss[n + 1] \in Seq(S)
    OBVIOUS
  <2>2. CASE n = 0
    <3>1. f[n + 1] = ss[n + 1]
      BY <2>2 DEF Accumulates
    <3> QED BY <2>1, <3>1
  <2>3. CASE n # 0
    <3>1. n \in 1..m
      BY <2>3
    <3>2. f[n] \in Seq(S)
      BY <1>2, <3>1
    <3>3. n + 1 # 1 /\ (n + 1) - 1 = n
      BY <2>3
    <3>4. \A i \in 1..m : i # 1 => f[i] = f[i - 1] \o ss[i]
      BY DEF Accumulates
    <3>5. f[n + 1] = f[n] \o ss[n + 1]
      BY <3>3, <3>4
    <3> QED BY <2>1, <3>2, <3>5
  <2> QED BY <2>2, <2>3
<1> HIDE DEF T
<1>3. Nat \subseteq T
  BY <1>1, <1>2, NatInd
<1> QED BY <1>3 DEF T

\* So the CPUs of a list of ranges are a list of CPUs (affinity.rs).
LEMMA FlattenSeqType ==
   ASSUME NEW S, NEW ss \in Seq(Seq(S))
   PROVE  FlattenSeq(ss) \in Seq(S)
<1>1. CASE Len(ss) = 0
  BY <1>1 DEF FlattenSeq
<1>2. CASE Len(ss) # 0
  <2> DEFINE flatten == CHOOSE f : Accumulates(f, Len(ss), ss)
  <2>1. FlattenSeq(ss) = flatten[Len(ss)]
    BY <1>2 DEF FlattenSeq, Accumulates
  <2>2. PICK m \in Nat : m = Len(ss)
    OBVIOUS
  <2>3. \E f : Accumulates(f, Len(ss), ss)
    BY <2>2, Accumulator, Zenon
  <2>4. Accumulates(flatten, m, ss)
    BY <2>2, <2>3
  <2> HIDE DEF flatten
  <2>5. \A i \in 1..m : ss[i] \in Seq(S)
    BY <2>2
  <2>6. m \in 1..m
    BY <1>2, <2>2
  <2>7. \A i \in 1..m : flatten[i] \in Seq(S)
    BY <2>4, <2>5, AccumulatesSeq
  <2> QED BY <2>1, <2>2, <2>6, <2>7
<1> QED BY <1>1, <1>2

-----------------------------------------------------------------------------
(* The copy.                                                                *)

\* Offset i of the source at offset i of the destination, for the first n.
Diagonal(n) == {<<i, i>> : i \in 0 .. n - 1}

\* The two pointers move together, what is left is what they have not passed,
\* and everything behind them has been stored.
CopyInv ==
    /\ cpc \in {"idle", "blocks", "tail", "bytes", "done"}
    /\ length \in Nat /\ dst \in Nat /\ src \in Nat /\ left \in Nat
    /\ src = dst /\ dst + left = length
    /\ stored = Diagonal(IF cpc = "done" THEN length ELSE dst)

\* A block stored at the end of the diagonal makes it longer.
LEMMA DiagonalGrows ==
    ASSUME NEW m \in Nat, NEW n \in Nat
    PROVE  Diagonal(m) \cup {<<m + i, m + i>> : i \in 0 .. n - 1} = Diagonal(m + n)
<1> DEFINE New == {<<m + i, m + i>> : i \in 0 .. n - 1}
<1>1. ASSUME NEW p \in New PROVE p \in Diagonal(m + n)
  <2>1. PICK i \in 0 .. n - 1 : p = <<m + i, m + i>>
    BY <1>1
  <2>2. m + i \in 0 .. m + n - 1
    OBVIOUS
  <2> QED BY <2>1, <2>2 DEF Diagonal
<1>2. ASSUME NEW p \in Diagonal(m) PROVE p \in Diagonal(m + n)
  <2>1. PICK i \in 0 .. m - 1 : p = <<i, i>>
    BY <1>2 DEF Diagonal
  <2>2. i \in 0 .. m + n - 1
    OBVIOUS
  <2> QED BY <2>1, <2>2 DEF Diagonal
<1>3. ASSUME NEW p \in Diagonal(m + n) PROVE p \in Diagonal(m) \cup New
  <2>1. PICK i \in 0 .. m + n - 1 : p = <<i, i>>
    BY <1>3 DEF Diagonal
  <2>2. CASE i < m
    <3>1. i \in 0 .. m - 1
      BY <2>2
    <3> QED BY <2>1, <3>1 DEF Diagonal
  <2>3. CASE i >= m
    <3>1. i - m \in 0 .. n - 1 /\ m + (i - m) = i
      BY <2>3
    <3> QED BY <2>1, <3>1
  <2> QED BY <2>2, <2>3
<1> QED BY <1>1, <1>2, <1>3

\* CopyInv is inductive.
LEMMA InitCopyInv == CopyInit => CopyInv
BY DEF CopyInit, CopyInv, Diagonal

LEMMA NextCopyInv == CopyInv /\ [CopyBegin \/ CopyStep]_copyVars => CopyInv'
<1> SUFFICES ASSUME CopyInv, [CopyBegin \/ CopyStep]_copyVars PROVE CopyInv'
  OBVIOUS
<1>1. CASE CopyBegin
  <2>1. Diagonal(0) = {}
    BY DEF Diagonal
  <2> QED BY <1>1, <2>1 DEF CopyBegin, CopyStart, CopyInv
<1>2. ASSUME NEW n \in Nat, cpc # "done", n <= left, Block(n), cpc' \in {"blocks", "bytes"}
      PROVE  CopyInv'
  <2>1. stored' = Diagonal(dst + n)
    <3>1. stored' = Diagonal(dst) \cup {<<dst + i, dst + i>> : i \in 0 .. n - 1}
      BY <1>2 DEF Block, CopyInv
    <3> QED BY <3>1, DiagonalGrows DEF CopyInv
  <2> QED BY <1>2, <2>1 DEF Block, CopyInv
<1>3. CASE CopyBlock
  BY <1>2, <1>3 DEF CopyBlock, Width
<1>4. CASE CopyTail
  BY <1>2, <1>4 DEF CopyTail
<1>5. CASE CopyBlocksEnd \/ CopyNoTail
  BY <1>5 DEF CopyBlocksEnd, CopyNoTail, CopyInv
<1>6. CASE CopyBytes
  <2>1. stored' = Diagonal(dst + left)
    <3>1. stored' = Diagonal(dst) \cup {<<dst + i, dst + i>> : i \in 0 .. left - 1}
      BY <1>6 DEF CopyBytes, CopyInv
    <3> QED BY <3>1, DiagonalGrows DEF CopyInv
  <2> QED BY <1>6, <2>1 DEF CopyBytes, CopyInv
<1>7. CASE UNCHANGED copyVars
  BY <1>7 DEF copyVars, CopyInv
<1> QED BY <1>1, <1>3, <1>4, <1>5, <1>6, <1>7 DEF CopyStep

\* memcpy_dispatch copies every byte to its own offset, reads none beyond the
\* source and writes none beyond its length, for every length and every level of
\* the CPU (simd.rs:73-150).
THEOREM CopyIsExact == CopySpec => []CopyExact
<1>1. CopyInv => CopyExact
  <2> SUFFICES ASSUME CopyInv PROVE CopyExact
    OBVIOUS
  <2>1. ASSUME NEW p \in Diagonal(dst) PROVE p \in Diagonal(length)
    BY DiagonalGrows DEF CopyInv
  <2> QED BY <2>1 DEF CopyInv, CopyExact, Diagonal
<1> QED BY <1>1, InitCopyInv, NextCopyInv, PTL DEF CopySpec

-----------------------------------------------------------------------------
(* The checksum.                                                            *)

\* One fold adds the carries to the low word.
LEMMA FoldOnce ==
    ASSUME NEW s \in Nat
    PROVE  \E r \in Nat, q \in Nat : r < 65536 /\ s = 65536 * q + r /\ Fold16(s) = q + r
<1>1. s % 65536 \in Nat /\ s % 65536 < 65536 /\ s \div 65536 \in Nat /\ s = 65536 * (s \div 65536) + (s % 65536)
  BY SMT
<1> QED BY <1>1, SMT DEF Fold16, U16

\* Two folds leave 16 bits of a sum of ten words, congruent to it modulo 65535.
LEMMA FoldTwice ==
    ASSUME NEW s \in Nat, s <= 655350
    PROVE  /\ Fold16(Fold16(s)) \in Nat
           /\ Fold16(Fold16(s)) <= 65535
           /\ \E k \in Nat : s = Fold16(Fold16(s)) + k * 65535
<1>1. PICK r \in Nat, q \in Nat : r < 65536 /\ s = 65536 * q + r /\ Fold16(s) = q + r
  BY FoldOnce, SMT
<1>2. q <= 9
  BY <1>1, SMT
<1>3. PICK t \in Nat : t = q + r
  BY SMT
<1>4. PICK r2 \in Nat, q2 \in Nat : r2 < 65536 /\ t = 65536 * q2 + r2 /\ Fold16(t) = q2 + r2
  BY FoldOnce, SMT
<1>5. q2 + r2 \in Nat /\ q2 + r2 <= 65535
  BY <1>1, <1>2, <1>3, <1>4, SMT
<1>6. q + q2 \in Nat /\ s = (q2 + r2) + (q + q2) * 65535
  BY <1>1, <1>3, <1>4, SMT
<1>7. Fold16(Fold16(s)) = q2 + r2
  BY <1>1, <1>3, <1>4, SMT
<1>8. PICK k \in Nat : k = q + q2
  BY SMT
<1>9. s = Fold16(Fold16(s)) + k * 65535
  BY <1>6, <1>7, <1>8, SMT
<1> QED BY <1>5, <1>7, <1>9, SMT

-----------------------------------------------------------------------------
(* Arithmetic of the launch.                                                *)

\* What the SMT solver knows of division, to cite where it would not look.
LEMMA DivMod ==
    ASSUME NEW a \in Nat, NEW n \in Nat \ {0}
    PROVE  /\ a \div n \in Nat
           /\ a % n \in 0 .. n - 1
           /\ a = (n * (a \div n)) + (a % n)
OBVIOUS

\* What does not reach the modulus is not changed by it.
LEMMA ModSmall ==
    ASSUME NEW a \in Nat, NEW n \in Nat \ {0}, a < n
    PROVE  a % n = a
OBVIOUS

\* One turn back round the ring and over to slot j is one slot j earlier.
LEMMA TurnBack ==
    ASSUME NEW n \in Nat \ {0}, NEW w \in Nat, w >= n, NEW j \in 0 .. n - 1
    PROVE  /\ w - n - (w % n) + j \in Nat
           /\ w - n - (w % n) + j < w
           /\ (w - n - (w % n) + j) % n = j
<1>1. PICK q \in Nat, r \in 0 .. n - 1 : w = (n * q) + r /\ r = w % n /\ q = w \div n
  BY DivMod
<1>2. q # 0
  BY <1>1
<1>3. q - 1 \in Nat /\ n * q = (n * (q - 1)) + n
  BY <1>2
<1>4. PICK p \in Nat : p = q - 1
  BY <1>3
<1>5. w - n - (w % n) + j = (n * p) + j
  BY <1>1, <1>3, <1>4
<1>6. n * p \in Nat
  BY <1>4
<1>7. ((n * p) + j) % n = j
  <2>1. PICK q2 \in Nat, r2 \in 0 .. n - 1 :
          (n * p) + j = (n * q2) + r2 /\ r2 = ((n * p) + j) % n
    <3>1. (n * p) + j \in Nat
      BY <1>6
    <3> QED BY <3>1, DivMod
  <2>2. CASE p = q2
    BY <2>1, <2>2
  <2>3. CASE p < q2
    <3>1. PICK d \in Nat : q2 = p + 1 + d
      BY <2>3
    <3>2. n * q2 = (n * p) + n + (n * d) /\ n * d \in Nat
      BY <3>1
    <3> QED BY <2>1, <3>2, <1>6
  <2>4. CASE q2 < p
    <3>1. PICK d \in Nat : p = q2 + 1 + d
      BY <2>4
    <3>2. n * p = (n * q2) + n + (n * d) /\ n * d \in Nat /\ n * q2 \in Nat
      BY <3>1
    <3> QED BY <2>1, <3>2, <1>6
  <2> QED BY <2>2, <2>3, <2>4
<1> QED BY <1>1, <1>3, <1>5, <1>6, <1>7

\* Workers dealt to n slots in turn: no slot gets two more than another.
LEMMA DealtEvenly ==
    ASSUME NEW n \in Nat \ {0}, NEW N \in Nat, NEW i \in 1 .. n, NEW j \in 1 .. n
    PROVE  Cardinality({w \in 0 .. N - 1 : (w % n) + 1 = i})
             <= Cardinality({w \in 0 .. N - 1 : (w % n) + 1 = j}) + 1
<1> DEFINE A == {w \in 0 .. N - 1 : (w % n) + 1 = i}
           B == {w \in 0 .. N - 1 : (w % n) + 1 = j}
           f == [w \in A \ {i - 1} |-> w - n - (i - 1) + (j - 1)]
<1>1. IsFiniteSet(A) /\ IsFiniteSet(B)
  <2>1. IsFiniteSet(0 .. N - 1)
    BY FS_Interval
  <2> QED BY <2>1, FS_Subset
<1>2. ASSUME NEW w \in A \ {i - 1} PROVE f[w] \in B
  <2>1. w \in Nat /\ w <= N - 1 /\ w % n = i - 1 /\ w # i - 1
    BY <1>2, DivMod
  <2>2. w >= n
    BY <2>1, ModSmall
  <2>3. j - 1 \in 0 .. n - 1
    OBVIOUS
  <2>4. /\ w - n - (w % n) + (j - 1) \in Nat
        /\ w - n - (w % n) + (j - 1) < w
        /\ (w - n - (w % n) + (j - 1)) % n = j - 1
    BY <2>1, <2>2, <2>3, TurnBack
  <2>5. f[w] = w - n - (w % n) + (j - 1)
    BY <2>1
  <2>6. f[w] \in 0 .. N - 1 /\ (f[w] % n) + 1 = j
    <3> HIDE DEF f
    <3> QED BY <2>1, <2>4, <2>5
  <2> QED BY <2>6
<1>3. f \in Injection(A \ {i - 1}, B)
  <2>1. f \in [A \ {i - 1} -> B]
    BY <1>2
  <2>2. \A v, w \in A \ {i - 1} : f[v] = f[w] => v = w
    OBVIOUS
  <2> HIDE DEF f
  <2> QED BY <2>1, <2>2 DEF Injection, IsInjective
<1> HIDE DEF A, B, f
<1>4. Cardinality(A \ {i - 1}) <= Cardinality(B)
  BY <1>1, <1>3, FS_Injection
<1>5. Cardinality(A) \in Nat /\ Cardinality(B) \in Nat
  BY <1>1, FS_CardinalityType
<1>6. Cardinality(A) <= Cardinality(A \ {i - 1}) + 1
  BY <1>1, <1>5, FS_RemoveElement
<1>7. Cardinality(A \ {i - 1}) \in Nat
  BY <1>1, FS_RemoveElement, FS_CardinalityType
<1>8. Cardinality(A) <= Cardinality(B) + 1
  BY <1>4, <1>5, <1>6, <1>7
<1> QED BY <1>8 DEF A, B

-----------------------------------------------------------------------------
(* The inductive invariants.                                                *)

Engines == {"none", "xdp_sink", "udp_server", "tcp_server", "xdp_client", "udp_client", "tcp_client"}

LaunchPcs == {"start", "usage", "version", "mode", "error", "queues", "guard", "running",
              "resolve", "refused", "spawn", "panic"}

JobType ==
    job \in [udp : BOOLEAN, len : Nat, cpus : Seq(Nat), engine : Engines, workers : Nat,
             pps : Nat, share : Nat, planned : Nat, cap : Nat]

\* The socket engines whose buffers oom_guard looks at.
Guarded == {"udp_server", "udp_client", "tcp_client"}

\* What main planned for the engine it chose.
PlannedFor ==
    /\ job.engine = "udp_server" => job.planned = (BATCH * Larger(job.len, MinServerBuffer)) % WordMod
    /\ job.engine = "udp_client" => job.planned = (job.workers * BATCH * job.len) % WordMod
    /\ job.engine = "tcp_client" => job.planned = (job.workers * TcpBuffer) % WordMod

\* What each step of main leaves for the next ones to rely on.
LaunchInv ==
    /\ JobType
    /\ pc \in {"mode", "queues", "guard", "running", "resolve", "spawn"} => job.cpus # << >>
    /\ pc \in {"guard", "spawn"} => job.engine \in Guarded
    /\ pc = "queues" => job.engine \in {"xdp_sink", "xdp_client"}
    /\ pc = "resolve" => job.engine = "xdp_client"
    /\ pc \in {"guard", "spawn", "running"} => PlannedFor
    /\ pc \in {"spawn", "running"} /\ job.engine \in Guarded => job.planned <= job.cap
    /\ pc = "running" /\ job.engine \in {"udp_client", "xdp_client"} =>
         job.share = Share(job.pps, job.workers)

\* What is known of a frame of the generator: its header, and, while the copy is
\* the one of its payload, that its lengths are those of the copy.
OwnFrame ==
    /\ frame.etype = "ipv4" /\ frame.proto = 17 /\ frame.ihl = 5
    /\ frame.total >= OUTER_HDR + HDR
    /\ ChecksumVerifies

PathInv ==
    /\ pc \in LaunchPcs \cup {"copy", "abort", "wire", "passed", "redirected", "parsed", "counted"}
    /\ lookups \in Nat /\ (pc \in {"start", "mode"} => lookups = 0) /\ (pc = "resolve" => lookups <= 5)
    /\ pc \in LaunchPcs => frame = NoFrame /\ cpc = "idle"
    /\ frame.own \in BOOLEAN /\ frame.total \in Nat
    /\ frame.own => OwnFrame
    /\ pc = "copy" => frame.own
    /\ LengthsTrue
    /\ pc \in {"redirected", "parsed", "counted"} => Redirects(frame)
    /\ pc = "counted" => ~ Has(frame, HDRS + 16)

-----------------------------------------------------------------------------
(* main keeps its invariant.                                                *)

\* A flag or its default.
LEMMA ValueOrIn ==
    ASSUME NEW S, NEW option \in Optional(S), NEW T, NEW default \in T, S \subseteq T
    PROVE  ValueOr(option, default) \in T
BY DEF Optional, ValueOr

LEMMA LargerType ==
    ASSUME NEW x \in Nat, NEW y \in Nat
    PROVE  Larger(x, y) \in Nat /\ Larger(x, y) >= x /\ Larger(x, y) >= y
BY DEF Larger

LEMMA ShareType ==
    ASSUME NEW pps \in Nat, NEW workers \in Nat, pps = 0 \/ workers # 0
    PROVE  Share(pps, workers) \in Nat
<1>1. CASE pps = 0
  BY <1>1 DEF Share
<1>2. CASE pps # 0
  <2>1. pps \div workers \in Nat
    BY <1>2, DivMod
  <2> QED BY <1>2, <2>1, LargerType DEF Share
<1> QED BY <1>1, <1>2

LEMMA ModType ==
    ASSUME NEW a \in Nat
    PROVE  a % WordMod \in Nat
BY DivMod, LaunchAssumption

\* parse_cpulist yields a list of CPUs, whatever ranges it is given.
LEMMA ParseCpulistType ==
    ASSUME NEW parts \in Seq([lo : Nat, hi : Nat])
    PROVE  ParseCpulist(parts) \in Seq(Nat)
<1> DEFINE range(p) == [k \in 1 .. p.hi - p.lo + 1 |-> p.lo + k - 1]
           ss == [i \in DOMAIN parts |-> range(parts[i])]
<1>1. ASSUME NEW p \in [lo : Nat, hi : Nat] PROVE range(p) \in Seq(Nat)
  <2>1. PICK n \in Nat : 1 .. p.hi - p.lo + 1 = 1 .. n
    <3>1. CASE p.hi - p.lo + 1 \in Nat
      BY <3>1
    <3>2. CASE p.hi - p.lo + 1 \notin Nat
      <4>1. 1 .. p.hi - p.lo + 1 = 1 .. 0
        BY <3>2
      <4> QED BY <4>1
    <3> QED BY <3>1, <3>2
  <2>2. \A k \in 1 .. n : p.lo + k - 1 \in Nat
    OBVIOUS
  <2>3. range(p) \in [1 .. n -> Nat]
    BY <2>1, <2>2
  <2> HIDE DEF range
  <2> QED BY <2>3, SeqDef
<1> HIDE DEF range
<1>2. ss \in Seq(Seq(Nat))
  <2>1. DOMAIN parts = 1 .. Len(parts) /\ Len(parts) \in Nat
    OBVIOUS
  <2>2. \A i \in 1 .. Len(parts) : parts[i] \in [lo : Nat, hi : Nat]
    BY ElementOfSeq, Zenon
  <2>3. \A i \in 1 .. Len(parts) : range(parts[i]) \in Seq(Nat)
    BY <1>1, <2>2, Zenon
  <2> QED BY <2>1, <2>3
<1>3. ParseCpulist(parts) = FlattenSeq(ss)
  BY DEF ParseCpulist, range
<1> HIDE DEF ss
<1> QED BY <1>2, <1>3, FlattenSeqType

\* effective_cpus is never empty.
LEMMA EffectiveCpusType ==
    ASSUME NEW list \in Optional(CpuLists), NEW node \in Optional(CpuLists), NEW online \in Onlines
    PROVE  EffectiveCpus(list, node, online) \in Seq(Nat) \ {<< >>}
<1> DEFINE Lists == Seq([lo : Nat, hi : Nat])
<1>1. << >> \in Lists /\ CpuLists \subseteq Lists
  BY LaunchAssumption
<1>2. \A parts \in Lists : ParseCpulist(parts) \in Seq(Nat)
  BY ParseCpulistType
<1>3. ResolveCpus(list, node) \in Seq(Nat)
  <2> HIDE DEF Lists
  <2>1. ValueOr(node, << >>) \in Lists
    BY <1>1, ValueOrIn
  <2>2. ValueOr(list, ValueOr(node, << >>)) \in Lists
    BY <1>1, <2>1, ValueOrIn
  <2> QED BY <1>2, <2>2 DEF ResolveCpus
<1>4. OnlineCpus(online) \in Seq(Nat) \ {<< >>}
  BY LaunchAssumption DEF OnlineCpus
<1> QED BY <1>3, <1>4 DEF EffectiveCpus

\* Nothing has been settled yet.
LEMMA InitLaunchInv == LaunchInit => LaunchInv
BY DEF LaunchInit, LaunchInv, JobType, Engines

\* One step for each step of main.
LEMMA NextLaunchInv == LaunchInv /\ LaunchNext => LaunchInv'
<1> SUFFICES ASSUME LaunchInv, LaunchNext PROVE LaunchInv'
  OBVIOUS
<1>1. JobType
  BY DEF LaunchInv
<1>2. CASE Answer \/ NoConnect
  BY <1>2 DEF Answer, NoConnect, LaunchInv, JobType
<1>3. CASE Parse
  <2>1. PICK udp \in BOOLEAN, len \in Optional(Lens), list \in Optional(CpuLists),
             node \in Optional(CpuLists), online \in Onlines :
          job' = [job EXCEPT !.udp = udp, !.len = ValueOr(len, 1400),
                             !.cpus = EffectiveCpus(list, node, online)]
    BY <1>3 DEF Parse
  <2>2. ValueOr(len, 1400) \in Nat
    <3>1. PICK d \in Nat : d = 1400
      BY SMT
    <3>2. ValueOr(len, d) \in Nat
      BY ValueOrIn, LaunchAssumption
    <3> QED BY <3>1, <3>2
  <2>3. EffectiveCpus(list, node, online) \in Seq(Nat) \ {<< >>}
    BY EffectiveCpusType
  <2> DEFINE l == ValueOr(len, 1400)
             c == EffectiveCpus(list, node, online)
  <2>4. job' = [job EXCEPT !.udp = udp, !.len = l, !.cpus = c] /\ l \in Nat /\ c \in Seq(Nat) /\ c # << >>
    BY <2>1, <2>2, <2>3
  <2> HIDE DEF l, c
  <2>5. JobType' /\ job'.cpus # << >>
    BY <1>1, <2>4 DEF JobType
  <2> QED BY <1>3, <2>5 DEF Parse, LaunchInv
<1>4. CASE ServeXdp
  <2>1. JobType' /\ job'.engine = "xdp_sink" /\ job'.cpus = job.cpus
    BY <1>1, <1>4 DEF ServeXdp, JobType, Engines
  <2> QED BY <1>4, <2>1 DEF ServeXdp, LaunchInv
<1>5. CASE ServeUdp
  <2>1. Larger(Len(job.cpus), 1) \in Nat
    BY <1>1, LargerType DEF JobType
  <2>2. (BATCH * Larger(job.len, MinServerBuffer)) % WordMod \in Nat
    <3>1. job.len \in Nat /\ MinServerBuffer \in Nat
      BY <1>1 DEF JobType, MinServerBuffer
    <3>2. Larger(job.len, MinServerBuffer) \in Nat
      BY <3>1, LargerType
    <3>3. BATCH * Larger(job.len, MinServerBuffer) \in Nat
      BY <3>2 DEF BATCH
    <3> QED BY <3>3, ModType
  <2>3. JobType'
    BY <1>1, <1>5, <2>1, <2>2 DEF ServeUdp, JobType, Engines
  <2>4. /\ job'.engine = "udp_server" /\ job'.cpus = job.cpus /\ job'.len = job.len
        /\ job'.planned = (BATCH * Larger(job.len, MinServerBuffer)) % WordMod
    BY <1>1, <1>5 DEF ServeUdp, JobType
  <2>5. PlannedFor'
    BY <2>4 DEF PlannedFor
  <2> QED BY <1>5, <2>3, <2>4, <2>5 DEF ServeUdp, LaunchInv, Guarded
<1>6. CASE ServeTcp
  <2>1. Larger(Len(job.cpus), 1) \in Nat
    BY <1>1, LargerType DEF JobType
  <2>2. JobType' /\ job'.engine = "tcp_server" /\ job'.cpus = job.cpus
    BY <1>1, <1>6, <2>1 DEF ServeTcp, JobType, Engines
  <2> QED BY <1>6, <2>2 DEF ServeTcp, LaunchInv, Guarded, PlannedFor
<1>7. CASE ConnectXdp
  <2>1. JobType' /\ job'.engine = "xdp_client" /\ job'.cpus = job.cpus
    BY <1>1, <1>7, LaunchAssumption DEF ConnectXdp, JobType, Engines
  <2> QED BY <1>7, <2>1 DEF ConnectXdp, LaunchInv
<1>8. CASE ConnectSocket
  <2>1. PICK threads \in Optional(Threads), rate \in Rates :
          LET n == ValueOr(threads, IF job.udp THEN Len(job.cpus) ELSE 1) IN
          job' = [job EXCEPT
                    !.engine = IF job.udp THEN "udp_client" ELSE "tcp_client",
                    !.workers = n,
                    !.pps = rate,
                    !.planned = IF job.udp THEN (n * BATCH * job.len) % WordMod
                                           ELSE (n * TcpBuffer) % WordMod]
    BY <1>8 DEF ConnectSocket
  <2> DEFINE n == ValueOr(threads, IF job.udp THEN Len(job.cpus) ELSE 1)
             p == IF job.udp THEN (n * BATCH * job.len) % WordMod ELSE (n * TcpBuffer) % WordMod
             e == IF job.udp THEN "udp_client" ELSE "tcp_client"
  <2>2. n \in Nat
    <3>1. (IF job.udp THEN Len(job.cpus) ELSE 1) \in Nat
      BY <1>1 DEF JobType
    <3> QED BY <3>1, ValueOrIn, LaunchAssumption
  <2>3. p \in Nat
    <3>1. BATCH \in Nat /\ TcpBuffer \in Nat /\ job.len \in Nat
      BY <1>1, SMT DEF BATCH, TcpBuffer, JobType
    <3> HIDE DEF n
    <3>2. n * BATCH * job.len \in Nat /\ n * TcpBuffer \in Nat
      BY <2>2, <3>1
    <3>3. (n * BATCH * job.len) % WordMod \in Nat /\ (n * TcpBuffer) % WordMod \in Nat
      BY <3>2, ModType
    <3> QED BY <3>3
  <2>4. job' = [job EXCEPT !.engine = e, !.workers = n, !.pps = rate, !.planned = p]
    BY <2>1
  <2>5. /\ job.udp => p = (n * BATCH * job.len) % WordMod /\ e = "udp_client"
        /\ ~job.udp => p = (n * TcpBuffer) % WordMod /\ e = "tcp_client"
    OBVIOUS
  <2> HIDE DEF n, p, e
  <2>6. e \in Guarded /\ e \in Engines
    BY <1>1, <2>5 DEF Guarded, Engines, JobType
  <2>7. JobType'
    BY <1>1, <2>2, <2>3, <2>4, <2>6, LaunchAssumption DEF JobType
  <2>8. /\ job'.engine = e /\ job'.workers = n /\ job'.planned = p
        /\ job'.len = job.len /\ job'.cpus = job.cpus
    BY <1>1, <2>4 DEF JobType
  <2>9. PlannedFor'
    BY <1>1, <2>5, <2>8 DEF PlannedFor, JobType
  <2> QED BY <1>8, <2>6, <2>7, <2>8, <2>9 DEF ConnectSocket, LaunchInv
<1>9. CASE OomGuard
  <2>1. PICK mem \in Optional(Mems) :
          LET cap == ValueOr({m \div 4 : m \in mem}, DefaultCap) IN
          /\ job' = [job EXCEPT !.cap = cap]
          /\ pc' = IF job.planned > cap THEN "refused" ELSE "spawn"
    BY <1>9 DEF OomGuard
  <2> DEFINE cap == ValueOr({m \div 4 : m \in mem}, DefaultCap)
  <2>2. cap \in Nat
    <3>1. CASE mem = {}
      BY <3>1, LaunchAssumption DEF ValueOr
    <3>2. CASE mem # {}
      <4>1. PICK m \in Mems : mem = {m}
        BY <3>2 DEF Optional
      <4>2. {x \div 4 : x \in mem} = {m \div 4}
        BY <4>1
      <4>3. m \div 4 \in Nat
        BY <4>1, LaunchAssumption
      <4> QED BY <4>2, <4>3 DEF ValueOr
    <3> QED BY <3>1, <3>2
  <2>3. /\ job' = [job EXCEPT !.cap = cap]
        /\ pc' = IF job.planned > cap THEN "refused" ELSE "spawn"
    BY <2>1
  <2> HIDE DEF cap
  <2>4. JobType' /\ job'.cap = cap
    BY <1>1, <2>2, <2>3 DEF JobType
  <2>5. /\ job'.engine = job.engine /\ job'.workers = job.workers /\ job'.planned = job.planned
        /\ job'.len = job.len /\ job'.cpus = job.cpus
    BY <1>1, <2>3 DEF JobType
  <2>6. PlannedFor => PlannedFor'
    BY <2>5 DEF PlannedFor
  <2>7. pc' = "spawn" => job'.planned <= job'.cap
    BY <1>1, <2>2, <2>3, <2>4, <2>5 DEF JobType
  <2>8. pc = "guard" /\ pc' \in {"refused", "spawn"}
    BY <1>9, <2>3 DEF OomGuard
  <2> QED BY <2>4, <2>5, <2>6, <2>7, <2>8 DEF LaunchInv
<1>10. CASE Spawn
  <2>1. CASE job.engine = "udp_client" /\ job.pps > 0 /\ job.workers = 0
    BY <1>10, <2>1 DEF Spawn, LaunchInv, JobType
  <2>2. CASE ~(job.engine = "udp_client" /\ job.pps > 0 /\ job.workers = 0)
    <3> DEFINE s == IF job.engine = "udp_client" THEN Share(job.pps, job.workers) ELSE 0
    <3>1. pc = "spawn" /\ pc' = "running" /\ job' = [job EXCEPT !.share = s]
      BY <1>10, <2>2 DEF Spawn
    <3>2. s \in Nat
      <4>1. job.pps \in Nat /\ job.workers \in Nat
        BY <1>1 DEF JobType
      <4>2. CASE job.engine = "udp_client"
        <5>1. job.pps = 0 \/ job.workers # 0
          BY <2>2, <4>1, <4>2
        <5>2. Share(job.pps, job.workers) \in Nat
          BY <4>1, <5>1, ShareType
        <5> QED BY <4>2, <5>2
      <4>3. CASE job.engine # "udp_client"
        BY <4>3
      <4> QED BY <4>2, <4>3
    <3>3. job.engine = "udp_client" => s = Share(job.pps, job.workers)
      OBVIOUS
    <3> HIDE DEF s
    <3>4. JobType' /\ job'.share = s
      BY <1>1, <3>1, <3>2 DEF JobType
    <3>5. /\ job'.engine = job.engine /\ job'.workers = job.workers /\ job'.planned = job.planned
          /\ job'.len = job.len /\ job'.cpus = job.cpus /\ job'.cap = job.cap /\ job'.pps = job.pps
      BY <1>1, <3>1 DEF JobType
    <3>6. PlannedFor' /\ job'.engine # "xdp_client" /\ job'.cpus # << >>
      BY <3>1, <3>5 DEF PlannedFor, LaunchInv, Guarded
    <3>7. job'.engine \in Guarded => job'.planned <= job'.cap
      BY <3>1, <3>5 DEF LaunchInv
    <3>8. job'.engine = "udp_client" => job'.share = Share(job'.pps, job'.workers)
      BY <3>3, <3>4, <3>5
    <3> QED BY <3>1, <3>4, <3>6, <3>7, <3>8 DEF LaunchInv
  <2> QED BY <2>1, <2>2
<1>11. CASE SpawnXdp
  <2>1. PICK queues \in QueueCounts :
          LET n == Larger(Smaller(Len(job.cpus), Larger(queues, 1)), 1) IN
          job' = [job EXCEPT !.workers = n, !.share = Share(job.pps, n)]
    BY <1>11 DEF SpawnXdp
  <2> DEFINE n == Larger(Smaller(Len(job.cpus), Larger(queues, 1)), 1)
  <2>2. n \in Nat /\ n # 0
    <3>1. Len(job.cpus) \in Nat /\ Larger(queues, 1) \in Nat
      BY <1>1, LargerType, LaunchAssumption DEF JobType
    <3>2. Smaller(Len(job.cpus), Larger(queues, 1)) \in Nat
      BY <3>1 DEF Smaller
    <3> QED BY <3>2, LargerType
  <2>3. job' = [job EXCEPT !.workers = n, !.share = Share(job.pps, n)]
    BY <2>1
  <2> HIDE DEF n
  <2>4. Share(job.pps, n) \in Nat
    BY <1>1, <2>2, ShareType DEF JobType
  <2>5. JobType' /\ job'.workers = n /\ job'.share = Share(job.pps, n)
    BY <1>1, <2>2, <2>3, <2>4 DEF JobType
  <2>6. job'.pps = job.pps /\ job'.engine = job.engine /\ job'.cpus = job.cpus
    BY <1>1, <2>3 DEF JobType
  <2>7. pc = "queues" /\ pc' = "running"
    BY <1>11 DEF SpawnXdp
  <2>8. job'.engine \notin Guarded /\ PlannedFor' /\ job'.cpus # << >>
    BY <2>6, <2>7 DEF LaunchInv, Guarded, PlannedFor
  <2>9. job'.share = Share(job'.pps, job'.workers)
    BY <2>5, <2>6
  <2> QED BY <2>5, <2>7, <2>8, <2>9 DEF LaunchInv
<1> QED BY <1>2, <1>3, <1>4, <1>5, <1>6, <1>7, <1>8, <1>9, <1>10, <1>11 DEF LaunchNext

-----------------------------------------------------------------------------
(* What the launch promises.                                                *)

\* Workers are dealt out round the list, one after the other.
LEMMA PinsBalancedFromInv == LaunchInv => PinsBalanced
<1> SUFFICES ASSUME LaunchInv, pc = "running",
                    NEW i \in DOMAIN job.cpus, NEW j \in DOMAIN job.cpus
             PROVE  /\ job.cpus # << >>
                    /\ Cardinality({w \in 0 .. job.workers - 1 : PinSlot(w) = i})
                         <= Cardinality({w \in 0 .. job.workers - 1 : PinSlot(w) = j}) + 1
  BY DEF PinsBalanced, LaunchInv
<1>1. job.cpus \in Seq(Nat) /\ job.cpus # << >> /\ job.workers \in Nat
  BY DEF LaunchInv, JobType
<1>2. Len(job.cpus) \in Nat \ {0} /\ i \in 1 .. Len(job.cpus) /\ j \in 1 .. Len(job.cpus)
  BY <1>1
<1>3. PICK n \in Nat \ {0} : n = Len(job.cpus)
  BY <1>2
<1>4. PICK N \in Nat : N = job.workers
  BY <1>1
<1>5. \A k : {w \in 0 .. job.workers - 1 : PinSlot(w) = k} = {w \in 0 .. N - 1 : (w % n) + 1 = k}
  BY <1>3, <1>4 DEF PinSlot
<1>6. i \in 1 .. n /\ j \in 1 .. n
  BY <1>2, <1>3
<1>7. Cardinality({w \in 0 .. N - 1 : (w % n) + 1 = i})
        <= Cardinality({w \in 0 .. N - 1 : (w % n) + 1 = j}) + 1
  BY <1>6, DealtEvenly
<1> QED BY <1>1, <1>5, <1>7

\* The share is the quotient, or 1 where the quotient is 0.
LEMMA RateRespectedFromInv == LaunchInv => RateRespected
<1> SUFFICES ASSUME LaunchInv, pc = "running", job.engine \in {"udp_client", "xdp_client"},
                    job.pps > 0, job.workers > 0
             PROVE  /\ job.share > 0
                    /\ \/ job.workers * job.share \in job.pps - job.workers + 1 .. job.pps
                       \/ job.pps < job.workers /\ job.share = 1
  BY DEF RateRespected
<1>1. PICK p \in Nat \ {0}, w \in Nat \ {0} : p = job.pps /\ w = job.workers
  BY DEF LaunchInv, JobType
<1>2. job.share = Larger(p \div w, 1)
  BY <1>1 DEF LaunchInv, Share
<1>3. PICK q \in Nat, r \in 0 .. w - 1 : p = (w * q) + r /\ q = p \div w
  BY DivMod
<1>4. CASE p < w
  <2>1. q = 0
    BY <1>3, <1>4
  <2> QED BY <1>1, <1>2, <1>3, <1>4, <2>1 DEF Larger
<1>5. CASE p >= w
  <2>1. q # 0
    BY <1>3, <1>5
  <2>2. job.share = q
    BY <1>2, <1>3, <2>1 DEF Larger
  <2> QED BY <1>1, <1>3, <2>1, <2>2
<1> QED BY <1>4, <1>5

\* What was planned is what is allocated, but for the three cases.
LEMMA BuffersUnderCapFromInv == LaunchInv => BuffersUnderCap
<1> SUFFICES ASSUME LaunchInv, pc = "running", Allocated > job.cap, ~(Allocated >= WordMod)
             PROVE  \/ job.engine = "udp_client" /\ job.len < HDR
                    \/ job.engine = "udp_server" /\ Allocated <= job.workers * job.cap
  BY DEF BuffersUnderCap
<1>1. /\ job.workers \in Nat /\ job.len \in Nat /\ job.cap \in Nat /\ job.planned \in Nat
      /\ WordMod \in Nat \ {0}
  BY LaunchAssumption DEF LaunchInv, JobType
<1>2. BATCH \in Nat /\ HDR \in Nat /\ MinServerBuffer \in Nat /\ TcpBuffer \in Nat
  BY SMT DEF BATCH, HDR, MinServerBuffer, TcpBuffer
<1>3. PlannedFor /\ (job.engine \in Guarded => job.planned <= job.cap)
  BY DEF LaunchInv
<1>4. CASE job.engine = "udp_client"
  <2>1. CASE job.len < HDR
    BY <1>4, <2>1
  <2>2. CASE job.len >= HDR
    <3>1. Allocated = job.workers * BATCH * job.len
      BY <1>1, <1>2, <1>4, <2>2 DEF Allocated, Larger
    <3>2. job.workers * BATCH * job.len \in Nat
      BY <1>1, <1>2
    <3>3. job.planned = Allocated
      BY <1>1, <1>3, <1>4, <3>1, <3>2, ModSmall DEF PlannedFor
    <3> QED BY <1>1, <1>3, <1>4, <3>1, <3>2, <3>3 DEF Guarded
  <2> QED BY <1>1, <1>2, <2>1, <2>2
<1>5. CASE job.engine = "tcp_client"
  <2>1. Allocated = job.workers * TcpBuffer
    BY <1>5 DEF Allocated
  <2>2. job.workers * TcpBuffer \in Nat
    BY <1>1, <1>2
  <2>3. job.planned = Allocated
    BY <1>1, <1>3, <1>5, <2>1, <2>2, ModSmall DEF PlannedFor
  <2> QED BY <1>1, <1>3, <1>5, <2>1, <2>2, <2>3 DEF Guarded
<1>6. CASE job.engine = "udp_server"
  <2>0. PICK x \in Nat : x = Larger(job.len, MinServerBuffer)
    BY <1>1, <1>2, LargerType
  <2>1. PICK b \in Nat : b = BATCH * Larger(job.len, MinServerBuffer)
    BY <1>2, <2>0
  <2>2. Allocated = job.workers * b
    <3>1. Allocated = job.workers * BATCH * x /\ b = BATCH * x
      BY <1>6, <2>0, <2>1 DEF Allocated
    <3> QED BY <1>1, <1>2, <3>1
  <2>3. CASE job.workers = 0
    BY <1>1, <2>1, <2>2, <2>3
  <2>4. CASE job.workers # 0
    <3>1. PICK w \in Nat : w = job.workers - 1
      BY <1>1, <2>4
    <3>2. job.workers * b = (w * b) + b /\ w * b \in Nat
      BY <1>1, <2>1, <3>1
    <3>3. b < WordMod
      BY <1>1, <2>1, <2>2, <3>2
    <3>4. b = job.planned
      BY <1>1, <1>3, <1>6, <2>1, <3>3, ModSmall DEF PlannedFor
    <3>5. PICK d \in Nat : job.cap = b + d
      <4>1. b <= job.cap
        BY <1>3, <1>6, <3>4 DEF Guarded
      <4>2. job.cap - b \in Nat /\ job.cap = b + (job.cap - b)
        BY <1>1, <4>1
      <4> QED BY <4>2
    <3>6. job.workers * job.cap = (job.workers * b) + (job.workers * d) /\ job.workers * d \in Nat
      BY <1>1, <2>1, <3>5
    <3> QED BY <1>1, <1>6, <2>1, <2>2, <3>2, <3>6
  <2> QED BY <2>3, <2>4
<1>7. CASE job.engine \notin {"udp_client", "tcp_client", "udp_server"}
  BY <1>1, <1>7 DEF Allocated
<1> QED BY <1>4, <1>5, <1>6, <1>7

-----------------------------------------------------------------------------
(* The frame.                                                               *)

\* Folding leaves nothing of zero only.
LEMMA FoldPositive ==
    ASSUME NEW s \in Nat, s > 0
    PROVE  Fold16(s) \in Nat /\ Fold16(s) > 0
<1>1. s % 65536 \in Nat /\ s \div 65536 \in Nat /\ s = 65536 * (s \div 65536) + (s % 65536)
  BY SMT
<1> QED BY <1>1, SMT DEF Fold16, U16

\* A sum completed by the checksum of the rest verifies.
LEMMA Completed ==
    ASSUME NEW s \in Nat, s <= 589815, s > 0
    PROVE  /\ 65535 - Fold16(Fold16(s)) \in Nat
           /\ Fold16(Fold16(s + (65535 - Fold16(Fold16(s))))) = 65535
<1>1. PICK f \in Nat : f = Fold16(Fold16(s))
  BY FoldTwice, SMT
<1>2. f <= 65535
  BY <1>1, FoldTwice, SMT
<1>3. PICK k \in Nat : s = f + k * 65535
  BY <1>1, FoldTwice, SMT
<1>4. PICK t \in Nat : t = s + (65535 - f)
  BY <1>2, SMT
<1>5. t <= 655350 /\ t > 0
  BY <1>2, <1>4, SMT
<1>6. PICK g \in Nat : g = Fold16(Fold16(t))
  BY <1>5, FoldTwice, SMT
<1>7. g <= 65535
  BY <1>5, <1>6, FoldTwice, SMT
<1>8. PICK l \in Nat : t = g + l * 65535
  BY <1>5, <1>6, FoldTwice, SMT
<1>9. g > 0
  <2>1. PICK h \in Nat : h = Fold16(t)
    BY <1>5, FoldPositive, SMT
  <2>2. h > 0
    BY <1>5, <2>1, FoldPositive, SMT
  <2>3. Fold16(h) > 0
    BY <2>2, FoldPositive, SMT
  <2> QED BY <1>6, <2>1, <2>3
<1>10. g = 65535
  BY <1>3, <1>4, <1>7, <1>8, <1>9, SMT
<1>11. 65535 - f \in Nat
  BY <1>2, SMT
<1> QED BY <1>1, <1>4, <1>6, <1>10, <1>11, SMT

\* The header stamped with its own checksum verifies, for every length and
\* every address.
LEMMA StampedVerifies ==
    ASSUME NEW ip_tot \in Nat, ip_tot < U16, NEW a \in [1..4 -> AddressWords]
    PROVE  /\ Fold16(Fold16(SumWords(StampedWords(ip_tot, a)))) = 65535
           /\ StampedWords(ip_tot, a)[2] = ip_tot
<1>1. /\ a[1] \in Nat /\ a[2] \in Nat /\ a[3] \in Nat /\ a[4] \in Nat
      /\ a[1] <= 65535 /\ a[2] <= 65535 /\ a[3] <= 65535 /\ a[4] <= 65535
  <2>1. a[1] \in AddressWords /\ a[2] \in AddressWords /\ a[3] \in AddressWords /\ a[4] \in AddressWords
    BY SMT
  <2>2. ASSUME NEW w \in AddressWords PROVE w \in Nat /\ w <= 65535
    BY FrameAssumption, SMT
  <2> QED BY <2>1, <2>2, SMT
<1>2. PICK s \in Nat : s = 17664 + ip_tot + 16384 + (64 * 256 + 17) + a[1] + a[2] + a[3] + a[4]
  BY <1>1, SMT
<1>3. s <= 589815 /\ s > 0
  BY <1>1, <1>2, SMT DEF U16
<1>4. SumWords(Ipv4Words(ip_tot, 0, a)) = s
  BY <1>1, <1>2, SMT DEF SumWords, Ipv4Words
<1>5. PICK c \in Nat : c = 65535 - Fold16(Fold16(s))
  BY <1>3, Completed, SMT
<1>6. Ipv4Checksum(Ipv4Words(ip_tot, 0, a)) = c
  BY <1>4, <1>5, SMT DEF Ipv4Checksum
<1>7. StampedWords(ip_tot, a) = Ipv4Words(ip_tot, c, a)
  BY <1>6, SMT DEF StampedWords
<1>8. SumWords(Ipv4Words(ip_tot, c, a)) = s + c
  BY <1>1, <1>2, SMT DEF SumWords, Ipv4Words
<1>9. Fold16(Fold16(s + c)) = 65535
  BY <1>3, <1>5, Completed, SMT
<1>10. Ipv4Words(ip_tot, c, a)[2] = ip_tot
  BY SMT DEF Ipv4Words
<1> QED BY <1>7, <1>8, <1>9, <1>10, SMT

\* No frame yet.
LEMMA InitPathInv == PathInit => PathInv
BY DEF PathInit, LaunchInit, CopyInit, PathInv, LaunchPcs, NoFrame, LengthsTrue

\* A payload that fits leaves both 16-bit lengths as they are.
LEMMA LengthsFit ==
    ASSUME NEW n \in Nat, OUTER_HDR + n <= FrameSize
    PROVE  /\ (UDP_HDR + n) % U16 = UDP_HDR + n
           /\ (IPV4_HDR + ((UDP_HDR + n) % U16)) % U16 = IPV4_HDR + UDP_HDR + n
BY FrameAssumption, SMT DEF OUTER_HDR, ETH_HDR, IPV4_HDR, UDP_HDR, U16

\* A payload of 16 bytes is a header's worth, and any length field is 16 bits.
LEMMA PayloadLenType ==
    ASSUME LaunchInv
    PROVE  PayloadLen \in Nat /\ PayloadLen >= HDR
<1>1. job.len \in Nat /\ HDR \in Nat
  BY DEF LaunchInv, JobType, HDR
<1> QED BY <1>1, LargerType DEF PayloadLen

LEMMA Mod16 == ASSUME NEW n \in Nat PROVE n % U16 \in Nat /\ n % U16 < U16
BY SMT DEF U16

\* Before the frame is written there is none, and nothing of it to preserve.
LEMMA LaunchStepPathInv ==
    ASSUME PathInv, LaunchNext, UNCHANGED <<copyVars, netVars>>
    PROVE  PathInv'
<1>1. /\ pc \in LaunchPcs /\ pc' \in LaunchPcs
      /\ pc' # "start" /\ (pc' = "mode" => pc = "start") /\ (pc' = "resolve" => pc = "mode")
  <2>1. CASE Answer \/ NoConnect
    BY <2>1 DEF Answer, NoConnect, LaunchPcs
  <2>2. CASE Parse
    BY <2>2 DEF Parse, LaunchPcs
  <2>3. CASE ServeXdp \/ ServeUdp \/ ServeTcp
    BY <2>3 DEF ServeXdp, ServeUdp, ServeTcp, LaunchPcs
  <2>4. CASE ConnectXdp \/ ConnectSocket
    BY <2>4 DEF ConnectXdp, ConnectSocket, LaunchPcs
  <2>5. CASE OomGuard
    <3>1. pc = "guard" /\ pc' \in {"refused", "spawn"}
      BY <2>5 DEF OomGuard
    <3> QED BY <3>1 DEF LaunchPcs
  <2>6. CASE Spawn \/ SpawnXdp
    <3>1. pc \in {"spawn", "queues"} /\ pc' \in {"panic", "running"}
      BY <2>6 DEF Spawn, SpawnXdp
    <3> QED BY <3>1 DEF LaunchPcs
  <2> QED BY <2>1, <2>2, <2>3, <2>4, <2>5, <2>6 DEF LaunchNext
<1>2. frame = NoFrame /\ cpc = "idle" /\ frame' = frame /\ cpc' = cpc /\ lookups' = lookups
  BY <1>1 DEF PathInv, copyVars, netVars
<1>3. pc' \notin {"copy", "wire", "redirected", "parsed", "counted"}
  BY <1>1 DEF LaunchPcs
<1> QED BY <1>1, <1>2, <1>3 DEF PathInv, NoFrame, LengthsTrue

\* The ARP lookup changes no frame.
LEMMA ResolveStepPathInv ==
    ASSUME PathInv, NoAddress \/ ResolveServerMac \/ ArpChanges
    PROVE  PathInv'
<1>1. /\ pc = "resolve" /\ pc' \in {"resolve", "error", "queues"}
      /\ frame' = frame /\ cpc' = cpc /\ lookups' \in Nat
      /\ pc' = "resolve" => lookups' <= 5
  BY DEF NoAddress, ResolveServerMac, ArpChanges, Lookup, copyVars, netVars, PathInv
<1>2. frame = NoFrame /\ cpc = "idle"
  BY <1>1 DEF PathInv, LaunchPcs
<1> QED BY <1>1, <1>2 DEF PathInv, NoFrame, LengthsTrue, LaunchPcs

\* write_frame: the header is complete and true before the payload is copied.
LEMMA WriteHeaderPathInv ==
    ASSUME LaunchInv, PathInv, WriteHeader
    PROVE  PathInv'
<1> DEFINE n == PayloadLen
           udp_len == (UDP_HDR + n) % U16
           ip_tot == (IPV4_HDR + udp_len) % U16
<1>1. PICK addresses \in [1..4 -> AddressWords], l \in Levels :
        /\ pc = "running"
        /\ frame' = [own |-> TRUE, etype |-> "ipv4", proto |-> 17, ihl |-> 5,
                     total |-> OUTER_HDR + n, udpLen |-> udp_len,
                     words |-> StampedWords(ip_tot, addresses)]
        /\ IF OUTER_HDR + n <= FrameSize THEN pc' = "copy" /\ CopyStart(n, l)
                                         ELSE pc' = "abort" /\ UNCHANGED copyVars
        /\ lookups' = lookups
  BY DEF WriteHeader, WriteHeaderIf
<1>2. n \in Nat /\ n >= HDR
  BY PayloadLenType
<1>3. udp_len \in Nat /\ ip_tot \in Nat /\ ip_tot < U16
  <2>1. UDP_HDR + n \in Nat
    BY <1>2, SMT DEF UDP_HDR
  <2>2. udp_len \in Nat
    BY <2>1, Mod16, SMT
  <2> HIDE DEF udp_len
  <2>3. IPV4_HDR + udp_len \in Nat
    BY <2>2, SMT DEF IPV4_HDR
  <2> QED BY <2>2, <2>3, Mod16, SMT
<1>4. OUTER_HDR + n <= FrameSize =>
        udp_len = UDP_HDR + n /\ ip_tot = IPV4_HDR + UDP_HDR + n
  BY <1>2, LengthsFit, SMT
<1> HIDE DEF n, udp_len, ip_tot
<1>5. PICK words : /\ words = StampedWords(ip_tot, addresses)
                   /\ Fold16(Fold16(SumWords(words))) = 65535
                   /\ words[2] = ip_tot
  BY <1>3, StampedVerifies, SMT
<1>6. /\ frame'.own = TRUE /\ frame'.etype = "ipv4" /\ frame'.proto = 17 /\ frame'.ihl = 5
      /\ frame'.total = OUTER_HDR + n /\ frame'.udpLen = udp_len /\ frame'.words = words
  BY <1>1, <1>5, SMT
<1>7. ChecksumVerifies'
  BY <1>5, <1>6, SMT DEF ChecksumVerifies
<1>8. frame'.total \in Nat /\ frame'.total >= OUTER_HDR + HDR
  BY <1>2, <1>6, SMT DEF OUTER_HDR, ETH_HDR, IPV4_HDR, UDP_HDR, HDR
<1>9. OwnFrame'
  BY <1>6, <1>7, <1>8, SMT DEF OwnFrame
<1>10. pc' \in {"copy", "abort"} /\ lookups' = lookups
  BY <1>1, SMT
<1>11. LengthsTrue'
  <2>1. CASE OUTER_HDR + n <= FrameSize
    <3>1. length' = n
      BY <1>1, <2>1, SMT DEF CopyStart
    <3> QED BY <1>4, <1>5, <1>6, <2>1, <3>1, SMT DEF LengthsTrue
  <2>2. CASE ~(OUTER_HDR + n <= FrameSize)
    <3>1. pc' = "abort"
      BY <1>1, <2>2, SMT
    <3> QED BY <3>1, SMT DEF LengthsTrue
  <2> QED BY <2>1, <2>2, SMT
<1>12. frame'.own \in BOOLEAN
  BY <1>6
<1> QED BY <1>6, <1>8, <1>9, <1>10, <1>11, <1>12 DEF PathInv, LaunchPcs

\* The length of a copy does not change under way.
LEMMA CopyStepLength == CopyStep => length' = length
BY DEF CopyStep, CopyBlock, CopyBlocksEnd, CopyTail, CopyNoTail, CopyBytes, Block

\* The copy leaves the headers alone.
LEMMA CopyStepPathInv ==
    ASSUME PathInv, CopyPayload \/ FrameWritten
    PROVE  PathInv'
<1>1. /\ pc = "copy" /\ pc' \in {"copy", "wire"}
      /\ frame' = frame /\ length' = length /\ lookups' = lookups
  BY CopyStepLength DEF CopyPayload, FrameWritten, netVars, copyVars
<1>2. LengthsTrue'
  BY <1>1 DEF PathInv, LengthsTrue
<1>3. OwnFrame => OwnFrame'
  BY <1>1 DEF OwnFrame, ChecksumVerifies
<1> QED BY <1>1, <1>2, <1>3 DEF PathInv, LaunchPcs

\* Past the generator a frame is only looked at, or is another host's.
LEMMA WireStepPathInv ==
    ASSUME PathInv, ForeignFrame \/ XdpProgram \/ RxLoop
    PROVE  PathInv'
<1>1. CASE ForeignFrame
  <2>1. /\ frame'.own = FALSE /\ frame'.total \in ForeignLens
        /\ pc' = "wire" /\ lookups' = lookups
    BY <1>1 DEF ForeignFrame, NoFrame
  <2>2. ForeignLens \subseteq Nat
    BY FrameAssumption, SMT
  <2> QED BY <2>1, <2>2 DEF PathInv, LaunchPcs, LengthsTrue
<1>2. CASE XdpProgram \/ RxLoop
  <2>1. /\ frame' = frame /\ lookups' = lookups /\ length' = length
        /\ pc' \in {"redirected", "passed", "parsed", "counted"}
    BY <1>2 DEF XdpProgram, RxLoop, copyVars, netVars
  <2>2. OwnFrame => OwnFrame'
    BY <2>1 DEF OwnFrame, ChecksumVerifies
  <2>3. pc' \in {"redirected", "parsed", "counted"} => Redirects(frame)
    BY <1>2 DEF XdpProgram, RxLoop, PathInv
  <2>4. pc' = "counted" => ~ Has(frame, HDRS + 16)
    BY <1>2 DEF XdpProgram, RxLoop
  <2> QED BY <2>1, <2>2, <2>3, <2>4 DEF PathInv, LaunchPcs, LengthsTrue
<1> QED BY <1>1, <1>2

-----------------------------------------------------------------------------
(* The path.                                                                *)

FirstFrameInv == LaunchInv /\ PathInv

LEMMA InitFirstFrameInv == PathInit => FirstFrameInv
BY InitLaunchInv, InitPathInv DEF PathInit, FirstFrameInv

\* Once the frame is on its way nothing of the launch changes.
LEMMA KeepsLaunchInv ==
    ASSUME LaunchInv, job' = job,
           \/ pc' \notin {"mode", "queues", "guard", "running", "resolve", "spawn"}
           \/ pc' = pc
           \/ pc = "resolve" /\ pc' = "queues"
    PROVE  LaunchInv'
BY DEF LaunchInv, JobType, PlannedFor

\* One step for each part of the path.
LEMMA NextFirstFrameInv == FirstFrameInv /\ [PathNext]_pathVars => FirstFrameInv'
<1> SUFFICES ASSUME LaunchInv, PathInv, [PathNext]_pathVars PROVE LaunchInv' /\ PathInv'
  BY DEF FirstFrameInv
<1>1. CASE LaunchNext /\ UNCHANGED <<copyVars, netVars>>
  BY <1>1, NextLaunchInv, LaunchStepPathInv
<1>2. CASE NoAddress \/ ResolveServerMac \/ ArpChanges
  <2>1. job' = job /\ pc = "resolve" /\ pc' \in {"resolve", "error", "queues"}
    BY <1>2 DEF NoAddress, ResolveServerMac, ArpChanges, Lookup
  <2> QED BY <1>2, <2>1, ResolveStepPathInv, KeepsLaunchInv
<1>3. CASE WriteHeader
  <2>1. job' = job /\ pc' \in {"copy", "abort"}
    BY <1>3 DEF WriteHeader, WriteHeaderIf
  <2> QED BY <1>3, <2>1, WriteHeaderPathInv, KeepsLaunchInv
<1>4. CASE CopyPayload \/ FrameWritten
  <2>1. job' = job /\ pc' \in {"copy", "wire"}
    BY <1>4 DEF CopyPayload, FrameWritten
  <2> QED BY <1>4, <2>1, CopyStepPathInv, KeepsLaunchInv
<1>5. CASE ForeignFrame \/ XdpProgram \/ RxLoop
  <2>1. job' = job /\ pc' \in {"wire", "redirected", "passed", "parsed", "counted"}
    BY <1>5 DEF ForeignFrame, XdpProgram, RxLoop
  <2> QED BY <1>5, <2>1, WireStepPathInv, KeepsLaunchInv
<1>6. CASE Ended \/ UNCHANGED pathVars
  <2>1. /\ pc' = pc /\ job' = job /\ frame' = frame /\ lookups' = lookups
        /\ cpc' = cpc /\ length' = length
    BY <1>6 DEF Ended, pathVars, netVars, copyVars
  <2>2. OwnFrame => OwnFrame'
    BY <2>1 DEF OwnFrame, ChecksumVerifies
  <2>3. PathInv'
    BY <2>1, <2>2 DEF PathInv, LengthsTrue
  <2> QED BY <2>1, <2>3, KeepsLaunchInv
<1> QED BY <1>1, <1>2, <1>3, <1>4, <1>5, <1>6 DEF PathNext

LEMMA AlwaysFirstFrameInv == PathSpec => []FirstFrameInv
BY InitFirstFrameInv, NextFirstFrameInv, PTL DEF PathSpec

\* The workers of every engine are spread evenly over a CPU list that is never
\* empty, for every --cpus, --numa, affinity mask and number of workers
\* (main.rs:98-105, net.rs:75-79, gen.rs:163, sink.rs:54).
THEOREM PinsAreBalanced == PathSpec => []PinsBalanced
<1>1. FirstFrameInv => PinsBalanced
  BY PinsBalancedFromInv DEF FirstFrameInv
<1> QED BY <1>1, AlwaysFirstFrameInv, PTL

\* The workers of a paced engine together keep to --target-pps, for every rate
\* and every number of workers (net.rs:303, gen.rs:154).
THEOREM RateIsRespected == PathSpec => []RateRespected
<1>1. FirstFrameInv => RateRespected
  BY RateRespectedFromInv DEF FirstFrameInv
<1> QED BY <1>1, AlwaysFirstFrameInv, PTL

\* oom_guard bounds the buffers of the socket engines but for the three named
\* cases, for every length, number of threads, amount of memory and width of the
\* product (main.rs:67-78, 138, 210-215).
THEOREM BuffersStayUnderCap == PathSpec => []BuffersUnderCap
<1>1. FirstFrameInv => BuffersUnderCap
  BY BuffersUnderCapFromInv DEF FirstFrameInv
<1> QED BY <1>1, AlwaysFirstFrameInv, PTL

\* No --len makes a length field of a frame that is sent wrap, for every frame
\* size below 2^16 (frame.rs:55-75 with gen.rs:39, 95).
THEOREM LengthsAreTrue == PathSpec => []LengthsTrue
<1>1. FirstFrameInv => LengthsTrue
  BY DEF FirstFrameInv, PathInv
<1> QED BY <1>1, AlwaysFirstFrameInv, PTL

\* The header checksum verifies for every length and every pair of addresses:
\* two rounds of folding always suffice (frame.rs:62-70, 79-86).
THEOREM ChecksumAlwaysVerifies == PathSpec => []ChecksumVerifies
<1>1. FirstFrameInv => ChecksumVerifies
  BY DEF FirstFrameInv, PathInv, OwnFrame, ChecksumVerifies
<1> QED BY <1>1, AlwaysFirstFrameInv, PTL

\* Every frame of the generator passes the checks of the XDP program and is
\* parsed by the sink (gen.rs:95, runperf_xdp.c:33-58, sink.rs:88-90).
THEOREM OwnFramesAreParsed == PathSpec => []OwnFramesParsed
<1>1. FirstFrameInv => OwnFramesParsed
  <2> SUFFICES ASSUME FirstFrameInv, frame.own
               PROVE  Redirects(frame) /\ PayloadAt(frame) = HDRS /\ pc # "counted"
    BY DEF OwnFramesParsed
  <2>1. frame.etype = "ipv4" /\ frame.proto = 17 /\ frame.ihl = 5
    BY DEF FirstFrameInv, PathInv, OwnFrame
  <2>2. frame.total \in Nat /\ frame.total >= OUTER_HDR + HDR
    BY DEF FirstFrameInv, PathInv, OwnFrame
  <2>3. Redirects(frame)
    BY <2>1, <2>2 DEF Redirects, Has, OUTER_HDR, ETH_HDR, IPV4_HDR, UDP_HDR, HDR
  <2>4. PayloadAt(frame) = HDRS
    BY <2>1 DEF PayloadAt, HDRS, OUTER_HDR, ETH_HDR, IPV4_HDR, UDP_HDR
  <2>5. pc # "counted"
    BY <2>2 DEF FirstFrameInv, PathInv, Has, HDRS, HDR
  <2> QED BY <2>3, <2>4, <2>5
<1> QED BY <1>1, AlwaysFirstFrameInv, PTL

\* What the XDP program redirects is UDP with a whole header, whatever other
\* hosts send; the sink looks at the payload of IPv4 only (sink.rs:88-97).
THEOREM RedirectedIsAlwaysUdp == PathSpec => []RedirectedIsUdp
<1>1. FirstFrameInv => RedirectedIsUdp
  <2> SUFFICES ASSUME FirstFrameInv, pc \in {"redirected", "parsed"}
               PROVE  /\ frame.proto = 17 /\ PayloadAt(frame) <= frame.total
                      /\ PayloadAt(frame) # HDRS <=> frame.etype = "ipv6"
    BY DEF RedirectedIsUdp
  <2>1. Redirects(frame) /\ frame.total \in Nat
    BY DEF FirstFrameInv, PathInv
  <2>2. CASE frame.etype = "ipv4"
    BY <2>1, <2>2 DEF Redirects, Has, PayloadAt, HDRS, OUTER_HDR, ETH_HDR, IPV4_HDR, IPV6_HDR, UDP_HDR
  <2>3. CASE frame.etype = "ipv6"
    BY <2>1, <2>3 DEF Redirects, Has, PayloadAt, HDRS, OUTER_HDR, ETH_HDR, IPV4_HDR, IPV6_HDR, UDP_HDR
  <2> QED BY <2>1, <2>2, <2>3 DEF Redirects
<1> QED BY <1>1, AlwaysFirstFrameInv, PTL

\* The address is given up only after six lookups without an answer, the last of
\* them after the last sleep (frame.rs:116-124).
THEOREM GivesUpAfterSix == PathSpec => GivesUpLate
<1>1. FirstFrameInv /\ [PathNext]_pathVars
        => [pc = "resolve" /\ pc' = "error"
              => lookups = 0 \/ (lookups' = 6 /\ arp # "complete")]_pathVars
  <2> SUFFICES ASSUME FirstFrameInv, PathNext, pc = "resolve", pc' = "error"
               PROVE  lookups = 0 \/ (lookups' = 6 /\ arp # "complete")
    OBVIOUS
  <2>1. CASE NoAddress
    BY <2>1 DEF NoAddress
  <2>2. CASE ResolveServerMac
    BY <2>2 DEF ResolveServerMac, Lookup
  <2>3. ~ LaunchNext
    BY DEF LaunchNext, Answer, Parse, ServeXdp, ServeUdp, ServeTcp, NoConnect, ConnectXdp,
           ConnectSocket, OomGuard, Spawn, SpawnXdp
  <2>4. ~(ArpChanges \/ WriteHeader \/ CopyPayload \/ FrameWritten \/ ForeignFrame \/ XdpProgram
            \/ RxLoop \/ Ended)
    BY DEF ArpChanges, WriteHeader, WriteHeaderIf, CopyPayload, FrameWritten, ForeignFrame,
           XdpProgram, RxLoop, Ended
  <2> QED BY <2>1, <2>2, <2>3, <2>4 DEF PathNext
<1> QED BY <1>1, AlwaysFirstFrameInv, PTL DEF PathSpec, GivesUpLate

\* The first frame uses memcpy_dispatch as the copy by itself is specified: every
\* step of the path starts a copy when none is under way, is a step of the copy or
\* leaves it alone (frame.rs:74-75 with simd.rs:33-71).
THEOREM PathImplementsCopy == PathSpec => CopySpec
<1>1. PathInit => CopyInit
  BY DEF PathInit
<1>2. FirstFrameInv /\ [PathNext]_pathVars => [CopyBegin \/ CopyStep]_copyVars
  <2> SUFFICES ASSUME LaunchInv, PathInv, [PathNext]_pathVars
               PROVE  CopyBegin \/ CopyStep \/ UNCHANGED copyVars
    BY DEF FirstFrameInv
  <2>1. CASE WriteHeader
    <3>1. PICK l \in Levels : pc = "running" /\ (CopyStart(PayloadLen, l) \/ UNCHANGED copyVars)
      BY <2>1 DEF WriteHeader, WriteHeaderIf
    <3>2. cpc = "idle" /\ PayloadLen \in Nat
      BY <3>1, PayloadLenType DEF PathInv, LaunchPcs
    <3> QED BY <3>1, <3>2 DEF CopyBegin
  <2>2. CASE CopyPayload
    BY <2>2 DEF CopyPayload
  <2>3. CASE ~ WriteHeader /\ ~ CopyPayload
    BY <2>3 DEF PathNext, NoAddress, ResolveServerMac, Lookup, ArpChanges, FrameWritten,
                ForeignFrame, XdpProgram, RxLoop, Ended, pathVars
  <2> QED BY <2>1, <2>2, <2>3
<1> QED BY <1>1, <1>2, AlwaysFirstFrameInv, PTL DEF PathSpec, CopySpec

\* Hence the payload of every frame is the payload that was given
\* (frame.rs:74-75, simd.rs:73-150).
THEOREM PayloadCopiedExactly == PathSpec => []CopyExact
BY PathImplementsCopy, CopyIsExact, PTL
=============================================================================
