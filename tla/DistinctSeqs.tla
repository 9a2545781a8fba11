---------------------------- MODULE DistinctSeqs ----------------------------
(***************************************************************************)
(* Facts about sequences without repetitions, the form in which UMEM       *)
(* frames sit in pools and rings.                                          *)
(***************************************************************************)
EXTENDS Integers, Sequences, FiniteSets, Functions, SequenceTheorems,
        FiniteSetTheorems, TLAPS

\* The elements of a sequence and its injectivity, by index.
LEMMA SeqElements ==
    ASSUME NEW S, NEW s \in Seq(S)
    PROVE  /\ Len(s) \in Nat
           /\ Range(s) \in SUBSET S
           /\ \A x : x \in Range(s) <=> \E i \in 1..Len(s) : s[i] = x
           /\ IsInjective(s) <=> \A i, j \in 1..Len(s) : s[i] = s[j] => i = j
<1>1. DOMAIN s = 1..Len(s) /\ Len(s) \in Nat
  BY LenProperties
<1> QED BY <1>1, RangeOfSeq DEF Range, IsInjective

LEMMA EmptyDistinct ==
    ASSUME NEW S
    PROVE  << >> \in Seq(S) /\ IsInjective(<< >>) /\ Range(<< >>) = {}
BY SeqElements DEF Range, IsInjective

\* Pushing an element that is not there yet.
LEMMA AppendDistinct ==
    ASSUME NEW S, NEW s \in Seq(S), NEW e \in S
    PROVE  /\ Append(s, e) \in Seq(S)
           /\ Range(Append(s, e)) = Range(s) \cup {e}
           /\ IsInjective(s) /\ e \notin Range(s) => IsInjective(Append(s, e))
<1> DEFINE t == Append(s, e)
           n == Len(s)
<1>1. /\ t \in Seq(S) /\ n \in Nat /\ Len(t) = n + 1
      /\ \A i \in 1..n : t[i] = s[i]
      /\ t[n + 1] = e
  BY AppendProperties
<1> HIDE DEF t
<1>2. Range(t) = Range(s) \cup {e}
  <2>1. ASSUME NEW x PROVE x \in Range(t) <=> x \in Range(s) \/ x = e
    <3>1. x \in Range(t) <=> \E i \in 1 .. n + 1 : t[i] = x
      BY <1>1, SeqElements
    <3>2. x \in Range(s) <=> \E i \in 1..n : s[i] = x
      BY SeqElements
    <3> HIDE DEF n
    <3>3. ASSUME x \in Range(t) PROVE x \in Range(s) \/ x = e
      <4>1. PICK i \in 1 .. n + 1 : t[i] = x
        BY <3>1, <3>3
      <4>2. CASE i = n + 1
        BY <1>1, <4>1, <4>2
      <4>3. CASE i \in 1..n
        BY <1>1, <3>2, <4>1, <4>3
      <4> QED BY <1>1, <4>2, <4>3
    <3>4. ASSUME x \in Range(s) PROVE x \in Range(t)
      <4>1. PICK i \in 1..n : s[i] = x
        BY <3>2, <3>4
      <4>2. i \in 1 .. n + 1
        BY <1>1
      <4> QED BY <1>1, <3>1, <4>1, <4>2
    <3>5. ASSUME x = e PROVE x \in Range(t)
      <4>1. n + 1 \in 1 .. n + 1
        BY <1>1
      <4> QED BY <1>1, <3>1, <3>5, <4>1
    <3> QED BY <3>3, <3>4, <3>5
  <2> QED BY <2>1
<1>3. ASSUME IsInjective(s), e \notin Range(s) PROVE IsInjective(t)
  <2>1. \A i, j \in 1..n : s[i] = s[j] => i = j
    BY <1>3, SeqElements
  <2>2. \A i \in 1..n : s[i] # e
    BY <1>3, SeqElements
  <2> HIDE DEF n
  <2>3. ASSUME NEW i \in 1 .. n + 1, NEW j \in 1 .. n + 1, t[i] = t[j] PROVE i = j
    BY <1>1, <2>1, <2>2, <2>3
  <2>4. \A i, j \in 1..Len(t) : t[i] = t[j] => i = j
    BY <1>1, <2>3
  <2> QED BY <1>1, <2>4, SeqElements
<1> QED BY <1>1, <1>2, <1>3 DEF t

\* Taking the oldest element of a ring.
LEMMA TailDistinct ==
    ASSUME NEW S, NEW s \in Seq(S), s # << >>, IsInjective(s)
    PROVE  /\ Tail(s) \in Seq(S) /\ IsInjective(Tail(s))
           /\ Head(s) \in Range(s)
           /\ Range(Tail(s)) = Range(s) \ {Head(s)}
<1> DEFINE t == Tail(s)
           n == Len(s)
<1>1. /\ t \in Seq(S) /\ n \in Nat \ {0} /\ Len(t) = n - 1
      /\ \A i \in 1 .. n - 1 : t[i] = s[i + 1]
      /\ Head(s) = s[1]
  BY HeadTailProperties, EmptySeq, LenProperties
<1>2. /\ \A i, j \in 1..n : s[i] = s[j] => i = j
      /\ \A x : x \in Range(s) <=> \E i \in 1..n : s[i] = x
  BY SeqElements
<1> HIDE DEF t, n
<1>3. \A x : x \in Range(t) <=> \E i \in 1 .. n - 1 : t[i] = x
  <2>1. \A x : x \in Range(t) <=> \E i \in 1..Len(t) : t[i] = x
    BY <1>1, SeqElements
  <2> QED BY <1>1, <2>1
<1>4. IsInjective(t)
  <2>1. ASSUME NEW i \in 1 .. n - 1, NEW j \in 1 .. n - 1, t[i] = t[j] PROVE i = j
    <3>1. i + 1 \in 1..n /\ j + 1 \in 1..n /\ s[i + 1] = s[j + 1]
      BY <1>1, <2>1
    <3>2. i + 1 = j + 1
      BY <1>2, <3>1
    <3> QED BY <3>2
  <2>2. \A i, j \in 1..Len(t) : t[i] = t[j] => i = j
    BY <1>1, <2>1
  <2> QED BY <1>1, <2>2, SeqElements
<1>5. s[1] \in Range(s)
  BY <1>1, <1>2
<1>6. ASSUME NEW x PROVE x \in Range(t) <=> x \in Range(s) /\ x # s[1]
  <2>1. ASSUME x \in Range(t) PROVE x \in Range(s) /\ x # s[1]
    <3>1. PICK i \in 1 .. n - 1 : t[i] = x
      BY <1>3, <2>1
    <3>2. i + 1 \in 1..n /\ s[i + 1] = x /\ i + 1 # 1 /\ 1 \in 1..n
      BY <1>1, <3>1
    <3> QED BY <1>2, <3>2
  <2>2. ASSUME x \in Range(s), x # s[1] PROVE x \in Range(t)
    <3>1. PICK i \in 1..n : s[i] = x
      BY <1>2, <2>2
    <3>2. i - 1 \in 1 .. n - 1 /\ (i - 1) + 1 = i
      BY <1>1, <2>2, <3>1
    <3>3. t[i - 1] = x
      BY <1>1, <3>1, <3>2
    <3> QED BY <1>3, <3>2, <3>3
  <2> QED BY <2>1, <2>2
<1>7. Range(t) = Range(s) \ {s[1]}
  BY <1>6
<1> QED BY <1>1, <1>4, <1>5, <1>7 DEF t

\* Popping the newest element of a stack.
LEMMA FrontDistinct ==
    ASSUME NEW S, NEW s \in Seq(S), s # << >>, IsInjective(s)
    PROVE  /\ SubSeq(s, 1, Len(s) - 1) \in Seq(S)
           /\ IsInjective(SubSeq(s, 1, Len(s) - 1))
           /\ s[Len(s)] \in Range(s)
           /\ Range(SubSeq(s, 1, Len(s) - 1)) = Range(s) \ {s[Len(s)]}
<1> DEFINE n == Len(s)
           t == SubSeq(s, 1, n - 1)
<1>1. n \in Nat \ {0} /\ \A i \in 1..n : s[i] \in S
  BY EmptySeq, ElementOfSeq
<1>2. /\ t \in Seq(S) /\ Len(t) = n - 1
      /\ \A i \in 1 .. n - 1 : t[i] = s[i]
  <2>1. \A i \in 1 .. n - 1 : s[i] \in S
    BY <1>1
  <2>2. 1 \in Int /\ n - 1 \in Int /\ (n - 1) - 1 + 1 = n - 1
    BY <1>1
  <2> HIDE DEF n
  <2>3. /\ t \in Seq(S)
        /\ Len(t) = IF 1 <= n - 1 THEN (n - 1) - 1 + 1 ELSE 0
        /\ \A i \in 1 .. (n - 1) - 1 + 1 : t[i] = s[1 + i - 1]
    BY <2>1, <2>2, SubSeqProperties
  <2>4. \A i \in 1 .. n - 1 : 1 + i - 1 = i
    BY <1>1
  <2>5. Len(t) = n - 1
    BY <1>1, <2>3
  <2> QED BY <2>2, <2>3, <2>4, <2>5
<1>3. /\ \A i, j \in 1..n : s[i] = s[j] => i = j
      /\ \A x : x \in Range(s) <=> \E i \in 1..n : s[i] = x
  BY SeqElements
<1> HIDE DEF t, n
<1>4. \A x : x \in Range(t) <=> \E i \in 1 .. n - 1 : t[i] = x
  <2>1. \A x : x \in Range(t) <=> \E i \in 1..Len(t) : t[i] = x
    BY <1>2, SeqElements
  <2> QED BY <1>2, <2>1
<1>5. IsInjective(t)
  <2>1. ASSUME NEW i \in 1 .. n - 1, NEW j \in 1 .. n - 1, t[i] = t[j] PROVE i = j
    BY <1>1, <1>2, <1>3, <2>1
  <2>2. \A i, j \in 1..Len(t) : t[i] = t[j] => i = j
    BY <1>2, <2>1
  <2> QED BY <1>2, <2>2, SeqElements
<1>6. n \in 1..n
  BY <1>1
<1>7. ASSUME NEW x PROVE x \in Range(t) <=> x \in Range(s) /\ x # s[n]
  <2>1. ASSUME x \in Range(t) PROVE x \in Range(s) /\ x # s[n]
    <3>1. PICK i \in 1 .. n - 1 : t[i] = x
      BY <1>4, <2>1
    <3>2. i \in 1..n /\ s[i] = x /\ i # n
      BY <1>1, <1>2, <3>1
    <3> QED BY <1>3, <1>6, <3>2
  <2>2. ASSUME x \in Range(s), x # s[n] PROVE x \in Range(t)
    <3>1. PICK i \in 1..n : s[i] = x
      BY <1>3, <2>2
    <3>2. i \in 1 .. n - 1
      BY <1>1, <2>2, <3>1
    <3> QED BY <1>2, <1>4, <3>1, <3>2
  <2> QED BY <2>1, <2>2
<1>8. Range(t) = Range(s) \ {s[n]} /\ s[n] \in Range(s)
  BY <1>3, <1>6, <1>7
<1> QED BY <1>2, <1>5, <1>8 DEF t, n

\* Moving one sequence behind another.
LEMMA ConcatDistinct ==
    ASSUME NEW S, NEW s \in Seq(S), NEW t \in Seq(S),
           IsInjective(s), IsInjective(t), Range(s) \cap Range(t) = {}
    PROVE  /\ s \o t \in Seq(S) /\ IsInjective(s \o t)
           /\ Range(s \o t) = Range(s) \cup Range(t)
<1> DEFINE u == s \o t
           m == Len(s)
           n == Len(t)
<1>1. /\ u \in Seq(S) /\ m \in Nat /\ n \in Nat /\ Len(u) = m + n
      /\ \A i \in 1 .. m + n : u[i] = IF i <= m THEN s[i] ELSE t[i - m]
      /\ Range(u) = Range(s) \cup Range(t)
  BY ConcatProperties, RangeConcatenation, LenProperties
<1>2. /\ \A i, j \in 1..m : s[i] = s[j] => i = j
      /\ \A i, j \in 1..n : t[i] = t[j] => i = j
      /\ \A i \in 1..m : s[i] \in Range(s)
      /\ \A i \in 1..n : t[i] \in Range(t)
  BY SeqElements
<1> HIDE DEF u, m, n
<1>3. ASSUME NEW i \in 1 .. m + n, NEW j \in 1 .. m + n, u[i] = u[j] PROVE i = j
  <2>1. CASE i <= m /\ j <= m
    BY <1>1, <1>2, <1>3, <2>1
  <2>2. CASE i <= m /\ ~(j <= m)
    <3>1. i \in 1..m /\ j - m \in 1..n /\ u[i] = s[i] /\ u[j] = t[j - m]
      BY <1>1, <2>2
    <3> QED BY <1>2, <1>3, <3>1
  <2>3. CASE ~(i <= m) /\ j <= m
    <3>1. j \in 1..m /\ i - m \in 1..n /\ u[j] = s[j] /\ u[i] = t[i - m]
      BY <1>1, <2>3
    <3> QED BY <1>2, <1>3, <3>1
  <2>4. CASE ~(i <= m) /\ ~(j <= m)
    <3>1. j - m \in 1..n /\ i - m \in 1..n /\ u[j] = t[j - m] /\ u[i] = t[i - m]
      BY <1>1, <2>4
    <3>2. i - m = j - m
      BY <1>2, <1>3, <3>1
    <3> QED BY <1>1, <3>2
  <2> QED BY <2>1, <2>2, <2>3, <2>4
<1>4. \A i, j \in 1..Len(u) : u[i] = u[j] => i = j
  BY <1>1, <1>3
<1> QED BY <1>1, <1>4, SeqElements DEF u

\* A sequence without repetitions is as long as it has elements.
LEMMA DistinctCardinality ==
    ASSUME NEW S, IsFiniteSet(S), NEW s \in Seq(S), IsInjective(s)
    PROVE  /\ IsFiniteSet(Range(s))
           /\ Cardinality(Range(s)) = Len(s)
<1>1. Len(s) \in Nat /\ s \in [1..Len(s) -> S] /\ DOMAIN s = 1..Len(s)
  BY LenProperties
<1>2. s \in Injection(1..Len(s), Range(s)) /\ s \in Surjection(1..Len(s), Range(s))
  BY <1>1 DEF Injection, Surjection, Range, IsInjective
<1>3. IsFiniteSet(1..Len(s)) /\ Cardinality(1..Len(s)) = Len(s)
  <2>1. 1 \in Int /\ Len(s) \in Int
    BY <1>1
  <2>2. /\ IsFiniteSet(1..Len(s))
        /\ Cardinality(1..Len(s)) = IF 1 > Len(s) THEN 0 ELSE Len(s) - 1 + 1
    BY <2>1, FS_Interval
  <2> QED BY <1>1, <2>2
<1>4. IsFiniteSet(Range(s))
  BY SeqElements, FS_Subset
<1>5. Cardinality(1..Len(s)) = Cardinality(Range(s))
  BY <1>2, <1>4, FS_Injection
<1> QED BY <1>3, <1>4, <1>5
=============================================================================
