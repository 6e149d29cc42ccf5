---------------------------- MODULE QueueLemmas ----------------------------
(***************************************************************************)
(* Sequences without duplicates, as the queues of workqueue.Type and of    *)
(* DeltaFIFO are: what appending, removing the head and concatenating do;  *)
(* and the least and the largest element of a set of numbers.              *)
(***************************************************************************)
EXTENDS Integers, Sequences, Functions, SequenceTheorems, WellFoundedInduction, TLAPS

\* Appending adds one element to the range, and keeps a sequence free of
\* duplicates when the element is new: what Add, Done and
\* AddIfNotPresent do to a queue.
LEMMA AppendRange ==
  ASSUME NEW S, NEW s \in Seq(S), NEW x \in S
  PROVE  /\ Append(s, x) \in Seq(S)
         /\ Range(Append(s, x)) = Range(s) \cup {x}
         /\ IsInjective(s) /\ x \notin Range(s) => IsInjective(Append(s, x))
<1> DEFINE t == Append(s, x)
<1>1. /\ t \in Seq(S)
      /\ Len(t) = Len(s) + 1
      /\ \A i \in 1 .. Len(s) : t[i] = s[i]
      /\ t[Len(s) + 1] = x
  BY AppendProperties
<1>2. DOMAIN t = 1 .. Len(s) + 1 /\ DOMAIN s = 1 .. Len(s) /\ Len(s) \in Nat
  BY <1>1, LenProperties
<1> HIDE DEF t
<1>3. Range(t) = Range(s) \cup {x}
  BY <1>1, <1>2 DEF Range
<1>4. IsInjective(s) /\ x \notin Range(s) => IsInjective(t)
  BY <1>1, <1>2 DEF IsInjective, Range
<1> QED BY <1>1, <1>3, <1>4 DEF t

\* Removing the head removes exactly that element from the range of a sequence
\* without duplicates: what Get and Pop do to a
\* queue.
LEMMA TailRange ==
  ASSUME NEW S, NEW s \in Seq(S), s # <<>>
  PROVE  /\ Head(s) \in S
         /\ Tail(s) \in Seq(S)
         /\ Head(s) \in Range(s)
         /\ IsInjective(s) => /\ Range(Tail(s)) = Range(s) \ {Head(s)}
                              /\ IsInjective(Tail(s))
<1> DEFINE t == Tail(s)
<1>1. /\ Head(s) \in S
      /\ t \in Seq(S)
      /\ Len(t) = Len(s) - 1
      /\ \A i \in 1 .. Len(t) : t[i] = s[i + 1]
      /\ Head(s) = s[1]
  BY HeadTailProperties
<1>2. /\ DOMAIN t = 1 .. Len(s) - 1
      /\ DOMAIN s = 1 .. Len(s)
      /\ Len(s) \in Nat \ {0}
  BY <1>1, LenProperties, EmptySeq
<1> HIDE DEF t
<1>3. Head(s) \in Range(s)
  BY <1>1, <1>2 DEF Range
<1>4. ASSUME IsInjective(s)
      PROVE  Range(t) = Range(s) \ {Head(s)} /\ IsInjective(t)
  <2>1. \A i, j \in 1 .. Len(s) : s[i] = s[j] => i = j
    BY <1>2, <1>4 DEF IsInjective
  <2>2. IsInjective(t)
    BY <1>1, <1>2, <2>1 DEF IsInjective
  <2>3. ASSUME NEW e \in Range(t)
        PROVE  e \in Range(s) \ {Head(s)}
    <3>1. PICK i \in 1 .. Len(s) - 1 : e = t[i]
      BY <1>2 DEF Range
    <3>2. e = s[i + 1] /\ i + 1 \in 1 .. Len(s) /\ i + 1 # 1
      BY <1>1, <1>2, <3>1
    <3>3. s[i + 1] # s[1]
      BY <1>2, <2>1, <3>2
    <3>4. s[i + 1] \in Range(s)
      BY <1>2, <3>2 DEF Range
    <3> QED BY <1>1, <3>2, <3>3, <3>4
  <2>4. ASSUME NEW e \in Range(s) \ {Head(s)}
        PROVE  e \in Range(t)
    <3>1. PICK i \in 1 .. Len(s) : e = s[i] /\ i # 1
      BY <1>1, <1>2 DEF Range
    <3>2. i - 1 \in 1 .. Len(s) - 1 /\ t[i - 1] = s[i]
      BY <1>1, <1>2, <3>1
    <3> QED BY <1>2, <3>1, <3>2 DEF Range
  <2> QED BY <2>2, <2>3, <2>4
<1> QED BY <1>1, <1>3, <1>4 DEF t

\* Concatenation joins the ranges, and makes no duplicate when they are
\* disjoint: what queueing several keys does to f.queue.
LEMMA ConcatRange ==
  ASSUME NEW S, NEW s \in Seq(S), NEW t \in Seq(S)
  PROVE  /\ s \o t \in Seq(S)
         /\ Range(s \o t) = Range(s) \cup Range(t)
         /\ IsInjective(s) /\ IsInjective(t) /\ Range(s) \cap Range(t) = {}
              => IsInjective(s \o t)
<1> DEFINE u == s \o t
<1>1. /\ u \in Seq(S)
      /\ Len(u) = Len(s) + Len(t)
      /\ \A i \in 1 .. Len(u) : u[i] = IF i <= Len(s) THEN s[i] ELSE t[i - Len(s)]
  BY ConcatProperties
<1>2. /\ DOMAIN s = 1 .. Len(s) /\ Len(s) \in Nat
      /\ DOMAIN t = 1 .. Len(t) /\ Len(t) \in Nat
      /\ DOMAIN u = 1 .. Len(s) + Len(t)
  BY <1>1, LenProperties
<1> HIDE DEF u
<1>3. \A i \in 1 .. Len(s) : i \in DOMAIN u /\ u[i] = s[i]
  BY <1>1, <1>2
<1>4. \A i \in 1 .. Len(t) : Len(s) + i \in DOMAIN u /\ u[Len(s) + i] = t[i]
  BY <1>1, <1>2
<1>5. \A i \in DOMAIN u : \/ i \in 1 .. Len(s)
                          \/ i - Len(s) \in 1 .. Len(t) /\ u[i] = t[i - Len(s)]
  BY <1>1, <1>2
<1>6. Range(u) = Range(s) \cup Range(t)
  <2>1. Range(s) \subseteq Range(u)
    BY <1>2, <1>3 DEF Range
  <2>2. Range(t) \subseteq Range(u)
    BY <1>2, <1>4 DEF Range
  <2>3. Range(u) \subseteq Range(s) \cup Range(t)
    BY <1>2, <1>3, <1>5 DEF Range
  <2> QED BY <2>1, <2>2, <2>3
<1>7. ASSUME IsInjective(s), IsInjective(t), Range(s) \cap Range(t) = {}
      PROVE  IsInjective(u)
  <2>1. \A i, j \in 1 .. Len(s) : s[i] = s[j] => i = j
    BY <1>2, <1>7 DEF IsInjective
  <2>2. \A i, j \in 1 .. Len(t) : t[i] = t[j] => i = j
    BY <1>2, <1>7 DEF IsInjective
  <2>3. \A i \in 1 .. Len(s), j \in 1 .. Len(t) : s[i] # t[j]
    BY <1>2, <1>7 DEF Range
  <2>4. ASSUME NEW i \in DOMAIN u, NEW j \in DOMAIN u, u[i] = u[j]
        PROVE  i = j
    BY <1>2, <1>3, <1>5, <2>1, <2>2, <2>3, <2>4
  <2> QED BY <2>4 DEF IsInjective
<1> QED BY <1>1, <1>6, <1>7 DEF u

\* A set of numbers that is not empty has a least element, as the order on Nat is
\* well founded: the channel of ParallelizeUntil hands out its first chunk.
LEMMA HasMinimum ==
  ASSUME NEW T \in SUBSET Nat, T # {}
  PROVE  \E i \in T : \A j \in T : i <= j
<1> DEFINE R == {p \in Nat \X Nat : p[1] < p[2]}
<1>1. IsWellFoundedOn(R, Nat)
  BY NatLessThanWellFounded DEF OpToRel
<1>2. PICK i \in T : \A j \in T : ~(<<j, i>> \in R)
  <2> HIDE DEF R
  <2> QED BY <1>1, WFMin
<1>3. \A j \in T : ~(j < i) /\ i \in Nat /\ j \in Nat
  BY <1>2
<1> QED BY <1>3

\* A set of positive numbers that is bounded and not empty has a maximum: the last
\* change to an object in a history, the last notification of it in a buffer.  Its
\* distance to the bound is the least.
LEMMA HasMaximum ==
  ASSUME NEW v \in Nat, NEW S \in SUBSET (1 .. v), S # {}
  PROVE  \E n \in S : \A m \in S : m <= n
<1> DEFINE T == {i \in Nat : v - i \in S}
<1>1. T \subseteq Nat /\ T # {}
  <2>1. PICK n \in S : TRUE
    OBVIOUS
  <2>2. v - n \in Nat /\ v - (v - n) = n
    OBVIOUS
  <2>3. v - n \in T
    BY <2>2
  <2> QED BY <2>3
<1>2. PICK i \in T : \A j \in T : i <= j
  <2> HIDE DEF T
  <2> QED BY <1>1, HasMinimum
<1>3. v - i \in S /\ i \in Nat
  OBVIOUS
<1>4. ASSUME NEW m \in S
      PROVE  m <= v - i
  <2>1. v - m \in Nat /\ v - (v - m) = m
    OBVIOUS
  <2>2. v - m \in T
    BY <2>1
  <2> QED BY <1>2, <1>3, <2>2
<1> QED BY <1>3, <1>4
=============================================================================
