---------------------------- MODULE HelperProofs ----------------------------
(***************************************************************************)
(* Proofs about the helpers of util/workqueue.  ParallelizeUntil, for any  *)
(* number of workers and pieces and any chunk size: no piece is worked on  *)
(* twice, and none is left out unless the context is cancelled.  The rate  *)
(* limiters, for durations of any width and any delays: the answers are    *)
(* bounded and grow.  The latter rests on a few facts about powers of two, *)
(* which are derived from the recursive definition of Pow2.                *)
(***************************************************************************)
EXTENDS Parallelize, RateLimiter, QueueLemmas, FiniteSetTheorems

-----------------------------------------------------------------------------
(* ParallelizeUntil. *)

\* The i-th piece belongs to chunk c.
InChunk(c, i) == c * chunkSize <= i /\ i < c * chunkSize + chunkSize

\* A chunk of the channel has it.
Queued(i) == \E c \in toProcess : InChunk(c, i)

\* Worker w is to call doWorkPiece with it, unless the context is cancelled.
Remains(w, i) ==
  /\ w \in workers /\ i < end[w]
  /\ (pc[w] = "piece" /\ p[w] <= i) \/ (pc[w] = "call" /\ p[w] < i)

Sizes ==
  /\ \A c \in toProcess : c * chunkSize < pieces
  /\ \A w \in workers : end[w] <= pieces
  /\ \A w \in workers : pc[w] = "call" => p[w] < end[w]

\* What is to be done has not been done, and nobody else is to do it.
Apart ==
  \A i \in 0 .. pieces - 1 :
    /\ Queued(i) => count[i] = 0
    /\ \A w \in workers : Remains(w, i) =>
         /\ count[i] = 0 /\ ~Queued(i)
         /\ \A v \in workers : Remains(v, i) => v = w

\* Nothing is left out, unless the context is cancelled.
Accounted ==
  ~cancelled =>
    /\ \A i \in 0 .. pieces - 1 :
         count[i] = 1 \/ Queued(i) \/ \E w \in workers : Remains(w, i)
    /\ \A w \in workers : pc[w] = "done" => toProcess = {}

\* ParallelizeUntil only returns when its workers, if any, are done.
Waited ==
  /\ returned => \A w \in workers : pc[w] = "done"
  /\ workers = {} => toProcess = {}

Shared == TypeOK /\ Sizes /\ Apart /\ AtMostOnce /\ Accounted /\ Waited

-----------------------------------------------------------------------------
(* Cutting the pieces into chunks *)

LEMMA Multiples ==
  ASSUME NEW c \in Nat, NEW d \in Nat, NEW s \in Nat, c < d
  PROVE  c * s + s <= d * s
<1> DEFINE e == d - c - 1
<1>1. e \in Nat /\ d = c + 1 + e
  OBVIOUS
<1>2. e * s \in Nat
  BY <1>1
<1> HIDE DEF e
<1>3. (c + 1 + e) * s = c * s + s + e * s
  BY <1>1
<1> QED BY <1>1, <1>2, <1>3

\* A piece is in one chunk.
LEMMA OneChunk ==
  ASSUME NEW c \in Nat, NEW d \in Nat, NEW s \in Nat \ {0}, NEW i \in Nat,
         c * s <= i, i < c * s + s, d * s <= i, i < d * s + s
  PROVE  c = d
<1>0. c * s \in Nat /\ d * s \in Nat
  OBVIOUS
<1>1. ~(c < d)
  <2> SUFFICES ASSUME c < d PROVE FALSE
    OBVIOUS
  <2>1. c * s + s <= d * s
    BY Multiples
  <2> QED BY <1>0, <2>1
<1>2. ~(d < c)
  <2> SUFFICES ASSUME d < c PROVE FALSE
    OBVIOUS
  <2>1. d * s + s <= c * s
    BY Multiples
  <2> QED BY <1>0, <2>1
<1> QED BY <1>1, <1>2

\* The rest of a division is less than the divisor.
LEMMA Division ==
  ASSUME NEW a \in Nat, NEW s \in Nat \ {0}
  PROVE  /\ a \div s \in Nat
         /\ (a \div s) * s <= a /\ a < (a \div s) * s + s
OBVIOUS

\* ceilDiv: the chunks start within the pieces, and every piece is in one of them.
LEMMA CeilDiv ==
  ASSUME NEW n \in Nat, NEW s \in Nat \ {0}
  PROVE  /\ ceilDiv(n, s) \in Nat
         /\ \A c \in 0 .. ceilDiv(n, s) - 1 : c * s < n /\ c < n
         /\ \A i \in 0 .. n - 1 : \E c \in 0 .. ceilDiv(n, s) - 1 :
              c * s <= i /\ i < c * s + s
         /\ n = 0 => ceilDiv(n, s) = 0
<1> DEFINE q == ceilDiv(n, s)
<1>1. /\ q \in Nat /\ q * s \in Nat
      /\ q * s <= n + s - 1 /\ n + s - 1 < q * s + s
  <2>1. n + s - 1 \in Nat
    OBVIOUS
  <2>2. q \in Nat /\ q * s <= n + s - 1 /\ n + s - 1 < q * s + s
    BY <2>1, Division DEF ceilDiv
  <2> HIDE DEF q
  <2> QED BY <2>2
<1> HIDE DEF q
<1>2. ASSUME NEW c \in 0 .. q - 1
      PROVE  c * s < n /\ c < n
  <2>1. c \in Nat /\ c < q /\ c * s \in Nat
    BY <1>1
  <2>2. c * s + s <= q * s
    BY <1>1, <2>1, Multiples
  <2>3. c * s < n
    BY <1>1, <2>1, <2>2
  <2>4. c <= c * s
    <3>1. CASE c = 0
      BY <2>1, <3>1
    <3>2. CASE c # 0
      <4> DEFINE r == s - 1
      <4>1. r \in Nat /\ s = r + 1
        OBVIOUS
      <4> HIDE DEF r
      <4>2. c * r \in Nat /\ c * (r + 1) = c * r + c
        BY <2>1, <4>1
      <4> QED BY <2>1, <4>1, <4>2
    <3> QED BY <3>1, <3>2
  <2> QED BY <2>1, <2>3, <2>4
<1>3. ASSUME NEW i \in 0 .. n - 1
      PROVE  \E c \in 0 .. q - 1 : c * s <= i /\ i < c * s + s
  <2> DEFINE c == i \div s
  <2>1. c \in Nat /\ c * s <= i /\ i < c * s + s
    BY Division
  <2> HIDE DEF c
  <2>2. c < q
    <3>1. CASE c = q
      BY <1>1, <2>1, <3>1
    <3>2. CASE q < c
      <4>1. q * s + s <= c * s /\ c * s \in Nat
        BY <1>1, <2>1, <3>2, Multiples
      <4> QED BY <1>1, <2>1, <4>1
    <3> QED BY <1>1, <2>1, <3>1, <3>2
  <2>3. c \in 0 .. q - 1
    BY <1>1, <2>1, <2>2
  <2> QED BY <2>1, <2>3
<1>4. n = 0 => q = 0
  <2>1. CASE q # 0
    <3>1. 0 * s + s <= q * s /\ 0 * s = 0
      BY <1>1, <2>1, Multiples
    <3> QED BY <1>1, <3>1
  <2> QED BY <2>1
<1> QED BY <1>1, <1>2, <1>3, <1>4 DEF q

-----------------------------------------------------------------------------
(* The workers *)

LEMMA InitShared ==
  ASSUME Init
  PROVE  Shared
<1> DEFINE q == ceilDiv(pieces, chunkSize)
<1>1. /\ pieces \in 0 .. MaxPieces /\ chunkSize \in 1 .. MaxChunkSize
      /\ pieces \in Nat /\ chunkSize \in Nat \ {0} /\ MaxPieces \in Nat /\ MaxWorkers \in Nat \ {0}
      /\ toProcess = 0 .. q - 1
  BY ParallelizeAssumption DEF Init
<1>2. /\ q \in Nat /\ (pieces = 0 => q = 0)
      /\ \A c \in 0 .. q - 1 : c * chunkSize < pieces /\ c < pieces
      /\ \A i \in 0 .. pieces - 1 : \E c \in 0 .. q - 1 : InChunk(c, i)
  BY <1>1, CeilDiv DEF InChunk
<1> HIDE DEF q
<1>3. Cardinality(toProcess) = q
  <2>1. CASE q = 0
    <3>1. toProcess = {}
      BY <1>1, <2>1
    <3> QED BY <2>1, <3>1, FS_EmptySet
  <2>2. CASE q # 0
    <3>1. 0 \in Int /\ q - 1 \in Int /\ 0 <= q - 1 /\ q - 1 - 0 + 1 = q
      BY <1>2, <2>2
    <3> QED BY <1>1, <3>1, FS_Interval
  <2> QED BY <2>1, <2>2
<1>4. PICK n \in 1 .. MaxWorkers : workers = 1 .. (IF q < n THEN q ELSE n)
  BY <1>3 DEF Init
<1>5. /\ workers \in SUBSET (1 .. MaxWorkers) /\ (q = 0 <=> workers = {})
      /\ q = 0 => toProcess = {}
  <2>1. CASE q = 0
    BY <1>1, <1>2, <1>4, <2>1
  <2>2. CASE q # 0
    <3>1. 1 \in workers
      BY <1>1, <1>2, <1>4, <2>2
    <3> QED BY <1>1, <1>2, <1>4, <2>2, <3>1
  <2> QED BY <2>1, <2>2
<1>6. TypeOK
  <2>1. toProcess \in SUBSET (0 .. MaxPieces - 1)
    BY <1>1, <1>2
  <2>2. /\ pc \in [1 .. MaxWorkers -> {"range", "piece", "call", "done"}]
        /\ p \in [1 .. MaxWorkers -> 0 .. MaxPieces]
        /\ end \in [1 .. MaxWorkers -> 0 .. MaxPieces]
        /\ count \in [0 .. MaxPieces - 1 -> Nat]
    BY <1>1 DEF Init
  <2> QED BY <1>1, <1>5, <2>1, <2>2 DEF Init, TypeOK
<1>7. \A w \in workers : pc[w] = "range" /\ end[w] = 0
  BY <1>5 DEF Init
<1>8. \A i \in 0 .. MaxPieces - 1 : count[i] = 0
  BY DEF Init
<1>9. \A i \in 0 .. pieces - 1 : i \in 0 .. MaxPieces - 1 /\ Queued(i)
  BY <1>1, <1>2 DEF Queued
<1>10. Sizes /\ Apart /\ AtMostOnce /\ Accounted
  <2>1. Sizes /\ AtMostOnce
    <3>1. \A c \in toProcess : c * chunkSize < pieces
      BY <1>1, <1>2
    <3>2. \A w \in workers : end[w] <= pieces /\ pc[w] # "call"
      BY <1>1, <1>7
    <3>3. AtMostOnce
      BY <1>8 DEF AtMostOnce
    <3> QED BY <3>1, <3>2, <3>3 DEF Sizes
  <2>2. \A w \in workers : \A i : ~Remains(w, i)
    BY <1>7 DEF Remains
  <2>3. Apart
    BY <1>8, <1>9, <2>2 DEF Apart
  <2>4. Accounted
    BY <1>7, <1>9 DEF Accounted
  <2> QED BY <2>1, <2>3, <2>4
<1>11. Waited
  BY <1>1, <1>2, <1>5 DEF Init, Waited
<1> QED BY <1>6, <1>10, <1>11 DEF Shared

\* A worker takes a chunk: what was queued remains to be done by it.
LEMMA NextChunkShares ==
  ASSUME Shared, NEW w \in workers, NextChunk(w)
  PROVE  Shared'
<1>0. TypeOK /\ Sizes /\ Apart /\ AtMostOnce /\ Accounted /\ Waited
  BY DEF Shared
<1>1. /\ pieces \in Nat /\ pieces <= MaxPieces /\ MaxPieces \in Nat
      /\ chunkSize \in Nat \ {0} /\ w \in 1 .. MaxWorkers
      /\ toProcess \subseteq Nat /\ workers \subseteq 1 .. MaxWorkers
      /\ pc \in [1 .. MaxWorkers -> {"range", "piece", "call", "done"}]
      /\ p \in [1 .. MaxWorkers -> 0 .. MaxPieces]
      /\ end \in [1 .. MaxWorkers -> 0 .. MaxPieces]
  BY <1>0, ParallelizeAssumption DEF TypeOK
<1> DEFINE chunk == CHOOSE c \in toProcess : \A d \in toProcess : c <= d
           start == chunk * chunkSize
<1>2. /\ pc[w] = "range" /\ toProcess # {} /\ toProcess' = toProcess \ {chunk}
      /\ p' = [p EXCEPT ![w] = start] /\ end' = [end EXCEPT ![w] = ChunkEnd(start)]
      /\ pc' = [pc EXCEPT ![w] = "piece"]
      /\ UNCHANGED <<workers, pieces, chunkSize, cancelled, count, returned>>
  BY DEF NextChunk, args
<1>3. chunk \in toProcess
  BY <1>1, <1>2, HasMinimum
<1> HIDE DEF chunk
<1>4. start \in Nat /\ start < pieces
  BY <1>0, <1>1, <1>3 DEF Sizes
<1>5. /\ ChunkEnd(start) \in Nat /\ ChunkEnd(start) <= pieces
      /\ \A i \in 0 .. pieces - 1 : i < ChunkEnd(start) <=> i < start + chunkSize
  BY <1>1, <1>4 DEF ChunkEnd
<1> DEFINE stop == ChunkEnd(start)
<1>6. \A i \in 0 .. pieces - 1 : start <= i /\ i < stop <=> InChunk(chunk, i)
  BY <1>4, <1>5 DEF InChunk
<1> HIDE DEF start, stop
<1>7. /\ p'[w] = start /\ end'[w] = stop /\ pc'[w] = "piece"
      /\ \A v \in workers \ {w} : p'[v] = p[v] /\ end'[v] = end[v] /\ pc'[v] = pc[v]
  BY <1>1, <1>2 DEF stop
<1>8. TypeOK'
  <2>1. start \in 0 .. MaxPieces /\ stop \in 0 .. MaxPieces
    BY <1>1, <1>4, <1>5 DEF stop
  <2>2. /\ p' \in [1 .. MaxWorkers -> 0 .. MaxPieces]
        /\ end' \in [1 .. MaxWorkers -> 0 .. MaxPieces]
        /\ pc' \in [1 .. MaxWorkers -> {"range", "piece", "call", "done"}]
    BY <1>1, <1>2, <2>1 DEF stop
  <2>3. toProcess' \in SUBSET (0 .. MaxPieces - 1)
    BY <1>0, <1>2 DEF TypeOK
  <2> QED BY <1>0, <1>2, <2>2, <2>3 DEF TypeOK
<1>9. Sizes'
  BY <1>0, <1>1, <1>2, <1>5, <1>7 DEF Sizes, stop
<1>10. ASSUME NEW i \in 0 .. pieces - 1
       PROVE  /\ InChunk(chunk, i) => Queued(i) /\ ~Queued(i)'
              /\ ~InChunk(chunk, i) => (Queued(i)' <=> Queued(i))
              /\ Remains(w, i)' <=> InChunk(chunk, i)
              /\ ~Remains(w, i)
              /\ \A v \in workers \ {w} : Remains(v, i)' <=> Remains(v, i)
  <2>1. \A c : InChunk(c, i)' <=> InChunk(c, i)
    BY <1>2 DEF InChunk
  <2>2. ASSUME NEW c \in toProcess, InChunk(c, i), InChunk(chunk, i)
        PROVE  c = chunk
    BY <1>1, <1>3, <2>2, OneChunk DEF InChunk
  <2>3. Queued(i)' <=> \E c \in toProcess \ {chunk} : InChunk(c, i)
    BY <1>2, <2>1 DEF Queued
  <2>4. InChunk(chunk, i) => Queued(i) /\ ~Queued(i)'
    BY <1>3, <2>2, <2>3 DEF Queued
  <2>5. ~InChunk(chunk, i) => (Queued(i)' <=> Queued(i))
    BY <2>3 DEF Queued
  <2>6. Remains(w, i)' <=> InChunk(chunk, i)
    BY <1>2, <1>6, <1>7 DEF Remains
  <2>7. ~Remains(w, i)
    BY <1>2 DEF Remains
  <2>8. \A v \in workers \ {w} : Remains(v, i)' <=> Remains(v, i)
    BY <1>2, <1>7 DEF Remains
  <2> QED BY <2>4, <2>5, <2>6, <2>7, <2>8
<1>11. Apart'
  BY <1>0, <1>2, <1>10 DEF Apart
<1>12. AtMostOnce'
  BY <1>0, <1>2 DEF AtMostOnce
<1>13. Accounted'
  <2>1. ASSUME ~cancelled, NEW i \in 0 .. pieces - 1
        PROVE  count[i] = 1 \/ Queued(i)' \/ \E v \in workers : Remains(v, i)'
    <3>1. count[i] = 1 \/ Queued(i) \/ \E v \in workers : Remains(v, i)
      BY <1>0, <2>1 DEF Accounted
    <3> QED BY <1>10, <3>1
  <2>2. ASSUME ~cancelled, NEW v \in workers, pc'[v] = "done"
        PROVE  toProcess' = {}
    <3>1. v # w /\ pc[v] = "done"
      BY <1>7, <2>2
    <3> QED BY <1>0, <1>2, <2>2, <3>1 DEF Accounted
  <2> QED BY <1>2, <2>1, <2>2 DEF Accounted
<1>14. Waited'
  BY <1>0, <1>2, <1>7 DEF Waited
<1> QED BY <1>8, <1>9, <1>11, <1>12, <1>13, <1>14 DEF Shared

LEMMA NextKeepsShared ==
  ASSUME Shared, [Next]_vars
  PROVE  Shared'
<1>0. TypeOK /\ Sizes /\ Apart /\ AtMostOnce /\ Accounted /\ Waited
  BY DEF Shared
<1>1. /\ pieces \in Nat /\ pieces <= MaxPieces /\ MaxPieces \in Nat
      /\ chunkSize \in Nat \ {0} /\ workers \subseteq 1 .. MaxWorkers
      /\ toProcess \subseteq Nat /\ cancelled \in BOOLEAN
      /\ pc \in [1 .. MaxWorkers -> {"range", "piece", "call", "done"}]
      /\ p \in [1 .. MaxWorkers -> 0 .. MaxPieces]
      /\ end \in [1 .. MaxWorkers -> 0 .. MaxPieces]
      /\ count \in [0 .. MaxPieces - 1 -> Nat]
  BY <1>0, ParallelizeAssumption DEF TypeOK
<1>2. ASSUME UNCHANGED <<toProcess, chunkSize>>
      PROVE  \A i : Queued(i)' <=> Queued(i)
  BY <1>2 DEF Queued, InChunk
\* The steps after which the same remains to be done.
<1>3. ASSUME UNCHANGED <<workers, pieces, chunkSize, toProcess, end, count>>, TypeOK', Sizes',
             UNCHANGED cancelled, Waited',
             \A w \in workers : \A i \in 0 .. pieces - 1 : Remains(w, i)' <=> Remains(w, i),
             \A w \in workers : pc'[w] = "done" => pc[w] = "done" \/ toProcess = {}
      PROVE  Shared'
  <2>1. Apart'
    BY <1>0, <1>2, <1>3 DEF Apart
  <2>2. AtMostOnce'
    BY <1>0, <1>3 DEF AtMostOnce
  <2>3. Accounted'
    BY <1>0, <1>2, <1>3 DEF Accounted
  <2> QED BY <1>3, <2>1, <2>2, <2>3 DEF Shared
<1>4. ASSUME NEW w \in workers, NoChunk(w)
      PROVE  Shared'
  <2>1. /\ UNCHANGED <<workers, pieces, chunkSize, toProcess, cancelled, p, end, count, returned>>
        /\ pc[w] = "range" /\ toProcess = {} /\ pc' = [pc EXCEPT ![w] = "done"]
    BY <1>4 DEF NoChunk, args
  <2>2. pc'[w] = "done" /\ \A v \in workers \ {w} : pc'[v] = pc[v]
    BY <1>1, <2>1
  <2>3. TypeOK' /\ Sizes' /\ Waited'
    BY <1>0, <1>1, <2>1, <2>2 DEF TypeOK, Sizes, Waited
  <2>4. \A v \in workers : \A i \in 0 .. pieces - 1 : Remains(v, i)' <=> Remains(v, i)
    BY <2>1, <2>2 DEF Remains
  <2> QED BY <1>3, <2>1, <2>2, <2>3, <2>4
<1>5. ASSUME NEW w \in workers, ChunkDone(w)
      PROVE  Shared'
  <2>1. /\ UNCHANGED <<workers, pieces, chunkSize, toProcess, cancelled, p, end, count, returned>>
        /\ pc[w] = "piece" /\ p[w] >= end[w] /\ pc' = [pc EXCEPT ![w] = "range"]
    BY <1>5 DEF ChunkDone, args
  <2>2. pc'[w] = "range" /\ \A v \in workers \ {w} : pc'[v] = pc[v]
    BY <1>1, <2>1
  <2>3. TypeOK' /\ Sizes' /\ Waited'
    BY <1>0, <1>1, <2>1, <2>2 DEF TypeOK, Sizes, Waited
  <2>4. p[w] \in Nat /\ end[w] \in Nat
    BY <1>1
  <2>5. \A v \in workers : \A i \in 0 .. pieces - 1 : Remains(v, i)' <=> Remains(v, i)
    BY <2>1, <2>2, <2>4 DEF Remains
  <2> QED BY <1>3, <2>1, <2>2, <2>3, <2>5
<1>6. ASSUME NEW w \in workers, PieceDone(w)
      PROVE  Shared'
  <2>1. /\ UNCHANGED <<workers, pieces, chunkSize, toProcess, cancelled, end, count, returned>>
        /\ pc[w] = "call" /\ pc' = [pc EXCEPT ![w] = "piece"]
        /\ p' = [p EXCEPT ![w] = p[w] + 1]
    BY <1>6 DEF PieceDone, args
  <2>2. /\ pc'[w] = "piece" /\ p'[w] = p[w] + 1 /\ p[w] \in Nat /\ end[w] \in 0 .. MaxPieces
        /\ \A v \in workers \ {w} : pc'[v] = pc[v] /\ p'[v] = p[v]
    BY <1>1, <2>1
  <2>3. p[w] < end[w] /\ p[w] + 1 \in 0 .. MaxPieces
    BY <1>0, <1>1, <2>1, <2>2 DEF Sizes
  <2>4. TypeOK' /\ Sizes' /\ Waited'
    BY <1>0, <1>1, <2>1, <2>2, <2>3 DEF TypeOK, Sizes, Waited
  <2>5. \A v \in workers : \A i \in 0 .. pieces - 1 : Remains(v, i)' <=> Remains(v, i)
    BY <2>1, <2>2 DEF Remains
  <2> QED BY <1>3, <2>1, <2>2, <2>4, <2>5
<1>7. ASSUME NEW w \in workers, Select(w), cancelled
      PROVE  Shared'
  <2>1. /\ UNCHANGED <<workers, pieces, chunkSize, toProcess, cancelled, p, end, count, returned>>
        /\ pc[w] = "piece" /\ pc' = [pc EXCEPT ![w] = "done"]
    BY <1>7 DEF Select, args
  <2>2. pc'[w] = "done" /\ \A v \in workers \ {w} : pc'[v] = pc[v]
    BY <1>1, <2>1
  <2>3. TypeOK' /\ Sizes' /\ Waited'
    BY <1>0, <1>1, <2>1, <2>2 DEF TypeOK, Sizes, Waited
  <2>4. \A v \in workers : \A i \in 0 .. pieces - 1 : Remains(v, i)' => Remains(v, i)
    BY <2>1, <2>2 DEF Remains
  <2>5. Apart' /\ AtMostOnce' /\ Accounted'
    BY <1>0, <1>2, <1>7, <2>1, <2>4 DEF Apart, AtMostOnce, Accounted
  <2> QED BY <2>3, <2>5 DEF Shared
\* doWorkPiece is called.
<1>8. ASSUME NEW w \in workers, Select(w), ~cancelled
      PROVE  Shared'
  <2>1. /\ UNCHANGED <<workers, pieces, chunkSize, toProcess, cancelled, p, end, returned>>
        /\ pc[w] = "piece" /\ p[w] < end[w] /\ pc' = [pc EXCEPT ![w] = "call"]
        /\ count' = [count EXCEPT ![p[w]] = count[p[w]] + 1]
    BY <1>8 DEF Select, args
  <2>2. pc'[w] = "call" /\ \A v \in workers \ {w} : pc'[v] = pc[v]
    BY <1>1, <2>1
  <2>3. /\ p[w] \in 0 .. pieces - 1 /\ p[w] \in 0 .. MaxPieces - 1 /\ p[w] \in Nat
        /\ \A i \in 0 .. pieces - 1 : i \in 0 .. MaxPieces - 1
    BY <1>0, <1>1, <2>1 DEF Sizes
  <2>4. Remains(w, p[w])
    BY <2>1, <2>3 DEF Remains
  <2>5. count[p[w]] = 0 /\ ~Queued(p[w]) /\ \A v \in workers : Remains(v, p[w]) => v = w
    BY <1>0, <2>3, <2>4 DEF Apart
  <2>6. /\ count'[p[w]] = 1
        /\ \A i \in 0 .. MaxPieces - 1 : i # p[w] => count'[i] = count[i]
    BY <1>1, <2>1, <2>3, <2>5
  <2>7. TypeOK' /\ Sizes' /\ Waited'
    <3>1. count' \in [0 .. MaxPieces - 1 -> Nat]
      BY <1>1, <2>1, <2>3
    <3> QED BY <1>0, <1>1, <2>1, <2>2, <3>1 DEF TypeOK, Sizes, Waited
  <2>8. \A i \in 0 .. pieces - 1 : \A v \in workers :
          Remains(v, i)' <=> Remains(v, i) /\ ~(v = w /\ i = p[w])
    BY <2>1, <2>2, <2>3 DEF Remains
  <2>9. Apart'
    <3>1. ASSUME NEW i \in 0 .. pieces - 1, Queued(i)'
          PROVE  count'[i] = 0
      BY <1>0, <1>2, <2>1, <2>3, <2>5, <2>6, <3>1 DEF Apart
    <3>2. ASSUME NEW i \in 0 .. pieces - 1, NEW v \in workers, Remains(v, i)'
          PROVE  /\ count'[i] = 0 /\ ~Queued(i)'
                 /\ \A u \in workers : Remains(u, i)' => u = v
      <4>1. Remains(v, i) /\ ~(v = w /\ i = p[w])
        BY <2>8, <3>2
      <4>2. i # p[w]
        BY <2>5, <4>1
      <4> QED BY <1>0, <1>2, <2>1, <2>3, <2>6, <2>8, <4>1, <4>2 DEF Apart
    <3> QED BY <2>1, <3>1, <3>2 DEF Apart
  <2>10. AtMostOnce'
    BY <1>0, <2>6 DEF AtMostOnce
  <2>11. Accounted'
    <3>1. ASSUME NEW i \in 0 .. pieces - 1
          PROVE  count'[i] = 1 \/ Queued(i)' \/ \E v \in workers : Remains(v, i)'
      <4>1. count[i] = 1 \/ Queued(i) \/ \E v \in workers : Remains(v, i)
        BY <1>0, <1>8 DEF Accounted
      <4> QED BY <1>2, <2>1, <2>3, <2>6, <2>8, <4>1
    <3>2. \A v \in workers : pc'[v] = "done" => toProcess' = {}
      BY <1>0, <1>8, <2>1, <2>2 DEF Accounted
    <3> QED BY <2>1, <3>1, <3>2 DEF Accounted
  <2> QED BY <2>7, <2>9, <2>10, <2>11 DEF Shared
<1>9. CASE Cancel \/ Wait \/ UNCHANGED vars
  <2>1. /\ UNCHANGED <<workers, pieces, chunkSize, toProcess, pc, p, end, count>>
        /\ cancelled' \in BOOLEAN /\ returned' \in BOOLEAN /\ (cancelled => cancelled')
        /\ returned' => returned \/ \A w \in workers : pc[w] = "done"
    <3>0. cancelled \in BOOLEAN /\ returned \in BOOLEAN
      BY <1>0 DEF TypeOK
    <3>1. CASE Cancel
      BY <3>0, <3>1 DEF Cancel, args
    <3>2. CASE Wait
      BY <3>0, <3>2 DEF Wait, args
    <3>3. CASE UNCHANGED vars
      BY <3>0, <3>3 DEF vars
    <3> QED BY <1>9, <3>1, <3>2, <3>3
  <2>2. TypeOK' /\ Sizes' /\ Waited'
    BY <1>0, <2>1 DEF TypeOK, Sizes, Waited
  <2>3. \A v \in workers : \A i \in 0 .. pieces - 1 : Remains(v, i)' <=> Remains(v, i)
    BY <2>1 DEF Remains
  <2>4. Apart' /\ AtMostOnce'
    BY <1>0, <1>2, <2>1, <2>3 DEF Apart, AtMostOnce
  <2>5. Accounted'
    BY <1>0, <1>2, <2>1, <2>3 DEF Accounted
  <2> QED BY <2>2, <2>4, <2>5 DEF Shared
<1> QED
  BY <1>4, <1>5, <1>6, <1>7, <1>8, <1>9, NextChunkShares DEF Next, Step

(***************************************************************************)
(* However many workers take chunks from the channel of ParallelizeUntil,  *)
(* and whenever its context is cancelled, the inductive invariant holds:   *)
(* a piece is queued, or left to one worker, or has been worked on once,   *)
(* and is only forgotten after a cancellation.                             *)
(***************************************************************************)
THEOREM SharedCorrect == Spec => []Shared
<1>1. Init => Shared
  BY InitShared
<1>2. Shared /\ [Next]_vars => Shared'
  BY NextKeepsShared
<1> QED BY <1>1, <1>2, PTL DEF Spec

(***************************************************************************)
(* doWorkPiece is called at most once for a piece: the chunks that ceilDiv *)
(* cuts do not overlap, and no chunk is given to two workers.              *)
(***************************************************************************)
THEOREM AtMostOnceCorrect == Spec => []AtMostOnce
<1>1. Shared => AtMostOnce
  BY DEF Shared
<1> QED BY <1>1, SharedCorrect, PTL

(***************************************************************************)
(* When ParallelizeUntil returns no call of doWorkPiece is under way, and  *)
(* unless its context was cancelled every piece has been worked on once,   *)
(* also when the last chunk is shorter than the others or there are more   *)
(* workers than chunks.                                                    *)
(***************************************************************************)
THEOREM AllDoneOnReturnCorrect == Spec => []AllDoneOnReturn
<1>1. ASSUME Shared
      PROVE  AllDoneOnReturn
  <2>0. Accounted /\ Waited
    BY <1>1 DEF Shared
  <2>1. ASSUME returned
        PROVE  \A w \in workers : pc[w] # "call"
    BY <2>0, <2>1 DEF Waited
  <2>2. ASSUME returned, ~cancelled, NEW i \in 0 .. pieces - 1
        PROVE  count[i] = 1
    <3>1. toProcess = {}
      BY <2>0, <2>2 DEF Waited, Accounted
    <3>2. \A w \in workers : ~Remains(w, i)
      BY <2>0, <2>2 DEF Waited, Remains
    <3> QED BY <2>0, <2>2, <3>1, <3>2 DEF Accounted, Queued
  <2> QED BY <2>1, <2>2 DEF AllDoneOnReturn
<1>2. Shared => AllDoneOnReturn
  BY <1>1
<1> QED BY <1>2, SharedCorrect, PTL

-----------------------------------------------------------------------------
(* Powers of two. *)

\* g is the table of the powers up to 2^n.
IsTable(g, n) ==
  /\ g \in [0 .. n -> Nat]
  /\ g[0] = 1
  /\ \A k \in 1 .. n : g[k] = 2 * g[k - 1]

\* There is a table for every n: a least n without one would get it from the
\* table for n - 1.
LEMMA TableExists ==
  \A n \in Nat : \E g : IsTable(g, n)
<1> DEFINE T == {n \in Nat : ~ \E g : IsTable(g, n)}
<1> SUFFICES ASSUME T # {} PROVE FALSE
  OBVIOUS
<1>1. PICK n \in T : \A m \in T : n <= m
  <2>1. T \in SUBSET Nat
    OBVIOUS
  <2> HIDE DEF T
  <2> QED BY <2>1, HasMinimum
<1>2. CASE n = 0
  <2> DEFINE g == [k \in 0 .. 0 |-> 1]
  <2>1. IsTable(g, 0)
    BY DEF IsTable
  <2> QED BY <1>1, <1>2, <2>1
<1>3. CASE n # 0
  <2>1. n \in Nat /\ n - 1 \in Nat /\ n - 1 \notin T
    BY <1>1, <1>3
  <2>2. PICK h : IsTable(h, n - 1)
    BY <2>1
  <2> DEFINE g == [k \in 0 .. n |-> IF k = n THEN 2 * h[n - 1] ELSE h[k]]
  <2>3. h \in [0 .. n - 1 -> Nat] /\ h[0] = 1 /\ \A k \in 1 .. n - 1 : h[k] = 2 * h[k - 1]
    BY <2>2 DEF IsTable
  <2>4. g \in [0 .. n -> Nat] /\ g[0] = 1
    BY <1>3, <2>1, <2>3
  <2>5. ASSUME NEW k \in 1 .. n
        PROVE  g[k] = 2 * g[k - 1]
    BY <1>3, <2>1, <2>3
  <2>6. IsTable(g, n)
    BY <2>4, <2>5 DEF IsTable
  <2> QED BY <1>1, <2>6
<1> QED BY <1>2, <1>3

\* Two tables agree where both have an entry.
LEMMA TablesAgree ==
  ASSUME NEW n \in Nat, NEW m \in Nat, NEW g, NEW h, IsTable(g, n), IsTable(h, m),
         NEW k \in Nat, k <= n, k <= m
  PROVE  g[k] = h[k]
<1> DEFINE T == {i \in Nat : i <= n /\ i <= m /\ g[i] # h[i]}
<1> SUFFICES ASSUME T # {} PROVE FALSE
  OBVIOUS
<1>1. PICK i \in T : \A j \in T : i <= j
  <2>1. T \in SUBSET Nat
    OBVIOUS
  <2> HIDE DEF T
  <2> QED BY <2>1, HasMinimum
<1>2. CASE i = 0
  BY <1>1, <1>2 DEF IsTable
<1>3. CASE i # 0
  <2>1. i - 1 \in Nat /\ i - 1 <= n /\ i - 1 <= m /\ i \in 1 .. n /\ i \in 1 .. m
    BY <1>1, <1>3
  <2>2. g[i - 1] = h[i - 1]
    BY <1>1, <2>1
  <2>3. g[i] = h[i]
    BY <2>1, <2>2 DEF IsTable
  <2> QED BY <1>1, <2>3
<1> QED BY <1>2, <1>3

\* Pow2 is the function that its definition describes.
LEMMA Pow2Unfolds ==
  Pow2 = [n \in Nat |-> IF n = 0 THEN 1 ELSE 2 * Pow2[n - 1]]
<1> DEFINE Table(n) == CHOOSE g : IsTable(g, n)
           f == [n \in Nat |-> Table(n)[n]]
<1>1. \A n \in Nat : IsTable(Table(n), n)
  BY TableExists
<1> HIDE DEF Table
<1>2. ASSUME NEW n \in Nat
      PROVE  f[n] = IF n = 0 THEN 1 ELSE 2 * f[n - 1]
  <2>1. CASE n = 0
    BY <1>1, <2>1 DEF IsTable
  <2>2. CASE n # 0
    <3>1. n - 1 \in Nat /\ n - 1 <= n /\ n \in 1 .. n
      BY <2>2
    <3>2. Table(n)[n - 1] = Table(n - 1)[n - 1]
      <4>1. IsTable(Table(n), n) /\ IsTable(Table(n - 1), n - 1)
        BY <1>1, <3>1
      <4> QED BY <3>1, <4>1, TablesAgree
    <3>3. Table(n)[n] = 2 * Table(n)[n - 1]
      BY <1>1, <3>1 DEF IsTable
    <3> QED BY <2>2, <3>1, <3>2, <3>3
  <2> QED BY <2>1, <2>2
<1>3. f = [n \in Nat |-> IF n = 0 THEN 1 ELSE 2 * f[n - 1]]
  BY <1>2
<1>4. \E pow : pow = [n \in Nat |-> IF n = 0 THEN 1 ELSE 2 * pow[n - 1]]
  <2> HIDE DEF f
  <2> QED BY <1>3
<1> QED BY <1>4 DEF Pow2

LEMMA Pow2Steps ==
  /\ Pow2[0] = 1
  /\ \A n \in Nat : Pow2[n + 1] = 2 * Pow2[n]
<1>1. \A n \in Nat : Pow2[n] = IF n = 0 THEN 1 ELSE 2 * Pow2[n - 1]
  BY Pow2Unfolds
<1>2. ASSUME NEW n \in Nat
      PROVE  Pow2[n + 1] = 2 * Pow2[n]
  <2>1. n + 1 \in Nat /\ n + 1 # 0 /\ (n + 1) - 1 = n
    OBVIOUS
  <2> QED BY <1>1, <2>1
<1> QED BY <1>1, <1>2

\* The powers are positive numbers.
LEMMA Pow2Type ==
  \A n \in Nat : Pow2[n] \in Nat \ {0}
<1> DEFINE T == {n \in Nat : Pow2[n] \notin Nat \ {0}}
<1> SUFFICES ASSUME T # {} PROVE FALSE
  OBVIOUS
<1>1. PICK n \in T : \A m \in T : n <= m
  <2>1. T \in SUBSET Nat
    OBVIOUS
  <2> HIDE DEF T
  <2> QED BY <2>1, HasMinimum
<1>2. n # 0 /\ n - 1 \in Nat /\ n = (n - 1) + 1 /\ n - 1 \notin T
  BY <1>1, Pow2Steps
<1>3. Pow2[n - 1] \in Nat \ {0}
  BY <1>2
<1>4. Pow2[n] = 2 * Pow2[n - 1]
  BY <1>2, Pow2Steps
<1> QED BY <1>1, <1>3, <1>4

\* 2^(n + m) = 2^n * 2^m
LEMMA Pow2Adds ==
  ASSUME NEW n \in Nat, NEW m \in Nat
  PROVE  Pow2[n + m] = Pow2[n] * Pow2[m]
<1> DEFINE T == {i \in Nat : Pow2[n + i] # Pow2[n] * Pow2[i]}
<1> SUFFICES ASSUME T # {} PROVE FALSE
  OBVIOUS
<1>1. PICK i \in T : \A j \in T : i <= j
  <2>1. T \in SUBSET Nat
    OBVIOUS
  <2> HIDE DEF T
  <2> QED BY <2>1, HasMinimum
<1>2. i # 0
  <2>1. n + 0 = n /\ Pow2[n] \in Nat
    BY Pow2Type
  <2>2. Pow2[n + 0] = Pow2[n] * Pow2[0]
    BY <2>1, Pow2Steps
  <2> QED BY <1>1, <2>2
<1>3. i - 1 \in Nat /\ i = (i - 1) + 1 /\ n + i = (n + (i - 1)) + 1 /\ i - 1 \notin T
  BY <1>1, <1>2
<1>4. Pow2[n + (i - 1)] = Pow2[n] * Pow2[i - 1]
  BY <1>3
<1>5. Pow2[n + i] = 2 * Pow2[n + (i - 1)] /\ Pow2[i] = 2 * Pow2[i - 1]
  BY <1>3, Pow2Steps
<1>6. \A a, b \in Nat : 2 * (a * b) = a * (2 * b)
  OBVIOUS
<1>7. Pow2[n + i] = Pow2[n] * Pow2[i]
  BY <1>3, <1>4, <1>5, <1>6, Pow2Type
<1> QED BY <1>1, <1>7

LEMMA LimiterConstants ==
  /\ Pow2[Width - 1] \in Nat \ {0} /\ MaxInt \in Nat /\ MinInt \in Int
  /\ MaxInt = Pow2[Width - 1] - 1 /\ MinInt = -Pow2[Width - 1] /\ Width - 1 \in Nat
  /\ BaseDelay \in Nat \ {0} /\ BaseDelay <= MaxInt
  /\ MaxDelay \in Nat /\ MaxDelay <= MaxInt
  /\ FastDelay \in Nat /\ SlowDelay \in Nat /\ FastDelay <= SlowDelay /\ SlowDelay <= MaxInt
  /\ MaxWait \in Nat /\ MaxWait <= MaxInt
  /\ \A d \in BucketDelays : d \in Nat /\ d <= MaxInt
  /\ MaxFastAttempts \in Nat /\ MaxFailures \in Nat /\ MaxFastAttempts < MaxFailures
<1>1. Width - 1 \in Nat
  BY RateLimiterAssumption
<1>2. Pow2[Width - 1] \in Nat \ {0}
  BY <1>1, Pow2Type
<1>3. MaxInt \in Nat /\ MinInt \in Int
  BY <1>2 DEF MaxInt, MinInt
<1> QED BY <1>1, <1>2, <1>3, RateLimiterAssumption DEF MaxInt, MinInt

-----------------------------------------------------------------------------
(* The delays of the exponential limiter. *)

\* A base delay that is not a power of two never gives exactly 2^(Width - 1).
LEMMA NeverExact ==
  ASSUME NotPowerOfTwo, NEW n \in Nat
  PROVE  BaseDelay * Pow2[n] # Pow2[Width - 1]
<1> DEFINE w == Width - 1
<1>1. w \in Nat /\ BaseDelay \in Nat \ {0} /\ Pow2[n] \in Nat \ {0} /\ Pow2[w] \in Nat \ {0}
  BY LimiterConstants, Pow2Type
<1> HIDE DEF w
<1>2. CASE n <= w
  <2>1. w - n \in 0 .. w /\ n + (w - n) = w
    BY <1>1, <1>2
  <2>2. Pow2[w] = Pow2[n] * Pow2[w - n] /\ Pow2[w - n] \in Nat
    <3>1. n \in Nat /\ w - n \in Nat
      BY <1>1, <2>1
    <3>2. Pow2[n + (w - n)] = Pow2[n] * Pow2[w - n]
      BY <3>1, Pow2Adds
    <3> QED BY <2>1, <3>1, <3>2, Pow2Type
  <2>3. BaseDelay # Pow2[w - n]
    BY <2>1 DEF NotPowerOfTwo, w
  <2>4. \A a, b, c \in Nat : a # 0 /\ b * a = a * c => b = c
    OBVIOUS
  <2>5. BaseDelay * Pow2[n] # Pow2[w]
    BY <1>1, <2>2, <2>3, <2>4
  <2> QED BY <2>5 DEF w
<1>3. CASE n > w
  <2>1. n - 1 - w \in Nat /\ n - 1 \in Nat /\ w + (n - 1 - w) = n - 1 /\ n = (n - 1) + 1
    BY <1>1, <1>3
  <2>2. /\ Pow2[n] = 2 * Pow2[n - 1] /\ Pow2[n - 1] = Pow2[w] * Pow2[n - 1 - w]
        /\ Pow2[n - 1 - w] \in Nat \ {0}
    <3>1. Pow2[w + (n - 1 - w)] = Pow2[w] * Pow2[n - 1 - w]
      BY <1>1, <2>1, Pow2Adds
    <3>2. Pow2[(n - 1) + 1] = 2 * Pow2[n - 1]
      BY <2>1, Pow2Steps
    <3> QED BY <2>1, <3>1, <3>2, Pow2Type
  <2>3. \A a, b \in Nat \ {0} : a * b \in Nat /\ a * b >= a
    OBVIOUS
  <2>4. Pow2[n] > Pow2[w]
    BY <1>1, <2>2, <2>3
  <2>5. BaseDelay * Pow2[n] >= Pow2[n]
    BY <1>1, <2>3
  <2>6. BaseDelay * Pow2[n] # Pow2[w]
    BY <1>1, <2>3, <2>4, <2>5
  <2> QED BY <2>6 DEF w
<1> QED BY <1>1, <1>2, <1>3

\* The delay that is meant.
Capped(n) == IF BaseDelay * Pow2[n] > MaxDelay THEN MaxDelay ELSE BaseDelay * Pow2[n]

LEMMA CappedGrows ==
  ASSUME NEW n \in Nat
  PROVE  Capped(n) \in 0 .. MaxDelay /\ Capped(n) <= Capped(n + 1)
<1>1. /\ Pow2[n] \in Nat /\ Pow2[n + 1] = 2 * Pow2[n] /\ BaseDelay \in Nat /\ MaxDelay \in Nat
  BY Pow2Type, Pow2Steps, LimiterConstants
<1>2. \A a, b \in Nat : a * b \in Nat /\ a * (2 * b) = 2 * (a * b)
  OBVIOUS
<1>3. BaseDelay * Pow2[n] \in Nat /\ BaseDelay * Pow2[n + 1] = 2 * (BaseDelay * Pow2[n])
  BY <1>1, <1>2
<1> QED BY <1>1, <1>3 DEF Capped

\* Whatever the base delay, the delay fits a duration.
LEMMA DelayFits ==
  ASSUME NEW n \in Nat
  PROVE  ExponentialDelay(n) \subseteq MinInt .. MaxInt
<1>1. Pow2[n] \in Nat /\ BaseDelay * Pow2[n] \in Nat
  <2>1. \A a, b \in Nat : a * b \in Nat
    OBVIOUS
  <2> QED BY <2>1, Pow2Type, LimiterConstants
<1> QED BY <1>1, LimiterConstants DEF ExponentialDelay, ToDuration

\* The comparisons of When answer with the capped delay.
LEMMA DelayIsCapped ==
  ASSUME NotPowerOfTwo, NEW n \in Nat
  PROVE  ExponentialDelay(n) = {Capped(n)}
<1>1. Pow2[n] \in Nat /\ BaseDelay * Pow2[n] \in Nat
  <2>1. \A a, b \in Nat : a * b \in Nat
    OBVIOUS
  <2> QED BY <2>1, Pow2Type, LimiterConstants
<1>2. BaseDelay * Pow2[n] > Pow2[Width - 1] \/ BaseDelay * Pow2[n] <= MaxInt
  BY <1>1, NeverExact, LimiterConstants
<1> QED BY <1>1, <1>2, LimiterConstants DEF ExponentialDelay, ToDuration, Capped

-----------------------------------------------------------------------------
(* Types, and the answers of WithMaxWait. *)

\* Forget leaves the last answer as it was.
AnswerKept == \A c \in Callers : at[c] \in {"idle", "forget"} => ret[c] \in 0 .. MaxWait

Answers == LimiterTypeOK /\ AnswerKept

LEMMA InitAnswers == LimiterInit => Answers
<1> SUFFICES ASSUME LimiterInit PROVE Answers
  OBVIOUS
<1>1. MinInt <= 0
  BY LimiterConstants
<1> QED BY <1>1, LimiterConstants DEF LimiterInit, Answers, LimiterTypeOK, AnswerKept

LEMMA NextAnswers == Answers /\ [LimiterNext]_limiterVars => Answers'
<1> SUFFICES ASSUME Answers, [LimiterNext]_limiterVars PROVE Answers'
  OBVIOUS
<1> USE LimiterConstants DEF Answers, LimiterTypeOK, AnswerKept
<1>0. MinInt <= 0
  OBVIOUS
<1>1. ASSUME NEW c \in Callers, NEW i \in Items, WhenExponential(c, i)
      PROVE  Answers'
  <2>1. PICK d \in ExponentialDelay(exponential[i]) :
           /\ lastExp' = [lastExp EXCEPT ![i] = d]
           /\ ret' = [ret EXCEPT ![c] = Worse(d, 0)]
    BY <1>1 DEF WhenExponential
  <2>2. d \in MinInt .. MaxInt
    BY <2>1, DelayFits
  <2>3. Worse(d, 0) \in 0 .. MaxInt
    BY <2>2 DEF Worse
  <2>4. LimiterTypeOK'
    BY <1>1, <2>1, <2>2, <2>3 DEF WhenExponential
  <2>5. AnswerKept'
    BY <1>1, <2>1 DEF WhenExponential
  <2> QED BY <2>4, <2>5
<1>2. ASSUME NEW c \in Callers, NEW i \in Items, ForgetExponential(c, i)
      PROVE  Answers'
  BY <1>0, <1>2 DEF ForgetExponential
<1>3. ASSUME NEW c \in Callers, WhenFastSlow(c)
      PROVE  Answers'
  <2> DEFINE d == FastSlowDelay(fastSlow[subject[c]] + 1)
  <2>1. d \in 0 .. MaxInt
    BY DEF FastSlowDelay
  <2>2. /\ fastSlow' = [fastSlow EXCEPT ![subject[c]] = IF @ < MaxFailures THEN @ + 1 ELSE @]
        /\ lastFast' = [lastFast EXCEPT ![subject[c]] = d]
        /\ ret' = [ret EXCEPT ![c] = Worse(d, @)]
        /\ at' = [at EXCEPT ![c] = "fast"]
        /\ UNCHANGED <<exponential, subject, lastExp>>
    BY <1>3 DEF WhenFastSlow
  <2> HIDE DEF d
  <2>3. Worse(d, ret[c]) \in 0 .. MaxInt
    BY <2>1 DEF Worse
  <2>4. LimiterTypeOK'
    BY <2>1, <2>2, <2>3
  <2>5. AnswerKept'
    BY <2>2
  <2> QED BY <2>4, <2>5
<1>4. ASSUME NEW c \in Callers, WhenBucket(c)
      PROVE  Answers'
  <2>1. PICK d \in BucketDelays :
           ret' = [ret EXCEPT ![c] = IF Worse(d, @) > MaxWait THEN MaxWait ELSE Worse(d, @)]
    BY <1>4 DEF WhenBucket
  <2>2. Worse(d, ret[c]) \in Nat
    BY DEF Worse
  <2>3. (IF Worse(d, ret[c]) > MaxWait THEN MaxWait ELSE Worse(d, ret[c])) \in 0 .. MaxWait
    BY <2>2
  <2>4. LimiterTypeOK'
    BY <1>4, <2>1, <2>3 DEF WhenBucket
  <2>5. AnswerKept'
    BY <1>4, <2>1, <2>3 DEF WhenBucket
  <2> QED BY <2>4, <2>5
<1>5. ASSUME NEW c \in Callers, ForgetFastSlow(c)
      PROVE  Answers'
  BY <1>5 DEF ForgetFastSlow
<1>6. CASE UNCHANGED limiterVars
  BY <1>6 DEF limiterVars
<1> QED BY <1>1, <1>2, <1>3, <1>4, <1>5, <1>6 DEF LimiterNext

\* In every reachable state the variables have their types: no delay leaves the
\* range of a duration, whatever the base delay is.
THEOREM LimiterTypeCorrect == LimiterSpec => []LimiterTypeOK
<1>1. Answers => LimiterTypeOK
  BY DEF Answers
<1> QED BY <1>1, InitAnswers, NextAnswers, PTL DEF LimiterSpec

\* The delay that AddRateLimited gets is never negative and never above the
\* maximum of WithMaxWait, whatever the limiters behind it answer and however
\* When and Forget interleave.
THEOREM AnswerBoundedCorrect == LimiterSpec => []AnswerBounded
<1>1. Answers => AnswerBounded
  BY DEF Answers, AnswerKept, AnswerBounded
<1> QED BY <1>1, InitAnswers, NextAnswers, PTL DEF LimiterSpec

-----------------------------------------------------------------------------
(* The delays of one item. *)

\* The last delays are those of the last failures that were counted.
LastDelays ==
  \A i \in Items :
    /\ lastExp[i] = IF exponential[i] = 0 THEN 0 ELSE Capped(exponential[i] - 1)
    /\ lastFast[i] = IF fastSlow[i] = 0 THEN 0 ELSE FastSlowDelay(fastSlow[i])

LEMMA InitLastDelays == LimiterInit => LastDelays
BY DEF LimiterInit, LastDelays

LEMMA NextLastDelays ==
  ASSUME NotPowerOfTwo, Answers, LastDelays, [LimiterNext]_limiterVars
  PROVE  LastDelays'
<1> USE LimiterConstants DEF Answers, LimiterTypeOK, LastDelays
<1>1. ASSUME NEW c \in Callers, NEW i \in Items, WhenExponential(c, i)
      PROVE  LastDelays'
  <2>1. exponential[i] \in Nat /\ exponential[i] + 1 # 0 /\ (exponential[i] + 1) - 1 = exponential[i]
    OBVIOUS
  <2>2. lastExp' = [lastExp EXCEPT ![i] = Capped(exponential[i])]
    <3>1. PICK d \in ExponentialDelay(exponential[i]) : lastExp' = [lastExp EXCEPT ![i] = d]
      BY <1>1 DEF WhenExponential
    <3>2. d = Capped(exponential[i])
      BY <2>1, <3>1, DelayIsCapped
    <3> QED BY <3>1, <3>2
  <2> QED BY <1>1, <2>1, <2>2 DEF WhenExponential
<1>2. ASSUME NEW c \in Callers, NEW i \in Items, ForgetExponential(c, i)
      PROVE  LastDelays'
  BY <1>2 DEF ForgetExponential
<1>3. ASSUME NEW c \in Callers, WhenFastSlow(c)
      PROVE  LastDelays'
  BY <1>3 DEF WhenFastSlow, FastSlowDelay
<1>4. ASSUME NEW c \in Callers, WhenBucket(c)
      PROVE  LastDelays'
  BY <1>4 DEF WhenBucket
<1>5. ASSUME NEW c \in Callers, ForgetFastSlow(c)
      PROVE  LastDelays'
  BY <1>5 DEF ForgetFastSlow
<1>6. CASE UNCHANGED limiterVars
  BY <1>6 DEF limiterVars
<1> QED BY <1>1, <1>2, <1>3, <1>4, <1>5, <1>6 DEF LimiterNext

\* Unless the base delay is a power of two, the exponential limiter never answers
\* with a negative delay or one over its maximum, however often the item has
\* failed.
THEOREM BackoffCappedCorrect ==
  ASSUME NotPowerOfTwo
  PROVE  LimiterSpec => []BackoffCapped
<1>1. LimiterInit => Answers /\ LastDelays
  BY InitAnswers, InitLastDelays
<1>2. (Answers /\ LastDelays) /\ [LimiterNext]_limiterVars => (Answers /\ LastDelays)'
  BY NextAnswers, NextLastDelays
<1>3. Answers /\ LastDelays => BackoffCapped
  <2> SUFFICES ASSUME Answers, LastDelays, NEW i \in Items PROVE lastExp[i] \in 0 .. MaxDelay
    BY DEF BackoffCapped
  <2>1. exponential[i] \in Nat
    BY LimiterConstants DEF Answers, LimiterTypeOK
  <2>2. CASE exponential[i] = 0
    BY <2>2, LimiterConstants DEF LastDelays
  <2>3. CASE exponential[i] # 0
    <3>1. exponential[i] - 1 \in Nat
      BY <2>1, <2>3
    <3> QED BY <2>3, <3>1, CappedGrows DEF LastDelays
  <2> QED BY <2>2, <2>3
<1> QED BY <1>1, <1>2, <1>3, PTL DEF LimiterSpec

\* Unless the base delay is a power of two, an item that keeps failing is never
\* retried sooner than after its previous failure: only Forget makes a delay
\* shorter.
THEOREM BackoffGrowsCorrect ==
  ASSUME NotPowerOfTwo
  PROVE  LimiterSpec => BackoffGrows
<1> DEFINE Grows == \A i \in Items :
                      /\ lastExp'[i] < lastExp[i] => exponential'[i] = 0
                      /\ lastFast'[i] < lastFast[i] => fastSlow'[i] = 0
<1>1. LimiterInit => Answers /\ LastDelays
  BY InitAnswers, InitLastDelays
<1>2. (Answers /\ LastDelays) /\ [LimiterNext]_limiterVars => (Answers /\ LastDelays)'
  BY NextAnswers, NextLastDelays
<1>3. (Answers /\ LastDelays) /\ (Answers /\ LastDelays)' /\ [LimiterNext]_limiterVars => [Grows]_limiterVars
  <2> SUFFICES ASSUME Answers, LastDelays, Answers', LastDelays', [LimiterNext]_limiterVars, NEW i \in Items
               PROVE  /\ lastExp'[i] < lastExp[i] => exponential'[i] = 0
                      /\ lastFast'[i] < lastFast[i] => fastSlow'[i] = 0
    OBVIOUS
  <2>1. /\ exponential[i] \in Nat /\ fastSlow[i] \in Nat /\ lastExp[i] \in Int /\ lastFast[i] \in Int
        /\ exponential'[i] \in Nat /\ fastSlow'[i] \in Nat
    BY LimiterConstants DEF Answers, LimiterTypeOK
  <2>2. /\ exponential'[i] \in {exponential[i], exponential[i] + 1, 0}
        /\ fastSlow'[i] \in {fastSlow[i], fastSlow[i] + 1, 0}
    BY LimiterConstants DEF LimiterNext, limiterVars, WhenExponential, ForgetExponential, WhenFastSlow, WhenBucket,
                     ForgetFastSlow, Answers, LimiterTypeOK
  <2>3. ASSUME exponential'[i] # 0
        PROVE  ~(lastExp'[i] < lastExp[i])
    <3>1. lastExp'[i] = Capped(exponential'[i] - 1)
      BY <2>3 DEF LastDelays
    <3>2. CASE exponential[i] = 0
      <4>1. exponential'[i] - 1 = 0 /\ lastExp[i] = 0
        BY <2>1, <2>2, <2>3, <3>2 DEF LastDelays
      <4> QED BY <3>1, <4>1, CappedGrows, LimiterConstants
    <3>3. CASE exponential[i] # 0
      <4>1. lastExp[i] = Capped(exponential[i] - 1) /\ exponential[i] - 1 \in Nat
        BY <2>1, <3>3 DEF LastDelays
      <4>2. exponential'[i] - 1 \in {exponential[i] - 1, (exponential[i] - 1) + 1}
        BY <2>1, <2>2, <2>3
      <4>3. Capped(exponential[i] - 1) <= Capped((exponential[i] - 1) + 1)
        BY <4>1, CappedGrows
      <4>4. /\ Capped(exponential[i] - 1) \in Int /\ Capped((exponential[i] - 1) + 1) \in Int
        BY <4>1, CappedGrows, LimiterConstants
      <4> QED BY <3>1, <4>1, <4>2, <4>3, <4>4
    <3> QED BY <3>2, <3>3
  <2>4. ASSUME fastSlow'[i] # 0
        PROVE  ~(lastFast'[i] < lastFast[i])
    BY <2>1, <2>2, <2>4, LimiterConstants DEF LastDelays, FastSlowDelay
  <2> QED BY <2>3, <2>4
<1>4. BackoffGrows <=> [][Grows]_limiterVars
  BY DEF BackoffGrows
<1> QED BY <1>1, <1>2, <1>3, <1>4, PTL DEF LimiterSpec
=============================================================================
