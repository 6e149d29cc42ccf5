-------------------------- MODULE DeltaFIFOProofs --------------------------
(***************************************************************************)
(* Proofs of safety properties of DeltaFIFO, for any finite set of keys,   *)
(* any objects and any bound on the deltas of a key, and then of Reflector *)
(* and the controller, for any number of changes on the server and         *)
(* whatever follows a failure of process: what they do to the DeltaFIFO    *)
(* are steps of that module, and what the reflector has given the store is *)
(* what the server had at lastSyncResourceVersion.                         *)
(***************************************************************************)
EXTENDS Reflector, QueueLemmas, FiniteSetTheorems

\* An order of a set of keys lists it without duplicates.
LEMMA OrdersList ==
  ASSUME NEW S \in SUBSET Keys, NEW s \in Orders(S)
  PROVE  s \in Seq(Keys) /\ IsInjective(s) /\ Range(s) = S
<1>1. IsFiniteSet(S)
  BY FS_Subset, DeltaFIFOAssumption
<1>2. Cardinality(S) \in Nat
  BY <1>1, FS_CardinalityType
<1> QED BY <1>2 DEF Orders

\* Replace and ReplaceRefused: what the list has goes before what it misses.
LEMMA TwoOrdersList ==
  ASSUME NEW S \in SUBSET Keys, NEW T \in SUBSET Keys, S \cap T = {},
         NEW s \in Orders(S), NEW t \in Orders(T)
  PROVE  s \o t \in Seq(Keys) /\ IsInjective(s \o t) /\ Range(s \o t) = S \cup T
<1>1. s \in Seq(Keys) /\ IsInjective(s) /\ Range(s) = S
  BY OrdersList
<1>2. t \in Seq(Keys) /\ IsInjective(t) /\ Range(t) = T
  BY OrdersList
<1> QED BY <1>1, <1>2, ConcatRange

\* The newest of some deltas is one.
LEMMA NewestIsDelta ==
  ASSUME NEW deltas \in Seq(Delta), deltas # <<>>
  PROVE  /\ Len(deltas) \in 1 .. Len(deltas)
         /\ Newest(deltas) \in Delta
<1>1. Len(deltas) \in Nat \ {0} /\ deltas \in [1 .. Len(deltas) -> Delta]
  BY LenProperties, EmptySeq
<1> QED BY <1>1 DEF Newest

\* However dedupDeltas merges it, the outcome is that of the new delta.
LEMMA DedupOutcome ==
  ASSUME NEW deltas \in Seq(Delta), NEW d \in Delta
  PROVE  /\ Dedup(deltas, d) \in Seq(Delta)
         /\ Dedup(deltas, d) # <<>>
         /\ Outcome(Dedup(deltas, d)) = After(d)
<1>1. CASE ~(deltas # <<>> /\ IsDeletion(d) /\ IsDeletion(Newest(deltas)))
  <2> DEFINE a == Append(deltas, d)
  <2>1. Dedup(deltas, d) = a
    BY <1>1 DEF Dedup
  <2>2. a \in Seq(Delta) /\ Len(a) = Len(deltas) + 1 /\ a[Len(deltas) + 1] = d
    BY AppendProperties
  <2>3. a # <<>>
    BY <2>2, LenProperties, EmptySeq
  <2> QED BY <2>1, <2>2, <2>3 DEF Outcome, After, Newest
<1>2. CASE deltas # <<>> /\ IsDeletion(d) /\ IsDeletion(Newest(deltas))
  <2>1. Len(deltas) \in 1 .. Len(deltas) /\ Len(deltas) \in Nat
    BY <1>2, NewestIsDelta, LenProperties
  <2>2. CASE Newest(deltas).kind = "Unknown"
    <3> DEFINE e == [deltas EXCEPT ![Len(deltas)] = d]
    <3>1. e \in Seq(Delta) /\ Len(e) = Len(deltas) /\ e[Len(deltas)] = d
      BY <2>1, ExceptSeq
    <3>2. e # <<>>
      BY <2>1, <3>1, EmptySeq
    <3>3. Dedup(deltas, d) = e
      BY <1>2, <2>2 DEF Dedup
    <3> QED BY <1>2, <3>1, <3>2, <3>3 DEF Outcome, After, Newest
  <2>3. CASE Newest(deltas).kind # "Unknown"
    BY <1>2, <2>3 DEF Dedup, Outcome, After
  <2> QED BY <2>2, <2>3
<1> QED BY <1>1, <1>2

-----------------------------------------------------------------------------
(* The queue and the map of deltas *)

\* A retry has deltas: what Pop hands out is never empty.
RetryHasDeltas ==
  consumer = "retry" => /\ retry \in [key : Keys, deltas : Seq(Delta)]
                        /\ retry.deltas # <<>>

\* The inductive invariant.
Shape == TypeOK /\ QueueMatchesItems /\ RetryHasDeltas

\* A step that queues new, a delta for each key of D: the queue and the deltas
\* stay together, keys are put behind those that wait, each key of D is left with
\* the outcome of its new delta, and the consumer does not sleep through a change
\* of the queue.
Queued(D, new) ==
  /\ items' \in [Keys -> Seq(Delta)]
  /\ queue' \in Seq(Keys)
  /\ QueueMatchesItems'
  /\ consumer' \in {"pop", "wait", "retry", "done"}
  /\ consumer' = "retry" <=> consumer = "retry"
  /\ consumer' = "wait" => consumer = "wait" /\ queue' = queue
  /\ Len(queue) <= Len(queue') /\ \A n \in 1 .. Len(queue) : queue'[n] = queue[n]
  /\ \A k \in D : items'[k] = Dedup(items[k], new[k])
  /\ \A k \in D : items'[k] # <<>> /\ Outcome(items'[k]) = After(new[k])
  /\ \A k \in Keys \ D : items'[k] = items[k]

\* queueActionLocked queues what it is given, provided that exactly the keys
\* without deltas are put in the queue.
LEMMA EnqueueQueues ==
  ASSUME TypeOK, QueueMatchesItems,
         NEW D \in SUBSET Keys, NEW new \in [D -> Delta],
         NEW order \in Seq(Keys), IsInjective(order), Range(order) = Fresh(D),
         Enqueue(new, order)
  PROVE  Queued(D, new)
<1>1. /\ items \in [Keys -> Seq(Delta)]
      /\ queue \in Seq(Keys)
      /\ consumer \in {"pop", "wait", "retry", "done"}
  BY DEF TypeOK
<1>2. /\ items' = [k \in Keys |-> IF k \in D THEN Dedup(items[k], new[k]) ELSE items[k]]
      /\ queue' = queue \o order
      /\ consumer' = IF consumer = "wait" /\ D # {} THEN "pop" ELSE consumer
  BY DEF Enqueue
<1>3. ASSUME NEW k \in D
      PROVE  /\ items'[k] \in Seq(Delta)
             /\ items'[k] # <<>>
             /\ items'[k] = Dedup(items[k], new[k])
             /\ Outcome(items'[k]) = After(new[k])
  <2>1. items[k] \in Seq(Delta) /\ new[k] \in Delta /\ items'[k] = Dedup(items[k], new[k])
    BY <1>1, <1>2
  <2> QED BY <2>1, DedupOutcome
<1>4. \A k \in Keys \ D : items'[k] = items[k]
  BY <1>2
<1>5. items' \in [Keys -> Seq(Delta)]
  <2>1. \A k \in Keys : items'[k] \in Seq(Delta)
    BY <1>1, <1>3, <1>4
  <2>2. items' = [k \in Keys |-> items'[k]]
    BY <1>2
  <2> QED BY <2>1, <2>2
<1>6. Range(queue) \cap Range(order) = {}
  BY DEF QueueMatchesItems, Fresh
<1>7. queue' \in Seq(Keys) /\ IsInjective(queue') /\ Range(queue') = Range(queue) \cup Fresh(D)
  BY <1>1, <1>2, <1>6, ConcatRange DEF QueueMatchesItems
<1>8. QueueMatchesItems'
  BY <1>3, <1>4, <1>7 DEF QueueMatchesItems, Fresh
<1>9. consumer' = "wait" => consumer = "wait" /\ queue' = queue
  <2>1. SUFFICES ASSUME D = {} PROVE queue' = queue
    BY <1>1, <1>2
  <2>2. Range(order) = {}
    BY <2>1 DEF Fresh
  <2>3. order = <<>>
    BY <2>2, EmptySeq, LenProperties DEF Range
  <2> QED BY <1>1, <1>2, <2>3
<1>10. Len(queue) <= Len(queue') /\ \A n \in 1 .. Len(queue) : queue'[n] = queue[n]
  BY <1>1, <1>2, ConcatProperties, LenProperties
<1> QED BY <1>1, <1>2, <1>3, <1>4, <1>5, <1>7, <1>8, <1>9, <1>10 DEF Queued

\* queueActionLocked for one key, as Add, Update and Delete call it.
LEMMA EnqueueOneQueues ==
  ASSUME TypeOK, QueueMatchesItems, NEW k \in Keys, NEW d \in Delta, EnqueueOne(k, d)
  PROVE  Queued({k}, [j \in {k} |-> d])
<1>1. PICK s \in Orders(Fresh({k})) : Enqueue([j \in {k} |-> d], s)
  BY DEF EnqueueOne
<1>2. Fresh({k}) \in SUBSET Keys
  BY DEF Fresh
<1>3. s \in Seq(Keys) /\ IsInjective(s) /\ Range(s) = Fresh({k})
  BY <1>1, <1>2, OrdersList
<1> QED BY <1>1, <1>3, EnqueueQueues

\* The keys of a list and the missing ones are disjoint sets of keys, and what
\* Replace queues for them are deltas.
LEMMA ReplacementType ==
  ASSUME TypeOK, NEW list \in Lists
  PROVE  /\ Listed(list) \in SUBSET Keys
         /\ Missing(list) \in SUBSET Keys
         /\ Listed(list) \cap Missing(list) = {}
         /\ Replacement(list) \in [Listed(list) \cup Missing(list) -> Delta]
         /\ \A k \in Listed(list) \cup Missing(list) : After(Replacement(list)[k]) = list[k]
<1>1. /\ Listed(list) \in SUBSET Keys
      /\ Missing(list) \in SUBSET Keys
      /\ Listed(list) \cap Missing(list) = {}
  BY DEF Listed, Missing
<1>2. ASSUME NEW k \in Listed(list)
      PROVE  Replacement(list)[k] \in Delta /\ After(Replacement(list)[k]) = list[k]
  <2>1. list[k] \in Objs
    BY DEF Listed, Lists
  <2>2. Replacement(list)[k] = [kind |-> "Put", obj |-> list[k]]
    BY DEF Replacement
  <2> QED BY <2>1, <2>2 DEF Delta, Kinds, After, IsDeletion
<1>3. ASSUME NEW k \in Missing(list)
      PROVE  Replacement(list)[k] \in Delta /\ After(Replacement(list)[k]) = list[k]
  <2>1. k \in Keys /\ items[k] \in Seq(Delta) /\ known[k] \in Objs \cup {NoObj}
    BY <1>1 DEF TypeOK, Lists
  <2>2. items[k] # <<>> => Newest(items[k]).obj \in Objs
    BY <2>1, NewestIsDelta DEF Delta
  <2>3. items[k] # <<>> \/ known[k] # NoObj
    BY DEF Missing
  <2>4. LatestObj(k) \in Objs
    BY <2>1, <2>2, <2>3 DEF LatestObj
  <2>5. list[k] = NoObj
    BY DEF Missing, Listed
  <2>6. Replacement(list)[k] = [kind |-> "Unknown", obj |-> LatestObj(k)]
    BY <1>1 DEF Replacement
  <2> QED BY <2>4, <2>5, <2>6 DEF Delta, Kinds, After, IsDeletion
<1>4. Replacement(list) =
        [k \in Listed(list) \cup Missing(list) |-> Replacement(list)[k]]
  BY DEF Replacement
<1>5. Replacement(list) \in [Listed(list) \cup Missing(list) -> Delta]
  BY <1>2, <1>3, <1>4
<1> QED BY <1>1, <1>2, <1>3, <1>5

\* Replace, complete or not, queues its replacements for the accepted keys.
LEMMA ReplaceQueues ==
  ASSUME TypeOK, QueueMatchesItems, NEW list \in Lists,
         NEW A \in SUBSET (Listed(list) \cup Missing(list)),
         NEW l \in Orders(Fresh(A \cap Listed(list))),
         NEW m \in Orders(Fresh(A \cap Missing(list))),
         Enqueue([k \in A |-> Replacement(list)[k]], l \o m)
  PROVE  /\ A \in SUBSET Keys
         /\ Queued(A, [k \in A |-> Replacement(list)[k]])
<1>1. /\ A \in SUBSET Keys
      /\ Fresh(A \cap Listed(list)) \in SUBSET Keys
      /\ Fresh(A \cap Missing(list)) \in SUBSET Keys
      /\ Fresh(A \cap Listed(list)) \cap Fresh(A \cap Missing(list)) = {}
      /\ Fresh(A \cap Listed(list)) \cup Fresh(A \cap Missing(list)) = Fresh(A)
  BY ReplacementType DEF Fresh
<1>2. l \o m \in Seq(Keys) /\ IsInjective(l \o m) /\ Range(l \o m) = Fresh(A)
  BY <1>1, TwoOrdersList
<1>3. [k \in A |-> Replacement(list)[k]] \in [A -> Delta]
  BY ReplacementType
<1> QED BY <1>1, <1>2, <1>3, EnqueueQueues

\* Replace that accepts everything.
LEMMA FullReplaceQueues ==
  ASSUME TypeOK, QueueMatchesItems, NEW list \in Lists, Replace(list)
  PROVE  LET A == Listed(list) \cup Missing(list)
         IN  A \in SUBSET Keys /\ Queued(A, [k \in A |-> Replacement(list)[k]])
<1> DEFINE A == Listed(list) \cup Missing(list)
<1>1. PICK l \in Orders(Fresh(Listed(list))), m \in Orders(Fresh(Missing(list))) :
         Enqueue(Replacement(list), l \o m)
  BY DEF Replace
<1>2. /\ A \cap Listed(list) = Listed(list)
      /\ A \cap Missing(list) = Missing(list)
      /\ Replacement(list) = [k \in A |-> Replacement(list)[k]]
  BY DEF Replacement
<1>3. A \in SUBSET (Listed(list) \cup Missing(list))
  OBVIOUS
<1> HIDE DEF A
<1>4. l \in Orders(Fresh(A \cap Listed(list))) /\ m \in Orders(Fresh(A \cap Missing(list)))
  BY <1>2
<1>5. Enqueue([k \in A |-> Replacement(list)[k]], l \o m)
  BY <1>1, <1>2
<1>6. A \in SUBSET Keys /\ Queued(A, [k \in A |-> Replacement(list)[k]])
  BY <1>3, <1>4, <1>5, ReplaceQueues
<1> QED BY <1>6 DEF A

\* Replace that stops at an object or a tombstone which the transformer refuses.
LEMMA PartialReplaceQueues ==
  ASSUME TypeOK, QueueMatchesItems, NEW list \in Lists, NEW A \in SUBSET Keys,
         ReplaceRefused(list, A)
  PROVE  Queued(A, [k \in A |-> Replacement(list)[k]])
<1>1. A \in SUBSET (Listed(list) \cup Missing(list))
  BY DEF ReplaceRefused
<1>2. PICK l \in Orders(Fresh(A \cap Listed(list))),
           m \in Orders(Fresh(A \cap Missing(list))) :
         Enqueue([k \in A |-> Replacement(list)[k]], l \o m)
  BY DEF ReplaceRefused
<1> QED BY <1>1, <1>2, ReplaceQueues

\* Resync queues the known objects it accepts, all of them without deltas.
LEMMA ResyncQueues ==
  ASSUME TypeOK, QueueMatchesItems, NEW A \in SUBSET Keys, Resync(A)
  PROVE  /\ Queued(A, [k \in A |-> [kind |-> "Put", obj |-> known[k]]])
         /\ \A k \in A : items[k] = <<>> /\ known[k] # NoObj
<1>1. PICK s \in Orders(Fresh(A)) :
         Enqueue([k \in A |-> [kind |-> "Put", obj |-> known[k]]], s)
  BY DEF Resync
<1>2. Fresh(A) \in SUBSET Keys
  BY DEF Fresh
<1>3. s \in Seq(Keys) /\ IsInjective(s) /\ Range(s) = Fresh(A)
  BY <1>1, <1>2, OrdersList
<1>4. \A k \in A : items[k] = <<>> /\ known[k] # NoObj
  BY DEF Resync
<1>5. \A k \in A : known[k] \in Objs
  BY <1>4 DEF TypeOK, Lists
<1>6. [k \in A |-> [kind |-> "Put", obj |-> known[k]]] \in [A -> Delta]
  BY <1>5 DEF Delta, Kinds
<1> QED BY <1>1, <1>3, <1>4, <1>6, EnqueueQueues

\* Pop hands out a key that has deltas, and the rest of the queue lists the
\* others.
LEMMA PopHeadTakes ==
  ASSUME TypeOK, QueueMatchesItems, NEW k \in Keys, PopHead(k)
  PROVE  /\ items[k] \in Seq(Delta) /\ items[k] # <<>>
         /\ Outcome(items[k]) \in Objs \cup {NoObj}
         /\ Tail(queue) \in Seq(Keys) /\ IsInjective(Tail(queue))
         /\ Range(Tail(queue)) = {j \in Keys : items[j] # <<>>} \ {k}
<1>1. queue \in Seq(Keys) /\ queue # <<>> /\ k = Head(queue)
  BY DEF TypeOK, PopHead
<1>2. /\ k \in Range(queue)
      /\ Tail(queue) \in Seq(Keys) /\ IsInjective(Tail(queue))
      /\ Range(Tail(queue)) = Range(queue) \ {k}
  BY <1>1, TailRange DEF QueueMatchesItems
<1>3. items[k] \in Seq(Delta) /\ items[k] # <<>>
  BY <1>2 DEF QueueMatchesItems, TypeOK
<1>4. Newest(items[k]) \in Delta
  BY <1>3, NewestIsDelta
<1>5. Outcome(items[k]) \in Objs \cup {NoObj}
  BY <1>4 DEF Outcome, After, Delta
<1> QED BY <1>2, <1>3, <1>5 DEF QueueMatchesItems

\* What a step of the producer leaves alone, besides the queue and the deltas.
LEMMA ProducerKeepsShape ==
  ASSUME Shape, NEW D, NEW new, Queued(D, new),
         populated' \in BOOLEAN, initialPopulationCount' \in Nat,
         initial' \in SUBSET Keys, want' \in Lists, failed' \subseteq failed,
         UNCHANGED <<closed, known, retry, readded>>
  PROVE  Shape'
<1>1. TypeOK'
  BY DEF Shape, TypeOK, Queued
<1>2. RetryHasDeltas'
  BY DEF Shape, RetryHasDeltas, Queued
<1> QED BY <1>1, <1>2 DEF Shape, Queued

\* One step keeps the queue and the deltas together.
LEMMA NextKeepsShape ==
  ASSUME Shape, [Next]_vars
  PROVE  Shape'
<1> USE DEF Shape
<1>1. ASSUME NEW k \in Keys, NEW o \in Objs, Put(k, o)
      PROVE  Shape'
  <2>1. Queued({k}, [j \in {k} |-> [kind |-> "Put", obj |-> o]])
    BY <1>1, EnqueueOneQueues DEF Put, Delta, Kinds
  <2>2. want' \in Lists
    BY <1>1 DEF Put, TypeOK, Lists
  <2> QED BY <1>1, <2>1, <2>2, ProducerKeepsShape DEF Put, TypeOK
<1>2. ASSUME NEW k \in Keys, NEW o \in Objs, Delete(k, o)
      PROVE  Shape'
  <2>1. want' \in Lists
    BY <1>2 DEF Delete, TypeOK, Lists
  <2>2. CASE UNCHANGED <<items, queue, consumer>>
    BY <1>2, <2>1, <2>2 DEF Delete, TypeOK, QueueMatchesItems, RetryHasDeltas
  <2>3. CASE EnqueueOne(k, [kind |-> "Deleted", obj |-> o])
    <3>1. Queued({k}, [j \in {k} |-> [kind |-> "Deleted", obj |-> o]])
      BY <2>3, EnqueueOneQueues DEF Delta, Kinds
    <3> QED BY <1>2, <2>1, <3>1, ProducerKeepsShape DEF Delete, TypeOK
  <2> QED BY <1>2, <2>2, <2>3 DEF Delete
<1>3. CASE ActionRefused
  BY <1>3 DEF ActionRefused, failVars, TypeOK, QueueMatchesItems, RetryHasDeltas
<1>4. ASSUME NEW list \in Lists, Replace(list)
      PROVE  Shape'
  <2> DEFINE A == Listed(list) \cup Missing(list)
  <2>1. A \in SUBSET Keys /\ Queued(A, [k \in A |-> Replacement(list)[k]])
    BY <1>4, FullReplaceQueues
  <2>2. Cardinality(Listed(list)) \in Nat /\ Cardinality(Missing(list)) \in Nat
    BY ReplacementType, DeltaFIFOAssumption, FS_Subset, FS_CardinalityType
  <2>3. /\ populated' \in BOOLEAN
        /\ initialPopulationCount' \in Nat
        /\ initial' \in SUBSET Keys
        /\ want' \in Lists
    BY <1>4, <2>1, <2>2 DEF Replace, TypeOK
  <2> QED BY <1>4, <2>1, <2>3, ProducerKeepsShape DEF Replace
<1>5. ASSUME NEW list \in Lists, NEW A \in SUBSET Keys, ReplaceRefused(list, A)
      PROVE  Shape'
  <2>1. Queued(A, [k \in A |-> Replacement(list)[k]])
    BY <1>5, PartialReplaceQueues
  <2>2. want' \in Lists
    BY <1>5 DEF ReplaceRefused, TypeOK, Lists
  <2> QED BY <1>5, <2>1, <2>2, ProducerKeepsShape DEF ReplaceRefused, TypeOK
<1>6. ASSUME NEW A \in SUBSET Keys, Resync(A)
      PROVE  Shape'
  <2>1. Queued(A, [k \in A |-> [kind |-> "Put", obj |-> known[k]]])
    BY <1>6, ResyncQueues
  <2> QED BY <1>6, <2>1, ProducerKeepsShape DEF Resync, TypeOK, failVars
<1>7. CASE Close
  BY <1>7 DEF Close, failVars, TypeOK, QueueMatchesItems, RetryHasDeltas
<1>8. CASE PopWait
  BY <1>8 DEF PopWait, fifoVars, failVars, TypeOK, QueueMatchesItems, RetryHasDeltas
<1>9. CASE PopClosed
  BY <1>9 DEF PopClosed, fifoVars, failVars, TypeOK, QueueMatchesItems, RetryHasDeltas
<1>10. ASSUME NEW k \in Keys, PopHead(k)
       PROVE  /\ initialPopulationCount' \in Nat
              /\ initial' \in SUBSET Keys
              /\ consumer = "pop"
              /\ UNCHANGED <<closed, want>>
  BY <1>10 DEF PopHead, TypeOK
<1>11. ASSUME NEW k \in Keys, PopProcess(k)
       PROVE  Shape'
  <2>1. PopHead(k)
    BY <1>11 DEF PopProcess
  <2>2. QueueMatchesItems'
    BY <1>11, <2>1, PopHeadTakes DEF PopProcess, QueueMatchesItems, TypeOK
  <2>3. TypeOK'
    BY <1>10, <1>11, <2>1, PopHeadTakes, EmptySeq DEF PopProcess, TypeOK, Lists
  <2> QED BY <1>10, <1>11, <2>1, <2>2, <2>3 DEF PopProcess, RetryHasDeltas
<1>12. ASSUME NEW k \in Keys, PopRequeue(k)
       PROVE  Shape'
  <2>1. PopHead(k)
    BY <1>12 DEF PopRequeue
  <2>2. /\ Tail(queue) \in Seq(Keys) /\ IsInjective(Tail(queue)) /\ k \notin Range(Tail(queue))
        /\ Range(Tail(queue)) \cup {k} = {j \in Keys : items[j] # <<>>}
    BY <2>1, PopHeadTakes
  <2>3. queue' \in Seq(Keys) /\ QueueMatchesItems'
    <3>1. queue' = Append(Tail(queue), k) /\ items' = items
      BY <1>12 DEF PopRequeue
    <3>2. /\ Append(Tail(queue), k) \in Seq(Keys)
          /\ IsInjective(Append(Tail(queue), k))
          /\ Range(Append(Tail(queue), k)) = Range(Tail(queue)) \cup {k}
      <4> DEFINE s == Tail(queue)
      <4>1. s \in Seq(Keys) /\ IsInjective(s) /\ k \notin Range(s)
        BY <2>2
      <4> HIDE DEF s
      <4>2. /\ Append(s, k) \in Seq(Keys)
            /\ IsInjective(Append(s, k))
            /\ Range(Append(s, k)) = Range(s) \cup {k}
        BY <4>1, AppendRange
      <4> QED BY <4>2 DEF s
    <3> QED BY <2>2, <3>1, <3>2 DEF QueueMatchesItems
  <2>4. TypeOK'
    BY <1>10, <1>12, <2>1, <2>3 DEF PopRequeue, failVars, TypeOK
  <2> QED BY <1>10, <1>12, <2>1, <2>3, <2>4 DEF PopRequeue, RetryHasDeltas
<1>13. ASSUME NEW k \in Keys, PopFail(k)
       PROVE  /\ QueueMatchesItems' /\ items' \in [Keys -> Seq(Delta)] /\ queue' \in Seq(Keys)
              /\ known' \in Lists
              /\ items[k] \in Seq(Delta) /\ items[k] # <<>>
              /\ populated' = populated /\ PopHead(k)
              /\ failed' \subseteq Keys /\ readded' \subseteq Keys
  <2>1. PopHead(k) /\ populated' = populated
    BY <1>13 DEF PopFail
  <2>9. failed' \subseteq Keys /\ readded' \subseteq Keys
    BY <1>13 DEF PopFail, TypeOK
  <2>2. QueueMatchesItems' /\ items' \in [Keys -> Seq(Delta)] /\ queue' \in Seq(Keys)
    BY <1>13, <2>1, PopHeadTakes, EmptySeq DEF PopFail, QueueMatchesItems, TypeOK
  <2>3. items[k] \in Seq(Delta) /\ items[k] # <<>>
    BY <2>1, PopHeadTakes
  <2>4. PICK n \in DOMAIN items[k] :
           known' = [known EXCEPT ![k] = IF n = 1 THEN known[k] ELSE After(items[k][n - 1])]
    BY <1>13 DEF PopFail
  <2>5. n \in 1 .. Len(items[k]) /\ Len(items[k]) \in Nat
    BY <2>3, LenProperties
  <2>6. n # 1 => items[k][n - 1] \in Delta
    BY <2>3, <2>5, ElementOfSeq
  <2>7. n # 1 => After(items[k][n - 1]) \in Objs \cup {NoObj}
    BY <2>6 DEF After, Delta
  <2>8. known' \in Lists
    BY <2>4, <2>7 DEF TypeOK, Lists
  <2> QED BY <2>1, <2>2, <2>3, <2>8, <2>9
<1>14. ASSUME NEW k \in Keys, PopError(k)
       PROVE  Shape'
  <2>1. PopFail(k) /\ consumer' = "retry" /\ retry' = [key |-> k, deltas |-> items[k]]
    BY <1>14 DEF PopError
  <2>2. retry' \in [key : Keys, deltas : Seq(Delta)] /\ retry'.deltas # <<>>
    BY <1>13, <2>1
  <2>3. retry' # NoRetry
    BY <2>2 DEF NoRetry
  <2>4. TypeOK'
    BY <1>10, <1>13, <2>1, <2>2, <2>3 DEF TypeOK
  <2> QED BY <1>13, <2>1, <2>2, <2>4 DEF RetryHasDeltas
<1>15. ASSUME NEW k \in Keys, PopDrop(k)
       PROVE  Shape'
  <2>1. PopFail(k) /\ UNCHANGED <<consumer, retry>>
    BY <1>15 DEF PopDrop
  <2>2. TypeOK'
    BY <1>10, <1>13, <2>1 DEF TypeOK
  <2> QED BY <1>13, <2>1, <2>2 DEF RetryHasDeltas
<1>16. CASE AddIfNotPresent
  <2>1. consumer' = "pop" /\ retry' = NoRetry
    BY <1>16 DEF AddIfNotPresent
  <2>2. retry.key \in Keys /\ retry.deltas \in Seq(Delta) /\ retry.deltas # <<>>
    BY <1>16 DEF AddIfNotPresent, RetryHasDeltas
  <2>3. CASE UNCHANGED <<items, queue>>
    BY <1>16, <2>1, <2>3 DEF AddIfNotPresent, TypeOK, QueueMatchesItems, RetryHasDeltas
  <2>4. CASE /\ items[retry.key] = <<>>
             /\ queue' = Append(queue, retry.key)
             /\ items' = [items EXCEPT ![retry.key] = retry.deltas]
    <3>1. queue \in Seq(Keys) /\ IsInjective(queue) /\ retry.key \notin Range(queue)
      BY <2>4 DEF TypeOK, QueueMatchesItems
    <3>2. /\ queue' \in Seq(Keys) /\ IsInjective(queue')
          /\ Range(queue') = Range(queue) \cup {retry.key}
      BY <2>2, <2>4, <3>1, AppendRange
    <3>3. QueueMatchesItems'
      BY <2>2, <2>4, <3>2 DEF QueueMatchesItems, TypeOK
    <3>4. TypeOK'
      BY <1>16, <2>1, <2>2, <2>4, <3>2 DEF AddIfNotPresent, TypeOK
    <3> QED BY <2>1, <3>3, <3>4 DEF RetryHasDeltas
  <2> QED BY <1>16, <2>3, <2>4 DEF AddIfNotPresent
<1>17. CASE UNCHANGED vars
  BY <1>17 DEF vars, TypeOK, QueueMatchesItems, RetryHasDeltas
<1> QED
  BY <1>1, <1>2, <1>3, <1>4, <1>5, <1>6, <1>7, <1>8, <1>9, <1>11, <1>12, <1>14,
     <1>15, <1>16, <1>17 DEF Next, Pop

\* The initial state has an empty queue and no deltas.
LEMMA InitShape == Init => Shape
<1> SUFFICES ASSUME Init PROVE Shape
  OBVIOUS
<1>1. <<>> \in Seq(Delta) /\ <<>> \in Seq(Keys)
  BY EmptySeq
<1>2. items \in [Keys -> Seq(Delta)] /\ queue \in Seq(Keys)
  BY <1>1 DEF Init
<1>3. TypeOK
  BY <1>2 DEF Init, TypeOK, Lists
<1>4. QueueMatchesItems
  BY DEF Init, QueueMatchesItems, Range, IsInjective
<1> QED BY <1>3, <1>4 DEF Shape, RetryHasDeltas, Init

\* The invariant, for whatever Failures process has.
THEOREM ShapeCorrect == Spec => []Shape
<1>1. Shape /\ [Next]_vars => Shape'
  BY NextKeepsShape
<1> QED BY <1>1, InitShape, PTL DEF Spec

\* The variables of the FIFO, of the client state and of processLoop always
\* have their types; processLoop holds a retry exactly when Pop has failed.
THEOREM TypeCorrect == Spec => []TypeOK
<1>1. Shape => TypeOK
  BY DEF Shape
<1> QED BY <1>1, ShapeCorrect, PTL

\* f.queue lists exactly the keys of f.items, each once, whatever Replace,
\* Resync, requeues and retries do.
THEOREM QueueCorrect == Spec => []QueueMatchesItems
<1>1. Shape => QueueMatchesItems
  BY DEF Shape
<1> QED BY <1>1, ShapeCorrect, PTL

-----------------------------------------------------------------------------
(* No lost wakeup *)

\* The consumer parks on an empty queue only, and every step that queues a key
\* or closes the FIFO wakes it.
LEMMA NextKeepsAwake ==
  ASSUME Shape, ConsumerAwake, [Next]_vars
  PROVE  ConsumerAwake'
<1> USE DEF Shape
<1>1. ASSUME NEW D, NEW new, Queued(D, new), UNCHANGED closed
      PROVE  ConsumerAwake'
  BY <1>1 DEF Queued, ConsumerAwake
<1>2. ASSUME NEW k \in Keys, NEW o \in Objs, Put(k, o)
      PROVE  ConsumerAwake'
  <2>1. Queued({k}, [j \in {k} |-> [kind |-> "Put", obj |-> o]])
    BY <1>2, EnqueueOneQueues DEF Put, Delta, Kinds
  <2> QED BY <1>1, <1>2, <2>1 DEF Put
<1>3. ASSUME NEW k \in Keys, NEW o \in Objs, Delete(k, o)
      PROVE  ConsumerAwake'
  <2>1. CASE UNCHANGED <<items, queue, consumer>>
    BY <1>3, <2>1 DEF Delete, ConsumerAwake
  <2>2. CASE EnqueueOne(k, [kind |-> "Deleted", obj |-> o])
    <3>1. Queued({k}, [j \in {k} |-> [kind |-> "Deleted", obj |-> o]])
      BY <2>2, EnqueueOneQueues DEF Delta, Kinds
    <3> QED BY <1>1, <1>3, <3>1 DEF Delete
  <2> QED BY <1>3, <2>1, <2>2 DEF Delete
<1>4. ASSUME NEW list \in Lists, Replace(list)
      PROVE  ConsumerAwake'
  BY <1>1, <1>4, FullReplaceQueues DEF Replace
<1>5. ASSUME NEW list \in Lists, NEW A \in SUBSET Keys, ReplaceRefused(list, A)
      PROVE  ConsumerAwake'
  BY <1>1, <1>5, PartialReplaceQueues DEF ReplaceRefused
<1>6. ASSUME NEW A \in SUBSET Keys, Resync(A)
      PROVE  ConsumerAwake'
  BY <1>1, <1>6, ResyncQueues DEF Resync
<1>7. CASE ActionRefused \/ Close \/ PopWait \/ PopClosed
  BY <1>7 DEF ActionRefused, Close, PopWait, PopClosed, fifoVars, ConsumerAwake
<1>8. ASSUME NEW k \in Keys, PopProcess(k) \/ PopRequeue(k) \/ PopError(k) \/ PopDrop(k)
      PROVE  ConsumerAwake'
  BY <1>8 DEF PopProcess, PopRequeue, PopError, PopDrop, PopFail, PopHead, ConsumerAwake
<1>9. CASE AddIfNotPresent
  BY <1>9 DEF AddIfNotPresent, ConsumerAwake
<1>10. CASE UNCHANGED vars
  BY <1>10 DEF vars, ConsumerAwake
<1> QED
  BY <1>2, <1>3, <1>4, <1>5, <1>6, <1>7, <1>8, <1>9, <1>10 DEF Next, Pop

\* No wakeup is lost: processLoop sleeps in cond.Wait only while the queue is
\* empty and the FIFO open.
THEOREM ConsumerAwakeCorrect == Spec => []ConsumerAwake
<1>1. Init => ConsumerAwake
  BY DEF Init, ConsumerAwake
<1>2. Shape /\ ConsumerAwake /\ [Next]_vars => ConsumerAwake'
  BY NextKeepsAwake
<1> QED BY <1>1, <1>2, ShapeCorrect, PTL DEF Spec

-----------------------------------------------------------------------------
(* No change is lost or undone *)

\* While processLoop holds the deltas of a key that is not failed any more,
\* newer deltas of that key are queued, so that AddIfNotPresent adds nothing.
RetryIsObsolete ==
  consumer = "retry" /\ retry.key \notin failed => items[retry.key] # <<>>

\* The inductive invariant behind Faithful.
FaithfulInv == RetryIsObsolete /\ Faithful

\* A step of the producer that queues new for the keys of D, and asks for it,
\* makes these keys right, and the others stay as they were.
LEMMA QueuedKeepsFaithful ==
  ASSUME Shape, FaithfulInv, NEW D \in SUBSET Keys, NEW new, Queued(D, new),
         UNCHANGED <<known, retry>>, failed' \subseteq failed, failed \ D \subseteq failed',
         \A k \in D \ failed' : want'[k] = After(new[k]),
         \A k \in (Keys \ D) \ failed' : want'[k] = View(k)
  PROVE  FaithfulInv'
<1>1. \A k \in D \ failed' : View(k)' = want'[k]
  BY DEF Queued, View
<1>2. \A k \in (Keys \ D) \ failed' : View(k)' = want'[k]
  BY DEF Queued, View
<1>3. ASSUME consumer' = "retry", retry.key \notin failed'
      PROVE  items'[retry.key] # <<>>
  <2>1. consumer = "retry" /\ retry.key \in Keys
    BY <1>3 DEF Queued, Shape, RetryHasDeltas
  <2>2. CASE retry.key \in D
    BY <2>2 DEF Queued
  <2>3. CASE retry.key \notin D
    BY <1>3, <2>1, <2>3 DEF Queued, FaithfulInv, RetryIsObsolete
  <2> QED BY <2>2, <2>3
<1> QED BY <1>1, <1>2, <1>3 DEF FaithfulInv, Faithful, RetryIsObsolete

\* A step that pops k leaves the other keys what they are.
LEMMA OthersKeepView ==
  ASSUME TypeOK, NEW k \in Keys, NEW o,
         items' = [items EXCEPT ![k] = <<>>], known' = [known EXCEPT ![k] = o]
  PROVE  \A j \in Keys \ {k} : View(j)' = View(j)
BY DEF TypeOK, Lists, View

\* One step keeps the view of every key that is not failed what the producer
\* asked for.
LEMMA NextKeepsFaithful ==
  ASSUME Shape, FaithfulInv, [Next]_vars
  PROVE  FaithfulInv'
<1>1. TypeOK /\ QueueMatchesItems /\ want \in Lists /\ known \in Lists
  BY DEF Shape, TypeOK
<1>2. ASSUME NEW k \in Keys, NEW o \in Objs, Put(k, o)
      PROVE  FaithfulInv'
  <2> DEFINE d == [j \in {k} |-> [kind |-> "Put", obj |-> o]]
  <2>1. Queued({k}, d)
    BY <1>1, <1>2, EnqueueOneQueues DEF Put, Delta, Kinds
  <2>2. After(d[k]) = o
    BY DEF After, IsDeletion
  <2>3. /\ want' = [want EXCEPT ![k] = o] /\ UNCHANGED <<known, retry>>
        /\ failed' = failed \ {k}
    BY <1>2 DEF Put
  <2>4. \A j \in {k} : want'[j] = After(d[j])
    BY <1>1, <2>2, <2>3 DEF Lists
  <2>5. \A j \in (Keys \ {k}) \ failed' : want'[j] = View(j)
    BY <1>1, <2>3 DEF Lists, FaithfulInv, Faithful
  <2> HIDE DEF d
  <2> QED BY <2>1, <2>3, <2>4, <2>5, QueuedKeepsFaithful
<1>3. ASSUME NEW k \in Keys, NEW o \in Objs, Delete(k, o)
      PROVE  FaithfulInv'
  <2>1. want' = [want EXCEPT ![k] = NoObj] /\ UNCHANGED <<known, retry>>
    BY <1>3 DEF Delete
  <2>2. CASE known[k] = NoObj /\ items[k] = <<>> /\ UNCHANGED <<items, queue, consumer, failed>>
    BY <1>1, <2>1, <2>2 DEF FaithfulInv, Faithful, RetryIsObsolete, View, Lists
  <2>3. CASE EnqueueOne(k, [kind |-> "Deleted", obj |-> o]) /\ failed' = failed \ {k}
    <3> DEFINE d == [j \in {k} |-> [kind |-> "Deleted", obj |-> o]]
    <3>1. Queued({k}, d)
      BY <1>1, <2>3, EnqueueOneQueues DEF Delta, Kinds
    <3>2. After(d[k]) = NoObj
      BY DEF After, IsDeletion
    <3>3. \A j \in {k} : want'[j] = After(d[j])
      BY <1>1, <2>1, <3>2 DEF Lists
    <3>4. \A j \in (Keys \ {k}) \ failed' : want'[j] = View(j)
      BY <1>1, <2>1, <2>3 DEF Lists, FaithfulInv, Faithful
    <3> HIDE DEF d
    <3> QED BY <2>1, <2>3, <3>1, <3>3, <3>4, QueuedKeepsFaithful
  <2> QED BY <1>3, <2>2, <2>3 DEF Delete
<1>4. ASSUME NEW list \in Lists, Replace(list)
      PROVE  FaithfulInv'
  <2> DEFINE A == Listed(list) \cup Missing(list)
             new == [k \in A |-> Replacement(list)[k]]
  <2>1. A \in SUBSET Keys /\ Queued(A, new)
    BY <1>1, <1>4, FullReplaceQueues
  <2>2. want' = list /\ UNCHANGED <<known, retry>> /\ failed' = failed \ A
    BY <1>4 DEF Replace
  <2>3. \A k \in A : want'[k] = After(new[k])
    BY <1>1, <2>2, ReplacementType
  <2>4. \A k \in Keys \ A : want'[k] = View(k)
    BY <2>2 DEF View, Listed, Missing
  <2> HIDE DEF A, new
  <2> QED BY <2>1, <2>2, <2>3, <2>4, QueuedKeepsFaithful
<1>5. ASSUME NEW list \in Lists, NEW A \in SUBSET Keys, ReplaceRefused(list, A)
      PROVE  FaithfulInv'
  <2> DEFINE new == [k \in A |-> Replacement(list)[k]]
  <2>1. Queued(A, new)
    BY <1>1, <1>5, PartialReplaceQueues
  <2>2. /\ A \subseteq Listed(list) \cup Missing(list)
        /\ want' = [k \in Keys |-> IF k \in A THEN list[k] ELSE want[k]]
        /\ UNCHANGED <<known, retry>> /\ failed' = failed \ A
    BY <1>5 DEF ReplaceRefused
  <2>3. \A k \in A : want'[k] = After(new[k])
    BY <1>1, <2>2, ReplacementType
  <2>4. \A k \in (Keys \ A) \ failed' : want'[k] = View(k)
    BY <2>2 DEF FaithfulInv, Faithful
  <2> HIDE DEF new
  <2> QED BY <2>1, <2>2, <2>3, <2>4, QueuedKeepsFaithful
<1>6. ASSUME NEW A \in SUBSET Keys, Resync(A)
      PROVE  FaithfulInv'
  <2> DEFINE new == [k \in A |-> [kind |-> "Put", obj |-> known[k]]]
  <2>1. Queued(A, new) /\ \A k \in A : items[k] = <<>>
    BY <1>1, <1>6, ResyncQueues
  <2>2. UNCHANGED <<want, known, retry, failed>>
    BY <1>6 DEF Resync, failVars
  <2>3. \A k \in A \ failed' : want'[k] = After(new[k])
    BY <2>1, <2>2 DEF After, IsDeletion, FaithfulInv, Faithful, View
  <2>4. \A k \in (Keys \ A) \ failed' : want'[k] = View(k)
    BY <2>2 DEF FaithfulInv, Faithful
  <2> HIDE DEF new
  <2> QED BY <2>1, <2>2, <2>3, <2>4, QueuedKeepsFaithful
<1>7. CASE ActionRefused \/ Close \/ PopWait \/ PopClosed \/ UNCHANGED vars
  BY <1>7 DEF ActionRefused, Close, PopWait, PopClosed, fifoVars, failVars, vars,
              FaithfulInv, Faithful, RetryIsObsolete, View
<1>8. ASSUME NEW k \in Keys, PopProcess(k)
      PROVE  FaithfulInv'
  <2>1. PopHead(k)
    BY <1>8 DEF PopProcess
  <2>2. items[k] # <<>> /\ items \in [Keys -> Seq(Delta)]
    BY <1>1, <2>1, PopHeadTakes DEF TypeOK
  <2>3. /\ items' = [items EXCEPT ![k] = <<>>]
        /\ known' = [known EXCEPT ![k] = Outcome(items[k])]
        /\ UNCHANGED <<want, consumer, failed>> /\ consumer = "pop"
    BY <1>8 DEF PopProcess, PopHead
  <2>4. View(k)' = View(k)
    BY <1>1, <2>2, <2>3 DEF View, Lists
  <2>5. \A j \in Keys \ {k} : View(j)' = View(j)
    BY <1>1, <2>3, OthersKeepView
  <2> QED BY <2>3, <2>4, <2>5 DEF FaithfulInv, Faithful, RetryIsObsolete
<1>9. ASSUME NEW k \in Keys, PopRequeue(k)
      PROVE  FaithfulInv'
  BY <1>9 DEF PopRequeue, PopHead, failVars, FaithfulInv, Faithful, RetryIsObsolete, View
<1>10. ASSUME NEW k \in Keys, PopError(k) \/ PopDrop(k)
       PROVE  FaithfulInv'
  <2>1. PopFail(k) /\ (consumer' = "retry" => retry'.key = k)
    <3>1. CASE PopError(k)
      BY <3>1 DEF PopError
    <3>2. CASE PopDrop(k)
      <4>1. PopFail(k) /\ consumer' = consumer
        BY <3>2 DEF PopDrop
      <4>2. consumer = "pop"
        BY <4>1 DEF PopFail, PopHead
      <4> QED BY <4>1, <4>2
    <3> QED BY <1>10, <3>1, <3>2
  <2>2. PICK n \in DOMAIN items[k] :
           known' = [known EXCEPT ![k] = IF n = 1 THEN known[k] ELSE After(items[k][n - 1])]
    BY <2>1 DEF PopFail
  <2>3. /\ items' = [items EXCEPT ![k] = <<>>]
        /\ failed' = failed \cup {k} /\ UNCHANGED want
    BY <2>1 DEF PopFail, PopHead
  <2>4. \A j \in Keys \ {k} : View(j)' = View(j)
    BY <1>1, <2>2, <2>3, OthersKeepView
  <2> QED BY <2>1, <2>3, <2>4 DEF FaithfulInv, Faithful, RetryIsObsolete
<1>11. CASE AddIfNotPresent
  <2>1. consumer = "retry" /\ consumer' = "pop" /\ UNCHANGED <<known, want, failed>>
    BY <1>11 DEF AddIfNotPresent
  <2>2. CASE UNCHANGED items
    BY <2>1, <2>2 DEF FaithfulInv, Faithful, RetryIsObsolete, View
  <2>3. CASE items[retry.key] = <<>> /\ items' = [items EXCEPT ![retry.key] = retry.deltas]
    <3>1. retry.key \in failed
      BY <2>1, <2>3 DEF FaithfulInv, RetryIsObsolete
    <3>2. \A j \in Keys \ failed : items'[j] = items[j]
      BY <1>1, <2>3, <3>1 DEF TypeOK
    <3> QED BY <2>1, <3>2 DEF FaithfulInv, Faithful, RetryIsObsolete, View
  <2> QED BY <1>11, <2>2, <2>3 DEF AddIfNotPresent
<1> QED
  BY <1>2, <1>3, <1>4, <1>5, <1>6, <1>7, <1>8, <1>9, <1>10, <1>11 DEF Next, Pop

\* Whatever may follow a failure of process, the deltas and the client state
\* together always say what the producer asked for last, for every key but those
\* whose Pop failed and for which nothing has been queued since.
THEOREM FaithfulCorrect == Spec => []Faithful
<1>1. Init => FaithfulInv
  BY DEF Init, Faithful, RetryIsObsolete, View, FaithfulInv
<1>2. Shape /\ FaithfulInv /\ [Next]_vars => FaithfulInv'
  BY NextKeepsFaithful
<1>3. FaithfulInv => Faithful
  BY DEF FaithfulInv
<1> QED BY <1>1, <1>2, <1>3, ShapeCorrect, PTL DEF Spec

-----------------------------------------------------------------------------
(* Deltas that can be replayed *)

\* The two invariants on the deltas of one key, over an object o to start from.
Replayable(deltas, o) ==
  \A n \in DOMAIN deltas :
    /\ IsDeletion(deltas[n]) => IF n = 1 THEN o # NoObj ELSE ~IsDeletion(deltas[n - 1])
    /\ deltas[n].kind = "Unknown" => deltas[n].obj = IF n = 1 THEN o ELSE deltas[n - 1].obj

\* A delta that may follow what is queued for its key: a deletion deletes
\* something, and a tombstone carries the latest object.
MayFollow(deltas, o, d) ==
  /\ IsDeletion(d) => deltas # <<>> \/ o # NoObj
  /\ d.kind = "Unknown" => d.obj = IF deltas # <<>> THEN Newest(deltas).obj ELSE o

\* dedupDeltas keeps deltas replayable, also where it overwrites a tombstone.
LEMMA DedupReplayable ==
  ASSUME NEW deltas \in Seq(Delta), NEW o, NEW d \in Delta,
         Replayable(deltas, o), MayFollow(deltas, o, d)
  PROVE  Replayable(Dedup(deltas, d), o)
<1>1. Len(deltas) \in Nat /\ DOMAIN deltas = 1 .. Len(deltas)
  BY LenProperties
<1>2. CASE ~(deltas # <<>> /\ IsDeletion(d) /\ IsDeletion(Newest(deltas)))
  <2> DEFINE a == Append(deltas, d)
  <2>1. Dedup(deltas, d) = a
    BY <1>2 DEF Dedup
  <2>2. /\ DOMAIN a = 1 .. Len(deltas) + 1
        /\ \A n \in 1 .. Len(deltas) : a[n] = deltas[n]
        /\ a[Len(deltas) + 1] = d
    BY AppendProperties, LenProperties
  <2> HIDE DEF a
  <2>3. deltas = <<>> <=> Len(deltas) = 0
    BY EmptySeq
  <2>4. IsDeletion(d) /\ Len(deltas) # 0 => ~IsDeletion(a[Len(deltas)])
    BY <1>1, <1>2, <2>2, <2>3 DEF Newest
  <2>5. d.kind = "Unknown" =>
          d.obj = IF Len(deltas) + 1 = 1 THEN o ELSE a[Len(deltas)].obj
    BY <1>1, <2>2, <2>3 DEF MayFollow, Newest
  <2>6. Replayable(a, o)
    BY <1>1, <2>2, <2>3, <2>4, <2>5 DEF Replayable, MayFollow
  <2> QED BY <2>1, <2>6
<1>3. CASE deltas # <<>> /\ IsDeletion(d) /\ IsDeletion(Newest(deltas))
  <2>1. Len(deltas) \in 1 .. Len(deltas)
    BY <1>3, NewestIsDelta
  <2>2. CASE Newest(deltas).kind = "Unknown"
    <3> DEFINE e == [deltas EXCEPT ![Len(deltas)] = d]
    <3>1. Dedup(deltas, d) = e
      BY <1>3, <2>2 DEF Dedup
    <3>2. /\ DOMAIN e = 1 .. Len(deltas)
          /\ \A n \in 1 .. Len(deltas) - 1 : e[n] = deltas[n]
          /\ e[Len(deltas)] = d
      BY <1>1, <2>1
    <3> HIDE DEF e
    <3>3. d.kind = "Unknown" => d.obj = deltas[Len(deltas)].obj
      BY <1>3 DEF MayFollow, Newest
    <3>4. IsDeletion(deltas[Len(deltas)]) /\ deltas[Len(deltas)].kind = "Unknown"
      BY <1>3, <2>2 DEF Newest
    <3>5. Replayable(e, o)
      BY <1>1, <2>1, <3>2, <3>3, <3>4 DEF Replayable
    <3> QED BY <3>1, <3>5
  <2>3. CASE Newest(deltas).kind # "Unknown"
    BY <1>3, <2>3 DEF Dedup
  <2> QED BY <2>2, <2>3
<1> QED BY <1>2, <1>3

\* The inductive invariant behind DeltasReplayable and TombstoneIsLatest.
AllReplayable == \A k \in Keys \ readded : Replayable(items[k], known[k])

LEMMA QueuedKeepsReplayable ==
  ASSUME Shape, AllReplayable, NEW D \in SUBSET Keys, NEW new \in [D -> Delta], Queued(D, new),
         UNCHANGED <<known, readded>>,
         \A k \in D : MayFollow(items[k], known[k], new[k])
  PROVE  AllReplayable'
<1>1. ASSUME NEW k \in D, k \notin readded
      PROVE  Replayable(items'[k], known[k])
  <2>1. items[k] \in Seq(Delta) /\ Replayable(items[k], known[k])
    BY <1>1 DEF Shape, TypeOK, AllReplayable
  <2> QED BY <2>1, DedupReplayable DEF Queued
<1> QED BY <1>1 DEF AllReplayable, Queued

\* What Replace queues may follow: a missing key has deltas or a known object,
\* and its tombstone carries the latest one.
LEMMA ReplacementFollows ==
  ASSUME NEW list \in Lists, NEW k \in Listed(list) \cup Missing(list)
  PROVE  MayFollow(items[k], known[k], Replacement(list)[k])
<1>1. CASE k \in Listed(list)
  BY <1>1 DEF Replacement, MayFollow, IsDeletion
<1>2. CASE k \in Missing(list)
  <2>1. Replacement(list)[k] = [kind |-> "Unknown", obj |-> LatestObj(k)]
    BY <1>2 DEF Replacement, Missing
  <2> QED BY <1>2, <2>1 DEF Missing, MayFollow, LatestObj
<1> QED BY <1>1, <1>2

LEMMA NextKeepsReplayable ==
  ASSUME Shape, AllReplayable, [Next]_vars
  PROVE  AllReplayable'
<1>1. TypeOK /\ QueueMatchesItems /\ items \in [Keys -> Seq(Delta)] /\ known \in Lists
  BY DEF Shape, TypeOK
<1>2. ASSUME NEW k \in Keys, NEW o \in Objs, Put(k, o)
      PROVE  AllReplayable'
  <2> DEFINE new == [j \in {k} |-> [kind |-> "Put", obj |-> o]]
  <2>1. Queued({k}, new) /\ new \in [{k} -> Delta]
    BY <1>1, <1>2, EnqueueOneQueues DEF Put, Delta, Kinds
  <2>2. \A j \in {k} : MayFollow(items[j], known[j], new[j])
    BY DEF MayFollow, IsDeletion
  <2> HIDE DEF new
  <2> QED BY <1>2, <2>1, <2>2, QueuedKeepsReplayable DEF Put
<1>3. ASSUME NEW k \in Keys, NEW o \in Objs, Delete(k, o)
      PROVE  AllReplayable'
  <2>1. CASE UNCHANGED <<items, queue, consumer>>
    BY <1>3, <2>1 DEF Delete, AllReplayable
  <2>2. CASE /\ known[k] # NoObj \/ items[k] # <<>>
             /\ EnqueueOne(k, [kind |-> "Deleted", obj |-> o])
    <3> DEFINE new == [j \in {k} |-> [kind |-> "Deleted", obj |-> o]]
    <3>1. Queued({k}, new) /\ new \in [{k} -> Delta]
      BY <1>1, <2>2, EnqueueOneQueues DEF Delta, Kinds
    <3>2. \A j \in {k} : MayFollow(items[j], known[j], new[j])
      BY <2>2 DEF MayFollow
    <3> HIDE DEF new
    <3> QED BY <1>3, <3>1, <3>2, QueuedKeepsReplayable DEF Delete
  <2> QED BY <1>3, <2>1, <2>2 DEF Delete
<1>4. ASSUME NEW list \in Lists, Replace(list)
      PROVE  AllReplayable'
  <2> DEFINE A == Listed(list) \cup Missing(list)
             new == [k \in A |-> Replacement(list)[k]]
  <2>1. A \in SUBSET Keys /\ Queued(A, new)
    BY <1>1, <1>4, FullReplaceQueues
  <2>2. new \in [A -> Delta]
    BY <1>1, ReplacementType
  <2>3. \A k \in A : MayFollow(items[k], known[k], new[k])
    BY ReplacementFollows
  <2> HIDE DEF A, new
  <2> QED BY <1>4, <2>1, <2>2, <2>3, QueuedKeepsReplayable DEF Replace
<1>5. ASSUME NEW list \in Lists, NEW A \in SUBSET Keys, ReplaceRefused(list, A)
      PROVE  AllReplayable'
  <2> DEFINE new == [k \in A |-> Replacement(list)[k]]
  <2>1. A \subseteq Listed(list) \cup Missing(list) /\ Queued(A, new)
    BY <1>1, <1>5, PartialReplaceQueues DEF ReplaceRefused
  <2>2. new \in [A -> Delta]
    BY <1>1, <2>1, ReplacementType
  <2>3. \A k \in A : MayFollow(items[k], known[k], new[k])
    BY <2>1, ReplacementFollows
  <2> HIDE DEF new
  <2> QED BY <1>5, <2>1, <2>2, <2>3, QueuedKeepsReplayable DEF ReplaceRefused
<1>6. ASSUME NEW A \in SUBSET Keys, Resync(A)
      PROVE  AllReplayable'
  <2> DEFINE new == [k \in A |-> [kind |-> "Put", obj |-> known[k]]]
  <2>1. Queued(A, new) /\ \A k \in A : known[k] # NoObj
    BY <1>1, <1>6, ResyncQueues
  <2>2. new \in [A -> Delta]
    BY <1>1, <2>1 DEF Lists, Delta, Kinds
  <2>3. \A k \in A : MayFollow(items[k], known[k], new[k])
    BY DEF MayFollow, IsDeletion
  <2> HIDE DEF new
  <2> QED BY <1>6, <2>1, <2>2, <2>3, QueuedKeepsReplayable DEF Resync, failVars
<1>7. CASE ActionRefused \/ Close \/ PopWait \/ PopClosed \/ UNCHANGED vars
  BY <1>7 DEF ActionRefused, Close, PopWait, PopClosed, fifoVars, failVars, vars, AllReplayable
<1>8. ASSUME NEW k \in Keys, NEW o, items' = [items EXCEPT ![k] = <<>>],
             known' = [known EXCEPT ![k] = o], readded' = readded \ {k}
      PROVE  AllReplayable'
  <2>1. Replayable(items'[k], known'[k])
    BY <1>1, <1>8 DEF Replayable
  <2>2. \A j \in Keys \ {k} : items'[j] = items[j] /\ known'[j] = known[j]
    BY <1>1, <1>8 DEF Lists
  <2> QED BY <1>8, <2>1, <2>2 DEF AllReplayable
<1>9. ASSUME NEW k \in Keys, PopProcess(k)
      PROVE  AllReplayable'
  BY <1>8, <1>9 DEF PopProcess
<1>10. ASSUME NEW k \in Keys, PopRequeue(k)
       PROVE  AllReplayable'
  BY <1>10 DEF PopRequeue, failVars, AllReplayable
<1>11. ASSUME NEW k \in Keys, PopError(k) \/ PopDrop(k)
       PROVE  AllReplayable'
  BY <1>8, <1>11 DEF PopError, PopDrop, PopFail
<1>12. CASE AddIfNotPresent
  <2>1. CASE UNCHANGED <<items, readded>>
    BY <1>12, <2>1 DEF AddIfNotPresent, AllReplayable
  <2>2. CASE /\ items' = [items EXCEPT ![retry.key] = retry.deltas]
             /\ readded' = readded \cup {retry.key}
    BY <1>1, <1>12, <2>2 DEF AddIfNotPresent, AllReplayable
  <2> QED BY <1>12, <2>1, <2>2 DEF AddIfNotPresent
<1> QED
  BY <1>2, <1>3, <1>4, <1>5, <1>6, <1>7, <1>9, <1>10, <1>11, <1>12 DEF Next, Pop

LEMMA ReplayableCorrect == Spec => []AllReplayable
<1>1. Init => AllReplayable
  BY DEF Init, AllReplayable, Replayable
<1>2. Shape /\ AllReplayable /\ [Next]_vars => AllReplayable'
  BY NextKeepsReplayable
<1> QED BY <1>1, <1>2, ShapeCorrect, PTL DEF Spec

\* processDeltas never deletes what the client state does not have, nor twice in
\* a row, except when it gets deltas again that a failed Pop applied in part.
THEOREM DeltasReplayableCorrect == Spec => []DeltasReplayable
<1>1. AllReplayable => DeltasReplayable
  BY DEF AllReplayable, Replayable, DeltasReplayable
<1> QED BY <1>1, ReplayableCorrect, PTL

\* Every DeletedFinalStateUnknown carries the object that the client is told of
\* last before it, however Replace and dedupDeltas came to it.
THEOREM TombstoneIsLatestCorrect == Spec => []TombstoneIsLatest
<1>1. AllReplayable => TombstoneIsLatest
  BY DEF AllReplayable, Replayable, TombstoneIsLatest
<1> QED BY <1>1, ReplayableCorrect, PTL

-----------------------------------------------------------------------------
(* The count of the first Replace *)

\* A sequence without duplicates is as long as the set of its elements is large.
LEMMA LengthIsCardinality ==
  ASSUME NEW S, NEW s \in Seq(S), IsInjective(s)
  PROVE  IsFiniteSet(Range(s)) /\ Cardinality(Range(s)) = Len(s)
<1>1. Len(s) \in Nat /\ DOMAIN s = 1 .. Len(s) /\ s \in [1 .. Len(s) -> S]
  BY LenProperties
<1>2. IsFiniteSet(1 .. Len(s)) /\ Cardinality(1 .. Len(s)) = Len(s)
  BY <1>1, FS_Interval
<1>3. s \in [1 .. Len(s) -> Range(s)]
  BY <1>1 DEF Range
<1>4. s \in Bijection(1 .. Len(s), Range(s))
  BY <1>1, <1>3 DEF Bijection, Injection, Surjection, Range
<1>5. ExistsBijection(1 .. Len(s), Range(s))
  BY <1>4 DEF ExistsBijection
<1> QED BY <1>2, <1>5, FS_Bijection

\* Keys that come to the end of the queue do not disturb the count.
LEMMA ExtendKeepsCount ==
  ASSUME Shape, SyncCount, queue' \in Seq(Keys), Len(queue) <= Len(queue'),
         \A n \in 1 .. Len(queue) : queue'[n] = queue[n],
         UNCHANGED <<initialPopulationCount, initial>>
  PROVE  SyncCount'
<1>1. Len(queue) \in Nat /\ Len(queue') \in Nat /\ initialPopulationCount \in Nat
  BY LenProperties DEF Shape, TypeOK
<1>2. \A n \in 1 .. initialPopulationCount : queue'[n] = queue[n]
  BY <1>1 DEF SyncCount
<1> DEFINE c == initialPopulationCount
<1>3. {queue'[n] : n \in 1 .. c} = {queue[n] : n \in 1 .. c}
  BY <1>2
<1>4. c' = c /\ initial' = initial
  OBVIOUS
<1>5. c = Cardinality(initial) /\ c <= Len(queue) /\ initial = {queue[n] : n \in 1 .. c}
  BY DEF SyncCount
<1> HIDE DEF c
<1>6. initial' = {queue'[n] : n \in 1 .. c'}
  BY <1>3, <1>4, <1>5
<1>7. c' = Cardinality(initial')
  BY <1>4, <1>5
<1>8. c' <= Len(queue')
  BY <1>1, <1>4, <1>5 DEF c
<1> QED BY <1>6, <1>7, <1>8 DEF SyncCount, c

\* Pop takes the first of the keys that are counted, if there are any.
LEMMA PopKeepsCount ==
  ASSUME Shape, SyncCount, NEW k \in Keys, PopHead(k),
         queue' \in Seq(Keys), Len(queue') >= Len(queue) - 1,
         \A n \in 1 .. Len(queue) - 1 : queue'[n] = queue[n + 1]
  PROVE  SyncCount'
<1> DEFINE c == initialPopulationCount
<1>1. /\ queue \in Seq(Keys) /\ queue # <<>> /\ IsInjective(queue)
      /\ k = queue[1] /\ initial' = initial \ {k}
      /\ c \in Nat /\ c' = IF c > 0 THEN c - 1 ELSE 0
  BY HeadTailProperties DEF Shape, TypeOK, QueueMatchesItems, PopHead
<1>2. /\ Len(queue) \in Nat \ {0} /\ DOMAIN queue = 1 .. Len(queue) /\ Len(queue') \in Nat
  BY <1>1, LenProperties, EmptySeq
<1>3. c = Cardinality(initial) /\ c <= Len(queue) /\ initial = {queue[n] : n \in 1 .. c}
  BY DEF SyncCount
<1>4. IsFiniteSet(initial)
  BY DeltaFIFOAssumption, FS_Subset DEF Shape, TypeOK
<1> HIDE DEF c
<1>5. CASE c = 0
  <2>1. initial = {} /\ initial' = {} /\ c' = 0
    BY <1>1, <1>3, <1>5
  <2>2. {queue'[n] : n \in 1 .. 0} = {}
    OBVIOUS
  <2> QED BY <1>2, <2>1, <2>2, FS_EmptySet DEF SyncCount, c
<1>6. CASE c > 0
  <2>1. k \in initial /\ c' = c - 1
    <3>1. 1 \in 1 .. c
      BY <1>1, <1>6
    <3> QED BY <1>1, <1>3, <1>6, <3>1
  <2>2. Cardinality(initial') = c - 1
    BY <1>1, <1>3, <1>4, <2>1, FS_RemoveElement
  <2>3. \A i, j \in 1 .. Len(queue) : queue[i] = queue[j] => i = j
    BY <1>1, <1>2 DEF IsInjective
  <2>4. initial' \subseteq {queue'[n] : n \in 1 .. c - 1}
    <3>1. SUFFICES ASSUME NEW e \in initial, e # k
                   PROVE  \E n \in 1 .. c - 1 : e = queue'[n]
      BY <1>1
    <3>2. PICK i \in 1 .. c : e = queue[i]
      BY <1>3
    <3>3. i # 1 /\ i - 1 \in 1 .. c - 1 /\ i - 1 \in 1 .. Len(queue) - 1
      BY <1>1, <1>2, <1>3, <3>1, <3>2
    <3>4. queue'[i - 1] = queue[i]
      BY <1>1, <3>3
    <3> QED BY <3>2, <3>3, <3>4
  <2>5. {queue'[n] : n \in 1 .. c - 1} \subseteq initial'
    <3>1. SUFFICES ASSUME NEW n \in 1 .. c - 1
                   PROVE  queue'[n] \in initial /\ queue'[n] # k
      BY <1>1
    <3>2. n + 1 \in 1 .. c /\ n \in 1 .. Len(queue) - 1 /\ n + 1 \in 1 .. Len(queue) /\ n + 1 # 1
      BY <1>1, <1>2, <1>3
    <3>3. queue'[n] = queue[n + 1]
      BY <3>2
    <3>4. queue[n + 1] # queue[1]
      BY <1>2, <2>3, <3>2
    <3> QED BY <1>1, <1>3, <3>2, <3>3, <3>4
  <2>6. c - 1 <= Len(queue')
    BY <1>1, <1>2, <1>3
  <2>7. initial' = {queue'[n] : n \in 1 .. c'}
    BY <2>1, <2>4, <2>5
  <2> QED BY <2>1, <2>2, <2>6, <2>7 DEF SyncCount, c
<1> QED BY <1>1, <1>5, <1>6

\* The first Replace finds in the queue only keys that it counts too, those that
\* an earlier one had put there before it failed: afterwards the whole queue is
\* what it waits for.
LEMMA FirstReplaceCounts ==
  ASSUME Shape, Shape', NEW list \in Lists, Replace(list), ~populated
  PROVE  SyncCount'
<1> DEFINE A == Listed(list) \cup Missing(list)
<1>1. TypeOK /\ QueueMatchesItems
  BY DEF Shape
<1>2. A \in SUBSET Keys /\ Queued(A, [k \in A |-> Replacement(list)[k]])
  BY <1>1, FullReplaceQueues
<1>3. /\ initialPopulationCount' = Cardinality(Listed(list)) + Cardinality(Missing(list))
      /\ initial' = A
  BY DEF Replace
<1>4. /\ IsFiniteSet(Listed(list)) /\ IsFiniteSet(Missing(list))
      /\ Listed(list) \cap Missing(list) = {}
  BY <1>1, ReplacementType, DeltaFIFOAssumption, FS_Subset
<1>5. initialPopulationCount' = Cardinality(A)
  <2>1. Cardinality({}) = 0 /\ Cardinality(Listed(list)) \in Nat /\ Cardinality(Missing(list)) \in Nat
    BY <1>4, FS_EmptySet, FS_CardinalityType
  <2> HIDE DEF A
  <2>2. Cardinality(Listed(list) \cup Missing(list)) =
          Cardinality(Listed(list)) + Cardinality(Missing(list)) - Cardinality({})
    BY <1>4, FS_Union
  <2> QED BY <1>3, <2>1, <2>2 DEF A
<1>6. \A k \in Keys \ A : items[k] = <<>>
  BY DEF Listed, Missing
<1>7. {k \in Keys : items'[k] # <<>>} = A
  <2>1. \A k \in A : items'[k] # <<>>
    BY <1>2 DEF Queued
  <2>2. \A k \in Keys \ A : items'[k] = <<>>
    BY <1>2, <1>6 DEF Queued
  <2> HIDE DEF A
  <2> QED BY <1>2, <2>1, <2>2
<1>8. queue' \in Seq(Keys) /\ IsInjective(queue') /\ Range(queue') = A
  BY <1>7 DEF Shape, TypeOK, QueueMatchesItems
<1> HIDE DEF A
<1>9. Cardinality(A) = Len(queue') /\ Len(queue') \in Nat /\ DOMAIN queue' = 1 .. Len(queue')
  BY <1>8, LengthIsCardinality, LenProperties
<1>10. A = {queue'[n] : n \in 1 .. Len(queue')}
  BY <1>8, <1>9 DEF Range
<1> QED BY <1>3, <1>5, <1>9, <1>10 DEF SyncCount

LEMMA NextKeepsCount ==
  ASSUME Shape, Shape', SyncCount, [Next]_vars
  PROVE  SyncCount'
<1>1. TypeOK /\ QueueMatchesItems /\ queue \in Seq(Keys) /\ queue' \in Seq(Keys)
  BY DEF Shape, TypeOK
<1>2. ASSUME NEW D, NEW new, Queued(D, new), UNCHANGED <<initialPopulationCount, initial>>
      PROVE  SyncCount'
  BY <1>1, <1>2, ExtendKeepsCount DEF Queued
<1>3. ASSUME UNCHANGED <<queue, initialPopulationCount, initial>>
      PROVE  SyncCount'
  BY <1>3 DEF SyncCount
<1>4. ASSUME NEW k \in Keys, NEW o \in Objs, Put(k, o)
      PROVE  SyncCount'
  <2>1. Queued({k}, [j \in {k} |-> [kind |-> "Put", obj |-> o]])
    BY <1>1, <1>4, EnqueueOneQueues DEF Put, Delta, Kinds
  <2> QED BY <1>2, <1>4, <2>1 DEF Put
<1>5. ASSUME NEW k \in Keys, NEW o \in Objs, Delete(k, o)
      PROVE  SyncCount'
  <2>1. CASE UNCHANGED <<items, queue, consumer>>
    BY <1>3, <1>5, <2>1 DEF Delete
  <2>2. CASE EnqueueOne(k, [kind |-> "Deleted", obj |-> o])
    <3>1. Queued({k}, [j \in {k} |-> [kind |-> "Deleted", obj |-> o]])
      BY <1>1, <2>2, EnqueueOneQueues DEF Delta, Kinds
    <3> QED BY <1>2, <1>5, <3>1 DEF Delete
  <2> QED BY <1>5, <2>1, <2>2 DEF Delete
<1>6. ASSUME NEW list \in Lists, Replace(list)
      PROVE  SyncCount'
  <2>1. CASE ~populated
    BY <1>6, <2>1, FirstReplaceCounts
  <2>2. CASE populated
    <3>1. UNCHANGED <<initialPopulationCount, initial>>
      BY <1>6, <2>2 DEF Replace
    <3> QED BY <1>1, <1>2, <1>6, <3>1, FullReplaceQueues
  <2> QED BY <2>1, <2>2
<1>7. ASSUME NEW list \in Lists, NEW A \in SUBSET Keys, ReplaceRefused(list, A)
      PROVE  SyncCount'
  BY <1>1, <1>2, <1>7, PartialReplaceQueues DEF ReplaceRefused
<1>8. ASSUME NEW A \in SUBSET Keys, Resync(A)
      PROVE  SyncCount'
  BY <1>1, <1>2, <1>8, ResyncQueues DEF Resync
<1>9. CASE ActionRefused \/ Close \/ PopWait \/ PopClosed \/ UNCHANGED vars
  BY <1>3, <1>9 DEF ActionRefused, Close, PopWait, PopClosed, fifoVars, vars
<1>10. ASSUME queue # <<>>
       PROVE  /\ Tail(queue) \in Seq(Keys) /\ Len(Tail(queue)) = Len(queue) - 1
              /\ \A n \in 1 .. Len(queue) - 1 : Tail(queue)[n] = queue[n + 1]
              /\ Len(queue) \in Nat
  BY <1>1, <1>10, HeadTailProperties, LenProperties
<1>11. ASSUME NEW k \in Keys, PopHead(k), queue' = Tail(queue)
       PROVE  SyncCount'
  <2>1. queue # <<>>
    BY <1>11 DEF PopHead
  <2> QED BY <1>1, <1>10, <1>11, <2>1, PopKeepsCount
<1>12. ASSUME NEW k \in Keys, PopProcess(k) \/ PopError(k) \/ PopDrop(k)
       PROVE  SyncCount'
  BY <1>11, <1>12 DEF PopProcess, PopError, PopDrop, PopFail
<1>13. ASSUME NEW k \in Keys, PopRequeue(k)
       PROVE  SyncCount'
  <2> DEFINE t == Tail(queue)
  <2>1. PopHead(k) /\ queue # <<>> /\ queue' = Append(t, k)
    BY <1>13 DEF PopRequeue, PopHead
  <2>2. /\ t \in Seq(Keys) /\ Len(t) = Len(queue) - 1 /\ Len(queue) \in Nat
        /\ \A n \in 1 .. Len(queue) - 1 : t[n] = queue[n + 1]
    BY <1>10, <2>1
  <2> HIDE DEF t
  <2>3. Len(queue') = Len(t) + 1 /\ \A n \in 1 .. Len(t) : queue'[n] = t[n]
    BY <2>1, <2>2, AppendProperties
  <2> QED BY <1>1, <2>1, <2>2, <2>3, PopKeepsCount
<1>14. CASE AddIfNotPresent
  <2>1. UNCHANGED <<initialPopulationCount, initial>>
    BY <1>14 DEF AddIfNotPresent
  <2>2. CASE UNCHANGED queue
    BY <1>3, <2>1, <2>2
  <2>3. CASE queue' = Append(queue, retry.key)
    <3>1. retry.key \in Keys
      BY <1>14 DEF AddIfNotPresent, Shape, RetryHasDeltas
    <3>2. Len(queue') = Len(queue) + 1 /\ \A n \in 1 .. Len(queue) : queue'[n] = queue[n]
      BY <1>1, <2>3, <3>1, AppendProperties
    <3> QED BY <1>1, <2>1, <3>2, ExtendKeepsCount, LenProperties
  <2> QED BY <1>14, <2>2, <2>3 DEF AddIfNotPresent
<1> QED
  BY <1>4, <1>5, <1>6, <1>7, <1>8, <1>9, <1>12, <1>13, <1>14 DEF Next, Pop

\* HasSynced turns true exactly when the last key of the first complete Replace
\* has been popped, also after incomplete ones, requeues, retries and deltas that
\* come in between.
THEOREM SyncCountCorrect == Spec => []SyncCount
<1>1. Init => SyncCount
  <2>1. Init => /\ initialPopulationCount = 0 /\ initial = {} /\ queue = <<>>
    BY DEF Init
  <2>2. {queue[n] : n \in 1 .. 0} = {}
    OBVIOUS
  <2>3. Len(<<>>) = 0
    OBVIOUS
  <2> QED BY <2>1, <2>2, <2>3, FS_EmptySet DEF SyncCount
<1>2. Shape /\ Shape' /\ SyncCount /\ [Next]_vars => SyncCount'
  BY NextKeepsCount
<1> QED BY <1>1, <1>2, ShapeCorrect, PTL DEF Spec

-----------------------------------------------------------------------------
(* The reflector.  First, the objects of the server. *)

\* The CHOOSE in At picks the largest element.
LEMMA ChooseMax ==
  ASSUME NEW v \in Nat, NEW S \in SUBSET (1 .. v), S # {}
  PROVE  LET max == CHOOSE n \in S : \A m \in S : m <= n
         IN  max \in S /\ \A m \in S : m <= max
BY HasMaximum

\* At(v)[k], for any history of changes.
ObjectAt(l, v, k) ==
  LET S == {n \in 1 .. v : l[n].key = k}
  IN  IF S = {} THEN 0
      ELSE LET n == CHOOSE n \in S : \A m \in S : m <= n
           IN  IF l[n].put THEN n ELSE 0

LEMMA AtIs == \A v, k : k \in Keys => Server!At(v)[k] = ObjectAt(log, v, k)
BY DEF Server!At, ObjectAt

\* An object is named by a version that is not later.
LEMMA ObjectType ==
  ASSUME NEW l, NEW v \in Nat, NEW k
  PROVE  ObjectAt(l, v, k) \in 0 .. v
<1> DEFINE S == {n \in 1 .. v : l[n].key = k}
           max == CHOOSE n \in S : \A m \in S : m <= n
<1>1. S \in SUBSET (1 .. v)
  OBVIOUS
<1>2. S # {} => max \in S
  <2> HIDE DEF S
  <2> QED BY <1>1, ChooseMax
<1>3. ObjectAt(l, v, k) = IF S = {} THEN 0 ELSE IF l[max].put THEN max ELSE 0
  BY DEF ObjectAt
<1>4. S # {} => max \in 1 .. v
  BY <1>2
<1> HIDE DEF S, max
<1> QED BY <1>3, <1>4

\* The next change is that of its object and of no other.
LEMMA ObjectNext ==
  ASSUME NEW l, NEW v \in Nat, NEW k
  PROVE  ObjectAt(l, v + 1, k) =
           IF l[v + 1].key = k THEN IF l[v + 1].put THEN v + 1 ELSE 0
           ELSE ObjectAt(l, v, k)
<1> DEFINE S == {n \in 1 .. v : l[n].key = k}
           T == {n \in 1 .. v + 1 : l[n].key = k}
           max == CHOOSE n \in T : \A m \in T : m <= n
<1>1. CASE l[v + 1].key = k
  <2>1. T \in SUBSET (1 .. v + 1) /\ v + 1 \in T
    BY <1>1
  <2>2. v + 1 \in Nat /\ T # {}
    BY <2>1
  <2>3. max \in T /\ \A m \in T : m <= max
    <3> HIDE DEF T
    <3> QED BY <2>1, <2>2, ChooseMax
  <2>4. max = v + 1
    BY <2>1, <2>3
  <2>5. ObjectAt(l, v + 1, k) = IF T = {} THEN 0 ELSE IF l[max].put THEN max ELSE 0
    BY DEF ObjectAt
  <2> HIDE DEF T, max
  <2> QED BY <1>1, <2>2, <2>4, <2>5
<1>2. CASE l[v + 1].key # k
  <2>1. S = T
    BY <1>2
  <2>2. ObjectAt(l, v + 1, k) = IF T = {} THEN 0 ELSE IF l[max].put THEN max ELSE 0
    BY DEF ObjectAt
  <2>3. ObjectAt(l, v, k) =
          IF S = {} THEN 0
          ELSE LET n == CHOOSE n \in S : \A m \in S : m <= n IN IF l[n].put THEN n ELSE 0
    BY DEF ObjectAt
  <2> HIDE DEF S, T
  <2> QED BY <1>2, <2>1, <2>2, <2>3
<1> QED BY <1>1, <1>2

\* Later changes do not alter what the objects were.
LEMMA ObjectStable ==
  ASSUME NEW l, NEW m, NEW v \in Nat, NEW k, \A n \in 1 .. v : m[n] = l[n]
  PROVE  ObjectAt(m, v, k) = ObjectAt(l, v, k)
<1> DEFINE S == {n \in 1 .. v : l[n].key = k}
           T == {n \in 1 .. v : m[n].key = k}
           max == CHOOSE n \in S : \A i \in S : i <= n
<1>1. S = T /\ S \in SUBSET (1 .. v)
  OBVIOUS
<1>2. S # {} => max \in S
  <2> HIDE DEF S
  <2> QED BY <1>1, ChooseMax
<1>3. ObjectAt(l, v, k) = IF S = {} THEN 0 ELSE IF l[max].put THEN max ELSE 0
  BY DEF ObjectAt
<1>4. ObjectAt(m, v, k) =
        IF T = {} THEN 0
        ELSE LET n == CHOOSE n \in T : \A i \in T : i <= n IN IF m[n].put THEN n ELSE 0
  BY DEF ObjectAt
<1>5. S # {} => m[max].put = l[max].put
  BY <1>2
<1>6. ObjectAt(m, v, k) = IF S = {} THEN 0 ELSE IF m[max].put THEN max ELSE 0
  <2> HIDE DEF S, T
  <2> QED BY <1>1, <1>4 DEF max
<1> HIDE DEF S, max
<1> QED BY <1>3, <1>5, <1>6

-----------------------------------------------------------------------------
(* The reflector and its store *)

\* The temporary store of watchList has the objects of the version of the stream,
\* apart from those it missed and those whose initial event is to come; without a
\* watch-list there is nothing to miss.
Streaming ==
  /\ pc = "initial" =>
       \A k \in Keys \ missed : temporaryStore[k] \in {NotSent, ObjectAt(log, version, k)}
  /\ pc = "streamed" =>
       /\ InitialEventsSent
       /\ \A k \in Keys \ missed : temporaryStore[k] = ObjectAt(log, version, k)
  /\ pc \notin {"initial", "streamed"} => missed = {}

\* No list and no stream goes back behind the last synced version.
Forward ==
  pc \in {"listed", "initial", "streamed", "stream"} => lastSyncResourceVersion <= version

\* While it watches, the reflector has asked the store for the objects of the last
\* synced version; what the stream has passed over since is not of these objects.
Synced ==
  /\ pc \in {"watch", "stream"} =>
       /\ lastSyncResourceVersion \in Nat
       /\ \A k \in Keys \ wrong : want[k] = ObjectAt(log, lastSyncResourceVersion, k)
  /\ pc = "stream" =>
       \A k \in Keys \ wrong :
         ObjectAt(log, version, k) = ObjectAt(log, lastSyncResourceVersion, k)

\* The inductive invariant: that of the FIFO and the parts above.
ReflectorInv == ReflectorTypeOK /\ Shape /\ FaithfulInv /\ Streaming /\ Forward /\ Synced

LEMMA AtType ==
  ASSUME Server!ServerTypeOK, NEW v \in 0 .. Len(log)
  PROVE  /\ Server!At(v) \in Lists
         /\ Server!At(v) \in [Keys -> 0 .. Len(log)]
         /\ v \in Nat /\ Len(log) \in Nat
<1>1. Len(log) \in Nat /\ Len(log) <= MaxRV /\ v \in Nat
  BY LenProperties DEF Server!ServerTypeOK
<1>2. \A k \in Keys : Server!At(v)[k] \in 0 .. v
  BY <1>1, AtIs, ObjectType
<1>3. Server!At(v) = [k \in Keys |-> Server!At(v)[k]]
  BY DEF Server!At
<1>4. 0 .. v \subseteq 0 .. Len(log) /\ 0 .. v \subseteq Objs \cup {NoObj}
  BY <1>1, ReflectorAssumption
<1>5. \A k \in Keys : Server!At(v)[k] \in 0 .. Len(log) /\ Server!At(v)[k] \in Objs \cup {NoObj}
  BY <1>2, <1>4
<1> HIDE DEF Server!At
<1>6. Server!At(v) \in [Keys -> 0 .. Len(log)] /\ Server!At(v) \in [Keys -> Objs \cup {NoObj}]
  BY <1>3, <1>5
<1> QED BY <1>1, <1>6 DEF Lists

\* Changes on the server leave the versions before them what they were.
LEMMA LogGrows ==
  ASSUME Server!ServerTypeOK, NEW c \in Server!Change, log' = Append(log, c)
  PROVE  /\ Len(log) \in Nat /\ Len(log') = Len(log) + 1
         /\ \A v \in 0 .. Len(log), k \in Keys : ObjectAt(log', v, k) = ObjectAt(log, v, k)
<1>1. log \in Seq(Server!Change) /\ Len(log) \in Nat
  BY LenProperties DEF Server!ServerTypeOK
<1>2. Len(log') = Len(log) + 1 /\ \A n \in 1 .. Len(log) : log'[n] = log[n]
  BY <1>1, AppendProperties
<1>3. ASSUME NEW v \in 0 .. Len(log), NEW k \in Keys
      PROVE  ObjectAt(log', v, k) = ObjectAt(log, v, k)
  <2>1. v \in Nat /\ \A n \in 1 .. v : log'[n] = log[n]
    BY <1>1, <1>2
  <2> QED BY <2>1, ObjectStable
<1> QED BY <1>1, <1>2, <1>3

\* What the reflector is about to put in the store is, but for what the stream
\* missed, the content of a version that is not before the last synced one.
LEMMA ListingIs ==
  ASSUME ReflectorInv, pc \in {"listed", "streamed"}
  PROVE  /\ Listing \in Lists
         /\ \A k \in Keys \ missed : Listing[k] = ObjectAt(log, version, k)
         /\ version \in 0 .. Len(log) /\ lastSyncResourceVersion <= version
<1>1. version \in 0 .. Len(log) /\ lastSyncResourceVersion <= version
  BY DEF ReflectorInv, ReflectorTypeOK, Forward
<1>2. Server!At(version) \in Lists
  BY <1>1, AtType DEF ReflectorInv, ReflectorTypeOK
<1>3. \A k \in Keys \ missed : Listing[k] = ObjectAt(log, version, k)
  BY AtIs DEF Listing, ReflectorInv, Streaming
<1>4. CASE pc = "streamed"
  <2>1. /\ temporaryStore \in [Keys -> NotSent .. Len(log)]
        /\ \A k \in Keys : temporaryStore[k] # NotSent
    BY <1>4 DEF ReflectorInv, ReflectorTypeOK, Streaming, InitialEventsSent
  <2>2. Len(log) \in Nat /\ Len(log) <= MaxRV
    BY LenProperties DEF ReflectorInv, ReflectorTypeOK, Server!ServerTypeOK
  <2>3. \A n \in NotSent .. Len(log) : n # NotSent => n \in Objs \cup {NoObj}
    BY <2>2, ReflectorAssumption DEF NotSent
  <2>4. temporaryStore \in Lists
    BY <2>1, <2>3 DEF Lists
  <2> QED BY <1>1, <1>3, <1>4, <2>4 DEF Listing
<1> QED BY <1>1, <1>2, <1>3, <1>4 DEF Listing

\* An event of the stream: the version after the present one, of an object.
LEMMA ReceivedIs ==
  ASSUME ReflectorInv, NEW k, Received(k)
  PROVE  /\ version \in Nat /\ version' = version + 1
         /\ version' \in 1 .. Len(log) /\ version' \in Objs
         /\ log[version'].key = k
         /\ lastSyncResourceVersion <= version
         /\ UNCHANGED <<log, pc>> /\ pc = "stream"
<1>1. version \in 0 .. Len(log) /\ Len(log) \in Nat /\ Len(log) <= MaxRV
  BY LenProperties DEF ReflectorInv, ReflectorTypeOK, Server!ServerTypeOK
<1>2. lastSyncResourceVersion <= version
  BY DEF ReflectorInv, Forward, Received
<1> QED BY <1>1, <1>2, ReflectorAssumption DEF Received

\* Whatever the reflector and its consumer do to the FIFO is a step of DeltaFIFO.
LEMMA StepsOfFIFO ==
  ASSUME ReflectorInv, [ReflectorNext]_allVars
  PROVE  [Next]_vars
<1>1. CASE UNCHANGED vars
  BY <1>1
<1>2. CASE SyncWith
  BY <1>2, ListingIs DEF SyncWith, Next
<1>3. ASSUME NEW A \in SUBSET Keys, SyncRefused(A)
      PROVE  Next
  BY <1>3, ListingIs DEF SyncRefused, Next
<1>4. ASSUME NEW k \in Keys, Event(k)
      PROVE  Next
  <2>1. version' \in Objs
    BY <1>4, ReceivedIs DEF Event
  <2>2. Put(k, version') \/ Delete(k, version')
    BY <1>4 DEF Event
  <2> QED BY <2>1, <2>2 DEF Next
<1>5. ASSUME NEW k \in Keys, EventRefused(k)
      PROVE  Next
  BY <1>5 DEF EventRefused, Next
<1>6. ASSUME NEW A \in SUBSET Keys, ResyncStore(A)
      PROVE  Next
  BY <1>6 DEF ResyncStore, Next
<1>7. CASE Consume
  BY <1>7 DEF Consume, Next
<1>8. CASE \/ List \/ ListExpired \/ ListFails
           \/ InitialConnect \/ (\E k \in Keys : InitialEvent(k)) \/ InitialChange
           \/ (\E k \in Keys : InitialEventSkipped(k) \/ InitialChangeSkipped(k))
           \/ InitialBookmark \/ InitialExpired \/ InitialFails \/ Unsupported
           \/ Watch \/ WatchGone \/ WatchFails \/ WatchCloses
           \/ (\E k \in Keys : EventUnreadable(k)) \/ NoEvent \/ Bookmark
  <2>1. UNCHANGED vars
    BY <1>8 DEF List, ListExpired, ListFails, InitialConnect, InitialEvent,
       InitialEventSkipped, InitialReceived, InitialChange, InitialChangeSkipped,
       InitialBookmark, InitialExpired, InitialFails, Unsupported, Watch, WatchGone,
       WatchFails, WatchCloses, EventUnreadable, NoEvent, Bookmark, GivesUp, Moves
  <2> QED BY <1>1, <2>1
<1>9. CASE ServerStep \/ UNCHANGED allVars
  BY <1>1, <1>9 DEF ServerStep, allVars
<1> QED
  BY <1>2, <1>3, <1>4, <1>5, <1>6, <1>7, <1>8, <1>9 DEF ReflectorNext, Fault

-----------------------------------------------------------------------------
(* What is kept by every step *)

\* The parts of the invariant that are about the reflector.
Reflecting == ReflectorTypeOK /\ Streaming /\ Forward /\ Synced

\* Where a list or a stream is given up, nothing is claimed any more.
LEMMA GivingUp ==
  ASSUME ReflectorInv, Shape', NEW p \in {"watchList", "list", "relist"}, GivesUp(p),
         UNCHANGED lastSyncResourceVersion, unavailable' \in BOOLEAN,
         temporaryStore' \in {temporaryStore, Empty}
  PROVE  Reflecting'
<1>1. /\ pc' = p /\ version' = 0 /\ missed' = {}
      /\ UNCHANGED <<log, compacted, UseWatchList, wrong>>
      /\ Len(log) \in Nat
  BY LenProperties DEF GivesUp, Moves, ReflectorInv, ReflectorTypeOK, Server!ServerTypeOK
<1>2. temporaryStore' \in [Keys -> NotSent .. Len(log)]
  BY <1>1 DEF Empty, NotSent, ReflectorInv, ReflectorTypeOK
<1>3. ReflectorTypeOK'
  BY <1>1, <1>2 DEF ReflectorInv, ReflectorTypeOK, Server!ServerTypeOK, Server!Latest, Shape
<1>4. Streaming' /\ Forward' /\ Synced'
  BY <1>1 DEF Streaming, Forward, Synced
<1> QED BY <1>3, <1>4 DEF Reflecting

LEMMA StartIs == ReflectorTypeOK => Start \in {"watchList", "list"}
BY DEF ReflectorTypeOK, Start

\* The versions that a list or a stream is answered with are not before the last
\* synced one.
LEMMA AnswersForward ==
  ASSUME ReflectorInv, NEW rv \in {relistResourceVersion, rewatchResourceVersion},
         NEW v \in Server!Answers(rv)
  PROVE  v \in 0 .. Len(log) /\ lastSyncResourceVersion <= v
<1>1. lastSyncResourceVersion \in {-1} \cup 0 .. Len(log) /\ Len(log) \in Nat
  BY LenProperties DEF ReflectorInv, ReflectorTypeOK, Server!ServerTypeOK, Server!Latest
<1>2. \/ rv = -1 \/ (rv = -2 /\ lastSyncResourceVersion = -1)
      \/ (rv = lastSyncResourceVersion /\ rv # -1)
  BY DEF relistResourceVersion, rewatchResourceVersion, Server!Latest, Server!Anything
<1>3. CASE rv = -1
  BY <1>1, <1>3 DEF Server!Answers, Server!Latest, Server!Anything
<1>4. CASE rv = -2 /\ lastSyncResourceVersion = -1
  BY <1>1, <1>4 DEF Server!Answers, Server!Latest, Server!Anything
<1>5. CASE rv = lastSyncResourceVersion /\ rv # -1
  BY <1>1, <1>5 DEF Server!Answers, Server!Latest, Server!Anything
<1> QED BY <1>2, <1>3, <1>4, <1>5

\* list: the version of the list is not before the last synced one.
LEMMA ListKeeps ==
  ASSUME ReflectorInv, Shape', List \/ ListExpired \/ ListFails
  PROVE  Reflecting'
<1>1. CASE List
  <2>1. version' \in 0 .. Len(log) /\ lastSyncResourceVersion <= version'
    BY <1>1, AnswersForward DEF List
  <2>2. /\ pc' = "listed" /\ unavailable' = FALSE /\ missed' = {}
        /\ UNCHANGED <<log, compacted, UseWatchList, wrong, lastSyncResourceVersion, temporaryStore>>
    BY <1>1 DEF List, Moves, ReflectorInv, Streaming
  <2>3. ReflectorTypeOK'
    BY <2>1, <2>2 DEF ReflectorInv, ReflectorTypeOK, Server!ServerTypeOK, Server!Latest, Shape
  <2>4. Streaming' /\ Forward' /\ Synced'
    BY <2>1, <2>2 DEF Streaming, Forward, Synced
  <2> QED BY <2>3, <2>4 DEF Reflecting
<1>2. CASE ListExpired
  BY <1>2, GivingUp DEF ListExpired
<1>3. CASE ListFails
  BY <1>3, GivingUp, StartIs DEF ListFails, ReflectorInv, ReflectorTypeOK
<1> QED BY <1>1, <1>2, <1>3

\* watchList: the temporary store follows the version of the stream.
LEMMA WatchListKeeps ==
  ASSUME ReflectorInv, Shape',
         \/ InitialConnect \/ (\E k \in Keys : InitialEvent(k)) \/ InitialChange
         \/ (\E k \in Keys : InitialEventSkipped(k) \/ InitialChangeSkipped(k))
         \/ InitialBookmark \/ InitialExpired \/ InitialFails \/ Unsupported
  PROVE  Reflecting'
<1>1. /\ Len(log) \in Nat /\ version \in 0 .. Len(log) /\ Server!ServerTypeOK
      /\ temporaryStore \in [Keys -> NotSent .. Len(log)]
      /\ missed \subseteq Keys
  BY LenProperties DEF ReflectorInv, ReflectorTypeOK, Server!ServerTypeOK
<1>2. \A v \in 0 .. Len(log), k \in Keys :
        /\ Server!At(v)[k] = ObjectAt(log, v, k)
        /\ ObjectAt(log, v, k) \in NotSent .. Len(log)
  <2>1. SUFFICES ASSUME NEW v \in 0 .. Len(log), NEW k \in Keys
                 PROVE  /\ Server!At(v)[k] = ObjectAt(log, v, k)
                        /\ ObjectAt(log, v, k) \in NotSent .. Len(log)
    OBVIOUS
  <2>2. v \in Nat /\ ObjectAt(log, v, k) \in 0 .. v
    BY <1>1, ObjectType
  <2> QED BY <1>1, <2>2, AtIs DEF NotSent
<1>3. ASSUME temporaryStore' \in [Keys -> NotSent .. Len(log)], version' \in 0 .. Len(log),
             missed' \subseteq Keys, lastSyncResourceVersion <= version',
             \/ /\ pc' = "initial"
                /\ \A k \in Keys \ missed' :
                     temporaryStore'[k] \in {NotSent, ObjectAt(log, version', k)}
             \/ /\ pc' = "streamed" /\ InitialEventsSent'
                /\ \A k \in Keys \ missed' : temporaryStore'[k] = ObjectAt(log, version', k),
             unavailable' \in BOOLEAN,
             UNCHANGED <<log, compacted, UseWatchList, wrong, lastSyncResourceVersion>>
      PROVE  Reflecting'
  <2>1. ReflectorTypeOK'
    BY <1>3 DEF ReflectorInv, ReflectorTypeOK, Server!ServerTypeOK, Server!Latest, Shape
  <2>2. Streaming' /\ Forward' /\ Synced'
    BY <1>3 DEF Streaming, Forward, Synced
  <2> QED BY <2>1, <2>2 DEF Reflecting
<1>4. CASE InitialConnect
  <2>1. version' \in 0 .. Len(log) /\ lastSyncResourceVersion <= version'
    BY <1>4, AnswersForward DEF InitialConnect
  <2>2. temporaryStore' =
          [k \in Keys |-> IF Server!At(version')[k] = 0 THEN 0 ELSE NotSent]
    BY <1>4 DEF InitialConnect
  <2>3. /\ temporaryStore' \in [Keys -> NotSent .. Len(log)]
        /\ \A k \in Keys : temporaryStore'[k] \in {NotSent, ObjectAt(log, version', k)}
    BY <1>1, <1>2, <2>1, <2>2 DEF NotSent
  <2>4. /\ pc' = "initial" /\ missed' = {}
        /\ UNCHANGED <<log, compacted, UseWatchList, wrong, lastSyncResourceVersion, unavailable>>
    BY <1>4 DEF InitialConnect, Moves
  <2>5. unavailable' \in BOOLEAN
    BY <2>4 DEF ReflectorInv, ReflectorTypeOK
  <2> QED BY <1>3, <2>1, <2>3, <2>4, <2>5
<1>5. ASSUME NEW k \in Keys, InitialEvent(k)
      PROVE  Reflecting'
  <2>1. /\ temporaryStore' = [temporaryStore EXCEPT ![k] = Server!At(version)[k]]
        /\ pc = "initial" /\ pc' = "initial"
        /\ UNCHANGED <<log, compacted, UseWatchList, wrong, lastSyncResourceVersion,
                       unavailable, version, missed>>
    BY <1>5 DEF InitialEvent, Moves
  <2>2. /\ lastSyncResourceVersion <= version /\ unavailable \in BOOLEAN
        /\ \A j \in Keys \ missed : temporaryStore[j] \in {NotSent, ObjectAt(log, version, j)}
    BY <2>1 DEF ReflectorInv, ReflectorTypeOK, Forward, Streaming
  <2>3. temporaryStore' \in [Keys -> NotSent .. Len(log)]
    BY <1>1, <1>2, <2>1
  <2>4. \A j \in Keys \ missed : temporaryStore'[j] \in {NotSent, ObjectAt(log, version, j)}
    BY <1>1, <1>2, <2>1, <2>2
  <2> QED BY <1>1, <1>3, <2>1, <2>2, <2>3, <2>4
<1>6. ASSUME NEW k \in Keys, InitialEventSkipped(k)
      PROVE  Reflecting'
  <2>1. /\ temporaryStore' = [temporaryStore EXCEPT ![k] = 0]
        /\ pc = "initial" /\ pc' = "initial" /\ missed' = missed \cup {k}
        /\ UNCHANGED <<log, compacted, UseWatchList, wrong, lastSyncResourceVersion,
                       unavailable, version>>
    BY <1>6 DEF InitialEventSkipped, Moves
  <2>2. /\ lastSyncResourceVersion <= version /\ unavailable \in BOOLEAN
        /\ \A j \in Keys \ missed : temporaryStore[j] \in {NotSent, ObjectAt(log, version, j)}
    BY <2>1 DEF ReflectorInv, ReflectorTypeOK, Forward, Streaming
  <2>3. 0 \in NotSent .. Len(log)
    BY <1>1 DEF NotSent
  <2>4. temporaryStore' \in [Keys -> NotSent .. Len(log)]
    BY <1>1, <2>1, <2>3
  <2>5. \A j \in Keys \ missed' : temporaryStore'[j] \in {NotSent, ObjectAt(log, version, j)}
    BY <1>1, <2>1, <2>2
  <2> QED BY <1>1, <1>3, <1>6, <2>1, <2>2, <2>4, <2>5
<1>7. CASE InitialChange
  <2>1. /\ version < Len(log) /\ version' = version + 1 /\ InitialEventsSent
        /\ temporaryStore' = [k \in Keys |->
             IF k = log[version'].key THEN Server!At(version')[k] ELSE temporaryStore[k]]
        /\ pc = "initial" /\ pc' = "initial" /\ missed' = missed \ {log[version'].key}
        /\ UNCHANGED <<log, compacted, UseWatchList, wrong, lastSyncResourceVersion, unavailable>>
    BY <1>7 DEF InitialChange, InitialReceived, Moves
  <2>2. /\ lastSyncResourceVersion <= version /\ unavailable \in BOOLEAN
        /\ \A k \in Keys \ missed : temporaryStore[k] = ObjectAt(log, version, k)
    BY <2>1 DEF ReflectorInv, ReflectorTypeOK, Forward, Streaming, InitialEventsSent
  <2>3. version \in Nat /\ version' \in 0 .. Len(log) /\ lastSyncResourceVersion <= version'
    BY <1>1, <2>1, <2>2 DEF ReflectorInv, ReflectorTypeOK, Server!Latest
  <2>4. \A k \in Keys \ missed' : temporaryStore'[k] = ObjectAt(log, version', k)
    <3>1. SUFFICES ASSUME NEW k \in Keys \ missed'
                   PROVE  temporaryStore'[k] = ObjectAt(log, version', k)
      OBVIOUS
    <3>2. CASE log[version'].key = k
      BY <1>2, <2>1, <2>3, <3>2
    <3>3. CASE log[version'].key # k
      <4>1. ObjectAt(log, version + 1, k) = ObjectAt(log, version, k)
        BY <2>1, <2>3, <3>3, ObjectNext
      <4> QED BY <2>1, <2>2, <3>3, <4>1
    <3> QED BY <3>2, <3>3
  <2>5. temporaryStore' \in [Keys -> NotSent .. Len(log)]
    BY <1>1, <1>2, <2>1, <2>3
  <2> QED BY <1>1, <1>3, <2>1, <2>2, <2>3, <2>4, <2>5
<1>8. ASSUME NEW k \in Keys, InitialChangeSkipped(k)
      PROVE  Reflecting'
  <2>1. /\ version < Len(log) /\ version' = version + 1 /\ InitialEventsSent
        /\ log[version'].key = k /\ missed' = missed \cup {k}
        /\ pc = "initial" /\ pc' = "initial"
        /\ UNCHANGED <<log, compacted, UseWatchList, wrong, lastSyncResourceVersion, unavailable,
                       temporaryStore>>
    BY <1>8 DEF InitialChangeSkipped, InitialReceived, Moves
  <2>2. /\ lastSyncResourceVersion <= version /\ unavailable \in BOOLEAN
        /\ \A j \in Keys \ missed : temporaryStore[j] = ObjectAt(log, version, j)
    BY <2>1 DEF ReflectorInv, ReflectorTypeOK, Forward, Streaming, InitialEventsSent
  <2>3. version \in Nat /\ version' \in 0 .. Len(log) /\ lastSyncResourceVersion <= version'
    BY <1>1, <2>1, <2>2 DEF ReflectorInv, ReflectorTypeOK, Server!Latest
  <2>4. \A j \in Keys \ missed' : ObjectAt(log, version', j) = ObjectAt(log, version, j)
    BY <2>1, <2>3, ObjectNext
  <2> QED BY <1>1, <1>3, <1>8, <2>1, <2>2, <2>3, <2>4
<1>9. CASE InitialBookmark
  <2>1. /\ pc = "initial" /\ pc' = "streamed" /\ InitialEventsSent /\ unavailable' = FALSE
        /\ UNCHANGED <<log, compacted, UseWatchList, wrong, lastSyncResourceVersion,
                       version, temporaryStore, missed>>
    BY <1>9 DEF InitialBookmark, Moves
  <2>2. /\ lastSyncResourceVersion <= version /\ InitialEventsSent'
        /\ \A k \in Keys \ missed : temporaryStore[k] = ObjectAt(log, version, k)
    BY <2>1 DEF ReflectorInv, ReflectorTypeOK, Forward, Streaming, InitialEventsSent
  <2> QED BY <1>1, <1>3, <2>1, <2>2
<1>10. CASE InitialExpired
  BY <1>10, GivingUp DEF InitialExpired
<1>11. CASE InitialFails \/ Unsupported
  BY <1>11, GivingUp DEF InitialFails, Unsupported, ReflectorInv, ReflectorTypeOK
<1> QED BY <1>4, <1>5, <1>6, <1>7, <1>8, <1>9, <1>10, <1>11

\* The store is replaced: complete, it has the objects of the listed version, but
\* for those that the stream missed.
LEMMA SyncKeeps ==
  ASSUME ReflectorInv, Shape', SyncWith \/ \E A \in SUBSET Keys : SyncRefused(A)
  PROVE  Reflecting'
<1>1. /\ pc \in {"listed", "streamed"} /\ temporaryStore' = Empty /\ missed' = {}
      /\ UNCHANGED <<log, compacted, unavailable, UseWatchList>>
  BY DEF SyncWith, SyncRefused
<1>2. /\ version \in 0 .. Len(log) /\ Len(log) \in Nat /\ lastSyncResourceVersion <= version
      /\ missed \subseteq Keys
      /\ \A k \in Keys \ missed : Listing[k] = ObjectAt(log, version, k)
  BY <1>1, ListingIs, LenProperties DEF ReflectorInv, ReflectorTypeOK, Server!ServerTypeOK
<1>3. temporaryStore' \in [Keys -> NotSent .. Len(log)]
  BY <1>1, <1>2 DEF Empty, NotSent
<1>4. CASE SyncWith
  <2>1. /\ lastSyncResourceVersion' = version /\ wrong' = missed
        /\ pc' = IF pc = "streamed" THEN "stream" ELSE "watch"
        /\ version' = IF pc = "streamed" THEN version ELSE 0
        /\ want' = Listing
    BY <1>4 DEF SyncWith, Replace
  <2>2. ReflectorTypeOK'
    BY <1>1, <1>2, <1>3, <2>1 DEF ReflectorInv, ReflectorTypeOK, Server!ServerTypeOK,
       Server!Latest, Shape
  <2>3. Streaming' /\ Forward'
    BY <1>1, <1>2, <2>1 DEF Streaming, Forward
  <2>4. Synced'
    BY <1>1, <1>2, <2>1 DEF Synced
  <2> QED BY <2>2, <2>3, <2>4 DEF Reflecting
<1>5. CASE \E A \in SUBSET Keys : SyncRefused(A)
  <2>1. /\ UNCHANGED lastSyncResourceVersion /\ wrong' \subseteq wrong \cup missed
        /\ pc' = Start /\ version' = 0
    BY <1>5 DEF SyncRefused
  <2>2. pc' \in {"watchList", "list"}
    BY <2>1, StartIs DEF ReflectorInv
  <2>3. ReflectorTypeOK'
    BY <1>1, <1>2, <1>3, <2>1, <2>2 DEF ReflectorInv, ReflectorTypeOK, Server!ServerTypeOK,
       Server!Latest, Shape
  <2>4. Streaming' /\ Forward' /\ Synced'
    BY <1>1, <2>2 DEF Streaming, Forward, Synced
  <2> QED BY <2>3, <2>4 DEF Reflecting
<1> QED BY <1>4, <1>5

\* watch: the stream starts at the last synced version and may be given up.
LEMMA WatchKeeps ==
  ASSUME ReflectorInv, Shape',
         Watch \/ WatchGone \/ WatchFails \/ WatchCloses \/ Bookmark
  PROVE  Reflecting'
<1>1. Len(log) \in Nat /\ Server!ServerTypeOK
  BY LenProperties DEF ReflectorInv, ReflectorTypeOK, Server!ServerTypeOK
<1>2. CASE WatchGone \/ WatchFails
  BY <1>2, GivingUp, StartIs DEF WatchGone, WatchFails, ReflectorInv, ReflectorTypeOK
<1>3. CASE Watch \/ WatchCloses \/ Bookmark
  <2>1. /\ UNCHANGED <<log, compacted, UseWatchList, wrong, want, unavailable, temporaryStore>>
        /\ pc \in {"watch", "stream"} /\ missed' = {}
    BY <1>3 DEF Watch, WatchCloses, Bookmark, GivesUp, Moves, vars, ReflectorInv, Streaming
  <2>2. \/ pc' = "watch" /\ version' = 0 /\ UNCHANGED lastSyncResourceVersion
        \/ pc' = "stream" /\ version' = lastSyncResourceVersion /\ UNCHANGED lastSyncResourceVersion
        \/ /\ pc = "stream" /\ pc' = "stream"
           /\ lastSyncResourceVersion' = version /\ version' = version
    BY <1>3 DEF Watch, WatchCloses, Bookmark, GivesUp, Moves
  <2>3. /\ lastSyncResourceVersion \in 0 .. Len(log) /\ version \in 0 .. Len(log)
        /\ \A k \in Keys \ wrong : want[k] = ObjectAt(log, lastSyncResourceVersion, k)
        /\ pc = "stream" => \A k \in Keys \ wrong :
             ObjectAt(log, version, k) = ObjectAt(log, lastSyncResourceVersion, k)
    BY <1>1, <2>1 DEF ReflectorInv, ReflectorTypeOK, Synced, Server!Latest
  <2>4. ReflectorTypeOK'
    BY <1>1, <2>1, <2>2, <2>3 DEF ReflectorInv, ReflectorTypeOK, Server!ServerTypeOK,
       Server!Latest, Shape
  <2>5. Streaming' /\ Forward'
    BY <1>1, <2>1, <2>2, <2>3 DEF Streaming, Forward
  <2>6. Synced'
    BY <1>1, <2>1, <2>2, <2>3 DEF Synced
  <2> QED BY <2>4, <2>5, <2>6 DEF Reflecting
<1> QED BY <1>2, <1>3

\* watchHandler: an event brings the object of its key, and of no other, to the
\* next version.
LEMMA EventKeeps ==
  ASSUME ReflectorInv, Shape',
         \/ \E k \in Keys : Event(k) \/ EventRefused(k) \/ EventUnreadable(k)
         \/ NoEvent
  PROVE  Reflecting'
<1>1. PICK k : Received(k) /\ (k \in Keys \/ k = Elsewhere)
  BY DEF Event, EventRefused, EventUnreadable, NoEvent
<1>2. /\ version \in Nat /\ version' = version + 1 /\ version' \in 1 .. Len(log)
      /\ log[version'].key = k /\ lastSyncResourceVersion <= version
      /\ pc = "stream" /\ pc' = "stream" /\ missed' = {}
      /\ UNCHANGED <<log, compacted, unavailable, UseWatchList, temporaryStore>>
  BY <1>1, ReceivedIs DEF Received, ReflectorInv, Streaming
<1>3. /\ lastSyncResourceVersion \in 0 .. Len(log) /\ Len(log) \in Nat
      /\ wrong \subseteq Keys /\ want \in Lists
      /\ \A j \in Keys \ wrong : want[j] = ObjectAt(log, lastSyncResourceVersion, j)
      /\ \A j \in Keys \ wrong :
           ObjectAt(log, version, j) = ObjectAt(log, lastSyncResourceVersion, j)
  BY <1>2, LenProperties DEF ReflectorInv, ReflectorTypeOK, Server!ServerTypeOK, Synced,
     Server!Latest, TypeOK
<1>4. \A j \in Keys : j # k => ObjectAt(log, version', j) = ObjectAt(log, version, j)
  BY <1>2, ObjectNext
<1>5. k \in Keys => ObjectAt(log, version', k) = IF log[version'].put THEN version' ELSE 0
  BY <1>2, ObjectNext
<1>6. ASSUME wrong' \subseteq wrong \cup {k}, wrong' \subseteq Keys,
             lastSyncResourceVersion' \in {lastSyncResourceVersion, version'},
             \A j \in Keys \ wrong' : /\ want'[j] = ObjectAt(log, lastSyncResourceVersion', j)
                                      /\ ObjectAt(log, version', j)
                                           = ObjectAt(log, lastSyncResourceVersion', j)
      PROVE  Reflecting'
  <2>1. lastSyncResourceVersion' \in 0 .. Len(log) /\ lastSyncResourceVersion' <= version'
    BY <1>2, <1>3, <1>6
  <2>2. ReflectorTypeOK'
    BY <1>2, <1>3, <1>6, <2>1 DEF ReflectorInv, ReflectorTypeOK, Server!ServerTypeOK,
       Server!Latest, Shape
  <2>3. Streaming' /\ Forward'
    BY <1>2, <2>1 DEF Streaming, Forward
  <2>4. Synced'
    BY <1>2, <1>3, <1>6, <2>1 DEF Synced
  <2> QED BY <2>2, <2>3, <2>4 DEF Reflecting
<1>7. ASSUME NEW j \in Keys, Event(j)
      PROVE  Reflecting'
  <2>1. j = k
    BY <1>2, <1>7, ReceivedIs DEF Event
  <2>2. lastSyncResourceVersion' = version' /\ wrong' = wrong \ {k}
    BY <1>7, <2>1 DEF Event
  <2>3. want' = [want EXCEPT ![k] = IF log[version'].put THEN version' ELSE 0]
    BY <1>2, <1>7, <2>1, ReflectorAssumption DEF Event, Put, Delete
  <2>4. want'[k] = ObjectAt(log, version', k)
    BY <1>3, <1>5, <1>7, <2>1, <2>3 DEF Lists
  <2>5. \A i \in Keys \ wrong' : i # k => want'[i] = ObjectAt(log, version', i)
    BY <1>3, <1>4, <2>2, <2>3 DEF Lists
  <2> QED BY <1>3, <1>6, <2>2, <2>4, <2>5
<1>8. ASSUME NEW j \in Keys, EventRefused(j)
      PROVE  Reflecting'
  <2>1. j = k
    BY <1>2, <1>8, ReceivedIs DEF EventRefused
  <2>2. lastSyncResourceVersion' = version' /\ wrong' = wrong \cup {k} /\ want' = want
    BY <1>8, <2>1 DEF EventRefused, ActionRefused
  <2> QED BY <1>3, <1>4, <1>6, <1>8, <2>1, <2>2
<1>9. ASSUME NEW j \in Keys, EventUnreadable(j)
      PROVE  Reflecting'
  <2>1. j = k
    BY <1>2, <1>9, ReceivedIs DEF EventUnreadable
  <2>2. UNCHANGED lastSyncResourceVersion /\ wrong' = wrong \cup {k} /\ want' = want
    BY <1>9, <2>1 DEF EventUnreadable, vars
  <2> QED BY <1>3, <1>4, <1>6, <1>9, <2>1, <2>2
<1>10. CASE NoEvent
  <2>1. k \notin Keys
    BY <1>2, <1>10, ReceivedIs, ReflectorAssumption DEF NoEvent
  <2>2. UNCHANGED <<lastSyncResourceVersion, wrong, want>>
    BY <1>10 DEF NoEvent, vars
  <2> QED BY <1>3, <1>4, <1>6, <2>1, <2>2
<1> QED BY <1>7, <1>8, <1>9, <1>10

\* The resync goroutine, processLoop and the server go on beside the reflector:
\* the server makes new versions only, and nobody else asks the store for objects.
LEMMA OthersKeep ==
  ASSUME ReflectorInv, Shape',
         \/ \E A \in SUBSET Keys : ResyncStore(A)
         \/ Consume \/ ServerStep \/ UNCHANGED allVars
  PROVE  Reflecting'
<1>1. UNCHANGED <<pc, lastSyncResourceVersion, unavailable, UseWatchList, version,
                  temporaryStore, missed, wrong>>
  BY DEF ResyncStore, Consume, ServerStep, allVars, reflectorVars
<1>2. UNCHANGED want
  <2>1. Pop => UNCHANGED want
    BY DEF Pop, PopWait, PopClosed, PopProcess, PopRequeue, PopError, PopDrop, PopFail, PopHead
  <2> QED BY <2>1 DEF ResyncStore, Resync, Consume, ServerStep, allVars, vars
<1>3. /\ Server!ServerTypeOK /\ Len(log) \in Nat
      /\ version \in 0 .. Len(log)
      /\ lastSyncResourceVersion \in {-1} \cup 0 .. Len(log)
      /\ temporaryStore \in [Keys -> NotSent .. Len(log)]
  BY LenProperties DEF ReflectorInv, ReflectorTypeOK, Server!ServerTypeOK, Server!Latest
<1>4. ASSUME Server!ServerTypeOK', Len(log') \in Nat, Len(log) <= Len(log'),
             \A v \in 0 .. Len(log), k \in Keys : ObjectAt(log', v, k) = ObjectAt(log, v, k)
      PROVE  Reflecting'
  <2>1. temporaryStore' \in [Keys -> NotSent .. Len(log')]
    <3>1. NotSent .. Len(log) \subseteq NotSent .. Len(log')
      BY <1>3, <1>4 DEF NotSent
    <3> QED BY <1>1, <1>3, <3>1
  <2>2. ReflectorTypeOK'
    BY <1>1, <1>3, <1>4, <2>1 DEF ReflectorInv, ReflectorTypeOK, Server!Latest, Shape
  <2>3. Streaming' /\ Forward'
    BY <1>1, <1>3, <1>4 DEF ReflectorInv, Streaming, Forward, InitialEventsSent
  <2>4. Synced'
    BY <1>1, <1>2, <1>3, <1>4 DEF ReflectorInv, Synced
  <2> QED BY <2>2, <2>3, <2>4 DEF Reflecting
<1>5. CASE UNCHANGED log /\ compacted' \in 0 .. Len(log)
  BY <1>3, <1>4, <1>5 DEF Server!ServerTypeOK
<1>6. ASSUME NEW c \in Server!Change, Len(log) < MaxRV, log' = Append(log, c), UNCHANGED compacted
      PROVE  Reflecting'
  <2>1. /\ Len(log') = Len(log) + 1
        /\ \A v \in 0 .. Len(log), k \in Keys : ObjectAt(log', v, k) = ObjectAt(log, v, k)
    BY <1>3, <1>6, LogGrows
  <2>2. log' \in Seq(Server!Change)
    BY <1>3, <1>6, AppendProperties DEF Server!ServerTypeOK
  <2>3. Server!ServerTypeOK'
    BY <1>3, <1>6, <2>1, <2>2, ReflectorAssumption DEF Server!ServerTypeOK
  <2> QED BY <1>3, <1>4, <2>1, <2>3
<1>7. CASE ServerStep
  <2>1. ASSUME NEW k \in Keys, Server!Write(k) \/ Server!Remove(k)
        PROVE  Reflecting'
    <3>1. [key |-> k, put |-> TRUE] \in Server!Change /\ [key |-> k, put |-> FALSE] \in Server!Change
      BY DEF Server!Change
    <3> QED BY <1>6, <2>1, <3>1 DEF Server!Write, Server!Remove
  <2>2. CASE Server!Touch
    <3>1. [key |-> Elsewhere, put |-> TRUE] \in Server!Change
      BY DEF Server!Change
    <3> QED BY <1>6, <2>2, <3>1 DEF Server!Touch
  <2>3. CASE Server!Compact
    BY <1>3, <1>5, <2>3 DEF Server!Compact, Server!ServerTypeOK
  <2> QED BY <1>7, <2>1, <2>2, <2>3 DEF ServerStep, Server!ServerNext
<1>8. CASE (\E A \in SUBSET Keys : ResyncStore(A)) \/ Consume \/ UNCHANGED allVars
  BY <1>3, <1>5, <1>8 DEF ResyncStore, Consume, allVars, Server!ServerTypeOK
<1> QED BY <1>7, <1>8

-----------------------------------------------------------------------------
(* The theorems *)

LEMMA InitReflectorInv == ReflectorInit => ReflectorInv
<1> SUFFICES ASSUME ReflectorInit PROVE ReflectorInv
  OBVIOUS
<1>1. Shape
  BY InitShape DEF ReflectorInit
<1>2. FaithfulInv
  BY DEF ReflectorInit, Init, FaithfulInv, Faithful, RetryIsObsolete, View
<1>3. pc \in {"watchList", "list"}
  BY DEF ReflectorInit, Start
<1>4. Server!ServerTypeOK /\ Len(log) = 0
  BY EmptySeq, ReflectorAssumption DEF ReflectorInit, Server!ServerInit, Server!ServerTypeOK
<1>5. temporaryStore \in [Keys -> NotSent .. Len(log)]
  BY <1>4 DEF ReflectorInit, Empty, NotSent
<1>6. ReflectorTypeOK
  <2>1. version \in 0 .. Len(log) /\ missed = {} /\ wrong \subseteq Keys
    BY <1>4 DEF ReflectorInit
  <2>2. lastSyncResourceVersion \in {Server!Latest} \cup 0 .. Len(log)
    BY DEF ReflectorInit
  <2>3. unavailable \in BOOLEAN /\ UseWatchList \in BOOLEAN
    BY DEF ReflectorInit
  <2> QED BY <1>1, <1>3, <1>4, <1>5, <2>1, <2>2, <2>3 DEF ReflectorTypeOK, Shape
<1>7. Streaming /\ Forward /\ Synced
  BY <1>3 DEF ReflectorInit, Streaming, Forward, Synced
<1> QED BY <1>1, <1>2, <1>6, <1>7 DEF ReflectorInv

LEMMA NextKeepsReflectorInv == ReflectorInv /\ [ReflectorNext]_allVars => ReflectorInv'
<1> SUFFICES ASSUME ReflectorInv, [ReflectorNext]_allVars PROVE ReflectorInv'
  OBVIOUS
<1>1. [Next]_vars
  BY StepsOfFIFO
<1>2. Shape' /\ FaithfulInv'
  BY <1>1, NextKeepsShape, NextKeepsFaithful DEF ReflectorInv
<1>3. Reflecting'
  BY <1>2, ListKeeps, WatchListKeeps, SyncKeeps, WatchKeeps, EventKeeps, OthersKeep
     DEF ReflectorNext, Fault
<1> QED BY <1>2, <1>3 DEF ReflectorInv, Reflecting

LEMMA ReflectorInvCorrect == ReflectorSpec => []ReflectorInv
BY InitReflectorInv, NextKeepsReflectorInv, PTL DEF ReflectorSpec

\* The variables of the server, the reflector and the FIFO always have their
\* types; in particular no version is later than the server's.
THEOREM ReflectorTypeCorrect == ReflectorSpec => []ReflectorTypeOK
<1>1. ReflectorInv => ReflectorTypeOK
  BY DEF ReflectorInv
<1> QED BY <1>1, ReflectorInvCorrect, PTL

\* The reflector, its resync goroutine and processLoop use the FIFO in no way that
\* module DeltaFIFO does not allow: what is proved of the FIFO there holds here.
THEOREM ReflectorUsesFIFO == ReflectorSpec => Spec
<1>1. ReflectorInit => Init
  BY DEF ReflectorInit
<1>2. ReflectorInv /\ [ReflectorNext]_allVars => [Next]_vars
  BY StepsOfFIFO
<1> QED BY <1>1, <1>2, ReflectorInvCorrect, PTL DEF ReflectorSpec, Spec

\* While it watches, the reflector has given the store exactly what the server had
\* at the version from which the watch would resume, apart from the objects whose
\* last event watchHandler skipped or a store refused, in the watch or before the
\* bookmark of a watch-list, and those whose deltas a failed Pop dropped.
THEOREM StoreIsSnapshotCorrect == ReflectorSpec => []StoreIsSnapshot
<1>1. ReflectorInv => StoreIsSnapshot
  <2>1. SUFFICES ASSUME ReflectorInv, pc \in {"watch", "stream"},
                        NEW k \in Keys \ (wrong \cup failed)
                 PROVE  View(k) = Server!At(lastSyncResourceVersion)[k]
    BY DEF StoreIsSnapshot
  <2>2. View(k) = want[k]
    BY <2>1 DEF ReflectorInv, FaithfulInv, Faithful
  <2>3. want[k] = ObjectAt(log, lastSyncResourceVersion, k)
    BY <2>1 DEF ReflectorInv, Synced
  <2> QED BY <2>2, <2>3, AtIs
<1> QED BY <1>1, ReflectorInvCorrect, PTL

\* What the producer asks the store for changes only to the object of a version
\* that is not before the last synced one, if the stream has not missed it.
LEMMA AskedForward ==
  ASSUME ReflectorInv, [ReflectorNext]_allVars, NEW k \in Keys \ wrong'
  PROVE  \/ want'[k] = want[k] /\ (k \in failed => k \in failed')
         \/ \E v \in 0 .. Len(log) :
              v >= lastSyncResourceVersion /\ want'[k] = ObjectAt(log, v, k)
<1>1. lastSyncResourceVersion \in Int /\ version \in 0 .. Len(log) /\ Len(log) \in Nat
  BY LenProperties DEF ReflectorInv, ReflectorTypeOK, Server!ServerTypeOK, Server!Latest
<1>2. CASE SyncWith
  <2>1. want' = Listing /\ k \notin missed /\ pc \in {"listed", "streamed"}
    BY <1>2 DEF SyncWith, Replace
  <2> QED BY <1>1, <2>1, ListingIs
<1>3. ASSUME NEW A \in SUBSET Keys, SyncRefused(A)
      PROVE  \/ want'[k] = want[k] /\ (k \in failed => k \in failed')
             \/ want'[k] = ObjectAt(log, version, k) /\ version >= lastSyncResourceVersion
  <2>1. /\ want' = [j \in Keys |-> IF j \in A THEN Listing[j] ELSE want[j]]
        /\ failed' = failed \ A /\ pc \in {"listed", "streamed"}
        /\ k \in A => k \notin missed
    BY <1>3 DEF SyncRefused, ReplaceRefused
  <2> QED BY <1>1, <2>1, ListingIs
<1>4. ASSUME NEW j \in Keys, Event(j)
      PROVE  \/ want'[k] = want[k] /\ (k \in failed => k \in failed')
             \/ /\ want'[k] = ObjectAt(log, version', k)
                /\ version' \in 0 .. Len(log) /\ version' >= lastSyncResourceVersion
  <2>1. /\ version \in Nat /\ version' = version + 1 /\ version' \in 0 .. Len(log)
        /\ log[version'].key = j /\ lastSyncResourceVersion <= version
    BY <1>1, <1>4, ReceivedIs DEF Event
  <2>2. want \in Lists
    BY DEF ReflectorInv, ReflectorTypeOK, TypeOK
  <2>3. /\ want' = [want EXCEPT ![j] = IF log[version'].put THEN version' ELSE 0]
        /\ failed \ {j} \subseteq failed'
    BY <1>4, ReflectorAssumption DEF Event, Put, Delete
  <2>4. ObjectAt(log, version', j) = IF log[version'].put THEN version' ELSE 0
    BY <2>1, ObjectNext
  <2>5. k = j => want'[k] = ObjectAt(log, version', k)
    BY <2>2, <2>3, <2>4 DEF Lists
  <2>6. k # j => want'[k] = want[k] /\ (k \in failed => k \in failed')
    BY <2>2, <2>3 DEF Lists
  <2> QED BY <1>1, <2>1, <2>5, <2>6
<1>5. CASE UNCHANGED want /\ failed \subseteq failed'
  BY <1>5
<1>6. CASE \/ (\E j \in Keys : EventRefused(j)) \/ (\E A \in SUBSET Keys : ResyncStore(A))
           \/ ServerStep \/ UNCHANGED allVars
  BY <1>5, <1>6 DEF EventRefused, ActionRefused, ResyncStore, Resync, failVars,
     ServerStep, allVars, vars
<1>7. CASE Consume
  <2>1. Pop => UNCHANGED want /\ failed \subseteq failed'
    BY DEF Pop, PopWait, PopClosed, PopProcess, PopRequeue, PopError, PopDrop, PopFail,
       PopHead, failVars
  <2> QED BY <1>5, <1>7, <2>1 DEF Consume
<1>8. CASE \/ List \/ ListExpired \/ ListFails
           \/ InitialConnect \/ (\E j \in Keys : InitialEvent(j)) \/ InitialChange
           \/ (\E j \in Keys : InitialEventSkipped(j) \/ InitialChangeSkipped(j))
           \/ InitialBookmark \/ InitialExpired \/ InitialFails \/ Unsupported
           \/ Watch \/ WatchGone \/ WatchFails \/ WatchCloses
           \/ (\E j \in Keys : EventUnreadable(j)) \/ NoEvent \/ Bookmark
  <2>1. UNCHANGED vars
    BY <1>8 DEF List, ListExpired, ListFails, InitialConnect, InitialEvent,
       InitialEventSkipped, InitialReceived, InitialChange, InitialChangeSkipped,
       InitialBookmark, InitialExpired, InitialFails, Unsupported, Watch, WatchGone,
       WatchFails, WatchCloses, EventUnreadable, NoEvent, Bookmark, GivesUp, Moves
  <2> QED BY <1>5, <2>1 DEF vars
<1> QED
  BY <1>1, <1>2, <1>3, <1>4, <1>6, <1>7, <1>8 DEF ReflectorNext, Fault

\* No relist, watch-list or late event takes an object of the store back to before
\* lastSyncResourceVersion.
THEOREM NeverOlderCorrect == ReflectorSpec => NeverOlder
<1>1. ASSUME ReflectorInv, ReflectorInv', [ReflectorNext]_allVars,
             NEW k \in Keys \ (wrong' \cup failed'), View(k)' # View(k)
      PROVE  \E v \in 0 .. Len(log) :
               v >= lastSyncResourceVersion /\ View(k)' = Server!At(v)[k]
  <2>1. View(k)' = want'[k]
    BY <1>1 DEF ReflectorInv, FaithfulInv, Faithful
  <2>2. k \notin failed => View(k) = want[k]
    BY <1>1 DEF ReflectorInv, FaithfulInv, Faithful
  <2>3. PICK v \in 0 .. Len(log) :
          v >= lastSyncResourceVersion /\ want'[k] = ObjectAt(log, v, k)
    BY <1>1, <2>1, <2>2, AskedForward
  <2> QED BY <2>1, <2>3, AtIs
<1>2. ReflectorInv /\ ReflectorInv' /\ [ReflectorNext]_allVars =>
        [\A k \in Keys \ (wrong' \cup failed') :
           View(k)' # View(k) =>
             \E v \in 0 .. Len(log) :
               v >= lastSyncResourceVersion /\ View(k)' = Server!At(v)[k]]_allVars
  BY <1>1
<1> QED BY <1>2, ReflectorInvCorrect, PTL DEF ReflectorSpec, NeverOlder
=============================================================================
