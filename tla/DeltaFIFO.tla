----------------------------- MODULE DeltaFIFO -----------------------------
(***************************************************************************)
(* DeltaFIFO (src/tools/cache/delta_fifo.go) between a reflector and the   *)
(* processing loop of a controller (src/tools/cache/controller.go), with   *)
(* the client state (an Indexer) as its knownObjects.                      *)
(*                                                                         *)
(* Every method runs under f.lock, and Pop holds it while the deltas are   *)
(* processed, so each method is one step; only the consumer's cond.Wait    *)
(* and the gap between a failed Pop and AddIfNotPresent let others in.     *)
(*                                                                         *)
(* A delta is a Put (Added, Updated, Replaced or Sync, which processDeltas *)
(* treats alike), a Deleted with the object the watch delivered, or an     *)
(* Unknown: a Deleted whose object is a DeletedFinalStateUnknown.          *)
(* items[k] = <<>> says that the map f.items has no entry for k.           *)
(***************************************************************************)
EXTENDS Integers, Sequences, FiniteSets, Functions

CONSTANTS Keys,       \* keys of objects
          Objs,       \* versions of objects
          NoObj,      \* the absence of an object
          Failures,   \* what may follow a failure: "requeue", "retry", "drop"
          MaxDeltas   \* bound: deltas in the queue and in a failed Pop's hands

ASSUME DeltaFIFOAssumption ==
  /\ IsFiniteSet(Keys)
  /\ NoObj \notin Objs
  /\ Failures \subseteq {"requeue", "retry", "drop"}
  /\ MaxDeltas \in Nat \ {0}

VARIABLES items,      \* f.items
          queue,      \* f.queue
          populated,  \* f.populated
          initialPopulationCount,  \* f.initialPopulationCount
          closed,     \* f.closed
          known,      \* f.knownObjects: the client state
          consumer,   \* where processLoop is: "pop", "wait", "retry" or "done"
          retry,      \* the key and deltas a failed Pop returned
          initial,    \* history: keys of the first Replace not popped yet
          want,       \* history: the objects the producer asked for
          failed,     \* history: keys whose Pop failed, until the producer queues
                      \* something for them
          readded     \* history: keys whose deltas AddIfNotPresent put back

fifoVars == <<items, queue, populated, initialPopulationCount, closed>>
vars == <<items, queue, populated, initialPopulationCount, closed, known,
          consumer, retry, initial, want, failed, readded>>
failVars == <<failed, readded>>

Kinds == {"Put", "Deleted", "Unknown"}
Delta == [kind : Kinds, obj : Objs]
NoRetry == [key |-> NoObj, deltas |-> <<>>]
Lists == [Keys -> Objs \cup {NoObj}]

TypeOK ==
  /\ items \in [Keys -> Seq(Delta)]
  /\ queue \in Seq(Keys)
  /\ populated \in BOOLEAN
  /\ initialPopulationCount \in Nat
  /\ closed \in BOOLEAN
  /\ known \in Lists
  /\ consumer \in {"pop", "wait", "retry", "done"}
  /\ retry \in [key : Keys, deltas : Seq(Delta)] \cup {NoRetry}
  /\ consumer = "retry" <=> retry # NoRetry
  /\ initial \subseteq Keys
  /\ want \in Lists
  /\ failed \subseteq Keys
  /\ readded \subseteq Keys

Init ==
  /\ items = [k \in Keys |-> <<>>]
  /\ queue = <<>>
  /\ populated = FALSE
  /\ initialPopulationCount = 0
  /\ closed = FALSE
  /\ known = [k \in Keys |-> NoObj]
  /\ consumer = "pop"
  /\ retry = NoRetry
  /\ initial = {}
  /\ want = [k \in Keys |-> NoObj]
  /\ failed = {}
  /\ readded = {}

-----------------------------------------------------------------------------
(* queueActionLocked *)

Newest(deltas) == deltas[Len(deltas)]

IsDeletion(d) == d.kind # "Put"

\* Mutant: duplicate deletions are not merged.
NoDedup(deltas, d) == Append(deltas, d)

\* The new delta is appended; dedupDeltas merges two deletions into one, the
\* older unless it does not know the final state.
Dedup(deltas, d) ==
  IF deltas # <<>> /\ IsDeletion(d) /\ IsDeletion(Newest(deltas))
  THEN IF Newest(deltas).kind = "Unknown"
       THEN [deltas EXCEPT ![Len(deltas)] = d]
       ELSE deltas
  ELSE Append(deltas, d)

\* The orders in which the elements of S can be visited.
Orders(S) ==
  {s \in [1 .. Cardinality(S) -> S] : IsInjective(s) /\ Range(s) = S}

\* Mutant: a key is put in the queue with every delta.
FreshAlways(S) == S

\* The keys of S that f.items does not have, and so f.queue neither.
Fresh(S) == {k \in S : items[k] = <<>>}

\* The number of queued deltas.
Backlog(q) == FoldFunction(LAMBDA a, b : a + b, 0, [k \in Keys |-> Len(q[k])])

\* Mutant: the sleeping consumer is not told.
EnqueueSilently(new, order) ==
  /\ items' = [k \in Keys |-> IF k \in DOMAIN new THEN Dedup(items[k], new[k]) ELSE items[k]]
  /\ Backlog(items') + Len(retry.deltas) <= MaxDeltas
  /\ queue' = queue \o order
  /\ UNCHANGED consumer

\* queueActionLocked for each key of new: the fresh ones go to the end of the
\* queue in the given order, and Broadcast wakes the consumer.
Enqueue(new, order) ==
  /\ items' = [k \in Keys |-> IF k \in DOMAIN new THEN Dedup(items[k], new[k]) ELSE items[k]]
  /\ Backlog(items') + Len(retry.deltas) <= MaxDeltas
  /\ queue' = queue \o order
  /\ consumer' = IF consumer = "wait" /\ DOMAIN new # {} THEN "pop" ELSE consumer

\* queueActionLocked for one key.
EnqueueOne(k, d) == \E s \in Orders(Fresh({k})) : Enqueue([j \in {k} |-> d], s)

-----------------------------------------------------------------------------
(* The producer *)

\* Add and Update
Put(k, o) ==
  /\ populated' = TRUE
  /\ EnqueueOne(k, [kind |-> "Put", obj |-> o])
  /\ want' = [want EXCEPT ![k] = o]
  /\ failed' = failed \ {k}
  /\ UNCHANGED <<initialPopulationCount, closed, known, retry, initial, readded>>

\* Add, Update or Delete of an object that the transformer refuses.
ActionRefused ==
  /\ populated' = TRUE
  /\ UNCHANGED <<items, queue, initialPopulationCount, closed, known, consumer, retry, initial, want, failVars>>

\* Delete: ignored when neither the queue nor the known objects have the key.
Delete(k, o) ==
  /\ populated' = TRUE
  /\ want' = [want EXCEPT ![k] = NoObj]
  /\ \/ /\ known[k] = NoObj /\ items[k] = <<>>
        /\ UNCHANGED <<items, queue, consumer, failed>>
     \/ /\ known[k] # NoObj \/ items[k] # <<>>
        /\ EnqueueOne(k, [kind |-> "Deleted", obj |-> o])
        /\ failed' = failed \ {k}
  /\ UNCHANGED <<initialPopulationCount, closed, known, retry, initial, readded>>

\* The keys of a list, and those Replace finds deleted: pre-existing keys of
\* the queue, then of the known objects, that the list does not have.
Listed(list) == {k \in Keys : list[k] # NoObj}
Missing(list) == {k \in Keys \ Listed(list) : items[k] # <<>> \/ known[k] # NoObj}

\* Mutant: the object of a deletion is always taken from the known objects.
LatestKnown(k) == IF known[k] # NoObj THEN known[k] ELSE Newest(items[k]).obj

\* The latest known object of a pre-existing key.
LatestObj(k) == IF items[k] # <<>> THEN Newest(items[k]).obj ELSE known[k]

\* What Replace queues for each key.
Replacement(list) ==
  [k \in Listed(list) \cup Missing(list) |->
     IF k \in Listed(list) THEN [kind |-> "Put", obj |-> list[k]]
     ELSE [kind |-> "Unknown", obj |-> LatestObj(k)]]

\* Mutant: the first Replace counts the objects of its list only.
ReplaceCountsList(list) ==
  /\ \E l \in Orders(Fresh(Listed(list))), m \in Orders(Fresh(Missing(list))) :
       Enqueue(Replacement(list), l \o m)
  /\ populated' = TRUE
  /\ \/ /\ populated
        /\ UNCHANGED <<initialPopulationCount, initial>>
     \/ /\ ~populated
        /\ initialPopulationCount' = Cardinality(Listed(list))
        /\ initial' = Listed(list) \cup Missing(list)
  /\ want' = list
  /\ failed' = failed \ (Listed(list) \cup Missing(list))
  /\ UNCHANGED <<closed, known, retry, readded>>

\* Replace.  The first call on a FIFO that is not populated counts the keys
\* that have to be popped before the FIFO has synced.
Replace(list) ==
  /\ \E l \in Orders(Fresh(Listed(list))), m \in Orders(Fresh(Missing(list))) :
       Enqueue(Replacement(list), l \o m)
  /\ populated' = TRUE
  /\ \/ /\ populated
        /\ UNCHANGED <<initialPopulationCount, initial>>
     \/ /\ ~populated
        /\ initialPopulationCount' = Cardinality(Listed(list)) + Cardinality(Missing(list))
        /\ initial' = Listed(list) \cup Missing(list)
  /\ want' = list
  /\ failed' = failed \ (Listed(list) \cup Missing(list))
  /\ UNCHANGED <<closed, known, retry, readded>>

\* Replace that returns early because the transformer refuses an object of the
\* list, or a tombstone once the whole list is queued.
ReplaceRefused(list, accepted) ==
  /\ accepted \subseteq Listed(list) \cup Missing(list)
  /\ accepted # Listed(list) \cup Missing(list)
  /\ accepted \cap Missing(list) # {} => Listed(list) \subseteq accepted
  /\ \E l \in Orders(Fresh(accepted \cap Listed(list))),
        m \in Orders(Fresh(accepted \cap Missing(list))) :
       Enqueue([k \in accepted |-> Replacement(list)[k]], l \o m)
  /\ want' = [k \in Keys |-> IF k \in accepted THEN list[k] ELSE want[k]]
  /\ failed' = failed \ accepted
  /\ UNCHANGED <<populated, initialPopulationCount, closed, known, retry, initial, readded>>

\* Mutant: Resync queues every known object.
ResyncAll(accepted) ==
  /\ accepted \subseteq {k \in Keys : known[k] # NoObj}
  /\ \E s \in Orders(Fresh(accepted)) :
       Enqueue([k \in accepted |-> [kind |-> "Put", obj |-> known[k]]], s)
  /\ UNCHANGED <<populated, initialPopulationCount, closed, known, retry, initial, want, failVars>>

\* Resync: every known object with nothing queued for its key, or the first few
\* of them, up to one that the transformer refuses.
Resync(accepted) ==
  /\ accepted \subseteq {k \in Keys : known[k] # NoObj /\ items[k] = <<>>}
  /\ \E s \in Orders(Fresh(accepted)) :
       Enqueue([k \in accepted |-> [kind |-> "Put", obj |-> known[k]]], s)
  /\ UNCHANGED <<populated, initialPopulationCount, closed, known, retry, initial, want, failVars>>

Close ==
  /\ closed' = TRUE
  /\ consumer' = IF consumer = "wait" THEN "pop" ELSE consumer
  /\ UNCHANGED <<items, queue, populated, initialPopulationCount, known, retry, initial, want, failVars>>

-----------------------------------------------------------------------------
(* The consumer: controller.processLoop *)

\* Pop finds the queue empty and parks.
PopWait ==
  /\ consumer = "pop"
  /\ queue = <<>>
  /\ ~closed
  /\ consumer' = "wait"
  /\ UNCHANGED <<fifoVars, known, retry, initial, want, failVars>>

\* Pop returns ErrFIFOClosed and processLoop ends.
PopClosed ==
  /\ consumer = "pop"
  /\ queue = <<>>
  /\ closed
  /\ consumer' = "done"
  /\ UNCHANGED <<fifoVars, known, retry, initial, want, failVars>>

\* Pop takes the head of the queue, up to the call of process.
PopHead(k) ==
  /\ consumer = "pop"
  /\ queue # <<>>
  /\ k = Head(queue)
  /\ initialPopulationCount' =
       IF initialPopulationCount > 0 THEN initialPopulationCount - 1 ELSE 0
  /\ initial' = initial \ {k}
  /\ UNCHANGED <<closed, want>>

\* processDeltas: what the store has for the key of d once d is applied.
After(d) == IF IsDeletion(d) THEN NoObj ELSE d.obj

\* The deltas are applied from oldest to newest, so that the store ends up with
\* what the newest says.
Outcome(deltas) == After(Newest(deltas))

\* Pop, and process succeeds.
PopProcess(k) ==
  /\ PopHead(k)
  /\ queue' = Tail(queue)
  /\ items' = [items EXCEPT ![k] = <<>>]
  /\ known' = [known EXCEPT ![k] = Outcome(items[k])]
  /\ readded' = readded \ {k}
  /\ UNCHANGED <<populated, consumer, retry, failed>>

\* Pop, and process returns ErrRequeue, the store untouched: addIfNotPresent
\* under the same lock.
PopRequeue(k) ==
  /\ "requeue" \in Failures
  /\ PopHead(k)
  /\ queue' = Append(Tail(queue), k)
  /\ populated' = TRUE
  /\ UNCHANGED <<items, known, consumer, retry, failVars>>

\* Pop, and process fails at the n-th delta: the ones before it are applied,
\* and all are out of the queue when Pop returns.
PopFail(k) ==
  /\ PopHead(k)
  /\ queue' = Tail(queue)
  /\ items' = [items EXCEPT ![k] = <<>>]
  /\ \E n \in DOMAIN items[k] :
       known' = [known EXCEPT ![k] = IF n = 1 THEN known[k] ELSE After(items[k][n - 1])]
  /\ failed' = failed \cup {k}
  /\ readded' = readded \ {k}
  /\ UNCHANGED populated

\* processLoop with RetryOnError keeps what the failed Pop returned.
PopError(k) ==
  /\ "retry" \in Failures
  /\ PopFail(k)
  /\ retry' = [key |-> k, deltas |-> items[k]]
  /\ consumer' = "retry"

\* processLoop without RetryOnError, as informers configure it: the deltas are
\* lost.
PopDrop(k) ==
  /\ "drop" \in Failures
  /\ PopFail(k)
  /\ UNCHANGED <<consumer, retry>>

\* processLoop with RetryOnError: AddIfNotPresent(obj) after the failed Pop.
AddIfNotPresent ==
  /\ consumer = "retry"
  /\ populated' = TRUE
  /\ \/ /\ items[retry.key] # <<>>
        /\ UNCHANGED <<items, queue, readded>>
     \/ /\ items[retry.key] = <<>>
        /\ queue' = Append(queue, retry.key)
        /\ items' = [items EXCEPT ![retry.key] = retry.deltas]
        /\ readded' = readded \cup {retry.key}
  /\ consumer' = "pop"
  /\ retry' = NoRetry
  /\ UNCHANGED <<initialPopulationCount, closed, known, initial, want, failed>>

Pop ==
  \/ PopWait
  \/ PopClosed
  \/ \E k \in Keys : PopProcess(k) \/ PopRequeue(k) \/ PopError(k) \/ PopDrop(k)

Next ==
  \/ \E k \in Keys, o \in Objs : Put(k, o) \/ Delete(k, o)
  \/ ActionRefused
  \/ \E list \in Lists :
       Replace(list) \/ \E accepted \in SUBSET Keys : ReplaceRefused(list, accepted)
  \/ \E accepted \in SUBSET Keys : Resync(accepted)
  \/ Close
  \/ Pop
  \/ AddIfNotPresent

Spec == Init /\ [][Next]_vars

\* processLoop runs whenever it can, and process does not ask for ever for the
\* same key to be requeued.
Fairness ==
  /\ WF_vars(Pop) /\ WF_vars(AddIfNotPresent)
  /\ \A k \in Keys : SF_vars(PopProcess(k))

FairSpec == Spec /\ Fairness

-----------------------------------------------------------------------------
(* Safety *)

\* The queue holds exactly the keys that have deltas, each once.
QueueMatchesItems ==
  /\ IsInjective(queue)
  /\ Range(queue) = {k \in Keys : items[k] # <<>>}

\* Deltas can be replayed on the known objects: a deletion comes only after
\* something it deletes, so that OnDelete is called for existing objects only
\* and never twice in a row.  Deltas put back after a failed Pop may have been
\* applied in part.
DeltasReplayable ==
  \A k \in Keys \ readded : \A n \in DOMAIN items[k] :
    IsDeletion(items[k][n]) =>
      IF n = 1 THEN known[k] # NoObj ELSE ~IsDeletion(items[k][n - 1])

\* A DeletedFinalStateUnknown carries the latest known object of its key, that
\* of the delta before it or else of the known objects (comment of Replace).
TombstoneIsLatest ==
  \A k \in Keys \ readded : \A n \in DOMAIN items[k] :
    items[k][n].kind = "Unknown" =>
      items[k][n].obj = IF n = 1 THEN known[k] ELSE items[k][n - 1].obj

\* HasSynced becomes true with the pop of the last key of the first Replace:
\* the keys it still waits for are the first initialPopulationCount keys of the
\* queue, and their number is neither short nor over.
SyncCount ==
  /\ initialPopulationCount = Cardinality(initial)
  /\ initialPopulationCount <= Len(queue)
  /\ initial = {queue[n] : n \in 1 .. initialPopulationCount}

\* The consumer sleeps only while there is nothing for it to do.
ConsumerAwake == consumer = "wait" => queue = <<>> /\ ~closed

\* What the known objects will say of k once the queue is empty.
View(k) == IF items[k] # <<>> THEN Outcome(items[k]) ELSE known[k]

\* The queue and the known objects together always say what the producer asked
\* for last: merging deltas, Resync, an incomplete Replace, Pop and a requeue
\* neither lose a change nor bring an old object back.  A key whose Pop failed is
\* right again as soon as the producer queues something for it, whatever the
\* retry does then.
Faithful == \A k \in Keys \ failed : View(k) = want[k]

\* The same for the keys whose Pop failed, when processLoop retries: AddIfNotPresent is
\* "useful in a single producer/consumer scenario so that the consumer can
\* safely retry items without contending with the producer and potentially
\* enqueueing stale items".
RetryIsSafe == \A k \in Keys : retry.key # k => View(k) = want[k]

-----------------------------------------------------------------------------
(* Liveness *)

\* Every delta is processed in the end, whatever the producer adds meanwhile:
\* keys are popped in the order in which they came.  Deltas that come after
\* processLoop has seen the FIFO closed and empty are left alone.
EveryDeltaPopped ==
  \A k \in Keys : (items[k] # <<>>) ~> (items[k] = <<>> \/ consumer = "done")
=============================================================================
