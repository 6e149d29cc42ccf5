-------------------------- MODULE WorkQueueProofs --------------------------
(***************************************************************************)
(* Proofs of the safety properties of WorkQueue, for any items, any finite *)
(* set of workers and any number of goroutines in ShutDownWithDrain, and   *)
(* then of DelayingQueue, which embeds it, for any callers of AddAfter,    *)
(* delays and capacity of the channel.                                     *)
(***************************************************************************)
EXTENDS DelayingQueue, QueueLemmas, FiniteSetTheorems

-----------------------------------------------------------------------------
(* sync.Cond moves goroutines only from "wait" back to the test of their loop. *)

PCs == {"get", "work", "exit", "idle", "drain", "returned", "wait"}

\* Control points are as TypeOK has them.
PcOK(p) ==
  /\ p \in [Goroutines -> PCs]
  /\ \A w \in Workers : p[w] \in {"get", "wait", "work", "exit"}
  /\ \A d \in Drainers : p[d] \in {"idle", "wait", "drain", "returned"}

\* q results from p by waking some goroutines.
Woken(p, q) ==
  /\ PcOK(q)
  /\ \A g \in Goroutines : q[g] = p[g] \/ (p[g] = "wait" /\ q[g] = Resumed(g))

\* Signal wakes at most one goroutine and moves no other.
LEMMA SignalWakes ==
  ASSUME NEW p, PcOK(p), NEW q \in Signal(p)
  PROVE  Woken(p, q)
<1>1. CASE Waiting(p) = {}
  BY <1>1 DEF Signal, Woken
<1>2. CASE Waiting(p) # {}
  <2>1. PICK g \in Waiting(p) : q = [p EXCEPT ![g] = Resumed(g)]
    BY <1>2 DEF Signal
  <2> QED
    BY <2>1, WorkQueueAssumption DEF Waiting, Woken, PcOK, PCs, Resumed, Goroutines
<1> QED BY <1>1, <1>2

\* Broadcast wakes every waiting goroutine and moves no other.
LEMMA BroadcastWakes ==
  ASSUME NEW p, PcOK(p)
  PROVE  /\ Woken(p, Broadcast(p))
         /\ \A g \in Goroutines : Broadcast(p)[g] # "wait"
BY WorkQueueAssumption DEF Broadcast, Woken, PcOK, PCs, Resumed, Goroutines

-----------------------------------------------------------------------------
(* Type correctness and the bookkeeping of Add, Get and Done. *)

\* The queue's bookkeeping: what it lists and what the workers hold.
Books == TypeOK /\ QueueIsDirtyNotProcessing /\ Stingy

\* A goroutine woken or not, a worker holds an item in the same states.
LEMMA WokenKeepsStingy ==
  ASSUME Stingy, PcOK(pc), Woken(pc, pc'), UNCHANGED <<item, processing>>
  PROVE  Stingy'
<1>1. \A w \in Workers : pc'[w] = "work" <=> pc[w] = "work"
  BY DEF Woken, Resumed, Goroutines
<1> QED BY <1>1 DEF Stingy

\* Add queues an item that is not being processed, exactly once.
LEMMA AddKeepsBooks ==
  ASSUME Books, NEW i \in Items, Add(i)
  PROVE  Books'
<1> USE DEF Books
<1>1. PcOK(pc)
  BY DEF TypeOK, PcOK, PCs
<1>2. Woken(pc, pc')
  BY <1>1, SignalWakes DEF Add, Woken
<1>3. Stingy'
  BY <1>1, <1>2, WokenKeepsStingy DEF Add
<1>4. queue' \in Seq(Items) /\ QueueIsDirtyNotProcessing'
  <2>1. CASE i \in processing
    BY <2>1 DEF Add, TypeOK, QueueIsDirtyNotProcessing
  <2>2. CASE i \notin processing
    <3>1. queue' = Append(queue, i) /\ i \notin Range(queue)
      BY <2>2 DEF Add, QueueIsDirtyNotProcessing
    <3>2. /\ queue' \in Seq(Items)
          /\ Range(queue') = Range(queue) \cup {i}
          /\ IsInjective(queue')
      BY <3>1, AppendRange DEF TypeOK, QueueIsDirtyNotProcessing
    <3> QED BY <2>2, <3>2 DEF Add, QueueIsDirtyNotProcessing
  <2> QED BY <2>1, <2>2
<1>5. TypeOK'
  BY <1>2, <1>4 DEF Add, TypeOK, Woken, PcOK, PCs
<1> QED BY <1>3, <1>4, <1>5

\* Get moves the head of the queue from dirty to processing and to the worker.
LEMMA GetKeepsBooks ==
  ASSUME Books, NEW w \in Workers, Get(w)
  PROVE  Books'
<1> USE DEF Books
<1>1. CASE GetWait(w) \/ GetShutdown(w)
  <2>1. /\ UNCHANGED <<queue, dirty, processing, shuttingDown, drain, item>>
        /\ pc[w] = "get"
        /\ pc' = [pc EXCEPT ![w] = "wait"] \/ pc' = [pc EXCEPT ![w] = "exit"]
    BY <1>1 DEF GetWait, GetShutdown
  <2>2. TypeOK'
    BY <2>1, WorkQueueAssumption DEF TypeOK, Goroutines
  <2>3. Stingy'
    BY <2>1 DEF Stingy, TypeOK, Goroutines
  <2>4. QueueIsDirtyNotProcessing'
    BY <2>1 DEF QueueIsDirtyNotProcessing
  <2> QED BY <2>2, <2>3, <2>4
<1>2. CASE GetItem(w)
  <2> DEFINE h == Head(queue)
  <2>1. /\ h \in Items
        /\ queue' \in Seq(Items)
        /\ h \in Range(queue)
        /\ Range(queue') = Range(queue) \ {h}
        /\ IsInjective(queue')
    BY <1>2, TailRange DEF GetItem, TypeOK, QueueIsDirtyNotProcessing
  <2>2. h \in dirty /\ h \notin processing
    BY <2>1 DEF QueueIsDirtyNotProcessing
  <2>3. TypeOK'
    BY <1>2, <2>1, WorkQueueAssumption DEF GetItem, TypeOK, Goroutines
  <2>4. QueueIsDirtyNotProcessing'
    BY <1>2, <2>1, <2>2 DEF GetItem, QueueIsDirtyNotProcessing
  <2>5. Stingy'
    <3>1. /\ item' = [item EXCEPT ![w] = h]
          /\ pc' = [pc EXCEPT ![w] = "work"]
          /\ processing' = processing \cup {h}
          /\ item[w] = NoItem
          /\ h # NoItem
      BY <1>2, <2>1, WorkQueueAssumption DEF GetItem, Stingy
    <3>2. \A v \in Workers : item[v] # h
      BY <2>2, <3>1 DEF Stingy
    <3>3. \A v \in Workers : item'[v] # NoItem <=> pc'[v] = "work"
      BY <3>1 DEF Stingy, TypeOK, Goroutines
    <3>4. processing' = {item'[v] : v \in Workers} \ {NoItem}
      BY <3>1 DEF Stingy, TypeOK
    <3>5. \A u, v \in Workers : u # v /\ item'[u] # NoItem => item'[u] # item'[v]
      BY <3>1, <3>2 DEF Stingy, TypeOK
    <3> QED BY <3>3, <3>4, <3>5 DEF Stingy
  <2> QED BY <2>3, <2>4, <2>5
<1> QED BY <1>1, <1>2 DEF Get

\* Done releases the item and puts it back when it became dirty meanwhile.
LEMMA DoneKeepsBooks ==
  ASSUME Books, NEW w \in Workers, Done(w)
  PROVE  Books'
<1> USE DEF Books
<1> DEFINE resumed == [pc EXCEPT ![w] = "get"]
           i == item[w]
<1>1. PcOK(resumed)
  BY WorkQueueAssumption DEF TypeOK, PcOK, PCs, Goroutines
<1>2. Woken(resumed, pc')
  <2>1. pc' \in Signal(resumed) \/ pc' = resumed
    BY DEF Done
  <2>2. Woken(resumed, resumed)
    BY <1>1 DEF Woken
  <2> HIDE DEF resumed
  <2> QED BY <1>1, <2>1, <2>2, SignalWakes
<1>3. i \in Items /\ i \in processing /\ i # NoItem
  BY DEF Done, Stingy, TypeOK
<1>4. /\ processing' = processing \ {i}
      /\ item' = [item EXCEPT ![w] = NoItem]
      /\ dirty' = dirty
      /\ UNCHANGED <<shuttingDown, drain>>
  BY DEF Done
<1>5. queue' \in Seq(Items) /\ QueueIsDirtyNotProcessing'
  <2>1. CASE i \in dirty
    <3>1. queue' = Append(queue, i) /\ i \notin Range(queue)
      BY <1>3, <2>1 DEF Done, QueueIsDirtyNotProcessing
    <3>2. /\ queue' \in Seq(Items)
          /\ Range(queue') = Range(queue) \cup {i}
          /\ IsInjective(queue')
      BY <1>3, <3>1, AppendRange DEF TypeOK, QueueIsDirtyNotProcessing
    <3> QED BY <1>3, <1>4, <2>1, <3>2 DEF QueueIsDirtyNotProcessing
  <2>2. CASE i \notin dirty
    BY <1>4, <2>2 DEF Done, TypeOK, QueueIsDirtyNotProcessing
  <2> QED BY <2>1, <2>2
<1>6. TypeOK'
  BY <1>2, <1>4, <1>5 DEF TypeOK, Woken, PcOK, PCs
<1>7. Stingy'
  <2>1. \A v \in Workers : pc'[v] = "work" <=> (v # w /\ pc[v] = "work")
    BY <1>2 DEF Woken, Resumed, Goroutines, TypeOK
  <2>2. \A v \in Workers : item'[v] # NoItem <=> pc'[v] = "work"
    BY <1>4, <2>1 DEF Stingy, TypeOK
  <2>3. processing' = {item'[v] : v \in Workers} \ {NoItem}
    BY <1>3, <1>4 DEF Stingy, TypeOK
  <2>4. \A u, v \in Workers : u # v /\ item'[u] # NoItem => item'[u] # item'[v]
    BY <1>4 DEF Stingy, TypeOK
  <2> QED BY <2>2, <2>3, <2>4 DEF Stingy
<1> QED BY <1>5, <1>6, <1>7

\* ShutDown, ShutDownWithDrain and its loop only set flags and wake goroutines.
LEMMA ShutDownKeepsBooks ==
  ASSUME Books,
         ShutDown \/ \E d \in Drainers : ShutDownWithDrain(d) \/ DrainLoop(d)
  PROVE  Books'
<1> USE DEF Books
<1>1. PcOK(pc)
  BY DEF TypeOK, PcOK, PCs
<1>2. UNCHANGED <<queue, dirty, processing, item>>
  BY DEF ShutDown, ShutDownWithDrain, DrainLoop
<1>3. PcOK(pc') /\ shuttingDown' \in BOOLEAN /\ drain' \in BOOLEAN
  <2>1. CASE ShutDown
    BY <1>1, <2>1, BroadcastWakes DEF ShutDown, Woken
  <2>2. CASE \E d \in Drainers : ShutDownWithDrain(d)
    <3>1. PICK d \in Drainers : ShutDownWithDrain(d)
      BY <2>2
    <3>2. DrainTest(TRUE) \in {"wait", "returned"}
      BY DEF DrainTest
    <3> DEFINE b == Broadcast(pc)
               t == DrainTest(TRUE)
    <3>3. PcOK(b)
      BY <1>1, BroadcastWakes DEF Woken
    <3>4. pc' = [b EXCEPT ![d] = t] /\ shuttingDown' = TRUE /\ drain' = TRUE
      BY <3>1 DEF ShutDownWithDrain
    <3> HIDE DEF b, t
    <3>5. t \in {"wait", "returned"}
      BY <3>2 DEF t
    <3>6. PcOK(pc')
      BY <3>3, <3>4, <3>5, WorkQueueAssumption DEF PcOK, PCs, Goroutines
    <3> QED BY <3>4, <3>6
  <2>3. CASE \E d \in Drainers : DrainLoop(d)
    BY <1>1, <2>3, WorkQueueAssumption DEF DrainLoop, DrainTest, PcOK, PCs, Goroutines, TypeOK
  <2> QED BY <2>1, <2>2, <2>3
<1>4. \A w \in Workers : pc'[w] = "work" <=> pc[w] = "work"
  <2>1. CASE ShutDown
    BY <1>1, <2>1 DEF ShutDown, Broadcast, Resumed, Goroutines
  <2>2. CASE \E d \in Drainers : ShutDownWithDrain(d)
    BY <1>1, <2>2, WorkQueueAssumption DEF ShutDownWithDrain, Broadcast, Resumed, Goroutines
  <2>3. CASE \E d \in Drainers : DrainLoop(d)
    BY <1>1, <2>3, WorkQueueAssumption DEF DrainLoop, PcOK, Goroutines
  <2> QED BY <2>1, <2>2, <2>3
<1>5. Stingy'
  BY <1>2, <1>4 DEF Stingy
<1>6. QueueIsDirtyNotProcessing'
  BY <1>2 DEF QueueIsDirtyNotProcessing
<1>7. TypeOK'
  BY <1>2, <1>3 DEF TypeOK, PcOK, PCs
<1> QED BY <1>5, <1>6, <1>7

\* newQueue returns a queue whose books are in order.
LEMMA InitBooks == Init => Books
<1> SUFFICES ASSUME Init PROVE Books
  OBVIOUS
<1>1. TypeOK
  <2>1. PcOK(pc)
    BY WorkQueueAssumption DEF Init, PcOK, PCs, Goroutines
  <2>2. queue \in Seq(Items) /\ item \in [Workers -> Items \cup {NoItem}]
    BY DEF Init
  <2> QED BY <2>1, <2>2 DEF Init, TypeOK, PcOK, PCs
<1>2. QueueIsDirtyNotProcessing
  BY DEF Init, QueueIsDirtyNotProcessing, IsInjective, Range
<1>3. Stingy
  BY WorkQueueAssumption DEF Init, Stingy, Goroutines
<1> QED BY <1>1, <1>2, <1>3 DEF Books

\* No method of the queue upsets its books.
LEMMA NextBooks == Books /\ [Next]_vars => Books'
<1> SUFFICES ASSUME Books, [Next]_vars PROVE Books'
  OBVIOUS
<1>1. CASE \E i \in Items : Add(i)
  BY <1>1, AddKeepsBooks
<1>2. CASE \E w \in Workers : Get(w) \/ Done(w)
  BY <1>2, GetKeepsBooks, DoneKeepsBooks
<1>3. CASE ShutDown \/ \E d \in Drainers : ShutDownWithDrain(d) \/ DrainLoop(d)
  BY <1>3, ShutDownKeepsBooks
<1>4. CASE UNCHANGED vars
  BY <1>4 DEF vars, Books, TypeOK, QueueIsDirtyNotProcessing, Stingy
<1> QED BY <1>1, <1>2, <1>3, <1>4 DEF Next

\* The bookkeeping holds in every reachable state.
THEOREM BooksInvariant == Spec => []Books
BY InitBooks, NextBooks, PTL DEF Spec

\* Every variable keeps its type through all methods of the queue.
THEOREM TypeCorrect == Spec => []TypeOK
<1>1. Books => TypeOK
  BY DEF Books
<1> QED BY <1>1, BooksInvariant, PTL

\* Nothing is queued twice and no accepted Add is lost: the queue lists exactly
\* the dirty items that are not being processed.
THEOREM QueueCorrect == Spec => []QueueIsDirtyNotProcessing
<1>1. Books => QueueIsDirtyNotProcessing
  BY DEF Books
<1> QED BY <1>1, BooksInvariant, PTL

\* No item is with two workers at the same time.
THEOREM StingyCorrect == Spec => []Stingy
<1>1. Books => Stingy
  BY DEF Books
<1> QED BY <1>1, BooksInvariant, PTL
-----------------------------------------------------------------------------
(* The condition variable. *)

\* The workers that will test the loop condition of Get next.
Ready(p) == {w \in Workers : p[w] = "get"}

\* Goroutines in ShutDownWithDrain are there because of a shutdown.
DrainersShut == \A d \in Drainers : pc[d] \in {"wait", "drain"} => shuttingDown

Wakeups == NoLostWakeup /\ DrainersShut

\* Two sets of ready workers can be counted and compared.
LEMMA ReadyCounts ==
  ASSUME NEW p, NEW q
  PROVE  /\ Cardinality(Ready(p)) \in Nat
         /\ Ready(p) \subseteq Ready(q)
              => Cardinality(Ready(p)) <= Cardinality(Ready(q))
         /\ \A w : w \in Ready(q) /\ w \notin Ready(p) /\ Ready(p) \subseteq Ready(q)
              => Cardinality(Ready(p)) + 1 <= Cardinality(Ready(q))
         /\ \A w : w \in Ready(p) /\ Ready(q) = Ready(p) \ {w}
              => Cardinality(Ready(q)) = Cardinality(Ready(p)) - 1
<1>1. IsFiniteSet(Ready(p)) /\ IsFiniteSet(Ready(q))
  BY WorkQueueAssumption, FS_Subset DEF Ready
<1>2. Cardinality(Ready(p)) \in Nat /\ Cardinality(Ready(q)) \in Nat
  BY <1>1, FS_CardinalityType
<1>3. Ready(p) \subseteq Ready(q) => Cardinality(Ready(p)) <= Cardinality(Ready(q))
  BY <1>1, FS_Subset
<1>4. ASSUME NEW w, w \in Ready(q), w \notin Ready(p), Ready(p) \subseteq Ready(q)
      PROVE  Cardinality(Ready(p)) + 1 <= Cardinality(Ready(q))
  <2>1. /\ IsFiniteSet(Ready(p) \cup {w})
        /\ Cardinality(Ready(p) \cup {w}) = Cardinality(Ready(p)) + 1
    BY <1>1, <1>4, FS_AddElement
  <2>2. Ready(p) \cup {w} \subseteq Ready(q)
    BY <1>4
  <2> QED BY <1>1, <2>1, <2>2, FS_Subset
<1>5. ASSUME NEW w, w \in Ready(p), Ready(q) = Ready(p) \ {w}
      PROVE  Cardinality(Ready(q)) = Cardinality(Ready(p)) - 1
  BY <1>1, <1>5, FS_RemoveElement
<1> QED BY <1>2, <1>3, <1>4, <1>5

\* Waking goroutines makes more workers ready and leaves fewer waiting.
LEMMA WokenIsReady ==
  ASSUME NEW p, NEW q, Woken(p, q)
  PROVE  /\ Ready(p) \subseteq Ready(q)
         /\ \A g \in Goroutines : q[g] = "wait" => p[g] = "wait"
         /\ \A d \in Drainers : q[d] \in {"wait", "drain"} => p[d] \in {"wait", "drain"}
BY WorkQueueAssumption DEF Woken, Ready, Resumed, Goroutines

\* Signal wakes a worker when workers are all that is waiting.
LEMMA SignalReadiesWorker ==
  ASSUME NEW p, PcOK(p), NEW q \in Signal(p),
         \E w \in Workers : p[w] = "wait",
         \A d \in Drainers : p[d] # "wait"
  PROVE  \E w \in Workers : w \in Ready(q) /\ w \notin Ready(p)
<1>1. Waiting(p) # {} /\ Waiting(p) \subseteq Workers
  BY DEF Waiting, Goroutines
<1>2. PICK g \in Waiting(p) : q = [p EXCEPT ![g] = Resumed(g)]
  BY <1>1 DEF Signal
<1>3. g \in Workers /\ p[g] = "wait" /\ q[g] = "get"
  BY <1>1, <1>2 DEF Waiting, Resumed, PcOK
<1> QED BY <1>3 DEF Ready

\* The Signal of Add is not lost.
LEMMA AddWakeups ==
  ASSUME Books, Wakeups, NEW i \in Items, Add(i)
  PROVE  Wakeups'
<1>1. PcOK(pc) /\ Len(queue) \in Nat
  BY LenProperties DEF Books, TypeOK, PcOK, PCs
<1>2. Woken(pc, pc')
  BY <1>1, SignalWakes DEF Add, Woken
<1>3. DrainersShut'
  BY <1>2, WokenIsReady DEF Wakeups, DrainersShut, Add
<1>4. ASSUME \E w \in Workers : pc'[w] = "wait"
      PROVE  ~shuttingDown' /\ Len(queue') <= Cardinality(Ready(pc'))
  <2>1. \E w \in Workers : pc[w] = "wait"
    BY <1>2, <1>4, WokenIsReady DEF Goroutines
  <2>2. ~shuttingDown /\ Len(queue) <= Cardinality(Ready(pc))
    BY <2>1 DEF Wakeups, NoLostWakeup, Ready
  <2>3. CASE i \in processing
    BY <2>2, <2>3 DEF Add
  <2>4. CASE i \notin processing
    <3>1. \A d \in Drainers : pc[d] # "wait"
      BY <2>2 DEF Wakeups, DrainersShut
    <3>2. pc' \in Signal(pc) /\ queue' = Append(queue, i)
      BY <2>4 DEF Add
    <3>3. \E w \in Workers : w \in Ready(pc') /\ w \notin Ready(pc)
      BY <1>1, <2>1, <3>1, <3>2, SignalReadiesWorker
    <3>4. Cardinality(Ready(pc)) + 1 <= Cardinality(Ready(pc'))
      BY <1>2, <3>3, WokenIsReady, ReadyCounts
    <3>5. Len(queue') = Len(queue) + 1
      BY <3>2, AppendProperties DEF Books, TypeOK
    <3>6. Cardinality(Ready(pc)) \in Nat /\ Cardinality(Ready(pc')) \in Nat
      BY ReadyCounts
    <3> QED BY <1>1, <2>2, <3>4, <3>5, <3>6 DEF Add
  <2> QED BY <2>3, <2>4
<1> QED BY <1>3, <1>4 DEF Wakeups, NoLostWakeup, Ready

\* Get parks only when there is nothing to take, and takes what a Signal
\* announced otherwise.
LEMMA GetWakeups ==
  ASSUME Books, Wakeups, NEW w \in Workers, Get(w)
  PROVE  Wakeups'
<1>1. pc \in [Goroutines -> PCs] /\ w \in Goroutines /\ w \notin Drainers
  BY WorkQueueAssumption DEF Books, TypeOK, PCs, Goroutines
<1>2. \A g \in Goroutines \ {w} : pc'[g] = pc[g]
  BY <1>1 DEF Get, GetWait, GetShutdown, GetItem
<1>3. DrainersShut' /\ shuttingDown' = shuttingDown
  BY <1>1, <1>2 DEF Get, GetWait, GetShutdown, GetItem, Wakeups, DrainersShut, Goroutines
<1>4. CASE GetWait(w)
  <2>1. Len(queue') = 0 /\ ~shuttingDown'
    BY <1>4 DEF GetWait
  <2>2. Cardinality(Ready(pc')) \in Nat
    BY ReadyCounts
  <2> QED BY <1>3, <2>1, <2>2 DEF Wakeups, NoLostWakeup, Ready
<1>5. CASE GetShutdown(w)
  <2>1. \A v \in Workers : pc[v] # "wait"
    BY <1>5 DEF GetShutdown, Wakeups, NoLostWakeup
  <2>2. \A v \in Workers : pc'[v] # "wait"
    BY <1>1, <1>2, <1>5, <2>1 DEF GetShutdown, Goroutines
  <2> QED BY <1>3, <2>2 DEF Wakeups, NoLostWakeup
<1>6. CASE GetItem(w)
  <2>1. pc' = [pc EXCEPT ![w] = "work"] /\ pc[w] = "get" /\ queue # <<>>
        /\ queue' = Tail(queue)
    BY <1>6 DEF GetItem
  <2>2. w \in Ready(pc) /\ Ready(pc') = Ready(pc) \ {w}
    BY <1>1, <2>1 DEF Ready, Goroutines
  <2>3. Cardinality(Ready(pc')) = Cardinality(Ready(pc)) - 1
    BY <2>2, ReadyCounts
  <2>4. Len(queue') = Len(queue) - 1 /\ Len(queue) \in Nat
    BY <2>1, HeadTailProperties, LenProperties DEF Books, TypeOK
  <2>5. Cardinality(Ready(pc)) \in Nat /\ Cardinality(Ready(pc')) \in Nat
    BY ReadyCounts
  <2>6. (\E v \in Workers : pc'[v] = "wait") => (\E v \in Workers : pc[v] = "wait")
    BY <1>1, <2>1 DEF Goroutines
  <2>7. (\E v \in Workers : pc[v] = "wait")
          => ~shuttingDown /\ Len(queue) <= Cardinality(Ready(pc))
    BY DEF Wakeups, NoLostWakeup, Ready
  <2>8. (\E v \in Workers : pc'[v] = "wait")
          => ~shuttingDown' /\ Len(queue') <= Cardinality(Ready(pc'))
    BY <1>3, <2>3, <2>4, <2>5, <2>6, <2>7
  <2> QED BY <1>3, <2>8 DEF Wakeups, NoLostWakeup, Ready
<1> QED BY <1>4, <1>5, <1>6 DEF Get

\* The worker that calls Done comes back to Get for what it put back.
LEMMA DoneWakeups ==
  ASSUME Books, Wakeups, NEW w \in Workers, Done(w)
  PROVE  Wakeups'
<1> DEFINE resumed == [pc EXCEPT ![w] = "get"]
<1>1. /\ PcOK(resumed)
      /\ pc[w] = "work"
      /\ pc \in [Goroutines -> PCs]
      /\ w \in Goroutines /\ w \notin Drainers
  BY WorkQueueAssumption DEF Books, TypeOK, PcOK, PCs, Goroutines, Done
<1>2. /\ w \in Ready(resumed) /\ w \notin Ready(pc) /\ Ready(pc) \subseteq Ready(resumed)
      /\ \A g \in Goroutines \ {w} : resumed[g] = pc[g]
      /\ resumed[w] = "get"
  BY <1>1 DEF Ready, Goroutines
<1>3. pc' \in Signal(resumed) \/ pc' = resumed
  BY DEF Done
<1> HIDE DEF resumed
<1>4. Woken(resumed, pc')
  BY <1>1, <1>3, SignalWakes DEF Woken
<1>5. w \in Ready(pc') /\ w \notin Ready(pc) /\ Ready(pc) \subseteq Ready(pc')
  BY <1>2, <1>4, WokenIsReady
<1>6. Cardinality(Ready(pc)) + 1 <= Cardinality(Ready(pc'))
  BY <1>5, ReadyCounts
<1>7. Cardinality(Ready(pc)) \in Nat /\ Cardinality(Ready(pc')) \in Nat
  BY ReadyCounts
<1>8. Len(queue) \in Nat /\ (Len(queue') = Len(queue) + 1 \/ Len(queue') = Len(queue))
  BY AppendProperties, LenProperties DEF Done, Books, TypeOK, Stingy
<1>9. shuttingDown' = shuttingDown
  BY DEF Done
<1>10. DrainersShut'
  BY <1>1, <1>2, <1>4, <1>9, WokenIsReady DEF Wakeups, DrainersShut, Goroutines
<1>11. (\E v \in Workers : pc'[v] = "wait") => (\E v \in Workers : pc[v] = "wait")
  BY <1>1, <1>2, <1>4, WokenIsReady DEF Goroutines
<1>12. (\E v \in Workers : pc[v] = "wait")
         => ~shuttingDown /\ Len(queue) <= Cardinality(Ready(pc))
  BY DEF Wakeups, NoLostWakeup, Ready
<1>13. (\E v \in Workers : pc'[v] = "wait")
         => ~shuttingDown' /\ Len(queue') <= Cardinality(Ready(pc'))
  BY <1>6, <1>7, <1>8, <1>9, <1>11, <1>12
<1> QED BY <1>10, <1>13 DEF Wakeups, NoLostWakeup, Ready

\* Broadcast leaves no worker parked, and a shut down queue parks none.
LEMMA ShutDownWakeups ==
  ASSUME Books, Wakeups,
         ShutDown \/ \E d \in Drainers : ShutDownWithDrain(d) \/ DrainLoop(d)
  PROVE  Wakeups'
<1>1. PcOK(pc)
  BY DEF Books, TypeOK, PcOK, PCs
<1>2. CASE ShutDown \/ \E d \in Drainers : ShutDownWithDrain(d)
  <2>1. shuttingDown'
    BY <1>2 DEF ShutDown, ShutDownWithDrain
  <2>2. \A v \in Workers : pc'[v] # "wait"
    BY <1>1, <1>2, WorkQueueAssumption
       DEF ShutDown, ShutDownWithDrain, Broadcast, Resumed, Goroutines
  <2> QED BY <2>1, <2>2 DEF Wakeups, NoLostWakeup, DrainersShut
<1>3. CASE \E d \in Drainers : DrainLoop(d)
  <2>1. PICK d \in Drainers : DrainLoop(d)
    BY <1>3
  <2>2. /\ shuttingDown' = shuttingDown /\ queue' = queue
        /\ \A g \in Goroutines \ {d} : pc'[g] = pc[g]
        /\ shuttingDown
    BY <1>1, <2>1 DEF DrainLoop, PcOK, Wakeups, DrainersShut
  <2>3. \A v \in Workers : pc'[v] # "wait"
    BY <2>1, <2>2, WorkQueueAssumption DEF Wakeups, NoLostWakeup, Goroutines
  <2> QED BY <2>2, <2>3 DEF Wakeups, NoLostWakeup, DrainersShut
<1> QED BY <1>2, <1>3

\* No wake-up of Add, Done or ShutDown is lost on the workers, however many
\* they are and whichever goroutine Signal picks.
THEOREM WakeupsInvariant == Spec => []Wakeups
<1>1. Init => Wakeups
  BY WorkQueueAssumption DEF Init, Wakeups, NoLostWakeup, DrainersShut, Goroutines
<1>2. Books /\ Wakeups /\ [Next]_vars => Wakeups'
  <2> SUFFICES ASSUME Books, Wakeups, [Next]_vars PROVE Wakeups'
    OBVIOUS
  <2>1. CASE \E i \in Items : Add(i)
    BY <2>1, AddWakeups
  <2>2. CASE \E w \in Workers : Get(w) \/ Done(w)
    BY <2>2, GetWakeups, DoneWakeups
  <2>3. CASE ShutDown \/ \E d \in Drainers : ShutDownWithDrain(d) \/ DrainLoop(d)
    BY <2>3, ShutDownWakeups
  <2>4. CASE UNCHANGED vars
    BY <2>4 DEF vars, Wakeups, NoLostWakeup, DrainersShut
  <2> QED BY <2>1, <2>2, <2>3, <2>4 DEF Next
<1> QED BY <1>1, <1>2, BooksInvariant, PTL DEF Spec

\* While a worker is parked in Get, somebody is on the way to every queued
\* item.
THEOREM NoLostWakeupCorrect == Spec => []NoLostWakeup
<1>1. Wakeups => NoLostWakeup
  BY DEF Wakeups
<1> QED BY <1>1, WakeupsInvariant, PTL
-----------------------------------------------------------------------------
(* One caller of ShutDownWithDrain. *)

\* When there is one caller of ShutDownWithDrain it is never parked without a
\* cause: the Signal of the last Done reaches it, because no worker is parked
\* in a queue that is shutting down.
THEOREM DrainerHasCauseCorrect ==
  ASSUME \A d, e \in Drainers : d = e
  PROVE  Spec => []DrainerHasCause
<1>1. Init => DrainerHasCause
  BY WorkQueueAssumption DEF Init, DrainerHasCause, Goroutines
<1>2. Books /\ Wakeups /\ DrainerHasCause /\ [Next]_vars => DrainerHasCause'
  <2> SUFFICES ASSUME Books, Wakeups, DrainerHasCause, [Next]_vars,
                      NEW d \in Drainers, pc'[d] = "wait"
               PROVE  shuttingDown' /\ drain' /\ processing' # {}
    BY DEF DrainerHasCause
  <2>1. PcOK(pc) /\ d \in Goroutines /\ d \notin Workers
    BY WorkQueueAssumption DEF Books, TypeOK, PcOK, PCs, Goroutines
  <2>2. pc[d] = "wait" => shuttingDown /\ drain /\ processing # {}
    BY DEF DrainerHasCause
  <2>3. ASSUME NEW i \in Items, Add(i) PROVE FALSE
    <3>1. Woken(pc, pc')
      BY <2>1, <2>3, SignalWakes DEF Add, Woken
    <3>2. pc[d] = "wait"
      BY <2>1, <3>1, WokenIsReady
    <3> QED BY <2>2, <2>3, <3>2 DEF Add
  <2>4. ASSUME NEW w \in Workers, Get(w)
        PROVE  shuttingDown' /\ drain' /\ processing' # {}
    <3>1. pc'[d] = pc[d]
      BY <2>1, <2>4 DEF Get, GetWait, GetShutdown, GetItem, PcOK
    <3> QED BY <2>2, <2>4, <3>1 DEF Get, GetWait, GetShutdown, GetItem
  <2>5. ASSUME NEW w \in Workers, Done(w)
        PROVE  shuttingDown' /\ drain' /\ processing' # {}
    <3> DEFINE resumed == [pc EXCEPT ![w] = "get"]
    <3>1. PcOK(resumed) /\ resumed[d] = pc[d] /\ resumed[w] = "get"
          /\ \A v \in Workers \ {w} : resumed[v] = pc[v]
      BY <2>1, <2>5 DEF PcOK, PCs, Goroutines
    <3>2. pc' \in Signal(resumed) \/ (pc' = resumed /\ processing' # {})
      BY <2>5 DEF Done
    <3>3. shuttingDown' = shuttingDown /\ drain' = drain
      BY <2>5 DEF Done
    <3> HIDE DEF resumed
    <3>4. pc[d] = "wait"
      <4>1. Woken(resumed, pc')
        BY <3>1, <3>2, SignalWakes DEF Woken
      <4> QED BY <2>1, <3>1, <4>1, WokenIsReady
    <3>5. CASE pc' \in Signal(resumed)
      <4>1. \A v \in Workers : resumed[v] # "wait"
        BY <2>2, <3>1, <3>4 DEF Wakeups, NoLostWakeup
      <4>2. Waiting(resumed) = {d}
        BY <2>1, <3>1, <3>4, <4>1 DEF Waiting, Goroutines
      <4>3. pc' = [resumed EXCEPT ![d] = Resumed(d)]
        BY <3>5, <4>2 DEF Signal
      <4>4. pc'[d] = "drain"
        BY <2>1, <3>1, <4>3 DEF Resumed, PcOK
      <4> QED BY <4>4
    <3> QED BY <2>2, <3>2, <3>3, <3>4, <3>5
  <2>6. CASE ShutDown
    BY <2>1, <2>6, BroadcastWakes DEF ShutDown
  <2>7. ASSUME NEW e \in Drainers, ShutDownWithDrain(e)
        PROVE  shuttingDown' /\ drain' /\ processing' # {}
    <3>1. e = d /\ pc' = [Broadcast(pc) EXCEPT ![d] = DrainTest(TRUE)]
      BY <2>7 DEF ShutDownWithDrain
    <3>2. pc'[d] = DrainTest(TRUE)
      BY <2>1, <3>1 DEF Broadcast
    <3> QED BY <2>7, <3>2 DEF ShutDownWithDrain, DrainTest
  <2>8. ASSUME NEW e \in Drainers, DrainLoop(e)
        PROVE  shuttingDown' /\ drain' /\ processing' # {}
    <3>1. e = d /\ pc[d] = "drain" /\ pc' = [pc EXCEPT ![d] = DrainTest(drain)]
      BY <2>8 DEF DrainLoop
    <3>2. pc'[d] = DrainTest(drain)
      BY <2>1, <3>1 DEF PcOK
    <3>3. shuttingDown
      BY <3>1 DEF Wakeups, DrainersShut
    <3> QED BY <2>8, <3>2, <3>3 DEF DrainLoop, DrainTest
  <2>9. CASE UNCHANGED vars
    BY <2>2, <2>9 DEF vars
  <2> QED BY <2>3, <2>4, <2>5, <2>6, <2>7, <2>8, <2>9 DEF Next
<1> QED BY <1>1, <1>2, BooksInvariant, WakeupsInvariant, PTL DEF Spec

-----------------------------------------------------------------------------
(* Refinement. *)

\* The workers that left the abstract system.
Gone(p) == {w \in Workers : p[w] = "exit"}

\* Waking goroutines makes no worker exit.
LEMMA WokenNotGone ==
  ASSUME NEW p, NEW q, Woken(p, q)
  PROVE  Gone(q) = Gone(p)
BY DEF Woken, Gone, Resumed, Goroutines

\* The queue implements the promise of doc.go as WorkSet states it: every step
\* of a method is a step of WorkSet or changes nothing that WorkSet shows.
THEOREM Refinement == Spec => Abstract!Safety
<1>1. Init => Abstract!Init
  BY WorkQueueAssumption DEF Init, Abstract!Init, Goroutines
<1>2. Books /\ [Next]_vars => [Abstract!Next]_(Abstract!vars)
  <2> SUFFICES ASSUME Books, [Next]_vars
               PROVE  Abstract!Next \/ UNCHANGED Abstract!vars
    OBVIOUS
  <2>1. PcOK(pc) /\ processing = Abstract!InFlight
    BY DEF Books, TypeOK, PcOK, PCs, Stingy, Abstract!InFlight
  <2>2. ASSUME NEW i \in Items, Add(i) PROVE Abstract!Ask(i)
    <3>1. Woken(pc, pc')
      BY <2>1, <2>2, SignalWakes DEF Add, Woken
    <3>2. Gone(pc') = Gone(pc)
      BY <3>1, WokenNotGone
    <3> QED BY <2>2, <3>2 DEF Add, Abstract!Ask, Gone
  <2>3. ASSUME NEW w \in Workers, GetWait(w) PROVE UNCHANGED Abstract!vars
    <3>1. Gone(pc') = Gone(pc)
      BY <2>1, <2>3 DEF GetWait, Gone, PcOK, Goroutines
    <3> QED BY <2>3, <3>1 DEF GetWait, Abstract!vars, Gone
  <2>4. ASSUME NEW w \in Workers, GetShutdown(w) PROVE Abstract!Leave(w)
    <3>1. Gone(pc') = Gone(pc) \cup {w} /\ w \notin Gone(pc)
      BY <2>1, <2>4 DEF GetShutdown, Gone, PcOK, Goroutines
    <3>2. item[w] = NoItem
      BY <2>4 DEF GetShutdown, Books, Stingy
    <3>3. dirty \subseteq Abstract!InFlight
      BY <2>1, <2>4 DEF GetShutdown, Books, QueueIsDirtyNotProcessing, Range
    <3> QED BY <2>4, <3>1, <3>2, <3>3 DEF GetShutdown, Abstract!Leave, Gone
  <2>5. ASSUME NEW w \in Workers, GetItem(w)
        PROVE  \E i \in Items : Abstract!Take(w, i)
    <3> DEFINE h == Head(queue)
    <3>1. h \in Items /\ h \in Range(queue)
      BY <2>5, TailRange DEF GetItem, Books, TypeOK
    <3>2. h \in dirty \ Abstract!InFlight
      BY <2>1, <3>1 DEF Books, QueueIsDirtyNotProcessing
    <3>3. Gone(pc') = Gone(pc) /\ w \notin Gone(pc)
      BY <2>1, <2>5 DEF GetItem, Gone, PcOK, Goroutines
    <3>4. item[w] = NoItem
      BY <2>5 DEF GetItem, Books, Stingy
    <3>5. Abstract!Take(w, h)
      BY <2>5, <3>2, <3>3, <3>4 DEF GetItem, Abstract!Take, Gone
    <3> QED BY <3>1, <3>5
  <2>6. ASSUME NEW w \in Workers, Done(w) PROVE Abstract!Finish(w)
    <3> DEFINE resumed == [pc EXCEPT ![w] = "get"]
    <3>1. PcOK(resumed) /\ Gone(resumed) = Gone(pc)
      BY <2>1, <2>6, WorkQueueAssumption DEF Done, PcOK, PCs, Gone, Goroutines
    <3>2. pc' \in Signal(resumed) \/ pc' = resumed
      BY <2>6 DEF Done
    <3>3. item[w] # NoItem
      BY <2>6 DEF Done, Books, Stingy
    <3> HIDE DEF resumed
    <3>4. Gone(pc') = Gone(pc)
      BY <3>1, <3>2, SignalWakes, WokenNotGone
    <3> QED BY <2>6, <3>3, <3>4 DEF Done, Abstract!Finish, Gone
  <2>7. ASSUME ShutDown \/ \E d \in Drainers : ShutDownWithDrain(d)
        PROVE  Abstract!Close
    <3>1. Gone(pc') = Gone(pc)
      BY <2>1, <2>7, WorkQueueAssumption
         DEF ShutDown, ShutDownWithDrain, Broadcast, Resumed, Gone, Goroutines
    <3> QED BY <2>7, <3>1 DEF ShutDown, ShutDownWithDrain, Abstract!Close, Gone
  <2>8. ASSUME NEW d \in Drainers, DrainLoop(d) PROVE UNCHANGED Abstract!vars
    <3>1. Gone(pc') = Gone(pc)
      BY <2>1, <2>8, WorkQueueAssumption DEF DrainLoop, Gone, PcOK, Goroutines
    <3> QED BY <2>8, <3>1 DEF DrainLoop, Abstract!vars, Gone
  <2>9. CASE UNCHANGED vars
    BY <2>9 DEF vars, Abstract!vars
  <2> QED BY <2>2, <2>3, <2>4, <2>5, <2>6, <2>7, <2>8, <2>9
          DEF Next, Get, Abstract!Next
<1> QED BY <1>1, <1>2, BooksInvariant, PTL DEF Spec, Abstract!Safety

-----------------------------------------------------------------------------
(* The delaying queue *)

\* The clock of an iteration of the loop is not ahead of the time.
Clock == loopNow <= now

\* stopCh is closed by a ShutDown, after the embedded queue is shut down.
Closing ==
  /\ stopped => shuttingDown
  /\ \A s \in Stoppers : stopper[s] = "running" => shuttingDown

\* What is in the channel has yet to be honoured, apart from a second copy of a
\* request whose time has come.
InChannel == ~shuttingDown => \A r \in Range(ch) : r \in owed \/ r.readyAt <= now

\* An entry of the heap stands for a request that has yet to be honoured.
InHeap ==
  ~shuttingDown =>
    \A i \in Items : heap[i] # NoTime => [data |-> i, readyAt |-> heap[i]] \in owed

\* The inductive invariant: that of the embedded queue, and the parts above with
\* the two that they support.
Delayed ==
  /\ Books /\ DelayingTypeOK /\ Clock /\ Closing
  /\ InChannel /\ InHeap /\ NoRequestLost /\ TimerArmed

LEMMA TimeConstants ==
  /\ MaxTime \in Nat /\ NoTime = MaxTime + 1 /\ NoTime \notin Times
  /\ Times \subseteq Nat /\ \A t \in Times : t <= MaxTime
  /\ NoReq \notin Requests
  /\ ChanCap \in Nat
BY DelayingQueueAssumption DEF Times, NoTime, NoReq, Requests

\* The time of no entry is a number too.
LEMMA HeapNat ==
  ASSUME DelayingTypeOK
  PROVE  heap \in [Items -> Nat] /\ timer \in Nat /\ NoTime \in Nat
<1>1. NoTime \in Nat /\ Times \subseteq Nat
  BY TimeConstants
<1>2. Times \cup {NoTime} \subseteq Nat
  BY <1>1
<1>3. heap \in [Items -> Times \cup {NoTime}] /\ timer \in Times \cup {NoTime}
  BY DEF DelayingTypeOK
<1>4. DOMAIN heap = Items /\ heap = [i \in Items |-> heap[i]] /\ \A i \in Items : heap[i] \in Nat
  BY <1>2, <1>3
<1> QED BY <1>1, <1>2, <1>3, <1>4

\* The first request in the channel and the rest.
LEMMA ChannelHead ==
  ASSUME DelayingTypeOK, ch # <<>>
  PROVE  /\ Head(ch) \in Requests /\ Head(ch).data \in Items /\ Head(ch).readyAt \in Times
         /\ Tail(ch) \in Seq(Requests) /\ Len(Tail(ch)) <= ChanCap
         /\ Range(ch) = Range(Tail(ch)) \cup {Head(ch)}
         /\ Range(ch) \subseteq Requests
<1> DEFINE t == Tail(ch)
<1>1. ch \in Seq(Requests) /\ Len(ch) <= ChanCap
  BY DEF DelayingTypeOK
<1>2. /\ Head(ch) \in Requests /\ Head(ch) = ch[1]
      /\ t \in Seq(Requests) /\ Len(t) = Len(ch) - 1
      /\ \A n \in 1 .. Len(t) : t[n] = ch[n + 1]
  BY <1>1, HeadTailProperties
<1>3. Len(ch) \in Nat \ {0} /\ DOMAIN ch = 1 .. Len(ch) /\ DOMAIN t = 1 .. Len(ch) - 1
  BY <1>1, <1>2, LenProperties, EmptySeq
<1>4. ch \in [1 .. Len(ch) -> Requests]
  BY <1>1, LenProperties
<1> HIDE DEF t
<1>5. Range(ch) \subseteq Requests
  BY <1>3, <1>4 DEF Range
<1>6. Range(t) \cup {Head(ch)} \subseteq Range(ch)
  BY <1>2, <1>3 DEF Range
<1>7. ASSUME NEW n \in 1 .. Len(ch)
      PROVE  ch[n] \in Range(t) \cup {Head(ch)}
  <2>1. CASE n = 1
    BY <1>2, <2>1
  <2>2. CASE n # 1
    <3>1. n - 1 \in 1 .. Len(ch) - 1 /\ t[n - 1] = ch[n]
      BY <1>2, <1>3, <2>2
    <3> QED BY <1>3, <3>1 DEF Range
  <2> QED BY <2>1, <2>2
<1>8. Range(ch) \subseteq Range(t) \cup {Head(ch)}
  BY <1>3, <1>7 DEF Range
<1>9. Len(t) <= ChanCap
  BY <1>1, <1>2, <1>3, TimeConstants
<1>10. Head(ch).data \in Items /\ Head(ch).readyAt \in Times
  BY <1>2 DEF Requests
<1> QED BY <1>2, <1>5, <1>6, <1>8, <1>9, <1>10 DEF t

-----------------------------------------------------------------------------
(* The embedded queue *)

\* What the users, waitingLoop and ShutDown do to the embedded queue are steps of
\* WorkQueue.
LEMMA StepsOfQueue ==
  ASSUME DelayingTypeOK, [DelayingNext]_allVars
  PROVE  [Next]_vars
<1>1. ASSUME NEW i \in Items, AddOrIgnore(i)
      PROVE  [Next]_vars
  BY <1>1 DEF AddOrIgnore, Next
<1>2. CASE BaseStep
  BY <1>2 DEF BaseStep, Next
<1>3. CASE \E i \in Items : AddReady(i)
  BY <1>1, <1>3 DEF AddReady
<1>4. CASE Receive
  BY <1>1, <1>4, ChannelHead DEF Receive
<1>5. CASE \E s \in Stoppers : StopFirst(s)
  BY <1>5 DEF StopFirst, Next
<1>6. CASE \/ \E c \in Callers : \/ \E i \in Items, d \in Delays : AddAfter(c, i, d)
                                 \/ AddAfterSend(c) \/ AddAfterStop(c)
           \/ LoopTop \/ SetTimer \/ SelectStop \/ Heartbeat \/ TimerFires \/ Drained
           \/ \E s \in Stoppers : StopClose(s) \/ StopHeartbeat(s)
           \/ Tick \/ UNCHANGED allVars
  <2>1. UNCHANGED vars
    BY <1>6 DEF AddAfter, AddAfterSend, AddAfterStop, LoopTop, SetTimer, SelectStop,
       Heartbeat, TimerFires, Drained, StopClose, StopHeartbeat, Tick, allVars
  <2> QED BY <2>1
<1> QED BY <1>2, <1>3, <1>4, <1>5, <1>6 DEF DelayingNext, WaitingLoop

\* A queue that is shutting down stays so.
LEMMA ShutDownStays ==
  ASSUME [Next]_vars, shuttingDown
  PROVE  shuttingDown'
BY DEF Next, Add, Get, GetWait, GetShutdown, GetItem, Done, ShutDown, ShutDownWithDrain,
   DrainLoop, vars

-----------------------------------------------------------------------------
(* Types *)

LEMMA NextKeepsTypes ==
  ASSUME Delayed, Books', [DelayingNext]_allVars
  PROVE  DelayingTypeOK'
<1> USE TimeConstants DEF Delayed
<1>1. TypeOK'
  BY DEF Books
<1>2. /\ now \in Times /\ ch \in Seq(Requests) /\ Len(ch) <= ChanCap
      /\ heap \in [Items -> Times \cup {NoTime}] /\ loopNow \in Times
      /\ timer \in Times \cup {NoTime} /\ stopped \in BOOLEAN
      /\ caller \in [Callers -> Requests \cup {NoReq}]
      /\ stopper \in [Stoppers -> {"idle", "running", "blocked", "done"}]
      /\ owed \subseteq Requests
      /\ once \in {"new", "running", "done"}
      /\ loop \in {"top", "ready", "select", "drain", "exit"}
  BY DEF DelayingTypeOK
<1>3. 0 \in Times
  BY DEF Times
<1>4. [i \in Items |-> NoTime] \in [Items -> Times \cup {NoTime}]
  OBVIOUS
<1>5. CASE BaseStep
  BY <1>1, <1>2, <1>5 DEF BaseStep, localVars, Owe, DelayingTypeOK
<1>6. ASSUME NEW c \in Callers, NEW i \in Items, NEW d \in Delays, AddAfter(c, i, d)
      PROVE  DelayingTypeOK'
  <2>1. now + d \in Times
    BY <1>2, <1>6, DelayingQueueAssumption DEF AddAfter, Times
  <2>2. [data |-> i, readyAt |-> now + d] \in Requests
    BY <2>1 DEF Requests
  <2> QED BY <1>1, <1>2, <1>6, <2>2 DEF AddAfter, loopVars, DelayingTypeOK
<1>7. ASSUME NEW c \in Callers, AddAfterSend(c)
      PROVE  DelayingTypeOK'
  <2>1. caller[c] \in Requests
    BY <1>2, <1>7 DEF AddAfterSend
  <2>2. ch' \in Seq(Requests) /\ Len(ch') = Len(ch) + 1 /\ Len(ch) \in Nat
    BY <1>2, <1>7, <2>1, AppendProperties, LenProperties DEF AddAfterSend
  <2>3. Len(ch') <= ChanCap
    BY <1>7, <2>2 DEF AddAfterSend
  <2>4. caller' \in [Callers -> Requests \cup {NoReq}] /\ owed' \subseteq Requests
    BY <1>2, <1>7, <2>1 DEF AddAfterSend, Owe
  <2> QED BY <1>1, <1>2, <1>7, <2>2, <2>3, <2>4 DEF AddAfterSend, loopVars, DelayingTypeOK
<1>8. ASSUME NEW c \in Callers, AddAfterStop(c)
      PROVE  DelayingTypeOK'
  BY <1>1, <1>2, <1>8 DEF AddAfterStop, loopVars, DelayingTypeOK
<1>9. CASE LoopTop \/ SelectStop
  BY <1>1, <1>2, <1>3, <1>4, <1>9 DEF LoopTop, SelectStop, LoopReturns, DelayingTypeOK
<1>10. ASSUME NEW i \in Items, AddReady(i)
       PROVE  DelayingTypeOK'
  BY <1>1, <1>2, <1>10 DEF AddReady, DelayingTypeOK
<1>11. CASE SetTimer
  <2>1. timer' \in Times \cup {NoTime}
    <3>1. CASE timer' = NoTime
      BY <3>1
    <3>2. ASSUME NEW i \in Items, heap[i] > loopNow, now + (heap[i] - loopNow) <= MaxTime,
                 timer' = now + (heap[i] - loopNow)
          PROVE  timer' \in Times
      BY <1>2, <3>2 DEF Times
    <3> QED BY <1>11, <3>1, <3>2 DEF SetTimer, Peek
  <2> QED BY <1>1, <1>2, <1>11, <2>1 DEF SetTimer, DelayingTypeOK
<1>12. CASE Heartbeat \/ TimerFires \/ Drained
  BY <1>1, <1>2, <1>3, <1>12 DEF Heartbeat, TimerFires, Drained, NextIteration, DelayingTypeOK
<1>13. CASE Receive
  <2>1. ch # <<>> /\ ch' = Tail(ch) /\ NextIteration("drain")
        /\ UNCHANGED <<now, stopped, once, caller, stopper>>
    BY <1>13 DEF Receive
  <2>2. ch' \in Seq(Requests) /\ Len(ch') <= ChanCap /\ Head(ch).data \in Items
        /\ Head(ch).readyAt \in Times
    BY <2>1, ChannelHead
  <2>3. heap' \in [Items -> Times \cup {NoTime}] /\ owed' \subseteq Requests
    BY <1>2, <1>13, <2>2 DEF Receive, Insert
  <2> QED BY <1>1, <1>2, <1>3, <2>1, <2>2, <2>3 DEF NextIteration, DelayingTypeOK
<1>14. ASSUME NEW s \in Stoppers, StopFirst(s) \/ StopClose(s) \/ StopHeartbeat(s)
       PROVE  DelayingTypeOK'
  BY <1>1, <1>2, <1>14 DEF StopFirst, StopClose, StopHeartbeat, Owe, loopVars, DelayingTypeOK
<1>15. CASE Tick
  <2>1. now' \in Times
    BY <1>2, <1>15 DEF Tick, Times
  <2> QED BY <1>1, <1>2, <1>15, <2>1 DEF Tick, loopVars, DelayingTypeOK
<1>16. CASE UNCHANGED allVars
  BY <1>1, <1>2, <1>16 DEF allVars, dvars, localVars, DelayingTypeOK
<1> QED
  BY <1>5, <1>6, <1>7, <1>8, <1>9, <1>10, <1>11, <1>12, <1>13, <1>14, <1>15, <1>16
     DEF DelayingNext, WaitingLoop

-----------------------------------------------------------------------------
(* The clock and the end *)

\* An iteration reads the clock, which only goes forward.
LEMMA NextKeepsClock ==
  ASSUME Delayed, DelayingTypeOK', [DelayingNext]_allVars
  PROVE  Clock'
<1> USE TimeConstants
<1>1. now \in Nat /\ loopNow \in Nat /\ loopNow <= now
  BY DEF Delayed, DelayingTypeOK, Clock
<1>2. \/ loopNow' \in {0, now} /\ now' = now
      \/ loopNow' = loopNow /\ now' \in {now, now + 1}
  BY DEF DelayingNext, BaseStep, AddAfter, AddAfterSend, AddAfterStop, WaitingLoop, LoopTop,
     LoopReturns, NextIteration, AddReady, SetTimer, SelectStop, Heartbeat, TimerFires,
     Receive, Drained, StopFirst, StopClose, StopHeartbeat, Tick, loopVars, localVars,
     dvars, allVars
<1> QED BY <1>1, <1>2 DEF Clock

\* stopCh is closed in the course of a ShutDown.
LEMMA NextKeepsClosing ==
  ASSUME Delayed, [DelayingNext]_allVars
  PROVE  Closing'
<1>1. shuttingDown => shuttingDown'
  BY StepsOfQueue, ShutDownStays DEF Delayed
<1>2. stopper \in [Stoppers -> {"idle", "running", "blocked", "done"}] /\ Closing
  BY DEF Delayed, DelayingTypeOK
<1>3. CASE UNCHANGED <<stopped, stopper>>
  BY <1>1, <1>2, <1>3 DEF Closing
<1>4. ASSUME NEW s \in Stoppers, StopFirst(s) \/ StopClose(s) \/ StopHeartbeat(s)
      PROVE  Closing'
  BY <1>1, <1>2, <1>4 DEF StopFirst, StopClose, StopHeartbeat, ShutDown, Closing
<1> QED
  BY <1>3, <1>4 DEF DelayingNext, BaseStep, AddAfter, AddAfterSend, AddAfterStop,
     WaitingLoop, LoopTop, AddReady, SetTimer, SelectStop, Heartbeat, TimerFires, Receive,
     Drained, Tick, localVars, dvars, allVars

-----------------------------------------------------------------------------
(* The channel, the heap and what is owed *)

\* The steps that say nothing to the loop: the channel and the heap stay, and so
\* does what is owed unless the queue shuts down.
Aside ==
  /\ UNCHANGED <<ch, heap>>
  /\ now <= now'
  /\ owed' = owed \/ (owed' = {} /\ shuttingDown')

\* waitingLoop returns when the queue is shutting down.
Returning == LoopReturns /\ shuttingDown /\ shuttingDown' /\ UNCHANGED ch

\* The steps as the channel, the heap and the debts see them.
LEMMA StepCases ==
  ASSUME Delayed, [DelayingNext]_allVars
  PROVE  \/ \E c \in Callers : AddAfterSend(c)
         \/ \E i \in Items : AddReady(i)
         \/ Receive
         \/ Returning
         \/ Aside
<1>1. now \in Nat /\ now <= now /\ now <= now + 1
  BY TimeConstants DEF Delayed, DelayingTypeOK
<1>2. CASE BaseStep
  BY <1>1, <1>2 DEF BaseStep, Owe, localVars, Aside
<1>3. CASE \E c \in Callers : \/ \E i \in Items, d \in Delays : AddAfter(c, i, d)
                              \/ AddAfterStop(c)
  BY <1>1, <1>3 DEF AddAfter, AddAfterStop, loopVars, Aside
<1>4. CASE LoopTop
  BY <1>1, <1>4 DEF LoopTop, vars, Returning, Aside
<1>5. CASE SelectStop
  BY <1>5 DEF SelectStop, vars, Returning, Delayed, Closing
<1>6. CASE SetTimer \/ Heartbeat \/ TimerFires \/ Drained
  BY <1>1, <1>6 DEF SetTimer, Heartbeat, TimerFires, Drained, Aside
<1>7. CASE \E s \in Stoppers : StopFirst(s) \/ StopClose(s) \/ StopHeartbeat(s)
  BY <1>1, <1>7 DEF StopFirst, StopClose, StopHeartbeat, Owe, loopVars, Aside
<1>8. CASE Tick
  BY <1>1, <1>8 DEF Tick, loopVars, Aside
<1>9. CASE UNCHANGED allVars
  BY <1>1, <1>9 DEF allVars, dvars, localVars, Aside
<1> QED
  BY <1>2, <1>3, <1>4, <1>5, <1>6, <1>7, <1>8, <1>9 DEF DelayingNext, WaitingLoop

\* The queue was not shutting down if it is not after the step.
LEMMA OpenBefore ==
  ASSUME Delayed, [DelayingNext]_allVars, ~shuttingDown'
  PROVE  ~shuttingDown
BY StepsOfQueue, ShutDownStays DEF Delayed

\* A request that is sent is owed; one that is settled was taken out of the
\* channel, or stays there only as a second copy whose time has come.
LEMMA NextKeepsInChannel ==
  ASSUME Delayed, DelayingTypeOK', [DelayingNext]_allVars
  PROVE  InChannel'
<1> SUFFICES ASSUME ~shuttingDown', NEW r \in Range(ch')
             PROVE  r \in owed' \/ r.readyAt <= now'
  BY DEF InChannel
<1>1. \A q \in Range(ch) : q \in owed \/ q.readyAt <= now
  BY OpenBefore DEF Delayed, InChannel
<1>2. /\ ch \in Seq(Requests) /\ now \in Nat /\ now' \in Nat
      /\ caller \in [Callers -> Requests \cup {NoReq}]
  BY TimeConstants DEF Delayed, DelayingTypeOK
<1>3. \A q \in Requests : q.readyAt \in Nat
  BY TimeConstants DEF Requests
<1>4. ch # <<>> => Range(ch) = Range(Tail(ch)) \cup {Head(ch)}
  BY ChannelHead DEF Delayed
<1>5. Range(ch) \subseteq Requests
  <2>1. ch \in [1 .. Len(ch) -> Requests]
    BY <1>2, LenProperties
  <2> QED BY <2>1 DEF Range
<1>6. ASSUME NEW c \in Callers, AddAfterSend(c)
      PROVE  r \in owed' \/ r.readyAt <= now'
  <2>1. caller[c] \in Requests
    BY <1>2, <1>6 DEF AddAfterSend
  <2>2. Range(ch') = Range(ch) \cup {caller[c]}
    BY <1>2, <1>6, <2>1, AppendRange DEF AddAfterSend
  <2>3. owed' = owed \cup {caller[c]} /\ now' = now
    BY <1>6 DEF AddAfterSend, Owe
  <2> QED BY <1>1, <2>2, <2>3
<1>7. ASSUME NEW i \in Items, AddReady(i)
      PROVE  r \in owed' \/ r.readyAt <= now'
  BY <1>1, <1>7 DEF AddReady, Received
<1>8. CASE Receive
  <2>1. r \in Range(ch) /\ now' = now
    BY <1>4, <1>8 DEF Receive
  <2>2. r \in owed => r \in owed' \/ (r = Head(ch) /\ Head(ch).readyAt <= now)
    BY <1>8 DEF Receive
  <2> QED BY <1>1, <2>1, <2>2
<1>9. CASE Returning
  BY <1>9 DEF Returning
<1>10. CASE Aside
  <2>1. r \in Range(ch) /\ owed' = owed /\ now <= now'
    BY <1>10 DEF Aside
  <2> QED BY <1>1, <1>2, <1>3, <1>5, <2>1
<1> QED BY <1>6, <1>7, <1>8, <1>9, <1>10, StepCases

\* insert puts a request in the heap that is owed still, its time being to come;
\* the heap's entry is settled when it is popped.
LEMMA NextKeepsInHeap ==
  ASSUME Delayed, [DelayingNext]_allVars
  PROVE  InHeap'
<1> USE TimeConstants
<1> SUFFICES ASSUME ~shuttingDown', NEW i \in Items, heap'[i] # NoTime
             PROVE  [data |-> i, readyAt |-> heap'[i]] \in owed'
  BY DEF InHeap
<1>1. heap[i] # NoTime => [data |-> i, readyAt |-> heap[i]] \in owed
  BY OpenBefore DEF Delayed, InHeap
<1>2. heap \in [Items -> Times \cup {NoTime}]
  BY DEF Delayed, DelayingTypeOK
<1>3. ASSUME NEW c \in Callers, AddAfterSend(c)
      PROVE  [data |-> i, readyAt |-> heap'[i]] \in owed'
  BY <1>1, <1>3 DEF AddAfterSend, loopVars, Owe
<1>4. ASSUME NEW j \in Items, AddReady(j)
      PROVE  [data |-> i, readyAt |-> heap'[i]] \in owed'
  <2>1. i # j /\ heap'[i] = heap[i]
    BY <1>2, <1>4 DEF AddReady
  <2>2. [data |-> i, readyAt |-> heap[i]] \notin Received(j)
    BY <2>1 DEF Received
  <2> QED BY <1>1, <1>4, <2>1, <2>2 DEF AddReady
<1>5. CASE Receive
  <2> DEFINE r == Head(ch)
  <2>1. ch # <<>> /\ r \in Requests /\ r \in Range(ch) /\ r.data \in Items /\ r.readyAt \in Times
    BY <1>5, ChannelHead DEF Receive, Delayed
  <2>2. r = [data |-> r.data, readyAt |-> r.readyAt]
    BY <2>1 DEF Requests
  <2> HIDE DEF r
  <2>3. CASE r.readyAt > now /\ heap' = Insert(heap, r) /\ owed' = owed
    <3>1. r \in owed
      <4>1. now \in Nat /\ r.readyAt \in Nat
        BY <2>1 DEF Delayed, DelayingTypeOK
      <4>2. r \in owed \/ r.readyAt <= now
        BY <2>1, OpenBefore DEF Delayed, InChannel
      <4> QED BY <2>3, <4>1, <4>2
    <3>2. heap'[i] = heap[i] \/ (i = r.data /\ heap'[i] = r.readyAt)
      BY <1>2, <2>1, <2>3 DEF Insert
    <3> QED BY <1>1, <2>2, <2>3, <3>1, <3>2
  <2>4. CASE heap' = heap /\ owed' = IF heap[r.data] = r.readyAt THEN owed ELSE owed \ {r}
    <3>1. r = [data |-> i, readyAt |-> heap[i]] => heap[r.data] = r.readyAt
      OBVIOUS
    <3> QED BY <1>1, <2>4, <3>1
  <2> QED BY <1>5, <2>3, <2>4 DEF Receive, r
<1>6. CASE Returning
  BY <1>6 DEF Returning
<1>7. CASE Aside
  BY <1>1, <1>7 DEF Aside
<1> QED BY <1>3, <1>4, <1>5, <1>6, <1>7, StepCases

\* A request that leaves the channel is settled or lowers the entry of its item to
\* its time at most; an entry that leaves the heap settles all it stands for.
LEMMA NextKeepsNoRequestLost ==
  ASSUME Delayed, [DelayingNext]_allVars
  PROVE  NoRequestLost'
<1> USE TimeConstants
<1> SUFFICES ASSUME NEW r \in owed'
             PROVE  r \in Range(ch') \/ heap'[r.data] <= r.readyAt
  BY DEF NoRequestLost
<1>1. \A q \in owed : q \in Range(ch) \/ heap[q.data] <= q.readyAt
  BY DEF Delayed, NoRequestLost
<1>2. /\ heap \in [Items -> Times \cup {NoTime}] /\ ch \in Seq(Requests)
      /\ owed \subseteq Requests /\ caller \in [Callers -> Requests \cup {NoReq}]
  BY DEF Delayed, DelayingTypeOK
<1>3. ASSUME NEW c \in Callers, AddAfterSend(c)
      PROVE  r \in Range(ch') \/ heap'[r.data] <= r.readyAt
  <2>1. caller[c] \in Requests
    BY <1>2, <1>3 DEF AddAfterSend
  <2>2. Range(ch') = Range(ch) \cup {caller[c]}
    BY <1>2, <1>3, <2>1, AppendRange DEF AddAfterSend
  <2>3. heap' = heap /\ r \in owed \cup {caller[c]}
    BY <1>3 DEF AddAfterSend, loopVars, Owe
  <2> QED BY <1>1, <2>2, <2>3
<1>4. ASSUME NEW j \in Items, AddReady(j)
      PROVE  r \in Range(ch') \/ heap'[r.data] <= r.readyAt
  <2>1. ch' = ch /\ r \in owed /\ r \notin Received(j)
    BY <1>4 DEF AddReady
  <2>2. CASE r.data = j
    BY <2>1, <2>2 DEF Received
  <2>3. CASE r.data # j
    <3>1. r.data \in Items
      BY <1>2, <2>1 DEF Requests
    <3>2. heap'[r.data] = heap[r.data]
      BY <1>2, <1>4, <2>3, <3>1 DEF AddReady
    <3> QED BY <1>1, <2>1, <3>2
  <2> QED BY <2>2, <2>3
<1>5. CASE Receive
  <2> DEFINE h == Head(ch)
  <2>1. /\ ch # <<>> /\ h \in Requests /\ h.data \in Items /\ h.readyAt \in Times
        /\ Range(ch) = Range(Tail(ch)) \cup {h} /\ ch' = Tail(ch)
    BY <1>5, ChannelHead DEF Receive, Delayed
  <2> HIDE DEF h
  <2>2. r \in owed
    BY <1>5 DEF Receive
  <2>3. r.data \in Items /\ r.readyAt \in Times
    BY <1>2, <2>2 DEF Requests
  <2>4. /\ h.readyAt \in Nat /\ r.readyAt \in Nat /\ NoTime \in Nat
        /\ h.readyAt <= MaxTime /\ heap \in [Items -> Nat]
    BY <2>1, <2>3, HeapNat DEF Delayed
  <2>5. r \in Range(ch') \/ r = h \/ heap[r.data] <= r.readyAt
    BY <1>1, <2>1, <2>2
  <2>6. CASE h.readyAt > now /\ heap' = Insert(heap, h)
    <3>1. heap'[h.data] <= h.readyAt
      BY <2>1, <2>6, <2>4 DEF Insert
    <3>2. heap[r.data] <= r.readyAt => heap'[r.data] <= r.readyAt
      BY <2>1, <2>3, <2>6, <2>4 DEF Insert
    <3> QED BY <2>5, <3>1, <3>2
  <2>7. CASE heap' = heap /\ owed' = IF heap[h.data] = h.readyAt THEN owed ELSE owed \ {h}
    <3>1. r = h => heap[h.data] = h.readyAt
      BY <2>7
    <3>2. heap[h.data] = h.readyAt => heap[h.data] <= h.readyAt
      BY <2>4
    <3> QED BY <2>5, <2>7, <3>1, <3>2
  <2> QED BY <1>5, <2>6, <2>7 DEF Receive, h
<1>6. CASE Returning
  BY <1>6 DEF Returning, LoopReturns
<1>7. CASE Aside
  BY <1>1, <1>7 DEF Aside
<1> QED BY <1>3, <1>4, <1>5, <1>6, <1>7, StepCases

-----------------------------------------------------------------------------
(* The timer *)

\* The timer is armed for the entry with the smallest time, as late as the loop is;
\* while the loop is in its select only the time changes.
LEMMA NextKeepsTimerArmed ==
  ASSUME Delayed, DelayingTypeOK', [DelayingNext]_allVars
  PROVE  TimerArmed'
<1> USE TimeConstants
<1> SUFFICES ASSUME loop' = "select", NEW i \in Items, heap'[i] < MaxTime
             PROVE  timer' <= heap'[i] + (now' - loopNow')
  BY DEF TimerArmed
<1>1. /\ now \in Nat /\ now' \in Nat /\ loopNow \in Nat /\ loopNow <= now
      /\ heap \in [Items -> Times \cup {NoTime}] /\ heap \in [Items -> Nat]
      /\ timer \in Nat /\ NoTime \in Nat
  BY HeapNat DEF Delayed, DelayingTypeOK, Clock
<1>2. CASE SetTimer
  <2>1. heap' = heap /\ now' = now /\ loopNow' = loopNow /\ heap[i] > loopNow
    BY <1>2 DEF SetTimer
  <2>2. heap[i] \in Nat /\ heap[i] < MaxTime /\ heap[i] # NoTime
    BY <1>1, <2>1
  <2>3. PICK j \in Items : /\ Peek(j)
                           /\ timer' = IF now + (heap[j] - loopNow) <= MaxTime
                                       THEN now + (heap[j] - loopNow) ELSE NoTime
    BY <1>2, <2>2 DEF SetTimer
  <2>4. heap[j] \in Nat /\ heap[j] <= heap[i]
    BY <1>1, <2>3 DEF Peek
  <2>5. CASE now + (heap[j] - loopNow) <= MaxTime
    BY <1>1, <2>1, <2>2, <2>3, <2>4, <2>5
  <2>6. CASE ~(now + (heap[j] - loopNow) <= MaxTime)
    <3>1. timer' = MaxTime + 1
      BY <2>3, <2>6
    <3>2. now + (heap[j] - loopNow) >= MaxTime + 1
      BY <1>1, <2>4, <2>6
    <3> QED BY <1>1, <2>1, <2>2, <2>4, <3>1, <3>2
  <2> QED BY <2>5, <2>6
<1>3. ASSUME UNCHANGED loopVars, now' \in {now, now + 1}
      PROVE  timer' <= heap'[i] + (now' - loopNow')
  <2>1. timer <= heap[i] + (now - loopNow) /\ heap[i] \in Nat
    BY <1>1, <1>3 DEF Delayed, TimerArmed, loopVars
  <2> QED BY <1>1, <1>3, <2>1 DEF loopVars
<1>4. CASE UNCHANGED loopVars /\ now' \in {now, now + 1}
  BY <1>3, <1>4
<1> QED
  BY <1>2, <1>4 DEF DelayingNext, BaseStep, AddAfter, AddAfterSend, AddAfterStop,
     WaitingLoop, LoopTop, LoopReturns, NextIteration, AddReady, SelectStop, Heartbeat,
     TimerFires, Receive, Drained, StopFirst, StopClose, StopHeartbeat, Tick, loopVars,
     localVars, dvars, allVars

-----------------------------------------------------------------------------
(* The results *)

LEMMA InitDelayed == DelayingInit => Delayed
<1> SUFFICES ASSUME DelayingInit PROVE Delayed
  OBVIOUS
<1> USE TimeConstants DEF DelayingInit
<1>1. Books /\ TypeOK
  BY InitBooks DEF Books
<1>2. ch \in Seq(Requests) /\ Len(ch) = 0 /\ Range(ch) = {}
  BY DEF Range
<1>3. 0 \in Times
  BY DEF Times
<1>4. DelayingTypeOK
  <2>1. /\ heap \in [Items -> Times \cup {NoTime}]
        /\ caller \in [Callers -> Requests \cup {NoReq}]
        /\ stopper \in [Stoppers -> {"idle", "running", "blocked", "done"}]
    OBVIOUS
  <2>2. now \in Times /\ loopNow \in Times /\ Len(ch) <= ChanCap
    BY <1>2, <1>3
  <2> QED BY <1>1, <1>2, <2>1, <2>2 DEF DelayingTypeOK
<1>5. Clock /\ Closing /\ InChannel /\ InHeap /\ NoRequestLost /\ TimerArmed
  BY <1>2 DEF Clock, Closing, InChannel, InHeap, NoRequestLost, TimerArmed
<1> QED BY <1>1, <1>4, <1>5 DEF Delayed

\* Everything that Delayed says together is kept by every step.
THEOREM DelayedCorrect == DelayingSpec => []Delayed
<1>1. Delayed /\ [DelayingNext]_allVars => Delayed'
  <2> SUFFICES ASSUME Delayed, [DelayingNext]_allVars PROVE Delayed'
    OBVIOUS
  <2>1. Books'
    BY StepsOfQueue, NextBooks DEF Delayed
  <2>2. DelayingTypeOK'
    BY <2>1, NextKeepsTypes
  <2> QED
    BY <2>1, <2>2, NextKeepsClock, NextKeepsClosing, NextKeepsInChannel, NextKeepsInHeap,
       NextKeepsNoRequestLost, NextKeepsTimerArmed DEF Delayed
<1> QED BY <1>1, InitDelayed, PTL DEF DelayingSpec

\* Every variable of the delaying queue keeps its type; the channel never holds more
\* than its capacity.
THEOREM DelayingTypeCorrect == DelayingSpec => []DelayingTypeOK
<1>1. Delayed => DelayingTypeOK
  BY DEF Delayed
<1> QED BY <1>1, DelayedCorrect, PTL

\* waitingLoop, AddAfter and ShutDown use the embedded queue only as its methods
\* allow: what is proved of WorkQueue holds of the queue inside a delaying queue.
THEOREM DelayingUsesQueue == DelayingSpec => Spec
<1>1. DelayingInit => Init
  BY DEF DelayingInit
<1>2. DelayingTypeOK /\ [DelayingNext]_allVars => [Next]_vars
  BY StepsOfQueue
<1> QED BY <1>1, <1>2, DelayingTypeCorrect, PTL DEF DelayingSpec, Spec

\* No request accepted by AddAfter is forgotten before the queue shuts down: it is in
\* the channel, or the heap will release its item no later than asked.
THEOREM NoRequestLostCorrect == DelayingSpec => []NoRequestLost
<1>1. Delayed => NoRequestLost
  BY DEF Delayed
<1> QED BY <1>1, DelayedCorrect, PTL

\* In its select the loop sleeps past the first entry's time by no more than it lost
\* between reading the clock and arming the timer.
THEOREM TimerArmedCorrect == DelayingSpec => []TimerArmed
<1>1. Delayed => TimerArmed
  BY DEF Delayed
<1> QED BY <1>1, DelayedCorrect, PTL

\* No item leaves the heap before the delay of a request for it has passed that is
\* still owed: requests for one item that overlap never release it early.
THEOREM NeverEarlyCorrect == DelayingSpec => NeverEarly
<1> DEFINE Early(i) == heap[i] # NoTime /\ heap'[i] = NoTime /\ ~shuttingDown
<1>1. Delayed /\ [DelayingNext]_allVars =>
        \/ \A i \in Items : Early(i) => \E r \in owed : r.data = i /\ r.readyAt <= now
        \/ UNCHANGED allVars
  <2> USE TimeConstants
  <2> SUFFICES ASSUME Delayed, [DelayingNext]_allVars, NEW i \in Items, Early(i)
               PROVE  \E r \in owed : r.data = i /\ r.readyAt <= now
    OBVIOUS
  <2>1. /\ heap \in [Items -> Times \cup {NoTime}] /\ heap \in [Items -> Nat]
        /\ now \in Nat /\ loopNow \in Nat /\ loopNow <= now
    BY HeapNat DEF Delayed, DelayingTypeOK, Clock
  <2>2. heap[i] <= loopNow
    <3>1. ASSUME NEW c \in Callers, AddAfterSend(c)
          PROVE  heap' = heap
      BY <3>1 DEF AddAfterSend, loopVars
    <3>2. ASSUME NEW j \in Items, AddReady(j)
          PROVE  heap[i] <= loopNow
      BY <2>1, <3>2 DEF AddReady
    <3>3. CASE Receive
      <4>1. ch # <<>> /\ Head(ch).data \in Items /\ Head(ch).readyAt \in Times
        BY <3>3, ChannelHead DEF Receive, Delayed
      <4>2. heap'[i] # NoTime
        BY <2>1, <3>3, <4>1 DEF Receive, Insert
      <4> QED BY <4>2
    <3>4. Returning => shuttingDown
      BY DEF Returning
    <3>5. Aside => heap' = heap
      BY DEF Aside
    <3> QED BY <3>1, <3>2, <3>3, <3>4, <3>5, StepCases
  <2>3. [data |-> i, readyAt |-> heap[i]] \in owed
    BY DEF Delayed, InHeap
  <2>4. heap[i] <= now
    BY <2>1, <2>2
  <2> QED BY <2>3, <2>4
<1> QED BY <1>1, DelayedCorrect, PTL DEF DelayingSpec, NeverEarly
=============================================================================
