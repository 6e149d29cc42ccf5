----------------------------- MODULE WorkQueue -----------------------------
(***************************************************************************)
(* The work queue of src/util/workqueue/queue.go (type Type): a slice of   *)
(* items in the order they will be handed out, the set of items that need  *)
(* processing, the set of items being processed, and one condition         *)
(* variable on which both Get and ShutDownWithDrain wait.                  *)
(*                                                                         *)
(* Every method body runs under q.cond.L, so a method is one step, except  *)
(* where cond.Wait releases the lock: a goroutine that finds its condition *)
(* false is parked (pc = "wait"), and after Signal or Broadcast it has to  *)
(* take the lock again and re-test its condition (pc = "get" or "drain").  *)
(* Signal wakes one parked goroutine, whichever it is.                     *)
(***************************************************************************)
EXTENDS Naturals, Sequences, FiniteSets, Functions

CONSTANTS Items,     \* the items producers may add
          Workers,   \* goroutines that loop over Get, work, Done
          Drainers,  \* goroutines that call ShutDownWithDrain, once each
          NoItem     \* a worker that holds no item

ASSUME WorkQueueAssumption ==
  /\ NoItem \notin Items
  /\ Workers \cap Drainers = {}
  /\ IsFiniteSet(Workers)

VARIABLES queue,         \* Type.queue
          dirty,         \* Type.dirty
          processing,    \* Type.processing
          shuttingDown,  \* Type.shuttingDown
          drain,         \* Type.drain
          pc,            \* where each goroutine is
          item           \* item[w] is what Get returned to worker w

qvars == <<queue, dirty, processing, shuttingDown, drain>>
vars == <<queue, dirty, processing, shuttingDown, drain, pc, item>>

Goroutines == Workers \cup Drainers

TypeOK ==
  /\ queue \in Seq(Items)
  /\ dirty \subseteq Items
  /\ processing \subseteq Items
  /\ shuttingDown \in BOOLEAN
  /\ drain \in BOOLEAN
  /\ pc \in [Goroutines -> {"get", "work", "exit", "idle", "drain", "returned", "wait"}]
  /\ \A w \in Workers : pc[w] \in {"get", "wait", "work", "exit"}
  /\ \A d \in Drainers : pc[d] \in {"idle", "wait", "drain", "returned"}
  /\ item \in [Workers -> Items \cup {NoItem}]

-----------------------------------------------------------------------------
(* sync.Cond *)

Waiting(p) == {g \in Goroutines : p[g] = "wait"}

\* Where a goroutine continues once it is woken: at the test of its loop.
Resumed(g) == IF g \in Workers THEN "get" ELSE "drain"

Signal(p) ==
  IF Waiting(p) = {} THEN {p}
  ELSE {[p EXCEPT ![g] = Resumed(g)] : g \in Waiting(p)}

Broadcast(p) ==
  [g \in Goroutines |-> IF p[g] = "wait" THEN Resumed(g) ELSE p[g]]

-----------------------------------------------------------------------------
Init ==
  /\ queue = <<>>
  /\ dirty = {}
  /\ processing = {}
  /\ shuttingDown = FALSE
  /\ drain = FALSE
  /\ pc = [g \in Goroutines |-> IF g \in Workers THEN "get" ELSE "idle"]
  /\ item = [w \in Workers |-> NoItem]

\* Mutant: Add forgets that the item may be in processing.
AddWhileProcessing(i) ==
  /\ ~shuttingDown
  /\ i \notin dirty
  /\ dirty' = dirty \cup {i}
  /\ queue' = Append(queue, i)
  /\ pc' \in Signal(pc)
  /\ UNCHANGED <<processing, shuttingDown, drain, item>>

\* Mutant: Add wakes a worker only when the queue was empty.
AddSignalsFirstOnly(i) ==
  /\ ~shuttingDown
  /\ i \notin dirty
  /\ dirty' = dirty \cup {i}
  /\ \/ /\ i \in processing
        /\ UNCHANGED <<queue, pc>>
     \/ /\ i \notin processing
        /\ queue' = Append(queue, i)
        /\ pc' \in IF queue = <<>> THEN Signal(pc) ELSE {pc}
  /\ UNCHANGED <<processing, shuttingDown, drain, item>>

\* Add(i).  It returns early, changing nothing, when the queue is shutting
\* down or i already needs processing.
Add(i) ==
  /\ ~shuttingDown
  /\ i \notin dirty
  /\ dirty' = dirty \cup {i}
  /\ \/ /\ i \in processing
        /\ UNCHANGED <<queue, pc>>
     \/ /\ i \notin processing
        /\ queue' = Append(queue, i)
        /\ pc' \in Signal(pc)
  /\ UNCHANGED <<processing, shuttingDown, drain, item>>

\* Get: the loop condition holds, so the worker parks in cond.Wait.
GetWait(w) ==
  /\ pc[w] = "get"
  /\ queue = <<>>
  /\ ~shuttingDown
  /\ pc' = [pc EXCEPT ![w] = "wait"]
  /\ UNCHANGED <<queue, dirty, processing, shuttingDown, drain, item>>

\* Mutant: Get tests shuttingDown before the queue.
GetShutdownEagerly(w) ==
  /\ pc[w] = "get"
  /\ shuttingDown
  /\ pc' = [pc EXCEPT ![w] = "exit"]
  /\ UNCHANGED <<queue, dirty, processing, shuttingDown, drain, item>>

\* Get returns (nil, true): the worker ends its goroutine.
GetShutdown(w) ==
  /\ pc[w] = "get"
  /\ queue = <<>>
  /\ shuttingDown
  /\ pc' = [pc EXCEPT ![w] = "exit"]
  /\ UNCHANGED <<queue, dirty, processing, shuttingDown, drain, item>>

\* Get returns the head of the queue.
GetItem(w) ==
  /\ pc[w] = "get"
  /\ queue # <<>>
  /\ queue' = Tail(queue)
  /\ processing' = processing \cup {Head(queue)}
  /\ dirty' = dirty \ {Head(queue)}
  /\ item' = [item EXCEPT ![w] = Head(queue)]
  /\ pc' = [pc EXCEPT ![w] = "work"]
  /\ UNCHANGED <<shuttingDown, drain>>

Get(w) == GetWait(w) \/ GetShutdown(w) \/ GetItem(w)

\* Mutant: Done wakes nobody when the last item is done.
DoneForgetsDrainer(w) ==
  LET resumed == [pc EXCEPT ![w] = "get"] IN
  /\ pc[w] = "work"
  /\ processing' = processing \ {item[w]}
  /\ \/ /\ item[w] \in dirty
        /\ queue' = Append(queue, item[w])
        /\ pc' \in Signal(resumed)
     \/ /\ item[w] \notin dirty
        /\ pc' = resumed
        /\ UNCHANGED queue
  /\ item' = [item EXCEPT ![w] = NoItem]
  /\ UNCHANGED <<dirty, shuttingDown, drain>>

\* Done(item[w]): the worker is finished and calls Get again.
Done(w) ==
  LET resumed == [pc EXCEPT ![w] = "get"] IN
  /\ pc[w] = "work"
  /\ processing' = processing \ {item[w]}
  /\ \/ /\ item[w] \in dirty
        /\ queue' = Append(queue, item[w])
        /\ pc' \in Signal(resumed)
     \/ /\ item[w] \notin dirty
        /\ pc' \in IF processing' = {} THEN Signal(resumed) ELSE {resumed}
        /\ UNCHANGED queue
  /\ item' = [item EXCEPT ![w] = NoItem]
  /\ UNCHANGED <<dirty, shuttingDown, drain>>

\* Mutant: ShutDown wakes one waiting goroutine only.
ShutDownSignal ==
  /\ drain' = FALSE
  /\ shuttingDown' = TRUE
  /\ pc' \in Signal(pc)
  /\ UNCHANGED <<queue, dirty, processing, item>>

\* ShutDown, callable at any time and any number of times.
ShutDown ==
  /\ drain' = FALSE
  /\ shuttingDown' = TRUE
  /\ pc' = Broadcast(pc)
  /\ UNCHANGED <<queue, dirty, processing, item>>

\* The loop test of ShutDownWithDrain, whose lock is already held.
DrainTest(draining) == IF processing # {} /\ draining THEN "wait" ELSE "returned"

\* ShutDownWithDrain up to its first cond.Wait or its return.
ShutDownWithDrain(d) ==
  /\ pc[d] = "idle"
  /\ drain' = TRUE
  /\ shuttingDown' = TRUE
  /\ pc' = [Broadcast(pc) EXCEPT ![d] = DrainTest(TRUE)]
  /\ UNCHANGED <<queue, dirty, processing, item>>

\* ShutDownWithDrain after a wake-up.
DrainLoop(d) ==
  /\ pc[d] = "drain"
  /\ pc' = [pc EXCEPT ![d] = DrainTest(drain)]
  /\ UNCHANGED <<queue, dirty, processing, shuttingDown, drain, item>>

Next ==
  \/ \E i \in Items : Add(i)
  \/ \E w \in Workers : Get(w) \/ Done(w)
  \/ ShutDown
  \/ \E d \in Drainers : ShutDownWithDrain(d) \/ DrainLoop(d)

(***************************************************************************)
(* A runnable goroutine gets the mutex in the end (Go's mutexes are        *)
(* starvation-free), and a worker calls Done on what it was given, which   *)
(* Get's documentation requires of it.                                     *)
(***************************************************************************)
Fairness ==
  /\ \A w \in Workers : WF_vars(Get(w)) /\ WF_vars(Done(w))
  /\ \A d \in Drainers : WF_vars(DrainLoop(d))

Spec == Init /\ [][Next]_vars
FairSpec == Spec /\ Fairness

-----------------------------------------------------------------------------
(* Safety *)

\* The comment on Type.queue asks that every element be dirty and not in
\* processing.  More is true, and needed: nothing is queued twice, and every
\* dirty item that is not being processed is queued, so that no Add is lost.
QueueIsDirtyNotProcessing ==
  /\ IsInjective(queue)
  /\ Range(queue) = dirty \ processing

\* Stingy (doc.go): an item is never with two workers at the same time, and
\* processing is exactly what the workers hold, so Done of one of them never
\* releases what another is still working on.
Stingy ==
  /\ \A w \in Workers : item[w] # NoItem <=> pc[w] = "work"
  /\ processing = {item[w] : w \in Workers} \ {NoItem}
  /\ \A v, w \in Workers : v # w /\ item[v] # NoItem => item[v] # item[w]

\* No wake-up of Add, Done or ShutDown is lost on the workers: while one is
\* parked in Get, the queue is not shutting down, and for every queued item
\* there is a worker on its way to take it.
NoLostWakeup ==
  (\E w \in Workers : pc[w] = "wait") =>
    /\ ~shuttingDown
    /\ Len(queue) <= Cardinality({w \in Workers : pc[w] = "get"})

\* A goroutine parked in ShutDownWithDrain has something to wait for: the
\* queue is being drained, no ShutDown has forced it to end, and an item is
\* still being processed.  True with one caller of ShutDownWithDrain; see
\* EveryDrainReturns for two.
DrainerHasCause ==
  \A d \in Drainers : pc[d] = "wait" => shuttingDown /\ drain /\ processing # {}

-----------------------------------------------------------------------------
(* Liveness *)

\* After any kind of shutdown every worker is told to exit by Get.
WorkersExit == shuttingDown ~> (\A w \in Workers : pc[w] = "exit")

\* Every call of ShutDownWithDrain returns when the workers call Done.  True with
\* one caller; of two, Done wakes one.
EveryDrainReturns ==
  \A d \in Drainers : (pc[d] \in {"wait", "drain"}) ~> (pc[d] = "returned")

-----------------------------------------------------------------------------
(* Refinement *)

Abstract == INSTANCE WorkSet WITH
  pending <- dirty,
  held <- item,
  gone <- {w \in Workers : pc[w] = "exit"},
  closed <- shuttingDown

\* The queue keeps the promise of WorkSet, fairness to each item included:
\* no item that needs work and can be handed out is starved.
ImplementsWorkSet == Abstract!Spec
=============================================================================
