--------------------------- MODULE DelayingQueue ---------------------------
(***************************************************************************)
(* The delaying queue of src/util/workqueue/delaying_queue.go: AddAfter    *)
(* sends a request to the goroutine waitingLoop over a bounded channel;    *)
(* the loop keeps one entry per item in a heap ordered by readyAt and adds *)
(* the item to the embedded work queue (module WorkQueue) when its time    *)
(* has come.                                                               *)
(*                                                                         *)
(* The heap and the map waitingEntryByData always describe the same        *)
(* entries, so both are the function heap.  AddAfter and waitingLoop run   *)
(* concurrently with the users of the embedded queue; the steps below are  *)
(* the points where they touch the channel, the clock or that queue.       *)
(***************************************************************************)
EXTENDS WorkQueue

CONSTANTS Callers,   \* goroutines that call AddAfter, any number of times
          Stoppers,  \* goroutines that call ShutDown, once each
          Delays,    \* the positive delays AddAfter is called with
          ChanCap,   \* capacity of waitingForAddCh (1000 in the code)
          MaxTime    \* bound: the clock stops here

ASSUME DelayingQueueAssumption ==
  /\ Delays \subseteq Nat \ {0}
  /\ ChanCap \in Nat \ {0}
  /\ MaxTime \in Nat

VARIABLES now,      \* q.clock
          ch,       \* waitingForAddCh: requests [data, readyAt]
          heap,     \* readyAt of the entry of each item in the heap
          stopped,  \* stopCh is closed
          once,     \* stopOnce: "new", "running" or "done"
          loop,     \* where waitingLoop is
          loopNow,  \* the variable now of waitingLoop
          timer,    \* when nextReadyAtTimer fires, NoTime for never
          caller,   \* the request a caller of AddAfter is sending, NoReq if none
          stopper,  \* where each caller of ShutDown is
          owed      \* history: requests the loop has yet to honour, none once
                    \* the queue shuts down and ignores what is added

loopVars == <<heap, loop, loopNow, timer>>
localVars == <<now, ch, heap, stopped, once, loop, loopNow, timer, caller, stopper>>
dvars == <<localVars, owed>>
allVars == <<vars, dvars>>

Times == 0 .. MaxTime
NoTime == MaxTime + 1
Requests == [data : Items, readyAt : Times]
NoReq == [data |-> NoItem, readyAt |-> NoTime]

DelayingTypeOK ==
  /\ TypeOK
  /\ now \in Times
  /\ ch \in Seq(Requests) /\ Len(ch) <= ChanCap
  /\ heap \in [Items -> Times \cup {NoTime}]
  /\ stopped \in BOOLEAN
  /\ once \in {"new", "running", "done"}
  /\ loop \in {"top", "ready", "select", "drain", "exit"}
  /\ loopNow \in Times
  /\ timer \in Times \cup {NoTime}
  /\ caller \in [Callers -> Requests \cup {NoReq}]
  /\ stopper \in [Stoppers -> {"idle", "running", "blocked", "done"}]
  /\ owed \subseteq Requests

\* newDelayingQueue on a fresh work queue, waitingLoop just started.
DelayingInit ==
  /\ Init
  /\ now = 0
  /\ ch = <<>>
  /\ heap = [i \in Items |-> NoTime]
  /\ stopped = FALSE
  /\ once = "new"
  /\ loop = "top"
  /\ loopNow = 0
  /\ timer = NoTime
  /\ caller = [c \in Callers |-> NoReq]
  /\ stopper = [s \in Stoppers |-> "idle"]
  /\ owed = {}

Owe(requests) == owed' = IF shuttingDown' THEN {} ELSE requests

-----------------------------------------------------------------------------
(* The embedded queue. *)

\* q.Add(i), including the calls that return early.
AddOrIgnore(i) ==
  \/ Add(i)
  \/ /\ shuttingDown \/ i \in dirty
     /\ UNCHANGED vars

\* Users of the embedded methods Add, Get, Done and ShutDownWithDrain.  The
\* last is not overridden by delayingType: it does not close stopCh.  AddAfter
\* with no delay is the same as Add.
BaseStep ==
  /\ \/ \E i \in Items : Add(i)
     \/ \E w \in Workers : Get(w) \/ Done(w)
     \/ \E d \in Drainers : ShutDownWithDrain(d) \/ DrainLoop(d)
  /\ Owe(owed)
  /\ UNCHANGED localVars

-----------------------------------------------------------------------------
(* AddAfter *)

\* The check of ShuttingDown and the evaluation of the request, up to the
\* select.  The call returns at once when the queue is shutting down.
AddAfter(c, i, d) ==
  /\ caller[c] = NoReq
  /\ ~shuttingDown
  /\ now + d <= MaxTime
  /\ caller' = [caller EXCEPT ![c] = [data |-> i, readyAt |-> now + d]]
  /\ UNCHANGED <<vars, now, ch, loopVars, stopped, once, stopper, owed>>

\* The select: the request is sent to waitingLoop.
AddAfterSend(c) ==
  /\ caller[c] # NoReq
  /\ Len(ch) < ChanCap
  /\ ch' = Append(ch, caller[c])
  /\ caller' = [caller EXCEPT ![c] = NoReq]
  /\ UNCHANGED <<vars, now, loopVars, stopped, once, stopper>>
  /\ Owe(owed \cup {caller[c]})

\* Mutant: AddAfter notices ShutDown only while the channel has room.
AddAfterStopWhenFull(c) ==
  /\ caller[c] # NoReq
  /\ stopped
  /\ Len(ch) < ChanCap
  /\ caller' = [caller EXCEPT ![c] = NoReq]
  /\ UNCHANGED <<vars, now, ch, loopVars, stopped, once, stopper, owed>>

\* The select: ShutDown unblocks the call and the request is dropped.
AddAfterStop(c) ==
  /\ caller[c] # NoReq
  /\ stopped
  /\ caller' = [caller EXCEPT ![c] = NoReq]
  /\ UNCHANGED <<vars, now, ch, loopVars, stopped, once, stopper, owed>>

-----------------------------------------------------------------------------
(* waitingLoop *)

\* waitingLoop returns and its local variables are gone; so is what it owed.
LoopReturns ==
  /\ loop' = "exit"
  /\ heap' = [i \in Items |-> NoTime]
  /\ loopNow' = 0
  /\ timer' = NoTime
  /\ owed' = {}

\* The next iteration: the variables now and nextReadyAt of this one are gone.
NextIteration(where) ==
  /\ loop' = where
  /\ loopNow' = 0
  /\ timer' = NoTime

\* Mutant: the clock is read once, before the loop.
LoopTopStaleClock ==
  /\ loop = "top"
  /\ \/ /\ shuttingDown
        /\ LoopReturns
     \/ /\ ~shuttingDown
        /\ loop' = "ready"
        /\ UNCHANGED <<heap, loopNow, timer, owed>>
  /\ UNCHANGED <<vars, now, ch, stopped, once, caller, stopper>>

\* Top of the loop: leave when the embedded queue is shutting down, else take
\* the time at which entries will be judged.
LoopTop ==
  /\ loop = "top"
  /\ \/ /\ shuttingDown
        /\ LoopReturns
     \/ /\ ~shuttingDown
        /\ loop' = "ready"
        /\ loopNow' = now
        /\ UNCHANGED <<heap, timer, owed>>
  /\ UNCHANGED <<vars, now, ch, stopped, once, caller, stopper>>

\* Peek: an entry with the smallest readyAt; the heap leaves ties open.
Peek(i) == heap[i] # NoTime /\ \A j \in Items : heap[i] <= heap[j]

\* The requests for i that the loop has received.
Received(i) == {r \in owed : r.data = i /\ r \notin Range(ch)}

\* Mutant: the time of the entry is not compared with the clock.
AddUnready(i) ==
  /\ loop = "ready"
  /\ Peek(i)
  /\ AddOrIgnore(i)
  /\ heap' = [heap EXCEPT ![i] = NoTime]
  /\ owed' = owed \ Received(i)
  /\ UNCHANGED <<now, ch, stopped, once, loop, loopNow, timer, caller, stopper>>

\* One turn of the loop that adds ready entries: pop, Add, delete.
AddReady(i) ==
  /\ loop = "ready"
  /\ Peek(i)
  /\ heap[i] <= loopNow
  /\ AddOrIgnore(i)
  /\ heap' = [heap EXCEPT ![i] = NoTime]
  /\ owed' = owed \ Received(i)
  /\ UNCHANGED <<now, ch, stopped, once, loop, loopNow, timer, caller, stopper>>

\* Mutant: the timer is armed for any entry, not for the first.
SetTimerForAny ==
  /\ loop = "ready"
  /\ \A i \in Items : heap[i] > loopNow
  /\ loop' = "select"
  /\ \/ /\ \A i \in Items : heap[i] = NoTime
        /\ timer' = NoTime
     \/ \E i \in Items :
          /\ heap[i] # NoTime
          /\ timer' = IF now + (heap[i] - loopNow) <= MaxTime
                      THEN now + (heap[i] - loopNow) ELSE NoTime
  /\ UNCHANGED <<vars, now, ch, heap, stopped, once, loopNow, caller, stopper, owed>>

\* No entry is ready: arm the timer for the first one, if there is one.  The
\* timer runs from the present, the duration was computed with loopNow.
SetTimer ==
  /\ loop = "ready"
  /\ \A i \in Items : heap[i] > loopNow
  /\ loop' = "select"
  /\ \/ /\ \A i \in Items : heap[i] = NoTime
        /\ timer' = NoTime
     \/ \E i \in Items :
          /\ Peek(i)
          /\ timer' = IF now + (heap[i] - loopNow) <= MaxTime
                      THEN now + (heap[i] - loopNow) ELSE NoTime
  /\ UNCHANGED <<vars, now, ch, heap, stopped, once, loopNow, caller, stopper, owed>>

\* The select: stopCh is closed.
SelectStop ==
  /\ loop = "select"
  /\ stopped
  /\ LoopReturns
  /\ UNCHANGED <<vars, now, ch, stopped, once, caller, stopper>>

\* Mutant: there is no heartbeat once the queue is shutting down.
HeartbeatUntilShutDown ==
  /\ loop = "select"
  /\ once # "done"
  /\ ~shuttingDown
  /\ NextIteration("top")
  /\ UNCHANGED <<vars, now, ch, heap, stopped, once, caller, stopper, owed>>

\* The select: the heartbeat ticker, which ShutDown stops last.
Heartbeat ==
  /\ loop = "select"
  /\ once # "done"
  /\ NextIteration("top")
  /\ UNCHANGED <<vars, now, ch, heap, stopped, once, caller, stopper, owed>>

\* The select: the timer of the first entry.
TimerFires ==
  /\ loop = "select"
  /\ timer <= now
  /\ NextIteration("top")
  /\ UNCHANGED <<vars, now, ch, heap, stopped, once, caller, stopper, owed>>

\* Mutant: insert overwrites the time of an entry it already has.
InsertOverwrites(h, r) == [h EXCEPT ![r.data] = r.readyAt]

\* insert: a known entry is only ever moved to an earlier time.
Insert(h, r) ==
  IF h[r.data] = NoTime \/ h[r.data] > r.readyAt
  THEN [h EXCEPT ![r.data] = r.readyAt]
  ELSE h

\* A request comes out of the channel, in the select or while draining it.  It
\* goes to the heap, or straight to the queue when its time has come; in that
\* case an entry the heap already has for the item stays there, and so does a
\* request with the very same time that the entry stands for.
Receive ==
  LET r == Head(ch) IN
  /\ loop \in {"select", "drain"}
  /\ ch # <<>>
  /\ ch' = Tail(ch)
  /\ NextIteration("drain")
  /\ \/ /\ r.readyAt > now
        /\ heap' = Insert(heap, r)
        /\ UNCHANGED <<vars, owed>>
     \/ /\ r.readyAt <= now
        /\ AddOrIgnore(r.data)
        /\ owed' = IF heap[r.data] = r.readyAt THEN owed ELSE owed \ {r}
        /\ UNCHANGED heap
  /\ UNCHANGED <<now, stopped, once, caller, stopper>>

\* The channel is drained.
Drained ==
  /\ loop = "drain"
  /\ ch = <<>>
  /\ NextIteration("top")
  /\ UNCHANGED <<vars, now, ch, heap, stopped, once, caller, stopper, owed>>

WaitingLoop ==
  \/ LoopTop \/ (\E i \in Items : AddReady(i)) \/ SetTimer
  \/ SelectStop \/ Heartbeat \/ TimerFires \/ Receive \/ Drained

-----------------------------------------------------------------------------
(* ShutDown *)

\* delayingType.ShutDown: the first call shuts the embedded queue down; a call
\* that finds stopOnce running waits for it, a later one returns.
StopFirst(s) ==
  /\ stopper[s] = "idle"
  /\ \/ /\ once = "new"
        /\ ShutDown
        /\ once' = "running"
        /\ stopper' = [stopper EXCEPT ![s] = "running"]
     \/ /\ once # "new"
        /\ stopper' = [stopper EXCEPT ![s] = IF once = "done" THEN "done" ELSE "blocked"]
        /\ UNCHANGED <<vars, once>>
  /\ Owe(owed)
  /\ UNCHANGED <<now, ch, loopVars, stopped, caller>>

\* close(q.stopCh)
StopClose(s) ==
  /\ stopper[s] = "running"
  /\ ~stopped
  /\ stopped' = TRUE
  /\ UNCHANGED <<vars, now, ch, loopVars, once, caller, stopper, owed>>

\* q.heartbeat.Stop(), and stopOnce lets the waiting calls return.
StopHeartbeat(s) ==
  /\ stopper[s] = "running"
  /\ stopped
  /\ once' = "done"
  /\ stopper' = [t \in Stoppers |-> IF stopper[t] \in {"running", "blocked"}
                                    THEN "done" ELSE stopper[t]]
  /\ UNCHANGED <<vars, now, ch, loopVars, stopped, caller, owed>>

Tick ==
  /\ now < MaxTime
  /\ now' = now + 1
  /\ UNCHANGED <<vars, ch, loopVars, stopped, once, caller, stopper, owed>>

DelayingNext ==
  \/ BaseStep
  \/ \E c \in Callers :
       \/ \E i \in Items, d \in Delays : AddAfter(c, i, d)
       \/ AddAfterSend(c)
       \/ AddAfterStop(c)
  \/ WaitingLoop
  \/ \E s \in Stoppers : StopFirst(s) \/ StopClose(s) \/ StopHeartbeat(s)
  \/ Tick

DelayingSpec == DelayingInit /\ [][DelayingNext]_allVars

(***************************************************************************)
(* waitingLoop keeps running, a receive from a channel that has something  *)
(* in it or a send to one that has room is not passed over for ever, the   *)
(* heartbeat ticks, time passes, and the methods that have started end.    *)
(***************************************************************************)
DelayingFairness ==
  /\ WF_allVars(LoopTop) /\ WF_allVars(\E i \in Items : AddReady(i))
  /\ WF_allVars(SetTimer) /\ WF_allVars(Drained) /\ WF_allVars(SelectStop)
  /\ SF_allVars(Receive)
  /\ WF_allVars(TimerFires) /\ WF_allVars(Heartbeat)
  /\ WF_allVars(Tick)
  /\ \A c \in Callers : SF_allVars(AddAfterSend(c)) /\ WF_allVars(AddAfterStop(c))
  /\ \A s \in Stoppers : WF_allVars(StopClose(s)) /\ WF_allVars(StopHeartbeat(s))
  /\ \A d \in Drainers : WF_allVars(DrainLoop(d) /\ UNCHANGED dvars)

DelayingFairSpec == DelayingSpec /\ DelayingFairness
-----------------------------------------------------------------------------
(* Safety *)

\* Until the queue shuts down no accepted AddAfter is forgotten: its request
\* is in the channel, or the heap will release the item no later than asked,
\* however requests for the same item overlap.
NoRequestLost ==
  \A r \in owed : r \in Range(ch) \/ heap[r.data] <= r.readyAt

\* An item leaves the heap only when the delay of some accepted AddAfter of it
\* that was not honoured before has passed.  Once the queue shuts down Add
\* ignores what leaves the heap.
NeverEarly ==
  [][\A i \in Items : heap[i] # NoTime /\ heap'[i] = NoTime /\ ~shuttingDown
       => \E r \in owed : r.data = i /\ r.readyAt <= now]_allVars

\* The loop sleeps no longer than it should: while it is in its select with an
\* entry in the heap, the timer is armed, and not more than the time the loop
\* lost between reading the clock and arming it after the entry's time.
TimerArmed ==
  loop = "select" => \A i \in Items :
    heap[i] < MaxTime => timer <= heap[i] + (now - loopNow)

-----------------------------------------------------------------------------
(* Liveness *)

\* What AddAfter accepted is added to the queue in the end, or the queue is
\* shut down before: AddAfter accepts nothing more when the clock stops, and
\* from some time on nothing is owed.
DelayedItemAdded == <>[](owed = {})

\* AddAfter does not block for ever on a full channel, unless the shutdown was
\* a ShutDownWithDrain, which does not close stopCh.
AddAfterReturns ==
  <>[](\A c \in Callers : caller[c] = NoReq \/ (shuttingDown /\ once = "new"))

\* waitingLoop ends after either kind of shutdown.  After ShutDownWithDrain
\* only the heartbeat tells it.
LoopExits == shuttingDown ~> (loop = "exit")
=============================================================================
