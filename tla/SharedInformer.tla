--------------------------- MODULE SharedInformer ---------------------------
(***************************************************************************)
(* The sharedIndexInformer of tools/cache/shared_informer.go: the indexer, *)
(* the goroutine of processLoop, which applies the deltas it pops to the   *)
(* indexer and distributes them, the sharedProcessor that starts and stops *)
(* the listeners, the two goroutines (pop and run) of every                *)
(* processorListener, the resync goroutine, and the applications' calls of *)
(* AddEventHandler, RemoveEventHandler and HasSynced.                      *)
(*                                                                         *)
(* Four locks order them, and who holds one is read off from where the     *)
(* goroutines are: startedLock, the queue's lock (held by Pop while the    *)
(* deltas are processed), blockDeltas, and listenersLock, a sync.RWMutex:  *)
(* a writer that waits keeps new readers out.                              *)
(*                                                                         *)
(* The queue is a DeltaFIFO that a Reflector fills (modules DeltaFIFO and  *)
(* Reflector); here it is left open which deltas come: first the objects   *)
(* of the initial list, then any.                                          *)
(***************************************************************************)
EXTENDS Naturals, Sequences, FiniteSets, FiniteSetsExt

CONSTANTS Handlers,          \* the event handlers, each added at most once
          Keys,
          Objs,              \* the versions of an object, positive numbers
          None,              \* neither a key nor a notification
          Scenarios,         \* bounds: the handlers that are added and the number
                             \* of deltas that come, one of which Init chooses
          ResyncBeforeStart  \* whether a resync period may elapse before the
                             \* goroutine of sharedProcessor.run has run

ASSUME HandlersAssumption == IsFiniteSet(Handlers)
ASSUME ObjsAssumption == Objs \subseteq Nat \ {0}
ASSUME KeysAssumption == IsFiniteSet(Keys) /\ None \notin Keys
ASSUME ScenariosAssumption ==
  /\ Scenarios \subseteq [handlers : SUBSET Handlers, deltas : Nat]
  /\ \A s \in Scenarios : s.deltas >= Cardinality(Keys)
ASSUME ResyncAssumption == ResyncBeforeStart \in BOOLEAN

VARIABLES main,       \* where sharedIndexInformer.Run is
          stopCh,     \* the stop channel is closed
          closed,     \* the queue is closed
          initial,    \* the keys of the initial list not popped yet
          populated,  \* the queue has received the initial list
          loop,       \* where processLoop is
          work,       \* what it works on: the item, the notification, and the
                      \* listeners distribute has yet to send it to
          deltas,     \* the number of deltas still to come
          indexer,    \* the version of each key, 0 when it is absent
          processor,  \* where sharedProcessor.run is
          listeners,  \* sharedProcessor.listeners
          resync,     \* where the resync goroutine is
          call,       \* per handler, where the application's call is
          replay,     \* the keys an AddEventHandler has yet to send
          goroutines, \* per handler, the state of addCh, pop and run
          buf,        \* the notifications pop holds
          handling,   \* run is within the handler: the notification, or None
          count,      \* syncTracker.count
          seen,       \* history: the versions the handler was told of
          synced      \* history: HasSynced returned TRUE for the handler

queueVars == <<stopCh, closed, initial, populated>>
loopVars == <<loop, work, deltas, indexer>>
callVars == <<call, replay, synced>>
listenerVars == <<goroutines, buf, handling, count, seen>>
vars == <<main, queueVars, loopVars, processor, listeners, resync, callVars,
          listenerVars>>

Absent == 0

Versions == Objs \union {Absent}

\* An addNotification has old = Absent, a deleteNotification new = Absent.
Notifications ==
  [key : Keys, old : Versions, new : Versions, isInInitialList : BOOLEAN]

ASSUME NoneAssumption == None \notin Notifications

Idle == [key |-> None, isInInitialList |-> FALSE, note |-> None, targets |-> {}]

InStartedLock == {"addBlocked", "addListener", "replay", "removeBlocked",
                  "removeListener", "upstream"}

\* No call is made for an "unused" handler.
Calls == {"new", "unused", "registered", "rejected", "removed", "counting"}
           \union InStartedLock

InformerTypeOK ==
  /\ main \in {"new", "running", "stopped", "returned"}
  /\ stopCh \in BOOLEAN /\ closed \in BOOLEAN /\ populated \in BOOLEAN
  /\ initial \subseteq Keys
  /\ loop \in {"idle", "popped", "distribute", "send", "processed", "exited"}
  /\ work \in [key : Keys \union {None}, isInInitialList : BOOLEAN,
               note : Notifications \union {None}, targets : SUBSET Handlers]
  /\ deltas \in Nat
  /\ indexer \in [Keys -> Versions]
  /\ processor \in {"new", "start", "serving", "stopping", "waiting", "returned"}
  /\ listeners \subseteq Handlers
  /\ resync \in {"idle", "shouldResync"}
  /\ call \in [Handlers -> Calls]
  /\ replay \in [Handlers -> SUBSET Keys]
  /\ goroutines \in [Handlers -> {"new", "open", "closed", "draining", "done"}]
  /\ buf \in [Handlers -> Seq(Notifications)]
  /\ handling \in [Handlers -> Notifications \union {None}]
  /\ count \in [Handlers -> Nat]
  /\ seen \in [Handlers -> [Keys -> Versions]]
  /\ synced \in [Handlers -> BOOLEAN]

Init ==
  /\ main = "new"
  /\ stopCh = FALSE /\ closed = FALSE /\ populated = FALSE
  /\ initial = {}
  /\ loop = "idle" /\ work = Idle
  /\ indexer = [k \in Keys |-> Absent]
  /\ processor = "new"
  /\ listeners = {}
  /\ resync = "idle"
  /\ \E s \in Scenarios :
       /\ deltas = s.deltas
       /\ call = [h \in Handlers |-> IF h \in s.handlers THEN "new" ELSE "unused"]
  /\ replay = [h \in Handlers |-> {}]
  /\ goroutines = [h \in Handlers |-> "new"]
  /\ buf = [h \in Handlers |-> <<>>]
  /\ handling = [h \in Handlers |-> None]
  /\ count = [h \in Handlers |-> 0]
  /\ seen = [h \in Handlers |-> [k \in Keys |-> Absent]]
  /\ synced = [h \in Handlers |-> FALSE]

-----------------------------------------------------------------------------
(* The locks. *)

started == main # "new"
stopped == main \in {"stopped", "returned"}

StartedLockFree == \A h \in Handlers : call[h] \notin InStartedLock

QueueLockFree == loop \in {"idle", "exited"}

BlockDeltasFree ==
  /\ loop \notin {"distribute", "send", "processed"}
  /\ \A h \in Handlers : call[h] \notin {"addListener", "replay", "removeListener"}

WriterWaits ==
  \/ processor = "stopping"
  \/ resync = "shouldResync"
  \/ \E h \in Handlers : call[h] \in {"addListener", "removeListener"}

CanRLock == processor # "waiting" /\ ~WriterWaits

CanLock == processor # "waiting" /\ loop # "send"

-----------------------------------------------------------------------------
(* sharedIndexInformer.Run and the controller's Run. *)

Run ==
  /\ main = "new"
  /\ StartedLockFree
  /\ main' = "running"
  /\ processor' = "start"
  /\ UNCHANGED <<queueVars, loopVars, listeners, resync, callVars, listenerVars>>

\* The first list of the reflector.
Replace ==
  /\ main = "running" /\ ~stopCh
  /\ ~populated
  /\ QueueLockFree
  /\ populated' = TRUE
  /\ initial' \in SUBSET Keys
  /\ UNCHANGED <<main, stopCh, closed, loopVars, processor, listeners, resync,
                 callVars, listenerVars>>

Stop ==
  /\ main = "running" /\ ~stopCh
  /\ stopCh' = TRUE
  /\ UNCHANGED <<main, closed, initial, populated, loopVars, processor, listeners,
                 resync, callVars, listenerVars>>

\* The goroutine of controller.Run that closes the queue.
Close ==
  /\ stopCh /\ ~closed
  /\ QueueLockFree
  /\ closed' = TRUE
  /\ UNCHANGED <<main, stopCh, initial, populated, loopVars, processor, listeners,
                 resync, callVars, listenerVars>>

\* Mutant: stopped is set without startedLock.
RunStoppedUnlocked ==
  /\ main = "running"
  /\ loop = "exited"
  /\ main' = "stopped"
  /\ UNCHANGED <<queueVars, loopVars, processor, listeners, resync, callVars,
                 listenerVars>>

\* controller.Run has returned: stopped is set under startedLock, and
\* processorStopCh is closed.
RunStopped ==
  /\ main = "running"
  /\ loop = "exited"
  /\ StartedLockFree
  /\ main' = "stopped"
  /\ UNCHANGED <<queueVars, loopVars, processor, listeners, resync, callVars,
                 listenerVars>>

RunReturns ==
  /\ main = "stopped"
  /\ processor = "returned"
  /\ main' = "returned"
  /\ UNCHANGED <<queueVars, loopVars, processor, listeners, resync, callVars,
                 listenerVars>>

-----------------------------------------------------------------------------
(* processLoop: DeltaFIFO.Pop, HandleDeltas, processDeltas, distribute. *)

\* processorListener.add: syncTracker.Start, and a send that pop receives.
add(h, note) ==
  /\ goroutines[h] = "open"
  /\ buf' = [buf EXCEPT ![h] = Append(@, note)]
  /\ count' = [count EXCEPT ![h] = IF note.isInInitialList THEN @ + 1 ELSE @]
  /\ UNCHANGED <<goroutines, handling, seen>>

\* Pop takes the next item with the queue's lock, which it keeps: the keys of
\* the initial list come first.
Pop ==
  /\ loop = "idle" /\ populated
  /\ deltas > 0
  /\ \E k \in IF initial # {} THEN initial ELSE Keys :
       work' = [Idle EXCEPT !.key = k, !.isInInitialList = initial # {}]
  /\ initial' = initial \ {work'.key}
  /\ loop' = "popped"
  /\ UNCHANGED <<main, stopCh, closed, populated, deltas, indexer, processor,
                 listeners, resync, callVars, listenerVars>>

\* Pop finds the queue closed and empty.
PopClosed ==
  /\ loop = "idle"
  /\ closed /\ initial = {}
  /\ loop' = "exited"
  /\ UNCHANGED <<main, queueVars, work, deltas, indexer, processor, listeners,
                 resync, callVars, listenerVars>>

\* One delta of the item, with blockDeltas held from the first to the last: the
\* indexer changes, and then the listeners are to be told.
HandleDeltas ==
  /\ \/ loop = "popped" /\ BlockDeltasFree
     \/ loop = "processed" /\ deltas > Cardinality(initial)
  /\ deltas' = deltas - 1
  /\ \E new \in Versions :
       LET old == indexer[work.key]
       IN  /\ new = Absent => old # Absent
           /\ indexer' = [indexer EXCEPT ![work.key] = new]
           /\ work' = [work EXCEPT !.note =
                [key |-> work.key, old |-> old, new |-> new,
                 isInInitialList |-> work.isInInitialList /\ old = Absent]]
  /\ loop' = "distribute"
  /\ UNCHANGED <<main, queueVars, processor, listeners, resync, callVars,
                 listenerVars>>

\* distribute returns, and unlocks, when it has sent to every target.
AfterSend(targets) == IF targets = {} THEN "processed" ELSE "send"

\* distribute takes listenersLock for reading.  An update that changes nothing
\* (a resync) only goes to the listeners shouldResync has marked, which the
\* clock decides.
Distribute ==
  /\ loop = "distribute"
  /\ CanRLock
  /\ \E syncing \in SUBSET listeners :
       work' = [work EXCEPT !.targets =
                  IF work.note.old = work.note.new THEN syncing ELSE listeners]
  /\ loop' = AfterSend(work'.targets)
  /\ UNCHANGED <<main, queueVars, deltas, indexer, processor, listeners, resync,
                 callVars, listenerVars>>

Send ==
  /\ loop = "send"
  /\ \E h \in work.targets :
       /\ add(h, work.note)
       /\ work' = [work EXCEPT !.targets = @ \ {h}]
  /\ loop' = AfterSend(work'.targets)
  /\ UNCHANGED <<main, queueVars, deltas, indexer, processor, listeners,
                 resync, callVars>>

\* HandleDeltas and Pop return: both locks are released.
PopReturns ==
  /\ loop = "processed"
  /\ loop' = "idle"
  /\ work' = Idle
  /\ UNCHANGED <<main, queueVars, deltas, indexer, processor, listeners, resync,
                 callVars, listenerVars>>

-----------------------------------------------------------------------------
(* sharedProcessor. *)

\* addListener starts the goroutines when the processor has started them all.
listenersStarted == processor \in {"serving", "stopping"}

StartListeners ==
  /\ processor = "start"
  /\ CanRLock
  /\ processor' = "serving"
  /\ goroutines' = [h \in Handlers |->
                      IF h \in listeners THEN "open" ELSE goroutines[h]]
  /\ UNCHANGED <<main, queueVars, loopVars, listeners, resync, callVars, buf,
                 handling, count, seen>>

ProcessorStops ==
  /\ processor = "serving"
  /\ main = "stopped"
  /\ processor' = "stopping"
  /\ UNCHANGED <<main, queueVars, loopVars, listeners, resync, callVars,
                 listenerVars>>

\* Every addCh is closed, and the lock is kept until the goroutines are done.
CloseListeners ==
  /\ processor = "stopping"
  /\ CanLock
  /\ processor' = "waiting"
  /\ goroutines' = [h \in Handlers |->
                      IF h \in listeners THEN "closed" ELSE goroutines[h]]
  /\ listeners' = {}
  /\ UNCHANGED <<main, queueVars, loopVars, resync, callVars, buf, handling,
                 count, seen>>

ListenersDone ==
  /\ processor = "waiting"
  /\ \A h \in Handlers : goroutines[h] \in {"new", "done"}
  /\ processor' = "returned"
  /\ UNCHANGED <<main, queueVars, loopVars, listeners, resync, callVars,
                 listenerVars>>

\* The resync goroutine of the reflector calls shouldResync...
ResyncTick ==
  /\ resync = "idle"
  /\ main = "running" /\ populated
  /\ ResyncBeforeStart \/ processor # "start"
  /\ resync' = "shouldResync"
  /\ UNCHANGED <<main, queueVars, loopVars, processor, listeners, callVars,
                 listenerVars>>

\* ...which asks every listener under the lock.
shouldResync ==
  /\ resync = "shouldResync"
  /\ CanLock
  /\ resync' = "idle"
  /\ UNCHANGED <<main, queueVars, loopVars, processor, listeners, callVars,
                 listenerVars>>

-----------------------------------------------------------------------------
(* processorListener. *)

\* pop hands its first notification to run, which calls the handler.
Dispatch(h) ==
  /\ goroutines[h] \in {"open", "closed"}
  /\ buf[h] # <<>>
  /\ handling[h] = None
  /\ LET note == Head(buf[h])
     IN  /\ handling' = [handling EXCEPT ![h] = note]
         /\ seen' = [seen EXCEPT ![h][note.key] = note.new]
  /\ buf' = [buf EXCEPT ![h] = Tail(@)]
  /\ UNCHANGED <<main, queueVars, loopVars, processor, listeners, resync, callVars,
                 goroutines, count>>

\* The handler returns; for an object of the initial list, Finished follows.
HandlerReturns(h) ==
  /\ handling[h] # None
  /\ count' = [count EXCEPT ![h] =
                 IF handling[h].isInInitialList THEN @ - 1 ELSE @]
  /\ handling' = [handling EXCEPT ![h] = None]
  /\ UNCHANGED <<main, queueVars, loopVars, processor, listeners, resync, callVars,
                 goroutines, buf, seen>>

\* The handler panics: the notification is skipped and Finished not called.
HandlerPanics(h) ==
  /\ handling[h] # None
  /\ handling' = [handling EXCEPT ![h] = None]
  /\ UNCHANGED <<main, queueVars, loopVars, processor, listeners, resync, callVars,
                 goroutines, buf, count, seen>>

\* pop finds addCh closed: what it holds is dropped, and nextCh is closed.
PopReturnsClosed(h) ==
  /\ goroutines[h] = "closed"
  /\ goroutines' = [goroutines EXCEPT ![h] = "draining"]
  /\ buf' = [buf EXCEPT ![h] = <<>>]
  /\ UNCHANGED <<main, queueVars, loopVars, processor, listeners, resync, callVars,
                 handling, count, seen>>

\* run finds nextCh closed.
ListenerReturns(h) ==
  /\ goroutines[h] = "draining"
  /\ handling[h] = None
  /\ goroutines' = [goroutines EXCEPT ![h] = "done"]
  /\ UNCHANGED <<main, queueVars, loopVars, processor, listeners, resync, callVars,
                 buf, handling, count, seen>>

-----------------------------------------------------------------------------
(* The applications' calls. *)

GoTo(h, where) == call' = [call EXCEPT ![h] = where]

\* AddEventHandler before Run: nobody else uses listenersLock yet.
AddBeforeStart(h) ==
  /\ call[h] = "new"
  /\ StartedLockFree
  /\ ~started
  /\ listeners' = listeners \union {h}
  /\ GoTo(h, "registered")
  /\ UNCHANGED <<main, queueVars, loopVars, processor, resync, replay, synced,
                 listenerVars>>

\* AddEventHandler takes startedLock, and refuses once the informer stopped.
AddEventHandler(h) ==
  /\ call[h] = "new"
  /\ StartedLockFree
  /\ started
  /\ GoTo(h, IF stopped THEN "rejected" ELSE "addBlocked")
  /\ UNCHANGED <<main, queueVars, loopVars, processor, listeners, resync, replay,
                 synced, listenerVars>>

\* Mutant: AddEventHandler does not keep the deltas out.
AddWithoutBlocking(h) ==
  /\ call[h] = "addBlocked"
  /\ GoTo(h, "addListener")
  /\ UNCHANGED <<main, queueVars, loopVars, processor, listeners, resync, replay,
                 synced, listenerVars>>

AddBlocksDeltas(h) ==
  /\ call[h] = "addBlocked"
  /\ BlockDeltasFree
  /\ GoTo(h, "addListener")
  /\ UNCHANGED <<main, queueVars, loopVars, processor, listeners, resync, replay,
                 synced, listenerVars>>

\* AddEventHandler returns, and unlocks, when it has sent every object.
AfterReplay(keys) == IF keys = {} THEN "registered" ELSE "replay"

\* Mutant: the goroutines of a late listener are not started.
addListenerIdle(h) ==
  /\ call[h] = "addListener"
  /\ CanLock
  /\ listeners' = listeners \union {h}
  /\ replay' = [replay EXCEPT ![h] = {k \in Keys : indexer[k] # Absent}]
  /\ GoTo(h, AfterReplay(replay'[h]))
  /\ UNCHANGED <<main, queueVars, loopVars, processor, resync, synced, listenerVars>>

\* addListener, and the list of the indexer that is to be replayed.
addListener(h) ==
  /\ call[h] = "addListener"
  /\ CanLock
  /\ listeners' = listeners \union {h}
  /\ goroutines' = [goroutines EXCEPT ![h] = IF listenersStarted THEN "open" ELSE @]
  /\ replay' = [replay EXCEPT ![h] = {k \in Keys : indexer[k] # Absent}]
  /\ GoTo(h, AfterReplay(replay'[h]))
  /\ UNCHANGED <<main, queueVars, loopVars, processor, resync, synced, buf,
                 handling, count, seen>>

Replay(h) ==
  /\ call[h] = "replay"
  /\ \E k \in replay[h] :
       /\ add(h, [key |-> k, old |-> Absent, new |-> indexer[k],
                  isInInitialList |-> TRUE])
       /\ replay' = [replay EXCEPT ![h] = @ \ {k}]
  /\ GoTo(h, AfterReplay(replay'[h]))
  /\ UNCHANGED <<main, queueVars, loopVars, processor, listeners, resync, synced>>

RemoveEventHandler(h) ==
  /\ call[h] = "registered"
  /\ StartedLockFree
  /\ GoTo(h, "removeBlocked")
  /\ UNCHANGED <<main, queueVars, loopVars, processor, listeners, resync, replay,
                 synced, listenerVars>>

RemoveBlocksDeltas(h) ==
  /\ call[h] = "removeBlocked"
  /\ BlockDeltasFree
  /\ GoTo(h, "removeListener")
  /\ UNCHANGED <<main, queueVars, loopVars, processor, listeners, resync, replay,
                 synced, listenerVars>>

\* Mutant: addCh is not closed.
removeListenerOpen(h) ==
  /\ call[h] = "removeListener"
  /\ CanLock
  /\ listeners' = listeners \ {h}
  /\ GoTo(h, "removed")
  /\ UNCHANGED <<main, queueVars, loopVars, processor, resync, replay, synced,
                 listenerVars>>

\* A handler that is not registered (any more) is left alone.
removeListener(h) ==
  /\ call[h] = "removeListener"
  /\ CanLock
  /\ listeners' = listeners \ {h}
  /\ goroutines' = [goroutines EXCEPT
       ![h] = IF h \in listeners /\ listenersStarted THEN "closed" ELSE @]
  /\ GoTo(h, "removed")
  /\ UNCHANGED <<main, queueVars, loopVars, processor, resync, replay, synced, buf,
                 handling, count, seen>>

\* HasSynced of a registration: the informer's HasSynced waits for the queue's
\* lock with startedLock held, and only then is the counter read.
HasSynced(h) ==
  /\ call[h] = "registered"
  /\ ~synced[h]
  /\ StartedLockFree
  /\ started
  /\ GoTo(h, "upstream")
  /\ UNCHANGED <<main, queueVars, loopVars, processor, listeners, resync, replay,
                 synced, listenerVars>>

\* Mutant: the queue answers without its lock, that is during Pop.
UpstreamHasSyncedUnlocked(h) ==
  /\ call[h] = "upstream"
  /\ GoTo(h, IF populated /\ initial = {} THEN "counting" ELSE "registered")
  /\ UNCHANGED <<main, queueVars, loopVars, processor, listeners, resync, replay,
                 synced, listenerVars>>

UpstreamHasSynced(h) ==
  /\ call[h] = "upstream"
  /\ QueueLockFree
  /\ GoTo(h, IF populated /\ initial = {} THEN "counting" ELSE "registered")
  /\ UNCHANGED <<main, queueVars, loopVars, processor, listeners, resync, replay,
                 synced, listenerVars>>

HasSyncedReturns(h) ==
  /\ call[h] = "counting"
  /\ synced' = [synced EXCEPT ![h] = count[h] = 0]
  /\ GoTo(h, "registered")
  /\ UNCHANGED <<main, queueVars, loopVars, processor, listeners, resync, replay,
                 listenerVars>>

-----------------------------------------------------------------------------

Loop == HandleDeltas \/ Send \/ PopReturns \/ PopClosed

Listener(h) ==
  \/ Dispatch(h) \/ HandlerReturns(h) \/ HandlerPanics(h)
  \/ PopReturnsClosed(h) \/ ListenerReturns(h)

\* The steps of a call that has been made.
Calling(h) ==
  \/ AddBlocksDeltas(h) \/ addListener(h) \/ Replay(h)
  \/ RemoveBlocksDeltas(h) \/ removeListener(h)
  \/ UpstreamHasSynced(h) \/ HasSyncedReturns(h)

Next ==
  \/ Run \/ Replace \/ Stop \/ Close \/ RunStopped \/ RunReturns
  \/ Pop \/ Distribute \/ Loop
  \/ StartListeners \/ ProcessorStops \/ CloseListeners \/ ListenersDone
  \/ ResyncTick \/ shouldResync
  \/ \E h \in Handlers :
       \/ AddBeforeStart(h) \/ AddEventHandler(h) \/ RemoveEventHandler(h)
       \/ HasSynced(h)
       \/ Calling(h) \/ Listener(h)

Spec == Init /\ [][Next]_vars

(***************************************************************************)
(* The goroutines are scheduled and the handlers return.  A sync.Mutex and *)
(* a sync.RWMutex starve nobody, which takes strong fairness where others  *)
(* may use the lock again and again: startedLock, polled by HasSynced, and *)
(* the readers of listenersLock, written by every resync.  Nothing obliges *)
(* an application to call, the server to change or the stop channel to be  *)
(* closed.                                                                 *)
(***************************************************************************)
Fairness ==
  /\ WF_vars(Close) /\ SF_vars(RunStopped) /\ WF_vars(RunReturns)
  /\ WF_vars(Pop /\ initial # {}) /\ WF_vars(Loop) /\ SF_vars(Distribute)
  /\ SF_vars(StartListeners)
  /\ WF_vars(ProcessorStops \/ CloseListeners \/ ListenersDone)
  /\ WF_vars(shouldResync)
  /\ \A h \in Handlers : WF_vars(Calling(h)) /\ WF_vars(Listener(h))

FairSpec == Spec /\ Fairness

-----------------------------------------------------------------------------

(***************************************************************************)
(* What a handler has been told, and will be told by the notifications     *)
(* pop holds, is a history that ends in the indexer whenever neither the   *)
(* loop nor a caller holds blockDeltas.  Every notification continues the  *)
(* one before it: OnAdd comes for an object the handler does not know,     *)
(* OnUpdate with the version it was told last, OnDelete for an object it   *)
(* knows.  So nothing is lost, doubled or reordered between a delta, a     *)
(* registration that replays the indexer and a removal, wherever they      *)
(* interleave.                                                             *)
(***************************************************************************)
Told(h, n) ==
  [k \in Keys |-> LET notes == {i \in 1 .. n : buf[h][i].key = k}
                 IN  IF notes = {} THEN seen[h][k] ELSE buf[h][Max(notes)].new]

Coherent ==
  /\ BlockDeltasFree => \A h \in listeners : Told(h, Len(buf[h])) = indexer
  /\ \A h \in Handlers : \A i \in DOMAIN buf[h] :
       buf[h][i].old = Told(h, i - 1)[buf[h][i].key]

(***************************************************************************)
(* No notification is sent on a closed channel and no channel is closed    *)
(* twice, either of which panics: who may still be sent to, by distribute, *)
(* which holds listenersLock, or by a registration, which does not, and    *)
(* who is still in the map, has its addCh open.                            *)
(***************************************************************************)
NoSendOnClosed ==
  \A h \in Handlers :
    h \in work.targets \/ call[h] = "replay" \/ h \in listeners =>
      goroutines[h] \in {"new", "open"}

(***************************************************************************)
(* Once HasSynced of a registration answered TRUE, the whole initial list  *)
(* has gone through the loop, and no initial object is still on its way to *)
(* the handler: the loop is not distributing one, pop holds none, and the  *)
(* handler is not within OnAdd of one.                                     *)
(***************************************************************************)
SyncedMeansDelivered ==
  \A h \in Handlers : synced[h] =>
    /\ populated /\ initial = {}
    /\ \A i \in DOMAIN buf[h] : ~buf[h][i].isInInitialList
    /\ handling[h] # None => ~handling[h].isInInitialList
    /\ ~work.isInInitialList

(***************************************************************************)
(* The locks never leave everyone waiting for everyone: a call of          *)
(* AddEventHandler, RemoveEventHandler or HasSynced returns, and Run       *)
(* returns once its stop channel is closed, whoever is registering,        *)
(* removing, resyncing or distributing at that moment.                     *)
(***************************************************************************)
CallsReturn ==
  /\ \A h \in Handlers :
       call[h] \in InStartedLock ~> call[h] \notin InStartedLock
  /\ stopCh ~> main = "returned"

(***************************************************************************)
(* A handler that stays registered catches up with the indexer.            *)
(***************************************************************************)
HandlersCatchUp ==
  \A h \in Handlers : []<>(h \in listeners => seen[h] = indexer)
=============================================================================
