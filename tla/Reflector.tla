----------------------------- MODULE Reflector -----------------------------
(***************************************************************************)
(* The reflector (src/tools/cache/reflector.go) between an API server      *)
(* (WatchServer) and a DeltaFIFO whose consumer keeps the client state:    *)
(* list or watch-list, the watch that follows, its failures, relists and   *)
(* the resync goroutine.                                                   *)
(*                                                                         *)
(* pc is where ListAndWatch is: "watchList" and "list" (about to send that *)
(* request), "relist" (the second list of one call), "initial" (receiving  *)
(* the initial events), "listed" and "streamed" (about to replace the      *)
(* store), "watch" (about to connect) and "stream" (in watchHandler).      *)
(* The store and lastSyncResourceVersion change in one step: nothing that  *)
(* runs in between reads the version.  A request that is refused and only  *)
(* sent again after a backoff changes nothing and is no step.              *)
(***************************************************************************)
EXTENDS DeltaFIFO

CONSTANTS Elsewhere,  \* stands for the objects of other resources
          MaxRV       \* bound: changes on the server

ASSUME ReflectorAssumption ==
  /\ MaxRV \in Nat
  /\ Objs = 1 .. MaxRV /\ NoObj = 0
  /\ Elsewhere \notin Keys

VARIABLES log, compacted,           \* the API server
          pc,                       \* where ListAndWatch is
          lastSyncResourceVersion,  \* r.lastSyncResourceVersion
          unavailable,              \* r.isLastSyncResourceVersionUnavailable
          UseWatchList,             \* r.UseWatchList
          version,    \* the version of the list, or how far the stream has come
          temporaryStore,           \* temporaryStore of watchList
          missed,     \* history: keys whose last event in the stream of watchList
                      \* did not reach temporaryStore
          wrong       \* history: keys whose last event did not reach the store

Server == INSTANCE WatchServer WITH Names <- Keys

reflectorVars == <<pc, lastSyncResourceVersion, unavailable, UseWatchList,
                   version, temporaryStore, missed, wrong>>
allVars == <<vars, log, compacted, reflectorVars>>

\* The initial event of an object is still to come.
NotSent == -1
Empty == [k \in Keys |-> 0]

ReflectorTypeOK ==
  /\ TypeOK
  /\ Server!ServerTypeOK
  /\ pc \in {"watchList", "list", "relist", "initial", "listed", "streamed", "watch", "stream"}
  /\ lastSyncResourceVersion \in {Server!Latest} \cup 0 .. Len(log)
  /\ unavailable \in BOOLEAN /\ UseWatchList \in BOOLEAN
  /\ version \in 0 .. Len(log)
  /\ temporaryStore \in [Keys -> NotSent .. Len(log)]
  /\ missed \subseteq Keys /\ wrong \subseteq Keys

\* Where Run starts ListAndWatch, and starts it again after it returned.
Start == IF UseWatchList THEN "watchList" ELSE "list"

ReflectorInit ==
  /\ Init /\ Server!ServerInit
  /\ UseWatchList \in BOOLEAN
  /\ pc = Start
  /\ lastSyncResourceVersion = Server!Latest
  /\ unavailable = FALSE
  /\ version = 0
  /\ temporaryStore = Empty
  /\ missed = {} /\ wrong = {}

\* Only the reflector moves.
Moves(p) == pc' = p /\ UNCHANGED <<vars, log, compacted, UseWatchList, wrong>>

\* The list or the stream at hand is given up.
GivesUp(p) == Moves(p) /\ version' = 0 /\ missed' = {}

-----------------------------------------------------------------------------
(* list *)

\* Mutant: every relist may be answered from a cache of any age.
RelistFromCache == IF unavailable THEN Server!Latest ELSE Server!Anything

relistResourceVersion ==
  IF unavailable THEN Server!Latest
  ELSE IF lastSyncResourceVersion = Server!Latest THEN Server!Anything
  ELSE lastSyncResourceVersion

\* The list succeeds.
List ==
  /\ pc \in {"list", "relist"}
  /\ version' \in Server!Answers(relistResourceVersion)
  /\ unavailable' = FALSE
  /\ Moves("listed")
  /\ UNCHANGED <<lastSyncResourceVersion, temporaryStore, missed>>

\* The version is expired or larger than the server's: list again at once for
\* the most recent data.
ListExpired ==
  /\ pc = "list"
  /\ relistResourceVersion # Server!Latest
  /\ unavailable' = TRUE
  /\ GivesUp("relist")
  /\ UNCHANGED <<lastSyncResourceVersion, temporaryStore>>

\* The list fails otherwise and ListAndWatch returns.
ListFails ==
  /\ pc \in {"list", "relist"}
  /\ GivesUp(Start)
  /\ UNCHANGED <<lastSyncResourceVersion, unavailable, temporaryStore>>

\* What list and watchList replace the store with.
Listing == IF pc = "streamed" THEN temporaryStore ELSE Server!At(version)

\* store.Replace, in syncWith or watchList, and setLastSyncResourceVersion; the
\* stream of watchList goes on as the watch.  What the stream missed is replaced
\* by what temporaryStore has in its place: an older object, or none.
SyncWith ==
  /\ pc \in {"listed", "streamed"}
  /\ Replace(Listing)
  /\ lastSyncResourceVersion' = version
  /\ wrong' = missed /\ missed' = {}
  /\ pc' = IF pc = "streamed" THEN "stream" ELSE "watch"
  /\ temporaryStore' = Empty
  /\ version' = IF pc = "streamed" THEN version ELSE 0
  /\ UNCHANGED <<log, compacted, unavailable, UseWatchList>>

\* store.Replace fails after some of the objects and ListAndWatch returns.
SyncRefused(accepted) ==
  /\ pc \in {"listed", "streamed"}
  /\ ReplaceRefused(Listing, accepted)
  /\ wrong' = (wrong \ accepted) \cup (missed \cap accepted) /\ missed' = {}
  /\ pc' = Start
  /\ version' = 0
  /\ temporaryStore' = Empty
  /\ UNCHANGED <<log, compacted, lastSyncResourceVersion, unavailable, UseWatchList>>

-----------------------------------------------------------------------------
(* watchList *)

rewatchResourceVersion == IF unavailable THEN Server!Latest ELSE lastSyncResourceVersion

\* Mutant: a new attempt goes on with the temporary store of the one before.
InitialConnectSameStore ==
  /\ pc = "watchList"
  /\ version' \in Server!Answers(rewatchResourceVersion)
  /\ temporaryStore' = [k \in Keys |-> IF Server!At(version')[k] = 0 THEN temporaryStore[k] ELSE NotSent]
  /\ missed' = {}
  /\ Moves("initial")
  /\ UNCHANGED <<lastSyncResourceVersion, unavailable>>

\* The stream opens at some version, whose objects it sends first, to a new
\* temporary store.
InitialConnect ==
  /\ pc = "watchList"
  /\ version' \in Server!Answers(rewatchResourceVersion)
  /\ temporaryStore' = [k \in Keys |-> IF Server!At(version')[k] = 0 THEN 0 ELSE NotSent]
  /\ missed' = {}
  /\ Moves("initial")
  /\ UNCHANGED <<lastSyncResourceVersion, unavailable>>

\* A synthetic Added event.
InitialEvent(k) ==
  /\ pc = "initial"
  /\ temporaryStore[k] = NotSent
  /\ temporaryStore' = [temporaryStore EXCEPT ![k] = Server!At(version)[k]]
  /\ Moves("initial")
  /\ UNCHANGED <<lastSyncResourceVersion, unavailable, version, missed>>

\* The object of a synthetic Added event is not of the expected type, or
\* temporaryStore refuses it: an error is logged and the stream goes on.
InitialEventSkipped(k) ==
  /\ pc = "initial"
  /\ temporaryStore[k] = NotSent
  /\ temporaryStore' = [temporaryStore EXCEPT ![k] = 0]
  /\ missed' = missed \cup {k}
  /\ Moves("initial")
  /\ UNCHANGED <<lastSyncResourceVersion, unavailable, version>>

InitialEventsSent == \A k \in Keys : temporaryStore[k] # NotSent

\* A change comes before the bookmark.
InitialReceived ==
  /\ pc = "initial"
  /\ InitialEventsSent
  /\ version < Len(log)
  /\ version' = version + 1
  /\ Moves("initial")
  /\ UNCHANGED <<lastSyncResourceVersion, unavailable>>

\* It is put in temporaryStore, or is of another resource.
InitialChange ==
  /\ InitialReceived
  /\ temporaryStore' = [k \in Keys |-> IF k = log[version'].key THEN Server!At(version')[k]
                                      ELSE temporaryStore[k]]
  /\ missed' = missed \ {log[version'].key}

\* Its object is not of the expected type, or temporaryStore refuses it.
InitialChangeSkipped(k) ==
  /\ InitialReceived
  /\ k = log[version'].key
  /\ missed' = missed \cup {k}
  /\ UNCHANGED temporaryStore

\* The bookmark that ends the initial events.
InitialBookmark ==
  /\ pc = "initial"
  /\ InitialEventsSent
  /\ unavailable' = FALSE
  /\ Moves("streamed")
  /\ UNCHANGED <<lastSyncResourceVersion, version, temporaryStore, missed>>

\* The version is expired or larger than the server's: start again.
InitialExpired ==
  /\ pc \in {"watchList", "initial"}
  /\ rewatchResourceVersion # Server!Latest
  /\ unavailable' = TRUE
  /\ GivesUp("watchList")
  /\ UNCHANGED <<lastSyncResourceVersion, temporaryStore>>

\* The stream closes or fails before the bookmark: start again.
InitialFails ==
  /\ pc = "initial"
  /\ GivesUp("watchList")
  /\ UNCHANGED <<lastSyncResourceVersion, unavailable, temporaryStore>>

\* The server does not know the feature: ListAndWatch falls back to list.
Unsupported ==
  /\ pc \in {"watchList", "initial"}
  /\ GivesUp("list")
  /\ temporaryStore' = Empty
  /\ UNCHANGED <<lastSyncResourceVersion, unavailable>>

-----------------------------------------------------------------------------
(* watch and watchHandler *)

\* The watch resumes from lastSyncResourceVersion.
Watch ==
  /\ pc = "watch"
  /\ compacted <= lastSyncResourceVersion
  /\ version' = lastSyncResourceVersion
  /\ Moves("stream")
  /\ UNCHANGED <<lastSyncResourceVersion, unavailable, temporaryStore, missed>>

\* Mutant: a watch from an expired version is tried again.
WatchGoneRetried ==
  /\ pc = "watch"
  /\ compacted > lastSyncResourceVersion
  /\ GivesUp("watch")
  /\ UNCHANGED <<lastSyncResourceVersion, unavailable, temporaryStore>>

\* The server no longer has the changes after lastSyncResourceVersion, as it
\* answers the request or in an error event: ListAndWatch returns.
WatchGone ==
  /\ pc = "watch"
  /\ compacted > lastSyncResourceVersion
  /\ GivesUp(Start)
  /\ UNCHANGED <<lastSyncResourceVersion, unavailable, temporaryStore>>

\* An error that is not retried, an error of Resync, or a very short watch.
WatchFails ==
  /\ pc \in {"watch", "stream"}
  /\ GivesUp(Start)
  /\ UNCHANGED <<lastSyncResourceVersion, unavailable, temporaryStore>>

\* The stream closes, or ends with an error that lets the watch resume.
WatchCloses ==
  /\ pc = "stream"
  /\ GivesUp("watch")
  /\ UNCHANGED <<lastSyncResourceVersion, unavailable, temporaryStore>>

\* The change the stream delivers next.
Received(k) ==
  /\ pc = "stream"
  /\ version < Len(log)
  /\ k = log[version + 1].key
  /\ version' = version + 1
  /\ UNCHANGED <<log, compacted, pc, unavailable, UseWatchList, temporaryStore, missed>>

\* An Added, Modified or Deleted event is put in the store.
Event(k) ==
  /\ Received(k)
  /\ IF log[version'].put THEN Put(k, version') ELSE Delete(k, version')
  /\ lastSyncResourceVersion' = version'
  /\ wrong' = wrong \ {k}

\* The store refuses the object: an error is logged and the version moves on.
EventRefused(k) ==
  /\ Received(k)
  /\ ActionRefused
  /\ lastSyncResourceVersion' = version'
  /\ wrong' = wrong \cup {k}

\* The object is not of the expected type: the event is skipped.
EventUnreadable(k) ==
  /\ Received(k)
  /\ wrong' = wrong \cup {k}
  /\ UNCHANGED <<vars, lastSyncResourceVersion>>

\* The watch has nothing to report of a change elsewhere.
NoEvent ==
  /\ Received(Elsewhere)
  /\ UNCHANGED <<vars, lastSyncResourceVersion, wrong>>

\* A Bookmark event: the version moves on.
Bookmark ==
  /\ pc = "stream"
  /\ lastSyncResourceVersion # version
  /\ lastSyncResourceVersion' = version
  /\ Moves("stream")
  /\ UNCHANGED <<unavailable, version, temporaryStore, missed>>

-----------------------------------------------------------------------------

\* startResync: the goroutine of this call of ListAndWatch, or of an earlier one
\* that has not seen cancelCh yet.
ResyncStore(accepted) ==
  /\ lastSyncResourceVersion # Server!Latest
  /\ Resync(accepted)
  /\ UNCHANGED <<log, compacted, reflectorVars>>

Consume == Pop /\ UNCHANGED <<log, compacted, reflectorVars>>

ServerStep == Server!ServerNext /\ UNCHANGED <<vars, reflectorVars>>

\* The steps in which something goes wrong.
Fault ==
  \/ ListExpired \/ ListFails \/ (\E accepted \in SUBSET Keys : SyncRefused(accepted))
  \/ InitialExpired \/ InitialFails \/ Unsupported
  \/ (\E k \in Keys : InitialEventSkipped(k) \/ InitialChangeSkipped(k))
  \/ WatchFails \/ WatchCloses
  \/ \E k \in Keys : EventRefused(k) \/ EventUnreadable(k)

ReflectorNext ==
  \/ List \/ SyncWith
  \/ InitialConnect \/ (\E k \in Keys : InitialEvent(k)) \/ InitialChange \/ InitialBookmark
  \/ Watch \/ WatchGone \/ (\E k \in Keys : Event(k)) \/ NoEvent \/ Bookmark
  \/ Fault
  \/ \E accepted \in SUBSET Keys : ResyncStore(accepted)
  \/ Consume
  \/ ServerStep

ReflectorSpec == ReflectorInit /\ [][ReflectorNext]_allVars

\* The goroutines run and requests are answered; a list is not answered from a
\* stale cache for ever.  Replace, Add, Update and Delete wait for room in the
\* bounded model of the FIFO only, hence the strong fairness.
ReflectorFairness ==
  /\ SF_allVars(List /\ version' = Len(log)) /\ SF_allVars(SyncWith)
  /\ WF_allVars(InitialConnect) /\ WF_allVars(\E k \in Keys : InitialEvent(k))
  /\ WF_allVars(InitialBookmark)
  /\ WF_allVars(Watch) /\ WF_allVars(WatchGone)
  /\ SF_allVars(\E k \in Keys : Event(k)) /\ WF_allVars(NoEvent)
  /\ WF_allVars(Consume)

ReflectorFairSpec == ReflectorSpec /\ ReflectorFairness

-----------------------------------------------------------------------------

\* While it watches, the reflector has given the store exactly the objects that
\* the server had at lastSyncResourceVersion, the point from which the watch
\* resumes: no list, resumed watch, failed list in between, resync or watch-list
\* that started over leaves out or repeats a change.  The exceptions are the
\* objects whose last event watchHandler skipped or a store refused, in the watch
\* or before the bookmark of a watch-list, until an event, a list or a watch-list
\* brings them, and those whose deltas a failed Pop dropped.
StoreIsSnapshot ==
  pc \in {"watch", "stream"} =>
    \A k \in Keys \ (wrong \cup failed) : View(k) = Server!At(lastSyncResourceVersion)[k]

\* An object in the store is replaced only by what the server had at the last
\* synced version or later: no relist or late event takes the client back to
\* before lastSyncResourceVersion (comment of relistResourceVersion).
NeverOlder ==
  [][\A k \in Keys \ (wrong' \cup failed') :
       View(k)' # View(k) =>
         \E v \in 0 .. Len(log) : v >= lastSyncResourceVersion /\ View(k)' = Server!At(v)[k]]_allVars

CaughtUp == \A k \in Keys \ (wrong \cup failed) : known[k] = Server!At(Len(log))[k]

\* When nothing goes wrong any more, the client state becomes what the server
\* has and stays so, whatever the state in which failures left the reflector.
CatchesUp == <>[][~Fault]_allVars => <>[]CaughtUp
=============================================================================
