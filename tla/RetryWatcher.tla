---------------------------- MODULE RetryWatcher ----------------------------
(***************************************************************************)
(* RetryWatcher (src/tools/watch/retrywatcher.go) between an API server    *)
(* that closes watches and forgets versions (WatchServer) and its reader,  *)
(* Until (src/tools/watch/until.go).                                       *)
(*                                                                         *)
(* pc is where receive is: "connect" (about to call Watch), "stream" (in   *)
(* the select of doReceive), "send" (in send, with the event to deliver),  *)
(* "wait" (between two calls of doReceive) and "done".                     *)
(***************************************************************************)
EXTENDS WatchServer

ASSUME RetryWatcherAssumption == MaxRV \in Nat /\ Elsewhere \notin Names

VARIABLES pc,                   \* where receive is
          lastResourceVersion,  \* rw.lastResourceVersion
          version,              \* how far the stream has come
          sending,              \* the event send delivers: a version or Failure
          stopped,              \* rw.stopChan is closed
          cancelled,            \* the context of receive is cancelled
          until,                \* UntilWithoutRetry: "reading" or "returned"
          got                   \* the events that Until has received

watcherVars == <<pc, lastResourceVersion, version, sending, stopped, cancelled>>
vars == <<serverVars, watcherVars, until, got>>

\* An Error event.
Failure == 0
Nothing == -1

TypeOK ==
  /\ ServerTypeOK
  /\ pc \in {"connect", "stream", "send", "wait", "done"}
  /\ lastResourceVersion \in 0 .. Len(log)
  /\ version \in 0 .. Len(log)
  /\ sending \in {Nothing, Failure} \cup 1 .. Len(log)
  /\ pc = "send" <=> sending # Nothing
  /\ stopped \in BOOLEAN /\ cancelled \in BOOLEAN
  /\ until \in {"reading", "returned"}
  /\ got \in Seq(0 .. MaxRV)

\* Until at some version, which NewRetryWatcher wants to be an actual one: the
\* first of the log.
Init ==
  /\ ServerInit
  /\ pc = "connect"
  /\ lastResourceVersion = 0
  /\ version = 0
  /\ sending = Nothing
  /\ stopped = FALSE
  /\ cancelled = FALSE
  /\ until = "reading"
  /\ got = <<>>

-----------------------------------------------------------------------------
(* doReceive *)

\* Mutant: the watch is started again without a version, at the most recent one.
ConnectLatest ==
  /\ pc = "connect"
  /\ version' = Len(log)
  /\ pc' = "stream"
  /\ UNCHANGED <<serverVars, lastResourceVersion, sending, stopped, cancelled, until, got>>

\* The watch starts after lastResourceVersion.
Connect ==
  /\ pc = "connect"
  /\ compacted <= lastResourceVersion
  /\ version' = lastResourceVersion
  /\ pc' = "stream"
  /\ UNCHANGED <<serverVars, lastResourceVersion, sending, stopped, cancelled, until, got>>

\* The server no longer has the changes after lastResourceVersion and says so in
\* an Error event with the status Gone.
ConnectGone ==
  /\ pc = "connect"
  /\ compacted > lastResourceVersion
  /\ pc' = "send" /\ sending' = Failure
  /\ UNCHANGED <<serverVars, lastResourceVersion, version, stopped, cancelled, until, got>>

\* Watch fails, the stream closes or an Error event with another status comes:
\* doReceive returns and is called again.
Retry ==
  /\ pc \in {"connect", "stream"}
  /\ pc' = "wait"
  /\ UNCHANGED <<serverVars, lastResourceVersion, version, sending, stopped, cancelled, until, got>>

\* An event without a resource version, or of an unknown type, is reported as an
\* error.
ReceiveBad ==
  /\ pc = "stream"
  /\ version < Len(log)
  /\ pc' = "send" /\ sending' = Failure
  /\ UNCHANGED <<serverVars, lastResourceVersion, version, stopped, cancelled, until, got>>

\* An Added, Modified or Deleted event.
Receive ==
  /\ pc = "stream"
  /\ version < Len(log)
  /\ log[version + 1].key \in Names
  /\ version' = version + 1
  /\ pc' = "send" /\ sending' = version'
  /\ UNCHANGED <<serverVars, lastResourceVersion, stopped, cancelled, until, got>>

\* The watch has nothing to report of a change elsewhere, except with a Bookmark
\* event.
ReceiveBookmark ==
  /\ pc = "stream"
  /\ version < Len(log)
  /\ log[version + 1].key = Elsewhere
  /\ version' = version + 1
  /\ lastResourceVersion' \in {lastResourceVersion, version'}
  /\ UNCHANGED <<serverVars, pc, sending, stopped, cancelled, until, got>>

\* send, when Until takes the event; receive ends after an Error event.
Send ==
  /\ pc = "send" /\ until = "reading"
  /\ got' = Append(got, sending)
  /\ sending' = Nothing
  /\ \/ /\ sending = Failure
        /\ pc' = "done"
        /\ UNCHANGED lastResourceVersion
     \/ /\ sending # Failure
        /\ pc' = "stream"
        /\ lastResourceVersion' = sending
  /\ UNCHANGED <<serverVars, version, stopped, cancelled, until>>

\* Stop is noticed in the select of doReceive, in send, or through the context
\* before doReceive is called again.
StopSeen ==
  /\ \/ pc \in {"stream", "send"} /\ stopped
     \/ pc = "wait" /\ cancelled
  /\ pc' = "done" /\ sending' = Nothing
  /\ UNCHANGED <<serverVars, lastResourceVersion, version, stopped, cancelled, until, got>>

\* Mutant: nothing ties the context to stopChan.
NoCancel ==
  /\ pc = "done" /\ stopped /\ ~cancelled
  /\ cancelled' = TRUE
  /\ UNCHANGED <<serverVars, pc, lastResourceVersion, version, sending, stopped, until, got>>

\* The goroutine that receive starts cancels the context after Stop.
Cancel ==
  /\ stopped /\ ~cancelled
  /\ cancelled' = TRUE
  /\ UNCHANGED <<serverVars, pc, lastResourceVersion, version, sending, stopped, until, got>>

\* Mutant: a watch that closed before its first event is not started again.
AgainAfterEvents ==
  /\ pc = "wait"
  /\ ~cancelled
  /\ version > 0
  /\ pc' = "connect"
  /\ UNCHANGED <<serverVars, lastResourceVersion, version, sending, stopped, cancelled, until, got>>

\* receive calls doReceive again, minRestartDelay and the delay of the status
\* later.
Again ==
  /\ pc = "wait"
  /\ ~cancelled
  /\ pc' = "connect"
  /\ UNCHANGED <<serverVars, lastResourceVersion, version, sending, stopped, cancelled, until, got>>

-----------------------------------------------------------------------------
(* UntilWithoutRetry *)

\* It returns, with the deferred Stop: the last condition is met, a condition
\* fails, or the context ends.
Return ==
  /\ until = "reading"
  /\ until' = "returned"
  /\ stopped' = TRUE
  /\ UNCHANGED <<serverVars, pc, lastResourceVersion, version, sending, cancelled, got>>

\* The channel is closed: ErrWatchClosed.
ReturnClosed == pc = "done" /\ Return

Receiving ==
  \/ Connect \/ ConnectGone \/ Retry \/ ReceiveBad \/ Receive \/ ReceiveBookmark
  \/ Send \/ StopSeen \/ Cancel \/ Again

Next ==
  \/ Receiving
  \/ Return \/ ReturnClosed
  \/ ServerNext /\ UNCHANGED <<watcherVars, until, got>>

Spec == Init /\ [][Next]_vars

\* The goroutines run, the server answers, and Until reads.
Fairness ==
  /\ WF_vars(Again) /\ WF_vars(Connect) /\ WF_vars(ConnectGone)
  /\ WF_vars(Receive) /\ WF_vars(ReceiveBookmark) /\ WF_vars(Send)
  /\ WF_vars(StopSeen) /\ WF_vars(Cancel) /\ WF_vars(ReturnClosed)

FairSpec == Spec /\ Fairness

-----------------------------------------------------------------------------

\* The changes of the watched objects up to version v.
Events(v) == {n \in 1 .. v : log[n].key \in Names}

\* The first n events that Until has received are these changes up to
\* lastResourceVersion, each once and in order.
InOrder(n) ==
  /\ {got[i] : i \in 1 .. n} = Events(lastResourceVersion)
  /\ \A i, j \in 1 .. n : i < j => got[i] < got[j]

\* "It guarantees you to see all events and in the order they happened" (Until):
\* however often the watch is started again, Until has received every change up
\* to lastResourceVersion, once, and after them at most an error.
EveryEventInOrder ==
  \/ InOrder(Len(got))
  \/ pc = "done" /\ got # <<>> /\ got[Len(got)] = Failure /\ InOrder(Len(got) - 1)

\* The goroutine of the watcher ends after Stop, wherever Stop finds it.
StopEnds == stopped ~> pc = "done"

\* When watches are not interrupted any more Until sees every change, unless it
\* returns before: it has what it waits for, its context ends, or the watch
\* failed for good, as it does when the server has forgotten the next change.
SeesAll ==
  <>[][~Retry]_vars =>
    <>[](until = "returned" \/ Events(Len(log)) \subseteq {got[i] : i \in DOMAIN got})
=============================================================================
