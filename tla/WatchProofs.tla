---------------------------- MODULE WatchProofs ----------------------------
(***************************************************************************)
(* Proofs about the two watchers of tools/watch, for any objects and any   *)
(* number of changes or events: RetryWatcher gives Until every event, once *)
(* and in order, and so does the eventProcessor, whose goroutine moreover  *)
(* never sleeps on a buffer that has events.                               *)
(***************************************************************************)
EXTENDS RetryWatcher, EventProcessor, SequenceTheorems, TLAPS

-----------------------------------------------------------------------------
(* RetryWatcher. *)

\* The stream is ahead of lastResourceVersion by changes that the watch does not
\* report, and by the event that is being sent.
Ahead ==
  /\ pc = "stream" =>
       /\ lastResourceVersion <= version
       /\ \A n \in lastResourceVersion + 1 .. version : log[n].key \notin Names
  /\ pc = "send" /\ sending # Failure =>
       /\ sending = version /\ lastResourceVersion < version
       /\ log[version].key \in Names
       /\ \A n \in lastResourceVersion + 1 .. version - 1 : log[n].key \notin Names

Watched == TypeOK /\ Ahead /\ EveryEventInOrder

LEMMA Numbers ==
  ASSUME TypeOK
  PROVE  /\ log \in Seq(Change) /\ Len(log) \in Nat /\ Len(log) <= MaxRV /\ MaxRV \in Nat
         /\ lastResourceVersion \in 0 .. Len(log) /\ version \in 0 .. Len(log)
         /\ sending \in {Nothing, Failure} \cup 1 .. Len(log)
         /\ got \in Seq(0 .. MaxRV) /\ Len(got) \in Nat
BY RetryWatcherAssumption, LenProperties DEF TypeOK, ServerTypeOK

\* The server adds to its history.
LEMMA ServerAppends ==
  ASSUME TypeOK, ServerNext
  PROVE  /\ ServerTypeOK' /\ Len(log') \in Nat /\ Len(log) <= Len(log')
         /\ \A n \in 1 .. Len(log) : log'[n] = log[n]
<1>0. log \in Seq(Change) /\ Len(log) \in Nat /\ Len(log) <= MaxRV /\ MaxRV \in Nat
      /\ compacted \in 0 .. Len(log)
  BY Numbers DEF TypeOK, ServerTypeOK
<1>1. ASSUME NEW c \in Change, Len(log) < MaxRV, log' = Append(log, c), UNCHANGED compacted
      PROVE  /\ ServerTypeOK' /\ Len(log') \in Nat /\ Len(log) <= Len(log')
             /\ \A n \in 1 .. Len(log) : log'[n] = log[n]
  <2>1. /\ log' \in Seq(Change) /\ Len(log') = Len(log) + 1
        /\ \A n \in 1 .. Len(log) : log'[n] = log[n]
    BY <1>0, <1>1, AppendProperties
  <2> QED BY <1>0, <1>1, <2>1 DEF ServerTypeOK
<1>2. ASSUME NEW k \in Names, Write(k) \/ Remove(k)
      PROVE  \E c \in Change : Len(log) < MaxRV /\ log' = Append(log, c) /\ UNCHANGED compacted
  <2>1. [key |-> k, put |-> TRUE] \in Change /\ [key |-> k, put |-> FALSE] \in Change
    BY DEF Change
  <2> QED BY <1>2, <2>1 DEF Write, Remove
<1>3. ASSUME Touch
      PROVE  \E c \in Change : Len(log) < MaxRV /\ log' = Append(log, c) /\ UNCHANGED compacted
  <2>1. [key |-> Elsewhere, put |-> TRUE] \in Change
    BY DEF Change
  <2> QED BY <1>3, <2>1 DEF Touch
<1>4. CASE Compact
  BY <1>0, <1>4 DEF Compact, ServerTypeOK
<1> QED BY <1>1, <1>2, <1>3, <1>4 DEF ServerNext

\* A step of the server: what has been seen of the history stays.
LEMMA ServerKeepsWatched ==
  ASSUME Watched, ServerNext, UNCHANGED <<watcherVars, until, got>>
  PROVE  Watched'
<1>0. TypeOK /\ Ahead /\ EveryEventInOrder
  BY DEF Watched
<1>1. /\ Len(log) \in Nat /\ lastResourceVersion \in 0 .. Len(log) /\ version \in 0 .. Len(log)
      /\ UNCHANGED <<pc, lastResourceVersion, version, sending, stopped, cancelled, until, got>>
  BY <1>0, Numbers DEF watcherVars
<1>2. /\ ServerTypeOK' /\ Len(log') \in Nat /\ Len(log) <= Len(log')
      /\ \A n \in 1 .. Len(log) : log'[n] = log[n]
  BY <1>0, ServerAppends
<1>3. TypeOK'
  BY <1>0, <1>1, <1>2 DEF TypeOK
<1>4. Ahead'
  BY <1>0, <1>1, <1>2 DEF Ahead
<1>5. Events(lastResourceVersion)' = Events(lastResourceVersion)
  BY <1>1, <1>2 DEF Events
<1>6. \A n : InOrder(n)' <=> InOrder(n)
  BY <1>1, <1>5 DEF InOrder
<1>7. EveryEventInOrder'
  BY <1>0, <1>1, <1>6 DEF EveryEventInOrder
<1> QED BY <1>3, <1>4, <1>7 DEF Watched

\* Sending an event: it is the next change of a watched object.
LEMMA SendKeepsWatched ==
  ASSUME Watched, Send
  PROVE  Watched'
<1>0. TypeOK /\ Ahead /\ EveryEventInOrder
  BY DEF Watched
<1> USE Numbers
<1>1. /\ pc = "send" /\ got' = Append(got, sending) /\ sending' = Nothing
      /\ UNCHANGED <<log, compacted, version, stopped, cancelled, until>>
      /\ \/ sending = Failure /\ pc' = "done" /\ UNCHANGED lastResourceVersion
         \/ sending # Failure /\ pc' = "stream" /\ lastResourceVersion' = sending
  BY DEF Send, serverVars
<1>2. sending # Nothing /\ sending \in 0 .. Len(log) /\ sending \in 0 .. MaxRV
  BY <1>0, <1>1 DEF TypeOK, Failure
<1>3. /\ got' \in Seq(0 .. MaxRV) /\ Len(got') = Len(got) + 1
      /\ \A i \in 1 .. Len(got) : got'[i] = got[i]
      /\ got'[Len(got) + 1] = sending
  BY <1>0, <1>1, <1>2, AppendProperties
<1>4. TypeOK'
  BY <1>0, <1>1, <1>2, <1>3 DEF TypeOK, ServerTypeOK
<1>5. InOrder(Len(got))
  BY <1>0, <1>1 DEF EveryEventInOrder
<1>6. CASE sending = Failure
  <2>1. Events(lastResourceVersion)' = Events(lastResourceVersion)
    BY <1>1, <1>6 DEF Events
  <2>2. {got'[i] : i \in 1 .. Len(got)} = {got[i] : i \in 1 .. Len(got)}
    BY <1>3
  <2>3. /\ {got'[i] : i \in 1 .. Len(got)} = Events(lastResourceVersion)'
        /\ \A i, j \in 1 .. Len(got) : i < j => got'[i] < got'[j]
    BY <1>3, <1>5, <2>1, <2>2 DEF InOrder
  <2>4. Len(got') - 1 = Len(got) /\ got' # <<>>
    BY <1>0, <1>3, EmptySeq
  <2>5. EveryEventInOrder'
    BY <1>1, <1>3, <1>6, <2>3, <2>4 DEF EveryEventInOrder, InOrder
  <2>6. Ahead'
    BY <1>1, <1>6 DEF Ahead
  <2> QED BY <1>4, <2>5, <2>6 DEF Watched
<1>7. CASE sending # Failure
  <2>1. /\ sending = version /\ lastResourceVersion < version /\ log[version].key \in Names
        /\ \A n \in lastResourceVersion + 1 .. version - 1 : log[n].key \notin Names
        /\ lastResourceVersion' = version /\ pc' = "stream"
    BY <1>0, <1>1, <1>7 DEF Ahead
  <2>2. Events(lastResourceVersion)' = Events(lastResourceVersion) \cup {version}
    <3>1. ASSUME NEW n \in 1 .. version, n # version, log[n].key \in Names
          PROVE  n \in 1 .. lastResourceVersion
      BY <1>0, <2>1, <3>1
    <3> QED BY <1>0, <1>1, <2>1, <3>1 DEF Events
  <2>3. \A n \in Events(lastResourceVersion) : n < version
    BY <1>0, <2>1 DEF Events
  <2>4. \A i \in 1 .. Len(got) : got[i] \in Events(lastResourceVersion)
    BY <1>5 DEF InOrder
  <2>5. ASSUME NEW i \in 1 .. Len(got'), NEW j \in 1 .. Len(got'), i < j
        PROVE  got'[i] < got'[j]
    <3>1. i \in 1 .. Len(got)
      BY <1>0, <1>3, <2>5
    <3>2. CASE j = Len(got) + 1
      BY <1>3, <2>1, <2>3, <2>4, <3>1, <3>2
    <3>3. CASE j # Len(got) + 1
      <4>1. j \in 1 .. Len(got)
        BY <1>0, <1>3, <3>3
      <4> QED BY <1>3, <1>5, <2>5, <3>1, <4>1 DEF InOrder
    <3> QED BY <3>2, <3>3
  <2>6. {got'[i] : i \in 1 .. Len(got')} = {got[i] : i \in 1 .. Len(got)} \cup {version}
    <3>1. 1 .. Len(got') = 1 .. Len(got) \cup {Len(got) + 1}
      BY <1>0, <1>3
    <3> QED BY <1>3, <2>1, <3>1
  <2>7. {got'[i] : i \in 1 .. Len(got')} = Events(lastResourceVersion)'
    BY <1>5, <2>2, <2>6 DEF InOrder
  <2>8. EveryEventInOrder'
    BY <2>5, <2>7 DEF EveryEventInOrder, InOrder
  <2>9. Ahead'
    BY <1>0, <1>1, <2>1 DEF Ahead
  <2> QED BY <1>4, <2>8, <2>9 DEF Watched
<1> QED BY <1>6, <1>7

LEMMA NextKeepsWatched ==
  ASSUME Watched, [Next]_vars
  PROVE  Watched'
<1>0. TypeOK /\ Ahead /\ EveryEventInOrder
  BY DEF Watched
<1> USE Numbers
\* What Until has received stays as good as lastResourceVersion was.
<1>1. ASSUME UNCHANGED <<serverVars, got, lastResourceVersion>>, pc = "done" => pc' = "done"
      PROVE  EveryEventInOrder'
  <2>1. \A n : InOrder(n)' <=> InOrder(n)
    BY <1>1 DEF InOrder, Events, serverVars
  <2> QED BY <1>0, <1>1, <2>1 DEF EveryEventInOrder
<1>2. CASE Connect
  <2>1. TypeOK'
    BY <1>0, <1>2 DEF Connect, TypeOK, ServerTypeOK, serverVars
  <2>2. Ahead'
    BY <1>0, <1>2 DEF Connect, Ahead, serverVars
  <2> QED BY <1>1, <1>2, <2>1, <2>2 DEF Connect, Watched
<1>3. CASE ConnectGone \/ ReceiveBad
  <2>1. TypeOK'
    BY <1>0, <1>3 DEF ConnectGone, ReceiveBad, TypeOK, ServerTypeOK, serverVars, Failure, Nothing
  <2>2. Ahead'
    BY <1>0, <1>3 DEF ConnectGone, ReceiveBad, Ahead, serverVars
  <2> QED BY <1>1, <1>3, <2>1, <2>2 DEF ConnectGone, ReceiveBad, Watched
<1>4. CASE Retry \/ Again
  <2>1. TypeOK'
    BY <1>0, <1>4 DEF Retry, Again, TypeOK, ServerTypeOK, serverVars
  <2>2. Ahead'
    BY <1>0, <1>4 DEF Retry, Again, Ahead
  <2> QED BY <1>1, <1>4, <2>1, <2>2 DEF Retry, Again, Watched
<1>5. CASE Receive
  <2>1. /\ pc = "stream" /\ version < Len(log) /\ log[version + 1].key \in Names
        /\ version' = version + 1 /\ pc' = "send" /\ sending' = version + 1
        /\ UNCHANGED <<log, compacted, lastResourceVersion, stopped, cancelled, until, got>>
    BY <1>5 DEF Receive, serverVars
  <2>2. version + 1 \in 1 .. Len(log) /\ version + 1 # Nothing
    BY <1>0, <2>1 DEF Nothing
  <2>3. TypeOK'
    BY <1>0, <2>1, <2>2 DEF TypeOK, ServerTypeOK
  <2>4. Ahead'
    BY <1>0, <2>1, <2>2 DEF Ahead
  <2> QED BY <1>1, <2>1, <2>3, <2>4 DEF Watched, serverVars
<1>6. CASE ReceiveBookmark
  <2>1. /\ pc = "stream" /\ version < Len(log) /\ log[version + 1].key = Elsewhere
        /\ version' = version + 1 /\ lastResourceVersion' \in {lastResourceVersion, version + 1}
        /\ UNCHANGED <<log, compacted, pc, sending, stopped, cancelled, until, got>>
    BY <1>6 DEF ReceiveBookmark, serverVars
  <2>2. log[version + 1].key \notin Names
    BY <2>1, RetryWatcherAssumption
  <2>3. /\ lastResourceVersion <= version
        /\ \A n \in lastResourceVersion + 1 .. version : log[n].key \notin Names
    BY <1>0, <2>1 DEF Ahead
  <2>4. TypeOK'
    BY <1>0, <2>1 DEF TypeOK, ServerTypeOK
  <2>5. ASSUME NEW n \in lastResourceVersion + 1 .. version + 1
        PROVE  log[n].key \notin Names
    BY <1>0, <2>2, <2>3
  <2>6. Ahead'
    BY <1>0, <2>1, <2>3, <2>5 DEF Ahead
  <2>7. Events(lastResourceVersion)' = Events(lastResourceVersion)
    <3>1. CASE lastResourceVersion' = lastResourceVersion
      BY <2>1, <3>1 DEF Events
    <3>2. CASE lastResourceVersion' = version + 1
      <4>1. \A n \in 1 .. version + 1 : log[n].key \in Names => n \in 1 .. lastResourceVersion
        BY <1>0, <2>3, <2>5
      <4> QED BY <1>0, <2>1, <2>3, <3>2, <4>1 DEF Events
    <3> QED BY <2>1, <3>1, <3>2
  <2>8. \A n : InOrder(n)' <=> InOrder(n)
    BY <2>1, <2>7 DEF InOrder
  <2>9. EveryEventInOrder'
    BY <1>0, <2>1, <2>8 DEF EveryEventInOrder
  <2> QED BY <2>4, <2>6, <2>9 DEF Watched
<1>7. CASE StopSeen
  <2>1. TypeOK'
    BY <1>0, <1>7 DEF StopSeen, TypeOK, ServerTypeOK, serverVars
  <2>2. Ahead'
    BY <1>0, <1>7 DEF StopSeen, Ahead
  <2> QED BY <1>1, <1>7, <2>1, <2>2 DEF StopSeen, Watched
<1>8. CASE Cancel \/ Return \/ ReturnClosed \/ UNCHANGED vars
  <2>1. /\ UNCHANGED <<serverVars, pc, lastResourceVersion, version, sending, got>>
        /\ stopped' \in BOOLEAN /\ cancelled' \in BOOLEAN /\ until' \in {"reading", "returned"}
    BY <1>0, <1>8 DEF Cancel, Return, ReturnClosed, vars, watcherVars, TypeOK
  <2>2. TypeOK'
    BY <1>0, <2>1 DEF TypeOK, ServerTypeOK, serverVars
  <2>3. Ahead'
    BY <1>0, <2>1 DEF Ahead, serverVars
  <2> QED BY <1>1, <2>1, <2>2, <2>3 DEF Watched
<1> QED
  BY <1>2, <1>3, <1>4, <1>5, <1>6, <1>7, <1>8, SendKeepsWatched, ServerKeepsWatched
     DEF Next, Receiving

(***************************************************************************)
(* However often doReceive starts the watch again, and whatever the server *)
(* forgets, the inductive invariant holds: RetryWatcher's stream is ahead  *)
(* of lastResourceVersion only by changes that are not to be reported and  *)
(* by the one event in send.                                               *)
(***************************************************************************)
THEOREM WatchedCorrect == Spec => []Watched
<1>1. ASSUME Init
      PROVE  Watched
  <2>1. <<>> \in Seq(Change) /\ <<>> \in Seq(0 .. MaxRV) /\ Len(<<>>) = 0
    BY EmptySeq
  <2>2. TypeOK
    <3>1. log = <<>> /\ compacted = 0 /\ Len(log) = 0 /\ log \in Seq(Change)
      BY <1>1, <2>1 DEF Init, ServerInit
    <3>2. ServerTypeOK
      BY <3>1, RetryWatcherAssumption DEF ServerTypeOK
    <3>3. /\ pc = "connect" /\ sending = Nothing /\ lastResourceVersion = 0 /\ version = 0
          /\ stopped \in BOOLEAN /\ cancelled \in BOOLEAN /\ until = "reading"
          /\ got \in Seq(0 .. MaxRV)
      BY <1>1, <2>1 DEF Init
    <3>4. lastResourceVersion \in 0 .. Len(log) /\ version \in 0 .. Len(log)
      BY <3>1, <3>3
    <3> QED BY <3>2, <3>3, <3>4 DEF TypeOK
  <2>3. Ahead
    BY <1>1 DEF Init, Ahead
  <2>4. Events(lastResourceVersion) = {} /\ InOrder(0)
    BY <1>1 DEF Init, Events, InOrder
  <2>5. EveryEventInOrder
    BY <1>1, <2>1, <2>4 DEF Init, EveryEventInOrder
  <2> QED BY <2>2, <2>3, <2>5 DEF Watched
<1>2. Init => Watched
  BY <1>1
<1>3. Watched /\ [Next]_vars => Watched'
  BY NextKeepsWatched
<1> QED BY <1>2, <1>3, PTL DEF Spec

(***************************************************************************)
(* Type correctness of RetryWatcher and its reader: lastResourceVersion    *)
(* and what is sent are versions the server has made, and an event is at   *)
(* hand exactly while receive is in send.                                  *)
(***************************************************************************)
THEOREM WatcherTypeCorrect == Spec => []TypeOK
<1>1. Watched => TypeOK
  BY DEF Watched
<1> QED BY <1>1, WatchedCorrect, PTL

(***************************************************************************)
(* What Until promises: every event, once and in the order of the changes, *)
(* although RetryWatcher starts its watch again whenever it is closed, and *)
(* an error only as the last one.                                          *)
(***************************************************************************)
THEOREM EveryEventInOrderCorrect == Spec => []EveryEventInOrder
<1>1. Watched => EveryEventInOrder
  BY DEF Watched
<1> QED BY <1>1, WatchedCorrect, PTL

-----------------------------------------------------------------------------
(* EventProcessor. *)

\* What makes it inductive: the batch and the buffer continue the sequence.
Continued ==
  /\ runner # "write" => batch = <<>>
  /\ \A i \in 1 .. Len(batch) : batch[i] = Len(written) + i
  /\ runner # "returned" =>
       /\ \A i \in 1 .. Len(buff) : buff[i] = Len(written) + Len(batch) + i
       /\ pushed = Len(written) + Len(batch) + Len(buff)
  /\ informer = "running" <=> ~done
  /\ runner = "returned" => done

OrderInv == ProcessorTypeOK /\ EventsInOrder /\ Continued

(***************************************************************************)
(* However many events are pushed and wherever stop finds run, what the    *)
(* reader of the eventProcessor has received is a first part of what was   *)
(* pushed.                                                                 *)
(***************************************************************************)
THEOREM OrderCorrect == ProcessorSpec => []EventsInOrder
<1>1. ProcessorInit => OrderInv
  <2> <<>> \in Seq(Nat) /\ Len(<<>>) = 0
    OBVIOUS
  <2> SUFFICES ASSUME ProcessorInit PROVE ProcessorTypeOK /\ EventsInOrder /\ Continued
    BY DEF OrderInv
  <2>1. ProcessorTypeOK
    BY DEF ProcessorInit, ProcessorTypeOK, RunnerStates
  <2>2. EventsInOrder /\ Continued
    BY DEF ProcessorInit, EventsInOrder, Continued
  <2> QED
    BY <2>1, <2>2
<1>2. OrderInv /\ [ProcessorNext]_processorVars => OrderInv'
  <2> SUFFICES ASSUME OrderInv, [ProcessorNext]_processorVars PROVE OrderInv'
    OBVIOUS
  <2> USE DEF OrderInv, ProcessorTypeOK, RunnerStates, EventsInOrder, Continued
  <2>1. CASE TakeBatchLock
    BY <2>1 DEF TakeBatchLock
  <2>2. CASE TakeBatchWait
    BY <2>2 DEF TakeBatchWait
  <2>3. CASE Wait
    BY <2>3 DEF Wait
  <2>4. CASE TakeBatch
    <3>1. /\ Len(batch) = 0 /\ Len(buff') = 0 /\ buff' \in Seq(Nat)
          /\ batch' = buff /\ runner # "returned" /\ runner' = "write"
          /\ written' = written /\ pushed' = pushed
      BY <2>4 DEF TakeBatch
    <3>2. Len(written) \in Nat /\ Len(batch) \in Nat /\ Len(buff) \in Nat
      OBVIOUS
    <3>3. Continued'
      BY <2>4, <3>1, <3>2 DEF TakeBatch
    <3> QED
      BY <2>4, <3>1, <3>3 DEF TakeBatch
  <2>5. CASE WriteBatchReturns
    <3>1. /\ Len(batch') = 0 /\ batch' \in Seq(Nat) /\ batch' = <<>>
          /\ runner' = IF done THEN "returned" ELSE "lock"
          /\ ~done => batch' = batch
          /\ buff' = buff /\ written' = written /\ pushed' = pushed
      BY <2>5 DEF WriteBatchReturns
    <3>2. Continued'
      <4>1. CASE done
        BY <2>5, <3>1, <4>1 DEF WriteBatchReturns
      <4>2. CASE ~done
        BY <2>5, <3>1, <4>2 DEF WriteBatchReturns
      <4> QED
        BY <4>1, <4>2
    <3> QED
      BY <2>5, <3>1, <3>2 DEF WriteBatchReturns
  <2>6. CASE WriteEvent
    <3>1. /\ batch \in Seq(Nat) /\ written \in Seq(Nat)
          /\ batch # <<>> /\ Len(batch) > 0
          /\ Head(batch) = batch[1] /\ batch[1] = Len(written) + 1
          /\ written' = Append(written, Len(written) + 1)
          /\ batch' = Tail(batch)
      BY <2>6 DEF WriteEvent
    <3>2. /\ Len(written') = Len(written) + 1 /\ Len(batch') = Len(batch) - 1
          /\ written' \in Seq(Nat) /\ batch' \in Seq(Nat)
      BY <3>1
    <3>3. EventsInOrder'
      BY <3>1, <3>2
    <3>4. \A i \in 1 .. Len(batch') : batch'[i] = Len(written') + i
      BY <3>1, <3>2
    <3> QED
      BY <2>6, <3>1, <3>2, <3>3, <3>4 DEF WriteEvent
  <2>7. CASE push
    <3>1. /\ Len(buff') = Len(buff) + 1 /\ buff' \in Seq(Nat)
          /\ pushed' = pushed + 1 /\ runner # "returned"
          /\ runner' \in RunnerStates \ {"returned"}
          /\ runner' # "write" => runner # "write"
      BY <2>7 DEF push, Signal
    <3>2. ASSUME NEW i \in 1 .. Len(buff')
          PROVE  buff'[i] = Len(written) + Len(batch) + i
      <4>0. buff \in Seq(Nat) /\ pushed + 1 \in Nat /\ buff' = Append(buff, pushed + 1)
        BY <2>7 DEF push
      <4>1. /\ i <= Len(buff) => buff'[i] = buff[i]
            /\ i = Len(buff) + 1 => buff'[i] = pushed + 1
        BY <4>0
      <4>2. /\ Len(written) \in Nat /\ Len(batch) \in Nat /\ Len(buff) \in Nat
            /\ i \in 1 .. Len(buff) + 1
        BY <3>1
      <4>3. CASE i <= Len(buff)
        BY <3>1, <4>1, <4>2, <4>3
      <4>4. CASE i = Len(buff) + 1
        BY <3>1, <4>1, <4>2, <4>4
      <4> QED
        BY <4>2, <4>3, <4>4
    <3> QED
      BY <2>7, <3>1, <3>2 DEF push
  <2>8. CASE stopClose
    BY <2>8 DEF stopClose
  <2>9. CASE stopSignal
    BY <2>9 DEF stopSignal, Signal
  <2>10. CASE UNCHANGED processorVars
    BY <2>10 DEF processorVars
  <2> QED
    BY <2>1, <2>2, <2>3, <2>4, <2>5, <2>6, <2>7, <2>8, <2>9, <2>10
       DEF ProcessorNext, Run
<1>3. OrderInv => EventsInOrder
  BY DEF OrderInv
<1> QED
  BY <1>1, <1>2, <1>3, PTL DEF ProcessorSpec

\* The lock is held from the test in takeBatch's loop to the registration in Wait,
\* so that no push comes in between; after the registration its signal is heard.
Unattended ==
  /\ locked <=> runner \in {"check", "wait"}
  /\ runner \in {"wait", "asleep"} => buff = <<>>

(***************************************************************************)
(* The goroutine of the eventProcessor does not miss the signal of a push, *)
(* as it can miss that of stop.                                            *)
(***************************************************************************)
THEOREM AwakeForEventsCorrect == ProcessorSpec => []AwakeForEvents
<1>1. ProcessorInit => Unattended
  BY DEF ProcessorInit, Unattended
<1>2. Unattended /\ [ProcessorNext]_processorVars => Unattended'
  <2> SUFFICES ASSUME Unattended, [ProcessorNext]_processorVars PROVE Unattended'
    OBVIOUS
  <2> USE DEF Unattended
  <2>1. CASE TakeBatchLock \/ TakeBatchWait \/ Wait
    BY <2>1 DEF TakeBatchLock, TakeBatchWait, Wait
  <2>2. CASE TakeBatch \/ WriteEvent \/ WriteBatchReturns
    BY <2>2 DEF TakeBatch, WriteEvent, WriteBatchReturns
  <2>3. CASE push
    BY <2>3 DEF push, Signal
  <2>4. CASE stopClose \/ stopSignal
    BY <2>4 DEF stopClose, stopSignal, Signal
  <2>5. CASE UNCHANGED processorVars
    BY <2>5 DEF processorVars
  <2> QED BY <2>1, <2>2, <2>3, <2>4, <2>5 DEF ProcessorNext, Run
<1>3. Unattended => AwakeForEvents
  BY DEF Unattended, AwakeForEvents
<1> QED BY <1>1, <1>2, <1>3, PTL DEF ProcessorSpec
=============================================================================
