--------------------------- MODULE EventProcessor ---------------------------
(***************************************************************************)
(* The eventProcessor of tools/watch/informerwatcher.go: it buffers the    *)
(* events an informer's handlers push and writes them to the channel a     *)
(* watcher reads.  Two goroutines share it: run, and the goroutine of      *)
(* NewIndexerInformerWatcher, whose handlers push while the informer runs  *)
(* and which calls stop once informer.Run has returned.                    *)
(*                                                                         *)
(* A sync.Cond keeps a list of waiters: Wait adds the caller to the list   *)
(* and only then unlocks and sleeps, Signal wakes one goroutine of the     *)
(* list and does nothing when the list is empty.  stop signals without     *)
(* holding the lock, so the test in takeBatch's loop, the registration     *)
(* and the sleep are steps of their own here.                              *)
(***************************************************************************)
EXTENDS Naturals, Sequences

CONSTANT MaxPushes    \* a bound: how many events the informer pushes

VARIABLES runner,     \* where run is
          locked,     \* cond.L is held by run (push holds it within one step)
          buff,       \* buff: the events pushed and not taken, each its number
          batch,      \* the events writeBatch has yet to write
          done,       \* the channel done is closed
          informer,   \* where the goroutine that pushes and stops is
          pushed,     \* the number of pushes made
          written     \* history: the events the reader of out received

processorVars == <<runner, locked, buff, batch, done, informer, pushed, written>>

RunnerStates ==
  {"lock", "check", "wait", "asleep", "woken", "write", "returned"}

ProcessorTypeOK ==
  /\ runner \in RunnerStates
  /\ locked \in BOOLEAN
  /\ buff \in Seq(Nat)
  /\ batch \in Seq(Nat)
  /\ done \in BOOLEAN
  /\ informer \in {"running", "closed", "signalled"}
  /\ pushed \in Nat
  /\ written \in Seq(Nat)

ProcessorInit ==
  /\ runner = "lock"
  /\ locked = FALSE
  /\ buff = <<>>
  /\ batch = <<>>
  /\ done = FALSE
  /\ informer = "running"
  /\ pushed = 0
  /\ written = <<>>

\* Signal wakes run when it is on the list of waiters.
Signal == runner' = IF runner = "asleep" THEN "woken" ELSE runner

-----------------------------------------------------------------------------
(* The goroutine run: takeBatch, writeBatch, stopped. *)

TakeBatchLock ==
  /\ runner \in {"lock", "woken"}
  /\ ~locked
  /\ locked' = TRUE
  /\ runner' = "check"
  /\ UNCHANGED <<buff, batch, done, informer, pushed, written>>

\* The loop's condition holds: takeBatch calls Wait.
TakeBatchWait ==
  /\ runner = "check"
  /\ buff = <<>> /\ ~done
  /\ runner' = "wait"
  /\ UNCHANGED <<locked, buff, batch, done, informer, pushed, written>>

\* Wait adds run to the list of waiters and unlocks.
Wait ==
  /\ runner = "wait"
  /\ runner' = "asleep"
  /\ locked' = FALSE
  /\ UNCHANGED <<buff, batch, done, informer, pushed, written>>

TakeBatch ==
  /\ runner = "check"
  /\ buff # <<>> \/ done
  /\ batch' = buff
  /\ buff' = <<>>
  /\ locked' = FALSE
  /\ runner' = "write"
  /\ UNCHANGED <<done, informer, pushed, written>>

\* The select of writeBatch, when a reader takes the event.
WriteEvent ==
  /\ runner = "write"
  /\ batch # <<>>
  /\ written' = Append(written, Head(batch))
  /\ batch' = Tail(batch)
  /\ UNCHANGED <<runner, locked, buff, done, informer, pushed>>

\* writeBatch returns, at the batch's end or because done is closed, and run
\* tests stopped.
WriteBatchReturns ==
  /\ runner = "write"
  /\ batch = <<>> \/ done
  /\ batch' = <<>>
  /\ runner' = IF done THEN "returned" ELSE "lock"
  /\ UNCHANGED <<locked, buff, done, informer, pushed, written>>

-----------------------------------------------------------------------------
(* The informer's goroutine. *)

push ==
  /\ informer = "running"
  /\ pushed < MaxPushes
  /\ ~locked
  /\ pushed' = pushed + 1
  /\ buff' = Append(buff, pushed + 1)
  /\ Signal
  /\ UNCHANGED <<locked, batch, done, informer, written>>

stopClose ==
  /\ informer = "running"
  /\ done' = TRUE
  /\ informer' = "closed"
  /\ UNCHANGED <<runner, locked, buff, batch, pushed, written>>

stopSignal ==
  /\ informer = "closed"
  /\ informer' = "signalled"
  /\ Signal
  /\ UNCHANGED <<locked, buff, batch, done, pushed, written>>

-----------------------------------------------------------------------------

Run == TakeBatchLock \/ TakeBatchWait \/ Wait \/ TakeBatch \/ WriteBatchReturns

ProcessorNext == Run \/ WriteEvent \/ push \/ stopClose \/ stopSignal

ProcessorSpec == ProcessorInit /\ [][ProcessorNext]_processorVars

(***************************************************************************)
(* The goroutines are scheduled: a step of run that is possible, and the   *)
(* second half of stop, are taken.  Nothing obliges the informer to push   *)
(* or to stop, nor a reader to read.                                       *)
(***************************************************************************)
FairProcessorSpec ==
  ProcessorSpec /\ WF_processorVars(Run) /\ WF_processorVars(stopSignal)

-----------------------------------------------------------------------------

\* TestEventProcessorExit says that run exits once stop was called, wherever run
\* was at that moment.  stop closes done and signals without the lock: when both
\* fall between the test in takeBatch's loop and the registration in Wait, the
\* signal wakes nobody, nothing is pushed any more, and run sleeps for ever.
ExitsOnceStopped == (informer = "signalled") ~> (runner = "returned")

\* The reader gets the events in the order of the pushes, none twice and none
\* left out before one it gets: takeBatch takes the whole buffer, and writeBatch
\* only gives up a batch when run is about to exit.
EventsInOrder == \A i \in 1 .. Len(written) : written[i] = i

\* What happens to the signal of stop does not happen to that of push, which holds
\* the lock: run never sleeps while there are events in the buffer.
AwakeForEvents == runner = "asleep" => buff = <<>>
=============================================================================
