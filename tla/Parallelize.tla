---------------------------- MODULE Parallelize ----------------------------
(***************************************************************************)
(* ParallelizeUntil of src/util/workqueue/parallelizer.go: the pieces are  *)
(* cut into chunks, the chunks put in a closed channel, and workers take   *)
(* chunks from it until it is empty or the context is cancelled.  The      *)
(* arguments are chosen in Init, so that all of them are explored.         *)
(***************************************************************************)
EXTENDS Integers, FiniteSets

CONSTANTS MaxWorkers,   \* bound of the argument workers
          MaxPieces,    \* bound of the argument pieces
          MaxChunkSize  \* bound of the option WithChunkSize

ASSUME ParallelizeAssumption ==
  /\ MaxWorkers \in Nat \ {0}
  /\ MaxPieces \in Nat
  /\ MaxChunkSize \in Nat \ {0}

VARIABLES workers,    \* the goroutines that are started
          pieces,     \* argument
          chunkSize,  \* after the correction of sizes below one
          toProcess,  \* the chunks still in the channel
          cancelled,  \* the context is done
          pc,         \* where each worker is
          p, end,     \* loop variables of each worker
          count,      \* history: how often doWorkPiece was called per piece
          returned    \* wg.Wait is over

vars == <<workers, pieces, chunkSize, toProcess, cancelled, pc, p, end, count, returned>>
args == <<workers, pieces, chunkSize>>

\* Mutant: the last, shorter chunk is forgotten.
FloorDiv(a, b) == a \div b

ceilDiv(a, b) == (a + b - 1) \div b

\* Mutant: the end of a chunk is taken to be its last piece.
ChunkEndInclusive(start) ==
  IF start + chunkSize + 1 > pieces THEN pieces ELSE start + chunkSize + 1

\* The end of a chunk, not beyond the last piece.
ChunkEnd(start) == IF start + chunkSize > pieces THEN pieces ELSE start + chunkSize

TypeOK ==
  /\ workers \in SUBSET (1 .. MaxWorkers)
  /\ pieces \in 0 .. MaxPieces
  /\ chunkSize \in 1 .. MaxChunkSize
  /\ toProcess \in SUBSET (0 .. MaxPieces - 1)
  /\ cancelled \in BOOLEAN
  /\ pc \in [1 .. MaxWorkers -> {"range", "piece", "call", "done"}]
  /\ p \in [1 .. MaxWorkers -> 0 .. MaxPieces]
  /\ end \in [1 .. MaxWorkers -> 0 .. MaxPieces]
  /\ count \in [0 .. MaxPieces - 1 -> Nat]
  /\ returned \in BOOLEAN

\* The call up to the start of the goroutines; no pieces means no work.
Init ==
  /\ pieces \in 0 .. MaxPieces
  /\ \E size \in 0 .. MaxChunkSize : chunkSize = IF size < 1 THEN 1 ELSE size
  /\ toProcess = 0 .. ceilDiv(pieces, chunkSize) - 1
  /\ \E n \in 1 .. MaxWorkers :
       workers = 1 .. (IF Cardinality(toProcess) < n THEN Cardinality(toProcess) ELSE n)
  /\ cancelled \in BOOLEAN
  /\ pc = [w \in 1 .. MaxWorkers |-> "range"]
  /\ p = [w \in 1 .. MaxWorkers |-> 0]
  /\ end = [w \in 1 .. MaxWorkers |-> 0]
  /\ count = [i \in 0 .. MaxPieces - 1 |-> 0]
  /\ returned = (pieces = 0)

\* for chunk := range toProcess: the channel hands chunks out in order.
NextChunk(w) ==
  /\ pc[w] = "range"
  /\ toProcess # {}
  /\ LET chunk == CHOOSE c \in toProcess : \A d \in toProcess : c <= d
         start == chunk * chunkSize
     IN  /\ toProcess' = toProcess \ {chunk}
         /\ p' = [p EXCEPT ![w] = start]
         /\ end' = [end EXCEPT ![w] = ChunkEnd(start)]
  /\ pc' = [pc EXCEPT ![w] = "piece"]
  /\ UNCHANGED <<args, cancelled, count, returned>>

\* Mutant: the channel is never closed, a worker leaves it only when cancelled.
NoChunkUnclosed(w) ==
  /\ pc[w] = "range"
  /\ toProcess = {}
  /\ cancelled
  /\ pc' = [pc EXCEPT ![w] = "done"]
  /\ UNCHANGED <<args, toProcess, cancelled, p, end, count, returned>>

\* The closed channel is empty: the worker is finished.
NoChunk(w) ==
  /\ pc[w] = "range"
  /\ toProcess = {}
  /\ pc' = [pc EXCEPT ![w] = "done"]
  /\ UNCHANGED <<args, toProcess, cancelled, p, end, count, returned>>

\* The chunk is finished.
ChunkDone(w) ==
  /\ pc[w] = "piece"
  /\ p[w] >= end[w]
  /\ pc' = [pc EXCEPT ![w] = "range"]
  /\ UNCHANGED <<args, toProcess, cancelled, p, end, count, returned>>

\* The select before a piece: stop, or call doWorkPiece(p).
Select(w) ==
  /\ pc[w] = "piece"
  /\ p[w] < end[w]
  /\ \/ /\ cancelled
        /\ pc' = [pc EXCEPT ![w] = "done"]
        /\ UNCHANGED count
     \/ /\ ~cancelled
        /\ pc' = [pc EXCEPT ![w] = "call"]
        /\ count' = [count EXCEPT ![p[w]] = @ + 1]
  /\ UNCHANGED <<args, toProcess, cancelled, p, end, returned>>

\* doWorkPiece returns.
PieceDone(w) ==
  /\ pc[w] = "call"
  /\ p' = [p EXCEPT ![w] = @ + 1]
  /\ pc' = [pc EXCEPT ![w] = "piece"]
  /\ UNCHANGED <<args, toProcess, cancelled, end, count, returned>>

Cancel ==
  /\ ~cancelled
  /\ cancelled' = TRUE
  /\ UNCHANGED <<args, toProcess, pc, p, end, count, returned>>

\* wg.Wait
Wait ==
  /\ ~returned
  /\ \A w \in workers : pc[w] = "done"
  /\ returned' = TRUE
  /\ UNCHANGED <<args, toProcess, cancelled, pc, p, end, count>>

Step(w) == NextChunk(w) \/ NoChunk(w) \/ ChunkDone(w) \/ Select(w) \/ PieceDone(w)

Next == (\E w \in workers : Step(w)) \/ Cancel \/ Wait

\* Goroutines run, and doWorkPiece returns.
Spec ==
  /\ Init /\ [][Next]_vars
  /\ \A w \in 1 .. MaxWorkers : WF_vars(w \in workers /\ Step(w))
  /\ WF_vars(Wait)

-----------------------------------------------------------------------------
\* When ParallelizeUntil returns no piece is still being worked on, and
\* unless the context was cancelled every piece was done, for every relation
\* of pieces, chunk size and workers.
AllDoneOnReturn ==
  returned =>
    /\ \A w \in workers : pc[w] # "call"
    /\ ~cancelled => \A i \in 0 .. pieces - 1 : count[i] = 1

\* doWorkPiece is never called twice for a piece: chunks do not overlap and no
\* chunk is given to two workers.
AtMostOnce == \A i \in 0 .. MaxPieces - 1 : count[i] <= 1

\* ParallelizeUntil returns, cancelled or not.
Returns == <>returned
=============================================================================
