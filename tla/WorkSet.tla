------------------------------ MODULE WorkSet ------------------------------
(***************************************************************************)
(* What the work queue of util/workqueue promises its users, stated        *)
(* without the slice, the two maps and the condition variable: a set of    *)
(* items that need work and, for each worker, the item it holds.  doc.go   *)
(* calls the promise "Stingy": an item is held by at most one worker at a  *)
(* time, adding an item that already needs work changes nothing, and an    *)
(* item added while it is held is handed out once more after it is         *)
(* released.                                                               *)
(***************************************************************************)
CONSTANTS Items,    \* the items producers add
          Workers,  \* the goroutines that call Get and Done in a loop
          NoItem    \* what a worker without an item holds

VARIABLES pending,  \* the items that need (more) work
          held,     \* held[w] is the item worker w is working on, or NoItem
          gone,     \* the workers that were told to stop
          closed    \* no further item is accepted

vars == <<pending, held, gone, closed>>

InFlight == {held[w] : w \in Workers} \ {NoItem}

Init ==
  /\ pending = {}
  /\ held = [w \in Workers |-> NoItem]
  /\ gone = {}
  /\ closed = FALSE

\* A producer asks for work on i.
Ask(i) ==
  /\ ~closed
  /\ pending' = pending \cup {i}
  /\ UNCHANGED <<held, gone, closed>>

\* A free worker is given an item that no worker holds.
Take(w, i) ==
  /\ w \notin gone
  /\ held[w] = NoItem
  /\ i \in pending \ InFlight
  /\ held' = [held EXCEPT ![w] = i]
  /\ pending' = pending \ {i}
  /\ UNCHANGED <<gone, closed>>

\* The worker is finished with its item.
Finish(w) ==
  /\ held[w] # NoItem
  /\ held' = [held EXCEPT ![w] = NoItem]
  /\ UNCHANGED <<pending, gone, closed>>

Close ==
  /\ closed' = TRUE
  /\ UNCHANGED <<pending, held, gone>>

\* A worker is told to stop only when nothing is left to hand out.
Leave(w) ==
  /\ closed
  /\ w \notin gone
  /\ held[w] = NoItem
  /\ pending \subseteq InFlight
  /\ gone' = gone \cup {w}
  /\ UNCHANGED <<pending, held, closed>>

Next ==
  \/ \E i \in Items : Ask(i)
  \/ \E w \in Workers, i \in Items : Take(w, i)
  \/ \E w \in Workers : Finish(w) \/ Leave(w)
  \/ Close

Safety == Init /\ [][Next]_vars

(***************************************************************************)
(* No item is starved: whenever it can be handed out again and again, it   *)
(* is.                                                                     *)
(***************************************************************************)
Fairness == \A i \in Items : SF_vars(\E w \in Workers : Take(w, i))

Spec == Safety /\ Fairness
=============================================================================
