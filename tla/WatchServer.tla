---------------------------- MODULE WatchServer ----------------------------
(***************************************************************************)
(* The API server as the reflector (src/tools/cache/reflector.go) and the  *)
(* RetryWatcher (src/tools/watch/retrywatcher.go) use it, external to this *)
(* repository: every change of an object makes a new resource version, and *)
(* clients list the objects of one resource or watch it from a version on. *)
(*                                                                         *)
(* log[v] is the change that made version v.  An object is named by the    *)
(* version that wrote it, 0 being no object.                               *)
(***************************************************************************)
EXTENDS Integers, Sequences

CONSTANTS Names,      \* keys of the objects that are listed and watched
          Elsewhere,  \* stands for the objects that are not
          MaxRV       \* bound: changes on the server

VARIABLES log,       \* the changes made so far
          compacted  \* watches cannot start from an older version

serverVars == <<log, compacted>>

Change == [key : Names \cup {Elsewhere}, put : BOOLEAN]

ServerTypeOK ==
  /\ log \in Seq(Change) /\ Len(log) <= MaxRV
  /\ compacted \in 0 .. Len(log)

ServerInit == log = <<>> /\ compacted = 0

\* What the object named k is at version v.
At(v) ==
  [k \in Names |->
     LET S == {n \in 1 .. v : log[n].key = k}
     IN  IF S = {} THEN 0
         ELSE LET n == CHOOSE n \in S : \A m \in S : m <= n
              IN  IF log[n].put THEN n ELSE 0]

\* The resource versions of a request besides a version itself: "" asks for the
\* most recent data, "0" for any.
Latest == -1
Anything == -2

\* The versions that the answer to a list may have: data no older than asked,
\* possibly from a cache that is behind.
Answers(rv) ==
  CASE rv = Latest -> {Len(log)}
    [] rv = Anything -> 0 .. Len(log)
    [] OTHER -> rv .. Len(log)

\* An object is created or updated.
Write(k) ==
  /\ Len(log) < MaxRV
  /\ log' = Append(log, [key |-> k, put |-> TRUE])
  /\ UNCHANGED compacted

\* An object is deleted.
Remove(k) ==
  /\ Len(log) < MaxRV
  /\ At(Len(log))[k] # 0
  /\ log' = Append(log, [key |-> k, put |-> FALSE])
  /\ UNCHANGED compacted

\* An object that the clients do not watch changes: watches report nothing, or
\* the new version in a bookmark.
Touch ==
  /\ Len(log) < MaxRV
  /\ log' = Append(log, [key |-> Elsewhere, put |-> TRUE])
  /\ UNCHANGED compacted

\* Old versions are forgotten.
Compact ==
  /\ compacted' \in compacted + 1 .. Len(log)
  /\ UNCHANGED log

ServerNext ==
  \/ \E k \in Names : Write(k) \/ Remove(k)
  \/ Touch
  \/ Compact
=============================================================================
