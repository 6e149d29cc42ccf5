------------------------ MODULE SharedInformerProofs ------------------------
(***************************************************************************)
(* Proofs, for any handlers, keys, versions and number of deltas, of the   *)
(* safety properties of SharedInformer.                                    *)
(***************************************************************************)
EXTENDS SharedInformer, QueueLemmas, FiniteSetTheorems

\* How far the informer has come.
Phases ==
  /\ main = "new" => ~populated
  /\ ~populated => /\ loop \in {"idle", "exited"} /\ initial = {}
                   /\ indexer = [k \in Keys |-> Absent]
  /\ processor \in {"stopping", "waiting", "returned"} => stopped
  /\ stopped => \A h \in Handlers : call[h] \notin {"addBlocked", "addListener", "replay"}

\* What processLoop works on.
Working ==
  /\ IF loop \in {"idle", "exited"} THEN work = Idle ELSE work.key \in Keys
  /\ loop \in {"distribute", "send", "processed"} =>
       /\ work.note \in Notifications
       /\ work.note.key = work.key
       /\ work.note.new = indexer[work.key]
       /\ work.note.isInInitialList => work.isInInitialList
  /\ loop # "send" => work.targets = {}
  /\ work.targets \subseteq listeners
  /\ loop = "popped" => deltas > 0

\* blockDeltas keeps processLoop and the calls that register and remove apart.
Blocked ==
  loop \in {"distribute", "send", "processed"} =>
    \A h \in Handlers : call[h] \notin {"addListener", "replay", "removeListener"}

\* Before it is registered, a handler has been told nothing; while objects are
\* replayed to it, it is registered.
Fresh ==
  \A h \in Handlers :
    /\ call[h] \in {"new", "unused", "addBlocked", "addListener", "rejected"} =>
         /\ goroutines[h] = "new" /\ h \notin listeners
         /\ buf[h] = <<>> /\ seen[h] = [k \in Keys |-> Absent]
    /\ call[h] = "replay" => h \in listeners

\* The initial objects that are still to be handled are counted.
Initials(s) == {i \in 1 .. Len(s) : s[i].isInInitialList}

HandlingInitial(h) == IF handling[h] = None THEN 0
                      ELSE IF handling[h].isInInitialList THEN 1 ELSE 0

Counted ==
  \A h \in Handlers : Cardinality(Initials(buf[h])) + HandlingInitial(h) <= count[h]

\* Between the two answers HasSynced asks for no initial object can come, and
\* once it has answered no object is replayed any more.
Answered ==
  \A h \in Handlers :
    /\ call[h] = "counting" => populated /\ initial = {} /\ ~work.isInInitialList
    /\ synced[h] => call[h] \in {"registered", "removeBlocked", "removeListener", "removed"}

\* What a handler has been and will be told is the indexer, apart from the
\* objects a registration has yet to replay and the delta still to be sent to it.
View(h, k) ==
  IF call[h] = "replay" THEN IF k \in replay[h] THEN Absent ELSE indexer[k]
  ELSE IF k = work.key /\ (loop = "distribute" \/ h \in work.targets)
       THEN work.note.old ELSE indexer[k]

Viewed == \A h \in listeners : \A k \in Keys : Told(h, Len(buf[h]))[k] = View(h, k)

Chained ==
  \A h \in Handlers : \A i \in 1 .. Len(buf[h]) :
    buf[h][i].old = Told(h, i - 1)[buf[h][i].key]

Informed ==
  /\ InformerTypeOK /\ Phases /\ Working /\ Blocked /\ Fresh /\ NoSendOnClosed
  /\ Counted /\ Answered /\ SyncedMeansDelivered
  /\ Viewed /\ Chained

-----------------------------------------------------------------------------
(* What a handler is told *)

LEMMA MaxIsLargest ==
  ASSUME NEW v \in Nat, NEW S \in SUBSET (1 .. v), NEW m \in S, \A n \in S : n <= m
  PROVE  Max(S) = m
<1>1. \A n \in S : m >= n
  OBVIOUS
<1>2. Max(S) \in S /\ \A n \in S : Max(S) >= n
  BY <1>1 DEF Max
<1>3. S \subseteq Nat
  OBVIOUS
<1>4. Max(S) \in Nat /\ m \in Nat
  BY <1>2, <1>3
<1> QED BY <1>1, <1>2, <1>4

\* Told, for any buffer and any object known before it.
After(s, known, n, k) ==
  LET notes == {i \in 1 .. n : s[i].key = k}
  IN  IF notes = {} THEN known ELSE s[Max(notes)].new

LEMMA ToldIs ==
  \A h, n : \A k \in Keys : Told(h, n)[k] = After(buf[h], seen[h][k], n, k)
BY DEF Told, After

\* The i-th notification is the last about k among the first n.
LastAt(s, n, k, i) == s[i].key = k /\ \A j \in 1 .. n : s[j].key = k => j <= i

\* The last notification about an object tells.
LEMMA AfterLast ==
  ASSUME NEW s, NEW known, NEW n \in Nat, NEW k
  PROVE  \A i \in 1 .. n : LastAt(s, n, k, i) => After(s, known, n, k) = s[i].new
<1> SUFFICES ASSUME NEW i \in 1 .. n, LastAt(s, n, k, i)
             PROVE  After(s, known, n, k) = s[i].new
  OBVIOUS
<1> DEFINE notes == {j \in 1 .. n : s[j].key = k}
<1>1. notes \in SUBSET (1 .. n) /\ i \in notes /\ \A j \in notes : j <= i
  BY DEF LastAt
<1>2. Max(notes) = i
  <2> HIDE DEF notes
  <2> QED BY <1>1, MaxIsLargest
<1> QED BY <1>1, <1>2 DEF After

LEMMA AfterNone ==
  ASSUME NEW s, NEW known, NEW n, NEW k, \A j \in 1 .. n : s[j].key # k
  PROVE  After(s, known, n, k) = known
BY DEF After

\* There is a last one, if there is any.
LEMMA LastNote ==
  ASSUME NEW s, NEW n \in Nat, NEW k, \E i \in 1 .. n : s[i].key = k
  PROVE  \E i \in 1 .. n : LastAt(s, n, k, i)
<1> DEFINE notes == {j \in 1 .. n : s[j].key = k}
<1>1. notes \in SUBSET (1 .. n) /\ notes # {}
  OBVIOUS
<1>2. \E i \in notes : \A j \in notes : j <= i
  <2> HIDE DEF notes
  <2> QED BY <1>1, HasMaximum
<1> QED BY <1>2 DEF LastAt

\* Only the first n notifications count.
LEMMA AfterSame ==
  ASSUME NEW s, NEW t, NEW known, NEW n \in Nat, NEW k, \A i \in 1 .. n : t[i] = s[i]
  PROVE  After(t, known, n, k) = After(s, known, n, k)
<1>1. CASE \E i \in 1 .. n : s[i].key = k
  <2>1. PICK i \in 1 .. n : LastAt(s, n, k, i)
    BY <1>1, LastNote
  <2>2. After(s, known, n, k) = s[i].new
    BY <2>1, AfterLast
  <2>3. LastAt(t, n, k, i)
    BY <2>1 DEF LastAt
  <2>4. After(t, known, n, k) = t[i].new
    BY <2>3, AfterLast
  <2> QED BY <2>2, <2>4
<1>2. CASE \A i \in 1 .. n : s[i].key # k
  <2>1. \A i \in 1 .. n : t[i].key # k
    BY <1>2
  <2> QED BY <1>2, <2>1, AfterNone
<1> QED BY <1>1, <1>2

\* add: a notification that is appended is told last.
LEMMA AfterAppend ==
  ASSUME NEW s \in Seq(Notifications), NEW note \in Notifications, NEW known, NEW k
  PROVE  /\ Append(s, note) \in Seq(Notifications)
         /\ Len(Append(s, note)) = Len(s) + 1 /\ Len(s) \in Nat
         /\ \A i \in 1 .. Len(s) : Append(s, note)[i] = s[i]
         /\ Append(s, note)[Len(s) + 1] = note
         /\ \A n \in 0 .. Len(s) :
              After(Append(s, note), known, n, k) = After(s, known, n, k)
         /\ After(Append(s, note), known, Len(s) + 1, k) =
              IF note.key = k THEN note.new ELSE After(s, known, Len(s), k)
<1> DEFINE t == Append(s, note)
           l == Len(s)
<1>1. /\ t \in Seq(Notifications) /\ Len(t) = l + 1 /\ l \in Nat
      /\ \A i \in 1 .. l : t[i] = s[i]
      /\ t[l + 1] = note
  BY AppendProperties, LenProperties
<1> HIDE DEF t, l
<1>2. ASSUME NEW n \in 0 .. l
      PROVE  After(t, known, n, k) = After(s, known, n, k)
  <2>1. n \in Nat /\ \A i \in 1 .. n : t[i] = s[i]
    BY <1>1
  <2> QED BY <2>1, AfterSame
<1>3. CASE note.key = k
  <2>1. l + 1 \in Nat /\ l + 1 \in 1 .. l + 1 /\ LastAt(t, l + 1, k, l + 1)
    BY <1>1, <1>3 DEF LastAt
  <2>2. After(t, known, l + 1, k) = t[l + 1].new
    BY <2>1, AfterLast
  <2> QED BY <1>1, <1>2, <1>3, <2>2 DEF t, l
<1>4. CASE note.key # k
  <2>1. CASE \E i \in 1 .. l : s[i].key = k
    <3>1. PICK i \in 1 .. l : LastAt(s, l, k, i)
      BY <1>1, <2>1, LastNote
    <3>2. After(s, known, l, k) = s[i].new
      BY <1>1, <3>1, AfterLast
    <3>3. l + 1 \in Nat /\ i \in 1 .. l + 1 /\ LastAt(t, l + 1, k, i)
      BY <1>1, <1>4, <3>1 DEF LastAt
    <3>4. After(t, known, l + 1, k) = t[i].new
      BY <3>3, AfterLast
    <3>5. After(t, known, l + 1, k) = After(s, known, l, k)
      BY <1>1, <3>2, <3>4
    <3> QED BY <1>1, <1>2, <1>4, <3>5 DEF t, l
  <2>2. CASE \A i \in 1 .. l : s[i].key # k
    <3>1. \A i \in 1 .. l + 1 : t[i].key # k
      BY <1>1, <1>4, <2>2
    <3>2. After(t, known, l + 1, k) = known /\ After(s, known, l, k) = known
      BY <2>2, <3>1, AfterNone
    <3> QED BY <1>1, <1>2, <1>4, <3>2 DEF t, l
  <2> QED BY <2>1, <2>2
<1> QED BY <1>3, <1>4

Tells(s, t, note, known, k) ==
  /\ \A n \in 0 .. Len(s) : After(t, known, n, k) = After(s, known, n, k)
  /\ After(t, known, Len(s) + 1, k) =
       IF note.key = k THEN note.new ELSE After(s, known, Len(s), k)

LEMMA AppendTells ==
  ASSUME NEW s \in Seq(Notifications), NEW note \in Notifications, NEW known, NEW k
  PROVE  Tells(s, Append(s, note), note, known, k)
<1>1. \A n \in 0 .. Len(s) : After(Append(s, note), known, n, k) = After(s, known, n, k)
  BY AfterAppend
<1>2. After(Append(s, note), known, Len(s) + 1, k) =
        IF note.key = k THEN note.new ELSE After(s, known, Len(s), k)
  BY AfterAppend
<1> QED BY <1>1, <1>2 DEF Tells

\* Dispatch: what the handler is told first becomes what it knows.
LEMMA AfterTail ==
  ASSUME NEW s \in Seq(Notifications), s # <<>>, NEW known, NEW k
  PROVE  /\ Head(s) \in Notifications /\ Head(s) = s[1]
         /\ Tail(s) \in Seq(Notifications) /\ Len(Tail(s)) = Len(s) - 1 /\ Len(s) \in Nat \ {0}
         /\ \A i \in 1 .. Len(s) - 1 : Tail(s)[i] = s[i + 1]
         /\ \A n \in 0 .. Len(s) - 1 :
              After(Tail(s), IF Head(s).key = k THEN Head(s).new ELSE known, n, k) =
                After(s, known, n + 1, k)
<1> DEFINE t == Tail(s)
           l == Len(s)
<1>1. /\ Head(s) \in Notifications /\ Head(s) = s[1]
      /\ t \in Seq(Notifications) /\ Len(t) = l - 1 /\ l \in Nat \ {0}
      /\ \A i \in 1 .. l - 1 : t[i] = s[i + 1]
  BY HeadTailProperties, LenProperties, EmptySeq
<1> HIDE DEF t, l
<1>2. ASSUME NEW n \in 0 .. l - 1, NEW base, base = IF s[1].key = k THEN s[1].new ELSE known
      PROVE  After(t, base, n, k) = After(s, known, n + 1, k)
  <2>0. n \in Nat /\ n + 1 \in Nat /\ \A i \in 1 .. n : t[i] = s[i + 1]
    BY <1>1
  <2>1. CASE \E i \in 1 .. n : t[i].key = k
    <3>1. PICK i \in 1 .. n : LastAt(t, n, k, i)
      BY <2>0, <2>1, LastNote
    <3>2. After(t, base, n, k) = t[i].new
      BY <2>0, <3>1, AfterLast
    <3>3. ASSUME NEW j \in 1 .. n + 1, s[j].key = k
          PROVE  j <= i + 1
      <4>1. CASE j = 1
        BY <2>0, <4>1
      <4>2. CASE j # 1
        <5>1. j - 1 \in 1 .. n /\ t[j - 1] = s[j]
          BY <2>0, <4>2
        <5> QED BY <2>0, <3>1, <3>3, <5>1 DEF LastAt
      <4> QED BY <4>1, <4>2
    <3>4. i + 1 \in 1 .. n + 1 /\ LastAt(s, n + 1, k, i + 1)
      BY <2>0, <3>1, <3>3 DEF LastAt
    <3>5. After(s, known, n + 1, k) = s[i + 1].new
      BY <2>0, <3>4, AfterLast
    <3> QED BY <2>0, <3>2, <3>5
  <2>2. CASE \A i \in 1 .. n : t[i].key # k
    <3>1. After(t, base, n, k) = base
      BY <2>2, AfterNone
    <3>2. ASSUME NEW j \in 1 .. n + 1, j # 1
          PROVE  s[j].key # k
      <4>1. j - 1 \in 1 .. n /\ t[j - 1] = s[j]
        BY <2>0, <3>2
      <4> QED BY <2>2, <4>1
    <3>3. CASE s[1].key = k
      <4>1. 1 \in 1 .. n + 1 /\ LastAt(s, n + 1, k, 1)
        BY <2>0, <3>2, <3>3 DEF LastAt
      <4>2. After(s, known, n + 1, k) = s[1].new
        BY <2>0, <4>1, AfterLast
      <4> QED BY <1>2, <3>1, <3>3, <4>2
    <3>4. CASE s[1].key # k
      <4>1. \A j \in 1 .. n + 1 : s[j].key # k
        BY <3>2, <3>4
      <4>2. After(s, known, n + 1, k) = known
        BY <4>1, AfterNone
      <4> QED BY <1>2, <3>1, <3>4, <4>2
    <3> QED BY <3>3, <3>4
  <2> QED BY <2>1, <2>2
<1> QED BY <1>1, <1>2 DEF t, l

-----------------------------------------------------------------------------
(* Counting the initial objects *)

LEMMA InitialsFinite ==
  ASSUME NEW s \in Seq(Notifications)
  PROVE  IsFiniteSet(Initials(s)) /\ Cardinality(Initials(s)) \in Nat
<1>1. Len(s) \in Nat
  BY LenProperties
<1>2. IsFiniteSet(1 .. Len(s)) /\ Initials(s) \subseteq 1 .. Len(s)
  BY <1>1, FS_Interval DEF Initials
<1> QED BY <1>2, FS_Subset, FS_CardinalityType

\* add counts the objects it sends.
LEMMA InitialsAppend ==
  ASSUME NEW s \in Seq(Notifications), NEW note \in Notifications
  PROVE  Cardinality(Initials(Append(s, note))) =
           Cardinality(Initials(s)) + IF note.isInInitialList THEN 1 ELSE 0
<1> DEFINE t == Append(s, note)
<1>1. /\ Len(t) = Len(s) + 1 /\ Len(s) \in Nat /\ t[Len(s) + 1] = note
      /\ \A i \in 1 .. Len(s) : t[i] = s[i]
  BY AfterAppend
<1> HIDE DEF t
<1>2. Initials(t) = Initials(s) \cup (IF note.isInInitialList THEN {Len(s) + 1} ELSE {})
  BY <1>1 DEF Initials
<1>3. Len(s) + 1 \notin Initials(s)
  BY <1>1 DEF Initials
<1>4. IsFiniteSet(Initials(s)) /\ Cardinality(Initials(s)) \in Nat
  BY InitialsFinite
<1>5. CASE note.isInInitialList
  <2>1. Initials(t) = Initials(s) \cup {Len(s) + 1}
    BY <1>2, <1>5
  <2> QED BY <1>3, <1>4, <1>5, <2>1, FS_AddElement DEF t
<1>6. CASE ~note.isInInitialList
  BY <1>2, <1>4, <1>6 DEF t
<1> QED BY <1>5, <1>6

\* Dispatch takes the first one off.
LEMMA InitialsTail ==
  ASSUME NEW s \in Seq(Notifications), s # <<>>
  PROVE  Cardinality(Initials(s)) =
           Cardinality(Initials(Tail(s))) + IF Head(s).isInInitialList THEN 1 ELSE 0
<1> DEFINE t == Tail(s)
           A == Initials(t)
           B == Initials(s) \ {1}
           f == [i \in A |-> i + 1]
<1>1. /\ Len(t) = Len(s) - 1 /\ Len(s) \in Nat \ {0} /\ Head(s) = s[1]
      /\ \A i \in 1 .. Len(s) - 1 : t[i] = s[i + 1]
      /\ t \in Seq(Notifications)
  BY AfterTail
<1> HIDE DEF t
<1>2. IsFiniteSet(A) /\ IsFiniteSet(Initials(s)) /\ Cardinality(A) \in Nat
      /\ Cardinality(Initials(s)) \in Nat
  BY <1>1, InitialsFinite
<1>3. \A i \in A : i \in 1 .. Len(s) - 1 /\ i + 1 \in B
  BY <1>1 DEF Initials
<1>4. ASSUME NEW b \in B
      PROVE  b - 1 \in A /\ (b - 1) + 1 = b
  BY <1>1 DEF Initials
<1>5. f \in Bijection(A, B)
  <2> HIDE DEF A, B
  <2>1. f \in [A -> B] /\ \A i \in A : f[i] = i + 1
    BY <1>3
  <2>2. \A i, j \in A : f[i] = f[j] => i = j
    BY <1>3, <2>1
  <2>3. \A b \in B : \E i \in A : f[i] = b
    BY <1>4, <2>1
  <2> HIDE DEF f
  <2> QED BY <2>1, <2>2, <2>3 DEF Bijection, Injection, Surjection, IsInjective
<1>6. Cardinality(A) = Cardinality(B) /\ IsFiniteSet(B)
  <2> HIDE DEF A, B, f
  <2>1. ExistsBijection(A, B)
    BY <1>5 DEF ExistsBijection
  <2> QED BY <1>2, <2>1, FS_Bijection
<1>7. CASE s[1].isInInitialList
  <2>1. Initials(s) = B \cup {1} /\ 1 \notin B
    BY <1>1, <1>7 DEF Initials
  <2>2. Cardinality(B \cup {1}) = Cardinality(B) + 1
    <3> HIDE DEF B
    <3> QED BY <1>6, <2>1, FS_AddElement
  <2> QED BY <1>1, <1>6, <1>7, <2>1, <2>2 DEF t
<1>8. CASE ~s[1].isInInitialList
  <2>1. Initials(s) = B
    BY <1>8 DEF Initials
  <2>2. Cardinality(A) + 0 = Cardinality(A)
    BY <1>2
  <2> HIDE DEF A, B
  <2> QED BY <1>1, <1>6, <1>8, <2>1, <2>2 DEF t, A
<1> QED BY <1>7, <1>8

-----------------------------------------------------------------------------
(* Types *)

\* The types of the variables one by one, for the proofs below.
LEMMA Types ==
  ASSUME InformerTypeOK
  PROVE  /\ call \in [Handlers -> Calls] /\ replay \in [Handlers -> SUBSET Keys]
         /\ goroutines \in [Handlers -> {"new", "open", "closed", "draining", "done"}]
         /\ buf \in [Handlers -> Seq(Notifications)]
         /\ handling \in [Handlers -> Notifications \cup {None}]
         /\ count \in [Handlers -> Nat] /\ seen \in [Handlers -> [Keys -> Versions]]
         /\ synced \in [Handlers -> BOOLEAN]
         /\ indexer \in [Keys -> Versions] /\ listeners \subseteq Handlers
         /\ initial \subseteq Keys /\ deltas \in Nat
         /\ work \in [key : Keys \cup {None}, isInInitialList : BOOLEAN,
                      note : Notifications \cup {None}, targets : SUBSET Handlers]
         /\ work.key \in Keys \cup {None} /\ work.isInInitialList \in BOOLEAN
         /\ work.note \in Notifications \cup {None} /\ work.targets \subseteq Handlers
BY DEF InformerTypeOK

\* The fields of a notification.
LEMMA NoteFields ==
  \A note \in Notifications : /\ note.key \in Keys /\ note.old \in Versions
                              /\ note.new \in Versions /\ note.isInInitialList \in BOOLEAN
BY DEF Notifications

LEMMA NewNote ==
  ASSUME NEW k \in Keys, NEW o \in Versions, NEW n \in Versions, NEW b \in BOOLEAN
  PROVE  [key |-> k, old |-> o, new |-> n, isInInitialList |-> b] \in Notifications
BY DEF Notifications

\* processorListener.add appends the notification to one buffer.
LEMMA AddTypes ==
  ASSUME InformerTypeOK, NEW h \in Handlers, NEW note \in Notifications, add(h, note)
  PROVE  /\ buf' \in [Handlers -> Seq(Notifications)] /\ count' \in [Handlers -> Nat]
         /\ buf'[h] = Append(buf[h], note)
         /\ count'[h] = count[h] + IF note.isInInitialList THEN 1 ELSE 0
         /\ \A g \in Handlers \ {h} : buf'[g] = buf[g] /\ count'[g] = count[g]
         /\ UNCHANGED <<goroutines, handling, seen>>
<1>1. /\ buf \in [Handlers -> Seq(Notifications)] /\ count \in [Handlers -> Nat]
      /\ buf[h] \in Seq(Notifications) /\ count[h] \in Nat
  BY Types
<1>2. Append(buf[h], note) \in Seq(Notifications)
  BY <1>1, AppendProperties
<1>3. /\ buf' = [buf EXCEPT ![h] = Append(buf[h], note)]
      /\ count' = [count EXCEPT ![h] = IF note.isInInitialList THEN count[h] + 1 ELSE count[h]]
      /\ UNCHANGED <<goroutines, handling, seen>>
  BY DEF add
<1> QED BY <1>1, <1>2, <1>3

\* The object a registration replays.
LEMMA ReplayNote ==
  ASSUME InformerTypeOK, NEW h \in Handlers, NEW k \in replay[h]
  PROVE  [key |-> k, old |-> Absent, new |-> indexer[k], isInInitialList |-> TRUE]
           \in Notifications
<1>1. k \in Keys /\ indexer[k] \in Versions /\ Absent \in Versions
  BY Types DEF Versions
<1> QED BY <1>1, NewNote

LEMMA NextKeepsTypes ==
  ASSUME Informed, [Next]_vars
  PROVE  InformerTypeOK'
<1> USE DEF Informed
<1>0. InformerTypeOK
  OBVIOUS
<1> USE Types
<1>1. CASE Run \/ Stop \/ Close \/ RunStopped \/ RunReturns
  <2>1. /\ main' \in {"new", "running", "stopped", "returned"}
        /\ processor' \in {"new", "start", "serving", "stopping", "waiting", "returned"}
        /\ stopCh' \in BOOLEAN /\ closed' \in BOOLEAN
        /\ UNCHANGED <<initial, populated, loopVars, listeners, resync, callVars, listenerVars>>
    BY <1>0, <1>1 DEF Run, Stop, Close, RunStopped, RunReturns, queueVars, InformerTypeOK
  <2> QED BY <1>0, <2>1 DEF loopVars, callVars, listenerVars, InformerTypeOK
<1>2. CASE Replace
  BY <1>0, <1>2 DEF Replace, loopVars, callVars, listenerVars, InformerTypeOK
<1>3. CASE Pop
  <2>1. PICK k \in Keys : work' = [Idle EXCEPT !.key = k, !.isInInitialList = initial # {}]
    BY <1>0, <1>3 DEF Pop
  <2>2. work' \in [key : Keys \cup {None}, isInInitialList : BOOLEAN,
                   note : Notifications \cup {None}, targets : SUBSET Handlers]
    BY <2>1 DEF Idle
  <2> QED
    BY <1>0, <1>3, <2>2 DEF Pop, callVars, listenerVars, InformerTypeOK
<1>4. CASE PopClosed
  BY <1>0, <1>4 DEF PopClosed, queueVars, callVars, listenerVars, InformerTypeOK
<1>5. CASE PopReturns
  <2>1. work' \in [key : Keys \cup {None}, isInInitialList : BOOLEAN,
                   note : Notifications \cup {None}, targets : SUBSET Handlers]
    BY <1>5 DEF PopReturns, Idle
  <2> QED BY <1>0, <1>5, <2>1 DEF PopReturns, queueVars, callVars, listenerVars, InformerTypeOK
<1>6. CASE HandleDeltas
  <2>1. work.key \in Keys
    BY <1>6 DEF HandleDeltas, Working
  <2>2. deltas' \in Nat
    <3>1. Cardinality(initial) \in Nat
      BY <1>0, KeysAssumption, FS_Subset, FS_CardinalityType
    <3>2. deltas > 0
      BY <1>0, <1>6, <3>1 DEF HandleDeltas, Working
    <3> QED BY <1>0, <1>6, <3>2 DEF HandleDeltas
  <2>3. PICK new \in Versions :
          /\ indexer' = [indexer EXCEPT ![work.key] = new]
          /\ work' = [work EXCEPT !.note =
               [key |-> work.key, old |-> indexer[work.key], new |-> new,
                isInInitialList |-> work.isInInitialList /\ indexer[work.key] = Absent]]
    BY <1>6 DEF HandleDeltas
  <2>4. [key |-> work.key, old |-> indexer[work.key], new |-> new,
         isInInitialList |-> work.isInInitialList /\ indexer[work.key] = Absent]
           \in Notifications
    BY <1>0, <2>1, NewNote
  <2>5. indexer' \in [Keys -> Versions] /\
        work' \in [key : Keys \cup {None}, isInInitialList : BOOLEAN,
                   note : Notifications \cup {None}, targets : SUBSET Handlers]
    BY <1>0, <2>3, <2>4
  <2> QED BY <1>0, <1>6, <2>2, <2>5 DEF HandleDeltas, queueVars, callVars, listenerVars,
             InformerTypeOK
<1>7. CASE Distribute
  <2>1. PICK targets \in SUBSET listeners : work' = [work EXCEPT !.targets = targets]
    BY <1>7 DEF Distribute
  <2>2. work' \in [key : Keys \cup {None}, isInInitialList : BOOLEAN,
                   note : Notifications \cup {None}, targets : SUBSET Handlers]
    BY <1>0, <2>1
  <2> QED BY <1>0, <1>7, <2>2 DEF Distribute, AfterSend, queueVars, callVars, listenerVars,
             InformerTypeOK
<1>8. CASE Send
  <2>1. PICK h \in work.targets : /\ add(h, work.note)
                                  /\ work' = [work EXCEPT !.targets = @ \ {h}]
    BY <1>8 DEF Send
  <2>2. work.note \in Notifications /\ h \in Handlers
    BY <1>0, <1>8 DEF Send, Working
  <2>3. work' \in [key : Keys \cup {None}, isInInitialList : BOOLEAN,
                   note : Notifications \cup {None}, targets : SUBSET Handlers]
    BY <1>0, <2>1
  <2>4. /\ buf' \in [Handlers -> Seq(Notifications)] /\ count' \in [Handlers -> Nat]
        /\ UNCHANGED <<goroutines, handling, seen>>
    BY <1>0, <2>1, <2>2, AddTypes
  <2> QED BY <1>0, <1>8, <2>3, <2>4 DEF Send, AfterSend, queueVars, callVars, InformerTypeOK
<1>9. CASE StartListeners \/ ProcessorStops \/ CloseListeners \/ ListenersDone
             \/ ResyncTick \/ shouldResync
  <2>1. goroutines' \in [Handlers -> {"new", "open", "closed", "draining", "done"}]
    BY <1>0, <1>9 DEF StartListeners, ProcessorStops, CloseListeners, ListenersDone,
       ResyncTick, shouldResync, listenerVars
  <2> QED
    BY <1>0, <1>9, <2>1 DEF StartListeners, ProcessorStops, CloseListeners, ListenersDone,
       ResyncTick, shouldResync, queueVars, loopVars, callVars, listenerVars, InformerTypeOK
<1>10. ASSUME NEW h \in Handlers, Dispatch(h)
       PROVE  InformerTypeOK'
  <2>1. Head(buf[h]) \in Notifications /\ Tail(buf[h]) \in Seq(Notifications)
    BY <1>0, <1>10, HeadTailProperties DEF Dispatch
  <2>2. Head(buf[h]).key \in Keys /\ Head(buf[h]).new \in Versions
    BY <2>1, NoteFields
  <2>3. buf' \in [Handlers -> Seq(Notifications)]
    BY <1>0, <1>10, <2>1 DEF Dispatch
  <2>4. /\ handling' \in [Handlers -> Notifications \cup {None}]
        /\ seen' \in [Handlers -> [Keys -> Versions]]
    BY <1>0, <1>10, <2>1, <2>2 DEF Dispatch
  <2> QED BY <1>0, <1>10, <2>3, <2>4 DEF Dispatch, queueVars, loopVars, callVars, InformerTypeOK
<1>11. ASSUME NEW h \in Handlers, HandlerReturns(h) \/ HandlerPanics(h)
       PROVE  InformerTypeOK'
  <2>1. handling' \in [Handlers -> Notifications \cup {None}]
    BY <1>0, <1>11 DEF HandlerReturns, HandlerPanics
  <2>2. count' \in [Handlers -> Nat]
    <3>1. CASE HandlerReturns(h) /\ handling[h].isInInitialList
      <4>1. Cardinality(Initials(buf[h])) \in Nat
        BY <1>0, InitialsFinite
      <4>2. HandlingInitial(h) = 1 /\ Cardinality(Initials(buf[h])) + HandlingInitial(h) <= count[h]
        BY <3>1 DEF HandlingInitial, HandlerReturns, Counted
      <4>3. count[h] - 1 \in Nat
        BY <1>0, <4>1, <4>2
      <4> QED BY <1>0, <3>1, <4>3 DEF HandlerReturns
    <3>2. CASE HandlerPanics(h) \/ ~handling[h].isInInitialList
      BY <1>0, <1>11, <3>2 DEF HandlerReturns, HandlerPanics
    <3> QED BY <1>11, <3>1, <3>2
  <2> QED BY <1>0, <1>11, <2>1, <2>2 DEF HandlerReturns, HandlerPanics, queueVars, loopVars,
             callVars, InformerTypeOK
<1>12. ASSUME NEW h \in Handlers, PopReturnsClosed(h) \/ ListenerReturns(h)
       PROVE  InformerTypeOK'
  <2>0. <<>> \in Seq(Notifications)
    OBVIOUS
  <2>1. buf' \in [Handlers -> Seq(Notifications)]
    BY <1>0, <1>12, <2>0 DEF PopReturnsClosed, ListenerReturns
  <2>2. goroutines' \in [Handlers -> {"new", "open", "closed", "draining", "done"}]
    BY <1>0, <1>12 DEF PopReturnsClosed, ListenerReturns
  <2>3. UNCHANGED <<main, queueVars, loopVars, processor, listeners, resync, callVars,
                    handling, count, seen>>
    BY <1>12 DEF PopReturnsClosed, ListenerReturns
  <2> QED BY <1>0, <2>1, <2>2, <2>3 DEF queueVars, loopVars, callVars, InformerTypeOK
<1>13. ASSUME NEW h \in Handlers,
              \/ AddBeforeStart(h) \/ AddEventHandler(h) \/ AddBlocksDeltas(h)
              \/ RemoveEventHandler(h) \/ RemoveBlocksDeltas(h)
              \/ HasSynced(h) \/ UpstreamHasSynced(h)
       PROVE  InformerTypeOK'
  <2>1. call' \in [Handlers -> Calls]
    BY <1>0, <1>13 DEF AddBeforeStart, AddEventHandler, AddBlocksDeltas, RemoveEventHandler,
       RemoveBlocksDeltas, HasSynced, UpstreamHasSynced, GoTo, Calls, InStartedLock
  <2> QED
    BY <1>0, <1>13, <2>1 DEF AddBeforeStart, AddEventHandler, AddBlocksDeltas,
       RemoveEventHandler, RemoveBlocksDeltas, HasSynced, UpstreamHasSynced, queueVars,
       loopVars, callVars, listenerVars, InformerTypeOK
<1>14. ASSUME NEW h \in Handlers, addListener(h) \/ removeListener(h)
       PROVE  InformerTypeOK'
  <2>1. call' \in [Handlers -> Calls]
    BY <1>0, <1>14 DEF addListener, removeListener, GoTo, AfterReplay, Calls, InStartedLock
  <2>2. goroutines' \in [Handlers -> {"new", "open", "closed", "draining", "done"}]
    BY <1>0, <1>14 DEF addListener, removeListener
  <2>3. replay' \in [Handlers -> SUBSET Keys]
    <3>1. {k \in Keys : indexer[k] # Absent} \in SUBSET Keys
      OBVIOUS
    <3>2. addListener(h) =>
            replay' = [replay EXCEPT ![h] = {k \in Keys : indexer[k] # Absent}]
      BY DEF addListener
    <3>3. removeListener(h) => replay' = replay
      BY DEF removeListener
    <3> QED BY <1>0, <1>14, <3>1, <3>2, <3>3
  <2> QED
    BY <1>0, <1>14, <2>1, <2>2, <2>3 DEF addListener, removeListener, queueVars, loopVars,
       callVars, InformerTypeOK
<1>15. ASSUME NEW h \in Handlers, Replay(h)
       PROVE  InformerTypeOK'
  <2>1. PICK k \in replay[h] :
          /\ add(h, [key |-> k, old |-> Absent, new |-> indexer[k], isInInitialList |-> TRUE])
          /\ replay' = [replay EXCEPT ![h] = @ \ {k}]
    BY <1>15 DEF Replay
  <2>2. /\ buf' \in [Handlers -> Seq(Notifications)] /\ count' \in [Handlers -> Nat]
        /\ UNCHANGED <<goroutines, handling, seen>>
    BY <1>0, <2>1, ReplayNote, AddTypes
  <2>3. call' \in [Handlers -> Calls] /\ replay' \in [Handlers -> SUBSET Keys]
    BY <1>0, <1>15, <2>1 DEF Replay, GoTo, AfterReplay, Calls, InStartedLock
  <2> QED BY <1>0, <1>15, <2>2, <2>3 DEF Replay, queueVars, loopVars, InformerTypeOK
<1>16. ASSUME NEW h \in Handlers, HasSyncedReturns(h)
       PROVE  InformerTypeOK'
  <2>1. call' \in [Handlers -> Calls] /\ synced' \in [Handlers -> BOOLEAN]
    BY <1>0, <1>16 DEF HasSyncedReturns, GoTo, Calls
  <2> QED BY <1>0, <1>16, <2>1 DEF HasSyncedReturns, queueVars, loopVars, listenerVars,
             InformerTypeOK
<1>17. CASE UNCHANGED vars
  BY <1>0, <1>17 DEF vars, queueVars, loopVars, callVars, listenerVars, InformerTypeOK
<1> QED
  BY <1>1, <1>2, <1>3, <1>4, <1>5, <1>6, <1>7, <1>8, <1>9, <1>10, <1>11, <1>12, <1>13, <1>14,
     <1>15, <1>16, <1>17 DEF Next, Loop, Listener, Calling

-----------------------------------------------------------------------------
(* The locks *)

\* A step of an application's call: where it goes, and what it leaves alone.
LEMMA CallSteps ==
  ASSUME NEW h \in Handlers,
         \/ AddBeforeStart(h) \/ AddEventHandler(h) \/ RemoveEventHandler(h)
         \/ HasSynced(h) \/ Calling(h)
  PROVE  /\ UNCHANGED <<main, queueVars, loopVars, processor, resync>>
         /\ \E where \in Calls :
              /\ call' = [call EXCEPT ![h] = where]
              /\ where = "addBlocked" => call[h] = "new" /\ ~stopped
              /\ where = "addListener" => call[h] = "addBlocked" /\ BlockDeltasFree
              /\ where = "replay" => call[h] \in {"addListener", "replay"}
              /\ where = "removeListener" => call[h] = "removeBlocked" /\ BlockDeltasFree
              /\ where = "rejected" => call[h] = "new"
              /\ where # "new"
<1>1. UNCHANGED <<main, queueVars, loopVars, processor, resync>>
  BY DEF AddBeforeStart, AddEventHandler, RemoveEventHandler, HasSynced, Calling,
     AddBlocksDeltas, addListener, Replay, RemoveBlocksDeltas, removeListener,
     UpstreamHasSynced, HasSyncedReturns
<1>2. \E where \in Calls :
              /\ call' = [call EXCEPT ![h] = where]
              /\ where = "addBlocked" => call[h] = "new" /\ ~stopped
              /\ where = "addListener" => call[h] = "addBlocked" /\ BlockDeltasFree
              /\ where = "replay" => call[h] \in {"addListener", "replay"}
              /\ where = "removeListener" => call[h] = "removeBlocked" /\ BlockDeltasFree
              /\ where = "rejected" => call[h] = "new"
              /\ where # "new"
  <2> USE DEF GoTo, Calls, InStartedLock
  <2>1. CASE AddBeforeStart(h)
    BY <2>1 DEF AddBeforeStart
  <2>2. CASE AddEventHandler(h)
    BY <2>2 DEF AddEventHandler
  <2>3. CASE RemoveEventHandler(h)
    BY <2>3 DEF RemoveEventHandler
  <2>4. CASE HasSynced(h)
    BY <2>4 DEF HasSynced
  <2>5. CASE AddBlocksDeltas(h)
    BY <2>5 DEF AddBlocksDeltas
  <2>6. CASE addListener(h)
    <3>1. /\ call[h] = "addListener"
          /\ call' = [call EXCEPT ![h] = AfterReplay(replay'[h])]
      BY <2>6 DEF addListener
    <3>2. AfterReplay(replay'[h]) \in {"registered", "replay"}
      BY DEF AfterReplay
    <3> QED BY <3>1, <3>2
  <2>7. CASE Replay(h)
    BY <2>7 DEF Replay, AfterReplay
  <2>8. CASE RemoveBlocksDeltas(h)
    BY <2>8 DEF RemoveBlocksDeltas
  <2>9. CASE removeListener(h)
    BY <2>9 DEF removeListener
  <2>10. CASE UpstreamHasSynced(h)
    BY <2>10 DEF UpstreamHasSynced
  <2>11. CASE HasSyncedReturns(h)
    BY <2>11 DEF HasSyncedReturns
  <2> QED BY <2>1, <2>2, <2>3, <2>4, <2>5, <2>6, <2>7, <2>8, <2>9, <2>10, <2>11 DEF Calling
<1> QED BY <1>1, <1>2

\* The steps of the two goroutines of a listener.
LEMMA ListenerSteps ==
  ASSUME NEW h \in Handlers, Listener(h)
  PROVE  UNCHANGED <<main, queueVars, loopVars, processor, listeners, resync, callVars>>
BY DEF Listener, Dispatch, HandlerReturns, HandlerPanics, PopReturnsClosed, ListenerReturns

\* No registration is under way once the informer has stopped: stopped is set with
\* startedLock held.
LEMMA NextKeepsPhases ==
  ASSUME Informed, [Next]_vars
  PROVE  Phases'
<1>0. InformerTypeOK /\ Phases /\ call \in [Handlers -> Calls]
  BY Types DEF Informed
<1>1. CASE UNCHANGED <<main, populated, initial, loop, indexer, processor, call>>
  BY <1>0, <1>1 DEF Phases, stopped
<1>2. CASE Run \/ Replace \/ RunReturns
  BY <1>0, <1>2 DEF Run, Replace, RunReturns, queueVars, loopVars, callVars, Phases, stopped
<1>3. CASE RunStopped
  BY <1>0, <1>3 DEF RunStopped, StartedLockFree, InStartedLock, queueVars, loopVars, callVars,
     Phases, stopped
<1>4. CASE Pop \/ PopClosed \/ HandleDeltas \/ Distribute \/ Send \/ PopReturns
  <2>1. UNCHANGED <<main, populated, processor, call>>
    BY <1>4 DEF Pop, PopClosed, HandleDeltas, Distribute, Send, PopReturns, queueVars, callVars
  <2>2. CASE populated
    BY <1>0, <2>1, <2>2 DEF Phases, stopped
  <2>3. CASE ~populated
    <3>1. PopClosed
      BY <1>0, <1>4, <2>3 DEF Pop, HandleDeltas, Distribute, Send, PopReturns, Phases
    <3> QED BY <1>0, <2>1, <3>1 DEF PopClosed, queueVars, Phases, stopped
  <2> QED BY <2>2, <2>3, <1>0 DEF InformerTypeOK
<1>5. CASE StartListeners \/ ProcessorStops \/ CloseListeners \/ ListenersDone
  BY <1>0, <1>5 DEF StartListeners, ProcessorStops, CloseListeners, ListenersDone, queueVars,
     loopVars, callVars, Phases, stopped
<1>6. ASSUME NEW h \in Handlers,
             \/ AddBeforeStart(h) \/ AddEventHandler(h) \/ RemoveEventHandler(h)
             \/ HasSynced(h) \/ Calling(h)
      PROVE  Phases'
  <2>1. /\ UNCHANGED <<main, queueVars, loopVars, processor, resync>>
        /\ \E where \in Calls :
              /\ call' = [call EXCEPT ![h] = where]
              /\ where = "addBlocked" => ~stopped
              /\ where = "addListener" => call[h] = "addBlocked"
              /\ where = "replay" => call[h] \in {"addListener", "replay"}
    BY <1>6, CallSteps
  <2> QED BY <1>0, <2>1 DEF Phases, stopped, queueVars, loopVars
<1> QED
  BY <1>1, <1>2, <1>3, <1>4, <1>5, <1>6, ListenerSteps
     DEF Next, Loop, Stop, Close, ResyncTick, shouldResync, queueVars, loopVars, callVars, vars

\* processLoop and the calls exclude each other by blockDeltas.
LEMMA NextKeepsBlocked ==
  ASSUME Informed, [Next]_vars
  PROVE  Blocked'
<1>0. InformerTypeOK /\ Blocked /\ call \in [Handlers -> Calls]
  BY Types DEF Informed
<1>1. CASE UNCHANGED <<loop, call>>
  BY <1>0, <1>1 DEF Blocked
<1>2. CASE HandleDeltas
  BY <1>0, <1>2 DEF HandleDeltas, BlockDeltasFree, callVars, Blocked
<1>3. CASE Pop \/ PopClosed \/ Distribute \/ Send \/ PopReturns
  BY <1>0, <1>3 DEF Pop, PopClosed, Distribute, Send, AfterSend, PopReturns, callVars, Blocked
<1>4. ASSUME NEW h \in Handlers,
             \/ AddBeforeStart(h) \/ AddEventHandler(h) \/ RemoveEventHandler(h)
             \/ HasSynced(h) \/ Calling(h)
      PROVE  Blocked'
  <2>1. /\ UNCHANGED loopVars
        /\ \E where \in Calls :
              /\ call' = [call EXCEPT ![h] = where]
              /\ where = "addListener" => BlockDeltasFree
              /\ where = "replay" => call[h] \in {"addListener", "replay"}
              /\ where = "removeListener" => BlockDeltasFree
    BY <1>4, CallSteps
  <2> QED BY <1>0, <2>1 DEF Blocked, BlockDeltasFree, loopVars
<1> QED
  BY <1>1, <1>2, <1>3, <1>4, ListenerSteps
     DEF Next, Loop, Run, Replace, Stop, Close, RunStopped, RunReturns, StartListeners,
     ProcessorStops, CloseListeners, ListenersDone, ResyncTick, shouldResync, loopVars,
     callVars, vars

\* What processLoop works on stays as it is until it sends, and what it sends to
\* stays registered, listenersLock being held.
LEMMA NextKeepsWorking ==
  ASSUME Informed, [Next]_vars
  PROVE  Working'
<1>0. InformerTypeOK /\ Working /\ Phases
  BY DEF Informed
<1>1. CASE UNCHANGED <<loop, work, indexer, deltas>> /\ listeners \subseteq listeners'
  BY <1>0, <1>1 DEF Working
<1>2. CASE Pop
  <2>1. PICK k \in Keys : work' = [Idle EXCEPT !.key = k, !.isInInitialList = initial # {}]
    BY <1>0, <1>2, Types DEF Pop
  <2>2. work'.key = k /\ work'.targets = {} /\ loop' = "popped" /\ deltas' > 0
    BY <1>2, <2>1 DEF Pop, Idle
  <2> QED BY <2>2 DEF Working
<1>3. CASE PopClosed \/ PopReturns
  BY <1>0, <1>3 DEF PopClosed, PopReturns, Working, Idle
<1>4. CASE HandleDeltas
  <2>1. work.key \in Keys /\ work.targets = {} /\ loop' = "distribute"
    BY <1>0, <1>4 DEF HandleDeltas, Working
  <2>2. PICK new \in Versions :
          /\ indexer' = [indexer EXCEPT ![work.key] = new]
          /\ work' = [work EXCEPT !.note =
               [key |-> work.key, old |-> indexer[work.key], new |-> new,
                isInInitialList |-> work.isInInitialList /\ indexer[work.key] = Absent]]
    BY <1>4 DEF HandleDeltas
  <2>3. [key |-> work.key, old |-> indexer[work.key], new |-> new,
         isInInitialList |-> work.isInInitialList /\ indexer[work.key] = Absent]
           \in Notifications
    BY <1>0, <2>1, NewNote, Types
  <2>4. /\ work'.key = work.key /\ work'.targets = {}
        /\ work'.isInInitialList = work.isInInitialList
        /\ work'.note = [key |-> work.key, old |-> indexer[work.key], new |-> new,
                isInInitialList |-> work.isInInitialList /\ indexer[work.key] = Absent]
    BY <1>0, <2>1, <2>2, Types
  <2>5. indexer'[work.key] = new
    BY <1>0, <2>1, <2>2, Types
  <2>6. /\ work'.note \in Notifications /\ work'.note.key = work'.key
        /\ work'.note.new = indexer'[work'.key]
    BY <2>3, <2>4, <2>5
  <2>7. work'.note.isInInitialList => work'.isInInitialList
    <3>1. work'.note.isInInitialList = (work.isInInitialList /\ indexer[work.key] = Absent)
      BY <2>4
    <3>2. work'.note.isInInitialList => work.isInInitialList
      BY <3>1, Zenon
    <3> QED BY <2>4, <3>2, Zenon
  <2> QED BY <2>1, <2>4, <2>6, <2>7 DEF Working
<1>5. CASE Distribute
  <2>1. PICK targets \in SUBSET listeners : work' = [work EXCEPT !.targets = targets]
    BY <1>5 DEF Distribute
  <2>2. /\ work'.key = work.key /\ work'.note = work.note /\ work'.targets \subseteq listeners
        /\ work'.isInInitialList = work.isInInitialList
    BY <1>0, <2>1, Types
  <2>3. /\ loop = "distribute" /\ loop' = IF work'.targets = {} THEN "processed" ELSE "send"
        /\ UNCHANGED <<indexer, listeners>>
    BY <1>5 DEF Distribute, AfterSend
  <2> QED BY <1>0, <2>2, <2>3 DEF Working
<1>6. CASE Send
  <2>1. PICK h \in work.targets : work' = [work EXCEPT !.targets = @ \ {h}]
    BY <1>6 DEF Send
  <2>2. /\ work'.key = work.key /\ work'.note = work.note /\ work'.targets \subseteq work.targets
        /\ work'.isInInitialList = work.isInInitialList
    BY <1>0, <2>1, Types
  <2>3. /\ loop = "send" /\ loop' = IF work'.targets = {} THEN "processed" ELSE "send"
        /\ UNCHANGED <<indexer, listeners>>
    BY <1>6 DEF Send, AfterSend
  <2> QED BY <1>0, <2>2, <2>3 DEF Working
<1>7. CASE CloseListeners \/ \E h \in Handlers : removeListener(h)
  <2>1. loop # "send" /\ UNCHANGED <<loop, work, indexer, deltas>>
    BY <1>7 DEF CloseListeners, removeListener, CanLock, loopVars
  <2> QED BY <1>0, <2>1 DEF Working
<1>8. CASE \E h \in Handlers : AddBeforeStart(h) \/ addListener(h)
  BY <1>1, <1>8 DEF AddBeforeStart, addListener, loopVars
<1>9. CASE \E h \in Handlers : \/ AddEventHandler(h) \/ RemoveEventHandler(h) \/ HasSynced(h)
                               \/ AddBlocksDeltas(h) \/ Replay(h) \/ RemoveBlocksDeltas(h)
                               \/ UpstreamHasSynced(h) \/ HasSyncedReturns(h)
  BY <1>1, <1>9 DEF AddEventHandler, RemoveEventHandler, HasSynced, AddBlocksDeltas, Replay,
     RemoveBlocksDeltas, UpstreamHasSynced, HasSyncedReturns, loopVars
<1>10. CASE \E h \in Handlers : Listener(h)
  BY <1>1, <1>10, ListenerSteps DEF loopVars
<1>11. CASE \/ Run \/ Replace \/ Stop \/ Close \/ RunStopped \/ RunReturns \/ StartListeners
            \/ ProcessorStops \/ ListenersDone \/ ResyncTick \/ shouldResync \/ UNCHANGED vars
  BY <1>1, <1>11 DEF Run, Replace, Stop, Close, RunStopped, RunReturns, StartListeners,
     ProcessorStops, ListenersDone, ResyncTick, shouldResync, loopVars, vars
<1> QED
  BY <1>2, <1>3, <1>4, <1>5, <1>6, <1>7, <1>8, <1>9, <1>10, <1>11 DEF Next, Loop, Calling

-----------------------------------------------------------------------------
(* Registration *)

\* A handler that is not registered is sent nothing, and the listeners are not
\* dropped while objects are replayed to one.
LEMMA NextKeepsFresh ==
  ASSUME Informed, [Next]_vars
  PROVE  Fresh'
<1> DEFINE New == {"new", "unused", "addBlocked", "addListener", "rejected"}
<1>0. InformerTypeOK /\ Fresh /\ Phases /\ Working
  BY DEF Informed
<1> USE Types
<1> SUFFICES ASSUME NEW g \in Handlers
             PROVE  /\ call'[g] \in New =>
                         /\ goroutines'[g] = "new" /\ g \notin listeners'
                         /\ buf'[g] = <<>> /\ seen'[g] = [k \in Keys |-> Absent]
                    /\ call'[g] = "replay" => g \in listeners'
  BY DEF Fresh
<1>1. /\ call[g] \in New =>
           /\ goroutines[g] = "new" /\ g \notin listeners
           /\ buf[g] = <<>> /\ seen[g] = [k \in Keys |-> Absent]
      /\ call[g] = "replay" => g \in listeners
  BY <1>0 DEF Fresh
<1>2. CASE UNCHANGED <<call, goroutines, listeners, buf, seen>>
  BY <1>1, <1>2
<1>3. CASE Send
  <2>1. PICK h \in work.targets : add(h, work.note)
    BY <1>3 DEF Send
  <2>2. h \in listeners /\ h \in Handlers /\ work.note \in Notifications
    BY <1>0, <1>3 DEF Send, Working
  <2>3. /\ \A f \in Handlers \ {h} : buf'[f] = buf[f]
        /\ UNCHANGED <<goroutines, seen, call, listeners>>
    BY <1>0, <1>3, <2>1, <2>2, AddTypes DEF Send, callVars
  <2> QED BY <1>1, <2>2, <2>3
<1>4. CASE StartListeners
  BY <1>0, <1>1, <1>4 DEF StartListeners, callVars
<1>5. CASE CloseListeners
  <2>1. call[g] # "replay"
    BY <1>0, <1>5 DEF CloseListeners, Phases
  <2> QED BY <1>0, <1>1, <1>5, <2>1 DEF CloseListeners, callVars
<1>6. ASSUME NEW h \in Handlers, Dispatch(h)
      PROVE  goroutines[h] # "new" /\ (h # g => buf'[g] = buf[g] /\ seen'[g] = seen[g])
             /\ UNCHANGED <<call, goroutines, listeners>>
  BY <1>0, <1>6 DEF Dispatch, callVars
<1>7. ASSUME NEW h \in Handlers, PopReturnsClosed(h) \/ ListenerReturns(h)
      PROVE  /\ goroutines[h] # "new" /\ (h # g => buf'[g] = buf[g] /\ goroutines'[g] = goroutines[g])
             /\ UNCHANGED <<call, seen, listeners>>
  BY <1>0, <1>7 DEF PopReturnsClosed, ListenerReturns, callVars
<1>8. ASSUME NEW h \in Handlers, HandlerReturns(h) \/ HandlerPanics(h)
      PROVE  UNCHANGED <<call, goroutines, listeners, buf, seen>>
  BY <1>8 DEF HandlerReturns, HandlerPanics, callVars
<1>9. CASE \E h \in Handlers : Listener(h)
  BY <1>1, <1>2, <1>6, <1>7, <1>8, <1>9 DEF Listener
<1>10. ASSUME NEW h \in Handlers, AddBeforeStart(h)
       PROVE  /\ call' = [call EXCEPT ![h] = "registered"] /\ listeners' = listeners \cup {h}
              /\ UNCHANGED <<goroutines, buf, seen>>
  BY <1>10 DEF AddBeforeStart, GoTo, listenerVars
<1>11. ASSUME NEW h \in Handlers, addListener(h)
       PROVE  /\ call' = [call EXCEPT ![h] = AfterReplay(replay'[h])]
              /\ listeners' = listeners \cup {h}
              /\ h # g => goroutines'[g] = goroutines[g]
              /\ UNCHANGED <<buf, seen>>
              /\ AfterReplay(replay'[h]) \in {"registered", "replay"}
  BY <1>0, <1>11 DEF addListener, GoTo, AfterReplay
<1>12. ASSUME NEW h \in Handlers, Replay(h)
       PROVE  /\ call' = [call EXCEPT ![h] = AfterReplay(replay'[h])] /\ call[h] = "replay"
              /\ AfterReplay(replay'[h]) \in {"registered", "replay"}
              /\ h # g => buf'[g] = buf[g]
              /\ UNCHANGED <<goroutines, seen, listeners>>
  <2>1. PICK k \in replay[h] :
          add(h, [key |-> k, old |-> Absent, new |-> indexer[k], isInInitialList |-> TRUE])
    BY <1>12 DEF Replay
  <2>2. (h # g => buf'[g] = buf[g]) /\ UNCHANGED <<goroutines, seen>>
    BY <1>0, <2>1, ReplayNote, AddTypes
  <2> QED BY <1>12, <2>2 DEF Replay, GoTo, AfterReplay
<1>13. ASSUME NEW h \in Handlers, removeListener(h)
       PROVE  /\ call' = [call EXCEPT ![h] = "removed"] /\ listeners' = listeners \ {h}
              /\ h # g => goroutines'[g] = goroutines[g]
              /\ UNCHANGED <<buf, seen>>
  BY <1>0, <1>13 DEF removeListener, GoTo
<1>14. ASSUME NEW h \in Handlers,
              \/ AddEventHandler(h) \/ RemoveEventHandler(h) \/ HasSynced(h)
              \/ AddBlocksDeltas(h) \/ RemoveBlocksDeltas(h)
              \/ UpstreamHasSynced(h) \/ HasSyncedReturns(h)
       PROVE  /\ UNCHANGED <<goroutines, listeners, buf, seen>>
              /\ \E where : /\ call' = [call EXCEPT ![h] = where]
                            /\ where \in New => call[h] \in New
                            /\ where # "replay"
  BY <1>14 DEF AddEventHandler, RemoveEventHandler, HasSynced, AddBlocksDeltas,
     RemoveBlocksDeltas, UpstreamHasSynced, HasSyncedReturns, GoTo, listenerVars
<1>15. CASE \E h \in Handlers : \/ AddBeforeStart(h) \/ addListener(h) \/ Replay(h)
                                \/ removeListener(h)
  <2>0. call \in [Handlers -> Calls]
    BY <1>0
  <2>1. PICK h \in Handlers : \/ AddBeforeStart(h) \/ addListener(h) \/ Replay(h)
                              \/ removeListener(h)
    BY <1>15
  <2>2. CASE AddBeforeStart(h)
    BY <1>1, <1>10, <2>0, <2>2
  <2>3. CASE addListener(h)
    BY <1>1, <1>11, <2>0, <2>3
  <2>4. CASE Replay(h)
    BY <1>1, <1>12, <2>0, <2>4
  <2>5. CASE removeListener(h)
    BY <1>1, <1>13, <2>0, <2>5
  <2> QED BY <2>1, <2>2, <2>3, <2>4, <2>5
<1>16. CASE \E h \in Handlers :
              \/ AddEventHandler(h) \/ RemoveEventHandler(h) \/ HasSynced(h)
              \/ AddBlocksDeltas(h) \/ RemoveBlocksDeltas(h)
              \/ UpstreamHasSynced(h) \/ HasSyncedReturns(h)
  <2>1. call \in [Handlers -> Calls]
    BY <1>0
  <2> QED BY <1>1, <1>14, <1>16, <2>1
<1>17. CASE \/ Run \/ Replace \/ Stop \/ Close \/ RunStopped \/ RunReturns
            \/ Pop \/ PopClosed \/ HandleDeltas \/ Distribute \/ PopReturns
            \/ ProcessorStops \/ ListenersDone \/ ResyncTick \/ shouldResync \/ UNCHANGED vars
  BY <1>2, <1>17 DEF Run, Replace, Stop, Close, RunStopped, RunReturns, Pop, PopClosed,
     HandleDeltas, Distribute, PopReturns, ProcessorStops, ListenersDone, ResyncTick,
     shouldResync, callVars, listenerVars, vars
<1> QED BY <1>3, <1>4, <1>5, <1>9, <1>15, <1>16, <1>17 DEF Next, Loop, Calling

\* Whoever may be sent to has its channel open: the processor closes channels only
\* when no registration is under way and nothing is being distributed.
LEMMA NextKeepsNoSendOnClosed ==
  ASSUME Informed, [Next]_vars, Working', Fresh'
  PROVE  NoSendOnClosed'
<1>0. InformerTypeOK /\ Fresh /\ Phases /\ Working /\ NoSendOnClosed
  BY DEF Informed
<1> USE Types
<1> SUFFICES ASSUME NEW g \in listeners', g \in Handlers
             PROVE  goroutines'[g] \in {"new", "open"}
  BY DEF NoSendOnClosed, Working, Fresh
<1>1. g \in listeners => goroutines[g] \in {"new", "open"}
  BY <1>0 DEF NoSendOnClosed
<1>2. CASE UNCHANGED <<goroutines, listeners>>
  BY <1>1, <1>2
<1>3. CASE StartListeners \/ CloseListeners
  BY <1>0, <1>1, <1>3 DEF StartListeners, CloseListeners
<1>4. CASE \E h \in Handlers : PopReturnsClosed(h) \/ ListenerReturns(h)
  BY <1>0, <1>1, <1>4 DEF PopReturnsClosed, ListenerReturns
<1>5. CASE \E h \in Handlers : AddBeforeStart(h)
  BY <1>0, <1>1, <1>5 DEF AddBeforeStart, listenerVars, Fresh
<1>6. CASE \E h \in Handlers : addListener(h)
  BY <1>0, <1>1, <1>6 DEF addListener, Fresh
<1>7. CASE \E h \in Handlers : removeListener(h)
  BY <1>0, <1>1, <1>7 DEF removeListener
<1>8. CASE Send \/ \E h \in Handlers : Replay(h)
  BY <1>2, <1>8 DEF Send, Replay, add
<1>9. CASE \E h \in Handlers :
              \/ AddEventHandler(h) \/ RemoveEventHandler(h) \/ HasSynced(h)
              \/ AddBlocksDeltas(h) \/ RemoveBlocksDeltas(h)
              \/ UpstreamHasSynced(h) \/ HasSyncedReturns(h)
              \/ Dispatch(h) \/ HandlerReturns(h) \/ HandlerPanics(h)
  BY <1>2, <1>9 DEF AddEventHandler, RemoveEventHandler, HasSynced, AddBlocksDeltas,
     RemoveBlocksDeltas, UpstreamHasSynced, HasSyncedReturns, Dispatch, HandlerReturns,
     HandlerPanics, listenerVars
<1>10. CASE \/ Run \/ Replace \/ Stop \/ Close \/ RunStopped \/ RunReturns
            \/ Pop \/ PopClosed \/ HandleDeltas \/ Distribute \/ PopReturns
            \/ ProcessorStops \/ ListenersDone \/ ResyncTick \/ shouldResync \/ UNCHANGED vars
  BY <1>2, <1>10 DEF Run, Replace, Stop, Close, RunStopped, RunReturns, Pop, PopClosed,
     HandleDeltas, Distribute, PopReturns, ProcessorStops, ListenersDone, ResyncTick,
     shouldResync, listenerVars, vars
<1> QED BY <1>3, <1>4, <1>5, <1>6, <1>7, <1>8, <1>9, <1>10 DEF Next, Loop, Calling, Listener

-----------------------------------------------------------------------------
(* HasSynced *)

\* The steps that leave a listener's buffer, handler and counter alone.
LEMMA ListenersAside ==
  ASSUME \/ Run \/ Replace \/ Stop \/ Close \/ RunStopped \/ RunReturns
         \/ Pop \/ PopClosed \/ HandleDeltas \/ Distribute \/ PopReturns
         \/ StartListeners \/ ProcessorStops \/ CloseListeners \/ ListenersDone
         \/ ResyncTick \/ shouldResync
         \/ \E h \in Handlers :
              \/ AddBeforeStart(h) \/ AddEventHandler(h) \/ RemoveEventHandler(h)
              \/ HasSynced(h) \/ AddBlocksDeltas(h) \/ addListener(h)
              \/ RemoveBlocksDeltas(h) \/ removeListener(h)
              \/ UpstreamHasSynced(h) \/ HasSyncedReturns(h) \/ ListenerReturns(h)
         \/ UNCHANGED vars
  PROVE  UNCHANGED <<buf, handling, count, seen>>
BY DEF Run, Replace, Stop, Close, RunStopped, RunReturns, Pop, PopClosed, HandleDeltas,
   Distribute, PopReturns, StartListeners, ProcessorStops, CloseListeners, ListenersDone,
   ResyncTick, shouldResync, AddBeforeStart, AddEventHandler, RemoveEventHandler, HasSynced,
   AddBlocksDeltas, addListener, RemoveBlocksDeltas, removeListener, UpstreamHasSynced,
   HasSyncedReturns, ListenerReturns, listenerVars, vars

\* A step either leaves the listeners alone or is one of a few.
LEMMA ListenerCases ==
  ASSUME [Next]_vars
  PROVE  \/ UNCHANGED <<buf, handling, count, seen>>
         \/ Send
         \/ \E h \in Handlers : \/ Replay(h) \/ Dispatch(h) \/ HandlerReturns(h)
                                \/ HandlerPanics(h) \/ PopReturnsClosed(h)
BY ListenersAside DEF Next, Loop, Calling, Listener

\* Start before the send and Finished after the handler: the counter never falls
\* behind what is on its way.
LEMMA NextKeepsCounted ==
  ASSUME Informed, [Next]_vars
  PROVE  Counted'
<1>0. InformerTypeOK /\ Counted /\ Working
  BY DEF Informed
<1> USE Types
<1> SUFFICES ASSUME NEW g \in Handlers
             PROVE  Cardinality(Initials(buf'[g])) + HandlingInitial(g)' <= count'[g]
  BY DEF Counted
<1>1. /\ Cardinality(Initials(buf[g])) + HandlingInitial(g) <= count[g]
      /\ Cardinality(Initials(buf[g])) \in Nat /\ HandlingInitial(g) \in {0, 1}
      /\ count[g] \in Nat
  BY <1>0, InitialsFinite DEF Counted, HandlingInitial
<1>2. CASE buf'[g] = buf[g] /\ handling'[g] = handling[g] /\ count'[g] = count[g]
  BY <1>1, <1>2 DEF HandlingInitial
<1>3. ASSUME NEW h \in Handlers, NEW note \in Notifications, add(h, note)
      PROVE  Cardinality(Initials(buf'[g])) + HandlingInitial(g)' <= count'[g]
  <2>1. CASE h = g
    <3>1. /\ buf'[g] = Append(buf[g], note) /\ handling' = handling
          /\ count'[g] = count[g] + IF note.isInInitialList THEN 1 ELSE 0
      BY <1>0, <1>3, <2>1, AddTypes
    <3>2. Cardinality(Initials(buf'[g])) =
            Cardinality(Initials(buf[g])) + IF note.isInInitialList THEN 1 ELSE 0
      BY <1>0, <3>1, InitialsAppend
    <3>3. HandlingInitial(g)' = HandlingInitial(g)
      BY <3>1 DEF HandlingInitial
    <3> QED BY <1>1, <3>1, <3>2, <3>3
  <2>2. CASE h # g
    BY <1>0, <1>2, <1>3, <2>2, AddTypes
  <2> QED BY <2>1, <2>2
<1>4. CASE Send
  BY <1>0, <1>3, <1>4 DEF Send, Working
<1>5. ASSUME NEW h \in Handlers, Replay(h)
      PROVE  Cardinality(Initials(buf'[g])) + HandlingInitial(g)' <= count'[g]
  BY <1>0, <1>3, <1>5, ReplayNote DEF Replay
<1>6. ASSUME NEW h \in Handlers, Dispatch(h)
      PROVE  Cardinality(Initials(buf'[g])) + HandlingInitial(g)' <= count'[g]
  <2>1. CASE h = g
    <3>1. /\ buf[g] # <<>> /\ buf'[g] = Tail(buf[g]) /\ handling[g] = None
          /\ handling'[g] = Head(buf[g]) /\ count'[g] = count[g]
      BY <1>0, <1>6, <2>1 DEF Dispatch
    <3>2. /\ Head(buf[g]) \in Notifications
          /\ Tail(buf[g]) \in Seq(Notifications)
      BY <1>0, <3>1, HeadTailProperties
    <3>3. Cardinality(Initials(buf[g])) =
            Cardinality(Initials(buf'[g])) + IF Head(buf[g]).isInInitialList THEN 1 ELSE 0
      BY <1>0, <3>1, InitialsTail
    <3>4. /\ HandlingInitial(g) = 0
          /\ HandlingInitial(g)' = IF Head(buf[g]).isInInitialList THEN 1 ELSE 0
      BY <3>1, <3>2, NoneAssumption DEF HandlingInitial
    <3>5. Cardinality(Initials(buf'[g])) \in Nat
      BY <3>1, <3>2, InitialsFinite
    <3> QED BY <1>1, <3>1, <3>3, <3>4, <3>5
  <2>2. CASE h # g
    BY <1>0, <1>2, <1>6, <2>2 DEF Dispatch
  <2> QED BY <2>1, <2>2
<1>7. ASSUME NEW h \in Handlers, HandlerReturns(h) \/ HandlerPanics(h)
      PROVE  Cardinality(Initials(buf'[g])) + HandlingInitial(g)' <= count'[g]
  <2>1. CASE h = g
    <3>1. /\ buf'[g] = buf[g] /\ handling[g] # None /\ handling'[g] = None
          /\ \/ count'[g] = count[g]
             \/ handling[g].isInInitialList /\ count'[g] = count[g] - 1
      BY <1>0, <1>7, <2>1 DEF HandlerReturns, HandlerPanics
    <3>2. /\ HandlingInitial(g)' = 0
          /\ handling[g].isInInitialList => HandlingInitial(g) = 1
      BY <3>1 DEF HandlingInitial
    <3> QED BY <1>1, <3>1, <3>2
  <2>2. CASE h # g
    BY <1>0, <1>2, <1>7, <2>2 DEF HandlerReturns, HandlerPanics
  <2> QED BY <2>1, <2>2
<1>8. ASSUME NEW h \in Handlers, PopReturnsClosed(h)
      PROVE  Cardinality(Initials(buf'[g])) + HandlingInitial(g)' <= count'[g]
  <2>1. CASE h = g
    <3>1. buf'[g] = <<>> /\ handling' = handling /\ count' = count
      BY <1>0, <1>8, <2>1 DEF PopReturnsClosed
    <3>2. Initials(buf'[g]) = {}
      BY <3>1 DEF Initials
    <3>3. Cardinality(Initials(buf'[g])) = 0 /\ HandlingInitial(g)' = HandlingInitial(g)
      BY <3>1, <3>2, FS_EmptySet DEF HandlingInitial
    <3> QED BY <1>1, <3>1, <3>3
  <2>2. CASE h # g
    BY <1>0, <1>2, <1>8, <2>2 DEF PopReturnsClosed
  <2> QED BY <2>1, <2>2
<1> QED BY <1>2, <1>4, <1>5, <1>6, <1>7, <1>8, ListenerCases

\* What HasSynced learned of the queue stays true: the initial list comes once.
LEMMA ListGone ==
  ASSUME Informed, [Next]_vars, populated, initial = {}
  PROVE  /\ populated' /\ initial' = {}
         /\ ~work.isInInitialList => ~work'.isInInitialList
<1>0. InformerTypeOK
  BY DEF Informed
<1>1. CASE Pop
  <2>1. PICK k \in Keys : work' = [Idle EXCEPT !.key = k, !.isInInitialList = initial # {}]
    BY <1>0, <1>1, Types DEF Pop
  <2>2. work'.isInInitialList = FALSE
    BY <2>1 DEF Idle
  <2> QED BY <1>1, <2>2 DEF Pop
<1>2. CASE PopReturns
  BY <1>2 DEF PopReturns, Idle, queueVars
<1>3. CASE HandleDeltas \/ Distribute \/ Send
  <2>1. work'.isInInitialList = work.isInInitialList
    BY <1>0, <1>3, Types DEF HandleDeltas, Distribute, Send
  <2> QED BY <1>3, <2>1 DEF HandleDeltas, Distribute, Send, queueVars
<1>4. CASE UNCHANGED <<populated, initial, work>>
  BY <1>4
<1>5. CASE \E h \in Handlers : Listener(h)
  BY <1>4, <1>5, ListenerSteps DEF queueVars, loopVars
<1>6. CASE \E h \in Handlers : \/ AddBeforeStart(h) \/ AddEventHandler(h)
                               \/ RemoveEventHandler(h) \/ HasSynced(h) \/ Calling(h)
  <2>1. UNCHANGED <<queueVars, loopVars>>
    BY <1>6, CallSteps
  <2> QED BY <1>4, <2>1 DEF queueVars, loopVars
<1>7. CASE \/ Run \/ Stop \/ Close \/ RunStopped \/ RunReturns \/ PopClosed \/ StartListeners
           \/ ProcessorStops \/ CloseListeners \/ ListenersDone \/ ResyncTick \/ shouldResync
           \/ UNCHANGED vars
  BY <1>4, <1>7 DEF Run, Stop, Close, RunStopped, RunReturns, PopClosed, StartListeners,
     ProcessorStops, CloseListeners, ListenersDone, ResyncTick, shouldResync, queueVars,
     loopVars, vars
<1>8. ~Replace
  BY DEF Replace
<1> QED BY <1>1, <1>2, <1>3, <1>5, <1>6, <1>7, <1>8 DEF Next, Loop

LEMMA NextKeepsAnswered ==
  ASSUME Informed, [Next]_vars
  PROVE  Answered'
<1>0. InformerTypeOK /\ Answered /\ Working /\ call \in [Handlers -> Calls]
      /\ synced \in [Handlers -> BOOLEAN]
  BY Types DEF Informed
<1> DEFINE Gone == populated /\ initial = {} /\ ~work.isInInitialList
           Past == {"registered", "removeBlocked", "removeListener", "removed"}
<1>1. Gone => Gone'
  BY ListGone
<1> SUFFICES ASSUME NEW g \in Handlers
             PROVE  (call'[g] = "counting" => Gone') /\ (synced'[g] => call'[g] \in Past)
  BY DEF Answered
<1>2. (call[g] = "counting" => Gone) /\ (synced[g] => call[g] \in Past)
  BY <1>0 DEF Answered
<1> HIDE DEF Gone
<1>3. CASE call'[g] = call[g] /\ synced'[g] = synced[g]
  BY <1>1, <1>2, <1>3
<1>4. ASSUME NEW h \in Handlers, UpstreamHasSynced(h)
      PROVE  (call'[g] = "counting" => Gone') /\ (synced'[g] => call'[g] \in Past)
  <2>1. CASE h = g
    <3>1. call[g] = "upstream" /\ ~synced[g] /\ synced' = synced
      BY <1>2, <1>4, <2>1 DEF UpstreamHasSynced
    <3>2. work = Idle
      BY <1>0, <1>4 DEF UpstreamHasSynced, QueueLockFree, Working
    <3>3. call'[g] = "counting" => populated /\ initial = {}
      BY <1>0, <1>4, <2>1 DEF UpstreamHasSynced, GoTo
    <3>4. call'[g] = "counting" => Gone
      BY <3>2, <3>3 DEF Gone, Idle
    <3> QED BY <1>1, <3>1, <3>4
  <2>2. CASE h # g
    BY <1>0, <1>3, <1>4, <2>2 DEF UpstreamHasSynced, GoTo
  <2> QED BY <2>1, <2>2
<1>5. ASSUME NEW h \in Handlers, HasSyncedReturns(h)
      PROVE  (call'[g] = "counting" => Gone') /\ (synced'[g] => call'[g] \in Past)
  <2>1. CASE h = g
    BY <1>0, <1>5, <2>1 DEF HasSyncedReturns, GoTo
  <2>2. CASE h # g
    BY <1>0, <1>3, <1>5, <2>2 DEF HasSyncedReturns, GoTo
  <2> QED BY <2>1, <2>2
<1>6. ASSUME NEW h \in Handlers,
             \/ AddBeforeStart(h) \/ AddEventHandler(h) \/ RemoveEventHandler(h)
             \/ HasSynced(h) \/ AddBlocksDeltas(h) \/ addListener(h) \/ Replay(h)
             \/ RemoveBlocksDeltas(h) \/ removeListener(h)
      PROVE  /\ synced' = synced
             /\ \E where : /\ call' = [call EXCEPT ![h] = where] /\ where # "counting"
                           /\ where \in Past \/ call[h] \notin Past \/ ~synced[h]
  BY <1>6 DEF AddBeforeStart, AddEventHandler, RemoveEventHandler, HasSynced,
     AddBlocksDeltas, addListener, Replay, AfterReplay, RemoveBlocksDeltas, removeListener,
     GoTo, callVars
<1>7. CASE \E h \in Handlers :
             \/ AddBeforeStart(h) \/ AddEventHandler(h) \/ RemoveEventHandler(h)
             \/ HasSynced(h) \/ AddBlocksDeltas(h) \/ addListener(h) \/ Replay(h)
             \/ RemoveBlocksDeltas(h) \/ removeListener(h)
  BY <1>0, <1>1, <1>2, <1>6, <1>7
<1>8. CASE \E h \in Handlers : Listener(h)
  BY <1>3, <1>8, ListenerSteps DEF callVars
<1>9. CASE \/ Run \/ Replace \/ Stop \/ Close \/ RunStopped \/ RunReturns
            \/ Pop \/ PopClosed \/ HandleDeltas \/ Distribute \/ Send \/ PopReturns
            \/ StartListeners \/ ProcessorStops \/ CloseListeners \/ ListenersDone
            \/ ResyncTick \/ shouldResync \/ UNCHANGED vars
  BY <1>3, <1>9 DEF Run, Replace, Stop, Close, RunStopped, RunReturns, Pop, PopClosed,
     HandleDeltas, Distribute, Send, PopReturns, StartListeners, ProcessorStops,
     CloseListeners, ListenersDone, ResyncTick, shouldResync, callVars, vars
<1> QED BY <1>4, <1>5, <1>7, <1>8, <1>9 DEF Next, Loop, Calling

\* The answer TRUE means that nothing initial is on its way, and nothing initial
\* comes after it.
LEMMA NextKeepsSynced ==
  ASSUME Informed, [Next]_vars
  PROVE  SyncedMeansDelivered'
<1> DEFINE Quiet(s) == \A i \in DOMAIN s : ~s[i].isInInitialList
           Calm(x) == x # None => ~x.isInInitialList
<1>0. InformerTypeOK /\ Counted /\ Answered /\ Working /\ SyncedMeansDelivered
  BY DEF Informed
<1> USE Types
<1> SUFFICES ASSUME NEW g \in Handlers, synced'[g]
             PROVE  /\ populated' /\ initial' = {} /\ ~work'.isInInitialList
                    /\ Quiet(buf'[g]) /\ Calm(handling'[g])
  BY DEF SyncedMeansDelivered
<1>1. CASE ~synced[g]
  <2>1. HasSyncedReturns(g)
    <3>1. CASE UNCHANGED synced
      BY <1>1, <3>1
    <3>2. CASE \E h \in Handlers : HasSyncedReturns(h)
      BY <1>0, <1>1, <3>2 DEF HasSyncedReturns
    <3>3. CASE \E h \in Handlers : Listener(h)
      BY <3>1, <3>3, ListenerSteps DEF callVars
    <3>4. CASE \E h \in Handlers :
             \/ AddBeforeStart(h) \/ AddEventHandler(h) \/ RemoveEventHandler(h)
             \/ HasSynced(h) \/ AddBlocksDeltas(h) \/ addListener(h) \/ Replay(h)
             \/ RemoveBlocksDeltas(h) \/ removeListener(h) \/ UpstreamHasSynced(h)
      BY <3>1, <3>4 DEF AddBeforeStart, AddEventHandler, RemoveEventHandler, HasSynced,
         AddBlocksDeltas, addListener, Replay, RemoveBlocksDeltas, removeListener,
         UpstreamHasSynced
    <3>5. CASE \/ Run \/ Replace \/ Stop \/ Close \/ RunStopped \/ RunReturns
               \/ Pop \/ PopClosed \/ HandleDeltas \/ Distribute \/ Send \/ PopReturns
               \/ StartListeners \/ ProcessorStops \/ CloseListeners \/ ListenersDone
               \/ ResyncTick \/ shouldResync \/ UNCHANGED vars
      BY <3>1, <3>5 DEF Run, Replace, Stop, Close, RunStopped, RunReturns, Pop, PopClosed,
         HandleDeltas, Distribute, Send, PopReturns, StartListeners, ProcessorStops,
         CloseListeners, ListenersDone, ResyncTick, shouldResync, callVars, vars
    <3> QED BY <3>2, <3>3, <3>4, <3>5 DEF Next, Loop, Calling
  <2>2. call[g] = "counting" /\ count[g] = 0
        /\ UNCHANGED <<populated, initial, work, buf, handling>>
    BY <1>0, <2>1 DEF HasSyncedReturns, queueVars, loopVars, listenerVars
  <2>3. populated /\ initial = {} /\ ~work.isInInitialList
    BY <1>0, <2>2 DEF Answered
  <2>4. /\ Cardinality(Initials(buf[g])) \in Nat /\ IsFiniteSet(Initials(buf[g]))
        /\ HandlingInitial(g) \in {0, 1}
        /\ Cardinality(Initials(buf[g])) + HandlingInitial(g) <= 0
    BY <1>0, <2>2, InitialsFinite DEF Counted, HandlingInitial
  <2>5. Cardinality(Initials(buf[g])) = 0 /\ HandlingInitial(g) = 0
    BY <2>4
  <2>6. Initials(buf[g]) = {}
    BY <2>4, <2>5, FS_EmptySet
  <2>7. DOMAIN buf[g] = 1 .. Len(buf[g])
    BY <1>0, LenProperties
  <2>8. Quiet(buf[g])
    BY <2>6, <2>7 DEF Initials
  <2>9. Calm(handling[g])
    BY <2>5 DEF HandlingInitial
  <2> QED BY <2>2, <2>3, <2>8, <2>9
<1>2. CASE synced[g]
  <2>1. /\ populated /\ initial = {} /\ ~work.isInInitialList
        /\ Quiet(buf[g]) /\ Calm(handling[g])
    BY <1>0, <1>2 DEF SyncedMeansDelivered
  <2>2. populated' /\ initial' = {} /\ ~work'.isInInitialList
    BY <2>1, ListGone
  <2>3. Quiet(buf'[g]) /\ Calm(handling'[g])
    <3>1. CASE buf'[g] = buf[g] /\ handling'[g] \in {handling[g], None}
      BY <2>1, <3>1
    <3>2. CASE Send
      <4>1. PICK h \in work.targets : add(h, work.note)
        BY <3>2 DEF Send
      <4>2. /\ work.note \in Notifications /\ h \in Handlers /\ ~work.note.isInInitialList
        BY <1>0, <2>1, <3>2 DEF Send, Working
      <4>3. CASE h # g
        BY <1>0, <3>1, <4>1, <4>2, <4>3, AddTypes
      <4>4. CASE h = g
        <5>1. buf'[g] = Append(buf[g], work.note) /\ handling' = handling
          BY <1>0, <4>1, <4>2, <4>4, AddTypes
        <5>2. /\ Len(buf'[g]) = Len(buf[g]) + 1 /\ Len(buf[g]) \in Nat
              /\ buf'[g] \in Seq(Notifications) /\ buf[g] \in Seq(Notifications)
              /\ \A i \in 1 .. Len(buf[g]) : buf'[g][i] = buf[g][i]
              /\ buf'[g][Len(buf[g]) + 1] = work.note
          BY <1>0, <4>2, <5>1, AfterAppend
        <5>3. DOMAIN buf'[g] = 1 .. Len(buf[g]) + 1 /\ DOMAIN buf[g] = 1 .. Len(buf[g])
          BY <5>2, LenProperties
        <5>4. Quiet(buf'[g])
          BY <2>1, <4>2, <5>2, <5>3
        <5> QED BY <2>1, <5>1, <5>4
      <4> QED BY <4>3, <4>4
    <3>3. ASSUME NEW h \in Handlers, Replay(h)
          PROVE  Quiet(buf'[g]) /\ Calm(handling'[g])
      <4>1. h # g
        BY <1>0, <1>2, <3>3 DEF Replay, Answered
      <4>2. buf'[g] = buf[g] /\ handling' = handling
        BY <1>0, <3>3, <4>1, ReplayNote, AddTypes DEF Replay
      <4> QED BY <3>1, <4>2
    <3>4. ASSUME NEW h \in Handlers, Dispatch(h)
          PROVE  Quiet(buf'[g]) /\ Calm(handling'[g])
      <4>1. CASE h # g
        BY <1>0, <3>1, <3>4, <4>1 DEF Dispatch
      <4>2. CASE h = g
        <5>1. buf[g] # <<>> /\ buf'[g] = Tail(buf[g]) /\ handling'[g] = Head(buf[g])
          BY <1>0, <3>4, <4>2 DEF Dispatch
        <5>2. /\ Head(buf[g]) = buf[g][1] /\ Len(buf[g]) \in Nat \ {0}
              /\ buf'[g] \in Seq(Notifications) /\ buf[g] \in Seq(Notifications)
              /\ Len(buf'[g]) = Len(buf[g]) - 1
              /\ \A i \in 1 .. Len(buf[g]) - 1 : buf'[g][i] = buf[g][i + 1]
          BY <1>0, <5>1, AfterTail
        <5>3. DOMAIN buf'[g] = 1 .. Len(buf[g]) - 1 /\ DOMAIN buf[g] = 1 .. Len(buf[g])
          BY <5>2, LenProperties
        <5>4. Quiet(buf'[g])
          <6>1. ASSUME NEW i \in 1 .. Len(buf[g]) - 1
                PROVE  ~buf'[g][i].isInInitialList
            <7>1. i + 1 \in 1 .. Len(buf[g]) /\ buf'[g][i] = buf[g][i + 1]
              BY <5>2
            <7> QED BY <2>1, <5>3, <7>1
          <6> QED BY <5>3, <6>1
        <5>5. Calm(handling'[g])
          BY <2>1, <5>1, <5>2, <5>3
        <5> QED BY <5>4, <5>5
      <4> QED BY <4>1, <4>2
    <3>5. ASSUME NEW h \in Handlers, HandlerReturns(h) \/ HandlerPanics(h)
          PROVE  Quiet(buf'[g]) /\ Calm(handling'[g])
      BY <1>0, <3>1, <3>5 DEF HandlerReturns, HandlerPanics
    <3>6. ASSUME NEW h \in Handlers, PopReturnsClosed(h)
          PROVE  Quiet(buf'[g]) /\ Calm(handling'[g])
      <4>1. handling' = handling /\ (buf'[g] = buf[g] \/ buf'[g] = <<>>)
        BY <1>0, <3>6 DEF PopReturnsClosed
      <4>2. Quiet(<<>>)
        OBVIOUS
      <4> QED BY <2>1, <4>1, <4>2
    <3> QED BY <3>1, <3>2, <3>3, <3>4, <3>5, <3>6, ListenerCases
  <2> QED BY <2>2, <2>3
<1> QED BY <1>0, <1>1, <1>2

-----------------------------------------------------------------------------
(* What the handlers know *)

LEMMA ToldIsNext ==
  \A h, n : \A k \in Keys : Told(h, n)'[k] = After(buf'[h], seen'[h][k], n, k)
BY DEF Told, After

\* What a handler knows once it has been told everything in its buffer.
Known(h, k) == Told(h, Len(buf[h]))[k]

LEMMA KnownIs ==
  /\ \A h : \A k \in Keys : Known(h, k) = After(buf[h], seen[h][k], Len(buf[h]), k)
  /\ \A h : \A k \in Keys : Known(h, k)' = After(buf'[h], seen'[h][k], Len(buf'[h]), k)
BY DEF Known, Told, After

\* A notification that continues what the handler will know may be sent to it.
LEMMA AddTells ==
  ASSUME InformerTypeOK, Chained, NEW h \in Handlers, NEW note \in Notifications,
         add(h, note), note.old = Known(h, note.key)
  PROVE  /\ Chained'
         /\ \A k \in Keys : Known(h, k)' = IF note.key = k THEN note.new ELSE Known(h, k)
         /\ \A g \in Handlers \ {h} : \A k \in Keys : Known(g, k)' = Known(g, k)
<1>1. /\ buf'[h] = Append(buf[h], note) /\ seen' = seen
      /\ \A g \in Handlers \ {h} : buf'[g] = buf[g]
      /\ buf[h] \in Seq(Notifications)
  BY AddTypes, Types
<1>2. /\ buf'[h] \in Seq(Notifications)
      /\ Len(buf'[h]) = Len(buf[h]) + 1 /\ Len(buf[h]) \in Nat
      /\ \A i \in 1 .. Len(buf[h]) : buf'[h][i] = buf[h][i]
      /\ buf'[h][Len(buf[h]) + 1] = note
  BY <1>1, AfterAppend
<1>3. ASSUME NEW k \in Keys
      PROVE  /\ \A n \in 0 .. Len(buf[h]) : Told(h, n)'[k] = Told(h, n)[k]
             /\ Known(h, k)' = IF note.key = k THEN note.new ELSE Known(h, k)
  <2> DEFINE b == Append(buf[h], note)
             s == seen[h][k]
  <2>1. /\ \A n \in 0 .. Len(buf[h]) : After(b, s, n, k) = After(buf[h], s, n, k)
        /\ After(b, s, Len(buf[h]) + 1, k) =
             IF note.key = k THEN note.new ELSE After(buf[h], s, Len(buf[h]), k)
    <3>1. buf[h] \in Seq(Notifications)
      BY <1>1
    <3>2. Tells(buf[h], b, note, s, k)
      BY <3>1, AppendTells
    <3> QED BY <3>2 DEF Tells
  <2>2. buf'[h] = b /\ seen'[h][k] = s
    BY <1>1
  <2>3. Known(h, k)' = IF note.key = k THEN note.new ELSE Known(h, k)
    BY <1>2, <2>1, <2>2, KnownIs
  <2> QED BY <2>1, <2>2, <2>3, ToldIs, ToldIsNext
<1>4. ASSUME NEW g \in Handlers \ {h}, NEW k \in Keys
      PROVE  /\ \A n : Told(g, n)'[k] = Told(g, n)[k]
             /\ Known(g, k)' = Known(g, k)
  BY <1>1, ToldIs, ToldIsNext, KnownIs
<1>5. ASSUME NEW g \in Handlers, NEW i \in 1 .. Len(buf'[g])
      PROVE  buf'[g][i].old = Told(g, i - 1)'[buf'[g][i].key]
  <2>1. CASE g = h /\ i = Len(buf[h]) + 1
    <3>1. buf'[g][i] = note /\ i - 1 = Len(buf[h]) /\ note.key \in Keys
      BY <1>2, <2>1, NoteFields
    <3>2. Told(h, i - 1)'[note.key] = Told(h, Len(buf[h]))[note.key]
      BY <1>2, <1>3, <3>1
    <3> QED BY <2>1, <3>1, <3>2 DEF Known
  <2>2. CASE g = h /\ i # Len(buf[h]) + 1
    <3>1. i \in 1 .. Len(buf[h]) /\ i - 1 \in 0 .. Len(buf[h]) /\ buf'[g][i] = buf[h][i]
      BY <1>2, <2>2
    <3>2. buf[h][i].key \in Keys
      BY <1>1, <3>1, ElementOfSeq, NoteFields
    <3>3. buf[h][i].old = Told(h, i - 1)[buf[h][i].key]
      BY <3>1 DEF Chained
    <3> QED BY <1>3, <2>2, <3>1, <3>2, <3>3
  <2>3. CASE g # h
    <3>1. buf'[g] = buf[g] /\ buf[g] \in Seq(Notifications)
      BY <1>1, <2>3, Types
    <3>2. buf[g][i].key \in Keys
      BY <3>1, ElementOfSeq, NoteFields
    <3>3. buf[g][i].old = Told(g, i - 1)[buf[g][i].key]
      BY <3>1 DEF Chained
    <3> QED BY <1>4, <2>3, <3>1, <3>2, <3>3
  <2> QED BY <2>1, <2>2, <2>3
<1>6. Chained'
  BY <1>5 DEF Chained
<1> QED BY <1>3, <1>4, <1>6

\* Dispatch moves what the handler is told first to what it has seen.
LEMMA DispatchTells ==
  ASSUME InformerTypeOK, Chained, NEW h \in Handlers, Dispatch(h)
  PROVE  Chained' /\ \A g \in Handlers : \A k \in Keys : Known(g, k)' = Known(g, k)
<1> DEFINE note == Head(buf[h])
<1>1. /\ buf[h] \in Seq(Notifications) /\ buf[h] # <<>> /\ buf'[h] = Tail(buf[h])
      /\ seen[h] \in [Keys -> Versions] /\ seen'[h] = [seen[h] EXCEPT ![note.key] = note.new]
      /\ \A g \in Handlers \ {h} : buf'[g] = buf[g] /\ seen'[g] = seen[g]
  BY Types DEF Dispatch
<1>2. /\ Len(buf'[h]) = Len(buf[h]) - 1 /\ Len(buf[h]) \in Nat \ {0}
      /\ \A i \in 1 .. Len(buf[h]) - 1 : buf'[h][i] = buf[h][i + 1]
  BY <1>1, AfterTail
<1>3. ASSUME NEW k \in Keys, NEW n \in 0 .. Len(buf[h]) - 1
      PROVE  Told(h, n)'[k] = Told(h, n + 1)[k]
  <2>1. seen'[h][k] = IF note.key = k THEN note.new ELSE seen[h][k]
    BY <1>1
  <2>2. After(buf'[h], IF note.key = k THEN note.new ELSE seen[h][k], n, k) =
          After(buf[h], seen[h][k], n + 1, k)
    BY <1>1, AfterTail
  <2> QED BY <2>1, <2>2, ToldIs, ToldIsNext
<1>4. ASSUME NEW k \in Keys
      PROVE  Known(h, k)' = Known(h, k)
  <2> DEFINE m == Len(buf[h])
  <2>1. m - 1 \in 0 .. m - 1 /\ (m - 1) + 1 = m /\ Len(buf'[h]) = m - 1
    BY <1>2
  <2>2. seen'[h][k] = IF note.key = k THEN note.new ELSE seen[h][k]
    BY <1>1
  <2>3. After(buf'[h], IF note.key = k THEN note.new ELSE seen[h][k], m - 1, k) =
          After(buf[h], seen[h][k], (m - 1) + 1, k)
    <3>1. \A n \in 0 .. m - 1 :
            After(Tail(buf[h]), IF note.key = k THEN note.new ELSE seen[h][k], n, k) =
              After(buf[h], seen[h][k], n + 1, k)
      BY <1>1, AfterTail
    <3> QED BY <1>1, <2>1, <3>1
  <2> QED BY <2>1, <2>2, <2>3, KnownIs
<1>5. ASSUME NEW g \in Handlers \ {h}, NEW k \in Keys
      PROVE  /\ \A n : Told(g, n)'[k] = Told(g, n)[k]
             /\ Known(g, k)' = Known(g, k)
  BY <1>1, ToldIs, ToldIsNext, KnownIs
<1>6. ASSUME NEW g \in Handlers, NEW i \in 1 .. Len(buf'[g])
      PROVE  buf'[g][i].old = Told(g, i - 1)'[buf'[g][i].key]
  <2>1. CASE g = h
    <3>1. /\ i + 1 \in 1 .. Len(buf[h]) /\ i - 1 \in 0 .. Len(buf[h]) - 1
          /\ (i - 1) + 1 = i /\ (i + 1) - 1 = i /\ buf'[g][i] = buf[h][i + 1]
      BY <1>2, <2>1
    <3>2. buf[h][i + 1].key \in Keys
      BY <1>1, <3>1, ElementOfSeq, NoteFields
    <3>3. buf[h][i + 1].old = Told(h, i)[buf[h][i + 1].key]
      BY <3>1 DEF Chained
    <3>4. Told(h, i - 1)'[buf[h][i + 1].key] = Told(h, i)[buf[h][i + 1].key]
      BY <1>3, <3>1, <3>2
    <3> QED BY <2>1, <3>1, <3>3, <3>4
  <2>2. CASE g # h
    <3>1. buf'[g] = buf[g] /\ buf[g] \in Seq(Notifications)
      BY <1>1, <2>2, Types
    <3>2. buf[g][i].key \in Keys
      BY <3>1, ElementOfSeq, NoteFields
    <3>3. buf[g][i].old = Told(g, i - 1)[buf[g][i].key]
      BY <3>1 DEF Chained
    <3> QED BY <1>5, <2>2, <3>1, <3>2, <3>3
  <2> QED BY <2>1, <2>2
<1>7. Chained'
  BY <1>6 DEF Chained
<1> QED BY <1>4, <1>5, <1>7

\* A buffer and what was seen before it tell the same, whoever else acts.
LEMMA SameTells ==
  ASSUME Chained, NEW S \in SUBSET Handlers,
         \A g \in S : buf'[g] = buf[g] /\ seen'[g] = seen[g],
         \A g \in Handlers \ S : buf'[g] = <<>>
  PROVE  Chained' /\ \A g \in S : \A k \in Keys : Known(g, k)' = Known(g, k)
<1>1. ASSUME NEW g \in S
      PROVE  \A n : Told(g, n)' = Told(g, n)
  BY <1>1 DEF Told
<1>2. ASSUME NEW g \in S, NEW k \in Keys
      PROVE  Known(g, k)' = Known(g, k)
  BY <1>1 DEF Known
<1>3. ASSUME NEW g \in Handlers, NEW i \in 1 .. Len(buf'[g])
      PROVE  buf'[g][i].old = Told(g, i - 1)'[buf'[g][i].key]
  <2>1. CASE g \in S
    BY <1>1, <1>3, <2>1 DEF Chained
  <2>2. CASE g \notin S
    <3>1. Len(buf'[g]) = 0
      BY <2>2
    <3> QED BY <3>1
  <2> QED BY <2>1, <2>2
<1> QED BY <1>2, <1>3 DEF Chained

\* distribute: the notification goes from what the handler knows to the indexer.
LEMMA SendTells ==
  ASSUME Informed, Send
  PROVE  Chained' /\ Viewed'
<1>0. InformerTypeOK /\ Working /\ Blocked /\ Viewed /\ Chained
  BY DEF Informed
<1>1. PICK h \in work.targets : /\ add(h, work.note)
                                /\ work' = [work EXCEPT !.targets = @ \ {h}]
  BY DEF Send
<1>2. /\ loop = "send" /\ loop' \in {"processed", "send"}
      /\ UNCHANGED <<listeners, indexer, call, replay>>
  BY DEF Send, AfterSend, callVars
<1>3. /\ work.note \in Notifications /\ work.key \in Keys /\ work.note.key = work.key
      /\ work.note.new = indexer[work.key]
      /\ h \in Handlers /\ h \in listeners /\ listeners \subseteq Handlers
      /\ \A g \in Handlers : call[g] # "replay"
  BY <1>0, <1>2, Types DEF Working, Blocked
<1>4. work.note.old = Known(h, work.note.key)
  BY <1>0, <1>1, <1>2, <1>3 DEF Viewed, View, Known
<1>5. /\ Chained'
      /\ \A k \in Keys :
           Known(h, k)' = IF work.note.key = k THEN work.note.new ELSE Known(h, k)
      /\ \A g \in Handlers \ {h} : \A k \in Keys : Known(g, k)' = Known(g, k)
  BY <1>0, <1>1, <1>3, <1>4, AddTells
<1>6. work'.key = work.key /\ work'.note = work.note /\ work'.targets = work.targets \ {h}
  BY <1>0, <1>1, Types
<1>7. ASSUME NEW g \in listeners, NEW k \in Keys
      PROVE  Known(g, k)' = View(g, k)'
  <2>1. /\ Known(g, k) = View(g, k) /\ g \in Handlers /\ call'[g] # "replay"
    BY <1>0, <1>2, <1>3 DEF Viewed, Known
  <2>2. View(g, k) = IF k = work.key /\ g \in work.targets THEN work.note.old ELSE indexer[k]
    BY <1>2, <2>1 DEF View
  <2>3. View(g, k)' = IF k = work.key /\ g \in work.targets \ {h}
                      THEN work.note.old ELSE indexer[k]
    BY <1>2, <1>6, <2>1 DEF View
  <2>4. CASE g = h
    BY <1>3, <1>5, <2>1, <2>2, <2>3, <2>4
  <2>5. CASE g # h
    BY <1>5, <2>1, <2>2, <2>3, <2>5
  <2> QED BY <2>4, <2>5
<1> QED BY <1>2, <1>5, <1>7 DEF Viewed, Known

\* AddEventHandler: an object that is replayed was not known to the handler.
LEMMA ReplayTells ==
  ASSUME Informed, NEW h \in Handlers, Replay(h)
  PROVE  Chained' /\ Viewed'
<1>0. InformerTypeOK /\ Working /\ Blocked /\ Fresh /\ Viewed /\ Chained
  BY DEF Informed
<1>1. PICK k0 \in replay[h] :
        /\ add(h, [key |-> k0, old |-> Absent, new |-> indexer[k0], isInInitialList |-> TRUE])
        /\ replay' = [replay EXCEPT ![h] = @ \ {k0}]
  BY DEF Replay
<1> DEFINE note == [key |-> k0, old |-> Absent, new |-> indexer[k0], isInInitialList |-> TRUE]
<1>2. /\ call[h] = "replay" /\ UNCHANGED <<listeners, indexer, loop, work>>
      /\ call' = [call EXCEPT ![h] = IF replay'[h] = {} THEN "registered" ELSE "replay"]
  BY DEF Replay, AfterReplay, GoTo, loopVars
<1>3. /\ h \in listeners /\ listeners \subseteq Handlers /\ k0 \in Keys
      /\ loop # "distribute" /\ work.targets = {}
  BY <1>0, <1>2, Types DEF Fresh, Blocked, Working
<1>4. note \in Notifications
  BY <1>0, ReplayNote
<1>5. note.old = Known(h, note.key)
  BY <1>0, <1>2, <1>3 DEF Viewed, View, Known
<1>6. /\ Chained'
      /\ \A k \in Keys : Known(h, k)' = IF note.key = k THEN note.new ELSE Known(h, k)
      /\ \A g \in Handlers \ {h} : \A k \in Keys : Known(g, k)' = Known(g, k)
  <2>1. add(h, note)
    BY <1>1
  <2> HIDE DEF note
  <2> QED BY <1>0, <1>4, <1>5, <2>1, AddTells
<1>7. /\ replay'[h] = replay[h] \ {k0}
      /\ \A g \in Handlers \ {h} : replay'[g] = replay[g] /\ call'[g] = call[g]
      /\ call'[h] = IF replay[h] \ {k0} = {} THEN "registered" ELSE "replay"
  BY <1>0, <1>1, <1>2, Types
<1>8. ASSUME NEW g \in listeners, NEW k \in Keys
      PROVE  Known(g, k)' = View(g, k)'
  <2>1. Known(g, k) = View(g, k) /\ g \in Handlers
    BY <1>0, <1>3 DEF Viewed, Known
  <2>2. CASE g = h
    <3>1. Known(h, k) = IF k \in replay[h] THEN Absent ELSE indexer[k]
      BY <1>2, <2>1, <2>2 DEF View
    <3>2. Known(h, k)' = IF k0 = k THEN indexer[k] ELSE Known(h, k)
      BY <1>6
    <3>3. View(h, k)' = IF k \in replay[h] \ {k0} THEN Absent ELSE indexer[k]
      BY <1>2, <1>3, <1>7 DEF View
    <3> QED BY <2>2, <3>1, <3>2, <3>3
  <2>3. CASE g # h
    <3>1. View(g, k)' = View(g, k)
      BY <1>2, <1>7, <2>1, <2>3 DEF View
    <3> QED BY <1>6, <2>1, <2>3, <3>1
  <2> QED BY <2>2, <2>3
<1> QED BY <1>2, <1>6, <1>8 DEF Viewed, Known

\* What the handlers know changes with the indexer alone.
LEMMA NextKeepsTold ==
  ASSUME Informed, [Next]_vars, Blocked'
  PROVE  Chained' /\ Viewed'
<1>0. /\ InformerTypeOK /\ Phases /\ Working /\ Blocked /\ Blocked' /\ Fresh
      /\ NoSendOnClosed /\ Viewed /\ Chained
  BY DEF Informed
<1>1. /\ listeners \subseteq Handlers /\ call \in [Handlers -> Calls]
      /\ \A g \in listeners : \A k \in Keys : Known(g, k) = View(g, k)
  BY <1>0, Types DEF Viewed, Known
<1>2. ASSUME UNCHANGED <<buf, seen>>
      PROVE  Chained' /\ \A g \in Handlers : \A k \in Keys : Known(g, k)' = Known(g, k)
  BY <1>0, <1>2, SameTells
\* The steps that leave what a handler should know alone.
<1>3. ASSUME Chained', listeners' \subseteq listeners, UNCHANGED <<loop, work, indexer, replay>>,
             \A g \in listeners' : \A k \in Keys : Known(g, k)' = Known(g, k),
             \A g \in Handlers : call'[g] = "replay" <=> call[g] = "replay"
      PROVE  Chained' /\ Viewed'
  <2>1. ASSUME NEW g \in listeners', NEW k \in Keys
        PROVE  Known(g, k)' = View(g, k)'
    <3>1. View(g, k)' = View(g, k)
      BY <1>1, <1>3 DEF View
    <3> QED BY <1>1, <1>3, <3>1
  <2> QED BY <1>3, <2>1 DEF Viewed, Known
<1>4. ASSUME NEW h \in Handlers, Dispatch(h)
      PROVE  Chained' /\ Viewed'
  <2>1. UNCHANGED <<listeners, loop, work, indexer, replay, call>>
    BY <1>4 DEF Dispatch, loopVars, callVars
  <2> QED BY <1>0, <1>1, <1>3, <1>4, <2>1, DispatchTells
<1>5. ASSUME NEW h \in Handlers, PopReturnsClosed(h)
      PROVE  Chained' /\ Viewed'
  <2>1. UNCHANGED <<listeners, loop, work, indexer, replay, call, seen>>
    BY <1>5 DEF PopReturnsClosed, loopVars, callVars
  <2>2. h \notin listeners
    BY <1>0, <1>5 DEF PopReturnsClosed, NoSendOnClosed
  <2>3. buf'[h] = <<>> /\ \A g \in Handlers \ {h} : buf'[g] = buf[g] /\ seen'[g] = seen[g]
    BY <1>0, <1>5, <2>1, Types DEF PopReturnsClosed
  <2>4. Chained' /\ \A g \in Handlers \ {h} : \A k \in Keys : Known(g, k)' = Known(g, k)
    BY <1>0, <2>3, SameTells
  <2> QED BY <1>1, <1>3, <2>1, <2>2, <2>4
<1>6. ASSUME NEW h \in Handlers,
             HandlerReturns(h) \/ HandlerPanics(h) \/ ListenerReturns(h)
      PROVE  Chained' /\ Viewed'
  <2>1. UNCHANGED <<listeners, loop, work, indexer, replay, call, seen, buf>>
    BY <1>6 DEF HandlerReturns, HandlerPanics, ListenerReturns, loopVars, callVars
  <2> QED BY <1>1, <1>2, <1>3, <2>1
<1>7. CASE HandleDeltas
  <2>1. work.key \in Keys /\ work.targets = {} /\ loop' = "distribute" /\ loop # "distribute"
        /\ UNCHANGED <<listeners, call, replay, buf, seen>>
    BY <1>0, <1>7 DEF HandleDeltas, Working, callVars, listenerVars
  <2>2. PICK new \in Versions :
          /\ indexer' = [indexer EXCEPT ![work.key] = new]
          /\ work' = [work EXCEPT !.note =
               [key |-> work.key, old |-> indexer[work.key], new |-> new,
                isInInitialList |-> work.isInInitialList /\ indexer[work.key] = Absent]]
    BY <1>7 DEF HandleDeltas
  <2>3. /\ work'.key = work.key /\ work'.note.old = indexer[work.key]
        /\ \A k \in Keys : k # work.key => indexer'[k] = indexer[k]
    BY <1>0, <2>2, Types
  <2>4. \A g \in Handlers : call[g] # "replay"
    BY <1>0, <2>1 DEF Blocked
  <2>5. ASSUME NEW g \in listeners, NEW k \in Keys
        PROVE  Known(g, k)' = View(g, k)'
    <3>1. View(g, k) = indexer[k]
      BY <1>1, <2>1, <2>4 DEF View
    <3>2. View(g, k)' = indexer[k]
      BY <1>1, <2>1, <2>3, <2>4 DEF View
    <3> QED BY <1>1, <1>2, <2>1, <3>1, <3>2
  <2> QED BY <1>2, <2>1, <2>5 DEF Viewed, Known
<1>8. CASE Distribute
  <2>1. PICK syncing \in SUBSET listeners : work' = [work EXCEPT !.targets =
             IF work.note.old = work.note.new THEN syncing ELSE listeners]
    BY <1>8 DEF Distribute
  <2>2. /\ work'.key = work.key /\ work'.note = work.note
        /\ work'.targets = IF work.note.old = work.note.new THEN syncing ELSE listeners
    BY <1>0, <2>1, Types
  <2>3. /\ loop = "distribute" /\ loop' # "distribute"
        /\ UNCHANGED <<listeners, call, replay, buf, seen, indexer>>
    BY <1>8 DEF Distribute, AfterSend, callVars, listenerVars
  <2>4. work.note.new = indexer[work.key] /\ \A g \in Handlers : call[g] # "replay"
    BY <1>0, <2>3 DEF Working, Blocked
  <2>5. ASSUME NEW g \in listeners, NEW k \in Keys
        PROVE  Known(g, k)' = View(g, k)'
    <3>1. View(g, k) = IF k = work.key THEN work.note.old ELSE indexer[k]
      BY <1>1, <2>3, <2>4 DEF View
    <3>2. View(g, k)' = IF k = work.key /\ g \in work'.targets THEN work.note.old ELSE indexer[k]
      BY <1>1, <2>2, <2>3, <2>4 DEF View
    <3>3. View(g, k)' = View(g, k)
      BY <2>2, <2>4, <3>1, <3>2
    <3> QED BY <1>1, <1>2, <2>3, <3>3
  <2> QED BY <1>2, <2>3, <2>5 DEF Viewed, Known
<1>9. CASE Pop \/ PopClosed \/ PopReturns
  <2>1. /\ loop # "distribute" /\ loop' # "distribute" /\ work.targets = {} /\ work'.targets = {}
        /\ UNCHANGED <<listeners, call, replay, buf, seen, indexer>>
    <3>1. CASE Pop
      <4>1. PICK k \in Keys : work' = [Idle EXCEPT !.key = k, !.isInInitialList = initial # {}]
        BY <1>0, <3>1, Types DEF Pop
      <4>2. work'.targets = {}
        BY <4>1 DEF Idle
      <4> QED BY <1>0, <3>1, <4>2 DEF Pop, Working, callVars, listenerVars
    <3>2. CASE PopClosed \/ PopReturns
      BY <1>0, <3>2 DEF PopClosed, PopReturns, Idle, Working, callVars, listenerVars
    <3> QED BY <1>9, <3>1, <3>2
  <2>2. ASSUME NEW g \in listeners, NEW k \in Keys
        PROVE  Known(g, k)' = View(g, k)'
    <3>1. View(g, k)' = View(g, k)
      BY <2>1 DEF View
    <3> QED BY <1>1, <1>2, <2>1, <3>1
  <2> QED BY <1>2, <2>1, <2>2 DEF Viewed, Known
<1>10. ASSUME NEW h \in Handlers, AddBeforeStart(h) \/ addListener(h)
       PROVE  Chained' /\ Viewed'
  <2>1. /\ UNCHANGED <<loop, work, indexer, buf, seen>> /\ listeners' = listeners \cup {h}
        /\ call[h] \in {"new", "addListener"}
        /\ \A g \in Handlers \ {h} : call'[g] = call[g] /\ replay'[g] = replay[g]
    BY <1>0, <1>1, <1>10, Types DEF AddBeforeStart, addListener, GoTo, loopVars, listenerVars
  <2>2. \A k \in Keys : Known(h, k) = Absent
    <3>1. buf[h] = <<>> /\ seen[h] = [k \in Keys |-> Absent]
      BY <1>0, <2>1 DEF Fresh
    <3>2. Len(buf[h]) = 0
      BY <3>1
    <3> QED BY <3>1, <3>2, KnownIs, AfterNone
  <2>3. loop # "distribute" /\ work.targets = {}
    <3>1. CASE addListener(h)
      BY <1>0, <3>1 DEF addListener, Blocked, Working
    <3>2. CASE AddBeforeStart(h)
      BY <1>0, <3>2 DEF AddBeforeStart, started, Phases, Working
    <3> QED BY <1>10, <3>1, <3>2
  <2>4. ASSUME NEW k \in Keys
        PROVE  View(h, k)' = Absent
    <3>1. CASE addListener(h)
      <4>1. /\ replay'[h] = {j \in Keys : indexer[j] # Absent}
            /\ call'[h] = IF replay'[h] = {} THEN "registered" ELSE "replay"
        BY <1>0, <3>1, Types DEF addListener, GoTo, AfterReplay
      <4> QED BY <2>1, <2>3, <4>1 DEF View
    <3>2. CASE AddBeforeStart(h)
      <4>1. indexer[k] = Absent /\ call'[h] = "registered"
        BY <1>0, <1>1, <3>2 DEF AddBeforeStart, started, Phases, GoTo
      <4> QED BY <2>1, <2>3, <4>1 DEF View
    <3> QED BY <1>10, <3>1, <3>2
  <2>5. ASSUME NEW g \in listeners \ {h}, NEW k \in Keys
        PROVE  View(g, k)' = View(g, k)
    BY <1>1, <2>1 DEF View
  <2>6. ASSUME NEW g \in listeners', NEW k \in Keys
        PROVE  Known(g, k)' = View(g, k)'
    <3>1. g \in Handlers /\ Known(g, k)' = Known(g, k)
      BY <1>1, <1>2, <2>1
    <3>2. CASE g = h
      BY <2>2, <2>4, <3>1, <3>2
    <3>3. CASE g # h
      BY <1>1, <2>1, <2>5, <3>1, <3>3
    <3> QED BY <3>2, <3>3
  <2> QED BY <1>2, <2>1, <2>6 DEF Viewed, Known
<1>11. ASSUME NEW h \in Handlers,
              \/ AddEventHandler(h) \/ RemoveEventHandler(h) \/ HasSynced(h)
              \/ AddBlocksDeltas(h) \/ RemoveBlocksDeltas(h) \/ removeListener(h)
              \/ UpstreamHasSynced(h) \/ HasSyncedReturns(h)
       PROVE  Chained' /\ Viewed'
  <2>1. /\ UNCHANGED <<loop, work, indexer, buf, seen, replay>> /\ listeners' \subseteq listeners
        /\ call[h] # "replay"
        /\ \E where : call' = [call EXCEPT ![h] = where] /\ where # "replay"
    BY <1>11 DEF AddEventHandler, RemoveEventHandler, HasSynced, AddBlocksDeltas,
       RemoveBlocksDeltas, removeListener, UpstreamHasSynced, HasSyncedReturns, GoTo,
       loopVars, listenerVars
  <2>2. \A g \in Handlers : call'[g] = "replay" <=> call[g] = "replay"
    BY <1>1, <2>1
  <2> QED BY <1>1, <1>2, <1>3, <2>1, <2>2
<1>12. CASE \/ Run \/ Replace \/ Stop \/ Close \/ RunStopped \/ RunReturns \/ StartListeners
            \/ ProcessorStops \/ CloseListeners \/ ListenersDone \/ ResyncTick
            \/ shouldResync \/ UNCHANGED vars
  <2>1. UNCHANGED <<loop, work, indexer, buf, seen, replay, call>> /\ listeners' \subseteq listeners
    BY <1>12 DEF Run, Replace, Stop, Close, RunStopped, RunReturns, StartListeners,
       ProcessorStops, CloseListeners, ListenersDone, ResyncTick, shouldResync,
       loopVars, callVars, listenerVars, vars
  <2> QED BY <1>1, <1>2, <1>3, <2>1
<1> QED
  BY <1>4, <1>5, <1>6, <1>7, <1>8, <1>9, <1>10, <1>11, <1>12, SendTells, ReplayTells
     DEF Next, Loop, Calling, Listener

-----------------------------------------------------------------------------
(* The theorems *)

LEMMA InitInformed ==
  ASSUME Init
  PROVE  Informed
<1>1. <<>> \in Seq(Notifications) /\ Len(<<>>) = 0
  BY EmptySeq
<1>2. InformerTypeOK
  <2>1. /\ work \in [key : Keys \cup {None}, isInInitialList : BOOLEAN,
                    note : Notifications \cup {None}, targets : SUBSET Handlers]
        /\ deltas \in Nat
    BY ScenariosAssumption DEF Init, Idle
  <2>2. /\ buf \in [Handlers -> Seq(Notifications)]
        /\ handling \in [Handlers -> Notifications \cup {None}]
    BY <1>1 DEF Init
  <2>3. indexer \in [Keys -> Versions] /\ seen \in [Handlers -> [Keys -> Versions]]
    BY DEF Init, Versions
  <2>4. /\ call \in [Handlers -> Calls] /\ replay \in [Handlers -> SUBSET Keys]
        /\ goroutines \in [Handlers -> {"new", "open", "closed", "draining", "done"}]
        /\ count \in [Handlers -> Nat] /\ synced \in [Handlers -> BOOLEAN]
    BY DEF Init, Calls
  <2> QED BY <2>1, <2>2, <2>3, <2>4 DEF Init, InformerTypeOK
<1>3. Phases /\ Working /\ Blocked /\ Fresh /\ NoSendOnClosed
  BY DEF Init, Phases, stopped, Working, Blocked, Fresh, NoSendOnClosed, Idle
<1>4. Counted
  <2>1. Initials(<<>>) = {} /\ Cardinality({}) = 0
    <3>1. 1 .. Len(<<>>) = {}
      BY <1>1
    <3> QED BY <3>1, FS_EmptySet DEF Initials
  <2>2. \A h \in Handlers : /\ Cardinality(Initials(buf[h])) = 0 /\ HandlingInitial(h) = 0
                            /\ count[h] = 0
    BY <2>1 DEF Init, HandlingInitial
  <2> QED BY <2>2 DEF Counted
<1>5. Answered /\ SyncedMeansDelivered
  BY DEF Init, Answered, SyncedMeansDelivered
<1>6. Viewed /\ Chained
  BY <1>1 DEF Init, Viewed, Chained
<1> QED BY <1>2, <1>3, <1>4, <1>5, <1>6 DEF Informed

LEMMA NextKeepsInformed ==
  ASSUME Informed, [Next]_vars
  PROVE  Informed'
<1>1. InformerTypeOK' /\ Phases' /\ Working' /\ Blocked' /\ Fresh'
  BY NextKeepsTypes, NextKeepsPhases, NextKeepsWorking, NextKeepsBlocked, NextKeepsFresh
<1>2. NoSendOnClosed' /\ Counted' /\ Answered' /\ SyncedMeansDelivered'
  BY <1>1, NextKeepsNoSendOnClosed, NextKeepsCounted, NextKeepsAnswered, NextKeepsSynced
<1>3. Viewed' /\ Chained'
  BY <1>1, NextKeepsTold
<1> QED BY <1>1, <1>2, <1>3 DEF Informed

(***************************************************************************)
(* Whatever the order in which processLoop, the processor, the listeners'  *)
(* goroutines, the resync goroutine and the applications' calls run, the   *)
(* inductive invariant holds: the locks keep processLoop and a             *)
(* registration apart, the counter covers the initial objects on their     *)
(* way, and what a handler knows is the indexer but for the delta and the  *)
(* objects still to be sent to it.                                         *)
(***************************************************************************)
THEOREM InformedCorrect == Spec => []Informed
<1>1. Init => Informed
  BY InitInformed
<1>2. Informed /\ [Next]_vars => Informed'
  BY NextKeepsInformed
<1> QED BY <1>1, <1>2, PTL DEF Spec

(***************************************************************************)
(* Type correctness of the shared informer: the loop, the calls, the       *)
(* goroutines and the buffers stay within the states the code has.         *)
(***************************************************************************)
THEOREM InformerTypeCorrect == Spec => []InformerTypeOK
<1>1. Informed => InformerTypeOK
  BY DEF Informed
<1> QED BY <1>1, InformedCorrect, PTL

(***************************************************************************)
(* Neither distribute nor AddEventHandler sends on the addCh of a listener *)
(* that removeListener or the end of sharedProcessor.run has closed, and   *)
(* no addCh is closed twice.                                               *)
(***************************************************************************)
THEOREM NoSendOnClosedCorrect == Spec => []NoSendOnClosed
<1>1. Informed => NoSendOnClosed
  BY DEF Informed
<1> QED BY <1>1, InformedCorrect, PTL

(***************************************************************************)
(* When HasSynced of a registration has answered TRUE, its handler has     *)
(* returned from OnAdd for every object of the initial list.               *)
(***************************************************************************)
THEOREM SyncedMeansDeliveredCorrect == Spec => []SyncedMeansDelivered
<1>1. Informed => SyncedMeansDelivered
  BY DEF Informed
<1> QED BY <1>1, InformedCorrect, PTL

(***************************************************************************)
(* Whenever blockDeltas is free, every registered handler has been told,   *)
(* or has in its buffer, exactly the history that leads to the indexer,    *)
(* and every notification continues the one before it, for a handler that  *)
(* AddEventHandler registered before or while deltas are processed.        *)
(***************************************************************************)
THEOREM CoherentCorrect == Spec => []Coherent
<1>1. ASSUME Informed
      PROVE  Coherent
  <2>0. InformerTypeOK /\ Working /\ Viewed /\ Chained
    BY <1>1 DEF Informed
  <2>1. ASSUME BlockDeltasFree, NEW h \in listeners
        PROVE  Told(h, Len(buf[h])) = indexer
    <3>1. h \in Handlers /\ call[h] # "replay" /\ loop # "distribute" /\ work.targets = {}
      BY <2>0, <2>1, Types DEF BlockDeltasFree, Working
    <3>2. \A k \in Keys : Told(h, Len(buf[h]))[k] = indexer[k]
      BY <2>0, <3>1 DEF Viewed, View
    <3>3. indexer \in [Keys -> Versions]
      BY <2>0, Types
    <3> DEFINE told == Told(h, Len(buf[h]))
    <3>4. told = [k \in Keys |-> told[k]]
      BY DEF Told
    <3> HIDE DEF told
    <3> QED BY <3>2, <3>3, <3>4 DEF told
  <2>2. ASSUME NEW h \in Handlers, NEW i \in DOMAIN buf[h]
        PROVE  buf[h][i].old = Told(h, i - 1)[buf[h][i].key]
    <3>1. DOMAIN buf[h] = 1 .. Len(buf[h])
      BY <2>0, Types, LenProperties
    <3> QED BY <2>0, <3>1 DEF Chained
  <2> QED BY <2>1, <2>2 DEF Coherent
<1>2. Informed => Coherent
  BY <1>1
<1> QED BY <1>2, InformedCorrect, PTL
=============================================================================
