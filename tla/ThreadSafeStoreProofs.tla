----------------------- MODULE ThreadSafeStoreProofs -----------------------
(***************************************************************************)
(* The indices of ThreadSafeStore are exact whenever the lock is free, for *)
(* any keys, objects, indexers and index functions.                        *)
(*                                                                         *)
(* A writer takes an index and the items apart and brings them together    *)
(* again one indexer at a time, so the invariant has to say, for each      *)
(* indexer and key, which object the index still has for the key:          *)
(* IndexedAs.  With the bookkeeping of the loops (LoopState) and no empty  *)
(* set in an index (NoEmptySet) it is inductive.                           *)
(***************************************************************************)
EXTENDS ThreadSafeStore, TLAPS

\* The object whose values the index has for a key: the old one until the loop of
\* updateIndices visits the indexer, none until the loop of Replace visits the key.
IndexedAs(name, k) ==
  IF name \in names /\ k = key THEN oldObj
  ELSE IF k \in rest \/ (call = "Delete" /\ k = key) THEN NoObject
  ELSE items[k]

\* What the loops have left to do, and with which arguments.
LoopState ==
  /\ call # "Replace" => rest = {}
  /\ call = "none" => names = {}
  /\ call = "Delete" => newObj = NoObject
  /\ names # {} /\ call # "Delete" => newObj = items[key] /\ key \notin rest

Exact ==
  \A name \in indexers : \A v \in Values :
    KeysOf(indices[name], v) = {k \in Keys : v \in IndexValues(name, IndexedAs(name, k))}

NoEmptySet ==
  \A name \in IndexNames : \A v \in DOMAIN indices[name] : indices[name][v] # {}

\* A name without an indexer has no index yet.
Unused == \A name \in IndexNames \ indexers : indices[name] = EmptyIndex

Indexed == TypeOK /\ LoopState /\ Exact /\ NoEmptySet /\ Unused

-----------------------------------------------------------------------------
(* The operations on one Index *)

\* An Index, without the union of function sets.
LEMMA IndexType ==
  ASSUME NEW index
  PROVE  index \in Index <=> /\ DOMAIN index \subseteq Values
                             /\ index \in [DOMAIN index -> SUBSET Keys]
<1>1. ASSUME index \in Index
      PROVE  DOMAIN index \subseteq Values /\ index \in [DOMAIN index -> SUBSET Keys]
  <2>1. PICK V \in SUBSET Values : index \in [V -> SUBSET Keys]
    BY <1>1 DEF Index
  <2> QED BY <2>1
<1>2. ASSUME DOMAIN index \subseteq Values, index \in [DOMAIN index -> SUBSET Keys]
      PROVE  index \in Index
  <2>1. DOMAIN index \in SUBSET Values
    BY <1>2
  <2>2. [DOMAIN index -> SUBSET Keys] \in {[V -> SUBSET Keys] : V \in SUBSET Values}
    BY <2>1
  <2> QED BY <1>2, <2>2 DEF Index
<1> QED BY <1>1, <1>2

LEMMA EmptyIndexType ==
  /\ EmptyIndex \in Index
  /\ DOMAIN EmptyIndex = {}
  /\ \A v : KeysOf(EmptyIndex, v) = {}
<1>1. DOMAIN EmptyIndex = {} /\ EmptyIndex \in [{} -> SUBSET Keys]
  BY DEF EmptyIndex
<1>2. EmptyIndex \in Index
  BY <1>1, IndexType
<1> QED BY <1>1, <1>2 DEF KeysOf

\* deleteKeyFromIndex takes the key from the sets of the values, and from no other.
LEMMA DeleteKey ==
  ASSUME NEW index \in Index, NEW k \in Keys, NEW values \in SUBSET Values
  PROVE  LET after == deleteKeyFromIndex(k, values, index) IN
         /\ after \in Index
         /\ \A v : KeysOf(after, v) =
                     IF v \in values THEN KeysOf(index, v) \ {k} ELSE KeysOf(index, v)
         /\ (\A v \in DOMAIN index : index[v] # {}) =>
              (\A v \in DOMAIN after : after[v] # {})
<1> DEFINE after == deleteKeyFromIndex(k, values, index)
           D == {u \in DOMAIN index : ~(u \in values /\ index[u] \subseteq {k})}
<1>1. DOMAIN index \subseteq Values /\ index \in [DOMAIN index -> SUBSET Keys]
  BY IndexType
<1>2. /\ DOMAIN after = D
      /\ \A v \in D : after[v] = IF v \in values THEN index[v] \ {k} ELSE index[v]
  BY DEF deleteKeyFromIndex
<1>3. after \in [D -> SUBSET Keys]
  <2>1. \A v \in D : (IF v \in values THEN index[v] \ {k} ELSE index[v]) \in SUBSET Keys
    BY <1>1
  <2> QED BY <2>1 DEF deleteKeyFromIndex
<1>4. after \in Index
  <2> HIDE DEF after
  <2> QED BY <1>1, <1>2, <1>3, IndexType
<1>5. ASSUME NEW v
      PROVE  KeysOf(after, v) =
               IF v \in values THEN KeysOf(index, v) \ {k} ELSE KeysOf(index, v)
  <2> HIDE DEF after
  <2>1. CASE v \in D
    BY <2>1, <1>2 DEF KeysOf
  <2>2. CASE v \notin D /\ v \in DOMAIN index
    BY <2>2, <1>2 DEF KeysOf
  <2>3. CASE v \notin DOMAIN index
    BY <2>3, <1>2 DEF KeysOf
  <2> QED BY <2>1, <2>2, <2>3
<1>6. ASSUME \A v \in DOMAIN index : index[v] # {}
      PROVE  \A v \in DOMAIN after : after[v] # {}
  <2> HIDE DEF after
  <2> QED BY <1>2, <1>6
<1> QED BY <1>4, <1>5, <1>6

\* addKeyToIndex puts the key into the sets of the values, and into no other.
LEMMA AddKey ==
  ASSUME NEW index \in Index, NEW k \in Keys, NEW values \in SUBSET Values
  PROVE  LET after == addKeyToIndex(k, values, index) IN
         /\ after \in Index
         /\ \A v : KeysOf(after, v) =
                     IF v \in values THEN KeysOf(index, v) \cup {k} ELSE KeysOf(index, v)
         /\ (\A v \in DOMAIN index : index[v] # {}) =>
              (\A v \in DOMAIN after : after[v] # {})
<1> DEFINE after == addKeyToIndex(k, values, index)
           D == DOMAIN index \cup values
<1>1. DOMAIN index \subseteq Values /\ index \in [DOMAIN index -> SUBSET Keys]
  BY IndexType
<1>2. /\ DOMAIN after = D
      /\ \A v \in D : after[v] = IF v \in values THEN KeysOf(index, v) \cup {k} ELSE index[v]
  BY DEF addKeyToIndex
<1>3. after \in [D -> SUBSET Keys]
  <2>1. \A v \in D :
          (IF v \in values THEN KeysOf(index, v) \cup {k} ELSE index[v]) \in SUBSET Keys
    BY <1>1 DEF KeysOf
  <2> QED BY <2>1 DEF addKeyToIndex
<1>4. after \in Index
  <2> HIDE DEF after
  <2> QED BY <1>1, <1>2, <1>3, IndexType
<1>5. ASSUME NEW v
      PROVE  KeysOf(after, v) =
               IF v \in values THEN KeysOf(index, v) \cup {k} ELSE KeysOf(index, v)
  <2> HIDE DEF after
  <2> QED BY <1>2 DEF KeysOf
<1>6. ASSUME \A v \in DOMAIN index : index[v] # {}
      PROVE  \A v \in DOMAIN after : after[v] # {}
  <2> HIDE DEF after
  <2> QED BY <1>2, <1>6
<1> QED BY <1>4, <1>5, <1>6

LEMMA IndexValuesType ==
  ASSUME NEW name \in IndexNames, NEW obj \in Objects \cup {NoObject}
  PROVE  IndexValues(name, obj) \in SUBSET Values
BY ThreadSafeStoreAssumption DEF IndexValues

-----------------------------------------------------------------------------
(* The invariant *)

LEMMA InitIndexed == Init => Indexed
<1> SUFFICES ASSUME Init PROVE Indexed
  OBVIOUS
<1>1. TypeOK
  <2>1. indices \in [IndexNames -> Index]
    BY EmptyIndexType DEF Init
  <2> QED BY <2>1 DEF Init, TypeOK
<1>2. Exact
  BY EmptyIndexType DEF Init, Exact, IndexedAs, IndexValues
<1>3. LoopState /\ NoEmptySet /\ Unused
  BY EmptyIndexType DEF Init, LoopState, NoEmptySet, Unused
<1> QED BY <1>1, <1>2, <1>3 DEF Indexed

\* Update and Delete hand the object that the indices have to updateIndices, for
\* every indexer.
LEMMA StartsWithOld ==
  ASSUME Indexed, call = "none", NEW k \in Keys, NEW new \in Objects \cup {NoObject},
         StartUpdateIndices(k, items[k], new),
         \A j \in Keys \ {k} : items'[j] = items[j],
         rest' = rest, indexers' = indexers, indices' = indices
  PROVE  Exact' /\ NoEmptySet' /\ Unused'
<1>1. rest = {} /\ names = {}
  BY DEF Indexed, LoopState
<1>2. ASSUME NEW name \in indexers, NEW j \in Keys
      PROVE  IndexedAs(name, j)' = IndexedAs(name, j)
  BY <1>1, <1>2 DEF StartUpdateIndices, IndexedAs
<1>3. Exact'
  BY <1>2 DEF Indexed, Exact, IndexValues
<1> QED BY <1>3 DEF Indexed, NoEmptySet, Unused

LEMMA UpdateKeeps ==
  ASSUME Indexed, NEW k \in Keys, NEW obj \in Objects, Update(k, obj)
  PROVE  Indexed'
<1>1. TypeOK' /\ LoopState'
  BY DEF Indexed, TypeOK, LoopState, Update, StartUpdateIndices
<1>2. \A j \in Keys \ {k} : items'[j] = items[j]
  BY DEF Indexed, TypeOK, Update
<1>3. Exact' /\ NoEmptySet' /\ Unused'
  BY <1>2, StartsWithOld DEF Update
<1> QED BY <1>1, <1>3 DEF Indexed

LEMMA DeleteKeeps ==
  ASSUME Indexed, NEW k \in Keys, Delete(k)
  PROVE  Indexed'
<1>1. TypeOK' /\ LoopState'
  BY DEF Indexed, TypeOK, LoopState, Delete, StartUpdateIndices
<1>2. Exact' /\ NoEmptySet' /\ Unused'
  BY StartsWithOld DEF Delete
<1> QED BY <1>1, <1>2 DEF Indexed

\* A round of updateIndices, the skipped one included, moves the key from the
\* values of the old object to those of the new one.
LEMMA RoundMovesKey ==
  ASSUME Indexed, NEW name \in IndexNames, UpdateIndex(name)
  PROVE  LET old == IndexValues(name, oldObj)
             new == IndexValues(name, newObj) IN
         /\ indices' \in [IndexNames -> Index]
         /\ \A other \in IndexNames \ {name} : indices'[other] = indices[other]
         /\ \A v : KeysOf(indices'[name], v) =
              IF v \in new THEN KeysOf(indices[name], v) \cup {key}
              ELSE IF v \in old THEN KeysOf(indices[name], v) \ {key}
              ELSE KeysOf(indices[name], v)
         /\ \A v \in DOMAIN indices'[name] : indices'[name][v] # {}
<1> DEFINE old == IndexValues(name, oldObj)
           new == IndexValues(name, newObj)
           without == deleteKeyFromIndex(key, old, indices[name])
           after == addKeyToIndex(key, new, without)
<1>1. /\ old \in SUBSET Values /\ new \in SUBSET Values
      /\ key \in Keys /\ indices \in [IndexNames -> Index]
  BY IndexValuesType DEF Indexed, TypeOK
<1>2. \A v \in DOMAIN indices[name] : indices[name][v] # {}
  BY DEF Indexed, NoEmptySet
<1>3. CASE SameValue(old, new)
  <2>1. indices' = indices /\ old = new
    BY <1>3 DEF UpdateIndex, SameValue
  <2>2. ASSUME NEW v \in new
        PROVE  key \in KeysOf(indices[name], v)
    <3>1. name \in names /\ name \in indexers
      BY DEF UpdateIndex, Indexed, TypeOK
    <3>2. v \in IndexValues(name, IndexedAs(name, key))
      BY <3>1, <2>1, <2>2 DEF IndexedAs
    <3>3. v \in Values
      BY <1>1, <2>2
    <3> HIDE DEF old, new
    <3> QED BY <3>1, <3>2, <3>3, <1>1 DEF Indexed, Exact
  <2> HIDE DEF old, new
  <2>3. \A v : KeysOf(indices'[name], v) =
              IF v \in new THEN KeysOf(indices[name], v) \cup {key}
              ELSE IF v \in old THEN KeysOf(indices[name], v) \ {key}
              ELSE KeysOf(indices[name], v)
    BY <2>1, <2>2
  <2> QED BY <1>1, <1>2, <2>1, <2>3 DEF old, new
<1>4. CASE ~SameValue(old, new)
  <2>1. indices' = [indices EXCEPT ![name] = after]
    BY <1>4 DEF UpdateIndex
  <2> HIDE DEF old, new
  <2>2. /\ without \in Index
        /\ \A v : KeysOf(without, v) =
             IF v \in old THEN KeysOf(indices[name], v) \ {key} ELSE KeysOf(indices[name], v)
        /\ \A v \in DOMAIN without : without[v] # {}
    BY <1>1, <1>2, DeleteKey
  <2> HIDE DEF without
  <2>3. /\ after \in Index
        /\ \A v : KeysOf(after, v) =
             IF v \in new THEN KeysOf(without, v) \cup {key} ELSE KeysOf(without, v)
        /\ \A v \in DOMAIN after : after[v] # {}
    BY <1>1, <2>2, AddKey
  <2> HIDE DEF after
  <2>4. indices'[name] = after
    BY <1>1, <2>1
  <2>5. \A v : KeysOf(indices'[name], v) =
              IF v \in new THEN KeysOf(indices[name], v) \cup {key}
              ELSE IF v \in old THEN KeysOf(indices[name], v) \ {key}
              ELSE KeysOf(indices[name], v)
    BY <2>2, <2>3, <2>4
  <2>6. indices' \in [IndexNames -> Index]
    BY <1>1, <2>1, <2>3
  <2>7. \A other \in IndexNames \ {name} : indices'[other] = indices[other]
    BY <1>1, <2>1
  <2> QED BY <2>3, <2>4, <2>5, <2>6, <2>7 DEF old, new
<1> QED BY <1>3, <1>4

LEMMA UpdateIndexKeeps ==
  ASSUME Indexed, NEW name \in IndexNames, UpdateIndex(name)
  PROVE  Indexed'
<1> DEFINE old == IndexValues(name, oldObj)
           new == IndexValues(name, newObj)
<1>1. /\ indices' \in [IndexNames -> Index]
      /\ \A other \in IndexNames \ {name} : indices'[other] = indices[other]
      /\ \A v : KeysOf(indices'[name], v) =
           IF v \in new THEN KeysOf(indices[name], v) \cup {key}
           ELSE IF v \in old THEN KeysOf(indices[name], v) \ {key}
           ELSE KeysOf(indices[name], v)
      /\ \A v \in DOMAIN indices'[name] : indices'[name][v] # {}
  BY RoundMovesKey
<1>2. /\ name \in names /\ name \in indexers
      /\ names' = names \ {name}
      /\ UNCHANGED <<items, indexers, call, key, oldObj, newObj, rest>>
  BY DEF UpdateIndex, Indexed, TypeOK
<1>3. TypeOK' /\ LoopState'
  BY <1>1, <1>2 DEF Indexed, TypeOK, LoopState
<1>4. /\ IndexedAs(name, key) = oldObj
      /\ IndexedAs(name, key)' = newObj
  BY <1>2 DEF Indexed, LoopState, IndexedAs
<1>5. \A k \in Keys \ {key} : IndexedAs(name, k)' = IndexedAs(name, k)
  BY <1>2 DEF IndexedAs
<1>6. \A other \in indexers \ {name} : \A k \in Keys :
         IndexedAs(other, k)' = IndexedAs(other, k)
  BY <1>2 DEF IndexedAs
<1>7. ASSUME NEW v \in Values
      PROVE  KeysOf(indices'[name], v) =
               {k \in Keys : v \in IndexValues(name, IndexedAs(name, k)')}
  <2>1. KeysOf(indices[name], v) = {k \in Keys : v \in IndexValues(name, IndexedAs(name, k))}
    BY <1>2 DEF Indexed, Exact
  <2>2. key \in Keys
    BY DEF Indexed, TypeOK
  <2>3. v \in IndexValues(name, IndexedAs(name, key)) <=> v \in old
    BY <1>4
  <2>4. v \in IndexValues(name, IndexedAs(name, key)') <=> v \in new
    BY <1>4
  <2>5. \A k \in Keys \ {key} : v \in IndexValues(name, IndexedAs(name, k)')
                             <=> v \in IndexValues(name, IndexedAs(name, k))
    BY <1>5
  <2> DEFINE K == KeysOf(indices'[name], v)
             L == KeysOf(indices[name], v)
             P(k) == v \in IndexValues(name, IndexedAs(name, k))
             Q(k) == v \in IndexValues(name, IndexedAs(name, k)')
  <2>6. K = IF v \in new THEN L \cup {key} ELSE IF v \in old THEN L \ {key} ELSE L
    BY <1>1
  <2>7. /\ L = {k \in Keys : P(k)} /\ (P(key) <=> v \in old) /\ (Q(key) <=> v \in new)
        /\ \A k \in Keys \ {key} : Q(k) <=> P(k)
    BY <2>1, <2>3, <2>4, <2>5
  <2> HIDE DEF K, L, P, Q, old, new
  <2>8. K = {k \in Keys : Q(k)}
    BY <2>2, <2>6, <2>7
  <2> QED BY <2>8 DEF K, Q
<1>8. ASSUME NEW other \in indexers, other # name, NEW v \in Values
      PROVE  KeysOf(indices'[other], v) =
               {k \in Keys : v \in IndexValues(other, IndexedAs(other, k)')}
  <2>1. indices'[other] = indices[other]
    BY <1>1, <1>8 DEF Indexed, TypeOK
  <2> QED BY <1>6, <1>8, <2>1 DEF Indexed, Exact
<1>9. Exact'
  <2>1. ASSUME NEW other \in indexers, NEW v \in Values
        PROVE  KeysOf(indices'[other], v) =
                 {k \in Keys : v \in IndexValues(other, IndexedAs(other, k)')}
    BY <1>7, <1>8
  <2> QED BY <1>2, <2>1 DEF Exact, KeysOf, IndexValues
<1>10. NoEmptySet' /\ Unused'
  BY <1>1, <1>2 DEF Indexed, NoEmptySet, Unused, TypeOK
<1> QED BY <1>3, <1>9, <1>10 DEF Indexed

\* A step that leaves the indices alone, and what they have for each key.
LEMMA SameIndices ==
  ASSUME Indexed, indexers' = indexers, indices' = indices,
         \A name \in indexers : \A k \in Keys : IndexedAs(name, k)' = IndexedAs(name, k)
  PROVE  Exact' /\ NoEmptySet' /\ Unused'
<1>1. Exact'
  BY DEF Indexed, Exact, IndexValues
<1> QED BY <1>1 DEF Indexed, NoEmptySet, Unused

LEMMA ReturnKeeps ==
  ASSUME Indexed, Return
  PROVE  Indexed'
<1>1. rest = {} /\ names = {} /\ names' = {} /\ rest' = {} /\ key' = key /\ call' = "none"
  BY DEF Indexed, LoopState, Return
<1>2. TypeOK' /\ LoopState'
  BY <1>1 DEF Indexed, TypeOK, LoopState, Return
<1>3. \A name \in indexers : \A k \in Keys : IndexedAs(name, k)' = IndexedAs(name, k)
  BY <1>1 DEF Indexed, TypeOK, IndexedAs, Return
<1>4. Exact' /\ NoEmptySet' /\ Unused'
  BY <1>3, SameIndices DEF Return
<1> QED BY <1>2, <1>4 DEF Indexed

LEMMA ReplaceKeeps ==
  ASSUME Indexed, NEW newItems \in [Keys -> Objects \cup {NoObject}], Replace(newItems)
  PROVE  Indexed'
<1>1. names = {} /\ names' = {} /\ call' = "Replace"
  BY DEF Indexed, LoopState, Replace
<1>2. indices' \in [IndexNames -> Index]
  BY EmptyIndexType DEF Replace
<1>3. TypeOK' /\ LoopState'
  BY <1>1, <1>2 DEF Indexed, TypeOK, LoopState, Replace
<1>4. \A name \in IndexNames : indices'[name] = EmptyIndex
  BY DEF Replace
<1>5. \A name \in IndexNames : \A k \in Keys : IndexedAs(name, k)' = NoObject
  BY <1>1 DEF IndexedAs, Replace
<1>6. Exact'
  BY <1>3, <1>4, <1>5, EmptyIndexType DEF Exact, IndexValues, TypeOK
<1>7. NoEmptySet' /\ Unused'
  BY <1>4, EmptyIndexType DEF NoEmptySet, Unused
<1> QED BY <1>3, <1>6, <1>7 DEF Indexed

LEMMA ReplaceKeyKeeps ==
  ASSUME Indexed, NEW k \in Keys, ReplaceKey(k)
  PROVE  Indexed'
<1>1. TypeOK' /\ LoopState'
  BY DEF Indexed, TypeOK, LoopState, ReplaceKey, StartUpdateIndices
<1>2. \A name \in indexers : \A j \in Keys : IndexedAs(name, j)' = IndexedAs(name, j)
  BY DEF Indexed, TypeOK, ReplaceKey, StartUpdateIndices, IndexedAs
<1>3. Exact' /\ NoEmptySet' /\ Unused'
  BY <1>2, SameIndices DEF ReplaceKey
<1> QED BY <1>1, <1>3 DEF Indexed

LEMMA ReplaceReturnsKeeps ==
  ASSUME Indexed, ReplaceReturns
  PROVE  Indexed'
<1>1. TypeOK' /\ LoopState'
  BY DEF Indexed, TypeOK, LoopState, ReplaceReturns
<1>2. \A name \in indexers : \A k \in Keys : IndexedAs(name, k)' = IndexedAs(name, k)
  BY DEF ReplaceReturns, IndexedAs
<1>3. Exact' /\ NoEmptySet' /\ Unused'
  BY <1>2, SameIndices DEF ReplaceReturns
<1> QED BY <1>1, <1>3 DEF Indexed

\* The store is empty, and so are the indices of the new indexers.
LEMMA AddIndexersKeeps ==
  ASSUME Indexed, NEW newIndexers \in SUBSET IndexNames, AddIndexers(newIndexers)
  PROVE  Indexed'
<1>1. /\ call = "none" /\ names = {} /\ rest = {}
      /\ indexers' = indexers \cup newIndexers
      /\ indexers \cap newIndexers = {}
      /\ UNCHANGED <<items, indices, call, key, oldObj, newObj, names, rest>>
  BY DEF Indexed, LoopState, AddIndexers
<1>2. TypeOK' /\ LoopState'
  BY <1>1 DEF Indexed, TypeOK, LoopState
<1>3. ASSUME NEW name \in indexers \cup newIndexers, NEW v \in Values
      PROVE  KeysOf(indices[name], v) =
               {k \in Keys : v \in IndexValues(name, IndexedAs(name, k))}
  <2>1. CASE name \in indexers
    BY <2>1 DEF Indexed, Exact
  <2>2. CASE name \in newIndexers
    <3>1. indices[name] = EmptyIndex
      BY <2>2, <1>1 DEF Indexed, Unused
    <3>2. \A k \in Keys : IndexedAs(name, k) = NoObject
      BY <1>1 DEF IndexedAs, AddIndexers
    <3> QED BY <3>1, <3>2, EmptyIndexType DEF IndexValues
  <2> QED BY <2>1, <2>2
<1>4. Exact'
  BY <1>1, <1>3 DEF Exact, IndexedAs, IndexValues
<1>5. NoEmptySet' /\ Unused'
  BY <1>1 DEF Indexed, NoEmptySet, Unused
<1> QED BY <1>2, <1>4, <1>5 DEF Indexed

LEMMA NextIndexed == Indexed /\ [Next]_vars => Indexed'
<1> SUFFICES ASSUME Indexed, [Next]_vars PROVE Indexed'
  OBVIOUS
<1>1. ASSUME NEW k \in Keys, Delete(k) PROVE Indexed'
  BY <1>1, DeleteKeeps
<1>2. ASSUME NEW k \in Keys, ReplaceKey(k) PROVE Indexed'
  BY <1>2, ReplaceKeyKeeps
<1>3. ASSUME NEW k \in Keys, NEW obj \in Objects, Update(k, obj) PROVE Indexed'
  BY <1>3, UpdateKeeps
<1>4. ASSUME NEW newItems \in [Keys -> Objects \cup {NoObject}], Replace(newItems)
      PROVE  Indexed'
  BY <1>4, ReplaceKeeps
<1>5. ASSUME NEW name \in IndexNames, UpdateIndex(name) PROVE Indexed'
  BY <1>5, UpdateIndexKeeps
<1>6. ASSUME NEW newIndexers \in SUBSET IndexNames, AddIndexers(newIndexers) PROVE Indexed'
  BY <1>6, AddIndexersKeeps
<1>7. CASE Return
  BY <1>7, ReturnKeeps
<1>8. CASE ReplaceReturns
  BY <1>8, ReplaceReturnsKeeps
<1>9. CASE UNCHANGED vars
  <2>1. TypeOK' /\ LoopState'
    BY <1>9 DEF Indexed, TypeOK, LoopState, vars
  <2>2. \A name \in indexers : \A k \in Keys : IndexedAs(name, k)' = IndexedAs(name, k)
    BY <1>9 DEF vars, IndexedAs
  <2>3. Exact' /\ NoEmptySet' /\ Unused'
    BY <1>9, <2>2, SameIndices DEF vars
  <2> QED BY <2>1, <2>3 DEF Indexed
<1> QED
  BY <1>1, <1>2, <1>3, <1>4, <1>5, <1>6, <1>7, <1>8, <1>9 DEF Next

-----------------------------------------------------------------------------
(* The theorems *)

\* The invariant of every writer of threadSafeMap, at each round of its loops: what
\* each index still has for each key.
THEOREM IndexedCorrect == Spec => []Indexed
BY InitIndexed, NextIndexed, PTL DEF Spec

\* The types: updateIndices visits only indexers of the store, and Replace only
\* keys that have an object.
THEOREM StoreTypeCorrect == Spec => []TypeOK
<1>1. Indexed => TypeOK
  BY DEF Indexed
<1> QED BY <1>1, IndexedCorrect, PTL

\* With the lock free the index has exactly the stored objects.
LEMMA FreeExact ==
  ASSUME Indexed, call = "none", NEW name \in indexers, NEW v \in Values
  PROVE  KeysOf(indices[name], v) = KeysWith(name, v)
<1>1. \A k \in Keys : IndexedAs(name, k) = items[k]
  BY DEF Indexed, LoopState, IndexedAs
<1>2. KeysOf(indices[name], v) = {k \in Keys : v \in IndexValues(name, items[k])}
  BY <1>1 DEF Indexed, Exact
<1> QED BY <1>2 DEF IndexValues, KeysWith

\* Index, IndexKeys, ByIndex and ListIndexFuncValues answer exactly what the stored
\* objects say, for any objects and index functions, after any sequence of updates,
\* deletions, replacements and added indexers.
THEOREM IndexExactCorrect == Spec => []IndexExact
<1>1. Indexed => IndexExact
  <2> SUFFICES ASSUME Indexed, call = "none", NEW name \in indexers
               PROVE  /\ \A value \in Values : IndexKeys(name, value) = KeysWith(name, value)
                      /\ \A obj \in Objects :
                           IndexedLike(name, obj) =
                             {k \in Keys : items[k] # NoObject
                                /\ IndexFunc[name][items[k]] \cap IndexFunc[name][obj] # {}}
                      /\ ListIndexFuncValues(name) = {v \in Values : KeysWith(name, v) # {}}
    BY DEF IndexExact
  <2>1. \A value \in Values : IndexKeys(name, value) = KeysWith(name, value)
    BY FreeExact DEF IndexKeys
  <2>2. ASSUME NEW obj \in Objects
        PROVE  IndexedLike(name, obj) =
                 {k \in Keys : items[k] # NoObject
                    /\ IndexFunc[name][items[k]] \cap IndexFunc[name][obj] # {}}
    <3>1. IndexValues(name, obj) = IndexFunc[name][obj]
      BY ThreadSafeStoreAssumption DEF IndexValues
    <3>2. IndexFunc[name][obj] \subseteq Values
      BY ThreadSafeStoreAssumption DEF Indexed, TypeOK
    <3>3. \A v \in IndexFunc[name][obj] : KeysOf(indices[name], v) = KeysWith(name, v)
      BY <3>2, FreeExact
    <3>4. IndexedLike(name, obj) = UNION {KeysWith(name, v) : v \in IndexFunc[name][obj]}
      BY <3>1, <3>3 DEF IndexedLike
    <3>5. UNION {KeysWith(name, v) : v \in IndexFunc[name][obj]} =
            {k \in Keys : items[k] # NoObject
               /\ IndexFunc[name][items[k]] \cap IndexFunc[name][obj] # {}}
      BY DEF KeysWith
    <3> QED BY <3>4, <3>5
  <2>3. ListIndexFuncValues(name) = {v \in Values : KeysWith(name, v) # {}}
    <3>1. name \in IndexNames /\ indices[name] \in Index
      BY DEF Indexed, TypeOK
    <3>2. DOMAIN indices[name] \subseteq Values
      BY <3>1, IndexType
    <3>3. \A v \in DOMAIN indices[name] : KeysWith(name, v) # {}
      BY <3>1, <3>2, FreeExact DEF Indexed, NoEmptySet, KeysOf
    <3>4. \A v \in Values \ DOMAIN indices[name] : KeysWith(name, v) = {}
      BY FreeExact DEF KeysOf
    <3> QED BY <3>2, <3>3, <3>4 DEF ListIndexFuncValues
  <2> QED BY <2>1, <2>2, <2>3
<1> QED BY <1>1, IndexedCorrect, PTL
=============================================================================
