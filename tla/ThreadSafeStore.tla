-------------------------- MODULE ThreadSafeStore --------------------------
(***************************************************************************)
(* threadSafeMap and its storeIndex (src/tools/cache/thread_safe_store.go),*)
(* the cache under every informer: objects by key, and for each indexer    *)
(* the keys of the objects by indexed value.                               *)
(*                                                                         *)
(* Every method runs under one RWMutex.  The writers are cut into the      *)
(* rounds of the loops in Replace and updateIndices, which visit keys and  *)
(* indexers in the order of a Go map, any order; the methods that only     *)
(* read are operators, to be used when no writer holds the lock.           *)
(***************************************************************************)
EXTENDS FiniteSets

CONSTANTS Keys,       \* storage keys
          Objects,
          IndexNames,
          Values,     \* indexed values
          IndexFunc,  \* what each index function computes for each object
          NoObject    \* nil

ASSUME ThreadSafeStoreAssumption ==
  /\ NoObject \notin Objects
  /\ IndexFunc \in [IndexNames -> [Objects -> SUBSET Values]]

VARIABLES items,      \* items, NoObject where there is none
          indexers,   \* index.indexers: the names
          indices,    \* index.indices, an empty Index where there is none
          call,       \* the method that holds the lock, or "none"
          key, oldObj, newObj,  \* the arguments of updateIndices
          names,      \* the indexers that its loop has yet to visit
          rest        \* the keys that the loop of Replace has yet to visit

vars == <<items, indexers, indices, call, key, oldObj, newObj, names, rest>>

\* Index: a map from some indexed values to sets of keys.
Index == UNION {[V -> SUBSET Keys] : V \in SUBSET Values}

EmptyIndex == [v \in {} |-> {}]

TypeOK ==
  /\ items \in [Keys -> Objects \cup {NoObject}]
  /\ indexers \subseteq IndexNames
  /\ indices \in [IndexNames -> Index]
  /\ call \in {"none", "Update", "Delete", "Replace"}
  /\ key \in Keys
  /\ oldObj \in Objects \cup {NoObject}
  /\ newObj \in Objects \cup {NoObject}
  /\ names \subseteq indexers
  /\ rest \subseteq {k \in Keys : items[k] # NoObject}

\* NewThreadSafeStore with any indexers and no indices.
Init ==
  /\ items = [k \in Keys |-> NoObject]
  /\ indexers \in SUBSET IndexNames
  /\ indices = [n \in IndexNames |-> EmptyIndex]
  /\ call = "none"
  /\ key \in Keys
  /\ oldObj = NoObject
  /\ newObj = NoObject
  /\ names = {}
  /\ rest = {}

-----------------------------------------------------------------------------
(* storeIndex *)

\* The indexed values of an object; none of nil.
IndexValues(name, obj) == IF obj = NoObject THEN {} ELSE IndexFunc[name][obj]

\* The set that an Index has for a value, nil counting as empty.
KeysOf(index, value) == IF value \in DOMAIN index THEN index[value] ELSE {}

addKeyToIndex(k, values, index) ==
  [v \in DOMAIN index \cup values |->
     IF v \in values THEN KeysOf(index, v) \cup {k} ELSE index[v]]

\* The key leaves the sets of the values; a set that becomes empty is removed.
deleteKeyFromIndex(k, values, index) ==
  [v \in {u \in DOMAIN index : ~(u \in values /\ index[u] \subseteq {k})} |->
     IF v \in values THEN index[v] \ {k} ELSE index[v]]

\* Mutant: one value in common is enough.
SharesValue(old, new) == old \cap new # {}

\* The case updateIndices skips: one value, and it has not changed.
SameValue(old, new) == Cardinality(old) = 1 /\ old = new

\* One round of updateIndices.
UpdateIndex(name) ==
  LET old == IndexValues(name, oldObj)
      new == IndexValues(name, newObj)
      without == deleteKeyFromIndex(key, old, indices[name])
  IN
  /\ name \in names
  /\ names' = names \ {name}
  /\ indices' = IF SameValue(old, new) THEN indices
                ELSE [indices EXCEPT ![name] = addKeyToIndex(key, new, without)]
  /\ UNCHANGED <<items, indexers, call, key, oldObj, newObj, rest>>

\* updateIndices is called.
StartUpdateIndices(k, old, new) ==
  /\ key' = k
  /\ oldObj' = old
  /\ newObj' = new
  /\ names' = indexers

-----------------------------------------------------------------------------
(* threadSafeMap *)

\* Add and Update.
Update(k, obj) ==
  /\ call = "none"
  /\ call' = "Update"
  /\ items' = [items EXCEPT ![k] = obj]
  /\ StartUpdateIndices(k, items[k], obj)
  /\ UNCHANGED <<indexers, indices, rest>>

\* Delete of a key that exists; the object leaves items at the end.
Delete(k) ==
  /\ call = "none"
  /\ items[k] # NoObject
  /\ call' = "Delete"
  /\ StartUpdateIndices(k, items[k], NoObject)
  /\ UNCHANGED <<items, indexers, indices, rest>>

\* Update or Delete returns.
Return ==
  /\ call \in {"Update", "Delete"}
  /\ names = {}
  /\ call' = "none"
  /\ items' = IF call = "Delete" THEN [items EXCEPT ![key] = NoObject] ELSE items
  /\ UNCHANGED <<indexers, indices, key, oldObj, newObj, names, rest>>

\* Replace takes the new map and drops the indices.
Replace(newItems) ==
  /\ call = "none"
  /\ call' = "Replace"
  /\ items' = newItems
  /\ indices' = [n \in IndexNames |-> EmptyIndex]
  /\ rest' = {k \in Keys : newItems[k] # NoObject}
  /\ UNCHANGED <<indexers, key, oldObj, newObj, names>>

\* A round of its loop.
ReplaceKey(k) ==
  /\ call = "Replace"
  /\ names = {}
  /\ k \in rest
  /\ rest' = rest \ {k}
  /\ StartUpdateIndices(k, NoObject, items[k])
  /\ UNCHANGED <<items, indexers, indices, call>>

ReplaceReturns ==
  /\ call = "Replace"
  /\ names = {} /\ rest = {}
  /\ call' = "none"
  /\ UNCHANGED <<items, indexers, indices, key, oldObj, newObj, names, rest>>

\* AddIndexers, when it does not return an error.
AddIndexers(newIndexers) ==
  /\ call = "none"
  /\ \A k \in Keys : items[k] = NoObject
  /\ indexers \cap newIndexers = {}
  /\ indexers' = indexers \cup newIndexers
  /\ UNCHANGED <<items, indices, call, key, oldObj, newObj, names, rest>>

Next ==
  \/ \E k \in Keys : Delete(k) \/ ReplaceKey(k) \/ \E obj \in Objects : Update(k, obj)
  \/ \E newItems \in [Keys -> Objects \cup {NoObject}] : Replace(newItems)
  \/ \E name \in IndexNames : UpdateIndex(name)
  \/ \E newIndexers \in SUBSET IndexNames : AddIndexers(newIndexers)
  \/ Return \/ ReplaceReturns

Spec == Init /\ [][Next]_vars

-----------------------------------------------------------------------------
(* The methods that read, and what they promise *)

\* IndexKeys, and the keys of the objects that ByIndex returns.
IndexKeys(name, value) == KeysOf(indices[name], value)

\* The keys of the objects that Index returns: those of getKeysFromIndex.
IndexedLike(name, obj) ==
  UNION {KeysOf(indices[name], v) : v \in IndexValues(name, obj)}

ListIndexFuncValues(name) == DOMAIN indices[name]

\* The keys of the stored objects that have the value.
KeysWith(name, value) ==
  {k \in Keys : items[k] # NoObject /\ value \in IndexFunc[name][items[k]]}

\* What Indexer says of IndexKeys and ByIndex, Index, and ListIndexFuncValues: they
\* find exactly the stored objects with the value, those that share a value with the
\* given object, and the values that some stored object has, after whatever updates,
\* replacements and added indexers.  The last also says that no empty set stays in an
\* index, where the values of short-lived objects would pile up.
IndexExact ==
  call = "none" =>
    \A name \in indexers :
      /\ \A value \in Values : IndexKeys(name, value) = KeysWith(name, value)
      /\ \A obj \in Objects :
           IndexedLike(name, obj) =
             {k \in Keys : items[k] # NoObject
                 /\ IndexFunc[name][items[k]] \cap IndexFunc[name][obj] # {}}
      /\ ListIndexFuncValues(name) = {v \in Values : KeysWith(name, v) # {}}
=============================================================================
