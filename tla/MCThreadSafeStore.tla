------------------------ MODULE MCThreadSafeStore ------------------------
(***************************************************************************)
(* Two indexers for three objects.  One gives a single value each, the     *)
(* same for two of the objects; the other gives two values, one or none.   *)
(***************************************************************************)
EXTENDS ThreadSafeStore

CONSTANTS k1, k2, o1, o2, o3, single, many, a, b

MCIndexFunc ==
  [n \in {single, many} |->
     [o \in {o1, o2, o3} |->
        IF n = single THEN (IF o = o3 THEN {b} ELSE {a})
        ELSE IF o = o1 THEN {a, b} ELSE IF o = o2 THEN {b} ELSE {}]]
=============================================================================
