------------------------------- MODULE TapPool -------------------------------
(***************************************************************************)
(* What the pool of TAP indices promises: allocation and release are       *)
(* atomic, an allocation takes the smallest free index and fails only when *)
(* every index is in use.  TapScan implements it.                          *)
(***************************************************************************)
EXTENDS TapIndex

VARIABLES
  used,      \* the indices marked in use
  result     \* outcome of the last allocation: an index, NoResult or AtCapacity

NoResult   == -1
AtCapacity == -2

poolVars == <<used, result>>

PoolInit ==
  /\ used \in SUBSET Indices
  /\ result = NoResult

Allocate ==
  /\ \E i \in Indices : /\ IsSmallestFree(i, used)
                        /\ used' = used \cup {i}
                        /\ result' = i

Refuse ==
  /\ Free(used) = {}
  /\ result' = AtCapacity
  /\ UNCHANGED used

Release(i) ==
  /\ used' = used \ {i}
  /\ UNCHANGED result

PoolNext == Allocate \/ Refuse \/ \E i \in Indices : Release(i)

PoolSpec == PoolInit /\ [][PoolNext]_poolVars
=============================================================================
