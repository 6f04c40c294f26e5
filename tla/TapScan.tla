------------------------------- MODULE TapScan -------------------------------
(***************************************************************************)
(* The in-use set TAP_INDICES of crates/daemon/src/provision.rs: a         *)
(* BTreeSet<u32> behind a mutex.  allocate_tap_index walks the set in      *)
(* ascending order looking for the first gap, one loop iteration per step, *)
(* with the mutex held; release_tap_index removes an index.                *)
(***************************************************************************)
EXTENDS TapIndex

VARIABLES
  set,       \* TAP_INDICES
  pc,        \* "idle": mutex free; "scan": allocate_tap_index holds it
  rest,      \* members of set the loop has not visited
  idx,       \* the candidate gap
  result     \* outcome of the last allocation

NoResult   == -1
AtCapacity == -2

scanVars == <<set, pc, rest, idx, result>>

\* init_tap_indices: the indices parsed from the tap_name column of this
\* node's running and provisioning rows, any subset of the indices.
ScanInit ==
  /\ set \in SUBSET Indices
  /\ pc = "idle"
  /\ rest = {}
  /\ idx = 0
  /\ result = NoResult

\* lock().await, let mut idx = 0, set.iter()
BeginScan ==
  /\ pc = "idle"
  /\ pc' = "scan"
  /\ rest' = set
  /\ idx' = 0
  /\ UNCHANGED <<set, result>>

\* The next element of the ascending iteration.
IsNextUsed(u) == u \in rest /\ \A v \in rest : u <= v

\* Mutant: the loop does not move on.
ScanStuck ==
  /\ pc = "scan"
  /\ \E u \in rest : IsNextUsed(u) /\ idx >= u /\ idx' = u + 1
  /\ UNCHANGED <<set, pc, rest, result>>

\* One iteration that does not break: used <= idx, so idx = used + 1.
ScanStep ==
  /\ pc = "scan"
  /\ \E u \in rest :
       /\ IsNextUsed(u)
       /\ idx >= u
       /\ idx' = u + 1
       /\ rest' = rest \ {u}
  /\ UNCHANGED <<set, pc, result>>

\* The loop is over: it broke at a gap or the iterator is exhausted.
ScanOver == \A u \in rest : idx < u

\* Mutant: the index found is not inserted.
FinishUnmarked ==
  /\ pc = "scan"
  /\ ScanOver
  /\ result' = IF idx <= MaxTapIndex THEN idx ELSE AtCapacity
  /\ pc' = "idle"
  /\ rest' = {}
  /\ idx' = 0
  /\ UNCHANGED set

\* ensure!(idx <= MAX_TAP_INDEX); set.insert(idx); Ok(idx)
FinishScan ==
  /\ pc = "scan"
  /\ ScanOver
  /\ IF idx <= MaxTapIndex
     THEN set' = set \cup {idx} /\ result' = idx
     ELSE result' = AtCapacity /\ UNCHANGED set
  /\ pc' = "idle"
  /\ rest' = {}
  /\ idx' = 0

\* release_tap_index: BTreeSet::remove under the mutex, a no-op when absent.
release_tap_index(i) ==
  /\ pc = "idle"
  /\ set' = set \ {i}
  /\ UNCHANGED <<pc, rest, idx, result>>

ScanNext ==
  \/ BeginScan
  \/ ScanStep
  \/ FinishScan
  \/ \E i \in Indices : release_tap_index(i)

ScanSpec == ScanInit /\ [][ScanNext]_scanVars /\ WF_scanVars(ScanStep \/ FinishScan)

-----------------------------------------------------------------------------
(* Properties *)

ScanTypeOK ==
  /\ set \in SUBSET Indices
  /\ pc \in {"idle", "scan"}
  /\ rest \in SUBSET Indices
  /\ idx \in 0 .. MaxTapIndex + 1
  /\ result \in Indices \cup {NoResult, AtCapacity}

\* The loop invariant of allocate_tap_index: everything below the candidate is
\* in use, and exactly the members from the candidate on are still to visit, so
\* no gap is ever passed over.
ScanInv ==
  pc = "scan" => /\ rest \subseteq set
                 /\ \A i \in Indices : i < idx => i \in set
                 /\ \A u \in set : u \in rest <=> u >= idx

\* allocate_tap_index hands out the smallest free index and reports "node at
\* capacity" only when none is free: the scan implements the atomic pool.
Pool == INSTANCE TapPool WITH used <- set
PoolRefinement == Pool!PoolSpec

\* An allocation that began ends: the mutex is not held for ever.
ScanTerminates == pc = "scan" ~> pc = "idle"
=============================================================================
