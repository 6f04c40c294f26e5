------------------------ MODULE MetalPlatformProofs ------------------------
(***************************************************************************)
(* Proofs about the Metal platform, for any number of services, TAP        *)
(* indices, attempts and events.                                           *)
(*                                                                         *)
(* The TAP index pool: the scan of allocate_tap_index implements the       *)
(* atomic pool, which is how MetalNode allocates, and guest_ip gives       *)
(* distinct indices distinct addresses.                                    *)
(*                                                                         *)
(* MetalPlatform, for every combination of operations and faults, across   *)
(* crashes and restarts of the daemon, which rebuilds its memory from the  *)
(* rows: types, who owns an index or a process, and what startup spares.   *)
(* In one life of the daemon an index has one owner, and across restarts   *)
(* as long as the rows name each TAP once.  An event is retried at most    *)
(* max_deliver times and an answered one never again.                      *)
(*                                                                         *)
(* MetalPlatform while a service is provisioned by one event, delivered    *)
(* once: one attempt per service, so that each handle is consumed, each    *)
(* index has an owner, each device is accounted for and each stopped       *)
(* service is torn down.                                                   *)
(***************************************************************************)
EXTENDS MetalPlatform, TapScan, FiniteSetTheorems, TLAPS

-----------------------------------------------------------------------------
(* The TAP index pool *)

\* guest_ip maps distinct indices to distinct addresses inside the octet range,
\* none of them the gateway: a VM's index determines its address and the
\* address determines the index.
THEOREM AddressContract ==
  \A i, j \in Indices :
     /\ GuestIp(i) = GuestIp(j) => i = j
     /\ GuestIp(i)[1] \in 0 .. 62
     /\ GuestIp(i)[2] \in 2 .. 250
     /\ GuestIp(i) # Gateway
<1> SUFFICES ASSUME NEW i \in Indices, NEW j \in Indices
             PROVE  /\ GuestIp(i) = GuestIp(j) => i = j
                    /\ GuestIp(i)[1] \in 0 .. 62
                    /\ GuestIp(i)[2] \in 2 .. 250
                    /\ GuestIp(i) # Gateway
  OBVIOUS
<1>1. i \in Nat /\ j \in Nat /\ i < 63 * 63 /\ j < 63 * 63
  BY TapAssumption DEF Indices
<1>2. /\ i = 63 * (i \div 63) + (i % 63)
      /\ j = 63 * (j \div 63) + (j % 63)
      /\ i \div 63 \in Nat /\ i % 63 \in 0 .. 62
      /\ j \div 63 \in Nat /\ j % 63 \in 0 .. 62
  BY <1>1, SMT
<1>3. i \div 63 <= 62
  BY <1>1, <1>2, SMT
<1>4. GuestIp(i) = GuestIp(j) => i = j
  BY <1>1, <1>2 DEF GuestIp
<1>5. QED
  BY <1>2, <1>3, <1>4 DEF GuestIp, Gateway

-----------------------------------------------------------------------------

\* The inductive invariant: types and the loop invariant together.
ScanIInv == ScanTypeOK /\ ScanInv

LEMMA ScanInitially == ScanInit => ScanIInv
  BY TapAssumption DEF ScanInit, ScanIInv, ScanTypeOK, ScanInv, Indices

LEMMA ScanInductive == ScanIInv /\ [ScanNext]_scanVars => ScanIInv'
<1> SUFFICES ASSUME ScanIInv, [ScanNext]_scanVars
             PROVE  ScanIInv'
  OBVIOUS
<1> USE TapAssumption DEF ScanIInv, ScanTypeOK, ScanInv, Indices, NoResult, AtCapacity
<1>1. CASE BeginScan
  BY <1>1 DEF BeginScan
<1>2. CASE ScanStep
  <2>1. PICK u \in rest : IsNextUsed(u) /\ idx >= u /\ idx' = u + 1 /\ rest' = rest \ {u}
    BY <1>2 DEF ScanStep
  <2>2. u = idx /\ u \in set /\ UNCHANGED <<set, pc, result>> /\ pc = "scan"
    BY <1>2, <2>1 DEF ScanStep
  <2>3. \A v \in set : v \in rest' <=> v >= idx'
    BY <2>1, <2>2
  <2>4. \A i \in Indices : i < idx' => i \in set'
    BY <2>1, <2>2
  <2>5. QED
    BY <2>1, <2>2, <2>3, <2>4
<1>3. CASE FinishScan
  <2>1. set' \in SUBSET Indices /\ result' \in Indices \cup {NoResult, AtCapacity}
    <3>1. CASE idx <= MaxTapIndex
      <4>1. idx \in Indices /\ set' = set \cup {idx} /\ result' = idx
        BY <1>3, <3>1 DEF FinishScan
      <4>2. QED
        BY <4>1
    <3>2. CASE ~(idx <= MaxTapIndex)
      BY <1>3, <3>2 DEF FinishScan
    <3>3. QED
      BY <3>1, <3>2
  <2>2. pc' = "idle" /\ rest' = {} /\ idx' = 0
    BY <1>3 DEF FinishScan
  <2>3. QED
    BY <2>1, <2>2
<1>4. ASSUME NEW i \in Indices, release_tap_index(i)
      PROVE  ScanIInv'
  BY <1>4 DEF release_tap_index
<1>5. CASE UNCHANGED scanVars
  BY <1>5 DEF scanVars
<1>6. QED
  BY <1>1, <1>2, <1>3, <1>4, <1>5 DEF ScanNext

\* The scan never passes over a gap: everything below the candidate is in use.
THEOREM ScanInvariant == ScanSpec => [](ScanTypeOK /\ ScanInv)
<1>1. ScanSpec => []ScanIInv
  BY ScanInitially, ScanInductive, PTL DEF ScanSpec
<1>2. QED
  BY <1>1, PTL DEF ScanIInv

-----------------------------------------------------------------------------

\* A finished scan is an atomic allocation or an atomic refusal.
LEMMA FinishIsAtomic == ScanIInv /\ FinishScan => Pool!Allocate \/ Pool!Refuse
<1> SUFFICES ASSUME ScanIInv, FinishScan
             PROVE  Pool!Allocate \/ Pool!Refuse
  OBVIOUS
<1> USE TapAssumption DEF ScanIInv, ScanTypeOK, ScanInv, Indices, Pool!Indices
<1>1. idx \notin set
  BY DEF FinishScan, ScanOver
<1>2. CASE idx <= MaxTapIndex
  <2>1. IsSmallestFree(idx, set)
    BY <1>1, <1>2 DEF FinishScan, IsSmallestFree, Free
  <2>2. QED
    BY <1>2, <2>1 DEF FinishScan, Pool!Allocate, Pool!IsSmallestFree, Pool!Free,
                      IsSmallestFree, Free
<1>3. CASE ~(idx <= MaxTapIndex)
  BY <1>3 DEF FinishScan, Pool!Refuse, Pool!Free, Pool!AtCapacity, AtCapacity
<1>4. QED
  BY <1>2, <1>3

\* allocate_tap_index with release_tap_index implements the atomic pool.
THEOREM ScanImplementsPool == ScanSpec => PoolRefinement
<1>1. ScanInit => Pool!PoolInit
  BY DEF ScanInit, Pool!PoolInit, Pool!NoResult, NoResult, Pool!Indices, Indices
<1>2. ScanIInv /\ [ScanNext]_scanVars => [Pool!PoolNext]_(Pool!poolVars)
  <2> SUFFICES ASSUME ScanIInv, [ScanNext]_scanVars
               PROVE  Pool!PoolNext \/ UNCHANGED <<set, result>>
    BY DEF Pool!poolVars
  <2>1. CASE BeginScan \/ ScanStep
    BY <2>1 DEF BeginScan, ScanStep
  <2>2. CASE FinishScan
    BY <2>2, FinishIsAtomic DEF Pool!PoolNext
  <2>3. ASSUME NEW i \in Indices, release_tap_index(i)
        PROVE  Pool!PoolNext
    BY <2>3 DEF release_tap_index, Pool!PoolNext, Pool!Release, Pool!Indices, Indices
  <2>4. CASE UNCHANGED scanVars
    BY <2>4 DEF scanVars
  <2>5. QED
    BY <2>1, <2>2, <2>3, <2>4 DEF ScanNext
<1>3. ScanSpec => []ScanIInv
  BY ScanInitially, ScanInductive, PTL DEF ScanSpec
<1>4. QED
  BY <1>1, <1>2, <1>3, PTL DEF ScanSpec, PoolRefinement, Pool!PoolSpec

-----------------------------------------------------------------------------
(* Lemmas about the records the handlers update *)

\* Every UPDATE of a services row leaves a row the columns admit.
LEMMA RowUpdates ==
  ASSUME NEW r \in ServiceRows
  PROVE  /\ \A x \in StatusCheck : [r EXCEPT !.status = x] \in ServiceRows
         /\ \A x \in StatusCheck :
              /\ [r EXCEPT !.status = x, !.upstream = NoPid] \in ServiceRows
              /\ [r EXCEPT !.status = x, !.upstream = NoPid, !.deleted = TRUE] \in
                 ServiceRows
         /\ \A x \in StatusCheck, a \in Pids :
              [r EXCEPT !.status = x, !.vm = a, !.upstream = a] \in ServiceRows
         /\ MarkCrashed(r) \in ServiceRows
BY DEF ServiceRows, Handles, MarkCrashed

\* Publishing, delivering, acking and purging an event leaves an event record.
LEMMA EventUpdates ==
  ASSUME NEW r \in EventRecords
  PROVE  /\ r.svc \in Services /\ r.n \in Nat
         /\ \A x \in EventStates : /\ [r EXCEPT !.st = x] \in EventRecords
                                   /\ [r EXCEPT !.st = x, !.n = r.n + 1] \in EventRecords
<1>1. r.svc \in Services /\ r.n \in Nat /\ r.n + 1 \in Nat
  BY DEF EventRecords
<1>2. ASSUME NEW x \in EventStates
      PROVE  /\ [r EXCEPT !.st = x] \in EventRecords
             /\ [r EXCEPT !.st = x, !.n = r.n + 1] \in EventRecords
  <2>1. \A q \in EventRecords : [q EXCEPT !.st = x] \in EventRecords
    BY DEF EventRecords
  <2>2. \A q \in EventRecords, m \in Nat : [q EXCEPT !.n = m] \in EventRecords
    BY DEF EventRecords
  <2> QED BY <1>1, <2>1, <2>2
<1> QED BY <1>1, <1>2

\* ... applied to the effects the handlers share.
LEMMA MarkFailedType ==
  ASSUME RowType, NEW s \in Services, MarkFailed(s)
  PROVE  RowType'
<1>1. CASE UNCHANGED row
  BY <1>1 DEF RowType
<1>2. CASE row' = [row EXCEPT ![s] = [@ EXCEPT !.status = "failed"]]
  <2>1. row[s] \in ServiceRows /\ "failed" \in StatusCheck
    BY DEF RowType, StatusCheck
  <2>2. [row[s] EXCEPT !.status = "failed"] \in ServiceRows
    BY <2>1, RowUpdates
  <2> QED BY <1>2, <2>2 DEF RowType
<1> QED BY <1>1, <1>2 DEF MarkFailed

LEMMA AckType ==
  ASSUME ev \in [Events -> EventRecords], NEW e, Ack(e)
  PROVE  ev' \in [Events -> EventRecords]
<1>1. CASE UNCHANGED ev
  BY <1>1
<1>2. CASE ev' = [ev EXCEPT ![e] = [@ EXCEPT !.st = "acked"]]
  <2>1. e \in Events => [ev[e] EXCEPT !.st = "acked"] \in EventRecords
    BY EventUpdates DEF EventStates
  <2> QED BY <1>2, <2>1
<1> QED BY <1>1, <1>2 DEF Ack

LEMMA EnqueueType ==
  ASSUME NEW box \in [Events -> EventRecords], NEW s \in Services,
         NEW kind \in {"provision", "deprovision"}, Enqueue(box, kind, s)
  PROVE  ev' \in [Events -> EventRecords]
<1>1. [kind |-> kind, svc |-> s, st |-> "outbox", n |-> 0] \in EventRecords
  BY DEF EventRecords, EventStates
<1> QED BY <1>1 DEF Enqueue

LEMMA PurgedType ==
  ASSUME ev \in [Events -> EventRecords], NEW s \in Services
  PROVE  Purged(s) \in [Events -> EventRecords]
<1>1. \A e \in Events : [ev[e] EXCEPT !.st = "free"] \in EventRecords
  BY EventUpdates DEF EventStates
<1> QED BY <1>1 DEF Purged

\* An owner, and an attempt about to write its tap_name to the row, has an index.
TapKnown ==
  \A a \in Pids : Owns(a) \/ step[a] = "registered" => tap[a] \in Indices

\* The daemon process ends, or starts again.
Restarts == DaemonCrash \/ Shutdown \/ Startup

LEMMA OwnedTap ==
  ASSUME TapKnown, NEW a \in Pids, Owns(a)
  PROVE  tap[a] \in Indices
BY DEF TapKnown

\* A handle in the registry is a process and an owner.
LEMMA RegistryOwns ==
  ASSUME TypeOK, NEW s \in Services, registry[s] # NoPid
  PROVE  registry[s] \in Pids /\ Registered(registry[s]) /\ Owns(registry[s])
BY DEF TypeOK, HostType, Handles, Registered, Owns

-----------------------------------------------------------------------------
\* Every step but a restart keeps the types.
LEMMA TypeStep ==
  ASSUME TapAssumption, NodeAssumption, TypeOK, TapKnown, Next, ~Restarts
  PROVE  TypeOK'
<1> USE DEF TypeOK
<1>1. ASSUME NEW a \in Pids, allocate_tap_index(a) PROVE TypeOK'
  <2>1. TaskType'
    <3>1. ASSUME NEW i \in Indices, tap' = [tap EXCEPT ![a] = i], Goto(a, "alloc")
          PROVE  TaskType'
      BY <1>1, <3>1 DEF allocate_tap_index, Goto, TaskType, Steps
    <3>2. CASE Goto(a, "failT") /\ UNCHANGED tap
      BY <1>1, <3>2 DEF allocate_tap_index, Goto, TaskType, Steps
    <3> QED BY <1>1, <3>1, <3>2 DEF allocate_tap_index
  <2>2. HostType'
    BY <1>1 DEF allocate_tap_index, Goto, IsSmallestFree, Free, HostType, TaskType,
                Handles, Pids, NoPid, NoDev, Idle
  <2> QED
    BY <1>1, <2>1, <2>2 DEF allocate_tap_index, Goto, IsSmallestFree, Free, vars,
                            taskVars, hostVars, busVars, ctlVars, auxVars, RowType,
                            BusType, CtlType, AuxType
<1>2. ASSUME NEW a \in Pids, BuildFails(a) PROVE TypeOK'
  <2>1. TaskType'
    BY <1>2 DEF BuildFails, FailGuarded, Goto, hostVars, TaskType, HostType, Steps,
                Handles, Pids, Events, NoPid, NoTap
  <2> QED
    BY <1>2, <2>1 DEF BuildFails, FailGuarded, Goto, hostVars, vars, taskVars, busVars,
                      ctlVars, auxVars, RowType, HostType, BusType, CtlType, AuxType
<1>3. ASSUME NEW a \in Pids, CreateTap(a) PROVE TypeOK'
  <2>1. TaskType'
    BY <1>3 DEF CreateTap, Goto, TaskType, HostType, Steps, Handles, Pids, Events, NoPid,
                NoTap
  <2>2. HostType'
    BY <1>3 DEF CreateTap, Goto, HostType, TaskType, Handles, Pids, NoPid, NoDev, Idle
  <2> QED
    BY <1>3, <2>1, <2>2 DEF CreateTap, Goto, vars, taskVars, hostVars, busVars, ctlVars,
                            auxVars, RowType, BusType, CtlType, AuxType
<1>4. ASSUME NEW a \in Pids, CreateTapBusy(a) PROVE TypeOK'
  <2>1. TaskType'
    BY <1>4 DEF CreateTapBusy, FailGuarded, Goto, hostVars, TaskType, HostType, Steps,
                Handles, Pids, Events, NoPid, NoTap
  <2> QED
    BY <1>4, <2>1 DEF CreateTapBusy, FailGuarded, Goto, hostVars, vars, taskVars, busVars,
                      ctlVars, auxVars, RowType, HostType, BusType, CtlType, AuxType
<1>5. ASSUME NEW a \in Pids, Boot(a) PROVE TypeOK'
  <2>1. TaskType'
    BY <1>5 DEF Boot, Goto, TaskType, HostType, Steps, Handles, Pids, Events, NoPid, NoTap
  <2>2. HostType'
    BY <1>5 DEF Boot, Goto, HostType, TaskType, Handles, Pids, NoPid, NoDev, Idle
  <2> QED
    BY <1>5, <2>1, <2>2 DEF Boot, Goto, vars, taskVars, hostVars, busVars, ctlVars,
                            auxVars, RowType, BusType, CtlType, AuxType
<1>6. ASSUME NEW a \in Pids, BootFails(a) PROVE TypeOK'
  <2>1. TaskType'
    BY <1>6 DEF BootFails, FailGuarded, Goto, TaskType, HostType, Steps, Handles, Pids,
                Events, NoPid, NoTap
  <2>2. HostType'
    BY <1>6 DEF BootFails, FailGuarded, Goto, HostType, TaskType, Handles, Pids, NoPid,
                NoDev, Idle
  <2> QED
    BY <1>6, <2>1, <2>2 DEF BootFails, FailGuarded, Goto, vars, taskVars, hostVars,
                            busVars, ctlVars, auxVars, RowType, BusType, CtlType, AuxType
<1>7. ASSUME NEW a \in Pids, RegisterVm(a) PROVE TypeOK'
  <2>1. TaskType'
    BY <1>7 DEF RegisterVm, Goto, TaskType, HostType, Steps, Handles, Pids, Events, NoPid,
                NoTap
  <2>2. HostType'
    BY <1>7 DEF RegisterVm, Goto, HostType, TaskType, Handles, Pids, NoPid, NoDev, Idle
  <2>3. AuxType'
    <3>1. CASE registry[svc[a]] = NoPid
      BY <1>7, <3>1 DEF RegisterVm, AuxType, auxVars
    <3>2. CASE registry[svc[a]] # NoPid
      <4>1. registry[svc[a]] \in Pids /\ tap[registry[svc[a]]] \in Indices
        BY <3>2, OwnedTap, RegistryOwns DEF TaskType
      <4> QED BY <1>7, <3>2, <4>1 DEF RegisterVm, AuxType
    <3> QED BY <3>1, <3>2
  <2> QED
    BY <1>7, <2>1, <2>2, <2>3 DEF RegisterVm, Goto, vars, taskVars, hostVars, busVars,
                                  ctlVars, auxVars, RowType, BusType, CtlType
<1>8. ASSUME NEW a \in Pids, ProbeFails(a) PROVE TypeOK'
  <2>1. TaskType'
    BY <1>8 DEF ProbeFails, FailGuarded, Goto, TaskType, HostType, Steps, Handles, Pids,
                Events, NoPid, NoTap
  <2>2. HostType'
    BY <1>8 DEF ProbeFails, FailGuarded, Goto, HostType, TaskType, Handles, Pids, NoPid,
                NoDev, Idle
  <2> QED
    BY <1>8, <2>1, <2>2 DEF ProbeFails, FailGuarded, Goto, vars, taskVars, hostVars,
                            busVars, ctlVars, auxVars, RowType, BusType, CtlType, AuxType
<1>9. ASSUME NEW a \in Pids, WriteRunning(a) PROVE TypeOK'
  <2>1. RowType'
    BY <1>9, RowUpdates DEF WriteRunning, Goto, hostVars, RowType, TaskType, StatusCheck
  <2>2. TaskType'
    BY <1>9 DEF WriteRunning, Goto, hostVars, TaskType, HostType, Steps, Handles, Pids,
                Events, NoPid, NoTap
  <2> QED
    BY <1>9, <2>1, <2>2 DEF WriteRunning, Goto, hostVars, vars, taskVars, busVars,
                            ctlVars, auxVars, HostType, BusType, CtlType, AuxType
<1>10. ASSUME NEW a \in Pids, WriteFails(a) PROVE TypeOK'
  <2>1. RowType'
    BY <1>10, MarkFailedType DEF WriteFails, TaskType
  <2>2. TaskType'
    BY <1>10 DEF WriteFails, Goto, MarkFailed, RemoveHandle, Kill, TaskType, HostType,
                 Steps, Handles, Pids, Events, NoPid, NoTap
  <2>3. HostType'
    BY <1>10 DEF WriteFails, Goto, MarkFailed, RemoveHandle, Kill, HostType, TaskType,
                 Handles, Pids, NoPid, NoDev, Idle
  <2> QED
    BY <1>10, <2>1, <2>2, <2>3 DEF WriteFails, Goto, MarkFailed, RemoveHandle, Kill, vars,
                                   taskVars, hostVars, busVars, ctlVars, auxVars, BusType,
                                   CtlType, AuxType
<1>11. ASSUME NEW a \in Pids, WriteUndone(a) PROVE TypeOK'
  <2>1. TaskType'
    BY <1>11 DEF WriteUndone, Goto, hostVars, TaskType, HostType, Steps, Handles, Pids,
                 Events, NoPid, NoTap
  <2> QED
    BY <1>11, <2>1 DEF WriteUndone, Goto, hostVars, vars, taskVars, busVars, ctlVars,
                       auxVars, RowType, HostType, BusType, CtlType, AuxType
<1>12. ASSUME NEW a \in Pids, AckProvisioned(a) PROVE TypeOK'
  <2>1. TaskType'
    BY <1>12 DEF AckProvisioned, Goto, Ack, hostVars, TaskType, HostType, Steps, Handles,
                 Pids, Events, NoPid, NoTap
  <2>2. BusType'
    BY <1>12, AckType DEF AckProvisioned, BusType
  <2> QED
    BY <1>12, <2>1, <2>2 DEF AckProvisioned, Goto, Ack, hostVars, vars, taskVars, busVars,
                             ctlVars, auxVars, RowType, HostType, CtlType, AuxType
<1>13. ASSUME NEW a \in Pids, rollback_provision(a) PROVE TypeOK'
  <2>1. RowType'
    BY <1>13, MarkFailedType DEF rollback_provision, TaskType
  <2>2. TaskType'
    BY <1>13 DEF rollback_provision, Goto, MarkFailed, RemoveHandle, Kill, TaskType,
                 HostType, Steps, Handles, Pids, Events, NoPid, NoTap
  <2>3. HostType'
    BY <1>13 DEF rollback_provision, Goto, MarkFailed, RemoveHandle, Kill, HostType,
                 TaskType, Handles, Pids, NoPid, NoDev, Idle
  <2> QED
    BY <1>13, <2>1, <2>2, <2>3 DEF rollback_provision, Goto, MarkFailed, RemoveHandle,
                                   Kill, vars, taskVars, hostVars, busVars, ctlVars,
                                   auxVars, BusType, CtlType, AuxType
<1>14. ASSUME NEW a \in Pids, NakTransient(a) PROVE TypeOK'
  <2>1. RowType'
    <3>1. CASE UNCHANGED row
      BY <3>1 DEF RowType
    <3>2. CASE row' = [row EXCEPT ![svc[a]] = [@ EXCEPT !.status = "provisioning"]]
      <4>1. [row[svc[a]] EXCEPT !.status = "provisioning"] \in ServiceRows
        BY RowUpdates DEF RowType, TaskType, StatusCheck
      <4> QED BY <3>2, <4>1 DEF RowType
    <3> QED BY <1>14, <3>1, <3>2 DEF NakTransient
  <2>2. TaskType'
    BY <1>14 DEF NakTransient, Goto, Nak, hostVars, TaskType, HostType, Steps, Handles,
                 Pids, Events, NoPid, NoTap
  <2>3. BusType'
    BY <1>14, EventUpdates DEF NakTransient, Goto, Nak, hostVars, BusType, TaskType,
                               HostType, EventStates, Handles, Pids, Events, NoPid
  <2> QED
    BY <1>14, <2>1, <2>2, <2>3 DEF NakTransient, Goto, Nak, hostVars, vars, taskVars,
                                   busVars, ctlVars, auxVars, HostType, CtlType, AuxType
<1>15. ASSUME NEW a \in Pids, AckPermanent(a) PROVE TypeOK'
  <2>1. TaskType'
    BY <1>15 DEF AckPermanent, Goto, Ack, hostVars, TaskType, HostType, Steps, Handles,
                 Pids, Events, NoPid, NoTap
  <2>2. BusType'
    BY <1>15, AckType DEF AckPermanent, BusType
  <2> QED
    BY <1>15, <2>1, <2>2 DEF AckPermanent, Goto, Ack, hostVars, vars, taskVars, busVars,
                             ctlVars, auxVars, RowType, HostType, CtlType, AuxType
<1>16. ASSUME NEW a \in Pids, TimeoutFires(a) PROVE TypeOK'
  <2>1. TaskType'
    BY <1>16 DEF TimeoutFires, Goto, Guarded, UndoOver, TaskType, HostType, Steps,
                 Handles, Pids, Events, NoPid, NoTap
  <2>2. HostType'
    BY <1>16 DEF TimeoutFires, Goto, Guarded, UndoOver, HostType, TaskType, Handles, Pids,
                 NoPid, NoDev, Idle
  <2>3. AuxType'
    BY <1>16, OwnedTap, RegistryOwns
    DEF TimeoutFires, Goto, Guarded, UndoOver, AuxType, TaskType, HostType, Handles,
        Pids, NoPid, Owns, Registered
  <2> QED
    BY <1>16, <2>1, <2>2, <2>3 DEF TimeoutFires, Goto, Guarded, UndoOver, vars, taskVars,
                                   hostVars, busVars, ctlVars, auxVars, RowType, BusType,
                                   CtlType
<1>17. ASSUME NEW a \in Pids, ReleaseDropped(a) PROVE TypeOK'
  <2>1. TaskType'
    BY <1>17 DEF ReleaseDropped, TaskType, HostType, Steps, Handles, Pids, Events, NoPid,
                 NoTap
  <2>2. HostType'
    BY <1>17 DEF ReleaseDropped, HostType, TaskType, Handles, Pids, NoPid, NoDev, Idle
  <2> QED
    BY <1>17, <2>1, <2>2 DEF ReleaseDropped, vars, taskVars, hostVars, busVars, ctlVars,
                             auxVars, RowType, BusType, CtlType, AuxType
<1>18. ASSUME NEW a \in Pids, TeardownRelease(a) PROVE TypeOK'
  <2>1. HostType'
    BY <1>18 DEF TeardownRelease, taskVars, HostType, TaskType, Handles, Pids, NoPid,
                 NoDev, Idle
  <2> QED
    BY <1>18, <2>1 DEF TeardownRelease, taskVars, vars, hostVars, busVars, ctlVars,
                       auxVars, RowType, TaskType, BusType, CtlType, AuxType
<1>19. ASSUME NEW a \in Pids, TeardownKill(a) PROVE TypeOK'
  <2>1. HostType'
    BY <1>19 DEF TeardownKill, Kill, taskVars, HostType, TaskType, Handles, Pids, NoPid,
                 NoDev, Idle
  <2> QED
    BY <1>19, <2>1 DEF TeardownKill, Kill, taskVars, vars, hostVars, busVars, ctlVars,
                       auxVars, RowType, TaskType, BusType, CtlType, AuxType
<1>20. ASSUME NEW a \in Pids, TeardownDelete(a) PROVE TypeOK'
  <2>1. HostType'
    BY <1>20 DEF TeardownDelete, taskVars, HostType, TaskType, Handles, Pids, NoPid,
                 NoDev, Idle
  <2> QED
    BY <1>20, <2>1 DEF TeardownDelete, taskVars, vars, hostVars, busVars, ctlVars,
                       auxVars, RowType, TaskType, BusType, CtlType, AuxType
<1>21. ASSUME NEW a \in Pids, StartTask(a) PROVE TypeOK'
  <2>1. TaskType'
    BY <1>21, EventUpdates DEF StartTask, Goto, hostVars, TaskType, HostType, BusType,
                               Steps, Handles, Pids, Events, NoPid, NoTap
  <2>2. BusType'
    BY <1>21, EventUpdates DEF StartTask, Goto, hostVars, BusType, TaskType, HostType,
                               EventStates, Handles, Pids, Events, NoPid
  <2> QED
    BY <1>21, <2>1, <2>2 DEF StartTask, Goto, hostVars, vars, taskVars, busVars, ctlVars,
                             auxVars, RowType, HostType, CtlType, AuxType
<1>22. ASSUME NEW e \in Events, ReceiveProvision(e) PROVE TypeOK'
  <2>1. BusType'
    BY <1>22, EventUpdates DEF ReceiveProvision, taskVars, hostVars, BusType, TaskType,
                               HostType, EventStates, Handles, Pids, Events, NoPid
  <2> QED
    BY <1>22, <2>1 DEF ReceiveProvision, taskVars, hostVars, vars, busVars, ctlVars,
                       auxVars, RowType, TaskType, HostType, CtlType, AuxType
<1>23. ASSUME NEW e \in Events, RejectInMaintenance(e) PROVE TypeOK'
  <2>1. BusType'
    BY <1>23, EventUpdates DEF RejectInMaintenance, taskVars, hostVars, BusType, TaskType,
                               HostType, EventStates, Handles, Pids, Events, NoPid
  <2> QED
    BY <1>23, <2>1 DEF RejectInMaintenance, taskVars, hostVars, vars, busVars, ctlVars,
                       auxVars, RowType, TaskType, HostType, CtlType, AuxType
<1>24. ASSUME NEW e \in Events, ReceiveDeprovision(e) PROVE TypeOK'
  <2>1. BusType'
    BY ZenonT(40), <1>24, EventUpdates DEF ReceiveDeprovision, taskVars, hostVars, BusType, TaskType,
                               HostType, EventStates, Handles, Pids, Events, NoPid
  <2> QED
    BY <1>24, <2>1 DEF ReceiveDeprovision, taskVars, hostVars, vars, busVars, ctlVars,
                       auxVars, RowType, TaskType, HostType, CtlType, AuxType
<1>25. ASSUME NEW e \in Events, HandleDeprovision(e) PROVE TypeOK'
  <2>1. HostType'
    BY <1>25 DEF HandleDeprovision, RemoveHandle, taskVars, HostType, TaskType, Handles,
                 Pids, NoPid, NoDev, Idle
  <2>2. BusType'
    BY <1>25, EventUpdates DEF HandleDeprovision, RemoveHandle, taskVars, BusType,
                               TaskType, HostType, EventStates, Handles, Pids, Events,
                               NoPid
  <2> QED
    BY <1>25, <2>1, <2>2 DEF HandleDeprovision, RemoveHandle, taskVars, vars, hostVars,
                             busVars, ctlVars, auxVars, RowType, TaskType, CtlType,
                             AuxType
<1>26. ASSUME NEW e \in Events, AckDeprovision(e) PROVE TypeOK'
  <2>1. BusType'
    <3>1. ev' \in [Events -> EventRecords]
      BY <1>26, AckType DEF AckDeprovision, BusType
    <3>2. NoJob \in [stage : {"none", "start", "teardown"}, h : Handles]
      BY DEF NoJob, Handles
    <3> QED BY <1>26, <3>1, <3>2 DEF AckDeprovision, BusType
  <2> QED
    BY <1>26, <2>1 DEF AckDeprovision, Ack, NoJob, taskVars, hostVars, vars, busVars,
                       ctlVars, auxVars, RowType, TaskType, HostType, CtlType, AuxType
<1>27. ASSUME NEW a \in Pids, VmExits(a) PROVE TypeOK'
  <2>1. HostType'
    BY <1>27 DEF VmExits, Kill, taskVars, HostType, TaskType, Handles, Pids, NoPid, NoDev,
                 Idle
  <2> QED
    BY <1>27, <2>1 DEF VmExits, Kill, taskVars, vars, hostVars, busVars, ctlVars, auxVars,
                       RowType, TaskType, BusType, CtlType, AuxType
<1>28. CASE CrashWatch
  <2>1. RowType'
    BY <1>28, RowUpdates DEF CrashWatch, MarkCrashed, taskVars, RowType, TaskType,
                             StatusCheck
  <2>2. HostType'
    BY <1>28 DEF CrashWatch, MarkCrashed, taskVars, HostType, TaskType, Handles, Pids,
                 NoPid, NoDev, Idle
  <2> QED
    BY <1>28, <2>1, <2>2 DEF CrashWatch, MarkCrashed, taskVars, vars, hostVars, busVars,
                             ctlVars, auxVars, TaskType, BusType, CtlType, AuxType
<1>29. CASE SuspendDrain
  <2>1. RowType'
    <3>1. \A s \in Services : [row[s] EXCEPT !.status = "draining"] \in ServiceRows
      BY RowUpdates DEF RowType, StatusCheck
    <3> QED BY <1>29, <3>1 DEF SuspendDrain, RowType
  <2>2. CtlType'
    BY <1>29 DEF SuspendDrain, taskVars, hostVars, CtlType, TaskType, HostType
  <2> QED
    BY <1>29, <2>1, <2>2 DEF SuspendDrain, taskVars, hostVars, vars, busVars, ctlVars,
                             auxVars, TaskType, HostType, BusType, AuxType
<1>30. CASE SuspendFinalize
  <2>1. RowType'
    BY <1>30, RowUpdates DEF SuspendFinalize, taskVars, hostVars, RowType, TaskType,
                             StatusCheck
  <2>2. CtlType'
    BY <1>30 DEF SuspendFinalize, taskVars, hostVars, CtlType, TaskType, HostType
  <2> QED
    BY <1>30, <2>1, <2>2 DEF SuspendFinalize, taskVars, hostVars, vars, busVars, ctlVars,
                             auxVars, TaskType, HostType, BusType, AuxType
<1>31. ASSUME NEW s \in Services, SuspendKill(s) PROVE TypeOK'
  <2>1. HostType'
    BY <1>31 DEF SuspendKill, RemoveHandle, taskVars, HostType, TaskType, Handles, Pids,
                 NoPid, NoDev, Idle
  <2>2. CtlType'
    BY <1>31 DEF SuspendKill, RemoveHandle, taskVars, CtlType, TaskType, HostType
  <2>3. AuxType'
    BY <1>31, OwnedTap, RegistryOwns
    DEF SuspendKill, RemoveHandle, taskVars, AuxType, TaskType, HostType, Handles,
        Pids, NoPid, Owns, Registered, Guarded
  <2> QED
    BY <1>31, <2>1, <2>2, <2>3 DEF SuspendKill, RemoveHandle, taskVars, vars, hostVars,
                                   busVars, ctlVars, auxVars, RowType, TaskType, BusType
<1>32. ASSUME NEW i \in Indices, EbpfAudit(i) PROVE TypeOK'
  <2>1. RowType'
    BY ZenonT(40), <1>32, RowUpdates DEF EbpfAudit, Kill, MarkCrashed, taskVars, RowType, TaskType,
                             StatusCheck
  <2>2. HostType'
    BY <1>32 DEF EbpfAudit, Kill, MarkCrashed, taskVars, HostType, TaskType, Handles,
                 Pids, NoPid, NoDev, Idle
  <2>3. AuxType'
    <3>1. \A s \in Services : registry[s] # NoPid => tap[registry[s]] \in Indices
      BY OwnedTap, RegistryOwns
    <3> QED BY <1>32, <3>1 DEF EbpfAudit, AuxType
  <2> QED
    BY <1>32, <2>1, <2>2, <2>3 DEF EbpfAudit, Kill, MarkCrashed, taskVars, vars, hostVars,
                                   busVars, ctlVars, auxVars, TaskType, BusType, CtlType
<1>33. ASSUME NEW s \in Services, deploy_service(s) PROVE TypeOK'
  <2>1. RowType'
    BY <1>33, RowUpdates DEF deploy_service, Enqueue, taskVars, hostVars, RowType,
                             TaskType, StatusCheck
  <2>2. BusType'
    BY <1>33, EnqueueType DEF deploy_service, BusType
  <2> QED
    BY <1>33, <2>1, <2>2 DEF deploy_service, Enqueue, taskVars, hostVars, vars, busVars,
                             ctlVars, auxVars, TaskType, HostType, CtlType, AuxType
<1>34. ASSUME NEW s \in Services, stop_service(s) PROVE TypeOK'
  <2>1. RowType'
    BY <1>34, RowUpdates DEF stop_service, Enqueue, Purged, taskVars, hostVars, RowType,
                             TaskType, StatusCheck
  <2>2. BusType'
    BY <1>34, EnqueueType, PurgedType DEF stop_service, BusType
  <2> QED
    BY <1>34, <2>1, <2>2 DEF stop_service, Enqueue, Purged, taskVars, hostVars, vars,
                             busVars, ctlVars, auxVars, TaskType, HostType, CtlType,
                             AuxType
<1>35. ASSUME NEW s \in Services, DeleteRead(s) PROVE TypeOK'
  <2>1. CtlType'
    BY <1>35 DEF DeleteRead, taskVars, hostVars, CtlType, TaskType, HostType
  <2> QED
    BY <1>35, <2>1 DEF DeleteRead, taskVars, hostVars, vars, busVars, ctlVars, auxVars,
                       RowType, TaskType, HostType, BusType, AuxType
<1>36. ASSUME NEW s \in Services, DeleteCommit(s) PROVE TypeOK'
  <2>1. RowType'
    BY <1>36, RowUpdates DEF DeleteCommit, Enqueue, Purged, taskVars, hostVars, RowType,
                             TaskType, StatusCheck
  <2>2. BusType'
    BY <1>36, EnqueueType, PurgedType DEF DeleteCommit, BusType
  <2>3. CtlType'
    BY <1>36 DEF DeleteCommit, Enqueue, Purged, taskVars, hostVars, CtlType, TaskType,
                 HostType
  <2> QED
    BY <1>36, <2>1, <2>2, <2>3 DEF DeleteCommit, Enqueue, Purged, taskVars, hostVars,
                                   vars, busVars, ctlVars, auxVars, TaskType, HostType,
                                   AuxType
<1>37. ASSUME NEW s \in Services, RestartRead(s) PROVE TypeOK'
  <2>1. CtlType'
    BY <1>37 DEF RestartRead, taskVars, hostVars, CtlType, TaskType, HostType
  <2> QED
    BY <1>37, <2>1 DEF RestartRead, taskVars, hostVars, vars, busVars, ctlVars, auxVars,
                       RowType, TaskType, HostType, BusType, AuxType
<1>38. ASSUME NEW s \in Services, RestartCommit(s) PROVE TypeOK'
  <2>1. RowType'
    BY <1>38, RowUpdates DEF RestartCommit, Enqueue, taskVars, hostVars, RowType,
                             TaskType, StatusCheck
  <2>2. BusType'
    BY <1>38, EnqueueType DEF RestartCommit, BusType
  <2>3. CtlType'
    BY <1>38 DEF RestartCommit, Enqueue, taskVars, hostVars, CtlType, TaskType, HostType
  <2> QED
    BY <1>38, <2>1, <2>2, <2>3 DEF RestartCommit, Enqueue, taskVars, hostVars, vars,
                                   busVars, ctlVars, auxVars, TaskType, HostType, AuxType
<1>39. ASSUME NEW e \in Events, OutboxPublish(e) PROVE TypeOK'
  <2>1. BusType'
    BY <1>39, EventUpdates DEF OutboxPublish, taskVars, hostVars, BusType, TaskType,
                               HostType, EventStates, Handles, Pids, Events, NoPid
  <2> QED
    BY <1>39, <2>1 DEF OutboxPublish, taskVars, hostVars, vars, busVars, ctlVars, auxVars,
                       RowType, TaskType, HostType, CtlType, AuxType
<1>40. ASSUME NEW e \in Events, AckWaitExpires(e) PROVE TypeOK'
  <2>1. BusType'
    BY <1>40, EventUpdates DEF AckWaitExpires, taskVars, hostVars, BusType, TaskType,
                               HostType, EventStates, Handles, Pids, Events, NoPid
  <2> QED
    BY <1>40, <2>1 DEF AckWaitExpires, taskVars, hostVars, vars, busVars, ctlVars,
                       auxVars, RowType, TaskType, HostType, CtlType, AuxType
<1> QED
  BY <1>1, <1>2, <1>3, <1>4, <1>5, <1>6, <1>7, <1>8, <1>9, <1>10, <1>11, <1>12, <1>13,
     <1>14, <1>15, <1>16, <1>17, <1>18, <1>19, <1>20, <1>21, <1>22, <1>23, <1>24, <1>25,
     <1>26, <1>27, <1>28, <1>29, <1>30, <1>31, <1>32, <1>33, <1>34, <1>35, <1>36, <1>37,
     <1>38, <1>39, <1>40
  DEF Next, NodeNext, Attempt, Teardown, MainLoop, Background, Api, Bus, Restarts

-----------------------------------------------------------------------------
\* Handles that leave the registry, into a teardown or not, disturb no owner.
LEMMA HandlesLeave ==
  ASSUME TypeOK, OwnershipInv,
         UNCHANGED <<svc, tap, dropping, inUse>>,
         \A t \in Services : registry'[t] \in {registry[t], NoPid},
         \A a \in Pids :
           /\ step'[a] \in {"idle", "new", "alloc", "tap", "booted"} => step'[a] = step[a]
           /\ down'[a] = down[a] \/ (Registered(a) /\ ~Registered(a)')
  PROVE  OwnershipInv' /\ (TapExclusive => TapExclusive')
<1>1. \A a \in Pids : Registered(a)' => Registered(a)
  BY DEF Registered, Pids, NoPid
<1>2. OwnershipInv'
  <2>1. \A t \in Services : registry'[t] # NoPid => svc'[registry'[t]] = t
    BY DEF OwnershipInv
  <2> QED BY <1>1, <2>1 DEF OwnershipInv
<1>3. \A a \in Pids : Owns(a)' => Owns(a)
  BY <1>1 DEF Owns, Guarded
<1>4. TapExclusive => TapExclusive'
  BY <1>3 DEF TapExclusive
<1> QED BY <1>2, <1>4

\* registry.remove(service_id) takes the handle out of the registry for good.
LEMMA Removal ==
  ASSUME TypeOK, OwnershipInv, NEW s \in Services, NEW stage, RemoveHandle(s, stage)
  PROVE  /\ \A t \in Services : registry'[t] = IF t = s THEN NoPid ELSE registry[t]
         /\ \A a \in Pids :
              /\ Registered(a)' <=> Registered(a) /\ a # registry[s]
              /\ a # registry[s] => down'[a] = down[a]
              /\ a = registry[s] => Registered(a) /\ down'[a] = stage
<1>1. \A t \in Services : registry'[t] = IF t = s THEN NoPid ELSE registry[t]
  BY DEF RemoveHandle, TypeOK, HostType
<1>2. ASSUME NEW a \in Pids
      PROVE  Registered(a)' <=> Registered(a) /\ a # registry[s]
  <2>1. a # NoPid
    BY DEF Pids, NoPid
  <2>2. \A t \in Services : registry[t] = a => svc[a] = t
    BY <2>1 DEF OwnershipInv
  <2> QED BY <1>1, <2>1, <2>2 DEF Registered
<1>3. ASSUME NEW a \in Pids
      PROVE  /\ a # registry[s] => down'[a] = down[a]
             /\ a = registry[s] => Registered(a) /\ down'[a] = stage
  BY DEF RemoveHandle, Registered
<1> QED BY <1>1, <1>2, <1>3

\* Every step but a restart keeps the owners of TAP indices unambiguous and apart.
LEMMA OwnershipStep ==
  ASSUME TapAssumption, NodeAssumption, TypeOK, OwnershipInv, Next, ~Restarts
  PROVE  OwnershipInv' /\ (TapExclusive => TapExclusive')
<1> USE DEF TypeOK
<1>1. ASSUME NEW a \in Pids, allocate_tap_index(a)
      PROVE  OwnershipInv' /\ (TapExclusive => TapExclusive')
  <2>1. OwnershipInv'
    BY <1>1 DEF allocate_tap_index, Goto, IsSmallestFree, Free, vars, taskVars, hostVars,
                Owns, Guarded, Registered, TaskType, HostType, Handles, OwnershipInv,
                NoPid
  <2>2. TapExclusive => TapExclusive'
    BY <1>1 DEF allocate_tap_index, Goto, IsSmallestFree, Free, vars, taskVars, hostVars,
                Owns, Guarded, Registered, TaskType, HostType, Handles, OwnershipInv,
                TapExclusive, NoPid
  <2> QED BY <2>1, <2>2
<1>2. ASSUME NEW a \in Pids, BuildFails(a)
      PROVE  OwnershipInv' /\ (TapExclusive => TapExclusive')
  <2>1. OwnershipInv'
    BY <1>2 DEF BuildFails, FailGuarded, Goto, hostVars, vars, taskVars, Owns, Guarded,
                Registered, TaskType, HostType, Handles, OwnershipInv, NoPid
  <2>2. TapExclusive => TapExclusive'
    BY <1>2 DEF BuildFails, FailGuarded, Goto, hostVars, vars, taskVars, Owns, Guarded,
                Registered, TaskType, HostType, Handles, OwnershipInv, TapExclusive, NoPid
  <2> QED BY <2>1, <2>2
<1>3. ASSUME NEW a \in Pids, CreateTap(a)
      PROVE  OwnershipInv' /\ (TapExclusive => TapExclusive')
  <2>1. OwnershipInv'
    BY <1>3 DEF CreateTap, Goto, vars, taskVars, hostVars, Owns, Guarded, Registered,
                TaskType, HostType, Handles, OwnershipInv, NoPid
  <2>2. TapExclusive => TapExclusive'
    BY <1>3 DEF CreateTap, Goto, vars, taskVars, hostVars, Owns, Guarded, Registered,
                TaskType, HostType, Handles, OwnershipInv, TapExclusive, NoPid
  <2> QED BY <2>1, <2>2
<1>4. ASSUME NEW a \in Pids, CreateTapBusy(a)
      PROVE  OwnershipInv' /\ (TapExclusive => TapExclusive')
  <2>1. OwnershipInv'
    BY <1>4 DEF CreateTapBusy, FailGuarded, Goto, hostVars, vars, taskVars, Owns, Guarded,
                Registered, TaskType, HostType, Handles, OwnershipInv, NoPid
  <2>2. TapExclusive => TapExclusive'
    BY <1>4 DEF CreateTapBusy, FailGuarded, Goto, hostVars, vars, taskVars, Owns, Guarded,
                Registered, TaskType, HostType, Handles, OwnershipInv, TapExclusive, NoPid
  <2> QED BY <2>1, <2>2
<1>5. ASSUME NEW a \in Pids, Boot(a)
      PROVE  OwnershipInv' /\ (TapExclusive => TapExclusive')
  <2>1. OwnershipInv'
    BY <1>5 DEF Boot, Goto, vars, taskVars, hostVars, Owns, Guarded, Registered, TaskType,
                HostType, Handles, OwnershipInv, NoPid
  <2>2. TapExclusive => TapExclusive'
    BY <1>5 DEF Boot, Goto, vars, taskVars, hostVars, Owns, Guarded, Registered, TaskType,
                HostType, Handles, OwnershipInv, TapExclusive, NoPid
  <2> QED BY <2>1, <2>2
<1>6. ASSUME NEW a \in Pids, BootFails(a)
      PROVE  OwnershipInv' /\ (TapExclusive => TapExclusive')
  <2>1. OwnershipInv'
    BY <1>6 DEF BootFails, FailGuarded, Goto, vars, taskVars, hostVars, Owns, Guarded,
                Registered, TaskType, HostType, Handles, OwnershipInv, NoPid
  <2>2. TapExclusive => TapExclusive'
    BY <1>6 DEF BootFails, FailGuarded, Goto, vars, taskVars, hostVars, Owns, Guarded,
                Registered, TaskType, HostType, Handles, OwnershipInv, TapExclusive, NoPid
  <2> QED BY <2>1, <2>2
<1>7. ASSUME NEW a \in Pids, RegisterVm(a)
      PROVE  OwnershipInv' /\ (TapExclusive => TapExclusive')
  <2>1. OwnershipInv'
    BY <1>7 DEF RegisterVm, Goto, vars, taskVars, hostVars, Owns, Guarded, Registered,
                TaskType, HostType, Handles, OwnershipInv, NoPid
  <2>2. TapExclusive => TapExclusive'
    BY <1>7 DEF RegisterVm, Goto, vars, taskVars, hostVars, Owns, Guarded, Registered,
                TaskType, HostType, Handles, OwnershipInv, TapExclusive, NoPid
  <2> QED BY <2>1, <2>2
<1>8. ASSUME NEW a \in Pids, ProbeFails(a)
      PROVE  OwnershipInv' /\ (TapExclusive => TapExclusive')
  <2>1. OwnershipInv'
    BY <1>8 DEF ProbeFails, FailGuarded, Goto, vars, taskVars, hostVars, Owns, Guarded,
                Registered, TaskType, HostType, Handles, OwnershipInv, NoPid
  <2>2. TapExclusive => TapExclusive'
    BY <1>8 DEF ProbeFails, FailGuarded, Goto, vars, taskVars, hostVars, Owns, Guarded,
                Registered, TaskType, HostType, Handles, OwnershipInv, TapExclusive, NoPid
  <2> QED BY <2>1, <2>2
<1>9. ASSUME NEW a \in Pids, WriteRunning(a)
      PROVE  OwnershipInv' /\ (TapExclusive => TapExclusive')
  <2>1. OwnershipInv'
    BY <1>9 DEF WriteRunning, Goto, hostVars, vars, taskVars, Owns, Guarded, Registered,
                TaskType, HostType, Handles, OwnershipInv, NoPid
  <2>2. TapExclusive => TapExclusive'
    BY <1>9 DEF WriteRunning, Goto, hostVars, vars, taskVars, Owns, Guarded, Registered,
                TaskType, HostType, Handles, OwnershipInv, TapExclusive, NoPid
  <2> QED BY <2>1, <2>2
<1>10. ASSUME NEW a \in Pids, WriteFails(a)
      PROVE  OwnershipInv' /\ (TapExclusive => TapExclusive')
  BY <1>10, Removal, HandlesLeave DEF WriteFails, Goto, TaskType
<1>11. ASSUME NEW a \in Pids, WriteUndone(a)
      PROVE  OwnershipInv' /\ (TapExclusive => TapExclusive')
  <2>1. OwnershipInv'
    BY <1>11 DEF WriteUndone, Goto, hostVars, vars, taskVars, Owns, Guarded, Registered,
                 TaskType, HostType, Handles, OwnershipInv, NoPid
  <2>2. TapExclusive => TapExclusive'
    BY <1>11 DEF WriteUndone, Goto, hostVars, vars, taskVars, Owns, Guarded, Registered,
                 TaskType, HostType, Handles, OwnershipInv, TapExclusive, NoPid
  <2> QED BY <2>1, <2>2
<1>12. ASSUME NEW a \in Pids, AckProvisioned(a)
      PROVE  OwnershipInv' /\ (TapExclusive => TapExclusive')
  <2>1. OwnershipInv'
    BY <1>12 DEF AckProvisioned, Goto, hostVars, vars, taskVars, Owns, Guarded,
                 Registered, TaskType, HostType, Handles, OwnershipInv, NoPid
  <2>2. TapExclusive => TapExclusive'
    BY <1>12 DEF AckProvisioned, Goto, hostVars, vars, taskVars, Owns, Guarded,
                 Registered, TaskType, HostType, Handles, OwnershipInv, TapExclusive,
                 NoPid
  <2> QED BY <2>1, <2>2
<1>13. ASSUME NEW a \in Pids, rollback_provision(a)
      PROVE  OwnershipInv' /\ (TapExclusive => TapExclusive')
  BY <1>13, Removal, HandlesLeave DEF rollback_provision, Goto, TaskType
<1>14. ASSUME NEW a \in Pids, NakTransient(a)
      PROVE  OwnershipInv' /\ (TapExclusive => TapExclusive')
  <2>1. OwnershipInv'
    BY <1>14 DEF NakTransient, Goto, hostVars, vars, taskVars, Owns, Guarded, Registered,
                 TaskType, HostType, Handles, OwnershipInv, NoPid
  <2>2. TapExclusive => TapExclusive'
    BY <1>14 DEF NakTransient, Goto, hostVars, vars, taskVars, Owns, Guarded, Registered,
                 TaskType, HostType, Handles, OwnershipInv, TapExclusive, NoPid
  <2> QED BY <2>1, <2>2
<1>15. ASSUME NEW a \in Pids, AckPermanent(a)
      PROVE  OwnershipInv' /\ (TapExclusive => TapExclusive')
  <2>1. OwnershipInv'
    BY <1>15 DEF AckPermanent, Goto, hostVars, vars, taskVars, Owns, Guarded, Registered,
                 TaskType, HostType, Handles, OwnershipInv, NoPid
  <2>2. TapExclusive => TapExclusive'
    BY <1>15 DEF AckPermanent, Goto, hostVars, vars, taskVars, Owns, Guarded, Registered,
                 TaskType, HostType, Handles, OwnershipInv, TapExclusive, NoPid
  <2> QED BY <2>1, <2>2
<1>16. ASSUME NEW a \in Pids, TimeoutFires(a)
      PROVE  OwnershipInv' /\ (TapExclusive => TapExclusive')
  <2>1. OwnershipInv'
    BY <1>16 DEF TimeoutFires, Goto, Guarded, UndoOver, vars, taskVars, hostVars, Owns,
                 Registered, TaskType, HostType, Handles, OwnershipInv, NoPid
  <2>2. TapExclusive => TapExclusive'
    BY <1>16 DEF TimeoutFires, Goto, Guarded, UndoOver, vars, taskVars, hostVars, Owns,
                 Registered, TaskType, HostType, Handles, OwnershipInv, TapExclusive,
                 NoPid
  <2> QED BY <2>1, <2>2
<1>17. ASSUME NEW a \in Pids, ReleaseDropped(a)
      PROVE  OwnershipInv' /\ (TapExclusive => TapExclusive')
  <2>1. OwnershipInv'
    BY <1>17 DEF ReleaseDropped, vars, taskVars, hostVars, Owns, Guarded, Registered,
                 TaskType, HostType, Handles, OwnershipInv, NoPid
  <2>2. TapExclusive => TapExclusive'
    BY <1>17 DEF ReleaseDropped, vars, taskVars, hostVars, Owns, Guarded, Registered,
                 TaskType, HostType, Handles, OwnershipInv, TapExclusive, NoPid
  <2> QED BY <2>1, <2>2
<1>18. ASSUME NEW a \in Pids, TeardownRelease(a)
      PROVE  OwnershipInv' /\ (TapExclusive => TapExclusive')
  <2>1. OwnershipInv'
    BY <1>18 DEF TeardownRelease, taskVars, vars, hostVars, Owns, Guarded, Registered,
                 TaskType, HostType, Handles, OwnershipInv, NoPid
  <2>2. TapExclusive => TapExclusive'
    BY <1>18 DEF TeardownRelease, taskVars, vars, hostVars, Owns, Guarded, Registered,
                 TaskType, HostType, Handles, OwnershipInv, TapExclusive, NoPid
  <2> QED BY <2>1, <2>2
<1>19. ASSUME NEW a \in Pids, TeardownKill(a)
      PROVE  OwnershipInv' /\ (TapExclusive => TapExclusive')
  <2>1. OwnershipInv'
    BY <1>19 DEF TeardownKill, taskVars, vars, hostVars, Owns, Guarded, Registered,
                 TaskType, HostType, Handles, OwnershipInv, NoPid
  <2>2. TapExclusive => TapExclusive'
    BY <1>19 DEF TeardownKill, taskVars, vars, hostVars, Owns, Guarded, Registered,
                 TaskType, HostType, Handles, OwnershipInv, TapExclusive, NoPid
  <2> QED BY <2>1, <2>2
<1>20. ASSUME NEW a \in Pids, TeardownDelete(a)
      PROVE  OwnershipInv' /\ (TapExclusive => TapExclusive')
  <2>1. OwnershipInv'
    BY <1>20 DEF TeardownDelete, taskVars, vars, hostVars, Owns, Guarded, Registered,
                 TaskType, HostType, Handles, OwnershipInv, NoPid
  <2>2. TapExclusive => TapExclusive'
    BY <1>20 DEF TeardownDelete, taskVars, vars, hostVars, Owns, Guarded, Registered,
                 TaskType, HostType, Handles, OwnershipInv, TapExclusive, NoPid
  <2> QED BY <2>1, <2>2
<1>21. ASSUME NEW a \in Pids, StartTask(a)
      PROVE  OwnershipInv' /\ (TapExclusive => TapExclusive')
  <2>1. OwnershipInv'
    BY <1>21 DEF StartTask, Goto, hostVars, vars, taskVars, Owns, Guarded, Registered,
                 TaskType, HostType, Handles, OwnershipInv, NoPid
  <2>2. TapExclusive => TapExclusive'
    BY <1>21 DEF StartTask, Goto, hostVars, vars, taskVars, Owns, Guarded, Registered,
                 TaskType, HostType, Handles, OwnershipInv, TapExclusive, NoPid
  <2> QED BY <2>1, <2>2
<1>22. ASSUME NEW e \in Events, ReceiveProvision(e)
      PROVE  OwnershipInv' /\ (TapExclusive => TapExclusive')
  <2>1. OwnershipInv'
    BY <1>22 DEF ReceiveProvision, taskVars, hostVars, vars, Owns, Guarded, Registered,
                 TaskType, HostType, Handles, OwnershipInv, NoPid
  <2>2. TapExclusive => TapExclusive'
    BY <1>22 DEF ReceiveProvision, taskVars, hostVars, vars, Owns, Guarded, Registered,
                 TaskType, HostType, Handles, OwnershipInv, TapExclusive, NoPid
  <2> QED BY <2>1, <2>2
<1>23. ASSUME NEW e \in Events, RejectInMaintenance(e)
      PROVE  OwnershipInv' /\ (TapExclusive => TapExclusive')
  <2>1. OwnershipInv'
    BY <1>23 DEF RejectInMaintenance, taskVars, hostVars, vars, Owns, Guarded, Registered,
                 TaskType, HostType, Handles, OwnershipInv, NoPid
  <2>2. TapExclusive => TapExclusive'
    BY <1>23 DEF RejectInMaintenance, taskVars, hostVars, vars, Owns, Guarded, Registered,
                 TaskType, HostType, Handles, OwnershipInv, TapExclusive, NoPid
  <2> QED BY <2>1, <2>2
<1>24. ASSUME NEW e \in Events, ReceiveDeprovision(e)
      PROVE  OwnershipInv' /\ (TapExclusive => TapExclusive')
  <2>1. OwnershipInv'
    BY <1>24 DEF ReceiveDeprovision, taskVars, hostVars, vars, Owns, Guarded, Registered,
                 TaskType, HostType, Handles, OwnershipInv, NoPid
  <2>2. TapExclusive => TapExclusive'
    BY <1>24 DEF ReceiveDeprovision, taskVars, hostVars, vars, Owns, Guarded, Registered,
                 TaskType, HostType, Handles, OwnershipInv, TapExclusive, NoPid
  <2> QED BY <2>1, <2>2
<1>25. ASSUME NEW e \in Events, HandleDeprovision(e)
      PROVE  OwnershipInv' /\ (TapExclusive => TapExclusive')
  BY <1>25, Removal, HandlesLeave, EventUpdates DEF HandleDeprovision, BusType, taskVars
<1>26. ASSUME NEW e \in Events, AckDeprovision(e)
      PROVE  OwnershipInv' /\ (TapExclusive => TapExclusive')
  <2>1. OwnershipInv'
    BY <1>26 DEF AckDeprovision, NoJob, taskVars, hostVars, vars, Owns, Guarded,
                 Registered, TaskType, HostType, Handles, OwnershipInv, NoPid
  <2>2. TapExclusive => TapExclusive'
    BY <1>26 DEF AckDeprovision, NoJob, taskVars, hostVars, vars, Owns, Guarded,
                 Registered, TaskType, HostType, Handles, OwnershipInv, TapExclusive,
                 NoPid
  <2> QED BY <2>1, <2>2
<1>27. ASSUME NEW a \in Pids, VmExits(a)
      PROVE  OwnershipInv' /\ (TapExclusive => TapExclusive')
  <2>1. OwnershipInv'
    BY <1>27 DEF VmExits, taskVars, vars, hostVars, Owns, Guarded, Registered, TaskType,
                 HostType, Handles, OwnershipInv, NoPid
  <2>2. TapExclusive => TapExclusive'
    BY <1>27 DEF VmExits, taskVars, vars, hostVars, Owns, Guarded, Registered, TaskType,
                 HostType, Handles, OwnershipInv, TapExclusive, NoPid
  <2> QED BY <2>1, <2>2
<1>28. CASE CrashWatch
  <2>1. \A t \in Services : registry'[t] \in {registry[t], NoPid}
    BY <1>28 DEF CrashWatch
  <2>2. ASSUME NEW a \in Pids
        PROVE  down'[a] = down[a] \/ (Registered(a) /\ ~Registered(a)')
    <3>1. a # NoPid
      BY DEF Pids, NoPid
    <3>2. \A s, t \in Services : registry[s] = a /\ registry[t] = a => s = t
      BY <3>1 DEF OwnershipInv
    <3> QED BY <1>28, <3>1, <3>2 DEF CrashWatch, Registered
  <2> QED BY <1>28, <2>1, <2>2, HandlesLeave DEF CrashWatch, taskVars
<1>29. CASE SuspendDrain
  <2>1. OwnershipInv'
    BY <1>29 DEF SuspendDrain, taskVars, hostVars, vars, Owns, Guarded, Registered,
                 TaskType, HostType, Handles, OwnershipInv, NoPid
  <2>2. TapExclusive => TapExclusive'
    BY <1>29 DEF SuspendDrain, taskVars, hostVars, vars, Owns, Guarded, Registered,
                 TaskType, HostType, Handles, OwnershipInv, TapExclusive, NoPid
  <2> QED BY <2>1, <2>2
<1>30. CASE SuspendFinalize
  <2>1. OwnershipInv'
    BY <1>30 DEF SuspendFinalize, taskVars, hostVars, vars, Owns, Guarded, Registered,
                 TaskType, HostType, Handles, OwnershipInv, NoPid
  <2>2. TapExclusive => TapExclusive'
    BY ZenonT(40), <1>30 DEF SuspendFinalize, taskVars, hostVars, vars, Owns, Guarded, Registered,
                 TaskType, HostType, Handles, OwnershipInv, TapExclusive, NoPid
  <2> QED BY <2>1, <2>2
<1>31. ASSUME NEW s \in Services, SuspendKill(s)
      PROVE  OwnershipInv' /\ (TapExclusive => TapExclusive')
  BY <1>31, Removal, HandlesLeave DEF SuspendKill, taskVars
<1>32. ASSUME NEW i \in Indices, EbpfAudit(i)
      PROVE  OwnershipInv' /\ (TapExclusive => TapExclusive')
  <2>1. \A t \in Services : registry'[t] \in {registry[t], NoPid}
    BY <1>32 DEF EbpfAudit, HostType
  <2>2. UNCHANGED <<svc, tap, dropping, inUse, step, down>>
    BY <1>32 DEF EbpfAudit, taskVars
  <2> QED BY <2>1, <2>2, HandlesLeave
<1>33. ASSUME NEW s \in Services, deploy_service(s)
      PROVE  OwnershipInv' /\ (TapExclusive => TapExclusive')
  <2>1. OwnershipInv'
    BY <1>33 DEF deploy_service, taskVars, hostVars, vars, Owns, Guarded, Registered,
                 TaskType, HostType, Handles, OwnershipInv, NoPid
  <2>2. TapExclusive => TapExclusive'
    BY <1>33 DEF deploy_service, taskVars, hostVars, vars, Owns, Guarded, Registered,
                 TaskType, HostType, Handles, OwnershipInv, TapExclusive, NoPid
  <2> QED BY <2>1, <2>2
<1>34. ASSUME NEW s \in Services, stop_service(s)
      PROVE  OwnershipInv' /\ (TapExclusive => TapExclusive')
  <2>1. OwnershipInv'
    BY <1>34 DEF stop_service, taskVars, hostVars, vars, Owns, Guarded, Registered,
                 TaskType, HostType, Handles, OwnershipInv, NoPid
  <2>2. TapExclusive => TapExclusive'
    BY <1>34 DEF stop_service, taskVars, hostVars, vars, Owns, Guarded, Registered,
                 TaskType, HostType, Handles, OwnershipInv, TapExclusive, NoPid
  <2> QED BY <2>1, <2>2
<1>35. ASSUME NEW s \in Services, DeleteRead(s)
      PROVE  OwnershipInv' /\ (TapExclusive => TapExclusive')
  <2>1. OwnershipInv'
    BY <1>35 DEF DeleteRead, taskVars, hostVars, vars, Owns, Guarded, Registered,
                 TaskType, HostType, Handles, OwnershipInv, NoPid
  <2>2. TapExclusive => TapExclusive'
    BY <1>35 DEF DeleteRead, taskVars, hostVars, vars, Owns, Guarded, Registered,
                 TaskType, HostType, Handles, OwnershipInv, TapExclusive, NoPid
  <2> QED BY <2>1, <2>2
<1>36. ASSUME NEW s \in Services, DeleteCommit(s)
      PROVE  OwnershipInv' /\ (TapExclusive => TapExclusive')
  <2>1. OwnershipInv'
    BY <1>36 DEF DeleteCommit, taskVars, hostVars, vars, Owns, Guarded, Registered,
                 TaskType, HostType, Handles, OwnershipInv, NoPid
  <2>2. TapExclusive => TapExclusive'
    BY <1>36 DEF DeleteCommit, taskVars, hostVars, vars, Owns, Guarded, Registered,
                 TaskType, HostType, Handles, OwnershipInv, TapExclusive, NoPid
  <2> QED BY <2>1, <2>2
<1>37. ASSUME NEW s \in Services, RestartRead(s)
      PROVE  OwnershipInv' /\ (TapExclusive => TapExclusive')
  <2>1. OwnershipInv'
    BY <1>37 DEF RestartRead, taskVars, hostVars, vars, Owns, Guarded, Registered,
                 TaskType, HostType, Handles, OwnershipInv, NoPid
  <2>2. TapExclusive => TapExclusive'
    BY <1>37 DEF RestartRead, taskVars, hostVars, vars, Owns, Guarded, Registered,
                 TaskType, HostType, Handles, OwnershipInv, TapExclusive, NoPid
  <2> QED BY <2>1, <2>2
<1>38. ASSUME NEW s \in Services, RestartCommit(s)
      PROVE  OwnershipInv' /\ (TapExclusive => TapExclusive')
  <2>1. OwnershipInv'
    BY <1>38 DEF RestartCommit, taskVars, hostVars, vars, Owns, Guarded, Registered,
                 TaskType, HostType, Handles, OwnershipInv, NoPid
  <2>2. TapExclusive => TapExclusive'
    BY <1>38 DEF RestartCommit, taskVars, hostVars, vars, Owns, Guarded, Registered,
                 TaskType, HostType, Handles, OwnershipInv, TapExclusive, NoPid
  <2> QED BY <2>1, <2>2
<1>39. ASSUME NEW e \in Events, OutboxPublish(e)
      PROVE  OwnershipInv' /\ (TapExclusive => TapExclusive')
  <2>1. OwnershipInv'
    BY <1>39 DEF OutboxPublish, taskVars, hostVars, vars, Owns, Guarded, Registered,
                 TaskType, HostType, Handles, OwnershipInv, NoPid
  <2>2. TapExclusive => TapExclusive'
    BY <1>39 DEF OutboxPublish, taskVars, hostVars, vars, Owns, Guarded, Registered,
                 TaskType, HostType, Handles, OwnershipInv, TapExclusive, NoPid
  <2> QED BY <2>1, <2>2
<1>40. ASSUME NEW e \in Events, AckWaitExpires(e)
      PROVE  OwnershipInv' /\ (TapExclusive => TapExclusive')
  <2>1. OwnershipInv'
    BY <1>40 DEF AckWaitExpires, taskVars, hostVars, vars, Owns, Guarded, Registered,
                 TaskType, HostType, Handles, OwnershipInv, NoPid
  <2>2. TapExclusive => TapExclusive'
    BY <1>40 DEF AckWaitExpires, taskVars, hostVars, vars, Owns, Guarded, Registered,
                 TaskType, HostType, Handles, OwnershipInv, TapExclusive, NoPid
  <2> QED BY <2>1, <2>2
<1> QED
  BY <1>1, <1>2, <1>3, <1>4, <1>5, <1>6, <1>7, <1>8, <1>9, <1>10, <1>11, <1>12, <1>13,
     <1>14, <1>15, <1>16, <1>17, <1>18, <1>19, <1>20, <1>21, <1>22, <1>23, <1>24, <1>25,
     <1>26, <1>27, <1>28, <1>29, <1>30, <1>31, <1>32, <1>33, <1>34, <1>35, <1>36, <1>37,
     <1>38, <1>39, <1>40
  DEF Next, NodeNext, Attempt, Teardown, MainLoop, Background, Api, Bus, Restarts

-----------------------------------------------------------------------------
\* An index stays accounted for while each of its owners keeps it, hands it
\* back or is recorded as having forgotten it.
LEMMA IndexKept ==
  ASSUME IndexAccounted, tap' = tap, inUse' \subseteq inUse, leaked \subseteq leaked',
         \A b \in Pids : Owns(b) => \/ Owns(b)' \/ tap[b] \in leaked'
                                   \/ tap[b] \notin inUse'
  PROVE  IndexAccounted'
BY DEF IndexAccounted

\* Every step but a restart keeps every index and every process accounted for.
LEMMA AccountStep ==
  ASSUME TapAssumption, NodeAssumption, TypeOK, OwnershipInv, KilledInv,
         IndexAccounted, LiveAccounted, Next, ~Restarts
  PROVE  KilledInv' /\ IndexAccounted' /\ LiveAccounted'
<1> USE DEF TypeOK
<1>1. ASSUME NEW a \in Pids, allocate_tap_index(a)
      PROVE  KilledInv' /\ IndexAccounted' /\ LiveAccounted'
  <2>1. KilledInv'
    BY <1>1 DEF allocate_tap_index, Goto, IsSmallestFree, Free, vars, taskVars, hostVars,
                auxVars, ctlVars, Registered, TaskType, HostType, Handles, OwnershipInv,
                KilledInv, NoPid
  <2>2. IndexAccounted'
    BY <1>1 DEF allocate_tap_index, Goto, IsSmallestFree, Free, vars, taskVars, hostVars,
                auxVars, ctlVars, Registered, TaskType, HostType, Handles, Owns, Guarded,
                OwnershipInv, IndexAccounted, NoPid
  <2>3. LiveAccounted'
    BY <1>1 DEF allocate_tap_index, Goto, IsSmallestFree, Free, vars, taskVars, hostVars,
                auxVars, ctlVars, Registered, TaskType, HostType, Handles, OwnershipInv,
                KilledInv, LiveAccounted, NoPid
  <2> QED BY <2>1, <2>2, <2>3
<1>2. ASSUME NEW a \in Pids, BuildFails(a)
      PROVE  KilledInv' /\ IndexAccounted' /\ LiveAccounted'
  <2>1. KilledInv'
    BY <1>2 DEF BuildFails, FailGuarded, Goto, hostVars, vars, taskVars, auxVars, ctlVars,
                Registered, TaskType, HostType, Handles, OwnershipInv, KilledInv, NoPid
  <2>2. IndexAccounted'
    BY <1>2 DEF BuildFails, FailGuarded, Goto, hostVars, vars, taskVars, auxVars, ctlVars,
                Registered, TaskType, HostType, Handles, Owns, Guarded, OwnershipInv,
                IndexAccounted, NoPid
  <2>3. LiveAccounted'
    BY <1>2 DEF BuildFails, FailGuarded, Goto, hostVars, vars, taskVars, auxVars, ctlVars,
                Registered, TaskType, HostType, Handles, OwnershipInv, KilledInv,
                LiveAccounted, NoPid
  <2> QED BY <2>1, <2>2, <2>3
<1>3. ASSUME NEW a \in Pids, CreateTap(a)
      PROVE  KilledInv' /\ IndexAccounted' /\ LiveAccounted'
  <2>1. KilledInv'
    BY <1>3 DEF CreateTap, Goto, vars, taskVars, hostVars, auxVars, ctlVars, Registered,
                TaskType, HostType, Handles, OwnershipInv, KilledInv, NoPid
  <2>2. IndexAccounted'
    BY <1>3 DEF CreateTap, Goto, vars, taskVars, hostVars, auxVars, ctlVars, Registered,
                TaskType, HostType, Handles, Owns, Guarded, OwnershipInv, IndexAccounted,
                NoPid
  <2>3. LiveAccounted'
    BY <1>3 DEF CreateTap, Goto, vars, taskVars, hostVars, auxVars, ctlVars, Registered,
                TaskType, HostType, Handles, OwnershipInv, KilledInv, LiveAccounted, NoPid
  <2> QED BY <2>1, <2>2, <2>3
<1>4. ASSUME NEW a \in Pids, CreateTapBusy(a)
      PROVE  KilledInv' /\ IndexAccounted' /\ LiveAccounted'
  <2>1. KilledInv'
    BY <1>4 DEF CreateTapBusy, FailGuarded, Goto, hostVars, vars, taskVars, auxVars,
                ctlVars, Registered, TaskType, HostType, Handles, OwnershipInv, KilledInv,
                NoPid
  <2>2. IndexAccounted'
    BY <1>4 DEF CreateTapBusy, FailGuarded, Goto, hostVars, vars, taskVars, auxVars,
                ctlVars, Registered, TaskType, HostType, Handles, Owns, Guarded,
                OwnershipInv, IndexAccounted, NoPid
  <2>3. LiveAccounted'
    BY <1>4 DEF CreateTapBusy, FailGuarded, Goto, hostVars, vars, taskVars, auxVars,
                ctlVars, Registered, TaskType, HostType, Handles, OwnershipInv, KilledInv,
                LiveAccounted, NoPid
  <2> QED BY <2>1, <2>2, <2>3
<1>5. ASSUME NEW a \in Pids, Boot(a)
      PROVE  KilledInv' /\ IndexAccounted' /\ LiveAccounted'
  <2>1. KilledInv'
    BY <1>5 DEF Boot, Goto, vars, taskVars, hostVars, auxVars, ctlVars, Registered,
                TaskType, HostType, Handles, OwnershipInv, KilledInv, NoPid
  <2>2. IndexAccounted'
    BY <1>5 DEF Boot, Goto, vars, taskVars, hostVars, auxVars, ctlVars, Registered,
                TaskType, HostType, Handles, Owns, Guarded, OwnershipInv, IndexAccounted,
                NoPid
  <2>3. LiveAccounted'
    BY <1>5 DEF Boot, Goto, vars, taskVars, hostVars, auxVars, ctlVars, Registered,
                TaskType, HostType, Handles, OwnershipInv, KilledInv, LiveAccounted, NoPid
  <2> QED BY <2>1, <2>2, <2>3
<1>6. ASSUME NEW a \in Pids, BootFails(a)
      PROVE  KilledInv' /\ IndexAccounted' /\ LiveAccounted'
  <2>1. KilledInv'
    BY <1>6 DEF BootFails, FailGuarded, Goto, vars, taskVars, hostVars, auxVars, ctlVars,
                Registered, TaskType, HostType, Handles, OwnershipInv, KilledInv, NoPid
  <2>2. IndexAccounted'
    BY <1>6 DEF BootFails, FailGuarded, Goto, vars, taskVars, hostVars, auxVars, ctlVars,
                Registered, TaskType, HostType, Handles, Owns, Guarded, OwnershipInv,
                IndexAccounted, NoPid
  <2>3. LiveAccounted'
    BY <1>6 DEF BootFails, FailGuarded, Goto, vars, taskVars, hostVars, auxVars, ctlVars,
                Registered, TaskType, HostType, Handles, OwnershipInv, KilledInv,
                LiveAccounted, NoPid
  <2> QED BY <2>1, <2>2, <2>3
<1>7. ASSUME NEW a \in Pids, RegisterVm(a)
      PROVE  KilledInv' /\ IndexAccounted' /\ LiveAccounted'
  <2>1. KilledInv'
    BY <1>7 DEF RegisterVm, Goto, vars, taskVars, hostVars, auxVars, ctlVars, Registered,
                TaskType, HostType, Handles, OwnershipInv, KilledInv, NoPid
  <2>2. IndexAccounted'
    <3> DEFINE old == registry[svc[a]]
    <3>1. old # NoPid => tap[old] \in leaked'
      BY <1>7 DEF RegisterVm
    <3>2. leaked \subseteq leaked'
      BY <1>7 DEF RegisterVm, auxVars
    <3>3. ASSUME NEW b \in Pids, Owns(b), b # old PROVE Owns(b)'
      BY <1>7, <3>3 DEF RegisterVm, Goto, Registered, TaskType, HostType, Owns, Guarded
    <3>4. \A b \in Pids : b = old => old # NoPid
      BY DEF NoPid, Pids
    <3> QED BY <1>7, <3>1, <3>2, <3>3, <3>4, IndexKept DEF RegisterVm
  <2>3. LiveAccounted'
    <3> DEFINE old == registry[svc[a]]
    <3>1. \A b \in Pids : b = old => b \in orphans'
      BY <1>7 DEF RegisterVm, NoPid, Pids
    <3>2. orphans \subseteq orphans'
      BY <1>7 DEF RegisterVm, auxVars
    <3>3. ASSUME NEW b \in Pids, Registered(b), b # old PROVE Registered(b)'
      BY <1>7, <3>3 DEF RegisterVm, Registered, TaskType, HostType
    <3>4. Registered(a)'
      BY <1>7 DEF RegisterVm, Registered, TaskType, HostType
    <3>5. \A b \in Pids : step[b] = "booted" => step'[b] = "booted" \/ b = a
      BY <1>7 DEF RegisterVm, Goto, TaskType
    <3>6. live' = live /\ down' = down /\ up' = up /\ live \subseteq Pids
      BY <1>7 DEF RegisterVm, HostType, ctlVars
    <3> QED BY <3>1, <3>2, <3>3, <3>4, <3>5, <3>6 DEF LiveAccounted
  <2> QED BY <2>1, <2>2, <2>3
<1>8. ASSUME NEW a \in Pids, ProbeFails(a)
      PROVE  KilledInv' /\ IndexAccounted' /\ LiveAccounted'
  <2>1. KilledInv'
    BY <1>8 DEF ProbeFails, FailGuarded, Goto, vars, taskVars, hostVars, auxVars, ctlVars,
                Registered, TaskType, HostType, Handles, OwnershipInv, KilledInv, NoPid
  <2>2. IndexAccounted'
    BY <1>8 DEF ProbeFails, FailGuarded, Goto, vars, taskVars, hostVars, auxVars, ctlVars,
                Registered, TaskType, HostType, Handles, Owns, Guarded, OwnershipInv,
                IndexAccounted, NoPid
  <2>3. LiveAccounted'
    BY <1>8 DEF ProbeFails, FailGuarded, Goto, vars, taskVars, hostVars, auxVars, ctlVars,
                Registered, TaskType, HostType, Handles, OwnershipInv, KilledInv,
                LiveAccounted, NoPid
  <2> QED BY <2>1, <2>2, <2>3
<1>9. ASSUME NEW a \in Pids, WriteRunning(a)
      PROVE  KilledInv' /\ IndexAccounted' /\ LiveAccounted'
  <2>1. KilledInv'
    BY <1>9 DEF WriteRunning, Goto, hostVars, vars, taskVars, auxVars, ctlVars,
                Registered, TaskType, HostType, Handles, OwnershipInv, KilledInv, NoPid
  <2>2. IndexAccounted'
    BY <1>9 DEF WriteRunning, Goto, hostVars, vars, taskVars, auxVars, ctlVars,
                Registered, TaskType, HostType, Handles, Owns, Guarded, OwnershipInv,
                IndexAccounted, NoPid
  <2>3. LiveAccounted'
    BY <1>9 DEF WriteRunning, Goto, hostVars, vars, taskVars, auxVars, ctlVars,
                Registered, TaskType, HostType, Handles, OwnershipInv, KilledInv,
                LiveAccounted, NoPid
  <2> QED BY <2>1, <2>2, <2>3
<1>10. ASSUME NEW a \in Pids, WriteFails(a)
      PROVE  KilledInv' /\ IndexAccounted' /\ LiveAccounted'
  <2>1. KilledInv'
    BY <1>10 DEF WriteFails, Goto, RemoveHandle, Kill, vars, taskVars, hostVars, auxVars,
                 ctlVars, Registered, TaskType, HostType, Handles, OwnershipInv,
                 KilledInv, NoPid
  <2>2. IndexAccounted'
    BY <1>10 DEF WriteFails, Goto, RemoveHandle, Kill, vars, taskVars, hostVars, auxVars,
                 ctlVars, Registered, TaskType, HostType, Handles, Owns, Guarded,
                 OwnershipInv, IndexAccounted, NoPid
  <2>3. LiveAccounted'
    BY <1>10 DEF WriteFails, Goto, RemoveHandle, Kill, vars, taskVars, hostVars, auxVars,
                 ctlVars, Registered, TaskType, HostType, Handles, OwnershipInv,
                 KilledInv, LiveAccounted, NoPid
  <2> QED BY <2>1, <2>2, <2>3
<1>11. ASSUME NEW a \in Pids, WriteUndone(a)
      PROVE  KilledInv' /\ IndexAccounted' /\ LiveAccounted'
  <2>1. KilledInv'
    BY <1>11 DEF WriteUndone, Goto, hostVars, vars, taskVars, auxVars, ctlVars,
                 Registered, TaskType, HostType, Handles, OwnershipInv, KilledInv, NoPid
  <2>2. IndexAccounted'
    BY <1>11 DEF WriteUndone, Goto, hostVars, vars, taskVars, auxVars, ctlVars,
                 Registered, TaskType, HostType, Handles, Owns, Guarded, OwnershipInv,
                 IndexAccounted, NoPid
  <2>3. LiveAccounted'
    BY <1>11 DEF WriteUndone, Goto, hostVars, vars, taskVars, auxVars, ctlVars,
                 Registered, TaskType, HostType, Handles, OwnershipInv, KilledInv,
                 LiveAccounted, NoPid
  <2> QED BY <2>1, <2>2, <2>3
<1>12. ASSUME NEW a \in Pids, AckProvisioned(a)
      PROVE  KilledInv' /\ IndexAccounted' /\ LiveAccounted'
  <2>1. KilledInv'
    BY <1>12 DEF AckProvisioned, Goto, hostVars, vars, taskVars, auxVars, ctlVars,
                 Registered, TaskType, HostType, Handles, OwnershipInv, KilledInv, NoPid
  <2>2. IndexAccounted'
    BY <1>12 DEF AckProvisioned, Goto, hostVars, vars, taskVars, auxVars, ctlVars,
                 Registered, TaskType, HostType, Handles, Owns, Guarded, OwnershipInv,
                 IndexAccounted, NoPid
  <2>3. LiveAccounted'
    BY <1>12 DEF AckProvisioned, Goto, hostVars, vars, taskVars, auxVars, ctlVars,
                 Registered, TaskType, HostType, Handles, OwnershipInv, KilledInv,
                 LiveAccounted, NoPid
  <2> QED BY <2>1, <2>2, <2>3
<1>13. ASSUME NEW a \in Pids, rollback_provision(a)
      PROVE  KilledInv' /\ IndexAccounted' /\ LiveAccounted'
  <2>1. KilledInv'
    BY <1>13 DEF rollback_provision, Goto, RemoveHandle, Kill, vars, taskVars, hostVars,
                 auxVars, ctlVars, Registered, TaskType, HostType, Handles, OwnershipInv,
                 KilledInv, NoPid
  <2>2. IndexAccounted'
    BY <1>13 DEF rollback_provision, Goto, RemoveHandle, Kill, vars, taskVars, hostVars,
                 auxVars, ctlVars, Registered, TaskType, HostType, Handles, Owns, Guarded,
                 OwnershipInv, IndexAccounted, NoPid
  <2>3. LiveAccounted'
    BY <1>13 DEF rollback_provision, Goto, RemoveHandle, Kill, vars, taskVars, hostVars,
                 auxVars, ctlVars, Registered, TaskType, HostType, Handles, OwnershipInv,
                 KilledInv, LiveAccounted, NoPid
  <2> QED BY <2>1, <2>2, <2>3
<1>14. ASSUME NEW a \in Pids, NakTransient(a)
      PROVE  KilledInv' /\ IndexAccounted' /\ LiveAccounted'
  <2>1. KilledInv'
    BY <1>14 DEF NakTransient, Goto, hostVars, vars, taskVars, auxVars, ctlVars,
                 Registered, TaskType, HostType, Handles, OwnershipInv, KilledInv, NoPid
  <2>2. IndexAccounted'
    BY <1>14 DEF NakTransient, Goto, hostVars, vars, taskVars, auxVars, ctlVars,
                 Registered, TaskType, HostType, Handles, Owns, Guarded, OwnershipInv,
                 IndexAccounted, NoPid
  <2>3. LiveAccounted'
    BY <1>14 DEF NakTransient, Goto, hostVars, vars, taskVars, auxVars, ctlVars,
                 Registered, TaskType, HostType, Handles, OwnershipInv, KilledInv,
                 LiveAccounted, NoPid
  <2> QED BY <2>1, <2>2, <2>3
<1>15. ASSUME NEW a \in Pids, AckPermanent(a)
      PROVE  KilledInv' /\ IndexAccounted' /\ LiveAccounted'
  <2>1. KilledInv'
    BY <1>15 DEF AckPermanent, Goto, hostVars, vars, taskVars, auxVars, ctlVars,
                 Registered, TaskType, HostType, Handles, OwnershipInv, KilledInv, NoPid
  <2>2. IndexAccounted'
    BY <1>15 DEF AckPermanent, Goto, hostVars, vars, taskVars, auxVars, ctlVars,
                 Registered, TaskType, HostType, Handles, Owns, Guarded, OwnershipInv,
                 IndexAccounted, NoPid
  <2>3. LiveAccounted'
    BY <1>15 DEF AckPermanent, Goto, hostVars, vars, taskVars, auxVars, ctlVars,
                 Registered, TaskType, HostType, Handles, OwnershipInv, KilledInv,
                 LiveAccounted, NoPid
  <2> QED BY <2>1, <2>2, <2>3
<1>16. ASSUME NEW a \in Pids, TimeoutFires(a)
      PROVE  KilledInv' /\ IndexAccounted' /\ LiveAccounted'
  <2>1. KilledInv'
    BY <1>16 DEF TimeoutFires, Goto, Guarded, UndoOver, vars, taskVars, hostVars, auxVars,
                 ctlVars, Registered, TaskType, HostType, Handles, OwnershipInv,
                 KilledInv, NoPid
  <2>2. IndexAccounted'
    <3> DEFINE cut == IF step[a] = "undoing" /\ ~UndoOver(a) THEN undo[a] ELSE NoPid
    <3>1. ASSUME NEW b \in Pids, Owns(b), b = cut, down[b] = "release"
          PROVE  tap[b] \in leaked'
      BY <1>16, <3>1 DEF TimeoutFires, NoPid, Pids
    <3>2. leaked \subseteq leaked'
      BY <1>16 DEF TimeoutFires
    <3>3. ASSUME NEW b \in Pids, Guarded(b) PROVE Owns(b)'
      BY <1>16, <3>3 DEF TimeoutFires, Goto, Owns, Guarded, TaskType
    <3>4. ASSUME NEW b \in Pids, b \in dropping PROVE Owns(b)'
      BY <1>16, <3>4 DEF TimeoutFires, Owns
    <3>5. ASSUME NEW b \in Pids, Registered(b) PROVE Owns(b)'
      BY <1>16, <3>5 DEF TimeoutFires, Owns, Registered
    <3>6. ASSUME NEW b \in Pids, down[b] = "release", b # cut PROVE Owns(b)'
      BY <1>16, <3>6 DEF TimeoutFires, Owns
    <3>7. \A b \in Pids : Owns(b) => Owns(b)' \/ tap[b] \in leaked'
      BY <3>1, <3>3, <3>4, <3>5, <3>6 DEF Owns
    <3> QED BY <1>16, <3>2, <3>7, IndexKept DEF TimeoutFires
  <2>3. LiveAccounted'
    <3> DEFINE cut == IF step[a] = "undoing" /\ ~UndoOver(a) THEN undo[a] ELSE NoPid
    <3>1. \A b \in live : b # cut
      BY DEF KilledInv, HostType, NoPid, Pids
    <3>2. \A b \in live : down'[b] = down[b]
      BY <1>16, <3>1 DEF TimeoutFires, HostType
    <3>3. \A b \in Pids : step[b] = "booted" => step'[b] = "booted" \/ b \in orphans'
      BY <1>16 DEF TimeoutFires, Goto, TaskType
    <3>4. /\ orphans \subseteq orphans' /\ live \subseteq Pids
          /\ UNCHANGED <<registry, live, up>>
      BY <1>16 DEF TimeoutFires, HostType, ctlVars
    <3>5. \A b \in Pids : Registered(b) <=> Registered(b)'
      BY <3>4 DEF Registered
    <3> QED BY <3>2, <3>3, <3>4, <3>5 DEF LiveAccounted
  <2> QED BY <2>1, <2>2, <2>3
<1>17. ASSUME NEW a \in Pids, ReleaseDropped(a)
      PROVE  KilledInv' /\ IndexAccounted' /\ LiveAccounted'
  <2>1. KilledInv'
    BY <1>17 DEF ReleaseDropped, vars, taskVars, hostVars, auxVars, ctlVars, Registered,
                 TaskType, HostType, Handles, OwnershipInv, KilledInv, NoPid
  <2>2. IndexAccounted'
    BY <1>17 DEF ReleaseDropped, vars, taskVars, hostVars, auxVars, ctlVars, Registered,
                 TaskType, HostType, Handles, Owns, Guarded, OwnershipInv, IndexAccounted,
                 NoPid
  <2>3. LiveAccounted'
    BY <1>17 DEF ReleaseDropped, vars, taskVars, hostVars, auxVars, ctlVars, Registered,
                 TaskType, HostType, Handles, OwnershipInv, KilledInv, LiveAccounted,
                 NoPid
  <2> QED BY <2>1, <2>2, <2>3
<1>18. ASSUME NEW a \in Pids, TeardownRelease(a)
      PROVE  KilledInv' /\ IndexAccounted' /\ LiveAccounted'
  <2>1. KilledInv'
    BY <1>18 DEF TeardownRelease, taskVars, vars, hostVars, auxVars, ctlVars, Registered,
                 TaskType, HostType, Handles, OwnershipInv, KilledInv, NoPid
  <2>2. IndexAccounted'
    BY <1>18 DEF TeardownRelease, taskVars, vars, hostVars, auxVars, ctlVars, Registered,
                 TaskType, HostType, Handles, Owns, Guarded, OwnershipInv, IndexAccounted,
                 NoPid
  <2>3. LiveAccounted'
    BY <1>18 DEF TeardownRelease, taskVars, vars, hostVars, auxVars, ctlVars, Registered,
                 TaskType, HostType, Handles, OwnershipInv, KilledInv, LiveAccounted,
                 NoPid
  <2> QED BY <2>1, <2>2, <2>3
<1>19. ASSUME NEW a \in Pids, TeardownKill(a)
      PROVE  KilledInv' /\ IndexAccounted' /\ LiveAccounted'
  <2>1. KilledInv'
    BY <1>19 DEF TeardownKill, Kill, taskVars, vars, hostVars, auxVars, ctlVars,
                 Registered, TaskType, HostType, Handles, OwnershipInv, KilledInv, NoPid
  <2>2. IndexAccounted'
    BY <1>19 DEF TeardownKill, Kill, taskVars, vars, hostVars, auxVars, ctlVars,
                 Registered, TaskType, HostType, Handles, Owns, Guarded, OwnershipInv,
                 IndexAccounted, NoPid
  <2>3. LiveAccounted'
    BY <1>19 DEF TeardownKill, Kill, taskVars, vars, hostVars, auxVars, ctlVars,
                 Registered, TaskType, HostType, Handles, OwnershipInv, KilledInv,
                 LiveAccounted, NoPid
  <2> QED BY <2>1, <2>2, <2>3
<1>20. ASSUME NEW a \in Pids, TeardownDelete(a)
      PROVE  KilledInv' /\ IndexAccounted' /\ LiveAccounted'
  <2>1. KilledInv'
    BY <1>20 DEF TeardownDelete, taskVars, vars, hostVars, auxVars, ctlVars, Registered,
                 TaskType, HostType, Handles, OwnershipInv, KilledInv, NoPid
  <2>2. IndexAccounted'
    BY <1>20 DEF TeardownDelete, taskVars, vars, hostVars, auxVars, ctlVars, Registered,
                 TaskType, HostType, Handles, Owns, Guarded, OwnershipInv, IndexAccounted,
                 NoPid
  <2>3. LiveAccounted'
    BY <1>20 DEF TeardownDelete, taskVars, vars, hostVars, auxVars, ctlVars, Registered,
                 TaskType, HostType, Handles, OwnershipInv, KilledInv, LiveAccounted,
                 NoPid
  <2> QED BY <2>1, <2>2, <2>3
<1>21. ASSUME NEW a \in Pids, StartTask(a)
      PROVE  KilledInv' /\ IndexAccounted' /\ LiveAccounted'
  <2>1. KilledInv'
    BY <1>21 DEF StartTask, Goto, hostVars, vars, taskVars, auxVars, ctlVars, Registered,
                 TaskType, HostType, Handles, OwnershipInv, KilledInv, NoPid
  <2>2. IndexAccounted'
    BY <1>21 DEF StartTask, Goto, hostVars, vars, taskVars, auxVars, ctlVars, Registered,
                 TaskType, HostType, Handles, Owns, Guarded, OwnershipInv, IndexAccounted,
                 NoPid
  <2>3. LiveAccounted'
    BY <1>21 DEF StartTask, Goto, hostVars, vars, taskVars, auxVars, ctlVars, Registered,
                 TaskType, HostType, Handles, OwnershipInv, KilledInv, LiveAccounted,
                 NoPid
  <2> QED BY <2>1, <2>2, <2>3
<1>22. ASSUME NEW e \in Events, ReceiveProvision(e)
      PROVE  KilledInv' /\ IndexAccounted' /\ LiveAccounted'
  <2>1. KilledInv'
    BY <1>22 DEF ReceiveProvision, taskVars, hostVars, vars, auxVars, ctlVars, Registered,
                 TaskType, HostType, Handles, OwnershipInv, KilledInv, NoPid
  <2>2. IndexAccounted'
    BY <1>22 DEF ReceiveProvision, taskVars, hostVars, vars, auxVars, ctlVars, Registered,
                 TaskType, HostType, Handles, Owns, Guarded, OwnershipInv, IndexAccounted,
                 NoPid
  <2>3. LiveAccounted'
    BY <1>22 DEF ReceiveProvision, taskVars, hostVars, vars, auxVars, ctlVars, Registered,
                 TaskType, HostType, Handles, OwnershipInv, KilledInv, LiveAccounted,
                 NoPid
  <2> QED BY <2>1, <2>2, <2>3
<1>23. ASSUME NEW e \in Events, RejectInMaintenance(e)
      PROVE  KilledInv' /\ IndexAccounted' /\ LiveAccounted'
  <2>1. KilledInv'
    BY <1>23 DEF RejectInMaintenance, taskVars, hostVars, vars, auxVars, ctlVars,
                 Registered, TaskType, HostType, Handles, OwnershipInv, KilledInv, NoPid
  <2>2. IndexAccounted'
    BY <1>23 DEF RejectInMaintenance, taskVars, hostVars, vars, auxVars, ctlVars,
                 Registered, TaskType, HostType, Handles, Owns, Guarded, OwnershipInv,
                 IndexAccounted, NoPid
  <2>3. LiveAccounted'
    BY <1>23 DEF RejectInMaintenance, taskVars, hostVars, vars, auxVars, ctlVars,
                 Registered, TaskType, HostType, Handles, OwnershipInv, KilledInv,
                 LiveAccounted, NoPid
  <2> QED BY <2>1, <2>2, <2>3
<1>24. ASSUME NEW e \in Events, ReceiveDeprovision(e)
      PROVE  KilledInv' /\ IndexAccounted' /\ LiveAccounted'
  <2>1. KilledInv'
    BY <1>24 DEF ReceiveDeprovision, taskVars, hostVars, vars, auxVars, ctlVars,
                 Registered, TaskType, HostType, Handles, OwnershipInv, KilledInv, NoPid
  <2>2. IndexAccounted'
    BY <1>24 DEF ReceiveDeprovision, taskVars, hostVars, vars, auxVars, ctlVars,
                 Registered, TaskType, HostType, Handles, Owns, Guarded, OwnershipInv,
                 IndexAccounted, NoPid
  <2>3. LiveAccounted'
    BY <1>24 DEF ReceiveDeprovision, taskVars, hostVars, vars, auxVars, ctlVars,
                 Registered, TaskType, HostType, Handles, OwnershipInv, KilledInv,
                 LiveAccounted, NoPid
  <2> QED BY <2>1, <2>2, <2>3
<1>25. ASSUME NEW e \in Events, HandleDeprovision(e)
      PROVE  KilledInv' /\ IndexAccounted' /\ LiveAccounted'
  <2>1. KilledInv'
    BY <1>25 DEF HandleDeprovision, RemoveHandle, taskVars, vars, hostVars, auxVars,
                 ctlVars, Registered, TaskType, HostType, Handles, OwnershipInv,
                 KilledInv, NoPid
  <2>2. IndexAccounted'
    BY <1>25 DEF HandleDeprovision, RemoveHandle, taskVars, vars, hostVars, auxVars,
                 ctlVars, Registered, TaskType, HostType, Handles, Owns, Guarded,
                 OwnershipInv, IndexAccounted, NoPid
  <2>3. LiveAccounted'
    BY <1>25 DEF HandleDeprovision, RemoveHandle, taskVars, vars, hostVars, auxVars,
                 ctlVars, Registered, TaskType, HostType, Handles, OwnershipInv,
                 KilledInv, LiveAccounted, NoPid
  <2> QED BY <2>1, <2>2, <2>3
<1>26. ASSUME NEW e \in Events, AckDeprovision(e)
      PROVE  KilledInv' /\ IndexAccounted' /\ LiveAccounted'
  <2>1. KilledInv'
    BY <1>26 DEF AckDeprovision, NoJob, taskVars, hostVars, vars, auxVars, ctlVars,
                 Registered, TaskType, HostType, Handles, OwnershipInv, KilledInv, NoPid
  <2>2. IndexAccounted'
    BY <1>26 DEF AckDeprovision, NoJob, taskVars, hostVars, vars, auxVars, ctlVars,
                 Registered, TaskType, HostType, Handles, Owns, Guarded, OwnershipInv,
                 IndexAccounted, NoPid
  <2>3. LiveAccounted'
    BY <1>26 DEF AckDeprovision, NoJob, taskVars, hostVars, vars, auxVars, ctlVars,
                 Registered, TaskType, HostType, Handles, OwnershipInv, KilledInv,
                 LiveAccounted, NoPid
  <2> QED BY <2>1, <2>2, <2>3
<1>27. ASSUME NEW a \in Pids, VmExits(a)
      PROVE  KilledInv' /\ IndexAccounted' /\ LiveAccounted'
  <2>1. KilledInv'
    BY <1>27 DEF VmExits, Kill, taskVars, vars, hostVars, auxVars, ctlVars, Registered,
                 TaskType, HostType, Handles, OwnershipInv, KilledInv, NoPid
  <2>2. IndexAccounted'
    BY <1>27 DEF VmExits, Kill, taskVars, vars, hostVars, auxVars, ctlVars, Registered,
                 TaskType, HostType, Handles, Owns, Guarded, OwnershipInv, IndexAccounted,
                 NoPid
  <2>3. LiveAccounted'
    BY <1>27 DEF VmExits, Kill, taskVars, vars, hostVars, auxVars, ctlVars, Registered,
                 TaskType, HostType, Handles, OwnershipInv, KilledInv, LiveAccounted,
                 NoPid
  <2> QED BY <2>1, <2>2, <2>3
<1>28. CASE CrashWatch
  <2>1. KilledInv'
    BY <1>28 DEF CrashWatch, taskVars, vars, hostVars, auxVars, ctlVars, Registered,
                 TaskType, HostType, Handles, OwnershipInv, KilledInv, NoPid
  <2>2. IndexAccounted'
    BY <1>28 DEF CrashWatch, taskVars, vars, hostVars, auxVars, ctlVars, Registered,
                 TaskType, HostType, Handles, Owns, Guarded, OwnershipInv, IndexAccounted,
                 NoPid
  <2>3. LiveAccounted'
    BY <1>28 DEF CrashWatch, taskVars, vars, hostVars, auxVars, ctlVars, Registered,
                 TaskType, HostType, Handles, OwnershipInv, KilledInv, LiveAccounted,
                 NoPid
  <2> QED BY <2>1, <2>2, <2>3
<1>29. CASE SuspendDrain
  <2>1. KilledInv'
    BY <1>29 DEF SuspendDrain, taskVars, hostVars, vars, auxVars, ctlVars, Registered,
                 TaskType, HostType, Handles, OwnershipInv, KilledInv, NoPid
  <2>2. IndexAccounted'
    BY <1>29 DEF SuspendDrain, taskVars, hostVars, vars, auxVars, ctlVars, Registered,
                 TaskType, HostType, Handles, Owns, Guarded, OwnershipInv, IndexAccounted,
                 NoPid
  <2>3. LiveAccounted'
    BY <1>29 DEF SuspendDrain, taskVars, hostVars, vars, auxVars, ctlVars, Registered,
                 TaskType, HostType, Handles, OwnershipInv, KilledInv, LiveAccounted,
                 NoPid
  <2> QED BY <2>1, <2>2, <2>3
<1>30. CASE SuspendFinalize
  <2>1. KilledInv'
    BY <1>30 DEF SuspendFinalize, taskVars, hostVars, vars, auxVars, ctlVars, Registered,
                 TaskType, HostType, Handles, OwnershipInv, KilledInv, NoPid
  <2>2. IndexAccounted'
    BY <1>30 DEF SuspendFinalize, taskVars, hostVars, auxVars, IndexAccounted, Owns,
                 Guarded, Registered
  <2>3. LiveAccounted'
    BY <1>30 DEF SuspendFinalize, taskVars, hostVars, vars, auxVars, ctlVars, Registered,
                 TaskType, HostType, Handles, OwnershipInv, KilledInv, LiveAccounted,
                 NoPid
  <2> QED BY <2>1, <2>2, <2>3
<1>31. ASSUME NEW s \in Services, SuspendKill(s)
      PROVE  KilledInv' /\ IndexAccounted' /\ LiveAccounted'
  <2>1. KilledInv'
    BY <1>31 DEF SuspendKill, RemoveHandle, taskVars, vars, hostVars, auxVars, ctlVars,
                 Registered, TaskType, HostType, Handles, OwnershipInv, KilledInv, NoPid
  <2>2. IndexAccounted'
    BY <1>31 DEF SuspendKill, RemoveHandle, taskVars, vars, hostVars, auxVars, ctlVars,
                 Registered, TaskType, HostType, Handles, Owns, Guarded, OwnershipInv,
                 IndexAccounted, NoPid
  <2>3. LiveAccounted'
    BY <1>31 DEF SuspendKill, RemoveHandle, taskVars, vars, hostVars, auxVars, ctlVars,
                 Registered, TaskType, HostType, Handles, OwnershipInv, KilledInv,
                 LiveAccounted, NoPid
  <2> QED BY <2>1, <2>2, <2>3
<1>32. ASSUME NEW i \in Indices, EbpfAudit(i)
      PROVE  KilledInv' /\ IndexAccounted' /\ LiveAccounted'
  <2>1. KilledInv'
    BY <1>32 DEF EbpfAudit, Kill, taskVars, vars, hostVars, auxVars, ctlVars, Registered,
                 TaskType, HostType, Handles, OwnershipInv, KilledInv, NoPid
  <2>2. IndexAccounted'
    BY <1>32 DEF EbpfAudit, Kill, taskVars, vars, hostVars, auxVars, ctlVars, Registered,
                 TaskType, HostType, Handles, Owns, Guarded, OwnershipInv, IndexAccounted,
                 NoPid
  <2>3. LiveAccounted'
    BY <1>32 DEF EbpfAudit, Kill, taskVars, vars, hostVars, auxVars, ctlVars, Registered,
                 TaskType, HostType, Handles, OwnershipInv, KilledInv, LiveAccounted,
                 NoPid
  <2> QED BY <2>1, <2>2, <2>3
<1>33. ASSUME NEW s \in Services, deploy_service(s)
      PROVE  KilledInv' /\ IndexAccounted' /\ LiveAccounted'
  <2>1. KilledInv'
    BY <1>33 DEF deploy_service, taskVars, hostVars, vars, auxVars, ctlVars, Registered,
                 TaskType, HostType, Handles, OwnershipInv, KilledInv, NoPid
  <2>2. IndexAccounted'
    BY <1>33 DEF deploy_service, taskVars, hostVars, vars, auxVars, ctlVars, Registered,
                 TaskType, HostType, Handles, Owns, Guarded, OwnershipInv, IndexAccounted,
                 NoPid
  <2>3. LiveAccounted'
    BY <1>33 DEF deploy_service, taskVars, hostVars, vars, auxVars, ctlVars, Registered,
                 TaskType, HostType, Handles, OwnershipInv, KilledInv, LiveAccounted,
                 NoPid
  <2> QED BY <2>1, <2>2, <2>3
<1>34. ASSUME NEW s \in Services, stop_service(s)
      PROVE  KilledInv' /\ IndexAccounted' /\ LiveAccounted'
  <2>1. KilledInv'
    BY <1>34 DEF stop_service, taskVars, hostVars, vars, auxVars, ctlVars, Registered,
                 TaskType, HostType, Handles, OwnershipInv, KilledInv, NoPid
  <2>2. IndexAccounted'
    BY <1>34 DEF stop_service, taskVars, hostVars, vars, auxVars, ctlVars, Registered,
                 TaskType, HostType, Handles, Owns, Guarded, OwnershipInv, IndexAccounted,
                 NoPid
  <2>3. LiveAccounted'
    BY <1>34 DEF stop_service, taskVars, hostVars, vars, auxVars, ctlVars, Registered,
                 TaskType, HostType, Handles, OwnershipInv, KilledInv, LiveAccounted,
                 NoPid
  <2> QED BY <2>1, <2>2, <2>3
<1>35. ASSUME NEW s \in Services, DeleteRead(s)
      PROVE  KilledInv' /\ IndexAccounted' /\ LiveAccounted'
  <2>1. KilledInv'
    BY <1>35 DEF DeleteRead, taskVars, hostVars, vars, auxVars, ctlVars, Registered,
                 TaskType, HostType, Handles, OwnershipInv, KilledInv, NoPid
  <2>2. IndexAccounted'
    BY <1>35 DEF DeleteRead, taskVars, hostVars, vars, auxVars, ctlVars, Registered,
                 TaskType, HostType, Handles, Owns, Guarded, OwnershipInv, IndexAccounted,
                 NoPid
  <2>3. LiveAccounted'
    BY <1>35 DEF DeleteRead, taskVars, hostVars, vars, auxVars, ctlVars, Registered,
                 TaskType, HostType, Handles, OwnershipInv, KilledInv, LiveAccounted,
                 NoPid
  <2> QED BY <2>1, <2>2, <2>3
<1>36. ASSUME NEW s \in Services, DeleteCommit(s)
      PROVE  KilledInv' /\ IndexAccounted' /\ LiveAccounted'
  <2>1. KilledInv'
    BY <1>36 DEF DeleteCommit, taskVars, hostVars, vars, auxVars, ctlVars, Registered,
                 TaskType, HostType, Handles, OwnershipInv, KilledInv, NoPid
  <2>2. IndexAccounted'
    BY <1>36 DEF DeleteCommit, taskVars, hostVars, vars, auxVars, ctlVars, Registered,
                 TaskType, HostType, Handles, Owns, Guarded, OwnershipInv, IndexAccounted,
                 NoPid
  <2>3. LiveAccounted'
    BY <1>36 DEF DeleteCommit, taskVars, hostVars, vars, auxVars, ctlVars, Registered,
                 TaskType, HostType, Handles, OwnershipInv, KilledInv, LiveAccounted,
                 NoPid
  <2> QED BY <2>1, <2>2, <2>3
<1>37. ASSUME NEW s \in Services, RestartRead(s)
      PROVE  KilledInv' /\ IndexAccounted' /\ LiveAccounted'
  <2>1. KilledInv'
    BY <1>37 DEF RestartRead, taskVars, hostVars, vars, auxVars, ctlVars, Registered,
                 TaskType, HostType, Handles, OwnershipInv, KilledInv, NoPid
  <2>2. IndexAccounted'
    BY <1>37 DEF RestartRead, taskVars, hostVars, vars, auxVars, ctlVars, Registered,
                 TaskType, HostType, Handles, Owns, Guarded, OwnershipInv, IndexAccounted,
                 NoPid
  <2>3. LiveAccounted'
    BY <1>37 DEF RestartRead, taskVars, hostVars, vars, auxVars, ctlVars, Registered,
                 TaskType, HostType, Handles, OwnershipInv, KilledInv, LiveAccounted,
                 NoPid
  <2> QED BY <2>1, <2>2, <2>3
<1>38. ASSUME NEW s \in Services, RestartCommit(s)
      PROVE  KilledInv' /\ IndexAccounted' /\ LiveAccounted'
  <2>1. KilledInv'
    BY <1>38 DEF RestartCommit, taskVars, hostVars, vars, auxVars, ctlVars, Registered,
                 TaskType, HostType, Handles, OwnershipInv, KilledInv, NoPid
  <2>2. IndexAccounted'
    BY <1>38 DEF RestartCommit, taskVars, hostVars, vars, auxVars, ctlVars, Registered,
                 TaskType, HostType, Handles, Owns, Guarded, OwnershipInv, IndexAccounted,
                 NoPid
  <2>3. LiveAccounted'
    BY <1>38 DEF RestartCommit, taskVars, hostVars, vars, auxVars, ctlVars, Registered,
                 TaskType, HostType, Handles, OwnershipInv, KilledInv, LiveAccounted,
                 NoPid
  <2> QED BY <2>1, <2>2, <2>3
<1>39. ASSUME NEW e \in Events, OutboxPublish(e)
      PROVE  KilledInv' /\ IndexAccounted' /\ LiveAccounted'
  <2>1. KilledInv'
    BY <1>39 DEF OutboxPublish, taskVars, hostVars, vars, auxVars, ctlVars, Registered,
                 TaskType, HostType, Handles, OwnershipInv, KilledInv, NoPid
  <2>2. IndexAccounted'
    BY <1>39 DEF OutboxPublish, taskVars, hostVars, vars, auxVars, ctlVars, Registered,
                 TaskType, HostType, Handles, Owns, Guarded, OwnershipInv, IndexAccounted,
                 NoPid
  <2>3. LiveAccounted'
    BY <1>39 DEF OutboxPublish, taskVars, hostVars, vars, auxVars, ctlVars, Registered,
                 TaskType, HostType, Handles, OwnershipInv, KilledInv, LiveAccounted,
                 NoPid
  <2> QED BY <2>1, <2>2, <2>3
<1>40. ASSUME NEW e \in Events, AckWaitExpires(e)
      PROVE  KilledInv' /\ IndexAccounted' /\ LiveAccounted'
  <2>1. KilledInv'
    BY <1>40 DEF AckWaitExpires, taskVars, hostVars, vars, auxVars, ctlVars, Registered,
                 TaskType, HostType, Handles, OwnershipInv, KilledInv, NoPid
  <2>2. IndexAccounted'
    BY <1>40 DEF AckWaitExpires, taskVars, hostVars, vars, auxVars, ctlVars, Registered,
                 TaskType, HostType, Handles, Owns, Guarded, OwnershipInv, IndexAccounted,
                 NoPid
  <2>3. LiveAccounted'
    BY <1>40 DEF AckWaitExpires, taskVars, hostVars, vars, auxVars, ctlVars, Registered,
                 TaskType, HostType, Handles, OwnershipInv, KilledInv, LiveAccounted,
                 NoPid
  <2> QED BY <2>1, <2>2, <2>3
<1> QED
  BY <1>1, <1>2, <1>3, <1>4, <1>5, <1>6, <1>7, <1>8, <1>9, <1>10, <1>11, <1>12, <1>13,
     <1>14, <1>15, <1>16, <1>17, <1>18, <1>19, <1>20, <1>21, <1>22, <1>23, <1>24, <1>25,
     <1>26, <1>27, <1>28, <1>29, <1>30, <1>31, <1>32, <1>33, <1>34, <1>35, <1>36, <1>37,
     <1>38, <1>39, <1>40
  DEF Next, NodeNext, Attempt, Teardown, MainLoop, Background, Api, Bus, Restarts

-----------------------------------------------------------------------------
(* Crashes and restarts of the daemon *)

\* Steps of an attempt that has not registered its VM yet.
Early == {"idle", "new", "alloc", "tap", "booted"}

\* What a row says of its VM stays true whatever becomes of the daemon: the VM
\* was started for this service, is past its registration, and has its index.
RowVmInv ==
  \A s \in Services : row[s].vm # NoPid =>
    /\ svc[row[s].vm] = s
    /\ step[row[s].vm] \notin Early
    /\ tap[row[s].vm] \in Indices

\* While the daemon is down nothing of its memory is left.
DownInv ==
  up = FALSE =>
    /\ \A s \in Services : registry[s] = NoPid
    /\ \A a \in Pids : down[a] = "none" /\ undo[a] = NoPid /\ ~Active(a)
    /\ \A e \in Events : job[e] = NoJob
    /\ inUse = {} /\ dropping = {} /\ waiting = 0 /\ susp.phase = "idle"

\* How a step that is not a restart may change what TapKnown and RowVmInv say of
\* an attempt: its service is set when it starts, its index when it allocates.
Moves(a) ==
  /\ svc'[a] = svc[a] \/ step[a] = "idle"
  /\ tap'[a] = tap[a] \/ (step[a] = "new" /\ tap'[a] \in Indices)
  /\ step[a] \notin Early => step'[a] \notin Early
  /\ Owns(a)' \/ step'[a] = "registered"
       => Owns(a) \/ step[a] = "registered" \/ tap'[a] \in Indices

\* A step that leaves the attempts and the owners alone.
LEMMA NoMove ==
  ASSUME UNCHANGED <<step, svc, tap, dropping, registry, down>>, NEW b \in Pids
  PROVE  Moves(b)
BY DEF Moves, Owns, Guarded, Registered

\* A step of one attempt that neither starts it nor gives it an index.
LEMMA OneMoves ==
  ASSUME TypeOK, NEW a \in Pids, step[a] \notin {"idle", "new"}, NEW x,
         Goto(a, x), x \notin Early \/ (Guarded(a) /\ x \in {"tap", "booted"}),
         x = "registered" => Guarded(a),
         UNCHANGED <<svc, tap>>,
         dropping' = dropping \/ (Guarded(a) /\ dropping' = dropping \cup {a}),
         \A t \in Services : \/ registry'[t] \in {registry[t], NoPid}
                             \/ Guarded(a) /\ registry'[t] = a,
         \A b \in Pids : down'[b] = "release" => down[b] = "release" \/ Registered(b),
         NEW b \in Pids
  PROVE  Moves(b)
<1>1. step'[b] = IF b = a THEN x ELSE step[b]
  BY DEF Goto, TypeOK, TaskType
<1>2. Registered(b)' => Registered(b) \/ (b = a /\ Guarded(a))
  BY DEF Registered, Pids, NoPid
<1>3. b \in dropping' => b \in dropping \/ (b = a /\ Guarded(a))
  OBVIOUS
<1>4. Guarded(b)' => Guarded(b)
  BY <1>1 DEF Guarded, Early
<1>5. Owns(b)' => Owns(b)
  BY <1>2, <1>3, <1>4 DEF Owns
<1>6. step'[b] = "registered" => Owns(b) \/ step[b] = "registered"
  BY <1>1 DEF Owns
<1>7. step[b] \notin Early => step'[b] \notin Early
  BY <1>1 DEF Early, Guarded
<1> QED BY <1>5, <1>6, <1>7 DEF Moves

\* Handles that leave the registry, into a teardown or not, move no attempt.
LEMMA HandlesMove ==
  ASSUME UNCHANGED <<step, svc, tap, dropping>>,
         \A t \in Services : registry'[t] \in {registry[t], NoPid},
         \A b \in Pids : down'[b] = "release" => down[b] = "release" \/ Registered(b),
         NEW b \in Pids
  PROVE  Moves(b)
<1>1. Registered(b)' => Registered(b)
  BY DEF Registered, Pids, NoPid
<1> QED BY <1>1 DEF Moves, Owns, Guarded

LEMMA AttemptMoves ==
  ASSUME TypeOK, OwnershipInv, Next, ~Restarts, NEW b \in Pids
  PROVE  Moves(b)
<1> USE DEF TypeOK
<1>1. ASSUME NEW a \in Pids, allocate_tap_index(a) PROVE Moves(b)
  <2>1. b # a => /\ step'[b] = step[b] /\ tap'[b] = tap[b]
                 /\ Owns(b)' => Owns(b)
    BY <1>1 DEF allocate_tap_index, Goto, TaskType, Owns, Guarded, Registered
  <2>2. CASE b # a
    BY <1>1, <2>1, <2>2 DEF allocate_tap_index, Moves
  <2>3. ASSUME b = a, NEW i \in Indices, tap' = [tap EXCEPT ![a] = i]
        PROVE  Moves(b)
    BY <1>1, <2>3 DEF allocate_tap_index, Moves, TaskType, Early
  <2>4. ASSUME b = a, Goto(a, "failT"), UNCHANGED <<inUse, tap>>
        PROVE  Moves(b)
    BY <1>1, <2>4 DEF allocate_tap_index, Goto, Moves, TaskType, Early, Owns, Guarded,
                      Registered
  <2> QED BY <1>1, <2>2, <2>3, <2>4 DEF allocate_tap_index
<1>2. ASSUME NEW a \in Pids,
             \/ BuildFails(a) \/ CreateTap(a) \/ CreateTapBusy(a) \/ Boot(a)
             \/ BootFails(a) \/ ProbeFails(a)
      PROVE  Moves(b)
  <2>1. Guarded(a)
    BY <1>2 DEF BuildFails, CreateTap, CreateTapBusy, Boot, BootFails, ProbeFails, Guarded
  <2>2. UNCHANGED <<svc, tap, registry, down>>
    BY <1>2 DEF BuildFails, CreateTap, CreateTapBusy, Boot, BootFails, ProbeFails,
                hostVars
  <2>3. PICK x \in {"tap", "booted", "failT", "failP"} :
          Goto(a, x) /\ dropping' \in {dropping, dropping \cup {a}}
    BY <1>2 DEF BuildFails, CreateTap, CreateTapBusy, Boot, BootFails, ProbeFails,
                FailGuarded
  <2> QED BY <2>1, <2>2, <2>3, OneMoves DEF Early, Guarded
<1>3. ASSUME NEW a \in Pids, RegisterVm(a) PROVE Moves(b)
  <2>1. Guarded(a)
    BY <1>3 DEF RegisterVm, Guarded
  <2>2. \A t \in Services : registry'[t] \in {registry[t], a}
    BY <1>3 DEF RegisterVm, HostType
  <2> QED BY <1>3, <2>1, <2>2, OneMoves DEF RegisterVm, Early, Guarded
<1>4. ASSUME NEW a \in Pids,
             \/ WriteRunning(a) \/ WriteUndone(a) \/ AckProvisioned(a) \/ NakTransient(a)
             \/ AckPermanent(a)
      PROVE  Moves(b)
  <2>1. step[a] \notin {"idle", "new"}
    BY <1>4 DEF WriteRunning, WriteUndone, AckProvisioned, NakTransient, AckPermanent
  <2>2. UNCHANGED <<svc, tap, registry, down, dropping>>
    BY <1>4 DEF WriteRunning, WriteUndone, AckProvisioned, NakTransient, AckPermanent,
                hostVars
  <2>3. PICK x \in {"written", "failT", "done"} : Goto(a, x)
    BY <1>4 DEF WriteRunning, WriteUndone, AckProvisioned, NakTransient, AckPermanent
  <2> QED BY <2>1, <2>2, <2>3, OneMoves DEF Early
<1>5. ASSUME NEW a \in Pids, WriteFails(a) \/ rollback_provision(a) PROVE Moves(b)
  <2>1. step[a] \notin {"idle", "new"} /\ RemoveHandle(svc[a], "release") /\ svc[a] \in Services
    BY <1>5 DEF WriteFails, rollback_provision, TaskType
  <2>2. UNCHANGED <<svc, tap, dropping>>
    BY <1>5 DEF WriteFails, rollback_provision
  <2>3. PICK x \in {"undoing", "nakT", "ackP"} : Goto(a, x)
    BY <1>5 DEF WriteFails, rollback_provision
  <2>4. /\ \A t \in Services : registry'[t] \in {registry[t], NoPid}
        /\ \A c \in Pids : down'[c] = "release" => down[c] = "release" \/ Registered(c)
    BY <2>1, Removal
  <2> QED BY <2>1, <2>2, <2>3, <2>4, OneMoves DEF Early
<1>6. ASSUME NEW a \in Pids, TimeoutFires(a) PROVE Moves(b)
  <2>1. /\ step' = [step EXCEPT ![a] = "failT"] /\ UNCHANGED <<svc, tap, registry>>
        /\ dropping' = IF Guarded(a) THEN dropping \cup {a} ELSE dropping
        /\ \A c \in Pids : down'[c] = "release" => down[c] = "release"
        /\ step[a] # "idle"
    BY <1>6 DEF TimeoutFires, Goto, InProvision
  <2>2. Registered(b)' => Registered(b)
    BY <2>1 DEF Registered
  <2> QED BY <2>1, <2>2 DEF Moves, Owns, Guarded, Early, TaskType
<1>7. ASSUME NEW a \in Pids, ReleaseDropped(a) PROVE Moves(b)
  BY <1>7 DEF ReleaseDropped, Moves, Owns, Guarded, Registered
<1>8. ASSUME NEW a \in Pids, Teardown(a) PROVE Moves(b)
  <2>1. UNCHANGED <<step, svc, tap, dropping, registry>>
    BY <1>8 DEF Teardown, TeardownRelease, TeardownKill, TeardownDelete, taskVars
  <2>2. \A c \in Pids : down'[c] = "release" => down[c] = "release"
    BY <1>8 DEF Teardown, TeardownRelease, TeardownKill, TeardownDelete, HostType
  <2> QED BY <2>1, <2>2, HandlesMove
<1>9. ASSUME NEW a \in Pids, VmExits(a) PROVE Moves(b)
  BY <1>9, NoMove DEF VmExits, taskVars
<1>10. ASSUME NEW a \in Pids, StartTask(a) PROVE Moves(b)
  BY <1>10 DEF StartTask, Goto, hostVars, TaskType, Moves, Owns, Guarded, Registered,
               Early
<1>11. ASSUME NEW e \in Events,
              \/ ReceiveProvision(e) \/ RejectInMaintenance(e) \/ ReceiveDeprovision(e)
              \/ AckDeprovision(e) \/ OutboxPublish(e) \/ AckWaitExpires(e)
       PROVE  Moves(b)
  BY <1>11, NoMove DEF ReceiveProvision, RejectInMaintenance, ReceiveDeprovision,
                       AckDeprovision, OutboxPublish, AckWaitExpires, taskVars, hostVars
<1>12. ASSUME NEW e \in Events, HandleDeprovision(e) PROVE Moves(b)
  <2>1. ev[e].svc \in Services
    BY EventUpdates DEF BusType
  <2>2. /\ \A t \in Services : registry'[t] \in {registry[t], NoPid}
        /\ \A c \in Pids : down'[c] = "release" => down[c] = "release" \/ Registered(c)
    BY <1>12, <2>1, Removal DEF HandleDeprovision
  <2> QED BY <1>12, <2>2, HandlesMove DEF HandleDeprovision, taskVars
<1>13. CASE CrashWatch
  <2>1. /\ \A t \in Services : registry'[t] \in {registry[t], NoPid}
        /\ \A c \in Pids : down'[c] = "release" => down[c] = "release" \/ Registered(c)
    BY <1>13 DEF CrashWatch, Registered
  <2> QED BY <1>13, <2>1, HandlesMove DEF CrashWatch, taskVars
<1>14. CASE SuspendDrain \/ SuspendFinalize
  BY <1>14, NoMove DEF SuspendDrain, SuspendFinalize, taskVars, hostVars
<1>15. ASSUME NEW s \in Services, SuspendKill(s) PROVE Moves(b)
  <2>1. /\ \A t \in Services : registry'[t] \in {registry[t], NoPid}
        /\ \A c \in Pids : down'[c] = "release" => down[c] = "release" \/ Registered(c)
    BY <1>15, Removal DEF SuspendKill
  <2> QED BY <1>15, <2>1, HandlesMove DEF SuspendKill, taskVars
<1>16. ASSUME NEW i \in Indices, EbpfAudit(i) PROVE Moves(b)
  <2>1. \A t \in Services : registry'[t] \in {registry[t], NoPid}
    BY <1>16 DEF EbpfAudit, HostType
  <2> QED BY <1>16, <2>1, HandlesMove DEF EbpfAudit, taskVars
<1>17. CASE Api
  BY <1>17, NoMove DEF Api, deploy_service, stop_service, DeleteRead, DeleteCommit,
                       RestartRead, RestartCommit, taskVars, hostVars
<1> QED BY <1>1, <1>2, <1>3, <1>4, <1>5, <1>6, <1>7, <1>8, <1>9, <1>10, <1>11, <1>12,
           <1>13, <1>14, <1>15, <1>16, <1>17
        DEF Next, NodeNext, Attempt, MainLoop, Background, Bus, Restarts

\* No step but a restart changes up.
LEMMA UpUnchanged ==
  ASSUME Next, ~Restarts
  PROVE  up' = up
BY ZenonT(40) DEF Next, NodeNext, Attempt, Teardown, MainLoop, Background, Api, Bus, ctlVars,
       Restarts, allocate_tap_index, BuildFails, CreateTap, CreateTapBusy, Boot,
       BootFails, RegisterVm, ProbeFails, WriteRunning, WriteFails, WriteUndone,
       AckProvisioned, TimeoutFires, rollback_provision, NakTransient, AckPermanent,
       ReleaseDropped, TeardownRelease, TeardownKill, TeardownDelete, ReceiveProvision,
       RejectInMaintenance, StartTask, ReceiveDeprovision, HandleDeprovision,
       AckDeprovision, VmExits, CrashWatch, SuspendDrain, SuspendFinalize, SuspendKill,
       EbpfAudit, deploy_service, stop_service, DeleteRead, DeleteCommit, RestartRead,
       RestartCommit, OutboxPublish, AckWaitExpires

\* tap_name, fc_pid and vm_id of a row are written by a provision only, together,
\* for the attempt's own service.
LEMMA VmWritten ==
  ASSUME TypeOK, Next, ~Restarts, NEW s \in Services
  PROVE  \/ row'[s].vm = row[s].vm
         \/ \E a \in Pids : /\ step[a] = "registered" /\ step'[a] = "written"
                            /\ svc'[a] = s /\ tap'[a] = tap[a] /\ row'[s].vm = a
<1> USE DEF TypeOK
<1> DEFINE Same == row'[s].vm = row[s].vm
           Kept(r) == \E x \in StatusCheck :
                        r \in {row[s], [row[s] EXCEPT !.status = x],
                               [row[s] EXCEPT !.status = x, !.upstream = NoPid],
                               [row[s] EXCEPT !.status = x, !.upstream = NoPid,
                                              !.deleted = TRUE]}
<1>0. ASSUME Kept(row'[s]) PROVE Same
  <2>1. row[s] \in ServiceRows
    BY DEF RowType
  <2> QED BY <1>0, <2>1 DEF ServiceRows
<1>1. CASE row' = row
  BY <1>1
<1>2. ASSUME NEW a \in Pids, WriteRunning(a)
      PROVE  Same \/ \E c \in Pids : /\ step[c] = "registered" /\ step'[c] = "written"
                                     /\ svc'[c] = s /\ tap'[c] = tap[c] /\ row'[s].vm = c
  <2>1. CASE svc[a] = s
    <3>1. row[s] \in ServiceRows
      BY DEF RowType
    <3>2. row'[s] = [row[s] EXCEPT !.status = "running", !.vm = a, !.upstream = a]
      BY <1>2, <2>1 DEF WriteRunning, RowType
    <3>3. row'[s].vm = a
      BY <3>1, <3>2 DEF ServiceRows
    <3> QED BY <1>2, <2>1, <3>3 DEF WriteRunning, Goto, TaskType
  <2>2. CASE svc[a] # s
    BY <1>2, <2>2 DEF WriteRunning, RowType
  <2> QED BY <2>1, <2>2
<1>3. ASSUME NEW a \in Pids, WriteFails(a) \/ rollback_provision(a) PROVE Same
  <2>1. MarkFailed(svc[a])
    BY <1>3 DEF WriteFails, rollback_provision
  <2>2. Kept(row'[s])
    BY <2>1 DEF MarkFailed, RowType, StatusCheck
  <2> QED BY <1>0, <2>2
<1>4. ASSUME NEW a \in Pids, NakTransient(a) PROVE Same
  <2>1. Kept(row'[s])
    BY <1>4 DEF NakTransient, RowType, StatusCheck
  <2> QED BY <1>0, <2>1
<1>5. ASSUME CrashWatch \/ \E i \in Indices : EbpfAudit(i) PROVE Same
  <2>1. Kept(row'[s])
    BY ZenonT(40), <1>5 DEF CrashWatch, EbpfAudit, MarkCrashed, RowType, StatusCheck
  <2> QED BY <1>0, <2>1
<1>6. ASSUME SuspendDrain \/ SuspendFinalize PROVE Same
  <2>1. Kept(row'[s])
    BY <1>6 DEF SuspendDrain, SuspendFinalize, RowType, StatusCheck
  <2> QED BY <1>0, <2>1
<1>7. ASSUME Api PROVE Same
  <2>1. ASSUME NEW t \in Services,
               \/ deploy_service(t) \/ stop_service(t) \/ DeleteRead(t) \/ RestartRead(t)
               \/ RestartCommit(t)
        PROVE  Kept(row'[s])
    BY ZenonT(40), <2>1 DEF deploy_service, stop_service, DeleteRead, RestartRead, RestartCommit,
                RowType, StatusCheck
  <2>2. ASSUME NEW t \in Services, DeleteCommit(t)
        PROVE  Kept(row'[s])
    <3>1. row' = row \/ row' = [row EXCEPT ![t] = [@ EXCEPT !.status = "stopped",
                                                   !.upstream = NoPid, !.deleted = TRUE]]
      BY <2>2 DEF DeleteCommit
    <3> QED BY <3>1 DEF RowType, StatusCheck
  <2> QED BY <1>0, <1>7, <2>1, <2>2 DEF Api
<1>8. ASSUME NEW a \in Pids,
             \/ allocate_tap_index(a) \/ BuildFails(a) \/ CreateTap(a) \/ CreateTapBusy(a)
             \/ Boot(a) \/ BootFails(a) \/ RegisterVm(a) \/ ProbeFails(a) \/ WriteUndone(a)
             \/ AckProvisioned(a) \/ AckPermanent(a) \/ TimeoutFires(a)
             \/ ReleaseDropped(a) \/ Teardown(a) \/ VmExits(a)
      PROVE  row' = row
  BY <1>8 DEF allocate_tap_index, BuildFails, CreateTap, CreateTapBusy, Boot, BootFails,
              RegisterVm, ProbeFails, WriteUndone, AckProvisioned, AckPermanent,
              TimeoutFires, ReleaseDropped, Teardown, TeardownRelease, TeardownKill,
              TeardownDelete, VmExits
<1>9. ASSUME MainLoop \/ Bus \/ \E t \in Services : SuspendKill(t) PROVE row' = row
  BY <1>9 DEF MainLoop, Bus, ReceiveProvision, RejectInMaintenance, ReceiveDeprovision,
              HandleDeprovision, AckDeprovision, StartTask, OutboxPublish,
              AckWaitExpires, SuspendKill
<1> QED BY <1>1, <1>2, <1>3, <1>4, <1>5, <1>6, <1>7, <1>8, <1>9
        DEF Next, NodeNext, Attempt, Background, Restarts

\* Every step but a restart keeps what is known of the attempts' indices and of
\* the VMs in the rows.
LEMMA KnownStep ==
  ASSUME TypeOK, OwnershipInv, TapKnown, RowVmInv, Next, ~Restarts
  PROVE  TapKnown' /\ RowVmInv'
<1>1. \A b \in Pids : Moves(b)
  BY AttemptMoves
<1>2. TapKnown'
  BY <1>1 DEF TapKnown, Moves
<1>3. ASSUME NEW s \in Services, row'[s].vm # NoPid
      PROVE  /\ svc'[row'[s].vm] = s
             /\ step'[row'[s].vm] \notin Early
             /\ tap'[row'[s].vm] \in Indices
  <2>1. CASE row'[s].vm = row[s].vm
    <3>1. row[s].vm \in Pids
      BY <1>3, <2>1 DEF TypeOK, RowType, ServiceRows, Handles
    <3>2. PICK a \in Pids : a = row[s].vm /\ a = row'[s].vm
      BY <2>1, <3>1
    <3>3. svc[a] = s /\ step[a] \notin Early /\ tap[a] \in Indices
      BY <1>3, <2>1, <3>2 DEF RowVmInv
    <3>4. svc'[a] = s /\ step'[a] \notin Early /\ tap'[a] \in Indices
      BY <1>1, <3>3 DEF Moves, Early
    <3> QED BY <3>2, <3>4
  <2>2. ASSUME NEW a \in Pids, step[a] = "registered", step'[a] = "written", svc'[a] = s,
               tap'[a] = tap[a], row'[s].vm = a
        PROVE  /\ svc'[row'[s].vm] = s
               /\ step'[row'[s].vm] \notin Early
               /\ tap'[row'[s].vm] \in Indices
    BY <2>2 DEF TapKnown, Early
  <2> QED BY <2>1, <2>2, VmWritten
<1> QED BY <1>2, <1>3 DEF RowVmInv

\* A daemon that is down does nothing until it is started: it holds no message,
\* no task and no handle.
LEMMA DownStep ==
  ASSUME DownInv, Next, ~Restarts
  PROVE  DownInv'
<1>1. CASE up # FALSE
  BY <1>1, UpUnchanged DEF DownInv
<1>2. CASE up = FALSE
  <2> USE <1>2
  <2>1. \A a \in Pids : ~Active(a) /\ step[a] \in {"idle", "done"} /\ a \notin dropping
                        /\ down[a] = "none"
    BY DEF DownInv, Active
  <2>2. \A a \in Pids : ~Attempt(a) /\ ~TimeoutFires(a) /\ ~ReleaseDropped(a) /\ ~Teardown(a)
    BY <2>1 DEF Attempt, allocate_tap_index, BuildFails, CreateTap, CreateTapBusy, Boot,
                BootFails, RegisterVm, ProbeFails, WriteRunning, WriteFails, WriteUndone,
                AckProvisioned, TimeoutFires, InProvision, rollback_provision,
                NakTransient, AckPermanent, ReleaseDropped, Teardown, TeardownRelease,
                TeardownKill, TeardownDelete
  <2>3. ~MainLoop
    <3>1. \A e \in Events : /\ ~ReceiveProvision(e) /\ ~RejectInMaintenance(e)
                            /\ ~ReceiveDeprovision(e)
      BY DEF ReceiveProvision, RejectInMaintenance, ReceiveDeprovision
    <3>2. \A e \in Events : job[e].stage = "none"
      BY DEF DownInv, NoJob
    <3>3. \A e \in Events : ~HandleDeprovision(e) /\ ~AckDeprovision(e)
      BY <3>2 DEF HandleDeprovision, AckDeprovision
    <3>4. \A a \in Pids : ~StartTask(a)
      BY DEF DownInv, StartTask
    <3> QED BY <3>1, <3>3, <3>4 DEF MainLoop
  <2>4. ~Background
    <3>1. ~CrashWatch
      BY DEF DownInv, CrashWatch
    <3>2. \A s \in Services : ~SuspendKill(s)
      BY DEF DownInv, SuspendKill
    <3>3. \A i \in Indices : ~EbpfAudit(i)
      BY DEF EbpfAudit
    <3>4. ~SuspendDrain /\ ~SuspendFinalize
      BY DEF DownInv, SuspendDrain, SuspendFinalize
    <3> QED BY <3>1, <3>2, <3>3, <3>4 DEF Background
  <2>5. (\E a \in Pids : VmExits(a)) \/ Api \/ Bus
    BY <2>2, <2>3, <2>4 DEF Next, NodeNext, Restarts
  <2>6. ASSUME \E a \in Pids : VmExits(a)
        PROVE  UNCHANGED <<registry, down, undo, step, job, inUse, dropping, waiting,
                           susp, up>>
    BY <2>6 DEF VmExits, taskVars, busVars, ctlVars
  <2>7. ASSUME Api
        PROVE  UNCHANGED <<registry, down, undo, step, job, inUse, dropping, waiting,
                           susp, up>>
    BY <2>7 DEF Api, deploy_service, stop_service, DeleteRead, DeleteCommit, RestartRead,
                RestartCommit, taskVars, hostVars, busVars, ctlVars
  <2>8. ASSUME Bus
        PROVE  UNCHANGED <<registry, down, undo, step, job, inUse, dropping, waiting,
                           susp, up>>
    BY <2>8 DEF Bus, OutboxPublish, AckWaitExpires, taskVars, hostVars, ctlVars
  <2> QED BY <2>5, <2>6, <2>7, <2>8 DEF DownInv, Active
<1> QED BY <1>1, <1>2

\* The inductive invariant of the node across restarts.  That startup registers a
\* VM under its own service, on an index, needs RowVmInv; that the index in a row
\* is one, TapKnown; that nothing happens between a crash and the next start,
\* DownInv.
RecoveryInv ==
  /\ TypeOK /\ OwnershipInv /\ KilledInv /\ IndexAccounted /\ LiveAccounted
  /\ TapKnown /\ RowVmInv /\ DownInv

\* The end of the daemon process, by a crash or by SIGTERM.
LEMMA EndStep ==
  ASSUME NodeAssumption, RecoveryInv, DaemonCrash \/ Shutdown
  PROVE  RecoveryInv'
<1> USE DEF RecoveryInv, TypeOK
<1>1. MemoryLost
  BY DEF DaemonCrash, Shutdown
<1>2. RowType'
  <2>1. CASE DaemonCrash
    BY <2>1 DEF DaemonCrash, RowType
  <2>2. CASE Shutdown
    <3>1. \A s \in Services :
            [row[s] EXCEPT !.status = "stopped", !.upstream = NoPid] \in ServiceRows
      BY RowUpdates DEF RowType, StatusCheck
    <3> QED BY <2>2, <3>1 DEF Shutdown, RowType
  <2> QED BY <2>1, <2>2
<1>3. TaskType'
  BY <1>1 DEF MemoryLost, DaemonCrash, Shutdown, TaskType, Steps, Handles
<1>4. HostType'
  <2>1. live' \subseteq Pids /\ dev' \in [Indices -> Pids \cup {NoDev, Idle}]
    BY DEF DaemonCrash, Shutdown, HostType
  <2> QED BY <1>1, <2>1 DEF MemoryLost, HostType, Handles
<1>5. BusType'
  <2>1. ev' = ev
    BY DEF DaemonCrash, Shutdown
  <2>2. NoJob \in [stage : {"none", "start", "teardown"}, h : Handles]
    BY DEF NoJob, Handles
  <2> QED BY <1>1, <2>1, <2>2 DEF MemoryLost, BusType
<1>6. CtlType' /\ AuxType'
  <2>1. orphans' \subseteq Pids /\ maint' = maint /\ req' = req
    BY DEF DaemonCrash, Shutdown, AuxType, HostType
  <2> QED BY <1>1, <2>1 DEF MemoryLost, CtlType, AuxType
<1>7. DownInv'
  <2>1. \A a \in Pids : ~Active(a)'
    BY <1>1 DEF MemoryLost, Active
  <2> QED BY <1>1, <2>1 DEF MemoryLost, DownInv
<1>8. \A a \in Pids : ~Owns(a)' /\ ~Registered(a)' /\ step'[a] # "registered"
  <2>1. \A a \in Pids : a # NoPid
    BY DEF Pids, NoPid
  <2> QED BY <1>1, <2>1 DEF MemoryLost, Owns, Guarded, Registered, Active
<1>9. OwnershipInv' /\ KilledInv' /\ IndexAccounted' /\ LiveAccounted' /\ TapKnown'
  BY <1>1, <1>8 DEF MemoryLost, OwnershipInv, KilledInv, IndexAccounted, LiveAccounted,
                    TapKnown
<1>10. RowVmInv'
  <2>1. ASSUME NEW s \in Services PROVE row'[s].vm = row[s].vm
    <3>1. row[s] \in ServiceRows
      BY DEF RowType
    <3>2. row'[s] \in {row[s], [row[s] EXCEPT !.status = "stopped", !.upstream = NoPid]}
      BY ZenonT(40) DEF DaemonCrash, Shutdown
    <3> QED BY <3>1, <3>2 DEF ServiceRows
  <2>2. svc' = svc /\ tap' = tap
    BY DEF DaemonCrash, Shutdown
  <2>3. \A a \in Pids : step[a] \notin Early => step'[a] \notin Early
    BY <1>1 DEF MemoryLost, Active, Early
  <2>4. \A s \in Services : row[s].vm # NoPid => row[s].vm \in Pids
    BY DEF RowType, ServiceRows, Handles
  <2> QED BY <2>1, <2>2, <2>3, <2>4 DEF RowVmInv
<1> QED BY <1>2, <1>3, <1>4, <1>5, <1>6, <1>7, <1>9, <1>10

\* What startup makes of a row and of the registry.  The status 'crashed' is
\* refused by the database, so a row that is running stays so.
LEMMA StartupRows ==
  ASSUME TypeOK, Startup, NEW s \in Services
  PROVE  /\ row'[s] \in ServiceRows
         /\ row'[s].vm = row[s].vm
         /\ row[s].status = "running" => row'[s] = row[s]
         /\ registry'[s] = IF s \in Recovered THEN row[s].vm ELSE NoPid
<1>1. row[s] \in ServiceRows
  BY DEF TypeOK, RowType
<1>2. MarkCrashed(row[s]) = row[s]
  BY DEF MarkCrashed, StatusCheck
<1>3. row'[s] = IF row[s].status = "draining" /\ OnNode(s)
                THEN [row[s] EXCEPT !.status = "suspended", !.upstream = NoPid]
                ELSE row[s]
  BY <1>2 DEF Startup, StartupRow
<1>4. [row[s] EXCEPT !.status = "suspended", !.upstream = NoPid] \in ServiceRows
  BY <1>1, RowUpdates DEF StatusCheck
<1>5. row'[s] \in ServiceRows /\ row'[s].vm = row[s].vm
  BY <1>1, <1>3, <1>4 DEF ServiceRows
<1>6. row[s].status = "running" => row'[s] = row[s]
  BY <1>3
<1>7. registry'[s] = IF s \in Recovered THEN row[s].vm ELSE NoPid
  BY <1>6 DEF Startup, Recovered
<1> QED BY <1>5, <1>6, <1>7

\* run_cleanup, reattach_ebpf and rebuild_registry.
LEMMA StartupStep ==
  ASSUME NodeAssumption, RecoveryInv, Startup
  PROVE  RecoveryInv'
<1> USE DEF RecoveryInv, TypeOK
<1>1. \A s \in Services : OnNode(s) =>
        /\ row[s].vm \in Pids /\ svc[row[s].vm] = s /\ step[row[s].vm] \notin Early
        /\ tap[row[s].vm] \in Indices
  BY DEF OnNode, RowVmInv, RowType, ServiceRows, Handles
<1>2. Known \subseteq Services /\ Recovered \subseteq Services
      /\ \A s \in Known \cup Recovered : OnNode(s)
  BY DEF Known, Recovered
<1>3. UNCHANGED <<step, svc, msg, tap, undo, dropping, down, ev, job, waiting, susp, req,
                  leaked>>
  BY DEF Startup, taskVars, busVars
<1>4. up = FALSE /\ up' = TRUE
  BY DEF Startup, CtlType
<1>5. \A s \in Services :
        registry'[s] # NoPid => /\ s \in Recovered /\ registry'[s] = row[s].vm
                                /\ registry'[s] \in Pids /\ svc[registry'[s]] = s
                                /\ step[registry'[s]] \notin Early
                                /\ tap[registry'[s]] \in Indices
  BY <1>1, <1>2, StartupRows
<1>6. RowType'
  <2>1. \A s \in Services : row'[s] \in ServiceRows
    BY StartupRows
  <2> QED BY <2>1 DEF Startup, RowType
<1>7. TaskType' /\ BusType'
  BY <1>3 DEF TaskType, BusType
<1>8. HostType'
  <2>1. registry' \in [Services -> Handles]
    BY <1>5 DEF Startup, Handles
  <2>2. inUse' \subseteq Indices
    BY <1>1, <1>2 DEF Startup, TapOf
  <2>3. live' \subseteq Pids /\ live' \subseteq live
    BY DEF Startup, HostType
  <2>4. dev' \in [Indices -> Pids \cup {NoDev, Idle}]
    BY <2>3 DEF Startup, HostType
  <2> QED BY <1>3, <2>1, <2>2, <2>3, <2>4 DEF HostType
<1>9. CtlType' /\ AuxType'
  <2>1. maint' \in BOOLEAN
    BY DEF Startup
  <2>2. orphans' \subseteq Pids
    BY DEF Startup, AuxType, HostType
  <2> QED BY <1>3, <1>4, <2>1, <2>2 DEF CtlType, AuxType
<1>10. DownInv'
  BY <1>4 DEF DownInv
<1>11. ASSUME NEW a \in Pids, Registered(a)'
       PROVE  step[a] \notin Early /\ tap[a] \in Indices
  <2>1. PICK s \in Services : registry'[s] = a
    BY <1>11 DEF Registered
  <2>2. registry'[s] # NoPid
    BY <2>1 DEF Pids, NoPid
  <2> QED BY <1>5, <2>1, <2>2
<1>12. \A a \in Pids : down[a] = "none" /\ undo[a] = NoPid /\ ~Active(a) /\ a \notin dropping
  BY <1>4 DEF DownInv
<1>13. OwnershipInv'
  <2>1. \A s \in Services : registry'[s] # NoPid => svc'[registry'[s]] = s
    BY <1>3, <1>5
  <2> QED BY <2>1, <1>3, <1>11, <1>12 DEF OwnershipInv, Early
<1>14. KilledInv'
  BY <1>3, <1>12 DEF KilledInv
<1>15. TapKnown'
  BY <1>3, <1>11, <1>12 DEF TapKnown, Owns, Guarded, Active
<1>16. RowVmInv'
  <2>1. \A s \in Services : row'[s].vm = row[s].vm
    BY StartupRows
  <2> QED BY <1>3, <2>1 DEF RowVmInv
<1>17. IndexAccounted'
  <2>1. ASSUME NEW i \in inUse' PROVE \E a \in Pids : Owns(a)' /\ tap'[a] = i
    <3>1. PICK s \in Known : i = tap[row[s].vm] /\ s \notin Stale
      BY <2>1 DEF Startup, TapOf
    <3>2. s \in Recovered /\ s \in Services
      BY <3>1 DEF Known, Stale, Recovered
    <3>3. registry'[s] = row[s].vm /\ row[s].vm \in Pids
      BY <1>1, <1>2, <3>2, StartupRows
    <3>4. PICK a \in Pids : a = row[s].vm
      BY <3>3
    <3>5. Registered(a)'
      BY <3>2, <3>3, <3>4 DEF Registered
    <3>6. Owns(a)' /\ tap'[a] = i
      BY <1>3, <3>1, <3>4, <3>5 DEF Owns
    <3> QED BY <3>6
  <2> QED BY <2>1 DEF IndexAccounted
<1>18. LiveAccounted'
  <2>1. \A a \in live' : (\E s \in Services : registry'[s] = a) \/ a \in orphans'
    BY DEF Startup
  <2> QED BY <2>1 DEF LiveAccounted, Registered
<1> QED BY <1>6, <1>7, <1>8, <1>9, <1>10, <1>13, <1>14, <1>15, <1>16, <1>17, <1>18

LEMMA RecoveryInit ==
  ASSUME TapAssumption, NodeAssumption, Init
  PROVE  RecoveryInv /\ TapExclusive
<1>1. SomeService \in Services
  BY DEF SomeService, NodeAssumption
<1>2. RowType /\ TaskType /\ HostType
  <2>1. RowType
    BY DEF Init, RowType, ServiceRows, Handles, NoPid
  <2>2. TaskType
    BY <1>1 DEF Init, TaskType, Steps, Handles, NoPid, NoTap
  <2>3. HostType
    BY DEF Init, HostType, Handles, NoPid, NoDev
  <2> QED BY <2>1, <2>2, <2>3
<1>3. BusType /\ CtlType /\ AuxType
  <2>1. BusType
    BY <1>1 DEF Init, BusType, EventRecords, EventStates, NoJob, Handles, NoPid
  <2>2. CtlType /\ AuxType
    BY DEF Init, CtlType, AuxType
  <2> QED BY <2>1, <2>2
<1>4. \A a \in Pids : a # NoPid /\ ~Owns(a)
  BY DEF Init, Pids, NoPid, Owns, Guarded, Registered
<1>5. OwnershipInv /\ TapExclusive /\ TapKnown
  BY <1>4 DEF Init, OwnershipInv, TapExclusive, TapKnown, Registered
<1>6. KilledInv /\ IndexAccounted /\ LiveAccounted
  BY DEF Init, KilledInv, IndexAccounted, LiveAccounted
<1>7. RowVmInv /\ DownInv
  BY DEF Init, RowVmInv, DownInv
<1> QED BY <1>2, <1>3, <1>5, <1>6, <1>7 DEF RecoveryInv, TypeOK

LEMMA RecoveryStep ==
  ASSUME TapAssumption, NodeAssumption, RecoveryInv, [Next]_vars
  PROVE  RecoveryInv'
<1>1. CASE Next /\ ~Restarts
  BY <1>1, TypeStep, OwnershipStep, AccountStep, KnownStep, DownStep DEF RecoveryInv
<1>2. CASE Restarts
  BY <1>2, EndStep, StartupStep DEF Restarts
<1>3. CASE UNCHANGED vars
  <2>1. TypeOK'
    BY <1>3 DEF RecoveryInv, vars, taskVars, hostVars, busVars, ctlVars, auxVars, TypeOK,
                RowType, TaskType, HostType, BusType, CtlType, AuxType
  <2>2. \A a \in Pids : /\ Owns(a) <=> Owns(a)'
                        /\ Registered(a) <=> Registered(a)'
                        /\ Active(a) <=> Active(a)'
    BY <1>3 DEF vars, taskVars, hostVars, Owns, Guarded, Registered, Active
  <2>3. UNCHANGED <<registry, svc, step, dropping, down, tap, inUse, live, undo,
                    leaked, orphans, up, row, job, waiting, susp>>
    BY <1>3 DEF vars, taskVars, hostVars, busVars, ctlVars, auxVars
  <2>4. OwnershipInv' /\ TapKnown'
    BY <2>2, <2>3 DEF RecoveryInv, OwnershipInv, TapKnown
  <2>5. KilledInv' /\ IndexAccounted'
    BY <2>2, <2>3 DEF RecoveryInv, KilledInv, IndexAccounted
  <2>6. LiveAccounted'
    <3>1. live \subseteq Pids
      BY DEF RecoveryInv, TypeOK, HostType
    <3> QED BY <2>2, <2>3, <3>1 DEF RecoveryInv, LiveAccounted
  <2>7. RowVmInv' /\ DownInv'
    BY <2>2, <2>3 DEF RecoveryInv, RowVmInv, DownInv
  <2> QED BY <2>1, <2>4, <2>5, <2>6, <2>7 DEF RecoveryInv
<1> QED BY <1>1, <1>2, <1>3

\* The invariant holds across any number of crashes, shutdowns and restarts of
\* the daemon, under every fault, for any number of services, attempts, events,
\* permits and indices.
THEOREM RecoveryInvariant == Spec => []RecoveryInv
<1>1. Init => RecoveryInv
  BY TapAssumption, NodeAssumption, RecoveryInit
<1>2. RecoveryInv /\ [Next]_vars => RecoveryInv'
  BY TapAssumption, NodeAssumption, RecoveryStep
<1> QED BY <1>1, <1>2, PTL DEF Spec

\* The platform's state is well typed: the status column stays inside its CHECK
\* constraint and every handle, index and event is one of the program's.
THEOREM TypeCorrect == Spec => []TypeOK
<1>1. RecoveryInv => TypeOK
  BY DEF RecoveryInv
<1> QED BY <1>1, RecoveryInvariant, PTL

\* An index is lost to the pool only through the paths recorded in leaked: the
\* overwritten handle, the cut rollback, the suspend consumer and the audit.  What
\* a restart reads back from the rows is owned by the handles it rebuilds.
THEOREM IndicesAccounted == Spec => []IndexAccounted
<1>1. RecoveryInv => IndexAccounted
  BY DEF RecoveryInv
<1> QED BY <1>1, RecoveryInvariant, PTL

\* A Firecracker process escapes the daemon only through the paths recorded in
\* orphans: the timeout of a booted VM, the overwritten handle, the audit and a
\* restart that finds no running row for it.
THEOREM ProcessesAccounted == Spec => []LiveAccounted
<1>1. RecoveryInv => LiveAccounted
  BY DEF RecoveryInv
<1> QED BY <1>1, RecoveryInvariant, PTL

\* Startup recovery spares every healthy VM, its process, its device, its index
\* and its handle, unless a row taken for the remains of a crash names its TAP.
LEMMA StartupSpares ==
  ASSUME RecoveryInv, Startup, NEW s \in Recovered,
         row[s].vm \in live, dev[tap[row[s].vm]] = row[s].vm,
         tap[row[s].vm] \notin TapOf(Stale)
  PROVE  /\ row[s].vm \in live' /\ dev'[tap[row[s].vm]] = row[s].vm
         /\ tap[row[s].vm] \in inUse' /\ registry'[s] = row[s].vm
<1> DEFINE v == row[s].vm
<1>1. s \in Services /\ OnNode(s) /\ row[s].status = "running"
  BY DEF Recovered
<1>2. v \in Pids /\ tap[v] \in Indices /\ v # NoDev
  BY <1>1 DEF OnNode, RecoveryInv, RowVmInv, TypeOK, RowType, ServiceRows, Handles, Pids,
              NoDev
<1>3. tap[v] \in TapOf(Known) /\ DeviceKept(tap[v])
  <2>1. s \in Known
    BY <1>1 DEF Known
  <2> QED BY <2>1 DEF TapOf, DeviceKept
<1>4. s \notin Stale /\ s \notin Unrestorable
  BY <1>1, <1>2, <1>3 DEF Stale, Unrestorable
<1>5. \A t \in Stale \cup Unrestorable : row[t].vm # v
  <2>1. \A t \in Stale \cup Unrestorable : t \in Services
    BY DEF Stale, Unrestorable, Recovered
  <2>2. \A t \in Services : row[t].vm = v => t = s
    BY <1>1, <1>2 DEF RecoveryInv, RowVmInv, Pids, NoPid
  <2> QED BY <1>4, <2>1, <2>2
<1>6. v \in live'
  BY <1>5 DEF Startup
<1>7. dev'[tap[v]] = v
  BY <1>2, <1>3, <1>6 DEF Startup
<1>8. tap[v] \in inUse'
  BY <1>3 DEF Startup
<1>9. registry'[s] = v
  BY <1>1, StartupRows DEF RecoveryInv
<1> QED BY <1>6, <1>7, <1>8, <1>9

\* ... at every start of the daemon, whatever happened before it.
THEOREM StartupSparesHealthy == Spec => StartupSparesUnnamed
<1>1. ASSUME RecoveryInv, [Next]_vars
      PROVE  [~up /\ up' => \A s \in Recovered :
                /\ row[s].vm \in live /\ dev[tap[row[s].vm]] = row[s].vm
                /\ tap[row[s].vm] \notin TapOf(Stale)
                => /\ row[s].vm \in live' /\ dev'[tap[row[s].vm]] = row[s].vm
                   /\ tap[row[s].vm] \in inUse' /\ registry'[s] = row[s].vm]_vars
  <2>1. CASE Startup
    BY <1>1, <2>1, StartupSpares
  <2>2. CASE DaemonCrash \/ Shutdown
    BY <2>2 DEF DaemonCrash, Shutdown, MemoryLost
  <2>3. CASE Next /\ ~Restarts
    BY <2>3, UpUnchanged
  <2> QED BY <1>1, <2>1, <2>2, <2>3 DEF Restarts
<1> QED BY <1>1, RecoveryInvariant, PTL DEF Spec, StartupSparesUnnamed

-----------------------------------------------------------------------------
(* One life of the daemon *)

\* Across a restart exclusivity can be lost, as a stale tap_name may free the index
\* of a running VM.  Until then it is kept, together with what the node always keeps.
NodeInv ==
  /\ up = TRUE
  /\ TypeOK /\ OwnershipInv /\ TapExclusive
  /\ KilledInv /\ IndexAccounted /\ LiveAccounted

\* Until the daemon is restarted the invariant holds, for any number of services,
\* attempts, events and indices and any other fault.
THEOREM NodeInvariant ==
  ASSUME "restart" \notin Faults
  PROVE  Spec => []NodeInv
<1> DEFINE Life == up = TRUE /\ TapExclusive
<1>1. Init => Life
  BY TapAssumption, NodeAssumption, RecoveryInit DEF Init
<1>2. ASSUME RecoveryInv, Life, [Next]_vars PROVE Life'
  <2>1. ~Restarts
    BY <1>2 DEF Restarts, DaemonCrash, Shutdown, Startup
  <2>2. CASE Next
    BY <1>2, <2>1, <2>2, TapAssumption, NodeAssumption, OwnershipStep, UpUnchanged
    DEF RecoveryInv
  <2>3. CASE UNCHANGED vars
    <3>1. \A a \in Pids : Owns(a) <=> Owns(a)'
      BY <2>3 DEF vars, taskVars, hostVars, Owns, Guarded, Registered
    <3>2. UNCHANGED <<tap, inUse, up>>
      BY <2>3 DEF vars, taskVars, hostVars, ctlVars
    <3> QED BY <1>2, <3>1, <3>2 DEF TapExclusive
  <2> QED BY <1>2, <2>2, <2>3
<1>3. RecoveryInv /\ Life => NodeInv
  BY DEF RecoveryInv, NodeInv
<1> QED BY <1>1, <1>2, <1>3, RecoveryInvariant, PTL DEF Spec

\* No TAP index (device name, guest address) has two owners, whatever the
\* interleaving of provisions, rollbacks, timeouts, redeliveries, crashes of VMs,
\* suspensions and deprovisions of one life of the daemon.
THEOREM ExclusiveTaps ==
  ASSUME "restart" \notin Faults
  PROVE  Spec => []TapExclusive
<1>1. NodeInv => TapExclusive
  BY DEF NodeInv
<1> QED BY <1>1, NodeInvariant, PTL

-----------------------------------------------------------------------------
(* Exclusive indices across restarts *)

\* The rows a start reads name each running VM's TAP once: neither another running
\* row nor one cleanup_stale_provisioning takes for the remains of a crash has the
\* same tap_name.  A row keeps its tap_name when its VM is torn down, so the code
\* does not ensure it.
TapsNamedOnce ==
  \A s \in Recovered : \A t \in Recovered \cup Stale :
    tap[row[s].vm] = tap[row[t].vm] => s = t

\* When the daemon ends nobody owns an index; when it starts from rows that name
\* each TAP once, the handles it rebuilds own theirs alone.
LEMMA RestartExclusive ==
  ASSUME RecoveryInv, Restarts, Startup => TapsNamedOnce
  PROVE  TapExclusive'
<1>1. CASE DaemonCrash \/ Shutdown
  <2>1. MemoryLost
    BY <1>1 DEF DaemonCrash, Shutdown
  <2>2. \A a \in Pids : a # NoPid
    BY DEF Pids, NoPid
  <2>3. \A a \in Pids : ~Owns(a)'
    BY <2>1, <2>2 DEF MemoryLost, Owns, Guarded, Registered, Active
  <2> QED BY <2>3 DEF TapExclusive
<1>2. CASE Startup
  <2>1. /\ UNCHANGED <<step, tap, dropping, down>> /\ up = FALSE
        /\ inUse' = TapOf(Known) \ TapOf(Stale)
    BY <1>2 DEF Startup, taskVars, RecoveryInv, TypeOK, CtlType
  <2>2. ASSUME NEW a \in Pids, Owns(a)'
        PROVE  \E s \in Recovered : a = row[s].vm
    <3>1. Registered(a)'
      BY <2>1, <2>2 DEF RecoveryInv, DownInv, Owns, Guarded, Active
    <3>2. PICK s \in Services : registry'[s] = a
      BY <3>1 DEF Registered
    <3>3. a # NoPid
      BY DEF Pids, NoPid
    <3> QED BY <1>2, <3>2, <3>3, StartupRows DEF RecoveryInv
  <2>3. ASSUME NEW a \in Pids, Owns(a)' PROVE tap'[a] \in inUse'
    <3>1. PICK s \in Recovered : a = row[s].vm
      BY <2>2, <2>3
    <3>2. s \in Known /\ s \notin Stale
      BY DEF Recovered, Known, Stale
    <3>3. tap[a] \in TapOf(Known)
      BY <3>1, <3>2 DEF TapOf
    <3>4. tap[a] \notin TapOf(Stale)
      <4>1. ASSUME NEW t \in Stale, tap[a] = tap[row[t].vm] PROVE FALSE
        BY <1>2, <3>1, <3>2, <4>1 DEF TapsNamedOnce
      <4> QED BY <4>1 DEF TapOf
    <3> QED BY <2>1, <3>3, <3>4
  <2>4. ASSUME NEW a \in Pids, NEW b \in Pids, Owns(a)', Owns(b)', tap'[b] = tap'[a]
        PROVE  a = b
    <3>1. PICK s \in Recovered : a = row[s].vm
      BY <2>2, <2>4
    <3>2. PICK t \in Recovered : b = row[t].vm
      BY <2>2, <2>4
    <3>3. s = t
      BY <1>2, <2>1, <2>4, <3>1, <3>2 DEF TapsNamedOnce
    <3> QED BY <3>1, <3>2, <3>3
  <2> QED BY <2>3, <2>4 DEF TapExclusive
<1> QED BY <1>1, <1>2 DEF Restarts

\* No TAP index has two owners across any number of crashes, shutdowns and starts,
\* as long as every start finds rows that name each TAP once: a stale tap_name is
\* the only way exclusivity is ever lost.
THEOREM ExclusiveAcrossRestarts ==
  Spec /\ [][~up /\ up' => TapsNamedOnce]_vars => []TapExclusive
<1>1. Init => TapExclusive
  BY TapAssumption, NodeAssumption, RecoveryInit
<1>2. ASSUME RecoveryInv, TapExclusive, [Next]_vars, [~up /\ up' => TapsNamedOnce]_vars
      PROVE  TapExclusive'
  <2>1. CASE UNCHANGED vars
    <3>1. \A a \in Pids : Owns(a) <=> Owns(a)'
      BY <2>1 DEF vars, taskVars, hostVars, Owns, Guarded, Registered
    <3>2. UNCHANGED <<tap, inUse>>
      BY <2>1 DEF vars, taskVars, hostVars
    <3> QED BY <1>2, <3>1, <3>2 DEF TapExclusive
  <2>2. CASE Next /\ ~Restarts
    BY <1>2, <2>2, TapAssumption, NodeAssumption, OwnershipStep DEF RecoveryInv
  <2>3. CASE Restarts
    <3>1. Startup => ~up /\ up' /\ ~UNCHANGED vars
      BY DEF Startup, vars, ctlVars
    <3> QED BY <1>2, <2>3, <3>1, RestartExclusive
  <2> QED BY <1>2, <2>1, <2>2, <2>3
<1> QED BY <1>1, <1>2, RecoveryInvariant, PTL DEF Spec

-----------------------------------------------------------------------------
(* One provision event, one task: what holds when a service is provisioned by *)
(* one deploy and its event is neither redelivered to a second task nor lost  *)

\* No restart_service and no rollback_service, and the daemon, the acks and the
\* ack timers do what they are meant to.  Timeouts, database errors, VM crashes,
\* suspensions, audits and deletions are not excluded.
DeployedOnce ==
  /\ Ops \cap {"restart", "rollback"} = {}
  /\ Faults \cap {"redeliver", "acklost", "restart"} = {}

IsProvision(e) == ev[e].kind = "provision" /\ ev[e].st # "free"

\* The attempt has no handle yet, or its rollback has removed the handle.
WithoutHandle(a) == step[a] \in {"new", "alloc", "tap", "booted", "nakT", "ackP"}

\* A service has at most one provision event, ever, and only once it has a row.
OneProvision ==
  /\ \A s \in Services : req[s] # "restart"
  /\ \A s \in Services : registry[s] # NoPid => row[s].status # "absent"
  /\ \A e \in Events : IsProvision(e) => row[ev[e].svc].status # "absent"
  /\ \A e, f \in Events : IsProvision(e) /\ IsProvision(f) /\ ev[e].svc = ev[f].svc => e = f

\* A delivered provision is held by exactly one of the main loop and the tasks,
\* and what a task or a deprovision job holds is a delivery of its own.
TaskHolds ==
  \A a \in Pids : Active(a) =>
    /\ msg[a] \in Events /\ IsProvision(msg[a])
    /\ ev[msg[a]].st = "inflight" /\ ev[msg[a]].svc = svc[a]
    /\ waiting # msg[a]
    /\ \A b \in Pids : Active(b) /\ msg[b] = msg[a] => a = b
DeliveryHeld ==
  /\ waiting # 0 => IsProvision(waiting) /\ ev[waiting].st = "inflight"
  /\ \A e \in Events : IsProvision(e) /\ ev[e].st = "inflight" =>
       waiting = e \/ \E a \in Pids : Active(a) /\ msg[a] = e
  /\ \A e \in Events : job[e] # NoJob => ev[e].kind = "deprovision" /\ ev[e].st = "inflight"

\* While a provision event waits for a task, and until its task registers a VM,
\* the service has no handle for the task to overwrite.
NotRegistered ==
  /\ \A e \in Events : IsProvision(e) /\ (ev[e].st \in {"outbox", "queued"} \/ waiting = e)
       => registry[ev[e].svc] = NoPid
  /\ \A a \in Pids : WithoutHandle(a) => registry[svc[a]] = NoPid

SingleInv == OneProvision /\ TaskHolds /\ DeliveryHeld /\ NotRegistered

\* What a change of the state of one event leaves alone.
LEMMA EventState ==
  ASSUME ev \in [Events -> EventRecords], NEW e \in Events, NEW x \in EventStates,
         \/ ev' = [ev EXCEPT ![e] = [@ EXCEPT !.st = x]]
         \/ ev' = [ev EXCEPT ![e] = [@ EXCEPT !.st = x, !.n = ev[e].n + 1]]
  PROVE  /\ \A f \in Events : ev'[f].kind = ev[f].kind /\ ev'[f].svc = ev[f].svc
         /\ \A f \in Events : f # e => ev'[f].st = ev[f].st
         /\ ev'[e].st = x
<1>1. /\ ev[e] \in EventRecords
      /\ \A f \in Events : f # e => ev'[f] = ev[f]
      /\ \/ ev'[e] = [ev[e] EXCEPT !.st = x]
         \/ ev'[e] = [ev[e] EXCEPT !.st = x, !.n = ev[e].n + 1]
  OBVIOUS
<1>2. ev'[e].kind = ev[e].kind /\ ev'[e].svc = ev[e].svc /\ ev'[e].st = x
  BY <1>1 DEF EventRecords
<1> QED BY <1>1, <1>2

\* Steps that start or end no task: handles only leave the registry, rows only
\* change status, an attempt is without a handle because it was or lost it now,
\* and a provision event in flight stays there while one that is not may move on
\* towards its delivery, be purged or be given up.
LEMMA SingleKept ==
  ASSUME TypeOK, SingleInv,
         UNCHANGED <<waiting, svc, msg>>,
         \A s \in Services :
           /\ req'[s] # "restart"
           /\ row[s].status # "absent" => row'[s].status # "absent"
           /\ registry'[s] \in {registry[s], NoPid},
         \A a \in Pids : /\ Active(a) <=> Active(a)'
                         /\ WithoutHandle(a)' => WithoutHandle(a) \/ registry'[svc[a]] = NoPid,
         \A e \in Events :
           /\ IsProvision(e)' =>
                /\ IsProvision(e) /\ ev'[e].svc = ev[e].svc
                /\ \/ ev'[e].st = ev[e].st
                   \/ ev[e].st \in {"outbox", "queued"} /\ ev'[e].st # "inflight"
           /\ IsProvision(e) /\ ev[e].st = "inflight" => IsProvision(e)' /\ ev'[e].st = "inflight"
           /\ job'[e] # NoJob => ev'[e].kind = "deprovision" /\ ev'[e].st = "inflight"
  PROVE  SingleInv'
<1>1. /\ ev \in [Events -> EventRecords] /\ svc \in [Pids -> Services]
      /\ waiting \in Events \cup {0}
  BY DEF TypeOK, BusType, TaskType
<1>2. \A e \in Events : ev[e].svc \in Services
  BY <1>1, EventUpdates
<1>3. OneProvision'
  BY <1>2 DEF SingleInv, OneProvision
<1>4. TaskHolds'
  <2>1. ASSUME NEW a \in Pids, Active(a)'
        PROVE  /\ msg'[a] \in Events /\ IsProvision(msg[a])'
               /\ ev'[msg'[a]].st = "inflight" /\ ev'[msg'[a]].svc = svc'[a]
               /\ waiting' # msg'[a]
               /\ \A b \in Pids : Active(b)' /\ msg'[b] = msg'[a] => a = b
    <3>1. PICK m \in Events : m = msg[a]
      BY <2>1 DEF SingleInv, TaskHolds
    <3>2. /\ IsProvision(m) /\ ev[m].st = "inflight" /\ ev[m].svc = svc[a] /\ waiting # m
          /\ \A b \in Pids : Active(b) /\ msg[b] = m => a = b
      BY <2>1, <3>1 DEF SingleInv, TaskHolds
    <3>3. IsProvision(m)' /\ ev'[m].st = "inflight" /\ ev'[m].svc = svc'[a]
      BY <3>2
    <3> QED BY <3>1, <3>2, <3>3 DEF IsProvision
  <2> QED BY <2>1 DEF TaskHolds
<1>5. DeliveryHeld'
  <2>1. waiting' # 0 => IsProvision(waiting)' /\ ev'[waiting'].st = "inflight"
    <3>1. waiting # 0 => \A e \in Events : e = waiting => IsProvision(e)' /\ ev'[e].st = "inflight"
      BY DEF SingleInv, DeliveryHeld
    <3> QED BY <1>1, <3>1 DEF IsProvision
  <2>2. \A e \in Events : IsProvision(e)' /\ ev'[e].st = "inflight" =>
          waiting' = e \/ \E a \in Pids : Active(a)' /\ msg'[a] = e
    BY DEF SingleInv, DeliveryHeld
  <2> QED BY <2>1, <2>2 DEF DeliveryHeld
<1>6. NotRegistered'
  <2>1. ASSUME NEW e \in Events, IsProvision(e)',
               ev'[e].st \in {"outbox", "queued"} \/ waiting' = e
        PROVE  registry'[ev'[e].svc] = NoPid
    <3>1. registry[ev[e].svc] = NoPid
      BY <2>1 DEF SingleInv, NotRegistered
    <3> QED BY <1>2, <2>1, <3>1
  <2>2. \A a \in Pids : WithoutHandle(a)' => registry'[svc'[a]] = NoPid
    BY <1>1 DEF SingleInv, NotRegistered
  <2> QED BY <2>1, <2>2 DEF NotRegistered
<1> QED BY <1>3, <1>4, <1>5, <1>6 DEF SingleInv

\* ... of which those that leave the bus alone are a case.
LEMMA SingleQuiet ==
  ASSUME TypeOK, SingleInv,
         UNCHANGED <<ev, job, waiting, svc, msg>>,
         \A s \in Services :
           /\ req'[s] # "restart"
           /\ row[s].status # "absent" => row'[s].status # "absent"
           /\ registry'[s] \in {registry[s], NoPid},
         \A a \in Pids : /\ Active(a) <=> Active(a)'
                         /\ WithoutHandle(a)' => WithoutHandle(a) \/ registry'[svc[a]] = NoPid
  PROVE  SingleInv'
<1>1. ASSUME NEW e \in Events
      PROVE  /\ IsProvision(e)' <=> IsProvision(e)
             /\ job'[e] # NoJob => ev'[e].kind = "deprovision" /\ ev'[e].st = "inflight"
  BY DEF IsProvision, SingleInv, DeliveryHeld
<1> QED BY <1>1, SingleKept

\* A task answers its delivery and ends: the event leaves the flight, back to
\* the queue only when the service has no handle.
LEMMA SingleAnswer ==
  ASSUME TypeOK, SingleInv, NEW a \in Pids, Active(a), Goto(a, "done"),
         NEW x \in {"acked", "queued", "dead"},
         x = "queued" => registry[svc[a]] = NoPid,
         ev' = [ev EXCEPT ![msg[a]] = [@ EXCEPT !.st = x]],
         UNCHANGED <<job, waiting, svc, msg, req, registry>>,
         \A s \in Services : row[s].status # "absent" => row'[s].status # "absent"
  PROVE  SingleInv'
<1> DEFINE e == msg[a]
<1>1. ev \in [Events -> EventRecords] /\ svc \in [Pids -> Services] /\ step \in [Pids -> Steps]
      /\ waiting \in Events \cup {0}
  BY DEF TypeOK, BusType, TaskType
<1>2. /\ e \in Events /\ ev[e].st = "inflight" /\ IsProvision(e)
      /\ ev[e].svc = svc[a] /\ waiting # e
      /\ \A b \in Pids : Active(b) /\ msg[b] = e => b = a
  BY DEF SingleInv, TaskHolds
<1> HIDE DEF e
<1>3. /\ \A f \in Events : ev'[f].kind = ev[f].kind /\ ev'[f].svc = ev[f].svc
      /\ \A f \in Events : f # e => ev'[f].st = ev[f].st
      /\ ev'[e].st = x
  <2>1. x \in EventStates
    BY DEF EventStates
  <2> QED BY <1>1, <1>2, <2>1, EventState DEF e
<1>4. \A f \in Events : IsProvision(f)' <=> IsProvision(f)
  BY <1>2, <1>3 DEF IsProvision
<1>5. \A b \in Pids : /\ Active(b)' <=> Active(b) /\ b # a
                      /\ WithoutHandle(b)' => WithoutHandle(b)
  BY <1>1 DEF Goto, Active, WithoutHandle
<1>6. \A f \in Events : ev[f].svc \in Services
  BY <1>1, EventUpdates
<1>7. OneProvision'
  BY <1>3, <1>4, <1>6 DEF SingleInv, OneProvision
<1>8. TaskHolds'
  <2>1. ASSUME NEW b \in Pids, Active(b)'
        PROVE  /\ msg'[b] \in Events /\ IsProvision(msg[b])'
               /\ ev'[msg'[b]].st = "inflight" /\ ev'[msg'[b]].svc = svc'[b]
               /\ waiting' # msg'[b]
               /\ \A c \in Pids : Active(c)' /\ msg'[c] = msg'[b] => b = c
    <3>1. PICK m \in Events : m = msg[b]
      BY <1>5, <2>1 DEF SingleInv, TaskHolds
    <3>2. /\ Active(b) /\ m # e /\ IsProvision(m) /\ ev[m].st = "inflight"
          /\ ev[m].svc = svc[b] /\ waiting # m
          /\ \A c \in Pids : Active(c) /\ msg[c] = m => b = c
      BY <1>2, <1>5, <2>1, <3>1 DEF SingleInv, TaskHolds
    <3>3. IsProvision(m)' /\ ev'[m].st = "inflight" /\ ev'[m].svc = svc'[b]
      BY <1>3, <1>4, <3>2
    <3> QED BY <1>5, <3>1, <3>2, <3>3 DEF IsProvision
  <2> QED BY <2>1 DEF TaskHolds
<1>9. DeliveryHeld'
  <2>1. waiting' # 0 => IsProvision(waiting)' /\ ev'[waiting'].st = "inflight"
    BY <1>1, <1>2, <1>3 DEF SingleInv, DeliveryHeld, IsProvision
  <2>2. \A f \in Events : IsProvision(f)' /\ ev'[f].st = "inflight" =>
          waiting' = f \/ \E b \in Pids : Active(b)' /\ msg'[b] = f
    BY <1>3, <1>4, <1>5 DEF SingleInv, DeliveryHeld, e
  <2>3. \A f \in Events : job'[f] # NoJob => ev'[f].kind = "deprovision" /\ ev'[f].st = "inflight"
    BY <1>2, <1>3 DEF SingleInv, DeliveryHeld, IsProvision
  <2> QED BY <2>1, <2>2, <2>3 DEF DeliveryHeld, IsProvision
<1>10. NotRegistered'
  <2>1. ASSUME NEW f \in Events, IsProvision(f)',
               ev'[f].st \in {"outbox", "queued"} \/ waiting' = f
        PROVE  registry'[ev'[f].svc] = NoPid
    <3>1. CASE f = e
      BY <1>2, <1>3, <2>1, <3>1
    <3>2. CASE f # e
      BY <1>3, <1>4, <2>1, <3>2 DEF SingleInv, NotRegistered
    <3> QED BY <3>1, <3>2
  <2>2. \A b \in Pids : WithoutHandle(b)' => registry'[svc'[b]] = NoPid
    BY <1>5 DEF SingleInv, NotRegistered
  <2> QED BY <2>1, <2>2 DEF NotRegistered
<1> QED BY <1>7, <1>8, <1>9, <1>10 DEF SingleInv

\* What an UPDATE of the status and a transaction's DELETE and INSERT on the
\* outbox can do.
LEMMA StatusUpdate ==
  ASSUME RowType, NEW s \in Services, NEW x \in StatusCheck,
         \/ row' = [row EXCEPT ![s] = [@ EXCEPT !.status = x]]
         \/ row' = [row EXCEPT ![s] = [@ EXCEPT !.status = x, !.upstream = NoPid]]
         \/ row' = [row EXCEPT ![s] =
                      [@ EXCEPT !.status = x, !.upstream = NoPid, !.deleted = TRUE]]
  PROVE  row'[s].status = x /\ \A t \in Services : t # s => row'[t] = row[t]
<1>1. row[s] \in ServiceRows /\ row \in [Services -> ServiceRows]
  BY DEF RowType
<1>2. \A t \in Services : t # s => row'[t] = row[t]
  BY <1>1
<1>3. \/ row'[s] = [row[s] EXCEPT !.status = x]
      \/ row'[s] = [row[s] EXCEPT !.status = x, !.upstream = NoPid]
      \/ row'[s] = [row[s] EXCEPT !.status = x, !.upstream = NoPid, !.deleted = TRUE]
  BY <1>1
<1>4. row'[s].status = x
  BY <1>1, <1>3 DEF ServiceRows
<1> QED BY <1>2, <1>4

LEMMA PurgedEvents ==
  ASSUME ev \in [Events -> EventRecords], NEW s
  PROVE  \A f \in Events :
           \/ Purged(s)[f] = ev[f]
           \/ ev[f].st = "outbox" /\ ev[f].svc = s /\ Purged(s)[f].st = "free"
<1>1. ASSUME NEW f \in Events
      PROVE  [ev[f] EXCEPT !.st = "free"].st = "free"
  <2>1. ev[f] \in EventRecords
    OBVIOUS
  <2> QED BY <2>1 DEF EventRecords
<1> QED BY <1>1 DEF Purged

LEMMA EnqueueEvents ==
  ASSUME NEW box \in [Events -> EventRecords], NEW s, NEW kind, Enqueue(box, kind, s)
  PROVE  \E e \in Events :
           /\ box[e].st = "free"
           /\ ev'[e].kind = kind /\ ev'[e].svc = s /\ ev'[e].st = "outbox"
           /\ \A f \in Events : f # e => ev'[f] = box[f]
<1>1. PICK e \in Events :
        /\ \A f \in Events : f >= e => box[f].st = "free"
        /\ ev' = [box EXCEPT ![e] = [kind |-> kind, svc |-> s, st |-> "outbox", n |-> 0]]
  BY DEF Enqueue
<1>2. box[e].st = "free"
  BY <1>1 DEF Events
<1>3. ev'[e] = [kind |-> kind, svc |-> s, st |-> "outbox", n |-> 0]
  BY <1>1
<1> QED BY <1>1, <1>2, <1>3

\* The best-effort UPDATE to 'failed' creates no row and removes none.
LEMMA MarkFailedRows ==
  ASSUME RowType, NEW s \in Services, MarkFailed(s)
  PROVE  /\ \A t \in Services : t # s => row'[t] = row[t]
         /\ row'[s].status \in {row[s].status, "failed"}
<1>1. CASE UNCHANGED row
  BY <1>1
<1>2. CASE row' = [row EXCEPT ![s] = [@ EXCEPT !.status = "failed"]]
  <2>1. "failed" \in StatusCheck
    BY DEF StatusCheck
  <2> QED BY <1>2, <2>1, StatusUpdate
<1> QED BY <1>1, <1>2 DEF MarkFailed

\* The attempts' own steps.
LEMMA SingleAttempt ==
  ASSUME DeployedOnce, TypeOK, OwnershipInv, SingleInv, NEW a \in Pids,
         Attempt(a) \/ TimeoutFires(a)
  PROVE  SingleInv'
<1>0. /\ step \in [Pids -> Steps] /\ svc[a] \in Services /\ RowType
      /\ registry \in [Services -> Handles]
      /\ \A s \in Services : req[s] # "restart"
  BY DEF TypeOK, TaskType, HostType, SingleInv, OneProvision
<1>1. CASE \/ allocate_tap_index(a) \/ BuildFails(a) \/ CreateTap(a) \/ CreateTapBusy(a)
           \/ Boot(a) \/ BootFails(a) \/ ProbeFails(a) \/ WriteUndone(a) \/ TimeoutFires(a)
  <2>1. UNCHANGED <<ev, job, waiting, svc, msg, req, row, registry>>
    BY <1>1 DEF allocate_tap_index, BuildFails, CreateTap, CreateTapBusy, Boot, BootFails,
                ProbeFails, WriteUndone, TimeoutFires, hostVars, busVars, ctlVars
  <2>2. PICK x \in {"alloc", "tap", "booted", "failT", "failP"} :
          /\ step' = [step EXCEPT ![a] = x]
          /\ x \in {"alloc", "tap", "booted"} => step[a] \in {"new", "alloc", "tap"}
    BY <1>1 DEF allocate_tap_index, BuildFails, CreateTap, CreateTapBusy, Boot, BootFails,
                ProbeFails, WriteUndone, TimeoutFires, FailGuarded, Goto
  <2>3. Active(a)
    BY <1>1 DEF allocate_tap_index, BuildFails, CreateTap, CreateTapBusy, Boot, BootFails,
                ProbeFails, WriteUndone, TimeoutFires, InProvision, Active
  <2>4. \A b \in Pids : /\ Active(b) <=> Active(b)'
                        /\ WithoutHandle(b)' => WithoutHandle(b)
    BY <1>0, <2>2, <2>3 DEF Active, WithoutHandle
  <2> QED BY <1>0, <2>1, <2>4, SingleQuiet
<1>2. CASE WriteRunning(a)
  <2>1. UNCHANGED <<ev, job, waiting, svc, msg, req, registry>>
    BY <1>2 DEF WriteRunning, hostVars, busVars, ctlVars
  <2>2. step[a] = "registered" /\ step' = [step EXCEPT ![a] = "written"]
    BY <1>2 DEF WriteRunning, Goto
  <2>3. \A b \in Pids : /\ Active(b) <=> Active(b)'
                        /\ WithoutHandle(b)' => WithoutHandle(b)
    BY <1>0, <2>2 DEF Active, WithoutHandle
  <2>4. /\ row[svc[a]] \in ServiceRows
        /\ row' = [row EXCEPT ![svc[a]] =
                     [@ EXCEPT !.status = "running", !.vm = a, !.upstream = a]]
    BY <1>0, <1>2 DEF WriteRunning, RowType
  <2>5. [row[svc[a]] EXCEPT !.status = "running", !.vm = a, !.upstream = a].status = "running"
    BY <2>4 DEF ServiceRows
  <2>6. \A s \in Services : row[s].status # "absent" => row'[s].status # "absent"
    BY <1>0, <2>4, <2>5 DEF RowType
  <2> QED BY <1>0, <2>1, <2>3, <2>6, SingleQuiet
<1>3. CASE WriteFails(a) \/ rollback_provision(a)
  <2>1. UNCHANGED <<ev, job, waiting, svc, msg, req>>
    BY <1>3 DEF WriteFails, rollback_provision, busVars, ctlVars
  <2>2. /\ RemoveHandle(svc[a], "release") /\ MarkFailed(svc[a])
        /\ Active(a) /\ \E x \in {"undoing", "nakT", "ackP"} : step' = [step EXCEPT ![a] = x]
    BY <1>3 DEF WriteFails, rollback_provision, Goto, Active
  <2>3. /\ \A s \in Services : registry'[s] \in {registry[s], NoPid}
        /\ registry'[svc[a]] = NoPid
    BY <1>0, <2>2, Removal
  <2>4. \A s \in Services : row[s].status # "absent" => row'[s].status # "absent"
    BY <1>0, <2>2, MarkFailedRows
  <2>5. \A b \in Pids : /\ Active(b) <=> Active(b)'
                        /\ WithoutHandle(b)' => WithoutHandle(b) \/ b = a
    BY <1>0, <2>2 DEF Active, WithoutHandle
  <2> QED BY <1>0, <2>1, <2>3, <2>4, <2>5, SingleQuiet
<1>4. CASE RegisterVm(a)
  <2>1. /\ UNCHANGED <<ev, job, waiting, svc, msg, req, row>>
        /\ registry' = [registry EXCEPT ![svc[a]] = a]
        /\ step[a] = "booted" /\ step' = [step EXCEPT ![a] = "registered"]
    BY <1>4 DEF RegisterVm, Goto, busVars, ctlVars
  <2>2. \A b \in Pids : /\ Active(b) <=> Active(b)'
                        /\ WithoutHandle(b)' => WithoutHandle(b) /\ b # a
                        /\ WithoutHandle(b) => Active(b)
    BY <1>0, <2>1 DEF Active, WithoutHandle
  <2>3. Active(a) /\ \A e : IsProvision(e)' <=> IsProvision(e)
    BY <2>1 DEF Active, IsProvision
  \* The delivery of a is the only provision event of its service.
  <2>4. \A e \in Events : IsProvision(e) /\ ev[e].svc = svc[a] => e = msg[a]
    BY <2>3 DEF SingleInv, TaskHolds, OneProvision
  <2>5. row[svc[a]].status # "absent"
    BY <2>3 DEF SingleInv, TaskHolds, OneProvision
  <2>6. OneProvision'
    BY <1>0, <2>1, <2>3, <2>5 DEF SingleInv, OneProvision
  <2>7. TaskHolds' /\ DeliveryHeld'
    BY <2>1, <2>2, <2>3 DEF SingleInv, TaskHolds, DeliveryHeld
  <2>8. NotRegistered'
    <3>1. ASSUME NEW e \in Events, IsProvision(e)',
                 ev'[e].st \in {"outbox", "queued"} \/ waiting' = e
          PROVE  registry'[ev'[e].svc] = NoPid
      <4>1. ev[e].svc # svc[a]
        BY <2>1, <2>3, <2>4, <3>1 DEF SingleInv, TaskHolds
      <4>2. ev[e].svc \in Services /\ registry[ev[e].svc] = NoPid
        BY <2>1, <2>3, <3>1, EventUpdates DEF SingleInv, NotRegistered, TypeOK, BusType
      <4> QED BY <1>0, <2>1, <4>1, <4>2
    <3>2. ASSUME NEW b \in Pids, WithoutHandle(b)'
          PROVE  registry'[svc'[b]] = NoPid
      <4>1. svc[b] # svc[a]
        BY <2>2, <2>3, <2>4, <3>2 DEF SingleInv, TaskHolds
      <4>2. registry[svc[b]] = NoPid /\ svc[b] \in Services
        BY <2>2, <3>2 DEF SingleInv, NotRegistered, TypeOK, TaskType
      <4> QED BY <1>0, <2>1, <4>1, <4>2
    <3> QED BY <3>1, <3>2 DEF NotRegistered
  <2> QED BY <2>6, <2>7, <2>8 DEF SingleInv
<1>5. CASE AckProvisioned(a) \/ AckPermanent(a)
  <2>1. /\ Active(a) /\ Goto(a, "done") /\ Ack(msg[a])
        /\ UNCHANGED <<job, waiting, svc, msg, req, registry, row>>
    BY <1>5 DEF AckProvisioned, AckPermanent, Active, hostVars, ctlVars
  <2>2. ev' = [ev EXCEPT ![msg[a]] = [@ EXCEPT !.st = "acked"]]
    BY <2>1 DEF Ack, DeployedOnce
  <2> QED BY <2>1, <2>2, SingleAnswer
<1>6. CASE NakTransient(a)
  <2>1. /\ Active(a) /\ Goto(a, "done") /\ Nak(msg[a]) /\ step[a] = "nakT"
        /\ UNCHANGED <<job, waiting, svc, msg, req, registry>>
    BY <1>6 DEF NakTransient, Active, hostVars, ctlVars
  <2>2. PICK x \in {"queued", "dead"} : ev' = [ev EXCEPT ![msg[a]] = [@ EXCEPT !.st = x]]
    BY <2>1 DEF Nak, SingleInv, TaskHolds
  <2>3. registry[svc[a]] = NoPid
    BY <2>1 DEF SingleInv, NotRegistered, WithoutHandle
  <2>4. \A s \in Services : row[s].status # "absent" => row'[s].status # "absent"
    <3>1. CASE UNCHANGED row
      BY <3>1
    <3>2. CASE row' = [row EXCEPT ![svc[a]] = [@ EXCEPT !.status = "provisioning"]]
      BY <1>0, <3>2, StatusUpdate DEF StatusCheck
    <3> QED BY <1>6, <3>1, <3>2 DEF NakTransient
  <2> QED BY <2>1, <2>2, <2>3, <2>4, SingleAnswer
<1> QED BY <1>1, <1>2, <1>3, <1>4, <1>5, <1>6 DEF Attempt

\* Teardowns, exits of VMs and the background tasks.
LEMMA SingleBackground ==
  ASSUME TypeOK, OwnershipInv, SingleInv,
         \/ \E a \in Pids : ReleaseDropped(a) \/ Teardown(a) \/ VmExits(a)
         \/ Background
  PROVE  SingleInv'
<1>0. /\ RowType /\ registry \in [Services -> Handles]
      /\ \A s \in Services : req[s] # "restart"
  BY DEF TypeOK, HostType, SingleInv, OneProvision
<1>1. UNCHANGED <<ev, job, waiting, svc, msg, req, step>>
  BY DEF ReleaseDropped, Teardown, TeardownRelease, TeardownKill, TeardownDelete, VmExits,
         Background, CrashWatch, SuspendDrain, SuspendFinalize, SuspendKill, EbpfAudit,
         taskVars, busVars, ctlVars
<1>2. ASSUME \A s \in Services : /\ row[s].status # "absent" => row'[s].status # "absent"
                                 /\ registry'[s] \in {registry[s], NoPid}
      PROVE  SingleInv'
  BY <1>0, <1>1, <1>2, SingleQuiet DEF Active, WithoutHandle
<1>3. ASSUME NEW r \in ServiceRows, r.status # "absent"
      PROVE  /\ MarkCrashed(r).status # "absent"
             /\ [r EXCEPT !.status = "draining"].status # "absent"
             /\ [r EXCEPT !.status = "suspended", !.upstream = NoPid].status # "absent"
  BY <1>3 DEF ServiceRows, MarkCrashed, StatusCheck
<1>4. \A s \in Services : row[s] \in ServiceRows
  BY <1>0 DEF RowType
<1>5. CASE \E a \in Pids : ReleaseDropped(a) \/ Teardown(a) \/ VmExits(a)
  <2>1. UNCHANGED <<row, registry>>
    BY <1>5 DEF ReleaseDropped, Teardown, TeardownRelease, TeardownKill, TeardownDelete,
                VmExits
  <2> QED BY <1>2, <2>1
<1>6. CASE CrashWatch
  <2>1. \A s \in Services : /\ row'[s] \in {row[s], MarkCrashed(row[s])}
                            /\ registry'[s] \in {registry[s], NoPid}
    BY <1>6 DEF CrashWatch
  <2> QED BY <1>2, <1>3, <1>4, <2>1
<1>7. CASE SuspendDrain \/ SuspendFinalize
  <2>1. \A s \in Services :
          row'[s] \in {row[s], [row[s] EXCEPT !.status = "draining"],
                       [row[s] EXCEPT !.status = "suspended", !.upstream = NoPid]}
    BY <1>7 DEF SuspendDrain, SuspendFinalize
  <2>2. UNCHANGED registry
    BY <1>7 DEF SuspendDrain, SuspendFinalize, hostVars
  <2> QED BY <1>2, <1>3, <1>4, <2>1, <2>2
<1>8. ASSUME NEW s \in Services, SuspendKill(s) PROVE SingleInv'
  <2>1. UNCHANGED row /\ RemoveHandle(s, "kill")
    BY <1>8 DEF SuspendKill
  <2>2. \A t \in Services : registry'[t] \in {registry[t], NoPid}
    BY <1>8, <2>1, Removal
  <2> QED BY <1>2, <2>1, <2>2
<1>9. ASSUME NEW i \in Indices, EbpfAudit(i) PROVE SingleInv'
  <2>1. PICK s \in Services : /\ row' = [row EXCEPT ![s] = MarkCrashed(row[s])]
                              /\ registry' = [registry EXCEPT ![s] = NoPid]
    BY <1>9 DEF EbpfAudit
  <2>2. \A t \in Services : /\ row'[t] \in {row[t], MarkCrashed(row[t])}
                            /\ registry'[t] \in {registry[t], NoPid}
    BY <1>0, <2>1 DEF RowType
  <2> QED BY <1>2, <1>3, <1>4, <2>2
<1> QED BY <1>5, <1>6, <1>7, <1>8, <1>9 DEF Background

\* The main loop, which alone hands a delivery to a task.
LEMMA SingleMainLoop ==
  ASSUME DeployedOnce, TypeOK, OwnershipInv, SingleInv, MainLoop
  PROVE  SingleInv'
<1>0. /\ step \in [Pids -> Steps] /\ svc \in [Pids -> Services]
      /\ msg \in [Pids -> Events \cup {0}]
      /\ registry \in [Services -> Handles] /\ ev \in [Events -> EventRecords]
      /\ job \in [Events -> [stage : {"none", "start", "teardown"}, h : Handles]]
      /\ waiting \in Events \cup {0}
      /\ \A s \in Services : req[s] # "restart"
  BY DEF TypeOK, TaskType, HostType, BusType, SingleInv, OneProvision
<1>1. 0 \notin Events /\ \A e \in Events : ev[e].svc \in Services
  <2>1. 0 \notin Events
    BY DEF Events
  <2> QED BY <1>0, <2>1, EventUpdates
<1>2. ASSUME NEW e \in Events, ReceiveProvision(e) PROVE SingleInv'
  <2>1. /\ UNCHANGED <<row, step, svc, msg, registry, job, req>>
        /\ waiting = 0 /\ waiting' = e
        /\ ev[e].kind = "provision" /\ ev[e].st = "queued"
    BY <1>2 DEF ReceiveProvision, Deliverable, taskVars, hostVars, ctlVars
  <2>2. /\ \A f \in Events : ev'[f].kind = ev[f].kind /\ ev'[f].svc = ev[f].svc
        /\ \A f \in Events : f # e => ev'[f].st = ev[f].st
        /\ ev'[e].st = "inflight"
    BY <1>0, <1>2, EventState DEF ReceiveProvision, EventStates
  <2>3. \A f \in Events : IsProvision(f)' <=> IsProvision(f)
    BY <2>1, <2>2 DEF IsProvision
  <2>4. OneProvision'
    BY <1>1, <2>1, <2>2, <2>3 DEF SingleInv, OneProvision
  <2>5. TaskHolds'
    <3>1. ASSUME NEW a \in Pids, Active(a)'
          PROVE  /\ msg'[a] \in Events /\ IsProvision(msg[a])'
                 /\ ev'[msg'[a]].st = "inflight" /\ ev'[msg'[a]].svc = svc'[a]
                 /\ waiting' # msg'[a]
                 /\ \A b \in Pids : Active(b)' /\ msg'[b] = msg'[a] => a = b
      <4>1. Active(a)
        BY <2>1, <3>1 DEF Active
      <4>2. PICK m \in Events : m = msg[a]
        BY <4>1 DEF SingleInv, TaskHolds
      <4>3. /\ IsProvision(m) /\ ev[m].st = "inflight" /\ ev[m].svc = svc[a] /\ m # e
            /\ \A b \in Pids : Active(b) /\ msg[b] = m => a = b
        BY <2>1, <4>1, <4>2 DEF SingleInv, TaskHolds
      <4>4. IsProvision(m)' /\ ev'[m].st = "inflight" /\ ev'[m].svc = svc[a]
        BY <2>2, <2>3, <4>3
      <4> QED BY <2>1, <4>2, <4>3, <4>4 DEF IsProvision, Active
    <3> QED BY <3>1 DEF TaskHolds
  <2>6. DeliveryHeld'
    <3>1. IsProvision(waiting)' /\ ev'[waiting'].st = "inflight"
      BY <2>1, <2>2 DEF IsProvision
    <3>2. \A f \in Events : IsProvision(f)' /\ ev'[f].st = "inflight" =>
            waiting' = f \/ \E a \in Pids : Active(a)' /\ msg'[a] = f
      BY <1>1, <2>1, <2>2, <2>3 DEF SingleInv, DeliveryHeld, Active
    <3>3. \A f \in Events : job'[f] # NoJob => ev'[f].kind = "deprovision" /\ ev'[f].st = "inflight"
      BY <2>1, <2>2 DEF SingleInv, DeliveryHeld
    <3> QED BY <3>1, <3>2, <3>3 DEF DeliveryHeld
  <2>7. NotRegistered'
    <3>1. \A f \in Events :
            IsProvision(f)' /\ (ev'[f].st \in {"outbox", "queued"} \/ waiting' = f)
              => registry'[ev'[f].svc] = NoPid
      BY <2>1, <2>2, <2>3 DEF SingleInv, NotRegistered
    <3>2. \A a \in Pids : WithoutHandle(a)' => registry'[svc'[a]] = NoPid
      BY <2>1 DEF SingleInv, NotRegistered, WithoutHandle
    <3> QED BY <3>1, <3>2 DEF NotRegistered
  <2> QED BY <2>4, <2>5, <2>6, <2>7 DEF SingleInv
<1>3. ASSUME NEW a \in Pids, StartTask(a) PROVE SingleInv'
  <2>1. /\ UNCHANGED <<row, registry, ev, job, req>>
        /\ waiting # 0 /\ waiting' = 0
        /\ step[a] = "idle" /\ step' = [step EXCEPT ![a] = "new"]
        /\ svc' = [svc EXCEPT ![a] = ev[waiting].svc]
        /\ msg' = [msg EXCEPT ![a] = waiting]
    BY <1>3 DEF StartTask, Goto, hostVars, ctlVars
  <2>2. PICK e \in Events : e = waiting
    BY <1>0, <2>1
  <2>3. IsProvision(e) /\ ev[e].st = "inflight" /\ registry[ev[e].svc] = NoPid
    BY <2>1, <2>2 DEF SingleInv, DeliveryHeld, NotRegistered
  <2>4. \A f : IsProvision(f)' <=> IsProvision(f)
    BY <2>1 DEF IsProvision
  <2>5. \A b \in Pids : /\ Active(b)' <=> Active(b) \/ b = a
                        /\ WithoutHandle(b)' <=> WithoutHandle(b) \/ b = a
                        /\ b # a => msg'[b] = msg[b] /\ svc'[b] = svc[b]
    BY <1>0, <2>1 DEF Active, WithoutHandle
  <2>6. msg'[a] = e /\ svc'[a] = ev[e].svc /\ ~Active(a)
    BY <1>0, <2>1, <2>2 DEF Active
  <2>7. \A b \in Pids : Active(b) => msg[b] # e
    BY <2>2 DEF SingleInv, TaskHolds
  <2>8. OneProvision'
    BY <2>1, <2>4 DEF SingleInv, OneProvision
  <2>9. TaskHolds'
    <3>1. ASSUME NEW b \in Pids, Active(b)'
          PROVE  /\ msg'[b] \in Events /\ IsProvision(msg[b])'
                 /\ ev'[msg'[b]].st = "inflight" /\ ev'[msg'[b]].svc = svc'[b]
                 /\ waiting' # msg'[b]
                 /\ \A c \in Pids : Active(c)' /\ msg'[c] = msg'[b] => b = c
      <4>1. CASE b = a
        BY <1>1, <2>1, <2>3, <2>5, <2>6, <2>7, <4>1 DEF IsProvision
      <4>2. CASE b # a
        <5>1. PICK m \in Events : m = msg[b]
          BY <2>5, <3>1, <4>2 DEF SingleInv, TaskHolds
        <5>2. /\ IsProvision(m) /\ ev[m].st = "inflight" /\ ev[m].svc = svc[b] /\ m # e
              /\ \A c \in Pids : Active(c) /\ msg[c] = m => b = c
          BY <2>5, <2>7, <3>1, <4>2, <5>1 DEF SingleInv, TaskHolds
        <5> QED BY <1>1, <2>1, <2>5, <2>6, <4>2, <5>1, <5>2 DEF IsProvision
      <4> QED BY <4>1, <4>2
    <3> QED BY <3>1 DEF TaskHolds
  <2>10. DeliveryHeld'
    <3>1. ASSUME NEW f \in Events, IsProvision(f)', ev'[f].st = "inflight"
          PROVE  \E b \in Pids : Active(b)' /\ msg'[b] = f
      <4>1. CASE f = e
        BY <2>5, <2>6, <4>1
      <4>2. CASE f # e
        <5>1. PICK b \in Pids : Active(b) /\ msg[b] = f
          BY <2>1, <2>2, <2>4, <3>1, <4>2 DEF SingleInv, DeliveryHeld
        <5> QED BY <2>5, <2>6, <5>1
      <4> QED BY <4>1, <4>2
    <3> QED BY <2>1, <3>1 DEF SingleInv, DeliveryHeld
  <2>11. NotRegistered'
    <3>1. \A f \in Events :
            IsProvision(f)' /\ (ev'[f].st \in {"outbox", "queued"} \/ waiting' = f)
              => registry'[ev'[f].svc] = NoPid
      BY <1>1, <2>1, <2>4 DEF SingleInv, NotRegistered
    <3>2. \A b \in Pids : WithoutHandle(b)' => registry'[svc'[b]] = NoPid
      BY <2>1, <2>3, <2>5, <2>6 DEF SingleInv, NotRegistered
    <3> QED BY <3>1, <3>2 DEF NotRegistered
  <2> QED BY <2>8, <2>9, <2>10, <2>11 DEF SingleInv
\* The other arms answer no provision that a task holds.
<1>4. ASSUME UNCHANGED <<row, step, svc, msg, waiting, req>>,
             \A s \in Services : registry'[s] \in {registry[s], NoPid},
             \A f \in Events :
               /\ ev'[f].kind = ev[f].kind /\ ev'[f].svc = ev[f].svc
               /\ ev'[f].st = "free" <=> ev[f].st = "free"
               /\ IsProvision(f) => \/ ev'[f].st = ev[f].st
                                    \/ ev[f].st = "queued" /\ ev'[f].st # "inflight"
               /\ job'[f] # NoJob => ev[f].kind = "deprovision" /\ ev'[f].st = "inflight"
      PROVE  SingleInv'
  <2>1. \A f \in Events : IsProvision(f)' <=> IsProvision(f)
    BY <1>4 DEF IsProvision
  <2>2. \A a \in Pids : (Active(a) <=> Active(a)') /\ (WithoutHandle(a)' <=> WithoutHandle(a))
    BY <1>4 DEF Active, WithoutHandle
  <2> QED BY <1>0, <1>4, <2>1, <2>2, SingleKept
<1>5. ASSUME NEW e \in Events, RejectInMaintenance(e) PROVE SingleInv'
  <2>1. /\ UNCHANGED <<row, step, svc, msg, waiting, req, registry, job>>
        /\ ev[e].kind = "provision" /\ ev[e].st = "queued"
    BY <1>5 DEF RejectInMaintenance, Deliverable, taskVars, hostVars, ctlVars
  <2>2. PICK x \in {"queued", "dead"} :
          ev' = [ev EXCEPT ![e] = [@ EXCEPT !.st = x, !.n = ev[e].n + 1]]
    BY <1>5 DEF RejectInMaintenance
  <2>3. /\ \A f \in Events : ev'[f].kind = ev[f].kind /\ ev'[f].svc = ev[f].svc
        /\ \A f \in Events : f # e => ev'[f].st = ev[f].st
        /\ ev'[e].st = x
    BY <1>0, <2>2, EventState DEF EventStates
  <2> QED BY <1>4, <2>1, <2>2, <2>3 DEF SingleInv, DeliveryHeld
<1>6. ASSUME NEW e \in Events, ReceiveDeprovision(e) PROVE SingleInv'
  <2>1. /\ UNCHANGED <<row, step, svc, msg, waiting, req, registry>>
        /\ ev[e].kind = "deprovision" /\ ev[e].st = "queued"
        /\ job' = [job EXCEPT ![e].stage = "start"]
    BY <1>6 DEF ReceiveDeprovision, taskVars, hostVars, ctlVars
  <2>2. /\ \A f \in Events : ev'[f].kind = ev[f].kind /\ ev'[f].svc = ev[f].svc
        /\ \A f \in Events : f # e => ev'[f].st = ev[f].st
        /\ ev'[e].st = "inflight"
    BY <1>0, <1>6, EventState DEF ReceiveDeprovision, EventStates
  <2>3. \A f \in Events : f # e => job'[f] = job[f]
    BY <1>0, <2>1
  <2> QED BY <1>4, <2>1, <2>2, <2>3 DEF SingleInv, DeliveryHeld, IsProvision
<1>7. ASSUME NEW e \in Events, HandleDeprovision(e) PROVE SingleInv'
  <2>1. /\ UNCHANGED <<row, step, svc, msg, waiting, req, ev>>
        /\ job[e].stage = "start" /\ RemoveHandle(ev[e].svc, "release")
        /\ job' = [job EXCEPT ![e] = [stage |-> "teardown", h |-> registry[ev[e].svc]]]
    BY <1>7 DEF HandleDeprovision, taskVars, ctlVars
  <2>2. \A s \in Services : registry'[s] \in {registry[s], NoPid}
    BY <1>1, <2>1, Removal
  <2>3. \A f \in Events : f # e => job'[f] = job[f]
    BY <1>0, <2>1
  <2>4. job[e] # NoJob
    BY <2>1 DEF NoJob
  <2> QED BY <1>4, <2>1, <2>2, <2>3, <2>4 DEF SingleInv, DeliveryHeld
<1>8. ASSUME NEW e \in Events, AckDeprovision(e) PROVE SingleInv'
  <2>1. /\ UNCHANGED <<row, step, svc, msg, waiting, req, registry>>
        /\ job[e].stage = "teardown" /\ Ack(e)
        /\ job' = [job EXCEPT ![e] = NoJob]
    BY <1>8 DEF AckDeprovision, taskVars, hostVars, ctlVars
  <2>2. job[e] # NoJob /\ job'[e] = NoJob /\ \A f \in Events : f # e => job'[f] = job[f]
    BY <1>0, <2>1 DEF NoJob
  <2>3. ev[e].kind = "deprovision" /\ ev[e].st = "inflight"
    BY <2>2 DEF SingleInv, DeliveryHeld
  <2>4. ev' = [ev EXCEPT ![e] = [@ EXCEPT !.st = "acked"]]
    BY <2>1 DEF Ack, DeployedOnce
  <2>5. /\ \A f \in Events : ev'[f].kind = ev[f].kind /\ ev'[f].svc = ev[f].svc
        /\ \A f \in Events : f # e => ev'[f].st = ev[f].st
        /\ ev'[e].st = "acked"
    BY <1>0, <2>4, EventState DEF EventStates
  <2> QED BY <1>4, <2>1, <2>2, <2>3, <2>5 DEF SingleInv, DeliveryHeld, IsProvision
<1> QED BY <1>2, <1>3, <1>5, <1>6, <1>7, <1>8 DEF MainLoop

\* The API and the bus.
LEMMA SingleApi ==
  ASSUME DeployedOnce, TypeOK, SingleInv, Api
  PROVE  SingleInv'
<1>0. /\ RowType /\ registry \in [Services -> Handles] /\ ev \in [Events -> EventRecords]
      /\ waiting \in Events \cup {0} /\ req \in [Services -> {"none", "del_yes", "del_no", "restart"}]
      /\ \A s \in Services : req[s] # "restart"
  BY DEF TypeOK, HostType, BusType, CtlType, SingleInv, OneProvision
<1>1. \A e \in Events : ev[e].svc \in Services
  BY <1>0, EventUpdates
<1>2. ASSUME NEW s \in Services, deploy_service(s) PROVE SingleInv'
  <2>1. /\ UNCHANGED <<step, svc, msg, registry, job, waiting, req>>
        /\ row[s].status = "absent" /\ Enqueue(ev, "provision", s)
        /\ row' = [row EXCEPT ![s] = [@ EXCEPT !.status = "provisioning"]]
    BY <1>2 DEF deploy_service, taskVars, hostVars, ctlVars
  <2>2. PICK e \in Events :
          /\ ev[e].st = "free"
          /\ ev'[e].kind = "provision" /\ ev'[e].svc = s /\ ev'[e].st = "outbox"
          /\ \A f \in Events : f # e => ev'[f] = ev[f]
    BY <1>0, <2>1, EnqueueEvents
  <2>3. \A f \in Events : IsProvision(f)' <=> IsProvision(f) \/ f = e
    BY <2>2 DEF IsProvision
  <2>4. ~IsProvision(e) /\ \A f \in Events : IsProvision(f) => ev[f].svc # s
    BY <2>1, <2>2 DEF SingleInv, OneProvision, IsProvision
  <2>5. row'[s].status # "absent" /\ \A t \in Services : t # s => row'[t] = row[t]
    BY <1>0, <2>1, StatusUpdate DEF StatusCheck
  <2>6. registry[s] = NoPid
    BY <2>1 DEF SingleInv, OneProvision
  <2>7. OneProvision'
    <3>1. \A f \in Events : IsProvision(f)' => row'[ev'[f].svc].status # "absent"
      BY <1>1, <2>2, <2>3, <2>5 DEF SingleInv, OneProvision
    <3>2. \A f, g \in Events : IsProvision(f)' /\ IsProvision(g)' /\ ev'[f].svc = ev'[g].svc => f = g
      BY <2>2, <2>3, <2>4 DEF SingleInv, OneProvision
    <3> QED BY <2>1, <2>5, <3>1, <3>2 DEF SingleInv, OneProvision
  <2>8. TaskHolds'
    <3>1. ASSUME NEW a \in Pids, Active(a)'
          PROVE  /\ msg'[a] \in Events /\ IsProvision(msg[a])'
                 /\ ev'[msg'[a]].st = "inflight" /\ ev'[msg'[a]].svc = svc'[a]
                 /\ waiting' # msg'[a]
                 /\ \A b \in Pids : Active(b)' /\ msg'[b] = msg'[a] => a = b
      <4>1. Active(a)
        BY <2>1, <3>1 DEF Active
      <4>2. PICK m \in Events : m = msg[a]
        BY <4>1 DEF SingleInv, TaskHolds
      <4>3. /\ IsProvision(m) /\ ev[m].st = "inflight" /\ ev[m].svc = svc[a] /\ m # waiting
            /\ \A b \in Pids : Active(b) /\ msg[b] = m => a = b
        BY <4>1, <4>2 DEF SingleInv, TaskHolds
      <4>4. IsProvision(m)' /\ ev'[m] = ev[m]
        BY <2>2, <2>3, <2>4, <4>3
      <4> QED BY <2>1, <4>2, <4>3, <4>4 DEF IsProvision, Active
    <3> QED BY <3>1 DEF TaskHolds
  <2>9. DeliveryHeld'
    <3>1. waiting' # 0 => IsProvision(waiting)' /\ ev'[waiting'].st = "inflight"
      <4>1. waiting # 0 => \A f \in Events : f = waiting => IsProvision(f)' /\ ev'[f].st = "inflight"
        BY <2>2, <2>3, <2>4 DEF SingleInv, DeliveryHeld
      <4> QED BY <1>0, <2>1, <4>1 DEF IsProvision
    <3>2. \A f \in Events : IsProvision(f)' /\ ev'[f].st = "inflight" =>
            waiting' = f \/ \E a \in Pids : Active(a)' /\ msg'[a] = f
      BY <2>1, <2>2, <2>3 DEF SingleInv, DeliveryHeld, Active
    <3>3. \A f \in Events : job'[f] # NoJob => ev'[f].kind = "deprovision" /\ ev'[f].st = "inflight"
      BY <2>1, <2>2 DEF SingleInv, DeliveryHeld
    <3> QED BY <3>1, <3>2, <3>3 DEF DeliveryHeld
  <2>10. NotRegistered'
    <3>1. \A f \in Events :
            IsProvision(f)' /\ (ev'[f].st \in {"outbox", "queued"} \/ waiting' = f)
              => registry'[ev'[f].svc] = NoPid
      BY <2>1, <2>2, <2>3, <2>6 DEF SingleInv, NotRegistered
    <3>2. \A a \in Pids : WithoutHandle(a)' => registry'[svc'[a]] = NoPid
      BY <2>1 DEF SingleInv, NotRegistered, WithoutHandle
    <3> QED BY <3>1, <3>2 DEF NotRegistered
  <2> QED BY <2>7, <2>8, <2>9, <2>10 DEF SingleInv
\* The transactions that purge the outbox and may insert a deprovision.
<1>3. ASSUME NEW s \in Services, Enqueue(Purged(s), "deprovision", s) \/ ev' = Purged(s),
             UNCHANGED <<step, svc, msg, registry, job, waiting>>,
             \A t \in Services : /\ req'[t] # "restart"
                                 /\ row[t].status # "absent" => row'[t].status # "absent"
      PROVE  SingleInv'
  <2>1. \A f \in Events :
          \/ Purged(s)[f] = ev[f]
          \/ ev[f].st = "outbox" /\ Purged(s)[f].st = "free"
    BY <1>0, PurgedEvents
  <2>2. \A f \in Events :
          \/ ev'[f] = Purged(s)[f]
          \/ Purged(s)[f].st = "free" /\ ev'[f].kind = "deprovision"
    <3>1. CASE Enqueue(Purged(s), "deprovision", s)
      BY <1>0, <3>1, PurgedType, EnqueueEvents
    <3> QED BY <1>3, <3>1
  <2>3. \A f \in Events :
          /\ IsProvision(f)' => IsProvision(f) /\ ev'[f] = ev[f]
          /\ ev[f].st = "inflight" => ev'[f] = ev[f]
    BY <2>1, <2>2 DEF IsProvision
  <2>4. \A f \in Events :
          /\ IsProvision(f) /\ ev[f].st = "inflight" => IsProvision(f)' /\ ev'[f].st = "inflight"
          /\ job'[f] # NoJob => ev'[f].kind = "deprovision" /\ ev'[f].st = "inflight"
    BY <1>3, <2>3 DEF SingleInv, DeliveryHeld, IsProvision
  <2>5. \A a \in Pids : (Active(a) <=> Active(a)') /\ (WithoutHandle(a)' <=> WithoutHandle(a))
    BY <1>3 DEF Active, WithoutHandle
  <2> QED BY <1>3, <2>3, <2>4, <2>5, SingleKept
<1>4. ASSUME NEW s \in Services, stop_service(s) PROVE SingleInv'
  <2>1. /\ UNCHANGED <<step, svc, msg, registry, job, waiting, req>>
        /\ row' = [row EXCEPT ![s] = [@ EXCEPT !.status = "stopped", !.upstream = NoPid]]
        /\ Enqueue(Purged(s), "deprovision", s)
    BY <1>4 DEF stop_service, taskVars, hostVars, ctlVars
  <2>2. row'[s].status # "absent" /\ \A t \in Services : t # s => row'[t] = row[t]
    BY <1>0, <2>1, StatusUpdate DEF StatusCheck
  <2> QED BY <1>0, <1>3, <2>1, <2>2
<1>5. ASSUME NEW s \in Services, DeleteCommit(s) PROVE SingleInv'
  <2>1. /\ UNCHANGED <<step, svc, msg, registry, job, waiting>>
        /\ Enqueue(Purged(s), "deprovision", s) \/ ev' = Purged(s)
        /\ req' = [req EXCEPT ![s] = "none"]
    BY <1>5 DEF DeleteCommit, taskVars, hostVars
  <2>2. row'[s].status \in {row[s].status, "stopped"} /\ \A t \in Services : t # s => row'[t] = row[t]
    <3>1. CASE row' = row
      BY <3>1
    <3>2. CASE row' = [row EXCEPT ![s] = [@ EXCEPT !.status = "stopped", !.upstream = NoPid,
                                                   !.deleted = TRUE]]
      BY <1>0, <3>2, StatusUpdate DEF StatusCheck
    <3> QED BY <1>5, <3>1, <3>2 DEF DeleteCommit
  <2>3. \A t \in Services : req'[t] # "restart"
    BY <1>0, <2>1
  <2> QED BY <1>3, <2>1, <2>2, <2>3
<1>6. ASSUME NEW s \in Services, DeleteRead(s) PROVE SingleInv'
  <2>1. /\ UNCHANGED <<row, step, svc, msg, registry, ev, job, waiting>>
        /\ \E x \in {"del_yes", "del_no"} : req' = [req EXCEPT ![s] = x]
    BY <1>6 DEF DeleteRead, taskVars, hostVars, busVars
  <2>2. \A t \in Services : req'[t] # "restart"
    BY <1>0, <2>1
  <2>3. \A a \in Pids : (Active(a) <=> Active(a)') /\ (WithoutHandle(a)' <=> WithoutHandle(a))
    BY <2>1 DEF Active, WithoutHandle
  <2> QED BY <2>1, <2>2, <2>3, SingleQuiet
<1>7. ASSUME NEW s \in Services PROVE ~RestartRead(s) /\ ~RestartCommit(s)
  BY <1>0 DEF RestartRead, RestartCommit, DeployedOnce
<1> QED BY <1>2, <1>4, <1>5, <1>6, <1>7 DEF Api

LEMMA SingleBus ==
  ASSUME DeployedOnce, TypeOK, SingleInv, Bus
  PROVE  SingleInv'
<1>0. ev \in [Events -> EventRecords] /\ \A s \in Services : req[s] # "restart"
  BY DEF TypeOK, BusType, SingleInv, OneProvision
<1>1. PICK e \in Events : OutboxPublish(e) \/ AckWaitExpires(e)
  BY DEF Bus
<1>2. /\ UNCHANGED <<row, step, svc, msg, registry, job, waiting, req>>
      /\ \E x \in {"queued", "dead"} : ev' = [ev EXCEPT ![e] = [@ EXCEPT !.st = x]]
  BY <1>1 DEF OutboxPublish, AckWaitExpires, taskVars, hostVars, ctlVars
<1>3. PICK x \in {"queued", "dead"} : ev' = [ev EXCEPT ![e] = [@ EXCEPT !.st = x]]
  BY <1>2
<1>4. /\ \A f \in Events : ev'[f].kind = ev[f].kind /\ ev'[f].svc = ev[f].svc
      /\ \A f \in Events : f # e => ev'[f].st = ev[f].st
      /\ ev'[e].st = x
  BY <1>0, <1>3, EventState DEF EventStates
\* A delivery that a task or the main loop holds does not expire.
<1>5. job[e] = NoJob /\ (IsProvision(e) => ev[e].st = "outbox") /\ ev[e].st # "free"
  <2>1. CASE OutboxPublish(e)
    BY <2>1 DEF OutboxPublish, SingleInv, DeliveryHeld
  <2>2. CASE AckWaitExpires(e)
    <3>1. ~Held(e) /\ ev[e].st = "inflight"
      BY <2>2 DEF AckWaitExpires, DeployedOnce
    <3> QED BY <3>1 DEF Held, SingleInv, DeliveryHeld
  <2> QED BY <1>1, <2>1, <2>2
<1>6. \A a \in Pids : (Active(a) <=> Active(a)') /\ (WithoutHandle(a)' <=> WithoutHandle(a))
  BY <1>2 DEF Active, WithoutHandle
<1>7. \A f \in Events : IsProvision(f)' <=> IsProvision(f)
  BY <1>4, <1>5 DEF IsProvision
<1>8. \A f \in Events : job'[f] # NoJob => ev'[f].kind = "deprovision" /\ ev'[f].st = "inflight"
  BY <1>2, <1>4, <1>5 DEF SingleInv, DeliveryHeld
<1> QED BY <1>0, <1>2, <1>4, <1>5, <1>6, <1>7, <1>8, SingleKept

LEMMA SingleInit ==
  ASSUME Init
  PROVE  SingleInv
<1>1. ASSUME NEW e \in Events PROVE ~IsProvision(e) /\ job[e] = NoJob
  BY DEF Init, IsProvision
<1>2. ASSUME NEW a \in Pids PROVE ~Active(a) /\ ~WithoutHandle(a)
  BY DEF Init, Active, WithoutHandle
<1> QED BY <1>1, <1>2
        DEF Init, SingleInv, OneProvision, TaskHolds, DeliveryHeld, NotRegistered

LEMMA SingleStep ==
  ASSUME DeployedOnce, TypeOK, OwnershipInv, SingleInv, [Next]_vars, up = TRUE
  PROVE  SingleInv'
<1>1. CASE UNCHANGED vars
  <2>1. UNCHANGED <<row, registry, step, svc, msg, ev, job, waiting, req>>
    BY <1>1 DEF vars, taskVars, hostVars, busVars, ctlVars
  <2>2. \A a \in Pids : (Active(a) <=> Active(a)') /\ (WithoutHandle(a)' <=> WithoutHandle(a))
    BY <2>1 DEF Active, WithoutHandle
  <2> QED BY <2>1, <2>2, SingleQuiet DEF SingleInv, OneProvision
<1>2. ~DaemonCrash /\ ~Shutdown /\ ~Startup
  BY DEF DaemonCrash, Shutdown, Startup, DeployedOnce
<1> QED BY <1>1, <1>2, SingleAttempt, SingleBackground, SingleMainLoop, SingleApi, SingleBus
        DEF Next, NodeNext

-----------------------------------------------------------------------------
\* What follows for handles, indices, devices and teardowns.

\* Where a handle can leave the registry or an index be forgotten.
LEMMA RegistryChanges ==
  ASSUME DeployedOnce, TypeOK, OwnershipInv, SingleInv, up = TRUE, [Next]_vars,
         NEW s \in Services, registry[s] # NoPid, registry'[s] # registry[s],
         "audit" \notin Faults
  PROVE  down'[registry[s]] \in {"release", "kill"}
<1>0. /\ registry[s] \in Pids /\ svc[registry[s]] = s
      /\ registry \in [Services -> Handles] /\ svc \in [Pids -> Services]
      /\ ev \in [Events -> EventRecords]
  BY RegistryOwns DEF OwnershipInv, TypeOK, HostType, TaskType, BusType
<1>1. ASSUME NEW t \in Services, NEW stage \in {"release", "kill"}, RemoveHandle(t, stage)
      PROVE  down'[registry[s]] \in {"release", "kill"}
  <2>1. t = s
    BY <1>1, Removal
  <2> QED BY <1>0, <1>1, <2>1, Removal
<1>2. ASSUME NEW a \in Pids, RegisterVm(a) PROVE FALSE
  <2>1. registry' = [registry EXCEPT ![svc[a]] = a] /\ step[a] = "booted"
    BY <1>2 DEF RegisterVm
  <2>2. svc[a] = s
    BY <1>0, <2>1
  <2> QED BY <2>1, <2>2 DEF SingleInv, NotRegistered, WithoutHandle
<1>3. ASSUME NEW a \in Pids, WriteFails(a) \/ rollback_provision(a)
      PROVE  down'[registry[s]] \in {"release", "kill"}
  BY <1>0, <1>1, <1>3 DEF WriteFails, rollback_provision
<1>4. ASSUME NEW e \in Events, HandleDeprovision(e)
      PROVE  down'[registry[s]] \in {"release", "kill"}
  <2>1. ev[e].svc \in Services
    BY <1>0, EventUpdates
  <2> QED BY <1>1, <1>4, <2>1 DEF HandleDeprovision
<1>5. ASSUME NEW t \in Services, SuspendKill(t)
      PROVE  down'[registry[s]] \in {"release", "kill"}
  BY <1>1, <1>5 DEF SuspendKill
<1>6. CASE CrashWatch
  <2> DEFINE dead == {t \in Services : registry[t] # NoPid /\ registry[t] \notin live}
  <2>1. /\ registry' = [t \in Services |-> IF t \in dead THEN NoPid ELSE registry[t]]
        /\ down' = [a \in Pids |-> IF \E t \in dead : registry[t] = a THEN "release" ELSE down[a]]
    BY <1>6 DEF CrashWatch
  <2>2. s \in dead
    BY <2>1
  <2> QED BY <1>0, <2>1, <2>2
<1>7. ASSUME NEW a \in Pids,
             \/ allocate_tap_index(a) \/ BuildFails(a) \/ CreateTap(a) \/ CreateTapBusy(a)
             \/ Boot(a) \/ BootFails(a) \/ ProbeFails(a) \/ WriteRunning(a) \/ WriteUndone(a)
             \/ AckProvisioned(a) \/ NakTransient(a) \/ AckPermanent(a) \/ TimeoutFires(a)
             \/ ReleaseDropped(a) \/ Teardown(a) \/ VmExits(a) \/ StartTask(a)
      PROVE  FALSE
  BY <1>7 DEF allocate_tap_index, BuildFails, CreateTap, CreateTapBusy, Boot, BootFails,
              ProbeFails, WriteRunning, WriteUndone, AckProvisioned, NakTransient,
              AckPermanent, TimeoutFires, ReleaseDropped, Teardown, TeardownRelease,
              TeardownKill, TeardownDelete, VmExits, StartTask, hostVars
<1>8. ASSUME NEW e \in Events,
             \/ ReceiveProvision(e) \/ RejectInMaintenance(e) \/ ReceiveDeprovision(e)
             \/ AckDeprovision(e) \/ OutboxPublish(e) \/ AckWaitExpires(e)
      PROVE  FALSE
  BY <1>8 DEF ReceiveProvision, RejectInMaintenance, ReceiveDeprovision, AckDeprovision,
              OutboxPublish, AckWaitExpires, hostVars
<1>9. CASE SuspendDrain \/ SuspendFinalize \/ Api \/ UNCHANGED vars
  BY <1>9 DEF SuspendDrain, SuspendFinalize, Api, deploy_service, stop_service,
              DeleteRead, DeleteCommit, RestartRead, RestartCommit, vars, hostVars
<1>10. /\ ~DaemonCrash /\ ~Shutdown /\ ~Startup
       /\ \A i \in Indices : ~EbpfAudit(i)
  BY DEF DaemonCrash, Shutdown, Startup, EbpfAudit, DeployedOnce
<1> QED BY <1>2, <1>3, <1>4, <1>5, <1>6, <1>7, <1>8, <1>9, <1>10
        DEF Next, NodeNext, Attempt, MainLoop, Background, Bus

LEMMA SingleInvariant ==
  ASSUME DeployedOnce
  PROVE  Spec => [](NodeInv /\ SingleInv)
<1>1. "restart" \notin Faults
  BY DEF DeployedOnce
<1>2. Init => SingleInv
  BY SingleInit
<1>3. NodeInv /\ SingleInv /\ [Next]_vars => SingleInv'
  BY SingleStep DEF NodeInv
<1> QED BY <1>1, <1>2, <1>3, NodeInvariant, PTL DEF Spec

\* A handle leaves the registry only into a teardown, whatever the interleaving
\* of the provision, its timeout, rollback and retries with deprovisions,
\* deletions, suspensions and the crash watcher: it is never overwritten as long
\* as the service is deployed once and its delivery has one task.
THEOREM HandlesConsumed ==
  ASSUME DeployedOnce, "audit" \notin Faults
  PROVE  Spec => HandleConsumed
<1>1. ASSUME NodeInv, SingleInv, [Next]_vars
      PROVE  [\A s \in Services : registry[s] # NoPid /\ registry'[s] # registry[s]
                                    => down'[registry[s]] # "none"]_vars
  BY <1>1, RegistryChanges DEF NodeInv
<1> QED BY <1>1, SingleInvariant, PTL DEF Spec, HandleConsumed

\* The faults under which the code has no path that forgets an index: no
\* suspension and no audit, and no timeout that can cut the rollback of a failed
\* UPDATE.
NoForgetting ==
  /\ Faults \cap {"suspend", "audit"} = {}
  /\ ~({"timeout", "dbfail"} \subseteq Faults)

NothingLeaked ==
  /\ leaked = {} /\ susp.phase = "idle"
  /\ "dbfail" \notin Faults => \A a \in Pids : step[a] # "undoing"

LEMMA LeakStep ==
  ASSUME DeployedOnce, NoForgetting, TypeOK, SingleInv, NothingLeaked, [Next]_vars, up = TRUE
  PROVE  NothingLeaked'
<1> USE DEF NothingLeaked
<1>0. step \in [Pids -> Steps]
  BY DEF TypeOK, TaskType
<1>1. ASSUME NEW a \in Pids,
             \/ allocate_tap_index(a) \/ BuildFails(a) \/ CreateTap(a) \/ CreateTapBusy(a)
             \/ Boot(a) \/ BootFails(a) \/ ProbeFails(a) \/ WriteRunning(a) \/ WriteUndone(a)
             \/ AckProvisioned(a) \/ NakTransient(a) \/ AckPermanent(a)
             \/ rollback_provision(a) \/ StartTask(a)
      PROVE  NothingLeaked'
  <2>1. UNCHANGED <<leaked, susp>>
    BY <1>1 DEF allocate_tap_index, BuildFails, CreateTap, CreateTapBusy, Boot, BootFails,
                ProbeFails, WriteRunning, WriteUndone, AckProvisioned, NakTransient,
                AckPermanent, rollback_provision, StartTask, ctlVars, auxVars
  <2>2. PICK x \in Steps \ {"undoing"} : step' = [step EXCEPT ![a] = x]
    BY <1>1 DEF allocate_tap_index, BuildFails, CreateTap, CreateTapBusy, Boot, BootFails,
                ProbeFails, WriteRunning, WriteUndone, AckProvisioned, NakTransient,
                AckPermanent, rollback_provision, StartTask, FailGuarded, Goto, Steps
  <2> QED BY <1>0, <2>1, <2>2
<1>2. ASSUME NEW a \in Pids, RegisterVm(a) PROVE NothingLeaked'
  <2>1. registry[svc[a]] = NoPid
    BY <1>2 DEF RegisterVm, SingleInv, NotRegistered, WithoutHandle
  <2>2. UNCHANGED <<leaked, susp>> /\ step' = [step EXCEPT ![a] = "registered"]
    BY <1>2, <2>1 DEF RegisterVm, Goto, ctlVars, auxVars
  <2> QED BY <1>0, <2>2
<1>3. ASSUME NEW a \in Pids, WriteFails(a) PROVE NothingLeaked'
  BY <1>3 DEF WriteFails, ctlVars, auxVars
<1>4. ASSUME NEW a \in Pids, TimeoutFires(a) PROVE NothingLeaked'
  <2>1. step[a] # "undoing"
    BY <1>4 DEF TimeoutFires, NoForgetting
  <2>2. UNCHANGED <<leaked, susp>> /\ step' = [step EXCEPT ![a] = "failT"]
    BY <1>4, <2>1 DEF TimeoutFires, Goto, ctlVars, NoPid
  <2> QED BY <1>0, <2>2
<1>5. ASSUME NEW a \in Pids, ReleaseDropped(a) \/ Teardown(a) \/ VmExits(a)
      PROVE  NothingLeaked'
  BY <1>5 DEF ReleaseDropped, Teardown, TeardownRelease, TeardownKill, TeardownDelete,
              VmExits, taskVars, ctlVars, auxVars
<1>6. ASSUME NEW e \in Events,
             \/ ReceiveProvision(e) \/ RejectInMaintenance(e) \/ ReceiveDeprovision(e)
             \/ HandleDeprovision(e) \/ AckDeprovision(e) \/ OutboxPublish(e)
             \/ AckWaitExpires(e)
      PROVE  NothingLeaked'
  BY <1>6 DEF ReceiveProvision, RejectInMaintenance, ReceiveDeprovision,
              HandleDeprovision, AckDeprovision, OutboxPublish, AckWaitExpires, taskVars,
              ctlVars, auxVars
<1>7. CASE CrashWatch \/ Api \/ UNCHANGED vars
  BY <1>7 DEF CrashWatch, Api, deploy_service, stop_service, DeleteRead, DeleteCommit,
              RestartRead, RestartCommit, vars, taskVars, ctlVars, auxVars
<1>8. /\ ~DaemonCrash /\ ~Shutdown /\ ~Startup /\ ~SuspendDrain /\ ~SuspendFinalize
      /\ \A i \in Indices : ~EbpfAudit(i)
      /\ \A s \in Services : ~SuspendKill(s)
  BY DEF DaemonCrash, Shutdown, Startup, SuspendDrain, SuspendFinalize, EbpfAudit,
         SuspendKill, DeployedOnce, NoForgetting
<1> QED BY <1>1, <1>2, <1>3, <1>4, <1>5, <1>6, <1>7, <1>8
        DEF Next, NodeNext, Attempt, MainLoop, Background, Bus

\* No TAP index is lost to the pool: every index in use has an owner who will
\* release it, through failed builds, boots, probes and database writes, timeouts,
\* crashes of VMs, stops and deletions.
THEOREM IndicesOwned ==
  ASSUME DeployedOnce, NoForgetting
  PROVE  Spec => []EveryIndexOwned
<1>1. Init => NothingLeaked
  BY DEF Init, NothingLeaked
<1>2. NodeInv /\ SingleInv /\ NothingLeaked /\ [Next]_vars => NothingLeaked'
  BY LeakStep DEF NodeInv
<1>3. NodeInv /\ NothingLeaked => EveryIndexOwned
  BY DEF NodeInv, NothingLeaked, IndexAccounted, EveryIndexOwned
<1> QED BY <1>1, <1>2, <1>3, SingleInvariant, PTL DEF Spec

\* Someone who will delete the device of his index: a boot that has passed
\* create_tap, the registry, or a teardown that is not over.
Uses(a) == step[a] \in {"tap", "booted"} \/ Registered(a) \/ down[a] # "none"

\* DeviceAccounted counts a guard that is armed; a device needs one whose boot
\* has reached create_tap.
DeviceInv ==
  \A i \in Indices : dev[i] # NoDev => \E a \in Pids : tap[a] = i /\ Uses(a)

LEMMA DeviceKeptInv ==
  ASSUME DeviceInv,
         \A i \in Indices : dev'[i] # NoDev =>
           dev[i] # NoDev \/ \E a \in Pids : tap'[a] = i /\ Uses(a)',
         \A a \in Pids : Uses(a) =>
           \/ Uses(a)' /\ tap'[a] = tap[a]
           \/ tap[a] \in Indices => dev'[tap[a]] = NoDev
  PROVE  DeviceInv'
BY DEF DeviceInv

\* The faults that leave a device without anyone to delete it are the timeout of
\* a booted VM and the audit.
LEMMA DeviceStep ==
  ASSUME DeployedOnce, Faults \cap {"timeout", "audit"} = {}, up = TRUE,
         TypeOK, OwnershipInv, SingleInv, DeviceInv, [Next]_vars
  PROVE  DeviceInv'
<1>0. /\ step \in [Pids -> Steps] /\ svc \in [Pids -> Services]
      /\ tap \in [Pids -> Indices \cup {NoTap}] /\ dev \in [Indices -> Pids \cup {NoDev, Idle}]
      /\ registry \in [Services -> Handles] /\ ev \in [Events -> EventRecords]
      /\ down \in [Pids -> {"none", "release", "kill", "delete"}]
  BY DEF TypeOK, TaskType, HostType, BusType
<1>1. \A a \in Pids : step[a] \in {"idle", "new", "alloc"} => ~Uses(a)
  BY DEF OwnershipInv, Uses
<1>2. \A P \in SUBSET Pids, i \in Indices :
        live' = live \ P /\ dev' = [j \in Indices |-> IF dev[j] \in P THEN Idle ELSE dev[j]]
          => (dev'[i] # NoDev => dev[i] # NoDev)
  BY DEF Pids, NoDev
<1>3. ASSUME NEW a \in Pids,
             \/ allocate_tap_index(a) \/ BuildFails(a) \/ CreateTapBusy(a) \/ StartTask(a)
      PROVE  DeviceInv'
  <2>1. UNCHANGED <<registry, down, dev>> /\ \A b \in Pids : b # a => tap'[b] = tap[b]
    BY <1>0, <1>3 DEF allocate_tap_index, BuildFails, CreateTapBusy, StartTask, hostVars
  <2>2. /\ step[a] \in {"idle", "new", "alloc"}
        /\ \E x \in Steps : step' = [step EXCEPT ![a] = x]
    BY <1>3 DEF allocate_tap_index, BuildFails, CreateTapBusy, StartTask, FailGuarded,
                Goto, Steps
  <2>3. \A b \in Pids : Uses(b) => Uses(b)' /\ tap'[b] = tap[b]
    BY <1>0, <1>1, <2>1, <2>2 DEF Uses, Registered
  <2> QED BY <2>1, <2>3, DeviceKeptInv
<1>4. ASSUME NEW a \in Pids, CreateTap(a) \/ Boot(a) PROVE DeviceInv'
  <2>1. /\ UNCHANGED <<registry, down, tap>>
        /\ \E x \in {"tap", "booted"} : step' = [step EXCEPT ![a] = x]
        /\ \E d : dev' = [dev EXCEPT ![tap[a]] = d]
    BY <1>4 DEF CreateTap, Boot, Goto
  <2>2. Uses(a)' /\ \A b \in Pids : Uses(b) => Uses(b)'
    BY <1>0, <2>1 DEF Uses, Registered
  <2>3. \A i \in Indices : i # tap[a] => dev'[i] = dev[i]
    BY <1>0, <2>1
  <2> QED BY <2>1, <2>2, <2>3, DeviceKeptInv
<1>5. ASSUME NEW a \in Pids, BootFails(a) \/ ProbeFails(a) PROVE DeviceInv'
  <2>1. /\ UNCHANGED <<registry, down, tap>>
        /\ \E x \in {"failT", "failP"} : step' = [step EXCEPT ![a] = x]
        /\ dev' = [dev EXCEPT ![tap[a]] = NoDev]
    BY <1>5 DEF BootFails, ProbeFails, FailGuarded, Goto
  <2>2. \A b \in Pids : b # a /\ Uses(b) => Uses(b)'
    BY <1>0, <2>1 DEF Uses, Registered
  <2>3. /\ \A i \in Indices : dev'[i] # NoDev => dev[i] # NoDev
        /\ tap[a] \in Indices => dev'[tap[a]] = NoDev
    BY <1>0, <2>1
  <2> QED BY <2>1, <2>2, <2>3, DeviceKeptInv
<1>6. ASSUME NEW a \in Pids, RegisterVm(a) PROVE DeviceInv'
  <2>1. /\ UNCHANGED <<down, tap, dev>> /\ step[a] = "booted"
        /\ step' = [step EXCEPT ![a] = "registered"]
        /\ registry' = [registry EXCEPT ![svc[a]] = a]
    BY <1>6 DEF RegisterVm, Goto
  <2>2. registry[svc[a]] = NoPid
    BY <2>1 DEF SingleInv, NotRegistered, WithoutHandle
  <2>3. \A b \in Pids : Registered(b) => Registered(b)'
    BY <1>0, <2>1, <2>2 DEF Registered, Pids, NoPid
  <2>4. Registered(a)'
    BY <1>0, <2>1 DEF Registered
  <2>5. \A b \in Pids : Uses(b) => Uses(b)'
    BY <1>0, <2>1, <2>3, <2>4 DEF Uses
  <2> QED BY <2>1, <2>5, DeviceKeptInv
<1>7. ASSUME NEW a \in Pids,
             \/ WriteRunning(a) \/ WriteUndone(a) \/ AckProvisioned(a) \/ NakTransient(a)
             \/ AckPermanent(a)
      PROVE  DeviceInv'
  <2>1. UNCHANGED <<registry, down, tap, dev>> /\ step[a] \notin {"tap", "booted"}
        /\ \E x \in Steps : step' = [step EXCEPT ![a] = x]
    BY <1>7 DEF WriteRunning, WriteUndone, AckProvisioned, NakTransient, AckPermanent,
                Goto, Steps, hostVars
  <2>2. \A b \in Pids : Uses(b) => Uses(b)'
    BY <1>0, <2>1 DEF Uses, Registered
  <2> QED BY <2>1, <2>2, DeviceKeptInv
\* A handle that is removed goes into a teardown.
<1>8. ASSUME NEW s \in Services, NEW stage \in {"release", "kill"}, RemoveHandle(s, stage),
             \A b \in Pids : step[b] \in {"tap", "booted"} => step'[b] = step[b],
             UNCHANGED tap, \A i \in Indices : dev'[i] # NoDev => dev[i] # NoDev
      PROVE  DeviceInv'
  <2>1. \A b \in Pids : Uses(b) => Uses(b)'
    BY <1>8, Removal DEF Uses
  <2> QED BY <1>8, <2>1, DeviceKeptInv
<1>9. ASSUME NEW a \in Pids, WriteFails(a) \/ rollback_provision(a) PROVE DeviceInv'
  <2>1. /\ RemoveHandle(svc[a], "release") /\ Kill({registry[svc[a]]} \cap Pids)
        /\ UNCHANGED tap /\ step[a] \notin {"tap", "booted"}
        /\ \E x \in Steps : step' = [step EXCEPT ![a] = x]
    BY <1>9 DEF WriteFails, rollback_provision, Goto, Steps
  <2>2. \A b \in Pids : step[b] \in {"tap", "booted"} => step'[b] = step[b]
    BY <1>0, <2>1
  <2>3. \A i \in Indices : dev'[i] # NoDev => dev[i] # NoDev
    <3>1. {registry[svc[a]]} \cap Pids \in SUBSET Pids
      OBVIOUS
    <3> QED BY <1>2, <2>1, <3>1 DEF Kill
  <2> QED BY <1>0, <1>8, <2>1, <2>2, <2>3
<1>10. ASSUME NEW e \in Events, HandleDeprovision(e) PROVE DeviceInv'
  <2>1. ev[e].svc \in Services
    BY <1>0, EventUpdates
  <2> QED BY <1>8, <1>10, <2>1 DEF HandleDeprovision, taskVars
<1>11. ASSUME NEW s \in Services, SuspendKill(s) PROVE DeviceInv'
  BY <1>8, <1>11 DEF SuspendKill, taskVars
<1>12. CASE CrashWatch
  <2> DEFINE dead == {t \in Services : registry[t] # NoPid /\ registry[t] \notin live}
  <2>1. /\ registry' = [t \in Services |-> IF t \in dead THEN NoPid ELSE registry[t]]
        /\ down' = [a \in Pids |-> IF \E t \in dead : registry[t] = a THEN "release" ELSE down[a]]
        /\ UNCHANGED <<step, tap, dev>>
    BY <1>12 DEF CrashWatch, taskVars
  <2>2. \A b \in Pids : Uses(b) => Uses(b)'
    BY <2>1 DEF Uses, Registered
  <2> QED BY <2>1, <2>2, DeviceKeptInv
<1>13. ASSUME NEW a \in Pids, Teardown(a) PROVE DeviceInv'
  <2>1. CASE TeardownRelease(a) \/ TeardownKill(a)
    <3>1. /\ UNCHANGED <<step, tap, registry>>
          /\ \E x \in {"kill", "delete"} : down' = [down EXCEPT ![a] = x]
          /\ UNCHANGED dev \/ Kill({a})
      BY <2>1 DEF TeardownRelease, TeardownKill, taskVars
    <3>2. \A b \in Pids : Uses(b) => Uses(b)'
      BY <1>0, <3>1 DEF Uses, Registered
    <3>3. \A i \in Indices : dev'[i] # NoDev => dev[i] # NoDev
      BY <1>2, <3>1 DEF Kill
    <3> QED BY <3>1, <3>2, <3>3, DeviceKeptInv
  <2>2. CASE TeardownDelete(a)
    <3>1. /\ UNCHANGED <<step, tap, registry>> /\ down' = [down EXCEPT ![a] = "none"]
          /\ dev' = [dev EXCEPT ![tap[a]] = NoDev]
      BY <2>2 DEF TeardownDelete, taskVars
    <3>2. \A b \in Pids : b # a /\ Uses(b) => Uses(b)'
      BY <1>0, <3>1 DEF Uses, Registered
    <3>3. /\ \A i \in Indices : dev'[i] # NoDev => dev[i] # NoDev
          /\ tap[a] \in Indices => dev'[tap[a]] = NoDev
      BY <1>0, <3>1
    <3> QED BY <3>1, <3>2, <3>3, DeviceKeptInv
  <2> QED BY <1>13, <2>1, <2>2 DEF Teardown
<1>14. ASSUME UNCHANGED <<step, tap, registry, down>>,
              \A i \in Indices : dev'[i] # NoDev => dev[i] # NoDev
       PROVE  DeviceInv'
  <2>1. \A b \in Pids : Uses(b) => Uses(b)'
    BY <1>14 DEF Uses, Registered
  <2> QED BY <1>14, <2>1, DeviceKeptInv
<1>15. ASSUME NEW a \in Pids, VmExits(a) \/ ReleaseDropped(a) PROVE DeviceInv'
  <2>1. UNCHANGED <<step, tap, registry, down>> /\ (UNCHANGED dev \/ Kill({a}))
    BY <1>15 DEF VmExits, ReleaseDropped, taskVars
  <2>2. \A i \in Indices : dev'[i] # NoDev => dev[i] # NoDev
    BY <1>2, <2>1 DEF Kill
  <2> QED BY <1>14, <2>1, <2>2
<1>16. ASSUME NEW e \in Events,
             \/ ReceiveProvision(e) \/ RejectInMaintenance(e) \/ ReceiveDeprovision(e)
             \/ AckDeprovision(e) \/ OutboxPublish(e) \/ AckWaitExpires(e)
      PROVE  DeviceInv'
  BY <1>14, <1>16 DEF ReceiveProvision, RejectInMaintenance, ReceiveDeprovision,
                      AckDeprovision, OutboxPublish, AckWaitExpires, taskVars, hostVars
<1>17. CASE SuspendDrain \/ SuspendFinalize \/ Api \/ UNCHANGED vars
  BY <1>14, <1>17 DEF SuspendDrain, SuspendFinalize, Api, deploy_service, stop_service,
                      DeleteRead, DeleteCommit, RestartRead, RestartCommit, vars,
                      taskVars, hostVars
<1>18. /\ ~DaemonCrash /\ ~Shutdown /\ ~Startup
       /\ \A i \in Indices : ~EbpfAudit(i)
       /\ \A a \in Pids : ~TimeoutFires(a)
  BY DEF DaemonCrash, Shutdown, Startup, EbpfAudit, TimeoutFires, DeployedOnce
<1> QED BY <1>3, <1>4, <1>5, <1>6, <1>7, <1>9, <1>10, <1>11, <1>12, <1>13, <1>15, <1>16,
           <1>17, <1>18
        DEF Next, NodeNext, Attempt, MainLoop, Background, Bus

\* No kernel TAP device is left behind by a failed boot, a failed probe, a failed
\* database write, a crash, a stop or a suspension.
THEOREM DevicesAccounted ==
  ASSUME DeployedOnce, Faults \cap {"timeout", "audit"} = {}
  PROVE  Spec => []DeviceAccounted
<1>1. Init => DeviceInv
  BY DEF Init, DeviceInv
<1>2. NodeInv /\ SingleInv /\ DeviceInv /\ [Next]_vars => DeviceInv'
  BY DeviceStep DEF NodeInv
<1>3. DeviceInv => DeviceAccounted
  BY DEF DeviceInv, DeviceAccounted, Uses, Guarded
<1> QED BY <1>1, <1>2, <1>3, SingleInvariant, PTL DEF Spec

\* The deprovision that will take the handle of a stopped service: in the outbox,
\* on the stream, or delivered to a job that has not looked at the registry yet.
TeardownComing(s) ==
  \E e \in Events :
    /\ ev[e].kind = "deprovision" /\ ev[e].svc = s
    /\ \/ ev[e].st \in {"outbox", "queued"}
       \/ ev[e].st = "inflight" /\ job[e].stage # "teardown"

\* A stopped service whose provision is over and whose handle is still filed.
StopInv ==
  \A s \in Services :
    row[s].status = "stopped" /\ registry[s] # NoPid /\ step[registry[s]] \in {"written", "done"}
      => TeardownComing(s)

\* Deprovisions are not given up: what a step does to events and jobs keeps the
\* teardown coming, if it lets every one of them go on.
LEMMA StopKept ==
  ASSUME TypeOK, StopInv,
         \A s \in Services :
           row'[s].status = "stopped" /\ registry'[s] # NoPid
             /\ step'[registry'[s]] \in {"written", "done"}
           => /\ row[s].status = "stopped" /\ registry[s] # NoPid
              /\ step[registry[s]] \in {"written", "done"},
         \A e \in Events :
           /\ ev[e].kind = "deprovision"
           /\ \/ ev[e].st \in {"outbox", "queued"}
              \/ ev[e].st = "inflight" /\ job[e].stage # "teardown"
           => /\ ev'[e].kind = "deprovision" /\ ev'[e].svc = ev[e].svc
              /\ \/ ev'[e].st \in {"outbox", "queued"}
                 \/ ev'[e].st = "inflight" /\ job'[e].stage # "teardown"
  PROVE  StopInv'
<1>1. \A s \in Services : TeardownComing(s) => TeardownComing(s)'
  BY DEF TeardownComing
<1> QED BY <1>1 DEF StopInv

LEMMA StopStep ==
  ASSUME DeployedOnce, "delete" \notin Ops, up = TRUE,
         \A s \in Services : req[s] = "none",
         TypeOK, OwnershipInv, SingleInv, StopInv, [Next]_vars
  PROVE  StopInv' /\ \A s \in Services : req'[s] = "none"
<1>0. /\ step \in [Pids -> Steps] /\ svc \in [Pids -> Services] /\ RowType
      /\ msg \in [Pids -> Events \cup {0}]
      /\ registry \in [Services -> Handles] /\ ev \in [Events -> EventRecords]
      /\ job \in [Events -> [stage : {"none", "start", "teardown"}, h : Handles]]
  BY DEF TypeOK, TaskType, HostType, BusType
<1>1. \A s \in Services : registry[s] # NoPid => registry[s] \in Pids /\ svc[registry[s]] = s
  BY RegistryOwns DEF OwnershipInv
<1>2. \A s \in Services : row[s] \in ServiceRows
  BY <1>0 DEF RowType
\* Steps that leave the bus alone.
<1>3. ASSUME UNCHANGED <<ev, job>>,
             \A s \in Services : /\ registry'[s] \in {registry[s], NoPid}
                                 /\ row'[s].status = "stopped" => row[s].status = "stopped",
             \A a \in Pids : step'[a] \in {"written", "done"} =>
               \/ step[a] \in {"written", "done"}
               \/ row'[svc[a]].status # "stopped"
      PROVE  StopInv'
  BY <1>1, <1>3, StopKept
\* Steps that stop no service and file no handle: what they do to deprovisions.
<1>4. ASSUME UNCHANGED <<row, registry>>,
             \A s \in Services : registry[s] # NoPid /\ step'[registry[s]] \in {"written", "done"}
                                   => step[registry[s]] \in {"written", "done"},
             \A e \in Events :
               ev[e].kind = "deprovision" =>
                 /\ ev'[e].kind = "deprovision" /\ ev'[e].svc = ev[e].svc
                 /\ \/ ev'[e].st = ev[e].st /\ job'[e] = job[e]
                    \/ job[e].stage = "teardown"
                    \/ ev'[e].st = "queued"
                    \/ ev'[e].st = "inflight" /\ job'[e].stage = "start"
      PROVE  StopInv'
  <2>1. \A e \in Events : job[e].stage = "teardown" => ev[e].st = "inflight"
    BY DEF SingleInv, DeliveryHeld, NoJob
  <2> QED BY <1>4, <2>1, StopKept
<1>5. ASSUME NEW a \in Pids, Attempt(a) \/ TimeoutFires(a) PROVE StopInv'
  <2>1. CASE \/ allocate_tap_index(a) \/ BuildFails(a) \/ CreateTap(a) \/ CreateTapBusy(a)
             \/ Boot(a) \/ BootFails(a) \/ ProbeFails(a) \/ WriteUndone(a) \/ TimeoutFires(a)
    <3>1. /\ UNCHANGED <<ev, job, row, registry>>
          /\ \E x \in Steps \ {"written", "done"} : step' = [step EXCEPT ![a] = x]
      BY <2>1 DEF allocate_tap_index, BuildFails, CreateTap, CreateTapBusy, Boot,
                  BootFails, ProbeFails, WriteUndone, TimeoutFires, FailGuarded, Goto,
                  Steps, hostVars, busVars
    <3> QED BY <1>0, <1>3, <3>1
  <2>2. CASE RegisterVm(a)
    <3>1. /\ UNCHANGED <<ev, job, row>> /\ step' = [step EXCEPT ![a] = "registered"]
          /\ registry' = [registry EXCEPT ![svc[a]] = a]
      BY <2>2 DEF RegisterVm, Goto, busVars
    <3>2. \A s \in Services :
            registry'[s] # NoPid /\ step'[registry'[s]] \in {"written", "done"}
              => registry[s] # NoPid /\ step[registry[s]] \in {"written", "done"}
      BY <1>0, <1>1, <3>1
    <3> QED BY <3>1, <3>2, StopKept
  <2>3. CASE WriteRunning(a)
    <3>1. /\ UNCHANGED <<ev, job, registry>> /\ step' = [step EXCEPT ![a] = "written"]
          /\ row' = [row EXCEPT ![svc[a]] =
                       [@ EXCEPT !.status = "running", !.vm = a, !.upstream = a]]
      BY <2>3 DEF WriteRunning, Goto, hostVars, busVars
    <3>2. [row[svc[a]] EXCEPT !.status = "running", !.vm = a, !.upstream = a].status = "running"
      BY <1>0, <1>2 DEF ServiceRows
    <3>3. row'[svc[a]].status = "running" /\ \A s \in Services : s # svc[a] => row'[s] = row[s]
      BY <1>0, <3>1, <3>2 DEF RowType
    <3> QED BY <1>0, <1>3, <3>1, <3>3
  <2>4. CASE WriteFails(a) \/ rollback_provision(a)
    <3>1. /\ UNCHANGED <<ev, job>> /\ RemoveHandle(svc[a], "release") /\ MarkFailed(svc[a])
          /\ \E x \in Steps \ {"written", "done"} : step' = [step EXCEPT ![a] = x]
      BY <2>4 DEF WriteFails, rollback_provision, Goto, Steps, busVars
    <3>2. /\ \A s \in Services : registry'[s] \in {registry[s], NoPid}
          /\ \A s \in Services : row'[s].status \in {row[s].status, "failed"}
      BY <1>0, <3>1, Removal, MarkFailedRows
    <3> QED BY <1>0, <1>3, <3>1, <3>2
  <2>5. CASE AckProvisioned(a) \/ AckPermanent(a) \/ NakTransient(a)
    <3>1. /\ UNCHANGED <<job, registry>> /\ step' = [step EXCEPT ![a] = "done"]
          /\ step[a] \in {"written", "ackP", "nakT"} /\ Active(a)
          /\ Ack(msg[a]) \/ Nak(msg[a])
      BY <2>5 DEF AckProvisioned, AckPermanent, NakTransient, Goto, Active, hostVars
    \* An attempt that ends without its handle is not the one in the registry.
    <3>2. \A s \in Services : registry[s] # NoPid /\ step'[registry[s]] \in {"written", "done"}
                                => step[registry[s]] \in {"written", "done"}
      BY <1>0, <1>1, <3>1 DEF SingleInv, NotRegistered, WithoutHandle
    <3>3. msg[a] \in Events /\ ev[msg[a]].kind = "provision"
      BY <3>1 DEF SingleInv, TaskHolds, IsProvision
    <3>4. \A e \in Events : ev[e].kind = "deprovision" => ev'[e] = ev[e]
      BY <1>0, <3>1, <3>3 DEF Ack, Nak
    <3>5. \A s \in Services : row'[s].status = "stopped" => row[s].status = "stopped"
      <4>1. CASE UNCHANGED row
        BY <4>1
      <4>2. CASE row' = [row EXCEPT ![svc[a]] = [@ EXCEPT !.status = "provisioning"]]
        BY <1>0, <4>2, StatusUpdate DEF StatusCheck
      <4> QED BY <2>5, <4>1, <4>2 DEF AckProvisioned, AckPermanent, NakTransient
    <3> QED BY <3>1, <3>2, <3>4, <3>5, StopKept
  <2> QED BY <1>5, <2>1, <2>2, <2>3, <2>4, <2>5 DEF Attempt
<1>6. ASSUME \/ \E a \in Pids : ReleaseDropped(a) \/ Teardown(a) \/ VmExits(a)
             \/ Background
      PROVE  StopInv'
  <2>1. UNCHANGED <<ev, job, step>>
    BY <1>6 DEF ReleaseDropped, Teardown, TeardownRelease, TeardownKill, TeardownDelete,
                VmExits, Background, CrashWatch, SuspendDrain, SuspendFinalize,
                SuspendKill, EbpfAudit, taskVars, busVars
  <2>2. \A s \in Services : registry'[s] \in {registry[s], NoPid}
    <3>1. CASE \/ \E a \in Pids : ReleaseDropped(a) \/ Teardown(a) \/ VmExits(a)
               \/ SuspendDrain \/ SuspendFinalize \/ CrashWatch
               \/ \E i \in Indices : EbpfAudit(i)
      BY <1>0, <3>1 DEF ReleaseDropped, Teardown, TeardownRelease, TeardownKill,
                        TeardownDelete, VmExits, SuspendDrain, SuspendFinalize,
                        CrashWatch, EbpfAudit, hostVars
    <3>2. ASSUME NEW s \in Services, SuspendKill(s)
          PROVE  \A t \in Services : registry'[t] \in {registry[t], NoPid}
      BY <3>2, Removal DEF SuspendKill
    <3> QED BY <1>6, <3>1, <3>2 DEF Background
  <2>3. \A s \in Services :
          row'[s] \in {row[s], MarkCrashed(row[s]), [row[s] EXCEPT !.status = "draining"],
                       [row[s] EXCEPT !.status = "suspended", !.upstream = NoPid]}
    <3>1. CASE \/ \E a \in Pids : ReleaseDropped(a) \/ Teardown(a) \/ VmExits(a)
               \/ \E s \in Services : SuspendKill(s)
      BY <3>1 DEF ReleaseDropped, Teardown, TeardownRelease, TeardownKill, TeardownDelete,
                  VmExits, SuspendKill
    <3>2. CASE SuspendDrain \/ SuspendFinalize \/ CrashWatch
      BY <3>2 DEF SuspendDrain, SuspendFinalize, CrashWatch
    <3>3. CASE \E i \in Indices : EbpfAudit(i)
      BY <1>0, <3>3 DEF EbpfAudit, RowType
    <3> QED BY <1>6, <3>1, <3>2, <3>3 DEF Background
  <2>4. \A r \in ServiceRows :
          /\ MarkCrashed(r) = r
          /\ [r EXCEPT !.status = "draining"].status = "draining"
          /\ [r EXCEPT !.status = "suspended", !.upstream = NoPid].status = "suspended"
    BY DEF ServiceRows, MarkCrashed, StatusCheck
  <2>5. \A s \in Services : row'[s].status = "stopped" => row[s].status = "stopped"
    BY <1>2, <2>3, <2>4
  <2> QED BY <1>3, <2>1, <2>2, <2>5
<1>7. ASSUME NEW a \in Pids, StartTask(a) PROVE StopInv'
  BY <1>0, <1>3, <1>7 DEF StartTask, Goto, hostVars
<1>8. ASSUME NEW e \in Events, HandleDeprovision(e) PROVE StopInv'
  <2>1. /\ UNCHANGED <<row, step, ev>> /\ RemoveHandle(ev[e].svc, "release")
        /\ job' = [job EXCEPT ![e] = [stage |-> "teardown", h |-> registry[ev[e].svc]]]
    BY <1>8 DEF HandleDeprovision, taskVars
  <2>2. ev[e].svc \in Services
    BY <1>0, EventUpdates
  <2>3. \A s \in Services : registry'[s] = IF s = ev[e].svc THEN NoPid ELSE registry[s]
    BY <2>1, <2>2, Removal
  <2>4. \A f \in Events : f # e => job'[f] = job[f]
    BY <1>0, <2>1
  <2>5. \A s \in Services : s # ev[e].svc /\ TeardownComing(s) => TeardownComing(s)'
    BY <2>1, <2>4 DEF TeardownComing
  <2> QED BY <2>1, <2>3, <2>5 DEF StopInv
<1>9. ASSUME NEW e \in Events,
             \/ ReceiveProvision(e) \/ RejectInMaintenance(e) \/ ReceiveDeprovision(e)
             \/ OutboxPublish(e) \/ AckWaitExpires(e) \/ AckDeprovision(e)
      PROVE  StopInv'
  <2>1. UNCHANGED <<row, registry, step>>
    BY <1>9 DEF ReceiveProvision, RejectInMaintenance, ReceiveDeprovision, OutboxPublish,
                AckWaitExpires, AckDeprovision, taskVars, hostVars
  <2>2. CASE ReceiveProvision(e) \/ RejectInMaintenance(e)
    <3>1. ev[e].kind = "provision" /\ UNCHANGED job /\ \A f \in Events : f # e => ev'[f] = ev[f]
      BY <1>0, <2>2 DEF ReceiveProvision, RejectInMaintenance, Deliverable
    <3> QED BY <1>4, <2>1, <3>1
  <2>3. CASE ReceiveDeprovision(e)
    <3>1. /\ \A f \in Events : ev'[f].kind = ev[f].kind /\ ev'[f].svc = ev[f].svc
          /\ \A f \in Events : f # e => ev'[f].st = ev[f].st
          /\ ev'[e].st = "inflight"
      BY <1>0, <2>3, EventState DEF ReceiveDeprovision, EventStates
    <3>2. job'[e].stage = "start" /\ \A f \in Events : f # e => job'[f] = job[f]
      BY <1>0, <2>3 DEF ReceiveDeprovision
    <3> QED BY <1>4, <2>1, <3>1, <3>2
  <2>4. CASE OutboxPublish(e) \/ AckWaitExpires(e)
    <3>1. PICK x \in {"queued", "dead"} :
            /\ ev' = [ev EXCEPT ![e] = [@ EXCEPT !.st = x]]
            /\ ev[e].kind = "deprovision" => x = "queued"
      BY <2>4 DEF OutboxPublish, AckWaitExpires
    <3>2. /\ \A f \in Events : ev'[f].kind = ev[f].kind /\ ev'[f].svc = ev[f].svc
          /\ \A f \in Events : f # e => ev'[f].st = ev[f].st
          /\ ev'[e].st = x
      BY <1>0, <3>1, EventState DEF EventStates
    <3>3. UNCHANGED job
      BY <2>4 DEF OutboxPublish, AckWaitExpires
    <3> QED BY <1>4, <2>1, <3>1, <3>2, <3>3
  <2>5. CASE AckDeprovision(e)
    <3>1. /\ job[e].stage = "teardown" /\ Ack(e) /\ job' = [job EXCEPT ![e] = NoJob]
      BY <2>5 DEF AckDeprovision
    <3>2. ev' = [ev EXCEPT ![e] = [@ EXCEPT !.st = "acked"]]
      BY <3>1 DEF Ack, DeployedOnce
    <3>3. /\ \A f \in Events : ev'[f].kind = ev[f].kind /\ ev'[f].svc = ev[f].svc
          /\ \A f \in Events : f # e => ev'[f].st = ev[f].st
      BY <1>0, <3>2, EventState DEF EventStates
    <3>4. \A f \in Events : f # e => job'[f] = job[f]
      BY <1>0, <3>1
    <3> QED BY <1>4, <2>1, <3>1, <3>3, <3>4
  <2> QED BY <1>9, <2>2, <2>3, <2>4, <2>5
<1>10. ASSUME NEW s \in Services, deploy_service(s) PROVE StopInv'
  <2>1. /\ UNCHANGED <<step, registry, job>> /\ Enqueue(ev, "provision", s)
        /\ row' = [row EXCEPT ![s] = [@ EXCEPT !.status = "provisioning"]]
    BY <1>10 DEF deploy_service, taskVars, hostVars
  <2>2. row'[s].status = "provisioning" /\ \A t \in Services : t # s => row'[t] = row[t]
    BY <1>0, <2>1, StatusUpdate DEF StatusCheck
  <2>3. \A f \in Events : ev[f].st # "free" => ev'[f] = ev[f]
    BY <1>0, <2>1, EnqueueEvents
  <2> QED BY <2>1, <2>2, <2>3, StopKept
<1>11. ASSUME NEW s \in Services, stop_service(s) PROVE StopInv'
  <2>1. /\ UNCHANGED <<step, registry, job>> /\ Enqueue(Purged(s), "deprovision", s)
        /\ row' = [row EXCEPT ![s] = [@ EXCEPT !.status = "stopped", !.upstream = NoPid]]
    BY <1>11 DEF stop_service, taskVars, hostVars
  <2>2. \A t \in Services : t # s => row'[t] = row[t]
    BY <1>0, <2>1, StatusUpdate DEF StatusCheck
  <2>3. Purged(s) \in [Events -> EventRecords]
    BY <1>0, PurgedType
  <2>4. PICK e \in Events :
          /\ Purged(s)[e].st = "free"
          /\ ev'[e].kind = "deprovision" /\ ev'[e].svc = s /\ ev'[e].st = "outbox"
          /\ \A f \in Events : f # e => ev'[f] = Purged(s)[f]
    BY <2>1, <2>3, EnqueueEvents
  <2>5. \A f \in Events : ev[f].svc # s /\ ev[f].st # "free" => ev'[f] = ev[f]
    <3>1. \A f \in Events : \/ Purged(s)[f] = ev[f]
                            \/ ev[f].svc = s
      BY <1>0, PurgedEvents
    <3> QED BY <2>4, <3>1
  <2>6. TeardownComing(s)'
    BY <2>4 DEF TeardownComing
  <2>7. \A t \in Services : t # s /\ TeardownComing(t) => TeardownComing(t)'
    BY <2>1, <2>5 DEF TeardownComing
  <2> QED BY <2>1, <2>2, <2>6, <2>7 DEF StopInv
<1>12. /\ ~DaemonCrash /\ ~Shutdown /\ ~Startup
       /\ \A s \in Services : /\ ~DeleteRead(s) /\ ~DeleteCommit(s)
                              /\ ~RestartRead(s) /\ ~RestartCommit(s)
  BY DEF DaemonCrash, Shutdown, Startup, DeleteRead, DeleteCommit, RestartRead,
         RestartCommit, DeployedOnce
<1>13. ASSUME UNCHANGED vars PROVE StopInv'
  BY <1>3, <1>13 DEF vars, taskVars, hostVars, busVars
<1>14. StopInv'
  BY <1>5, <1>6, <1>7, <1>8, <1>9, <1>10, <1>11, <1>12, <1>13
  DEF Next, NodeNext, MainLoop, Bus, Api
<1>15. UNCHANGED req
  BY ZenonT(40), <1>12
  DEF Next, NodeNext, Attempt, Teardown, MainLoop, Background, Api, Bus, ctlVars, vars,
      allocate_tap_index, BuildFails, CreateTap, CreateTapBusy, Boot, BootFails, RegisterVm,
      ProbeFails, WriteRunning, WriteFails, WriteUndone, AckProvisioned, TimeoutFires,
      rollback_provision, NakTransient, AckPermanent, ReleaseDropped, TeardownRelease,
      TeardownKill, TeardownDelete, ReceiveProvision, RejectInMaintenance, StartTask,
      ReceiveDeprovision, HandleDeprovision, AckDeprovision, VmExits, CrashWatch,
      SuspendDrain, SuspendFinalize, SuspendKill, EbpfAudit, deploy_service, stop_service,
      OutboxPublish, AckWaitExpires
<1> QED BY <1>14, <1>15

\* A VM whose service is stopped has its deprovision on the way, once no provision
\* of the service is pending, whatever fails, times out, crashes or is retried.
THEOREM StoppedServicesTornDown ==
  ASSUME DeployedOnce, "delete" \notin Ops
  PROVE  Spec => []StoppedHasTeardown
<1> DEFINE Inv == StopInv /\ \A s \in Services : req[s] = "none"
<1>1. Init => Inv
  BY DEF Init, StopInv
<1>2. NodeInv /\ SingleInv /\ Inv /\ [Next]_vars => Inv'
  BY StopStep DEF NodeInv
<1>3. NodeInv /\ StopInv => StoppedHasTeardown
  <2> SUFFICES ASSUME NodeInv, StopInv, NEW s \in Services,
                      row[s].status = "stopped", registry[s] # NoPid, ~ProvisionWork(s)
               PROVE  \E e \in Events : /\ ev[e].kind = "deprovision" /\ ev[e].svc = s
                                        /\ ev[e].st \in {"outbox", "queued", "inflight"}
    BY DEF StoppedHasTeardown
  <2>1. registry[s] \in Pids /\ Registered(registry[s]) /\ svc[registry[s]] = s
    BY RegistryOwns DEF NodeInv, OwnershipInv
  <2>2. ~Active(registry[s]) /\ step[registry[s]] # "idle"
    BY <2>1 DEF ProvisionWork, NodeInv, OwnershipInv
  <2>3. step[registry[s]] = "done"
    BY <2>2 DEF Active
  <2> QED BY <2>3 DEF StopInv, TeardownComing
<1> QED BY <1>1, <1>2, <1>3, SingleInvariant, PTL DEF Spec

-----------------------------------------------------------------------------
(* Deliveries and permits *)

\* What a step may do to an event: nothing; the outbox loses it or takes a new one
\* in its place; it is published, delivered, refused in maintenance, given back or
\* given up; or an ack arrives, however late.
EventMoves(f) ==
  \/ ev'[f] = ev[f]
  \/ ev[f].st \in {"free", "outbox"} /\ ev'[f].st = "outbox" /\ ev'[f].n = 0
  \/ /\ ev'[f].kind = ev[f].kind
     /\ \/ ev[f].st = "outbox" /\ ev'[f].st \in {"free", "queued"} /\ ev'[f].n = ev[f].n
        \/ ev'[f].st = "acked" /\ ev'[f].n = ev[f].n
        \/ /\ ev[f].kind = "provision" /\ ev[f].st = "queued" /\ ev'[f].n = ev[f].n + 1
           /\ \/ ev'[f].st \in {"inflight", "dead"}
              \/ ev'[f].st = "queued" /\ ev[f].n + 1 < MaxDeliver
        \/ /\ ev[f].kind = "deprovision" /\ ev[f].st = "queued" /\ ev'[f].n = ev[f].n
           /\ ev'[f].st = "inflight"
        \/ /\ ev[f].st = "inflight" /\ ev'[f].n = ev[f].n
           /\ \/ ev'[f].st = "dead"
              \/ ev'[f].st = "queued" /\ (ev[f].kind = "deprovision" \/ ev[f].n < MaxDeliver)

\* One event changes state; its other fields and the other events do not ...
LEMMA StateOnly ==
  ASSUME ev \in [Events -> EventRecords], NEW e \in Events, NEW x,
         ev' = [ev EXCEPT ![e] = [@ EXCEPT !.st = x]]
  PROVE  /\ \A f \in Events : f # e => ev'[f] = ev[f]
         /\ ev'[e].kind = ev[e].kind /\ ev'[e].n = ev[e].n /\ ev'[e].st = x
<1>1. /\ ev[e] \in EventRecords /\ ev'[e] = [ev[e] EXCEPT !.st = x]
      /\ \A f \in Events : f # e => ev'[f] = ev[f]
  OBVIOUS
<1>2. ev'[e].kind = ev[e].kind /\ ev'[e].n = ev[e].n /\ ev'[e].st = x
  BY <1>1 DEF EventRecords
<1> QED BY <1>1, <1>2

\* ... and with a delivery its count grows.
LEMMA StateAndCount ==
  ASSUME ev \in [Events -> EventRecords], NEW e \in Events, NEW x,
         ev' = [ev EXCEPT ![e] = [@ EXCEPT !.st = x, !.n = ev[e].n + 1]]
  PROVE  /\ \A f \in Events : f # e => ev'[f] = ev[f]
         /\ ev'[e].kind = ev[e].kind /\ ev'[e].n = ev[e].n + 1 /\ ev'[e].st = x
<1>1. /\ ev[e] \in EventRecords /\ ev'[e] = [ev[e] EXCEPT !.st = x, !.n = ev[e].n + 1]
      /\ \A f \in Events : f # e => ev'[f] = ev[f]
  OBVIOUS
<1>2. ev'[e].kind = ev[e].kind /\ ev'[e].n = ev[e].n + 1 /\ ev'[e].st = x
  BY <1>1 DEF EventRecords
<1> QED BY <1>1, <1>2

LEMMA AckMoves ==
  ASSUME ev \in [Events -> EventRecords], NEW e, Ack(e)
  PROVE  \A f \in Events : EventMoves(f)
<1>1. CASE UNCHANGED ev
  BY <1>1 DEF EventMoves
<1>2. CASE ev' = [ev EXCEPT ![e] = [@ EXCEPT !.st = "acked"]] /\ e \in Events
  BY <1>2, StateOnly DEF EventMoves
<1>3. CASE ev' = [ev EXCEPT ![e] = [@ EXCEPT !.st = "acked"]] /\ e \notin Events
  BY <1>3 DEF EventMoves
<1> QED BY <1>1, <1>2, <1>3 DEF Ack

LEMMA NakMoves ==
  ASSUME ev \in [Events -> EventRecords], NEW e, Nak(e)
  PROVE  \A f \in Events : EventMoves(f)
<1>1. CASE UNCHANGED ev
  BY <1>1 DEF EventMoves
<1>2. CASE /\ ev' = [ev EXCEPT ![e] = [@ EXCEPT !.st = IF ev[e].n < MaxDeliver
                                                       THEN "queued" ELSE "dead"]]
           /\ e \in Events /\ ev[e].st = "inflight"
  BY <1>2, StateOnly DEF EventMoves
<1>3. CASE /\ ev' = [ev EXCEPT ![e] = [@ EXCEPT !.st = IF ev[e].n < MaxDeliver
                                                       THEN "queued" ELSE "dead"]]
           /\ e \notin Events
  BY <1>3 DEF EventMoves
<1> QED BY <1>1, <1>2, <1>3 DEF Nak

LEMMA PurgeMoves ==
  ASSUME ev \in [Events -> EventRecords], NEW s, NEW f \in Events
  PROVE  \/ Purged(s)[f] = ev[f]
         \/ /\ ev[f].st = "outbox" /\ Purged(s)[f].st = "free"
            /\ Purged(s)[f].kind = ev[f].kind /\ Purged(s)[f].n = ev[f].n
<1>1. ev[f] \in EventRecords
  OBVIOUS
<1>2. /\ [ev[f] EXCEPT !.st = "free"].st = "free"
      /\ [ev[f] EXCEPT !.st = "free"].kind = ev[f].kind
      /\ [ev[f] EXCEPT !.st = "free"].n = ev[f].n
  BY <1>1 DEF EventRecords
<1> QED BY <1>2 DEF Purged

LEMMA EnqueueMoves ==
  ASSUME ev \in [Events -> EventRecords], NEW s \in Services, NEW kind,
         Enqueue(ev, kind, s) \/ Enqueue(Purged(s), kind, s)
  PROVE  \A f \in Events : EventMoves(f)
<1>1. PICK box \in [Events -> EventRecords] : (box = ev \/ box = Purged(s)) /\ Enqueue(box, kind, s)
  BY PurgedType
<1>2. PICK e \in Events :
        /\ \A f \in Events : f >= e => box[f].st = "free"
        /\ ev' = [box EXCEPT ![e] = [kind |-> kind, svc |-> s, st |-> "outbox", n |-> 0]]
  BY <1>1 DEF Enqueue
<1>3. box[e].st = "free" /\ ev'[e].st = "outbox" /\ ev'[e].n = 0
  BY <1>2 DEF Events
<1>4. \A f \in Events : f # e => ev'[f] = box[f]
  BY <1>2
<1>5. ASSUME NEW f \in Events PROVE EventMoves(f)
  <2>1. \/ box[f] = ev[f]
        \/ /\ ev[f].st = "outbox" /\ box[f].st = "free"
           /\ box[f].kind = ev[f].kind /\ box[f].n = ev[f].n
    BY <1>1, PurgeMoves
  <2>2. CASE f = e
    <3>1. ev[f].st \in {"free", "outbox"}
      BY <1>3, <2>1, <2>2
    <3> QED BY <1>3, <2>2, <3>1 DEF EventMoves
  <2>3. CASE f # e
    BY <1>4, <2>1, <2>3 DEF EventMoves
  <2> QED BY <2>2, <2>3
<1> QED BY <1>5

\* The steps of tasks that answer no delivery touch neither events nor messages.
LEMMA BusUntouched ==
  ASSUME Next, ~Api, ~Bus, ~MainLoop, ~Restarts,
         \A a \in Pids : ~AckProvisioned(a) /\ ~NakTransient(a) /\ ~AckPermanent(a)
  PROVE  UNCHANGED <<ev, msg, waiting>>
BY ZenonT(40) DEF Next, NodeNext, Attempt, Teardown, Background, taskVars, busVars,
       Restarts, allocate_tap_index, BuildFails, CreateTap, CreateTapBusy, Boot,
       BootFails, RegisterVm, ProbeFails, WriteRunning, WriteFails, WriteUndone,
       TimeoutFires, rollback_provision, ReleaseDropped, TeardownRelease, TeardownKill,
       TeardownDelete, VmExits, CrashWatch, SuspendDrain, SuspendFinalize, SuspendKill,
       EbpfAudit

LEMMA EventSteps ==
  ASSUME TypeOK, [Next]_vars, NEW f \in Events
  PROVE  EventMoves(f)
<1>0. ev \in [Events -> EventRecords]
  BY DEF TypeOK, BusType
<1>1. ASSUME ev' = ev PROVE EventMoves(f)
  BY <1>1 DEF EventMoves
<1>2. CASE UNCHANGED vars
  BY <1>1, <1>2 DEF vars, busVars
<1>3. CASE Restarts
  BY <1>1, <1>3 DEF Restarts, DaemonCrash, Shutdown, Startup, busVars
<1>4. ASSUME NEW a \in Pids, AckProvisioned(a) \/ NakTransient(a) \/ AckPermanent(a)
      PROVE  EventMoves(f)
  BY <1>0, <1>4, AckMoves, NakMoves DEF AckProvisioned, NakTransient, AckPermanent
<1>5. CASE Api
  <2>1. ASSUME NEW s \in Services, deploy_service(s) \/ stop_service(s) \/ RestartCommit(s)
        PROVE  EventMoves(f)
    BY <1>0, <2>1, EnqueueMoves DEF deploy_service, stop_service, RestartCommit
  <2>2. ASSUME NEW s \in Services, DeleteRead(s) \/ RestartRead(s) PROVE EventMoves(f)
    BY <1>1, <2>2 DEF DeleteRead, RestartRead, busVars
  <2>3. ASSUME NEW s \in Services, DeleteCommit(s) PROVE EventMoves(f)
    <3>1. CASE Enqueue(Purged(s), "deprovision", s)
      BY <1>0, <3>1, EnqueueMoves
    <3>2. CASE ev' = Purged(s)
      BY <1>0, <3>2, PurgeMoves DEF EventMoves
    <3> QED BY <2>3, <3>1, <3>2 DEF DeleteCommit
  <2> QED BY <1>5, <2>1, <2>2, <2>3 DEF Api
<1>6. CASE Bus
  <2>1. ASSUME NEW e \in Events, OutboxPublish(e) PROVE EventMoves(f)
    <3>1. ev[e].st = "outbox" /\ ev' = [ev EXCEPT ![e] = [@ EXCEPT !.st = "queued"]]
      BY <2>1 DEF OutboxPublish
    <3> QED BY <1>0, <3>1, StateOnly DEF EventMoves
  <2>2. ASSUME NEW e \in Events, AckWaitExpires(e) PROVE EventMoves(f)
    <3>1. /\ ev[e].st = "inflight"
          /\ ev' = [ev EXCEPT ![e] =
                      [@ EXCEPT !.st = IF ev[e].kind = "deprovision" \/ ev[e].n < MaxDeliver
                                       THEN "queued" ELSE "dead"]]
      BY <2>2 DEF AckWaitExpires
    <3> QED BY <1>0, <3>1, StateOnly DEF EventMoves
  <2> QED BY <1>6, <2>1, <2>2 DEF Bus
<1>7. CASE MainLoop
  <2>1. ASSUME NEW e \in Events, ReceiveProvision(e) PROVE EventMoves(f)
    <3>1. /\ ev[e].kind = "provision" /\ ev[e].st = "queued"
          /\ ev' = [ev EXCEPT ![e] = [@ EXCEPT !.st = "inflight", !.n = ev[e].n + 1]]
      BY <2>1 DEF ReceiveProvision, Deliverable
    <3> QED BY <1>0, <3>1, StateAndCount DEF EventMoves
  <2>2. ASSUME NEW e \in Events, RejectInMaintenance(e) PROVE EventMoves(f)
    <3>1. /\ ev[e].kind = "provision" /\ ev[e].st = "queued"
          /\ ev' = [ev EXCEPT ![e] =
                      [@ EXCEPT !.st = IF ev[e].n + 1 < MaxDeliver THEN "queued" ELSE "dead",
                                !.n = ev[e].n + 1]]
      BY <2>2 DEF RejectInMaintenance, Deliverable
    <3> QED BY <1>0, <3>1, StateAndCount DEF EventMoves
  <2>3. ASSUME NEW e \in Events, ReceiveDeprovision(e) PROVE EventMoves(f)
    <3>1. /\ ev[e].kind = "deprovision" /\ ev[e].st = "queued"
          /\ ev' = [ev EXCEPT ![e] = [@ EXCEPT !.st = "inflight"]]
      BY <2>3 DEF ReceiveDeprovision
    <3> QED BY <1>0, <3>1, StateOnly DEF EventMoves
  <2>4. ASSUME NEW e \in Events, HandleDeprovision(e) PROVE EventMoves(f)
    BY <1>1, <2>4 DEF HandleDeprovision
  <2>5. ASSUME NEW e \in Events, AckDeprovision(e) PROVE EventMoves(f)
    BY <1>0, <2>5, AckMoves DEF AckDeprovision
  <2>6. ASSUME NEW a \in Pids, StartTask(a) PROVE EventMoves(f)
    BY <1>1, <2>6 DEF StartTask
  <2> QED BY <1>7, <2>1, <2>2, <2>3, <2>4, <2>5, <2>6 DEF MainLoop
<1> QED BY <1>1, <1>2, <1>3, <1>4, <1>5, <1>6, <1>7, BusUntouched

\* An event that was answered, by an ack or by running out of deliveries, stays
\* so: no late nak, no ack timer and no outbox row brings its work back.
AnsweredForGood ==
  [][\A e \in Events : ev[e].st \in {"acked", "dead"} => ev'[e].st \in {"acked", "dead"}]_vars

\* AckKind::Ack and the last max_deliver end an event for good, in every behaviour.
THEOREM AnswersAreFinal == Spec => AnsweredForGood
<1>1. ASSUME RecoveryInv, [Next]_vars
      PROVE  \A e \in Events : ev[e].st \in {"acked", "dead"} => ev'[e].st \in {"acked", "dead"}
  BY <1>1, EventSteps DEF RecoveryInv, EventMoves
<1> QED BY <1>1, RecoveryInvariant, PTL DEF Spec, AnsweredForGood

\* The attempts that took a delivery of an event, and the one the main loop holds.
TriedBy(e) == {a \in Pids : msg[a] = e}
Tries(e) == Cardinality(TriedBy(e)) + (IF waiting = e THEN 1 ELSE 0)

\* An event is tried no more often than it was delivered, and delivered no more
\* than max_deliver times: what can still be delivered has a delivery left.
DeliveryInv ==
  \A e \in Events :
    /\ ev[e].n <= MaxDeliver
    /\ ev[e].st \in {"free", "outbox"} => ev[e].n = 0
    /\ ev[e].st = "queued" => ev[e].n < MaxDeliver
    /\ ev[e].kind = "deprovision" => ev[e].n = 0
    /\ Tries(e) <= ev[e].n

LEMMA FinitePids ==
  ASSUME NodeAssumption, NEW S \in SUBSET Pids
  PROVE  IsFiniteSet(S) /\ Cardinality(S) \in Nat
<1>1. IsFiniteSet(Pids)
  BY FS_Interval DEF NodeAssumption, Pids
<1> QED BY <1>1, FS_Subset, FS_CardinalityType

\* Who has tried an event changes only when the main loop receives a delivery or
\* hands it to a task, and the daemon forgets what it held when it ends.
LEMMA TriesStep ==
  ASSUME NodeAssumption, TypeOK, [Next]_vars, NEW e \in Events
  PROVE  /\ Tries(e) \in Nat /\ Tries(e)' \in Nat
         /\ \/ Tries(e)' <= Tries(e)
            \/ Tries(e)' = Tries(e) + 1 /\ ev'[e].n = ev[e].n + 1
<1>0. /\ msg \in [Pids -> Events \cup {0}] /\ ev \in [Events -> EventRecords]
      /\ waiting \in Events \cup {0}
  BY DEF TypeOK, TaskType, BusType
<1>1. PICK S \in SUBSET Pids, T \in SUBSET Pids : S = TriedBy(e) /\ T = TriedBy(e)'
  BY DEF TriedBy
<1>2. /\ IsFiniteSet(S) /\ Cardinality(S) \in Nat /\ IsFiniteSet(T) /\ Cardinality(T) \in Nat
      /\ Tries(e) = Cardinality(S) + (IF waiting = e THEN 1 ELSE 0)
      /\ Tries(e)' = Cardinality(T) + (IF waiting' = e THEN 1 ELSE 0)
  BY <1>1, FinitePids DEF Tries
<1>3. Tries(e) \in Nat /\ Tries(e)' \in Nat
  BY <1>2
<1>4. ASSUME msg' = msg, waiting' \in {waiting, 0} PROVE Tries(e)' <= Tries(e)
  <2>1. T = S /\ e # 0
    BY <1>1, <1>4 DEF TriedBy, Events
  <2> QED BY <1>2, <1>4, <2>1
<1>5. CASE UNCHANGED vars
  BY <1>3, <1>4, <1>5 DEF vars, taskVars, busVars
<1>6. CASE Restarts
  BY <1>3, <1>4, <1>6 DEF Restarts, DaemonCrash, Shutdown, MemoryLost, Startup, taskVars, busVars
<1>7. ASSUME NEW a \in Pids, AckProvisioned(a) \/ NakTransient(a) \/ AckPermanent(a)
      PROVE  Tries(e)' <= Tries(e)
  BY <1>4, <1>7 DEF AckProvisioned, NakTransient, AckPermanent
<1>8. CASE Api \/ Bus
  BY <1>3, <1>4, <1>8 DEF Api, Bus, deploy_service, stop_service, DeleteRead, DeleteCommit,
     RestartRead, RestartCommit, OutboxPublish, AckWaitExpires, taskVars, busVars
<1>9. ASSUME NEW f \in Events, ReceiveProvision(f)
      PROVE  Tries(e)' <= Tries(e) \/ (Tries(e)' = Tries(e) + 1 /\ ev'[e].n = ev[e].n + 1)
  <2>1. /\ msg' = msg /\ waiting = 0 /\ waiting' = f
        /\ ev' = [ev EXCEPT ![f] = [@ EXCEPT !.st = "inflight", !.n = ev[f].n + 1]]
    BY <1>9 DEF ReceiveProvision, taskVars
  <2>2. ev'[f].n = ev[f].n + 1
    BY <1>0, <2>1, StateAndCount
  <2>3. T = S /\ e # 0
    BY <1>1, <2>1 DEF TriedBy, Events
  <2>4. CASE e = f
    BY <1>2, <2>1, <2>2, <2>3, <2>4
  <2>5. CASE e # f
    BY <1>2, <2>1, <2>3, <2>5
  <2> QED BY <2>4, <2>5
<1>10. ASSUME NEW a \in Pids, StartTask(a) PROVE Tries(e)' <= Tries(e)
  <2>1. waiting # 0 /\ waiting' = 0 /\ msg' = [msg EXCEPT ![a] = waiting] /\ e # 0
    BY <1>10 DEF StartTask, Events
  <2>2. CASE waiting = e
    <3>1. T = S \cup {a}
      BY <1>0, <1>1, <2>1, <2>2 DEF TriedBy
    <3>2. Cardinality(T) \in {Cardinality(S), Cardinality(S) + 1}
      BY <1>2, <3>1, FS_AddElement
    <3> QED BY <1>2, <2>1, <2>2, <3>2
  <2>3. CASE waiting # e
    <3>1. T \subseteq S
      BY <1>0, <1>1, <2>1, <2>3 DEF TriedBy
    <3>2. Cardinality(T) <= Cardinality(S)
      BY <1>2, <3>1, FS_Subset
    <3> QED BY <1>2, <2>1, <2>3, <3>2
  <2> QED BY <2>2, <2>3
<1>11. ASSUME NEW f \in Events, \/ RejectInMaintenance(f) \/ ReceiveDeprovision(f)
                               \/ HandleDeprovision(f) \/ AckDeprovision(f)
       PROVE  Tries(e)' <= Tries(e)
  BY <1>4, <1>11 DEF RejectInMaintenance, ReceiveDeprovision, HandleDeprovision,
     AckDeprovision, taskVars
<1>12. CASE MainLoop
  BY <1>3, <1>9, <1>10, <1>11, <1>12 DEF MainLoop
<1>13. ASSUME UNCHANGED <<ev, msg, waiting>> PROVE Tries(e)' <= Tries(e)
  BY <1>4, <1>13
<1> QED BY <1>3, <1>5, <1>6, <1>7, <1>8, <1>12, <1>13, BusUntouched

LEMMA DeliveryInit ==
  ASSUME NodeAssumption, Init
  PROVE  DeliveryInv
<1>1. ASSUME NEW e \in Events
      PROVE  ev[e].st = "free" /\ ev[e].n = 0 /\ ev[e].kind = "none" /\ Tries(e) = 0
  <2>1. ev[e] = [kind |-> "none", svc |-> SomeService, st |-> "free", n |-> 0]
    BY DEF Init
  <2>2. e # 0
    BY DEF Events
  <2>3. TriedBy(e) = {} /\ waiting # e
    BY <2>2 DEF Init, TriedBy
  <2>4. Cardinality({}) = 0
    BY FS_EmptySet
  <2>5. Tries(e) = 0
    BY <2>3, <2>4 DEF Tries
  <2> QED BY <2>1, <2>5
<1> QED BY <1>1 DEF DeliveryInv, NodeAssumption

LEMMA DeliveryStep ==
  ASSUME NodeAssumption, TypeOK, DeliveryInv, [Next]_vars
  PROVE  DeliveryInv'
<1>1. ASSUME NEW e \in Events
      PROVE  /\ ev'[e].n <= MaxDeliver
             /\ ev'[e].st \in {"free", "outbox"} => ev'[e].n = 0
             /\ ev'[e].st = "queued" => ev'[e].n < MaxDeliver
             /\ ev'[e].kind = "deprovision" => ev'[e].n = 0
             /\ Tries(e)' <= ev'[e].n
  <2>1. ev[e].n \in Nat /\ MaxDeliver \in Nat /\ MaxDeliver # 0
    BY EventUpdates DEF TypeOK, BusType, NodeAssumption
  <2>2. /\ ev[e].n <= MaxDeliver
        /\ ev[e].st \in {"free", "outbox"} => ev[e].n = 0
        /\ ev[e].st = "queued" => ev[e].n < MaxDeliver
        /\ ev[e].kind = "deprovision" => ev[e].n = 0
        /\ Tries(e) <= ev[e].n
    BY DEF DeliveryInv
  <2>3. /\ ev'[e].n <= MaxDeliver /\ ev'[e].n >= ev[e].n /\ ev'[e].n \in Nat
        /\ ev'[e].st \in {"free", "outbox"} => ev'[e].n = 0
        /\ ev'[e].st = "queued" => ev'[e].n < MaxDeliver
        /\ ev'[e].kind = "deprovision" => ev'[e].n = 0
    <3>1. EventMoves(e)
      BY EventSteps
    <3> QED BY <2>1, <2>2, <3>1 DEF EventMoves
  <2>4. Tries(e)' <= ev'[e].n
    BY <2>1, <2>2, <2>3, TriesStep
  <2> QED BY <2>3, <2>4
<1> QED BY <1>1 DEF DeliveryInv

\* A provision event is tried by at most max_deliver attempts, whether they end in
\* an ack that is lost, a nak, a timeout, an ack_wait that expires under a running
\* attempt or the end of the daemon, and refusals in maintenance mode count.
TriedAtMost == \A e \in Events : Cardinality(TriedBy(e)) <= MaxDeliver

\* No event is provisioned more than max_deliver times, across restarts too.
THEOREM RetriesBounded == Spec => []TriedAtMost
<1>1. Init => DeliveryInv
  BY NodeAssumption, DeliveryInit
<1>2. RecoveryInv /\ DeliveryInv /\ [Next]_vars => DeliveryInv'
  BY NodeAssumption, DeliveryStep DEF RecoveryInv
<1>3. RecoveryInv /\ DeliveryInv => TriedAtMost
  <2>1. ASSUME RecoveryInv, DeliveryInv, NEW e \in Events
        PROVE  Cardinality(TriedBy(e)) <= MaxDeliver
    <3>1. Cardinality(TriedBy(e)) \in Nat
      BY NodeAssumption, FinitePids DEF TriedBy
    <3>2. ev[e].n \in Nat /\ MaxDeliver \in Nat
      BY <2>1, NodeAssumption, EventUpdates DEF RecoveryInv, TypeOK, BusType, NodeAssumption
    <3>3. Tries(e) <= ev[e].n /\ ev[e].n <= MaxDeliver
      BY <2>1 DEF DeliveryInv
    <3> QED BY <3>1, <3>2, <3>3 DEF Tries
  <2> QED BY <2>1 DEF TriedAtMost
<1> QED BY <1>1, <1>2, <1>3, RecoveryInvariant, PTL DEF Spec

\* Only the main loop, with a permit, starts an attempt: no other step makes one
\* that was idle or done active again.
LEMMA ActiveSteps ==
  ASSUME TypeOK, [Next]_vars, \A b \in Pids : ~StartTask(b), NEW a \in Pids, Active(a)'
  PROVE  Active(a)
<1>0. step \in [Pids -> Steps]
  BY DEF TypeOK, TaskType
<1>1. ASSUME step' = step PROVE Active(a)
  BY <1>1 DEF Active
<1>2. ASSUME NEW b \in Pids, Active(b), NEW x, Goto(b, x) PROVE Active(a)
  BY <1>0, <1>2 DEF Active, Goto
<1>3. CASE UNCHANGED vars
  BY <1>1, <1>3 DEF vars, taskVars
<1>4. ASSUME NEW b \in Pids, Attempt(b) \/ TimeoutFires(b) PROVE Active(a)
  <2>1. CASE allocate_tap_index(b) \/ BuildFails(b) \/ CreateTap(b) \/ CreateTapBusy(b)
    <3>1. Active(b)
      BY <2>1 DEF allocate_tap_index, BuildFails, CreateTap, CreateTapBusy, Active
    <3>2. \E x : Goto(b, x)
      BY <2>1 DEF allocate_tap_index, BuildFails, CreateTap, CreateTapBusy, FailGuarded
    <3> QED BY <1>2, <3>1, <3>2
  <2>2. CASE Boot(b) \/ BootFails(b) \/ RegisterVm(b) \/ ProbeFails(b) \/ WriteRunning(b)
    <3>1. Active(b)
      BY <2>2 DEF Boot, BootFails, RegisterVm, ProbeFails, WriteRunning, Active
    <3>2. \E x : Goto(b, x)
      BY <2>2 DEF Boot, BootFails, RegisterVm, ProbeFails, WriteRunning, FailGuarded
    <3> QED BY <1>2, <3>1, <3>2
  <2>3. CASE \/ WriteFails(b) \/ WriteUndone(b) \/ AckProvisioned(b) \/ rollback_provision(b)
             \/ NakTransient(b) \/ AckPermanent(b) \/ TimeoutFires(b)
    <3>1. Active(b)
      BY <2>3 DEF WriteFails, WriteUndone, AckProvisioned, rollback_provision, NakTransient,
                  AckPermanent, TimeoutFires, InProvision, Active
    <3>2. \E x : Goto(b, x)
      BY <2>3 DEF WriteFails, WriteUndone, AckProvisioned, rollback_provision, NakTransient,
                  AckPermanent, TimeoutFires
    <3> QED BY <1>2, <3>1, <3>2
  <2> QED BY <1>4, <2>1, <2>2, <2>3 DEF Attempt
<1>5. ASSUME NEW b \in Pids, ReleaseDropped(b) \/ Teardown(b) \/ VmExits(b) PROVE Active(a)
  BY <1>1, <1>5 DEF ReleaseDropped, Teardown, TeardownRelease, TeardownKill, TeardownDelete,
     VmExits, taskVars
<1>6. CASE MainLoop
  BY <1>1, <1>6 DEF MainLoop, ReceiveProvision, RejectInMaintenance, ReceiveDeprovision,
     HandleDeprovision, AckDeprovision, taskVars
<1>7. CASE Background
  BY <1>1, <1>7 DEF Background, CrashWatch, SuspendDrain, SuspendFinalize, SuspendKill,
     EbpfAudit, taskVars
<1>8. CASE DaemonCrash \/ Shutdown
  BY <1>8 DEF DaemonCrash, Shutdown, MemoryLost, Active
<1>9. CASE Startup
  BY <1>1, <1>9 DEF Startup, taskVars
<1>10. CASE Api \/ Bus
  BY <1>1, <1>10 DEF Api, Bus, deploy_service, stop_service, DeleteRead, DeleteCommit,
     RestartRead, RestartCommit, OutboxPublish, AckWaitExpires, taskVars
<1> QED BY <1>3, <1>4, <1>5, <1>6, <1>7, <1>8, <1>9, <1>10 DEF Next, NodeNext

\* The node never works on more provisions than NODE_MAX_CONCURRENT_PROVISIONS, the
\* naks, acks and rollbacks after a failure or a timeout included.
PermitsRespected == Cardinality({a \in Pids : Active(a)}) <= MaxConcurrent

\* The semaphore of the main loop bounds the attempts under way, in every behaviour.
THEOREM ProvisionsBounded == Spec => []PermitsRespected
<1>1. ASSUME Init PROVE PermitsRespected
  <2>1. {a \in Pids : Active(a)} = {}
    BY <1>1 DEF Init, Active
  <2>2. Cardinality({}) = 0 /\ MaxConcurrent \in Nat
    BY NodeAssumption, FS_EmptySet DEF NodeAssumption
  <2>3. Cardinality({a \in Pids : Active(a)}) = 0
    BY <2>1, <2>2
  <2> QED BY ONLY <2>2, <2>3 DEF PermitsRespected
<1>2. ASSUME RecoveryInv, PermitsRespected, [Next]_vars PROVE PermitsRespected'
  <2>1. PICK S \in SUBSET Pids, T \in SUBSET Pids :
          S = {a \in Pids : Active(a)} /\ T = {a \in Pids : Active(a)}'
    OBVIOUS
  <2>2. /\ IsFiniteSet(S) /\ Cardinality(S) \in Nat /\ Cardinality(T) \in Nat
        /\ MaxConcurrent \in Nat /\ Cardinality(S) <= MaxConcurrent
    BY <1>2, <2>1, NodeAssumption, FinitePids DEF PermitsRespected, NodeAssumption
  <2>3. ASSUME NEW b \in Pids, StartTask(b) PROVE Cardinality(T) <= MaxConcurrent
    <3>1. step' = [step EXCEPT ![b] = "new"] /\ step \in [Pids -> Steps]
      BY <1>2, <2>3 DEF StartTask, Goto, RecoveryInv, TypeOK, TaskType
    <3>2. T = S \cup {b}
      BY <2>1, <3>1 DEF Active
    <3>3. Cardinality(T) \in {Cardinality(S), Cardinality(S) + 1}
      BY <2>2, <3>2, FS_AddElement
    <3>4. Cardinality(S) < MaxConcurrent
      BY <2>1, <2>3 DEF StartTask, PermitFree
    <3> QED BY <2>2, <3>3, <3>4
  <2>4. ASSUME \A b \in Pids : ~StartTask(b) PROVE Cardinality(T) <= MaxConcurrent
    <3>1. T \subseteq S
      BY <1>2, <2>1, <2>4, ActiveSteps DEF RecoveryInv
    <3>2. Cardinality(T) <= Cardinality(S)
      BY <2>2, <3>1, FS_Subset
    <3> QED BY <2>2, <3>2
  <2> QED BY <2>1, <2>3, <2>4 DEF PermitsRespected
<1> QED BY <1>1, <1>2, RecoveryInvariant, PTL DEF Spec

-----------------------------------------------------------------------------
(* The path of a provision attempt *)

\* How far an attempt is, from the task's start to its ack or nak.
StepRank(x) ==
  CASE x = "idle" -> 0 [] x = "new" -> 1 [] x = "alloc" -> 2 [] x = "tap" -> 3
    [] x = "booted" -> 4 [] x = "registered" -> 5 [] x = "undoing" -> 6
    [] x = "written" -> 6 [] x = "failT" -> 7 [] x = "failP" -> 7
    [] x = "nakT" -> 8 [] x = "ackP" -> 8 [] x = "done" -> 9

\* Every step of an attempt takes it onward, and nothing, not a timeout, the
\* rollback inside provision nor the end of the daemon, takes one back: an attempt
\* allocates, boots and registers once and rolls back at most twice.
AttemptsOnward ==
  [][\A a \in Pids : /\ Attempt(a) => StepRank(step[a]) < StepRank(step'[a])
                     /\ step'[a] # step[a] => StepRank(step[a]) < StepRank(step'[a])]_vars

LEMMA AttemptOnward ==
  ASSUME TypeOK, NEW a \in Pids, Attempt(a) \/ TimeoutFires(a) \/ StartTask(a)
  PROVE  /\ StepRank(step[a]) < StepRank(step'[a])
         /\ \A b \in Pids : b # a => step'[b] = step[b]
<1>0. step \in [Pids -> Steps]
  BY DEF TypeOK, TaskType
<1>1. ASSUME NEW x, Goto(a, x) PROVE step'[a] = x /\ \A b \in Pids : b # a => step'[b] = step[b]
  BY <1>0, <1>1 DEF Goto
<1>2. CASE allocate_tap_index(a) \/ BuildFails(a) \/ CreateTap(a) \/ CreateTapBusy(a)
  BY <1>1, <1>2 DEF allocate_tap_index, BuildFails, CreateTap, CreateTapBusy, FailGuarded, StepRank
<1>3. CASE Boot(a) \/ BootFails(a) \/ RegisterVm(a) \/ ProbeFails(a) \/ WriteRunning(a)
  BY <1>1, <1>3 DEF Boot, BootFails, RegisterVm, ProbeFails, WriteRunning, FailGuarded, StepRank
<1>4. CASE WriteFails(a) \/ WriteUndone(a) \/ AckProvisioned(a)
  BY <1>1, <1>4 DEF WriteFails, WriteUndone, AckProvisioned, StepRank
<1>5. CASE rollback_provision(a)
  BY <1>1, <1>5 DEF rollback_provision, StepRank
<1>6. CASE NakTransient(a) \/ AckPermanent(a) \/ StartTask(a)
  BY <1>1, <1>6 DEF NakTransient, AckPermanent, StartTask, StepRank
<1>7. CASE TimeoutFires(a)
  BY <1>1, <1>7 DEF TimeoutFires, InProvision, StepRank
<1> QED BY <1>2, <1>3, <1>4, <1>5, <1>6, <1>7 DEF Attempt

\* Steps that are no attempt's leave every attempt where it is, but for the end of
\* the daemon, which ends them.
LEMMA OthersKeepSteps ==
  ASSUME Next, \A a \in Pids : ~Attempt(a) /\ ~TimeoutFires(a) /\ ~StartTask(a),
         ~DaemonCrash, ~Shutdown
  PROVE  step' = step
BY ZenonT(40) DEF Next, NodeNext, Teardown, MainLoop, Background, Api, Bus, taskVars,
       ReleaseDropped, TeardownRelease, TeardownKill, TeardownDelete, ReceiveProvision,
       RejectInMaintenance, ReceiveDeprovision, HandleDeprovision, AckDeprovision, VmExits,
       CrashWatch, SuspendDrain, SuspendFinalize, SuspendKill, EbpfAudit, Startup,
       deploy_service, stop_service, DeleteRead, DeleteCommit, RestartRead, RestartCommit,
       OutboxPublish, AckWaitExpires

\* A provision attempt takes a bounded number of steps under every fault: the safety
\* part of Settled.
THEOREM AttemptsGoOnward == Spec => AttemptsOnward
<1>1. ASSUME RecoveryInv, [Next]_vars
      PROVE  [\A a \in Pids : /\ Attempt(a) => StepRank(step[a]) < StepRank(step'[a])
                              /\ step'[a] # step[a] => StepRank(step[a]) < StepRank(step'[a])]_vars
  <2>0. TypeOK
    BY <1>1 DEF RecoveryInv
  <2>1. \A a \in Pids : Attempt(a) => StepRank(step[a]) < StepRank(step'[a])
    BY <2>0, AttemptOnward
  <2>2. ASSUME NEW a \in Pids, step'[a] # step[a], Next
        PROVE  StepRank(step[a]) < StepRank(step'[a])
    <3>1. ASSUME NEW b \in Pids, Attempt(b) \/ TimeoutFires(b) \/ StartTask(b)
          PROVE  StepRank(step[a]) < StepRank(step'[a])
      BY <2>0, <2>2, <3>1, AttemptOnward
    <3>2. CASE DaemonCrash \/ Shutdown
      <4>1. step'[a] = "done" /\ Active(a)
        BY <2>2, <3>2 DEF DaemonCrash, Shutdown, MemoryLost
      <4>2. step[a] \in Steps
        BY <2>0 DEF TypeOK, TaskType
      <4> QED BY <4>1, <4>2 DEF Steps, Active, StepRank
    <3> QED BY <2>2, <3>1, <3>2, OthersKeepSteps
  <2> QED BY <1>1, <2>1, <2>2
<1> QED BY <1>1, RecoveryInvariant, PTL DEF Spec, AttemptsOnward
=============================================================================
