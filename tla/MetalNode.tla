------------------------------ MODULE MetalNode ------------------------------
(***************************************************************************)
(* The daemon of one Metal node (crates/daemon/src): provision tasks, the  *)
(* VM registry, the in-use TAP indices, teardown, rollback, the crash      *)
(* watcher, the suspend consumer, the eBPF audit, restart and startup      *)
(* recovery.  A task is split at the awaits where another task can run.    *)
(*                                                                         *)
(* A provision attempt spawns at most one Firecracker process, so one      *)
(* number stands for the attempt, its process (fc_pid) and its VmHandle:   *)
(* tap_name, fc_pid and vm_id are always stored and moved together.        *)
(***************************************************************************)
EXTENDS TapIndex, FiniteSets

CONSTANTS
  Services,         \* Metal services placed on this node
  MaxAttempts,      \* bound: provision attempts in a behaviour
  MaxEvents,        \* bound: provision and deprovision events in a behaviour
  MaxDeliver,       \* max_deliver of the provision consumer (3 in run.rs)
  MaxConcurrent,    \* NODE_MAX_CONCURRENT_PROVISIONS
  Ops,              \* the API operations exercised
  Faults            \* the failures and background events exercised

ASSUME NodeAssumption ==
  /\ Services # {}
  /\ MaxAttempts \in Nat /\ MaxEvents \in Nat
  /\ MaxDeliver \in Nat \ {0} /\ MaxConcurrent \in Nat \ {0}

VARIABLES
  row,        \* services rows: status, deleted, vm (tap_name, fc_pid, vm_id), upstream
  registry,   \* VmRegistry: service -> handle
  inUse,      \* TAP_INDICES
  dev,        \* kernel TAP devices: NoDev, Idle, or the process attached
  live,       \* Firecracker processes alive
  step,       \* where each provision attempt is
  svc,        \* the service an attempt provisions
  msg,        \* the event an attempt holds
  tap,        \* the TAP index an attempt allocated
  undo,       \* the handle an attempt's rollback is tearing down
  dropping,   \* attempts whose TapGuard was dropped: release task spawned, not run
  down,       \* progress of deprovision::metal for a handle
  ev,         \* events: outbox row, JetStream message, delivery count
  job,        \* the deprovision task of an event: its stage and the handle it took
  waiting,    \* provision event the main loop holds while it awaits a permit
  susp,       \* the suspend consumer: phase and the rows it drains
  up,         \* the daemon process runs
  maint,      \* features.maintenance_mode of the running daemon
  req,        \* API request between its reads and its transaction
  leaked,     \* history: indices left in TAP_INDICES with no owner
  orphans     \* history: processes that lost their last reference

taskVars == <<step, svc, msg, tap, undo, dropping>>
hostVars == <<registry, inUse, dev, live, down>>
busVars  == <<ev, job, waiting>>
ctlVars  == <<susp, up, maint, req>>
auxVars  == <<leaked, orphans>>
vars     == <<row, taskVars, hostVars, busVars, ctlVars, auxVars>>

Pids   == 1 .. MaxAttempts
Events == 1 .. MaxEvents
NoPid  == 0
NoTap  == -1
NoDev  == -1
Idle   == 0

\* services_status_check, as the last migration that replaces it leaves it.
StatusCheck == {"provisioning", "running", "ready", "stopped", "failed",
                "error", "canceled", "suspended", "draining"}

\* A provision attempt, from the task's start to its ack or nak.
Steps == {"idle", "new", "alloc", "tap", "booted", "registered", "written",
          "undoing", "failT", "failP", "nakT", "ackP", "done"}
InProvision(a) == step[a] \in {"new", "alloc", "tap", "booted", "registered",
                               "written", "undoing"}
Active(a)      == step[a] \notin {"idle", "done"}

\* The attempt's TapGuard is armed.
Guarded(a)    == step[a] \in {"alloc", "tap", "booted"}
Registered(a) == \E s \in Services : registry[s] = a

SomeService == CHOOSE s \in Services : TRUE

NoJob == [stage |-> "none", h |-> NoPid]

Init ==
  /\ row = [s \in Services |-> [status |-> "absent", deleted |-> FALSE,
                                vm |-> NoPid, upstream |-> NoPid]]
  /\ registry = [s \in Services |-> NoPid]
  /\ inUse = {}
  /\ dev = [i \in Indices |-> NoDev]
  /\ live = {}
  /\ step = [a \in Pids |-> "idle"]
  /\ svc = [a \in Pids |-> SomeService]
  /\ msg = [a \in Pids |-> 0]
  /\ tap = [a \in Pids |-> NoTap]
  /\ undo = [a \in Pids |-> NoPid]
  /\ dropping = {}
  /\ down = [a \in Pids |-> "none"]
  /\ ev = [e \in Events |-> [kind |-> "none", svc |-> SomeService,
                             st |-> "free", n |-> 0]]
  /\ job = [e \in Events |-> NoJob]
  /\ waiting = 0
  /\ susp = [phase |-> "idle", rows |-> {}]
  /\ up = TRUE
  /\ maint = FALSE
  /\ req = [s \in Services |-> "none"]
  /\ leaked = {}
  /\ orphans = {}

-----------------------------------------------------------------------------
(* Effects shared by the handlers *)

\* SIGKILL (or the exit) of processes: the kernel detaches them from their TAP.
Kill(P) ==
  /\ live' = live \ P
  /\ dev' = [i \in Indices |-> IF dev[i] \in P THEN Idle ELSE dev[i]]

\* registry.lock().await.remove(service_id), then the teardown of the removed
\* handle starts at the given stage.
RemoveHandle(s, stage) ==
  /\ registry' = [registry EXCEPT ![s] = NoPid]
  /\ down' = [a \in Pids |-> IF a = registry[s] THEN stage ELSE down[a]]

\* UPDATE services SET status = 'failed' ... WHERE id AND deleted_at IS NULL
\* (best effort: nothing happens when no pooled connection is available).
MarkFailed(s) ==
  \/ row' = IF row[s].deleted THEN row ELSE [row EXCEPT ![s] = [@ EXCEPT !.status = "failed"]]
  \/ "dbfail" \in Faults /\ UNCHANGED row

\* UPDATE services SET status = 'crashed', upstream_addr = NULL: the database
\* refuses a status outside its CHECK constraint and the error is dropped.
MarkCrashed(r) ==
  IF "crashed" \in StatusCheck /\ ~r.deleted
  THEN [r EXCEPT !.status = "crashed", !.upstream = NoPid]
  ELSE r

\* AckKind::Ack (the ack may be lost), and AckKind::Nak: redelivered unless
\* max_deliver is reached.
Ack(e) ==
  \/ ev' = [ev EXCEPT ![e] = [@ EXCEPT !.st = "acked"]]
  \/ "acklost" \in Faults /\ UNCHANGED ev

Nak(e) ==
  ev' = IF ev[e].st = "inflight"
        THEN [ev EXCEPT ![e] = [@ EXCEPT !.st = IF ev[e].n < MaxDeliver
                                                THEN "queued" ELSE "dead"]]
        ELSE ev

-----------------------------------------------------------------------------
(* Provision attempts: provision, provision_metal, provision_metal_after_tap *)

Goto(a, s) == step' = [step EXCEPT ![a] = s]

\* An error that drops an armed TapGuard: Drop spawns the release task.
FailGuarded(a, s) ==
  /\ Goto(a, s)
  /\ dropping' = dropping \cup {a}

allocate_tap_index(a) ==
  /\ step[a] = "new"
  /\ \/ \E i \in Indices :
          /\ IsSmallestFree(i, inUse)
          /\ inUse' = inUse \cup {i}
          /\ tap' = [tap EXCEPT ![a] = i]
          /\ Goto(a, "alloc")
     \/ /\ Free(inUse) = {}
        /\ Goto(a, "failT")
        /\ UNCHANGED <<inUse, tap>>
  /\ UNCHANGED <<row, svc, msg, undo, dropping, registry, dev, live, down,
                 busVars, ctlVars, auxVars>>

\* ensure_template or build_rootfs fails: nothing but the guard to undo.  A
\* failed artifact digest is permanent, any other error transient.
BuildFails(a) ==
  /\ step[a] = "alloc"
  /\ \E s \in {"failT", "failP"} : FailGuarded(a, s)
  /\ UNCHANGED <<row, svc, msg, tap, undo, hostVars, busVars, ctlVars, auxVars>>

\* netlink::create_tap: TUNSETIFF makes the device, takes over an unattached
\* one, and fails with EBUSY when a process is attached to it.
CreateTap(a) ==
  /\ step[a] = "alloc"
  /\ dev[tap[a]] \in {NoDev, Idle}
  /\ dev' = [dev EXCEPT ![tap[a]] = Idle]
  /\ Goto(a, "tap")
  /\ UNCHANGED <<row, svc, msg, tap, undo, dropping, registry, inUse, live, down,
                 busVars, ctlVars, auxVars>>

CreateTapBusy(a) ==
  /\ step[a] = "alloc"
  /\ dev[tap[a]] \notin {NoDev, Idle}
  /\ FailGuarded(a, "failT")
  /\ UNCHANGED <<row, svc, msg, tap, undo, hostVars, busVars, ctlVars, auxVars>>

\* attach_to_bridge, tc, eBPF, spawn Firecracker, cgroup, start_vm.
Boot(a) ==
  /\ step[a] = "tap"
  /\ dev[tap[a]] = Idle
  /\ dev' = [dev EXCEPT ![tap[a]] = a]
  /\ live' = live \cup {a}
  /\ Goto(a, "booted")
  /\ UNCHANGED <<row, svc, msg, tap, undo, dropping, registry, inUse, down,
                 busVars, ctlVars, auxVars>>

\* Mutant: the error path of provision_metal forgets delete_tap.
BootFailsKeepsTap(a) ==
  /\ step[a] = "tap"
  /\ FailGuarded(a, "failT")
  /\ UNCHANGED <<row, svc, msg, tap, undo, hostVars, busVars, ctlVars, auxVars>>

\* A step after create_tap fails: a spawned process is killed, delete_tap.
BootFails(a) ==
  /\ step[a] = "tap"
  /\ FailGuarded(a, "failT")
  /\ dev' = [dev EXCEPT ![tap[a]] = NoDev]
  /\ UNCHANGED <<row, svc, msg, tap, undo, registry, inUse, live, down,
                 busVars, ctlVars, auxVars>>

\* Mutant: the guard is not defused, so it releases the index of a running VM.
RegisterArmed(a) ==
  /\ step[a] = "booted"
  /\ a \in live /\ dev[tap[a]] = a
  /\ registry' = [registry EXCEPT ![svc[a]] = a]
  /\ FailGuarded(a, "registered")
  /\ UNCHANGED <<row, svc, msg, tap, undo, inUse, dev, live, down,
                 busVars, ctlVars, auxVars>>

\* The startup probe succeeds: registry.insert replaces whatever handle the
\* service had, and the guard is defused.
RegisterVm(a) ==
  /\ step[a] = "booted"
  /\ a \in live /\ dev[tap[a]] = a
  /\ registry' = [registry EXCEPT ![svc[a]] = a]
  /\ Goto(a, "registered")
  /\ LET old == registry[svc[a]] IN
       IF old = NoPid
       THEN UNCHANGED auxVars
       ELSE /\ leaked' = leaked \cup {tap[old]}
            /\ orphans' = orphans \cup {old}
  /\ UNCHANGED <<row, svc, msg, tap, undo, dropping, inUse, dev, live, down,
                 busVars, ctlVars>>

\* The startup probe fails: SIGKILL, deprovision::metal inline, then the guard
\* drops with the permanent error.
ProbeFails(a) ==
  /\ step[a] = "booted"
  /\ FailGuarded(a, "failP")
  /\ live' = live \ {a}
  /\ dev' = [dev EXCEPT ![tap[a]] = NoDev]
  /\ UNCHANGED <<row, svc, msg, tap, undo, registry, inUse, down,
                 busVars, ctlVars, auxVars>>

\* UPDATE services SET upstream_addr, status = 'running', node_id, tap_name,
\* fc_pid, vm_id WHERE id: neither deleted_at nor status is looked at.
WriteRunning(a) ==
  /\ step[a] = "registered"
  /\ row' = [row EXCEPT ![svc[a]] =
               [@ EXCEPT !.status = "running", !.vm = a, !.upstream = a]]
  /\ Goto(a, "written")
  /\ UNCHANGED <<svc, msg, tap, undo, dropping, hostVars, busVars, ctlVars, auxVars>>

\* The final UPDATE fails: rollback_provision inside provision, then Err, and
\* the task's own rollback follows.
WriteFails(a) ==
  /\ "dbfail" \in Faults
  /\ step[a] = "registered"
  /\ MarkFailed(svc[a])
  /\ RemoveHandle(svc[a], "release")
  /\ Kill({registry[svc[a]]} \cap Pids)
  /\ undo' = [undo EXCEPT ![a] = registry[svc[a]]]
  /\ Goto(a, "undoing")
  /\ UNCHANGED <<svc, msg, tap, dropping, inUse, busVars, ctlVars, auxVars>>

\* The rollback of this attempt that is under way, if any, has returned.
UndoOver(a) == undo[a] # NoPid => down[undo[a]] = "none"

\* ... and provision returns the error.
WriteUndone(a) ==
  /\ step[a] = "undoing"
  /\ UndoOver(a)
  /\ Goto(a, "failT")
  /\ UNCHANGED <<row, svc, msg, tap, undo, dropping, hostVars, busVars, ctlVars, auxVars>>

\* msg.ack() after the RouteUpdated publish.
AckProvisioned(a) ==
  /\ step[a] = "written"
  /\ Ack(msg[a])
  /\ Goto(a, "done")
  /\ UNCHANGED <<row, svc, msg, tap, undo, dropping, hostVars, job, waiting, ctlVars, auxVars>>

\* tokio::time::timeout drops the provision future wherever it awaits: an armed
\* guard releases the index, but neither the process nor the device is touched,
\* and a rollback inside provision is cut where it stands.
TimeoutFires(a) ==
  LET cut == IF step[a] = "undoing" /\ ~UndoOver(a) THEN undo[a] ELSE NoPid IN
  /\ "timeout" \in Faults
  /\ InProvision(a)
  /\ Goto(a, "failT")
  /\ dropping' = IF Guarded(a) THEN dropping \cup {a} ELSE dropping
  /\ down' = [b \in Pids |-> IF b = cut THEN "none" ELSE down[b]]
  /\ leaked' = IF cut # NoPid /\ down[cut] = "release"
               THEN leaked \cup {tap[cut]} ELSE leaked
  /\ orphans' = IF step[a] = "booted" THEN orphans \cup {a} ELSE orphans
  /\ UNCHANGED <<row, svc, msg, tap, undo, registry, inUse, dev, live, busVars, ctlVars>>

\* rollback_provision: mark failed, take the service's handle (whichever
\* attempt registered it), SIGKILL, then release and tear down.
rollback_provision(a) ==
  /\ step[a] \in {"failT", "failP"}
  /\ UndoOver(a)
  /\ MarkFailed(svc[a])
  /\ RemoveHandle(svc[a], "release")
  /\ Kill({registry[svc[a]]} \cap Pids)
  /\ undo' = [undo EXCEPT ![a] = registry[svc[a]]]
  /\ Goto(a, IF step[a] = "failT" THEN "nakT" ELSE "ackP")
  /\ UNCHANGED <<svc, msg, tap, dropping, inUse, busVars, ctlVars, auxVars>>

\* FailureKind::Transient: UPDATE status = 'provisioning' WHERE id, then Nak.
NakTransient(a) ==
  /\ step[a] = "nakT"
  /\ UndoOver(a)
  /\ \/ row' = [row EXCEPT ![svc[a]] = [@ EXCEPT !.status = "provisioning"]]
     \/ "dbfail" \in Faults /\ UNCHANGED row
  /\ Nak(msg[a])
  /\ Goto(a, "done")
  /\ UNCHANGED <<svc, msg, tap, undo, dropping, hostVars, job, waiting, ctlVars, auxVars>>

\* FailureKind::Permanent: the event is acked and not retried.
AckPermanent(a) ==
  /\ step[a] = "ackP"
  /\ UndoOver(a)
  /\ Ack(msg[a])
  /\ Goto(a, "done")
  /\ UNCHANGED <<row, svc, msg, tap, undo, dropping, hostVars, job, waiting, ctlVars, auxVars>>

\* The release task TapGuard::drop spawned runs.
ReleaseDropped(a) ==
  /\ a \in dropping
  /\ inUse' = inUse \ {tap[a]}
  /\ dropping' = dropping \ {a}
  /\ UNCHANGED <<row, step, svc, msg, tap, undo, registry, dev, live, down,
                 busVars, ctlVars, auxVars>>

-----------------------------------------------------------------------------
(* Teardown: release_tap_index(&h.tap_name), then deprovision::metal *)

\* Mutant: the teardown forgets release_tap_index.
TeardownUnreleased(a) ==
  /\ down[a] = "release"
  /\ down' = [down EXCEPT ![a] = "kill"]
  /\ UNCHANGED <<row, taskVars, registry, inUse, dev, live, busVars, ctlVars, auxVars>>

TeardownRelease(a) ==
  /\ down[a] = "release"
  /\ inUse' = inUse \ {tap[a]}
  /\ down' = [down EXCEPT ![a] = "kill"]
  /\ UNCHANGED <<row, taskVars, registry, dev, live, busVars, ctlVars, auxVars>>

\* Mutant: the teardown goes on without the kill.
TeardownSparesVm(a) ==
  /\ down[a] = "kill"
  /\ down' = [down EXCEPT ![a] = "delete"]
  /\ UNCHANGED <<row, taskVars, registry, inUse, dev, live, busVars, ctlVars, auxVars>>

\* SIGTERM, 500 ms, SIGKILL.
TeardownKill(a) ==
  /\ down[a] = "kill"
  /\ Kill({a})
  /\ down' = [down EXCEPT ![a] = "delete"]
  /\ UNCHANGED <<row, taskVars, registry, inUse, busVars, ctlVars, auxVars>>

\* Detach eBPF, remove tc, delete_tap by name: whoever uses the name by now.
TeardownDelete(a) ==
  /\ down[a] = "delete"
  /\ dev' = [dev EXCEPT ![tap[a]] = NoDev]
  /\ down' = [down EXCEPT ![a] = "none"]
  /\ UNCHANGED <<row, taskVars, registry, inUse, live, busVars, ctlVars, auxVars>>

-----------------------------------------------------------------------------
(* The main loop *)

\* provision_msgs.next(): first deliveries come in stream order.  A daemon in
\* maintenance mode naks at once; otherwise the loop holds the message until a
\* semaphore permit is free and serves no other arm meanwhile.
InStreamOrder(e) ==
  ev[e].n > 0 \/ \A f \in Events : f < e => ~(ev[f].kind = "provision" /\
                                              ev[f].st = "queued" /\ ev[f].n = 0)

Deliverable(e) == ev[e].kind = "provision" /\ ev[e].st = "queued" /\ InStreamOrder(e)

ReceiveProvision(e) ==
  /\ up /\ ~maint /\ waiting = 0
  /\ Deliverable(e)
  /\ \E a \in Pids : step[a] = "idle"
  /\ ev' = [ev EXCEPT ![e] = [@ EXCEPT !.st = "inflight", !.n = ev[e].n + 1]]
  /\ waiting' = e
  /\ UNCHANGED <<row, taskVars, hostVars, job, ctlVars, auxVars>>

RejectInMaintenance(e) ==
  /\ up /\ maint /\ waiting = 0
  /\ Deliverable(e)
  /\ ev' = [ev EXCEPT ![e] =
              [@ EXCEPT !.st = IF ev[e].n + 1 < MaxDeliver THEN "queued" ELSE "dead",
                        !.n = ev[e].n + 1]]
  /\ UNCHANGED <<row, taskVars, hostVars, job, waiting, ctlVars, auxVars>>

\* Mutant: a finished task does not give its permit back.
PermitKept == Cardinality({a \in Pids : step[a] # "idle"}) < MaxConcurrent

PermitFree == Cardinality({a \in Pids : Active(a)}) < MaxConcurrent

StartTask(a) ==
  /\ waiting # 0
  /\ PermitFree
  /\ step[a] = "idle"
  /\ \A b \in Pids : b < a => step[b] # "idle"
  /\ Goto(a, "new")
  /\ svc' = [svc EXCEPT ![a] = ev[waiting].svc]
  /\ msg' = [msg EXCEPT ![a] = waiting]
  /\ waiting' = 0
  /\ UNCHANGED <<row, tap, undo, dropping, hostVars, ev, job, ctlVars, auxVars>>

\* The deprovision arm spawns a task per event, which needs no permit.
ReceiveDeprovision(e) ==
  /\ up /\ waiting = 0
  /\ ev[e].kind = "deprovision" /\ ev[e].st = "queued"
  /\ job[e] = NoJob
  /\ ev' = [ev EXCEPT ![e] = [@ EXCEPT !.st = "inflight"]]
  /\ job' = [job EXCEPT ![e].stage = "start"]
  /\ UNCHANGED <<row, taskVars, hostVars, waiting, ctlVars, auxVars>>

\* Mutant: the handle is removed and dropped without a teardown.
DeprovisionForgets(e) ==
  /\ job[e].stage = "start"
  /\ registry' = [registry EXCEPT ![ev[e].svc] = NoPid]
  /\ job' = [job EXCEPT ![e] = [stage |-> "teardown", h |-> registry[ev[e].svc]]]
  /\ UNCHANGED <<row, taskVars, inUse, dev, live, down, ev, waiting, ctlVars, auxVars>>

\* The task: the service's handle, if there is one, is taken, its index
\* released and the VM torn down; without a handle nothing is.  The row is not
\* looked at.
HandleDeprovision(e) ==
  /\ job[e].stage = "start"
  /\ RemoveHandle(ev[e].svc, "release")
  /\ job' = [job EXCEPT ![e] = [stage |-> "teardown", h |-> registry[ev[e].svc]]]
  /\ UNCHANGED <<row, taskVars, inUse, dev, live, ev, waiting, ctlVars, auxVars>>

\* RouteRemoved is published and the event acked after the teardown.
AckDeprovision(e) ==
  /\ job[e].stage = "teardown"
  /\ job[e].h # NoPid => down[job[e].h] = "none"
  /\ Ack(e)
  /\ job' = [job EXCEPT ![e] = NoJob]
  /\ UNCHANGED <<row, taskVars, hostVars, waiting, ctlVars, auxVars>>

-----------------------------------------------------------------------------
(* Background tasks *)

\* A Firecracker process exits on its own.
VmExits(a) ==
  /\ "vmcrash" \in Faults
  /\ a \in live
  /\ Kill({a})
  /\ UNCHANGED <<row, taskVars, registry, inUse, down, busVars, ctlVars, auxVars>>

\* crash_watcher: every registered handle whose process is gone is removed
\* under the registry lock, its running row marked crashed, then torn down.
CrashWatch ==
  LET dead == {s \in Services : registry[s] # NoPid /\ registry[s] \notin live} IN
  /\ dead # {}
  /\ registry' = [s \in Services |-> IF s \in dead THEN NoPid ELSE registry[s]]
  /\ down' = [a \in Pids |-> IF \E s \in dead : registry[s] = a THEN "release" ELSE down[a]]
  /\ row' = [s \in Services |-> IF s \in dead /\ row[s].status = "running"
                                THEN MarkCrashed(row[s]) ELSE row[s]]
  /\ UNCHANGED <<taskVars, inUse, dev, live, busVars, ctlVars, auxVars>>

\* suspend, phase 1: this node's running rows become draining.
SuspendDrain ==
  /\ "suspend" \in Faults
  /\ up
  /\ susp.phase = "idle"
  /\ \E S \in {{s \in Services : row[s].status = "running" /\ ~row[s].deleted}} :
       /\ S # {}
       /\ row' = [s \in Services |-> IF s \in S THEN [row[s] EXCEPT !.status = "draining"]
                                     ELSE row[s]]
       /\ susp' = [phase |-> "drain", rows |-> S]
  /\ UNCHANGED <<taskVars, hostVars, busVars, up, maint, req, auxVars>>

\* suspend, phase 3, after SUSPEND_DRAIN_SECS: draining rows become suspended.
SuspendFinalize ==
  /\ susp.phase = "drain"
  /\ row' = [s \in Services |->
               IF row[s].status = "draining" /\ ~row[s].deleted
               THEN [row[s] EXCEPT !.status = "suspended", !.upstream = NoPid]
               ELSE row[s]]
  /\ susp' = [susp EXCEPT !.phase = "kill"]
  /\ UNCHANGED <<taskVars, hostVars, busVars, up, maint, req, auxVars>>

\* ... and the handles of the drained rows are torn down, without
\* release_tap_index.
SuspendKill(s) ==
  /\ susp.phase = "kill"
  /\ s \in susp.rows
  /\ RemoveHandle(s, "kill")
  /\ leaked' = IF registry[s] = NoPid THEN leaked ELSE leaked \cup {tap[registry[s]]}
  /\ susp' = IF susp.rows = {s} THEN [phase |-> "idle", rows |-> {}]
             ELSE [susp EXCEPT !.rows = susp.rows \ {s}]
  /\ UNCHANGED <<row, taskVars, inUse, dev, live, busVars, up, maint, req, orphans>>

\* ebpf_audit: the filter of an attached TAP is missing.  When exactly one
\* running row names the TAP, its process is killed, the row marked crashed and
\* the handle forgotten; the index and the device stay.
EbpfAudit(i) ==
  /\ "audit" \in Faults
  /\ up
  /\ dev[i] \in Pids
  /\ \E s \in Services :
       /\ {t \in Services : /\ row[t].status = "running" /\ ~row[t].deleted
                            /\ row[t].vm # NoPid /\ tap[row[t].vm] = i} = {s}
       /\ Kill({row[s].vm})
       /\ row' = [row EXCEPT ![s] = MarkCrashed(row[s])]
       /\ registry' = [registry EXCEPT ![s] = NoPid]
       /\ leaked' = IF registry[s] = NoPid THEN leaked ELSE leaked \cup {tap[registry[s]]}
       /\ orphans' = orphans \cup ({registry[s]} \cap Pids)
  /\ UNCHANGED <<taskVars, inUse, down, busVars, ctlVars>>

-----------------------------------------------------------------------------
(* The daemon process ends and starts again *)

\* Memory is gone; processes, devices, rows and messages stay.
MemoryLost ==
  /\ up' = FALSE
  /\ registry' = [s \in Services |-> NoPid]
  /\ inUse' = {}
  /\ dropping' = {}
  /\ down' = [a \in Pids |-> "none"]
  /\ undo' = [a \in Pids |-> NoPid]
  /\ step' = [a \in Pids |-> IF Active(a) THEN "done" ELSE step[a]]
  /\ waiting' = 0
  /\ job' = [e \in Events |-> NoJob]
  /\ susp' = [phase |-> "idle", rows |-> {}]
  /\ leaked' = {}

DaemonCrash ==
  /\ "restart" \in Faults
  /\ up
  /\ MemoryLost
  /\ orphans' = orphans \cup {a \in live : \A s \in Services : row[s].vm # a}
  /\ UNCHANGED <<row, svc, msg, tap, dev, live, ev, maint, req>>

\* SIGTERM: remaining tasks are aborted after the drain timeout, then every
\* registered VM is stopped and torn down.
Shutdown ==
  LET mine == {registry[s] : s \in Services} \cap Pids IN
  /\ "restart" \in Faults
  /\ up
  /\ MemoryLost
  /\ row' = [s \in Services |->
               IF registry[s] # NoPid /\ row[s].status = "running" /\ ~row[s].deleted
               THEN [row[s] EXCEPT !.status = "stopped", !.upstream = NoPid]
               ELSE row[s]]
  /\ live' = live \ mine
  /\ dev' = [i \in Indices |-> IF \E a \in mine : tap[a] = i THEN NoDev
                               ELSE dev[i]]
  /\ orphans' = orphans \cup (live \ mine)
  /\ UNCHANGED <<svc, msg, tap, ev, maint, req>>

\* run_cleanup, reattach_ebpf, rebuild_registry, in that order.
OnNode(s)  == row[s].vm # NoPid /\ ~row[s].deleted
TapOf(S)   == {tap[row[s].vm] : s \in S}

\* Mutant: the tap_name of running rows is not collected.
KnownProvisioning == {s \in Services : OnNode(s) /\ row[s].status = "provisioning"}

\* Rows whose tap_name init_tap_indices and cleanup_orphaned_taps believe.
Known == {s \in Services : OnNode(s) /\ row[s].status \in {"running", "provisioning"}}

\* Mutant: cleanup_stale_provisioning finds nothing.
StaleIgnored == {}

\* Rows cleanup_stale_provisioning treats as orphans of a crash.
Stale == {s \in Services : OnNode(s) /\ row[s].status \in {"provisioning", "failed"}}

Recovered == {s \in Services : OnNode(s) /\ row[s].status = "running"}

\* services rows after startup: a drain cut short is finished, what is cleaned
\* up or cannot be isolated again is marked crashed.
StartupRow(s, dead) ==
  IF row[s].status = "draining" /\ OnNode(s)
  THEN [row[s] EXCEPT !.status = "suspended", !.upstream = NoPid]
  ELSE IF s \in dead THEN MarkCrashed(row[s]) ELSE row[s]

\* Devices after cleanup_orphaned_taps and cleanup_stale_provisioning.
DeviceKept(i) == i \in TapOf(Known) \ TapOf(Stale)

\* reattach_ebpf cannot restore a filter whose device is gone.
Unrestorable == {s \in Recovered : ~DeviceKept(tap[row[s].vm]) \/ dev[tap[row[s].vm]] = NoDev}

Startup ==
  /\ ~up
  /\ up' = TRUE
  /\ maint' \in IF "maintenance" \in Faults THEN BOOLEAN ELSE {FALSE}
  /\ row' = [s \in Services |-> StartupRow(s, Stale \cup Unrestorable)]
  /\ inUse' = TapOf(Known) \ TapOf(Stale)
  /\ registry' = [s \in Services |-> IF s \in Recovered /\ row'[s].status = "running"
                                     THEN row[s].vm ELSE NoPid]
  /\ live' = live \ {row[s].vm : s \in Stale \cup Unrestorable}
  /\ dev' = [i \in Indices |-> IF ~DeviceKept(i) THEN NoDev
                               ELSE IF dev[i] \in live' THEN dev[i]
                               ELSE IF dev[i] = NoDev THEN NoDev ELSE Idle]
  /\ orphans' = orphans \cup {a \in live' : \A s \in Services : registry'[s] # a}
  /\ UNCHANGED <<taskVars, down, busVars, susp, req, leaked>>

-----------------------------------------------------------------------------

Attempt(a) ==
  \/ allocate_tap_index(a) \/ BuildFails(a) \/ CreateTap(a) \/ CreateTapBusy(a)
  \/ Boot(a) \/ BootFails(a) \/ RegisterVm(a) \/ ProbeFails(a)
  \/ WriteRunning(a) \/ WriteFails(a) \/ WriteUndone(a) \/ AckProvisioned(a)
  \/ rollback_provision(a) \/ NakTransient(a) \/ AckPermanent(a)

Teardown(a) == TeardownRelease(a) \/ TeardownKill(a) \/ TeardownDelete(a)

MainLoop ==
  \/ \E e \in Events : \/ ReceiveProvision(e) \/ RejectInMaintenance(e)
                       \/ ReceiveDeprovision(e) \/ HandleDeprovision(e) \/ AckDeprovision(e)
  \/ \E a \in Pids : StartTask(a)

Background ==
  \/ CrashWatch \/ SuspendDrain \/ SuspendFinalize
  \/ \E s \in Services : SuspendKill(s)
  \/ \E i \in Indices : EbpfAudit(i)

\* A daemon that is down holds no task, so only what starts one asks for up.
NodeNext ==
  \/ \E a \in Pids : \/ Attempt(a) \/ TimeoutFires(a) \/ ReleaseDropped(a)
                     \/ Teardown(a) \/ VmExits(a)
  \/ MainLoop \/ Background
  \/ DaemonCrash \/ Shutdown \/ Startup
=============================================================================
