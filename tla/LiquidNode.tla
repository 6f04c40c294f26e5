----------------------------- MODULE LiquidNode -----------------------------
(***************************************************************************)
(* The Liquid half of the daemon (crates/daemon/src): Wasm services behind *)
(* an in-process HTTP shim on a port the OS assigns, provisioned, woken    *)
(* from zero, idled, swept and deprovisioned by tasks that share the       *)
(* LiquidRegistry; and the usage reporter that drains the shims' counters. *)
(*                                                                         *)
(* A shim is known by its port: the port's owner is the service whose      *)
(* module the accept loop runs, and a port whose loop was aborted may be   *)
(* bound again by the next serve().                                        *)
(***************************************************************************)
EXTENDS Naturals, FiniteSets

CONSTANTS
  Services,       \* Liquid services placed on this node
  Cold,           \* those deployed and scaled to zero before the behaviour begins
  Ports,          \* bound: ports the OS can assign
  Tasks,          \* bound: tasks alive at once
  MaxEvents,      \* bound: provision, wake and deprovision events
  MaxDeliver,     \* max_deliver of the provision and wake consumers (3)
  MaxConcurrent,  \* NODE_MAX_CONCURRENT_PROVISIONS
  MaxCalls,       \* bound: requests dispatched per service
  BacklogMax,     \* LIQUID_BACKLOG_MAX (10,000)
  Ops,            \* the API operations exercised
  Faults,         \* the failures and background tasks exercised
  NoSvc, NoPort   \* sentinels

ASSUME LiquidAssumption ==
  /\ IsFiniteSet(Services) /\ Cold \subseteq Services
  /\ NoSvc \notin Services /\ NoPort \notin Ports
  /\ MaxEvents \in Nat /\ MaxDeliver \in Nat \ {0} /\ MaxConcurrent \in Nat \ {0}
  /\ MaxCalls \in Nat /\ BacklogMax \in Nat

VARIABLES
  row,       \* services rows: status, addr (upstream_addr), deleted
  disk,      \* services with main.wasm and metadata.json under ARTIFACT_DIR
  registry,  \* LiquidRegistry: the port of a service's handle
  owner,     \* ports with a running accept loop: the service whose module it runs
  calls,     \* the invocation counter of the shim on a port
  task,      \* tasks spawned by the main loop
  ev,        \* JetStream messages: kind, service, state, deliveries
  idling,    \* services the idle checker marked stopped and has still to drop
  sweep,     \* the registry sweep: phase and the ids it holds
  backlog,   \* usage reporter: invocations whose publish failed
  billed,    \* history: invocations published for a service
  served     \* history: invocations dispatched by a service's shims

busVars   == <<ev, task>>
nodeVars  == <<registry, owner, disk>>
timerVars == <<idling, sweep>>
usageVars == <<calls, backlog, billed, served>>
vars      == <<row, busVars, nodeVars, timerVars, usageVars>>

Events == 1 .. MaxEvents
NoTask == [kind |-> "none", svc |-> NoSvc, ev |-> 0, step |-> "none", port |-> NoPort, perm |-> FALSE]
NoEvent == [kind |-> "none", svc |-> NoSvc, st |-> "free", n |-> 0]
NoSweep == [at |-> "idle", ids |-> {}]

Running(s) == row[s].status = "running" /\ ~row[s].deleted

\* A task that has bound a port and not yet handed it to the registry.
Holds(t) == task[t].step \in {"probe", "insert"}

Init ==
  /\ row = [s \in Services |-> [status |-> IF s \in Cold THEN "stopped" ELSE "absent",
                                addr |-> NoPort, deleted |-> FALSE]]
  /\ disk = Cold
  /\ registry = [s \in Services |-> NoPort]
  /\ owner = [p \in Ports |-> NoSvc]
  /\ calls = [p \in Ports |-> 0]
  /\ task = [t \in Tasks |-> NoTask]
  /\ ev = [e \in Events |-> NoEvent]
  /\ idling = {} /\ sweep = NoSweep
  /\ backlog = [s \in Services |-> 0]
  /\ billed = [s \in Services |-> 0]
  /\ served = [s \in Services |-> 0]

-----------------------------------------------------------------------------
(* The API and the proxy, as the node sees them *)

Publish(kind, s) ==
  \E e \in Events :
    /\ ev[e].st = "free" /\ \A f \in Events : f < e => ev[f].st # "free"
    /\ ev' = [ev EXCEPT ![e] = [kind |-> kind, svc |-> s, st |-> "queued", n |-> 0]]

\* deploy_service, and restart_service of a stopped or failed service.
start_service(s) ==
  /\ "start" \in Ops
  /\ row[s].status \in {"absent", "stopped", "failed"} /\ ~row[s].deleted
  /\ row' = [row EXCEPT ![s].status = "provisioning", ![s].addr = NoPort]
  /\ Publish("provision", s)
  /\ UNCHANGED <<task, nodeVars, timerVars, usageVars>>

\* stop_service and delete_service.
stop_service(s, delete) ==
  /\ "stop" \in Ops
  /\ row[s].status # "absent" /\ ~row[s].deleted
  /\ row[s].status = "stopped" => delete
  /\ row' = [row EXCEPT ![s] = [status |-> "stopped", addr |-> NoPort, deleted |-> delete]]
  /\ Publish("deprovision", s)
  /\ UNCHANGED <<task, nodeVars, timerVars, usageVars>>

\* A request for a stopped Liquid service: publish_wake, once per request and per
\* proxy.
publish_wake(s) ==
  /\ row[s].status = "stopped" /\ ~row[s].deleted
  /\ Publish("wake", s)
  /\ UNCHANGED <<row, task, nodeVars, timerVars, usageVars>>

\* A request routed to the address in the row: whatever shim listens there now
\* takes a permit, counts the invocation and runs its module.
dispatch(s) ==
  LET p == row[s].addr IN
  /\ ~row[s].deleted /\ p # NoPort
  /\ owner[p] # NoSvc
  /\ served[owner[p]] < MaxCalls
  /\ calls' = [calls EXCEPT ![p] = @ + 1]
  /\ served' = [served EXCEPT ![owner[p]] = @ + 1]
  /\ UNCHANGED <<row, busVars, nodeVars, timerVars, backlog, billed>>

-----------------------------------------------------------------------------
(* Deliveries *)

\* Wakes queue for a permit inside their task; a provision has its permit before
\* the task is spawned.
Permits == Cardinality({t \in Tasks : /\ task[t].kind \in {"provision", "wake"}
                                      /\ task[t].step # "permit"})

Spawn(e, kind, step) ==
  \E t \in Tasks :
    /\ task[t] = NoTask
    /\ task' = [task EXCEPT ![t] = [NoTask EXCEPT !.kind = kind, !.svc = ev[e].svc,
                                                  !.ev = e, !.step = step]]
    /\ ev' = [ev EXCEPT ![e].st = "inflight", ![e].n = IF @ < MaxDeliver THEN @ + 1 ELSE @]

ReceiveProvision(e) ==
  /\ ev[e].st = "queued" /\ ev[e].kind = "provision"
  /\ Permits < MaxConcurrent
  /\ Spawn(e, "provision", "fetch")
  /\ UNCHANGED <<row, nodeVars, timerVars, usageVars>>

\* The wake arm: a service already in the registry is taken to be running.
WakeSkipped(e) ==
  /\ ev[e].st = "queued" /\ ev[e].kind = "wake"
  /\ registry[ev[e].svc] # NoPort
  /\ ev' = [ev EXCEPT ![e].st = "done"]
  /\ UNCHANGED <<row, task, nodeVars, timerVars, usageVars>>

ReceiveWake(e) ==
  /\ ev[e].st = "queued" /\ ev[e].kind = "wake"
  /\ registry[ev[e].svc] = NoPort
  /\ Spawn(e, "wake", "permit")
  /\ UNCHANGED <<row, nodeVars, timerVars, usageVars>>

ReceiveDeprovision(e) ==
  /\ ev[e].st = "queued" /\ ev[e].kind = "deprovision"
  /\ Spawn(e, "deprovision", "remove")
  /\ UNCHANGED <<row, nodeVars, timerVars, usageVars>>

\* The task is over and answers its message: an ack that may not arrive ...
Ack(t) ==
  /\ task' = [task EXCEPT ![t] = NoTask]
  /\ \/ ev' = [ev EXCEPT ![task[t].ev].st = "done"]
     \/ "acklost" \in Faults /\ UNCHANGED ev

\* ... or a nak with a delay; JetStream gives up after max_deliver deliveries.
Nak(t) ==
  /\ task' = [task EXCEPT ![t] = NoTask]
  /\ ev' = [ev EXCEPT ![task[t].ev].st = IF @ = "inflight" /\ ev[task[t].ev].n < MaxDeliver
                                         THEN "queued" ELSE IF @ = "inflight" THEN "dead" ELSE @]

\* ack_wait (30 s for wakes, less than a compilation takes) passes unanswered.
AckWaitExpires(e) ==
  /\ ev[e].st = "inflight"
  /\ (\E t \in Tasks : task[t].ev = e) => "late" \in Faults /\ ev[e].kind # "deprovision"
  /\ ev' = [ev EXCEPT ![e].st = IF ev[e].n < MaxDeliver \/ ev[e].kind = "deprovision"
                                THEN "queued" ELSE "dead"]
  /\ UNCHANGED <<row, task, nodeVars, timerVars, usageVars>>

-----------------------------------------------------------------------------
(* provision_liquid and wake_liquid *)

Goto(t, step) == task' = [task EXCEPT ![t].step = step]

\* Mutant: a dropped LiquidHandle detaches its accept loop instead.
Detached(P) == owner

\* Dropping a LiquidHandle aborts its accept loop.
Aborted(P) == [p \in Ports |-> IF p \in P THEN NoSvc ELSE owner[p]]

AcquirePermit(t) ==
  /\ task[t].step = "permit"
  /\ Permits < MaxConcurrent
  /\ Goto(t, "serve")
  /\ UNCHANGED <<row, ev, nodeVars, timerVars, usageVars>>

\* The artifact is downloaded and verified, metadata.json written.
Fetch(t) ==
  /\ task[t].step = "fetch"
  /\ disk' = disk \cup {task[t].svc}
  /\ Goto(t, "serve")
  /\ UNCHANGED <<row, ev, registry, owner, timerVars, usageVars>>

\* wasm_http::serve compiles the module and starts an accept loop on a free
\* port, with a counter of its own.
Serve(t) ==
  /\ task[t].step = "serve"
  /\ task[t].svc \in disk
  /\ \E p \in Ports :
       /\ owner[p] = NoSvc
       /\ owner' = [owner EXCEPT ![p] = task[t].svc]
       /\ calls' = [calls EXCEPT ![p] = 0]
       /\ task' = [task EXCEPT ![t].port = p,
                     ![t].step = IF task[t].kind = "provision" THEN "probe" ELSE "insert"]
  /\ UNCHANGED <<row, ev, registry, disk, timerVars, backlog, billed, served>>

\* startup_probe sends GET /: the shim dispatches it and counts it.
Probe(t) ==
  /\ task[t].step = "probe"
  /\ calls' = [calls EXCEPT ![task[t].port] = @ + 1]
  /\ served' = [served EXCEPT ![task[t].svc] = @ + 1]
  /\ Goto(t, "insert")
  /\ UNCHANGED <<row, ev, nodeVars, timerVars, backlog, billed>>

\* registry.insert drops the handle it replaces.
Insert(t) ==
  LET s == task[t].svc IN
  /\ task[t].step = "insert"
  /\ registry' = [registry EXCEPT ![s] = task[t].port]
  /\ owner' = Aborted({registry[s]})
  /\ Goto(t, "write")
  /\ UNCHANGED <<row, ev, disk, timerVars, usageVars>>

\* UPDATE services SET status = 'running', upstream_addr ... WHERE id, whatever
\* the row says by now; the route is published and the message acked.
WriteRunning(t) ==
  /\ task[t].step = "write"
  /\ row' = [row EXCEPT ![task[t].svc].status = "running", ![task[t].svc].addr = task[t].port]
  /\ Ack(t)
  /\ UNCHANGED <<nodeVars, timerVars, usageVars>>

\* An error or the provision timeout.  What the task bound and did not register
\* keeps listening.  A failed final write is rolled back twice, by provision()
\* and by its caller.  classify_error: only the integrity check, the compile task
\* and the probe fail for good.
ProvisionFails(t) ==
  /\ "fail" \in Faults
  /\ task[t].kind = "provision" /\ task[t].step \in {"fetch", "serve", "probe", "write"}
  /\ \E perm \in IF task[t].step = "write" THEN {FALSE} ELSE BOOLEAN :
       task' = [task EXCEPT ![t].port = NoPort, ![t].perm = perm,
                  ![t].step = IF @ = "write" THEN "rollback2" ELSE "rollback"]
  /\ UNCHANGED <<row, ev, nodeVars, timerVars, usageVars>>

\* rollback_provision marks the row and removes whichever handle is registered.
Rollback(t) ==
  LET s == task[t].svc IN
  /\ task[t].step \in {"rollback2", "rollback"}
  /\ row' = IF row[s].deleted THEN row ELSE [row EXCEPT ![s].status = "failed"]
  /\ registry' = [registry EXCEPT ![s] = NoPort]
  /\ owner' = Aborted({registry[s]})
  /\ Goto(t, IF task[t].step = "rollback2" THEN "rollback" ELSE "answer")
  /\ UNCHANGED <<ev, disk, timerVars, usageVars>>

\* A permanent failure is acked; a transient one puts the row back to
\* 'provisioning' and is retried.
Answer(t) ==
  /\ task[t].step = "answer"
  /\ IF task[t].perm
     THEN Ack(t) /\ UNCHANGED row
     ELSE Nak(t) /\ row' = [row EXCEPT ![task[t].svc].status = "provisioning"]
  /\ UNCHANGED <<nodeVars, timerVars, usageVars>>

\* wake_liquid fails without its artifacts, or anywhere; what it registered stays.
WakeFails(t) ==
  /\ task[t].kind = "wake"
  /\ \/ task[t].step = "serve" /\ (task[t].svc \notin disk \/ "fail" \in Faults)
     \/ task[t].step = "write" /\ "fail" \in Faults
  /\ Nak(t)
  /\ UNCHANGED <<row, nodeVars, timerVars, usageVars>>

\* The Liquid branch of the deprovision task: the handle, then the artifacts.
DeprovisionRemove(t) ==
  /\ task[t].step = "remove"
  /\ registry' = [registry EXCEPT ![task[t].svc] = NoPort]
  /\ owner' = Aborted({registry[task[t].svc]})
  /\ Goto(t, "rmdir")
  /\ UNCHANGED <<row, ev, disk, timerVars, usageVars>>

DeprovisionRmdir(t) ==
  /\ task[t].step = "rmdir"
  /\ disk' = disk \ {task[t].svc}
  /\ Ack(t)
  /\ UNCHANGED <<row, registry, owner, timerVars, usageVars>>

-----------------------------------------------------------------------------
(* The timers *)

\* A tick of the idle checker stops, in one statement, every running row whose
\* last request, or whose creation, is too long ago ...
IdleMark(idle) ==
  /\ "idle" \in Faults
  /\ idling = {} /\ idle # {}
  /\ \A s \in idle : Running(s)
  /\ row' = [s \in Services |-> IF s \in idle
                                THEN [row[s] EXCEPT !.status = "stopped", !.addr = NoPort]
                                ELSE row[s]]
  /\ idling' = idle
  /\ UNCHANGED <<busVars, nodeVars, sweep, usageVars>>

\* Mutant: the accept loop is aborted, the entry is left for the next provision.
IdleAborts(s) ==
  /\ s \in idling
  /\ idling' = idling \ {s}
  /\ owner' = Aborted({registry[s]})
  /\ UNCHANGED <<row, busVars, registry, disk, sweep, usageVars>>

\* ... and then drops their handles one by one, keeping the artifacts.
IdleDrop(s) ==
  /\ s \in idling
  /\ idling' = idling \ {s}
  /\ registry' = [registry EXCEPT ![s] = NoPort]
  /\ owner' = Aborted({registry[s]})
  /\ UNCHANGED <<row, busVars, disk, sweep, usageVars>>

\* The registry sweep lists the registered ids, ...
SweepKeys ==
  /\ sweep.at = "idle"
  /\ \E s \in Services : registry[s] # NoPort
  /\ sweep' = [at |-> "keys", ids |-> {s \in Services : registry[s] # NoPort}]
  /\ UNCHANGED <<row, busVars, nodeVars, idling, usageVars>>

\* Mutant: the query forgets status = 'running'.
SweepAnyRow ==
  /\ sweep.at = "keys"
  /\ sweep' = [at |-> "rows", ids |-> {s \in sweep.ids : ~row[s].deleted}]
  /\ UNCHANGED <<row, busVars, nodeVars, idling, usageVars>>

\* ... asks the database which of them are running, ...
SweepRows ==
  /\ sweep.at = "keys"
  /\ sweep' = [at |-> "rows", ids |-> {s \in sweep.ids : Running(s)}]
  /\ UNCHANGED <<row, busVars, nodeVars, idling, usageVars>>

\* ... and retains those, dropping every other handle.
SweepRetain ==
  /\ sweep.at = "rows"
  /\ registry' = [s \in Services |-> IF s \in sweep.ids THEN registry[s] ELSE NoPort]
  /\ owner' = Aborted({registry[s] : s \in Services \ sweep.ids})
  /\ sweep' = NoSweep
  /\ UNCHANGED <<row, busVars, disk, idling, usageVars>>

\* What a tick of the usage reporter finds for a registered service.
Total(s) == backlog[s] + calls[registry[s]]

\* Mutant: the leftover is read and not removed before the publish.
ReportKeepsLeftover(sent) ==
  LET reg == {s \in Services : registry[s] # NoPort} IN
  /\ sent \subseteq reg
  /\ billed' = [s \in Services |-> IF s \in sent THEN billed[s] + Total(s) ELSE billed[s]]
  /\ calls' = [p \in Ports |-> IF \E s \in reg : registry[s] = p THEN 0 ELSE calls[p]]
  /\ backlog' = [s \in Services |-> IF s \in reg \ sent THEN Total(s) ELSE backlog[s]]
  /\ \A s \in Services : billed'[s] <= MaxCalls + 2
  /\ UNCHANGED <<row, busVars, nodeVars, timerVars, served>>

\* Mutant: a failed publish is not put back.
ReportForgets(sent) ==
  LET reg == {s \in Services : registry[s] # NoPort} IN
  /\ sent \subseteq reg
  /\ billed' = [s \in Services |-> IF s \in sent THEN billed[s] + Total(s) ELSE billed[s]]
  /\ calls' = [p \in Ports |-> IF \E s \in reg : registry[s] = p THEN 0 ELSE calls[p]]
  /\ UNCHANGED <<row, busVars, nodeVars, timerVars, backlog, served>>

\* A tick of the usage reporter, under the registry lock: each handle's counter is
\* swapped for 0 and published with what was left over; sent is the set of
\* services whose publish succeeds.  Leftovers of services that are gone are
\* pruned, and all of them when there are too many.
ReportUsage(sent) ==
  LET reg == {s \in Services : registry[s] # NoPort}
      kept == [s \in Services |-> IF s \in reg \ sent THEN Total(s) ELSE 0]
  IN
  /\ sent \subseteq reg
  /\ billed' = [s \in Services |-> IF s \in sent THEN billed[s] + Total(s) ELSE billed[s]]
  /\ calls' = [p \in Ports |-> IF \E s \in reg : registry[s] = p THEN 0 ELSE calls[p]]
  /\ backlog' = IF Cardinality({s \in Services : kept[s] > 0}) > BacklogMax
                THEN [s \in Services |-> 0] ELSE kept
  /\ UNCHANGED <<row, busVars, nodeVars, timerVars, served>>

\* The daemon dies and starts again: every accept loop and task is gone, running
\* rows become stopped, and then every artifact directory that belongs to no
\* running or provisioning row is deleted.
Restart ==
  LET stopped == [s \in Services |-> IF Running(s)
                                     THEN [row[s] EXCEPT !.status = "stopped", !.addr = NoPort]
                                     ELSE row[s]]
  IN
  /\ "restart" \in Faults
  /\ row' = stopped
  /\ disk' = {s \in disk : stopped[s].status \in {"running", "provisioning"}
                           /\ ~stopped[s].deleted}
  /\ registry' = [s \in Services |-> NoPort]
  /\ owner' = [p \in Ports |-> NoSvc]
  /\ calls' = [p \in Ports |-> 0]
  /\ backlog' = [s \in Services |-> 0]
  /\ task' = [t \in Tasks |-> NoTask]
  /\ idling' = {} /\ sweep' = NoSweep
  /\ UNCHANGED <<ev, billed, served>>

-----------------------------------------------------------------------------

Outside ==
  \E s \in Services : \/ start_service(s) \/ publish_wake(s) \/ dispatch(s)
                      \/ \E delete \in BOOLEAN : stop_service(s, delete)

Deliver(e) ==
  \/ ReceiveProvision(e) \/ WakeSkipped(e) \/ ReceiveWake(e) \/ ReceiveDeprovision(e)
  \/ AckWaitExpires(e)

TaskStep(t) ==
  \/ AcquirePermit(t) \/ Fetch(t) \/ Serve(t) \/ Probe(t) \/ Insert(t) \/ WriteRunning(t)
  \/ ProvisionFails(t) \/ Rollback(t) \/ Answer(t) \/ WakeFails(t)
  \/ DeprovisionRemove(t) \/ DeprovisionRmdir(t)

Sweep == SweepKeys \/ SweepRows \/ SweepRetain

Timer ==
  \/ \E idle \in SUBSET Services : IdleMark(idle)
  \/ \E s \in Services : IdleDrop(s)
  \/ Sweep
  \/ \E sent \in SUBSET Services : ReportUsage(sent)

Next ==
  \/ Outside \/ Timer \/ Restart
  \/ \E e \in Events : Deliver(e)
  \/ \E t \in Tasks : TaskStep(t)

\* The runtime polls every task, JetStream delivers what it holds, and the sweep
\* runs on its interval.
Spec ==
  /\ Init /\ [][Next]_vars
  /\ WF_vars(Sweep)
  /\ WF_vars(\E s \in Services : IdleDrop(s))
  /\ \A e \in Events : WF_vars(Deliver(e))
  /\ \A t \in Tasks : WF_vars(TaskStep(t))

-----------------------------------------------------------------------------
(* Properties *)

Statuses == {"absent", "provisioning", "running", "stopped", "failed"}

Kinds == {"none", "provision", "wake", "deprovision"}
RowRecords == [status : Statuses, addr : Ports \cup {NoPort}, deleted : BOOLEAN]
TaskRecords == [kind : Kinds, svc : Services \cup {NoSvc}, ev : Events \cup {0},
                step : {"none", "permit", "fetch", "serve", "probe", "insert", "write",
                        "rollback2", "rollback", "answer", "remove", "rmdir"},
                port : Ports \cup {NoPort}, perm : BOOLEAN]
EventRecords == [kind : Kinds, svc : Services \cup {NoSvc},
                 st : {"free", "queued", "inflight", "done", "dead"}, n : Nat]

TypeOK ==
  /\ row \in [Services -> RowRecords]
  /\ disk \subseteq Services /\ idling \subseteq Services
  /\ registry \in [Services -> Ports \cup {NoPort}]
  /\ owner \in [Ports -> Services \cup {NoSvc}]
  /\ calls \in [Ports -> Nat]
  /\ task \in [Tasks -> TaskRecords]
  /\ ev \in [Events -> EventRecords]
  /\ sweep \in [at : {"idle", "keys", "rows"}, ids : SUBSET Services]
  /\ backlog \in [Services -> Nat] /\ billed \in [Services -> Nat] /\ served \in [Services -> Nat]

\* A handle in the registry always stands for a running accept loop of its own
\* service, so the counter the usage reporter swaps is that service's; and a port
\* between serve() and registry.insert belongs to one task and to no handle.
PortInv ==
  /\ \A s \in Services : registry[s] # NoPort => owner[registry[s]] = s
  /\ \A t \in Tasks : Holds(t) =>
       /\ task[t].port # NoPort /\ owner[task[t].port] = task[t].svc
       /\ registry[task[t].svc] # task[t].port
       /\ \A u \in Tasks : Holds(u) /\ task[u].port = task[t].port => u = t

\* Invocations a running shim has counted and nobody has reported.
Counted(s) == IF registry[s] = NoPort THEN 0 ELSE calls[registry[s]]

\* No invocation is billed twice: what was published for a service, what waits
\* in the backlog and what its handle has counted never exceed what its shims
\* dispatched, however publishes fail and handles are replaced.
BilledOnce == \A s \in Services : billed[s] + backlog[s] + Counted(s) <= served[s]

\* Nothing counted is forgotten while a service keeps its handle: only dropping
\* the handle, or a backlog over LIQUID_BACKLOG_MAX, loses invocations ("Uses a
\* per-service backlog to prevent invocation loss on NATS publish failures").
UsageKept ==
  [][\A s \in Services :
       registry[s] # NoPort /\ registry'[s] = registry[s] =>
         \/ billed'[s] + backlog'[s] + Counted(s)' >= billed[s] + backlog[s] + Counted(s)
         \/ Cardinality({r \in Services : registry[r] # NoPort /\ Total(r) > 0}) > BacklogMax]_vars

\* An accept loop loses its last owner, and listens until the daemon restarts,
\* only when a provision fails between serve() and registry.insert.
LeaksByProvision(p) ==
  owner'[p] # NoSvc /\ owner'[p] = owner[p] =>
    \/ \E s \in Services : registry'[s] = p
    \/ \E t \in Tasks : Holds(t)' /\ task'[t].port = p
    \/ \E t \in Tasks : task[t].port = p /\ task'[t].step = "rollback"
    \/ /\ \A s \in Services : registry[s] # p
       /\ \A t \in Tasks : ~(Holds(t) /\ task[t].port = p)
LeakOnlyByProvision == [][\A p \in Ports : LeaksByProvision(p)]_vars

\* The sweep's promise: a handle whose service is no longer running does not stay.
StaleSwept ==
  \A s \in Services : registry[s] # NoPort /\ ~Running(s) ~> registry[s] = NoPort \/ Running(s)

\* A service that is scaled to zero can be woken: "The Wasm module and compiled
\* cache are still on disk from the original provision."
StoppedWakeable ==
  \A s \in Services : row[s].status = "stopped" /\ ~row[s].deleted => s \in disk
=============================================================================
