---------------------------- MODULE MetalPlatform ----------------------------
(***************************************************************************)
(* A Metal node composed with the API handlers that drive it               *)
(* (crates/api/src/routes), the outbox poller and the JetStream work queue *)
(* between them.  Every API transaction changes the services row and       *)
(* inserts its event in the outbox atomically; what a handler read before  *)
(* its transaction may be stale when it commits.                           *)
(***************************************************************************)
EXTENDS MetalNode

-----------------------------------------------------------------------------
(* API handlers *)

\* DELETE FROM outbox WHERE service_id: every row of the service, whatever its
\* subject, that the poller has not published yet.
Purged(s) == [e \in Events |-> IF ev[e].svc = s /\ ev[e].st = "outbox"
                               THEN [ev[e] EXCEPT !.st = "free"]
                               ELSE ev[e]]

\* INSERT INTO outbox: the new row is the youngest.
Enqueue(box, kind, s) ==
  \E e \in Events :
    /\ \A f \in Events : f >= e => box[f].st = "free"
    /\ e > 1 => box[e - 1].st # "free"
    /\ ev' = [box EXCEPT ![e] = [kind |-> kind, svc |-> s, st |-> "outbox", n |-> 0]]

\* deploy_service inserts the services row and its provision event.  slug is
\* UNIQUE over all rows, deleted ones too, so a commit that would replace an old
\* service of the same slug fails as a whole: every service has its own slug.
deploy_service(s) ==
  /\ "deploy" \in Ops
  /\ row[s].status = "absent"
  /\ row' = [row EXCEPT ![s] = [@ EXCEPT !.status = "provisioning"]]
  /\ Enqueue(ev, "provision", s)
  /\ UNCHANGED <<taskVars, hostVars, job, waiting, ctlVars, auxVars>>

\* Mutant: the outbox is purged after the deprovision event was inserted.
StopPurgesLast(s) ==
  /\ "stop" \in Ops
  /\ row[s].status \notin {"absent", "stopped"} /\ ~row[s].deleted
  /\ row' = [row EXCEPT ![s] = [@ EXCEPT !.status = "stopped", !.upstream = NoPid]]
  /\ ev' = Purged(s)
  /\ UNCHANGED <<taskVars, hostVars, job, waiting, ctlVars, auxVars>>

stop_service(s) ==
  /\ "stop" \in Ops
  /\ row[s].status \notin {"absent", "stopped"} /\ ~row[s].deleted
  /\ row' = [row EXCEPT ![s] = [@ EXCEPT !.status = "stopped", !.upstream = NoPid]]
  /\ Enqueue(Purged(s), "deprovision", s)
  /\ UNCHANGED <<taskVars, hostVars, job, waiting, ctlVars, auxVars>>

\* delete_service reads the status and decides whether a deprovision is needed ...
DeleteRead(s) ==
  /\ "delete" \in Ops
  /\ req[s] = "none"
  /\ row[s].status # "absent" /\ ~row[s].deleted
  /\ req' = [req EXCEPT ![s] = IF row[s].status \notin {"stopped", "failed"}
                               THEN "del_yes" ELSE "del_no"]
  /\ UNCHANGED <<row, taskVars, hostVars, busVars, susp, up, maint, auxVars>>

\* ... and its transaction acts on what was read.
DeleteCommit(s) ==
  /\ req[s] \in {"del_yes", "del_no"}
  /\ row' = IF row[s].deleted THEN row
            ELSE [row EXCEPT ![s] = [@ EXCEPT !.status = "stopped", !.upstream = NoPid,
                                                   !.deleted = TRUE]]
  /\ IF req[s] = "del_yes" THEN Enqueue(Purged(s), "deprovision", s) ELSE ev' = Purged(s)
  /\ req' = [req EXCEPT ![s] = "none"]
  /\ UNCHANGED <<taskVars, hostVars, job, waiting, susp, up, maint, auxVars>>

\* restart_service accepts a stopped or failed service; rollback_service does
\* not look at the status.
RestartRead(s) ==
  /\ req[s] = "none"
  /\ row[s].status # "absent" /\ ~row[s].deleted
  /\ \/ "restart" \in Ops /\ row[s].status \in {"stopped", "failed"}
     \/ "rollback" \in Ops
  /\ req' = [req EXCEPT ![s] = "restart"]
  /\ UNCHANGED <<row, taskVars, hostVars, busVars, susp, up, maint, auxVars>>

\* UPDATE services SET status = 'provisioning', upstream_addr = NULL WHERE id,
\* and the provision event.
RestartCommit(s) ==
  /\ req[s] = "restart"
  /\ row' = [row EXCEPT ![s] = [@ EXCEPT !.status = "provisioning", !.upstream = NoPid]]
  /\ Enqueue(ev, "provision", s)
  /\ req' = [req EXCEPT ![s] = "none"]
  /\ UNCHANGED <<taskVars, hostVars, job, waiting, susp, up, maint, auxVars>>

-----------------------------------------------------------------------------
(* The bus *)

\* poll_once publishes the oldest row and deletes it.
OutboxPublish(e) ==
  /\ ev[e].st = "outbox"
  /\ \A f \in Events : f < e => ev[f].st # "outbox"
  /\ ev' = [ev EXCEPT ![e] = [@ EXCEPT !.st = "queued"]]
  /\ UNCHANGED <<row, taskVars, hostVars, job, waiting, ctlVars, auxVars>>

\* A task of this daemon will still answer the delivery.
Held(e) == waiting = e \/ job[e] # NoJob \/ \E a \in Pids : Active(a) /\ msg[a] = e

\* ack_wait passes without an answer: JetStream delivers again, a provision at
\* most max_deliver times.  A provision may take longer than its ack_wait
\* (600 s against 300 s); a deprovision takes about a second and has 30 s.
AckWaitExpires(e) ==
  /\ ev[e].st = "inflight"
  /\ Held(e) => "redeliver" \in Faults /\ ev[e].kind = "provision" /\ waiting # e
  /\ ev' = [ev EXCEPT ![e] =
              [@ EXCEPT !.st = IF ev[e].kind = "deprovision" \/ ev[e].n < MaxDeliver
                               THEN "queued" ELSE "dead"]]
  /\ UNCHANGED <<row, taskVars, hostVars, job, waiting, ctlVars, auxVars>>

-----------------------------------------------------------------------------

Api ==
  \E s \in Services : \/ deploy_service(s) \/ stop_service(s)
                      \/ DeleteRead(s) \/ DeleteCommit(s)
                      \/ RestartRead(s) \/ RestartCommit(s)

Bus == \E e \in Events : OutboxPublish(e) \/ AckWaitExpires(e)

Next == NodeNext \/ Api \/ Bus

\* Every task the runtime polls runs on; the poller and the ack timers do too.
\* Nothing is assumed of users or of faults.
Fairness ==
  /\ \A a \in Pids : /\ WF_vars(Attempt(a))
                     /\ WF_vars(ReleaseDropped(a))
                     /\ WF_vars(Teardown(a))
  /\ WF_vars(MainLoop)
  /\ WF_vars(CrashWatch)
  /\ WF_vars(SuspendFinalize)
  /\ \A s \in Services : WF_vars(SuspendKill(s))
  /\ \A e \in Events : /\ WF_vars(OutboxPublish(e))
                       /\ WF_vars(AckWaitExpires(e) /\ ~Held(e))
  /\ WF_vars(Startup)

Spec == Init /\ [][Next]_vars /\ Fairness

-----------------------------------------------------------------------------
(* Properties *)

Owns(a) == Guarded(a) \/ a \in dropping \/ Registered(a) \/ down[a] = "release"

Handles == Pids \cup {NoPid}

ServiceRows == [status : StatusCheck \cup {"absent"}, deleted : BOOLEAN,
                vm : Handles, upstream : Handles]
EventStates == {"free", "outbox", "queued", "inflight", "acked", "dead"}
EventRecords == [kind : {"none", "provision", "deprovision"}, svc : Services,
                 st : EventStates, n : Nat]

RowType == row \in [Services -> ServiceRows]

TaskType ==
  /\ step \in [Pids -> Steps]
  /\ svc \in [Pids -> Services]
  /\ msg \in [Pids -> Events \cup {0}]
  /\ tap \in [Pids -> Indices \cup {NoTap}]
  /\ undo \in [Pids -> Handles]
  /\ dropping \in SUBSET Pids

HostType ==
  /\ registry \in [Services -> Handles]
  /\ inUse \in SUBSET Indices
  /\ dev \in [Indices -> Pids \cup {NoDev, Idle}]
  /\ live \in SUBSET Pids
  /\ down \in [Pids -> {"none", "release", "kill", "delete"}]

BusType ==
  /\ ev \in [Events -> EventRecords]
  /\ job \in [Events -> [stage : {"none", "start", "teardown"}, h : Handles]]
  /\ waiting \in Events \cup {0}

CtlType ==
  /\ susp \in [phase : {"idle", "drain", "kill"}, rows : SUBSET Services]
  /\ up \in BOOLEAN /\ maint \in BOOLEAN
  /\ req \in [Services -> {"none", "del_yes", "del_no", "restart"}]

AuxType == leaked \in SUBSET Indices /\ orphans \in SUBSET Pids

TypeOK == RowType /\ TaskType /\ HostType /\ BusType /\ CtlType /\ AuxType

\* A TAP index, and with it a device name and a guest address, never has two
\* owners: whichever of the provision tasks, the rollbacks, the deprovision
\* tasks, the crash watcher and the guards holds one, the index is marked in use
\* and no other of them holds it.
TapExclusive ==
  \A a \in Pids : Owns(a) =>
    /\ tap[a] \in inUse
    /\ \A b \in Pids : Owns(b) /\ tap[b] = tap[a] => a = b

\* Who owns an index is never ambiguous: an attempt still booting is not yet
\* dropped, registered or torn down, a dropped guard was never defused, and a
\* registered handle belongs to the service it is filed under and to no teardown.
OwnershipInv ==
  /\ \A s \in Services : registry[s] # NoPid => svc[registry[s]] = s
  /\ \A a \in Pids :
       /\ step[a] \in {"idle", "new", "alloc", "tap", "booted"}
            => a \notin dropping /\ ~Registered(a) /\ down[a] = "none"
       /\ a \in dropping => ~Registered(a) /\ down[a] = "none"
       /\ Registered(a) => down[a] = "none"

\* Every index marked in use has an owner who will release it, unless it is one
\* of those the daemon has forgotten.
IndexAccounted == \A i \in inUse : i \in leaked \/ \E a \in Pids : Owns(a) /\ tap[a] = i

\* Every Firecracker process is held by a boot, the registry or a teardown,
\* unless it is one of those the daemon has forgotten.
LiveAccounted ==
  up => \A a \in live : \/ step[a] = "booted" \/ Registered(a)
                        \/ down[a] \in {"release", "kill"} \/ a \in orphans

\* What a teardown or a rollback has killed stays dead: its process is not one
\* a boot can still start.
KilledInv ==
  \A a \in Pids :
    /\ down[a] = "delete" => a \notin live
    /\ undo[a] # NoPid => /\ undo[a] \notin live
                         /\ step[undo[a]] \notin {"idle", "new", "alloc", "tap", "booted"}

\* Every index marked in use has an owner who will release it: none is lost to
\* the pool while the daemon runs ("the caller must call release_tap_index").
EveryIndexOwned == \A i \in inUse : \E a \in Pids : Owns(a) /\ tap[a] = i

\* No kernel TAP device outlives the boot, the VM or the teardown it belongs to:
\* every failure after create_tap deletes the device.
DeviceAccounted ==
  \A i \in Indices : dev[i] # NoDev =>
    \E a \in Pids : /\ tap[a] = i
                    /\ Guarded(a) \/ Registered(a) \/ down[a] # "none"

\* The device a registered, living VM booted on stays its own: no teardown of
\* another handle deletes it by name.
VmKeepsDevice == \A s \in Services : registry[s] \in live => dev[tap[registry[s]]] = registry[s]

\* A handle leaves the registry only into a teardown: it is consumed by
\* deprovision, by rollback or by the crash watcher, never overwritten.
HandleConsumed ==
  [][\A s \in Services : registry[s] # NoPid /\ registry'[s] # registry[s]
                            => down'[registry[s]] # "none"]_vars

\* No request is routed to another tenant's VM: the address in a service's
\* upstream_addr is not the address of an index a VM of another service holds.
NoForeignRoute ==
  \A s \in Services : row[s].upstream # NoPid =>
    \A b \in Pids : Owns(b) /\ tap[b] = tap[row[s].upstream] => svc[b] = s

\* Provision work for a service that is still under way somewhere: an API
\* request, an event not answered for good, or a task.
ProvisionWork(s) ==
  \/ req[s] = "restart"
  \/ \E e \in Events : /\ ev[e].kind = "provision" /\ ev[e].svc = s
                       /\ ev[e].st \in {"outbox", "queued", "inflight"}
  \/ \E a \in Pids : Active(a) /\ svc[a] = s

\* A service never stays 'provisioning' with nobody working on it: the outbox
\* and the retries always leave an event that will settle it.
ProvisioningHasWork ==
  \A s \in Services : row[s].status = "provisioning" /\ ~row[s].deleted => ProvisionWork(s)

\* The VM of a stopped service has a teardown on its way: its deprovision event
\* is in the outbox, on the stream or being handled.
StoppedHasTeardown ==
  \A s \in Services :
    row[s].status = "stopped" /\ registry[s] # NoPid /\ ~ProvisionWork(s) =>
      \E e \in Events : /\ ev[e].kind = "deprovision" /\ ev[e].svc = s
                       /\ ev[e].st \in {"outbox", "queued", "inflight"}

\* A stopped service comes back only through restart_service or
\* rollback_service, never through a provision that was pending at the stop.
StopIsFinal ==
  [][\A s \in Services : row[s].status = "stopped" /\ row'[s].status # "stopped"
                            => req[s] = "restart"]_vars

\* Startup recovery spares a healthy VM: its process, its device and its index
\* survive, and the registry finds it again.
StartupSparesRunning ==
  [][~up /\ up' => \A s \in Recovered :
       row[s].vm \in live /\ dev[tap[row[s].vm]] = row[s].vm
         => /\ row[s].vm \in live' /\ dev'[tap[row[s].vm]] = row[s].vm
            /\ tap[row[s].vm] \in inUse' /\ registry'[s] = row[s].vm]_vars

\* Startup recovery loses a healthy VM only when the tap_name left in another
\* row, one it takes for the remains of a crash, is the name of the VM's TAP.
StartupSparesUnnamed ==
  [][~up /\ up' => \A s \in Recovered :
       /\ row[s].vm \in live /\ dev[tap[row[s].vm]] = row[s].vm
       /\ tap[row[s].vm] \notin TapOf(Stale)
       => /\ row[s].vm \in live' /\ dev'[tap[row[s].vm]] = row[s].vm
          /\ tap[row[s].vm] \in inUse' /\ registry'[s] = row[s].vm]_vars

\* Startup recovery kills the Firecracker processes no service accounts for.
StartupKillsOrphans == [][~up /\ up' => live' \subseteq {registry'[s] : s \in Services}]_vars

\* Every provision event that reached the stream is answered for good: acked, or
\* given up after max_deliver deliveries; no delivery is held for ever.
Settled ==
  \A e \in Events : ev[e].st \in {"queued", "inflight"} ~> ev[e].st \in {"acked", "dead"}

\* A teardown that began ends with the process dead and the handle gone.
TeardownCompletes ==
  \A a \in Pids : down[a] # "none" ~> down[a] = "none" /\ a \notin live

\* Stopping a service whose provision is over takes effect: its VM leaves the
\* registry unless the user starts the service again.
StopReaches ==
  \A s \in Services :
    row[s].status = "stopped" /\ registry[s] # NoPid /\ ~ProvisionWork(s)
      ~> registry[s] = NoPid \/ row[s].status # "stopped"
=============================================================================
