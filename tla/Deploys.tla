------------------------------- MODULE Deploys -------------------------------
(***************************************************************************)
(* One workspace as the API sees it: projects, the rows of services, the   *)
(* handlers that deploy, roll back and stop them and that delete the       *)
(* workspace (api/src/routes), the stuck-provisioning watchdog, the event  *)
(* stream of a deploy, and the daemon's orphan sweep.                      *)
(*                                                                         *)
(* A handler is one step per transaction: what it read in an earlier one   *)
(* may be stale.  The node is reduced to what these handlers observe of    *)
(* it: it consumes provision and deprovision events and writes the row.    *)
(***************************************************************************)
EXTENDS Naturals, FiniteSets

CONSTANTS
  Projects,     \* projects of the workspace
  Slugs,        \* slugs users choose
  Requests,     \* bound: deploy and rollback requests, each made once
  MaxRows,      \* bound: rows ever inserted into services
  MaxServices,  \* MAX_SERVICES_PER_WORKSPACE (50)
  NoSlug        \* sentinel

ASSUME DeploysAssumption ==
  /\ NoSlug \notin Slugs
  /\ MaxRows \in Nat /\ MaxServices \in Nat \ {0}
  /\ IsFiniteSet(Requests)

VARIABLES
  project,   \* the projects that are created and not deleted
  created,   \* the projects ever created: (workspace_id, slug) is UNIQUE
  gone,      \* workspaces.deleted_at is set
  rows,      \* services by id: slug, status, deleted, placed (node_id is set)
  next,      \* the next id
  pending,   \* provision and deprovision events in the outbox or the stream
  request,   \* deploy_service and rollback_service in progress
  peak,      \* history: the most deploys that were past their check at once
  deleter,   \* delete_workspace in progress: the services it read
  sweep,     \* the orphan sweep: stopped rows it has still to publish
  stream     \* one client of stream_deploy

apiVars  == <<project, created, gone, next>>
vars == <<apiVars, rows, pending, request, peak, deleter, sweep, stream>>

Ids == 1 .. MaxRows
NoRow == [slug |-> NoSlug, status |-> "absent", deleted |-> FALSE, placed |-> FALSE]
NoRequest == [at |-> "idle", slug |-> NoSlug, id |-> 0]
Served == [NoRequest EXCEPT !.at = "served"]
NoDelete == [at |-> "idle", ids |-> {}]

Init ==
  /\ project = {} /\ created = {} /\ gone = FALSE
  /\ rows = [i \in Ids |-> NoRow] /\ next = 1
  /\ pending = {}
  /\ request = [r \in Requests |-> NoRequest] /\ peak = 0
  /\ deleter = NoDelete /\ sweep = {}
  /\ stream = [at |-> "idle", id |-> 0]

Live == {i \in Ids : rows[i].status # "absent" /\ ~rows[i].deleted}
Active(i) == i \in Live /\ rows[i].status \in {"running", "provisioning"}

-----------------------------------------------------------------------------
(* Projects and deploys *)

\* create_project asks for membership, not for a workspace that still exists.
create_project(p) ==
  /\ p \notin created
  /\ project' = project \cup {p} /\ created' = created \cup {p}
  /\ UNCHANGED <<peak, gone, next, rows, pending, request, deleter, sweep, stream>>

\* deploy_service finds its project, ...
DeployRead(r, s) ==
  /\ request[r].at = "idle"
  /\ project # {}
  /\ request' = [request EXCEPT ![r] = [at |-> "check", slug |-> s, id |-> 0]]
  /\ UNCHANGED <<peak, apiVars, rows, pending, deleter, sweep, stream>>

Checked == {r \in Requests : request[r].at = "insert"}
CountChecked ==
  LET n == Cardinality(Checked') IN peak' = IF n > peak THEN n ELSE peak

\* Mutant: the service limit is not compared.
DeployUnlimited(r) ==
  /\ request[r].at = "check"
  /\ request' = [request EXCEPT ![r] =
       IF ~\E i \in Ids : Active(i) /\ rows[i].slug = request[r].slug
       THEN [@ EXCEPT !.at = "insert"] ELSE Served]
  /\ CountChecked
  /\ UNCHANGED <<apiVars, rows, pending, deleter, sweep, stream>>

\* ... compares the number of services with the limit and looks for an active
\* service of the slug, in a transaction whose advisory lock ends with it, ...
DeployCheck(r) ==
  /\ request[r].at = "check"
  /\ request' = [request EXCEPT ![r] =
       IF /\ Cardinality(Live) < MaxServices
          /\ ~\E i \in Ids : Active(i) /\ rows[i].slug = request[r].slug
       THEN [@ EXCEPT !.at = "insert"] ELSE Served]
  /\ CountChecked
  /\ UNCHANGED <<apiVars, rows, pending, deleter, sweep, stream>>

\* Mutant: slugs lose their constraint, as those of projects did.
SlugUnclaimed(s) == TRUE

\* services.slug is UNIQUE over all rows, the deleted ones included.
SlugFree(s) == \A i \in Ids : rows[i].slug # s

\* ... and then, in another transaction, retires the stopped and failed rows of
\* the slug and inserts its own with a provision event: all or nothing.
DeployCommit(r) ==
  LET s == request[r].slug
      retired == [i \in Ids |-> IF i \in Live /\ rows[i].slug = s
                                   /\ rows[i].status \in {"stopped", "failed"}
                                THEN [rows[i] EXCEPT !.deleted = TRUE] ELSE rows[i]]
  IN
  /\ request[r].at = "insert"
  /\ IF SlugFree(s)
     THEN /\ next \in Ids
          /\ rows' = [retired EXCEPT ![next] = [slug |-> s, status |-> "provisioning",
                                                deleted |-> FALSE, placed |-> FALSE]]
          /\ pending' = pending \cup {<<"provision", next>>}
          /\ next' = next + 1
     ELSE UNCHANGED <<rows, pending, next>>
  /\ request' = [request EXCEPT ![r] = Served]
  /\ UNCHANGED <<peak, project, created, gone, deleter, sweep, stream>>

\* rollback_service reads the row, a deployment of it and its variables ...
RollbackRead(r, i) ==
  /\ request[r].at = "idle"
  /\ i \in Live
  /\ request' = [request EXCEPT ![r] = [at |-> "rollback", slug |-> rows[i].slug, id |-> i]]
  /\ UNCHANGED <<peak, apiVars, rows, pending, deleter, sweep, stream>>

\* ... and updates it by id, whatever became of it.
RollbackCommit(r) ==
  LET i == request[r].id IN
  /\ request[r].at = "rollback"
  /\ rows' = [rows EXCEPT ![i].status = "provisioning"]
  /\ pending' = pending \cup {<<"provision", i>>}
  /\ request' = [request EXCEPT ![r] = Served]
  /\ UNCHANGED <<peak, apiVars, deleter, sweep, stream>>

\* The provision events that have not left the outbox are purged.
stop_service(i) ==
  /\ i \in Live /\ rows[i].status # "stopped"
  /\ rows' = [rows EXCEPT ![i].status = "stopped"]
  /\ \E purged \in SUBSET {<<"provision", i>>} :
       pending' = (pending \ purged) \cup {<<"deprovision", i>>}
  /\ UNCHANGED <<peak, apiVars, request, deleter, sweep, stream>>

\* The watchdog goes by created_at, so a row that is old and provisioning again
\* is no different from one that is stuck.
Watchdog(i) ==
  /\ i \in Live /\ rows[i].status = "provisioning"
  /\ rows' = [rows EXCEPT ![i].status = "failed"]
  /\ UNCHANGED <<peak, apiVars, pending, request, deleter, sweep, stream>>

-----------------------------------------------------------------------------
(* delete_workspace and the orphan sweep *)

\* It reads the active services, ...
DeleteRead ==
  /\ deleter.at = "idle"
  /\ deleter' = [at |-> "publish", ids |-> {i \in Ids : Active(i)}]
  /\ UNCHANGED <<peak, apiVars, rows, pending, request, sweep, stream>>

\* ... publishes a deprovision for each, a failure being only logged, ...
DeletePublish(i, ok) ==
  /\ deleter.at = "publish" /\ i \in deleter.ids
  /\ pending' = IF ok THEN pending \cup {<<"deprovision", i>>} ELSE pending
  /\ deleter' = [deleter EXCEPT !.ids = @ \ {i}]
  /\ UNCHANGED <<peak, apiVars, rows, request, sweep, stream>>

\* ... and soft-deletes services, projects and workspace.  The outbox keeps what
\* it holds for them.
DeleteCommit ==
  /\ deleter.at = "publish" /\ deleter.ids = {}
  /\ rows' = [i \in Ids |-> IF i \in Live
                            THEN [rows[i] EXCEPT !.status = "stopped", !.deleted = TRUE]
                            ELSE rows[i]]
  /\ project' = {} /\ gone' = TRUE
  /\ deleter' = NoDelete
  /\ UNCHANGED <<peak, created, next, pending, request, sweep, stream>>

Orphan(i) == gone /\ Active(i) /\ rows[i].placed

\* Mutant: the sweep stops only the rows it calls running.
SweepRunning ==
  LET found == {i \in Ids : Orphan(i) /\ rows[i].status = "running"} IN
  /\ sweep = {} /\ found # {}
  /\ rows' = [i \in Ids |-> IF i \in found THEN [rows[i] EXCEPT !.status = "stopped"] ELSE rows[i]]
  /\ sweep' = found
  /\ UNCHANGED <<peak, apiVars, pending, request, deleter, stream>>

\* The sweep stops the active rows of a deleted workspace that this node holds
\* and that are not deleted themselves: the ones a deploy inserted behind
\* delete_workspace.
SweepUpdate ==
  LET found == {i \in Ids : Orphan(i)} IN
  /\ sweep = {} /\ found # {}
  /\ rows' = [i \in Ids |-> IF i \in found THEN [rows[i] EXCEPT !.status = "stopped"] ELSE rows[i]]
  /\ sweep' = found
  /\ UNCHANGED <<peak, apiVars, pending, request, deleter, stream>>

SweepPublish(i, ok) ==
  /\ i \in sweep
  /\ pending' = IF ok THEN pending \cup {<<"deprovision", i>>} ELSE pending
  /\ sweep' = sweep \ {i}
  /\ UNCHANGED <<peak, apiVars, rows, request, deleter, stream>>

-----------------------------------------------------------------------------
(* The node, and the stream of a deploy *)

StreamDone == [at |-> "done", id |-> 0]

\* A terminal step reaches the client only if it is subscribed.
Announce(i) == stream' = IF stream = [at |-> "wait", id |-> i] THEN StreamDone ELSE stream

\* The instance is announced, registered and written to the row, by id.
Provisioned(i) ==
  /\ <<"provision", i>> \in pending
  /\ pending' = pending \ {<<"provision", i>>}
  /\ rows' = [rows EXCEPT ![i].status = "running", ![i].placed = TRUE]
  /\ Announce(i)
  /\ UNCHANGED <<peak, apiVars, request, deleter, sweep>>

\* rollback_provision announces the failure; a transient one is retried and its
\* row put back to 'provisioning', a permanent one is acked.
NotProvisioned(i, retry) ==
  /\ <<"provision", i>> \in pending
  /\ pending' = IF retry THEN pending ELSE pending \ {<<"provision", i>>}
  /\ rows' = [rows EXCEPT ![i].status = IF retry THEN "provisioning"
                                        ELSE IF rows[i].deleted THEN @ ELSE "failed"]
  /\ Announce(i)
  /\ UNCHANGED <<peak, apiVars, request, deleter, sweep>>

Deprovisioned(i) ==
  /\ <<"deprovision", i>> \in pending
  /\ pending' = pending \ {<<"deprovision", i>>}
  /\ UNCHANGED <<peak, apiVars, rows, request, deleter, sweep, stream>>

\* stream_deploy reads the status ...
StreamRead(i) ==
  /\ stream.at = "idle" /\ i \in Live
  /\ stream' = [at |-> IF rows[i].status \in {"running", "failed"} THEN "final" ELSE "open", id |-> i]
  /\ UNCHANGED <<peak, apiVars, rows, pending, request, deleter, sweep>>

\* ... and then subscribes; a status that was final already is all it sends.
StreamSubscribe ==
  /\ stream.at \in {"final", "open"}
  /\ stream' = IF stream.at = "final" THEN StreamDone ELSE [stream EXCEPT !.at = "wait"]
  /\ UNCHANGED <<peak, apiVars, rows, pending, request, deleter, sweep>>

\* Mutant: a stream without a deadline.
StreamWaits == stream.at = "wait" /\ UNCHANGED vars

\* Five minutes without a terminal step.
StreamDeadline ==
  /\ stream.at = "wait"
  /\ stream' = StreamDone
  /\ UNCHANGED <<peak, apiVars, rows, pending, request, deleter, sweep>>

-----------------------------------------------------------------------------

Handlers ==
  \/ \E p \in Projects : create_project(p)
  \/ \E r \in Requests :
       \/ \E s \in Slugs : DeployRead(r, s)
       \/ \E i \in Ids : RollbackRead(r, i)
       \/ DeployCheck(r) \/ DeployCommit(r) \/ RollbackCommit(r)
  \/ \E i \in Ids : stop_service(i) \/ Watchdog(i) \/ StreamRead(i)
  \/ DeleteRead \/ DeleteCommit
  \/ \E i \in Ids, ok \in BOOLEAN : DeletePublish(i, ok)

Sweeper == SweepUpdate \/ \E i \in Ids, ok \in BOOLEAN : SweepPublish(i, ok)

Node ==
  \E i \in Ids : \/ Provisioned(i) \/ Deprovisioned(i)
                 \/ \E retry \in BOOLEAN : NotProvisioned(i, retry)

StreamTask == StreamSubscribe \/ StreamDeadline

Next == Handlers \/ Sweeper \/ Node \/ StreamTask

\* The sweep runs on its interval and a stream's task has a timer; nothing is
\* assumed of the users or of the node.
Spec == Init /\ [][Next]_vars /\ WF_vars(Sweeper) /\ WF_vars(StreamTask)

-----------------------------------------------------------------------------
(* Properties *)

Statuses == {"absent", "provisioning", "running", "stopped", "failed"}

RowRecords == [slug : Slugs \cup {NoSlug}, status : Statuses, deleted : BOOLEAN, placed : BOOLEAN]
RequestRecords == [at : {"idle", "check", "insert", "rollback", "served"},
                   slug : Slugs \cup {NoSlug}, id : Ids \cup {0}]

TypeOK ==
  /\ project \subseteq created /\ created \subseteq Projects /\ gone \in BOOLEAN
  /\ rows \in [Ids -> RowRecords]
  /\ next \in 1 .. (MaxRows + 1)
  /\ pending \subseteq {"provision", "deprovision"} \X Ids
  /\ sweep \subseteq Ids
  /\ request \in [Requests -> RequestRecords]
  /\ peak \in 0 .. Cardinality(Requests)
  /\ deleter \in [at : {"idle", "publish"}, ids : SUBSET Ids]
  /\ stream \in [at : {"idle", "final", "open", "wait", "done"}, id : Ids \cup {0}]

\* A slug leads to one service: no two live rows share one, although two deploys
\* of a slug can both pass the check before either inserts.
SlugUnambiguous ==
  \A i, j \in Live : rows[i].slug = rows[j].slug => i = j

\* The limit is checked in one transaction and used in another, so it can be
\* passed, but only by deploys that overlapped: by one less than were ever between
\* their check and their insert at once.
QuotaBounded == Cardinality(Live) + Cardinality(Checked) <= MaxServices - 1 + peak

\* A service that a deploy placed in a workspace deleted under it does not stay
\* active: "this sweep catches the stragglers".
OrphansStopped == \A i \in Ids : Orphan(i) ~> ~Orphan(i)

\* Every stream ends, also when the terminal step was published between its
\* status query and its subscription.
StreamEnds == stream.at \in {"final", "open", "wait"} ~> stream.at = "done"

\* What the conflict of an active slug advises ("stop it first") does not hold: the
\* row of a stopped service keeps its slug from every later deploy.
StoppedRedeployable ==
  [][\A r \in Requests :
       DeployCommit(r) /\ (\E i \in Live : rows[i].slug = request[r].slug /\ rows[i].status = "stopped")
         => rows' # rows]_vars
=============================================================================
