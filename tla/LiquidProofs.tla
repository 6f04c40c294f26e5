---------------------------- MODULE LiquidProofs ----------------------------
(***************************************************************************)
(* LiquidNode for every number of services, ports, tasks and events: a     *)
(* handle stands for a running accept loop of its own service, and a loop  *)
(* loses its last owner only when a provision fails after serve().  From   *)
(* that, the usage reporter's books: no invocation is published twice, and *)
(* none is forgotten while its service keeps its handle.                   *)
(***************************************************************************)
EXTENDS LiquidNode, FiniteSetTheorems, TLAPS

\* A message, and the task it started, is about a service.
WorkInv ==
  /\ \A e \in Events : ev[e].st # "free" => ev[e].svc \in Services
  /\ \A t \in Tasks : task[t].step # "none" =>
       task[t].svc \in Services /\ task[t].ev \in Events /\ ev[task[t].ev].st # "free"

IInv == TypeOK /\ WorkInv /\ PortInv

-----------------------------------------------------------------------------
(* Types *)

\* A task that moves on keeps the rest of its record.
Steps == {"none", "permit", "fetch", "serve", "probe", "insert", "write",
          "rollback2", "rollback", "answer", "remove", "rmdir"}

LEMMA TaskUpdates ==
  ASSUME NEW r \in TaskRecords, NEW x \in Steps
  PROVE  /\ [r EXCEPT !.step = x] \in TaskRecords
         /\ [r EXCEPT !.step = x].step = x /\ [r EXCEPT !.step = x].svc = r.svc
         /\ [r EXCEPT !.step = x].port = r.port /\ [r EXCEPT !.step = x].ev = r.ev
BY DEF TaskRecords, Steps

-----------------------------------------------------------------------------
(* The bus: messages and tasks *)

BusTypes == /\ task \in [Tasks -> TaskRecords] /\ ev \in [Events -> EventRecords]
            /\ WorkInv

\* A step in which no task binds a port, and in which one lets go of its port only
\* by failing.
Quiet ==
  \A t \in Tasks :
    /\ Holds(t)' => Holds(t) /\ task'[t].port = task[t].port /\ task'[t].svc = task[t].svc
    /\ Holds(t) => \/ Holds(t)' /\ task'[t].port = task[t].port
                   \/ task'[t].step = "rollback"

LEMMA QuietBus ==
  ASSUME TypeOK, WorkInv, UNCHANGED busVars
  PROVE  BusTypes' /\ Quiet
BY DEF busVars, TypeOK, BusTypes, WorkInv, Quiet, Holds

\* Messages keep their service and never become free again.
EventsKept ==
  /\ ev' \in [Events -> EventRecords]
  /\ \A f \in Events :
       /\ ev[f].st # "free" => ev'[f].svc = ev[f].svc /\ ev'[f].st # "free"
       /\ ev'[f].st # "free" => ev'[f].svc \in Services

LEMMA EventMoved ==
  ASSUME TypeOK, WorkInv, NEW e \in Events, ev[e].st # "free", NEW x \in {"queued", "inflight", "done", "dead"},
         NEW n \in Nat, ev' = [ev EXCEPT ![e] = [ev[e] EXCEPT !.st = x, !.n = n]]
  PROVE  EventsKept
<1>1. /\ [ev[e] EXCEPT !.st = x, !.n = n] \in EventRecords
      /\ [ev[e] EXCEPT !.st = x, !.n = n].svc = ev[e].svc
      /\ [ev[e] EXCEPT !.st = x, !.n = n].st = x
  BY DEF TypeOK, EventRecords
<1>2. /\ \A f \in Events : f # e => ev'[f] = ev[f]
      /\ ev'[e] = [ev[e] EXCEPT !.st = x, !.n = n]
  BY DEF TypeOK
<1>3. ev' \in [Events -> EventRecords]
  BY <1>1 DEF TypeOK
<1> QED BY <1>1, <1>2, <1>3 DEF WorkInv, EventsKept

\* What one task becomes is all that has to be looked at.
LEMMA TaskTypes ==
  ASSUME TypeOK, WorkInv, EventsKept, NEW t \in Tasks, NEW new \in TaskRecords,
         task' = [task EXCEPT ![t] = new],
         new.step # "none" => new.svc \in Services /\ new.ev \in Events /\ ev[new.ev].st # "free"
  PROVE  BusTypes' /\ task'[t] = new /\ \A u \in Tasks : u # t => task'[u] = task[u]
<1>1. task' \in [Tasks -> TaskRecords] /\ task'[t] = new /\ \A u \in Tasks : u # t => task'[u] = task[u]
  BY DEF TypeOK
<1>2. WorkInv'
  <2>1. \A f \in Events : ev'[f].st # "free" => ev'[f].svc \in Services
    BY DEF EventsKept
  <2>2. ASSUME NEW u \in Tasks, task'[u].step # "none"
        PROVE  task'[u].svc \in Services /\ task'[u].ev \in Events /\ ev[task'[u].ev].st # "free"
    BY <1>1, <2>2 DEF WorkInv
  <2> QED BY <2>1, <2>2 DEF WorkInv, EventsKept
<1> QED BY <1>1, <1>2 DEF BusTypes, EventsKept

LEMMA TaskBus ==
  ASSUME TypeOK, WorkInv, EventsKept, NEW t \in Tasks, NEW new \in TaskRecords,
         task' = [task EXCEPT ![t] = new],
         new.step # "none" => new.svc \in Services /\ new.ev \in Events /\ ev[new.ev].st # "free",
         new.step \in {"probe", "insert"} => Holds(t) /\ new.port = task[t].port /\ new.svc = task[t].svc,
         Holds(t) => new.step \in {"probe", "insert", "rollback"}
  PROVE  BusTypes' /\ Quiet
<1>1. BusTypes' /\ task'[t] = new /\ \A u \in Tasks : u # t => task'[u] = task[u]
  BY TaskTypes
<1>2. Quiet
  BY <1>1 DEF Quiet, Holds
<1> QED BY <1>1, <1>2

LEMMA PublishBus ==
  ASSUME TypeOK, WorkInv, NEW kind \in Kinds, NEW s \in Services, Publish(kind, s), UNCHANGED task
  PROVE  BusTypes' /\ Quiet
<1>1. PICK e \in Events :
        ev[e].st = "free" /\ ev' = [ev EXCEPT ![e] = [kind |-> kind, svc |-> s, st |-> "queued", n |-> 0]]
  BY DEF Publish
<1>2. [kind |-> kind, svc |-> s, st |-> "queued", n |-> 0] \in EventRecords
  BY DEF EventRecords
<1>3. ev' \in [Events -> EventRecords]
  BY <1>1, <1>2 DEF TypeOK
<1>4. WorkInv'
  BY <1>1 DEF WorkInv, TypeOK
<1> QED BY <1>3, <1>4 DEF TypeOK, BusTypes, Quiet, Holds

LEMMA SpawnBus ==
  ASSUME LiquidAssumption, TypeOK, WorkInv, NEW e \in Events, ev[e].st = "queued", NEW kind \in Kinds,
         NEW step \in {"permit", "fetch", "remove"}, Spawn(e, kind, step)
  PROVE  BusTypes' /\ Quiet
<1>1. PICK t \in Tasks :
        /\ task[t] = NoTask
        /\ task' = [task EXCEPT ![t] = [NoTask EXCEPT !.kind = kind, !.svc = ev[e].svc, !.ev = e, !.step = step]]
  BY DEF Spawn
<1>2. ev[e].svc \in Services /\ step \in Steps
  BY DEF WorkInv, Steps
<1>s. PICK s \in Services : s = ev[e].svc
  BY <1>2
<1>3. PICK new : new = [NoTask EXCEPT !.kind = kind, !.svc = s, !.ev = e, !.step = step]
  OBVIOUS
<1>4. /\ new \in TaskRecords /\ new.step = step /\ new.svc = s /\ new.ev = e
      /\ NoTask.step = "none"
  <2>1. NoTask \in TaskRecords /\ NoTask.step = "none"
    BY DEF TaskRecords, NoTask, Kinds
  <2> QED BY <1>3, <2>1 DEF TaskRecords
<1>5. EventsKept
  <2>1. ev[e] \in EventRecords /\ ev[e].n \in Nat
    BY DEF TypeOK, EventRecords
  <2>2. PICK n \in Nat : n = IF ev[e].n < MaxDeliver THEN ev[e].n + 1 ELSE ev[e].n
    BY <2>1 DEF LiquidAssumption
  <2>3. ev' = [ev EXCEPT ![e].st = "inflight", ![e].n = IF @ < MaxDeliver THEN @ + 1 ELSE @]
    BY DEF Spawn
  <2>4. ev' = [ev EXCEPT ![e] = [ev[e] EXCEPT !.st = "inflight", !.n = n]]
    BY <2>1, <2>2, <2>3 DEF TypeOK, EventRecords
  <2> QED BY <2>4, EventMoved
<1>6. ~Holds(t)
  BY <1>1, <1>4 DEF Holds
<1>7. task' = [task EXCEPT ![t] = new]
  BY <1>1, <1>3, <1>s
<1> QED BY <1>4, <1>5, <1>6, <1>7, TaskBus

LEMMA StateMoved ==
  ASSUME TypeOK, WorkInv, NEW e \in Events, ev[e].st # "free", NEW x \in {"queued", "inflight", "done", "dead"},
         ev' = [ev EXCEPT ![e].st = x]
  PROVE  EventsKept
<1>1. ev[e] \in EventRecords /\ ev[e].n \in Nat
  BY DEF TypeOK, EventRecords
<1>2. PICK n \in Nat : n = ev[e].n
  BY <1>1
<1>3. [ev[e] EXCEPT !.st = x, !.n = n] = [ev[e] EXCEPT !.st = x]
  BY <1>1, <1>2 DEF EventRecords
<1>4. ev' = [ev EXCEPT ![e] = [ev[e] EXCEPT !.st = x, !.n = n]]
  BY <1>3 DEF TypeOK
<1> QED BY ZenonT(40), <1>1, <1>4, EventMoved DEF TypeOK

\* A task that ends answers its message.
LEMMA EndBus ==
  ASSUME TypeOK, WorkInv, NEW t \in Tasks, task[t].step # "none", Ack(t) \/ Nak(t), ~Holds(t)
  PROVE  BusTypes' /\ Quiet
<1> DEFINE e == task[t].ev
<1>1. task' = [task EXCEPT ![t] = NoTask]
  BY DEF Ack, Nak
<1>2. NoTask \in TaskRecords /\ NoTask.step = "none"
  BY DEF NoTask, TaskRecords, Kinds
<1>3. e \in Events /\ ev[e].st # "free" /\ ev[e].st \in {"queued", "inflight", "done", "dead"}
  BY DEF WorkInv, TypeOK, EventRecords
<1>4. EventsKept
  <2>1. CASE UNCHANGED ev
    BY <2>1 DEF EventsKept, TypeOK, WorkInv
  <2>2. CASE ev' = [ev EXCEPT ![e].st = "done"]
    BY <1>3, <2>2, StateMoved
  <2>3. CASE Nak(t)
    <3>1. PICK x \in {"queued", "inflight", "done", "dead"} : ev' = [ev EXCEPT ![e].st = x]
      BY <1>3, <2>3 DEF Nak
    <3> QED BY <1>3, <3>1, StateMoved
  <2> QED BY <2>1, <2>2, <2>3 DEF Ack
<1> QED BY <1>1, <1>2, <1>4, TaskBus

\* A task moves on: a holder of a port only to its insert, and nobody else there.
LEMMA GotoBus ==
  ASSUME TypeOK, WorkInv, NEW t \in Tasks, task[t].step # "none", NEW x \in Steps, Goto(t, x), UNCHANGED ev,
         Holds(t) <=> x = "insert", x # "probe"
  PROVE  BusTypes' /\ Quiet
<1>1. EventsKept
  BY DEF EventsKept, TypeOK, WorkInv
<1>2. PICK new : new = [task[t] EXCEPT !.step = x]
  OBVIOUS
<1>3. new \in TaskRecords /\ new.step = x /\ new.svc = task[t].svc /\ new.port = task[t].port
      /\ new.ev = task[t].ev
  BY <1>2, TaskUpdates DEF TypeOK
<1>4. task' = [task EXCEPT ![t] = new]
  BY <1>2 DEF Goto, TypeOK
<1> QED BY <1>1, <1>3, <1>4, TaskBus DEF WorkInv

LEMMA FailBus ==
  ASSUME TypeOK, WorkInv, NEW t \in Tasks, ProvisionFails(t)
  PROVE  BusTypes' /\ Quiet
<1>1. EventsKept
  BY DEF ProvisionFails, EventsKept, TypeOK, WorkInv
<1>2. task[t].step \in {"fetch", "serve", "probe", "write"}
  BY DEF ProvisionFails
<1>3. PICK b \in BOOLEAN, x \in {"rollback2", "rollback"} :
        /\ task' = [task EXCEPT ![t].port = NoPort, ![t].perm = b, ![t].step = x]
        /\ x = "rollback2" => task[t].step = "write"
  <2>1. CASE task[t].step = "write"
    BY <2>1 DEF ProvisionFails, TypeOK
  <2>2. CASE task[t].step # "write"
    BY <2>2 DEF ProvisionFails, TypeOK
  <2> QED BY <2>1, <2>2
<1>4. PICK new : new = [task[t] EXCEPT !.port = NoPort, !.perm = b, !.step = x]
  OBVIOUS
<1>5. new \in TaskRecords /\ new.step = x /\ new.svc = task[t].svc /\ new.ev = task[t].ev
  <2>1. task[t] \in TaskRecords
    BY DEF TypeOK
  <2> QED BY <1>4, <2>1 DEF TaskRecords
<1>6. task' = [task EXCEPT ![t] = new]
  BY <1>3, <1>4 DEF TypeOK, TaskRecords
<1> QED BY ZenonT(40), <1>1, <1>2, <1>3, <1>5, <1>6, TaskBus DEF WorkInv, Holds

-----------------------------------------------------------------------------
(* The ports *)

Leaks == \A p \in Ports : LeaksByProvision(p)

\* Nobody binds, registers or drops a port.
LEMMA PortsKept ==
  ASSUME TypeOK, PortInv, Quiet, UNCHANGED <<registry, owner>>
  PROVE  PortInv' /\ Leaks
<1>1. PortInv'
  <2>1. \A s \in Services : registry'[s] # NoPort => owner'[registry'[s]] = s
    BY DEF PortInv
  <2>2. ASSUME NEW t \in Tasks, Holds(t)'
        PROVE  /\ task'[t].port # NoPort /\ owner'[task'[t].port] = task'[t].svc
               /\ registry'[task'[t].svc] # task'[t].port
               /\ \A u \in Tasks : Holds(u)' /\ task'[u].port = task'[t].port => u = t
    BY <2>2 DEF PortInv, Quiet
  <2> QED BY <2>1, <2>2 DEF PortInv
<1>2. Leaks
  BY DEF Leaks, LeaksByProvision, Quiet
<1> QED BY <1>1, <1>2

\* Dropping the handles of a set of services aborts their loops and no others.
LEMMA HandlesDropped ==
  ASSUME LiquidAssumption, TypeOK, WorkInv, PortInv, Quiet, NEW S \in SUBSET Services,
         registry' = [s \in Services |-> IF s \in S THEN NoPort ELSE registry[s]],
         owner' = Aborted({registry[s] : s \in S})
  PROVE  /\ registry' \in [Services -> Ports \cup {NoPort}] /\ owner' \in [Ports -> Services \cup {NoSvc}]
         /\ PortInv' /\ Leaks
<1>1. registry' \in [Services -> Ports \cup {NoPort}] /\ owner' \in [Ports -> Services \cup {NoSvc}]
  BY DEF TypeOK, Aborted
<1>2. \A p \in Ports : owner'[p] = IF \E s \in S : registry[s] = p THEN NoSvc ELSE owner[p]
  BY DEF Aborted
<1>3. \A s \in Services : registry'[s] # NoPort => owner'[registry'[s]] = s
  <2>1. ASSUME NEW s \in Services, registry'[s] # NoPort PROVE owner'[registry'[s]] = s
    <3>1. s \notin S /\ registry'[s] = registry[s] /\ registry[s] \in Ports /\ owner[registry[s]] = s
      BY <2>1 DEF TypeOK, PortInv
    <3>2. \A o \in S : registry[o] # registry[s]
      BY <3>1 DEF PortInv
    <3> QED BY <1>2, <3>1, <3>2
  <2> QED BY <2>1
<1>4. ASSUME NEW t \in Tasks, Holds(t)'
      PROVE  /\ task'[t].port # NoPort /\ owner'[task'[t].port] = task'[t].svc
             /\ registry'[task'[t].svc] # task'[t].port
             /\ \A u \in Tasks : Holds(u)' /\ task'[u].port = task'[t].port => u = t
  <2>1. Holds(t) /\ task'[t].port = task[t].port /\ task'[t].svc = task[t].svc
    BY <1>4 DEF Quiet
  <2>2. task[t].port \in Ports /\ task[t].port # NoPort /\ owner[task[t].port] = task[t].svc
        /\ registry[task[t].svc] # task[t].port
    BY <2>1 DEF PortInv, TypeOK, TaskRecords
  <2>3. \A s \in S : registry[s] # task[t].port
    BY <2>2 DEF PortInv
  <2>4. owner'[task[t].port] = task[t].svc
    BY <1>2, <2>2, <2>3
  <2>5. registry'[task[t].svc] # task[t].port
    <3>1. task[t].svc \in Services
      BY <2>1 DEF WorkInv, Holds
    <3> QED BY <2>2, <3>1
  <2>6. \A u \in Tasks : Holds(u)' /\ task'[u].port = task'[t].port => u = t
    BY <2>1 DEF Quiet, PortInv
  <2> QED BY <2>1, <2>2, <2>4, <2>5, <2>6
<1>5. PortInv'
  BY <1>3, <1>4 DEF PortInv
<1>6. Leaks
  <2>1. SUFFICES ASSUME NEW p \in Ports, owner'[p] # NoSvc,
                        \/ \E s \in Services : registry[s] = p
                        \/ \E t \in Tasks : Holds(t) /\ task[t].port = p
                 PROVE  \/ \E s \in Services : registry'[s] = p
                        \/ \E t \in Tasks : Holds(t)' /\ task'[t].port = p
                        \/ \E t \in Tasks : task[t].port = p /\ task'[t].step = "rollback"
    BY DEF Leaks, LeaksByProvision
  <2>2. CASE \E s \in Services : registry[s] = p
    BY <1>2, <2>1, <2>2
  <2>3. CASE \E t \in Tasks : Holds(t) /\ task[t].port = p
    BY <2>3 DEF Quiet
  <2> QED BY <2>1, <2>2, <2>3
<1> QED BY <1>1, <1>5, <1>6

\* serve() binds a port nobody listens on: it is nobody's yet.
LEMMA ServeStep ==
  ASSUME LiquidAssumption, TypeOK, WorkInv, PortInv, NEW t \in Tasks, Serve(t)
  PROVE  TypeOK' /\ WorkInv' /\ PortInv' /\ Leaks
<1>1. PICK p \in Ports, x \in {"probe", "insert"} :
        /\ owner[p] = NoSvc /\ owner' = [owner EXCEPT ![p] = task[t].svc]
        /\ calls' = [calls EXCEPT ![p] = 0]
        /\ task' = [task EXCEPT ![t].port = p, ![t].step = x]
  <2>1. CASE task[t].kind = "provision"
    BY <2>1 DEF Serve
  <2>2. CASE task[t].kind # "provision"
    BY <2>2 DEF Serve
  <2> QED BY <2>1, <2>2
<1>2. /\ task[t].step = "serve" /\ UNCHANGED <<row, ev, registry, disk, timerVars, backlog, billed, served>>
  BY DEF Serve
<1>3. /\ task[t] \in TaskRecords /\ task[t].svc \in Services /\ task[t].ev \in Events
      /\ ev[task[t].ev].st # "free" /\ ~Holds(t)
  BY <1>2 DEF TypeOK, WorkInv, Holds
<1>4. PICK new : new = [task[t] EXCEPT !.port = p, !.step = x]
  OBVIOUS
<1>5. /\ new \in TaskRecords /\ new.step = x /\ new.svc = task[t].svc /\ new.port = p
      /\ new.ev = task[t].ev
  BY <1>3, <1>4 DEF TaskRecords
<1>6. task' = [task EXCEPT ![t] = new]
  BY <1>1, <1>3, <1>4 DEF TypeOK
<1>7. EventsKept
  BY <1>2 DEF EventsKept, TypeOK, WorkInv
<1>8. BusTypes' /\ task'[t] = new /\ \A u \in Tasks : u # t => task'[u] = task[u]
  BY ZenonT(40), <1>3, <1>5, <1>6, <1>7, TaskTypes
<1>9. /\ owner' \in [Ports -> Services \cup {NoSvc}] /\ owner'[p] = task[t].svc
      /\ \A q \in Ports : q # p => owner'[q] = owner[q]
  BY <1>1, <1>3 DEF TypeOK
<1>10. calls' \in [Ports -> Nat]
  BY <1>1 DEF TypeOK
<1>11. TypeOK' /\ WorkInv'
  BY <1>2, <1>8, <1>9, <1>10 DEF TypeOK, BusTypes, timerVars
<1>12. /\ \A s \in Services : registry[s] # p
       /\ \A u \in Tasks : Holds(u) => task[u].port # p
  <2>1. \A s \in Services : registry[s] # p
    BY <1>1 DEF LiquidAssumption, PortInv
  <2>2. ASSUME NEW u \in Tasks, Holds(u) PROVE task[u].port # p
    <3>1. task[u].svc \in Services
      BY <2>2 DEF WorkInv, Holds
    <3> QED BY <1>1, <2>2, <3>1 DEF LiquidAssumption, PortInv
  <2> QED BY <2>1, <2>2
<1>13. PortInv'
  <2>1. \A s \in Services : registry'[s] # NoPort => owner'[registry'[s]] = s
    BY <1>2, <1>9, <1>12 DEF PortInv, TypeOK
  <2>2. ASSUME NEW u \in Tasks, Holds(u)'
        PROVE  /\ task'[u].port # NoPort /\ owner'[task'[u].port] = task'[u].svc
               /\ registry'[task'[u].svc] # task'[u].port
               /\ \A v \in Tasks : Holds(v)' /\ task'[v].port = task'[u].port => v = u
    <3>1. CASE u = t
      <4>1. task'[u].port = p /\ task'[u].svc = task[t].svc /\ p # NoPort
        BY <1>5, <1>8, <3>1 DEF LiquidAssumption
      <4>2. ASSUME NEW v \in Tasks, Holds(v)', task'[v].port = p PROVE v = t
        BY <1>8, <1>12, <4>2 DEF Holds
      <4> QED BY <1>2, <1>3, <1>9, <1>12, <3>1, <4>1, <4>2
    <3>2. CASE u # t
      <4>1. task'[u] = task[u] /\ Holds(u)
        BY <1>8, <2>2, <3>2 DEF Holds
      <4>2. task[u].port \in Ports /\ task[u].port # p
        BY <1>12, <4>1 DEF PortInv, TypeOK, TaskRecords
      <4>3. ASSUME NEW v \in Tasks, Holds(v)', task'[v].port = task[u].port PROVE v = u
        BY <1>5, <1>8, <4>1, <4>2, <4>3 DEF Holds, PortInv
      <4> QED BY <1>2, <1>9, <4>1, <4>2, <4>3 DEF PortInv
    <3> QED BY <3>1, <3>2
  <2> QED BY <2>1, <2>2 DEF PortInv
<1>14. Leaks
  BY <1>2, <1>3, <1>8 DEF Leaks, LeaksByProvision, Holds
<1> QED BY <1>11, <1>13, <1>14

\* registry.insert makes the bound port the service's and drops the one it replaces.
LEMMA InsertStep ==
  ASSUME LiquidAssumption, TypeOK, WorkInv, PortInv, NEW t \in Tasks, Insert(t)
  PROVE  TypeOK' /\ WorkInv' /\ PortInv' /\ Leaks
<1> DEFINE s == task[t].svc
           p == task[t].port
<1>1. /\ task[t].step = "insert" /\ registry' = [registry EXCEPT ![s] = p]
      /\ owner' = Aborted({registry[s]}) /\ Goto(t, "write")
      /\ UNCHANGED <<row, ev, disk, timerVars, usageVars>>
  BY DEF Insert
<1>2. /\ s \in Services /\ task[t].ev \in Events /\ ev[task[t].ev].st # "free"
      /\ Holds(t) /\ task[t] \in TaskRecords
  BY <1>1 DEF WorkInv, Holds, TypeOK
<1>3. p \in Ports /\ p # NoPort /\ owner[p] = s /\ registry[s] # p
  BY <1>2 DEF PortInv, TaskRecords
<1>4. PICK new : new = [task[t] EXCEPT !.step = "write"]
  OBVIOUS
<1>5. new \in TaskRecords /\ new.step = "write" /\ new.svc = s /\ new.ev = task[t].ev
  BY <1>2, <1>4 DEF TaskRecords
<1>6. task' = [task EXCEPT ![t] = new]
  BY <1>1, <1>2, <1>4 DEF Goto, TypeOK
<1>7. EventsKept
  BY <1>1 DEF EventsKept, TypeOK, WorkInv
<1>8. BusTypes' /\ task'[t] = new /\ \A u \in Tasks : u # t => task'[u] = task[u]
  BY <1>2, <1>5, <1>6, <1>7, TaskTypes
<1>9. /\ registry' \in [Services -> Ports \cup {NoPort}] /\ registry'[s] = p
      /\ \A o \in Services : o # s => registry'[o] = registry[o]
  BY <1>1, <1>2, <1>3 DEF TypeOK
<1>10. /\ owner' \in [Ports -> Services \cup {NoSvc}]
       /\ \A q \in Ports : owner'[q] = IF q = registry[s] THEN NoSvc ELSE owner[q]
  BY <1>1 DEF TypeOK, Aborted
<1>11. TypeOK' /\ WorkInv'
  BY <1>1, <1>8, <1>9, <1>10 DEF TypeOK, BusTypes, timerVars, usageVars
<1>12. \A u \in Tasks : Holds(u)' => u # t /\ Holds(u) /\ task'[u] = task[u]
  BY <1>5, <1>8 DEF Holds
<1>13. PortInv'
  <2>1. ASSUME NEW o \in Services, registry'[o] # NoPort PROVE owner'[registry'[o]] = o
    <3>1. CASE o = s
      BY <1>3, <1>9, <1>10, <3>1
    <3>2. CASE o # s
      <4>1. registry'[o] = registry[o] /\ registry[o] \in Ports /\ owner[registry[o]] = o
        BY <1>9, <2>1, <3>2 DEF PortInv, TypeOK
      <4>2. registry[o] # registry[s]
        BY <1>2, <2>1, <3>2, <4>1 DEF PortInv
      <4> QED BY <1>10, <4>1, <4>2
    <3> QED BY <3>1, <3>2
  <2>2. ASSUME NEW u \in Tasks, Holds(u)'
        PROVE  /\ task'[u].port # NoPort /\ owner'[task'[u].port] = task'[u].svc
               /\ registry'[task'[u].svc] # task'[u].port
               /\ \A v \in Tasks : Holds(v)' /\ task'[v].port = task'[u].port => v = u
    <3>1. u # t /\ Holds(u) /\ task'[u] = task[u]
      BY <1>12, <2>2
    <3>2. /\ task[u].port \in Ports /\ task[u].port # NoPort /\ owner[task[u].port] = task[u].svc
          /\ registry[task[u].svc] # task[u].port /\ task[u].svc \in Services
          /\ task[u].port # p
      BY <1>2, <3>1 DEF PortInv, TypeOK, TaskRecords, WorkInv, Holds
    <3>3. task[u].port # registry[s]
      BY <1>2, <3>2 DEF PortInv
    <3>4. owner'[task[u].port] = task[u].svc
      BY <1>10, <3>2, <3>3
    <3>5. registry'[task[u].svc] # task[u].port
      BY <1>9, <3>2
    <3>6. \A v \in Tasks : Holds(v)' /\ task'[v].port = task[u].port => v = u
      BY <1>12, <3>1 DEF PortInv
    <3> QED BY <3>1, <3>2, <3>4, <3>5, <3>6
  <2> QED BY <2>1, <2>2 DEF PortInv
<1>14. Leaks
  <2>1. SUFFICES ASSUME NEW q \in Ports, owner'[q] # NoSvc,
                        \/ \E o \in Services : registry[o] = q
                        \/ \E u \in Tasks : Holds(u) /\ task[u].port = q
                 PROVE  \/ \E o \in Services : registry'[o] = q
                        \/ \E u \in Tasks : Holds(u)' /\ task'[u].port = q
    BY DEF Leaks, LeaksByProvision
  <2>2. CASE \E o \in Services : registry[o] = q
    BY <1>9, <1>10, <2>1, <2>2
  <2>3. CASE \E u \in Tasks : Holds(u) /\ task[u].port = q
    <3>1. PICK u \in Tasks : Holds(u) /\ task[u].port = q
      BY <2>3
    <3>2. CASE u = t
      BY <1>2, <1>9, <3>1, <3>2
    <3>3. CASE u # t
      BY <1>8, <3>1, <3>3 DEF Holds
    <3> QED BY <3>2, <3>3
  <2> QED BY <2>1, <2>2, <2>3
<1> QED BY <1>11, <1>13, <1>14

-----------------------------------------------------------------------------
(* The other steps *)

\* What an UPDATE of a services row leaves is a row.
LEMMA RowUpdated ==
  ASSUME NEW r \in RowRecords
  PROVE  \A st \in Statuses : [r EXCEPT !.status = st, !.addr = NoPort] \in RowRecords
BY DEF RowRecords

\* The rest of the state, ports and bus apart.
RestTypes ==
  /\ row \in [Services -> RowRecords]
  /\ disk \subseteq Services /\ idling \subseteq Services
  /\ calls \in [Ports -> Nat]
  /\ sweep \in [at : {"idle", "keys", "rows"}, ids : SUBSET Services]
  /\ backlog \in [Services -> Nat] /\ billed \in [Services -> Nat] /\ served \in [Services -> Nat]

LEMMA KeepsPorts ==
  ASSUME IInv, RestTypes', BusTypes', Quiet, UNCHANGED <<registry, owner>>
  PROVE  IInv' /\ Leaks
<1>1. PortInv' /\ Leaks
  BY PortsKept DEF IInv
<1>2. TypeOK' /\ WorkInv'
  BY DEF IInv, TypeOK, RestTypes, BusTypes
<1> QED BY <1>1, <1>2 DEF IInv

LEMMA DropsHandles ==
  ASSUME LiquidAssumption, IInv, RestTypes', BusTypes', Quiet, NEW S \in SUBSET Services,
         registry' = [s \in Services |-> IF s \in S THEN NoPort ELSE registry[s]],
         owner' = Aborted({registry[s] : s \in S})
  PROVE  IInv' /\ Leaks
<1>1. /\ registry' \in [Services -> Ports \cup {NoPort}] /\ owner' \in [Ports -> Services \cup {NoSvc}]
      /\ PortInv' /\ Leaks
  BY HandlesDropped DEF IInv
<1>2. TypeOK' /\ WorkInv'
  BY <1>1 DEF TypeOK, RestTypes, BusTypes
<1> QED BY <1>1, <1>2 DEF IInv

LEMMA DropsHandle ==
  ASSUME LiquidAssumption, IInv, RestTypes', BusTypes', Quiet, NEW s \in Services,
         registry' = [registry EXCEPT ![s] = NoPort], owner' = Aborted({registry[s]})
  PROVE  IInv' /\ Leaks
<1>1. registry' = [o \in Services |-> IF o \in {s} THEN NoPort ELSE registry[o]]
  BY DEF IInv, TypeOK
<1>2. owner' = Aborted({registry[o] : o \in {s}})
  <2>1. {registry[o] : o \in {s}} = {registry[s]}
    OBVIOUS
  <2> QED BY <2>1
<1> QED BY <1>1, <1>2, DropsHandles

LEMMA OutsideStep ==
  ASSUME LiquidAssumption, IInv, Outside
  PROVE  IInv' /\ Leaks
<1> USE DEF IInv
<1>1. ASSUME NEW s \in Services, start_service(s) PROVE IInv' /\ Leaks
  <2>1. row' \in [Services -> RowRecords]
    <3>1. [row[s] EXCEPT !.status = "provisioning", !.addr = NoPort] \in RowRecords
      <4>1. row[s] \in RowRecords /\ "provisioning" \in Statuses
        BY DEF TypeOK, Statuses
      <4> QED BY <4>1, RowUpdated
    <3>2. row' = [row EXCEPT ![s] = [row[s] EXCEPT !.status = "provisioning", !.addr = NoPort]]
      BY <1>1 DEF start_service, TypeOK
    <3> QED BY <3>1, <3>2 DEF TypeOK
  <2>2. RestTypes'
    BY <1>1, <2>1 DEF start_service, TypeOK, RestTypes, nodeVars, timerVars, usageVars
  <2>3. BusTypes' /\ Quiet
    BY <1>1, PublishBus DEF start_service, Kinds
  <2> QED BY <1>1, <2>2, <2>3, KeepsPorts DEF start_service, nodeVars
<1>2. ASSUME NEW s \in Services, NEW delete \in BOOLEAN, stop_service(s, delete) PROVE IInv' /\ Leaks
  <2>1. row' \in [Services -> RowRecords]
    BY <1>2 DEF stop_service, TypeOK, RowRecords, Statuses
  <2>2. RestTypes'
    BY <1>2, <2>1 DEF stop_service, TypeOK, RestTypes, nodeVars, timerVars, usageVars
  <2>3. BusTypes' /\ Quiet
    BY <1>2, PublishBus DEF stop_service, Kinds
  <2> QED BY <1>2, <2>2, <2>3, KeepsPorts DEF stop_service, nodeVars
<1>3. ASSUME NEW s \in Services, publish_wake(s) PROVE IInv' /\ Leaks
  <2>1. RestTypes'
    BY <1>3 DEF publish_wake, TypeOK, RestTypes, nodeVars, timerVars, usageVars
  <2>2. BusTypes' /\ Quiet
    BY <1>3, PublishBus DEF publish_wake, Kinds
  <2> QED BY <1>3, <2>1, <2>2, KeepsPorts DEF publish_wake, nodeVars
<1>4. ASSUME NEW s \in Services, dispatch(s) PROVE IInv' /\ Leaks
  <2>1. calls' \in [Ports -> Nat] /\ served' \in [Services -> Nat]
    <3>1. PICK p \in Ports : p = row[s].addr
      BY <1>4 DEF dispatch, TypeOK, RowRecords
    <3>2. owner[p] \in Services
      BY <1>4, <3>1 DEF dispatch, TypeOK
    <3>3. /\ calls' = [calls EXCEPT ![p] = @ + 1]
          /\ served' = [served EXCEPT ![owner[p]] = @ + 1]
      BY <1>4, <3>1 DEF dispatch
    <3> QED BY <3>2, <3>3 DEF TypeOK
  <2>2. RestTypes' /\ UNCHANGED <<busVars, registry, owner>>
    BY <1>4, <2>1 DEF dispatch, TypeOK, RestTypes, nodeVars, timerVars
  <2> QED BY <2>2, QuietBus, KeepsPorts
<1> QED BY <1>1, <1>2, <1>3, <1>4 DEF Outside

LEMMA DeliverStep ==
  ASSUME LiquidAssumption, IInv, NEW e \in Events, Deliver(e)
  PROVE  IInv' /\ Leaks
<1> USE DEF IInv
<1>1. RestTypes' /\ UNCHANGED <<registry, owner>>
  BY DEF Deliver, ReceiveProvision, WakeSkipped, ReceiveWake, ReceiveDeprovision, AckWaitExpires,
         TypeOK, RestTypes, nodeVars, timerVars, usageVars
<1>2. CASE ReceiveProvision(e) \/ ReceiveWake(e) \/ ReceiveDeprovision(e)
  <2>1. ev[e].st = "queued" /\ \E kind \in Kinds, step \in {"permit", "fetch", "remove"} : Spawn(e, kind, step)
    BY <1>2 DEF ReceiveProvision, ReceiveWake, ReceiveDeprovision, Kinds
  <2> QED BY <1>1, <2>1, SpawnBus, KeepsPorts
<1>3. CASE WakeSkipped(e) \/ AckWaitExpires(e)
  <2>1. PICK x \in {"queued", "inflight", "done", "dead"} :
          ev' = [ev EXCEPT ![e].st = x] /\ ev[e].st # "free" /\ task' = task
    <3>1. CASE WakeSkipped(e)
      BY <3>1 DEF WakeSkipped
    <3>2. CASE AckWaitExpires(e)
      BY <3>2 DEF AckWaitExpires
    <3> QED BY <1>3, <3>1, <3>2
  <2>2. EventsKept
    BY <2>1, StateMoved
  <2>3. BusTypes' /\ Quiet
    BY <2>1, <2>2 DEF BusTypes, EventsKept, TypeOK, WorkInv, Quiet, Holds
  <2> QED BY <1>1, <2>3, KeepsPorts
<1> QED BY <1>2, <1>3 DEF Deliver

\* A new status, with or without a new address, leaves a row a row.
LEMMA RowUpdates ==
  ASSUME NEW r \in RowRecords, NEW x \in Statuses, NEW p \in Ports \cup {NoPort}
  PROVE  /\ [r EXCEPT !.status = x] \in RowRecords
         /\ [r EXCEPT !.status = x, !.addr = p] \in RowRecords
BY DEF RowRecords

LEMMA TaskStepLemma ==
  ASSUME LiquidAssumption, IInv, NEW t \in Tasks, TaskStep(t)
  PROVE  IInv' /\ Leaks
<1> USE DEF IInv
<1>0. task[t].step # "none" => task[t].svc \in Services
  BY DEF WorkInv
<1>1. CASE AcquirePermit(t)
  <2>1. RestTypes' /\ UNCHANGED <<registry, owner, ev>>
    BY <1>1 DEF AcquirePermit, TypeOK, RestTypes, nodeVars, timerVars, usageVars
  <2>2. BusTypes' /\ Quiet
    BY <1>1, <2>1, GotoBus DEF AcquirePermit, Holds, Steps
  <2> QED BY <2>1, <2>2, KeepsPorts
<1>2. CASE Fetch(t)
  <2>1. RestTypes' /\ UNCHANGED <<registry, owner, ev>>
    BY <1>0, <1>2 DEF Fetch, TypeOK, RestTypes, timerVars, usageVars
  <2>2. BusTypes' /\ Quiet
    BY <1>2, <2>1, GotoBus DEF Fetch, Holds, Steps
  <2> QED BY <2>1, <2>2, KeepsPorts
<1>3. CASE Serve(t)
  BY <1>3, ServeStep
<1>4. CASE Probe(t)
  <2>1. task[t].port \in Ports /\ task[t].svc \in Services /\ Holds(t)
    BY <1>0, <1>4 DEF Probe, PortInv, Holds, TypeOK, TaskRecords
  <2>2. calls' \in [Ports -> Nat] /\ served' \in [Services -> Nat]
    BY <1>4, <2>1 DEF Probe, TypeOK
  <2>3. RestTypes' /\ UNCHANGED <<registry, owner, ev>>
    BY <1>4, <2>2 DEF Probe, TypeOK, RestTypes, nodeVars, timerVars
  <2>4. BusTypes' /\ Quiet
    BY <1>4, <2>1, <2>3, GotoBus DEF Probe, Steps
  <2> QED BY <2>3, <2>4, KeepsPorts
<1>5. CASE Insert(t)
  BY <1>5, InsertStep
<1>6. CASE WriteRunning(t)
  <2>1. task[t].port \in Ports \cup {NoPort} /\ task[t].svc \in Services
    BY <1>0, <1>6 DEF WriteRunning, TypeOK, TaskRecords
  <2>2. row' \in [Services -> RowRecords]
    <3>1. [row[task[t].svc] EXCEPT !.status = "running", !.addr = task[t].port] \in RowRecords
      BY <2>1, RowUpdates DEF TypeOK, Statuses
    <3>2. row' = [row EXCEPT ![task[t].svc] =
                    [row[task[t].svc] EXCEPT !.status = "running", !.addr = task[t].port]]
      BY <1>6, <2>1 DEF WriteRunning, TypeOK, RowRecords
    <3> QED BY <2>1, <3>1, <3>2 DEF TypeOK
  <2>3. RestTypes' /\ UNCHANGED <<registry, owner>>
    BY <1>6, <2>2 DEF WriteRunning, TypeOK, RestTypes, nodeVars, timerVars, usageVars
  <2>4. BusTypes' /\ Quiet
    BY <1>6, EndBus DEF WriteRunning, Holds
  <2> QED BY <2>3, <2>4, KeepsPorts
<1>7. CASE ProvisionFails(t)
  <2>1. RestTypes' /\ UNCHANGED <<registry, owner>>
    BY <1>7 DEF ProvisionFails, TypeOK, RestTypes, nodeVars, timerVars, usageVars
  <2> QED BY <1>7, <2>1, FailBus, KeepsPorts
<1>8. CASE Rollback(t)
  <2>1. task[t].step \in {"rollback2", "rollback"} /\ task[t].svc \in Services /\ ~Holds(t)
    BY <1>0, <1>8 DEF Rollback, Holds
  <2>2. row' \in [Services -> RowRecords]
    <3>1. [row[task[t].svc] EXCEPT !.status = "failed"] \in RowRecords
      BY <2>1, RowUpdates DEF TypeOK, Statuses
    <3> QED BY <1>8, <2>1, <3>1 DEF Rollback, TypeOK
  <2>3. RestTypes' /\ UNCHANGED ev
    BY <1>8, <2>2 DEF Rollback, TypeOK, RestTypes, timerVars, usageVars
  <2>4. PICK x \in {"rollback", "answer"} : Goto(t, x)
    BY <1>8 DEF Rollback
  <2>5. BusTypes' /\ Quiet
    BY <2>1, <2>3, <2>4, GotoBus DEF Steps
  <2> QED BY <1>8, <2>1, <2>3, <2>5, DropsHandle DEF Rollback
<1>9. CASE Answer(t)
  <2>1. task[t].step = "answer" /\ task[t].svc \in Services /\ ~Holds(t) /\ (Ack(t) \/ Nak(t))
    BY <1>0, <1>9 DEF Answer, Holds
  <2>2. row' \in [Services -> RowRecords]
    <3>1. [row[task[t].svc] EXCEPT !.status = "provisioning"] \in RowRecords
      BY <2>1, RowUpdates DEF TypeOK, Statuses
    <3>2. \/ row' = row
          \/ row' = [row EXCEPT ![task[t].svc] = [row[task[t].svc] EXCEPT !.status = "provisioning"]]
      BY <1>9, <2>1 DEF Answer, TypeOK, RowRecords
    <3> QED BY <2>1, <3>1, <3>2 DEF TypeOK
  <2>3. RestTypes' /\ UNCHANGED <<registry, owner>>
    BY <1>9, <2>2 DEF Answer, TypeOK, RestTypes, nodeVars, timerVars, usageVars
  <2> QED BY <2>1, <2>3, EndBus, KeepsPorts
<1>10. CASE WakeFails(t)
  <2>1. task[t].step # "none" /\ ~Holds(t) /\ Nak(t)
    BY <1>10 DEF WakeFails, Holds
  <2>2. RestTypes' /\ UNCHANGED <<registry, owner>>
    BY <1>10 DEF WakeFails, TypeOK, RestTypes, nodeVars, timerVars, usageVars
  <2> QED BY <2>1, <2>2, EndBus, KeepsPorts
<1>11. CASE DeprovisionRemove(t)
  <2>1. task[t].step = "remove" /\ task[t].svc \in Services /\ ~Holds(t)
    BY <1>0, <1>11 DEF DeprovisionRemove, Holds
  <2>2. RestTypes' /\ UNCHANGED ev
    BY <1>11 DEF DeprovisionRemove, TypeOK, RestTypes, timerVars, usageVars
  <2>3. BusTypes' /\ Quiet
    BY <1>11, <2>1, <2>2, GotoBus DEF DeprovisionRemove, Steps
  <2> QED BY <1>11, <2>1, <2>2, <2>3, DropsHandle DEF DeprovisionRemove
<1>12. CASE DeprovisionRmdir(t)
  <2>1. task[t].step = "rmdir" /\ ~Holds(t) /\ Ack(t)
    BY <1>12 DEF DeprovisionRmdir, Holds
  <2>2. RestTypes' /\ UNCHANGED <<registry, owner>>
    BY <1>12 DEF DeprovisionRmdir, TypeOK, RestTypes, timerVars, usageVars
  <2> QED BY <2>1, <2>2, EndBus, KeepsPorts
<1> QED
  BY <1>1, <1>2, <1>3, <1>4, <1>5, <1>6, <1>7, <1>8, <1>9, <1>10, <1>11, <1>12 DEF TaskStep

LEMMA TimerStep ==
  ASSUME LiquidAssumption, IInv, Timer
  PROVE  IInv' /\ Leaks
<1> USE DEF IInv
<1>1. ASSUME NEW idle \in SUBSET Services, IdleMark(idle) PROVE IInv' /\ Leaks
  <2>1. row' \in [Services -> RowRecords]
    <3>1. \A s \in Services : [row[s] EXCEPT !.status = "stopped", !.addr = NoPort] \in RowRecords
      <4>1. "stopped" \in Statuses /\ \A s \in Services : row[s] \in RowRecords
        BY DEF TypeOK, Statuses
      <4> QED BY <4>1, RowUpdated
    <3> QED BY <1>1, <3>1 DEF IdleMark, TypeOK
  <2>2. RestTypes' /\ UNCHANGED <<busVars, registry, owner>>
    BY <1>1, <2>1 DEF IdleMark, TypeOK, RestTypes, nodeVars, usageVars
  <2> QED BY <2>2, QuietBus, KeepsPorts
<1>2. ASSUME NEW s \in Services, IdleDrop(s) PROVE IInv' /\ Leaks
  <2>1. RestTypes' /\ UNCHANGED busVars
    BY <1>2 DEF IdleDrop, TypeOK, RestTypes, usageVars
  <2> QED BY <1>2, <2>1, QuietBus, DropsHandle DEF IdleDrop
<1>3. CASE SweepKeys \/ SweepRows
  <2>1. sweep' \in [at : {"idle", "keys", "rows"}, ids : SUBSET Services]
    BY <1>3 DEF SweepKeys, SweepRows, TypeOK
  <2>2. RestTypes' /\ UNCHANGED <<busVars, registry, owner>>
    BY <1>3, <2>1 DEF SweepKeys, SweepRows, TypeOK, RestTypes, nodeVars, usageVars
  <2> QED BY <2>2, QuietBus, KeepsPorts
<1>4. CASE SweepRetain
  <2>1. RestTypes' /\ UNCHANGED busVars
    BY <1>4 DEF SweepRetain, TypeOK, RestTypes, usageVars, NoSweep
  <2>2. PICK S \in SUBSET Services : S = Services \ sweep.ids
    OBVIOUS
  <2>3. registry' = [s \in Services |-> IF s \in S THEN NoPort ELSE registry[s]]
    BY <1>4, <2>2 DEF SweepRetain
  <2>4. owner' = Aborted({registry[s] : s \in S})
    BY <1>4, <2>2 DEF SweepRetain
  <2> QED BY <2>1, <2>3, <2>4, QuietBus, DropsHandles
<1>5. ASSUME NEW sent \in SUBSET Services, ReportUsage(sent) PROVE IInv' /\ Leaks
  <2>1. \A s \in Services : registry[s] # NoPort => Total(s) \in Nat
    BY DEF Total, TypeOK
  <2>2. /\ billed' \in [Services -> Nat] /\ calls' \in [Ports -> Nat]
    BY <1>5, <2>1 DEF ReportUsage, TypeOK
  <2>3. backlog' \in [Services -> Nat]
    <3>1. PICK kept : /\ kept \in [Services -> Nat]
                      /\ backlog' = kept \/ backlog' = [s \in Services |-> 0]
      BY <1>5, <2>1 DEF ReportUsage
    <3> QED BY <3>1
  <2>4. RestTypes' /\ UNCHANGED <<busVars, registry, owner>>
    BY <1>5, <2>2, <2>3 DEF ReportUsage, TypeOK, RestTypes, nodeVars, timerVars
  <2> QED BY <2>4, QuietBus, KeepsPorts
<1> QED BY <1>1, <1>2, <1>3, <1>4, <1>5 DEF Timer, Sweep

LEMMA RestartStep ==
  ASSUME IInv, Restart
  PROVE  IInv' /\ Leaks
<1> USE DEF IInv
<1>1. row' \in [Services -> RowRecords]
  <2>1. \A s \in Services : [row[s] EXCEPT !.status = "stopped", !.addr = NoPort] \in RowRecords
    BY RowUpdates DEF TypeOK, Statuses
  <2> QED BY <2>1 DEF Restart, TypeOK
<1>2. NoTask \in TaskRecords /\ NoTask.step = "none"
  BY DEF NoTask, TaskRecords, Kinds
<1>3. TypeOK'
  BY <1>1, <1>2 DEF Restart, TypeOK, NoSweep
<1>4. \A t \in Tasks : task'[t].step = "none"
  BY <1>2 DEF Restart
<1>5. WorkInv'
  BY <1>4 DEF Restart, WorkInv
<1>6. PortInv'
  BY <1>4 DEF Restart, PortInv, Holds
<1>7. Leaks
  BY DEF Restart, Leaks, LeaksByProvision
<1> QED BY <1>3, <1>5, <1>6, <1>7

-----------------------------------------------------------------------------
(* The theorems *)

LEMMA InitLemma ==
  ASSUME LiquidAssumption, Init
  PROVE  IInv
<1> USE DEF Init
<1>1. NoTask \in TaskRecords /\ NoTask.step = "none" /\ NoEvent \in EventRecords /\ NoEvent.st = "free"
  BY DEF NoTask, TaskRecords, Kinds, NoEvent, EventRecords
<1>2. row \in [Services -> RowRecords]
  BY DEF RowRecords, Statuses
<1>3. TypeOK
  BY <1>1, <1>2 DEF TypeOK, NoSweep, LiquidAssumption
<1>4. WorkInv
  BY <1>1 DEF WorkInv
<1>5. PortInv
  BY <1>1 DEF PortInv, Holds
<1> QED BY <1>3, <1>4, <1>5 DEF IInv

LEMMA Inductive ==
  ASSUME LiquidAssumption, IInv, [Next]_vars
  PROVE  IInv' /\ (Leaks \/ UNCHANGED vars)
<1>1. CASE UNCHANGED vars
  <2>1. RestTypes' /\ UNCHANGED <<busVars, registry, owner>>
    BY <1>1 DEF IInv, TypeOK, RestTypes, vars, nodeVars, timerVars, usageVars
  <2> QED BY <2>1, QuietBus, KeepsPorts DEF IInv
<1>2. CASE Next
  BY <1>2, OutsideStep, TimerStep, RestartStep, DeliverStep, TaskStepLemma DEF Next
<1> QED BY <1>1, <1>2

\* The registry, the ports, the tasks and the counters stay within their types.
THEOREM LiquidTypeOK == Spec => []TypeOK
<1>1. Init => IInv
  BY InitLemma, LiquidAssumption
<1>2. IInv /\ [Next]_vars => IInv'
  BY Inductive, LiquidAssumption
<1>3. IInv => TypeOK
  BY DEF IInv
<1> QED BY <1>1, <1>2, <1>3, PTL DEF Spec

\* A registered handle stands for a running accept loop of its own service and a
\* bound port belongs to one task, whatever provisions, wakes, sweeps, idle ticks
\* and restarts do to the registry at once.
THEOREM HandlesOwnTheirPorts == Spec => []PortInv
<1>1. Init => IInv
  BY InitLemma, LiquidAssumption
<1>2. IInv /\ [Next]_vars => IInv'
  BY Inductive, LiquidAssumption
<1>3. IInv => PortInv
  BY DEF IInv
<1> QED BY <1>1, <1>2, <1>3, PTL DEF Spec

\* The only way an accept loop is left without a handle and without a task is a
\* provision that fails after serve() and before registry.insert.
THEOREM OnlyProvisionLeaks == Spec => LeakOnlyByProvision
<1>1. Init => IInv
  BY InitLemma, LiquidAssumption
<1>2. IInv /\ [Next]_vars => IInv'
  BY Inductive, LiquidAssumption
<1>3. IInv /\ [Next]_vars => [\A p \in Ports : LeaksByProvision(p)]_vars
  BY Inductive, LiquidAssumption DEF Leaks
<1> QED BY <1>1, <1>2, <1>3, PTL DEF Spec, LeakOnlyByProvision

-----------------------------------------------------------------------------
(* The usage counters *)

\* The invocations the running accept loops of a service have counted and nobody
\* has reported, one element each: those behind its handle, those of a loop whose
\* task has still to insert it, and those of a loop that leaked.
Pending(s) == {c \in Ports \X Nat : owner[c[1]] = s /\ c[2] \in 1 .. calls[c[1]]}

UsageInv ==
  \A s \in Services :
    /\ IsFiniteSet(Pending(s))
    /\ billed[s] + backlog[s] + Cardinality(Pending(s)) <= served[s]

\* What a step can do to the counters: nothing, while loops are aborted, ...
CountersKept ==
  /\ UNCHANGED usageVars
  /\ \A p \in Ports : owner'[p] \in {owner[p], NoSvc}

\* ... count one invocation in the shim that dispatched it, ...
Counts(p) ==
  /\ owner[p] \in Services
  /\ calls' = [calls EXCEPT ![p] = @ + 1]
  /\ served' = [served EXCEPT ![owner[p]] = @ + 1]
  /\ UNCHANGED <<registry, owner, backlog, billed>>

\* ... or start a counter on a port nobody listened on.
StartsCounter(p) ==
  /\ owner[p] = NoSvc
  /\ \E s \in Services : owner' = [owner EXCEPT ![p] = s]
  /\ calls' = [calls EXCEPT ![p] = 0]
  /\ UNCHANGED <<registry, backlog, billed, served>>

\* Apart from the usage reporter and a restart, every step is one of those.
LEMMA CounterSteps ==
  ASSUME LiquidAssumption, IInv, [Next]_vars
  PROVE  \/ CountersKept
         \/ \E p \in Ports : Counts(p) \/ StartsCounter(p)
         \/ \E sent \in SUBSET Services : ReportUsage(sent)
         \/ Restart
<1>0. /\ owner \in [Ports -> Services \cup {NoSvc}] /\ row \in [Services -> RowRecords]
      /\ \A P : \A p \in Ports : Aborted(P)[p] \in {owner[p], NoSvc}
  BY DEF IInv, TypeOK, Aborted
<1>1. ASSUME UNCHANGED vars PROVE CountersKept
  BY <1>1 DEF vars, CountersKept, nodeVars
<1>2. ASSUME NEW s \in Services,
             start_service(s) \/ publish_wake(s) \/ \E delete \in BOOLEAN : stop_service(s, delete)
      PROVE  CountersKept
  BY <1>2 DEF start_service, publish_wake, stop_service, CountersKept, nodeVars
<1>3. ASSUME NEW s \in Services, dispatch(s) PROVE \E p \in Ports : Counts(p)
  <2>1. PICK p \in Ports : p = row[s].addr
    BY <1>0, <1>3 DEF dispatch, RowRecords
  <2> QED BY <1>0, <1>3, <2>1 DEF dispatch, Counts, nodeVars
<1>4. ASSUME NEW e \in Events, Deliver(e) PROVE CountersKept
  BY <1>4 DEF Deliver, ReceiveProvision, WakeSkipped, ReceiveWake, ReceiveDeprovision,
              AckWaitExpires, CountersKept, nodeVars
<1>5. ASSUME NEW t \in Tasks, TaskStep(t)
      PROVE  CountersKept \/ \E p \in Ports : Counts(p) \/ StartsCounter(p)
  <2>1. CASE Serve(t)
    <3>1. task[t].svc \in Services
      BY <2>1 DEF Serve, IInv, WorkInv
    <3>2. PICK p \in Ports : owner[p] = NoSvc /\ owner' = [owner EXCEPT ![p] = task[t].svc]
                             /\ calls' = [calls EXCEPT ![p] = 0]
      BY <2>1 DEF Serve
    <3> QED BY <2>1, <3>1, <3>2 DEF Serve, StartsCounter
  <2>2. CASE Probe(t)
    <3>1. Holds(t) /\ task[t].svc \in Services
      BY <2>2 DEF Probe, Holds, IInv, WorkInv
    <3>2. task[t].port \in Ports /\ owner[task[t].port] = task[t].svc
      BY <3>1 DEF IInv, PortInv, TypeOK, TaskRecords
    <3> QED BY <2>2, <3>1, <3>2 DEF Probe, Counts, nodeVars
  <2>3. CASE AcquirePermit(t) \/ WriteRunning(t) \/ ProvisionFails(t) \/ Answer(t) \/ WakeFails(t)
    BY <2>3 DEF AcquirePermit, WriteRunning, ProvisionFails, Answer, WakeFails, CountersKept, nodeVars
  <2>4. CASE Fetch(t) \/ DeprovisionRmdir(t)
    BY <2>4 DEF Fetch, DeprovisionRmdir, CountersKept
  <2>5. CASE Insert(t) \/ Rollback(t) \/ DeprovisionRemove(t)
    BY <1>0, <2>5 DEF Insert, Rollback, DeprovisionRemove, CountersKept
  <2> QED BY <1>5, <2>1, <2>2, <2>3, <2>4, <2>5 DEF TaskStep
<1>6. ASSUME NEW idle \in SUBSET Services, IdleMark(idle) PROVE CountersKept
  BY <1>6 DEF IdleMark, CountersKept, nodeVars
<1>7. ASSUME NEW s \in Services, IdleDrop(s) PROVE CountersKept
  BY <1>0, <1>7 DEF IdleDrop, CountersKept
<1>8. ASSUME Sweep PROVE CountersKept
  <2>1. CASE SweepKeys \/ SweepRows
    BY <2>1 DEF SweepKeys, SweepRows, CountersKept, nodeVars
  <2>2. CASE SweepRetain
    BY <1>0, <2>2 DEF SweepRetain, CountersKept
  <2> QED BY <1>8, <2>1, <2>2 DEF Sweep
<1> QED BY <1>1, <1>2, <1>3, <1>4, <1>5, <1>6, <1>7, <1>8 DEF Next, Outside, Timer

\* The invocations one port has counted.
Counter(p, n) == {p} \X (1 .. n)

LEMMA CounterSize ==
  ASSUME NEW p, NEW n \in Nat
  PROVE  IsFiniteSet(Counter(p, n)) /\ Cardinality(Counter(p, n)) = n
<1>1. IsFiniteSet({p}) /\ Cardinality({p}) = 1
  BY FS_Singleton
<1>2. IsFiniteSet(1 .. n) /\ Cardinality(1 .. n) = n
  <2>1. /\ IsFiniteSet(1 .. n)
        /\ Cardinality(1 .. n) = IF 1 > n THEN 0 ELSE n - 1 + 1
    BY FS_Interval
  <2> QED BY <2>1
<1>3. /\ IsFiniteSet({p} \X (1 .. n))
      /\ Cardinality({p} \X (1 .. n)) = Cardinality({p}) * Cardinality(1 .. n)
  BY <1>1, <1>2, FS_Product
<1> QED BY <1>1, <1>2, <1>3 DEF Counter

\* A service's books stay in order when nothing is added to what is pending.
LEMMA FewerPending ==
  ASSUME IInv, UsageInv, NEW s \in Services, Pending(s)' \subseteq Pending(s),
         billed'[s] = billed[s], served'[s] = served[s],
         backlog'[s] \in Nat, backlog'[s] <= backlog[s]
  PROVE  /\ IsFiniteSet(Pending(s)')
         /\ billed'[s] + backlog'[s] + Cardinality(Pending(s)') <= served'[s]
<1>1. PICK P : P = Pending(s)'
  OBVIOUS
<1>2. /\ IsFiniteSet(P) /\ Cardinality(P) <= Cardinality(Pending(s)) /\ Cardinality(P) \in Nat
      /\ Cardinality(Pending(s)) \in Nat
  BY <1>1, FS_Subset, FS_CardinalityType DEF UsageInv
<1>3. billed[s] \in Nat /\ backlog[s] \in Nat /\ served[s] \in Nat
      /\ billed[s] + backlog[s] + Cardinality(Pending(s)) <= served[s]
  BY DEF IInv, TypeOK, UsageInv
<1>4. billed[s] + backlog'[s] + Cardinality(P) <= served[s]
  BY <1>2, <1>3
<1> QED BY <1>1, <1>2, <1>4

LEMMA KeptUsage ==
  ASSUME LiquidAssumption, IInv, UsageInv, CountersKept
  PROVE  UsageInv'
<1>1. ASSUME NEW s \in Services
      PROVE  /\ IsFiniteSet(Pending(s)')
             /\ billed'[s] + backlog'[s] + Cardinality(Pending(s)') <= served'[s]
  <2>1. Pending(s)' \subseteq Pending(s)
    BY DEF Pending, CountersKept, usageVars, LiquidAssumption
  <2> QED BY <2>1, FewerPending DEF CountersKept, usageVars, IInv, TypeOK
<1> QED BY <1>1 DEF UsageInv

LEMMA StartedUsage ==
  ASSUME LiquidAssumption, IInv, UsageInv, NEW p \in Ports, StartsCounter(p)
  PROVE  UsageInv'
<1>1. ASSUME NEW s \in Services
      PROVE  /\ IsFiniteSet(Pending(s)')
             /\ billed'[s] + backlog'[s] + Cardinality(Pending(s)') <= served'[s]
  <2>1. /\ calls'[p] = 0
        /\ \A q \in Ports : q # p => calls'[q] = calls[q] /\ owner'[q] = owner[q]
    BY DEF StartsCounter, IInv, TypeOK
  <2>2. Pending(s)' \subseteq Pending(s)
    BY <2>1 DEF Pending
  <2> QED BY <2>2, FewerPending DEF StartsCounter, IInv, TypeOK
<1> QED BY <1>1 DEF UsageInv

LEMMA CountedUsage ==
  ASSUME LiquidAssumption, IInv, UsageInv, NEW p \in Ports, Counts(p)
  PROVE  UsageInv'
<1>0. /\ calls[p] \in Nat /\ calls'[p] = calls[p] + 1
      /\ \A q \in Ports : q # p => calls'[q] = calls[q]
      /\ served'[owner[p]] = served[owner[p]] + 1
      /\ \A s \in Services : s # owner[p] => served'[s] = served[s]
      /\ billed' = billed /\ backlog' = backlog /\ owner' = owner
  BY DEF Counts, IInv, TypeOK
<1>1. ASSUME NEW s \in Services
      PROVE  /\ IsFiniteSet(Pending(s)')
             /\ billed'[s] + backlog'[s] + Cardinality(Pending(s)') <= served'[s]
  <2>1. CASE s # owner[p]
    <3>1. Pending(s)' \subseteq Pending(s)
      BY <1>0, <2>1 DEF Pending
    <3> QED BY <1>0, <2>1, <3>1, FewerPending DEF IInv, TypeOK
  <2>2. CASE s = owner[p]
    <3>1. PICK P : P = Pending(s)'
      OBVIOUS
    <3>2. P \subseteq Pending(s) \cup {<<p, calls[p] + 1>>}
      <4>1. ASSUME NEW c \in Ports \X Nat, c[2] \in 1 .. calls'[c[1]], c[2] \notin 1 .. calls[c[1]]
            PROVE  c = <<p, calls[p] + 1>>
        <5>1. c[1] = p /\ c[2] = calls[p] + 1
          BY <1>0, <4>1 DEF IInv, TypeOK
        <5> QED BY <5>1
      <4> QED BY <1>0, <3>1, <4>1 DEF Pending
    <3>3. IsFiniteSet(Pending(s)) /\ Cardinality(Pending(s)) \in Nat
      BY FS_CardinalityType DEF UsageInv
    <3>4. PICK Q : Q = Pending(s) \cup {<<p, calls[p] + 1>>}
      OBVIOUS
    <3>5. IsFiniteSet(Q) /\ Cardinality(Q) <= Cardinality(Pending(s)) + 1 /\ Cardinality(Q) \in Nat
      <4>1. /\ IsFiniteSet(Q)
            /\ Cardinality(Q) = IF <<p, calls[p] + 1>> \in Pending(s)
                                THEN Cardinality(Pending(s)) ELSE Cardinality(Pending(s)) + 1
        BY ONLY <3>3, <3>4, FS_AddElement
      <4> QED BY ONLY <3>3, <4>1
    <3>6. IsFiniteSet(P) /\ Cardinality(P) <= Cardinality(Q) /\ Cardinality(P) \in Nat
      BY <3>2, <3>4, <3>5, FS_Subset, FS_CardinalityType
    <3>7. billed[s] \in Nat /\ backlog[s] \in Nat /\ served[s] \in Nat
          /\ billed[s] + backlog[s] + Cardinality(Pending(s)) <= served[s]
      BY DEF IInv, TypeOK, UsageInv
    <3>8. billed[s] + backlog[s] + Cardinality(P) <= served[s] + 1
      BY <3>3, <3>5, <3>6, <3>7
    <3> QED BY <1>0, <2>2, <3>1, <3>6, <3>8
  <2> QED BY <2>1, <2>2
<1> QED BY <1>1 DEF UsageInv

\* What a tick leaves of one service's books.
LEMMA ReportParts ==
  ASSUME IInv, NEW sent \in SUBSET Services, ReportUsage(sent), NEW s \in Services
  PROVE  /\ registry[s] = NoPort => billed'[s] = billed[s] /\ backlog'[s] = 0
         /\ registry[s] # NoPort =>
              /\ Total(s) \in Nat /\ registry[s] \in Ports /\ calls'[registry[s]] = 0
              /\ \/ billed'[s] = billed[s] + Total(s) /\ backlog'[s] = 0
                 \/ billed'[s] = billed[s] /\ backlog'[s] = Total(s)
                 \/ /\ billed'[s] = billed[s] /\ backlog'[s] = 0
                    /\ Cardinality({r \in Services : registry[r] # NoPort /\ r \notin sent
                                                     /\ Total(r) > 0}) > BacklogMax
         /\ \A p \in Ports : calls'[p] \in {calls[p], 0}
         /\ registry' = registry /\ owner' = owner /\ served' = served
<1> DEFINE reg == {r \in Services : registry[r] # NoPort}
           kept == [r \in Services |-> IF r \in reg \ sent THEN Total(r) ELSE 0]
<1>1. /\ sent \subseteq reg
      /\ billed' = [r \in Services |-> IF r \in sent THEN billed[r] + Total(r) ELSE billed[r]]
      /\ calls' = [p \in Ports |-> IF \E r \in reg : registry[r] = p THEN 0 ELSE calls[p]]
      /\ backlog' = IF Cardinality({r \in Services : kept[r] > 0}) > BacklogMax
                    THEN [r \in Services |-> 0] ELSE kept
      /\ registry' = registry /\ owner' = owner /\ served' = served
  BY DEF ReportUsage, nodeVars
<1>2. registry[s] # NoPort => registry[s] \in Ports /\ Total(s) \in Nat
  BY DEF IInv, TypeOK, Total
<1>3. {r \in Services : kept[r] > 0}
        = {r \in Services : registry[r] # NoPort /\ r \notin sent /\ Total(r) > 0}
  OBVIOUS
<1>4. backlog'[s] = kept[s]
      \/ /\ backlog'[s] = 0
         /\ Cardinality({r \in Services : registry[r] # NoPort /\ r \notin sent /\ Total(r) > 0}) > BacklogMax
  BY <1>1, <1>3
<1>5. \A p \in Ports : calls'[p] \in {calls[p], 0}
  BY <1>1
<1>6. registry[s] # NoPort => calls'[registry[s]] = 0
  BY <1>1, <1>2
<1>7. billed'[s] = IF s \in sent THEN billed[s] + Total(s) ELSE billed[s]
  BY <1>1
<1>8. kept[s] = IF s \in reg \ sent THEN Total(s) ELSE 0
  OBVIOUS
<1>9. s \in reg <=> registry[s] # NoPort
  OBVIOUS
<1>10. s \in sent => s \in reg
  BY <1>1
<1> HIDE DEF reg, kept
<1> QED BY <1>1, <1>2, <1>4, <1>5, <1>6, <1>7, <1>8, <1>9, <1>10

LEMMA ReportedUsage ==
  ASSUME LiquidAssumption, IInv, UsageInv, NEW sent \in SUBSET Services, ReportUsage(sent)
  PROVE  UsageInv'
<1>1. ASSUME NEW s \in Services
      PROVE  /\ IsFiniteSet(Pending(s)')
             /\ billed'[s] + backlog'[s] + Cardinality(Pending(s)') <= served'[s]
  <2>1. /\ owner' = owner /\ served' = served /\ \A p \in Ports : calls'[p] \in {calls[p], 0}
    BY ReportParts
  <2>2. Pending(s)' \subseteq Pending(s)
    BY <2>1 DEF Pending, IInv, TypeOK
  <2>3. CASE registry[s] = NoPort
    <3>1. billed'[s] = billed[s] /\ backlog'[s] = 0
      BY <2>3, ReportParts
    <3>2. backlog'[s] \in Nat /\ backlog'[s] <= backlog[s]
      BY <3>1 DEF IInv, TypeOK
    <3> QED BY <2>1, <2>2, <3>1, <3>2, FewerPending
  <2>4. CASE registry[s] # NoPort
    <3>0. PICK p \in Ports, n \in Nat : p = registry[s] /\ n = calls[p]
      BY <2>4 DEF IInv, TypeOK
    <3>1. PICK P, Q, C :
            /\ p = registry[s] /\ n = calls[p] /\ P = Pending(s)' /\ Q = Pending(s) /\ C = Counter(p, n)
      BY <3>0
    <3>2. owner[p] = s /\ calls'[p] = 0
      BY <2>4, <3>1, ReportParts DEF IInv, PortInv
    <3>3. C \subseteq Q
      BY <3>1, <3>2 DEF Counter, Pending
    <3>4. P \subseteq Q \ C
      BY <2>2, <3>1, <3>2 DEF Counter, Pending
    <3>5. IsFiniteSet(Q) /\ Cardinality(Q) \in Nat
      BY <3>1, FS_CardinalityType DEF UsageInv
    <3>6. IsFiniteSet(C) /\ Cardinality(C) = n
      BY <3>1, CounterSize
    <3>7. IsFiniteSet(Q \ C) /\ Cardinality(Q \ C) = Cardinality(Q) - n
      <4>1. Q \cap C = C
        BY <3>3
      <4> QED BY <3>5, <3>6, <4>1, FS_Difference
    <3>8. IsFiniteSet(P) /\ Cardinality(P) \in Nat /\ Cardinality(P) <= Cardinality(Q) - n
      BY <3>4, <3>7, FS_Subset, FS_CardinalityType
    <3>9. /\ billed[s] \in Nat /\ backlog[s] \in Nat /\ served[s] \in Nat
          /\ billed[s] + backlog[s] + Cardinality(Q) <= served[s]
          /\ Total(s) = backlog[s] + n
      BY <3>1 DEF IInv, TypeOK, UsageInv, Total
    <3>10. \/ billed'[s] = billed[s] + Total(s) /\ backlog'[s] = 0
           \/ billed'[s] = billed[s] /\ backlog'[s] \in {Total(s), 0}
      BY <2>4, ReportParts
    <3>11. billed'[s] + backlog'[s] + Cardinality(P) <= served[s]
      BY ONLY <3>5, <3>8, <3>9, <3>10, n \in Nat
    <3> QED BY <2>1, <3>1, <3>8, <3>11
  <2> QED BY <2>3, <2>4
<1> QED BY <1>1 DEF UsageInv

LEMMA RestartedUsage ==
  ASSUME LiquidAssumption, IInv, UsageInv, Restart
  PROVE  UsageInv'
<1>1. ASSUME NEW s \in Services
      PROVE  /\ IsFiniteSet(Pending(s)')
             /\ billed'[s] + backlog'[s] + Cardinality(Pending(s)') <= served'[s]
  <2>1. Pending(s)' \subseteq Pending(s)
    BY DEF Pending, Restart, LiquidAssumption
  <2>2. billed'[s] = billed[s] /\ served'[s] = served[s] /\ backlog'[s] = 0
    BY DEF Restart
  <2>3. backlog'[s] \in Nat /\ backlog'[s] <= backlog[s]
    BY <2>2 DEF IInv, TypeOK
  <2> QED BY <2>1, <2>2, <2>3, FewerPending
<1> QED BY <1>1 DEF UsageInv

LEMMA UsageStep ==
  ASSUME LiquidAssumption, IInv, UsageInv, [Next]_vars
  PROVE  UsageInv'
BY CounterSteps, KeptUsage, StartedUsage, CountedUsage, ReportedUsage, RestartedUsage

LEMMA UsageInit ==
  ASSUME LiquidAssumption, Init
  PROVE  UsageInv
<1>1. \A s \in Services : Pending(s) = {}
  BY DEF Init, Pending, LiquidAssumption
<1>2. IsFiniteSet({}) /\ Cardinality({}) = 0
  BY FS_EmptySet
<1>3. \A s \in Services : billed[s] = 0 /\ backlog[s] = 0 /\ served[s] = 0
  BY DEF Init
<1> QED BY <1>1, <1>2, <1>3 DEF UsageInv

\* What a handle has counted is part of what its service has pending.
LEMMA CountedPending ==
  ASSUME LiquidAssumption, IInv, UsageInv
  PROVE  BilledOnce
<1>1. ASSUME NEW s \in Services PROVE billed[s] + backlog[s] + Counted(s) <= served[s]
  <2>1. /\ billed[s] \in Nat /\ backlog[s] \in Nat /\ served[s] \in Nat
        /\ IsFiniteSet(Pending(s)) /\ Cardinality(Pending(s)) \in Nat
        /\ billed[s] + backlog[s] + Cardinality(Pending(s)) <= served[s]
    BY FS_CardinalityType DEF IInv, TypeOK, UsageInv
  <2>2. CASE registry[s] = NoPort
    BY <2>1, <2>2 DEF Counted
  <2>3. CASE registry[s] # NoPort
    <3>1. PICK p \in Ports, n \in Nat : p = registry[s] /\ n = calls[p] /\ owner[p] = s
      BY <2>3 DEF IInv, TypeOK, PortInv
    <3>2. Counter(p, n) \subseteq Pending(s)
      BY <3>1 DEF Counter, Pending
    <3>3. n <= Cardinality(Pending(s))
      BY <2>1, <3>2, CounterSize, FS_Subset
    <3>4. Counted(s) = n
      BY <2>3, <3>1 DEF Counted
    <3> QED BY <2>1, <3>3, <3>4
  <2> QED BY <2>2, <2>3
<1> QED BY <1>1 DEF BilledOnce

\* No invocation is billed twice, on any number of services, ports and tasks: the
\* leftovers of a failed publish, a replaced handle and a loop that outlives its
\* provision never make a tick publish more than the shims dispatched.
THEOREM InvocationsBilledOnce == Spec => []BilledOnce
<1>1. Init => IInv /\ UsageInv
  BY InitLemma, UsageInit, LiquidAssumption
<1>2. IInv /\ UsageInv /\ [Next]_vars => (IInv /\ UsageInv)'
  BY Inductive, UsageStep, LiquidAssumption
<1>3. IInv /\ UsageInv => BilledOnce
  BY CountedPending, LiquidAssumption
<1> QED BY <1>1, <1>2, <1>3, PTL DEF Spec

\* What UsageKept says of one service and one step.
KeepsUsage(s) ==
  registry[s] # NoPort /\ registry'[s] = registry[s] =>
    \/ billed'[s] + backlog'[s] + Counted(s)' >= billed[s] + backlog[s] + Counted(s)
    \/ Cardinality({r \in Services : registry[r] # NoPort /\ Total(r) > 0}) > BacklogMax

\* A port with a handle is not one serve() can bind again, and two handles never
\* share a port, so only the tick itself takes anything from a handle's counter.
LEMMA UsageKeptStep ==
  ASSUME LiquidAssumption, IInv, [Next]_vars, NEW s \in Services
  PROVE  KeepsUsage(s)
<1>1. SUFFICES ASSUME registry[s] # NoPort, registry'[s] = registry[s]
               PROVE  \/ billed'[s] + backlog'[s] + Counted(s)' >= billed[s] + backlog[s] + Counted(s)
                      \/ Cardinality({r \in Services : registry[r] # NoPort /\ Total(r) > 0}) > BacklogMax
  BY DEF KeepsUsage
<1>2. PICK p \in Ports, n \in Nat : p = registry[s] /\ n = calls[p] /\ owner[p] = s
  BY <1>1 DEF IInv, TypeOK, PortInv
<1>3. Counted(s) = n /\ Counted(s)' = calls'[p]
  BY <1>1, <1>2 DEF Counted
<1>4. billed[s] \in Nat /\ backlog[s] \in Nat
  BY DEF IInv, TypeOK
<1>5. CASE CountersKept
  <2>1. billed'[s] = billed[s] /\ backlog'[s] = backlog[s] /\ calls'[p] = n
    BY <1>2, <1>5 DEF CountersKept, usageVars
  <2> QED BY <1>3, <1>4, <2>1
<1>6. ASSUME NEW q \in Ports, Counts(q) \/ StartsCounter(q)
      PROVE  billed'[s] + backlog'[s] + Counted(s)' >= billed[s] + backlog[s] + Counted(s)
  <2>1. billed'[s] = billed[s] /\ backlog'[s] = backlog[s]
    BY <1>6 DEF Counts, StartsCounter
  <2>2. calls'[p] \in {n, n + 1}
    <3>1. StartsCounter(q) => q # p
      BY <1>2 DEF StartsCounter, LiquidAssumption
    <3> QED BY <1>2, <1>6, <3>1 DEF Counts, StartsCounter, IInv, TypeOK
  <2> QED BY <1>2, <1>3, <1>4, <2>1, <2>2
<1>7. ASSUME NEW sent \in SUBSET Services, ReportUsage(sent)
      PROVE  \/ billed'[s] + backlog'[s] + Counted(s)' >= billed[s] + backlog[s] + Counted(s)
             \/ Cardinality({r \in Services : registry[r] # NoPort /\ Total(r) > 0}) > BacklogMax
  <2>1. Total(s) = backlog[s] + n /\ calls'[p] = 0
    BY <1>1, <1>2, <1>7, ReportParts DEF Total
  <2>2. \/ billed'[s] = billed[s] + Total(s) /\ backlog'[s] = 0
        \/ billed'[s] = billed[s] /\ backlog'[s] = Total(s)
        \/ Cardinality({r \in Services : registry[r] # NoPort /\ r \notin sent /\ Total(r) > 0}) > BacklogMax
    BY <1>1, <1>7, ReportParts
  <2>3. ASSUME Cardinality({r \in Services : registry[r] # NoPort /\ r \notin sent /\ Total(r) > 0})
                 > BacklogMax
        PROVE  Cardinality({r \in Services : registry[r] # NoPort /\ Total(r) > 0}) > BacklogMax
    <3>1. PICK A \in SUBSET Services, B \in SUBSET Services :
            /\ A = {r \in Services : registry[r] # NoPort /\ r \notin sent /\ Total(r) > 0}
            /\ B = {r \in Services : registry[r] # NoPort /\ Total(r) > 0}
      OBVIOUS
    <3>2. A \subseteq B
      BY <3>1
    <3>3. IsFiniteSet(A) /\ IsFiniteSet(B) /\ Cardinality(A) <= Cardinality(B)
          /\ Cardinality(A) \in Nat /\ Cardinality(B) \in Nat
      BY <3>2, FS_Subset, FS_CardinalityType DEF LiquidAssumption
    <3>4. Cardinality(A) > BacklogMax /\ BacklogMax \in Nat
      BY <2>3, <3>1 DEF LiquidAssumption
    <3>5. Cardinality(B) > BacklogMax
      BY ONLY <3>3, <3>4
    <3> QED BY <3>1, <3>5
  <2>4. CASE billed'[s] + backlog'[s] = billed[s] + Total(s)
    BY <1>2, <1>3, <1>4, <2>1, <2>4
  <2>5. backlog[s] + n \in Nat
    BY <1>2, <1>4
  <2> QED BY <1>4, <2>1, <2>2, <2>3, <2>4, <2>5
<1>8. CASE Restart
  BY <1>1, <1>8 DEF Restart
<1> QED BY <1>5, <1>6, <1>7, <1>8, CounterSteps

\* While a service keeps its handle no counted invocation is forgotten, unless
\* more services than LIQUID_BACKLOG_MAX have something to report.
THEOREM UsageNeverForgotten == Spec => UsageKept
<1>1. Init => IInv
  BY InitLemma, LiquidAssumption
<1>2. IInv /\ [Next]_vars => IInv'
  BY Inductive, LiquidAssumption
<1>3. IInv /\ [Next]_vars =>
        [\A s \in Services :
           registry[s] # NoPort /\ registry'[s] = registry[s] =>
             \/ billed'[s] + backlog'[s] + Counted(s)' >= billed[s] + backlog[s] + Counted(s)
             \/ Cardinality({r \in Services : registry[r] # NoPort /\ Total(r) > 0}) > BacklogMax]_vars
  BY UsageKeptStep, LiquidAssumption DEF KeepsUsage
<1> QED BY <1>1, <1>2, <1>3, PTL DEF Spec, UsageKept
=============================================================================
