----------------------------- MODULE ProxyRouter -----------------------------
(***************************************************************************)
(* One life of the proxy (crates/proxy/src: router.rs, cache.rs, db.rs):   *)
(* the route cache with its subscriber and its reconciler, the path of a   *)
(* request through upstream_peer, the per-service concurrency limit and    *)
(* the Metal invocation counters with their flusher.  Pingora serves       *)
(* requests on many threads, so a request is split wherever it awaits or   *)
(* gives up a lock.                                                        *)
(*                                                                         *)
(* The rows and the events of the daemon are the environment: any change   *)
(* of a row is followed by its event, which may come late, out of order    *)
(* (two subjects, several publishers) or never (core NATS).                *)
(***************************************************************************)
EXTENDS Integers, FiniteSets, Sequences, SequencesExt

CONSTANTS
  Slugs,           \* services
  Requests,        \* bound: requests in a behaviour
  MaxAddr,         \* bound: upstream addresses
  MaxChanges,      \* bound: changes of rows in a behaviour
  MaxPermits,      \* MAX_CONCURRENT_PER_SERVICE
  BacklogMax       \* events the usage backlog keeps (1000 in the code)

ASSUME ProxyAssumption ==
  /\ Slugs # {} /\ IsFiniteSet(Slugs) /\ IsFiniteSet(Requests)
  /\ MaxAddr \in Nat \ {0} /\ MaxChanges \in Nat
  /\ MaxPermits \in Nat \ {0} /\ BacklogMax \in Nat

VARIABLES
  rows,       \* services rows: engine, status and upstream_addr
  changes,    \* changes of rows so far
  events,     \* RouteUpdated and RouteRemoved on their way
  cache,      \* RouteCache
  recon,      \* what the reconciler has read and not yet applied
  pc,         \* where a request is in upstream_peer
  slug,       \* the service a request names
  rec,        \* the RouteRecord a request has read
  peer,       \* where a request is sent
  sems,       \* slug_semaphores: a semaphore is named by the request that made it
  permit,     \* the semaphore a request holds a permit of
  mints,      \* history: semaphores made per service
  counters,   \* metal_counters: invocations not yet flushed
  counted,    \* history: requests counted as Metal invocations
  backlog,    \* usage events whose publish failed
  billed      \* invocations published per service

cacheVars == <<cache, recon>>
reqVars   == <<pc, slug, rec, peer>>
semVars   == <<sems, permit, mints>>
meterVars == <<counters, counted, backlog, billed>>
vars == <<rows, changes, events, cacheVars, reqVars, semVars, meterVars>>

Addrs     == 1 .. MaxAddr
None      == 0
Api       == -1          \* api_upstream
NoCounter == -1
Statuses  == {"running", "draining", "stopped", "off"}
Engines   == {"metal", "liquid"}
RouteRecords == [engine : Engines, st : Statuses, addr : Addrs \cup {None}]
Record(g, st, a) == [engine |-> g, st |-> st, addr |-> a]
Blank     == Record("metal", "off", None)
Unread    == [s \in {} |-> None]
SomeSlug  == CHOOSE s \in Slugs : TRUE

\* SELECT slug, upstream_addr WHERE status = 'running' AND upstream_addr IS NOT NULL.
Running == {s \in Slugs : rows[s].st = "running" /\ rows[s].addr # None}
Authoritative == [s \in Slugs |-> IF s \in Running THEN rows[s].addr ELSE None]

\* warm() fills the cache from the rows, or times out.
Init ==
  /\ rows \in [Slugs -> {Record(g, "off", None) : g \in Engines}
                      \cup {Record(g, "stopped", None) : g \in Engines}
                      \cup {Record(g, "running", 1) : g \in Engines}]
  /\ \A s, t \in Slugs : s # t /\ rows[s].addr # None => rows[s].addr # rows[t].addr
  /\ cache \in {Authoritative, [s \in Slugs |-> None]}
  /\ changes = 0
  /\ events = {}
  /\ recon = Unread
  /\ pc = [r \in Requests |-> "idle"]
  /\ slug = [r \in Requests |-> SomeSlug]
  /\ rec = [r \in Requests |-> Blank]
  /\ peer = [r \in Requests |-> None]
  /\ sems = [s \in Slugs |-> {}]
  /\ permit = [r \in Requests |-> {}]
  /\ mints = [s \in Slugs |-> 0]
  /\ counters = [s \in Slugs |-> NoCounter]
  /\ counted = {}
  /\ backlog = <<>>
  /\ billed = [s \in Slugs |-> 0]

-----------------------------------------------------------------------------
(* The rows, and the events that tell of them *)

Change(s, st, a, told) ==
  /\ changes < MaxChanges
  /\ changes' = changes + 1
  /\ rows' = [rows EXCEPT ![s] = [@ EXCEPT !.st = st, !.addr = a]]
  /\ events' = events \cup {[n |-> changes, slug |-> s, addr |-> told]}
  /\ UNCHANGED <<cacheVars, reqVars, semVars, meterVars>>

\* A provision or a wake writes the row, then publishes RouteUpdated.
RowUp(s) ==
  \E a \in Addrs :
    /\ \A t \in Slugs : rows[t].addr # a
    /\ Change(s, "running", a, a)

\* A stop, an idle timeout, a crash or the end of a drain clears upstream_addr;
\* RouteRemoved follows.
RowDown(s) ==
  /\ rows[s].addr # None
  /\ \E st \in {"stopped", "off"} : Change(s, st, None, None)

\* A suspension drains: the address stays in the row, RouteRemoved follows.
RowDrain(s) ==
  /\ rows[s].st = "running"
  /\ Change(s, "draining", rows[s].addr, None)

-----------------------------------------------------------------------------
(* cache.rs *)

\* subscribe_loop: RouteUpdated inserts, RouteRemoved removes.
ApplyEvent(e) ==
  /\ e \in events
  /\ events' = events \ {e}
  /\ cache' = [cache EXCEPT ![e.slug] = e.addr]
  /\ UNCHANGED <<rows, changes, recon, reqVars, semVars, meterVars>>

\* The reconciler reads the running rows ...
ReconcileRead ==
  /\ recon = Unread
  /\ recon' = Authoritative
  /\ UNCHANGED <<rows, changes, events, cache, reqVars, semVars, meterVars>>

\* Mutant: routes that are not running any more are not removed.
ReconcileNoRetain ==
  /\ recon # Unread
  /\ cache' = [s \in Slugs |-> IF recon[s] # None THEN recon[s] ELSE cache[s]]
  /\ recon' = Unread
  /\ UNCHANGED <<rows, changes, events, reqVars, semVars, meterVars>>

\* ... and then, under the lock, inserts or updates them and removes the others.
ReconcileApply ==
  /\ recon # Unread
  /\ cache' = recon
  /\ recon' = Unread
  /\ UNCHANGED <<rows, changes, events, reqVars, semVars, meterVars>>

-----------------------------------------------------------------------------
(* A request: upstream_peer *)

Goto(r, p) == pc' = [pc EXCEPT ![r] = p]

Holders(m) == {r \in Requests : permit[r] = {m}}

\* Mutant: a permit is handed out without looking at how many are taken.
PermitIgnored(m) == TRUE

\* Semaphore::try_acquire_owned.
PermitFree(m) == Cardinality(Holders(m)) < MaxPermits

\* try_acquire_concurrency: the service's semaphore is there and has a permit,
\* or has none (503) ...
Enter(r, s) ==
  /\ pc[r] = "idle"
  /\ slug' = [slug EXCEPT ![r] = s]
  /\ IF sems[s] = {}
     THEN Goto(r, "mint") /\ UNCHANGED permit
     ELSE \E m \in sems[s] :
            IF PermitFree(m)
            THEN Goto(r, "check") /\ permit' = [permit EXCEPT ![r] = {m}]
            ELSE Goto(r, "done") /\ UNCHANGED permit
  /\ UNCHANGED <<rows, changes, events, cacheVars, rec, peer, sems, mints, meterVars>>

\* ... or was not there when the read lock was given up: a new one is inserted,
\* over whatever another request has inserted since.
MintSemaphore(r) ==
  /\ pc[r] = "mint"
  /\ sems' = [sems EXCEPT ![slug[r]] = {r}]
  /\ mints' = [mints EXCEPT ![slug[r]] = @ + 1]
  /\ permit' = [permit EXCEPT ![r] = {r}]
  /\ Goto(r, "check")
  /\ UNCHANGED <<rows, changes, events, cacheVars, slug, rec, peer, meterVars>>

\* An existing counter is incremented.
Count(r) ==
  /\ counters' = [counters EXCEPT ![slug[r]] = @ + 1]
  /\ counted' = counted \cup {r}
  /\ UNCHANGED <<backlog, billed>>

\* Fast path: a cache hit, counted when the service has a counter.
CacheHit(r) ==
  /\ pc[r] = "check"
  /\ cache[slug[r]] # None
  /\ peer' = [peer EXCEPT ![r] = cache[slug[r]]]
  /\ IF counters[slug[r]] # NoCounter THEN Count(r) ELSE UNCHANGED meterVars
  /\ Goto(r, "routed")
  /\ UNCHANGED <<rows, changes, events, cacheVars, slug, rec, semVars>>

CacheMiss(r) ==
  /\ pc[r] = "check"
  /\ cache[slug[r]] = None
  /\ Goto(r, "lookup")
  /\ UNCHANGED <<rows, changes, events, cacheVars, slug, rec, peer, semVars, meterVars>>

\* lookup_route reads the row, whatever its status, or fails (fallback: API).
lookup_route(r) ==
  /\ pc[r] = "lookup"
  /\ \/ rec' = [rec EXCEPT ![r] = rows[slug[r]]] /\ Goto(r, "found") /\ UNCHANGED peer
     \/ peer' = [peer EXCEPT ![r] = Api] /\ Goto(r, "routed") /\ UNCHANGED rec
  /\ UNCHANGED <<rows, changes, events, cacheVars, slug, semVars, meterVars>>

\* The record is not used after the branch it decides.
Forget(r) == rec' = [rec EXCEPT ![r] = Blank]

\* The record has an address: it is cached and, for Metal, counted.
Found(r) ==
  /\ pc[r] = "found"
  /\ rec[r].addr # None
  /\ cache' = [cache EXCEPT ![slug[r]] = rec[r].addr]
  /\ peer' = [peer EXCEPT ![r] = rec[r].addr]
  /\ Goto(r, IF rec[r].engine = "metal" THEN "count" ELSE "routed")
  /\ Forget(r)
  /\ UNCHANGED <<rows, changes, events, recon, slug, semVars, meterVars>>

\* A stopped Liquid service.  A Metal one would have to be 'ready' with a
\* snapshot_key, which no provision writes.
Wakeable(record) == record.st = "stopped" /\ record.engine = "liquid"

\* Cold: the service is asked to wake (publish_wake) and the request held.
Cold(r) ==
  /\ pc[r] = "found"
  /\ rec[r].addr = None
  /\ Wakeable(rec[r])
  /\ Goto(r, "wait")
  /\ Forget(r)
  /\ UNCHANGED <<rows, changes, events, cacheVars, slug, peer, semVars, meterVars>>

\* No upstream_addr or an unknown slug: the API answers.
Fallback(r) ==
  /\ pc[r] = "found"
  /\ rec[r].addr = None
  /\ ~Wakeable(rec[r])
  /\ peer' = [peer EXCEPT ![r] = Api]
  /\ Goto(r, "routed")
  /\ Forget(r)
  /\ UNCHANGED <<rows, changes, events, cacheVars, slug, semVars, meterVars>>

\* wait_for_warm polls the cache until RouteUpdated or the reconciler fills it ...
Warmed(r) ==
  /\ pc[r] = "wait"
  /\ cache[slug[r]] # None
  /\ peer' = [peer EXCEPT ![r] = cache[slug[r]]]
  /\ Goto(r, "count")
  /\ UNCHANGED <<rows, changes, events, cacheVars, slug, rec, semVars, meterVars>>

\* Mutant: wait_for_warm has no deadline.
WaitsOn(r) == FALSE /\ UNCHANGED vars

\* ... or the deadline passes (503).
WakeTimeout(r) ==
  /\ pc[r] = "wait"
  /\ cache[slug[r]] = None
  /\ Goto(r, "done")
  /\ permit' = [permit EXCEPT ![r] = {}]
  /\ UNCHANGED <<rows, changes, events, cacheVars, slug, rec, peer, sems, mints, meterVars>>

\* count_metal_invocation: under the read lock the counter is there ...
CountKnown(r) ==
  /\ pc[r] = "count"
  /\ counters[slug[r]] # NoCounter
  /\ Count(r)
  /\ Goto(r, "routed")
  /\ UNCHANGED <<rows, changes, events, cacheVars, slug, rec, peer, semVars>>

\* ... or it is not and the lock is given up ...
CountUnknown(r) ==
  /\ pc[r] = "count"
  /\ counters[slug[r]] = NoCounter
  /\ Goto(r, "counter")
  /\ UNCHANGED <<rows, changes, events, cacheVars, slug, rec, peer, semVars, meterVars>>

\* ... before a new counter with one invocation is inserted.
MintCounter(r) ==
  /\ pc[r] = "counter"
  /\ counters' = [counters EXCEPT ![slug[r]] = 1]
  /\ counted' = counted \cup {r}
  /\ Goto(r, "routed")
  /\ UNCHANGED <<rows, changes, events, cacheVars, slug, rec, peer, semVars, backlog, billed>>

\* fail_to_connect evicts the route; logging ends the request as it does after
\* an answer, and the permit is dropped with the context.
Respond(r) ==
  /\ pc[r] = "routed"
  /\ cache' \in {cache, [cache EXCEPT ![slug[r]] = None]}
  /\ Goto(r, "done")
  /\ permit' = [permit EXCEPT ![r] = {}]
  /\ peer' = [peer EXCEPT ![r] = None]
  /\ UNCHANGED <<rows, changes, events, recon, slug, rec, sems, mints, meterVars>>

-----------------------------------------------------------------------------
(* The usage flusher *)

\* The invocations of a service that a log of usage events tells of, one by one:
\* the position of the event and a number up to its count.
Units(log, s) == UNION {{i} \X (1 .. log[i].inv) : i \in {j \in DOMAIN log : log[j].slug = s}}
Sum(log, s) == Cardinality(Units(log, s))

\* The events of the counters, swapped to zero.
Fresh == [i \in 1 .. Cardinality({s \in Slugs : counters[s] > 0}) |->
            LET s == SetToSeq({t \in Slugs : counters[t] > 0})[i]
            IN  [slug |-> s, inv |-> counters[s]]]

\* backlog.drain(..len - 1000): the oldest events are dropped.
Capped(log) == IF Len(log) > BacklogMax
               THEN SubSeq(log, Len(log) - BacklogMax + 1, Len(log)) ELSE log

\* The one way to list a set of positions in order.
InOrder(F) == {keep \in [1 .. Cardinality(F) -> F] :
                 \A i, j \in DOMAIN keep : i < j => keep[i] < keep[j]}

\* Mutant: the events that were published stay in the backlog too.
FlushKeeps ==
  LET log == backlog \o Fresh IN
  /\ log # <<>>
  /\ backlog' = Capped(log)
  /\ billed' = [s \in Slugs |-> billed[s] + Sum(log, s)]
  /\ counters' = [s \in Slugs |-> IF counters[s] > 0 THEN 0 ELSE counters[s]]
  /\ UNCHANGED <<rows, changes, events, cacheVars, reqVars, semVars, counted>>

\* The backlog first and then the fresh events are published, each one with
\* success or not; what failed is the new backlog.
Flush ==
  LET log == backlog \o Fresh IN
  /\ log # <<>>
  /\ \E F \in SUBSET DOMAIN log : \E keep \in InOrder(F) :
       LET failed == [i \in DOMAIN keep |-> log[keep[i]]] IN
       /\ backlog' = Capped(failed)
       /\ billed' = [s \in Slugs |-> billed[s] + Sum(log, s) - Sum(failed, s)]
  /\ counters' = [s \in Slugs |-> IF counters[s] > 0 THEN 0 ELSE counters[s]]
  /\ UNCHANGED <<rows, changes, events, cacheVars, reqVars, semVars, counted>>

-----------------------------------------------------------------------------

Serve(r) ==
  \/ MintSemaphore(r) \/ CacheHit(r) \/ CacheMiss(r) \/ lookup_route(r)
  \/ Found(r) \/ Cold(r) \/ Fallback(r) \/ Warmed(r) \/ WakeTimeout(r)
  \/ CountKnown(r) \/ CountUnknown(r) \/ MintCounter(r) \/ Respond(r)

Reconcile == ReconcileRead \/ ReconcileApply

Next ==
  \/ \E s \in Slugs : RowUp(s) \/ RowDown(s) \/ RowDrain(s)
  \/ \E e \in events : ApplyEvent(e)
  \/ Reconcile
  \/ \E r \in Requests, s \in Slugs : Enter(r, s)
  \/ \E r \in Requests : Serve(r)
  \/ Flush

\* The runtime polls every request and the reconciler ticks for ever; nothing is
\* assumed of the daemon, of NATS or of clients.
Spec ==
  /\ Init /\ [][Next]_vars
  /\ \A r \in Requests : WF_vars(Serve(r))
  /\ WF_vars(Reconcile)

-----------------------------------------------------------------------------
(* Properties *)

TypeOK ==
  /\ rows \in [Slugs -> RouteRecords]
  /\ changes \in 0 .. MaxChanges
  /\ events \subseteq [n : 0 .. MaxChanges, slug : Slugs, addr : Addrs \cup {None}]
  /\ cache \in [Slugs -> Addrs \cup {None}]
  /\ recon = Unread \/ recon \in [Slugs -> Addrs \cup {None}]
  /\ pc \in [Requests -> {"idle", "mint", "check", "lookup", "found", "wait", "count",
                         "counter", "routed", "done"}]
  /\ slug \in [Requests -> Slugs]
  /\ rec \in [Requests -> RouteRecords]
  /\ peer \in [Requests -> Addrs \cup {None, Api}]
  /\ sems \in [Slugs -> SUBSET Requests]
  /\ permit \in [Requests -> SUBSET Requests]
  /\ mints \in [Slugs -> Nat]
  /\ counters \in [Slugs -> Nat \cup {NoCounter}]
  /\ counted \subseteq Requests
  /\ backlog \in Seq([slug : Slugs, inv : Nat])
  /\ billed \in [Slugs -> Nat]

InFlight(s) == {r \in Requests : slug[r] = s /\ permit[r] # {}}

\* The per-service limit is exceeded only by first requests that race to make
\* the service's semaphore: with one semaphore made, never more than
\* MAX_CONCURRENT_PER_SERVICE requests are in flight.
LimitPerMint == \A s \in Slugs : Cardinality(InFlight(s)) <= MaxPermits * mints[s]

\* The limit itself: a service never has more than MAX_CONCURRENT_PER_SERVICE
\* requests at a time.
ServiceLimit == \A s \in Slugs : Cardinality(InFlight(s)) <= MaxPermits

Counter(s) == IF counters[s] = NoCounter THEN 0 ELSE counters[s]

\* No invocation is billed twice: what is published, waits in the backlog or is
\* still in the counter never exceeds the requests that were counted, whatever
\* publishes fail and are retried.
BilledAtMostOnce ==
  \A s \in Slugs : billed[s] + Sum(backlog, s) + Counter(s)
                     <= Cardinality({r \in counted : slug[r] = s})

\* Every request that is sent to a Metal VM is counted for billing.
MetalCounted ==
  \A r \in Requests : /\ pc[r] = "routed" /\ rows[slug[r]].engine = "metal"
                      /\ peer[r] # Api
                      => r \in counted

\* A Liquid request is not counted as a Metal invocation: the daemon counts it.
LiquidNotMetered == \A r \in counted : rows[slug[r]].engine = "metal"

\* A request that finds a service draining is not sent to it ("proxy drops new
\* requests").
DrainingDropped ==
  [][\A r \in Requests : /\ pc[r] = "found" /\ rec[r].st = "draining"
                         => peer'[r] \notin Addrs]_vars

\* Every request ends, a held one too: with an answer, the fallback or 503.  As
\* requests are finitely many, none under way is then left for good.
RequestsEnd == <>[](\A r \in Requests : pc[r] \in {"idle", "done"})

\* Once the rows stay as they are, the cache comes to agree with them for good:
\* no late event, stale lookup or old snapshot of the reconciler leaves a route
\* to an address the service no longer has.
CacheConverges == <>[](\A s \in Slugs : cache[s] \in {None, rows[s].addr})
=============================================================================
