------------------------------- MODULE Domains -------------------------------
(***************************************************************************)
(* Custom domains: the handlers of api/src/routes/domains.rs, the ACME     *)
(* certificate manager of every API instance (api/src/cert_manager.rs) and *)
(* the domain cache of a proxy (proxy/src/cache.rs, router.rs).            *)
(*                                                                         *)
(* The database, the DNS, the ACME server and the Vault are each reached   *)
(* by an await: every step below is one of those round trips.              *)
(***************************************************************************)
EXTENDS Naturals, FiniteSets

CONSTANTS
  Names,       \* domain names customers bring
  Services,    \* services they are added to
  Requests,    \* bound: verify_domain requests in progress
  Lookups,     \* bound: proxied requests in progress
  Managers,    \* certificate managers, one per API instance
  MaxRows,     \* bound: rows ever inserted into domains
  MaxDns,      \* bound: changes of DNS records
  CacheMax,    \* DOMAIN_CACHE_MAX
  NoSvc, NoName

ASSUME DomainsAssumption ==
  /\ NoSvc \notin Services /\ NoName \notin Names
  /\ MaxRows \in Nat /\ MaxDns \in Nat /\ CacheMax \in Nat

VARIABLES
  rows,      \* the domains table by id: name, svc, live, verified, tls, cert (domain_certs)
  next,      \* the next id
  deleted,   \* services with deleted_at set
  dns,       \* the record a name's owner publishes: nothing, a CNAME or a TXT record
  shown,     \* history: records ever published
  request,   \* verify_domain requests
  manager,   \* the certificate managers
  challenge, \* acme_challenges: managers whose token is in the table, live or left behind
  vault,     \* names with a certificate and key under platform/certs
  dcache,    \* the proxy's domain cache
  lookup,    \* proxied requests between their query and their insert
  recon      \* the domain reconciler between its query and its retain

apiVars   == <<rows, next, deleted>>
dnsVars   == <<dns, shown>>
acmeVars  == <<manager, challenge, vault>>
proxyVars == <<dcache, lookup, recon>>
vars == <<apiVars, dnsVars, request, acmeVars, proxyVars>>

Ids == 1 .. MaxRows
NoRecord == [kind |-> "none", svc |-> NoSvc, id |-> 0]
Records == {NoRecord} \cup [kind : {"cname"}, svc : Services, id : {0}]
                      \cup [kind : {"txt"}, svc : {NoSvc}, id : Ids]
NoRow == [name |-> NoName, svc |-> NoSvc, live |-> FALSE, verified |-> FALSE,
          tls |-> "pending", cert |-> "none"]
NoRequest == [at |-> "idle", id |-> 0]
NoBatch == [at |-> "idle", id |-> 0, todo |-> {}]
NoLookup == [name |-> NoName, svc |-> NoSvc]
NoRecon == [at |-> "idle", valid |-> {}]

\* The query of lookup_domain, warm_domains and the domain reconciler.
Routable(i) == rows[i].live /\ rows[i].verified /\ rows[i].svc \notin deleted

Init ==
  /\ rows = [i \in Ids |-> NoRow] /\ next = 1 /\ deleted = {}
  /\ dns = [n \in Names |-> NoRecord] /\ shown = {}
  /\ request = [r \in Requests |-> NoRequest]
  /\ manager = [m \in Managers |-> NoBatch] /\ challenge = {} /\ vault = {}
  /\ dcache = [n \in Names |-> NoSvc]
  /\ lookup = [q \in Lookups |-> NoLookup] /\ recon = NoRecon

-----------------------------------------------------------------------------
(* The customer and the API *)

\* The owner of a name edits its zone: a CNAME to a service's platform name, or a
\* TXT record with the token of a row.
SetDns(n, rec) ==
  /\ Cardinality(shown) < MaxDns /\ <<n, rec>> \notin shown
  /\ rec.kind = "txt" => rec.id < next
  /\ dns' = [dns EXCEPT ![n] = rec]
  /\ shown' = shown \cup {<<n, rec>>}
  /\ UNCHANGED <<apiVars, request, acmeVars, proxyVars>>

\* domains.domain is UNIQUE, whoever owns the row and whatever became of its service.
add_domain(s, n) ==
  /\ s \notin deleted
  /\ next \in Ids
  /\ \A i \in Ids : ~(rows[i].live /\ rows[i].name = n)
  /\ rows' = [rows EXCEPT ![next] = [name |-> n, svc |-> s, live |-> TRUE, verified |-> FALSE,
                                     tls |-> "pending", cert |-> "none"]]
  /\ next' = next + 1
  /\ UNCHANGED <<deleted, dnsVars, request, acmeVars, proxyVars>>

\* verify_domain reads the row, asks for the CNAME, then for the TXT record, ...
VerifyRead(r, i) ==
  /\ request[r].at = "idle"
  /\ rows[i].live /\ rows[i].svc \notin deleted
  /\ request' = [request EXCEPT ![r] = [at |-> "cname", id |-> i]]
  /\ UNCHANGED <<apiVars, dnsVars, acmeVars, proxyVars>>

VerifyCname(r) ==
  LET d == rows[request[r].id] IN
  /\ request[r].at = "cname"
  /\ request' = [request EXCEPT ![r].at =
       IF dns[d.name].kind = "cname" /\ dns[d.name].svc = d.svc THEN "update" ELSE "txt"]
  /\ UNCHANGED <<apiVars, dnsVars, acmeVars, proxyVars>>

VerifyTxt(r) ==
  LET d == rows[request[r].id] IN
  /\ request[r].at = "txt"
  /\ request' = [request EXCEPT ![r] =
       IF dns[d.name].kind = "txt" /\ dns[d.name].id = request[r].id
       THEN [@ EXCEPT !.at = "update"] ELSE NoRequest]
  /\ UNCHANGED <<apiVars, dnsVars, acmeVars, proxyVars>>

\* Mutant: the update is keyed by the domain name instead of the id.
VerifyByName(r) ==
  /\ request[r].at = "update"
  /\ rows' = [i \in Ids |-> IF rows[i].live /\ rows[i].name = rows[request[r].id].name
                            THEN [rows[i] EXCEPT !.verified = TRUE] ELSE rows[i]]
  /\ request' = [request EXCEPT ![r] = NoRequest]
  /\ UNCHANGED <<next, deleted, dnsVars, acmeVars, proxyVars>>

\* ... and updates the row it read, if that row is still there.
VerifyUpdate(r) ==
  /\ request[r].at = "update"
  /\ rows' = IF rows[request[r].id].live
             THEN [rows EXCEPT ![request[r].id].verified = TRUE] ELSE rows
  /\ request' = [request EXCEPT ![r] = NoRequest]
  /\ UNCHANGED <<next, deleted, dnsVars, acmeVars, proxyVars>>

\* The row goes, and its domain_certs row with it (ON DELETE CASCADE); what the
\* Vault holds under the name stays.
remove_domain(i) ==
  /\ rows[i].live /\ rows[i].svc \notin deleted
  /\ rows' = [rows EXCEPT ![i].live = FALSE, ![i].cert = "none"]
  /\ UNCHANGED <<next, deleted, dnsVars, request, acmeVars, proxyVars>>

\* A soft delete: the service's domains rows keep their names.
delete_service(s) ==
  /\ s \notin deleted
  /\ deleted' = deleted \cup {s}
  /\ UNCHANGED <<rows, next, dnsVars, request, acmeVars, proxyVars>>

-----------------------------------------------------------------------------
(* The certificate manager *)

Goto(m, at) == manager' = [manager EXCEPT ![m].at = at]

NeedsCert(i) ==
  /\ rows[i].live /\ rows[i].verified
  /\ rows[i].tls # "provisioning" /\ rows[i].cert # "fresh"

\* run_once reads its batch; nothing claims the rows until each one's turn.
SelectBatch(m) ==
  /\ manager[m].at = "idle"
  /\ \E i \in Ids : NeedsCert(i)
  /\ manager' = [manager EXCEPT ![m] = [at |-> "mark", id |-> 0, todo |-> {i \in Ids : NeedsCert(i)}]]
  /\ UNCHANGED <<apiVars, dnsVars, request, challenge, vault, proxyVars>>

\* ORDER BY created_at: the row is marked whatever happened to it since.
MarkProvisioning(m) ==
  /\ manager[m].at = "mark"
  /\ \E i \in manager[m].todo :
       /\ \A j \in manager[m].todo : i <= j
       /\ rows' = [rows EXCEPT ![i].tls = IF rows[i].live THEN "provisioning" ELSE @]
       /\ manager' = [manager EXCEPT ![m] = [at |-> "order", id |-> i, todo |-> @.todo \ {i}]]
  /\ UNCHANGED <<next, deleted, dnsVars, request, challenge, vault, proxyVars>>

\* The order is placed and its token written before the challenge is called ready.
WriteChallenge(m) ==
  /\ manager[m].at = "order"
  /\ challenge' = challenge \cup {<<m, "live">>}
  /\ Goto(m, "ready")
  /\ UNCHANGED <<apiVars, dnsVars, request, vault, proxyVars>>

SetReady(m) ==
  /\ manager[m].at = "ready"
  /\ Goto(m, "poll")
  /\ UNCHANGED <<apiVars, dnsVars, request, challenge, vault, proxyVars>>

\* The server fetched the key authorization and the order is Ready or Valid.
acme_challenge(m) ==
  /\ manager[m].at = "poll"
  /\ <<m, "live">> \in challenge
  /\ Goto(m, "finalize")
  /\ challenge' = challenge \ {<<m, "live">>}
  /\ UNCHANGED <<apiVars, dnsVars, request, vault, proxyVars>>

\* Key pair, CSR, finalize, download, and the pair is stored under the name.
StoreCert(m) ==
  /\ manager[m].at = "finalize"
  /\ vault' = vault \cup {rows[manager[m].id].name}
  /\ Goto(m, "upsert")
  /\ UNCHANGED <<apiVars, dnsVars, request, challenge, proxyVars>>

\* Mutant: the status is set before the certificate is recorded.
ActiveFirst(m) ==
  /\ manager[m].at = "upsert"
  /\ rows[manager[m].id].live
  /\ rows' = [rows EXCEPT ![manager[m].id].tls = "active"]
  /\ Goto(m, "active")
  /\ UNCHANGED <<next, deleted, dnsVars, request, challenge, vault, proxyVars>>

\* The foreign key refuses a certificate for a row that was removed meanwhile.
UpsertCert(m) ==
  /\ manager[m].at = "upsert"
  /\ rows[manager[m].id].live
  /\ rows' = [rows EXCEPT ![manager[m].id].cert = "fresh"]
  /\ Goto(m, "active")
  /\ UNCHANGED <<next, deleted, dnsVars, request, challenge, vault, proxyVars>>

\* The next row of the batch, or the challenge GC and the next tick.
After(m) == manager' = [manager EXCEPT ![m] =
                          IF @.todo = {} THEN [at |-> "gc", id |-> 0, todo |-> {}]
                                         ELSE [@ EXCEPT !.at = "mark", !.id = 0]]

SetActive(m) ==
  /\ manager[m].at = "active"
  /\ rows' = [rows EXCEPT ![manager[m].id].tls = IF rows[manager[m].id].live THEN "active" ELSE @]
  /\ After(m)
  /\ UNCHANGED <<next, deleted, dnsVars, request, challenge, vault, proxyVars>>

\* An error anywhere in provision_cert: Invalid and the 90 s deadline clean the
\* challenge up, an error that propagates with ? leaves it behind.
ProvisionFails(m) ==
  /\ manager[m].at \in {"order", "ready", "poll", "finalize", "upsert", "active"}
  /\ Goto(m, "error")
  /\ challenge' \in {challenge \ {<<m, "live">>},
                     IF <<m, "live">> \in challenge
                     THEN (challenge \ {<<m, "live">>}) \cup {<<m, "left">>} ELSE challenge}
  /\ UNCHANGED <<apiVars, dnsVars, request, vault, proxyVars>>

MarkError(m) ==
  /\ manager[m].at = "error"
  /\ rows' = [rows EXCEPT ![manager[m].id].tls = IF rows[manager[m].id].live THEN "error" ELSE @]
  /\ After(m)
  /\ UNCHANGED <<next, deleted, dnsVars, request, challenge, vault, proxyVars>>

\* gc_acme_challenges deletes what is older than 10 minutes: an attempt is over
\* after 90 seconds, so only what was left behind.
GcChallenges(m) ==
  /\ manager[m].at = "gc"
  /\ \E gone \in SUBSET {c \in challenge : c[2] = "left"} : challenge' = challenge \ gone
  /\ manager' = [manager EXCEPT ![m] = NoBatch]
  /\ UNCHANGED <<apiVars, dnsVars, request, vault, proxyVars>>

\* The API instance stops, or a pool error ends the cycle before the row is
\* marked: the row stays 'provisioning', which no query selects again.
ManagerStops(m) ==
  /\ manager[m].at # "idle"
  /\ manager' = [manager EXCEPT ![m] = NoBatch]
  /\ challenge' = {IF c = <<m, "live">> THEN <<m, "left">> ELSE c : c \in challenge}
  /\ UNCHANGED <<apiVars, dnsVars, request, vault, proxyVars>>

\* Less than 30 days are left.
CertAges(i) ==
  /\ rows[i].cert = "fresh"
  /\ rows' = [rows EXCEPT ![i].cert = "expiring"]
  /\ UNCHANGED <<next, deleted, dnsVars, request, acmeVars, proxyVars>>

-----------------------------------------------------------------------------
(* The proxy *)

\* A request for a name that is not cached: lookup_domain finds the service of
\* its verified row.  (A name without one is routed by its first label.)
lookup_domain(q, n) ==
  /\ lookup[q] = NoLookup /\ dcache[n] = NoSvc
  /\ \E i \in Ids :
       /\ Routable(i) /\ rows[i].name = n
       /\ lookup' = [lookup EXCEPT ![q] = [name |-> n, svc |-> rows[i].svc]]
  /\ UNCHANGED <<apiVars, dnsVars, request, acmeVars, dcache, recon>>

\* The answer is cached unless the cache is full, whatever changed since.
CacheInsert(q) ==
  /\ lookup[q] # NoLookup
  /\ dcache' = IF Cardinality({n \in Names : dcache[n] # NoSvc}) < CacheMax
               THEN [dcache EXCEPT ![lookup[q].name] = lookup[q].svc] ELSE dcache
  /\ lookup' = [lookup EXCEPT ![q] = NoLookup]
  /\ UNCHANGED <<apiVars, dnsVars, request, acmeVars, recon>>

\* Mutant: the reconciler asks for the rows and forgets services.deleted_at.
ReconcileDeleted ==
  /\ recon.at = "idle"
  /\ recon' = [at |-> "retain", valid |-> {rows[i].name : i \in {j \in Ids : rows[j].live
                                                                             /\ rows[j].verified}}]
  /\ UNCHANGED <<apiVars, dnsVars, request, acmeVars, dcache, lookup>>

\* The domain reconciler reads the routable names and then keeps only those.
ReconcileQuery ==
  /\ recon.at = "idle"
  /\ recon' = [at |-> "retain", valid |-> {rows[i].name : i \in {j \in Ids : Routable(j)}}]
  /\ UNCHANGED <<apiVars, dnsVars, request, acmeVars, dcache, lookup>>

ReconcileRetain ==
  /\ recon.at = "retain"
  /\ dcache' = [n \in Names |-> IF n \in recon.valid THEN dcache[n] ELSE NoSvc]
  /\ recon' = NoRecon
  /\ UNCHANGED <<apiVars, dnsVars, request, acmeVars, lookup>>

\* A restarted proxy fills its cache from the same query, without the cap.
warm_domains ==
  /\ dcache' = [n \in Names |->
                 IF \E i \in Ids : Routable(i) /\ rows[i].name = n
                 THEN rows[CHOOSE i \in Ids : Routable(i) /\ rows[i].name = n].svc ELSE NoSvc]
  /\ lookup' = [q \in Lookups |-> NoLookup] /\ recon' = NoRecon
  /\ UNCHANGED <<apiVars, dnsVars, request, acmeVars>>

-----------------------------------------------------------------------------

Api ==
  \/ \E n \in Names, rec \in Records : SetDns(n, rec)
  \/ \E s \in Services, n \in Names : add_domain(s, n)
  \/ \E i \in Ids : remove_domain(i) \/ CertAges(i)
  \/ \E s \in Services : delete_service(s)
  \/ \E r \in Requests : \/ \E i \in Ids : VerifyRead(r, i)
                         \/ VerifyCname(r) \/ VerifyTxt(r) \/ VerifyUpdate(r)

CertManager(m) ==
  \/ SelectBatch(m) \/ MarkProvisioning(m) \/ WriteChallenge(m) \/ SetReady(m)
  \/ acme_challenge(m) \/ StoreCert(m) \/ UpsertCert(m) \/ SetActive(m)
  \/ ProvisionFails(m) \/ MarkError(m) \/ GcChallenges(m) \/ ManagerStops(m)

Reconciler == ReconcileQuery \/ ReconcileRetain

Proxy ==
  \/ \E q \in Lookups : CacheInsert(q) \/ \E n \in Names : lookup_domain(q, n)
  \/ Reconciler \/ warm_domains

Next == Api \/ Proxy \/ \E m \in Managers : CertManager(m)

\* The reconciler thread runs on its interval.
Spec == Init /\ [][Next]_vars /\ WF_vars(Reconciler)

-----------------------------------------------------------------------------
(* Properties *)

RowRecords == [name : Names \cup {NoName}, svc : Services \cup {NoSvc},
               live : BOOLEAN, verified : BOOLEAN,
               tls : {"pending", "provisioning", "active", "error"},
               cert : {"none", "fresh", "expiring"}]
RequestRecords == [at : {"idle", "cname", "txt", "update"}, id : Ids \cup {0}]
ManagerRecords == [at : {"idle", "mark", "order", "ready", "poll", "finalize",
                         "upsert", "active", "error", "gc"},
                   id : Ids \cup {0}, todo : SUBSET Ids]

TypeOK ==
  /\ rows \in [Ids -> RowRecords]
  /\ next \in 1 .. (MaxRows + 1) /\ deleted \subseteq Services
  /\ dns \in [Names -> Records] /\ shown \subseteq Names \X Records
  /\ request \in [Requests -> RequestRecords]
  /\ manager \in [Managers -> ManagerRecords]
  /\ challenge \subseteq Managers \X {"live", "left"}
  /\ vault \subseteq Names \cup {NoName}
  /\ dcache \in [Names -> Services \cup {NoSvc}]
  /\ lookup \in [Lookups -> [name : Names \cup {NoName}, svc : Services \cup {NoSvc}]]
  /\ recon \in [at : {"idle", "retain"}, valid : SUBSET (Names \cup {NoName})]

\* The owner of n once published a record that names service s, or the token of a
\* row that s holds.
Proved(n, s) ==
  \E c \in shown : /\ c[1] = n
                   /\ \/ c[2].kind = "cname" /\ c[2].svc = s
                      \/ c[2].kind = "txt" /\ rows[c[2].id].name = n /\ rows[c[2].id].svc = s

\* Nobody serves a name without its owner's proof: a verified row and an entry of
\* the proxy's cache name a service the zone has pointed to, however add, verify
\* and remove by two customers interleave with the DNS lookups.
OnlyProved ==
  /\ \A i \in Ids : rows[i].live /\ rows[i].verified => Proved(rows[i].name, rows[i].svc)
  /\ \A n \in Names : dcache[n] # NoSvc => Proved(n, dcache[n])

\* 'active' promises a certificate: domain_certs has a row and the Vault a pair,
\* however many managers work on the row and wherever they fail.
ActiveHasCert ==
  \A i \in Ids : rows[i].live /\ rows[i].tls = "active"
                   => rows[i].cert # "none" /\ rows[i].name \in vault

\* While a manager waits for validation the challenge endpoint can answer its
\* token: no other manager's cleanup or GC takes it away.
Answerable == \A m \in Managers : manager[m].at = "poll" => <<m, "live">> \in challenge

\* A name that lost its verified row or its service leaves the cache ("Removes
\* entries for domains that are no longer verified or whose service has been
\* deleted"), even when a request inserts it again from an older answer.
Valid(n) == \E i \in Ids : Routable(i) /\ rows[i].name = n
DomainsPruned == \A n \in Names : dcache[n] # NoSvc /\ ~Valid(n) ~> dcache[n] = NoSvc \/ Valid(n)
=============================================================================
