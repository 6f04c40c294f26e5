--------------------------- MODULE DomainsProofs ---------------------------
(***************************************************************************)
(* Domains for every number of names, services, requests, managers and     *)
(* rows: a name is served only where its owner pointed it, an active       *)
(* domain has its certificate, and a validation finds its challenge.       *)
(***************************************************************************)
EXTENDS Domains, TLAPS

\* Ids are given out in order and never again: what a request or a manager read
\* is a row that was inserted, whose name and service no longer change.
IdInv ==
  /\ \A i \in Ids : rows[i].live => i < next
  /\ \A r \in Requests : request[r].at # "idle" => request[r].id \in Ids /\ request[r].id < next
  /\ \A m \in Managers : \A i \in manager[m].todo : i < next
  /\ \A m \in Managers : manager[m].at \notin {"idle", "mark", "gc"}
                           => manager[m].id \in Ids /\ manager[m].id < next
  /\ \A c \in shown : c[2].kind = "txt" => c[2].id < next

\* The zone's answers are on record, and with them what was verified from them.
ProofInv ==
  /\ \A n \in Names : dns[n] # NoRecord => <<n, dns[n]>> \in shown
  /\ \A i \in Ids : i < next => rows[i].name \in Names /\ rows[i].svc \in Services
  /\ \A r \in Requests : request[r].at = "update"
       => Proved(rows[request[r].id].name, rows[request[r].id].svc)
  /\ \A q \in Lookups : lookup[q] # NoLookup
       => lookup[q].name \in Names /\ Proved(lookup[q].name, lookup[q].svc)

\* A manager that is about to record a certificate has stored it, and one that is
\* about to call the domain active has recorded it too.
CertInv ==
  \A m \in Managers :
    /\ manager[m].at \in {"upsert", "active"} => rows[manager[m].id].name \in vault
    /\ manager[m].at = "active" /\ rows[manager[m].id].live => rows[manager[m].id].cert # "none"

ChallengeInv ==
  \A m \in Managers : manager[m].at \in {"ready", "poll"} => <<m, "live">> \in challenge

IInv == TypeOK /\ IdInv /\ ProofInv /\ OnlyProved /\ CertInv /\ ActiveHasCert /\ ChallengeInv

-----------------------------------------------------------------------------
(* Types and ids *)

\* Every UPDATE of a domains row leaves a row, and changes the columns it names.
LEMMA RowUpdates ==
  ASSUME NEW r \in RowRecords
  PROVE  /\ [r EXCEPT !.verified = TRUE] \in RowRecords
         /\ [r EXCEPT !.live = FALSE, !.cert = "none"] \in RowRecords
         /\ \A x \in {"pending", "provisioning", "active", "error"} : [r EXCEPT !.tls = x] \in RowRecords
         /\ \A x \in {"none", "fresh", "expiring"} : [r EXCEPT !.cert = x] \in RowRecords
         /\ r.name \in Names \cup {NoName} /\ r.svc \in Services \cup {NoSvc}
         /\ r.tls \in {"pending", "provisioning", "active", "error"}
BY DEF RowRecords

LEMMA NewRow ==
  ASSUME NEW s \in Services, NEW n \in Names
  PROVE  /\ NoRow \in RowRecords
         /\ [name |-> n, svc |-> s, live |-> TRUE, verified |-> FALSE,
             tls |-> "pending", cert |-> "none"] \in RowRecords
BY DEF RowRecords, NoRow

\* The same for the state of a request and of a manager.
LEMMA RequestUpdates ==
  ASSUME NEW r \in RequestRecords
  PROVE  /\ \A x \in {"idle", "cname", "txt", "update"} : [r EXCEPT !.at = x] \in RequestRecords
         /\ \A i \in Ids : [at |-> "cname", id |-> i] \in RequestRecords
         /\ NoRequest \in RequestRecords
BY DEF RequestRecords, NoRequest

LEMMA ManagerUpdates ==
  ASSUME NEW b \in ManagerRecords
  PROVE  /\ \A x \in {"idle", "mark", "order", "ready", "poll", "finalize",
                      "upsert", "active", "error", "gc"} : [b EXCEPT !.at = x] \in ManagerRecords
         /\ [b EXCEPT !.at = "mark", !.id = 0] \in ManagerRecords
         /\ \A T \in SUBSET Ids : [at |-> "mark", id |-> 0, todo |-> T] \in ManagerRecords
         /\ \A i \in Ids : [at |-> "order", id |-> i, todo |-> b.todo \ {i}] \in ManagerRecords
         /\ [at |-> "gc", id |-> 0, todo |-> {}] \in ManagerRecords
         /\ NoBatch \in ManagerRecords
         /\ b.todo \subseteq Ids
BY DEF ManagerRecords, NoBatch

LEMMA TypeStep ==
  ASSUME DomainsAssumption, TypeOK, IdInv, [Next]_vars
  PROVE  TypeOK'
<1> USE DEF TypeOK, apiVars, dnsVars, acmeVars, proxyVars
<1>1. ASSUME NEW n \in Names, NEW rec \in Records, SetDns(n, rec) PROVE TypeOK'
  BY <1>1 DEF SetDns
<1>2. ASSUME NEW s \in Services, NEW n \in Names, add_domain(s, n) PROVE TypeOK'
  <2>1. next + 1 \in 1 .. (MaxRows + 1)
    BY <1>2 DEF add_domain, Ids, DomainsAssumption
  <2> QED BY <1>2, <2>1, NewRow DEF add_domain
<1>3. ASSUME NEW i \in Ids, remove_domain(i) PROVE TypeOK'
  <2>1. [rows[i] EXCEPT !.live = FALSE, !.cert = "none"] \in RowRecords
    BY RowUpdates
  <2> QED BY <1>3, <2>1 DEF remove_domain
<1>4. ASSUME NEW i \in Ids, CertAges(i) PROVE TypeOK'
  <2>1. [rows[i] EXCEPT !.cert = "expiring"] \in RowRecords
    BY RowUpdates
  <2> QED BY <1>4, <2>1 DEF CertAges
<1>5. ASSUME NEW s \in Services, delete_service(s) PROVE TypeOK'
  BY <1>5 DEF delete_service
<1>6. ASSUME NEW r \in Requests, NEW i \in Ids, VerifyRead(r, i) PROVE TypeOK'
  <2>1. [at |-> "cname", id |-> i] \in RequestRecords
    BY RequestUpdates
  <2> QED BY <1>6, <2>1 DEF VerifyRead
<1>7. ASSUME NEW r \in Requests, VerifyCname(r) PROVE TypeOK'
  <2>1. \A x \in {"update", "txt"} : [request[r] EXCEPT !.at = x] \in RequestRecords
    BY RequestUpdates
  <2> QED BY <1>7, <2>1 DEF VerifyCname
<1>8. ASSUME NEW r \in Requests, VerifyTxt(r) PROVE TypeOK'
  <2>1. [request[r] EXCEPT !.at = "update"] \in RequestRecords /\ NoRequest \in RequestRecords
    BY RequestUpdates
  <2> QED BY <1>8, <2>1 DEF VerifyTxt
<1>9. ASSUME NEW r \in Requests, VerifyUpdate(r) PROVE TypeOK'
  <2>1. NoRequest \in RequestRecords
    BY RequestUpdates
  <2>2. \A i \in Ids : [rows[i] EXCEPT !.verified = TRUE] \in RowRecords
    BY RowUpdates
  <2> QED BY <1>9, <2>1, <2>2 DEF VerifyUpdate
<1>10. ASSUME NEW m \in Managers, SelectBatch(m) PROVE TypeOK'
  <2>1. \A T \in SUBSET Ids : [at |-> "mark", id |-> 0, todo |-> T] \in ManagerRecords
    BY ManagerUpdates
  <2> QED BY <1>10, <2>1 DEF SelectBatch
<1>11. ASSUME NEW m \in Managers, MarkProvisioning(m) PROVE TypeOK'
  <2>1. PICK i \in manager[m].todo :
          /\ rows' = [rows EXCEPT ![i].tls = IF rows[i].live THEN "provisioning" ELSE @]
          /\ manager' = [manager EXCEPT ![m] = [at |-> "order", id |-> i, todo |-> @.todo \ {i}]]
    BY <1>11 DEF MarkProvisioning
  <2>2. i \in Ids /\ [at |-> "order", id |-> i, todo |-> manager[m].todo \ {i}] \in ManagerRecords
    BY ManagerUpdates
  <2>3. \A x \in {"provisioning", rows[i].tls} : [rows[i] EXCEPT !.tls = x] \in RowRecords
    BY <2>2, RowUpdates
  <2>4. rows' \in [Ids -> RowRecords]
    BY <2>1, <2>2, <2>3
  <2>5. manager' \in [Managers -> ManagerRecords]
    BY <2>1, <2>2
  <2> QED BY <1>11, <2>4, <2>5 DEF MarkProvisioning
<1>12. ASSUME NEW m \in Managers, WriteChallenge(m) \/ SetReady(m) \/ acme_challenge(m)
       PROVE  TypeOK'
  <2>1. \A x \in {"ready", "poll", "finalize"} : [manager[m] EXCEPT !.at = x] \in ManagerRecords
    BY ManagerUpdates
  <2> QED BY <1>12, <2>1 DEF WriteChallenge, SetReady, acme_challenge, Goto
<1>13. ASSUME NEW m \in Managers, StoreCert(m) PROVE TypeOK'
  <2>1. [manager[m] EXCEPT !.at = "upsert"] \in ManagerRecords
    BY ManagerUpdates
  <2>2. manager[m].id \in Ids
    BY <1>13 DEF StoreCert, IdInv
  <2>3. rows[manager[m].id].name \in Names \cup {NoName}
    BY <2>2, RowUpdates
  <2> QED BY <1>13, <2>1, <2>3 DEF StoreCert, Goto
<1>14. ASSUME NEW m \in Managers, UpsertCert(m) PROVE TypeOK'
  <2>1. [manager[m] EXCEPT !.at = "active"] \in ManagerRecords
    BY ManagerUpdates
  <2>2. \A i \in Ids : [rows[i] EXCEPT !.cert = "fresh"] \in RowRecords
    BY RowUpdates
  <2> QED BY <1>14, <2>1, <2>2 DEF UpsertCert, Goto
<1>15. ASSUME NEW m \in Managers, SetActive(m) \/ MarkError(m) PROVE TypeOK'
  <2>1. /\ [manager[m] EXCEPT !.at = "mark", !.id = 0] \in ManagerRecords
        /\ [at |-> "gc", id |-> 0, todo |-> {}] \in ManagerRecords
    BY ManagerUpdates
  <2>2. manager' \in [Managers -> ManagerRecords]
    BY <1>15, <2>1 DEF SetActive, MarkError, After
  <2>3. \A i \in Ids, x \in {"active", "error"} : [rows[i] EXCEPT !.tls = x] \in RowRecords
    BY RowUpdates
  <2>4. \A i \in Ids : [rows[i] EXCEPT !.tls = rows[i].tls] \in RowRecords
    BY RowUpdates
  <2>5. rows' \in [Ids -> RowRecords]
    BY <1>15, <2>3, <2>4 DEF SetActive, MarkError
  <2> QED BY <1>15, <2>2, <2>5 DEF SetActive, MarkError
<1>16. ASSUME NEW m \in Managers, ProvisionFails(m) PROVE TypeOK'
  <2>1. [manager[m] EXCEPT !.at = "error"] \in ManagerRecords
    BY ManagerUpdates
  <2> QED BY <1>16, <2>1 DEF ProvisionFails, Goto
<1>17. ASSUME NEW m \in Managers, GcChallenges(m) \/ ManagerStops(m) PROVE TypeOK'
  <2>1. NoBatch \in ManagerRecords
    BY ManagerUpdates
  <2> QED BY <1>17, <2>1 DEF GcChallenges, ManagerStops
<1>18. ASSUME NEW q \in Lookups, CacheInsert(q) PROVE TypeOK'
  BY <1>18 DEF CacheInsert, NoLookup
<1>19. ASSUME NEW q \in Lookups, NEW n \in Names, lookup_domain(q, n) PROVE TypeOK'
  <2>1. \A i \in Ids : rows[i].svc \in Services \cup {NoSvc}
    BY RowUpdates
  <2> QED BY <1>19, <2>1 DEF lookup_domain
<1>20. CASE Reconciler
  <2>1. \A i \in Ids : rows[i].name \in Names \cup {NoName}
    BY RowUpdates
  <2> QED BY <1>20, <2>1 DEF Reconciler, ReconcileQuery, ReconcileRetain, NoRecon
<1>21. CASE warm_domains
  <2>1. \A i \in Ids : rows[i].svc \in Services \cup {NoSvc}
    BY RowUpdates
  <2>2. dcache' \in [Names -> Services \cup {NoSvc}]
    BY <1>21, <2>1 DEF warm_domains
  <2> QED BY <1>21, <2>2 DEF warm_domains, NoLookup, NoRecon
<1>22. CASE UNCHANGED vars
  BY <1>22 DEF vars
<1> QED
  BY <1>1, <1>2, <1>3, <1>4, <1>5, <1>6, <1>7, <1>8, <1>9, <1>10, <1>11, <1>12, <1>13, <1>14,
     <1>15, <1>16, <1>17, <1>18, <1>19, <1>20, <1>21, <1>22
  DEF Next, Api, CertManager, Proxy

-----------------------------------------------------------------------------
(* What becomes of a row *)

\* Setting one column of one row leaves everything else as it is.
LEMMA TlsSet ==
  ASSUME NEW f \in [Ids -> RowRecords], NEW i \in Ids, NEW x,
         NEW g, g = [f EXCEPT ![i].tls = x]
  PROVE  \A j \in Ids : /\ g[j].name = f[j].name /\ g[j].svc = f[j].svc /\ g[j].live = f[j].live
                        /\ g[j].verified = f[j].verified /\ g[j].cert = f[j].cert
                        /\ g[j].tls = IF j = i THEN x ELSE f[j].tls
BY DEF RowRecords

LEMMA CertSet ==
  ASSUME NEW f \in [Ids -> RowRecords], NEW i \in Ids, NEW x,
         NEW g, g = [f EXCEPT ![i].cert = x]
  PROVE  \A j \in Ids : /\ g[j].name = f[j].name /\ g[j].svc = f[j].svc /\ g[j].live = f[j].live
                        /\ g[j].verified = f[j].verified /\ g[j].tls = f[j].tls
                        /\ g[j].cert = IF j = i THEN x ELSE f[j].cert
BY DEF RowRecords

LEMMA VerifiedSet ==
  ASSUME NEW f \in [Ids -> RowRecords], NEW i \in Ids,
         NEW g, g = [f EXCEPT ![i].verified = TRUE]
  PROVE  \A j \in Ids : /\ g[j].name = f[j].name /\ g[j].svc = f[j].svc /\ g[j].live = f[j].live
                        /\ g[j].cert = f[j].cert /\ g[j].tls = f[j].tls
                        /\ j # i => g[j].verified = f[j].verified
BY DEF RowRecords

LEMMA RowRemoved ==
  ASSUME NEW f \in [Ids -> RowRecords], NEW i \in Ids,
         NEW g, g = [f EXCEPT ![i].live = FALSE, ![i].cert = "none"]
  PROVE  \A j \in Ids : /\ g[j].name = f[j].name /\ g[j].svc = f[j].svc
                        /\ g[j].verified = f[j].verified /\ g[j].tls = f[j].tls
                        /\ IF j = i THEN ~g[j].live ELSE g[j] = f[j]
BY DEF RowRecords

\* A row, once inserted, keeps its name and service and never comes back to life;
\* it becomes verified, active or without a certificate only by the steps that say
\* so, and a new row is none of these.
RowAges(i) ==
  /\ rows'[i].name = rows[i].name /\ rows'[i].svc = rows[i].svc
  /\ rows'[i].live => rows[i].live
  /\ rows'[i].verified => \/ rows[i].verified
                          \/ \E r \in Requests : request[r].at = "update" /\ request[r].id = i
  /\ rows'[i].tls = "active" => \/ rows[i].tls = "active"
                                \/ \E m \in Managers : manager[m].at = "active" /\ manager[m].id = i
  /\ rows'[i].live /\ rows'[i].cert = "none" => rows[i].cert = "none"

RowsAge ==
  /\ next \in Nat /\ next' \in Nat /\ next <= next' /\ shown \subseteq shown' /\ vault \subseteq vault'
  /\ \A i \in Ids : \/ RowAges(i)
                    \/ /\ i = next /\ i < next'
                       /\ rows'[i].name \in Names /\ rows'[i].svc \in Services
                       /\ ~rows'[i].verified /\ rows'[i].tls = "pending"

LEMMA RowsOnlyAge ==
  ASSUME DomainsAssumption, TypeOK, IdInv, [Next]_vars
  PROVE  RowsAge
<1> USE DEF TypeOK, apiVars, dnsVars, acmeVars, proxyVars
<1>0. next \in Nat /\ next + 1 \in Nat /\ next < next + 1 /\ next <= next /\ next <= next + 1
  BY DEF DomainsAssumption
<1>a. ASSUME UNCHANGED next, shown \subseteq shown', vault \subseteq vault', \A i \in Ids : RowAges(i)
      PROVE RowsAge
  BY <1>0, <1>a DEF RowsAge
<1>1. ASSUME UNCHANGED <<rows, next>>, shown \subseteq shown', vault \subseteq vault' PROVE RowsAge
  <2>1. \A i \in Ids : RowAges(i)
    BY <1>1 DEF RowAges
  <2> QED BY <1>a, <1>1, <2>1
<1>2. ASSUME NEW s \in Services, NEW n \in Names, add_domain(s, n) PROVE RowsAge
  <2>1. \A i \in Ids : i # next => RowAges(i)
    BY <1>2 DEF add_domain, RowAges
  <2>2. /\ rows'[next].name \in Names /\ rows'[next].svc \in Services
        /\ ~rows'[next].verified /\ rows'[next].tls = "pending"
    BY <1>2 DEF add_domain
  <2>3. next' = next + 1 /\ shown' = shown /\ vault' = vault
    BY <1>2 DEF add_domain
  <2> QED BY <1>0, <2>1, <2>2, <2>3 DEF RowsAge
<1>3. ASSUME NEW i \in Ids, remove_domain(i) PROVE RowsAge
  <2>1. rows' = [rows EXCEPT ![i].live = FALSE, ![i].cert = "none"]
    BY <1>3 DEF remove_domain
  <2>2. \A j \in Ids : RowAges(j)
    BY <2>1, RowRemoved DEF RowAges
  <2> QED BY <1>a, <1>3, <2>2 DEF remove_domain
<1>4. ASSUME NEW i \in Ids, CertAges(i) PROVE RowsAge
  <2>1. rows' = [rows EXCEPT ![i].cert = "expiring"]
    BY <1>4 DEF CertAges
  <2>2. \A j \in Ids : RowAges(j)
    BY <2>1, CertSet DEF RowAges
  <2> QED BY <1>a, <1>4, <2>2 DEF CertAges
<1>5. ASSUME NEW r \in Requests, VerifyUpdate(r) PROVE RowsAge
  <2>1. request[r].id \in Ids /\ request[r].at = "update"
    BY <1>5 DEF VerifyUpdate, IdInv
  <2>2. CASE rows' = rows
    BY <1>1, <1>5, <2>2 DEF VerifyUpdate
  <2>3. CASE rows' = [rows EXCEPT ![request[r].id].verified = TRUE]
    <3>1. \A j \in Ids : RowAges(j)
      BY <2>1, <2>3, VerifiedSet DEF RowAges
    <3> QED BY <1>a, <1>5, <3>1 DEF VerifyUpdate
  <2> QED BY <1>5, <2>2, <2>3 DEF VerifyUpdate
<1>6. ASSUME NEW m \in Managers, MarkProvisioning(m) PROVE RowsAge
  <2>1. PICK i \in manager[m].todo :
          rows' = [rows EXCEPT ![i].tls = IF rows[i].live THEN "provisioning" ELSE @]
    BY <1>6 DEF MarkProvisioning
  <2>2. i \in Ids
    BY ManagerUpdates
  <2>3. PICK x : rows' = [rows EXCEPT ![i].tls = x] /\ x \in {"provisioning", rows[i].tls}
    BY <2>1, <2>2
  <2>4. \A j \in Ids : RowAges(j)
    BY <2>2, <2>3, TlsSet DEF RowAges
  <2> QED BY <1>a, <1>6, <2>4 DEF MarkProvisioning
<1>7. ASSUME NEW m \in Managers, UpsertCert(m) PROVE RowsAge
  <2>1. manager[m].id \in Ids /\ rows' = [rows EXCEPT ![manager[m].id].cert = "fresh"]
    BY <1>7 DEF UpsertCert, IdInv
  <2>2. \A j \in Ids : RowAges(j)
    BY <2>1, CertSet DEF RowAges
  <2> QED BY <1>a, <1>7, <2>2 DEF UpsertCert
<1>8. ASSUME NEW m \in Managers, SetActive(m) \/ MarkError(m) PROVE RowsAge
  <2>1. manager[m].id \in Ids /\ UNCHANGED <<next, shown, vault>>
    BY <1>8 DEF SetActive, MarkError, IdInv
  <2>2. PICK x : /\ rows' = [rows EXCEPT ![manager[m].id].tls = x]
                 /\ x = "active" => manager[m].at = "active" \/ rows[manager[m].id].tls = "active"
    <3>1. CASE SetActive(m)
      BY <2>1, <3>1 DEF SetActive
    <3>2. CASE MarkError(m)
      BY <2>1, <3>2 DEF MarkError
    <3> QED BY <1>8, <3>1, <3>2
  <2>3. \A j \in Ids : RowAges(j)
    BY <2>1, <2>2, TlsSet DEF RowAges
  <2> QED BY <1>a, <2>1, <2>3
<1> QED
  BY <1>1, <1>2, <1>3, <1>4, <1>5, <1>6, <1>7, <1>8
  DEF Next, Api, CertManager, Proxy, SetDns, delete_service, VerifyRead, VerifyCname, VerifyTxt,
      SelectBatch, WriteChallenge, SetReady, acme_challenge, StoreCert, ProvisionFails,
      GcChallenges, ManagerStops, CacheInsert, lookup_domain, Reconciler, ReconcileQuery,
      ReconcileRetain, warm_domains, vars

\* How a manager moves within a row, and from one row to the next.
LEMMA GotoMoves ==
  ASSUME TypeOK, NEW m \in Managers, NEW x, Goto(m, x)
  PROVE  /\ \A o \in Managers : o # m => manager'[o] = manager[o]
         /\ manager'[m].at = x /\ manager'[m].id = manager[m].id /\ manager'[m].todo = manager[m].todo
BY DEF Goto, TypeOK, ManagerRecords

LEMMA AfterMoves ==
  ASSUME TypeOK, NEW m \in Managers, After(m)
  PROVE  /\ \A o \in Managers : o # m => manager'[o] = manager[o]
         /\ manager'[m].at \in {"mark", "gc"} /\ manager'[m].todo \subseteq manager[m].todo
<1> USE DEF TypeOK
<1>1. \A o \in Managers : o # m => manager'[o] = manager[o]
  BY DEF After
<1>2. CASE manager[m].todo = {}
  BY <1>1, <1>2 DEF After
<1>3. CASE manager[m].todo # {}
  <2>1. manager'[m] = [manager[m] EXCEPT !.at = "mark", !.id = 0]
    BY <1>3 DEF After
  <2> QED BY <1>1, <2>1 DEF ManagerRecords
<1> QED BY <1>2, <1>3

LEMMA IdStep ==
  ASSUME DomainsAssumption, TypeOK, IdInv, [Next]_vars
  PROVE  IdInv'
<1> USE DEF TypeOK, apiVars, dnsVars, acmeVars, proxyVars
<1>0. RowsAge
  BY RowsOnlyAge
<1>1. \A i \in Ids : rows'[i].live => i < next'
  BY <1>0 DEF RowsAge, RowAges, IdInv, Ids
<1>2. \A i : i \in Ids /\ i < next => i < next'
  BY <1>0 DEF RowsAge, Ids
<1> DEFINE RequestIds == \A r \in Requests :
             request'[r].at # "idle" => request'[r].id \in Ids /\ request'[r].id < next
           ManagerIds == \A m \in Managers :
             /\ \A i \in manager'[m].todo : i \in Ids /\ i < next
             /\ manager'[m].at \notin {"idle", "mark", "gc"}
                  => manager'[m].id \in Ids /\ manager'[m].id < next
           TokenIds == \A c \in shown' : c[2].kind = "txt" => c[2].id < next
<1>3. RequestIds
  <2>1. CASE UNCHANGED request
    BY <2>1 DEF IdInv
  <2>2. ASSUME NEW r \in Requests, NEW i \in Ids, VerifyRead(r, i) PROVE RequestIds
    BY <2>2 DEF VerifyRead, IdInv
  <2>3. ASSUME NEW r \in Requests, VerifyCname(r) \/ VerifyTxt(r) \/ VerifyUpdate(r) PROVE RequestIds
    BY <2>3 DEF VerifyCname, VerifyTxt, VerifyUpdate, IdInv, RequestRecords, NoRequest
  <2> QED
    BY <2>1, <2>2, <2>3
    DEF Next, Api, CertManager, Proxy, SetDns, add_domain, remove_domain, CertAges, delete_service,
        SelectBatch, MarkProvisioning, WriteChallenge, SetReady, acme_challenge, StoreCert, UpsertCert,
        SetActive, ProvisionFails, MarkError, GcChallenges, ManagerStops, CacheInsert, lookup_domain,
        Reconciler, ReconcileQuery, ReconcileRetain, warm_domains, vars
<1>4. ManagerIds
  <2>0. \A m \in Managers : manager[m].todo \subseteq Ids
    BY ManagerUpdates
  <2>1. CASE UNCHANGED manager
    BY <2>0, <2>1 DEF IdInv
  <2>2. ASSUME NEW m \in Managers, SelectBatch(m) PROVE ManagerIds
    BY <2>0, <2>2 DEF SelectBatch, NeedsCert, IdInv
  <2>3. ASSUME NEW m \in Managers, MarkProvisioning(m) PROVE ManagerIds
    <3>1. PICK i \in manager[m].todo :
            manager' = [manager EXCEPT ![m] = [at |-> "order", id |-> i, todo |-> @.todo \ {i}]]
      BY <2>3 DEF MarkProvisioning
    <3> QED BY <2>0, <3>1 DEF IdInv
  <2>4. ASSUME NEW m \in Managers, NEW x, manager[m].at \notin {"idle", "mark", "gc"}, Goto(m, x)
        PROVE  ManagerIds
    BY <2>0, <2>4, GotoMoves DEF IdInv
  <2>5. ASSUME NEW m \in Managers, SetActive(m) \/ MarkError(m) PROVE ManagerIds
    <3>1. After(m)
      BY <2>5 DEF SetActive, MarkError
    <3> QED BY <2>0, <3>1, AfterMoves DEF IdInv
  <2>6. ASSUME NEW m \in Managers, GcChallenges(m) \/ ManagerStops(m) PROVE ManagerIds
    BY <2>0, <2>6 DEF GcChallenges, ManagerStops, NoBatch, IdInv
  <2>7. ASSUME NEW m \in Managers, \/ WriteChallenge(m) \/ SetReady(m) \/ acme_challenge(m)
                                   \/ StoreCert(m) \/ UpsertCert(m) \/ ProvisionFails(m)
        PROVE  ManagerIds
    BY <2>4, <2>7
    DEF WriteChallenge, SetReady, acme_challenge, StoreCert, UpsertCert, ProvisionFails
  <2> QED
    BY <2>1, <2>2, <2>3, <2>5, <2>6, <2>7
    DEF Next, Api, CertManager, Proxy, SetDns, add_domain, remove_domain, CertAges, delete_service,
        VerifyRead, VerifyCname, VerifyTxt, VerifyUpdate, CacheInsert, lookup_domain,
        Reconciler, ReconcileQuery, ReconcileRetain, warm_domains, vars
<1>5. TokenIds
  <2>1. ASSUME NEW n \in Names, NEW rec \in Records, SetDns(n, rec) PROVE TokenIds
    BY <2>1 DEF SetDns, IdInv
  <2>2. CASE UNCHANGED shown
    BY <2>2 DEF IdInv
  <2> QED
    BY <2>1, <2>2
    DEF Next, Api, CertManager, Proxy, add_domain, remove_domain, CertAges, delete_service,
        VerifyRead, VerifyCname, VerifyTxt, VerifyUpdate,
        SelectBatch, MarkProvisioning, WriteChallenge, SetReady, acme_challenge, StoreCert, UpsertCert,
        SetActive, ProvisionFails, MarkError, GcChallenges, ManagerStops, CacheInsert, lookup_domain,
        Reconciler, ReconcileQuery, ReconcileRetain, warm_domains, vars
<1>6. \A c \in shown' : c[2].kind = "txt" => c[2].id \in Ids
  <2>1. \A rec \in Records : rec.kind = "txt" => rec.id \in Ids
    BY DEF Records, NoRecord
  <2>2. shown' \subseteq Names \X Records
    BY TypeStep
  <2> QED BY <2>1, <2>2
<1> QED BY <1>1, <1>2, <1>3, <1>4, <1>5, <1>6 DEF IdInv

-----------------------------------------------------------------------------
(* Proofs of ownership *)

\* What was proved stays proved: records stay on record and rows keep their names.
LEMMA ProvedKept ==
  ASSUME DomainsAssumption, TypeOK, IdInv, RowsAge, NEW n, NEW s, Proved(n, s)
  PROVE  Proved(n, s)'
<1>1. PICK c \in shown : /\ c[1] = n
                         /\ \/ c[2].kind = "cname" /\ c[2].svc = s
                            \/ c[2].kind = "txt" /\ rows[c[2].id].name = n /\ rows[c[2].id].svc = s
  BY DEF Proved
<1>2. c \in shown'
  BY DEF RowsAge
<1>3. CASE c[2].kind = "cname" /\ c[2].svc = s
  BY <1>1, <1>2, <1>3 DEF Proved
<1>4. CASE c[2].kind = "txt" /\ rows[c[2].id].name = n /\ rows[c[2].id].svc = s
  <2>1. c[2] \in Records
    BY DEF TypeOK
  <2>2. c[2].id \in Ids /\ c[2].id < next
    BY <1>4, <2>1 DEF Records, NoRecord, IdInv
  <2>3. RowAges(c[2].id)
    BY <2>2 DEF RowsAge, Ids
  <2> QED BY <1>1, <1>2, <1>4, <2>3 DEF Proved, RowAges
<1> QED BY <1>1, <1>3, <1>4

\* The answer a zone gives, now, is a proof.
LEMMA AnswerProves ==
  ASSUME TypeOK, ProofInv, NEW i \in Ids, i < next,
         LET d == rows[i] IN \/ dns[d.name].kind = "cname" /\ dns[d.name].svc = d.svc
                             \/ dns[d.name].kind = "txt" /\ dns[d.name].id = i
  PROVE  Proved(rows[i].name, rows[i].svc)
<1>1. rows[i].name \in Names
  BY DEF ProofInv
<1>2. dns[rows[i].name] # NoRecord
  BY DEF NoRecord
<1>3. <<rows[i].name, dns[rows[i].name]>> \in shown
  BY <1>1, <1>2 DEF ProofInv
<1> QED BY <1>3 DEF Proved

LEMMA ProofStep ==
  ASSUME DomainsAssumption, TypeOK, IdInv, ProofInv, OnlyProved, [Next]_vars
  PROVE  ProofInv' /\ OnlyProved'
<1> USE DEF TypeOK, apiVars, dnsVars, acmeVars, proxyVars
<1>0. RowsAge
  BY RowsOnlyAge
<1>a. ASSUME NEW n, NEW s, Proved(n, s) PROVE Proved(n, s)'
  BY <1>0, <1>a, ProvedKept
<1>b. \A i \in Ids : i < next => rows'[i].name = rows[i].name /\ rows'[i].svc = rows[i].svc
  BY <1>0 DEF RowsAge, RowAges, Ids
<1>1. \A n \in Names : dns'[n] # NoRecord => <<n, dns'[n]>> \in shown'
  <2>1. ASSUME NEW n \in Names, NEW rec \in Records, SetDns(n, rec)
        PROVE  \A o \in Names : dns'[o] # NoRecord => <<o, dns'[o]>> \in shown'
    BY <2>1 DEF SetDns, ProofInv
  <2>2. CASE UNCHANGED dnsVars
    BY <2>2 DEF ProofInv
  <2> QED
    BY <2>1, <2>2
    DEF Next, Api, CertManager, Proxy, add_domain, remove_domain, CertAges, delete_service,
        VerifyRead, VerifyCname, VerifyTxt, VerifyUpdate,
        SelectBatch, MarkProvisioning, WriteChallenge, SetReady, acme_challenge, StoreCert, UpsertCert,
        SetActive, ProvisionFails, MarkError, GcChallenges, ManagerStops, CacheInsert, lookup_domain,
        Reconciler, ReconcileQuery, ReconcileRetain, warm_domains, vars
<1>2. \A i \in Ids : i < next' => rows'[i].name \in Names /\ rows'[i].svc \in Services
  <2>1. next' <= next + 1
    <3>1. CASE UNCHANGED next
      BY <1>0, <3>1 DEF RowsAge
    <3>2. CASE next' = next + 1
      BY <1>0, <3>2 DEF RowsAge
    <3> QED
      BY <3>1, <3>2
      DEF Next, Api, CertManager, Proxy, SetDns, add_domain, remove_domain, CertAges, delete_service,
          VerifyRead, VerifyCname, VerifyTxt, VerifyUpdate,
          SelectBatch, MarkProvisioning, WriteChallenge, SetReady, acme_challenge, StoreCert, UpsertCert,
          SetActive, ProvisionFails, MarkError, GcChallenges, ManagerStops, CacheInsert, lookup_domain,
          Reconciler, ReconcileQuery, ReconcileRetain, warm_domains, vars
  <2>2. SUFFICES ASSUME NEW i \in Ids, i < next'
                 PROVE  rows'[i].name \in Names /\ rows'[i].svc \in Services
    OBVIOUS
  <2>3. CASE i < next
    BY <1>b, <2>3 DEF ProofInv
  <2>4. CASE i = next
    <3>1. next' # next
      BY <1>0, <2>2, <2>4 DEF RowsAge
    <3>2. PICK s \in Services, n \in Names : add_domain(s, n)
      BY <3>1
      DEF Next, Api, CertManager, Proxy, SetDns, remove_domain, CertAges, delete_service,
          VerifyRead, VerifyCname, VerifyTxt, VerifyUpdate,
          SelectBatch, MarkProvisioning, WriteChallenge, SetReady, acme_challenge, StoreCert, UpsertCert,
          SetActive, ProvisionFails, MarkError, GcChallenges, ManagerStops, CacheInsert, lookup_domain,
          Reconciler, ReconcileQuery, ReconcileRetain, warm_domains, vars
    <3> QED BY <2>4, <3>2 DEF add_domain
  <2> QED BY <1>0, <2>1, <2>2, <2>3, <2>4 DEF RowsAge, Ids
<1> DEFINE Answered == \A r \in Requests : request'[r].at = "update"
             => Proved(rows[request'[r].id].name, rows[request'[r].id].svc)
           Found == \A q \in Lookups : lookup'[q] # NoLookup
             => lookup'[q].name \in Names /\ Proved(lookup'[q].name, lookup'[q].svc)
           Cached == \A n \in Names : dcache'[n] # NoSvc => Proved(n, dcache'[n])
<1>3. Answered
  <2>1. CASE UNCHANGED request
    BY <2>1 DEF ProofInv
  <2>2. ASSUME NEW r \in Requests, NEW i \in Ids, VerifyRead(r, i) PROVE Answered
    BY <2>2 DEF VerifyRead, ProofInv
  <2>3. ASSUME NEW r \in Requests, VerifyCname(r) PROVE Answered
    <3>1. request[r].id \in Ids /\ request[r].id < next
      BY <2>3 DEF VerifyCname, IdInv
    <3>2. /\ \A o \in Requests : o # r => request'[o] = request[o]
          /\ request'[r].id = request[r].id
          /\ request'[r].at = "update" => LET d == rows[request[r].id] IN
               dns[d.name].kind = "cname" /\ dns[d.name].svc = d.svc
      BY <2>3 DEF VerifyCname, RequestRecords
    <3>3. request'[r].at = "update" => Proved(rows[request[r].id].name, rows[request[r].id].svc)
      BY <3>1, <3>2, AnswerProves
    <3> QED BY <3>2, <3>3 DEF ProofInv
  <2>4. ASSUME NEW r \in Requests, VerifyTxt(r) PROVE Answered
    <3>1. request[r].id \in Ids /\ request[r].id < next
      BY <2>4 DEF VerifyTxt, IdInv
    <3>2. /\ \A o \in Requests : o # r => request'[o] = request[o]
          /\ request'[r].at = "update" =>
               /\ request'[r].id = request[r].id
               /\ LET d == rows[request[r].id] IN
                  dns[d.name].kind = "txt" /\ dns[d.name].id = request[r].id
      BY <2>4 DEF VerifyTxt, RequestRecords, NoRequest
    <3>3. request'[r].at = "update" => Proved(rows[request[r].id].name, rows[request[r].id].svc)
      BY <3>1, <3>2, AnswerProves
    <3> QED BY <3>2, <3>3 DEF ProofInv
  <2>5. ASSUME NEW r \in Requests, VerifyUpdate(r) PROVE Answered
    BY <2>5 DEF VerifyUpdate, NoRequest, ProofInv
  <2> QED
    BY <2>1, <2>2, <2>3, <2>4, <2>5
    DEF Next, Api, CertManager, Proxy, SetDns, add_domain, remove_domain, CertAges, delete_service,
        SelectBatch, MarkProvisioning, WriteChallenge, SetReady, acme_challenge, StoreCert, UpsertCert,
        SetActive, ProvisionFails, MarkError, GcChallenges, ManagerStops, CacheInsert, lookup_domain,
        Reconciler, ReconcileQuery, ReconcileRetain, warm_domains, vars
<1>4. Found /\ Cached
  <2>1. CASE UNCHANGED <<lookup, dcache>>
    BY <2>1 DEF ProofInv, OnlyProved
  <2>2. ASSUME NEW q \in Lookups, NEW n \in Names, lookup_domain(q, n) PROVE Found /\ Cached
    <3>1. PICK i \in Ids : /\ Routable(i) /\ rows[i].name = n
                           /\ lookup' = [lookup EXCEPT ![q] = [name |-> n, svc |-> rows[i].svc]]
                           /\ dcache' = dcache
      BY <2>2 DEF lookup_domain
    <3>2. Proved(n, rows[i].svc)
      BY <3>1 DEF Routable, OnlyProved
    <3>3. Found
      BY <3>1, <3>2 DEF ProofInv
    <3> QED BY <3>1, <3>3 DEF OnlyProved
  <2>3. ASSUME NEW q \in Lookups, CacheInsert(q) PROVE Found /\ Cached
    <3>1. Found
      BY <2>3 DEF CacheInsert, ProofInv
    <3>2. CASE dcache' = dcache
      BY <3>1, <3>2 DEF OnlyProved
    <3>3. CASE dcache' = [dcache EXCEPT ![lookup[q].name] = lookup[q].svc]
      <4>1. lookup[q].name \in Names /\ Proved(lookup[q].name, lookup[q].svc)
        BY <2>3 DEF CacheInsert, ProofInv
      <4> QED BY <3>1, <3>3, <4>1 DEF OnlyProved
    <3> QED BY <2>3, <3>2, <3>3 DEF CacheInsert
  <2>4. CASE Reconciler
    BY <2>4 DEF Reconciler, ReconcileQuery, ReconcileRetain, ProofInv, OnlyProved
  <2>5. CASE warm_domains
    <3>1. Found
      BY <2>5 DEF warm_domains
    <3>2. SUFFICES ASSUME NEW n \in Names, dcache'[n] # NoSvc PROVE Proved(n, dcache'[n])
      BY <3>1
    <3>3. \E i \in Ids : Routable(i) /\ rows[i].name = n
      BY <2>5, <3>2 DEF warm_domains
    <3> DEFINE k == CHOOSE i \in Ids : Routable(i) /\ rows[i].name = n
    <3>4. k \in Ids /\ Routable(k) /\ rows[k].name = n
      BY <3>3
    <3>5. dcache'[n] = rows[k].svc
      BY <2>5, <3>3 DEF warm_domains
    <3> QED BY <3>4, <3>5 DEF Routable, OnlyProved
  <2> QED
    BY <2>1, <2>2, <2>3, <2>4, <2>5
    DEF Next, Api, CertManager, Proxy, SetDns, add_domain, remove_domain, CertAges, delete_service,
        VerifyRead, VerifyCname, VerifyTxt, VerifyUpdate,
        SelectBatch, MarkProvisioning, WriteChallenge, SetReady, acme_challenge, StoreCert, UpsertCert,
        SetActive, ProvisionFails, MarkError, GcChallenges, ManagerStops, vars
<1>5. \A r \in Requests : request'[r].at = "update" => request'[r].id \in Ids /\ request'[r].id < next
  <2>1. SUFFICES ASSUME NEW r \in Requests, request'[r].at = "update"
                 PROVE  request'[r].id = request[r].id /\ request[r].at # "idle"
    BY DEF IdInv
  <2>2. CASE UNCHANGED request
    BY <2>1, <2>2
  <2>3. ASSUME NEW o \in Requests, NEW i \in Ids, VerifyRead(o, i)
        PROVE  request'[r].id = request[r].id /\ request[r].at # "idle"
    BY <2>1, <2>3 DEF VerifyRead
  <2>4. ASSUME NEW o \in Requests, VerifyCname(o)
        PROVE  request'[r].id = request[r].id /\ request[r].at # "idle"
    BY <2>1, <2>4 DEF VerifyCname, RequestRecords
  <2>5. ASSUME NEW o \in Requests, VerifyTxt(o)
        PROVE  request'[r].id = request[r].id /\ request[r].at # "idle"
    BY <2>1, <2>5 DEF VerifyTxt, RequestRecords, NoRequest
  <2>6. ASSUME NEW o \in Requests, VerifyUpdate(o)
        PROVE  request'[r].id = request[r].id /\ request[r].at # "idle"
    BY <2>1, <2>6 DEF VerifyUpdate, NoRequest
  <2> QED
    BY <2>2, <2>3, <2>4, <2>5, <2>6
    DEF Next, Api, CertManager, Proxy, SetDns, add_domain, remove_domain, CertAges, delete_service,
        SelectBatch, MarkProvisioning, WriteChallenge, SetReady, acme_challenge, StoreCert, UpsertCert,
        SetActive, ProvisionFails, MarkError, GcChallenges, ManagerStops, CacheInsert, lookup_domain,
        Reconciler, ReconcileQuery, ReconcileRetain, warm_domains, vars
<1> DEFINE ProvedNext(n, s) ==
      \E c \in shown' : /\ c[1] = n
                        /\ \/ c[2].kind = "cname" /\ c[2].svc = s
                           \/ c[2].kind = "txt" /\ rows'[c[2].id].name = n /\ rows'[c[2].id].svc = s
<1>6. \A n, s : Proved(n, s) => ProvedNext(n, s)
  BY <1>a DEF Proved
<1>7. \A i \in Ids : rows'[i].live /\ rows'[i].verified => ProvedNext(rows'[i].name, rows'[i].svc)
  <2> HIDE DEF ProvedNext
  <2>1. SUFFICES ASSUME NEW i \in Ids, rows'[i].live, rows'[i].verified
                 PROVE  ProvedNext(rows'[i].name, rows'[i].svc)
    OBVIOUS
  <2>2. RowAges(i)
    BY <1>0, <2>1 DEF RowsAge
  <2>3. Proved(rows[i].name, rows[i].svc) /\ rows'[i].name = rows[i].name /\ rows'[i].svc = rows[i].svc
    BY <2>1, <2>2 DEF RowAges, OnlyProved, ProofInv
  <2> QED BY <1>6, <2>3
<1>8. \A r \in Requests : request'[r].at = "update"
        => ProvedNext(rows'[request'[r].id].name, rows'[request'[r].id].svc)
  <2> HIDE DEF ProvedNext
  <2> QED BY <1>3, <1>5, <1>6, <1>b
<1>9. /\ \A q \in Lookups : lookup'[q] # NoLookup
           => lookup'[q].name \in Names /\ ProvedNext(lookup'[q].name, lookup'[q].svc)
      /\ \A n \in Names : dcache'[n] # NoSvc => ProvedNext(n, dcache'[n])
  <2> HIDE DEF ProvedNext
  <2> QED BY <1>4, <1>6
<1>10. OnlyProved'
  BY <1>7, <1>9 DEF OnlyProved, Proved
<1>11. ProofInv'
  BY <1>1, <1>2, <1>8, <1>9 DEF ProofInv, Proved
<1> QED BY <1>10, <1>11

-----------------------------------------------------------------------------
(* Certificates *)

\* A manager comes to the upsert and to the last update only by storing and by
\* recording the certificate of the row it works on.
LEMMA ManagerSteps ==
  ASSUME TypeOK, [Next]_vars, NEW m \in Managers
  PROVE  \/ manager'[m] = manager[m]
         \/ manager'[m].at \notin {"upsert", "active"}
         \/ StoreCert(m)
         \/ UpsertCert(m)
<1> DEFINE Steps == \/ manager'[m] = manager[m]
                    \/ manager'[m].at \notin {"upsert", "active"}
                    \/ StoreCert(m)
                    \/ UpsertCert(m)
<1>1. CASE UNCHANGED manager
  BY <1>1
<1>2. ASSUME NEW o \in Managers, StoreCert(o) \/ UpsertCert(o) PROVE Steps
  BY <1>2, GotoMoves DEF StoreCert, UpsertCert
<1>3. ASSUME NEW o \in Managers, NEW x, Goto(o, x), x \notin {"upsert", "active"} PROVE Steps
  BY <1>3, GotoMoves
<1>4. ASSUME NEW o \in Managers, SetActive(o) \/ MarkError(o) PROVE Steps
  <2>1. After(o)
    BY <1>4 DEF SetActive, MarkError
  <2> QED BY <2>1, AfterMoves
<1>5. ASSUME NEW o \in Managers, SelectBatch(o) \/ GcChallenges(o) \/ ManagerStops(o) PROVE Steps
  BY <1>5 DEF SelectBatch, GcChallenges, ManagerStops, NoBatch, TypeOK
<1>6. ASSUME NEW o \in Managers, MarkProvisioning(o) PROVE Steps
  BY <1>6 DEF MarkProvisioning, TypeOK
<1>7. ASSUME NEW o \in Managers,
             WriteChallenge(o) \/ SetReady(o) \/ acme_challenge(o) \/ ProvisionFails(o)
      PROVE  Steps
  BY <1>3, <1>7 DEF WriteChallenge, SetReady, acme_challenge, ProvisionFails
<1> QED
  BY <1>1, <1>2, <1>4, <1>5, <1>6, <1>7
  DEF Next, Api, CertManager, Proxy, SetDns, add_domain, remove_domain, CertAges, delete_service,
      VerifyRead, VerifyCname, VerifyTxt, VerifyUpdate, CacheInsert, lookup_domain,
      Reconciler, ReconcileQuery, ReconcileRetain, warm_domains, vars, apiVars, dnsVars, acmeVars, proxyVars

LEMMA CertStep ==
  ASSUME DomainsAssumption, TypeOK, IdInv, CertInv, ActiveHasCert, [Next]_vars
  PROVE  CertInv' /\ ActiveHasCert'
<1>0. RowsAge
  BY RowsOnlyAge
<1>1. ActiveHasCert'
  <2>1. SUFFICES ASSUME NEW i \in Ids, rows'[i].live, rows'[i].tls = "active"
                 PROVE  rows'[i].cert # "none" /\ rows'[i].name \in vault'
    BY DEF ActiveHasCert
  <2>2. RowAges(i) /\ vault \subseteq vault'
    BY <1>0, <2>1 DEF RowsAge
  <2>3. rows[i].cert # "none" /\ rows[i].name \in vault
    <3>1. CASE rows[i].tls = "active"
      BY <2>1, <2>2, <3>1 DEF RowAges, ActiveHasCert
    <3>2. CASE \E m \in Managers : manager[m].at = "active" /\ manager[m].id = i
      BY <2>1, <2>2, <3>2 DEF RowAges, CertInv
    <3> QED BY <2>1, <2>2, <3>1, <3>2 DEF RowAges
  <2> QED BY <2>1, <2>2, <2>3 DEF RowAges
<1>2. CertInv'
  <2>1. SUFFICES ASSUME NEW m \in Managers
                 PROVE  /\ manager'[m].at \in {"upsert", "active"} => rows'[manager'[m].id].name \in vault'
                        /\ manager'[m].at = "active" /\ rows'[manager'[m].id].live
                             => rows'[manager'[m].id].cert # "none"
    BY DEF CertInv
  <2>2. manager[m].at \notin {"idle", "mark", "gc"} => RowAges(manager[m].id) /\ manager[m].id \in Ids
    BY <1>0 DEF RowsAge, IdInv, Ids
  <2>3. CASE manager'[m] = manager[m]
    BY <1>0, <2>2, <2>3 DEF RowsAge, RowAges, CertInv
  <2>4. CASE StoreCert(m)
    <3>1. manager'[m].at = "upsert" /\ manager'[m].id = manager[m].id
      BY <2>4, GotoMoves DEF StoreCert
    <3>2. rows[manager[m].id].name \in vault' /\ manager[m].at = "finalize"
      BY <2>4 DEF StoreCert
    <3> QED BY <2>2, <3>1, <3>2 DEF RowAges
  <2>5. CASE UpsertCert(m)
    <3>1. manager'[m].at = "active" /\ manager'[m].id = manager[m].id
      BY <2>5, GotoMoves DEF UpsertCert
    <3>2. /\ manager[m].at = "upsert" /\ vault' = vault
          /\ rows' = [rows EXCEPT ![manager[m].id].cert = "fresh"]
      BY <2>5 DEF UpsertCert
    <3>3. rows'[manager[m].id].cert = "fresh"
      BY <2>2, <3>2, CertSet DEF TypeOK
    <3> QED BY <2>2, <3>1, <3>2, <3>3 DEF RowAges, CertInv
  <2> QED BY <2>1, <2>3, <2>4, <2>5, ManagerSteps
<1> QED BY <1>1, <1>2

-----------------------------------------------------------------------------
(* Challenges *)

LEMMA ChallengeStep ==
  ASSUME TypeOK, ChallengeInv, [Next]_vars
  PROVE  ChallengeInv'
<1> USE DEF TypeOK, apiVars, dnsVars, acmeVars, proxyVars
<1>1. CASE UNCHANGED <<manager, challenge>>
  BY <1>1 DEF ChallengeInv
<1>2. ASSUME NEW o \in Managers, WriteChallenge(o) PROVE ChallengeInv'
  BY <1>2, GotoMoves DEF WriteChallenge, ChallengeInv
<1>3. ASSUME NEW o \in Managers, SetReady(o) PROVE ChallengeInv'
  BY <1>3, GotoMoves DEF SetReady, ChallengeInv
<1>4. ASSUME NEW o \in Managers, acme_challenge(o) \/ ProvisionFails(o) PROVE ChallengeInv'
  <2>1. PICK x : Goto(o, x) /\ x \in {"finalize", "error"}
    BY <1>4 DEF acme_challenge, ProvisionFails
  <2>2. \A m \in Managers : m # o /\ <<m, "live">> \in challenge => <<m, "live">> \in challenge'
    BY <1>4 DEF acme_challenge, ProvisionFails
  <2> QED BY <2>1, <2>2, GotoMoves DEF ChallengeInv
<1>5. ASSUME NEW o \in Managers, StoreCert(o) \/ UpsertCert(o) PROVE ChallengeInv'
  BY <1>5, GotoMoves DEF StoreCert, UpsertCert, ChallengeInv
<1>6. ASSUME NEW o \in Managers, SetActive(o) \/ MarkError(o) PROVE ChallengeInv'
  <2>1. After(o) /\ challenge' = challenge
    BY <1>6 DEF SetActive, MarkError
  <2> QED BY <2>1, AfterMoves DEF ChallengeInv
<1>7. ASSUME NEW o \in Managers, SelectBatch(o) \/ MarkProvisioning(o) PROVE ChallengeInv'
  BY <1>7 DEF SelectBatch, MarkProvisioning, ChallengeInv
<1>8. ASSUME NEW o \in Managers, GcChallenges(o) \/ ManagerStops(o) PROVE ChallengeInv'
  <2>1. /\ \A m \in Managers : m # o => manager'[m] = manager[m]
        /\ manager'[o].at = "idle"
    BY <1>8 DEF GcChallenges, ManagerStops, NoBatch
  <2>2. \A m \in Managers : m # o /\ <<m, "live">> \in challenge => <<m, "live">> \in challenge'
    <3>1. CASE GcChallenges(o)
      BY <3>1 DEF GcChallenges
    <3>2. CASE ManagerStops(o)
      BY <3>2 DEF ManagerStops
    <3> QED BY <1>8, <3>1, <3>2
  <2> QED BY <2>1, <2>2 DEF ChallengeInv
<1> QED
  BY <1>1, <1>2, <1>3, <1>4, <1>5, <1>6, <1>7, <1>8
  DEF Next, Api, CertManager, Proxy, SetDns, add_domain, remove_domain, CertAges, delete_service,
      VerifyRead, VerifyCname, VerifyTxt, VerifyUpdate, CacheInsert, lookup_domain,
      Reconciler, ReconcileQuery, ReconcileRetain, warm_domains, vars

-----------------------------------------------------------------------------
(* The theorems *)

LEMMA InitLemma ==
  ASSUME DomainsAssumption, Init
  PROVE  IInv
<1> USE DEF Init
<1>1. NoRow \in RowRecords /\ NoRequest \in RequestRecords /\ NoBatch \in ManagerRecords
  BY DEF NoRow, RowRecords, NoRequest, RequestRecords, NoBatch, ManagerRecords
<1>2. TypeOK
  BY <1>1 DEF TypeOK, DomainsAssumption, Records, NoLookup, NoRecon
<1>3. \A i \in Ids : ~rows[i].live
  BY DEF NoRow
<1>4. IdInv
  BY <1>3 DEF IdInv, NoRequest, NoBatch
<1>5. ProofInv
  BY <1>3 DEF ProofInv, NoRequest, Ids
<1>6. OnlyProved /\ ActiveHasCert
  BY <1>3 DEF OnlyProved, ActiveHasCert
<1>7. CertInv /\ ChallengeInv
  BY DEF CertInv, ChallengeInv, NoBatch
<1> QED BY <1>2, <1>4, <1>5, <1>6, <1>7 DEF IInv

LEMMA Inductive ==
  ASSUME DomainsAssumption, IInv, [Next]_vars
  PROVE  IInv'
BY TypeStep, IdStep, ProofStep, CertStep, ChallengeStep DEF IInv

\* The domains table, the requests, the managers and the proxy's cache stay within
\* their types through every interleaving of the handlers.
THEOREM DomainsTypeOK == Spec => []TypeOK
<1>1. Init => IInv
  BY InitLemma, DomainsAssumption
<1>2. IInv /\ [Next]_vars => IInv'
  BY Inductive, DomainsAssumption
<1>3. IInv => TypeOK
  BY DEF IInv
<1> QED BY <1>1, <1>2, <1>3, PTL DEF Spec

\* A verified row, and an entry of the proxy's domain cache, names a service that
\* the owner of the name has pointed it to: verify_domain's reads, its two DNS
\* queries and its update may interleave with adding and removing in any order.
THEOREM OwnersProof == Spec => []OnlyProved
<1>1. Init => IInv
  BY InitLemma, DomainsAssumption
<1>2. IInv /\ [Next]_vars => IInv'
  BY Inductive, DomainsAssumption
<1>3. IInv => OnlyProved
  BY DEF IInv
<1> QED BY <1>1, <1>2, <1>3, PTL DEF Spec

\* A live row that is 'active' has its domain_certs row and a pair in the Vault,
\* with any number of managers on the row and wherever each of them stops.
THEOREM ActiveCertificate == Spec => []ActiveHasCert
<1>1. Init => IInv
  BY InitLemma, DomainsAssumption
<1>2. IInv /\ [Next]_vars => IInv'
  BY Inductive, DomainsAssumption
<1>3. IInv => ActiveHasCert
  BY DEF IInv
<1> QED BY <1>1, <1>2, <1>3, PTL DEF Spec

\* While a manager polls its order, the token the ACME server asks for is in
\* acme_challenges: no other manager's cleanup or GC removes it.
THEOREM ChallengeAnswerable == Spec => []Answerable
<1>1. Init => IInv
  BY InitLemma, DomainsAssumption
<1>2. IInv /\ [Next]_vars => IInv'
  BY Inductive, DomainsAssumption
<1>3. IInv => Answerable
  BY DEF IInv, ChallengeInv, Answerable
<1> QED BY <1>1, <1>2, <1>3, PTL DEF Spec
=============================================================================
