--------------------------- MODULE DeploysProofs ---------------------------
(***************************************************************************)
(* Deploys for every number of projects, slugs, requests and rows and      *)
(* every limit: a slug leads to one service, and the service limit is      *)
(* passed only by deploys that were between check and insert together.     *)
(***************************************************************************)
EXTENDS Deploys, FiniteSetTheorems, TLAPS

\* Ids are given out in order: the rows below next are those ever inserted, and
\* every event and every rollback is about one of them.
IdInv ==
  /\ \A i \in Ids : rows[i].status # "absent" <=> i < next
  /\ \A c \in pending : c[2] < next
  /\ \A i \in deleter.ids \cup sweep : i < next
  /\ \A r \in Requests : request[r].at = "rollback" => request[r].id \in Ids /\ request[r].id < next

\* A slug was inserted once: the constraint covers deleted rows too.
SlugInv ==
  \A i, j \in Ids : i < next /\ j < next /\ rows[i].slug = rows[j].slug => i = j

IInv == TypeOK /\ IdInv /\ SlugInv /\ QuotaBounded

-----------------------------------------------------------------------------
(* Rows *)

\* Whatever a handler, the sweep or the node does to a row that exists: it keeps its
\* slug, stays inserted and is never undeleted.
RowsAge ==
  /\ rows' \in [Ids -> RowRecords]
  /\ \A i \in Ids :
       /\ rows'[i].slug = rows[i].slug
       /\ rows'[i].status = "absent" <=> rows[i].status = "absent"
       /\ rows[i].deleted => rows'[i].deleted

LEMMA RowUpdates ==
  ASSUME NEW r \in RowRecords
  PROVE  \A st \in Statuses :
           /\ [r EXCEPT !.status = st] \in RowRecords
           /\ [r EXCEPT !.status = st].slug = r.slug
           /\ [r EXCEPT !.status = st].status = st
           /\ [r EXCEPT !.status = st].deleted = r.deleted
BY DEF RowRecords, Statuses

\* One row that is inserted gets another status.
LEMMA StatusSet ==
  ASSUME TypeOK, NEW i \in Ids, rows[i].status # "absent", NEW st \in Statuses \ {"absent"},
         rows' = [rows EXCEPT ![i].status = st]
  PROVE  RowsAge
<1>1. rows[i] \in RowRecords
  BY DEF TypeOK
<1>2. PICK new : new = [rows[i] EXCEPT !.status = st]
  OBVIOUS
<1>3. new \in RowRecords /\ new.slug = rows[i].slug /\ new.status = st /\ new.deleted = rows[i].deleted
  BY <1>1, <1>2 DEF RowRecords
<1>4. rows' = [rows EXCEPT ![i] = new]
  BY <1>2 DEF TypeOK
<1> QED BY <1>3, <1>4 DEF RowsAge, TypeOK

LEMMA RowsSame ==
  ASSUME TypeOK, UNCHANGED rows
  PROVE  RowsAge
BY DEF RowsAge, TypeOK

-----------------------------------------------------------------------------
(* The service limit *)

LEMMA CountsFinite ==
  ASSUME DeploysAssumption
  PROVE  /\ IsFiniteSet(Live) /\ Cardinality(Live) \in Nat
         /\ IsFiniteSet(Live') /\ Cardinality(Live') \in Nat
         /\ IsFiniteSet(Checked) /\ Cardinality(Checked) \in Nat
         /\ IsFiniteSet(Checked') /\ Cardinality(Checked') \in Nat
         /\ Cardinality(Requests) \in Nat /\ Cardinality(Checked') <= Cardinality(Requests)
<1>1. IsFiniteSet(Ids)
  BY FS_Interval DEF Ids, DeploysAssumption
<1>2. /\ Live \in SUBSET Ids /\ Live' \in SUBSET Ids
      /\ Checked \in SUBSET Requests /\ Checked' \in SUBSET Requests
  BY DEF Live, Checked
<1>3. IsFiniteSet(Live) /\ IsFiniteSet(Live')
  BY <1>1, <1>2, FS_Subset
<1>4. IsFiniteSet(Checked) /\ IsFiniteSet(Checked') /\ Cardinality(Checked') <= Cardinality(Requests)
  BY <1>2, FS_Subset DEF DeploysAssumption
<1> QED BY <1>3, <1>4, FS_CardinalityType DEF DeploysAssumption

\* A step that inserts no row and lets no deploy past its check.
LEMMA QuotaKept ==
  ASSUME DeploysAssumption, TypeOK, QuotaBounded, RowsAge, Checked' \subseteq Checked, UNCHANGED peak
  PROVE  QuotaBounded'
<1>1. Live' \subseteq Live
  BY DEF RowsAge, Live
<1>2. Cardinality(Live') <= Cardinality(Live) /\ Cardinality(Checked') <= Cardinality(Checked)
  BY <1>1, CountsFinite, FS_Subset
<1>3. peak \in Nat /\ MaxServices \in Nat
  BY CountsFinite DEF TypeOK, DeploysAssumption
<1> QED BY <1>2, <1>3, CountsFinite DEF QuotaBounded

\* Rows age and nobody is let past the check: everything is kept.
Ages == /\ RowsAge /\ UNCHANGED <<next, peak>>
        /\ request' \in [Requests -> RequestRecords]
        /\ \A r \in Requests :
             /\ request'[r].at = "insert" => request[r].at = "insert"
             /\ request'[r].at = "rollback" => request'[r].id \in Ids /\ request'[r].id < next
        /\ pending' \subseteq {"provision", "deprovision"} \X Ids
        /\ \A c \in pending' : c[2] < next
        /\ project' \subseteq created' /\ created' \subseteq Projects /\ gone' \in BOOLEAN
        /\ sweep' \subseteq Ids /\ \A i \in deleter'.ids \cup sweep' : i < next
        /\ deleter' \in [at : {"idle", "publish"}, ids : SUBSET Ids]
        /\ stream' \in [at : {"idle", "final", "open", "wait", "done"}, id : Ids \cup {0}]

LEMMA AgeStep ==
  ASSUME DeploysAssumption, IInv, Ages
  PROVE  IInv'
<1> USE DEF IInv
<1>1. TypeOK'
  BY DEF Ages, RowsAge, TypeOK
<1>2. IdInv'
  BY DEF Ages, RowsAge, IdInv
<1>3. SlugInv'
  BY DEF Ages, RowsAge, SlugInv
<1>4. QuotaBounded'
  <2>1. Checked' \subseteq Checked
    BY DEF Ages, Checked
  <2> QED BY <2>1, QuotaKept DEF Ages
<1> QED BY <1>1, <1>2, <1>3, <1>4

-----------------------------------------------------------------------------
(* The steps that only age rows *)

LEMMA RequestEnds ==
  ASSUME IInv, NEW r \in Requests, request' = [request EXCEPT ![r] = Served]
  PROVE  /\ request' \in [Requests -> RequestRecords]
         /\ request'[r].at = "served"
         /\ \A q \in Requests : q # r => request'[q] = request[q]
<1>1. Served \in RequestRecords /\ Served.at = "served"
  BY DEF Served, NoRequest, RequestRecords
<1> QED BY <1>1 DEF IInv, TypeOK

LEMMA HandlerAges ==
  ASSUME DeploysAssumption, IInv,
         \/ \E p \in Projects : create_project(p)
         \/ \E r \in Requests :
              \/ \E s \in Slugs : DeployRead(r, s)
              \/ \E i \in Ids : RollbackRead(r, i)
              \/ RollbackCommit(r)
         \/ \E i \in Ids : stop_service(i) \/ Watchdog(i) \/ StreamRead(i)
         \/ DeleteRead \/ DeleteCommit
         \/ \E i \in Ids, ok \in BOOLEAN : DeletePublish(i, ok)
  PROVE  Ages
<1> USE DEF IInv
<1>a. \A i \in Live : i \in Ids /\ rows[i].status # "absent" /\ i < next
  BY DEF Live, IdInv
<1>1. ASSUME NEW p \in Projects, create_project(p) PROVE Ages
  BY <1>1, RowsSame DEF create_project, Ages, TypeOK, IdInv
<1>2. ASSUME NEW r \in Requests, NEW s \in Slugs, DeployRead(r, s) PROVE Ages
  <2>1. [at |-> "check", slug |-> s, id |-> 0] \in RequestRecords
    BY DEF RequestRecords
  <2> QED BY <1>2, <2>1, RowsSame DEF DeployRead, Ages, TypeOK, IdInv, apiVars
<1>3. ASSUME NEW r \in Requests, NEW i \in Ids, RollbackRead(r, i) PROVE Ages
  <2>1. [at |-> "rollback", slug |-> rows[i].slug, id |-> i] \in RequestRecords
    BY DEF RequestRecords, TypeOK, RowRecords
  <2> QED BY <1>3, <1>a, <2>1, RowsSame DEF RollbackRead, Ages, TypeOK, IdInv, apiVars
<1>4. ASSUME NEW r \in Requests, RollbackCommit(r) PROVE Ages
  <2>1. PICK i \in Ids : i = request[r].id /\ i < next /\ rows[i].status # "absent"
    BY <1>4 DEF RollbackCommit, IdInv
  <2>2. RowsAge
    BY <1>4, <2>1, StatusSet DEF RollbackCommit, Statuses
  <2>3. pending' = pending \cup {<<"provision", i>>}
    BY <1>4, <2>1 DEF RollbackCommit
  <2>4. /\ request' \in [Requests -> RequestRecords] /\ request'[r].at = "served"
        /\ \A q \in Requests : q # r => request'[q] = request[q]
    BY <1>4, RequestEnds DEF RollbackCommit
  <2>5. /\ pending' \subseteq {"provision", "deprovision"} \X Ids
        /\ \A c \in pending' : c[2] < next
    BY <2>1, <2>3 DEF TypeOK, IdInv
  <2>6. \A q \in Requests :
          /\ request'[q].at = "insert" => request[q].at = "insert"
          /\ request'[q].at = "rollback" => request'[q].id \in Ids /\ request'[q].id < next
    BY <2>4 DEF IdInv
  <2> QED BY <1>4, <2>2, <2>4, <2>5, <2>6 DEF RollbackCommit, Ages, TypeOK, IdInv, apiVars
<1>5. ASSUME NEW i \in Ids, stop_service(i) PROVE Ages
  <2>1. RowsAge
    BY <1>5, <1>a, StatusSet DEF stop_service, Statuses
  <2>2. PICK purged : pending' = (pending \ purged) \cup {<<"deprovision", i>>}
    BY <1>5 DEF stop_service
  <2> QED BY <1>5, <1>a, <2>1, <2>2 DEF stop_service, Ages, TypeOK, IdInv, apiVars
<1>6. ASSUME NEW i \in Ids, Watchdog(i) PROVE Ages
  <2>1. RowsAge
    BY <1>6, <1>a, StatusSet DEF Watchdog, Statuses
  <2> QED BY <1>6, <2>1 DEF Watchdog, Ages, TypeOK, IdInv, apiVars
<1>7. ASSUME NEW i \in Ids, StreamRead(i) PROVE Ages
  <2>1. stream' \in [at : {"idle", "final", "open", "wait", "done"}, id : Ids \cup {0}]
    BY <1>7 DEF StreamRead
  <2> QED BY <1>7, <2>1, RowsSame DEF StreamRead, Ages, TypeOK, IdInv, apiVars
<1>8. CASE DeleteRead
  <2>1. /\ deleter' = [at |-> "publish", ids |-> {i \in Ids : Active(i)}]
        /\ \A i \in Ids : Active(i) => i < next
    BY <1>8, <1>a DEF DeleteRead, Active
  <2> QED BY <1>8, <2>1, RowsSame DEF DeleteRead, Ages, TypeOK, IdInv, apiVars
<1>9. CASE DeleteCommit
  <2>1. \A i \in Ids :
          rows'[i] = IF i \in Live THEN [rows[i] EXCEPT !.status = "stopped", !.deleted = TRUE] ELSE rows[i]
    BY <1>9 DEF DeleteCommit
  <2>2. \A i \in Ids :
          /\ rows'[i] \in RowRecords /\ rows'[i].slug = rows[i].slug
          /\ rows'[i].status = "absent" <=> rows[i].status = "absent"
          /\ rows[i].deleted => rows'[i].deleted
    <3>1. SUFFICES ASSUME NEW i \in Ids
                   PROVE  /\ rows'[i] \in RowRecords /\ rows'[i].slug = rows[i].slug
                          /\ rows'[i].status = "absent" <=> rows[i].status = "absent"
                          /\ rows[i].deleted => rows'[i].deleted
      OBVIOUS
    <3>2. rows[i] \in RowRecords
      BY DEF TypeOK
    <3>3. CASE i \in Live
      <4>1. rows'[i] = [rows[i] EXCEPT !.status = "stopped", !.deleted = TRUE]
        BY <2>1, <3>3
      <4>2. /\ rows'[i] \in RowRecords /\ rows'[i].slug = rows[i].slug
            /\ rows'[i].status = "stopped" /\ rows'[i].deleted
        BY <3>2, <4>1 DEF RowRecords, Statuses
      <4> QED BY <1>a, <3>3, <4>2
    <3>4. CASE i \notin Live
      BY <2>1, <3>2, <3>4
    <3> QED BY <3>3, <3>4
  <2>3. RowsAge
    BY <1>9, <2>2 DEF RowsAge, DeleteCommit
  <2> QED BY <1>9, <2>3 DEF DeleteCommit, Ages, TypeOK, IdInv, NoDelete
<1>10. ASSUME NEW i \in Ids, NEW ok \in BOOLEAN, DeletePublish(i, ok) PROVE Ages
  <2>1. i < next /\ i \in deleter.ids
    BY <1>10 DEF DeletePublish, IdInv
  <2>2. deleter' = [at |-> "publish", ids |-> deleter.ids \ {i}]
    BY <1>10 DEF DeletePublish, TypeOK
  <2>3. /\ pending' \subseteq {"provision", "deprovision"} \X Ids
        /\ \A c \in pending' : c[2] < next
    BY <1>10, <2>1 DEF DeletePublish, TypeOK, IdInv
  <2> QED BY <1>10, <2>2, <2>3, RowsSame DEF DeletePublish, Ages, TypeOK, IdInv, apiVars
<1> QED BY <1>1, <1>2, <1>3, <1>4, <1>5, <1>6, <1>7, <1>8, <1>9, <1>10

LEMMA WorkerAges ==
  ASSUME DeploysAssumption, IInv, Sweeper \/ Node \/ StreamTask
  PROVE  Ages
<1> USE DEF IInv
<1>0. \A i \in Ids : rows[i] \in RowRecords
  BY DEF TypeOK
<1>s. \A i \in Ids : Announce(i) => stream' \in [at : {"idle", "final", "open", "wait", "done"}, id : Ids \cup {0}]
  BY DEF Announce, StreamDone, TypeOK
<1>1. CASE SweepUpdate
  <2> DEFINE found == {i \in Ids : Orphan(i)}
  <2>1. /\ rows' = [i \in Ids |-> IF i \in found THEN [rows[i] EXCEPT !.status = "stopped"] ELSE rows[i]]
        /\ sweep' = found /\ UNCHANGED <<peak, apiVars, pending, request, deleter, stream>>
    BY <1>1 DEF SweepUpdate
  <2>2. \A i \in found : i \in Ids /\ rows[i].status # "absent" /\ i < next
    BY DEF Orphan, Active, Live, IdInv
  <2>3. \A i \in Ids :
          /\ [rows[i] EXCEPT !.status = "stopped"] \in RowRecords
          /\ [rows[i] EXCEPT !.status = "stopped"].slug = rows[i].slug
          /\ [rows[i] EXCEPT !.status = "stopped"].status = "stopped"
          /\ [rows[i] EXCEPT !.status = "stopped"].deleted = rows[i].deleted
    BY <1>0, RowUpdates DEF Statuses
  <2>4. RowsAge
    BY <1>0, <2>1, <2>2, <2>3 DEF RowsAge
  <2> QED BY <2>1, <2>2, <2>4 DEF Ages, TypeOK, IdInv, apiVars
<1>2. ASSUME NEW i \in Ids, NEW ok \in BOOLEAN, SweepPublish(i, ok) PROVE Ages
  <2>1. i < next
    BY <1>2 DEF SweepPublish, IdInv
  <2>2. /\ pending' \subseteq {"provision", "deprovision"} \X Ids
        /\ \A c \in pending' : c[2] < next
    BY <1>2, <2>1 DEF SweepPublish, TypeOK, IdInv
  <2> QED BY <1>2, <2>2, RowsSame DEF SweepPublish, Ages, TypeOK, IdInv, apiVars
<1>3. ASSUME NEW i \in Ids, Provisioned(i) PROVE Ages
  <2>1. rows[i].status # "absent"
    BY <1>3 DEF Provisioned, IdInv
  <2>2. PICK new : new = [rows[i] EXCEPT !.status = "running", !.placed = TRUE]
    OBVIOUS
  <2>3. new \in RowRecords /\ new.slug = rows[i].slug /\ new.status = "running" /\ new.deleted = rows[i].deleted
    BY <1>0, <2>2 DEF RowRecords, Statuses
  <2>4. rows' = [rows EXCEPT ![i] = new]
    BY <1>3, <2>2 DEF Provisioned, TypeOK
  <2>5. RowsAge
    BY <2>1, <2>3, <2>4 DEF RowsAge, TypeOK
  <2> QED BY <1>3, <1>s, <2>5 DEF Provisioned, Ages, TypeOK, IdInv, apiVars
<1>4. ASSUME NEW i \in Ids, NEW retry \in BOOLEAN, NotProvisioned(i, retry) PROVE Ages
  <2>1. rows[i].status # "absent"
    BY <1>4 DEF NotProvisioned, IdInv
  <2>2. PICK st \in Statuses \ {"absent"} : rows' = [rows EXCEPT ![i].status = st]
    BY <1>0, <1>4, <2>1 DEF NotProvisioned, RowRecords, Statuses
  <2>3. RowsAge
    BY <2>1, <2>2, StatusSet
  <2> QED BY <1>4, <1>s, <2>3 DEF NotProvisioned, Ages, TypeOK, IdInv, apiVars
<1>5. ASSUME NEW i \in Ids, Deprovisioned(i) PROVE Ages
  BY <1>5, RowsSame DEF Deprovisioned, Ages, TypeOK, IdInv, apiVars
<1>6. CASE StreamTask
  <2>1. stream' \in [at : {"idle", "final", "open", "wait", "done"}, id : Ids \cup {0}]
    BY <1>6 DEF StreamTask, StreamSubscribe, StreamDeadline, StreamDone, TypeOK
  <2> QED BY <1>6, <2>1, RowsSame
          DEF StreamTask, StreamSubscribe, StreamDeadline, Ages, TypeOK, IdInv, apiVars
<1> QED BY <1>1, <1>2, <1>3, <1>4, <1>5, <1>6 DEF Sweeper, Node

-----------------------------------------------------------------------------
(* The two transactions of a deploy *)

\* The check lets a deploy through only below the limit, and peak counts it.
LEMMA CheckStep ==
  ASSUME DeploysAssumption, IInv, NEW r \in Requests, DeployCheck(r)
  PROVE  IInv'
<1> USE DEF IInv
<1>1. /\ request[r].at = "check" /\ UNCHANGED <<apiVars, rows, pending, deleter, sweep, stream>>
      /\ peak' = IF Cardinality(Checked') > peak THEN Cardinality(Checked') ELSE peak
  BY DEF DeployCheck, CountChecked
<1>2. PICK new : /\ request' = [request EXCEPT ![r] = new]
                 /\ \/ new = Served
                    \/ new = [request[r] EXCEPT !.at = "insert"] /\ Cardinality(Live) < MaxServices
  BY DEF DeployCheck
<1>3. new \in RequestRecords /\ new.at \in {"served", "insert"} /\ (new.at = "insert" => Cardinality(Live) < MaxServices)
  BY <1>2 DEF TypeOK, RequestRecords, Served, NoRequest
<1>4. peak \in Nat /\ peak' \in Nat /\ peak' <= Cardinality(Requests) /\ Cardinality(Checked') <= peak'
  BY <1>1, CountsFinite DEF TypeOK
<1>5. TypeOK'
  BY <1>1, <1>2, <1>3, <1>4, CountsFinite DEF TypeOK, apiVars
<1>6. IdInv' /\ SlugInv'
  BY <1>1, <1>2, <1>3 DEF IdInv, SlugInv, TypeOK, apiVars
<1>7. QuotaBounded'
  <2>1. Live' = Live
    BY <1>1 DEF Live
  <2>2. MaxServices \in Nat
    BY DEF DeploysAssumption
  <2>3. CASE new.at = "insert"
    BY <1>3, <1>4, <2>1, <2>2, <2>3, CountsFinite DEF QuotaBounded
  <2>4. CASE new.at = "served"
    <3>1. Checked' = Checked
      BY <1>1, <1>2, <2>4 DEF Checked, TypeOK
    <3>2. peak <= peak'
      BY <1>1, <1>4, CountsFinite
    <3> QED BY <1>4, <2>1, <2>2, <3>1, <3>2, CountsFinite DEF QuotaBounded
  <2> QED BY <1>3, <2>3, <2>4
<1> QED BY <1>5, <1>6, <1>7

\* The insert turns a checked deploy into a live row of a slug nobody has.
LEMMA CommitStep ==
  ASSUME DeploysAssumption, IInv, NEW r \in Requests, DeployCommit(r)
  PROVE  IInv'
<1> USE DEF IInv
<1> DEFINE s == request[r].slug
           row == [slug |-> s, status |-> "provisioning", deleted |-> FALSE, placed |-> FALSE]
           retired == [i \in Ids |-> IF i \in Live /\ rows[i].slug = s
                                        /\ rows[i].status \in {"stopped", "failed"}
                                     THEN [rows[i] EXCEPT !.deleted = TRUE] ELSE rows[i]]
<1>1. /\ request[r].at = "insert" /\ request' = [request EXCEPT ![r] = Served]
      /\ UNCHANGED <<peak, project, created, gone, deleter, sweep, stream>>
  BY DEF DeployCommit
<1>2. /\ request' \in [Requests -> RequestRecords] /\ request'[r].at = "served"
      /\ \A q \in Requests : q # r => request'[q] = request[q]
  BY <1>1, RequestEnds
<1>3. r \in Checked /\ Checked' = Checked \ {r}
  BY <1>1, <1>2 DEF Checked
<1>4. CASE ~SlugFree(s)
  <2>1. UNCHANGED <<rows, pending, next>>
    BY <1>4 DEF DeployCommit
  <2>2. Ages
    BY <1>1, <1>2, <2>1, RowsSame DEF Ages, TypeOK, IdInv
  <2> QED BY <2>2, AgeStep
<1>5. CASE SlugFree(s)
  <2>1. /\ next \in Ids /\ rows' = [retired EXCEPT ![next] = row]
        /\ pending' = pending \cup {<<"provision", next>>} /\ next' = next + 1
    BY <1>5 DEF DeployCommit
  <2>2. s \in Slugs \cup {NoSlug} /\ row \in RowRecords
    BY DEF TypeOK, RequestRecords, RowRecords, Statuses
  <2>3. \A i \in Ids : rows[i] \in RowRecords /\ rows[i].slug # s
    BY <1>5 DEF TypeOK, SlugFree
  <2>4. retired = rows
    BY <2>3 DEF TypeOK
  <2> HIDE DEF retired
  <2>5. /\ rows' \in [Ids -> RowRecords] /\ rows'[next] = row
        /\ \A i \in Ids : i # next => rows'[i] = rows[i]
    BY <2>1, <2>2, <2>4 DEF TypeOK
  <2>6. row.slug = s /\ row.status = "provisioning" /\ ~row.deleted
    OBVIOUS
  <2> HIDE DEF row
  <2>7. next \in Nat /\ \A i \in Ids : i < next' <=> i < next \/ i = next
    BY <2>1 DEF TypeOK, Ids, DeploysAssumption
  <2>8. TypeOK'
    <3>1. next' \in 1 .. (MaxRows + 1)
      BY <2>1 DEF Ids, DeploysAssumption
    <3> QED BY <1>1, <1>2, <2>1, <2>5, <3>1 DEF TypeOK
  <2>9. IdInv'
    <3>1. \A i \in Ids : rows'[i].status # "absent" <=> i < next'
      BY <2>5, <2>6, <2>7 DEF IdInv
    <3>2. \A c \in pending' : c[2] < next'
      <4>1. \A c \in pending : c[2] \in Ids /\ c[2] < next
        BY DEF TypeOK, IdInv
      <4>2. \A c \in pending : c[2] < next'
        BY <2>7, <4>1
      <4>3. next < next'
        BY <2>1, <2>7
      <4> QED BY <2>1, <4>2, <4>3
    <3>3. \A i \in deleter'.ids \cup sweep' : i < next'
      BY <1>1, <2>7 DEF TypeOK, IdInv
    <3>4. \A q \in Requests : request'[q].at = "rollback" => request'[q].id \in Ids /\ request'[q].id < next'
      BY <1>2, <2>7 DEF IdInv
    <3> QED BY <3>1, <3>2, <3>3, <3>4 DEF IdInv
  <2>10. SlugInv'
    BY <2>3, <2>5, <2>6, <2>7 DEF SlugInv
  <2>11. QuotaBounded'
    <3>1. next \notin Live /\ Live' = Live \cup {next}
      <4>1. ~(next < next) /\ rows[next].status = "absent"
        BY <2>1, <2>7 DEF IdInv
      <4>2. rows'[next].status # "absent" /\ ~rows'[next].deleted
        BY <2>5, <2>6
      <4> QED BY <2>1, <2>5, <4>1, <4>2 DEF Live
    <3>2. Cardinality(Live') = Cardinality(Live) + 1
      BY <3>1, CountsFinite, FS_AddElement
    <3>3. Cardinality(Checked') = Cardinality(Checked) - 1
      BY <1>3, CountsFinite, FS_RemoveElement
    <3>4. peak \in Nat /\ MaxServices \in Nat
      BY CountsFinite DEF TypeOK, DeploysAssumption
    <3> QED BY <1>1, <3>2, <3>3, <3>4, CountsFinite DEF QuotaBounded
  <2> QED BY <2>8, <2>9, <2>10, <2>11
<1> QED BY <1>4, <1>5

-----------------------------------------------------------------------------
(* The theorems *)

LEMMA InitLemma ==
  ASSUME DeploysAssumption, Init
  PROVE  IInv
<1> USE DEF Init
<1>1. NoRow \in RowRecords /\ NoRow.status = "absent" /\ NoRequest \in RequestRecords /\ NoRequest.at = "idle"
  BY DEF NoRow, RowRecords, Statuses, NoRequest, RequestRecords
<1>2. TypeOK
  <2>1. next \in 1 .. (MaxRows + 1)
    BY DEF DeploysAssumption
  <2>2. peak \in 0 .. Cardinality(Requests)
    BY CountsFinite
  <2> QED BY <1>1, <2>1, <2>2 DEF TypeOK, NoDelete
<1>3. IdInv /\ SlugInv
  BY <1>1 DEF IdInv, SlugInv, NoDelete, Ids
<1>4. QuotaBounded
  <2>1. Live = {} /\ Checked = {}
    BY <1>1 DEF Live, Checked
  <2>2. Cardinality(Live) = 0 /\ Cardinality(Checked) = 0
    BY <2>1, FS_EmptySet
  <2> QED BY <2>2 DEF QuotaBounded, DeploysAssumption
<1> QED BY <1>2, <1>3, <1>4 DEF IInv

LEMMA Inductive ==
  ASSUME DeploysAssumption, IInv, [Next]_vars
  PROVE  IInv'
<1>1. CASE UNCHANGED vars
  <2>1. Ages
    BY <1>1, RowsSame DEF IInv, vars, apiVars, Ages, TypeOK, IdInv
  <2> QED BY <2>1, AgeStep
<1>2. CASE Handlers
  BY <1>2, HandlerAges, AgeStep, CheckStep, CommitStep DEF Handlers
<1>3. CASE Sweeper \/ Node \/ StreamTask
  BY <1>3, WorkerAges, AgeStep
<1> QED BY <1>1, <1>2, <1>3 DEF Next

\* Rows, events, requests and the workers of a workspace stay within their types.
THEOREM DeploysTypeOK == Spec => []TypeOK
<1>1. Init => IInv
  BY InitLemma, DeploysAssumption
<1>2. IInv /\ [Next]_vars => IInv'
  BY Inductive, DeploysAssumption
<1>3. IInv => TypeOK
  BY DEF IInv
<1> QED BY <1>1, <1>2, <1>3, PTL DEF Spec

\* No two live services share a slug, although deploy_service checks for one in a
\* transaction that has ended when it inserts.
THEOREM SlugLeadsToOne == Spec => []SlugUnambiguous
<1>1. Init => IInv
  BY InitLemma, DeploysAssumption
<1>2. IInv /\ [Next]_vars => IInv'
  BY Inductive, DeploysAssumption
<1>3. IInv => SlugUnambiguous
  BY DEF IInv, IdInv, SlugInv, SlugUnambiguous, Live
<1> QED BY <1>1, <1>2, <1>3, PTL DEF Spec

\* MAX_SERVICES_PER_WORKSPACE is passed by at most one less than the deploys that
\* were ever between their check and their insert at once.
THEOREM QuotaOverlap == Spec => []QuotaBounded
<1>1. Init => IInv
  BY InitLemma, DeploysAssumption
<1>2. IInv /\ [Next]_vars => IInv'
  BY Inductive, DeploysAssumption
<1>3. IInv => QuotaBounded
  BY DEF IInv
<1> QED BY <1>1, <1>2, <1>3, PTL DEF Spec
=============================================================================
