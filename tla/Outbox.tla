------------------------------- MODULE Outbox -------------------------------
(***************************************************************************)
(* The transactional outbox (crates/api/src/outbox.rs) of one or more API  *)
(* instances.  A handler inserts its event in the transaction of its       *)
(* mutation; the poller of every instance locks the oldest rows it can     *)
(* (FOR UPDATE SKIP LOCKED), publishes them one by one, deletes them and   *)
(* commits.  Any error rolls the poller's transaction back: what it had    *)
(* published is published again.                                           *)
(*                                                                         *)
(* A row is its created_at: NOW() is the start of the handler's            *)
(* transaction, so rows are numbered in the order transactions begin.      *)
(***************************************************************************)
EXTENDS Naturals, FiniteSets, Sequences

CONSTANTS
  Pollers,        \* API instances
  MaxRows,        \* bound: events in a behaviour
  BatchSize,      \* OUTBOX_BATCH_SIZE
  MaxOpen,        \* handler transactions that overlap
  MaxFailures,    \* bound: errors of NATS, of Postgres or of an instance
  Stale           \* rows can get older than OUTBOX_STALE_MINS

ASSUME OutboxAssumption ==
  /\ MaxRows \in Nat /\ MaxFailures \in Nat
  /\ BatchSize \in Nat \ {0} /\ MaxOpen \in Nat \ {0}
  /\ Stale \in BOOLEAN

VARIABLES
  table,      \* state of every row
  batch,      \* rows a poller's transaction has locked
  done,       \* published_ids of that transaction
  stream,     \* messages stored by JetStream, in order
  failures    \* errors so far

vars == <<table, batch, done, stream, failures>>

Rows == 1 .. MaxRows

In(st) == {r \in Rows : table[r] = st}

Published == {stream[i] : i \in DOMAIN stream}

Init ==
  /\ table = [r \in Rows |-> "free"]
  /\ batch = [p \in Pollers |-> {}]
  /\ done = [p \in Pollers |-> {}]
  /\ stream = <<>>
  /\ failures = 0

-----------------------------------------------------------------------------
(* A handler's transaction *)

\* It begins: this is the created_at of the event it will insert.
Begin(r) ==
  /\ table[r] = "free"
  /\ \A q \in Rows : q < r => table[q] # "free"
  /\ Cardinality(In("open")) < MaxOpen
  /\ table' = [table EXCEPT ![r] = "open"]
  /\ UNCHANGED <<batch, done, stream, failures>>

\* It commits the mutation and the outbox row, or neither.
Commit(r) ==
  /\ table[r] = "open"
  /\ table' = [table EXCEPT ![r] = "stored"]
  /\ UNCHANGED <<batch, done, stream, failures>>

Abort(r) ==
  /\ table[r] = "open"
  /\ table' = [table EXCEPT ![r] = "aborted"]
  /\ UNCHANGED <<batch, done, stream, failures>>

-----------------------------------------------------------------------------
(* poll_once *)

Locked == UNION {batch[p] : p \in Pollers}

\* Mutant: plain SELECT without FOR UPDATE SKIP LOCKED.
VisibleUnlocked(p) == In("stored")

\* Mutant: uncommitted rows are read.
VisibleDirty(p) == (In("stored") \cup In("open")) \ Locked

\* Rows the SELECT of a poller sees: committed and not locked by another.
Visible(p) == In("stored") \ Locked

\* ORDER BY created_at ASC LIMIT batch_size: all of S or its oldest rows.
IsOldest(B, S) ==
  /\ B \subseteq S
  /\ \A r \in B, q \in S \ B : r < q
  /\ \/ B = S /\ Cardinality(B) <= BatchSize
     \/ Cardinality(B) = BatchSize

SelectBatch(p) ==
  /\ batch[p] = {}
  /\ \E B \in SUBSET Visible(p) :
       /\ B # {}
       /\ IsOldest(B, Visible(p))
       /\ batch' = [batch EXCEPT ![p] = B]
  /\ UNCHANGED <<table, done, stream, failures>>

\* The for loop goes through the rows in the order of the SELECT.
IsNext(p, r) ==
  /\ r \in batch[p] \ done[p]
  /\ \A q \in batch[p] \ done[p] : r <= q

\* js.publish(..).await?.await?: stored and acknowledged.
Publish(p) ==
  /\ \E r \in Rows :
       /\ IsNext(p, r)
       /\ stream' = Append(stream, r)
       /\ done' = [done EXCEPT ![p] = @ \cup {r}]
  /\ UNCHANGED <<table, batch, failures>>

\* The transaction is rolled back: locks and published_ids are gone.
RollBack(p) ==
  /\ batch' = [batch EXCEPT ![p] = {}]
  /\ done' = [done EXCEPT ![p] = {}]

\* Mutant: the loop logs the error and goes on instead of bailing out.
PublishErrorIgnored(p) ==
  /\ failures < MaxFailures
  /\ failures' = failures + 1
  /\ \E r \in Rows : IsNext(p, r) /\ done' = [done EXCEPT ![p] = @ \cup {r}]
  /\ UNCHANGED <<table, batch, stream>>

\* The publish fails: not stored, or stored with the acknowledgement lost.
PublishFails(p) ==
  /\ failures < MaxFailures
  /\ failures' = failures + 1
  /\ \E r \in Rows :
       /\ IsNext(p, r)
       /\ stream' \in {stream, Append(stream, r)}
  /\ RollBack(p)
  /\ UNCHANGED table

\* DELETE WHERE id = ANY(published_ids); COMMIT.
DeleteBatch(p) ==
  /\ batch[p] # {} /\ done[p] = batch[p]
  /\ table' = [r \in Rows |-> IF r \in done[p] THEN "deleted" ELSE table[r]]
  /\ RollBack(p)
  /\ UNCHANGED <<stream, failures>>

\* The commit fails, or the instance dies inside the transaction.
PollerFails(p) ==
  /\ failures < MaxFailures
  /\ failures' = failures + 1
  /\ batch[p] # {}
  /\ RollBack(p)
  /\ UNCHANGED <<table, stream>>

-----------------------------------------------------------------------------

\* cleanup_stale: DELETE WHERE created_at < NOW() - stale_mins.  It waits for
\* the locks of the pollers, so none of the rows is locked when it acts.
cleanup_stale ==
  /\ Stale
  /\ \E k \in Rows :
       LET old == {r \in In("stored") : r <= k} IN
       /\ old # {} /\ old \cap Locked = {}
       /\ table' = [r \in Rows |-> IF r \in old THEN "purged" ELSE table[r]]
  /\ UNCHANGED <<batch, done, stream, failures>>

Poll(p) == SelectBatch(p) \/ Publish(p) \/ DeleteBatch(p)

Next ==
  \/ \E r \in Rows : Begin(r) \/ Commit(r) \/ Abort(r)
  \/ \E p \in Pollers : Poll(p) \/ PublishFails(p) \/ PollerFails(p)
  \/ cleanup_stale

\* Every instance's poller runs once per second.
Spec == Init /\ [][Next]_vars /\ \A p \in Pollers : WF_vars(Poll(p))

-----------------------------------------------------------------------------
(* Properties *)

TypeOK ==
  /\ table \in [Rows -> {"free", "open", "stored", "aborted", "deleted", "purged"}]
  /\ batch \in [Pollers -> SUBSET Rows]
  /\ done \in [Pollers -> SUBSET Rows]
  /\ stream \in Seq(Rows)
  /\ failures \in 0 .. MaxFailures

\* Row locks: two pollers never work on one row, a poller holds only rows that
\* are still in the table, and what it counts as published is on the stream.
LockInv ==
  /\ \A p, q \in Pollers : p # q => batch[p] \cap batch[q] = {}
  /\ \A p \in Pollers : /\ batch[p] \subseteq In("stored")
                        /\ done[p] \subseteq batch[p] \cap Published

\* A row is deleted only when its event is on the stream, so that no crash, error
\* or race of pollers loses it.
NoEventLost == \A r \in Rows : table[r] = "deleted" => r \in Published

Committed == {r \in Rows : table[r] \in {"stored", "deleted", "purged"}}

\* The outbox implements the channel of its users: only committed events are
\* delivered, a purged one is not replayed, and every committed event is
\* eventually delivered or purged.
Channel == INSTANCE EventChannel WITH
  Messages <- Rows, MayDrop <- Stale, sent <- Committed, dropped <- In("purged")
ChannelRefinement == Channel!ChannelSpec

\* Events reach the stream in the order of their created_at ("delivered in
\* insertion order"): an event that is ever delivered is delivered before the
\* first delivery of any younger one.
DeliveredInOrder ==
  \A i \in DOMAIN stream, r \in Rows :
    r < stream[i] /\ r \in Published => \E j \in 1 .. i : stream[j] = r

\* Without errors an event is published once: a second poller skips locked rows
\* rather than publish the same event again.
OnceWithoutErrors ==
  failures = 0 => \A i, j \in DOMAIN stream : stream[i] = stream[j] => i = j
=============================================================================
