---------------------------- MODULE OutboxProofs ----------------------------
(***************************************************************************)
(* The outbox loses no event and delivers no event that was not committed, *)
(* for any number of API instances, events, overlapping transactions and   *)
(* errors.                                                                 *)
(***************************************************************************)
EXTENDS Outbox, TLAPS

\* Publishing adds one delivery and keeps the others.
LEMMA AppendPublishes ==
  ASSUME NEW r \in Rows, stream \in Seq(Rows), stream' = Append(stream, r)
  PROVE  stream' \in Seq(Rows) /\ Published' = Published \cup {r}
<1>1. /\ Len(stream') = Len(stream) + 1
      /\ \A i \in 1 .. Len(stream) : stream'[i] = stream[i]
      /\ stream'[Len(stream) + 1] = r
      /\ stream' \in Seq(Rows)
  OBVIOUS
<1>2. DOMAIN stream = 1 .. Len(stream) /\ DOMAIN stream' = 1 .. Len(stream')
      /\ Len(stream) \in Nat
  BY <1>1
<1> QED BY <1>1, <1>2 DEF Published

\* The inductive invariant: NoEventLost needs that what a poller is about to
\* delete is on the stream, which is LockInv.
OutboxInv == TypeOK /\ LockInv /\ NoEventLost

LEMMA OutboxInit == OutboxAssumption /\ Init => OutboxInv
<1> SUFFICES ASSUME OutboxAssumption, Init PROVE OutboxInv
  OBVIOUS
<1>1. TypeOK
  BY DEF Init, TypeOK, OutboxAssumption
<1>2. LockInv
  BY DEF Init, LockInv
<1>3. NoEventLost
  BY DEF Init, NoEventLost
<1> QED BY <1>1, <1>2, <1>3 DEF OutboxInv

LEMMA OutboxStep ==
  ASSUME OutboxAssumption, OutboxInv, [Next]_vars
  PROVE  OutboxInv'
<1> USE DEF OutboxInv, TypeOK, Rows
<1>1. ASSUME NEW r \in Rows, Begin(r) \/ Commit(r) \/ Abort(r) PROVE OutboxInv'
  <2>1. /\ UNCHANGED <<batch, done, stream, failures>>
        /\ \A q \in Rows : q # r => table'[q] = table[q]
        /\ table[r] # "stored" /\ table'[r] \in {"open", "stored", "aborted"}
        /\ table' \in [Rows -> {"free", "open", "stored", "aborted", "deleted", "purged"}]
    BY <1>1 DEF Begin, Commit, Abort
  <2>2. Published' = Published
    BY <2>1 DEF Published
  <2>3. LockInv'
    BY <2>1, <2>2 DEF LockInv, In
  <2>4. NoEventLost'
    BY <2>1, <2>2 DEF NoEventLost
  <2> QED BY <2>1, <2>3, <2>4
<1>2. ASSUME NEW p \in Pollers, SelectBatch(p) PROVE OutboxInv'
  <2>1. PICK B \in SUBSET Visible(p) : batch' = [batch EXCEPT ![p] = B]
    BY <1>2 DEF SelectBatch
  <2>2. batch[p] = {} /\ UNCHANGED <<table, done, stream, failures>>
    BY <1>2 DEF SelectBatch
  <2>3. Published' = Published
    BY <2>2 DEF Published
  <2>4. B \subseteq In("stored") /\ \A q \in Pollers : B \cap batch[q] = {}
    BY <2>1 DEF Visible, Locked
  <2>5. TypeOK'
    BY <2>1, <2>2, <2>4 DEF In
  <2>6. LockInv'
    <3>1. ASSUME NEW q \in Pollers, NEW u \in Pollers, q # u
          PROVE  batch'[q] \cap batch'[u] = {}
      BY <2>1, <2>4, <3>1 DEF LockInv
    <3>2. ASSUME NEW q \in Pollers
          PROVE  batch'[q] \subseteq In("stored")' /\ done'[q] \subseteq batch'[q] \cap Published'
      <4>1. CASE q = p
        <5>1. done[p] = {} /\ batch'[p] = B /\ In("stored")' = In("stored")
          BY <2>1, <2>2 DEF LockInv, In
        <5> QED BY <2>2, <2>4, <4>1, <5>1
      <4>2. CASE q # p
        BY <2>1, <2>2, <2>3, <4>2 DEF LockInv, In
      <4> QED BY <4>1, <4>2
    <3> QED BY <3>1, <3>2 DEF LockInv
  <2>7. NoEventLost'
    BY <2>2, <2>3 DEF NoEventLost
  <2> QED BY <2>5, <2>6, <2>7
<1>3. ASSUME NEW p \in Pollers, Publish(p) PROVE OutboxInv'
  <2>1. PICK r \in Rows : /\ IsNext(p, r)
                          /\ stream' = Append(stream, r)
                          /\ done' = [done EXCEPT ![p] = @ \cup {r}]
    BY <1>3 DEF Publish
  <2>2. UNCHANGED <<table, batch, failures>>
    BY <1>3 DEF Publish
  <2>3. stream' \in Seq(Rows) /\ Published' = Published \cup {r}
    BY <2>1, AppendPublishes
  <2>4. TypeOK'
    BY <2>1, <2>2, <2>3
  <2>5. LockInv'
    BY <2>1, <2>2, <2>3 DEF LockInv, In, IsNext
  <2>6. NoEventLost'
    BY <2>2, <2>3 DEF NoEventLost
  <2> QED BY <2>4, <2>5, <2>6
<1>4. ASSUME NEW p \in Pollers, RollBack(p), UNCHANGED table, failures' \in 0 .. MaxFailures,
             stream' \in Seq(Rows), Published \subseteq Published'
      PROVE  OutboxInv'
  <2>1. TypeOK'
    BY <1>4 DEF RollBack
  <2>2. LockInv'
    BY <1>4 DEF RollBack, LockInv, In
  <2>3. NoEventLost'
    BY <1>4 DEF NoEventLost
  <2> QED BY <2>1, <2>2, <2>3
<1>5. ASSUME NEW p \in Pollers, PublishFails(p) PROVE OutboxInv'
  <2>1. PICK r \in Rows : stream' \in {stream, Append(stream, r)}
    BY <1>5 DEF PublishFails
  <2>2. stream' \in Seq(Rows) /\ Published \subseteq Published'
    <3>1. CASE stream' = stream
      BY <3>1 DEF Published
    <3>2. CASE stream' = Append(stream, r)
      BY <3>2, AppendPublishes
    <3> QED BY <2>1, <3>1, <3>2
  <2>3. failures' \in 0 .. MaxFailures
    BY <1>5 DEF PublishFails, OutboxAssumption
  <2> QED BY <1>4, <1>5, <2>2, <2>3 DEF PublishFails
<1>6. ASSUME NEW p \in Pollers, PollerFails(p) PROVE OutboxInv'
  <2>1. failures' \in 0 .. MaxFailures
    BY <1>6 DEF PollerFails, OutboxAssumption
  <2>2. Published' = Published /\ stream' = stream
    BY <1>6 DEF PollerFails, Published
  <2> QED BY <1>4, <1>6, <2>1, <2>2 DEF PollerFails
<1>7. ASSUME NEW p \in Pollers, DeleteBatch(p) PROVE OutboxInv'
  <2>1. /\ table' = [r \in Rows |-> IF r \in done[p] THEN "deleted" ELSE table[r]]
        /\ batch' = [batch EXCEPT ![p] = {}] /\ done' = [done EXCEPT ![p] = {}]
        /\ UNCHANGED <<stream, failures>> /\ done[p] = batch[p]
    BY <1>7 DEF DeleteBatch, RollBack
  <2>2. Published' = Published
    BY <2>1 DEF Published
  <2>3. TypeOK'
    BY <2>1
  <2>4. LockInv'
    <3>1. \A q, u \in Pollers : q # u => batch'[q] \cap batch'[u] = {}
      BY <2>1 DEF LockInv
    <3>2. ASSUME NEW q \in Pollers
          PROVE  batch'[q] \subseteq In("stored")' /\ done'[q] \subseteq batch'[q] \cap Published'
      <4>1. CASE q = p
        BY <2>1, <4>1
      <4>2. CASE q # p
        <5>1. batch'[q] = batch[q] /\ done'[q] = done[q] /\ batch[q] \cap done[p] = {}
          BY <2>1, <4>2 DEF LockInv
        <5> QED BY <2>1, <2>2, <5>1 DEF LockInv, In
      <4> QED BY <4>1, <4>2
    <3> QED BY <3>1, <3>2 DEF LockInv
  <2>5. NoEventLost'
    BY <2>1, <2>2 DEF NoEventLost, LockInv
  <2> QED BY <2>3, <2>4, <2>5
<1>8. CASE UNCHANGED vars
  <2>1. Published' = Published
    BY <1>8 DEF vars, Published
  <2> QED BY <1>8, <2>1 DEF vars, LockInv, NoEventLost, In
<1>9. CASE cleanup_stale
  <2>1. PICK old \in SUBSET In("stored") :
          /\ old \cap Locked = {}
          /\ table' = [r \in Rows |-> IF r \in old THEN "purged" ELSE table[r]]
    BY <1>9 DEF cleanup_stale
  <2>2. UNCHANGED <<batch, done, stream, failures>>
    BY <1>9 DEF cleanup_stale
  <2>3. Published' = Published
    BY <2>2 DEF Published
  <2>4. TypeOK'
    BY <2>1, <2>2
  <2>5. \A q \in Pollers : batch[q] \cap old = {}
    BY <2>1 DEF Locked
  <2>6. \A q \in Pollers : batch'[q] \subseteq In("stored")'
    BY <2>1, <2>2, <2>5 DEF LockInv, In
  <2>7. LockInv'
    BY <2>2, <2>3, <2>6 DEF LockInv
  <2>8. NoEventLost'
    BY <2>1, <2>3 DEF NoEventLost
  <2> QED BY <2>4, <2>7, <2>8
<1> QED BY <1>1, <1>2, <1>3, <1>5, <1>6, <1>7, <1>8, <1>9 DEF Next, Poll

\* Rows stay locked by one poller at a time and are locked only while they are
\* in the table, purges included.
THEOREM OutboxLocks == Spec => [](TypeOK /\ LockInv)
<1>1. Init => OutboxInv
  BY OutboxAssumption, OutboxInit
<1>2. OutboxInv /\ [Next]_vars => OutboxInv'
  BY OutboxAssumption, OutboxStep
<1>3. OutboxInv => TypeOK /\ LockInv
  BY DEF OutboxInv
<1> QED BY <1>1, <1>2, <1>3, PTL DEF Spec

\* A row leaves the table only published or purged for its age, whatever fails
\* and however the pollers of several API instances interleave.
THEOREM OutboxKeepsEvents == Spec => []NoEventLost
<1>1. Init => OutboxInv
  BY OutboxAssumption, OutboxInit
<1>2. OutboxInv /\ [Next]_vars => OutboxInv'
  BY OutboxAssumption, OutboxStep
<1>3. OutboxInv => NoEventLost
  BY DEF OutboxInv
<1> QED BY <1>1, <1>2, <1>3, PTL DEF Spec

\* The safety part of the refinement: every step is a Send, a Deliver of a
\* committed event that was not purged, a Drop, or invisible to the users of the
\* channel; with Stale = FALSE no step is a Drop.
THEOREM OutboxImplementsChannel == Spec => Channel!ChannelSafe
<1> DEFINE Seen == <<Committed, In("purged"), stream>>
<1>1. Init => Channel!ChannelInit
  BY DEF Init, Channel!ChannelInit, Committed, In
<1>2. ASSUME TypeOK, LockInv, [Next]_vars
      PROVE  [Channel!ChannelNext]_(Channel!channelVars)
  <2> USE <1>2 DEF TypeOK
  <2>1. ASSUME NEW r \in Rows, Begin(r) \/ Abort(r)
        PROVE  UNCHANGED Seen
    BY <2>1 DEF Begin, Abort, Committed, In
  <2>2. ASSUME NEW r \in Rows, Commit(r) PROVE Channel!Send(r)
    BY <2>2 DEF Commit, Committed, In, Channel!Send
  <2>3. ASSUME NEW p \in Pollers, NEW r \in Rows, IsNext(p, r), UNCHANGED table,
               stream' = Append(stream, r)
        PROVE  Channel!Deliver(r)
    <3>1. r \in Committed \ In("purged")
      BY <2>3 DEF IsNext, LockInv, In, Committed
    <3>2. Committed' = Committed /\ In("purged")' = In("purged")
      BY <2>3 DEF In, Committed
    <3> QED BY <2>3, <3>1, <3>2 DEF Channel!Deliver
  <2>4. ASSUME UNCHANGED <<table, stream>> PROVE UNCHANGED Seen
    BY <2>4 DEF Committed, In
  <2>5. ASSUME NEW p \in Pollers, DeleteBatch(p) PROVE UNCHANGED Seen
    <3>1. done[p] \subseteq In("stored")
      BY DEF LockInv
    <3> QED BY <2>5, <3>1 DEF DeleteBatch, In, Committed
  <2>6. ASSUME cleanup_stale PROVE \E S \in SUBSET Rows : Channel!Drop(S)
    <3>1. PICK old \in SUBSET In("stored") :
            table' = [r \in Rows |-> IF r \in old THEN "purged" ELSE table[r]]
      BY <2>6 DEF cleanup_stale
    <3>2. old \in SUBSET Rows /\ old \subseteq Committed
      BY DEF In, Committed
    <3>3. Committed' = Committed /\ In("purged")' = In("purged") \cup old
      BY <3>1 DEF In, Committed
    <3> QED BY <2>6, <3>2, <3>3 DEF cleanup_stale, Channel!Drop
  <2>7. ASSUME NEW p \in Pollers, Poll(p) \/ PublishFails(p) \/ PollerFails(p)
        PROVE  (\E r \in Rows : Channel!Deliver(r)) \/ UNCHANGED Seen
    <3>1. CASE SelectBatch(p) \/ PollerFails(p)
      BY <2>4, <3>1 DEF SelectBatch, PollerFails
    <3>2. CASE Publish(p) \/ PublishFails(p)
      <4>1. PICK r \in Rows : /\ IsNext(p, r) /\ UNCHANGED table
                              /\ stream' \in {stream, Append(stream, r)}
        BY <3>2 DEF Publish, PublishFails
      <4> QED BY <2>3, <2>4, <4>1
    <3> QED BY <2>5, <2>7, <3>1, <3>2 DEF Poll
  <2>8. CASE UNCHANGED vars
    BY <2>4, <2>8 DEF vars, Channel!channelVars
  <2> QED BY <1>2, <2>1, <2>2, <2>6, <2>7, <2>8
          DEF Next, Channel!ChannelNext, Channel!channelVars
<1> QED BY <1>1, <1>2, OutboxLocks, PTL DEF Spec, Channel!ChannelSafe

-----------------------------------------------------------------------------
(* One publication per event while nothing fails *)

\* While nothing has failed, no event is on the stream twice, and a published
\* event is either deleted or counted in the transaction that still locks it:
\* no later SELECT can return it.
OnceInv ==
  failures = 0 =>
    /\ \A i, j \in DOMAIN stream : stream[i] = stream[j] => i = j
    /\ \A r \in Published :
         table[r] = "deleted" \/ \E p \in Pollers : r \in done[p]

LEMMA OnceStep ==
  ASSUME OutboxAssumption, OutboxInv, OnceInv, [Next]_vars
  PROVE  OnceInv'
<1> USE DEF OutboxInv, TypeOK, Rows
<1>0. Published \subseteq Rows
  <2>1. \A i \in DOMAIN stream : stream[i] \in Rows
    OBVIOUS
  <2> QED BY <2>1 DEF Published
<1>1. ASSUME UNCHANGED <<stream, done, failures>>,
             \A r \in Rows : table[r] = "deleted" => table'[r] = "deleted"
      PROVE  OnceInv'
  <2>1. Published' = Published
    BY <1>1 DEF Published
  <2> QED BY <1>0, <1>1, <2>1 DEF OnceInv
<1>2. ASSUME NEW r \in Rows, Begin(r) \/ Commit(r) \/ Abort(r) PROVE OnceInv'
  BY <1>1, <1>2 DEF Begin, Commit, Abort
<1>3. ASSUME NEW p \in Pollers, SelectBatch(p) PROVE OnceInv'
  BY <1>1, <1>3 DEF SelectBatch
<1>4. CASE cleanup_stale
  BY <1>1, <1>4 DEF cleanup_stale, In
<1>5. ASSUME NEW p \in Pollers, PublishFails(p) \/ PollerFails(p) PROVE OnceInv'
  BY <1>5 DEF PublishFails, PollerFails, OnceInv, OutboxAssumption
<1>6. ASSUME NEW p \in Pollers, DeleteBatch(p) PROVE OnceInv'
  <2>1. /\ table' = [r \in Rows |-> IF r \in done[p] THEN "deleted" ELSE table[r]]
        /\ done' = [done EXCEPT ![p] = {}] /\ UNCHANGED <<stream, failures>>
    BY <1>6 DEF DeleteBatch, RollBack
  <2>2. Published' = Published
    BY <2>1 DEF Published
  <2>3. ASSUME NEW r \in Published, failures = 0
        PROVE  table'[r] = "deleted" \/ \E q \in Pollers : r \in done'[q]
    BY <1>0, <2>1, <2>3 DEF OnceInv
  <2> QED BY <2>1, <2>2, <2>3 DEF OnceInv
<1>7. ASSUME NEW p \in Pollers, Publish(p) PROVE OnceInv'
  <2>1. PICK r \in Rows : /\ IsNext(p, r)
                          /\ stream' = Append(stream, r)
                          /\ done' = [done EXCEPT ![p] = @ \cup {r}]
    BY <1>7 DEF Publish
  <2>2. UNCHANGED <<table, batch, failures>>
    BY <1>7 DEF Publish
  <2>3. Published' = Published \cup {r}
    BY <2>1, AppendPublishes
  <2>4. SUFFICES ASSUME failures = 0 PROVE OnceInv'
    BY <2>2 DEF OnceInv
  \* The row is in the table and no other transaction holds it.
  <2>5. r \notin Published
    <3>1. table[r] = "stored" /\ r \in batch[p] /\ r \notin done[p]
      BY <2>1 DEF IsNext, LockInv, In
    <3>2. \A q \in Pollers : r \notin done[q]
      BY <3>1 DEF LockInv
    <3> QED BY <2>4, <3>1, <3>2 DEF OnceInv
  <2>6. \A i, j \in DOMAIN stream' : stream'[i] = stream'[j] => i = j
    <3>1. /\ Len(stream) \in Nat /\ DOMAIN stream = 1 .. Len(stream)
          /\ DOMAIN stream' = 1 .. (Len(stream) + 1)
          /\ \A i \in 1 .. Len(stream) : stream'[i] = stream[i]
          /\ stream'[Len(stream) + 1] = r
      BY <2>1
    <3>2. \A i \in 1 .. Len(stream) : stream'[i] # r
      BY <2>5, <3>1 DEF Published
    <3>3. \A i, j \in 1 .. Len(stream) : stream'[i] = stream'[j] => i = j
      BY <2>4, <3>1 DEF OnceInv
    <3>4. ASSUME NEW i \in 1 .. (Len(stream) + 1), NEW j \in 1 .. (Len(stream) + 1),
                 stream'[i] = stream'[j]
          PROVE  i = j
      <4>1. i \in 1 .. Len(stream) <=> j \in 1 .. Len(stream)
        BY <3>1, <3>2, <3>4
      <4> QED BY <3>1, <3>3, <3>4, <4>1
    <3> QED BY ONLY <3>1, <3>4
  <2>7. ASSUME NEW q \in Published'
        PROVE  table'[q] = "deleted" \/ \E u \in Pollers : q \in done'[u]
    <3>1. CASE q = r
      BY <2>1, <3>1
    <3>2. CASE q \in Published
      BY <2>1, <2>2, <2>4, <3>2 DEF OnceInv
    <3> QED BY <2>3, <3>1, <3>2
  <2> QED BY <2>6, <2>7 DEF OnceInv
<1>8. CASE UNCHANGED vars
  BY <1>1, <1>8 DEF vars
<1> QED BY <1>2, <1>3, <1>4, <1>5, <1>6, <1>7, <1>8 DEF Next, Poll

\* As long as no publish, commit or instance fails, an event is published once,
\* however many pollers run, however their transactions interleave and whatever
\* is purged: SKIP LOCKED and the DELETE in the same transaction suffice.
THEOREM OutboxPublishesOnce == Spec => []OnceWithoutErrors
<1>1. Init => OutboxInv /\ OnceInv
  <2>1. Init => OnceInv
    BY DEF Init, OnceInv, Published
  <2> QED BY <2>1, OutboxAssumption, OutboxInit
<1>2. OutboxInv /\ OnceInv /\ [Next]_vars => (OutboxInv /\ OnceInv)'
  BY OutboxAssumption, OutboxStep, OnceStep
<1>3. OnceInv => OnceWithoutErrors
  BY DEF OnceInv, OnceWithoutErrors
<1> QED BY <1>1, <1>2, <1>3, PTL DEF Spec
=============================================================================
