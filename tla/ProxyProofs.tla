----------------------------- MODULE ProxyProofs -----------------------------
(***************************************************************************)
(* ProxyRouter for every number of services and requests: how far the      *)
(* per-service concurrency limit of try_acquire_concurrency holds when     *)
(* first requests race to make the service's semaphore; that no Metal      *)
(* invocation is billed twice, whatever the usage flusher fails to publish *)
(* and retries; and that a request goes through upstream_peer without a    *)
(* loop.                                                                   *)
(***************************************************************************)
EXTENDS ProxyRouter, FiniteSetTheorems, FunctionTheorems, TLAPS

\* The part of the state the limit rests on.
SemTypes ==
  /\ pc \in [Requests -> {"idle", "mint", "check", "lookup", "found", "wait", "count",
                         "counter", "routed", "done"}]
  /\ slug \in [Requests -> Slugs]
  /\ sems \in [Slugs -> SUBSET Requests]
  /\ permit \in [Requests -> SUBSET Requests]
  /\ mints \in [Slugs -> Nat]

\* A request that has been through try_acquire_concurrency.
Entered(r) == pc[r] \notin {"idle", "mint"}

\* The semaphores of a service that can still matter: the one in slug_semaphores
\* and those some request of the service holds a permit of.
InUse(s) == sems[s] \cup {m \in Requests : \E r \in Requests : slug[r] = s /\ permit[r] = {m}}

\* A semaphore hands out at most MaxPermits permits; a request that has made none
\* names none; and a service has no more semaphores in use than were made for it.
LimitInv ==
  /\ \A m \in Requests : Cardinality(Holders(m)) <= MaxPermits
  /\ \A r \in Requests : ~Entered(r) => permit[r] = {}
  /\ \A r \in Requests : permit[r] # {} => \E m \in Requests : permit[r] = {m} /\ Entered(m)
  /\ \A s \in Slugs : \A m \in sems[s] : Entered(m)
  /\ \A s \in Slugs : Cardinality(InUse(s)) <= mints[s]

IInv == SemTypes /\ LimitInv

-----------------------------------------------------------------------------
(* Steps *)

\* A step that hands out no permit: requests move on, and some give theirs back.
Quiet ==
  /\ pc' \in [Requests -> {"idle", "mint", "check", "lookup", "found", "wait", "count",
                          "counter", "routed", "done"}]
  /\ slug' \in [Requests -> Slugs]
  /\ permit' \in [Requests -> SUBSET Requests]
  /\ \A r \in Requests : /\ permit'[r] \in {permit[r], {}}
                         /\ Entered(r) => Entered(r)'
                         /\ Entered(r)' /\ ~Entered(r) => permit'[r] = {}
                         /\ permit'[r] # {} => slug'[r] = slug[r]
  /\ UNCHANGED <<sems, mints>>

LEMMA FiniteRequests ==
  ASSUME ProxyAssumption, NEW S \in SUBSET Requests
  PROVE  IsFiniteSet(S) /\ Cardinality(S) \in Nat
BY FS_Subset, FS_CardinalityType DEF ProxyAssumption

LEMMA Fewer ==
  ASSUME ProxyAssumption, NEW S \in SUBSET Requests, NEW T \in SUBSET S
  PROVE  Cardinality(T) <= Cardinality(S)
BY FiniteRequests, FS_Subset

LEMMA OneMore ==
  ASSUME ProxyAssumption, NEW S \in SUBSET Requests, NEW r \in Requests,
         NEW T \in SUBSET (S \cup {r})
  PROVE  Cardinality(T) <= Cardinality(S) + 1
<1>1. PICK U \in SUBSET Requests : U = S \cup {r}
  OBVIOUS
<1>2. Cardinality(U) \in {Cardinality(S), Cardinality(S) + 1}
  BY <1>1, FiniteRequests, FS_AddElement
<1>3. /\ Cardinality(T) <= Cardinality(U)
      /\ Cardinality(S) \in Nat /\ Cardinality(T) \in Nat /\ Cardinality(U) \in Nat
  <2>1. T \in SUBSET U /\ T \in SUBSET Requests
    BY <1>1
  <2> QED BY <2>1, Fewer, FiniteRequests
<1> QED BY <1>2, <1>3

LEMMA InUseRequests ==
  ASSUME SemTypes, NEW s \in Slugs
  PROVE  InUse(s) \in SUBSET Requests
BY DEF SemTypes, InUse

LEMMA QuietStep ==
  ASSUME ProxyAssumption, IInv, Quiet
  PROVE  IInv'
<1>1. SemTypes'
  BY DEF IInv, SemTypes, Quiet
<1>2. ASSUME NEW m \in Requests PROVE Cardinality(Holders(m)') <= MaxPermits
  <2>1. PICK H \in SUBSET Requests, K \in SUBSET Requests : H = Holders(m) /\ K = Holders(m)'
    BY DEF Holders
  <2>2. K \subseteq H
    BY <2>1 DEF Holders, Quiet
  <2>3. Cardinality(K) <= Cardinality(H) /\ Cardinality(K) \in Nat /\ Cardinality(H) \in Nat
    BY <2>2, Fewer, FiniteRequests
  <2>4. Cardinality(H) <= MaxPermits /\ MaxPermits \in Nat
    BY <2>1 DEF IInv, LimitInv, ProxyAssumption
  <2>5. Cardinality(K) <= MaxPermits
    BY ONLY <2>3, <2>4
  <2> QED BY <2>1, <2>5
<1>3. \A r \in Requests : ~Entered(r)' => permit'[r] = {}
  BY DEF IInv, LimitInv, Quiet
<1>4. \A r \in Requests : permit'[r] # {} => \E m \in Requests : permit'[r] = {m} /\ Entered(m)'
  BY DEF IInv, LimitInv, Quiet
<1>5. \A s \in Slugs : \A m \in sems'[s] : Entered(m)'
  BY DEF IInv, LimitInv, Quiet, SemTypes
<1>6. ASSUME NEW s \in Slugs PROVE Cardinality(InUse(s)') <= mints'[s]
  <2>1. PICK U \in SUBSET Requests, V \in SUBSET Requests : U = InUse(s) /\ V = InUse(s)'
    BY <1>1, InUseRequests DEF IInv, SemTypes, InUse
  <2>2. V \subseteq U
    BY <2>1 DEF InUse, Quiet
  <2>3. Cardinality(V) <= Cardinality(U) /\ Cardinality(V) \in Nat /\ Cardinality(U) \in Nat
    BY <2>2, Fewer, FiniteRequests
  <2>4. Cardinality(U) <= mints[s] /\ mints[s] \in Nat /\ mints' = mints
    BY <2>1 DEF IInv, LimitInv, SemTypes, Quiet
  <2>5. Cardinality(V) <= mints[s]
    BY ONLY <2>3, <2>4
  <2> QED BY <2>1, <2>4, <2>5
<1> QED BY <1>1, <1>2, <1>3, <1>4, <1>5, <1>6 DEF IInv, LimitInv

\* A request takes a permit of its service's semaphore while one is free.
LEMMA EnterStep ==
  ASSUME ProxyAssumption, IInv, NEW r \in Requests, NEW s \in Slugs, NEW m \in sems[s],
         pc[r] = "idle", PermitFree(m),
         slug' = [slug EXCEPT ![r] = s], Goto(r, "check"), permit' = [permit EXCEPT ![r] = {m}],
         UNCHANGED <<sems, mints>>
  PROVE  IInv'
<1>0. /\ m \in Requests /\ Entered(m) /\ ~Entered(r) /\ permit[r] = {}
      /\ pc' = [pc EXCEPT ![r] = "check"]
  BY DEF IInv, SemTypes, LimitInv, Entered, Goto
<1>1. SemTypes'
  BY <1>0 DEF IInv, SemTypes
<1>2. /\ permit'[r] = {m} /\ slug'[r] = s /\ Entered(r)'
      /\ \A q \in Requests : q # r => permit'[q] = permit[q] /\ slug'[q] = slug[q] /\ pc'[q] = pc[q]
      /\ \A q \in Requests : Entered(q) => Entered(q)'
  BY <1>0 DEF IInv, SemTypes, Entered
<1>3. ASSUME NEW k \in Requests PROVE Cardinality(Holders(k)') <= MaxPermits
  <2>1. PICK H \in SUBSET Requests, K \in SUBSET Requests : H = Holders(k) /\ K = Holders(k)'
    BY DEF Holders
  <2>2. /\ Cardinality(H) <= MaxPermits /\ MaxPermits \in Nat /\ Cardinality(H) \in Nat
        /\ Cardinality(K) \in Nat
    BY <2>1, FiniteRequests DEF IInv, LimitInv, ProxyAssumption
  <2>3. CASE k = m
    <3>1. K \subseteq H \cup {r}
      BY <1>2, <2>1 DEF Holders
    <3>2. Cardinality(H) < MaxPermits
      BY <2>1, <2>3 DEF PermitFree
    <3>3. Cardinality(K) <= Cardinality(H) + 1
      BY <3>1, OneMore
    <3>4. Cardinality(K) <= MaxPermits
      BY ONLY <2>2, <3>2, <3>3
    <3> QED BY <2>1, <3>4
  <2>4. CASE k # m
    <3>1. K \subseteq H
      BY <1>2, <2>1, <2>4 DEF Holders
    <3>2. Cardinality(K) <= Cardinality(H)
      BY <3>1, Fewer
    <3>3. Cardinality(K) <= MaxPermits
      BY ONLY <2>2, <3>2
    <3> QED BY <2>1, <3>3
  <2> QED BY <2>3, <2>4
<1>4. ASSUME NEW q \in Requests PROVE ~Entered(q)' => permit'[q] = {}
  BY <1>2 DEF IInv, LimitInv
<1>5. ASSUME NEW q \in Requests, permit'[q] # {}
      PROVE  \E k \in Requests : permit'[q] = {k} /\ Entered(k)'
  BY <1>0, <1>2, <1>5 DEF IInv, LimitInv
<1>6. \A o \in Slugs : \A k \in sems'[o] : Entered(k)'
  BY <1>2 DEF IInv, LimitInv, SemTypes
<1>7. ASSUME NEW o \in Slugs PROVE Cardinality(InUse(o)') <= mints'[o]
  <2>1. PICK U \in SUBSET Requests, V \in SUBSET Requests : U = InUse(o) /\ V = InUse(o)'
    BY <1>1, InUseRequests DEF IInv, SemTypes, InUse
  <2>2. V \subseteq U
    <3>1. ASSUME NEW k \in Requests, NEW q \in Requests, slug'[q] = o, permit'[q] = {k}
          PROVE  k \in InUse(o)
      <4>1. CASE q = r
        BY <1>2, <3>1, <4>1 DEF InUse
      <4>2. CASE q # r
        BY <1>2, <3>1, <4>2 DEF InUse
      <4> QED BY <4>1, <4>2
    <3> QED BY <2>1, <3>1 DEF InUse
  <2>3. Cardinality(V) <= Cardinality(U) /\ Cardinality(V) \in Nat /\ Cardinality(U) \in Nat
    BY <2>2, Fewer, FiniteRequests
  <2>4. Cardinality(U) <= mints[o] /\ mints[o] \in Nat /\ mints' = mints
    BY <2>1 DEF IInv, LimitInv, SemTypes
  <2>5. Cardinality(V) <= mints[o]
    BY ONLY <2>3, <2>4
  <2> QED BY <2>1, <2>4, <2>5
<1> QED BY <1>1, <1>3, <1>4, <1>5, <1>6, <1>7 DEF IInv, LimitInv

\* A request that found no semaphore makes one, over whatever is there by now, and
\* takes its first permit.
LEMMA MintStep ==
  ASSUME ProxyAssumption, IInv, NEW r \in Requests, MintSemaphore(r)
  PROVE  IInv'
<1>0. /\ ~Entered(r) /\ permit[r] = {} /\ slug' = slug /\ slug[r] \in Slugs
      /\ pc' = [pc EXCEPT ![r] = "check"] /\ permit' = [permit EXCEPT ![r] = {r}]
      /\ sems' = [sems EXCEPT ![slug[r]] = {r}] /\ mints' = [mints EXCEPT ![slug[r]] = @ + 1]
  BY DEF IInv, SemTypes, LimitInv, Entered, MintSemaphore, Goto
<1>1. SemTypes'
  BY <1>0 DEF IInv, SemTypes
<1>2. /\ permit'[r] = {r} /\ Entered(r)'
      /\ \A q \in Requests : q # r => permit'[q] = permit[q]
      /\ \A q \in Requests : Entered(q) => Entered(q)'
      /\ sems'[slug[r]] = {r} /\ mints'[slug[r]] = mints[slug[r]] + 1
      /\ \A o \in Slugs : o # slug[r] => sems'[o] = sems[o] /\ mints'[o] = mints[o]
  BY <1>0 DEF IInv, SemTypes, Entered
<1>3. ASSUME NEW k \in Requests PROVE Cardinality(Holders(k)') <= MaxPermits
  <2>1. PICK H \in SUBSET Requests, K \in SUBSET Requests : H = Holders(k) /\ K = Holders(k)'
    BY DEF Holders
  <2>2. /\ Cardinality(H) <= MaxPermits /\ MaxPermits \in Nat \ {0} /\ Cardinality(H) \in Nat
        /\ Cardinality(K) \in Nat
    BY <2>1, FiniteRequests DEF IInv, LimitInv, ProxyAssumption
  <2>3. CASE k = r
    <3>1. H = {}
      <4>1. ASSUME NEW q \in Requests, permit[q] = {r} PROVE FALSE
        BY <1>0, <4>1 DEF IInv, LimitInv
      <4> QED BY <2>1, <2>3, <4>1 DEF Holders
    <3>2. K \subseteq H \cup {r}
      BY <1>2, <2>1 DEF Holders
    <3>3. Cardinality(K) <= Cardinality(H) + 1 /\ Cardinality(H) = 0
      BY <3>1, <3>2, OneMore, FS_EmptySet
    <3>4. Cardinality(K) <= MaxPermits
      BY ONLY <2>2, <3>3
    <3> QED BY <2>1, <3>4
  <2>4. CASE k # r
    <3>1. K \subseteq H
      BY <1>2, <2>1, <2>4 DEF Holders
    <3>2. Cardinality(K) <= Cardinality(H)
      BY <3>1, Fewer
    <3>3. Cardinality(K) <= MaxPermits
      BY ONLY <2>2, <3>2
    <3> QED BY <2>1, <3>3
  <2> QED BY <2>3, <2>4
<1>4. ASSUME NEW q \in Requests PROVE ~Entered(q)' => permit'[q] = {}
  BY <1>2 DEF IInv, LimitInv
<1>5. ASSUME NEW q \in Requests, permit'[q] # {}
      PROVE  \E k \in Requests : permit'[q] = {k} /\ Entered(k)'
  BY <1>0, <1>2, <1>5 DEF IInv, LimitInv
<1>6. \A o \in Slugs : \A k \in sems'[o] : Entered(k)'
  BY <1>2 DEF IInv, LimitInv, SemTypes
<1>7. ASSUME NEW o \in Slugs PROVE Cardinality(InUse(o)') <= mints'[o]
  <2>1. PICK U \in SUBSET Requests, V \in SUBSET Requests : U = InUse(o) /\ V = InUse(o)'
    BY <1>1, InUseRequests DEF IInv, SemTypes, InUse
  <2>2. /\ Cardinality(U) <= mints[o] /\ mints[o] \in Nat
        /\ Cardinality(U) \in Nat /\ Cardinality(V) \in Nat
    BY <2>1, FiniteRequests DEF IInv, LimitInv, SemTypes
  <2>3. CASE o = slug[r]
    <3>1. V \subseteq U \cup {r}
      BY <1>0, <1>2, <2>1, <2>3 DEF InUse
    <3>2. Cardinality(V) <= Cardinality(U) + 1 /\ mints'[o] = mints[o] + 1
      BY <1>2, <2>3, <3>1, OneMore
    <3>3. Cardinality(V) <= mints'[o]
      BY ONLY <2>2, <3>2
    <3> QED BY <2>1, <3>3
  <2>4. CASE o # slug[r]
    <3>1. V \subseteq U
      BY <1>0, <1>2, <2>1, <2>4 DEF InUse
    <3>2. Cardinality(V) <= Cardinality(U) /\ mints'[o] = mints[o]
      BY <1>2, <2>4, <3>1, Fewer
    <3>3. Cardinality(V) <= mints'[o]
      BY ONLY <2>2, <3>2
    <3> QED BY <2>1, <3>3
  <2> QED BY <2>3, <2>4
<1> QED BY <1>1, <1>3, <1>4, <1>5, <1>6, <1>7 DEF IInv, LimitInv

\* A request that moves on, or ends, hands out no permit.
LEMMA MovesQuietly ==
  ASSUME IInv, NEW r \in Requests, pc[r] # "idle", pc[r] # "mint",
         NEW p \in {"check", "lookup", "found", "wait", "count", "counter", "routed", "done"},
         Goto(r, p), permit' \in {permit, [permit EXCEPT ![r] = {}]},
         UNCHANGED <<slug, sems, mints>>
  PROVE  Quiet
<1>1. pc' = [pc EXCEPT ![r] = p] /\ Entered(r)
  BY DEF Goto, Entered
<1>2. \A q \in Requests : Entered(q)' <=> Entered(q)
  BY <1>1 DEF IInv, SemTypes, Entered
<1>3. permit' \in [Requests -> SUBSET Requests] /\ \A q \in Requests : permit'[q] \in {permit[q], {}}
  BY DEF IInv, SemTypes
<1> QED BY <1>1, <1>2, <1>3 DEF IInv, SemTypes, Quiet

LEMMA NextStep ==
  ASSUME ProxyAssumption, IInv, [Next]_vars
  PROVE  IInv'
<1>1. ASSUME UNCHANGED <<reqVars, semVars>> PROVE IInv'
  <2>1. Quiet
    BY <1>1 DEF IInv, SemTypes, reqVars, semVars, Quiet, Entered
  <2> QED BY <2>1, QuietStep
<1>2. CASE UNCHANGED vars
  BY <1>1, <1>2 DEF vars
<1>3. ASSUME NEW s \in Slugs, RowUp(s) \/ RowDown(s) \/ RowDrain(s) PROVE IInv'
  BY <1>1, <1>3 DEF RowUp, RowDown, RowDrain, Change
<1>4. ASSUME NEW e \in events, ApplyEvent(e) PROVE IInv'
  BY <1>1, <1>4 DEF ApplyEvent
<1>5. CASE Reconcile
  BY <1>1, <1>5 DEF Reconcile, ReconcileRead, ReconcileApply
<1>6. CASE Flush
  BY <1>1, <1>6 DEF Flush
<1>7. ASSUME NEW r \in Requests, NEW s \in Slugs, Enter(r, s) PROVE IInv'
  <2>1. CASE \E m \in sems[s] : PermitFree(m) /\ Goto(r, "check") /\ permit' = [permit EXCEPT ![r] = {m}]
    BY <1>7, <2>1, EnterStep DEF Enter
  <2>2. CASE (Goto(r, "mint") \/ Goto(r, "done")) /\ UNCHANGED permit
    <3>1. /\ pc' \in {[pc EXCEPT ![r] = "mint"], [pc EXCEPT ![r] = "done"]} /\ pc[r] = "idle"
          /\ slug' = [slug EXCEPT ![r] = s] /\ UNCHANGED <<permit, sems, mints>>
      BY <1>7, <2>2 DEF Enter, Goto
    <3>2. permit[r] = {} /\ ~Entered(r)
      BY <3>1 DEF IInv, LimitInv, Entered
    <3>3. /\ \A q \in Requests : q # r => pc'[q] = pc[q] /\ slug'[q] = slug[q]
          /\ slug' \in [Requests -> Slugs]
          /\ pc' \in [Requests -> {"idle", "mint", "check", "lookup", "found", "wait", "count",
                                  "counter", "routed", "done"}]
      BY <3>1 DEF IInv, SemTypes
    <3>4. Quiet
      BY <3>1, <3>2, <3>3 DEF IInv, SemTypes, Quiet, Entered
    <3> QED BY <3>4, QuietStep
  <2> QED BY <1>7, <2>1, <2>2 DEF Enter
<1>8. ASSUME NEW r \in Requests, Serve(r) PROVE IInv'
  <2>1. CASE MintSemaphore(r)
    BY <2>1, MintStep
  <2>2. CASE CacheHit(r) \/ CacheMiss(r) \/ lookup_route(r) \/ Cold(r) \/ Fallback(r) \/ Warmed(r)
    <3>1. Quiet
      BY <2>2, MovesQuietly DEF CacheHit, CacheMiss, lookup_route, Cold, Fallback, Warmed, semVars
    <3> QED BY <3>1, QuietStep
  <2>3. CASE Found(r)
    <3>1. \E p \in {"count", "routed"} : Goto(r, p)
      BY <2>3 DEF Found
    <3>2. Quiet
      BY <2>3, <3>1, MovesQuietly DEF Found, semVars
    <3> QED BY <3>2, QuietStep
  <2>4. CASE CountKnown(r) \/ CountUnknown(r) \/ MintCounter(r)
    <3>1. Quiet
      BY <2>4, MovesQuietly DEF CountKnown, CountUnknown, MintCounter, semVars
    <3> QED BY <3>1, QuietStep
  <2>5. CASE WakeTimeout(r) \/ Respond(r)
    <3>1. Quiet
      BY <2>5, MovesQuietly DEF WakeTimeout, Respond
    <3> QED BY <3>1, QuietStep
  <2> QED BY <1>8, <2>1, <2>2, <2>3, <2>4, <2>5 DEF Serve
<1> QED BY <1>2, <1>3, <1>4, <1>5, <1>6, <1>7, <1>8 DEF Next

LEMMA InitLimit ==
  ASSUME ProxyAssumption, Init
  PROVE  IInv
<1> USE DEF Init
<1>1. SomeSlug \in Slugs
  BY DEF SomeSlug, ProxyAssumption
<1>2. SemTypes
  BY <1>1 DEF SemTypes
<1>3. /\ \A m \in Requests : Holders(m) = {}
      /\ \A s \in Slugs : InUse(s) = {}
  BY DEF Holders, InUse
<1>4. Cardinality({}) = 0 /\ MaxPermits \in Nat /\ \A s \in Slugs : mints[s] = 0
  BY FS_EmptySet DEF ProxyAssumption
<1>5. /\ \A m \in Requests : Cardinality(Holders(m)) <= MaxPermits
      /\ \A s \in Slugs : Cardinality(InUse(s)) <= mints[s]
  <2>1. ASSUME NEW m \in Requests PROVE Cardinality(Holders(m)) <= MaxPermits
    <3>1. Cardinality(Holders(m)) = 0
      BY <1>3, <1>4
    <3> QED BY <1>4, <3>1
  <2>2. ASSUME NEW s \in Slugs PROVE Cardinality(InUse(s)) <= mints[s]
    <3>1. Cardinality(InUse(s)) = 0
      BY <1>3, <1>4
    <3> QED BY <1>4, <3>1
  <2> QED BY <2>1, <2>2
<1>6. LimitInv
  BY <1>5 DEF LimitInv, Entered
<1> QED BY <1>2, <1>6 DEF IInv

-----------------------------------------------------------------------------
(* The limit *)

\* Requests in flight, each with a semaphore in use and one of its permits.
LEMMA PermitsBound ==
  ASSUME ProxyAssumption, IInv, NEW s \in Slugs
  PROVE  Cardinality(InFlight(s)) <= MaxPermits * mints[s]
<1> DEFINE U == InUse(s)
           N == 1 .. MaxPermits
           F == InFlight(s)
           Number(m) == CHOOSE h : h \in Injection(Holders(m), N)
           Sem(r) == CHOOSE m : permit[r] = {m}
           f == [r \in F |-> <<Sem(r), Number(Sem(r))[r]>>]
<1>1. MaxPermits \in Nat /\ mints[s] \in Nat
  BY DEF ProxyAssumption, IInv, SemTypes
<1>2. IsFiniteSet(N) /\ Cardinality(N) = MaxPermits
  <2>1. /\ IsFiniteSet(1 .. MaxPermits)
        /\ Cardinality(1 .. MaxPermits) = IF 1 > MaxPermits THEN 0 ELSE MaxPermits - 1 + 1
    BY <1>1, FS_Interval
  <2> QED BY <1>1, <2>1
<1>3. IsFiniteSet(U) /\ Cardinality(U) \in Nat /\ Cardinality(U) <= mints[s]
  BY InUseRequests, FiniteRequests DEF IInv, LimitInv
<1>4. ASSUME NEW m \in Requests PROVE Number(m) \in Injection(Holders(m), N)
  <2>1. PICK H \in SUBSET Requests, n \in Nat : H = Holders(m) /\ n = Cardinality(H) /\ IsFiniteSet(H)
    BY FiniteRequests DEF Holders
  <2>2. n <= MaxPermits
    BY <2>1 DEF IInv, LimitInv
  <2>3. ExistsBijection(H, 1 .. n)
    BY <2>1, FS_CardinalityType, Fun_ExistsBijSymmetric
  <2>4. PICK g : g \in Bijection(H, 1 .. n)
    BY <2>3 DEF ExistsBijection
  <2>5. g \in Injection(H, N)
    <3>1. g \in [H -> 1 .. n] /\ \A a, b \in H : g[a] = g[b] => a = b
      BY <2>4 DEF Bijection, Injection, IsInjective
    <3>2. 1 .. n \subseteq N
      BY <1>1, <2>1, <2>2
    <3>3. g \in [H -> N]
      BY <3>1, <3>2
    <3> QED BY <3>1, <3>3 DEF Injection, IsInjective
  <2> QED BY <2>1, <2>5
<1>5. ASSUME NEW r \in F
      PROVE  /\ permit[r] = {Sem(r)} /\ Sem(r) \in Requests /\ Sem(r) \in U /\ r \in Holders(Sem(r))
  <2>1. r \in Requests /\ slug[r] = s /\ permit[r] # {}
    BY <1>5 DEF InFlight
  <2>2. PICK m \in Requests : permit[r] = {m}
    BY <2>1 DEF IInv, LimitInv
  <2>3. Sem(r) = m
    BY <2>2
  <2> HIDE DEF Sem
  <2> QED BY <2>1, <2>2, <2>3 DEF InUse, Holders
<1> HIDE DEF Number, Sem, U, N, F
<1>6. f \in Injection(F, U \X N)
  <2>1. ASSUME NEW r \in F PROVE Number(Sem(r))[r] \in N /\ f[r] = <<Sem(r), Number(Sem(r))[r]>>
    BY <1>4, <1>5 DEF Injection
  <2>2. f \in [F -> U \X N]
    BY <1>5, <2>1
  <2>3. ASSUME NEW a \in F, NEW b \in F, f[a] = f[b] PROVE a = b
    <3>1. Sem(a) = Sem(b) /\ Number(Sem(a))[a] = Number(Sem(a))[b]
      BY <2>1, <2>3
    <3>2. Sem(a) \in Requests /\ a \in Holders(Sem(a)) /\ b \in Holders(Sem(a))
      BY <1>5, <3>1
    <3> QED BY <1>4, <3>1, <3>2 DEF Injection, IsInjective
  <2> QED BY <2>2, <2>3 DEF Injection, IsInjective
<1>7. IsFiniteSet(U \X N) /\ Cardinality(U \X N) = Cardinality(U) * MaxPermits
  BY <1>2, <1>3, FS_Product
<1>8. Cardinality(F) <= Cardinality(U) * MaxPermits
  BY <1>6, <1>7, FS_Injection
<1>9. Cardinality(U) * MaxPermits <= MaxPermits * mints[s]
  BY <1>1, <1>3
<1>10. Cardinality(F) \in Nat /\ Cardinality(U) * MaxPermits \in Nat /\ MaxPermits * mints[s] \in Nat
  BY <1>1, <1>3, FiniteRequests DEF F, InFlight
<1>11. Cardinality(F) <= MaxPermits * mints[s]
  BY ONLY <1>8, <1>9, <1>10
<1> QED BY <1>11 DEF F

\* A service never has more requests in flight than MAX_CONCURRENT_PER_SERVICE for
\* each semaphore made for it, whichever requests race between the read and the
\* write lock of try_acquire_concurrency: with one made, the limit is exact.
THEOREM InFlightLimit == Spec => []LimitPerMint
<1>1. Init => IInv
  BY InitLimit, ProxyAssumption
<1>2. IInv /\ [Next]_vars => IInv'
  BY NextStep, ProxyAssumption
<1>3. IInv => LimitPerMint
  BY PermitsBound, ProxyAssumption DEF LimitPerMint
<1> QED BY <1>1, <1>2, <1>3, PTL DEF Spec

-----------------------------------------------------------------------------
(* The usage log *)

\* What is in Units, without the union.
LEMMA UnitsAre ==
  ASSUME NEW log, NEW s
  PROVE  /\ \A i \in DOMAIN log : \A k \in 1 .. log[i].inv :
              log[i].slug = s => <<i, k>> \in Units(log, s)
         /\ \A u \in Units(log, s) :
              \E i \in DOMAIN log : \E k \in 1 .. log[i].inv : log[i].slug = s /\ u = <<i, k>>
BY DEF Units

\* A log whose events are some of another's, each at most once, counts no more.
LEMMA Subsequence ==
  ASSUME NEW long, NEW short, NEW s, NEW f \in [DOMAIN short -> DOMAIN long],
         \A i, j \in DOMAIN short : f[i] = f[j] => i = j,
         \A i \in DOMAIN short : short[i] = long[f[i]],
         IsFiniteSet(Units(long, s))
  PROVE  IsFiniteSet(Units(short, s)) /\ Sum(short, s) <= Sum(long, s)
<1> DEFINE g == [u \in Units(short, s) |-> <<f[u[1]], u[2]>>]
<1>1. ASSUME NEW u \in Units(short, s)
      PROVE  /\ u[1] \in DOMAIN short /\ u = <<u[1], u[2]>> /\ g[u] = <<f[u[1]], u[2]>>
             /\ g[u] \in Units(long, s)
  <2>1. PICK i \in DOMAIN short : \E k \in 1 .. short[i].inv : short[i].slug = s /\ u = <<i, k>>
    BY UnitsAre
  <2>2. PICK k \in 1 .. short[i].inv : short[i].slug = s /\ u = <<i, k>>
    BY <2>1
  <2>3. f[i] \in DOMAIN long /\ k \in 1 .. long[f[i]].inv /\ long[f[i]].slug = s
    BY <2>2
  <2>4. <<f[i], k>> \in Units(long, s)
    BY <2>3, UnitsAre
  <2> QED BY <2>2, <2>4
<1>2. g \in Injection(Units(short, s), Units(long, s))
  <2>1. g \in [Units(short, s) -> Units(long, s)]
    BY <1>1
  <2>2. ASSUME NEW u \in Units(short, s), NEW v \in Units(short, s), g[u] = g[v] PROVE u = v
    <3>1. f[u[1]] = f[v[1]] /\ u[2] = v[2]
      BY <1>1, <2>2
    <3>2. u[1] = v[1]
      BY <1>1, <3>1
    <3>3. u = <<u[1], u[2]>> /\ v = <<v[1], v[2]>>
      BY <1>1
    <3> QED BY ONLY <3>1, <3>2, <3>3
  <2> HIDE DEF g
  <2> QED BY <2>1, <2>2 DEF Injection, IsInjective
<1> QED BY <1>2, FS_Injection DEF Sum

\* What a service has in two logs, one after the other.
LEMMA Appended ==
  ASSUME NEW R, NEW a \in Seq(R), NEW b \in Seq(R), NEW c, c = a \o b, NEW s,
         IsFiniteSet(Units(a, s)), IsFiniteSet(Units(b, s))
  PROVE  IsFiniteSet(Units(c, s)) /\ Sum(c, s) <= Sum(a, s) + Sum(b, s)
<1> DEFINE U == Units(c, s)
           A == Units(a, s)
           B == {u \in U : u[1] > Len(a)}
           g == [u \in B |-> <<u[1] - Len(a), u[2]>>]
<1>1. /\ DOMAIN c = 1 .. Len(a) + Len(b) /\ DOMAIN a = 1 .. Len(a) /\ DOMAIN b = 1 .. Len(b)
      /\ Len(a) \in Nat /\ Len(b) \in Nat
      /\ \A i \in 1 .. Len(a) + Len(b) : c[i] = IF i <= Len(a) THEN a[i] ELSE b[i - Len(a)]
  OBVIOUS
<1>2. ASSUME NEW u \in U
      PROVE  /\ u[1] \in Nat /\ u = <<u[1], u[2]>>
             /\ u[1] <= Len(a) => u \in A
             /\ u[1] > Len(a) => <<u[1] - Len(a), u[2]>> \in Units(b, s)
  <2>1. PICK i \in DOMAIN c :
          \E k \in 1 .. c[i].inv : c[i].slug = s /\ u = <<i, k>>
    <3>1. u \in Units(c, s)
      OBVIOUS
    <3> QED BY ONLY <3>1, UnitsAre
  <2>2. PICK k \in 1 .. c[i].inv : c[i].slug = s /\ u = <<i, k>>
    BY <2>1
  <2>3. i \in 1 .. Len(a) + Len(b) /\ u[1] = i /\ u[2] = k
    BY <1>1, <2>2
  <2>4. ASSUME i <= Len(a) PROVE <<i, k>> \in A
    <3>1. i \in DOMAIN a /\ k \in 1 .. a[i].inv /\ a[i].slug = s
      BY <1>1, <2>2, <2>3, <2>4
    <3> QED BY <3>1, UnitsAre
  <2>5. ASSUME i > Len(a) PROVE <<i - Len(a), k>> \in Units(b, s)
    <3>1. i - Len(a) \in DOMAIN b /\ c[i] = b[i - Len(a)]
      BY <1>1, <2>3, <2>5
    <3>2. k \in 1 .. b[i - Len(a)].inv /\ b[i - Len(a)].slug = s
      BY <2>2, <3>1
    <3> QED BY <3>1, <3>2, UnitsAre
  <2> QED BY <1>1, <2>2, <2>3, <2>4, <2>5
<1>3. g \in Injection(B, Units(b, s))
  <2>1. g \in [B -> Units(b, s)]
    BY <1>2
  <2>2. ASSUME NEW u \in B, NEW v \in B, g[u] = g[v] PROVE u = v
    <3>1. g[u] = <<u[1] - Len(a), u[2]>> /\ g[v] = <<v[1] - Len(a), v[2]>>
      OBVIOUS
    <3>2. u[1] - Len(a) = v[1] - Len(a) /\ u[2] = v[2]
      BY <2>2, <3>1
    <3>3. /\ u[1] \in Nat /\ v[1] \in Nat /\ Len(a) \in Nat
          /\ u = <<u[1], u[2]>> /\ v = <<v[1], v[2]>>
      <4>1. u \in U /\ v \in U
        OBVIOUS
      <4> QED BY <1>1, <1>2, <4>1
    <3>4. u[1] = v[1]
      BY ONLY <3>2, <3>3
    <3> QED BY ONLY <3>2, <3>3, <3>4
  <2> HIDE DEF g
  <2> QED BY <2>1, <2>2 DEF Injection, IsInjective
<1>4. IsFiniteSet(B) /\ Cardinality(B) <= Cardinality(Units(b, s))
  BY <1>3, FS_Injection
<1>5. ASSUME NEW u \in U PROVE u \in A \cup B
  <2>1. u[1] \in Nat /\ Len(a) \in Nat
    BY <1>1, <1>2
  <2>2. u[1] <= Len(a) \/ u[1] > Len(a)
    BY ONLY <2>1
  <2>3. u[1] <= Len(a) => u \in A
    BY <1>2
  <2> QED BY <2>2, <2>3
<1> HIDE DEF U, A, B
<1>6. IsFiniteSet(A) /\ Cardinality(A) \in Nat /\ Cardinality(B) \in Nat
      /\ Cardinality(Units(b, s)) \in Nat
  BY <1>4, FS_CardinalityType DEF A
<1>7. PICK V : V = A \cup B
  OBVIOUS
<1>8. IsFiniteSet(V) /\ Cardinality(V) = Cardinality(A) + Cardinality(B) - Cardinality(A \cap B)
  BY <1>4, <1>6, <1>7, FS_Union
<1>9. Cardinality(A \cap B) \in Nat
  BY <1>6, FS_Intersection, FS_CardinalityType
<1>10. IsFiniteSet(U) /\ Cardinality(U) <= Cardinality(V) /\ Cardinality(U) \in Nat
       /\ Cardinality(V) \in Nat
  BY <1>5, <1>7, <1>8, FS_Subset, FS_CardinalityType
<1>11. Cardinality(U) <= Cardinality(A) + Cardinality(Units(b, s))
  BY <1>4, <1>6, <1>8, <1>9, <1>10
<1> QED BY <1>10, <1>11 DEF U, A, Sum

UsageEvents == [slug : Slugs, inv : Nat]

\* The part of the state the bill rests on.
MeterTypes ==
  /\ counters \in [Slugs -> Nat \cup {NoCounter}]
  /\ counted \subseteq Requests
  /\ backlog \in Seq(UsageEvents)
  /\ billed \in [Slugs -> Nat]

\* SetToSeq lists a finite set, each member once.
LEMMA Listed ==
  ASSUME NEW S, IsFiniteSet(S)
  PROVE  /\ Cardinality(S) \in Nat
         /\ SetToSeq(S) \in [1 .. Cardinality(S) -> S]
         /\ \A i, j \in 1 .. Cardinality(S) : SetToSeq(S)[i] = SetToSeq(S)[j] => i = j
<1>1. Cardinality(S) \in Nat /\ ExistsBijection(1 .. Cardinality(S), S)
  BY FS_CardinalityType
<1>2. PICK f : f \in Bijection(1 .. Cardinality(S), S)
  BY <1>1 DEF ExistsBijection
<1>3. f \in [1 .. Cardinality(S) -> S] /\ \A i, j \in 1 .. Cardinality(S) : f[i] = f[j] => i = j
  BY <1>2 DEF Bijection, Injection, IsInjective
<1>4. \E g \in [1 .. Cardinality(S) -> S] : IsInjective(g)
  BY <1>3 DEF IsInjective
<1>5. SetToSeq(S) \in [1 .. Cardinality(S) -> S] /\ IsInjective(SetToSeq(S))
  BY <1>4 DEF SetToSeq
<1> QED BY <1>1, <1>5 DEF IsInjective

\* The fresh events tell of no more invocations of a service than its counter.
LEMMA FreshCounts ==
  ASSUME ProxyAssumption, MeterTypes, NEW s \in Slugs
  PROVE  /\ Fresh \in Seq(UsageEvents)
         /\ IsFiniteSet(Units(Fresh, s)) /\ Sum(Fresh, s) <= Counter(s) /\ Counter(s) \in Nat
<1>1. PICK P : P = {t \in Slugs : counters[t] > 0}
  OBVIOUS
<1>2. PICK n, q : n = Cardinality(P) /\ q = SetToSeq(P)
  OBVIOUS
<1>3. IsFiniteSet(P) /\ P \subseteq Slugs
  BY <1>1, FS_Subset DEF ProxyAssumption
<1>4. n \in Nat /\ q \in [1 .. n -> P] /\ \A i, j \in 1 .. n : q[i] = q[j] => i = j
  BY <1>2, <1>3, Listed
<1>5. Fresh = [i \in 1 .. n |-> [slug |-> q[i], inv |-> counters[q[i]]]]
  BY <1>1, <1>2 DEF Fresh
<1>6. \A t \in P : t \in Slugs /\ counters[t] \in Nat /\ counters[t] > 0
  BY <1>1 DEF MeterTypes, NoCounter
<1>7. Fresh \in Seq(UsageEvents)
  <2>1. \A i \in 1 .. n : [slug |-> q[i], inv |-> counters[q[i]]] \in UsageEvents
    BY <1>4, <1>6 DEF UsageEvents
  <2> QED BY <1>4, <1>5, <2>1
<1>8. Counter(s) \in Nat /\ (counters[s] > 0 => Counter(s) = counters[s])
  BY DEF MeterTypes, NoCounter, Counter
<1>9. PICK log : log = Fresh
  OBVIOUS
<1> DEFINE V == Units(log, s)
           g == [u \in V |-> u[2]]
<1>10. ASSUME NEW u \in V
       PROVE  u[1] \in 1 .. n /\ q[u[1]] = s /\ u = <<u[1], u[2]>> /\ u[2] \in 1 .. Counter(s)
  <2>1. u \in Units(log, s)
    OBVIOUS
  <2>2. PICK i \in DOMAIN log : \E k \in 1 .. log[i].inv : log[i].slug = s /\ u = <<i, k>>
    BY ONLY <2>1, UnitsAre
  <2>3. PICK k \in 1 .. log[i].inv : log[i].slug = s /\ u = <<i, k>>
    BY <2>2
  <2>4. i \in 1 .. n /\ log[i] = [slug |-> q[i], inv |-> counters[q[i]]]
    BY <1>5, <1>9
  <2>5. q[i] = s /\ k \in 1 .. counters[s] /\ s \in P
    BY <1>4, <2>3, <2>4
  <2>6. counters[s] = Counter(s)
    BY <1>6, <1>8, <2>5
  <2>7. u[1] = i /\ u[2] = k
    BY <2>3
  <2> QED BY <2>3, <2>4, <2>5, <2>6, <2>7
<1>11. g \in Injection(V, 1 .. Counter(s))
  <2>1. g \in [V -> 1 .. Counter(s)]
    BY <1>10
  <2>2. ASSUME NEW u \in V, NEW v \in V, g[u] = g[v] PROVE u = v
    <3>1. u[2] = v[2]
      BY <2>2
    <3>2. u[1] = v[1]
      BY <1>4, <1>10
    <3>3. u = <<u[1], u[2]>> /\ v = <<v[1], v[2]>>
      BY <1>10
    <3> QED BY ONLY <3>1, <3>2, <3>3
  <2> HIDE DEF g, V
  <2> QED BY <2>1, <2>2 DEF Injection, IsInjective
<1> HIDE DEF g
<1>12. IsFiniteSet(1 .. Counter(s)) /\ Cardinality(1 .. Counter(s)) = Counter(s)
  <2>1. /\ IsFiniteSet(1 .. Counter(s))
        /\ Cardinality(1 .. Counter(s)) = IF 1 > Counter(s) THEN 0 ELSE Counter(s) - 1 + 1
    BY <1>8, FS_Interval
  <2> QED BY <1>8, <2>1
<1>13. IsFiniteSet(V) /\ Cardinality(V) <= Counter(s)
  BY <1>11, <1>12, FS_Injection
<1> QED BY <1>7, <1>8, <1>9, <1>13 DEF Sum

\* A log cut at BacklogMax events counts no more than the whole.
LEMMA CappedCounts ==
  ASSUME ProxyAssumption, NEW log \in Seq(UsageEvents), NEW s, IsFiniteSet(Units(log, s))
  PROVE  /\ Capped(log) \in Seq(UsageEvents)
         /\ IsFiniteSet(Units(Capped(log), s)) /\ Sum(Capped(log), s) <= Sum(log, s)
<1>1. CASE ~(Len(log) > BacklogMax)
  <2>1. Cardinality(Units(log, s)) \in Nat
    BY FS_CardinalityType
  <2> QED BY <1>1, <2>1 DEF Capped, Sum
<1>2. CASE Len(log) > BacklogMax
  <2>1. PICK d, short : d = Len(log) - BacklogMax /\ short = SubSeq(log, Len(log) - BacklogMax + 1, Len(log))
    OBVIOUS
  <2>2. Len(log) \in Nat /\ BacklogMax \in Nat /\ d \in Nat /\ DOMAIN log = 1 .. Len(log)
    BY <1>2, <2>1 DEF ProxyAssumption
  <2>3. /\ short \in Seq(UsageEvents) /\ DOMAIN short = 1 .. BacklogMax
        /\ \A i \in 1 .. BacklogMax : short[i] = log[i + d]
    BY <1>2, <2>1, <2>2
  <2>4. [i \in DOMAIN short |-> i + d] \in [DOMAIN short -> DOMAIN log]
    BY <2>1, <2>2, <2>3
  <2>5. IsFiniteSet(Units(short, s)) /\ Sum(short, s) <= Sum(log, s)
    <3>1. PICK f \in [DOMAIN short -> DOMAIN log] : \A i \in DOMAIN short : f[i] = i + d
      BY <2>4
    <3>2. /\ \A i, j \in DOMAIN short : f[i] = f[j] => i = j
          /\ \A i \in DOMAIN short : short[i] = log[f[i]]
      BY <2>2, <2>3, <3>1
    <3> QED BY <3>2, Subsequence
  <2> QED BY <1>2, <2>1, <2>3, <2>5 DEF Capped
<1> QED BY <1>1, <1>2

\* So does what is left of a log when some of its events are published.
LEMMA FailedCounts ==
  ASSUME NEW log \in Seq(UsageEvents), NEW s, IsFiniteSet(Units(log, s)),
         NEW F \in SUBSET DOMAIN log, NEW keep \in InOrder(F),
         NEW failed, failed = [i \in DOMAIN keep |-> log[keep[i]]]
  PROVE  /\ failed \in Seq(UsageEvents)
         /\ IsFiniteSet(Units(failed, s)) /\ Sum(failed, s) <= Sum(log, s)
<1>1. /\ keep \in [1 .. Cardinality(F) -> F]
      /\ \A i, j \in 1 .. Cardinality(F) : i < j => keep[i] < keep[j]
  BY DEF InOrder
<1>2. DOMAIN log = 1 .. Len(log) /\ Len(log) \in Nat
  OBVIOUS
<1>3. IsFiniteSet(F) /\ Cardinality(F) \in Nat
  <2>1. IsFiniteSet(1 .. Len(log))
    BY <1>2, FS_Interval
  <2> QED BY <1>2, <2>1, FS_Subset, FS_CardinalityType
<1>4. DOMAIN failed = 1 .. Cardinality(F) /\ \A i \in DOMAIN failed : failed[i] = log[keep[i]]
  BY <1>1
<1>5. \A i \in DOMAIN failed : keep[i] \in DOMAIN log /\ keep[i] \in Nat /\ failed[i] \in UsageEvents
  BY <1>1, <1>2, <1>4
<1>6. failed \in Seq(UsageEvents)
  <2>1. failed \in [1 .. Cardinality(F) -> UsageEvents]
    BY <1>4, <1>5
  <2> QED BY <1>3, <2>1
<1>7. \A i, j \in DOMAIN failed : keep[i] = keep[j] => i = j
  BY <1>1, <1>3, <1>4, <1>5
<1>8. keep \in [DOMAIN failed -> DOMAIN log]
  BY <1>1, <1>4
<1> QED BY <1>4, <1>6, <1>7, <1>8, Subsequence

-----------------------------------------------------------------------------
(* The bill *)

\* A request is counted where it leaves upstream_peer, so never again, and its
\* slug is settled; the counts of a log are finite sums.
MeterInv ==
  /\ MeterTypes
  /\ \A r \in counted : pc[r] \in {"routed", "done"}
  /\ \A s \in Slugs : IsFiniteSet(Units(backlog, s))
  /\ BilledAtMostOnce

\* The counted requests of a service.
Invoked(s) == {r \in counted : slug[r] = s}

LEMMA InitMeter ==
  ASSUME ProxyAssumption, Init
  PROVE  MeterInv
<1> USE DEF Init
<1>1. MeterTypes
  BY DEF MeterTypes
<1>2. ASSUME NEW s \in Slugs
      PROVE  /\ Units(backlog, s) = {} /\ {r \in counted : slug[r] = s} = {}
             /\ Counter(s) = 0 /\ billed[s] = 0
  BY DEF Units, Counter
<1>3. IsFiniteSet({}) /\ Cardinality({}) = 0
  BY FS_EmptySet
<1>4. ASSUME NEW s \in Slugs
      PROVE  /\ IsFiniteSet(Units(backlog, s))
             /\ billed[s] + Sum(backlog, s) + Counter(s) <= Cardinality({r \in counted : slug[r] = s})
  <2>1. Sum(backlog, s) = 0 /\ Cardinality({r \in counted : slug[r] = s}) = 0
    BY <1>2, <1>3 DEF Sum
  <2>2. IsFiniteSet(Units(backlog, s))
    BY <1>2, <1>3
  <2>3. billed[s] = 0 /\ Counter(s) = 0
    BY <1>2
  <2> QED BY ONLY <2>1, <2>2, <2>3
<1>5. \A r \in counted : pc[r] \in {"routed", "done"}
  OBVIOUS
<1> HIDE DEF Init
<1> QED BY <1>1, <1>4, <1>5 DEF MeterInv, BilledAtMostOnce

\* A step that counts nothing: whoever was counted stays where it is or ends.
LEMMA UncountedStep ==
  ASSUME MeterInv, UNCHANGED meterVars,
         \A r \in counted : slug'[r] = slug[r] /\ pc'[r] \in {"routed", "done"}
  PROVE  MeterInv'
<1>1. MeterTypes'
  BY DEF MeterInv, MeterTypes, meterVars
<1>2. \A s \in Slugs : {r \in counted' : slug'[r] = s} = {r \in counted : slug[r] = s}
  BY DEF meterVars
<1>3. BilledAtMostOnce'
  BY <1>2 DEF MeterInv, BilledAtMostOnce, Counter, meterVars
<1> QED BY <1>1, <1>3 DEF MeterInv, meterVars

\* A request is counted: its service's counter grows by one, at most.
LEMMA CountedStep ==
  ASSUME ProxyAssumption, MeterInv, SemTypes, NEW r \in Requests, r \notin counted,
         counted' = counted \cup {r}, pc' = [pc EXCEPT ![r] = "routed"],
         counters' \in [Slugs -> Nat \cup {NoCounter}],
         \A s \in Slugs : s # slug[r] => counters'[s] = counters[s],
         Counter(slug[r])' <= Counter(slug[r]) + 1,
         UNCHANGED <<slug, backlog, billed>>
  PROVE  MeterInv'
<1>1. MeterTypes'
  BY DEF MeterInv, MeterTypes
<1>2. \A q \in counted' : pc'[q] \in {"routed", "done"}
  BY DEF MeterInv, MeterTypes, SemTypes
<1>3. ASSUME NEW s \in Slugs
      PROVE  billed'[s] + Sum(backlog', s) + Counter(s)' <= Cardinality(Invoked(s)')
  <2>1. PICK C \in SUBSET Requests, D \in SUBSET Requests : C = Invoked(s) /\ D = Invoked(s)'
    BY <1>1 DEF MeterInv, MeterTypes, Invoked
  <2>2. /\ billed[s] \in Nat /\ Sum(backlog, s) \in Nat /\ Counter(s) \in Nat /\ Counter(s)' \in Nat
        /\ Cardinality(C) \in Nat /\ Cardinality(D) \in Nat
    <3>1. Cardinality(Units(backlog, s)) \in Nat
      BY FS_CardinalityType DEF MeterInv
    <3> QED BY <1>1, <3>1, FiniteRequests DEF MeterInv, MeterTypes, Counter, NoCounter, Sum
  <2>3. billed[s] + Sum(backlog, s) + Counter(s) <= Cardinality(C)
    BY <2>1 DEF MeterInv, BilledAtMostOnce, Invoked
  <2>4. CASE s = slug[r]
    <3>1. D = C \cup {r} /\ r \notin C
      BY <2>1, <2>4 DEF Invoked
    <3>2. Cardinality(D) = Cardinality(C) + 1
      BY <3>1, FiniteRequests, FS_AddElement
    <3>3. Counter(s)' <= Counter(s) + 1
      BY <2>4
    <3>4. billed[s] + Sum(backlog, s) + Counter(s)' <= Cardinality(D)
      BY ONLY <2>2, <2>3, <3>2, <3>3
    <3> QED BY <2>1, <3>4
  <2>5. CASE s # slug[r]
    <3>1. D = C /\ Counter(s)' = Counter(s)
      BY <2>1, <2>5 DEF Invoked, Counter
    <3> QED BY <2>1, <2>3, <3>1
  <2> QED BY <2>4, <2>5
<1> QED BY <1>1, <1>2, <1>3 DEF MeterInv, BilledAtMostOnce, Invoked

\* A flush moves invocations from the counters and the backlog to what is
\* published and to the new backlog, and makes none.
LEMMA FlushStep ==
  ASSUME ProxyAssumption, MeterInv, Flush
  PROVE  MeterInv'
<1> DEFINE Flushed(log, F, keep) ==
             /\ backlog' = Capped([i \in DOMAIN keep |-> log[keep[i]]])
             /\ billed' = [s \in Slugs |->
                             billed[s] + Sum(log, s) - Sum([i \in DOMAIN keep |-> log[keep[i]]], s)]
<1>1. \E F \in SUBSET DOMAIN (backlog \o Fresh) : \E keep \in InOrder(F) :
        Flushed(backlog \o Fresh, F, keep)
  BY Zenon DEF Flush
<1> HIDE DEF Flushed
<1>2. PICK log : log = backlog \o Fresh /\ \E F \in SUBSET DOMAIN log : \E keep \in InOrder(F) :
                                             Flushed(log, F, keep)
  BY <1>1
<1>3. PICK F \in SUBSET DOMAIN log : \E keep \in InOrder(F) : Flushed(log, F, keep)
  BY <1>2
<1>3a. PICK keep \in InOrder(F) : Flushed(log, F, keep)
  BY <1>3
<1>4. PICK failed : failed = [i \in DOMAIN keep |-> log[keep[i]]]
  OBVIOUS
<1>5. /\ backlog' = Capped(failed)
      /\ billed' = [s \in Slugs |-> billed[s] + Sum(log, s) - Sum(failed, s)]
  BY <1>3a, <1>4 DEF Flushed
<1>6. /\ counters' = [s \in Slugs |-> IF counters[s] > 0 THEN 0 ELSE counters[s]]
      /\ UNCHANGED <<pc, slug, counted>>
  BY DEF Flush, reqVars
<1>7. ASSUME NEW s \in Slugs
      PROVE  /\ log \in Seq(UsageEvents) /\ failed \in Seq(UsageEvents) /\ backlog' \in Seq(UsageEvents)
             /\ IsFiniteSet(Units(backlog', s)) /\ billed'[s] \in Nat
             /\ billed'[s] + Sum(backlog', s) + Counter(s)'
                  <= Cardinality({r \in counted : slug[r] = s})
  <2>1. backlog \in Seq(UsageEvents) /\ IsFiniteSet(Units(backlog, s)) /\ MeterTypes
    BY DEF MeterInv, MeterTypes
  <2>2. /\ Fresh \in Seq(UsageEvents) /\ IsFiniteSet(Units(Fresh, s))
        /\ Sum(Fresh, s) <= Counter(s) /\ Counter(s) \in Nat
    BY <2>1, FreshCounts
  <2>3. IsFiniteSet(Units(log, s)) /\ Sum(log, s) <= Sum(backlog, s) + Sum(Fresh, s)
    BY <1>2, <2>1, <2>2, Appended
  <2>4. log \in Seq(UsageEvents)
    BY <1>2, <2>1, <2>2
  <2>5. /\ failed \in Seq(UsageEvents) /\ IsFiniteSet(Units(failed, s))
        /\ Sum(failed, s) <= Sum(log, s)
    BY <1>4, <2>3, <2>4, FailedCounts
  <2>6. /\ backlog' \in Seq(UsageEvents) /\ IsFiniteSet(Units(backlog', s))
        /\ Sum(backlog', s) <= Sum(failed, s)
    BY <1>5, <2>5, CappedCounts
  <2>7. /\ Sum(backlog, s) \in Nat /\ Sum(Fresh, s) \in Nat /\ Sum(log, s) \in Nat
        /\ Sum(failed, s) \in Nat /\ Sum(backlog', s) \in Nat
    BY <2>1, <2>2, <2>3, <2>5, <2>6, FS_CardinalityType DEF Sum
  <2>8. Counter(s)' = 0
    BY <1>6, <2>1 DEF Counter, MeterTypes, NoCounter
  <2>9. billed'[s] = billed[s] + Sum(log, s) - Sum(failed, s) /\ billed[s] \in Nat
    BY <1>5, <2>1 DEF MeterTypes
  <2>10. PICK C \in SUBSET Requests : C = {r \in counted : slug[r] = s}
    BY <2>1 DEF MeterTypes
  <2>11. Cardinality(C) \in Nat /\ billed[s] + Sum(backlog, s) + Counter(s) <= Cardinality(C)
    BY <2>10, FiniteRequests DEF MeterInv, BilledAtMostOnce
  <2>12. billed'[s] \in Nat /\ billed'[s] + Sum(backlog', s) + Counter(s)' <= Cardinality(C)
    <3>1. PICK old \in Nat, fresh \in Nat, all \in Nat, left \in Nat, kept \in Nat :
            /\ old = Sum(backlog, s) /\ fresh = Sum(Fresh, s) /\ all = Sum(log, s)
            /\ left = Sum(failed, s) /\ kept = Sum(backlog', s)
      BY <2>7
    <3>2. PICK due \in Nat, most \in Nat, paid \in Nat :
            due = Counter(s) /\ most = Cardinality(C) /\ paid = billed[s]
      BY <2>2, <2>9, <2>11
    <3>3. /\ fresh <= due /\ all <= old + fresh /\ left <= all /\ kept <= left
          /\ paid + old + due <= most /\ billed'[s] = paid + all - left
      BY <2>2, <2>3, <2>5, <2>6, <2>9, <2>11, <3>1, <3>2
    <3>4. paid + all - left \in Nat /\ paid + all - left + kept + 0 <= most
      BY ONLY <3>3
    <3> QED BY <2>8, <3>1, <3>2, <3>3, <3>4
  <2> QED BY <2>4, <2>5, <2>6, <2>10, <2>12
<1>8. PICK s \in Slugs : TRUE
  BY DEF ProxyAssumption
<1>9. MeterTypes'
  <2>1. counters' \in [Slugs -> Nat \cup {NoCounter}]
    BY <1>6 DEF MeterInv, MeterTypes
  <2>2. billed' \in [Slugs -> Nat]
    <3>1. billed' = [t \in Slugs |-> billed'[t]]
      BY <1>5
    <3> QED BY <1>7, <3>1
  <2> QED BY <1>6, <1>7, <1>8, <2>1, <2>2 DEF MeterInv, MeterTypes
<1>10. \A t \in Slugs : {r \in counted' : slug'[r] = t} = {r \in counted : slug[r] = t}
  BY <1>6
<1>11. BilledAtMostOnce'
  BY <1>7, <1>10 DEF BilledAtMostOnce
<1>12. (\A r \in counted : pc[r] \in {"routed", "done"})'
  BY <1>6 DEF MeterInv
<1> QED BY <1>7, <1>9, <1>11, <1>12 DEF MeterInv

\* An existing counter is incremented where the request leaves upstream_peer.
LEMMA CountStep ==
  ASSUME ProxyAssumption, IInv, MeterInv, NEW r \in Requests, r \notin counted,
         counters[slug[r]] # NoCounter, Count(r), Goto(r, "routed"), slug' = slug
  PROVE  MeterInv'
<1>1. slug[r] \in Slugs /\ counters \in [Slugs -> Nat \cup {NoCounter}] /\ counters[slug[r]] \in Nat
  BY DEF IInv, SemTypes, MeterInv, MeterTypes
<1>2. /\ counters' \in [Slugs -> Nat \cup {NoCounter}] /\ counters'[slug[r]] = counters[slug[r]] + 1
      /\ \A s \in Slugs : s # slug[r] => counters'[s] = counters[s]
  BY <1>1 DEF Count
<1>3. Counter(slug[r])' <= Counter(slug[r]) + 1
  BY <1>1, <1>2 DEF Counter, NoCounter
<1> QED BY <1>2, <1>3, CountedStep DEF Count, Goto, IInv

LEMMA MeterStep ==
  ASSUME ProxyAssumption, IInv, MeterInv, [Next]_vars
  PROVE  MeterInv'
<1> USE DEF semVars, cacheVars
<1>1. ASSUME UNCHANGED <<pc, slug, meterVars>> PROVE MeterInv'
  BY <1>1, UncountedStep DEF MeterInv
<1>2. ASSUME NEW r \in Requests, NEW p, Goto(r, p), slug' = slug, UNCHANGED meterVars,
             r \notin counted \/ p \in {"routed", "done"}
      PROVE  MeterInv'
  <2>1. pc' = [pc EXCEPT ![r] = p] /\ pc \in [Requests -> {"idle", "mint", "check", "lookup",
          "found", "wait", "count", "counter", "routed", "done"}] /\ counted \subseteq Requests
    BY <1>2 DEF Goto, IInv, SemTypes, MeterInv, MeterTypes
  <2>2. \A q \in counted : slug'[q] = slug[q] /\ pc'[q] \in {"routed", "done"}
    BY <1>2, <2>1 DEF MeterInv
  <2> QED BY <1>2, <2>2, UncountedStep
<1>3. CASE UNCHANGED vars
  BY <1>1, <1>3 DEF vars, reqVars
<1>4. ASSUME NEW s \in Slugs, RowUp(s) \/ RowDown(s) \/ RowDrain(s) PROVE MeterInv'
  BY <1>1, <1>4 DEF RowUp, RowDown, RowDrain, Change, reqVars
<1>5. ASSUME NEW e \in events, ApplyEvent(e) PROVE MeterInv'
  BY <1>1, <1>5 DEF ApplyEvent, reqVars
<1>6. CASE Reconcile
  BY <1>1, <1>6 DEF Reconcile, ReconcileRead, ReconcileApply, reqVars
<1>7. ASSUME NEW r \in Requests, NEW s \in Slugs, Enter(r, s) PROVE MeterInv'
  <2>1. /\ pc[r] = "idle" /\ slug' = [slug EXCEPT ![r] = s] /\ UNCHANGED meterVars
        /\ \E p \in {"mint", "check", "done"} : pc' = [pc EXCEPT ![r] = p]
    BY <1>7 DEF Enter, Goto
  <2>2. r \notin counted
    BY <2>1 DEF MeterInv
  <2>3. \A q \in counted : slug'[q] = slug[q] /\ pc'[q] \in {"routed", "done"}
    BY <2>1, <2>2 DEF MeterInv, MeterTypes, IInv, SemTypes
  <2> QED BY <2>1, <2>3, UncountedStep
<1>8. ASSUME NEW r \in Requests, Serve(r) PROVE MeterInv'
  <2>1. CASE MintSemaphore(r) \/ CacheMiss(r) \/ Cold(r) \/ Warmed(r) \/ CountUnknown(r)
    <3>1. r \notin counted
      BY <2>1 DEF MeterInv, MintSemaphore, CacheMiss, Cold, Warmed, CountUnknown
    <3> QED BY <1>2, <2>1, <3>1 DEF MintSemaphore, CacheMiss, Cold, Warmed, CountUnknown
  <2>2. CASE lookup_route(r) \/ Fallback(r)
    <3>1. r \notin counted
      BY <2>2 DEF MeterInv, lookup_route, Fallback
    <3> QED BY <1>2, <2>2, <3>1 DEF lookup_route, Fallback
  <2>3. CASE Found(r)
    <3>1. r \notin counted
      BY <2>3 DEF MeterInv, Found
    <3> QED BY <1>2, <2>3, <3>1 DEF Found
  <2>4. CASE WakeTimeout(r) \/ Respond(r)
    BY <1>2, <2>4 DEF WakeTimeout, Respond
  <2>5. CASE CacheHit(r)
    <3>1. r \notin counted
      BY <2>5 DEF MeterInv, CacheHit
    <3>2. CASE counters[slug[r]] # NoCounter
      BY <2>5, <3>1, <3>2, CountStep DEF CacheHit
    <3>3. CASE counters[slug[r]] = NoCounter
      BY <1>2, <2>5, <3>1, <3>3 DEF CacheHit
    <3> QED BY <3>2, <3>3
  <2>6. CASE CountKnown(r)
    <3>1. r \notin counted
      BY <2>6 DEF MeterInv, CountKnown
    <3> QED BY <2>6, <3>1, CountStep DEF CountKnown
  <2>7. CASE MintCounter(r)
    <3>1. r \notin counted
      BY <2>7 DEF MeterInv, MintCounter
    <3>2. slug[r] \in Slugs /\ counters \in [Slugs -> Nat \cup {NoCounter}]
      BY DEF IInv, SemTypes, MeterInv, MeterTypes
    <3>3. /\ counters' \in [Slugs -> Nat \cup {NoCounter}] /\ counters'[slug[r]] = 1
          /\ \A s \in Slugs : s # slug[r] => counters'[s] = counters[s]
      BY <2>7, <3>2 DEF MintCounter
    <3>4. Counter(slug[r])' <= Counter(slug[r]) + 1
      BY <2>7, <3>2, <3>3 DEF MintCounter, Counter, NoCounter
    <3> QED BY <2>7, <3>1, <3>3, <3>4, CountedStep DEF MintCounter, Goto, IInv
  <2> QED BY <1>8, <2>1, <2>2, <2>3, <2>4, <2>5, <2>6, <2>7 DEF Serve
<1>9. CASE Flush
  BY <1>9, FlushStep
<1> QED BY <1>3, <1>4, <1>5, <1>6, <1>7, <1>8, <1>9 DEF Next

\* No Metal invocation is billed twice: what the flusher has published for a
\* service, what waits in its backlog and what is still in the counter are
\* together at most the requests counted for it, whichever publishes fail and are
\* retried, and whichever requests race to make the counter.
THEOREM MetalBilledOnce == Spec => []BilledAtMostOnce
<1>1. Init => IInv /\ MeterInv
  BY InitLimit, InitMeter, ProxyAssumption
<1>2. IInv /\ MeterInv /\ [Next]_vars => IInv' /\ MeterInv'
  BY NextStep, MeterStep, ProxyAssumption
<1>3. MeterInv => BilledAtMostOnce
  BY DEF MeterInv
<1> QED BY <1>1, <1>2, <1>3, PTL DEF Spec

-----------------------------------------------------------------------------
(* Types, and the path of a request *)

\* The part of the state that routes.
RouteTypes ==
  /\ rows \in [Slugs -> RouteRecords]
  /\ changes \in 0 .. MaxChanges
  /\ events \subseteq [n : 0 .. MaxChanges, slug : Slugs, addr : Addrs \cup {None}]
  /\ cache \in [Slugs -> Addrs \cup {None}]
  /\ recon = Unread \/ recon \in [Slugs -> Addrs \cup {None}]
  /\ rec \in [Requests -> RouteRecords]
  /\ peer \in [Requests -> Addrs \cup {None, Api}]

LEMMA RouteRecordParts ==
  ASSUME NEW r \in RouteRecords
  PROVE  r.addr \in Addrs \cup {None} /\ r.st \in Statuses /\ r.engine \in Engines
BY DEF RouteRecords

LEMMA InitRoutes ==
  ASSUME ProxyAssumption, Init
  PROVE  RouteTypes
<1>1. 1 \in Addrs
  BY DEF ProxyAssumption, Addrs
<1>2. /\ \A g \in Engines : Record(g, "off", None) \in RouteRecords
      /\ \A g \in Engines : Record(g, "stopped", None) \in RouteRecords
      /\ \A g \in Engines : Record(g, "running", 1) \in RouteRecords
      /\ Blank \in RouteRecords
  BY <1>1 DEF Record, RouteRecords, Statuses, Blank, Engines
<1>3. rows \in [Slugs -> RouteRecords]
  BY <1>2 DEF Init
<1>4. Authoritative \in [Slugs -> Addrs \cup {None}]
  BY <1>3, RouteRecordParts DEF Authoritative
<1>5. cache \in [Slugs -> Addrs \cup {None}]
  BY <1>4 DEF Init
<1>6. changes \in 0 .. MaxChanges
  BY DEF Init, ProxyAssumption
<1> QED BY <1>2, <1>3, <1>5, <1>6 DEF Init, RouteTypes

\* A change of a row, and the event that tells of it.
LEMMA ChangeTypes ==
  ASSUME ProxyAssumption, RouteTypes, NEW s \in Slugs, NEW st \in Statuses,
         NEW a \in Addrs \cup {None}, NEW told \in Addrs \cup {None}, Change(s, st, a, told)
  PROVE  RouteTypes'
<1>1. rows[s] \in RouteRecords
  BY DEF RouteTypes
<1>2. [rows[s] EXCEPT !.st = st, !.addr = a] \in RouteRecords
  <2>1. \A q \in RouteRecords : [q EXCEPT !.st = st] \in RouteRecords
    BY DEF RouteRecords
  <2>2. \A q \in RouteRecords : [q EXCEPT !.addr = a] \in RouteRecords
    BY DEF RouteRecords
  <2> QED BY <1>1, <2>1, <2>2
<1>3. rows' \in [Slugs -> RouteRecords]
  BY <1>2 DEF RouteTypes, Change
<1>4. changes' \in 0 .. MaxChanges
  BY DEF RouteTypes, Change, ProxyAssumption
<1>5. events' \subseteq [n : 0 .. MaxChanges, slug : Slugs, addr : Addrs \cup {None}]
  BY DEF RouteTypes, Change
<1> QED BY <1>3, <1>4, <1>5 DEF RouteTypes, Change, cacheVars, reqVars

LEMMA RouteStep ==
  ASSUME ProxyAssumption, IInv, RouteTypes, [Next]_vars
  PROVE  RouteTypes'
<1>0. slug \in [Requests -> Slugs]
  BY DEF IInv, SemTypes
<1>1. ASSUME UNCHANGED <<rows, changes, events, cache, recon, rec, peer>> PROVE RouteTypes'
  BY <1>1 DEF RouteTypes
<1>2. CASE UNCHANGED vars
  BY <1>1, <1>2 DEF vars, cacheVars, reqVars
<1>3. ASSUME NEW s \in Slugs, RowUp(s) \/ RowDown(s) \/ RowDrain(s) PROVE RouteTypes'
  <2>1. rows[s].addr \in Addrs \cup {None}
    BY RouteRecordParts DEF RouteTypes
  <2> QED BY <1>3, <2>1, ChangeTypes DEF RowUp, RowDown, RowDrain, Statuses
<1>4. ASSUME NEW e \in events, ApplyEvent(e) PROVE RouteTypes'
  <2>1. e.slug \in Slugs /\ e.addr \in Addrs \cup {None}
    BY DEF RouteTypes
  <2> QED BY <1>4, <2>1 DEF RouteTypes, ApplyEvent, reqVars
<1>5. CASE Reconcile
  <2>1. Authoritative \in [Slugs -> Addrs \cup {None}]
    BY RouteRecordParts DEF RouteTypes, Authoritative
  <2>2. CASE ReconcileRead
    BY <2>1, <2>2 DEF RouteTypes, ReconcileRead, reqVars
  <2>3. CASE ReconcileApply
    BY <2>3 DEF RouteTypes, ReconcileApply, reqVars
  <2> QED BY <1>5, <2>2, <2>3 DEF Reconcile
<1>6. CASE Flush
  BY <1>1, <1>6 DEF Flush, cacheVars, reqVars
<1>7. ASSUME NEW r \in Requests, NEW s \in Slugs, Enter(r, s) PROVE RouteTypes'
  BY <1>1, <1>7 DEF Enter, cacheVars
<1>8. ASSUME NEW r \in Requests, Serve(r) PROVE RouteTypes'
  <2>1. CASE \/ MintSemaphore(r) \/ CacheMiss(r) \/ WakeTimeout(r) \/ CountKnown(r)
             \/ CountUnknown(r) \/ MintCounter(r)
    BY <1>1, <2>1 DEF MintSemaphore, CacheMiss, WakeTimeout, CountKnown, CountUnknown,
                      MintCounter, cacheVars
  <2>2. CASE CacheHit(r) \/ Warmed(r)
    <3>1. cache[slug[r]] \in Addrs \cup {None, Api}
      BY <1>0 DEF RouteTypes
    <3>2. peer' \in [Requests -> Addrs \cup {None, Api}]
      BY <2>2, <3>1 DEF RouteTypes, CacheHit, Warmed
    <3> QED BY <2>2, <3>2 DEF RouteTypes, CacheHit, Warmed, cacheVars
  <2>3. CASE lookup_route(r)
    <3>1. rec' \in [Requests -> RouteRecords] /\ peer' \in [Requests -> Addrs \cup {None, Api}]
      BY <1>0, <2>3 DEF RouteTypes, lookup_route
    <3> QED BY <2>3, <3>1 DEF RouteTypes, lookup_route, cacheVars
  <2>4. Forget(r) => rec' \in [Requests -> RouteRecords]
    BY DEF RouteTypes, Forget, Blank, Record, RouteRecords, Engines, Statuses
  <2>5. CASE Found(r)
    <3>1. rec[r].addr \in Addrs \cup {None}
      BY RouteRecordParts DEF RouteTypes
    <3>2. cache' \in [Slugs -> Addrs \cup {None}] /\ peer' \in [Requests -> Addrs \cup {None, Api}]
      BY <1>0, <2>5, <3>1 DEF RouteTypes, Found
    <3> QED BY <2>4, <2>5, <3>2 DEF RouteTypes, Found
  <2>6. CASE Cold(r)
    BY <2>4, <2>6 DEF RouteTypes, Cold, cacheVars
  <2>7. CASE Fallback(r)
    <3>1. peer' \in [Requests -> Addrs \cup {None, Api}]
      BY <2>7 DEF RouteTypes, Fallback
    <3> QED BY <2>4, <2>7, <3>1 DEF RouteTypes, Fallback, cacheVars
  <2>8. CASE Respond(r)
    <3>1. cache' \in [Slugs -> Addrs \cup {None}] /\ peer' \in [Requests -> Addrs \cup {None, Api}]
      BY <2>8 DEF RouteTypes, Respond
    <3> QED BY <2>8, <3>1 DEF RouteTypes, Respond
  <2> QED BY <1>8, <2>1, <2>2, <2>3, <2>5, <2>6, <2>7, <2>8 DEF Serve
<1> QED BY <1>2, <1>3, <1>4, <1>5, <1>6, <1>7, <1>8 DEF Next

\* The proxy's state is well typed: no route is cached that is not an address, no
\* counter goes below zero, and a service's bill is a number.
THEOREM RouterTypes == Spec => []TypeOK
<1>1. Init => IInv /\ MeterInv /\ RouteTypes
  BY InitLimit, InitMeter, InitRoutes, ProxyAssumption
<1>2. IInv /\ MeterInv /\ RouteTypes /\ [Next]_vars => IInv' /\ MeterInv' /\ RouteTypes'
  BY NextStep, MeterStep, RouteStep, ProxyAssumption
<1>3. IInv /\ MeterInv /\ RouteTypes => TypeOK
  BY DEF IInv, SemTypes, MeterInv, MeterTypes, UsageEvents, RouteTypes, TypeOK
<1> QED BY <1>1, <1>2, <1>3, PTL DEF Spec

\* How far a request is in upstream_peer.
Rank(p) ==
  CASE p = "idle" -> 0 [] p = "mint" -> 1 [] p = "check" -> 2 [] p = "lookup" -> 3
    [] p = "found" -> 4 [] p = "wait" -> 5 [] p = "count" -> 6 [] p = "counter" -> 7
    [] p = "routed" -> 8 [] p = "done" -> 9

\* Every step that serves a request takes it onward and no other step moves it,
\* but for its entry: it goes through upstream_peer without a loop, so it has at
\* most nine steps to take, whatever the cache, the rows and the other requests do.
Onward ==
  [][\A r \in Requests : /\ Serve(r) => Rank(pc[r]) < Rank(pc'[r])
                         /\ pc'[r] # pc[r] => Rank(pc[r]) < Rank(pc'[r])]_vars

LEMMA ServeOnward ==
  ASSUME IInv, NEW r \in Requests, Serve(r)
  PROVE  /\ Rank(pc[r]) < Rank(pc'[r])
         /\ \A q \in Requests : q # r => pc'[q] = pc[q]
<1>0. pc \in [Requests -> {"idle", "mint", "check", "lookup", "found", "wait", "count",
                          "counter", "routed", "done"}]
  BY DEF IInv, SemTypes
<1>1. ASSUME NEW p, Goto(r, p) PROVE pc'[r] = p /\ \A q \in Requests : q # r => pc'[q] = pc[q]
  BY <1>0, <1>1 DEF Goto
<1>2. CASE MintSemaphore(r) \/ CacheHit(r) \/ CacheMiss(r) \/ lookup_route(r) \/ Cold(r)
  BY <1>1, <1>2 DEF MintSemaphore, CacheHit, CacheMiss, lookup_route, Cold, Rank
<1>3. CASE Found(r) \/ Fallback(r) \/ Warmed(r) \/ WakeTimeout(r)
  BY <1>1, <1>3 DEF Found, Fallback, Warmed, WakeTimeout, Rank
<1>4. CASE CountKnown(r) \/ CountUnknown(r) \/ MintCounter(r) \/ Respond(r)
  BY <1>1, <1>4 DEF CountKnown, CountUnknown, MintCounter, Respond, Rank
<1> QED BY <1>2, <1>3, <1>4 DEF Serve

\* upstream_peer serves every request in a bounded number of steps: the safety
\* part of RequestsEnd.
THEOREM RequestsGoOnward == Spec => Onward
<1>1. ASSUME IInv, [Next]_vars
      PROVE  [\A r \in Requests : /\ Serve(r) => Rank(pc[r]) < Rank(pc'[r])
                                  /\ pc'[r] # pc[r] => Rank(pc[r]) < Rank(pc'[r])]_vars
  <2>1. \A r \in Requests : Serve(r) => Rank(pc[r]) < Rank(pc'[r])
    BY <1>1, ServeOnward
  <2>2. ASSUME NEW r \in Requests, pc'[r] # pc[r], Next PROVE Rank(pc[r]) < Rank(pc'[r])
    <3>1. CASE \E q \in Requests : Serve(q)
      BY <1>1, <2>2, <3>1, ServeOnward
    <3>2. ASSUME NEW q \in Requests, NEW s \in Slugs, Enter(q, s)
          PROVE  Rank(pc[r]) < Rank(pc'[r])
      <4>1. pc[q] = "idle" /\ \E p \in {"mint", "check", "done"} : pc' = [pc EXCEPT ![q] = p]
        BY <3>2 DEF Enter, Goto
      <4>2. r = q /\ pc'[r] \in {"mint", "check", "done"}
        BY <1>1, <2>2, <4>1 DEF IInv, SemTypes
      <4> QED BY <4>1, <4>2 DEF Rank
    <3>3. CASE pc' = pc
      BY <2>2, <3>3
    <3>4. (\E s \in Slugs : RowUp(s) \/ RowDown(s) \/ RowDrain(s)) \/ (\E e \in events : ApplyEvent(e))
            \/ Reconcile \/ Flush => pc' = pc
      BY DEF RowUp, RowDown, RowDrain, Change, ApplyEvent, Reconcile, ReconcileRead,
             ReconcileApply, Flush, reqVars
    <3> QED BY <2>2, <3>1, <3>2, <3>3, <3>4 DEF Next
  <2> QED BY <1>1, <2>1, <2>2
<1>2. Init => IInv
  BY InitLimit, ProxyAssumption
<1>3. IInv /\ [Next]_vars => IInv'
  BY NextStep, ProxyAssumption
<1> QED BY <1>1, <1>2, <1>3, PTL DEF Spec, Onward
=============================================================================
