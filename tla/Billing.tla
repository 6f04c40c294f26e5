------------------------------- MODULE Billing -------------------------------
(***************************************************************************)
(* The prepaid balance of one workspace (crates/api/src/billing.rs, the    *)
(* first month in routes/deployments.rs, daemon tasks/suspend.rs): top-ups *)
(* through Stripe Checkout, the three webhooks that change the balance,    *)
(* the charge of a Metal deploy, the suspension of a workspace without     *)
(* balance and its return after a top-up.                                  *)
(*                                                                         *)
(* Webhooks are delivered at least once and in any order, to any API       *)
(* instance.  A transaction is one step, except that of a completed        *)
(* checkout, which others meet in two places: at the unique index on       *)
(* stripe_session_id and at the lock of the workspace row.                 *)
(***************************************************************************)
EXTENDS Integers, FiniteSets

CONSTANTS
  Sessions,       \* bound: top-ups; one names its request and its checkout session
  Services,       \* services of the workspace
  Metal,          \* those on the Metal engine
  Handlers,       \* webhook requests served at the same time
  Amount,         \* what a top-up credits
  Price,          \* a month of a Metal service
  MaxCreating,    \* top-up requests that create a Stripe customer at the same time
  MaxSetbacks,    \* bound: declined attempts and refunds
  MaxFaults       \* bound: failed transactions, retries, restarts, lost events

ASSUME BillingAssumption ==
  /\ IsFiniteSet(Sessions) /\ IsFiniteSet(Services)
  /\ Metal \subseteq Services
  /\ Amount \in Nat \ {0} /\ Price \in Nat \ {0}
  /\ MaxCreating \in Nat /\ MaxSetbacks \in Nat /\ MaxFaults \in Nat

VARIABLES
  customer,    \* stripe_customer_id: {} or the request that created it
  topup,       \* a top-up, from its request to its payment
  cust,        \* the customer a checkout session was made for
  declined,    \* sessions with a declined payment attempt
  refunded,    \* amount_refunded of a session's charge, as Stripe knows it
  sent,        \* webhooks Stripe has sent
  pending,     \* those it has no 200 for
  pc,          \* where a webhook request is
  msg,         \* what it was sent
  seen,        \* the suspended services enqueue_unsuspend has read
  balance,     \* workspaces.balance
  ledger,      \* credit_ledger: total per kind
  credits,     \* top-up rows per session in credit_ledger
  reversals,   \* rows per session that reverse one
  svc,         \* services.status
  provisions,  \* ProvisionEvents under way
  suspends,    \* SuspendEvents in the outbox or on their way
  drain,       \* services the suspend consumer is draining
  unended,     \* history: services whose drain ended without its last UPDATE
  faults       \* faults so far

stripeVars == <<customer, topup, cust, declined, refunded>>
hookVars   == <<sent, pending>>
reqVars    == <<pc, msg, seen>>
moneyVars  == <<balance, ledger, credits, reversals>>
svcVars    == <<svc, provisions, suspends, drain, unended>>
vars == <<stripeVars, hookVars, reqVars, moneyVars, svcVars, faults>>

Kinds == {"completed", "refunded", "failed"}
Webhook(k, s, n) == [kind |-> k, session |-> s, amount |-> n]
Webhooks == [kind : Kinds, session : Sessions, amount : 0 .. Amount]
NoHook == [kind |-> "none"]

LedgerKinds == {"topup", "metal_monthly", "refund"}
Statuses == {"absent", "provisioning", "running", "draining", "suspended",
             "stopped", "failed"}
InStatus(st) == {x \in Services : svc[x] = st}
Active == InStatus("running") \cup InStatus("provisioning")

Init ==
  /\ customer = {}
  /\ topup = [s \in Sessions |-> "none"]
  /\ cust = [s \in Sessions |-> {}]
  /\ declined = {}
  /\ refunded = [s \in Sessions |-> 0]
  /\ sent = {} /\ pending = {}
  /\ pc = [h \in Handlers |-> "idle"]
  /\ msg = [h \in Handlers |-> NoHook]
  /\ seen = [h \in Handlers |-> {}]
  /\ balance = 0
  /\ ledger = [k \in LedgerKinds |-> 0]
  /\ credits = [s \in Sessions |-> 0]
  /\ reversals = [s \in Sessions |-> 0]
  /\ svc = [x \in Services |-> "absent"]
  /\ provisions = {} /\ suspends = 0 /\ drain = {} /\ unended = {}
  /\ faults = 0

Fault == faults < MaxFaults /\ faults' = faults + 1

-----------------------------------------------------------------------------
(* create_topup and get_or_create_stripe_customer *)

\* The workspace has a customer: the session is made for it.
TopupKnown(s) ==
  /\ topup[s] = "none" /\ customer # {}
  /\ topup' = [topup EXCEPT ![s] = "open"]
  /\ cust' = [cust EXCEPT ![s] = customer]
  /\ UNCHANGED <<customer, declined, refunded, hookVars, reqVars, moneyVars, svcVars, faults>>

\* It has none yet: the request goes to Stripe to create one.
TopupFirst(s) ==
  /\ topup[s] = "none" /\ customer = {}
  /\ Cardinality({t \in Sessions : topup[t] = "creating"}) < MaxCreating
  /\ topup' = [topup EXCEPT ![s] = "creating"]
  /\ UNCHANGED <<customer, cust, declined, refunded, hookVars, reqVars, moneyVars, svcVars, faults>>

\* It stores the new customer without another look at the row, then creates the
\* checkout session, or fails to.
TopupCustomer(s) ==
  /\ topup[s] = "creating"
  /\ customer' = {s}
  /\ cust' = [cust EXCEPT ![s] = {s}]
  /\ \E st \in {"open", "gone"} : topup' = [topup EXCEPT ![s] = st]
  /\ UNCHANGED <<declined, refunded, hookVars, reqVars, moneyVars, svcVars, faults>>

-----------------------------------------------------------------------------
(* Stripe *)

Setbacks == {m \in sent : m.kind # "completed"}

Send(m) == sent' = sent \cup {m} /\ pending' = pending \cup {m}

\* An attempt to pay is declined; the same session may still be paid.
Decline(s) ==
  /\ topup[s] = "open" /\ s \notin declined
  /\ Cardinality(Setbacks) < MaxSetbacks
  /\ declined' = declined \cup {s}
  /\ Send(Webhook("failed", s, 0))
  /\ UNCHANGED <<customer, topup, cust, refunded, reqVars, moneyVars, svcVars, faults>>

Pay(s) ==
  /\ topup[s] = "open"
  /\ topup' = [topup EXCEPT ![s] = "paid"]
  /\ Send(Webhook("completed", s, 0))
  /\ UNCHANGED <<customer, cust, declined, refunded, reqVars, moneyVars, svcVars, faults>>

\* A refund, in part or in full; the event carries the sum of the refunds so far.
StripeRefund(s) ==
  /\ topup[s] = "paid"
  /\ Cardinality(Setbacks) < MaxSetbacks
  /\ \E n \in 1 .. Amount :
       /\ refunded[s] < n
       /\ refunded' = [refunded EXCEPT ![s] = n]
       /\ Send(Webhook("refunded", s, n))
  /\ UNCHANGED <<customer, topup, cust, declined, reqVars, moneyVars, svcVars, faults>>

-----------------------------------------------------------------------------
(* stripe_webhook *)

Handling(m) == \E h \in Handlers : msg[h] = m

Start(h, m) ==
  /\ pc[h] = "idle"
  /\ pc' = [pc EXCEPT ![h] = m.kind]
  /\ msg' = [msg EXCEPT ![h] = m]
  /\ UNCHANGED <<stripeVars, sent, seen, moneyVars, svcVars>>

Receive(h, m) ==
  /\ m \in pending /\ ~Handling(m)
  /\ Start(h, m)
  /\ UNCHANGED <<pending, faults>>

\* Stripe saw no answer, or saw it too late, and sends what is being handled or was
\* handled before.
Resend(h, m) ==
  /\ m \in sent /\ (m \notin pending \/ Handling(m))
  /\ Fault
  /\ Start(h, m)
  /\ pending' = pending \cup {m}

Session(h) == msg[h].session

\* The request is answered; anything but a 200 leaves the webhook pending.
Answer(h, ok) ==
  /\ pc' = [pc EXCEPT ![h] = "idle"]
  /\ msg' = [msg EXCEPT ![h] = NoHook]
  /\ seen' = [seen EXCEPT ![h] = {}]
  /\ pending' = IF ok THEN pending \ {msg[h]} ELSE pending
  /\ sent' = sent

\* A transaction that has updated workspaces.balance holds the row.
RowFree == \A h \in Handlers : pc[h] # "credited"

\* Transactions with a row of this session that is not yet committed.
Inserting(s) == {h \in Handlers : pc[h] \in {"inserted", "credited"} /\ Session(h) = s}

Known(h) == cust[Session(h)] = customer

\* Mutant: an error is logged and answered with 200.
WebhookFailQuiet(h) ==
  /\ pc[h] # "idle"
  /\ Fault
  /\ Answer(h, TRUE)
  /\ UNCHANGED <<stripeVars, moneyVars, svcVars>>

\* Any error: the transaction rolls back and Stripe will try again.
WebhookFail(h) ==
  /\ pc[h] # "idle"
  /\ Fault
  /\ Answer(h, FALSE)
  /\ UNCHANGED <<stripeVars, moneyVars, svcVars>>

\* No workspace has this customer: query_one finds no row.
UnknownCustomer(h) ==
  /\ pc[h] \in {"completed", "inserted", "refunded"}
  /\ ~Known(h)
  /\ Answer(h, FALSE)
  /\ UNCHANGED <<stripeVars, moneyVars, svcVars, faults>>

-----------------------------------------------------------------------------
(* handle_checkout_completed *)

\* Mutant: no unique index on stripe_session_id, only a look at committed rows.
CheckoutInsertUnguarded(h) ==
  /\ pc[h] = "completed" /\ Known(h)
  /\ credits[Session(h)] = 0
  /\ pc' = [pc EXCEPT ![h] = "inserted"]
  /\ UNCHANGED <<stripeVars, hookVars, msg, seen, moneyVars, svcVars, faults>>

\* The INSERT waits for an uncommitted row of the same session.
CheckoutInsert(h) ==
  /\ pc[h] = "completed" /\ Known(h)
  /\ Inserting(Session(h)) = {}
  /\ credits[Session(h)] = 0
  /\ pc' = [pc EXCEPT ![h] = "inserted"]
  /\ UNCHANGED <<stripeVars, hookVars, msg, seen, moneyVars, svcVars, faults>>

\* Mutant: the balance is credited ahead of the ledger, outside of its transaction.
CheckoutDuplicateCredits(h) ==
  /\ pc[h] = "completed" /\ Known(h) /\ RowFree
  /\ Inserting(Session(h)) = {}
  /\ credits[Session(h)] # 0
  /\ balance' = balance + Amount
  /\ Answer(h, TRUE)
  /\ UNCHANGED <<stripeVars, ledger, credits, reversals, svcVars, faults>>

\* UNIQUE_VIOLATION: a duplicate, answered with 200.
CheckoutDuplicate(h) ==
  /\ pc[h] = "completed" /\ Known(h)
  /\ Inserting(Session(h)) = {}
  /\ credits[Session(h)] # 0
  /\ Answer(h, TRUE)
  /\ UNCHANGED <<stripeVars, moneyVars, svcVars, faults>>

\* The balance is updated and enqueue_unsuspend reads the suspended services;
\* it then reads their environment from the vault.
CheckoutCredit(h) ==
  /\ pc[h] = "inserted" /\ Known(h)
  /\ RowFree
  /\ pc' = [pc EXCEPT ![h] = "credited"]
  /\ seen' = [seen EXCEPT ![h] = IF balance + Amount > 0 THEN InStatus("suspended") ELSE {}]
  /\ UNCHANGED <<stripeVars, hookVars, msg, moneyVars, svcVars, faults>>

\* Mutant: the services are marked, their events are not inserted.
MarkOnly(xs) ==
  /\ svc' = [x \in Services |-> IF x \in xs THEN "provisioning" ELSE svc[x]]
  /\ UNCHANGED provisions

\* The second half of enqueue_unsuspend.
MarkAndProvision(xs) ==
  /\ svc' = [x \in Services |-> IF x \in xs THEN "provisioning" ELSE svc[x]]
  /\ provisions' = provisions \cup xs

CheckoutCommit(h) ==
  /\ pc[h] = "credited"
  /\ balance' = balance + Amount
  /\ ledger' = [ledger EXCEPT !["topup"] = @ + Amount]
  /\ credits' = [credits EXCEPT ![Session(h)] = @ + 1]
  /\ MarkAndProvision(seen[h])
  /\ Answer(h, TRUE)
  /\ UNCHANGED <<stripeVars, reversals, suspends, drain, unended, faults>>

-----------------------------------------------------------------------------
(* The transactions that take from the balance *)

Deduct(cost, kind) ==
  /\ RowFree
  /\ balance' = balance - cost
  /\ ledger' = [ledger EXCEPT ![kind] = @ + cost]

\* insert_suspend_outbox, for a workspace with something to suspend.
SuspendIfDepleted ==
  /\ suspends' = IF balance' <= 0 /\ Active # {} THEN suspends + 1 ELSE suspends
  /\ UNCHANGED <<svc, provisions, drain, unended>>

\* handle_charge_refunded
ChargeRefunded(h) ==
  /\ pc[h] = "refunded" /\ Known(h)
  /\ Deduct(msg[h].amount, "refund")
  /\ SuspendIfDepleted
  /\ Answer(h, TRUE)
  /\ UNCHANGED <<stripeVars, credits, reversals, faults>>

\* handle_payment_failed looks for the credit outside of its transaction.
FailedNoMatch(h) ==
  /\ pc[h] = "failed" /\ credits[Session(h)] = 0
  /\ Answer(h, TRUE)
  /\ UNCHANGED <<stripeVars, moneyVars, svcVars, faults>>

FailedLookup(h) ==
  /\ pc[h] = "failed" /\ credits[Session(h)] # 0
  /\ pc' = [pc EXCEPT ![h] = "reversing"]
  /\ UNCHANGED <<stripeVars, hookVars, msg, seen, moneyVars, svcVars, faults>>

FailedReverse(h) ==
  /\ pc[h] = "reversing"
  /\ Deduct(Amount, "refund")
  /\ reversals' = [reversals EXCEPT ![Session(h)] = @ + 1]
  /\ SuspendIfDepleted
  /\ Answer(h, TRUE)
  /\ UNCHANGED <<stripeVars, credits, faults>>

\* deploy_service charges the first month whatever the balance.
Deploy(x) ==
  /\ svc[x] = "absent"
  /\ IF x \in Metal THEN Deduct(Price, "metal_monthly") ELSE UNCHANGED <<balance, ledger>>
  /\ svc' = [svc EXCEPT ![x] = "provisioning"]
  /\ provisions' = provisions \cup {x}
  /\ UNCHANGED <<stripeVars, hookVars, reqVars, credits, reversals, suspends, drain, unended, faults>>

-----------------------------------------------------------------------------
(* The daemon *)

\* A provision ends (MetalPlatform has its steps).
Provisioned(x) ==
  /\ x \in provisions
  /\ provisions' = provisions \ {x}
  /\ \E st \in {"running", "failed"} : svc' = [svc EXCEPT ![x] = st]
  /\ UNCHANGED <<stripeVars, hookVars, reqVars, moneyVars, suspends, drain, unended, faults>>

\* Phase 1 of the suspend consumer, which takes one event at a time.
SuspendDrain ==
  /\ suspends > 0 /\ drain = {}
  /\ suspends' = suspends - 1
  /\ drain' = InStatus("running")
  /\ svc' = [x \in Services |-> IF x \in drain' THEN "draining" ELSE svc[x]]
  /\ UNCHANGED <<stripeVars, hookVars, reqVars, moneyVars, provisions, unended, faults>>

\* The event finds nobody subscribed, or no database connection.
SuspendLost ==
  /\ suspends > 0
  /\ Fault
  /\ suspends' = suspends - 1
  /\ UNCHANGED <<stripeVars, hookVars, reqVars, moneyVars, svc, provisions, drain, unended>>

\* Phase 3: whatever is draining is suspended and torn down.
SuspendFinish ==
  /\ drain # {}
  /\ drain' = {} /\ unended' = {}
  /\ svc' = [x \in Services |-> IF svc[x] = "draining" THEN "suspended" ELSE svc[x]]
  /\ UNCHANGED <<stripeVars, hookVars, reqVars, moneyVars, provisions, suspends, faults>>

\* The UPDATE fails: the VMs are torn down all the same.
SuspendUnended ==
  /\ drain # {}
  /\ Fault
  /\ drain' = {} /\ unended' = unended \cup drain
  /\ UNCHANGED <<stripeVars, hookVars, reqVars, moneyVars, svc, provisions, suspends>>

\* Mutant: no run_cleanup of what was draining.
DaemonRestartBare ==
  /\ Fault
  /\ drain' = {} /\ unended' = {}
  /\ svc' = [x \in Services |->
               IF svc[x] = "running" /\ x \notin Metal THEN "stopped" ELSE svc[x]]
  /\ UNCHANGED <<stripeVars, hookVars, reqVars, moneyVars, provisions, suspends>>

\* A restart forgets the drain; run_cleanup ends it, and Liquid listeners are gone.
DaemonRestart ==
  /\ Fault
  /\ drain' = {} /\ unended' = {}
  /\ svc' = [x \in Services |->
               IF svc[x] = "draining" THEN "suspended"
               ELSE IF svc[x] = "running" /\ x \notin Metal THEN "stopped"
               ELSE svc[x]]
  /\ UNCHANGED <<stripeVars, hookVars, reqVars, moneyVars, provisions, suspends>>

-----------------------------------------------------------------------------
Handle(h) ==
  \/ WebhookFail(h) \/ UnknownCustomer(h)
  \/ CheckoutInsert(h) \/ CheckoutDuplicate(h) \/ CheckoutCredit(h) \/ CheckoutCommit(h)
  \/ ChargeRefunded(h) \/ FailedNoMatch(h) \/ FailedLookup(h) \/ FailedReverse(h)

Stripe(s) ==
  \/ TopupKnown(s) \/ TopupFirst(s) \/ TopupCustomer(s)
  \/ Decline(s) \/ Pay(s) \/ StripeRefund(s)

Daemon ==
  \/ SuspendDrain \/ SuspendLost \/ SuspendFinish \/ SuspendUnended \/ DaemonRestart
  \/ \E x \in Services : Provisioned(x)

Next ==
  \/ \E s \in Sessions : Stripe(s)
  \/ \E h \in Handlers : Handle(h) \/ \E m \in sent : Receive(h, m) \/ Resend(h, m)
  \/ \E x \in Services : Deploy(x)
  \/ Daemon

Delivery(k) == \E m \in pending, h \in Handlers : m.kind = k /\ Receive(h, m)
CheckoutDelivery(s) ==
  \E m \in pending, h \in Handlers : m.kind = "completed" /\ m.session = s /\ Receive(h, m)

\* Requests that were accepted are served, Stripe sends a completed checkout again
\* and again until it has a 200, and a drain's timer ends.  Nobody has to pay or to
\* deploy.  Delivery is strongly fair as only the bound on Handlers makes it wait.
Fairness ==
  /\ \A h \in Handlers : WF_vars(Handle(h))
  /\ \A s \in Sessions : SF_vars(CheckoutDelivery(s))
  /\ WF_vars(SuspendFinish \/ SuspendUnended)

Spec == Init /\ [][Next]_vars /\ Fairness

\* Every other task runs too.
FairSpec ==
  /\ Spec
  /\ \A k \in Kinds : WF_vars(Delivery(k))
  /\ WF_vars(SuspendDrain)
  /\ \A x \in Services : WF_vars(Provisioned(x))

-----------------------------------------------------------------------------
TypeOK ==
  /\ customer \subseteq Sessions
  /\ topup \in [Sessions -> {"none", "creating", "open", "paid", "gone"}]
  /\ cust \in [Sessions -> SUBSET Sessions]
  /\ declined \subseteq Sessions
  /\ refunded \in [Sessions -> 0 .. Amount]
  /\ sent \subseteq Webhooks /\ pending \subseteq sent
  /\ pc \in [Handlers -> {"idle", "inserted", "credited", "reversing"} \cup Kinds]
  /\ \A h \in Handlers : IF pc[h] = "idle" THEN msg[h] = NoHook ELSE msg[h] \in sent
  /\ msg \in [Handlers -> Webhooks \cup {NoHook}]
  /\ seen \in [Handlers -> SUBSET Services]
  /\ balance \in Int
  /\ ledger \in [LedgerKinds -> Nat]
  /\ credits \in [Sessions -> Nat] /\ reversals \in [Sessions -> Nat]
  /\ svc \in [Services -> Statuses]
  /\ provisions \subseteq Services /\ suspends \in Nat
  /\ drain \subseteq Services /\ unended \subseteq Services
  /\ faults \in 0 .. MaxFaults

Credited == {s \in Sessions : credits[s] # 0}
Deployed == {x \in Metal : svc[x] # "absent"}

\* However often, in whatever order and to however many instances Stripe sends
\* checkout.session.completed, a session is credited at most once, and only when
\* it was paid (the unique stripe_session_id of handle_checkout_completed).
CreditedOnce ==
  \A s \in Sessions : credits[s] <= 1 /\ (credits[s] = 1 => topup[s] = "paid")

\* What CreditedOnce rests on: a transaction that has inserted its row is alone
\* with its session, which has no committed row; Stripe sends what was paid.
CreditInv ==
  /\ \A m \in sent : m.kind = "completed" => topup[m.session] = "paid"
  /\ \A h \in Handlers :
       pc[h] \in {"completed", "inserted", "credited"} => msg[h].kind = "completed"
  /\ \A s \in Sessions, h, g \in Handlers :
       h \in Inserting(s) => credits[s] = 0 /\ (g \in Inserting(s) => g = h)
  /\ CreditedOnce

\* What is under way concerns services that were deployed.
DeployedInv ==
  /\ \A x \in provisions : svc[x] # "absent"
  /\ \A h \in Handlers : \A x \in seen[h] : svc[x] # "absent"

\* The balance is what the ledger says, and the ledger's top-ups and first months
\* are those of the sessions credited and the Metal services deployed: no error,
\* retry or race of a transaction changes one without the others.
LedgerAccounts ==
  /\ balance = ledger["topup"] - ledger["metal_monthly"] - ledger["refund"]
  /\ ledger["topup"] = Amount * Cardinality(Credited)
  /\ ledger["metal_monthly"] = Price * Cardinality(Deployed)

\* A payment made for the workspace's customer is credited in the end, whatever
\* fails on the way: an error leaves the webhook to be sent again.
PaymentCredited ==
  \A s \in Sessions :
    (topup[s] = "paid" /\ cust[s] = customer) ~> (credits[s] = 1 \/ cust[s] # customer)

\* A drain ends in a suspension unless its last UPDATE fails, also when the daemon
\* restarts in the middle and only run_cleanup is left to end it.
DrainEnds ==
  \A x \in Services : (svc[x] = "draining") ~> (svc[x] = "suspended" \/ x \in unended)

\* A service that waits for its provision has a ProvisionEvent under way, after a
\* deploy as after a top-up that resumes it.
ResumeQueued == InStatus("provisioning") \subseteq provisions

-----------------------------------------------------------------------------
(* What the code says and does not keep (see the README) *)

\* Every payment is credited.  Two first top-ups at once create two customers, and
\* the sessions of the one that is overwritten find no workspace.
PaidIsCredited ==
  \A s \in Sessions : (topup[s] = "paid") ~> (credits[s] = 1)

\* No more is taken back than was paid: charge.refunded has no guard against
\* duplicates, and its amount is the sum of all refunds of the charge.
RefundBounded ==
  ledger["refund"] <= Amount * Cardinality({s \in Sessions : topup[s] = "paid"})

\* A payment that went through is not reversed: a payment_failed of an earlier
\* attempt, handled after the completed checkout, reverses it.
PaidStaysCredited == \A s \in Sessions : topup[s] = "paid" => reversals[s] = 0

\* A workspace with credit is not left suspended: a drain that ends after the
\* top-up's transaction has looked is seen by nobody.
CreditResumes ==
  \A x \in Services :
    (svc[x] = "suspended" /\ balance > 0) ~> (svc[x] # "suspended" \/ balance <= 0)

\* A workspace without credit does not keep a service: a deploy does not look at
\* the balance, and a service still provisioning misses the SuspendEvent.
DebtSuspends ==
  \A x \in Services :
    (svc[x] = "running" /\ balance <= 0) ~> (svc[x] # "running" \/ balance > 0)

=============================================================================
