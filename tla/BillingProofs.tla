---------------------------- MODULE BillingProofs ----------------------------
(***************************************************************************)
(* The ledger of Billing, for any number of top-ups, services, webhook     *)
(* requests and faults, and any amounts.                                   *)
(***************************************************************************)
EXTENDS Billing, FiniteSetTheorems, TLAPS

\* Types hold in every reachable state.
THEOREM BillingTypeOK == Spec => []TypeOK
<1>1. Init => TypeOK
  BY BillingAssumption DEF Init, TypeOK, NoHook, LedgerKinds, Statuses
<1>2. TypeOK /\ [Next]_vars => TypeOK'
  <2> SUFFICES ASSUME TypeOK, [Next]_vars PROVE TypeOK'
    OBVIOUS
  <2> USE BillingAssumption
  <2>1. ASSUME NEW s \in Sessions, Stripe(s) PROVE TypeOK'
    <3>1. CASE TopupKnown(s)
      BY <3>1 DEF TopupKnown, TypeOK, hookVars, reqVars, moneyVars, svcVars
    <3>2. CASE TopupFirst(s)
      BY <3>2 DEF TopupFirst, TypeOK, hookVars, reqVars, moneyVars, svcVars
    <3>3. CASE TopupCustomer(s)
      BY <3>3 DEF TopupCustomer, TypeOK, hookVars, reqVars, moneyVars, svcVars
    <3>4. CASE Decline(s)
      BY <3>4 DEF Decline, Send, Webhook, Webhooks, Kinds, TypeOK, reqVars, moneyVars, svcVars
    <3>5. CASE Pay(s)
      BY <3>5 DEF Pay, Send, Webhook, Webhooks, Kinds, TypeOK, reqVars, moneyVars, svcVars
    <3>6. CASE StripeRefund(s)
      BY <3>6 DEF StripeRefund, Send, Webhook, Webhooks, Kinds, TypeOK, reqVars, moneyVars, svcVars
    <3> QED BY <2>1, <3>1, <3>2, <3>3, <3>4, <3>5, <3>6 DEF Stripe
  <2>2. ASSUME NEW h \in Handlers, NEW m \in sent, Receive(h, m) \/ Resend(h, m) PROVE TypeOK'
    <3>1. Start(h, m) /\ pending' \subseteq sent /\ faults' \in 0 .. MaxFaults
      BY <2>2 DEF Receive, Resend, Fault, TypeOK
    <3>2. m.kind \in Kinds /\ m.kind # "idle"
      BY DEF TypeOK, Webhooks, Kinds
    <3>3. pc' \in [Handlers -> {"idle", "inserted", "credited", "reversing"} \cup Kinds]
      BY <3>1, <3>2 DEF Start, TypeOK
    <3>4. \A g \in Handlers : IF pc'[g] = "idle" THEN msg'[g] = NoHook ELSE msg'[g] \in sent
      BY <3>1, <3>2 DEF Start, TypeOK
    <3>5. msg' \in [Handlers -> Webhooks \cup {NoHook}]
      BY <3>1 DEF Start, TypeOK
    <3> QED BY <3>1, <3>3, <3>4, <3>5 DEF Start, TypeOK, stripeVars, moneyVars, svcVars
  <2>3. ASSUME NEW h \in Handlers, Handle(h) PROVE TypeOK'
    <3>1. ASSUME NEW ok \in BOOLEAN, Answer(h, ok)
          PROVE  /\ sent' = sent /\ pending' \subseteq sent
                 /\ pc' \in [Handlers -> {"idle", "inserted", "credited", "reversing"} \cup Kinds]
                 /\ \A g \in Handlers : IF pc'[g] = "idle" THEN msg'[g] = NoHook ELSE msg'[g] \in sent
                 /\ msg' \in [Handlers -> Webhooks \cup {NoHook}]
                 /\ seen' \in [Handlers -> SUBSET Services]
      BY <3>1 DEF Answer, TypeOK
    <3>2. pc[h] # "idle" => msg[h] \in Webhooks /\ Session(h) \in Sessions /\ msg[h].amount \in Nat
      BY DEF TypeOK, Webhooks, Session
    <3>3. CASE WebhookFail(h)
      <4>1. faults' \in 0 .. MaxFaults
        BY <3>3 DEF WebhookFail, Fault, TypeOK
      <4> QED BY <3>1, <3>3, <4>1 DEF WebhookFail, TypeOK, stripeVars, moneyVars, svcVars
    <3>4. CASE UnknownCustomer(h)
      BY <3>1, <3>4 DEF UnknownCustomer, TypeOK, stripeVars, moneyVars, svcVars
    <3>5. CASE CheckoutInsert(h)
      BY <3>5 DEF CheckoutInsert, TypeOK, stripeVars, hookVars, moneyVars, svcVars
    <3>6. CASE CheckoutDuplicate(h)
      BY <3>1, <3>6 DEF CheckoutDuplicate, TypeOK, stripeVars, moneyVars, svcVars
    <3>7. CASE CheckoutCredit(h)
      BY <3>7 DEF CheckoutCredit, InStatus, TypeOK, stripeVars, hookVars, moneyVars, svcVars
    <3>8. CASE CheckoutCommit(h)
      <4>1. /\ balance' \in Int /\ ledger' \in [LedgerKinds -> Nat]
            /\ credits' \in [Sessions -> Nat]
        BY <3>2, <3>8 DEF CheckoutCommit, TypeOK, LedgerKinds
      <4>2. svc' \in [Services -> Statuses] /\ provisions' \subseteq Services
        BY <3>8 DEF CheckoutCommit, MarkAndProvision, TypeOK, Statuses
      <4> QED BY <3>1, <3>8, <4>1, <4>2 DEF CheckoutCommit, TypeOK, stripeVars
    <3>9. CASE ChargeRefunded(h)
      <4>1. balance' \in Int /\ ledger' \in [LedgerKinds -> Nat] /\ suspends' \in Nat
        BY <3>2, <3>9 DEF ChargeRefunded, Deduct, SuspendIfDepleted, TypeOK, LedgerKinds
      <4> QED BY <3>1, <3>9, <4>1 DEF ChargeRefunded, SuspendIfDepleted, TypeOK, stripeVars
    <3>10. CASE FailedNoMatch(h)
      BY <3>1, <3>10 DEF FailedNoMatch, TypeOK, stripeVars, moneyVars, svcVars
    <3>11. CASE FailedLookup(h)
      BY <3>11 DEF FailedLookup, TypeOK, stripeVars, hookVars, moneyVars, svcVars
    <3>12. CASE FailedReverse(h)
      <4>1. /\ balance' \in Int /\ ledger' \in [LedgerKinds -> Nat] /\ suspends' \in Nat
            /\ reversals' \in [Sessions -> Nat]
        BY <3>2, <3>12 DEF FailedReverse, Deduct, SuspendIfDepleted, TypeOK, LedgerKinds
      <4> QED BY <3>1, <3>12, <4>1 DEF FailedReverse, SuspendIfDepleted, TypeOK, stripeVars
    <3> QED BY <2>3, <3>3, <3>4, <3>5, <3>6, <3>7, <3>8, <3>9, <3>10, <3>11, <3>12 DEF Handle
  <2>4. ASSUME NEW x \in Services, Deploy(x) PROVE TypeOK'
    <3>1. balance' \in Int /\ ledger' \in [LedgerKinds -> Nat]
      BY <2>4 DEF Deploy, Deduct, TypeOK, LedgerKinds
    <3>2. svc' \in [Services -> Statuses] /\ provisions' \subseteq Services
      BY <2>4 DEF Deploy, TypeOK, Statuses
    <3> QED BY <2>4, <3>1, <3>2 DEF Deploy, TypeOK, stripeVars, hookVars, reqVars
  <2>5. CASE Daemon
    <3>1. CASE SuspendDrain
      BY <3>1 DEF SuspendDrain, InStatus, TypeOK, Statuses, stripeVars, hookVars, reqVars, moneyVars
    <3>2. CASE SuspendLost
      BY <3>2 DEF SuspendLost, Fault, TypeOK, stripeVars, hookVars, reqVars, moneyVars
    <3>3. CASE SuspendFinish
      BY <3>3 DEF SuspendFinish, TypeOK, Statuses, stripeVars, hookVars, reqVars, moneyVars
    <3>4. CASE DaemonRestart
      BY <3>4 DEF DaemonRestart, Fault, TypeOK, Statuses, stripeVars, hookVars, reqVars, moneyVars
    <3>6. CASE SuspendUnended
      BY <3>6 DEF SuspendUnended, Fault, TypeOK, stripeVars, hookVars, reqVars, moneyVars
    <3>5. ASSUME NEW x \in Services, Provisioned(x) PROVE TypeOK'
      BY <3>5 DEF Provisioned, TypeOK, Statuses, stripeVars, hookVars, reqVars, moneyVars
    <3> QED BY <2>5, <3>1, <3>2, <3>3, <3>4, <3>5, <3>6 DEF Daemon
  <2>6. CASE UNCHANGED vars
    BY <2>6 DEF vars, stripeVars, hookVars, reqVars, moneyVars, svcVars, TypeOK
  <2> QED BY <2>1, <2>2, <2>3, <2>4, <2>5, <2>6 DEF Next
<1> QED BY <1>1, <1>2, PTL DEF Spec

-----------------------------------------------------------------------------
\* The invariant of the unique index is kept by every step.
LEMMA CreditStep == TypeOK /\ CreditInv /\ [Next]_vars => CreditInv'
<1> SUFFICES ASSUME TypeOK, CreditInv, [Next]_vars PROVE CreditInv'
  OBVIOUS
<1> USE BillingAssumption
<1>1. ASSUME UNCHANGED <<pc, msg, credits>>,
             \A m \in sent' : m.kind = "completed" => topup'[m.session] = "paid",
             \A s \in Sessions : topup[s] = "paid" => topup'[s] = "paid"
      PROVE  CreditInv'
  BY <1>1 DEF CreditInv, CreditedOnce, Inserting, Session
<1>2. ASSUME NEW s \in Sessions, Stripe(s) PROVE CreditInv'
  <2>1. CASE TopupKnown(s)
    BY <1>1, <2>1 DEF TopupKnown, CreditInv, TypeOK, Webhooks, hookVars, reqVars, moneyVars
  <2>2. CASE TopupFirst(s)
    BY <1>1, <2>2 DEF TopupFirst, CreditInv, TypeOK, Webhooks, hookVars, reqVars, moneyVars
  <2>3. CASE TopupCustomer(s)
    BY <1>1, <2>3 DEF TopupCustomer, CreditInv, TypeOK, Webhooks, hookVars, reqVars, moneyVars
  <2>4. CASE Decline(s)
    BY <1>1, <2>4 DEF Decline, Send, Webhook, CreditInv, TypeOK, Webhooks, reqVars, moneyVars
  <2>5. CASE Pay(s)
    BY <1>1, <2>5 DEF Pay, Send, Webhook, CreditInv, TypeOK, Webhooks, reqVars, moneyVars
  <2>6. CASE StripeRefund(s)
    BY <1>1, <2>6 DEF StripeRefund, Send, Webhook, CreditInv, TypeOK, Webhooks, reqVars, moneyVars
  <2> QED BY <1>2, <2>1, <2>2, <2>3, <2>4, <2>5, <2>6 DEF Stripe
<1>3. ASSUME NEW h \in Handlers, NEW m \in sent, Receive(h, m) \/ Resend(h, m) PROVE CreditInv'
  <2>1. Start(h, m)
    BY <1>3 DEF Receive, Resend
  <2>2. m.kind \in Kinds /\ topup' = topup /\ credits' = credits /\ sent' = sent
    BY <2>1 DEF Start, TypeOK, Webhooks, stripeVars, moneyVars
  <2>3. \A g \in Handlers : g # h => pc'[g] = pc[g] /\ msg'[g] = msg[g]
    BY <2>1 DEF Start, TypeOK
  <2>4. pc'[h] = m.kind /\ msg'[h] = m
    BY <2>1 DEF Start, TypeOK
  <2>5. \A s \in Sessions : Inserting(s)' \subseteq Inserting(s)
    BY <2>2, <2>3, <2>4 DEF Inserting, Session, Kinds
  <2> QED BY <2>2, <2>3, <2>4, <2>5 DEF CreditInv, CreditedOnce, Kinds
<1>4. ASSUME NEW h \in Handlers, Handle(h) PROVE CreditInv'
  <2>1. topup' = topup /\ sent' = sent
    BY <1>4 DEF Handle, WebhookFail, UnknownCustomer, CheckoutInsert, CheckoutDuplicate,
      CheckoutCredit, CheckoutCommit, ChargeRefunded, FailedNoMatch, FailedLookup,
      FailedReverse, Answer, stripeVars, hookVars
  <2>2. ASSUME NEW ok \in BOOLEAN, Answer(h, ok)
        PROVE  /\ pc'[h] = "idle"
               /\ \A g \in Handlers : g # h => pc'[g] = pc[g] /\ msg'[g] = msg[g]
               /\ \A s \in Sessions : Inserting(s)' = Inserting(s) \ {h}
    <3>1. pc'[h] = "idle" /\ \A g \in Handlers : g # h => pc'[g] = pc[g] /\ msg'[g] = msg[g]
      BY <2>2 DEF Answer, TypeOK
    <3> QED BY <3>1 DEF Inserting, Session
  <2>3. ASSUME NEW ok \in BOOLEAN, Answer(h, ok), UNCHANGED credits PROVE CreditInv'
    BY <2>1, <2>2, <2>3 DEF CreditInv, CreditedOnce
  <2>4. CASE WebhookFail(h)
    BY <2>3, <2>4 DEF WebhookFail, moneyVars
  <2>5. CASE UnknownCustomer(h)
    BY <2>3, <2>5 DEF UnknownCustomer, moneyVars
  <2>6. CASE CheckoutDuplicate(h)
    BY <2>3, <2>6 DEF CheckoutDuplicate, moneyVars
  <2>7. CASE ChargeRefunded(h)
    BY <2>3, <2>7 DEF ChargeRefunded
  <2>8. CASE FailedNoMatch(h)
    BY <2>3, <2>8 DEF FailedNoMatch, moneyVars
  <2>9. CASE FailedReverse(h)
    BY <2>3, <2>9 DEF FailedReverse
  <2>10. CASE CheckoutInsert(h)
    <3>1. pc'[h] = "inserted" /\ \A g \in Handlers : g # h => pc'[g] = pc[g]
      BY <2>10 DEF CheckoutInsert, TypeOK
    <3>2. \A s \in Sessions : Inserting(s)' = IF s = Session(h) THEN {h} ELSE Inserting(s)
      BY <2>10, <3>1 DEF CheckoutInsert, Inserting, Session
    <3> QED BY <2>1, <2>10, <3>1, <3>2 DEF CheckoutInsert, CreditInv, CreditedOnce, moneyVars
  <2>11. CASE CheckoutCredit(h)
    <3>1. pc'[h] = "credited" /\ \A g \in Handlers : g # h => pc'[g] = pc[g]
      BY <2>11 DEF CheckoutCredit, TypeOK
    <3>2. \A s \in Sessions : Inserting(s)' = Inserting(s)
      BY <2>11, <3>1 DEF CheckoutCredit, Inserting, Session
    <3> QED BY <2>1, <2>11, <3>1, <3>2 DEF CheckoutCredit, CreditInv, CreditedOnce, moneyVars
  <2>12. CASE FailedLookup(h)
    <3>1. pc'[h] = "reversing" /\ \A g \in Handlers : g # h => pc'[g] = pc[g]
      BY <2>12 DEF FailedLookup, TypeOK
    <3>2. \A s \in Sessions : Inserting(s)' = Inserting(s)
      BY <2>12, <3>1 DEF FailedLookup, Inserting, Session
    <3> QED BY <2>1, <2>12, <3>1, <3>2 DEF FailedLookup, CreditInv, CreditedOnce, moneyVars
  <2>13. CASE CheckoutCommit(h)
    <3> DEFINE t == Session(h)
    <3>1. msg[h] \in sent /\ msg[h].kind = "completed" /\ t \in Sessions
      BY <2>13 DEF CheckoutCommit, CreditInv, TypeOK, Webhooks, Session
    <3>2. topup[t] = "paid" /\ credits[t] = 0
      BY <2>13, <3>1 DEF CheckoutCommit, CreditInv, Inserting, Session
    <3>3. credits' = [credits EXCEPT ![t] = 1]
      BY <2>13, <3>2 DEF CheckoutCommit, TypeOK
    <3>4. Inserting(t) = {h}
      BY <2>13, <3>1 DEF CheckoutCommit, CreditInv, Inserting
    <3>5. /\ pc'[h] = "idle"
          /\ \A g \in Handlers : g # h => pc'[g] = pc[g] /\ msg'[g] = msg[g]
          /\ \A s \in Sessions : Inserting(s)' = Inserting(s) \ {h}
      BY <2>2, <2>13 DEF CheckoutCommit
    <3>6. CreditedOnce'
      BY <2>1, <3>1, <3>2, <3>3 DEF CreditInv, CreditedOnce, TypeOK
    <3>7. \A s \in Sessions, f, g \in Handlers :
            f \in Inserting(s)' => credits'[s] = 0 /\ (g \in Inserting(s)' => g = f)
      BY <3>1, <3>3, <3>4, <3>5 DEF CreditInv, TypeOK
    <3> QED BY <2>1, <3>5, <3>6, <3>7 DEF CreditInv
  <2> QED BY <1>4, <2>4, <2>5, <2>6, <2>7, <2>8, <2>9, <2>10, <2>11, <2>12, <2>13 DEF Handle
<1>5. ASSUME NEW x \in Services, Deploy(x) PROVE CreditInv'
  BY <1>1, <1>5 DEF Deploy, CreditInv, stripeVars, hookVars, reqVars
<1>6. CASE Daemon
  BY <1>1, <1>6 DEF Daemon, SuspendDrain, SuspendLost, SuspendFinish, SuspendUnended, DaemonRestart,
    Provisioned,
    CreditInv, stripeVars, hookVars, reqVars, moneyVars
<1>7. CASE UNCHANGED vars
  BY <1>1, <1>7 DEF vars, CreditInv, stripeVars, hookVars, reqVars, moneyVars
<1> QED BY <1>2, <1>3, <1>4, <1>5, <1>6, <1>7 DEF Next

\* A session is credited at most once, and only when it was paid, for any number of
\* webhook requests, deliveries and failures.
THEOREM CreditedOnceHolds == Spec => []CreditedOnce
<1>1. Init => CreditInv
  BY DEF Init, CreditInv, CreditedOnce, Inserting
<1>2. TypeOK /\ CreditInv /\ [Next]_vars => CreditInv'
  BY CreditStep
<1>3. CreditInv => CreditedOnce
  BY DEF CreditInv
<1> QED BY <1>1, <1>2, <1>3, BillingTypeOK, PTL DEF Spec

-----------------------------------------------------------------------------
\* A step that is no deploy neither adds nor removes a service.
LEMMA AbsentStep ==
  ASSUME TypeOK, DeployedInv, [Next]_vars, \A x \in Services : ~Deploy(x)
  PROVE  \A x \in Services : svc'[x] = "absent" <=> svc[x] = "absent"
<1> USE DEF TypeOK, DeployedInv
<1>1. CASE UNCHANGED svc
  BY <1>1
<1>2. ASSUME NEW h \in Handlers, CheckoutCommit(h)
      PROVE  \A x \in Services : svc'[x] = "absent" <=> svc[x] = "absent"
  BY <1>2 DEF CheckoutCommit, MarkAndProvision
<1>3. ASSUME NEW y \in Services, Provisioned(y)
      PROVE  \A x \in Services : svc'[x] = "absent" <=> svc[x] = "absent"
  BY <1>3 DEF Provisioned
<1>4. CASE SuspendDrain
  BY <1>4 DEF SuspendDrain, InStatus
<1>5. CASE SuspendFinish
  BY <1>5 DEF SuspendFinish
<1>6. CASE DaemonRestart
  BY <1>6 DEF DaemonRestart
<1>7. CASE SuspendLost \/ SuspendUnended
  BY <1>1, <1>7 DEF SuspendLost, SuspendUnended
<1>8. CASE UNCHANGED vars
  BY <1>1, <1>8 DEF vars, svcVars
<1>9. ASSUME NEW s \in Sessions, Stripe(s) PROVE UNCHANGED svc
  BY <1>9 DEF Stripe, TopupKnown, TopupFirst, TopupCustomer, Decline, Pay, StripeRefund, svcVars
<1>10. ASSUME NEW h \in Handlers, NEW m \in sent, Receive(h, m) \/ Resend(h, m) PROVE UNCHANGED svc
  BY <1>10 DEF Receive, Resend, Start, svcVars
<1>11. ASSUME NEW h \in Handlers, Handle(h), ~CheckoutCommit(h) PROVE UNCHANGED svc
  BY <1>11 DEF Handle, WebhookFail, UnknownCustomer, CheckoutInsert, CheckoutDuplicate,
    CheckoutCredit, ChargeRefunded, FailedNoMatch, FailedLookup, FailedReverse,
    SuspendIfDepleted, svcVars
<1> QED BY <1>1, <1>2, <1>3, <1>4, <1>5, <1>6, <1>7, <1>8, <1>9, <1>10, <1>11 DEF Next, Daemon

\* Provisions and resumptions under way stay those of deployed services.
LEMMA DeployedStep == TypeOK /\ DeployedInv /\ [Next]_vars => DeployedInv'
<1> SUFFICES ASSUME TypeOK, DeployedInv, [Next]_vars PROVE DeployedInv'
  OBVIOUS
<1>1. ASSUME NEW x \in Services, Deploy(x) PROVE DeployedInv'
  BY <1>1 DEF Deploy, DeployedInv, TypeOK, reqVars
<1>2. ASSUME \A x \in Services : ~Deploy(x) PROVE DeployedInv'
  <2>1. \A x \in Services : svc'[x] = "absent" <=> svc[x] = "absent"
    BY <1>2, AbsentStep
  <2>2. ASSUME \A x \in provisions' : x \in provisions,
               \A h \in Handlers : seen'[h] \subseteq seen[h]
        PROVE  DeployedInv'
    BY <2>1, <2>2 DEF DeployedInv, TypeOK
  <2>3. ASSUME NEW h \in Handlers, NEW ok \in BOOLEAN, Answer(h, ok)
        PROVE  \A g \in Handlers : seen'[g] \subseteq seen[g]
    BY <2>3 DEF Answer, TypeOK
  <2>4. ASSUME NEW h \in Handlers, Handle(h) PROVE DeployedInv'
    <3>1. CASE CheckoutCommit(h)
      <4>1. \A g \in Handlers : seen'[g] \subseteq seen[g]
        BY <2>3, <3>1 DEF CheckoutCommit
      <4>2. \A x \in provisions' : x \in provisions \/ x \in seen[h]
        BY <3>1 DEF CheckoutCommit, MarkAndProvision
      <4> QED BY <2>1, <4>1, <4>2 DEF DeployedInv, TypeOK
    <3>2. CASE CheckoutCredit(h)
      <4>1. provisions' = provisions
        BY <3>2 DEF CheckoutCredit, svcVars
      <4>2. \A g \in Handlers : \A x \in seen'[g] : x \in Services /\ svc[x] # "absent"
        BY <3>2 DEF CheckoutCredit, InStatus, DeployedInv, TypeOK
      <4> QED BY <2>1, <4>1, <4>2 DEF DeployedInv, TypeOK
    <3>3. CASE CheckoutInsert(h) \/ FailedLookup(h)
      BY <2>2, <3>3 DEF CheckoutInsert, FailedLookup, svcVars
    <3>4. CASE WebhookFail(h) \/ UnknownCustomer(h) \/ CheckoutDuplicate(h) \/ FailedNoMatch(h)
      BY <2>2, <2>3, <3>4 DEF WebhookFail, UnknownCustomer, CheckoutDuplicate, FailedNoMatch, svcVars
    <3>5. CASE ChargeRefunded(h) \/ FailedReverse(h)
      BY <2>2, <2>3, <3>5 DEF ChargeRefunded, FailedReverse, SuspendIfDepleted
    <3> QED BY <2>4, <3>1, <3>2, <3>3, <3>4, <3>5 DEF Handle
  <2>5. ASSUME NEW s \in Sessions, Stripe(s) PROVE DeployedInv'
    BY <2>2, <2>5 DEF Stripe, TopupKnown, TopupFirst, TopupCustomer, Decline, Pay, StripeRefund,
      svcVars, reqVars
  <2>6. ASSUME NEW h \in Handlers, NEW m \in sent, Receive(h, m) \/ Resend(h, m) PROVE DeployedInv'
    BY <2>2, <2>6 DEF Receive, Resend, Start, svcVars
  <2>7. CASE Daemon
    BY <2>2, <2>7 DEF Daemon, SuspendDrain, SuspendLost, SuspendFinish, SuspendUnended, DaemonRestart,
    Provisioned,
      reqVars
  <2>8. CASE UNCHANGED vars
    BY <2>2, <2>8 DEF vars, svcVars, reqVars
  <2> QED BY <1>2, <2>4, <2>5, <2>6, <2>7, <2>8 DEF Next
<1> QED BY <1>1, <1>2

-----------------------------------------------------------------------------
\* One more of a finite set adds one unit to its cost.
LEMMA OneMore ==
  ASSUME NEW S, IsFiniteSet(S), NEW e, e \notin S, NEW u \in Nat
  PROVE  u * Cardinality(S \cup {e}) = u * Cardinality(S) + u
<1>1. Cardinality(S) \in Nat /\ Cardinality(S \cup {e}) = Cardinality(S) + 1
  BY FS_CardinalityType, FS_AddElement
<1>2. \A n \in Nat : u * (n + 1) = u * n + u
  OBVIOUS
<1> QED BY <1>1, <1>2

\* The accounts agree after every transaction.
LEMMA LedgerStep ==
  TypeOK /\ CreditInv /\ DeployedInv /\ LedgerAccounts /\ [Next]_vars => LedgerAccounts'
<1> SUFFICES ASSUME TypeOK, CreditInv, DeployedInv, LedgerAccounts, [Next]_vars
             PROVE  LedgerAccounts'
  OBVIOUS
<1> USE BillingAssumption
<1> DEFINE C == Credited
           D == Deployed
<1>0. IsFiniteSet(C) /\ IsFiniteSet(D)
  BY FS_Subset DEF Credited, Deployed
<1>1. ASSUME NEW x \in Services, Deploy(x) PROVE LedgerAccounts'
  <2>1. C' = C
    BY <1>1 DEF Deploy, Credited
  <2>2. CASE x \in Metal
    <3>1. D' = D \cup {x} /\ x \notin D
      BY <1>1, <2>2 DEF Deploy, Deployed, TypeOK
    <3>2. Price * Cardinality(D') = Price * Cardinality(D) + Price
      BY <1>0, <3>1, OneMore
    <3>3. /\ balance' = balance - Price
          /\ ledger' = [ledger EXCEPT !["metal_monthly"] = @ + Price]
      BY <1>1, <2>2 DEF Deploy, Deduct
    <3> HIDE DEF C, D
    <3>4. /\ ledger'["topup"] = ledger["topup"] /\ ledger'["refund"] = ledger["refund"]
          /\ ledger'["metal_monthly"] = ledger["metal_monthly"] + Price
          /\ ledger["topup"] \in Nat /\ ledger["refund"] \in Nat /\ ledger["metal_monthly"] \in Nat
      BY <3>3 DEF TypeOK, LedgerKinds
    <3> QED BY <2>1, <3>2, <3>3, <3>4 DEF LedgerAccounts, C, D
  <2>3. CASE x \notin Metal
    <3>1. D' = D
      BY <1>1, <2>3 DEF Deploy, Deployed, TypeOK
    <3> QED BY <1>1, <2>1, <2>3, <3>1 DEF Deploy, LedgerAccounts
  <2> QED BY <2>2, <2>3
<1>2. ASSUME \A x \in Services : ~Deploy(x) PROVE LedgerAccounts'
  <2>1. D' = D
    BY <1>2, AbsentStep DEF Deployed
  <2>2. ASSUME UNCHANGED <<balance, ledger, credits>> PROVE LedgerAccounts'
    BY <2>1, <2>2 DEF LedgerAccounts, Credited
  <2>3. ASSUME NEW c \in Nat, Deduct(c, "refund"), UNCHANGED credits PROVE LedgerAccounts'
    <3>1. C' = C
      BY <2>3 DEF Credited
    <3>2. /\ ledger'["topup"] = ledger["topup"] /\ ledger'["metal_monthly"] = ledger["metal_monthly"]
          /\ ledger'["refund"] = ledger["refund"] + c
          /\ ledger["topup"] \in Nat /\ ledger["refund"] \in Nat /\ ledger["metal_monthly"] \in Nat
      BY <2>3 DEF Deduct, TypeOK, LedgerKinds
    <3> QED BY <2>1, <2>3, <3>1, <3>2 DEF Deduct, LedgerAccounts
  <2>4. ASSUME NEW h \in Handlers, Handle(h) PROVE LedgerAccounts'
    <3>1. CASE CheckoutCommit(h)
      <4>1. Session(h) \in Sessions /\ credits[Session(h)] = 0
        BY <3>1 DEF CheckoutCommit, CreditInv, Inserting, TypeOK, Webhooks, Session
      <4>2. C' = C \cup {Session(h)} /\ Session(h) \notin C
        BY <3>1, <4>1 DEF CheckoutCommit, Credited, TypeOK
      <4>3. Amount * Cardinality(C') = Amount * Cardinality(C) + Amount
        BY <1>0, <4>2, OneMore
      <4>4. /\ ledger'["topup"] = ledger["topup"] + Amount
            /\ ledger'["metal_monthly"] = ledger["metal_monthly"]
            /\ ledger'["refund"] = ledger["refund"]
            /\ ledger["topup"] \in Nat /\ ledger["refund"] \in Nat /\ ledger["metal_monthly"] \in Nat
        BY <3>1 DEF CheckoutCommit, TypeOK, LedgerKinds
      <4>5. balance' = balance + Amount
        BY <3>1 DEF CheckoutCommit
      <4> QED BY <2>1, <4>3, <4>4, <4>5 DEF LedgerAccounts
    <3>2. CASE ChargeRefunded(h)
      <4>1. msg[h].amount \in Nat
        BY <3>2 DEF ChargeRefunded, TypeOK, Webhooks
      <4> QED BY <2>3, <3>2, <4>1 DEF ChargeRefunded
    <3>3. CASE FailedReverse(h)
      BY <2>3, <3>3 DEF FailedReverse
    <3>4. CASE WebhookFail(h) \/ UnknownCustomer(h) \/ CheckoutDuplicate(h) \/ FailedNoMatch(h)
                 \/ CheckoutInsert(h) \/ CheckoutCredit(h) \/ FailedLookup(h)
      BY <2>2, <3>4 DEF WebhookFail, UnknownCustomer, CheckoutDuplicate, FailedNoMatch,
        CheckoutInsert, CheckoutCredit, FailedLookup, moneyVars
    <3> QED BY <2>4, <3>1, <3>2, <3>3, <3>4 DEF Handle
  <2>5. ASSUME NEW s \in Sessions, Stripe(s) PROVE LedgerAccounts'
    BY <2>2, <2>5 DEF Stripe, TopupKnown, TopupFirst, TopupCustomer, Decline, Pay, StripeRefund,
      moneyVars
  <2>6. ASSUME NEW h \in Handlers, NEW m \in sent, Receive(h, m) \/ Resend(h, m)
        PROVE  LedgerAccounts'
    BY <2>2, <2>6 DEF Receive, Resend, Start, moneyVars
  <2>7. CASE Daemon
    BY <2>2, <2>7 DEF Daemon, SuspendDrain, SuspendLost, SuspendFinish, SuspendUnended, DaemonRestart,
    Provisioned,
      moneyVars
  <2>8. CASE UNCHANGED vars
    BY <2>2, <2>8 DEF vars, moneyVars
  <2> QED BY <1>2, <2>4, <2>5, <2>6, <2>7, <2>8 DEF Next
<1> QED BY <1>1, <1>2

\* The balance is the ledger's sum, and the ledger has each credited session and each
\* Metal deploy once, whatever the interleaving of webhooks, retries, rollbacks and
\* deploys.
THEOREM LedgerAccountsHolds == Spec => []LedgerAccounts
<1>1. Init => CreditInv /\ DeployedInv
  BY DEF Init, CreditInv, CreditedOnce, Inserting, DeployedInv
<1>2. Init => LedgerAccounts
  <2> SUFFICES ASSUME Init PROVE LedgerAccounts
    OBVIOUS
  <2>1. Credited = {} /\ Deployed = {}
    BY BillingAssumption DEF Init, Credited, Deployed
  <2>2. Cardinality({}) = 0
    BY FS_EmptySet
  <2>3. Amount * 0 = 0 /\ Price * 0 = 0
    BY BillingAssumption
  <2> QED BY <2>1, <2>2, <2>3 DEF Init, LedgerAccounts, LedgerKinds
<1> QED BY <1>1, <1>2, CreditStep, DeployedStep, LedgerStep, BillingTypeOK, PTL DEF Spec

\* A service in provisioning has its event under way, after a top-up that resumes it
\* as after a deploy.
THEOREM ResumeQueuedHolds == Spec => []ResumeQueued
<1>1. Init => ResumeQueued
  BY DEF Init, ResumeQueued, InStatus
<1>2. TypeOK /\ ResumeQueued /\ [Next]_vars => ResumeQueued'
  <2> SUFFICES ASSUME TypeOK, ResumeQueued, [Next]_vars PROVE ResumeQueued'
    OBVIOUS
  <2> USE DEF TypeOK, ResumeQueued, InStatus
  <2>1. CASE UNCHANGED <<svc, provisions>>
    BY <2>1
  <2>2. ASSUME NEW x \in Services, Deploy(x) PROVE ResumeQueued'
    BY <2>2 DEF Deploy
  <2>3. ASSUME NEW h \in Handlers, CheckoutCommit(h) PROVE ResumeQueued'
    BY <2>3 DEF CheckoutCommit, MarkAndProvision
  <2>4. ASSUME NEW x \in Services, Provisioned(x) PROVE ResumeQueued'
    BY <2>4 DEF Provisioned
  <2>5. CASE SuspendDrain
    BY <2>5 DEF SuspendDrain
  <2>6. CASE SuspendFinish
    BY <2>6 DEF SuspendFinish
  <2>7. CASE DaemonRestart
    BY <2>7 DEF DaemonRestart
  <2>8. CASE SuspendLost \/ SuspendUnended
    BY <2>1, <2>8 DEF SuspendLost, SuspendUnended
  <2>9. ASSUME NEW s \in Sessions, Stripe(s) PROVE UNCHANGED <<svc, provisions>>
    BY <2>9 DEF Stripe, TopupKnown, TopupFirst, TopupCustomer, Decline, Pay, StripeRefund, svcVars
  <2>10. ASSUME NEW h \in Handlers, NEW m \in sent, Receive(h, m) \/ Resend(h, m)
         PROVE  UNCHANGED <<svc, provisions>>
    BY <2>10 DEF Receive, Resend, Start, svcVars
  <2>11. ASSUME NEW h \in Handlers, Handle(h), ~CheckoutCommit(h)
         PROVE  UNCHANGED <<svc, provisions>>
    BY <2>11 DEF Handle, WebhookFail, UnknownCustomer, CheckoutInsert, CheckoutDuplicate,
      CheckoutCredit, ChargeRefunded, FailedNoMatch, FailedLookup, FailedReverse,
      SuspendIfDepleted, svcVars
  <2>12. CASE UNCHANGED vars
    BY <2>1, <2>12 DEF vars, svcVars
  <2> QED BY <2>1, <2>2, <2>3, <2>4, <2>5, <2>6, <2>7, <2>8, <2>9, <2>10, <2>11, <2>12
    DEF Next, Daemon
<1> QED BY <1>1, <1>2, BillingTypeOK, PTL DEF Spec

=============================================================================
