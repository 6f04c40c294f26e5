----------------------------- MODULE BillingTasks -----------------------------
(***************************************************************************)
(* The periodic billing tasks of the API instances                         *)
(* (crates/api/src/billing.rs: billing_aggregator, metal_billing_cycle,    *)
(* invoice_generator).  Each is spawned once; at every tick it opens a     *)
(* transaction or a connection, reads the rows that are due and converts   *)
(* their columns with Row::get, which panics when the Rust type does not   *)
(* accept the column's type.  A panic rolls back and ends the task: nobody *)
(* holds its JoinHandle.                                                   *)
(***************************************************************************)
EXTENDS Naturals

CONSTANTS
  Instances,      \* API instances
  MaxRows,        \* bound: rows that become due for a task
  MaxRestarts     \* bound: restarts of instances

VARIABLES
  due,        \* rows a task has to process
  arrived,    \* rows so far
  alive,      \* tasks that still run
  restarts

vars == <<due, arrived, alive, restarts>>

Tasks == {"aggregator", "metal", "invoices"}

\* The type of the amount each task reads: SUM over a BIGINT is a NUMERIC,
\* monthly_price_cents is an INTEGER.
AmountColumn == [aggregator |-> "NUMERIC", metal |-> "INT4", invoices |-> "NUMERIC"]

\* FromSql of the i64 they read it into.
Accepts(type) == type = "INT8"

Init ==
  /\ due = [t \in Tasks |-> 0]
  /\ arrived = [t \in Tasks |-> 0]
  /\ alive = [i \in Instances |-> Tasks]
  /\ restarts = 0

\* usage_subscriber inserts a Liquid usage event; thirty days pass.
BecomeDue(t) ==
  /\ arrived[t] < MaxRows
  /\ arrived' = [arrived EXCEPT ![t] = @ + 1]
  /\ due' = [due EXCEPT ![t] = @ + 1]
  /\ UNCHANGED <<alive, restarts>>

\* A tick that finds rows.  The amounts are read first; only then would rows be
\* charged, marked or invoiced, and the cycle moved on.
Settle(i, t) ==
  /\ t \in alive[i] /\ due[t] > 0
  /\ Accepts(AmountColumn[t])
  /\ due' = [due EXCEPT ![t] = 0]
  /\ UNCHANGED <<arrived, alive, restarts>>

Panic(i, t) ==
  /\ t \in alive[i] /\ due[t] > 0
  /\ ~Accepts(AmountColumn[t])
  /\ alive' = [alive EXCEPT ![i] = @ \ {t}]
  /\ UNCHANGED <<due, arrived, restarts>>

\* spawn_billing_tasks
Restart(i) ==
  /\ restarts < MaxRestarts
  /\ restarts' = restarts + 1
  /\ alive' = [alive EXCEPT ![i] = Tasks]
  /\ UNCHANGED <<due, arrived>>

Tick(i, t) == Settle(i, t) \/ Panic(i, t)

AggregateOnce(i)    == Tick(i, "aggregator")
MetalBillingOnce(i) == Tick(i, "metal")
GenerateInvoices(i) == Tick(i, "invoices")

Next ==
  \/ \E t \in Tasks : BecomeDue(t)
  \/ \E i \in Instances :
       AggregateOnce(i) \/ MetalBillingOnce(i) \/ GenerateInvoices(i) \/ Restart(i)

\* The runtime polls the tasks.
Spec ==
  /\ Init /\ [][Next]_vars
  /\ \A i \in Instances :
       WF_vars(AggregateOnce(i)) /\ WF_vars(MetalBillingOnce(i)) /\ WF_vars(GenerateInvoices(i))

\* What is due is settled: usage is charged, a Metal month is renewed, an invoice is
\* written.
DueSettled == \A t \in Tasks : (due[t] > 0) ~> (due[t] = 0)

=============================================================================
