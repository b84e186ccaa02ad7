---------------------------- MODULE BudgetLedger ----------------------------
(***************************************************************************)
(* A customer's monthly AI budget: the ledger rows (one per month), the    *)
(* usage events, and the prices estimates and costs are computed from.     *)
(* The row of a month is locked from a turn's reservation to its commit;   *)
(* the locks are those of the turns (ChatTurn).                            *)
(***************************************************************************)
EXTENDS Integers, FiniteSetsExt

CONSTANTS
  MaxMonth,      \* bound on the months that pass
  HardCap,       \* ai_budget_hard_usd_per_customer_month, in cents
  PricingUnit,   \* tokens that cost as many cents as the provider's rate
  Rates          \* provider -> cents per PricingUnit tokens

Providers == DOMAIN Rates

ASSUME BudgetAssumption ==
  /\ MaxMonth \in Nat \ {0}
  /\ HardCap \in Nat
  /\ PricingUnit \in Nat \ {0}
  /\ IsFiniteSet(Providers) /\ Providers # {}
  /\ \A p \in Providers : Rates[p] \in Nat

Months == 1 .. MaxMonth

VARIABLES
  month,    \* the current UTC month
  ledger,   \* committed rows: month -> reserved and actual cents
  usage     \* committed events: month of created_at -> status -> cents

budgetVars == <<month, ledger, usage>>

EmptyRow == [reserved |-> 0, actual |-> 0]

UsageEventStatus == {"RECONCILED", "REFUNDED"}

BudgetTypeOK ==
  /\ month \in Months
  /\ ledger \in [Months -> [reserved : Nat, actual : Nat]]
  /\ usage \in [Months -> [UsageEventStatus -> Nat]]

BudgetInit ==
  /\ month = 1
  /\ ledger = [m \in Months |-> EmptyRow]
  /\ usage = [m \in Months |-> [s \in UsageEventStatus |-> 0]]

\* round(): to the nearest integer, and to the even one in the middle.
RoundedQuotient(n, d) ==
  LET q == n \div d
      r == 2 * (n % d)
  IN  IF r < d \/ (r = d /\ q % 2 = 0) THEN q ELSE q + 1

estimate_cost_cents(p, tokens) == RoundedQuotient(tokens * Rates[p], PricingUnit)

\* The check of reserve_budget, under the row's lock.
MayReserve(row, estimate) == row.reserved + row.actual + estimate <= HardCap

\* Mutated form: the reservation is lowered by what was spent.
ReconciledByActual(row, estimate, cost) ==
  [reserved |-> Max({0, row.reserved - cost}), actual |-> row.actual + cost]

\* reconcile_budget on the row of the month it finds.
Reconciled(row, estimate, cost) ==
  [reserved |-> Max({0, row.reserved - estimate}), actual |-> row.actual + cost]

\* reserve_budget and reconcile_budget of one transaction, whose months may
\* differ: each reads the clock for itself.
Settled(reservedIn, settledIn, estimate, cost) ==
  LET held == [ledger EXCEPT ![reservedIn].reserved = @ + estimate]
  IN  [held EXCEPT ![settledIn] = Reconciled(@, estimate, cost)]

\* Mutated form: only the turns that ended well leave an event.
RecordCompletedOnly(m, status, cost) ==
  usage' = [usage EXCEPT ![m][status] =
              @ + IF status = "RECONCILED" THEN cost ELSE 0]

record_usage_event(m, status, cost) ==
  usage' = [usage EXCEPT ![m][status] = @ + cost]

\* get_budget_status: an unlocked read of the committed row.
SpentCents(m) == ledger[m].reserved + ledger[m].actual

\* The sum of a function over the months.
Total(f) ==
  LET upTo[m \in 0 .. MaxMonth] == IF m = 0 THEN 0 ELSE upTo[m - 1] + f[m]
  IN  upTo[MaxMonth]

NextMonth ==
  /\ month < MaxMonth
  /\ month' = month + 1
  /\ UNCHANGED <<ledger, usage>>
=============================================================================
