--------------------------- MODULE Reservations ---------------------------
(***************************************************************************)
(* Budgets of the control plane: a request reserves an amount before it    *)
(* runs and is reconciled with what it did cost.  Both calls are one       *)
(* IMMEDIATE transaction under the lock of the process, so each is one     *)
(* action, also among processes; a call that is refused or fails rolls     *)
(* back and leaves no trace.                                               *)
(***************************************************************************)
EXTENDS Integers, NatSums

CONSTANTS
  Payers,    \* tenants
  Scopes,    \* budget scopes of a tenant
  Q,         \* request ids, 1..Q, UNIQUE over all tenants
  Limits,    \* bound: limits an administrator sets
  Amounts,   \* bound: amounts that are reserved
  Actuals,   \* bound: costs that are reconciled
  NoLimit, NoHold

RequestIds == 1..Q
Budgets == Payers \X Scopes

ASSUME AmountAssumption ==
  /\ Q \in Nat
  /\ Limits \subseteq Nat /\ Amounts \subseteq Nat /\ Actuals \subseteq Nat

Holds == [budget : Budgets, amount : Amounts, actual : Actuals \cup {0},
          state : {"reserved", "reconciled"}]

ASSUME NoneAssumption == NoLimit \notin Nat /\ NoHold \notin Holds

VARIABLES
  limit,   \* limit_value of a budget
  spent,   \* its column spent
  hold,    \* rows of reservations, by request id
  peak     \* history: the highest limit a budget ever had

resVars == <<limit, spent, hold, peak>>

\* The part of row q that counts for budget b: as a hold, as a cost, as the
\* excess of its cost over its hold
HeldBy(b, q) ==
  IF hold[q] # NoHold /\ hold[q].budget = b /\ hold[q].state = "reserved"
  THEN hold[q].amount ELSE 0
PaidBy(b, q) ==
  IF hold[q] # NoHold /\ hold[q].budget = b THEN hold[q].actual ELSE 0
ExcessOf(b, q) ==
  IF hold[q] # NoHold /\ hold[q].budget = b /\ hold[q].actual > hold[q].amount
  THEN hold[q].actual - hold[q].amount ELSE 0

Held(b) == Sum([q \in RequestIds |-> HeldBy(b, q)], Q)
Paid(b) == Sum([q \in RequestIds |-> PaidBy(b, q)], Q)
Excess(b) == Sum([q \in RequestIds |-> ExcessOf(b, q)], Q)

ResInit ==
  /\ limit = [b \in Budgets |-> NoLimit]
  /\ spent = [b \in Budgets |-> 0]
  /\ hold = [q \in RequestIds |-> NoHold]
  /\ peak = [b \in Budgets |-> 0]

\* The upsert keeps what is spent.
SetBudget(b, v) ==
  /\ v > 0
  /\ limit' = [limit EXCEPT ![b] = v]
  /\ peak' = [peak EXCEPT ![b] = IF v > @ THEN v ELSE @]
  /\ UNCHANGED <<spent, hold>>

\* Mutant: what is only reserved does not count.
FitsSpent(b, a) == spent[b] + a <= limit[b]

Fits(b, a) == spent[b] + Held(b) + a <= limit[b]

\* A repeated id is answered with its row, whatever its amount; the id of
\* another tenant fails on the UNIQUE column.
Reserve(b, q, a) ==
  /\ a > 0
  /\ hold[q] = NoHold
  /\ limit[b] # NoLimit
  /\ Fits(b, a)
  /\ hold' = [hold EXCEPT ![q] = [budget |-> b, amount |-> a, actual |-> 0,
                                  state |-> "reserved"]]
  /\ UNCHANGED <<limit, spent, peak>>

Open(q) == hold[q] # NoHold /\ hold[q].state = "reserved"

Reconcile(q, actual) ==
  /\ hold[q] # NoHold
  /\ Open(q)
  /\ hold' = [hold EXCEPT ![q].actual = actual, ![q].state = "reconciled"]
  /\ spent' = [spent EXCEPT ![hold[q].budget] = @ + actual]
  /\ UNCHANGED <<limit, peak>>

ResNext ==
  \/ \E b \in Budgets, v \in Limits : SetBudget(b, v)
  \/ \E b \in Budgets, q \in RequestIds, a \in Amounts : Reserve(b, q, a)
  \/ \E q \in RequestIds, actual \in Actuals : Reconcile(q, actual)

ResSpec == ResInit /\ [][ResNext]_resVars

-----------------------------------------------------------------------------
(* Properties *)

\* Type invariant; the peak of a budget is never below its limit.
ResTypeOK ==
  /\ limit \in [Budgets -> Nat \cup {NoLimit}]
  /\ spent \in [Budgets -> Nat]
  /\ hold \in [RequestIds -> Holds \cup {NoHold}]
  /\ peak \in [Budgets -> Nat]
  /\ \A b \in Budgets : limit[b] # NoLimit => limit[b] <= peak[b]

\* What is spent and what is reserved of a budget together stay within the
\* highest limit it has had, but for what requests cost more than they had
\* reserved: no order of reserves, reconciles, repeats and changes of the limit
\* gives away the same headroom twice (reserve, reconcile).
WithinPeak == \A b \in Budgets : spent[b] + Held(b) <= peak[b] + Excess(b)

\* The column spent is the sum of the reconciled rows, each once, however often
\* a caller reports the cost of a request (reconcile).
SpentIsPaid == \A b \in Budgets : spent[b] = Paid(b)
=============================================================================
