------------------------------ MODULE Customers ------------------------------
(***************************************************************************)
(* Costs by customer: the console keeps customers and their budgets, the   *)
(* gateway says in each cost record whose it is, and the page of customers *)
(* reads the ledger once for all and once more for every budget, while     *)
(* requests go on being recorded by other processes.                       *)
(***************************************************************************)
EXTENDS Integers, Sequences, NatSums

CONSTANTS
  CustNames,     \* names of customers; a client may go by the same
  MaxCustomers,  \* bound
  MaxBills,      \* bound: requests
  Sayings,       \* what requests say of their customer: in the body, in a header, as client
  RowCosts, MonthlyLimits, \* amounts
  MaxTurns,      \* bound: months
  NoCustomer,    \* customer_id NULL
  Unset          \* no such field, no such row

CustIds == 1..MaxCustomers
Stranger == 0                  \* an id of no customer, which a client may send
CustRequests == 1..MaxBills    \* requests, by their request_id

ASSUME CustomersAssumption ==
  /\ MaxCustomers \in Nat /\ MaxBills \in Nat /\ MaxTurns \in Nat
  /\ RowCosts \subseteq Nat /\ MonthlyLimits \subseteq Nat \ {0}
  /\ \A said \in Sayings : {said.meta, said.header} \subseteq CustIds \cup {Stranger, Unset}

VARIABLES
  customers,   \* table customers: the names in the order they were created
  custLimits,  \* table customer_budgets
  billed,      \* cost_records: customer, cost and month of a request
  thisMonth,   \* the current month, UTC
  custPage,    \* the page that is being made: what was read of whom
  apart        \* history: what may set two readings of custPage apart

custVars == <<customers, custLimits, billed, thisMonth, custPage, apart>>

Bill == [customer : CustIds \cup {Stranger, NoCustomer}, cost : RowCosts, month : 0..MaxTurns]

CustomersInit ==
  /\ customers = <<>>
  /\ custLimits = [c \in CustIds |-> Unset]
  /\ billed = [q \in CustRequests |-> Unset]
  /\ thisMonth = 0
  /\ custPage = <<>> /\ apart = FALSE

-----------------------------------------------------------------------------
(* Customers *)

Registered(name) == \E c \in DOMAIN customers : customers[c] = name

CreateCustomer(name) ==
  /\ ~ Registered(name)                       \* else 409
  /\ Len(customers) < MaxCustomers
  /\ customers' = Append(customers, name)
  /\ UNCHANGED <<custLimits, billed, thisMonth, custPage, apart>>

\* set_monthly_budget, which asks nothing.
Upserted(c, limit) == [custLimits EXCEPT ![c] = limit]

\* The endpoint, which refuses limits that are not positive.
SetMonthlyBudget(c, limit) ==
  /\ c \in DOMAIN customers              \* else 404
  /\ custLimits' = Upserted(c, limit)
  /\ UNCHANGED <<customers, billed, thisMonth, custPage, apart>>

-----------------------------------------------------------------------------
(* Requests *)

\* Who a request is for: what the body says, whoever that is, before what a header says,
\* before the customer of the client's name.
ResolveCustomer(said) ==
  LET named == {c \in DOMAIN customers : customers[c] = said.client}
  IN  CASE said.meta # Unset -> said.meta
        [] said.meta = Unset /\ said.header # Unset -> said.header
        [] OTHER -> CHOOSE c \in named \cup {NoCustomer} : named # {} => c \in named

\* A request is recorded once, or again when its answer fails after all: the row is
\* replaced.  The month may turn between the making of a row and its insertion.
Bills(q, said, cost) ==
  /\ \E made \in {thisMonth - 1, thisMonth} \cap Nat :
       billed' = [billed EXCEPT ![q] =
         [customer |-> ResolveCustomer(said), cost |-> cost, month |-> made]]
  /\ apart' = (apart \/ billed[q] # Unset)
  /\ UNCHANGED <<customers, custLimits, thisMonth, custPage>>

MonthTurns ==
  /\ thisMonth < MaxTurns
  /\ thisMonth' = thisMonth + 1
  /\ apart' = TRUE
  /\ UNCHANGED <<customers, custLimits, billed, custPage>>

-----------------------------------------------------------------------------
(* The page *)

\* Month-to-date cost of a customer.
CountsFor(c, q) ==
  billed[q] # Unset /\ billed[q].customer = c /\ billed[q].month = thisMonth
MonthToDate(c) ==
  Sum([q \in CustRequests |-> IF CountsFor(c, q) THEN billed[q].cost ELSE 0], MaxBills)

Page(cs) == [c \in cs |-> [mtd |-> MonthToDate(c), limit |-> Unset, spent |-> Unset]]

\* list_customers, for the list; mtd_summary, for the page of one.
ListCustomers ==
  /\ custPage' = Page(DOMAIN customers)
  /\ apart' = FALSE
  /\ UNCHANGED <<customers, custLimits, billed, thisMonth>>
OpenCustomer(c) ==
  /\ c \in DOMAIN customers              \* else 404
  /\ custPage' = Page({c})
  /\ apart' = FALSE
  /\ UNCHANGED <<customers, custLimits, billed, thisMonth>>

\* get_budget, of one that has a budget.
ReadBudget(c) ==
  /\ c \in DOMAIN custPage /\ custPage[c].limit = Unset
  /\ custLimits[c] # Unset
  /\ custPage' = [custPage EXCEPT ![c].limit = custLimits[c], ![c].spent = MonthToDate(c)]
  /\ UNCHANGED <<customers, custLimits, billed, thisMonth, apart>>

CustomersNext ==
  \/ \E n \in CustNames : CreateCustomer(n)
  \/ \E c \in CustIds, l \in MonthlyLimits : SetMonthlyBudget(c, l)
  \/ \E q \in CustRequests, said \in Sayings, x \in RowCosts : Bills(q, said, x)
  \/ MonthTurns
  \/ ListCustomers
  \/ \E c \in CustIds : OpenCustomer(c) \/ ReadBudget(c)

CustomersSpec == CustomersInit /\ [][CustomersNext]_custVars

-----------------------------------------------------------------------------
(* Properties *)

\* Type invariant; within a month the spend a budget is shown with has all the costs its
\* customer is shown with, and perhaps later ones.
CustomersTypeOK ==
  /\ customers \in Seq(CustNames) /\ Len(customers) <= MaxCustomers
  /\ custLimits \in [CustIds -> MonthlyLimits \cup {Unset}]
  /\ billed \in [CustRequests -> Bill \cup {Unset}]
  /\ thisMonth \in 0..MaxTurns /\ apart \in BOOLEAN
  /\ \A c \in DOMAIN custPage :
       ~ apart /\ custPage[c].spent # Unset => custPage[c].spent >= custPage[c].mtd
=============================================================================
