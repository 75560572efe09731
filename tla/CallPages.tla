----------------------------- MODULE CallPages -----------------------------
(***************************************************************************)
(* The request log of the usage page: cost_records of a window, those of a *)
(* route or all, the newest first, page by page, with a total.  Another    *)
(* process inserts and replaces rows while somebody turns the pages, and   *)
(* the window moves.  Above the log stand the sums of the window, by       *)
(* bucket.  A page is one read under the lock of the store.                *)
(***************************************************************************)
EXTENDS Integers, Sequences, FiniteSets

CONSTANTS
  MaxCalls,     \* bound: requests that leave a row
  CallRoutes,   \* routes
  RouteOf,      \* by call, the route it takes
  Routeless,    \* what the row of a request says that failed as a whole
  AllRoutes,    \* no route is chosen
  PageSize,
  WindowLen,    \* length of the window
  BucketLen,    \* length of a bucket
  Lag,          \* bound: the time between the making of a row and its insert
  PageClockMax  \* bound: time passes so often

ASSUME CallAssumption ==
  /\ PageSize \in Nat \ {0} /\ WindowLen \in Nat \ {0} /\ BucketLen \in Nat \ {0}
  /\ Lag \in Nat /\ PageClockMax \in Nat
  /\ MaxCalls \in Nat /\ RouteOf \in [1..MaxCalls -> CallRoutes]
  /\ AllRoutes \notin CallRoutes /\ Routeless \notin CallRoutes

VARIABLES
  epoch,     \* time.time()
  logRows,   \* cost_records, in the order of their rowids
  filter,    \* the route the reader has chosen
  page,      \* the page he has read last; 0 before the first
  total,     \* total_calls, as told with it
  sums,      \* the buckets, as told with it
  shown,     \* history: the calls he has been shown
  meant,     \* history: the rows of his window and route as he began
  takenBack  \* history: an answer was taken back since

pageVars == <<epoch, logRows, filter, page, total, sums, shown, meant, takenBack>>

PageInit ==
  /\ epoch = 0 /\ logRows = <<>>
  /\ filter = AllRoutes /\ page = 0 /\ total = 0 /\ sums = {}
  /\ shown = {} /\ meant = {} /\ takenBack = FALSE

\* A clock that does not step back, of one machine.
PageTick ==
  /\ epoch < PageClockMax
  /\ epoch' = epoch + 1
  /\ UNCHANGED <<logRows, filter, page, total, sums, shown, meant, takenBack>>

Row(call, at, route, ok) == [call |-> call, at |-> at, route |-> route, ok |-> ok]

\* The second a row was made in.
MadeAt(at) == epoch - Lag <= at /\ at <= epoch

\* A request of a route that walked, and one whose walk raised.  Requests are numbered
\* as their first rows come.
RecordCall(at, ok) ==
  LET call == Len(logRows) + 1 IN
  /\ call <= MaxCalls /\ MadeAt(at)
  /\ \E route \in {RouteOf[call]} \cup (IF ok THEN {} ELSE {Routeless}) :
       logRows' = Append(logRows, Row(call, at, route, ok))
  /\ UNCHANGED <<epoch, filter, page, total, sums, shown, meant, takenBack>>

\* An answer that is taken back (Books): INSERT OR REPLACE deletes the row there is and
\* adds one with the highest rowid.
TakeBack(k, at) ==
  LET size == Len(logRows)
      again == Row(logRows[k].call, at, Routeless, FALSE) IN
  /\ logRows[k].ok /\ logRows[k].at <= at /\ MadeAt(at)
  /\ logRows' = [j \in 1..size |-> IF j < k THEN logRows[j] ELSE IF j < size THEN logRows[j + 1] ELSE again]
  /\ takenBack' = (takenBack \/ page > 0)
  /\ UNCHANGED <<epoch, filter, page, total, sums, shown, meant>>

InWindow(r) == r.at >= epoch - WindowLen

Chosen(r, route) == InWindow(r) /\ (route = AllRoutes \/ r.route = route)

\* Mutant: the oldest first.
OldestFirst(i, j) == logRows[i].at < logRows[j].at \/ (logRows[i].at = logRows[j].at /\ i < j)

\* The order of the index on timestamp, read backwards.
NewestFirst(i, j) == logRows[i].at > logRows[j].at \/ (logRows[i].at = logRows[j].at /\ i > j)

\* What the query finds, by rowid, before LIMIT and OFFSET.
FoundRows(route) == {k \in 1..Len(logRows) : Chosen(logRows[k], route)}

\* How many of them come before one.
Place(k, route) == Cardinality({j \in FoundRows(route) : NewestFirst(j, k)})

\* LIMIT and OFFSET
PageOf(p, route) ==
  {k \in FoundRows(route) : (p - 1) * PageSize <= Place(k, route) /\ Place(k, route) < p * PageSize}

\* An empty success counts as failed.
SumsOf(found) ==
  LET bucket(k) == logRows[k].at \div BucketLen
      of(b) == {k \in found : bucket(k) = b}
  IN {[bucket |-> b, requests |-> Cardinality(of(b)),
       success |-> Cardinality({k \in of(b) : logRows[k].ok})] : b \in {bucket(k) : k \in found}}

Show(p, route) ==
  /\ page' = p
  /\ total' = Cardinality(FoundRows(route))
  /\ sums' = SumsOf(FoundRows(route))

\* The log of all routes or of one; whoever starts over is another reader.
FirstPage(route) ==
  /\ page = 0
  /\ filter' = route
  /\ Show(1, route)
  /\ shown' = {logRows[k].call : k \in PageOf(1, route)}
  /\ meant' = {logRows[k] : k \in FoundRows(route)}
  /\ UNCHANGED <<epoch, logRows, takenBack>>

\* The button is there as long as the total says so.
MorePages == page * PageSize < total

NextPage ==
  /\ page > 0 /\ MorePages
  /\ Show(page + 1, filter)
  /\ shown' = shown \cup {logRows[k].call : k \in PageOf(page + 1, filter)}
  /\ UNCHANGED <<epoch, logRows, filter, meant, takenBack>>

PageNext ==
  \/ PageTick
  \/ \E at \in 0..PageClockMax, ok \in BOOLEAN : RecordCall(at, ok)
  \/ \E k \in 1..Len(logRows), at \in 0..PageClockMax : TakeBack(k, at)
  \/ \E route \in CallRoutes \cup {AllRoutes} : FirstPage(route)
  \/ NextPage

PageSpec == PageInit /\ [][PageNext]_pageVars

-----------------------------------------------------------------------------
(* Properties *)

\* Type invariant.
PageTypeOK ==
  /\ epoch \in 0..PageClockMax
  /\ \A k \in 1..Len(logRows) :
       /\ logRows[k].call \in 1..MaxCalls /\ logRows[k].at \in 0..PageClockMax
       /\ logRows[k].route \in CallRoutes \cup {Routeless} /\ logRows[k].ok \in BOOLEAN
  /\ filter \in CallRoutes \cup {AllRoutes}
  /\ page \in Nat /\ total \in 0..MaxCalls
  /\ \A s \in sums : s.success <= s.requests /\ s.requests <= total
  /\ shown \subseteq 1..MaxCalls /\ takenBack \in BOOLEAN

\* Who turns the pages to the last one has been shown every row that was there when he
\* began and still is, with those that left the window excepted, whatever was inserted
\* in between, late rows too, or fell out of the window (usage_by_period, daily_usage,
\* Usage in ui/src/main.tsx).  A row may be shown twice.  A reader of one route may miss
\* a row when an answer is taken back: its new row has no route, and all behind it move
\* up; a reader of all routes misses nothing then either.
PagesMissNothing ==
  page > 0 /\ ~MorePages /\ (takenBack => filter = AllRoutes) =>
    \A k \in 1..Len(logRows) : logRows[k] \in meant /\ InWindow(logRows[k]) => logRows[k].call \in shown
=============================================================================
