-------------------------- MODULE RouteChainProofs --------------------------
(***************************************************************************)
(* Proofs about the candidate chain and its cooldown table, for every      *)
(* number of requests and models, every chain, ladder and cooldown.        *)
(***************************************************************************)
EXTENDS RouteChain, NatSumLemmas

\* Failures that are no verdict on the model.
Mild == {"limited", "overload", "timeout", "mid_stream"}

Rows == [until : Nat, strikes : Nat, reason : Reasons \cup {"none"}]

Brief(row, c) == row.strikes = 0 /\ row.until <= c + Greater(1, ShortPark)

\* What holds of the table t at instant c, when the models have failed as in s:
\* a row has a cause, and a model that only stalled has no strikes and a short
\* park.
Sane(t, s, c) ==
  /\ t \in [Models -> Rows]
  /\ s \in [Models -> SUBSET Reasons]
  /\ \A m \in Models : t[m] # NoRow => t[m].reason \in s[m]
  /\ \A m \in Models : Dynamic[m] /\ s[m] \subseteq Mild => Brief(t[m], c)

\* The requests: a walk begins with the first candidate, a stream has a model, a
\* retry after 502, 503 or 504 holds that answer.
Walk ==
  /\ clock \in Nat
  /\ sticky \in [Sessions -> Models \cup {NoModel}]
  /\ bound \in [Sessions -> Nat]
  /\ stage \in [Requests -> Stages]
  /\ list \in [Requests -> Seq(Models)]
  /\ at \in [Requests -> Nat]
  /\ \A r \in Requests : at[r] \in 1..Len(list[r])
  /\ tries \in [Requests -> Nat]
  /\ kept \in [Requests -> Errors \cup {"none"}]
  /\ result \in [Requests -> Answers \cup {"none", "error"}]
  /\ server \in [Requests -> Models \cup {NoModel}]
  /\ \A r \in Requests : stage[r] = "idle" => at[r] = 1
  /\ \A r \in Requests : stage[r] = "streaming" => server[r] \in Models
  /\ \A r \in Requests : stage[r] = "blip" => kept[r] = "overload"

IInv == Walk /\ Sane(table, seen, clock)

-----------------------------------------------------------------------------
(***************************************************************************)
(* The table.                                                              *)
(***************************************************************************)

\* The rung of a ladder is a number of seconds.
LEMMA RungType ==
  ASSUME NEW n \in Nat
  PROVE  (IF n = 0 THEN 1 ELSE Ladder[Lesser(n, Len(Ladder))]) \in Nat
<1>1. CASE n = 0
  BY <1>1
<1>2. CASE n # 0
  <2>1. Lesser(n, Len(Ladder)) \in 1..Len(Ladder)
    BY <1>2, TimeAssumption DEF Lesser
  <2> QED
    BY <1>2, <2>1, TimeAssumption
<1> QED
  BY <1>1, <1>2

\* A parked row has its reason, and without strikes it ends after its seconds.
LEMMA ParkedRow ==
  ASSUME clock \in Nat, NEW t \in [Models -> Rows], NEW m \in Models, NEW seconds \in Nat,
         NEW reason \in Reasons, NEW strike \in BOOLEAN
  PROVE  LET u == Park(t, m, seconds, reason, strike)
         IN  /\ u \in [Models -> Rows]
             /\ u[m].reason = reason
             /\ \A o \in Models \ {m} : u[o] = t[o]
             /\ t[m].strikes = 0 /\ ~strike =>
                  u[m].strikes = 0 /\ u[m].until = clock + Greater(1, seconds)
<1> DEFINE n == IF LadderOn THEN t[m].strikes + (IF strike THEN 1 ELSE 0) ELSE 0
           rung == IF n = 0 THEN 1 ELSE Ladder[Lesser(n, Len(Ladder))]
           row == [until |-> clock + Greater(1, Greater(seconds, rung)),
                   strikes |-> n, reason |-> reason]
<1>1. n \in Nat
  BY RouteAssumption DEF Rows
<1>2. rung \in Nat
  BY <1>1, RungType
<1>3. Greater(1, Greater(seconds, rung)) \in Nat
  BY <1>2 DEF Greater
<1>4. row \in Rows
  BY <1>1, <1>3 DEF Rows
<1>5. t[m].strikes = 0 /\ ~strike => n = 0 /\ rung = 1
  OBVIOUS
<1>6. rung = 1 => Greater(1, Greater(seconds, rung)) = Greater(1, seconds)
  BY DEF Greater
<1>7. Park(t, m, seconds, reason, strike) = [t EXCEPT ![m] = row]
  BY DEF Park
<1> HIDE DEF n, rung
<1> QED
  BY <1>4, <1>5, <1>6, <1>7

LEMMA SecondsType ==
  ASSUME NEW m \in Models, NEW failure
  PROVE  Seconds(m, failure) \in Nat
  BY TimeAssumption, RouteAssumption DEF Seconds, Lesser

\* Deleting rows keeps the table sane.
LEMMA DeleteSane ==
  ASSUME NEW t, NEW s, NEW c \in Nat, Sane(t, s, c), NEW ms
  PROVE  /\ Sane(Lookup(t, ms), s, c)
         /\ \A m \in Models : Sane(Reset(t, m), s, c)
<1>1. NoRow \in Rows /\ Brief(NoRow, c)
  BY TimeAssumption DEF NoRow, Rows, Brief, Greater
<1> QED
  BY <1>1 DEF Sane, Lookup, Reset

\* A failure of m is put on its account and in its row.
LEMMA ParkSane ==
  ASSUME clock \in Nat, Sane(table, seen, clock), NEW m \in Models, NEW seconds \in Nat,
         NEW reason \in Reasons, NEW strike \in BOOLEAN,
         Dynamic[m] /\ reason \in Mild => seconds <= ShortPark /\ ~strike
  PROVE  Sane(Park(table, m, seconds, reason, strike),
              [seen EXCEPT ![m] = @ \cup {reason}], clock)
<1> DEFINE u == Park(table, m, seconds, reason, strike)
           s == [seen EXCEPT ![m] = @ \cup {reason}]
<1>1. /\ u \in [Models -> Rows]
      /\ u[m].reason = reason
      /\ \A o \in Models \ {m} : u[o] = table[o]
      /\ table[m].strikes = 0 /\ ~strike =>
           u[m].strikes = 0 /\ u[m].until = clock + Greater(1, seconds)
  BY ParkedRow DEF Sane
<1>2. s \in [Models -> SUBSET Reasons] /\ s[m] = seen[m] \cup {reason}
  BY DEF Sane
<1>3. \A o \in Models \ {m} : s[o] = seen[o]
  BY DEF Sane
<1> HIDE DEF u, s
<1>4. \A o \in Models : u[o] # NoRow => u[o].reason \in s[o]
  BY <1>1, <1>2, <1>3 DEF Sane
<1>5. Dynamic[m] /\ s[m] \subseteq Mild => Brief(u[m], clock)
  <2> SUFFICES ASSUME Dynamic[m], s[m] \subseteq Mild PROVE Brief(u[m], clock)
    OBVIOUS
  <2>1. ~strike /\ table[m].strikes = 0
    BY <1>2 DEF Sane, Brief
  <2>2. seconds <= ShortPark /\ ShortPark \in Nat
    BY <1>2, TimeAssumption
  <2>3. /\ Greater(1, seconds) <= Greater(1, ShortPark)
        /\ Greater(1, seconds) \in Nat /\ Greater(1, ShortPark) \in Nat
    BY <2>2 DEF Greater
  <2> QED
    BY <1>1, <2>1, <2>3 DEF Brief
<1>6. \A o \in Models : Dynamic[o] /\ s[o] \subseteq Mild => Brief(u[o], clock)
  BY <1>1, <1>3, <1>5 DEF Sane
<1> QED
  BY <1>1, <1>2, <1>4, <1>6 DEF Sane, u, s

\* The cooldown decision, applied to a failure of m.
LEMMA BlameSane ==
  ASSUME clock \in Nat, Sane(table, seen, clock), NEW m \in Models,
         NEW failure \in Failures, Account(m, failure)
  PROVE  Sane(Blame(table, m, failure), seen', clock)
<1>1. CASE failure \in {"context", "request"}
  BY <1>1 DEF Blame, Account
<1>2. CASE failure \notin {"context", "request"}
  <2>1. Seconds(m, failure) \in Nat /\ Strikes(m, failure) \in BOOLEAN
    BY SecondsType, RouteAssumption DEF Strikes
  <2>2. failure \in Mild => Seconds(m, failure) <= ShortPark /\ ~Strikes(m, failure)
    BY TimeAssumption, RouteAssumption DEF Mild, Seconds, Strikes, Lesser, Failures, Kinds
  <2>3. failure \in Reasons
    BY DEF Reasons
  <2>4. Blame(table, m, failure) =
          Park(table, m, Seconds(m, failure), failure, Strikes(m, failure))
    BY <1>2 DEF Blame
  <2>5. seen' = [seen EXCEPT ![m] = @ \cup {failure}]
    BY <1>2 DEF Account
  <2> QED
    BY <2>1, <2>2, <2>3, <2>4, <2>5, ParkSane
<1> QED
  BY <1>1, <1>2

\* A timeout or the death of a stream.
LEMMA StallSane ==
  ASSUME clock \in Nat, Sane(table, seen, clock), NEW m \in Models,
         NEW reason \in {"timeout", "mid_stream"}, Account(m, reason)
  PROVE  Sane(Stall(table, m, reason), seen', clock)
<1> DEFINE seconds == IF Dynamic[m] THEN Lesser(Base[m], ShortPark) ELSE Base[m]
<1>1. seconds \in Nat /\ (Dynamic[m] => seconds <= ShortPark)
  BY TimeAssumption, RouteAssumption DEF Lesser
<1>2. Stall(table, m, reason) = Park(table, m, seconds, reason, FALSE)
  BY DEF Stall
<1>3. seen' = [seen EXCEPT ![m] = @ \cup {reason}]
  BY DEF Account
<1> HIDE DEF seconds
<1> QED
  BY <1>1, <1>2, <1>3, ParkSane DEF Reasons

-----------------------------------------------------------------------------
(***************************************************************************)
(* The walk.  What the steps are made of keeps the invariant, if the table *)
(* they start from is sane.                                                *)
(***************************************************************************)

LEMMA CandidateType ==
  ASSUME Walk, NEW r \in Requests
  PROVE  Candidate(r) \in Models
  BY DEF Walk, Candidate

LEMMA CallKeeps ==
  ASSUME IInv, NEW r \in Requests, NEW k \in Nat, k >= 1, NEW t,
         stage[r] # "idle",
         Call(r, k, t), UNCHANGED <<clock, list>>, Sane(t, seen', clock)
  PROVE  IInv'
<1>1. Walk'
  BY DEF IInv, Walk, Call, Turns, Stages
<1>2. Sane(table', seen', clock)
  <2>1. PICK ms : table' = Lookup(t, ms)
    BY DEF Call
  <2> QED
    BY <2>1, DeleteSane DEF IInv, Walk
<1> QED
  BY <1>1, <1>2 DEF IInv

LEMMA FinishKeeps ==
  ASSUME IInv, NEW r \in Requests, NEW answer \in Answers \cup {"error"},
         NEW m \in Models \cup {NoModel}, answer = "ok" => m \in Models, NEW t,
         stage[r] # "idle",
         Finish(r, answer, m, t), UNCHANGED <<clock, list>>, Sane(t, seen', clock)
  PROVE  IInv'
<1>1. /\ stage' \in [Requests -> Stages]
      /\ result' \in [Requests -> Answers \cup {"none", "error"}]
      /\ server' \in [Requests -> Models \cup {NoModel}]
  BY DEF IInv, Walk, Finish, Stages
<1>2. /\ sticky' \in [Sessions -> Models \cup {NoModel}]
      /\ bound' \in [Sessions -> Nat]
  BY RouteAssumption DEF IInv, Walk, Finish
<1>3. \A q \in Requests : stage'[q] = "streaming" => server'[q] \in Models
  BY DEF IInv, Walk, Finish
<1>4. \A q \in Requests : stage'[q] \in {"idle", "blip"} => stage'[q] = stage[q]
  BY DEF IInv, Walk, Finish
<1> QED
  BY <1>1, <1>2, <1>3, <1>4 DEF IInv, Walk, Finish

LEMMA MoveOnKeeps ==
  ASSUME IInv, NEW r \in Requests, NEW answer \in Errors \cup {"error"},
         NEW m \in Models \cup {NoModel}, NEW t,
         stage[r] # "idle",
         MoveOn(r, answer, m, t), UNCHANGED <<clock, list>>, Sane(t, seen', clock)
  PROVE  IInv'
<1>1. answer \in Answers \cup {"error"} /\ answer # "ok"
  BY RouteAssumption DEF Answers, Kinds
<1>2. CASE ~IsLast(r) /\ Call(r, at[r] + 1, t)
  <2>1. at[r] + 1 \in Nat /\ at[r] + 1 >= 1
    BY DEF IInv, Walk
  <2> QED
    BY <1>2, <2>1, CallKeeps
<1>3. CASE IsLast(r) /\ Finish(r, answer, m, t)
  BY <1>1, <1>3, FinishKeeps
<1> QED
  BY <1>2, <1>3 DEF MoveOn

LEMMA RetryKeeps ==
  ASSUME IInv, NEW r \in Requests, NEW kind \in {"timed", "blip"},
         NEW answer \in Errors \cup {"none"}, kind = "blip" => answer = "overload",
         Retry(r, kind, answer), UNCHANGED <<clock, list>>
  PROVE  IInv'
<1>1. tries' \in [Requests -> Nat] /\ stage' \in [Requests -> Stages]
  BY DEF IInv, Walk, Retry, Stages
<1>2. kept' \in [Requests -> Errors \cup {"none"}]
  BY DEF IInv, Walk, Retry
<1>3. \A q \in Requests : stage'[q] = "blip" => kept'[q] = "overload"
  BY DEF IInv, Walk, Retry
<1>4. \A q \in Requests : stage'[q] \in {"idle", "streaming"} => stage'[q] = stage[q]
  BY DEF IInv, Walk, Retry
<1>5. Sane(table, seen, clock)'
  BY DEF IInv, Retry
<1> QED
  BY <1>1, <1>2, <1>3, <1>4, <1>5 DEF IInv, Walk, Retry

LEMMA GiveUpKeeps ==
  ASSUME IInv, NEW r \in Requests, stage[r] # "idle",
         GiveUpOnTime(r), UNCHANGED <<clock, list>>
  PROVE  IInv'
<1>1. CASE IsLast(r) /\ Finish(r, "error", NoModel, table) /\ UNCHANGED seen
  BY <1>1, FinishKeeps DEF IInv
<1>2. CASE /\ ~IsLast(r)
           /\ Call(r, at[r] + 1, Stall(table, Candidate(r), "timeout"))
           /\ Account(Candidate(r), "timeout")
  <2>1. Sane(Stall(table, Candidate(r), "timeout"), seen', clock)
    BY <1>2, CandidateType, StallSane DEF IInv, Walk
  <2>2. at[r] + 1 \in Nat /\ at[r] + 1 >= 1
    BY DEF IInv, Walk
  <2> QED
    BY <1>2, <2>1, <2>2, CallKeeps
<1> QED
  BY <1>1, <1>2 DEF GiveUpOnTime

-----------------------------------------------------------------------------
(***************************************************************************)
(* The steps.                                                              *)
(***************************************************************************)

LEMMA ArrivalStep ==
  ASSUME IInv, NEW r \in Requests, Prepare(r) \/ Begin(r)
  PROVE  IInv'
<1>1. CASE Prepare(r)
  <2>1. /\ sticky' \in [Sessions -> Models \cup {NoModel}]
        /\ stage' \in [Requests -> Stages]
    BY <1>1, RouteAssumption DEF IInv, Walk, Prepare, Stages
  <2>2. sticky[Session[r]] # NoModel => sticky[Session[r]] \in Models
    BY RouteAssumption DEF IInv, Walk
  <2>3. list' \in [Requests -> Seq(Models)]
    BY <1>1, <2>2 DEF IInv, Walk, Prepare
  <2>4. \A q \in Requests : at[q] \in 1..Len(list'[q])
    BY <1>1, <2>2 DEF IInv, Walk, Prepare
  <2>5. \A q \in Requests : stage'[q] \in {"idle", "streaming", "blip"} => stage'[q] = stage[q]
    BY <1>1 DEF IInv, Walk, Prepare
  <2>6. Walk'
    BY <1>1, <2>1, <2>3, <2>4, <2>5 DEF IInv, Walk, Prepare
  <2>7. Sane(table', seen, clock)
    BY <1>1, DeleteSane DEF IInv, Walk, Prepare
  <2> QED
    BY <1>1, <2>6, <2>7 DEF IInv, Prepare
<1>2. CASE Begin(r)
  BY <1>2, CallKeeps DEF IInv, Begin
<1> QED
  BY <1>1, <1>2

\* The first attempt at a candidate.
LEMMA AttemptStep ==
  ASSUME IInv, NEW r \in Requests,
         Serve(r) \/ Overflow(r) \/ Refuse(r) \/ Raise(r) \/ Timeout(r)
  PROVE  IInv'
<1>0. clock \in Nat /\ Candidate(r) \in Models /\ Sane(table, seen, clock)
  BY CandidateType DEF IInv, Walk
<1>1. CASE Serve(r)
  <2>1. PICK a \in Answers : Finish(r, a, Candidate(r), Reset(table, Candidate(r)))
    BY <1>1 DEF Serve
  <2>2. Sane(Reset(table, Candidate(r)), seen', clock)
    BY <1>0, <1>1, DeleteSane DEF Serve
  <2> QED
    BY <1>0, <1>1, <2>1, <2>2, FinishKeeps DEF Serve
<1>2. CASE Overflow(r)
  BY <1>0, <1>2, MoveOnKeeps DEF Overflow
<1>3. CASE Refuse(r)
  <2>1. PICK a \in Fallback :
           \/ a = "overload" /\ Retry(r, "blip", a)
           \/ /\ MoveOn(r, a, NoModel, Blame(table, Candidate(r), a))
              /\ Account(Candidate(r), a)
    BY <1>3 DEF Refuse
  <2>2. a \in Errors /\ a \in Failures
    BY RouteAssumption DEF Failures
  <2>3. CASE a = "overload" /\ Retry(r, "blip", a)
    BY <1>3, <2>2, <2>3, RetryKeeps DEF Refuse
  <2>4. CASE /\ MoveOn(r, a, NoModel, Blame(table, Candidate(r), a))
             /\ Account(Candidate(r), a)
    <3>1. Sane(Blame(table, Candidate(r), a), seen', clock)
      BY <1>0, <2>2, <2>4, BlameSane
    <3> QED
      BY <1>3, <2>2, <2>4, <3>1, MoveOnKeeps DEF Refuse
  <2> QED
    BY <2>1, <2>3, <2>4
<1>4. CASE Raise(r)
  <2>1. PICK f \in Failures :
           /\ IF f = "transport"
              THEN MoveOn(r, "error", NoModel, Blame(table, Candidate(r), f))
              ELSE MoveOn(r, f, Candidate(r), Blame(table, Candidate(r), f))
           /\ Account(Candidate(r), f)
    BY <1>4 DEF Raise
  <2>2. Sane(Blame(table, Candidate(r), f), seen', clock)
    BY <1>0, <2>1, BlameSane
  <2>3. CASE f = "transport"
    BY <1>4, <2>1, <2>2, <2>3, MoveOnKeeps DEF Raise
  <2>4. CASE f # "transport"
    <3>1. f \in Errors
      BY <2>4 DEF Failures
    <3> QED
      BY <1>0, <1>4, <2>1, <2>2, <2>4, <3>1, MoveOnKeeps DEF Raise
  <2> QED
    BY <2>3, <2>4
<1>5. CASE Timeout(r)
  BY <1>5, RetryKeeps, GiveUpKeeps DEF Timeout
<1> QED
  BY <1>1, <1>2, <1>3, <1>4, <1>5

\* The retries.
LEMMA RetryStep ==
  ASSUME IInv, NEW r \in Requests,
         RetryTimed(r) \/ RetryTimedFails(r) \/ RetryBlip(r) \/ RetryBlipFails(r)
  PROVE  IInv'
<1>0. clock \in Nat /\ Candidate(r) \in Models /\ Sane(table, seen, clock)
  BY CandidateType DEF IInv, Walk
<1>a. Errors \subseteq Answers /\ Errors \subseteq Failures /\ "ok" \in Answers /\ "ok" \notin Errors
  BY RouteAssumption DEF Answers, Failures, Kinds
<1>b. kept[r] \in Errors \cup {"none"}
  BY DEF IInv, Walk
<1>1. CASE RetryTimed(r)
  <2>1. CASE Finish(r, "ok", Candidate(r), Reset(table, Candidate(r))) /\ UNCHANGED seen
    <3>1. Sane(Reset(table, Candidate(r)), seen', clock)
      BY <1>0, <2>1, DeleteSane
    <3> QED
      BY <1>0, <1>a, <1>1, <2>1, <3>1, FinishKeeps DEF RetryTimed
  <2>2. ASSUME NEW a \in Errors, a = "overload" /\ Retry(r, "timed", a) PROVE IInv'
    BY <1>1, <2>2, RetryKeeps DEF RetryTimed
  <2>3. ASSUME NEW a \in Errors, Finish(r, a, Candidate(r), table) /\ UNCHANGED seen PROVE IInv'
    BY <1>0, <1>a, <1>1, <2>3, FinishKeeps DEF RetryTimed
  <2> QED
    BY <1>1, <2>1, <2>2, <2>3 DEF RetryTimed
<1>2. CASE RetryTimedFails(r)
  <2>1. CASE Retry(r, "timed", kept[r])
    BY <1>b, <1>2, <2>1, RetryKeeps DEF RetryTimedFails
  <2>2. CASE GiveUpOnTime(r)
    BY <1>2, <2>2, GiveUpKeeps DEF RetryTimedFails
  <2>3. CASE kept[r] # "none" /\ Finish(r, kept[r], Candidate(r), table) /\ UNCHANGED seen
    BY <1>0, <1>a, <1>b, <1>2, <2>3, FinishKeeps DEF RetryTimedFails
  <2>4. CASE Finish(r, "error", NoModel, table) /\ UNCHANGED seen
    BY <1>0, <1>2, <2>4, FinishKeeps DEF RetryTimedFails
  <2> QED
    BY <1>2, <2>1, <2>2, <2>3, <2>4 DEF RetryTimedFails
<1>3. CASE RetryBlip(r)
  <2>1. CASE Finish(r, "ok", Candidate(r), table) /\ UNCHANGED seen
    BY <1>0, <1>a, <1>3, <2>1, FinishKeeps DEF RetryBlip
  <2>2. ASSUME NEW a \in Errors, a = "overload" /\ Retry(r, "blip", a) PROVE IInv'
    BY <1>3, <2>2, RetryKeeps DEF RetryBlip
  <2>3. ASSUME NEW a \in Errors,
               MoveOn(r, a, NoModel, Blame(table, Candidate(r), a)),
               Account(Candidate(r), a)
        PROVE  IInv'
    <3>1. Sane(Blame(table, Candidate(r), a), seen', clock)
      BY <1>0, <1>a, <2>3, BlameSane
    <3> QED
      BY <1>3, <2>3, <3>1, MoveOnKeeps DEF RetryBlip
  <2> QED
    BY <1>3, <2>1, <2>2, <2>3 DEF RetryBlip
<1>4. CASE RetryBlipFails(r)
  <2>0. kept[r] = "overload" /\ kept[r] \in Errors
    BY <1>b, <1>4 DEF IInv, Walk, RetryBlipFails
  <2>1. CASE Finish(r, "error", NoModel, table) /\ UNCHANGED seen
    BY <1>0, <1>4, <2>1, FinishKeeps DEF RetryBlipFails
  <2>2. CASE Retry(r, "blip", kept[r])
    BY <1>4, <2>0, <2>2, RetryKeeps DEF RetryBlipFails
  <2>3. CASE /\ MoveOn(r, kept[r], NoModel, Blame(table, Candidate(r), kept[r]))
             /\ Account(Candidate(r), kept[r])
    <3>1. Sane(Blame(table, Candidate(r), kept[r]), seen', clock)
      BY <1>0, <1>a, <2>0, <2>3, BlameSane
    <3> QED
      BY <1>4, <2>0, <2>3, <3>1, MoveOnKeeps DEF RetryBlipFails
  <2> QED
    BY <1>4, <2>1, <2>2, <2>3 DEF RetryBlipFails
<1> QED
  BY <1>1, <1>2, <1>3, <1>4

LEMMA StreamStep ==
  ASSUME IInv, NEW r \in Requests, StreamOver(r) \/ StreamDies(r)
  PROVE  IInv'
<1>1. stage' \in [Requests -> Stages]
  <2>1. stage' = [stage EXCEPT ![r] = "done"]
    BY DEF StreamOver, StreamDies
  <2> QED
    BY <2>1 DEF IInv, Walk, Stages
<1>2. result' \in [Requests -> Answers \cup {"none", "error"}]
  BY DEF IInv, Walk, StreamOver, StreamDies
<1>3. \A q \in Requests : stage'[q] \in {"idle", "streaming", "blip"} => stage'[q] = stage[q]
  BY DEF IInv, Walk, StreamOver, StreamDies
<1>4. Walk'
  BY <1>1, <1>2, <1>3 DEF IInv, Walk, StreamOver, StreamDies
<1>5. CASE StreamOver(r)
  BY <1>4, <1>5 DEF IInv, StreamOver
<1>6. CASE StreamDies(r)
  <2>1. server[r] \in Models
    BY <1>6 DEF IInv, Walk, StreamDies
  <2>2. Sane(Stall(table, server[r], "mid_stream"), seen', clock)
    BY <1>6, <2>1, StallSane DEF IInv, Walk, StreamDies
  <2> QED
    BY <1>4, <1>6, <2>2 DEF IInv, StreamDies
<1> QED
  BY <1>5, <1>6

\* The operator and the clock.
LEMMA OutsideStep ==
  ASSUME IInv, (\E m \in Models : ClearCooldown(m)) \/ Tick
  PROVE  IInv'
<1>1. ASSUME NEW m \in Models, ClearCooldown(m) PROVE IInv'
  <2>1. Sane(Reset(table, m), seen, clock)
    BY DeleteSane DEF IInv, Walk
  <2> QED
    BY <1>1, <2>1 DEF ClearCooldown, IInv, Walk
<1>2. CASE Tick
  <2>1. Walk'
    BY <1>2 DEF Tick, IInv, Walk
  <2>2. ASSUME NEW row \in Rows, Brief(row, clock) PROVE Brief(row, clock + 1)
    <3>1. clock \in Nat /\ row.until \in Nat /\ Greater(1, ShortPark) \in Nat
      BY TimeAssumption DEF IInv, Walk, Rows, Greater
    <3> QED
      BY <2>2, <3>1 DEF Brief
  <2>3. Sane(table, seen, clock + 1)
    BY <2>2 DEF IInv, Sane
  <2> QED
    BY <1>2, <2>1, <2>3 DEF Tick, IInv
<1> QED
  BY <1>1, <1>2

LEMMA Inductive ==
  ASSUME IInv, [Next]_vars
  PROVE  IInv'
<1>1. CASE UNCHANGED vars
  BY <1>1 DEF vars, IInv, Walk
<1> QED
  BY <1>1, ArrivalStep, AttemptStep, RetryStep, StreamStep, OutsideStep
  DEF Next, Attempt, AllOver

LEMMA Start == Init => IInv
<1> SUFFICES ASSUME Init PROVE IInv
  OBVIOUS
<1>1. NoRow \in Rows /\ Brief(NoRow, 0)
  BY TimeAssumption DEF NoRow, Rows, Brief, Greater
<1>2. Walk
  BY ChainAssumption DEF Init, Walk, Stages
<1>3. Sane(table, seen, clock)
  BY <1>1 DEF Init, Sane
<1> QED
  BY <1>2, <1>3 DEF IInv

LEMMA Inside == Spec => []IInv
  BY Start, Inductive, PTL DEF Spec
-----------------------------------------------------------------------------
(***************************************************************************)
(* The theorems.                                                           *)
(***************************************************************************)

\* Every variable keeps its type, for any chains and ladders.
THEOREM TypeCorrect == Spec => []TypeOK
<1>1. IInv => TypeOK
  BY DEF IInv, Walk, Sane, Rows, TypeOK
<1> QED
  BY <1>1, Inside, PTL

\* A model is parked only for a failure of its own, however many requests share
\* the table and whatever they do (set_model_cooldown and its callers).
THEOREM CauseCorrect == Spec => []ParkedForCause
<1>1. IInv => ParkedForCause
  BY DEF IInv, Sane, ParkedForCause
<1> QED
  BY <1>1, Inside, PTL

\* Stalls never add up: a model that only timed out, was rate limited or
\* overloaded is parked for the short time at most, whatever the ladder, the
\* target's cooldown and the number of requests that saw it stall.
THEOREM StallCorrect == Spec => []ShortStalls
<1>1. IInv => ShortStalls
  BY DEF IInv, Sane, Brief, Mild, ShortStalls
<1> QED
  BY <1>1, Inside, PTL

\* An attempt of a request leaves the others where they are.
LEMMA OthersStay ==
  ASSUME NEW q \in Requests, NEW r \in Requests, q # r, Attempt(q),
         stage \in [Requests -> Stages]
  PROVE  stage'[r] = stage[r]
<1>1. \A k, t : Call(q, k, t) => stage'[r] = stage[r]
  BY DEF Call
<1>2. \A a, m, t : Finish(q, a, m, t) => stage'[r] = stage[r]
  BY DEF Finish
<1>3. \A kind, a : Retry(q, kind, a) => stage'[r] = stage[r]
  BY DEF Retry
<1>4. \A a, m, t : MoveOn(q, a, m, t) => stage'[r] = stage[r]
  BY <1>1, <1>2 DEF MoveOn
<1>5. GiveUpOnTime(q) => stage'[r] = stage[r]
  BY <1>1, <1>2 DEF GiveUpOnTime
<1> QED
  BY <1>1, <1>2, <1>3, <1>4, <1>5 DEF Attempt, Serve, Overflow, Refuse, Raise,
    Timeout, RetryTimed, RetryTimedFails, RetryBlip, RetryBlipFails

\* A failure the route falls back from reaches the client only from the last
\* candidate (_run_candidate_chain and _retry_transient).
THEOREM EndCorrect == Spec => FailsAtTheEnd
<1> DEFINE AtTheEnd ==
      \A r \in Requests :
        stage[r] \in {"calling", "blip"} /\ stage'[r] = "done"
          /\ result'[r] \in Fallback \cup {"error"} => IsLast(r)
<1>1. ASSUME IInv, [Next]_vars PROVE AtTheEnd
  <2> SUFFICES ASSUME NEW r \in Requests, stage[r] \in {"calling", "blip"},
                      stage'[r] = "done", result'[r] \in Fallback \cup {"error"},
                      ~IsLast(r)
               PROVE  FALSE
    OBVIOUS
  <2>1. stage \in [Requests -> Stages] /\ result \in [Requests -> Answers \cup {"none", "error"}]
    BY <1>1 DEF IInv, Walk
  <2>2. ASSUME NEW q \in Requests, q # r PROVE ~Attempt(q)
    BY <2>1, <2>2, OthersStay
  <2>3. ~Serve(r)
    <3>1. ASSUME NEW a \in Answers \ (Fallback \cup {"context"}),
                 Finish(r, a, Candidate(r), Reset(table, Candidate(r)))
          PROVE  FALSE
      <4>1. result'[r] = a
        BY <2>1, <3>1 DEF Finish
      <4> QED
        BY <4>1, RouteAssumption DEF Answers, Kinds
    <3> QED
      BY <3>1 DEF Serve
  <2>4. \A answer, m, t : ~MoveOn(r, answer, m, t)
    BY <2>1 DEF MoveOn, Call
  <2>5. \A answer : ~Retry(r, "blip", answer) /\ ~Retry(r, "timed", answer)
    BY <2>1 DEF Retry
  <2>6. ~GiveUpOnTime(r)
    BY <2>1 DEF GiveUpOnTime, Call
  <2>7. ~Overflow(r) /\ ~Refuse(r) /\ ~Raise(r) /\ ~Timeout(r)
    BY <2>4, <2>5, <2>6 DEF Overflow, Refuse, Raise, Timeout
  <2>8. ~RetryTimed(r) /\ ~RetryTimedFails(r)
    BY DEF RetryTimed, RetryTimedFails
  <2>9. ~RetryBlipFails(r)
    BY <2>4, <2>5 DEF RetryBlipFails
  <2>10. ~RetryBlip(r)
    <3>1. ~Finish(r, "ok", Candidate(r), table)
      <4>1. "ok" \notin Fallback \cup {"error"}
        BY RouteAssumption DEF Kinds
      <4> QED
        BY <2>1, <4>1 DEF Finish
    <3> QED
      BY <2>4, <2>5, <3>1 DEF RetryBlip
  <2>11. ~Attempt(r)
    BY <2>3, <2>7, <2>8, <2>9, <2>10 DEF Attempt
  <2>12. ASSUME NEW q \in Requests PROVE ~Prepare(q) /\ ~Begin(q) /\ ~StreamOver(q) /\ ~StreamDies(q)
    BY <2>1 DEF Prepare, Begin, Call, StreamOver, StreamDies
  <2>13. stage' # stage
    OBVIOUS
  <2>14. (\A m \in Models : ~ClearCooldown(m)) /\ ~Tick /\ ~AllOver /\ ~UNCHANGED vars
    BY <2>13 DEF ClearCooldown, Tick, AllOver, vars
  <2> QED
    BY <1>1, <2>2, <2>11, <2>12, <2>14 DEF Next
<1> QED
  BY <1>1, Inside, PTL DEF Spec, FailsAtTheEnd
-----------------------------------------------------------------------------
(* The walk goes forward and never lacks a candidate: with the fairness of its calls,
   which TLC checks, this is why every request is answered. *)

Asking == {"calling", "timed", "blip"}

\* The loop of _run_candidate_chain and the retry loops only go forward: a step that moves
\* a request under way ends its walk, takes it to a later candidate of the same list, or
\* is one more retry of the one at hand, within its retries.  A walk that is over stays so.
WalkGoesOn ==
  [][\A r \in Requests :
       /\ stage[r] = "done" => stage'[r] = "done"
       /\ stage[r] = "streaming" => stage'[r] \in {"streaming", "done"}
       /\ stage[r] \in Asking =>
            /\ list'[r] = list[r]
            /\ \/ <<stage'[r], at'[r], tries'[r]>> = <<stage[r], at[r], tries[r]>>
               \/ stage'[r] \in {"streaming", "done"}
               \/ at'[r] > at[r] /\ tries'[r] = 0
               \/ at'[r] = at[r] /\ tries'[r] = tries[r] + 1
                    /\ tries'[r] <= Retries[Candidate(r)]]_vars

\* Of candidates from position k on, the loop stops at one, whatever the table says.
LEMMA TurnExists ==
  ASSUME NEW l \in Seq(Models), NEW k \in Nat \ {0}, k <= Len(l), NEW t
  PROVE  \E j \in k..Len(l) : Turns(l, k, j, t)
<1> DEFINE Tried == {j \in k..Len(l) : j = Len(l) \/ ~Cooling(t, l[j])}
<1>1. Tried \in SUBSET Nat /\ Len(l) \in Tried
  OBVIOUS
<1>2. PICK j \in Tried : \A i \in Tried : j <= i
  <2> HIDE DEF Tried
  <2> QED
    BY <1>1, LeastNat
<1>3. \A i \in k..(j - 1) : Cooling(t, l[i])
  <2> TAKE i \in k..(j - 1)
  <2>1. i \in k..Len(l) /\ i < j
    BY <1>1, <1>2
  <2>2. i \notin Tried
    BY <1>1, <1>2, <2>1
  <2> QED
    BY <2>1, <2>2
<1> QED
  BY <1>2, <1>3 DEF Turns

\* What the pieces of the actions say of one request.
Forward(r) ==
  \/ stage'[r] \in {"streaming", "done"}
  \/ at'[r] > at[r] /\ tries'[r] = 0
  \/ at'[r] = at[r] /\ tries'[r] = tries[r] + 1 /\ tries'[r] <= Retries[Candidate(r)]

LEMMA ForwardPieces ==
  ASSUME Walk, NEW r \in Requests
  PROVE  /\ \A answer, m, t : Finish(r, answer, m, t) => Forward(r)
         /\ \A answer, m, t : MoveOn(r, answer, m, t) => Forward(r)
         /\ \A kind, answer : Retry(r, kind, answer) => Forward(r)
         /\ GiveUpOnTime(r) => Forward(r)
<1>1. /\ at \in [Requests -> Nat] /\ tries \in [Requests -> Nat] /\ stage \in [Requests -> Stages]
      /\ at[r] \in 1..Len(list[r]) /\ list[r] \in Seq(Models)
  BY DEF Walk
<1>2. ASSUME NEW answer, NEW m, NEW t, Finish(r, answer, m, t) PROVE Forward(r)
  BY <1>1, <1>2 DEF Finish, Forward
<1>3. ASSUME NEW t, Call(r, at[r] + 1, t) PROVE Forward(r)
  <2>1. PICK j \in (at[r] + 1)..Len(list[r]) :
          at' = [at EXCEPT ![r] = j] /\ tries' = [tries EXCEPT ![r] = 0]
    BY <1>3 DEF Call
  <2>2. j > at[r]
    BY <1>1, <2>1
  <2> QED
    BY <1>1, <2>1, <2>2 DEF Forward
<1>4. ASSUME NEW kind, NEW answer, Retry(r, kind, answer) PROVE Forward(r)
  <2>1. Retries[Candidate(r)] \in Nat
    BY <1>1, RouteAssumption DEF Candidate
  <2>2. /\ at' = at /\ tries[r] < Retries[Candidate(r)] /\ tries' = [tries EXCEPT ![r] = tries[r] + 1]
    BY <1>4 DEF Retry
  <2> QED
    BY <1>1, <2>1, <2>2 DEF Forward
<1>5. ASSUME NEW answer, NEW m, NEW t, MoveOn(r, answer, m, t) PROVE Forward(r)
  BY <1>2, <1>3, <1>5 DEF MoveOn
<1>6. ASSUME GiveUpOnTime(r) PROVE Forward(r)
  BY <1>2, <1>3, <1>6 DEF GiveUpOnTime
<1> HIDE DEF Forward
<1> QED
  BY <1>2, <1>4, <1>5, <1>6

LEMMA AttemptForward ==
  ASSUME Walk, NEW r \in Requests, Attempt(r)
  PROVE  Forward(r) /\ list' = list /\ stage[r] \in Asking
<1>1. list' = list /\ stage[r] \in Asking
  BY DEF Attempt, Serve, Overflow, Refuse, Raise, Timeout, RetryTimed, RetryTimedFails,
         RetryBlip, RetryBlipFails, Asking
<1>2. /\ \A answer, m, t : Finish(r, answer, m, t) => Forward(r)
      /\ \A answer, m, t : MoveOn(r, answer, m, t) => Forward(r)
  BY ForwardPieces
<1>3. /\ \A kind, answer : Retry(r, kind, answer) => Forward(r)
      /\ GiveUpOnTime(r) => Forward(r)
  BY ForwardPieces
<1>4. Forward(r)
  BY <1>2, <1>3 DEF Attempt, Serve, Overflow, Refuse, Raise, Timeout, RetryTimed, RetryTimedFails,
                    RetryBlip, RetryBlipFails
<1> QED
  BY <1>1, <1>4

\* A step of another request leaves this one where it is.
LEMMA OthersStand ==
  ASSUME Walk, NEW q \in Requests, NEW r \in Requests, q # r,
         Prepare(q) \/ Begin(q) \/ Attempt(q) \/ StreamOver(q) \/ StreamDies(q)
  PROVE  <<stage'[r], at'[r], tries'[r], list'[r]>> = <<stage[r], at[r], tries[r], list[r]>>
<1> DEFINE Same == /\ stage'[r] = stage[r] /\ at'[r] = at[r] /\ tries'[r] = tries[r]
<1>0. /\ stage \in [Requests -> Stages] /\ at \in [Requests -> Nat] /\ tries \in [Requests -> Nat]
      /\ list \in [Requests -> Seq(Models)]
  BY DEF Walk
<1>1. \A k, t : Call(q, k, t) => Same
  BY <1>0 DEF Call
<1>2. \A a, m, t : Finish(q, a, m, t) => Same
  BY <1>0 DEF Finish
<1>3. \A kind, a : Retry(q, kind, a) => Same
  BY <1>0 DEF Retry
<1>4. \A a, m, t : MoveOn(q, a, m, t) => Same
  BY <1>1, <1>2 DEF MoveOn
<1>5. GiveUpOnTime(q) => Same
  BY <1>1, <1>2 DEF GiveUpOnTime
<1> HIDE DEF Same
<1>6. CASE Attempt(q)
  <2>1. Same
    BY <1>1, <1>2, <1>3, <1>4, <1>5, <1>6 DEF Attempt, Serve, Overflow, Refuse, Raise,
      Timeout, RetryTimed, RetryTimedFails, RetryBlip, RetryBlipFails
  <2>2. list' = list
    BY <1>6, AttemptForward
  <2> QED
    BY <2>1, <2>2 DEF Same
<1>7. CASE Begin(q)
  <2>1. Same /\ list' = list
    BY <1>1, <1>7 DEF Begin
  <2> QED
    BY <2>1 DEF Same
<1>8. CASE Prepare(q) \/ StreamOver(q) \/ StreamDies(q)
  BY <1>0, <1>8 DEF Prepare, StreamOver, StreamDies
<1> QED
  BY <1>6, <1>7, <1>8

\* For any number of requests that park and revive each other's models: no request comes
\* back to a candidate it has left, and it asks none more often than its retries allow.
\* What is left for fairness is that each call ends.
THEOREM WalkCorrect == Spec => WalkGoesOn
<1> DEFINE Goes(r) ==
       /\ stage[r] = "done" => stage'[r] = "done"
       /\ stage[r] = "streaming" => stage'[r] \in {"streaming", "done"}
       /\ stage[r] \in Asking =>
            /\ list'[r] = list[r]
            /\ \/ <<stage'[r], at'[r], tries'[r]>> = <<stage[r], at[r], tries[r]>>
               \/ stage'[r] \in {"streaming", "done"}
               \/ at'[r] > at[r] /\ tries'[r] = 0
               \/ at'[r] = at[r] /\ tries'[r] = tries[r] + 1
                    /\ tries'[r] <= Retries[Candidate(r)]
<1>1. ASSUME IInv, [Next]_vars PROVE \A r \in Requests : Goes(r)
  <2> SUFFICES ASSUME NEW r \in Requests PROVE Goes(r)
    OBVIOUS
  <2>0. Walk /\ stage \in [Requests -> Stages]
    BY <1>1 DEF IInv, Walk
  <2>1. CASE UNCHANGED <<stage, at, tries, list>>
    BY <2>1
  <2>2. CASE \E q \in Requests : Prepare(q) \/ Begin(q) \/ Attempt(q) \/ StreamOver(q) \/ StreamDies(q)
    <3>1. PICK q \in Requests : Prepare(q) \/ Begin(q) \/ Attempt(q) \/ StreamOver(q) \/ StreamDies(q)
      BY <2>2
    <3>2. CASE q # r
      BY <2>0, <3>1, <3>2, OthersStand
    <3>3. CASE q = r /\ Attempt(r)
      BY <2>0, <3>3, AttemptForward DEF Forward, Asking
    <3>4. CASE q = r /\ (Prepare(r) \/ Begin(r))
      BY <3>4 DEF Prepare, Begin, Asking
    <3>5. CASE q = r /\ (StreamOver(r) \/ StreamDies(r))
      BY <2>0, <3>5 DEF StreamOver, StreamDies, Asking
    <3> QED
      BY <3>1, <3>2, <3>3, <3>4, <3>5
  <2>3. [Next]_vars
    BY <1>1
  <2> HIDE DEF Goes
  <2>4. CASE (\E m \in Models : ClearCooldown(m)) \/ Tick \/ UNCHANGED vars
    BY <2>1, <2>4 DEF ClearCooldown, Tick, vars
  <2> QED
    BY <2>2, <2>3, <2>4 DEF Next, AllOver
<1> QED
  BY <1>1, Inside, PTL DEF Spec, WalkGoesOn

\* Whatever other requests have written into the cooldown table, a walk that begins and a
\* candidate that is not the last have a next candidate to be called (model_in_cooldown
\* and the exemption of the last one, _run_candidate_chain).
CandidateLeft ==
  \A r \in Requests : \A t \in [Models -> Rows] :
    /\ stage[r] = "ready" => \E j \in 1..Len(list[r]) : Turns(list[r], 1, j, t)
    /\ ~IsLast(r) => \E j \in (at[r] + 1)..Len(list[r]) : Turns(list[r], at[r] + 1, j, t)

\* However the others have parked its models: a walk that begins, or leaves a candidate
\* that is not the last, finds one to call. The last is never skipped.
THEOREM CandidateCorrect == Spec => []CandidateLeft
<1>1. IInv => CandidateLeft
  <2> SUFFICES ASSUME IInv, NEW r \in Requests, NEW t \in [Models -> Rows]
               PROVE  /\ \E j \in 1..Len(list[r]) : Turns(list[r], 1, j, t)
                      /\ ~IsLast(r) => \E j \in (at[r] + 1)..Len(list[r]) : Turns(list[r], at[r] + 1, j, t)
    BY DEF CandidateLeft
  <2>1. list[r] \in Seq(Models) /\ at[r] \in 1..Len(list[r])
    BY DEF IInv, Walk
  <2>2. 1 \in Nat \ {0} /\ 1 <= Len(list[r])
    BY <2>1
  <2>3. ~IsLast(r) => at[r] + 1 \in Nat \ {0} /\ at[r] + 1 <= Len(list[r])
    BY <2>1 DEF IsLast
  <2> QED
    BY <2>1, <2>2, <2>3, TurnExists
<1> QED
  BY <1>1, Inside, PTL
=============================================================================
