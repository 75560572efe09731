----------------------------- MODULE SharedRows -----------------------------
(***************************************************************************)
(* Small registries that several processes share through one database:     *)
(* invitations, dead letters, delivery ids and windowed counters.  A call  *)
(* has no await, so inside a process it is one step; between processes it  *)
(* is as many as it has statements that commit on their own.  The reads    *)
(* come before the transaction of the write, which SQLite opens at the     *)
(* first INSERT or UPDATE.                                                 *)
(***************************************************************************)
EXTENDS Integers, FiniteSets

CONSTANTS
  Processes,
  Invitations,
  Letters,      \* dead letters
  Deliveries,   \* ids of webhook deliveries
  Keys,         \* request ids of the counter
  CountLimit,   \* limit= of the counter
  CountWindow,  \* its window_seconds=
  Life,         \* ttl= of invitations and deliveries
  RowClockMax,  \* bound: the last instant
  Nothing

ASSUME RowsAssumption ==
  /\ CountLimit \in Nat \ {0} /\ CountWindow \in Nat \ {0} /\ Life \in Nat \ {0}
  /\ RowClockMax \in Nat
  /\ Nothing \notin Invitations \cup Letters \cup Keys

Buckets == {(t \div CountWindow) * CountWindow : t \in 0..RowClockMax}

VARIABLES
  rowClock,
  invited,     \* rows of invitation: when they expire
  accepted,    \* rows with accepted = 1
  replayed,    \* rows of dead_letter with state = 'replayed'
  delivered,   \* rows of replay: when they expire
  counted,     \* column used of shared_counters, by bucket
  reserved,    \* rows of counter_reservations: bucket and request id
  reading      \* what a process has read for: operation, row, bucket, sum

rowVars == <<rowClock, invited, accepted, replayed, delivered, counted, reserved, reading>>

Read == [op : {"accept"}, row : Invitations] \cup [op : {"replay"}, row : Letters]
        \cup [op : {"count"}, row : Keys, bucket : Buckets, sum : Nat]

Bucket == (rowClock \div CountWindow) * CountWindow

RowsInit ==
  /\ rowClock = 0
  /\ invited = [i \in Invitations |-> 0] /\ accepted = {}
  /\ replayed = {} /\ delivered = [d \in Deliveries |-> 0]
  /\ counted = [b \in Buckets |-> 0] /\ reserved = {}
  /\ reading = [p \in Processes |-> Nothing]

Reads(p, what) == reading[p] = Nothing /\ reading' = [reading EXCEPT ![p] = what]
ReadOver(p) == reading' = [reading EXCEPT ![p] = Nothing]

IssueInvitation(i) ==
  /\ invited[i] = 0 /\ invited' = [invited EXCEPT ![i] = rowClock + Life]
  /\ UNCHANGED <<rowClock, accepted, replayed, delivered, counted, reserved, reading>>

\* InvitationService.accept: the SELECT, then the UPDATE and its commit
ReadInvitation(p, i) ==
  /\ invited[i] > rowClock /\ i \notin accepted
  /\ Reads(p, [op |-> "accept", row |-> i])
  /\ UNCHANGED <<rowClock, invited, accepted, replayed, delivered, counted, reserved>>

AcceptInvitation(p, i) ==
  /\ reading[p] = [op |-> "accept", row |-> i]
  /\ accepted' = accepted \cup {i}
  /\ ReadOver(p)
  /\ UNCHANGED <<rowClock, invited, replayed, delivered, counted, reserved>>

\* DeadLetterStore.replay, for the rows that add has written, likewise
ReadLetter(p, l) ==
  /\ l \notin replayed
  /\ Reads(p, [op |-> "replay", row |-> l])
  /\ UNCHANGED <<rowClock, invited, accepted, replayed, delivered, counted, reserved>>

ReplayLetter(p, l) ==
  /\ reading[p] = [op |-> "replay", row |-> l]
  /\ replayed' = replayed \cup {l}
  /\ ReadOver(p)
  /\ UNCHANGED <<rowClock, invited, accepted, delivered, counted, reserved>>

Purged(d) == delivered[d] <= rowClock

\* ReplayProtector.reserve: DELETE of what has expired, then an INSERT that the
\* primary key refuses to all but one.  The DELETE leaves what the INSERT of another
\* process has written since, so the two are one step.
ReserveDelivery(d) ==
  /\ Purged(d)
  /\ delivered' = [e \in Deliveries |-> IF e = d THEN rowClock + Life
                                        ELSE IF Purged(e) THEN 0 ELSE delivered[e]]
  /\ UNCHANGED <<rowClock, invited, accepted, replayed, counted, reserved, reading>>

\* DistributedCounter.reserve: both SELECTs, and the way out without a write
ReadCounter(p, k) ==
  /\ <<Bucket, k>> \notin reserved /\ counted[Bucket] + 1 <= CountLimit
  /\ Reads(p, [op |-> "count", row |-> k, bucket |-> Bucket, sum |-> counted[Bucket]])
  /\ UNCHANGED <<rowClock, invited, accepted, replayed, delivered, counted, reserved>>

\* Mutant: the sum that was read, plus one, replaces the sum.
FromRead(read) == read.sum + 1

Added(read) == counted[read.bucket] + 1

\* The upsert adds to what is there by now; a request id that is there by now fails on
\* its primary key, and both INSERTs roll back.
WriteCounter(p) ==
  LET read == reading[p] IN
  /\ read \in [op : {"count"}, row : Keys, bucket : Buckets, sum : 0..CountLimit]
  /\ IF <<read.bucket, read.row>> \in reserved THEN UNCHANGED <<counted, reserved>>
     ELSE /\ counted' = [counted EXCEPT ![read.bucket] = Added(read)]
          /\ reserved' = reserved \cup {<<read.bucket, read.row>>}
  /\ ReadOver(p)
  /\ UNCHANGED <<rowClock, invited, accepted, replayed, delivered>>

\* A process dies between its read and its write.
ProcessDies(p) ==
  /\ reading[p] # Nothing /\ ReadOver(p)
  /\ UNCHANGED <<rowClock, invited, accepted, replayed, delivered, counted, reserved>>

RowTick ==
  /\ rowClock < RowClockMax /\ rowClock' = rowClock + 1
  /\ UNCHANGED <<invited, accepted, replayed, delivered, counted, reserved, reading>>

RowsNext ==
  \/ \E i \in Invitations :
       IssueInvitation(i) \/ \E p \in Processes : ReadInvitation(p, i) \/ AcceptInvitation(p, i)
  \/ \E p \in Processes, l \in Letters : ReadLetter(p, l) \/ ReplayLetter(p, l)
  \/ \E d \in Deliveries : ReserveDelivery(d)
  \/ \E p \in Processes, k \in Keys : ReadCounter(p, k)
  \/ \E p \in Processes : WriteCounter(p) \/ ProcessDies(p)
  \/ RowTick

RowsSpec == RowsInit /\ [][RowsNext]_rowVars

-----------------------------------------------------------------------------
(* Properties *)

\* Type invariant.
RowsTypeOK ==
  /\ rowClock \in 0..RowClockMax
  /\ invited \in [Invitations -> Nat] /\ accepted \subseteq Invitations
  /\ replayed \subseteq Letters /\ delivered \in [Deliveries -> Nat]
  /\ counted \in [Buckets -> Nat] /\ reserved \subseteq Buckets \X Keys
  /\ reading \in [Processes -> Read \cup {Nothing}]

\* What is counted is counted once, whoever retries, races or dies: the column used
\* is the number of requests reserved in its bucket (DistributedCounter.reserve).
CountedOnce ==
  \A b \in Buckets : counted[b] = Cardinality({k \in Keys : <<b, k>> \in reserved})
=============================================================================
