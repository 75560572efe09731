--------------------------- MODULE OneTimePermit ---------------------------
(***************************************************************************)
(* What an approval gate promises: leave to make one call once.  A call    *)
(* that needs leave asks for it; somebody grants or refuses it, once; a    *)
(* call like the one that asked uses it, once, and not after its time.     *)
(* ToolCalls is shown to implement this.                                   *)
(***************************************************************************)
EXTENDS Integers

CONSTANTS
  Calls,      \* the calls that are attempted; a permit is named by who asked
  Alike,      \* Alike[c]: the calls that are the same as c
  Life,       \* how long a permit lives
  NoPermit

VARIABLES
  clock,
  permit,     \* the state of the permit a call asked for, and since when
  via         \* the permit a call was let in on

vars == <<clock, permit, via>>

Init ==
  /\ clock = 0
  /\ permit \in [Calls -> [status : {"none"}, asked : {0}]]
  /\ via = [c \in Calls |-> NoPermit]

Becomes(p, s) == permit' = [permit EXCEPT ![p].status = s]

Ask(c) ==
  /\ permit[c].status = "none" /\ via[c] = NoPermit
  /\ permit' = [permit EXCEPT ![c] = [status |-> "pending", asked |-> clock]]
  /\ UNCHANGED <<clock, via>>

Answer(p) ==
  /\ permit[p].status = "pending"
  /\ \E s \in {"approved", "rejected"} : Becomes(p, s)
  /\ UNCHANGED <<clock, via>>

\* Everything that was never answered in time lapses.
Lapse ==
  /\ permit' = [p \in Calls |->
       IF permit[p].status = "pending" /\ permit[p].asked + Life < clock
       THEN [permit[p] EXCEPT !.status = "expired"] ELSE permit[p]]
  /\ UNCHANGED <<clock, via>>

Use(c, p) ==
  /\ via[c] = NoPermit /\ permit[c].status = "none"
  /\ permit[p].status = "approved" /\ clock <= permit[p].asked + Life
  /\ c \in Alike[p]
  /\ Becomes(p, "consumed")
  /\ via' = [via EXCEPT ![c] = p]
  /\ UNCHANGED clock

Tick ==
  /\ clock' = clock + 1
  /\ UNCHANGED <<permit, via>>

Next ==
  \/ \E c \in Calls : Ask(c) \/ Answer(c)
  \/ \E c, p \in Calls : Use(c, p)
  \/ Lapse
  \/ Tick

Spec == Init /\ [][Next]_vars
=============================================================================
