---------------------------- MODULE BarrierSpec ----------------------------
(***************************************************************************)
(* What a barrier promises (spec.md section 3, "Barrier", and section 8,   *)
(* "Barrier liveness"): CPUs arrive one at a time; the barrier opens for   *)
(* everybody at once and only when every participant has arrived; each     *)
(* CPU then leaves, and may arrive at the next episode, at its own pace.   *)
(* round[p] counts the episodes p has left.                                *)
(***************************************************************************)
EXTENDS Naturals

CONSTANTS
  CPU,      \* the participants
  Rounds    \* number of episodes each participant goes through

VARIABLES
  at,       \* per CPU: "run" (outside), "wait" (arrived), "pass" (released)
  round

absVars == <<at, round>>

AbsInit ==
  /\ at = [p \in CPU |-> "run"]
  /\ round = [p \in CPU |-> 0]

Arrive(p) ==
  /\ at[p] = "run"
  /\ round[p] < Rounds
  /\ at' = [at EXCEPT ![p] = "wait"]
  /\ UNCHANGED round

\* The barrier opens: only when every participant waits, and for all of them.
Open ==
  /\ \A p \in CPU : at[p] = "wait"
  /\ at' = [p \in CPU |-> "pass"]
  /\ UNCHANGED round

Leave(p) ==
  /\ at[p] = "pass"
  /\ at' = [at EXCEPT ![p] = "run"]
  /\ round' = [round EXCEPT ![p] = @ + 1]

AbsNext == Open \/ \E p \in CPU : Arrive(p) \/ Leave(p)

\* Once open, the barrier is left by everybody.
AbsSpec ==
  /\ AbsInit
  /\ [][AbsNext]_absVars
  /\ WF_absVars(Open)
  /\ \A p \in CPU : WF_absVars(Leave(p))
=============================================================================
