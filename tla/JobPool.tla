------------------------------ MODULE JobPool ------------------------------
(***************************************************************************)
(* What the transfer queue promises, without how a transfer is made: jobs  *)
(* wait in the order they were submitted, at most Capacity of them run, no *)
(* slot idles while a job waits, a job that stopped may be submitted       *)
(* again, and one that is final never runs again.                          *)
(*                                                                         *)
(* Jobs are numbered in the order in which they are submitted.             *)
(***************************************************************************)
EXTENDS Naturals, FiniteSets

CONSTANTS Job,       \* the jobs, numbered 1, 2, ... as they are submitted
          Capacity   \* how many may run at once

VARIABLE phase       \* phase[j]: where job j stands

Phase == {"new", "waiting", "running", "stopped", "final", "dropped"}

PoolTypeOK == phase \in [Job -> Phase]

In(ph, s) == {j \in Job : ph[j] = s}

PoolInit == phase = [j \in Job |-> "new"]

(***************************************************************************)
(* From ph, the earliest waiting jobs take every free slot.                *)
(***************************************************************************)
Fills(ph, S) ==
  LET free    == Capacity - Cardinality(In(ph, "running"))
      waiting == Cardinality(In(ph, "waiting"))
  IN  /\ S \subseteq In(ph, "waiting")
      /\ Cardinality(S) = IF free < waiting THEN free ELSE waiting
      /\ \A i \in S, k \in In(ph, "waiting") \ S : i < k

Dispatch(ph) ==
  \E S \in SUBSET Job :
    /\ Fills(ph, S)
    /\ phase' = [j \in Job |-> IF j \in S THEN "running" ELSE ph[j]]

Submit(j) ==
  /\ phase[j] = "new"
  /\ \A i \in Job : i < j => phase[i] # "new"
  /\ Dispatch([phase EXCEPT ![j] = "waiting"])

Resubmit(j) ==
  /\ phase[j] = "stopped"
  /\ Dispatch([phase EXCEPT ![j] = "waiting"])

Finish(j, s) ==
  /\ phase[j] = "running"
  /\ Dispatch([phase EXCEPT ![j] = s])

\* Jobs that had not started are taken out of the queue: no slot is freed.
Withdraw(W) ==
  /\ W \subseteq In(phase, "waiting")
  /\ phase' = [j \in Job |-> IF j \in W THEN "stopped" ELSE phase[j]]

Drop ==
  phase' = [j \in Job |-> IF phase[j] \in {"stopped", "final"}
                            THEN "dropped" ELSE phase[j]]

\* The page is loaded again: what was listed stays listed, and never runs.
Restart ==
  phase' = [j \in Job |-> IF phase[j] \in {"new", "dropped"}
                            THEN phase[j] ELSE "final"]

PoolNext ==
  \/ \E j \in Job : Submit(j) \/ Resubmit(j)
  \/ \E j \in Job, s \in {"stopped", "final"} : Finish(j, s)
  \/ \E W \in SUBSET Job : Withdraw(W)
  \/ Drop
  \/ Restart

PoolSpec == PoolInit /\ [][PoolNext]_phase
=============================================================================
