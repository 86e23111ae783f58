---------------------------- MODULE JobLifecycle ----------------------------
(***************************************************************************)
(* What the job table promises about each job, without leases, clocks or   *)
(* tables: it is granted to one holder at a time, at most MaxAttempts      *)
(* times, every grant in an epoch of its own; only the holder of the       *)
(* current epoch can commit, and only if the job has not been revoked; the *)
(* verdict is final and names the epoch that reached it.                   *)
(*                                                                         *)
(* One transaction may move several jobs (a poll recovers every lapsed     *)
(* lease), so a step moves each job at most once, independently of others. *)
(***************************************************************************)
EXTENDS Naturals

CONSTANTS Jobs, MaxAttempts

VARIABLES
  phase,    \* where each job is
  epoch,    \* number of grants so far
  winner    \* the epoch whose result was kept, 0 if none

lifecycleVars == <<phase, epoch, winner>>

Verdicts == {"succeeded", "cancelled", "dead_letter"}

Init ==
  /\ phase = [j \in Jobs |-> "absent"]
  /\ epoch = [j \in Jobs |-> 0]
  /\ winner = [j \in Jobs |-> 0]

Moves(j, from, to) == phase[j] \in from /\ phase'[j] = to

SameEpoch(j) == epoch'[j] = epoch[j] /\ winner'[j] = winner[j]

Submit(j) == Moves(j, {"absent"}, "idle") /\ SameEpoch(j)

Grant(j) ==
  /\ Moves(j, {"idle"}, "held")
  /\ epoch[j] < MaxAttempts
  /\ epoch'[j] = epoch[j] + 1
  /\ winner'[j] = winner[j]

(* The holder failed or was given up on, and another grant is left. *)
Release(j) ==
  /\ Moves(j, {"held"}, "idle")
  /\ epoch[j] < MaxAttempts
  /\ SameEpoch(j)

Commit(j) ==
  /\ Moves(j, {"held"}, "succeeded")
  /\ epoch'[j] = epoch[j]
  /\ winner'[j] = epoch[j]

Bury(j) == Moves(j, {"held"}, "dead_letter") /\ SameEpoch(j)

Revoke(j) ==
  /\ \/ Moves(j, {"idle"}, "cancelled")
     \/ Moves(j, {"held"}, "revoked")
  /\ SameEpoch(j)

Stop(j) == Moves(j, {"revoked"}, "cancelled") /\ SameEpoch(j)

Rests(j) == phase'[j] = phase[j] /\ SameEpoch(j)

JobStep(j) ==
  \/ Rests(j) \/ Submit(j) \/ Grant(j) \/ Release(j)
  \/ Commit(j) \/ Bury(j) \/ Revoke(j) \/ Stop(j)

Next == \A j \in Jobs : JobStep(j)

Spec == Init /\ [][Next]_lifecycleVars
=============================================================================
