------------------------------ MODULE MCJobTable ------------------------------
(* The job table after its rows are committed, with two jobs of different     *)
(* priority, two lease owners and two attempts each; and the transactions     *)
(* that commit rows, with two producers.  Each is explored while the other    *)
(* rests: all they share is that a job may end, which admission has too.      *)
(*                                                                            *)
(* k1 is asked for with two payloads; three keys of one scope and one of      *)
(* another are more jobs than either limit, and than twice that of a scope.   *)
EXTENDS JobQueue, JobAdmission, TLC

CONSTANTS j1, j2, k1, k2, k3, k4, s1, s2, d1, d2

MCPriority == j1 :> 0 @@ j2 :> 1
MCRetryDelays == <<1>>

MCScopeOf == [k \in Keys |-> IF k \in {k1, k2, k3} THEN s1 ELSE s2]

MCRequests == [key : Keys, digest : {d1}] \cup {[key |-> k1, digest |-> d2]}

MCInit == Init /\ AdmissionInit

MCNext ==
  \/ AdmissionInit /\ Next /\ UNCHANGED admissionVars
  \/ Init /\ AdmissionNext /\ UNCHANGED vars

MCSpec == MCInit /\ [][MCNext]_<<vars, admissionVars>>

MCSymmetry ==
  Permutations(Owners) \cup Permutations({k2, k3})
===============================================================================
