-------------------------- MODULE MCSkillCatalogues --------------------------
(* Two processes with their loops, and two Skills of one package each.  Of    *)
(* the requests of p1, one prepares runs and the other manages Skills; which  *)
(* Skill is the first to change makes no difference.                          *)
EXTENDS SkillCatalogues, TLC

CONSTANTS p1, p2, r1, r2, s1, s2, v1, v2

MCHostOf == r1 :> p1 @@ r2 :> p1
MCPackagesOf == s1 :> {v1} @@ s2 :> {v2}

Divided ==
  /\ ~TaskAt(r1, "committed")
  /\ ~TaskAt(r2, "open")
  /\ committed[1][s2] = Unpublished

MCNext == CataloguesNext /\ Divided'

MCSpec ==
  /\ CataloguesInit /\ [][MCNext]_catalogueVars
  /\ \A p \in Processes : WF_catalogueVars(LoopStep(p))
==============================================================================
