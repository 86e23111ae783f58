--------------------------- MODULE MCSkillAuthority ---------------------------
(* SkillAuthority with two grants and two administrators, one of whom holds  *)
(* both roles; the configurations give packages, tool sets and runs.         *)
EXTENDS SkillAuthority, TLC

CONSTANTS g1, g2, v1, v2, t1, t2, anna, bert, r1, r2

MCGrants == {g1, g2}
MCSkillAdmins == {anna, bert}
MCSecurityAdmins == {bert}

Symmetry ==
  Permutations(Grants) \cup Permutations(Versions) \cup Permutations(ToolSets)
    \cup Permutations(Runs)
===============================================================================
