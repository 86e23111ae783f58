------------------------ MODULE MCAuthorizationGrants ------------------------
(* AuthorizationGrants with three rows, two targets and an administrator   *)
(* who holds both roles.                                                   *)
EXTENDS AuthorizationGrants, TLC

CONSTANTS g1, g2, g3, t1, t2, c1, a, b, s

MCGrants == {g1, g2, g3}
MCTargets == {t1, t2}
MCContents == {c1}
MCSkillAdmins == {a, b}
MCSecurityAdmins == {b, s}

Symmetry == Permutations(MCGrants) \cup Permutations(MCTargets)
==============================================================================
