------------------------- MODULE AuthorizationGrants -------------------------
(***************************************************************************)
(* The table authorization_grants: a skill administrator asks for a target *)
(* to be allowed, another administrator, of security, approves or revokes. *)
(* Each action is one transaction of auth/authorization.py; approve and    *)
(* revoke hold the row FOR UPDATE from the check to the commit, so they    *)
(* take effect at once.  A unique key covers target and status: a write    *)
(* that would give a target two rows of one status is refused and leaves   *)
(* the table as it was.                                                    *)
(*                                                                         *)
(* Reasons, effective dates in the future and the audit trail are left     *)
(* out.  The revision and digest an administrator sends with a decision    *)
(* repeat columns no transaction changes, so that check is left out too.   *)
(***************************************************************************)
CONSTANTS
  Grants,          \* row identifiers, drawn afresh by uuid4
  Targets,         \* target_type and target_id of a request
  Contents,        \* grant_json
  SkillAdmins,     \* users holding the role skill_admin
  SecurityAdmins,  \* users holding the role security_admin; somebody may hold both,
                   \* for account recovery gives the first role to any account
  None             \* an empty column

VARIABLE grants    \* the rows, by identifier

Users == SkillAdmins \cup SecurityAdmins

\* Rows written so far have status "requested", "approved" or "revoked"; the
\* CHECK constraint's fourth status, "rejected", is written by no code.
NoGrant == [status |-> "absent"]

GrantRow ==
  [status : {"requested", "approved", "revoked"}, target : Targets, content : Contents,
   requester : Users, approver : Users \cup {None}, revoker : Users \cup {None},
   expired : BOOLEAN]

AuthorizationAssumption == None \notin Users /\ None \notin Grants

ASSUME AuthorizationAssumption

TypeOK == grants \in [Grants -> GrantRow \cup {NoGrant}]

Init == grants = [g \in Grants |-> NoGrant]
------------------------------------------------------------------------------
Exists(g) == grants[g] # NoGrant

\* uq_authorization_grants_active: no other row of g's target has this status.
KeyFree(g, target, status) ==
  \A h \in Grants \ {g} :
    ~(Exists(h) /\ grants[h].target = target /\ grants[h].status = status)

Request(g, user, target, content) ==
  /\ ~Exists(g)
  /\ user \in SkillAdmins
  /\ KeyFree(g, target, "requested")
  /\ grants' = [grants EXCEPT ![g] =
       [status |-> "requested", target |-> target, content |-> content,
        requester |-> user, approver |-> None, revoker |-> None, expired |-> FALSE]]

(* Fault: the requester may approve. *)
ApproveOwn(g, user) ==
  /\ user \in SecurityAdmins
  /\ grants[g].status = "requested"
  /\ ~grants[g].expired
  /\ KeyFree(g, grants[g].target, "approved")
  /\ grants' = [grants EXCEPT ![g].status = "approved", ![g].approver = user]

Approve(g, user) ==
  /\ user \in SecurityAdmins
  /\ grants[g].status = "requested"
  /\ grants[g].requester # user
  /\ ~grants[g].expired
  /\ KeyFree(g, grants[g].target, "approved")
  /\ grants' = [grants EXCEPT ![g].status = "approved", ![g].approver = user]

(* Fault: a grant that was never approved is revoked too. *)
RevokeAny(g, user) ==
  /\ user \in SecurityAdmins
  /\ Exists(g)
  /\ grants[g].status # "revoked"
  /\ KeyFree(g, grants[g].target, "revoked")
  /\ grants' = [grants EXCEPT ![g].status = "revoked", ![g].revoker = user]

Revoke(g, user) ==
  /\ user \in SecurityAdmins
  /\ grants[g].status = "approved"
  /\ KeyFree(g, grants[g].target, "revoked")
  /\ grants' = [grants EXCEPT ![g].status = "revoked", ![g].revoker = user]

\* expires_at passes.
Expire(g) ==
  /\ Exists(g)
  /\ ~grants[g].expired
  /\ grants' = [grants EXCEPT ![g].expired = TRUE]

Next ==
  \E g \in Grants :
    \/ \E user \in Users, target \in Targets, content \in Contents :
         Request(g, user, target, content)
    \/ \E user \in Users : Approve(g, user) \/ Revoke(g, user)
    \/ Expire(g)

Spec == Init /\ [][Next]_grants
------------------------------------------------------------------------------
\* What an approved row says can be relied upon: two different people of the
\* two roles stand behind it, whatever roles they hold besides.
FourEyes ==
  \A g \in Grants : Exists(g) =>
    /\ grants[g].requester \in SkillAdmins
    /\ grants[g].status \in {"approved", "revoked"} =>
         /\ grants[g].approver \in SecurityAdmins \ {grants[g].requester}
    /\ grants[g].status = "revoked" => grants[g].revoker \in SecurityAdmins

\* The unique key leaves each target one grant in force: whatever two
\* administrators decide at the same time, a target never has two.
OneInForce ==
  \A g, h \in Grants :
    /\ Exists(g) /\ Exists(h)
    /\ grants[g].status = "approved" /\ grants[h].status = "approved"
    /\ grants[g].target = grants[h].target
    => g = h

\* "Historical approvals/revocations remain immutable audit facts"
\* (skills/grant_service.py): a decision is taken once, a revoked grant never
\* returns, and what was asked for, by whom, and who decided stay as written.
DecisionsAreFacts ==
  [][\A g \in Grants : Exists(g) =>
       /\ grants'[g] # NoGrant
       /\ \A f \in {"target", "content", "requester"} : grants'[g][f] = grants[g][f]
       /\ grants[g].approver # None => grants'[g].approver = grants[g].approver
       /\ grants[g].revoker # None => grants'[g].revoker = grants[g].revoker
       /\ grants'[g].status # grants[g].status =>
            <<grants[g].status, grants'[g].status>> \in
              {<<"requested", "approved">>, <<"approved", "revoked">>}]_grants

\* "security administrators are responsible for grant approve/revoke"
\* (project_changes/2026-08-31-e3-ar2-fastapi-auth/plan.md): a grant in force
\* can be taken back.  The key refuses the second revocation of a target.
ApprovedCanBeRevoked ==
  \A g \in Grants :
    grants[g].status = "approved" => KeyFree(g, grants[g].target, "revoked")
==============================================================================
